-------------------------- MODULE Hungarian_proofs --------------------------
(***************************************************************************)
(* Proofs about Hungarian, for matrices of any size and costs of any       *)
(* value: the stars stay independent zeros, an alternating path never runs *)
(* in a circle nor stops short, the costs shifted by step5 stay the input  *)
(* less a potential of each row and column, the functions call each other  *)
(* finitely often, and the assignment costs least.                         *)
(***************************************************************************)
EXTENDS Hungarian, FiniteSetTheorems, TLAPS

RowsOf(S) == {c[1] : c \in S}
ColumnsOf(S) == {c[2] : c \in S}

(* Stars are independent zeros; primes are zeros.                          *)
StarInv ==
  /\ Independent(star)
  /\ \A c \in star \cup prime : dist[c] = 0

(* Outside the search nothing is primed and no row is covered; the covered *)
(* columns are those of the stars.                                         *)
RestInv ==
  /\ step \in {"reduce", "stars", "step2a", "step2b", "done"} =>
       prime = {} /\ coveredRows = {}
  /\ step = "reduce" => star = {} /\ dist = input
  /\ coveredColumns \subseteq ColumnsOf(star)
  /\ step \in {"reduce", "stars", "step2b", "done"} => ColumnsOf(star) \subseteq coveredColumns
  /\ step = "done" => Cardinality(coveredColumns) = minDim

Searching == step \in {"step3", "step4", "step5"}

(* A prime is older than another if it stands in the column of a star in   *)
(* whose row the other stands: no alternating path runs in a circle.       *)
Older(rank) ==
  /\ rank \in [Rows -> Nat]
  /\ \A p \in prime, s \in star : p[2] = s[2] => rank[s[1]] < rank[p[1]]

(* During a search each star is covered once, by its row if a prime has    *)
(* been found there, else by its column; a prime stands in a column that   *)
(* is not covered and, but for the start of a path, in a covered row.      *)
SearchInv ==
  /\ Cardinality(star) < minDim
  /\ \A s \in star : s[1] \in coveredRows <=> s[2] \notin coveredColumns
  /\ coveredRows \subseteq RowsOf(star) \cap RowsOf(prime)
  /\ \A p \in prime : p[2] \notin coveredColumns
  /\ \A p, q \in prime : p[1] = q[1] => p = q
  /\ step # "step4" => RowsOf(prime) \subseteq coveredRows
  /\ \E rank : Older(rank)

(* While a path is followed: newStar has one element in each row, and only *)
(* column starCol has two, the star still to be taken and the prime last   *)
(* added.  Stars taken have had a prime put in their column and are older  *)
(* than all that is to come.                                               *)
PathHead(h) == h \in prime \cap newStar /\ h[2] = starCol

Path(rank, h) ==
  /\ PathHead(h)
  /\ \A a \in newStar : a[2] = starCol => a = h \/ a \in star
  /\ \A t \in star \ newStar : rank[h[1]] <= rank[t[1]]

PathInv ==
  /\ newStar \subseteq star \cup prime
  /\ \A a, b \in newStar : a[1] = b[1] => a = b
  /\ \A a, b \in newStar : a[2] = b[2] /\ a[2] # starCol => a = b
  /\ StarIn(starCol) \subseteq newStar
  /\ RowsOf(star) \subseteq RowsOf(newStar)
  /\ \A t \in star \ newStar : \E a \in newStar \ star : a[2] = t[2]
  /\ \A a \in newStar \ star : a[2] # starCol => \E t \in star \ newStar : t[2] = a[2]
  /\ \E rank : Older(rank) /\ \E h : Path(rank, h)

(* The shorter dimension is reduced; a line of the other has a negative    *)
(* potential only if it holds a star.                                      *)
RowsShorter == Cardinality(Rows) <= Cardinality(Columns)

Potential(u, v) ==
  /\ u \in [Rows -> Int] /\ v \in [Columns -> Int]
  /\ \A c \in Cells : dist[c] = input[c] - u[c[1]] - v[c[2]]
  /\ IF RowsShorter
     THEN \A j \in Columns : v[j] <= 0 /\ (v[j] < 0 => j \in ColumnsOf(star))
     ELSE \A i \in Rows : u[i] <= 0 /\ (u[i] < 0 => i \in RowsOf(star))

CostInv == \E u, v : Potential(u, v)

Shape ==
  \E m \in 1 .. MaxRows, n \in 1 .. MaxColumns :
    input \in [(1 .. m) \X (1 .. n) -> 0 .. MaxCost]

IInv ==
  /\ Shape /\ TypeOK /\ StarInv /\ RestInv /\ CostInv
  /\ Searching => SearchInv
  /\ step = "step4" => PathInv
-----------------------------------------------------------------------------
(* SETS OF NUMBERS, ROWS AND COLUMNS                                       *)

(* Min of a set of natural numbers is the least of them.                   *)
LEMMA MinIs ==
  ASSUME NEW S \in SUBSET Nat, S # {}
  PROVE  Min(S) \in S /\ \A y \in S : Min(S) <= y
<1> DEFINE R == OpToRel(<, Nat)
<1>1. PICK x \in S : \A y \in S : ~(<<y, x>> \in R)
  <2> HIDE DEF R
  <2> QED  BY NatLessThanWellFounded, WFMin DEF R
<1>2. ASSUME NEW y \in S PROVE x <= y
  <2>1. x \in Nat /\ y \in Nat  OBVIOUS
  <2>2. CASE y < x
    <3>1. <<y, x>> \in R  BY <2>1, <2>2 DEF OpToRel
    <3> QED  BY <1>1, <3>1
  <2> QED  BY <2>1, <2>2
<1> QED  BY <1>2 DEF Min

(* The matrix is a grid of rows and columns, none of them numbered 0, and  *)
(* its shorter dimension is as long as one and no longer than the other.   *)
LEMMA Grid ==
  ASSUME Shape
  PROVE  /\ IsFiniteSet(Rows) /\ IsFiniteSet(Columns) /\ IsFiniteSet(Cells)
         /\ Rows # {} /\ Columns # {}
         /\ 0 \notin Columns
         /\ Cells = Rows \X Columns
         /\ input \in [Cells -> Nat]
<1>1. PICK m \in 1 .. MaxRows, n \in 1 .. MaxColumns :
        input \in [(1 .. m) \X (1 .. n) -> 0 .. MaxCost]
  BY DEF Shape
<1>2. Cells = (1 .. m) \X (1 .. n)  BY <1>1 DEF Cells
<1>3. m \in Nat /\ n \in Nat /\ m > 0 /\ n > 0  BY HungarianAssumption
<1>4. Rows = 1 .. m
  <2>1. \A i \in 1 .. m : <<i, 1>> \in Cells  BY <1>2, <1>3
  <2>2. ASSUME NEW k \in 1 .. m PROVE k \in Rows
    <3> DEFINE c == <<k, 1>>
    <3>1. c \in Cells /\ c[1] = k  BY <2>1
    <3> HIDE DEF c
    <3> QED  BY <3>1 DEF Rows
  <2>3. \A c \in Cells : c[1] \in 1 .. m  BY <1>2
  <2> QED  BY <2>2, <2>3 DEF Rows
<1>5. Columns = 1 .. n
  <2>1. \A j \in 1 .. n : <<1, j>> \in Cells  BY <1>2, <1>3
  <2>2. ASSUME NEW k \in 1 .. n PROVE k \in Columns
    <3> DEFINE c == <<1, k>>
    <3>1. c \in Cells /\ c[2] = k  BY <2>1
    <3> HIDE DEF c
    <3> QED  BY <3>1 DEF Columns
  <2>3. \A c \in Cells : c[2] \in 1 .. n  BY <1>2
  <2> QED  BY <2>2, <2>3 DEF Columns
<1>6. IsFiniteSet(1 .. m) /\ IsFiniteSet(1 .. n)  BY <1>3, FS_Interval
<1>7. IsFiniteSet((1 .. m) \X (1 .. n))  BY <1>6, FS_Product
<1>8. 1 \in 1 .. m /\ 1 \in 1 .. n  BY <1>3
<1>9. 0 .. MaxCost \subseteq Nat  BY HungarianAssumption
<1> QED  BY <1>1, <1>2, <1>4, <1>5, <1>6, <1>7, <1>8, <1>9

(* Of two positions, the row and the column tell them apart.               *)
LEMMA Coordinates ==
  ASSUME Shape
  PROVE  /\ \A c \in Cells : c[1] \in Rows /\ c[2] \in Columns
         /\ \A c, d \in Cells : c[1] = d[1] /\ c[2] = d[2] => c = d
BY Grid

(* The smaller of the numbers of rows and columns.                         *)
LEMMA Shorter ==
  ASSUME Shape
  PROVE  /\ minDim \in Nat
         /\ minDim = IF RowsShorter THEN Cardinality(Rows) ELSE Cardinality(Columns)
         /\ minDim <= Cardinality(Rows) /\ minDim <= Cardinality(Columns)
<1> DEFINE m == Cardinality(Rows)
           n == Cardinality(Columns)
<1>1. m \in Nat /\ n \in Nat  BY Grid, FS_CardinalityType
<1> HIDE DEF m, n
<1>2. Min({m, n}) \in {m, n} /\ \A y \in {m, n} : Min({m, n}) <= y
  BY <1>1, MinIs
<1>3. minDim = Min({m, n})  BY DEF minDim, m, n
<1> QED  BY <1>1, <1>2, <1>3 DEF RowsShorter, m, n

(* Independent positions have a row and a column each.                     *)
LEMMA OneEach ==
  ASSUME Shape, NEW S \in SUBSET Cells, Independent(S)
  PROVE  /\ IsFiniteSet(S) /\ Cardinality(S) \in Nat
         /\ Cardinality(ColumnsOf(S)) = Cardinality(S)
         /\ Cardinality(RowsOf(S)) = Cardinality(S)
         /\ Cardinality(S) <= minDim
<1>1. IsFiniteSet(S) /\ Cardinality(S) \in Nat
  BY Grid, FS_Subset, FS_CardinalityType
<1>2. Cardinality(ColumnsOf(S)) = Cardinality(S)
  <2> DEFINE f == [c \in S |-> c[2]]
             T == ColumnsOf(S)
  <2>1. f \in Surjection(S, T)  BY DEF Surjection, ColumnsOf
  <2>2. f \in Injection(S, T)
    BY DEF Injection, IsInjective, ColumnsOf, Independent
  <2> HIDE DEF f, T
  <2>3. Cardinality(T) = Cardinality(S)  BY <1>1, <2>1, <2>2, FS_Surjection
  <2> QED  BY <2>3 DEF T
<1>3. Cardinality(RowsOf(S)) = Cardinality(S)
  <2> DEFINE f == [c \in S |-> c[1]]
             T == RowsOf(S)
  <2>1. f \in Surjection(S, T)  BY DEF Surjection, RowsOf
  <2>2. f \in Injection(S, T)
    BY DEF Injection, IsInjective, RowsOf, Independent
  <2> HIDE DEF f, T
  <2>3. Cardinality(T) = Cardinality(S)  BY <1>1, <2>1, <2>2, FS_Surjection
  <2> QED  BY <2>3 DEF T
<1>4. ColumnsOf(S) \subseteq Columns /\ RowsOf(S) \subseteq Rows
  BY DEF ColumnsOf, RowsOf, Columns, Rows
<1>5. Cardinality(ColumnsOf(S)) <= Cardinality(Columns)  BY <1>4, Grid, FS_Subset
<1>6. Cardinality(RowsOf(S)) <= Cardinality(Rows)  BY <1>4, Grid, FS_Subset
<1> QED  BY <1>1, <1>2, <1>3, <1>5, <1>6, Shorter
-----------------------------------------------------------------------------
(* WHAT AN ACTION KEEPS                                                    *)

(* The matrix itself never changes.                                        *)
LEMMA SameGrid ==
  ASSUME Shape, input' = input
  PROVE  /\ Shape'
         /\ Cells' = Cells /\ Rows' = Rows /\ Columns' = Columns
         /\ minDim' = minDim /\ (RowsShorter <=> RowsShorter')
BY DEF Shape, Cells, Rows, Columns, minDim, RowsShorter

(* The potentials stay as long as the costs stay and no starred row or     *)
(* column loses its star.                                                  *)
LEMMA SameCosts ==
  ASSUME Shape, CostInv, input' = input, dist' = dist,
         RowsOf(star) \subseteq RowsOf(star'),
         ColumnsOf(star) \subseteq ColumnsOf(star')
  PROVE  CostInv'
<1>1. PICK u, v : Potential(u, v)  BY DEF CostInv
<1>2. Potential(u, v)'  BY <1>1, SameGrid DEF Potential
<1> QED  BY <1>2 DEF CostInv

LEMMA MoreStars ==
  ASSUME NEW S, NEW T, S \subseteq T
  PROVE  RowsOf(S) \subseteq RowsOf(T) /\ ColumnsOf(S) \subseteq ColumnsOf(T)
BY DEF RowsOf, ColumnsOf

(* A prime in a row of its own, in no column of a star that stands there,  *)
(* can be given its place among the older ones.                            *)
LEMMA OneMorePrime ==
  ASSUME Shape, TypeOK, StarInv, NEW c \in Cells,
         NEW rank, Older(rank),
         \A p \in prime : p[1] # c[1],
         \A p \in prime \cup {c}, s \in star : s[1] = c[1] => p[2] # s[2]
  PROVE  \E r \in [Rows -> Nat] :
           \A p \in prime \cup {c}, s \in star : p[2] = s[2] => r[s[1]] < r[p[1]]
<1>1. rank \in [Rows -> Nat]  BY DEF Older
<1>2. star \subseteq Cells /\ prime \subseteq Cells  BY DEF TypeOK
<1>3. PICK k \in Nat : \A s \in star : s[2] = c[2] => rank[s[1]] < k
  <2>1. CASE \E s \in star : s[2] = c[2]
    <3>1. PICK s \in star : s[2] = c[2]  BY <2>1
    <3>2. \A t \in star : t[2] = c[2] => t = s
      BY <3>1 DEF StarInv, Independent
    <3>3. s[1] \in Rows  BY <1>2, Coordinates
    <3> DEFINE k == rank[s[1]] + 1
    <3>4. k \in Nat  BY <1>1, <3>3
    <3>5. \A t \in star : t[2] = c[2] => rank[t[1]] < k
      BY <1>1, <3>2, <3>3
    <3> QED  BY <3>4, <3>5
  <2>2. CASE ~\E s \in star : s[2] = c[2]
    BY <2>2
  <2> QED  BY <2>1, <2>2
<1> DEFINE r == [rank EXCEPT ![c[1]] = k]
<1>4. r \in [Rows -> Nat]  BY <1>1
<1>5. ASSUME NEW p \in prime \cup {c}, NEW s \in star, p[2] = s[2]
      PROVE  r[s[1]] < r[p[1]]
  <2>1. s[1] # c[1]  BY <1>5
  <2>2. c[1] \in Rows /\ s[1] \in Rows /\ p[1] \in Rows  BY <1>2, Coordinates
  <2>3. r[s[1]] = rank[s[1]]  BY <1>1, <2>1, <2>2
  <2>4. CASE p = c
    BY <1>1, <1>3, <1>5, <2>2, <2>3, <2>4
  <2>5. CASE p \in prime
    <3>1. r[p[1]] = rank[p[1]]  BY <1>1, <2>2, <2>5
    <3> QED  BY <1>5, <2>3, <2>5, <3>1 DEF Older
  <2> QED  BY <2>4, <2>5
<1> QED  BY <1>4, <1>5
-----------------------------------------------------------------------------
(* THE INVARIANT: REDUCTION AND STARS                                      *)

LEMMA InitIInv ==
  ASSUME Init
  PROVE  IInv
<1>1. Shape  BY DEF Init, Shape
<1>2. TypeOK  BY <1>1, Grid DEF Init, TypeOK
<1>3. CostInv
  <2> DEFINE u == [i \in Rows |-> 0]
             v == [j \in Columns |-> 0]
  <2>1. u \in [Rows -> Int] /\ v \in [Columns -> Int]  OBVIOUS
  <2>2. \A c \in Cells : dist[c] = input[c] - u[c[1]] - v[c[2]]
    BY <1>1, Grid, Coordinates DEF Init
  <2>3. (\A i \in Rows : u[i] = 0) /\ (\A j \in Columns : v[j] = 0)  OBVIOUS
  <2> HIDE DEF u, v
  <2>4. Potential(u, v)  BY <2>1, <2>2, <2>3 DEF Potential
  <2> QED  BY <2>4 DEF CostInv
<1>4. StarInv /\ RestInv  BY DEF Init, StarInv, RestInv, Independent, ColumnsOf
<1>5. ~Searching /\ step # "step4"  BY DEF Init, Searching
<1> QED  BY <1>1, <1>2, <1>3, <1>4, <1>5 DEF IInv

(* Each element of a line loses the line's least, which is the line's      *)
(* potential.                                                              *)
LEMMA ReduceIInv ==
  ASSUME IInv, Reduce
  PROVE  IInv'
<1> USE DEF IInv
<1>1. Shape /\ TypeOK  OBVIOUS
<1>2. /\ Shape' /\ Cells' = Cells /\ Rows' = Rows /\ Columns' = Columns
      /\ RowsShorter' <=> RowsShorter
  BY SameGrid DEF Reduce
<1> DEFINE least(c) == Min({dist[d] : d \in Line(c)})
<1>3. \A c \in Cells : least(c) \in Nat /\ least(c) <= dist[c]
  <2> TAKE c \in Cells
  <2> DEFINE D == {dist[d] : d \in Line(c)}
  <2>1. D \subseteq Nat  BY DEF TypeOK, Line, RowOf, ColumnOf
  <2>2. dist[c] \in D  BY DEF Line, RowOf, ColumnOf
  <2> HIDE DEF D
  <2>3. Min(D) \in Nat /\ Min(D) <= dist[c]  BY <2>1, <2>2, MinIs
  <2> QED  BY <2>3 DEF D
<1>4. dist' = [c \in Cells |-> dist[c] - least(c)]  BY DEF Reduce
<1>5. \A c \in Cells : least(c) = IF RowsShorter
                                 THEN Min({dist[d] : d \in RowOf(c)})
                                 ELSE Min({dist[d] : d \in ColumnOf(c)})
  BY DEF Line, RowsShorter
<1> HIDE DEF least
<1>6. dist' \in [Cells -> Nat]  BY <1>3, <1>4 DEF TypeOK
<1>7. CostInv'
  <2> DEFINE inRow(i) == Min({dist[d] : d \in {d \in Cells : d[1] = i}})
             inColumn(j) == Min({dist[d] : d \in {d \in Cells : d[2] = j}})
             u == [i \in Rows |-> IF RowsShorter THEN inRow(i) ELSE 0]
             v == [j \in Columns |-> IF RowsShorter THEN 0 ELSE inColumn(j)]
  <2>1. \A c \in Cells : least(c) = IF RowsShorter THEN inRow(c[1]) ELSE inColumn(c[2])
    BY <1>5 DEF RowOf, ColumnOf
  <2> HIDE DEF inRow, inColumn
  <2>2. \A i \in Rows : RowsShorter => inRow(i) \in Nat
    <3> TAKE i \in Rows
    <3>1. PICK c \in Cells : i = c[1]  BY DEF Rows
    <3> QED  BY <1>3, <2>1, <3>1
  <2>3. \A j \in Columns : ~RowsShorter => inColumn(j) \in Nat
    <3> TAKE j \in Columns
    <3>1. PICK c \in Cells : j = c[2]  BY DEF Columns
    <3> QED  BY <1>3, <2>1, <3>1
  <2>4. u \in [Rows -> Int] /\ v \in [Columns -> Int]  BY <2>2, <2>3
  <2>5. /\ \A c \in Cells : least(c) = u[c[1]] + v[c[2]]
        /\ RowsShorter => \A j \in Columns : v[j] = 0
        /\ ~RowsShorter => \A i \in Rows : u[i] = 0
    BY <2>1, <2>2, <2>3, <1>1, Coordinates
  <2>6. PICK a, b :
          /\ a \in [Rows -> Int] /\ b \in [Columns -> Int]
          /\ \A c \in Cells : least(c) = a[c[1]] + b[c[2]]
          /\ RowsShorter => \A j \in Columns : b[j] = 0
          /\ ~RowsShorter => \A i \in Rows : a[i] = 0
    <3> HIDE DEF u, v
    <3> QED  BY <2>4, <2>5
  <2> HIDE DEF u, v
  <2>7. \A c \in Cells : dist'[c] = input[c] - a[c[1]] - b[c[2]]
    <3> TAKE c \in Cells
    <3>1. dist'[c] = dist[c] - least(c)  BY <1>4
    <3>2. a[c[1]] \in Int /\ b[c[2]] \in Int  BY <1>1, <2>6, Coordinates
    <3>3. dist[c] = input[c] /\ dist[c] \in Nat  BY DEF RestInv, Reduce, TypeOK
    <3> QED  BY <2>6, <3>1, <3>2, <3>3
  <2>8. Potential(a, b)'
    BY <1>2, <2>6, <2>7 DEF Potential, Reduce
  <2> QED  BY <2>8 DEF CostInv
<1>8. TypeOK'  BY <1>2, <1>6 DEF TypeOK, Reduce
<1>9. StarInv' /\ RestInv'
  BY DEF Reduce, StarInv, RestInv, Independent, ColumnsOf
<1>10. ~Searching' /\ step' # "step4"  BY DEF Reduce, Searching
<1> QED  BY <1>2, <1>7, <1>8, <1>9, <1>10

(* A star is added where neither the row nor the column has one.           *)
LEMMA StarZeroIInv ==
  ASSUME IInv, StarZero
  PROVE  IInv'
<1> USE DEF IInv
<1>1. PICK c \in Zeros :
        /\ Starrable(c)
        /\ star' = star \cup {c}
        /\ coveredColumns' = coveredColumns \cup {c[2]}
  BY DEF StarZero
<1>2. c \in Cells /\ dist[c] = 0  BY DEF Zeros
<1>3. /\ Shape' /\ Cells' = Cells /\ Rows' = Rows /\ Columns' = Columns
  BY SameGrid DEF StarZero
<1>4. TypeOK'
  BY <1>1, <1>2, <1>3, Coordinates DEF TypeOK, StarZero
<1>5. StarInv'
  <2>1. \A d \in star : d[1] # c[1] /\ d[2] # c[2]
    BY <1>1 DEF Starrable, RowOf, ColumnOf, TypeOK
  <2>2. Independent(star \cup {c})  BY <2>1 DEF StarInv, Independent
  <2>3. dist' = dist /\ prime' = prime  BY DEF StarZero
  <2> QED  BY <1>1, <1>2, <2>2, <2>3 DEF StarInv, Independent
<1>6. RestInv'
  BY <1>1 DEF StarZero, RestInv, ColumnsOf
<1>7. CostInv'
  <2>1. dist' = dist /\ input' = input  BY DEF StarZero
  <2>2. star \subseteq star'  BY <1>1
  <2> QED  BY <2>1, <2>2, MoreStars, SameCosts
<1>8. ~Searching' /\ step' # "step4"  BY DEF StarZero, Searching
<1> QED  BY <1>3, <1>4, <1>5, <1>6, <1>7, <1>8

LEMMA StarsPlacedIInv ==
  ASSUME IInv, StarsPlaced
  PROVE  IInv'
<1> USE DEF IInv
<1>1. /\ Shape' /\ Cells' = Cells /\ Rows' = Rows /\ Columns' = Columns
  BY SameGrid DEF StarsPlaced
<1>2. TypeOK'  BY <1>1 DEF TypeOK, StarsPlaced
<1>3. StarInv' /\ RestInv'
  BY DEF StarsPlaced, StarInv, RestInv, Independent, ColumnsOf
<1>4. CostInv'
  <2>1. dist' = dist /\ input' = input /\ star' = star  BY DEF StarsPlaced
  <2> QED  BY <2>1, SameCosts
<1>5. ~Searching' /\ step' # "step4"  BY DEF StarsPlaced, Searching
<1> QED  BY <1>1, <1>2, <1>3, <1>4, <1>5

LEMMA CoverStarredIInv ==
  ASSUME IInv, CoverStarred
  PROVE  IInv'
<1> USE DEF IInv
<1>1. /\ Shape' /\ Cells' = Cells /\ Rows' = Rows /\ Columns' = Columns
  BY SameGrid DEF CoverStarred
<1>2. TypeOK'
  BY <1>1, Coordinates DEF TypeOK, CoverStarred
<1>3. StarInv' /\ RestInv'
  BY DEF CoverStarred, StarInv, RestInv, Independent, ColumnsOf
<1>4. CostInv'
  <2>1. dist' = dist /\ input' = input /\ star' = star  BY DEF CoverStarred
  <2> QED  BY <2>1, SameCosts
<1>5. ~Searching' /\ step' # "step4"  BY DEF CoverStarred, Searching
<1> QED  BY <1>1, <1>2, <1>3, <1>4, <1>5
-----------------------------------------------------------------------------
(* THE INVARIANT: THE SEARCH                                               *)

(* A search starts with a star missing, nothing primed and the columns of  *)
(* the stars covered.                                                      *)
LEMMA CountCoveredIInv ==
  ASSUME IInv, CountCovered
  PROVE  IInv'
<1> USE DEF IInv
<1>1. /\ Shape' /\ Cells' = Cells /\ Rows' = Rows /\ Columns' = Columns
      /\ minDim' = minDim
  BY SameGrid DEF CountCovered
<1>2. /\ step = "step2b" /\ step' = IF Enough THEN "done" ELSE "step3"
      /\ input' = input /\ dist' = dist /\ star' = star /\ prime' = prime
      /\ newStar' = newStar /\ coveredRows' = coveredRows
      /\ coveredColumns' = coveredColumns /\ starCol' = starCol
  BY DEF CountCovered
<1>3. prime = {} /\ coveredRows = {} /\ coveredColumns = ColumnsOf(star)
  BY <1>2 DEF RestInv
<1>4. TypeOK'  BY <1>1, <1>2 DEF TypeOK
<1>5. StarInv'  BY <1>2 DEF StarInv, Independent
<1>6. RestInv'
  <2>1. Enough => Cardinality(coveredColumns) = minDim  BY DEF Enough
  <2> QED  BY <1>1, <1>2, <1>3, <2>1 DEF RestInv, ColumnsOf
<1>7. CostInv'  BY <1>2, SameCosts
<1>8. step' # "step4"  BY <1>2
<1>9. ASSUME Searching'
      PROVE  SearchInv'
  <2>1. ~Enough  BY <1>2, <1>9 DEF Searching
  <2>2. Cardinality(star) < minDim
    <3>1. star \in SUBSET Cells /\ Independent(star)  BY DEF TypeOK, StarInv
    <3>2. Cardinality(star) # minDim  BY <1>3, <2>1, <3>1, OneEach DEF Enough
    <3> QED  BY <3>1, <3>2, OneEach, Shorter
  <2>3. \A s \in star : s[2] \in coveredColumns  BY <1>3 DEF ColumnsOf
  <2>4. \E r : r \in [Rows -> Nat]
    <3>1. [i \in Rows |-> 0] \in [Rows -> Nat]  OBVIOUS
    <3> QED  BY <3>1
  <2>5. (\E rank : Older(rank))'  BY <1>1, <1>2, <1>3, <2>4 DEF Older
  <2> QED  BY <1>1, <1>2, <1>3, <2>2, <2>3, <2>5 DEF SearchInv, RowsOf
<1> QED  BY <1>1, <1>4, <1>5, <1>6, <1>7, <1>8, <1>9

(* The row of a new prime gets covered instead of the column of its star.  *)
LEMMA PrimeZeroIInv ==
  ASSUME IInv, PrimeZero
  PROVE  IInv'
<1> USE DEF IInv
<1>1. PICK c \in Zeros \cap Uncovered : \E s \in star \cap RowOf(c) :
        /\ prime' = prime \cup {c}
        /\ coveredRows' = coveredRows \cup {c[1]}
        /\ coveredColumns' = coveredColumns \ {s[2]}
  BY DEF PrimeZero
<1>2. PICK s \in star \cap RowOf(c) :
        /\ prime' = prime \cup {c}
        /\ coveredRows' = coveredRows \cup {c[1]}
        /\ coveredColumns' = coveredColumns \ {s[2]}
  BY <1>1
<1>3. /\ step = "step3" /\ step' = step
      /\ input' = input /\ dist' = dist /\ star' = star
      /\ newStar' = newStar /\ starCol' = starCol
  BY DEF PrimeZero
<1>4. /\ Shape' /\ Cells' = Cells /\ Rows' = Rows /\ Columns' = Columns
      /\ minDim' = minDim
  BY <1>3, SameGrid
<1>5. c \in Cells /\ dist[c] = 0 /\ c[1] \notin coveredRows /\ c[2] \notin coveredColumns
  BY DEF Zeros, Uncovered
<1>6. s \in star /\ s[1] = c[1]  BY DEF RowOf
<1>7. SearchInv  BY <1>3 DEF Searching
<1>8. s[2] \in coveredColumns  BY <1>5, <1>6, <1>7 DEF SearchInv
<1>9. TypeOK'
  BY <1>2, <1>3, <1>4, <1>5, Coordinates DEF TypeOK
<1>10. StarInv'
  BY <1>2, <1>3, <1>5 DEF StarInv, Independent
<1>11. RestInv'  BY <1>2, <1>3 DEF RestInv, ColumnsOf
<1>12. CostInv'  BY <1>3, SameCosts
<1>13. SearchInv'
  <2>1. \A t \in star : (t[1] = c[1] <=> t = s) /\ (t[2] = s[2] <=> t = s)
    BY <1>6 DEF StarInv, Independent
  <2>2. \A t \in star : t[1] \in coveredRows' <=> t[2] \notin coveredColumns'
    BY <1>2, <1>7, <1>8, <2>1 DEF SearchInv
  <2>3. coveredRows' \subseteq RowsOf(star) \cap RowsOf(prime')
    BY <1>2, <1>6, <1>7 DEF SearchInv, RowsOf
  <2>4. \A p \in prime : p[1] \in coveredRows
    BY <1>3, <1>7 DEF SearchInv, RowsOf
  <2>5. \A p \in prime' : p[2] \notin coveredColumns'
    BY <1>2, <1>5, <1>7 DEF SearchInv
  <2>6. \A p, q \in prime' : p[1] = q[1] => p = q
    BY <1>2, <1>5, <1>7, <2>4 DEF SearchInv
  <2>7. RowsOf(prime') \subseteq coveredRows'
    BY <1>2, <2>4 DEF RowsOf
  <2>8. PICK rank : Older(rank)  BY <1>7 DEF SearchInv
  <2>9. \A p \in prime : p[1] # c[1]  BY <1>5, <2>4
  <2>10. \A p \in prime \cup {c}, t \in star : t[1] = c[1] => p[2] # t[2]
    BY <1>5, <1>7, <1>8, <2>1 DEF SearchInv
  <2>11. PICK r \in [Rows -> Nat] :
           \A p \in prime \cup {c}, t \in star : p[2] = t[2] => r[t[1]] < r[p[1]]
    BY <1>5, <2>8, <2>9, <2>10, OneMorePrime
  <2>12. Older(r)'  BY <1>2, <1>3, <1>4, <2>11 DEF Older
  <2> QED
    BY <1>3, <1>4, <1>7, <2>2, <2>3, <2>5, <2>6, <2>7, <2>12 DEF SearchInv, RowsOf
<1>14. step' # "step4"  BY <1>3
<1> QED  BY <1>4, <1>9, <1>10, <1>11, <1>12, <1>13, <1>14

(* A path starts at a prime in a row without a star.                       *)
LEMMA StartPathIInv ==
  ASSUME IInv, StartPath
  PROVE  IInv'
<1> USE DEF IInv
<1>1. PICK c \in Zeros \cap Uncovered :
        /\ star \cap RowOf(c) = {}
        /\ prime' = prime \cup {c}
        /\ newStar' = star \cup {c}
        /\ starCol' = c[2]
  BY DEF StartPath
<1>2. /\ step = "step3" /\ step' = "step4"
      /\ input' = input /\ dist' = dist /\ star' = star
      /\ coveredRows' = coveredRows /\ coveredColumns' = coveredColumns
  BY DEF StartPath
<1>3. /\ Shape' /\ Cells' = Cells /\ Rows' = Rows /\ Columns' = Columns
      /\ minDim' = minDim
  BY <1>2, SameGrid
<1>4. c \in Cells /\ dist[c] = 0 /\ c[1] \notin coveredRows /\ c[2] \notin coveredColumns
  BY DEF Zeros, Uncovered
<1>5. \A s \in star : s[1] # c[1]  BY <1>1 DEF RowOf, TypeOK
<1>6. SearchInv  BY <1>2 DEF Searching
<1>7. TypeOK'
  BY <1>1, <1>2, <1>3, <1>4, Coordinates DEF TypeOK
<1>8. StarInv'
  BY <1>1, <1>2, <1>4 DEF StarInv, Independent
<1>9. RestInv'  BY <1>1, <1>2 DEF RestInv, ColumnsOf
<1>10. CostInv'  BY <1>2, SameCosts
<1>11. \A p \in prime : p[1] \in coveredRows
  BY <1>2, <1>6 DEF SearchInv, RowsOf
<1>12. PICK r \in [Rows -> Nat] :
         \A p \in prime \cup {c}, t \in star : p[2] = t[2] => r[t[1]] < r[p[1]]
  <2>1. PICK rank : Older(rank)  BY <1>6 DEF SearchInv
  <2> QED  BY <1>4, <1>5, <1>11, <2>1, OneMorePrime
<1>13. Older(r)'  BY <1>1, <1>2, <1>3, <1>12 DEF Older
<1>14. SearchInv'
  <2>1. coveredRows \subseteq RowsOf(star) \cap RowsOf(prime')
    BY <1>1, <1>6 DEF SearchInv, RowsOf
  <2>2. \A p \in prime' : p[2] \notin coveredColumns
    BY <1>1, <1>4, <1>6 DEF SearchInv
  <2>3. \A p, q \in prime' : p[1] = q[1] => p = q
    BY <1>1, <1>4, <1>6, <1>11 DEF SearchInv
  <2> QED
    BY <1>2, <1>3, <1>6, <1>13, <2>1, <2>2, <2>3 DEF SearchInv, RowsOf
<1>15. PathInv'
  <2>1. Path(r, c)'
    <3>1. star \ newStar' = {}  BY <1>1
    <3> QED  BY <1>1, <1>2, <3>1 DEF Path, PathHead
  <2>2. \A a, b \in newStar' : a[1] = b[1] => a = b
    BY <1>1, <1>5 DEF StarInv, Independent
  <2>3. \A a, b \in newStar' : a[2] = b[2] /\ a[2] # starCol' => a = b
    BY <1>1 DEF StarInv, Independent
  <2>4. StarIn(starCol)' \subseteq newStar'  BY <1>1, <1>2 DEF StarIn
  <2>5. \A a \in newStar' \ star : a[2] = starCol'  BY <1>1
  <2>6. RowsOf(star) \subseteq RowsOf(newStar')  BY <1>1 DEF RowsOf
  <2> QED
    BY <1>1, <1>2, <1>13, <2>1, <2>2, <2>3, <2>4, <2>5, <2>6 DEF PathInv, RowsOf
<1> QED  BY <1>3, <1>7, <1>8, <1>9, <1>10, <1>14, <1>15

LEMMA NoZeroIInv ==
  ASSUME IInv, NoZero
  PROVE  IInv'
<1> USE DEF IInv
<1>1. /\ step = "step3" /\ step' = "step5"
      /\ input' = input /\ dist' = dist /\ star' = star /\ prime' = prime
      /\ newStar' = newStar /\ coveredRows' = coveredRows
      /\ coveredColumns' = coveredColumns /\ starCol' = starCol
  BY DEF NoZero
<1>2. /\ Shape' /\ Cells' = Cells /\ Rows' = Rows /\ Columns' = Columns
      /\ minDim' = minDim
  BY <1>1, SameGrid
<1>3. TypeOK'  BY <1>1, <1>2 DEF TypeOK
<1>4. StarInv' /\ RestInv'
  BY <1>1 DEF StarInv, RestInv, Independent, ColumnsOf
<1>5. CostInv'  BY <1>1, SameCosts
<1>6. SearchInv'
  <2>1. SearchInv  BY <1>1 DEF Searching
  <2>2. PICK rank : Older(rank)  BY <2>1 DEF SearchInv
  <2>3. Older(rank)'  BY <1>1, <1>2, <2>2 DEF Older
  <2> QED  BY <1>1, <1>2, <2>1, <2>3 DEF SearchInv, RowsOf
<1>7. step' # "step4"  BY <1>1
<1> QED  BY <1>2, <1>3, <1>4, <1>5, <1>6, <1>7
-----------------------------------------------------------------------------
(* THE INVARIANT: THE PATH                                                 *)

(* A prime is no star.                                                     *)
LEMMA PrimesAreNoStars ==
  ASSUME Shape, TypeOK, NEW rank, Older(rank)
  PROVE  prime \cap star = {}
<1> SUFFICES ASSUME NEW p \in prime, p \in star PROVE FALSE
  OBVIOUS
<1>1. rank[p[1]] < rank[p[1]]  BY DEF Older
<1>2. rank[p[1]] \in Nat  BY Coordinates DEF Older, TypeOK
<1> QED  BY <1>1, <1>2

(* The head of the path moves on to the prime in the row of the star taken.*)
LEMMA FollowPathIInv ==
  ASSUME IInv, FollowPath
  PROVE  IInv'
<1> USE DEF IInv
<1>1. PICK s \in StarIn(starCol) : \E p \in prime \cap RowOf(s) :
        /\ newStar' = Flipped(s, p)
        /\ starCol' = p[2]
  BY DEF FollowPath
<1>2. PICK p \in prime \cap RowOf(s) :
        /\ newStar' = Flipped(s, p)
        /\ starCol' = p[2]
  BY <1>1
<1>3. /\ step = "step4" /\ step' = step
      /\ input' = input /\ dist' = dist /\ star' = star /\ prime' = prime
      /\ coveredRows' = coveredRows /\ coveredColumns' = coveredColumns
  BY DEF FollowPath
<1>4. /\ Shape' /\ Cells' = Cells /\ Rows' = Rows /\ Columns' = Columns
      /\ minDim' = minDim
  BY <1>3, SameGrid
<1>5. s \in star /\ s[2] = starCol  BY DEF StarIn
<1>6. p \in prime /\ p \in Cells /\ p[1] = s[1]  BY DEF RowOf
<1>7. newStar' = (newStar \ {s}) \cup {p}  BY <1>2 DEF Flipped
<1>8. SearchInv /\ PathInv  BY <1>3 DEF Searching
<1>9. TypeOK'
  BY <1>2, <1>3, <1>4, <1>6, <1>7, Coordinates DEF TypeOK
<1>10. StarInv' /\ RestInv'
  BY <1>3 DEF StarInv, RestInv, Independent, ColumnsOf
<1>11. CostInv'  BY <1>3, SameCosts
<1>12. PICK rank : Older(rank) /\ \E h : Path(rank, h)  BY <1>8 DEF PathInv
<1>13. PICK h : Path(rank, h)  BY <1>12
<1>14. Older(rank)'  BY <1>3, <1>4, <1>12 DEF Older
<1>15. SearchInv'
  BY <1>3, <1>4, <1>8, <1>14 DEF SearchInv, RowsOf
<1>16. h \in prime \cap newStar /\ h[2] = starCol  BY <1>13 DEF Path, PathHead
<1>17. prime \cap star = {}  BY <1>12, PrimesAreNoStars
<1>18. \A t \in star : rank[t[1]] \in Nat
  BY <1>12, Coordinates DEF Older, TypeOK
<1>19. \A t \in prime : rank[t[1]] \in Nat
  BY <1>12, Coordinates DEF Older, TypeOK
<1>20. rank[p[1]] < rank[h[1]]
  BY <1>5, <1>6, <1>12, <1>16 DEF Older
<1>21. p[2] # starCol
  BY <1>4, <1>5, <1>6, <1>17, Coordinates DEF TypeOK
(* No star taken stands in the column of the new head: it would be both    *)
(* older and younger than the old head.                                    *)
<1>22. \A t \in star \ newStar : p[2] # t[2]
  <2> SUFFICES ASSUME NEW t \in star \ newStar, p[2] = t[2] PROVE FALSE
    OBVIOUS
  <2>1. rank[t[1]] < rank[p[1]]  BY <1>6, <1>12 DEF Older
  <2>2. rank[h[1]] <= rank[t[1]]  BY <1>13 DEF Path
  <2> QED  BY <1>6, <1>16, <1>18, <1>19, <1>20, <2>1, <2>2
<1>23. s \in newStar  BY <1>8 DEF PathInv
<1>24. Path(rank, p)'
  <2>1. PathHead(p)'  BY <1>2, <1>3, <1>6, <1>7 DEF PathHead
  <2>2. ASSUME NEW a \in newStar', a[2] = starCol', a # p
        PROVE  a \in star
    <3>1. a \in newStar /\ a[2] = p[2]  BY <1>2, <1>7, <2>2
    <3> QED  BY <1>8, <1>21, <1>22, <3>1 DEF PathInv
  <2>3. ASSUME NEW t \in star \ newStar'
        PROVE  rank[p[1]] <= rank[t[1]]
    <3>1. CASE t = s
      BY <1>5, <1>6, <1>18, <3>1
    <3>2. CASE t # s
      <4>1. t \in star \ newStar  BY <1>7, <2>3, <3>2
      <4>2. rank[h[1]] <= rank[t[1]]  BY <1>13, <4>1 DEF Path
      <4> QED  BY <1>6, <1>16, <1>18, <1>19, <1>20, <4>1, <4>2
    <3> QED  BY <3>1, <3>2
  <2> QED  BY <1>3, <2>1, <2>2, <2>3 DEF Path
<1>25. PathInv'
  <2>1. newStar' \subseteq star \cup prime  BY <1>6, <1>7, <1>8 DEF PathInv
  <2>2. \A a, b \in newStar' : a[1] = b[1] => a = b
    BY <1>6, <1>7, <1>8, <1>23 DEF PathInv
  <2>3. \A a, b \in newStar' : a[2] = b[2] /\ a[2] # starCol' => a = b
    <3> SUFFICES ASSUME NEW a \in newStar', NEW b \in newStar',
                        a[2] = b[2], a[2] # starCol'
                 PROVE  a = b
      OBVIOUS
    <3>1. a \in newStar \ {s} /\ b \in newStar \ {s}  BY <1>2, <1>7
    <3>2. CASE a[2] # starCol
      BY <1>8, <3>1, <3>2 DEF PathInv
    <3>3. CASE a[2] = starCol
      <4>1. a \notin star /\ b \notin star
        BY <1>5, <3>1, <3>3 DEF StarInv, Independent
      <4> QED  BY <1>13, <3>1, <3>3, <4>1 DEF Path
    <3> QED  BY <3>2, <3>3
  <2>4. StarIn(starCol)' \subseteq newStar'
    BY <1>2, <1>3, <1>5, <1>7, <1>21, <1>22 DEF StarIn
  <2>5. RowsOf(star) \subseteq RowsOf(newStar')
    <3>1. ASSUME NEW a \in newStar PROVE a[1] \in RowsOf(newStar')
      BY <1>6, <1>7 DEF RowsOf
    <3>2. RowsOf(newStar) \subseteq RowsOf(newStar')  BY <3>1 DEF RowsOf
    <3>3. RowsOf(star) \subseteq RowsOf(newStar)  BY <1>8 DEF PathInv
    <3> QED  BY <3>2, <3>3
  <2>6. ASSUME NEW t \in star \ newStar'
        PROVE  \E a \in newStar' \ star : a[2] = t[2]
    <3>1. CASE t = s
      BY <1>5, <1>7, <1>16, <1>17, <3>1
    <3>2. CASE t # s
      BY <1>5, <1>7, <1>8, <3>2 DEF PathInv
    <3> QED  BY <3>1, <3>2
  <2>7. ASSUME NEW a \in newStar' \ star, a[2] # starCol'
        PROVE  \E t \in star \ newStar' : t[2] = a[2]
    <3>1. a \in newStar  BY <1>2, <1>7, <2>7
    <3>2. p \notin star  BY <1>6, <1>17
    <3>3. CASE a[2] = starCol
      BY <1>5, <1>6, <1>7, <3>2, <3>3
    <3>4. CASE a[2] # starCol
      BY <1>7, <1>8, <3>1, <3>2, <3>4 DEF PathInv
    <3> QED  BY <3>3, <3>4
  <2> QED
    BY <1>3, <1>14, <1>24, <2>1, <2>2, <2>3, <2>4, <2>5, <2>6, <2>7
       DEF PathInv, RowsOf
<1> QED  BY <1>4, <1>9, <1>10, <1>11, <1>15, <1>25

(* The path ended, the new stars are independent and stand in every row    *)
(* and column that held a star.                                            *)
LEMMA EndPathIInv ==
  ASSUME IInv, EndPath
  PROVE  IInv'
<1> USE DEF IInv
<1>1. /\ step = "step4" /\ step' = "step2a"
      /\ input' = input /\ dist' = dist /\ newStar' = newStar
      /\ coveredColumns' = coveredColumns
      /\ StarIn(starCol) = {}
      /\ star' = newStar /\ prime' = {} /\ coveredRows' = {} /\ starCol' = 0
  BY DEF EndPath, PrimesLeft
<1>2. /\ Shape' /\ Cells' = Cells /\ Rows' = Rows /\ Columns' = Columns
  BY <1>1, SameGrid
<1>3. SearchInv /\ PathInv  BY <1>1 DEF Searching
<1>4. TypeOK'  BY <1>1, <1>2 DEF TypeOK
<1>5. ColumnsOf(star) \subseteq ColumnsOf(newStar)
  <2>1. ASSUME NEW t \in star PROVE t[2] \in ColumnsOf(newStar)
    <3>1. \E a \in newStar : a[2] = t[2]  BY <1>3 DEF PathInv
    <3> QED  BY <3>1 DEF ColumnsOf
  <2> QED  BY <2>1 DEF ColumnsOf
<1>6. RowsOf(star) \subseteq RowsOf(newStar)  BY <1>3 DEF PathInv
<1>7. Independent(newStar)
  <2> SUFFICES ASSUME NEW a \in newStar, NEW b \in newStar,
                      a[1] = b[1] \/ a[2] = b[2]
               PROVE  a = b
    BY DEF Independent
  <2>1. PICK rank, h : Path(rank, h)  BY <1>3 DEF PathInv
  <2>2. \A c \in star : c[2] # starCol  BY <1>1 DEF StarIn
  <2>3. CASE a[1] = b[1]
    BY <1>3, <2>3 DEF PathInv
  <2>4. CASE a[2] = b[2] /\ a[2] # starCol
    BY <1>3, <2>4 DEF PathInv
  <2>5. CASE a[2] = b[2] /\ a[2] = starCol
    BY <2>1, <2>2, <2>5 DEF Path
  <2> QED  BY <2>3, <2>4, <2>5
<1>8. StarInv'
  BY <1>1, <1>3, <1>7 DEF StarInv, PathInv, Independent
<1>9. RestInv'  BY <1>1, <1>5 DEF RestInv, ColumnsOf
<1>10. CostInv'  BY <1>1, <1>5, <1>6, SameCosts
<1>11. ~Searching' /\ step' # "step4"  BY <1>1 DEF Searching
<1> QED  BY <1>2, <1>4, <1>8, <1>9, <1>10, <1>11

(* In step5 an element is left that is covered neither by its row nor by   *)
(* its column, since the covered lines hold a star each and stars are      *)
(* missing.                                                                *)
LEMMA SomethingUncovered ==
  ASSUME IInv, Searching
  PROVE  Uncovered # {}
<1> USE DEF IInv
<1>1. SearchInv /\ Shape /\ TypeOK  OBVIOUS
<1>2. star \in SUBSET Cells /\ Independent(star)  BY DEF TypeOK, StarInv
<1>3. /\ Cardinality(star) \in Nat /\ Cardinality(star) < minDim
      /\ Cardinality(RowsOf(star)) = Cardinality(star)
      /\ Cardinality(ColumnsOf(star)) = Cardinality(star)
  BY <1>1, <1>2, OneEach DEF SearchInv
<1>4. \E i \in Rows : i \notin coveredRows
  <2> SUFFICES ASSUME Rows \subseteq coveredRows PROVE FALSE
    OBVIOUS
  <2>1. RowsOf(star) = Rows
    BY <1>1, <1>2 DEF SearchInv, RowsOf, Rows
  <2>2. Cardinality(Rows) = Cardinality(star)  BY <1>3, <2>1
  <2> QED  BY <1>1, <1>3, <2>2, Shorter
<1>5. \E j \in Columns : j \notin coveredColumns
  <2> SUFFICES ASSUME Columns \subseteq coveredColumns PROVE FALSE
    OBVIOUS
  <2>1. ColumnsOf(star) = Columns
    BY <1>1, <1>2 DEF RestInv, ColumnsOf, Columns
  <2>2. Cardinality(Columns) = Cardinality(star)  BY <1>3, <2>1
  <2> QED  BY <1>1, <1>3, <2>2, Shorter
<1>6. PICK i \in Rows, j \in Columns : i \notin coveredRows /\ j \notin coveredColumns
  BY <1>4, <1>5
<1>7. <<i, j>> \in Cells  BY <1>1, Grid
<1> DEFINE c == <<i, j>>
<1>8. c[1] = i /\ c[2] = j  OBVIOUS
<1> QED  BY <1>6, <1>7, <1>8 DEF Uncovered

(* step5 keeps every starred and primed element zero and none becomes      *)
(* negative; the least uncovered element moves into the potentials.        *)
LEMMA ShiftCostsIInv ==
  ASSUME IInv, ShiftCosts
  PROVE  IInv'
<1> USE DEF IInv
<1> DEFINE h == Smallest
           up(c) == IF c[1] \in coveredRows THEN h ELSE 0
           down(c) == IF c[2] \notin coveredColumns THEN h ELSE 0
<1>1. /\ step = "step5" /\ step' = "step3"
      /\ input' = input /\ star' = star /\ prime' = prime /\ newStar' = newStar
      /\ coveredRows' = coveredRows /\ coveredColumns' = coveredColumns
      /\ starCol' = starCol
  BY DEF ShiftCosts
<1>2. dist' = [c \in Cells |-> dist[c] + up(c) - down(c)]
  BY DEF ShiftCosts
<1>3. /\ Shape' /\ Cells' = Cells /\ Rows' = Rows /\ Columns' = Columns
      /\ minDim' = minDim /\ (RowsShorter' <=> RowsShorter)
  BY <1>1, SameGrid
<1>4. h \in Nat /\ \A c \in Uncovered : h <= dist[c]
  <2> DEFINE D == {dist[c] : c \in Uncovered}
  <2>1. Uncovered # {}  BY <1>1, SomethingUncovered DEF Searching
  <2>2. D \subseteq Nat /\ D # {}  BY <2>1 DEF TypeOK, Uncovered
  <2>3. \A c \in Uncovered : dist[c] \in D  OBVIOUS
  <2> HIDE DEF D
  <2>4. Min(D) \in Nat /\ \A y \in D : Min(D) <= y  BY <2>2, MinIs
  <2> QED  BY <2>3, <2>4 DEF D, Smallest
<1> HIDE DEF h
<1>5. ASSUME NEW c \in Cells
      PROVE  dist[c] + up(c) - down(c) \in Nat
  <2>1. dist[c] \in Nat  BY DEF TypeOK
  <2>2. CASE c[1] \in coveredRows \/ c[2] \in coveredColumns
    BY <1>4, <2>1, <2>2
  <2>3. CASE c \in Uncovered
    BY <1>4, <2>1, <2>3 DEF Uncovered
  <2> QED  BY <2>2, <2>3 DEF Uncovered
<1>6. TypeOK'
  <2>1. dist' \in [Cells -> Nat]  BY <1>2, <1>5
  <2> QED  BY <1>1, <1>3, <2>1 DEF TypeOK
<1>7. SearchInv  BY <1>1 DEF Searching
<1>8. StarInv'
  <2>1. ASSUME NEW c \in star \cup prime PROVE dist'[c] = 0
    <3>1. c \in Cells /\ dist[c] = 0  BY DEF StarInv, TypeOK
    <3>2. up(c) = down(c)
      <4>1. CASE c \in star  BY <1>7, <4>1 DEF SearchInv
      <4>2. CASE c \in prime
        <5>1. c[1] \in coveredRows /\ c[2] \notin coveredColumns
          BY <1>1, <1>7, <4>2 DEF SearchInv, RowsOf
        <5> QED  BY <5>1
      <4> QED  BY <4>1, <4>2
    <3> QED  BY <1>2, <1>4, <3>1, <3>2
  <2> QED  BY <1>1, <2>1 DEF StarInv, Independent
<1>9. RestInv'  BY <1>1 DEF RestInv, ColumnsOf
<1>10. SearchInv'
  <2>1. PICK rank : Older(rank)  BY <1>7 DEF SearchInv
  <2>2. Older(rank)'  BY <1>1, <1>3, <2>1 DEF Older
  <2>3. RowsOf(prime) \subseteq coveredRows  BY <1>1, <1>7 DEF SearchInv
  <2>4. RowsOf(star)' = RowsOf(star) /\ RowsOf(prime)' = RowsOf(prime)
    BY <1>1
  <2> HIDE DEF IInv
  <2> QED  BY <1>1, <1>3, <1>7, <2>2, <2>3, <2>4 DEF SearchInv
<1>11. CostInv'
  <2>1. PICK u, v : Potential(u, v)  BY DEF CostInv
  <2> DEFINE a == [i \in Rows |-> IF RowsShorter
                                  THEN u[i] + (IF i \notin coveredRows THEN h ELSE 0)
                                  ELSE u[i] - (IF i \in coveredRows THEN h ELSE 0)]
             b == [j \in Columns |-> IF RowsShorter
                                     THEN v[j] - (IF j \in coveredColumns THEN h ELSE 0)
                                     ELSE v[j] + (IF j \notin coveredColumns THEN h ELSE 0)]
  <2>2. u \in [Rows -> Int] /\ v \in [Columns -> Int]  BY <2>1 DEF Potential
  <2>3. a \in [Rows -> Int] /\ b \in [Columns -> Int]  BY <1>4, <2>2
  <2>4. ASSUME NEW c \in Cells
        PROVE  dist'[c] = input[c] - a[c[1]] - b[c[2]]
    <3>1. c[1] \in Rows /\ c[2] \in Columns  BY Coordinates
    <3>2. dist[c] = input[c] - u[c[1]] - v[c[2]]  BY <2>1 DEF Potential
    <3>3. input[c] \in Nat /\ u[c[1]] \in Int /\ v[c[2]] \in Int
      BY <2>2, <3>1, Grid
    <3>4. dist'[c] = dist[c] + up(c) - down(c)  BY <1>2
    <3>5. a[c[1]] + b[c[2]] = u[c[1]] + v[c[2]] - up(c) + down(c)
      BY <1>4, <3>1, <3>3
    <3>6. a[c[1]] \in Int /\ b[c[2]] \in Int  BY <2>3, <3>1
    <3>7. up(c) \in Nat /\ down(c) \in Nat  BY <1>4
    <3> HIDE DEF up, down, a, b
    <3> QED  BY <3>2, <3>3, <3>4, <3>5, <3>6, <3>7
  <2>5. ASSUME RowsShorter, NEW j \in Columns
        PROVE  b[j] <= 0 /\ (b[j] < 0 => j \in ColumnsOf(star))
    <3>1. v[j] \in Int /\ v[j] <= 0 /\ (v[j] < 0 => j \in ColumnsOf(star))
      BY <2>1, <2>2, <2>5 DEF Potential
    <3>2. j \in coveredColumns => j \in ColumnsOf(star)  BY DEF RestInv
    <3> QED  BY <1>4, <2>5, <3>1, <3>2
  <2>6. ASSUME ~RowsShorter, NEW i \in Rows
        PROVE  a[i] <= 0 /\ (a[i] < 0 => i \in RowsOf(star))
    <3>1. u[i] \in Int /\ u[i] <= 0 /\ (u[i] < 0 => i \in RowsOf(star))
      BY <2>1, <2>2, <2>6 DEF Potential
    <3>2. i \in coveredRows => i \in RowsOf(star)  BY <1>7 DEF SearchInv
    <3> QED  BY <1>4, <2>6, <3>1, <3>2
  <2>7. PICK x, y :
          /\ x \in [Rows -> Int] /\ y \in [Columns -> Int]
          /\ \A c \in Cells : dist'[c] = input[c] - x[c[1]] - y[c[2]]
          /\ RowsShorter =>
               \A j \in Columns : y[j] <= 0 /\ (y[j] < 0 => j \in ColumnsOf(star))
          /\ ~RowsShorter =>
               \A i \in Rows : x[i] <= 0 /\ (x[i] < 0 => i \in RowsOf(star))
    <3> HIDE DEF a, b
    <3> QED  BY <2>3, <2>4, <2>5, <2>6
  <2> HIDE DEF a, b
  <2>8. RowsOf(star)' = RowsOf(star) /\ ColumnsOf(star)' = ColumnsOf(star)
    BY <1>1
  <2> HIDE DEF IInv
  <2>9. Potential(x, y)'
    BY <1>1, <1>3, <2>7, <2>8 DEF Potential
  <2> QED  BY <2>9 DEF CostInv
<1>12. step' # "step4"  BY <1>1
<1> QED  BY <1>3, <1>6, <1>8, <1>9, <1>10, <1>11, <1>12
-----------------------------------------------------------------------------
(* THE THEOREMS                                                            *)

LEMMA StutterIInv ==
  ASSUME IInv, UNCHANGED vars
  PROVE  IInv'
<1> USE DEF IInv
<1>1. /\ step' = step /\ input' = input /\ dist' = dist /\ star' = star
      /\ prime' = prime /\ newStar' = newStar /\ coveredRows' = coveredRows
      /\ coveredColumns' = coveredColumns /\ starCol' = starCol
  BY DEF vars
<1>2. /\ Shape' /\ Cells' = Cells /\ Rows' = Rows /\ Columns' = Columns
      /\ minDim' = minDim
  BY <1>1, SameGrid
<1>3. TypeOK'  BY <1>1, <1>2 DEF TypeOK
<1>4. StarInv' /\ RestInv'
  BY <1>1, <1>2 DEF StarInv, RestInv, Independent, ColumnsOf
<1>5. CostInv'  BY <1>1, SameCosts
<1>6. \A rank : Older(rank) => Older(rank)'  BY <1>1, <1>2 DEF Older
<1>7. Searching => SearchInv'
  BY <1>1, <1>2, <1>6 DEF SearchInv, RowsOf
<1>8. step = "step4" => PathInv'
  <2>1. \A rank, h : Path(rank, h) => Path(rank, h)'
    BY <1>1 DEF Path, PathHead
  <2> QED
    BY <1>1, <1>6, <2>1 DEF PathInv, StarIn, RowsOf
<1> QED  BY <1>1, <1>2, <1>3, <1>4, <1>5, <1>7, <1>8 DEF Searching

LEMMA StepIInv ==
  ASSUME IInv, [Next]_vars
  PROVE  IInv'
BY ReduceIInv, StarZeroIInv, StarsPlacedIInv, CoverStarredIInv, CountCoveredIInv,
   PrimeZeroIInv, StartPathIInv, NoZeroIInv, FollowPathIInv, EndPathIInv,
   ShiftCostsIInv, StutterIInv DEF Next

(* Every state the algorithm reaches, whatever zeros it takes, satisfies   *)
(* the invariant.                                                          *)
THEOREM Invariance == Spec => []IInv
BY InitIInv, StepIInv, PTL DEF Spec

(* The matrices keep their shape and no element becomes negative.          *)
THEOREM TypeCorrect == Spec => []TypeOK
<1>1. IInv => TypeOK  BY DEF IInv
<1> QED  BY <1>1, Invariance, PTL

(* Wherever step4 meets a star it finds the one prime of that row.         *)
LEMMA GoesOn ==
  ASSUME IInv
  PROVE  PathGoesOn
<1> SUFFICES ASSUME step = "step4"
             PROVE  /\ StarIn(starCol) = {} \/ \E s \in StarIn(starCol) : prime \cap RowOf(s) # {}
                    /\ \A c \in prime : Cardinality(prime \cap RowOf(c)) = 1
  BY DEF PathGoesOn
<1>1. SearchInv /\ PathInv /\ Shape /\ TypeOK  BY DEF IInv, Searching
<1>2. ASSUME NEW s \in StarIn(starCol)
      PROVE  prime \cap RowOf(s) # {}
  <2>1. PICK rank, h : Path(rank, h)  BY <1>1 DEF PathInv
  <2>2. h \in prime /\ h[2] = s[2] /\ s \in star
    BY <2>1 DEF Path, PathHead, StarIn
  <2>3. s[1] \in coveredRows  BY <1>1, <2>2 DEF SearchInv
  <2>4. PICK p \in prime : p[1] = s[1]  BY <1>1, <2>3 DEF SearchInv, RowsOf
  <2> QED  BY <1>1, <2>4 DEF RowOf, TypeOK
<1>3. ASSUME NEW c \in prime
      PROVE  Cardinality(prime \cap RowOf(c)) = 1
  <2>1. prime \cap RowOf(c) = {c}  BY <1>1 DEF SearchInv, RowOf, TypeOK
  <2> QED  BY <2>1, FS_Singleton
<1> QED  BY <1>2, <1>3

(* step4 never runs past the matrix: the primes left by step3 lead from    *)
(* star to star, never twice to the same, to a column without one.         *)
THEOREM PathNeverStops == Spec => []PathGoesOn
BY Invariance, GoesOn, PTL
-----------------------------------------------------------------------------
(* THE STEPS THAT ARE LEFT                                                 *)

(* A path has one star more than there were, the one it will end with.     *)
PathCount == step = "step4" => Cardinality(newStar) = Cardinality(star) + 1

(* A star is taken from the path for a prime that was not on it.           *)
LEMMA TakesOne ==
  ASSUME IInv, step = "step4", NEW s \in StarIn(starCol), NEW p \in prime, p[1] = s[1]
  PROVE  s \in star /\ s \in newStar /\ p \notin star /\ p \notin newStar
<1>1. SearchInv /\ PathInv /\ Shape /\ TypeOK  BY DEF IInv, Searching
<1>2. s \in star /\ s \in newStar  BY <1>1 DEF PathInv, StarIn
<1>3. PICK rank : Older(rank)  BY <1>1 DEF SearchInv
<1>4. p \notin star  BY <1>1, <1>3, PrimesAreNoStars
<1>5. p \notin newStar  BY <1>1, <1>2, <1>4 DEF PathInv
<1> QED  BY <1>2, <1>4, <1>5

(* step5 makes an uncovered element zero, so that step3 finds one.         *)
LEMMA ShiftMakesZero ==
  ASSUME IInv, ShiftCosts
  PROVE  (Zeros \cap Uncovered)' # {}
<1> DEFINE D == {dist[c] : c \in Uncovered}
<1>1. Shape /\ TypeOK /\ Uncovered # {} /\ step = "step5"
  <2>1. step = "step5"  BY DEF ShiftCosts
  <2> QED  BY <2>1, SomethingUncovered DEF IInv, Searching
<1>2. D \in SUBSET Nat /\ D # {}  BY <1>1 DEF TypeOK, Uncovered
<1>3. Smallest \in D  BY <1>2, MinIs DEF Smallest
<1>4. PICK c \in Uncovered : dist[c] = Smallest  BY <1>3
<1>5. /\ c \in Cells /\ c[1] \notin coveredRows /\ c[2] \notin coveredColumns
      /\ dist[c] \in Nat
  BY <1>1, <1>4 DEF Uncovered, TypeOK
<1>6. Cells' = Cells /\ UNCHANGED <<coveredRows, coveredColumns>>
  BY <1>1, SameGrid DEF ShiftCosts
<1>7. dist'[c] = dist[c] + 0 - Smallest  BY <1>5 DEF ShiftCosts
<1>8. dist'[c] = 0  BY <1>4, <1>5, <1>7
<1>9. c \in (Zeros \cap Uncovered)'  BY <1>5, <1>6, <1>8 DEF Zeros, Uncovered
<1> QED  BY <1>9

LEMMA StepPathCount ==
  ASSUME IInv, PathCount, [Next]_vars
  PROVE  PathCount'
<1>1. Shape /\ TypeOK /\ IsFiniteSet(star) /\ IsFiniteSet(newStar)
  <2>1. Shape /\ TypeOK  BY DEF IInv
  <2> QED  BY <2>1, Grid, FS_Subset DEF TypeOK
<1>2. CASE StartPath
  <2>1. PICK c \in Zeros \cap Uncovered : star \cap RowOf(c) = {} /\ newStar' = star \cup {c}
    BY <1>2 DEF StartPath
  <2>2. c \notin star  BY <2>1 DEF RowOf, Zeros
  <2>3. Cardinality(star \cup {c}) = Cardinality(star) + 1  BY <1>1, <2>2, FS_AddElement
  <2>4. star' = star  BY <1>2 DEF StartPath
  <2> QED  BY <2>1, <2>3, <2>4 DEF PathCount
<1>3. CASE FollowPath
  <2>1. PICK s \in StarIn(starCol), p \in prime : p[1] = s[1] /\ newStar' = Flipped(s, p)
    BY <1>3 DEF FollowPath, RowOf
  <2>2. step = "step4" /\ star' = star  BY <1>3 DEF FollowPath
  <2>3. s \in newStar /\ p \notin newStar
    BY <2>1, <2>2, TakesOne
  <2>4. Cardinality(newStar \ {s}) = Cardinality(newStar) - 1 /\ IsFiniteSet(newStar \ {s})
    BY <1>1, <2>3, FS_RemoveElement
  <2>5. Cardinality(Flipped(s, p)) = Cardinality(newStar \ {s}) + 1
    BY <2>3, <2>4, FS_AddElement DEF Flipped
  <2>6. Cardinality(newStar) \in Nat  BY <1>1, FS_CardinalityType
  <2> QED  BY <2>1, <2>2, <2>4, <2>5, <2>6 DEF PathCount
<1>4. CASE ~StartPath /\ ~FollowPath
  <2>1. step' # "step4" \/ UNCHANGED <<step, star, newStar>>
    BY <1>4 DEF Next, Reduce, StarZero, StarsPlaced, CoverStarred, CountCovered, PrimeZero,
                NoZero, EndPath, ShiftCosts, vars
  <2> QED  BY <2>1 DEF PathCount
<1> QED  BY <1>2, <1>3, <1>4

(* The steps left are a natural number.                                    *)
LEMMA RemainingIs ==
  ASSUME Shape, TypeOK
  PROVE  LET n == Cardinality(star) IN
         /\ n \in Nat /\ Cardinality(star \cap newStar) \in 0 .. n
         /\ step = "done" => Remaining = 0
         /\ step = "step4" => Remaining = Cardinality(star \cap newStar)
         /\ step = "step3" /\ Zeros \cap Uncovered # {} => Remaining = n + 1
         /\ step = "step3" /\ Zeros \cap Uncovered = {} => Remaining = n + 3
         /\ step = "step5" => Remaining = n + 2
         /\ step = "step2b" => Remaining = n + 4
         /\ step = "step2a" => Remaining = n + 5
         /\ step = "stars" => Remaining = n + 6
         /\ step = "reduce" => Remaining = n + 7
<1>1. IsFiniteSet(star)  BY Grid, FS_Subset DEF TypeOK
<1>2. /\ Cardinality(star) \in Nat /\ Cardinality(star \cap newStar) \in Nat
      /\ Cardinality(star \cap newStar) <= Cardinality(star)
  BY <1>1, FS_Subset, FS_CardinalityType
<1> QED  BY <1>2 DEF Remaining

LEMMA RemainsAfter ==
  ASSUME Shape, input' = input, TypeOK'
  PROVE  LET n == Cardinality(star') IN
         /\ Cardinality(star' \cap newStar') \in 0 .. n
         /\ step' = "done" => Remaining' = 0
         /\ step' = "step4" => Remaining' = Cardinality(star' \cap newStar')
         /\ step' = "step3" => Remaining' \in {n + 1, n + 3}
         /\ step' = "step3" /\ (Zeros \cap Uncovered)' # {} => Remaining' = n + 1
         /\ step' = "step5" => Remaining' = n + 2
         /\ step' = "step2b" => Remaining' = n + 4
         /\ step' = "stars" => Remaining' = n + 6
<1>1. star' \subseteq Cells  BY SameGrid DEF TypeOK
<1>2. IsFiniteSet(star')  BY <1>1, Grid, FS_Subset
<1>3. /\ Cardinality(star') \in Nat /\ Cardinality(star' \cap newStar') \in Nat
      /\ Cardinality(star' \cap newStar') <= Cardinality(star')
  BY <1>2, FS_Subset, FS_CardinalityType
<1> QED  BY <1>3 DEF Remaining

(* Each step gets further.                                                 *)
LEMMA StepAdvances ==
  ASSUME IInv, IInv', PathCount, Next
  PROVE  \/ Cardinality(star') > Cardinality(star)
         \/ star' = star /\ coveredRows \subseteq coveredRows' /\ coveredRows' # coveredRows
         \/ star' = star /\ coveredRows' = coveredRows /\ Remaining' < Remaining
<1> DEFINE n == Cardinality(star)
<1>1. Shape /\ TypeOK /\ TypeOK' /\ input' = input
  <2>1. input' = input
    BY DEF Next, Reduce, StarZero, StarsPlaced, CoverStarred, CountCovered, PrimeZero,
           StartPath, NoZero, FollowPath, EndPath, ShiftCosts
  <2> QED  BY <2>1 DEF IInv
<1>2. IsFiniteSet(star) /\ IsFiniteSet(newStar)  BY <1>1, Grid, FS_Subset DEF TypeOK
<1>3. n \in Nat  BY <1>2, FS_CardinalityType
<1>4. CASE StarZero
  <2>1. PICK c \in Zeros : Starrable(c) /\ star' = star \cup {c}  BY <1>4 DEF StarZero
  <2>2. c \notin star  BY <2>1 DEF Starrable, RowOf, Zeros
  <2>3. Cardinality(star \cup {c}) = n + 1  BY <1>2, <2>2, FS_AddElement
  <2> QED  BY <1>3, <2>1, <2>3
<1>5. CASE PrimeZero
  <2>1. PICK c \in Zeros \cap Uncovered : coveredRows' = coveredRows \cup {c[1]}
    BY <1>5 DEF PrimeZero
  <2>2. c[1] \notin coveredRows  BY DEF Uncovered
  <2>3. star' = star  BY <1>5 DEF PrimeZero
  <2> QED  BY <2>1, <2>2, <2>3
<1>6. CASE EndPath
  <2>1. step = "step4" /\ star' = newStar  BY <1>6 DEF EndPath
  <2> QED  BY <1>3, <2>1 DEF PathCount
<1>7. CASE Reduce \/ StarsPlaced \/ CoverStarred \/ CountCovered \/ NoZero
  <2>1. /\ star' = star /\ newStar' = newStar /\ coveredRows' = coveredRows
        /\ \/ step = "reduce" /\ step' = "stars"
           \/ step = "stars" /\ step' = "step2b"
           \/ step = "step2a" /\ step' = "step2b"
           \/ step = "step2b" /\ step' \in {"step3", "done"}
           \/ step = "step3" /\ Zeros \cap Uncovered = {} /\ step' = "step5"
    BY <1>7 DEF Reduce, StarsPlaced, CoverStarred, CountCovered, NoZero
  <2>2. Remaining' < Remaining
    BY <1>1, <1>3, <2>1, RemainingIs, RemainsAfter
  <2> QED  BY <2>1, <2>2
<1>8. CASE StartPath
  <2>1. /\ star' = star /\ coveredRows' = coveredRows /\ step = "step3" /\ step' = "step4"
        /\ Zeros \cap Uncovered # {}
    BY <1>8 DEF StartPath
  <2>2. Remaining' < Remaining
    BY <1>1, <1>3, <2>1, RemainingIs, RemainsAfter
  <2> QED  BY <2>1, <2>2
<1>9. CASE FollowPath
  <2>1. PICK s \in StarIn(starCol), p \in prime : p[1] = s[1] /\ newStar' = Flipped(s, p)
    BY <1>9 DEF FollowPath, RowOf
  <2>2. /\ step = "step4" /\ step' = "step4" /\ star' = star /\ coveredRows' = coveredRows
    BY <1>9 DEF FollowPath
  <2>3. s \in newStar /\ p \notin newStar /\ s \in star /\ p \notin star
    BY <2>1, <2>2, TakesOne
  <2>4. star' \cap newStar' = (star \cap newStar) \ {s}
    BY <2>1, <2>2, <2>3 DEF Flipped
  <2>5. IsFiniteSet(star \cap newStar)  BY <1>2, FS_Subset
  <2>6. Cardinality(star' \cap newStar') = Cardinality(star \cap newStar) - 1
    BY <2>3, <2>4, <2>5, FS_RemoveElement
  <2>7. Remaining' = Cardinality(star' \cap newStar') /\ Remaining = Cardinality(star \cap newStar)
    BY <2>2 DEF Remaining
  <2>8. Cardinality(star \cap newStar) \in Nat  BY <2>5, FS_CardinalityType
  <2> QED  BY <2>2, <2>6, <2>7, <2>8
<1>10. CASE ShiftCosts
  <2>1. /\ star' = star /\ coveredRows' = coveredRows /\ step = "step5" /\ step' = "step3"
    BY <1>10 DEF ShiftCosts
  <2>2. (Zeros \cap Uncovered)' # {}  BY <1>10, ShiftMakesZero
  <2>3. Remaining' < Remaining
    BY <1>1, <1>3, <2>1, <2>2, RemainingIs, RemainsAfter
  <2> QED  BY <2>1, <2>3
<1> QED
  BY <1>4, <1>5, <1>6, <1>7, <1>8, <1>9, <1>10 DEF Next

(* The functions call each other finitely often, for matrices of every     *)
(* size and costs of every value: each step adds a star, covers a row more *)
(* or comes nearer to that, and none of the three can go on for ever.      *)
THEOREM CallsEnd ==
  Spec => /\ Advances
          /\ [](Cardinality(star) <= minDim /\ coveredRows \subseteq Rows)
          /\ [](Remaining \in 0 .. minDim + 7)
<1>1. Init => PathCount  BY DEF Init, PathCount
<1>2. IInv => /\ Cardinality(star) <= minDim /\ coveredRows \subseteq Rows
              /\ Remaining \in 0 .. minDim + 7
  <2> SUFFICES ASSUME IInv
               PROVE  /\ Cardinality(star) <= minDim /\ coveredRows \subseteq Rows
                      /\ Remaining \in 0 .. minDim + 7
    OBVIOUS
  <2>1. Shape /\ TypeOK /\ Independent(star) /\ star \in SUBSET Cells
    BY DEF IInv, StarInv, TypeOK
  <2>2. Cardinality(star) <= minDim /\ minDim \in Nat  BY <2>1, OneEach, Shorter
  <2>3. Remaining \in 0 .. Cardinality(star) + 7
    <3> DEFINE n == Cardinality(star)
    <3>1. step \in {"reduce", "stars", "step2a", "step2b", "step3", "step4", "step5", "done"}
      BY <2>1 DEF TypeOK
    <3>2. n \in Nat /\ Cardinality(star \cap newStar) \in 0 .. n  BY <2>1, RemainingIs
    <3> QED  BY <2>1, <3>1, <3>2, RemainingIs
  <2>4. Cardinality(star) \in Nat  BY <2>1, RemainingIs
  <2> QED  BY <2>1, <2>2, <2>3, <2>4 DEF TypeOK
<1>3. IInv /\ IInv' /\ PathCount /\ [Next]_vars =>
        [\/ Cardinality(star') > Cardinality(star)
         \/ star' = star /\ coveredRows \subseteq coveredRows' /\ coveredRows' # coveredRows
         \/ star' = star /\ coveredRows' = coveredRows /\ Remaining' < Remaining]_vars
  BY StepAdvances
<1>4. IInv /\ PathCount /\ [Next]_vars => PathCount'  BY StepPathCount
<1> QED  BY <1>1, <1>2, <1>3, <1>4, Invariance, PTL DEF Spec, Advances
-----------------------------------------------------------------------------
(* SUMS OVER SETS                                                          *)

(* Sets of finite sets have a smallest member: it contains no other.       *)
LEMMA SmallestSet ==
  ASSUME NEW S, IsFiniteSet(S), NEW B \in SUBSET (SUBSET S), B # {}
  PROVE  \E T \in B : \A U \in B : U \subseteq T => U = T
<1> DEFINE R == StrictSubsetOrdering(S)
           F == FiniteSubsetsOf(S)
<1>1. B \subseteq F  BY FS_Subset DEF FiniteSubsetsOf
<1>2. IsWellFoundedOn(R, F)  BY FS_StrictSubsetOrderingWellFounded
<1>3. PICK T \in B : \A U \in B : ~(<<U, T>> \in R)
  <2> HIDE DEF R, F
  <2> QED  BY <1>1, <1>2, WFMin
<1>4. ASSUME NEW U \in B, U \subseteq T PROVE U = T
  <2>1. <<U, T>> \in (SUBSET S) \X (SUBSET S)  OBVIOUS
  <2> QED  BY <1>3, <1>4, <2>1 DEF StrictSubsetOrdering
<1> QED  BY <1>4

(* Induction over a finite set, for the set of the subsets that are good.  *)
LEMMA SetInduction ==
  ASSUME NEW S, IsFiniteSet(S), NEW Good, {} \in Good,
         \A T \in SUBSET S, x \in S : T \in Good /\ x \notin T => T \cup {x} \in Good
  PROVE  S \in Good
<1> SUFFICES ASSUME S \notin Good PROVE FALSE
  OBVIOUS
<1> DEFINE B == (SUBSET S) \ Good
<1>1. S \in B  OBVIOUS
<1>2. PICK T \in B : \A U \in B : U \subseteq T => U = T
  <2> HIDE DEF B
  <2>1. B \subseteq SUBSET S  BY DEF B
  <2> QED  BY <1>1, <2>1, SmallestSet
<1>3. PICK x : x \in T  BY <1>2
<1>4. T \ {x} \in Good  BY <1>2, <1>3
<1>5. T = (T \ {x}) \cup {x}  BY <1>3
<1> QED  BY <1>3, <1>4, <1>5

(* The recursion a sum over a set is defined by: an element at a time.     *)
Pick(s) == CHOOSE x \in s : TRUE

SumOn(w, S, g) ==
  g = [s \in SUBSET S |-> IF s = {} THEN 0 ELSE w[Pick(s)] + g[s \ {Pick(s)}]]

Sum(w, S) == (CHOOSE g : SumOn(w, S, g))[S]

LEMMA CostIsSum == \A S : Cost(S) = Sum(input, S)
BY DEF Cost, Sum, SumOn, Pick, MapThenSumSet, MapThenFoldSet

LEMMA PickIs == \A S : S # {} => Pick(S) \in S
BY DEF Pick

(* Two sums agree on the sets both are defined for.                        *)
LEMMA SumUnique ==
  ASSUME NEW w, NEW S, NEW T, NEW g, NEW h, SumOn(w, S, g), SumOn(w, T, h),
         NEW U, IsFiniteSet(U), U \subseteq S, U \subseteq T
  PROVE  g[U] = h[U]
<1> SUFFICES ASSUME g[U] # h[U] PROVE FALSE
  OBVIOUS
<1> DEFINE B == {s \in SUBSET U : g[s] # h[s]}
<1>1. PICK s \in B : \A t \in B : t \subseteq s => t = s
  <2>1. U \in B  OBVIOUS
  <2> HIDE DEF B
  <2>2. B \subseteq SUBSET U  BY DEF B
  <2> QED  BY <2>1, <2>2, SmallestSet
<1>2. s \in SUBSET S /\ s \in SUBSET T /\ g[s] # h[s]  OBVIOUS
<1>3. /\ g[s] = IF s = {} THEN 0 ELSE w[Pick(s)] + g[s \ {Pick(s)}]
      /\ h[s] = IF s = {} THEN 0 ELSE w[Pick(s)] + h[s \ {Pick(s)}]
  BY <1>2 DEF SumOn
<1>4. s # {}  BY <1>2, <1>3
<1>5. g[s \ {Pick(s)}] = h[s \ {Pick(s)}]  BY <1>1, <1>4, PickIs
<1> QED  BY <1>2, <1>3, <1>5

(* There is one for every finite set.                                      *)
LEMMA SumExists ==
  ASSUME NEW w, NEW S, IsFiniteSet(S)
  PROVE  \E g : SumOn(w, S, g)
<1> SUFFICES ASSUME ~\E g : SumOn(w, S, g) PROVE FALSE
  OBVIOUS
<1> DEFINE B == {s \in SUBSET S : ~\E g : SumOn(w, s, g)}
<1>1. PICK T \in B : \A t \in B : t \subseteq T => t = T
  <2>1. S \in B  OBVIOUS
  <2> HIDE DEF B
  <2>2. B \subseteq SUBSET S  BY DEF B
  <2> QED  BY <2>1, <2>2, SmallestSet
<1> DEFINE G(s) == CHOOSE g : SumOn(w, s, g)
           rest(s) == s \ {Pick(s)}
           h == [s \in SUBSET T |->
                   IF s = {} THEN 0 ELSE w[Pick(s)] + G(rest(s))[rest(s)]]
<1>2. ASSUME NEW s \in SUBSET T, s # T
      PROVE  SumOn(w, s, G(s))
  <2>1. s \notin B  BY <1>1, <1>2
  <2>2. \E g : SumOn(w, s, g)  BY <2>1
  <2> QED  BY <2>2
<1>3. ASSUME NEW s \in SUBSET T, s # T
      PROVE  G(s)[s] = h[s]
  <2> HIDE DEF G
  <2>1. SumOn(w, s, G(s))  BY <1>2, <1>3
  <2>2. G(s)[s] = IF s = {} THEN 0 ELSE w[Pick(s)] + G(s)[rest(s)]
    <3>1. s \in SUBSET s  OBVIOUS
    <3> QED  BY <2>1, <3>1 DEF SumOn
  <2>3. CASE s = {}
    BY <2>2, <2>3
  <2>4. CASE s # {}
    <3>1. rest(s) \in SUBSET T /\ rest(s) # T /\ rest(s) \subseteq s
      BY <2>4, PickIs
    <3>2. SumOn(w, rest(s), G(rest(s)))  BY <1>2, <3>1
    <3>3. IsFiniteSet(rest(s))  BY <1>1, <3>1, FS_Subset
    <3>4. G(s)[rest(s)] = G(rest(s))[rest(s)]
      <4> HIDE DEF rest
      <4> QED  BY <2>1, <3>1, <3>2, <3>3, SumUnique
    <3> QED  BY <2>2, <2>4, <3>4
  <2> QED  BY <2>3, <2>4
<1>4. SumOn(w, T, h)
  <2>1. ASSUME NEW s \in SUBSET T, s # {}
        PROVE  G(rest(s))[rest(s)] = h[rest(s)]
    <3>1. rest(s) \in SUBSET T /\ rest(s) # T  BY <2>1, PickIs
    <3> HIDE DEF rest, G, h
    <3> QED  BY <1>3, <3>1
  <2>2. h = [s \in SUBSET T |-> IF s = {} THEN 0 ELSE w[Pick(s)] + h[rest(s)]]
    <3> DEFINE k == [s \in SUBSET T |-> IF s = {} THEN 0 ELSE w[Pick(s)] + h[rest(s)]]
    <3>1. ASSUME NEW s \in SUBSET T PROVE h[s] = k[s]
      <4> HIDE DEF G, rest
      <4> QED  BY <2>1
    <3>2. DOMAIN h = SUBSET T /\ DOMAIN k = SUBSET T  OBVIOUS
    <3>3. h = [s \in SUBSET T |-> h[s]] /\ k = [s \in SUBSET T |-> k[s]]  OBVIOUS
    <3> HIDE DEF h, k
    <3>4. h = k  BY <3>1, <3>3
    <3> QED  BY <3>4 DEF k
  <2> HIDE DEF h, G
  <2> QED  BY <2>2 DEF SumOn
<1> HIDE DEF h
<1> QED  BY <1>1, <1>4

(* The recursion holds of the sum itself.                                  *)
LEMMA SumSteps ==
  ASSUME NEW w, NEW S, IsFiniteSet(S)
  PROVE  Sum(w, S) = IF S = {} THEN 0 ELSE w[Pick(S)] + Sum(w, S \ {Pick(S)})
<1> DEFINE g == CHOOSE f : SumOn(w, S, f)
           R == S \ {Pick(S)}
           h == CHOOSE f : SumOn(w, R, f)
<1>1. SumOn(w, S, g)  BY SumExists
<1>2. IsFiniteSet(R)  BY FS_Subset
<1>3. SumOn(w, R, h)
  <2> HIDE DEF R
  <2> QED  BY <1>2, SumExists
<1>4. g[R] = h[R]
  <2>1. R \subseteq S  OBVIOUS
  <2> HIDE DEF g, h, R
  <2> QED  BY <1>1, <1>2, <1>3, <2>1, SumUnique
<1>5. g[S] = IF S = {} THEN 0 ELSE w[Pick(S)] + g[R]
  <2>1. S \in SUBSET S  OBVIOUS
  <2> HIDE DEF g
  <2> QED  BY <1>1, <2>1 DEF SumOn
<1>6. Sum(w, S) = g[S] /\ Sum(w, R) = h[R]  BY DEF Sum
<1> HIDE DEF g, h
<1> QED  BY <1>4, <1>5, <1>6

LEMMA SumOfNone == \A w : Sum(w, {}) = 0
BY SumSteps, FS_EmptySet

(* A sum of integers is one.                                               *)
LEMMA SumIsInt ==
  ASSUME NEW w, NEW S, IsFiniteSet(S), \A x \in S : w[x] \in Int
  PROVE  Sum(w, S) \in Int
<1> SUFFICES ASSUME Sum(w, S) \notin Int PROVE FALSE
  OBVIOUS
<1> DEFINE B == {s \in SUBSET S : Sum(w, s) \notin Int}
<1>1. PICK T \in B : \A t \in B : t \subseteq T => t = T
  <2>1. S \in B  OBVIOUS
  <2> HIDE DEF B
  <2>2. B \subseteq SUBSET S  BY DEF B
  <2> QED  BY <2>1, <2>2, SmallestSet
<1>2. IsFiniteSet(T)  BY FS_Subset
<1>3. T # {}  BY SumOfNone
<1>4. Pick(T) \in T  BY <1>3, PickIs
<1>5. Sum(w, T \ {Pick(T)}) \in Int  BY <1>1, <1>4
<1>6. Sum(w, T) = w[Pick(T)] + Sum(w, T \ {Pick(T)})  BY <1>2, <1>3, SumSteps
<1>7. w[Pick(T)] \in Int  BY <1>4
<1> HIDE DEF B
<1>8. Sum(w, T) \in Int  BY <1>5, <1>6, <1>7
<1> QED  BY <1>1, <1>8 DEF B

(* Any element may be taken out first.                                     *)
LEMMA SumWithout ==
  ASSUME NEW w, NEW S, IsFiniteSet(S), \A x \in S : w[x] \in Int, NEW z \in S
  PROVE  Sum(w, S) = w[z] + Sum(w, S \ {z})
<1> DEFINE B == {s \in SUBSET S : \E x \in s : Sum(w, s) # w[x] + Sum(w, s \ {x})}
<1> SUFFICES ASSUME B # {} PROVE FALSE
  OBVIOUS
<1>1. PICK T \in B : \A t \in B : t \subseteq T => t = T
  <2> HIDE DEF B
  <2>2. B \subseteq SUBSET S  BY DEF B
  <2> QED  BY <2>2, SmallestSet
<1>2. PICK x \in T : Sum(w, T) # w[x] + Sum(w, T \ {x})  BY <1>1
<1> DEFINE y == Pick(T)
<1>3. y \in T /\ T # {}  BY PickIs
<1>4. Sum(w, T) = w[y] + Sum(w, T \ {y})
  <2>1. IsFiniteSet(T)  BY FS_Subset
  <2> QED  BY <1>3, <2>1, SumSteps
<1> HIDE DEF y
<1>5. x # y  BY <1>2, <1>4
<1>6. T \ {y} \in SUBSET S /\ T \ {y} # T /\ T \ {y} \subseteq T /\ x \in T \ {y}
  BY <1>3, <1>5
<1>7. T \ {x} \in SUBSET S /\ T \ {x} # T /\ T \ {x} \subseteq T /\ y \in T \ {x}
  BY <1>2, <1>3, <1>5
<1>8. T \ {y} \notin B /\ T \ {x} \notin B
  <2> HIDE DEF B
  <2> QED  BY <1>1, <1>6, <1>7
<1>9. Sum(w, T \ {y}) = w[x] + Sum(w, (T \ {y}) \ {x})  BY <1>6, <1>8
<1>10. Sum(w, T \ {x}) = w[y] + Sum(w, (T \ {x}) \ {y})  BY <1>7, <1>8
<1>11. (T \ {y}) \ {x} = (T \ {x}) \ {y}  OBVIOUS
<1>12. Sum(w, (T \ {x}) \ {y}) \in Int /\ w[x] \in Int /\ w[y] \in Int
  <2>1. IsFiniteSet((T \ {x}) \ {y})  BY FS_Subset
  <2>2. \A a \in (T \ {x}) \ {y} : w[a] \in Int  BY <1>1
  <2>3. Sum(w, (T \ {x}) \ {y}) \in Int  BY <2>1, <2>2, SumIsInt
  <2> QED  BY <1>3, <2>3
<1>13. Sum(w, T \ {y}) = w[x] + Sum(w, (T \ {x}) \ {y})  BY <1>9, <1>11
<1> DEFINE rest == Sum(w, (T \ {x}) \ {y})
           withX == Sum(w, T \ {y})
           withY == Sum(w, T \ {x})
<1>14. /\ withX = w[x] + rest /\ withY = w[y] + rest
       /\ rest \in Int /\ w[x] \in Int /\ w[y] \in Int
       /\ Sum(w, T) # w[x] + withY /\ Sum(w, T) = w[y] + withX
  BY <1>2, <1>4, <1>10, <1>12, <1>13
<1> HIDE DEF B, rest, withX, withY
<1> QED  BY <1>14

LEMMA SumWith ==
  ASSUME NEW w, NEW S, IsFiniteSet(S), NEW z, z \notin S,
         \A x \in S \cup {z} : w[x] \in Int
  PROVE  Sum(w, S \cup {z}) = w[z] + Sum(w, S)
<1>1. IsFiniteSet(S \cup {z})  BY FS_AddElement
<1>2. (S \cup {z}) \ {z} = S  OBVIOUS
<1> QED  BY <1>1, <1>2, SumWithout

(* Term by term: sums add up and grow.                                     *)
LEMMA SumPlus ==
  ASSUME NEW S, IsFiniteSet(S), NEW f, NEW g, NEW h,
         \A x \in S : f[x] \in Int /\ g[x] \in Int /\ h[x] = f[x] + g[x]
  PROVE  Sum(h, S) = Sum(f, S) + Sum(g, S)
<1> DEFINE Good == {T \in SUBSET S : Sum(h, T) = Sum(f, T) + Sum(g, T)}
<1>1. {} \in Good  BY SumOfNone
<1>2. ASSUME NEW T \in SUBSET S, NEW x \in S, T \in Good, x \notin T
      PROVE  T \cup {x} \in Good
  <2>1. IsFiniteSet(T)  BY FS_Subset
  <2>2. Sum(f, T) \in Int /\ Sum(g, T) \in Int  BY <2>1, SumIsInt
  <2>3. /\ Sum(f, T \cup {x}) = f[x] + Sum(f, T)
        /\ Sum(g, T \cup {x}) = g[x] + Sum(g, T)
        /\ Sum(h, T \cup {x}) = h[x] + Sum(h, T)
    <3>1. \A y \in T \cup {x} : f[y] \in Int /\ g[y] \in Int /\ h[y] \in Int
      OBVIOUS
    <3> QED  BY <1>2, <2>1, <3>1, SumWith
  <2>4. Sum(h, T) = Sum(f, T) + Sum(g, T)  BY <1>2
  <2>5. f[x] \in Int /\ g[x] \in Int /\ h[x] = f[x] + g[x]  OBVIOUS
  <2> HIDE DEF Good
  <2>6. Sum(h, T \cup {x}) = Sum(f, T \cup {x}) + Sum(g, T \cup {x})
    BY <2>2, <2>3, <2>4, <2>5
  <2> QED  BY <2>6 DEF Good
<1> HIDE DEF Good
<1>3. S \in Good  BY <1>1, <1>2, SetInduction
<1> QED  BY <1>3 DEF Good

LEMMA SumMonotone ==
  ASSUME NEW S, IsFiniteSet(S), NEW f, NEW g,
         \A x \in S : f[x] \in Int /\ g[x] \in Int /\ f[x] <= g[x]
  PROVE  Sum(f, S) <= Sum(g, S)
<1> DEFINE Good == {T \in SUBSET S : Sum(f, T) <= Sum(g, T)}
<1>1. {} \in Good  BY SumOfNone
<1>2. ASSUME NEW T \in SUBSET S, NEW x \in S, T \in Good, x \notin T
      PROVE  T \cup {x} \in Good
  <2>1. IsFiniteSet(T)  BY FS_Subset
  <2>2. Sum(f, T) \in Int /\ Sum(g, T) \in Int  BY <2>1, SumIsInt
  <2>3. /\ Sum(f, T \cup {x}) = f[x] + Sum(f, T)
        /\ Sum(g, T \cup {x}) = g[x] + Sum(g, T)
    <3>1. \A y \in T \cup {x} : f[y] \in Int /\ g[y] \in Int
      OBVIOUS
    <3> QED  BY <1>2, <2>1, <3>1, SumWith
  <2>4. Sum(f, T) <= Sum(g, T)  BY <1>2
  <2>5. f[x] \in Int /\ g[x] \in Int /\ f[x] <= g[x]  OBVIOUS
  <2> HIDE DEF Good
  <2>6. Sum(f, T \cup {x}) <= Sum(g, T \cup {x})
    BY <2>2, <2>3, <2>4, <2>5
  <2> QED  BY <2>6 DEF Good
<1> HIDE DEF Good
<1>3. S \in Good  BY <1>1, <1>2, SetInduction
<1> QED  BY <1>3 DEF Good

(* A sum may be taken over other names of the elements.                    *)
LEMMA SumRenamed ==
  ASSUME NEW S, IsFiniteSet(S), NEW m, NEW f, NEW g,
         \A x, y \in S : m[x] = m[y] => x = y,
         \A x \in S : g[x] \in Int /\ g[x] = f[m[x]]
  PROVE  Sum(g, S) = Sum(f, {m[x] : x \in S})
<1> DEFINE image(T) == {m[x] : x \in T}
           Good == {T \in SUBSET S : /\ IsFiniteSet(image(T))
                                     /\ Sum(g, T) = Sum(f, image(T))}
<1>1. {} \in Good
  <2>1. image({}) = {}  OBVIOUS
  <2> QED  BY <2>1, SumOfNone, FS_EmptySet
<1>2. ASSUME NEW T \in SUBSET S, NEW x \in S, T \in Good, x \notin T
      PROVE  T \cup {x} \in Good
  <2>1. IsFiniteSet(T)  BY FS_Subset
  <2>2. image(T \cup {x}) = image(T) \cup {m[x]}  OBVIOUS
  <2>3. m[x] \notin image(T)  BY <1>2
  <2>4. \A z \in image(T) \cup {m[x]} : f[z] \in Int  OBVIOUS
  <2>5. IsFiniteSet(image(T)) /\ Sum(g, T) = Sum(f, image(T))  BY <1>2
  <2>6. Sum(g, T \cup {x}) = g[x] + Sum(g, T)
    <3>1. \A y \in T \cup {x} : g[y] \in Int  OBVIOUS
    <3> QED  BY <1>2, <2>1, <3>1, SumWith
  <2>7. Sum(f, image(T) \cup {m[x]}) = f[m[x]] + Sum(f, image(T))
    <3> HIDE DEF image
    <3> QED  BY <2>3, <2>4, <2>5, SumWith
  <2>8. IsFiniteSet(image(T) \cup {m[x]})
    <3> HIDE DEF image
    <3> QED  BY <2>5, FS_AddElement
  <2>9. g[x] = f[m[x]]  OBVIOUS
  <2> HIDE DEF image
  <2> QED  BY <2>2, <2>5, <2>6, <2>7, <2>8, <2>9
<1>3. S \in Good
  <2> HIDE DEF Good
  <2> QED  BY <1>1, <1>2, SetInduction
<1> QED  BY <1>3

(* Elements that are not positive lessen a sum, zeros leave it as it is.   *)
LEMMA SumOfMore ==
  ASSUME NEW T, IsFiniteSet(T), NEW S \in SUBSET T, NEW f,
         \A x \in T : f[x] \in Int,
         \A x \in T \ S : f[x] <= 0
  PROVE  /\ Sum(f, T) <= Sum(f, S)
         /\ (\A x \in T \ S : f[x] = 0) => Sum(f, T) = Sum(f, S)
<1> DEFINE D == T \ S
           Good == {E \in SUBSET D :
                     /\ Sum(f, S \cup E) <= Sum(f, S)
                     /\ (\A x \in D : f[x] = 0) => Sum(f, S \cup E) = Sum(f, S)}
<1>1. IsFiniteSet(S) /\ IsFiniteSet(D)  BY FS_Subset, FS_Difference
<1>2. Sum(f, S) \in Int  BY <1>1, SumIsInt
<1>3. {} \in Good
  <2>1. S \cup {} = S  OBVIOUS
  <2> QED  BY <1>2, <2>1
<1>4. ASSUME NEW E \in SUBSET D, NEW x \in D, E \in Good, x \notin E
      PROVE  E \cup {x} \in Good
  <2>1. S \cup E \in SUBSET T /\ x \notin S \cup E  BY <1>4
  <2>2. S \cup (E \cup {x}) = (S \cup E) \cup {x}  OBVIOUS
  <2>3. IsFiniteSet(S \cup E)  BY <2>1, FS_Subset
  <2>4. Sum(f, S \cup E) \in Int  BY <2>1, <2>3, SumIsInt
  <2>5. Sum(f, (S \cup E) \cup {x}) = f[x] + Sum(f, S \cup E)
    <3>1. \A y \in (S \cup E) \cup {x} : f[y] \in Int  OBVIOUS
    <3> QED  BY <2>1, <2>3, <3>1, SumWith
  <2>6. f[x] \in Int /\ f[x] <= 0  OBVIOUS
  <2>7. /\ Sum(f, S \cup E) <= Sum(f, S)
        /\ (\A y \in D : f[y] = 0) => Sum(f, S \cup E) = Sum(f, S)
    BY <1>4
  <2>8. Sum(f, S \cup (E \cup {x})) = f[x] + Sum(f, S \cup E)  BY <2>2, <2>5
  <2>9. Sum(f, S \cup (E \cup {x})) <= Sum(f, S)
    BY <1>2, <2>4, <2>6, <2>7, <2>8
  <2>10. (\A y \in D : f[y] = 0) => Sum(f, S \cup (E \cup {x})) = Sum(f, S)
    BY <1>2, <2>4, <2>6, <2>7, <2>8
  <2> QED  BY <2>9, <2>10
<1>5. D \in Good
  <2> HIDE DEF Good, D
  <2> QED  BY <1>1, <1>3, <1>4, SetInduction
<1>6. S \cup D = T  OBVIOUS
<1> QED  BY <1>5, <1>6
-----------------------------------------------------------------------------
(* THE LEAST COST                                                          *)

(* An assignment takes every line of the shorter dimension.                *)
LEMMA TakesAll ==
  ASSUME Shape, NEW S \in Assignments
  PROVE  /\ S \in SUBSET Cells /\ Independent(S) /\ IsFiniteSet(S)
         /\ RowsOf(S) \in SUBSET Rows /\ ColumnsOf(S) \in SUBSET Columns
         /\ RowsShorter => RowsOf(S) = Rows
         /\ ~RowsShorter => ColumnsOf(S) = Columns
<1>1. S \in SUBSET Cells /\ Cardinality(S) = minDim /\ Independent(S)
  BY DEF Assignments, kSubset
<1>2. /\ IsFiniteSet(S)
      /\ Cardinality(ColumnsOf(S)) = minDim /\ Cardinality(RowsOf(S)) = minDim
  BY <1>1, OneEach
<1>3. RowsOf(S) \in SUBSET Rows /\ ColumnsOf(S) \in SUBSET Columns
  BY <1>1 DEF RowsOf, ColumnsOf, Rows, Columns
<1>4. RowsShorter => RowsOf(S) = Rows
  BY <1>2, <1>3, Grid, Shorter, FS_Subset
<1>5. ~RowsShorter => ColumnsOf(S) = Columns
  BY <1>2, <1>3, Grid, Shorter, FS_Subset
<1> QED  BY <1>1, <1>2, <1>3, <1>4, <1>5

(* Over independent positions the potentials are summed by row and column. *)
LEMMA SumOfPotentials ==
  ASSUME Shape, NEW S \in SUBSET Cells, Independent(S),
         NEW u \in [Rows -> Int], NEW v \in [Columns -> Int],
         NEW e, \A c \in S : e[c] = u[c[1]] + v[c[2]]
  PROVE  Sum(e, S) = Sum(u, RowsOf(S)) + Sum(v, ColumnsOf(S))
<1> DEFINE f == [c \in S |-> u[c[1]]]
           g == [c \in S |-> v[c[2]]]
           row == [c \in S |-> c[1]]
           column == [c \in S |-> c[2]]
<1>1. IsFiniteSet(S)  BY OneEach
<1>2. \A c \in S : u[c[1]] \in Int /\ v[c[2]] \in Int  BY Coordinates
<1>3. Sum(e, S) = Sum(f, S) + Sum(g, S)
  <2>1. \A c \in S : f[c] \in Int /\ g[c] \in Int /\ e[c] = f[c] + g[c]
    BY <1>2
  <2> HIDE DEF f, g
  <2> QED  BY <1>1, <2>1, SumPlus
<1>4. Sum(f, S) = Sum(u, RowsOf(S))
  <2>1. \A c, d \in S : row[c] = row[d] => c = d  BY DEF Independent
  <2>2. \A c \in S : f[c] \in Int /\ f[c] = u[row[c]]  BY <1>2
  <2>3. RowsOf(S) = {row[c] : c \in S}  BY DEF RowsOf
  <2> HIDE DEF f, row
  <2> QED  BY <1>1, <2>1, <2>2, <2>3, SumRenamed
<1>5. Sum(g, S) = Sum(v, ColumnsOf(S))
  <2>1. \A c, d \in S : column[c] = column[d] => c = d  BY DEF Independent
  <2>2. \A c \in S : g[c] \in Int /\ g[c] = v[column[c]]  BY <1>2
  <2>3. ColumnsOf(S) = {column[c] : c \in S}  BY DEF ColumnsOf
  <2> HIDE DEF f, g, row, column
  <2>4. Sum(g, S) = Sum(v, {column[c] : c \in S})
    BY <1>1, <2>1, <2>2, SumRenamed
  <2> QED  BY <2>3, <2>4
<1> QED  BY <1>3, <1>4, <1>5

(* The stars have as many columns as step2b wants.                         *)
LEMMA StarsAssign ==
  ASSUME IInv, step = "done"
  PROVE  star \in Assignments
<1>1. /\ Shape /\ star \in SUBSET Cells /\ Independent(star)
      /\ coveredColumns = ColumnsOf(star) /\ Cardinality(coveredColumns) = minDim
  BY DEF IInv, TypeOK, StarInv, RestInv
<1>2. Cardinality(star) = minDim  BY <1>1, OneEach
<1> QED  BY <1>1, <1>2 DEF Assignments, kSubset

(* The stars cost as much as their potentials, any other assignment at     *)
(* least as much as its own.  Both take all of the shorter dimension, and  *)
(* of the other dimension the stars take every line that counts against.   *)
LEMMA StarsCostLeast ==
  ASSUME IInv, step = "done", NEW S \in Assignments
  PROVE  Cost(star) <= Cost(S)
<1>1. Shape /\ TypeOK /\ StarInv /\ CostInv  BY DEF IInv
<1>2. star \in Assignments  BY StarsAssign
<1>3. PICK u, v : Potential(u, v)  BY <1>1 DEF CostInv
<1>4. u \in [Rows -> Int] /\ v \in [Columns -> Int]  BY <1>3 DEF Potential
<1> DEFINE e == [c \in Cells |-> u[c[1]] + v[c[2]]]
           P(T) == Sum(u, RowsOf(T)) + Sum(v, ColumnsOf(T))
<1>5. \A c \in Cells : input[c] \in Int /\ e[c] \in Int /\ dist[c] = input[c] - e[c]
  <2> TAKE c \in Cells
  <2>1. u[c[1]] \in Int /\ v[c[2]] \in Int  BY <1>1, <1>4, Coordinates
  <2>2. input[c] \in Nat  BY <1>1, Grid
  <2>3. dist[c] = input[c] - u[c[1]] - v[c[2]]  BY <1>3 DEF Potential
  <2> QED  BY <2>1, <2>2, <2>3
<1>6. \A T \in Assignments : Sum(e, T) = P(T)
  <2> TAKE T \in Assignments
  <2>1. T \in SUBSET Cells /\ Independent(T)  BY <1>1, TakesAll
  <2>2. \A c \in T : e[c] = u[c[1]] + v[c[2]]  BY <2>1
  <2> HIDE DEF e
  <2> QED  BY <1>1, <1>4, <2>1, <2>2, SumOfPotentials
<1>7. IsFiniteSet(Rows) /\ IsFiniteSet(Columns)  BY <1>1, Grid
<1>8. \A T \in Assignments : /\ Sum(u, RowsOf(T)) \in Int
                             /\ Sum(v, ColumnsOf(T)) \in Int
  <2> TAKE T \in Assignments
  <2>1. RowsOf(T) \in SUBSET Rows /\ ColumnsOf(T) \in SUBSET Columns
    BY <1>1, TakesAll
  <2>2. IsFiniteSet(RowsOf(T)) /\ IsFiniteSet(ColumnsOf(T))
    BY <1>7, <2>1, FS_Subset
  <2>3. \A i \in RowsOf(T) : u[i] \in Int  BY <1>4, <2>1
  <2>4. \A j \in ColumnsOf(T) : v[j] \in Int  BY <1>4, <2>1
  <2> QED  BY <2>2, <2>3, <2>4, SumIsInt
<1> HIDE DEF e
<1>9. Cost(star) <= P(star)
  <2>1. star \in SUBSET Cells /\ IsFiniteSet(star)  BY <1>1, <1>2, TakesAll
  <2>2. \A c \in star : dist[c] = 0  BY <1>1 DEF StarInv
  <2>3. \A c \in star : input[c] \in Int /\ e[c] \in Int /\ input[c] <= e[c]
    BY <1>5, <2>1, <2>2
  <2>4. Sum(input, star) <= Sum(e, star)  BY <2>1, <2>3, SumMonotone
  <2> QED  BY <1>2, <1>6, <2>4, CostIsSum
<1>10. P(S) <= Cost(S)
  <2>1. S \in SUBSET Cells /\ IsFiniteSet(S)  BY <1>1, TakesAll
  <2>2. \A c \in S : dist[c] \in Nat  BY <1>1, <2>1 DEF TypeOK
  <2>3. \A c \in S : input[c] \in Int /\ e[c] \in Int /\ e[c] <= input[c]
    BY <1>5, <2>1, <2>2
  <2>4. Sum(e, S) <= Sum(input, S)  BY <2>1, <2>3, SumMonotone
  <2> QED  BY <1>6, <2>4, CostIsSum
<1>11. P(star) <= P(S)
  <2>1. /\ RowsOf(S) \in SUBSET Rows /\ ColumnsOf(S) \in SUBSET Columns
        /\ RowsOf(star) \in SUBSET Rows /\ ColumnsOf(star) \in SUBSET Columns
    BY <1>1, <1>2, TakesAll
  <2>2. CASE RowsShorter
    <3>1. RowsOf(S) = Rows /\ RowsOf(star) = Rows  BY <1>1, <1>2, <2>2, TakesAll
    <3>2. \A j \in Columns : v[j] \in Int /\ v[j] <= 0
      BY <1>3, <1>4, <2>2 DEF Potential
    <3>3. \A j \in Columns \ ColumnsOf(star) : v[j] = 0
      BY <1>3, <1>4, <2>2 DEF Potential
    <3>4. Sum(v, Columns) = Sum(v, ColumnsOf(star))
      BY <1>7, <2>1, <3>2, <3>3, SumOfMore
    <3>5. Sum(v, Columns) <= Sum(v, ColumnsOf(S))
      BY <1>7, <2>1, <3>2, SumOfMore
    <3> QED  BY <1>2, <1>8, <3>1, <3>4, <3>5
  <2>3. CASE ~RowsShorter
    <3>1. ColumnsOf(S) = Columns /\ ColumnsOf(star) = Columns
      BY <1>1, <1>2, <2>3, TakesAll
    <3>2. \A i \in Rows : u[i] \in Int /\ u[i] <= 0
      BY <1>3, <1>4, <2>3 DEF Potential
    <3>3. \A i \in Rows \ RowsOf(star) : u[i] = 0
      BY <1>3, <1>4, <2>3 DEF Potential
    <3>4. Sum(u, Rows) = Sum(u, RowsOf(star))
      BY <1>7, <2>1, <3>2, <3>3, SumOfMore
    <3>5. Sum(u, Rows) <= Sum(u, RowsOf(S))
      BY <1>7, <2>1, <3>2, SumOfMore
    <3> QED  BY <1>2, <1>8, <3>1, <3>4, <3>5
  <2> QED  BY <2>2, <2>3
<1>12. Cost(star) \in Int /\ Cost(S) \in Int
  <2>1. \A T \in Assignments : Sum(input, T) \in Int
    <3> TAKE T \in Assignments
    <3>1. IsFiniteSet(T) /\ \A c \in T : input[c] \in Int  BY <1>1, <1>5, TakesAll
    <3> QED  BY <3>1, SumIsInt
  <2> QED  BY <1>2, <2>1, CostIsSum
<1>13. P(star) \in Int /\ P(S) \in Int  BY <1>2, <1>8
<1> HIDE DEF P
<1> QED  BY <1>9, <1>10, <1>11, <1>12, <1>13

(* When Solve is done, the stars assign the whole shorter dimension, and   *)
(* no other assignment costs less: for matrices of every size and costs of *)
(* every value.                                                            *)
THEOREM LeastCost == Spec => []Optimal
<1>1. IInv => Optimal  BY StarsAssign, StarsCostLeast DEF Optimal
<1> QED  BY <1>1, Invariance, PTL
=============================================================================
