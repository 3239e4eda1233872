----------------------------- MODULE Hungarian -----------------------------
(***************************************************************************)
(* HungarianAlgorithm (Hungarian.cpp): the assignment of tracked objects   *)
(* (rows) to detections (columns) of least total cost, step by step as the *)
(* functions step2a ... step5 call each other.                             *)
(*                                                                         *)
(* Costs are natural numbers, so that a zero is exact where the code       *)
(* compares with DBL_EPSILON.  Where the code scans for a zero in a fixed  *)
(* order, any order is allowed.                                            *)
(***************************************************************************)
EXTENDS Integers, FiniteSets, FiniteSetsExt

CONSTANTS
  MaxRows, MaxColumns, \* bound: size of the cost matrix
  MaxCost              \* bound: value of its elements

ASSUME HungarianAssumption ==
  /\ MaxRows \in Nat \ {0}
  /\ MaxColumns \in Nat \ {0}
  /\ MaxCost \in Nat

VARIABLES
  step,   \* the function that runs
  input,  \* distMatrixIn
  dist,   \* distMatrix
  star, prime,      \* the true elements of starMatrix and primeMatrix
  newStar,          \* those of newStarMatrix
  coveredRows, coveredColumns,
  starCol           \* starCol of step4

vars == <<step, input, dist, star, prime, newStar, coveredRows, coveredColumns, starCol>>

Cells == DOMAIN input
Rows == {c[1] : c \in Cells}
Columns == {c[2] : c \in Cells}
minDim == Min({Cardinality(Rows), Cardinality(Columns)})

TypeOK ==
  /\ step \in {"reduce", "stars", "step2a", "step2b", "step3", "step4", "step5", "done"}
  /\ dist \in [Cells -> Nat]
  /\ star \subseteq Cells /\ prime \subseteq Cells /\ newStar \subseteq Cells
  /\ coveredRows \subseteq Rows
  /\ coveredColumns \subseteq Columns
  /\ starCol \in Columns \cup {0}

Init ==
  /\ step = "reduce"
  /\ \E m \in 1 .. MaxRows, n \in 1 .. MaxColumns :
       input \in [(1 .. m) \X (1 .. n) -> 0 .. MaxCost]
  /\ dist = input
  /\ star = {} /\ prime = {} /\ newStar = {}
  /\ coveredRows = {} /\ coveredColumns = {}
  /\ starCol = 0

RowOf(c) == {d \in Cells : d[1] = c[1]}
ColumnOf(c) == {d \in Cells : d[2] = c[2]}
Zeros == {c \in Cells : dist[c] = 0}
-----------------------------------------------------------------------------
(* Mutant: the columns are reduced whatever the shape.                     *)
Line_Columns(c) == ColumnOf(c)

(* The shorter dimension is reduced: rows, or else columns.                *)
Line(c) == IF Cardinality(Rows) <= Cardinality(Columns) THEN RowOf(c) ELSE ColumnOf(c)

Reduce ==
  /\ step = "reduce"
  /\ dist' = [c \in Cells |-> dist[c] - Min({dist[d] : d \in Line(c)})]
  /\ step' = "stars"
  /\ UNCHANGED <<input, star, prime, newStar, coveredRows, coveredColumns, starCol>>

Starrable(c) == star \cap (ColumnOf(c) \cup RowOf(c)) = {}

(* Steps 1 and 2a: star zeros as long as they are independent.             *)
StarZero ==
  /\ step = "stars"
  /\ \E c \in Zeros :
       /\ Starrable(c)
       /\ star' = star \cup {c}
       /\ coveredColumns' = coveredColumns \cup {c[2]}
  /\ UNCHANGED <<step, input, dist, prime, newStar, coveredRows, starCol>>

StarsPlaced ==
  /\ step = "stars"
  /\ \A c \in Zeros : ~Starrable(c)
  /\ step' = "step2b"
  /\ UNCHANGED <<input, dist, star, prime, newStar, coveredRows, coveredColumns, starCol>>
-----------------------------------------------------------------------------
(* step2a: cover every column that holds a star.                           *)
CoverStarred ==
  /\ step = "step2a"
  /\ coveredColumns' = coveredColumns \cup {c[2] : c \in star}
  /\ step' = "step2b"
  /\ UNCHANGED <<input, dist, star, prime, newStar, coveredRows, starCol>>

Enough == Cardinality(coveredColumns) = minDim

(* step2b: finished when every line of the shorter dimension is assigned.  *)
CountCovered ==
  /\ step = "step2b"
  /\ step' = IF Enough THEN "done" ELSE "step3"
  /\ UNCHANGED <<input, dist, star, prime, newStar, coveredRows, coveredColumns, starCol>>

Uncovered == {c \in Cells : c[1] \notin coveredRows /\ c[2] \notin coveredColumns}

(* step3: prime an uncovered zero; with a star in its row the row is       *)
(* covered and the column of the star uncovered.                           *)
PrimeZero ==
  /\ step = "step3"
  /\ \E c \in Zeros \cap Uncovered :
       /\ prime' = prime \cup {c}
       /\ \E s \in star \cap RowOf(c) :
            /\ coveredRows' = coveredRows \cup {c[1]}
            /\ coveredColumns' = coveredColumns \ {s[2]}
  /\ UNCHANGED <<step, input, dist, star, newStar, starCol>>

(* Without one, step4 starts an alternating path there.                    *)
StartPath ==
  /\ step = "step3"
  /\ \E c \in Zeros \cap Uncovered :
       /\ star \cap RowOf(c) = {}
       /\ prime' = prime \cup {c}
       /\ newStar' = star \cup {c}
       /\ starCol' = c[2]
  /\ step' = "step4"
  /\ UNCHANGED <<input, dist, star, coveredRows, coveredColumns>>

NoZero ==
  /\ step = "step3"
  /\ Zeros \cap Uncovered = {}
  /\ step' = "step5"
  /\ UNCHANGED <<input, dist, star, prime, newStar, coveredRows, coveredColumns, starCol>>

StarIn(col) == {c \in star : c[2] = col}

(* Mutant: the star of the column stays.                                   *)
Flipped_Kept(s, p) == newStar \cup {p}

Flipped(s, p) == (newStar \ {s}) \cup {p}

(* step4: unstar the star of the column, star the prime of its row.        *)
FollowPath ==
  /\ step = "step4"
  /\ \E s \in StarIn(starCol) : \E p \in prime \cap RowOf(s) :
       /\ newStar' = Flipped(s, p)
       /\ starCol' = p[2]
  /\ UNCHANGED <<step, input, dist, star, prime, coveredRows, coveredColumns>>

(* Mutant: the primes of the last search stay.                             *)
PrimesLeft_All == prime

PrimesLeft == {}

EndPath ==
  /\ step = "step4"
  /\ StarIn(starCol) = {}
  /\ star' = newStar
  /\ prime' = PrimesLeft
  /\ coveredRows' = {}
  /\ starCol' = 0
  /\ step' = "step2a"
  /\ UNCHANGED <<input, dist, newStar, coveredColumns>>

(* Mutant: the smallest of all elements instead of the uncovered ones.     *)
Smallest_OfAll == Min({dist[c] : c \in Cells})

(* Mutant: the comparison is turned round.                                 *)
Smallest_Largest == Max({dist[c] : c \in Uncovered})

Smallest == Min({dist[c] : c \in Uncovered})

(* step5: covered rows up, uncovered columns down by the smallest          *)
(* uncovered element.                                                      *)
ShiftCosts ==
  /\ step = "step5"
  /\ dist' = [c \in Cells |->
                dist[c] + (IF c[1] \in coveredRows THEN Smallest ELSE 0)
                        - (IF c[2] \notin coveredColumns THEN Smallest ELSE 0)]
  /\ step' = "step3"
  /\ UNCHANGED <<input, star, prime, newStar, coveredRows, coveredColumns, starCol>>
-----------------------------------------------------------------------------
Next ==
  \/ Reduce \/ StarZero \/ StarsPlaced \/ CoverStarred \/ CountCovered
  \/ PrimeZero \/ StartPath \/ NoZero \/ FollowPath \/ EndPath \/ ShiftCosts

Spec == Init /\ [][Next]_vars /\ WF_vars(Next)
-----------------------------------------------------------------------------
(* PROPERTIES                                                              *)

Independent(S) == \A c, d \in S : c[1] = d[1] \/ c[2] = d[2] => c = d

(* step4 never meets a star without a prime in its row: the code would go  *)
(* on with column nOfColumns, beyond the matrix.                           *)
PathGoesOn ==
  step = "step4" =>
    /\ StarIn(starCol) = {} \/ \E s \in StarIn(starCol) : prime \cap RowOf(s) # {}
    /\ \A c \in prime : Cardinality(prime \cap RowOf(c)) = 1

Cost(S) == MapThenSumSet(LAMBDA c : input[c], S)

Assignments == {S \in kSubset(minDim, Cells) : Independent(S)}

(* The result assigns the whole shorter dimension at the least cost.       *)
Optimal ==
  step = "done" =>
    /\ star \in Assignments
    /\ \A S \in Assignments : Cost(star) <= Cost(S)

(* The steps left before the next star or the next covered row: on a path  *)
(* the stars still to be taken, else one for each of the few calls between. *)
Remaining ==
  LET stars == Cardinality(star) IN
  CASE step = "done" -> 0
    [] step = "step4" -> Cardinality(star \cap newStar)
    [] step = "step3" -> IF Zeros \cap Uncovered # {} THEN stars + 1 ELSE stars + 3
    [] step = "step5" -> stars + 2
    [] step = "step2b" -> stars + 4
    [] step = "step2a" -> stars + 5
    [] step = "stars" -> stars + 6
    [] step = "reduce" -> stars + 7

(* The calls of step2a to step5 by each other go somewhere: each step adds *)
(* a star, covers a row more, or comes nearer to that.  A shift by step5   *)
(* makes an uncovered zero, and a path gains a star.                       *)
Advances ==
  [][\/ Cardinality(star') > Cardinality(star)
     \/ star' = star /\ coveredRows \subseteq coveredRows' /\ coveredRows' # coveredRows
     \/ star' = star /\ coveredRows' = coveredRows /\ Remaining' < Remaining]_vars

(* Solve returns, whatever zeros the search takes up.                      *)
Terminates == <>(step = "done")
=============================================================================
