---------------------------- MODULE BoundedQueue ----------------------------
(***************************************************************************)
(* What Queue<boost::any> promises the two threads at its ends: a first-in *)
(* first-out buffer of at most Cap items.  A push into a full queue drops  *)
(* the new item and says so; nothing else is ever lost, repeated or        *)
(* reordered.                                                              *)
(***************************************************************************)
EXTENDS Naturals, Sequences

CONSTANTS Item, Cap

VARIABLES
  content,  \* the items waiting, oldest first
  refused,  \* items whose push returned false
  taken     \* every item handed to the consumer so far, in order

Init == content = <<>> /\ refused = {} /\ taken = <<>>

Put(x) ==
  /\ Len(content) < Cap
  /\ content' = Append(content, x)
  /\ UNCHANGED <<refused, taken>>

Drop(x) ==
  /\ Len(content) = Cap
  /\ refused' = refused \cup {x}
  /\ UNCHANGED <<content, taken>>

Take ==
  /\ content # <<>>
  /\ taken' = Append(taken, Head(content))
  /\ content' = Tail(content)
  /\ UNCHANGED refused

Next == Take \/ \E x \in Item : Put(x) \/ Drop(x)

Spec == Init /\ [][Next]_<<content, refused, taken>>
=============================================================================
