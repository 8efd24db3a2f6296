----------------------------- MODULE FifoQueue -----------------------------
(***************************************************************************)
(* What MPMCQueue promises: writes and reads are numbered in the order in  *)
(* which they are admitted, and the k-th read returns the item of the k-th *)
(* write, once and after it was written, however the calls overlap.        *)
(***************************************************************************)
EXTENDS Integers, Sequences

CONSTANTS
  Items,      \* what can be written; Nothing is not one of them
  Nothing     \* a read that has not returned yet

VARIABLES
  pushed,     \* the items written, in the order of admission
  got         \* the results of the reads, in the order of admission

vars == <<pushed, got>>

Init == pushed = <<>> /\ got = <<>>

Push(i) == pushed' = Append(pushed, i) /\ got' = got

Pop == got' = Append(got, Nothing) /\ pushed' = pushed

Deliver(k) ==
  /\ k <= Len(pushed)
  /\ got[k] = Nothing
  /\ got' = [got EXCEPT ![k] = pushed[k]]
  /\ pushed' = pushed

Next ==
  \/ \E i \in Items : Push(i)
  \/ Pop
  \/ \E k \in DOMAIN got : Deliver(k)

Spec == Init /\ [][Next]_vars

=============================================================================
