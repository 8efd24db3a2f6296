-------------------------- MODULE MCQueueObservers --------------------------
(* Model checking of QueueObservers.  One priority is negative: it is the  *)
(* one whose index in queueObservers_ is not the number itself.            *)
EXTENDS QueueObservers

TwoPriorities == {-1, 0}

=============================================================================
