---------------------------- MODULE MCMPMCQueue ----------------------------
(* Model checking of MPMCQueue: writers are alike, and so are readers.     *)
(* size() only looks at the counters, so it needs no more than one way to  *)
(* advance them.  The other scenario starts two tickets before the turns   *)
(* of a queue of three slots wrap around.                                  *)
EXTENDS MPMCQueue, TLC

AllWays == [ways |-> {"blocking", "ready", "promised", "until"}, sizing |-> FALSE,
            start |-> 3 * 8 - 2, tickets |-> 4]
WithSize == [ways |-> {"promised"}, sizing |-> TRUE, start |-> 0, tickets |-> 3]
TwoScenarios == {AllWays, WithSize}

Symmetry == Permutations(Writers) \cup Permutations(Readers)

=============================================================================
