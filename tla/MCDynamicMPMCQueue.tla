------------------------- MODULE MCDynamicMPMCQueue -------------------------
(* Model checking of DynamicMPMCQueue: the ways are spread over the        *)
(* threads, so that every way meets every other side of an expansion.      *)
EXTENDS DynamicMPMCQueue, TLC

CONSTANTS w1, w2, r1

WaysOfThreads ==
  w1 :> {"blocking"} @@ w2 :> {"ready", "until"} @@ r1 :> {"blocking", "ready"}

=============================================================================
