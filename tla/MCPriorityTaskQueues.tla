----------------------- MODULE MCPriorityTaskQueues -----------------------
(* Model checking of PriorityTaskQueues: LO_PRI and MID_PRI.               *)
EXTENDS PriorityTaskQueues

PrioritiesUsed == {-128, 0}

=============================================================================
