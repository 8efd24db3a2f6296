---------------------- MODULE MCCPUThreadPoolExecutor ----------------------
(***************************************************************************)
(* Model-checking instances of CPUThreadPoolExecutor.                      *)
(***************************************************************************)
EXTENDS CPUThreadPoolExecutor, TLC

\* Workers, producers and observers are interchangeable in every definition.
Symmetry == Permutations(Workers) \cup Permutations(Producers) \cup Permutations(Observers)

=============================================================================
