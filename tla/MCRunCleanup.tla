---------------------------- MODULE MCRunCleanup ----------------------------
(* RunCleanup for TLC.                                                     *)
EXTENDS RunCleanup, TLC

All == {"sessions", "worktrees", "branches", "run_store"}
MCRequests ==
  {[force |-> f, selected |-> All] : f \in BOOLEAN} \cup
  {[force |-> FALSE, selected |-> s] : s \in {{"worktrees", "others"}, {"branches"}}}

Symmetry == Permutations(Cleaners) \cup Permutations(Resources)
=============================================================================
