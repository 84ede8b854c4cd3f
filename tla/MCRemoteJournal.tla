-------------------------- MODULE MCRemoteJournal --------------------------
(* RemoteJournal for TLC: two commands and two session creations.         *)
EXTENDS RemoteJournal, TLC

Symmetry == Permutations(Commands) \cup Permutations(Creations)
=============================================================================
