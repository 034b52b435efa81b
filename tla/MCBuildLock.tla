---------------------------- MODULE MCBuildLock ----------------------------
(***************************************************************************)
(* Instances of BuildLock for TLC.                                         *)
(***************************************************************************)
EXTENDS BuildLock, TLC

Perms == Permutations(Writers)
=============================================================================
