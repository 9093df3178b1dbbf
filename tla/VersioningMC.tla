---------------------------- MODULE VersioningMC ----------------------------
(***************************************************************************)
(* Two processes and a snapshot that cannot be rebuilt: either two         *)
(* versions, one object and one definition, or, where saves may fail and   *)
(* the caches are looked at, one version and two definitions.              *)
(***************************************************************************)
EXTENDS Versioning, TLC

\* Bound: three writes with one version, and with two.
Writes == <<3, 3>>

\* Bound: four writes with the one version there is.
FewWrites == <<4>>

\* The processes are interchangeable.
Symmetry == Permutations(Processes)
=============================================================================
