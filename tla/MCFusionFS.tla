----------------------------- MODULE MCFusionFS -----------------------------
(***************************************************************************)
(* Instances of FusionFS for TLC: a file a in the root directory, a file b *)
(* in the directory sub, and a's name begins with sub's.                   *)
(***************************************************************************)
EXTENDS FusionFS, TLC

CONSTANTS a, b, sub, n1, n2

MCParent == [p \in Paths |-> IF p = b THEN sub ELSE Root]
MCUnder == [q \in AllDirs |-> IF q = Root THEN Paths ELSE {b} \cap Paths]
MCSweeps == [q \in AllDirs |-> Paths]
Swap == Permutations({n1, n2})
=============================================================================
