---------------------------- MODULE MCCiRunLocks ----------------------------
(***************************************************************************)
(* Instances of CiRunLocks for TLC.                                        *)
(***************************************************************************)
EXTENDS CiRunLocks, TLC

CONSTANTS r1, r2, r3, rootA, rootB

\* r1 and r2 verify the same root and share a declared lock; r3 verifies another
\* root, is started inside a step of r1, and shares the other lock of r2.
SharedRootOf   == r1 :> rootA @@ r2 :> rootA @@ r3 :> rootB
SharedLocksOf  == r1 :> {2} @@ r2 :> {1, 2} @@ r3 :> {1}
SharedParentOf == r1 :> Nobody @@ r2 :> Nobody @@ r3 :> r1

=============================================================================
