--------------------------- MODULE MCCiScheduler ----------------------------
(***************************************************************************)
(* Instances of CiScheduler for TLC.                                       *)
(***************************************************************************)
EXTENDS CiScheduler, TLC

\* 4 waits for 1 and 2; 2 and 3 compete with 5 for the first starts; 1 comes
\* after its own dependency in declaration order.
FreeJoinDeps == 1 :> {3} @@ 2 :> {} @@ 3 :> {} @@ 4 :> {1, 2} @@ 5 :> {}

\* 1 and 2 wait for each other; 3 runs, 4 waits for it, 5 for it and the cycle.
CycleDeps == 1 :> {2} @@ 2 :> {1} @@ 3 :> {} @@ 4 :> {3} @@ 5 :> {1, 3}

=============================================================================
