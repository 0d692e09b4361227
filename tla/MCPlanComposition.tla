------------------------- MODULE MCPlanComposition --------------------------
(***************************************************************************)
(* An instance of PlanComposition for TLC: three children, the first with  *)
(* two entries.                                                            *)
(***************************************************************************)
EXTENDS PlanComposition, TLC

\* Every graph over the three children, and one with a name nobody has.
EveryGraph == [Children -> SUBSET Children] \cup {1 :> {4} @@ 2 :> {} @@ 3 :> {1}}

\* Free children, a chain declared backwards, a fork and a join.
WorkedGraphs ==
    { 1 :> {} @@ 2 :> {} @@ 3 :> {},
      1 :> {2} @@ 2 :> {3} @@ 3 :> {},
      1 :> {} @@ 2 :> {1} @@ 3 :> {1},
      1 :> {2, 3} @@ 2 :> {} @@ 3 :> {} }

\* 3 comes before 2 within a wave.
OrderOf == 1 :> 1 @@ 2 :> 2 @@ 3 :> 1
EntryCounts == 1 :> 2 @@ 2 :> 1 @@ 3 :> 1

ChecksOf == {<<1, 2>>, <<2, 1>>}
NativeOnes == {<<2, 1>>}

\* A clean machine, and one where all is up but for half of the first child.
UpBefore == {{}, Services \ {<<1, 2>>}}

=============================================================================
