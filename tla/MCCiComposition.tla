--------------------------- MODULE MCCiComposition ---------------------------
(***************************************************************************)
(* Run a has a step whose shell starts b, and b a step whose shell starts  *)
(* d.  c is a sibling of b that needs the root of b.  The two compositions *)
(* are explored apart: one of c and d, out, is never started, and without  *)
(* d nothing is asked of the step that would start it.                     *)
(***************************************************************************)
EXTENDS CiComposition

CONSTANTS a, b, c, d, stepA, stepB, rootA, rootB, rootD

VARIABLE out

MCRuns    == {a, b, c, d}
MCScopes  == {stepA, stepB}
MCOwnerOf == [s \in MCScopes |-> IF s = stepA THEN a ELSE b]
MCVia     == [r \in MCRuns |-> IF r = a THEN Nobody
                               ELSE IF r = d THEN stepB ELSE stepA]
MCChainOf == [r \in MCRuns |-> IF r = a THEN {}
                               ELSE IF r = d THEN {stepA, stepB} ELSE {stepA}]
MCRoots   == {rootA, rootB, rootD}
MCRootOf  == [r \in MCRuns |-> IF r = a THEN rootA
                               ELSE IF r = d THEN rootD ELSE rootB]

\* Starting a run, and a step, is up to others, so this leaves behaviours of FairSpec.
Left == pc'[out] = "idle" /\ (out = d => UNCHANGED phase[stepB])

PartInit == Init /\ out \in {c, d}
PartNext == Next /\ UNCHANGED out /\ Left

PartSpec ==
    /\ PartInit /\ [][PartNext]_<<vars, out>>
    /\ \A r \in Runs : WF_vars(r # out /\ Continues(r))

=============================================================================
