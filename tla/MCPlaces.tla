------------------------------- MODULE MCPlaces -------------------------------
(***************************************************************************)
(* Instances of SkillInstall, SkillTakeover, SourceFetch and Tunnels for   *)
(* TLC, of what several take the same place for: operations of an old and  *)
(* a new release that compete for one destination of skills; operations    *)
(* one after the other that take people's trees over and bring them back;  *)
(* commands that fetch the same git source; and commands that open         *)
(* tunnels on the same local ports.  The four share no state and are       *)
(* explored apart: side says which of them moves, the others stay as they  *)
(* began.                                                                  *)
(***************************************************************************)
EXTENDS MCSkillInstall, SkillTakeover, SourceFetch, MCTunnels

CONSTANTS w1, w2, w3

VARIABLE side

\* What people wrote is only compared.
Alike == Permutations(Writings)

PlacesInit ==
    /\ Init /\ TakeoverInit /\ FetchInit /\ TunnelInit
    /\ side \in {"installs", "takeovers", "source", "tunnels"}
    /\ side # "takeovers" => place = Bare
    /\ side # "source" => declared = CHOOSE src \in Sources : TRUE

PlacesNext ==
    /\ UNCHANGED side
    /\ \/ side = "installs" /\ Next /\ UNCHANGED <<takeoverVars, fetchVars, tunnelVars>>
       \/ side = "takeovers" /\ TakeoverNext /\ UNCHANGED <<vars, fetchVars, tunnelVars>>
       \/ side = "source" /\ FetchNext /\ UNCHANGED <<vars, takeoverVars, tunnelVars>>
       \/ side = "tunnels" /\ TunnelNext /\ UNCHANGED <<vars, takeoverVars, fetchVars>>

PlacesSpec == PlacesInit /\ [][PlacesNext]_<<vars, takeoverVars, fetchVars, tunnelVars, side>>

=============================================================================
