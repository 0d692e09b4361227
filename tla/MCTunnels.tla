------------------------------- MODULE MCTunnels -------------------------------
(***************************************************************************)
(* An instance of Tunnels for TLC: a command with three entries, two of    *)
(* which share a tunnel, and one with a tunnel to another host on a local  *)
(* port of the first.                                                      *)
(***************************************************************************)
EXTENDS Tunnels, TLC

CONSTANTS common, plain, rival, port1, port2

LocalPorts == common :> port1 @@ plain :> port2 @@ rival :> port1
TunnelNeeds == 1 :> <<common, plain, common>> @@ 2 :> <<rival>>

=============================================================================
