-------------------------------- MODULE Tunnels --------------------------------
(***************************************************************************)
(* The tunnels of a command (internal/lifecycle/tunnel.go): before its     *)
(* entries `up`, `down`, `stop` and `status` open each declared cloudflared *)
(* tunnel once, wait until its port answers, and close at the end what     *)
(* they opened (orchestrator.go).                                          *)
(*                                                                         *)
(* Several commands, and strangers, compete for the local ports.  Only     *)
(* `status` can be canceled while it opens tunnels, and only `status`      *)
(* kills a cloudflared that ignores SIGTERM.                               *)
(***************************************************************************)
EXTENDS Naturals, Sequences, SequencesExt

CONSTANTS
    Openers,        \* commands that may be at work at the same time
    Tunnel,         \* declarations: entries that name the same one share it
    PortOf,         \* PortOf[t]: its local address
    Needs,          \* Needs[o]: the declarations of the entries of a command o, in their order
    Nobody, Stranger

Ports == {PortOf[t] : t \in Tunnel}

ASSUME TunnelAssumption ==
    /\ Tunnel # {} /\ Needs \in [Openers -> Seq(Tunnel)] /\ Nobody # Stranger
    /\ {Nobody, Stranger} \cap (Openers \X Tunnel) = {}

VARIABLES
    opener,     \* opener[o]: where command o is, which tunnel it works on and which it holds
    child,      \* child[o][t]: the cloudflared that o started for t; told: it got SIGTERM,
                \* exited: nobody has waited for it yet
    listener    \* listener[p]: who listens on port p, <<o, t>> for a cloudflared

tunnelVars == <<opener, child, listener>>

OpenerPCs == {"next", "auth", "dial", "start", "ready", "serve", "close", "term", "reap", "ended"}

TunnelTypeOK ==
    /\ opener \in [Openers -> [pc : OpenerPCs, query : BOOLEAN, off : BOOLEAN, left : Seq(Tunnel),
                               on : Tunnel, held : SUBSET Tunnel]]
    /\ child \in [Openers -> [Tunnel -> {"none", "live", "told", "exited"}]]
    /\ listener \in [Ports -> {Nobody, Stranger} \cup (Openers \X Tunnel)]

Goes(o, pc) == opener' = [opener EXCEPT ![o].pc = pc]
IsAt(o, pc) == opener[o].pc = pc

\* Of a command that is over nothing is kept.
NoOpening == [pc |-> "ended", query |-> FALSE, off |-> FALSE, left |-> <<>>,
              on |-> CHOOSE t \in Tunnel : TRUE, held |-> {}]
Leave(o) == opener' = [opener EXCEPT ![o] = NoOpening]

\* The context of acquireContext is over; that of the other verbs never is.
Canceled(o) == opener[o].query /\ opener[o].off

Needed(o) == ToSet(Needs[o])

PortNow(o) == PortOf[opener[o].on]

Becomes(o, t, is) == child' = [child EXCEPT ![o][t] = is]

\* What o listens with for t is closed.
Unbind(o, t) == listener' = [p \in Ports |-> IF listener[p] = <<o, t>> THEN Nobody ELSE listener[p]]

-----------------------------------------------------------------------------
(* Opening *)

BeginCommand(o, query) ==
    /\ IsAt(o, "ended")
    /\ opener' = [opener EXCEPT ![o].pc = "next", ![o].query = query, ![o].left = Needs[o]]
    /\ UNCHANGED <<child, listener>>

\* The next entry; one whose tunnel is open already needs nothing.
NextTunnel(o) ==
    /\ IsAt(o, "next")
    /\ LET me == opener[o]
       IN CASE Canceled(o) -> Goes(o, "close")
            [] ~Canceled(o) /\ me.left = <<>> -> Goes(o, "serve")
            [] OTHER -> opener' = [opener EXCEPT
                           ![o].left = Tail(@), ![o].on = Head(me.left),
                           ![o].pc = IF Head(me.left) \in me.held THEN "next" ELSE "auth"]
    /\ UNCHANGED <<child, listener>>

\* The credentials are there, or the login worked, or not.
AuthenticateTunnel(o) ==
    /\ IsAt(o, "auth")
    /\ Goes(o, "close") \/ (~Canceled(o) /\ Goes(o, "dial"))
    /\ UNCHANGED <<child, listener>>

\* A port that answers is somebody else's.
DialPort(o) ==
    /\ IsAt(o, "dial")
    /\ Goes(o, IF listener[PortNow(o)] # Nobody \/ Canceled(o) THEN "close" ELSE "start")
    /\ UNCHANGED <<child, listener>>

StartTunnel(o) ==
    /\ IsAt(o, "start")
    /\ \/ Goes(o, "close") /\ UNCHANGED child
       \/ Goes(o, "ready") /\ Becomes(o, opener[o].on, "live")
    /\ UNCHANGED listener

\* The port answers.
Answered(o) ==
    /\ IsAt(o, "ready") /\ listener[PortNow(o)] # Nobody
    /\ opener' = [opener EXCEPT ![o].pc = IF Canceled(o) THEN "term" ELSE "next",
                                ![o].held = IF Canceled(o) THEN @ ELSE @ \cup {opener[o].on}]
    /\ UNCHANGED <<child, listener>>

\* Faulty: what was started is left to itself.
GiveUpLeaving(o) == Goes(o, "close")

GiveUpTunnel(o) == Goes(o, "term")

\* ready_timeout is over, or the query is.
GivesUpWaiting(o) ==
    /\ IsAt(o, "ready")
    /\ GiveUpTunnel(o)
    /\ UNCHANGED <<child, listener>>

\* The entries are done, or one of them failed.
Served(o) ==
    /\ IsAt(o, "serve")
    /\ Goes(o, "close")
    /\ UNCHANGED <<child, listener>>

-----------------------------------------------------------------------------
(* Closing *)

CloseNext(o) ==
    /\ IsAt(o, "close")
    /\ \/ opener[o].held = {} /\ Leave(o)
       \/ \E t \in opener[o].held : opener' = [opener EXCEPT ![o].on = t, ![o].pc = "term"]
    /\ UNCHANGED <<child, listener>>

\* SIGTERM to the group, which an exited child no longer feels.
TerminateTunnel(o) ==
    /\ IsAt(o, "term")
    /\ Goes(o, "reap")
    /\ Becomes(o, opener[o].on, IF child[o][opener[o].on] = "live" THEN "told" ELSE "exited")
    /\ UNCHANGED listener

\* Wait returns.
ReapTunnel(o) ==
    /\ IsAt(o, "reap") /\ child[o][opener[o].on] = "exited"
    /\ Becomes(o, opener[o].on, "none")
    /\ opener' = [opener EXCEPT ![o].pc = "close", ![o].held = @ \ {opener[o].on}]
    /\ UNCHANGED listener

\* `status` waits only so long and kills.
GraceOver(o) ==
    /\ IsAt(o, "reap") /\ opener[o].query /\ child[o][opener[o].on] = "told"
    /\ Becomes(o, opener[o].on, "exited") /\ Unbind(o, opener[o].on)
    /\ UNCHANGED opener

-----------------------------------------------------------------------------
(* The others *)

\* A cloudflared that cannot listen exits.
CloudflaredBinds(o, t) ==
    /\ child[o][t] = "live" /\ listener[PortOf[t]] # <<o, t>>
    /\ IF listener[PortOf[t]] = Nobody
       THEN listener' = [listener EXCEPT ![PortOf[t]] = <<o, t>>] /\ UNCHANGED child
       ELSE Becomes(o, t, "exited") /\ UNCHANGED listener
    /\ UNCHANGED opener

\* By itself, or told to.
CloudflaredExits(o, t) ==
    /\ child[o][t] \in {"live", "told"}
    /\ Becomes(o, t, "exited") /\ Unbind(o, t)
    /\ UNCHANGED opener

StrangerComes(p) ==
    /\ listener[p] = Nobody
    /\ listener' = [listener EXCEPT ![p] = Stranger]
    /\ UNCHANGED <<opener, child>>

StrangerGoes(p) ==
    /\ listener[p] = Stranger
    /\ listener' = [listener EXCEPT ![p] = Nobody]
    /\ UNCHANGED <<opener, child>>

\* A signal ends the context of the command.
CancelQuery(o) ==
    /\ ~IsAt(o, "ended") /\ opener[o].query /\ ~opener[o].off
    /\ opener' = [opener EXCEPT ![o].off = TRUE]
    /\ UNCHANGED <<child, listener>>

\* The command is killed.  Its cloudflareds are in groups of their own and stay: they
\* are strangers now.
KillOpener(o) ==
    /\ ~IsAt(o, "ended")
    /\ Leave(o)
    /\ child' = [child EXCEPT ![o] = [t \in Tunnel |-> "none"]]
    /\ listener' = [p \in Ports |-> IF \E t \in Tunnel : listener[p] = <<o, t>> THEN Stranger
                                    ELSE listener[p]]

TunnelInit ==
    /\ opener = [o \in Openers |-> NoOpening]
    /\ child = [o \in Openers |-> [t \in Tunnel |-> "none"]]
    /\ listener = [p \in Ports |-> Nobody]

TunnelNext ==
    \/ \E o \in Openers :
         \/ \E query \in BOOLEAN : BeginCommand(o, query)
         \/ NextTunnel(o) \/ AuthenticateTunnel(o) \/ DialPort(o) \/ StartTunnel(o) \/ Answered(o) \/ GivesUpWaiting(o)
         \/ Served(o) \/ CloseNext(o) \/ TerminateTunnel(o) \/ ReapTunnel(o) \/ GraceOver(o)
         \/ CancelQuery(o) \/ KillOpener(o)
         \/ \E t \in Tunnel : CloudflaredBinds(o, t) \/ CloudflaredExits(o, t)
    \/ \E p \in Ports : StrangerComes(p) \/ StrangerGoes(p)

TunnelSpec == TunnelInit /\ [][TunnelNext]_tunnelVars

-----------------------------------------------------------------------------
(* Properties *)

\* "On any failure it tears down what it started so a half-open tunnel never outlives
\* the call" (tunnel.go 61-63), and Close ends the rest (143-156): a command that ended
\* by itself leaves no cloudflared and no zombie, one whose entries run has started all
\* the tunnels they need, and a cloudflared is told to stop only by the command that
\* started it, once its entries are done or will not run.
TunnelsAccounted ==
    \A o \in Openers :
        /\ opener[o].pc = "ended" => \A t \in Tunnel : child[o][t] = "none"
        /\ opener[o].pc = "serve" => \A t \in Needed(o) : child[o][t] # "none"
        /\ \A t \in Tunnel : child[o][t] = "told" => opener[o].pc = "reap" /\ opener[o].on = t

\* "A tunnel someone else opened [...] is never reused: the port conflict check fails
\* closed instead." (tunnel.go 22-24): nobody else listens where a command's entries
\* expect its tunnels.
NeverReused ==
    \A o \in Openers : opener[o].pc = "serve" =>
        \A t \in Needed(o) : listener[PortOf[t]] \in {Nobody, <<o, t>>}

=============================================================================
