--------------------------- MODULE CompositionSaga ---------------------------
(***************************************************************************)
(* What `dva up` promises of a composition plan, without waves, entries or *)
(* plugins (internal/lifecycle/composition_orchestrator.go, Up): children  *)
(* come up after what they depend on, and when one fails, those that came  *)
(* up are taken down again, dependents first.                              *)
(***************************************************************************)
CONSTANT Children

VARIABLES
    deps,       \* deps[c]: what c depends on
    gated,      \* without --no-wait
    keep,       \* --no-rollback
    st,         \* st[c]: idle, started, ready, undone, or stuck when its down failed
    phase       \* forward, undo, over

vars == <<deps, gated, keep, st, phase>>

Standing(f) == {c \in Children : f[c] \in {"started", "ready"}}
Settled(f) == {c \in Children : f[c] = "ready" \/ (~gated /\ f[c] = "started")}

Init ==
    /\ gated \in BOOLEAN /\ keep \in BOOLEAN
    /\ st = [c \in Children |-> "idle"]
    /\ phase = "forward"

Fixed == UNCHANGED <<deps, gated, keep>>

\* The command ends with the child that settles last.
Forward(f) ==
    /\ st' = f
    /\ phase' = IF Settled(f) = Children THEN "over" ELSE "forward"
    /\ Fixed

Start(c) ==
    /\ phase = "forward" /\ st[c] = "idle"
    /\ deps[c] \subseteq Settled(st)
    /\ Forward([st EXCEPT ![c] = "started"])

Ready(c) ==
    /\ phase = "forward" /\ gated /\ st[c] = "started"
    /\ Forward([st EXCEPT ![c] = "ready"])

\* A child fails, or the caller cancels.
Fail ==
    /\ phase = "forward"
    /\ phase' = IF keep \/ Standing(st) = {} THEN "over" ELSE "undo"
    /\ UNCHANGED st /\ Fixed

\* Dependents first; a child whose down fails does not stop the others.
Undo(c) ==
    /\ phase = "undo" /\ c \in Standing(st)
    /\ \A d \in Standing(st) : c \notin deps[d]
    /\ \E how \in {"undone", "stuck"} : st' = [st EXCEPT ![c] = how]
    /\ phase' = IF Standing(st') = {} THEN "over" ELSE "undo"
    /\ Fixed

Next ==
    \/ \E c \in Children : Start(c) \/ Ready(c) \/ Undo(c)
    \/ Fail

Spec == Init /\ [][Next]_vars

=============================================================================
