----------------------------- MODULE SecretPush -----------------------------
(***************************************************************************)
(* `secret push` (internal/secretpush): one process decrypts a source and  *)
(* hands its keys to a remote that keeps them, GitHub Actions key by key   *)
(* (Push, secretpush.go) or a Kubernetes Secret in one write               *)
(* (pushKubernetes, kubernetes.go).                                        *)
(*                                                                         *)
(* A flock serialises the pushes to one destination, never blocking.  The  *)
(* receipt of a push says of each key how far it got; it is replaced       *)
(* before and after every request.  A request may reach the remote long    *)
(* after its sender gave up, or never; a receipt may fail to be written,   *)
(* or be written and still be reported as failed (the directory's sync).   *)
(***************************************************************************)
EXTENDS Integers, FiniteSets, FiniteSetsExt

CONSTANTS
    Pushes,     \* invocations of Push
    Destination,\* Destination[p]: what its lock and its keys belong to
    KeysOf,     \* KeysOf[p]: its keys; integers stand for the sorted names
    AtOnce,     \* the pushes to Kubernetes
    Nobody

ASSUME PushAssumption ==
    /\ \A p \in Pushes : KeysOf[p] \subseteq Int /\ KeysOf[p] # {} /\ IsFiniteSet(KeysOf[p])
    /\ IsFiniteSet(Pushes) /\ AtOnce \subseteq Pushes /\ Nobody \notin Pushes
    /\ \A p, q \in Pushes : Destination[p] = Destination[q] => (p \in AtOnce <=> q \in AtOnce)

Destinations == {Destination[p] : p \in Pushes}
Slots == {<<Destination[p], k>> : p \in Pushes, k \in UNION {KeysOf[q] : q \in Pushes}}

VARIABLES
    push,       \* push[p]: where it is, and the first key it is not done with
    secretReceipt,  \* secretReceipt[p][k]: the state of key k on disk
    locked,     \* locked[d]: the push that holds the lock of destination d
    flying,     \* requests on their way: <<push, keys>>
    kept,       \* kept[s]: the push whose value the remote holds in slot s
    landed,     \* history: <<p, k>> that the remote took
    turn        \* history: turn[p], the how manyth to get a lock, 0 if it did not

pushVars == <<push, secretReceipt, locked, flying, kept, landed, turn>>

PushPCs == {"idle", "lock", "first", "mark", "send", "await", "accept", "refused", "ok", "failed"}
KeyStates == {"none", "not_started", "unknown", "accepted", "failed"}

PushTypeOK ==
    /\ \A p \in Pushes : push[p].pc \in PushPCs /\ push[p].key \in KeysOf[p]
    /\ \A p \in Pushes : secretReceipt[p] \in [KeysOf[p] -> KeyStates]
    /\ locked \in [Destinations -> Pushes \cup {Nobody}]
    /\ \A f \in flying : f[1] \in Pushes /\ f[2] \subseteq KeysOf[f[1]]
    /\ kept \in [Slots -> Pushes \cup {Nobody}]
    /\ \A l \in landed : l[1] \in Pushes /\ l[2] \in KeysOf[l[1]]
    /\ turn \in [Pushes -> 0..Cardinality(Pushes)]

PushInit ==
    /\ push = [p \in Pushes |-> [pc |-> "idle", key |-> Min(KeysOf[p])]]
    /\ secretReceipt = [p \in Pushes |-> [k \in KeysOf[p] |-> "none"]]
    /\ locked = [d \in Destinations |-> Nobody]
    /\ flying = {} /\ landed = {}
    /\ kept = [s \in Slots |-> Nobody]
    /\ turn = [p \in Pushes |-> 0]

\* The keys of the request p is at: one, or all.
Batch(p) == IF p \in AtOnce THEN KeysOf[p] ELSE {push[p].key}
Rest(p) == {k \in KeysOf[p] : k > Max(Batch(p))}

With(p, state) == [k \in KeysOf[p] |-> IF k \in Batch(p) THEN state ELSE secretReceipt[p][k]]

PushTo(p, pc) == push' = [push EXCEPT ![p].pc = pc]

\* Returning releases the lock, and so does dying.
Unlock(p) == locked' = [d \in Destinations |-> IF locked[d] = p THEN Nobody ELSE locked[d]]
Return(p, how) == PushTo(p, how) /\ Unlock(p)

\* writeReceipt, a temporary file renamed over the receipt: what was to follow
\* does, or it returns an error with the receipt replaced or not.
Saves(p, states, Then) ==
    \/ secretReceipt' = [secretReceipt EXCEPT ![p] = states] /\ Then
    \/ secretReceipt' \in {secretReceipt, [secretReceipt EXCEPT ![p] = states]}
       /\ Return(p, "failed")

-----------------------------------------------------------------------------

\* Called by `secret push`, or by `job run` before it dispatches.
Invoke(p) ==
    /\ push[p].pc = "idle"
    /\ PushTo(p, "lock")
    /\ UNCHANGED <<secretReceipt, locked, flying, kept, landed, turn>>

Takes(p) == locked[Destination[p]] = Nobody /\ locked' = [locked EXCEPT ![Destination[p]] = p]

\* The declaration, the source or the tools are not in order, or it is busy.
Unready(p) ==
    /\ push[p].pc = "lock"
    /\ Return(p, "failed")
    /\ UNCHANGED <<secretReceipt, flying, kept, landed, turn>>

Lock(p) ==
    /\ push[p].pc = "lock" /\ Takes(p)
    /\ PushTo(p, "first")
    /\ turn' = [turn EXCEPT ![p] = 1 + Cardinality({q \in Pushes : turn[q] > 0})]
    /\ UNCHANGED <<secretReceipt, flying, kept, landed>>

First(p) ==
    /\ push[p].pc = "first"
    /\ Saves(p, [k \in KeysOf[p] |-> "not_started"], PushTo(p, "mark") /\ UNCHANGED locked)
    /\ UNCHANGED <<flying, kept, landed, turn>>

Mark(p) ==
    /\ push[p].pc = "mark"
    /\ Saves(p, With(p, "unknown"), PushTo(p, "send") /\ UNCHANGED locked)
    /\ UNCHANGED <<flying, kept, landed, turn>>

\* gh or kubectl runs, or could not be started (errNotInvoked).
Send(p) ==
    /\ push[p].pc = "send"
    /\ \/ PushTo(p, "await") /\ flying' = flying \cup {<<p, Batch(p)>>}
       \/ PushTo(p, "refused") /\ UNCHANGED flying
    /\ UNCHANGED <<secretReceipt, locked, kept, landed, turn>>

\* The tool failed, was cut off or never answered: the keys stay unknown.
Doubt(p) ==
    /\ push[p].pc = "await"
    /\ Return(p, "failed")
    /\ UNCHANGED <<secretReceipt, flying, kept, landed, turn>>

Answered(p) ==
    /\ push[p].pc = "await" /\ {p} \X Batch(p) \subseteq landed
    /\ PushTo(p, "accept")
    /\ UNCHANGED <<secretReceipt, locked, flying, kept, landed, turn>>

Refused(p) ==
    /\ push[p].pc = "refused"
    /\ Saves(p, With(p, "failed"), Return(p, "failed"))
    /\ UNCHANGED <<flying, kept, landed, turn>>

Accept(p) ==
    /\ push[p].pc = "accept"
    /\ Saves(p, With(p, "accepted"),
             IF Rest(p) = {} THEN Return(p, "ok")
             ELSE push' = [push EXCEPT ![p] = [pc |-> "mark", key |-> Min(Rest(p))]] /\ UNCHANGED locked)
    /\ UNCHANGED <<flying, kept, landed, turn>>

\* The remote takes a request, all of it; or it is lost.
SecretLands(f) ==
    /\ flying' = flying \ {f}
    /\ landed' = landed \cup ({f[1]} \X f[2])
    /\ kept' = [s \in Slots |-> IF s[1] = Destination[f[1]] /\ s[2] \in f[2] THEN f[1] ELSE kept[s]]
    /\ UNCHANGED <<push, secretReceipt, locked, turn>>

SecretLost(f) ==
    /\ flying' = flying \ {f}
    /\ UNCHANGED <<push, secretReceipt, locked, kept, landed, turn>>

\* The process dies; a request it sent does not.
Dies(p) ==
    /\ push[p].pc \notin {"idle", "ok", "failed"}
    /\ Return(p, "failed")
    /\ UNCHANGED <<secretReceipt, flying, kept, landed, turn>>

Pushing(p) ==
    Unready(p) \/ Lock(p) \/ First(p) \/ Mark(p) \/ Send(p) \/ Doubt(p)
        \/ Answered(p) \/ Refused(p) \/ Accept(p)

Remote == \E f \in flying : SecretLands(f) \/ SecretLost(f)

-----------------------------------------------------------------------------
(* Properties *)

Sent(p, k) == <<p, k>> \in landed \/ \E f \in flying : f[1] = p /\ k \in f[2]

\* Whatever was sent is recorded as unknown or accepted, and what is recorded as
\* accepted was taken, also after a crash or a failed write (secretpush.go
\* 154-176: an interrupted process cannot prove whether GitHub accepted).
SecretsAccounted ==
    \A p \in Pushes : \A k \in KeysOf[p] :
        /\ Sent(p, k) => secretReceipt[p][k] \in {"unknown", "accepted"}
        /\ secretReceipt[p][k] = "accepted" => <<p, k>> \in landed

\* An accepted value is overtaken by that of an earlier push only if the receipt
\* of that push says unknown: its request arrived late (lock_unix.go 14-44).
OvertakenKnown ==
    \A p, q \in Pushes : \A k \in KeysOf[p] \cap KeysOf[q] :
        /\ Destination[p] = Destination[q] /\ 0 < turn[q] /\ turn[q] < turn[p]
        /\ secretReceipt[p][k] = "accepted" /\ kept[<<Destination[p], k>>] = q
        => secretReceipt[q][k] = "unknown"

=============================================================================
