------------------------------ MODULE SkillClaim ------------------------------
(***************************************************************************)
(* The ownership protocol of internal/skillclaim (PROTOCOL.md, claim.go,   *)
(* claim_locks.go), seen from outside: every installed skill has a claim   *)
(* file and a lock directory, and a producer may only move them like this. *)
(* What decides when to move them is left open.                            *)
(***************************************************************************)
EXTENDS Naturals

CONSTANTS
    Skills,         \* the destinations, one claim each
    Procs,          \* the processes that take locks
    Free, Stale,    \* no lock directory; the directory a dead process left
    NoClaim, Torn   \* no claim file; one that does not decode

VARIABLES
    lock,           \* lock[s]: who made <digest>.json.lock
    claim           \* claim[s]: what <digest>.json holds

ProtocolInit == lock = [s \in Skills |-> Free]

Readable(c) == c \notin {NoClaim, Torn}

SamePayload(c, d)  == c.producer = d.producer /\ c.load = d.load
SameIdentity(c, d) == c.producer = d.producer

\* allowedTransition, one disjunct per state the claim may be in.
FromReserved(c, d) == /\ c.state = "reserved" /\ d.state = "active"
                      /\ d.op = c.op /\ SamePayload(c, d)
FromActive(c, d)   == /\ c.state = "active" /\ d.op # c.op /\ SameIdentity(c, d)
                      /\ \/ d.state = "updating"
                         \/ d.state \in {"releasing", "restoring"} /\ SamePayload(c, d)
BackToActive(c, d) == /\ d.state = "active" /\ d.op = c.op /\ SameIdentity(c, d)
                      /\ \/ c.state = "updating"
                         \/ c.state \in {"releasing", "restoring"} /\ SamePayload(c, d)
AllowedTransition(c, d) ==
    FromReserved(c, d) \/ FromActive(c, d) \/ BackToActive(c, d)

\* CompareAndSwap on an existing claim, and on none.
MaySwap(c, d) == d.generation = c.generation + 1 /\ AllowedTransition(c, d)
MayCreate(d)  == d.state = "reserved" /\ d.generation = 1
MayRemove(c)  == c.state \in {"releasing", "restoring"}

-----------------------------------------------------------------------------
\* mkdir of one lock directory, its removal by whoever made it, its maker's
\* death, and its removal by hand (the protocol has no automatic one).
Take(p, s)    == lock[s] = Free /\ lock' = [lock EXCEPT ![s] = p]
Drop(p, s)    == lock[s] = p /\ lock' = [lock EXCEPT ![s] = Free]
Abandon(p)    == \E S \in SUBSET {s \in Skills : lock[s] = p} :
                    lock' = [s \in Skills |-> IF s \in S THEN Stale ELSE lock[s]]
TakeAway(s)   == lock[s] = Stale /\ lock' = [lock EXCEPT ![s] = Free]
LockStep ==
    /\ \/ \E p \in Procs : Abandon(p) \/ \E s \in Skills : Take(p, s) \/ Drop(p, s)
       \/ \E s \in Skills : TakeAway(s)
    /\ UNCHANGED claim

\* One write to one claim by the holder of its lock.
ClaimStep(p, s) ==
    /\ lock[s] = p
    /\ claim' = [claim EXCEPT ![s] = claim'[s]]
    /\ \/ claim[s] = NoClaim /\ (claim'[s] = Torn \/ MayCreate(claim'[s]))
       \/ Readable(claim[s]) /\ Readable(claim'[s]) /\ MaySwap(claim[s], claim'[s])
       \/ Readable(claim[s]) /\ MayRemove(claim[s]) /\ claim'[s] = NoClaim
    /\ UNCHANGED lock

ProtocolNext == LockStep \/ \E p \in Procs, s \in Skills : ClaimStep(p, s)

=============================================================================
