----------------------------- MODULE CiRunLocks -----------------------------
(***************************************************************************)
(* The lock files of `dva ci run` (internal/cirun/locks.go) and the part   *)
(* of Run and Status that uses them (internal/cirun/cirun.go).             *)
(*                                                                         *)
(* A run takes an exclusive advisory lock on its canonical root and then   *)
(* on each declared resource in sorted order, never blocking: the first    *)
(* contended key makes it read the owner's ID from the file, give back     *)
(* what it holds and report "busy".  Whoever wants to know if a run is     *)
(* alive (Status, a nested run checking its parent) probes the same lock:  *)
(* it takes it for an instant and gives it back, or finds it contended and *)
(* reads the ID.  The operating system drops the locks of a dead process;  *)
(* nothing erases the ID from the file.                                    *)
(*                                                                         *)
(* Every system call on a lock file is a step of its own.                  *)
(***************************************************************************)
EXTENDS Integers, FiniteSets

CONSTANTS
    Runs,       \* run IDs: each is one process executing Run
    Watchers,   \* processes executing Status
    Roots,      \* canonical repository roots
    Resources,  \* declared locks; integers stand for the sorted names
    RootOf,     \* RootOf[r] \in Roots
    LocksOf,    \* LocksOf[r] \subseteq Resources: the profile's `locks`
    ParentOf,   \* ParentOf[r]: the run whose step started r, or Nobody
    Nobody      \* no process, no parent, no ID in the file

Keys   == Roots \cup Resources
Actors == Runs \cup Watchers

Needs == [r \in Runs |-> {RootOf[r]} \cup LocksOf[r]]

ASSUME LocksAssumption ==
    /\ Resources \subseteq Int
    /\ Roots \cap Resources = {}
    /\ Runs \cap Watchers = {}
    /\ RootOf \in [Runs -> Roots]
    /\ LocksOf \in [Runs -> SUBSET Resources]
    /\ ParentOf \in [Runs -> Runs \cup {Nobody}]
    /\ Nobody \notin Actors

VARIABLES
    pc,         \* where each actor is
    holder,     \* holder[k]: the actor holding the OS lock of key k, or Nobody
    content,    \* content[k]: the run ID in the lock file, or Nobody
    cursor,     \* cursor[r]: the key run r is working on
    outcome,    \* outcome[r]: how Run returned, or will return once it released
    busyWith,   \* busyWith[r]: BusyError.ActiveRunID
    receipt,    \* receipt[r]: the receipt on disk: none, running or final
    subject,    \* subject[w]: the run whose receipt watcher w is judging
    verdict,    \* verdict[w]: what Status last said of subject[w]
    blocker     \* history: who held the lock the actor last found contended

vars == <<pc, holder, content, cursor, outcome, busyWith, receipt, subject,
          verdict, blocker>>

RunPCs == {"idle", "probe", "probeHold", "probeRead", "lock", "truncate",
           "write", "contended", "admitted", "executing", "release",
           "ended", "crashed"}
WatchPCs == {"idle", "probe", "probeHold", "probeRead"}
Outcomes == {"none", "nested", "busy", "failed", "completed"}

TypeOK ==
    /\ pc \in [Actors -> RunPCs]
    /\ \A w \in Watchers : pc[w] \in WatchPCs
    /\ holder \in [Keys -> Actors \cup {Nobody}]
    /\ content \in [Keys -> Runs \cup {Nobody}]
    /\ cursor \in [Runs -> Keys]
    /\ outcome \in [Runs -> Outcomes]
    /\ busyWith \in [Runs -> Runs \cup {Nobody}]
    /\ receipt \in [Runs -> {"none", "running", "final"}]
    /\ subject \in [Watchers -> Runs \cup {Nobody}]
    /\ verdict \in [Watchers -> {"none", "active", "stale"}]
    /\ blocker \in [Actors -> Actors \cup {Nobody}]

Init ==
    /\ pc = [a \in Actors |-> "idle"]
    /\ holder = [k \in Keys |-> Nobody]
    /\ content = [k \in Keys |-> Nobody]
    /\ cursor = [r \in Runs |-> RootOf[r]]
    /\ outcome = [r \in Runs |-> "none"]
    /\ busyWith = [r \in Runs |-> Nobody]
    /\ receipt = [r \in Runs |-> "none"]
    /\ subject = [w \in Watchers |-> Nobody]
    /\ verdict = [w \in Watchers |-> "none"]
    /\ blocker = [a \in Actors |-> Nobody]

-----------------------------------------------------------------------------
(* Helpers *)

Goto(a, label) == pc' = [pc EXCEPT ![a] = label]

Held(r) == {k \in Keys : holder[k] = r}

\* The order in which acquire walks the keys: the root, then sorted resources.
Before(j, k) ==
    \/ j \in Roots /\ k \in Resources
    \/ j \in Resources /\ k \in Resources /\ j < k

\* Faulty: the resources are taken in whatever order they come.
IsNextKeyUnsorted(r, k) == k \in Needs[r] \ Held(r)

\* The first key of run r that it does not hold yet.
IsNextKey(r, k) ==
    /\ k \in Needs[r] \ Held(r)
    /\ \A j \in Needs[r] \ Held(r) : j = k \/ Before(k, j)

\* The last key run r took: release walks the files backward.
IsLastKey(r, k) ==
    /\ k \in Held(r)
    /\ \A j \in Held(r) : j = k \/ Before(j, k)

-----------------------------------------------------------------------------
(* lockOwner: the probe shared by Status and by checkParent.  It is made only *)
(* about runs that executed, so the lock file exists.                         *)

\* The run being asked about, and the lock that answers.
Suspect(a) == IF a \in Runs THEN ParentOf[a] ELSE subject[a]
ProbeKey(a) == RootOf[Suspect(a)]

\* What the caller does with the owner lockOwner returned.  checkParent refuses
\* a run whose parent is alive; Status calls its receipt active or stale.
ProbeResult(a, owner) ==
    IF a \in Runs
    THEN /\ IF owner = ParentOf[a]
            THEN /\ Goto(a, "ended")
                 /\ outcome' = [outcome EXCEPT ![a] = "nested"]
                 /\ busyWith' = [busyWith EXCEPT ![a] = owner]
            ELSE /\ Goto(a, "lock")
                 /\ UNCHANGED <<outcome, busyWith>>
         /\ UNCHANGED verdict
    ELSE /\ Goto(a, "idle")
         /\ verdict' = [verdict EXCEPT ![a] =
                            IF owner = subject[a] THEN "active" ELSE "stale"]
         /\ UNCHANGED <<outcome, busyWith>>

\* The probe is a real lock: for an instant the prober holds the key.
ProbeTake(a) ==
    /\ pc[a] = "probe"
    /\ holder[ProbeKey(a)] = Nobody
    /\ holder' = [holder EXCEPT ![ProbeKey(a)] = a]
    /\ Goto(a, "probeHold")
    /\ UNCHANGED <<content, cursor, outcome, busyWith, receipt, subject,
                   verdict, blocker>>

ProbeGiveBack(a) ==
    /\ pc[a] = "probeHold"
    /\ holder' = [holder EXCEPT ![ProbeKey(a)] = Nobody]
    /\ ProbeResult(a, Nobody)
    /\ UNCHANGED <<content, cursor, receipt, subject, blocker>>

ProbeContended(a) ==
    /\ pc[a] = "probe"
    /\ holder[ProbeKey(a)] # Nobody
    /\ blocker' = [blocker EXCEPT ![a] = holder[ProbeKey(a)]]
    /\ Goto(a, "probeRead")
    /\ UNCHANGED <<holder, content, cursor, outcome, busyWith, receipt,
                   subject, verdict>>

ProbeRead(a) ==
    /\ pc[a] = "probeRead"
    /\ ProbeResult(a, content[ProbeKey(a)])
    /\ UNCHANGED <<holder, content, cursor, receipt, subject, blocker>>

Probe(a) ==
    \/ ProbeTake(a)
    \/ ProbeGiveBack(a)
    \/ ProbeContended(a)
    \/ ProbeRead(a)

-----------------------------------------------------------------------------
(* Run *)

\* A top-level run goes straight to acquire.  A nested one carries its parent's
\* identity in its environment: a step of the parent started it, so the parent
\* was executing then, and checkParent comes first.
Start(r) ==
    /\ pc[r] = "idle"
    /\ \/ ParentOf[r] = Nobody /\ Goto(r, "lock")
       \/ /\ ParentOf[r] # Nobody
          /\ pc[ParentOf[r]] = "executing"
          /\ Goto(r, "probe")
    /\ UNCHANGED <<holder, content, cursor, outcome, busyWith, receipt,
                   subject, verdict, blocker>>

\* One turn of the loop of acquire: open (and create) the file, try the lock.
TryLock(r, k) ==
    /\ pc[r] = "lock"
    /\ IsNextKey(r, k)
    /\ cursor' = [cursor EXCEPT ![r] = k]
    /\ \/ /\ holder[k] = Nobody
          /\ holder' = [holder EXCEPT ![k] = r]
          /\ Goto(r, "truncate")
          /\ UNCHANGED blocker
       \/ /\ holder[k] # Nobody
          /\ blocker' = [blocker EXCEPT ![r] = holder[k]]
          /\ Goto(r, "contended")
          /\ UNCHANGED holder
    /\ UNCHANGED <<content, outcome, busyWith, receipt, subject, verdict>>

Truncate(r) ==
    /\ pc[r] = "truncate"
    /\ content' = [content EXCEPT ![cursor[r]] = Nobody]
    /\ Goto(r, "write")
    /\ UNCHANGED <<holder, cursor, outcome, busyWith, receipt, subject,
                   verdict, blocker>>

\* Faulty: the run is admitted with its first lock.
WriteIdEarly(r) ==
    /\ pc[r] = "write"
    /\ content' = [content EXCEPT ![cursor[r]] = r]
    /\ Goto(r, "admitted")
    /\ UNCHANGED <<holder, cursor, outcome, busyWith, receipt, subject,
                   verdict, blocker>>

WriteId(r) ==
    /\ pc[r] = "write"
    /\ content' = [content EXCEPT ![cursor[r]] = r]
    /\ Goto(r, IF Needs[r] \subseteq Held(r) THEN "admitted" ELSE "lock")
    /\ UNCHANGED <<holder, cursor, outcome, busyWith, receipt, subject,
                   verdict, blocker>>

\* The lock was contended: read who the file says owns it, then back out.
ReadOwner(r) ==
    /\ pc[r] = "contended"
    /\ busyWith' = [busyWith EXCEPT ![r] = content[cursor[r]]]
    /\ outcome' = [outcome EXCEPT ![r] = "busy"]
    /\ Goto(r, "release")
    /\ UNCHANGED <<holder, content, cursor, receipt, subject, verdict, blocker>>

\* open, tryLock, Truncate or WriteAt returns an error: release and fail.
AcquireFails(r) ==
    /\ pc[r] \in {"lock", "truncate", "write"}
    /\ outcome' = [outcome EXCEPT ![r] = "failed"]
    /\ Goto(r, "release")
    /\ UNCHANGED <<holder, content, cursor, busyWith, receipt, subject,
                   verdict, blocker>>

\* The running receipt is renamed into place after the locks are held; when it
\* cannot be written the run fails and its deferred release runs.
RecordRunning(r) ==
    /\ pc[r] = "admitted"
    /\ \/ /\ receipt' = [receipt EXCEPT ![r] = "running"]
          /\ Goto(r, "executing")
          /\ UNCHANGED outcome
       \/ /\ outcome' = [outcome EXCEPT ![r] = "failed"]
          /\ Goto(r, "release")
          /\ UNCHANGED receipt
    /\ UNCHANGED <<holder, content, cursor, busyWith, subject, verdict, blocker>>

\* The steps are over.  The final receipt replaces the running one (or its
\* write fails and the running one stays), and only then are locks released.
Finish(r) ==
    /\ pc[r] = "executing"
    /\ \/ /\ receipt' = [receipt EXCEPT ![r] = "final"]
          /\ outcome' = [outcome EXCEPT ![r] = "completed"]
       \/ /\ outcome' = [outcome EXCEPT ![r] = "failed"]
          /\ UNCHANGED receipt
    /\ Goto(r, "release")
    /\ UNCHANGED <<holder, content, cursor, busyWith, subject, verdict, blocker>>

\* heldLocks.release: unlock and close, last key first.
Release(r) ==
    /\ pc[r] = "release"
    /\ \/ /\ \E k \in Keys :
                /\ IsLastKey(r, k)
                /\ holder' = [holder EXCEPT ![k] = Nobody]
          /\ UNCHANGED pc
       \/ /\ Held(r) = {}
          /\ Goto(r, "ended")
          /\ UNCHANGED holder
    /\ UNCHANGED <<content, cursor, outcome, busyWith, receipt, subject,
                   verdict, blocker>>

\* The process dies: the kernel drops its locks, the files keep their content.
Crash(r) ==
    /\ pc[r] \notin {"idle", "ended", "crashed"}
    /\ holder' = [k \in Keys |-> IF holder[k] = r THEN Nobody ELSE holder[k]]
    /\ Goto(r, "crashed")
    /\ UNCHANGED <<content, cursor, outcome, busyWith, receipt, subject,
                   verdict, blocker>>

RunStep(r) ==
    \/ Probe(r)
    \/ \E k \in Keys : TryLock(r, k)
    \/ Truncate(r)
    \/ WriteId(r)
    \/ ReadOwner(r)
    \/ AcquireFails(r)
    \/ RecordRunning(r)
    \/ Finish(r)
    \/ Release(r)

-----------------------------------------------------------------------------
(* Status *)

\* Status read a receipt that says "running" and asks the lock about it.
ReadReceipt(w, r) ==
    /\ pc[w] = "idle"
    /\ receipt[r] = "running"
    /\ subject' = [subject EXCEPT ![w] = r]
    /\ verdict' = [verdict EXCEPT ![w] = "none"]
    /\ Goto(w, "probe")
    /\ UNCHANGED <<holder, content, cursor, outcome, busyWith, receipt, blocker>>

Next ==
    \/ \E r \in Runs : Start(r) \/ RunStep(r) \/ Crash(r)
    \/ \E w \in Watchers : Probe(w) \/ \E r \in Runs : ReadReceipt(w, r)

Spec == Init /\ [][Next]_vars

-----------------------------------------------------------------------------
(* Properties *)

Active(r) == pc[r] \in {"admitted", "executing"}

(* Two runs that share a root or a declared resource never execute at the    *)
(* same time, whatever fails, crashes or probes in between (acquire, release) *)
ExclusiveExecution ==
    \A r, s \in Runs :
        r # s /\ Active(r) /\ Active(s) => Needs[r] \cap Needs[s] = {}

(* While a run executes, every lock file it holds carries its ID, so whoever  *)
(* finds the lock contended by it reads the right owner (Truncate, WriteAt).  *)
OwnerRecorded ==
    \A r \in Runs : Active(r) => \A k \in Needs[r] : content[k] = r

(* A run started inside a step of another is never admitted while that other  *)
(* one still executes, even when its root differs (checkParent).              *)
NestedRunRefused ==
    \A r \in Runs :
        ParentOf[r] # Nobody /\ Active(r) => ~Active(ParentOf[r])

(* Status never calls a receipt stale while its run still executes: the probe *)
(* of a held lock always comes back with the holder's ID (receiptActive).     *)
LiveRunNeverStale ==
    [][\A w \in Watchers :
        verdict[w] = "none" /\ verdict'[w] = "stale"
            => pc[subject[w]] # "executing"]_vars

(* Contending runs do not defeat each other: when only contention stopped     *)
(* those that were started (no crash, no error), one of them got through,     *)
(* because all walk the keys in one order (slices.Sorted in acquire).         *)
SomeRunGetsThrough ==
    /\ \E r \in Runs : pc[r] = "ended"
    /\ \A r \in Runs : pc[r] = "idle" \/ (pc[r] = "ended" /\ outcome[r] # "failed")
    => \E r \in Runs : outcome[r] = "completed"

\* The abstract view of a run: waiting, active or gone.
PhaseOf(r) ==
    IF Active(r) THEN "active"
    ELSE IF pc[r] \in {"release", "ended", "crashed"} THEN "gone"
    ELSE "waiting"

Abstract == INSTANCE CiExclusion WITH phase <- [r \in Runs |-> PhaseOf(r)]

(* The lock protocol implements CiExclusion: it admits a run only when no     *)
(* conflicting run is active, and never a run that already left.              *)
ImplementsExclusion == Abstract!Spec

=============================================================================
