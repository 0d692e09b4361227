--------------------------- MODULE CiComposition ---------------------------
(***************************************************************************)
(* `child_ci: independent-root`: a step of a CI run that may start further *)
(* CI runs on other roots (internal/cirun/composition_runtime.go,          *)
(* composition_lifecycle.go, and what Run and runStep do with them).       *)
(*                                                                         *)
(* The step owns a scope, a directory with a grant, the records of the     *)
(* children it admitted and, later, the files "closed" and "cancel".  A    *)
(* child verifies every ancestor, then, under the scope's admission lock,  *)
(* verifies again, checks that no sibling is unaccounted for, takes its    *)
(* own locks and registers.  When the shell of the step ends, the parent   *)
(* closes the scope under the same lock and waits until each registered    *)
(* child recorded its end and let go of its root.                          *)
(*                                                                         *)
(* All of this happens between processes that can die at any step; nobody  *)
(* but the operating system gives back the locks of a dead one.            *)
(*                                                                         *)
(* The system calls of a probe are one step here (CiRunLocks takes them    *)
(* apart), with every answer they can give: a free lock whose file still   *)
(* has an ID can look held by that run, and can look busy to who wants it, *)
(* while somebody else probes it.                                          *)
(***************************************************************************)
EXTENDS Integers, FiniteSets

CONSTANTS
    Runs,       \* run IDs: each is one process executing Run
    Scopes,     \* the steps with child_ci
    OwnerOf,    \* OwnerOf[s]: the run whose step s is
    Via,        \* Via[r]: the step that starts run r, or Nobody: the user does
    ChainOf,    \* ChainOf[r]: the steps in the grant's ancestry of run r
    Roots,
    RootOf,     \* RootOf[r]: the canonical root of run r
    Nobody,
    Signaled,   \* bound: the runs that can be sent a signal
    MaxFaults   \* bound: processes that die and calls that fail

ScopesOf(r) == {s \in Scopes : OwnerOf[s] = r}
ChildrenOf(s) == {r \in Runs : Via[r] = s}

ASSUME CompositionAssumption ==
    /\ OwnerOf \in [Scopes -> Runs]
    /\ Via \in [Runs -> Scopes \cup {Nobody}]
    /\ Nobody \notin Runs \cup Scopes
    /\ ChainOf \in [Runs -> SUBSET Scopes]
    /\ \A r \in Runs :
          /\ ChainOf[r] = IF Via[r] = Nobody THEN {}
                          ELSE {Via[r]} \cup ChainOf[OwnerOf[Via[r]]]
          /\ \A s \in ChainOf[r] :
                /\ OwnerOf[s] # r
                \* An ancestry is a list: each step started the run of the next.
                /\ s = Via[r] \/ \E t \in ChainOf[r] : Via[OwnerOf[t]] = s
    /\ RootOf \in [Runs -> Roots]
    /\ Signaled \subseteq Runs
    /\ MaxFaults \in Nat

VARIABLES
    pc,         \* where each run is
    lock,       \* lock[k]: the run that holds the lock of root k, or Nobody
    content,    \* content[k]: the run ID in the lock file of root k, or Nobody
    canceled,   \* canceled[r]: the context of run r was canceled
    receipt,    \* receipt[r]: the final receipt: none, succeeded or failed
    record,     \* record[r]: the child record of run r: none, open or finished
    phase,      \* phase[s]: where the parent is with step s
    admission,  \* admission[s]: who holds admission.lock of the scope
    closed,     \* closed[s]: the scope has the file "closed"
    cancel,     \* cancel[s]: the scope has the file "cancel"
    expired,    \* expired[s]: the deadline of the step has passed
    shell,      \* shell[s]: the command of the step exited with success
    tainted,    \* tainted[s]: drain has an error to return
    draining,   \* draining[s]: "canceled" in drain
    result,     \* result[s]: what the step returned
    faults

runVars   == <<pc, canceled, receipt, record>>
lockVars  == <<lock, content>>
fileVars  == <<admission, closed, cancel>>
stepVars  == <<phase, shell, tainted, draining, result>>
vars == <<runVars, lockVars, fileVars, stepVars, expired, faults>>

PCs == {"idle", "admit", "wait", "verify", "siblings", "acquire", "register",
        "running", "final", "released", "done", "refused", "crashed"}
Phases == {"none", "skipped", "open", "closing", "draining", "ended"}
Results == {"none", "ok", "failed", "unresolved"}

\* Each variable has its type; only the children of a step have a record in its
\* scope or enter its admission lock (cirun.go: `if grant != nil`).
TypeOK ==
    /\ pc \in [Runs -> PCs]
    /\ lock \in [Roots -> Runs \cup {Nobody}]
    /\ content \in [Roots -> Runs \cup {Nobody}]
    /\ canceled \in [Runs -> BOOLEAN]
    /\ receipt \in [Runs -> {"none", "succeeded", "failed"}]
    /\ record \in [Runs -> {"none", "open", "finished"}]
    /\ phase \in [Scopes -> Phases]
    /\ admission \in [Scopes -> Runs \cup {Nobody}]
    /\ closed \in [Scopes -> BOOLEAN]
    /\ cancel \in [Scopes -> BOOLEAN]
    /\ expired \in [Scopes -> BOOLEAN]
    /\ shell \in [Scopes -> BOOLEAN]
    /\ tainted \in [Scopes -> BOOLEAN]
    /\ draining \in [Scopes -> BOOLEAN]
    /\ result \in [Scopes -> Results]
    /\ faults \in 0 .. MaxFaults
    /\ \A r \in Runs : record[r] # "none" => Via[r] # Nobody
    /\ \A s \in Scopes : admission[s] \in ChildrenOf(s) \cup {Nobody}

Init ==
    /\ pc = [r \in Runs |-> "idle"]
    /\ lock = [k \in Roots |-> Nobody]
    /\ content = [k \in Roots |-> Nobody]
    /\ canceled = [r \in Runs |-> FALSE]
    /\ receipt = [r \in Runs |-> "none"]
    /\ record = [r \in Runs |-> "none"]
    /\ phase = [s \in Scopes |-> "none"]
    /\ admission = [s \in Scopes |-> Nobody]
    /\ closed = [s \in Scopes |-> FALSE]
    /\ cancel = [s \in Scopes |-> FALSE]
    /\ expired = [s \in Scopes |-> FALSE]
    /\ shell = [s \in Scopes |-> FALSE]
    /\ tainted = [s \in Scopes |-> FALSE]
    /\ draining = [s \in Scopes |-> FALSE]
    /\ result = [s \in Scopes |-> "none"]
    /\ faults = 0

-----------------------------------------------------------------------------
(* Helpers *)

Goto(r, label) == pc' = [pc EXCEPT ![r] = label]

Fault == faults < MaxFaults /\ faults' = faults + 1

\* The run executes: it holds its locks and its steps may be at work.
Executing(r) == pc[r] \in {"running", "final"}

Holds(r) == lock[RootOf[r]] = r

\* What a probe of the root of run r can say of run r.
CanLookAlive(r) == Holds(r) \/ (lock[RootOf[r]] = Nobody /\ content[RootOf[r]] = r)
CanLookGone(r)  == ~Holds(r)

\* The deadline of an outer step bounds every context below it.
ContextDone(r) == canceled[r] \/ \E s \in ChainOf[r] : expired[s]
StepDone(s)    == expired[s] \/ ContextDone(OwnerOf[s])

\* Someone inside the admission lock of the scope leaves it.
Leaves(r) == admission' = [s \in Scopes |->
                              IF admission[s] = r THEN Nobody ELSE admission[s]]

Refuse(r) == Goto(r, "refused") /\ Leaves(r)

-----------------------------------------------------------------------------
(* Admission of a child *)

\* A run starts: from the command line, or from the shell of a step.  What the
\* shell left in the background can start one even after the step ended.
Start(r) ==
    /\ pc[r] = "idle"
    /\ IF Via[r] = Nobody THEN Goto(r, "acquire")
       ELSE /\ phase[Via[r]] \notin {"none", "skipped"}
            /\ Goto(r, "admit")
    /\ UNCHANGED <<lockVars, canceled, receipt, record, fileVars, stepVars,
                   expired, faults>>

\* admitComposition, on what its probes answer.
CanAdmit(r) ==
    /\ ~expired[Via[r]]
    /\ \A s \in ChainOf[r] : CanLookAlive(OwnerOf[s])
    /\ \A s \in ChainOf[r] : RootOf[OwnerOf[s]] # RootOf[r]

CanReject(r) ==
    \/ expired[Via[r]]
    \/ \E s \in ChainOf[r] : CanLookGone(OwnerOf[s])
    \/ \E s \in ChainOf[r] : RootOf[OwnerOf[s]] = RootOf[r]

Admit(r) ==
    /\ pc[r] = "admit"
    /\ \/ CanAdmit(r) /\ Goto(r, "wait")
       \/ CanReject(r) /\ Goto(r, "refused")
    /\ UNCHANGED <<lockVars, canceled, receipt, record, fileVars, stepVars,
                   expired, faults>>

\* compositionScope.locked: polls the lock until the context ends.
EnterAdmission(r) ==
    /\ pc[r] = "wait"
    /\ ~ContextDone(r)
    /\ admission[Via[r]] = Nobody
    /\ admission' = [admission EXCEPT ![Via[r]] = r]
    /\ Goto(r, "verify")
    /\ UNCHANGED <<lockVars, canceled, receipt, record, closed, cancel,
                   stepVars, expired, faults>>

GiveUpWaiting(r) ==
    /\ pc[r] = "wait"
    /\ ContextDone(r)
    /\ Refuse(r)
    /\ UNCHANGED <<lockVars, canceled, receipt, record, closed, cancel,
                   stepVars, expired, faults>>

\* Under the lock: the scope is open and the ancestors are verified again.
IsOpen(s) == ~closed[s]
Verify(r) ==
    /\ pc[r] = "verify"
    /\ \/ /\ IsOpen(Via[r])
          /\ CanAdmit(r)
          /\ Goto(r, "siblings")
          /\ UNCHANGED admission
       \/ /\ ~IsOpen(Via[r]) \/ CanReject(r)
          /\ Refuse(r)
    /\ UNCHANGED <<lockVars, canceled, receipt, record, closed, cancel,
                   stepVars, expired, faults>>

\* Every registered sibling let go of its root and recorded its end.
Registered(s) == {c \in ChildrenOf(s) : record[c] # "none"}
CanSeeEnd(c)  == CanLookGone(c) /\ record[c] = "finished"
CanSeeWork(c) == CanLookAlive(c) \/ record[c] # "finished"

CheckSiblings(r) ==
    /\ pc[r] = "siblings"
    /\ \/ /\ \A c \in Registered(Via[r]) : CanSeeEnd(c)
          /\ Goto(r, "acquire")
          /\ UNCHANGED admission
       \/ /\ \E c \in Registered(Via[r]) : CanSeeWork(c)
          /\ Refuse(r)
    /\ UNCHANGED <<lockVars, canceled, receipt, record, closed, cancel,
                   stepVars, expired, faults>>

Acquire(r) ==
    /\ pc[r] = "acquire"
    /\ lock[RootOf[r]] = Nobody
    /\ lock' = [lock EXCEPT ![RootOf[r]] = r]
    /\ content' = [content EXCEPT ![RootOf[r]] = r]
    /\ Goto(r, IF Via[r] = Nobody THEN "running" ELSE "register")
    /\ UNCHANGED <<canceled, receipt, record, fileVars, stepVars, expired,
                   faults>>

\* Held by another run, or for an instant by somebody's probe.
AcquireBusy(r) ==
    /\ pc[r] = "acquire"
    /\ content[RootOf[r]] # Nobody
    /\ Refuse(r)
    /\ UNCHANGED <<lockVars, canceled, receipt, record, closed, cancel,
                   stepVars, expired, faults>>

Register(r) ==
    /\ pc[r] = "register"
    /\ record' = [record EXCEPT ![r] = "open"]
    /\ Leaves(r)
    /\ Goto(r, "running")
    /\ UNCHANGED <<lockVars, canceled, receipt, closed, cancel, stepVars,
                   expired, faults>>

Unlock(r) == lock' = [k \in Roots |-> IF lock[k] = r THEN Nobody ELSE lock[k]]

RegisterFails(r) ==
    /\ pc[r] = "register"
    /\ Fault
    /\ Unlock(r)
    /\ Refuse(r)
    /\ UNCHANGED <<content, canceled, receipt, record, closed, cancel,
                   stepVars, expired>>

-----------------------------------------------------------------------------
(* A run at work, and its end *)

\* Faulty: only the tombstones are watched, or only the ancestors.
SeesCancel(s) == cancel[s]
SeesDeath(s)  == CanLookGone(OwnerOf[s])

\* monitorComposition: a scope above was canceled, or its run lost its lock.
SeesEnd(s) == cancel[s] \/ CanLookGone(OwnerOf[s])
Monitor(r) ==
    /\ pc[r] = "running"
    /\ ~canceled[r]
    /\ \E s \in ChainOf[r] : SeesEnd(s)
    /\ canceled' = [canceled EXCEPT ![r] = TRUE]
    /\ UNCHANGED <<pc, lockVars, receipt, record, fileVars, stepVars, expired,
                   faults>>

\* A signal: from the user, or the SIGTERM that a parent sends to the group.
Interrupt(r) ==
    /\ r \in Signaled
    /\ pc[r] \notin {"idle", "final", "released", "done", "refused", "crashed"}
    /\ ~canceled[r]
    /\ canceled' = [canceled EXCEPT ![r] = TRUE]
    /\ UNCHANGED <<pc, lockVars, receipt, record, fileVars, stepVars, expired,
                   faults>>

\* Run has the results of all its steps and writes the final receipt.  `ok`
\* stands for the steps without child_ci and for the attestation.
FinishRun(r, ok) ==
    /\ pc[r] = "running"
    /\ \A s \in ScopesOf(r) : phase[s] \notin {"open", "closing", "draining"}
    /\ ok => \A s \in ScopesOf(r) : result[s] = "ok"
    /\ receipt' = [receipt EXCEPT ![r] = IF ok THEN "succeeded" ELSE "failed"]
    /\ Goto(r, "final")
    /\ UNCHANGED <<lockVars, canceled, record, fileVars, stepVars, expired,
                   faults>>

\* The deferred function of Run: the locks first, then the child record.
Release(r) ==
    /\ pc[r] = "final"
    /\ Unlock(r)
    /\ Goto(r, IF Via[r] = Nobody THEN "done" ELSE "released")
    /\ UNCHANGED <<content, canceled, receipt, record, fileVars, stepVars,
                   expired, faults>>

RecordEnd(r) ==
    /\ pc[r] = "released"
    /\ \/ record' = [record EXCEPT ![r] = "finished"] /\ UNCHANGED faults
       \/ Fault /\ UNCHANGED record
    /\ Goto(r, "done")
    /\ UNCHANGED <<lockVars, canceled, receipt, fileVars, stepVars, expired>>

Crash(r) ==
    /\ pc[r] \notin {"idle", "done", "refused", "crashed"}
    /\ Fault
    /\ Unlock(r)
    /\ Leaves(r)
    /\ Goto(r, "crashed")
    /\ UNCHANGED <<content, canceled, receipt, record, closed, cancel,
                   stepVars, expired>>

-----------------------------------------------------------------------------
(* The step of the parent (runStep and compositionScope.drain) *)

\* createGrant, then the command; it needs a deadline that has not passed.
OpenScope(s) ==
    /\ pc[OwnerOf[s]] = "running"
    /\ phase[s] = "none"
    /\ \/ ~StepDone(s) /\ phase' = [phase EXCEPT ![s] = "open"]
       \/ StepDone(s) /\ phase' = [phase EXCEPT ![s] = "skipped"]
    /\ UNCHANGED <<runVars, lockVars, fileVars, shell, tainted, draining,
                   result, expired, faults>>

Expire(s) ==
    /\ phase[s] \notin {"none", "skipped"}
    /\ ~expired[s]
    /\ expired' = [expired EXCEPT ![s] = TRUE]
    /\ UNCHANGED <<runVars, lockVars, fileVars, stepVars, faults>>

\* The command ended (or did not start), or the context of the step did.
ShellEnds(s, ok) ==
    /\ pc[OwnerOf[s]] = "running"
    /\ phase[s] = "open"
    /\ phase' = [phase EXCEPT ![s] = "closing"]
    /\ shell' = [shell EXCEPT ![s] = ok]
    /\ draining' = [draining EXCEPT ![s] = ~ok \/ StepDone(s)]
    /\ UNCHANGED <<runVars, lockVars, fileVars, tainted, result, expired,
                   faults>>

\* compositionScope.close, under the admission lock.
Close(s) ==
    /\ pc[OwnerOf[s]] = "running"
    /\ phase[s] = "closing"
    /\ admission[s] = Nobody
    /\ closed' = [closed EXCEPT ![s] = TRUE]
    /\ cancel' = [cancel EXCEPT ![s] = draining[s]]
    /\ phase' = [phase EXCEPT ![s] = "draining"]
    /\ UNCHANGED <<runVars, lockVars, admission, shell, tainted, draining,
                   result, expired, faults>>

\* The step returns; the variables of drain go out of scope.
Conclude(s, what) ==
    /\ phase' = [phase EXCEPT ![s] = "ended"]
    /\ result' = [result EXCEPT ![s] = what]
    /\ shell' = [shell EXCEPT ![s] = FALSE]
    /\ tainted' = [tainted EXCEPT ![s] = FALSE]
    /\ draining' = [draining EXCEPT ![s] = FALSE]

\* Every registered child is over; a child that failed fails the step.
Pending(s) == \E c \in Registered(s) : record[c] # "finished" \/ Holds(c)
CanLookPending(s) == \E c \in Registered(s) : CanSeeWork(c)
GoodAlways(c) == TRUE  \* Faulty: what the shell swallowed is forgotten.
Good(c) == receipt[c] = "succeeded"
Drained(s) ==
    /\ pc[OwnerOf[s]] = "running"
    /\ phase[s] = "draining"
    /\ ~Pending(s)
    /\ Conclude(s, IF shell[s] /\ ~tainted[s] /\ \A c \in Registered(s) : Good(c)
                   THEN "ok" ELSE "failed")
    /\ UNCHANGED <<runVars, lockVars, fileVars, expired, faults>>

\* The deadline passes while children finish: now they are canceled too.
Escalate(s) ==
    /\ pc[OwnerOf[s]] = "running"
    /\ phase[s] = "draining"
    /\ ~draining[s] /\ CanLookPending(s) /\ StepDone(s)
    /\ admission[s] = Nobody
    /\ cancel' = [cancel EXCEPT ![s] = TRUE]
    /\ draining' = [draining EXCEPT ![s] = TRUE]
    /\ tainted' = [tainted EXCEPT ![s] = TRUE]
    /\ UNCHANGED <<runVars, lockVars, admission, closed, phase, shell, result,
                   expired, faults>>

\* Fifteen seconds after the cancellation somebody still is not over.
GiveUpDraining(s) ==
    /\ pc[OwnerOf[s]] = "running"
    /\ phase[s] = "draining"
    /\ draining[s] /\ CanLookPending(s)
    /\ Conclude(s, "unresolved")
    /\ UNCHANGED <<runVars, lockVars, fileVars, expired, faults>>

\* The scope cannot be closed (in time) or read.  "closed" is written before
\* "cancel" is.
DrainFails(s) ==
    /\ pc[OwnerOf[s]] = "running"
    /\ phase[s] \in {"closing", "draining"}
    /\ Fault
    /\ \/ UNCHANGED closed
       \/ admission[s] = Nobody /\ closed' = [closed EXCEPT ![s] = TRUE]
    /\ Conclude(s, "unresolved")
    /\ UNCHANGED <<runVars, lockVars, admission, cancel, expired>>

-----------------------------------------------------------------------------
\* What a process does, or suffers, as a run; and as the parent of a step.
RunStep(r) ==
    \/ Start(r) \/ Admit(r) \/ EnterAdmission(r) \/ GiveUpWaiting(r)
    \/ Verify(r) \/ CheckSiblings(r) \/ Acquire(r) \/ AcquireBusy(r)
    \/ Register(r) \/ RegisterFails(r) \/ Monitor(r) \/ Interrupt(r)
    \/ \E ok \in BOOLEAN : FinishRun(r, ok)
    \/ Release(r) \/ RecordEnd(r) \/ Crash(r)

ScopeStep(s) ==
    \/ OpenScope(s) \/ Expire(s) \/ Close(s) \/ Drained(s)
    \/ \E ok \in BOOLEAN : ShellEnds(s, ok)
    \/ Escalate(s) \/ GiveUpDraining(s) \/ DrainFails(s)

Next ==
    \/ \E r \in Runs : RunStep(r)
    \/ \E s \in Scopes : ScopeStep(s)

Spec == Init /\ [][Next]_vars

\* What a process does without waiting for its command, for a signal or for a
\* deadline.  A context that is done ends the command of a step (SIGTERM, then
\* SIGKILL) and the run; 15 seconds end a drain.
Continues(r) ==
    \/ Admit(r) \/ EnterAdmission(r) \/ GiveUpWaiting(r) \/ Verify(r)
    \/ CheckSiblings(r) \/ Acquire(r) \/ AcquireBusy(r) \/ Register(r)
    \/ Monitor(r) \/ Release(r) \/ RecordEnd(r)
    \/ ContextDone(r) /\ FinishRun(r, FALSE)
    \/ \E s \in ScopesOf(r) :
          \/ StepDone(s) /\ ShellEnds(s, FALSE)
          \/ Close(s) \/ Drained(s) \/ Escalate(s) \/ GiveUpDraining(s)

\* No step of the model can be taken back, so fairness per process says that
\* each goroutine of a process that has something to do does it in the end.
FairSpec == Spec /\ \A r \in Runs : WF_vars(Continues(r))

-----------------------------------------------------------------------------
(* Properties *)

\* A step has at most one child at work: its jobs limit is not divided between
\* children.  Nobody counts them: each child looks at the records and the locks
\* of its siblings before it registers.
OneChildAtATime ==
    \A s \in Scopes : \A c, d \in ChildrenOf(s) :
        Executing(c) /\ Executing(d) => c = d

\* A step that succeeded left no run behind, at any depth, and each child it
\* registered has a receipt that says so, whatever its shell swallowed.
SuccessIsComplete ==
    \A s \in Scopes : result[s] = "ok" =>
        /\ \A c \in Registered(s) : receipt[c] = "succeeded"
        /\ \A r \in Runs : s \in ChainOf[r] => ~Executing(r) /\ ~Holds(r)

\* A step that failed without saying "unconfirmed" left no child of its own
\* with a root either.
ConfirmedMeansGone ==
    \A s \in Scopes : result[s] \in {"ok", "failed"} =>
        \A c \in ChildrenOf(s) : ~Executing(c) /\ ~Holds(c)

\* A child that was slow to start is not admitted once the scope was closed.
ClosedAdmitsNobody ==
    [][\A c \in Runs : Via[c] \in Scopes /\ closed[Via[c]] /\ ~Executing(c)
          => ~Executing(c)']_vars

\* Runs whose ancestor died or gave up its root, and runs below a canceled step.
Orphans  == {r \in Runs : Executing(r) /\ \E s \in ChainOf[r] : ~Holds(OwnerOf[s])}
Canceled == {r \in Runs : Executing(r) /\ \E s \in ChainOf[r] : cancel[s]}
Overdue  == {s \in Scopes : /\ phase[s] \in {"open", "closing", "draining"}
                            /\ StepDone(s)
                            /\ pc[OwnerOf[s]] = "running"}

\* A run that lost an ancestor stops by itself.
OrphansEnd == Orphans # {} ~> Orphans = {}

\* A cancellation reaches the runs below the step at every depth, also when the
\* runs in between died; and a step whose deadline passed, or whose run was
\* canceled, returns, whatever its children do or fail to do.
CancelReachesLeaves ==
    (Canceled # {} \/ Overdue # {}) ~> (Canceled = {} /\ Overdue = {})

=============================================================================
