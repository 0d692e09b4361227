---------------------------- MODULE CiScheduler -----------------------------
(***************************************************************************)
(* The step scheduler of `dva ci run`: execute, its goroutines, the        *)
(* checkpoints it writes (internal/cirun/cirun_steps.go) and the final     *)
(* receipt its caller writes (internal/cirun/cirun.go).                    *)
(*                                                                         *)
(* One goroutine, the loop, owns the step reports.  It skips what is       *)
(* blocked, starts what is ready while it may, and waits for one result.   *)
(* Every started step has a goroutine of its own that runs the command and *)
(* sends its result.  The context ends when the user interrupts, when the  *)
(* profile's deadline passes, or when the loop itself gives up.            *)
(***************************************************************************)
EXTENDS Integers, FiniteSets

CONSTANTS
    Steps,          \* steps by position in the profile
    Deps,           \* Deps[s]: the steps named by depends_on
    MaxParallel,    \* profile.max_parallel
    FailFast,       \* profile.FailFastEnabled()
    Reusable        \* steps that declare `reuse`

ASSUME SchedulerAssumption ==
    /\ Steps \subseteq Nat /\ IsFiniteSet(Steps) /\ Steps # {}
    /\ Deps \in [Steps -> SUBSET Steps]
    /\ MaxParallel \in Int
    /\ FailFast \in BOOLEAN
    /\ Reusable \subseteq Steps

N == Cardinality(Steps)

\* max_parallel is clamped to 1..n.
Max == IF MaxParallel < 1 THEN 1 ELSE IF MaxParallel > N THEN N ELSE MaxParallel

VARIABLES
    pc,         \* where the loop is
    status,     \* status[s]: reports[s].Status in memory
    disk,       \* disk[s]: the status in the last receipt that was written
    worker,     \* worker[s]: the goroutine of step s
    result,     \* result[s]: what that goroutine returned
    running,    \* the loop's counters and flags
    complete,
    failed,
    fatal,
    outer,      \* the caller's context: live, canceled or deadline
    ctx,        \* the context of this execution, derived from outer
    returned,   \* how execute returned
    receipt     \* the status of the whole run in the receipt on disk

vars == <<pc, status, disk, worker, result, running, complete, failed, fatal,
          outer, ctx, returned, receipt>>

Settled  == {"succeeded", "failed", "timed_out", "canceled", "skipped"}
Blocking == Settled \ {"succeeded"}
Statuses == Settled \cup {"pending", "running"}

\* "tampered" stands for status failed with a reuseIntegrityError.
Results == {"succeeded", "failed", "timed_out", "canceled", "tampered"}
StatusOf(res) == IF res = "tampered" THEN "failed" ELSE res

WorkerStates == {"none", "spawned", "ready", "command", "sent", "received"}
Receipts == {"running", "succeeded", "stale", "timed_out", "canceled", "failed"}

\* The type invariant.
TypeOK ==
    /\ pc \in {"top", "skip", "start", "wait", "done", "ended"}
    /\ status \in [Steps -> Statuses]
    /\ disk \in [Steps -> Statuses]
    /\ worker \in [Steps -> WorkerStates]
    /\ result \in [Steps -> Results \cup {"none"}]
    /\ running \in Nat
    /\ complete \in Nat
    /\ failed \in BOOLEAN
    /\ fatal \in BOOLEAN
    /\ outer \in {"live", "canceled", "deadline"}
    /\ ctx \in {"live", "canceled", "deadline"}
    /\ returned \in {"no", "ok", "failed", "stopped", "cycle"}
    /\ receipt \in Receipts

Init ==
    /\ pc = "top"
    /\ status = [s \in Steps |-> "pending"]
    /\ disk = [s \in Steps |-> "pending"]
    /\ worker = [s \in Steps |-> "none"]
    /\ result = [s \in Steps |-> "none"]
    /\ running = 0 /\ complete = 0
    /\ failed = FALSE /\ fatal = FALSE
    /\ outer \in {"live", "canceled"}
    /\ ctx = outer
    /\ returned = "no" /\ receipt = "running"

-----------------------------------------------------------------------------
(* The loop *)

\* dependencyState.
Ready(s)   == \A d \in Deps[s] : status[d] = "succeeded"
Blocked(s) == \E d \in Deps[s] : status[d] \in Blocking

Pending == {s \in Steps : status[s] = "pending"}

\* cancel(): a context ends once, for the first reason.
Canceled == IF ctx = "live" THEN "canceled" ELSE ctx

\* checkpoint(reports): the new reports reach the disk as a whole, or not at
\* all, and then the loop gives up and cancels the context.
Checkpoint(ok, reports) == disk' = IF ok THEN reports ELSE disk
GiveUpUnless(ok) ==
    IF ok THEN UNCHANGED <<fatal, ctx>> ELSE fatal' = TRUE /\ ctx' = Canceled

\* The head of the loop looks at the context once per turn.
Top ==
    /\ pc = "top" /\ complete < N
    /\ fatal' = (fatal \/ ctx # "live")
    /\ pc' = "skip"
    /\ UNCHANGED <<status, disk, worker, result, running, complete, failed,
                   outer, ctx, returned, receipt>>

\* Repeated scans mark every descendant of an unsuccessful step.  The order of
\* the marks matters to nobody: each one only adds to what is blocked.
Skip(s) ==
    /\ pc = "skip" /\ ~fatal
    /\ s \in Pending /\ Blocked(s)
    /\ status' = [status EXCEPT ![s] = "skipped"]
    /\ complete' = complete + 1
    /\ \E ok \in BOOLEAN : Checkpoint(ok, status') /\ GiveUpUnless(ok)
    /\ UNCHANGED <<pc, worker, result, running, failed, outer, returned, receipt>>

\* Faulty: a run that was given up still waits for the scan to skip the rest.
SkipsDoneUnlessBlocked ==
    /\ pc = "skip"
    /\ \A s \in Pending : ~Blocked(s)
    /\ pc' = "start"
    /\ UNCHANGED <<status, disk, worker, result, running, complete, failed,
                   fatal, outer, ctx, returned, receipt>>

\* The scan ends when it changes nothing, or with the run given up.
SkipsDone ==
    /\ pc = "skip"
    /\ fatal \/ \A s \in Pending : ~Blocked(s)
    /\ pc' = "start"
    /\ UNCHANGED <<status, disk, worker, result, running, complete, failed,
                   fatal, outer, ctx, returned, receipt>>

\* Faulty: a run that was given up starts more steps.
MayStartAnyway(s) == running < Max /\ s \in Pending /\ Ready(s)

MayStart(s) == ~fatal /\ running < Max /\ s \in Pending /\ Ready(s)

\* start(next), next being the first ready step in declaration order.  A step
\* whose running state cannot be recorded goes back to pending and never runs.
Start(s) ==
    /\ pc = "start"
    /\ MayStart(s) /\ \A t \in Steps : MayStart(t) => s <= t
    /\ \E ok \in BOOLEAN :
          /\ Checkpoint(ok, [status EXCEPT ![s] = "running"])
          /\ GiveUpUnless(ok)
          /\ IF ok
             THEN /\ status' = [status EXCEPT ![s] = "running"]
                  /\ worker' = [worker EXCEPT ![s] = "spawned"]
                  /\ running' = running + 1
             ELSE UNCHANGED <<status, worker, running>>
    /\ UNCHANGED <<pc, result, complete, failed, outer, returned, receipt>>

StartsDone ==
    /\ pc = "start"
    /\ \A s \in Steps : ~MayStart(s)
    /\ pc' = "wait"
    /\ UNCHANGED <<status, disk, worker, result, running, complete, failed,
                   fatal, outer, ctx, returned, receipt>>

\* After which results the loop cancels everything else.
GivesUp(res) == res = "tampered" \/ (FailFast /\ res # "succeeded")

\* The results sit in a buffered channel.  Goroutines send concurrently, so
\* the one taken may be any that was sent.
Receive(s) ==
    /\ pc = "wait" /\ worker[s] = "sent"
    /\ worker' = [worker EXCEPT ![s] = "received"]
    /\ running' = running - 1
    /\ complete' = complete + 1
    /\ status' = [status EXCEPT ![s] = StatusOf(result[s])]
    /\ failed' = (failed \/ result[s] # "succeeded")
    /\ \E ok \in BOOLEAN :
          /\ Checkpoint(ok, status')
          /\ GiveUpUnless(ok /\ ~GivesUp(result[s]))
    /\ pc' = "top"
    /\ UNCHANGED <<result, outer, returned, receipt>>

\* The return value, once the loop is left.
Verdict(sound) ==
    IF ctx # "live" THEN "stopped" ELSE IF sound THEN "ok" ELSE "failed"

\* Nothing runs and something is left: either the profile has a cycle, or the
\* run was given up and the rest is skipped (in memory: the caller's final
\* receipt records it).
RunDry ==
    /\ pc = "wait" /\ running = 0
    /\ IF ~fatal /\ complete < N
       THEN /\ returned' = "cycle"
            /\ UNCHANGED <<status, complete>>
       ELSE /\ status' = [s \in Steps |->
                            IF s \in Pending THEN "skipped" ELSE status[s]]
            /\ complete' = complete + Cardinality(Pending)
            /\ returned' = Verdict(~failed /\ ~fatal)
    /\ ctx' = Canceled
    /\ pc' = "done"
    /\ UNCHANGED <<disk, worker, result, running, failed, fatal, outer, receipt>>

\* Every step is settled.
AllComplete ==
    /\ pc = "top" /\ complete = N
    /\ returned' = Verdict(~failed /\ ~fatal)
    /\ ctx' = Canceled
    /\ pc' = "done"
    /\ UNCHANGED <<status, disk, worker, result, running, complete, failed,
                   fatal, outer, receipt>>

Loop ==
    \/ Top
    \/ \E s \in Steps : Skip(s) \/ Start(s) \/ Receive(s)
    \/ SkipsDone
    \/ StartsDone
    \/ RunDry
    \/ AllComplete

-----------------------------------------------------------------------------
(* The goroutine of a step: runReusableStep and runStep *)

Send(s, res) ==
    /\ worker' = [worker EXCEPT ![s] = "sent"]
    /\ result' = [result EXCEPT ![s] = res]
    /\ UNCHANGED <<pc, status, disk, running, complete, failed, fatal, outer,
                   ctx, returned, receipt>>

\* How a step that returns an error is classified: the end of the context wins.
ErrorUnder(own) ==
    CASE ctx = "deadline" -> "timed_out"
      [] ctx = "canceled" -> "canceled"
      [] OTHER            -> own

\* The last look at the context before the command: it may end right after.
Prepare(s) ==
    /\ worker[s] = "spawned" /\ ctx = "live"
    /\ worker' = [worker EXCEPT ![s] = "ready"]
    /\ UNCHANGED <<pc, status, disk, result, running, complete, failed, fatal,
                   outer, ctx, returned, receipt>>

\* A cached result is replayed without running anything.
Replay(s) ==
    /\ worker[s] = "ready" /\ s \in Reusable
    /\ Send(s, "succeeded")

Launch(s) ==
    /\ worker[s] = "ready"
    /\ worker' = [worker EXCEPT ![s] = "command"]
    /\ UNCHANGED <<pc, status, disk, result, running, complete, failed, fatal,
                   outer, ctx, returned, receipt>>

\* Context over, bad workdir, no shell, reuse inputs that cannot be read.
LaunchFails(s) ==
    /\ worker[s] \in {"spawned", "ready"}
    /\ Send(s, ErrorUnder("failed"))

\* The command exits, or its own timeout kills it.  What it did to its own
\* declared inputs is checked only while the context is live; a success that
\* comes later is not recorded as one.
Exit(s) ==
    /\ worker[s] = "command"
    /\ \/ s \notin Reusable /\ Send(s, "succeeded")
       \/ s \in Reusable /\ Send(s, ErrorUnder("succeeded"))
       \/ s \in Reusable /\ Send(s, "tampered")
       \/ Send(s, ErrorUnder("failed"))
       \/ Send(s, "timed_out")

KillOnInterrupt(s) ==
    /\ worker[s] = "command" /\ ctx = "canceled"
    /\ Send(s, "canceled")

\* The context is over: the process group is terminated, then killed.
Kill(s) ==
    /\ worker[s] = "command" /\ ctx # "live"
    /\ Send(s, ErrorUnder("canceled"))

Worker(s) ==
    Prepare(s) \/ Replay(s) \/ Launch(s) \/ LaunchFails(s) \/ Exit(s) \/ Kill(s)

-----------------------------------------------------------------------------
(* The caller: Run *)

\* An interrupt or the profile's deadline ends the caller's context and with it
\* this one.
OuterEnds ==
    /\ outer = "live" /\ pc # "ended"
    /\ outer' \in {"canceled", "deadline"}
    /\ ctx' = IF ctx = "live" THEN outer' ELSE ctx
    /\ UNCHANGED <<pc, status, disk, worker, result, running, complete, failed,
                   fatal, returned, receipt>>

\* Why a run that did not come out clean ended: only the caller's own context
\* counts, not the cancellation that the loop asked for.
Reason ==
    CASE outer = "deadline" -> "timed_out"
      [] outer = "canceled" -> "canceled"
      [] OTHER              -> "failed"

\* The inputs are fingerprinted again, the log is closed and the final receipt
\* is written; each of them may fail.
Finish ==
    /\ pc = "done"
    /\ \E attested, changed, closed, written \in BOOLEAN :
          LET clean == returned = "ok" /\ attested
          IN  /\ receipt' = IF ~written     THEN receipt
                            ELSE IF ~closed THEN "failed"
                            ELSE IF ~clean  THEN Reason
                            ELSE IF changed THEN "stale" ELSE "succeeded"
              /\ disk' = IF written THEN status ELSE disk
    /\ pc' = "ended"
    /\ UNCHANGED <<status, worker, result, running, complete, failed, fatal,
                   outer, ctx, returned>>

Next == Loop \/ OuterEnds \/ Finish \/ \E s \in Steps : Worker(s)

Spec == Init /\ [][Next]_vars

\* The loop and the goroutines are scheduled; commands need not ever end by
\* themselves, but SIGKILL ends them.
StopFairness ==
    /\ WF_vars(Loop \/ Finish)
    /\ \A s \in Steps :
          WF_vars(Prepare(s) \/ Replay(s) \/ Launch(s) \/ LaunchFails(s) \/ Kill(s))

\* ... and in a run that nobody interrupts, every command ends.
FairSpec     == Spec /\ StopFairness
EndingSpec   == FairSpec /\ \A s \in Steps : WF_vars(Worker(s))

-----------------------------------------------------------------------------
(* Properties *)

Alive == {s \in Steps : worker[s] \in {"spawned", "ready", "command", "sent"}}

\* A step starts only after every step it depends on has succeeded, however
\* the results of its siblings, the skips and the cancellation interleave; in
\* particular no command runs after a prerequisite that failed or was skipped.
DependencyOrder ==
    \A s \in Steps :
        status[s] \notin {"pending", "skipped"} =>
            \A d \in Deps[s] : status[d] = "succeeded"

\* The two counters of the loop are never off: running is the number of
\* goroutines whose result was not received, within max_parallel, and complete
\* the number of settled steps.  The loop decides by them alone when to join
\* and when to leave.
CountersExact ==
    /\ running = Cardinality(Alive)
    /\ Cardinality(Alive) <= Max
    /\ complete = Cardinality({s \in Steps : status[s] \in Settled})

\* Write-ahead: whenever the command of a step may be running, the receipt on
\* disk already says so, and while the run has not been given up the receipt
\* is exactly what the loop knows.  A crash can lose no started step.
ReceiptKnowsWhatRuns ==
    /\ \A s \in Steps : worker[s] \in {"ready", "command"} => disk[s] = "running"
    /\ ~fatal => disk = status

\* When execute returns, every goroutine was joined and every step is settled:
\* nothing still runs under locks that are about to be released.  Only a
\* dependency cycle leaves steps pending.
NothingLeftBehind ==
    pc \in {"done", "ended"} =>
        /\ Alive = {}
        /\ returned # "cycle" => \A s \in Steps : status[s] \in Settled

\* While the run goes on, a step is skipped only because a step it depends on
\* ended without success.
OnlyBlockedStepsSkipped ==
    ~fatal => \A s \in Steps : status[s] = "skipped" =>
                  \E d \in Deps[s] : status[d] \in Settled \ {"succeeded"}

\* With fail_fast off the run is given up, short of a cancellation, only for a
\* receipt that cannot be written or a step that tampered with its inputs,
\* never for a step that merely failed: independent work goes on.
IndependentWorkGoesOn ==
    [][~FailFast /\ outer = "live" /\ ~fatal /\ fatal' =>
            \/ disk' = disk
            \/ \E s \in Steps : /\ result[s] = "tampered"
                                /\ worker[s] = "sent" /\ worker'[s] = "received"]_vars

\* "ci step dependency cycle" is only said of steps that do wait for each other.
CycleIsReal ==
    returned = "cycle" =>
        /\ Pending # {}
        /\ \A s \in Pending : Deps[s] \cap Pending # {}

\* The final receipt can be trusted.  "succeeded" and "stale": every step
\* succeeded, on disk too.  "timed_out" and "canceled": it was the caller's
\* context that ended, never the cancellation with which fail-fast stops the
\* siblings of a failed step.  Any final receipt settles every step.
ReceiptTruthful ==
    /\ receipt \in {"succeeded", "stale"} =>
          \A s \in Steps : disk[s] = "succeeded"
    /\ receipt = "timed_out" => outer = "deadline"
    /\ receipt = "canceled" => outer = "canceled"
    /\ receipt # "running" /\ returned # "cycle" =>
          \A s \in Steps : disk[s] \in Settled

\* The loop is a way of running the steps in dependency order.
DagOf(v) == IF v = "pending" THEN "waiting"
            ELSE IF v \in Blocking \ {"skipped"} THEN "unsuccessful" ELSE v
DagState == [s \in Steps |-> DagOf(status[s])]
dag == INSTANCE CiDag WITH state <- DagState, givenUp <- fatal

ImplementsDag == dag!Spec

\* Once the context is over, for whatever reason and whatever the commands do,
\* execute joins its goroutines and returns.
CancelledRunReturns == ctx # "live" ~> pc = "ended"

\* If every command ends, so does the run.
RunReturns == <>(pc = "ended")

=============================================================================
