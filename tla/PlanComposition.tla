--------------------------- MODULE PlanComposition ---------------------------
(***************************************************************************)
(* One `dva up|down|stop|restart|status` of a composition plan: the        *)
(* CompositionOrchestrator over its children                               *)
(* (internal/lifecycle/composition_orchestrator.go, the restart loop of    *)
(* internal/cli/composition_restart.go) and, inside a child, the           *)
(* Orchestrator over its entries (internal/lifecycle/orchestrator.go).     *)
(*                                                                         *)
(* One process, no lock and no file: what it knows of a child is what the  *)
(* plugins answer.  An entry is one service, running or not.  Every plugin *)
(* call may fail, in part too; services die; the caller may cancel.        *)
(***************************************************************************)
EXTENDS PlanWaves, Sequences

CONSTANTS
    Order,          \* Order[c]: the order field of composes[c]
    NumEntries,     \* NumEntries[c]: stack entries of the child's plan
    Checked,        \* entries with health checks
    Native,         \* entries run by the process plugin, which have a PID file
    FirstUp,        \* the sets of services that may be up when the command starts
    FullGraphs,     \* bound: on the other graphs only `status` is asked
    MaxDeaths       \* bound: services that die during the command

EntriesOf(c) == {<<c, e>> : e \in 1..NumEntries[c]}
Services == UNION {EntriesOf(c) : c \in Children}

ASSUME CompositionAssumption ==
    /\ Order \in [Children -> Nat]
    /\ NumEntries \in [Children -> Nat \ {0}]
    /\ Checked \subseteq Services /\ Native \subseteq Services
    /\ FirstUp \subseteq SUBSET Services
    /\ MaxDeaths \in Nat

Verbs == {"up", "down", "stop", "restart", "status"}

VARIABLES
    plan,       \* resolved.Entries: the children in the order they are run
    running,    \* the services that run
    deaths,     \* how many died so far
    ctxDone,    \* the caller's context is canceled
    cmd,        \* the command and where it is
    probe,      \* waitEntryReady: the answer in resultsCh, the deadline
    succeeded,  \* Up: children whose up succeeded, in that order
    row,        \* row[c]: report.Children[c].State
    outcome,    \* report.Outcome, none before the report exists
    seen        \* history, for the properties: see NothingSeen

vars == <<wavesVars, plan, running, deaths, ctxDone, cmd, probe, succeeded, row,
          outcome, seen>>
quiet == <<wavesVars, plan, deaths, ctxDone>>

\* What befell the services during the command: touched by a plugin's Up, left
\* out of a status answer, passed over for want of their source, not taken down
\* by a down that failed; the children accepted as ready; how an up failed.
NothingSeen == [touched |-> {}, unread |-> {}, sourceless |-> {}, stuck |-> {},
                accepted |-> {}, primary |-> "none"]

NoProbe == [answer |-> "none", expired |-> FALSE]

Steps == {"resolve", "up", "ready", "query", "decide", "down", "done"}

TypeOK ==
    /\ running \subseteq Services /\ deaths \in Nat /\ ctxDone \in BOOLEAN
    /\ cmd.verb \in Verbs /\ cmd.step \in Steps /\ cmd.undo \in BOOLEAN
    /\ cmd.step \notin {"resolve", "done"} =>
         /\ cmd.pos \in DOMAIN (IF cmd.undo THEN succeeded ELSE plan)
         /\ cmd.entry \in Nat
    /\ probe \in [answer : {"none", "ready", "unready"}, expired : BOOLEAN]
    /\ row \in [Children -> {"up", "failed", "rolled_back", "rollback_failed", "not_started"}]
    /\ outcome \in {"none", "up", "down", "failed"}

Init ==
    /\ WavesInit
    /\ plan = <<>> /\ running \in FirstUp /\ deaths = 0 /\ ctxDone \in BOOLEAN
    /\ \E v \in Verbs, nw \in BOOLEAN, nr \in BOOLEAN :
         /\ deps \in FullGraphs \/ (v = "status" /\ running = {} /\ ~ctxDone)
         /\ nw => v \in {"up", "restart"}
         /\ nr => v = "up"
         /\ v = "down" => ~ctxDone
         /\ cmd = [verb |-> v, noWait |-> nw, noRollback |-> nr, step |-> "resolve",
                   undo |-> FALSE, pos |-> 0, entry |-> 0, up |-> FALSE, err |-> FALSE]
    /\ probe = NoProbe /\ succeeded = <<>>
    /\ row = [c \in Children |-> "not_started"]
    /\ outcome = "none" /\ seen = NothingSeen

-----------------------------------------------------------------------------
(* Resolution *)

\* Faulty: sorted by order and name alone.
BeforeByOrder(a, b) == Order[a] < Order[b] \/ (Order[a] = Order[b] /\ a <= b)

\* sort.Slice by wave, then order, then name.
Before(a, b) ==
    \/ wave[a] < wave[b]
    \/ wave[a] = wave[b] /\ Order[a] < Order[b]
    \/ wave[a] = wave[b] /\ Order[a] = Order[b] /\ a <= b

Sorted(p) == \A i, j \in DOMAIN p : i < j => p[i] # p[j] /\ Before(p[i], p[j])

ThisOne == (IF cmd.undo THEN succeeded ELSE plan)[cmd.pos]
Here == <<ThisOne, cmd.entry>>

Go(c, step) == [c EXCEPT !.step = step]
Over(c) == Go(c, "done")

\* The first entry of the child at position i, going up; the last, going down.
UpAt(c, i) == [c EXCEPT !.step = "up", !.pos = i, !.entry = 1]
ReadyAt(c, i) == [c EXCEPT !.step = "ready", !.pos = i, !.entry = 1]
QueryAt(c, i) == [c EXCEPT !.step = "query", !.pos = i]
DownAt(c, i) == [c EXCEPT !.step = "down", !.pos = i, !.err = FALSE,
                          !.entry = NumEntries[(IF c.undo THEN succeeded ELSE plan)[i]]]

Resolved ==
    /\ cmd.step = "resolve" /\ waves # "running"
    /\ IF waves # "ok" THEN cmd' = Over(cmd) /\ UNCHANGED <<plan, outcome>>
       ELSE \E p \in [1..Cardinality(Children) -> Children] :
              /\ Sorted(p)
              /\ plan' = p
              /\ outcome' = IF cmd.verb \in {"down", "stop"} THEN "down" ELSE "up"
              /\ cmd' = CASE cmd.verb = "up" -> UpAt(cmd, 1)
                          [] cmd.verb = "restart" ->
                               [Go(cmd, "down") EXCEPT !.pos = 1, !.entry = NumEntries[p[1]]]
                          [] cmd.verb = "status" -> QueryAt(cmd, 1)
                          [] OTHER -> QueryAt(cmd, Len(p))
    /\ UNCHANGED <<wavesVars, deaths, ctxDone, running, probe, succeeded, row, seen>>

-----------------------------------------------------------------------------
(* Up, and the failure of an Up or of a restart *)

SameWave(i, j) == wave[plan[i]] = wave[plan[j]]
WaveStart(i) == CHOOSE j \in DOMAIN plan :
    SameWave(i, j) /\ \A k \in DOMAIN plan : SameWave(i, k) => j <= k

\* The wave of position i is complete.
NextWave(i) == IF i = Len(plan) THEN Over(cmd) ELSE UpAt(cmd, i + 1)

\* Faulty: nobody waits for a wave.
AfterUpUngated(i) == NextWave(i)

AfterUp(i) ==
    IF i < Len(plan) /\ SameWave(i, i + 1) THEN UpAt(cmd, i + 1)
    ELSE IF cmd.noWait THEN NextWave(i) ELSE ReadyAt(cmd, WaveStart(i))
AfterReady(i) ==
    IF i < Len(plan) /\ SameWave(i, i + 1) THEN ReadyAt(cmd, i + 1) ELSE NextWave(i)

\* The restart loop goes on with the next child.
NextRestart == IF cmd.pos = Len(plan) THEN Over(cmd) ELSE DownAt(cmd, cmd.pos + 1)

\* What had come up is taken down from the last to the first.
RollbackFrom(list) ==
    IF cmd.noRollback \/ list = <<>> THEN Over(cmd)
    ELSE [Go(cmd, "down") EXCEPT !.undo = TRUE, !.pos = Len(list), !.err = FALSE,
                                 !.entry = NumEntries[list[Len(list)]]]

\* Faulty: the child whose readiness failed is forgotten.
FailAtDropped(c, list) ==
    /\ row' = [row EXCEPT ![c] = "failed"]
    /\ outcome' = "failed"
    /\ succeeded' = SelectSeq(list, LAMBDA x : x # c)
    /\ cmd' = IF cmd.verb = "restart" THEN Over(cmd) ELSE RollbackFrom(succeeded')

\* The wave, or the restart, failed at this child.
FailAt(c, list) ==
    /\ row' = [row EXCEPT ![c] = "failed"]
    /\ outcome' = "failed"
    /\ succeeded' = list
    /\ cmd' = IF cmd.verb = "restart" THEN Over(cmd) ELSE RollbackFrom(list)

UpFails ==
    /\ cmd.step = "up"
    /\ \E part \in SUBSET {Here} :
         /\ ctxDone => part = {}
         /\ running' = running \cup part
         /\ seen' = [seen EXCEPT !.primary = "up", !.touched = @ \cup part]
    /\ FailAt(ThisOne, succeeded)
    /\ UNCHANGED <<quiet, probe>>

\* plugin.Up of one entry; it is a no-op when the service runs already.
UpEntry ==
    /\ cmd.step = "up" /\ ~ctxDone
    /\ running' = running \cup {Here}
    /\ seen' = [seen EXCEPT !.touched = @ \cup {Here}]
    /\ \/ /\ cmd.entry < NumEntries[ThisOne]
          /\ cmd' = [cmd EXCEPT !.entry = @ + 1]
          /\ UNCHANGED <<succeeded, row>>
       \/ /\ cmd.entry = NumEntries[ThisOne] /\ cmd.verb = "up"
          /\ row' = [row EXCEPT ![ThisOne] = "up"]
          /\ succeeded' = Append(succeeded, ThisOne)
          /\ cmd' = AfterUp(cmd.pos)
       \/ /\ cmd.entry = NumEntries[ThisOne] /\ cmd.verb = "restart"
          /\ row' = IF cmd.noWait THEN [row EXCEPT ![ThisOne] = "up"] ELSE row
          /\ cmd' = IF cmd.noWait THEN NextRestart ELSE ReadyAt(cmd, cmd.pos)
          /\ UNCHANGED succeeded
    /\ UNCHANGED <<quiet, probe, outcome>>

-----------------------------------------------------------------------------
(* WaitReady: waitEntriesReady and waitEntryReady *)

WaitEnded == ctxDone \/ probe.expired

\* This entry is ready, or has no checks: the next entry, or the child is.
EntryReady ==
    /\ probe' = NoProbe
    /\ IF cmd.entry < NumEntries[ThisOne]
       THEN /\ cmd' = [cmd EXCEPT !.entry = @ + 1]
            /\ UNCHANGED <<row, seen>>
       ELSE /\ seen' = [seen EXCEPT !.accepted = @ \cup {ThisOne}]
            /\ IF cmd.verb = "restart"
               THEN row' = [row EXCEPT ![ThisOne] = "up"] /\ cmd' = NextRestart
               ELSE row' = row /\ cmd' = AfterReady(cmd.pos)
    /\ UNCHANGED <<quiet, running, succeeded, outcome>>

NotReady ==
    /\ probe' = NoProbe
    /\ seen' = [seen EXCEPT !.primary = "ready"]
    /\ FailAt(ThisOne, succeeded)
    /\ UNCHANGED <<quiet, running>>

NoChecks == cmd.step = "ready" /\ Here \notin Checked /\ EntryReady

\* The polling goroutine answers once: when all checks pass, or with what it
\* has when the wait is over.
Probe ==
    /\ cmd.step = "ready" /\ Here \in Checked /\ probe.answer = "none"
    /\ \/ Here \in running /\ probe' = [probe EXCEPT !.answer = "ready"]
       \/ WaitEnded /\ probe' = [probe EXCEPT !.answer = "unready"]
    /\ UNCHANGED <<quiet, running, cmd, succeeded, row, outcome, seen>>

Expire ==
    /\ cmd.step = "ready" /\ Here \in Checked /\ ~probe.expired
    /\ probe' = [probe EXCEPT !.expired = TRUE]
    /\ UNCHANGED <<quiet, running, cmd, succeeded, row, outcome, seen>>

\* The select of waitEntryReady.  An answer that races the cancellation or the
\* deadline counts for nothing.
TakeAnswer ==
    /\ cmd.step = "ready" /\ probe.answer # "none"
    /\ IF probe.answer = "ready" /\ ~WaitEnded THEN EntryReady ELSE NotReady

\* Faulty: a wait without a deadline of its own.
WaitOverOnCancel == cmd.step = "ready" /\ Here \in Checked /\ ctxDone /\ NotReady

\* The wait is over before an answer came.
WaitOver == cmd.step = "ready" /\ Here \in Checked /\ WaitEnded /\ NotReady

\* The ticker looks at the PID file of a native entry, which may be missing.
Liveness == cmd.step = "ready" /\ Here \in Checked \cap Native /\ Here \notin running /\ NotReady

ExecutorFails == cmd.step = "ready" /\ cmd.entry = 1 /\ probe = NoProbe /\ NotReady

-----------------------------------------------------------------------------
(* Down and Stop of one child: its entries from the last to the first *)

\* The child is down, or its down failed.
ChildDown(err) ==
    LET c == ThisOne
        gone == [row EXCEPT ![c] = IF err THEN "rollback_failed" ELSE "rolled_back"]
    IN  CASE cmd.verb = "restart" ->
               IF err THEN FailAt(c, succeeded)
               ELSE cmd' = UpAt(cmd, cmd.pos) /\ UNCHANGED <<row, outcome, succeeded>>
          [] cmd.verb = "up" ->
               /\ row' = gone
               /\ cmd' = IF cmd.pos = 1 THEN Over(cmd) ELSE DownAt(cmd, cmd.pos - 1)
               /\ UNCHANGED <<outcome, succeeded>>
          [] OTHER ->
               /\ row' = gone
               /\ cmd' = IF cmd.pos = 1 \/ (cmd.verb = "stop" /\ ctxDone) THEN Over(cmd)
                         ELSE QueryAt(cmd, cmd.pos - 1)
               /\ outcome' = IF err \/ (cmd.verb = "stop" /\ ctxDone) THEN "failed" ELSE outcome
               /\ UNCHANGED succeeded

\* Down runs outside the caller's context, also during a rollback; Stop, and
\* the Stop of a restart, look at it before every entry and at the end.
StopsOnCancel == ctxDone /\ cmd.verb \in {"stop", "restart"}

\* The child's orchestrator cannot be built, or a tunnel cannot be opened.
DownFailsWhole ==
    /\ cmd.step = "down" /\ cmd.entry = NumEntries[ThisOne] /\ ~cmd.err
    /\ seen' = [seen EXCEPT !.stuck = @ \cup EntriesOf(ThisOne)]
    /\ ChildDown(TRUE)
    /\ UNCHANGED <<quiet, running, probe>>

DownEntry ==
    /\ cmd.step = "down" /\ ~StopsOnCancel /\ cmd.entry > 0
    /\ \/ running' = running \ {Here} /\ UNCHANGED seen
          /\ cmd' = [cmd EXCEPT !.entry = @ - 1]
       \/ seen' = [seen EXCEPT !.sourceless = @ \cup {Here}] /\ UNCHANGED running
          /\ cmd' = [cmd EXCEPT !.entry = @ - 1]
       \/ seen' = [seen EXCEPT !.stuck = @ \cup {Here}]
          /\ running' \in {running, running \ {Here}}
          /\ cmd' = [cmd EXCEPT !.entry = @ - 1, !.err = TRUE]
    /\ UNCHANGED <<quiet, probe, row, outcome, succeeded>>

\* Faulty: the failures of the entries are only logged.
DownEndsClean ==
    /\ cmd.step = "down"
    /\ cmd.entry = 0 \/ StopsOnCancel
    /\ ChildDown(FALSE)
    /\ UNCHANGED <<quiet, running, probe, seen>>

DownEnds ==
    /\ cmd.step = "down"
    /\ cmd.entry = 0 \/ StopsOnCancel
    /\ ChildDown(cmd.err \/ StopsOnCancel)
    /\ UNCHANGED <<quiet, running, probe, seen>>

-----------------------------------------------------------------------------
(* IsUp, and what down, stop and status make of it *)

\* The command ends early because its context is canceled.
Withdraw ==
    /\ cmd.step \in {"query", "decide"} /\ ctxDone
    /\ outcome' = "failed" /\ cmd' = Over(cmd)
    /\ UNCHANGED <<quiet, running, probe, succeeded, row, seen>>

\* Orchestrator.Status: a plugin's error only leaves its services out.
StatusOf(c, unread) == (EntriesOf(c) \ unread) \cap running

\* An error of the whole query counts as up.
Query ==
    /\ cmd.step = "query" /\ ~ctxDone
    /\ \E unread \in SUBSET EntriesOf(ThisOne), err \in BOOLEAN :
         /\ err => unread = {}
         /\ seen' = [seen EXCEPT !.unread = @ \cup unread]
         /\ cmd' = [Go(cmd, "decide") EXCEPT !.err = err,
                                             !.up = ~err /\ StatusOf(ThisOne, unread) # {}]
    /\ UNCHANGED <<quiet, running, probe, succeeded, row, outcome>>

NextQuery == IF cmd.pos = 1 THEN Over(cmd) ELSE QueryAt(cmd, cmd.pos - 1)

TearDown ==
    /\ cmd.step = "decide" /\ cmd.verb \in {"down", "stop"} /\ ~ctxDone
    /\ cmd' = IF cmd.up \/ cmd.err THEN DownAt(cmd, cmd.pos) ELSE NextQuery
    /\ UNCHANGED <<quiet, running, probe, succeeded, row, outcome, seen>>

ReportStatus ==
    /\ cmd.step = "decide" /\ cmd.verb = "status" /\ ~ctxDone
    /\ row' = [row EXCEPT ![ThisOne] =
                  IF cmd.err THEN "failed" ELSE IF cmd.up THEN "up" ELSE "not_started"]
    /\ cmd' = IF cmd.pos = Len(plan) THEN Over(cmd) ELSE QueryAt(cmd, cmd.pos + 1)
    /\ outcome' = IF row'[ThisOne] = "up" THEN outcome ELSE "failed"
    /\ UNCHANGED <<quiet, running, probe, succeeded, seen>>

-----------------------------------------------------------------------------
(* The environment, and the whole *)

Die(s) ==
    /\ s \in running /\ deaths < MaxDeaths /\ cmd.step # "done"
    /\ running' = running \ {s} /\ deaths' = deaths + 1
    /\ UNCHANGED <<wavesVars, plan, ctxDone, cmd, probe, succeeded, row, outcome, seen>>

\* `dva down` runs under context.Background().
Cancel ==
    /\ ~ctxDone /\ cmd.verb # "down" /\ cmd.step \notin {"resolve", "done"}
    /\ ctxDone' = TRUE
    /\ UNCHANGED <<wavesVars, plan, deaths, running, cmd, probe, succeeded, row, outcome, seen>>

Resolve == WavesNext /\ UNCHANGED <<plan, running, deaths, ctxDone, cmd, probe,
                                    succeeded, row, outcome, seen>>

Work ==
    \/ Resolve \/ Resolved
    \/ UpEntry \/ UpFails
    \/ NoChecks \/ Expire \/ TakeAnswer \/ WaitOver
    \/ DownEntry \/ DownFailsWhole \/ DownEnds
    \/ Withdraw \/ Query \/ TearDown \/ ReportStatus

Next ==
    \/ Work \/ Probe \/ Liveness \/ ExecutorFails
    \/ (\E s \in Services : Die(s)) \/ Cancel

Spec == Init /\ [][Next]_vars

\* Every plugin call returns and the deadline passes; a health check may never
\* answer and no service need ever die.
FairSpec == Spec /\ WF_vars(Work)

-----------------------------------------------------------------------------
(* Properties *)

Done == cmd.step = "done" /\ waves = "ok"
InHand == IF cmd.step \in {"resolve", "done"} THEN {} ELSE {ThisOne}

\* What a report says of a child is true of its services
\* (composition_orchestrator.go:231, 342): a child that was taken down has no
\* service left, but for entries whose source is missing; a child reported as
\* not started was not touched.
ReportTruthful ==
    /\ \A c \in Children : row[c] = "rolled_back" => EntriesOf(c) \cap running \subseteq seen.sourceless
    /\ cmd.verb = "up" =>
         \A c \in Children \ InHand :
            row[c] = "not_started" => EntriesOf(c) \cap seen.touched = {}

\* A failed `up` accounts for everything it started
\* (composition_orchestrator.go:231): whatever still runs belongs to the one
\* child whose own up failed half way, or resisted its down.  That holds after a
\* cancellation too, and for the child whose readiness check failed.  `down` goes on
\* to the end whatever fails on the way (297): what still runs resisted, has no
\* source, or could not be seen.
LeftoversAccounted ==
    /\ Done /\ cmd.verb = "up" /\ outcome = "failed" /\ ~cmd.noRollback =>
         \A c \in Children :
            \/ row[c] = "failed" /\ seen.primary = "up"
            \/ EntriesOf(c) \cap seen.touched \cap running \subseteq seen.stuck \cup seen.sourceless
    /\ Done /\ cmd.verb = "down" => running \subseteq seen.stuck \cup seen.sourceless \cup seen.unread

\* `down` and `stop` take a child down only after everything that depends on it
\* (composition_orchestrator.go:302).
TeardownOrder ==
    [][cmd.step = "down" /\ cmd.verb \in {"down", "stop"} /\ cmd' # cmd =>
        \A c \in Children : EntriesOf(c) \cap (running \ running') # {} =>
            \A d \in Dependents(c) :
                EntriesOf(d) \cap running \subseteq seen.stuck \cup seen.sourceless \cup seen.unread]_vars

\* No command hangs: a readiness check that never answers ends with its
\* deadline (composition_orchestrator.go:598), a rollback with its last child.
CommandEnds == <>(cmd.step = "done")

-----------------------------------------------------------------------------
(* Up is a saga over the dependencies *)

CameUp == {succeeded[i] : i \in DOMAIN succeeded}

SagaState == [c \in Children |->
    IF cmd.verb # "up" \/ c \notin CameUp THEN "idle"
    ELSE IF row[c] = "rolled_back" THEN "undone"
    ELSE IF row[c] = "rollback_failed" THEN "stuck"
    ELSE IF c \in seen.accepted THEN "ready" ELSE "started"]

SagaPhase ==
    IF cmd.verb # "up" THEN "forward" ELSE IF Done THEN "over"
    ELSE IF cmd.undo THEN "undo" ELSE "forward"

Saga == INSTANCE CompositionSaga WITH
    gated <- ~cmd.noWait, keep <- cmd.noRollback, st <- SagaState, phase <- SagaPhase

\* Up implements the saga: a child starts only when everything it depends on is
\* up and, unless --no-wait, ready; after a failure nothing starts, and what came
\* up is taken down dependents first, each child once.
ImplementsSaga == Saga!Spec

=============================================================================
