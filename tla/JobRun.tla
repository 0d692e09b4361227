------------------------------- MODULE JobRun -------------------------------
(***************************************************************************)
(* Remote artifact jobs (internal/jobrun/runtime.go, state.go): `job run`  *)
(* pushes the job's secrets if asked to (internal/cli/remote.go), then     *)
(* dispatches one GitHub workflow run per entry of its receipt; `job run   *)
(* --wait`, `job status`, `job resume` and `job verify` read those runs    *)
(* back into the receipt.                                                  *)
(*                                                                         *)
(* Every rewrite of the receipt happens under a flock that is not waited   *)
(* for: whoever finds it taken fails.  A dispatch is sent once; its answer *)
(* may be lost.  Meanwhile the branch moves, runs end, and their owner     *)
(* runs them again.                                                        *)
(***************************************************************************)
EXTENDS SecretPush, Sequences

CONSTANTS
    Entries,    \* the runs of the job, 1..n
    Imaged,     \* those that declare images
    Before,     \* the pushes of the job's secret targets, in order
    Runner,     \* the process of `job run`
    Watchers,   \* processes of `job status`, `resume` and `verify`
    Casts       \* bound: the sets of watchers and other pushes that take part

Actors == Watchers \cup {Runner}
Alone == Pushes \ {Before[j] : j \in DOMAIN Before}

ASSUME JobAssumption ==
    /\ Entries = 1..Cardinality(Entries) /\ IsFiniteSet(Entries) /\ Entries # {}
    /\ Imaged \subseteq Entries
    /\ Before \in Seq(Pushes)
    /\ Runner \notin Watchers /\ Nobody \notin Actors
    /\ Casts \subseteq SUBSET (Watchers \cup Alone)

VARIABLES
    jobReceipt, \* jobReceipt[i]: the entry on disk
    rlock,      \* the process that holds the receipt's lock
    cast,       \* who takes part
    actor,      \* actor[a]: the command a executes
    dispatching,    \* dispatches on their way
    head,       \* commits the branch got since the receipt took its head SHA
    remote,     \* remote[i]: the workflow run of entry i
    first       \* history: first[i], how its first attempt ended

jobVars == <<cast, jobReceipt, rlock, actor, dispatching, head, remote, first>>
github == <<cast, dispatching, head, remote, first>>
remoteVars == <<pushVars, jobVars>>

NoEntry == [state |-> "none", status |-> "none", verified |-> FALSE]
NoRun == [status |-> "none", attempt |-> 0, head |-> 0]

JobTypeOK ==
    /\ PushTypeOK
    /\ LET Entry == [state : {"none", "not_started", "unknown_dispatch", "dispatched"},
                     status : {"none", "running", "success", "failure"}, verified : BOOLEAN]
       IN /\ jobReceipt \in [Entries -> Entry]
          /\ \A a \in Actors : actor[a].copy \in [Entries -> Entry]
    /\ rlock \in Actors \cup {Nobody}
    /\ \A a \in Actors : actor[a].at \in Entries \cup {0}
    /\ dispatching \subseteq Entries /\ head \in 0..1
    /\ remote \in [Entries -> [status : {"none", "running", "success", "failure"},
                               attempt : 0..2, head : 0..1]]
    /\ first \in [Entries -> {"none", "success", "failure"}]

\* A command: poll says it is to wait for the end, verify that it checks images.
Command(verb, poll, verify) ==
    [pc |-> "idle", verb |-> verb, poll |-> poll, verify |-> verify, at |-> 0,
     copy |-> [i \in Entries |-> NoEntry], ok |-> FALSE]

Commands ==
    {Command("run", FALSE, FALSE), Command("run", TRUE, FALSE), Command("run", TRUE, TRUE),
     Command("status", FALSE, FALSE), Command("resume", TRUE, FALSE), Command("resume", TRUE, TRUE),
     Command("verify", FALSE, TRUE)}

JobInit ==
    /\ PushInit /\ cast \in Casts
    /\ jobReceipt = [i \in Entries |-> NoEntry]
    /\ rlock = Nobody /\ dispatching = {} /\ head = 0
    /\ remote = [i \in Entries |-> NoRun]
    /\ first = [i \in Entries |-> "none"]
    /\ actor \in [Actors -> Commands]
    /\ \A a \in Actors : actor[a].verb = "run" <=> a = Runner
    \* bounds: an absent watcher has no choice; with another push about, no wait
    /\ \A a \in Watchers \ cast : actor[a] = Command("status", FALSE, FALSE)
    /\ Alone \cap cast # {} => ~actor[Runner].poll

-----------------------------------------------------------------------------
(* Commands and the receipt *)

Set(a, c) == actor' = [actor EXCEPT ![a] = c]
Goto(a, pc) == [actor[a] EXCEPT !.pc = pc]
Ended(a, good) == [Goto(a, "ended") EXCEPT !.ok = good, !.at = 0,
                                           !.copy = [i \in Entries |-> NoEntry]]

Fails(a) == Set(a, Ended(a, FALSE))

\* Faulty: the receipt is the one read before the lock was asked for.
TakeStale(a, c) ==
    IF rlock = Nobody THEN rlock' = a /\ Set(a, [c EXCEPT !.copy = actor[a].copy])
    ELSE Fails(a) /\ UNCHANGED rlock

\* withReceiptLock: takes the lock and reads the receipt again, or fails.
Take(a, c) ==
    IF rlock = Nobody THEN rlock' = a /\ Set(a, [c EXCEPT !.copy = jobReceipt])
    ELSE Fails(a) /\ UNCHANGED rlock

\* writeReceipt and the release of the lock; a failed write may have replaced
\* the receipt all the same.
SaveReceipt(a, entries, c) ==
    /\ rlock' = Nobody
    /\ \/ jobReceipt' = entries /\ Set(a, c)
       \/ jobReceipt' \in {jobReceipt, entries} /\ Fails(a)

-----------------------------------------------------------------------------
(* job run *)

Entry(i) == actor[Runner].at = i

\* HeadSHA and the workflows are looked up, then the receipt is first written.
CreateReceipt ==
    /\ actor[Runner].pc = "idle"
    /\ LET fresh == [i \in Entries |-> [NoEntry EXCEPT !.state = "not_started"]]
       IN \/ jobReceipt' = fresh /\ Set(Runner, [Goto(Runner, "secrets") EXCEPT !.at = 1])
          \/ jobReceipt' \in {jobReceipt, fresh} /\ Fails(Runner)
    /\ UNCHANGED <<rlock, github, pushVars>>

Pending == {j \in DOMAIN Before : push[Before[j]].pc # "ok"}

\* BeforeDispatch: the pushes one after the other, up to the first that fails.
PushSecrets ==
    /\ actor[Runner].pc = "secrets" /\ Pending # {}
    /\ LET p == Before[Min(Pending)]
       IN \/ (Invoke(p) \/ Pushing(p)) /\ UNCHANGED jobVars
          \/ push[p].pc = "failed" /\ Fails(Runner)
             /\ UNCHANGED <<pushVars, jobReceipt, rlock, github>>

SecretsDone == Pending = {}

MarkEntry ==
    /\ \/ actor[Runner].pc = "secrets" /\ SecretsDone
       \/ actor[Runner].pc = "next"
    /\ Take(Runner, Goto(Runner, "marked"))
    /\ UNCHANGED <<jobReceipt, github, pushVars>>

\* Faulty: the entry is marked only once it is dispatched.
UnknownUnsaved ==
    /\ actor[Runner].pc = "marked"
    /\ rlock' = Nobody /\ Set(Runner, Goto(Runner, "dispatch"))
    /\ UNCHANGED <<jobReceipt, github, pushVars>>

SaveUnknown ==
    /\ actor[Runner].pc = "marked"
    /\ SaveReceipt(Runner, [actor[Runner].copy EXCEPT ![actor[Runner].at].state = "unknown_dispatch"],
            Goto(Runner, "dispatch"))
    /\ UNCHANGED <<github, pushVars>>

Dispatch ==
    /\ actor[Runner].pc = "dispatch"
    /\ dispatching' = dispatching \cup {actor[Runner].at}
    /\ Set(Runner, Goto(Runner, "answer"))
    /\ UNCHANGED <<jobReceipt, rlock, cast, head, remote, first, pushVars>>

\* gh could not be run, failed, timed out or gave no run ID.
NoAnswer ==
    /\ actor[Runner].pc \in {"dispatch", "answer"}
    /\ Fails(Runner)
    /\ UNCHANGED <<jobReceipt, rlock, github, pushVars>>

Answer ==
    /\ actor[Runner].pc = "answer" /\ remote[actor[Runner].at] # NoRun
    /\ Take(Runner, Goto(Runner, "known"))
    /\ UNCHANGED <<jobReceipt, github, pushVars>>

SaveDispatched ==
    /\ actor[Runner].pc = "known"
    /\ LET i == actor[Runner].at
           more == i + 1 \in Entries
           waits == actor[Runner].poll
       IN SaveReceipt(Runner, [actor[Runner].copy EXCEPT ![i].state = "dispatched"],
               CASE more -> [Goto(Runner, "next") EXCEPT !.at = i + 1]
                 [] ~more /\ waits -> Goto(Runner, "look")
                 [] OTHER -> Ended(Runner, TRUE))
    /\ UNCHANGED <<github, pushVars>>

-----------------------------------------------------------------------------
(* refresh, and the commands that call it *)

\* The receipt is read once before the lock, to know that there is one.
Look(a) ==
    /\ actor[a].pc = "look" \/ (actor[a].pc = "idle" /\ a \in cast)
    /\ IF jobReceipt[1] = NoEntry THEN Fails(a) ELSE Set(a, [Goto(a, "lock") EXCEPT !.copy = jobReceipt])
    /\ UNCHANGED <<jobReceipt, rlock, github, pushVars>>

TakeReceipt(a) ==
    /\ actor[a].pc = "lock"
    /\ Take(a, [Goto(a, "entry") EXCEPT !.at = 1])
    /\ UNCHANGED <<jobReceipt, github, pushVars>>

\* On to the next entry, or to the write.
After(c) == IF c.at + 1 \in Entries THEN [c EXCEPT !.pc = "entry", !.at = @ + 1] ELSE [c EXCEPT !.pc = "save"]
Put(c, e) == [c EXCEPT !.copy[c.at] = e]
Bad(c) == [c EXCEPT !.pc = "saveBad"]

\* Faulty: any attempt will do.
MatchesAnyAttempt(i) == remote[i].head = 0

\* validateRemote: the first attempt, of the commit the receipt names.
Matches(i) == remote[i].attempt = 1 /\ remote[i].head = 0

ReadEntry(a) ==
    /\ actor[a].pc = "entry"
    /\ LET c == actor[a]
           i == c.at
           e == IF c.verify THEN [c.copy[i] EXCEPT !.verified = FALSE] ELSE c.copy[i]
           s == remote[i].status
           seen == [e EXCEPT !.status = s, !.verified = @ /\ s = "success"]
       IN \/ Set(a, Bad(Put(c, e)))                 \* no run ID, or the request failed
          \/ /\ e.state = "dispatched"
             /\ CASE ~Matches(i) -> Set(a, Bad(Put(c, [e EXCEPT !.verified = FALSE])))
                  [] Matches(i) /\ c.verify /\ i \in Imaged /\ s = "success" ->
                       Set(a, [Put(c, seen) EXCEPT !.pc = "artifact"])
                  [] Matches(i) /\ c.verify /\ i \in Imaged /\ s = "failure" -> Set(a, Bad(Put(c, seen)))
                  [] OTHER -> Set(a, After(Put(c, seen)))
    /\ UNCHANGED <<jobReceipt, rlock, github, pushVars>>

\* The result artifact and the images of the registry agree, or something fails.
VerifyArtifact(a) ==
    /\ actor[a].pc = "artifact"
    /\ LET c == actor[a]
       IN Set(a, Bad(c)) \/ Set(a, After(Put(c, [c.copy[c.at] EXCEPT !.verified = TRUE])))
    /\ UNCHANGED <<jobReceipt, rlock, github, pushVars>>

SaveBad(a) ==
    /\ actor[a].pc = "saveBad"
    /\ SaveReceipt(a, actor[a].copy, Ended(a, FALSE))
    /\ UNCHANGED <<github, pushVars>>

AllComplete(r) == \A i \in Entries : r[i].state = "dispatched" /\ r[i].status \in {"success", "failure"}
AllSucceeded(r) == \A i \in Entries : r[i].status = "success"

\* poll goes round until all is complete, canceled or out of time; `verify`
\* wants all of it at once.
Verdict(c) ==
    CASE c.poll /\ AllComplete(c.copy) -> IF AllSucceeded(c.copy) THEN {"ok"} ELSE {"failed"}
      [] c.poll /\ ~AllComplete(c.copy) -> {"again", "failed"}
      [] c.verb = "verify" -> IF AllSucceeded(c.copy) /\ \A i \in Imaged : c.copy[i].verified
                              THEN {"ok"} ELSE {"failed"}
      [] OTHER -> {"ok"}

SaveEntries(a) ==
    /\ actor[a].pc = "save"
    /\ \E v \in Verdict(actor[a]) :
         SaveReceipt(a, actor[a].copy,
              IF v = "again" THEN [Goto(a, "look") EXCEPT !.copy = [i \in Entries |-> NoEntry]]
              ELSE Ended(a, v = "ok"))
    /\ UNCHANGED <<github, pushVars>>

Refresh(a) ==
    Look(a) \/ TakeReceipt(a) \/ ReadEntry(a) \/ VerifyArtifact(a) \/ SaveBad(a) \/ SaveEntries(a)

-----------------------------------------------------------------------------
(* Crashes, and what happens at GitHub *)

ActorDies(a) ==
    /\ actor[a].pc \notin {"idle", "ended"}
    /\ Fails(a)
    /\ rlock' = IF rlock = a THEN Nobody ELSE rlock
    /\ UNCHANGED <<jobReceipt, github>>
    /\ IF \E j \in DOMAIN Before : a = Runner /\ push[Before[j]].pc \notin {"idle", "ok", "failed"}
       THEN \E j \in DOMAIN Before : Dies(Before[j])
       ELSE UNCHANGED pushVars

Commit ==
    /\ head = 0 /\ head' = 1
    /\ UNCHANGED <<jobReceipt, rlock, actor, cast, dispatching, remote, first, pushVars>>

\* A dispatch runs the branch as it is by then; or it is lost.
RunStarts(i) ==
    /\ i \in dispatching
    /\ dispatching' = dispatching \ {i}
    /\ remote' \in {remote, [remote EXCEPT ![i] = [status |-> "running", attempt |-> 1, head |-> head]]}
    /\ UNCHANGED <<jobReceipt, rlock, actor, cast, head, first, pushVars>>

RunEnds(i) ==
    /\ remote[i].status = "running"
    /\ \E s \in {"success", "failure"} :
         /\ remote' = [remote EXCEPT ![i].status = s]
         /\ first' = IF remote[i].attempt = 1 THEN [first EXCEPT ![i] = s] ELSE first
    /\ UNCHANGED <<jobReceipt, rlock, actor, cast, dispatching, head, pushVars>>

RunsAgain(i) ==
    /\ remote[i].status \in {"success", "failure"} /\ remote[i].attempt = 1
    /\ remote' = [remote EXCEPT ![i].status = "running", ![i].attempt = 2]
    /\ UNCHANGED <<jobReceipt, rlock, actor, cast, dispatching, head, first, pushVars>>

-----------------------------------------------------------------------------
(* The specification *)

Run == CreateReceipt \/ PushSecrets \/ MarkEntry \/ SaveUnknown \/ Dispatch \/ NoAnswer \/ Answer \/ SaveDispatched

JobNext ==
    \/ Run
    \/ \E a \in Actors : Refresh(a) \/ ActorDies(a)
    \/ \E p \in cast \cap Alone : (Invoke(p) \/ Pushing(p) \/ Dies(p)) /\ UNCHANGED jobVars
    \/ Remote /\ UNCHANGED jobVars
    \/ Commit \/ \E i \in Entries : RunStarts(i) \/ RunEnds(i) \/ RunsAgain(i)

JobSpec == JobInit /\ [][JobNext]_remoteVars

-----------------------------------------------------------------------------
(* Properties *)

AtGitHub(i) == i \in dispatching \/ remote[i] # NoRun

SecretsInPlace ==
    \A j \in DOMAIN Before : \A k \in KeysOf[Before[j]] : secretReceipt[Before[j]][k] = "accepted"

\* Nothing is at GitHub, or on its way there, that the receipts do not own up
\* to, whatever was lost, late or overtaken and whoever crashed; what they call
\* done was done; and no workflow is asked for before all secrets of the job are
\* in place (runtime.go 79-112; docs/62-remote-artifact-jobs.md:110).
NothingUnrecorded ==
    /\ SecretsAccounted /\ OvertakenKnown
    /\ \A i \in Entries :
         /\ AtGitHub(i) => SecretsInPlace /\ jobReceipt[i].state \in {"unknown_dispatch", "dispatched"}
         /\ jobReceipt[i].state = "dispatched" => remote[i] # NoRun

Rank == [none |-> 0, not_started |-> 1, unknown_dispatch |-> 2, dispatched |-> 3]

\* No refresh undoes what `job run` recorded meanwhile, nor the reverse.
ReceiptGrows ==
    [][\A i \in Entries : Rank[jobReceipt[i].state] <= Rank[jobReceipt'[i].state]]_remoteVars

\* "verified" stands for a first attempt that succeeded, on the commit the
\* receipt names; a wait or a verify that succeeds, for all of them
\* (runtime.go 145-157, 178-182, 223-253).
SuccessIsEarned ==
    /\ \A i \in Entries : jobReceipt[i].verified =>
         i \in Imaged /\ first[i] = "success" /\ remote[i].head = 0
    /\ \A a \in Actors : actor[a].ok /\ (actor[a].poll \/ actor[a].verb = "verify") =>
         \A i \in Entries : first[i] = "success" /\ remote[i].head = 0

=============================================================================
