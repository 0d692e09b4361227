------------------------- MODULE CiSchedulerProofs --------------------------
(***************************************************************************)
(* Theorems about CiScheduler, for any finite set of steps, any            *)
(* dependencies, any max_parallel, with and without fail_fast.             *)
(***************************************************************************)
EXTENDS CiScheduler, FiniteSetTheorems, TLAPS

USE SchedulerAssumption

AliveStates == {"spawned", "ready", "command", "sent"}
SettledSteps == {s \in Steps : status[s] \in Settled}

-----------------------------------------------------------------------------
(* The inductive invariant *)

\* What the loop knows of a step agrees with where its goroutine is.
Linked ==
    \A s \in Steps :
        /\ status[s] \in {"pending", "skipped"} <=> worker[s] = "none"
        /\ status[s] = "running" <=> worker[s] \in AliveStates
        /\ worker[s] = "sent" => result[s] \in Results

Counted ==
    /\ running = Cardinality(Alive)
    /\ running <= Max
    /\ complete = Cardinality(SettledSteps)

Recorded ==
    /\ \A s \in Alive : disk[s] = "running"
    /\ ~fatal => disk = status

\* What the scans of this turn have established.
Scanned ==
    /\ pc \in {"start", "wait"} /\ ~fatal => \A s \in Pending : ~Blocked(s)
    /\ pc = "wait" => fatal \/ running >= Max \/ \A s \in Pending : ~Ready(s)

\* Without a failure nothing is ever skipped, whatever Deps looks like.
Clean ==
    ~failed /\ ~fatal =>
        \A s \in Steps : status[s] \in {"pending", "running", "succeeded"}

Ended ==
    /\ pc \in {"done", "ended"} <=> returned # "no"
    /\ returned = "ok" => ~failed /\ ~fatal
    /\ receipt # "running" => pc = "ended"

SchedInv ==
    /\ TypeOK /\ DependencyOrder /\ Linked /\ Counted /\ Recorded
    /\ Scanned /\ Clean /\ Ended
    /\ NothingLeftBehind /\ CycleIsReal /\ ReceiptTruthful

-----------------------------------------------------------------------------
(* Counting *)

LEMMA MaxType == N \in Nat /\ Max \in Nat /\ 1 <= Max /\ Max <= N
<1>1. N \in Nat
  BY FS_CardinalityType DEF N
<1>2. N # 0
  BY FS_EmptySet DEF N
<1> QED
  BY <1>1, <1>2 DEF Max

LEMMA StepSubset ==
    ASSUME NEW S, S \subseteq Steps
    PROVE  /\ IsFiniteSet(S) /\ Cardinality(S) \in Nat /\ Cardinality(S) <= N
           /\ Cardinality(S) = 0 <=> S = {}
           /\ Cardinality(S) = N <=> S = Steps
BY FS_Subset, FS_CardinalityType, FS_EmptySet DEF N

LEMMA OneMore ==
    ASSUME NEW S, S \subseteq Steps, NEW s \in Steps, s \notin S
    PROVE  Cardinality(S \cup {s}) = Cardinality(S) + 1
BY StepSubset, FS_AddElement

LEMMA OneLess ==
    ASSUME NEW S, S \subseteq Steps, NEW s \in S
    PROVE  Cardinality(S \ {s}) = Cardinality(S) - 1
BY StepSubset, FS_RemoveElement

LEMMA Subsets == Alive \subseteq Steps /\ SettledSteps \subseteq Steps /\ Pending \subseteq Steps
BY DEF Alive, SettledSteps, Pending

-----------------------------------------------------------------------------
(* The steps of the goroutines *)

LEMMA ErrorType ==
    ASSUME NEW own \in Results, TypeOK
    PROVE  ErrorUnder(own) \in Results
BY DEF ErrorUnder, Results, TypeOK

\* Whatever a goroutine does, it stays alive and touches nothing but its own
\* progress and its own result.
LEMMA WorkerStep ==
    ASSUME TypeOK, NEW s \in Steps, Worker(s)
    PROVE  /\ worker[s] \in {"spawned", "ready", "command"}
           /\ \E w \in {"ready", "command", "sent"} :
                 /\ worker' = [worker EXCEPT ![s] = w]
                 /\ \/ result' = result /\ w # "sent"
                    \/ \E res \in Results : result' = [result EXCEPT ![s] = res]
           /\ UNCHANGED <<pc, status, disk, running, complete, failed, fatal,
                          outer, ctx, returned, receipt>>
<1>1. CASE Prepare(s)
  BY <1>1 DEF Prepare
<1>2. CASE Launch(s)
  BY <1>2 DEF Launch
<1>3. ASSUME NEW res \in Results, Send(s, res)
      PROVE  /\ worker' = [worker EXCEPT ![s] = "sent"]
             /\ result' = [result EXCEPT ![s] = res]
             /\ UNCHANGED <<pc, status, disk, running, complete, failed, fatal,
                            outer, ctx, returned, receipt>>
  BY <1>3 DEF Send
<1>4. CASE Replay(s)
  BY <1>3, <1>4 DEF Replay, Results
<1>5. CASE LaunchFails(s)
  BY <1>3, <1>5, ErrorType DEF LaunchFails, Results
<1>6. CASE Exit(s)
  BY <1>3, <1>6, ErrorType DEF Exit, Results
<1>7. CASE Kill(s)
  BY <1>3, <1>7, ErrorType DEF Kill, Results
<1> QED
  BY <1>1, <1>2, <1>4, <1>5, <1>6, <1>7 DEF Worker

LEMMA WorkerKeeps ==
    ASSUME SchedInv, NEW s \in Steps, Worker(s)
    PROVE  SchedInv'
<1>1. TypeOK /\ Linked
  BY DEF SchedInv
<1>2. PICK w \in {"ready", "command", "sent"} :
         /\ worker' = [worker EXCEPT ![s] = w]
         /\ \/ result' = result /\ w # "sent"
            \/ \E res \in Results : result' = [result EXCEPT ![s] = res]
  BY <1>1, WorkerStep
<1>3. /\ worker[s] \in {"spawned", "ready", "command"}
      /\ UNCHANGED <<pc, status, disk, running, complete, failed, fatal,
                     outer, ctx, returned, receipt>>
  BY <1>1, WorkerStep
<1>4. TypeOK'
  BY <1>1, <1>2, <1>3 DEF TypeOK, WorkerStates
<1>5. Alive' = Alive
  BY <1>1, <1>2, <1>3 DEF TypeOK, Alive
<1>6. Linked'
  BY <1>1, <1>2, <1>3 DEF TypeOK, Linked, AliveStates, Results
<1>7. DependencyOrder' /\ Counted' /\ Recorded' /\ Scanned' /\ Clean' /\ Ended'
  BY <1>3, <1>5 DEF SchedInv, DependencyOrder, Counted, SettledSteps, Recorded,
     Scanned, Pending, Blocked, Ready, Clean, Ended
<1>8. NothingLeftBehind' /\ CycleIsReal' /\ ReceiptTruthful'
  BY <1>3, <1>5 DEF SchedInv, NothingLeftBehind, CycleIsReal, Pending, ReceiptTruthful
<1> QED
  BY <1>4, <1>6, <1>7, <1>8 DEF SchedInv

-----------------------------------------------------------------------------
(* The steps of the loop that scan and decide *)

LEMMA InitHolds == Init => SchedInv
<1> SUFFICES ASSUME Init PROVE SchedInv
  OBVIOUS
<1>1. Alive = {} /\ SettledSteps = {}
  BY DEF Init, Alive, SettledSteps, Settled
<1>2. TypeOK /\ DependencyOrder /\ Linked /\ Recorded /\ Scanned /\ Clean /\ Ended
  BY <1>1 DEF Init, TypeOK, Statuses, Settled, WorkerStates, Receipts, DependencyOrder, Linked,
     AliveStates, Recorded, Scanned, Clean, Ended
<1>3. Counted
  BY <1>1, MaxType, FS_EmptySet DEF Counted, Init
<1>4. NothingLeftBehind /\ CycleIsReal /\ ReceiptTruthful
  BY DEF Init, NothingLeftBehind, CycleIsReal, ReceiptTruthful
<1> QED
  BY <1>2, <1>3, <1>4 DEF SchedInv

LEMMA TopKeeps == SchedInv /\ Top => SchedInv'
<1> SUFFICES ASSUME SchedInv, Top PROVE SchedInv'
  OBVIOUS
<1>1. TypeOK' /\ Linked' /\ DependencyOrder' /\ Clean' /\ Ended'
  BY DEF SchedInv, Top, TypeOK, Linked, DependencyOrder, Clean, Ended
<1>2. Counted' /\ Recorded' /\ Scanned'
  BY DEF SchedInv, Top, Counted, Alive, SettledSteps, Recorded, Scanned
<1>3. NothingLeftBehind' /\ CycleIsReal' /\ ReceiptTruthful'
  BY DEF SchedInv, Top, NothingLeftBehind, CycleIsReal, ReceiptTruthful, Ended, Alive, Pending
<1> QED
  BY <1>1, <1>2, <1>3 DEF SchedInv

LEMMA ScanEndKeeps == SchedInv /\ (SkipsDone \/ StartsDone) => SchedInv'
<1> SUFFICES ASSUME SchedInv, SkipsDone \/ StartsDone PROVE SchedInv'
  OBVIOUS
<1>1. /\ UNCHANGED <<status, disk, worker, result, running, complete, failed,
                     fatal, outer, ctx, returned, receipt>>
      /\ \/ /\ pc = "skip" /\ pc' = "start"
            /\ fatal \/ \A s \in Pending : ~Blocked(s)
         \/ /\ pc = "start" /\ pc' = "wait"
            /\ \A s \in Steps : ~MayStart(s)
  BY DEF SkipsDone, StartsDone
<1>2. TypeOK' /\ Linked' /\ DependencyOrder' /\ Clean' /\ Ended'
  BY <1>1 DEF SchedInv, TypeOK, Linked, DependencyOrder, Clean, Ended
<1>3. Counted' /\ Recorded'
  BY <1>1 DEF SchedInv, Counted, Alive, SettledSteps, Recorded
<1>4. Scanned'
  <2>1. Pending' = Pending /\ (\A s \in Steps : Blocked(s)' = Blocked(s) /\ Ready(s)' = Ready(s))
    BY <1>1 DEF Pending, Blocked, Ready
  <2>2. pc' = "wait" => fatal \/ running >= Max \/ \A s \in Pending : ~Ready(s)
    BY <1>1, MaxType DEF MayStart, Pending, SchedInv, TypeOK
  <2> QED
    BY <1>1, <2>1, <2>2, Subsets DEF Scanned, SchedInv
<1>5. NothingLeftBehind' /\ CycleIsReal' /\ ReceiptTruthful'
  BY <1>1 DEF SchedInv, NothingLeftBehind, CycleIsReal, ReceiptTruthful, Ended, Alive, Pending
<1> QED
  BY <1>2, <1>3, <1>4, <1>5 DEF SchedInv

LEMMA OuterKeeps == SchedInv /\ OuterEnds => SchedInv'
<1> SUFFICES ASSUME SchedInv, OuterEnds PROVE SchedInv'
  OBVIOUS
<1>1. TypeOK' /\ Linked' /\ DependencyOrder' /\ Clean' /\ Ended'
  BY DEF SchedInv, OuterEnds, TypeOK, Linked, DependencyOrder, Clean, Ended
<1>2. Counted' /\ Recorded' /\ Scanned'
  BY DEF SchedInv, OuterEnds, Counted, Alive, SettledSteps, Recorded, Scanned, Pending, Blocked, Ready
<1>3. NothingLeftBehind' /\ CycleIsReal' /\ ReceiptTruthful'
  BY DEF SchedInv, OuterEnds, NothingLeftBehind, CycleIsReal, ReceiptTruthful, Ended, Alive, Pending
<1> QED
  BY <1>1, <1>2, <1>3 DEF SchedInv

-----------------------------------------------------------------------------
(* The steps of the loop that change a status *)

\* A step that is settled, started or put off changes nothing for the others.
LEMMA StartKeeps ==
    ASSUME SchedInv, NEW s \in Steps, Start(s)
    PROVE  SchedInv'
<1>0. TypeOK /\ Linked /\ pc = "start" /\ pc' = "start" /\ ~fatal /\ running < Max
  BY DEF SchedInv, Start, MayStart
<1>1. s \in Pending /\ Ready(s) /\ worker[s] = "none"
  BY DEF SchedInv, Start, MayStart, Pending, Linked
<1>2. UNCHANGED <<pc, result, complete, failed, outer, returned, receipt>>
  BY DEF Start
<1>3. PICK ok \in BOOLEAN :
        /\ Checkpoint(ok, [status EXCEPT ![s] = "running"])
        /\ GiveUpUnless(ok)
        /\ IF ok
           THEN /\ status' = [status EXCEPT ![s] = "running"]
                /\ worker' = [worker EXCEPT ![s] = "spawned"]
                /\ running' = running + 1
           ELSE UNCHANGED <<status, worker, running>>
  BY DEF Start
<1>4. pc \notin {"done", "ended"} /\ returned = "no" /\ receipt = "running"
  BY <1>0 DEF SchedInv, Ended
<1>5. CASE ~ok
  <2>1. disk' = disk /\ fatal' = TRUE /\ ctx' = Canceled
    BY <1>3, <1>5 DEF Checkpoint, GiveUpUnless
  <2>2. UNCHANGED <<status, worker, running>>
    BY <1>3, <1>5
  <2>3. TypeOK' /\ Linked' /\ DependencyOrder' /\ Clean' /\ Ended'
    BY <1>0, <1>2, <1>4, <2>1, <2>2 DEF SchedInv, TypeOK, Linked, DependencyOrder, Clean,
       Ended, Canceled
  <2>4. Counted' /\ Recorded' /\ Scanned'
    BY <1>0, <1>2, <2>1, <2>2 DEF SchedInv, Counted, Alive, SettledSteps, Recorded, Scanned
  <2>5. NothingLeftBehind' /\ CycleIsReal' /\ ReceiptTruthful'
    BY <1>0, <1>2, <1>4, <2>1, <2>2 DEF NothingLeftBehind, CycleIsReal, ReceiptTruthful
  <2> QED
    BY <2>3, <2>4, <2>5 DEF SchedInv
<1>6. CASE ok
  <2>1. UNCHANGED <<fatal, ctx>> /\ disk' = [status EXCEPT ![s] = "running"]
    BY <1>3, <1>6 DEF Checkpoint, GiveUpUnless
  <2>2. /\ status' = [status EXCEPT ![s] = "running"]
        /\ worker' = [worker EXCEPT ![s] = "spawned"]
        /\ running' = running + 1
    BY <1>3, <1>6
  <2>3. status[s] = "pending"
    BY <1>1 DEF Pending
  <2>4. TypeOK'
    BY <1>0, <1>2, <2>1, <2>2 DEF TypeOK, Statuses, WorkerStates
  <2>5. Linked'
    BY <1>0, <1>2, <2>2 DEF TypeOK, Linked, AliveStates
  <2>6. DependencyOrder'
    <3>1. \A d \in Steps : status[d] = "succeeded" => status'[d] = "succeeded"
      BY <1>0, <2>2, <2>3 DEF TypeOK
    <3>2. \A d \in Deps[s] : status[d] = "succeeded"
      BY <1>1 DEF Ready
    <3> QED
      BY <1>0, <2>2, <3>1, <3>2 DEF SchedInv, DependencyOrder, TypeOK
  <2>7. Alive' = Alive \cup {s} /\ s \notin Alive
    BY <1>0, <1>1, <2>2 DEF Alive, TypeOK
  <2>8. SettledSteps' = SettledSteps
    BY <1>0, <2>2, <2>3 DEF SettledSteps, Settled, TypeOK
  <2>9. Counted'
    <3>1. Cardinality(Alive') = Cardinality(Alive) + 1
      BY <2>7, OneMore, Subsets
    <3>2. running \in Nat
      BY <1>0 DEF TypeOK
    <3> QED
      BY <1>0, <1>2, <2>2, <2>8, <3>1, <3>2, MaxType DEF SchedInv, Counted
  <2>10. Recorded'
    BY <1>0, <2>1, <2>2, <2>7 DEF SchedInv, Recorded, TypeOK, Alive
  <2>11. Scanned'
    <3>1. \A d \in Steps : status'[d] \in Blocking => status[d] \in Blocking
      BY <1>0, <2>2 DEF TypeOK, Blocking, Settled
    <3>2. \A t \in Pending' : t \in Pending /\ (Blocked(t)' => Blocked(t))
      BY <1>0, <2>2, <3>1 DEF Pending, Blocked, TypeOK
    <3> QED
      BY <1>0, <1>2, <2>1, <3>2 DEF SchedInv, Scanned
  <2>12. Clean' /\ Ended'
    BY <1>0, <1>2, <1>4, <2>1, <2>2 DEF SchedInv, Clean, Ended, TypeOK
  <2>13. NothingLeftBehind' /\ CycleIsReal' /\ ReceiptTruthful'
    BY <1>0, <1>2, <1>4 DEF NothingLeftBehind, CycleIsReal, ReceiptTruthful
  <2> QED
    BY <2>4, <2>5, <2>6, <2>9, <2>10, <2>11, <2>12, <2>13 DEF SchedInv
<1> QED
  BY <1>5, <1>6

\* Skipping s and receiving the result of s both settle it.
LEMMA SettleKeepsOrder ==
    ASSUME TypeOK, DependencyOrder, NEW s \in Steps, NEW v \in Settled,
           status' = [status EXCEPT ![s] = v],
           status[s] # "succeeded", v # "skipped" => status[s] = "running"
    PROVE  DependencyOrder'
<1>1. \A d \in Steps : status[d] = "succeeded" => status'[d] = "succeeded"
  BY DEF TypeOK
<1>2. \A t \in Steps : status'[t] \notin {"pending", "skipped"} =>
                          status[t] \notin {"pending", "skipped"}
  BY DEF TypeOK
<1> QED
  BY <1>1, <1>2 DEF DependencyOrder

LEMMA SkipKeeps ==
    ASSUME SchedInv, NEW s \in Steps, Skip(s)
    PROVE  SchedInv'
<1>0. TypeOK /\ Linked /\ pc = "skip" /\ pc' = "skip" /\ ~fatal
  BY DEF SchedInv, Skip
<1>1. status[s] = "pending" /\ worker[s] = "none"
  BY DEF SchedInv, Skip, Pending, Linked
<1>2. /\ status' = [status EXCEPT ![s] = "skipped"]
      /\ complete' = complete + 1
      /\ UNCHANGED <<pc, worker, result, running, failed, outer, returned, receipt>>
  BY DEF Skip
<1>3. PICK ok \in BOOLEAN : Checkpoint(ok, status') /\ GiveUpUnless(ok)
  BY DEF Skip
<1>4. pc \notin {"done", "ended"} /\ returned = "no" /\ receipt = "running"
  BY <1>0 DEF SchedInv, Ended
<1>5. disk' \in {disk, status'} /\ (~fatal' => disk' = status') /\ fatal' \in BOOLEAN
  BY <1>0, <1>3 DEF Checkpoint, GiveUpUnless, TypeOK
<1>6. ctx' \in {"live", "canceled", "deadline"}
  BY <1>0, <1>3 DEF GiveUpUnless, Canceled, TypeOK
<1>7. status' \in [Steps -> Statuses]
  BY <1>0, <1>2 DEF TypeOK, Statuses, Settled
<1>8. TypeOK'
  BY <1>0, <1>2, <1>5, <1>6, <1>7 DEF TypeOK
<1>9. Linked'
  BY <1>0, <1>1, <1>2 DEF TypeOK, Linked, AliveStates
<1>10. DependencyOrder'
  BY <1>0, <1>1, <1>2, SettleKeepsOrder DEF SchedInv, Settled
<1>11. Alive' = Alive /\ s \notin Alive
  BY <1>1, <1>2 DEF Alive
<1>12. SettledSteps' = SettledSteps \cup {s} /\ s \notin SettledSteps
  BY <1>0, <1>1, <1>2 DEF SettledSteps, Settled, TypeOK
<1>13. Counted'
  BY <1>2, <1>11, <1>12, OneMore, Subsets DEF SchedInv, Counted
<1>14. Recorded'
  <2>1. \A t \in Alive : status[t] = "running"
    BY <1>0 DEF Alive, Linked, AliveStates
  <2>2. \A t \in Alive : status'[t] = "running"
    BY <1>0, <1>1, <1>2, <2>1, <1>11 DEF TypeOK, Alive
  <2> QED
    BY <1>5, <1>11, <2>2 DEF SchedInv, Recorded
<1>15. Scanned' /\ Ended'
  BY <1>0, <1>2, <1>4 DEF Scanned, Ended, SchedInv
<1>16. Clean'
  BY <1>0, <1>2 DEF SchedInv, Clean, Skip, Blocked, Blocking, Settled
<1>17. NothingLeftBehind' /\ CycleIsReal' /\ ReceiptTruthful'
  BY <1>0, <1>2, <1>4 DEF NothingLeftBehind, CycleIsReal, ReceiptTruthful
<1> QED
  BY <1>8, <1>9, <1>10, <1>13, <1>14, <1>15, <1>16, <1>17 DEF SchedInv

LEMMA ReceiveKeeps ==
    ASSUME SchedInv, NEW s \in Steps, Receive(s)
    PROVE  SchedInv'
<1>0. TypeOK /\ Linked /\ pc = "wait" /\ pc' = "top" /\ worker[s] = "sent"
  BY DEF SchedInv, Receive
<1>1. status[s] = "running" /\ result[s] \in Results
  BY <1>0 DEF Linked, AliveStates
<1>2. /\ worker' = [worker EXCEPT ![s] = "received"]
      /\ running' = running - 1
      /\ complete' = complete + 1
      /\ status' = [status EXCEPT ![s] = StatusOf(result[s])]
      /\ failed' = (failed \/ result[s] # "succeeded")
      /\ UNCHANGED <<result, outer, returned, receipt>>
  BY DEF Receive
<1>3. PICK ok \in BOOLEAN :
        Checkpoint(ok, status') /\ GiveUpUnless(ok /\ ~GivesUp(result[s]))
  BY DEF Receive
<1>4. pc \notin {"done", "ended"} /\ returned = "no" /\ receipt = "running"
  BY <1>0 DEF SchedInv, Ended
<1>5. /\ disk' \in {disk, status'} /\ (~fatal' => ~fatal /\ disk' = status')
      /\ fatal' \in BOOLEAN
  BY <1>0, <1>3 DEF Checkpoint, GiveUpUnless, TypeOK
<1>6. ctx' \in {"live", "canceled", "deadline"}
  BY <1>0, <1>3 DEF GiveUpUnless, Canceled, TypeOK
<1>7. /\ StatusOf(result[s]) \in {"succeeded", "failed", "timed_out", "canceled"}
      /\ StatusOf(result[s]) = "succeeded" <=> result[s] = "succeeded"
  BY <1>1 DEF StatusOf, Results
<1>8. status' \in [Steps -> Statuses]
  BY <1>0, <1>2, <1>7 DEF TypeOK, Statuses, Settled
<1>9. Alive' = Alive \ {s} /\ s \in Alive
  BY <1>0, <1>2 DEF Alive, TypeOK
<1>10. SettledSteps' = SettledSteps \cup {s} /\ s \notin SettledSteps
  BY <1>0, <1>1, <1>2, <1>7 DEF SettledSteps, Settled, TypeOK
<1>11. Counted'
  <2>1. Cardinality(Alive') = Cardinality(Alive) - 1 /\ Cardinality(Alive) \in Nat
    BY <1>9, OneLess, Subsets, StepSubset
  <2>2. Cardinality(SettledSteps') = Cardinality(SettledSteps) + 1
    BY <1>10, OneMore, Subsets
  <2> QED
    BY <1>2, <2>1, <2>2, MaxType DEF SchedInv, Counted
<1>12. TypeOK'
  <2>1. worker' \in [Steps -> WorkerStates]
    BY <1>0, <1>2 DEF TypeOK, WorkerStates
  <2>2. running' \in Nat
    <3>1. Alive' \subseteq Steps
      BY <1>9, Subsets
    <3> QED
      BY <1>11, <3>1, StepSubset DEF Counted
  <2>3. complete' \in Nat /\ failed' \in BOOLEAN /\ disk' \in [Steps -> Statuses]
    BY <1>0, <1>2, <1>5, <1>8 DEF TypeOK
  <2>4. /\ pc' \in {"top", "skip", "start", "wait", "done", "ended"}
        /\ result' \in [Steps -> Results \cup {"none"}]
        /\ outer' \in {"live", "canceled", "deadline"}
        /\ returned' \in {"no", "ok", "failed", "stopped", "cycle"}
        /\ receipt' \in Receipts
    BY <1>0, <1>2 DEF TypeOK
  <2> QED
    BY <1>5, <1>6, <1>8, <2>1, <2>2, <2>3, <2>4 DEF TypeOK
<1>13. Linked'
  BY <1>0, <1>2, <1>7 DEF TypeOK, Linked, AliveStates
<1>14. DependencyOrder'
  BY <1>0, <1>1, <1>2, <1>7, SettleKeepsOrder DEF SchedInv, Settled
<1>15. Recorded'
  <2>1. \A t \in Alive' : t # s /\ t \in Alive /\ status[t] = "running"
    BY <1>0, <1>9 DEF Alive, Linked, AliveStates
  <2>2. \A t \in Alive' : status'[t] = "running"
    BY <1>0, <1>2, <2>1 DEF TypeOK, Alive
  <2> QED
    BY <1>5, <1>9, <2>2 DEF SchedInv, Recorded
<1>16. Scanned' /\ Ended'
  BY <1>0, <1>2, <1>4 DEF Scanned, Ended, SchedInv
<1>17. Clean'
  BY <1>0, <1>2, <1>5, <1>7 DEF SchedInv, Clean, TypeOK
<1>18. NothingLeftBehind' /\ CycleIsReal' /\ ReceiptTruthful'
  BY <1>0, <1>2, <1>4 DEF NothingLeftBehind, CycleIsReal, ReceiptTruthful
<1> QED
  BY <1>11, <1>12, <1>13, <1>14, <1>15, <1>16, <1>17, <1>18 DEF SchedInv

-----------------------------------------------------------------------------
(* The steps that leave the loop and end the run *)

\* All goroutines are joined: every step that is not pending is settled.
LEMMA NobodyAlive ==
    ASSUME TypeOK, Linked, Counted, running = 0
    PROVE  /\ Alive = {}
           /\ \A s \in Steps : status[s] \in Settled \cup {"pending"}
<1>1. Alive = {}
  BY StepSubset, Subsets DEF Counted
<1> QED
  BY <1>1 DEF TypeOK, Linked, Alive, AliveStates, Statuses, Settled

LEMMA AllSettled ==
    ASSUME Counted, complete = N
    PROVE  \A s \in Steps : status[s] \in Settled
<1>1. SettledSteps = Steps
  BY StepSubset, Subsets DEF Counted
<1> QED
  BY <1>1 DEF SettledSteps

LEMMA RunDryKeeps == SchedInv /\ RunDry => SchedInv'
<1> SUFFICES ASSUME SchedInv, RunDry PROVE SchedInv'
  OBVIOUS
<1>0. /\ TypeOK /\ Linked /\ Counted /\ pc = "wait" /\ pc' = "done" /\ running = 0
      /\ ctx' \in {"live", "canceled", "deadline"}
      /\ UNCHANGED <<disk, worker, result, running, failed, fatal, outer, receipt>>
  BY DEF SchedInv, RunDry, Canceled, TypeOK
<1>1. /\ Alive = {}
      /\ \A s \in Steps : status[s] \in Settled \cup {"pending"}
  BY <1>0, NobodyAlive
<1>2. Alive' = {}
  BY <1>0, <1>1 DEF Alive
<1>3. returned = "no" /\ receipt = "running"
  BY <1>0 DEF SchedInv, Ended
<1>4. complete \in Nat /\ complete <= N
  BY <1>0, StepSubset, Subsets DEF Counted
<1>5. CASE ~fatal /\ complete < N
  <2>1. returned' = "cycle" /\ UNCHANGED <<status, complete>>
    BY <1>5 DEF RunDry
  <2>2. TypeOK' /\ Linked' /\ DependencyOrder' /\ Clean' /\ Ended'
    BY <1>0, <1>3, <2>1 DEF SchedInv, TypeOK, Linked, DependencyOrder, Clean, Ended
  <2>3. Counted' /\ Recorded' /\ Scanned'
    BY <1>0, <2>1 DEF SchedInv, Counted, Alive, SettledSteps, Recorded, Scanned
  <2>4. Pending # {}
    <3>1. SettledSteps # Steps
      BY <1>0, <1>5, StepSubset, Subsets, MaxType DEF Counted
    <3> QED
      BY <1>1, <3>1 DEF SettledSteps, Pending
  <2>5. \A s \in Pending : Deps[s] \cap Pending # {}
    <3> SUFFICES ASSUME NEW s \in Pending PROVE \E d \in Deps[s] : d \in Pending
      OBVIOUS
    <3>1. ~Blocked(s) /\ ~Ready(s)
      BY <1>0, <1>5, MaxType DEF SchedInv, Scanned
    <3>2. PICK d \in Deps[s] : status[d] # "succeeded"
      BY <3>1 DEF Ready
    <3>3. d \in Steps /\ status[d] \notin Blocking
      BY <3>1 DEF Blocked, Pending
    <3> QED
      BY <1>1, <3>2, <3>3 DEF Pending, Blocking
  <2>6. CycleIsReal'
    BY <2>1, <2>4, <2>5 DEF CycleIsReal, Pending
  <2>7. NothingLeftBehind' /\ ReceiptTruthful'
    BY <1>0, <1>2, <1>3, <2>1 DEF NothingLeftBehind, ReceiptTruthful
  <2> QED
    BY <2>2, <2>3, <2>6, <2>7 DEF SchedInv
<1>6. CASE ~(~fatal /\ complete < N)
  <2>1. /\ status' = [s \in Steps |-> IF s \in Pending THEN "skipped" ELSE status[s]]
        /\ complete' = complete + Cardinality(Pending)
        /\ returned' = Verdict(~failed /\ ~fatal)
    BY <1>6 DEF RunDry
  <2>2. returned' \in {"ok", "failed", "stopped"} /\ (returned' = "ok" => ~failed /\ ~fatal)
    BY <2>1 DEF Verdict
  <2>3. \A s \in Steps : status'[s] \in Settled
    BY <1>1, <2>1 DEF Pending, Settled
  <2>4. ~fatal => Pending = {} /\ status' = status
    <3> SUFFICES ASSUME ~fatal PROVE Pending = {} /\ status' = status
      OBVIOUS
    <3>1. complete = N
      BY <1>4, <1>6, MaxType
    <3>2. Pending = {}
      BY <1>0, <3>1, AllSettled DEF Pending, Settled
    <3> QED
      BY <1>0, <2>1, <3>2 DEF TypeOK
  <2>5. SettledSteps' = Steps
    BY <2>3 DEF SettledSteps
  <2>6. complete' = N
    <3>1. SettledSteps \cup Pending = Steps /\ SettledSteps \cap Pending = {}
      BY <1>1 DEF SettledSteps, Pending, Settled
    <3>2. Cardinality(Steps) = Cardinality(SettledSteps) + Cardinality(Pending)
      <4>1. /\ IsFiniteSet(SettledSteps) /\ IsFiniteSet(Pending)
            /\ Cardinality(SettledSteps) \in Nat /\ Cardinality(Pending) \in Nat
        BY StepSubset, Subsets
      <4>2. Cardinality(SettledSteps \cup Pending) =
               Cardinality(SettledSteps) + Cardinality(Pending) - Cardinality({})
        BY <3>1, <4>1, FS_Union
      <4> QED
        BY <3>1, <4>1, <4>2, FS_EmptySet
    <3> QED
      BY <1>0, <2>1, <3>2 DEF Counted, N
  <2>7. TypeOK'
    <3>1. status' \in [Steps -> Statuses]
      BY <2>1, <2>3 DEF Statuses
    <3> QED
      BY <1>0, <2>2, <2>6, <3>1, MaxType DEF TypeOK
  <2>8. DependencyOrder'
    BY <2>1 DEF SchedInv, DependencyOrder, Pending
  <2>9. Linked'
    BY <1>0, <2>1 DEF Linked, Pending, AliveStates
  <2>10. Counted'
    BY <1>0, <1>1, <1>2, <2>5, <2>6, MaxType DEF Counted, N
  <2>11. Recorded' /\ Scanned' /\ Clean' /\ Ended'
    BY <1>0, <1>2, <1>3, <2>2, <2>4 DEF SchedInv, Recorded, Scanned, Clean, Ended
  <2>12. NothingLeftBehind' /\ CycleIsReal' /\ ReceiptTruthful'
    BY <1>0, <1>2, <1>3, <2>2, <2>3 DEF NothingLeftBehind, CycleIsReal, ReceiptTruthful
  <2> QED
    BY <2>7, <2>8, <2>9, <2>10, <2>11, <2>12 DEF SchedInv
<1> QED
  BY <1>5, <1>6

LEMMA AllCompleteKeeps == SchedInv /\ AllComplete => SchedInv'
<1> SUFFICES ASSUME SchedInv, AllComplete PROVE SchedInv'
  OBVIOUS
<1>0. /\ TypeOK /\ Linked /\ Counted /\ pc = "top" /\ pc' = "done" /\ complete = N
      /\ ctx' \in {"live", "canceled", "deadline"}
      /\ UNCHANGED <<status, disk, worker, result, running, complete, failed,
                     fatal, outer, receipt>>
  BY DEF SchedInv, AllComplete, Canceled, TypeOK
<1>1. \A s \in Steps : status[s] \in Settled
  BY <1>0, AllSettled
<1>2. Alive = {}
  BY <1>0, <1>1 DEF Alive, Linked, AliveStates, Settled
<1>3. /\ returned' \in {"ok", "failed", "stopped"}
      /\ returned' = "ok" => ~failed /\ ~fatal
      /\ returned = "no" /\ receipt = "running"
  BY <1>0 DEF AllComplete, Verdict, SchedInv, Ended
<1>4. TypeOK' /\ Linked' /\ DependencyOrder' /\ Clean' /\ Ended'
  BY <1>0, <1>3 DEF SchedInv, TypeOK, Linked, DependencyOrder, Clean, Ended
<1>5. Counted' /\ Recorded' /\ Scanned'
  BY <1>0 DEF SchedInv, Counted, Alive, SettledSteps, Recorded, Scanned
<1>6. NothingLeftBehind' /\ CycleIsReal' /\ ReceiptTruthful'
  BY <1>0, <1>1, <1>2, <1>3 DEF NothingLeftBehind, CycleIsReal, ReceiptTruthful, Alive
<1> QED
  BY <1>4, <1>5, <1>6 DEF SchedInv

LEMMA FinishKeeps == SchedInv /\ Finish => SchedInv'
<1> SUFFICES ASSUME SchedInv, Finish PROVE SchedInv'
  OBVIOUS
<1>0. /\ TypeOK /\ Linked /\ Counted /\ pc = "done" /\ pc' = "ended"
      /\ UNCHANGED <<status, worker, result, running, complete, failed, fatal,
                     outer, ctx, returned>>
  BY DEF SchedInv, Finish
<1>1. PICK attested \in BOOLEAN, changed \in BOOLEAN, closed \in BOOLEAN, written \in BOOLEAN :
        /\ receipt' = IF ~written THEN receipt
                      ELSE IF ~closed THEN "failed"
                      ELSE IF ~(returned = "ok" /\ attested) THEN Reason
                      ELSE IF changed THEN "stale" ELSE "succeeded"
        /\ disk' = IF written THEN status ELSE disk
  BY DEF Finish
<1>2. /\ Alive = {} /\ returned # "no" /\ receipt = "running"
      /\ returned # "cycle" => \A s \in Steps : status[s] \in Settled
      /\ returned = "ok" => ~failed /\ ~fatal
  BY <1>0 DEF SchedInv, NothingLeftBehind, Ended
<1>3. /\ Reason \in {"timed_out", "canceled", "failed"}
      /\ Reason = "timed_out" => outer = "deadline"
      /\ Reason = "canceled" => outer = "canceled"
  BY DEF Reason
<1>4. /\ receipt' \in Receipts
      /\ receipt' # "running" => written
      /\ receipt' \in {"succeeded", "stale"} => returned = "ok"
      /\ receipt' = "timed_out" => outer = "deadline"
      /\ receipt' = "canceled" => outer = "canceled"
  <2>1. CASE ~written
    BY <1>1, <1>2, <2>1 DEF Receipts
  <2>2. CASE written /\ ~closed
    BY <1>1, <2>2 DEF Receipts
  <2>3. CASE written /\ closed /\ returned = "ok" /\ attested
    BY <1>1, <2>3 DEF Receipts
  <2>4. CASE written /\ closed /\ ~(returned = "ok" /\ attested)
    BY <1>1, <1>3, <2>4 DEF Receipts
  <2> QED
    BY <2>1, <2>2, <2>3, <2>4
<1>5. returned = "ok" => \A s \in Steps : status[s] = "succeeded"
  BY <1>2 DEF SchedInv, Clean, Settled
<1>6. disk' \in [Steps -> Statuses]
  BY <1>0, <1>1 DEF TypeOK
<1>7. TypeOK'
  BY <1>0, <1>4, <1>6 DEF TypeOK
<1>8. Linked' /\ DependencyOrder' /\ Clean' /\ Ended'
  BY <1>0, <1>2 DEF SchedInv, Linked, DependencyOrder, Clean, Ended
<1>9. Counted' /\ Recorded' /\ Scanned'
  BY <1>0, <1>1, <1>2 DEF SchedInv, Counted, Alive, SettledSteps, Recorded, Scanned
<1>10. NothingLeftBehind' /\ CycleIsReal'
  BY <1>0 DEF SchedInv, NothingLeftBehind, CycleIsReal, Alive, Pending
<1>11. ReceiptTruthful'
  BY <1>0, <1>1, <1>2, <1>4, <1>5 DEF ReceiptTruthful
<1> QED
  BY <1>7, <1>8, <1>9, <1>10, <1>11 DEF SchedInv

-----------------------------------------------------------------------------
(* The theorems *)

LEMMA NextKeeps == SchedInv /\ [Next]_vars => SchedInv'
<1> SUFFICES ASSUME SchedInv, [Next]_vars PROVE SchedInv'
  OBVIOUS
<1>1. CASE Loop
  BY <1>1, TopKeeps, ScanEndKeeps, SkipKeeps, StartKeeps, ReceiveKeeps, RunDryKeeps,
     AllCompleteKeeps DEF Loop
<1>2. CASE \E s \in Steps : Worker(s)
  BY <1>2, WorkerKeeps
<1>3. CASE UNCHANGED vars
  <2>1. TypeOK' /\ Linked' /\ DependencyOrder' /\ Clean' /\ Ended'
    BY <1>3 DEF SchedInv, vars, TypeOK, Linked, DependencyOrder, Clean, Ended
  <2>2. Counted' /\ Recorded' /\ Scanned'
    BY <1>3 DEF SchedInv, vars, Counted, Alive, SettledSteps, Recorded, Scanned, Pending,
       Blocked, Ready
  <2>3. NothingLeftBehind' /\ CycleIsReal' /\ ReceiptTruthful'
    BY <1>3 DEF SchedInv, vars, NothingLeftBehind, CycleIsReal, ReceiptTruthful, Alive, Pending
  <2> QED
    BY <2>1, <2>2, <2>3 DEF SchedInv
<1> QED
  BY <1>1, <1>2, <1>3, OuterKeeps, FinishKeeps DEF Next

THEOREM InvHolds == Spec => []SchedInv
BY InitHolds, NextKeeps, PTL DEF Spec

\* Every variable of the scheduler keeps its type.
THEOREM TypeCorrect == Spec => []TypeOK
<1>1. SchedInv => TypeOK
  BY DEF SchedInv
<1> QED
  BY <1>1, InvHolds, PTL

\* For any dependencies, no step starts before all it depends on succeeded.
THEOREM OrderKept == Spec => []DependencyOrder
<1>1. SchedInv => DependencyOrder
  BY DEF SchedInv
<1> QED
  BY <1>1, InvHolds, PTL

\* The loop's counters are exact and max_parallel is never exceeded.
THEOREM CountsExact == Spec => []CountersExact
<1>1. SchedInv => CountersExact
  BY DEF SchedInv, Counted, CountersExact, SettledSteps
<1> QED
  BY <1>1, InvHolds, PTL

\* The receipt on disk always knows which commands may be running.
THEOREM ReceiptsWrittenAhead == Spec => []ReceiptKnowsWhatRuns
<1>1. SchedInv => ReceiptKnowsWhatRuns
  BY DEF SchedInv, Recorded, ReceiptKnowsWhatRuns, Alive
<1> QED
  BY <1>1, InvHolds, PTL

\* execute returns with every goroutine joined and every step settled.
THEOREM AllJoined == Spec => []NothingLeftBehind
<1>1. SchedInv => NothingLeftBehind
  BY DEF SchedInv
<1> QED
  BY <1>1, InvHolds, PTL

\* A cycle is only reported when the pending steps wait for one another.
THEOREM CyclesAreReal == Spec => []CycleIsReal
<1>1. SchedInv => CycleIsReal
  BY DEF SchedInv
<1> QED
  BY <1>1, InvHolds, PTL

\* What the final receipt says of the run is true.
THEOREM ReceiptsTruthful == Spec => []ReceiptTruthful
<1>1. SchedInv => ReceiptTruthful
  BY DEF SchedInv
<1> QED
  BY <1>1, InvHolds, PTL

\* A step counts as blocked by steps that are settled, and these stay settled.
LEMMA SkipsKeep ==
    SchedInv /\ OnlyBlockedStepsSkipped /\ [Next]_vars => OnlyBlockedStepsSkipped'
<1> SUFFICES ASSUME SchedInv, OnlyBlockedStepsSkipped, [Next]_vars
             PROVE  OnlyBlockedStepsSkipped'
  OBVIOUS
<1> USE DEF SchedInv, OnlyBlockedStepsSkipped
<1>1. ASSUME NEW s \in Steps, Skip(s)
      PROVE  OnlyBlockedStepsSkipped'
  BY <1>1 DEF Skip, TypeOK, Pending, Blocked, Blocking, Settled, GiveUpUnless
<1>2. ASSUME NEW s \in Steps, Start(s)
      PROVE  OnlyBlockedStepsSkipped'
  BY <1>2 DEF Start, MayStart, Pending, TypeOK, Settled, GiveUpUnless
<1>3. ASSUME NEW s \in Steps, Receive(s)
      PROVE  OnlyBlockedStepsSkipped'
  <2>1. status[s] = "running" /\ StatusOf(result[s]) # "skipped"
    BY <1>3 DEF Receive, Linked, AliveStates, StatusOf, Results
  <2>2. /\ status' = [status EXCEPT ![s] = StatusOf(result[s])]
        /\ ~fatal' => ~fatal
    BY <1>3 DEF Receive, GiveUpUnless
  <2> QED
    BY <2>1, <2>2 DEF TypeOK, Settled
<1>4. CASE RunDry
  <2>1. fatal' = fatal
    BY <1>4 DEF RunDry
  <2>2. CASE ~fatal /\ complete < N
    BY <1>4, <2>1, <2>2 DEF RunDry
  <2>3. CASE ~fatal /\ ~(complete < N)
    <3>1. complete = N
      <4>1. complete \in Nat /\ complete <= N
        BY StepSubset, Subsets DEF Counted
      <4> QED
        BY <2>3, <4>1, MaxType
    <3>2. Pending = {}
      BY <3>1, AllSettled DEF Pending, Settled
    <3>3. status' = status
      BY <1>4, <2>3, <3>2 DEF RunDry, TypeOK
    <3> QED
      BY <2>1, <3>3
  <2> QED
    BY <2>1, <2>2, <2>3
<1>5. CASE Top \/ SkipsDone \/ StartsDone \/ AllComplete \/ OuterEnds \/ Finish
           \/ UNCHANGED vars
  BY <1>5 DEF Top, SkipsDone, StartsDone, AllComplete, OuterEnds, Finish, vars, TypeOK
<1>6. CASE \E s \in Steps : Worker(s)
  BY <1>6, WorkerStep
<1> QED
  BY <1>1, <1>2, <1>3, <1>4, <1>5, <1>6 DEF Next, Loop

\* While the run goes on, only steps with a dependency that ended without
\* success are skipped.
THEOREM SkipsJustified == Spec => []OnlyBlockedStepsSkipped
<1>1. Init => OnlyBlockedStepsSkipped
  BY DEF Init, OnlyBlockedStepsSkipped
<1> QED
  BY <1>1, SkipsKeep, InvHolds, PTL DEF Spec

\* With fail_fast off, a step that merely failed never makes the loop give up.
THEOREM IndependentWorkGoesOnHolds == Spec => IndependentWorkGoesOn
<1> DEFINE Excused == \/ disk' = disk
                      \/ \E s \in Steps : /\ result[s] = "tampered"
                                          /\ worker[s] = "sent" /\ worker'[s] = "received"
<1>1. ASSUME TypeOK, ~FailFast, ~fatal, fatal', Next
      PROVE  Excused
  <2>1. ASSUME NEW s \in Steps, Skip(s) \/ Start(s)
        PROVE  disk' = disk
    BY <1>1, <2>1 DEF Skip, Start, Checkpoint, GiveUpUnless
  <2>2. ASSUME NEW s \in Steps, Receive(s)
        PROVE  Excused
    BY <1>1, <2>2 DEF Receive, Checkpoint, GiveUpUnless, GivesUp, TypeOK
  <2>3. ASSUME NEW s \in Steps, Worker(s)
        PROVE  FALSE
    BY <1>1, <2>3, WorkerStep
  <2>4. CASE Top \/ SkipsDone \/ StartsDone \/ RunDry \/ AllComplete \/ OuterEnds
    BY <1>1, <2>4 DEF Top, SkipsDone, StartsDone, RunDry, AllComplete, OuterEnds
  <2>5. CASE Finish
    BY <1>1, <2>5 DEF Finish
  <2> QED
    BY <1>1, <2>1, <2>2, <2>3, <2>4, <2>5 DEF Next, Loop
<1>2. TypeOK /\ [Next]_vars =>
        [~FailFast /\ outer = "live" /\ ~fatal /\ fatal' => Excused]_vars
  BY <1>1
<1> QED
  BY <1>2, TypeCorrect, PTL DEF Spec, IndependentWorkGoesOn

-----------------------------------------------------------------------------
(* The loop implements CiDag *)

LEMMA DagInit == Init => dag!Init
BY DEF Init, dag!Init, DagState, DagOf

\* One step that gets a new status, seen in CiDag.
LEMMA DagExcept ==
    ASSUME TypeOK, NEW s \in Steps, NEW v \in Statuses,
           status' = [status EXCEPT ![s] = v]
    PROVE  DagState' = [DagState EXCEPT ![s] = DagOf(v)]
BY DEF TypeOK, DagState, DagOf

LEMMA DagValues ==
    /\ DagOf("pending") = "waiting" /\ DagOf("running") = "running"
    /\ DagOf("skipped") = "skipped" /\ DagOf("succeeded") = "succeeded"
    /\ \A v \in {"failed", "timed_out", "canceled"} : DagOf(v) = "unsuccessful"
BY DEF DagOf, Blocking, Settled

LEMMA DagPreimages ==
    ASSUME NEW v \in Statuses
    PROVE  /\ DagOf(v) = "running" <=> v = "running"
           /\ DagOf(v) = "waiting" <=> v = "pending"
           /\ DagOf(v) = "succeeded" <=> v = "succeeded"
           /\ DagOf(v) \in {"unsuccessful", "skipped"} <=> v \in Blocking
BY DEF DagOf, Blocking, Settled, Statuses

LEMMA DagRunning == TypeOK /\ Linked => dag!Running = Alive
<1> SUFFICES ASSUME TypeOK, Linked PROVE dag!Running = Alive
  OBVIOUS
<1>1. \A s \in Steps : DagState[s] = "running" <=> s \in Alive
  BY DagPreimages DEF TypeOK, Linked, DagState, Alive, AliveStates
<1> QED
  BY <1>1 DEF dag!Running, Alive

\* CiDag has its own copy of the library.
LEMMA DagCardinality == \A S : dag!Cardinality(S) = Cardinality(S)
BY DEF dag!Cardinality, Cardinality

LEMMA DagStart ==
    ASSUME SchedInv, NEW s \in Steps, Start(s)
    PROVE  dag!StartStep(s) \/ dag!GiveUp
<1>0. TypeOK /\ Linked /\ Counted /\ ~fatal /\ running < Max /\ s \in Pending /\ Ready(s)
  BY DEF SchedInv, Start, MayStart
<1>1. PICK ok \in BOOLEAN :
        /\ GiveUpUnless(ok)
        /\ IF ok
           THEN status' = [status EXCEPT ![s] = "running"]
           ELSE UNCHANGED status
  BY DEF Start
<1>2. CASE ok
  <2>1. fatal' = fatal /\ status' = [status EXCEPT ![s] = "running"]
    BY <1>1, <1>2 DEF GiveUpUnless
  <2>2. DagState' = [DagState EXCEPT ![s] = "running"]
    <3>1. "running" \in Statuses
      BY DEF Statuses
    <3>2. DagState' = [DagState EXCEPT ![s] = DagOf("running")]
      BY <1>0, <2>1, <3>1, DagExcept
    <3> QED
      BY <3>2, DagValues
  <2>3. DagState[s] = "waiting"
    BY <1>0, DagValues DEF DagState, Pending
  <2>4. \A d \in Deps[s] : DagState[d] = "succeeded"
    BY <1>0, DagValues DEF DagState, Ready
  <2>5. Cardinality(dag!Running) < Max
    BY <1>0, DagRunning DEF Counted
  <2>6. DagState[s] = "waiting" /\ ~fatal /\ UNCHANGED fatal
    BY <1>0, <2>1, <2>3
  <2>7. dag!StartStep(s)
    BY ONLY <2>2, <2>4, <2>5, <2>6, DagCardinality DEF dag!StartStep
  <2> QED
    BY <2>7
<1>3. CASE ~ok
  BY <1>1, <1>3 DEF GiveUpUnless, dag!GiveUp, DagState
<1> QED
  BY <1>2, <1>3

LEMMA DagSkip ==
    ASSUME SchedInv, NEW s \in Steps, Skip(s)
    PROVE  dag!SkipBlocked(s)
<1>0. TypeOK /\ s \in Pending /\ Blocked(s) /\ status' = [status EXCEPT ![s] = "skipped"]
  BY DEF SchedInv, Skip
<1>1. fatal' \in {fatal, TRUE}
  BY DEF Skip, GiveUpUnless
<1>2. DagState' = [DagState EXCEPT ![s] = "skipped"]
  <2>1. "skipped" \in Statuses
    BY DEF Statuses, Settled
  <2>2. DagState' = [DagState EXCEPT ![s] = DagOf("skipped")]
    BY <1>0, <2>1, DagExcept
  <2> QED
    BY <2>2, DagValues
<1>3. DagState[s] = "waiting"
  BY <1>0, DagValues DEF DagState, Pending
<1>4. \E d \in Deps[s] : DagState[d] \in {"unsuccessful", "skipped"}
  BY <1>0, DagPreimages DEF DagState, Blocked, TypeOK
<1> QED
  BY <1>1, <1>2, <1>3, <1>4 DEF dag!SkipBlocked

LEMMA DagReceive ==
    ASSUME SchedInv, NEW s \in Steps, Receive(s)
    PROVE  dag!EndStep(s)
<1>0. /\ TypeOK /\ Linked /\ worker[s] = "sent"
      /\ status' = [status EXCEPT ![s] = StatusOf(result[s])]
  BY DEF SchedInv, Receive
<1>1. fatal' \in {fatal, TRUE}
  BY DEF Receive, GiveUpUnless
<1>2. status[s] = "running" /\ result[s] \in Results
  BY <1>0 DEF Linked, AliveStates
<1>3. StatusOf(result[s]) \in {"succeeded", "failed", "timed_out", "canceled"}
  BY <1>2 DEF StatusOf, Results
<1>4. DagOf(StatusOf(result[s])) \in {"succeeded", "unsuccessful"}
  BY <1>3, DagValues
<1>5. DagState' = [DagState EXCEPT ![s] = DagOf(StatusOf(result[s]))]
  BY <1>0, <1>3, DagExcept DEF Statuses, Settled
<1>6. DagState[s] = "running"
  BY <1>2, DagValues DEF DagState
<1> QED
  BY <1>1, <1>4, <1>5, <1>6 DEF dag!EndStep

LEMMA DagRunDry ==
    ASSUME SchedInv, RunDry
    PROVE  dag!SkipRest \/ UNCHANGED <<DagState, fatal>>
<1>0. TypeOK /\ Linked /\ Counted /\ running = 0 /\ fatal' = fatal
  BY DEF SchedInv, RunDry
<1>1. CASE ~fatal /\ complete < N
  BY <1>0, <1>1 DEF RunDry, DagState
<1>2. CASE ~(~fatal /\ complete < N)
  <2>1. status' = [s \in Steps |-> IF s \in Pending THEN "skipped" ELSE status[s]]
    BY <1>2 DEF RunDry
  <2>2. CASE fatal
    <3>1. dag!Running = {}
      BY <1>0, DagRunning, NobodyAlive
    <3>2. \A s \in Steps : DagState'[s] = IF DagState[s] = "waiting"
                                           THEN "skipped" ELSE DagState[s]
      BY <1>0, <2>1, DagPreimages, DagValues DEF DagState, Pending, TypeOK
    <3>3. DagState' = [s \in Steps |-> IF DagState[s] = "waiting"
                                       THEN "skipped" ELSE DagState[s]]
      BY <3>2 DEF DagState
    <3> QED
      BY <1>0, <2>2, <3>1, <3>3 DEF dag!SkipRest
  <2>3. CASE ~fatal
    <3>1. complete = N
      <4>1. complete \in Nat /\ complete <= N
        BY <1>0, StepSubset, Subsets DEF Counted
      <4> QED
        BY <1>2, <2>3, <4>1, MaxType
    <3>2. Pending = {}
      BY <1>0, <3>1, AllSettled DEF Pending, Settled
    <3>3. status' = status
      BY <1>0, <2>1, <3>2 DEF TypeOK
    <3> QED
      BY <1>0, <3>3 DEF DagState
  <2> QED
    BY <1>0, <2>2, <2>3 DEF TypeOK
<1> QED
  BY <1>1, <1>2

LEMMA DagNext == SchedInv /\ [Next]_vars => [dag!Next]_<<DagState, fatal>>
<1> SUFFICES ASSUME SchedInv, [Next]_vars
             PROVE  dag!Next \/ UNCHANGED <<DagState, fatal>>
  OBVIOUS
<1>1. CASE Top
  <2>1. status' = status /\ (fatal' = fatal \/ fatal' = TRUE)
    BY <1>1 DEF Top, SchedInv, TypeOK
  <2> QED
    BY <2>1 DEF dag!Next, dag!GiveUp, DagState
<1>2. CASE \E s \in Steps : Skip(s) \/ Start(s) \/ Receive(s)
  BY <1>2, DagSkip, DagStart, DagReceive DEF dag!Next
<1>3. CASE SkipsDone \/ StartsDone \/ AllComplete \/ OuterEnds \/ Finish \/ UNCHANGED vars
  BY <1>3 DEF SkipsDone, StartsDone, AllComplete, OuterEnds, Finish, vars, DagState
<1>4. CASE RunDry
  BY <1>4, DagRunDry DEF dag!Next
<1>5. CASE \E s \in Steps : Worker(s)
  BY <1>5, WorkerStep DEF SchedInv, DagState
<1> QED
  BY <1>1, <1>2, <1>3, <1>4, <1>5 DEF Next, Loop

\* Every behaviour of the scheduler is one of the abstract execution in
\* dependency order: a step starts when its dependencies succeeded and at most
\* Max run, and is skipped only when blocked or when the run was given up.
THEOREM DagImplemented == Spec => ImplementsDag
<1>1. Spec => dag!Init /\ [][dag!Next]_<<DagState, fatal>>
  BY DagInit, DagNext, InvHolds, PTL DEF Spec
<1> QED
  BY <1>1, PTL DEF ImplementsDag, dag!Spec

=============================================================================
