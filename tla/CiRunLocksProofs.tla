-------------------------- MODULE CiRunLocksProofs --------------------------
(***************************************************************************)
(* Theorems about CiRunLocks, for any sets of runs, watchers, roots and    *)
(* resources.                                                              *)
(***************************************************************************)
EXTENDS CiRunLocks, TLAPS

USE LocksAssumption DEF Keys, Actors, Needs

Probing == {"probe", "probeHold", "probeRead"}

\* Whoever probes asks about some run.
ProbesARun == \A a \in Actors : pc[a] \in Probing => Suspect(a) \in Runs

TypeInv == TypeOK /\ ProbesARun

LEMMA ProbeKeyType ==
    ASSUME NEW a \in Actors, ProbesARun, pc[a] \in Probing
    PROVE  Suspect(a) \in Runs /\ ProbeKey(a) \in Keys
BY DEF ProbesARun, ProbeKey

\* What any outcome of a probe changes, and what it leaves alone.
LEMMA ProbeResultType ==
    ASSUME NEW a \in Actors, NEW owner \in Runs \cup {Nobody}, TypeInv,
           ProbeResult(a, owner), UNCHANGED subject
    PROVE  /\ pc' \in [Actors -> RunPCs]
           /\ \A w \in Watchers : pc'[w] \in WatchPCs
           /\ \A b \in Actors : b # a => pc'[b] = pc[b]
           /\ a \in Runs => pc'[a] = IF owner = ParentOf[a] THEN "ended" ELSE "lock"
           /\ a \in Watchers => pc'[a] = "idle"
           /\ outcome' \in [Runs -> Outcomes]
           /\ busyWith' \in [Runs -> Runs \cup {Nobody}]
           /\ verdict' \in [Watchers -> {"none", "active", "stale"}]
           /\ ProbesARun'
<1> USE DEF TypeInv, TypeOK, RunPCs, WatchPCs, Outcomes
<1>1. CASE a \in Runs
  <2>1. /\ verdict' = verdict
        /\ pc' = [pc EXCEPT ![a] = IF owner = ParentOf[a] THEN "ended" ELSE "lock"]
        /\ outcome' = IF owner = ParentOf[a]
                      THEN [outcome EXCEPT ![a] = "nested"] ELSE outcome
        /\ busyWith' = IF owner = ParentOf[a]
                       THEN [busyWith EXCEPT ![a] = owner] ELSE busyWith
    BY <1>1 DEF ProbeResult, Goto
  <2>2. a \notin Watchers
    BY <1>1
  <2>3. ProbesARun'
    BY <1>1, <2>1 DEF ProbesARun, Probing, Suspect
  <2> QED
    BY <1>1, <2>1, <2>2, <2>3
<1>2. CASE a \in Watchers
  <2>1. /\ a \notin Runs
        /\ UNCHANGED <<outcome, busyWith>>
        /\ pc' = [pc EXCEPT ![a] = "idle"]
        /\ verdict' = [verdict EXCEPT ![a] =
                            IF owner = subject[a] THEN "active" ELSE "stale"]
    BY <1>2 DEF ProbeResult, Goto
  <2>2. ProbesARun'
    BY <1>2, <2>1 DEF ProbesARun, Probing, Suspect
  <2> QED
    BY <1>2, <2>1, <2>2
<1> QED
  BY <1>1, <1>2

\* A step of actor a that sets pc[a] outside the probe, or keeps it in one.
LEMMA ProbesARunFrame ==
    ASSUME NEW a \in Actors, TypeInv, UNCHANGED subject,
           \A b \in Actors \ {a} : pc'[b] = pc[b],
           pc'[a] \in Probing => Suspect(a) \in Runs
    PROVE  ProbesARun'
BY DEF TypeInv, ProbesARun, Suspect

LEMMA TypeStep == TypeInv /\ [Next]_vars => TypeInv'
<1> SUFFICES ASSUME TypeInv, [Next]_vars PROVE TypeInv'
  OBVIOUS
<1>a. TypeOK /\ ProbesARun
  BY DEF TypeInv
<1> USE DEF TypeOK, RunPCs, WatchPCs, Outcomes, Goto, TypeInv
<1>1. ASSUME NEW r \in Runs, Start(r) PROVE TypeInv'
  <2>1. TypeOK' /\ UNCHANGED subject /\ \A b \in Actors \ {r} : pc'[b] = pc[b]
    <3>1. UNCHANGED <<holder, content, cursor, outcome, busyWith, receipt,
                      subject, verdict, blocker>>
      BY <1>1 DEF Start
    <3>2. pc' \in [Actors -> RunPCs] /\ \A b \in Actors \ {r} : pc'[b] = pc[b]
      BY <1>1 DEF Start
    <3>3. \A w \in Watchers : pc'[w] \in WatchPCs
      BY <3>2
    <3> QED
      BY <3>1, <3>2, <3>3
  <2>2. pc'[r] \in Probing => Suspect(r) \in Runs
    BY <1>1 DEF Start, Probing, Suspect
  <2> QED
    BY <2>1, <2>2, ProbesARunFrame
<1>2. ASSUME NEW a \in Actors, Probe(a) PROVE TypeInv'
  <2>1. pc[a] \in Probing
    BY <1>2 DEF Probe, ProbeTake, ProbeGiveBack, ProbeContended,
                ProbeRead, Probing
  <2>2. ProbeKey(a) \in Keys /\ Suspect(a) \in Runs
    BY <2>1, ProbeKeyType
  <2>4. CASE ProbeTake(a)
    BY <2>4, <2>2, ProbesARunFrame DEF ProbeTake
  <2>5. CASE ProbeGiveBack(a)
    <3>1. holder' \in [Keys -> Actors \cup {Nobody}]
      BY <2>5 DEF ProbeGiveBack
    <3> QED
      BY <2>5, <3>1, ProbeResultType DEF ProbeGiveBack
  <2>6. CASE ProbeContended(a)
    BY <2>6, <2>2, ProbesARunFrame DEF ProbeContended
  <2>7. CASE ProbeRead(a)
    <3>1. content[ProbeKey(a)] \in Runs \cup {Nobody}
      BY <2>2
    <3> QED
      BY <2>7, <3>1, ProbeResultType DEF ProbeRead
  <2> QED
    BY <1>2, <2>4, <2>5, <2>6, <2>7 DEF Probe
<1>3. ASSUME NEW r \in Runs, NEW k \in Keys, TryLock(r, k) PROVE TypeInv'
  <2>1. content' \in [Keys -> Runs \cup {Nobody}]
    BY <1>3 DEF TryLock
  <2>2. holder' \in [Keys -> Actors \cup {Nobody}]
    BY <1>3 DEF TryLock
  <2>3. blocker' \in [Actors -> Actors \cup {Nobody}]
    BY <1>3 DEF TryLock
  <2>4. pc' \in [Actors -> RunPCs] /\ \A b \in Actors \ {r} : pc'[b] = pc[b]
    BY <1>3 DEF TryLock
  <2>5. pc'[r] \notin Probing
    BY <1>3 DEF TryLock, Probing
  <2>6. TypeOK'
    <3>1. /\ cursor' \in [Runs -> Keys]
          /\ UNCHANGED <<outcome, busyWith, receipt, subject, verdict>>
      BY <1>3 DEF TryLock
    <3>2. \A w \in Watchers : pc'[w] \in WatchPCs
      BY <2>4
    <3> QED
      BY <3>1, <3>2, <2>1, <2>2, <2>3, <2>4
  <2>7. UNCHANGED subject
    BY <1>3 DEF TryLock
  <2>8. ProbesARun'
    BY <2>4, <2>5, <2>7, ProbesARunFrame
  <2> QED
    BY <2>6, <2>8
<1>4. ASSUME NEW r \in Runs, Truncate(r) PROVE TypeInv'
  <2>1. TypeOK' /\ UNCHANGED subject /\ \A b \in Actors \ {r} : pc'[b] = pc[b]
    BY <1>4 DEF Truncate
  <2>2. pc'[r] \notin Probing
    BY <1>4 DEF Truncate, Probing
  <2> QED
    BY <2>1, <2>2, ProbesARunFrame
<1>5. ASSUME NEW r \in Runs, WriteId(r) PROVE TypeInv'
  <2>1. TypeOK' /\ UNCHANGED subject /\ \A b \in Actors \ {r} : pc'[b] = pc[b]
    BY <1>5 DEF WriteId
  <2>2. pc'[r] \notin Probing
    BY <1>5 DEF WriteId, Probing
  <2> QED
    BY <2>1, <2>2, ProbesARunFrame
<1>6. ASSUME NEW r \in Runs, ReadOwner(r) PROVE TypeInv'
  <2>1. TypeOK' /\ UNCHANGED subject /\ \A b \in Actors \ {r} : pc'[b] = pc[b]
    BY <1>6 DEF ReadOwner
  <2>2. pc'[r] \notin Probing
    BY <1>6 DEF ReadOwner, Probing
  <2> QED
    BY <2>1, <2>2, ProbesARunFrame
<1>7. ASSUME NEW r \in Runs, AcquireFails(r) PROVE TypeInv'
  <2>1. TypeOK' /\ UNCHANGED subject /\ \A b \in Actors \ {r} : pc'[b] = pc[b]
    BY <1>7 DEF AcquireFails
  <2>2. pc'[r] \notin Probing
    BY <1>7 DEF AcquireFails, Probing
  <2> QED
    BY <2>1, <2>2, ProbesARunFrame
<1>8. ASSUME NEW r \in Runs, RecordRunning(r) PROVE TypeInv'
  <2>1. TypeOK' /\ UNCHANGED subject /\ \A b \in Actors \ {r} : pc'[b] = pc[b]
    BY <1>8 DEF RecordRunning
  <2>2. pc'[r] \notin Probing
    BY <1>8 DEF RecordRunning, Probing
  <2> QED
    BY <2>1, <2>2, ProbesARunFrame
<1>9. ASSUME NEW r \in Runs, Finish(r) PROVE TypeInv'
  <2>1. TypeOK' /\ UNCHANGED subject /\ \A b \in Actors \ {r} : pc'[b] = pc[b]
    BY <1>9 DEF Finish
  <2>2. pc'[r] \notin Probing
    BY <1>9 DEF Finish, Probing
  <2> QED
    BY <2>1, <2>2, ProbesARunFrame
<1>10. ASSUME NEW r \in Runs, Release(r) PROVE TypeInv'
  <2>1. TypeOK' /\ UNCHANGED subject /\ \A b \in Actors \ {r} : pc'[b] = pc[b]
    BY <1>10 DEF Release
  <2>2. pc'[r] \notin Probing
    BY <1>10 DEF Release, Probing
  <2> QED
    BY <2>1, <2>2, ProbesARunFrame
<1>11. ASSUME NEW r \in Runs, Crash(r) PROVE TypeInv'
  <2>1. TypeOK' /\ UNCHANGED subject /\ \A b \in Actors \ {r} : pc'[b] = pc[b]
    BY <1>11 DEF Crash
  <2>2. pc'[r] \notin Probing
    BY <1>11 DEF Crash, Probing
  <2> QED
    BY <2>1, <2>2, ProbesARunFrame
<1>12. ASSUME NEW w \in Watchers, NEW r \in Runs, ReadReceipt(w, r)
       PROVE TypeInv'
  <2>1. TypeOK'
    BY <1>12 DEF ReadReceipt
  <2>2. ProbesARun'
    BY <1>12 DEF ReadReceipt, ProbesARun, Suspect
  <2> QED
    BY <2>1, <2>2
<1>13. CASE UNCHANGED vars
  BY <1>13 DEF vars, ProbesARun, Suspect
<1> QED
  BY <1>1, <1>2, <1>3, <1>4, <1>5, <1>6, <1>7, <1>8, <1>9, <1>10, <1>11,
     <1>12, <1>13 DEF Next, RunStep

LEMMA TypeInvariant == Spec => []TypeInv
<1>1. Init => TypeInv
  BY DEF Init, TypeInv, TypeOK, RunPCs, WatchPCs, Outcomes, ProbesARun, Probing
<1> QED
  BY <1>1, TypeStep, PTL DEF Spec

(* Every variable keeps its type, whatever the runs and the watchers do.     *)
THEOREM TypeCorrect == Spec => []TypeOK
BY TypeInvariant, PTL DEF TypeInv

-----------------------------------------------------------------------------
(* The inductive invariant: who holds which lock at which point of acquire   *)
(* and of the probe, and what the files of the held locks say.               *)

\* A prober between tryLock and unlock holds the probed key.
ProbeHolds == \A a \in Actors : pc[a] = "probeHold" => holder[ProbeKey(a)] = a

\* Before acquire a run holds nothing but a key it is probing.
NothingHeldYet ==
    \A r \in Runs :
        /\ pc[r] \in {"idle", "probe", "probeRead"} => Held(r) = {}
        /\ pc[r] = "probeHold" => Held(r) \subseteq {ProbeKey(r)}

\* Truncate and WriteAt go to a file whose lock the run holds.
CursorHeld ==
    \A r \in Runs : pc[r] \in {"truncate", "write"} => holder[cursor[r]] = r

\* An admitted run holds all its keys.
ActiveHolds ==
    \A r \in Runs : Active(r) => \A k \in Needs[r] : holder[k] = r

\* The files of the keys a run holds carry its ID, but for the one in hand.
HeldRecorded ==
    \A r \in Runs : \A k \in Held(r) :
        \/ pc[r] = "lock" \/ Active(r)
        \/ pc[r] \in {"truncate", "write"} /\ k # cursor[r]
        => content[k] = r

LockInv ==
    /\ TypeInv
    /\ ProbeHolds
    /\ NothingHeldYet
    /\ CursorHeld
    /\ ActiveHolds
    /\ HeldRecorded

LEMMA LockStep == LockInv /\ [Next]_vars => LockInv'
<1> SUFFICES ASSUME LockInv, [Next]_vars PROVE LockInv'
  OBVIOUS
<1>t. TypeInv'
  BY TypeStep DEF LockInv
<1>k. \A a \in Actors : pc[a] \in Probing => ProbeKey(a) \in Keys
  BY ProbeKeyType DEF LockInv, TypeInv
<1> USE DEF LockInv, TypeInv, TypeOK, RunPCs, WatchPCs, Goto
<1>1. ASSUME NEW r \in Runs, Start(r) PROVE LockInv'
  <2>1. ProbeHolds'
    BY <1>1 DEF Start, ProbeHolds, ProbeKey, Suspect
  <2>2. NothingHeldYet'
    BY <1>1 DEF Start, NothingHeldYet, ProbeKey, Suspect, Held
  <2>3. CursorHeld'
    BY <1>1 DEF Start, CursorHeld
  <2>4. ActiveHolds'
    BY <1>1 DEF Start, ActiveHolds, Active
  <2>5. HeldRecorded'
    BY <1>1 DEF Start, HeldRecorded, NothingHeldYet, Active, Held
  <2> QED
    BY <2>1, <2>2, <2>3, <2>4, <2>5, <1>t
<1>2. ASSUME NEW a \in Actors, Probe(a) PROVE LockInv'
  <2>1. pc[a] \in Probing
    BY <1>2 DEF Probe, ProbeTake, ProbeGiveBack, ProbeContended,
                ProbeRead, Probing
  <2>2. ProbeKey(a) \in Keys /\ Suspect(a) \in Runs
    BY <2>1, ProbeKeyType DEF LockInv, TypeInv
  <2>3. UNCHANGED <<content, cursor, subject>>
    BY <1>2 DEF Probe, ProbeTake, ProbeGiveBack, ProbeContended,
                ProbeRead
  <2>4. \A b \in Actors : b # a => pc'[b] = pc[b]
    BY <1>2 DEF Probe, ProbeTake, ProbeGiveBack, ProbeContended,
                ProbeRead, ProbeResult
  \* A finished probe leaves the probe, and a run goes on to lock or ends.
  <2>5. ASSUME NEW owner, ProbeResult(a, owner)
        PROVE  pc'[a] \in {"idle", "lock", "ended"} /\ (a \in Runs => pc'[a] # "idle")
    BY <2>5 DEF ProbeResult
  <2>6. \A j \in Keys : j # ProbeKey(a) => holder'[j] = holder[j]
    BY <1>2 DEF Probe, ProbeTake, ProbeGiveBack, ProbeContended,
                ProbeRead
  <2>7. CASE ProbeTake(a)
    <3>1. /\ holder[ProbeKey(a)] = Nobody /\ holder'[ProbeKey(a)] = a
          /\ pc[a] = "probe" /\ pc'[a] = "probeHold"
      BY <2>2, <2>7 DEF ProbeTake
    <3>2. ProbeHolds'
      BY <1>k, <2>2, <2>3, <2>4, <2>6, <3>1 DEF ProbeHolds, ProbeKey, Suspect, Probing
    <3>3. NothingHeldYet'
      BY <2>2, <2>3, <2>4, <2>6, <3>1 DEF NothingHeldYet, Held, ProbeKey, Suspect
    <3>4. CursorHeld'
      BY <2>2, <2>3, <2>4, <2>6, <3>1 DEF CursorHeld
    <3>5. ActiveHolds'
      BY <2>2, <2>3, <2>4, <2>6, <3>1 DEF ActiveHolds, Active
    <3>6. HeldRecorded'
      BY <2>2, <2>3, <2>4, <2>6, <3>1 DEF HeldRecorded, Held, Active
    <3> QED
      BY <3>2, <3>3, <3>4, <3>5, <3>6, <1>t
  <2>8. CASE ProbeGiveBack(a)
    <3>1. /\ holder[ProbeKey(a)] = a /\ holder'[ProbeKey(a)] = Nobody
          /\ pc[a] = "probeHold"
      BY <2>2, <2>8 DEF ProbeGiveBack, ProbeHolds
    <3>2. pc'[a] \in {"idle", "lock", "ended"} /\ (a \in Runs => pc'[a] # "idle")
      BY <2>5, <2>8 DEF ProbeGiveBack
    <3>3. ProbeHolds'
      BY <1>k, <2>2, <2>3, <2>4, <2>6, <3>1, <3>2 DEF ProbeHolds, ProbeKey, Suspect, Probing
    <3>4. NothingHeldYet'
      BY <2>2, <2>3, <2>4, <2>6, <3>1, <3>2 DEF NothingHeldYet, Held, ProbeKey, Suspect
    <3>5. CursorHeld'
      BY <2>2, <2>3, <2>4, <2>6, <3>1, <3>2 DEF CursorHeld
    <3>6. ActiveHolds'
      BY <2>2, <2>3, <2>4, <2>6, <3>1, <3>2 DEF ActiveHolds, Active
    <3>7. HeldRecorded'
      BY <2>2, <2>3, <2>4, <2>6, <3>1, <3>2 DEF HeldRecorded, NothingHeldYet, Held, Active
    <3> QED
      BY <3>3, <3>4, <3>5, <3>6, <3>7, <1>t
  <2>9. CASE ProbeContended(a) \/ ProbeRead(a)
    <3>1. holder' = holder /\ pc[a] \in {"probe", "probeRead"}
      BY <2>9 DEF ProbeContended, ProbeRead
    <3>2. /\ pc'[a] \in {"idle", "lock", "ended", "probeRead"}
          /\ a \in Runs => pc'[a] # "idle"
      BY <2>5, <2>9 DEF ProbeContended, ProbeRead
    <3>3. ProbeHolds'
      BY <2>3, <2>4, <3>1, <3>2 DEF ProbeHolds, ProbeKey, Suspect
    <3>4. NothingHeldYet'
      BY <2>3, <2>4, <3>1, <3>2 DEF NothingHeldYet, Held, ProbeKey, Suspect
    <3>5. CursorHeld'
      BY <2>3, <2>4, <3>1, <3>2 DEF CursorHeld
    <3>6. ActiveHolds'
      BY <2>3, <2>4, <3>1, <3>2 DEF ActiveHolds, Active
    <3>7. HeldRecorded'
      BY <2>3, <2>4, <3>1, <3>2 DEF HeldRecorded, NothingHeldYet, Held, Active
    <3> QED
      BY <3>3, <3>4, <3>5, <3>6, <3>7, <1>t
  <2> QED
    BY <1>2, <2>7, <2>8, <2>9 DEF Probe
<1>3. ASSUME NEW r \in Runs, NEW k \in Keys, TryLock(r, k) PROVE LockInv'
  <2>1. ProbeHolds'
    <3>1. \A a \in Actors : pc'[a] = "probeHold" => pc[a] = "probeHold"
      BY <1>3 DEF TryLock
    <3>2. \A j \in Keys : holder[j] # Nobody => holder'[j] = holder[j]
      BY <1>3 DEF TryLock
    <3>3. UNCHANGED subject
      BY <1>3 DEF TryLock
    <3> QED
      BY <1>k, <3>1, <3>2, <3>3 DEF ProbeHolds, ProbeKey, Suspect, Probing
  <2>2. NothingHeldYet'
    BY <1>3 DEF TryLock, IsNextKey, NothingHeldYet, ProbeKey, Suspect, Held
  <2>3. CursorHeld'
    BY <1>3 DEF TryLock, IsNextKey, CursorHeld
  <2>4. ActiveHolds'
    BY <1>3 DEF TryLock, IsNextKey, ActiveHolds, Active
  <2>5. HeldRecorded'
    BY <1>3 DEF TryLock, IsNextKey, HeldRecorded, Active, Held
  <2> QED
    BY <2>1, <2>2, <2>3, <2>4, <2>5, <1>t
<1>4. ASSUME NEW r \in Runs, Truncate(r) PROVE LockInv'
  <2>1. ProbeHolds'
    BY <1>4 DEF Truncate, ProbeHolds, ProbeKey, Suspect
  <2>2. NothingHeldYet'
    BY <1>4 DEF Truncate, NothingHeldYet, ProbeKey, Suspect, Held
  <2>3. CursorHeld'
    BY <1>4 DEF Truncate, CursorHeld
  <2>4. ActiveHolds'
    BY <1>4 DEF Truncate, ActiveHolds, Active
  <2>5. HeldRecorded'
    BY <1>4 DEF Truncate, HeldRecorded, CursorHeld, Active, Held
  <2> QED
    BY <2>1, <2>2, <2>3, <2>4, <2>5, <1>t
<1>5. ASSUME NEW r \in Runs, WriteId(r) PROVE LockInv'
  <2>1. ProbeHolds'
    BY <1>5 DEF WriteId, ProbeHolds, ProbeKey, Suspect
  <2>2. NothingHeldYet'
    BY <1>5 DEF WriteId, NothingHeldYet, ProbeKey, Suspect, Held
  <2>3. CursorHeld'
    BY <1>5 DEF WriteId, CursorHeld
  <2>4. ActiveHolds'
    BY <1>5 DEF WriteId, ActiveHolds, Active, Held
  <2>5. HeldRecorded'
    BY <1>5 DEF WriteId, HeldRecorded, CursorHeld, Active, Held
  <2> QED
    BY <2>1, <2>2, <2>3, <2>4, <2>5, <1>t
<1>6. ASSUME NEW r \in Runs, ReadOwner(r) PROVE LockInv'
  <2>1. ProbeHolds'
    BY <1>6 DEF ReadOwner, ProbeHolds, ProbeKey, Suspect
  <2>2. NothingHeldYet'
    BY <1>6 DEF ReadOwner, NothingHeldYet, ProbeKey, Suspect, Held
  <2>3. CursorHeld'
    BY <1>6 DEF ReadOwner, CursorHeld
  <2>4. ActiveHolds'
    BY <1>6 DEF ReadOwner, ActiveHolds, Active
  <2>5. HeldRecorded'
    BY <1>6 DEF ReadOwner, HeldRecorded, Active, Held
  <2> QED
    BY <2>1, <2>2, <2>3, <2>4, <2>5, <1>t
<1>7. ASSUME NEW r \in Runs, AcquireFails(r) PROVE LockInv'
  <2>1. ProbeHolds'
    BY <1>7 DEF AcquireFails, ProbeHolds, ProbeKey, Suspect
  <2>2. NothingHeldYet'
    BY <1>7 DEF AcquireFails, NothingHeldYet, ProbeKey, Suspect, Held
  <2>3. CursorHeld'
    BY <1>7 DEF AcquireFails, CursorHeld
  <2>4. ActiveHolds'
    BY <1>7 DEF AcquireFails, ActiveHolds, Active
  <2>5. HeldRecorded'
    BY <1>7 DEF AcquireFails, HeldRecorded, Active, Held
  <2> QED
    BY <2>1, <2>2, <2>3, <2>4, <2>5, <1>t
<1>8. ASSUME NEW r \in Runs, RecordRunning(r) PROVE LockInv'
  <2>1. ProbeHolds'
    BY <1>8 DEF RecordRunning, ProbeHolds, ProbeKey, Suspect
  <2>2. NothingHeldYet'
    BY <1>8 DEF RecordRunning, NothingHeldYet, ProbeKey, Suspect, Held
  <2>3. CursorHeld'
    BY <1>8 DEF RecordRunning, CursorHeld
  <2>4. ActiveHolds'
    BY <1>8 DEF RecordRunning, ActiveHolds, Active
  <2>5. HeldRecorded'
    BY <1>8 DEF RecordRunning, HeldRecorded, Active, Held
  <2> QED
    BY <2>1, <2>2, <2>3, <2>4, <2>5, <1>t
<1>9. ASSUME NEW r \in Runs, Finish(r) PROVE LockInv'
  <2>1. ProbeHolds'
    BY <1>9 DEF Finish, ProbeHolds, ProbeKey, Suspect
  <2>2. NothingHeldYet'
    BY <1>9 DEF Finish, NothingHeldYet, ProbeKey, Suspect, Held
  <2>3. CursorHeld'
    BY <1>9 DEF Finish, CursorHeld
  <2>4. ActiveHolds'
    BY <1>9 DEF Finish, ActiveHolds, Active
  <2>5. HeldRecorded'
    BY <1>9 DEF Finish, HeldRecorded, Active, Held
  <2> QED
    BY <2>1, <2>2, <2>3, <2>4, <2>5, <1>t
<1>10. ASSUME NEW r \in Runs, Release(r) PROVE LockInv'
  <2>1. ProbeHolds'
    <3>1. \A a \in Actors : pc'[a] = "probeHold" => pc[a] = "probeHold"
      BY <1>10 DEF Release
    <3>2. \A j \in Keys : holder[j] # r => holder'[j] = holder[j]
      BY <1>10 DEF Release, IsLastKey, Held
    <3>3. UNCHANGED subject /\ pc'[r] # "probeHold"
      BY <1>10 DEF Release
    <3> QED
      BY <1>k, <3>1, <3>2, <3>3 DEF ProbeHolds, ProbeKey, Suspect, Probing
  <2>2. NothingHeldYet'
    BY <1>10 DEF Release, IsLastKey, NothingHeldYet, ProbeKey, Suspect, Held
  <2>3. CursorHeld'
    <3>1. \A j \in Keys : holder[j] # r => holder'[j] = holder[j]
      BY <1>10 DEF Release, IsLastKey, Held
    <3>2. pc'[r] \in {"release", "ended"} /\ \A q \in Runs \ {r} : pc'[q] = pc[q]
      BY <1>10 DEF Release
    <3>3. UNCHANGED cursor
      BY <1>10 DEF Release
    <3> QED
      BY <3>1, <3>2, <3>3 DEF CursorHeld
  <2>4. ActiveHolds'
    <3>1. \A j \in Keys : holder[j] # r => holder'[j] = holder[j]
      BY <1>10 DEF Release, IsLastKey, Held
    <3>2. pc'[r] \in {"release", "ended"} /\ \A q \in Runs \ {r} : pc'[q] = pc[q]
      BY <1>10 DEF Release
    <3> QED
      BY <3>1, <3>2 DEF ActiveHolds, Active
  <2>5. HeldRecorded'
    BY <1>10 DEF Release, IsLastKey, HeldRecorded, Active, Held
  <2> QED
    BY <2>1, <2>2, <2>3, <2>4, <2>5, <1>t
<1>11. ASSUME NEW r \in Runs, Crash(r) PROVE LockInv'
  <2>1. ProbeHolds'
    <3>1. \A a \in Actors : pc'[a] = "probeHold" => pc[a] = "probeHold"
      BY <1>11 DEF Crash
    <3>2. \A j \in Keys : holder[j] # r => holder'[j] = holder[j]
      BY <1>11 DEF Crash, IsLastKey, Held
    <3>3. UNCHANGED subject /\ pc'[r] # "probeHold"
      BY <1>11 DEF Crash
    <3> QED
      BY <1>k, <3>1, <3>2, <3>3 DEF ProbeHolds, ProbeKey, Suspect, Probing
  <2>2. NothingHeldYet'
    BY <1>11 DEF Crash, NothingHeldYet, ProbeKey, Suspect, Held
  <2>3. CursorHeld'
    BY <1>11 DEF Crash, CursorHeld
  <2>4. ActiveHolds'
    BY <1>11 DEF Crash, ActiveHolds, Active
  <2>5. HeldRecorded'
    BY <1>11 DEF Crash, HeldRecorded, Active, Held
  <2> QED
    BY <2>1, <2>2, <2>3, <2>4, <2>5, <1>t
<1>12. ASSUME NEW w \in Watchers, NEW r \in Runs, ReadReceipt(w, r) PROVE LockInv'
  <2>1. ProbeHolds'
    BY <1>12 DEF ReadReceipt, ProbeHolds, ProbeKey, Suspect
  <2>2. NothingHeldYet'
    BY <1>12 DEF ReadReceipt, NothingHeldYet, ProbeKey, Suspect, Held
  <2>3. CursorHeld'
    BY <1>12 DEF ReadReceipt, CursorHeld
  <2>4. ActiveHolds'
    BY <1>12 DEF ReadReceipt, ActiveHolds, Active
  <2>5. HeldRecorded'
    BY <1>12 DEF ReadReceipt, HeldRecorded, Active, Held
  <2> QED
    BY <2>1, <2>2, <2>3, <2>4, <2>5, <1>t
<1>13. CASE UNCHANGED vars
  BY <1>13, <1>t DEF vars, ProbeHolds, NothingHeldYet, CursorHeld, ActiveHolds,
             HeldRecorded, ProbeKey, Suspect, Held, Active
<1> QED
  BY <1>1, <1>2, <1>3, <1>4, <1>5, <1>6, <1>7, <1>8, <1>9, <1>10, <1>11,
     <1>12, <1>13 DEF Next, RunStep

LEMMA LockInvariant == Spec => []LockInv
<1>1. Init => LockInv
  <2> SUFFICES ASSUME Init PROVE LockInv
    OBVIOUS
  <2>1. TypeInv
    BY DEF Init, TypeInv, TypeOK, RunPCs, WatchPCs, Outcomes, ProbesARun, Probing
  <2> QED
    BY <2>1 DEF Init, LockInv, ProbeHolds, NothingHeldYet, CursorHeld,
                ActiveHolds, HeldRecorded, Held, Active
<1> QED
  BY <1>1, LockStep, PTL DEF Spec

(* Runs that share a root or a declared lock never execute together.         *)
THEOREM MutualExclusion == Spec => []ExclusiveExecution
<1>1. LockInv => ExclusiveExecution
  BY DEF LockInv, ActiveHolds, ExclusiveExecution
<1> QED
  BY <1>1, LockInvariant, PTL

(* The lock files of an executing run name it.                               *)
THEOREM OwnersRecorded == Spec => []OwnerRecorded
<1>1. LockInv => OwnerRecorded
  BY DEF LockInv, ActiveHolds, HeldRecorded, OwnerRecorded, Held
<1> QED
  BY <1>1, LockInvariant, PTL

-----------------------------------------------------------------------------
(* Nested runs *)

Refusable == {"lock", "truncate", "write", "contended", "admitted", "executing"}

\* A nested run exists only once its parent executed, and passes the probe only
\* when the parent no longer does.
NestedInv ==
    \A r \in Runs :
        ParentOf[r] # Nobody /\ pc[r] # "idle"
        => /\ pc[ParentOf[r]] \in {"executing", "release", "ended", "crashed"}
           /\ pc[r] \in Refusable => pc[ParentOf[r]] # "executing"

\* The lock of a run that executes is held by it, and its file names it.
LEMMA ExecutingIsVisible ==
    ASSUME LockInv, NEW r \in Runs, pc[r] = "executing"
    PROVE  holder[RootOf[r]] = r /\ content[RootOf[r]] = r
BY DEF LockInv, ActiveHolds, HeldRecorded, Held, Active

\* The run whose label a step changes took that step.
LEMMA WhoMoves ==
    ASSUME TypeOK, [Next]_vars, NEW r \in Runs, pc'[r] # pc[r]
    PROVE  /\ Start(r) \/ RunStep(r) \/ Crash(r)
           /\ \A a \in Actors : a # r => pc'[a] = pc[a]
<1> USE DEF TypeOK, Goto
<1>1. ASSUME NEW q \in Runs, Start(q) \/ RunStep(q) \/ Crash(q)
      PROVE  \A a \in Actors : a # q => pc'[a] = pc[a]
  <2>1. CASE Probe(q)
    BY <2>1 DEF Probe, ProbeTake, ProbeGiveBack, ProbeContended,
                ProbeRead, ProbeResult
  <2>2. CASE Start(q) \/ Crash(q) \/ Truncate(q) \/ WriteId(q)
    BY <2>2 DEF Start, Crash, Truncate, WriteId
  <2>3. CASE \E k \in Keys : TryLock(q, k)
    BY <2>3 DEF TryLock
  <2>4. CASE ReadOwner(q) \/ AcquireFails(q) \/ RecordRunning(q)
    BY <2>4 DEF ReadOwner, AcquireFails, RecordRunning
  <2>5. CASE Finish(q) \/ Release(q)
    BY <2>5 DEF Finish, Release
  <2> QED
    BY <1>1, <2>1, <2>2, <2>3, <2>4, <2>5 DEF RunStep
<1>2. ASSUME NEW w \in Watchers, Probe(w) \/ \E q \in Runs : ReadReceipt(w, q)
      PROVE  pc'[r] = pc[r]
  BY <1>2 DEF Probe, ProbeTake, ProbeGiveBack, ProbeContended,
              ProbeRead, ProbeResult, ReadReceipt
<1> QED
  BY <1>1, <1>2 DEF Next, vars

\* Where a step of the run can take it, as far as nesting is concerned.
LEMMA RunMoves ==
    ASSUME TypeOK, NEW r \in Runs, Start(r) \/ RunStep(r) \/ Crash(r)
    PROVE  /\ pc'[r] # "idle"
           /\ pc[r] \in {"executing", "release", "ended", "crashed"}
              => pc'[r] \in {"release", "ended", "crashed"}
           /\ pc'[r] \in Refusable => pc[r] \in Refusable \/ Start(r) \/ Probe(r)
<1> USE DEF TypeOK, Goto, Refusable
<1>1. CASE Probe(r)
  BY <1>1 DEF Probe, ProbeTake, ProbeGiveBack, ProbeContended,
              ProbeRead, ProbeResult
<1>2. CASE Start(r) \/ Crash(r)
  BY <1>2 DEF Start, Crash
<1>3. CASE Truncate(r) \/ WriteId(r) \/ \E k \in Keys : TryLock(r, k)
  BY <1>3 DEF TryLock, Truncate, WriteId
<1>4. CASE ReadOwner(r) \/ AcquireFails(r) \/ RecordRunning(r)
  BY <1>4 DEF ReadOwner, AcquireFails, RecordRunning
<1>5. CASE Finish(r) \/ Release(r)
  BY <1>5 DEF Finish, Release
<1> QED
  BY <1>1, <1>2, <1>3, <1>4, <1>5 DEF RunStep

\* A probe about an executing run comes back with that run: the lock file
\* exists, its lock is in the run's hands, and the ID in it is the run's.
LEMMA ProbeSeesLiveRun ==
    ASSUME LockInv, NEW a \in Actors, Probe(a), pc[Suspect(a)] = "executing"
    PROVE  /\ Suspect(a) \in Runs
           /\ ~ProbeTake(a) /\ ~ProbeGiveBack(a)
           /\ content[ProbeKey(a)] = Suspect(a)
<1>t. TypeOK /\ ProbesARun
  BY DEF LockInv, TypeInv
<1>p. Suspect(a) \in Runs /\ ProbeKey(a) = RootOf[Suspect(a)]
  <2>1. pc[a] \in Probing
    BY DEF Probe, ProbeTake, ProbeGiveBack, ProbeContended,
           ProbeRead, Probing
  <2> QED
    BY <1>t, <2>1 DEF ProbesARun, ProbeKey
<1>1. holder[ProbeKey(a)] = Suspect(a) /\ content[ProbeKey(a)] = Suspect(a)
  BY <1>p, ExecutingIsVisible
<1>2. ~ProbeTake(a)
  BY <1>1, <1>p DEF ProbeTake
<1>3. ~ProbeGiveBack(a)
  <2> SUFFICES ASSUME ProbeGiveBack(a) PROVE FALSE
    OBVIOUS
  <2>1. holder[ProbeKey(a)] = a /\ pc[a] = "probeHold"
    BY DEF ProbeGiveBack, LockInv, ProbeHolds
  <2> QED
    BY <1>1, <2>1
<1>4. content[ProbeKey(a)] = Suspect(a)
  BY <1>1
<1> QED
  BY <1>p, <1>2, <1>3, <1>4

\* A nested run that leaves the probe for acquire has a parent that is over.
LEMMA ProbePassesDeadParent ==
    ASSUME LockInv, NEW c \in Runs, Probe(c), pc'[c] = "lock"
    PROVE  pc[ParentOf[c]] # "executing"
<1> SUFFICES ASSUME pc[Suspect(c)] = "executing" PROVE FALSE
  BY DEF Suspect
<1>t. TypeOK
  BY DEF LockInv, TypeInv
<1>1. ProbeContended(c) \/ ProbeRead(c)
  BY ProbeSeesLiveRun DEF Probe
<1>2. CASE ProbeContended(c)
  BY <1>2, <1>t DEF ProbeContended, Goto, TypeOK
<1>3. CASE ProbeRead(c)
  <2>1. content[ProbeKey(c)] = ParentOf[c]
    BY ProbeSeesLiveRun DEF Suspect
  <2> QED
    BY <1>3, <1>t, <2>1 DEF ProbeRead, ProbeResult, Goto, TypeOK
<1> QED
  BY <1>1, <1>2, <1>3

LEMMA NestedStep == LockInv /\ NestedInv /\ [Next]_vars => NestedInv'
<1> SUFFICES ASSUME LockInv, NestedInv, [Next]_vars,
                    NEW c \in Runs, ParentOf[c] # Nobody, pc'[c] # "idle"
             PROVE  /\ pc'[ParentOf[c]] \in {"executing", "release", "ended", "crashed"}
                    /\ pc'[c] \in Refusable => pc'[ParentOf[c]] # "executing"
  BY DEF NestedInv
<1>1. ParentOf[c] \in Runs /\ TypeOK
  BY DEF LockInv, TypeInv
<1>2. CASE pc'[c] = pc[c]
  <2>1. /\ pc[ParentOf[c]] \in {"executing", "release", "ended", "crashed"}
        /\ pc[c] \in Refusable => pc[ParentOf[c]] # "executing"
    BY <1>2 DEF NestedInv
  <2>2. CASE pc'[ParentOf[c]] = pc[ParentOf[c]]
    BY <1>2, <2>1, <2>2
  <2>3. CASE pc'[ParentOf[c]] # pc[ParentOf[c]]
    BY <1>1, <2>1, <2>3, WhoMoves, RunMoves
  <2> QED
    BY <2>2, <2>3
<1>3. CASE pc'[c] # pc[c]
  <2>1. Start(c) \/ RunStep(c) \/ Crash(c)
    BY <1>1, <1>3, WhoMoves
  <2>2. CASE Start(c)
    BY <1>1, <1>3, <2>2, WhoMoves DEF Start, Goto, TypeOK, Refusable
  <2>3. CASE ~Start(c)
    <3>1. pc[c] # "idle"
      BY <2>1, <2>3 DEF RunStep, Crash, Probe, ProbeTake,
         ProbeGiveBack, ProbeContended, ProbeRead, TryLock, Truncate, WriteId,
         ReadOwner, AcquireFails, RecordRunning, Finish, Release
    <3>2. /\ pc[ParentOf[c]] \in {"executing", "release", "ended", "crashed"}
          /\ pc[c] \in Refusable => pc[ParentOf[c]] # "executing"
      BY <3>1 DEF NestedInv
    <3>3. CASE ParentOf[c] = c
      BY <1>1, <2>1, <3>2, <3>3, RunMoves DEF Refusable
    <3>4. CASE ParentOf[c] # c
      <4>1. pc'[ParentOf[c]] = pc[ParentOf[c]]
        BY <1>1, <1>3, <3>4, WhoMoves
      <4>2. ASSUME pc'[c] \in Refusable, pc[c] \notin Refusable
            PROVE  pc[ParentOf[c]] # "executing"
        <5>1. Probe(c)
          BY <1>1, <2>1, <2>3, <4>2, RunMoves
        <5>2. pc'[c] = "lock"
          BY <1>1, <4>2, <5>1 DEF Probe, ProbeTake, ProbeGiveBack,
             ProbeContended, ProbeRead, ProbeResult, Goto, TypeOK, Refusable
        <5> QED
          BY <5>1, <5>2, ProbePassesDeadParent
      <4> QED
        BY <3>2, <4>1, <4>2
    <3> QED
      BY <3>3, <3>4
  <2> QED
    BY <2>2, <2>3
<1> QED
  BY <1>2, <1>3

(* No nested run is admitted while its parent executes.                      *)
THEOREM NestedRunsRefused == Spec => []NestedRunRefused
<1>1. Init => NestedInv
  BY DEF Init, NestedInv
<1>2. LockInv /\ NestedInv => NestedRunRefused
  BY DEF NestedInv, NestedRunRefused, Active, Refusable
<1> QED
  BY <1>1, <1>2, NestedStep, LockInvariant, PTL DEF Spec

-----------------------------------------------------------------------------
(* Status *)

(* No executing run is ever reported stale.                                  *)
THEOREM LiveRunsNeverStale == Spec => LiveRunNeverStale
<1>1. LockInv /\ [Next]_vars =>
        [\A w \in Watchers :
            verdict[w] = "none" /\ verdict'[w] = "stale"
                => pc[subject[w]] # "executing"]_vars
  <2> SUFFICES ASSUME LockInv, Next, NEW w \in Watchers,
                      verdict[w] = "none", verdict'[w] = "stale",
                      pc[subject[w]] = "executing"
               PROVE  FALSE
    OBVIOUS
  <2>t. TypeOK
    BY DEF LockInv, TypeInv
  <2>1. Probe(w)
    <3>1. ASSUME NEW r \in Runs, Start(r) \/ RunStep(r) \/ Crash(r)
          PROVE  verdict'[w] = verdict[w]
      BY <3>1, <2>t DEF TypeOK, Start, RunStep, Crash, Probe,
         ProbeTake, ProbeGiveBack, ProbeContended, ProbeRead, ProbeResult,
         TryLock, Truncate, WriteId, ReadOwner, AcquireFails, RecordRunning,
         Finish, Release
    <3>2. ASSUME NEW v \in Watchers, NEW r \in Runs, ReadReceipt(v, r)
          PROVE  verdict'[w] # "stale"
      BY <3>2, <2>t DEF TypeOK, ReadReceipt
    <3>3. ASSUME NEW v \in Watchers, Probe(v), v # w
          PROVE  verdict'[w] = verdict[w]
      BY <3>3, <2>t DEF TypeOK, Probe, ProbeTake, ProbeGiveBack,
         ProbeContended, ProbeRead, ProbeResult
    <3> QED
      BY <3>1, <3>2, <3>3 DEF Next
  <2>2. Suspect(w) = subject[w]
    BY DEF Suspect
  <2>3. ProbeContended(w) \/ ProbeRead(w)
    BY <2>1, <2>2, ProbeSeesLiveRun DEF Probe
  <2>4. CASE ProbeContended(w)
    BY <2>4 DEF ProbeContended
  <2>5. CASE ProbeRead(w)
    <3>1. content[ProbeKey(w)] = subject[w]
      BY <2>1, <2>2, ProbeSeesLiveRun
    <3> QED
      BY <2>5, <2>t, <3>1 DEF ProbeRead, ProbeResult, TypeOK
  <2> QED
    BY <2>3, <2>4, <2>5
<1> QED
  BY <1>1, LockInvariant, PTL DEF Spec, LiveRunNeverStale

-----------------------------------------------------------------------------
(* The lock protocol implements CiExclusion *)

\* Where one step can take the abstract phase of the run that takes it.
LEMMA PhaseMoves ==
    ASSUME LockInv, NEW r \in Runs, Start(r) \/ RunStep(r) \/ Crash(r)
    PROVE  \/ PhaseOf(r)' = PhaseOf(r)
           \/ PhaseOf(r) # "gone" /\ PhaseOf(r)' = "gone"
           \/ /\ PhaseOf(r) = "waiting" /\ PhaseOf(r)' = "active"
              /\ Needs[r] \subseteq Held(r)
<1>t. TypeOK
  BY DEF LockInv, TypeInv
<1> USE DEF TypeOK, RunPCs, Goto, PhaseOf, Active
<1>1. CASE Probe(r)
  BY <1>t, <1>1 DEF Probe, ProbeTake, ProbeGiveBack,
                    ProbeContended, ProbeRead, ProbeResult
<1>2. CASE Start(r) \/ Crash(r) \/ Truncate(r)
  BY <1>t, <1>2 DEF Start, Crash, Truncate
<1>3. CASE WriteId(r)
  BY <1>t, <1>3 DEF WriteId
<1>4. CASE \E k \in Keys : TryLock(r, k)
  BY <1>t, <1>4 DEF TryLock
<1>5. CASE ReadOwner(r) \/ AcquireFails(r) \/ RecordRunning(r)
  BY <1>t, <1>5 DEF ReadOwner, AcquireFails, RecordRunning
<1>6. CASE Finish(r) \/ Release(r)
  BY <1>t, <1>6 DEF Finish, Release
<1> QED
  BY <1>1, <1>2, <1>3, <1>4, <1>5, <1>6 DEF RunStep

(* Every step of the protocol admits one run that conflicts with no active   *)
(* one, makes one run leave for good, or changes nothing an observer sees.   *)
THEOREM ExclusionImplemented == Spec => ImplementsExclusion
<1>1. Init => Abstract!Init
  BY DEF Init, Abstract!Init, PhaseOf, Active
<1>2. LockInv /\ [Next]_vars => [Abstract!Next]_([r \in Runs |-> PhaseOf(r)])
  <2> SUFFICES ASSUME LockInv, [Next]_vars
               PROVE  \/ Abstract!Next
                      \/ [r \in Runs |-> PhaseOf(r)]' = [r \in Runs |-> PhaseOf(r)]
    OBVIOUS
  <2>t. TypeOK
    BY DEF LockInv, TypeInv
  <2>1. CASE \A r \in Runs : pc'[r] = pc[r]
    BY <2>1 DEF PhaseOf, Active
  <2>2. ASSUME NEW r \in Runs, pc'[r] # pc[r]
        PROVE  \/ Abstract!Next
               \/ [q \in Runs |-> PhaseOf(q)]' = [q \in Runs |-> PhaseOf(q)]
    <3>1. Start(r) \/ RunStep(r) \/ Crash(r)
      BY <2>t, <2>2, WhoMoves
    <3>2. \A q \in Runs : q # r => PhaseOf(q)' = PhaseOf(q)
      BY <2>t, <2>2, WhoMoves DEF PhaseOf, Active
    <3>3. [q \in Runs |-> PhaseOf(q)]'
            = [[q \in Runs |-> PhaseOf(q)] EXCEPT ![r] = PhaseOf(r)']
      BY <3>2
    <3>4. CASE PhaseOf(r)' = PhaseOf(r)
      BY <3>2, <3>4
    <3>5. CASE PhaseOf(r) # "gone" /\ PhaseOf(r)' = "gone"
      BY <3>3, <3>5 DEF Abstract!Next, Abstract!Leave
    <3>6. CASE /\ PhaseOf(r) = "waiting" /\ PhaseOf(r)' = "active"
               /\ Needs[r] \subseteq Held(r)
      <4>1. \A q \in Runs : Abstract!Conflict(r, q) => ~Active(q)
        BY <3>6 DEF LockInv, ActiveHolds, Held, Abstract!Conflict
      <4>2. \A q \in Runs : PhaseOf(q) = "active" => Active(q)
        BY DEF PhaseOf
      <4> QED
        BY <3>3, <3>6, <4>1, <4>2 DEF Abstract!Next, Abstract!Admit
    <3> QED
      BY <3>1, <3>4, <3>5, <3>6, PhaseMoves
  <2> QED
    BY <2>1, <2>2
<1> QED
  BY <1>1, <1>2, LockInvariant, PTL DEF Spec, ImplementsExclusion, Abstract!Spec

-----------------------------------------------------------------------------
(* Contention *)

\* Nothing but contention can keep these runs back, or has.
Hopeful(r) == pc[r] \in {"lock", "truncate", "write"}
Backing(r) == pc[r] \in {"contended", "release", "ended"}

\* A run got as far as it can, or failed, or died.
Over == {"failed", "completed"}
Through == \E r \in Runs :
    pc[r] \in {"admitted", "executing", "crashed"} \/ outcome[r] \in Over

\* Only a run that executed, or failed, has such an outcome or a receipt.
OutcomeFits == \A r \in Runs :
    /\ outcome[r] \in Over => pc[r] \in {"release", "ended", "crashed"}
    /\ receipt[r] # "none" => pc[r] \in {"executing", "crashed"} \/ outcome[r] \in Over

\* What a run holds comes before all that it lacks.
InOrder == \A r \in Runs : Hopeful(r) =>
    \A j \in Held(r), k \in Needs[r] \ Held(r) : Before(j, k)

\* A run still on its way holds a key behind all keys of those that back out.
Ahead(h, k) ==
    /\ Hopeful(h) /\ k \in Held(h)
    /\ \A b \in Runs : Backing(b) => \A j \in Held(b) : Before(j, k)
Leading == (\E r \in Runs : Backing(r)) => \E h \in Runs, k \in Keys : Ahead(h, k)

\* Nobody asks about a run.
Quiet ==
    /\ \A a \in Actors : pc[a] \notin Probing
    /\ \A w \in Watchers, k \in Keys : holder[k] # w

Undecided == Quiet /\ InOrder /\ Leading

OrderInv == OutcomeFits /\ (Through \/ Undecided)

\* Before is an order, in which no root comes behind another key, and what is behind i
\* is behind all that i is not before.
LEMMA BeforeOrders ==
    ASSUME NEW i \in Keys, NEW j \in Keys, NEW k \in Keys
    PROVE  /\ Before(i, j) /\ Before(j, k) => Before(i, k)
           /\ ~Before(i, i)
           /\ j \in Roots => ~Before(i, j)
           /\ Before(i, j) /\ ~Before(i, k) => k = j \/ Before(k, j)
<1>1. \A l \in Resources : l \in Int /\ l \notin Roots
  BY LocksAssumption
<1>2. \A l \in Keys : l \in Roots \/ l \in Resources
  OBVIOUS
<1>3. ASSUME i \in Resources, j \in Resources, k \in Resources
      PROVE  (i < j /\ j < k => i < k) /\ (i < j /\ ~(i < k) => k < j)
  <2>1. i \in Int /\ j \in Int /\ k \in Int
    BY <1>1, <1>3
  <2> QED
    BY <2>1
<1>4. i \in Resources => ~(i < i)
  BY <1>1
<1> HIDE LocksAssumption DEF Keys, Actors, Needs
<1> QED
  BY <1>1, <1>2, <1>3, <1>4, Zenon DEF Before

LEMMA OutcomeStep == TypeInv /\ OutcomeFits /\ [Next]_vars => OutcomeFits'
<1> SUFFICES ASSUME TypeInv, OutcomeFits, [Next]_vars PROVE OutcomeFits'
  OBVIOUS
<1> USE DEF TypeInv, TypeOK, Goto, OutcomeFits, Over
<1>1. ASSUME NEW r \in Runs, Start(r) \/ Crash(r) PROVE OutcomeFits'
  BY <1>1 DEF Start, Crash
<1>2. ASSUME NEW a \in Actors, Probe(a) PROVE OutcomeFits'
  <2>1. CASE ProbeTake(a) \/ ProbeContended(a)
    BY <2>1 DEF ProbeTake, ProbeContended
  <2>2. ASSUME NEW owner, ProbeResult(a, owner), pc[a] \in {"probeHold", "probeRead"}, UNCHANGED receipt
        PROVE  OutcomeFits'
    BY <2>2 DEF ProbeResult
  <2> QED
    BY <1>2, <2>1, <2>2 DEF Probe, ProbeGiveBack, ProbeRead
<1>3. ASSUME NEW r \in Runs, NEW k \in Keys, TryLock(r, k) PROVE OutcomeFits'
  BY <1>3 DEF TryLock
<1>4. ASSUME NEW r \in Runs, Truncate(r) \/ WriteId(r) \/ Release(r) PROVE OutcomeFits'
  BY <1>4 DEF Truncate, WriteId, Release
<1>5. ASSUME NEW r \in Runs, ReadOwner(r) \/ AcquireFails(r) PROVE OutcomeFits'
  BY <1>5 DEF ReadOwner, AcquireFails
<1>6. ASSUME NEW r \in Runs, RecordRunning(r) \/ Finish(r) PROVE OutcomeFits'
  BY <1>6 DEF RecordRunning, Finish
<1>7. ASSUME NEW w \in Watchers, NEW r \in Runs, ReadReceipt(w, r) PROVE OutcomeFits'
  BY <1>7 DEF ReadReceipt
<1>8. CASE UNCHANGED vars
  BY <1>8 DEF vars
<1> QED
  BY <1>1, <1>2, <1>3, <1>4, <1>5, <1>6, <1>7, <1>8 DEF Next, RunStep

\* Who got through stays through.
LEMMA ThroughStays == TypeInv /\ OutcomeFits /\ Through /\ [Next]_vars => Through'
<1> SUFFICES ASSUME TypeInv, OutcomeFits, [Next]_vars, NEW q \in Runs,
                    pc[q] \in {"admitted", "executing", "crashed"} \/ outcome[q] \in Over
             PROVE  pc'[q] \in {"admitted", "executing", "crashed"} \/ outcome'[q] \in Over
  BY DEF Through
<1> DEFINE Far == pc'[q] \in {"admitted", "executing", "crashed"} \/ outcome'[q] \in Over
<1> USE DEF TypeInv, TypeOK, Goto, OutcomeFits, Over
<1>1. ASSUME NEW r \in Runs, Start(r) \/ Crash(r) PROVE Far
  BY <1>1 DEF Start, Crash
<1>2. ASSUME NEW a \in Actors, Probe(a) PROVE Far
  <2>1. CASE ProbeTake(a) \/ ProbeContended(a)
    BY <2>1 DEF ProbeTake, ProbeContended
  <2>2. ASSUME NEW owner, ProbeResult(a, owner), pc[a] \in {"probeHold", "probeRead"}
        PROVE  Far
    BY <2>2 DEF ProbeResult
  <2> QED
    BY <1>2, <2>1, <2>2 DEF Probe, ProbeGiveBack, ProbeRead
<1>3. ASSUME NEW r \in Runs, NEW k \in Keys, TryLock(r, k) PROVE Far
  BY <1>3 DEF TryLock
<1>4. ASSUME NEW r \in Runs, Truncate(r) \/ WriteId(r) \/ Release(r) PROVE Far
  BY <1>4 DEF Truncate, WriteId, Release
<1>5. ASSUME NEW r \in Runs, ReadOwner(r) \/ AcquireFails(r) PROVE Far
  BY <1>5 DEF ReadOwner, AcquireFails
<1>6. ASSUME NEW r \in Runs, RecordRunning(r) \/ Finish(r) PROVE Far
  BY <1>6 DEF RecordRunning, Finish
<1>7. ASSUME NEW w \in Watchers, NEW r \in Runs, ReadReceipt(w, r) PROVE Far
  BY <1>7 DEF ReadReceipt
<1>8. CASE UNCHANGED vars
  BY <1>8 DEF vars
<1> QED
  BY <1>1, <1>2, <1>3, <1>4, <1>5, <1>6, <1>7, <1>8 DEF Next, RunStep

\* Until then nobody asks about a run, as none has executed.
LEMMA NobodyProbes ==
    ASSUME TypeInv, OutcomeFits, ~Through, Undecided, [Next]_vars
    PROVE  Quiet' \/ Through'
<1> USE DEF TypeInv, TypeOK, Goto, OutcomeFits, Over, Through, Undecided, Quiet, Probing
<1>1. ASSUME NEW r \in Runs, Start(r) \/ Crash(r) PROVE Quiet'
  BY <1>1 DEF Start, Crash
<1>2. ASSUME NEW a \in Actors, Probe(a) PROVE FALSE
  BY <1>2 DEF Probe, ProbeTake, ProbeGiveBack, ProbeContended, ProbeRead
<1>3. ASSUME NEW r \in Runs, NEW k \in Keys, TryLock(r, k) PROVE Quiet'
  BY <1>3 DEF TryLock
<1>4. ASSUME NEW r \in Runs, Truncate(r) \/ WriteId(r) \/ Release(r)
      PROVE Quiet'
  BY <1>4 DEF Truncate, WriteId, Release
<1>5. ASSUME NEW r \in Runs, ReadOwner(r) \/ AcquireFails(r)
      PROVE Quiet'
  BY <1>5 DEF ReadOwner, AcquireFails
<1>6. ASSUME NEW r \in Runs, RecordRunning(r) \/ Finish(r)
      PROVE Quiet'
  BY <1>6 DEF RecordRunning, Finish
<1>7. ASSUME NEW w \in Watchers, NEW r \in Runs, ReadReceipt(w, r) PROVE FALSE
  BY <1>7 DEF ReadReceipt
<1>8. CASE UNCHANGED vars
  BY <1>8 DEF vars
<1> QED
  BY <1>1, <1>2, <1>3, <1>4, <1>5, <1>6, <1>7, <1>8 DEF Next, RunStep

\* A step that takes no lock and lets nobody down leaves the leader where it is.
LEMMA LeaderStays ==
    ASSUME InOrder, Leading,
           \A r \in Runs : Held(r)' \subseteq Held(r),
           \A r \in Runs : Hopeful(r)' => Hopeful(r) \/ Held(r)' = {},
           \A r \in Runs : Hopeful(r) => Hopeful(r)' /\ Held(r)' = Held(r),
           \A r \in Runs : Backing(r)' => Backing(r)
    PROVE  InOrder' /\ Leading'
<1>1. InOrder'
  BY DEF InOrder
<1>2. Leading'
  <2> SUFFICES ASSUME \E r \in Runs : Backing(r)' PROVE \E h \in Runs, k \in Keys : Ahead(h, k)'
    BY DEF Leading
  <2>1. PICK h \in Runs, k \in Keys : Ahead(h, k)
    BY DEF Leading
  <2>2. Ahead(h, k)'
    BY <2>1 DEF Ahead
  <2> QED
    BY <2>2
<1> QED
  BY <1>1, <1>2

\* Before its first key a run holds none.
LEMMA NextKeyBehind ==
    ASSUME LockInv, InOrder, NEW r \in Runs, pc[r] = "lock", NEW k \in Keys, IsNextKey(r, k)
    PROVE  \A j \in Held(r) : Before(j, k)
BY DEF InOrder, Hopeful, IsNextKey

\* The lock is free: the run has one more key, behind those that it had.
LEMMA TakeKeepsOrder ==
    ASSUME LockInv, InOrder, Leading, NEW r \in Runs, NEW k \in Keys,
           TryLock(r, k), holder[k] = Nobody
    PROVE  InOrder' /\ Leading'
<1> USE DEF LockInv, TypeInv, TypeOK, Goto
<1>1. /\ pc[r] = "lock" /\ pc' = [pc EXCEPT ![r] = "truncate"]
      /\ holder' = [holder EXCEPT ![k] = r] /\ IsNextKey(r, k)
  BY DEF TryLock
<1>2. /\ \A b \in Runs : b # r => Held(b)' = Held(b)
      /\ Held(r)' = Held(r) \cup {k}
  BY <1>1 DEF Held
<1>3. \A b \in Runs : (Hopeful(b)' <=> Hopeful(b)) /\ (Backing(b)' <=> Backing(b))
  BY <1>1 DEF Hopeful, Backing
<1>4. InOrder'
  <2> SUFFICES ASSUME NEW b \in Runs, Hopeful(b), NEW i \in Held(b)', NEW j \in Needs[b] \ Held(b)'
               PROVE  Before(i, j)
    BY <1>3 DEF InOrder
  <2>1. CASE b # r
    BY <2>1, <1>2 DEF InOrder
  <2>2. CASE b = r /\ i = k
    BY <2>2, <1>1, <1>2 DEF IsNextKey
  <2>3. CASE b = r /\ i # k
    BY <2>3, <1>2 DEF InOrder
  <2> QED
    BY <2>1, <2>2, <2>3
<1>5. Leading'
  <2> SUFFICES ASSUME \E b \in Runs : Backing(b)' PROVE \E h \in Runs, j \in Keys : Ahead(h, j)'
    BY DEF Leading
  <2>1. PICK h \in Runs, j \in Keys : Ahead(h, j)
    BY <1>3 DEF Leading
  <2>2. \A b \in Runs : Backing(b) => Held(b)' = Held(b)
    BY <1>1, <1>2 DEF Backing
  <2>3. Ahead(h, j)'
    BY <2>1, <2>2, <1>2, <1>3 DEF Ahead
  <2> QED
    BY <2>3
<1> QED
  BY <1>4, <1>5

\* The lock is another's.  If that one leads or follows on its way, the run that backs out
\* was behind it; if it backs out too, it is behind the one that leads.
LEMMA YieldKeepsOrder ==
    ASSUME LockInv, ~Through, Undecided, NEW r \in Runs, NEW k \in Keys,
           TryLock(r, k), holder[k] # Nobody
    PROVE  InOrder' /\ Leading'
<1> USE DEF LockInv, TypeInv, TypeOK, Goto
<1>1. /\ pc[r] = "lock" /\ pc' = [pc EXCEPT ![r] = "contended"]
      /\ UNCHANGED holder /\ IsNextKey(r, k)
  BY DEF TryLock
<1>2. \A b \in Runs : Held(b)' = Held(b)
  BY <1>1 DEF Held
<1>3. /\ \A b \in Runs : b # r => (Hopeful(b)' <=> Hopeful(b)) /\ (Backing(b)' <=> Backing(b))
      /\ ~Hopeful(r)' /\ Backing(r)' /\ Hopeful(r) /\ ~Backing(r)
  BY <1>1 DEF Hopeful, Backing
<1>4. InOrder'
  BY <1>2, <1>3 DEF InOrder, Undecided
<1>5. \A j \in Held(r) : Before(j, k)
  BY <1>1, NextKeyBehind DEF Undecided
<1>6. PICK q \in Runs : k \in Held(q) /\ q # r
  <2>1. holder[k] \in Runs
    BY DEF Undecided, Quiet
  <2> QED
    BY <2>1, <1>1 DEF Held, IsNextKey
<1>7. Hopeful(q) \/ Backing(q)
  BY <1>6 DEF Hopeful, Backing, Undecided, Quiet, Through, NothingHeldYet, Held, RunPCs, Probing
<1>8. \E h \in Runs, j \in Keys : Ahead(h, j)'
  <2>1. CASE \A b \in Runs : Backing(b) => \A j \in Held(b) : Before(j, k)
    <3>1. ~Backing(q)
      BY <2>1, <1>6, BeforeOrders
    <3>2. Ahead(q, k)'
      BY <2>1, <3>1, <1>2, <1>3, <1>5, <1>6, <1>7 DEF Ahead
    <3> QED
      BY <3>2
  <2>2. CASE \E b \in Runs : Backing(b) /\ \E j \in Held(b) : ~Before(j, k)
    <3>1. PICK b \in Runs, i \in Keys : Backing(b) /\ i \in Held(b) /\ ~Before(i, k)
      BY <2>2 DEF Held
    <3>2. PICK h \in Runs, j \in Keys : Ahead(h, j)
      BY <3>1 DEF Undecided, Leading
    <3>3. Before(i, j) /\ i \in Keys
      BY <3>1, <3>2 DEF Ahead, Held
    <3>4. k = j \/ Before(k, j)
      BY <3>1, <3>3, BeforeOrders
    <3>5. h # r
      <4>1. SUFFICES ASSUME h = r PROVE FALSE
        OBVIOUS
      <4>2. j \in Held(r)
        BY <3>2, <4>1 DEF Ahead
      <4>3. Before(j, k)
        BY <4>2, <1>5
      <4> QED
        BY <4>3, <3>4, BeforeOrders
    <3>6. \A l \in Held(r) : Before(l, j)
      <4> SUFFICES ASSUME NEW l \in Held(r) PROVE Before(l, j)
        OBVIOUS
      <4>1. Before(l, k) /\ l \in Keys
        BY <1>5 DEF Held
      <4> QED
        BY <4>1, <3>4, BeforeOrders
    <3>7. Ahead(h, j)'
      BY <3>2, <3>5, <3>6, <1>2, <1>3 DEF Ahead
    <3> QED
      BY <3>7
  <2> QED
    BY <2>1, <2>2
<1> QED
  BY <1>4, <1>8 DEF Leading

LEMMA OrderStep == LockInv /\ OrderInv /\ [Next]_vars => OrderInv'
<1> SUFFICES ASSUME LockInv, OrderInv, [Next]_vars PROVE OrderInv'
  OBVIOUS
<1>1. OutcomeFits'
  BY OutcomeStep DEF LockInv, OrderInv
<1> SUFFICES ASSUME ~Through, Undecided, ~Through' PROVE InOrder' /\ Leading'
  BY <1>1, ThroughStays, NobodyProbes DEF OrderInv, LockInv, Undecided
<1> USE DEF LockInv, TypeInv, TypeOK, Goto
<1>2. ASSUME NEW r \in Runs, Start(r) PROVE InOrder' /\ Leading'
  <2>1. pc[r] = "idle" /\ pc'[r] \in {"lock", "probe"} /\ UNCHANGED holder
    BY <1>2 DEF Start
  <2>2. Held(r) = {}
    BY <2>1 DEF NothingHeldYet
  <2>3. \A b \in Runs : Held(b)' = Held(b)
    BY <2>1 DEF Held
  <2>4. \A b \in Runs : b # r => pc'[b] = pc[b]
    BY <1>2 DEF Start
  <2> QED
    BY <2>1, <2>2, <2>3, <2>4, LeaderStays DEF Undecided, Hopeful, Backing
<1>3. ASSUME NEW a \in Actors, Probe(a) PROVE FALSE
  BY <1>3 DEF Probe, ProbeTake, ProbeGiveBack, ProbeContended, ProbeRead, Undecided, Quiet, Probing
<1>4. ASSUME NEW r \in Runs, NEW k \in Keys, TryLock(r, k) PROVE InOrder' /\ Leading'
  BY <1>4, TakeKeepsOrder, YieldKeepsOrder DEF Undecided
<1>5. ASSUME NEW r \in Runs, Truncate(r) \/ WriteId(r) PROVE InOrder' /\ Leading'
  <2>1. /\ Hopeful(r) /\ pc'[r] \in {"write", "lock", "admitted"} /\ UNCHANGED holder
        /\ \A b \in Runs : b # r => pc'[b] = pc[b]
    BY <1>5 DEF Truncate, WriteId, Hopeful
  <2>2. pc'[r] # "admitted"
    BY DEF Through
  <2>3. \A b \in Runs : Held(b)' = Held(b)
    BY <2>1 DEF Held
  <2> QED
    BY <2>1, <2>2, <2>3, LeaderStays DEF Undecided, Hopeful, Backing
<1>6. ASSUME NEW r \in Runs, ReadOwner(r) PROVE InOrder' /\ Leading'
  <2>1. /\ pc[r] = "contended" /\ pc'[r] = "release" /\ UNCHANGED holder
        /\ \A b \in Runs : b # r => pc'[b] = pc[b]
    BY <1>6 DEF ReadOwner
  <2>2. \A b \in Runs : Held(b)' = Held(b)
    BY <2>1 DEF Held
  <2> QED
    BY <2>1, <2>2, LeaderStays DEF Undecided, Hopeful, Backing
<1>7. ASSUME NEW r \in Runs, AcquireFails(r) \/ RecordRunning(r) \/ Finish(r) \/ Crash(r) PROVE FALSE
  BY <1>7 DEF AcquireFails, RecordRunning, Finish, Crash, Through, Over
<1>8. ASSUME NEW r \in Runs, Release(r) PROVE InOrder' /\ Leading'
  <2>1. /\ pc[r] = "release" /\ pc'[r] \in {"release", "ended"}
        /\ \A b \in Runs : b # r => pc'[b] = pc[b]
    BY <1>8 DEF Release
  <2>2. \A b \in Runs : Held(b)' \subseteq Held(b) /\ (b # r => Held(b)' = Held(b))
    BY <1>8 DEF Release, Held, IsLastKey
  <2> QED
    BY <2>1, <2>2, LeaderStays DEF Undecided, Hopeful, Backing
<1>9. ASSUME NEW w \in Watchers, NEW r \in Runs, ReadReceipt(w, r) PROVE FALSE
  BY <1>9 DEF ReadReceipt, Through, OrderInv, OutcomeFits
<1>10. CASE UNCHANGED vars
  BY <1>10, LeaderStays DEF vars, Undecided, Hopeful, Backing, Held
<1> QED
  BY <1>2, <1>3, <1>4, <1>5, <1>6, <1>7, <1>8, <1>9, <1>10 DEF Next, RunStep

(* However many runs contend for however many keys: when all that were       *)
(* started are over and none of them failed or died, one has completed,      *)
(* because each walks its keys in the order of all (slices.Sorted, acquire). *)
THEOREM SomeRunGetsThroughHolds == Spec => []SomeRunGetsThrough
<1>1. Init => OrderInv
  BY DEF Init, OrderInv, OutcomeFits, Undecided, Quiet, InOrder, Leading, Hopeful, Backing, Over, Probing
<1>2. LockInv /\ OrderInv => SomeRunGetsThrough
  <2> SUFFICES ASSUME LockInv, OrderInv, \E r \in Runs : pc[r] = "ended",
                      \A r \in Runs : pc[r] = "idle" \/ (pc[r] = "ended" /\ outcome[r] # "failed")
               PROVE  \E r \in Runs : outcome[r] = "completed"
    BY DEF SomeRunGetsThrough
  <2>1. ~Leading
    BY DEF Leading, Ahead, Hopeful, Backing
  <2> QED
    BY <2>1 DEF OrderInv, Undecided, Through, OutcomeFits, Over
<1> QED
  BY <1>1, <1>2, OrderStep, LockInvariant, PTL DEF Spec

=============================================================================
