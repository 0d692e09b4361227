---------------------------- MODULE LifecycleProofs ----------------------------
(***************************************************************************)
(* Theorems about what `dva up` and its kin start, need and take down:     *)
(* PlanResolve, for any files, plan names and depths; PlanComposition, for *)
(* any children, dependencies, entries and failures; Tunnels, for any      *)
(* commands, declarations, ports and orders of entries; and SourceFetch,   *)
(* for any commands, origins, commits and mishaps.                         *)
(*                                                                         *)
(* A plan has one actor: its invariant says how far the loops over waves,  *)
(* children and entries have come. The invariants of the tunnels and of    *)
(* the sources speak of one command and its cloudflareds, or its git,      *)
(* alone, and every step is a step of one of them, so each action is       *)
(* looked at for the command that takes it. Resolving is one step: there   *)
(* the work is in where the names lead.                                    *)
(***************************************************************************)
EXTENDS PlanComposition, PlanResolve, Tunnels, SourceFetch, FiniteSetTheorems, WellFoundedInduction,
        TLAPS

(* A command on a composition plan *)

CmdState == [verb : Verbs, noWait : BOOLEAN, noRollback : BOOLEAN, step : Steps,
             undo : BOOLEAN, pos : Nat, entry : Nat, up : BOOLEAN, err : BOOLEAN]
SeenState == [touched : SUBSET Services, unread : SUBSET Services,
              sourceless : SUBSET Services, stuck : SUBSET Services,
              accepted : SUBSET Children, primary : {"none", "up", "ready"}]
RowState == {"up", "failed", "rolled_back", "rollback_failed", "not_started"}

PlanTyped ==
    /\ plan \in Seq(Children) /\ succeeded \in Seq(Children)
    /\ running \subseteq Services /\ deaths \in Nat /\ ctxDone \in BOOLEAN
    /\ cmd \in CmdState /\ seen \in SeenState
    /\ probe \in [answer : {"none", "ready", "unready"}, expired : BOOLEAN]
    /\ row \in [Children -> RowState]
    /\ outcome \in {"none", "up", "down", "failed"}

\* Kahn's algorithm: what is in the queue waits for nothing, and what left it has the
\* dependencies before it and the dependents above it; no wave is higher than need be.
Tight == \A c \in Children : wave[c] = 0 \/ \E d \in deps[c] \cap processed : wave[c] = wave[d] + 1

WavesInv ==
    /\ deps \in Graphs /\ wave \in [Children -> Nat]
    /\ waves \in {"running", "ok", "cycle", "unknown"}
    /\ processed \subseteq Children
    /\ waves # "unknown" =>
         /\ Known(deps)
         /\ inDegree = [c \in Children |-> Cardinality(deps[c] \ processed)]
         /\ queue = {c \in Children \ processed : deps[c] \subseteq processed}
         /\ \A c \in processed : deps[c] \subseteq processed
         /\ \A d \in processed : \A c \in Dependents(d) : wave[d] < wave[c]
         /\ Tight
    /\ waves = "ok" => processed = Children
    /\ waves = "cycle" => queue = {} /\ processed # Children

\* A command works on a plan that has all children once, sorted.
PlanSorted ==
    /\ cmd.step # "resolve" => waves # "running"
    /\ cmd.step \notin {"resolve", "done"} => waves = "ok"
    /\ cmd.step # "resolve" /\ waves = "ok" =>
         plan \in [1..Cardinality(Children) -> Children] /\ Sorted(plan)
    /\ cmd.step = "resolve" => ~cmd.undo /\ succeeded = <<>>
    /\ cmd.verb # "up" => succeeded = <<>>

\* Which command gets where, and with which child and entry.
At(S) == cmd.step \in S
VerbFits ==
    /\ At({"up", "ready"}) => cmd.verb \in {"up", "restart"} /\ ~cmd.undo
    /\ At({"query", "decide"}) => cmd.verb \in {"down", "stop", "status"} /\ ~cmd.undo
    /\ At({"down"}) => cmd.undo \/ cmd.verb \in {"down", "stop", "restart"}
    /\ cmd.undo => cmd.verb = "up" /\ At({"down", "done"})
    /\ cmd.verb = "down" => ~ctxDone
    /\ cmd.verb = "up" /\ outcome = "failed" => cmd.undo \/ At({"done"})
    /\ cmd.verb = "up" /\ seen.primary # "none" => outcome = "failed"

Placed ==
    /\ ~At({"resolve", "done"}) => cmd.pos \in DOMAIN (IF cmd.undo THEN succeeded ELSE plan)
    /\ At({"up", "ready"}) => cmd.entry \in 1..NumEntries[ThisOne]
    /\ At({"down"}) => cmd.entry \in 0..NumEntries[ThisOne]

\* What a report may say before anything was taken down, and of what was touched.
Untaken == \A c \in Children : row[c] \notin {"rolled_back", "rollback_failed"}
RowsTrue ==
    /\ cmd.verb \notin {"down", "stop"} /\ ~cmd.undo => Untaken
    /\ \A c \in Children : row[c] = "rolled_back" => EntriesOf(c) \cap running \subseteq seen.sourceless
    /\ cmd.verb = "up" =>
         \A c \in Children :
            row[c] = "not_started" /\ EntriesOf(c) \cap seen.touched # {} => At({"up"}) /\ c = ThisOne

\* The entries of the child in hand that were taken down already.
Excused == seen.stuck \cup seen.sourceless
DownSoFar ==
    At({"down"}) =>
        \A e \in 1..NumEntries[ThisOne] :
            cmd.entry < e /\ <<ThisOne, e>> \in running =>
                <<ThisOne, e>> \in (IF cmd.err THEN Excused ELSE seen.sourceless)

\* What came up is in the list to be taken down, and is down from its end on.
TouchedListed ==
    cmd.verb = "up" =>
        \A c \in Children : EntriesOf(c) \cap seen.touched # {} =>
            \/ \E j \in DOMAIN succeeded : succeeded[j] = c
            \/ At({"up"}) /\ c = ThisOne
            \/ row[c] = "failed" /\ seen.primary = "up"
UndoneSoFar ==
    /\ cmd.undo => \A j \in DOMAIN succeeded : cmd.pos < j \/ At({"done"}) =>
                        EntriesOf(succeeded[j]) \cap running \subseteq Excused
    /\ cmd.verb = "up" /\ outcome = "failed" /\ ~cmd.noRollback => cmd.undo \/ succeeded = <<>>

\* What `down` and `stop` have passed is down, as far as they could tell.
Passed(c) == EntriesOf(c) \cap running \subseteq Excused \cup seen.unread
TornSoFar ==
    /\ cmd.verb \in {"down", "stop"} =>
         /\ At({"query", "decide", "down"}) => \A j \in DOMAIN plan : cmd.pos < j => Passed(plan[j])
         /\ At({"decide"}) /\ ~cmd.up /\ ~cmd.err => Passed(ThisOne)
    /\ cmd.verb = "down" /\ Done => \A j \in DOMAIN plan : Passed(plan[j])

\* The children that are up, and those that are ready, are beginnings of the plan.
UpSoFar ==
    cmd.verb = "up" =>
        /\ Len(succeeded) <= Len(plan)
        /\ \A i \in 1..Len(succeeded) : succeeded[i] = plan[i]
        /\ At({"up"}) => Len(succeeded) + 1 = cmd.pos
        /\ At({"ready"}) => ~cmd.noWait /\ cmd.pos <= Len(succeeded)
ReadySoFar ==
    cmd.verb = "up" =>
        /\ At({"resolve"}) \/ cmd.noWait => seen.accepted = {}
        /\ At({"up"}) /\ ~cmd.noWait =>
             seen.accepted = {plan[j] : j \in {k \in 1..Len(succeeded) : ~SameWave(k, cmd.pos)}}
        /\ At({"ready"}) =>
             /\ seen.accepted = {plan[j] : j \in {k \in 1..Len(succeeded) : k < cmd.pos}}
             /\ SameWave(cmd.pos, Len(succeeded))
             /\ Len(succeeded) < Len(plan) => ~SameWave(Len(succeeded), Len(succeeded) + 1)
TakenSoFar ==
    cmd.undo =>
        \A j \in DOMAIN succeeded :
            row[succeeded[j]] \in {"rolled_back", "rollback_failed"} <=> (At({"down"}) => cmd.pos < j)

PlanInv ==
    /\ PlanTyped /\ WavesInv /\ PlanSorted /\ VerbFits /\ Placed
    /\ RowsTrue /\ DownSoFar /\ TouchedListed /\ UndoneSoFar /\ TornSoFar
    /\ UpSoFar /\ ReadySoFar /\ TakenSoFar

LEMMA DependsTyped ==
    ASSUME deps \in Graphs
    PROVE  /\ DOMAIN deps = Children
           /\ Known(deps) => \A c \in Children : deps[c] \subseteq Children /\ IsFiniteSet(deps[c])
BY WavesAssumption, FS_Subset DEF Known

LEMMA CardZero == ASSUME NEW S, IsFiniteSet(S) PROVE Cardinality(S) = 0 <=> S = {}
BY FS_EmptySet

LEMMA WavesInitially == WavesInit => WavesInv
<1> SUFFICES ASSUME WavesInit PROVE WavesInv
    OBVIOUS
<1>1. deps \in Graphs /\ wave \in [Children -> Nat] /\ processed = {}
    BY DEF WavesInit
<1>2. waves \in {"running", "unknown"} /\ (waves # "unknown" => Known(deps))
    BY DEF WavesInit
<1>3. ASSUME waves # "unknown"
      PROVE  /\ inDegree = [c \in Children |-> Cardinality(deps[c] \ processed)]
             /\ queue = {c \in Children \ processed : deps[c] \subseteq processed}
  <2>1. \A c \in Children : deps[c] \ processed = deps[c]
      BY <1>1
  <2>2. \A c \in Children : Cardinality(deps[c]) = 0 <=> deps[c] = {}
      BY <1>1, <1>2, <1>3, DependsTyped, CardZero
  <2>3. inDegree = [c \in Children |-> Cardinality(deps[c] \ processed)]
      BY <2>1 DEF WavesInit
  <2>4. queue = {c \in Children : deps[c] = {}}
      BY <2>2 DEF WavesInit
  <2> QED BY <1>1, <2>3, <2>4
<1>4. Tight
    BY DEF WavesInit, Tight
<1> QED BY <1>1, <1>2, <1>3, <1>4 DEF WavesInv

\* One turn of Kahn's loop.
LEMMA ProcessKeeps ==
    ASSUME WavesInv, NEW d \in Children, Process(d)
    PROVE  WavesInv'
<1>1. /\ deps \in Graphs /\ Known(deps) /\ wave \in [Children -> Nat] /\ processed \subseteq Children
      /\ inDegree = [c \in Children |-> Cardinality(deps[c] \ processed)]
      /\ d \in Children \ processed /\ deps[d] \subseteq processed
      /\ waves = "running" /\ waves' = waves /\ deps' = deps
    BY DEF WavesInv, Process
<1>2. processed' = processed \cup {d} /\ d \notin deps[d]
    BY <1>1 DEF Process
<1>3. \A c \in Children : IsFiniteSet(deps[c] \ processed)
    BY <1>1, DependsTyped, FS_Subset
<1>4. \A c \in Children : Cardinality(deps[c] \ processed') =
         IF d \in deps[c] THEN Cardinality(deps[c] \ processed) - 1 ELSE Cardinality(deps[c] \ processed)
  <2> SUFFICES ASSUME NEW c \in Children
               PROVE  Cardinality(deps[c] \ processed') =
                        IF d \in deps[c] THEN Cardinality(deps[c] \ processed) - 1
                        ELSE Cardinality(deps[c] \ processed)
      OBVIOUS
  <2>1. deps[c] \ processed' = (deps[c] \ processed) \ {d} /\ (d \in deps[c] \ processed <=> d \in deps[c])
      BY <1>1, <1>2
  <2> QED BY <1>3, <2>1, FS_RemoveElement
<1>5. inDegree' = [c \in Children |-> Cardinality(deps'[c] \ processed')]
    BY <1>1, <1>4 DEF Process, Dependents
<1>6. \A c \in Children : inDegree'[c] = 0 <=> deps[c] \subseteq processed'
  <2>1. ASSUME NEW c \in Children PROVE IsFiniteSet(deps[c] \ processed')
    <3>1. deps[c] \ processed' \in SUBSET (deps[c] \ processed)
        BY <1>2
    <3> QED BY <1>3, <3>1, FS_Subset
  <2> QED BY <1>1, <1>5, <2>1, CardZero
<1>7. \A c \in Dependents(d) : c \in Children /\ c \notin processed /\ c # d
    BY <1>1, <1>2 DEF Dependents, WavesInv
<1>8. queue' = {c \in Children \ processed' : deps'[c] \subseteq processed'}
  <2>1. queue' = (queue \ {d}) \cup {c \in Dependents(d) : deps[c] \subseteq processed'}
      BY <1>6, <1>7 DEF Process
  <2>2. queue = {c \in Children \ processed : deps[c] \subseteq processed}
      BY <1>1 DEF WavesInv
  <2> QED BY <1>1, <1>2, <1>7, <2>1, <2>2 DEF Dependents
<1>9. \A c \in processed' : deps'[c] \subseteq processed'
    BY <1>1, <1>2 DEF WavesInv
<1>10. wave' \in [Children -> Nat] /\ \A c \in Children :
          /\ wave'[c] >= wave[c] /\ (d \notin deps[c] => wave'[c] = wave[c])
          /\ d \in deps[c] => wave'[c] > wave[d]
    BY <1>1 DEF Process, Raise, Dependents
<1>11. \A e \in processed' : \A c \in Dependents(e)' : wave'[e] < wave'[c]
  <2> SUFFICES ASSUME NEW e \in processed', NEW c \in Children, e \in deps[c] PROVE wave'[e] < wave'[c]
      BY <1>1 DEF Dependents
  <2>1. e \in Children /\ d \notin deps[e]
      BY <1>1, <1>2 DEF WavesInv
  <2>2. wave'[e] = wave[e]
      BY <1>10, <2>1
  <2>3. CASE e = d
      BY <1>1, <1>10, <2>2, <2>3
  <2>4. CASE e # d
    <3>1. wave[e] < wave[c]
        BY <1>1, <1>2, <2>4 DEF WavesInv, Dependents
    <3> QED BY <1>1, <1>10, <2>1, <2>2, <3>1
  <2> QED BY <2>3, <2>4
<1>12. Known(deps)'
    BY <1>1 DEF Known
<1>13. Tight'
  <2> SUFFICES ASSUME NEW c \in Children, wave'[c] # 0
               PROVE  \E e \in deps[c] \cap processed' : wave'[c] = wave'[e] + 1
      BY <1>1 DEF Tight
  <2>1. \A e \in processed : e \in Children /\ wave'[e] = wave[e]
      BY <1>1, <1>10 DEF WavesInv
  <2>2. wave'[d] = wave[d]
      BY <1>1, <1>2, <1>10
  <2>3. CASE d \in deps[c] /\ wave'[c] = wave[d] + 1
      BY <2>2, <2>3, <1>2
  <2>4. CASE wave'[c] = wave[c]
    <3>1. PICK e \in deps[c] \cap processed : wave[c] = wave[e] + 1
        BY <2>4, <1>1 DEF WavesInv, Tight
    <3> QED BY <2>1, <2>4, <3>1, <1>2
  <2> QED BY <2>3, <2>4, <1>1 DEF Process, Raise, Dependents
<1> QED BY <1>1, <1>2, <1>5, <1>8, <1>9, <1>10, <1>11, <1>12, <1>13 DEF WavesInv

LEMMA ConcludeKeeps ==
    ASSUME WavesInv, Conclude
    PROVE  WavesInv'
BY DEF WavesInv, Tight, Conclude, Known, Dependents

LEMMA WavesKept == WavesInv /\ UNCHANGED wavesVars => WavesInv'
BY DEF WavesInv, Tight, wavesVars, Known, Dependents

-----------------------------------------------------------------------------
(* What follows from the invariant of a plan and of the child in hand *)

LEMMA ChildrenCounted == Cardinality(Children) \in Nat \ {0}
BY WavesAssumption, FS_CardinalityType, FS_EmptySet

LEMMA EntriesCounted == \A c \in Children : NumEntries[c] \in Nat \ {0}
BY CompositionAssumption

LEMMA EntryOf ==
    ASSUME NEW c \in Children, NEW d \in Children, NEW e
    PROVE  /\ <<c, e>> \in EntriesOf(d) <=> c = d /\ e \in 1..NumEntries[c]
           /\ e \in 1..NumEntries[c] => <<c, e>> \in Services
BY DEF EntriesOf, Services

LEMMA EntriesAreServices == \A c \in Children : EntriesOf(c) \subseteq Services
BY DEF Services

LEMMA ServicesAreEntries == \A s \in Services : \E c \in Children : s \in EntriesOf(c)
BY DEF Services

\* A sorted plan lists every child, in the order of the waves.
LEMMA PlanComplete ==
    ASSUME PlanTyped, WavesInv, PlanSorted, cmd.step # "resolve", waves = "ok"
    PROVE  /\ Len(plan) \in Nat \ {0} /\ DOMAIN plan = 1..Len(plan)
           /\ \A i \in 1..Len(plan) : plan[i] \in Children
           /\ \A i, j \in 1..Len(plan) : plan[i] = plan[j] => i = j
           /\ \A i, j \in 1..Len(plan) : i <= j => wave[plan[i]] <= wave[plan[j]]
           /\ \A c \in Children : \E i \in 1..Len(plan) : plan[i] = c
<1> DEFINE N == Cardinality(Children)
<1>1. N \in Nat \ {0} /\ plan \in Seq(Children) /\ plan \in [1..N -> Children] /\ Sorted(plan)
    BY ChildrenCounted DEF PlanTyped, PlanSorted
<1>2. Len(plan) = N
    BY <1>1
<1>3. \A i, j \in 1..N : plan[i] = plan[j] => i = j
    BY <1>1 DEF Sorted
<1>4. \A i, j \in 1..N : i <= j => wave[plan[i]] <= wave[plan[j]]
  <2> SUFFICES ASSUME NEW i \in 1..N, NEW j \in 1..N, i <= j
               PROVE  wave[plan[i]] <= wave[plan[j]]
      OBVIOUS
  <2>1. wave[plan[i]] \in Nat /\ wave[plan[j]] \in Nat
      BY <1>1 DEF WavesInv
  <2>2. i < j => Before(plan[i], plan[j])
      BY <1>1 DEF Sorted
  <2> QED BY <2>1, <2>2 DEF Before
<1>5. plan \in Injection(1..N, Children)
    BY <1>1, <1>3 DEF Injection, IsInjective
<1>6. IsFiniteSet(1..N) /\ Cardinality(1..N) = N
    BY <1>1, FS_Interval
<1>7. plan \in Surjection(1..N, Children)
    BY <1>5, <1>6, WavesAssumption, FS_Injection
<1> QED BY <1>1, <1>2, <1>3, <1>4, <1>7 DEF Surjection

\* What a child depends on comes before it.
LEMMA DependentsAfter ==
    ASSUME PlanTyped, WavesInv, PlanSorted, cmd.step # "resolve", waves = "ok",
           NEW i \in 1..Len(plan), NEW j \in 1..Len(plan), plan[i] \in deps[plan[j]]
    PROVE  i < j /\ wave[plan[i]] < wave[plan[j]]
<1>1. wave[plan[i]] < wave[plan[j]]
    BY PlanComplete DEF WavesInv, Dependents
<1>2. ~(j <= i)
  <2> SUFFICES ASSUME j <= i PROVE FALSE
      OBVIOUS
  <2>1. wave[plan[j]] <= wave[plan[i]] /\ wave[plan[i]] \in Nat /\ wave[plan[j]] \in Nat
      BY PlanComplete DEF WavesInv
  <2> QED BY <1>1, <2>1
<1> QED BY <1>1, <1>2

LEMMA NatHasFirst ==
    ASSUME NEW T, T \subseteq Nat, T # {}
    PROVE  \E j \in T : \A k \in T : j <= k
<1> DEFINE R == OpToRel(<, Nat)
<1>1. IsWellFoundedOn(R, Nat)
    BY Zenon, NatLessThanWellFounded
<1>2. \A ss \in Nat \X Nat : ss[1] < ss[2] => ss \in R
    BY Zenon DEF OpToRel
<1> HIDE DEF R
<1>3. PICK j \in T : \A k \in T : ~(<<k, j>> \in R)
    BY Zenon, <1>1, WFMin
<1>4. ASSUME NEW m \in Nat, NEW n \in Nat, m < n PROVE <<m, n>> \in R
  <2>1. <<m, n>> \in Nat \X Nat /\ <<m, n>>[1] = m /\ <<m, n>>[2] = n
      OBVIOUS
  <2> QED BY Zenon, <1>2, <1>4, <2>1
<1>5. \A k \in T : k \in Nat /\ j \in Nat /\ ~(k < j)
    BY <1>3, <1>4
<1> QED BY <1>5

\* A wave has a first position (waveIndexes).
LEMMA WaveStartFirst ==
    ASSUME PlanTyped, NEW i \in 1..Len(plan)
    PROVE  /\ WaveStart(i) \in 1..Len(plan) /\ SameWave(i, WaveStart(i))
           /\ \A k \in 1..Len(plan) : SameWave(i, k) => WaveStart(i) <= k
<1> DEFINE T == {k \in 1..Len(plan) : SameWave(i, k)}
<1>1. plan \in Seq(Children) /\ Len(plan) \in Nat /\ DOMAIN plan = 1..Len(plan)
    BY DEF PlanTyped
<1>2. T \subseteq Nat /\ T # {}
    BY <1>1 DEF SameWave
<1>3. PICK j \in T : \A k \in T : j <= k
    BY <1>2, NatHasFirst
<1>5. /\ j \in DOMAIN plan /\ SameWave(i, j)
      /\ \A k \in DOMAIN plan : SameWave(i, k) => j <= k
    BY <1>1, <1>3
<1> QED BY <1>1, <1>5 DEF WaveStart

\* The child in hand.
LEMMA ChildInHand ==
    ASSUME PlanInv, ~At({"resolve", "done"})
    PROVE  /\ waves = "ok" /\ ThisOne \in Children /\ NumEntries[ThisOne] \in Nat \ {0}
           /\ ~cmd.undo => cmd.pos \in 1..Len(plan) /\ ThisOne = plan[cmd.pos]
           /\ cmd.undo => cmd.pos \in 1..Len(succeeded) /\ ThisOne = succeeded[cmd.pos]
<1>1. waves = "ok" /\ plan \in Seq(Children) /\ succeeded \in Seq(Children)
    BY DEF PlanInv, PlanSorted, PlanTyped, At
<1>2. cmd.pos \in DOMAIN (IF cmd.undo THEN succeeded ELSE plan)
    BY DEF PlanInv, Placed
<1>3. ThisOne \in Children
    BY <1>1, <1>2 DEF ThisOne
<1> QED BY <1>1, <1>2, <1>3, EntriesCounted DEF ThisOne

-----------------------------------------------------------------------------
(* What the moves of a command leave of it *)

SameCommand(c, r) ==
    /\ r \in CmdState
    /\ r.verb = c.verb /\ r.noWait = c.noWait /\ r.noRollback = c.noRollback

LEMMA UpAtSets ==
    ASSUME NEW c \in CmdState, NEW i \in Nat
    PROVE  /\ SameCommand(c, UpAt(c, i)) /\ UpAt(c, i).undo = c.undo
           /\ UpAt(c, i).step = "up" /\ UpAt(c, i).pos = i /\ UpAt(c, i).entry = 1
BY DEF CmdState, UpAt, SameCommand, Steps

LEMMA ReadyAtSets ==
    ASSUME NEW c \in CmdState, NEW i \in Nat
    PROVE  /\ SameCommand(c, ReadyAt(c, i)) /\ ReadyAt(c, i).undo = c.undo
           /\ ReadyAt(c, i).step = "ready" /\ ReadyAt(c, i).pos = i /\ ReadyAt(c, i).entry = 1
BY DEF CmdState, ReadyAt, SameCommand, Steps

LEMMA QueryAtSets ==
    ASSUME NEW c \in CmdState, NEW i \in Nat
    PROVE  /\ SameCommand(c, QueryAt(c, i)) /\ QueryAt(c, i).undo = c.undo
           /\ QueryAt(c, i).step = "query" /\ QueryAt(c, i).pos = i
BY DEF CmdState, QueryAt, SameCommand, Steps

LEMMA OverSets ==
    ASSUME NEW c \in CmdState
    PROVE  /\ SameCommand(c, Over(c)) /\ Over(c).undo = c.undo
           /\ Over(c).step = "done" /\ Over(c).pos = c.pos
BY DEF CmdState, Over, Go, SameCommand, Steps

LEMMA DownAtSets ==
    ASSUME NEW c \in CmdState, NEW i \in Nat,
           (IF c.undo THEN succeeded ELSE plan)[i] \in Children
    PROVE  /\ SameCommand(c, DownAt(c, i)) /\ DownAt(c, i).undo = c.undo
           /\ DownAt(c, i).step = "down" /\ DownAt(c, i).pos = i /\ ~DownAt(c, i).err
           /\ DownAt(c, i).entry = NumEntries[(IF c.undo THEN succeeded ELSE plan)[i]]
<1>1. NumEntries[(IF c.undo THEN succeeded ELSE plan)[i]] \in Nat
    BY EntriesCounted
<1> DEFINE n == NumEntries[(IF c.undo THEN succeeded ELSE plan)[i]]
<1>2. DownAt(c, i) = [c EXCEPT !.step = "down", !.pos = i, !.err = FALSE, !.entry = n]
    BY DEF DownAt
<1> HIDE DEF n
<1>3. /\ SameCommand(c, DownAt(c, i)) /\ DownAt(c, i).undo = c.undo
      /\ DownAt(c, i).step = "down" /\ DownAt(c, i).pos = i /\ ~DownAt(c, i).err
      /\ DownAt(c, i).entry = n
    BY <1>1, <1>2 DEF CmdState, SameCommand, Steps, n
<1> QED BY <1>3 DEF n

LEMMA PlanInvInitially == Init => PlanInv
<1> SUFFICES ASSUME Init PROVE PlanInv
    OBVIOUS
<1>1. /\ plan = <<>> /\ succeeded = <<>> /\ running \subseteq Services /\ deaths = 0 /\ ctxDone \in BOOLEAN
      /\ cmd \in CmdState /\ cmd.step = "resolve" /\ ~cmd.undo
      /\ cmd.verb = "down" => ~ctxDone
      /\ probe = NoProbe /\ row = [c \in Children |-> "not_started"]
      /\ outcome = "none" /\ seen = NothingSeen
    BY CompositionAssumption DEF Init, CmdState, Steps, Verbs
<1>2. PlanTyped
    BY <1>1 DEF PlanTyped, NoProbe, NothingSeen, SeenState, RowState
<1>3. WavesInv
    BY WavesInitially DEF Init
<1>4. PlanSorted
    BY <1>1 DEF PlanSorted
<1>5. VerbFits /\ Placed /\ DownSoFar /\ UndoneSoFar /\ TornSoFar /\ TakenSoFar
    BY <1>1 DEF VerbFits, Placed, DownSoFar, UndoneSoFar, TornSoFar, TakenSoFar, At, NothingSeen, Done
<1>6. RowsTrue /\ TouchedListed
    BY <1>1 DEF RowsTrue, TouchedListed, Untaken, At, NothingSeen
<1>7. UpSoFar /\ ReadySoFar
    BY <1>1 DEF UpSoFar, ReadySoFar, At, NothingSeen
<1> QED BY <1>2, <1>3, <1>4, <1>5, <1>6, <1>7 DEF PlanInv

\* A turn of CalculateWaves comes before any work.
LEMMA ResolveKeeps == PlanInv /\ Resolve => PlanInv'
<1> SUFFICES ASSUME PlanInv, Resolve PROVE PlanInv'
    OBVIOUS
<1>1. UNCHANGED <<plan, running, deaths, ctxDone, cmd, probe, succeeded, row, outcome, seen>>
    BY DEF Resolve
<1>2. WavesInv'
    BY ProcessKeeps, ConcludeKeeps DEF Resolve, WavesNext, PlanInv
<1>3. cmd.step = "resolve"
    BY DEF Resolve, WavesNext, Process, Conclude, PlanInv, PlanSorted
<1>4. PlanTyped'
    BY <1>1 DEF PlanInv, PlanTyped
<1>5. PlanSorted'
    BY <1>1, <1>3 DEF PlanInv, PlanSorted
<1>6. /\ VerbFits' /\ Placed' /\ DownSoFar' /\ UndoneSoFar' /\ TornSoFar' /\ TakenSoFar'
      /\ RowsTrue' /\ TouchedListed'
    BY <1>1, <1>3 DEF PlanInv, VerbFits, Placed, DownSoFar, UndoneSoFar, TornSoFar, TakenSoFar, At,
       Done, RowsTrue, TouchedListed, Untaken, ThisOne, Excused, Passed
<1>7. UpSoFar' /\ ReadySoFar'
    BY <1>1, <1>3 DEF PlanInv, UpSoFar, ReadySoFar, At
<1> QED BY <1>2, <1>4, <1>5, <1>6, <1>7 DEF PlanInv

\* Services die, the caller cancels, an answer or the deadline comes.
LEMMA QuietKeeps ==
    ASSUME PlanInv, UNCHANGED <<wavesVars, plan, cmd, succeeded, row, outcome, seen>>,
           running' \subseteq running, deaths' \in Nat, ctxDone' \in BOOLEAN,
           cmd.verb = "down" => ~ctxDone',
           probe' \in [answer : {"none", "ready", "unready"}, expired : BOOLEAN]
    PROVE  PlanInv'
<1>1. WavesInv'
    BY WavesKept DEF PlanInv
<1>2. PlanTyped' /\ PlanSorted'
    BY DEF PlanInv, PlanTyped, PlanSorted, wavesVars, Sorted, Before
<1>3. VerbFits' /\ Placed' /\ TakenSoFar' /\ UpSoFar' /\ ReadySoFar'
    BY DEF PlanInv, VerbFits, Placed, TakenSoFar, UpSoFar, ReadySoFar, At, ThisOne, SameWave, wavesVars
<1>4. RowsTrue' /\ DownSoFar' /\ TouchedListed'
    BY DEF PlanInv, RowsTrue, DownSoFar, TouchedListed, At, Untaken, ThisOne, Excused, EntriesOf
<1>5. UndoneSoFar' /\ TornSoFar'
    BY DEF PlanInv, UndoneSoFar, TornSoFar, Passed, At, ThisOne, Excused, EntriesOf, Done, wavesVars
<1> QED BY <1>1, <1>2, <1>3, <1>4, <1>5 DEF PlanInv

LEMMA DiesKeepsPlan == PlanInv /\ (\E s \in Services : Die(s)) => PlanInv'
<1> SUFFICES ASSUME PlanInv, NEW s \in Services, Die(s) PROVE PlanInv'
    OBVIOUS
<1>1. deaths' \in Nat /\ running' \subseteq running /\ ctxDone' \in BOOLEAN /\ (cmd.verb = "down" => ~ctxDone')
      /\ probe' \in [answer : {"none", "ready", "unready"}, expired : BOOLEAN]
    BY DEF Die, PlanInv, PlanTyped, VerbFits
<1> QED BY <1>1, QuietKeeps DEF Die

LEMMA CancelKeepsPlan == PlanInv /\ Cancel => PlanInv'
<1> SUFFICES ASSUME PlanInv, Cancel PROVE PlanInv'
    OBVIOUS
<1>1. deaths' \in Nat /\ running' \subseteq running /\ ctxDone' \in BOOLEAN /\ (cmd.verb = "down" => ~ctxDone')
      /\ probe' \in [answer : {"none", "ready", "unready"}, expired : BOOLEAN]
    BY DEF Cancel, PlanInv, PlanTyped
<1> QED BY <1>1, QuietKeeps DEF Cancel

LEMMA AnswersKeepPlan == PlanInv /\ (Probe \/ Expire) => PlanInv'
<1> SUFFICES ASSUME PlanInv, Probe \/ Expire PROVE PlanInv'
    OBVIOUS
<1>1. deaths' \in Nat /\ running' \subseteq running /\ ctxDone' \in BOOLEAN /\ (cmd.verb = "down" => ~ctxDone')
      /\ probe' \in [answer : {"none", "ready", "unready"}, expired : BOOLEAN]
  <2>1. probe' \in [answer : {"none", "ready", "unready"}, expired : BOOLEAN]
      BY DEF Probe, Expire, PlanInv, PlanTyped
  <2>2. deaths' = deaths /\ running' = running /\ ctxDone' = ctxDone
      BY DEF Probe, Expire, quiet
  <2> QED BY <2>1, <2>2 DEF PlanInv, PlanTyped, VerbFits
<1> QED BY <1>1, QuietKeeps DEF Probe, Expire, quiet

\* The command begins with the first child, or with the last.
LEMMA ResolvedKeeps == PlanInv /\ Resolved => PlanInv'
<1> SUFFICES ASSUME PlanInv, Resolved PROVE PlanInv'
    OBVIOUS
<1>1. /\ cmd.step = "resolve" /\ ~cmd.undo /\ succeeded = <<>> /\ waves # "running"
      /\ UNCHANGED <<wavesVars, deaths, ctxDone, running, probe, succeeded, row, seen>>
      /\ cmd \in CmdState
    BY DEF Resolved, PlanInv, PlanSorted, PlanTyped
<1>2. WavesInv'
    BY <1>1, WavesKept DEF PlanInv
<1>3. CASE waves # "ok" /\ cmd' = Over(cmd) /\ UNCHANGED <<plan, outcome>>
  <2>1. SameCommand(cmd, cmd') /\ ~cmd'.undo /\ cmd'.step = "done"
      BY <1>1, <1>3, OverSets
  <2>2. PlanTyped' /\ PlanSorted'
      BY <1>1, <1>3, <2>1 DEF PlanInv, PlanTyped, PlanSorted, SameCommand, wavesVars
  <2>3. VerbFits' /\ Placed' /\ DownSoFar' /\ UndoneSoFar' /\ TornSoFar' /\ TakenSoFar'
      BY <1>1, <1>3, <2>1 DEF PlanInv, VerbFits, Placed, DownSoFar, UndoneSoFar, TornSoFar, TakenSoFar, At,
         SameCommand, Done, wavesVars, Excused
  <2>4. RowsTrue' /\ TouchedListed'
      BY <1>1, <1>3, <2>1 DEF PlanInv, RowsTrue, TouchedListed, Untaken, At, SameCommand, ThisOne
  <2>5. UpSoFar' /\ ReadySoFar'
      BY <1>1, <1>3, <2>1 DEF PlanInv, UpSoFar, ReadySoFar, At, SameCommand
  <2> QED BY <1>2, <2>2, <2>3, <2>4, <2>5 DEF PlanInv
<1>4. ASSUME waves = "ok", NEW p \in [1..Cardinality(Children) -> Children], Sorted(p), plan' = p,
             outcome' = IF cmd.verb \in {"down", "stop"} THEN "down" ELSE "up",
             cmd' = CASE cmd.verb = "up" -> UpAt(cmd, 1)
                      [] cmd.verb = "restart" ->
                           [Go(cmd, "down") EXCEPT !.pos = 1, !.entry = NumEntries[p[1]]]
                      [] cmd.verb = "status" -> QueryAt(cmd, 1)
                      [] OTHER -> QueryAt(cmd, Len(p))
      PROVE  PlanInv'
  <2>1. /\ p \in Seq(Children) /\ Len(p) \in Nat \ {0} /\ DOMAIN p = 1..Len(p)
        /\ p[1] \in Children /\ NumEntries[p[1]] \in Nat \ {0}
      BY <1>4, ChildrenCounted, EntriesCounted
  <2>2. SameCommand(cmd, cmd') /\ ~cmd'.undo
    <3>1. CASE cmd.verb = "restart"
      <4>1. cmd' = [cmd EXCEPT !.step = "down", !.pos = 1, !.entry = NumEntries[p[1]]]
          BY <1>4, <3>1 DEF Go
      <4> QED BY <1>1, <2>1, <4>1 DEF CmdState, SameCommand, Steps
    <3>2. CASE cmd.verb # "restart"
        BY <1>1, <1>4, <2>1, <3>2, UpAtSets, QueryAtSets
    <3> QED BY <3>1, <3>2
  <2>3. /\ cmd.verb = "up" => cmd'.step = "up" /\ cmd'.pos = 1 /\ cmd'.entry = 1
        /\ cmd.verb = "restart" => cmd'.step = "down" /\ cmd'.pos = 1 /\ cmd'.entry = NumEntries[p[1]]
        /\ cmd.verb \notin {"up", "restart"} => cmd'.step = "query" /\ cmd'.pos \in 1..Len(p)
        /\ cmd.verb \in {"down", "stop"} => cmd'.pos = Len(p)
    <3>1. CASE cmd.verb = "restart"
      <4>1. cmd' = [cmd EXCEPT !.step = "down", !.pos = 1, !.entry = NumEntries[p[1]]]
          BY <1>4, <3>1 DEF Go
      <4> QED BY <1>1, <3>1, <4>1 DEF CmdState
    <3>2. CASE cmd.verb # "restart"
        BY <1>1, <1>4, <2>1, <3>2, UpAtSets, QueryAtSets
    <3> QED BY <3>1, <3>2
  <2>4. ThisOne' = p[cmd'.pos] /\ cmd'.pos \in DOMAIN p /\ cmd.verb \in Verbs
      BY <1>1, <1>4, <2>1, <2>2, <2>3 DEF ThisOne, CmdState, Verbs
  <2>5. PlanTyped'
      BY <1>1, <1>4, <2>1, <2>2 DEF PlanInv, PlanTyped, SameCommand
  <2>6. PlanSorted'
    <3>1. wave' = wave /\ waves' = waves
        BY <1>1 DEF wavesVars
    <3>2. Sorted(plan)'
        BY <1>4, <3>1 DEF Sorted, Before
    <3>3. cmd'.step # "resolve" /\ cmd'.verb = cmd.verb /\ succeeded' = succeeded
        BY <1>1, <2>2, <2>3 DEF SameCommand
    <3>4. plan' \in [1..Cardinality(Children) -> Children]
        BY <1>4
    <3>5. waves' = "ok" /\ succeeded' = <<>>
        BY <1>1, <1>4, <3>1
    <3> QED BY <3>2, <3>3, <3>4, <3>5 DEF PlanSorted
  <2>7. VerbFits' /\ Placed'
    <3>1. /\ outcome' # "failed" /\ cmd'.verb = cmd.verb /\ seen' = seen /\ ctxDone' = ctxDone
          /\ cmd.verb = "up" => seen.primary = "none"
        BY <1>1, <1>4, <2>2 DEF SameCommand, PlanInv, VerbFits, At
    <3>2. VerbFits'
        BY <2>2, <2>3, <2>4, <3>1 DEF PlanInv, VerbFits, At, Verbs
    <3>3. NumEntries[p[cmd'.pos]] \in Nat \ {0}
        BY <2>1, <2>4, EntriesCounted
    <3>4. plan' = p
        BY <1>4
    <3>5. cmd'.step \in {"up", "down"} => cmd'.entry \in 1..NumEntries[p[cmd'.pos]]
        BY <2>1, <2>3, <2>4, <3>3 DEF Verbs
    <3> QED BY <2>2, <2>3, <2>4, <3>2, <3>3, <3>4, <3>5 DEF Placed, At, Verbs
  <2>8. DownSoFar' /\ UndoneSoFar' /\ TornSoFar' /\ TakenSoFar'
      BY <1>1, <1>4, <2>1, <2>2, <2>3, <2>4 DEF PlanInv, DownSoFar, UndoneSoFar, TornSoFar, TakenSoFar, At,
         SameCommand, Done, Verbs
  <2>9. RowsTrue' /\ TouchedListed'
    <3>1. cmd.verb = "up" => \A c \in Children : EntriesOf(c) \cap seen.touched = {}
        BY <1>1 DEF PlanInv, TouchedListed, At, VerbFits, RowsTrue
    <3> QED BY <1>1, <2>2, <3>1 DEF PlanInv, RowsTrue, TouchedListed, Untaken, At, SameCommand
  <2>10. UpSoFar' /\ ReadySoFar'
      BY <1>1, <1>4, <2>1, <2>2, <2>3 DEF PlanInv, UpSoFar, ReadySoFar, At, SameCommand
  <2> QED BY <1>2, <2>5, <2>6, <2>7, <2>8, <2>9, <2>10 DEF PlanInv
<1> QED BY <1>3, <1>4 DEF Resolved

-----------------------------------------------------------------------------
(* Going up *)

\* What holds of the waves and of the plan while they stay.
LEMMA PlanStays ==
    ASSUME PlanInv, ~At({"resolve", "done"}), UNCHANGED <<wavesVars, plan>>,
           SameCommand(cmd, cmd'), cmd'.step # "resolve",
           cmd.verb # "up" => succeeded' = succeeded
    PROVE  WavesInv' /\ PlanSorted'
<1>1. /\ waves' = waves /\ waves = "ok" /\ wave' = wave /\ plan' = plan
      /\ plan \in [1..Cardinality(Children) -> Children] /\ Sorted(plan)
    BY DEF PlanInv, PlanSorted, At, wavesVars
<1>2. Sorted(plan)'
    BY <1>1 DEF Sorted, Before
<1>3. cmd.verb # "up" => succeeded' = <<>>
    BY DEF PlanInv, PlanSorted
<1>4. PlanSorted'
    BY <1>1, <1>2, <1>3 DEF PlanSorted, SameCommand
<1> QED BY <1>4, WavesKept DEF PlanInv

LEMMA AfterUpSets ==
    ASSUME PlanInv, cmd.step = "up", NEW r, r = AfterUp(cmd.pos)
    PROVE  /\ SameCommand(cmd, r) /\ ~r.undo
           /\ \/ /\ r.step = "up" /\ r.pos = cmd.pos + 1 /\ r.entry = 1 /\ cmd.pos < Len(plan)
                 /\ SameWave(cmd.pos, cmd.pos + 1) \/ cmd.noWait
              \/ r.step = "done" /\ cmd.noWait /\ cmd.pos = Len(plan)
              \/ /\ r.step = "ready" /\ r.pos = WaveStart(cmd.pos) /\ r.entry = 1 /\ ~cmd.noWait
                 /\ cmd.pos = Len(plan) \/ ~SameWave(cmd.pos, cmd.pos + 1)
<1>1. cmd \in CmdState /\ ~cmd.undo /\ cmd.pos \in 1..Len(plan) /\ Len(plan) \in Nat
    BY ChildInHand DEF PlanInv, PlanTyped, VerbFits, At
<1>2. WaveStart(cmd.pos) \in Nat
    BY <1>1, WaveStartFirst DEF PlanInv
<1>3. /\ SameCommand(cmd, UpAt(cmd, cmd.pos + 1)) /\ UpAt(cmd, cmd.pos + 1).undo = cmd.undo
      /\ UpAt(cmd, cmd.pos + 1).step = "up" /\ UpAt(cmd, cmd.pos + 1).pos = cmd.pos + 1
      /\ UpAt(cmd, cmd.pos + 1).entry = 1
    BY <1>1, UpAtSets
<1> QED BY <1>1, <1>2, <1>3, OverSets, ReadyAtSets DEF AfterUp, NextWave

\* What was touched, and how the rows and the lists stand, once this entry is up too.
LEMMA TouchesHere ==
    ASSUME PlanInv, cmd.step = "up", NEW part \in SUBSET {Here},
           running' = running \cup part, seen'.touched = seen.touched \cup part
    PROVE  /\ running' \subseteq Services /\ seen'.touched \subseteq Services
           /\ \A c \in Children : c # ThisOne =>
                /\ EntriesOf(c) \cap running' = EntriesOf(c) \cap running
                /\ EntriesOf(c) \cap seen'.touched = EntriesOf(c) \cap seen.touched
<1>1. ThisOne \in Children /\ cmd.entry \in 1..NumEntries[ThisOne]
    BY ChildInHand DEF PlanInv, Placed, At
<1>2. Here \in Services /\ \A c \in Children : c # ThisOne => Here \notin EntriesOf(c)
    BY <1>1, EntryOf DEF Here
<1>3. running \subseteq Services /\ seen.touched \subseteq Services
    BY DEF PlanInv, PlanTyped, SeenState
<1> QED BY <1>2, <1>3

\* One more entry of the child is up.
LEMMA NextEntryKeeps ==
    ASSUME PlanInv, cmd.step = "up", cmd.entry < NumEntries[ThisOne],
           cmd' = [cmd EXCEPT !.entry = @ + 1],
           running' = running \cup {Here}, seen' = [seen EXCEPT !.touched = @ \cup {Here}],
           UNCHANGED <<wavesVars, plan, deaths, ctxDone, probe, succeeded, row, outcome>>
    PROVE  PlanInv'
<1>1. /\ cmd \in CmdState /\ seen \in SeenState /\ ~cmd.undo /\ cmd.verb \in {"up", "restart"}
      /\ ThisOne \in Children /\ cmd.entry \in 1..NumEntries[ThisOne]
      /\ NumEntries[ThisOne] \in Nat
    BY ChildInHand DEF PlanInv, PlanTyped, VerbFits, Placed, At
<1>2. /\ SameCommand(cmd, cmd') /\ cmd'.undo = cmd.undo /\ cmd'.step = "up" /\ cmd'.pos = cmd.pos
      /\ cmd'.entry = cmd.entry + 1
    BY <1>1 DEF CmdState, SameCommand
<1>3. /\ seen'.touched = seen.touched \cup {Here}
      /\ seen'.accepted = seen.accepted /\ seen'.primary = seen.primary
      /\ seen'.unread = seen.unread /\ seen'.stuck = seen.stuck /\ seen'.sourceless = seen.sourceless
    BY <1>1 DEF SeenState
<1>4. /\ running' \subseteq Services /\ seen'.touched \subseteq Services
      /\ \A c \in Children : c # ThisOne =>
            /\ EntriesOf(c) \cap running' = EntriesOf(c) \cap running
            /\ EntriesOf(c) \cap seen'.touched = EntriesOf(c) \cap seen.touched
    BY <1>3, TouchesHere
<1>5. ThisOne' = ThisOne
    BY <1>1, <1>2 DEF ThisOne
<1>6. WavesInv' /\ PlanSorted'
    BY <1>2, PlanStays DEF At
<1>7. PlanTyped'
    BY <1>2, <1>4 DEF PlanInv, PlanTyped, SameCommand, SeenState
<1>8. VerbFits' /\ Placed'
    BY <1>1, <1>2, <1>3, <1>5 DEF PlanInv, VerbFits, Placed, At, SameCommand
<1>9. RowsTrue' /\ TouchedListed'
    BY <1>1, <1>2, <1>3, <1>4, <1>5 DEF PlanInv, RowsTrue, TouchedListed, Untaken, At, SameCommand
<1>10. DownSoFar' /\ UndoneSoFar' /\ TornSoFar' /\ TakenSoFar'
    BY <1>1, <1>2 DEF PlanInv, DownSoFar, UndoneSoFar, TornSoFar, TakenSoFar, At, SameCommand
<1>11. UpSoFar' /\ ReadySoFar'
    BY <1>1, <1>2, <1>3 DEF PlanInv, UpSoFar, ReadySoFar, At, SameCommand, SameWave, wavesVars
<1> QED BY <1>6, <1>7, <1>8, <1>9, <1>10, <1>11 DEF PlanInv

\* The child is up.
LEMMA ChildUpKeeps ==
    ASSUME PlanInv, cmd.step = "up", cmd.verb = "up", cmd.entry = NumEntries[ThisOne],
           row' = [row EXCEPT ![ThisOne] = "up"], succeeded' = Append(succeeded, ThisOne),
           cmd' = AfterUp(cmd.pos),
           running' = running \cup {Here}, seen' = [seen EXCEPT !.touched = @ \cup {Here}],
           UNCHANGED <<wavesVars, plan, deaths, ctxDone, probe, outcome>>
    PROVE  PlanInv'
<1>1. /\ cmd \in CmdState /\ seen \in SeenState /\ ~cmd.undo /\ row \in [Children -> RowState]
      /\ ThisOne \in Children /\ ThisOne = plan[cmd.pos] /\ cmd.pos \in 1..Len(plan)
      /\ succeeded \in Seq(Children) /\ plan \in Seq(Children) /\ Len(plan) \in Nat
      /\ Len(succeeded) + 1 = cmd.pos /\ waves = "ok"
      /\ \A i \in 1..Len(succeeded) : succeeded[i] = plan[i]
    BY ChildInHand DEF PlanInv, PlanTyped, VerbFits, UpSoFar, At
<1>2. /\ SameCommand(cmd, cmd') /\ ~cmd'.undo
      /\ \/ /\ cmd'.step = "up" /\ cmd'.pos = cmd.pos + 1 /\ cmd'.entry = 1 /\ cmd.pos < Len(plan)
            /\ SameWave(cmd.pos, cmd.pos + 1) \/ cmd.noWait
         \/ cmd'.step = "done" /\ cmd.noWait /\ cmd.pos = Len(plan)
         \/ /\ cmd'.step = "ready" /\ cmd'.pos = WaveStart(cmd.pos) /\ cmd'.entry = 1 /\ ~cmd.noWait
            /\ cmd.pos = Len(plan) \/ ~SameWave(cmd.pos, cmd.pos + 1)
    BY AfterUpSets
<1>3. /\ seen'.touched = seen.touched \cup {Here}
      /\ seen'.accepted = seen.accepted /\ seen'.primary = seen.primary
      /\ seen'.unread = seen.unread /\ seen'.stuck = seen.stuck /\ seen'.sourceless = seen.sourceless
    BY <1>1 DEF SeenState
<1>4. /\ running' \subseteq Services /\ seen'.touched \subseteq Services
      /\ \A c \in Children : c # ThisOne =>
            /\ EntriesOf(c) \cap running' = EntriesOf(c) \cap running
            /\ EntriesOf(c) \cap seen'.touched = EntriesOf(c) \cap seen.touched
    BY <1>3, TouchesHere
<1>5. /\ succeeded' \in Seq(Children) /\ Len(succeeded') = cmd.pos
      /\ \A i \in 1..cmd.pos : succeeded'[i] = plan[i]
    BY <1>1
<1>6. WavesInv' /\ PlanSorted'
    BY <1>2, PlanStays DEF At
<1>7. row' \in [Children -> RowState] /\ row'[ThisOne] = "up" /\ \A c \in Children : c # ThisOne => row'[c] = row[c]
    BY <1>1 DEF RowState
<1>8. PlanTyped'
    BY <1>2, <1>4, <1>5, <1>7 DEF PlanInv, PlanTyped, SameCommand, SeenState
<1>9. WaveStart(cmd.pos) \in 1..cmd.pos /\ SameWave(WaveStart(cmd.pos), cmd.pos)
      /\ \A k \in 1..Len(plan) : SameWave(cmd.pos, k) => WaveStart(cmd.pos) <= k
    BY <1>1, WaveStartFirst DEF PlanInv, SameWave
<1>10. cmd'.step \in {"up", "ready"} => cmd'.pos \in 1..Len(plan) /\ ThisOne' = plan[cmd'.pos]
    BY <1>1, <1>2, <1>9 DEF ThisOne
<1>11. VerbFits' /\ Placed'
  <2>1. VerbFits'
      BY <1>1, <1>2, <1>3 DEF PlanInv, VerbFits, At, SameCommand
  <2>2. cmd'.step \in {"up", "ready"} => NumEntries[ThisOne'] \in Nat \ {0}
      BY <1>1, <1>10, EntriesCounted
  <2>3. DOMAIN plan = 1..Len(plan)
      BY <1>1
  <2> QED BY <1>2, <1>10, <2>1, <2>2, <2>3 DEF Placed, At
<1>12. RowsTrue'
    BY <1>1, <1>2, <1>3, <1>4, <1>7 DEF PlanInv, RowsTrue, Untaken, At, SameCommand
<1>13. TouchedListed'
  <2> SUFFICES ASSUME NEW c \in Children, EntriesOf(c) \cap seen'.touched # {}
               PROVE  (\E j \in DOMAIN succeeded' : succeeded'[j] = c)
                      \/ (row'[c] = "failed" /\ seen'.primary = "up")
      BY DEF TouchedListed, EntriesOf
  <2>1. DOMAIN succeeded' = 1..cmd.pos
      BY <1>5
  <2>2. CASE c = ThisOne
      BY <1>1, <1>5, <2>1, <2>2
  <2>3. CASE c # ThisOne
    <3>1. (\E j \in DOMAIN succeeded : succeeded[j] = c) \/ (row[c] = "failed" /\ seen.primary = "up")
        BY <1>4, <2>3 DEF PlanInv, TouchedListed, At
    <3>2. \A j \in DOMAIN succeeded : j \in 1..cmd.pos /\ succeeded[j] = plan[j]
        BY <1>1
    <3> QED BY <1>3, <1>5, <1>7, <2>1, <2>3, <3>1, <3>2
  <2> QED BY <2>2, <2>3
<1>14. DownSoFar' /\ UndoneSoFar' /\ TornSoFar' /\ TakenSoFar'
    BY <1>1, <1>2 DEF PlanInv, VerbFits, DownSoFar, UndoneSoFar, TornSoFar, TakenSoFar, At, SameCommand
<1>15. UpSoFar'
    BY <1>1, <1>2, <1>5, <1>9 DEF UpSoFar, At, SameCommand
<1>16. ReadySoFar'
  <2>1. wave' = wave /\ plan' = plan
      BY DEF wavesVars
  <2>2. CASE cmd.noWait
      BY <1>2, <1>3, <2>1, <2>2 DEF PlanInv, ReadySoFar, At, SameCommand
  <2>3. CASE ~cmd.noWait /\ cmd'.step = "up"
    <3>1. seen.accepted = {plan[j] : j \in {k \in 1..Len(succeeded) : ~SameWave(k, cmd.pos)}}
        BY <2>3 DEF PlanInv, ReadySoFar, At
    <3>2. {k \in 1..Len(succeeded) : ~SameWave(k, cmd.pos)} = {k \in 1..cmd.pos : ~SameWave(k, cmd.pos + 1)}
        BY <1>1, <1>2, <2>3 DEF SameWave
    <3>3. seen'.accepted = {plan[j] : j \in {k \in 1..cmd.pos : ~SameWave(k, cmd.pos + 1)}}
        BY <1>3, <3>1, <3>2
    <3>4. cmd'.pos = cmd.pos + 1
        BY <1>2, <2>3
    <3> QED BY <1>2, <1>5, <2>1, <2>3, <3>3, <3>4 DEF ReadySoFar, At, SameWave, SameCommand
  <2>4. CASE cmd'.step = "ready" /\ ~cmd.noWait
    <3>1. seen.accepted = {plan[j] : j \in {k \in 1..Len(succeeded) : ~SameWave(k, cmd.pos)}}
        BY <2>4 DEF PlanInv, ReadySoFar, At
    <3>2. \A k \in 1..cmd.pos : WaveStart(cmd.pos) <= k => SameWave(k, cmd.pos)
      <4> SUFFICES ASSUME NEW k \in 1..cmd.pos, WaveStart(cmd.pos) <= k PROVE SameWave(k, cmd.pos)
          OBVIOUS
      <4>1. /\ wave[plan[WaveStart(cmd.pos)]] <= wave[plan[k]] /\ wave[plan[k]] <= wave[plan[cmd.pos]]
            /\ wave[plan[WaveStart(cmd.pos)]] = wave[plan[cmd.pos]]
          BY <1>1, <1>9, PlanComplete DEF PlanInv, SameWave
      <4>2. wave[plan[k]] \in Nat /\ wave[plan[cmd.pos]] \in Nat
          BY <1>1 DEF PlanInv, WavesInv
      <4> QED BY <4>1, <4>2 DEF SameWave
    <3>3. {k \in 1..Len(succeeded) : ~SameWave(k, cmd.pos)} = {k \in 1..cmd.pos : k < WaveStart(cmd.pos)}
        BY <1>1, <1>9, <3>2 DEF SameWave
    <3>4. seen'.accepted = {plan[j] : j \in {k \in 1..cmd.pos : k < WaveStart(cmd.pos)}}
        BY <1>3, <3>1, <3>3
    <3>5. cmd'.pos = WaveStart(cmd.pos) /\ (cmd.pos < Len(plan) => ~SameWave(cmd.pos, cmd.pos + 1))
        BY <1>1, <1>2, <2>4
    <3> QED BY <1>2, <1>5, <1>9, <2>1, <2>4, <3>4, <3>5 DEF ReadySoFar, At, SameWave, SameCommand
  <2>5. CASE cmd'.step = "done" /\ ~cmd.noWait
      BY <1>2, <2>5 DEF ReadySoFar, At
  <2> QED BY <1>2, <2>2, <2>3, <2>4, <2>5
<1> QED BY <1>6, <1>8, <1>11, <1>12, <1>13, <1>14, <1>15, <1>16 DEF PlanInv

\* The child that `restart` has up: it waits for it, or goes on.
LEMMA NextRestartSets ==
    ASSUME PlanInv, cmd.step \in {"up", "ready"}, cmd.verb = "restart", NEW r, r = NextRestart
    PROVE  /\ SameCommand(cmd, r) /\ ~r.undo
           /\ \/ r.step = "done" /\ cmd.pos = Len(plan)
              \/ /\ r.step = "down" /\ r.pos = cmd.pos + 1 /\ r.pos \in 1..Len(plan)
                 /\ r.entry = NumEntries[plan[r.pos]] /\ r.entry \in Nat /\ ~r.err
<1>1. /\ cmd \in CmdState /\ ~cmd.undo /\ cmd.pos \in 1..Len(plan) /\ Len(plan) \in Nat
      /\ plan \in Seq(Children)
    BY ChildInHand DEF PlanInv, PlanTyped, VerbFits, At
<1>2. CASE cmd.pos = Len(plan)
    BY <1>1, <1>2, OverSets DEF NextRestart
<1>3. CASE cmd.pos # Len(plan)
  <2>1. /\ cmd.pos + 1 \in 1..Len(plan) /\ plan[cmd.pos + 1] \in Children
        /\ NumEntries[plan[cmd.pos + 1]] \in Nat
      BY <1>1, <1>3, EntriesCounted
  <2> QED BY <1>1, <1>3, <2>1, DownAtSets DEF NextRestart
<1> QED BY <1>2, <1>3

\* What of the invariant a step of `restart` has to show.
LEMMA RestartKeeps ==
    ASSUME PlanInv, ~At({"resolve", "done"}), cmd.verb = "restart", UNCHANGED <<wavesVars, plan, succeeded>>,
           SameCommand(cmd, cmd'), ~cmd'.undo, PlanTyped', Untaken',
           \/ cmd'.step = "done"
           \/ /\ cmd'.step \in {"up", "ready"} /\ cmd'.pos \in 1..Len(plan)
              /\ cmd'.entry \in 1..NumEntries[plan[cmd'.pos]]
           \/ /\ cmd'.step = "down" /\ cmd'.pos \in 1..Len(plan)
              /\ cmd'.entry \in 0..NumEntries[plan[cmd'.pos]]
              /\ DownSoFar'
    PROVE  PlanInv'
<1>1. WavesInv' /\ PlanSorted'
    BY PlanStays
<1>2. ~cmd.undo /\ plan \in Seq(Children) /\ cmd'.verb = "restart"
    BY DEF PlanInv, VerbFits, PlanTyped, SameCommand
<1>3. ThisOne' = plan[cmd'.pos] /\ DOMAIN plan = 1..Len(plan)
    BY <1>2 DEF ThisOne
<1>4. VerbFits' /\ Placed'
    BY <1>2, <1>3 DEF VerbFits, Placed, At
<1>5. RowsTrue' /\ TouchedListed'
    BY <1>2 DEF RowsTrue, TouchedListed, Untaken
<1>6. DownSoFar' /\ UndoneSoFar' /\ TornSoFar' /\ TakenSoFar'
    BY <1>2 DEF DownSoFar, UndoneSoFar, TornSoFar, TakenSoFar, At
<1>7. UpSoFar' /\ ReadySoFar'
    BY <1>2 DEF UpSoFar, ReadySoFar
<1> QED BY <1>1, <1>4, <1>5, <1>6, <1>7 DEF PlanInv

LEMMA ChildUpAgainKeeps ==
    ASSUME PlanInv, cmd.step = "up", cmd.verb = "restart", cmd.entry = NumEntries[ThisOne],
           row' = IF cmd.noWait THEN [row EXCEPT ![ThisOne] = "up"] ELSE row,
           cmd' = IF cmd.noWait THEN NextRestart ELSE ReadyAt(cmd, cmd.pos),
           running' = running \cup {Here}, seen' = [seen EXCEPT !.touched = @ \cup {Here}],
           UNCHANGED <<wavesVars, plan, deaths, ctxDone, probe, succeeded, outcome>>
    PROVE  PlanInv'
<1>1. /\ cmd \in CmdState /\ seen \in SeenState /\ ~cmd.undo /\ row \in [Children -> RowState]
      /\ ThisOne \in Children /\ ThisOne = plan[cmd.pos] /\ cmd.pos \in 1..Len(plan)
      /\ NumEntries[ThisOne] \in Nat \ {0} /\ Untaken
      /\ plan \in Seq(Children)
    BY ChildInHand DEF PlanInv, PlanTyped, VerbFits, At, RowsTrue
<1>2. seen'.touched = seen.touched \cup {Here}
    BY <1>1 DEF SeenState
<1>3. running' \subseteq Services /\ seen'.touched \subseteq Services
    BY <1>2, TouchesHere
<1>4. SameCommand(cmd, cmd') /\ ~cmd'.undo
    BY <1>1, NextRestartSets, ReadyAtSets
<1>5. row' \in [Children -> RowState] /\ Untaken'
    BY <1>1 DEF RowState, Untaken
<1>6. PlanTyped'
    BY <1>3, <1>4, <1>5 DEF PlanInv, PlanTyped, SameCommand, SeenState
<1>7. CASE ~cmd.noWait
    BY <1>1, <1>4, <1>5, <1>6, <1>7, ReadyAtSets, RestartKeeps DEF At
<1>8. CASE cmd.noWait
  <2>1. cmd'.step = "done" \/
        (/\ cmd'.step = "down" /\ cmd'.pos \in 1..Len(plan)
         /\ cmd'.entry = NumEntries[plan[cmd'.pos]] /\ cmd'.entry \in Nat)
      BY <1>8, NextRestartSets
  <2>2. cmd'.step = "down" => ThisOne' = plan[cmd'.pos]
      BY <1>4 DEF ThisOne
  <2>3. cmd'.step = "down" => DownSoFar'
      BY <2>1, <2>2 DEF DownSoFar, At
  <2> QED BY <1>4, <1>5, <1>6, <2>1, <2>3, RestartKeeps DEF At
<1> QED BY <1>7, <1>8

LEMMA UpEntryKeeps == PlanInv /\ UpEntry => PlanInv'
BY NextEntryKeeps, ChildUpKeeps, ChildUpAgainKeeps DEF UpEntry, quiet

-----------------------------------------------------------------------------
(* Failing, and becoming ready *)

LEMMA RollbackFromSets ==
    ASSUME PlanInv, ~cmd.undo, NEW r, r = RollbackFrom(succeeded)
    PROVE  /\ SameCommand(cmd, r)
           /\ \/ r.step = "done" /\ ~r.undo /\ (cmd.noRollback \/ succeeded = <<>>)
              \/ /\ r.step = "down" /\ r.undo /\ ~r.err
                 /\ r.pos = Len(succeeded) /\ r.pos \in 1..Len(succeeded)
                 /\ r.entry = NumEntries[succeeded[r.pos]] /\ r.entry \in Nat
<1>1. cmd \in CmdState /\ succeeded \in Seq(Children)
    BY DEF PlanInv, PlanTyped
<1>2. CASE cmd.noRollback \/ succeeded = <<>>
    BY <1>1, <1>2, OverSets DEF RollbackFrom
<1>3. CASE ~(cmd.noRollback \/ succeeded = <<>>)
  <2> DEFINE k == Len(succeeded)
             n == NumEntries[succeeded[k]]
  <2>1. k \in 1..k /\ k \in Nat /\ n \in Nat
      BY <1>1, <1>3, EntriesCounted
  <2>2. r = [cmd EXCEPT !.step = "down", !.undo = TRUE, !.pos = k, !.err = FALSE, !.entry = n]
      BY <1>3 DEF RollbackFrom, Go
  <2> HIDE DEF n, k
  <2>3. r \in CmdState /\ r.step = "down" /\ r.undo /\ ~r.err /\ r.pos = k /\ r.entry = n
      BY <1>1, <2>1, <2>2 DEF CmdState, Steps
  <2>4. r.verb = cmd.verb /\ r.noWait = cmd.noWait /\ r.noRollback = cmd.noRollback
      BY <1>1, <2>2 DEF CmdState
  <2> QED BY <2>1, <2>3, <2>4 DEF n, k, SameCommand
<1> QED BY <1>2, <1>3

LEMMA FailKeeps ==
    ASSUME PlanInv, cmd.step \in {"up", "ready"}, cmd.verb = "up", FailAt(ThisOne, succeeded),
           UNCHANGED <<wavesVars, plan, deaths, ctxDone>>,
           probe' \in [answer : {"none", "ready", "unready"}, expired : BOOLEAN],
           running' \subseteq Services, seen' \in SeenState,
           \A c \in Children : c # ThisOne =>
                EntriesOf(c) \cap seen'.touched = EntriesOf(c) \cap seen.touched,
           seen'.accepted = seen.accepted, seen'.primary \in {"up", "ready"},
           seen'.primary = "up" \/ (cmd.step = "ready" /\ seen'.touched = seen.touched)
    PROVE  PlanInv'
<1>1. /\ cmd \in CmdState /\ ~cmd.undo /\ row \in [Children -> RowState] /\ ThisOne \in Children
      /\ succeeded \in Seq(Children) /\ plan \in Seq(Children) /\ Untaken
      /\ seen.primary = "none"
    BY ChildInHand DEF PlanInv, PlanTyped, VerbFits, At, RowsTrue
<1>2. /\ row' = [row EXCEPT ![ThisOne] = "failed"] /\ outcome' = "failed" /\ succeeded' = succeeded
      /\ cmd' = RollbackFrom(succeeded)
    BY DEF FailAt
<1>3. /\ SameCommand(cmd, cmd')
      /\ \/ cmd'.step = "done" /\ ~cmd'.undo /\ (cmd.noRollback \/ succeeded = <<>>)
         \/ /\ cmd'.step = "down" /\ cmd'.undo /\ ~cmd'.err
            /\ cmd'.pos = Len(succeeded) /\ cmd'.pos \in 1..Len(succeeded)
            /\ cmd'.entry = NumEntries[succeeded[cmd'.pos]] /\ cmd'.entry \in Nat
    BY <1>1, <1>2, RollbackFromSets
<1>4. row' \in [Children -> RowState] /\ Untaken' /\ row'[ThisOne] = "failed"
      /\ \A c \in Children : c # ThisOne => row'[c] = row[c]
    BY <1>1, <1>2 DEF RowState, Untaken
<1>5. WavesInv' /\ PlanSorted'
    BY <1>2, <1>3, PlanStays DEF At
<1>6. PlanTyped'
    BY <1>1, <1>2, <1>3, <1>4 DEF PlanInv, PlanTyped, SameCommand
<1>7. cmd'.step = "down" => ThisOne' = succeeded[cmd'.pos] /\ DOMAIN succeeded = 1..Len(succeeded)
    BY <1>1, <1>2, <1>3 DEF ThisOne
<1>8. VerbFits' /\ Placed'
    BY <1>2, <1>3, <1>7 DEF PlanInv, VerbFits, Placed, At, SameCommand
<1>9. RowsTrue'
  <2>1. \A c \in Children : row'[c] = "not_started" => EntriesOf(c) \cap seen'.touched = {}
    <3> SUFFICES ASSUME NEW c \in Children, row'[c] = "not_started"
                 PROVE  EntriesOf(c) \cap seen'.touched = {}
        OBVIOUS
    <3>1. c # ThisOne /\ row[c] = "not_started"
        BY <1>4
    <3>2. EntriesOf(c) \cap seen.touched = {}
        BY <3>1 DEF PlanInv, RowsTrue
    <3> QED BY <3>1, <3>2
  <2> QED BY <1>4, <2>1 DEF RowsTrue, Untaken, EntriesOf
<1>10. TouchedListed'
  <2> SUFFICES ASSUME NEW c \in Children, EntriesOf(c) \cap seen'.touched # {}
               PROVE  (\E j \in DOMAIN succeeded : succeeded[j] = c)
                      \/ (row'[c] = "failed" /\ seen'.primary = "up")
      BY <1>2 DEF TouchedListed, EntriesOf
  <2>1. CASE c = ThisOne /\ seen'.primary = "up"
      BY <1>4, <2>1
  <2>2. CASE c # ThisOne \/ seen'.touched = seen.touched
    <3>1. EntriesOf(c) \cap seen.touched # {}
        BY <2>2
    <3>2. (\E j \in DOMAIN succeeded : succeeded[j] = c) \/ (cmd.step = "up" /\ c = ThisOne)
        BY <1>1, <3>1 DEF PlanInv, TouchedListed, At
    <3> QED BY <1>4, <3>2
  <2> QED BY <2>1, <2>2
<1>11. DownSoFar' /\ UndoneSoFar' /\ TornSoFar'
  <2>1. DownSoFar'
      BY <1>3, <1>7 DEF DownSoFar, At
  <2>2. UndoneSoFar'
      BY <1>1, <1>2, <1>3 DEF UndoneSoFar, At, SameCommand
  <2> QED BY <1>3, <2>1, <2>2 DEF TornSoFar, SameCommand
<1>12. TakenSoFar'
    BY <1>1, <1>2, <1>3, <1>4 DEF TakenSoFar, Untaken, At
<1>13. UpSoFar' /\ ReadySoFar'
    BY <1>2, <1>3 DEF PlanInv, UpSoFar, ReadySoFar, At, SameCommand
<1> QED BY <1>5, <1>6, <1>8, <1>9, <1>10, <1>11, <1>12, <1>13 DEF PlanInv

\* A `restart` ends with the child that failed.
LEMMA RestartFails ==
    ASSUME PlanInv, cmd.step \in {"up", "ready", "down"}, cmd.verb = "restart", FailAt(ThisOne, succeeded),
           UNCHANGED <<wavesVars, plan, deaths, ctxDone>>,
           probe' \in [answer : {"none", "ready", "unready"}, expired : BOOLEAN],
           running' \subseteq Services, seen' \in SeenState
    PROVE  PlanInv'
<1>1. /\ cmd \in CmdState /\ ~cmd.undo /\ row \in [Children -> RowState] /\ ThisOne \in Children /\ Untaken
    BY ChildInHand DEF PlanInv, PlanTyped, VerbFits, At, RowsTrue
<1>2. /\ row' = [row EXCEPT ![ThisOne] = "failed"] /\ outcome' = "failed" /\ succeeded' = succeeded
      /\ cmd' = Over(cmd)
    BY DEF FailAt
<1>3. row' \in [Children -> RowState] /\ Untaken'
    BY <1>1, <1>2 DEF RowState, Untaken
<1>4. SameCommand(cmd, cmd') /\ cmd'.step = "done" /\ ~cmd'.undo
    BY <1>1, <1>2, OverSets
<1>5. PlanTyped'
    BY <1>2, <1>3, <1>4 DEF PlanInv, PlanTyped, SameCommand
<1> QED BY <1>2, <1>3, <1>4, <1>5, RestartKeeps DEF At

LEMMA UpFailsKeeps == PlanInv /\ UpFails => PlanInv'
<1> SUFFICES ASSUME PlanInv, cmd.step = "up", NEW part \in SUBSET {Here}, running' = running \cup part,
                    seen' = [seen EXCEPT !.primary = "up", !.touched = @ \cup part],
                    FailAt(ThisOne, succeeded), UNCHANGED <<quiet, probe>>
             PROVE  PlanInv'
    BY DEF UpFails
<1>1. seen \in SeenState /\ cmd.verb \in {"up", "restart"}
      /\ probe' \in [answer : {"none", "ready", "unready"}, expired : BOOLEAN]
    BY DEF PlanInv, PlanTyped, VerbFits, At
<1>2. seen'.touched = seen.touched \cup part /\ seen'.accepted = seen.accepted /\ seen'.primary = "up"
    BY <1>1 DEF SeenState
<1>3. /\ running' \subseteq Services /\ seen'.touched \subseteq Services
      /\ \A c \in Children : c # ThisOne =>
            EntriesOf(c) \cap seen'.touched = EntriesOf(c) \cap seen.touched
    BY <1>2, TouchesHere
<1>4. seen' \in SeenState
    BY <1>1, <1>2, <1>3 DEF SeenState
<1>5. UNCHANGED <<wavesVars, plan, deaths, ctxDone>>
    BY DEF quiet
<1> QED BY <1>1, <1>2, <1>3, <1>4, <1>5, FailKeeps, RestartFails

LEMMA NotReadyKeeps == PlanInv /\ cmd.step = "ready" /\ NotReady => PlanInv'
<1> SUFFICES ASSUME PlanInv, cmd.step = "ready", NotReady PROVE PlanInv'
    OBVIOUS
<1>1. /\ seen \in SeenState /\ cmd.verb \in {"up", "restart"} /\ running' = running /\ running \subseteq Services
      /\ seen' = [seen EXCEPT !.primary = "ready"] /\ FailAt(ThisOne, succeeded)
      /\ probe' = NoProbe
    BY DEF PlanInv, PlanTyped, VerbFits, At, NotReady
<1>2. seen'.touched = seen.touched /\ seen'.accepted = seen.accepted /\ seen'.primary = "ready" /\ seen' \in SeenState
    BY <1>1 DEF SeenState
<1>3. UNCHANGED <<wavesVars, plan, deaths, ctxDone>>
    BY DEF quiet, NotReady
<1>4. probe' \in [answer : {"none", "ready", "unready"}, expired : BOOLEAN]
    BY <1>1 DEF NoProbe
<1> QED BY <1>1, <1>2, <1>3, <1>4, FailKeeps, RestartFails

LEMMA AfterReadySets ==
    ASSUME PlanInv, cmd.step = "ready", cmd.verb = "up", NEW r, r = AfterReady(cmd.pos)
    PROVE  /\ SameCommand(cmd, r) /\ ~r.undo
           /\ \/ /\ r.step = "ready" /\ r.pos = cmd.pos + 1 /\ r.entry = 1 /\ cmd.pos < Len(plan)
                 /\ SameWave(cmd.pos, cmd.pos + 1)
              \/ r.step = "done" /\ cmd.pos = Len(plan)
              \/ /\ r.step = "up" /\ r.pos = cmd.pos + 1 /\ r.entry = 1 /\ cmd.pos < Len(plan)
                 /\ ~SameWave(cmd.pos, cmd.pos + 1)
<1>1. cmd \in CmdState /\ ~cmd.undo /\ cmd.pos \in 1..Len(plan) /\ Len(plan) \in Nat
    BY ChildInHand DEF PlanInv, PlanTyped, VerbFits, At
<1>2. /\ SameCommand(cmd, UpAt(cmd, cmd.pos + 1)) /\ UpAt(cmd, cmd.pos + 1).undo = cmd.undo
      /\ UpAt(cmd, cmd.pos + 1).step = "up" /\ UpAt(cmd, cmd.pos + 1).pos = cmd.pos + 1
      /\ UpAt(cmd, cmd.pos + 1).entry = 1
    BY <1>1, UpAtSets
<1>3. /\ SameCommand(cmd, ReadyAt(cmd, cmd.pos + 1)) /\ ReadyAt(cmd, cmd.pos + 1).undo = cmd.undo
      /\ ReadyAt(cmd, cmd.pos + 1).step = "ready" /\ ReadyAt(cmd, cmd.pos + 1).pos = cmd.pos + 1
      /\ ReadyAt(cmd, cmd.pos + 1).entry = 1
    BY <1>1, ReadyAtSets
<1> QED BY <1>1, <1>2, <1>3, OverSets DEF AfterReady, NextWave

\* The next entry is waited for.
LEMMA NextCheckKeeps ==
    ASSUME PlanInv, cmd.step = "ready", cmd.entry < NumEntries[ThisOne],
           cmd' = [cmd EXCEPT !.entry = @ + 1], probe' = NoProbe,
           UNCHANGED <<wavesVars, plan, deaths, ctxDone, running, succeeded, outcome, row, seen>>
    PROVE  PlanInv'
<1>1. /\ cmd \in CmdState /\ ~cmd.undo /\ cmd.verb \in {"up", "restart"}
      /\ ThisOne \in Children /\ cmd.entry \in 1..NumEntries[ThisOne]
      /\ NumEntries[ThisOne] \in Nat
    BY ChildInHand DEF PlanInv, PlanTyped, VerbFits, Placed, At
<1>2. /\ SameCommand(cmd, cmd') /\ cmd'.undo = cmd.undo /\ cmd'.step = "ready" /\ cmd'.pos = cmd.pos
      /\ cmd'.entry = cmd.entry + 1
    BY <1>1 DEF CmdState, SameCommand
<1>3. ThisOne' = ThisOne
    BY <1>1, <1>2 DEF ThisOne
<1>4. WavesInv' /\ PlanSorted'
    BY <1>2, PlanStays DEF At
<1>5. PlanTyped'
    BY <1>2 DEF PlanInv, PlanTyped, SameCommand, NoProbe
<1>6. VerbFits' /\ Placed'
    BY <1>1, <1>2, <1>3 DEF PlanInv, VerbFits, Placed, At, SameCommand
<1>7. RowsTrue' /\ TouchedListed'
    BY <1>1, <1>2, <1>3 DEF PlanInv, RowsTrue, TouchedListed, Untaken, At, SameCommand
<1>8. DownSoFar' /\ UndoneSoFar' /\ TornSoFar' /\ TakenSoFar'
    BY <1>1, <1>2 DEF PlanInv, DownSoFar, UndoneSoFar, TornSoFar, TakenSoFar, At, SameCommand
<1>9. UpSoFar' /\ ReadySoFar'
    BY <1>1, <1>2 DEF PlanInv, UpSoFar, ReadySoFar, At, SameCommand, SameWave, wavesVars
<1> QED BY <1>4, <1>5, <1>6, <1>7, <1>8, <1>9 DEF PlanInv

\* The child is ready.
LEMMA ChildReadyKeeps ==
    ASSUME PlanInv, cmd.step = "ready", cmd.verb = "up", cmd' = AfterReady(cmd.pos),
           probe' = NoProbe, seen' = [seen EXCEPT !.accepted = @ \cup {ThisOne}],
           UNCHANGED <<wavesVars, plan, deaths, ctxDone, running, succeeded, outcome, row>>
    PROVE  PlanInv'
<1>1. /\ cmd \in CmdState /\ seen \in SeenState /\ ~cmd.undo
      /\ ThisOne \in Children /\ ThisOne = plan[cmd.pos] /\ cmd.pos \in 1..Len(plan)
      /\ succeeded \in Seq(Children) /\ plan \in Seq(Children) /\ Len(plan) \in Nat
      /\ Len(succeeded) \in 0..Len(plan) /\ cmd.pos <= Len(succeeded) /\ waves = "ok" /\ ~cmd.noWait
      /\ seen.accepted = {plan[j] : j \in {k \in 1..Len(succeeded) : k < cmd.pos}}
      /\ SameWave(cmd.pos, Len(succeeded))
      /\ Len(succeeded) < Len(plan) => ~SameWave(Len(succeeded), Len(succeeded) + 1)
    BY ChildInHand DEF PlanInv, PlanTyped, VerbFits, UpSoFar, ReadySoFar, At
<1>2. /\ SameCommand(cmd, cmd') /\ ~cmd'.undo
      /\ \/ /\ cmd'.step = "ready" /\ cmd'.pos = cmd.pos + 1 /\ cmd'.entry = 1 /\ cmd.pos < Len(plan)
            /\ SameWave(cmd.pos, cmd.pos + 1)
         \/ cmd'.step = "done" /\ cmd.pos = Len(plan)
         \/ /\ cmd'.step = "up" /\ cmd'.pos = cmd.pos + 1 /\ cmd'.entry = 1 /\ cmd.pos < Len(plan)
            /\ ~SameWave(cmd.pos, cmd.pos + 1)
    BY <1>1, AfterReadySets
<1>3. /\ seen' \in SeenState /\ seen'.accepted = seen.accepted \cup {ThisOne}
      /\ seen'.touched = seen.touched /\ seen'.primary = seen.primary
      /\ seen'.unread = seen.unread /\ seen'.stuck = seen.stuck /\ seen'.sourceless = seen.sourceless
    BY <1>1 DEF SeenState
<1>4. WavesInv' /\ PlanSorted'
    BY <1>1, <1>2, PlanStays DEF At
<1>5. PlanTyped'
    BY <1>2, <1>3 DEF PlanInv, PlanTyped, SameCommand, NoProbe
<1>6. cmd'.step \in {"up", "ready"} =>
         /\ cmd'.pos \in 1..Len(plan) /\ ThisOne' = plan[cmd'.pos]
         /\ NumEntries[ThisOne'] \in Nat \ {0}
  <2>1. cmd'.step \in {"up", "ready"} => cmd'.pos \in 1..Len(plan) /\ ThisOne' = plan[cmd'.pos]
      BY <1>1, <1>2 DEF ThisOne
  <2> QED BY <1>1, <2>1, EntriesCounted
<1>7. DOMAIN plan = 1..Len(plan)
    BY <1>1
<1>8. VerbFits' /\ Placed'
    BY <1>1, <1>2, <1>3, <1>6, <1>7 DEF PlanInv, VerbFits, Placed, At, SameCommand
<1>9. RowsTrue' /\ TouchedListed'
    BY <1>1, <1>2, <1>3 DEF PlanInv, RowsTrue, TouchedListed, Untaken, At, SameCommand
<1>10. DownSoFar' /\ UndoneSoFar' /\ TornSoFar' /\ TakenSoFar'
    BY <1>1, <1>2, <1>3 DEF PlanInv, VerbFits, DownSoFar, UndoneSoFar, TornSoFar, TakenSoFar, At, SameCommand
<1> DEFINE n == Len(succeeded)
           W(k) == wave[plan[k]]
<1>14. /\ n \in 0..Len(plan) /\ cmd.pos \in 1..n /\ W(cmd.pos) = W(n)
       /\ n < Len(plan) => W(n) # W(n + 1)
       /\ \A i, j \in 1..Len(plan) : i <= j => W(i) <= W(j)
       /\ \A i \in 1..Len(plan) : W(i) \in Nat
  <2>1. n \in 0..Len(plan) /\ cmd.pos \in 1..n /\ W(cmd.pos) = W(n) /\ (n < Len(plan) => W(n) # W(n + 1))
      BY <1>1 DEF SameWave
  <2>2. \A i, j \in 1..Len(plan) : i <= j => W(i) <= W(j)
      BY <1>1, PlanComplete DEF PlanInv
  <2>3. \A i \in 1..Len(plan) : W(i) \in Nat
      BY <1>1 DEF PlanInv, WavesInv
  <2> QED BY <2>1, <2>2, <2>3
<1> HIDE DEF n, W
\* Behind a wave that goes on are children of this wave only; at its end there are none.
<1>11. /\ \A k \in cmd.pos..n : W(k) = W(cmd.pos)
       /\ W(cmd.pos) = W(cmd.pos + 1) => cmd.pos = Len(plan) \/ cmd.pos < n
       /\ W(cmd.pos) # W(cmd.pos + 1) => cmd.pos = n
       /\ W(cmd.pos) # W(cmd.pos + 1) /\ cmd.pos < Len(plan) => \A k \in 1..n : W(k) # W(cmd.pos + 1)
  <2>1. \A k \in cmd.pos..n : W(k) = W(cmd.pos)
    <3> SUFFICES ASSUME NEW k \in cmd.pos..n PROVE W(k) = W(cmd.pos)
        OBVIOUS
    <3>1. k \in 1..Len(plan) /\ n \in 1..Len(plan) /\ cmd.pos <= k /\ k <= n
        BY <1>1, <1>14
    <3>2. W(cmd.pos) <= W(k) /\ W(k) <= W(n) /\ W(k) \in Nat /\ W(cmd.pos) \in Nat
        BY <1>1, <1>14, <3>1
    <3> QED BY <1>14, <3>2
  <2>2. W(cmd.pos) # W(cmd.pos + 1) => cmd.pos = n
      BY <1>1, <1>14, <2>1
  <2>3. ASSUME W(cmd.pos) # W(cmd.pos + 1), cmd.pos < Len(plan), NEW k \in 1..n PROVE W(k) # W(cmd.pos + 1)
    <3>1. cmd.pos + 1 \in 1..Len(plan) /\ k \in 1..Len(plan) /\ k <= cmd.pos
        BY <1>1, <1>14, <2>2, <2>3
    <3>2. /\ W(k) <= W(cmd.pos) /\ W(cmd.pos) <= W(cmd.pos + 1)
          /\ W(k) \in Nat /\ W(cmd.pos) \in Nat /\ W(cmd.pos + 1) \in Nat
        BY <1>1, <1>14, <3>1
    <3> QED BY <2>3, <3>2
  <2> QED BY <1>1, <1>14, <2>1, <2>2, <2>3
<1>12. UpSoFar'
    BY <1>1, <1>2, <1>11, <1>14 DEF PlanInv, UpSoFar, At, SameCommand, SameWave, n, W
<1>13. ReadySoFar'
  <2>1. wave' = wave /\ plan' = plan /\ succeeded' = succeeded
      BY DEF wavesVars
  <2>2. seen'.accepted = {plan[j] : j \in {k \in 1..n : k < cmd.pos + 1}}
      BY <1>1, <1>3, <1>14 DEF n
  <2>3. CASE cmd'.step = "ready"
    <3>1. W(cmd.pos + 1) = W(n) /\ cmd'.pos = cmd.pos + 1
        BY <1>2, <1>14, <2>3 DEF SameWave, W
    <3> QED BY <1>1, <1>2, <2>1, <2>2, <2>3, <3>1 DEF ReadySoFar, At, SameWave, SameCommand, n, W
  <2>4. CASE cmd'.step = "done"
      BY <1>1, <1>2, <2>4 DEF ReadySoFar, At, SameCommand
  <2>5. CASE cmd'.step = "up"
    <3>1. cmd'.pos = cmd.pos + 1 /\ cmd.pos < Len(plan) /\ W(cmd.pos) # W(cmd.pos + 1)
        BY <1>2, <2>5 DEF SameWave, W
    <3>2. cmd.pos = n /\ \A k \in 1..n : W(k) # W(cmd.pos + 1)
        BY <1>11, <3>1
    <3>3. {k \in 1..n : k < cmd.pos + 1} = {k \in 1..n : W(k) # W(cmd.pos + 1)}
        BY <1>1, <3>2
    <3>4. seen'.accepted = {plan[j] : j \in {k \in 1..n : W(k) # W(cmd.pos + 1)}}
        BY <2>2, <3>3
    <3>5. seen'.accepted = {plan'[j] : j \in {k \in 1..Len(succeeded') : ~(wave'[plan'[k]] = wave'[plan'[cmd'.pos]])}}
        BY <2>1, <3>1, <3>4 DEF n, W
    <3> QED BY <1>1, <1>2, <2>5, <3>5 DEF ReadySoFar, At, SameWave, SameCommand
  <2> QED BY <1>2, <2>3, <2>4, <2>5
<1> QED BY <1>4, <1>5, <1>8, <1>9, <1>10, <1>12, <1>13 DEF PlanInv

\* The child that `restart` waited for is ready.
LEMMA ReadyAgainKeeps ==
    ASSUME PlanInv, cmd.step = "ready", cmd.verb = "restart", cmd' = NextRestart,
           row' = [row EXCEPT ![ThisOne] = "up"],
           probe' = NoProbe, seen' = [seen EXCEPT !.accepted = @ \cup {ThisOne}],
           UNCHANGED <<wavesVars, plan, deaths, ctxDone, running, succeeded, outcome>>
    PROVE  PlanInv'
<1>1. /\ cmd \in CmdState /\ seen \in SeenState /\ ~cmd.undo /\ row \in [Children -> RowState]
      /\ ThisOne \in Children /\ Untaken /\ plan \in Seq(Children)
    BY ChildInHand DEF PlanInv, PlanTyped, VerbFits, At, RowsTrue
<1>2. /\ SameCommand(cmd, cmd') /\ ~cmd'.undo
      /\ \/ cmd'.step = "done"
         \/ /\ cmd'.step = "down" /\ cmd'.pos \in 1..Len(plan)
            /\ cmd'.entry = NumEntries[plan[cmd'.pos]] /\ cmd'.entry \in Nat
    BY NextRestartSets
<1>3. row' \in [Children -> RowState] /\ Untaken' /\ seen' \in SeenState
    BY <1>1 DEF RowState, Untaken, SeenState
<1>4. PlanTyped'
    BY <1>2, <1>3 DEF PlanInv, PlanTyped, SameCommand, NoProbe
<1>5. cmd'.step = "down" => ThisOne' = plan[cmd'.pos]
    BY <1>2 DEF ThisOne
<1>6. cmd'.step = "down" => DownSoFar'
    BY <1>2, <1>5 DEF DownSoFar, At
<1> QED BY <1>2, <1>3, <1>4, <1>6, RestartKeeps DEF At

LEMMA EntryReadyKeeps == PlanInv /\ cmd.step = "ready" /\ EntryReady => PlanInv'
<1> SUFFICES ASSUME PlanInv, cmd.step = "ready", EntryReady PROVE PlanInv'
    OBVIOUS
<1>1. /\ UNCHANGED <<wavesVars, plan, deaths, ctxDone, running, succeeded, outcome>> /\ probe' = NoProbe
      /\ cmd.verb \in {"up", "restart"}
    BY DEF EntryReady, quiet, PlanInv, VerbFits, At
<1>2. CASE cmd.entry < NumEntries[ThisOne]
    BY <1>1, <1>2, NextCheckKeeps DEF EntryReady
<1>3. CASE ~(cmd.entry < NumEntries[ThisOne]) /\ cmd.verb = "restart"
    BY <1>1, <1>3, ReadyAgainKeeps DEF EntryReady
<1>4. CASE ~(cmd.entry < NumEntries[ThisOne]) /\ cmd.verb = "up"
    BY <1>1, <1>4, ChildReadyKeeps DEF EntryReady
<1> QED BY <1>1, <1>2, <1>3, <1>4

LEMMA WaitingKeeps ==
    PlanInv /\ (NoChecks \/ TakeAnswer \/ WaitOver \/ Liveness \/ ExecutorFails) => PlanInv'
BY EntryReadyKeeps, NotReadyKeeps DEF NoChecks, TakeAnswer, WaitOver, Liveness, ExecutorFails

-----------------------------------------------------------------------------
(* Going down *)

\* One entry is taken down, has no source, or resists.
LEMMA DownEntryKeeps == PlanInv /\ DownEntry => PlanInv'
<1> SUFFICES ASSUME PlanInv, DownEntry PROVE PlanInv'
    OBVIOUS
<1>1. /\ cmd \in CmdState /\ seen \in SeenState /\ cmd.step = "down" /\ running \subseteq Services
      /\ ThisOne \in Children /\ cmd.entry \in 1..NumEntries[ThisOne] /\ Here \in Services
      /\ NumEntries[ThisOne] \in Nat
  <2>1. ThisOne \in Children /\ cmd.entry \in 1..NumEntries[ThisOne] /\ NumEntries[ThisOne] \in Nat
      BY ChildInHand DEF DownEntry, PlanInv, Placed, At
  <2> QED BY <2>1, EntryOf DEF DownEntry, PlanInv, PlanTyped, Here
<1>2. UNCHANGED <<wavesVars, plan, deaths, ctxDone, probe, row, outcome, succeeded>>
    BY DEF DownEntry, quiet
<1>3. /\ SameCommand(cmd, cmd') /\ cmd'.undo = cmd.undo /\ cmd'.step = "down" /\ cmd'.pos = cmd.pos
      /\ cmd'.entry = cmd.entry - 1 /\ (cmd.err => cmd'.err) /\ cmd.entry - 1 \in Nat
  <2>1. cmd.entry - 1 \in Nat
      BY <1>1
  <2>2. CASE cmd' = [cmd EXCEPT !.entry = @ - 1]
      BY <1>1, <2>1, <2>2 DEF CmdState, SameCommand
  <2>3. CASE cmd' = [cmd EXCEPT !.entry = @ - 1, !.err = TRUE]
      BY <1>1, <2>1, <2>3 DEF CmdState, SameCommand
  <2> QED BY <2>2, <2>3 DEF DownEntry
<1>4. /\ running' \subseteq running /\ seen' \in SeenState
      /\ seen'.touched = seen.touched /\ seen'.accepted = seen.accepted
      /\ seen'.primary = seen.primary /\ seen'.unread = seen.unread
      /\ seen.stuck \subseteq seen'.stuck /\ seen.sourceless \subseteq seen'.sourceless
      /\ Here \in running' => Here \in (IF cmd'.err THEN seen'.stuck \cup seen'.sourceless ELSE seen'.sourceless)
  <2>1. CASE running' = running \ {Here} /\ UNCHANGED seen
      BY <1>1, <2>1
  <2>2. CASE seen' = [seen EXCEPT !.sourceless = @ \cup {Here}] /\ UNCHANGED running
      BY <1>1, <2>2 DEF SeenState
  <2>3. CASE /\ seen' = [seen EXCEPT !.stuck = @ \cup {Here}] /\ running' \in {running, running \ {Here}}
             /\ cmd' = [cmd EXCEPT !.entry = @ - 1, !.err = TRUE]
    <3>1. cmd'.err
        BY <1>1, <2>3 DEF CmdState
    <3> QED BY <1>1, <2>3, <3>1 DEF SeenState
  <2> QED BY <2>1, <2>2, <2>3 DEF DownEntry
<1>5. ThisOne' = ThisOne
    BY <1>2, <1>3 DEF ThisOne
<1>6. WavesInv' /\ PlanSorted'
    BY <1>1, <1>2, <1>3, PlanStays DEF At
<1>7. PlanTyped'
    BY <1>1, <1>2, <1>3, <1>4 DEF PlanInv, PlanTyped, SameCommand
<1>8. VerbFits' /\ Placed'
    BY <1>1, <1>2, <1>3, <1>4, <1>5 DEF PlanInv, VerbFits, Placed, At, SameCommand
<1>9. RowsTrue' /\ TouchedListed'
  <2>1. \A c \in Children : row[c] = "rolled_back" => EntriesOf(c) \cap running' \subseteq seen'.sourceless
      BY <1>4 DEF PlanInv, RowsTrue
  <2> QED BY <1>1, <1>2, <1>3, <1>4, <1>5, <2>1 DEF PlanInv, RowsTrue, TouchedListed, Untaken, At, SameCommand, EntriesOf
<1>10. DownSoFar'
  <2> SUFFICES ASSUME NEW e \in 1..NumEntries[ThisOne], cmd'.entry < e, <<ThisOne, e>> \in running'
               PROVE  <<ThisOne, e>> \in (IF cmd'.err THEN seen'.stuck \cup seen'.sourceless ELSE seen'.sourceless)
      BY <1>5 DEF DownSoFar, Excused
  <2>1. CASE e = cmd.entry
      BY <1>4, <2>1 DEF Here
  <2>2. CASE e # cmd.entry
    <3>1. cmd.entry < e
        BY <1>1, <1>3, <2>2
    <3>2. <<ThisOne, e>> \in (IF cmd.err THEN seen.stuck \cup seen.sourceless ELSE seen.sourceless)
        BY <1>1, <1>4, <3>1 DEF PlanInv, DownSoFar, At, Excused
    <3> QED BY <1>3, <1>4, <3>2
  <2> QED BY <2>1, <2>2
<1>11. UndoneSoFar' /\ TakenSoFar'
  <2>1. \A c \in Children : EntriesOf(c) \cap running \subseteq Excused =>
                               EntriesOf(c) \cap running' \subseteq seen'.stuck \cup seen'.sourceless
      BY <1>4 DEF Excused
  <2>2. \A j \in DOMAIN succeeded : succeeded[j] \in Children
      BY DEF PlanInv, PlanTyped
  <2>3. UndoneSoFar'
      BY <1>1, <1>2, <1>3, <2>1, <2>2 DEF PlanInv, UndoneSoFar, At, SameCommand, Excused, EntriesOf
  <2> QED BY <1>1, <1>2, <1>3, <2>3 DEF PlanInv, TakenSoFar, At, SameCommand
<1>12. TornSoFar'
  <2>1. \A c \in Children : Passed(c) =>
            EntriesOf(c) \cap running' \subseteq (seen'.stuck \cup seen'.sourceless) \cup seen'.unread
      BY <1>4 DEF Passed, Excused
  <2>2. \A j \in DOMAIN plan : plan[j] \in Children
      BY DEF PlanInv, PlanTyped
  <2> QED BY <1>1, <1>2, <1>3, <2>1, <2>2 DEF PlanInv, TornSoFar, At, SameCommand, Done, Passed, Excused, EntriesOf
<1>13. UpSoFar' /\ ReadySoFar'
    BY <1>1, <1>2, <1>3, <1>4 DEF PlanInv, UpSoFar, ReadySoFar, At, SameCommand
<1> QED BY <1>6, <1>7, <1>8, <1>9, <1>10, <1>11, <1>12, <1>13 DEF PlanInv

\* A child of the rollback of an `up` is down, or its down failed.
LEMMA UndoChildKeeps ==
    ASSUME PlanInv, cmd.step = "down", cmd.verb = "up", NEW err \in BOOLEAN, ChildDown(err),
           UNCHANGED <<quiet, running, probe>>,
           seen' \in SeenState, seen'.touched = seen.touched, seen'.accepted = seen.accepted,
           seen'.primary = seen.primary, seen'.unread = seen.unread,
           seen'.sourceless = seen.sourceless, seen.stuck \subseteq seen'.stuck,
           EntriesOf(ThisOne) \cap running \subseteq seen'.stuck \cup seen.sourceless,
           ~err => EntriesOf(ThisOne) \cap running \subseteq seen.sourceless
    PROVE  PlanInv'
<1>1. /\ cmd \in CmdState /\ cmd.undo /\ row \in [Children -> RowState] /\ ThisOne \in Children
      /\ succeeded \in Seq(Children) /\ plan \in Seq(Children) /\ waves = "ok"
      /\ cmd.pos \in 1..Len(succeeded) /\ ThisOne = succeeded[cmd.pos] /\ Len(succeeded) \in Nat
      /\ DOMAIN succeeded = 1..Len(succeeded)
    BY ChildInHand DEF PlanInv, PlanTyped, VerbFits, At
<1>2. /\ row' = [row EXCEPT ![ThisOne] = IF err THEN "rollback_failed" ELSE "rolled_back"]
      /\ cmd' = IF cmd.pos = 1 THEN Over(cmd) ELSE DownAt(cmd, cmd.pos - 1)
      /\ UNCHANGED <<outcome, succeeded, wavesVars, plan, deaths, ctxDone>>
    BY DEF ChildDown, quiet
<1>3. /\ row' \in [Children -> RowState]
      /\ row'[ThisOne] = IF err THEN "rollback_failed" ELSE "rolled_back"
      /\ \A c \in Children : c # ThisOne => row'[c] = row[c]
    BY <1>1, <1>2 DEF RowState
<1>4. /\ SameCommand(cmd, cmd') /\ cmd'.undo
      /\ \/ cmd'.step = "done" /\ cmd.pos = 1
         \/ /\ cmd'.step = "down" /\ cmd'.pos = cmd.pos - 1 /\ cmd'.pos \in 1..Len(succeeded) /\ ~cmd'.err
            /\ cmd'.entry = NumEntries[succeeded[cmd'.pos]] /\ cmd'.entry \in Nat
  <2>1. CASE cmd.pos = 1
      BY <1>1, <1>2, <2>1, OverSets
  <2>2. CASE cmd.pos # 1
    <3>1. /\ cmd.pos - 1 \in 1..Len(succeeded) /\ cmd.pos - 1 \in Nat /\ succeeded[cmd.pos - 1] \in Children
          /\ NumEntries[succeeded[cmd.pos - 1]] \in Nat
        BY <1>1, <2>2, EntriesCounted
    <3> QED BY <1>1, <1>2, <2>2, <3>1, DownAtSets
  <2> QED BY <2>1, <2>2
<1>5. WavesInv' /\ PlanSorted'
    BY <1>1, <1>2, <1>4, PlanStays DEF At
<1>6. PlanTyped'
    BY <1>2, <1>3, <1>4 DEF PlanInv, PlanTyped, SameCommand
<1>7. cmd'.step = "down" => ThisOne' = succeeded[cmd'.pos]
    BY <1>2, <1>4 DEF ThisOne
<1>8. VerbFits' /\ Placed'
  <2>1. VerbFits'
      BY <1>1, <1>2, <1>4 DEF PlanInv, VerbFits, At, SameCommand
  <2> QED BY <1>1, <1>2, <1>4, <1>7, <2>1 DEF Placed, At
<1>9. RowsTrue'
  <2>1. \A c \in Children : row'[c] = "rolled_back" => EntriesOf(c) \cap running \subseteq seen.sourceless
    <3> SUFFICES ASSUME NEW c \in Children, row'[c] = "rolled_back"
                 PROVE  EntriesOf(c) \cap running \subseteq seen.sourceless
        OBVIOUS
    <3>1. CASE c = ThisOne
        BY <1>3, <3>1
    <3>2. CASE c # ThisOne
        BY <1>3, <3>2 DEF PlanInv, RowsTrue
    <3> QED BY <3>1, <3>2
  <2>2. \A c \in Children : row'[c] = "not_started" => EntriesOf(c) \cap seen.touched = {}
      BY <1>3 DEF PlanInv, RowsTrue, At
  <2> QED BY <1>1, <1>2, <1>4, <2>1, <2>2 DEF RowsTrue, EntriesOf
<1>10. TouchedListed'
  <2> SUFFICES ASSUME NEW c \in Children, EntriesOf(c) \cap seen.touched # {}
               PROVE  (\E j \in DOMAIN succeeded : succeeded[j] = c)
                      \/ (row'[c] = "failed" /\ seen.primary = "up")
      BY <1>2 DEF TouchedListed, EntriesOf
  <2>1. (\E j \in DOMAIN succeeded : succeeded[j] = c) \/ (row[c] = "failed" /\ seen.primary = "up")
      BY DEF PlanInv, TouchedListed, At
  <2> QED BY <1>1, <1>3, <2>1
<1>11. DownSoFar' /\ TornSoFar' /\ UpSoFar' /\ ReadySoFar'
  <2>1. DownSoFar'
      BY <1>4, <1>7 DEF DownSoFar, At
  <2> QED BY <1>2, <1>4, <2>1 DEF PlanInv, TornSoFar, UpSoFar, ReadySoFar, At, SameCommand
<1>12. UndoneSoFar'
  <2> SUFFICES ASSUME NEW j \in 1..Len(succeeded), cmd'.pos < j \/ cmd'.step = "done"
               PROVE  EntriesOf(succeeded[j]) \cap running \subseteq seen'.stuck \cup seen.sourceless
      BY <1>1, <1>2, <1>4 DEF UndoneSoFar, At, Excused, EntriesOf
  <2>1. CASE j = cmd.pos
      BY <1>1, <2>1
  <2>2. CASE j # cmd.pos
    <3>1. cmd.pos < j
        BY <1>1, <1>4, <2>2
    <3> QED BY <1>1, <3>1 DEF PlanInv, UndoneSoFar, Excused
  <2> QED BY <2>1, <2>2
<1>13. TakenSoFar'
  <2>1. \A j \in 1..Len(succeeded) : succeeded[j] = ThisOne => j = cmd.pos
    <3>1. /\ \A i \in 1..Len(succeeded) : succeeded[i] = plan[i]
          /\ Len(succeeded) <= Len(plan)
        BY DEF PlanInv, UpSoFar
    <3>2. \A i, j \in 1..Len(plan) : plan[i] = plan[j] => i = j
        BY <1>1, PlanComplete DEF PlanInv
    <3>3. Len(plan) \in Nat
        BY <1>1
    <3> QED BY <1>1, <3>1, <3>2, <3>3
  <2> SUFFICES ASSUME NEW j \in 1..Len(succeeded)
               PROVE  row'[succeeded[j]] \in {"rolled_back", "rollback_failed"} <=>
                        (cmd'.step = "down" => cmd'.pos < j)
      BY <1>1, <1>2 DEF TakenSoFar, At
  <2>2. row[succeeded[j]] \in {"rolled_back", "rollback_failed"} <=> cmd.pos < j
      BY <1>1 DEF PlanInv, TakenSoFar, At
  <2>3. succeeded[j] \in Children
      BY <1>1
  <2>4. CASE j = cmd.pos
      BY <1>1, <1>3, <1>4, <2>4
  <2>5. CASE j # cmd.pos
      BY <1>1, <1>3, <1>4, <2>1, <2>2, <2>3, <2>5
  <2> QED BY <2>4, <2>5
<1> QED BY <1>5, <1>6, <1>8, <1>9, <1>10, <1>11, <1>12, <1>13 DEF PlanInv

\* What of the invariant a step of `down`, `stop` or `status` has to show.
LEMMA BackwardKeeps ==
    ASSUME PlanInv, ~At({"resolve", "done"}), cmd.verb \in {"down", "stop", "status"},
           UNCHANGED <<wavesVars, plan, succeeded, ctxDone>>,
           SameCommand(cmd, cmd'), ~cmd'.undo, PlanTyped',
           \A c \in Children : row'[c] = "rolled_back" => EntriesOf(c) \cap running' \subseteq seen'.sourceless,
           cmd.verb = "status" => Untaken',
           \/ cmd'.step = "done"
           \/ cmd'.step \in {"query", "decide"} /\ cmd'.pos \in 1..Len(plan)
           \/ /\ cmd'.step = "down" /\ cmd.verb \in {"down", "stop"} /\ cmd'.pos \in 1..Len(plan)
              /\ cmd'.entry \in 0..NumEntries[plan[cmd'.pos]] /\ DownSoFar',
           TornSoFar'
    PROVE  PlanInv'
<1>1. WavesInv' /\ PlanSorted'
    BY PlanStays
<1>2. /\ ~cmd.undo /\ plan \in Seq(Children) /\ cmd'.verb = cmd.verb /\ plan' = plan
      /\ cmd.verb = "down" => ~ctxDone'
    BY DEF PlanInv, VerbFits, PlanTyped, SameCommand
<1>3. ThisOne' = plan[cmd'.pos] /\ DOMAIN plan = 1..Len(plan)
    BY <1>2 DEF ThisOne
<1>4. VerbFits' /\ Placed'
    BY <1>2, <1>3 DEF VerbFits, Placed, At
<1>5. RowsTrue' /\ TouchedListed'
    BY <1>2 DEF RowsTrue, TouchedListed, Untaken, EntriesOf
<1>6. DownSoFar' /\ UndoneSoFar' /\ TakenSoFar'
    BY <1>2 DEF DownSoFar, UndoneSoFar, TakenSoFar, At
<1>7. UpSoFar' /\ ReadySoFar'
    BY <1>2 DEF UpSoFar, ReadySoFar
<1> QED BY <1>1, <1>4, <1>5, <1>6, <1>7 DEF PlanInv

\* A child of `down` or `stop` is down, or its down failed.
LEMMA TornChildKeeps ==
    ASSUME PlanInv, cmd.step = "down", cmd.verb \in {"down", "stop"}, NEW err \in BOOLEAN, ChildDown(err),
           UNCHANGED <<quiet, running, probe>>,
           seen' \in SeenState, seen'.unread = seen.unread,
           seen'.sourceless = seen.sourceless, seen.stuck \subseteq seen'.stuck,
           \/ cmd.verb = "stop" /\ ctxDone
           \/ EntriesOf(ThisOne) \cap running \subseteq seen'.stuck \cup seen.sourceless,
           ~err => EntriesOf(ThisOne) \cap running \subseteq seen.sourceless
    PROVE  PlanInv'
<1>1. /\ cmd \in CmdState /\ ~cmd.undo /\ row \in [Children -> RowState] /\ ThisOne \in Children
      /\ plan \in Seq(Children) /\ Len(plan) \in Nat /\ outcome \in {"none", "up", "down", "failed"}
      /\ cmd.pos \in 1..Len(plan) /\ ThisOne = plan[cmd.pos] /\ DOMAIN plan = 1..Len(plan)
    BY ChildInHand DEF PlanInv, PlanTyped, VerbFits, At
<1>2. /\ row' = [row EXCEPT ![ThisOne] = IF err THEN "rollback_failed" ELSE "rolled_back"]
      /\ cmd' = IF cmd.pos = 1 \/ (cmd.verb = "stop" /\ ctxDone) THEN Over(cmd)
                ELSE QueryAt(cmd, cmd.pos - 1)
      /\ outcome' = IF err \/ (cmd.verb = "stop" /\ ctxDone) THEN "failed" ELSE outcome
      /\ UNCHANGED <<succeeded, wavesVars, plan, deaths, ctxDone>>
    BY DEF ChildDown, quiet
<1>3. /\ row' \in [Children -> RowState] /\ outcome' \in {"none", "up", "down", "failed"}
      /\ row'[ThisOne] = IF err THEN "rollback_failed" ELSE "rolled_back"
      /\ \A c \in Children : c # ThisOne => row'[c] = row[c]
    BY <1>1, <1>2 DEF RowState
<1>4. /\ SameCommand(cmd, cmd') /\ ~cmd'.undo
      /\ \/ cmd'.step = "done" /\ (cmd.pos = 1 \/ (cmd.verb = "stop" /\ ctxDone))
         \/ /\ cmd'.step = "query" /\ cmd'.pos = cmd.pos - 1 /\ cmd'.pos \in 1..Len(plan)
            /\ ~(cmd.verb = "stop" /\ ctxDone)
  <2>1. CASE cmd.pos = 1 \/ (cmd.verb = "stop" /\ ctxDone)
      BY <1>1, <1>2, <2>1, OverSets
  <2>2. CASE ~(cmd.pos = 1 \/ (cmd.verb = "stop" /\ ctxDone))
    <3>1. cmd.pos - 1 \in 1..Len(plan) /\ cmd.pos - 1 \in Nat
        BY <1>1, <2>2
    <3> QED BY <1>1, <1>2, <2>2, <3>1, QueryAtSets
  <2> QED BY <2>1, <2>2
<1>5. PlanTyped'
    BY <1>2, <1>3, <1>4 DEF PlanInv, PlanTyped, SameCommand
<1>6. \A c \in Children : row'[c] = "rolled_back" => EntriesOf(c) \cap running' \subseteq seen'.sourceless
  <2> SUFFICES ASSUME NEW c \in Children, row'[c] = "rolled_back"
               PROVE  EntriesOf(c) \cap running \subseteq seen.sourceless
      OBVIOUS
  <2>1. CASE c = ThisOne
      BY <1>3, <2>1
  <2>2. CASE c # ThisOne
      BY <1>3, <2>2 DEF PlanInv, RowsTrue
  <2> QED BY <2>1, <2>2
<1>7. TornSoFar'
  <2>1. ~(cmd.verb = "stop" /\ ctxDone) =>
          \A j \in 1..Len(plan) : cmd.pos <= j =>
            EntriesOf(plan[j]) \cap running \subseteq (seen'.stuck \cup seen.sourceless) \cup seen.unread
    <3> SUFFICES ASSUME ~(cmd.verb = "stop" /\ ctxDone), NEW j \in 1..Len(plan), cmd.pos <= j
                 PROVE  EntriesOf(plan[j]) \cap running \subseteq (seen'.stuck \cup seen.sourceless) \cup seen.unread
        OBVIOUS
    <3>1. CASE j = cmd.pos
        BY <1>1, <3>1
    <3>2. CASE j # cmd.pos
      <4>1. cmd.pos < j
          BY <1>1, <3>2
      <4> QED BY <1>1, <4>1 DEF PlanInv, TornSoFar, At, Passed, Excused
    <3> QED BY <3>1, <3>2
  <2>2. cmd'.step = "query" => \A j \in 1..Len(plan) : cmd'.pos < j => cmd.pos <= j
      BY <1>1, <1>4
  <2>3. cmd'.step = "done" /\ cmd.verb = "down" => \A j \in 1..Len(plan) : cmd.pos <= j
      BY <1>1, <1>4
  <2>4. cmd'.verb = cmd.verb /\ plan' = plan
      BY <1>2, <1>4 DEF SameCommand
  <2>5. cmd'.verb \in {"down", "stop"} /\ cmd'.step \in {"query", "decide", "down"} =>
          \A j \in DOMAIN plan' : cmd'.pos < j => Passed(plan[j])'
      BY <1>1, <1>4, <2>1, <2>2, <2>4 DEF Passed, Excused, EntriesOf
  <2>6. cmd'.verb = "down" /\ cmd'.step = "done" => \A j \in DOMAIN plan' : Passed(plan[j])'
      BY <1>1, <1>4, <2>1, <2>3, <2>4 DEF Passed, Excused, EntriesOf
  <2> QED BY <1>4, <2>5, <2>6 DEF TornSoFar, At, Done
<1> QED BY <1>2, <1>4, <1>5, <1>6, <1>7, BackwardKeeps DEF At

\* The child that `restart` took down comes up again.
LEMMA RestartedKeeps ==
    ASSUME PlanInv, cmd.step = "down", cmd.verb = "restart", NEW err \in BOOLEAN, ChildDown(err),
           UNCHANGED <<quiet, running, probe>>, seen' \in SeenState
    PROVE  PlanInv'
<1>1. UNCHANGED <<wavesVars, plan, deaths, ctxDone>>
    BY DEF quiet
<1>2. CASE err
  <2>1. FailAt(ThisOne, succeeded) /\ running' \subseteq Services
        /\ probe' \in [answer : {"none", "ready", "unready"}, expired : BOOLEAN]
      BY <1>2 DEF ChildDown, PlanInv, PlanTyped
  <2> QED BY <1>1, <2>1, RestartFails
<1>3. CASE ~err
  <2>1. cmd' = UpAt(cmd, cmd.pos) /\ UNCHANGED <<row, outcome, succeeded>>
      BY <1>3 DEF ChildDown
  <2>2. /\ cmd \in CmdState /\ ~cmd.undo /\ cmd.pos \in 1..Len(plan) /\ cmd.pos \in Nat /\ Untaken
        /\ NumEntries[plan[cmd.pos]] \in Nat \ {0}
      BY ChildInHand DEF PlanInv, PlanTyped, VerbFits, At, RowsTrue, CmdState
  <2>3. /\ SameCommand(cmd, cmd') /\ ~cmd'.undo /\ cmd'.step = "up" /\ cmd'.pos = cmd.pos /\ cmd'.entry = 1
      BY <2>1, <2>2, UpAtSets
  <2>4. PlanTyped' /\ Untaken'
      BY <1>1, <2>1, <2>2, <2>3 DEF PlanInv, PlanTyped, SameCommand, Untaken
  <2> QED BY <1>1, <2>1, <2>2, <2>3, <2>4, RestartKeeps DEF At
<1> QED BY <1>2, <1>3

LEMMA DownFailsWholeKeeps == PlanInv /\ DownFailsWhole => PlanInv'
<1> SUFFICES ASSUME PlanInv, DownFailsWhole PROVE PlanInv'
    OBVIOUS
<1>1. /\ seen \in SeenState /\ cmd.step = "down" /\ ThisOne \in Children
      /\ seen' = [seen EXCEPT !.stuck = @ \cup EntriesOf(ThisOne)]
      /\ cmd.verb \in {"up", "restart", "down", "stop"}
    BY ChildInHand DEF PlanInv, PlanTyped, VerbFits, At, DownFailsWhole
<1>2. /\ seen'.touched = seen.touched /\ seen'.accepted = seen.accepted
      /\ seen'.primary = seen.primary /\ seen'.unread = seen.unread /\ seen'.sourceless = seen.sourceless
      /\ seen'.stuck = seen.stuck \cup EntriesOf(ThisOne)
    BY <1>1 DEF SeenState
<1>3. seen' \in SeenState
    BY <1>1, <1>2, EntriesAreServices DEF SeenState
<1> QED BY <1>1, <1>2, <1>3, UndoChildKeeps, TornChildKeeps, RestartedKeeps DEF DownFailsWhole

LEMMA DownEndsKeeps == PlanInv /\ DownEnds => PlanInv'
<1> SUFFICES ASSUME PlanInv, DownEnds PROVE PlanInv'
    OBVIOUS
<1> DEFINE err == cmd.err \/ StopsOnCancel
<1>1. /\ seen \in SeenState /\ cmd.step = "down" /\ ThisOne \in Children /\ seen' = seen
      /\ cmd.verb \in {"up", "restart", "down", "stop"} /\ cmd.err \in BOOLEAN /\ ctxDone \in BOOLEAN
      /\ running \subseteq Services
    BY ChildInHand DEF PlanInv, PlanTyped, VerbFits, At, DownEnds, CmdState
<1>2. ChildDown(err) /\ err \in BOOLEAN /\ UNCHANGED <<quiet, running, probe>>
    BY <1>1 DEF DownEnds, StopsOnCancel
<1>3. ~StopsOnCancel =>
        \A e \in 1..NumEntries[ThisOne] : <<ThisOne, e>> \in running =>
            <<ThisOne, e>> \in (IF cmd.err THEN Excused ELSE seen.sourceless)
    BY <1>1 DEF PlanInv, DownSoFar, At, DownEnds
<1>4. ~StopsOnCancel =>
        EntriesOf(ThisOne) \cap running \subseteq (IF cmd.err THEN Excused ELSE seen.sourceless)
    BY <1>3 DEF EntriesOf
<1>5. CASE cmd.verb = "up"
    BY <1>1, <1>2, <1>4, <1>5, UndoChildKeeps DEF StopsOnCancel, Excused
<1>6. CASE cmd.verb = "restart"
    BY <1>1, <1>2, <1>6, RestartedKeeps
<1>7. CASE cmd.verb \in {"down", "stop"}
  <2>1. (cmd.verb = "stop" /\ ctxDone) \/ ~StopsOnCancel
      BY <1>7 DEF StopsOnCancel
  <2> QED BY <1>1, <1>2, <1>4, <1>7, <2>1, TornChildKeeps DEF Excused
<1> QED BY <1>1, <1>5, <1>6, <1>7

-----------------------------------------------------------------------------
(* Looking *)

LEMMA QueryingTyped ==
    ASSUME PlanInv, cmd.step \in {"query", "decide"}
    PROVE  /\ cmd \in CmdState /\ seen \in SeenState /\ ~cmd.undo /\ cmd.verb \in {"down", "stop", "status"}
           /\ ThisOne \in Children /\ ThisOne = plan[cmd.pos] /\ cmd.pos \in 1..Len(plan)
           /\ plan \in Seq(Children) /\ Len(plan) \in Nat /\ DOMAIN plan = 1..Len(plan)
           /\ row \in [Children -> RowState] /\ NumEntries[ThisOne] \in Nat \ {0}
           /\ \A c \in Children : row[c] = "rolled_back" => EntriesOf(c) \cap running \subseteq seen.sourceless
           /\ cmd.verb = "status" => Untaken
BY ChildInHand DEF PlanInv, PlanTyped, VerbFits, At, RowsTrue

LEMMA WithdrawKeeps == PlanInv /\ Withdraw => PlanInv'
<1> SUFFICES ASSUME PlanInv, Withdraw PROVE PlanInv'
    OBVIOUS
<1>1. /\ cmd.step \in {"query", "decide"} /\ ctxDone /\ outcome' = "failed" /\ cmd' = Over(cmd)
      /\ UNCHANGED <<wavesVars, plan, deaths, ctxDone, running, probe, succeeded, row, seen>>
    BY DEF Withdraw, quiet
<1>2. SameCommand(cmd, cmd') /\ ~cmd'.undo /\ cmd'.step = "done" /\ cmd.verb # "down"
    BY <1>1, QueryingTyped, OverSets DEF PlanInv, VerbFits
<1>3. PlanTyped'
    BY <1>1, <1>2 DEF PlanInv, PlanTyped, SameCommand
<1>4. TornSoFar'
    BY <1>2 DEF TornSoFar, At, SameCommand, Done
<1>5. cmd.verb = "status" => Untaken'
    BY <1>1, QueryingTyped DEF Untaken
<1> QED BY <1>1, <1>2, <1>3, <1>4, <1>5, QueryingTyped, BackwardKeeps DEF At

LEMMA QueryKeeps == PlanInv /\ Query => PlanInv'
<1> SUFFICES ASSUME PlanInv, cmd.step = "query", NEW unread \in SUBSET EntriesOf(ThisOne), NEW err \in BOOLEAN,
                    seen' = [seen EXCEPT !.unread = @ \cup unread],
                    cmd' = [Go(cmd, "decide") EXCEPT !.err = err,
                                !.up = ~err /\ StatusOf(ThisOne, unread) # {}],
                    UNCHANGED <<quiet, running, probe, succeeded, row, outcome>>
             PROVE  PlanInv'
    BY DEF Query
<1> DEFINE up == ~err /\ StatusOf(ThisOne, unread) # {}
<1>1. UNCHANGED <<wavesVars, plan, deaths, ctxDone, running, probe, succeeded, row, outcome>>
    BY DEF quiet
<1>2. /\ cmd \in CmdState /\ seen \in SeenState /\ ~cmd.undo /\ cmd.verb \in {"down", "stop", "status"}
      /\ ThisOne = plan[cmd.pos] /\ cmd.pos \in 1..Len(plan) /\ ThisOne \in Children
    BY QueryingTyped
<1>3. /\ SameCommand(cmd, cmd') /\ ~cmd'.undo /\ cmd'.step = "decide" /\ cmd'.pos = cmd.pos
      /\ cmd'.err = err /\ cmd'.up = up
  <2>1. up \in BOOLEAN
      OBVIOUS
  <2>2. cmd' = [cmd EXCEPT !.step = "decide", !.err = err, !.up = up]
      BY DEF Go
  <2> HIDE DEF up
  <2> QED BY <1>2, <2>1, <2>2 DEF CmdState, SameCommand, Steps
<1>4. /\ seen' \in SeenState /\ seen'.unread = seen.unread \cup unread
      /\ seen'.stuck = seen.stuck /\ seen'.sourceless = seen.sourceless
    BY <1>2, EntriesAreServices DEF SeenState
<1>5. PlanTyped'
    BY <1>1, <1>3, <1>4 DEF PlanInv, PlanTyped, SameCommand
<1>6. TornSoFar'
  <2>1. ThisOne' = ThisOne
      BY <1>1, <1>2, <1>3 DEF ThisOne
  <2>2. ~err /\ ~up => EntriesOf(ThisOne) \cap running \subseteq unread
      BY DEF StatusOf
  <2>3. \A c \in Children : Passed(c) => Passed(c)'
      BY <1>1, <1>4 DEF Passed, Excused, EntriesOf
  <2>4. \A j \in DOMAIN plan : plan[j] \in Children
      BY DEF PlanInv, PlanTyped
  <2>5. cmd.verb \in {"down", "stop"} => \A j \in DOMAIN plan' : cmd'.pos < j => Passed(plan[j])'
      BY <1>1, <1>3, <2>3, <2>4 DEF PlanInv, TornSoFar, At, Passed, Excused, EntriesOf
  <2>6. ~err /\ ~up => Passed(ThisOne)'
      BY <1>1, <1>4, <2>1, <2>2 DEF Passed, Excused, EntriesOf
  <2> HIDE DEF up
  <2> QED BY <1>3, <2>5, <2>6 DEF TornSoFar, At, SameCommand, Done
<1>7. cmd.verb = "status" => Untaken'
    BY <1>1, QueryingTyped DEF Untaken
<1>8. \A c \in Children : row'[c] = "rolled_back" => EntriesOf(c) \cap running' \subseteq seen'.sourceless
    BY <1>1, <1>4, QueryingTyped
<1> QED BY <1>1, <1>2, <1>3, <1>5, <1>6, <1>7, <1>8, BackwardKeeps DEF At

LEMMA TearDownKeeps == PlanInv /\ TearDown => PlanInv'
<1> SUFFICES ASSUME PlanInv, TearDown PROVE PlanInv'
    OBVIOUS
<1>1. /\ cmd.step = "decide" /\ cmd.verb \in {"down", "stop"}
      /\ cmd' = IF cmd.up \/ cmd.err THEN DownAt(cmd, cmd.pos) ELSE NextQuery
      /\ UNCHANGED <<wavesVars, plan, deaths, ctxDone, running, probe, succeeded, row, outcome, seen>>
    BY DEF TearDown, quiet
<1>2. /\ cmd \in CmdState /\ ~cmd.undo /\ cmd.pos \in 1..Len(plan) /\ ThisOne = plan[cmd.pos] /\ ThisOne \in Children
      /\ Len(plan) \in Nat /\ DOMAIN plan = 1..Len(plan) /\ NumEntries[ThisOne] \in Nat \ {0}
      /\ plan \in Seq(Children)
    BY <1>1, QueryingTyped
<1>3. /\ SameCommand(cmd, cmd') /\ ~cmd'.undo
      /\ \/ /\ cmd.up \/ cmd.err
            /\ cmd'.step = "down" /\ cmd'.pos = cmd.pos /\ cmd'.entry = NumEntries[ThisOne]
         \/ ~cmd.up /\ ~cmd.err /\ cmd'.step = "done" /\ cmd.pos = 1
         \/ ~cmd.up /\ ~cmd.err /\ cmd'.step = "query" /\ cmd'.pos = cmd.pos - 1 /\ cmd'.pos \in 1..Len(plan)
  <2>1. CASE cmd.up \/ cmd.err
      BY <1>1, <1>2, <2>1, DownAtSets
  <2>2. CASE ~(cmd.up \/ cmd.err) /\ cmd.pos = 1
      BY <1>1, <1>2, <2>2, OverSets DEF NextQuery
  <2>3. CASE ~(cmd.up \/ cmd.err) /\ cmd.pos # 1
    <3>1. cmd.pos - 1 \in 1..Len(plan) /\ cmd.pos - 1 \in Nat
        BY <1>2, <2>3
    <3> QED BY <1>1, <1>2, <2>3, <3>1, QueryAtSets DEF NextQuery
  <2> QED BY <2>1, <2>2, <2>3
<1>4. PlanTyped'
    BY <1>1, <1>3 DEF PlanInv, PlanTyped, SameCommand
<1>5. ThisOne' = plan[cmd'.pos] /\ plan' = plan
    BY <1>1, <1>3 DEF ThisOne
<1>6. cmd'.step = "down" => DownSoFar' /\ cmd'.entry \in 0..NumEntries[plan[cmd'.pos]]
    BY <1>2, <1>3, <1>5 DEF DownSoFar, At
<1>7. TornSoFar'
  <2>1. \A c \in Children : Passed(c)' <=> Passed(c)
      BY <1>1 DEF Passed, Excused, EntriesOf
  <2>2. \A j \in 1..Len(plan) : cmd.pos < j => Passed(plan[j])
      BY <1>1, <1>2 DEF PlanInv, TornSoFar, At
  <2>3. ~cmd.up /\ ~cmd.err => Passed(plan[cmd.pos])
      BY <1>1, <1>2 DEF PlanInv, TornSoFar, At
  <2>4. cmd'.step \in {"query", "down"} => \A j \in 1..Len(plan) : cmd'.pos < j => Passed(plan[j])
    <3> SUFFICES ASSUME cmd'.step \in {"query", "down"}, NEW j \in 1..Len(plan), cmd'.pos < j
                 PROVE  Passed(plan[j])
        OBVIOUS
    <3>1. CASE cmd.pos < j
        BY <2>2, <3>1
    <3>2. CASE ~(cmd.pos < j)
      <4>1. j = cmd.pos /\ ~cmd.up /\ ~cmd.err
          BY <1>2, <1>3, <3>2
      <4> QED BY <2>3, <4>1
    <3> QED BY <3>1, <3>2
  <2>5. cmd'.step = "done" => \A j \in 1..Len(plan) : Passed(plan[j])
    <3> SUFFICES ASSUME cmd'.step = "done", NEW j \in 1..Len(plan)
                 PROVE  Passed(plan[j])
        OBVIOUS
    <3>1. CASE cmd.pos < j
        BY <2>2, <3>1
    <3>2. CASE ~(cmd.pos < j)
      <4>1. j = cmd.pos /\ ~cmd.up /\ ~cmd.err
          BY <1>2, <1>3, <3>2
      <4> QED BY <2>3, <4>1
    <3> QED BY <3>1, <3>2
  <2>6. \A j \in 1..Len(plan) : Passed(plan[j]) => Passed(plan[j])'
      BY <1>1, <1>5 DEF Passed, Excused, EntriesOf
  <2>7. cmd'.step # "decide"
      BY <1>3
  <2> QED BY <1>2, <1>3, <1>5, <2>4, <2>5, <2>6, <2>7 DEF TornSoFar, At, Done
<1>8. \A c \in Children : row'[c] = "rolled_back" => EntriesOf(c) \cap running' \subseteq seen'.sourceless
    BY <1>1, QueryingTyped
<1> QED BY <1>1, <1>3, <1>4, <1>6, <1>7, <1>8, <1>2, BackwardKeeps DEF At

LEMMA ReportStatusKeeps == PlanInv /\ ReportStatus => PlanInv'
<1> SUFFICES ASSUME PlanInv, ReportStatus PROVE PlanInv'
    OBVIOUS
<1>1. /\ cmd.step = "decide" /\ cmd.verb = "status"
      /\ row' = [row EXCEPT ![ThisOne] =
                    IF cmd.err THEN "failed" ELSE IF cmd.up THEN "up" ELSE "not_started"]
      /\ cmd' = IF cmd.pos = Len(plan) THEN Over(cmd) ELSE QueryAt(cmd, cmd.pos + 1)
      /\ outcome' \in {outcome, "failed"}
      /\ UNCHANGED <<wavesVars, plan, deaths, ctxDone, running, probe, succeeded, seen>>
    BY DEF ReportStatus, quiet
<1>2. /\ cmd \in CmdState /\ ~cmd.undo /\ cmd.pos \in 1..Len(plan) /\ Len(plan) \in Nat
      /\ row \in [Children -> RowState] /\ ThisOne \in Children /\ Untaken
    BY <1>1, QueryingTyped
<1>3. /\ SameCommand(cmd, cmd') /\ ~cmd'.undo
      /\ cmd'.step = "done" \/ (cmd'.step = "query" /\ cmd'.pos \in 1..Len(plan))
    BY <1>1, <1>2, OverSets, QueryAtSets
<1>4. row' \in [Children -> RowState] /\ Untaken'
    BY <1>1, <1>2 DEF RowState, Untaken
<1>5. PlanTyped'
    BY <1>1, <1>3, <1>4 DEF PlanInv, PlanTyped, SameCommand
<1>6. TornSoFar'
    BY <1>1, <1>3 DEF TornSoFar, SameCommand
<1>7. \A c \in Children : row'[c] = "rolled_back" => EntriesOf(c) \cap running' \subseteq seen'.sourceless
    BY <1>4 DEF Untaken
<1> QED BY <1>1, <1>3, <1>4, <1>5, <1>6, <1>7, BackwardKeeps DEF At

-----------------------------------------------------------------------------
(* The theorems about plans *)

LEMMA PlanInvKept == PlanInv /\ [Next]_vars => PlanInv'
<1> SUFFICES ASSUME PlanInv, [Next]_vars PROVE PlanInv'
    OBVIOUS
<1>1. CASE UNCHANGED vars
  <2>1. /\ UNCHANGED <<wavesVars, plan, cmd, succeeded, row, outcome, seen>>
        /\ running' \subseteq running /\ deaths' \in Nat /\ ctxDone' \in BOOLEAN
        /\ cmd.verb = "down" => ~ctxDone'
        /\ probe' \in [answer : {"none", "ready", "unready"}, expired : BOOLEAN]
      BY <1>1 DEF vars, PlanInv, PlanTyped, VerbFits
  <2> QED BY <2>1, QuietKeeps
<1>2. CASE Work
    BY <1>2, ResolveKeeps, ResolvedKeeps, UpEntryKeeps, UpFailsKeeps, WaitingKeeps, AnswersKeepPlan,
       DownEntryKeeps, DownFailsWholeKeeps, DownEndsKeeps, WithdrawKeeps, QueryKeeps, TearDownKeeps,
       ReportStatusKeeps DEF Work
<1>3. CASE Probe \/ Liveness \/ ExecutorFails \/ (\E s \in Services : Die(s)) \/ Cancel
    BY <1>3, AnswersKeepPlan, WaitingKeeps, DiesKeepsPlan, CancelKeepsPlan
<1> QED BY <1>1, <1>2, <1>3 DEF Next

\* The invariant of a command on a composition plan.
THEOREM PlanInvAlways == Spec => []PlanInv
BY PlanInvInitially, PlanInvKept, PTL DEF Spec

\* Every variable of a command on a plan keeps its type, and while it works it has a
\* child in hand (composition_orchestrator.go 199-360).
THEOREM PlanTypes == Spec => []TypeOK
<1>1. PlanInv => TypeOK
    BY DEF PlanInv, PlanTyped, Placed, At, CmdState, RowState, TypeOK
<1> QED BY <1>1, PlanInvAlways, PTL

\* Below an entry in wave n there is a chain of n dependencies: one through which it
\* came to be in that wave, and so on down.
LEMMA ChainBelow ==
    ASSUME WavesInv, waves = "ok", NEW c \in Children
    PROVE  Chains(c, wave[c]) # {}
<1> DEFINE Bad(n) == \E e \in Children : wave[e] = n /\ Chains(e, n) = {}
<1> DEFINE T == {n \in Nat : Bad(n)}
<1>1. wave \in [Children -> Nat] /\ Known(deps) /\ Tight
    BY DEF WavesInv
<1>2. SUFFICES ASSUME Chains(c, wave[c]) = {} PROVE FALSE
    OBVIOUS
<1>3. wave[c] \in T
    BY <1>1, <1>2
<1>4. PICK n \in T : \A k \in T : n <= k
    BY <1>3, NatHasFirst
<1>5. PICK e \in Children : wave[e] = n /\ Chains(e, n) = {}
    BY <1>4
<1>6. CASE n = 0
  <2> DEFINE s == [i \in 0..0 |-> e]
  <2>1. s \in [0..0 -> Children] /\ s[0] = e /\ (1..0) = {}
      OBVIOUS
  <2>2. s \in Chains(e, 0)
      BY <2>1 DEF Chains
  <2> QED BY <1>5, <1>6, <2>2
<1>7. CASE n # 0
  <2>1. PICK d \in deps[e] : wave[e] = wave[d] + 1
      BY <1>1, <1>5, <1>7 DEF Tight
  <2>2. d \in Children /\ n - 1 \in Nat /\ wave[d] = n - 1 /\ n - 1 < n /\ n \in Nat
      BY <1>1, <1>4, <1>5, <2>1 DEF Known
  <2>3. n - 1 \notin T
      BY <1>4, <2>2
  <2>4. PICK s \in [0..(n - 1) -> Children] :
            s[0] = d /\ \A i \in 1..(n - 1) : s[i] \in deps[s[i - 1]]
      BY <2>2, <2>3 DEF Chains
  <2> DEFINE t == [i \in 0..n |-> IF i = 0 THEN e ELSE s[i - 1]]
  <2>5. \A i \in 1..n : i - 1 \in 0..(n - 1) /\ i \in 0..n /\ i # 0 /\ i - 1 \in 0..n
      BY <2>2
  <2>6. t \in [0..n -> Children] /\ t[0] = e
      BY <2>2, <2>4, <2>5, <1>5
  <2>7. \A i \in 1..n : t[i] \in deps[t[i - 1]]
    <3> SUFFICES ASSUME NEW i \in 1..n PROVE t[i] \in deps[t[i - 1]]
        OBVIOUS
    <3>1. t[i] = s[i - 1]
        BY <2>5
    <3>2. CASE i = 1
      <4>1. t[i - 1] = e /\ t[i] = d
          BY <2>5, <3>1, <3>2, <2>4
      <4> QED BY <4>1, <2>1
    <3>3. CASE i # 1
      <4>1. i - 1 \in 1..(n - 1) /\ i - 1 # 0
          BY <2>2, <3>3
      <4>2. t[i - 1] = s[(i - 1) - 1]
          BY <2>5, <4>1
      <4> QED BY <2>4, <3>1, <4>1, <4>2
    <3> QED BY <3>2, <3>3
  <2>8. t \in Chains(e, n)
      BY <2>6, <2>7 DEF Chains
  <2> QED BY <1>5, <2>8
<1> QED BY <1>6, <1>7

\* Down a chain the waves sink, so it is no longer than the wave it begins in.
LEMMA ChainBounded ==
    ASSUME WavesInv, waves = "ok", NEW c \in Children, NEW n \in Nat, NEW s \in Chains(c, n)
    PROVE  n <= wave[c]
<1> DEFINE T == {i \in 0..n : ~(wave[s[i]] + i <= wave[c])}
<1>1. /\ wave \in [Children -> Nat] /\ s \in [0..n -> Children] /\ s[0] = c
      /\ \A i \in 1..n : s[i] \in deps[s[i - 1]]
    BY DEF WavesInv, Chains
<1>2. \A d, e \in Children : d \in deps[e] => wave[d] < wave[e]
    BY DEF WavesInv, Dependents
<1>3. ASSUME T # {} PROVE FALSE
  <2>0. T \subseteq Nat
      OBVIOUS
  <2> HIDE DEF T
  <2>1. PICK i \in T : \A k \in T : i <= k
      BY <1>3, <2>0, NatHasFirst
  <2> USE DEF T
  <2>2. i # 0
      BY <1>1, <2>1
  <2>3. i \in 1..n /\ i - 1 \in 0..n /\ i \in 0..n /\ ~(i <= i - 1)
      BY <2>1, <2>2
  <2>4. wave[s[i - 1]] + (i - 1) <= wave[c]
      BY <2>1, <2>3
  <2>5. s[i] \in Children /\ s[i - 1] \in Children /\ wave[s[i]] < wave[s[i - 1]]
      BY <1>1, <1>2, <2>3
  <2>6. wave[s[i]] \in Nat /\ wave[s[i - 1]] \in Nat /\ wave[c] \in Nat
      BY <1>1, <2>5
  <2>7. wave[s[i]] + i <= wave[c]
      BY <2>3, <2>4, <2>5, <2>6
  <2> QED BY <2>1, <2>7
<1>4. n \in 0..n /\ n \notin T
    BY <1>3
<1>5. s[n] \in Children /\ wave[s[n]] \in Nat /\ wave[c] \in Nat
    BY <1>1, <1>4
<1>6. wave[s[n]] + n <= wave[c]
    BY <1>4
<1> QED BY <1>5, <1>6

\* For every graph of dependencies a plan is refused exactly when there is a cycle, and
\* the wave of an entry is the length of the longest chain below it (CalculateWaves).
THEOREM WavesRightHolds == Spec => []WavesRight
<1>1. ASSUME WavesInv, waves = "cycle" PROVE Cyclic
  <2> DEFINE S == Children \ processed
  <2>1. /\ S # {} /\ Known(deps)
        /\ {c \in Children \ processed : deps[c] \subseteq processed} = {}
      BY <1>1 DEF WavesInv
  <2>2. \A c \in S : deps[c] \cap S # {}
      BY <2>1 DEF Known
  <2>3. S \in SUBSET Children
      OBVIOUS
  <2> QED BY <2>1, <2>2, <2>3 DEF Cyclic
<1>2. ASSUME WavesInv, waves = "ok" PROVE ~Cyclic
  <2> SUFFICES ASSUME NEW S \in SUBSET Children, S # {}, \A c \in S : deps[c] \cap S # {}
               PROVE  FALSE
      BY DEF Cyclic
  <2> DEFINE T == {wave[c] : c \in S}
  <2>1. wave \in [Children -> Nat] /\ \A d, e \in Children : d \in deps[e] => wave[d] < wave[e]
      BY <1>2 DEF WavesInv, Dependents
  <2>2. T \subseteq Nat /\ T # {}
      BY <2>1
  <2>3. PICK n \in T : \A k \in T : n <= k
      BY <2>2, NatHasFirst
  <2>4. PICK c \in S : wave[c] = n
      BY <2>3
  <2>5. PICK d \in deps[c] : d \in S
      BY <2>4
  <2>6. wave[d] < n /\ wave[d] \in T
      BY <2>1, <2>4, <2>5
  <2>7. n <= wave[d] /\ n \in Nat /\ wave[d] \in Nat
      BY <2>2, <2>3, <2>6
  <2> QED BY <2>6, <2>7
<1>3. ASSUME WavesInv, waves = "ok", NEW c \in Children
      PROVE  Chains(c, wave[c]) # {} /\ Chains(c, wave[c] + 1) = {}
  <2>1. wave[c] \in Nat /\ wave[c] + 1 \in Nat /\ ~(wave[c] + 1 <= wave[c])
      BY <1>3 DEF WavesInv
  <2>2. Chains(c, wave[c] + 1) = {}
      BY <1>3, <2>1, ChainBounded
  <2> QED BY <1>3, <2>2, ChainBelow
<1>4. PlanInv => WavesRight
    BY <1>1, <1>2, <1>3 DEF PlanInv, WavesRight
<1> QED BY <1>4, PlanInvAlways, PTL

\* What a report says of a child is true of its services (composition_orchestrator.go
\* 231, 342), for any plan, whatever fails, dies or is canceled.
THEOREM ReportTruthfulHolds == Spec => []ReportTruthful
<1>1. PlanInv => ReportTruthful
    BY DEF PlanInv, RowsTrue, ReportTruthful, InHand, At
<1> QED BY <1>1, PlanInvAlways, PTL

\* A failed `up` accounts for everything that it started, and `down` for everything that
\* still runs (composition_orchestrator.go 231, 297).
THEOREM LeftoversAccountedHolds == Spec => []LeftoversAccounted
<1>1. ASSUME PlanInv, Done, cmd.verb = "up", outcome = "failed", ~cmd.noRollback, NEW c \in Children
      PROVE  \/ row[c] = "failed" /\ seen.primary = "up"
             \/ EntriesOf(c) \cap seen.touched \cap running \subseteq seen.stuck \cup seen.sourceless
  <2>1. cmd.step = "done"
      BY <1>1 DEF Done
  <2>2. CASE EntriesOf(c) \cap seen.touched = {}
      BY <2>2
  <2>3. CASE EntriesOf(c) \cap seen.touched # {}
    <3>1. (\E j \in DOMAIN succeeded : succeeded[j] = c) \/ (row[c] = "failed" /\ seen.primary = "up")
        BY <1>1, <2>1, <2>3 DEF PlanInv, TouchedListed, At
    <3>2. ASSUME NEW j \in DOMAIN succeeded, succeeded[j] = c
          PROVE  EntriesOf(c) \cap running \subseteq Excused
      <4>1. cmd.undo
          BY <1>1, <3>2 DEF PlanInv, UndoneSoFar
      <4> QED BY <1>1, <2>1, <3>2, <4>1 DEF PlanInv, UndoneSoFar, At
    <3> QED BY <3>1, <3>2 DEF Excused
  <2> QED BY <2>2, <2>3
<1>2. ASSUME PlanInv, Done, cmd.verb = "down"
      PROVE  running \subseteq seen.stuck \cup seen.sourceless \cup seen.unread
  <2> SUFFICES ASSUME NEW s \in running PROVE s \in seen.stuck \cup seen.sourceless \cup seen.unread
      OBVIOUS
  <2>1. PICK c \in Children : s \in EntriesOf(c)
      BY <1>2, ServicesAreEntries DEF PlanInv, PlanTyped
  <2>2. PICK j \in 1..Len(plan) : plan[j] = c
      BY <1>2, PlanComplete DEF PlanInv, Done
  <2>3. DOMAIN plan = 1..Len(plan)
      BY <1>2, PlanComplete DEF PlanInv, Done
  <2>4. Passed(plan[j])
      BY <1>2, <2>3 DEF PlanInv, TornSoFar
  <2> QED BY <2>1, <2>2, <2>4 DEF Passed, Excused
<1>3. PlanInv => LeftoversAccounted
    BY <1>1, <1>2 DEF LeftoversAccounted
<1> QED BY <1>3, PlanInvAlways, PTL

\* `down` and `stop` take a child down only after everything that depends on it
\* (composition_orchestrator.go 302), for any dependencies without a cycle.
THEOREM TeardownOrderHolds == Spec => TeardownOrder
<1> DEFINE Step == cmd.step = "down" /\ cmd.verb \in {"down", "stop"} /\ cmd' # cmd =>
        \A c \in Children : EntriesOf(c) \cap (running \ running') # {} =>
            \A d \in Dependents(c) :
                EntriesOf(d) \cap running \subseteq seen.stuck \cup seen.sourceless \cup seen.unread
<1>1. ASSUME PlanInv, [Next]_vars, cmd.step = "down", cmd.verb \in {"down", "stop"}, cmd' # cmd,
             NEW c \in Children, EntriesOf(c) \cap (running \ running') # {}, NEW d \in Dependents(c)
      PROVE  EntriesOf(d) \cap running \subseteq seen.stuck \cup seen.sourceless \cup seen.unread
  <2>1. running' \in {running, running \ {Here}}
    <3>1. Next
        BY <1>1 DEF vars
    <3> QED BY <1>1, <3>1 DEF Next, Work, Resolve, Resolved, UpEntry, UpFails, NoChecks, Expire, TakeAnswer,
            WaitOver, DownEntry, DownFailsWhole, DownEnds, Withdraw, Query, TearDown, ReportStatus,
            Probe, Liveness, ExecutorFails, Die, Cancel
  <2>2. Here \in EntriesOf(c)
      BY <1>1, <2>1
  <2>3. /\ ThisOne \in Children /\ ~cmd.undo /\ cmd.pos \in 1..Len(plan) /\ ThisOne = plan[cmd.pos] /\ waves = "ok"
      BY <1>1, ChildInHand DEF PlanInv, VerbFits, At
  <2>4. c = plan[cmd.pos]
      BY <2>2, <2>3, EntryOf DEF Here
  <2>5. d \in Children /\ c \in deps[d]
      BY DEF Dependents
  <2>6. PICK j \in 1..Len(plan) : plan[j] = d
      BY <1>1, <2>3, <2>5, PlanComplete DEF PlanInv
  <2>7. cmd.pos < j
      BY <1>1, <2>3, <2>4, <2>5, <2>6, DependentsAfter DEF PlanInv
  <2>8. DOMAIN plan = 1..Len(plan)
      BY <1>1, <2>3, PlanComplete DEF PlanInv
  <2>9. Passed(plan[j])
      BY <1>1, <2>7, <2>8 DEF PlanInv, TornSoFar, At
  <2> QED BY <2>6, <2>9 DEF Passed, Excused
<1>2. PlanInv /\ [Next]_vars => [Step]_vars
    BY <1>1
<1> QED BY <1>2, PlanInvAlways, PTL DEF Spec, TeardownOrder

-----------------------------------------------------------------------------
(* Up implements the saga *)

\* The saga sees of a command what came up, what was accepted, and the rows.
LEMMA SagaOf ==
    ASSUME PlanInv, cmd.verb = "up"
    PROVE  /\ CameUp = {plan[i] : i \in 1..Len(succeeded)} /\ CameUp \subseteq Children
           /\ \A i \in 1..Len(succeeded) : succeeded[i] = plan[i] /\ i \in 1..Len(plan)
           /\ Len(succeeded) \in Nat /\ Len(plan) \in Nat /\ Len(succeeded) <= Len(plan)
           /\ ~cmd.undo => SagaState = [c \in Children |-> IF c \notin CameUp THEN "idle"
                                            ELSE IF c \in seen.accepted THEN "ready" ELSE "started"]
<1>1. /\ plan \in Seq(Children) /\ succeeded \in Seq(Children)
      /\ Len(succeeded) \in Nat /\ Len(plan) \in Nat /\ Len(succeeded) <= Len(plan)
      /\ \A i \in 1..Len(succeeded) : succeeded[i] = plan[i] /\ i \in 1..Len(plan)
    BY DEF PlanInv, PlanTyped, UpSoFar
<1>2. CameUp = {plan[i] : i \in 1..Len(succeeded)} /\ CameUp \subseteq Children
    BY <1>1 DEF CameUp
<1>3. ~cmd.undo => Untaken
    BY DEF PlanInv, RowsTrue
<1> QED BY <1>1, <1>2, <1>3 DEF SagaState, Untaken

Asked(c, r) == r.verb = c.verb /\ r.noWait = c.noWait /\ r.noRollback = c.noRollback

\* Wherever a command goes, it is the one that was asked for.
LEMMA GoesAsAsked ==
    ASSUME NEW c \in CmdState, NEW i
    PROVE  /\ Asked(c, UpAt(c, i)) /\ Asked(c, ReadyAt(c, i)) /\ Asked(c, QueryAt(c, i))
           /\ Asked(c, DownAt(c, i)) /\ Asked(c, Over(c))
BY DEF CmdState, Asked, UpAt, ReadyAt, QueryAt, DownAt, Over, Go

LEMMA RollsBackAsAsked ==
    ASSUME NEW c \in Children, NEW list, cmd \in CmdState, FailAt(c, list)
    PROVE  Asked(cmd, cmd')
<1> DEFINE k == Len(list)
           n == NumEntries[list[k]]
<1>1. \/ cmd' = Over(cmd)
      \/ cmd' = [cmd EXCEPT !.step = "down", !.undo = TRUE, !.pos = k, !.err = FALSE, !.entry = n]
    BY DEF FailAt, RollbackFrom, Go, CmdState
<1> HIDE DEF k, n
<1> QED BY <1>1, GoesAsAsked DEF CmdState, Asked

\* A command keeps its verb, its flags and the dependencies that it was given.
LEMMA CommandStays == PlanInv /\ [Next]_vars => UNCHANGED deps /\ SameCommand(cmd, cmd')
<1> SUFFICES ASSUME PlanInv, [Next]_vars PROVE UNCHANGED deps /\ SameCommand(cmd, cmd')
    OBVIOUS
<1>1. UNCHANGED deps
    BY DEF vars, Next, Work, Resolve, WavesNext, Process, Conclude, Resolved, UpEntry, UpFails, NoChecks,
       EntryReady, NotReady, Expire, TakeAnswer, WaitOver, DownEntry, DownFailsWhole, DownEnds, Withdraw,
       Query, TearDown, ReportStatus, Probe, Liveness, ExecutorFails, Die, Cancel, quiet, wavesVars
<1>2. cmd' \in CmdState /\ cmd \in CmdState
    BY PlanInvKept DEF PlanInv, PlanTyped
<1>3. cmd'.verb = cmd.verb /\ cmd'.noWait = cmd.noWait /\ cmd'.noRollback = cmd.noRollback
  <2> SUFFICES Asked(cmd, cmd')
      BY DEF Asked
  <2>1. CASE UNCHANGED cmd
      BY <2>1 DEF Asked
  <2>2. CASE Resolved
    <3>1. CASE cmd.verb = "restart" /\ waves = "ok"
      <4>1. PICK p \in [1..Cardinality(Children) -> Children] :
               cmd' = [Go(cmd, "down") EXCEPT !.pos = 1, !.entry = NumEntries[p[1]]]
          BY <2>2, <3>1 DEF Resolved
      <4> DEFINE n == NumEntries[p[1]]
      <4>2. cmd' = [cmd EXCEPT !.step = "down", !.pos = 1, !.entry = n]
          BY <1>2, <4>1 DEF Go, CmdState
      <4> HIDE DEF n
      <4> QED BY <1>2, <4>2 DEF CmdState, Asked
    <3> QED BY <1>2, <2>2, <3>1, GoesAsAsked DEF Resolved
  <2>3. CASE cmd' = [cmd EXCEPT !.entry = @ + 1]
      BY <1>2, <2>3 DEF CmdState, Asked
  <2>4. Asked(cmd, NextRestart)
      BY <1>2, GoesAsAsked DEF NextRestart
  <2>5. CASE UpEntry
    <3>1. Asked(cmd, AfterUp(cmd.pos))
        BY <1>2, GoesAsAsked DEF AfterUp, NextWave
    <3>2. Asked(cmd, ReadyAt(cmd, cmd.pos))
        BY <1>2, GoesAsAsked
    <3> QED BY <2>3, <2>4, <2>5, <3>1, <3>2 DEF UpEntry
  <2>6. CASE EntryReady
    <3>1. Asked(cmd, AfterReady(cmd.pos))
        BY <1>2, GoesAsAsked DEF AfterReady, NextWave
    <3> QED BY <2>3, <2>4, <2>6, <3>1 DEF EntryReady
  <2>7. CASE ~At({"resolve", "done"}) /\ FailAt(ThisOne, succeeded)
      BY <1>2, <2>7, ChildInHand, RollsBackAsAsked
  <2>8. CASE DownEntry
      BY <1>2, <2>8 DEF DownEntry, CmdState, Asked
  <2>9. ASSUME NEW err \in BOOLEAN, cmd.step = "down", ChildDown(err)
        PROVE  Asked(cmd, cmd')
      BY <1>2, <2>7, <2>9, GoesAsAsked DEF ChildDown, At
  <2>10. CASE DownFailsWhole \/ DownEnds
    <3>1. (cmd.err \/ StopsOnCancel) \in BOOLEAN
        BY <1>2 DEF CmdState
    <3> QED BY <2>9, <2>10, <3>1 DEF DownFailsWhole, DownEnds
  <2>11. CASE Query
    <3>1. PICK unread \in SUBSET EntriesOf(ThisOne), err \in BOOLEAN :
             cmd' = [Go(cmd, "decide") EXCEPT !.err = err, !.up = ~err /\ StatusOf(ThisOne, unread) # {}]
        BY <2>11 DEF Query
    <3> DEFINE up == ~err /\ StatusOf(ThisOne, unread) # {}
    <3>2. cmd' = [cmd EXCEPT !.step = "decide", !.err = err, !.up = up]
        BY <1>2, <3>1 DEF Go, CmdState
    <3> HIDE DEF up
    <3> QED BY <1>2, <3>2 DEF CmdState, Asked
  <2>12. CASE Withdraw \/ TearDown \/ ReportStatus
      BY <1>2, <2>12, GoesAsAsked DEF Withdraw, TearDown, ReportStatus, NextQuery
  <2>13. CASE UpFails
      BY <2>7, <2>13 DEF UpFails, At
  <2>14. CASE NoChecks \/ TakeAnswer \/ WaitOver \/ Liveness \/ ExecutorFails
      BY <2>6, <2>7, <2>14 DEF NoChecks, TakeAnswer, WaitOver, Liveness, ExecutorFails, NotReady, At
  <2> QED BY <2>1, <2>2, <2>5, <2>8, <2>10, <2>11, <2>12, <2>13, <2>14
          DEF vars, Next, Work, Resolve, Probe, Expire, Die, Cancel
<1> QED BY <1>1, <1>2, <1>3 DEF SameCommand

\* Nothing of what the saga sees changes.
LEMMA SagaStutters ==
    ASSUME cmd.verb = "up", UNCHANGED <<deps, succeeded>>, SameCommand(cmd, cmd'),
           seen'.accepted = seen.accepted, SagaPhase' = SagaPhase,
           \A c \in Children : /\ (row'[c] = "rolled_back") <=> (row[c] = "rolled_back")
                               /\ (row'[c] = "rollback_failed") <=> (row[c] = "rollback_failed")
    PROVE  UNCHANGED Saga!vars
<1>1. CameUp' = CameUp
    BY DEF CameUp
<1>2. SagaState' = SagaState
    BY <1>1 DEF SagaState, SameCommand
<1> QED BY <1>2 DEF Saga!vars, SameCommand

\* The whole plan came up when the last position did.
LEMMA WholePlan ==
    ASSUME PlanInv, cmd.step # "resolve", waves = "ok", NEW k \in 1..Len(plan)
    PROVE  {plan[i] : i \in 1..k} = Children <=> k = Len(plan)
<1>1. /\ Len(plan) \in Nat \ {0}
      /\ \A i \in 1..Len(plan) : plan[i] \in Children
      /\ \A i, j \in 1..Len(plan) : plan[i] = plan[j] => i = j
      /\ \A d \in Children : \E i \in 1..Len(plan) : plan[i] = d
    BY PlanComplete DEF PlanInv
<1>2. CASE k = Len(plan)
    BY <1>1, <1>2
<1>3. CASE k # Len(plan)
  <2>1. Len(plan) \in 1..Len(plan) /\ \A i \in 1..k : i \in 1..Len(plan) /\ i # Len(plan)
      BY <1>1, <1>3
  <2>2. plan[Len(plan)] \in Children /\ plan[Len(plan)] \notin {plan[i] : i \in 1..k}
      BY <1>1, <2>1
  <2> QED BY <1>3, <2>2
<1> QED BY <1>2, <1>3

\* The last entry of a child is up: the child is started.
LEMMA SagaStarts ==
    ASSUME PlanInv, cmd.step = "up", cmd.verb = "up", UNCHANGED wavesVars,
           row' = [row EXCEPT ![ThisOne] = "up"], succeeded' = Append(succeeded, ThisOne),
           cmd' = AfterUp(cmd.pos), seen'.accepted = seen.accepted
    PROVE  Saga!Start(ThisOne)
<1> DEFINE c == ThisOne
           f == [SagaState EXCEPT ![c] = "started"]
<1>1. /\ cmd \in CmdState /\ ~cmd.undo /\ waves = "ok" /\ c \in Children
      /\ cmd.pos \in 1..Len(plan) /\ c = plan[cmd.pos] /\ Len(succeeded) + 1 = cmd.pos
      /\ row \in [Children -> RowState] /\ succeeded \in Seq(Children)
    BY ChildInHand DEF PlanInv, PlanTyped, VerbFits, UpSoFar, At
<1>2. /\ CameUp = {plan[i] : i \in 1..Len(succeeded)} /\ CameUp \subseteq Children
      /\ Len(succeeded) \in Nat /\ Len(plan) \in Nat
      /\ SagaState = [d \in Children |-> IF d \notin CameUp THEN "idle"
                         ELSE IF d \in seen.accepted THEN "ready" ELSE "started"]
    BY <1>1, SagaOf
<1>3. /\ \A i, j \in 1..Len(plan) : plan[i] = plan[j] => i = j
      /\ \A d \in Children : \E i \in 1..Len(plan) : plan[i] = d
    BY <1>1, PlanComplete DEF PlanInv
<1>4. c \notin CameUp /\ SagaState[c] = "idle"
    BY <1>1, <1>2, <1>3
<1>5. c \notin seen.accepted
  <2>1. seen.accepted \subseteq CameUp
      BY <1>1, <1>2 DEF PlanInv, ReadySoFar, At
  <2> QED BY <1>4, <2>1
<1>6. /\ SameCommand(cmd, cmd') /\ ~cmd'.undo
      /\ \/ cmd'.step \in {"up", "ready"} /\ (cmd.noWait => cmd.pos < Len(plan))
         \/ cmd'.step = "done" /\ cmd.noWait /\ cmd.pos = Len(plan)
    BY AfterUpSets
<1>7. SagaState' = f
  <2>1. CameUp' = CameUp \cup {c}
    <3>1. /\ DOMAIN succeeded = 1..Len(succeeded) /\ DOMAIN succeeded' = 1..(Len(succeeded) + 1)
          /\ \A i \in DOMAIN succeeded : succeeded'[i] = succeeded[i]
          /\ succeeded'[Len(succeeded) + 1] = c
        BY <1>1
    <3> QED BY <1>2, <3>1 DEF CameUp
  <2>2. \A d \in Children : row'[d] \notin {"rolled_back", "rollback_failed"}
      BY <1>1 DEF PlanInv, RowsTrue, Untaken
  <2> QED BY <1>1, <1>2, <1>4, <1>5, <1>6, <2>1, <2>2 DEF SagaState, SameCommand
<1>8. deps[c] \subseteq Saga!Settled(SagaState)
  <2> SUFFICES ASSUME NEW d \in deps[c] PROVE d \in Saga!Settled(SagaState)
      OBVIOUS
  <2>1. d \in Children
      BY <1>1 DEF PlanInv, WavesInv, Known
  <2>2. PICK j \in 1..Len(plan) : plan[j] = d
      BY <1>3, <2>1
  <2>3. j < cmd.pos /\ wave[plan[j]] < wave[plan[cmd.pos]]
      BY <1>1, <2>2, DependentsAfter DEF PlanInv
  <2>4. wave[plan[j]] # wave[plan[cmd.pos]]
    <3>1. wave[plan[j]] \in Nat /\ wave[plan[cmd.pos]] \in Nat
        BY <1>1, <2>1, <2>2 DEF PlanInv, WavesInv
    <3> QED BY <2>3, <3>1
  <2>5. j \in 1..Len(succeeded) /\ d \in CameUp
      BY <1>1, <1>2, <2>2, <2>3
  <2>6. ~cmd.noWait => d \in seen.accepted
      BY <1>1, <2>2, <2>4, <2>5 DEF PlanInv, ReadySoFar, At, SameWave
  <2> QED BY <1>2, <2>1, <2>5, <2>6 DEF Saga!Settled
<1>9. SagaPhase = "forward"
    BY <1>1 DEF SagaPhase, Done
<1>10. SagaPhase' = IF Saga!Settled(f) = Children THEN "over" ELSE "forward"
  <2>1. SagaPhase' = IF cmd'.step = "done" THEN "over" ELSE "forward"
      BY <1>1, <1>6 DEF SagaPhase, Done, wavesVars, SameCommand
  <2>2. CASE ~cmd.noWait
    <3>1. c \notin Saga!Settled(f)
        BY <1>1, <1>2, <2>2 DEF Saga!Settled
    <3> QED BY <1>1, <1>6, <2>1, <2>2, <3>1
  <2>3. CASE cmd.noWait
    <3>1. Saga!Settled(f) = CameUp \cup {c}
        BY <1>1, <1>2, <2>3 DEF Saga!Settled
    <3>2. CameUp \cup {c} = {plan[i] : i \in 1..cmd.pos}
        BY <1>1, <1>2
    <3>3. {plan[i] : i \in 1..cmd.pos} = Children <=> cmd.pos = Len(plan)
        BY <1>1, WholePlan
    <3> QED BY <1>1, <1>6, <2>1, <2>3, <3>1, <3>2, <3>3
  <2> QED BY <2>2, <2>3
<1> HIDE DEF f
<1> QED BY <1>4, <1>6, <1>7, <1>8, <1>9, <1>10
        DEF Saga!Start, Saga!Forward, Saga!Fixed, wavesVars, SameCommand, f

\* The last entry of a child is ready: the child is.
LEMMA SagaReadies ==
    ASSUME PlanInv, cmd.step = "ready", cmd.verb = "up", UNCHANGED <<wavesVars, row, succeeded>>,
           cmd' = AfterReady(cmd.pos), seen'.accepted = seen.accepted \cup {ThisOne}
    PROVE  Saga!Ready(ThisOne)
<1> DEFINE c == ThisOne
           f == [SagaState EXCEPT ![c] = "ready"]
<1>1. /\ ~cmd.undo /\ waves = "ok" /\ c \in Children /\ ~cmd.noWait
      /\ cmd.pos \in 1..Len(plan) /\ c = plan[cmd.pos] /\ cmd.pos \in 1..Len(succeeded)
      /\ seen.accepted = {plan[j] : j \in {k \in 1..Len(succeeded) : k < cmd.pos}}
    BY ChildInHand, SagaOf DEF PlanInv, VerbFits, UpSoFar, ReadySoFar, At
<1>2. /\ CameUp = {plan[i] : i \in 1..Len(succeeded)} /\ CameUp \subseteq Children
      /\ \A i \in 1..Len(succeeded) : i \in 1..Len(plan)
      /\ Len(succeeded) \in Nat /\ Len(plan) \in Nat
      /\ SagaState = [d \in Children |-> IF d \notin CameUp THEN "idle"
                         ELSE IF d \in seen.accepted THEN "ready" ELSE "started"]
    BY <1>1, SagaOf
<1>3. \A i, j \in 1..Len(plan) : plan[i] = plan[j] => i = j
    BY <1>1, PlanComplete DEF PlanInv
<1>4. c \notin seen.accepted
    BY <1>1, <1>2, <1>3
<1>5. c \in CameUp /\ SagaState[c] = "started"
    BY <1>1, <1>2, <1>4
<1>6. /\ SameCommand(cmd, cmd') /\ ~cmd'.undo
      /\ cmd'.step = "done" <=> cmd.pos = Len(plan)
    BY <1>1, <1>2, AfterReadySets
<1>7. SagaState' = f
  <2>1. CameUp' = CameUp
      BY DEF CameUp
  <2>2. \A d \in Children : row'[d] \notin {"rolled_back", "rollback_failed"}
      BY <1>1 DEF PlanInv, RowsTrue, Untaken
  <2> QED BY <1>1, <1>2, <1>5, <1>6, <2>1, <2>2 DEF SagaState, SameCommand
<1>8. SagaPhase = "forward"
    BY <1>1 DEF SagaPhase, Done
<1>9. SagaPhase' = IF Saga!Settled(f) = Children THEN "over" ELSE "forward"
  <2>1. SagaPhase' = IF cmd.pos = Len(plan) THEN "over" ELSE "forward"
      BY <1>1, <1>6 DEF SagaPhase, Done, wavesVars, SameCommand
  <2>2. Saga!Settled(f) = {plan[i] : i \in 1..cmd.pos}
    <3>1. Saga!Settled(f) = {d \in Children : f[d] = "ready"}
        BY <1>1 DEF Saga!Settled
    <3>2. {d \in Children : f[d] = "ready"} = {d \in CameUp : d \in seen.accepted} \cup {c}
        BY <1>2, <1>5
    <3>3. {d \in CameUp : d \in seen.accepted} \cup {c} = {plan[i] : i \in 1..cmd.pos}
        BY <1>1, <1>2
    <3> QED BY <3>1, <3>2, <3>3
  <2> QED BY <1>1, <2>1, <2>2, WholePlan
<1> HIDE DEF f
<1> QED BY <1>1, <1>5, <1>6, <1>7, <1>8, <1>9
        DEF Saga!Ready, Saga!Forward, Saga!Fixed, wavesVars, SameCommand, f

\* A child fails, on the way up or while it is waited for.
LEMMA SagaFails ==
    ASSUME PlanInv, cmd.step \in {"up", "ready"}, cmd.verb = "up", UNCHANGED wavesVars,
           FailAt(ThisOne, succeeded), seen'.accepted = seen.accepted
    PROVE  Saga!Fail
<1>1. /\ ~cmd.undo /\ waves = "ok" /\ ThisOne \in Children /\ row \in [Children -> RowState] /\ Untaken
      /\ row' = [row EXCEPT ![ThisOne] = "failed"] /\ succeeded' = succeeded
      /\ cmd' = RollbackFrom(succeeded) /\ succeeded \in Seq(Children)
    BY ChildInHand DEF PlanInv, PlanTyped, VerbFits, RowsTrue, At, FailAt
<1>2. /\ SameCommand(cmd, cmd')
      /\ IF cmd.noRollback \/ succeeded = <<>> THEN cmd'.step = "done" ELSE cmd'.step = "down" /\ cmd'.undo
  <2>1. CASE cmd.noRollback \/ succeeded = <<>>
    <3>1. cmd' = Over(cmd) /\ cmd \in CmdState
        BY <1>1, <2>1 DEF RollbackFrom, PlanInv, PlanTyped
    <3> QED BY <2>1, <3>1, OverSets
  <2>2. CASE ~(cmd.noRollback \/ succeeded = <<>>)
      BY <1>1, <2>2, RollbackFromSets
  <2> QED BY <2>1, <2>2
<1>3. SagaState' = SagaState
  <2>1. CameUp' = CameUp
      BY <1>1 DEF CameUp
  <2>2. \A d \in Children : row'[d] \notin {"rolled_back", "rollback_failed"}
      BY <1>1 DEF Untaken
  <2> QED BY <1>1, <1>2, <2>1, <2>2 DEF SagaState, SameCommand, Untaken
<1>4. Saga!Standing(SagaState) = CameUp
    BY <1>1, SagaOf DEF Saga!Standing
<1>5. CameUp = {} <=> succeeded = <<>>
  <2>1. DOMAIN succeeded = 1..Len(succeeded) /\ Len(succeeded) \in Nat
      BY <1>1
  <2>2. CASE succeeded = <<>>
      BY <2>2 DEF CameUp
  <2>3. CASE succeeded # <<>>
    <3>1. 1 \in DOMAIN succeeded
        BY <1>1, <2>1, <2>3
    <3> QED BY <2>3, <3>1 DEF CameUp
  <2> QED BY <2>2, <2>3
<1>6. SagaPhase = "forward" /\ SagaPhase' = IF cmd.noRollback \/ CameUp = {} THEN "over" ELSE "undo"
    BY <1>1, <1>2, <1>5 DEF SagaPhase, Done, wavesVars, SameCommand
<1> QED BY <1>2, <1>3, <1>4, <1>6 DEF Saga!Fail, Saga!Fixed, wavesVars, SameCommand

\* A child was taken down, or resisted: those above it went before it.
LEMMA SagaUndoes ==
    ASSUME PlanInv, cmd.step = "down", cmd.verb = "up", UNCHANGED wavesVars,
           NEW err \in BOOLEAN, ChildDown(err), seen'.accepted = seen.accepted
    PROVE  Saga!Undo(ThisOne)
<1> DEFINE c == ThisOne
           gone == IF err THEN "rollback_failed" ELSE "rolled_back"
           how == IF err THEN "stuck" ELSE "undone"
           f == [SagaState EXCEPT ![c] = how]
<1>1. /\ cmd \in CmdState /\ cmd.undo /\ waves = "ok" /\ c \in Children /\ row \in [Children -> RowState]
      /\ cmd.pos \in 1..Len(succeeded) /\ c = succeeded[cmd.pos]
      /\ succeeded' = succeeded /\ row' = [row EXCEPT ![c] = gone]
      /\ cmd' = IF cmd.pos = 1 THEN Over(cmd) ELSE DownAt(cmd, cmd.pos - 1)
    BY ChildInHand DEF PlanInv, PlanTyped, VerbFits, At, ChildDown
<1>2. /\ CameUp = {plan[i] : i \in 1..Len(succeeded)} /\ CameUp \subseteq Children
      /\ \A i \in 1..Len(succeeded) : succeeded[i] = plan[i] /\ i \in 1..Len(plan)
      /\ Len(succeeded) \in Nat /\ Len(plan) \in Nat
    BY SagaOf
<1>3. \A i, j \in 1..Len(plan) : plan[i] = plan[j] => i = j
    BY <1>1, PlanComplete DEF PlanInv
<1>4. \A j \in 1..Len(succeeded) : row[plan[j]] \in {"rolled_back", "rollback_failed"} <=> cmd.pos < j
  <2>1. DOMAIN succeeded = 1..Len(succeeded)
      BY DEF PlanInv, PlanTyped
  <2> QED BY <1>1, <1>2, <2>1 DEF PlanInv, TakenSoFar, At
<1>5. SameCommand(cmd, cmd') /\ cmd'.undo /\ (cmd'.step = "done" <=> cmd.pos = 1)
  <2>1. CASE cmd.pos = 1
      BY <1>1, <2>1, OverSets
  <2>2. CASE cmd.pos # 1
    <3>1. cmd.pos - 1 \in Nat /\ succeeded[cmd.pos - 1] \in Children
        BY <1>1, <1>2, <2>2 DEF PlanInv, PlanTyped
    <3> QED BY <1>1, <2>2, <3>1, DownAtSets
  <2> QED BY <2>1, <2>2
<1>6. c \in CameUp /\ SagaState \in [Children -> {"idle", "started", "ready", "undone", "stuck"}]
    BY <1>1, <1>2 DEF SagaState
<1>7. Saga!Standing(SagaState) = {plan[j] : j \in 1..cmd.pos}
  <2>1. Saga!Standing(SagaState) = {d \in CameUp : row[d] \notin {"rolled_back", "rollback_failed"}}
      BY <1>2 DEF Saga!Standing, SagaState
  <2> QED BY <1>1, <1>2, <1>4, <2>1
<1>8. ASSUME NEW d \in Saga!Standing(SagaState) PROVE c \notin deps[d]
  <2>1. PICK j \in 1..cmd.pos : plan[j] = d
      BY <1>7, <1>8
  <2>2. j \in 1..Len(plan) /\ cmd.pos \in 1..Len(plan) /\ ~(cmd.pos < j) /\ c = plan[cmd.pos]
      BY <1>1, <1>2
  <2> QED BY <1>1, <2>1, <2>2, DependentsAfter DEF PlanInv
<1>9. SagaState' = f
  <2>1. CameUp' = CameUp
      BY <1>1 DEF CameUp
  <2>2. row'[c] = gone /\ \A d \in Children : d # c => row'[d] = row[d]
      BY <1>1
  <2>3. \A d \in Children : SagaState'[d] = IF d = c THEN how ELSE SagaState[d]
      BY <1>1, <1>5, <1>6, <2>1, <2>2 DEF SagaState, SameCommand
  <2>4. SagaState' = [d \in Children |-> SagaState'[d]]
      BY DEF SagaState
  <2> QED BY <1>6, <2>3, <2>4
<1>10. Saga!Standing(SagaState') = {plan[j] : j \in 1..(cmd.pos - 1)}
  <2>1. Saga!Standing(SagaState') = Saga!Standing(SagaState) \ {c}
      BY <1>6, <1>9 DEF Saga!Standing
  <2>2. {plan[j] : j \in 1..cmd.pos} \ {plan[cmd.pos]} = {plan[j] : j \in 1..(cmd.pos - 1)}
      BY <1>1, <1>2, <1>3
  <2> QED BY <1>1, <1>2, <1>7, <2>1, <2>2
<1>11. SagaPhase = "undo" /\ SagaPhase' = IF Saga!Standing(SagaState') = {} THEN "over" ELSE "undo"
  <2>1. {plan[j] : j \in 1..(cmd.pos - 1)} = {} <=> cmd.pos = 1
    <3>1. cmd.pos \in Nat \ {0}
        BY <1>1, <1>2
    <3>2. CASE cmd.pos = 1
        BY <3>2
    <3>3. CASE cmd.pos # 1
      <4>1. 1 \in 1..(cmd.pos - 1)
          BY <3>1, <3>3
      <4>2. plan[1] \in {plan[j] : j \in 1..(cmd.pos - 1)}
          BY <4>1
      <4> QED BY <3>3, <4>2
    <3> QED BY <3>2, <3>3
  <2>2. SagaPhase = "undo" /\ SagaPhase' = IF cmd.pos = 1 THEN "over" ELSE "undo"
      BY <1>1, <1>5 DEF SagaPhase, Done, wavesVars, SameCommand
  <2> QED BY <1>10, <2>1, <2>2
<1>12. c \in Saga!Standing(SagaState)
    BY <1>1, <1>2, <1>7
<1>13. how \in {"undone", "stuck"}
    OBVIOUS
<1> HIDE DEF how, gone
<1> QED BY <1>5, <1>8, <1>9, <1>11, <1>12, <1>13 DEF Saga!Undo, Saga!Fixed, wavesVars, SameCommand

\* What is not an `up` is no saga: nothing comes up in it.
LEMMA NoSaga ==
    ASSUME PlanInv, [Next]_vars, cmd.verb # "up"
    PROVE  UNCHANGED Saga!vars
BY CommandStays DEF Saga!vars, SagaState, SagaPhase, SameCommand

LEMMA SagaInitially == Init => Saga!Init
<1> SUFFICES ASSUME Init PROVE Saga!Init
    OBVIOUS
<1>1. /\ cmd.step = "resolve" /\ ~cmd.undo /\ cmd.noWait \in BOOLEAN /\ cmd.noRollback \in BOOLEAN
      /\ succeeded = <<>>
    BY DEF Init
<1>2. CameUp = {}
    BY <1>1 DEF CameUp
<1>3. SagaState = [c \in Children |-> "idle"] /\ SagaPhase = "forward"
    BY <1>1, <1>2 DEF SagaState, SagaPhase, Done
<1> QED BY <1>1, <1>3 DEF Saga!Init

\* Each step of an `up` is a step of the saga, or none.
LEMMA SagaSteps ==
    ASSUME PlanInv, [Next]_vars, cmd.verb = "up"
    PROVE  [Saga!Next]_Saga!vars
<1>1. UNCHANGED deps /\ SameCommand(cmd, cmd') /\ cmd'.verb = "up"
    BY CommandStays DEF SameCommand
<1>2. VerbFits /\ PlanSorted /\ (~At({"resolve", "done"}) => waves = "ok" /\ ThisOne \in Children)
    BY ChildInHand DEF PlanInv
<1>3. PlanInv'
    BY PlanInvKept
<1>4. CASE UNCHANGED <<succeeded, row, seen, cmd>> /\ (cmd.step = "resolve" \/ waves' = waves)
    BY <1>1, <1>4, SagaStutters DEF SagaPhase, Done
<1>5. CASE Resolved
  <2>1. SagaPhase = "forward"
      BY <1>2, <1>5 DEF SagaPhase, Done, Resolved, PlanSorted
  <2>2. waves = "ok" => cmd' = UpAt(cmd, 1)
      BY <1>5 DEF Resolved
  <2>3. waves # "ok" => cmd' = Over(cmd)
      BY <1>5 DEF Resolved
  <2>4. SagaPhase' = "forward"
    <3>1. cmd \in CmdState /\ ~cmd.undo /\ waves' = waves
        BY <1>2, <1>5 DEF PlanInv, PlanTyped, PlanSorted, Resolved, wavesVars
    <3> QED BY <1>1, <2>2, <2>3, <3>1, UpAtSets, OverSets DEF SagaPhase, Done
  <2> QED BY <1>1, <1>5, <2>1, <2>4, SagaStutters DEF Resolved
<1>6. ASSUME cmd.step \in {"up", "ready"}, cmd' = [cmd EXCEPT !.entry = @ + 1],
             UNCHANGED <<succeeded, row>>, seen'.accepted = seen.accepted
      PROVE  UNCHANGED Saga!vars
  <2>1. cmd'.step = cmd.step /\ cmd'.undo = cmd.undo
      BY <1>6 DEF PlanInv, PlanTyped, CmdState
  <2>2. SagaPhase' = SagaPhase
      BY <1>1, <1>6, <2>1 DEF SagaPhase, Done
  <2> QED BY <1>1, <1>6, <2>2, SagaStutters
<1>7. CASE UpEntry
  <2>1. seen'.accepted = seen.accepted /\ UNCHANGED wavesVars /\ cmd.step = "up" /\ ThisOne \in Children
      BY <1>2, <1>7 DEF UpEntry, PlanInv, PlanTyped, SeenState, quiet, At
  <2>2. CASE cmd' = [cmd EXCEPT !.entry = @ + 1] /\ UNCHANGED <<succeeded, row>>
      BY <1>6, <2>1, <2>2
  <2>3. CASE ~(cmd' = [cmd EXCEPT !.entry = @ + 1] /\ UNCHANGED <<succeeded, row>>)
    <3>1. /\ row' = [row EXCEPT ![ThisOne] = "up"] /\ succeeded' = Append(succeeded, ThisOne)
          /\ cmd' = AfterUp(cmd.pos)
        BY <1>7, <2>3 DEF UpEntry
    <3> QED BY <2>1, <3>1, SagaStarts DEF Saga!Next
  <2> QED BY <2>2, <2>3
<1>8. ASSUME cmd.step \in {"up", "ready"}, UNCHANGED wavesVars, FailAt(ThisOne, succeeded),
             seen'.accepted = seen.accepted
      PROVE  Saga!Next
    BY <1>8, SagaFails DEF Saga!Next
<1>9. CASE UpFails
  <2>1. seen'.accepted = seen.accepted
      BY <1>9 DEF UpFails, PlanInv, PlanTyped, SeenState
  <2> QED BY <1>8, <1>9, <2>1 DEF UpFails, quiet
<1>10. CASE cmd.step = "ready" /\ NotReady
  <2>1. seen'.accepted = seen.accepted
      BY <1>10 DEF NotReady, PlanInv, PlanTyped, SeenState
  <2> QED BY <1>8, <1>10, <2>1 DEF NotReady, quiet
<1>11. CASE cmd.step = "ready" /\ EntryReady
  <2>1. UNCHANGED <<wavesVars, succeeded>> /\ ThisOne \in Children
      BY <1>2, <1>11 DEF EntryReady, quiet, At
  <2>2. CASE cmd.entry < NumEntries[ThisOne]
      BY <1>6, <1>11, <2>1, <2>2 DEF EntryReady
  <2>3. CASE ~(cmd.entry < NumEntries[ThisOne])
    <3>1. /\ row' = row /\ cmd' = AfterReady(cmd.pos)
          /\ seen' = [seen EXCEPT !.accepted = @ \cup {ThisOne}]
        BY <1>11, <2>3 DEF EntryReady
    <3>2. seen'.accepted = seen.accepted \cup {ThisOne}
        BY <3>1 DEF PlanInv, PlanTyped, SeenState
    <3> QED BY <1>11, <2>1, <3>1, <3>2, SagaReadies DEF Saga!Next
  <2> QED BY <2>2, <2>3
<1>12. CASE NoChecks \/ TakeAnswer \/ WaitOver \/ Liveness \/ ExecutorFails
    BY <1>10, <1>11, <1>12 DEF NoChecks, TakeAnswer, WaitOver, Liveness, ExecutorFails
<1>13. CASE DownEntry
  <2>1. seen'.accepted = seen.accepted
      BY <1>13 DEF DownEntry, PlanInv, PlanTyped, SeenState
  <2>2. cmd'.step = cmd.step /\ cmd'.undo = cmd.undo
      BY <1>13 DEF DownEntry, PlanInv, PlanTyped, CmdState
  <2>3. UNCHANGED <<wavesVars, row, succeeded>> /\ cmd.step = "down"
      BY <1>13 DEF DownEntry, quiet
  <2>4. SagaPhase' = SagaPhase
      BY <1>1, <2>2, <2>3 DEF SagaPhase, Done
  <2> QED BY <1>1, <2>1, <2>3, <2>4, SagaStutters
<1>14. CASE DownFailsWhole \/ DownEnds
  <2>1. /\ cmd.step = "down" /\ UNCHANGED wavesVars /\ ThisOne \in Children
        /\ ChildDown(TRUE) \/ ChildDown(cmd.err \/ StopsOnCancel)
      BY <1>2, <1>14 DEF DownFailsWhole, DownEnds, quiet, At
  <2>2. seen'.accepted = seen.accepted
      BY <1>14 DEF DownFailsWhole, DownEnds, PlanInv, PlanTyped, SeenState
  <2>3. PICK err \in BOOLEAN : ChildDown(err)
    <3>1. (cmd.err \/ StopsOnCancel) \in BOOLEAN
        BY DEF PlanInv, PlanTyped, CmdState
    <3> QED BY <2>1, <3>1
  <2>4. Saga!Undo(ThisOne)
      BY <2>1, <2>2, <2>3, SagaUndoes
  <2> QED BY <2>1, <2>4 DEF Saga!Next
<1>15. ~(Withdraw \/ Query \/ TearDown \/ ReportStatus)
    BY <1>2 DEF VerbFits, At, Withdraw, Query, TearDown, ReportStatus
<1>16. CASE Resolve
  <2>1. cmd.step = "resolve"
      BY <1>2, <1>16 DEF Resolve, WavesNext, Process, Conclude, PlanSorted
  <2> QED BY <1>4, <1>16, <2>1 DEF Resolve
<1>17. CASE Probe \/ Expire \/ (\E s \in Services : Die(s)) \/ Cancel \/ UNCHANGED vars
    BY <1>4, <1>17 DEF Probe, Expire, Die, Cancel, vars, quiet, wavesVars
<1> QED BY <1>5, <1>7, <1>9, <1>12, <1>13, <1>14, <1>15, <1>16, <1>17 DEF Next, Work

\* `up` implements the saga (composition_orchestrator.go, Up), for any plan: a child
\* starts only when everything that it depends on is up and, unless --no-wait, ready;
\* after a failure nothing starts, and what came up is taken down dependents first,
\* each child once.
THEOREM ImplementsSagaHolds == Spec => ImplementsSaga
<1>1. PlanInv /\ [Next]_vars => [Saga!Next]_Saga!vars
    BY NoSaga, SagaSteps
<1> QED BY <1>1, SagaInitially, PlanInvAlways, PTL DEF Spec, ImplementsSaga, Saga!Spec

-----------------------------------------------------------------------------
(* The tunnels of a command *)

USE TunnelAssumption

OpenerState == [pc : OpenerPCs, query : BOOLEAN, off : BOOLEAN, left : Seq(Tunnel),
                on : Tunnel, held : SUBSET Tunnel]
ChildState == [Tunnel -> {"none", "live", "told", "exited"}]

OneInHand(o) == opener[o].pc \in {"ready", "term", "reap"}

\* What a command holds or has in its hands it started, and nothing else.
StartedKnown(o) ==
    /\ \A t \in opener[o].held : child[o][t] # "none"
    /\ OneInHand(o) => child[o][opener[o].on] # "none"
    /\ \A t \in Tunnel : child[o][t] # "none" =>
          t \in opener[o].held \/ (OneInHand(o) /\ t = opener[o].on)

\* A cloudflared is told to stop only by who waits for it.
ToldWaitedFor(o) ==
    \A t \in Tunnel : child[o][t] = "told" => opener[o].pc = "reap" /\ opener[o].on = t

EndedHoldsNothing(o) == opener[o].pc = "ended" => opener[o].held = {}

\* While tunnels are opened, those that are needed are held, in hand or still to come.
NeededCovered(o) ==
    /\ opener[o].pc = "next" => Needed(o) \subseteq opener[o].held \cup ToSet(opener[o].left)
    /\ opener[o].pc \in {"auth", "dial", "start", "ready"} =>
         Needed(o) \subseteq opener[o].held \cup ToSet(opener[o].left) \cup {opener[o].on}
    /\ opener[o].pc = "serve" => Needed(o) \subseteq opener[o].held

Sound(o) == StartedKnown(o) /\ ToldWaitedFor(o) /\ EndedHoldsNothing(o) /\ NeededCovered(o)

TunnelInv == TunnelTypeOK /\ \A o \in Openers : Sound(o)

-----------------------------------------------------------------------------
(* Sequences *)

\* The elements of a sequence are its head and those of its tail.
LEMMA HeadAndTail ==
    ASSUME NEW S, NEW s \in Seq(S), s # <<>>
    PROVE  /\ Head(s) \in S /\ Tail(s) \in Seq(S)
           /\ ToSet(s) = {Head(s)} \cup ToSet(Tail(s))
<1>1. Head(s) \in S /\ Tail(s) \in Seq(S)
    OBVIOUS
<1>2. ToSet(s) \subseteq {Head(s)} \cup ToSet(Tail(s))
  <2> SUFFICES ASSUME NEW i \in DOMAIN s PROVE s[i] \in {Head(s)} \cup ToSet(Tail(s))
      BY DEF ToSet
  <2>1. CASE i = 1
      BY <2>1
  <2>2. CASE i # 1
    <3>1. i - 1 \in DOMAIN Tail(s) /\ Tail(s)[i - 1] = s[i]
        BY <2>2
    <3> QED BY <3>1 DEF ToSet
  <2> QED BY <2>1, <2>2
<1>3. {Head(s)} \cup ToSet(Tail(s)) \subseteq ToSet(s)
  <2>1. Head(s) \in ToSet(s)
      BY DEF ToSet
  <2>2. ASSUME NEW i \in DOMAIN Tail(s) PROVE Tail(s)[i] \in ToSet(s)
    <3>1. i + 1 \in DOMAIN s /\ Tail(s)[i] = s[i + 1]
        OBVIOUS
    <3> QED BY <3>1 DEF ToSet
  <2> QED BY <2>1, <2>2 DEF ToSet
<1> QED BY <1>1, <1>2, <1>3

LEMMA NothingInEmpty == ToSet(<<>>) = {}
BY DEF ToSet

-----------------------------------------------------------------------------
(* What the pieces of an action do to a command *)

\* Only o is touched, and stays what it should be.
OnlyOf(o) ==
    /\ opener' \in [Openers -> OpenerState] /\ child' \in [Openers -> ChildState]
    /\ \A q \in Openers \ {o} : opener'[q] = opener[q] /\ child'[q] = child[q]

LEMMA GoesSets ==
    ASSUME TunnelTypeOK, NEW o \in Openers, NEW pc \in OpenerPCs, Goes(o, pc)
    PROVE  /\ opener' \in [Openers -> OpenerState]
           /\ opener'[o] = [opener[o] EXCEPT !.pc = pc]
           /\ opener'[o].pc = pc /\ opener'[o].held = opener[o].held
           /\ opener'[o].left = opener[o].left /\ opener'[o].on = opener[o].on
           /\ \A q \in Openers \ {o} : opener'[q] = opener[q]
<1>1. opener[o] \in OpenerState
    BY DEF TunnelTypeOK, OpenerState
<1>2. [opener[o] EXCEPT !.pc = pc] \in OpenerState
    BY <1>1 DEF OpenerState
<1> QED BY <1>1, <1>2 DEF Goes, TunnelTypeOK, OpenerState

LEMMA BecomesSets ==
    ASSUME TunnelTypeOK, NEW o \in Openers, NEW t \in Tunnel,
           NEW is \in {"none", "live", "told", "exited"}, Becomes(o, t, is)
    PROVE  /\ child' \in [Openers -> ChildState]
           /\ child'[o][t] = is /\ \A u \in Tunnel \ {t} : child'[o][u] = child[o][u]
           /\ \A q \in Openers \ {o} : child'[q] = child[q]
BY DEF Becomes, TunnelTypeOK, ChildState

LEMMA NoOpeningTyped ==
    /\ NoOpening \in OpenerState
    /\ NoOpening.pc = "ended" /\ NoOpening.held = {}
BY DEF NoOpening, OpenerState, OpenerPCs

LEMMA LeaveSets ==
    ASSUME TunnelTypeOK, NEW o \in Openers, Leave(o)
    PROVE  /\ opener' \in [Openers -> OpenerState] /\ opener'[o] = NoOpening
           /\ \A q \in Openers \ {o} : opener'[q] = opener[q]
BY NoOpeningTyped DEF Leave, TunnelTypeOK, OpenerState

\* A command whose next state is r.
LEMMA TurnsInto ==
    ASSUME TunnelTypeOK, NEW o \in Openers, NEW r \in OpenerState,
           opener' = [opener EXCEPT ![o] = r]
    PROVE  /\ opener' \in [Openers -> OpenerState] /\ opener'[o] = r
           /\ \A q \in Openers \ {o} : opener'[q] = opener[q]
BY DEF TunnelTypeOK, OpenerState

LEMMA Unpacked ==
    TunnelTypeOK <=>
        /\ opener \in [Openers -> OpenerState] /\ child \in [Openers -> ChildState]
        /\ listener \in [Ports -> {Nobody, Stranger} \cup (Openers \X Tunnel)]
BY DEF TunnelTypeOK, OpenerState, ChildState

-----------------------------------------------------------------------------
(* Opening *)

LEMMA BeginKeeps ==
    ASSUME TunnelInv, NEW o \in Openers, NEW query \in BOOLEAN, BeginCommand(o, query)
    PROVE  OnlyOf(o) /\ Sound(o)'
<1> DEFINE r == [opener[o] EXCEPT !.pc = "next", !.query = query, !.left = Needs[o]]
<1>1. opener[o] \in OpenerState /\ opener[o].pc = "ended"
    BY Unpacked DEF TunnelInv, BeginCommand, IsAt
<1>2. r \in OpenerState
    BY <1>1 DEF OpenerState, OpenerPCs
<1>3. r.pc = "next" /\ r.held = {} /\ r.left = Needs[o]
    BY <1>1 DEF OpenerState, TunnelInv, Sound, EndedHoldsNothing
<1>4. opener' = [opener EXCEPT ![o] = r] /\ child' = child
    BY DEF BeginCommand
<1> HIDE DEF r
<1>5. OnlyOf(o) /\ opener'[o] = r
    BY <1>2, <1>4, TurnsInto, Unpacked DEF TunnelInv, OnlyOf
<1>6. \A t \in Tunnel : child[o][t] = "none"
    BY <1>1 DEF TunnelInv, Sound, StartedKnown, EndedHoldsNothing, OneInHand
<1> QED
    BY <1>3, <1>4, <1>5, <1>6
       DEF Sound, StartedKnown, ToldWaitedFor, EndedHoldsNothing, NeededCovered, Needed, OneInHand

LEMMA NextKeeps ==
    ASSUME TunnelInv, NEW o \in Openers, NextTunnel(o)
    PROVE  OnlyOf(o) /\ Sound(o)'
<1> USE DEF Sound, StartedKnown, ToldWaitedFor, EndedHoldsNothing, NeededCovered, Needed, OneInHand
<1>1. opener[o] \in OpenerState /\ opener[o].pc = "next" /\ TunnelTypeOK
    BY Unpacked DEF TunnelInv, NextTunnel, IsAt
<1>2. child' = child /\ child \in [Openers -> ChildState]
    BY Unpacked DEF TunnelInv, NextTunnel
<1>3. \/ Goes(o, "close")
      \/ opener[o].left = <<>> /\ Goes(o, "serve")
      \/ /\ opener[o].left # <<>>
         /\ opener' = [opener EXCEPT ![o].left = Tail(@), ![o].on = Head(opener[o].left),
                ![o].pc = IF Head(opener[o].left) \in opener[o].held THEN "next" ELSE "auth"]
    BY DEF NextTunnel
<1>4. CASE Goes(o, "close")
    BY <1>1, <1>2, <1>4, GoesSets DEF TunnelInv, OnlyOf, OpenerPCs
<1>5. CASE opener[o].left = <<>> /\ Goes(o, "serve")
    BY <1>1, <1>2, <1>5, GoesSets, NothingInEmpty DEF TunnelInv, OnlyOf, OpenerPCs
<1>6. CASE /\ opener[o].left # <<>>
           /\ opener' = [opener EXCEPT ![o].left = Tail(@), ![o].on = Head(opener[o].left),
                ![o].pc = IF Head(opener[o].left) \in opener[o].held THEN "next" ELSE "auth"]
  <2> DEFINE t == Head(opener[o].left)
             pc == IF t \in opener[o].held THEN "next" ELSE "auth"
             r == [opener[o] EXCEPT !.left = Tail(opener[o].left), !.on = t, !.pc = pc]
  <2>1. opener[o].left \in Seq(Tunnel)
      BY <1>1 DEF OpenerState
  <2>2. /\ t \in Tunnel /\ Tail(opener[o].left) \in Seq(Tunnel)
        /\ ToSet(opener[o].left) = {t} \cup ToSet(Tail(opener[o].left))
      BY <1>6, <2>1, HeadAndTail
  <2>3. r \in OpenerState
      BY <1>1, <2>2 DEF OpenerState, OpenerPCs
  <2>4. /\ r.held = opener[o].held /\ r.left = Tail(opener[o].left) /\ r.on = t
        /\ r.pc = pc
      BY <1>1 DEF OpenerState
  <2>5. opener' = [opener EXCEPT ![o] = r]
      BY <1>1, <1>6, Unpacked DEF OpenerState
  <2> HIDE DEF r
  <2>6. OnlyOf(o) /\ opener'[o] = r
      BY <1>1, <1>2, <2>3, <2>5, TurnsInto DEF OnlyOf
  <2>7. pc = "next" => t \in opener[o].held
      OBVIOUS
  <2>8. pc \in {"next", "auth"}
      OBVIOUS
  <2> HIDE DEF t, pc
  <2> QED BY <1>1, <1>2, <2>2, <2>4, <2>6, <2>7, <2>8 DEF TunnelInv
<1> QED BY <1>3, <1>4, <1>5, <1>6

\* An action that only sends a command elsewhere, from where and to where it may.
LEMMA GoingKeeps ==
    ASSUME TunnelInv, NEW o \in Openers, NEW pc \in OpenerPCs, Goes(o, pc), child' = child,
           \/ opener[o].pc = "auth" /\ pc \in {"close", "dial"}
           \/ opener[o].pc = "dial" /\ pc \in {"close", "start"}
           \/ opener[o].pc = "start" /\ pc = "close"
           \/ opener[o].pc = "ready" /\ pc = "term"
           \/ opener[o].pc = "serve" /\ pc = "close"
    PROVE  OnlyOf(o) /\ Sound(o)'
<1>1. TunnelTypeOK /\ child \in [Openers -> ChildState]
    BY Unpacked DEF TunnelInv
<1>2. /\ opener' \in [Openers -> OpenerState]
      /\ opener'[o].pc = pc /\ opener'[o].held = opener[o].held
      /\ opener'[o].left = opener[o].left /\ opener'[o].on = opener[o].on
      /\ \A q \in Openers \ {o} : opener'[q] = opener[q]
    BY <1>1, GoesSets
<1>3. StartedKnown(o) /\ ToldWaitedFor(o) /\ EndedHoldsNothing(o) /\ NeededCovered(o)
    BY DEF TunnelInv, Sound
<1>4. OnlyOf(o)
    BY <1>1, <1>2 DEF OnlyOf
<1>5. StartedKnown(o)'
    BY <1>2, <1>3 DEF StartedKnown, OneInHand
<1>6. ToldWaitedFor(o)' /\ EndedHoldsNothing(o)'
    BY <1>2, <1>3 DEF ToldWaitedFor, EndedHoldsNothing
<1>7. NeededCovered(o)'
    BY <1>2, <1>3 DEF NeededCovered, Needed
<1> QED BY <1>4, <1>5, <1>6, <1>7 DEF Sound

LEMMA AuthenticateKeeps ==
    ASSUME TunnelInv, NEW o \in Openers, AuthenticateTunnel(o) PROVE OnlyOf(o) /\ Sound(o)'
<1>1. PICK pc \in {"close", "dial"} : Goes(o, pc)
    BY DEF AuthenticateTunnel
<1> QED BY <1>1, GoingKeeps DEF AuthenticateTunnel, IsAt, OpenerPCs

LEMMA DialKeeps ==
    ASSUME TunnelInv, NEW o \in Openers, DialPort(o) PROVE OnlyOf(o) /\ Sound(o)'
<1>1. PICK pc \in {"close", "start"} : Goes(o, pc)
    BY DEF DialPort
<1> QED BY <1>1, GoingKeeps DEF DialPort, IsAt, OpenerPCs

LEMMA StartKeeps ==
    ASSUME TunnelInv, NEW o \in Openers, StartTunnel(o) PROVE OnlyOf(o) /\ Sound(o)'
<1>1. CASE Goes(o, "close") /\ child' = child
    BY <1>1, GoingKeeps DEF StartTunnel, IsAt, OpenerPCs
<1>2. CASE Goes(o, "ready") /\ Becomes(o, opener[o].on, "live")
  <2>1. TunnelTypeOK /\ opener[o].pc = "start" /\ opener[o].on \in Tunnel
      BY Unpacked DEF TunnelInv, StartTunnel, IsAt, OpenerState
  <2>2. /\ opener' \in [Openers -> OpenerState]
        /\ opener'[o].pc = "ready" /\ opener'[o].held = opener[o].held
        /\ opener'[o].left = opener[o].left /\ opener'[o].on = opener[o].on
        /\ \A q \in Openers \ {o} : opener'[q] = opener[q]
      BY <1>2, <2>1, GoesSets DEF OpenerPCs
  <2>3. /\ child' \in [Openers -> ChildState]
        /\ child'[o][opener[o].on] = "live"
        /\ \A u \in Tunnel \ {opener[o].on} : child'[o][u] = child[o][u]
        /\ \A q \in Openers \ {o} : child'[q] = child[q]
      BY <1>2, <2>1, BecomesSets
  <2>4. StartedKnown(o) /\ ToldWaitedFor(o) /\ EndedHoldsNothing(o) /\ NeededCovered(o)
      BY DEF TunnelInv, Sound
  <2>5. OnlyOf(o)
      BY <2>2, <2>3 DEF OnlyOf
  <2>6. opener[o].held \subseteq Tunnel
      BY Unpacked, <2>1 DEF OpenerState
  <2>7. StartedKnown(o)'
      BY <2>1, <2>2, <2>3, <2>4, <2>6 DEF StartedKnown, OneInHand
  <2>8. ToldWaitedFor(o)' /\ EndedHoldsNothing(o)'
      BY <2>1, <2>2, <2>3, <2>4 DEF ToldWaitedFor, EndedHoldsNothing
  <2>9. NeededCovered(o)'
      BY <2>1, <2>2, <2>4 DEF NeededCovered, Needed
  <2> QED BY <2>5, <2>7, <2>8, <2>9 DEF Sound
<1> QED BY <1>1, <1>2 DEF StartTunnel

LEMMA GivesUpKeeps ==
    ASSUME TunnelInv, NEW o \in Openers, GivesUpWaiting(o) PROVE OnlyOf(o) /\ Sound(o)'
BY GoingKeeps DEF GivesUpWaiting, GiveUpTunnel, IsAt, OpenerPCs

LEMMA ServedKeeps ==
    ASSUME TunnelInv, NEW o \in Openers, Served(o) PROVE OnlyOf(o) /\ Sound(o)'
BY GoingKeeps DEF Served, IsAt, OpenerPCs

LEMMA AnsweredKeeps ==
    ASSUME TunnelInv, NEW o \in Openers, Answered(o) PROVE OnlyOf(o) /\ Sound(o)'
<1> DEFINE pc == IF Canceled(o) THEN "term" ELSE "next"
           held == IF Canceled(o) THEN opener[o].held ELSE opener[o].held \cup {opener[o].on}
           r == [opener[o] EXCEPT !.pc = pc, !.held = held]
<1>1. /\ opener[o] \in OpenerState /\ opener[o].pc = "ready" /\ TunnelTypeOK
      /\ child' = child /\ child \in [Openers -> ChildState]
    BY Unpacked DEF TunnelInv, Answered, IsAt
<1>2. pc \in {"term", "next"} /\ held \in SUBSET Tunnel
    BY <1>1 DEF OpenerState
<1>3. r \in OpenerState
    BY <1>1, <1>2 DEF OpenerState, OpenerPCs
<1>4. r.pc = pc /\ r.held = held /\ r.left = opener[o].left /\ r.on = opener[o].on
    BY <1>1 DEF OpenerState
<1>5. opener' = [opener EXCEPT ![o] = r]
    BY <1>1, Unpacked DEF Answered, OpenerState
<1>6. \/ pc = "term" /\ held = opener[o].held
      \/ pc = "next" /\ held = opener[o].held \cup {opener[o].on}
    OBVIOUS
<1> HIDE DEF r, pc, held
<1>7. OnlyOf(o) /\ opener'[o] = r
    BY <1>1, <1>3, <1>5, TurnsInto DEF OnlyOf
<1>8. StartedKnown(o) /\ ToldWaitedFor(o) /\ NeededCovered(o)
    BY DEF TunnelInv, Sound
<1>9. StartedKnown(o)'
    BY <1>1, <1>4, <1>6, <1>7, <1>8 DEF StartedKnown, OneInHand
<1>10. ToldWaitedFor(o)' /\ EndedHoldsNothing(o)'
    BY <1>1, <1>2, <1>4, <1>7, <1>8 DEF ToldWaitedFor, EndedHoldsNothing
<1>11. NeededCovered(o)'
    BY <1>1, <1>4, <1>6, <1>7, <1>8 DEF NeededCovered, Needed
<1> QED BY <1>7, <1>9, <1>10, <1>11 DEF Sound

-----------------------------------------------------------------------------
(* Closing *)

\* A command that is over and holds nothing.
LEMMA EndedSound ==
    ASSUME NEW o \in Openers, opener'[o].pc = "ended", opener'[o].held = {},
           \A t \in Tunnel : child'[o][t] = "none"
    PROVE  Sound(o)'
BY DEF Sound, StartedKnown, OneInHand, ToldWaitedFor, EndedHoldsNothing, NeededCovered

LEMMA CloseKeeps ==
    ASSUME TunnelInv, NEW o \in Openers, CloseNext(o) PROVE OnlyOf(o) /\ Sound(o)'
<1>1. /\ opener[o] \in OpenerState /\ opener[o].pc = "close" /\ TunnelTypeOK
      /\ child' = child /\ child \in [Openers -> ChildState]
    BY Unpacked DEF TunnelInv, CloseNext, IsAt
<1>2. StartedKnown(o) /\ ToldWaitedFor(o)
    BY DEF TunnelInv, Sound
<1>3. CASE opener[o].held = {} /\ Leave(o)
  <2>1. OnlyOf(o) /\ opener'[o] = NoOpening
      BY <1>1, <1>3, LeaveSets DEF OnlyOf
  <2>2. \A t \in Tunnel : child'[o][t] = "none"
      BY <1>1, <1>2, <1>3 DEF StartedKnown, OneInHand
  <2> QED BY <2>1, <2>2, NoOpeningTyped, EndedSound
<1>4. ASSUME NEW t \in opener[o].held,
             opener' = [opener EXCEPT ![o].on = t, ![o].pc = "term"]
      PROVE  OnlyOf(o) /\ Sound(o)'
  <2> DEFINE r == [opener[o] EXCEPT !.on = t, !.pc = "term"]
  <2>1. r \in OpenerState /\ r.pc = "term" /\ r.on = t /\ r.held = opener[o].held
      BY <1>1 DEF OpenerState, OpenerPCs
  <2>2. opener' = [opener EXCEPT ![o] = r]
      BY <1>1, <1>4, Unpacked DEF OpenerState
  <2> HIDE DEF r
  <2>3. OnlyOf(o) /\ opener'[o] = r
      BY <1>1, <2>1, <2>2, TurnsInto DEF OnlyOf
  <2> QED
      BY <1>1, <1>2, <2>1, <2>3
         DEF Sound, StartedKnown, OneInHand, ToldWaitedFor, EndedHoldsNothing, NeededCovered
<1> QED BY <1>3, <1>4 DEF CloseNext

\* What becomes of the tunnel in the hands of a command that goes on to another place.
LEMMA InHandBecomes ==
    ASSUME TunnelInv, NEW o \in Openers, NEW is \in {"told", "exited"}, OneInHand(o),
           opener[o].pc \in {"term", "reap"}, Becomes(o, opener[o].on, is),
           Goes(o, "reap") \/ (opener[o].pc = "reap" /\ opener' = opener)
    PROVE  OnlyOf(o) /\ Sound(o)'
<1>1. TunnelTypeOK /\ opener \in [Openers -> OpenerState] /\ opener[o].on \in Tunnel
    BY Unpacked DEF TunnelInv, OpenerState
<1>2. /\ opener' \in [Openers -> OpenerState]
      /\ opener'[o].pc = "reap" /\ opener'[o].held = opener[o].held
      /\ opener'[o].on = opener[o].on
      /\ \A q \in Openers \ {o} : opener'[q] = opener[q]
    BY <1>1, GoesSets DEF OpenerPCs
<1>3. /\ child' \in [Openers -> ChildState]
      /\ child'[o][opener[o].on] = is
      /\ \A u \in Tunnel \ {opener[o].on} : child'[o][u] = child[o][u]
      /\ \A q \in Openers \ {o} : child'[q] = child[q]
    BY <1>1, BecomesSets
<1>4. OnlyOf(o)
    BY <1>2, <1>3 DEF OnlyOf
<1>5. StartedKnown(o) /\ ToldWaitedFor(o) /\ opener[o].held \subseteq Tunnel
    BY <1>1 DEF TunnelInv, Sound, OpenerState
<1>6. StartedKnown(o)'
  <2>1. \A t \in Tunnel : child'[o][t] = "none" <=> child[o][t] = "none"
      BY <1>1, <1>3, <1>5 DEF StartedKnown
  <2>2. OneInHand(o)'
      BY <1>2 DEF OneInHand
  <2>3. \A t \in opener'[o].held : child'[o][t] # "none"
      BY <1>2, <1>5, <2>1 DEF StartedKnown
  <2>4. child'[o][opener'[o].on] # "none"
      BY <1>2, <1>3
  <2>5. \A t \in Tunnel : child'[o][t] # "none" => t \in opener'[o].held \/ t = opener'[o].on
      BY <1>2, <1>5, <2>1 DEF StartedKnown
  <2> QED BY <2>2, <2>3, <2>4, <2>5 DEF StartedKnown
<1>7. ToldWaitedFor(o)' /\ EndedHoldsNothing(o)' /\ NeededCovered(o)'
    BY <1>2, <1>3, <1>5 DEF ToldWaitedFor, EndedHoldsNothing, NeededCovered
<1> QED BY <1>4, <1>6, <1>7 DEF Sound

LEMMA TerminateKeeps ==
    ASSUME TunnelInv, NEW o \in Openers, TerminateTunnel(o) PROVE OnlyOf(o) /\ Sound(o)'
BY InHandBecomes DEF TerminateTunnel, IsAt, OneInHand

LEMMA GraceKeeps ==
    ASSUME TunnelInv, NEW o \in Openers, GraceOver(o) PROVE OnlyOf(o) /\ Sound(o)'
BY InHandBecomes DEF GraceOver, IsAt, OneInHand

LEMMA ReapKeeps ==
    ASSUME TunnelInv, NEW o \in Openers, ReapTunnel(o) PROVE OnlyOf(o) /\ Sound(o)'
<1> DEFINE r == [opener[o] EXCEPT !.pc = "close", !.held = opener[o].held \ {opener[o].on}]
<1>1. /\ opener[o] \in OpenerState /\ opener[o].pc = "reap" /\ TunnelTypeOK
      /\ opener[o].on \in Tunnel /\ child[o][opener[o].on] = "exited"
    BY Unpacked DEF TunnelInv, ReapTunnel, IsAt, OpenerState
<1>2. /\ r \in OpenerState /\ r.pc = "close"
      /\ r.held = opener[o].held \ {opener[o].on} /\ r.held \subseteq Tunnel
    BY <1>1 DEF OpenerState, OpenerPCs
<1>3. opener' = [opener EXCEPT ![o] = r]
    BY <1>1, Unpacked DEF ReapTunnel, OpenerState
<1> HIDE DEF r
<1>4. /\ opener' \in [Openers -> OpenerState] /\ opener'[o] = r
      /\ \A q \in Openers \ {o} : opener'[q] = opener[q]
    BY <1>1, <1>2, <1>3, TurnsInto
<1>5. /\ child' \in [Openers -> ChildState]
      /\ child'[o][opener[o].on] = "none"
      /\ \A u \in Tunnel \ {opener[o].on} : child'[o][u] = child[o][u]
      /\ \A q \in Openers \ {o} : child'[q] = child[q]
    BY <1>1, BecomesSets DEF ReapTunnel
<1>6. OnlyOf(o)
    BY <1>4, <1>5 DEF OnlyOf
<1>7. StartedKnown(o) /\ ToldWaitedFor(o)
    BY DEF TunnelInv, Sound
<1>8. StartedKnown(o)'
  <2>1. ~OneInHand(o)'
      BY <1>2, <1>4 DEF OneInHand
  <2>2. \A t \in opener'[o].held : child'[o][t] # "none"
      BY <1>2, <1>4, <1>5, <1>7 DEF StartedKnown
  <2>3. \A t \in Tunnel : child'[o][t] # "none" => t \in opener'[o].held
      BY <1>2, <1>4, <1>5, <1>7 DEF StartedKnown
  <2> QED BY <2>1, <2>2, <2>3 DEF StartedKnown
<1>9. ToldWaitedFor(o)' /\ EndedHoldsNothing(o)' /\ NeededCovered(o)'
    BY <1>1, <1>2, <1>4, <1>5, <1>7 DEF ToldWaitedFor, EndedHoldsNothing, NeededCovered
<1> QED BY <1>6, <1>8, <1>9 DEF Sound

-----------------------------------------------------------------------------
(* The others *)

LEMMA CancelKeeps ==
    ASSUME TunnelInv, NEW o \in Openers, CancelQuery(o) PROVE OnlyOf(o) /\ Sound(o)'
<1> DEFINE r == [opener[o] EXCEPT !.off = TRUE]
<1>1. /\ opener[o] \in OpenerState /\ TunnelTypeOK /\ child' = child
      /\ child \in [Openers -> ChildState]
    BY Unpacked DEF TunnelInv, CancelQuery
<1>2. /\ r \in OpenerState /\ r.pc = opener[o].pc /\ r.held = opener[o].held
      /\ r.left = opener[o].left /\ r.on = opener[o].on
    BY <1>1 DEF OpenerState
<1>3. opener' = [opener EXCEPT ![o] = r]
    BY DEF CancelQuery
<1> HIDE DEF r
<1>4. OnlyOf(o) /\ opener'[o] = r
    BY <1>1, <1>2, <1>3, TurnsInto DEF OnlyOf
<1>5. Sound(o)
    BY DEF TunnelInv
<1> QED
    BY <1>1, <1>2, <1>4, <1>5
       DEF Sound, StartedKnown, OneInHand, ToldWaitedFor, EndedHoldsNothing, NeededCovered, Needed

LEMMA KillKeeps ==
    ASSUME TunnelInv, NEW o \in Openers, KillOpener(o) PROVE OnlyOf(o) /\ Sound(o)'
<1>1. /\ opener' \in [Openers -> OpenerState] /\ opener'[o] = NoOpening
      /\ \A q \in Openers \ {o} : opener'[q] = opener[q]
    BY LeaveSets DEF TunnelInv, KillOpener
<1>2. /\ child' \in [Openers -> ChildState] /\ child'[o] = [t \in Tunnel |-> "none"]
      /\ \A q \in Openers \ {o} : child'[q] = child[q]
    BY Unpacked DEF TunnelInv, KillOpener, ChildState
<1> QED BY <1>1, <1>2, NoOpeningTyped, EndedSound DEF OnlyOf

\* A cloudflared that exits by itself is still to be waited for.
LEMMA ExitKeeps ==
    ASSUME TunnelInv, NEW o \in Openers, NEW t \in Tunnel, child[o][t] \in {"live", "told"},
           Becomes(o, t, "exited"), opener' = opener
    PROVE  OnlyOf(o) /\ Sound(o)'
<1>1. TunnelTypeOK /\ opener \in [Openers -> OpenerState]
    BY Unpacked DEF TunnelInv
<1>2. /\ child' \in [Openers -> ChildState] /\ child'[o][t] = "exited"
      /\ \A u \in Tunnel \ {t} : child'[o][u] = child[o][u]
      /\ \A q \in Openers \ {o} : child'[q] = child[q]
    BY <1>1, BecomesSets
<1>3. OnlyOf(o)
    BY <1>1, <1>2 DEF OnlyOf
<1>4. Sound(o) /\ opener[o].held \subseteq Tunnel /\ opener[o].on \in Tunnel
    BY <1>1 DEF TunnelInv, OpenerState
<1>5. StartedKnown(o)'
    BY <1>2, <1>4 DEF Sound, StartedKnown, OneInHand
<1>6. ToldWaitedFor(o)' /\ EndedHoldsNothing(o)' /\ NeededCovered(o)'
    BY <1>2, <1>4 DEF Sound, ToldWaitedFor, EndedHoldsNothing, NeededCovered, Needed
<1> QED BY <1>3, <1>5, <1>6 DEF Sound

-----------------------------------------------------------------------------
(* The invariant *)

LEMMA ListenersStay == TunnelTypeOK /\ [TunnelNext]_tunnelVars
    => listener' \in [Ports -> {Nobody, Stranger} \cup (Openers \X Tunnel)]
<1> SUFFICES ASSUME TunnelTypeOK, [TunnelNext]_tunnelVars
             PROVE  listener' \in [Ports -> {Nobody, Stranger} \cup (Openers \X Tunnel)]
    OBVIOUS
<1>1. listener \in [Ports -> {Nobody, Stranger} \cup (Openers \X Tunnel)]
    BY DEF TunnelTypeOK
<1>2. CASE listener' = listener
    BY <1>1, <1>2
<1>3. ASSUME NEW o \in Openers, NEW t, Unbind(o, t)
      PROVE  listener' \in [Ports -> {Nobody, Stranger} \cup (Openers \X Tunnel)]
    BY <1>1, <1>3 DEF Unbind
<1>4. ASSUME NEW p \in Ports, NEW who \in {Nobody, Stranger} \cup (Openers \X Tunnel),
             listener' = [listener EXCEPT ![p] = who]
      PROVE  listener' \in [Ports -> {Nobody, Stranger} \cup (Openers \X Tunnel)]
    BY <1>1, <1>4
<1>5. ASSUME NEW o \in Openers, NEW t \in Tunnel, CloudflaredBinds(o, t)
      PROVE  listener' \in [Ports -> {Nobody, Stranger} \cup (Openers \X Tunnel)]
  <2>1. PortOf[t] \in Ports /\ <<o, t>> \in Openers \X Tunnel
      BY DEF Ports
  <2> QED BY <1>2, <1>4, <1>5, <2>1 DEF CloudflaredBinds
<1>6. ASSUME NEW o \in Openers, KillOpener(o)
      PROVE  listener' \in [Ports -> {Nobody, Stranger} \cup (Openers \X Tunnel)]
    BY <1>1, <1>6 DEF KillOpener
<1>7. ASSUME NEW p \in Ports, StrangerComes(p) \/ StrangerGoes(p)
      PROVE  listener' \in [Ports -> {Nobody, Stranger} \cup (Openers \X Tunnel)]
    BY <1>4, <1>7 DEF StrangerComes, StrangerGoes
<1>8. ASSUME NEW o \in Openers, NEW t \in Tunnel, CloudflaredExits(o, t)
      PROVE  listener' \in [Ports -> {Nobody, Stranger} \cup (Openers \X Tunnel)]
    BY <1>3, <1>8 DEF CloudflaredExits
<1> QED
    BY <1>2, <1>3, <1>5, <1>6, <1>7, <1>8
       DEF TunnelNext, tunnelVars, BeginCommand, NextTunnel, AuthenticateTunnel, DialPort,
           StartTunnel, Answered, GivesUpWaiting, Served, CloseNext, TerminateTunnel, ReapTunnel,
           GraceOver, CancelQuery

LEMMA InvInitially == TunnelInit => TunnelInv
<1> SUFFICES ASSUME TunnelInit PROVE TunnelInv
    OBVIOUS
<1>1. TunnelTypeOK
    BY NoOpeningTyped, Unpacked DEF TunnelInit, ChildState
<1>2. ASSUME NEW o \in Openers PROVE Sound(o)
  <2>1. /\ opener[o].pc = "ended" /\ opener[o].held = {}
        /\ \A t \in Tunnel : child[o][t] = "none"
      BY NoOpeningTyped DEF TunnelInit
  <2> QED
      BY <2>1 DEF Sound, StartedKnown, OneInHand, ToldWaitedFor, EndedHoldsNothing, NeededCovered
<1> QED BY <1>1, <1>2 DEF TunnelInv

\* A step is one of a command, by itself or by a cloudflared of its, or of a stranger.
LEMMA StepOfOne ==
    ASSUME TunnelInv, TunnelNext
    PROVE  \/ \E o \in Openers : OnlyOf(o) /\ Sound(o)'
           \/ UNCHANGED <<opener, child>>
<1>1. CASE \E p \in Ports : StrangerComes(p) \/ StrangerGoes(p)
    BY <1>1 DEF StrangerComes, StrangerGoes
<1>2. ASSUME NEW o \in Openers, NEW t \in Tunnel, CloudflaredBinds(o, t)
      PROVE  (OnlyOf(o) /\ Sound(o)') \/ UNCHANGED <<opener, child>>
    BY <1>2, ExitKeeps DEF CloudflaredBinds
<1>3. ASSUME NEW o \in Openers, NEW t \in Tunnel, CloudflaredExits(o, t)
      PROVE  OnlyOf(o) /\ Sound(o)'
    BY <1>3, ExitKeeps DEF CloudflaredExits
<1> QED
    BY <1>1, <1>2, <1>3, BeginKeeps, NextKeeps, AuthenticateKeeps, DialKeeps, StartKeeps,
       AnsweredKeeps, GivesUpKeeps, ServedKeeps, CloseKeeps, TerminateKeeps, ReapKeeps,
       GraceKeeps, CancelKeeps, KillKeeps DEF TunnelNext

LEMMA InvKept == TunnelInv /\ [TunnelNext]_tunnelVars => TunnelInv'
<1> SUFFICES ASSUME TunnelInv, [TunnelNext]_tunnelVars PROVE TunnelInv'
    OBVIOUS
<1>1. listener' \in [Ports -> {Nobody, Stranger} \cup (Openers \X Tunnel)]
    BY ListenersStay DEF TunnelInv
<1>2. CASE UNCHANGED <<opener, child>>
  <2>1. ASSUME NEW o \in Openers PROVE Sound(o)'
      BY <1>2 DEF TunnelInv, Sound, StartedKnown, OneInHand, ToldWaitedFor, EndedHoldsNothing,
                  NeededCovered, Needed
  <2> QED BY <1>1, <1>2, <2>1 DEF TunnelInv, TunnelTypeOK
<1>3. ASSUME NEW o \in Openers, OnlyOf(o), Sound(o)' PROVE TunnelInv'
  <2>1. TunnelTypeOK'
      BY <1>1, <1>3 DEF OnlyOf, TunnelTypeOK, OpenerState, ChildState
  <2>2. ASSUME NEW q \in Openers \ {o} PROVE Sound(q)'
    <3>1. opener'[q] = opener[q] /\ child'[q] = child[q] /\ Sound(q)
        BY <1>3 DEF OnlyOf, TunnelInv
    <3> QED
        BY <3>1 DEF Sound, StartedKnown, OneInHand, ToldWaitedFor, EndedHoldsNothing,
                    NeededCovered, Needed
  <2> QED BY <1>3, <2>1, <2>2 DEF TunnelInv
<1>4. CASE TunnelNext
    BY <1>2, <1>3, <1>4, StepOfOne
<1> QED BY <1>2, <1>4 DEF tunnelVars

\* The invariant: what a command knows of its cloudflareds is so.
THEOREM InvAlways == TunnelSpec => []TunnelInv
BY InvInitially, InvKept, PTL DEF TunnelSpec

-----------------------------------------------------------------------------
(* The theorems *)

\* Every variable of Tunnels keeps its type, whatever commands, cloudflareds and
\* strangers do.
THEOREM TunnelTypes == TunnelSpec => []TunnelTypeOK
<1>1. TunnelInv => TunnelTypeOK
    BY DEF TunnelInv
<1> QED BY <1>1, InvAlways, PTL

\* No command that ended by itself leaves a cloudflared or a zombie, the entries of
\* one run only after all their tunnels were started, and only the command that
\* started a cloudflared tells it to stop, and waits for it (tunnel.go 61-156).
THEOREM TunnelsAccountedHolds == TunnelSpec => []TunnelsAccounted
<1>1. TunnelInv => TunnelsAccounted
  <2> SUFFICES ASSUME TunnelInv, NEW o \in Openers
               PROVE  /\ opener[o].pc = "ended" => \A t \in Tunnel : child[o][t] = "none"
                      /\ opener[o].pc = "serve" => \A t \in Needed(o) : child[o][t] # "none"
                      /\ \A t \in Tunnel : child[o][t] = "told"
                            => opener[o].pc = "reap" /\ opener[o].on = t
      BY DEF TunnelsAccounted
  <2>1. Sound(o)
      BY DEF TunnelInv
  <2> QED
      BY <2>1 DEF Sound, StartedKnown, OneInHand, ToldWaitedFor, EndedHoldsNothing, NeededCovered
<1> QED BY <1>1, InvAlways, PTL

-----------------------------------------------------------------------------
(* The cache of a git source *)

HIDE TunnelAssumption
USE FetchAssumption

CacheState == [is : {"missing", "made", "named", "fetched"}, origin : Urls \cup {NoUrl},
               head : 0..MaxTip, cloned : 0..MaxTip, branch : 0..MaxTip,
               commits : SUBSET (1..MaxTip), whole : BOOLEAN]
FetcherState == [pc : FetchPCs, up : BOOLEAN, left : 0..MaxTip]

\* The directory is d's, or that of the git it started, until the last step of the fetch.
Detaching(d) == cloner[d] = "detach" \/ fetcher[d].pc = "checkout"
Fetching(d)  == cloner[d] = "clone" \/ Detaching(d)

\* Nobody else fills a directory that is there.
OneFetches ==
    /\ \A d, e \in Fetchers : Fetching(d) /\ Fetching(e) => d = e
    /\ \A d \in Fetchers : Fetching(d) => cache.is # "missing"

\* A clone has the origin that is declared, and is done once all is fetched when it is
\* for a full commit; a checkout has HEAD still where the clone left it.
FetchesDeclared ==
    \A d \in Fetchers :
        /\ Fetching(d) /\ cache.is \in {"named", "fetched"} => cache.origin = declared.git
        /\ cloner[d] = "clone" /\ cache.is = "fetched" => ~Pinned(declared)
        /\ Detaching(d) => cache.is = "fetched" /\ Pinned(declared) /\ cache.head = cache.cloned

\* HEAD moves away from where the clone left it when all files are there, no sooner.
HeadLast ==
    /\ cache.head # cache.cloned => cache.is = "fetched" /\ cache.whole
    /\ cache.is \in {"missing", "made"} => cache.origin = NoUrl

\* The plugin works on the commit that its command found.
RunsOnPinned ==
    \A d \in Fetchers :
        fetcher[d].pc = "runs" /\ Pinned(declared) /\ declared.ref.at # fetcher[d].left =>
            /\ cache.head = declared.ref.at /\ cache.cloned = fetcher[d].left
            /\ cache.origin = declared.git

FetchInv == FetchTypeOK /\ OneFetches /\ FetchesDeclared /\ HeadLast /\ RunsOnPinned

LEMMA FetchUnpacked ==
    FetchTypeOK <=>
        /\ tip \in 1..MaxTip /\ mishaps \in 0..MaxMishaps
        /\ cache \in CacheState /\ fetcher \in [Fetchers -> FetcherState]
        /\ declared \in Sources /\ cloner \in [Fetchers -> {"none", "clone", "detach"}]
BY DEF FetchTypeOK, CacheState, FetcherState

LEMMA NoCacheTyped == NoCache \in CacheState
BY DEF NoCache, CacheState

LEMMA FetchInvInitially == FetchInit => FetchInv
<1> SUFFICES ASSUME FetchInit PROVE FetchInv
    OBVIOUS
<1>1. FetchTypeOK
    BY NoCacheTyped, FetchUnpacked DEF FetchInit, FetcherState, FetchPCs
<1>2. OneFetches /\ FetchesDeclared /\ HeadLast /\ RunsOnPinned
    BY DEF FetchInit, OneFetches, FetchesDeclared, HeadLast, RunsOnPinned, Fetching, Detaching, NoCache
<1> QED BY <1>1, <1>2 DEF FetchInv

\* A fetcher only moves.
LEMMA OnlyMoves ==
    ASSUME FetchInv, NEW d \in Fetchers,
           BeginFetch(d, TRUE) \/ BeginFetch(d, FALSE) \/ StatCache(d) \/ RunEnds(d)
    PROVE  FetchInv'
<1>0. /\ fetcher' \in [Fetchers -> FetcherState]
      /\ fetcher'[d].pc \notin {"runs", "checkout"}
      /\ \A e \in Fetchers \ {d} : fetcher'[e] = fetcher[e]
  <2> fetcher \in [Fetchers -> FetcherState]
      BY FetchUnpacked DEF FetchInv
  <2>1. ASSUME NEW pc \in {"check", "clone", "ended"}, GoesTo(d, pc) PROVE <1>0!:
      BY <2>1 DEF GoesTo, FetcherState, FetchPCs
  <2>2. ASSUME NEW up \in BOOLEAN, BeginFetch(d, up) PROVE <1>0!:
      BY <2>2 DEF BeginFetch, FetcherState, FetchPCs
  <2>3. CASE StatCache(d)
    <3>1. CASE cache.is # "missing"
        BY <2>1, <2>3, <3>1 DEF StatCache
    <3>2. CASE cache.is = "missing"
        BY <2>1, <2>3, <3>2 DEF StatCache
    <3> QED BY <3>1, <3>2
  <2> QED BY <2>1, <2>2, <2>3 DEF RunEnds
<1>1. UNCHANGED <<tip, declared, cache, cloner, mishaps>>
    BY DEF BeginFetch, StatCache, RunEnds
<1>2. FetchTypeOK'
    BY <1>0, <1>1 DEF FetchInv, FetchTypeOK, CacheState, FetcherState
<1>3. \A e \in Fetchers : (Detaching(e)' => Detaching(e)) /\ (Fetching(e)' => Fetching(e))
    BY <1>0, <1>1 DEF Fetching, Detaching
<1>4. OneFetches' /\ FetchesDeclared' /\ HeadLast'
    BY <1>1, <1>3 DEF FetchInv, OneFetches, FetchesDeclared, HeadLast
<1>5. RunsOnPinned'
    BY <1>0, <1>1 DEF FetchInv, RunsOnPinned
<1> QED BY <1>2, <1>4, <1>5 DEF FetchInv

LEMMA CheckFinds ==
    ASSUME FetchInv, NEW d \in Fetchers, CheckCache(d)
    PROVE  FetchInv'
<1>1. UNCHANGED <<tip, declared, cache, cloner, mishaps>>
    BY DEF CheckCache
<1>2. /\ fetcher' \in [Fetchers -> FetcherState]
      /\ fetcher'[d].pc \in {"runs", "ended"}
      /\ fetcher'[d].pc = "runs" => ValidCheckout(declared) /\ fetcher'[d].left = cache.cloned
      /\ \A e \in Fetchers \ {d} : fetcher'[e] = fetcher[e]
    BY DEF FetchInv, FetchTypeOK, FetcherState, CheckCache, GoesTo, PluginRuns, FetchPCs
<1>3. FetchTypeOK'
    BY <1>1, <1>2 DEF FetchInv, FetchTypeOK, CacheState, FetcherState
<1>4. \A e \in Fetchers : (Detaching(e)' => Detaching(e)) /\ (Fetching(e)' => Fetching(e))
    BY <1>1, <1>2 DEF Fetching, Detaching
<1>5. OneFetches' /\ FetchesDeclared' /\ HeadLast'
    BY <1>1, <1>4 DEF FetchInv, OneFetches, FetchesDeclared, HeadLast
<1>6. ValidCheckout(declared) /\ Pinned(declared) =>
          cache.head = declared.ref.at /\ cache.origin = declared.git
    BY DEF ValidCheckout, Pinned, RevParse
<1>7. RunsOnPinned'
    BY <1>1, <1>2, <1>6 DEF FetchInv, RunsOnPinned, Pinned
<1> QED BY <1>3, <1>5, <1>7 DEF FetchInv

LEMMA StartCloneKeeps ==
    ASSUME FetchInv, NEW d \in Fetchers, StartClone(d)
    PROVE  FetchInv'
<1>1. CASE cache.is = "missing"
  <2>1. /\ UNCHANGED <<tip, declared, mishaps>>
        /\ cache' = [NoCache EXCEPT !.is = "made"]
        /\ cloner' = [cloner EXCEPT ![d] = "clone"]
        /\ fetcher' = [fetcher EXCEPT ![d].pc = "cloning"]
      BY <1>1 DEF StartClone, GoesTo
  <2>2. cache' \in CacheState
      BY <2>1, NoCacheTyped DEF CacheState
  <2>3. /\ fetcher' \in [Fetchers -> FetcherState] /\ fetcher'[d].pc = "cloning"
        /\ \A e \in Fetchers \ {d} : fetcher'[e] = fetcher[e]
      BY <2>1 DEF FetchInv, FetchTypeOK, FetcherState, FetchPCs
  <2>4. /\ cloner' \in [Fetchers -> {"none", "clone", "detach"}] /\ cloner'[d] = "clone"
        /\ \A e \in Fetchers \ {d} : cloner'[e] = cloner[e]
      BY <2>1 DEF FetchInv, FetchTypeOK
  <2>5. FetchTypeOK'
      BY <2>1, <2>2, <2>3, <2>4 DEF FetchInv, FetchTypeOK, CacheState, FetcherState
  <2>6. \A e \in Fetchers : ~Fetching(e)
      BY <1>1 DEF FetchInv, OneFetches
  <2>7. \A e \in Fetchers : (Fetching(e)' => e = d) /\ ~Detaching(e)'
      BY <2>3, <2>4, <2>6 DEF Fetching, Detaching
  <2>8. cache'.is = "made" /\ cache'.head = 0 /\ cache'.cloned = 0 /\ cache'.origin = NoUrl
      BY <2>1 DEF NoCache
  <2>9. OneFetches' /\ FetchesDeclared' /\ HeadLast'
      BY <2>7, <2>8 DEF OneFetches, FetchesDeclared, HeadLast
  <2>10. declared.git # NoUrl
      BY DEF FetchInv, FetchTypeOK, Sources
  <2>11. \A e \in Fetchers : fetcher[e].pc = "runs" /\ Pinned(declared) => declared.ref.at = fetcher[e].left
      BY <1>1, <2>10 DEF FetchInv, RunsOnPinned, HeadLast
  <2>12. RunsOnPinned'
      BY <2>1, <2>3, <2>11 DEF RunsOnPinned, Pinned
  <2> QED BY <2>5, <2>9, <2>12 DEF FetchInv
<1>2. CASE cache.is # "missing"
  <2>1. /\ UNCHANGED <<tip, declared, cache, cloner, mishaps>>
        /\ fetcher' = [fetcher EXCEPT ![d].pc = "ended"]
      BY <1>2 DEF StartClone, GoesTo
  <2>2. /\ fetcher' \in [Fetchers -> FetcherState] /\ fetcher'[d].pc = "ended"
        /\ \A e \in Fetchers \ {d} : fetcher'[e] = fetcher[e]
      BY <2>1 DEF FetchInv, FetchTypeOK, FetcherState, FetchPCs
  <2>3. FetchTypeOK'
      BY <2>1, <2>2 DEF FetchInv, FetchTypeOK, CacheState, FetcherState
  <2>4. \A e \in Fetchers : (Detaching(e)' => Detaching(e)) /\ (Fetching(e)' => Fetching(e))
      BY <2>1, <2>2 DEF Fetching, Detaching
  <2>5. OneFetches' /\ FetchesDeclared' /\ HeadLast'
      BY <2>1, <2>4 DEF FetchInv, OneFetches, FetchesDeclared, HeadLast
  <2>6. RunsOnPinned'
      BY <2>1, <2>2 DEF FetchInv, RunsOnPinned, Pinned
  <2> QED BY <2>3, <2>5, <2>6 DEF FetchInv
<1> QED BY <1>1, <1>2

LEMMA NameOriginKeeps ==
    ASSUME FetchInv, NEW d \in Fetchers, NameOrigin(d)
    PROVE  FetchInv'
<1>1. /\ UNCHANGED <<tip, declared, fetcher, cloner, mishaps>>
      /\ cloner[d] = "clone" /\ cache.is = "made"
      /\ cache' = [cache EXCEPT !.is = "named", !.origin = declared.git]
    BY DEF NameOrigin
<1>2. cache \in CacheState /\ declared.git \in Urls
    BY DEF FetchInv, FetchTypeOK, CacheState, Sources
<1>3. /\ cache' \in CacheState
      /\ cache'.is = "named" /\ cache'.origin = declared.git
      /\ cache'.head = cache.head /\ cache'.cloned = cache.cloned
    BY <1>1, <1>2 DEF CacheState
<1>4. FetchTypeOK'
    BY <1>1, <1>3 DEF FetchInv, FetchTypeOK, CacheState
<1>5. cache.head = cache.cloned
    BY <1>1 DEF FetchInv, HeadLast
<1>6. \A e \in Fetchers : ~Detaching(e)
    BY <1>1 DEF FetchInv, FetchesDeclared
<1>7. OneFetches' /\ FetchesDeclared' /\ HeadLast'
    BY <1>1, <1>3, <1>5, <1>6
       DEF FetchInv, OneFetches, FetchesDeclared, HeadLast, Fetching, Detaching, Pinned
<1>8. RunsOnPinned'
    BY <1>1, <1>3 DEF FetchInv, RunsOnPinned, Pinned
<1> QED BY <1>4, <1>7, <1>8 DEF FetchInv

\* What git still has to write when the clone has what it fetches.
LEMMA FetchCommitsKeeps ==
    ASSUME FetchInv, NEW d \in Fetchers, FetchCommits(d)
    PROVE  FetchInv'
<1> DEFINE at == IF declared.ref.kind = "tag" THEN 1 ELSE tip
<1>1. /\ UNCHANGED <<tip, declared, mishaps>>
      /\ cloner[d] = "clone" /\ cache.is = "named"
      /\ cache' = [cache EXCEPT !.is = "fetched", !.head = at, !.cloned = at,
                                !.branch = IF declared.ref.kind = "tag" THEN 0 ELSE tip,
                                !.commits = IF Pinned(declared) THEN 1..tip ELSE {at}]
    BY DEF FetchCommits
<1>2. /\ Pinned(declared) =>
            cloner' = [cloner EXCEPT ![d] = "none"] /\ Onward(d, "checkout")
      /\ ~Pinned(declared) => UNCHANGED <<cloner, fetcher>>
    BY DEF FetchCommits
<1>3. cache \in CacheState /\ tip \in 1..MaxTip /\ cache.origin = declared.git
    BY <1>1 DEF FetchInv, FetchTypeOK, CacheState, FetchesDeclared, Fetching
<1>4. at \in 1..MaxTip /\ 1..tip \subseteq 1..MaxTip
    BY <1>3
<1>5. /\ cache' \in CacheState
      /\ cache'.is = "fetched" /\ cache'.origin = declared.git
      /\ cache'.head = at /\ cache'.cloned = at
  <2> DEFINE branch  == IF declared.ref.kind = "tag" THEN 0 ELSE tip
             commits == IF Pinned(declared) THEN 1..tip ELSE {at}
  <2>1. branch \in 0..MaxTip /\ commits \in SUBSET (1..MaxTip) /\ at \in 0..MaxTip
      BY <1>3, <1>4
  <2>2. cache' = [cache EXCEPT !.is = "fetched", !.head = at, !.cloned = at,
                               !.branch = branch, !.commits = commits]
      BY <1>1
  <2> HIDE DEF at, branch, commits
  <2> QED BY <1>3, <2>1, <2>2 DEF CacheState
<1>6. /\ cloner' \in [Fetchers -> {"none", "clone", "detach"}]
      /\ cloner'[d] = IF Pinned(declared) THEN "none" ELSE "clone"
      /\ \A e \in Fetchers \ {d} : cloner'[e] = cloner[e]
    BY <1>1, <1>2 DEF FetchInv, FetchTypeOK
<1>7. /\ fetcher' \in [Fetchers -> FetcherState]
      /\ ~Pinned(declared) => fetcher' = fetcher
      /\ Pinned(declared) => fetcher'[d].pc # "runs"
      /\ \A e \in Fetchers \ {d} : fetcher'[e] = fetcher[e]
  <2> fetcher \in [Fetchers -> FetcherState]
      BY DEF FetchInv, FetchTypeOK, FetcherState
  <2>1. CASE ~Pinned(declared)
    <3>1. fetcher' = fetcher
        BY <1>2, <2>1
    <3> QED BY <2>1, <3>1
  <2>2. CASE Pinned(declared)
    <3>1. CASE fetcher[d].pc = "dead"
      <4>1. fetcher' = fetcher
          BY <1>2, <2>2, <3>1 DEF Onward
      <4> QED BY <2>2, <3>1, <4>1
    <3>2. CASE fetcher[d].pc # "dead"
      <4>1. fetcher' = [fetcher EXCEPT ![d].pc = "checkout"]
          BY <1>2, <2>2, <3>2 DEF Onward, GoesTo
      <4> QED BY <2>2, <4>1 DEF FetcherState, FetchPCs
    <3> QED BY <3>1, <3>2
  <2> QED BY <2>1, <2>2
<1>8. FetchTypeOK'
    BY <1>1, <1>5, <1>6, <1>7 DEF FetchInv, FetchTypeOK, CacheState, FetcherState
<1>9. \A e \in Fetchers : Fetching(e) => e = d
    BY <1>1 DEF FetchInv, OneFetches, Fetching
<1>10. \A e \in Fetchers : ~Detaching(e)
    BY <1>1 DEF FetchInv, FetchesDeclared
<1>11. \A e \in Fetchers : Fetching(e)' => e = d
    BY <1>6, <1>7, <1>9 DEF Fetching, Detaching
<1>12. Detaching(d)' => Pinned(declared)
    BY <1>1, <1>2, <1>10 DEF Detaching
<1>13. OneFetches'
    BY <1>5, <1>11 DEF OneFetches
<1>14. FetchesDeclared'
    BY <1>1, <1>5, <1>6, <1>11, <1>12, <1>9 DEF FetchesDeclared, Pinned, Fetching
<1>15. HeadLast'
    BY <1>5 DEF HeadLast
<1>16. \A e \in Fetchers : fetcher[e].pc = "runs" /\ Pinned(declared) => declared.ref.at = fetcher[e].left
    BY <1>1 DEF FetchInv, RunsOnPinned, HeadLast
<1>17. RunsOnPinned'
    BY <1>1, <1>7, <1>16 DEF RunsOnPinned, Pinned
<1> QED BY <1>8, <1>13, <1>14, <1>15, <1>17 DEF FetchInv

LEMMA FillTreeKeeps ==
    ASSUME FetchInv, NEW d \in Fetchers, FillTree(d)
    PROVE  FetchInv'
<1>1. /\ UNCHANGED <<tip, declared, mishaps>>
      /\ cloner[d] = "clone" /\ cache.is = "fetched"
      /\ cache' = [cache EXCEPT !.whole = TRUE]
      /\ cloner' = [cloner EXCEPT ![d] = "none"] /\ FetchedFor(d)
    BY DEF FillTree
<1>2. /\ cache' \in CacheState /\ cache'.whole
      /\ cache'.is = cache.is /\ cache'.origin = cache.origin
      /\ cache'.head = cache.head /\ cache'.cloned = cache.cloned
    BY <1>1 DEF FetchInv, FetchTypeOK, CacheState
<1>3. ~Pinned(declared)
    BY <1>1 DEF FetchInv, FetchesDeclared
<1>4. /\ cloner' \in [Fetchers -> {"none", "clone", "detach"}] /\ cloner'[d] = "none"
      /\ \A e \in Fetchers \ {d} : cloner'[e] = cloner[e]
    BY <1>1 DEF FetchInv, FetchTypeOK
<1>5. /\ fetcher' \in [Fetchers -> FetcherState]
      /\ fetcher'[d].pc \in {"runs", fetcher[d].pc}
      /\ \A e \in Fetchers \ {d} : fetcher'[e] = fetcher[e]
    BY <1>1 DEF FetchInv, FetchTypeOK, CacheState, FetcherState, FetchedFor, PluginRuns, FetchPCs
<1>6. FetchTypeOK'
    BY <1>1, <1>2, <1>4, <1>5 DEF FetchInv, FetchTypeOK, CacheState, FetcherState
<1>7. \A e \in Fetchers : (Detaching(e)' => Detaching(e)) /\ (Fetching(e)' => Fetching(e))
    BY <1>4, <1>5 DEF Fetching, Detaching
<1>8. OneFetches'
    BY <1>2, <1>7 DEF FetchInv, OneFetches
<1>9. FetchesDeclared'
    BY <1>1, <1>2, <1>3, <1>7 DEF FetchInv, FetchesDeclared, Pinned
<1>10. HeadLast'
    BY <1>2 DEF FetchInv, HeadLast
<1>11. RunsOnPinned'
    BY <1>1, <1>3 DEF RunsOnPinned, Pinned
<1> QED BY <1>6, <1>8, <1>9, <1>10, <1>11 DEF FetchInv

LEMMA CloneFailsKeeps ==
    ASSUME FetchInv, NEW d \in Fetchers, CloneFails(d)
    PROVE  FetchInv'
<1>1. /\ UNCHANGED <<tip, declared>> /\ mishaps < MaxMishaps /\ mishaps' = mishaps + 1
      /\ cloner[d] = "clone"
      /\ cache' = IF cache.is = "fetched" THEN cache ELSE NoCache
      /\ cloner' = [cloner EXCEPT ![d] = "none"] /\ Onward(d, "ended")
    BY DEF CloneFails
<1>2. cache' \in CacheState
    BY <1>1, NoCacheTyped DEF FetchInv, FetchTypeOK, CacheState
<1>3. /\ cloner' \in [Fetchers -> {"none", "clone", "detach"}] /\ cloner'[d] = "none"
      /\ \A e \in Fetchers \ {d} : cloner'[e] = cloner[e]
    BY <1>1 DEF FetchInv, FetchTypeOK
<1>4. /\ fetcher' \in [Fetchers -> FetcherState]
      /\ fetcher'[d].pc \in {"ended", "dead"}
      /\ \A e \in Fetchers \ {d} : fetcher'[e] = fetcher[e]
    BY <1>1 DEF FetchInv, FetchTypeOK, FetcherState, Onward, GoesTo, FetchPCs
<1>5. FetchTypeOK'
    BY <1>1, <1>2, <1>3, <1>4 DEF FetchInv, FetchTypeOK, CacheState, FetcherState
<1>6. \A e \in Fetchers : Fetching(e) => e = d
    BY <1>1 DEF FetchInv, OneFetches, Fetching
<1>7. \A e \in Fetchers : ~Fetching(e)'
    BY <1>3, <1>4, <1>6 DEF Fetching, Detaching
<1>8. OneFetches' /\ FetchesDeclared'
    BY <1>3, <1>7 DEF OneFetches, FetchesDeclared, Fetching
<1>9. cache' = cache \/ (cache' = NoCache /\ cache.is # "fetched")
    BY <1>1
<1>10. HeadLast'
    BY <1>9 DEF FetchInv, HeadLast, NoCache
<1>11. \A e \in Fetchers : fetcher[e].pc = "runs" /\ Pinned(declared) /\ cache.is # "fetched" =>
            declared.ref.at = fetcher[e].left
    BY DEF FetchInv, RunsOnPinned, HeadLast
<1>12. RunsOnPinned'
    BY <1>1, <1>4, <1>9, <1>11 DEF FetchInv, RunsOnPinned, Pinned
<1> QED BY <1>5, <1>8, <1>10, <1>12 DEF FetchInv

LEMMA CheckoutKeeps ==
    ASSUME FetchInv, NEW d \in Fetchers, Checkout(d)
    PROVE  FetchInv'
<1>1. /\ UNCHANGED <<tip, declared, cache, mishaps>> /\ fetcher[d].pc = "checkout"
      /\ cloner' = [cloner EXCEPT ![d] = "detach"]
      /\ fetcher' = [fetcher EXCEPT ![d].pc = "detaching"]
    BY DEF Checkout, GoesTo
<1>2. /\ cloner' \in [Fetchers -> {"none", "clone", "detach"}] /\ cloner'[d] = "detach"
      /\ \A e \in Fetchers \ {d} : cloner'[e] = cloner[e]
    BY <1>1 DEF FetchInv, FetchTypeOK
<1>3. /\ fetcher' \in [Fetchers -> FetcherState]
      /\ fetcher'[d].pc = "detaching"
      /\ \A e \in Fetchers \ {d} : fetcher'[e] = fetcher[e]
    BY <1>1 DEF FetchInv, FetchTypeOK, FetcherState, FetchPCs
<1>4. FetchTypeOK'
    BY <1>1, <1>2, <1>3 DEF FetchInv, FetchTypeOK, CacheState, FetcherState
<1>5. \A e \in Fetchers : (Detaching(e)' => Detaching(e)) /\ (Fetching(e)' => Fetching(e))
    BY <1>1, <1>2, <1>3 DEF Fetching, Detaching
<1>6. OneFetches' /\ HeadLast'
    BY <1>1, <1>5 DEF FetchInv, OneFetches, HeadLast
<1>7. FetchesDeclared'
    BY <1>1, <1>2, <1>5 DEF FetchInv, FetchesDeclared
<1>8. RunsOnPinned'
    BY <1>1, <1>3 DEF FetchInv, RunsOnPinned, Pinned
<1> QED BY <1>4, <1>6, <1>7, <1>8 DEF FetchInv

LEMMA DetachHeadKeeps ==
    ASSUME FetchInv, NEW d \in Fetchers, DetachHead(d)
    PROVE  FetchInv'
<1>1. /\ UNCHANGED <<tip, declared, mishaps>>
      /\ cloner[d] = "detach" /\ declared.ref.at \in cache.commits
      /\ cache' = [cache EXCEPT !.head = declared.ref.at, !.whole = TRUE]
      /\ cloner' = [cloner EXCEPT ![d] = "none"] /\ FetchedFor(d)
    BY DEF DetachHead
<1>2. /\ cache \in CacheState /\ cache.is = "fetched" /\ cache.origin = declared.git
      /\ cache.head = cache.cloned /\ fetcher[d] \in FetcherState
    BY <1>1 DEF FetchInv, FetchTypeOK, CacheState, FetcherState, FetchesDeclared, Detaching, Fetching
<1>3. declared.ref.at \in 0..MaxTip
    BY <1>1, <1>2 DEF CacheState
<1>4. /\ cache' \in CacheState /\ cache'.whole
      /\ cache'.is = "fetched" /\ cache'.origin = declared.git
      /\ cache'.head = declared.ref.at /\ cache'.cloned = cache.cloned
    BY <1>1, <1>2, <1>3 DEF CacheState
<1>5. /\ cloner' \in [Fetchers -> {"none", "clone", "detach"}] /\ cloner'[d] = "none"
      /\ \A e \in Fetchers \ {d} : cloner'[e] = cloner[e]
    BY <1>1 DEF FetchInv, FetchTypeOK
<1>6. /\ fetcher' \in [Fetchers -> FetcherState]
      /\ fetcher'[d].pc = "dead" \/ (fetcher'[d].pc = "runs" /\ fetcher'[d].left = cache.cloned)
      /\ \A e \in Fetchers \ {d} : fetcher'[e] = fetcher[e]
    BY <1>1, <1>2 DEF FetchInv, FetchTypeOK, CacheState, FetcherState, FetchedFor, PluginRuns, FetchPCs
<1>7. FetchTypeOK'
    BY <1>1, <1>4, <1>5, <1>6 DEF FetchInv, FetchTypeOK, CacheState, FetcherState
<1>8. \A e \in Fetchers : Fetching(e) => e = d
    BY <1>1 DEF FetchInv, OneFetches, Fetching, Detaching
<1>9. \A e \in Fetchers : ~Fetching(e)'
    BY <1>5, <1>6, <1>8 DEF Fetching, Detaching
<1>10. OneFetches' /\ FetchesDeclared' /\ HeadLast'
    BY <1>4, <1>9 DEF OneFetches, FetchesDeclared, HeadLast, Fetching
<1>11. RunsOnPinned'
    BY <1>1, <1>2, <1>4, <1>6 DEF FetchInv, RunsOnPinned, Pinned
<1> QED BY <1>7, <1>10, <1>11 DEF FetchInv

LEMMA DetachFailsKeeps ==
    ASSUME FetchInv, NEW d \in Fetchers, DetachFails(d)
    PROVE  FetchInv'
<1>1. /\ UNCHANGED <<tip, declared>> /\ cloner[d] = "detach" /\ cache' \in {NoCache, cache}
      /\ UNCHANGED mishaps \/ (mishaps < MaxMishaps /\ mishaps' = mishaps + 1)
      /\ cloner' = [cloner EXCEPT ![d] = "none"] /\ Onward(d, "ended")
    BY DEF DetachFails
<1>2. cache' \in CacheState /\ cache.head = cache.cloned
    BY <1>1, NoCacheTyped DEF FetchInv, FetchTypeOK, CacheState, FetchesDeclared, Detaching
<1>3. /\ cloner' \in [Fetchers -> {"none", "clone", "detach"}] /\ cloner'[d] = "none"
      /\ \A e \in Fetchers \ {d} : cloner'[e] = cloner[e]
    BY <1>1 DEF FetchInv, FetchTypeOK
<1>4. /\ fetcher' \in [Fetchers -> FetcherState]
      /\ fetcher'[d].pc \in {"ended", "dead"}
      /\ \A e \in Fetchers \ {d} : fetcher'[e] = fetcher[e]
    BY <1>1 DEF FetchInv, FetchTypeOK, FetcherState, Onward, GoesTo, FetchPCs
<1>5. FetchTypeOK'
    BY <1>1, <1>2, <1>3, <1>4 DEF FetchInv, FetchTypeOK, CacheState, FetcherState
<1>6. \A e \in Fetchers : Fetching(e) => e = d
    BY <1>1 DEF FetchInv, OneFetches, Fetching, Detaching
<1>7. \A e \in Fetchers : ~Fetching(e)'
    BY <1>3, <1>4, <1>6 DEF Fetching, Detaching
<1>8. OneFetches' /\ FetchesDeclared'
    BY <1>7 DEF OneFetches, FetchesDeclared, Fetching
<1>9. HeadLast'
    BY <1>1 DEF FetchInv, HeadLast, NoCache
<1>10. \A e \in Fetchers : fetcher[e].pc = "runs" /\ Pinned(declared) => declared.ref.at = fetcher[e].left
    BY <1>2 DEF FetchInv, RunsOnPinned
<1>11. RunsOnPinned'
    BY <1>1, <1>4, <1>10 DEF RunsOnPinned, Pinned
<1> QED BY <1>5, <1>8, <1>9, <1>11 DEF FetchInv

LEMMA KillFetcherKeeps ==
    ASSUME FetchInv, NEW d \in Fetchers, KillFetcher(d)
    PROVE  FetchInv'
<1>1. /\ UNCHANGED <<tip, declared, cache>> /\ mishaps < MaxMishaps /\ mishaps' = mishaps + 1
      /\ fetcher' = [fetcher EXCEPT ![d].pc = "dead"]
      /\ cloner' = cloner \/ cloner' = [cloner EXCEPT ![d] = "none"]
    BY DEF KillFetcher, GoesTo
<1>2. /\ cloner' \in [Fetchers -> {"none", "clone", "detach"}]
      /\ \A e \in Fetchers : cloner'[e] \in {"none", cloner[e]}
    BY <1>1 DEF FetchInv, FetchTypeOK
<1>3. /\ fetcher' \in [Fetchers -> FetcherState]
      /\ fetcher'[d].pc = "dead"
      /\ \A e \in Fetchers \ {d} : fetcher'[e] = fetcher[e]
    BY <1>1 DEF FetchInv, FetchTypeOK, FetcherState, FetchPCs
<1>4. FetchTypeOK'
    BY <1>1, <1>2, <1>3 DEF FetchInv, FetchTypeOK, CacheState, FetcherState
<1>5. \A e \in Fetchers : (Detaching(e)' => Detaching(e)) /\ (Fetching(e)' => Fetching(e))
    BY <1>2, <1>3 DEF Fetching, Detaching
<1>6. OneFetches' /\ HeadLast'
    BY <1>1, <1>5 DEF FetchInv, OneFetches, HeadLast
<1>7. FetchesDeclared'
    BY <1>1, <1>2, <1>5 DEF FetchInv, FetchesDeclared
<1>8. RunsOnPinned'
    BY <1>1, <1>3 DEF FetchInv, RunsOnPinned, Pinned
<1> QED BY <1>4, <1>6, <1>7, <1>8 DEF FetchInv

\* What is declared, and the directory, change only when no command is at work.
LEMMA QuietChanges ==
    ASSUME FetchInv, Quiet, UNCHANGED <<tip, fetcher, cloner, mishaps>>,
           declared' \in Sources, cache' \in {cache, NoCache}
    PROVE  FetchInv'
<1>1. cache' \in CacheState
    BY NoCacheTyped DEF FetchInv, FetchTypeOK, CacheState
<1>2. FetchTypeOK'
    BY <1>1 DEF FetchInv, FetchTypeOK, CacheState
<1>3. \A e \in Fetchers : ~Fetching(e)' /\ fetcher'[e].pc # "runs"
    BY DEF Quiet, Fetching, Detaching
<1>4. OneFetches' /\ FetchesDeclared' /\ RunsOnPinned'
    BY <1>3 DEF OneFetches, FetchesDeclared, RunsOnPinned, Fetching
<1>5. HeadLast'
    BY DEF FetchInv, HeadLast, NoCache
<1> QED BY <1>2, <1>4, <1>5 DEF FetchInv

LEMMA FetchInvKept == FetchInv /\ [FetchNext]_fetchVars => FetchInv'
<1> SUFFICES ASSUME FetchInv, [FetchNext]_fetchVars PROVE FetchInv'
    OBVIOUS
<1>1. CASE UpstreamPush
  <2>1. UNCHANGED <<declared, cache, fetcher, cloner, mishaps>> /\ tip' \in 1..MaxTip
      BY <1>1 DEF UpstreamPush, FetchInv, FetchTypeOK
  <2> QED
      BY <2>1 DEF FetchInv, FetchTypeOK, OneFetches, FetchesDeclared, HeadLast, RunsOnPinned,
                  Fetching, Detaching, Pinned
<1>2. CASE UNCHANGED fetchVars
    BY <1>2 DEF fetchVars, FetchInv, FetchTypeOK, OneFetches, FetchesDeclared, HeadLast, RunsOnPinned,
                Fetching, Detaching, Pinned
<1>3. CASE RemoveCache
    BY <1>3, QuietChanges DEF RemoveCache, FetchInv, FetchTypeOK
<1>4. ASSUME NEW src \in Sources, EditSource(src) PROVE FetchInv'
    BY <1>4, QuietChanges DEF EditSource
<1>5. ASSUME NEW d \in Fetchers, NEW up \in BOOLEAN, BeginFetch(d, up) PROVE FetchInv'
    BY <1>5, OnlyMoves
<1> QED
    BY <1>1, <1>2, <1>3, <1>4, <1>5, OnlyMoves, CheckFinds, StartCloneKeeps, NameOriginKeeps,
       FetchCommitsKeeps, FillTreeKeeps, CloneFailsKeeps, CheckoutKeeps, DetachHeadKeeps,
       DetachFailsKeeps, KillFetcherKeeps DEF FetchNext

\* The invariant: one command at a time fills the cache, and HEAD moves last.
THEOREM FetchInvAlways == FetchSpec => []FetchInv
BY FetchInvInitially, FetchInvKept, PTL DEF FetchSpec

\* Every variable of SourceFetch keeps its type, whoever fetches, dies or edits.
THEOREM FetchTypes == FetchSpec => []FetchTypeOK
<1>1. FetchInv => FetchTypeOK
    BY DEF FetchInv
<1> QED BY <1>1, FetchInvAlways, PTL

\* While a plugin works on a source pinned to a full commit, other than the one a clone
\* left HEAD at, the cache is that commit of that repository, with all its files
\* (source_fetch.go 79-84, 112-149).
THEOREM PinnedSourceStaysHolds == FetchSpec => []PinnedSourceStays
<1>1. FetchInv => PinnedSourceStays
    BY DEF FetchInv, RunsOnPinned, HeadLast, PinnedSourceStays
<1> QED BY <1>1, FetchInvAlways, PTL

-----------------------------------------------------------------------------
(* Following the names in plans *)

Walks(f, links, n, most) ==
    f = [d \in 0..most |-> IF d = 0 THEN n
                            ELSE IF f[d - 1] \in DOMAIN links THEN links[f[d - 1]] ELSE None]

\* Follow is defined everywhere: a way can always be made longer.
LEMMA FollowExists ==
    ASSUME NEW links, NEW n, NEW most \in Nat
    PROVE  \E f : Walks(f, links, n, most)
<1> DEFINE To(v) == IF v \in DOMAIN links THEN links[v] ELSE None
           Way(f, m) == f = [d \in 0..m |-> IF d = 0 THEN n ELSE To(f[d - 1])]
           Stuck == {m \in Nat : ~\E f : Way(f, m)}
<1>0. \A m : \A f : Walks(f, links, n, m) <=> Way(f, m)
    BY DEF Walks
<1> HIDE DEF To
<1>s. Stuck = {} => \E f : Walks(f, links, n, most)
  <2> HIDE DEF Way
  <2> QED BY <1>0
<1> SUFFICES ASSUME Stuck # {} PROVE FALSE
    BY <1>s
<1>1. PICK m \in Stuck : \A k \in Stuck : m <= k
  <2>1. Stuck \subseteq Nat
      OBVIOUS
  <2> QED BY <2>1, NatHasFirst
<1>2. m \in Nat /\ ~\E f : Way(f, m)
    BY <1>1
<1>3. m # 0
  <2> DEFINE g == [d \in 0..0 |-> n]
  <2>1. Way(g, 0)
      OBVIOUS
  <2> QED BY <1>2, <2>1
<1>4. PICK f : Way(f, m - 1)
  <2>1. m - 1 \in Nat /\ ~(m <= m - 1)
      BY <1>2, <1>3
  <2> QED BY <1>1, <2>1
<1> DEFINE g == [d \in 0..m |-> IF d = m THEN To(f[m - 1]) ELSE f[d]]
<1>5. f[0] = n /\ \A d \in 1..(m - 1) : f[d] = To(f[d - 1])
  <2> DEFINE h == [d \in 0..(m - 1) |-> IF d = 0 THEN n ELSE To(f[d - 1])]
  <2>1. h[0] = n /\ \A d \in 1..(m - 1) : h[d] = To(f[d - 1])
      BY <1>2, <1>3
  <2>2. f = h
      BY <1>4
  <2> HIDE DEF h
  <2> QED BY <2>1, <2>2
<1>6. \A d \in 0..m : g[d] = IF d = 0 THEN n ELSE To(g[d - 1])
  <2> SUFFICES ASSUME NEW d \in 0..m PROVE g[d] = IF d = 0 THEN n ELSE To(g[d - 1])
      OBVIOUS
  <2>1. CASE d = 0
      BY <1>2, <1>3, <1>5, <2>1
  <2>2. CASE d = m
      BY <1>2, <1>3, <2>2
  <2>3. CASE d \in 1..(m - 1)
      BY <1>2, <1>5, <2>3
  <2> QED BY <1>2, <2>1, <2>2, <2>3
<1>7. Way(g, m)
    BY <1>6
<1> QED BY <1>2, <1>7

\* What Follow is: each place is the one the link before leads to.
LEMMA FollowIs ==
    ASSUME NEW links, NEW n, NEW most \in Nat
    PROVE  /\ Follow(links, n, most)[0] = n
           /\ \A d \in 1..most :
                 Follow(links, n, most)[d] =
                     IF Follow(links, n, most)[d - 1] \in DOMAIN links
                     THEN links[Follow(links, n, most)[d - 1]] ELSE None
<1>1. Follow(links, n, most) = CHOOSE f : Walks(f, links, n, most)
    BY DEF Follow, Walks
<1>2. \E f : Walks(f, links, n, most)
    BY FollowExists
<1>3. Walks(Follow(links, n, most), links, n, most)
    BY <1>1, <1>2
<1> DEFINE at == Follow(links, n, most)
           h == [d \in 0..most |-> IF d = 0 THEN n
                                ELSE IF at[d - 1] \in DOMAIN links THEN links[at[d - 1]] ELSE None]
<1>4. h[0] = n /\ \A d \in 1..most : h[d] = IF at[d - 1] \in DOMAIN links THEN links[at[d - 1]] ELSE None
    OBVIOUS
<1>5. at = h
    BY <1>3 DEF Walks
<1> HIDE DEF h
<1> QED BY <1>4, <1>5

\* Two ways that agree at one place and have the same links from there on go on together.
LEMMA SameWay ==
    ASSUME NEW links, NEW n, NEW most \in Nat, NEW links2, NEW n2, NEW most2 \in Nat,
           NEW s \in Nat, NEW far \in Nat, s + far <= most, far <= most2,
           Follow(links, n, most)[s] = n2,
           \A d \in 0..(far - 1) :
              LET v == Follow(links2, n2, most2)[d]
              IN  /\ v \in DOMAIN links <=> v \in DOMAIN links2
                  /\ v \in DOMAIN links => links[v] = links2[v]
    PROVE  \A d \in 0..far : Follow(links, n, most)[s + d] = Follow(links2, n2, most2)[d]
<1> DEFINE at == Follow(links, n, most)
           bt == Follow(links2, n2, most2)
           Apart == {d \in 0..far : at[s + d] # bt[d]}
<1>1. /\ \A d \in 1..most : at[d] = IF at[d - 1] \in DOMAIN links THEN links[at[d - 1]] ELSE None
      /\ bt[0] = n2
      /\ \A d \in 1..most2 : bt[d] = IF bt[d - 1] \in DOMAIN links2 THEN links2[bt[d - 1]] ELSE None
    BY FollowIs
<1>2. at[s] = n2 /\ \A d \in 0..(far - 1) :
         /\ bt[d] \in DOMAIN links <=> bt[d] \in DOMAIN links2
         /\ bt[d] \in DOMAIN links => links[bt[d]] = links2[bt[d]]
    OBVIOUS
<1> HIDE DEF at, bt
<1> SUFFICES ASSUME Apart # {} PROVE FALSE
    BY DEF at, bt
<1>3. PICK d \in Apart : \A k \in Apart : d <= k
  <2>1. Apart \subseteq Nat
      OBVIOUS
  <2> QED BY <2>1, NatHasFirst
<1>4. d \in 0..far /\ at[s + d] # bt[d]
    BY <1>3
<1>5. d # 0
    BY <1>1, <1>2, <1>4
<1>6. at[s + (d - 1)] = bt[d - 1]
  <2>1. d - 1 \in 0..far /\ ~(d <= d - 1)
      BY <1>4, <1>5
  <2> QED BY <1>3, <2>1
<1>7. s + d \in 1..most /\ d \in 1..most2 /\ d - 1 \in 0..(far - 1) /\ (s + d) - 1 = s + (d - 1)
    BY <1>4, <1>5
<1>8. /\ at[s + d] = IF at[s + (d - 1)] \in DOMAIN links THEN links[at[s + (d - 1)]] ELSE None
      /\ bt[d] = IF bt[d - 1] \in DOMAIN links2 THEN links2[bt[d - 1]] ELSE None
    BY <1>1, <1>7
<1>9. /\ bt[d - 1] \in DOMAIN links <=> bt[d - 1] \in DOMAIN links2
      /\ bt[d - 1] \in DOMAIN links => links[bt[d - 1]] = links2[bt[d - 1]]
    BY <1>2, <1>7
<1> QED BY <1>4, <1>6, <1>8, <1>9

\* A way that has come to an end has nothing behind it.
LEMMA NothingBehind ==
    ASSUME NEW links, NEW n, NEW most \in Nat, None \notin DOMAIN links,
           NEW d \in 0..most, NEW k \in 0..most, d < k,
           \/ Follow(links, n, most)[d] \notin DOMAIN links
           \/ links[Follow(links, n, most)[d]] = None
    PROVE  Follow(links, n, most)[k] = None
<1> DEFINE at == Follow(links, n, most)
           Wrong == {j \in (d + 1)..most : at[j] # None}
<1>1. \A j \in 1..most : at[j] = IF at[j - 1] \in DOMAIN links THEN links[at[j - 1]] ELSE None
    BY FollowIs
<1>2. at[d] \notin DOMAIN links \/ links[at[d]] = None
    OBVIOUS
<1> HIDE DEF at
<1>3. Wrong = {}
  <2> SUFFICES ASSUME Wrong # {} PROVE FALSE
      OBVIOUS
  <2>1. PICK j \in Wrong : \A i \in Wrong : j <= i
    <3>1. Wrong \subseteq Nat
        OBVIOUS
    <3> QED BY <3>1, NatHasFirst
  <2>2. j \in 1..most /\ j > d /\ at[j] # None /\ at[j - 1] \in DOMAIN links /\ links[at[j - 1]] # None
    <3>1. j \in 1..most /\ j > d /\ at[j] # None
        BY <2>1
    <3> QED BY <1>1, <3>1
  <2>3. j - 1 # d
      BY <1>2, <2>2
  <2>4. j - 1 \in (d + 1)..most /\ ~(j <= j - 1)
      BY <2>2, <2>3
  <2>5. at[j - 1] = None
      BY <2>1, <2>4
  <2> QED BY <2>2, <2>5
<1>4. k \in (d + 1)..most
    OBVIOUS
<1> QED BY <1>3, <1>4 DEF at

\* So it ends once.
LEMMA EndsOnce ==
    ASSUME NEW links, NEW n, NEW most \in Nat, None \notin DOMAIN links,
           NEW j \in 0..most, NEW k \in 0..most,
           Follow(links, n, most)[j] \in DOMAIN links, links[Follow(links, n, most)[j]] = None,
           Follow(links, n, most)[k] \in DOMAIN links, links[Follow(links, n, most)[k]] = None
    PROVE  j = k
<1>1. ~(j < k) /\ ~(k < j)
    BY NothingBehind
<1> QED BY <1>1

\* and before its end it is never out of the links.
LEMMA InsideBefore ==
    ASSUME NEW links, NEW n, NEW most \in Nat, None \notin DOMAIN links,
           NEW d \in 0..most, Follow(links, n, most)[d] # None, NEW k \in 0..(d - 1)
    PROVE  Follow(links, n, most)[k] \in DOMAIN links /\ links[Follow(links, n, most)[k]] # None
<1>1. k \in 0..most /\ k < d
    OBVIOUS
<1> QED BY <1>1, NothingBehind

-----------------------------------------------------------------------------
(* What a name stands for *)

\* The concrete plan an alias leads to, and how far away it is.
LEMMA AliasLeads ==
    ASSUME NEW book, NEW n, None \notin DOMAIN book, ResolvePlanAlias(book, n) # None
    PROVE  \E d \in 0..(MaxAlias - 1) :
              /\ AliasAt(book, n)[d] = ResolvePlanAlias(book, n)
              /\ Concrete(book, ResolvePlanAlias(book, n))
<1> DEFINE found == {d \in 0..(MaxAlias - 1) : Concrete(book, AliasAt(book, n)[d])}
           d == CHOOSE e \in found : TRUE
<1>1. found # {} /\ ResolvePlanAlias(book, n) = AliasAt(book, n)[d]
    BY DEF ResolvePlanAlias
<1>2. d \in found
    BY <1>1
<1> QED BY <1>1, <1>2

\* Whatever concrete plan is that near is the one.
LEMMA AliasFinds ==
    ASSUME NEW book, NEW n, None \notin DOMAIN book, NEW d \in 0..(MaxAlias - 1),
           Concrete(book, AliasAt(book, n)[d])
    PROVE  ResolvePlanAlias(book, n) = AliasAt(book, n)[d]
<1> DEFINE found == {e \in 0..(MaxAlias - 1) : Concrete(book, AliasAt(book, n)[e])}
           f == CHOOSE e \in found : TRUE
<1>1. found # {} /\ f \in found
    OBVIOUS
<1>2. ResolvePlanAlias(book, n) = AliasAt(book, n)[f]
    BY <1>1 DEF ResolvePlanAlias
<1>3. f \in 0..(MaxAlias - 1) /\ Concrete(book, AliasAt(book, n)[f])
    BY <1>1
<1> HIDE DEF f, found
<1>4. f = d
  <2>1. DOMAIN AliasesOf(book) = DOMAIN book /\ \A m \in DOMAIN book : AliasesOf(book)[m] = book[m].alias
      BY DEF AliasesOf
  <2>2. MaxAlias \in Nat /\ d \in 0..MaxAlias /\ f \in 0..MaxAlias
      BY <1>3, ResolveAssumption
  <2>3. /\ AliasAt(book, n)[d] \in DOMAIN AliasesOf(book) /\ AliasesOf(book)[AliasAt(book, n)[d]] = None
        /\ AliasAt(book, n)[f] \in DOMAIN AliasesOf(book) /\ AliasesOf(book)[AliasAt(book, n)[f]] = None
      BY <1>3, <2>1 DEF Concrete
  <2> QED BY <2>1, <2>2, <2>3, EndsOnce DEF AliasAt
<1> QED BY <1>2, <1>4

\* A plan that is no alias stands for itself.
LEMMA AliasOfConcrete ==
    ASSUME NEW book, NEW n, None \notin DOMAIN book, Concrete(book, n)
    PROVE  ResolvePlanAlias(book, n) = n
<1>1. 0 \in 0..(MaxAlias - 1) /\ MaxAlias \in Nat
    BY ResolveAssumption
<1>2. AliasAt(book, n)[0] = n
    BY <1>1, FollowIs DEF AliasAt
<1> QED BY <1>1, <1>2, AliasFinds

-----------------------------------------------------------------------------
(* What validation promises *)

\* What the resolution of entries can end in.
LEMMA EntriesEnd ==
    ASSUME NEW there, NEW q
    PROVE  LET r == ResolveEntries(there, q)
           IN  /\ r.error \in {"environment", "site", "stack_ref", "runner", "waves", "none"}
               /\ r.error = "environment" => q.environment \notin Environments[q.owner] \cup {None}
               /\ r.error = "none" =>
                    /\ r.owner = q.owner /\ r.composes = (q.composes # {})
                    /\ {e[1] : e \in r.entries} \cup r.skipped = DOMAIN q.entries
<1> DEFINE o == q.owner
           all == DOMAIN q.entries
           gone == {e \in all : Skipped(there, o, q, e)}
           kept == all \ gone
           full == [error |-> "none", owner |-> o, skipped |-> gone, composes |-> q.composes # {},
                    entries |-> {<<e, RunnerOf(o, q, e)>> : e \in kept}]
           r == ResolveEntries(there, q)
<1>1. {e[1] : e \in full.entries} \cup full.skipped = all
  <2> DEFINE started == {<<e, RunnerOf(o, q, e)>> : e \in kept}
  <2>1. \A e \in kept : <<e, RunnerOf(o, q, e)>>[1] = e
      OBVIOUS
  <2>2. {x[1] : x \in started} = kept
    <3>1. ASSUME NEW e \in kept PROVE e \in {x[1] : x \in started}
      <4>1. <<e, RunnerOf(o, q, e)>> \in started /\ <<e, RunnerOf(o, q, e)>>[1] = e
          BY <3>1
      <4> HIDE DEF started
      <4> QED BY <4>1
    <3>2. ASSUME NEW x \in started PROVE x[1] \in kept
        BY <2>1
    <3> QED BY <3>1, <3>2
  <2>3. full.entries = started /\ full.skipped = gone
      OBVIOUS
  <2>4. kept \cup gone = all
      OBVIOUS
  <2> HIDE DEF started, full, kept, gone
  <2> QED BY <2>2, <2>3, <2>4
<1>2. /\ full.error = "none" /\ full.owner = q.owner /\ full.composes = (q.composes # {})
      /\ \A w : Failed(w).error = w
    BY DEF Failed
<1> HIDE DEF full
<1>3. \/ r = Failed("environment") /\ q.environment \notin Environments[q.owner] \cup {None}
      \/ r \in {Failed("site"), Failed("stack_ref"), Failed("runner"), Failed("waves")}
      \/ r = full
    BY DEF ResolveEntries, full
<1> HIDE DEF r
<1> QED BY <1>1, <1>2, <1>3 DEF r

\* An alias that passes validation leads to a plan, but for the one length.
LEMMA ValidAlias ==
    ASSUME None \notin DOMAIN plans, NEW n \in DOMAIN plans, PlanValid(n),
           ResolvePlanAlias(plans, n) = None
    PROVE  LongAlias(n)
<1> DEFINE links == AliasesOf(plans)
           target == plans[n].alias
<1>1. MaxAlias \in Nat \ {0} /\ DOMAIN links = DOMAIN plans /\ links[n] = target
    BY ResolveAssumption DEF AliasesOf
<1>2. \A d \in 0..(MaxAlias - 1) : ~Concrete(plans, AliasAt(plans, n)[d])
  <2> SUFFICES ASSUME NEW d \in 0..(MaxAlias - 1), Concrete(plans, AliasAt(plans, n)[d]) PROVE FALSE
      OBVIOUS
  <2>1. AliasAt(plans, n)[d] = None
      BY AliasFinds
  <2> QED BY <2>1 DEF Concrete
<1>3. /\ AliasAt(plans, n)[0] = n /\ AliasAt(plans, n)[1] = target
      /\ Follow(links, n, MaxAlias)[1] = target
  <2>1. 1 \in 1..MaxAlias /\ 1 - 1 = 0
      BY <1>1
  <2>2. Follow(links, n, MaxAlias)[0] = n /\ Follow(links, n, MaxAlias)[1] = links[n]
      BY <1>1, <2>1, FollowIs
  <2> QED BY <1>1, <2>2 DEF AliasAt
<1>4. target # None
    BY <1>1, <1>2, <1>3 DEF Concrete
<1>5. PICK d \in 0..(MaxAlias - 1) : Concrete(plans, AliasAt(plans, target)[d])
    BY <1>4 DEF PlanValid, AliasValid
<1>6. AliasAt(plans, n)[1 + d] = AliasAt(plans, target)[d]
  <2>1. MaxAlias \in Nat /\ 1 \in Nat /\ d \in Nat /\ 1 + d <= MaxAlias /\ d <= MaxAlias /\ d \in 0..d
      BY <1>1, <1>5
  <2>2. \A e \in 0..d : Follow(links, n, MaxAlias)[1 + e] = Follow(links, target, MaxAlias)[e]
      BY <1>3, <2>1, SameWay
  <2> QED BY <2>1, <2>2 DEF AliasAt
<1>7. 1 + d \in 0..(MaxAlias - 1) \/ 1 + d = MaxAlias
    BY <1>1, <1>5
<1> QED BY <1>2, <1>5, <1>6, <1>7 DEF LongAlias

\* The parents of a plan that passes validation are found, each under its own name.
LEMMA ValidExtends ==
    ASSUME None \notin DOMAIN plans, NEW n \in DOMAIN plans, plans[n].extends # None, ExtendsValid(n)
    PROVE  /\ plans[n].composes = {} /\ plans[n].extends # n
           /\ ResolvePlanAlias(plans, plans[n].extends) = plans[n].extends
           /\ plans[n].extends \in DOMAIN plans
           /\ ParentsSound(plans, plans[n])
<1> DEFINE ext == [m \in DOMAIN plans |-> plans[m].extends]
           up == Follow(ext, n, MaxExtends)
           first == plans[n].extends
           bt == Follow(ext, first, MaxExtends - 1)
           at == ParentAt(plans, plans[n])
           Tops == {l \in 1..MaxExtends :
                      /\ \A d \in 1..l : Concrete(plans, up[d]) /\ plans[up[d]].composes = {}
                      /\ plans[up[l]].extends = None}
<1>1. /\ MaxExtends \in Nat \ {0} /\ MaxExtends - 1 \in Nat /\ DOMAIN ext = DOMAIN plans
      /\ \A m \in DOMAIN plans : ext[m] = plans[m].extends
    BY ResolveAssumption
<1>2. Tops # {} /\ plans[n].composes = {}
    BY DEF ExtendsValid
<1>3. PICK last \in Tops : \A l \in Tops : last <= l
  <2>1. Tops \subseteq Nat
      OBVIOUS
  <2> QED BY <1>2, <2>1, NatHasFirst
<1>4. /\ last \in 1..MaxExtends /\ plans[up[last]].extends = None
      /\ \A d \in 1..last : Concrete(plans, up[d]) /\ plans[up[d]].composes = {}
    BY <1>3
<1>5. \A d \in 1..(last - 1) : plans[up[d]].extends # None
  <2> SUFFICES ASSUME NEW d \in 1..(last - 1), plans[up[d]].extends = None PROVE FALSE
      OBVIOUS
  <2>1. d \in 1..MaxExtends /\ ~(last <= d) /\ \A e \in 1..d : e \in 1..last
      BY <1>1, <1>4
  <2>2. d \in Tops
      BY <1>4, <2>1
  <2> QED BY <1>3, <2>1, <2>2
<1>6. /\ up[0] = n /\ up[1] = first
      /\ \A d \in 1..MaxExtends : up[d] = IF up[d - 1] \in DOMAIN ext THEN ext[up[d - 1]] ELSE None
  <2>1. /\ up[0] = n
        /\ \A d \in 1..MaxExtends : up[d] = IF up[d - 1] \in DOMAIN ext THEN ext[up[d - 1]] ELSE None
      BY <1>1, FollowIs
  <2>2. 1 \in 1..MaxExtends /\ 1 - 1 = 0
      BY <1>1
  <2> HIDE DEF up, ext
  <2>3. up[1] = ext[n]
      BY <1>1, <2>1, <2>2
  <2> QED BY <1>1, <2>1, <2>3
<1>7. \A d \in 0..(last - 1) : up[1 + d] = bt[d]
  <2>1. /\ MaxExtends \in Nat /\ 1 \in Nat /\ last - 1 \in Nat
        /\ 1 + (last - 1) <= MaxExtends /\ last - 1 <= MaxExtends - 1
      BY <1>1, <1>4
  <2>2. Follow(ext, n, MaxExtends)[1] = first
      BY <1>6
  <2> HIDE DEF ext
  <2> QED BY <1>1, <2>1, <2>2, SameWay
<1> HIDE DEF up, bt, ext
<1>8. Concrete(plans, first) /\ first # n
  <2>1. Concrete(plans, first)
    <3>1. 1 \in 1..last
        BY <1>4
    <3> QED BY <1>4, <1>6, <3>1
  <2>2. first # n
    <3> SUFFICES ASSUME first = n PROVE FALSE
        OBVIOUS
    <3>1. \A d \in 0..(last - 1) : up[1 + d] = up[d]
      <4>1. /\ MaxExtends \in Nat /\ 1 \in Nat /\ last - 1 \in Nat
            /\ 1 + (last - 1) <= MaxExtends /\ last - 1 <= MaxExtends
          BY <1>1, <1>4
      <4>2. Follow(ext, n, MaxExtends)[1] = n
          BY <1>6 DEF up
      <4> QED BY <1>1, <4>1, <4>2, SameWay DEF up
    <3>2. up[last] = up[last - 1]
      <4>1. last - 1 \in 0..(last - 1) /\ 1 + (last - 1) = last
          BY <1>4
      <4> QED BY <3>1, <4>1
    <3>3. last - 1 \in 1..(last - 1) \/ last - 1 = 0
        BY <1>4
    <3> QED BY <1>4, <1>5, <1>6, <3>2, <3>3
  <2> QED BY <2>1, <2>2
<1>9. ResolvePlanAlias(plans, first) = first
    BY <1>8, AliasOfConcrete
<1>10. \A d \in 0..(last - 1) : at[d] = bt[d]
  <2> DEFINE par == ParentsOf(plans)
  <2>1. DOMAIN par = DOMAIN plans /\ \A m \in DOMAIN plans : par[m] = ResolvePlanAlias(plans, plans[m].extends)
      BY DEF ParentsOf
  <2>2. \A d \in 0..(last - 2) : bt[d] \in DOMAIN plans /\ par[bt[d]] = ext[bt[d]]
    <3> SUFFICES ASSUME NEW d \in 0..(last - 2) PROVE bt[d] \in DOMAIN plans /\ par[bt[d]] = ext[bt[d]]
        OBVIOUS
    <3>1. /\ d \in 0..(last - 1) /\ 1 + d \in 1..last /\ 2 + d \in 1..last /\ 2 + d \in 1..MaxExtends
          /\ (2 + d) - 1 = 1 + d
        BY <1>1, <1>4
    <3>2. bt[d] = up[1 + d] /\ Concrete(plans, up[1 + d]) /\ Concrete(plans, up[2 + d])
        BY <1>4, <1>7, <3>1
    <3>3. up[2 + d] = plans[bt[d]].extends /\ bt[d] \in DOMAIN plans
        BY <1>1, <1>6, <3>1, <3>2 DEF Concrete
    <3> QED BY <1>1, <2>1, <3>2, <3>3, AliasOfConcrete
  <2>3. at = Follow(par, first, MaxExtends - 1)
      BY <1>9 DEF ParentAt
  <2>4. /\ MaxExtends - 1 \in Nat /\ 0 \in Nat /\ last - 1 \in Nat /\ 0 + (last - 1) <= MaxExtends - 1
        /\ last - 1 <= MaxExtends - 1 /\ (last - 1) - 1 = last - 2
      BY <1>1, <1>4
  <2>5. Follow(par, first, MaxExtends - 1)[0] = first
      BY <1>1, FollowIs
  <2>6. \A d \in 0..(last - 1) :
           Follow(par, first, MaxExtends - 1)[0 + d] = Follow(ext, first, MaxExtends - 1)[d]
    <3> HIDE DEF par
    <3>1. \A d \in 0..((last - 1) - 1) :
             LET v == Follow(ext, first, MaxExtends - 1)[d]
             IN  /\ v \in DOMAIN par <=> v \in DOMAIN ext
                 /\ v \in DOMAIN par => par[v] = ext[v]
        BY <1>1, <2>1, <2>2, <2>4 DEF bt
    <3> QED BY <2>4, <2>5, <3>1, SameWay
  <2>7. \A d \in 0..(last - 1) : 0 + d = d
      BY <2>4
  <2> QED BY <2>3, <2>6, <2>7 DEF bt
<1> HIDE DEF at
<1>11. \A d \in 0..(last - 1) : at[d] = up[1 + d] /\ 1 + d \in 1..last
    BY <1>4, <1>7, <1>10
<1>12. ParentsSound(plans, plans[n])
  <2>1. \A d \in 0..(last - 1) : at[d] # None /\ plans[at[d]].composes = {}
      BY <1>4, <1>11 DEF Concrete
  <2>2. \A d \in 0..((last - 1) - 1) : plans[at[d]].extends # None
    <3>1. \A d \in 0..((last - 1) - 1) : d \in 0..(last - 1) /\ 1 + d \in 1..(last - 1)
        BY <1>4
    <3> QED BY <1>5, <1>11, <3>1
  <2>3. plans[at[last - 1]].extends = None
    <3>1. last - 1 \in 0..(last - 1) /\ 1 + (last - 1) = last
        BY <1>4
    <3> QED BY <1>4, <1>11, <3>1
  <2>4. last - 1 \in 0..(MaxExtends - 1)
      BY <1>1, <1>4
  <2> QED BY <2>1, <2>2, <2>3, <2>4 DEF ParentsSound, at
<1> QED BY <1>2, <1>8, <1>9, <1>12 DEF Concrete

-----------------------------------------------------------------------------
(* What a comparison finds *)

\* resolveCompareAlias never leads elsewhere than ResolvePlanAlias.
LEMMA CompareAgrees ==
    ASSUME None \notin DOMAIN plans, IsFiniteSet(DOMAIN plans), NEW n, ResolvePlanAlias(plans, n) # None
    PROVE  CompareAlias(n) \in {ResolvePlanAlias(plans, n), None}
<1> DEFINE most == Cardinality(DOMAIN plans)
           leaves == {m \in DOMAIN plans : plans[m].composes = {}}
           links == [m \in leaves |-> plans[m].alias]
           at == Follow(links, n, most)
           found == {d \in 0..most : at[d] \in leaves /\ plans[at[d]].alias = None}
           d == CHOOSE e \in found : TRUE
           name == ResolvePlanAlias(plans, n)
           all == AliasesOf(plans)
<1>1. /\ most \in Nat /\ DOMAIN links = leaves /\ None \notin leaves
      /\ \A m \in leaves : links[m] = plans[m].alias
      /\ DOMAIN all = DOMAIN plans /\ \A m \in DOMAIN plans : all[m] = plans[m].alias
      /\ MaxAlias \in Nat \ {0}
    BY FS_CardinalityType, ResolveAssumption DEF AliasesOf
<1>2. CompareAlias(n) = IF found = {} THEN None ELSE at[d]
    BY DEF CompareAlias
<1> SUFFICES ASSUME found # {} PROVE at[d] = name
    BY <1>2
<1>3. d \in 0..most /\ at[d] \in leaves /\ plans[at[d]].alias = None
  <2>1. d \in found
      OBVIOUS
  <2> QED BY <2>1
<1> HIDE DEF found, d
<1>4. PICK c \in 0..(MaxAlias - 1) : AliasAt(plans, n)[c] = name /\ Concrete(plans, name)
    BY AliasLeads
<1> DEFINE near == IF d <= c THEN d ELSE c
<1>5. near \in Nat /\ near \in 0..most /\ near \in 0..MaxAlias /\ near <= d /\ near <= c
    BY <1>1, <1>3, <1>4
<1> HIDE DEF near
<1>6. \A e \in 0..near : Follow(all, n, MaxAlias)[e] = at[e]
  <2>1. \A e \in 0..(near - 1) :
           LET v == Follow(links, n, most)[e]
           IN  /\ v \in DOMAIN all <=> v \in DOMAIN links
               /\ v \in DOMAIN all => all[v] = links[v]
    <3> SUFFICES ASSUME NEW e \in 0..(near - 1)
                 PROVE  at[e] \in leaves /\ all[at[e]] = links[at[e]] /\ at[e] \in DOMAIN all
        BY <1>1
    <3>1. e \in 0..(d - 1)
        BY <1>3, <1>5
    <3>2. at[d] # None
        BY <1>1, <1>3
    <3> HIDE DEF links
    <3>3. at[e] \in DOMAIN links
        BY <1>1, <1>3, <3>1, <3>2, InsideBefore
    <3> QED BY <1>1, <3>3
  <2>2. Follow(all, n, MaxAlias)[0] = n
      BY <1>1, FollowIs
  <2> HIDE DEF links, all, most
  <2>3. /\ 0 \in Nat /\ MaxAlias \in Nat /\ most \in Nat /\ near \in Nat
        /\ 0 + near <= MaxAlias /\ near <= most
      BY <1>1, <1>5
  <2>4. \A e \in 0..near : Follow(all, n, MaxAlias)[0 + e] = Follow(links, n, most)[e]
      BY ONLY <2>1, <2>2, <2>3, SameWay
  <2>5. \A e \in 0..near : 0 + e = e
      OBVIOUS
  <2> QED BY <2>4, <2>5
<1>7. near \in 0..near
    BY <1>5
<1>8. CASE near = d
  <2>1. AliasAt(plans, n)[d] = at[d] /\ Concrete(plans, AliasAt(plans, n)[d])
      BY <1>1, <1>3, <1>6, <1>7, <1>8 DEF AliasAt, Concrete
  <2>2. d \in 0..(MaxAlias - 1)
      BY <1>1, <1>3, <1>4, <1>5, <1>8
  <2> QED BY <2>1, <2>2, AliasFinds
<1>9. CASE near = c /\ near # d
  <2>1. at[c] = name
      BY <1>4, <1>6, <1>7, <1>9 DEF AliasAt
  <2>2. c \in 0..most /\ c < d
      BY <1>3, <1>4, <1>5, <1>9
  <2>3. at[c] \notin DOMAIN links \/ links[at[c]] = None
      BY <1>1, <1>4, <2>1 DEF Concrete
  <2> HIDE DEF links
  <2>4. at[d] = None
      BY <1>1, <1>3, <2>2, <2>3, NothingBehind
  <2> QED BY <1>1, <1>3, <2>4
<1> QED BY <1>8, <1>9 DEF near

\* It follows an alias as far as ResolvePlanAlias does, unless a composition is on the way:
\* a way to a concrete plan visits no plan twice.
LEMMA CompareFinds ==
    ASSUME None \notin DOMAIN plans, IsFiniteSet(DOMAIN plans), NEW n, ResolvePlanAlias(plans, n) # None,
           plans[ResolvePlanAlias(plans, n)].composes = {},
           \A m \in DOMAIN plans : plans[m].alias # None => plans[m].composes = {}
    PROVE  CompareAlias(n) = ResolvePlanAlias(plans, n)
<1> DEFINE most == Cardinality(DOMAIN plans)
           leaves == {m \in DOMAIN plans : plans[m].composes = {}}
           links == [m \in leaves |-> plans[m].alias]
           at == Follow(links, n, most)
           found == {d \in 0..most : at[d] \in leaves /\ plans[at[d]].alias = None}
           name == ResolvePlanAlias(plans, n)
           all == AliasesOf(plans)
           way == Follow(all, n, MaxAlias)
<1>1. /\ most \in Nat /\ DOMAIN links = leaves /\ None \notin leaves
      /\ \A m \in leaves : links[m] = plans[m].alias
      /\ DOMAIN all = DOMAIN plans /\ \A m \in DOMAIN plans : all[m] = plans[m].alias
      /\ MaxAlias \in Nat \ {0}
    BY FS_CardinalityType, ResolveAssumption DEF AliasesOf
<1>2. PICK c \in 0..(MaxAlias - 1) : way[c] = name /\ Concrete(plans, name)
    BY AliasLeads DEF AliasAt
<1>3. c \in 0..MaxAlias /\ c \in Nat
    BY <1>1, <1>2
<1> HIDE DEF way, links, all, most
<1>4. \A e \in 0..(c - 1) : way[e] \in leaves /\ all[way[e]] = links[way[e]] /\ all[way[e]] # None
  <2> SUFFICES ASSUME NEW e \in 0..(c - 1)
               PROVE  way[e] \in leaves /\ all[way[e]] = links[way[e]] /\ all[way[e]] # None
      OBVIOUS
  <2>1. way[c] # None
      BY <1>2 DEF Concrete
  <2>2. way[e] \in DOMAIN all /\ all[way[e]] # None
      BY <1>1, <1>3, <2>1, InsideBefore DEF way
  <2> QED BY <1>1, <2>2
<1>5. way[c] \in DOMAIN all /\ all[way[c]] = None
    BY <1>1, <1>2 DEF Concrete
<1>6. ASSUME NEW j \in 0..c, NEW k \in 0..c, j < k, way[j] = way[k] PROVE FALSE
  <2> DEFINE rest == c - k
  <2>1. /\ j \in Nat /\ k \in Nat /\ rest \in Nat /\ j + rest <= MaxAlias /\ k + rest = c /\ j + rest < c
        /\ k + rest <= MaxAlias /\ rest <= MaxAlias /\ rest \in 0..rest /\ j + rest \in 0..MaxAlias
      BY <1>1, <1>3, <1>6
  <2> DEFINE tail == Follow(all, way[j], MaxAlias)
  <2> HIDE DEF rest
  <2>2. \A e \in 0..rest : Follow(all, n, MaxAlias)[j + e] = tail[e]
      BY <1>1, <2>1, SameWay DEF way
  <2>3. \A e \in 0..rest : Follow(all, n, MaxAlias)[k + e] = tail[e]
      BY <1>1, <1>6, <2>1, SameWay DEF way
  <2>4. way[j + rest] = way[c]
      BY <2>1, <2>2, <2>3 DEF way
  <2>5. j + rest = c
      BY <1>1, <1>3, <1>5, <2>1, <2>4, EndsOnce DEF way
  <2> QED BY <2>1, <2>5
<1>7. c \in 0..most
  <2> DEFINE f == [e \in 0..c |-> way[e]]
  <2>1. \A e \in 0..c : way[e] \in DOMAIN plans
    <3>1. \A e \in 0..c : e \in 0..(c - 1) \/ e = c
        BY <1>3
    <3> QED BY <1>1, <1>4, <1>5, <3>1
  <2>2. f \in Injection(0..c, DOMAIN plans)
    <3>1. \A j, k \in 0..c : way[j] = way[k] => j = k
      <4>1. \A j, k \in 0..c : j < k \/ k < j \/ j = k
          OBVIOUS
      <4> QED BY <1>6, <4>1
    <3>2. f \in [0..c -> DOMAIN plans] /\ \A e \in 0..c : f[e] = way[e]
        BY <2>1
    <3> HIDE DEF f
    <3> QED BY <3>1, <3>2 DEF Injection, IsInjective
  <2>3. Cardinality(0..c) <= most
      BY <2>2, FS_Injection DEF most
  <2>4. Cardinality(0..c) = c + 1
    <3>1. c \in Int /\ 0 \in Int /\ ~(0 > c) /\ c - 0 + 1 = c + 1
        BY <1>3
    <3>2. Cardinality(0..c) = IF 0 > c THEN 0 ELSE c - 0 + 1
        BY <3>1, FS_Interval
    <3> QED BY <3>1, <3>2
  <2> QED BY <1>1, <1>3, <2>3, <2>4
<1>8. at[c] = way[c]
  <2>1. /\ \A e \in 0..(c - 1) :
             LET v == Follow(all, n, MaxAlias)[e]
             IN  /\ v \in DOMAIN links <=> v \in DOMAIN all
                 /\ v \in DOMAIN links => links[v] = all[v]
      BY <1>1, <1>4 DEF way
  <2>2. Follow(links, n, most)[0] = n
      BY <1>1, FollowIs
  <2>3. 0 \in Nat /\ MaxAlias \in Nat /\ 0 + c <= most /\ c <= MaxAlias
      BY <1>1, <1>3, <1>7
  <2>4. \A e \in 0..c : Follow(links, n, most)[0 + e] = Follow(all, n, MaxAlias)[e]
      BY <1>1, <1>3, <2>1, <2>2, <2>3, SameWay
  <2>5. c \in 0..c /\ 0 + c = c
      BY <1>3
  <2> QED BY <2>4, <2>5 DEF way
<1>9. c \in found
    BY <1>1, <1>2, <1>5, <1>7, <1>8 DEF Concrete
<1>10. CompareAlias(n) # None
  <2> DEFINE d == CHOOSE e \in found : TRUE
  <2>1. d \in found
      BY <1>9
  <2>2. CompareAlias(n) = at[d]
      BY <1>9 DEF CompareAlias, most, links
  <2> HIDE DEF d
  <2> QED BY <1>1, <2>1, <2>2
<1> QED BY <1>10, CompareAgrees

-----------------------------------------------------------------------------
(* The plans that are loaded *)

ResolveInv ==
    /\ TypeOKResolve
    /\ \A o \in Owners : files[o] \in Books[o]
    /\ step \in {"loaded", "done"} => plans = Book /\ Loads

\* What a book is made of.
LEMMA BookShape ==
    ASSUME \A o \in Owners : files[o] \in Books[o]
    PROVE  /\ \A o \in Owners :
                /\ DOMAIN Declared(o) \subseteq Names
                /\ \A n \in DOMAIN Declared(o) : PlanFields(Declared(o)[n]) /\ Declared(o)[n].owner = o
           /\ Loads => \A i \in DOMAIN ImportOf :
                /\ ImportOf[i] \in DOMAIN Declared("sub")
                /\ Book[i] = Declared("sub")[ImportOf[i]]
           /\ DOMAIN Book = DOMAIN Declared("root") \cup DOMAIN ImportOf
           /\ Loads => \A n \in DOMAIN Book : PlanFields(Book[n])
<1>1. ASSUME NEW o \in Owners
      PROVE  /\ DOMAIN Declared(o) \subseteq Names
             /\ \A n \in DOMAIN Declared(o) : PlanFields(Declared(o)[n]) /\ Declared(o)[n].owner = o
  <2>1. DOMAIN Declared(o) = {m \in Names : files[o][m] # Missing}
      BY DEF Declared
  <2>2. ASSUME NEW n \in DOMAIN Declared(o)
        PROVE  PlanFields(Declared(o)[n]) /\ Declared(o)[n].owner = o
    <3>1. n \in Names /\ files[o][n] # Missing /\ Declared(o)[n] = [files[o][n] EXCEPT !.owner = o]
        BY <2>1, <2>2 DEF Declared
    <3>2. PlanFields(files[o][n])
        BY <1>1, <3>1, ResolveAssumption
    <3> QED BY <3>1, <3>2 DEF PlanFields
  <2> QED BY <2>1, <2>2
<1>2. DOMAIN Book = DOMAIN Declared("root") \cup DOMAIN ImportOf
    BY DEF Book
<1>3. ASSUME Loads, NEW i \in DOMAIN ImportOf
      PROVE  ImportOf[i] \in DOMAIN Declared("sub") /\ Book[i] = Declared("sub")[ImportOf[i]]
  <2>1. ImportOf[i] \in DOMAIN Declared("sub")
      BY <1>3 DEF Loads
  <2>2. Book[i] = Clone(Declared("sub")[ImportOf[i]])
      BY <1>3 DEF Book
  <2>3. Declared("sub")[ImportOf[i]] = [files["sub"][ImportOf[i]] EXCEPT !.owner = "sub"]
      BY <2>1 DEF Declared
  <2> DEFINE p == files["sub"][ImportOf[i]]
  <2>4. [[p EXCEPT !.owner = "sub"] EXCEPT !.owner = "sub"] = [p EXCEPT !.owner = "sub"]
      OBVIOUS
  <2> QED BY <2>1, <2>2, <2>3, <2>4 DEF Clone
<1>4. ASSUME Loads, NEW n \in DOMAIN Book PROVE PlanFields(Book[n])
  <2>1. CASE n \in DOMAIN ImportOf
      BY <1>1, <1>3, <1>4, <2>1 DEF Owners
  <2>2. CASE n \notin DOMAIN ImportOf
    <3>1. n \in DOMAIN Declared("root") /\ Book[n] = Declared("root")[n]
        BY <1>2, <1>4, <2>2 DEF Book
    <3> QED BY <1>1, <3>1 DEF Owners
  <2> QED BY <2>1, <2>2
<1> QED BY <1>1, <1>2, <1>3, <1>4

\* What the proofs below know of the plans that are loaded.
LEMMA LoadedFacts ==
    ASSUME ResolveInv, IsLoaded
    PROVE  /\ None \notin DOMAIN plans /\ IsFiniteSet(DOMAIN plans)
           /\ \A n \in DOMAIN plans : PlanFields(plans[n])
<1>1. plans = Book /\ Loads
    BY DEF ResolveInv, IsLoaded
<1>2. DOMAIN plans \subseteq Names \cup DOMAIN ImportOf
    BY DEF ResolveInv, IsLoaded, TypeOKResolve
<1>3. IsFiniteSet(Names \cup DOMAIN ImportOf)
    BY ResolveAssumption, FS_Union
<1>4. IsFiniteSet(DOMAIN plans) /\ None \notin DOMAIN plans
    BY <1>2, <1>3, FS_Subset, ResolveAssumption
<1> QED BY <1>1, <1>4, BookShape DEF ResolveInv

\* The invariant is inductive.
LEMMA ResolveInvHolds == ResolveSpec => []ResolveInv
<1>1. ResolveInit => ResolveInv
  <2> SUFFICES ASSUME ResolveInit PROVE ResolveInv
      OBVIOUS
  <2>1. PICK r \in Books["root"], s \in Books["sub"] :
            files = [o \in Owners |-> IF o = "root" THEN r ELSE s]
      BY DEF ResolveInit
  <2>2. \A o \in Owners : files[o] \in Books[o]
      BY <2>1 DEF Owners
  <2>3. step = "start" /\ result = Nothing
      BY DEF ResolveInit
  <2> QED BY <2>2, <2>3 DEF ResolveInv, TypeOKResolve
<1>2. ResolveInv /\ [ResolveNext]_resolveVars => ResolveInv'
  <2> SUFFICES ASSUME ResolveInv, [ResolveNext]_resolveVars PROVE ResolveInv'
      OBVIOUS
  <2>0. files' = files
      BY DEF ResolveNext, resolveVars, Load, Validate, UpPlan
  <2>1. (\A o \in Owners : files[o] \in Books[o]) /\ (\A o \in Owners : files[o] \in Books[o])'
      BY <2>0 DEF ResolveInv
  <2>2. (Book' = Book) /\ (Loads' = Loads)
      BY <2>0 DEF Book, Loads, CompositionsSound, CompositionSound, Declared
  <2>3. CASE Load
    <3>1. CASE Loads
      <4>1. step' = "loaded" /\ plans' = Book /\ result' = result
          BY <2>3, <3>1 DEF Load
      <4>2. DOMAIN Book \subseteq Names \cup DOMAIN ImportOf
          BY <2>1, BookShape DEF Owners
      <4> QED BY <2>1, <2>2, <3>1, <4>1, <4>2 DEF ResolveInv, TypeOKResolve
    <3>2. CASE ~Loads
        BY <2>1, <2>3, <3>2 DEF Load, ResolveInv, TypeOKResolve
    <3> QED BY <3>1, <3>2
  <2>4. CASE Validate
    <3>1. step = "loaded" /\ step' = "done" /\ plans' = plans
        BY <2>4 DEF Validate
    <3>2. DOMAIN result' = DOMAIN Nothing
        BY <2>4 DEF Validate, Nothing
    <3> QED BY <2>1, <2>2, <3>1, <3>2 DEF ResolveInv, TypeOKResolve
  <2>5. CASE \E n \in DOMAIN plans : UpPlan(n)
    <3>1. step = "loaded" /\ step' = "done" /\ plans' = plans
        BY <2>5 DEF UpPlan
    <3>2. \E a, b, c, d, e : result' = [verb |-> a, name |-> b, error |-> c, started |-> d, children |-> e]
        BY <2>5 DEF UpPlan
    <3>3. DOMAIN result' = DOMAIN Nothing
        BY <3>2 DEF Nothing
    <3> QED BY <2>1, <2>2, <3>1, <3>3 DEF ResolveInv, TypeOKResolve
  <2>6. CASE UNCHANGED resolveVars
      BY <2>1, <2>2, <2>6 DEF resolveVars, ResolveInv, TypeOKResolve
  <2> QED BY <2>3, <2>4, <2>5, <2>6 DEF ResolveNext
<1> QED BY <1>1, <1>2, PTL DEF ResolveSpec

\* The ways ResolvePlan takes.
LEMMA ResolveEnds ==
    ASSUME None \notin DOMAIN plans, NEW n
    PROVE  LET name == ResolvePlanAlias(plans, n)
               p == plans[name]
               parent == plans[ResolvePlanAlias(plans, p.extends)]
               r == ResolvePlan(plans, n)
           IN  /\ r.error = "alias" <=> name = None
               /\ r.error = "extends" <=>
                    /\ name # None /\ p.extends # None
                    /\ p.composes # {} \/ p.extends = name \/ ~ParentsSound(plans, p)
               /\ r.error \notin {"alias", "extends"} =>
                    r = ResolveEntries(present, IF p.extends = None THEN p ELSE MergePlanConfigs(parent, p))
<1> DEFINE name == ResolvePlanAlias(plans, n)
           p == plans[name]
           parent == plans[ResolvePlanAlias(plans, p.extends)]
           r == ResolvePlan(plans, n)
           wrong == p.composes # {} \/ p.extends = name \/ ~ParentsSound(plans, p)
<1>1. r = IF name = None THEN Failed("alias")
          ELSE IF p.extends = None THEN ResolveEntries(present, p)
          ELSE IF wrong THEN Failed("extends") ELSE ResolveEntries(present, MergePlanConfigs(parent, p))
    BY DEF ResolvePlan, ResolveIn
<1>2. Failed("alias").error = "alias" /\ Failed("extends").error = "extends"
    BY DEF Failed
<1>3. \A q : ResolveEntries(present, q).error \notin {"alias", "extends"}
    BY EntriesEnd
<1>9. wrong \in BOOLEAN
    OBVIOUS
<1> SUFFICES /\ r.error = "alias" <=> name = None
             /\ r.error = "extends" <=> name # None /\ p.extends # None /\ wrong
             /\ r.error \notin {"alias", "extends"} =>
                  r = ResolveEntries(present, IF p.extends = None THEN p ELSE MergePlanConfigs(parent, p))
    OBVIOUS
<1> HIDE DEF name, p, parent, r, wrong
<1>4. CASE name = None
    BY <1>1, <1>2, <1>4, <1>9
<1>5. CASE name # None /\ p.extends = None
    BY <1>1, <1>2, <1>3, <1>5, <1>9
<1>6. CASE name # None /\ p.extends # None /\ wrong
    BY <1>1, <1>2, <1>3, <1>6, <1>9
<1>7. CASE name # None /\ p.extends # None /\ ~wrong
    BY <1>1, <1>2, <1>3, <1>7, <1>9
<1> QED BY <1>4, <1>5, <1>6, <1>7, <1>9

\* What a merged plan has from whom.
LEMMA Merged ==
    ASSUME NEW parent, NEW p, PlanFields(parent), PlanFields(p)
    PROVE  LET q == MergePlanConfigs(parent, p)
           IN  /\ q.owner = parent.owner /\ q.composes = parent.composes
               /\ q.environment = Prefer(p.environment, parent.environment)
               /\ DOMAIN q.entries = DOMAIN p.entries \cup DOMAIN parent.entries
    BY DEF MergePlanConfigs, MergeInto, PlanFields

\* Whatever alias and extends chains the two files build, of whatever length: when a leaf
\* plan resolves, comparePlanEntries (compare.go) names the entries that start or are skipped,
\* and the config whose stack they are in; it declines only where some plan is an alias and
\* a composition at once.
THEOREM SplitMatchesStartHolds == ResolveSpec => []SplitMatchesStart
<1>1. ResolveInv => SplitMatchesStart
  <2> SUFFICES ASSUME ResolveInv, IsLoaded, NEW n \in DOMAIN plans,
                      ResolvePlan(plans, n).error = "none", ~ResolvePlan(plans, n).composes,
                      \/ ComparePlanEntries(n) # NoSplit
                      \/ \A m \in DOMAIN plans : plans[m].alias # None => plans[m].composes = {}
               PROVE  LET r == ResolvePlan(plans, n)
                      IN  ComparePlanEntries(n) =
                             [names |-> {e[1] : e \in r.entries} \cup r.skipped, owner |-> r.owner]
      BY DEF SplitMatchesStart
  <2> DEFINE name == ResolvePlanAlias(plans, n)
             p == plans[name]
             above == ResolvePlanAlias(plans, p.extends)
             r == ResolvePlan(plans, n)
             q == IF p.extends = None THEN p ELSE MergePlanConfigs(plans[above], p)
  <2>1. /\ None \notin DOMAIN plans /\ IsFiniteSet(DOMAIN plans)
        /\ \A m \in DOMAIN plans : PlanFields(plans[m])
      BY LoadedFacts
  <2>2. r = ResolveEntries(present, q) /\ name # None
      BY <2>1, ResolveEnds
  <2>3. /\ r.owner = q.owner /\ q.composes = {}
        /\ {e[1] : e \in r.entries} \cup r.skipped = DOMAIN q.entries
    <3> HIDE DEF q
    <3>1. ResolveEntries(present, q).error = "none" /\ ~ResolveEntries(present, q).composes
        BY <2>2
    <3>2. /\ r.owner = q.owner /\ ResolveEntries(present, q).composes = (q.composes # {})
          /\ {e[1] : e \in r.entries} \cup r.skipped = DOMAIN q.entries
        BY <2>2, <3>1, EntriesEnd
    <3>3. q.composes = {}
        BY <3>1, <3>2
    <3> QED BY <3>2, <3>3
  <2>4. name \in DOMAIN plans /\ CompareAlias(n) \in {name, None}
      BY <2>1, <2>2, AliasLeads, CompareAgrees DEF Concrete
  <2>5. ASSUME p.extends # None
        PROVE  p.composes = {} /\ above # None /\ plans[above].composes = {}
    <3>1. p.composes = {} /\ ParentsSound(plans, p)
        BY <2>1, <2>2, <2>5, ResolveEnds
    <3>2. MaxExtends - 1 \in Nat
        BY ResolveAssumption
    <3>3. ParentAt(plans, p)[0] = above
        BY <3>2, FollowIs DEF ParentAt
    <3>4. PICK last \in 0..(MaxExtends - 1) :
             \A d \in 0..last : ParentAt(plans, p)[d] # None /\ plans[ParentAt(plans, p)[d]].composes = {}
        BY <3>1 DEF ParentsSound
    <3>5. 0 \in 0..last
        BY <3>4
    <3> QED BY <3>1, <3>3, <3>4, <3>5
  <2>6. p.composes = {}
      BY <2>3, <2>5
  <2>7. ASSUME p.extends # None
        PROVE  /\ above \in DOMAIN plans /\ CompareAlias(p.extends) \in {above, None}
               /\ q.owner = plans[above].owner
               /\ DOMAIN q.entries = DOMAIN p.entries \cup DOMAIN plans[above].entries
    <3>1. above \in DOMAIN plans /\ CompareAlias(p.extends) \in {above, None}
        BY <2>1, <2>5, <2>7, AliasLeads, CompareAgrees DEF Concrete
    <3>2. PlanFields(plans[above]) /\ PlanFields(p)
        BY <2>1, <2>4, <3>1
    <3> QED BY <2>7, <3>1, <3>2, Merged
  <2> DEFINE found == CompareAlias(n)
             parent == CompareAlias(p.extends)
  <2>8. found = None \/ (p.extends # None /\ parent = None) => ComparePlanEntries(n) = NoSplit
      BY <2>4 DEF ComparePlanEntries
  <2>9. found = name /\ (p.extends # None => parent = above)
    <3>1. SUFFICES ASSUME found = None \/ (p.extends # None /\ parent = None) PROVE FALSE
        BY <2>4, <2>7
    <3>2. \A m \in DOMAIN plans : plans[m].alias # None => plans[m].composes = {}
        BY <2>8, <3>1
    <3>3. found # None
        BY <2>1, <2>2, <2>6, <3>2, CompareFinds
    <3>4. p.extends # None => parent # None
        BY <2>1, <2>5, <3>2, CompareFinds
    <3> QED BY <3>1, <3>3, <3>4
  <2>10. ComparePlanEntries(n) = [names |-> DOMAIN q.entries, owner |-> q.owner]
    <3>1. CASE p.extends = None
        BY <2>2, <2>9, <3>1 DEF ComparePlanEntries
    <3>2. CASE p.extends # None
        BY <2>2, <2>5, <2>7, <2>9, <3>2 DEF ComparePlanEntries
    <3> QED BY <3>1, <3>2
  <2> QED BY <2>3, <2>10
<1> QED BY <1>1, ResolveInvHolds, PTL

\* Where validatePlanAliasExtends and validatePlanEnvironments (validate.go) find nothing,
\* ResolvePlan (resolver.go) refuses no plan over its alias, unless the chain has exactly
\* MaxAlias links, none over extends, and none over an environment it did not inherit
\* from a plan of the other file.
THEOREM ValidatedResolvesHolds == ResolveSpec => []ValidatedResolves
<1>1. ResolveInv => ValidatedResolves
  <2> SUFFICES ASSUME ResolveInv, IsLoaded, Valid, NEW n \in DOMAIN plans
               PROVE  LET r == ResolvePlan(plans, n)
                          p == plans[ResolvePlanAlias(plans, n)]
                      IN  /\ r.error = "alias" => LongAlias(n)
                          /\ r.error # "extends"
                          /\ r.error = "environment" =>
                                p.extends # None /\ plans[p.extends].owner # p.owner
      BY DEF ValidatedResolves
  <2> DEFINE name == ResolvePlanAlias(plans, n)
             p == plans[name]
             parent == plans[ResolvePlanAlias(plans, p.extends)]
             r == ResolvePlan(plans, n)
             q == IF p.extends = None THEN p ELSE MergePlanConfigs(parent, p)
  <2>1. /\ None \notin DOMAIN plans
        /\ \A m \in DOMAIN plans : PlanFields(plans[m]) /\ PlanValid(m)
      BY LoadedFacts DEF Valid
  <2>2. r.error = "alias" => LongAlias(n)
      BY <2>1, ResolveEnds, ValidAlias
  <2>3. name # None => name \in DOMAIN plans
      BY <2>1, AliasLeads DEF Concrete
  <2>4. ASSUME name # None, p.extends # None
        PROVE  /\ p.composes = {} /\ p.extends # name /\ ParentsSound(plans, p)
               /\ p.extends \in DOMAIN plans /\ parent = plans[p.extends]
    <3>1. ExtendsValid(name) /\ name \in DOMAIN plans
        BY <2>1, <2>3, <2>4 DEF PlanValid
    <3> QED BY <2>1, <2>4, <3>1, ValidExtends
  <2>5. r.error # "extends"
      BY <2>1, <2>4, ResolveEnds
  <2>6. ASSUME r.error = "environment"
        PROVE  p.extends # None /\ plans[p.extends].owner # p.owner
    <3>1. name # None /\ r = ResolveEntries(present, q)
        BY <2>1, <2>6, ResolveEnds
    <3>2. q.environment \notin Environments[q.owner] \cup {None}
        BY <2>6, <3>1, EntriesEnd
    <3>3. p.environment \in Environments[p.owner] \cup {None}
        BY <2>1, <2>3, <3>1 DEF PlanValid
    <3>4. p.extends # None
        BY <3>2, <3>3
    <3>5. parent.environment \in Environments[parent.owner] \cup {None}
        BY <2>1, <2>4, <3>1, <3>4 DEF PlanValid
    <3>6. PlanFields(p) /\ PlanFields(parent)
        BY <2>1, <2>3, <2>4, <3>1, <3>4
    <3>7. q.owner = parent.owner /\ q.environment = Prefer(p.environment, parent.environment)
        BY <3>4, <3>6, Merged
    <3>8. parent.owner # p.owner
        BY <3>2, <3>3, <3>5, <3>7 DEF Prefer
    <3> QED BY <2>4, <3>1, <3>4, <3>8
  <2> QED BY <2>2, <2>5, <2>6
<1> QED BY <1>1, ResolveInvHolds, PTL

\* An imported plan without alias or extends resolves in the parent (cloneImportedPlan,
\* subproject.go) to just what it resolves to in its own file, errors included, whatever
\* the parent declares.
THEOREM ImportKeepsMeaningHolds == ResolveSpec => []ImportKeepsMeaning
<1>1. ResolveInv => ImportKeepsMeaning
  <2> SUFFICES ASSUME ResolveInv, IsLoaded, NEW i \in DOMAIN ImportOf,
                      plans[i].alias = None, plans[i].extends = None
               PROVE  ResolvePlan(plans, i) = ResolvePlan(Declared("sub"), ImportOf[i])
      BY DEF ImportKeepsMeaning
  <2> DEFINE lent == Declared("sub")
  <2>1. plans = Book /\ Loads /\ None \notin DOMAIN plans
      BY LoadedFacts DEF ResolveInv, IsLoaded
  <2>2. /\ ImportOf[i] \in DOMAIN lent /\ plans[i] = lent[ImportOf[i]] /\ i \in DOMAIN plans
        /\ DOMAIN lent \subseteq Names
      BY <2>1, BookShape DEF ResolveInv, Owners
  <2>3. ResolvePlanAlias(plans, i) = i
      BY <2>1, <2>2, AliasOfConcrete DEF Concrete
  <2>4. ResolvePlanAlias(lent, ImportOf[i]) = ImportOf[i] /\ None \notin DOMAIN lent
    <3>1. None \notin DOMAIN lent
        BY <2>2, ResolveAssumption
    <3> QED BY <2>2, <3>1, AliasOfConcrete DEF Concrete
  <2>5. i # None /\ ImportOf[i] # None
      BY <2>1, <2>2, <2>4
  <2> HIDE DEF lent
  <2>6. ResolveIn(present, plans, i) = ResolveEntries(present, plans[i])
      BY <2>3, <2>5 DEF ResolveIn
  <2>7. ResolveIn(present, lent, ImportOf[i]) = ResolveEntries(present, lent[ImportOf[i]])
      BY <2>2, <2>4, <2>5 DEF ResolveIn
  <2> QED BY <2>2, <2>6, <2>7 DEF ResolvePlan, lent
<1> QED BY <1>1, ResolveInvHolds, PTL

================================================================================
