------------------------------ MODULE SkillProofs ------------------------------
(***************************************************************************)
(* Theorems about SkillInstall and SkillTakeover.                          *)
(*                                                                         *)
(* What keeps the receipt of a destination to one writer, for any number   *)
(* of processes, releases, skills and consumers, is an argument about one  *)
(* skill, the anchor, that every bundle has.  Every list of locks contains *)
(* it, so a process that has taken its whole list holds the anchor's lock  *)
(* until it releases.                                                      *)
(*                                                                         *)
(* Because of that, receipt, claims and trees of a destination change in    *)
(* the hands of one operation, and a second invariant says of each         *)
(* operation what it has read and written: where it is in its phases, and  *)
(* what is still on its list, tells for each skill whether the claim is    *)
(* as it was read, marked, or on its way, and a third one what receipt     *)
(* and trees are.  From these follow the protocol, the promise that        *)
(* nothing read under the locks goes stale, the reports and the trees of   *)
(* other people.                                                           *)
(*                                                                         *)
(* That a failure is undone needs more: that claims and trees are, outside *)
(* of what an operation is about, as they should be, and inside as they    *)
(* were or on their way, forth or back.  As long as nothing has failed,    *)
(* receipt, trees and claims agree between operations, and as long as one  *)
(* call has failed at most, the way back does not fail.                    *)
(*                                                                         *)
(* What keeps the trees of people through takeovers is an argument about   *)
(* the one operation at work: where it is in its calls says what each      *)
(* place, each backup and each stage can contain, and in each of these     *)
(* cases whatever was kept is in one of them.                              *)
(***************************************************************************)
EXTENDS SkillInstall, SkillTakeover, TLAPS

(* The receipt of a destination *)

Anchor == CHOOSE s \in Skills : \A v \in Versions : s \in Names[v]

LEMMA AnchorKnown == Anchor \in Skills /\ \A v \in Versions : Anchor \in Names[v]
BY SharedSkill DEF Anchor

\* What the argument needs to know of types.
Typed ==
    /\ lock \in [Skills -> Procs \cup {Free, Stale}]
    /\ receipt \in Receipts
    /\ job \in [Procs -> Jobs]
    /\ pc = [p \in Procs |-> pc[p]]
    /\ left = [p \in Procs |-> left[p]]

\* The anchor's lock is taken, or still on the list.
AnchorTaken ==
    \A p \in Procs :
        /\ pc[p] = "lock" => Anchor \in left[p] \/ lock[Anchor] = p
        /\ pc[p] \in Writing \cup {"check"} => lock[Anchor] = p

\* Nobody releases what is not his.
ReleasesOwn ==
    \A p \in Procs : pc[p] = "release" => \A s \in left[p] : s \in Skills /\ lock[s] = p

WriterInv == Typed /\ AnchorTaken /\ ReleasesOwn

-----------------------------------------------------------------------------
(* Where phases lead *)

LEMMA FollowingLeads ==
    ASSUME NEW p, NEW phase \in (Writing \cup {"lock"}) \ {"clean"}
    PROVE  /\ phase = "lock" => Following(p, phase) = "check"
           /\ phase # "lock" => Following(p, phase) \in Writing \cup {"release"}
BY DEF Following, Writing, Looping

LEMMA WayBackLeads ==
    ASSUME NEW phase \in Writing \cup {"lock"}
    PROVE  /\ phase = "lock" => WayBack(phase) = "release"
           /\ phase # "lock" => WayBack(phase) \in Writing \cup {"release"}
BY DEF WayBack, Writing, Looping

LEMMA ReleaseWork ==
    ASSUME NEW p PROVE Work(p, "release") = Held(p)
BY DEF Work

\* A process that holds the anchor stays within the invariant when it goes to
\* another phase of the work, or to the release.
LEMMA GotoKeeps ==
    ASSUME WriterInv, NEW p \in Procs, NEW phase \in Writing \cup {"check", "release"},
           Goto(p, phase), lock' = lock, job' \in [Procs -> Jobs], receipt' \in Receipts,
           phase # "release" => lock[Anchor] = p
    PROVE  WriterInv'
<1>1. pc'[p] = phase /\ left'[p] = Work(p, phase)
    BY DEF Goto, WriterInv, Typed
<1>2. \A q \in Procs \ {p} : pc'[q] = pc[q] /\ left'[q] = left[q]
    BY DEF Goto, WriterInv, Typed
<1>3. Typed'
    BY DEF Goto, WriterInv, Typed
<1>4. AnchorTaken'
    <2>1. phase # "lock"
        BY DEF Writing, Looping
    <2>2. phase = "release" => phase \notin Writing \cup {"check"}
        BY DEF Writing, Looping
    <2> QED BY <1>1, <1>2, <2>1, <2>2 DEF WriterInv, AnchorTaken, Writing
<1>5. ReleasesOwn'
    <2>1. phase = "release" => left'[p] = Held(p)
        BY <1>1, ReleaseWork
    <2> QED BY <1>1, <1>2, <2>1 DEF WriterInv, ReleasesOwn, Held
<1> QED BY <1>3, <1>4, <1>5 DEF WriterInv

LEMMA FailKeeps ==
    ASSUME WriterInv, NEW p \in Procs, pc[p] \in Writing \cup {"lock"}, Fail(p),
           lock' = lock, job' = job, receipt' \in Receipts
    PROVE  WriterInv'
<1> DEFINE phase == WayBack(pc[p])
<1>1. Goto(p, phase) BY DEF Fail
<1>2. phase \in Writing \cup {"check", "release"} BY WayBackLeads
<1>3. phase # "release" => lock[Anchor] = p
    BY WayBackLeads DEF WriterInv, AnchorTaken
<1>4. job' \in [Procs -> Jobs] BY DEF WriterInv, Typed
<1> HIDE DEF phase
<1> QED BY <1>1, <1>2, <1>3, <1>4, GotoKeeps

\* Within a phase only the list of one process shrinks.
LEMMA ListKeeps ==
    ASSUME WriterInv, NEW p \in Procs, NEW S, pc[p] # "lock", S \subseteq left[p],
           left' = [left EXCEPT ![p] = S], pc' = pc, lock' = lock, job' = job,
           receipt' = receipt
    PROVE  WriterInv'
<1>1. left'[p] = S /\ \A q \in Procs \ {p} : left'[q] = left[q]
    BY DEF WriterInv, Typed
<1>2. Typed' BY DEF WriterInv, Typed
<1>3. AnchorTaken' BY <1>1 DEF WriterInv, AnchorTaken
<1>4. ReleasesOwn' BY <1>1 DEF WriterInv, ReleasesOwn
<1> QED BY <1>2, <1>3, <1>4 DEF WriterInv

LEMMA SameKeeps ==
    ASSUME WriterInv, UNCHANGED <<lock, receipt, job, pc, left>>
    PROVE  WriterInv'
BY DEF WriterInv, Typed, AnchorTaken, ReleasesOwn

-----------------------------------------------------------------------------
(* The actions that take and give locks, or read the receipt *)

LEMMA StartKeeps ==
    ASSUME WriterInv, NEW p \in Procs, Start(p) PROVE WriterInv'
<1>1. PICK kind \in {"install", "uninstall"}, want \in (SUBSET Runtimes) \ {{}} :
        job' = [job EXCEPT ![p] = [NoJob EXCEPT !.kind = kind, !.want = want]]
    BY DEF Start
<1>2. [NoJob EXCEPT !.kind = kind, !.want = want] \in Jobs
    BY DEF NoJob, Jobs, Receipts
<1>3. job' \in [Procs -> Jobs]
    BY <1>1, <1>2 DEF WriterInv, Typed
<1>4. pc'[p] = "read" /\ \A q \in Procs \ {p} : pc'[q] = pc[q]
    BY DEF Start, WriterInv, Typed
<1>5. Typed'
    BY <1>3 DEF Start, disk, WriterInv, Typed
<1>6. AnchorTaken' /\ ReleasesOwn'
    BY <1>4 DEF Start, disk, WriterInv, AnchorTaken, ReleasesOwn, Writing, Looping
<1> QED BY <1>5, <1>6 DEF WriterInv

LEMMA ListHasAnchor ==
    ASSUME Typed, NEW p \in Procs PROVE Anchor \in LockList(p)
<1>1. Binary[p] \in Versions
    BY InstallAssumption
<1>2. receipt # NoReceipt => receipt.version \in Versions
    BY DEF Typed, Receipts
<1> QED BY <1>1, <1>2, AnchorKnown DEF LockList, Installed

LEMMA ReadKeeps ==
    ASSUME WriterInv, NEW p \in Procs, Read(p) PROVE WriterInv'
<1>1. [job[p] EXCEPT !.seen = receipt] \in Jobs
    <2>1. job[p] \in Jobs /\ receipt \in Receipts
        BY DEF WriterInv, Typed
    <2> QED BY <2>1 DEF Jobs
<1>2. job' \in [Procs -> Jobs]
    BY <1>1 DEF Read, WriterInv, Typed
<1>3. /\ pc'[p] = "lock" /\ left'[p] = LockList(p)
      /\ \A q \in Procs \ {p} : pc'[q] = pc[q] /\ left'[q] = left[q]
    BY DEF Read, WriterInv, Typed
<1>4. Typed'
    BY <1>2 DEF Read, disk, WriterInv, Typed
<1>5. Anchor \in left'[p]
    BY <1>3, ListHasAnchor DEF WriterInv
<1>6. AnchorTaken' /\ ReleasesOwn'
    BY <1>3, <1>5 DEF Read, disk, WriterInv, AnchorTaken, ReleasesOwn, Writing, Looping
<1> QED BY <1>4, <1>6 DEF WriterInv

LEMMA MkdirKeeps ==
    ASSUME WriterInv, NEW p \in Procs, Mkdir(p) PROVE WriterInv'
<1>1. PICK s \in left[p] :
        IF lock[s] = Free
        THEN lock' = [lock EXCEPT ![s] = p] /\ Treated(p, s)
        ELSE Fail(p) /\ UNCHANGED lock
    BY DEF Mkdir
<1>2. pc[p] = "lock" /\ UNCHANGED <<receipt, job>>
    BY DEF Mkdir
<1>3. CASE lock[s] = Free
    <2>1. /\ pc' = pc /\ left'[p] = left[p] \ {s}
          /\ \A q \in Procs \ {p} : left'[q] = left[q]
        BY <1>1, <1>3 DEF Treated, WriterInv, Typed
    <2>2. Typed'
        BY <1>1, <1>2, <1>3 DEF Treated, WriterInv, Typed
    <2>3. \A q \in Procs : lock[s] # q
        BY <1>3, InstallAssumption
    <2>4. \A t \in Skills : lock'[t] = IF t = s THEN p ELSE lock[t]
        BY <1>1, <1>3 DEF WriterInv, Typed
    <2>5. AnchorTaken'
        <3>1. \A q \in Procs : lock[Anchor] = q => lock'[Anchor] = q
            BY <2>3, <2>4, AnchorKnown
        <3>2. Anchor = s => lock'[Anchor] = p
            BY <2>4, AnchorKnown
        <3> QED BY <1>2, <2>1, <3>1, <3>2 DEF WriterInv, AnchorTaken, Writing, Looping
    <2>6. ReleasesOwn'
        <3>1. \A q \in Procs, t \in Skills : lock[t] = q => lock'[t] = q
            BY <2>3, <2>4
        <3> QED BY <1>2, <2>1, <3>1 DEF WriterInv, ReleasesOwn
    <2> QED BY <2>2, <2>5, <2>6 DEF WriterInv
<1>4. CASE lock[s] # Free
    <2>1. Fail(p) /\ lock' = lock
        BY <1>1, <1>4
    <2>2. receipt' \in Receipts
        BY <1>2 DEF WriterInv, Typed
    <2> QED BY <1>2, <2>1, <2>2, FailKeeps
<1> QED BY <1>3, <1>4

LEMMA ReleaseOneKeeps ==
    ASSUME WriterInv, NEW p \in Procs, NEW s \in left[p], NEW l \in {Free, Stale},
           pc[p] = "release", lock' = [lock EXCEPT ![s] = l], Treated(p, s),
           UNCHANGED <<receipt, job>>
    PROVE  WriterInv'
<1>1. /\ pc' = pc /\ left'[p] = left[p] \ {s}
      /\ \A q \in Procs \ {p} : left'[q] = left[q]
    BY DEF Treated, WriterInv, Typed
<1>2. Typed'
    BY DEF Treated, WriterInv, Typed
<1>3. lock[s] = p
    BY DEF WriterInv, ReleasesOwn
<1>4. \A q \in Procs \ {p}, t \in Skills : lock[t] = q => lock'[t] = q
    BY <1>3 DEF WriterInv, Typed
<1>5. \A t \in Skills : t # s => lock'[t] = lock[t]
    BY DEF WriterInv, Typed
<1>6. AnchorTaken'
    BY <1>1, <1>4, AnchorKnown DEF WriterInv, AnchorTaken, Writing, Looping
<1>7. ReleasesOwn'
    BY <1>1, <1>4, <1>5 DEF WriterInv, ReleasesOwn
<1> QED BY <1>2, <1>6, <1>7 DEF WriterInv

-----------------------------------------------------------------------------
(* The second look *)

LEMMA BeginKeeps ==
    ASSUME WriterInv, NEW p \in Procs, lock[Anchor] = p,
           NEW flow \in {"install", "unlink", "remove"}, NEW next \in Receipts,
           NEW phase \in {"reserve", "mark"}, NEW S,
           Begin(p, flow, next, phase, S), UNCHANGED <<lock, receipt>>
    PROVE  WriterInv'
<1> DEFINE begun == [job[p] EXCEPT !.flow = flow, !.rec = receipt, !.next = next]
<1>1. begun \in Jobs
    <2>1. job[p] \in Jobs /\ receipt \in Receipts
        BY DEF WriterInv, Typed
    <2>2. flow \in {"none", "install", "unlink", "remove", "current", "absent"}
        OBVIOUS
    <2> QED BY <2>1, <2>2 DEF Jobs
<1>2. job' \in [Procs -> Jobs]
    BY <1>1 DEF Begin, WriterInv, Typed
<1>3. /\ pc'[p] = phase /\ left'[p] = S
      /\ \A q \in Procs \ {p} : pc'[q] = pc[q] /\ left'[q] = left[q]
    BY DEF Begin, WriterInv, Typed
<1>4. Typed'
    BY <1>2 DEF Begin, WriterInv, Typed
<1>5. AnchorTaken' /\ ReleasesOwn'
    BY <1>3 DEF WriterInv, AnchorTaken, ReleasesOwn
<1> QED BY <1>4, <1>5 DEF WriterInv

LEMMA EndsAtOnceKeeps ==
    ASSUME WriterInv, NEW p \in Procs, UNCHANGED <<lock, receipt>>,
           Refuse(p) \/ \E status \in {"current", "absent"} : Report(p, status)
    PROVE  WriterInv'
<1>1. Goto(p, "release")
    BY DEF Refuse, Report
<1>2. job' \in [Procs -> Jobs]
    <2>1. \A status \in {"current", "absent"} : [job[p] EXCEPT !.flow = status] \in Jobs
        <3>1. job[p] \in Jobs
            BY DEF WriterInv, Typed
        <3> QED BY <3>1 DEF Jobs
    <2> QED BY <2>1 DEF Refuse, Report, WriterInv, Typed
<1>3. receipt' \in Receipts /\ lock' = lock
    BY DEF WriterInv, Typed
<1> QED BY <1>1, <1>2, <1>3, GotoKeeps

LEMMA CheckKeeps ==
    ASSUME WriterInv, NEW p \in Procs, Check(p) PROVE WriterInv'
<1> DEFINE want == job[p].want
<1>1. UNCHANGED <<lock, receipt>> /\ lock[Anchor] = p
    BY DEF Check, disk, WriterInv, AnchorTaken
<1>2. want \subseteq Runtimes /\ Binary[p] \in Versions
    BY InstallAssumption DEF WriterInv, Typed, Jobs
<1>3. receipt # NoReceipt => receipt.version \in Versions /\ receipt.runtimes \subseteq Runtimes
    BY DEF WriterInv, Typed, Receipts
<1>4. CASE job[p].kind = "install"
    <2> DEFINE fresh == Load(Binary[p], want)
               more  == Load(Binary[p], receipt.runtimes \cup want)
               newer == Names[Binary[p]] \ Installed(receipt)
    <2>1. fresh \in Receipts
        BY <1>2 DEF Load, Receipts
    <2>2. receipt # NoReceipt => more \in Receipts
        BY <1>2, <1>3 DEF Load, Receipts
    <2>3. \/ Refuse(p) \/ Report(p, "current")
          \/ Begin(p, "install", fresh, "reserve", Names[Binary[p]])
          \/ receipt # NoReceipt /\ Begin(p, "install", more, "reserve", newer)
        BY <1>4 DEF Check, CheckInstall
    <2> HIDE DEF fresh, more, newer
    <2>4. CASE Refuse(p) \/ Report(p, "current")
        BY <2>4, <1>1, EndsAtOnceKeeps
    <2>5. CASE Begin(p, "install", fresh, "reserve", Names[Binary[p]])
        BY <2>1, <2>5, <1>1, BeginKeeps
    <2>6. CASE receipt # NoReceipt /\ Begin(p, "install", more, "reserve", newer)
        BY <2>2, <2>6, <1>1, BeginKeeps
    <2> QED BY <2>3, <2>4, <2>5, <2>6
<1>5. CASE job[p].kind # "install"
    <2>1. receipt # NoReceipt => Load(receipt.version, receipt.runtimes \ want) \in Receipts
        BY <1>2, <1>3 DEF Load, Receipts
    <2>2. NoReceipt \in Receipts
        BY DEF Receipts
    <2> DEFINE rest == Load(receipt.version, receipt.runtimes \ want)
    <2>3. \/ Refuse(p) \/ Report(p, "absent")
          \/ Begin(p, "remove", NoReceipt, "mark", Installed(job[p].seen))
          \/ receipt # NoReceipt /\ Begin(p, "unlink", rest, "mark", Installed(job[p].seen))
        BY <1>5 DEF Check, CheckUninstall
    <2>4. CASE Refuse(p) \/ Report(p, "absent")
        BY <2>4, <1>1, EndsAtOnceKeeps
    <2>5. CASE Begin(p, "remove", NoReceipt, "mark", Installed(job[p].seen))
        BY <2>2, <2>5, <1>1, BeginKeeps
    <2>6. CASE receipt # NoReceipt /\ Begin(p, "unlink", rest, "mark", Installed(job[p].seen))
        <3> HIDE DEF rest
        <3> QED BY <2>1, <2>6, <1>1, BeginKeeps DEF rest
    <2> QED BY <2>3, <2>4, <2>5, <2>6
<1> QED BY <1>4, <1>5

-----------------------------------------------------------------------------
(* The work and its failures *)

LEMMA PhaseEndsKeeps ==
    ASSUME WriterInv, NEW p \in Procs, PhaseEnds(p) PROVE WriterInv'
<1> DEFINE phase == Following(p, pc[p])
<1>1. /\ Goto(p, phase) /\ UNCHANGED <<lock, receipt, job>> /\ left[p] = {}
      /\ pc[p] \in (Writing \cup {"lock"}) \ {"clean"}
    BY DEF PhaseEnds, disk, Writing, Looping
<1>2. phase \in Writing \cup {"check", "release"}
    BY <1>1, FollowingLeads
<1>3. lock[Anchor] = p
    BY <1>1 DEF WriterInv, AnchorTaken
<1>4. job' \in [Procs -> Jobs] /\ receipt' \in Receipts
    BY <1>1 DEF WriterInv, Typed
<1> HIDE DEF phase
<1> QED BY <1>1, <1>2, <1>3, <1>4, GotoKeeps

LEMMA TreatedKeeps ==
    ASSUME WriterInv, NEW p \in Procs, NEW s, pc[p] # "lock", Treated(p, s),
           UNCHANGED <<lock, receipt, job>>
    PROVE  WriterInv'
<1>1. left' = [left EXCEPT ![p] = left[p] \ {s}] /\ pc' = pc
    BY DEF Treated, WriterInv, Typed
<1>2. left[p] \ {s} \subseteq left[p]
    OBVIOUS
<1> QED BY <1>1, <1>2, ListKeeps

LEMMA LockedGotoKeeps ==
    ASSUME WriterInv, NEW p \in Procs, NEW phase \in Writing \cup {"release"},
           Goto(p, phase), pc[p] \in Writing, UNCHANGED <<lock, job>>, receipt' \in Receipts
    PROVE  WriterInv'
<1>1. lock[Anchor] = p /\ job' \in [Procs -> Jobs]
    BY DEF WriterInv, AnchorTaken, Typed
<1> QED BY <1>1, GotoKeeps

LEMMA FailInWritingKeeps ==
    ASSUME WriterInv, NEW p \in Procs, pc[p] \in Writing, Fail(p),
           UNCHANGED <<lock, receipt, job>>
    PROVE  WriterInv'
<1>1. receipt' \in Receipts BY DEF WriterInv, Typed
<1> QED BY <1>1, FailKeeps

LEMMA WriteClaimKeeps ==
    ASSUME WriterInv, NEW p \in Procs, WriteClaim(p) PROVE WriterInv'
<1>1. pc[p] # "lock" /\ UNCHANGED <<lock, receipt, job>>
    BY DEF WriteClaim, Forward, Backward
<1>2. UNCHANGED <<pc, left>> \/ \E s \in left[p] : Treated(p, s)
    BY DEF WriteClaim
<1>3. CASE UNCHANGED <<pc, left>>
    BY <1>1, <1>3, SameKeeps
<1>4. CASE \E s \in left[p] : Treated(p, s)
    BY <1>1, <1>4, TreatedKeeps
<1> QED BY <1>2, <1>3, <1>4

LEMMA SwapKeeps ==
    ASSUME WriterInv, NEW p \in Procs, Look(p) \/ Place(p) PROVE WriterInv'
<1>1. pc[p] = "swap" /\ UNCHANGED <<lock, receipt, job>>
    BY DEF Look, Place
<1>2. pc[p] # "lock" /\ pc[p] \in Writing
    BY <1>1 DEF Writing, Looping
<1>3. Fail(p) \/ UNCHANGED <<pc, left>> \/ \E s \in left[p] : Treated(p, s)
    BY DEF Look, Place
<1>4. CASE Fail(p)
    BY <1>1, <1>2, <1>4, FailInWritingKeeps
<1>5. CASE UNCHANGED <<pc, left>>
    BY <1>1, <1>5, SameKeeps
<1>6. CASE \E s \in left[p] : Treated(p, s)
    BY <1>1, <1>2, <1>6, TreatedKeeps
<1> QED BY <1>3, <1>4, <1>5, <1>6

LEMMA MoveBackKeeps ==
    ASSUME WriterInv, NEW p \in Procs, Stage(p) \/ Undo(p) PROVE WriterInv'
<1>1. pc[p] # "lock" /\ UNCHANGED <<lock, receipt, job>>
    BY DEF Stage, Undo
<1>2. \E s \in left[p] : Treated(p, s)
    BY DEF Stage, Undo
<1> QED BY <1>1, <1>2, TreatedKeeps

LEMMA NewReceiptKnown ==
    ASSUME Typed, NEW p \in Procs PROVE NewReceipt(p) \in Receipts
<1>1. job[p] \in Jobs BY DEF Typed
<1> QED BY <1>1 DEF NewReceipt, Jobs

LEMMA WriteReceiptKeeps ==
    ASSUME WriterInv, NEW p \in Procs, WriteReceipt(p) PROVE WriterInv'
<1> DEFINE phase == Following(p, pc[p])
<1>1. Goto(p, phase) /\ UNCHANGED <<lock, job>> /\ receipt' = NewReceipt(p)
    BY DEF WriteReceipt
<1>2. pc[p] \in Writing /\ pc[p] # "lock" /\ pc[p] # "clean"
    BY DEF WriteReceipt, Writing, Looping
<1>3. phase \in Writing \cup {"release"}
    BY <1>2, FollowingLeads
<1>4. receipt' \in Receipts
    BY <1>1, NewReceiptKnown DEF WriterInv
<1> HIDE DEF phase
<1> QED BY <1>1, <1>2, <1>3, <1>4, LockedGotoKeeps

LEMMA CleanKeeps ==
    ASSUME WriterInv, NEW p \in Procs, Clean(p) \/ CleanFails(p) PROVE WriterInv'
<1>1. pc[p] = "clean" /\ UNCHANGED <<lock, receipt, job>>
    BY DEF Clean, CleanFails, disk
<1>2. pc[p] \in Writing
    BY <1>1 DEF Writing
<1>3. receipt' \in Receipts
    BY <1>1 DEF WriterInv, Typed
<1>4. Goto(p, "release") \/ Fail(p)
    BY DEF Clean, CleanFails
<1>5. CASE Goto(p, "release")
    BY <1>1, <1>2, <1>3, <1>5, LockedGotoKeeps
<1>6. CASE Fail(p)
    BY <1>1, <1>2, <1>6, FailInWritingKeeps
<1> QED BY <1>4, <1>5, <1>6

LEMMA ReleaseKeeps ==
    ASSUME WriterInv, NEW p \in Procs, Release(p) \/ ReleaseFails(p) PROVE WriterInv'
<1>1. pc[p] = "release" /\ UNCHANGED <<receipt, job>>
    BY DEF Release, ReleaseFails
<1>2. \E s \in left[p], l \in {Free, Stale} :
        lock' = [lock EXCEPT ![s] = l] /\ Treated(p, s)
    BY DEF Release, ReleaseFails
<1> QED BY <1>1, <1>2, ReleaseOneKeeps

\* An operation that has ended, or died, plays no part any more.
LEMMA IdleKeeps ==
    ASSUME WriterInv, NEW p \in Procs, Idle(p), UNCHANGED receipt,
           lock' \in [Skills -> Procs \cup {Free, Stale}],
           \A s \in Skills : \A q \in Procs \ {p} : lock[s] = q => lock'[s] = q
    PROVE  WriterInv'
<1>1. /\ pc'[p] = "idle"
      /\ \A q \in Procs \ {p} : pc'[q] = pc[q] /\ left'[q] = left[q]
    BY DEF Idle, WriterInv, Typed
<1>2. NoJob \in Jobs
    BY DEF NoJob, Jobs, Receipts
<1>3. Typed'
    BY <1>2 DEF Idle, WriterInv, Typed
<1>4. AnchorTaken'
    BY <1>1, AnchorKnown DEF WriterInv, AnchorTaken, Writing, Looping
<1>5. ReleasesOwn'
    BY <1>1 DEF WriterInv, ReleasesOwn
<1> QED BY <1>3, <1>4, <1>5 DEF WriterInv

LEMMA ReturnKeeps ==
    ASSUME WriterInv, NEW p \in Procs, Return(p) PROVE WriterInv'
<1>1. Idle(p) /\ UNCHANGED <<lock, receipt>>
    BY DEF Return, disk
<1>2. lock' \in [Skills -> Procs \cup {Free, Stale}]
    BY <1>1 DEF WriterInv, Typed
<1> QED BY <1>1, <1>2, IdleKeeps

LEMMA CrashKeeps ==
    ASSUME WriterInv, NEW p \in Procs, Crash(p) PROVE WriterInv'
<1>1. /\ Idle(p) /\ UNCHANGED receipt
      /\ lock' = [s \in Skills |-> IF lock[s] = p THEN Stale ELSE lock[s]]
    BY DEF Crash
<1>2. lock' \in [Skills -> Procs \cup {Free, Stale}]
    BY <1>1 DEF WriterInv, Typed
<1>3. \A s \in Skills : \A q \in Procs \ {p} : lock[s] = q => lock'[s] = q
    BY <1>1
<1> QED BY <1>1, <1>2, <1>3, IdleKeeps

LEMMA FailsKeeps ==
    ASSUME WriterInv, NEW p \in Procs, FailsEarly(p) \/ FailsLate(p) PROVE WriterInv'
<1>1. Fail(p) /\ UNCHANGED <<lock, job>>
    BY DEF FailsEarly, FailsLate, disk
<1>2. pc[p] \in Writing \cup {"lock"}
    BY DEF FailsEarly, FailsLate, CanFail, Forward, Writing, Looping
<1>3. receipt' = receipt \/ receipt' = NewReceipt(p)
    BY DEF FailsEarly, FailsLate, disk
<1>4. receipt' \in Receipts
    BY <1>3, NewReceiptKnown DEF WriterInv, Typed
<1> QED BY <1>1, <1>2, <1>4, FailKeeps

LEMMA BackFailsKeeps ==
    ASSUME WriterInv, NEW p \in Procs, BackFails(p) PROVE WriterInv'
<1>1. pc[p] # "lock" /\ UNCHANGED <<lock, receipt, job, pc>>
    BY DEF BackFails, Backward, disk
<1>2. PICK s \in left[p] :
        left' = [left EXCEPT ![p] = IF pc[p] = "undo" THEN @ \ {s} ELSE {}]
    BY DEF BackFails
<1> DEFINE S == IF pc[p] = "undo" THEN left[p] \ {s} ELSE {}
<1>3. left' = [left EXCEPT ![p] = S] /\ S \subseteq left[p]
    BY <1>2 DEF WriterInv, Typed
<1> HIDE DEF S
<1> QED BY <1>1, <1>3, ListKeeps

LEMMA RestoreFailsKeeps ==
    ASSUME WriterInv, NEW p \in Procs, RestoreFails(p) PROVE WriterInv'
<1>1. Goto(p, "revive") /\ UNCHANGED <<lock, receipt, job>>
    BY DEF RestoreFails, Following, disk
<1>2. pc[p] \in Writing /\ "revive" \in Writing
    BY DEF RestoreFails, Writing, Looping
<1>3. receipt' \in Receipts
    BY <1>1 DEF WriterInv, Typed
<1> QED BY <1>1, <1>2, <1>3, LockedGotoKeeps

LEMMA RemoveStaleLockKeeps ==
    ASSUME WriterInv, NEW s \in Skills, RemoveStaleLock(s) PROVE WriterInv'
<1>1. /\ lock[s] = Stale /\ lock' = [lock EXCEPT ![s] = Free]
      /\ UNCHANGED <<receipt, pc, left, job>>
    BY DEF RemoveStaleLock, procVars
<1>2. Typed'
    BY <1>1 DEF WriterInv, Typed
<1>3. \A t \in Skills, q \in Procs : lock[t] = q => lock'[t] = q
    BY <1>1, InstallAssumption DEF WriterInv, Typed
<1>4. AnchorTaken' /\ ReleasesOwn'
    BY <1>1, <1>3, AnchorKnown DEF WriterInv, AnchorTaken, ReleasesOwn
<1> QED BY <1>2, <1>4 DEF WriterInv

LEMMA AddTreeKeeps ==
    ASSUME WriterInv, NEW s \in Skills, AddTree(s) PROVE WriterInv'
BY SameKeeps DEF AddTree, procVars

-----------------------------------------------------------------------------
(* The theorem *)

LEMMA WriterInit == Init => WriterInv
<1> SUFFICES ASSUME Init PROVE WriterInv
    OBVIOUS
<1>1. NoJob \in Jobs /\ NoReceipt \in Receipts
    BY DEF NoJob, Jobs, Receipts
<1>2. Typed
    BY <1>1 DEF Init, ProtocolInit, Typed
<1>3. AnchorTaken /\ ReleasesOwn
    BY DEF Init, AnchorTaken, ReleasesOwn, Writing, Looping
<1> QED BY <1>2, <1>3 DEF WriterInv

LEMMA WriterStep == WriterInv /\ [Next]_vars => WriterInv'
<1> SUFFICES ASSUME WriterInv, [Next]_vars PROVE WriterInv'
    OBVIOUS
<1>1. ASSUME NEW p \in Procs, GoOn(p) PROVE WriterInv'
    BY <1>1, PhaseEndsKeeps, ReadKeeps, MkdirKeeps, CheckKeeps, WriteClaimKeeps, SwapKeeps,
       MoveBackKeeps, WriteReceiptKeeps, CleanKeeps, ReleaseKeeps, ReturnKeeps DEF GoOn
<1>2. ASSUME NEW p \in Procs, Disturbed(p) PROVE WriterInv'
    BY <1>2, FailsKeeps, BackFailsKeeps, RestoreFailsKeeps, CleanKeeps, ReleaseKeeps,
       CrashKeeps DEF Disturbed
<1>3. ASSUME NEW p \in Procs, Start(p) PROVE WriterInv'
    BY <1>3, StartKeeps
<1>4. ASSUME NEW s \in Skills, RemoveStaleLock(s) \/ AddTree(s) PROVE WriterInv'
    BY <1>4, RemoveStaleLockKeeps, AddTreeKeeps
<1>5. CASE UNCHANGED vars
    BY <1>5, SameKeeps DEF vars, disk, procVars
<1> QED BY <1>1, <1>2, <1>3, <1>4, <1>5 DEF Next

\* The invariant holds throughout (install_flow.go:125-143, uninstall.go:126-140,
\* claim_locks.go:26-113).
THEOREM WriterInvHolds == Spec => []WriterInv
<1> QED BY WriterInit, WriterStep, PTL DEF Spec

\* Of all processes that install into or remove from one destination, at most
\* one at a time is past the second look (install_flow.go:125-143,
\* uninstall.go:126-140).
THEOREM OneWriterHolds == Spec => []OneWriter
<1>1. WriterInv => OneWriter
    BY DEF WriterInv, AnchorTaken, OneWriter
<1> QED BY <1>1, WriterInvHolds, PTL

\* A process releases only locks that it took itself (claim_locks.go:86-113).
THEOREM ReleasesOwnHolds == Spec => []ReleasesOwn
<1>1. WriterInv => ReleasesOwn
    BY DEF WriterInv
<1> QED BY <1>1, WriterInvHolds, PTL

-----------------------------------------------------------------------------
(* The claims of an operation *)

\* What an operation that has begun needs to hold locks for.
Needed(p) == IF job[p].kind = "install" THEN Names[Binary[p]] ELSE Installed(job[p].seen)

\* Which operation gets where.
FlowFits(p) ==
    /\ pc[p] \in Writing => job[p].flow \in {"install", "unlink", "remove"}
    /\ job[p].flow = "install" => job[p].kind = "install"
    /\ pc[p] \in {"reserve", "swap", "admit", "unadmit"} => job[p].flow = "install"
    /\ pc[p] \in {"stage", "drop", "forget"} => job[p].flow = "remove"
    /\ pc[p] \in {"record", "activate"} => job[p].flow \in {"install", "unlink"}
    /\ pc[p] \in Writing /\ job[p].kind # "install" => job[p].seen # NoReceipt
    /\ pc[p] \in Writing /\ job[p].flow # "remove" => job[p].next \in Loads

LocksFit(p) ==
    /\ pc[p] = "lock" => Needed(p) \subseteq left[p] \cup Held(p)
    /\ pc[p] = "check" => Needed(p) \subseteq Held(p)
    /\ pc[p] \in Writing => Needed(p) \cup Old(p) \cup Added(p) \subseteq Held(p)

ListFits(p) ==
    /\ pc[p] \in {"mark", "activate", "drop", "revive"} => left[p] \subseteq Old(p)
    /\ pc[p] \in {"reserve", "admit"} => left[p] \subseteq Added(p)
    /\ pc[p] \in {"unadmit", "withdraw"} => left[p] \subseteq mine[p]

BaseFits(p) ==
    pc[p] \in Writing => \A s \in Old(p) :
        base[p][s] \in Claims /\ base[p][s].producer = "dva" /\ base[p][s].state = "active"

MineFits(p) ==
    /\ pc[p] \in {"idle", "read", "lock", "check"} => mine[p] = {}
    /\ pc[p] = "reserve" => mine[p] \cap left[p] = {}
    /\ pc[p] \in Writing => /\ mine[p] \subseteq Added(p)
                            /\ \A s \in mine[p] : claim[s] # Torn

CanGoBack(p, s) ==
    \/ claim[s] = NoClaim
    \/ /\ claim[s] \in Claims
       /\ claim[s].state \in {"reserved", "releasing"} => claim[s].load = base[p][s].load

\* How far the claim of s is: as it was read, marked, or on its way.
Unmarked(p, s) == pc[p] = "reserve" \/ (pc[p] = "mark" /\ s \in left[p])
IsMarked(p, s) == \/ pc[p] = "mark" /\ s \notin left[p]
                  \/ pc[p] \in {"swap", "record", "stage"}
                  \/ pc[p] \in {"activate", "drop"} /\ s \in left[p]
PastMark(p, s) == \/ pc[p] \in {"activate", "drop"} /\ s \notin left[p]
                  \/ pc[p] \in {"admit", "forget", "unadmit", "undo", "restore", "revive"}
OldFits(p) == \A s \in Old(p) :
    /\ Unmarked(p, s) => claim[s] = base[p][s]
    /\ IsMarked(p, s) => claim[s] = Marked(p, base[p][s])
    /\ PastMark(p, s) => CanGoBack(p, s)

IsReserved(p, s) == \/ pc[p] = "reserve" /\ s \notin left[p]
                    \/ pc[p] \in {"mark", "swap", "record", "activate"}
                    \/ pc[p] = "admit" /\ s \in left[p]
AddedFits(p) == \A s \in Added(p) :
    /\ pc[p] = "reserve" /\ s \in left[p] => claim[s] = NoClaim
    /\ IsReserved(p, s) => claim[s] = Reserved(job[p].next)
OpFits(p) == FlowFits(p) /\ LocksFit(p) /\ ListFits(p) /\ BaseFits(p) /\ MineFits(p) /\ OldFits(p) /\ AddedFits(p)
OpsFit == \A p \in Procs : OpFits(p)

ClaimTyped ==
    /\ claim \in [Skills -> Claims \cup {NoClaim, Torn}]
    /\ base \in [Procs -> [Skills -> Claims \cup {NoClaim}]]
    /\ mine \in [Procs -> SUBSET Skills]
    /\ pc \in [Procs -> Phases]
    /\ left \in [Procs -> SUBSET Skills]

ProtoInv == WriterInv /\ ClaimTyped /\ OpsFit

\* What the protocol says of one write.
Legal(c, d) ==
    \/ c = NoClaim /\ (d = Torn \/ MayCreate(d))
    \/ Readable(c) /\ Readable(d) /\ MaySwap(c, d)
    \/ Readable(c) /\ MayRemove(c) /\ d = NoClaim

-----------------------------------------------------------------------------
(* Claims, and the writes that the protocol allows *)

LEMMA InstalledKnown ==
    ASSUME NEW r \in Receipts PROVE Installed(r) \subseteq Skills
<1>1. r # NoReceipt => r.version \in Versions
    BY DEF Receipts
<1> QED BY <1>1, InstallAssumption DEF Installed

LEMMA OldKnown ==
    ASSUME Typed, NEW p \in Procs
    PROVE  Old(p) \subseteq Skills /\ Installed(job[p].rec) \subseteq Skills
<1>1. job[p].rec \in Receipts /\ job[p].seen \in Receipts
    BY DEF Typed, Jobs
<1> QED BY <1>1, InstalledKnown DEF Old, Claimed

LEMMA ReservedKnown ==
    ASSUME NEW load \in Loads
    PROVE  /\ Reserved(load) \in Claims /\ MayCreate(Reserved(load))
           /\ Reserved(load).producer = "dva" /\ Reserved(load).state = "reserved"
           /\ Reserved(load).load = load
BY DEF Reserved, Claims, ClaimStates, MayCreate

LEMMA MovedKnown ==
    ASSUME NEW c \in Claims, NEW state \in ClaimStates, NEW op \in {0, 1}, NEW load \in Loads
    PROVE  /\ Moved(c, state, op, load) \in Claims
           /\ Moved(c, state, op, load).producer = c.producer
           /\ Moved(c, state, op, load).state = state
           /\ Moved(c, state, op, load).op = op
           /\ Moved(c, state, op, load).load = load
           /\ Moved(c, state, op, load).generation = c.generation + 1
<1>1. c.generation + 1 \in Nat /\ c.producer \in {"dva", "other"}
    BY DEF Claims
<1> QED BY <1>1 DEF Moved, Claims

LEMMA ClaimKnown ==
    ASSUME NEW c \in Claims
    PROVE  /\ Readable(c) /\ c.state \in ClaimStates /\ c.load \in Loads
           /\ c.op \in {0, 1} /\ NewOp(c) \in {0, 1} /\ NewOp(c) # c.op
<1>1. c.op \in {0, 1} /\ c.state \in ClaimStates /\ c.load \in Loads
    BY DEF Claims
<1>2. NewOp(c) \in {0, 1} /\ NewOp(c) # c.op
    BY <1>1 DEF NewOp
<1> QED BY <1>1, <1>2, ValuesDiffer DEF Readable

LEMMA SwapsLegally ==
    ASSUME NEW c \in Claims, NEW state \in ClaimStates, NEW op \in {0, 1}, NEW load \in Loads,
           \/ c.state = "active" /\ op # c.op /\ state = "updating"
           \/ c.state = "active" /\ op # c.op /\ state = "releasing" /\ load = c.load
           \/ c.state = "updating" /\ op = c.op /\ state = "active"
           \/ c.state \in {"reserved", "releasing"} /\ op = c.op /\ state = "active" /\ load = c.load
    PROVE  Moved(c, state, op, load) \in Claims /\ Legal(c, Moved(c, state, op, load))
<1> DEFINE d == Moved(c, state, op, load)
<1>1. /\ d \in Claims /\ d.producer = c.producer /\ d.state = state /\ d.op = op
      /\ d.load = load /\ d.generation = c.generation + 1
    BY MovedKnown
<1> HIDE DEF d
<1>2. AllowedTransition(c, d)
    BY <1>1 DEF AllowedTransition, FromReserved, FromActive, BackToActive, SamePayload,
       SameIdentity
<1>3. Readable(c) /\ Readable(d)
    BY <1>1, ClaimKnown
<1>4. d \in Claims /\ Legal(c, d)
    BY <1>1, <1>2, <1>3 DEF Legal, MaySwap
<1> QED BY <1>4 DEF d

LEMMA MarkedKnown ==
    ASSUME NEW p, NEW c \in Claims, c.state = "active",
           job[p].flow = "remove" \/ job[p].next \in Loads
    PROVE  /\ Marked(p, c) \in Claims /\ Legal(c, Marked(p, c))
           /\ Marked(p, c).state \in {"updating", "releasing"}
           /\ Marked(p, c).state = "releasing" => Marked(p, c).load = c.load
           /\ job[p].flow = "remove" <=> Marked(p, c).state = "releasing"
<1>1. c.load \in Loads /\ NewOp(c) \in {0, 1} /\ NewOp(c) # c.op
    BY ClaimKnown
<1>2. {"updating", "releasing"} \subseteq ClaimStates
    BY DEF ClaimStates
<1>3. CASE job[p].flow = "remove"
    <2>1. Marked(p, c) = Moved(c, "releasing", NewOp(c), c.load)
        BY <1>3 DEF Marked
    <2>2. /\ Moved(c, "releasing", NewOp(c), c.load).state = "releasing"
          /\ Moved(c, "releasing", NewOp(c), c.load).load = c.load
        BY <1>1, <1>2, MovedKnown
    <2>3. /\ Moved(c, "releasing", NewOp(c), c.load) \in Claims
          /\ Legal(c, Moved(c, "releasing", NewOp(c), c.load))
        BY <1>1, <1>2, SwapsLegally
    <2> QED BY <1>3, <2>1, <2>2, <2>3
<1>4. CASE job[p].flow # "remove"
    <2>1. Marked(p, c) = Moved(c, "updating", NewOp(c), job[p].next) /\ job[p].next \in Loads
        BY <1>4 DEF Marked
    <2>2. Moved(c, "updating", NewOp(c), job[p].next).state = "updating"
        BY DEF Moved
    <2>3. /\ Moved(c, "updating", NewOp(c), job[p].next) \in Claims
          /\ Legal(c, Moved(c, "updating", NewOp(c), job[p].next))
        BY <1>1, <1>2, <2>1, SwapsLegally
    <2> QED BY <1>4, <2>1, <2>2, <2>3
<1> QED BY <1>3, <1>4

LEMMA BaseKnown ==
    ASSUME ProtoInv, NEW p \in Procs, pc[p] \in Writing, NEW s \in Old(p)
    PROVE  /\ s \in Skills /\ base[p][s] \in Claims /\ base[p][s].state = "active"
           /\ job[p].flow = "remove" \/ job[p].next \in Loads
BY OldKnown DEF ProtoInv, WriterInv, OpsFit, OpFits, BaseFits, FlowFits

\* Until its claims go back or are done, an operation can take them back.
LEMMA MayGoBack ==
    ASSUME ProtoInv, NEW p \in Procs, pc[p] \in Writing \ {"withdraw", "clean"}, NEW s \in Old(p)
    PROVE  CanGoBack(p, s)
<1>1. OldFits(p)
    BY DEF ProtoInv, OpsFit, OpFits
<1>2. /\ base[p][s] \in Claims /\ base[p][s].state = "active"
      /\ job[p].flow = "remove" \/ job[p].next \in Loads
    BY BaseKnown
<1>3. CASE claim[s] = base[p][s]
    BY <1>2, <1>3 DEF CanGoBack
<1>4. CASE claim[s] = Marked(p, base[p][s])
    BY <1>2, <1>4, MarkedKnown DEF CanGoBack
<1>5. Unmarked(p, s) \/ IsMarked(p, s) \/ PastMark(p, s)
    BY DEF Writing, Looping, Unmarked, IsMarked, PastMark
<1> QED BY <1>1, <1>3, <1>4, <1>5 DEF OldFits

\* Each write that an operation makes is one that the protocol allows.
LEMMA BackLegal ==
    ASSUME NEW c \in Claims \cup {NoClaim}, NEW load \in Loads,
           c \in Claims /\ c.state \in {"reserved", "releasing"} => c.load = load
    PROVE  /\ TowardActive(c, load) \in Claims /\ Legal(c, TowardActive(c, load))
           /\ TowardActive(c, load).state \in {"reserved", "releasing"} =>
                 TowardActive(c, load).load = load
<1>1. CASE c = NoClaim
    BY <1>1, ReservedKnown DEF TowardActive, Legal
<1>2. CASE c # NoClaim /\ c.state = "active"
    <2>1. c \in Claims /\ NewOp(c) \in {0, 1} /\ NewOp(c) # c.op /\ "updating" \in ClaimStates
        BY <1>2, ClaimKnown DEF ClaimStates
    <2>2. TowardActive(c, load) = Moved(c, "updating", NewOp(c), load)
        BY <1>2 DEF TowardActive
    <2> QED BY <1>2, <2>1, <2>2, SwapsLegally, MovedKnown
<1>3. CASE c # NoClaim /\ c.state # "active"
    <2>1. c \in Claims /\ c.op \in {0, 1} /\ "active" \in ClaimStates
        BY <1>3, ClaimKnown DEF ClaimStates
    <2>2. c.state \in {"reserved", "releasing", "updating"}
        BY <1>3, <2>1, ClaimKnown DEF ClaimStates
    <2>3. TowardActive(c, load) = Moved(c, "active", c.op, load)
        BY <1>3 DEF TowardActive
    <2>4. \/ c.state = "updating"
          \/ c.state \in {"reserved", "releasing"} /\ load = c.load
        BY <2>1, <2>2
    <2>5. Moved(c, "active", c.op, load) \in Claims /\ Legal(c, Moved(c, "active", c.op, load))
        BY <2>1, <2>4, SwapsLegally
    <2>6. Moved(c, "active", c.op, load).load = load
        BY <2>1, MovedKnown
    <2> QED BY <2>3, <2>5, <2>6
<1> QED BY <1>1, <1>2, <1>3

LEMMA AwayLegal ==
    ASSUME NEW c \in Claims
    PROVE  TowardAbsent(c) \in Claims \cup {NoClaim} /\ Legal(c, TowardAbsent(c))
<1>1. /\ c.op \in {0, 1} /\ NewOp(c) \in {0, 1} /\ NewOp(c) # c.op /\ c.load \in Loads
      /\ c.state \in ClaimStates /\ Readable(c) /\ {"active", "releasing"} \subseteq ClaimStates
    BY ClaimKnown DEF ClaimStates
<1>2. CASE c.state \in {"reserved", "updating"}
    <2>1. TowardAbsent(c) = Moved(c, "active", c.op, c.load)
        BY <1>2 DEF TowardAbsent
    <2> QED BY <1>1, <1>2, <2>1, SwapsLegally
<1>3. CASE c.state = "active"
    <2>1. TowardAbsent(c) = Moved(c, "releasing", NewOp(c), c.load)
        BY <1>3 DEF TowardAbsent
    <2> QED BY <1>1, <1>3, <2>1, SwapsLegally
<1>4. CASE c.state = "releasing"
    BY <1>1, <1>4 DEF TowardAbsent, Legal, MayRemove
<1> QED BY <1>1, <1>2, <1>3, <1>4 DEF ClaimStates

LEMMA ForwardLegal ==
    ASSUME ProtoInv, NEW p \in Procs, pc[p] \in Forward, NEW s \in left[p]
    PROVE  /\ s \in Old(p) \cup Added(p)
           /\ NewClaim(p, s) \in Claims \cup {NoClaim} /\ Legal(claim[s], NewClaim(p, s))
           /\ pc[p] = "reserve" => /\ NewClaim(p, s) = Reserved(job[p].next)
                                   /\ claim[s] = NoClaim
           /\ pc[p] = "mark" => NewClaim(p, s) = Marked(p, base[p][s])
           /\ pc[p] \in {"activate", "drop"} =>
                 \/ NewClaim(p, s) = NoClaim
                 \/ NewClaim(p, s) \in Claims /\ NewClaim(p, s).state = "active"
           /\ pc[p] # "drop" => NewClaim(p, s) \in Claims
<1>1. pc[p] \in Writing /\ OpFits(p) /\ Typed
    BY DEF Forward, Writing, Looping, ProtoInv, OpsFit, WriterInv
<1>2. "active" \in ClaimStates
    BY DEF ClaimStates
<1>3. CASE pc[p] = "reserve"
    <2>1. NewClaim(p, s) = Reserved(job[p].next) /\ claim[s] = NoClaim /\ s \in Added(p)
        BY <1>1, <1>3 DEF NewClaim, OpFits, AddedFits, ListFits
    <2>2. job[p].next \in Loads
        BY <1>1, <1>3 DEF OpFits, FlowFits
    <2> QED BY <1>3, <2>1, <2>2, ReservedKnown DEF Legal
<1>4. CASE pc[p] = "mark"
    <2>1. s \in Old(p) /\ claim[s] = base[p][s]
        BY <1>1, <1>4 DEF OpFits, OldFits, ListFits, Unmarked
    <2>2. NewClaim(p, s) = Marked(p, base[p][s])
        BY <1>4, <2>1 DEF NewClaim
    <2>3. /\ base[p][s] \in Claims /\ base[p][s].state = "active"
          /\ job[p].flow = "remove" \/ job[p].next \in Loads
        BY <1>1, <2>1, BaseKnown
    <2> QED BY <1>4, <2>1, <2>2, <2>3, MarkedKnown
<1>5. CASE pc[p] = "activate"
    <2>1. s \in Old(p) /\ claim[s] = Marked(p, base[p][s])
        BY <1>1, <1>5 DEF OpFits, OldFits, ListFits, IsMarked
    <2>2. /\ base[p][s] \in Claims /\ base[p][s].state = "active"
          /\ job[p].flow # "remove" /\ job[p].next \in Loads
        BY <1>1, <1>5, <2>1, BaseKnown DEF OpFits, FlowFits
    <2>3. claim[s] \in Claims /\ claim[s].state = "updating"
        BY <2>1, <2>2, MarkedKnown
    <2>4. NewClaim(p, s) = Moved(claim[s], "active", claim[s].op, claim[s].load)
        BY <1>5 DEF NewClaim
    <2>5. claim[s].op \in {0, 1} /\ claim[s].load \in Loads
        BY <2>3, ClaimKnown
    <2> QED BY <1>2, <1>5, <2>1, <2>3, <2>4, <2>5, SwapsLegally, MovedKnown
<1>6. CASE pc[p] = "admit"
    <2>1. s \in Added(p) /\ claim[s] = Reserved(job[p].next)
        BY <1>1, <1>6 DEF OpFits, AddedFits, ListFits, IsReserved
    <2>2. job[p].next \in Loads
        BY <1>1, <1>6 DEF OpFits, FlowFits, Writing, Looping
    <2>3. claim[s] \in Claims /\ claim[s].state = "reserved"
        BY <2>1, <2>2, ReservedKnown
    <2>4. NewClaim(p, s) = Moved(claim[s], "active", claim[s].op, claim[s].load)
        BY <1>6 DEF NewClaim
    <2>5. claim[s].op \in {0, 1} /\ claim[s].load \in Loads
        BY <2>3, ClaimKnown
    <2> QED BY <1>2, <1>6, <2>1, <2>3, <2>4, <2>5, SwapsLegally
<1>7. CASE pc[p] = "drop"
    <2>1. s \in Old(p) /\ claim[s] = Marked(p, base[p][s])
        BY <1>1, <1>7 DEF OpFits, OldFits, ListFits, IsMarked
    <2>2. /\ base[p][s] \in Claims /\ base[p][s].state = "active"
          /\ job[p].flow = "remove"
        BY <1>1, <1>7, <2>1, BaseKnown DEF OpFits, FlowFits
    <2>3. claim[s] \in Claims /\ claim[s].state = "releasing"
        BY <2>1, <2>2, MarkedKnown
    <2>4. NewClaim(p, s) = NoClaim
        BY <1>7 DEF NewClaim
    <2> QED BY <1>7, <2>1, <2>3, <2>4, ClaimKnown DEF Legal, MayRemove
<1> QED BY <1>3, <1>4, <1>5, <1>6, <1>7 DEF Forward

LEMMA BackwardLegal ==
    ASSUME ProtoInv, NEW p \in Procs, pc[p] \in Backward, NEW s \in left[p], ~BackThere(p, s)
    PROVE  /\ s \in Old(p) \cup Added(p)
           /\ NewClaim(p, s) \in Claims \cup {NoClaim} /\ Legal(claim[s], NewClaim(p, s))
           /\ pc[p] = "revive" =>
                 /\ s \in Old(p) /\ NewClaim(p, s) \in Claims
                 /\ NewClaim(p, s).state \in {"reserved", "releasing"} =>
                       NewClaim(p, s).load = base[p][s].load
           /\ pc[p] # "revive" => s \in mine[p]
<1>1. pc[p] \in Writing /\ OpFits(p) /\ Typed /\ ClaimTyped
    BY DEF Backward, Writing, Looping, ProtoInv, OpsFit, WriterInv
<1>2. CASE pc[p] = "revive"
    <2>1. s \in Old(p)
        BY <1>1, <1>2 DEF OpFits, ListFits
    <2>2. base[p][s] \in Claims /\ base[p][s].load \in Loads
        BY <1>1, <2>1, BaseKnown, ClaimKnown
    <2>3. CanGoBack(p, s)
        BY <1>1, <1>2, <2>1, MayGoBack
    <2>4. NewClaim(p, s) = TowardActive(claim[s], base[p][s].load)
        BY <1>2 DEF NewClaim
    <2>5. /\ claim[s] \in Claims \cup {NoClaim}
          /\ claim[s] \in Claims /\ claim[s].state \in {"reserved", "releasing"} =>
                claim[s].load = base[p][s].load
        BY <2>3, ValuesDiffer DEF CanGoBack
    <2> QED BY <1>2, <2>1, <2>2, <2>4, <2>5, BackLegal
<1>3. CASE pc[p] # "revive"
    <2>1. s \in mine[p] /\ mine[p] \subseteq Added(p) /\ claim[s] # Torn
        BY <1>1, <1>3 DEF OpFits, ListFits, MineFits, Backward
    <2>2. s \in Skills /\ claim[s] # NoClaim
        BY <1>1, <1>3 DEF ClaimTyped, BackThere
    <2>3. claim[s] \in Claims
        BY <1>1, <2>1, <2>2 DEF ClaimTyped
    <2>4. NewClaim(p, s) = TowardAbsent(claim[s])
        BY <1>3 DEF NewClaim, Backward
    <2> QED BY <1>3, <2>1, <2>3, <2>4, AwayLegal
<1> QED BY <1>2, <1>3

-----------------------------------------------------------------------------
(* What the steps of others leave alone, and where phases lead *)

LEMMA OldStays ==
    ASSUME NEW p, job'[p].kind = job[p].kind, job'[p].seen = job[p].seen,
           job'[p].rec = job[p].rec
    PROVE  Old(p)' = Old(p)
BY DEF Old, Claimed, Installed

LEMMA AddedStays ==
    ASSUME NEW p, job'[p] = job[p]
    PROVE  Added(p)' = Added(p)
BY DEF Added, Installed

LEMMA NeededStays ==
    ASSUME NEW p, job'[p] = job[p]
    PROVE  Needed(p)' = Needed(p)
BY DEF Needed, Installed

\* What the others do leaves an operation where it is.
LEMMA OthersFit ==
    ASSUME OpsFit, NEW q \in Procs, Typed,
           pc'[q] = pc[q], left'[q] = left[q], job'[q] = job[q], base'[q] = base[q],
           mine'[q] = mine[q],
           \A s \in Skills : lock[s] = q => lock'[s] = q /\ claim'[s] = claim[s]
    PROVE  OpFits(q)'
<1>1. OpFits(q) /\ Old(q)' = Old(q) /\ Added(q)' = Added(q)
    BY OldStays, AddedStays DEF OpsFit
<1>2. Held(q) \subseteq Held(q)' /\ \A s \in Held(q) : claim'[s] = claim[s]
    BY DEF Held
<1>3. pc[q] \in Writing => \A s \in Old(q) \cup Added(q) \cup mine[q] : claim'[s] = claim[s]
    BY <1>1, <1>2 DEF OpFits, LocksFit, MineFits
<1>4. FlowFits(q)' /\ ListFits(q)' /\ BaseFits(q)'
    BY <1>1 DEF OpFits, FlowFits, ListFits, BaseFits
<1>5. LocksFit(q)'
    <2>1. Needed(q)' = Needed(q)
        BY DEF Needed, Installed
    <2> QED BY <1>1, <1>2, <2>1 DEF OpFits, LocksFit
<1>6. MineFits(q)'
    BY <1>1, <1>3 DEF OpFits, MineFits
<1>7. \A s \in Old(q) : Marked(q, base[q][s])' = Marked(q, base[q][s])
    BY DEF Marked
<1>8. CASE pc[q] \in Writing
    <2>1. OldFits(q)'
        BY <1>1, <1>3, <1>7, <1>8 DEF OpFits, OldFits, Unmarked, IsMarked, PastMark, CanGoBack
    <2>2. AddedFits(q)'
        BY <1>1, <1>3, <1>8 DEF OpFits, AddedFits, IsReserved
    <2> QED BY <1>4, <1>5, <1>6, <2>1, <2>2 DEF OpFits
<1>9. CASE pc[q] \notin Writing
    <2>1. OldFits(q)' /\ AddedFits(q)'
        BY <1>9 DEF OldFits, AddedFits, Unmarked, IsMarked, PastMark, IsReserved, Writing, Looping
    <2> QED BY <1>4, <1>5, <1>6, <2>1 DEF OpFits
<1> QED BY <1>8, <1>9

\* Before and after the work the claims are nobody's.
LEMMA OutsideFits ==
    ASSUME NEW p, pc'[p] \in {"idle", "read", "lock", "check", "release"},
           job'[p].flow = "install" => job'[p].kind = "install",
           pc'[p] # "release" => mine'[p] = {},
           pc'[p] = "lock" => (Needed(p) \subseteq left[p] \cup Held(p))',
           pc'[p] = "check" => (Needed(p) \subseteq Held(p))'
    PROVE  OpFits(p)'
BY DEF OpFits, FlowFits, LocksFit, ListFits, BaseFits, MineFits, OldFits, AddedFits,
   Unmarked, IsMarked, PastMark, IsReserved, Writing, Looping

\* On the way back, and when all is done, only this is needed.
Backwards == {"unadmit", "undo", "restore", "revive", "withdraw"}

LEMMA BackFits ==
    ASSUME ProtoInv, NEW p \in Procs, pc[p] \in Writing, UNCHANGED <<job, base, mine, lock>>,
           NEW phase \in Backwards \cup {"clean", "release"},
           pc'[p] = phase, phase \in {"unadmit", "revive", "withdraw"} => left'[p] = Work(p, phase),
           phase = "unadmit" => job[p].flow = "install",
           \A s \in Old(p) : CanGoBack(p, s)' \/ phase \in {"withdraw", "clean", "release"},
           \A s \in mine[p] : claim'[s] # Torn
    PROVE  OpFits(p)'
<1>1. OpFits(p) /\ Old(p)' = Old(p) /\ Added(p)' = Added(p) /\ Held(p)' = Held(p)
      /\ Needed(p)' = Needed(p)
    BY OldStays, AddedStays, NeededStays DEF ProtoInv, OpsFit, Held
<1>2. FlowFits(p)'
    BY <1>1 DEF OpFits, FlowFits, Backwards, Writing, Looping
<1>3. LocksFit(p)' /\ BaseFits(p)'
    BY <1>1 DEF OpFits, LocksFit, BaseFits, Backwards, Writing, Looping
<1>4. ListFits(p)'
    BY <1>1 DEF ListFits, Work, Backwards
<1>5. MineFits(p)'
    BY <1>1 DEF OpFits, MineFits, Backwards
<1>6. OldFits(p)' /\ AddedFits(p)'
    BY <1>1 DEF OldFits, AddedFits, Unmarked, IsMarked, PastMark, IsReserved, Backwards
<1> QED BY <1>2, <1>3, <1>4, <1>5, <1>6 DEF OpFits

\* The work, one phase to the next.
LEMMA OnwardFits ==
    ASSUME ProtoInv, NEW p \in Procs, NEW phase, UNCHANGED <<job, base, mine, lock, claim>>,
           pc'[p] = phase, left'[p] = Work(p, phase), left[p] = {} \/ pc[p] = "record",
           \/ pc[p] = "reserve" /\ phase = "mark"
           \/ pc[p] = "mark" /\ job[p].flow = "install" /\ phase = "swap"
           \/ pc[p] = "mark" /\ job[p].flow = "unlink" /\ phase = "record"
           \/ pc[p] = "mark" /\ job[p].flow = "remove" /\ phase = "stage"
           \/ pc[p] = "swap" /\ phase = "record"
           \/ pc[p] = "record" /\ phase = "activate"
           \/ pc[p] = "activate" /\ job[p].flow = "install" /\ phase = "admit"
           \/ pc[p] = "stage" /\ phase = "drop"
           \/ pc[p] = "drop" /\ phase = "forget"
    PROVE  OpFits(p)'
<1>1. OpFits(p) /\ Old(p)' = Old(p) /\ Added(p)' = Added(p) /\ Held(p)' = Held(p)
      /\ Needed(p)' = Needed(p)
    BY OldStays, AddedStays, NeededStays DEF ProtoInv, OpsFit, Held
<1>2. pc[p] \in Writing /\ phase \in Writing
    BY DEF Writing, Looping
<1>3. FlowFits(p)'
    BY <1>1, <1>2 DEF OpFits, FlowFits
<1>4. LocksFit(p)' /\ BaseFits(p)'
    BY <1>1, <1>2 DEF OpFits, LocksFit, BaseFits, Writing, Looping
<1>5. ListFits(p)'
    BY <1>1 DEF ListFits, Work
<1>6. MineFits(p)'
    BY <1>1, <1>2 DEF OpFits, MineFits
<1>7. \A s \in Old(p) : Marked(p, base[p][s])' = Marked(p, base[p][s])
    BY DEF Marked
<1>8. OldFits(p)'
    <2> SUFFICES ASSUME NEW s \in Old(p)
                 PROVE  /\ Unmarked(p, s)' => claim[s] = base[p][s]
                        /\ IsMarked(p, s)' => claim[s] = Marked(p, base[p][s])
                        /\ PastMark(p, s)' => CanGoBack(p, s)
        BY <1>1, <1>7 DEF OldFits, CanGoBack
    <2>1. phase = "mark" => left'[p] = Old(p)
        BY DEF Work
    <2>2. phase \in {"activate", "drop"} => left'[p] = Old(p)
        BY DEF Work
    <2>3. Unmarked(p, s)' => Unmarked(p, s)
        BY DEF Unmarked
    <2>4. IsMarked(p, s)' => IsMarked(p, s)
        BY <2>1, <2>2 DEF IsMarked
    <2>5. PastMark(p, s)' => pc[p] \in Writing \ {"withdraw", "clean"}
        BY <1>2
    <2>6. PastMark(p, s)' => CanGoBack(p, s)
        BY <2>5, MayGoBack
    <2> QED BY <1>1, <2>3, <2>4, <2>6 DEF OpFits, OldFits
<1>9. AddedFits(p)'
    <2> SUFFICES ASSUME NEW s \in Added(p), IsReserved(p, s)'
                 PROVE  claim[s] = Reserved(job[p].next)
        BY <1>1 DEF AddedFits
    <2>1. job[p].flow = "install"
        BY DEF Added
    <2>2. phase # "stage" /\ pc[p] # "stage" /\ pc[p] # "drop"
        BY <1>1, <2>1 DEF OpFits, FlowFits
    <2>3. IsReserved(p, s)
        BY <2>2 DEF IsReserved
    <2> QED BY <1>1, <2>3 DEF OpFits, AddedFits
<1> QED BY <1>3, <1>4, <1>5, <1>6, <1>8, <1>9 DEF OpFits

LEMMA GotoSets ==
    ASSUME ClaimTyped, NEW p \in Procs, NEW phase, Goto(p, phase)
    PROVE  /\ pc'[p] = phase /\ left'[p] = Work(p, phase)
           /\ \A q \in Procs \ {p} : pc'[q] = pc[q] /\ left'[q] = left[q]
BY DEF ClaimTyped, Goto

LEMMA WorkKnown ==
    ASSUME Typed, ClaimTyped, NEW p \in Procs, NEW phase,
           phase \in {"reserve", "admit", "swap"} => job[p].next \in Loads
    PROVE  Work(p, phase) \subseteq Skills
<1>1. job[p].next \in Loads => Names[job[p].next.version] \subseteq Skills
    BY InstallAssumption DEF Loads
<1>2. Held(p) \subseteq Skills /\ Moves(p) \subseteq Skills /\ mine[p] \subseteq Skills
    BY DEF Held, Moves, ClaimTyped
<1>3. Old(p) \subseteq Skills /\ Installed(job[p].rec) \subseteq Skills
    BY OldKnown
<1>4. phase \in {"reserve", "admit"} => Work(p, phase) \subseteq Names[job[p].next.version]
    BY DEF Work, Added
<1>5. phase = "swap" => Work(p, phase) \subseteq Names[job[p].next.version]
    BY DEF Work
<1>6. phase \notin {"reserve", "admit", "swap"} => Work(p, phase) \subseteq Skills
    BY <1>2, <1>3 DEF Work
<1> QED BY <1>1, <1>4, <1>5, <1>6

-----------------------------------------------------------------------------
(* Claims written and phases ended *)

\* A step of p is fine when p gets where it should be, and disturbs nobody.
OthersStay(p) == \A q \in Procs \ {p} :
    /\ pc'[q] = pc[q] /\ left'[q] = left[q] /\ job'[q] = job[q] /\ base'[q] = base[q]
    /\ mine'[q] = mine[q]
    /\ \A s \in Skills : lock[s] = q => lock'[s] = q /\ claim'[s] = claim[s]
Fine(p) == OpFits(p)' /\ OthersStay(p) /\ ClaimTyped'

LEMMA FineKeeps ==
    ASSUME ProtoInv, NEW p \in Procs, Fine(p) PROVE OpsFit' /\ ClaimTyped'
<1>1. \A q \in Procs \ {p} : OpFits(q)'
    BY OthersFit DEF Fine, OthersStay, ProtoInv, WriterInv
<1> QED BY <1>1 DEF Fine, OpsFit

\* Moving on without a write disturbs nobody.
LEMMA GotoFine ==
    ASSUME ProtoInv, NEW p \in Procs, NEW phase \in Phases, Goto(p, phase),
           UNCHANGED <<job, base, mine, lock, claim>>, OpFits(p)',
           phase \in {"reserve", "admit", "swap"} => job[p].next \in Loads
    PROVE  Fine(p)
<1>1. ClaimTyped /\ Typed
    BY DEF ProtoInv, WriterInv
<1>2. OthersStay(p)
    BY <1>1, GotoSets DEF OthersStay
<1>3. Work(p, phase) \subseteq Skills
    BY <1>1, WorkKnown
<1>4. ClaimTyped'
    BY <1>1, <1>3 DEF Goto, ClaimTyped
<1> QED BY <1>2, <1>4 DEF Fine

LEMMA FailFine ==
    ASSUME ProtoInv, NEW p \in Procs, Fail(p), UNCHANGED <<job, base, mine, lock, claim>>,
           pc[p] \in Forward \cup {"lock", "swap", "stage", "record", "forget", "clean"}
    PROVE  Fine(p)
<1> DEFINE phase == WayBack(pc[p])
<1>1. Goto(p, phase) /\ ClaimTyped /\ OpFits(p)
    BY DEF Fail, ProtoInv, OpsFit
<1>2. /\ phase \in Backwards \cup {"release"}
      /\ phase = "unadmit" => pc[p] = "admit"
      /\ phase = "release" => pc[p] \in {"lock", "clean"}
    BY DEF WayBack, Backwards, Forward
<1>3. phase \in Phases /\ phase \notin {"reserve", "admit", "swap"}
    BY <1>2 DEF Phases, Looping, Backwards
<1> HIDE DEF phase
<1>4. pc'[p] = phase /\ left'[p] = Work(p, phase)
    BY <1>1, GotoSets
<1>5. CASE pc[p] = "lock"
    <2>1. phase = "release"
        BY <1>5 DEF phase, WayBack
    <2>2. job[p].flow = "install" => job[p].kind = "install"
        BY <1>1 DEF OpFits, FlowFits
    <2>3. OpFits(p)'
        BY <1>4, <2>1, <2>2, OutsideFits
    <2> QED BY <1>1, <1>3, <2>3, GotoFine
<1>6. CASE pc[p] # "lock"
    <2>1. pc[p] \in Writing
        BY <1>6 DEF Forward, Writing, Looping
    <2>2. \A s \in mine[p] : claim'[s] # Torn
        BY <1>1, <2>1 DEF OpFits, MineFits
    <2>3. \A s \in Old(p) : CanGoBack(p, s)' \/ phase = "release"
        <3> SUFFICES ASSUME NEW s \in Old(p), phase # "release" PROVE CanGoBack(p, s)'
            OBVIOUS
        <3>1. pc[p] \in Writing \ {"withdraw", "clean"}
            BY <2>1 DEF Forward, phase, WayBack
        <3>2. CanGoBack(p, s)
            BY <3>1, MayGoBack
        <3> QED BY <3>2 DEF CanGoBack
    <2>4. phase = "unadmit" => job[p].flow = "install"
        BY <1>1, <1>2 DEF OpFits, FlowFits
    <2>5. OpFits(p)'
        BY <1>2, <1>4, <2>1, <2>2, <2>3, <2>4, BackFits
    <2> QED BY <1>1, <1>3, <2>5, GotoFine
<1> QED BY <1>5, <1>6

LEMMA PhaseEndsFine ==
    ASSUME ProtoInv, NEW p \in Procs, PhaseEnds(p) PROVE Fine(p)
<1> DEFINE phase == Following(p, pc[p])
<1>1. /\ Goto(p, phase) /\ UNCHANGED <<job, base, mine, lock, claim>> /\ left[p] = {}
      /\ pc[p] \in Looping \ {"release"} /\ ClaimTyped /\ OpFits(p)
    BY DEF PhaseEnds, disk, ProtoInv, OpsFit
<1>2. /\ phase \in Phases
      /\ phase \in {"reserve", "admit", "swap"} => job[p].flow = "install" /\ pc[p] \in Writing
    BY <1>1 DEF Following, Phases, Looping, Writing
<1>3. phase \in {"reserve", "admit", "swap"} => job[p].next \in Loads
    BY <1>1, <1>2 DEF OpFits, FlowFits
<1>4. pc'[p] = phase /\ left'[p] = Work(p, phase)
    BY <1>1, GotoSets
<1>5. OpFits(p)'
    <2>1. job[p].flow = "install" => job[p].kind = "install"
        BY <1>1 DEF OpFits, FlowFits
    <2>2. CASE pc[p] = "lock"
        <3>1. phase = "check"
            BY <2>2 DEF Following
        <3>2. (Needed(p) \subseteq Held(p))'
            <4>1. Needed(p) \subseteq Held(p)
                BY <1>1, <2>2 DEF OpFits, LocksFit
            <4> QED BY <1>1, <4>1 DEF Needed, Installed, Held
        <3>3. mine'[p] = {}
            BY <1>1, <2>2 DEF OpFits, MineFits
        <3> QED BY <1>1, <1>4, <2>1, <3>1, <3>2, <3>3, OutsideFits
    <2>3. CASE pc[p] \in {"reserve", "mark", "swap", "stage", "drop"}
        <3>1. job[p].flow \in {"install", "unlink", "remove"}
            BY <1>1, <2>3 DEF OpFits, FlowFits, Writing, Looping
        <3>2. \/ pc[p] = "reserve" /\ phase = "mark"
              \/ pc[p] = "mark" /\ job[p].flow = "install" /\ phase = "swap"
              \/ pc[p] = "mark" /\ job[p].flow = "unlink" /\ phase = "record"
              \/ pc[p] = "mark" /\ job[p].flow = "remove" /\ phase = "stage"
              \/ pc[p] = "swap" /\ phase = "record"
              \/ pc[p] = "stage" /\ phase = "drop"
              \/ pc[p] = "drop" /\ phase = "forget"
            BY <2>3, <3>1 DEF Following
        <3> HIDE DEF phase
        <3> QED BY <1>1, <1>4, <3>2, OnwardFits
    <2>4. CASE pc[p] = "activate" /\ job[p].flow = "install"
        <3>1. phase = "admit"
            BY <2>4 DEF Following
        <3> HIDE DEF phase
        <3> QED BY <1>1, <1>4, <2>4, <3>1, OnwardFits
    <2>5. CASE pc[p] = "activate" /\ job[p].flow # "install"
        <3>1. phase = "release"
            BY <2>5 DEF Following
        <3> QED BY <1>1, <1>4, <2>1, <3>1, OutsideFits
    <2>6. CASE pc[p] \in {"admit", "unadmit", "undo", "revive", "withdraw"}
        <3>1. /\ phase \in Backwards \cup {"clean", "release"}
              /\ phase # "unadmit" /\ pc[p] \in Writing
              /\ pc[p] = "withdraw" => phase = "release"
            BY <2>6 DEF Following, Backwards, Writing, Looping
        <3> HIDE DEF phase
        <3>2. \A s \in mine[p] : claim'[s] # Torn
            BY <1>1, <3>1 DEF OpFits, MineFits
        <3>3. \A s \in Old(p) : CanGoBack(p, s)' \/ phase = "release"
            <4> SUFFICES ASSUME NEW s \in Old(p), phase # "release" PROVE CanGoBack(p, s)'
                OBVIOUS
            <4>1. CanGoBack(p, s)
                BY <2>6, <3>1, MayGoBack
            <4> QED BY <1>1, <4>1 DEF CanGoBack
        <3> QED BY <1>1, <1>4, <3>1, <3>2, <3>3, BackFits
    <2> QED BY <1>1, <2>2, <2>3, <2>4, <2>5, <2>6 DEF Looping
<1> HIDE DEF phase
<1> QED BY <1>1, <1>2, <1>3, <1>5, GotoFine

\* A write of one claim, under its lock.
LEMMA WriteFine ==
    ASSUME ProtoInv, NEW p \in Procs, pc[p] \in Writing, NEW s \in Old(p) \cup Added(p),
           NEW c \in Claims \cup {NoClaim, Torn}, claim' = [claim EXCEPT ![s] = c],
           UNCHANGED <<lock, job, base>>, \A q \in Procs \ {p} : mine'[q] = mine[q],
           mine' \in [Procs -> SUBSET Skills],
           pc' \in [Procs -> Phases], left' \in [Procs -> SUBSET Skills],
           \A q \in Procs \ {p} : pc'[q] = pc[q] /\ left'[q] = left[q],
           OpFits(p)'
    PROVE  Fine(p)
<1>1. s \in Skills /\ lock[s] = p
    BY DEF ProtoInv, OpsFit, OpFits, LocksFit, Held
<1>2. \A t \in Skills : t # s => claim'[t] = claim[t]
    BY <1>1 DEF ProtoInv, ClaimTyped
<1>3. OthersStay(p)
    BY <1>1, <1>2 DEF OthersStay
<1>4. ClaimTyped'
    BY <1>1 DEF ProtoInv, ClaimTyped
<1> QED BY <1>3, <1>4 DEF Fine

LEMMA DisjointKnown ==
    ASSUME ProtoInv, NEW p \in Procs PROVE Old(p) \cap Added(p) = {}
<1>1. job[p].flow = "install" => job[p].kind = "install"
    BY DEF ProtoInv, OpsFit, OpFits, FlowFits
<1> QED BY <1>1 DEF Old, Claimed, Added

LEMMA WriteForwardFits ==
    ASSUME ProtoInv, NEW p \in Procs, pc[p] \in Forward, NEW s \in left[p],
           claim' = [claim EXCEPT ![s] = NewClaim(p, s)],
           mine'[p] = IF pc[p] = "reserve" THEN mine[p] \cup {s} ELSE mine[p],
           pc'[p] = pc[p], left'[p] = left[p] \ {s}, UNCHANGED <<lock, job, base>>
    PROVE  OpFits(p)'
<1>1. OpFits(p) /\ Old(p)' = Old(p) /\ Added(p)' = Added(p) /\ Held(p)' = Held(p)
      /\ Needed(p)' = Needed(p)
    BY OldStays, AddedStays, NeededStays DEF ProtoInv, OpsFit, Held
<1>2. /\ s \in Old(p) \cup Added(p) /\ pc[p] \in Writing /\ s \in Skills
      /\ Old(p) \cup Added(p) \cup mine[p] \subseteq Skills
    BY <1>1, ForwardLegal DEF Forward, Writing, Looping, OpFits, LocksFit, MineFits, Held
<1>3. claim'[s] = NewClaim(p, s) /\ \A t \in Skills \ {s} : claim'[t] = claim[t]
    BY <1>2 DEF ProtoInv, ClaimTyped
<1>4. Old(p) \cap Added(p) = {}
    BY DisjointKnown
<1>5. FlowFits(p)' /\ LocksFit(p)' /\ BaseFits(p)' /\ ListFits(p)'
    <2>1. Needed(p)' = Needed(p)
        BY DEF Needed, Installed
    <2>2. pc[p] \notin {"unadmit", "withdraw", "lock", "check"}
        BY DEF Forward
    <2> QED BY <1>1, <2>1, <2>2 DEF OpFits, FlowFits, LocksFit, BaseFits, ListFits
<1>6. MineFits(p)'
    <2>1. pc[p] = "reserve" => s \in Added(p)
        BY <1>1 DEF OpFits, ListFits
    <2>2. NewClaim(p, s) # Torn
        BY ForwardLegal, ValuesDiffer
    <2>3. mine'[p] \subseteq Added(p)
        BY <1>1, <1>2, <2>1 DEF OpFits, MineFits
    <2>4. \A t \in mine'[p] : claim'[t] # Torn
        BY <1>1, <1>2, <1>3, <2>2 DEF OpFits, MineFits
    <2>5. pc[p] = "reserve" => mine'[p] \cap left'[p] = {}
        BY <1>1, <1>2 DEF OpFits, MineFits
    <2> QED BY <1>1, <2>3, <2>4, <2>5 DEF MineFits, Forward
<1>7. \A t \in Old(p) : Marked(p, base[p][t])' = Marked(p, base[p][t])
    BY DEF Marked
<1>8. OldFits(p)'
    <2> SUFFICES ASSUME NEW t \in Old(p)
                 PROVE  /\ Unmarked(p, t)' => claim'[t] = base[p][t]
                        /\ IsMarked(p, t)' => claim'[t] = Marked(p, base[p][t])
                        /\ PastMark(p, t)' => CanGoBack(p, t)'
        BY <1>1, <1>7 DEF OldFits
    <2>1. CASE t # s
        <3>1. claim'[t] = claim[t]
            BY <1>2, <1>3, <2>1
        <3>2. /\ Unmarked(p, t)' <=> Unmarked(p, t)
              /\ IsMarked(p, t)' <=> IsMarked(p, t)
              /\ PastMark(p, t)' <=> PastMark(p, t)
            BY <2>1 DEF Unmarked, IsMarked, PastMark
        <3>3. CanGoBack(p, t) => CanGoBack(p, t)'
            BY <3>1 DEF CanGoBack
        <3> QED BY <1>1, <3>1, <3>2, <3>3 DEF OpFits, OldFits
    <2>2. CASE t = s
        <3>1. pc[p] \in {"mark", "activate", "drop"}
            BY <1>1, <1>4, <2>2 DEF OpFits, ListFits, Forward
        <3>2. CASE pc[p] = "mark"
            <4>1. claim'[t] = Marked(p, base[p][t])
                BY <1>3, <2>2, <3>2, ForwardLegal
            <4> QED BY <2>2, <3>2, <4>1 DEF Unmarked, IsMarked, PastMark
        <3>3. CASE pc[p] \in {"activate", "drop"}
            <4>1. CanGoBack(p, t)'
                BY <1>3, <2>2, <3>3, ForwardLegal DEF CanGoBack
            <4> QED BY <2>2, <3>3, <4>1 DEF Unmarked, IsMarked, PastMark
        <3> QED BY <3>1, <3>2, <3>3
    <2> QED BY <2>1, <2>2
<1>9. AddedFits(p)'
    <2> SUFFICES ASSUME NEW t \in Added(p)
                 PROVE  /\ pc'[p] = "reserve" /\ t \in left'[p] => claim'[t] = NoClaim
                        /\ IsReserved(p, t)' => claim'[t] = Reserved(job[p].next)
        BY <1>1 DEF AddedFits
    <2>1. CASE t # s
        <3>1. claim'[t] = claim[t]
            BY <1>2, <1>3, <2>1
        <3>2. IsReserved(p, t)' <=> IsReserved(p, t)
            BY <2>1 DEF IsReserved
        <3> QED BY <1>1, <3>1, <3>2 DEF OpFits, AddedFits
    <2>2. CASE t = s
        <3>1. pc[p] \in {"reserve", "admit"}
            BY <1>1, <1>4, <2>2 DEF OpFits, ListFits, Forward
        <3>2. pc[p] = "reserve" => claim'[t] = Reserved(job[p].next)
            BY <1>3, <2>2, ForwardLegal
        <3> QED BY <2>2, <3>1, <3>2 DEF IsReserved
    <2> QED BY <2>1, <2>2
<1> QED BY <1>5, <1>6, <1>8, <1>9 DEF OpFits

\* In these phases the list says nothing about the claims.
LEMMA ShorterFits ==
    ASSUME ProtoInv, NEW p \in Procs, UNCHANGED <<lock, claim, job, base, mine>>, pc'[p] = pc[p],
           left'[p] \subseteq left[p],
           pc[p] \in Backward \cup {"swap", "stage", "undo", "release"}
    PROVE  OpFits(p)'
<1>1. OpFits(p) /\ Old(p)' = Old(p) /\ Added(p)' = Added(p) /\ Held(p)' = Held(p)
      /\ Needed(p)' = Needed(p)
    BY OldStays, AddedStays, NeededStays DEF ProtoInv, OpsFit, Held
<1>2. \A t \in Old(p) : Marked(p, base[p][t])' = Marked(p, base[p][t])
    BY DEF Marked
<1>3. FlowFits(p)' /\ LocksFit(p)' /\ BaseFits(p)' /\ ListFits(p)' /\ MineFits(p)'
    BY <1>1 DEF OpFits, FlowFits, LocksFit, BaseFits, ListFits, MineFits, Backward
<1>4. OldFits(p)' /\ AddedFits(p)'
    BY <1>1, <1>2 DEF OpFits, OldFits, AddedFits, Unmarked, IsMarked, PastMark, IsReserved,
       CanGoBack, Backward
<1> QED BY <1>1, <1>3, <1>4 DEF OpFits

LEMMA ShorterFine ==
    ASSUME ProtoInv, NEW p \in Procs, UNCHANGED <<claim, job, base, mine>>,
           pc' = pc, left' \in [Procs -> SUBSET Skills],
           \A q \in Procs \ {p} : left'[q] = left[q], left'[p] \subseteq left[p], lock' = lock,
           pc[p] \in Backward \cup {"swap", "stage", "undo", "release"}
    PROVE  Fine(p)
<1>1. OpFits(p)'
    BY ShorterFits
<1>2. OthersStay(p) /\ ClaimTyped'
    BY DEF OthersStay, ProtoInv, ClaimTyped
<1> QED BY <1>1, <1>2 DEF Fine

LEMMA TreatedSets ==
    ASSUME ClaimTyped, NEW p \in Procs, NEW s \in left[p], Treated(p, s)
    PROVE  /\ pc' = pc /\ left' \in [Procs -> SUBSET Skills] /\ left'[p] = left[p] \ {s}
           /\ \A q \in Procs \ {p} : left'[q] = left[q]
BY DEF ClaimTyped, Treated

LEMMA WriteBackwardFits ==
    ASSUME ProtoInv, NEW p \in Procs, pc[p] \in Backward, NEW s \in left[p], ~BackThere(p, s),
           claim' = [claim EXCEPT ![s] = NewClaim(p, s)],
           UNCHANGED <<lock, job, base, mine, pc, left>>
    PROVE  OpFits(p)'
<1>1. OpFits(p) /\ Old(p)' = Old(p) /\ Added(p)' = Added(p) /\ Held(p)' = Held(p)
      /\ Needed(p)' = Needed(p)
    BY OldStays, AddedStays, NeededStays DEF ProtoInv, OpsFit, Held
<1>2. /\ s \in Old(p) \cup Added(p) /\ pc[p] \in Writing /\ s \in Skills
      /\ Old(p) \cup Added(p) \cup mine[p] \subseteq Skills
    BY <1>1, BackwardLegal DEF Backward, Writing, Looping, OpFits, LocksFit, MineFits, Held
<1>3. claim'[s] = NewClaim(p, s) /\ \A t \in Skills \ {s} : claim'[t] = claim[t]
    BY <1>2 DEF ProtoInv, ClaimTyped
<1>4. FlowFits(p)' /\ LocksFit(p)' /\ BaseFits(p)' /\ ListFits(p)'
    BY <1>1 DEF OpFits, FlowFits, LocksFit, BaseFits, ListFits, Backward
<1>5. MineFits(p)'
    <2>1. claim'[s] # Torn
        BY <1>3, BackwardLegal, ValuesDiffer
    <2> QED BY <1>1, <1>2, <1>3, <2>1 DEF OpFits, MineFits, Backward
<1>6. OldFits(p)'
    <2> SUFFICES ASSUME NEW t \in Old(p), PastMark(p, t)' PROVE CanGoBack(p, t)'
        BY <1>1 DEF OldFits, Unmarked, IsMarked, PastMark, Backward
    <2>1. pc[p] \in {"revive", "unadmit"}
        BY DEF PastMark, Backward
    <2>2. CASE t = s
        <3>1. pc[p] = "revive"
            BY <1>1, <2>1, <2>2, DisjointKnown, BackwardLegal, <1>2 DEF OpFits, MineFits
        <3> QED BY <1>3, <2>2, <3>1, BackwardLegal DEF CanGoBack
    <2>3. CASE t # s
        <3>1. CanGoBack(p, t) /\ claim'[t] = claim[t]
            BY <1>2, <1>3, <2>1, <2>3, MayGoBack
        <3> QED BY <3>1 DEF CanGoBack
    <2> QED BY <2>2, <2>3
<1>7. AddedFits(p)'
    BY <1>1 DEF AddedFits, IsReserved, Backward
<1> QED BY <1>4, <1>5, <1>6, <1>7 DEF OpFits

LEMMA WriteClaimFine ==
    ASSUME ProtoInv, NEW p \in Procs, WriteClaim(p) PROVE Fine(p)
<1>1. /\ pc[p] \in Forward \cup Backward /\ UNCHANGED <<lock, job, base>>
      /\ ClaimTyped /\ pc[p] \in Writing
    BY DEF WriteClaim, ProtoInv, Forward, Backward, Writing, Looping
<1>2. PICK s \in left[p] :
        IF pc[p] \in Backward /\ BackThere(p, s)
        THEN Treated(p, s) /\ UNCHANGED <<claim, mine>>
        ELSE /\ claim' = [claim EXCEPT ![s] = NewClaim(p, s)]
             /\ mine' = IF pc[p] = "reserve" THEN [mine EXCEPT ![p] = @ \cup {s}] ELSE mine
             /\ IF pc[p] \in Backward THEN UNCHANGED <<pc, left>> ELSE Treated(p, s)
    BY DEF WriteClaim
<1>3. s \in Skills /\ Forward \cap Backward = {}
    BY <1>1 DEF ClaimTyped, Forward, Backward
<1>4. CASE pc[p] \in Backward /\ BackThere(p, s)
    <2>1. Treated(p, s) /\ UNCHANGED <<claim, mine>>
        BY <1>2, <1>4
    <2> QED BY <1>1, <1>4, <2>1, TreatedSets, ShorterFine
<1>5. CASE pc[p] \in Backward /\ ~BackThere(p, s)
    <2>1. claim' = [claim EXCEPT ![s] = NewClaim(p, s)] /\ UNCHANGED <<mine, pc, left>>
        BY <1>2, <1>5 DEF Backward
    <2>2. OpFits(p)'
        BY <1>1, <1>5, <2>1, WriteBackwardFits
    <2>3. NewClaim(p, s) \in Claims \cup {NoClaim, Torn} /\ s \in Old(p) \cup Added(p)
        BY <1>5, BackwardLegal
    <2>4. /\ mine' \in [Procs -> SUBSET Skills] /\ pc' \in [Procs -> Phases]
          /\ left' \in [Procs -> SUBSET Skills]
        BY <1>1, <2>1 DEF ClaimTyped
    <2> QED BY <1>1, <2>1, <2>2, <2>3, <2>4, WriteFine
<1>6. CASE pc[p] \in Forward
    <2>1. /\ claim' = [claim EXCEPT ![s] = NewClaim(p, s)] /\ Treated(p, s)
          /\ mine' = IF pc[p] = "reserve" THEN [mine EXCEPT ![p] = @ \cup {s}] ELSE mine
        BY <1>2, <1>3, <1>6
    <2>2. /\ mine' \in [Procs -> SUBSET Skills] /\ \A q \in Procs \ {p} : mine'[q] = mine[q]
          /\ mine'[p] = IF pc[p] = "reserve" THEN mine[p] \cup {s} ELSE mine[p]
        BY <1>1, <1>3, <2>1 DEF ClaimTyped
    <2>3. /\ pc' = pc /\ left' \in [Procs -> SUBSET Skills] /\ left'[p] = left[p] \ {s}
          /\ \A q \in Procs \ {p} : left'[q] = left[q]
        BY <1>1, <2>1, TreatedSets
    <2>4. OpFits(p)'
        BY <1>1, <1>6, <2>1, <2>2, <2>3, WriteForwardFits
    <2>5. NewClaim(p, s) \in Claims \cup {NoClaim, Torn} /\ s \in Old(p) \cup Added(p)
        BY <1>6, ForwardLegal
    <2>6. pc' \in [Procs -> Phases]
        BY <1>1, <2>3 DEF ClaimTyped
    <2> QED BY <1>1, <2>1, <2>2, <2>3, <2>4, <2>5, <2>6, WriteFine
<1> QED BY <1>1, <1>4, <1>5, <1>6

LEMMA FailsLateFine ==
    ASSUME ProtoInv, NEW p \in Procs, FailsLate(p) PROVE Fine(p)
<1>1. CASE claim' = claim
    <2>1. Fail(p) /\ UNCHANGED <<job, base, mine, lock>>
        BY DEF FailsLate
    <2>2. pc[p] \in Forward \cup {"record"}
        BY DEF FailsLate
    <2> QED BY <1>1, <2>1, <2>2, FailFine
<1>2. CASE claim' # claim
    <2> DEFINE phase == WayBack(pc[p])
    <2>1. /\ pc[p] \in Forward /\ Goto(p, phase) /\ UNCHANGED <<lock, job, base, mine>>
          /\ \E s \in left[p] :
             \E c \in {NewClaim(p, s)} \cup (IF pc[p] = "reserve" THEN {Torn} ELSE {}) :
                claim' = [claim EXCEPT ![s] = c]
        BY <1>2 DEF FailsLate, Fail
    <2>0. PICK s \in left[p] :
            \E c \in {NewClaim(p, s)} \cup (IF pc[p] = "reserve" THEN {Torn} ELSE {}) :
                claim' = [claim EXCEPT ![s] = c]
        BY <2>1
    <2>2. PICK c \in {NewClaim(p, s), Torn} :
            claim' = [claim EXCEPT ![s] = c] /\ (c = NewClaim(p, s) \/ pc[p] = "reserve")
        BY <2>0
    <2>3. /\ s \in Skills /\ pc[p] \in Writing \ {"withdraw", "clean"} /\ ClaimTyped /\ OpFits(p)
          /\ s \in Old(p) \cup Added(p) /\ c \in Claims \cup {NoClaim, Torn}
        BY <2>1, <2>2, ForwardLegal DEF ProtoInv, OpsFit, ClaimTyped, Forward, Writing, Looping
    <2>4. claim'[s] = c /\ \A t \in Skills \ {s} : claim'[t] = claim[t]
        BY <2>2, <2>3 DEF ClaimTyped
    <2>5. /\ phase \in Backwards
          /\ phase = "unadmit" => pc[p] = "admit"
          /\ phase \in Phases /\ phase \notin {"reserve", "admit", "swap"}
        BY <2>1 DEF WayBack, Backwards, Forward, Phases, Looping
    <2>6. /\ pc'[p] = phase /\ left'[p] = Work(p, phase)
          /\ \A q \in Procs \ {p} : pc'[q] = pc[q] /\ left'[q] = left[q]
        BY <2>1, <2>3, GotoSets
    <2>7. \A t \in mine[p] : claim'[t] # Torn
        <3> SUFFICES ASSUME NEW t \in mine[p] PROVE claim'[t] # Torn
            OBVIOUS
        <3>1. t \in Skills /\ claim[t] # Torn
            BY <2>3 DEF ClaimTyped, OpFits, MineFits
        <3>2. t = s => c = NewClaim(p, s) /\ c # Torn
            BY <2>1, <2>2, <2>3, ForwardLegal, ValuesDiffer DEF OpFits, MineFits
        <3> QED BY <2>4, <3>1, <3>2
    <2>8. \A t \in Old(p) : CanGoBack(p, t)'
        <3> SUFFICES ASSUME NEW t \in Old(p) PROVE CanGoBack(p, t)'
            OBVIOUS
        <3>1. t \in Skills /\ CanGoBack(p, t)
            BY <2>3, BaseKnown, MayGoBack
        <3>2. CASE t # s
            BY <2>1, <2>4, <3>1, <3>2 DEF CanGoBack
        <3>3. CASE t = s
            <4>1. pc[p] \in {"mark", "activate", "drop"}
                BY <2>1, <2>3, <3>3, DisjointKnown DEF OpFits, ListFits, Forward
            <4>2. c = NewClaim(p, s)
                BY <2>2, <4>1
            <4>3. CASE pc[p] = "mark"
                <5>1. c = Marked(p, base[p][s])
                    BY <2>1, <4>2, <4>3, ForwardLegal
                <5>2. /\ base[p][s] \in Claims /\ base[p][s].state = "active"
                      /\ job[p].flow = "remove" \/ job[p].next \in Loads
                    BY <2>3, <3>3, BaseKnown
                <5> QED BY <2>1, <2>4, <3>3, <5>1, <5>2, MarkedKnown DEF CanGoBack
            <4>4. CASE pc[p] \in {"activate", "drop"}
                BY <2>1, <2>4, <3>3, <4>2, <4>4, ForwardLegal DEF CanGoBack
            <4> QED BY <4>1, <4>3, <4>4
        <3> QED BY <3>2, <3>3
    <2>9. phase = "unadmit" => job[p].flow = "install"
        BY <2>3, <2>5 DEF OpFits, FlowFits
    <2> HIDE DEF phase
    <2>10. OpFits(p)'
        BY <2>1, <2>3, <2>5, <2>6, <2>7, <2>8, <2>9, BackFits
    <2>11. Work(p, phase) \subseteq Skills
        BY <2>5, WorkKnown DEF ProtoInv, WriterInv
    <2>12. pc' \in [Procs -> Phases] /\ left' \in [Procs -> SUBSET Skills]
        BY <2>1, <2>3, <2>5, <2>11 DEF Goto, ClaimTyped
    <2>13. mine' \in [Procs -> SUBSET Skills] /\ \A q \in Procs \ {p} : mine'[q] = mine[q]
        BY <2>1, <2>3 DEF ClaimTyped
    <2> QED BY <2>1, <2>2, <2>3, <2>6, <2>10, <2>12, <2>13, WriteFine
<1> QED BY <1>1, <1>2

-----------------------------------------------------------------------------
(* From the start to the first write *)

\* The actions before the work.
LEMMA StartFine ==
    ASSUME ProtoInv, NEW p \in Procs, Start(p) PROVE Fine(p)
<1>1. PICK kind \in {"install", "uninstall"}, want \in (SUBSET Runtimes) \ {{}} :
        job' = [job EXCEPT ![p] = [NoJob EXCEPT !.kind = kind, !.want = want]]
    BY DEF Start
<1>2. /\ pc[p] = "idle" /\ pc' = [pc EXCEPT ![p] = "read"]
      /\ UNCHANGED <<lock, claim, left, base, mine>> /\ ClaimTyped /\ Typed /\ OpFits(p)
    BY DEF Start, disk, ProtoInv, WriterInv, OpsFit
<1>3. job'[p].flow = "none" /\ \A q \in Procs \ {p} : job'[q] = job[q]
    BY <1>1, <1>2 DEF Typed, NoJob
<1>4. pc'[p] = "read" /\ \A q \in Procs \ {p} : pc'[q] = pc[q]
    BY <1>2 DEF ClaimTyped
<1>5. mine'[p] = {}
    BY <1>2 DEF OpFits, MineFits
<1>6. OpFits(p)'
    BY <1>3, <1>4, <1>5, OutsideFits
<1>7. OthersStay(p) /\ ClaimTyped'
    BY <1>2, <1>3, <1>4 DEF OthersStay, ClaimTyped, Phases
<1> QED BY <1>6, <1>7 DEF Fine

LEMMA ReadFine ==
    ASSUME ProtoInv, NEW p \in Procs, Read(p) PROVE Fine(p)
<1>1. /\ pc[p] = "read" /\ pc' = [pc EXCEPT ![p] = "lock"]
      /\ job' = [job EXCEPT ![p] = [job[p] EXCEPT !.seen = receipt]]
      /\ left' = [left EXCEPT ![p] = LockList(p)]
      /\ UNCHANGED <<lock, claim, receipt, base, mine>> /\ ClaimTyped /\ Typed /\ OpFits(p)
    BY DEF Read, disk, ProtoInv, WriterInv, OpsFit, Typed
<1>2. /\ pc'[p] = "lock" /\ left'[p] = LockList(p)
      /\ \A q \in Procs \ {p} : pc'[q] = pc[q] /\ left'[q] = left[q] /\ job'[q] = job[q]
    BY <1>1 DEF ClaimTyped, Typed
<1>3. job'[p].kind = job[p].kind /\ job'[p].flow = job[p].flow /\ job'[p].seen = receipt
    <2>1. job'[p] = [job[p] EXCEPT !.seen = receipt] /\ job[p] \in Jobs
        BY <1>1 DEF Typed
    <2> QED BY <2>1 DEF Jobs
<1>4. mine'[p] = {} /\ (job[p].flow = "install" => job[p].kind = "install")
    BY <1>1 DEF OpFits, MineFits, FlowFits
<1>5. (Needed(p) \subseteq left[p] \cup Held(p))'
    <2>1. Needed(p)' = IF job[p].kind = "install" THEN Names[Binary[p]] ELSE Installed(receipt)
        BY <1>1, <1>3 DEF Needed, Installed
    <2>2. Needed(p)' \subseteq LockList(p)
        BY <2>1 DEF LockList, Installed
    <2> QED BY <1>2, <2>2
<1>6. OpFits(p)'
    BY <1>2, <1>3, <1>4, <1>5, OutsideFits
<1>7. LockList(p) \subseteq Skills
    <2>1. Installed(receipt) \subseteq Skills
        BY <1>1, InstalledKnown DEF Typed
    <2> QED BY <2>1, InstallAssumption DEF LockList
<1>8. OthersStay(p) /\ ClaimTyped'
    <2>1. "lock" \in Phases
        BY DEF Phases, Looping
    <2> QED BY <1>1, <1>2, <1>7, <2>1 DEF OthersStay, ClaimTyped
<1> QED BY <1>6, <1>8 DEF Fine

LEMMA MkdirFine ==
    ASSUME ProtoInv, NEW p \in Procs, Mkdir(p) PROVE Fine(p)
<1>1. /\ pc[p] = "lock" /\ UNCHANGED <<claim, receipt, job, base, mine>>
      /\ ClaimTyped /\ Typed /\ OpFits(p)
    BY DEF Mkdir, ProtoInv, WriterInv, OpsFit
<1>2. PICK s \in left[p] :
        IF lock[s] = Free
        THEN lock' = [lock EXCEPT ![s] = p] /\ Treated(p, s)
        ELSE Fail(p) /\ UNCHANGED lock
    BY DEF Mkdir
<1>3. CASE lock[s] = Free
    <2>1. lock' = [lock EXCEPT ![s] = p] /\ Treated(p, s) /\ s \in Skills
        BY <1>1, <1>2, <1>3 DEF ClaimTyped
    <2>2. /\ pc' = pc /\ left' \in [Procs -> SUBSET Skills] /\ left'[p] = left[p] \ {s}
          /\ \A q \in Procs \ {p} : left'[q] = left[q]
        BY <1>1, <2>1, TreatedSets
    <2>3. \A t \in Skills : lock'[t] = IF t = s THEN p ELSE lock[t]
        BY <1>1, <2>1 DEF Typed
    <2>4. \A q \in Procs : lock[s] # q
        BY <1>3, InstallAssumption
    <2>5. (Needed(p) \subseteq left[p] \cup Held(p))'
        <3>1. Needed(p)' = Needed(p)
            BY <1>1 DEF Needed, Installed
        <3>2. Needed(p) \subseteq left[p] \cup Held(p)
            BY <1>1 DEF OpFits, LocksFit
        <3>3. Held(p)' = Held(p) \cup {s}
            BY <2>1, <2>3 DEF Held
        <3> QED BY <2>2, <3>1, <3>2, <3>3
    <2>6. mine'[p] = {} /\ (job[p].flow = "install" => job[p].kind = "install")
        BY <1>1 DEF OpFits, MineFits, FlowFits
    <2>7. OpFits(p)'
        BY <1>1, <2>2, <2>5, <2>6, OutsideFits
    <2>8. OthersStay(p) /\ ClaimTyped'
        BY <1>1, <2>2, <2>3, <2>4 DEF OthersStay, ClaimTyped
    <2> QED BY <2>7, <2>8 DEF Fine
<1>4. CASE lock[s] # Free
    BY <1>1, <1>2, <1>4, FailFine
<1> QED BY <1>3, <1>4

\* What an operation has found under its locks when it begins to write.
Found(p, S) == \A s \in S :
    claim[s] \in Claims /\ claim[s].producer = "dva" /\ claim[s].state = "active"

LEMMA MatchFound ==
    ASSUME ClaimTyped, NEW S \in SUBSET Skills, NEW load, ClaimsMatch(S, load)
    PROVE  \A p : Found(p, S)
BY DEF ClaimTyped, ClaimsMatch, ClaimMatches, Readable, Found

LEMMA BeginFine ==
    ASSUME ProtoInv, NEW p \in Procs, pc[p] = "check",
           NEW flow \in {"install", "unlink", "remove"}, NEW next \in Receipts,
           NEW phase \in {"reserve", "mark"}, NEW S \in SUBSET Skills,
           Begin(p, flow, next, phase, S), UNCHANGED <<lock, claim, receipt, mine>>,
           Found(p, Claimed(p, receipt)), Claimed(p, receipt) \subseteq Held(p),
           job[p].kind # "install" => job[p].seen # NoReceipt,
           \/ /\ phase = "reserve" /\ flow = "install" /\ job[p].kind = "install"
              /\ next \in Loads /\ S = Names[next.version] \ Installed(receipt)
              /\ Names[next.version] \subseteq Held(p)
              /\ \A s \in S : claim[s] = NoClaim
           \/ /\ phase = "mark" /\ flow \in {"unlink", "remove"} /\ S = Claimed(p, receipt)
              /\ flow = "unlink" => next \in Loads
    PROVE  Fine(p)
<1> DEFINE begun == [job[p] EXCEPT !.flow = flow, !.rec = receipt, !.next = next]
           read  == [s \in Skills |-> IF s \in Claimed(p, receipt) THEN claim[s] ELSE NoClaim]
<1>1. ClaimTyped /\ Typed /\ OpFits(p)
    BY DEF ProtoInv, WriterInv, OpsFit
<1>2. job' = [job EXCEPT ![p] = begun] /\ base' = [base EXCEPT ![p] = read]
    BY <1>1 DEF Begin, Typed
<1>3. /\ begun.kind = job[p].kind /\ begun.seen = job[p].seen /\ begun.flow = flow
      /\ begun.rec = receipt /\ begun.next = next
    <2>1. job[p] \in Jobs
        BY <1>1 DEF Typed
    <2> QED BY <2>1 DEF Jobs
<1>4. read \in [Skills -> Claims \cup {NoClaim}] /\ \A s \in Claimed(p, receipt) : read[s] = claim[s]
    BY DEF Found, Held
<1> HIDE DEF begun, read
<1>5. /\ pc'[p] = phase /\ left'[p] = S /\ job'[p] = begun /\ base'[p] = read
      /\ \A q \in Procs \ {p} :
            pc'[q] = pc[q] /\ left'[q] = left[q] /\ job'[q] = job[q] /\ base'[q] = base[q]
    BY <1>1, <1>2 DEF Begin, ClaimTyped, Typed
<1>6. Old(p)' = Claimed(p, receipt) /\ Held(p)' = Held(p)
    BY <1>3, <1>5 DEF Old, Claimed, Installed, Held
<1>7. Added(p)' = IF flow = "install" THEN S ELSE {}
    BY <1>3, <1>5 DEF Added, Installed
<1>8. mine'[p] = {}
    BY <1>1 DEF OpFits, MineFits
<1>9. FlowFits(p)'
    BY <1>3, <1>5 DEF FlowFits
<1>10. LocksFit(p)'
    <2>1. Needed(p)' = Needed(p)
        BY <1>3, <1>5 DEF Needed, Installed
    <2>2. Needed(p) \subseteq Held(p)
        BY <1>1 DEF OpFits, LocksFit
    <2> QED BY <1>5, <1>6, <1>7, <2>1, <2>2 DEF LocksFit
<1>11. ListFits(p)' /\ BaseFits(p)' /\ MineFits(p)'
    BY <1>4, <1>5, <1>6, <1>7, <1>8 DEF ListFits, BaseFits, MineFits, Found
<1>12. OldFits(p)'
    BY <1>4, <1>5, <1>6 DEF OldFits, Unmarked, IsMarked, PastMark
<1>13. AddedFits(p)'
    BY <1>5, <1>7 DEF AddedFits, IsReserved
<1>14. OthersStay(p)
    BY <1>5 DEF OthersStay
<1>15. ClaimTyped'
    <2>1. phase \in Phases
        BY DEF Phases, Looping
    <2> QED BY <1>1, <1>2, <1>4, <2>1 DEF Begin, ClaimTyped
<1> QED BY <1>9, <1>10, <1>11, <1>12, <1>13, <1>14, <1>15 DEF Fine, OpFits

LEMMA EndsAtOnceFine ==
    ASSUME ProtoInv, NEW p \in Procs, pc[p] = "check", UNCHANGED <<lock, claim, receipt, mine>>,
           Refuse(p) \/ \E status \in {"current", "absent"} : Report(p, status)
    PROVE  Fine(p)
<1>1. ClaimTyped /\ Typed /\ OpFits(p)
    BY DEF ProtoInv, WriterInv, OpsFit
<1>2. Goto(p, "release") /\ base' = base
    BY DEF Refuse, Report
<1>3. /\ job'[p].flow = "install" => job'[p].kind = "install"
      /\ \A q \in Procs \ {p} : job'[q] = job[q]
    <2>1. CASE Refuse(p)
        BY <1>1, <2>1 DEF Refuse, OpFits, FlowFits
    <2>2. CASE \E status \in {"current", "absent"} : Report(p, status)
        <3>1. PICK status \in {"current", "absent"} : job' = [job EXCEPT ![p].flow = status]
            BY <2>2 DEF Report
        <3>2. job'[p].flow = status
            BY <1>1, <3>1 DEF Typed, Jobs
        <3>3. \A q \in Procs \ {p} : job'[q] = job[q]
            BY <1>1, <3>1 DEF Typed
        <3> QED BY <3>2, <3>3
    <2> QED BY <2>1, <2>2
<1>4. /\ pc'[p] = "release" /\ left'[p] = Work(p, "release")
      /\ \A q \in Procs \ {p} : pc'[q] = pc[q] /\ left'[q] = left[q]
    BY <1>1, <1>2, GotoSets
<1>5. OpFits(p)'
    BY <1>3, <1>4, OutsideFits
<1>6. Work(p, "release") \subseteq Skills /\ "release" \in Phases
    BY <1>1, WorkKnown DEF Phases, Looping
<1>7. OthersStay(p) /\ ClaimTyped'
    BY <1>1, <1>2, <1>3, <1>4, <1>6 DEF OthersStay, ClaimTyped, Goto
<1> QED BY <1>5, <1>7 DEF Fine

LEMMA CheckFine ==
    ASSUME ProtoInv, NEW p \in Procs, Check(p) PROVE Fine(p)
<1> DEFINE want == job[p].want
<1>1. /\ pc[p] = "check" /\ UNCHANGED <<lock, claim, receipt, mine>>
      /\ ClaimTyped /\ Typed /\ Needed(p) \subseteq Held(p)
    BY DEF Check, disk, ProtoInv, WriterInv, OpsFit, OpFits, LocksFit
<1>2. want \subseteq Runtimes /\ Binary[p] \in Versions
    BY <1>1, InstallAssumption DEF Typed, Jobs
<1>3. receipt # NoReceipt => receipt.version \in Versions /\ receipt.runtimes \subseteq Runtimes
    BY <1>1 DEF Typed, Receipts
<1>4. /\ Loads \subseteq Receipts /\ Held(p) \subseteq Skills
      /\ Installed(receipt) \subseteq Skills /\ Installed(job[p].seen) \subseteq Skills
    <2>1. receipt \in Receipts /\ job[p].seen \in Receipts
        BY <1>1 DEF Typed, Jobs
    <2> QED BY <2>1, InstalledKnown DEF Held, Loads, Receipts
<1>5. CASE job[p].kind = "install"
    <2> DEFINE fresh == Load(Binary[p], want)
               more  == Load(Binary[p], receipt.runtimes \cup want)
               newer == Names[Binary[p]] \ Installed(receipt)
    <2>1. fresh \in Loads /\ fresh.version = Binary[p]
        BY <1>2 DEF Load, Loads
    <2>2. receipt # NoReceipt => more \in Loads /\ more.version = Binary[p]
        BY <1>2, <1>3 DEF Load, Loads
    <2>3. \/ Refuse(p) \/ Report(p, "current")
          \/ /\ receipt = NoReceipt /\ FreshInstallOK(p)
             /\ Begin(p, "install", fresh, "reserve", Names[Binary[p]])
          \/ /\ receipt # NoReceipt /\ UpdateOK(p)
             /\ Begin(p, "install", more, "reserve", newer)
        BY <1>5 DEF Check, CheckInstall
    <2>4. Names[Binary[p]] \subseteq Held(p) /\ Claimed(p, receipt) = Installed(receipt)
        BY <1>1, <1>5 DEF Needed, Claimed
    <2> HIDE DEF fresh, more
    <2>5. CASE Refuse(p) \/ Report(p, "current")
        BY <2>5, <1>1, EndsAtOnceFine
    <2>6. CASE /\ receipt = NoReceipt /\ FreshInstallOK(p)
               /\ Begin(p, "install", fresh, "reserve", Names[Binary[p]])
        <3>1. Installed(receipt) = {}
            BY <2>6 DEF Installed
        <3>2. \A s \in Names[Binary[p]] : claim[s] = NoClaim
            BY <2>6 DEF FreshInstallOK, ClaimsAbsent
        <3>3. Found(p, Claimed(p, receipt)) /\ Claimed(p, receipt) \subseteq Held(p)
            BY <2>4, <3>1 DEF Found
        <3>4. Names[Binary[p]] = Names[fresh.version] \ Installed(receipt)
            BY <2>1, <3>1
        <3>5. Names[Binary[p]] \subseteq Skills /\ fresh \in Receipts
            BY <1>4, <2>1, <2>4
        <3> QED BY <1>1, <1>5, <2>1, <2>4, <2>6, <3>2, <3>3, <3>4, <3>5, BeginFine
    <2>7. CASE /\ receipt # NoReceipt /\ UpdateOK(p)
               /\ Begin(p, "install", more, "reserve", newer)
        <3>1. Installed(receipt) = Names[receipt.version]
            BY <2>7 DEF Installed
        <3>2. /\ Names[receipt.version] \subseteq Held(p)
              /\ ClaimsMatch(Names[receipt.version], receipt)
            BY <2>7 DEF UpdateOK, InstalledOK
        <3>3. \A s \in newer : claim[s] = NoClaim
            BY <2>7, <3>1 DEF UpdateOK, ClaimsAbsent
        <3>4. Found(p, Claimed(p, receipt)) /\ Claimed(p, receipt) \subseteq Held(p)
            BY <1>1, <1>4, <2>4, <3>1, <3>2, MatchFound
        <3>5. newer = Names[more.version] \ Installed(receipt)
            BY <2>2, <2>7
        <3>6. newer \subseteq Skills /\ more \in Receipts /\ Names[more.version] \subseteq Held(p)
            BY <1>4, <2>2, <2>4, <2>7
        <3> HIDE DEF newer
        <3> QED BY <1>1, <1>5, <2>2, <2>7, <3>3, <3>4, <3>5, <3>6, BeginFine
    <2> QED BY <2>3, <2>5, <2>6, <2>7
<1>6. CASE job[p].kind # "install"
    <2> DEFINE rest == Load(receipt.version, receipt.runtimes \ want)
               old  == Installed(job[p].seen)
    <2>1. receipt # NoReceipt => rest \in Loads
        BY <1>2, <1>3 DEF Load, Loads
    <2>2. NoReceipt \in Receipts
        BY DEF Receipts
    <2>3. \/ Refuse(p) \/ Report(p, "absent")
          \/ /\ receipt # NoReceipt /\ job[p].seen # NoReceipt
             /\ ClaimsMatch(old, Load(job[p].seen.version, receipt.runtimes))
             /\ \/ Begin(p, "remove", NoReceipt, "mark", old)
                \/ Begin(p, "unlink", rest, "mark", old)
        BY <1>6 DEF Check, CheckUninstall
    <2>4. Claimed(p, receipt) = old /\ old \subseteq Held(p)
        BY <1>1, <1>6 DEF Needed, Claimed
    <2> HIDE DEF rest
    <2>5. CASE Refuse(p) \/ Report(p, "absent")
        BY <2>5, <1>1, EndsAtOnceFine
    <2>6. CASE /\ receipt # NoReceipt /\ job[p].seen # NoReceipt
               /\ ClaimsMatch(old, Load(job[p].seen.version, receipt.runtimes))
               /\ \/ Begin(p, "remove", NoReceipt, "mark", old)
                  \/ Begin(p, "unlink", rest, "mark", old)
        <3>1. Found(p, old)
            BY <1>1, <1>4, <2>6, MatchFound
        <3>2. CASE Begin(p, "remove", NoReceipt, "mark", old)
            BY <1>1, <1>4, <2>2, <2>4, <2>6, <3>1, <3>2, BeginFine
        <3>3. CASE Begin(p, "unlink", rest, "mark", old)
            <4>1. rest \in Loads /\ rest \in Receipts
                BY <1>4, <2>1, <2>6
            <4> QED BY <1>1, <1>4, <2>4, <2>6, <3>1, <3>3, <4>1, BeginFine
        <3> QED BY <2>6, <3>2, <3>3
    <2> QED BY <2>3, <2>5, <2>6
<1> QED BY <1>5, <1>6

-----------------------------------------------------------------------------
(* Trees, receipts and ends *)

\* The steps that leave the claims alone.
LEMMA TreesFine ==
    ASSUME ProtoInv, NEW p \in Procs, Look(p) \/ Place(p) \/ Stage(p) \/ Undo(p)
    PROVE  Fine(p)
<1>1. /\ pc[p] \in {"swap", "stage", "undo"} /\ UNCHANGED <<lock, claim, job, base, mine>>
      /\ ClaimTyped
    BY DEF Look, Place, Stage, Undo, ProtoInv
<1>2. \/ Fail(p) /\ pc[p] = "swap"
      \/ UNCHANGED <<pc, left>>
      \/ \E s \in left[p] : Treated(p, s)
    BY DEF Look, Place, Stage, Undo
<1>3. CASE Fail(p) /\ pc[p] = "swap"
    BY <1>1, <1>3, FailFine
<1>4. CASE UNCHANGED <<pc, left>>
    <2>1. left' \in [Procs -> SUBSET Skills]
        BY <1>1, <1>4 DEF ClaimTyped
    <2> QED BY <1>1, <1>4, <2>1, ShorterFine
<1>5. CASE \E s \in left[p] : Treated(p, s)
    <2>1. PICK s \in left[p] : Treated(p, s)
        BY <1>5
    <2> QED BY <1>1, <2>1, TreatedSets, ShorterFine
<1> QED BY <1>2, <1>3, <1>4, <1>5

LEMMA WriteReceiptFine ==
    ASSUME ProtoInv, NEW p \in Procs, WriteReceipt(p) \/ RestoreFails(p) PROVE Fine(p)
<1> DEFINE phase == Following(p, pc[p])
<1>1. /\ pc[p] \in {"record", "forget", "restore"} /\ Goto(p, phase)
      /\ UNCHANGED <<lock, claim, job, base, mine>> /\ ClaimTyped /\ OpFits(p)
    BY DEF WriteReceipt, RestoreFails, ProtoInv, OpsFit, disk
<1>2. pc'[p] = phase /\ left'[p] = Work(p, phase) /\ pc[p] \in Writing
    BY <1>1, GotoSets DEF Writing
<1>3. /\ pc[p] = "record" => phase = "activate"
      /\ pc[p] = "forget" => phase = "clean"
      /\ pc[p] = "restore" => phase = "revive"
    BY DEF Following
<1> HIDE DEF phase
<1>4. OpFits(p)'
    <2>1. CASE pc[p] = "record"
        BY <1>1, <1>2, <1>3, <2>1, OnwardFits
    <2>2. CASE pc[p] \in {"forget", "restore"}
        <3>1. \A s \in mine[p] : claim'[s] # Torn
            BY <1>1, <1>2 DEF OpFits, MineFits
        <3>2. \A s \in Old(p) : CanGoBack(p, s)'
            <4> SUFFICES ASSUME NEW s \in Old(p) PROVE CanGoBack(p, s)'
                OBVIOUS
            <4>1. CanGoBack(p, s)
                BY <1>2, <2>2, MayGoBack
            <4> QED BY <1>1, <4>1 DEF CanGoBack
        <3>3. phase \in Backwards \cup {"clean", "release"} /\ phase # "unadmit"
            BY <1>3, <2>2 DEF Backwards
        <3> QED BY <1>1, <1>2, <3>1, <3>2, <3>3, BackFits
    <2> QED BY <1>1, <2>1, <2>2
<1>5. phase \in Phases /\ phase \notin {"reserve", "admit", "swap"}
    BY <1>1, <1>3 DEF Phases, Looping
<1> QED BY <1>1, <1>4, <1>5, GotoFine

LEMMA CleanFine ==
    ASSUME ProtoInv, NEW p \in Procs, Clean(p) \/ CleanFails(p) PROVE Fine(p)
<1>1. pc[p] = "clean" /\ UNCHANGED <<lock, claim, job, base, mine>> /\ ClaimTyped /\ OpFits(p)
    BY DEF Clean, CleanFails, disk, ProtoInv, OpsFit
<1>2. CASE Goto(p, "release")
    <2>1. pc'[p] = "release" /\ (job[p].flow = "install" => job[p].kind = "install")
        BY <1>1, <1>2, GotoSets DEF OpFits, FlowFits
    <2>2. OpFits(p)'
        BY <1>1, <2>1, OutsideFits
    <2>3. "release" \in Phases
        BY DEF Phases, Looping
    <2> QED BY <1>1, <1>2, <2>2, <2>3, GotoFine
<1>3. CASE Fail(p)
    BY <1>1, <1>3, FailFine
<1> QED BY <1>2, <1>3 DEF Clean, CleanFails

LEMMA ReleaseFine ==
    ASSUME ProtoInv, NEW p \in Procs, Release(p) \/ ReleaseFails(p) PROVE Fine(p)
<1>1. pc[p] = "release" /\ UNCHANGED <<claim, job, base, mine>> /\ ClaimTyped /\ Typed
      /\ OpFits(p)
    BY DEF Release, ReleaseFails, ProtoInv, WriterInv, OpsFit
<1>2. PICK s \in left[p], l \in {Free, Stale} :
        lock' = [lock EXCEPT ![s] = l] /\ Treated(p, s)
    BY DEF Release, ReleaseFails
<1>3. lock[s] = p /\ s \in Skills
    BY <1>1 DEF ProtoInv, WriterInv, ReleasesOwn
<1>4. /\ pc' = pc /\ left' \in [Procs -> SUBSET Skills] /\ left'[p] = left[p] \ {s}
      /\ \A q \in Procs \ {p} : left'[q] = left[q]
    BY <1>1, <1>2, TreatedSets
<1>5. job[p].flow = "install" => job[p].kind = "install"
    BY <1>1 DEF OpFits, FlowFits
<1>6. OpFits(p)'
    BY <1>1, <1>4, <1>5, OutsideFits
<1>7. OthersStay(p) /\ ClaimTyped'
    BY <1>1, <1>2, <1>3, <1>4 DEF OthersStay, ClaimTyped, Typed
<1> QED BY <1>6, <1>7 DEF Fine

LEMMA IdleFine ==
    ASSUME ProtoInv, NEW p \in Procs, Idle(p), UNCHANGED claim,
           \A q \in Procs \ {p}, s \in Skills : lock[s] = q => lock'[s] = q
    PROVE  Fine(p)
<1>1. ClaimTyped /\ Typed
    BY DEF ProtoInv, WriterInv
<1>2. /\ pc'[p] = "idle" /\ job'[p] = NoJob /\ mine'[p] = {}
      /\ \A q \in Procs \ {p} : /\ pc'[q] = pc[q] /\ left'[q] = left[q] /\ job'[q] = job[q]
                                /\ base'[q] = base[q] /\ mine'[q] = mine[q]
    BY <1>1 DEF Idle, ClaimTyped, Typed
<1>3. OpFits(p)'
    BY <1>2, OutsideFits DEF NoJob
<1>4. NoClaims \in [Skills -> Claims \cup {NoClaim}] /\ "idle" \in Phases
    BY DEF NoClaims, Phases
<1>5. OthersStay(p) /\ ClaimTyped'
    BY <1>1, <1>2, <1>4 DEF Idle, OthersStay, ClaimTyped
<1> QED BY <1>3, <1>5 DEF Fine

LEMMA BackFailsFine ==
    ASSUME ProtoInv, NEW p \in Procs, BackFails(p) PROVE Fine(p)
<1>1. /\ pc[p] \in Backward \cup {"undo"} /\ UNCHANGED <<lock, claim, job, base, mine, pc>>
      /\ ClaimTyped
    BY DEF BackFails, disk, ProtoInv
<1>2. PICK s \in left[p] :
        left' = [left EXCEPT ![p] = IF pc[p] = "undo" THEN @ \ {s} ELSE {}]
    BY DEF BackFails
<1>3. /\ left' \in [Procs -> SUBSET Skills] /\ left'[p] \subseteq left[p]
      /\ \A q \in Procs \ {p} : left'[q] = left[q]
    BY <1>1, <1>2 DEF ClaimTyped
<1> QED BY <1>1, <1>3, ShorterFine

-----------------------------------------------------------------------------
(* The claim protocol *)

LEMMA ProtoInit == Init => ProtoInv
<1> SUFFICES ASSUME Init PROVE ProtoInv
    OBVIOUS
<1>1. WriterInv
    BY WriterInit
<1>2. claim \in [Skills -> Claims \cup {NoClaim, Torn}]
    <2>1. PICK S \in SUBSET ForeignSkills, v \in Versions, r \in (SUBSET Runtimes) \ {{}} :
            claim = [s \in Skills |-> IF s \in S
               THEN [Reserved(Load(v, r)) EXCEPT !.producer = "other", !.state = "active"]
               ELSE NoClaim]
        BY DEF Init
    <2>2. [Reserved(Load(v, r)) EXCEPT !.producer = "other", !.state = "active"] \in Claims
        BY DEF Reserved, Load, Claims, Loads, ClaimStates
    <2> QED BY <2>1, <2>2
<1>3. ClaimTyped
    BY <1>2 DEF Init, ClaimTyped, NoClaims, Phases
<1>4. OpsFit
    BY DEF Init, OpsFit, OpFits, FlowFits, LocksFit, ListFits, BaseFits, MineFits, OldFits,
       AddedFits, Unmarked, IsMarked, PastMark, IsReserved, Writing, Looping, NoJob
<1> QED BY <1>1, <1>3, <1>4 DEF ProtoInv

\* Every step of a process is fine.
LEMMA StepFine ==
    ASSUME ProtoInv, NEW p \in Procs, Start(p) \/ GoOn(p) \/ Disturbed(p) PROVE Fine(p)
<1>1. Return(p) \/ Crash(p) => Fine(p)
    <2> SUFFICES ASSUME Return(p) \/ Crash(p) PROVE Fine(p)
        OBVIOUS
    <2>1. Idle(p) /\ UNCHANGED claim
        BY DEF Return, Crash, disk
    <2>2. \A q \in Procs \ {p}, s \in Skills : lock[s] = q => lock'[s] = q
        BY DEF Return, Crash, disk
    <2> QED BY <2>1, <2>2, IdleFine
<1>2. FailsEarly(p) => Fine(p)
    <2> SUFFICES ASSUME FailsEarly(p) PROVE Fine(p)
        OBVIOUS
    <2>1. /\ Fail(p) /\ UNCHANGED <<job, base, mine, lock, claim>>
          /\ pc[p] \in Forward \cup {"lock", "swap", "stage", "record", "forget", "clean"}
        BY DEF FailsEarly, CanFail, disk
    <2> QED BY <2>1, FailFine
<1> QED BY <1>1, <1>2, StartFine, ReadFine, MkdirFine, CheckFine, WriteClaimFine, PhaseEndsFine,
           TreesFine, WriteReceiptFine, CleanFine, ReleaseFine, BackFailsFine, FailsLateFine
        DEF GoOn, Disturbed

LEMMA QuietFits ==
    ASSUME ProtoInv, UNCHANGED <<claim, pc, left, job, base, mine>>,
           \A q \in Procs, s \in Skills : lock[s] = q => lock'[s] = q
    PROVE  OpsFit' /\ ClaimTyped'
<1>1. \A q \in Procs : OpFits(q)'
    BY OthersFit DEF ProtoInv, WriterInv
<1> QED BY <1>1 DEF OpsFit, ProtoInv, ClaimTyped

LEMMA ProtoStep == ProtoInv /\ [Next]_vars => ProtoInv'
<1> SUFFICES ASSUME ProtoInv, [Next]_vars PROVE OpsFit' /\ ClaimTyped'
    BY WriterStep DEF ProtoInv
<1>1. ASSUME NEW p \in Procs, Start(p) \/ GoOn(p) \/ Disturbed(p) PROVE OpsFit' /\ ClaimTyped'
    BY <1>1, StepFine, FineKeeps
<1>2. ASSUME NEW s \in Skills, RemoveStaleLock(s) \/ AddTree(s) PROVE OpsFit' /\ ClaimTyped'
    <2>1. UNCHANGED <<claim, pc, left, job, base, mine>>
        BY <1>2 DEF RemoveStaleLock, AddTree, procVars
    <2>2. \A q \in Procs, t \in Skills : lock[t] = q => lock'[t] = q
        <3>1. CASE AddTree(s)
            BY <3>1 DEF AddTree
        <3>2. CASE RemoveStaleLock(s)
            BY <3>2, InstallAssumption DEF RemoveStaleLock, ProtoInv, WriterInv, Typed
        <3> QED BY <1>2, <3>1, <3>2
    <2> QED BY <2>1, <2>2, QuietFits
<1>3. CASE UNCHANGED vars
    BY <1>3, QuietFits DEF vars, disk, procVars
<1> QED BY <1>1, <1>2, <1>3 DEF Next

\* The invariant of claims and work lists holds throughout (claims.go:202-321,
\* install_flow.go:185-392, uninstall.go:138-306).
THEOREM ProtoInvHolds == Spec => []ProtoInv
<1> QED BY ProtoInit, ProtoStep, PTL DEF Spec

\* What an operation read or wrote under its locks is what it finds when it
\* uses it again: no write of the way forward runs into a changed claim
\* (claims.go:202-321).
THEOREM ReadUnderLockStaysHolds == Spec => []ReadUnderLockStays
<1>1. ProtoInv => ReadUnderLockStays
    <2> SUFFICES ASSUME ProtoInv, NEW p \in Procs, NEW s \in left[p]
                 PROVE  /\ pc[p] = "reserve" => claim[s] = NoClaim
                        /\ pc[p] = "mark" => claim[s] = base[p][s]
                        /\ pc[p] \in {"stage", "activate", "drop"} /\ s \in Old(p) =>
                             claim[s] = Marked(p, base[p][s])
                        /\ pc[p] = "admit" => claim[s] = Reserved(job[p].next)
        BY DEF ReadUnderLockStays
    <2>1. OldFits(p) /\ AddedFits(p) /\ ListFits(p)
        BY DEF ProtoInv, OpsFit, OpFits
    <2> QED BY <2>1 DEF OldFits, AddedFits, ListFits, Unmarked, IsMarked, IsReserved
<1> QED BY <1>1, ProtoInvHolds, PTL

-----------------------------------------------------------------------------
(* Every write follows the protocol *)

LEMMA WriteFollows ==
    ASSUME ProtoInv, NEW p \in Procs, pc[p] \in Writing, NEW s \in Old(p) \cup Added(p), NEW c,
           claim' = [claim EXCEPT ![s] = c], lock' = lock, Legal(claim[s], c)
    PROVE  ProtocolNext
<1>1. s \in Skills /\ lock[s] = p
    BY DEF ProtoInv, OpsFit, OpFits, LocksFit, Held
<1>2. claim'[s] = c
    BY <1>1 DEF ProtoInv, ClaimTyped
<1>3. ClaimStep(p, s)
    BY <1>1, <1>2 DEF ClaimStep, Legal
<1> QED BY <1>1, <1>3 DEF ProtocolNext

LEMMA ClaimsFollow ==
    ASSUME ProtoInv, NEW p \in Procs, WriteClaim(p) \/ FailsLate(p)
    PROVE  ProtocolNext \/ UNCHANGED <<lock, claim>>
<1> SUFFICES ASSUME claim' # claim PROVE ProtocolNext
    BY DEF WriteClaim, FailsLate
<1>1. lock' = lock /\ pc[p] \in Forward \cup Backward /\ pc[p] \in Writing
    BY DEF WriteClaim, FailsLate, Forward, Backward, Writing, Looping
<1>2. \E s \in left[p] :
        \/ claim' = [claim EXCEPT ![s] = NewClaim(p, s)] /\ (pc[p] \in Backward => ~BackThere(p, s))
        \/ pc[p] = "reserve" /\ claim' = [claim EXCEPT ![s] = Torn]
    <2>1. CASE WriteClaim(p)
        BY <2>1 DEF WriteClaim
    <2>2. CASE FailsLate(p)
        BY <2>2 DEF FailsLate, Forward, Backward
    <2> QED BY <2>1, <2>2
<1>3. PICK s \in left[p] :
        \/ claim' = [claim EXCEPT ![s] = NewClaim(p, s)] /\ (pc[p] \in Backward => ~BackThere(p, s))
        \/ pc[p] = "reserve" /\ claim' = [claim EXCEPT ![s] = Torn]
    BY <1>2
<1>4. CASE pc[p] = "reserve" /\ claim' = [claim EXCEPT ![s] = Torn]
    <2>1. s \in Old(p) \cup Added(p) /\ claim[s] = NoClaim
        BY <1>4, ForwardLegal DEF Forward
    <2>2. Legal(claim[s], Torn)
        BY <2>1 DEF Legal
    <2> QED BY <1>1, <1>4, <2>1, <2>2, WriteFollows
<1>5. CASE /\ claim' = [claim EXCEPT ![s] = NewClaim(p, s)]
           /\ pc[p] \in Backward => ~BackThere(p, s)
    <2>1. s \in Old(p) \cup Added(p) /\ Legal(claim[s], NewClaim(p, s))
        BY <1>1, <1>5, ForwardLegal, BackwardLegal
    <2> QED BY <1>1, <1>5, <2>1, WriteFollows
<1> QED BY <1>3, <1>4, <1>5

LEMMA LocksFollow ==
    ASSUME ProtoInv, NEW p \in Procs, Mkdir(p) \/ Release(p) \/ ReleaseFails(p) \/ Crash(p)
    PROVE  ProtocolNext \/ UNCHANGED <<lock, claim>>
<1>1. claim' = claim /\ lock \in [Skills -> Procs \cup {Free, Stale}] /\ ClaimTyped
    BY DEF Mkdir, Release, ReleaseFails, Crash, ProtoInv, WriterInv, Typed
<1>2. CASE Mkdir(p)
    <2>1. PICK s \in left[p] :
            IF lock[s] = Free THEN lock' = [lock EXCEPT ![s] = p] ELSE UNCHANGED lock
        BY <1>2 DEF Mkdir
    <2>2. s \in Skills
        BY <1>1 DEF ClaimTyped
    <2> QED BY <1>1, <2>1, <2>2 DEF ProtocolNext, LockStep, Take
<1>3. CASE Release(p)
    <2>1. PICK s \in left[p] : lock' = [lock EXCEPT ![s] = Free] /\ pc[p] = "release"
        BY <1>3 DEF Release
    <2>2. s \in Skills /\ lock[s] = p
        BY <2>1 DEF ProtoInv, WriterInv, ReleasesOwn
    <2> QED BY <1>1, <2>1, <2>2 DEF ProtocolNext, LockStep, Drop
<1>4. CASE ReleaseFails(p)
    <2>1. PICK s \in left[p] : lock' = [lock EXCEPT ![s] = Stale] /\ pc[p] = "release"
        BY <1>4 DEF ReleaseFails
    <2>2. s \in Skills /\ lock[s] = p
        BY <2>1 DEF ProtoInv, WriterInv, ReleasesOwn
    <2>3. lock' = [t \in Skills |-> IF t \in {s} THEN Stale ELSE lock[t]]
        BY <1>1, <2>1, <2>2
    <2>4. {s} \in SUBSET {t \in Skills : lock[t] = p}
        BY <2>2
    <2> QED BY <1>1, <2>3, <2>4 DEF ProtocolNext, LockStep, Abandon
<1>5. CASE Crash(p)
    <2> DEFINE S == {t \in Skills : lock[t] = p}
    <2>1. lock' = [t \in Skills |-> IF t \in S THEN Stale ELSE lock[t]]
        BY <1>5 DEF Crash
    <2>2. S \in SUBSET {t \in Skills : lock[t] = p}
        OBVIOUS
    <2> HIDE DEF S
    <2> QED BY <1>1, <2>1, <2>2 DEF ProtocolNext, LockStep, Abandon
<1> QED BY <1>2, <1>3, <1>4, <1>5

LEMMA StepFollows == ProtoInv /\ [Next]_vars => [ProtocolNext]_<<lock, claim>>
<1> SUFFICES ASSUME ProtoInv, [Next]_vars PROVE ProtocolNext \/ UNCHANGED <<lock, claim>>
    OBVIOUS
<1>1. ASSUME NEW p \in Procs, Start(p) \/ GoOn(p) \/ Disturbed(p)
      PROVE  ProtocolNext \/ UNCHANGED <<lock, claim>>
    <2>1. CASE WriteClaim(p) \/ FailsLate(p)
        BY <2>1, ClaimsFollow
    <2>2. CASE Mkdir(p) \/ Release(p) \/ ReleaseFails(p) \/ Crash(p)
        BY <2>2, LocksFollow
    <2>3. CASE \/ Start(p) \/ PhaseEnds(p) \/ Read(p) \/ Check(p) \/ Look(p) \/ Place(p)
               \/ Stage(p) \/ Undo(p) \/ WriteReceipt(p) \/ Clean(p) \/ Return(p)
               \/ FailsEarly(p) \/ BackFails(p) \/ RestoreFails(p) \/ CleanFails(p)
        BY <2>3 DEF Start, PhaseEnds, Read, Check, Look, Place, Stage, Undo, WriteReceipt, Clean,
           Return, FailsEarly, BackFails, RestoreFails, CleanFails, disk
    <2> QED BY <1>1, <2>1, <2>2, <2>3 DEF GoOn, Disturbed
<1>2. ASSUME NEW s \in Skills, RemoveStaleLock(s) \/ AddTree(s)
      PROVE  ProtocolNext \/ UNCHANGED <<lock, claim>>
    BY <1>2 DEF RemoveStaleLock, AddTree, ProtocolNext, LockStep, TakeAway
<1>3. CASE UNCHANGED vars
    BY <1>3 DEF vars, disk
<1> QED BY <1>1, <1>2, <1>3 DEF Next

\* Every step moves locks and claims as PROTOCOL.md and the locked store allow,
\* whatever fails, dies or is removed by hand (claim_locks.go:17-193).
THEOREM FollowsProtocolHolds == Spec => FollowsProtocol
<1>1. Init => ProtocolInit
    BY DEF Init
<1>2. ProtoInv /\ [Next]_vars => [ProtocolNext]_<<lock, claim>>
    BY StepFollows
<1> QED BY <1>1, <1>2, ProtoInvHolds, PTL DEF Spec, FollowsProtocol

-----------------------------------------------------------------------------
(* Receipt, trees and claims together *)

\* What was decided when it began.
PlanFits(p) ==
    /\ job[p].flow = "install" =>
         /\ job[p].next \in Loads /\ job[p].next.version = Binary[p]
         /\ job[p].want \subseteq job[p].next.runtimes
         /\ Installed(job[p].rec) \subseteq Names[Binary[p]]
    /\ job[p].flow = "unlink" =>
         /\ job[p].next \in Loads /\ job[p].rec # NoReceipt
         /\ job[p].next.version = job[p].rec.version
         /\ job[p].next.runtimes \cap job[p].want = {}
    /\ job[p].flow = "remove" => job[p].next = NoReceipt /\ job[p].rec # NoReceipt
    /\ pc[p] = "clean" => job[p].flow # "unlink"
    /\ job[p].flow \in {"unlink", "remove"} => job[p].kind # "install"
    /\ pc[p] \in Backwards => why[p] # "none"

\* The receipt, before and after it is written.
ReceiptFits(p) ==
    /\ pc[p] \in {"reserve", "mark", "swap", "record", "stage", "drop", "forget"} =>
          receipt = job[p].rec
    /\ pc[p] \in {"activate", "admit", "clean"} \/ Reported(p, {"install", "unlink", "remove"}) =>
          receipt = job[p].next
    /\ Reported(p, {"current"}) =>
         /\ receipt # NoReceipt /\ receipt.version = Binary[p]
         /\ job[p].want \subseteq receipt.runtimes /\ Consistent

\* The trees: as the old receipt says, as the new one says, or gone.
TreesAre(S, v) == \A s \in S : tree[s] = v
TreesGone(S)   == \A s \in S : tree[s] \notin Versions
TreesFit(p) ==
    /\ pc[p] \in {"reserve", "mark"} => TreesAre(Installed(job[p].rec), job[p].rec.version)
    /\ pc[p] = "swap" =>
         /\ left[p] \subseteq Names[job[p].next.version]
         /\ TreesAre(Names[job[p].next.version] \ left[p], job[p].next.version)
         /\ TreesAre((left[p] \cap Installed(job[p].rec)) \ Moves(p), job[p].rec.version)
    /\ \/ pc[p] \in {"record", "activate", "admit"}
       \/ pc[p] = "clean" /\ job[p].flow = "install"
       \/ Reported(p, {"install", "unlink"})
       => TreesAre(Names[job[p].next.version], job[p].next.version)
    /\ pc[p] = "stage" =>
         /\ left[p] \subseteq Installed(job[p].rec)
         /\ TreesAre(left[p], job[p].rec.version)
         /\ TreesGone(Installed(job[p].rec) \ left[p])
    /\ \/ pc[p] \in {"drop", "forget"}
       \/ pc[p] = "clean" /\ job[p].flow = "remove"
       \/ Reported(p, {"remove"})
       => TreesGone(Installed(job[p].rec))

\* The claims that have reached their end.
ClaimsDone(p) ==
    /\ pc[p] = "activate" => ClaimsMatch(Old(p) \ left[p], job[p].next)
    /\ pc[p] = "admit" => ClaimsMatch((Old(p) \cup Added(p)) \ left[p], job[p].next)
    /\ \/ pc[p] = "clean" /\ job[p].flow = "install"
       \/ Reported(p, {"install", "unlink"})
       => ClaimsMatch(Old(p) \cup Added(p), job[p].next)
    /\ pc[p] = "drop" => ClaimsAbsent(Old(p) \ left[p])
    /\ \/ pc[p] = "forget" \/ Reported(p, {"remove"})
       \/ pc[p] = "clean" /\ job[p].flow = "remove"
       => ClaimsAbsent(Old(p))

\* What was moved away, and what has come to its place.
MovesFit(p) ==
    /\ pc[p] \in {"idle", "read", "lock", "check", "reserve", "mark"} => Moves(p) = {}
    /\ pc[p] \in Writing /\ job[p].flow = "install" => Moves(p) \subseteq Names[job[p].next.version]
    /\ pc[p] = "undo" => left[p] \subseteq Moves(p)
    /\ pc[p] = "unadmit" => \A s \in Moves(p) : tree[s] \in Versions
    /\ ~UserInWindow =>
         /\ pc[p] = "swap" => TreesAre(left[p] \cap Moves(p), Nothing)
         /\ pc[p] = "undo" /\ job[p].flow = "install" =>
              \A s \in left[p] : tree[s] \in Versions \cup {Nothing}

WorkFits(p) == PlanFits(p) /\ ReceiptFits(p) /\ TreesFit(p) /\ ClaimsDone(p) /\ MovesFit(p)
WorksFit == \A p \in Procs : WorkFits(p)


WorkTyped ==
    /\ tree \in [Skills -> Versions \cup {Nothing, Foreign}]
    /\ aside \in [Procs -> [Skills -> Versions \cup {Nothing, Foreign, NotMoved}]]
    /\ why \in [Procs -> Phases \cup {"none"}]

WorkInv == ProtoInv /\ WorkTyped /\ WorksFit

\* While an operation holds what all need, receipt, trees and claims are its own.
Secure(p) == pc[p] \in Writing \/ (pc[p] = "release" /\ Anchored(p))

LEMMA WriterAlone ==
    ASSUME ProtoInv, NEW p \in Procs, pc[p] \in Writing, NEW q \in Procs, Secure(q)
    PROVE  p = q
<1>1. \A r \in Procs, s \in Skills :
        pc[r] \in Writing /\ (\A v \in Versions : s \in Names[v]) => lock[s] = r
    <2> SUFFICES ASSUME NEW r \in Procs, NEW s \in Skills, pc[r] \in Writing,
                        \A v \in Versions : s \in Names[v]
                 PROVE  lock[s] = r
        OBVIOUS
    <2>1. /\ Needed(r) \subseteq Held(r)
          /\ job[r].kind # "install" => job[r].seen # NoReceipt
        BY DEF ProtoInv, OpsFit, OpFits, LocksFit, FlowFits
    <2>2. job[r].seen \in Receipts /\ Binary[r] \in Versions
        BY InstallAssumption DEF ProtoInv, WriterInv, Typed, Jobs
    <2>3. s \in Needed(r)
        BY <2>1, <2>2 DEF Needed, Installed, Receipts
    <2> QED BY <2>1, <2>3 DEF Held
<1>2. CASE pc[q] \in Writing
    BY <1>1, <1>2, AnchorKnown
<1>3. CASE Anchored(q)
    BY <1>1, <1>3 DEF Anchored, Held
<1> QED BY <1>2, <1>3 DEF Secure


LEMMA NotReported ==
    ASSUME NEW p, ~Secure(p) \/ pc[p] # "release" \/ why[p] # "none"
    PROVE  \A flow : ~Reported(p, flow)
BY DEF Reported, Secure

\* Who is not at work feels nothing.
LEMMA OthersWork ==
    ASSUME WorkInv, NEW q \in Procs,
           pc'[q] = pc[q], left'[q] = left[q], job'[q] = job[q], aside'[q] = aside[q],
           why'[q] = why[q],
           \A s \in Skills : lock'[s] = q => lock[s] = q,
           Secure(q) => UNCHANGED <<claim, tree, receipt>>
    PROVE  WorkFits(q)'
<1>1. WorkFits(q) /\ Old(q)' = Old(q) /\ Added(q)' = Added(q)
    BY OldStays, AddedStays DEF WorkInv, WorksFit
<1>2. Moves(q)' = Moves(q)
    BY DEF Moves
<1>3. Secure(q)' => Secure(q)
    BY DEF Secure, Anchored, Held
<1>4. \A flow : Reported(q, flow)' => Reported(q, flow)
    BY DEF Reported, Anchored, Held
<1>5. PlanFits(q)'
    BY <1>1 DEF WorkFits, PlanFits, Installed
<1>6. CASE Secure(q)
    <2>1. UNCHANGED <<claim, tree, receipt>>
        BY <1>6
    <2>2. ReceiptFits(q)'
        BY <1>1, <1>4, <2>1 DEF WorkFits, ReceiptFits, Consistent, TreesMatch, ClaimsMatch,
           ClaimMatches
    <2>3. TreesFit(q)'
        BY <1>1, <1>2, <1>4, <2>1 DEF WorkFits, TreesFit, TreesAre, TreesGone, Installed
    <2>4. ClaimsDone(q)'
        BY <1>1, <1>4, <2>1 DEF WorkFits, ClaimsDone, ClaimsMatch, ClaimMatches, ClaimsAbsent
    <2>5. MovesFit(q)'
        BY <1>1, <1>2, <2>1 DEF WorkFits, MovesFit, TreesAre
    <2> QED BY <1>5, <2>2, <2>3, <2>4, <2>5 DEF WorkFits
<1>7. CASE ~Secure(q)
    <2>1. pc[q] \notin Writing /\ \A flow : ~Reported(q, flow)'
        BY <1>4, <1>7, NotReported DEF Secure
    <2>2. ReceiptFits(q)' /\ TreesFit(q)' /\ ClaimsDone(q)'
        BY <2>1 DEF ReceiptFits, TreesFit, ClaimsDone, Writing, Looping
    <2>3. MovesFit(q)'
        BY <1>1, <1>2, <2>1 DEF WorkFits, MovesFit, Writing, Looping
    <2> QED BY <1>5, <2>2, <2>3 DEF WorkFits
<1> QED BY <1>6, <1>7

\* On the way back nothing is promised but that it can be walked.
LEMMA BackWorks ==
    ASSUME WorkInv, NEW p \in Procs, pc'[p] \in Backwards \cup {"release"}, why'[p] # "none",
           job'[p] = job[p],
           pc'[p] # "release" /\ job[p].flow = "install" =>
               Moves(p)' \subseteq Names[job[p].next.version],
           pc'[p] = "undo" => left'[p] \subseteq Moves(p)',
           pc'[p] = "unadmit" => \A s \in Moves(p)' : tree'[s] \in Versions,
           ~UserInWindow /\ pc'[p] = "undo" /\ job[p].flow = "install" =>
               \A s \in left'[p] : tree'[s] \in Versions \cup {Nothing}
    PROVE  WorkFits(p)'
<1>1. WorkFits(p)
    BY DEF WorkInv, WorksFit
<1>2. \A flow : ~Reported(p, flow)'
    BY DEF Reported
<1>3. PlanFits(p)'
    BY <1>1 DEF WorkFits, PlanFits, Installed, Backwards
<1>4. ReceiptFits(p)' /\ TreesFit(p)' /\ ClaimsDone(p)'
    BY <1>2 DEF ReceiptFits, TreesFit, ClaimsDone, Backwards
<1>5. MovesFit(p)'
    BY DEF MovesFit, Backwards, Writing, Looping
<1> QED BY <1>3, <1>4, <1>5 DEF WorkFits

-----------------------------------------------------------------------------
(* What a step of one process leaves to the others *)

Step(p) == Start(p) \/ GoOn(p) \/ Disturbed(p)

LEMMA FailSets ==
    ASSUME WorkInv, NEW p \in Procs, Fail(p)
    PROVE  /\ pc'[p] = WayBack(pc[p]) /\ left'[p] = Work(p, WayBack(pc[p])) /\ why'[p] = pc[p]
           /\ \A q \in Procs \ {p} : why'[q] = why[q]
           /\ why' \in [Procs -> Phases \cup {"none"}]
<1>1. ClaimTyped /\ WorkTyped /\ Goto(p, WayBack(pc[p]))
    BY DEF WorkInv, ProtoInv, Fail
<1>2. pc[p] \in Phases
    BY <1>1 DEF ClaimTyped
<1> QED BY <1>1, <1>2, GotoSets DEF Fail, WorkTyped

LEMMA IdleSets ==
    ASSUME WorkInv, NEW p \in Procs, Idle(p)
    PROVE  /\ pc'[p] = "idle" /\ job'[p] = NoJob /\ why'[p] = "none"
           /\ aside'[p] = NoMoves
           /\ \A q \in Procs \ {p} : why'[q] = why[q] /\ aside'[q] = aside[q]
           /\ why' \in [Procs -> Phases \cup {"none"}]
           /\ aside' \in [Procs -> [Skills -> Versions \cup {Nothing, Foreign, NotMoved}]]
<1>1. ClaimTyped /\ WorkTyped /\ Typed
    BY DEF WorkInv, ProtoInv, WriterInv
<1> QED BY <1>1 DEF Idle, ClaimTyped, Typed, WorkTyped, NoMoves

\* Reasons are written by failures and refusals.
LEMMA WhyMoves ==
    ASSUME WorkInv, NEW p \in Procs, Step(p)
    PROVE  /\ \A q \in Procs \ {p} : why'[q] = why[q]
           /\ why' \in [Procs -> Phases \cup {"none"}]
<1>1. WorkTyped
    BY DEF WorkInv
<1>2. CASE UNCHANGED why
    BY <1>1, <1>2 DEF WorkTyped
<1>3. CASE Refuse(p)
    BY <1>1, <1>3 DEF Refuse, WorkTyped, Phases
<1>4. UNCHANGED why \/ Refuse(p) \/ Fail(p) \/ Idle(p)
    <2>1. Check(p) => UNCHANGED why \/ Refuse(p)
        BY DEF Check, CheckInstall, CheckUninstall, Report, Begin
    <2>2. Start(p) \/ PhaseEnds(p) \/ Read(p) \/ WriteClaim(p) \/ Stage(p) \/ Undo(p)
            \/ WriteReceipt(p) \/ Clean(p) \/ Release(p) => UNCHANGED why
        BY DEF Start, PhaseEnds, Read, WriteClaim, Stage, Undo, WriteReceipt, Clean, Release
    <2>3. BackFails(p) \/ RestoreFails(p) \/ ReleaseFails(p) => UNCHANGED why
        BY DEF BackFails, RestoreFails, ReleaseFails
    <2>4. Mkdir(p) \/ Look(p) \/ Place(p) \/ FailsEarly(p) \/ FailsLate(p) \/ CleanFails(p) =>
            UNCHANGED why \/ Fail(p)
        BY DEF Mkdir, Look, Place, FailsEarly, FailsLate, CleanFails
    <2>5. Return(p) \/ Crash(p) => Idle(p)
        BY DEF Return, Crash
    <2> QED BY <2>1, <2>2, <2>3, <2>4, <2>5 DEF Step, GoOn, Disturbed
<1> QED BY <1>2, <1>3, <1>4, FailSets, IdleSets

\* Only who has read under the locks writes.
LEMMA WritersWrite ==
    ASSUME NEW p \in Procs, Step(p), pc[p] \notin Writing
    PROVE  UNCHANGED <<claim, tree, receipt>>
<1>1. Start(p) \/ PhaseEnds(p) \/ Read(p) \/ Mkdir(p) \/ Check(p) => UNCHANGED <<claim, tree, receipt>>
    BY DEF Start, PhaseEnds, Read, Mkdir, Check, disk
<1>2. Clean(p) \/ Release(p) \/ Return(p) \/ CleanFails(p) \/ ReleaseFails(p) \/ Crash(p) =>
        UNCHANGED <<claim, tree, receipt>>
    BY DEF Clean, Release, Return, CleanFails, ReleaseFails, Crash, disk
<1>3. FailsEarly(p) \/ BackFails(p) \/ RestoreFails(p) => UNCHANGED <<claim, tree, receipt>>
    BY DEF FailsEarly, BackFails, RestoreFails, disk
<1>4. ~WriteClaim(p) /\ ~Look(p) /\ ~Place(p) /\ ~Stage(p) /\ ~Undo(p) /\ ~WriteReceipt(p)
      /\ ~FailsLate(p)
    BY DEF WriteClaim, Look, Place, Stage, Undo, WriteReceipt, FailsLate, Forward, Backward,
       Writing, Looping
<1> QED BY <1>1, <1>2, <1>3, <1>4 DEF Step, GoOn, Disturbed

\* A lock is taken by its holder, and freed.
LEMMA LocksMove ==
    ASSUME WorkInv, NEW p \in Procs, Step(p), NEW q \in Procs, NEW s \in Skills, lock'[s] = q,
           q # p
    PROVE  lock[s] = q
<1>1. Free # q /\ Stale # q /\ lock \in [Skills -> Procs \cup {Free, Stale}]
    BY InstallAssumption DEF WorkInv, ProtoInv, WriterInv, Typed
<1>2. CASE UNCHANGED lock
    BY <1>2
<1>3. CASE Mkdir(p) \/ Release(p) \/ ReleaseFails(p) \/ Crash(p)
    BY <1>1, <1>3 DEF Mkdir, Release, ReleaseFails, Crash
<1>4. UNCHANGED lock \/ Mkdir(p) \/ Release(p) \/ ReleaseFails(p) \/ Crash(p)
    <2>1. Start(p) \/ PhaseEnds(p) \/ Read(p) \/ Check(p) \/ WriteClaim(p) \/ Look(p) \/ Place(p)
            \/ Stage(p) => UNCHANGED lock
        BY DEF Start, PhaseEnds, Read, Check, WriteClaim, Look, Place, Stage, disk
    <2>2. Undo(p) \/ WriteReceipt(p) \/ Clean(p) \/ Return(p) \/ FailsEarly(p) \/ FailsLate(p)
            \/ BackFails(p) \/ RestoreFails(p) \/ CleanFails(p) => UNCHANGED lock
        BY DEF Undo, WriteReceipt, Clean, Return, FailsEarly, FailsLate, BackFails, RestoreFails,
           CleanFails, disk
    <2> QED BY <2>1, <2>2 DEF Step, GoOn, Disturbed
<1> QED BY <1>2, <1>3, <1>4

-----------------------------------------------------------------------------
(* Trees and what was moved away *)

\* One tree is moved at a time, and only by who is at it.
LEMMA LookSets ==
    ASSUME WorkInv, NEW p \in Procs, NEW s \in left[p],
           aside' = [aside EXCEPT ![p][s] = tree[s]], tree' = [tree EXCEPT ![s] = Nothing]
    PROVE  /\ tree' \in [Skills -> Versions \cup {Nothing, Foreign}]
           /\ aside' \in [Procs -> [Skills -> Versions \cup {Nothing, Foreign, NotMoved}]]
           /\ tree'[s] = Nothing /\ \A t \in Skills \ {s} : tree'[t] = tree[t]
           /\ \A q \in Procs \ {p} : aside'[q] = aside[q]
           /\ Moves(p)' = Moves(p) \cup {s}
<1>1. WorkTyped /\ s \in Skills
    BY DEF WorkInv, ProtoInv, ClaimTyped
<1> DEFINE put == [aside[p] EXCEPT ![s] = tree[s]]
<1>2. /\ put \in [Skills -> Versions \cup {Nothing, Foreign, NotMoved}]
      /\ put[s] = tree[s] /\ \A t \in Skills \ {s} : put[t] = aside[p][t]
    BY <1>1 DEF WorkTyped
<1>3. aside' = [aside EXCEPT ![p] = put]
    OBVIOUS
<1>4. tree[s] # NotMoved
    BY <1>1, ValuesDiffer DEF WorkTyped
<1> HIDE DEF put
<1>5. aside'[p] = put /\ \A q \in Procs \ {p} : aside'[q] = aside[q]
    BY <1>1, <1>3 DEF WorkTyped
<1>6. aside' \in [Procs -> [Skills -> Versions \cup {Nothing, Foreign, NotMoved}]]
    BY <1>1, <1>2, <1>3 DEF WorkTyped
<1>7. tree' \in [Skills -> Versions \cup {Nothing, Foreign}]
    BY <1>1 DEF WorkTyped
<1>8. tree'[s] = Nothing /\ \A t \in Skills \ {s} : tree'[t] = tree[t]
    BY <1>1 DEF WorkTyped
<1>9. Moves(p)' = Moves(p) \cup {s}
    BY <1>1, <1>2, <1>4, <1>5 DEF Moves
<1> QED BY <1>5, <1>6, <1>7, <1>8, <1>9

LEMMA PlaceSets ==
    ASSUME WorkInv, NEW s \in Skills, NEW x \in Versions \cup {Nothing, Foreign},
           tree' = [tree EXCEPT ![s] = x]
    PROVE  /\ tree' \in [Skills -> Versions \cup {Nothing, Foreign}]
           /\ tree'[s] = x /\ \A t \in Skills \ {s} : tree'[t] = tree[t]
BY DEF WorkInv, WorkTyped

LEMMA SwapKnown ==
    ASSUME WorkInv, NEW p \in Procs, pc[p] = "swap"
    PROVE  /\ job[p].flow = "install" /\ job[p].next \in Loads /\ job[p].next.version \in Versions
           /\ left[p] \subseteq Names[job[p].next.version]
<1>1. OpFits(p) /\ WorkFits(p)
    BY DEF WorkInv, ProtoInv, OpsFit, WorksFit
<1>2. job[p].flow = "install"
    BY <1>1 DEF OpFits, FlowFits
<1>3. job[p].next \in Loads
    BY <1>1, <1>2 DEF WorkFits, PlanFits
<1> QED BY <1>1, <1>2, <1>3 DEF WorkFits, TreesFit, Loads

LEMMA UndoneKnown ==
    ASSUME WorkInv, NEW p \in Procs, pc[p] = "undo", NEW s \in left[p]
    PROVE  s \in Skills /\ Undone(p, s) \in Versions \cup {Nothing, Foreign}
<1>1. WorkTyped /\ s \in Moves(p) /\ s \in Skills
    BY DEF WorkInv, WorksFit, WorkFits, MovesFit, ProtoInv, ClaimTyped
<1>2. aside[p][s] # NotMoved /\ aside[p][s] \in Versions \cup {Nothing, Foreign, NotMoved}
    BY <1>1 DEF Moves, WorkTyped
<1> QED BY <1>1, <1>2 DEF Undone, WorkTyped

LEMMA TreesTyped ==
    ASSUME WorkInv, NEW p \in Procs, Step(p)
    PROVE  /\ tree' \in [Skills -> Versions \cup {Nothing, Foreign}]
           /\ aside' \in [Procs -> [Skills -> Versions \cup {Nothing, Foreign, NotMoved}]]
           /\ \A q \in Procs \ {p} : aside'[q] = aside[q]
<1>1. WorkTyped /\ ClaimTyped
    BY DEF WorkInv, ProtoInv
<1>2. CASE UNCHANGED <<tree, aside>>
    BY <1>1, <1>2 DEF WorkTyped
<1>3. CASE Idle(p) /\ UNCHANGED tree
    BY <1>1, <1>3, IdleSets DEF WorkTyped
<1>4. CASE Clean(p)
    BY <1>1, <1>4 DEF Clean, disk, WorkTyped, NoMoves
<1>5. CASE Look(p) \/ Stage(p)
    <2>1. CASE UNCHANGED <<tree, aside>>
        BY <1>2, <2>1
    <2>2. CASE \E s \in left[p] : /\ aside' = [aside EXCEPT ![p][s] = tree[s]]
                                  /\ tree' = [tree EXCEPT ![s] = Nothing]
        BY <2>2, LookSets
    <2> QED BY <1>5, <2>1, <2>2 DEF Look, Stage
<1>6. CASE Place(p)
    <2>1. CASE UNCHANGED <<tree, aside>>
        BY <1>2, <2>1
    <2>2. CASE \E s \in left[p] : tree' = [tree EXCEPT ![s] = job[p].next.version]
        <3>1. PICK s \in left[p] : tree' = [tree EXCEPT ![s] = job[p].next.version]
            BY <2>2
        <3>2. s \in Skills /\ job[p].next.version \in Versions \cup {Nothing, Foreign}
            BY <1>1, <1>6, SwapKnown DEF Place, ClaimTyped
        <3> QED BY <1>1, <1>6, <3>1, <3>2, PlaceSets DEF Place, WorkTyped
    <2> QED BY <1>6, <2>1, <2>2 DEF Place
<1>7. CASE Undo(p)
    <2>1. PICK s \in left[p] : tree' = [tree EXCEPT ![s] = Undone(p, s)]
        BY <1>7 DEF Undo
    <2>2. s \in Skills /\ Undone(p, s) \in Versions \cup {Nothing, Foreign}
        BY <1>7, UndoneKnown DEF Undo
    <2> QED BY <1>1, <1>7, <2>1, <2>2, PlaceSets DEF Undo, WorkTyped
<1>8. UNCHANGED <<tree, aside>> \/ (Idle(p) /\ UNCHANGED tree) \/ Clean(p) \/ Look(p) \/ Stage(p)
        \/ Place(p) \/ Undo(p)
    <2>1. Start(p) \/ PhaseEnds(p) \/ Read(p) \/ Mkdir(p) \/ Check(p) \/ WriteClaim(p)
            \/ WriteReceipt(p) \/ Release(p) => UNCHANGED <<tree, aside>>
        BY DEF Start, PhaseEnds, Read, Mkdir, Check, WriteClaim, WriteReceipt, Release, disk
    <2>2. FailsEarly(p) \/ FailsLate(p) \/ BackFails(p) \/ RestoreFails(p) \/ CleanFails(p)
            \/ ReleaseFails(p) => UNCHANGED <<tree, aside>>
        BY DEF FailsEarly, FailsLate, BackFails, RestoreFails, CleanFails, ReleaseFails, disk
    <2>3. Return(p) \/ Crash(p) => Idle(p) /\ UNCHANGED tree
        BY DEF Return, Crash, disk
    <2> QED BY <2>1, <2>2, <2>3 DEF Step, GoOn, Disturbed
<1> QED BY <1>2, <1>3, <1>4, <1>5, <1>6, <1>7, <1>8

\* The others are where they were.
LEMMA OthersKeep ==
    ASSUME WorkInv, NEW p \in Procs, Step(p), NEW q \in Procs \ {p}
    PROVE  WorkFits(q)'
<1>1. ProtoInv /\ Fine(p)
    BY StepFine DEF Step, WorkInv
<1>2. pc'[q] = pc[q] /\ left'[q] = left[q] /\ job'[q] = job[q]
    BY <1>1 DEF Fine, OthersStay
<1>3. aside'[q] = aside[q] /\ why'[q] = why[q]
    BY WhyMoves, TreesTyped
<1>4. \A s \in Skills : lock'[s] = q => lock[s] = q
    BY LocksMove
<1>5. Secure(q) => UNCHANGED <<claim, tree, receipt>>
    BY <1>1, WriterAlone, WritersWrite
<1> QED BY <1>2, <1>3, <1>4, <1>5, OthersWork

-----------------------------------------------------------------------------
(* Steps outside of the work *)

\* Who does not work promises only that he has not moved anything.
Promised(p) == /\ pc[p] = "release" /\ why[p] = "none"
               /\ job[p].flow \in {"install", "unlink", "remove", "current"}
LEMMA QuietWorks ==
    ASSUME NEW p, PlanFits(p),
           pc'[p] \in {"idle", "read", "lock", "check", "release"}, ~Promised(p)',
           \/ job'[p].flow \notin {"install", "unlink", "remove"}
           \/ /\ job'[p].flow = job[p].flow /\ job'[p].want = job[p].want
              /\ job'[p].rec = job[p].rec /\ job'[p].next = job[p].next
              /\ job'[p].kind = job[p].kind,
           pc'[p] # "release" => Moves(p)' = {}
    PROVE  WorkFits(p)'
<1>1. PlanFits(p)'
    BY DEF PlanFits, Installed, Backwards
<1>2. ReceiptFits(p)' /\ TreesFit(p)' /\ ClaimsDone(p)'
    BY DEF ReceiptFits, TreesFit, ClaimsDone, Promised, Reported
<1>3. MovesFit(p)'
    BY DEF MovesFit, Writing, Looping
<1> QED BY <1>1, <1>2, <1>3 DEF WorkFits

\* Where an operation has come to its end, it stays.
LEMMA SettledWorks ==
    ASSUME WorkInv, NEW p \in Procs, pc[p] = "release", pc'[p] = "release",
           UNCHANGED <<job, why, aside, claim, tree, receipt>>,
           \A s \in Skills : lock'[s] = p => lock[s] = p
    PROVE  WorkFits(p)'
<1>1. WorkFits(p) /\ Old(p)' = Old(p) /\ Added(p)' = Added(p)
    BY OldStays, AddedStays DEF WorkInv, WorksFit
<1>2. \A flow : Reported(p, flow)' => Reported(p, flow)
    BY DEF Reported, Anchored, Held
<1>3. PlanFits(p)'
    BY <1>1 DEF WorkFits, PlanFits, Installed, Backwards
<1>4. ReceiptFits(p)'
    BY <1>1, <1>2 DEF WorkFits, ReceiptFits, Consistent, TreesMatch, ClaimsMatch, ClaimMatches
<1>5. TreesFit(p)'
    BY <1>1, <1>2 DEF WorkFits, TreesFit, TreesAre, TreesGone, Installed
<1>6. ClaimsDone(p)'
    BY <1>1, <1>2 DEF WorkFits, ClaimsDone, ClaimsMatch, ClaimMatches, ClaimsAbsent
<1>7. MovesFit(p)'
    BY DEF MovesFit, Writing, Looping
<1> QED BY <1>3, <1>4, <1>5, <1>6, <1>7 DEF WorkFits

LEMMA StartWorks ==
    ASSUME WorkInv, NEW p \in Procs, Start(p) \/ Read(p) PROVE WorkFits(p)'
<1>1. WorkFits(p) /\ ClaimTyped /\ Typed /\ aside' = aside
    BY DEF WorkInv, WorksFit, ProtoInv, WriterInv, Start, Read
<1>2. Moves(p)' = {}
    BY <1>1 DEF WorkFits, MovesFit, Moves, Start, Read
<1>3. pc'[p] \in {"read", "lock"}
    BY <1>1 DEF ClaimTyped, Start, Read
<1>4. ~Promised(p)'
    BY <1>3 DEF Promised
<1>5. \/ job'[p].flow \notin {"install", "unlink", "remove"}
      \/ /\ job'[p].flow = job[p].flow /\ job'[p].want = job[p].want
         /\ job'[p].rec = job[p].rec /\ job'[p].next = job[p].next
         /\ job'[p].kind = job[p].kind
    <2>1. CASE Start(p)
        BY <1>1, <2>1 DEF Start, Typed, NoJob
    <2>2. CASE Read(p)
        <3>1. job'[p] = [job[p] EXCEPT !.seen = receipt] /\ job[p] \in Jobs
            BY <1>1, <2>2 DEF Read, Typed
        <3> QED BY <3>1 DEF Jobs
    <2> QED BY <2>1, <2>2
<1> QED BY <1>1, <1>2, <1>3, <1>4, <1>5, QuietWorks DEF WorkFits

LEMMA LeavesWorks ==
    ASSUME WorkInv, NEW p \in Procs, Return(p) \/ Crash(p) PROVE WorkFits(p)'
<1>1. WorkFits(p) /\ Idle(p)
    BY DEF WorkInv, WorksFit, Return, Crash
<1>2. pc'[p] = "idle" /\ job'[p] = NoJob /\ Moves(p)' = {}
    BY <1>1, IdleSets DEF Moves, NoMoves
<1>3. ~Promised(p)'
    BY <1>2 DEF Promised
<1> QED BY <1>1, <1>2, <1>3, QuietWorks DEF WorkFits, NoJob

LEMMA ReleaseWorks ==
    ASSUME WorkInv, NEW p \in Procs, Release(p) \/ ReleaseFails(p) PROVE WorkFits(p)'
<1>1. /\ pc[p] = "release" /\ pc' = pc /\ UNCHANGED <<job, why, aside, claim, tree, receipt>>
    BY DEF Release, ReleaseFails, Treated
<1>2. \A s \in Skills : lock'[s] = p => lock[s] = p
    BY InstallAssumption DEF Release, ReleaseFails, WorkInv, ProtoInv, WriterInv, Typed
<1> QED BY <1>1, <1>2, SettledWorks

\* Whatever fails on the way forward, the way back can be walked.
LEMMA FailWorks ==
    ASSUME WorkInv, NEW p \in Procs, Fail(p), UNCHANGED <<job, tree, aside>>,
           \/ pc[p] \in Forward \cup {"lock", "swap", "stage", "record", "forget"}
           \/ pc[p] = "clean" /\ job[p].flow = "install"
    PROVE  WorkFits(p)'
<1>1. WorkFits(p) /\ OpFits(p) /\ WorkTyped
    BY DEF WorkInv, WorksFit, ProtoInv, OpsFit
<1>2. /\ pc'[p] = WayBack(pc[p]) /\ left'[p] = Work(p, WayBack(pc[p])) /\ why'[p] = pc[p]
    BY FailSets
<1>3. pc'[p] \in Backwards \cup {"release"} /\ why'[p] # "none"
    BY <1>2 DEF WayBack, Backwards, Forward
<1>4. Moves(p)' = Moves(p) /\ job'[p] = job[p]
    BY DEF Moves
<1>5. pc'[p] # "release" => pc[p] \in Writing
    BY <1>2 DEF WayBack, Forward, Writing, Looping
<1>6. pc'[p] # "release" /\ job[p].flow = "install" =>
        Moves(p)' \subseteq Names[job[p].next.version]
    BY <1>1, <1>4, <1>5 DEF WorkFits, MovesFit
<1>7. pc'[p] = "undo" => left'[p] \subseteq Moves(p)'
    BY <1>2, <1>4 DEF Work
<1>8. pc[p] \in {"record", "activate", "admit"} /\ job[p].flow = "install" =>
        \A s \in Moves(p) : tree[s] \in Versions
    <2> SUFFICES ASSUME pc[p] \in {"record", "activate", "admit"}, job[p].flow = "install"
                 PROVE  \A s \in Moves(p) : tree[s] \in Versions
        OBVIOUS
    <2>1. Moves(p) \subseteq Names[job[p].next.version]
        BY <1>1 DEF WorkFits, MovesFit, Writing, Looping
    <2>2. TreesAre(Names[job[p].next.version], job[p].next.version)
        BY <1>1 DEF WorkFits, TreesFit
    <2>3. job[p].next.version \in Versions
        BY <1>1, InstallAssumption DEF WorkFits, PlanFits
    <2> QED BY <2>1, <2>2, <2>3 DEF TreesAre
<1>9. pc'[p] = "unadmit" => \A s \in Moves(p)' : tree'[s] \in Versions
    <2>1. pc'[p] = "unadmit" => pc[p] = "admit"
        BY <1>2 DEF WayBack
    <2>2. pc[p] = "admit" => job[p].flow = "install"
        BY <1>1 DEF OpFits, FlowFits
    <2> QED BY <1>4, <1>8, <2>1, <2>2
<1>10. ~UserInWindow /\ pc'[p] = "undo" /\ job[p].flow = "install" =>
         \A s \in left'[p] : tree'[s] \in Versions \cup {Nothing}
    <2> SUFFICES ASSUME ~UserInWindow, pc'[p] = "undo", job[p].flow = "install", NEW s \in Moves(p)
                 PROVE  tree[s] \in Versions \cup {Nothing}
        BY <1>4, <1>7
    <2>1. pc[p] \in {"swap", "record", "activate"}
        BY <1>1, <1>2 DEF WayBack, OpFits, FlowFits, Forward
    <2>2. CASE pc[p] = "swap"
        <3>1. /\ s \in Names[job[p].next.version] /\ TreesAre(left[p] \cap Moves(p), Nothing)
              /\ TreesAre(Names[job[p].next.version] \ left[p], job[p].next.version)
            BY <1>1, <2>2 DEF WorkFits, MovesFit, TreesFit, Writing, Looping
        <3>2. job[p].next.version \in Versions
            BY <2>2, SwapKnown
        <3> QED BY <3>1, <3>2 DEF TreesAre
    <2> QED BY <1>8, <2>1, <2>2
<1> QED BY <1>3, <1>4, <1>6, <1>7, <1>9, <1>10, BackWorks

LEMMA MkdirWorks ==
    ASSUME WorkInv, NEW p \in Procs, Mkdir(p) PROVE WorkFits(p)'
<1>1. pc[p] = "lock" /\ UNCHANGED <<job, tree, aside>> /\ WorkFits(p)
    BY DEF Mkdir, WorkInv, WorksFit
<1>2. CASE Fail(p)
    BY <1>1, <1>2, FailWorks
<1>3. CASE pc' = pc
    <2>1. ~Promised(p)'
        BY <1>1, <1>3 DEF Promised
    <2>2. Moves(p)' = {}
        BY <1>1 DEF Moves, WorkFits, MovesFit
    <2> QED BY <1>1, <1>3, <2>1, <2>2, QuietWorks DEF WorkFits
<1> QED BY <1>2, <1>3 DEF Mkdir, Treated

-----------------------------------------------------------------------------
(* The decision *)

LEMMA RefuseWorks ==
    ASSUME WorkInv, NEW p \in Procs, Refuse(p) PROVE WorkFits(p)'
<1>1. WorkFits(p) /\ ClaimTyped /\ WorkTyped
    BY DEF WorkInv, WorksFit, ProtoInv
<1>2. pc'[p] = "release" /\ why'[p] = "check" /\ job' = job
    BY <1>1, GotoSets DEF Refuse, WorkTyped
<1> QED BY <1>1, <1>2, QuietWorks DEF WorkFits, Promised

LEMMA ReportWorks ==
    ASSUME WorkInv, NEW p \in Procs, NEW status \in {"current", "absent"}, Report(p, status),
           UNCHANGED <<claim, tree, receipt>>,
           status = "current" => receipt # NoReceipt /\ UpToDate(p) /\ UpToDateOK(p)
    PROVE  WorkFits(p)'
<1>1. ClaimTyped /\ Typed
    BY DEF WorkInv, ProtoInv, WriterInv
<1>2. job'[p] = [job[p] EXCEPT !.flow = status] /\ job[p] \in Jobs
    BY <1>1 DEF Report, Typed
<1>3. job'[p].flow = status /\ job'[p].want = job[p].want
    BY <1>2 DEF Jobs
<1>4. pc'[p] = "release"
    BY <1>1, GotoSets DEF Report
<1>5. PlanFits(p)'
    BY <1>3, <1>4 DEF PlanFits, Backwards
<1>6. ReceiptFits(p)'
    BY <1>3, <1>4 DEF ReceiptFits, Reported, UpToDate, UpToDateOK, InstalledOK, Consistent,
       TreesMatch, ClaimsMatch, ClaimMatches
<1>7. TreesFit(p)' /\ ClaimsDone(p)'
    BY <1>3, <1>4 DEF TreesFit, ClaimsDone, Reported
<1>8. MovesFit(p)'
    BY <1>4 DEF MovesFit, Writing, Looping
<1> QED BY <1>5, <1>6, <1>7, <1>8 DEF WorkFits

\* An operation begins where the receipt says the truth about the trees.
LEMMA BeginWorks ==
    ASSUME WorkInv, NEW p \in Procs, pc[p] = "check", NEW flow \in {"install", "unlink", "remove"},
           NEW next \in Receipts, NEW phase \in {"reserve", "mark"}, NEW S,
           Begin(p, flow, next, phase, S), UNCHANGED <<claim, tree, receipt, aside>>,
           receipt # NoReceipt => TreesMatch(receipt),
           flow = "install" =>
               /\ next \in Loads /\ next.version = Binary[p] /\ job[p].want \subseteq next.runtimes
               /\ Installed(receipt) \subseteq Names[Binary[p]],
           flow = "unlink" =>
               /\ next \in Loads /\ receipt # NoReceipt /\ next.version = receipt.version
               /\ next.runtimes \cap job[p].want = {},
           flow = "remove" => next = NoReceipt /\ receipt # NoReceipt,
           flow # "install" => job[p].kind # "install"
    PROVE  WorkFits(p)'
<1> DEFINE begun == [job[p] EXCEPT !.flow = flow, !.rec = receipt, !.next = next]
<1>1. ClaimTyped /\ Typed /\ WorkFits(p)
    BY DEF WorkInv, ProtoInv, WriterInv, WorksFit
<1>2. job' = [job EXCEPT ![p] = begun]
    BY <1>1 DEF Begin, Typed
<1>3. /\ begun.kind = job[p].kind /\ begun.want = job[p].want /\ begun.flow = flow
      /\ begun.rec = receipt /\ begun.next = next
    <2>1. job[p] \in Jobs
        BY <1>1 DEF Typed
    <2> QED BY <2>1 DEF Jobs
<1> HIDE DEF begun
<1>4. pc'[p] = phase /\ job'[p] = begun
    BY <1>1, <1>2 DEF Begin, ClaimTyped, Typed
<1>5. Moves(p)' = {}
    BY <1>1 DEF WorkFits, MovesFit, Moves
<1>6. PlanFits(p)'
    BY <1>3, <1>4 DEF PlanFits, Installed, Backwards
<1>7. ReceiptFits(p)'
    BY <1>3, <1>4 DEF ReceiptFits, Reported
<1>8. TreesFit(p)'
    BY <1>3, <1>4 DEF TreesFit, Reported, TreesMatch, TreesAre, Installed
<1>9. ClaimsDone(p)'
    BY <1>4 DEF ClaimsDone, Reported
<1>10. MovesFit(p)'
    BY <1>4, <1>5 DEF MovesFit
<1> QED BY <1>6, <1>7, <1>8, <1>9, <1>10 DEF WorkFits

LEMMA CheckWorks ==
    ASSUME WorkInv, NEW p \in Procs, Check(p) PROVE WorkFits(p)'
<1>1. /\ pc[p] = "check" /\ UNCHANGED <<claim, tree, receipt, aside>> /\ receipt \in Receipts
      /\ job[p] \in Jobs /\ Binary[p] \in Versions
    BY InstallAssumption DEF Check, disk, WorkInv, ProtoInv, WriterInv, Typed
<1>2. job[p].want \subseteq Runtimes /\ (receipt # NoReceipt => receipt \in Loads)
    BY <1>1 DEF Jobs, Receipts, Loads
<1>3. CASE job[p].kind = "install"
    <2>1. CheckInstall(p)
        BY <1>3 DEF Check
    <2>2. CASE Refuse(p)
        BY <2>2, RefuseWorks
    <2>3. CASE receipt # NoReceipt /\ UpToDate(p) /\ UpToDateOK(p) /\ Report(p, "current")
        BY <1>1, <2>3, ReportWorks
    <2>4. CASE /\ receipt = NoReceipt
               /\ Begin(p, "install", Load(Binary[p], job[p].want), "reserve", Names[Binary[p]])
        <3> DEFINE next == Load(Binary[p], job[p].want)
        <3>1. next \in Loads /\ next \in Receipts /\ next.version = Binary[p] /\ next.runtimes = job[p].want
            BY <1>1, <1>2 DEF Load, Loads, Receipts
        <3>2. Installed(receipt) \subseteq Names[Binary[p]]
            BY <2>4 DEF Installed
        <3> HIDE DEF next
        <3>3. Begin(p, "install", next, "reserve", Names[Binary[p]])
            BY <2>4 DEF next
        <3> QED BY <1>1, <2>4, <3>1, <3>2, <3>3, BeginWorks
    <2>5. CASE /\ receipt # NoReceipt /\ UpdateOK(p)
               /\ Begin(p, "install", Load(Binary[p], receipt.runtimes \cup job[p].want),
                        "reserve", Names[Binary[p]] \ Installed(receipt))
        <3> DEFINE next == Load(Binary[p], receipt.runtimes \cup job[p].want)
                   S == Names[Binary[p]] \ Installed(receipt)
        <3>1. /\ next \in Loads /\ next \in Receipts /\ next.version = Binary[p]
              /\ job[p].want \subseteq next.runtimes
            BY <1>1, <1>2, <2>5 DEF Load, Loads, Receipts
        <3>2. Installed(receipt) \subseteq Names[Binary[p]] /\ TreesMatch(receipt)
            BY <2>5 DEF Installed, UpdateOK, InstalledOK
        <3>3. Begin(p, "install", next, "reserve", S)
            BY <2>5
        <3> HIDE DEF next, S
        <3> QED BY <1>1, <2>5, <3>1, <3>2, <3>3, BeginWorks
    <2> QED BY <2>1, <2>2, <2>3, <2>4, <2>5 DEF CheckInstall
<1>4. CASE job[p].kind # "install"
    <2>1. CheckUninstall(p)
        BY <1>4 DEF Check
    <2>2. CASE Refuse(p)
        BY <2>2, RefuseWorks
    <2>3. CASE Report(p, "absent")
        BY <1>1, <2>3, ReportWorks
    <2>4. CASE /\ receipt # NoReceipt /\ TreesMatch(receipt)
               /\ Begin(p, "remove", NoReceipt, "mark", Installed(job[p].seen))
        <3> DEFINE S == Installed(job[p].seen)
        <3>1. NoReceipt \in Receipts
            BY DEF Receipts
        <3>2. Begin(p, "remove", NoReceipt, "mark", S)
            BY <2>4
        <3> HIDE DEF S
        <3> QED BY <1>1, <1>4, <2>4, <3>1, <3>2, BeginWorks
    <2>5. CASE /\ receipt # NoReceipt /\ TreesMatch(receipt)
               /\ Begin(p, "unlink", Load(receipt.version, receipt.runtimes \ job[p].want), "mark",
                        Installed(job[p].seen))
        <3> DEFINE next == Load(receipt.version, receipt.runtimes \ job[p].want)
                   S == Installed(job[p].seen)
        <3>1. /\ next \in Loads /\ next \in Receipts /\ next.version = receipt.version
              /\ next.runtimes \cap job[p].want = {}
            BY <1>1, <1>2, <2>5 DEF Load, Loads, Receipts
        <3>2. Begin(p, "unlink", next, "mark", S)
            BY <2>5
        <3> HIDE DEF next, S
        <3> QED BY <1>1, <1>4, <2>5, <3>1, <3>2, BeginWorks
    <2> QED BY <2>1, <2>2, <2>3, <2>4, <2>5 DEF CheckUninstall
<1> QED BY <1>3, <1>4

-----------------------------------------------------------------------------
(* The steps of the work *)

\* What remains of WorkFits where no write has been made.
LEMMA OnwardWorks ==
    ASSUME WorkInv, NEW p \in Procs, pc[p] \in Writing, pc'[p] \notin Backwards,
           UNCHANGED <<job, why, aside>>,
           pc'[p] = "clean" => job[p].flow # "unlink",
           ReceiptFits(p)', TreesFit(p)', ClaimsDone(p)',
           pc'[p] \in {"reserve", "mark", "idle", "read", "lock", "check"} =>
                pc[p] \in {"reserve", "mark"},
           ~UserInWindow /\ pc'[p] = "swap" => TreesAre(left[p] \cap Moves(p), Nothing)'
    PROVE  WorkFits(p)'
<1>1. WorkFits(p) /\ Moves(p)' = Moves(p) /\ job'[p] = job[p]
    BY DEF WorkInv, WorksFit, Moves
<1>2. PlanFits(p)'
    BY <1>1 DEF WorkFits, PlanFits, Installed
<1>3. MovesFit(p)'
    BY <1>1 DEF WorkFits, MovesFit, Backwards
<1> QED BY <1>2, <1>3 DEF WorkFits

LEMMA PhaseEndsWorks ==
    ASSUME WorkInv, NEW p \in Procs, PhaseEnds(p) PROVE WorkFits(p)'
<1> DEFINE phase == Following(p, pc[p])
<1>1. /\ pc[p] \in Looping \ {"release"} /\ left[p] = {} /\ Goto(p, phase)
      /\ UNCHANGED <<claim, tree, receipt, job, aside, why>>
      /\ ClaimTyped /\ Typed /\ WorkFits(p) /\ OpFits(p)
    BY DEF PhaseEnds, disk, WorkInv, ProtoInv, WriterInv, OpsFit, WorksFit
<1>2. pc'[p] = phase /\ left'[p] = Work(p, phase)
    BY <1>1, GotoSets
<1>3. /\ Old(p)' = Old(p) /\ Added(p)' = Added(p) /\ Moves(p)' = Moves(p) /\ job'[p] = job[p]
      /\ Installed(job[p].rec)' = Installed(job[p].rec)
    BY <1>1, OldStays, AddedStays DEF Moves, Installed
<1>4. CASE pc[p] = "lock"
    <2>1. phase = "check"
        BY <1>4 DEF Following
    <2>2. Moves(p)' = {} /\ PlanFits(p)
        BY <1>1, <1>3, <1>4 DEF WorkFits, MovesFit
    <2> QED BY <1>2, <1>3, <2>1, <2>2, QuietWorks DEF Promised
<1>5. CASE pc[p] = "reserve"
    <2>1. phase = "mark"
        BY <1>5 DEF Following
    <2>2. ReceiptFits(p)' /\ TreesFit(p)' /\ ClaimsDone(p)'
        BY <1>1, <1>2, <1>3, <1>5, <2>1 DEF WorkFits, ReceiptFits, TreesFit, ClaimsDone, TreesAre,
           Reported
    <2> QED BY <1>1, <1>2, <1>5, <2>1, <2>2, OnwardWorks DEF Backwards, Writing, Looping
<1>6. CASE pc[p] = "mark" /\ job[p].flow = "install"
    <2>1. phase = "swap"
        BY <1>6 DEF Following
    <2>2. /\ receipt = job[p].rec /\ Moves(p) = {} /\ job[p].next \in Loads
          /\ TreesAre(Installed(job[p].rec), job[p].rec.version)
        BY <1>1, <1>6 DEF WorkFits, ReceiptFits, TreesFit, MovesFit, PlanFits
    <2>3. left'[p] = IF SameFiles(p) THEN {} ELSE Names[job[p].next.version]
        BY <1>2, <2>1 DEF Work
    <2>4. SameFiles(p) => TreesAre(Names[job[p].next.version], job[p].next.version)
        BY <2>2 DEF SameFiles, Installed
    <2>5. ReceiptFits(p)' /\ ClaimsDone(p)'
        BY <1>1, <1>2, <1>3, <2>1, <2>2 DEF ReceiptFits, ClaimsDone, Reported
    <2>6. TreesFit(p)'
        BY <1>1, <1>2, <1>3, <2>1, <2>2, <2>3, <2>4 DEF TreesFit, TreesAre, Reported
    <2>7. TreesAre(left[p] \cap Moves(p), Nothing)'
        BY <1>3, <2>2 DEF TreesAre
    <2> QED BY <1>1, <1>2, <1>6, <2>1, <2>5, <2>6, <2>7, OnwardWorks DEF Backwards, Writing, Looping
<1>7. CASE pc[p] = "mark" /\ job[p].flow = "unlink"
    <2>1. phase = "record"
        BY <1>7 DEF Following
    <2>2. /\ receipt = job[p].rec /\ TreesAre(Installed(job[p].rec), job[p].rec.version)
          /\ job[p].rec # NoReceipt /\ job[p].next.version = job[p].rec.version
        BY <1>1, <1>7 DEF WorkFits, ReceiptFits, TreesFit, PlanFits
    <2>3. ReceiptFits(p)' /\ ClaimsDone(p)'
        BY <1>1, <1>2, <1>3, <2>1, <2>2 DEF ReceiptFits, ClaimsDone, Reported
    <2>4. TreesFit(p)'
        BY <1>1, <1>2, <1>3, <2>1, <2>2 DEF TreesFit, TreesAre, Installed, Reported
    <2> QED BY <1>1, <1>2, <1>7, <2>1, <2>3, <2>4, OnwardWorks DEF Backwards, Writing, Looping
<1>8. CASE pc[p] = "mark" /\ job[p].flow \notin {"install", "unlink"}
    <2>1. phase = "stage"
        BY <1>8 DEF Following
    <2>2. /\ receipt = job[p].rec /\ TreesAre(Installed(job[p].rec), job[p].rec.version)
        BY <1>1, <1>8 DEF WorkFits, ReceiptFits, TreesFit
    <2>3. left'[p] = Installed(job[p].rec)
        BY <1>2, <2>1 DEF Work
    <2>4. ReceiptFits(p)' /\ ClaimsDone(p)'
        BY <1>1, <1>2, <1>3, <2>1, <2>2 DEF ReceiptFits, ClaimsDone, Reported
    <2>5. TreesFit(p)'
        BY <1>1, <1>2, <1>3, <2>1, <2>2, <2>3 DEF TreesFit, TreesAre, TreesGone, Reported
    <2> QED BY <1>1, <1>2, <1>8, <2>1, <2>4, <2>5, OnwardWorks DEF Backwards, Writing, Looping
<1>9. CASE pc[p] = "swap"
    <2>1. phase = "record"
        BY <1>9 DEF Following
    <2>2. receipt = job[p].rec /\ TreesAre(Names[job[p].next.version], job[p].next.version)
        BY <1>1, <1>9 DEF WorkFits, ReceiptFits, TreesFit, TreesAre
    <2>3. ReceiptFits(p)' /\ ClaimsDone(p)' /\ TreesFit(p)'
        BY <1>1, <1>2, <1>3, <2>1, <2>2 DEF ReceiptFits, ClaimsDone, TreesFit, TreesAre, Reported
    <2> QED BY <1>1, <1>2, <1>9, <2>1, <2>3, OnwardWorks DEF Backwards, Writing, Looping
<1>10. CASE pc[p] = "activate"
    <2>1. phase = IF job[p].flow = "install" THEN "admit" ELSE "release"
        BY <1>10 DEF Following
    <2>2. /\ receipt = job[p].next /\ TreesAre(Names[job[p].next.version], job[p].next.version)
          /\ ClaimsMatch(Old(p), job[p].next) /\ job[p].flow \in {"install", "unlink"}
        BY <1>1, <1>10 DEF WorkFits, ReceiptFits, TreesFit, ClaimsDone, OpFits, FlowFits
    <2>3. phase = "admit" => left'[p] = Added(p)
        BY <1>2 DEF Work
    <2>4. phase = "release" => Added(p) = {}
        BY <2>1 DEF Added
    <2>5. ReceiptFits(p)'
        BY <1>1, <1>2, <1>3, <2>1, <2>2 DEF ReceiptFits, Reported
    <2>6. TreesFit(p)'
        BY <1>1, <1>2, <1>3, <2>1, <2>2 DEF TreesFit, TreesAre, Reported
    <2>7. ClaimsDone(p)'
        BY <1>1, <1>2, <1>3, <2>1, <2>2, <2>3, <2>4 DEF ClaimsDone, ClaimsMatch, ClaimMatches, Reported
    <2> QED BY <1>1, <1>2, <1>10, <2>1, <2>5, <2>6, <2>7, OnwardWorks DEF Backwards, Writing, Looping
<1>11. CASE pc[p] = "admit"
    <2>1. phase = "clean"
        BY <1>11 DEF Following
    <2>2. /\ receipt = job[p].next /\ TreesAre(Names[job[p].next.version], job[p].next.version)
          /\ ClaimsMatch(Old(p) \cup Added(p), job[p].next) /\ job[p].flow = "install"
        BY <1>1, <1>11 DEF WorkFits, ReceiptFits, TreesFit, ClaimsDone, OpFits, FlowFits
    <2>3. ReceiptFits(p)' /\ TreesFit(p)'
        BY <1>1, <1>2, <1>3, <2>1, <2>2 DEF ReceiptFits, TreesFit, TreesAre, Reported
    <2>4. ClaimsDone(p)'
        BY <1>1, <1>2, <1>3, <2>1, <2>2 DEF ClaimsDone, ClaimsMatch, ClaimMatches, Reported
    <2> QED BY <1>1, <1>2, <1>11, <2>1, <2>2, <2>3, <2>4, OnwardWorks DEF Backwards, Writing, Looping
<1>12. CASE pc[p] = "stage"
    <2>1. phase = "drop"
        BY <1>12 DEF Following
    <2>2. receipt = job[p].rec /\ TreesGone(Installed(job[p].rec))
        BY <1>1, <1>12 DEF WorkFits, ReceiptFits, TreesFit, TreesGone
    <2>3. left'[p] = Old(p)
        BY <1>2, <2>1 DEF Work
    <2>4. ReceiptFits(p)' /\ TreesFit(p)' /\ ClaimsDone(p)'
        BY <1>1, <1>2, <1>3, <2>1, <2>2, <2>3 DEF ReceiptFits, TreesFit, TreesGone, ClaimsDone,
           ClaimsAbsent, Reported
    <2> QED BY <1>1, <1>2, <1>12, <2>1, <2>4, OnwardWorks DEF Backwards, Writing, Looping
<1>13. CASE pc[p] = "drop"
    <2>1. phase = "forget"
        BY <1>13 DEF Following
    <2>2. receipt = job[p].rec /\ TreesGone(Installed(job[p].rec)) /\ ClaimsAbsent(Old(p))
        BY <1>1, <1>13 DEF WorkFits, ReceiptFits, TreesFit, ClaimsDone
    <2>3. ReceiptFits(p)' /\ TreesFit(p)' /\ ClaimsDone(p)'
        BY <1>1, <1>2, <1>3, <2>1, <2>2 DEF ReceiptFits, TreesFit, TreesGone, ClaimsDone,
           ClaimsAbsent, Reported
    <2> QED BY <1>1, <1>2, <1>13, <2>1, <2>3, OnwardWorks DEF Backwards, Writing, Looping
<1>14. CASE pc[p] \in {"unadmit", "undo", "revive", "withdraw"}
    <2>1. phase \in {"undo", "restore", "revive", "withdraw", "release"}
        BY <1>14 DEF Following
    <2>2. why[p] # "none"
        BY <1>1, <1>14 DEF WorkFits, PlanFits, Backwards
    <2>3. job[p].flow = "install" => Moves(p) \subseteq Names[job[p].next.version]
        BY <1>1, <1>14 DEF WorkFits, MovesFit, Writing, Looping
    <2>4. phase = "undo" => left'[p] = Moves(p) /\ pc[p] = "unadmit"
        BY <1>2, <1>14 DEF Work, Following
    <2>5. pc[p] = "unadmit" => \A s \in Moves(p) : tree[s] \in Versions
        BY <1>1 DEF WorkFits, MovesFit
    <2> QED BY <1>1, <1>2, <1>3, <2>1, <2>2, <2>3, <2>4, <2>5, BackWorks DEF Backwards
<1> QED BY <1>1, <1>4, <1>5, <1>6, <1>7, <1>8, <1>9, <1>10, <1>11, <1>12, <1>13, <1>14 DEF Looping

\* One more claim has reached its end.
LEMMA ClaimEnds ==
    ASSUME WorkInv, NEW p \in Procs, pc[p] \in {"activate", "admit", "drop"}, NEW s \in left[p]
    PROVE  /\ pc[p] = "drop" => NewClaim(p, s) = NoClaim
           /\ pc[p] # "drop" => /\ NewClaim(p, s) \in Claims /\ NewClaim(p, s).producer = "dva"
                                /\ NewClaim(p, s).state = "active"
                                /\ NewClaim(p, s).load = job[p].next
<1>1. OpFits(p) /\ pc[p] \in Writing
    BY DEF WorkInv, ProtoInv, OpsFit, Writing, Looping
<1>2. CASE pc[p] = "drop"
    BY <1>2 DEF NewClaim
<1>3. CASE pc[p] = "activate"
    <2>1. s \in Old(p) /\ claim[s] = Marked(p, base[p][s]) /\ job[p].flow # "remove"
        BY <1>1, <1>3 DEF OpFits, OldFits, ListFits, IsMarked, FlowFits
    <2>2. /\ base[p][s] \in Claims /\ base[p][s].state = "active" /\ job[p].next \in Loads
          /\ base[p][s].producer = "dva"
        BY <1>1, <2>1, BaseKnown DEF WorkInv, OpFits, BaseFits
    <2>3. claim[s] = Moved(base[p][s], "updating", NewOp(base[p][s]), job[p].next)
        BY <2>1 DEF Marked
    <2>4. /\ "updating" \in ClaimStates /\ "active" \in ClaimStates /\ NewOp(base[p][s]) \in {0, 1}
        BY <2>2, ClaimKnown DEF ClaimStates
    <2>5. claim[s] \in Claims /\ claim[s].producer = "dva" /\ claim[s].load = job[p].next
        BY <2>2, <2>3, <2>4, MovedKnown
    <2>6. NewClaim(p, s) = Moved(claim[s], "active", claim[s].op, claim[s].load)
        BY <1>3 DEF NewClaim
    <2>7. claim[s].op \in {0, 1} /\ claim[s].load \in Loads
        BY <2>5, ClaimKnown
    <2> QED BY <1>3, <2>4, <2>5, <2>6, <2>7, MovedKnown
<1>4. CASE pc[p] = "admit"
    <2>1. s \in Added(p) /\ claim[s] = Reserved(job[p].next) /\ job[p].flow = "install"
        BY <1>1, <1>4 DEF OpFits, AddedFits, ListFits, IsReserved, FlowFits
    <2>2. job[p].next \in Loads /\ "active" \in ClaimStates
        BY <1>1, <2>1 DEF OpFits, FlowFits, ClaimStates
    <2>3. claim[s] \in Claims /\ claim[s].producer = "dva" /\ claim[s].load = job[p].next
        BY <2>1, <2>2, ReservedKnown
    <2>4. NewClaim(p, s) = Moved(claim[s], "active", claim[s].op, claim[s].load)
        BY <1>4 DEF NewClaim
    <2>5. claim[s].op \in {0, 1} /\ claim[s].load \in Loads
        BY <2>3, ClaimKnown
    <2> QED BY <1>4, <2>2, <2>3, <2>4, <2>5, MovedKnown
<1> QED BY <1>2, <1>3, <1>4

LEMMA WriteClaimWorks ==
    ASSUME WorkInv, NEW p \in Procs, WriteClaim(p) PROVE WorkFits(p)'
<1>1. /\ pc[p] \in Forward \cup Backward /\ UNCHANGED <<tree, receipt, job, aside, why>>
      /\ ClaimTyped /\ Typed /\ WorkFits(p) /\ OpFits(p)
    BY DEF WriteClaim, WorkInv, ProtoInv, WriterInv, OpsFit, WorksFit
<1>2. /\ Old(p)' = Old(p) /\ Added(p)' = Added(p) /\ Moves(p)' = Moves(p) /\ job'[p] = job[p]
      /\ Installed(job[p].rec)' = Installed(job[p].rec)
    BY <1>1, OldStays, AddedStays DEF Moves, Installed
<1>3. CASE pc[p] \in Backward
    <2>1. pc' = pc
        BY <1>3 DEF WriteClaim, Treated, Forward, Backward
    <2>2. why[p] # "none"
        BY <1>1, <1>3 DEF WorkFits, PlanFits, Backward, Backwards
    <2>3. job[p].flow = "install" => Moves(p) \subseteq Names[job[p].next.version]
        BY <1>1, <1>3 DEF WorkFits, MovesFit, Writing, Looping, Backward
    <2>4. pc[p] = "unadmit" => \A s \in Moves(p) : tree[s] \in Versions
        BY <1>1 DEF WorkFits, MovesFit
    <2> QED BY <1>1, <1>2, <1>3, <2>1, <2>2, <2>3, <2>4, BackWorks DEF Backward, Backwards
<1>4. CASE pc[p] \in Forward
    <2>1. PICK s \in left[p] : claim' = [claim EXCEPT ![s] = NewClaim(p, s)] /\ Treated(p, s)
        BY <1>4 DEF WriteClaim, Forward, Backward
    <2>2. pc' = pc /\ left'[p] = left[p] \ {s}
        BY <1>1, <2>1, TreatedSets
    <2>3. s \in Skills /\ claim'[s] = NewClaim(p, s) /\ \A t \in Skills \ {s} : claim'[t] = claim[t]
        BY <1>1, <2>1 DEF ClaimTyped
    <2>4. Old(p) \cup Added(p) \subseteq Skills
        <3>1. Added(p) \subseteq Skills
            <4>1. job[p].flow = "install" => job[p].next \in Loads
                BY <1>1 DEF WorkFits, PlanFits
            <4> QED BY <4>1, InstallAssumption DEF Added, Loads
        <3> QED BY <1>1, <3>1, OldKnown
    <2>5. ReceiptFits(p)' /\ TreesFit(p)'
        BY <1>1, <1>2, <1>4, <2>2 DEF WorkFits, ReceiptFits, TreesFit, TreesAre, TreesGone, Forward,
           Reported
    <2>6. ClaimsDone(p)'
        <3>1. CASE pc[p] \in {"reserve", "mark"}
            BY <1>1, <2>2, <3>1 DEF ClaimsDone, Reported
        <3>2. CASE pc[p] = "activate"
            <4>1. NewClaim(p, s) \in Claims /\ ClaimsMatch(Old(p) \ left[p], job[p].next)
                BY <1>1, <3>2, ClaimEnds DEF WorkFits, ClaimsDone
            <4>2. ClaimsMatch(Old(p) \ left[p], job[p].next)'
                BY <1>1, <1>2, <2>2, <2>3, <2>4, <3>2, <4>1, ClaimEnds, ClaimKnown
                    DEF ClaimsMatch, ClaimMatches
            <4> QED BY <1>2, <2>2, <3>2, <4>2 DEF ClaimsDone, Reported
        <3>3. CASE pc[p] = "admit"
            <4>1. /\ NewClaim(p, s) \in Claims
                  /\ ClaimsMatch((Old(p) \cup Added(p)) \ left[p], job[p].next)
                BY <1>1, <3>3, ClaimEnds DEF WorkFits, ClaimsDone
            <4>2. ClaimsMatch((Old(p) \cup Added(p)) \ left[p], job[p].next)'
                BY <1>1, <1>2, <2>2, <2>3, <2>4, <3>3, <4>1, ClaimEnds, ClaimKnown
                    DEF ClaimsMatch, ClaimMatches
            <4> QED BY <1>2, <2>2, <3>3, <4>2 DEF ClaimsDone, Reported
        <3>4. CASE pc[p] = "drop"
            <4>1. NewClaim(p, s) = NoClaim /\ ClaimsAbsent(Old(p) \ left[p])
                BY <1>1, <3>4, ClaimEnds DEF WorkFits, ClaimsDone
            <4>2. ClaimsAbsent(Old(p) \ left[p])'
                BY <1>2, <2>2, <2>3, <2>4, <4>1 DEF ClaimsAbsent
            <4> QED BY <1>2, <2>2, <3>4, <4>2 DEF ClaimsDone, Reported
        <3> QED BY <1>4, <3>1, <3>2, <3>3, <3>4 DEF Forward
    <2> QED BY <1>1, <1>4, <2>2, <2>5, <2>6, OnwardWorks DEF Forward, Backwards, Writing, Looping
<1> QED BY <1>1, <1>3, <1>4

LEMMA LookWorks ==
    ASSUME WorkInv, NEW p \in Procs, Look(p) PROVE WorkFits(p)'
<1>1. /\ pc[p] = "swap" /\ UNCHANGED <<receipt, claim, job>> /\ WorkFits(p) /\ OpFits(p)
      /\ job[p].next.version \in Versions /\ left[p] \subseteq Names[job[p].next.version]
      /\ job[p].flow = "install" /\ Typed /\ ClaimTyped
    BY SwapKnown DEF Look, WorkInv, WorksFit, ProtoInv, WriterInv, OpsFit
<1>2. CASE Fail(p) /\ UNCHANGED <<tree, aside>>
    BY <1>1, <1>2, FailWorks
<1>3. CASE \E s \in left[p] : /\ aside' = [aside EXCEPT ![p][s] = tree[s]]
                              /\ tree' = [tree EXCEPT ![s] = Nothing]
                              /\ UNCHANGED <<pc, left, why>>
    <2>1. PICK s \in left[p] : /\ aside' = [aside EXCEPT ![p][s] = tree[s]]
                               /\ tree' = [tree EXCEPT ![s] = Nothing]
                               /\ UNCHANGED <<pc, left, why>>
        BY <1>3
    <2>2. /\ tree'[s] = Nothing /\ Moves(p)' = Moves(p) \cup {s}
          /\ \A t \in Skills \ {s} : tree'[t] = tree[t]
        BY <2>1, LookSets
    <2>3. /\ left[p] \subseteq Skills /\ Names[job[p].next.version] \subseteq Skills
          /\ Moves(p) \subseteq Names[job[p].next.version]
        BY <1>1, InstallAssumption DEF WorkFits, MovesFit, ClaimTyped, Writing, Looping
    <2>4. Installed(job[p].rec)' = Installed(job[p].rec) /\ job'[p] = job[p]
        BY <1>1 DEF Installed
    <2>5. PlanFits(p)'
        BY <1>1, <2>1, <2>4 DEF WorkFits, PlanFits, Installed, Backwards
    <2>6. ReceiptFits(p)' /\ ClaimsDone(p)'
        BY <1>1, <2>1 DEF WorkFits, ReceiptFits, ClaimsDone, Reported
    <2>7. TreesFit(p)'
        BY <1>1, <2>1, <2>2, <2>3, <2>4 DEF WorkFits, TreesFit, TreesAre, Reported
    <2>8. MovesFit(p)'
        BY <1>1, <2>1, <2>2, <2>3, <2>4 DEF WorkFits, MovesFit, TreesAre
    <2> QED BY <2>5, <2>6, <2>7, <2>8 DEF WorkFits
<1> QED BY <1>2, <1>3 DEF Look

LEMMA PlaceWorks ==
    ASSUME WorkInv, NEW p \in Procs, Place(p) PROVE WorkFits(p)'
<1>1. /\ pc[p] = "swap" /\ UNCHANGED <<receipt, claim, job, aside>> /\ WorkFits(p) /\ OpFits(p)
      /\ job[p].next.version \in Versions /\ left[p] \subseteq Names[job[p].next.version]
      /\ job[p].flow = "install" /\ Typed /\ ClaimTyped
    BY SwapKnown DEF Place, WorkInv, WorksFit, ProtoInv, WriterInv, OpsFit
<1>2. CASE Fail(p) /\ UNCHANGED tree
    BY <1>1, <1>2, FailWorks
<1>3. CASE \E s \in left[p] : /\ tree' = [tree EXCEPT ![s] = job[p].next.version]
                              /\ Treated(p, s) /\ UNCHANGED why
    <2>1. PICK s \in left[p] : /\ tree' = [tree EXCEPT ![s] = job[p].next.version]
                               /\ Treated(p, s) /\ UNCHANGED why
        BY <1>3
    <2>2. pc' = pc /\ left'[p] = left[p] \ {s} /\ s \in Skills
        BY <1>1, <2>1, TreatedSets DEF ClaimTyped
    <2>3. tree'[s] = job[p].next.version /\ \A t \in Skills \ {s} : tree'[t] = tree[t]
        BY <1>1, <2>1, <2>2, PlaceSets
    <2>4. left[p] \subseteq Skills /\ Names[job[p].next.version] \subseteq Skills
        BY <1>1, InstallAssumption DEF ClaimTyped
    <2>5. /\ Installed(job[p].rec)' = Installed(job[p].rec) /\ job'[p] = job[p]
          /\ Moves(p)' = Moves(p)
        BY <1>1 DEF Installed, Moves
    <2>6. ReceiptFits(p)' /\ ClaimsDone(p)'
        BY <1>1, <2>2 DEF WorkFits, ReceiptFits, ClaimsDone, Reported
    <2>7. TreesFit(p)'
        BY <1>1, <2>2, <2>3, <2>4, <2>5 DEF WorkFits, TreesFit, TreesAre, Reported
    <2>8. ~UserInWindow => TreesAre(left[p] \cap Moves(p), Nothing)'
        BY <1>1, <2>2, <2>3, <2>4, <2>5 DEF WorkFits, MovesFit, TreesAre
    <2> QED BY <1>1, <2>1, <2>2, <2>6, <2>7, <2>8, OnwardWorks DEF Backwards, Writing, Looping
<1> QED BY <1>2, <1>3 DEF Place

LEMMA StageWorks ==
    ASSUME WorkInv, NEW p \in Procs, Stage(p) PROVE WorkFits(p)'
<1>1. /\ pc[p] = "stage" /\ UNCHANGED <<receipt, claim, job, why>> /\ WorkFits(p) /\ OpFits(p)
      /\ job[p].flow = "remove" /\ Typed /\ ClaimTyped
    BY DEF Stage, WorkInv, WorksFit, ProtoInv, WriterInv, OpsFit, OpFits, FlowFits
<1>2. PICK s \in left[p] : /\ aside' = [aside EXCEPT ![p][s] = tree[s]]
                           /\ tree' = [tree EXCEPT ![s] = Nothing] /\ Treated(p, s)
    BY DEF Stage
<1>3. tree'[s] = Nothing /\ \A t \in Skills \ {s} : tree'[t] = tree[t]
    BY <1>2, LookSets
<1>4. pc' = pc /\ left'[p] = left[p] \ {s} /\ left[p] \subseteq Skills
    BY <1>1, <1>2, TreatedSets DEF ClaimTyped
<1>5. /\ Installed(job[p].rec)' = Installed(job[p].rec) /\ job'[p] = job[p]
      /\ Installed(job[p].rec) \subseteq Skills
    BY <1>1, OldKnown DEF Installed
<1>6. PlanFits(p)'
    BY <1>1, <1>4, <1>5 DEF WorkFits, PlanFits, Installed, Backwards
<1>7. ReceiptFits(p)' /\ ClaimsDone(p)'
    BY <1>1, <1>4 DEF WorkFits, ReceiptFits, ClaimsDone, Reported
<1>8. Nothing \notin Versions
    BY ValuesDiffer
<1>9. TreesFit(p)'
    BY <1>1, <1>3, <1>4, <1>5, <1>8 DEF WorkFits, TreesFit, TreesAre, TreesGone, Reported
<1>10. MovesFit(p)'
    BY <1>1, <1>4, <1>5 DEF MovesFit
<1> QED BY <1>6, <1>7, <1>9, <1>10 DEF WorkFits

LEMMA UndoWorks ==
    ASSUME WorkInv, NEW p \in Procs, Undo(p) PROVE WorkFits(p)'
<1>1. /\ pc[p] = "undo" /\ UNCHANGED <<job, why, aside>> /\ WorkFits(p) /\ ClaimTyped /\ WorkTyped
    BY DEF Undo, WorkInv, WorksFit, ProtoInv
<1>2. PICK s \in left[p] : tree' = [tree EXCEPT ![s] = Undone(p, s)] /\ Treated(p, s)
    BY DEF Undo
<1>3. pc' = pc /\ left'[p] = left[p] \ {s} /\ left[p] \subseteq Skills
    BY <1>1, <1>2, TreatedSets DEF ClaimTyped
<1>4. \A t \in Skills \ {s} : tree'[t] = tree[t]
    BY <1>1, <1>2 DEF WorkTyped
<1>5. Moves(p)' = Moves(p) /\ job'[p] = job[p]
    BY <1>1 DEF Moves
<1>6. why[p] # "none" /\ left[p] \subseteq Moves(p)
    BY <1>1 DEF WorkFits, PlanFits, MovesFit, Backwards
<1>7. job[p].flow = "install" => Moves(p) \subseteq Names[job[p].next.version]
    BY <1>1 DEF WorkFits, MovesFit, Writing, Looping
<1>8. ~UserInWindow /\ job[p].flow = "install" =>
        \A t \in left'[p] : tree'[t] \in Versions \cup {Nothing}
    BY <1>1, <1>3, <1>4 DEF WorkFits, MovesFit
<1> QED BY <1>1, <1>3, <1>5, <1>6, <1>7, <1>8, BackWorks DEF Backwards

LEMMA WriteReceiptWorks ==
    ASSUME WorkInv, NEW p \in Procs, WriteReceipt(p) \/ RestoreFails(p) PROVE WorkFits(p)'
<1> DEFINE phase == Following(p, pc[p])
<1>1. /\ pc[p] \in {"record", "forget", "restore"} /\ Goto(p, phase)
      /\ UNCHANGED <<claim, tree, job, aside, why>>
      /\ WorkFits(p) /\ OpFits(p) /\ ClaimTyped
    BY DEF WriteReceipt, RestoreFails, disk, WorkInv, WorksFit, ProtoInv, OpsFit
<1>2. pc'[p] = phase /\ left'[p] = Work(p, phase)
    BY <1>1, GotoSets
<1>3. /\ Old(p)' = Old(p) /\ Added(p)' = Added(p) /\ Moves(p)' = Moves(p) /\ job'[p] = job[p]
      /\ Installed(job[p].rec)' = Installed(job[p].rec)
    BY <1>1, OldStays, AddedStays DEF Moves, Installed
<1>4. pc[p] # "restore" => receipt' = job[p].next
    BY DEF WriteReceipt, RestoreFails, NewReceipt
<1>5. CASE pc[p] = "record"
    <2>1. phase = "activate" /\ left'[p] = Old(p)
        BY <1>2, <1>5 DEF Following, Work
    <2>2. ReceiptFits(p)' /\ TreesFit(p)'
        BY <1>1, <1>2, <1>3, <1>4, <1>5, <2>1 DEF WorkFits, ReceiptFits, TreesFit, TreesAre, Reported
    <2>3. ClaimsDone(p)'
        BY <1>2, <1>3, <2>1 DEF ClaimsDone, ClaimsMatch, Reported
    <2> QED BY <1>1, <1>2, <1>5, <2>1, <2>2, <2>3, OnwardWorks DEF Backwards, Writing, Looping
<1>6. CASE pc[p] = "forget"
    <2>1. phase = "clean" /\ job[p].flow = "remove"
        BY <1>1, <1>6 DEF Following, OpFits, FlowFits
    <2>2. ReceiptFits(p)' /\ TreesFit(p)' /\ ClaimsDone(p)'
        BY <1>1, <1>2, <1>3, <1>4, <1>6, <2>1 DEF WorkFits, ReceiptFits, TreesFit, TreesGone,
           ClaimsDone, ClaimsAbsent, Reported
    <2> QED BY <1>1, <1>2, <1>6, <2>1, <2>2, OnwardWorks DEF Backwards, Writing, Looping
<1>7. CASE pc[p] = "restore"
    <2>1. phase = "revive"
        BY <1>7 DEF Following
    <2>2. /\ why[p] # "none"
          /\ job[p].flow = "install" => Moves(p) \subseteq Names[job[p].next.version]
        BY <1>1, <1>7 DEF WorkFits, PlanFits, MovesFit, Backwards, Writing, Looping
    <2> QED BY <1>1, <1>2, <1>3, <2>1, <2>2, BackWorks DEF Backwards
<1> QED BY <1>1, <1>5, <1>6, <1>7

LEMMA CleanWorks ==
    ASSUME WorkInv, NEW p \in Procs, Clean(p) \/ CleanFails(p) PROVE WorkFits(p)'
<1>1. /\ pc[p] = "clean" /\ UNCHANGED <<claim, tree, receipt, job>>
      /\ WorkFits(p) /\ OpFits(p) /\ ClaimTyped
    BY DEF Clean, CleanFails, disk, WorkInv, WorksFit, ProtoInv, OpsFit
<1>2. CASE Fail(p) /\ Upgrade(p) /\ UNCHANGED aside
    BY <1>1, <1>2, FailWorks DEF Upgrade
<1>3. CASE Goto(p, "release") /\ UNCHANGED why
    <2>1. pc'[p] = "release" /\ why'[p] = why[p]
        BY <1>1, <1>3, GotoSets
    <2>2. /\ Old(p)' = Old(p) /\ Added(p)' = Added(p) /\ job'[p] = job[p]
          /\ Installed(job[p].rec)' = Installed(job[p].rec)
        BY <1>1, OldStays, AddedStays DEF Installed
    <2>3. job[p].flow \in {"install", "remove"}
        BY <1>1 DEF OpFits, FlowFits, WorkFits, PlanFits, Writing, Looping
    <2>4. PlanFits(p)' /\ ReceiptFits(p)'
        BY <1>1, <2>1, <2>2, <2>3 DEF WorkFits, PlanFits, ReceiptFits, Installed, Backwards, Reported
    <2>5. TreesFit(p)'
        BY <1>1, <2>1, <2>2, <2>3 DEF WorkFits, TreesFit, TreesAre, TreesGone, Reported
    <2>6. ClaimsDone(p)'
        BY <1>1, <2>1, <2>2, <2>3 DEF WorkFits, ClaimsDone, ClaimsMatch, ClaimMatches, ClaimsAbsent,
           Reported
    <2>7. MovesFit(p)'
        BY <2>1 DEF MovesFit, Writing, Looping
    <2> QED BY <2>4, <2>5, <2>6, <2>7 DEF WorkFits
<1> QED BY <1>2, <1>3 DEF Clean, CleanFails

LEMMA FailsWorks ==
    ASSUME WorkInv, NEW p \in Procs, FailsEarly(p) \/ FailsLate(p) PROVE WorkFits(p)'
<1>1. Fail(p) /\ UNCHANGED <<job, tree, aside>>
    BY DEF FailsEarly, FailsLate, disk
<1>2. pc[p] \in Forward \cup {"lock", "swap", "stage", "record", "forget"}
    BY DEF FailsEarly, FailsLate, CanFail
<1> QED BY <1>1, <1>2, FailWorks

LEMMA BackFailsWorks ==
    ASSUME WorkInv, NEW p \in Procs, BackFails(p) PROVE WorkFits(p)'
<1>1. /\ pc[p] \in Backward \cup {"undo"} /\ UNCHANGED <<tree, job, aside, why, pc>>
      /\ WorkFits(p) /\ ClaimTyped
    BY DEF BackFails, disk, WorkInv, WorksFit, ProtoInv
<1>2. pc[p] \in Backwards
    BY <1>1 DEF Backward, Backwards
<1>3. left'[p] \subseteq left[p]
    BY <1>1 DEF BackFails, ClaimTyped
<1>4. Moves(p)' = Moves(p)
    BY <1>1 DEF Moves
<1>5. /\ why[p] # "none" /\ (pc[p] = "undo" => left[p] \subseteq Moves(p))
      /\ job[p].flow = "install" => Moves(p) \subseteq Names[job[p].next.version]
      /\ pc[p] = "unadmit" => \A s \in Moves(p) : tree[s] \in Versions
      /\ ~UserInWindow /\ pc[p] = "undo" /\ job[p].flow = "install" =>
            \A s \in left[p] : tree[s] \in Versions \cup {Nothing}
    BY <1>1, <1>2 DEF WorkFits, PlanFits, MovesFit, Backwards, Writing, Looping
<1> QED BY <1>1, <1>2, <1>3, <1>4, <1>5, BackWorks

\* A tree of his own that somebody adds is at a place that no operation needs.
LEMMA AddTreeWorks ==
    ASSUME WorkInv, NEW s \in Skills, AddTree(s), NEW q \in Procs PROVE WorkFits(q)'
<1>1. /\ UNCHANGED <<lock, claim, receipt, pc, left, job, base, aside, mine, why>>
      /\ tree[s] = Nothing /\ (InWindow(s) => UserInWindow)
      /\ WorkFits(q) /\ OpFits(q) /\ ClaimTyped /\ Typed
      /\ tree' = [tree EXCEPT ![s] = Foreign]
    BY DEF AddTree, procVars, WorkInv, WorksFit, ProtoInv, WriterInv, OpsFit
<1>2. tree'[s] = Foreign /\ \A t \in Skills \ {s} : tree'[t] = tree[t]
    BY <1>1, PlaceSets
<1>3. tree[s] \notin Versions /\ Foreign \notin Versions
    BY <1>1, ValuesDiffer
<1>4. /\ Old(q)' = Old(q) /\ Added(q)' = Added(q) /\ Moves(q)' = Moves(q)
      /\ Installed(job[q].rec)' = Installed(job[q].rec)
    BY <1>1, OldStays, AddedStays DEF Moves, Installed
<1>5. /\ Installed(job[q].rec) \subseteq Skills /\ left[q] \subseteq Skills
      /\ Moves(q) \subseteq Skills
    BY <1>1, OldKnown DEF ClaimTyped, Moves
<1>6. \A v \in Versions, S \in SUBSET Skills : TreesAre(S, v) => TreesAre(S, v)'
    BY <1>2, <1>3 DEF TreesAre
<1>7. \A S \in SUBSET Skills : TreesGone(S) => TreesGone(S)'
    BY <1>2, <1>3 DEF TreesGone
<1>8. /\ job[q].next \in Loads => /\ job[q].next.version \in Versions
                                  /\ Names[job[q].next.version] \subseteq Skills
      /\ job[q].rec # NoReceipt => job[q].rec.version \in Versions
    BY <1>1, InstallAssumption DEF Typed, Jobs, Receipts, Loads
<1>9. PlanFits(q)'
    BY <1>1, <1>4 DEF WorkFits, PlanFits, Installed
<1>10. ReceiptFits(q)'
    <2>1. Consistent /\ receipt # NoReceipt => Consistent'
        <3>1. receipt # NoReceipt => receipt.version \in Versions /\ Names[receipt.version] \subseteq Skills
            BY <1>1, InstallAssumption DEF Typed, Receipts
        <3> QED BY <1>1, <1>2, <1>3, <3>1 DEF Consistent, TreesMatch, ClaimsMatch, ClaimMatches
    <2> QED BY <1>1, <2>1 DEF WorkFits, ReceiptFits, Reported, Anchored, Held
<1>11. TreesFit(q)'
    <2>1. pc[q] \in {"reserve", "mark"} => TreesAre(Installed(job[q].rec), job[q].rec.version)'
        BY <1>1, <1>4, <1>5, <1>6, <1>8 DEF WorkFits, TreesFit, TreesAre, Installed
    <2>2. pc[q] = "swap" =>
            /\ left[q] \subseteq Names[job[q].next.version]
            /\ TreesAre(Names[job[q].next.version] \ left[q], job[q].next.version)'
            /\ TreesAre((left[q] \cap Installed(job[q].rec)) \ Moves(q), job[q].rec.version)'
        <3> SUFFICES ASSUME pc[q] = "swap"
                     PROVE  /\ left[q] \subseteq Names[job[q].next.version]
                            /\ TreesAre(Names[job[q].next.version] \ left[q], job[q].next.version)'
                            /\ TreesAre((left[q] \cap Installed(job[q].rec)) \ Moves(q),
                                        job[q].rec.version)'
            OBVIOUS
        <3>1. /\ left[q] \subseteq Names[job[q].next.version]
              /\ TreesAre(Names[job[q].next.version] \ left[q], job[q].next.version)
              /\ TreesAre((left[q] \cap Installed(job[q].rec)) \ Moves(q), job[q].rec.version)
              /\ job[q].next \in Loads
            BY <1>1, SwapKnown DEF WorkFits, TreesFit
        <3>2. TreesAre(Names[job[q].next.version] \ left[q], job[q].next.version)'
            BY <1>1, <1>2, <1>3, <1>8, <3>1 DEF TreesAre
        <3>3. job[q].rec = NoReceipt => Installed(job[q].rec) = {}
            BY DEF Installed
        <3>4. TreesAre((left[q] \cap Installed(job[q].rec)) \ Moves(q), job[q].rec.version)'
            BY <1>1, <1>2, <1>3, <1>4, <1>5, <1>8, <3>1, <3>3 DEF TreesAre
        <3> QED BY <3>1, <3>2, <3>4
    <2>3. TreesAre(Names[job[q].next.version], job[q].next.version) /\ job[q].next \in Loads =>
            TreesAre(Names[job[q].next.version], job[q].next.version)'
        BY <1>1, <1>6, <1>8 DEF TreesAre
    <2>4. \/ pc[q] \in {"record", "activate", "admit"}
          \/ pc[q] = "clean" /\ job[q].flow = "install"
          \/ Reported(q, {"install", "unlink"})
          => job[q].next \in Loads
        <3>1. pc[q] \in {"record", "activate", "admit"} => job[q].flow \in {"install", "unlink"}
            BY <1>1 DEF OpFits, FlowFits
        <3> QED BY <1>1, <3>1 DEF WorkFits, PlanFits, Reported
    <2>5. pc[q] = "stage" =>
            /\ left[q] \subseteq Installed(job[q].rec)
            /\ TreesAre(left[q], job[q].rec.version)'
            /\ TreesGone(Installed(job[q].rec) \ left[q])'
        <3> SUFFICES ASSUME pc[q] = "stage"
                     PROVE  /\ left[q] \subseteq Installed(job[q].rec)
                            /\ TreesAre(left[q], job[q].rec.version)'
                            /\ TreesGone(Installed(job[q].rec) \ left[q])'
            OBVIOUS
        <3>1. /\ left[q] \subseteq Installed(job[q].rec) /\ TreesAre(left[q], job[q].rec.version)
              /\ TreesGone(Installed(job[q].rec) \ left[q]) /\ job[q].rec # NoReceipt
            BY <1>1 DEF WorkFits, TreesFit, PlanFits, OpFits, FlowFits
        <3>2. TreesAre(left[q], job[q].rec.version)'
            BY <1>1, <1>2, <1>3, <1>5, <1>8, <3>1 DEF TreesAre
        <3>3. TreesGone(Installed(job[q].rec) \ left[q])'
            BY <1>1, <1>2, <1>3, <1>4, <1>5, <3>1 DEF TreesGone
        <3> QED BY <3>1, <3>2, <3>3
    <2>6. TreesGone(Installed(job[q].rec)) => TreesGone(Installed(job[q].rec))'
        BY <1>2, <1>3, <1>4, <1>5 DEF TreesGone
    <2>7. \A flow : Reported(q, flow)' <=> Reported(q, flow)
        BY <1>1 DEF Reported, Anchored, Held
    <2>8. (pc[q] \in {"reserve", "mark"} => TreesAre(Installed(job[q].rec), job[q].rec.version))'
        BY <1>1, <2>1
    <2> QED BY <1>1, <1>4, <2>2, <2>3, <2>4, <2>5, <2>6, <2>7, <2>8 DEF WorkFits, TreesFit
<1>12. ClaimsDone(q)'
    BY <1>1, <1>4 DEF WorkFits, ClaimsDone, ClaimsMatch, ClaimMatches, ClaimsAbsent, Reported,
       Anchored, Held
<1>13. MovesFit(q)'
    <2>1. ~UserInWindow /\ pc[q] \in {"swap", "undo"} /\ job[q].flow = "install" =>
            s \notin left[q] \cap Moves(q)
        BY <1>1 DEF InWindow, Moves
    <2>2. pc[q] = "swap" => job[q].flow = "install"
        BY <1>1 DEF OpFits, FlowFits
    <2>3. (~UserInWindow /\ pc[q] = "swap" => TreesAre(left[q] \cap Moves(q), Nothing))'
        BY <1>1, <1>2, <1>4, <1>5, <2>1, <2>2 DEF WorkFits, MovesFit, TreesAre
    <2>4. pc[q] = "undo" => left[q] \subseteq Moves(q)
        BY <1>1 DEF WorkFits, MovesFit
    <2>5. ~UserInWindow /\ pc[q] = "undo" /\ job[q].flow = "install" =>
            \A t \in left[q] : tree'[t] \in Versions \cup {Nothing}
        BY <1>1, <1>2, <1>5, <2>1, <2>4 DEF WorkFits, MovesFit
    <2>6. pc[q] = "unadmit" => \A t \in Moves(q) : tree'[t] \in Versions
        BY <1>1, <1>2, <1>3, <1>5 DEF WorkFits, MovesFit
    <2> QED BY <1>1, <1>4, <2>3, <2>4, <2>5, <2>6 DEF WorkFits, MovesFit
<1> QED BY <1>9, <1>10, <1>11, <1>12, <1>13 DEF WorkFits

-----------------------------------------------------------------------------
(* The invariant *)

LEMMA StepWorks ==
    ASSUME WorkInv, NEW p \in Procs, Step(p) PROVE WorkFits(p)'
BY StartWorks, LeavesWorks, ReleaseWorks, MkdirWorks, CheckWorks, PhaseEndsWorks, WriteClaimWorks,
   LookWorks, PlaceWorks, StageWorks, UndoWorks, WriteReceiptWorks, CleanWorks, FailsWorks,
   BackFailsWorks
   DEF Step, GoOn, Disturbed

LEMMA WorkInit == Init => WorkInv
<1> SUFFICES ASSUME Init PROVE WorkTyped /\ WorksFit
    BY ProtoInit DEF WorkInv
<1>1. WorkTyped
    <2>1. PICK S \in SUBSET ForeignSkills : tree = [s \in Skills |-> IF s \in S THEN Foreign ELSE Nothing]
        BY DEF Init
    <2> QED BY <2>1 DEF Init, WorkTyped, NoMoves
<1>2. WorksFit
    BY DEF Init, WorksFit, WorkFits, PlanFits, ReceiptFits, TreesFit, ClaimsDone, MovesFit, Moves,
       NoMoves, NoJob, Reported, Backwards, Writing, Looping
<1> QED BY <1>1, <1>2

LEMMA WorkStep == WorkInv /\ [Next]_vars => WorkInv'
<1> SUFFICES ASSUME WorkInv, [Next]_vars PROVE WorkTyped' /\ WorksFit'
    BY ProtoStep DEF WorkInv
<1>1. ASSUME NEW p \in Procs, Step(p) PROVE WorkTyped' /\ WorksFit'
    <2>1. WorkTyped'
        BY <1>1, WhyMoves, TreesTyped DEF WorkTyped
    <2>2. \A q \in Procs : WorkFits(q)'
        BY <1>1, StepWorks, OthersKeep
    <2> QED BY <2>1, <2>2 DEF WorksFit
<1>2. ASSUME NEW s \in Skills, AddTree(s) PROVE WorkTyped' /\ WorksFit'
    <2>1. WorkTyped'
        BY <1>2, PlaceSets DEF AddTree, procVars, WorkInv, WorkTyped
    <2>2. \A q \in Procs : WorkFits(q)'
        BY <1>2, AddTreeWorks
    <2> QED BY <2>1, <2>2 DEF WorksFit
<1>3. ASSUME UNCHANGED <<claim, tree, receipt, procVars>>,
             \A q \in Procs, t \in Skills : lock'[t] = q => lock[t] = q
      PROVE  WorkTyped' /\ WorksFit'
    <2>1. WorkTyped'
        BY <1>3 DEF procVars, WorkInv, WorkTyped
    <2>2. \A q \in Procs : WorkFits(q)'
        BY <1>3, OthersWork DEF procVars
    <2> QED BY <2>1, <2>2 DEF WorksFit
<1>4. ASSUME NEW s \in Skills, RemoveStaleLock(s)
      PROVE  \A q \in Procs, t \in Skills : lock'[t] = q => lock[t] = q
    BY <1>4, InstallAssumption DEF RemoveStaleLock, WorkInv, ProtoInv, WriterInv, Typed
<1>5. CASE \E s \in Skills : RemoveStaleLock(s)
    BY <1>3, <1>4, <1>5 DEF RemoveStaleLock
<1>6. CASE UNCHANGED vars
    BY <1>3, <1>6 DEF vars, disk
<1> QED BY <1>1, <1>2, <1>5, <1>6 DEF Next, Step

\* The invariant of receipt, trees and claims holds throughout
\* (install_flow.go:146-392, uninstall.go:138-306, replace.go:94-160).
THEOREM WorkInvHolds == Spec => []WorkInv
<1> QED BY WorkInit, WorkStep, PTL DEF Spec

\* Steps are counted.
Counted == ops \in Nat /\ faults \in Nat /\ crashes \in Nat

LEMMA CountStep ==
    ASSUME Counted, [Next]_vars PROVE Counted'
<1>1. ASSUME NEW p \in Procs, Start(p) \/ GoOn(p) PROVE Counted'
    <2>1. CASE Start(p)
        BY <2>1 DEF Counted, Start
    <2>2. CASE GoOn(p)
        <3>1. PhaseEnds(p) \/ Read(p) \/ Mkdir(p) \/ Check(p) \/ WriteClaim(p) \/ Look(p) =>
                UNCHANGED <<ops, faults, crashes>>
            BY DEF PhaseEnds, Read, Mkdir, Check, WriteClaim, Look
        <3>2. Place(p) \/ Stage(p) \/ Undo(p) \/ WriteReceipt(p) \/ Clean(p) \/ Release(p)
                \/ Return(p) => UNCHANGED <<ops, faults, crashes>>
            BY DEF Place, Stage, Undo, WriteReceipt, Clean, Release, Return
        <3> QED BY <2>2, <3>1, <3>2 DEF Counted, GoOn
    <2> QED BY <1>1, <2>1, <2>2
<1>2. ASSUME NEW p \in Procs, Disturbed(p) PROVE Counted'
    BY <1>2 DEF Counted, Disturbed, FailsEarly, FailsLate, BackFails, RestoreFails, CleanFails,
       ReleaseFails, Crash, Fault
<1>3. ASSUME NEW s \in Skills, RemoveStaleLock(s) \/ AddTree(s) PROVE Counted'
    BY <1>3 DEF Counted, RemoveStaleLock, AddTree
<1>4. CASE UNCHANGED vars
    BY <1>4 DEF Counted, vars
<1> QED BY <1>1, <1>2, <1>3, <1>4 DEF Next

\* Every variable keeps its type (claim.go:197-242, receipt.go:60-131).
THEOREM InstallTypes == Spec => []TypeOK
<1>1. Init => Counted
    BY DEF Init, Counted
<1>2. Counted /\ [Next]_vars => Counted'
    BY CountStep
<1>3. WorkInv /\ Counted => TypeOK
    BY DEF WorkInv, ProtoInv, WriterInv, Typed, ClaimTyped, WorkTyped, Counted, TypeOK
<1> QED BY <1>1, <1>2, <1>3, WorkInvHolds, PTL DEF Spec

\* What a step of one operation does to a tree that is not DVA's.
LEMMA ForeignStays ==
    ASSUME ~UserInWindow, WorkInv, [Next]_vars, NEW s \in Skills, tree[s] = Foreign
    PROVE  tree'[s] = Foreign
<1>1. Foreign \notin Versions /\ Foreign # Nothing /\ WorkTyped /\ ClaimTyped /\ Typed
    BY ValuesDiffer DEF WorkInv, ProtoInv, WriterInv
<1>2. ASSUME NEW p \in Procs, Step(p) PROVE tree'[s] = Foreign
    <2>1. WorkFits(p) /\ OpFits(p)
        BY DEF WorkInv, WorksFit, ProtoInv, OpsFit
    <2>2. /\ job[p].rec # NoReceipt => job[p].rec.version \in Versions
          /\ job[p].rec = NoReceipt => Installed(job[p].rec) = {}
        BY <1>1 DEF Typed, Jobs, Receipts, Installed
    <2>3. ASSUME NEW t \in left[p], t \in Installed(job[p].rec),
                 \/ pc[p] = "swap" /\ t \notin Moves(p)
                 \/ pc[p] = "stage"
          PROVE  tree[t] # Foreign
        <3>1. tree[t] = job[p].rec.version
            BY <2>1, <2>3 DEF WorkFits, TreesFit, TreesAre
        <3> QED BY <1>1, <2>2, <2>3, <3>1
    <2>4. CASE Look(p)
        <3>1. CASE UNCHANGED tree
            BY <3>1
        <3>2. CASE \E t \in left[p] : /\ aside[p][t] = NotMoved /\ ~Collides(p, t)
                                      /\ tree' = [tree EXCEPT ![t] = Nothing]
            <4>1. PICK t \in left[p] : /\ aside[p][t] = NotMoved /\ ~Collides(p, t)
                                       /\ tree' = [tree EXCEPT ![t] = Nothing]
                BY <3>2
            <4>2. t \notin Moves(p) /\ pc[p] = "swap"
                BY <2>4, <4>1 DEF Moves, Look
            <4>3. tree[t] # Foreign
                BY <1>1, <2>3, <4>1, <4>2 DEF Collides, Owned
            <4> QED BY <1>1, <4>1, <4>3 DEF WorkTyped
        <3> QED BY <2>4, <3>1, <3>2 DEF Look
    <2>5. CASE Place(p)
        BY <1>1, <2>5 DEF Place, WorkTyped
    <2>6. CASE Stage(p)
        <3>1. PICK t \in left[p] : tree' = [tree EXCEPT ![t] = Nothing]
            BY <2>6 DEF Stage
        <3>2. t \in Installed(job[p].rec) /\ pc[p] = "stage"
            BY <2>1, <2>6 DEF WorkFits, TreesFit, Stage
        <3>3. tree[t] # Foreign
            BY <2>3, <3>2
        <3> QED BY <1>1, <3>1, <3>3 DEF WorkTyped
    <2>7. CASE Undo(p)
        <3>1. PICK t \in left[p] : tree' = [tree EXCEPT ![t] = Undone(p, t)]
            BY <2>7 DEF Undo
        <3>2. job[p].flow = "install" => tree[t] # Foreign
            BY <1>1, <2>1, <2>7 DEF WorkFits, MovesFit, Undo
        <3>3. t = s => Undone(p, t) = Foreign
            BY <1>1, <3>2 DEF Undone
        <3> QED BY <1>1, <3>1, <3>3 DEF WorkTyped
    <2>8. UNCHANGED tree \/ Look(p) \/ Stage(p) \/ Place(p) \/ Undo(p)
        <3>1. Start(p) \/ PhaseEnds(p) \/ Read(p) \/ Mkdir(p) \/ Check(p) \/ WriteClaim(p)
                \/ WriteReceipt(p) \/ Clean(p) \/ Release(p) \/ Return(p) => UNCHANGED tree
            BY DEF Start, PhaseEnds, Read, Mkdir, Check, WriteClaim, WriteReceipt, Clean, Release,
               Return, disk
        <3>2. Disturbed(p) => UNCHANGED tree
            BY DEF Disturbed, FailsEarly, FailsLate, BackFails, RestoreFails, CleanFails,
               ReleaseFails, Crash, disk
        <3> QED BY <1>2, <3>1, <3>2 DEF Step, GoOn
    <2> QED BY <2>4, <2>5, <2>6, <2>7, <2>8
<1>3. ASSUME NEW t \in Skills, RemoveStaleLock(t) \/ AddTree(t) PROVE tree'[s] = Foreign
    BY <1>1, <1>3 DEF RemoveStaleLock, AddTree, WorkTyped
<1>4. CASE UNCHANGED vars
    BY <1>4 DEF vars, disk
<1> QED BY <1>2, <1>3, <1>4 DEF Next, Step

\* Where nobody puts a tree of his own between the look at a place and the
\* rename, no tree that is not DVA's is moved or removed (replace.go:94-160,
\* removal.go:11-62).
THEOREM ForeignKeptHolds ==
    ASSUME ~UserInWindow PROVE Spec => ForeignKept
<1>1. WorkInv /\ [Next]_vars => [\A s \in Skills : tree[s] = Foreign => tree'[s] = Foreign]_vars
    BY ForeignStays
<1> QED BY <1>1, WorkInvHolds, PTL DEF Spec, ForeignKept

\* An uninstall has read, before it had the locks, the skills it finds under them.
SameSkillsRead ==
    \A p \in Procs : Reported(p, {"unlink", "remove"}) =>
        Installed(job[p].seen) = Installed(job[p].rec)

\* A reported installation is real, whatever failed or died before it.  A
\* reported removal is when the receipt it read without locks lists the skills
\* of the receipt it works on (install_flow.go:146-296, uninstall.go:150-306).
THEOREM SuccessIsRealHolds ==
    /\ Spec => [](\A p \in Procs : InstallIsReal(p))
    /\ Spec => [](SameSkillsRead => SuccessIsReal)
<1>1. ASSUME WorkInv, NEW p \in Procs, Reported(p, {"install", "unlink"}), Old(p) = Installed(job[p].rec)
      PROVE  receipt # NoReceipt /\ receipt = job[p].next /\ Consistent
    <2>1. WorkFits(p) /\ Typed
        BY <1>1 DEF WorkInv, WorksFit, ProtoInv, WriterInv
    <2>2. job[p].flow \in {"install", "unlink"} /\ pc[p] = "release"
        BY <1>1 DEF Reported
    <2>3. receipt = job[p].next /\ job[p].next \in Loads
        BY <1>1, <2>1, <2>2 DEF WorkFits, ReceiptFits, PlanFits, Reported
    <2>4. receipt # NoReceipt
        BY <2>3, ValuesDiffer
    <2>5. TreesMatch(receipt)
        BY <1>1, <2>1, <2>3 DEF WorkFits, TreesFit, TreesAre, TreesMatch
    <2>6. ClaimsMatch(Old(p) \cup Added(p), receipt)
        BY <1>1, <2>1, <2>3 DEF WorkFits, ClaimsDone
    <2>7. Names[receipt.version] \subseteq Old(p) \cup Added(p)
        <3>1. CASE job[p].flow = "install"
            BY <1>1, <2>3, <3>1 DEF Added
        <3>2. CASE job[p].flow = "unlink"
            <4>1. job[p].rec # NoReceipt /\ receipt.version = job[p].rec.version
                BY <2>1, <2>3, <3>2 DEF WorkFits, PlanFits
            <4> QED BY <1>1, <4>1 DEF Installed
        <3> QED BY <2>2, <3>1, <3>2
    <2> QED BY <2>3, <2>4, <2>5, <2>6, <2>7 DEF Consistent, ClaimsMatch
<1>2. ASSUME WorkInv, NEW p \in Procs PROVE InstallIsReal(p)
    <2>1. WorkFits(p) /\ OpFits(p)
        BY <1>2 DEF WorkInv, WorksFit, ProtoInv, OpsFit
    <2>2. CASE Reported(p, {"install", "current"}) /\ job[p].flow = "install"
        <3>1. Reported(p, {"install", "unlink"}) /\ job[p].kind = "install"
            BY <2>1, <2>2 DEF Reported, OpFits, FlowFits
        <3>2. Old(p) = Installed(job[p].rec)
            BY <3>1 DEF Old, Claimed
        <3>3. receipt # NoReceipt /\ receipt = job[p].next /\ Consistent
            BY <1>1, <1>2, <3>1, <3>2
        <3> QED BY <2>1, <2>2, <3>3 DEF InstallIsReal, WorkFits, PlanFits
    <2>3. CASE Reported(p, {"install", "current"}) /\ job[p].flow = "current"
        BY <2>1, <2>3 DEF InstallIsReal, WorkFits, ReceiptFits, Reported
    <2> QED BY <2>2, <2>3 DEF InstallIsReal, Reported
<1>3. ASSUME WorkInv, SameSkillsRead, NEW p \in Procs PROVE UninstallIsReal(p)
    <2>1. WorkFits(p) /\ Typed
        BY <1>3 DEF WorkInv, WorksFit, ProtoInv, WriterInv
    <2>2. ASSUME Reported(p, {"unlink", "remove"}) PROVE Old(p) = Installed(job[p].rec)
        <3>1. job[p].kind # "install"
            BY <2>1, <2>2 DEF Reported, WorkFits, PlanFits
        <3> QED BY <1>3, <2>2, <3>1 DEF SameSkillsRead, Old, Claimed
    <2>3. ASSUME Reported(p, {"unlink"})
          PROVE  receipt # NoReceipt /\ receipt.runtimes \cap job[p].want = {} /\ Consistent
        <3>1. Reported(p, {"unlink", "remove"}) /\ Reported(p, {"install", "unlink"})
            BY <2>3 DEF Reported
        <3>2. receipt # NoReceipt /\ receipt = job[p].next /\ Consistent
            BY <1>1, <1>3, <2>2, <3>1
        <3> QED BY <2>1, <2>3, <3>2 DEF Reported, WorkFits, PlanFits
    <2>4. ASSUME Reported(p, {"remove"})
          PROVE  /\ receipt = NoReceipt
                 /\ \A s \in Installed(job[p].rec) : claim[s] = NoClaim /\ tree[s] \notin Versions
        <3>1. /\ Reported(p, {"unlink", "remove"}) /\ Reported(p, {"install", "unlink", "remove"})
              /\ job[p].flow = "remove"
            BY <2>4 DEF Reported
        <3>2. receipt = job[p].next /\ job[p].next = NoReceipt
            BY <2>1, <3>1 DEF WorkFits, ReceiptFits, PlanFits
        <3>3. TreesGone(Installed(job[p].rec)) /\ ClaimsAbsent(Old(p))
            BY <2>1, <2>4 DEF WorkFits, TreesFit, ClaimsDone
        <3> QED BY <2>2, <3>1, <3>2, <3>3 DEF TreesGone, ClaimsAbsent
    <2> QED BY <2>3, <2>4 DEF UninstallIsReal
<1>4. WorkInv => \A p \in Procs : InstallIsReal(p)
    BY <1>2
<1>5. WorkInv => (SameSkillsRead => SuccessIsReal)
    BY <1>2, <1>3 DEF SuccessIsReal
<1> QED BY <1>4, <1>5, WorkInvHolds, PTL

-----------------------------------------------------------------------------
(* What an operation undoes when it fails *)

\* With one failure at most and no death, a failure finds the claims and trees
\* as they were when the operation began, or where it has put them itself.
Calm == faults <= 1 /\ crashes = 0

\* What the operation is about, and what was there before.
Concerned(p) == Installed(job[p].rec) \cup Added(p)
WasThere(p, s) == IF s \in Installed(job[p].rec) THEN job[p].rec.version ELSE Nothing
IsOurs(s)    == claim[s] \in Claims /\ claim[s].producer = "dva"
IsTheirs(s)  == claim[s] \in Claims /\ claim[s].producer = "other"

\* Which way it is on.
Looking == {"idle", "read", "lock", "check"}
WayFits(p) ==
    /\ pc[p] \notin Backwards \cup {"release"} => why[p] = "none"
    /\ pc[p] = "unadmit" => why[p] = "admit"
    /\ pc[p] \in Looking => job[p].flow = "none"
    /\ pc[p] \in Backwards => faults # 0
    /\ pc[p] \in {"idle", "read"} => Held(p) = {}
    /\ pc[p] = "release" => Held(p) \subseteq left[p]

\* The locks are those of the list.
Listed(p) == IF job[p].kind = "install" THEN Names[Binary[p]] \cup Installed(job[p].seen)
             ELSE IF job[p].seen = NoReceipt THEN Names[Binary[p]]
             ELSE Installed(job[p].seen)
HoldsListed(p) == pc[p] \in {"lock", "check"} => Held(p) \cup left[p] \subseteq Listed(p)

\* What a receipt has listed is not claimed by another producer.
SeenOurs(p) == faults = 0 => \A s \in Installed(job[p].seen) : ~IsTheirs(s)
ReceiptOurs == faults = 0 => \A s \in Installed(receipt) : ~IsTheirs(s)

\* What was moved away is what was there before, and the rest is there still.
TreesBack(p) == \A s \in Concerned(p) : tree[s] = WasThere(p, s)
TreesKept(p) ==
    pc[p] \in Writing \ {"clean"} =>
        /\ Moves(p) \subseteq Concerned(p)
        /\ job[p].flow = "unlink" => Moves(p) = {}
        /\ \A s \in Moves(p) : aside[p][s] = WasThere(p, s)
        /\ \A s \in Concerned(p) \ Moves(p) : tree[s] = WasThere(p, s)
        /\ pc[p] \in {"restore", "revive", "withdraw"} => TreesBack(p)
        /\ pc[p] = "undo" => \A s \in Concerned(p) \ left[p] : tree[s] = WasThere(p, s)
        /\ pc[p] = "swap" => TreesAre(left[p] \cap Moves(p), Nothing)
        /\ pc[p] \in {"stage", "drop", "forget"} => TreesAre(Moves(p), Nothing)
        /\ pc[p] = "undo" /\ job[p].flow # "install" => TreesAre(left[p], Nothing)

\* What lies outside of the operation, and the claims inside.
OutsideKept(p) == \A s \in Skills \ Concerned(p) :
    /\ tree[s] \notin Versions /\ (claim[s] = NoClaim \/ IsTheirs(s))
    /\ s \in Held(p) => claim[s] = NoClaim
OldKept(p) ==
    /\ Old(p) = Installed(job[p].rec)
    /\ \A s \in Old(p) : base[p][s].load = job[p].rec /\ (claim[s] = NoClaim \/ IsOurs(s))
AddedKept(p) == \A s \in Added(p) :
    claim[s] = NoClaim \/ (s \in mine[p] /\ IsOurs(s))
BackKept(p) ==
    /\ pc[p] = "revive" => ClaimsMatch(Old(p) \ left[p], job[p].rec)
    /\ pc[p] = "withdraw" => ClaimsMatch(Old(p), job[p].rec) /\ ClaimsAbsent(mine[p] \ left[p])
    /\ pc[p] \in {"revive", "withdraw"} \/ (pc[p] = "undo" /\ ~LateFailure(p)) =>
          receipt = job[p].rec
ClaimsKept(p) ==
    pc[p] \in Backwards \/ (pc[p] \in Writing /\ faults = 0) =>
        OldKept(p) /\ AddedKept(p) /\ OutsideKept(p) /\ BackKept(p)
MineAll(p) == faults = 0 =>
    /\ pc[p] = "reserve" => Added(p) \subseteq mine[p] \cup left[p]
    /\ pc[p] \in Writing \ (Backwards \cup {"reserve"}) => Added(p) \subseteq mine[p]

\* What the property says of one operation.
FailedUndone(p) ==
    pc[p] = "release" /\ Anchored(p) /\ job[p].flow # "none"
        /\ why[p] \notin {"none", "clean"} => AsBefore(p)

\* Between operations, receipt, trees and claims say the same.
Settled ==
    /\ receipt # NoReceipt => Consistent
    /\ \A s \in Skills \ Installed(receipt) :
          tree[s] \notin Versions /\ (claim[s] = NoClaim \/ IsTheirs(s))
SettledBetween == faults = 0 /\ (\A q \in Procs : pc[q] \notin Writing) => Settled

UndoFits(p) == /\ WayFits(p) /\ HoldsListed(p) /\ SeenOurs(p) /\ TreesKept(p)
               /\ ClaimsKept(p) /\ MineAll(p) /\ FailedUndone(p)
UndoFit == (\A p \in Procs : UndoFits(p)) /\ ReceiptOurs /\ SettledBetween
UndoInv == Calm => UndoFit

LEMMA KnownSkills ==
    ASSUME WorkInv, NEW p \in Procs
    PROVE  /\ Old(p) \subseteq Skills /\ Added(p) \subseteq Skills /\ Concerned(p) \subseteq Skills
           /\ Moves(p) \subseteq Skills /\ left[p] \subseteq Skills
           /\ Old(p) \cap Added(p) = {}
           /\ job[p].flow # "install" => Added(p) = {}
<1>1. Typed /\ ClaimTyped /\ WorkFits(p) /\ ProtoInv
    BY DEF WorkInv, ProtoInv, WriterInv, WorksFit
<1>2. Added(p) \subseteq Skills
    <2>1. job[p].flow = "install" => job[p].next \in Loads
        BY <1>1 DEF WorkFits, PlanFits
    <2> QED BY <2>1, InstallAssumption DEF Added, Loads
<1> QED BY <1>1, <1>2, OldKnown, DisjointKnown DEF Concerned, Moves, ClaimTyped, Added

LEMMA SamePlan ==
    ASSUME NEW p, job'[p] = job[p]
    PROVE  /\ Old(p)' = Old(p) /\ Added(p)' = Added(p) /\ Concerned(p)' = Concerned(p)
           /\ \A s : WasThere(p, s)' = WasThere(p, s)
BY OldStays, AddedStays DEF Concerned, WasThere, Installed

\* Only calls that fail are counted as failures.
LEMMA CalmStep ==
    ASSUME Counted, [Next]_vars, Calm'
    PROVE  Calm /\ (faults' = 0 => faults = 0) /\ (faults # 0 => faults' = faults)
           /\ crashes' = crashes
<1>1. ASSUME NEW p \in Procs, Start(p) \/ GoOn(p) PROVE UNCHANGED <<faults, crashes>>
    <2>1. Start(p) \/ PhaseEnds(p) \/ Read(p) \/ Mkdir(p) \/ Check(p) \/ WriteClaim(p) \/ Look(p) =>
            UNCHANGED <<faults, crashes>>
        BY DEF Start, PhaseEnds, Read, Mkdir, Check, WriteClaim, Look
    <2>2. Place(p) \/ Stage(p) \/ Undo(p) \/ WriteReceipt(p) \/ Clean(p) \/ Release(p)
            \/ Return(p) => UNCHANGED <<faults, crashes>>
        BY DEF Place, Stage, Undo, WriteReceipt, Clean, Release, Return
    <2> QED BY <1>1, <2>1, <2>2 DEF GoOn
<1>2. ASSUME NEW p \in Procs, Disturbed(p)
      PROVE  (faults' = faults + 1 /\ crashes' = crashes) \/ crashes' = crashes + 1
    BY <1>2 DEF Disturbed, FailsEarly, FailsLate, BackFails, RestoreFails, CleanFails,
       ReleaseFails, Crash, Fault
<1>3. ASSUME NEW s \in Skills, RemoveStaleLock(s) \/ AddTree(s) PROVE UNCHANGED <<faults, crashes>>
    BY <1>3 DEF RemoveStaleLock, AddTree
<1>4. CASE UNCHANGED vars
    BY <1>4 DEF vars, Counted, Calm
<1>5. CASE UNCHANGED <<faults, crashes>>
    BY <1>5 DEF Counted, Calm
<1>6. CASE (faults' = faults + 1 /\ crashes' = crashes) \/ crashes' = crashes + 1
    BY <1>6 DEF Counted, Calm
<1> QED BY <1>1, <1>2, <1>3, <1>4, <1>5, <1>6 DEF Next

\* In calm, a failure is the first one.
LEMMA FirstFault ==
    ASSUME Counted, Calm', Fault PROVE faults = 0 /\ faults' # 0
BY DEF Counted, Calm, Fault

\* Every claim that an operation writes is DVA's.
LEMMA NewOurs ==
    ASSUME WorkInv, NEW p \in Procs, pc[p] \in Forward \cup Backward, NEW s \in left[p],
           pc[p] \in Backward => OldKept(p) /\ AddedKept(p) /\ ~BackThere(p, s)
    PROVE  NewClaim(p, s) = NoClaim \/ (NewClaim(p, s) \in Claims /\ NewClaim(p, s).producer = "dva")
<1>1. OpFits(p) /\ WorkFits(p) /\ pc[p] \in Writing /\ ProtoInv
    BY DEF WorkInv, ProtoInv, OpsFit, WorksFit, Writing, Looping, Forward, Backward
<1>2. CASE pc[p] = "reserve"
    <2>1. job[p].next \in Loads
        BY <1>1, <1>2 DEF OpFits, FlowFits
    <2> QED BY <1>2, <2>1, ReservedKnown DEF NewClaim
<1>3. CASE pc[p] = "mark"
    <2>1. s \in Old(p) /\ claim[s] = base[p][s]
        BY <1>1, <1>3 DEF OpFits, ListFits, OldFits, Unmarked
    <2>2. base[p][s] \in Claims /\ base[p][s].producer = "dva" /\ base[p][s].state = "active"
        BY <1>1, <2>1 DEF OpFits, BaseFits
    <2>3. job[p].flow = "remove" \/ job[p].next \in Loads
        BY <1>1, <2>1, BaseKnown
    <2>4. Marked(p, claim[s]) \in Claims
        BY <2>1, <2>2, <2>3, MarkedKnown
    <2>5. Marked(p, claim[s]).producer = claim[s].producer
        BY DEF Marked, Moved
    <2> QED BY <1>3, <2>1, <2>2, <2>4, <2>5 DEF NewClaim
<1>4. CASE pc[p] \in {"activate", "admit", "drop"}
    BY <1>4, ClaimEnds
<1>5. CASE pc[p] = "revive"
    <2> DEFINE load == base[p][s].load
    <2>1. s \in Old(p) /\ (claim[s] = NoClaim \/ IsOurs(s))
        BY <1>1, <1>5 DEF OpFits, ListFits, OldKept, Backward
    <2>2. load \in Loads
        BY <1>1, <2>1, BaseKnown, ClaimKnown
    <2>3. NewClaim(p, s) = TowardActive(claim[s], load)
        BY <1>5 DEF NewClaim
    <2>4. "updating" \in ClaimStates /\ "active" \in ClaimStates
        BY DEF ClaimStates
    <2> HIDE DEF load
    <2>5. CASE claim[s] = NoClaim
        BY <2>2, <2>3, <2>5, ReservedKnown DEF TowardActive
    <2>6. CASE claim[s] # NoClaim
        <3>1. claim[s] \in Claims /\ claim[s].producer = "dva"
            BY <2>1, <2>6 DEF IsOurs
        <3>2. claim[s].op \in {0, 1} /\ NewOp(claim[s]) \in {0, 1}
            BY <3>1, ClaimKnown
        <3>3. \/ TowardActive(claim[s], load) = Moved(claim[s], "updating", NewOp(claim[s]), load)
              \/ TowardActive(claim[s], load) = Moved(claim[s], "active", claim[s].op, load)
            BY <2>6 DEF TowardActive
        <3> QED BY <2>2, <2>3, <2>4, <3>1, <3>2, <3>3, MovedKnown
    <2> QED BY <2>5, <2>6
<1>6. CASE pc[p] \in {"withdraw", "unadmit"}
    <2>1. s \in mine[p] /\ s \in Added(p)
        BY <1>1, <1>6 DEF OpFits, ListFits, MineFits
    <2>2. claim[s] # NoClaim
        BY <1>6 DEF BackThere, Backward
    <2>3. claim[s] \in Claims /\ claim[s].producer = "dva"
        BY <1>6, <2>1, <2>2 DEF AddedKept, IsOurs, Backward
    <2>4. claim[s].op \in {0, 1} /\ NewOp(claim[s]) \in {0, 1} /\ claim[s].load \in Loads
        BY <2>3, ClaimKnown
    <2>5. "releasing" \in ClaimStates /\ "active" \in ClaimStates
        BY DEF ClaimStates
    <2>6. NewClaim(p, s) = TowardAbsent(claim[s])
        BY <1>6 DEF NewClaim
    <2>7. \/ TowardAbsent(claim[s]) = Moved(claim[s], "active", claim[s].op, claim[s].load)
          \/ TowardAbsent(claim[s]) = Moved(claim[s], "releasing", NewOp(claim[s]), claim[s].load)
          \/ TowardAbsent(claim[s]) = NoClaim
        BY DEF TowardAbsent
    <2> QED BY <2>3, <2>4, <2>5, <2>6, <2>7, MovedKnown
<1> QED BY <1>2, <1>3, <1>4, <1>5, <1>6 DEF Forward, Backward

\* One write of a claim, and what it writes.
LEMMA ClaimWrites ==
    ASSUME WorkInv, NEW p \in Procs, UndoFits(p), WriteClaim(p)
    PROVE  \E s \in left[p] :
              /\ s \in Skills /\ \A t \in Skills \ {s} : claim'[t] = claim[t]
              /\ IF pc[p] \in Backward /\ BackThere(p, s)
                 THEN Treated(p, s) /\ claim'[s] = claim[s] /\ mine' = mine
                 ELSE /\ claim'[s] = NewClaim(p, s) /\ (claim'[s] = NoClaim \/ IsOurs(s)')
                      /\ IF pc[p] \in Backward THEN UNCHANGED <<pc, left, mine>>
                         ELSE /\ Treated(p, s)
                              /\ mine' = IF pc[p] = "reserve" THEN [mine EXCEPT ![p] = @ \cup {s}]
                                         ELSE mine
<1>1. ClaimTyped /\ pc[p] \in Forward \cup Backward
    BY DEF WorkInv, ProtoInv, WriteClaim
<1>2. pc[p] \in Backward => OldKept(p) /\ AddedKept(p)
    BY DEF UndoFits, ClaimsKept, Backward, Backwards
<1>3. Forward \cap Backward = {}
    BY DEF Forward, Backward
<1>4. PICK s \in left[p] :
         IF pc[p] \in Backward /\ BackThere(p, s)
         THEN Treated(p, s) /\ UNCHANGED <<claim, mine>>
         ELSE /\ claim' = [claim EXCEPT ![s] = NewClaim(p, s)]
              /\ mine' = IF pc[p] = "reserve" THEN [mine EXCEPT ![p] = @ \cup {s}] ELSE mine
              /\ IF pc[p] \in Backward THEN UNCHANGED <<pc, left>> ELSE Treated(p, s)
    BY DEF WriteClaim
<1>5. s \in Skills
    BY <1>1 DEF ClaimTyped
<1>6. CASE pc[p] \in Backward /\ BackThere(p, s)
    BY <1>4, <1>5, <1>6
<1>7. CASE ~(pc[p] \in Backward /\ BackThere(p, s))
    <2>1. claim'[s] = NewClaim(p, s) /\ \A t \in Skills \ {s} : claim'[t] = claim[t]
        BY <1>1, <1>4, <1>5, <1>7 DEF ClaimTyped
    <2>2. claim'[s] = NoClaim \/ IsOurs(s)'
        BY <1>1, <1>2, <1>7, <2>1, NewOurs DEF IsOurs
    <2>3. pc[p] \in Backward => pc[p] # "reserve"
        BY DEF Backward
    <2> QED BY <1>4, <1>5, <1>7, <2>1, <2>2, <2>3
<1> QED BY <1>6, <1>7

LEMMA ClaimsMove ==
    ASSUME ~LateFaults, NEW p \in Procs, Step(p) PROVE UNCHANGED claim \/ WriteClaim(p)
<1>1. Start(p) \/ PhaseEnds(p) \/ Read(p) \/ Mkdir(p) \/ Check(p) \/ Look(p) \/ Place(p) \/ Stage(p)
        \/ Undo(p) => UNCHANGED claim
    BY DEF Start, PhaseEnds, Read, Mkdir, Check, Look, Place, Stage, Undo, disk
<1>2. WriteReceipt(p) \/ Clean(p) \/ Release(p) \/ Return(p) => UNCHANGED claim
    BY DEF WriteReceipt, Clean, Release, Return, disk
<1>3. Disturbed(p) => UNCHANGED claim
    BY DEF Disturbed, FailsEarly, FailsLate, BackFails, RestoreFails, CleanFails, ReleaseFails,
       Crash, disk
<1> QED BY <1>1, <1>2, <1>3 DEF Step, GoOn

\* Another producer gets no claim from an operation of DVA.
LEMMA TheirsStay ==
    ASSUME ~LateFaults, WorkInv, NEW p \in Procs, UndoFits(p), Step(p), NEW s \in Skills, IsTheirs(s)'
    PROVE  IsTheirs(s)
<1>1. CASE UNCHANGED claim
    BY <1>1 DEF IsTheirs
<1>2. CASE WriteClaim(p)
    <2>1. PICK t \in left[p] :
              /\ t \in Skills /\ \A u \in Skills \ {t} : claim'[u] = claim[u]
              /\ claim'[t] = claim[t] \/ claim'[t] = NoClaim \/ IsOurs(t)'
        BY <1>2, ClaimWrites
    <2>2. CASE claim'[s] = claim[s]
        BY <2>2 DEF IsTheirs
    <2>3. CASE claim'[s] = NoClaim \/ IsOurs(s)'
        BY <2>3, ValuesDiffer DEF IsTheirs, IsOurs
    <2> QED BY <2>1, <2>2, <2>3
<1> QED BY <1>1, <1>2, ClaimsMove

\* What an operation does leaves the others where they are.
LEMMA OthersUndo ==
    ASSUME NEW q \in Procs, UndoFits(q),
           pc'[q] = pc[q], left'[q] = left[q], job'[q] = job[q], base'[q] = base[q],
           aside'[q] = aside[q], mine'[q] = mine[q], why'[q] = why[q],
           \A s \in Skills : lock'[s] = q => lock[s] = q,
           Secure(q) => UNCHANGED <<claim, tree, receipt>>,
           \A s \in Installed(job[q].seen) : IsTheirs(s)' => IsTheirs(s),
           faults' = 0 => faults = 0, faults # 0 => faults' # 0
    PROVE  UndoFits(q)'
<1>1. /\ Old(q)' = Old(q) /\ Added(q)' = Added(q) /\ Concerned(q)' = Concerned(q)
      /\ \A s : WasThere(q, s)' = WasThere(q, s)
    BY SamePlan
<1>2. Held(q)' \subseteq Held(q) /\ Moves(q)' = Moves(q) /\ Listed(q)' = Listed(q)
    BY DEF Held, Moves, Listed, Installed
<1>3. WayFits(q)' /\ HoldsListed(q)'
    BY <1>2 DEF UndoFits, WayFits, HoldsListed
<1>4. SeenOurs(q)'
    BY DEF UndoFits, SeenOurs, Installed
<1>5. TreesKept(q)'
    BY <1>1, <1>2 DEF UndoFits, TreesKept, TreesBack, TreesAre, Secure
<1>6. ClaimsKept(q)'
    <2> SUFFICES ASSUME pc[q] \in Backwards \/ (pc[q] \in Writing /\ faults' = 0)
                 PROVE  (OldKept(q) /\ AddedKept(q) /\ OutsideKept(q) /\ BackKept(q))'
        BY DEF ClaimsKept
    <2>1. pc[q] \in Writing /\ UNCHANGED <<claim, tree, receipt>>
        BY DEF Secure, Backwards, Writing, Looping
    <2>2. OldKept(q) /\ AddedKept(q) /\ OutsideKept(q) /\ BackKept(q)
        BY DEF UndoFits, ClaimsKept
    <2>3. OldKept(q)' /\ AddedKept(q)'
        BY <1>1, <2>1, <2>2 DEF OldKept, AddedKept, IsOurs, Installed
    <2>4. OutsideKept(q)'
        BY <1>1, <1>2, <2>1, <2>2 DEF OutsideKept, IsTheirs
    <2>5. BackKept(q)'
        BY <1>1, <2>1, <2>2 DEF BackKept, ClaimsMatch, ClaimMatches, ClaimsAbsent, LateFailure
    <2> QED BY <2>3, <2>4, <2>5
<1>7. MineAll(q)'
    BY <1>1 DEF UndoFits, MineAll
<1>8. FailedUndone(q)'
    <2> SUFFICES ASSUME pc[q] = "release", Anchored(q)', job[q].flow # "none",
                        why[q] \notin {"none", "clean"}
                 PROVE  AsBefore(q)'
        BY DEF FailedUndone
    <2>1. Anchored(q)
        BY <1>2 DEF Anchored
    <2>2. AsBefore(q) /\ UNCHANGED <<claim, tree, receipt>>
        BY <2>1 DEF UndoFits, FailedUndone, Secure
    <2> QED BY <1>2, <2>2 DEF AsBefore, Consistent, TreesMatch, ClaimsMatch, ClaimMatches, Installed
<1> QED BY <1>3, <1>4, <1>5, <1>6, <1>7, <1>8 DEF UndoFits

-----------------------------------------------------------------------------
(* The way back, outside of the work *)

LEMMA IdleUndo ==
    ASSUME NEW p, pc'[p] \notin Writing, WayFits(p)', HoldsListed(p)', SeenOurs(p)',
           FailedUndone(p)'
    PROVE  UndoFits(p)'
BY DEF UndoFits, TreesKept, ClaimsKept, MineAll, Backwards, Writing, Looping

LEMMA SeenStays ==
    ASSUME ~LateFaults, WorkInv, NEW p \in Procs, UndoFits(p), Step(p),
           job'[p].seen = job[p].seen, faults' = 0 => faults = 0
    PROVE  SeenOurs(p)'
<1>1. job[p].seen \in Receipts
    BY DEF WorkInv, ProtoInv, WriterInv, Typed, Jobs
<1>2. \A s \in Installed(job[p].seen) : IsTheirs(s)' => IsTheirs(s)
    BY <1>1, InstalledKnown, TheirsStay
<1>3. Installed(job[p].seen)' = Installed(job[p].seen)
    BY DEF Installed
<1> QED BY <1>2, <1>3 DEF UndoFits, SeenOurs

LEMMA StartUndo ==
    ASSUME WorkInv, NEW p \in Procs, UndoFits(p), Start(p) PROVE UndoFits(p)'
<1>1. ClaimTyped /\ Typed
    BY DEF WorkInv, ProtoInv, WriterInv
<1>2. pc[p] = "idle" /\ pc'[p] = "read" /\ lock' = lock /\ why' = why
    BY <1>1 DEF Start, ClaimTyped, disk
<1>3. job'[p].flow = "none" /\ job'[p].seen = NoReceipt
    BY <1>1 DEF Start, Typed, NoJob
<1>4. WayFits(p)'
    BY <1>2, <1>3 DEF UndoFits, WayFits, Looking, Backwards, Held
<1>5. SeenOurs(p)'
    BY <1>3 DEF SeenOurs, Installed
<1> QED BY <1>2, <1>4, <1>5, IdleUndo DEF HoldsListed, FailedUndone, Writing, Looping

LEMMA ReadUndo ==
    ASSUME WorkInv, NEW p \in Procs, UndoFits(p), ReceiptOurs, Read(p) PROVE UndoFits(p)'
<1>1. ClaimTyped /\ Typed /\ receipt' = receipt /\ claim' = claim /\ lock' = lock
      /\ why' = why /\ faults' = faults
    BY DEF WorkInv, ProtoInv, WriterInv, Read, disk
<1>2. pc[p] = "read" /\ pc'[p] = "lock" /\ left'[p] = LockList(p)
    BY <1>1 DEF Read, ClaimTyped
<1>3. job'[p].flow = job[p].flow /\ job'[p].kind = job[p].kind /\ job'[p].seen = receipt
    <2>1. job[p] \in Jobs /\ job'[p] = [job[p] EXCEPT !.seen = receipt]
        BY <1>1 DEF Read, Typed
    <2> QED BY <2>1 DEF Jobs
<1>4. WayFits(p)'
    BY <1>1, <1>2, <1>3 DEF UndoFits, WayFits, Looking, Backwards
<1>5. HoldsListed(p)'
    <2>1. Held(p)' = {}
        BY <1>1, <1>2 DEF UndoFits, WayFits, Held
    <2>2. LockList(p) \subseteq Listed(p)'
        BY <1>3 DEF LockList, Listed, Installed
    <2> QED BY <1>2, <2>1, <2>2 DEF HoldsListed
<1>6. SeenOurs(p)'
    BY <1>1, <1>3 DEF SeenOurs, ReceiptOurs, Installed, IsTheirs
<1> QED BY <1>2, <1>4, <1>5, <1>6, IdleUndo DEF FailedUndone, Writing, Looping

\* An operation that has decided nothing has nothing to undo.
LEMMA ReleasedUndo ==
    ASSUME WorkInv, NEW p \in Procs, UndoFits(p), pc'[p] = "release", left'[p] = Held(p),
           lock' = lock, job'[p].flow = "none" \/ why'[p] \in {"none", "clean"}, SeenOurs(p)'
    PROVE  UndoFits(p)'
<1>1. WayFits(p)'
    BY DEF WayFits, Looking, Backwards, Held
<1> QED BY <1>1, IdleUndo DEF HoldsListed, FailedUndone, Writing, Looping

LEMMA MkdirUndo ==
    ASSUME WorkInv, NEW p \in Procs, UndoFits(p), Mkdir(p) PROVE UndoFits(p)'
<1>1. /\ pc[p] = "lock" /\ job' = job /\ claim' = claim /\ faults' = faults
      /\ ClaimTyped /\ Typed
    BY DEF Mkdir, WorkInv, ProtoInv, WriterInv
<1>2. SeenOurs(p)' /\ job[p].flow = "none"
    BY <1>1 DEF UndoFits, SeenOurs, IsTheirs, Installed, WayFits, Looking
<1>3. CASE Fail(p) /\ UNCHANGED lock
    <2>1. pc'[p] = "release" /\ left'[p] = Held(p)
        BY <1>1, <1>3, FailSets DEF WayBack, Work
    <2> QED BY <1>1, <1>2, <1>3, <2>1, ReleasedUndo
<1>4. CASE \E s \in left[p] : /\ lock' = [lock EXCEPT ![s] = p] /\ Treated(p, s)
                              /\ UNCHANGED why
    <2>1. PICK s \in left[p] : /\ lock' = [lock EXCEPT ![s] = p] /\ Treated(p, s)
                               /\ UNCHANGED why
        BY <1>4
    <2>2. pc' = pc /\ left'[p] = left[p] \ {s}
        BY <1>1, <2>1, TreatedSets
    <2>3. Held(p)' \subseteq Held(p) \cup {s}
        BY <1>1, <2>1 DEF Held, Typed
    <2>4. WayFits(p)'
        BY <1>1, <2>1, <2>2 DEF UndoFits, WayFits, Looking, Backwards
    <2>5. Listed(p)' = Listed(p)
        BY <1>1 DEF Listed, Installed
    <2>6. HoldsListed(p)'
        BY <1>1, <2>2, <2>3, <2>5 DEF UndoFits, HoldsListed
    <2> QED BY <1>1, <1>2, <2>2, <2>4, <2>6, IdleUndo DEF FailedUndone, Writing, Looping
<1> QED BY <1>3, <1>4 DEF Mkdir

LEMMA RefuseUndo ==
    ASSUME WorkInv, NEW p \in Procs, UndoFits(p), pc[p] = "check", UNCHANGED <<lock, claim, faults>>,
           Refuse(p) \/ \E status \in {"current", "absent"} : Report(p, status)
    PROVE  UndoFits(p)'
<1>1. ClaimTyped /\ Typed /\ WorkTyped
    BY DEF WorkInv, ProtoInv, WriterInv
<1>2. pc'[p] = "release" /\ left'[p] = Held(p)
    BY <1>1, GotoSets DEF Refuse, Report, Work
<1>3. job'[p].seen = job[p].seen /\ (job'[p].flow = "none" \/ why'[p] = "none")
    <2>1. why[p] = "none" /\ job[p].flow = "none" /\ job[p] \in Jobs
        BY <1>1 DEF UndoFits, WayFits, Looking, Backwards, Typed
    <2>2. CASE Refuse(p)
        BY <2>1, <2>2 DEF Refuse
    <2>3. CASE \E status \in {"current", "absent"} : Report(p, status)
        BY <1>1, <2>1, <2>3 DEF Report, Typed, Jobs
    <2> QED BY <2>2, <2>3
<1>4. SeenOurs(p)'
    BY <1>3 DEF UndoFits, SeenOurs, IsTheirs, Installed
<1> QED BY <1>2, <1>3, <1>4, ReleasedUndo

LEMMA ReleaseUndo ==
    ASSUME WorkInv, NEW p \in Procs, UndoFits(p), Release(p) \/ ReleaseFails(p),
           faults' = 0 => faults = 0
    PROVE  UndoFits(p)'
<1>1. /\ pc[p] = "release" /\ pc' = pc
      /\ UNCHANGED <<job, why, claim, tree, receipt>>
      /\ ClaimTyped /\ Typed
    BY DEF Release, ReleaseFails, Treated, WorkInv, ProtoInv, WriterInv
<1>2. PICK s \in left[p] : Treated(p, s) /\ \E l \in {Free, Stale} : lock' = [lock EXCEPT ![s] = l]
    BY DEF Release, ReleaseFails
<1>3. left'[p] = left[p] \ {s} /\ s \in Skills
    BY <1>1, <1>2, TreatedSets DEF ClaimTyped
<1>4. Free # p /\ Stale # p
    BY InstallAssumption
<1>5. Held(p)' \subseteq Held(p) \ {s}
    BY <1>1, <1>2, <1>3, <1>4 DEF Held, Typed
<1>6. WayFits(p)'
    BY <1>1, <1>3, <1>5 DEF UndoFits, WayFits, Looking, Backwards
<1>7. SeenOurs(p)'
    BY <1>1 DEF UndoFits, SeenOurs, IsTheirs, Installed
<1>8. FailedUndone(p)'
    <2> SUFFICES ASSUME Anchored(p)', job[p].flow # "none", why[p] \notin {"none", "clean"}
                 PROVE  AsBefore(p)'
        BY <1>1 DEF FailedUndone
    <2>1. Anchored(p)
        BY <1>5 DEF Anchored
    <2>2. AsBefore(p)
        BY <1>1, <2>1 DEF UndoFits, FailedUndone
    <2> QED BY <1>1, <1>5, <2>2
            DEF AsBefore, Consistent, TreesMatch, ClaimsMatch, ClaimMatches, Installed
<1> QED BY <1>1, <1>6, <1>7, <1>8, IdleUndo DEF HoldsListed, Writing, Looping

LEMMA ReturnUndo ==
    ASSUME WorkInv, NEW p \in Procs, UndoFits(p), Return(p) PROVE UndoFits(p)'
<1>1. pc[p] = "release" /\ left[p] = {} /\ Idle(p) /\ lock' = lock
    BY DEF Return, disk
<1>2. pc'[p] = "idle" /\ job'[p] = NoJob /\ why'[p] = "none"
    BY <1>1, IdleSets
<1>3. WayFits(p)'
    BY <1>1, <1>2 DEF UndoFits, WayFits, Looking, Backwards, Held, NoJob
<1>4. SeenOurs(p)'
    BY <1>2 DEF SeenOurs, Installed, NoJob
<1> QED BY <1>2, <1>3, <1>4, IdleUndo DEF HoldsListed, FailedUndone, Writing, Looping

-----------------------------------------------------------------------------
(* The way back of an operation at work *)

\* The conjuncts that phases have to say something about.
LEMMA WorkUndo ==
    ASSUME NEW p, pc'[p] \notin Looking, WayFits(p)', SeenOurs(p)', TreesKept(p)', ClaimsKept(p)',
           MineAll(p)', FailedUndone(p)'
    PROVE  UndoFits(p)'
BY DEF UndoFits, HoldsListed, Looking

\* Trees where none was moved.
LEMMA TreesOnward ==
    ASSUME NEW p, TreesKept(p), pc[p] \in Writing \ {"clean"}, tree' = tree, aside' = aside,
           job'[p] = job[p],
           pc'[p] \in {"restore", "revive", "withdraw"} => TreesBack(p),
           pc'[p] = "undo" =>
               /\ \A s \in Concerned(p) \ left'[p] : tree[s] = WasThere(p, s)
               /\ job[p].flow # "install" => TreesAre(left'[p], Nothing),
           pc'[p] = "swap" => TreesAre(left'[p] \cap Moves(p), Nothing),
           pc'[p] \in {"stage", "drop", "forget"} => TreesAre(Moves(p), Nothing)
    PROVE  TreesKept(p)'
<1>1. Concerned(p)' = Concerned(p) /\ \A s : WasThere(p, s)' = WasThere(p, s)
    BY SamePlan
<1>2. Moves(p)' = Moves(p)
    BY DEF Moves
<1> QED BY <1>1, <1>2 DEF TreesKept, TreesBack, TreesAre

\* Claims where none was written.
LEMMA ClaimsOnward ==
    ASSUME NEW p, ClaimsKept(p), pc[p] \in Backwards \/ (pc[p] \in Writing /\ faults = 0),
           claim' = claim, tree' = tree, lock' = lock, base' = base, mine' = mine,
           job'[p] = job[p], BackKept(p)'
    PROVE  ClaimsKept(p)'
<1>1. Old(p)' = Old(p) /\ Added(p)' = Added(p) /\ Concerned(p)' = Concerned(p)
    BY SamePlan
<1>2. OldKept(p) /\ AddedKept(p) /\ OutsideKept(p)
    BY DEF ClaimsKept
<1>3. OldKept(p)' /\ AddedKept(p)'
    BY <1>1, <1>2 DEF OldKept, AddedKept, IsOurs, Installed
<1>4. OutsideKept(p)'
    BY <1>1, <1>2 DEF OutsideKept, IsTheirs, Held
<1> QED BY <1>3, <1>4 DEF ClaimsKept

\* What was withdrawn is as it was before.
LEMMA WithdrawnUndone ==
    ASSUME WorkInv, NEW p \in Procs, UndoFits(p), pc[p] = "withdraw", left[p] = {}
    PROVE  AsBefore(p)
<1>1. /\ TreesBack(p) /\ OldKept(p) /\ AddedKept(p) /\ OutsideKept(p) /\ BackKept(p)
    BY DEF UndoFits, TreesKept, ClaimsKept, Writing, Looping, Backwards
<1>2. receipt = job[p].rec /\ ClaimsMatch(Old(p), receipt) /\ ClaimsAbsent(mine[p])
    BY <1>1 DEF BackKept
<1>3. receipt # NoReceipt => Consistent
    <2> SUFFICES ASSUME receipt # NoReceipt PROVE Consistent
        OBVIOUS
    <2>1. Names[receipt.version] = Old(p) /\ Names[receipt.version] \subseteq Concerned(p)
        BY <1>1, <1>2 DEF OldKept, Concerned, Installed
    <2>2. \A s \in Names[receipt.version] : tree[s] = receipt.version
        BY <1>1, <1>2, <2>1 DEF TreesBack, WasThere, Installed
    <2> QED BY <1>2, <2>1, <2>2 DEF Consistent, TreesMatch
<1>4. ASSUME NEW s \in Held(p) \ Installed(receipt)
      PROVE  claim[s] = NoClaim /\ tree[s] \notin Versions
    <2>1. CASE s \in Added(p)
        <3>1. claim[s] = NoClaim
            BY <1>1, <1>2, <2>1 DEF AddedKept, ClaimsAbsent
        <3>2. tree[s] = Nothing
            BY <1>1, <1>2, <1>4, <2>1 DEF TreesBack, WasThere, Concerned
        <3> QED BY <3>1, <3>2, ValuesDiffer
    <2>2. CASE s \notin Added(p)
        BY <1>1, <1>2, <1>4, <2>2 DEF OutsideKept, Concerned, Held
    <2> QED BY <2>1, <2>2
<1> QED BY <1>2, <1>3, <1>4 DEF AsBefore

LEMMA PhaseEndsUndo ==
    ASSUME ~LateFaults, WorkInv, NEW p \in Procs, UndoFits(p), PhaseEnds(p) PROVE UndoFits(p)'
<1> DEFINE phase == Following(p, pc[p])
<1>1. /\ pc[p] \in Looping \ {"release"} /\ left[p] = {} /\ Goto(p, phase)
      /\ UNCHANGED <<lock, claim, tree, receipt, job, base, aside, mine, why, faults>>
      /\ ClaimTyped /\ Typed /\ WorkFits(p) /\ OpFits(p)
    BY DEF PhaseEnds, disk, WorkInv, ProtoInv, WriterInv, OpsFit, WorksFit
<1>2. pc'[p] = phase /\ left'[p] = Work(p, phase)
    BY <1>1, GotoSets
<1>3. SeenOurs(p)'
    BY <1>1 DEF UndoFits, SeenOurs, IsTheirs, Installed
<1>4. Added(p)' = Added(p) /\ Old(p)' = Old(p) /\ Moves(p)' = Moves(p)
    BY <1>1, SamePlan DEF Moves
<1> HIDE DEF phase
<1>5. CASE pc[p] = "lock"
    <2>1. phase = "check" /\ left'[p] = {}
        BY <1>2, <1>5 DEF phase, Following, Work
    <2>2. Held(p)' = Held(p) /\ Listed(p)' = Listed(p)
        BY <1>1 DEF Held, Listed, Installed
    <2>3. WayFits(p)'
        BY <1>1, <1>2, <1>5, <2>1 DEF UndoFits, WayFits, Looking, Backwards
    <2>4. HoldsListed(p)'
        BY <1>5, <2>1, <2>2 DEF UndoFits, HoldsListed
    <2> QED BY <1>2, <1>3, <2>1, <2>3, <2>4, IdleUndo DEF FailedUndone, Writing, Looping
<1>6. CASE pc[p] = "activate" /\ job[p].flow # "install"
    <2>1. phase = "release" /\ left'[p] = Held(p)
        BY <1>2, <1>6 DEF phase, Following, Work
    <2>2. why'[p] = "none"
        BY <1>1, <1>6 DEF UndoFits, WayFits, Backwards
    <2> QED BY <1>1, <1>2, <1>3, <2>1, <2>2, ReleasedUndo
<1>7. CASE pc[p] = "withdraw"
    <2>1. phase = "release" /\ left'[p] = Held(p)
        BY <1>2, <1>7 DEF phase, Following, Work
    <2>2. AsBefore(p)
        BY <1>1, <1>7, WithdrawnUndone
    <2>3. FailedUndone(p)'
        BY <1>1, <2>2 DEF FailedUndone, AsBefore, Consistent, TreesMatch, ClaimsMatch, ClaimMatches,
           Installed, Held
    <2>4. WayFits(p)'
        BY <1>1, <1>2, <2>1 DEF WayFits, Looking, Backwards, Held
    <2> QED BY <1>2, <1>3, <2>1, <2>3, <2>4, IdleUndo DEF HoldsListed, Writing, Looping
<1>8. CASE ~(pc[p] \in {"lock", "withdraw"} \/ (pc[p] = "activate" /\ job[p].flow # "install"))
    <2>1. /\ pc[p] \in Writing \ {"clean"} /\ TreesKept(p) /\ WayFits(p)
          /\ pc[p] \in {"reserve", "mark", "swap", "activate", "admit", "stage", "drop", "unadmit",
                        "undo", "revive"}
        BY <1>1, <1>8 DEF UndoFits, Writing, Looping
    <2>2. /\ pc[p] = "reserve"  => phase = "mark"
          /\ pc[p] = "mark"     => phase \in {"swap", "record", "stage"}
          /\ pc[p] = "swap"     => phase = "record"
          /\ pc[p] = "activate" => phase = "admit"
          /\ pc[p] = "admit"    => phase = "clean"
          /\ pc[p] = "stage"    => phase = "drop"
          /\ pc[p] = "drop"     => phase = "forget"
        BY <1>8 DEF phase, Following
    <2>3. /\ pc[p] = "unadmit"  => phase = "undo"
          /\ pc[p] = "undo"     => phase = IF LateFailure(p) THEN "restore" ELSE "revive"
          /\ pc[p] = "revive"   => phase = "withdraw"
        BY DEF phase, Following
    <2>4. phase \in Writing /\ (phase \in Backwards <=> pc[p] \in Backwards) /\ phase # "unadmit"
        BY <2>1, <2>2, <2>3 DEF Writing, Looping, Backwards
    <2>5. WayFits(p)'
        BY <1>1, <1>2, <2>1, <2>4 DEF WayFits, Looking, Backwards, Writing, Looping
    <2>6. TreesKept(p)'
        <3>1. phase \in {"restore", "revive", "withdraw"} => TreesBack(p)
            BY <1>1, <2>1, <2>2, <2>3 DEF TreesKept, TreesBack
        <3>2. phase = "undo" => left'[p] = Moves(p) /\ job[p].flow = "install"
            BY <1>1, <1>2, <2>1, <2>2, <2>3 DEF Work, OpFits, FlowFits
        <3>3. phase \in {"swap", "stage"} => Moves(p) = {}
            BY <1>1, <2>1, <2>2, <2>3 DEF WorkFits, MovesFit
        <3>4. phase \in {"drop", "forget"} => TreesAre(Moves(p), Nothing)
            BY <2>1, <2>2, <2>3 DEF TreesKept
        <3>5. phase \in {"swap", "stage"} => TreesAre(Moves(p), Nothing)
                                             /\ TreesAre(left'[p] \cap Moves(p), Nothing)
            BY <3>3 DEF TreesAre
        <3>6. phase = "undo" => /\ \A s \in Concerned(p) \ left'[p] : tree[s] = WasThere(p, s)
                                /\ job[p].flow # "install" => TreesAre(left'[p], Nothing)
            BY <2>1, <3>2 DEF TreesKept
        <3> QED BY <1>1, <1>2, <2>1, <3>1, <3>4, <3>5, <3>6, TreesOnward
    <2>7. ClaimsKept(p)'
        <3> SUFFICES ASSUME pc[p] \in Backwards \/ faults = 0 PROVE ClaimsKept(p)'
            BY <1>1, <1>2, <2>4 DEF ClaimsKept
        <3>1. ClaimsKept(p) /\ BackKept(p)
            BY <2>1 DEF UndoFits, ClaimsKept
        <3>2. phase = "revive" => left'[p] = Old(p)
            BY <1>2 DEF Work
        <3>3. phase = "withdraw" => left'[p] = mine[p] /\ ClaimsMatch(Old(p), job[p].rec)
            <4>1. phase = "withdraw" => pc[p] = "revive"
                BY <2>1, <2>2, <2>3
            <4> QED BY <1>1, <1>2, <3>1, <4>1 DEF Work, BackKept, ClaimsMatch
        <3>4. phase \in {"revive", "withdraw"} => receipt = job[p].rec
            BY <2>1, <2>2, <2>3, <3>1 DEF BackKept
        <3>5. phase = "undo" => LateFailure(p)
            BY <2>1, <2>2, <2>3 DEF WayFits, LateFailure
        <3>6. BackKept(p)'
            BY <1>1, <1>2, <1>4, <3>2, <3>3, <3>4, <3>5
               DEF BackKept, ClaimsMatch, ClaimMatches, ClaimsAbsent, LateFailure
        <3> QED BY <1>1, <2>1, <3>1, <3>6, ClaimsOnward
    <2>8. MineAll(p)'
        <3>1. phase # "reserve"
            BY <2>1, <2>2, <2>3
        <3> QED BY <1>1, <1>2, <1>4, <2>1, <2>4, <3>1 DEF UndoFits, MineAll
    <2>9. phase \notin Looking /\ phase # "release"
        BY <2>4 DEF Looking, Writing, Looping
    <2> QED BY <1>2, <1>3, <2>5, <2>6, <2>7, <2>8, <2>9, WorkUndo DEF FailedUndone
<1> QED BY <1>5, <1>6, <1>7, <1>8

LEMMA FailsUndo ==
    ASSUME ~LateFaults, WorkInv, Counted, Calm', NEW p \in Procs, UndoFits(p), FailsEarly(p)
    PROVE  UndoFits(p)'
<1> DEFINE phase == WayBack(pc[p])
<1>1. /\ Fail(p) /\ CanFail(p) /\ faults = 0 /\ faults' # 0
      /\ UNCHANGED <<lock, claim, tree, receipt, job, base, aside, mine>>
      /\ ClaimTyped /\ Typed /\ WorkFits(p) /\ OpFits(p)
    BY FirstFault DEF FailsEarly, disk, WorkInv, ProtoInv, WriterInv, OpsFit, WorksFit
<1>2. pc'[p] = phase /\ left'[p] = Work(p, phase) /\ why'[p] = pc[p]
    BY <1>1, FailSets
<1>3. SeenOurs(p)' /\ MineAll(p)'
    BY <1>1 DEF SeenOurs, MineAll
<1>4. Added(p)' = Added(p) /\ Old(p)' = Old(p) /\ Moves(p)' = Moves(p)
    BY <1>1, SamePlan DEF Moves
<1> HIDE DEF phase
<1>5. CASE pc[p] = "lock"
    <2>1. phase = "release" /\ left'[p] = Held(p)
        BY <1>2, <1>5 DEF phase, WayBack, Work
    <2>2. job'[p].flow = "none"
        BY <1>1, <1>5 DEF UndoFits, WayFits, Looking
    <2> QED BY <1>1, <1>2, <1>3, <2>1, <2>2, ReleasedUndo
<1>6. CASE pc[p] # "lock"
    <2>1. /\ pc[p] \in {"reserve", "mark", "activate", "admit", "drop", "swap", "stage", "record",
                        "forget"}
          /\ TreesKept(p) /\ ClaimsKept(p)
        BY <1>1, <1>6 DEF CanFail, Forward, UndoFits
    <2>2. pc[p] \in Writing \ {"clean"}
        BY <2>1 DEF Writing, Looping
    <2>3. /\ pc[p] = "reserve" => phase = "withdraw"
          /\ pc[p] = "mark"    => phase = "revive"
          /\ pc[p] = "admit"   => phase = "unadmit"
          /\ pc[p] \notin {"reserve", "mark", "admit"} => phase = "undo"
        BY <2>1 DEF phase, WayBack
    <2>4. phase \in {"withdraw", "revive", "unadmit", "undo"}
        BY <2>3
    <2>5. WayFits(p)'
        BY <1>1, <1>2, <2>3, <2>4 DEF WayFits, Looking, Backwards
    <2>6. TreesKept(p)'
        <3>1. pc[p] \in {"reserve", "mark"} => TreesBack(p)
            <4>1. pc[p] \in {"reserve", "mark"} => Moves(p) = {}
                BY <1>1 DEF WorkFits, MovesFit
            <4> QED BY <2>1, <2>2, <4>1 DEF TreesKept, TreesBack
        <3>2. phase = "undo" => left'[p] = Moves(p)
            BY <1>2 DEF Work
        <3>3. phase = "undo" /\ job[p].flow # "install" => TreesAre(Moves(p), Nothing)
            <4>1. CASE pc[p] \in {"stage", "drop", "forget"}
                BY <2>1, <2>2, <4>1 DEF TreesKept
            <4>2. CASE pc[p] \in {"record", "activate", "swap"}
                <5>1. job[p].flow \in {"install", "unlink"}
                    BY <1>1, <4>2 DEF OpFits, FlowFits
                <5>2. job[p].flow = "unlink" => Moves(p) = {}
                    BY <2>1, <2>2 DEF TreesKept
                <5> QED BY <5>1, <5>2 DEF TreesAre
            <4> QED BY <2>1, <2>3, <2>4, <4>1, <4>2
        <3>4. phase = "undo" => \A s \in Concerned(p) \ left'[p] : tree[s] = WasThere(p, s)
            BY <2>1, <2>2, <3>2 DEF TreesKept
        <3>5. phase \in {"restore", "revive", "withdraw"} => TreesBack(p)
            BY <2>1, <2>3, <2>4, <3>1
        <3> QED BY <1>1, <1>2, <2>1, <2>2, <2>4, <3>2, <3>3, <3>4, <3>5, TreesOnward
    <2>7. ClaimsKept(p)'
        <3>1. OldKept(p)
            BY <1>1, <2>1, <2>2 DEF ClaimsKept
        <3>2. pc[p] \in {"reserve", "mark", "swap", "record", "stage", "drop", "forget"} =>
                receipt = job[p].rec
            BY <1>1 DEF WorkFits, ReceiptFits
        <3>3. pc[p] = "reserve" => ClaimsMatch(Old(p), job[p].rec)
            <4> SUFFICES ASSUME pc[p] = "reserve", NEW s \in Old(p)
                         PROVE  ClaimMatches(s, job[p].rec)
                BY DEF ClaimsMatch
            <4>1. claim[s] = base[p][s] /\ base[p][s] \in Claims
                  /\ base[p][s].producer = "dva" /\ base[p][s].state = "active"
                BY <1>1, <2>2 DEF OpFits, OldFits, BaseFits, Unmarked
            <4>2. base[p][s].load = job[p].rec
                BY <3>1 DEF OldKept
            <4> QED BY <4>1, <4>2, ClaimKnown DEF ClaimMatches
        <3>4. /\ phase = "revive" => left'[p] = Old(p)
              /\ phase = "withdraw" => left'[p] = mine[p]
            BY <1>2 DEF Work
        <3>5. phase = "undo" /\ ~LateFailure(p)' => receipt = job[p].rec
            BY <1>2, <2>1, <2>3, <3>2 DEF LateFailure
        <3>6. BackKept(p)'
            BY <1>1, <1>2, <1>4, <2>1, <2>3, <3>2, <3>3, <3>4, <3>5
               DEF BackKept, ClaimsMatch, ClaimMatches, ClaimsAbsent
        <3> QED BY <1>1, <2>1, <2>2, <3>6, ClaimsOnward
    <2>8. phase \notin Looking /\ phase # "release"
        BY <2>4 DEF Looking
    <2> QED BY <1>2, <1>3, <2>5, <2>6, <2>7, <2>8, WorkUndo DEF FailedUndone
<1> QED BY <1>5, <1>6

LEMMA WriteClaimUndo ==
    ASSUME ~LateFaults, WorkInv, NEW p \in Procs, UndoFits(p), WriteClaim(p) PROVE UndoFits(p)'
<1>1. /\ pc[p] \in Forward \cup Backward
      /\ UNCHANGED <<lock, tree, receipt, job, base, aside, why, faults>>
      /\ ClaimTyped /\ Typed /\ WorkFits(p) /\ OpFits(p)
    BY DEF WriteClaim, WorkInv, ProtoInv, WriterInv, OpsFit, WorksFit
<1>2. PICK s \in left[p] :
          /\ s \in Skills /\ \A t \in Skills \ {s} : claim'[t] = claim[t]
          /\ IF pc[p] \in Backward /\ BackThere(p, s)
             THEN Treated(p, s) /\ claim'[s] = claim[s] /\ mine' = mine
             ELSE /\ claim'[s] = NewClaim(p, s) /\ (claim'[s] = NoClaim \/ IsOurs(s)')
                  /\ IF pc[p] \in Backward THEN UNCHANGED <<pc, left, mine>>
                     ELSE /\ Treated(p, s)
                          /\ mine' = IF pc[p] = "reserve" THEN [mine EXCEPT ![p] = @ \cup {s}]
                                     ELSE mine
    BY ClaimWrites
<1>3. pc' = pc /\ left[p] \ {s} \subseteq left'[p] /\ left'[p] \subseteq left[p]
    BY <1>1, <1>2, TreatedSets
<1>4. /\ Old(p)' = Old(p) /\ Added(p)' = Added(p) /\ Concerned(p)' = Concerned(p)
      /\ Old(p) \subseteq Skills /\ Added(p) \subseteq Skills /\ Old(p) \cap Added(p) = {}
    BY <1>1, SamePlan, KnownSkills
<1>5. mine[p] \subseteq mine'[p] /\ mine'[p] \subseteq mine[p] \cup {s}
      /\ (pc[p] = "reserve" => mine'[p] = mine[p] \cup {s}) /\ (pc[p] # "reserve" => mine' = mine)
    BY <1>1, <1>2 DEF ClaimTyped, Backward
<1>6. pc[p] \in Writing \ {"clean"} /\ pc[p] \notin Looking /\ pc[p] # "release"
    BY <1>1 DEF Forward, Backward, Writing, Looping, Looking
<1>7. TreesKept(p) /\ ClaimsKept(p) /\ WayFits(p) /\ MineAll(p)
    BY DEF UndoFits
<1>8. WayFits(p)'
    <2>1. Held(p)' = Held(p) /\ faults' = faults /\ why' = why /\ job' = job
        BY <1>1 DEF Held
    <2> QED BY <1>3, <1>6, <1>7, <2>1 DEF WayFits
<1>9. SeenOurs(p)'
    BY <1>1, SeenStays DEF Step, GoOn
<1>10. TreesKept(p)'
    <2>1. pc[p] \notin {"undo", "swap"}
        BY <1>1 DEF Forward, Backward
    <2>2. /\ pc[p] \in {"restore", "revive", "withdraw"} => TreesBack(p)
          /\ pc[p] \in {"stage", "drop", "forget"} => TreesAre(Moves(p), Nothing)
        BY <1>6, <1>7 DEF TreesKept
    <2> QED BY <1>1, <1>3, <1>6, <1>7, <2>1, <2>2, TreesOnward
<1>11. ClaimsKept(p)'
    <2> SUFFICES ASSUME pc[p] \in Backwards \/ faults = 0
                 PROVE  (OldKept(p) /\ AddedKept(p) /\ OutsideKept(p) /\ BackKept(p))'
        BY <1>1, <1>3, <1>6 DEF ClaimsKept
    <2>1. OldKept(p) /\ AddedKept(p) /\ OutsideKept(p) /\ BackKept(p)
        BY <1>6, <1>7 DEF ClaimsKept
    <2>2. \A t \in Skills : claim'[t] = claim[t] \/ (t = s /\ (claim'[s] = NoClaim \/ IsOurs(s)'))
        BY <1>2
    <2>3. \/ s \in Old(p) /\ pc[p] \in {"mark", "activate", "drop", "revive"}
          \/ s \in Added(p) /\ s \in mine'[p] /\ pc[p] \in {"reserve", "admit", "unadmit", "withdraw"}
        <3>1. pc[p] \in {"mark", "activate", "drop", "revive"} => s \in Old(p)
            BY <1>1 DEF OpFits, ListFits
        <3>2. pc[p] \in {"reserve", "admit"} => s \in Added(p)
            BY <1>1 DEF OpFits, ListFits
        <3>3. pc[p] \in {"unadmit", "withdraw"} => s \in mine[p] /\ s \in Added(p)
            BY <1>1, <1>6 DEF OpFits, ListFits, MineFits
        <3>4. pc[p] = "admit" => s \in mine[p]
            BY <1>6, <1>7, <2>1, <3>2 DEF MineAll, Backwards
        <3> QED BY <1>1, <1>5, <3>1, <3>2, <3>3, <3>4 DEF Forward, Backward
    <2>4. OldKept(p)'
        BY <1>1, <1>4, <2>1, <2>2 DEF OldKept, IsOurs, Installed
    <2>5. AddedKept(p)'
        BY <1>4, <1>5, <2>1, <2>2, <2>3 DEF AddedKept, IsOurs
    <2>6. OutsideKept(p)'
        <3>1. s \in Concerned(p)
            BY <2>1, <2>3 DEF OldKept, Concerned
        <3> QED BY <1>1, <1>2, <1>4, <2>1, <3>1 DEF OutsideKept, IsTheirs, Held
    <2>7. BackKept(p)'
        <3>1. CASE pc[p] = "revive"
            <4>1. \A t \in Old(p) \ left'[p] : ClaimMatches(t, job[p].rec)'
                <5> SUFFICES ASSUME NEW t \in Old(p) \ left'[p]
                             PROVE  ClaimMatches(t, job[p].rec)'
                    OBVIOUS
                <5>1. CASE t # s
                    <6>1. ClaimMatches(t, job[p].rec) /\ claim'[t] = claim[t]
                        BY <1>2, <1>3, <1>4, <2>1, <3>1, <5>1 DEF BackKept, ClaimsMatch
                    <6> QED BY <1>1, <6>1 DEF ClaimMatches
                <5>2. CASE t = s
                    <6>1. BackThere(p, s) /\ claim'[s] = claim[s]
                        BY <1>2, <3>1, <5>2 DEF Backward
                    <6>2. claim[s] # NoClaim /\ claim[s].state = "active"
                          /\ claim[s].load = job[p].rec
                        BY <2>1, <3>1, <5>2, <6>1 DEF BackThere, OldKept
                    <6>3. IsOurs(s)
                        BY <2>1, <5>2, <6>2 DEF OldKept
                    <6> QED BY <1>1, <5>2, <6>1, <6>2, <6>3, ClaimKnown DEF ClaimMatches, IsOurs
                <5> QED BY <5>1, <5>2
            <4> QED BY <1>1, <1>3, <1>4, <2>1, <3>1, <4>1 DEF BackKept, ClaimsMatch
        <3>2. CASE pc[p] = "withdraw"
            <4>1. s \notin Old(p)
                BY <1>4, <2>3, <3>2
            <4>2. ClaimsMatch(Old(p), job[p].rec)'
                BY <1>1, <1>2, <1>4, <2>1, <3>2, <4>1 DEF BackKept, ClaimsMatch, ClaimMatches
            <4>3. mine[p] \subseteq Skills /\ mine' = mine
                BY <1>1, <1>5, <3>2 DEF ClaimTyped
            <4>4. \A t \in mine[p] \ left'[p] : claim'[t] = NoClaim
                <5>1. s \notin left'[p] => BackThere(p, s) /\ claim'[s] = claim[s]
                    BY <1>2, <3>2 DEF Backward
                <5>2. s \notin left'[p] => claim'[s] = NoClaim
                    BY <3>2, <5>1 DEF BackThere
                <5> QED BY <1>2, <1>3, <2>1, <3>2, <4>3, <5>2 DEF BackKept, ClaimsAbsent
            <4> QED BY <1>1, <1>3, <2>1, <3>2, <4>2, <4>3, <4>4 DEF BackKept, ClaimsAbsent
        <3>3. CASE pc[p] \notin {"revive", "withdraw"}
            BY <1>1, <1>3, <3>3 DEF BackKept, Forward, Backward
        <3> QED BY <3>1, <3>2, <3>3
    <2> QED BY <2>4, <2>5, <2>6, <2>7
<1>12. MineAll(p)'
    <2>1. pc[p] = "reserve" => left[p] \subseteq left'[p] \cup {s}
        BY <1>3
    <2> QED BY <1>1, <1>3, <1>4, <1>5, <1>7, <2>1 DEF MineAll
<1> QED BY <1>3, <1>6, <1>8, <1>9, <1>10, <1>11, <1>12, WorkUndo DEF FailedUndone

\* One tree moves, of those that the operation is about.
LEMMA TreeMoved ==
    ASSUME ~LateFaults, WorkInv, NEW p \in Procs, UndoFits(p), Step(p),
           pc[p] \in {"swap", "stage", "undo"}, NEW s \in Concerned(p),
           UNCHANGED <<lock, claim, receipt, job, base, mine, why, pc, faults>>,
           \A t \in Skills \ {s} : tree'[t] = tree[t], TreesKept(p)'
    PROVE  UndoFits(p)'
<1>1. /\ Old(p)' = Old(p) /\ Added(p)' = Added(p) /\ Concerned(p)' = Concerned(p)
    BY SamePlan
<1>2. WayFits(p)' /\ MineAll(p)'
    BY <1>1 DEF UndoFits, WayFits, MineAll, Held
<1>3. SeenOurs(p)'
    BY SeenStays
<1>4. ClaimsKept(p)'
    <2> SUFFICES ASSUME pc[p] \in Backwards \/ (pc[p] \in Writing /\ faults = 0)
                 PROVE  (OldKept(p) /\ AddedKept(p) /\ OutsideKept(p) /\ BackKept(p))'
        BY DEF ClaimsKept
    <2>1. OldKept(p) /\ AddedKept(p) /\ OutsideKept(p) /\ BackKept(p)
        BY DEF UndoFits, ClaimsKept
    <2>2. OldKept(p)' /\ AddedKept(p)'
        BY <1>1, <2>1 DEF OldKept, AddedKept, IsOurs, Installed
    <2>3. OutsideKept(p)'
        BY <1>1, <2>1 DEF OutsideKept, IsTheirs, Held
    <2>4. BackKept(p)'
        BY <1>1, <2>1 DEF BackKept, LateFailure
    <2> QED BY <2>2, <2>3, <2>4
<1> QED BY <1>2, <1>3, <1>4, WorkUndo DEF Looking, FailedUndone

LEMMA SwapConcerns ==
    ASSUME WorkInv, NEW p \in Procs, pc[p] = "swap"
    PROVE  left[p] \subseteq Concerned(p)
BY SwapKnown DEF Concerned, Added

LEMMA LookUndo ==
    ASSUME ~LateFaults, WorkInv, NEW p \in Procs, UndoFits(p), Look(p) PROVE UndoFits(p)'
<1>1. /\ pc[p] = "swap" /\ pc[p] \in Writing \ {"clean"}
      /\ UNCHANGED <<lock, claim, receipt, job, base, mine, faults>>
    BY DEF Look, Writing, Looping
<1>2. PICK s \in left[p] :
         /\ aside[p][s] = NotMoved
         /\ IF Collides(p, s) THEN Fail(p) /\ UNCHANGED <<tree, aside>>
            ELSE /\ aside' = [aside EXCEPT ![p][s] = tree[s]]
                 /\ tree' = [tree EXCEPT ![s] = Nothing]
                 /\ UNCHANGED <<pc, left, why>>
    BY DEF Look
<1>3. /\ s \in Concerned(p) /\ s \notin Moves(p) /\ Concerned(p) \subseteq Skills
      /\ Moves(p) \subseteq Skills /\ left[p] \subseteq Skills
    BY <1>1, <1>2, SwapConcerns, KnownSkills DEF Moves
<1>4. tree[s] = WasThere(p, s) /\ TreesKept(p)
    BY <1>1, <1>3 DEF UndoFits, TreesKept
<1>5. ~Collides(p, s)
    BY <1>4 DEF Collides, Owned, WasThere
<1>6. /\ tree'[s] = Nothing /\ \A t \in Skills \ {s} : tree'[t] = tree[t]
      /\ Moves(p)' = Moves(p) \cup {s}
    BY <1>2, <1>5, LookSets
<1>7. aside'[p][s] = tree[s] /\ \A t \in Skills \ {s} : aside'[p][t] = aside[p][t]
    BY <1>2, <1>3, <1>5 DEF WorkInv, WorkTyped
<1>8. Concerned(p)' = Concerned(p) /\ \A t : WasThere(p, t)' = WasThere(p, t)
    BY <1>1, SamePlan
<1>9. pc' = pc /\ left' = left /\ why' = why /\ job[p].flow = "install"
    BY <1>1, <1>2, <1>5, SwapKnown
<1>10. TreesKept(p)'
    BY <1>1, <1>3, <1>4, <1>6, <1>7, <1>8, <1>9 DEF TreesKept, TreesAre
<1> QED BY <1>1, <1>3, <1>6, <1>9, <1>10, TreeMoved DEF Step, GoOn

LEMMA PlaceUndo ==
    ASSUME ~LateFaults, WorkInv, NEW p \in Procs, UndoFits(p), Place(p) PROVE UndoFits(p)'
<1>1. /\ pc[p] = "swap" /\ pc[p] \in Writing \ {"clean"}
      /\ UNCHANGED <<lock, claim, receipt, job, base, mine, aside, faults>>
      /\ ClaimTyped /\ TreesKept(p)
    BY DEF Place, Writing, Looping, UndoFits, WorkInv, ProtoInv
<1>2. PICK s \in left[p] :
         /\ aside[p][s] # NotMoved
         /\ IF tree[s] # Nothing THEN Fail(p) /\ UNCHANGED tree
            ELSE /\ tree' = [tree EXCEPT ![s] = job[p].next.version]
                 /\ Treated(p, s) /\ UNCHANGED why
    BY DEF Place
<1>3. /\ s \in Concerned(p) /\ s \in Moves(p) /\ Concerned(p) \subseteq Skills
      /\ Moves(p) \subseteq Skills /\ left[p] \subseteq Skills
    BY <1>1, <1>2, SwapConcerns, KnownSkills DEF Moves
<1>4. tree[s] = Nothing
    BY <1>1, <1>2, <1>3 DEF TreesKept, TreesAre
<1>5. \A t \in Skills \ {s} : tree'[t] = tree[t]
    BY <1>2, <1>4 DEF WorkInv, WorkTyped
<1>6. pc' = pc /\ left'[p] = left[p] \ {s} /\ why' = why
    BY <1>1, <1>2, <1>4, TreatedSets
<1>7. /\ Concerned(p)' = Concerned(p) /\ Moves(p)' = Moves(p)
      /\ \A t : WasThere(p, t)' = WasThere(p, t)
    BY <1>1, SamePlan DEF Moves
<1>8. TreesKept(p)'
    BY <1>1, <1>3, <1>5, <1>6, <1>7 DEF TreesKept, TreesAre
<1> QED BY <1>1, <1>3, <1>5, <1>6, <1>8, TreeMoved DEF Step, GoOn

LEMMA StageUndo ==
    ASSUME ~LateFaults, WorkInv, NEW p \in Procs, UndoFits(p), Stage(p) PROVE UndoFits(p)'
<1>1. /\ pc[p] = "stage" /\ pc[p] \in Writing \ {"clean"}
      /\ UNCHANGED <<lock, claim, receipt, job, base, mine, why, faults>>
      /\ ClaimTyped /\ TreesKept(p) /\ WorkFits(p) /\ OpFits(p)
    BY DEF Stage, Writing, Looping, UndoFits, WorkInv, ProtoInv, WorksFit, OpsFit
<1>2. PICK s \in left[p] :
         /\ aside' = [aside EXCEPT ![p][s] = tree[s]]
         /\ tree' = [tree EXCEPT ![s] = Nothing] /\ Treated(p, s)
    BY DEF Stage
<1>3. /\ s \in Concerned(p) /\ Concerned(p) \subseteq Skills /\ Moves(p) \subseteq Skills
      /\ left[p] \subseteq Skills /\ s \in Installed(job[p].rec)
    BY <1>1, KnownSkills DEF WorkFits, TreesFit, Concerned
<1>4. tree[s] = WasThere(p, s) /\ job[p].flow = "remove"
    BY <1>1, <1>3 DEF WorkFits, TreesFit, TreesAre, WasThere, OpFits, FlowFits
<1>5. /\ tree'[s] = Nothing /\ \A t \in Skills \ {s} : tree'[t] = tree[t]
      /\ Moves(p)' = Moves(p) \cup {s}
    BY <1>2, LookSets
<1>6. aside'[p][s] = tree[s] /\ \A t \in Skills \ {s} : aside'[p][t] = aside[p][t]
    BY <1>2, <1>3 DEF WorkInv, WorkTyped
<1>7. Concerned(p)' = Concerned(p) /\ \A t : WasThere(p, t)' = WasThere(p, t)
    BY <1>1, SamePlan
<1>8. pc' = pc
    BY <1>2 DEF Treated
<1>9. TreesKept(p)'
    BY <1>1, <1>3, <1>4, <1>5, <1>6, <1>7, <1>8 DEF TreesKept, TreesAre
<1> QED BY <1>1, <1>3, <1>5, <1>8, <1>9, TreeMoved DEF Step, GoOn

LEMMA UndoUndo ==
    ASSUME ~LateFaults, WorkInv, NEW p \in Procs, UndoFits(p), Undo(p) PROVE UndoFits(p)'
<1>1. /\ pc[p] = "undo" /\ pc[p] \in Writing \ {"clean"}
      /\ UNCHANGED <<lock, claim, receipt, job, base, mine, aside, why, faults>>
      /\ ClaimTyped /\ TreesKept(p) /\ WorkFits(p)
    BY DEF Undo, Writing, Looping, UndoFits, WorkInv, ProtoInv, WorksFit
<1>2. PICK s \in left[p] : tree' = [tree EXCEPT ![s] = Undone(p, s)] /\ Treated(p, s)
    BY DEF Undo
<1>3. /\ s \in Moves(p) /\ s \in Concerned(p) /\ Concerned(p) \subseteq Skills
      /\ Moves(p) \subseteq Skills /\ left[p] \subseteq Skills
    BY <1>1, KnownSkills DEF WorkFits, MovesFit, TreesKept
<1>4. Undone(p, s) = WasThere(p, s)
    <2>1. job[p].flow # "install" => tree[s] = Nothing
        BY <1>1 DEF TreesKept, TreesAre
    <2>2. aside[p][s] = WasThere(p, s)
        BY <1>1, <1>3 DEF TreesKept
    <2> QED BY <2>1, <2>2 DEF Undone
<1>5. tree'[s] = WasThere(p, s) /\ \A t \in Skills \ {s} : tree'[t] = tree[t]
    BY <1>2, <1>3, <1>4 DEF WorkInv, WorkTyped
<1>6. pc' = pc /\ left'[p] = left[p] \ {s}
    BY <1>1, <1>2, TreatedSets
<1>7. /\ Concerned(p)' = Concerned(p) /\ Moves(p)' = Moves(p)
      /\ \A t : WasThere(p, t)' = WasThere(p, t)
    BY <1>1, SamePlan DEF Moves
<1>8. TreesKept(p)'
    BY <1>1, <1>3, <1>5, <1>6, <1>7 DEF TreesKept, TreesAre
<1> QED BY <1>1, <1>3, <1>5, <1>6, <1>8, TreeMoved DEF Step, GoOn

LEMMA WriteReceiptUndo ==
    ASSUME ~LateFaults, WorkInv, NEW p \in Procs, UndoFits(p), WriteReceipt(p) PROVE UndoFits(p)'
<1> DEFINE phase == Following(p, pc[p])
<1>1. /\ pc[p] \in {"record", "forget", "restore"} /\ Goto(p, phase)
      /\ UNCHANGED <<lock, claim, tree, job, base, aside, mine, why, faults>>
      /\ ClaimTyped /\ receipt' = NewReceipt(p)
    BY DEF WriteReceipt, WorkInv, ProtoInv
<1>2. pc'[p] = phase /\ left'[p] = Work(p, phase)
    BY <1>1, GotoSets
<1>3. /\ pc[p] = "record"  => phase = "activate"
      /\ pc[p] = "forget"  => phase = "clean"
      /\ pc[p] = "restore" => phase = "revive"
    BY DEF Following
<1>4. Added(p)' = Added(p) /\ Old(p)' = Old(p)
    BY <1>1, SamePlan
<1> HIDE DEF phase
<1>5. /\ pc[p] \in Writing \ {"clean"} /\ TreesKept(p) /\ WayFits(p) /\ ClaimsKept(p) /\ MineAll(p)
    BY <1>1 DEF UndoFits, Writing, Looping
<1>6. phase \in {"activate", "clean", "revive"} /\ (phase \in Backwards <=> pc[p] \in Backwards)
    BY <1>1, <1>3 DEF Backwards
<1>7. WayFits(p)'
    BY <1>1, <1>2, <1>5, <1>6 DEF WayFits, Looking, Backwards
<1>8. SeenOurs(p)'
    BY <1>1, SeenStays DEF Step, GoOn
<1>9. TreesKept(p)'
    <2>1. phase = "revive" => TreesBack(p)
        BY <1>1, <1>3, <1>5 DEF TreesKept
    <2> QED BY <1>1, <1>2, <1>5, <1>6, <2>1, TreesOnward
<1>10. ClaimsKept(p)'
    <2> SUFFICES ASSUME pc[p] \in Backwards \/ faults = 0 PROVE ClaimsKept(p)'
        BY <1>1, <1>2, <1>6 DEF ClaimsKept
    <2>1. phase = "revive" => left'[p] = Old(p) /\ receipt' = job[p].rec
        BY <1>1, <1>2, <1>3 DEF Work, NewReceipt
    <2>2. BackKept(p)'
        BY <1>1, <1>2, <1>4, <1>6, <2>1 DEF BackKept, ClaimsMatch
    <2> QED BY <1>1, <1>5, <2>2, ClaimsOnward
<1>11. MineAll(p)'
    BY <1>1, <1>2, <1>4, <1>5, <1>6 DEF MineAll, Backwards
<1> QED BY <1>2, <1>6, <1>7, <1>8, <1>9, <1>10, <1>11, WorkUndo DEF Looking, FailedUndone

LEMMA CleanUndo ==
    ASSUME ~LateFaults, WorkInv, Counted, Calm', NEW p \in Procs, UndoFits(p),
           Clean(p) \/ CleanFails(p)
    PROVE  UndoFits(p)'
<1>1. /\ pc[p] = "clean" /\ lock' = lock /\ job' = job /\ ClaimTyped /\ claim' = claim
    BY DEF Clean, CleanFails, disk, WorkInv, ProtoInv
<1>2. why[p] = "none"
    BY <1>1 DEF UndoFits, WayFits, Backwards
<1>3. pc'[p] = "release" /\ left'[p] = Held(p) /\ why'[p] \in {"none", "clean"}
    <2>1. CASE Goto(p, "release") /\ UNCHANGED why
        BY <1>1, <1>2, <2>1, GotoSets DEF Work
    <2>2. CASE Fail(p)
        BY <1>1, <2>2, FailSets DEF WayBack, Work
    <2> QED BY <2>1, <2>2 DEF Clean, CleanFails
<1>4. SeenOurs(p)'
    <2>1. CASE faults' = faults
        BY <1>1, <2>1 DEF UndoFits, SeenOurs, IsTheirs, Installed
    <2>2. CASE Fault
        BY <2>2, FirstFault DEF SeenOurs
    <2> QED BY <2>1, <2>2 DEF Clean, CleanFails
<1> QED BY <1>1, <1>3, <1>4, ReleasedUndo

\* While one operation has its locks and decides, none writes.
LEMMA NobodyWrites ==
    ASSUME WorkInv, NEW p \in Procs, pc[p] = "check", NEW q \in Procs PROVE pc[q] \notin Writing
<1>1. lock[Anchor] = p /\ (pc[q] \in Writing => lock[Anchor] = q)
    BY DEF WorkInv, ProtoInv, WriterInv, AnchorTaken
<1> QED BY <1>1 DEF Writing, Looping

\* An operation that begins finds a receipt that says the truth.
LEMMA BeginUndo ==
    ASSUME WorkInv, NEW p \in Procs, UndoFits(p), pc[p] = "check", faults = 0 => Settled,
           NEW flow \in {"install", "unlink", "remove"}, NEW next \in Receipts,
           NEW phase \in {"reserve", "mark"}, NEW S,
           Begin(p, flow, next, phase, S),
           UNCHANGED <<lock, claim, tree, receipt, aside, mine, faults>>,
           receipt # NoReceipt => TreesMatch(receipt),
           flow = "install" =>
               /\ job[p].kind = "install" /\ next \in Loads /\ next.version = Binary[p]
               /\ phase = "reserve" /\ S = Names[Binary[p]] \ Installed(receipt)
               /\ ClaimsAbsent(S) /\ NoCollision(S),
           flow # "install" =>
               /\ job[p].kind # "install" /\ phase = "mark" /\ job[p].seen # NoReceipt
               /\ faults = 0 => Installed(job[p].seen) = Installed(receipt)
    PROVE  UndoFits(p)'
<1> DEFINE begun == [job[p] EXCEPT !.flow = flow, !.rec = receipt, !.next = next]
           found == [s \in Skills |-> IF s \in Claimed(p, receipt) THEN claim[s] ELSE NoClaim]
           new   == IF flow = "install" THEN S ELSE {}
<1>1. ClaimTyped /\ Typed /\ WorkFits(p) /\ OpFits(p) /\ receipt \in Receipts
    BY DEF WorkInv, ProtoInv, WriterInv, WorksFit, OpsFit, Typed
<1>2. job' = [job EXCEPT ![p] = begun] /\ base' = [base EXCEPT ![p] = found]
    BY <1>1 DEF Begin, Typed
<1>3. /\ begun.kind = job[p].kind /\ begun.seen = job[p].seen /\ begun.flow = flow
      /\ begun.rec = receipt /\ begun.next = next
    <2>1. job[p] \in Jobs
        BY <1>1 DEF Typed
    <2> QED BY <2>1 DEF Jobs
<1> HIDE DEF begun
<1>4. pc'[p] = phase /\ left'[p] = S /\ why' = why /\ job'[p] = begun /\ base'[p] = found
    BY <1>1, <1>2 DEF Begin, ClaimTyped, Typed
<1> HIDE DEF found
<1>5. Moves(p)' = {} /\ mine'[p] = {}
    BY <1>1 DEF WorkFits, MovesFit, Moves, OpFits, MineFits
<1>6. Added(p)' = new /\ Concerned(p)' = Installed(receipt) \cup new
    BY <1>3, <1>4 DEF Added, Concerned, Installed
<1>7. \A s : WasThere(p, s)' = IF s \in Installed(receipt) THEN receipt.version ELSE Nothing
    BY <1>3, <1>4 DEF WasThere, Installed
<1>8. Old(p)' = Claimed(p, receipt)
    BY <1>3, <1>4 DEF Old, Claimed, Installed
<1>9. WayFits(p)'
    BY <1>4 DEF UndoFits, WayFits, Looking, Backwards
<1>10. SeenOurs(p)'
    BY <1>3, <1>4 DEF UndoFits, SeenOurs, IsTheirs, Installed
<1>11. \A s \in Concerned(p)' : tree[s] = WasThere(p, s)'
    <2> SUFFICES ASSUME NEW s \in Installed(receipt) \cup new PROVE tree[s] = WasThere(p, s)'
        BY <1>6
    <2>1. CASE s \in Installed(receipt)
        BY <1>7, <2>1 DEF Installed, TreesMatch
    <2>2. CASE s \notin Installed(receipt)
        BY <1>7, <2>2 DEF NoCollision
    <2> QED BY <2>1, <2>2
<1>12. TreesKept(p)'
    BY <1>4, <1>5, <1>11 DEF TreesKept
<1>13. ClaimsKept(p)'
    <2> SUFFICES ASSUME faults = 0 PROVE (OldKept(p) /\ AddedKept(p) /\ OutsideKept(p) /\ BackKept(p))'
        BY <1>4 DEF ClaimsKept, Backwards
    <2>1. Settled /\ Claimed(p, receipt) = Installed(receipt)
        BY DEF Claimed
    <2>2. Installed(receipt) \subseteq Skills
        BY <1>1, InstalledKnown
    <2>3. \A s \in Installed(receipt) : ClaimMatches(s, receipt)
        BY <2>1 DEF Settled, Consistent, ClaimsMatch, Installed
    <2>4. ASSUME NEW s \in Installed(receipt)
          PROVE  base'[p][s].load = receipt /\ IsOurs(s)
        <3>1. base'[p][s] = claim[s]
            BY <1>4, <2>1, <2>2 DEF found
        <3>2. claim[s] \in Claims /\ claim[s].producer = "dva" /\ claim[s].load = receipt
            BY <1>1, <2>2, <2>3 DEF ClaimMatches, Readable, ClaimTyped
        <3> QED BY <3>1, <3>2 DEF IsOurs
    <2>5. OldKept(p)'
        BY <1>3, <1>4, <1>8, <2>1, <2>4 DEF OldKept, IsOurs, Installed
    <2>6. AddedKept(p)'
        BY <1>6 DEF AddedKept, ClaimsAbsent
    <2>7. OutsideKept(p)'
        <3> SUFFICES ASSUME NEW s \in Skills, s \notin Installed(receipt), s \notin new
                     PROVE  /\ tree[s] \notin Versions /\ (claim[s] = NoClaim \/ IsTheirs(s))
                            /\ s \in Held(p) => claim[s] = NoClaim
            BY <1>6 DEF OutsideKept, IsTheirs, Held
        <3>1. tree[s] \notin Versions /\ (claim[s] = NoClaim \/ IsTheirs(s))
            BY <2>1 DEF Settled
        <3>2. s \in Held(p) => s \in Installed(job[p].seen)
            BY <2>1 DEF UndoFits, HoldsListed, Listed
        <3>3. s \in Installed(job[p].seen) => ~IsTheirs(s)
            BY DEF UndoFits, SeenOurs
        <3> QED BY <3>1, <3>2, <3>3
    <2>8. BackKept(p)'
        BY <1>4 DEF BackKept
    <2> QED BY <2>5, <2>6, <2>7, <2>8
<1>14. MineAll(p)'
    BY <1>4, <1>6 DEF MineAll
<1> QED BY <1>4, <1>9, <1>10, <1>12, <1>13, <1>14, WorkUndo DEF Looking, FailedUndone

\* A removal that goes on works on the receipt that it has read before.
LEMMA SameReceipt ==
    ASSUME WorkInv, NEW p \in Procs, Settled, receipt # NoReceipt, job[p].seen # NoReceipt,
           ClaimsMatch(Installed(job[p].seen), Load(job[p].seen.version, receipt.runtimes))
    PROVE  Installed(job[p].seen) = Installed(receipt)
<1>1. receipt.version \in Versions /\ job[p].seen.version \in Versions
    BY DEF WorkInv, ProtoInv, WriterInv, Typed, Jobs, Receipts
<1>2. Anchor \in Names[receipt.version] /\ Anchor \in Names[job[p].seen.version]
    BY <1>1, AnchorKnown
<1>3. claim[Anchor].load = receipt
    BY <1>2 DEF Settled, Consistent, ClaimsMatch, ClaimMatches
<1>4. claim[Anchor].load = Load(job[p].seen.version, receipt.runtimes)
    BY <1>2 DEF ClaimsMatch, ClaimMatches, Installed
<1>5. receipt.version = job[p].seen.version
    BY <1>3, <1>4 DEF Load
<1> QED BY <1>5 DEF Installed

LEMMA CheckUndo ==
    ASSUME WorkInv, NEW p \in Procs, UndoFits(p), SettledBetween, Check(p) PROVE UndoFits(p)'
<1>1. /\ pc[p] = "check" /\ UNCHANGED <<lock, claim, tree, receipt, aside, mine, faults>>
      /\ receipt \in Receipts /\ job[p] \in Jobs /\ Binary[p] \in Versions
    BY InstallAssumption DEF Check, disk, WorkInv, ProtoInv, WriterInv, Typed
<1>2. job[p].want \subseteq Runtimes /\ (receipt # NoReceipt => receipt \in Loads)
    BY <1>1 DEF Jobs, Receipts, Loads
<1>3. faults = 0 => Settled
    BY <1>1, NobodyWrites DEF SettledBetween
<1>4. CASE job[p].kind = "install"
    <2>1. CheckInstall(p)
        BY <1>4 DEF Check
    <2>2. CASE Refuse(p) \/ Report(p, "current")
        BY <1>1, <2>2, RefuseUndo
    <2>3. CASE /\ receipt = NoReceipt /\ FreshInstallOK(p)
               /\ Begin(p, "install", Load(Binary[p], job[p].want), "reserve", Names[Binary[p]])
        <3> DEFINE next == Load(Binary[p], job[p].want)
                   S == Names[Binary[p]]
        <3>1. next \in Loads /\ next \in Receipts /\ next.version = Binary[p]
            BY <1>1, <1>2 DEF Load, Loads, Receipts
        <3>2. S = Names[Binary[p]] \ Installed(receipt) /\ ClaimsAbsent(S) /\ NoCollision(S)
            BY <2>3 DEF Installed, FreshInstallOK
        <3>3. Begin(p, "install", next, "reserve", S)
            BY <2>3
        <3> HIDE DEF next, S
        <3> QED BY <1>1, <1>3, <1>4, <2>3, <3>1, <3>2, <3>3, BeginUndo
    <2>4. CASE /\ receipt # NoReceipt /\ UpdateOK(p)
               /\ Begin(p, "install", Load(Binary[p], receipt.runtimes \cup job[p].want),
                        "reserve", Names[Binary[p]] \ Installed(receipt))
        <3> DEFINE next == Load(Binary[p], receipt.runtimes \cup job[p].want)
                   S == Names[Binary[p]] \ Installed(receipt)
        <3>1. next \in Loads /\ next \in Receipts /\ next.version = Binary[p]
            BY <1>1, <1>2, <2>4 DEF Load, Loads, Receipts
        <3>2. ClaimsAbsent(S) /\ NoCollision(S) /\ TreesMatch(receipt)
            BY <2>4 DEF Installed, UpdateOK, InstalledOK
        <3>3. Begin(p, "install", next, "reserve", S)
            BY <2>4
        <3>4. S = Names[Binary[p]] \ Installed(receipt)
            OBVIOUS
        <3> HIDE DEF next, S
        <3> QED BY <1>1, <1>3, <1>4, <3>1, <3>2, <3>3, <3>4, BeginUndo
    <2> QED BY <2>1, <2>2, <2>3, <2>4 DEF CheckInstall
<1>5. CASE job[p].kind # "install"
    <2>1. CheckUninstall(p)
        BY <1>5 DEF Check
    <2>2. CASE Refuse(p) \/ Report(p, "absent")
        BY <1>1, <2>2, RefuseUndo
    <2>3. CASE /\ receipt # NoReceipt /\ TreesMatch(receipt) /\ job[p].seen # NoReceipt
               /\ ClaimsMatch(Installed(job[p].seen), Load(job[p].seen.version, receipt.runtimes))
               /\ \/ Begin(p, "remove", NoReceipt, "mark", Installed(job[p].seen))
                  \/ Begin(p, "unlink", Load(receipt.version, receipt.runtimes \ job[p].want),
                           "mark", Installed(job[p].seen))
        <3> DEFINE next == Load(receipt.version, receipt.runtimes \ job[p].want)
                   S == Installed(job[p].seen)
        <3>1. next \in Receipts /\ NoReceipt \in Receipts
            BY <1>1, <1>2, <2>3 DEF Load, Loads, Receipts
        <3>2. faults = 0 => Installed(job[p].seen) = Installed(receipt)
            BY <1>3, <2>3, SameReceipt
        <3>3. Begin(p, "remove", NoReceipt, "mark", S) \/ Begin(p, "unlink", next, "mark", S)
            BY <2>3
        <3> HIDE DEF next, S
        <3> QED BY <1>1, <1>3, <1>5, <2>3, <3>1, <3>2, <3>3, BeginUndo
    <2> QED BY <2>1, <2>2, <2>3 DEF CheckUninstall
<1> QED BY <1>4, <1>5

-----------------------------------------------------------------------------
(* Between operations *)

\* What a success leaves is settled.
LEMMA EndSettles ==
    ASSUME WorkInv, NEW p \in Procs, UndoFits(p), faults = 0,
           pc[p] = "clean" \/ (pc[p] = "activate" /\ left[p] = {} /\ job[p].flow # "install")
    PROVE  Settled
<1>1. WorkFits(p) /\ OpFits(p) /\ receipt = job[p].next /\ pc[p] \in Writing
    BY DEF WorkInv, ProtoInv, OpsFit, WorksFit, WorkFits, ReceiptFits, Writing, Looping
<1>2. OldKept(p) /\ OutsideKept(p)
    BY <1>1 DEF UndoFits, ClaimsKept
<1>3. job[p].flow \in {"install", "unlink", "remove"} /\ (pc[p] = "clean" => job[p].flow # "unlink")
    BY <1>1 DEF OpFits, FlowFits, WorkFits, PlanFits
<1>4. CASE job[p].flow = "remove"
    <2>1. receipt = NoReceipt /\ pc[p] = "clean"
        BY <1>1, <1>4 DEF WorkFits, PlanFits, OpFits, FlowFits
    <2>2. TreesGone(Installed(job[p].rec)) /\ ClaimsAbsent(Old(p))
        BY <1>1, <1>4, <2>1 DEF WorkFits, TreesFit, ClaimsDone
    <2>3. Concerned(p) = Installed(job[p].rec)
        BY <1>4 DEF Concerned, Added
    <2> QED BY <1>2, <2>1, <2>2, <2>3 DEF Settled, OldKept, OutsideKept, TreesGone, ClaimsAbsent
<1>5. CASE job[p].flow \in {"install", "unlink"}
    <2>1. receipt \in Loads /\ receipt # NoReceipt
        BY <1>1, <1>5, ValuesDiffer DEF WorkFits, PlanFits
    <2>2. TreesMatch(receipt)
        BY <1>1, <1>3, <1>5 DEF WorkFits, TreesFit, TreesAre, TreesMatch
    <2>3. Names[receipt.version] = Concerned(p)
        <3>1. CASE job[p].flow = "install"
            <4>1. Installed(job[p].rec) \subseteq Names[receipt.version]
                BY <1>1, <3>1 DEF WorkFits, PlanFits
            <4> QED BY <1>1, <3>1, <4>1 DEF Concerned, Added
        <3>2. CASE job[p].flow = "unlink"
            <4>1. job[p].rec # NoReceipt /\ receipt.version = job[p].rec.version
                BY <1>1, <3>2 DEF WorkFits, PlanFits
            <4> QED BY <3>2, <4>1 DEF Concerned, Added, Installed
        <3> QED BY <1>5, <3>1, <3>2
    <2>4. ClaimsMatch(Concerned(p), receipt)
        <3>1. CASE pc[p] = "clean"
            BY <1>1, <1>2, <1>3, <1>5, <3>1 DEF WorkFits, ClaimsDone, OldKept, Concerned
        <3>2. CASE pc[p] = "activate" /\ left[p] = {} /\ job[p].flow # "install"
            <4>1. Concerned(p) = Old(p)
                BY <1>2, <3>2 DEF OldKept, Concerned, Added
            <4> QED BY <1>1, <3>2, <4>1 DEF WorkFits, ClaimsDone, ClaimsMatch
        <3> QED BY <3>1, <3>2
    <2>5. Consistent
        BY <2>2, <2>3, <2>4 DEF Consistent
    <2> QED BY <1>2, <2>1, <2>3, <2>5 DEF Settled, OutsideKept, Installed
<1> QED BY <1>3, <1>4, <1>5

\* Who stops working without a failure has come to its end.
LEMMA WorkEnds ==
    ASSUME ~LateFaults, WorkInv, NEW p \in Procs, UndoFits(p), Step(p), Counted,
           faults = 0, faults' = 0, crashes' = crashes, pc[p] \in Writing, pc'[p] \notin Writing
    PROVE  /\ UNCHANGED <<claim, tree, receipt>>
           /\ pc[p] = "clean" \/ (pc[p] = "activate" /\ left[p] = {} /\ job[p].flow # "install")
<1>1. ClaimTyped /\ pc[p] \notin Backwards /\ OpFits(p)
    BY DEF WorkInv, ProtoInv, OpsFit, UndoFits, WayFits
<1>2. ~Disturbed(p)
    BY DEF Disturbed, FailsEarly, FailsLate, BackFails, RestoreFails, CleanFails, ReleaseFails,
       Crash, Fault, Counted
<1>3. ~Start(p) /\ ~Read(p) /\ ~Mkdir(p) /\ ~Check(p) /\ ~Release(p) /\ ~Return(p)
    BY DEF Start, Read, Mkdir, Check, Release, Return, Writing, Looping
<1>4. ~Stage(p) /\ ~Undo(p)
    BY DEF Stage, Undo, Treated
<1>5. ~WriteClaim(p)
    BY DEF WriteClaim, Treated
<1>6. ~Look(p) /\ ~Place(p)
    <2>1. Look(p) \/ Place(p) => (pc' = pc \/ (Fail(p) /\ pc[p] = "swap"))
        BY DEF Look, Place, Treated
    <2>2. Fail(p) /\ pc[p] = "swap" => pc'[p] \in Writing
        BY FailSets DEF WayBack, Writing, Looping
    <2> QED BY <2>1, <2>2
<1>7. ~WriteReceipt(p)
    <2>1. WriteReceipt(p) => pc'[p] \in {"activate", "clean", "revive"}
        BY <1>1, GotoSets DEF WriteReceipt, Following
    <2> QED BY <2>1 DEF Writing, Looping
<1>8. CASE PhaseEnds(p)
    <2>1. pc[p] \in Looping /\ left[p] = {} /\ pc'[p] = Following(p, pc[p])
        BY <1>1, <1>8, GotoSets DEF PhaseEnds
    <2>2. pc[p] = "activate" /\ job[p].flow # "install"
        BY <1>1, <2>1 DEF Following, Writing, Looping, Backwards
    <2> QED BY <1>8, <2>1, <2>2 DEF PhaseEnds, disk
<1>9. CASE Clean(p)
    BY <1>9 DEF Clean, disk
<1> QED BY <1>2, <1>3, <1>4, <1>5, <1>6, <1>7, <1>8, <1>9 DEF Step, GoOn

LEMMA SettledStays ==
    ASSUME ~LateFaults, WorkInv, Counted, UndoFit, NEW p \in Procs, Step(p),
           faults' = 0 => faults = 0, crashes' = crashes
    PROVE  SettledBetween'
<1> SUFFICES ASSUME faults' = 0, \A q \in Procs : pc'[q] \notin Writing PROVE Settled'
    BY DEF SettledBetween
<1>1. \A q \in Procs \ {p} : pc[q] \notin Writing
    BY StepFine DEF Step, WorkInv, Fine, OthersStay
<1>2. Settled /\ UNCHANGED <<claim, tree, receipt>>
    <2>1. CASE pc[p] \notin Writing
        BY <1>1, <2>1, WritersWrite DEF UndoFit, SettledBetween
    <2>2. CASE pc[p] \in Writing
        BY <2>2, WorkEnds, EndSettles DEF UndoFit
    <2> QED BY <2>1, <2>2
<1> QED BY <1>2 DEF Settled, Consistent, TreesMatch, ClaimsMatch, ClaimMatches, Installed, IsTheirs

\* Only receipts of what DVA has claimed are written.
LEMMA ReceiptStaysOurs ==
    ASSUME ~LateFaults, WorkInv, UndoFit, NEW p \in Procs, Step(p), faults' = 0 => faults = 0
    PROVE  ReceiptOurs'
<1> SUFFICES ASSUME faults = 0 PROVE \A s \in Installed(receipt)' : ~IsTheirs(s)'
    BY DEF ReceiptOurs
<1>1. UndoFits(p) /\ ReceiptOurs /\ WorkFits(p) /\ OpFits(p)
    BY DEF UndoFit, WorkInv, ProtoInv, OpsFit, WorksFit
<1>2. CASE receipt' = receipt
    <2>1. receipt \in Receipts
        BY DEF WorkInv, ProtoInv, WriterInv, Typed
    <2> QED BY <1>1, <1>2, <2>1, TheirsStay, InstalledKnown DEF ReceiptOurs, Installed
<1>3. CASE WriteReceipt(p)
    <2>1. pc[p] \in {"record", "forget"} /\ claim' = claim /\ receipt' = job[p].next
        <3>1. pc[p] # "restore"
            BY <1>1 DEF UndoFits, WayFits, Backwards
        <3> QED BY <1>3, <3>1 DEF WriteReceipt, NewReceipt
    <2>2. CASE pc[p] = "forget"
        <3>1. job[p].next = NoReceipt
            BY <1>1, <2>2 DEF OpFits, FlowFits, WorkFits, PlanFits
        <3> QED BY <2>1, <3>1 DEF Installed
    <2>3. CASE pc[p] = "record"
        <3>1. job[p].flow \in {"install", "unlink"} /\ pc[p] \in Writing
            BY <1>1, <2>3 DEF OpFits, FlowFits, Writing, Looping
        <3>2. job[p].next \in Loads /\ job[p].next # NoReceipt
            BY <1>1, <3>1, ValuesDiffer DEF WorkFits, PlanFits
        <3>3. Names[job[p].next.version] \subseteq Concerned(p)
            BY <1>1, <3>1 DEF WorkFits, PlanFits, Concerned, Added, Installed
        <3>4. OldKept(p) /\ AddedKept(p)
            BY <1>1, <3>1 DEF UndoFits, ClaimsKept
        <3>5. \A s \in Concerned(p) : claim[s] = NoClaim \/ IsOurs(s)
            BY <3>4 DEF OldKept, AddedKept, Concerned
        <3> QED BY <2>1, <3>2, <3>3, <3>5, ValuesDiffer DEF Installed, IsTheirs, IsOurs
    <2> QED BY <2>1, <2>2, <2>3
<1>4. receipt' = receipt \/ WriteReceipt(p)
    <2>1. Start(p) \/ PhaseEnds(p) \/ Read(p) \/ Mkdir(p) \/ Check(p) \/ WriteClaim(p) \/ Look(p)
            \/ Place(p) \/ Stage(p) \/ Undo(p) => receipt' = receipt
        BY DEF Start, PhaseEnds, Read, Mkdir, Check, WriteClaim, Look, Place, Stage, Undo, disk
    <2>2. Clean(p) \/ Release(p) \/ Return(p) => receipt' = receipt
        BY DEF Clean, Release, Return, disk
    <2>3. Disturbed(p) => receipt' = receipt
        BY DEF Disturbed, FailsEarly, FailsLate, BackFails, RestoreFails, CleanFails, ReleaseFails,
           Crash, disk
    <2> QED BY <2>1, <2>2, <2>3 DEF Step, GoOn
<1> QED BY <1>2, <1>3, <1>4

-----------------------------------------------------------------------------
(* A failed operation leaves what it found *)

LEMMA StepUndo ==
    ASSUME ~LateFaults, WorkInv, Counted, UndoFit, Calm', crashes' = crashes,
           faults' = 0 => faults = 0, NEW p \in Procs, Step(p)
    PROVE  UndoFits(p)'
<1>1. UndoFits(p) /\ ReceiptOurs /\ SettledBetween
    BY DEF UndoFit
<1>2. Start(p) \/ Read(p) \/ Mkdir(p) \/ Check(p) \/ PhaseEnds(p) \/ WriteClaim(p) => UndoFits(p)'
    BY <1>1, StartUndo, ReadUndo, MkdirUndo, CheckUndo, PhaseEndsUndo, WriteClaimUndo
<1>3. Look(p) \/ Place(p) \/ Stage(p) \/ Undo(p) \/ WriteReceipt(p) => UndoFits(p)'
    BY <1>1, LookUndo, PlaceUndo, StageUndo, UndoUndo, WriteReceiptUndo
<1>4. Clean(p) \/ CleanFails(p) \/ Release(p) \/ ReleaseFails(p) \/ Return(p) \/ FailsEarly(p) =>
        UndoFits(p)'
    BY <1>1, CleanUndo, ReleaseUndo, ReturnUndo, FailsUndo
<1>5. ~FailsLate(p) /\ ~Crash(p)
    BY DEF FailsLate, Crash, Counted
<1>6. ~BackFails(p) /\ ~RestoreFails(p)
    <2>1. BackFails(p) \/ RestoreFails(p) => pc[p] \in Backwards /\ Fault
        BY DEF BackFails, RestoreFails, Backward, Backwards
    <2> QED BY <1>1, <2>1, FirstFault DEF UndoFits, WayFits
<1> QED BY <1>2, <1>3, <1>4, <1>5, <1>6 DEF Step, GoOn, Disturbed

LEMMA UndoInit == Init => UndoInv
<1> SUFFICES ASSUME Init PROVE UndoFit
    BY DEF UndoInv
<1>1. /\ pc = [p \in Procs |-> "idle"] /\ left = [p \in Procs |-> {}]
      /\ job = [p \in Procs |-> NoJob] /\ why = [p \in Procs |-> "none"]
      /\ receipt = NoReceipt /\ lock = [s \in Skills |-> Free]
    BY DEF Init, ProtocolInit
<1>2. ASSUME NEW p \in Procs PROVE UndoFits(p)
    <2>1. pc[p] = "idle" /\ job[p] = NoJob /\ why[p] = "none" /\ Free # p
        BY <1>1, InstallAssumption
    <2>2. Held(p) = {}
        BY <1>1, <2>1 DEF Held
    <2>3. WayFits(p) /\ HoldsListed(p) /\ SeenOurs(p)
        BY <2>1, <2>2 DEF WayFits, HoldsListed, SeenOurs, Installed, NoJob, Backwards
    <2> QED BY <2>1, <2>3
            DEF UndoFits, TreesKept, ClaimsKept, MineAll, FailedUndone, Backwards, Writing, Looping
<1>3. ReceiptOurs
    BY <1>1 DEF ReceiptOurs, Installed
<1>4. Settled
    <2> SUFFICES ASSUME NEW s \in Skills
                 PROVE  tree[s] \notin Versions /\ (claim[s] = NoClaim \/ IsTheirs(s))
        BY <1>1 DEF Settled
    <2>1. PICK S \in SUBSET ForeignSkills :
             /\ tree = [t \in Skills |-> IF t \in S THEN Foreign ELSE Nothing]
             /\ \E v \in Versions, r \in (SUBSET Runtimes) \ {{}} :
                  claim = [t \in Skills |-> IF t \in S
                     THEN [Reserved(Load(v, r)) EXCEPT !.producer = "other", !.state = "active"]
                     ELSE NoClaim]
        BY DEF Init
    <2>2. PICK v \in Versions, r \in (SUBSET Runtimes) \ {{}} :
             claim = [t \in Skills |-> IF t \in S
                 THEN [Reserved(Load(v, r)) EXCEPT !.producer = "other", !.state = "active"]
                 ELSE NoClaim]
        BY <2>1
    <2>3. tree[s] \notin Versions
        BY <2>1, ValuesDiffer
    <2>4. s \notin S => claim[s] = NoClaim
        BY <2>2
    <2>5. s \in S => IsTheirs(s)
        <3>1. [Reserved(Load(v, r)) EXCEPT !.producer = "other", !.state = "active"] \in Claims
            BY DEF Reserved, Load, Claims, Loads, ClaimStates
        <3>2. [Reserved(Load(v, r)) EXCEPT !.producer = "other", !.state = "active"].producer = "other"
            BY DEF Reserved
        <3> QED BY <2>2, <3>1, <3>2 DEF IsTheirs
    <2> QED BY <2>3, <2>4, <2>5
<1> QED BY <1>2, <1>3, <1>4 DEF UndoFit, SettledBetween

LEMMA UndoStep ==
    ASSUME ~LateFaults, ~UserAdds
    PROVE  WorkInv /\ Counted /\ UndoInv /\ [Next]_vars => UndoInv'
<1> SUFFICES ASSUME WorkInv, Counted, UndoInv, [Next]_vars, Calm' PROVE UndoFit'
    BY DEF UndoInv
<1>1. /\ UndoFit /\ crashes' = crashes /\ (faults' = 0 => faults = 0)
      /\ (faults # 0 => faults' # 0)
    BY CalmStep DEF UndoInv
<1>2. ASSUME NEW p \in Procs, Step(p) PROVE UndoFit'
    <2>1. UndoFits(p)' /\ ReceiptOurs' /\ SettledBetween'
        BY <1>1, <1>2, StepUndo, ReceiptStaysOurs, SettledStays
    <2>2. ASSUME NEW q \in Procs \ {p} PROVE UndoFits(q)'
        <3>1. ProtoInv /\ Fine(p) /\ UndoFits(p) /\ UndoFits(q)
            BY <1>1, <1>2, StepFine DEF Step, WorkInv, UndoFit
        <3>2. /\ pc'[q] = pc[q] /\ left'[q] = left[q] /\ job'[q] = job[q] /\ base'[q] = base[q]
              /\ mine'[q] = mine[q]
            BY <3>1 DEF Fine, OthersStay
        <3>3. aside'[q] = aside[q] /\ why'[q] = why[q]
            BY <1>2, WhyMoves, TreesTyped
        <3>4. \A s \in Skills : lock'[s] = q => lock[s] = q
            BY <1>2, LocksMove
        <3>5. Secure(q) => UNCHANGED <<claim, tree, receipt>>
            BY <1>2, <3>1, WriterAlone, WritersWrite
        <3>6. job[q].seen \in Receipts
            BY DEF WorkInv, ProtoInv, WriterInv, Typed, Jobs
        <3>7. \A s \in Installed(job[q].seen) : IsTheirs(s)' => IsTheirs(s)
            BY <1>2, <3>1, <3>6, InstalledKnown, TheirsStay
        <3> QED BY <1>1, <3>1, <3>2, <3>3, <3>4, <3>5, <3>7, OthersUndo
    <2> QED BY <2>1, <2>2 DEF UndoFit
<1>3. ASSUME UNCHANGED <<claim, tree, receipt, procVars>>,
             \A q \in Procs, s \in Skills : lock'[s] = q => lock[s] = q
      PROVE  UndoFit'
    <2>1. ASSUME NEW q \in Procs PROVE UndoFits(q)'
        <3>1. UndoFits(q) /\ UNCHANGED <<pc, left, job, base, aside, mine, why>>
            BY <1>1, <1>3 DEF UndoFit, procVars
        <3>2. \A s \in Installed(job[q].seen) : IsTheirs(s)' => IsTheirs(s)
            BY <1>3 DEF IsTheirs
        <3> QED BY <1>1, <1>3, <3>1, <3>2, OthersUndo
    <2>2. ReceiptOurs'
        BY <1>1, <1>3 DEF UndoFit, ReceiptOurs, Installed, IsTheirs
    <2>3. SettledBetween'
        <3>1. pc' = pc
            BY <1>3 DEF procVars
        <3> QED BY <1>1, <1>3, <3>1 DEF UndoFit, SettledBetween, Settled, Consistent, TreesMatch,
                   ClaimsMatch, ClaimMatches, Installed, IsTheirs
    <2> QED BY <2>1, <2>2, <2>3 DEF UndoFit
<1>4. ASSUME NEW s \in Skills, RemoveStaleLock(s) \/ AddTree(s) PROVE UndoFit'
    <2>1. RemoveStaleLock(s)
        BY <1>4 DEF AddTree
    <2>2. \A q \in Procs, t \in Skills : lock'[t] = q => lock[t] = q
        BY <2>1, InstallAssumption DEF RemoveStaleLock, WorkInv, ProtoInv, WriterInv, Typed
    <2> QED BY <1>3, <2>1, <2>2 DEF RemoveStaleLock
<1>5. CASE UNCHANGED vars
    BY <1>3, <1>5 DEF vars, disk
<1> QED BY <1>2, <1>4, <1>5 DEF Next, Step

\* An operation that fails after it has begun to write leaves receipt, claims
\* and trees as it found them, when that is the only call that fails, the call
\* has had no effect, nobody dies and nobody adds a tree: the error paths of
\* install_flow.go:208-280, 330-395 and uninstall.go:230-305.
THEOREM FailedMeansUndoneHolds ==
    ASSUME ~LateFaults, ~UserAdds
    PROVE  Spec => [](faults <= 1 /\ crashes = 0 => FailedMeansUndone)
<1>1. WorkInv /\ Counted /\ UndoInv /\ [Next]_vars => UndoInv'
    BY UndoStep
<1>2. Counted /\ [Next]_vars => Counted'
    BY CountStep
<1>3. Init => Counted
    BY DEF Init, Counted
<1>4. UndoInv => (faults <= 1 /\ crashes = 0 => FailedMeansUndone)
    BY DEF UndoInv, Calm, UndoFit, UndoFits, FailedUndone, FailedMeansUndone
<1> QED BY <1>1, <1>2, <1>3, <1>4, UndoInit, WorkInvHolds, PTL DEF Spec

-----------------------------------------------------------------------------
(* The trees that a takeover moved *)

\* The trees that are about, and what may be at a place.
About == wrote \cup {Ours, Spoiled, Empty}
Trees == [Spots -> About]
StageState == [capture : Trees, dva : Trees, copy : Trees]
TakerState == [pc : TakerPCs, kind : {"none", "install", "takeover", "uninstall", "restore"},
               left : SUBSET Spots, base : Deeds, takes : [Spots -> Contents],
               filled : SUBSET Spots, why : TakerPCs \cup {"none"}, stuck : BOOLEAN]

TakerTyped ==
    /\ place \in Trees /\ backup \in Trees /\ stage \in StageState
    /\ deed \in Deeds /\ hold \in {"absent", "active", "busy"}
    /\ taker \in TakerState
    /\ kept \subseteq Contents /\ wrote \subseteq Writings /\ spoilt \subseteq wrote
    /\ tries \in 0..MaxTries /\ breaks \in 0..MaxBreaks

Pc(S) == taker.pc \in S

\* Which operation gets where.
KindFits ==
    /\ Pc({"idle"}) <=> taker.kind = "none"
    /\ Pc({"list", "capture", "publish"}) => Takes
    /\ Pc({"fill", "record", "activate", "unfill", "giveback", "discard", "unrecord"}) =>
          taker.kind \in {"install", "takeover"}
    /\ Pc({"setaside", "putback"}) => taker.kind = "uninstall"
    /\ Pc({"copy", "swap", "purge", "unswap"}) => taker.kind = "restore"
    /\ Pc({"drop", "forget"}) => taker.kind \in {"uninstall", "restore"}
    /\ Pc({"tidy"}) => taker.kind # "restore"

\* What is in the staging directories: dva's trees never are a person's.
StageFits ==
    /\ Pc({"idle", "claim", "list"}) => stage = Clear
    /\ ~Takes => stage.capture = Bare
    /\ \A s \in Spots : stage.dva[s] \in {Ours, Empty}
    /\ Pc({"capture"}) => \A s \in taker.left : stage.capture[s] = Empty

\* Which trees the receipt describes.
DeedFits ==
    /\ deed.is = "none" => deed.takes = Bare
    /\ taker.base.is = "none" => taker.base.takes = Bare
    /\ Takes => deed.takes \in {Bare, taker.takes}
    /\ Takes /\ Pc({"claim", "list", "capture", "publish"}) => taker.takes = Bare
    /\ Pc({"activate", "tidy"}) => deed.takes = taker.takes
    /\ Pc({"purge"}) => deed.takes = Bare
    /\ ~Takes /\ ~Pc({"idle", "purge"}) =>
          deed.takes = taker.takes /\ taker.base.takes = taker.takes

\* What is at the places that an operation will treat as its own.
PlacesFit ==
    /\ Pc({"claim", "list", "capture", "publish", "setaside", "copy"}) => taker.filled = {}
    /\ Pc({"fill", "record", "activate"}) => \A s \in taker.filled : place[s] = Ours
    /\ Pc({"unfill"}) => \A s \in taker.left : place[s] \in {Ours, Empty}
    /\ taker.kind = "uninstall" =>
         /\ Pc({"claim"}) => \A s \in Spots : place[s] = Ours
         /\ Pc({"setaside"}) => \A s \in taker.left : place[s] = Ours
    /\ taker.kind = "restore" =>
         /\ Pc({"claim", "copy"}) => \A s \in Spots : place[s] \in {Ours, Empty}
         /\ Pc({"swap"}) => \A s \in taker.left : place[s] \in {Ours, Empty}

\* How far a restore is.
RestoreFits ==
    taker.kind = "restore" =>
      /\ Pc({"copy"}) => \A s \in Taken \ taker.left : stage.copy[s] = taker.takes[s]
      /\ Pc({"swap"}) => \A s \in Taken : IF s \in taker.left THEN stage.copy[s] = taker.takes[s]
                                                          ELSE place[s] = taker.takes[s]
      /\ Pc({"drop", "forget", "purge"}) => \A s \in Taken : place[s] = taker.takes[s]
      /\ Pc({"swap", "drop", "forget", "unswap"}) => taker.filled \subseteq Taken
      /\ Pc({"swap"}) => taker.filled \cap taker.left = {}
      /\ Pc({"unswap"}) => \A s \in taker.filled \cap taker.left : place[s] = taker.takes[s]

\* Where the trees are that this operation took.
TakenFits ==
    /\ Takes /\ Pc({"fill", "record", "activate", "tidy", "unfill"}) => stage.capture = taker.takes
    /\ Takes => \A s \in Taken : taker.takes[s] \in {stage.capture[s], place[s]}
    /\ Takes /\ Pc({"discard"}) => \A s \in Taken : place[s] = taker.takes[s]
    /\ Pc({"giveback"}) /\ ~taker.stuck => Filled(stage.capture) \subseteq taker.left

\* The backup that an operation made or restores is what was taken, if nobody spoilt it.
BackedUp ==
    (Takes /\ Pc({"fill", "record", "activate", "tidy"})) \/ (taker.kind = "restore" /\ ~Pc({"purge"}))
      => \A s \in Taken : backup[s] = taker.takes[s] \/ taker.takes[s] \in spoilt

\* No tree is lost; dva's staged trees need not be looked at.
Accounted(x) ==
    \/ \E s \in Spots : x \in {place[s], stage.capture[s]}
    \/ x \in kept
    \/ \E s \in Spots : x = backup[s] /\ x = deed.takes[s]
Covered == \A x \in wrote \ spoilt : Accounted(x)

TakeoverInv ==
    /\ TakerTyped /\ KindFits /\ StageFits /\ DeedFits /\ PlacesFit /\ RestoreFits
    /\ TakenFits /\ BackedUp /\ Covered

-----------------------------------------------------------------------------
(* Moving on *)

LEMMA BareTyped ==
    /\ Bare \in Trees /\ Bare \in [Spots -> Contents] /\ Clear \in StageState
    /\ NoDeed \in Deeds /\ Resting \in TakerState
<1>1. Bare \in Trees /\ Bare \in [Spots -> Contents]
    BY DEF Bare, Trees, About, Contents
<1>2. Clear \in StageState
    BY <1>1 DEF Clear, StageState
<1>3. NoDeed \in Deeds
    BY <1>1 DEF NoDeed, Deeds
<1>4. Resting \in TakerState
    BY <1>1, <1>3 DEF Resting, TakerState, TakerPCs
<1> QED BY <1>1, <1>2, <1>3, <1>4

\* The operation is the one it was.
SameJob ==
    /\ taker'.kind = taker.kind /\ taker'.base = taker.base /\ taker'.takes = taker.takes

LEMMA JobStays == SameJob => (Takes' <=> Takes) /\ Taken' = Taken
BY DEF SameJob, Takes, Taken, Filled

LEMMA OnSets ==
    ASSUME taker \in TakerState, NEW ph \in TakerPCs, NEW S \in SUBSET Spots, On(ph, S)
    PROVE  /\ taker' \in TakerState /\ SameJob /\ (Takes' <=> Takes) /\ Taken' = Taken
           /\ taker'.pc = ph /\ taker'.left = S
           /\ taker'.filled = taker.filled /\ taker'.stuck = taker.stuck
<1>1. /\ taker' \in TakerState /\ SameJob
      /\ taker'.pc = ph /\ taker'.left = S
      /\ taker'.filled = taker.filled /\ taker'.stuck = taker.stuck
    BY DEF On, TakerState, SameJob
<1> QED BY <1>1, JobStays

LEMMA DoneSets ==
    ASSUME taker \in TakerState, NEW s, Done(s)
    PROVE  /\ taker' \in TakerState /\ SameJob /\ (Takes' <=> Takes) /\ Taken' = Taken
           /\ taker'.pc = taker.pc /\ taker'.left = taker.left \ {s}
           /\ taker'.filled = taker.filled /\ taker'.stuck = taker.stuck
<1>1. /\ taker' \in TakerState /\ SameJob
      /\ taker'.pc = taker.pc /\ taker'.left = taker.left \ {s}
      /\ taker'.filled = taker.filled /\ taker'.stuck = taker.stuck
    BY DEF Done, TakerState, SameJob
<1> QED BY <1>1, JobStays

LEMMA WayBackKnown ==
    ASSUME taker \in TakerState
    PROVE  WayBackFrom(taker.pc) \in {"unfill", "giveback", "yield", "putback", "unswap"}
BY DEF WayBackFrom

LEMMA ToUndoKnown ==
    ASSUME NEW ph, NEW filled \in SUBSET Spots, NEW st
    PROVE  ToUndo(ph, filled, st) \in SUBSET Spots
BY DEF ToUndo, Filled

LEMMA ErrsSets ==
    ASSUME taker \in TakerState, NEW filled \in SUBSET Spots, NEW st, Errs(filled, st)
    PROVE  /\ taker' \in TakerState /\ SameJob /\ (Takes' <=> Takes) /\ Taken' = Taken
           /\ taker'.pc = WayBackFrom(taker.pc) /\ taker'.why = taker.pc
           /\ taker'.left = ToUndo(WayBackFrom(taker.pc), filled, st)
           /\ taker'.filled = filled /\ taker'.stuck = taker.stuck
<1> DEFINE to == WayBackFrom(taker.pc)
           rest == ToUndo(to, filled, st)
<1>1. to \in TakerPCs /\ rest \in SUBSET Spots
    BY WayBackKnown, ToUndoKnown DEF TakerPCs
<1>2. taker' = [taker EXCEPT !.pc = to, !.why = taker.pc, !.filled = filled, !.left = rest]
    BY DEF Errs
<1> HIDE DEF to, rest
<1>3. /\ taker' \in TakerState /\ SameJob
      /\ taker'.pc = to /\ taker'.left = rest /\ taker'.why = taker.pc
      /\ taker'.filled = filled /\ taker'.stuck = taker.stuck
    BY <1>1, <1>2 DEF TakerState, SameJob
<1> QED BY <1>3, JobStays DEF to, rest

\* The operation is over: what it had in its staging directories is kept.
LEMMA EndKeeps ==
    ASSUME TakeoverInv, End, UNCHANGED <<place, backup, deed, wrote, spoilt>>,
           hold' \in {"absent", "active", "busy"},
           tries' \in 0..MaxTries, breaks' \in 0..MaxBreaks
    PROVE  TakeoverInv'
<1>1. taker' = Resting /\ stage' = Clear /\ kept' = kept \cup InStage
    BY DEF End
<1>2. InStage \subseteq Contents
    BY DEF TakeoverInv, TakerTyped, StageState, Trees, About, Contents, InStage, Within
<1>3. TakerTyped'
    BY <1>1, <1>2, BareTyped DEF TakeoverInv, TakerTyped, Trees, About, StageState, TakerState, Deeds
<1>4. taker'.pc = "idle" /\ taker'.kind = "none" /\ taker'.base = NoDeed /\ ~Takes'
    BY <1>1 DEF Resting, Takes
<1>5. KindFits'
    BY <1>4 DEF KindFits, Pc
<1>6. StageFits'
    BY <1>1, <1>4 DEF StageFits, Pc, Clear, Bare
<1>7. DeedFits'
    BY <1>4 DEF TakeoverInv, DeedFits, Pc, NoDeed
<1>8. PlacesFit' /\ RestoreFits' /\ TakenFits' /\ BackedUp'
    BY <1>4 DEF PlacesFit, RestoreFits, TakenFits, BackedUp, Pc
<1>9. ASSUME NEW x \in wrote \ spoilt PROVE Accounted(x)'
  <2>1. Accounted(x) /\ x # Empty
      BY TakeoverAssumption DEF TakeoverInv, Covered, TakerTyped
  <2>2. ASSUME NEW s \in Spots, x = stage.capture[s] PROVE x \in InStage
      BY <2>1, <2>2 DEF InStage, Within
  <2> QED BY <1>1, <2>1, <2>2 DEF Accounted
<1> QED BY <1>3, <1>5, <1>6, <1>7, <1>8, <1>9 DEF TakeoverInv, Covered

\* Of what is shared only the claims change.
Elsewhere == UNCHANGED <<place, stage, backup, deed, kept, wrote, spoilt>>

LEMMA ElsewhereTyped ==
    ASSUME TakerTyped, Elsewhere, taker' \in TakerState, hold' \in {"absent", "active", "busy"},
           tries' \in 0..MaxTries, breaks' \in 0..MaxBreaks
    PROVE  TakerTyped'
BY DEF Elsewhere, TakerTyped, Trees, About, StageState, TakerState, Deeds

LEMMA ElsewhereCovered ==
    ASSUME Covered, UNCHANGED <<place, stage, backup, deed, kept, wrote, spoilt>>
    PROVE  Covered'
BY DEF Covered, Accounted

LEMMA CallsCounted ==
    ASSUME TakerTyped, Holds \/ Breaks
    PROVE  breaks' \in 0..MaxBreaks
BY TakeoverAssumption DEF TakerTyped, Holds, Breaks

-----------------------------------------------------------------------------
(* The start and the claims *)

LEMMA StartTakeoverKeeps ==
    ASSUME TakeoverInv, StartTakeover
    PROVE  TakeoverInv'
<1>1. /\ taker.pc = "idle" /\ stage = Clear /\ Elsewhere /\ UNCHANGED <<hold, breaks>>
      /\ tries' \in 0..MaxTries
    BY TakeoverAssumption
       DEF StartTakeover, Elsewhere, Is, People, TakeoverInv, StageFits, TakerTyped, Pc
<1>2. PICK kind \in {"install", "takeover", "uninstall", "restore"} :
        /\ May(kind)
        /\ taker' = [Resting EXCEPT !.pc = "claim", !.kind = kind, !.base = deed, !.takes = deed.takes]
    BY DEF StartTakeover
<1>3. deed \in Deeds /\ deed.takes \in [Spots -> Contents]
    BY DEF TakeoverInv, TakerTyped, Deeds
<1>4. /\ taker' \in TakerState
      /\ taker'.pc = "claim" /\ taker'.kind = kind /\ taker'.base = deed
      /\ taker'.takes = deed.takes /\ taker'.filled = {}
    BY <1>2, <1>3 DEF Resting, TakerState, TakerPCs
<1>5. TakerTyped' /\ Covered'
    BY <1>1, <1>4, ElsewhereTyped, ElsewhereCovered DEF TakeoverInv, TakerTyped, Elsewhere
<1>6. KindFits'
    BY <1>4 DEF KindFits, Pc
<1>7. StageFits'
    BY <1>1, <1>4 DEF TakeoverInv, StageFits, Pc, Elsewhere, Clear
<1>8. DeedFits'
    BY <1>1, <1>4 DEF TakeoverInv, DeedFits, Pc, Elsewhere, Takes
<1>9. PlacesFit'
    BY <1>1, <1>2, <1>4 DEF PlacesFit, Pc, Elsewhere, May, Undisturbed, Vacant, Bare
<1>10. RestoreFits'
    BY <1>4 DEF RestoreFits, Pc
<1>11. TakenFits'
    BY <1>1, <1>4 DEF TakeoverInv, DeedFits, TakenFits, Pc, Takes, Taken, Filled, Bare
<1>12. BackedUp'
    BY <1>1, <1>2, <1>4 DEF BackedUp, Pc, Takes, Elsewhere, May, Available
<1> QED BY <1>5, <1>6, <1>7, <1>8, <1>9, <1>10, <1>11, <1>12 DEF TakeoverInv

LEMMA ClaimKeeps ==
    ASSUME TakeoverInv, ClaimPlaces
    PROVE  TakeoverInv'
<1>1. /\ taker.pc = "claim" /\ UNCHANGED <<place, backup, deed, wrote, spoilt, tries>>
      /\ breaks' \in 0..MaxBreaks /\ tries' \in 0..MaxTries
      /\ taker \in TakerState /\ stage = Clear /\ taker.filled = {}
    BY CallsCounted
       DEF ClaimPlaces, Is, People, TakeoverInv, StageFits, TakerTyped, Pc, PlacesFit
<1>2. CASE End
  <2>1. hold' \in {"absent", "active", "busy"}
      BY <1>1, <1>2 DEF ClaimPlaces, End, On, Before, Resting, TakeoverInv, TakerTyped
  <2> QED BY <1>1, <1>2, <2>1, EndKeeps
<1>3. ASSUME NEW ph \in {"list", "setaside", "copy", "fill"}, NEW S \in SUBSET Spots, On(ph, S),
             Elsewhere, hold' = "busy",
             ph = "list" => Takes,
             ph = "setaside" => taker.kind = "uninstall",
             ph = "copy" => taker.kind = "restore" /\ S = Taken,
             ph = "fill" => taker.kind \in {"install", "takeover"} /\ ~Takes
      PROVE  TakeoverInv'
  <2>1. /\ taker' \in TakerState /\ SameJob /\ (Takes' <=> Takes) /\ Taken' = Taken
        /\ taker'.pc = ph /\ taker'.left = S /\ taker'.filled = {} /\ taker'.stuck = taker.stuck
      BY <1>1, <1>3, OnSets DEF TakerPCs
  <2>2. TakerTyped' /\ Covered'
      BY <1>1, <1>3, <2>1, ElsewhereTyped, ElsewhereCovered DEF TakeoverInv, Elsewhere
  <2>3. KindFits'
      BY <1>1, <1>3, <2>1 DEF TakeoverInv, KindFits, Pc, SameJob
  <2>4. StageFits'
      BY <1>1, <1>3, <2>1 DEF TakeoverInv, StageFits, Pc, Elsewhere, Clear, Bare
  <2>5. DeedFits'
      BY <1>1, <1>3, <2>1 DEF TakeoverInv, DeedFits, Pc, Elsewhere, SameJob
  <2>6. PlacesFit'
      BY <1>1, <1>3, <2>1 DEF TakeoverInv, PlacesFit, Pc, Elsewhere, SameJob
  <2>7. RestoreFits'
      BY <1>1, <1>3, <2>1 DEF RestoreFits, Pc, SameJob
  <2>8. TakenFits'
      BY <1>1, <1>3, <2>1 DEF TakeoverInv, TakenFits, Pc, Elsewhere, SameJob
  <2>9. BackedUp'
      BY <1>1, <1>3, <2>1 DEF TakeoverInv, BackedUp, Pc, Elsewhere, SameJob
  <2> QED
      BY <2>2, <2>3, <2>4, <2>5, <2>6, <2>7, <2>8, <2>9 DEF TakeoverInv
<1>4. CASE ~End
  <2>1. /\ hold' = "busy" /\ Elsewhere
        /\ CASE Takes -> On("list", {})
             [] taker.kind = "uninstall" -> On("setaside", Spots)
             [] taker.kind = "restore"   -> On("copy", Taken)
             [] OTHER                    -> On("fill", Spots)
      BY <1>4 DEF ClaimPlaces, Elsewhere, People
  <2>2. taker.kind \in {"install", "takeover", "uninstall", "restore"} /\ Taken \in SUBSET Spots
      BY <1>1 DEF TakeoverInv, KindFits, Pc, TakerState, Taken, Filled
  <2>3. CASE Takes
      BY <1>3, <2>1, <2>3 DEF Takes
  <2>4. CASE taker.kind = "uninstall"
      BY <1>3, <2>1, <2>4 DEF Takes
  <2>5. CASE taker.kind = "restore"
      BY <1>3, <2>1, <2>2, <2>5 DEF Takes
  <2>6. CASE ~Takes /\ taker.kind \in {"install", "takeover"}
      BY <1>3, <2>1, <2>6
  <2> QED BY <2>2, <2>3, <2>4, <2>5, <2>6
<1> QED BY <1>2, <1>4

\* An error that leaves everything as it is.
LEMMA PlainErrorKeeps ==
    ASSUME TakeoverInv, Breaks \/ Holds, Elsewhere, UNCHANGED <<hold, tries>>,
           Errs(taker.filled, stage),
           taker.pc \in {"list", "capture", "publish", "fill", "record", "activate",
                         "setaside", "swap", "drop", "forget"}
    PROVE  TakeoverInv'
<1>1. taker \in TakerState /\ taker.filled \in SUBSET Spots
    BY DEF TakeoverInv, TakerTyped, TakerState
<1>2. /\ taker' \in TakerState /\ SameJob /\ (Takes' <=> Takes) /\ Taken' = Taken
      /\ taker'.pc = WayBackFrom(taker.pc)
      /\ taker'.left = ToUndo(taker'.pc, taker.filled, stage)
      /\ taker'.filled = taker.filled /\ taker'.stuck = taker.stuck
    BY <1>1, ErrsSets
<1>3. TakerTyped' /\ Covered'
    BY <1>2, CallsCounted, ElsewhereTyped, ElsewhereCovered DEF TakeoverInv, Elsewhere, TakerTyped
<1>4. /\ taker.pc \in {"fill", "record", "activate"} => taker'.pc = "unfill"
      /\ taker.pc \in {"capture", "publish"} => taker'.pc = "giveback"
      /\ taker.pc = "list" => taker'.pc = "yield"
      /\ taker.pc = "setaside" => taker'.pc = "putback"
      /\ taker.pc = "swap" => taker'.pc = "unswap"
      /\ taker.pc \in {"drop", "forget"} =>
           taker'.pc = IF taker.kind = "restore" THEN "unswap" ELSE "putback"
    BY <1>2 DEF WayBackFrom
<1>5. /\ taker'.pc = "unfill" => taker'.left = taker.filled
      /\ taker'.pc = "giveback" => taker'.left = Filled(stage.capture)
      /\ taker'.pc = "unswap" => taker'.left = taker.filled \cup Filled(stage.dva)
    BY <1>2 DEF ToUndo
<1> HIDE DEF WayBackFrom
<1>6. KindFits'
    BY <1>2, <1>4 DEF TakeoverInv, KindFits, Pc, SameJob, Takes
<1>7. StageFits'
    BY <1>2, <1>4 DEF TakeoverInv, StageFits, Pc, Elsewhere
<1>8. DeedFits'
    BY <1>2, <1>4 DEF TakeoverInv, DeedFits, Pc, Elsewhere, SameJob
<1>9. PlacesFit'
    BY <1>2, <1>4, <1>5 DEF TakeoverInv, PlacesFit, Pc, Elsewhere, SameJob
<1>10. RestoreFits'
    BY <1>2, <1>4, <1>5 DEF TakeoverInv, RestoreFits, KindFits, Pc, Elsewhere, SameJob
<1>11. TakenFits'
    BY <1>2, <1>4, <1>5 DEF TakeoverInv, TakenFits, Pc, Elsewhere, SameJob
<1>12. BackedUp'
    BY <1>2, <1>4 DEF TakeoverInv, BackedUp, Pc, Elsewhere, SameJob
<1> QED
    BY <1>3, <1>6, <1>7, <1>8, <1>9, <1>10, <1>11, <1>12 DEF TakeoverInv

LEMMA SettleKeeps ==
    ASSUME TakeoverInv, SettleClaims
    PROVE  TakeoverInv'
<1>1. /\ taker.pc \in {"activate", "drop"} /\ Elsewhere /\ UNCHANGED tries
      /\ breaks' \in 0..MaxBreaks /\ tries' \in 0..MaxTries /\ taker \in TakerState
    BY CallsCounted DEF SettleClaims, Elsewhere, People, TakeoverInv, TakerTyped
<1>2. CASE Breaks /\ Errs(taker.filled, stage) /\ UNCHANGED hold
    BY <1>1, <1>2, PlainErrorKeeps
<1>3. ASSUME NEW ph \in {"tidy", "forget"}, On(ph, {}), hold' \in {"absent", "active"},
             (taker.pc = "activate") <=> (ph = "tidy")
      PROVE  TakeoverInv'
  <2>1. /\ taker' \in TakerState /\ SameJob /\ (Takes' <=> Takes) /\ Taken' = Taken
        /\ taker'.pc = ph /\ taker'.left = {} /\ taker'.filled = taker.filled
        /\ taker'.stuck = taker.stuck
      BY <1>1, <1>3, OnSets DEF TakerPCs
  <2>2. TakerTyped' /\ Covered'
      BY <1>1, <1>3, <2>1, ElsewhereTyped, ElsewhereCovered DEF TakeoverInv, Elsewhere
  <2>3. KindFits' /\ StageFits' /\ DeedFits'
      BY <1>1, <1>3, <2>1 DEF TakeoverInv, KindFits, StageFits, DeedFits, Pc, SameJob, Elsewhere
  <2>4. PlacesFit' /\ RestoreFits' /\ TakenFits' /\ BackedUp'
      BY <1>1, <1>3, <2>1 DEF TakeoverInv, KindFits, PlacesFit, RestoreFits, TakenFits, BackedUp, Pc,
                              SameJob, Elsewhere
  <2> QED BY <2>2, <2>3, <2>4 DEF TakeoverInv
<1> QED BY <1>1, <1>2, <1>3 DEF SettleClaims, Is

LEMMA YieldKeeps ==
    ASSUME TakeoverInv, YieldClaims
    PROVE  TakeoverInv'
BY EndKeeps, CallsCounted DEF YieldClaims, TakeoverInv, TakerTyped, Before, People

LEMMA DiesKeeps ==
    ASSUME TakeoverInv, Dies
    PROVE  TakeoverInv'
BY EndKeeps, CallsCounted DEF Dies, TakeoverInv, TakerTyped, People

-----------------------------------------------------------------------------
(* Installation *)

LEMMA ListForeignKeeps ==
    ASSUME TakeoverInv, ListForeign
    PROVE  TakeoverInv'
<1>1. /\ taker.pc = "list" /\ Elsewhere /\ UNCHANGED <<hold, tries>>
      /\ breaks' \in 0..MaxBreaks /\ taker \in TakerState /\ stage = Clear /\ taker.filled = {} /\ Takes
      /\ taker.takes = Bare
    BY CallsCounted DEF ListForeign, Is, Elsewhere, People, TakeoverInv, StageFits, TakerTyped, Pc, KindFits,
                        PlacesFit, DeedFits
<1>2. CASE Breaks /\ Errs({}, stage)
    BY <1>1, <1>2, PlainErrorKeeps
<1>3. ASSUME NEW ph \in {"fill", "capture"}, NEW S \in SUBSET Spots, On(ph, S)
      PROVE  TakeoverInv'
  <2>1. /\ taker' \in TakerState /\ SameJob /\ Takes' /\ Taken' = Taken
        /\ taker'.pc = ph /\ taker'.left = S /\ taker'.filled = {}
      BY <1>1, <1>3, OnSets DEF TakerPCs
  <2>2. TakerTyped' /\ Covered'
      BY <1>1, <1>3, <2>1, ElsewhereTyped, ElsewhereCovered DEF TakeoverInv, Elsewhere, TakerTyped
  <2>3. KindFits' /\ DeedFits' /\ PlacesFit' /\ RestoreFits'
      BY <1>1, <1>3, <2>1
         DEF TakeoverInv, KindFits, DeedFits, PlacesFit, RestoreFits, Pc, SameJob, Elsewhere, Takes
  <2>4. stage.capture = Bare /\ Taken = {}
      BY <1>1 DEF Clear, Taken, Filled, Bare
  <2>5. StageFits' /\ TakenFits' /\ BackedUp'
      BY <1>1, <1>3, <2>1, <2>4
         DEF TakeoverInv, StageFits, TakenFits, BackedUp, Pc, SameJob, Elsewhere, Takes, Bare
  <2> QED BY <2>2, <2>3, <2>5 DEF TakeoverInv
<1>4. Filled(place) \in SUBSET Spots
    BY DEF Filled
<1> QED BY <1>1, <1>2, <1>3, <1>4 DEF ListForeign

LEMMA CaptureKeeps ==
    ASSUME TakeoverInv, Capture
    PROVE  TakeoverInv'
<1>1. /\ taker.pc = "capture" /\ UNCHANGED <<backup, deed, hold, kept, wrote, spoilt, tries>>
      /\ breaks' \in 0..MaxBreaks /\ taker \in TakerState /\ taker.filled = {} /\ Takes
      /\ taker.takes = Bare /\ Taken = {} /\ stage \in StageState /\ place \in Trees
    BY CallsCounted DEF Capture, Is, People, TakeoverInv, TakerTyped, Pc, KindFits, PlacesFit, DeedFits,
                        Taken, Filled, Bare
<1>2. CASE Breaks /\ Errs({}, stage) /\ UNCHANGED <<place, stage>>
    BY <1>1, <1>2, PlainErrorKeeps DEF Elsewhere
<1>3. ASSUME NEW s \in taker.left,
             stage' = [stage EXCEPT !.capture[s] = place[s]],
             place' = [place EXCEPT ![s] = Empty],
             IF taker.left = {s} THEN On("publish", {}) ELSE Done(s)
      PROVE  TakeoverInv'
  <2>1. s \in Spots /\ stage.capture[s] = Empty
      BY <1>1 DEF TakerState, TakeoverInv, StageFits, Pc
  <2>2. /\ taker' \in TakerState /\ SameJob /\ Takes' /\ Taken' = {}
        /\ taker'.pc \in {"capture", "publish"} /\ taker'.left = taker.left \ {s}
        /\ taker'.filled = {}
    <3>1. CASE taker.left = {s}
        BY <1>1, <1>3, <3>1, OnSets DEF TakerPCs
    <3>2. CASE taker.left # {s}
        BY <1>1, <1>3, <3>2, DoneSets
    <3> QED BY <3>1, <3>2
  <2>3. /\ stage' \in StageState /\ place' \in Trees
        /\ place'[s] = Empty /\ stage'.capture[s] = place[s] /\ stage'.dva = stage.dva
        /\ \A t \in Spots \ {s} : place'[t] = place[t] /\ stage'.capture[t] = stage.capture[t]
      BY <1>1, <1>3, <2>1 DEF StageState, Trees, About
  <2>4. TakerTyped'
      BY <1>1, <2>2, <2>3 DEF TakeoverInv, TakerTyped, Trees, About, StageState, TakerState, Deeds
  <2>5. KindFits' /\ DeedFits' /\ PlacesFit' /\ RestoreFits'
      BY <1>1, <2>2 DEF TakeoverInv, KindFits, DeedFits, PlacesFit, RestoreFits, Pc, SameJob, Takes
  <2>6. StageFits'
      BY <1>1, <2>2, <2>3 DEF TakeoverInv, TakerState, StageFits, Pc
  <2>7. TakenFits' /\ BackedUp'
      BY <1>1, <2>2 DEF TakenFits, BackedUp, Pc, SameJob, Takes
  <2>8. Covered'
    <3> SUFFICES ASSUME NEW x \in wrote \ spoilt PROVE Accounted(x)'
        BY <1>1 DEF Covered
    <3>1. Accounted(x) /\ x # Empty
        BY TakeoverAssumption DEF TakeoverInv, Covered, TakerTyped
    <3> QED BY <1>1, <2>1, <2>3, <3>1 DEF Accounted
  <2> QED BY <2>4, <2>5, <2>6, <2>7, <2>8 DEF TakeoverInv
<1> QED BY <1>1, <1>2, <1>3 DEF Capture

LEMMA PublishKeeps ==
    ASSUME TakeoverInv, Publish
    PROVE  TakeoverInv'
<1>1. /\ taker.pc = "publish" /\ UNCHANGED <<place, stage, deed, hold, wrote, spoilt, tries>>
      /\ taker \in TakerState /\ taker.filled = {} /\ Takes
      /\ taker.takes = Bare /\ stage \in StageState /\ backup \in Trees
      /\ deed.takes = Bare
    BY DEF Publish, Is, People, TakeoverInv, TakerTyped, Pc, KindFits, PlacesFit, DeedFits
<1>2. CASE Breaks /\ Errs({}, stage) /\ UNCHANGED <<backup, kept>>
    BY <1>1, <1>2, PlainErrorKeeps DEF Elsewhere
<1>3. ASSUME NEW ph \in {"fill", "giveback"}, NEW S \in SUBSET Spots, NEW cause \in TakerPCs \cup {"none"},
             backup' = stage.capture, kept' = kept \cup Within(backup), breaks' \in 0..MaxBreaks,
             taker' = [taker EXCEPT !.pc = ph, !.left = S, !.why = cause, !.takes = stage.capture],
             ph = "giveback" => S = Filled(stage.capture)
      PROVE  TakeoverInv'
  <2>1. stage.capture \in Trees /\ stage.capture \in [Spots -> Contents]
      BY <1>1 DEF StageState, Trees, About, Contents, TakeoverInv, TakerTyped
  <2>2. /\ taker' \in TakerState /\ Takes'
        /\ taker'.kind = taker.kind /\ taker'.base = taker.base /\ taker'.takes = stage.capture
        /\ taker'.pc = ph /\ taker'.left = S /\ taker'.filled = {}
      BY <1>1, <1>3, <2>1 DEF TakerState, TakerPCs, Takes
  <2>3. kept' \subseteq Contents
      BY <1>1, <1>3 DEF TakeoverInv, TakerTyped, Within, Trees, About, Contents
  <2>4. TakerTyped'
      BY <1>1, <1>3, <2>1, <2>2, <2>3 DEF TakeoverInv, TakerTyped, Trees, About, StageState, TakerState, Deeds
  <2>5. KindFits' /\ DeedFits' /\ PlacesFit' /\ RestoreFits'
      BY <1>1, <1>3, <2>2 DEF TakeoverInv, KindFits, DeedFits, PlacesFit, RestoreFits, Pc, Takes
  <2>6. StageFits' /\ TakenFits' /\ BackedUp'
      BY <1>1, <1>3, <2>2 DEF TakeoverInv, StageFits, TakenFits, BackedUp, Pc, Takes
  <2>7. Covered'
    <3> SUFFICES ASSUME NEW x \in wrote \ spoilt PROVE Accounted(x)'
        BY <1>1 DEF Covered
    <3>1. Accounted(x) /\ x # Empty
        BY TakeoverAssumption DEF TakeoverInv, Covered, TakerTyped
    <3> QED BY <1>1, <1>3, <3>1 DEF Accounted, Bare
  <2> QED BY <2>4, <2>5, <2>6, <2>7 DEF TakeoverInv
<1>4. breaks' \in 0..MaxBreaks
    BY CallsCounted DEF Publish, TakeoverInv
<1>5. CASE backup' = stage.capture /\ kept' = kept \cup Within(backup)
    <2>1. CASE taker' = [taker EXCEPT !.pc = "fill", !.left = Spots, !.takes = stage.capture]
      <3>1. taker' = [taker EXCEPT !.pc = "fill", !.left = Spots, !.why = taker.why, !.takes = stage.capture]
            /\ taker.why \in TakerPCs \cup {"none"}
          BY <1>1, <2>1 DEF TakerState
      <3> QED BY <1>3, <1>4, <1>5, <3>1
    <2>2. CASE taker' = [taker EXCEPT !.pc = "giveback", !.why = "publish",
                                      !.left = Filled(stage.capture), !.takes = stage.capture]
      <3>1. taker' = [taker EXCEPT !.pc = "giveback", !.left = Filled(stage.capture), !.why = "publish",
                                   !.takes = stage.capture]
            /\ Filled(stage.capture) \in SUBSET Spots /\ "publish" \in TakerPCs \cup {"none"}
          BY <1>1, <2>2 DEF TakerState, Filled, TakerPCs
      <3> QED BY <1>3, <1>4, <1>5, <3>1
    <2>3. CASE Errs({}, stage) /\ UNCHANGED <<backup, kept>> /\ Breaks
        BY <1>2, <2>3
    <2> QED BY <1>2, <1>5, <2>1, <2>2 DEF Publish
<1> QED BY <1>2, <1>5 DEF Publish

LEMMA FillKeeps ==
    ASSUME TakeoverInv, Fill
    PROVE  TakeoverInv'
<1>1. /\ taker.pc = "fill" /\ UNCHANGED <<stage, backup, deed, hold, kept, wrote, spoilt, tries>>
      /\ breaks' \in 0..MaxBreaks /\ taker \in TakerState /\ taker.kind \in {"install", "takeover"}
      /\ place \in Trees
    BY CallsCounted DEF Fill, Is, People, TakeoverInv, TakerTyped, Pc, KindFits
<1>2. PICK s \in taker.left :
        LET filled == taker.filled \cup {s} IN
            \/ /\ place[s] # Empty
               /\ Errs(taker.filled, stage) /\ Holds /\ UNCHANGED place
            \/ /\ place[s] = Empty /\ place' = [place EXCEPT ![s] = Ours]
               /\ \/ Holds /\ taker' = [taker EXCEPT !.filled = filled, !.left = @ \ {s},
                                            !.pc = IF taker.left = {s} THEN "record" ELSE @]
                  \/ taker.left = {s} /\ Breaks /\ Errs(filled, stage)
            \/ place[s] = Empty /\ Breaks /\ Errs(filled, stage) /\ UNCHANGED place
    BY DEF Fill
<1> DEFINE filled == taker.filled \cup {s}
<1>3. s \in Spots /\ filled \in SUBSET Spots
    BY <1>1 DEF TakerState
<1>4. CASE Errs(taker.filled, stage) /\ Holds /\ UNCHANGED place
    BY <1>1, <1>4, PlainErrorKeeps DEF Elsewhere
<1>5. ASSUME place[s] = Empty,
             place' = [place EXCEPT ![s] = Ours] \/ (place' = place /\ taker'.pc = "unfill"),
             taker' \in TakerState, SameJob, Takes' <=> Takes, Taken' = Taken,
             taker'.filled = filled,
             taker'.pc \in {"fill", "record", "unfill"},
             taker'.pc = "unfill" => taker'.left = filled
      PROVE  TakeoverInv'
  <2>1. /\ place' \in Trees /\ place'[s] \in {Ours, Empty}
        /\ taker'.pc # "unfill" => place'[s] = Ours
        /\ \A t \in Spots \ {s} : place'[t] = place[t]
      BY <1>1, <1>3, <1>5 DEF Trees, About
  <2>2. TakerTyped'
      BY <1>1, <1>5, <2>1 DEF TakeoverInv, TakerTyped, Trees, About, StageState, TakerState, Deeds
  <2>3. KindFits' /\ StageFits' /\ DeedFits'
      BY <1>1, <1>5 DEF TakeoverInv, KindFits, StageFits, DeedFits, Pc, SameJob
  <2>4. PlacesFit'
      BY <1>1, <1>3, <1>5, <2>1 DEF TakeoverInv, PlacesFit, Pc, SameJob, TakerState
  <2>5. RestoreFits' /\ BackedUp'
      BY <1>1, <1>5 DEF TakeoverInv, RestoreFits, BackedUp, Pc, SameJob
  <2>6. TakenFits'
      BY <1>1, <1>5, <2>1 DEF TakeoverInv, TakenFits, Pc, SameJob
  <2>7. Covered'
    <3> SUFFICES ASSUME NEW x \in wrote \ spoilt PROVE Accounted(x)'
        BY <1>1 DEF Covered
    <3>1. Accounted(x) /\ x # Empty
        BY TakeoverAssumption DEF TakeoverInv, Covered, TakerTyped
    <3> QED BY <1>1, <1>3, <1>5, <2>1, <3>1 DEF Accounted
  <2> QED BY <2>2, <2>3, <2>4, <2>5, <2>6, <2>7 DEF TakeoverInv
<1>6. CASE Errs(filled, stage) /\ place[s] = Empty
  <2>1. /\ taker' \in TakerState /\ SameJob /\ (Takes' <=> Takes) /\ Taken' = Taken
        /\ taker'.pc = "unfill" /\ taker'.left = filled /\ taker'.filled = filled
      BY <1>1, <1>3, <1>6, ErrsSets DEF WayBackFrom, ToUndo
  <2> QED BY <1>2, <1>5, <1>6, <2>1, <1>4
<1>7. CASE /\ place[s] = Empty /\ place' = [place EXCEPT ![s] = Ours]
           /\ taker' = [taker EXCEPT !.filled = filled, !.left = @ \ {s},
                                     !.pc = IF taker.left = {s} THEN "record" ELSE @]
  <2>1. /\ taker' \in TakerState /\ SameJob /\ taker'.filled = filled
        /\ taker'.pc \in {"fill", "record"}
      BY <1>1, <1>3, <1>7 DEF TakerState, TakerPCs, SameJob
  <2> QED BY <1>5, <1>7, <2>1, JobStays
<1> QED BY <1>2, <1>4, <1>6, <1>7

LEMMA RecordKeeps ==
    ASSUME TakeoverInv, RecordTakeover
    PROVE  TakeoverInv'
<1> DEFINE new == [is |-> "active", takes |-> taker.takes]
<1>1. /\ taker.pc = "record" /\ UNCHANGED <<place, stage, backup, hold, kept, wrote, spoilt, tries>>
      /\ breaks' \in 0..MaxBreaks /\ taker \in TakerState /\ taker.filled \in SUBSET Spots
      /\ deed \in Deeds /\ taker.kind \in {"install", "takeover"}
    BY CallsCounted DEF RecordTakeover, Is, People, TakeoverInv, TakerTyped, TakerState, Pc, KindFits
<1>2. /\ deed' \in {new, deed}
      /\ (Holds /\ deed' = new /\ On("activate", {})) \/ (Breaks /\ Errs(taker.filled, stage))
    BY DEF RecordTakeover
<1>3. /\ taker' \in TakerState /\ SameJob /\ (Takes' <=> Takes) /\ Taken' = Taken
      /\ taker'.pc \in {"activate", "unfill"} /\ taker'.filled = taker.filled
      /\ taker'.pc = "activate" => deed' = new
      /\ taker'.pc = "unfill" => taker'.left = taker.filled
  <2>1. CASE On("activate", {}) /\ deed' = new
      BY <1>1, <2>1, OnSets DEF TakerPCs
  <2>2. CASE Errs(taker.filled, stage)
      BY <1>1, <2>2, ErrsSets DEF WayBackFrom, ToUndo
  <2> QED BY <1>2, <2>1, <2>2
<1>4. /\ deed' \in Deeds /\ deed'.takes \in {deed.takes, taker.takes}
      /\ deed'.is = "none" => deed' = deed /\ new.takes = taker.takes
      /\ deed' = new => deed'.takes = taker.takes
    BY <1>1, <1>2 DEF Deeds, TakerState
<1> HIDE DEF new
<1>5. TakerTyped'
    BY <1>1, <1>3, <1>4 DEF TakeoverInv, TakerTyped, Trees, About, StageState, TakerState, Deeds
<1>6. KindFits' /\ StageFits'
    BY <1>1, <1>3 DEF TakeoverInv, KindFits, StageFits, Pc, SameJob
<1>7. DeedFits'
    BY <1>1, <1>3, <1>4 DEF TakeoverInv, DeedFits, Pc, SameJob
<1>8. PlacesFit' /\ RestoreFits' /\ TakenFits' /\ BackedUp'
    BY <1>1, <1>3 DEF TakeoverInv, PlacesFit, RestoreFits, TakenFits, BackedUp, Pc, SameJob
<1>9. Covered'
  <2> SUFFICES ASSUME NEW x \in wrote \ spoilt PROVE Accounted(x)'
      BY <1>1 DEF Covered
  <2>1. Accounted(x) /\ x # Empty
      BY TakeoverAssumption DEF TakeoverInv, Covered, TakerTyped
  <2>2. deed.takes = Bare \/ deed.takes = taker.takes
      BY <1>1 DEF TakeoverInv, DeedFits, Pc
  <2> QED BY <1>1, <1>4, <2>1, <2>2 DEF Accounted, Bare
<1> QED BY <1>5, <1>6, <1>7, <1>8, <1>9 DEF TakeoverInv

LEMMA TidyKeeps ==
    ASSUME TakeoverInv, Tidy
    PROVE  TakeoverInv'
<1>1. /\ taker.pc = "tidy" /\ taker' = Resting /\ stage' = Clear
      /\ UNCHANGED <<place, backup, deed, hold, wrote, spoilt, tries>>
      /\ kept' = kept \/ kept' = kept \cup InStage
      /\ breaks' \in 0..MaxBreaks /\ deed.takes = taker.takes
    BY CallsCounted DEF Tidy, Is, People, TakeoverInv, DeedFits, Pc
<1>2. CASE kept' = kept \cup InStage
    BY <1>1, <1>2, EndKeeps DEF End, TakeoverInv, TakerTyped
<1>3. CASE kept' = kept
  <2>1. /\ taker'.pc = "idle" /\ taker'.kind = "none" /\ taker'.base = NoDeed /\ ~Takes'
        /\ taker' \in TakerState
      BY <1>1, BareTyped DEF Resting, Takes
  <2>2. TakerTyped'
      BY <1>1, <1>3, <2>1, BareTyped DEF TakeoverInv, TakerTyped, Trees, About, StageState, TakerState, Deeds
  <2>3. KindFits' /\ StageFits' /\ DeedFits'
      BY <1>1, <2>1 DEF TakeoverInv, KindFits, StageFits, DeedFits, Pc, Clear, Bare, NoDeed
  <2>4. PlacesFit' /\ RestoreFits' /\ TakenFits' /\ BackedUp'
      BY <2>1 DEF PlacesFit, RestoreFits, TakenFits, BackedUp, Pc
  <2>5. Covered'
    <3> SUFFICES ASSUME NEW x \in wrote \ spoilt PROVE Accounted(x)'
        BY <1>1 DEF Covered
    <3>1. Accounted(x) /\ x # Empty
        BY TakeoverAssumption DEF TakeoverInv, Covered, TakerTyped
    <3>2. ASSUME NEW s \in Spots, x = stage.capture[s]
          PROVE  \E t \in Spots : x = backup[t] /\ x = deed.takes[t]
      <4>1. Takes /\ stage.capture = taker.takes
          BY <1>1, <3>1, <3>2 DEF TakeoverInv, StageFits, TakenFits, Pc, Bare
      <4>2. s \in Taken
          BY <3>1, <3>2, <4>1 DEF Taken, Filled
      <4> QED BY <1>1, <3>2, <4>1, <4>2 DEF TakeoverInv, BackedUp, Pc
    <3> QED BY <1>1, <1>3, <3>1, <3>2 DEF Accounted
  <2> QED BY <2>2, <2>3, <2>4, <2>5 DEF TakeoverInv
<1> QED BY <1>1, <1>2, <1>3

-----------------------------------------------------------------------------
(* ... and its way back *)

LEMMA UnfillKeeps ==
    ASSUME TakeoverInv, Unfill
    PROVE  TakeoverInv'
<1>1. /\ taker.pc = "unfill" /\ UNCHANGED <<stage, backup, deed, hold, kept, wrote, spoilt, tries>>
      /\ taker \in TakerState /\ taker.kind \in {"install", "takeover"} /\ place \in Trees
    BY DEF Unfill, Is, People, TakeoverInv, TakerTyped, Pc, KindFits
<1>2. CASE taker.left # {}
  <2>1. PICK s \in taker.left :
           \/ Holds /\ place' = [place EXCEPT ![s] = Empty] /\ Done(s)
           \/ Breaks /\ UNCHANGED place /\ taker' = [taker EXCEPT !.left = @ \ {s}, !.stuck = TRUE]
      BY <1>2 DEF Unfill
  <2>2. s \in Spots /\ place[s] \in {Ours, Empty}
      BY <1>1 DEF TakerState, TakeoverInv, PlacesFit, Pc
  <2>3. /\ taker' \in TakerState /\ SameJob /\ (Takes' <=> Takes) /\ Taken' = Taken
        /\ taker'.pc = "unfill" /\ taker'.left = taker.left \ {s} /\ taker'.filled = taker.filled
    <3>1. CASE taker' = [taker EXCEPT !.left = @ \ {s}, !.stuck = TRUE]
      <4>1. /\ taker' \in TakerState /\ SameJob
            /\ taker'.pc = "unfill" /\ taker'.left = taker.left \ {s} /\ taker'.filled = taker.filled
          BY <1>1, <3>1 DEF TakerState, SameJob
        <4> QED BY <4>1, JobStays
    <3>2. CASE Done(s)
        BY <1>1, <3>2, DoneSets
    <3> QED BY <2>1, <3>1, <3>2
  <2>4. /\ place' \in Trees /\ place'[s] \in {place[s], Empty}
        /\ \A t \in Spots \ {s} : place'[t] = place[t]
      BY <1>1, <2>1, <2>2 DEF Trees, About
  <2>5. breaks' \in 0..MaxBreaks
      BY <2>1, CallsCounted DEF TakeoverInv
  <2>6. TakerTyped'
      BY <1>1, <2>3, <2>4, <2>5 DEF TakeoverInv, TakerTyped, Trees, About, StageState, TakerState, Deeds
  <2>7. KindFits' /\ StageFits' /\ DeedFits' /\ RestoreFits' /\ BackedUp'
      BY <1>1, <2>3 DEF TakeoverInv, KindFits, StageFits, DeedFits, RestoreFits, BackedUp, Pc, SameJob
  <2>8. PlacesFit'
      BY <1>1, <2>2, <2>3, <2>4 DEF TakeoverInv, PlacesFit, Pc, SameJob, TakerState
  <2>9. TakenFits'
      BY <1>1, <2>3 DEF TakeoverInv, TakenFits, Pc, SameJob
  <2>10. Covered'
    <3> SUFFICES ASSUME NEW x \in wrote \ spoilt PROVE Accounted(x)'
        BY <1>1 DEF Covered
    <3>1. Accounted(x) /\ x # Empty /\ x # Ours
        BY TakeoverAssumption DEF TakeoverInv, Covered, TakerTyped
    <3> QED BY <1>1, <2>2, <2>4, <3>1 DEF Accounted
  <2> QED BY <2>6, <2>7, <2>8, <2>9, <2>10 DEF TakeoverInv
<1>3. CASE taker.left = {}
  <2>1. /\ Elsewhere /\ UNCHANGED <<hold, tries>>
        /\ Holds \/ Breaks
        /\ \/ On("unrecord", {})
           \/ taker' = [taker EXCEPT !.pc = "giveback", !.left = Filled(stage.capture), !.stuck = FALSE]
      BY <1>1, <1>3 DEF Unfill, Elsewhere
  <2>2. /\ taker' \in TakerState /\ SameJob /\ (Takes' <=> Takes) /\ Taken' = Taken
        /\ taker'.pc \in {"unrecord", "giveback"} /\ taker'.filled = taker.filled
        /\ taker'.pc = "giveback" => taker'.left = Filled(stage.capture)
    <3>1. CASE taker' = [taker EXCEPT !.pc = "giveback", !.left = Filled(stage.capture), !.stuck = FALSE]
      <4>0. Filled(stage.capture) \in SUBSET Spots
          BY DEF Filled
      <4>1. /\ taker' \in TakerState /\ SameJob
            /\ taker'.pc = "giveback" /\ taker'.left = Filled(stage.capture) /\ taker'.filled = taker.filled
          BY <1>1, <3>1, <4>0 DEF TakerState, SameJob, TakerPCs
        <4> QED BY <4>1, JobStays
    <3>2. CASE On("unrecord", {})
        BY <1>1, <3>2, OnSets DEF TakerPCs
    <3> QED BY <2>1, <3>1, <3>2
  <2>3. TakerTyped' /\ Covered'
      BY <2>1, <2>2, CallsCounted, ElsewhereTyped, ElsewhereCovered DEF TakeoverInv, TakerTyped, Elsewhere
  <2>4. KindFits' /\ StageFits' /\ DeedFits' /\ PlacesFit' /\ RestoreFits'
      BY <1>1, <2>1, <2>2
         DEF TakeoverInv, KindFits, StageFits, DeedFits, PlacesFit, RestoreFits, Pc, SameJob, Elsewhere
  <2>5. TakenFits' /\ BackedUp'
      BY <1>1, <2>1, <2>2 DEF TakeoverInv, TakenFits, BackedUp, Pc, SameJob, Elsewhere
  <2> QED BY <2>3, <2>4, <2>5 DEF TakeoverInv
<1> QED BY <1>2, <1>3

LEMMA GiveBackKeeps ==
    ASSUME TakeoverInv, GiveBack
    PROVE  TakeoverInv'
<1>1. /\ taker.pc = "giveback" /\ UNCHANGED <<backup, deed, hold, kept, wrote, spoilt, tries>>
      /\ taker \in TakerState /\ taker.kind \in {"install", "takeover"} /\ place \in Trees
      /\ stage \in StageState
    BY DEF GiveBack, Is, People, TakeoverInv, TakerTyped, Pc, KindFits
<1>2. breaks' \in 0..MaxBreaks
    BY CallsCounted DEF GiveBack, TakeoverInv
<1>3. ASSUME NEW s \in taker.left, place[s] = Empty, Done(s),
             place' = [place EXCEPT ![s] = stage.capture[s]],
             stage' = [stage EXCEPT !.capture[s] = Empty]
      PROVE  TakeoverInv'
  <2>1. s \in Spots
      BY <1>1 DEF TakerState
  <2>2. /\ taker' \in TakerState /\ SameJob /\ (Takes' <=> Takes) /\ Taken' = Taken
        /\ taker'.pc = "giveback" /\ taker'.left = taker.left \ {s} /\ taker'.filled = taker.filled
        /\ taker'.stuck = taker.stuck
      BY <1>1, <1>3, DoneSets
  <2>3. /\ place' \in Trees /\ stage' \in StageState /\ stage'.dva = stage.dva
        /\ place'[s] = stage.capture[s] /\ stage'.capture[s] = Empty
        /\ \A t \in Spots \ {s} : place'[t] = place[t] /\ stage'.capture[t] = stage.capture[t]
        /\ stage.capture = Bare => stage'.capture = Bare
      BY <1>1, <1>3, <2>1 DEF Trees, About, StageState, Bare
  <2>4. TakerTyped'
      BY <1>1, <1>2, <2>2, <2>3 DEF TakeoverInv, TakerTyped, Trees, About, StageState, TakerState, Deeds
  <2>5. KindFits' /\ StageFits' /\ DeedFits' /\ RestoreFits' /\ BackedUp' /\ PlacesFit'
      BY <1>1, <2>2, <2>3
         DEF TakeoverInv, KindFits, StageFits, DeedFits, RestoreFits, BackedUp, PlacesFit, Pc, SameJob
  <2>6. TakenFits'
    <3>1. ASSUME Takes, NEW t \in Taken PROVE taker.takes[t] \in {stage'.capture[t], place'[t]}
      <4>1. taker.takes[t] \in {stage.capture[t], place[t]} /\ taker.takes[t] # Empty /\ t \in Spots
          BY <3>1 DEF TakeoverInv, TakenFits, Taken, Filled
      <4> QED BY <1>3, <2>3, <4>1
    <3>2. ~taker.stuck => Filled(stage'.capture) \subseteq taker.left \ {s}
        BY <1>1, <2>3 DEF TakeoverInv, TakenFits, Pc, Filled
    <3> QED BY <2>2, <3>1, <3>2 DEF TakenFits, Pc, SameJob
  <2>7. Covered'
    <3> SUFFICES ASSUME NEW x \in wrote \ spoilt PROVE Accounted(x)'
        BY <1>1 DEF Covered
    <3>1. Accounted(x) /\ x # Empty
        BY TakeoverAssumption DEF TakeoverInv, Covered, TakerTyped
    <3> QED BY <1>1, <1>3, <2>1, <2>3, <3>1 DEF Accounted
  <2> QED BY <2>4, <2>5, <2>6, <2>7 DEF TakeoverInv
<1>4. ASSUME NEW s \in taker.left, UNCHANGED <<place, stage>>,
             taker' = [taker EXCEPT !.left = @ \ {s}, !.stuck = TRUE]
      PROVE  TakeoverInv'
  <2>1. /\ taker' \in TakerState /\ SameJob
        /\ taker'.pc = "giveback" /\ taker'.filled = taker.filled /\ taker'.stuck
      BY <1>1, <1>4 DEF TakerState, SameJob
  <2>2. (Takes' <=> Takes) /\ Taken' = Taken
      BY <2>1, JobStays
  <2>3. TakerTyped' /\ Covered'
      BY <1>1, <1>2, <1>4, <2>1, ElsewhereTyped, ElsewhereCovered DEF TakeoverInv, TakerTyped, Elsewhere
  <2>4. KindFits' /\ StageFits' /\ DeedFits' /\ PlacesFit' /\ RestoreFits' /\ TakenFits' /\ BackedUp'
      BY <1>1, <1>4, <2>1, <2>2
         DEF TakeoverInv, KindFits, StageFits, DeedFits, PlacesFit, RestoreFits, TakenFits, BackedUp, Pc, SameJob
  <2> QED BY <2>3, <2>4 DEF TakeoverInv
<1>5. CASE taker.left # {}
    BY <1>3, <1>4, <1>5 DEF GiveBack
<1>6. CASE taker.left = {}
  <2>1. /\ place' = place
        /\ \/ stage' = CaptureAfter /\ On(IF taker.stuck THEN "unrecord" ELSE "discard", {})
           \/ On("unrecord", {}) /\ UNCHANGED stage
      BY <1>6 DEF GiveBack
  <2>2. /\ taker' \in TakerState /\ SameJob /\ (Takes' <=> Takes) /\ Taken' = Taken
        /\ taker'.pc \in {"unrecord", "discard"} /\ taker'.filled = taker.filled
        /\ taker'.pc = "discard" => ~taker.stuck
    <3>1. taker.stuck \in BOOLEAN
        BY <1>1 DEF TakerState
    <3>2. CASE On("unrecord", {})
        BY <1>1, <3>2, OnSets DEF TakerPCs
    <3>3. CASE On("discard", {}) /\ ~taker.stuck
        BY <1>1, <3>3, OnSets DEF TakerPCs
    <3> QED BY <2>1, <3>1, <3>2, <3>3
  <2>3. ~taker.stuck => stage.capture = Bare
    <3>1. ~taker.stuck => \A t \in Spots : stage.capture[t] = Empty
        BY <1>1, <1>6 DEF TakeoverInv, TakenFits, Pc, Filled
    <3> QED BY <1>1, <3>1 DEF Bare, StageState, Trees
  <2>4. stage' = stage \/ (~taker.stuck /\ stage' = [stage EXCEPT !.capture = Bare])
      BY <1>1, <2>1 DEF CaptureAfter, TakerState
  <2>5. stage' = stage
      BY <1>1, <2>3, <2>4 DEF StageState
  <2>6. TakerTyped' /\ Covered'
      BY <1>1, <1>2, <2>1, <2>2, <2>5, ElsewhereTyped, ElsewhereCovered DEF TakeoverInv, TakerTyped, Elsewhere
  <2>7. KindFits' /\ StageFits' /\ DeedFits' /\ PlacesFit' /\ RestoreFits' /\ BackedUp'
      BY <1>1, <2>1, <2>2, <2>5
         DEF TakeoverInv, KindFits, StageFits, DeedFits, PlacesFit, RestoreFits, BackedUp, Pc, SameJob
  <2>8. TakenFits'
    <3>1. ASSUME Takes, ~taker.stuck, NEW t \in Taken PROVE place[t] = taker.takes[t]
        BY <2>3, <3>1 DEF TakeoverInv, TakenFits, Taken, Filled, Bare
    <3> QED BY <1>1, <2>1, <2>2, <2>5, <3>1 DEF TakeoverInv, TakenFits, Pc, SameJob
  <2> QED BY <2>6, <2>7, <2>8 DEF TakeoverInv
<1> QED BY <1>5, <1>6

LEMMA DiscardKeeps ==
    ASSUME TakeoverInv, DiscardBackup
    PROVE  TakeoverInv'
<1>1. /\ taker.pc = "discard" /\ UNCHANGED <<place, stage, deed, hold, kept, wrote, spoilt, tries>>
      /\ taker \in TakerState /\ taker.kind \in {"install", "takeover"}
      /\ breaks' \in 0..MaxBreaks
      /\ backup' = backup \/ (backup' = Bare /\ Takes)
      /\ On("unrecord", {})
    BY CallsCounted DEF DiscardBackup, Is, People, TakeoverInv, TakerTyped, Pc, KindFits
<1>2. /\ taker' \in TakerState /\ SameJob /\ (Takes' <=> Takes) /\ Taken' = Taken
      /\ taker'.pc = "unrecord" /\ taker'.filled = taker.filled
    BY <1>1, OnSets DEF TakerPCs
<1>3. TakerTyped'
    BY <1>1, <1>2, BareTyped DEF TakeoverInv, TakerTyped, Trees, About, StageState, TakerState, Deeds
<1>4. KindFits' /\ StageFits' /\ DeedFits' /\ PlacesFit' /\ RestoreFits' /\ TakenFits' /\ BackedUp'
    BY <1>1, <1>2
       DEF TakeoverInv, KindFits, StageFits, DeedFits, PlacesFit, RestoreFits, TakenFits, BackedUp, Pc, SameJob
<1>5. Covered'
  <2> SUFFICES ASSUME NEW x \in wrote \ spoilt PROVE Accounted(x)'
      BY <1>1 DEF Covered
  <2>1. Accounted(x) /\ x # Empty
      BY TakeoverAssumption DEF TakeoverInv, Covered, TakerTyped
  <2>2. ASSUME Takes, NEW s \in Spots, x = deed.takes[s] PROVE x = place[s]
    <3>1. deed.takes = taker.takes
        BY <2>1, <2>2 DEF TakeoverInv, DeedFits, Bare
    <3>2. s \in Taken
        BY <2>1, <2>2, <3>1 DEF Taken, Filled
    <3> QED BY <1>1, <2>2, <3>1, <3>2 DEF TakeoverInv, TakenFits, Pc
  <2> QED BY <1>1, <2>1, <2>2 DEF Accounted
<1> QED BY <1>3, <1>4, <1>5 DEF TakeoverInv

LEMMA UnrecordKeeps ==
    ASSUME TakeoverInv, Unrecord
    PROVE  TakeoverInv'
<1>1. /\ taker.pc = "unrecord" /\ UNCHANGED <<place, stage, backup, hold, kept, wrote, spoilt, tries>>
      /\ taker \in TakerState /\ taker.kind \in {"install", "takeover"}
      /\ breaks' \in 0..MaxBreaks
      /\ deed' \in {deed, taker.base}
      /\ On("yield", {})
    BY CallsCounted DEF Unrecord, Is, People, TakeoverInv, TakerTyped, Pc, KindFits
<1>2. /\ taker' \in TakerState /\ SameJob /\ (Takes' <=> Takes) /\ Taken' = Taken
      /\ taker'.pc = "yield" /\ taker'.filled = taker.filled
    BY <1>1, OnSets DEF TakerPCs
<1>3. TakerTyped'
    BY <1>1, <1>2 DEF TakeoverInv, TakerTyped, Trees, About, StageState, TakerState, Deeds
<1>4. KindFits' /\ StageFits' /\ PlacesFit' /\ RestoreFits' /\ TakenFits' /\ BackedUp'
    BY <1>1, <1>2
       DEF TakeoverInv, KindFits, StageFits, PlacesFit, RestoreFits, TakenFits, BackedUp, Pc, SameJob
<1>5. DeedFits'
    BY <1>1, <1>2 DEF TakeoverInv, DeedFits, Pc, SameJob, Takes
<1>6. Covered'
  <2> SUFFICES ASSUME NEW x \in wrote \ spoilt PROVE Accounted(x)'
      BY <1>1 DEF Covered
  <2>1. Accounted(x) /\ x # Empty
      BY TakeoverAssumption DEF TakeoverInv, Covered, TakerTyped
  <2>2. ASSUME Takes, NEW s \in Spots, x = deed.takes[s] PROVE x \in {place[s], stage.capture[s]}
    <3>1. deed.takes = taker.takes
        BY <2>1, <2>2 DEF TakeoverInv, DeedFits, Bare
    <3>2. s \in Taken
        BY <2>1, <2>2, <3>1 DEF Taken, Filled
    <3> QED BY <2>2, <3>1, <3>2 DEF TakeoverInv, TakenFits
  <2>3. ~Takes => deed'.takes = deed.takes
      BY <1>1 DEF TakeoverInv, DeedFits, Pc
  <2> QED BY <1>1, <2>1, <2>2, <2>3 DEF Accounted
<1> QED BY <1>3, <1>4, <1>5, <1>6 DEF TakeoverInv

-----------------------------------------------------------------------------
(* Removal *)

LEMMA SetAsideKeeps ==
    ASSUME TakeoverInv, SetAside
    PROVE  TakeoverInv'
<1>1. /\ taker.pc = "setaside" /\ UNCHANGED <<backup, deed, hold, kept, wrote, spoilt, tries>>
      /\ breaks' \in 0..MaxBreaks /\ taker \in TakerState /\ taker.filled = {}
      /\ taker.kind = "uninstall" /\ ~Takes /\ stage \in StageState /\ place \in Trees
    BY CallsCounted DEF SetAside, Is, People, TakeoverInv, TakerTyped, Pc, KindFits, PlacesFit, Takes
<1>2. PICK s \in taker.left :
        LET after == [stage EXCEPT !.dva[s] = place[s]] IN
            \/ /\ stage' = after /\ place' = [place EXCEPT ![s] = Empty]
               /\ \/ Holds /\ IF taker.left = {s} THEN On("drop", {}) ELSE Done(s)
                  \/ taker.left = {s} /\ Breaks /\ Errs({}, after)
            \/ Breaks /\ Errs({}, stage) /\ UNCHANGED <<place, stage>>
    BY DEF SetAside
<1> DEFINE after == [stage EXCEPT !.dva[s] = place[s]]
<1>3. s \in Spots /\ place[s] = Ours
    BY <1>1 DEF TakerState, TakeoverInv, PlacesFit, Pc
<1>4. CASE Breaks /\ Errs({}, stage) /\ UNCHANGED <<place, stage>>
    BY <1>1, <1>4, PlainErrorKeeps DEF Elsewhere
<1>5. CASE /\ stage' = after /\ place' = [place EXCEPT ![s] = Empty]
           /\ \/ Holds /\ IF taker.left = {s} THEN On("drop", {}) ELSE Done(s)
              \/ taker.left = {s} /\ Breaks /\ Errs({}, after)
  <2>1. /\ taker' \in TakerState /\ SameJob /\ ~Takes' /\ Taken' = Taken
        /\ taker'.pc \in {"setaside", "drop", "putback"} /\ taker'.filled = {}
        /\ taker'.pc = "setaside" => taker'.left = taker.left \ {s}
    <3>1. CASE On("drop", {})
        BY <1>1, <3>1, OnSets DEF TakerPCs
    <3>2. CASE Done(s)
        BY <1>1, <3>2, DoneSets
    <3>3. CASE Errs({}, after)
        BY <1>1, <3>3, ErrsSets DEF WayBackFrom
    <3> QED BY <1>5, <3>1, <3>2, <3>3
  <2>2. /\ place' \in Trees /\ stage' \in StageState /\ stage'.capture = stage.capture
        /\ stage'.dva[s] = Ours /\ place'[s] = Empty
        /\ \A t \in Spots \ {s} : place'[t] = place[t] /\ stage'.dva[t] = stage.dva[t]
      BY <1>1, <1>3, <1>5 DEF Trees, About, StageState
  <2>3. TakerTyped'
      BY <1>1, <2>1, <2>2 DEF TakeoverInv, TakerTyped, Trees, About, StageState, TakerState, Deeds
  <2>4. KindFits' /\ DeedFits' /\ RestoreFits' /\ TakenFits' /\ BackedUp'
      BY <1>1, <2>1 DEF TakeoverInv, KindFits, DeedFits, RestoreFits, TakenFits, BackedUp, Pc, SameJob
  <2>5. StageFits'
      BY <1>1, <1>3, <2>1, <2>2 DEF TakeoverInv, StageFits, Pc
  <2>6. PlacesFit'
      BY <1>1, <2>1, <2>2 DEF TakeoverInv, PlacesFit, Pc, SameJob, TakerState
  <2>7. Covered'
    <3> SUFFICES ASSUME NEW x \in wrote \ spoilt PROVE Accounted(x)'
        BY <1>1 DEF Covered
    <3>1. Accounted(x) /\ x # Empty /\ x # Ours
        BY TakeoverAssumption DEF TakeoverInv, Covered, TakerTyped
    <3> QED BY <1>1, <1>3, <2>2, <3>1 DEF Accounted
  <2> QED BY <2>3, <2>4, <2>5, <2>6, <2>7 DEF TakeoverInv
<1> QED BY <1>2, <1>4, <1>5

LEMMA PutBackKeeps ==
    ASSUME TakeoverInv, PutBack
    PROVE  TakeoverInv'
<1>1. /\ taker.pc = "putback" /\ UNCHANGED <<backup, deed, hold, kept, wrote, spoilt, tries>>
      /\ breaks' \in 0..MaxBreaks /\ taker \in TakerState
      /\ taker.kind = "uninstall" /\ ~Takes /\ stage \in StageState /\ place \in Trees
    BY CallsCounted DEF PutBack, Is, People, TakeoverInv, TakerTyped, Pc, KindFits, Takes
<1>2. /\ taker' \in TakerState /\ SameJob /\ ~Takes' /\ Taken' = Taken
      /\ taker'.pc \in {"putback", "yield"}
  <2>1. CASE On("yield", {})
      BY <1>1, <2>1, OnSets DEF TakerPCs
  <2>2. ASSUME NEW s \in taker.left, Done(s) PROVE <1>2!:
      BY <1>1, <2>2, DoneSets
  <2> QED BY <2>1, <2>2 DEF PutBack
<1>3. /\ place' \in Trees /\ stage' \in StageState /\ stage'.capture = stage.capture
      /\ \A t \in Spots : stage'.dva[t] \in {Ours, Empty} /\ (place[t] # Empty => place'[t] = place[t])
  <2>0. \A t \in Spots : stage.dva[t] \in {Ours, Empty}
      BY DEF TakeoverInv, StageFits
  <2>1. CASE UNCHANGED <<place, stage>>
      BY <1>1, <2>0, <2>1
  <2>2. ASSUME NEW s \in taker.left, place[s] = Empty, place' = [place EXCEPT ![s] = stage.dva[s]],
               stage' = [stage EXCEPT !.dva[s] = Empty]
        PROVE <1>3!:
    <3>1. s \in Spots
        BY <1>1 DEF TakerState
    <3>2. place' \in Trees /\ \A t \in Spots : place[t] # Empty => place'[t] = place[t]
        BY <1>1, <2>2, <3>1 DEF Trees, StageState
    <3>3. stage' \in StageState /\ stage'.capture = stage.capture
        BY <1>1, <2>2, <3>1 DEF Trees, About, StageState
    <3>4. \A t \in Spots : stage'.dva[t] \in {stage.dva[t], Empty}
        BY <1>1, <2>2, <3>1 DEF Trees, StageState
    <3> QED BY <2>0, <3>2, <3>3, <3>4
  <2> QED BY <2>1, <2>2 DEF PutBack
<1>4. TakerTyped'
    BY <1>1, <1>2, <1>3 DEF TakeoverInv, TakerTyped, Trees, About, StageState, TakerState, Deeds
<1>5. KindFits' /\ DeedFits' /\ RestoreFits' /\ TakenFits' /\ BackedUp' /\ StageFits' /\ PlacesFit'
    BY <1>1, <1>2, <1>3
       DEF TakeoverInv, KindFits, DeedFits, RestoreFits, TakenFits, BackedUp, StageFits, PlacesFit, Pc, SameJob
<1>6. Covered'
  <2> SUFFICES ASSUME NEW x \in wrote \ spoilt PROVE Accounted(x)'
      BY <1>1 DEF Covered
  <2>1. Accounted(x) /\ x # Empty
      BY TakeoverAssumption DEF TakeoverInv, Covered, TakerTyped
  <2> QED BY <1>1, <1>3, <2>1 DEF Accounted
<1> QED BY <1>4, <1>5, <1>6 DEF TakeoverInv

LEMMA ForgetKeeps ==
    ASSUME TakeoverInv, Forget
    PROVE  TakeoverInv'
<1>1. /\ taker.pc = "forget" /\ UNCHANGED <<place, stage, backup, hold, kept, wrote, spoilt, tries>>
      /\ breaks' \in 0..MaxBreaks /\ taker \in TakerState /\ taker.filled \in SUBSET Spots
      /\ taker.kind \in {"uninstall", "restore"} /\ ~Takes
      /\ deed \in Deeds /\ deed.takes = taker.takes
    BY CallsCounted DEF Forget, Is, People, TakeoverInv, TakerTyped, TakerState, Pc, KindFits, Takes, DeedFits
<1> DEFINE tombstone == [deed EXCEPT !.is = "absent"]
<1>2. \/ /\ On(IF taker.kind = "restore" THEN "purge" ELSE "tidy", {})
         /\ \/ taker.kind = "uninstall" /\ Taken # {} /\ deed' = tombstone
            \/ (taker.kind = "restore" \/ Taken = {}) /\ deed' = NoDeed
      \/ /\ Errs(taker.filled, stage) /\ Breaks
         /\ deed' = deed \/ (deed' = tombstone /\ taker.kind = "uninstall")
    BY <1>1 DEF Forget
<1>3. tombstone \in Deeds /\ tombstone.is = "absent" /\ tombstone.takes = taker.takes
    BY <1>1 DEF Deeds
<1>4. Taken = {} => taker.takes = Bare
    BY <1>1 DEF Taken, Filled, Bare, TakerState
<1>5. /\ deed' \in Deeds
      /\ deed'.is = "none" => deed'.takes = Bare
      /\ \/ /\ On("purge", {}) /\ taker.kind = "restore" /\ deed'.takes = Bare
         \/ /\ On("tidy", {}) /\ taker.kind = "uninstall" /\ deed'.takes = taker.takes
         \/ /\ Errs(taker.filled, stage) /\ deed'.takes = taker.takes
  <2>1. NoDeed \in Deeds /\ NoDeed.takes = Bare
      BY BareTyped DEF NoDeed
  <2>2. deed.is = "none" => deed.takes = Bare
      BY DEF TakeoverInv, DeedFits
  <2> HIDE DEF tombstone
  <2> QED BY <1>1, <1>2, <1>3, <1>4, <2>1, <2>2
<1>6. /\ taker' \in TakerState /\ SameJob /\ ~Takes' /\ Taken' = Taken /\ taker'.filled = taker.filled
      /\ \/ taker'.pc = "purge" /\ taker.kind = "restore" /\ deed'.takes = Bare
         \/ taker'.pc = "tidy" /\ taker.kind = "uninstall" /\ deed'.takes = taker.takes
         \/ taker'.pc = "putback" /\ taker.kind = "uninstall" /\ deed'.takes = taker.takes
         \/ taker'.pc = "unswap" /\ taker.kind = "restore" /\ deed'.takes = taker.takes
  <2>1. CASE On("purge", {}) /\ taker.kind = "restore" /\ deed'.takes = Bare
      BY <1>1, <2>1, OnSets DEF TakerPCs
  <2>2. CASE On("tidy", {}) /\ taker.kind = "uninstall" /\ deed'.takes = taker.takes
      BY <1>1, <2>2, OnSets DEF TakerPCs
  <2>3. CASE Errs(taker.filled, stage) /\ deed'.takes = taker.takes
      BY <1>1, <2>3, ErrsSets DEF WayBackFrom
  <2> QED BY <1>5, <2>1, <2>2, <2>3
<1>7. TakerTyped'
    BY <1>1, <1>5, <1>6 DEF TakeoverInv, TakerTyped, Trees, About, StageState, TakerState, Deeds
<1>8. KindFits' /\ StageFits'
    BY <1>1, <1>6 DEF TakeoverInv, KindFits, StageFits, Pc, SameJob
<1>9. DeedFits'
    BY <1>1, <1>5, <1>6 DEF TakeoverInv, DeedFits, Pc, SameJob
<1>10. PlacesFit' /\ RestoreFits' /\ TakenFits' /\ BackedUp'
    BY <1>1, <1>6
       DEF TakeoverInv, PlacesFit, RestoreFits, TakenFits, BackedUp, Pc, SameJob
<1>11. Covered'
  <2> SUFFICES ASSUME NEW x \in wrote \ spoilt PROVE Accounted(x)'
      BY <1>1 DEF Covered
  <2>1. Accounted(x) /\ x # Empty
      BY TakeoverAssumption DEF TakeoverInv, Covered, TakerTyped
  <2>2. ASSUME taker.kind = "restore", NEW s \in Spots, x = deed.takes[s] PROVE x = place[s]
    <3>1. s \in Taken
        BY <1>1, <2>1, <2>2 DEF Taken, Filled
    <3> QED BY <1>1, <2>2, <3>1 DEF TakeoverInv, RestoreFits, Pc
  <2> QED BY <1>1, <1>6, <2>1, <2>2 DEF Accounted
<1> QED BY <1>7, <1>8, <1>9, <1>10, <1>11 DEF TakeoverInv

-----------------------------------------------------------------------------
(* Restoration *)

LEMMA CopyBackKeeps ==
    ASSUME TakeoverInv, CopyBack
    PROVE  TakeoverInv'
<1>1. /\ taker.pc = "copy" /\ UNCHANGED <<place, backup, deed, hold, kept, wrote, spoilt, tries>>
      /\ breaks' \in 0..MaxBreaks /\ taker \in TakerState /\ taker.filled = {}
      /\ taker.kind = "restore" /\ ~Takes /\ stage \in StageState /\ backup \in Trees
      /\ stage.capture = Bare
    BY CallsCounted DEF CopyBack, Is, People, TakeoverInv, TakerTyped, Pc, KindFits, PlacesFit, StageFits, Takes
<1>2. PICK s \in taker.left :
         \/ /\ AsRecorded(s) /\ stage' = [stage EXCEPT !.copy[s] = backup[s]]
            /\ IF taker.left = {s} THEN On("swap", Spots) ELSE Done(s)
         \/ stage' = Clear /\ Errs({}, Clear)
    BY DEF CopyBack
<1>3. s \in Spots
    BY <1>1 DEF TakerState
<1>4. /\ taker' \in TakerState /\ SameJob /\ ~Takes' /\ Taken' = Taken /\ taker'.filled = {}
      /\ \/ /\ taker'.pc = "swap" /\ taker'.left = Spots /\ taker.left = {s}
            /\ AsRecorded(s) /\ stage' = [stage EXCEPT !.copy[s] = backup[s]]
         \/ /\ taker'.pc = "copy" /\ taker'.left = taker.left \ {s}
            /\ AsRecorded(s) /\ stage' = [stage EXCEPT !.copy[s] = backup[s]]
         \/ taker'.pc = "yield" /\ stage' = Clear
  <2>1. CASE AsRecorded(s) /\ stage' = [stage EXCEPT !.copy[s] = backup[s]] /\ taker.left = {s} /\ On("swap", Spots)
      BY <1>1, <2>1, OnSets DEF TakerPCs
  <2>2. CASE AsRecorded(s) /\ stage' = [stage EXCEPT !.copy[s] = backup[s]] /\ Done(s)
      BY <1>1, <2>2, DoneSets
  <2>3. CASE stage' = Clear /\ Errs({}, Clear)
      BY <1>1, <2>3, ErrsSets DEF WayBackFrom
  <2> QED BY <1>2, <2>1, <2>2, <2>3
<1>5. /\ stage' \in StageState /\ stage'.capture = Bare
      /\ stage'.dva = stage.dva \/ stage'.dva = Bare
      /\ taker'.pc # "yield" => /\ stage'.copy[s] = taker.takes[s]
                                /\ \A t \in Spots \ {s} : stage'.copy[t] = stage.copy[t]
  <2>1. CASE stage' = Clear /\ taker'.pc = "yield"
      BY <2>1, BareTyped DEF Clear
  <2>2. CASE AsRecorded(s) /\ stage' = [stage EXCEPT !.copy[s] = backup[s]]
      BY <1>1, <1>3, <2>2 DEF StageState, Trees, AsRecorded
  <2> QED BY <1>4, <2>1, <2>2
<1>6. TakerTyped'
    BY <1>1, <1>4, <1>5 DEF TakeoverInv, TakerTyped, Trees, About, StageState, TakerState, Deeds
<1>7. KindFits' /\ DeedFits' /\ TakenFits' /\ BackedUp' /\ PlacesFit'
    BY <1>1, <1>4 DEF TakeoverInv, KindFits, DeedFits, TakenFits, BackedUp, PlacesFit, Pc, SameJob
<1>8. StageFits'
    BY <1>1, <1>4, <1>5 DEF TakeoverInv, StageFits, Pc, Bare
<1>9. RestoreFits'
  <2>1. \A t \in Taken : t \notin taker.left \/ t = s =>
             (taker'.pc # "yield" => stage'.copy[t] = taker.takes[t])
      BY <1>1, <1>5 DEF TakeoverInv, RestoreFits, Pc, Taken, Filled
  <2>2. Taken \subseteq Spots
      BY DEF Taken, Filled
  <2> QED BY <1>1, <1>4, <2>1, <2>2 DEF RestoreFits, Pc, SameJob
<1>10. Covered'
  <2> SUFFICES ASSUME NEW x \in wrote \ spoilt PROVE Accounted(x)'
      BY <1>1 DEF Covered
  <2>1. Accounted(x) /\ x # Empty
      BY TakeoverAssumption DEF TakeoverInv, Covered, TakerTyped
  <2> QED BY <1>1, <2>1 DEF Accounted, Bare
<1> QED BY <1>6, <1>7, <1>8, <1>9, <1>10 DEF TakeoverInv

LEMMA SwapBackKeeps ==
    ASSUME TakeoverInv, SwapBack
    PROVE  TakeoverInv'
<1>1. /\ taker.pc = "swap" /\ UNCHANGED <<backup, deed, hold, kept, wrote, spoilt, tries>>
      /\ breaks' \in 0..MaxBreaks /\ taker \in TakerState
      /\ taker.kind = "restore" /\ ~Takes /\ stage \in StageState /\ place \in Trees
      /\ taker.filled \subseteq Taken /\ taker.filled \cap taker.left = {} /\ Taken \subseteq Spots
    BY CallsCounted
       DEF SwapBack, Is, People, TakeoverInv, TakerTyped, Pc, KindFits, RestoreFits, Takes, Taken, Filled
<1>2. PICK s \in taker.left :
         LET away == [stage EXCEPT !.dva[s] = place[s]]
             back == [away EXCEPT !.copy[s] = Empty]
             filled == taker.filled \cup ({s} \cap Taken)
         IN \/ /\ stage' = back /\ place' = [place EXCEPT ![s] = stage.copy[s]]
               /\ \/ Holds /\ taker' = [taker EXCEPT !.filled = filled, !.left = @ \ {s},
                                            !.pc = IF taker.left = {s} THEN "drop" ELSE @]
                  \/ taker.left = {s} /\ Breaks /\ Errs(filled, back)
            \/ s \in Taken /\ Breaks /\ stage' = away /\ place' = [place EXCEPT ![s] = Empty] /\ Errs(taker.filled, away)
            \/ Breaks /\ Errs(taker.filled, stage) /\ UNCHANGED <<place, stage>>
    BY DEF SwapBack
<1> DEFINE away == [stage EXCEPT !.dva[s] = place[s]]
           back == [away EXCEPT !.copy[s] = Empty]
           filled == taker.filled \cup ({s} \cap Taken)
<1>3. /\ s \in Spots /\ s \notin taker.filled /\ place[s] \in {Ours, Empty}
      /\ s \in Taken => stage.copy[s] = taker.takes[s]
      /\ \A t \in Taken \ taker.left : place[t] = taker.takes[t]
      /\ \A t \in Taken \cap taker.left : stage.copy[t] = taker.takes[t]
    BY <1>1 DEF TakerState, TakeoverInv, PlacesFit, RestoreFits, Pc
<1>4. CASE Breaks /\ Errs(taker.filled, stage) /\ UNCHANGED <<place, stage>>
    BY <1>1, <1>4, PlainErrorKeeps DEF Elsewhere
<1>5. /\ away \in StageState /\ back \in StageState
      /\ away.capture = stage.capture /\ back.capture = stage.capture
      /\ away.dva[s] = place[s] /\ back.dva = away.dva
      /\ \A t \in Spots \ {s} : away.dva[t] = stage.dva[t] /\ back.copy[t] = stage.copy[t]
    BY <1>1, <1>3 DEF StageState, Trees, About
<1>6. ASSUME taker' \in TakerState, SameJob, ~Takes', Taken' = Taken,
             stage' \in {away, back}, place' \in Trees,
             \A t \in Spots \ {s} : place'[t] = place[t],
             \/ /\ taker'.pc \in {"swap", "drop"} /\ stage' = back /\ place'[s] = stage.copy[s]
                /\ taker'.filled = filled /\ taker'.left = taker.left \ {s}
                /\ taker'.pc = "drop" => taker.left = {s}
             \/ /\ taker'.pc = "unswap" /\ taker'.filled = filled
                /\ place'[s] = stage.copy[s]
             \/ /\ taker'.pc = "unswap" /\ taker'.filled = taker.filled
      PROVE  TakeoverInv'
  <2>1. TakerTyped'
      BY <1>1, <1>5, <1>6 DEF TakeoverInv, TakerTyped, Trees, About, StageState, TakerState, Deeds
  <2>2. KindFits' /\ DeedFits' /\ TakenFits' /\ BackedUp'
      BY <1>1, <1>6 DEF TakeoverInv, KindFits, DeedFits, TakenFits, BackedUp, Pc, SameJob
  <2>3. StageFits'
    <3>1. \A t \in Spots : stage'.dva[t] \in {Ours, Empty}
      <4> HIDE DEF away, back
      <4>1. \A t \in Spots : stage.dva[t] \in {Ours, Empty}
          BY DEF TakeoverInv, StageFits
      <4>2. stage'.dva = away.dva
          BY <1>5, <1>6
      <4> QED BY <1>3, <1>5, <4>1, <4>2
    <3>2. stage'.capture = Bare
        BY <1>1, <1>5, <1>6 DEF TakeoverInv, StageFits
    <3> QED BY <1>6, <3>1, <3>2 DEF StageFits, Pc
  <2>4. PlacesFit'
      BY <1>1, <1>3, <1>6 DEF TakeoverInv, PlacesFit, Pc, SameJob, TakerState
  <2>5. RestoreFits'
    <3>1. filled \subseteq Taken /\ filled \cap (taker.left \ {s}) = {}
        BY <1>1
    <3>2. \A t \in taker.filled : place'[t] = taker.takes[t]
        BY <1>1, <1>3, <1>6
    <3>3. place'[s] = stage.copy[s] => \A t \in filled : place'[t] = taker.takes[t]
        BY <1>3, <3>2
    <3>4. CASE taker'.pc \in {"swap", "drop"} /\ stage' = back /\ place'[s] = stage.copy[s]
               /\ taker'.filled = filled /\ taker'.left = taker.left \ {s}
               /\ (taker'.pc = "drop" => taker.left = {s})
      <4>1. \A t \in Taken : IF t \in taker'.left THEN stage'.copy[t] = taker.takes[t]
                                                  ELSE place'[t] = taker.takes[t]
          BY <1>1, <1>3, <1>5, <1>6, <3>4
      <4> QED BY <1>1, <1>6, <3>1, <3>4, <4>1 DEF RestoreFits, Pc, SameJob
    <3>5. CASE taker'.pc = "unswap"
        BY <1>1, <1>6, <3>1, <3>2, <3>3, <3>5 DEF RestoreFits, Pc, SameJob
    <3> QED BY <1>6, <3>4, <3>5
  <2>6. Covered'
    <3> SUFFICES ASSUME NEW x \in wrote \ spoilt PROVE Accounted(x)'
        BY <1>1 DEF Covered
    <3>1. Accounted(x) /\ x # Empty /\ x # Ours
        BY TakeoverAssumption DEF TakeoverInv, Covered, TakerTyped
    <3> QED BY <1>1, <1>3, <1>5, <1>6, <3>1 DEF Accounted
  <2> QED BY <2>1, <2>2, <2>3, <2>4, <2>5, <2>6 DEF TakeoverInv
<1>7. filled \in SUBSET Spots /\ taker.filled \in SUBSET Spots
    BY <1>1, <1>3
<1>8. ASSUME NEW v \in About, place' = [place EXCEPT ![s] = v]
      PROVE  place' \in Trees /\ place'[s] = v /\ \A t \in Spots \ {s} : place'[t] = place[t]
    BY <1>1, <1>3, <1>8 DEF Trees
<1>9. stage.copy[s] \in About /\ Empty \in About
    BY <1>1, <1>3 DEF StageState, Trees, About
<1>10. CASE /\ stage' = back /\ place' = [place EXCEPT ![s] = stage.copy[s]]
            /\ taker' = [taker EXCEPT !.filled = filled, !.left = @ \ {s},
                                      !.pc = IF taker.left = {s} THEN "drop" ELSE @]
  <2> HIDE DEF back, away, filled
  <2>1. /\ taker' \in TakerState /\ SameJob /\ taker'.filled = filled /\ taker'.left = taker.left \ {s}
        /\ taker'.pc \in {"swap", "drop"}
        /\ taker'.pc = "drop" => taker.left = {s}
      BY <1>1, <1>7, <1>10 DEF TakerState, TakerPCs, SameJob
  <2> QED BY <1>1, <1>6, <1>8, <1>9, <1>10, <2>1, JobStays
<1>11. CASE stage' = back /\ place' = [place EXCEPT ![s] = stage.copy[s]] /\ Errs(filled, back)
  <2> HIDE DEF back, away, filled
  <2>1. /\ taker' \in TakerState /\ SameJob /\ taker'.filled = filled /\ taker'.pc = "unswap"
      BY <1>1, <1>7, <1>11, ErrsSets DEF WayBackFrom
  <2> QED BY <1>1, <1>6, <1>8, <1>9, <1>11, <2>1, JobStays
<1>12. CASE stage' = away /\ place' = [place EXCEPT ![s] = Empty] /\ Errs(taker.filled, away)
  <2> HIDE DEF back, away, filled
  <2>1. /\ taker' \in TakerState /\ SameJob /\ taker'.filled = taker.filled /\ taker'.pc = "unswap"
      BY <1>1, <1>7, <1>12, ErrsSets DEF WayBackFrom
  <2> QED BY <1>1, <1>6, <1>8, <1>9, <1>12, <2>1, JobStays
<1> QED BY <1>2, <1>4, <1>10, <1>11, <1>12

LEMMA UndoSwapKeeps ==
    ASSUME TakeoverInv, UndoSwap
    PROVE  TakeoverInv'
<1>1. /\ taker.pc = "unswap" /\ UNCHANGED <<backup, deed, hold, kept, wrote, spoilt, tries>>
      /\ breaks' \in 0..MaxBreaks /\ taker \in TakerState
      /\ taker.kind = "restore" /\ ~Takes /\ stage \in StageState /\ place \in Trees
      /\ taker.filled \subseteq Taken /\ stage.capture = Bare
      /\ deed.takes = taker.takes
      /\ \A t \in Spots : stage.dva[t] \in {Ours, Empty}
    BY CallsCounted
       DEF UndoSwap, Is, People, TakeoverInv, TakerTyped, Pc, KindFits, RestoreFits, DeedFits, StageFits, Takes
<1>2. ASSUME NEW s \in taker.left,
             \/ place' = place
             \/ /\ s \in taker.filled \/ place[s] = Empty
                /\ place' = [place EXCEPT ![s] = stage.dva[s]]
             \/ s \in taker.filled /\ place' = [place EXCEPT ![s] = Empty],
             stage' = stage \/ stage' = [stage EXCEPT !.dva[s] = Empty],
             taker' \in TakerState, SameJob, taker'.pc = "unswap",
             taker'.left = taker.left \ {s}, taker'.filled = taker.filled
      PROVE  TakeoverInv'
  <2>1. s \in Spots /\ (s \in taker.filled => s \in Taken /\ place[s] = taker.takes[s])
      BY <1>1 DEF TakerState, TakeoverInv, RestoreFits, Pc
  <2>2. /\ place' \in Trees
        /\ \A t \in Spots \ {s} : place'[t] = place[t]
        /\ place'[s] = place[s] \/ s \in taker.filled \/ place[s] = Empty
      BY <1>1, <1>2, <2>1 DEF Trees, About, StageState
  <2>3. /\ stage' \in StageState /\ stage'.capture = Bare
        /\ \A t \in Spots : stage'.dva[t] \in {Ours, Empty}
      BY <1>1, <1>2, <2>1 DEF Trees, About, StageState
  <2>4. ~Takes' /\ Taken' = Taken
      BY <1>1, <1>2, JobStays
  <2>5. TakerTyped'
      BY <1>1, <1>2, <2>2, <2>3 DEF TakeoverInv, TakerTyped, Trees, About, StageState, TakerState, Deeds
  <2>6. KindFits' /\ DeedFits' /\ TakenFits' /\ BackedUp' /\ StageFits' /\ PlacesFit'
      BY <1>1, <1>2, <2>3, <2>4
         DEF TakeoverInv, KindFits, DeedFits, TakenFits, BackedUp, StageFits, PlacesFit, Pc, SameJob
  <2>7. RestoreFits'
      BY <1>1, <1>2, <2>2, <2>4 DEF TakeoverInv, RestoreFits, Pc, SameJob, TakerState
  <2>8. Covered'
    <3> SUFFICES ASSUME NEW x \in wrote \ spoilt PROVE Accounted(x)'
        BY <1>1 DEF Covered
    <3>1. Accounted(x) /\ x # Empty
        BY TakeoverAssumption DEF TakeoverInv, Covered, TakerTyped
    <3>2. CASE s \in taker.filled /\ x = place[s]
      <4>1. backup[s] = taker.takes[s]
          BY <1>1, <2>1, <3>2 DEF TakeoverInv, BackedUp, Pc
      <4> QED BY <1>1, <2>1, <3>2, <4>1 DEF Accounted
    <3>3. CASE ~(s \in taker.filled /\ x = place[s])
        BY <1>1, <2>1, <2>2, <2>3, <3>1, <3>3 DEF Accounted, Bare
    <3> QED BY <3>2, <3>3
  <2> QED BY <2>5, <2>6, <2>7, <2>8 DEF TakeoverInv
<1>3. ASSUME NEW s \in taker.left,
             Highest(s, taker.left),
             LET free == s \in taker.filled \/ place[s] = Empty
                 due  == stage.dva[s] # Empty IN
              \/ /\ Holds /\ (free \/ ~due)
                 /\ place' = [place EXCEPT ![s] = IF free THEN stage.dva[s] ELSE @]
                 /\ stage' = [stage EXCEPT !.dva[s] = Empty] /\ Done(s)
              \/ /\ Breaks \/ (Holds /\ due /\ ~free)
                 /\ taker' = [taker EXCEPT !.left = @ \ {s}, !.stuck = TRUE]
                 /\ place' \in {place, [place EXCEPT ![s] = IF s \in taker.filled THEN Empty ELSE @]}
                 /\ UNCHANGED stage
      PROVE  TakeoverInv'
  <2>1. /\ taker' \in TakerState /\ SameJob /\ taker'.pc = "unswap"
        /\ taker'.left = taker.left \ {s} /\ taker'.filled = taker.filled
    <3>1. CASE taker' = [taker EXCEPT !.left = @ \ {s}, !.stuck = TRUE]
        BY <1>1, <3>1 DEF TakerState, SameJob
    <3>2. CASE Done(s)
        BY <1>1, <3>2, DoneSets
    <3> QED BY <1>3, <3>1, <3>2
  <2>2. s \in Spots /\ [place EXCEPT ![s] = place[s]] = place
      BY <1>1 DEF TakerState, Trees
  <2>3. \/ place' = place
        \/ /\ s \in taker.filled \/ place[s] = Empty
           /\ place' = [place EXCEPT ![s] = stage.dva[s]]
        \/ s \in taker.filled /\ place' = [place EXCEPT ![s] = Empty]
      BY <1>3, <2>2
  <2>4. stage' = stage \/ stage' = [stage EXCEPT !.dva[s] = Empty]
      BY <1>3
  <2> QED BY <1>2, <2>1, <2>3, <2>4
<1>4. CASE taker.left = {}
  <2>1. place' = place /\ stage' \in {stage, Clear} /\ On("yield", {})
      BY <1>4 DEF UndoSwap
  <2>2. /\ taker' \in TakerState /\ SameJob /\ ~Takes' /\ Taken' = Taken
        /\ taker'.pc = "yield"
      BY <1>1, <2>1, OnSets DEF TakerPCs
  <2>3. /\ stage' \in StageState /\ stage'.capture = Bare
        /\ \A t \in Spots : stage'.dva[t] \in {Ours, Empty}
      BY <1>1, <2>1, BareTyped DEF Clear, Bare
  <2>4. TakerTyped'
      BY <1>1, <2>1, <2>2, <2>3 DEF TakeoverInv, TakerTyped, Trees, About, StageState, TakerState, Deeds
  <2>5. KindFits' /\ DeedFits' /\ TakenFits' /\ BackedUp' /\ StageFits' /\ PlacesFit' /\ RestoreFits'
      BY <1>1, <2>2, <2>3
         DEF TakeoverInv, KindFits, DeedFits, TakenFits, BackedUp, StageFits, PlacesFit, RestoreFits, Pc, SameJob
  <2>6. Covered'
    <3> SUFFICES ASSUME NEW x \in wrote \ spoilt PROVE Accounted(x)'
        BY <1>1 DEF Covered
    <3>1. Accounted(x) /\ x # Empty
        BY TakeoverAssumption DEF TakeoverInv, Covered, TakerTyped
    <3> QED BY <1>1, <2>1, <2>3, <3>1 DEF Accounted, Bare
  <2> QED BY <2>4, <2>5, <2>6 DEF TakeoverInv
<1>5. CASE taker.left # {}
    BY <1>3, <1>5 DEF UndoSwap
<1> QED BY <1>4, <1>5

LEMMA PurgeKeeps ==
    ASSUME TakeoverInv, Purge
    PROVE  TakeoverInv'
<1>1. /\ taker.pc = "purge" /\ taker' = Resting /\ stage' = Clear
      /\ UNCHANGED <<place, deed, hold, wrote, spoilt, tries>>
      /\ kept' \in {kept, kept \cup InStage} /\ backup' \in {backup, Bare}
      /\ breaks' \in 0..MaxBreaks /\ stage \in StageState
      /\ stage.capture = Bare /\ deed.takes = Bare
    BY CallsCounted
       DEF Purge, Is, People, TakeoverInv, TakerTyped, KindFits, StageFits, DeedFits, Pc, Takes
<1>2. /\ taker'.pc = "idle" /\ taker'.kind = "none" /\ taker'.base = NoDeed /\ ~Takes'
      /\ taker' \in TakerState
    BY <1>1, BareTyped DEF Resting, Takes
<1>3. kept' \subseteq Contents
    BY <1>1 DEF TakeoverInv, TakerTyped, StageState, Trees, About, Contents, InStage, Within
<1>4. TakerTyped'
    BY <1>1, <1>2, <1>3, BareTyped DEF TakeoverInv, TakerTyped, Trees, About, StageState, TakerState, Deeds
<1>5. KindFits' /\ StageFits' /\ DeedFits'
    BY <1>1, <1>2 DEF TakeoverInv, KindFits, StageFits, DeedFits, Pc, Clear, Bare, NoDeed
<1>6. PlacesFit' /\ RestoreFits' /\ TakenFits' /\ BackedUp'
    BY <1>2 DEF PlacesFit, RestoreFits, TakenFits, BackedUp, Pc
<1>7. Covered'
  <2> SUFFICES ASSUME NEW x \in wrote \ spoilt PROVE Accounted(x)'
      BY <1>1 DEF Covered
  <2>1. Accounted(x) /\ x # Empty
      BY TakeoverAssumption DEF TakeoverInv, Covered, TakerTyped
  <2> QED BY <1>1, <2>1 DEF Accounted, Bare
<1> QED BY <1>4, <1>5, <1>6, <1>7 DEF TakeoverInv

-----------------------------------------------------------------------------
(* People *)

\* What they add does not disturb what an operation has still to look at.
LEMMA AddsKeeps ==
    ASSUME TakeoverInv, PersonAdds, AddsInWindow = FALSE
    PROVE  TakeoverInv'
<1>1. /\ UNCHANGED <<stage, backup, deed, hold, taker, kept, spoilt, tries, breaks>>
      /\ place \in Trees /\ (Takes' <=> Takes) /\ Taken' = Taken
    BY DEF PersonAdds, TakeoverInv, TakerTyped, Takes, Taken, Filled
<1>2. PICK s \in Spots, w \in Writings \ wrote :
         /\ place[s] = Empty /\ ~Unwatched(s)
         /\ place' = [place EXCEPT ![s] = w] /\ wrote' = wrote \cup {w}
    BY DEF PersonAdds
<1>3. /\ \A v \in About : v \in About' /\ w \in About'
      /\ \A f \in Trees : f \in Trees'
      /\ \A f \in StageState : f \in StageState'
    BY <1>1, <1>2 DEF About, Trees, StageState
<1>4. /\ place' \in Trees' /\ place'[s] = w
      /\ \A t \in Spots \ {s} : place'[t] = place[t]
    BY <1>1, <1>2, <1>3 DEF Trees
<1>5. TakerTyped'
    BY <1>1, <1>2, <1>3, <1>4 DEF TakeoverInv, TakerTyped, TakerState, Deeds
<1>6. KindFits' /\ StageFits' /\ DeedFits' /\ BackedUp'
    BY <1>1 DEF TakeoverInv, KindFits, StageFits, DeedFits, BackedUp, Pc, Clear, Bare
<1>7. Ours # Empty
    BY TakeoverAssumption
<1>8. PlacesFit'
    BY <1>1, <1>2, <1>4, <1>7 DEF TakeoverInv, PlacesFit, Pc, Unwatched, Is
<1>9. \A t \in Taken : place[t] = taker.takes[t] => place'[t] = taker.takes[t]
    BY <1>2, <1>4 DEF Taken, Filled
<1>10. RestoreFits'
    BY <1>1, <1>9 DEF TakeoverInv, RestoreFits, Pc
<1>11. TakenFits'
    BY <1>1, <1>9 DEF TakeoverInv, TakenFits, Pc, Filled
<1>12. Covered'
  <2> SUFFICES ASSUME NEW x \in wrote' \ spoilt PROVE Accounted(x)'
      BY <1>1 DEF Covered
  <2>1. CASE x = w
      BY <1>4, <2>1 DEF Accounted
  <2>2. CASE x \in wrote
    <3>1. Accounted(x) /\ x # Empty
        BY <2>2, TakeoverAssumption DEF TakeoverInv, Covered, TakerTyped
    <3> QED BY <1>1, <1>2, <1>4, <3>1 DEF Accounted
  <2> QED BY <1>2, <2>1, <2>2
<1> QED BY <1>5, <1>6, <1>8, <1>10, <1>11, <1>12 DEF TakeoverInv

LEMMA SpoilsKeeps ==
    ASSUME TakeoverInv, PersonSpoils
    PROVE  TakeoverInv'
<1>1. /\ UNCHANGED <<place, stage, deed, hold, taker, kept, wrote, tries, breaks>>
      /\ spoilt = {} /\ backup \in Trees /\ (Takes' <=> Takes) /\ Taken' = Taken
    BY DEF PersonSpoils, TakeoverInv, TakerTyped, Takes, Taken, Filled
<1>2. PICK s \in Spots :
         /\ backup[s] \in Writings
         /\ spoilt' = {backup[s]} /\ backup' = [backup EXCEPT ![s] = Spoiled]
    BY DEF PersonSpoils
<1>3. backup[s] \in wrote
    BY <1>1, <1>2, TakeoverAssumption DEF Trees, About
<1>4. /\ backup' \in Trees
      /\ \A t \in Spots \ {s} : backup'[t] = backup[t]
    BY <1>1, <1>2 DEF Trees, About
<1>5. TakerTyped'
    BY <1>1, <1>2, <1>3, <1>4 DEF TakeoverInv, TakerTyped, Trees, About, StageState, TakerState, Deeds
<1>6. KindFits' /\ StageFits' /\ DeedFits' /\ PlacesFit' /\ RestoreFits' /\ TakenFits'
    BY <1>1
       DEF TakeoverInv, KindFits, StageFits, DeedFits, PlacesFit, RestoreFits, TakenFits, Pc, Clear, Bare, Filled
<1>7. BackedUp'
  <2>1. ASSUME NEW t \in Taken, backup[t] = taker.takes[t] \/ taker.takes[t] \in spoilt
        PROVE  backup'[t] = taker.takes[t] \/ taker.takes[t] \in spoilt'
      BY <1>1, <1>2, <1>4, <2>1 DEF Taken, Filled
  <2> QED BY <1>1, <2>1 DEF TakeoverInv, BackedUp, Pc
<1>8. Covered'
  <2> SUFFICES ASSUME NEW x \in wrote \ spoilt' PROVE Accounted(x)'
      BY <1>1 DEF Covered
  <2>1. Accounted(x) /\ x # backup[s]
      BY <1>1, <1>2 DEF TakeoverInv, Covered
  <2> QED BY <1>1, <1>4, <2>1 DEF Accounted
<1> QED BY <1>5, <1>6, <1>7, <1>8 DEF TakeoverInv

-----------------------------------------------------------------------------
(* The theorems *)

LEMMA TakeoverInvInitially == TakeoverInit => TakeoverInv
<1> SUFFICES ASSUME TakeoverInit PROVE TakeoverInv
    OBVIOUS
<1>1. /\ taker = Resting /\ stage = Clear /\ deed = NoDeed /\ backup = Bare
      /\ taker.pc = "idle" /\ taker.kind = "none" /\ taker.base = NoDeed /\ ~Takes
    BY DEF TakeoverInit, Resting, Takes
<1>2. place \in Trees /\ wrote \subseteq Writings
  <2>1. place \in [Spots -> Writings \cup {Empty}] /\ wrote = Within(place)
      BY DEF TakeoverInit
  <2>2. \A s \in Spots : place[s] \in wrote \cup {Empty}
      BY <2>1 DEF Within
  <2> QED BY <2>1, <2>2 DEF Trees, About, Within
<1>3. TakerTyped
    BY <1>1, <1>2, BareTyped, TakeoverAssumption DEF TakerTyped, TakeoverInit
<1>4. KindFits /\ StageFits /\ DeedFits
    BY <1>1 DEF KindFits, StageFits, DeedFits, Pc, Clear, Bare, NoDeed
<1>5. PlacesFit /\ RestoreFits /\ TakenFits /\ BackedUp
    BY <1>1 DEF PlacesFit, RestoreFits, TakenFits, BackedUp, Pc
<1>6. Covered
    BY DEF Covered, Accounted, TakeoverInit, Within
<1> QED BY <1>3, <1>4, <1>5, <1>6 DEF TakeoverInv

LEMMA TakeoverInvKept ==
    ASSUME AddsInWindow = FALSE
    PROVE  TakeoverInv /\ [TakeoverNext]_takeoverVars => TakeoverInv'
<1> SUFFICES ASSUME TakeoverInv, [TakeoverNext]_takeoverVars PROVE TakeoverInv'
    OBVIOUS
<1>1. CASE UNCHANGED takeoverVars
  <2>1. TakerTyped' /\ Covered'
      BY <1>1, ElsewhereTyped, ElsewhereCovered DEF TakeoverInv, takeoverVars, Elsewhere, TakerTyped
  <2>2. KindFits' /\ StageFits' /\ DeedFits' /\ PlacesFit' /\ RestoreFits' /\ TakenFits' /\ BackedUp'
      BY <1>1
         DEF takeoverVars, TakeoverInv, KindFits, StageFits, DeedFits, PlacesFit, RestoreFits, TakenFits,
             BackedUp, Pc, Takes, Taken, Filled, Clear, Bare
  <2> QED BY <2>1, <2>2 DEF TakeoverInv
<1>2. CASE TakeoverStep
    BY <1>2, StartTakeoverKeeps, ClaimKeeps, SettleKeeps, YieldKeeps, ListForeignKeeps, CaptureKeeps, PublishKeeps,
       FillKeeps, RecordKeeps, TidyKeeps, UnfillKeeps, GiveBackKeeps, DiscardKeeps, UnrecordKeeps,
       SetAsideKeeps, PutBackKeeps, ForgetKeeps, CopyBackKeeps, SwapBackKeeps, UndoSwapKeeps, PurgeKeeps
       DEF TakeoverStep
<1> QED BY <1>1, <1>2, DiesKeeps, AddsKeeps, SpoilsKeeps DEF TakeoverNext

\* The invariant: every operation knows which trees are its own, and where the others are.
THEOREM TakeoverInvAlways ==
    ASSUME AddsInWindow = FALSE
    PROVE  TakeoverSpec => []TakeoverInv
BY TakeoverInvInitially, TakeoverInvKept, PTL DEF TakeoverSpec

\* Every variable of SkillTakeover keeps its type, whatever fails, dies or is added.
THEOREM TakeoverTypes ==
    ASSUME AddsInWindow = FALSE
    PROVE  TakeoverSpec => []TakeoverTypeOK
<1>1. TakeoverInv => TakeoverTypeOK
  <2> SUFFICES ASSUME TakeoverInv PROVE TakeoverTypeOK
      OBVIOUS
  <2>1. \A f \in Trees : f \in [Spots -> Contents]
      BY DEF Trees, About, Contents, TakeoverInv, TakerTyped
  <2>2. stage \in [capture : [Spots -> Contents], dva : [Spots -> Contents], copy : [Spots -> Contents]]
      BY <2>1 DEF TakeoverInv, TakerTyped, StageState
  <2> QED BY <2>1, <2>2 DEF TakeoverInv, TakerTyped, TakerState, TakeoverTypeOK
<1> QED BY <1>1, TakeoverInvAlways, PTL

\* No tree that a person wrote is ever lost, for any number of places, operations and
\* failures, as long as people do not add a tree where dva has looked and will not look
\* again; and a restore that is going to report success has brought all of them back
\* (takeover_backup.go 33-36, uninstall.go 308-336).
THEOREM OriginalsKeptHolds ==
    ASSUME AddsInWindow = FALSE
    PROVE  TakeoverSpec => []OriginalsKept
<1>1. TakeoverInv => OriginalsKept
  <2> SUFFICES ASSUME TakeoverInv PROVE OriginalsKept
      OBVIOUS
  <2>1. Is("purge") => \A s \in Taken : place[s] = taker.takes[s]
      BY DEF TakeoverInv, RestoreFits, KindFits, Pc, Is
  <2>2. ASSUME NEW x \in wrote \ spoilt
        PROVE  \/ x \in Within(place) \/ x \in Within(stage.capture) \/ x \in kept
               \/ x \in {backup[s] : s \in {t \in Spots : backup[t] = deed.takes[t]}}
    <3>1. Accounted(x) /\ x # Empty
        BY TakeoverAssumption DEF TakeoverInv, Covered, TakerTyped
    <3> QED BY <3>1 DEF Accounted, Within
  <2> QED BY <2>1, <2>2 DEF OriginalsKept
<1> QED BY <1>1, TakeoverInvAlways, PTL

================================================================================
