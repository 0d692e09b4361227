----------------------------- MODULE SkillInstall -----------------------------
(***************************************************************************)
(* `dva skill install` and `dva skill uninstall` on one destination        *)
(* directory (internal/skillinstall), run by several processes at once.    *)
(*                                                                         *)
(* An operation looks at everything without a lock (preflight), reads the  *)
(* receipt to know which claim locks to take, takes them, and looks again. *)
(* Then it works through phases, one skill at a time: claims, trees,       *)
(* receipt, claims.  A phase that fails starts the way back.  The process  *)
(* may die between any two steps.  Options: no takeover, no dry run, no    *)
(* --allow-downgrade; receipts have the current schema.                    *)
(***************************************************************************)
EXTENDS SkillClaim, FiniteSets

CONSTANTS
    Versions,       \* releases of dva, in their order
    Names,          \* Names[v]: the skills in the bundle of release v
    Binary,         \* Binary[p]: the release that process p runs
    Runtimes,       \* consumers that share the destination
    ForeignSkills,  \* skills that another producer may have claimed before
    MaxOps,         \* bound: operations started
    MaxFaults,      \* bound: system calls that fail
    MaxCrashes,     \* bound: processes that die
    LateFaults,     \* may a call fail after its effect (a directory sync)?
    UserAdds,       \* may a person put a tree of his own at a free place?
    UserInWindow,   \* ... even between the Lstat of a place and its rename?
    NoReceipt, Nothing, Foreign, NotMoved

ASSUME InstallAssumption ==
    /\ Skills \subseteq Nat /\ IsFiniteSet(Skills)
    /\ Versions \subseteq Nat
    /\ Names \in [Versions -> SUBSET Skills]
    /\ Binary \in [Procs -> Versions]
    /\ MaxOps \in Nat /\ MaxFaults \in Nat /\ MaxCrashes \in Nat
    /\ {LateFaults, UserAdds, UserInWindow} \subseteq BOOLEAN
    /\ ForeignSkills \subseteq Skills
    /\ Free \notin Procs /\ Stale \notin Procs /\ Free # Stale

\* Every bundle has the skill `dva`: two operations share at least one lock.
ASSUME SharedSkill == \E s \in Skills : \A v \in Versions : s \in Names[v]

VARIABLES
    tree,           \* tree[s]: what is at the destination of skill s
    receipt,        \* the receipt of the destination directory
    pc,             \* pc[p]: the phase process p is in
    left,           \* left[p]: the skills that phase still has to treat
    job,            \* job[p]: what the operation was asked, and decided, to do
    base,           \* base[p]: the claims read under the locks
    aside,          \* aside[p]: what was moved into the staging directory
    mine,           \* mine[p]: the claims this operation has reserved
    why,            \* why[p]: the phase that failed
    ops, faults, crashes

procVars == <<pc, left, job, base, aside, mine, why>>
disk     == <<lock, claim, tree, receipt>>
vars     == <<disk, procVars, ops, faults, crashes>>

\* Loops treat skills in the order of their paths, or in reverse.
IsFirst(s, S) == s \in S /\ \A t \in S : s <= t
IsLast(s, S)  == s \in S /\ \A t \in S : s >= t

-----------------------------------------------------------------------------
(* Claims and receipts *)

Load(v, r) == [version |-> v, runtimes |-> r]
Loads      == [version : Versions, runtimes : SUBSET Runtimes]
ClaimStates == {"reserved", "active", "updating", "releasing"}
Claims == [producer : {"dva", "other"}, state : ClaimStates, op : {0, 1},
           generation : Nat, load : Loads]

\* What stands for an absence is none of what it could be taken for.
ASSUME ValuesDiffer ==
    /\ NoClaim \notin Claims /\ Torn \notin Claims /\ NoClaim # Torn
    /\ NoReceipt \notin Loads
    /\ {Nothing, Foreign, NotMoved} \cap Versions = {}
    /\ Nothing # Foreign /\ Nothing # NotMoved /\ Foreign # NotMoved

\* projectedClaims + Reserve.  Operation IDs are only compared with the one
\* in the same claim: a new one is the other of two.
Reserved(load) == [producer |-> "dva", state |-> "reserved", op |-> 0,
                   generation |-> 1, load |-> load]
Moved(c, state, op, load) ==
    [producer |-> c.producer, state |-> state, op |-> op,
     generation |-> c.generation + 1, load |-> load]
NewOp(c) == 1 - c.op

Installed(r) == IF r = NoReceipt THEN {} ELSE Names[r.version]
Held(p)      == {s \in Skills : lock[s] = p}

\* verifyActiveClaims and verifyInstalled against a receipt's projection.
ClaimMatches(s, load) ==
    /\ Readable(claim[s]) /\ claim[s].producer = "dva"
    /\ claim[s].state = "active" /\ claim[s].load = load
ClaimsMatch(S, load) == \A s \in S : ClaimMatches(s, load)
ClaimsAbsent(S)      == \A s \in S : claim[s] = NoClaim
NoCollision(S)       == \A s \in S : tree[s] = Nothing
TreesMatch(r)        == \A s \in Names[r.version] : tree[s] = r.version

-----------------------------------------------------------------------------
(* Phases *)

Looping  == {"lock", "reserve", "mark", "swap", "stage", "activate", "admit",
             "drop", "release", "unadmit", "undo", "revive", "withdraw"}
Phases   == Looping \cup {"idle", "read", "check", "record", "forget", "clean",
                          "restore"}
Receipts == [version : Versions, runtimes : SUBSET Runtimes] \cup {NoReceipt}
Jobs == [kind : {"none", "install", "uninstall"},
         flow : {"none", "install", "unlink", "remove", "current", "absent"},
         want : SUBSET Runtimes, seen : Receipts, rec : Receipts, next : Receipts]
NoJob == [kind |-> "none", flow |-> "none", want |-> {}, seen |-> NoReceipt,
          rec |-> NoReceipt, next |-> NoReceipt]

\* The skills whose claims an operation has read and moves on: those of the
\* receipt read under the locks for an installation, for a removal those of
\* the receipt that its list of locks came from.
Claimed(p, r) == IF job[p].kind = "install" THEN Installed(r) ELSE Installed(job[p].seen)
Old(p)        == Claimed(p, job[p].rec)

\* What a phase has to treat.
Added(p)  == IF job[p].flow = "install"
             THEN Names[job[p].next.version] \ Installed(job[p].rec) ELSE {}
SameFiles(p) == job[p].rec # NoReceipt /\ job[p].next.version = job[p].rec.version
Moves(p)      == {s \in Skills : aside[p][s] # NotMoved}
Work(p, phase) ==
    CASE phase \in {"mark", "activate", "drop", "revive"} -> Old(p)
      [] phase = "stage"    -> Installed(job[p].rec)
      [] phase \in {"reserve", "admit"} -> Added(p)
      [] phase = "swap"     -> IF SameFiles(p) THEN {} ELSE Names[job[p].next.version]
      [] phase = "undo"     -> Moves(p)
      [] phase \in {"unadmit", "withdraw"} -> mine[p]
      [] phase = "release"  -> Held(p)
      [] OTHER              -> {}

\* The receipt was already written, and has to be written back.
LateFailureOfOld(p) == why[p] = "activate"
LateFailure(p)      == why[p] \in {"activate", "admit"}

\* The order of the phases, forward and back.
Following(p, phase) ==
    CASE phase = "lock"     -> "check"
      [] phase = "reserve"  -> "mark"
      [] phase = "mark"     -> (CASE job[p].flow = "install" -> "swap"
                                  [] job[p].flow = "unlink"  -> "record"
                                  [] OTHER                   -> "stage")
      [] phase = "swap"     -> "record"
      [] phase = "record"   -> "activate"
      [] phase = "activate" -> IF job[p].flow = "install" THEN "admit" ELSE "release"
      [] phase = "admit"    -> "clean"
      [] phase = "stage"    -> "drop"
      [] phase = "drop"     -> "forget"
      [] phase = "forget"   -> "clean"
      [] phase = "clean"    -> "release"
      [] phase = "unadmit"  -> "undo"
      [] phase = "undo"     -> IF LateFailure(p) THEN "restore" ELSE "revive"
      [] phase = "restore"  -> "revive"
      [] phase = "revive"   -> "withdraw"
      [] phase = "withdraw" -> "release"

\* Where a failed phase goes: each error path of install_flow.go, uninstall.go.
WayBack(phase) ==
    CASE phase = "lock" -> "release"
      [] phase = "reserve" -> "withdraw"
      [] phase = "mark"    -> "revive"
      [] phase = "admit"   -> "unadmit"
      [] phase = "clean"   -> "release"
      [] OTHER             -> "undo"

-----------------------------------------------------------------------------
(* Moving a process from phase to phase *)

Goto(p, phase)  == /\ pc' = [pc EXCEPT ![p] = phase]
                   /\ left' = [left EXCEPT ![p] = Work(p, phase)]
Treated(p, s)   == /\ left' = [left EXCEPT ![p] = @ \ {s}]
                   /\ UNCHANGED pc
Fail(p)         == /\ Goto(p, WayBack(pc[p]))
                   /\ why' = [why EXCEPT ![p] = pc[p]]
Fault           == faults < MaxFaults /\ faults' = faults + 1
NoMoves         == [s \in Skills |-> NotMoved]
NoClaims        == [s \in Skills |-> NoClaim]
Idle(p) == /\ pc' = [pc EXCEPT ![p] = "idle"]
           /\ left' = [left EXCEPT ![p] = {}]
           /\ job' = [job EXCEPT ![p] = NoJob]
           /\ base' = [base EXCEPT ![p] = NoClaims]
           /\ aside' = [aside EXCEPT ![p] = NoMoves]
           /\ mine' = [mine EXCEPT ![p] = {}]
           /\ why' = [why EXCEPT ![p] = "none"]

\* The end of a loop over skills, when nothing is left to treat.
PhaseEnds(p) ==
    /\ pc[p] \in Looping \ {"release"} /\ left[p] = {}
    /\ Goto(p, Following(p, pc[p]))
    /\ UNCHANGED <<disk, job, base, aside, mine, why, ops, faults, crashes>>

-----------------------------------------------------------------------------
(* Start: preflight, the receipt, the locks, and the second look *)

\* preflightInstall.  The only check that is not repeated under the locks is
\* the one against replacing a newer release.
PreflightInstall(p) ==
    IF receipt = NoReceipt
    THEN ClaimsAbsent(Names[Binary[p]]) /\ NoCollision(Names[Binary[p]])
    ELSE /\ TreesMatch(receipt)
         /\ receipt.version <= Binary[p]
         /\ ClaimsMatch(Names[receipt.version], receipt)
         /\ Names[receipt.version] \subseteq Names[Binary[p]]
         /\ ClaimsAbsent(Names[Binary[p]] \ Names[receipt.version])
         /\ NoCollision(Names[Binary[p]] \ Names[receipt.version])

\* preflightUninstall.
PreflightUninstall(p) ==
    IF receipt = NoReceipt THEN ClaimsAbsent(Names[Binary[p]])
    ELSE TreesMatch(receipt) /\ ClaimsMatch(Names[receipt.version], receipt)

Start(p) ==
    /\ pc[p] = "idle" /\ ops < MaxOps
    /\ \E kind \in {"install", "uninstall"}, want \in (SUBSET Runtimes) \ {{}} :
         /\ IF kind = "install" THEN PreflightInstall(p) ELSE PreflightUninstall(p)
         /\ job' = [job EXCEPT ![p] = [NoJob EXCEPT !.kind = kind, !.want = want]]
    /\ pc' = [pc EXCEPT ![p] = "read"]
    /\ ops' = ops + 1
    /\ UNCHANGED <<disk, left, base, aside, mine, why, faults, crashes>>

\* The receipt tells which locks to take: those of the old and new bundle for
\* an installation, those of the installed bundle for a removal.
LockListOfNew(p) == IF job[p].kind = "install"
                    THEN Names[Binary[p]] \ Installed(receipt) ELSE Installed(receipt)
LockList(p) ==
    IF job[p].kind = "install" \/ receipt = NoReceipt
    THEN Names[Binary[p]] \cup Installed(receipt)
    ELSE Installed(receipt)

Read(p) ==
    /\ pc[p] = "read"
    /\ job' = [job EXCEPT ![p].seen = receipt]
    /\ pc' = [pc EXCEPT ![p] = "lock"]
    /\ left' = [left EXCEPT ![p] = LockList(p)]
    /\ UNCHANGED <<disk, base, aside, mine, why, ops, faults, crashes>>

\* AcquireLocks: one mkdir after the other, in the order of the paths; the
\* first one that exists ends the attempt.
Mkdir(p) ==
    /\ pc[p] = "lock"
    /\ \E s \in left[p] :
         /\ IsFirst(s, left[p])
         /\ IF lock[s] = Free
            THEN /\ lock' = [lock EXCEPT ![s] = p]
                 /\ Treated(p, s) /\ UNCHANGED why
            ELSE Fail(p) /\ UNCHANGED lock
    /\ UNCHANGED <<claim, tree, receipt, job, base, aside, mine, ops, faults, crashes>>

\* What the second look decides.  A destination outside the locked set makes
\* every read of its claim fail (authorize).
Refuse(p) == /\ why' = [why EXCEPT ![p] = "check"]
             /\ Goto(p, "release") /\ UNCHANGED <<job, base>>
Report(p, status) == /\ job' = [job EXCEPT ![p].flow = status]
                     /\ Goto(p, "release") /\ UNCHANGED <<why, base>>
Begin(p, flow, next, phase, S) ==
    /\ job' = [job EXCEPT ![p].flow = flow, ![p].rec = receipt, ![p].next = next]
    /\ base' = [base EXCEPT ![p] = [s \in Skills |-> IF s \in Claimed(p, receipt)
                                                     THEN claim[s] ELSE NoClaim]]
    /\ pc' = [pc EXCEPT ![p] = phase]
    /\ left' = [left EXCEPT ![p] = S]
    /\ UNCHANGED why

\* installDestination, installWithReservations and updateClaimedInstall.
FreshInstallOK(p) ==
    /\ ClaimsAbsent(Names[Binary[p]]) /\ NoCollision(Names[Binary[p]])
InstalledOK(r) ==
    TreesMatch(r) /\ ClaimsMatch(Names[r.version], r)
UpdateOK(p) ==
    LET new == Names[Binary[p]] old == Names[receipt.version] IN
    /\ old \subseteq Held(p) /\ InstalledOK(receipt)
    /\ old \subseteq new
    /\ ClaimsAbsent(new \ old) /\ NoCollision(new \ old)
UpToDateTrees(p) == TreesMatch(receipt)
UpToDateOK(p)    == InstalledOK(receipt)
UpToDate(p) == receipt.version = Binary[p] /\ job[p].want \subseteq receipt.runtimes

CheckInstall(p) ==
    IF receipt = NoReceipt
    THEN IF FreshInstallOK(p)
         THEN Begin(p, "install", Load(Binary[p], job[p].want), "reserve", Names[Binary[p]])
         ELSE Refuse(p)
    ELSE IF UpToDate(p)
    THEN IF UpToDateOK(p) THEN Report(p, "current") ELSE Refuse(p)
    ELSE IF UpdateOK(p)
    THEN Begin(p, "install", Load(Binary[p], receipt.runtimes \cup job[p].want),
               "reserve", Names[Binary[p]] \ Installed(receipt))
    ELSE Refuse(p)

\* uninstallDestination.  Without a receipt at the first reading it is not read
\* again; with one, the claims are compared with the files of that first
\* reading and the consumers of the second.  To unlink, the claims are paired
\* with the files of the second, which fails when there are more or fewer.
SameCount(p) == Cardinality(Installed(job[p].seen)) = Cardinality(Installed(receipt))
CheckUninstall(p) ==
    IF job[p].seen = NoReceipt
    THEN IF ClaimsAbsent(Names[Binary[p]]) THEN Report(p, "absent") ELSE Refuse(p)
    ELSE IF receipt # NoReceipt /\ TreesMatch(receipt)
            /\ ClaimsMatch(Installed(job[p].seen), Load(job[p].seen.version, receipt.runtimes))
    THEN IF receipt.runtimes \cap job[p].want = {} THEN Report(p, "absent")
         ELSE IF receipt.runtimes \subseteq job[p].want
         THEN Begin(p, "remove", NoReceipt, "mark", Installed(job[p].seen))
         ELSE IF SameCount(p)
         THEN Begin(p, "unlink", Load(receipt.version, receipt.runtimes \ job[p].want),
                    "mark", Installed(job[p].seen))
         ELSE Refuse(p)
    ELSE Refuse(p)

Check(p) ==
    /\ pc[p] = "check"
    /\ IF job[p].kind = "install" THEN CheckInstall(p) ELSE CheckUninstall(p)
    /\ UNCHANGED <<disk, aside, mine, ops, faults, crashes>>

-----------------------------------------------------------------------------
(* The work, one system call or one claim write at a time *)

Forward   == {"reserve", "mark", "activate", "admit", "drop"}
Backward  == {"revive", "withdraw", "unadmit"}

\* rollbackClaimsToAbsent: by way of active and releasing, whatever the state.
TowardAbsentAtOnce(c) == NoClaim
TowardAbsent(c) ==
    IF c.state \in {"reserved", "updating"} THEN Moved(c, "active", c.op, c.load)
    ELSE IF c.state = "active" THEN Moved(c, "releasing", NewOp(c), c.load)
    ELSE NoClaim

\* rollbackClaimsToActive: back to the payload of the original.
TowardActive(c, load) ==
    IF c = NoClaim THEN Reserved(load)
    ELSE IF c.state = "active" THEN Moved(c, "updating", NewOp(c), load)
    ELSE Moved(c, "active", c.op, load)

\* What the phase writes to the claim of s.
Marked(p, c) == IF job[p].flow = "remove" THEN Moved(c, "releasing", NewOp(c), c.load)
                ELSE Moved(c, "updating", NewOp(c), job[p].next)
NewClaim(p, s) ==
    LET c == claim[s] IN
    CASE pc[p] = "reserve" -> Reserved(job[p].next)
      [] pc[p] = "mark"    -> Marked(p, c)
      [] pc[p] \in {"activate", "admit"} -> Moved(c, "active", c.op, c.load)
      [] pc[p] = "drop"    -> NoClaim
      [] pc[p] = "revive"  -> TowardActive(c, base[p][s].load)
      [] OTHER             -> TowardAbsent(c)

\* Is s where the way back wants it?
BackThere(p, s) ==
    IF pc[p] = "revive"
    THEN claim[s] # NoClaim /\ claim[s].state = "active" /\ claim[s].load = base[p][s].load
    ELSE claim[s] = NoClaim

\* One write of a claim, or on the way back none when none is needed.
WriteClaim(p) ==
    /\ pc[p] \in Forward \cup Backward
    /\ \E s \in left[p] :
         /\ IsFirst(s, left[p])
         /\ IF pc[p] \in Backward /\ BackThere(p, s)
            THEN Treated(p, s) /\ UNCHANGED <<claim, mine>>
            ELSE /\ claim' = [claim EXCEPT ![s] = NewClaim(p, s)]
                 /\ mine' = IF pc[p] = "reserve" THEN [mine EXCEPT ![p] = @ \cup {s}]
                            ELSE mine
                 /\ IF pc[p] \in Backward THEN UNCHANGED <<pc, left>> ELSE Treated(p, s)
    /\ UNCHANGED <<lock, tree, receipt, job, base, aside, why, ops, faults, crashes>>

\* replaceSkillDirectories: look at the destination, move away what the
\* receipt owns, refuse anything else; then rename the new tree into place,
\* which fails if something has come there.
Owned(p, s)    == s \in Installed(job[p].rec)
CollidesInUpgrade(p, s) == tree[s] # Nothing /\ job[p].rec # NoReceipt /\ ~Owned(p, s)
Collides(p, s) == tree[s] # Nothing /\ ~Owned(p, s)
Look(p) ==
    /\ pc[p] = "swap"
    /\ \E s \in left[p] :
         /\ IsFirst(s, left[p]) /\ aside[p][s] = NotMoved
         /\ IF Collides(p, s) THEN Fail(p) /\ UNCHANGED <<tree, aside>>
            ELSE /\ aside' = [aside EXCEPT ![p][s] = tree[s]]
                 /\ tree' = [tree EXCEPT ![s] = Nothing]
                 /\ UNCHANGED <<pc, left, why>>
    /\ UNCHANGED <<lock, claim, receipt, job, base, mine, ops, faults, crashes>>
Place(p) ==
    /\ pc[p] = "swap"
    /\ \E s \in left[p] :
         /\ IsFirst(s, left[p]) /\ aside[p][s] # NotMoved
         /\ IF tree[s] # Nothing THEN Fail(p) /\ UNCHANGED tree
            ELSE /\ tree' = [tree EXCEPT ![s] = job[p].next.version]
                 /\ Treated(p, s) /\ UNCHANGED why
    /\ UNCHANGED <<lock, claim, receipt, job, base, aside, mine, ops, faults, crashes>>

\* stageManagedRemoval.
Stage(p) ==
    /\ pc[p] = "stage"
    /\ \E s \in left[p] :
         /\ IsFirst(s, left[p])
         /\ aside' = [aside EXCEPT ![p][s] = tree[s]]
         /\ tree' = [tree EXCEPT ![s] = Nothing]
         /\ Treated(p, s)
    /\ UNCHANGED <<lock, claim, receipt, job, base, mine, why, ops, faults, crashes>>

\* The rollback of either: an installation removes whatever is at the place of
\* every recorded move and puts its backup back; a removal puts the staged tree
\* back, unless something has come there.
Undone(p, s) == IF job[p].flow = "install" \/ tree[s] = Nothing
                THEN aside[p][s] ELSE tree[s]
Undo(p) ==
    /\ pc[p] = "undo"
    /\ \E s \in left[p] :
         /\ IsLast(s, left[p])
         /\ tree' = [tree EXCEPT ![s] = Undone(p, s)]
         /\ Treated(p, s)
    /\ UNCHANGED <<lock, claim, receipt, job, base, aside, mine, why, ops, faults, crashes>>

\* writeReceipt, os.Remove(receiptFile), restoreReceipt.
NewReceipt(p) == IF pc[p] = "restore" THEN job[p].rec ELSE job[p].next
WriteReceipt(p) ==
    /\ pc[p] \in {"record", "forget", "restore"}
    /\ receipt' = NewReceipt(p)
    /\ Goto(p, Following(p, pc[p]))
    /\ UNCHANGED <<lock, claim, tree, job, base, aside, mine, why, ops, faults, crashes>>

\* finalize: the staging directory goes.
Clean(p) ==
    /\ pc[p] = "clean"
    /\ aside' = [aside EXCEPT ![p] = NoMoves]
    /\ Goto(p, "release")
    /\ UNCHANGED <<disk, job, base, mine, why, ops, faults, crashes>>

\* LockSet.Release: in reverse order.
Release(p) ==
    /\ pc[p] = "release"
    /\ \E s \in left[p] :
         /\ IsLast(s, left[p])
         /\ lock' = [lock EXCEPT ![s] = Free]
         /\ Treated(p, s)
    /\ UNCHANGED <<claim, tree, receipt, job, base, aside, mine, why, ops, faults, crashes>>
Return(p) ==
    /\ pc[p] = "release" /\ left[p] = {}
    /\ Idle(p)
    /\ UNCHANGED <<disk, ops, faults, crashes>>

-----------------------------------------------------------------------------
(* What goes wrong *)

\* A system call of the way forward fails and has done nothing.  The last call
\* of `swap` and `stage` is a directory sync, when all trees are in place.
CanFail(p) ==
    \/ pc[p] \in Forward \cup {"lock"} /\ left[p] # {}
    \/ pc[p] \in {"swap", "stage"} /\ Work(p, pc[p]) # {}
    \/ pc[p] \in {"record", "forget"}
FailsEarly(p) ==
    /\ CanFail(p) /\ Fault /\ Fail(p)
    /\ UNCHANGED <<disk, job, base, aside, mine, ops, crashes>>

\* It fails after it took effect: the file was renamed, or removed, and the sync
\* of its directory failed.  A new claim may also be left half written.
FailsLate(p) ==
    /\ LateFaults
    /\ \/ /\ pc[p] \in Forward
          /\ \E s \in left[p] :
             \E c \in {NewClaim(p, s)} \cup (IF pc[p] = "reserve" THEN {Torn} ELSE {}) :
                IsFirst(s, left[p]) /\ claim' = [claim EXCEPT ![s] = c]
          /\ UNCHANGED receipt
       \/ /\ pc[p] = "record"
          /\ receipt' = NewReceipt(p) /\ UNCHANGED claim
    /\ Fault /\ Fail(p)
    /\ UNCHANGED <<lock, tree, job, base, aside, mine, ops, crashes>>

\* On the way back: the claim loops give up, the others carry on.
BackFails(p) ==
    /\ pc[p] \in Backward \cup {"undo"}
    /\ Fault
    /\ \E s \in left[p] :
         /\ IsLast(s, left[p])
         /\ left' = [left EXCEPT ![p] = IF pc[p] = "undo" THEN @ \ {s} ELSE {}]
    /\ UNCHANGED <<disk, pc, job, base, aside, mine, why, ops, crashes>>
RestoreFails(p) ==
    /\ pc[p] = "restore" /\ Fault
    /\ Goto(p, Following(p, "restore"))
    /\ UNCHANGED <<disk, job, base, aside, mine, why, ops, crashes>>

\* finalize fails: only an upgrade takes that for an error.
Upgrade(p) == job[p].flow = "install" /\ job[p].rec # NoReceipt
CleanFails(p) ==
    /\ pc[p] = "clean" /\ Work(p, "undo") # {} /\ Fault
    /\ IF Upgrade(p) THEN Fail(p) ELSE Goto(p, "release") /\ UNCHANGED why
    /\ UNCHANGED <<disk, job, base, aside, mine, ops, crashes>>

\* A lock directory cannot be removed: it stays, and nobody owns it.
ReleaseFails(p) ==
    /\ pc[p] = "release" /\ Fault
    /\ \E s \in left[p] :
         /\ IsLast(s, left[p])
         /\ lock' = [lock EXCEPT ![s] = Stale]
         /\ Treated(p, s)
    /\ UNCHANGED <<claim, tree, receipt, job, base, aside, mine, why, ops, crashes>>

\* The process dies.  Its locks stay, and what it had staged is never read again.
Crash(p) ==
    /\ pc[p] # "idle" /\ crashes < MaxCrashes
    /\ crashes' = crashes + 1
    /\ lock' = [s \in Skills |-> IF lock[s] = p THEN Stale ELSE lock[s]]
    /\ Idle(p)
    /\ UNCHANGED <<claim, tree, receipt, ops, faults>>

\* Somebody removes a lock that a dead process left.
RemoveStaleLock(s) ==
    /\ lock[s] = Stale
    /\ lock' = [lock EXCEPT ![s] = Free]
    /\ UNCHANGED <<claim, tree, receipt, procVars, ops, faults, crashes>>

\* Somebody puts a tree of his own where there is none.  The window: an
\* installation has looked at the place and not yet filled, or left, it.
InWindow(s) == \E p \in Procs : /\ pc[p] \in {"swap", "undo"} /\ s \in left[p]
                                /\ aside[p][s] # NotMoved /\ job[p].flow = "install"
AddTree(s) ==
    /\ UserAdds /\ tree[s] = Nothing
    /\ InWindow(s) => UserInWindow
    /\ tree' = [tree EXCEPT ![s] = Foreign]
    /\ UNCHANGED <<lock, claim, receipt, procVars, ops, faults, crashes>>

-----------------------------------------------------------------------------
Init ==
    /\ ProtocolInit
    /\ \E S \in SUBSET ForeignSkills :
         /\ tree = [s \in Skills |-> IF s \in S THEN Foreign ELSE Nothing]
         /\ \E v \in Versions, r \in (SUBSET Runtimes) \ {{}} :
              claim = [s \in Skills |-> IF s \in S
                 THEN [Reserved(Load(v, r)) EXCEPT !.producer = "other", !.state = "active"]
                 ELSE NoClaim]
    /\ receipt = NoReceipt
    /\ pc = [p \in Procs |-> "idle"]
    /\ left = [p \in Procs |-> {}]
    /\ job = [p \in Procs |-> NoJob]
    /\ base = [p \in Procs |-> NoClaims]
    /\ aside = [p \in Procs |-> NoMoves]
    /\ mine = [p \in Procs |-> {}]
    /\ why = [p \in Procs |-> "none"]
    /\ ops = 0 /\ faults = 0 /\ crashes = 0

\* A process that goes on, and what may happen to it.
GoOn(p) == \/ PhaseEnds(p) \/ Read(p) \/ Mkdir(p) \/ Check(p)
           \/ WriteClaim(p) \/ Look(p) \/ Place(p) \/ Stage(p) \/ Undo(p)
           \/ WriteReceipt(p) \/ Clean(p) \/ Release(p) \/ Return(p)
Disturbed(p) == \/ FailsEarly(p) \/ FailsLate(p) \/ BackFails(p) \/ RestoreFails(p)
                \/ CleanFails(p) \/ ReleaseFails(p) \/ Crash(p)
Next ==
    \/ \E p \in Procs : Start(p) \/ GoOn(p) \/ Disturbed(p)
    \/ \E s \in Skills : RemoveStaleLock(s) \/ AddTree(s)

Spec == Init /\ [][Next]_vars

-----------------------------------------------------------------------------
(* Properties *)

\* The type invariant.
TypeOK ==
    /\ lock \in [Skills -> Procs \cup {Free, Stale}]
    /\ claim \in [Skills -> Claims \cup {NoClaim, Torn}]
    /\ tree \in [Skills -> Versions \cup {Nothing, Foreign}]
    /\ receipt \in Receipts
    /\ pc \in [Procs -> Phases]
    /\ left \in [Procs -> SUBSET Skills]
    /\ job \in [Procs -> Jobs]
    /\ base \in [Procs -> [Skills -> Claims \cup {NoClaim}]]
    /\ aside \in [Procs -> [Skills -> Versions \cup {Nothing, Foreign, NotMoved}]]
    /\ mine \in [Procs -> SUBSET Skills]
    /\ why \in [Procs -> Phases \cup {"none"}]
    /\ ops \in Nat /\ faults \in Nat /\ crashes \in Nat

Writing  == (Looping \ {"lock", "release"}) \cup {"record", "forget", "clean", "restore"}
Anchored(p) == \E s \in Held(p) : \A v \in Versions : s \in Names[v]

\* The receipt has no lock of its own: only because any two bundles share a
\* skill do the locks of single skills keep two operations from working on the
\* receipt and the staging directories of one destination together
\* (install_flow.go:125-143, uninstall.go:126-140).
OneWriter ==
    \A p, q \in Procs : pc[p] \in Writing /\ pc[q] \in Writing => p = q

\* Nothing read or written under the locks changes before it is used again:
\* no CompareAndSwap of the way forward, whose predecessor is the claim in the
\* process's memory, runs into "claim reservation changed" (claims.go:202-321).
ReadUnderLockStays ==
    \A p \in Procs : \A s \in left[p] :
        /\ pc[p] = "reserve" => claim[s] = NoClaim
        /\ pc[p] = "mark" => claim[s] = base[p][s]
        /\ pc[p] \in {"stage", "activate", "drop"} /\ s \in Old(p) =>
             claim[s] = Marked(p, base[p][s])
        /\ pc[p] = "admit" => claim[s] = Reserved(job[p].next)

\* What an operation reports as done is so while it still holds its locks,
\* whatever went wrong before, here or in another process: receipt, claims and
\* trees agree with each other and with the request (install_flow.go:146-296,
\* uninstall.go:150-306).
Consistent == TreesMatch(receipt) /\ ClaimsMatch(Names[receipt.version], receipt)
Reported(p, flow) == pc[p] = "release" /\ Anchored(p) /\ why[p] = "none"
                     /\ job[p].flow \in flow
InstallIsReal(p) ==
    Reported(p, {"install", "current"}) =>
        /\ receipt # NoReceipt /\ receipt.version = Binary[p]
        /\ job[p].want \subseteq receipt.runtimes
        /\ Consistent
UninstallIsReal(p) ==
    /\ Reported(p, {"unlink"}) =>
         /\ receipt # NoReceipt /\ receipt.runtimes \cap job[p].want = {}
         /\ Consistent
    /\ Reported(p, {"remove"}) =>
         /\ receipt = NoReceipt
         /\ \A s \in Installed(job[p].rec) : claim[s] = NoClaim /\ tree[s] \notin Versions
SuccessIsReal == \A p \in Procs : InstallIsReal(p) /\ UninstallIsReal(p)

\* An operation that fails once it has begun to write, for one failure that has
\* no effect of its own, leaves receipt, claims and trees as it found them: the
\* error paths of install_flow.go:208-280, 330-395 and uninstall.go:230-305.
AsBefore(p) ==
    /\ receipt = job[p].rec
    /\ receipt # NoReceipt => Consistent
    /\ \A s \in Held(p) \ Installed(receipt) : claim[s] = NoClaim /\ tree[s] \notin Versions
FailedMeansUndone ==
    \A p \in Procs :
        pc[p] = "release" /\ Anchored(p) /\ job[p].flow # "none"
            /\ why[p] \notin {"none", "clean"} => AsBefore(p)

\* Trees that are not DVA's stay (replace.go:94-160, removal.go:11-62,
\* install_test.go:328-331).
ForeignKept == [][\A s \in Skills : tree[s] = Foreign => tree'[s] = Foreign]_vars

\* Claims and locks only move as the ownership protocol allows: under the lock,
\* one generation at a time, through the permitted states, and never a claim
\* of another producer (PROTOCOL.md, claim_locks.go:115-193).
FollowsProtocol == ProtocolInit /\ [][ProtocolNext]_<<lock, claim>>

=============================================================================
