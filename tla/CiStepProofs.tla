----------------------------- MODULE CiStepProofs -----------------------------
(***************************************************************************)
(* Theorems about what a CI step does on its own: in a container (OciStep) *)
(* and with the cache that may spare it (CiReuse).                         *)
(***************************************************************************)
EXTENDS OciStep, CiReuse, FiniteSetTheorems, TLAPS


-----------------------------------------------------------------------------
(* Containers: the inductive invariant *)

\* Before the request to create it there is nothing; the intent comes before that.
NothingYet ==
    /\ oci.pc \in {"idle", "prepare", "copy", "intent", "same", "create"}
          => oci.cleanup = "not-created"
    /\ oci.cleanup = "not-created" =>
         /\ ~Exists /\ ~Born /\ asked = 0 /\ ~oci.bound /\ ~oci.attached
         /\ oci.pc \notin {"await", "bind", "verify", "again", "mark", "attach", "attached"}

NamedFirst ==
    /\ oci.pc \in {"idle", "prepare", "copy", "intent"} => intent = "none"
    /\ oci.pc \in {"same", "create"} \/ Exists \/ Born \/ asked # 0 => intent # "none"

\* The container's ID is on disk before the container may be started.
BoundFirst ==
    /\ oci.pc \in {"verify", "again", "mark", "attach", "attached"} => intent = "bound"
    /\ starting \/ box.state \in {"running", "ok", "bad"} => intent \in {"bound", "outcome"}

\* A container is asked for once, and started once.
OnceOnly ==
    /\ Exists => Born
    /\ Born => asked = 0
    /\ starting => box.state = "created" /\ oci.attached
    /\ ~oci.attached => box.state \in {"none", "created"}
    /\ oci.pc \in {"await", "bind", "verify", "again", "mark", "attach"} => ~oci.attached

\* What is known by its ID was made.
BoundIsMade ==
    /\ oci.bound => Born
    /\ oci.pc \in {"remove", "proof"} => oci.bound

\* Unless another daemon came between, it is on the daemon that is looked at.
OnPinned == ~strayed =>
    /\ asked # 2 /\ box.at # 2
    /\ oci.pc \in {"inspect", "absent", "remove", "proof"} => endpoint = 1

CleanupEarned ==
    /\ ~strayed /\ oci.cleanup \in {"not-created", "absent", "removed"} => ~Exists /\ asked = 0
    /\ oci.pc = "unsnap" => oci.cleanup \in {"not-created", "absent", "removed"}
    /\ oci.pc \in {"outcome", "ended"} => oci.cleanup # "pending"
    /\ ~snapshot => /\ oci.pc \in {"idle", "outcome", "ended", "dead"}
                    /\ oci.cleanup \in {"not-created", "absent", "removed"}

\* A step that has not failed so far.
SuccessSoFar == ~oci.failed =>
    /\ oci.pc \in {"check", "inspect", "absent", "remove", "proof", "unsnap", "outcome", "ended"} =>
         box.state = "ok"
    /\ oci.pc \in {"unsnap", "outcome", "ended"} => oci.cleanup \in {"removed", "absent"}
    /\ oci.pc \in {"outcome", "ended"} => ~snapshot
    /\ oci.pc = "ended" => intent = "outcome"

OciInv ==
    /\ OciTypeOK /\ NothingYet /\ NamedFirst /\ BoundFirst /\ OnceOnly /\ BoundIsMade
    /\ OnPinned /\ CleanupEarned /\ SuccessSoFar

-----------------------------------------------------------------------------
(* What the pieces of an action do to the locals of Run *)

OciPCs == {"idle", "ended", "dead"} \cup Running \cup Finishing
Cleanups == {"not-created", "pending", "failed", "absent", "removed"}
Locals == [pc : OciPCs, bound : BOOLEAN, attached : BOOLEAN, failed : BOOLEAN, cleanup : Cleanups]

\* The locals after a step.
Now(pc, bound, attached, failed, cleanup) ==
    /\ oci' \in Locals
    /\ oci'.pc = pc /\ oci'.bound = bound /\ oci'.attached = attached
    /\ oci'.failed = failed /\ oci'.cleanup = cleanup

LEMMA LocalsOf ==
    OciTypeOK => /\ oci \in Locals /\ oci.pc \in OciPCs /\ oci.bound \in BOOLEAN
                 /\ oci.attached \in BOOLEAN /\ oci.failed \in BOOLEAN /\ oci.cleanup \in Cleanups
BY DEF OciTypeOK, Locals, OciPCs, Cleanups

LEMMA GoNow ==
    ASSUME oci \in Locals, NEW pc \in OciPCs, OciGo(pc)
    PROVE  Now(pc, oci.bound, oci.attached, oci.failed, oci.cleanup)
BY DEF OciGo, Now, Locals

LEMMA FailNow ==
    ASSUME oci \in Locals, OciFail
    PROVE  \E pc \in {"unsnap", "observe", "check"} :
              /\ Now(pc, oci.bound, oci.attached, TRUE, oci.cleanup)
              /\ pc = "unsnap" <=> oci.cleanup = "not-created"
<1>1. Deferred \in {"unsnap", "observe", "check"}
    BY DEF Deferred
<1>2. Deferred = "unsnap" <=> oci.cleanup = "not-created"
    BY DEF Deferred
<1>3. Deferred \in OciPCs
    BY <1>1 DEF OciPCs, Finishing
<1> QED
    BY <1>1, <1>2, <1>3 DEF OciFail, Now, Locals

LEMMA CleanedNow ==
    ASSUME oci \in Locals, NEW how \in {"failed", "absent", "removed"}, Cleaned(how)
    PROVE  /\ how = "failed" => Now("outcome", oci.bound, oci.attached, TRUE, "failed")
           /\ how # "failed" => Now("unsnap", oci.bound, oci.attached, oci.failed, how)
<1>1. {"outcome", "unsnap"} \subseteq OciPCs /\ how \in Cleanups
    BY DEF OciPCs, Finishing, Cleanups
<1> QED BY <1>1 DEF Cleaned, Now, Locals

LEMMA PCsKnown ==
    {"idle", "ended", "dead", "prepare", "copy", "intent", "same", "create", "await", "bind",
     "verify", "again", "mark", "attach", "attached", "observe", "check", "inspect", "absent",
     "remove", "proof", "unsnap", "outcome"} = OciPCs
BY DEF OciPCs, Running, Finishing

\* The other variables.
RestTyped ==
    /\ over \in BOOLEAN /\ intent \in {"none", "named", "bound", "outcome"} /\ stuck \in BOOLEAN
    /\ snapshot \in BOOLEAN
    /\ endpoint \in Daemons /\ switches \in 0..MaxSwitches /\ asked \in Daemons \cup {0}
    /\ box \in [at : Daemons \cup {0}, state : BoxStates, named : BOOLEAN]
    /\ starting \in BOOLEAN /\ other \in [Daemons -> BOOLEAN] /\ strayed \in BOOLEAN

LEMMA TypeParts == OciTypeOK <=> oci \in Locals /\ RestTyped
BY DEF OciTypeOK, Locals, OciPCs, Cleanups, RestTyped

LEMMA RestKept == RestTyped /\ [OciNext]_ociVars => RestTyped'
<1> SUFFICES ASSUME RestTyped, [OciNext]_ociVars PROVE RestTyped'
    OBVIOUS
<1> USE DEF RestTyped, disk, docker
<1>1. CASE UNCHANGED <<over, intent, stuck, snapshot, endpoint, switches, box, asked, starting,
        other, strayed>>
    BY <1>1
<1>2. CASE BeginOci
    BY <1>2 DEF BeginOci
<1>3. CASE NameIntent
    BY <1>3 DEF NameIntent, PersistIntent
<1>4. CASE Create
    BY <1>4 DEF Create, Daemons
<1>5. CASE BindIntent
    BY <1>5 DEF BindIntent, PersistIntent
<1>6. CASE Attach
    BY <1>6 DEF Attach
<1>7. CASE InspectOwn
    BY <1>7 DEF InspectOwn, PersistIntent
<1>8. CASE Remove
    BY <1>8 DEF Remove
<1>9. CASE Unsnap
    BY <1>9 DEF Unsnap
<1>10. CASE Conclude
    BY <1>10 DEF Conclude, PersistIntent
<1>11. CASE Expire
    BY <1>11 DEF Expire
<1>12. CASE Land
    BY <1>12 DEF Land, BoxStates, Daemons
<1>13. CASE Lose
    BY <1>13 DEF Lose
<1>14. CASE StartLands
    BY <1>14 DEF StartLands, BoxStates
<1>15. CASE WorkEnds
    BY <1>15 DEF WorkEnds, BoxStates
<1>16. CASE Meddle
    BY <1>16 DEF Meddle, BoxStates
<1>17. CASE Switch
    BY <1>17, OciAssumption DEF Switch, Daemons
<1>18. ASSUME NEW d \in Daemons, TakeName(d) PROVE RestTyped'
    BY <1>18 DEF TakeName
<1> QED
    BY <1>1, <1>2, <1>3, <1>4, <1>5, <1>6, <1>7, <1>8, <1>9, <1>10, <1>11, <1>12, <1>13, <1>14,
       <1>15, <1>16, <1>17, <1>18
       DEF OciNext, RunOci, FinishOci, ociVars, Prepare, CopyInput, CheckDaemon, Created, Verify,
             AttachReturns, Break, Observe, CheckAgain, InspectOther, InspectNothing, ProveAbsent,
                   ProveRemoved, Die

-----------------------------------------------------------------------------
(* Containers: the steps *)

OciParts ==
    /\ NothingYet /\ NamedFirst /\ BoundFirst /\ OnceOnly /\ BoundIsMade
    /\ OnPinned /\ CleanupEarned /\ SuccessSoFar

LEMMA BeginOciKeeps == ASSUME OciInv, BeginOci PROVE oci' \in Locals /\ OciParts'
<1>1. oci \in Locals /\ RestTyped
    BY TypeParts DEF OciInv
<1>2. \/ snapshot' /\ Now("prepare", oci.bound, oci.attached, oci.failed, oci.cleanup)
      \/ Now("ended", oci.bound, oci.attached, TRUE, oci.cleanup)
    BY <1>1, PCsKnown, GoNow DEF BeginOci, Now, Locals
<1>3. oci' \in Locals
    BY <1>2 DEF Now
<1>4. NothingYet' /\ NamedFirst' /\ BoundFirst'
    BY <1>1, <1>2 DEF OciInv, NothingYet, NamedFirst, BoundFirst, Now, Exists, Born, docker,
       BeginOci
<1>5. OnceOnly' /\ BoundIsMade' /\ OnPinned'
    BY <1>1, <1>2 DEF OciInv, OnceOnly, BoundIsMade, OnPinned, Now, Exists, Born, docker, BeginOci
<1>6. CleanupEarned'
    BY <1>1, <1>2 DEF OciInv, NothingYet, CleanupEarned, Now, Exists, docker, BeginOci
<1>7. SuccessSoFar'
    BY <1>1, <1>2 DEF OciInv, SuccessSoFar, Now, BeginOci
<1> QED BY <1>3, <1>4, <1>5, <1>6, <1>7 DEF OciParts

LEMMA PrepareKeeps == ASSUME OciInv, Prepare PROVE oci' \in Locals /\ OciParts'
<1>1. oci \in Locals /\ RestTyped
    BY TypeParts DEF OciInv
<1>2. Now("copy", oci.bound, oci.attached, oci.failed, oci.cleanup)
    BY <1>1, PCsKnown, GoNow DEF Prepare
<1>3. oci' \in Locals
    BY <1>2 DEF Now
<1>4. NothingYet' /\ NamedFirst' /\ BoundFirst'
    BY <1>1, <1>2 DEF OciInv, NothingYet, NamedFirst, BoundFirst, Now, Exists, Born, disk, docker,
       Prepare
<1>5. OnceOnly' /\ BoundIsMade' /\ OnPinned'
    BY <1>1, <1>2 DEF OciInv, OnceOnly, BoundIsMade, OnPinned, Now, Exists, Born, docker, Prepare
<1>6. CleanupEarned'
    BY <1>1, <1>2 DEF OciInv, CleanupEarned, Now, Exists, disk, docker, Prepare
<1>7. SuccessSoFar'
    BY <1>1, <1>2 DEF OciInv, SuccessSoFar, Now, Prepare
<1> QED BY <1>3, <1>4, <1>5, <1>6, <1>7 DEF OciParts

LEMMA CopyInputKeeps == ASSUME OciInv, CopyInput PROVE oci' \in Locals /\ OciParts'
<1>1. oci \in Locals /\ RestTyped
    BY TypeParts DEF OciInv
<1>2. Now("intent", oci.bound, oci.attached, oci.failed, oci.cleanup)
    BY <1>1, PCsKnown, GoNow DEF CopyInput
<1>3. oci' \in Locals
    BY <1>2 DEF Now
<1>4. NothingYet' /\ NamedFirst' /\ BoundFirst'
    BY <1>1, <1>2 DEF OciInv, NothingYet, NamedFirst, BoundFirst, Now, Exists, Born, disk, docker,
       CopyInput
<1>5. OnceOnly' /\ BoundIsMade' /\ OnPinned'
    BY <1>1, <1>2 DEF OciInv, OnceOnly, BoundIsMade, OnPinned, Now, Exists, Born, docker, CopyInput
<1>6. CleanupEarned'
    BY <1>1, <1>2 DEF OciInv, CleanupEarned, Now, Exists, disk, docker, CopyInput
<1>7. SuccessSoFar'
    BY <1>1, <1>2 DEF OciInv, SuccessSoFar, Now, CopyInput
<1> QED BY <1>3, <1>4, <1>5, <1>6, <1>7 DEF OciParts

LEMMA NameIntentKeeps == ASSUME OciInv, NameIntent PROVE oci' \in Locals /\ OciParts'
<1>1. oci \in Locals /\ RestTyped
    BY TypeParts DEF OciInv
<1>2. \/ intent' = "named" /\ Now("same", oci.bound, oci.attached, oci.failed, oci.cleanup)
      \/ \E pc \in {"unsnap", "observe", "check"} :
        Now(pc, oci.bound, oci.attached, TRUE, oci.cleanup)
              /\ (pc = "unsnap" <=> oci.cleanup = "not-created")
    BY <1>1, PCsKnown, GoNow, FailNow DEF NameIntent, PersistIntent
<1>3. oci' \in Locals
    BY <1>2 DEF Now
<1>4. NothingYet' /\ NamedFirst' /\ BoundFirst'
    BY <1>1, <1>2 DEF OciInv, NothingYet, NamedFirst, BoundFirst, Now, Exists, Born, docker,
       NameIntent, PersistIntent
<1>5. OnceOnly' /\ BoundIsMade' /\ OnPinned'
    BY <1>1, <1>2 DEF OciInv, OnceOnly, BoundIsMade, OnPinned, Now, Exists, Born, docker, NameIntent,
       PersistIntent
<1>6. CleanupEarned'
    BY <1>1, <1>2 DEF OciInv, CleanupEarned, Now, Exists, docker, NameIntent, PersistIntent
<1>7. SuccessSoFar'
    BY <1>1, <1>2 DEF OciInv, SuccessSoFar, Now, NameIntent, PersistIntent
<1> QED BY <1>3, <1>4, <1>5, <1>6, <1>7 DEF OciParts

LEMMA CheckDaemonKeeps == ASSUME OciInv, CheckDaemon PROVE oci' \in Locals /\ OciParts'
<1>1. oci \in Locals /\ RestTyped
    BY TypeParts DEF OciInv
<1>2. Now(IF oci.pc = "same" THEN "create" ELSE "mark", oci.bound, oci.attached, oci.failed,
        oci.cleanup)
    BY <1>1, PCsKnown, GoNow DEF CheckDaemon
<1>3. oci' \in Locals
    BY <1>2 DEF Now
<1>4. NothingYet' /\ NamedFirst' /\ BoundFirst'
    BY <1>1, <1>2 DEF OciInv, NothingYet, NamedFirst, BoundFirst, Now, Exists, Born, disk, docker,
       CheckDaemon
<1>5. OnceOnly' /\ BoundIsMade' /\ OnPinned'
    BY <1>1, <1>2 DEF OciInv, OnceOnly, BoundIsMade, OnPinned, Now, Exists, Born, docker,
       CheckDaemon
<1>6. CleanupEarned'
    BY <1>1, <1>2 DEF OciInv, CleanupEarned, Now, Exists, disk, docker, CheckDaemon
<1>7. SuccessSoFar'
    BY <1>1, <1>2 DEF OciInv, SuccessSoFar, Now, CheckDaemon
<1> QED BY <1>3, <1>4, <1>5, <1>6, <1>7 DEF OciParts

LEMMA CreateKeeps == ASSUME OciInv, Create PROVE oci' \in Locals /\ OciParts'
<1>1. oci \in Locals /\ RestTyped
    BY TypeParts DEF OciInv
<1>2. Now("await", oci.bound, oci.attached, oci.failed, "pending")
    BY <1>1, PCsKnown DEF Create, Now, Locals, Cleanups
<1>3. oci' \in Locals
    BY <1>2 DEF Now
<1>4. NothingYet' /\ NamedFirst' /\ BoundFirst'
    BY <1>1, <1>2 DEF OciInv, NothingYet, NamedFirst, BoundFirst, Now, disk, Create, Daemons
<1>5. OnceOnly' /\ BoundIsMade' /\ OnPinned'
    BY <1>1, <1>2 DEF OciInv, NothingYet, OnceOnly, BoundIsMade, OnPinned, CleanupEarned, RestTyped,
       Now, Exists, Born, Create, Daemons
<1>6. CleanupEarned'
    BY <1>1, <1>2 DEF OciInv, CleanupEarned, Now, disk, Create, Daemons
<1>7. SuccessSoFar'
    BY <1>1, <1>2 DEF OciInv, SuccessSoFar, Now, Create, Daemons
<1> QED BY <1>3, <1>4, <1>5, <1>6, <1>7 DEF OciParts

LEMMA CreatedKeeps == ASSUME OciInv, Created PROVE oci' \in Locals /\ OciParts'
<1>1. oci \in Locals /\ RestTyped
    BY TypeParts DEF OciInv
<1>2. Now("bind", TRUE, oci.attached, oci.failed, oci.cleanup)
    BY <1>1, PCsKnown DEF Created, Now, Locals
<1>3. oci' \in Locals
    BY <1>2 DEF Now
<1>4. NothingYet' /\ NamedFirst' /\ BoundFirst'
    BY <1>1, <1>2 DEF OciInv, NothingYet, NamedFirst, BoundFirst, Now, disk, docker, Created
<1>5. OnceOnly' /\ BoundIsMade' /\ OnPinned'
    BY <1>1, <1>2 DEF OciInv, OnceOnly, BoundIsMade, OnPinned, Now, Born, docker, Created
<1>6. CleanupEarned'
    BY <1>1, <1>2 DEF OciInv, CleanupEarned, Now, Exists, disk, docker, Created
<1>7. SuccessSoFar'
    BY <1>1, <1>2 DEF OciInv, SuccessSoFar, Now, Created
<1> QED BY <1>3, <1>4, <1>5, <1>6, <1>7 DEF OciParts

LEMMA BindIntentKeeps == ASSUME OciInv, BindIntent PROVE oci' \in Locals /\ OciParts'
<1>1. oci \in Locals /\ RestTyped
    BY TypeParts DEF OciInv
<1>2. \/ intent' = "bound"
        /\ Now(IF oci.pc = "bind" THEN "verify" ELSE "attach", oci.bound, oci.attached, oci.failed,
              oci.cleanup)
      \/ \E pc \in {"unsnap", "observe", "check"} :
        Now(pc, oci.bound, oci.attached, TRUE, oci.cleanup)
              /\ (pc = "unsnap" <=> oci.cleanup = "not-created")
    BY <1>1, PCsKnown, GoNow, FailNow DEF BindIntent, PersistIntent
<1>3. oci' \in Locals
    BY <1>2 DEF Now
<1>4. NothingYet' /\ NamedFirst' /\ BoundFirst'
    BY <1>1, <1>2 DEF OciInv, NothingYet, NamedFirst, BoundFirst, OnceOnly, BoundIsMade, OnPinned,
       CleanupEarned, SuccessSoFar, RestTyped, Now, Exists, Born, disk, docker, BindIntent,
             PersistIntent
<1>5. OnceOnly' /\ BoundIsMade' /\ OnPinned'
    BY <1>1, <1>2 DEF OciInv, OnceOnly, BoundIsMade, OnPinned, Now, Exists, Born, docker, BindIntent,
       PersistIntent
<1>6. CleanupEarned'
    BY <1>1, <1>2 DEF OciInv, CleanupEarned, Now, Exists, docker, BindIntent, PersistIntent
<1>7. SuccessSoFar'
    BY <1>1, <1>2 DEF OciInv, SuccessSoFar, Now, BindIntent, PersistIntent
<1> QED BY <1>3, <1>4, <1>5, <1>6, <1>7 DEF OciParts

LEMMA VerifyKeeps == ASSUME OciInv, Verify PROVE oci' \in Locals /\ OciParts'
<1>1. oci \in Locals /\ RestTyped
    BY TypeParts DEF OciInv
<1>2. Now("again", oci.bound, oci.attached, oci.failed, oci.cleanup)
    BY <1>1, PCsKnown, GoNow DEF Verify
<1>3. oci' \in Locals
    BY <1>2 DEF Now
<1>4. NothingYet' /\ NamedFirst' /\ BoundFirst'
    BY <1>1, <1>2 DEF OciInv, NothingYet, NamedFirst, BoundFirst, Now, disk, Verify, Here
<1>5. OnceOnly' /\ BoundIsMade' /\ OnPinned'
    BY <1>1, <1>2 DEF OciInv, OnceOnly, BoundIsMade, OnPinned, Now, Born, docker, Verify, Here
<1>6. CleanupEarned'
    BY <1>1, <1>2 DEF OciInv, CleanupEarned, Now, disk, docker, Verify, Here
<1>7. SuccessSoFar'
    BY <1>1, <1>2 DEF OciInv, SuccessSoFar, Now, Verify, Here
<1> QED BY <1>3, <1>4, <1>5, <1>6, <1>7 DEF OciParts

LEMMA AttachKeeps == ASSUME OciInv, Attach PROVE oci' \in Locals /\ OciParts'
<1>1. oci \in Locals /\ RestTyped
    BY TypeParts DEF OciInv
<1>2. Now("attached", oci.bound, TRUE, oci.failed, oci.cleanup)
    BY <1>1, PCsKnown DEF Attach, Now, Locals
<1>3. oci' \in Locals
    BY <1>2 DEF Now
<1>4. NothingYet' /\ NamedFirst' /\ BoundFirst'
    BY <1>1, <1>2 DEF OciInv, NothingYet, NamedFirst, BoundFirst, Now, disk, Attach, Here
<1>5. OnceOnly' /\ BoundIsMade' /\ OnPinned'
    BY <1>1, <1>2 DEF OciInv, NothingYet, NamedFirst, BoundFirst, OnceOnly, BoundIsMade, OnPinned,
       CleanupEarned, SuccessSoFar, RestTyped, Now, Exists, Born, disk, docker, Attach, Here
<1>6. CleanupEarned'
    BY <1>1, <1>2 DEF OciInv, CleanupEarned, Now, Exists, disk, Attach, Here
<1>7. SuccessSoFar'
    BY <1>1, <1>2 DEF OciInv, SuccessSoFar, Now, Attach, Here
<1> QED BY <1>3, <1>4, <1>5, <1>6, <1>7 DEF OciParts

LEMMA AttachReturnsKeeps == ASSUME OciInv, AttachReturns PROVE oci' \in Locals /\ OciParts'
<1>1. oci \in Locals /\ RestTyped
    BY TypeParts DEF OciInv
<1>2. \E failed \in BOOLEAN : Now("observe", oci.bound, oci.attached, failed, oci.cleanup)
    BY <1>1, PCsKnown DEF AttachReturns, Now, Locals
<1>3. oci' \in Locals
    BY <1>2 DEF Now
<1>4. NothingYet' /\ NamedFirst' /\ BoundFirst'
    BY <1>1, <1>2 DEF OciInv, NothingYet, NamedFirst, BoundFirst, Now, disk, AttachReturns
<1>5. OnceOnly' /\ BoundIsMade' /\ OnPinned'
    BY <1>1, <1>2 DEF OciInv, OnceOnly, BoundIsMade, OnPinned, Now, Exists, Born, docker,
       AttachReturns
<1>6. CleanupEarned'
    BY <1>1, <1>2 DEF OciInv, CleanupEarned, Now, Exists, disk, docker, AttachReturns
<1>7. SuccessSoFar'
    BY <1>1, <1>2 DEF OciInv, SuccessSoFar, Now, AttachReturns
<1> QED BY <1>3, <1>4, <1>5, <1>6, <1>7 DEF OciParts

LEMMA BreakKeeps == ASSUME OciInv, Break PROVE oci' \in Locals /\ OciParts'
<1>1. oci \in Locals /\ RestTyped
    BY TypeParts DEF OciInv
<1>2. \E pc \in {"unsnap", "observe", "check"} :
        Now(pc, oci.bound, oci.attached, TRUE, oci.cleanup)
              /\ (pc = "unsnap" <=> oci.cleanup = "not-created")
    BY <1>1, PCsKnown, FailNow DEF Break
<1>3. oci' \in Locals
    BY <1>2 DEF Now
<1>4. NothingYet' /\ NamedFirst' /\ BoundFirst'
    BY <1>1, <1>2 DEF OciInv, NothingYet, NamedFirst, BoundFirst, Now, Exists, Born, disk, docker,
       Break
<1>5. OnceOnly' /\ BoundIsMade' /\ OnPinned'
    BY <1>1, <1>2 DEF OciInv, OnceOnly, BoundIsMade, OnPinned, Now, Exists, Born, docker, Break
<1>6. CleanupEarned'
    BY <1>1, <1>2 DEF OciInv, CleanupEarned, Now, Exists, disk, docker, Break
<1>7. SuccessSoFar'
    BY <1>1, <1>2 DEF OciInv, SuccessSoFar, Now, Break
<1> QED BY <1>3, <1>4, <1>5, <1>6, <1>7 DEF OciParts

LEMMA ObserveKeeps == ASSUME OciInv, Observe PROVE oci' \in Locals /\ OciParts'
<1>1. oci \in Locals /\ RestTyped
    BY TypeParts DEF OciInv
<1>2. \/ Now("check", oci.bound, oci.attached, TRUE, oci.cleanup)
      \/ SeenWell /\ Now("check", oci.bound, oci.attached, oci.failed, oci.cleanup)
    BY <1>1, PCsKnown DEF Observe, Now, Locals
<1>3. oci' \in Locals
    BY <1>2 DEF Now
<1>4. NothingYet' /\ NamedFirst' /\ BoundFirst'
    BY <1>1, <1>2 DEF OciInv, NothingYet, NamedFirst, BoundFirst, Now, Exists, Born, disk, docker,
       Observe, SeenWell, Here
<1>5. OnceOnly' /\ BoundIsMade' /\ OnPinned'
    BY <1>1, <1>2 DEF OciInv, OnceOnly, BoundIsMade, OnPinned, Now, Exists, Born, docker, Observe,
       SeenWell, Here
<1>6. CleanupEarned'
    BY <1>1, <1>2 DEF OciInv, CleanupEarned, Now, Exists, disk, docker, Observe, SeenWell, Here
<1>7. SuccessSoFar'
    BY <1>1, <1>2 DEF OciInv, SuccessSoFar, Now, docker, Observe, SeenWell, Here
<1> QED BY <1>3, <1>4, <1>5, <1>6, <1>7 DEF OciParts

LEMMA CheckAgainKeeps == ASSUME OciInv, CheckAgain PROVE oci' \in Locals /\ OciParts'
<1>1. oci \in Locals /\ RestTyped
    BY TypeParts DEF OciInv
<1>2. \/ SameDaemon /\ Now("inspect", oci.bound, oci.attached, oci.failed, oci.cleanup)
      \/ Now("outcome", oci.bound, oci.attached, TRUE, "failed")
    BY <1>1, PCsKnown, GoNow, CleanedNow DEF CheckAgain
<1>3. oci' \in Locals
    BY <1>2 DEF Now
<1>4. NothingYet' /\ NamedFirst' /\ BoundFirst'
    BY <1>1, <1>2 DEF OciInv, NothingYet, NamedFirst, BoundFirst, Now, Exists, Born, disk, docker,
       CheckAgain, SameDaemon
<1>5. OnceOnly' /\ BoundIsMade' /\ OnPinned'
    BY <1>1, <1>2 DEF OciInv, OnceOnly, BoundIsMade, OnPinned, Now, Exists, Born, docker, CheckAgain,
       SameDaemon
<1>6. CleanupEarned'
    BY <1>1, <1>2 DEF OciInv, CleanupEarned, Now, Exists, disk, docker, CheckAgain, SameDaemon
<1>7. SuccessSoFar'
    BY <1>1, <1>2 DEF OciInv, SuccessSoFar, Now, docker, CheckAgain, SameDaemon
<1> QED BY <1>3, <1>4, <1>5, <1>6, <1>7 DEF OciParts

LEMMA InspectOwnKeeps == ASSUME OciInv, InspectOwn PROVE oci' \in Locals /\ OciParts'
<1>1. oci \in Locals /\ RestTyped
    BY TypeParts DEF OciInv
<1>0. Finds = "own"
    BY DEF InspectOwn, OwnsContainer
<1>2. \/ Now("remove", TRUE, oci.attached, oci.failed, oci.cleanup)
      \/ Now("outcome", oci.bound, oci.attached, TRUE, "failed")
    BY <1>1, PCsKnown, GoNow, CleanedNow, <1>0 DEF InspectOwn, PersistIntent, OwnsContainer, Now,
       Locals
<1>3. oci' \in Locals
    BY <1>2 DEF Now
<1>4. NothingYet' /\ NamedFirst' /\ BoundFirst'
    BY <1>1, <1>2 DEF OciInv, NothingYet, NamedFirst, BoundFirst, OnceOnly, BoundIsMade, OnPinned,
       CleanupEarned, SuccessSoFar, RestTyped, Now, Exists, Born, disk, docker, InspectOwn,
             PersistIntent, OwnsContainer, Finds, Here
<1>5. OnceOnly' /\ BoundIsMade' /\ OnPinned'
    BY <1>1, <1>2 DEF OciInv, OnceOnly, BoundIsMade, OnPinned, Now, Born, docker, InspectOwn,
       PersistIntent, OwnsContainer, Finds, Here
<1>6. CleanupEarned'
    BY <1>1, <1>2 DEF OciInv, CleanupEarned, Now, docker, InspectOwn, PersistIntent, OwnsContainer,
       Finds, Here
<1>7. SuccessSoFar'
    BY <1>1, <1>2 DEF OciInv, SuccessSoFar, Now, docker, InspectOwn, PersistIntent, OwnsContainer,
       Finds, Here
<1> QED BY <1>3, <1>4, <1>5, <1>6, <1>7 DEF OciParts

LEMMA InspectOtherKeeps == ASSUME OciInv, InspectOther PROVE oci' \in Locals /\ OciParts'
<1>1. oci \in Locals /\ RestTyped
    BY TypeParts DEF OciInv
<1>2. Now("outcome", oci.bound, oci.attached, TRUE, "failed")
    BY <1>1, PCsKnown, CleanedNow DEF InspectOther
<1>3. oci' \in Locals
    BY <1>2 DEF Now
<1>4. NothingYet' /\ NamedFirst' /\ BoundFirst'
    BY <1>1, <1>2 DEF OciInv, NothingYet, NamedFirst, BoundFirst, Now, Exists, Born, disk, docker,
       InspectOther
<1>5. OnceOnly' /\ BoundIsMade' /\ OnPinned'
    BY <1>1, <1>2 DEF OciInv, OnceOnly, BoundIsMade, OnPinned, Now, Exists, Born, docker,
       InspectOther
<1>6. CleanupEarned'
    BY <1>1, <1>2 DEF OciInv, CleanupEarned, Now, disk, InspectOther
<1>7. SuccessSoFar'
    BY <1>1, <1>2 DEF OciInv, SuccessSoFar, Now, InspectOther
<1> QED BY <1>3, <1>4, <1>5, <1>6, <1>7 DEF OciParts

LEMMA InspectNothingKeeps == ASSUME OciInv, InspectNothing PROVE oci' \in Locals /\ OciParts'
<1>1. oci \in Locals /\ RestTyped
    BY TypeParts DEF OciInv
<1>2. Now("absent", oci.bound, oci.attached, oci.failed, oci.cleanup)
    BY <1>1, PCsKnown, GoNow DEF InspectNothing
<1>3. oci' \in Locals
    BY <1>2 DEF Now
<1>4. NothingYet' /\ NamedFirst' /\ BoundFirst'
    BY <1>1, <1>2 DEF OciInv, NothingYet, NamedFirst, BoundFirst, Now, Exists, Born, disk, docker,
       InspectNothing
<1>5. OnceOnly' /\ BoundIsMade' /\ OnPinned'
    BY <1>1, <1>2 DEF OciInv, OnceOnly, BoundIsMade, OnPinned, Now, Exists, Born, docker,
       InspectNothing
<1>6. CleanupEarned'
    BY <1>1, <1>2 DEF OciInv, CleanupEarned, Now, Exists, disk, docker, InspectNothing
<1>7. SuccessSoFar'
    BY <1>1, <1>2 DEF OciInv, SuccessSoFar, Now, docker, InspectNothing
<1> QED BY <1>3, <1>4, <1>5, <1>6, <1>7 DEF OciParts

LEMMA ProveAbsentKeeps == ASSUME OciInv, ProveAbsent PROVE oci' \in Locals /\ OciParts'
<1>1. oci \in Locals /\ RestTyped
    BY TypeParts DEF OciInv
<1>2. \/ Absent /\ Now("unsnap", oci.bound, oci.attached, oci.failed, "absent")
      \/ Now("outcome", oci.bound, oci.attached, TRUE, "failed")
    BY <1>1, PCsKnown, CleanedNow DEF ProveAbsent
<1>3. oci' \in Locals
    BY <1>2 DEF Now
<1>4. ~strayed /\ Finds = "nothing" /\ oci.bound => ~Exists /\ asked = 0
  <2>1. oci.bound /\ ~strayed => endpoint = 1 /\ box.at # 2 /\ asked = 0
      BY DEF OciInv, BoundIsMade, OnceOnly, OnPinned, ProveAbsent
  <2>2. box.at \in {0, 1, 2}
      BY <1>1 DEF RestTyped, Daemons
  <2> QED BY <2>1, <2>2 DEF Finds, Here, Exists
<1>5. NothingYet' /\ NamedFirst' /\ BoundFirst'
    BY <1>1, <1>2 DEF OciInv, NothingYet, NamedFirst, BoundFirst, Now, Exists, Born, disk, docker,
       ProveAbsent, Absent, Finds, Here
<1>6. OnceOnly' /\ BoundIsMade' /\ OnPinned'
    BY <1>1, <1>2 DEF OciInv, OnceOnly, BoundIsMade, OnPinned, Now, Exists, Born, docker,
       ProveAbsent, Absent, Finds, Here
<1>7. CleanupEarned'
    BY <1>1, <1>2, <1>4 DEF OciInv, CleanupEarned, Now, Exists, disk, docker, ProveAbsent, Absent,
       Finds, Here
<1>8. SuccessSoFar'
    BY <1>1, <1>2 DEF OciInv, SuccessSoFar, Now, docker, ProveAbsent, Absent, Finds, Here
<1> QED BY <1>3, <1>5, <1>6, <1>7, <1>8 DEF OciParts

LEMMA RemoveKeeps == ASSUME OciInv, Remove PROVE oci' \in Locals /\ OciParts'
<1>1. oci \in Locals /\ RestTyped
    BY TypeParts DEF OciInv
<1>2. \/ Now("proof", oci.bound, oci.attached, oci.failed, oci.cleanup)
      \/ Now("outcome", oci.bound, oci.attached, TRUE, "failed")
    BY <1>1, PCsKnown, GoNow, CleanedNow DEF Remove
<1>3. oci' \in Locals
    BY <1>2 DEF Now
<1>4. NothingYet' /\ NamedFirst' /\ BoundFirst'
    BY <1>1, <1>2 DEF OciInv, NothingYet, NamedFirst, BoundFirst, RestTyped, Now, Exists, Born, disk,
       Remove, Finds, Here
<1>5. OnceOnly' /\ BoundIsMade' /\ OnPinned'
    BY <1>1, <1>2 DEF OciInv, OnceOnly, BoundIsMade, OnPinned, RestTyped, Now, Born, Remove, Finds,
       Here
<1>6. CleanupEarned'
    BY <1>1, <1>2 DEF OciInv, CleanupEarned, Now, Exists, disk, Remove, Finds, Here
<1>7. SuccessSoFar'
    BY <1>1, <1>2 DEF OciInv, SuccessSoFar, RestTyped, Now, Remove, Finds, Here
<1> QED BY <1>3, <1>4, <1>5, <1>6, <1>7 DEF OciParts

LEMMA ProveRemovedKeeps == ASSUME OciInv, ProveRemoved PROVE oci' \in Locals /\ OciParts'
<1>1. oci \in Locals /\ RestTyped
    BY TypeParts DEF OciInv
<1>2. \/ Finds = "nothing" /\ Now("unsnap", oci.bound, oci.attached, oci.failed, "removed")
      \/ Now("outcome", oci.bound, oci.attached, TRUE, "failed")
    BY <1>1, PCsKnown, CleanedNow DEF ProveRemoved
<1>3. oci' \in Locals
    BY <1>2 DEF Now
<1>4. ~strayed /\ Finds = "nothing" /\ oci.bound => ~Exists /\ asked = 0
  <2>1. oci.bound /\ ~strayed => endpoint = 1 /\ box.at # 2 /\ asked = 0
      BY DEF OciInv, BoundIsMade, OnceOnly, OnPinned, ProveRemoved
  <2>2. box.at \in {0, 1, 2}
      BY <1>1 DEF RestTyped, Daemons
  <2> QED BY <2>1, <2>2 DEF Finds, Here, Exists
<1>5. NothingYet' /\ NamedFirst' /\ BoundFirst'
    BY <1>1, <1>2 DEF OciInv, NothingYet, NamedFirst, BoundFirst, Now, Exists, Born, disk, docker,
       ProveRemoved, Finds, Here
<1>6. OnceOnly' /\ BoundIsMade' /\ OnPinned'
    BY <1>1, <1>2 DEF OciInv, OnceOnly, BoundIsMade, OnPinned, Now, Born, docker, ProveRemoved,
       Finds, Here
<1>7. CleanupEarned'
    BY <1>1, <1>2, <1>4 DEF OciInv, BoundIsMade, CleanupEarned, Now, Exists, disk, docker,
       ProveRemoved, Finds, Here
<1>8. SuccessSoFar'
    BY <1>1, <1>2 DEF OciInv, SuccessSoFar, Now, docker, ProveRemoved, Finds, Here
<1> QED BY <1>3, <1>5, <1>6, <1>7, <1>8 DEF OciParts

LEMMA UnsnapKeeps == ASSUME OciInv, Unsnap PROVE oci' \in Locals /\ OciParts'
<1>1. oci \in Locals /\ RestTyped
    BY TypeParts DEF OciInv
<1>2. \/ ~snapshot' /\ Now("outcome", oci.bound, oci.attached, oci.failed, oci.cleanup)
      \/ Now("outcome", oci.bound, oci.attached, TRUE, oci.cleanup)
    BY <1>1, PCsKnown, GoNow DEF Unsnap, Now, Locals
<1>3. oci' \in Locals
    BY <1>2 DEF Now
<1>4. NothingYet' /\ NamedFirst' /\ BoundFirst'
    BY <1>1, <1>2 DEF OciInv, NothingYet, NamedFirst, BoundFirst, Now, Exists, Born, docker, Unsnap
<1>5. OnceOnly' /\ BoundIsMade' /\ OnPinned'
    BY <1>1, <1>2 DEF OciInv, OnceOnly, BoundIsMade, OnPinned, Now, Exists, Born, docker, Unsnap
<1>6. CleanupEarned'
    BY <1>1, <1>2 DEF OciInv, CleanupEarned, Now, Exists, docker, Unsnap
<1>7. SuccessSoFar'
    BY <1>1, <1>2 DEF OciInv, SuccessSoFar, Now, docker, Unsnap
<1> QED BY <1>3, <1>4, <1>5, <1>6, <1>7 DEF OciParts

LEMMA ConcludeKeeps == ASSUME OciInv, Conclude PROVE oci' \in Locals /\ OciParts'
<1>1. oci \in Locals /\ RestTyped
    BY TypeParts DEF OciInv
<1>2. \/ intent' = "outcome" /\ Now("ended", oci.bound, oci.attached, oci.failed, oci.cleanup)
      \/ Now("ended", oci.bound, oci.attached, TRUE, oci.cleanup)
    BY <1>1, PCsKnown, GoNow DEF Conclude, PersistIntent, Now, Locals
<1>3. oci' \in Locals
    BY <1>2 DEF Now
<1>4. NothingYet' /\ NamedFirst' /\ BoundFirst'
    BY <1>1, <1>2 DEF OciInv, NothingYet, NamedFirst, BoundFirst, OnceOnly, BoundIsMade, OnPinned,
       CleanupEarned, SuccessSoFar, RestTyped, Now, Exists, Born, disk, docker, Conclude,
             PersistIntent
<1>5. OnceOnly' /\ BoundIsMade' /\ OnPinned'
    BY <1>1, <1>2 DEF OciInv, OnceOnly, BoundIsMade, OnPinned, Now, Exists, Born, docker, Conclude,
       PersistIntent
<1>6. CleanupEarned'
    BY <1>1, <1>2 DEF OciInv, CleanupEarned, Now, Exists, docker, Conclude, PersistIntent
<1>7. SuccessSoFar'
    BY <1>1, <1>2 DEF OciInv, SuccessSoFar, Now, docker, Conclude, PersistIntent
<1> QED BY <1>3, <1>4, <1>5, <1>6, <1>7 DEF OciParts

LEMMA DieKeeps == ASSUME OciInv, Die PROVE oci' \in Locals /\ OciParts'
<1>1. oci \in Locals /\ RestTyped
    BY TypeParts DEF OciInv
<1>2. Now("dead", oci.bound, oci.attached, oci.failed, oci.cleanup)
    BY <1>1, PCsKnown, GoNow DEF Die
<1>3. oci' \in Locals
    BY <1>2 DEF Now
<1>4. NothingYet' /\ NamedFirst' /\ BoundFirst'
    BY <1>1, <1>2 DEF OciInv, NothingYet, NamedFirst, BoundFirst, Now, Exists, Born, disk, docker,
       Die
<1>5. OnceOnly' /\ BoundIsMade' /\ OnPinned'
    BY <1>1, <1>2 DEF OciInv, OnceOnly, BoundIsMade, OnPinned, Now, Exists, Born, docker, Die
<1>6. CleanupEarned'
    BY <1>1, <1>2 DEF OciInv, CleanupEarned, Now, Exists, disk, docker, Die
<1>7. SuccessSoFar'
    BY <1>1, <1>2 DEF OciInv, SuccessSoFar, Now, Die
<1> QED BY <1>3, <1>4, <1>5, <1>6, <1>7 DEF OciParts

LEMMA ExpireKeeps == ASSUME OciInv, Expire PROVE oci' \in Locals /\ OciParts'
<1>1. oci \in Locals /\ RestTyped
    BY TypeParts DEF OciInv
<1> QED
    BY <1>1 DEF Expire, OciInv, OciParts, NothingYet, NamedFirst, BoundFirst, OnceOnly, BoundIsMade,
       OnPinned, CleanupEarned, SuccessSoFar, Exists, Born, disk, docker, Daemons, BoxStates

LEMMA LandKeeps == ASSUME OciInv, Land PROVE oci' \in Locals /\ OciParts'
<1>1. oci \in Locals /\ RestTyped
    BY TypeParts DEF OciInv
<1> QED
    BY <1>1 DEF Land, OciInv, OciParts, NothingYet, NamedFirst, BoundFirst, OnceOnly, BoundIsMade,
       OnPinned, CleanupEarned, SuccessSoFar, Born, disk, Daemons, BoxStates

LEMMA LoseKeeps == ASSUME OciInv, Lose PROVE oci' \in Locals /\ OciParts'
<1>1. oci \in Locals /\ RestTyped
    BY TypeParts DEF OciInv
<1> QED
    BY <1>1 DEF Lose, OciInv, OciParts, NothingYet, NamedFirst, BoundFirst, OnceOnly, BoundIsMade,
       OnPinned, CleanupEarned, SuccessSoFar, Exists, Born, disk, Daemons, BoxStates

LEMMA StartLandsKeeps == ASSUME OciInv, StartLands PROVE oci' \in Locals /\ OciParts'
<1>1. oci \in Locals /\ RestTyped
    BY TypeParts DEF OciInv
<1> QED
    BY <1>1 DEF StartLands, OciInv, OciParts, NothingYet, NamedFirst, BoundFirst, OnceOnly,
       BoundIsMade, OnPinned, CleanupEarned, SuccessSoFar, Born, disk, Daemons, BoxStates

LEMMA WorkEndsKeeps == ASSUME OciInv, WorkEnds PROVE oci' \in Locals /\ OciParts'
<1>1. oci \in Locals /\ RestTyped
    BY TypeParts DEF OciInv
<1> QED
    BY <1>1 DEF WorkEnds, OciInv, OciParts, NothingYet, NamedFirst, BoundFirst, OnceOnly,
       BoundIsMade, OnPinned, CleanupEarned, SuccessSoFar, Born, disk, Daemons, BoxStates

LEMMA MeddleKeeps == ASSUME OciInv, Meddle PROVE oci' \in Locals /\ OciParts'
<1>1. oci \in Locals /\ RestTyped
    BY TypeParts DEF OciInv
<1> QED
    BY <1>1 DEF Meddle, OciInv, OciParts, NothingYet, NamedFirst, BoundFirst, OnceOnly, BoundIsMade,
       OnPinned, CleanupEarned, SuccessSoFar, RestTyped, Born, disk, Daemons, BoxStates

LEMMA SwitchKeeps == ASSUME OciInv, Switch PROVE oci' \in Locals /\ OciParts'
<1>1. oci \in Locals /\ RestTyped /\ oci' = oci
    BY TypeParts DEF OciInv, Switch
<1>2. NothingYet'
    BY <1>1 DEF Switch, OciInv, NothingYet, Exists, Born
<1>3. NamedFirst'
    BY <1>1 DEF Switch, OciInv, NamedFirst, Exists, Born, disk
<1>4. BoundFirst'
    BY <1>1 DEF Switch, OciInv, BoundFirst, disk
<1>5. OnceOnly'
    BY <1>1 DEF Switch, OciInv, OnceOnly, Exists, Born
<1>6. BoundIsMade'
    BY <1>1 DEF Switch, OciInv, BoundIsMade, Born
<1>7. OnPinned'
    BY <1>1 DEF Switch, OciInv, OnPinned, RestTyped, Exists, Born, disk
<1>8. CleanupEarned'
    BY <1>1 DEF Switch, OciInv, CleanupEarned, RestTyped, Exists, disk
<1>9. SuccessSoFar'
    BY <1>1 DEF Switch, OciInv, SuccessSoFar, disk
<1> QED BY <1>1, <1>2, <1>3, <1>4, <1>5, <1>6, <1>7, <1>8, <1>9 DEF OciParts

-----------------------------------------------------------------------------
(* Containers: the theorems *)

LEMMA OciInitially == OciInit => OciInv
<1> SUFFICES ASSUME OciInit PROVE OciInv
    OBVIOUS
<1>1. oci \in Locals
    BY PCsKnown DEF OciInit, Locals, Cleanups
<1>2. RestTyped
  <2>1. switches \in 0..MaxSwitches
      BY OciAssumption DEF OciInit
  <2>2. box \in [at : Daemons \cup {0}, state : BoxStates, named : BOOLEAN]
      BY DEF OciInit, BoxStates
  <2>3. other \in [Daemons -> BOOLEAN]
      BY DEF OciInit
  <2> QED BY <2>1, <2>2, <2>3 DEF OciInit, RestTyped, Daemons
<1> QED
    BY <1>1, <1>2, TypeParts DEF OciInit, OciInv, NothingYet, NamedFirst, BoundFirst, OnceOnly,
       BoundIsMade, OnPinned, CleanupEarned, SuccessSoFar, Exists, Born

LEMMA OciKept == OciInv /\ [OciNext]_ociVars => OciInv'
<1> SUFFICES ASSUME OciInv, [OciNext]_ociVars PROVE OciInv'
    OBVIOUS
<1>1. RestTyped'
    BY RestKept, TypeParts DEF OciInv
<1>2. CASE UNCHANGED ociVars
    BY <1>2 DEF ociVars, OciInv, OciTypeOK, NothingYet, NamedFirst, BoundFirst, OnceOnly,
       BoundIsMade, OnPinned, CleanupEarned, SuccessSoFar, Exists, Born
<1>3. ASSUME NEW d \in Daemons, TakeName(d) PROVE oci' \in Locals /\ OciParts'
  <2>1. oci \in Locals
      BY TypeParts DEF OciInv
  <2> QED
      BY <1>3, <2>1 DEF TakeName, OciInv, OciParts, disk, NothingYet, NamedFirst, BoundFirst,
         OnceOnly, BoundIsMade, OnPinned, CleanupEarned, SuccessSoFar, Exists, Born
<1>4. CASE OciNext
  <2>1. oci' \in Locals /\ OciParts'
      BY <1>3, <1>4, BeginOciKeeps, PrepareKeeps, CopyInputKeeps, NameIntentKeeps, CheckDaemonKeeps,
         CreateKeeps, CreatedKeeps, BindIntentKeeps, VerifyKeeps, AttachKeeps, AttachReturnsKeeps,
               BreakKeeps, ObserveKeeps, CheckAgainKeeps, InspectOwnKeeps, InspectOtherKeeps,
                     InspectNothingKeeps, ProveAbsentKeeps, RemoveKeeps, ProveRemovedKeeps,
                           UnsnapKeeps, ConcludeKeeps, DieKeeps, ExpireKeeps, LandKeeps, LoseKeeps,
                                 StartLandsKeeps, WorkEndsKeeps, MeddleKeeps, SwitchKeeps
         DEF OciNext, RunOci, FinishOci
  <2>2. OciTypeOK'
      BY <1>1, <2>1 DEF OciTypeOK, Locals, OciPCs, Cleanups, RestTyped
  <2> QED BY <2>1, <2>2 DEF OciInv, OciParts
<1> QED BY <1>2, <1>4

\* The invariant: where the step is, what is on disk and what the daemons have.
THEOREM OciInvAlways == OciSpec => []OciInv
BY OciInitially, OciKept, PTL DEF OciSpec

\* Every variable of OciStep keeps its type.
THEOREM OciTypes == OciSpec => []OciTypeOK
<1>1. OciInv => OciTypeOK
    BY DEF OciInv
<1> QED BY <1>1, OciInvAlways, PTL

\* A container of dva's is always named on disk, by its ID before it may run; its cleanup
\* is claimed only when it is gone for good; and a step succeeds only if its workload
\* was seen to end well and nothing of it is left (execute.go 83-246), however often the
\* daemon behind the endpoint changes.
THEOREM OciAccountedHolds == OciSpec => []OciAccounted
<1>1. OciInv => OciAccounted
  <2> SUFFICES ASSUME OciInv PROVE OciAccounted
      OBVIOUS
  <2>1. Exists \/ asked # 0 => intent # "none"
      BY DEF OciInv, NamedFirst
  <2>2. box.state \in {"running", "ok", "bad"} => intent \in {"bound", "outcome"}
      BY DEF OciInv, BoundFirst
  <2>3. oci.cleanup \in {"not-created", "pending", "failed", "absent", "removed"}
      BY LocalsOf DEF OciInv, Cleanups
  <2>4. ~strayed =>
          /\ oci.pc = "ended" /\ oci.cleanup # "failed" => ~Exists /\ asked = 0
          /\ snapshot \/ oci.pc = "idle" \/ (~Exists /\ asked = 0)
      BY <2>3 DEF OciInv, CleanupEarned
  <2>5. oci.pc = "ended" /\ ~oci.failed =>
          /\ box.state = "ok"
          /\ oci.cleanup \in {"removed", "absent"} /\ (Exists => strayed)
          /\ ~snapshot /\ intent = "outcome"
      BY DEF OciInv, CleanupEarned, SuccessSoFar
  <2> QED BY <2>1, <2>2, <2>4, <2>5 DEF OciAccounted
<1> QED BY <1>1, OciInvAlways, PTL

\* No step of dva's removes a container that bears the name of its own but was made by
\* somebody else (policy.go 96-104).
THEOREM OciTouchesOwnHolds == OciSpec => OciTouchesOwn
<1>1. OciInv /\ [OciNext]_ociVars => [\A d \in Daemons : other[d] => other'[d]]_ociVars
  <2> SUFFICES ASSUME OciInv, OciNext, NEW d \in Daemons, other[d] PROVE other'[d]
      OBVIOUS
  <2>1. RestTyped
      BY TypeParts DEF OciInv
  <2>2. CASE Remove
    <3>1. oci.bound
        BY <2>2 DEF Remove, OciInv, BoundIsMade
    <3>2. Finds # "other"
        BY <3>1 DEF Finds
    <3> QED BY <2>2, <3>2 DEF Remove
  <2>3. ASSUME NEW e \in Daemons, TakeName(e) PROVE other'[d]
      BY <2>1, <2>3 DEF TakeName, RestTyped
  <2>4. CASE other' = other
      BY <2>4
  <2> QED
      BY <2>2, <2>3, <2>4 DEF OciNext, RunOci, FinishOci, docker, BeginOci, Prepare, CopyInput,
         NameIntent, CheckDaemon, Create, Created, BindIntent, Verify, Attach, AttachReturns, Break,
               Observe, CheckAgain, InspectOwn, InspectOther, InspectNothing, ProveAbsent,
                     ProveRemoved, Unsnap, Conclude, Die, Expire, Land, Lose, StartLands, WorkEnds,
                           Meddle, Switch
<1> QED BY <1>1, OciInvAlways, PTL DEF OciSpec, OciTouchesOwn

-----------------------------------------------------------------------------
(* Reuse: the inductive invariant *)

\* How far the step is with a file.
Hashed(f) == ~step.fresh /\ (step.pc = "hash" => f < step.at) /\ step.pc # "ended"
WasRead(f) ==
    /\ step.pc \in {"read", "finish", "rehash", "save"}
    /\ step.pc = "read" => f < step.at
Rehashed(f) == step.pc \in {"rehash", "save"} /\ (step.pc = "rehash" => f < step.at)

\* What the count of edits says of a file between its two hashes.
SinceTells == \A f \in Files : Hashed(f) /\ ~Rehashed(f) =>
    /\ step.since[f] = 0 => inputs[f] = step.key[f] /\ (WasRead(f) => step.read[f] = step.key[f])
    /\ step.since[f] = 1 => inputs[f] # step.key[f]

\* What the second hash shows.
AgainTells == \A f \in Files : Rehashed(f) =>
    step.twice \/ (step.again[f] = step.key[f] => step.read[f] = step.key[f])

StepOrder ==
    /\ step.pc \in {"hash", "load", "rehash", "save"} => ~step.fresh
    /\ step.pc \in {"load", "finish"} => step.at = 1
    /\ step.pc # "ended" => step.result = "none"

\* The outputs are still what the step made of the inputs it saw.
OutputTold == step.pc \in {"rehash", "save"} =>
    step.read \in Fits /\ (~tampered => output = Made(step.read))

RecordTold == \A k \in Inputs : cache[k].is = "record" /\ ~cache[k].tampered =>
    cache[k].output = Made(cache[k].read)

CacheMaps == cache = [k \in Inputs |-> cache[k]]

ReuseInv ==
    /\ TypeOK /\ CacheMaps /\ CacheTruthful /\ StepOrder /\ SinceTells /\ AgainTells /\ OutputTold
          /\ RecordTold

-----------------------------------------------------------------------------
(* The files, and the record of the step *)

LEMMA FilesInOrder ==
    /\ Files \subseteq Nat \ {0} /\ 1 \in Files
    /\ \A f \in Files : ~Last(f) => f + 1 \in Files
    /\ \A f, g \in Files : Last(f) => g <= f
<1> DEFINE n == Cardinality(Files)
<1>1. n \in Nat /\ Files = 1..n /\ Files # {}
    BY ReuseAssumption, FS_CardinalityType
<1> HIDE DEF n
<1> QED BY <1>1 DEF Last

StepPCs == {"hash", "load", "read", "finish", "over", "rehash", "save", "ended"}
StepRecords ==
    [pc : StepPCs, fresh : BOOLEAN, at : Files, key : Inputs, read : Inputs, again : Inputs,
     result : Results, since : [Files -> 0..2], twice : BOOLEAN]
CacheRecords ==
    {NoRecord, Torn} \cup
    [is : {"record"}, at : 0..MaxTime, output : Outputs, read : Inputs, twice : BOOLEAN,
          tampered : BOOLEAN]

LEMMA Typed ==
    TypeOK <=> /\ inputs \in Inputs /\ output \in Outputs /\ now \in 0..MaxTime
               /\ \A k \in Inputs : cache[k] \in CacheRecords
               /\ step \in StepRecords /\ tampered \in BOOLEAN
BY DEF TypeOK, StepRecords, StepPCs, CacheRecords

LEMMA StepTyped ==
    ASSUME step \in StepRecords
    PROVE  /\ step.pc \in StepPCs /\ step.fresh \in BOOLEAN /\ step.at \in Files
           /\ step.key \in Inputs /\ step.read \in Inputs /\ step.again \in Inputs
           /\ step.result \in Results /\ step.since \in [Files -> 0..2] /\ step.twice \in BOOLEAN
BY DEF StepRecords

\* The step after an action.
StepIs(pc, fresh, at, key, read, again, result, since, twice) ==
    /\ step' \in StepRecords
    /\ step'.pc = pc /\ step'.fresh = fresh /\ step'.at = at
    /\ step'.key = key /\ step'.read = read /\ step'.again = again
    /\ step'.result = result /\ step'.since = since /\ step'.twice = twice

LEMMA BlankTyped ==
    ASSUME inputs \in Inputs
    PROVE  Blank \in Inputs /\ Idle \in StepRecords
<1>1. Values # {}
    BY FilesInOrder DEF Inputs
<1>2. (CHOOSE v \in Values : TRUE) \in Values
    BY <1>1
<1>3. Blank \in Inputs
    BY <1>2 DEF Blank, Inputs
<1>4. [f \in Files |-> 0] \in [Files -> 0..2]
    OBVIOUS
<1> QED
    BY <1>3, <1>4, FilesInOrder DEF Idle, StepRecords, StepPCs, Results

LEMMA EndIs ==
    ASSUME inputs \in Inputs, NEW r \in Results, End(r)
    PROVE  step' \in StepRecords /\ step'.pc = "ended" /\ step'.result = r
<1>1. Idle \in StepRecords
    BY BlankTyped
<1>2. Idle.pc = "ended"
    BY DEF Idle
<1> QED BY <1>1, <1>2 DEF End, StepRecords

LEMMA GoesTo ==
    ASSUME step \in StepRecords, NEW pc \in StepPCs, step' = [step EXCEPT !.pc = pc]
    PROVE  StepIs(pc, step.fresh, step.at, step.key, step.read, step.again, step.result,
                  step.since, step.twice)
BY DEF StepIs, StepRecords

LEMMA HashIs ==
    ASSUME ReuseInv, Hash
    PROVE  LET f == step.at IN
           StepIs(IF Last(f) THEN "load" ELSE "hash", step.fresh, IF Last(f) THEN 1 ELSE f + 1,
                  [step.key EXCEPT ![f] = inputs[f]], step.read, step.again, step.result,
                  [step.since EXCEPT ![f] = 0], step.twice)
<1> DEFINE f == step.at
<1>1. step \in StepRecords /\ inputs \in Inputs
    BY Typed DEF ReuseInv
<1>2. f \in Files /\ inputs[f] \in Values
    BY <1>1, StepTyped DEF Inputs
<1>3. (~Last(f) => f + 1 \in Files) /\ 1 \in Files
    BY <1>2, FilesInOrder
<1>4. [step.key EXCEPT ![f] = inputs[f]] \in Inputs
        /\ [step.since EXCEPT ![f] = 0] \in [Files -> 0..2]
    BY <1>1, <1>2, StepTyped DEF Inputs
<1>5. {"load", "hash"} \subseteq StepPCs
    BY DEF StepPCs
<1>6. CASE Last(f)
    BY <1>1, <1>3, <1>4, <1>5, <1>6 DEF Hash, StepIs, StepRecords
<1>7. CASE ~Last(f)
    BY <1>1, <1>3, <1>4, <1>5, <1>7 DEF Hash, StepIs, StepRecords
<1> QED BY <1>6, <1>7

LEMMA ReadIs ==
    ASSUME ReuseInv, ReadFile
    PROVE  LET f == step.at IN
           StepIs(IF Last(f) THEN "finish" ELSE "read", step.fresh, IF Last(f) THEN 1 ELSE f + 1,
                  step.key, [step.read EXCEPT ![f] = inputs[f]], step.again, step.result,
                  step.since, step.twice)
<1> DEFINE f == step.at
<1>1. step \in StepRecords /\ inputs \in Inputs
    BY Typed DEF ReuseInv
<1>2. f \in Files /\ inputs[f] \in Values
    BY <1>1, StepTyped DEF Inputs
<1>3. (~Last(f) => f + 1 \in Files) /\ 1 \in Files
    BY <1>2, FilesInOrder
<1>4. [step.read EXCEPT ![f] = inputs[f]] \in Inputs
    BY <1>1, <1>2, StepTyped DEF Inputs
<1>5. {"finish", "read"} \subseteq StepPCs
    BY DEF StepPCs
<1>6. CASE Last(f)
    BY <1>1, <1>3, <1>4, <1>5, <1>6 DEF ReadFile, StepIs, StepRecords
<1>7. CASE ~Last(f)
    BY <1>1, <1>3, <1>4, <1>5, <1>7 DEF ReadFile, StepIs, StepRecords
<1> QED BY <1>6, <1>7

LEMMA RehashIs ==
    ASSUME ReuseInv, Rehash
    PROVE  LET f == step.at IN
           StepIs(IF Last(f) THEN "save" ELSE "rehash", step.fresh, IF Last(f) THEN 1 ELSE f + 1,
                  step.key, step.read, [step.again EXCEPT ![f] = inputs[f]], step.result,
                  step.since, step.twice \/ step.since[f] = 2)
<1> DEFINE f == step.at
<1>1. step \in StepRecords /\ inputs \in Inputs
    BY Typed DEF ReuseInv
<1>2. f \in Files /\ inputs[f] \in Values
    BY <1>1, StepTyped DEF Inputs
<1>3. (~Last(f) => f + 1 \in Files) /\ 1 \in Files
    BY <1>2, FilesInOrder
<1>4. [step.again EXCEPT ![f] = inputs[f]] \in Inputs
    BY <1>1, <1>2, StepTyped DEF Inputs
<1>5. {"save", "rehash"} \subseteq StepPCs /\ (step.twice \/ step.since[f] = 2) \in BOOLEAN
    BY DEF StepPCs
<1>6. CASE Last(f)
    BY <1>1, <1>3, <1>4, <1>5, <1>6 DEF Rehash, StepIs, StepRecords
<1>7. CASE ~Last(f)
    BY <1>1, <1>3, <1>4, <1>5, <1>7 DEF Rehash, StepIs, StepRecords
<1> QED BY <1>6, <1>7

LEMMA EditIs ==
    ASSUME ReuseInv, NEW f \in Files, Edit(f)
    PROVE  /\ inputs' \in Inputs /\ inputs'[f] # inputs[f]
           /\ \A g \in Files \ {f} : inputs'[g] = inputs[g]
           /\ step.pc = "ended" => step' = step
           /\ step.pc # "ended" =>
                StepIs(step.pc, step.fresh, step.at, step.key, step.read, step.again, step.result,
                       [step.since EXCEPT ![f] = IF @ = 2 THEN 2 ELSE @ + 1], step.twice)
<1>1. step \in StepRecords /\ inputs \in Inputs
    BY Typed DEF ReuseInv
<1>2. PICK v \in Values \ {inputs[f]} : inputs' = [inputs EXCEPT ![f] = v]
    BY DEF Edit
<1>3. inputs' \in Inputs /\ inputs'[f] # inputs[f] /\ \A g \in Files \ {f} : inputs'[g] = inputs[g]
    BY <1>1, <1>2 DEF Inputs
<1>4. step.since \in [Files -> 0..2]
    BY <1>1, StepTyped
<1>5. CASE step.pc = "ended"
    BY <1>3, <1>5 DEF Edit
<1>6. CASE step.pc # "ended" /\ step.since[f] = 2
  <2>1. [step.since EXCEPT ![f] = IF @ = 2 THEN 2 ELSE @ + 1] = step.since
    BY <1>4, <1>6
  <2>2. step' = step
    BY <1>6 DEF Edit
  <2> QED BY <1>1, <1>3, <1>6, <2>1, <2>2 DEF StepIs
<1>7. CASE step.pc # "ended" /\ step.since[f] # 2
  <2>1. [step.since EXCEPT ![f] = IF @ = 2 THEN 2 ELSE @ + 1] = [step.since EXCEPT ![f] = @ + 1]
    BY <1>7
  <2>2. [step.since EXCEPT ![f] = @ + 1] \in [Files -> 0..2]
    BY <1>4, <1>7
  <2>3. step' = [step EXCEPT !.since[f] = @ + 1]
    BY <1>7 DEF Edit
  <2>4. StepIs(step.pc, step.fresh, step.at, step.key, step.read, step.again, step.result,
               [step.since EXCEPT ![f] = @ + 1], step.twice)
    BY <1>1, <2>2, <2>3 DEF StepIs, StepRecords
  <2> QED BY <1>3, <1>7, <2>1, <2>4
<1> QED BY <1>5, <1>6, <1>7


-----------------------------------------------------------------------------
(* Each part is kept *)

\* The parts that speak of the step under way.
UnderWay == StepOrder /\ SinceTells /\ AgainTells /\ OutputTold
CacheTold == CacheMaps /\ CacheTruthful /\ RecordTold

LEMMA EndedKeeps ==
    ASSUME step'.pc = "ended"
    PROVE  UnderWay'
BY DEF UnderWay, StepOrder, SinceTells, AgainTells, OutputTold, Hashed, Rehashed

LEMMA CacheKept ==
    ASSUME CacheTold, UNCHANGED cache
    PROVE  CacheTold'
BY DEF CacheTold, CacheMaps, CacheTruthful, RecordTold

LEMMA BeginKeeps ==
    ASSUME ReuseInv, NEW fresh \in BOOLEAN, Begin(fresh)
    PROVE  step' \in StepRecords /\ UnderWay'
<1>1. Idle \in StepRecords /\ inputs \in Inputs
    BY BlankTyped, Typed DEF ReuseInv
<1>2. Idle.at = 1 /\ Idle.result = "none"
    BY DEF Idle
<1> DEFINE pc == IF fresh THEN "read" ELSE "hash"
<1>3. pc \in StepPCs
    BY DEF StepPCs
<1>4. step' = [Idle EXCEPT !.fresh = fresh, !.pc = pc]
    BY DEF Begin
<1>5. /\ step' \in StepRecords /\ step'.pc = pc /\ step'.fresh = fresh /\ step'.at = 1
      /\ step'.result = "none"
    BY <1>1, <1>2, <1>3, <1>4 DEF StepRecords
<1>6. \A f \in Files : ~(f < 1)
    BY FilesInOrder
<1>7. \A f \in Files : ~Hashed(f)' /\ ~Rehashed(f)'
    BY <1>5, <1>6 DEF Hashed, Rehashed
<1> QED
    BY <1>5, <1>7 DEF UnderWay, StepOrder, SinceTells, AgainTells, OutputTold

LEMMA HashKeeps ==
    ASSUME ReuseInv, Hash
    PROVE  step' \in StepRecords /\ UnderWay'
<1> DEFINE f == step.at
<1>1. /\ step' \in StepRecords /\ step'.pc = (IF Last(f) THEN "load" ELSE "hash")
      /\ step'.fresh = step.fresh /\ step'.at = (IF Last(f) THEN 1 ELSE f + 1)
      /\ step'.key = [step.key EXCEPT ![f] = inputs[f]]
      /\ step'.since = [step.since EXCEPT ![f] = 0] /\ step'.result = step.result
    BY HashIs DEF StepIs
<1>2. step \in StepRecords /\ step.pc = "hash" /\ ~step.fresh /\ step.result = "none"
    BY Typed DEF ReuseInv, Hash, StepOrder
<1>3. f \in Files /\ step.key \in Inputs /\ step.since \in [Files -> 0..2]
    BY <1>2, StepTyped
<1>4. \A g \in Files : Last(f) => g <= f
    BY <1>3, FilesInOrder
<1>5. inputs' = inputs
    BY DEF Hash, around
<1>6. ASSUME NEW g \in Files PROVE ~Rehashed(g)' /\ ~WasRead(g)'
    BY <1>1 DEF Rehashed, WasRead
<1>7. ASSUME NEW g \in Files, Hashed(g)', g # f PROVE Hashed(g) /\ ~Rehashed(g) /\ ~WasRead(g)
  <2>1. f \in Nat /\ g \in Nat
    BY <1>3, FilesInOrder
  <2>2. g < f
    BY <1>1, <1>2, <1>4, <1>7, <2>1 DEF Hashed
  <2> QED BY <1>2, <2>2 DEF Hashed, Rehashed, WasRead
<1>8. ASSUME NEW g \in Files, Hashed(g)'
      PROVE  /\ step'.since[g] = 0 => inputs'[g] = step'.key[g]
             /\ step'.since[g] = 1 => inputs'[g] # step'.key[g]
  <2>1. CASE g = f
    BY <1>1, <1>3, <1>5, <2>1 DEF Inputs
  <2>2. CASE g # f
    <3>1. step'.since[g] = step.since[g] /\ step'.key[g] = step.key[g]
      BY <1>1, <1>3, <2>2 DEF Inputs
    <3> QED BY <1>5, <1>7, <1>8, <2>2, <3>1 DEF ReuseInv, SinceTells
  <2> QED BY <2>1, <2>2
<1> QED
    BY <1>1, <1>2, <1>6, <1>8 DEF UnderWay, StepOrder, SinceTells, AgainTells, OutputTold

LEMMA ReadKeeps ==
    ASSUME ReuseInv, ReadFile
    PROVE  step' \in StepRecords /\ UnderWay'
<1> DEFINE f == step.at
<1>1. /\ step' \in StepRecords /\ step'.pc = (IF Last(f) THEN "finish" ELSE "read")
      /\ step'.fresh = step.fresh /\ step'.at = (IF Last(f) THEN 1 ELSE f + 1)
      /\ step'.key = step.key /\ step'.read = [step.read EXCEPT ![f] = inputs[f]]
      /\ step'.since = step.since /\ step'.result = step.result
    BY ReadIs DEF StepIs
<1>2. step \in StepRecords /\ step.pc = "read" /\ step.result = "none"
    BY Typed DEF ReuseInv, ReadFile, StepOrder
<1>3. f \in Files /\ step.read \in Inputs
    BY <1>2, StepTyped
<1>4. \A g \in Files : Last(f) => g <= f
    BY <1>3, FilesInOrder
<1>5. inputs' = inputs
    BY DEF ReadFile, around
<1>6. ASSUME NEW g \in Files PROVE ~Rehashed(g)' /\ ~Rehashed(g) /\ (Hashed(g)' => Hashed(g))
    BY <1>1, <1>2 DEF Rehashed, Hashed
<1>7. ASSUME NEW g \in Files, WasRead(g)', g # f PROVE WasRead(g)
  <2>1. f \in Nat /\ g \in Nat
    BY <1>3, FilesInOrder
  <2>2. g < f
    BY <1>1, <1>2, <1>4, <1>7, <2>1 DEF WasRead
  <2> QED BY <1>2, <2>2 DEF WasRead
<1>8. ASSUME NEW g \in Files, Hashed(g)'
      PROVE  /\ step'.since[g] = 0 => /\ inputs'[g] = step'.key[g]
                                      /\ WasRead(g)' => step'.read[g] = step'.key[g]
             /\ step'.since[g] = 1 => inputs'[g] # step'.key[g]
  <2>1. /\ step.since[g] = 0 => inputs[g] = step.key[g]
          /\ (WasRead(g) => step.read[g] = step.key[g])
        /\ step.since[g] = 1 => inputs[g] # step.key[g]
    BY <1>6, <1>8 DEF ReuseInv, SinceTells
  <2>2. CASE g = f
    <3>1. step'.read[g] = inputs[g]
      BY <1>1, <1>3, <2>2 DEF Inputs
    <3> QED BY <1>1, <1>5, <2>1, <3>1
  <2>3. CASE g # f
    <3>1. step'.read[g] = step.read[g]
      BY <1>1, <1>3, <2>3 DEF Inputs
    <3> QED BY <1>1, <1>5, <1>7, <2>1, <2>3, <3>1
  <2> QED BY <2>2, <2>3
<1> QED
    BY <1>1, <1>2, <1>6, <1>8 DEF UnderWay, StepOrder, SinceTells, AgainTells, OutputTold

LEMMA RehashKeeps ==
    ASSUME ReuseInv, Rehash
    PROVE  step' \in StepRecords /\ UnderWay'
<1>0. PICK f \in Files : f = step.at
    BY Typed, StepTyped DEF ReuseInv
<1>1. /\ step' \in StepRecords /\ step'.pc = (IF Last(f) THEN "save" ELSE "rehash")
      /\ step'.fresh = step.fresh /\ step'.at = (IF Last(f) THEN 1 ELSE f + 1)
      /\ step'.key = step.key /\ step'.read = step.read
      /\ step'.again = [step.again EXCEPT ![f] = inputs[f]]
      /\ step'.since = step.since /\ step'.result = step.result
      /\ step'.twice = (step.twice \/ step.since[f] = 2)
    BY <1>0, RehashIs DEF StepIs
<1>2. step \in StepRecords /\ step.pc = "rehash" /\ ~step.fresh /\ step.result = "none"
    BY Typed DEF ReuseInv, Rehash, StepOrder
<1>3. step.again \in Inputs /\ step.since \in [Files -> 0..2]
    BY <1>2, StepTyped
<1>4. \A g \in Files : Last(f) => g <= f
    BY <1>3, FilesInOrder
<1>5. inputs' = inputs /\ output' = output /\ tampered' = tampered
    BY DEF Rehash, around
<1>6. \A g \in Files : Hashed(g) /\ WasRead(g)
    BY <1>2 DEF Hashed, WasRead
<1>f. f \in Nat
    BY FilesInOrder
<1>7. ~Rehashed(f)
    BY <1>0, <1>2, <1>f DEF Rehashed
<1>8. ASSUME NEW g \in Files, g # f PROVE Rehashed(g)' <=> Rehashed(g)
  <2>1. g \in Nat
    BY FilesInOrder
  <2>2. Rehashed(g) <=> g < f
    BY <1>0, <1>2 DEF Rehashed
  <2>3. CASE Last(f)
    BY <1>1, <1>4, <1>f, <1>8, <2>1, <2>2, <2>3 DEF Rehashed
  <2>4. CASE ~Last(f)
    BY <1>1, <1>f, <1>8, <2>1, <2>2, <2>4 DEF Rehashed
  <2> QED BY <2>3, <2>4
<1>9. Rehashed(f)'
    BY <1>1, <1>f DEF Rehashed
<1>10. ASSUME NEW g \in Files, ~Rehashed(g)'
       PROVE  /\ step'.since[g] = 0 => inputs'[g] = step'.key[g] /\ step'.read[g] = step'.key[g]
              /\ step'.since[g] = 1 => inputs'[g] # step'.key[g]
  <2>1. ~Rehashed(g)
    BY <1>7, <1>8, <1>10
  <2>2. /\ step.since[g] = 0 => inputs[g] = step.key[g] /\ step.read[g] = step.key[g]
        /\ step.since[g] = 1 => inputs[g] # step.key[g]
    BY <1>6, <2>1 DEF ReuseInv, SinceTells
  <2> QED BY <1>1, <1>5, <2>2
<1>11. ASSUME NEW g \in Files, Rehashed(g)'
       PROVE  step'.twice \/ (step'.again[g] = step'.key[g] => step'.read[g] = step'.key[g])
  <2>1. CASE g = f
    <3>1. step'.again[f] = inputs[f]
      BY <1>1, <1>3 DEF Inputs
    <3>2. step.since[f] \in 0..2
      BY <1>3
    <3>3. /\ step.since[f] = 0 => step.read[f] = step.key[f]
          /\ step.since[f] = 1 => inputs[f] # step.key[f]
      BY <1>0, <1>6, <1>7 DEF ReuseInv, SinceTells
    <3>4. CASE step.since[f] = 2
      BY <1>1, <3>4
    <3>5. CASE step.since[f] # 2
      BY <1>1, <2>1, <3>1, <3>2, <3>3, <3>5
    <3> QED BY <3>4, <3>5
  <2>2. CASE g # f
    <3>1. step'.again[g] = step.again[g]
      BY <1>1, <1>3, <2>2 DEF Inputs
    <3>2. step.twice \/ (step.again[g] = step.key[g] => step.read[g] = step.key[g])
      BY <1>8, <1>11, <2>2 DEF ReuseInv, AgainTells
    <3> QED BY <1>1, <3>1, <3>2
  <2> QED BY <2>1, <2>2
<1>12. OutputTold'
    BY <1>1, <1>2, <1>5 DEF ReuseInv, OutputTold, Made
<1> QED
    BY <1>1, <1>2, <1>10, <1>11, <1>12 DEF UnderWay, StepOrder, SinceTells, AgainTells

LEMMA EditKeeps ==
    ASSUME ReuseInv, NEW f \in Files, Edit(f)
    PROVE  step' \in StepRecords /\ UnderWay'
<1>1. step \in StepRecords /\ (step.pc = "ended" => step' = step)
    BY EditIs, Typed DEF ReuseInv
<1>2. CASE step.pc = "ended"
    BY <1>1, <1>2, EndedKeeps
<1>3. CASE step.pc # "ended"
  <2>1. /\ step' \in StepRecords /\ step'.pc = step.pc /\ step'.fresh = step.fresh
          /\ step'.at = step.at
        /\ step'.key = step.key /\ step'.read = step.read /\ step'.again = step.again
        /\ step'.since = [step.since EXCEPT ![f] = IF @ = 2 THEN 2 ELSE @ + 1]
        /\ step'.result = step.result /\ step'.twice = step.twice
    BY <1>3, EditIs DEF StepIs
  <2>2. inputs'[f] # inputs[f] /\ \A g \in Files \ {f} : inputs'[g] = inputs[g]
    BY EditIs
  <2>3. step.since \in [Files -> 0..2] /\ output' = output /\ tampered' = tampered
    BY <1>1, StepTyped DEF Edit
  <2>4. \A g \in Files : /\ Hashed(g)' <=> Hashed(g)
                         /\ Rehashed(g)' <=> Rehashed(g)
                         /\ WasRead(g)' <=> WasRead(g)
    BY <2>1 DEF Hashed, Rehashed, WasRead
  <2>5. ASSUME NEW g \in Files, Hashed(g)', ~Rehashed(g)'
        PROVE  /\ step'.since[g] = 0 => /\ inputs'[g] = step'.key[g]
                                        /\ WasRead(g)' => step'.read[g] = step'.key[g]
               /\ step'.since[g] = 1 => inputs'[g] # step'.key[g]
    <3>1. /\ step.since[g] = 0 => inputs[g] = step.key[g]
            /\ (WasRead(g) => step.read[g] = step.key[g])
          /\ step.since[g] = 1 => inputs[g] # step.key[g]
      BY <2>4, <2>5 DEF ReuseInv, SinceTells
    <3>2. CASE g = f
      <4>1. step.since[f] \in 0..2
        BY <2>3
      <4>2. step'.since[g] = IF step.since[f] = 2 THEN 2 ELSE step.since[f] + 1
        BY <2>1, <2>3, <3>2
      <4> QED BY <2>1, <2>2, <3>1, <3>2, <4>1, <4>2
    <3>3. CASE g # f
      <4>1. step'.since[g] = step.since[g]
        BY <2>1, <2>3, <3>3
      <4> QED BY <2>1, <2>2, <2>4, <3>1, <3>3, <4>1
    <3> QED BY <3>2, <3>3
  <2>6. AgainTells'
    BY <2>1, <2>4 DEF ReuseInv, AgainTells
  <2>7. OutputTold' /\ StepOrder'
    BY <2>1, <2>3 DEF ReuseInv, OutputTold, StepOrder, Made
  <2> QED BY <2>1, <2>5, <2>6, <2>7 DEF UnderWay, SinceTells
<1> QED BY <1>2, <1>3

LEMMA ExecuteKeeps ==
    ASSUME ReuseInv, Execute
    PROVE  step' \in StepRecords /\ UnderWay'
<1>1. "read" \in StepPCs /\ step \in StepRecords
    BY Typed DEF StepPCs, ReuseInv
<1>2. /\ step' \in StepRecords /\ step'.pc = "read" /\ step'.fresh = step.fresh
        /\ step'.at = step.at
      /\ step'.key = step.key /\ step'.since = step.since /\ step'.result = step.result
    BY <1>1, GoesTo DEF Execute, StepIs
<1>3. step.pc = "load" /\ step.at = 1 /\ step.result = "none" /\ inputs' = inputs
    BY DEF ReuseInv, Execute, StepOrder, around
<1>f. \A f \in Files : ~(f < 1)
    BY FilesInOrder
<1>4. \A f \in Files : ~Rehashed(f) /\ ~Rehashed(f)' /\ ~WasRead(f)' /\ (Hashed(f)' => Hashed(f))
    BY <1>2, <1>3, <1>f DEF Hashed, Rehashed, WasRead
<1> QED
    BY <1>2, <1>3, <1>4 DEF ReuseInv, UnderWay, StepOrder, SinceTells, AgainTells, OutputTold

LEMMA FinishKeeps ==
    ASSUME ReuseInv, Finish
    PROVE  step' \in StepRecords /\ UnderWay' /\ output' \in Outputs /\ tampered' = FALSE
<1>1. {"rehash"} \subseteq StepPCs /\ step \in StepRecords /\ inputs \in Inputs
    BY Typed DEF StepPCs, ReuseInv
<1>2. step.pc = "finish" /\ step.at = 1 /\ step.result = "none" /\ step.read \in Fits
    BY DEF ReuseInv, Finish, StepOrder
<1>3. output' = Made(step.read) /\ tampered' = FALSE /\ inputs' = inputs /\ step.read \in Inputs
    BY <1>1, StepTyped DEF Finish
<1>4. output' \in Outputs
    BY <1>3 DEF Outputs
<1>5. CASE step.fresh
  <2>1. End("succeeded") /\ "succeeded" \in Results
    BY <1>5 DEF Finish, Results
  <2> QED BY <1>1, <1>3, <1>4, <2>1, EndIs, EndedKeeps
<1>6. CASE ~step.fresh
  <2>1. step' = [step EXCEPT !.pc = "rehash"]
    BY <1>6 DEF Finish
  <2>2. /\ step' \in StepRecords /\ step'.pc = "rehash" /\ step'.fresh = step.fresh
        /\ step'.at = step.at /\ step'.key = step.key /\ step'.read = step.read
        /\ step'.since = step.since /\ step'.result = step.result
    BY <1>1, <2>1, GoesTo DEF StepIs
  <2>f. \A f \in Files : ~(f < 1)
    BY FilesInOrder
  <2>3. \A f \in Files : ~Rehashed(f) /\ ~Rehashed(f)' /\ WasRead(f) /\ Hashed(f)
    BY <1>2, <1>6, <2>2, <2>f DEF Hashed, Rehashed, WasRead
  <2>4. SinceTells'
    BY <1>3, <2>2, <2>3 DEF ReuseInv, SinceTells
  <2>5. OutputTold'
    BY <1>2, <1>3, <2>2 DEF OutputTold, Made
  <2> QED
    BY <1>2, <1>3, <1>4, <1>6, <2>2, <2>3, <2>4, <2>5 DEF UnderWay, StepOrder, AgainTells
<1> QED BY <1>5, <1>6


LEMMA EndKeeps ==
    ASSUME ReuseInv, NEW r \in Results, End(r)
    PROVE  step' \in StepRecords /\ UnderWay'
BY EndIs, EndedKeeps, Typed DEF ReuseInv

\* Outputs that are changed while the step has not yet run, or ended.
LEMMA OutputsTyped ==
    {Nothing, Spoilt} \subseteq Outputs
BY DEF Outputs

LEMMA SaveKeeps ==
    ASSUME ReuseInv, Save
    PROVE  CacheTold' /\ \A k \in Inputs : cache'[k] \in CacheRecords
<1> DEFINE r == [is |-> "record", at |-> now, output |-> output, read |-> step.read,
                 twice |-> step.twice, tampered |-> tampered]
<1>1. step \in StepRecords /\ output \in Outputs /\ now \in 0..MaxTime /\ tampered \in BOOLEAN
    BY Typed DEF ReuseInv
<1>2. step.pc = "save" /\ ~step.fresh /\ step.again = step.key
    BY DEF ReuseInv, Save, SameKey, StepOrder
<1>3. step.key \in Inputs /\ step.read \in Inputs /\ step.twice \in BOOLEAN
    BY <1>1, StepTyped
<1>4. r \in CacheRecords
    BY <1>1, <1>3 DEF CacheRecords
<1>5. step.read \in Fits /\ (~tampered => output = Made(step.read))
    BY <1>2 DEF ReuseInv, OutputTold
<1>6. ~step.twice => step.read = step.key
  <2> SUFFICES ASSUME ~step.twice PROVE step.read = step.key
    OBVIOUS
  <2>1. \A f \in Files : Rehashed(f)
    BY <1>2 DEF Rehashed
  <2>2. \A f \in Files : step.read[f] = step.key[f]
    BY <1>2, <2>1 DEF ReuseInv, AgainTells
  <2> QED BY <1>3, <2>2 DEF Inputs
<1>7. cache = [k \in Inputs |-> cache[k]] /\ cache' = [cache EXCEPT ![step.key] = r]
    BY DEF ReuseInv, CacheMaps, Save
<1> HIDE DEF r
<1>8. cache' = [k \in Inputs |-> IF k = step.key THEN r ELSE cache[k]]
    BY <1>7
<1>9. r.read = step.read /\ r.twice = step.twice /\ r.tampered = tampered /\ r.output = output
    BY DEF r
<1>10. \A k \in Inputs : cache'[k] \in CacheRecords
    BY <1>4, <1>8, Typed DEF ReuseInv
<1>11. CacheMaps'
    BY <1>8 DEF CacheMaps
<1>12. CacheTruthful'
    BY <1>3, <1>5, <1>6, <1>8, <1>9 DEF ReuseInv, CacheTruthful
<1>13. RecordTold'
    BY <1>5, <1>8, <1>9 DEF ReuseInv, RecordTold
<1> QED BY <1>10, <1>11, <1>12, <1>13 DEF CacheTold

LEMMA PowerKeeps ==
    ASSUME ReuseInv, NEW k \in Inputs, PowerFails(k)
    PROVE  CacheTold' /\ \A i \in Inputs : cache'[i] \in CacheRecords
<1>1. cache' = [i \in Inputs |-> IF i = k THEN Torn ELSE cache[i]]
    BY DEF ReuseInv, CacheMaps, PowerFails
<1>2. Torn \in CacheRecords /\ Torn.is # "record"
    BY DEF Torn, CacheRecords
<1>3. \A i \in Inputs : cache'[i] \in CacheRecords
    BY <1>1, <1>2, Typed DEF ReuseInv
<1>4. CacheMaps' /\ CacheTruthful' /\ RecordTold'
    BY <1>1, <1>2 DEF ReuseInv, CacheMaps, CacheTruthful, RecordTold
<1> QED BY <1>3, <1>4 DEF CacheTold

LEMMA SpoilKeeps ==
    ASSUME ReuseInv, Spoil
    PROVE  UnderWay' /\ output' \in Outputs /\ tampered' \in BOOLEAN
<1>1. output' \in Outputs /\ tampered' = TRUE /\ step' = step /\ inputs' = inputs
    BY OutputsTyped DEF Spoil
<1>2. SinceTells' /\ AgainTells'
    BY <1>1 DEF ReuseInv, SinceTells, AgainTells, Hashed, Rehashed, WasRead
<1> QED BY <1>1, <1>2 DEF ReuseInv, UnderWay, StepOrder, OutputTold

LEMMA FailKeeps ==
    ASSUME ReuseInv, Fail
    PROVE  /\ step' \in StepRecords /\ UnderWay' /\ step'.result # "reused"
           /\ output' \in Outputs /\ tampered' \in BOOLEAN
<1>1. PICK result \in {"failed", "integrity"} : End(result)
    BY DEF Fail
<1>2. inputs \in Inputs /\ output \in Outputs /\ tampered \in BOOLEAN /\ result \in Results
    BY Typed DEF ReuseInv, Results
<1>3. output' \in Outputs
    BY <1>2, OutputsTyped DEF Fail
<1>4. tampered' = (tampered \/ output' # output)
    BY DEF Fail
<1> QED BY <1>1, <1>2, <1>3, <1>4, EndIs, EndedKeeps

LEMMA UnderWayKept ==
    ASSUME ReuseInv, UNCHANGED <<step, inputs, output, tampered>>
    PROVE  UnderWay'
BY DEF ReuseInv, UnderWay, StepOrder, SinceTells, AgainTells, OutputTold, Hashed, Rehashed, WasRead

LEMMA InvParts ==
    ReuseInv <=> TypeOK /\ CacheTold /\ UnderWay
BY DEF ReuseInv, CacheTold, UnderWay

LEMMA Rebuilt ==
    ASSUME inputs' \in Inputs, output' \in Outputs, now' \in 0..MaxTime,
           \A k \in Inputs : cache'[k] \in CacheRecords,
           step' \in StepRecords, tampered' \in BOOLEAN, CacheTold', UnderWay'
    PROVE  ReuseInv'
<1>1. TypeOK'
    BY DEF TypeOK, StepRecords, StepPCs, CacheRecords
<1> QED BY <1>1 DEF ReuseInv, CacheTold, UnderWay

LEMMA ReuseInitially == Init => ReuseInv
<1> SUFFICES ASSUME Init PROVE ReuseInv
    OBVIOUS
<1>1. inputs \in Inputs /\ output \in Outputs /\ now \in 0..MaxTime /\ tampered \in BOOLEAN
  <2>1. MaxTime \in Nat
    BY ReuseAssumption
  <2>2. Nothing \in Outputs /\ 0 \in 0..MaxTime
    BY <2>1, OutputsTyped
  <2> QED BY <2>2 DEF Init
<1>2. cache = [k \in Inputs |-> NoRecord] /\ NoRecord \in CacheRecords /\ NoRecord.is # "record"
    BY DEF Init, CacheRecords, NoRecord
<1>3. step \in StepRecords /\ step.pc = "ended"
  <2>1. Idle \in StepRecords
    BY <1>1, BlankTyped
  <2>2. Idle.pc = "ended"
    BY DEF Idle
  <2> QED BY <2>1, <2>2 DEF Init
<1>4. TypeOK
  <2>1. \A k \in Inputs : cache[k] \in CacheRecords
    BY <1>2
  <2> QED BY <1>1, <1>3, <2>1, Typed
<1>5. CacheTold
    BY <1>2 DEF CacheTold, CacheMaps, CacheTruthful, RecordTold
<1>6. UnderWay
    BY <1>3 DEF UnderWay, StepOrder, SinceTells, AgainTells, OutputTold, Hashed, Rehashed
<1> QED BY <1>4, <1>5, <1>6, InvParts

LEMMA ReuseInductive == ReuseInv /\ [Next]_vars => ReuseInv'
<1> SUFFICES ASSUME ReuseInv, [Next]_vars PROVE ReuseInv'
    OBVIOUS
<1>1. /\ inputs \in Inputs /\ output \in Outputs /\ now \in 0..MaxTime /\ tampered \in BOOLEAN
      /\ step \in StepRecords /\ \A k \in Inputs : cache[k] \in CacheRecords
      /\ CacheTold /\ UnderWay
    BY Typed, InvParts
<1>2. UNCHANGED cache => CacheTold' /\ \A k \in Inputs : cache'[k] \in CacheRecords
    BY <1>1, CacheKept
<1>3. ASSUME NEW r \in Results, End(r), UNCHANGED <<around, cache>> PROVE ReuseInv'
    BY <1>1, <1>2, <1>3, EndKeeps, Rebuilt DEF around
<1>r. {"reused", "succeeded", "failed", "integrity", "crashed"} \subseteq Results
    BY DEF Results
<1>4. ASSUME NEW fresh \in BOOLEAN, Begin(fresh) PROVE ReuseInv'
  <2>1. UNCHANGED <<inputs, output, now, cache, tampered>>
    BY <1>4 DEF Begin
  <2> QED BY <1>1, <1>2, <1>4, <2>1, BeginKeeps, Rebuilt
<1>5. CASE Hash
  <2>1. UNCHANGED <<inputs, output, now, cache, tampered>>
    BY <1>5 DEF Hash, around
  <2> QED BY <1>1, <1>2, <1>5, <2>1, HashKeeps, Rebuilt
<1>6. CASE Reuse
    BY <1>3, <1>6, <1>r DEF Reuse
<1>7. CASE Execute
  <2>1. UNCHANGED <<inputs, output, now, cache, tampered>>
    BY <1>7 DEF Execute, around
  <2> QED BY <1>1, <1>2, <1>7, <2>1, ExecuteKeeps, Rebuilt
<1>8. CASE ReadFile
  <2>1. UNCHANGED <<inputs, output, now, cache, tampered>>
    BY <1>8 DEF ReadFile, around
  <2> QED BY <1>1, <1>2, <1>8, <2>1, ReadKeeps, Rebuilt
<1>9. CASE Finish
  <2>1. UNCHANGED <<inputs, now, cache>>
    BY <1>9 DEF Finish
  <2> QED BY <1>1, <1>2, <1>9, <2>1, FinishKeeps, Rebuilt
<1>10. CASE Fail
  <2>1. UNCHANGED <<inputs, now, cache>>
    BY <1>10 DEF Fail
  <2> QED BY <1>1, <1>2, <1>10, <2>1, FailKeeps, Rebuilt
<1>11. CASE Rehash
  <2>1. UNCHANGED <<inputs, output, now, cache, tampered>>
    BY <1>11 DEF Rehash, around
  <2> QED BY <1>1, <1>2, <1>11, <2>1, RehashKeeps, Rebuilt
<1>12. CASE Save
  <2>1. End("succeeded") /\ UNCHANGED <<inputs, output, now, tampered>>
    BY <1>12 DEF Save, around
  <2> QED BY <1>1, <1>12, <1>r, <2>1, SaveKeeps, EndKeeps, Rebuilt
<1>13. CASE Reject
    BY <1>3, <1>13, <1>r DEF Reject
<1>14. CASE Crash
    BY <1>3, <1>14, <1>r DEF Crash
<1>15. ASSUME NEW f \in Files, Edit(f) PROVE ReuseInv'
  <2>1. UNCHANGED <<output, now, cache, tampered>> /\ inputs' \in Inputs
    BY <1>15, EditIs DEF Edit
  <2> QED BY <1>1, <1>2, <1>15, <2>1, EditKeeps, Rebuilt
<1>16. CASE Spoil
  <2>1. UNCHANGED <<inputs, now, cache, step>>
    BY <1>16 DEF Spoil
  <2> QED BY <1>1, <1>2, <1>16, <2>1, SpoilKeeps, Rebuilt
<1>17. CASE SetClock
  <2>1. UNCHANGED <<inputs, output, cache, step, tampered>> /\ now' \in 0..MaxTime
    BY <1>17 DEF SetClock
  <2> QED BY <1>1, <1>2, <2>1, UnderWayKept, Rebuilt
<1>18. ASSUME NEW k \in Inputs, PowerFails(k) PROVE ReuseInv'
  <2>1. End("crashed") /\ UNCHANGED <<inputs, output, now, tampered>>
    BY <1>18 DEF PowerFails, around
  <2> QED BY <1>1, <1>18, <1>r, <2>1, PowerKeeps, EndKeeps, Rebuilt
<1>19. CASE UNCHANGED vars
  <2>1. UNCHANGED <<inputs, output, now, cache, step, tampered>>
    BY <1>19 DEF vars
  <2> QED BY <1>1, <1>2, <2>1, UnderWayKept, Rebuilt
<1> QED
    BY <1>4, <1>5, <1>6, <1>7, <1>8, <1>9, <1>10, <1>11, <1>12, <1>13, <1>14, <1>15, <1>16, <1>17,
       <1>18, <1>19 DEF Next, Step

\* The invariant: what the hashes of the step say of the inputs, edit by edit.
THEOREM ReuseInvAlways == Spec => []ReuseInv
BY ReuseInitially, ReuseInductive, PTL DEF Spec

\* The state of a reusable step, its inputs and the cache are of their types.
THEOREM ReuseTypes == Spec => []TypeOK
<1>1. ReuseInv => TypeOK
    BY DEF ReuseInv
<1> QED BY <1>1, ReuseInvAlways, PTL

\* What the cache holds is the success of a run on the inputs it is filed under,
\* however and whenever the inputs are edited.
THEOREM CacheTruthfulHolds == Spec => []CacheTruthful
<1>1. ReuseInv => CacheTruthful
    BY DEF ReuseInv
<1> QED BY <1>1, ReuseInvAlways, PTL

\* A step that reuses a success would succeed now and leave what is there.
THEOREM ReuseSound == Spec => ReuseIsSound
<1>1. ASSUME ReuseInv, [Next]_vars, step.pc = "load", step'.result = "reused"
      PROVE  /\ 0 <= now - cache[step.key].at /\ now - cache[step.key].at <= MaxAge
             /\ (~cache[step.key].twice /\ ~cache[step.key].tampered
                   /\ \A f \in Files : step.since[f] = 0)
                  => inputs \in Fits /\ output = Made(inputs)
  <2>1. Reuse
    <3>1. step.result = "none" /\ step \in StepRecords /\ inputs \in Inputs
      BY <1>1, Typed DEF ReuseInv, StepOrder
    <3>2. ~(\E fresh \in BOOLEAN : Begin(fresh)) /\ ~Hash /\ ~ReadFile /\ ~Finish /\ ~Rehash
            /\ ~Save /\ ~Reject
      BY <1>1 DEF Begin, Hash, ReadFile, Finish, Rehash, Save, Reject
    <3>3. ~Fail
      BY <1>1, FailKeeps
    <3>4. ~Execute
      <4>1. "read" \in StepPCs
        BY DEF StepPCs
      <4> QED BY <1>1, <3>1, <4>1, GoesTo DEF Execute, StepIs
    <3>5. "crashed" \in Results
      BY DEF Results
    <3>6. ~End("crashed")
      BY <1>1, <3>1, <3>5, EndIs
    <3>7. ~Crash /\ ~\E k \in Inputs : PowerFails(k)
      BY <3>6 DEF Crash, PowerFails
    <3>8. ~\E f \in Files : Edit(f)
      BY <1>1, <3>1, EditIs DEF StepIs
    <3>9. ~Spoil /\ ~SetClock /\ ~UNCHANGED vars
      BY <1>1, <3>1 DEF Spoil, SetClock, vars
    <3> QED
      BY <1>1, <3>2, <3>3, <3>4, <3>7, <3>8, <3>9 DEF Next, Step
  <2>2. step \in StepRecords /\ inputs \in Inputs /\ now \in 0..MaxTime /\ step.key \in Inputs
    BY <1>1, Typed, StepTyped DEF ReuseInv
  <2> DEFINE r == cache[step.key]
  <2>3. r \in CacheRecords /\ r.is = "record" /\ r.at <= now /\ now - r.at <= MaxAge
          /\ r.output = output
    BY <1>1, <2>1, <2>2, Typed DEF ReuseInv, Reuse, Usable
  <2>4. r.at \in 0..MaxTime
    BY <2>3 DEF CacheRecords, NoRecord, Torn
  <2>5. 0 <= now - r.at
    BY <2>2, <2>3, <2>4
  <2>6. ASSUME ~r.twice, ~r.tampered, \A f \in Files : step.since[f] = 0
        PROVE  inputs \in Fits /\ output = Made(inputs)
    <3>1. r.read \in Fits /\ r.read = step.key /\ r.output = Made(r.read)
      BY <1>1, <2>2, <2>3, <2>6 DEF ReuseInv, CacheTruthful, RecordTold
    <3>2. \A f \in Files : Hashed(f) /\ ~Rehashed(f)
      BY <1>1 DEF ReuseInv, StepOrder, Hashed, Rehashed
    <3>3. \A f \in Files : inputs[f] = step.key[f]
      BY <1>1, <2>6, <3>2 DEF ReuseInv, SinceTells
    <3>4. inputs = step.key
      BY <2>2, <3>3 DEF Inputs
    <3> QED BY <2>3, <3>1, <3>4
  <2> QED BY <2>3, <2>5, <2>6
<1>2. ReuseInv /\ [Next]_vars =>
        [step.pc = "load" /\ step'.result = "reused" =>
         LET r == cache[step.key]
         IN /\ 0 <= now - r.at /\ now - r.at <= MaxAge
            /\ ~r.twice /\ ~r.tampered /\ (\A f \in Files : step.since[f] = 0)
                 => inputs \in Fits /\ output = Made(inputs)]_vars
    BY <1>1
<1> QED BY <1>2, ReuseInvAlways, PTL DEF Spec, ReuseIsSound

===============================================================================
