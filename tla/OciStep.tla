------------------------------- MODULE OciStep -------------------------------
(***************************************************************************)
(* A CI step in a container of its own (Run, internal/cirun/ociexec): dva  *)
(* snapshots the inputs, writes down which container it intends to make,   *)
(* makes it, checks it against its policy, starts it attached, looks how   *)
(* it ended and removes it, whatever happened.                             *)
(*                                                                         *)
(* It drives Docker through a command line of which any call may fail, be  *)
(* cut off by the deadline of the step, or be carried out after its caller *)
(* gave up.  The endpoint may come to be another daemon's; people rename   *)
(* and remove containers; dva may be killed.                               *)
(***************************************************************************)
EXTENDS Integers

CONSTANT MaxSwitches    \* bound: times another daemon takes over the endpoint

ASSUME OciAssumption == MaxSwitches \in Nat

Daemons == {1, 2}   \* 1 is the one that newDocker pinned

VARIABLES
    oci,        \* Run: where it is and its locals
    over,       \* its context has ended
    intent,     \* what intent.json says; stuck, a temporary file blocks its path
    stuck,
    snapshot,   \* the copy of the inputs exists
    endpoint,   \* the daemon that answers, and how often that changed
    switches,
    box,        \* the container of the step
    asked,      \* the daemon on its way to which the request to create it is, or 0
    starting,   \* the request to start it is on its way
    other,      \* other[d]: another container on d bears its name
    strayed     \* history: it was asked of, or looked for on, an unchecked daemon

ociVars == <<oci, over, intent, stuck, snapshot, endpoint, switches, box, asked, starting, other, strayed>>
disk == <<intent, stuck, snapshot>>
docker == <<endpoint, switches, box, asked, starting, other, strayed>>

Running == {"prepare", "copy", "intent", "same", "create", "await", "bind", "verify", "again", "mark", "attach", "attached"}
Finishing == {"observe", "check", "inspect", "absent", "remove", "proof", "unsnap", "outcome"}
BoxStates == {"none", "created", "running", "ok", "bad"}

OciTypeOK ==
    /\ oci \in [pc : {"idle", "ended", "dead"} \cup Running \cup Finishing, bound : BOOLEAN,
                attached : BOOLEAN, failed : BOOLEAN,
                cleanup : {"not-created", "pending", "failed", "absent", "removed"}]
    /\ over \in BOOLEAN /\ intent \in {"none", "named", "bound", "outcome"} /\ stuck \in BOOLEAN
    /\ snapshot \in BOOLEAN
    /\ endpoint \in Daemons /\ switches \in 0..MaxSwitches /\ asked \in Daemons \cup {0}
    /\ box \in [at : Daemons \cup {0}, state : BoxStates, named : BOOLEAN]
    /\ starting \in BOOLEAN /\ other \in [Daemons -> BOOLEAN] /\ strayed \in BOOLEAN

OciInit ==
    /\ oci = [pc |-> "idle", bound |-> FALSE, attached |-> FALSE, failed |-> FALSE,
              cleanup |-> "not-created"]
    /\ over = FALSE /\ intent = "none" /\ stuck = FALSE /\ snapshot = FALSE
    /\ endpoint = 1 /\ switches = 0 /\ asked = 0 /\ starting = FALSE
    /\ box = [at |-> 0, state |-> "none", named |-> FALSE]
    /\ other = [d \in Daemons |-> FALSE] /\ strayed = FALSE

\* box.state stays when it is removed: how its work ended, if it did.
Exists == box.at # 0
Born == box.state # "none"
Here == Exists /\ box.at = endpoint

OciGo(pc) == oci' = [oci EXCEPT !.pc = pc]

\* Where Run's deferred function begins.
Deferred ==
    IF oci.cleanup = "not-created" THEN "unsnap" ELSE IF oci.attached THEN "observe" ELSE "check"

OciFail == oci' = [oci EXCEPT !.failed = TRUE, !.pc = Deferred]

Cleaned(how) ==
    oci' = [oci EXCEPT !.cleanup = how, !.failed = @ \/ how = "failed",
                       !.pc = IF how = "failed" THEN "outcome" ELSE "unsnap"]

\* persistIntent: a temporary file that is created exclusively, filled, synced and
\* renamed.  After an error the old or the new one is there, and what is left of
\* the temporary file fails every later attempt.
PersistIntent(to, Then, Else) ==
    \/ ~stuck /\ intent' = to /\ UNCHANGED stuck /\ Then
    \/ UNCHANGED intent /\ stuck' \in {stuck, TRUE} /\ Else
    \/ ~stuck /\ intent' = to /\ UNCHANGED stuck /\ Else

\* sameDaemon; the digest of the docker binary stands for itself.
SameDaemon == endpoint = 1

-----------------------------------------------------------------------------
(* The step *)

\* The state directory, the private directory and the snapshot's.
BeginOci ==
    /\ oci.pc = "idle"
    /\ \/ OciGo("prepare") /\ snapshot' = TRUE
       \/ oci' = [oci EXCEPT !.failed = TRUE, !.pc = "ended"] /\ UNCHANGED snapshot
    /\ UNCHANGED <<over, intent, stuck, docker>>

\* newDocker, which pins the daemon, and the image.
Prepare ==
    /\ oci.pc = "prepare" /\ ~over
    /\ OciGo("copy")
    /\ UNCHANGED <<over, disk, docker>>

\* snapshotInput; nothing asks for the deadline while files are copied.
CopyInput ==
    /\ oci.pc = "copy"
    /\ OciGo("intent")
    /\ UNCHANGED <<over, disk, docker>>

NameIntent ==
    /\ oci.pc = "intent"
    /\ PersistIntent("named", OciGo("same"), OciFail)
    /\ UNCHANGED <<over, snapshot, docker>>

CheckDaemon ==
    /\ oci.pc \in {"same", "again"} /\ ~over /\ SameDaemon
    /\ OciGo(IF oci.pc = "same" THEN "create" ELSE "mark")
    /\ UNCHANGED <<over, disk, docker>>

\* From here on there may be a container, whatever the answer is and whether or
\* not the request was sent.
Create ==
    /\ oci.pc = "create"
    /\ oci' = [oci EXCEPT !.cleanup = "pending", !.pc = "await"]
    /\ asked' \in {0} \cup (IF over THEN {} ELSE {endpoint})
    /\ strayed' = (strayed \/ asked' = 2)
    /\ UNCHANGED <<over, disk, endpoint, switches, box, starting, other>>

Created ==
    /\ oci.pc = "await" /\ ~over /\ Born
    /\ oci' = [oci EXCEPT !.bound = TRUE, !.pc = "bind"]
    /\ UNCHANGED <<over, disk, docker>>

\* The container's ID goes on disk, and once more after the checks.
BindIntent ==
    /\ oci.pc \in {"bind", "mark"}
    /\ PersistIntent("bound", OciGo(IF oci.pc = "bind" THEN "verify" ELSE "attach"), OciFail)
    /\ UNCHANGED <<over, snapshot, docker>>

\* inspect by ID and verifyPolicy.
Verify ==
    /\ oci.pc = "verify" /\ ~over /\ Here /\ box.state = "created"
    /\ OciGo("again")
    /\ UNCHANGED <<over, disk, docker>>

Attach ==
    /\ oci.pc = "attach"
    /\ oci' = [oci EXCEPT !.attached = TRUE, !.pc = "attached"]
    /\ starting' \in {FALSE, Here /\ ~over}
    /\ UNCHANGED <<over, disk, endpoint, switches, box, asked, other, strayed>>

\* observedKernel: the bootstrap printed the limits it found before the workload.
KernelEvidence == box.state \in {"running", "ok", "bad"}

\* `docker start --attach` returns: its error, the kernel's evidence in the
\* output, the output's limit and the context decide.  It may return without the
\* workload having ended.
AttachReturns ==
    /\ oci.pc = "attached"
    /\ \E evidence, error \in BOOLEAN :
         /\ evidence => KernelEvidence
         /\ oci' = [oci EXCEPT !.failed = @ \/ ~evidence \/ error \/ over, !.pc = "observe"]
    /\ UNCHANGED <<over, disk, docker>>

\* A check fails, the context has ended, or Docker's command line fails.
Break ==
    /\ oci.pc \in {"prepare", "copy", "same", "again", "await", "verify"}
    /\ OciFail
    /\ UNCHANGED <<over, disk, docker>>

-----------------------------------------------------------------------------
(* Run's deferred function, within ten seconds of its own *)

\* The workload is seen to have ended well.
SeenWell == Here /\ box.state = "ok"

Observe ==
    /\ oci.pc = "observe"
    /\ \/ oci' = [oci EXCEPT !.failed = @ \/ ~SeenWell, !.pc = "check"]
       \/ oci' = [oci EXCEPT !.failed = TRUE, !.pc = "check"]
    /\ UNCHANGED <<over, disk, docker>>

CheckAgain ==
    /\ oci.pc = "check"
    /\ (SameDaemon /\ OciGo("inspect")) \/ Cleaned("failed")
    /\ UNCHANGED <<over, disk, docker>>

\* What the reference of the intent, its ID or else its name, finds on the daemon.
Finds ==
    IF Here /\ (oci.bound \/ box.named) THEN "own"
    ELSE IF ~oci.bound /\ other[endpoint] THEN "other" ELSE "nothing"

\* ownsContainer: the name or ID, and the labels with the run, step and nonce.
OwnsContainer(found) == found = "own"

InspectOwn ==
    /\ oci.pc = "inspect" /\ OwnsContainer(Finds)
    /\ IF oci.bound THEN OciGo("remove") /\ UNCHANGED <<intent, stuck>>
       ELSE PersistIntent("bound", oci' = [oci EXCEPT !.bound = Finds = "own", !.pc = "remove"], Cleaned("failed"))
    /\ UNCHANGED <<over, snapshot, docker>>

InspectOther ==
    /\ oci.pc = "inspect" /\ Finds # "nothing" /\ ~OwnsContainer(Finds)
    /\ Cleaned("failed")
    /\ UNCHANGED <<over, disk, docker>>

\* Nothing found, or no answer.
InspectNothing ==
    /\ oci.pc = "inspect"
    /\ OciGo("absent")
    /\ UNCHANGED <<over, disk, docker>>

\* Faulty: absence by name excludes nothing, but counts.
AbsentByName == Finds = "nothing"

\* Only for an ID: absence by name cannot exclude a late create.
Absent == oci.bound /\ Finds = "nothing"

ProveAbsent ==
    /\ oci.pc = "absent"
    /\ (Absent /\ Cleaned("absent")) \/ Cleaned("failed")
    /\ UNCHANGED <<over, disk, docker>>

\* `docker rm` of what was inspected.  When it fails it may have removed it.
Remove ==
    /\ oci.pc = "remove"
    /\ LET removes == /\ box' = IF Finds = "own" THEN [box EXCEPT !.at = 0] ELSE box
                      /\ other' = IF Finds = "other" THEN [other EXCEPT ![endpoint] = FALSE] ELSE other
       IN \/ Finds # "nothing" /\ removes /\ OciGo("proof")
          \/ removes /\ Cleaned("failed")
          \/ UNCHANGED <<box, other>> /\ Cleaned("failed")
    /\ UNCHANGED <<over, disk, endpoint, switches, asked, starting, strayed>>

ProveRemoved ==
    /\ oci.pc = "proof"
    /\ (Finds = "nothing" /\ Cleaned("removed")) \/ Cleaned("failed")
    /\ UNCHANGED <<over, disk, docker>>

\* removeSnapshotAt, if the container is done with.
Unsnap ==
    /\ oci.pc = "unsnap"
    /\ \/ snapshot' = FALSE /\ OciGo("outcome")
       \/ UNCHANGED snapshot /\ oci' = [oci EXCEPT !.failed = TRUE, !.pc = "outcome"]
    /\ UNCHANGED <<over, intent, stuck, docker>>

Conclude ==
    /\ oci.pc = "outcome"
    /\ PersistIntent("outcome", OciGo("ended"), oci' = [oci EXCEPT !.failed = TRUE, !.pc = "ended"])
    /\ UNCHANGED <<over, snapshot, docker>>

-----------------------------------------------------------------------------
(* Docker, people and time *)

Active == oci.pc \in Running \cup Finishing

\* The deadline of the step, or the run is canceled.
Expire ==
    /\ Active /\ ~over /\ over' = TRUE
    /\ UNCHANGED <<oci, disk, docker>>

Die ==
    /\ Active /\ OciGo("dead")
    /\ UNCHANGED <<over, disk, docker>>

\* The container is made, however late, unless its name is taken.
Land ==
    /\ asked # 0 /\ ~other[asked]
    /\ asked' = 0 /\ box' = [at |-> asked, state |-> "created", named |-> TRUE]
    /\ UNCHANGED <<oci, over, disk, endpoint, switches, starting, other, strayed>>

Lose ==
    /\ asked # 0 \/ starting
    /\ asked' = 0 /\ starting' = FALSE
    /\ UNCHANGED <<oci, over, disk, endpoint, switches, box, other, strayed>>

StartLands ==
    /\ starting /\ Exists /\ starting' = FALSE
    /\ box' = [box EXCEPT !.state = "running"]
    /\ UNCHANGED <<oci, over, disk, endpoint, switches, asked, other, strayed>>

WorkEnds ==
    /\ Exists /\ box.state = "running"
    /\ \E state \in {"ok", "bad"} : box' = [box EXCEPT !.state = state]
    /\ UNCHANGED <<oci, over, disk, endpoint, switches, asked, starting, other, strayed>>

\* Somebody removes the container, or gives it another name.
Meddle ==
    /\ Exists
    /\ box' \in {[box EXCEPT !.at = 0], [box EXCEPT !.named = FALSE]}
    /\ UNCHANGED <<oci, over, disk, endpoint, switches, asked, starting, other, strayed>>

\* Somebody gives its name to another one; the nonce in it is on disk.
TakeName(d) ==
    /\ intent # "none" /\ ~other[d] /\ ~(box.at = d /\ box.named)
    /\ other' = [other EXCEPT ![d] = TRUE]
    /\ UNCHANGED <<oci, over, disk, endpoint, switches, box, asked, starting, strayed>>

Switch ==
    /\ Active /\ oci.pc # "prepare" /\ switches < MaxSwitches
    /\ switches' = switches + 1
    /\ endpoint' \in Daemons \ {endpoint}
    /\ strayed' = (strayed \/ oci.pc \in {"inspect", "absent", "remove", "proof"})
    /\ UNCHANGED <<oci, over, disk, box, asked, starting, other>>

-----------------------------------------------------------------------------
(* The specification *)

RunOci ==
    \/ BeginOci \/ Prepare \/ CopyInput \/ NameIntent \/ CheckDaemon \/ Create \/ Created \/ BindIntent
    \/ Verify \/ Attach \/ AttachReturns \/ Break

FinishOci ==
    \/ Observe \/ CheckAgain \/ InspectOwn \/ InspectOther \/ InspectNothing \/ ProveAbsent
    \/ Remove \/ ProveRemoved \/ Unsnap \/ Conclude

OciNext ==
    \/ RunOci \/ FinishOci
    \/ Expire \/ Die \/ Land \/ Lose \/ StartLands \/ WorkEnds \/ Meddle \/ Switch
    \/ \E d \in Daemons : TakeName(d)

OciSpec == OciInit /\ [][OciNext]_ociVars

-----------------------------------------------------------------------------
(* Properties *)

\* A container of dva's is never lost: the intent on disk names it before it can
\* exist and holds its ID before it can run (execute.go 152-155, 174-178); its
\* cleanup is only claimed when it is gone and cannot come to be any more (237-246);
\* and the snapshot it is mounted on outlives it (110-115).  The two claims are
\* about a container that no other daemon was given between a check and a call.
\* And a step succeeds only if the workload was seen to end well, its container and
\* its snapshot were removed and the outcome is on disk (83-120).
OciAccounted ==
    /\ Exists \/ asked # 0 => intent # "none"
    /\ box.state \in {"running", "ok", "bad"} => intent \in {"bound", "outcome"}
    /\ ~strayed =>
         /\ oci.pc = "ended" /\ oci.cleanup # "failed" => ~Exists /\ asked = 0
         /\ snapshot \/ oci.pc = "idle" \/ (~Exists /\ asked = 0)
    /\ oci.pc = "ended" /\ ~oci.failed =>
         /\ box.state = "ok"
         /\ oci.cleanup \in {"removed", "absent"} /\ (Exists => strayed)
         /\ ~snapshot /\ intent = "outcome"

\* A container that is not the step's is never removed, though it bears its name
\* (ownsContainer, policy.go 96-104).
OciTouchesOwn == [][\A d \in Daemons : other[d] => other'[d]]_ociVars

=============================================================================
