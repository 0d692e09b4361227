------------------------------ MODULE MCCiSteps ------------------------------
(***************************************************************************)
(* Instances of CiReuse, OciStep and JobRun for TLC: a reusable step of    *)
(* two inputs that must agree for it to succeed; a step in a container;    *)
(* and a remote job of two runs, the first with images, with two secret    *)
(* targets: a repository, which another push also writes to, and a cluster.*)
(* The three share no state and are explored apart: side says which of     *)
(* them moves, the others stay as they began.                              *)
(***************************************************************************)
EXTENDS CiReuse, OciStep, JobRun, TLC

CONSTANTS repo, cluster, rival, w

VARIABLE side

Agreeing == {i \in Inputs : i[1] = i[2]}

Places == repo :> "repository" @@ rival :> "repository" @@ cluster :> "cluster"
Keys == repo :> {1, 2} @@ rival :> {2} @@ cluster :> {1, 2}
Targets == <<repo, cluster>>

StepsInit ==
    /\ side \in {"reuse", "container", "job"}
    /\ Init /\ OciInit /\ JobInit
    \* the two values mean the same: the first file may begin with either
    /\ inputs[1] = 0 /\ (side # "reuse" => inputs = Blank)
    \* a wait without verification is that of `job run --wait`
    /\ actor[w].verb = "resume" => actor[w].verify
    /\ side # "job" => cast = {w} /\ actor[w].verb = "status" /\ ~actor[Runner].poll

StepsNext ==
    /\ UNCHANGED side
    /\ \/ side = "reuse" /\ Next /\ UNCHANGED <<ociVars, remoteVars>>
       \/ side = "container" /\ OciNext /\ UNCHANGED <<vars, remoteVars>>
       \/ side = "job" /\ JobNext /\ UNCHANGED <<vars, ociVars>>

StepsSpec == StepsInit /\ [][StepsNext]_<<vars, ociVars, remoteVars, side>>

=============================================================================
