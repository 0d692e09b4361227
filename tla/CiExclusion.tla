---------------------------- MODULE CiExclusion ----------------------------
(***************************************************************************)
(* What the CI run locks promise, without the lock files: a run waits, is  *)
(* active at most once, and is then gone.  Two runs that need the same     *)
(* root or the same declared resource are never active together.           *)
(***************************************************************************)
CONSTANTS
    Runs,       \* the executions of `dva ci run`, one per run ID
    Keys,       \* what a lock can be taken on: canonical roots and resources
    Needs       \* Needs[r] \subseteq Keys: the keys run r must hold

VARIABLE phase

Phases == {"waiting", "active", "gone"}

TypeOK == phase \in [Runs -> Phases]

Init == phase = [r \in Runs |-> "waiting"]

Conflict(r, s) == r # s /\ Needs[r] \cap Needs[s] # {}

Admit(r) ==
    /\ phase[r] = "waiting"
    /\ \A s \in Runs : Conflict(r, s) => phase[s] # "active"
    /\ phase' = [phase EXCEPT ![r] = "active"]

\* A run leaves without having been active when it is refused, fails or dies.
Leave(r) ==
    /\ phase[r] # "gone"
    /\ phase' = [phase EXCEPT ![r] = "gone"]

Next == \E r \in Runs : Admit(r) \/ Leave(r)

Spec == Init /\ [][Next]_phase

=============================================================================
