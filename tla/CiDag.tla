------------------------------- MODULE CiDag --------------------------------
(***************************************************************************)
(* What running the steps of a CI profile promises, without the loop, the  *)
(* goroutines and the receipts: steps run after their prerequisites and    *)
(* never more than Max at a time; a step is skipped only because something *)
(* it needs did not succeed or because the whole run was given up.         *)
(***************************************************************************)
EXTENDS Integers, FiniteSets

CONSTANTS
    Steps,      \* the steps of the profile
    Deps,       \* Deps[s] \subseteq Steps: depends_on
    Max         \* the most steps that may run at once

VARIABLES
    state,      \* state[s]
    givenUp     \* the run starts nothing any more

Init == state = [s \in Steps |-> "waiting"] /\ givenUp = FALSE

Running == {s \in Steps : state[s] = "running"}

StartStep(s) ==
    /\ state[s] = "waiting" /\ ~givenUp
    /\ \A d \in Deps[s] : state[d] = "succeeded"
    /\ Cardinality(Running) < Max
    /\ state' = [state EXCEPT ![s] = "running"]
    /\ UNCHANGED givenUp

\* A result may make the run give up: fail-fast, or it could not be recorded.
EndStep(s) ==
    /\ state[s] = "running"
    /\ \E end \in {"succeeded", "unsuccessful"} :
          state' = [state EXCEPT ![s] = end]
    /\ givenUp' \in {givenUp, TRUE}

SkipBlocked(s) ==
    /\ state[s] = "waiting"
    /\ \E d \in Deps[s] : state[d] \in {"unsuccessful", "skipped"}
    /\ state' = [state EXCEPT ![s] = "skipped"]
    /\ givenUp' \in {givenUp, TRUE}

GiveUp == givenUp' = TRUE /\ UNCHANGED state

\* A run that was given up skips whatever waits, once nothing runs.
SkipRest ==
    /\ givenUp /\ Running = {}
    /\ state' = [s \in Steps |->
                    IF state[s] = "waiting" THEN "skipped" ELSE state[s]]
    /\ UNCHANGED givenUp

Next ==
    \/ \E s \in Steps : StartStep(s) \/ EndStep(s) \/ SkipBlocked(s)
    \/ GiveUp
    \/ SkipRest

Spec == Init /\ [][Next]_<<state, givenUp>>

=============================================================================
