-------------------------------- MODULE MCPlans --------------------------------
(***************************************************************************)
(* Instances of PlanComposition, PlanResolve and EnvVars for TLC: from the *)
(* two files to the services of a plan, the environment those get, and the *)
(* commands on a composition of plans.  The three share no state and are   *)
(* explored apart: side says which of them moves, the others stay as they  *)
(* began.                                                                  *)
(***************************************************************************)
EXTENDS MCPlanComposition, MCPlanResolve, MCEnvVars

VARIABLE side

\* Where a side that does not move stays; of the commands it is the end of a
\* `status`, since liveness is theirs.
NamesRest ==
    /\ files = [o \in Owners |-> [n \in Names |-> Missing]] /\ present = {}
    /\ plans = <<>> /\ step = "start" /\ result = Nothing

NothingDeclared == [vars |-> <<>>, environment |-> <<>>, files |-> <<>>]
EnvRest ==
    /\ decl = [c \in Configs \cup {"plans"} |-> IF c = "plans" THEN <<>> ELSE NothingDeclared]
    /\ os = <<>> /\ env = [c \in Configs |-> <<>>]
    /\ report = [c \in Configs |-> "none"]
    /\ pass = [left |-> {}, changed |-> FALSE, count |-> 0]
    /\ at = "load" /\ target = [config |-> "root", plan |-> 0]
    /\ children = <<>> /\ ups = 0

Free == [c \in Children |-> {}]
CommandsRest ==
    /\ deps = Free /\ wave = [c \in Children |-> 0] /\ inDegree = [c \in Children |-> 0]
    /\ queue = {} /\ processed = Children /\ waves = "ok"
    /\ plan = <<1, 3, 2>> /\ running = {} /\ deaths = 0 /\ ctxDone = FALSE
    /\ cmd = [verb |-> "status", noWait |-> FALSE, noRollback |-> FALSE, step |-> "done",
              undo |-> FALSE, pos |-> 0, entry |-> 0, up |-> FALSE, err |-> FALSE]
    /\ probe = NoProbe /\ succeeded = <<>>
    /\ row = [c \in Children |-> "not_started"]
    /\ outcome = "down" /\ seen = NothingSeen

PlansInit ==
    \/ side = "names" /\ ResolveInit /\ CommandsRest /\ EnvRest
    \/ side = "environment" /\ EnvInit /\ CommandsRest /\ NamesRest
    \/ side = "commands" /\ Init /\ NamesRest /\ EnvRest

PlansNext ==
    /\ UNCHANGED side
    /\ \/ side = "commands" /\ Next /\ UNCHANGED <<resolveVars, envVars>>
       \/ side = "names" /\ ResolveNext /\ UNCHANGED <<vars, envVars>>
       \/ side = "environment" /\ EnvNext /\ UNCHANGED <<vars, resolveVars>>

plansVars == <<vars, resolveVars, envVars, side>>

\* The fairness of FairSpec.
Working == side = "commands" /\ Work /\ UNCHANGED <<resolveVars, envVars, side>>

PlansSpec == PlansInit /\ [][PlansNext]_plansVars /\ WF_plansVars(Working)

===============================================================================
