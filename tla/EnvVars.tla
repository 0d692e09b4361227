------------------------------- MODULE EnvVars -------------------------------
(***************************************************************************)
(* The environment of a started service: Environment.MergeVars and the     *)
(* expansion of ${NAME}, ${NAME:-default} and ${NAME-default}              *)
(* (internal/config/environment.go), the env_file declarations, applied    *)
(* all or not at all (envinput.go, envfile.go), the layers of a plan       *)
(* (internal/lifecycle/resolver.go) and the environment a plan runs in     *)
(* (internal/cli/plan_runtime.go).                                         *)
(*                                                                         *)
(* A command loads the root's environment, then brings up plans one after  *)
(* the other, as a composition does: the root's plans in the environment   *)
(* it loaded, an imported one in a fresh environment of its own config.    *)
(*                                                                         *)
(* A value is a sequence of pieces, literals and references.  A reference  *)
(* nobody can resolve stays in the value.  Text that only becomes a        *)
(* reference by being put together is not modelled.                        *)
(***************************************************************************)
EXTENDS Naturals, SequencesExt

CONSTANTS
    Declarations,   \* what the two configs and their plans may declare
    Shells,         \* the variables the shell may export, by name
    MaxPasses,      \* maxIterations of the repair, 10 in the code
    MaxUps          \* bound: plans brought up by the command

\* Names are numbers: MergeVars resolves them in their sorted order.
Literal(x) == [is |-> "text", text |-> x]
Reference(n, op, def) == [is |-> "ref", name |-> n, op |-> op, def |-> def]

Configs == {"root", "sub"}
Found == {"ok", "missing", "unreadable", "malformed"}

\* An env_file entry: its path, what is found there and the assignments in it.
FileShape(f) == DOMAIN f = {"path", "required", "found", "body"}

\* A plan: its layers of variables from lowest to highest above the config's
\* own vars, and those of its entry above all of them.
PlanShape(p) == DOMAIN p = {"of", "layers", "entry"}

ASSUME EnvAssumption ==
    /\ MaxPasses \in Nat \ {0} /\ MaxUps \in Nat
    /\ \A d \in Declarations :
         /\ \A c \in Configs : DOMAIN d[c] = {"vars", "environment", "files"}
         /\ \A c \in Configs : \A i \in DOMAIN d[c].files : FileShape(d[c].files[i])
         /\ \A i \in DOMAIN d.plans : PlanShape(d.plans[i]) /\ d.plans[i].of \in Configs

VARIABLES
    decl,       \* the declarations
    os,         \* the OS environment
    env,        \* env[c]: Environment.Vars of the config's environment
    report,     \* report[c]: the verdict on its env_file entries
    pass,       \* the repair: names left in the pass, whether it changed one, passes so far
    at,         \* what the command does: load, repair, ready
    target,     \* the config being loaded, the plan it is loaded for (0: none yet)
    children,   \* the plans brought up, each with the environment its service got
    ups

envVars == <<decl, os, env, report, pass, at, target, children, ups>>

EnvInit ==
    /\ decl \in Declarations /\ os \in Shells
    /\ env = [c \in Configs |-> <<>>]
    /\ report = [c \in Configs |-> "none"]
    /\ pass = [left |-> {}, changed |-> FALSE, count |-> 0]
    /\ at = "load" /\ target = [config |-> "root", plan |-> 0]
    /\ children = <<>> /\ ups = 0

TypeOKEnv ==
    /\ at \in {"load", "repair", "ready"}
    /\ report \in [Configs -> {"none", "complete", "skips", "incomplete"}]
    /\ ups \in 0..MaxUps /\ pass.count \in 0..MaxPasses

-----------------------------------------------------------------------------
(* Expansion *)

\* The OS below the merged variables: Environment.lookup.
Scope(vars) == vars @@ os

TakesDefault(ref, known, value) ==
    \/ ref.op = ":-" /\ (~known \/ value = <<>>)
    \/ ref.op = "-" /\ ~known

RECURSIVE Interpolate(_, _)
Interpolate(value, scope) ==
    LET piece(a) ==
            IF a.is = "text" THEN <<a>>
            ELSE LET known == a.name \in DOMAIN scope
                     found == IF known THEN scope[a.name] ELSE <<>>
                 IN  IF TakesDefault(a, known, found) THEN Interpolate(a.def, scope)
                     ELSE IF known THEN found ELSE <<a>>
    IN  FoldLeft(LAMBDA text, a : text \o piece(a), <<>>, value)

HasRef(value) == \E i \in DOMAIN value : value[i].is = "ref"

\* MergeVars resolves a batch by dependency.  acc is the text so far and done
\* the names resolved so far; open are the names being resolved, and a
\* reference to one of those reads the environment before the merge.
RECURSIVE ResolveName(_, _, _, _, _), Spell(_, _, _, _, _)
ResolveName(vars, batch, done, open, n) ==
    IF n \in DOMAIN done THEN done
    ELSE IF n \in DOMAIN os THEN done @@ (n :> os[n])
    ELSE LET spelt == Spell(vars, batch, [text |-> <<>>, done |-> done], open \cup {n}, batch[n])
         IN  spelt.done @@ (n :> spelt.text)

Spell(vars, batch, start, open, value) ==
    LET piece(acc, a) ==
            LET sibling == a.name \in DOMAIN batch /\ a.name \notin open
                done == IF sibling THEN ResolveName(vars, batch, acc.done, open, a.name)
                        ELSE acc.done
                known == sibling \/ a.name \in DOMAIN Scope(vars)
                found == IF sibling THEN done[a.name]
                         ELSE IF known THEN Scope(vars)[a.name] ELSE <<a>>
            IN  IF TakesDefault(a, known, found)
                THEN Spell(vars, batch, [acc EXCEPT !.done = done], open, a.def)
                ELSE [text |-> acc.text \o found, done |-> done]
    IN  FoldLeft(LAMBDA acc, a : IF a.is = "text" THEN [acc EXCEPT !.text = Append(@, a)]
                                 ELSE piece(acc, a),
                 start, value)

\* Faulty: in visiting order, each value as soon as it is reached.
MergeInOrder(vars, batch) ==
    FoldLeft(LAMBDA acc, n : (n :> IF n \in DOMAIN os THEN os[n]
                                   ELSE Interpolate(batch[n], Scope(acc))) @@ acc,
             vars, SetToSortSeq(DOMAIN batch, <))

MergeVars(vars, batch) ==
    FoldLeft(LAMBDA done, n : ResolveName(vars, batch, done, {}, n),
             <<>>, SetToSortSeq(DOMAIN batch, <)) @@ vars

-----------------------------------------------------------------------------
(* Loading a config's environment *)

Of(c) == decl[c]

\* EnvFileScope: what the paths of env_file entries may refer to.
EnvFileScope(c) == MergeVars(MergeVars(<<>>, Of(c).vars), Of(c).environment)

\* A path with a reference left, or that expands to nothing, names no file.
PathFails(vars, file) ==
    LET path == Interpolate(file.path, Scope(vars))
    IN  path = <<>> \/ HasRef(path)

FileStatus(vars, file) ==
    IF PathFails(vars, file) THEN "failed"
    ELSE IF file.found = "ok" THEN "loaded"
    ELSE IF file.found = "missing" /\ ~file.required THEN "skipped"
    ELSE "failed"

\* InspectEnvFiles looks at every entry before any value is applied.
Statuses(c, vars) == {FileStatus(vars, Of(c).files[i]) : i \in DOMAIN Of(c).files}

Verdict(c, vars) ==
    IF "failed" \in Statuses(c, vars) THEN "incomplete"
    ELSE IF "skipped" \in Statuses(c, vars) THEN "skips" ELSE "complete"

\* Faulty: the files before the one that fails are merged.
LoadedBodies(c, vars) ==
    LET loaded == SelectSeq(Of(c).files, LAMBDA f : FileStatus(vars, f) = "loaded")
    IN  [i \in DOMAIN loaded |-> loaded[i].body]
MergeSome(c, vars) == FoldLeft(MergeVars, vars, LoadedBodies(c, vars))

\* The values ApplyEnvFiles merges, in the order of the declarations.
MergeFiles(c, vars) ==
    IF Verdict(c, vars) = "incomplete" THEN vars
    ELSE FoldLeft(MergeVars, vars, LoadedBodies(c, vars))

FirstPass(vars) == [left |-> DOMAIN vars, changed |-> FALSE, count |-> 1]

\* newConfigEnvironmentAt up to the repair.
ApplyEnvFiles ==
    /\ at = "load"
    /\ LET c == target.config
           scope == EnvFileScope(c)
           merged == MergeFiles(c, scope)
       IN  /\ env' = [env EXCEPT ![c] = merged]
           /\ report' = [report EXCEPT ![c] = Verdict(c, scope)]
           /\ pass' = FirstPass(merged)
           /\ at' = IF Verdict(c, scope) = "incomplete" THEN "ready" ELSE "repair"
    /\ UNCHANGED <<decl, os, target, children, ups>>

\* interpolateEnvVars: a pass visits the names in the order of a Go map, any
\* order, and writes each value where the rest of the pass reads it.
RepairName(n) ==
    /\ at = "repair" /\ n \in pass.left
    /\ LET c == target.config
           value == Interpolate(env[c][n], Scope(env[c]))
       IN  /\ env' = [env EXCEPT ![c][n] = value]
           /\ pass' = [pass EXCEPT !.left = @ \ {n}, !.changed = @ \/ value # env[c][n]]
    /\ UNCHANGED <<decl, os, report, at, target, children, ups>>

RepairPassEnds ==
    /\ at = "repair" /\ pass.left = {}
    /\ IF pass.changed /\ pass.count < MaxPasses
       THEN /\ pass' = [FirstPass(env[target.config]) EXCEPT !.count = pass.count + 1]
            /\ UNCHANGED at
       ELSE at' = "ready" /\ UNCHANGED pass
    /\ UNCHANGED <<decl, os, env, report, target, children, ups>>

-----------------------------------------------------------------------------
(* Bringing up plans *)

Layered(maps) == FoldLeft(LAMBDA low, high : high @@ low, <<>>, maps)

\* ResolvePlan: the config's vars again, then the layers of the plan.
PlanVars(i) == Layered(<<Of(decl.plans[i].of).vars>> \o decl.plans[i].layers)

\* ... and what the entry merges: those once more, below its own layers.
EntryVars(i) == Layered(<<PlanVars(i)>> \o decl.plans[i].entry)

\* The environment of an imported plan is built from nothing for every one.
Choose(i) ==
    /\ at = "ready" /\ target.plan = 0 /\ ups < MaxUps
    /\ ups' = ups + 1
    /\ LET c == decl.plans[i].of
       IN  /\ target' = [config |-> c, plan |-> i]
           /\ at' = IF c = "root" THEN "ready" ELSE "load"
    /\ UNCHANGED <<decl, os, env, report, pass, children>>

\* resolvePlanRuntime merges the plan's variables into the environment that was
\* loaded; the orchestrator clones that for the entry.  A verdict of incomplete
\* is refused before anything starts.
StartPlan ==
    /\ at = "ready" /\ target.plan # 0
    /\ target' = [target EXCEPT !.plan = 0]
    /\ LET c == target.config
           runtime == MergeVars(env[c], PlanVars(target.plan))
       IN  /\ env' = [env EXCEPT ![c] = runtime]
           /\ children' = IF report[c] = "incomplete" THEN children
                          ELSE Append(children,
                                      [plan |-> target.plan, loaded |-> env[c],
                                       got |-> MergeVars(runtime, EntryVars(target.plan))])
    /\ UNCHANGED <<decl, os, report, pass, at, ups>>

EnvNext ==
    \/ ApplyEnvFiles \/ RepairPassEnds \/ StartPlan
    \/ \E n \in pass.left : RepairName(n)
    \/ \E i \in DOMAIN decl.plans : Choose(i)

EnvSpec == EnvInit /\ [][EnvNext]_envVars

-----------------------------------------------------------------------------
(* Properties *)

RECURSIVE RefsOf(_)
RefsOf(value) ==
    UNION {{value[i].name} \cup RefsOf(value[i].def) : i \in {j \in DOMAIN value : value[j].is = "ref"}}

\* Among maps of declarations: no name leads back to itself.
Acyclic(maps) ==
    LET names == UNION {DOMAIN m : m \in maps} \ DOMAIN os
        reads(n) == UNION {RefsOf(m[n]) : m \in {x \in maps : n \in DOMAIN x}}
    IN  ~\E loop \in SUBSET names : loop # {} /\ \A n \in loop : reads(n) \cap loop # {}

ConfigMaps(c) == {Of(c).vars, Of(c).environment} \cup {f.body : f \in Range(Of(c).files)}
PlanMaps(i) == {PlanVars(i), EntryVars(i)}

JustLoaded == at = "ready" /\ (ups = 0 \/ (target.config = "sub" /\ target.plan # 0))

\* env_file is all or nothing, and what it says does not depend on the order
\* in which a Go map is walked (envinput.go:267, envfile.go:166): if an entry
\* fails, the environment is as it was before the first; else, when no
\* reference leads back to itself, MaxPasses passes leave no reference to a
\* variable that exists, and every variable has its declaration's value.
EnvSettled ==
    JustLoaded =>
        LET c == target.config
            vars == env[c]
        IN  /\ report[c] = "incomplete" => vars = EnvFileScope(c)
            /\ report[c] # "incomplete" /\ Acyclic(ConfigMaps(c)) =>
                  \A n \in DOMAIN vars : Interpolate(vars[n], Scope(vars)) = vars[n]

\* What the service of an entry gets (environment.go:99, plan_runtime.go:25,
\* resolver.go:224): the shell's value if there is one; else that of the highest
\* layer, in which every reference reads the value the service itself gets; and
\* all else as it was loaded.  A config whose inputs are incomplete starts none.
\* Plans with a reference that leads back to itself are left out, and of the
\* plans that ran before in the same environment only the variables remain.
EntryGetsDeclared ==
    \A k \in DOMAIN children :
        LET child == children[k]
            batch == EntryVars(child.plan)
        IN  /\ report[decl.plans[child.plan].of] # "incomplete"
            /\ \A n \in DOMAIN child.got :
                  IF n \in DOMAIN batch
                  THEN IF n \in DOMAIN os THEN child.got[n] = os[n]
                       ELSE Acyclic(PlanMaps(child.plan)) =>
                               child.got[n] = Interpolate(batch[n], Scope(child.got))
                  ELSE child.got[n] = child.loaded[n]

=============================================================================
