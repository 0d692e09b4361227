----------------------------- MODULE PlanResolve -----------------------------
(***************************************************************************)
(* From the plans two dva.yml files declare, the root's and that of a      *)
(* subproject it imports from, to the services `dva up <plan>` starts:     *)
(* the import (internal/config/subproject.go), what loading refuses        *)
(* (composition_plan.go), what `dva config validate` refuses (validate.go) *)
(* and the resolution itself (internal/lifecycle/resolver.go), which       *)
(* follows alias:, merges extends:, picks the runner of each entry and     *)
(* drops the optional ones that are not checked out.  compare.go repeats   *)
(* part of it in other words.                                              *)
(*                                                                         *)
(* The files and the checked out directories are chosen once; the command  *)
(* then loads, validates or brings up a plan.  Values of variables are in  *)
(* EnvVars; the order of the entries is in PlanWaves.                      *)
(***************************************************************************)
EXTENDS Naturals, FiniteSets

CONSTANTS
    Names,          \* plan names, in either file
    ImportOf,       \* ImportOf[i]: the subproject's plan the root calls i
    Books,          \* Books[o]: the plans the file of o may declare, by name or Missing
    Stack,          \* Stack[o][e]: the stack entry e of owner o, see EntryShape
    SiteRunner,     \* SiteRunner[o][s][e]: sites.<s>.entries.<e>.runner
    Environments,   \* Environments[o]: the names under environments:
    MaxAlias,       \* maxAliasDepth, 10 in the code
    MaxExtends,     \* maxExtendsDepth, 3 in the code
    None, Missing

Owners == {"root", "sub"}

\* runners maps each declared runner to its dir, or None.
EntryShape(s) ==
    DOMAIN s = {"optional", "default", "runners", "source"}

\* entries maps stack entries to what they depend on and the runner named for them.
PlanFields(p) ==
    DOMAIN p = {"alias", "extends", "composes", "environment", "site", "entries", "owner"}

ASSUME ResolveAssumption ==
    /\ MaxAlias \in Nat \ {0} /\ MaxExtends \in Nat \ {0}
    /\ IsFiniteSet(Names) /\ IsFiniteSet(DOMAIN ImportOf)
    /\ None \notin Names \cup DOMAIN ImportOf
    /\ \A i \in DOMAIN ImportOf : ImportOf[i] \in Names
    /\ \A o \in Owners : \A b \in Books[o] :
          DOMAIN b = Names /\ \A n \in Names : b[n] = Missing \/ PlanFields(b[n])
    /\ \A o \in Owners : \A e \in DOMAIN Stack[o] : EntryShape(Stack[o][e])

\* The directories the stack entries name.
Directories ==
    {<<o, d>> : o \in Owners, d \in UNION {
        {Stack[w][e].source : e \in DOMAIN Stack[w]}
        \cup UNION {{Stack[w][e].runners[r] : r \in DOMAIN Stack[w][e].runners} : e \in DOMAIN Stack[w]}
        : w \in Owners} \ {None}}

VARIABLES
    files,      \* files[o][n]: the plans as written
    present,    \* <<owner, dir>>: the directories that exist
    plans,      \* cfg.Plans of the root once loaded
    step,       \* start, loaded, refused, done
    result      \* of the last validate or up

resolveVars == <<files, present, plans, step, result>>

Nothing == [verb |-> "none", name |-> None, error |-> "none", started |-> {}, children |-> {}]

TypeOKResolve ==
    /\ step \in {"start", "loaded", "refused", "done"}
    /\ step \in {"loaded", "done"} => DOMAIN plans \subseteq Names \cup DOMAIN ImportOf
    /\ DOMAIN result = DOMAIN Nothing

ResolveInit ==
    /\ \E r \in Books["root"], s \in Books["sub"] :
          files = [o \in Owners |-> IF o = "root" THEN r ELSE s]
    /\ present \in SUBSET Directories
    /\ plans = <<>> /\ step = "start" /\ result = Nothing

-----------------------------------------------------------------------------
(* Names: alias and extends *)

\* The plans file o declares, each with the config that owns it.
Declared(o) == [n \in {m \in Names : files[o][m] # Missing} |-> [files[o][n] EXCEPT !.owner = o]]

\* Where d links lead from n, None where there is no further one.
Follow(links, n, most) ==
    LET at[d \in 0..most] ==
            IF d = 0 THEN n
            ELSE IF at[d - 1] \in DOMAIN links THEN links[at[d - 1]] ELSE None
    IN  at

AliasesOf(book) == [n \in DOMAIN book |-> book[n].alias]
AliasAt(book, n) == Follow(AliasesOf(book), n, MaxAlias)

Concrete(book, n) == n \in DOMAIN book /\ book[n].alias = None

\* ResolvePlanAlias: fewer than MaxAlias links; a cycle or a name nobody has
\* never comes to a concrete plan.
ResolvePlanAlias(book, n) ==
    LET found == {d \in 0..(MaxAlias - 1) : Concrete(book, AliasAt(book, n)[d])}
    IN  IF found = {} THEN None ELSE AliasAt(book, n)[CHOOSE d \in found : TRUE]

\* The parents of a plan, nearest first, each reached through its aliases.
ParentsOf(book) == [n \in DOMAIN book |-> ResolvePlanAlias(book, book[n].extends)]
ParentAt(book, p) == Follow(ParentsOf(book), ResolvePlanAlias(book, p.extends), MaxExtends - 1)

\* The chain of parents ends within MaxExtends and has no composition plan.
ParentsSound(book, p) ==
    \E last \in 0..(MaxExtends - 1) :
        LET at == ParentAt(book, p)
        IN  /\ \A d \in 0..last : at[d] # None /\ book[at[d]].composes = {}
            /\ \A d \in 0..(last - 1) : book[at[d]].extends # None
            /\ book[at[last]].extends = None

Prefer(new, old) == IF new # None THEN new ELSE old

\* mergePlanConfigs onto a copy of the parent: the copy keeps the parent's
\* owner, an entry of the child replaces the parent's of that name whole.
MergeInto(parent, child) ==
    [parent EXCEPT
        !.environment = Prefer(child.environment, parent.environment),
        !.site = Prefer(child.site, parent.site),
        !.entries = [e \in DOMAIN parent.entries \cup DOMAIN child.entries |->
                        IF e \in DOMAIN child.entries THEN child.entries[e]
                        ELSE parent.entries[e]]]

\* Faulty: the stack is that of the child.
MergeKeepsChildOwner(parent, child) == [MergeInto(parent, child) EXCEPT !.owner = child.owner]

MergePlanConfigs(parent, child) == MergeInto(parent, child)

-----------------------------------------------------------------------------
(* ResolvePlan *)

\* The first that names one: the plan's entry, the site, the stack entry's
\* default; else the only runner the entry declares.
RunnerOf(o, p, e) ==
    LET stack == Stack[o][e]
        site == IF p.site # None /\ e \in DOMAIN SiteRunner[o][p.site]
                THEN SiteRunner[o][p.site][e] ELSE None
        named == Prefer(p.entries[e].runner, Prefer(site, stack.default))
    IN  IF named = None /\ Cardinality(DOMAIN stack.runners) = 1
        THEN CHOOSE r \in DOMAIN stack.runners : TRUE
        ELSE named

\* The directory that decides an optional entry's fate: that of the runner
\* that was chosen, else where its source would be.
SkipDir(o, p, e) == Prefer(Stack[o][e].runners[RunnerOf(o, p, e)], Stack[o][e].source)

Skipped(there, o, p, e) ==
    /\ Stack[o][e].optional
    /\ SkipDir(o, p, e) # None
    /\ <<o, SkipDir(o, p, e)>> \notin there

Failed(where) == [error |-> where, owner |-> None, entries |-> {}, skipped |-> {}, composes |-> FALSE]

\* CalculateWaves: every name known, and no cycle (PlanWaves has the algorithm).
WavesFail(deps) ==
    \/ \E e \in DOMAIN deps : ~(deps[e] \subseteq DOMAIN deps)
    \/ \E loop \in SUBSET DOMAIN deps :
          loop # {} /\ \A e \in loop : deps[e] \cap loop # {}

ResolveEntries(there, p) ==
    LET o == p.owner
        all == DOMAIN p.entries
        gone == {e \in all : Skipped(there, o, p, e)}
        kept == all \ gone
    IN  IF p.environment \notin Environments[o] \cup {None} THEN Failed("environment")
        ELSE IF p.site \notin DOMAIN SiteRunner[o] \cup {None} THEN Failed("site")
        ELSE IF ~(all \subseteq DOMAIN Stack[o]) THEN Failed("stack_ref")
        ELSE IF \E e \in all : RunnerOf(o, p, e) \notin DOMAIN Stack[o][e].runners
             THEN Failed("runner")
        ELSE IF WavesFail([e \in kept |-> p.entries[e].deps]) THEN Failed("waves")
        ELSE [error |-> "none", owner |-> o, skipped |-> gone, composes |-> p.composes # {},
              entries |-> {<<e, RunnerOf(o, p, e)>> : e \in kept}]

\* With the directories there.
ResolveIn(there, book, n) ==
    LET name == ResolvePlanAlias(book, n)
        p == book[name]
        parent == book[ResolvePlanAlias(book, p.extends)]
    IN  IF name = None THEN Failed("alias")
        ELSE IF p.extends = None THEN ResolveEntries(there, p)
        ELSE IF p.composes # {} \/ p.extends = name \/ ~ParentsSound(book, p)
             THEN Failed("extends")
        ELSE ResolveEntries(there, MergePlanConfigs(parent, p))

ResolvePlan(book, n) == ResolveIn(present, book, n)

StartedBy(r) == {<<r.owner, e[1], e[2]>> : e \in r.entries}

-----------------------------------------------------------------------------
(* Loading, validating, bringing up *)

\* validateCompositionPlan: no declarations of its own, and children that are
\* known, written without composes:, and not twice the same import.
CompositionSound(book, p) ==
    /\ p.entries = <<>> /\ p.environment = None /\ p.site = None
    /\ \A c \in p.composes : c \in DOMAIN book /\ book[c].composes = {}
    /\ \A c, d \in p.composes \cap DOMAIN ImportOf : ImportOf[c] = ImportOf[d] => c = d

CompositionsSound(book) ==
    \A n \in DOMAIN book : book[n].composes # {} => CompositionSound(book, book[n])

\* Faulty: the clone forgets whose it is.
CloneUnowned(p) == [p EXCEPT !.owner = "root"]

\* cloneImportedPlan: a route in the parent to a plan of the subproject.
Clone(p) == [p EXCEPT !.owner = "sub"]

\* The root's book: its own plans, and under other names those it imports.
Book ==
    LET own == Declared("root")
        lent == Declared("sub")
    IN  [n \in DOMAIN own \cup DOMAIN ImportOf |->
            IF n \in DOMAIN ImportOf THEN Clone(lent[ImportOf[n]]) ELSE own[n]]

\* What resolveSubprojectImports and validateCompositionPlans let pass.
Loads ==
    LET own == Declared("root")
        lent == Declared("sub")
    IN  /\ CompositionsSound(lent)
        /\ \A i \in DOMAIN ImportOf :
               /\ ImportOf[i] \in DOMAIN lent /\ lent[ImportOf[i]].composes = {}
               /\ i \notin DOMAIN own
        /\ CompositionsSound(Book)

Load ==
    /\ step = "start"
    /\ IF Loads THEN step' = "loaded" /\ plans' = Book
       ELSE step' = "refused" /\ UNCHANGED plans
    /\ UNCHANGED <<files, present, result>>

\* Faulty: one link more than the resolution follows.
AliasValidFarther(p) ==
    /\ \E d \in 0..MaxAlias : Concrete(plans, AliasAt(plans, p.alias)[d])
    /\ p.entries = <<>> /\ p.composes = {} /\ p.environment = None /\ p.site = None

\* An alias plan leads to a plan within MaxAlias further links and says nothing else.
AliasValid(p) ==
    /\ \E d \in 0..(MaxAlias - 1) : Concrete(plans, AliasAt(plans, p.alias)[d])
    /\ p.entries = <<>> /\ p.composes = {} /\ p.environment = None /\ p.site = None

\* The parents are plans by their own names, at most MaxExtends, without a cycle.
ExtendsValid(n) ==
    LET up == Follow([m \in DOMAIN plans |-> plans[m].extends], n, MaxExtends)
    IN  /\ plans[n].alias = None /\ plans[n].composes = {}
        /\ \E last \in 1..MaxExtends :
              /\ \A d \in 1..last : Concrete(plans, up[d]) /\ plans[up[d]].composes = {}
              /\ plans[up[last]].extends = None

\* validatePlanAliasExtends and validatePlanEnvironments.
PlanValid(n) ==
    /\ plans[n].alias # None => AliasValid(plans[n])
    /\ plans[n].extends # None => ExtendsValid(n)
    /\ plans[n].environment \in Environments[plans[n].owner] \cup {None}

Valid == \A n \in DOMAIN plans : PlanValid(n)

Validate ==
    /\ step = "loaded"
    /\ step' = "done"
    /\ result' = [Nothing EXCEPT !.verb = "validate", !.error = IF Valid THEN "none" ELSE "invalid"]
    /\ UNCHANGED <<files, present, plans>>

\* A plan that is written with composes: resolves each child against the
\* root's book; any other is resolved as it is.
UpPlan(n) ==
    /\ step = "loaded"
    /\ step' = "done"
    /\ LET children == plans[n].composes
           of == [c \in IF children = {} THEN {n} ELSE children |-> ResolvePlan(plans, c)]
           bad == {c \in DOMAIN of : of[c].error # "none"}
       IN  result' = [verb |-> "up", name |-> n,
                      error |-> IF bad = {} THEN "none"
                                ELSE IF children = {} THEN of[n].error ELSE "compose_child",
                      started |-> IF bad # {} THEN {}
                                  ELSE UNION {StartedBy(of[c]) : c \in DOMAIN of},
                      children |-> children]
    /\ UNCHANGED <<files, present, plans>>

ResolveNext == Load \/ Validate \/ \E n \in DOMAIN plans : UpPlan(n)

ResolveSpec == ResolveInit /\ [][ResolveNext]_resolveVars

-----------------------------------------------------------------------------
(* Properties *)

IsLoaded == step = "loaded"

\* comparePlanEntries with resolveCompareAlias (compare.go:219): the entries a
\* comparison has to split, and whose stack they are in.
NoSplit == [names |-> {}, owner |-> None]

CompareAlias(n) ==
    LET most == Cardinality(DOMAIN plans)
        leaves == {m \in DOMAIN plans : plans[m].composes = {}}
        at == Follow([m \in leaves |-> plans[m].alias], n, most)
        found == {d \in 0..most : at[d] \in leaves /\ plans[at[d]].alias = None}
    IN  IF found = {} THEN None ELSE at[CHOOSE d \in found : TRUE]

ComparePlanEntries(n) ==
    LET name == CompareAlias(n)
        parent == CompareAlias(plans[name].extends)
        inherits == name # None /\ plans[name].extends # None
    IN  IF name = None \/ (inherits /\ parent = None) THEN NoSplit
        ELSE IF inherits
             THEN [names |-> DOMAIN plans[name].entries \cup DOMAIN plans[parent].entries,
                   owner |-> plans[parent].owner]
             ELSE [names |-> DOMAIN plans[name].entries, owner |-> plans[name].owner]

\* compare.go says over again what resolver.go does, "because the split must
\* match what actually starts" (compare.go:213): for every leaf plan that
\* resolves, the entries it splits are those that start or are skipped, out of
\* the same config.  It declines where some plan is an alias and a composition at
\* once, which resolver.go does not mind and `dva config validate` refuses.
SplitMatchesStart ==
    IsLoaded => \A n \in DOMAIN plans :
        LET r == ResolvePlan(plans, n)
        IN  r.error = "none" /\ ~r.composes =>
               \/ ComparePlanEntries(n) = [names |-> {e[1] : e \in r.entries} \cup r.skipped,
                                           owner |-> r.owner]
               \/ /\ ComparePlanEntries(n) = NoSplit
                  /\ \E m \in DOMAIN plans : plans[m].alias # None /\ plans[m].composes # {}

LongAlias(n) == Concrete(plans, AliasAt(plans, n)[MaxAlias])

\* What `dva config validate` accepts (validate.go:454, validate.go:283) is not
\* refused for its names when it is brought up (resolver.go:26): alias and extends
\* resolve, and the environment is there unless it was inherited across owners.
\* The exception is an alias chain of exactly MaxAlias links, which validate
\* counts from its second plan and up from its first.
ValidatedResolves ==
    IsLoaded /\ Valid => \A n \in DOMAIN plans :
        LET r == ResolvePlan(plans, n)
            p == plans[ResolvePlanAlias(plans, n)]
        IN  /\ r.error = "alias" => LongAlias(n)
            /\ r.error # "extends"
            /\ r.error = "environment" =>
                  p.extends # None /\ plans[p.extends].owner # p.owner

\* A plan the subproject declares without alias or extends means the same in
\* the parent as in the subproject alone, whatever the parent calls its own
\* plans and stack entries (docs/31-execution-plan-resolution.md, section 7).
ImportKeepsMeaning ==
    IsLoaded => \A i \in DOMAIN ImportOf :
        plans[i].alias = None /\ plans[i].extends = None =>
            ResolvePlan(plans, i) = ResolvePlan(Declared("sub"), ImportOf[i])

\* The same of every imported plan that resolves in either place.  The document
\* promises it (docs/31-execution-plan-resolution.md:237); an alias: or extends:
\* of the subproject is looked up among the root's plans.
EveryImportKeepsMeaning ==
    IsLoaded => \A i \in DOMAIN ImportOf :
        LET here == ResolvePlan(plans, i)
            alone == ResolvePlan(Declared("sub"), ImportOf[i])
        IN  here.error = "none" /\ alone.error = "none" => here = alone

\* A plan that resolves with everything checked out resolves, too, when an
\* optional entry is not (USAGE.md:1152): that entry alone is left out.
OptionalSkipsAlone ==
    IsLoaded => \A n \in DOMAIN plans :
        ResolveIn(Directories, plans, n).error = "none" => ResolvePlan(plans, n).error = "none"

=============================================================================
