------------------------------ MODULE PlanWaves ------------------------------
(***************************************************************************)
(* CalculateWaves (internal/lifecycle/resolver.go): the wave of every      *)
(* entry of a plan, from its depends_on, by Kahn's algorithm.  The same    *)
(* function numbers the stack entries of a plan and the children of a      *)
(* composition.                                                            *)
(*                                                                         *)
(* One action is one turn of the loop.  The code's queue is first in,      *)
(* first out; here any queued entry may be next, which shows that the      *)
(* waves do not depend on that order.                                      *)
(***************************************************************************)
EXTENDS Naturals, FiniteSets

CONSTANTS
    Children,       \* entries, by position in the plan
    Graphs          \* the depends_on tables a plan may declare

ASSUME WavesAssumption ==
    /\ Children \subseteq Nat /\ IsFiniteSet(Children) /\ Children # {}
    /\ \A g \in Graphs : DOMAIN g = Children

VARIABLES
    deps,       \* deps[c]: the names in depends_on of c
    wave,       \* wave[c]: entries[c].Wave
    inDegree,   \* inDegree[c]: dependencies of c not processed yet
    queue,      \* entries without such a dependency, not yet processed
    processed,  \* entries that left the queue
    waves       \* running, then how CalculateWaves returned

wavesVars == <<deps, wave, inDegree, queue, processed, waves>>

Dependents(d) == {c \in Children : d \in deps[c]}

\* depends_on may name an entry that the plan does not have.
Known(g) == \A c \in Children : g[c] \subseteq Children

WavesInit ==
    /\ deps \in Graphs
    /\ wave = [c \in Children |-> 0]
    /\ inDegree = [c \in Children |-> Cardinality(deps[c])]
    /\ queue = {c \in Children : inDegree[c] = 0}
    /\ processed = {}
    /\ waves = IF Known(deps) THEN "running" ELSE "unknown"

\* Faulty: the first dependency alone decides.
RaiseOnce(w, d) == [c \in Children |->
                   IF c \in Dependents(d) /\ w[c] = 0 THEN w[d] + 1 ELSE w[c]]

\* The wave of a dependent rises above that of the entry just processed.
Raise(w, d) == [c \in Children |->
                   IF c \in Dependents(d) /\ w[c] < w[d] + 1 THEN w[d] + 1 ELSE w[c]]

Process(d) ==
    /\ waves = "running" /\ d \in queue
    /\ wave' = Raise(wave, d)
    /\ inDegree' = [c \in Children |->
                       IF c \in Dependents(d) THEN inDegree[c] - 1 ELSE inDegree[c]]
    /\ queue' = (queue \ {d}) \cup {c \in Dependents(d) : inDegree'[c] = 0}
    /\ processed' = processed \cup {d}
    /\ UNCHANGED <<deps, waves>>

\* The queue is empty: what was never processed is on, or behind, a cycle.
Conclude ==
    /\ waves = "running" /\ queue = {}
    /\ waves' = IF processed = Children THEN "ok" ELSE "cycle"
    /\ UNCHANGED <<deps, wave, inDegree, queue, processed>>

WavesNext == (\E d \in Children : Process(d)) \/ Conclude

-----------------------------------------------------------------------------
(* Properties *)

\* The chains of n dependencies that begin at c.
Chains(c, n) ==
    {s \in [0..n -> Children] : s[0] = c /\ \A i \in 1..n : s[i] \in deps[s[i - 1]]}

\* Some entries wait for one another, or for themselves.
Cyclic == \E S \in SUBSET Children : S # {} /\ \A c \in S : deps[c] \cap S # {}

\* The waves of CalculateWaves (resolver.go:276) are the right ones: a plan is
\* refused exactly when its dependencies form a cycle; otherwise each entry
\* comes after all it depends on and no later than its longest chain demands.
WavesRight ==
    /\ waves = "cycle" => Cyclic
    /\ waves = "ok" =>
         /\ ~Cyclic
         /\ \A c \in Children : Chains(c, wave[c]) # {} /\ Chains(c, wave[c] + 1) = {}

=============================================================================
