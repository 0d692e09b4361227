---------------------------- MODULE MCPlanResolve ----------------------------
(***************************************************************************)
(* Instances of PlanResolve for TLC: up to three plans of the root and two *)
(* of a subproject that may bear the same names, one of which the root     *)
(* imports twice; two stack entries of the same names in either.           *)
(***************************************************************************)
EXTENDS PlanResolve, TLC

CONSTANTS x, y, z, ix, ia, db, api

MCImport == ix :> x @@ ia :> x

Blank == [alias |-> None, extends |-> None, composes |-> {}, environment |-> None, site |-> None,
          entries |-> <<>>, owner |-> "root"]
Entry(d, r) == [deps |-> d, runner |-> r]
AliasTo(n) == [Blank EXCEPT !.alias = n]
Lists(es) == [Blank EXCEPT !.entries = es]
Kid(n, es) == [Lists(es) EXCEPT !.extends = n]
Sum(ns) == [Blank EXCEPT !.composes = ns]

ApiAlone == api :> Entry({}, None)
Both == db :> Entry({}, None) @@ api :> Entry({db}, None)
Bodies == {Lists(Both), Lists(db :> Entry({}, "compose")), [Lists(ApiAlone) EXCEPT !.site = "here"]}

Shapes(n) ==
    {Missing} \cup Bodies
    \cup {AliasTo(m) : m \in (Names \cup {ix}) \ {n}}
    \cup {Kid(m, ApiAlone) : m \in (Names \cup {ix}) \ {n}}
    \cup {[Kid(m, <<>>) EXCEPT !.environment = "dev"] : m \in {y, ix} \ {n}}
    \cup {Sum({ix, x}), Sum({ix, ia}), Sum({x, y}), [Sum({ix}) EXCEPT !.alias = y]}

MCBooks ==
    "root" :> {x :> p @@ y :> q @@ z :> r : p \in Shapes(x), q \in Shapes(y),
               r \in {Missing, AliasTo(y), Kid(y, <<>>), Sum({x})}}
    @@ "sub" :> {x :> p @@ y :> q @@ z :> Missing :
                 p \in {Lists(Both), [Lists(ApiAlone) EXCEPT !.site = "here"], AliasTo(y), Kid(y, ApiAlone)},
                 q \in {Missing, Lists(Both), AliasTo(x)}}

\* db is optional in either; only the root's says with which runner.
One(opt, def, rs, src) == [optional |-> opt, default |-> def, runners |-> rs, source |-> src]
MCStack ==
  "root" :> (db :> One(TRUE, "native", "native" :> "dir" @@ "compose" :> None, None)
          @@ api :> One(FALSE, None, "native" :> "dir", None))
  @@ "sub" :> (db :> One(TRUE, None, "native" :> None, "dir")
          @@ api :> One(FALSE, "native", "native" :> None @@ "helm" :> None, None))

MCSite == "root" :> ("here" :> (api :> "native")) @@ "sub" :> ("here" :> (api :> "helm"))
MCEnvs == "root" :> {"dev"} @@ "sub" :> {}

==============================================================================
