-------------------------------- MODULE MCHost --------------------------------
(***************************************************************************)
(* Instances of ProcessPlugin, EnvBridge, AgentDeny and GitIgnore for TLC: *)
(* two dva processes and one background service; any two of unseal, unseal *)
(* --force, seal and reseal on an env_file entry, two of seal or of reseal *)
(* included; an installation of deny rules by an old and by a new version  *)
(* of dva, and an uninstall; and a .gitignore that dva and a person write. *)
(* The four share no state and are explored apart: side says which of them *)
(* moves, the others stay as they began.                                   *)
(***************************************************************************)
EXTENDS ProcessPlugin, EnvBridge, AgentDeny, GitIgnore, TLC

CONSTANTS d1, d2, unseal, force, seal1, seal2, reseal1, reseal2, a, b, older, newer, off

VARIABLE side

Interchangeable == Permutations(Dvas)

\* What unseal does with seal or reseal is also what --force would do, where that may.
Two == {{unseal, force}, {unseal, seal1}, {force, reseal1}, {seal1, seal2}, {seal1, reseal1},
        {reseal1, reseal2}}

\* The new version wants one rule more.
Wanted == older :> {1} @@ newer :> {1, 2} @@ off :> {}

\* The globs of the lines below and of dva's own, on the names that matter here.
Globs ==
    "*" :> {".sb", "dva", "pids", "logs", "sources", "probe.pid", "probe.log", "probe",
            "provisioned-probe.marker", "probe.yml"}
    @@ "*.pid" :> {"probe.pid"} @@ "*.log" :> {"probe.log"} @@ "*.yml" :> {"probe.yml"}
    @@ "d*" :> {"dva"}
    @@ "p*" :> {"pids", "provisioned-probe.marker", "probe.pid", "probe.log", "probe.yml", "probe"}

AnySegment == {"**", ".sb"} \cup DOMAIN Globs \cup UNION {Globs[g] : g \in DOMAIN Globs}

\* Lines of gitignore_contract_test.go.
Rule(parts, slash) == Line(FALSE, FALSE, parts, slash)
Not(parts, slash) == Line(TRUE, FALSE, parts, slash)
UsualLines ==
    {Rule(<<".sb">>, TRUE), Line(FALSE, TRUE, DotDir, TRUE), Rule(<<".sb", "*">>, FALSE),
     Rule(DotDir \o <<"*">>, FALSE), Rule(DotDir \o <<"**">>, FALSE), Rule(<<"**", ".sb">>, TRUE),
     Rule(<<".sb", "d*">>, FALSE), Rule(<<"logs">>, TRUE), Rule(<<"*.pid">>, FALSE),
     Not(DotDir, FALSE), Not(DotDir \o <<"*">>, FALSE), Not(DotDir \o <<"*">>, TRUE),
     Not(DotDir \o <<"p*">>, FALSE), Not(DotDir \o <<"logs">>, TRUE), Not(<<"*.log">>, FALSE),
     Not(<<"*">>, FALSE), Not(<<"probe">>, FALSE), Not(<<"**", "probe.pid">>, FALSE),
     Not(<<".sb">>, TRUE), Line(TRUE, TRUE, <<"*">>, FALSE)}
MachineRules == {<<>>, <<Rule(<<".sb">>, TRUE)>>}

HostInit ==
    /\ Init /\ BridgeInit /\ DenyInit /\ IgnoreInit
    /\ side \in {"service", "files", "rules", "ignore"}
    /\ side # "ignore" => own = <<>>
    /\ side # "service" => kind = "process" /\ file = Absent
    /\ side # "files" => source = None /\ target = None
    /\ side # "rules" => settings.is = "none"
    \* a and b mean the same: one initial state of those that differ in them
    /\ source # b /\ (target = b => source = a)

HostNext ==
    /\ UNCHANGED side
    /\ \/ side = "service" /\ Next /\ UNCHANGED <<bridgeVars, denyVars, ignoreVars>>
       \/ side = "files" /\ BridgeNext /\ UNCHANGED <<vars, denyVars, ignoreVars>>
       \/ side = "rules" /\ DenyNext /\ UNCHANGED <<vars, bridgeVars, ignoreVars>>
       \/ side = "ignore" /\ IgnoreNext /\ UNCHANGED <<vars, bridgeVars, denyVars>>

HostSpec == HostInit /\ [][HostNext]_<<vars, bridgeVars, denyVars, ignoreVars, side>>

=============================================================================
