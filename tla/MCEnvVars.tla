------------------------------ MODULE MCEnvVars ------------------------------
(***************************************************************************)
(* Instances of EnvVars for TLC: three variables declared in any of the    *)
(* places that may declare them, two env_file entries, and a second plan   *)
(* of the root and one of a subproject after the first.                    *)
(***************************************************************************)
EXTENDS EnvVars

Text(x) == <<Literal(x)>>
To(n) == <<Reference(n, "", <<>>)>>
Unless(n, d) == <<Reference(n, ":-", d)>>
IfUnset(n, d) == <<Reference(n, "-", d)>>
File(p, r, f, b) == [path |-> p, required |-> r, found |-> f, body |-> b]
Good(b) == File(Text("p"), TRUE, "ok", b)

FirstFiles == {Good(1 :> To(2) \o Text("x") @@ 2 :> IfUnset(3, Text("d"))),
               Good(2 :> To(1) @@ 1 :> To(3)), Good(3 :> Unless(1, To(2))),
               Good(1 :> To(2) \o Text("x") @@ 2 :> To(1))}
SecondFiles == {Good(3 :> Text("c")), Good(1 :> Text("") @@ 2 :> Text("e")),
                File(Text("p"), FALSE, "missing", <<>>), File(Text("p"), TRUE, "missing", <<>>),
                File(Text("p"), FALSE, "malformed", <<>>), File(To(1), FALSE, "ok", 3 :> Text("f"))}
FilesOf == {<<>>} \cup {<<f, g>> : f \in FirstFiles, g \in SecondFiles}

Low == {<<>>, 1 :> To(3), 1 :> <<>> @@ 3 :> To(2)}
Mid == {<<>>, 2 :> Text("b"), 2 :> Text("b") \o To(1)}
Roots == {[vars |-> v, environment |-> e, files |-> f] : v \in Low, e \in Mid, f \in FilesOf}
SubConfig == [vars |-> 1 :> Text("s"), environment |-> <<>>, files |-> <<Good(2 :> To(1))>>]

Layers == {<<<<>>, 3 :> Text("p") \o To(1)>>, <<1 :> To(2), 2 :> Text("q")>>}
Inner == {<<<<>>, 2 :> To(3)>>, <<1 :> Text("z"), 3 :> To(1)>>}
PlansOf == {<<[of |-> "root", layers |-> l, entry |-> n],
              [of |-> "root", layers |-> <<>>, entry |-> <<>>],
              [of |-> "sub", layers |-> l, entry |-> n]>> : l \in Layers, n \in Inner}

MCDeclarations ==
  {[x \in {"root", "sub", "plans"} |-> CASE x = "root" -> r [] x = "sub" -> SubConfig [] OTHER -> p]
     : r \in Roots, p \in PlansOf}
MCShells == {<<>>, 2 :> Text("o")}

==============================================================================
