------------------------------- MODULE GitIgnore -------------------------------
(***************************************************************************)
(* What dva does to a repository's .gitignore (internal/cli/gitignore.go). *)
(*                                                                         *)
(* `dva init` and `dva doctor --fix` append two lines unless the           *)
(* repository ignores what dva leaves under .sb/dva already, and modules,  *)
(* .sb/dva/*.yml, stay addable.  Git is asked for that, or, when it cannot *)
(* answer, a reader of dva's own that knows a few spellings.  People edit  *)
(* the file in between.                                                    *)
(*                                                                         *)
(* A path is the sequence of its names.  A glob is a name of a pattern     *)
(* that stands for a set of names, Covers; "**" stands for any directories.*)
(***************************************************************************)
EXTENDS Integers, Sequences, FiniteSetsExt

CONSTANTS
    Segments,   \* what can stand between the slashes of a line or a path
    Covers,     \* Covers[g]: the names the glob g stands for
    Written,    \* the lines people write
    OwnRules,   \* what .git/info/exclude or core.excludesFile of this machine may hold
    MaxWritten, \* bound: edits by people, and blocks written in part
    MaxLines    \* bound: how long dva lets the file grow

\* A line: negated by !, anchored by a leading slash, for directories by a trailing one.
Lines == [neg : BOOLEAN, lead : BOOLEAN, parts : Seq(Segments) \ {<<>>}, slash : BOOLEAN]

\* What dva leaves under .sb/dva.
StateNames == {"pids", "logs", "sources", "provisioned-probe.marker"}

\* The globs of dva's own block stand for the names that git takes them for.
ASSUME GitIgnoreAssumption ==
    /\ Written \subseteq Lines /\ OwnRules \subseteq Seq(Lines)
    /\ StateNames \cup {".sb", "dva", "probe.pid", "probe.log", "probe", "probe.yml"} \subseteq Segments
    /\ {"*", "*.yml"} \subseteq Segments \cap DOMAIN Covers
    /\ StateNames \cup {"dva", "probe.yml"} \subseteq Covers["*"]
    /\ "probe.yml" \in Covers["*.yml"] /\ StateNames \cap Covers["*.yml"] = {}
    /\ MaxWritten \in Nat /\ MaxLines \in Nat

VARIABLES
    ignore,     \* the lines of .gitignore; none when it is not there
    own,        \* those of this machine, which a clone does not get
    settled,    \* what the last call of ensureGitignore did since the last edit
    written     \* how many edits so far

ignoreVars == <<ignore, own, settled, written>>

IgnoreTypeOK ==
    /\ ignore \in Seq(Lines)
    /\ own \in OwnRules /\ settled \in {"no", "declares", "wrote"} /\ written \in 0..MaxWritten

-----------------------------------------------------------------------------
(* Paths and lines *)

DotDir == <<".sb", "dva">>
Probes == {DotDir \o p : p \in {<<"pids", "probe.pid">>, <<"logs", "probe.log">>,
                                <<"sources", "probe">>, <<"provisioned-probe.marker">>}}
ModuleProbe == DotDir \o <<"probe.yml">>

First(path, n) == SubSeq(path, 1, n)
Base(path) == path[Len(path)]

Line(neg, lead, parts, slash) == [neg |-> neg, lead |-> lead, parts |-> parts, slash |-> slash]

\* The block dva writes.
Block == <<Line(FALSE, FALSE, DotDir \o <<"*">>, FALSE), Line(TRUE, FALSE, DotDir \o <<"*.yml">>, FALSE)>>

Fits(part, name) == part = name \/ (part \in DOMAIN Covers /\ name \in Covers[part])
FitAll(parts, path) == Len(parts) = Len(path) /\ \A i \in DOMAIN parts : Fits(parts[i], path[i])

-----------------------------------------------------------------------------
(* Git *)

\* A trailing ** stands for everything inside, any other for no directory or more.
FitsPath(parts, path) ==
    \/ FitAll(parts, path)
    \/ \E s \in DOMAIN parts :
         LET before == First(parts, s - 1)
             after == SubSeq(parts, s + 1, Len(parts))
         IN /\ parts[s] = "**"
            /\ Len(path) >= Len(before) + Len(after)
            /\ after = <<>> => Len(path) > Len(before)
            /\ FitAll(before, First(path, Len(before)))
            /\ FitAll(after, SubSeq(path, Len(path) - Len(after) + 1, Len(path)))

Names(line, path, isDir) ==
    /\ line.slash => isDir
    /\ IF line.lead \/ Len(line.parts) > 1
       THEN FitsPath(line.parts, path)
       ELSE Fits(line.parts[1], Base(path))

\* The lines that name the directory, or in the end the file, n names down path.
Naming(lines, path, n) == {i \in DOMAIN lines : Names(lines[i], First(path, n), n < Len(path))}

\* At each directory on the way down the last line that names it decides, those of
\* the repository before those of the machine; git does not look inside an excluded one.
Excluder(lines, path, n) ==
    LET shared == Naming(lines, path, n)
        mine == Naming(own, path, n)
    IN CASE shared # {} -> IF lines[Max(shared)].neg THEN "none" ELSE "shared"
         [] shared = {} /\ mine # {} -> IF own[Max(mine)].neg THEN "none" ELSE "own"
         [] OTHER -> "none"

\* Where the rule is by which path is ignored here, as check-ignore -v reports it.
Source(lines, path) ==
    LET excluder == [n \in DOMAIN path |-> Excluder(lines, path, n)]
        levels == {n \in DOMAIN path : excluder[n] # "none"}
    IN IF levels = {} THEN "none" ELSE excluder[Min(levels)]

\* The same in a clone on another machine.
CloneExcludes(lines, path, n) ==
    LET at == Naming(lines, path, n) IN at # {} /\ ~lines[Max(at)].neg
CloneIgnores(lines, path) == \E n \in DOMAIN path : CloneExcludes(lines, path, n)

IgnoredHere(lines) == \A p \in Probes : Source(lines, p) # "none"
DeclaredHere(lines) == \A p \in Probes : Source(lines, p) = "shared"

-----------------------------------------------------------------------------
(* The reader that stands in for git *)

\* Whether a negation below line at may name one of the candidates again.  A pattern
\* with ** is not read.
NegationReaches(lines, at, candidates) ==
    \E i \in DOMAIN lines :
        /\ i > at /\ lines[i].neg
        /\ \/ \E k \in DOMAIN lines[i].parts : lines[i].parts[k] = "**"
           \/ \E c \in candidates :
                \/ Len(lines[i].parts) > 1 /\ FitAll(lines[i].parts, c)
                \/ Len(lines[i].parts) = 1 /\ Fits(lines[i].parts[1], Base(c))

ChildrenOf(prefix) ==
    {First(p, Len(prefix) + 1) : p \in {q \in Probes : First(q, Len(prefix)) = prefix}}

\* Of the lines of one spelling the last decides.
LastMatchExcludes(lines, spelt) == spelt # {} /\ ~lines[Max(spelt)].neg

\* A spelling excludes a directory, or all it contains; each with what would undo it.
Excludes(lines, spelt, candidates) ==
    LastMatchExcludes(lines, spelt) /\ ~NegationReaches(lines, Max(spelt), candidates)

PathSpellings(lines, dir) == {i \in DOMAIN lines : lines[i].parts = dir}
ContentsSpellings(lines, dir) ==
    {i \in DOMAIN lines : lines[i].parts = dir \o <<"*">> /\ ~lines[i].slash}

\* Faulty: only the directory itself is looked for among the negations.
IgnoredBySpelling(lines) ==
    \E n \in DOMAIN DotDir :
        LET dir == First(DotDir, n)
        IN \/ Excludes(lines, PathSpellings(lines, dir), {dir})
           \/ Excludes(lines, ContentsSpellings(lines, dir), {dir})

IsDvaIgnored(lines) ==
    \E n \in DOMAIN DotDir :
        LET dir == First(DotDir, n)
        IN \/ Excludes(lines, PathSpellings(lines, dir), {dir})
           \/ Excludes(lines, ContentsSpellings(lines, dir), ChildrenOf(dir))

-----------------------------------------------------------------------------
(* The commands *)

\* Git may be missing, slow or broken at any call.
AlreadyDeclares(git) == IF git THEN DeclaredHere(ignore) ELSE IsDvaIgnored(ignore)
StateIsIgnored(git) == IF git THEN IgnoredHere(ignore) ELSE IsDvaIgnored(ignore)

EnsureGitignore(git) ==
    /\ IF AlreadyDeclares(git)
       THEN /\ settled' = IF settled = "wrote" THEN "wrote" ELSE "declares"
            /\ UNCHANGED <<ignore, written>>
       ELSE \/ /\ Len(ignore) + Len(Block) <= MaxLines
               /\ ignore' = ignore \o Block
               /\ settled' = "wrote"
               /\ UNCHANGED written
            \/ \* the disk is full, or the command is killed
               /\ written < MaxWritten
               /\ ignore' = ignore \o First(Block, 1)
               /\ settled' = "no" /\ written' = written + 1
    /\ UNCHANGED own

InitCommand == \E git \in BOOLEAN : EnsureGitignore(git)

\* The check and its repair ask git each on their own.
DoctorFix ==
    /\ \E git \in BOOLEAN : ~StateIsIgnored(git)
    /\ \E git \in BOOLEAN : EnsureGitignore(git)

\* A person adds a line or removes one.
EditFile ==
    /\ written < MaxWritten
    /\ written' = written + 1
    /\ \/ \E l \in Written : ignore' = Append(ignore, l)
       \/ \E i \in DOMAIN ignore :
            ignore' = First(ignore, i - 1) \o SubSeq(ignore, i + 1, Len(ignore))
    /\ settled' = "no"
    /\ UNCHANGED own

IgnoreInit == ignore = <<>> /\ own \in OwnRules /\ settled = "no" /\ written = 0

IgnoreNext == InitCommand \/ DoctorFix \/ EditFile

IgnoreSpec == IgnoreInit /\ [][IgnoreNext]_ignoreVars

-----------------------------------------------------------------------------
(* Properties *)

\* What the code promises of the file once ensureGitignore is done with it, with or
\* without git: a clone ignores whatever dva leaves there, which the reader must never
\* claim where git would commit it (gitignore_contract_test.go 55-58); and what dva
\* wrote keeps no module out (gitignore.go 38-47) unless a person's own rule excludes
\* one of its directories, and is never written again (gitignore.go 729-733).  The last
\* is not claimed where rules of this machine decide first.
GitignoreSettled ==
    /\ settled # "no" => \A p \in Probes : CloneIgnores(ignore, p)
    /\ settled = "wrote" =>
         /\ CloneIgnores(ignore, ModuleProbe) =>
                \E n \in DOMAIN DotDir :
                    /\ CloneExcludes(ignore, ModuleProbe, n)
                    /\ ignore[Max(Naming(ignore, ModuleProbe, n))] \notin {Block[1], Block[2]}
         /\ own = <<>> => \A git \in BOOLEAN : AlreadyDeclares(git)

=============================================================================
