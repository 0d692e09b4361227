------------------------------ MODULE EnvBridge ------------------------------
(***************************************************************************)
(* `dva config env unseal, seal and reseal` (internal/cli/config_env*.go): *)
(* between the encrypted source of an env_file entry and its plaintext     *)
(* target.  Each looks first, lets sops write into a temporary file next   *)
(* to what it is going to write, and puts that into place in one step; all *)
(* else of the command happens without a lock.                             *)
(*                                                                         *)
(* Commands run at once and meet people who edit, pull or remove either    *)
(* file; `config env edit` is one of them.  Any call may fail, sops may    *)
(* take hours and may return nothing, and a command may be killed: what it *)
(* leaves is swept up by a later one that finds it an hour old.            *)
(***************************************************************************)
EXTENDS Naturals

CONSTANTS
    Unseals,    \* the invocations of unseal,
    Forced,     \* those of them with --force,
    Seals,      \* of seal
    Reseals,    \* and of reseal
    Texts,      \* what a file may say as dotenv
    Parties,    \* bound: the sets of commands that begin
    MaxChanges  \* bound: changes of files by people

Cmds == Unseals \cup Seals \cup Reseals
None == "none"          \* no file
Junk == "junk"          \* not dotenv
Nothing == "empty"
Contents == Texts \cup {Junk, Nothing}

ASSUME BridgeAssumption ==
    /\ Forced \subseteq Unseals
    /\ Unseals \cap Seals = {} /\ Reseals \cap (Unseals \cup Seals) = {}
    /\ Texts \cap {None, Junk, Nothing} = {}
    /\ Parties \subseteq SUBSET Cmds /\ MaxChanges \in Nat

VARIABLES
    bridge,     \* bridge[c]: where it is, what sops gave it, what it put into place
    source,     \* the two files: what the one decrypts to, what the other says
    target,
    temps,      \* the temporary files
    changes,    \* how many so far
    had,        \* history: had[c], what the file c works from has said since it looked
    late,       \* history: late[c], the file that c writes was changed after c
                \* looked at it, or for reseal after it was decrypted
    littered        \* history: a removal of a temporary file of c's failed

bridgeVars == <<bridge, source, target, temps, changes, had, late, littered>>

BridgePCs == {"idle", "sweep", "make", "work", "validate", "wrap", "commit", "place", "flush", "tidy",
              "ok", "failed", "replaced", "dead"}
Over == {"idle", "ok", "failed", "replaced", "dead"}
Temps == [of : Cmds, kind : {"plain", "cipher"}, old : BOOLEAN]

BridgeTypeOK ==
    /\ bridge \in [Cmds -> [pc : BridgePCs, seen : Contents \cup {None}, placed : Contents \cup {None}]]
    /\ {source, target} \subseteq Contents \cup {None}
    /\ temps \subseteq Temps /\ changes \in 0..MaxChanges
    /\ had \in [Cmds -> SUBSET (Contents \cup {None})]
    /\ late \in [Cmds -> BOOLEAN] /\ littered \subseteq Cmds

BridgeInit ==
    /\ bridge = [c \in Cmds |-> [pc |-> "idle", seen |-> None, placed |-> None]]
    /\ source \in Texts \cup {None} /\ target \in Texts \cup {None}
    /\ temps = {} /\ changes = 0
    /\ had = [c \in Cmds |-> {}] /\ late = [c \in Cmds |-> FALSE] /\ littered = {}

Goes(c, pc) == bridge' = [bridge EXCEPT ![c].pc = pc]

\* What c works from, and what it writes; its temporary files are next to the latter.
Input(c) == IF c \in Seals THEN target ELSE source
Output(c) == IF c \in Unseals THEN target ELSE source

OwnTemps(c) == {t \in temps : t.of = c}

\* A temporary file is always found by its name, whoever took it away.
Named(c, kind) == \E t \in temps : t.of = c /\ t.kind = kind
Kind(c) == IF c \in Unseals THEN "plain" ELSE "cipher"

Fresh(c, kind) == (temps \ {t \in OwnTemps(c) : t.kind = kind}) \cup {[of |-> c, kind |-> kind, old |-> FALSE]}

\* Abort and discard of those in gone, each of which may fail.
Discard(c, gone) ==
    \E left \in SUBSET gone :
        /\ temps' = (temps \ gone) \cup left
        /\ littered' = IF left = {} THEN littered ELSE littered \cup {c}

\* A step returns an error: everything is aborted.
Aborts(c) == Goes(c, "failed") /\ Discard(c, OwnTemps(c))

-----------------------------------------------------------------------------
(* The commands *)

\* preflight, sealPreflight and the checks of runEnvReseal.
Allowed(c) ==
    /\ Input(c) # None
    /\ c \in Unseals \ Forced => target = None
    /\ c \in Seals => source = None /\ target \in Texts

LookAt(c) ==
    /\ bridge[c].pc = "idle"
    /\ \E party \in Parties : {d \in Cmds : bridge[d].pc # "idle"} \cup {c} \subseteq party
    /\ (Allowed(c) /\ Goes(c, "sweep")) \/ Goes(c, "failed")
    /\ had' = [had EXCEPT ![c] = {Input(c)}]
    /\ UNCHANGED <<source, target, temps, changes, late, littered>>

\* reclaimStaleTemps, in a directory that others may write to, as far as it gets.
Sweep(c) ==
    /\ bridge[c].pc = "sweep" /\ Goes(c, "make")
    /\ \E gone \in SUBSET {t \in temps : t.old} : temps' = temps \ gone
    /\ UNCHANGED <<source, target, changes, had, late, littered>>

\* newTemp; before it sops is looked for and the keys to seal are confirmed.
MakeTemp(c) ==
    /\ bridge[c].pc = "make" /\ Goes(c, "work")
    /\ temps' = Fresh(c, IF c \in Seals THEN "cipher" ELSE "plain")
    /\ UNCHANGED <<source, target, changes, had, late, littered>>

\* sops, into the open file: what it reads when it reads it, or nothing.
Sops(c) ==
    /\ bridge[c].pc = "work" /\ Input(c) # None
    /\ \E text \in {Input(c), Nothing} :
         bridge' = [bridge EXCEPT ![c].seen = text, ![c].pc = IF c \in Seals THEN "commit" ELSE "validate"]
    /\ temps' = IF OwnTemps(c) = {} THEN temps ELSE Fresh(c, IF c \in Seals THEN "cipher" ELSE "plain")
    /\ late' = IF c \in Reseals THEN [late EXCEPT ![c] = FALSE] ELSE late
    /\ UNCHANGED <<source, target, changes, had, littered>>

\* Faulty: an empty file parses.
ValidIfParsed(text) == text \in Texts \cup {Nothing}

\* validateDecrypted: not empty, and DVA's own parser takes it.
Valid(text) == text \in Texts

Validate(c) ==
    /\ bridge[c].pc = "validate" /\ Named(c, "plain") /\ Valid(bridge[c].seen)
    /\ Goes(c, IF c \in Reseals THEN "wrap" ELSE "commit")
    /\ UNCHANGED <<source, target, temps, changes, had, late, littered>>

\* reseal encrypts what it decrypted into a second temporary file; nothing is refused.
Wrap(c) ==
    /\ bridge[c].pc = "wrap" /\ Named(c, "plain")
    /\ Goes(c, "commit") /\ temps' = Fresh(c, "cipher")
    /\ UNCHANGED <<source, target, changes, had, late, littered>>

\* Commit: the file and its directory are synced; its path still names that directory.
CommitTemp(c) ==
    /\ bridge[c].pc = "commit" /\ Goes(c, "place")
    /\ UNCHANGED <<source, target, temps, changes, had, late, littered>>

\* Faulty: a rename, whatever is there.
MayPlaceAnyhow(c) == TRUE

\* place: link(2) for seal fails if there is a source, rename(2) does not look.
MayPlace(c) == c \in Seals => source = None

Place(c) ==
    /\ bridge[c].pc = "place" /\ Named(c, Kind(c)) /\ MayPlace(c)
    /\ bridge' = [bridge EXCEPT ![c].pc = "flush", ![c].placed = bridge[c].seen]
    /\ IF c \in Unseals THEN target' = bridge[c].seen /\ UNCHANGED source
                        ELSE source' = bridge[c].seen /\ UNCHANGED target
    /\ LET gone == {t \in OwnTemps(c) : t.kind = Kind(c)}
       IN IF c \in Seals THEN Discard(c, gone) ELSE temps' = temps \ gone /\ UNCHANGED littered
    /\ had' = [d \in Cmds |-> IF bridge[d].pc \notin Over THEN had[d] \cup {Input(d)'} ELSE had[d]]
    /\ late' = [d \in Cmds |-> late[d] \/ (d # c /\ bridge[d].pc \notin Over /\ Output(d)' # Output(d))]
    /\ UNCHANGED changes

\* What reseal still has when its second file is in place; a failed unlink of
\* seal's is not tried again.
Plaintext(c) == {t \in OwnTemps(c) : t.kind # Kind(c)}

\* The directory is synced once more: an error now says that the file was
\* replaced, but for seal it looks like any other.
Flush(c) ==
    /\ bridge[c].pc = "flush"
    /\ \/ Goes(c, "tidy")
       \/ Goes(c, IF c \in Seals THEN "failed" ELSE "replaced")
    /\ IF bridge'[c].pc = "tidy" THEN UNCHANGED <<temps, littered>> ELSE Discard(c, Plaintext(c))
    /\ UNCHANGED <<source, target, changes, had, late>>

\* The deferred Abort of reseal's plaintext.
Tidy(c) ==
    /\ bridge[c].pc = "tidy"
    /\ Goes(c, "ok") /\ Discard(c, Plaintext(c))
    /\ UNCHANGED <<source, target, changes, had, late>>

\* Any check or call of it fails.
Stop(c) ==
    /\ bridge[c].pc \in {"make", "work", "validate", "wrap", "commit", "place"}
    /\ Aborts(c)
    /\ UNCHANGED <<source, target, changes, had, late>>

BridgeCommand(c) ==
    \/ LookAt(c) \/ Sweep(c) \/ MakeTemp(c) \/ Sops(c) \/ Validate(c) \/ Wrap(c) \/ CommitTemp(c)
    \/ Place(c) \/ Flush(c) \/ Tidy(c) \/ Stop(c)

Killed(c) ==
    /\ bridge[c].pc \notin Over /\ Goes(c, "dead")
    /\ UNCHANGED <<source, target, temps, changes, had, late, littered>>

-----------------------------------------------------------------------------
(* Around them *)

\* Somebody edits, pulls, writes or removes one of the files.
Change ==
    /\ changes < MaxChanges /\ changes' = changes + 1
    /\ \/ source' \in (Texts \cup {Junk, None}) \ {source} /\ UNCHANGED target
       \/ target' \in (Texts \cup {Junk, None}) \ {target} /\ UNCHANGED source
    /\ had' = [c \in Cmds |-> IF bridge[c].pc \notin Over THEN had[c] \cup {Input(c)'} ELSE had[c]]
    /\ late' = [c \in Cmds |-> late[c] \/ (bridge[c].pc \notin Over /\ Output(c)' # Output(c))]
    /\ UNCHANGED <<bridge, temps, littered>>

\* An hour passes.
Hour ==
    /\ \E t \in temps : ~t.old
    /\ temps' = {[t EXCEPT !.old = TRUE] : t \in temps}
    /\ UNCHANGED <<bridge, source, target, changes, had, late, littered>>

BridgeNext ==
    \/ \E c \in Cmds : BridgeCommand(c) \/ Killed(c)
    \/ Change \/ Hour

BridgeSpec == BridgeInit /\ [][BridgeNext]_bridgeVars

-----------------------------------------------------------------------------
(* Properties *)

\* What unseal and reseal report done is a valid text that their source held while
\* they ran, never a part of it, nothing or somebody else's temporary file; what they
\* report failed they left alone (config_env.go 60-62, config_env_reseal.go 28-29).
\* seal does so but for a failed last sync, and does not look at what sops gave it.
\* Only a command that was killed or could not remove it leaves a temporary file.
EnvTruthful ==
    \A c \in Cmds :
        /\ bridge[c].pc \in {"ok", "replaced"} =>
             bridge[c].placed \in had[c] \cap Texts \/ (c \in Seals /\ bridge[c].placed \in had[c] \cup {Nothing})
        /\ bridge[c].pc = "failed" => bridge[c].placed = None \/ c \in Seals
        /\ bridge[c].pc \in Over \ {"dead"} /\ c \notin littered => OwnTemps(c) = {}

\* No command replaces what it may not: seal never an existing source, though it
\* came while the keys were confirmed (config_env_safewrite.go 452-466); unseal
\* without --force, and reseal an edited source, only if it came after they looked.
EnvKeepsOthers ==
    [][\A c \in Cmds : bridge'[c].placed # bridge[c].placed =>
         /\ c \in Seals => source = None
         /\ c \in Unseals \ Forced => target = None \/ late[c]
         /\ c \in Reseals => source = bridge[c].seen \/ late[c]]_bridgeVars

=============================================================================
