------------------------------ MODULE AgentDeny ------------------------------
(***************************************************************************)
(* `dva agent-deny install` and `uninstall` (internal/agentdeny): deny     *)
(* rules in a settings file that other tools and people edit too, and a    *)
(* receipt of the rules that are dva's.                                    *)
(*                                                                         *)
(* A command reads the receipt, then the file, and writes the file, then   *)
(* the receipt, each in one rename, without a lock.  Commands meet others  *)
(* and edits, any call may fail, before or after its effect, and a command *)
(* may be killed.  Of the file only its deny rules are looked at.          *)
(***************************************************************************)
EXTENDS Naturals

CONSTANTS
    Commands,   \* the invocations, each of which runs once at most
    Removing,   \* those of uninstall
    Rules,
    Want,       \* Want[c]: the rules that install c is to ensure
    MaxEdits    \* bound: edits by people

ASSUME DenyAssumption ==
    /\ Removing \subseteq Commands
    /\ Want \in [Commands -> SUBSET Rules] /\ MaxEdits \in Nat

VARIABLES
    settings,   \* the file
    owned,      \* the receipt
    deny,       \* deny[c]: where it is, and the receipt and the file as it read them
    edits,      \* how many so far
    theirs,     \* history: the rules in the file whose present copy a person wrote
    added,      \* history: the rules dva ever added
    met,        \* history: the commands that ran while something else changed a file
    loose       \* history: the rules dva added in a command that was met, failed or
                \* died, or that a receipt named which a person removed

denyVars == <<settings, owned, deny, edits, theirs, added, met, loose>>

\* A receipt may be there and name nothing.
NoReceipt == [is |-> FALSE, rules |-> {}]
Receipt(rules) == [is |-> TRUE, rules |-> rules]
Receipts == [is : BOOLEAN, rules : SUBSET Rules]

\* A file that is there may not be JSON.
File(is, rules) == [is |-> is, rules |-> rules]
Files == [is : {"json"}, rules : SUBSET Rules] \cup [is : {"none", "junk"}, rules : {{}}]

DenyEnds == {"ok", "absent", "refused", "failed", "dead"}
DenyPCs == {"idle", "settings", "write", "record", "forget"} \cup DenyEnds

DenyTypeOK ==
    /\ settings \in Files /\ owned \in Receipts
    /\ deny \in [Commands -> [pc : DenyPCs, record : Receipts, seen : Files]]
    /\ edits \in 0..MaxEdits
    /\ theirs \subseteq settings.rules /\ added \subseteq Rules
    /\ met \subseteq Commands /\ loose \subseteq added

\* Before and after its work a command has read nothing.
Blank(pc) == [pc |-> pc, record |-> NoReceipt, seen |-> File("none", {})]

DenyInit ==
    /\ settings \in Files /\ theirs = settings.rules
    /\ owned = NoReceipt
    /\ deny = [c \in Commands |-> Blank("idle")]
    /\ edits = 0 /\ added = {} /\ met = {} /\ loose = {}

Moves(c, pc) == deny' = [deny EXCEPT ![c] = IF pc \in DenyEnds THEN Blank(pc) ELSE [@ EXCEPT !.pc = pc]]
At(c) == deny[c].pc
Reads(c) == At(c) \notin DenyEnds \cup {"idle"}

\* c, or a person, changes a file: all others that are at work are met.
Meets(c) == met' = met \cup {d \in Commands \ {c} : Reads(d)}

-----------------------------------------------------------------------------
(* What a command makes of what it read *)

Seen(c) == deny[c].seen.rules
Record(c) == deny[c].record

\* mergeClaudeCodeDeny and removeClaudeCodeDeny.
NewRules(c) == IF c \in Removing THEN Seen(c) \ Record(c).rules ELSE Seen(c) \cup Want[c]

\* Faulty: all that is wanted becomes dva's.
OwnedAll(c) == Record(c).rules \cup Want[c]

\* What was dva's, and what this installation added itself.
Owned(c) == Record(c).rules \cup (Want[c] \ Seen(c))

-----------------------------------------------------------------------------
(* A command *)

ReadReceipt(c) ==
    /\ At(c) = "idle"
    /\ \/ c \in Removing /\ ~owned.is /\ Moves(c, "absent")
       \/ /\ c \in Removing => owned.is
          /\ deny' = [deny EXCEPT ![c].pc = "settings", ![c].record = owned]
       \/ Moves(c, "failed")
    /\ UNCHANGED <<settings, owned, edits, theirs, added, met, loose>>

\* A file that is not JSON, and for uninstall a rule of its own that is missing,
\* are left to the user.  A removed file leaves uninstall only the receipt.
ReadSettings(c) ==
    /\ At(c) = "settings"
    /\ LET drifted == c \in Removing /\ settings.is = "json" /\ ~ Record(c).rules \subseteq settings.rules
           to == IF settings.is = "junk" \/ drifted THEN "refused"
                 ELSE IF c \in Removing THEN (IF Record(c).rules \cap settings.rules # {} THEN "write" ELSE "forget")
                 ELSE IF ~ Want[c] \subseteq settings.rules THEN "write" ELSE "record"
       IN \/ to = "refused" /\ Moves(c, to)
          \/ to # "refused" /\ deny' = [deny EXCEPT ![c].pc = to, ![c].seen = settings]
          \/ Moves(c, "failed")
    /\ UNCHANGED <<settings, owned, edits, theirs, added, met, loose>>

\* The file is written: what c adds is dva's, what it brings back of a rule that
\* was taken out meanwhile is whose c takes it for.
Writes(c) ==
    /\ settings' = File("json", NewRules(c))
    /\ LET new == Want[c] \ Seen(c)
           back == Seen(c) \ settings.rules
       IN /\ theirs' = settings'.rules \cap ((theirs \ new) \cup (back \ Record(c).rules))
          /\ added' = added \cup new
    /\ Meets(c)

\* writeSettingsFile: an error may come after the rename.
WriteSettings(c) ==
    /\ At(c) = "write"
    /\ \/ Moves(c, IF c \in Removing THEN "forget" ELSE "record") /\ Writes(c)
       \/ Moves(c, "failed") /\ Writes(c)
       \/ Moves(c, "failed") /\ UNCHANGED <<settings, theirs, added, met>>
    /\ loose' = settings'.rules \cap
           (loose \cup IF At(c)' = "failed" \/ c \in met THEN settings'.rules \ (theirs' \cup owned.rules) ELSE {})
    /\ UNCHANGED <<owned, edits>>

\* The rules that c added and no receipt has yet.
Unrecorded(c) == (Owned(c) \ owned.rules) \cap (settings.rules \ theirs)

\* writeReceipt, unless it says the same already, of the same version of dva.
WriteReceipt(c) ==
    /\ At(c) = "record"
    /\ \/ Moves(c, "ok") /\ owned' = Receipt(Owned(c))
       \/ Moves(c, "ok") /\ Record(c) = Receipt(Owned(c)) /\ UNCHANGED owned
       \/ Moves(c, "failed") /\ owned' \in {owned, Receipt(Owned(c))}
    /\ loose' = loose \cup IF At(c)' = "failed" \/ c \in met
                           THEN ((Owned(c) \cup owned.rules) \ owned'.rules) \cap (settings.rules \ theirs) ELSE {}
    /\ IF owned' = owned THEN UNCHANGED met ELSE Meets(c)
    /\ UNCHANGED <<settings, edits, theirs, added>>

RemoveReceipt(c) ==
    /\ At(c) = "forget"
    /\ \/ Moves(c, "ok") /\ owned' = NoReceipt
       \/ Moves(c, "failed") /\ UNCHANGED owned
    /\ loose' = loose \cup IF c \in met /\ owned' # owned THEN owned.rules \cap (settings.rules \ theirs) ELSE {}
    /\ IF owned' = owned THEN UNCHANGED met ELSE Meets(c)
    /\ UNCHANGED <<settings, edits, theirs, added>>

DenyCommand(c) == ReadReceipt(c) \/ ReadSettings(c) \/ WriteSettings(c) \/ WriteReceipt(c) \/ RemoveReceipt(c)

KilledAt(c) ==
    /\ Reads(c) /\ Moves(c, "dead")
    /\ loose' = loose \cup IF At(c) = "record" THEN Unrecorded(c) ELSE {}
    /\ UNCHANGED <<settings, owned, edits, theirs, added, met>>

-----------------------------------------------------------------------------
(* People *)

\* A rule is added or removed, or the file is removed or spoilt.
Edit ==
    /\ edits < MaxEdits /\ edits' = edits + 1
    /\ \/ \E r \in Rules \ settings.rules : settings' = File("json", settings.rules \cup {r})
       \/ \E r \in settings.rules : settings' = File("json", settings.rules \ {r})
       \/ settings.is = "json" /\ settings' \in {File("none", {}), File("junk", {})}
    /\ theirs' = (theirs \cap settings'.rules) \cup (settings'.rules \ settings.rules)
    /\ met' = met \cup {d \in Commands : Reads(d)}
    /\ loose' = loose \cap settings'.rules
    /\ UNCHANGED <<owned, deny, added>>

\* "delete the receipt manually": the advice of a refused uninstall.
DeleteReceipt ==
    /\ edits < MaxEdits /\ edits' = edits + 1
    /\ owned.is /\ owned' = NoReceipt
    /\ met' = met \cup {d \in Commands : Reads(d)}
    /\ loose' = loose \cup (owned.rules \cap (settings.rules \ theirs))
    /\ UNCHANGED <<settings, deny, theirs, added>>

DenyNext ==
    \/ \E c \in Commands : DenyCommand(c) \/ KilledAt(c)
    \/ Edit \/ DeleteReceipt

DenySpec == DenyInit /\ [][DenyNext]_denyVars

-----------------------------------------------------------------------------
(* Properties *)

\* Every rule of dva's in the file is one the receipt will let uninstall remove
\* or refuse, now or when the command that adds it is done, unless that command
\* was met, failed or was killed.
Accounted ==
    settings.rules \ theirs \subseteq
        owned.rules \cup loose \cup UNION {Owned(c) : c \in {d \in Commands : At(d) = "record"}}

\* However often rules were installed, edited and refused before, dva's stay
\* accounted for (deploy.go 307-310), and a command that nobody met removes no rule
\* that a person wrote, but for one that dva once added and the person took out
\* and wrote again (deploy.go 187-193).
DenyKeepsForeign ==
    [][/\ Accounted'
       /\ \A c \in Commands : deny'[c] # deny[c] /\ c \notin met =>
            theirs \ settings'.rules \subseteq added]_denyVars

=============================================================================
