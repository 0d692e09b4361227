------------------------------ MODULE HostProofs ------------------------------
(***************************************************************************)
(* Theorems about what commands do to files of the host that others use    *)
(* too: the PID file of a service (ProcessPlugin), an env_file and its     *)
(* encrypted source (EnvBridge), the deny rules of a coding agent          *)
(* (AgentDeny), the .gitignore of the repository (GitIgnore).  For the     *)
(* first three, any number of commands may be at work at once.             *)
(*                                                                         *)
(* What an invariant says of a command concerns that command and the       *)
(* files; each action is looked at for the command that takes it, and a    *)
(* lemma says what is left of the others.                                  *)
(***************************************************************************)
EXTENDS ProcessPlugin, EnvBridge, AgentDeny, GitIgnore, FiniteSetTheorems, SequenceTheorems,
        WellFoundedInduction, TLAPS

-----------------------------------------------------------------------------
(* The rules of an agent: the inductive invariant *)

Known == {"settings", "write", "record", "forget"}

\* What a command read is still so, unless it was met.
ReadStands(c) ==
    /\ At(c) \in Known => Record(c).rules \subseteq added
    /\ c \notin met =>
         /\ At(c) \in Known => Record(c) = owned
         /\ At(c) = "write" => Seen(c) = settings.rules
         /\ At(c) = "forget" => settings.rules \cap Record(c).rules = {}

\* What it is about to record as its own it has added.
AddedFirst(c) == At(c) = "record" => Want[c] \ Seen(c) \subseteq added

DenySound(c) == ReadStands(c) /\ AddedFirst(c)

\* dva's rules in the file, and those of a receipt, are rules that dva added once.
OwnWereAdded == (settings.rules \ theirs) \cup owned.rules \subseteq added

DenyInv == DenyTypeOK /\ Accounted /\ OwnWereAdded /\ \A c \in Commands : DenySound(c)

-----------------------------------------------------------------------------
(* The rules of an agent: steps *)

DenyState == [pc : DenyPCs, record : Receipts, seen : Files]

\* Of the others, who is at work and sees a file change is met.
Unmet(c) ==
    \A d \in Commands \ {c} :
        /\ deny'[d] = deny[d]
        /\ Reads(d) /\ d \notin met' => d \notin met /\ owned' = owned /\ settings' = settings

LEMMA DenyTyped ==
    DenyTypeOK <=>
        /\ settings \in Files /\ owned \in Receipts /\ deny \in [Commands -> DenyState]
        /\ edits \in 0..MaxEdits /\ theirs \subseteq settings.rules /\ added \subseteq Rules
        /\ met \subseteq Commands /\ loose \subseteq added
BY DEF DenyTypeOK, DenyState

LEMMA FilesAre ==
    /\ \A f \in Files : f.rules \subseteq Rules /\ f = File(f.is, f.rules)
    /\ \A rules \in SUBSET Rules : File("json", rules) \in Files
          /\ File("json", rules).rules = rules
    /\ \A is \in {"none", "junk"} : File(is, {}) \in Files /\ File(is, {}).rules = {}
BY DEF Files, File

LEMMA ReceiptsAre ==
    /\ \A r \in Receipts : r.rules \subseteq Rules
    /\ NoReceipt \in Receipts /\ NoReceipt.rules = {}
    /\ \A rules \in SUBSET Rules : Receipt(rules) \in Receipts /\ Receipt(rules).rules = rules
BY DEF Receipts, Receipt, NoReceipt

\* A command goes on to pc, with what it read, or is over.
LEMMA MovesTo ==
    ASSUME DenyTypeOK, NEW c \in Commands, NEW pc \in DenyPCs, Moves(c, pc)
    PROVE  /\ deny' \in [Commands -> DenyState]
           /\ deny'[c].pc = pc
           /\ pc \notin DenyEnds => deny'[c].record = deny[c].record /\ deny'[c].seen = deny[c].seen
           /\ \A d \in Commands \ {c} : deny'[d] = deny[d]
<1>1. deny \in [Commands -> DenyState] /\ deny[c] \in DenyState
    BY DenyTyped
<1>2. Blank(pc) \in DenyState /\ Blank(pc).pc = pc
    BY FilesAre, ReceiptsAre DEF Blank, DenyState
<1>3. [deny[c] EXCEPT !.pc = pc] \in DenyState
    BY <1>1 DEF DenyState
<1>4. CASE pc \in DenyEnds
    BY <1>1, <1>2, <1>4 DEF Moves
<1>5. CASE pc \notin DenyEnds
  <2>1. deny' = [deny EXCEPT ![c] = [deny[c] EXCEPT !.pc = pc]]
      BY <1>1, <1>5 DEF Moves
  <2>2. deny'[c] = [deny[c] EXCEPT !.pc = pc]
      BY <1>1, <2>1
  <2>3. /\ deny'[c].pc = pc /\ deny'[c].record = deny[c].record /\ deny'[c].seen = deny[c].seen
      BY <1>1, <2>2 DEF DenyState
  <2> QED BY <1>1, <1>3, <2>1, <2>3
<1> QED BY <1>4, <1>5

LEMMA SeenTyped ==
    ASSUME DenyTypeOK, NEW c \in Commands
    PROVE  /\ Seen(c) \subseteq Rules /\ Record(c) \in Receipts /\ Record(c).rules \subseteq Rules
           /\ Want[c] \subseteq Rules /\ deny[c].seen \in Files
           /\ Owned(c) \subseteq Rules /\ NewRules(c) \subseteq Rules
           /\ At(c) \in DenyPCs
<1>1. deny[c] \in DenyState
    BY DenyTyped
<1>2. Seen(c) \subseteq Rules /\ Record(c) \in Receipts /\ deny[c].seen \in Files
        /\ At(c) \in DenyPCs
    BY <1>1, FilesAre DEF DenyState, Seen, Record, At
<1>3. Record(c).rules \subseteq Rules /\ Want[c] \subseteq Rules
    BY <1>2, ReceiptsAre, DenyAssumption
<1> QED BY <1>2, <1>3 DEF Owned, NewRules

\* Whoever is not met keeps what it read, and what it was to record stays accounted for.
LEMMA OthersStand ==
    ASSUME NEW c \in Commands, Unmet(c), added \subseteq added',
           NEW d \in Commands \ {c}, DenySound(d)
    PROVE  DenySound(d)'
<1>1. deny'[d] = deny[d]
        /\ (Reads(d) /\ d \notin met' => d \notin met /\ owned' = owned /\ settings' = settings)
    BY DEF Unmet
<1>2. At(d) \in Known => Reads(d)
    BY DEF Known, Reads, DenyEnds
<1>3. Known' = Known /\ At(d)' = At(d) /\ Seen(d)' = Seen(d) /\ Record(d)' = Record(d)
    BY <1>1 DEF Known, At, Seen, Record
<1>4. AddedFirst(d)'
    BY <1>3 DEF DenySound, AddedFirst
<1>5. ReadStands(d)'
  <2>1. CASE At(d) \notin Known
      BY <1>3, <2>1 DEF ReadStands, Known
  <2>2. CASE At(d) \in Known /\ d \notin met'
      BY <1>1, <1>2, <1>3, <2>2 DEF DenySound, ReadStands
  <2>3. CASE At(d) \in Known /\ d \in met'
      BY <1>3, <2>3 DEF DenySound, ReadStands
  <2> QED BY <2>1, <2>2, <2>3
<1> QED BY <1>4, <1>5 DEF DenySound

Pending == UNION {Owned(c) : c \in {d \in Commands : At(d) = "record"}}

LEMMA PendingIs == \A r : r \in Pending <=> \E c \in Commands : At(c) = "record" /\ r \in Owned(c)
BY DEF Pending

\* What the others are to record they still are.
LEMMA PendingStays ==
    ASSUME NEW c \in Commands, Unmet(c), NEW r \in Pending
    PROVE  r \in Pending' \/ (At(c) = "record" /\ r \in Owned(c))
<1>1. PICK d \in Commands : At(d) = "record" /\ r \in Owned(d)
    BY PendingIs
<1>2. CASE d = c
    BY <1>1, <1>2
<1>3. CASE d # c
  <2>1. deny'[d] = deny[d]
      BY <1>3 DEF Unmet
  <2>2. At(d)' = "record" /\ r \in Owned(d)'
      BY <1>1, <2>1 DEF At, Owned, Record, Seen
  <2> QED BY <2>2 DEF Pending
<1> QED BY <1>2, <1>3

LEMMA AccountedIs ==
    Accounted <=> \A r \in settings.rules \ theirs : r \in owned.rules \/ r \in loose \/ r \in Pending
BY DEF Accounted, Pending

\* What every step of c has to establish.
DenyStep(c) ==
    /\ DenyTypeOK' /\ Accounted' /\ OwnWereAdded'
    /\ DenySound(c)' /\ Unmet(c) /\ added \subseteq added'

\* A step that changes no file and records nothing: nobody is met by it.
LEMMA FilesStay ==
    ASSUME DenyInv, NEW c \in Commands, deny' \in [Commands -> DenyState],
           \A d \in Commands \ {c} : deny'[d] = deny[d],
           settings' = settings, owned' = owned, edits' = edits, theirs' = theirs,
           added' = added, met' = met, loose \subseteq loose', loose' \subseteq added,
           At(c) = "record" => \/ At(c)' = "record" /\ Owned(c)' = Owned(c)
                               \/ Owned(c) \cap (settings.rules \ theirs) \subseteq owned.rules
                                     \cup loose',
           DenySound(c)'
    PROVE  DenyStep(c)
<1>1. Unmet(c)
    BY DEF Unmet
<1>2. DenyTypeOK'
    BY DenyTyped DEF DenyInv, DenyTypeOK, DenyState
<1>3. OwnWereAdded'
    BY DEF DenyInv, OwnWereAdded
<1>4. Accounted'
  <2> SUFFICES ASSUME NEW r \in settings.rules \ theirs
               PROVE  r \in owned.rules \/ r \in loose' \/ r \in Pending'
      BY DEF Accounted, Pending
  <2>1. r \in owned.rules \/ r \in loose \/ r \in Pending
      BY AccountedIs DEF DenyInv
  <2>2. CASE r \in Pending
    <3>1. r \in Pending' \/ (At(c) = "record" /\ r \in Owned(c))
        BY <1>1, <2>2, PendingStays
    <3>2. At(c)' = "record" /\ Owned(c)' = Owned(c) /\ r \in Owned(c) => r \in Pending'
        BY DEF Pending
    <3> QED BY <3>1, <3>2
  <2> QED BY <2>1, <2>2
<1> QED BY <1>1, <1>2, <1>3, <1>4 DEF DenyStep

LEMMA ReadReceiptKeeps ==
    ASSUME DenyInv, NEW c \in Commands, ReadReceipt(c)
    PROVE  DenyStep(c)
<1>1. DenyTypeOK /\ At(c) = "idle"
    BY DEF DenyInv, ReadReceipt
<1>2. ASSUME NEW pc \in {"absent", "failed"}, Moves(c, pc)
      PROVE  /\ deny' \in [Commands -> DenyState] /\ At(c)' = pc
             /\ \A d \in Commands \ {c} : deny'[d] = deny[d]
    BY <1>1, <1>2, MovesTo DEF At, DenyPCs, DenyEnds
<1>3. ASSUME deny' = [deny EXCEPT ![c].pc = "settings", ![c].record = owned]
      PROVE  /\ deny' \in [Commands -> DenyState] /\ At(c)' = "settings" /\ Record(c)' = owned
             /\ \A d \in Commands \ {c} : deny'[d] = deny[d]
    BY <1>1, <1>3, DenyTyped DEF DenyState, DenyPCs, At, Record
<1>4. /\ deny' \in [Commands -> DenyState] /\ At(c)' \in {"absent", "failed", "settings"}
      /\ At(c)' = "settings" => Record(c)' = owned
      /\ \A d \in Commands \ {c} : deny'[d] = deny[d]
    BY <1>2, <1>3 DEF ReadReceipt
<1>5. DenySound(c)'
    BY <1>4 DEF DenySound, ReadStands, AddedFirst, Known, DenyInv, OwnWereAdded, ReadReceipt
<1>6. loose \subseteq added
    BY <1>1, DenyTyped
<1> HIDE DEF DenyInv
<1> QED BY <1>1, <1>4, <1>5, <1>6, FilesStay DEF ReadReceipt

LEMMA ReadSettingsKeeps ==
    ASSUME DenyInv, NEW c \in Commands, ReadSettings(c)
    PROVE  DenyStep(c)
<1> DEFINE drifted == c \in Removing /\ settings.is = "json"
        /\ ~ Record(c).rules \subseteq settings.rules
           to == IF settings.is = "junk" \/ drifted THEN "refused"
                 ELSE IF c \in Removing THEN (IF Record(c).rules \cap settings.rules # {} THEN "write" ELSE "forget")
                 ELSE IF ~ Want[c] \subseteq settings.rules THEN "write" ELSE "record"
<1>1. DenyTypeOK /\ At(c) = "settings" /\ DenySound(c)
    BY DEF DenyInv, ReadSettings
<1>2. ASSUME NEW pc \in {"refused", "failed"}, Moves(c, pc)
      PROVE  /\ deny' \in [Commands -> DenyState] /\ At(c)' = pc
             /\ \A d \in Commands \ {c} : deny'[d] = deny[d]
    BY <1>1, <1>2, MovesTo DEF At, DenyPCs, DenyEnds
<1>3. ASSUME NEW pc \in {"write", "forget", "record"},
             deny' = [deny EXCEPT ![c].pc = pc, ![c].seen = settings]
      PROVE  /\ deny' \in [Commands -> DenyState] /\ At(c)' = pc
             /\ Record(c)' = Record(c) /\ Seen(c)' = settings.rules
             /\ \A d \in Commands \ {c} : deny'[d] = deny[d]
    BY <1>1, <1>3, DenyTyped DEF DenyState, DenyPCs, At, Record, Seen
<1>4. \/ Moves(c, "refused") \/ Moves(c, "failed")
      \/ to # "refused" /\ deny' = [deny EXCEPT ![c].pc = to, ![c].seen = settings]
    BY DEF ReadSettings
<1>5. to # "refused" =>
        /\ to \in {"write", "forget", "record"}
        /\ to = "forget" => Record(c).rules \cap settings.rules = {}
        /\ to = "record" => Want[c] \subseteq settings.rules
    OBVIOUS
<1> HIDE DEF to
<1>6. /\ deny' \in [Commands -> DenyState]
      /\ \A d \in Commands \ {c} : deny'[d] = deny[d]
      /\ At(c)' \in {"refused", "failed", "write", "forget", "record"}
      /\ At(c)' \in Known =>
           /\ Record(c)' = Record(c) /\ Seen(c)' = settings.rules
           /\ At(c)' = "forget" => Record(c).rules \cap settings.rules = {}
           /\ At(c)' = "record" => Want[c] \subseteq settings.rules
  <2>1. CASE Moves(c, "refused") \/ Moves(c, "failed")
      BY <1>2, <2>1 DEF Known
  <2>2. CASE to # "refused" /\ deny' = [deny EXCEPT ![c].pc = to, ![c].seen = settings]
      BY <1>3, <1>5, <2>2 DEF Known
  <2> QED BY <1>4, <2>1, <2>2
<1>7. settings' = settings /\ owned' = owned /\ met' = met /\ added' = added
    BY DEF ReadSettings
<1>8. DenySound(c)'
  <2>1. Record(c).rules \subseteq added /\ (c \notin met => Record(c) = owned)
      BY <1>1 DEF DenySound, ReadStands, Known
  <2>2. Known' = Known
      BY DEF Known
  <2>3. ReadStands(c)'
      BY <1>6, <1>7, <2>1, <2>2 DEF ReadStands, Known
  <2>4. AddedFirst(c)'
      BY <1>6, <1>7 DEF AddedFirst, Known
  <2> QED BY <2>3, <2>4 DEF DenySound
<1>9. loose \subseteq added
    BY <1>1, DenyTyped
<1> HIDE DEF DenyInv
<1> QED BY <1>1, <1>6, <1>8, <1>9, FilesStay DEF ReadSettings

\* A rule of dva's in the file that was written, and who accounts for it.
LEMMA WriteAccounts ==
    ASSUME DenyInv, NEW c \in Commands, Writes(c), At(c) = "write", loose \subseteq added
    PROVE  /\ added \subseteq added' /\ added' \subseteq Rules
           /\ settings' \in Files /\ theirs' \subseteq settings'.rules
           /\ settings'.rules \ theirs' \subseteq added'
           /\ Want[c] \ Seen(c) \subseteq added'
           /\ c \in met' <=> c \in met
           /\ c \notin met /\ c \in Removing =>
                /\ settings'.rules = settings.rules \ owned.rules
                /\ settings'.rules \ theirs' \subseteq settings.rules \ theirs
           /\ c \notin met /\ c \notin Removing =>
                /\ settings.rules \subseteq settings'.rules
                /\ settings'.rules \ theirs' \subseteq (settings.rules \ theirs) \cup Owned(c)
<1> DEFINE new == Want[c] \ Seen(c)
           back == Seen(c) \ settings.rules
<1>1. /\ settings' = File("json", NewRules(c))
      /\ theirs' = settings'.rules \cap ((theirs \ new) \cup (back \ Record(c).rules))
      /\ added' = added \cup new
      /\ met' = met \cup {d \in Commands \ {c} : Reads(d)}
    BY DEF Writes, Meets
<1>2. /\ Seen(c) \subseteq Rules /\ Want[c] \subseteq Rules /\ NewRules(c) \subseteq Rules
      /\ added \subseteq Rules /\ theirs \subseteq settings.rules
    BY SeenTyped, DenyTyped DEF DenyInv
<1>3. settings' \in Files /\ settings'.rules = NewRules(c)
    BY <1>1, <1>2, FilesAre
<1>4. /\ Record(c).rules \subseteq added /\ settings.rules \ theirs \subseteq added
      /\ c \notin met => Record(c) = owned /\ Seen(c) = settings.rules
    BY DEF DenyInv, DenySound, ReadStands, Known, OwnWereAdded
<1>5. settings'.rules \ theirs' \subseteq added'
    BY <1>1, <1>3, <1>4 DEF NewRules
<1>6. c \notin met /\ c \in Removing =>
        /\ settings'.rules = settings.rules \ owned.rules
        /\ settings'.rules \ theirs' \subseteq settings.rules \ theirs
    BY <1>1, <1>3, <1>4 DEF NewRules
<1>7. c \notin met /\ c \notin Removing =>
        /\ settings.rules \subseteq settings'.rules
        /\ settings'.rules \ theirs' \subseteq (settings.rules \ theirs) \cup Owned(c)
    BY <1>1, <1>3, <1>4 DEF NewRules, Owned
<1> QED BY <1>1, <1>2, <1>3, <1>5, <1>6, <1>7

LEMMA WriteSettingsKeeps ==
    ASSUME DenyInv, NEW c \in Commands, WriteSettings(c)
    PROVE  DenyStep(c)
<1>1. DenyTypeOK /\ At(c) = "write" /\ DenySound(c) /\ owned' = owned /\ edits' = edits
    BY DEF DenyInv, WriteSettings
<1>2. loose \subseteq added /\ theirs \subseteq settings.rules
    BY <1>1, DenyTyped
<1>3. \/ Moves(c, IF c \in Removing THEN "forget" ELSE "record") /\ Writes(c)
      \/ Moves(c, "failed") /\ Writes(c)
      \/ Moves(c, "failed") /\ settings' = settings /\ theirs' = theirs /\ added' = added
            /\ met' = met
    BY DEF WriteSettings
<1>4. loose' = settings'.rules \cap
           (loose \cup IF At(c)' = "failed" \/ c \in met THEN settings'.rules \ (theirs'
                 \cup owned.rules) ELSE {})
    BY DEF WriteSettings
<1>5. PICK pc \in {"forget", "record", "failed"} :
        /\ Moves(c, pc)
        /\ pc = "forget" => c \in Removing /\ Writes(c)
        /\ pc = "record" => c \notin Removing /\ Writes(c)
    BY <1>3
<1>6. /\ deny' \in [Commands -> DenyState] /\ At(c)' = pc
      /\ pc # "failed" => Record(c)' = Record(c) /\ Seen(c)' = Seen(c)
      /\ \A d \in Commands \ {c} : deny'[d] = deny[d]
    BY <1>1, <1>5, MovesTo DEF DenyPCs, DenyEnds, At, Record, Seen
<1>7. /\ added \subseteq added' /\ added' \subseteq Rules /\ met' \subseteq Commands
      /\ settings' \in Files /\ theirs' \subseteq settings'.rules
      /\ settings'.rules \ theirs' \subseteq added'
      /\ c \in met' <=> c \in met
  <2>1. CASE Writes(c)
      BY <1>1, <1>2, <2>1, WriteAccounts, DenyTyped DEF Writes, Meets
  <2>2. CASE settings' = settings /\ theirs' = theirs /\ added' = added /\ met' = met
      BY <1>1, <2>2, DenyTyped DEF DenyInv, OwnWereAdded
  <2> QED BY <1>3, <2>1, <2>2
<1>8. Unmet(c)
    BY <1>3, <1>6, <1>1 DEF Unmet, Writes, Meets
<1>9. loose' \subseteq added'
    BY <1>2, <1>4, <1>7
<1>10. DenyTypeOK'
    BY <1>1, <1>6, <1>7, <1>9, DenyTyped DEF DenyTypeOK, DenyState
<1>11. OwnWereAdded'
    BY <1>1, <1>7 DEF DenyInv, OwnWereAdded
<1>12. DenySound(c)'
  <2>1. CASE pc = "failed"
      BY <1>6, <2>1 DEF DenySound, ReadStands, AddedFirst, Known
  <2>2. CASE pc # "failed"
    <3>1. Writes(c)
        BY <1>5, <2>2
    <3>2. /\ Want[c] \ Seen(c) \subseteq added'
          /\ c \notin met /\ c \in Removing => settings'.rules = settings.rules \ owned.rules
        BY <1>1, <1>2, <3>1, WriteAccounts
    <3>3. Record(c).rules \subseteq added /\ (c \notin met => Record(c) = owned)
        BY <1>1 DEF DenySound, ReadStands, Known
    <3>4. Record(c)' = Record(c) /\ Seen(c)' = Seen(c) /\ (pc = "forget" => c \in Removing)
        BY <1>5, <1>6, <2>2
    <3>5. ReadStands(c)'
        BY <1>1, <1>6, <1>7, <3>2, <3>3, <3>4 DEF ReadStands
    <3>6. AddedFirst(c)'
        BY <3>2, <3>4 DEF AddedFirst
    <3> QED BY <3>5, <3>6 DEF DenySound
  <2> QED BY <2>1, <2>2
<1>13. Accounted'
  <2> SUFFICES ASSUME NEW r \in settings'.rules \ theirs'
               PROVE  r \in owned.rules \/ r \in loose' \/ r \in Pending'
      BY <1>1 DEF Accounted, Pending
  <2>1. CASE At(c)' = "failed" \/ c \in met
      BY <1>4, <2>1
  <2>2. CASE pc # "failed" /\ c \notin met
    <3>1. Writes(c)
        BY <1>5, <2>2
    <3>2. r \in settings.rules \ theirs \/ (pc = "record" /\ r \in Owned(c))
        BY <1>1, <1>2, <1>5, <2>2, <3>1, WriteAccounts
    <3>3. CASE pc = "record" /\ r \in Owned(c)
      <4>1. At(c)' = "record" /\ r \in Owned(c)'
          BY <1>6, <3>3 DEF Owned
      <4> QED BY <4>1 DEF Pending
    <3>4. CASE r \in settings.rules \ theirs
      <4>1. r \in owned.rules \/ r \in loose \/ r \in Pending
          BY <3>4, AccountedIs DEF DenyInv
      <4>2. r \in Pending => r \in Pending'
          BY <1>1, <1>8, PendingStays
      <4> QED BY <1>4, <4>1, <4>2
    <3> QED BY <3>2, <3>3, <3>4
  <2> QED BY <1>6, <2>1, <2>2
<1> QED BY <1>7, <1>8, <1>10, <1>11, <1>12, <1>13 DEF DenyStep

\* A receipt is replaced or removed by c, which was to record or to forget.
LEMMA ReceiptChanges ==
    ASSUME DenyInv, NEW c \in Commands, deny' \in [Commands -> DenyState],
           \A d \in Commands \ {c} : deny'[d] = deny[d], At(c)' \in {"ok", "failed"},
           settings' = settings, theirs' = theirs, added' = added, edits' = edits,
           owned' \in Receipts, owned'.rules \subseteq added,
           IF owned' = owned THEN met' = met ELSE Meets(c),
           loose \subseteq loose', loose' \subseteq added,
           owned.rules \cap (settings.rules \ theirs) \subseteq owned'.rules \cup loose',
           At(c) = "record" => Owned(c) \cap (settings.rules \ theirs) \subseteq owned'.rules
                 \cup loose'
    PROVE  DenyStep(c)
<1>1. met' \subseteq Commands /\ Unmet(c)
    BY DenyTyped DEF DenyInv, Unmet, Meets
<1>2. DenyTypeOK'
    BY <1>1, DenyTyped DEF DenyInv, DenyTypeOK, DenyState
<1>3. OwnWereAdded'
    BY DEF DenyInv, OwnWereAdded
<1>4. DenySound(c)'
    BY DEF DenySound, ReadStands, AddedFirst, Known
<1>5. Accounted'
  <2> SUFFICES ASSUME NEW r \in settings.rules \ theirs
               PROVE  r \in owned'.rules \/ r \in loose' \/ r \in Pending'
      BY DEF Accounted, Pending
  <2>1. r \in owned.rules \/ r \in loose \/ r \in Pending
      BY AccountedIs DEF DenyInv
  <2>2. CASE r \in Pending
      BY <1>1, <2>2, PendingStays
  <2> QED BY <2>1, <2>2
<1> QED BY <1>1, <1>2, <1>3, <1>4, <1>5 DEF DenyStep

LEMMA WriteReceiptKeeps ==
    ASSUME DenyInv, NEW c \in Commands, WriteReceipt(c)
    PROVE  DenyStep(c)
<1>1. DenyTypeOK /\ At(c) = "record" /\ DenySound(c) /\ OwnWereAdded
    BY DEF DenyInv, WriteReceipt
<1>2. /\ Owned(c) \subseteq Rules /\ loose \subseteq added /\ owned \in Receipts
    BY <1>1, SeenTyped, DenyTyped
<1>3. Receipt(Owned(c)) \in Receipts /\ Receipt(Owned(c)).rules = Owned(c)
    BY <1>2, ReceiptsAre
<1>4. /\ Owned(c) \subseteq added
      /\ c \notin met => owned.rules \subseteq Owned(c)
    BY <1>1 DEF DenySound, ReadStands, AddedFirst, Known, Owned
<1>5. /\ owned' \in {owned, Receipt(Owned(c))}
      /\ Moves(c, "ok") \/ Moves(c, "failed")
      /\ Moves(c, "ok") /\ ~Moves(c, "failed") =>
           owned' = Receipt(Owned(c)) \/ (Record(c) = Receipt(Owned(c)) /\ owned' = owned)
    BY DEF WriteReceipt
<1>6. /\ deny' \in [Commands -> DenyState] /\ At(c)' \in {"ok", "failed"}
      /\ Moves(c, "failed") => At(c)' = "failed"
      /\ \A d \in Commands \ {c} : deny'[d] = deny[d]
    BY <1>1, <1>5, MovesTo DEF DenyPCs, DenyEnds, At
<1>7. loose' = loose \cup IF At(c)' = "failed" \/ c \in met
                          THEN ((Owned(c) \cup owned.rules) \ owned'.rules) \cap (settings.rules \ theirs) ELSE {}
    BY DEF WriteReceipt
<1>8. loose \subseteq loose' /\ loose' \subseteq added
    BY <1>1, <1>2, <1>7 DEF OwnWereAdded
<1>9. (Owned(c) \cup owned.rules) \cap (settings.rules \ theirs) \subseteq owned'.rules \cup loose'
  <2>1. CASE At(c)' = "failed" \/ c \in met
      BY <1>7, <2>1
  <2>2. CASE At(c)' # "failed" /\ c \notin met
    <3>1. owned' = Receipt(Owned(c)) \/ (Record(c) = Receipt(Owned(c)) /\ owned' = owned)
        BY <1>5, <1>6, <2>2
    <3>2. Record(c) = owned
        BY <1>1, <2>2 DEF DenySound, ReadStands, Known
    <3> QED BY <1>3, <1>4, <2>2, <3>1, <3>2
  <2> QED BY <2>1, <2>2
<1>10. owned' \in Receipts /\ owned'.rules \subseteq added
    BY <1>1, <1>2, <1>3, <1>4, <1>5 DEF OwnWereAdded
<1>11. /\ settings' = settings /\ theirs' = theirs /\ added' = added /\ edits' = edits
       /\ IF owned' = owned THEN met' = met ELSE Meets(c)
    BY DEF WriteReceipt
<1> QED BY <1>6, <1>8, <1>9, <1>10, <1>11, ReceiptChanges

LEMMA RemoveReceiptKeeps ==
    ASSUME DenyInv, NEW c \in Commands, RemoveReceipt(c)
    PROVE  DenyStep(c)
<1>1. DenyTypeOK /\ At(c) = "forget" /\ DenySound(c) /\ OwnWereAdded
    BY DEF DenyInv, RemoveReceipt
<1>2. loose \subseteq added /\ owned \in Receipts
    BY <1>1, DenyTyped
<1>3. (Moves(c, "ok") /\ owned' = NoReceipt) \/ (Moves(c, "failed") /\ owned' = owned)
    BY DEF RemoveReceipt
<1>4. /\ deny' \in [Commands -> DenyState] /\ At(c)' \in {"ok", "failed"}
      /\ \A d \in Commands \ {c} : deny'[d] = deny[d]
    BY <1>1, <1>3, MovesTo DEF DenyPCs, DenyEnds, At
<1>5. loose' = loose \cup IF c \in met /\ owned' # owned
                           THEN owned.rules \cap (settings.rules \ theirs) ELSE {}
    BY DEF RemoveReceipt
<1>6. loose \subseteq loose' /\ loose' \subseteq added
    BY <1>1, <1>2, <1>5 DEF OwnWereAdded
<1>7. owned.rules \cap (settings.rules \ theirs) \subseteq owned'.rules \cup loose'
  <2>1. CASE owned' = owned
      BY <2>1
  <2>2. CASE c \in met /\ owned' # owned
      BY <1>5, <2>2
  <2>3. CASE c \notin met
      BY <1>1, <2>3 DEF DenySound, ReadStands, Known
  <2> QED BY <2>1, <2>2, <2>3
<1>8. owned' \in Receipts /\ owned'.rules \subseteq added
    BY <1>1, <1>2, <1>3, ReceiptsAre DEF OwnWereAdded
<1>9. /\ settings' = settings /\ theirs' = theirs /\ added' = added /\ edits' = edits
      /\ IF owned' = owned THEN met' = met ELSE Meets(c)
    BY DEF RemoveReceipt
<1> QED BY <1>1, <1>4, <1>6, <1>7, <1>8, <1>9, ReceiptChanges

LEMMA KilledAtKeeps ==
    ASSUME DenyInv, NEW c \in Commands, KilledAt(c)
    PROVE  DenyStep(c)
<1>1. DenyTypeOK /\ Moves(c, "dead") /\ OwnWereAdded /\ DenySound(c)
    BY DEF DenyInv, KilledAt
<1>2. /\ deny' \in [Commands -> DenyState] /\ At(c)' = "dead"
      /\ \A d \in Commands \ {c} : deny'[d] = deny[d]
    BY <1>1, MovesTo DEF DenyPCs, DenyEnds, At
<1>3. DenySound(c)'
    BY <1>2 DEF DenySound, ReadStands, AddedFirst, Known
<1>4. loose' = loose \cup IF At(c) = "record" THEN Unrecorded(c) ELSE {}
    BY DEF KilledAt
<1>5. loose \subseteq loose' /\ loose' \subseteq added
    BY <1>1, <1>4, DenyTyped DEF OwnWereAdded, Unrecorded
<1>6. At(c) = "record" => Owned(c) \cap (settings.rules \ theirs) \subseteq owned.rules \cup loose'
    BY <1>4 DEF Unrecorded
<1> HIDE DEF DenyInv
<1> QED BY <1>2, <1>3, <1>5, <1>6, FilesStay DEF KilledAt

\* A person changes a file: everybody at work is met.
PersonMeets ==
    /\ deny' = deny /\ added' = added
    /\ \A d \in Commands : Reads(d) => d \in met'
    /\ met \subseteq met'

LEMMA PersonLeaves ==
    ASSUME DenyInv, PersonMeets, NEW d \in Commands
    PROVE  DenySound(d)'
<1>1. DenySound(d)
    BY DEF DenyInv
<1>2. At(d) \in Known => d \in met'
    BY DEF PersonMeets, Known, Reads, DenyEnds
<1> QED BY <1>1, <1>2 DEF PersonMeets, DenySound, ReadStands, AddedFirst, At, Record, Seen, Known

LEMMA EditKeeps ==
    ASSUME DenyInv, Edit
    PROVE  DenyInv'
<1>1. DenyTypeOK /\ OwnWereAdded /\ Accounted
    BY DEF DenyInv
<1>2. PersonMeets
    BY DEF Edit, PersonMeets
<1>3. settings' \in Files
  <2>1. CASE \E r \in Rules \ settings.rules : settings' = File("json", settings.rules \cup {r})
      BY <1>1, <2>1, FilesAre, DenyTyped
  <2>2. CASE \E r \in settings.rules : settings' = File("json", settings.rules \ {r})
      BY <1>1, <2>2, FilesAre, DenyTyped
  <2>3. CASE settings' \in {File("none", {}), File("junk", {})}
      BY <2>3, FilesAre
  <2> QED BY <2>1, <2>2, <2>3 DEF Edit
<1>4. /\ theirs' = (theirs \cap settings'.rules) \cup (settings'.rules \ settings.rules)
      /\ loose' = loose \cap settings'.rules /\ owned' = owned
      /\ met' = met \cup {d \in Commands : Reads(d)}
      /\ deny' = deny /\ added' = added
    BY DEF Edit
<1>5. edits' \in 0..MaxEdits
    BY <1>1, DenyAssumption, DenyTyped DEF Edit
<1>6. settings'.rules \ theirs' \subseteq settings.rules \ theirs
    BY <1>4
<1>7. DenyTypeOK'
    BY <1>1, <1>3, <1>4, <1>5, DenyTyped DEF DenyTypeOK, DenyState
<1>8. OwnWereAdded'
    BY <1>1, <1>4, <1>6 DEF OwnWereAdded
<1>9. Pending' = Pending
    BY <1>4 DEF Pending, At, Owned, Record, Seen
<1>10. Accounted'
  <2> SUFFICES ASSUME NEW r \in settings'.rules \ theirs'
               PROVE  r \in owned.rules \/ r \in loose' \/ r \in Pending
      BY <1>4, <1>9 DEF Accounted, Pending
  <2> QED BY <1>1, <1>4, <1>6, AccountedIs
<1> QED BY <1>2, <1>7, <1>8, <1>10, PersonLeaves DEF DenyInv

LEMMA DeleteReceiptKeeps ==
    ASSUME DenyInv, DeleteReceipt
    PROVE  DenyInv'
<1>1. DenyTypeOK /\ OwnWereAdded /\ Accounted
    BY DEF DenyInv
<1>2. PersonMeets
    BY DEF DeleteReceipt, PersonMeets
<1>3. /\ settings' = settings /\ theirs' = theirs /\ deny' = deny /\ added' = added
      /\ owned' = NoReceipt
      /\ met' = met \cup {d \in Commands : Reads(d)}
      /\ loose' = loose \cup (owned.rules \cap (settings.rules \ theirs))
    BY DEF DeleteReceipt
<1>4. edits' \in 0..MaxEdits
    BY <1>1, DenyAssumption, DenyTyped DEF DeleteReceipt
<1>5. DenyTypeOK'
    BY <1>1, <1>3, <1>4, ReceiptsAre, DenyTyped DEF DenyTypeOK, DenyState, OwnWereAdded
<1>6. OwnWereAdded'
    BY <1>1, <1>3, ReceiptsAre DEF OwnWereAdded
<1>7. Pending' = Pending
    BY <1>3 DEF Pending, At, Owned, Record, Seen
<1>8. Accounted'
  <2> SUFFICES ASSUME NEW r \in settings.rules \ theirs
               PROVE  r \in loose' \/ r \in Pending
      BY <1>3, <1>7 DEF Accounted, Pending
  <2> QED BY <1>1, <1>3, AccountedIs
<1> QED BY <1>2, <1>5, <1>6, <1>8, PersonLeaves DEF DenyInv

-----------------------------------------------------------------------------
(* The rules of an agent: theorems *)

LEMMA DenyInitially == DenyInit => DenyInv
<1> SUFFICES ASSUME DenyInit PROVE DenyInv
    OBVIOUS
<1>1. /\ settings \in Files /\ theirs = settings.rules /\ owned = NoReceipt
      /\ edits = 0 /\ added = {} /\ met = {} /\ loose = {}
      /\ deny = [c \in Commands |-> Blank("idle")]
    BY DEF DenyInit
<1>2. Blank("idle") \in DenyState /\ Blank("idle").pc = "idle"
    BY FilesAre, ReceiptsAre DEF Blank, DenyState, DenyPCs
<1>3. DenyTypeOK
    BY <1>1, <1>2, ReceiptsAre, DenyTyped, DenyAssumption
<1>4. Accounted /\ OwnWereAdded
    BY <1>1, ReceiptsAre DEF Accounted, OwnWereAdded
<1>5. \A c \in Commands : At(c) = "idle"
    BY <1>1, <1>2 DEF At
<1> QED BY <1>3, <1>4, <1>5 DEF DenyInv, DenySound, ReadStands, AddedFirst, Known

LEMMA DenyCommandKeeps ==
    ASSUME DenyInv, NEW c \in Commands, DenyCommand(c) \/ KilledAt(c)
    PROVE  DenyStep(c)
BY ReadReceiptKeeps, ReadSettingsKeeps, WriteSettingsKeeps, WriteReceiptKeeps, RemoveReceiptKeeps,
   KilledAtKeeps DEF DenyCommand

LEMMA DenyInductive == DenyInv /\ [DenyNext]_denyVars => DenyInv'
<1> SUFFICES ASSUME DenyInv, [DenyNext]_denyVars PROVE DenyInv'
    OBVIOUS
<1>1. ASSUME NEW c \in Commands, DenyCommand(c) \/ KilledAt(c)
      PROVE  DenyInv'
  <2>1. DenyStep(c)
      BY <1>1, DenyCommandKeeps
  <2>2. ASSUME NEW d \in Commands
        PROVE  DenySound(d)'
      BY <2>1, OthersStand DEF DenyStep, DenyInv
  <2> QED BY <2>1, <2>2 DEF DenyStep, DenyInv
<1>2. CASE UNCHANGED denyVars
    BY <1>2 DEF denyVars, DenyInv, DenyTypeOK, Accounted, OwnWereAdded, DenySound, ReadStands,
                AddedFirst, At, Record, Seen, Owned, Known
<1> QED BY <1>1, <1>2, EditKeeps, DeleteReceiptKeeps DEF DenyNext

\* The invariant holds throughout (deploy.go), however commands, people and deaths
\* come between one another.
THEOREM DenyInvAlways == DenySpec => []DenyInv
BY DenyInitially, DenyInductive, PTL DEF DenySpec

\* Every variable of AgentDeny keeps its type.
THEOREM DenyTypes == DenySpec => []DenyTypeOK
<1>1. DenyInv => DenyTypeOK
    BY DEF DenyInv
<1> QED BY <1>1, DenyInvAlways, PTL

\* However often rules are installed, edited and refused, every rule of dva's is one
\* that a receipt names or that a command left when it was met, failed or was killed;
\* and a command that nobody met takes out no rule of a person's, unless dva had
\* added that rule once (deploy.go 187-193, 307-310).
THEOREM DenyKeepsForeignHolds == DenySpec => DenyKeepsForeign
<1>1. ASSUME DenyInv, DenyInv', [DenyNext]_denyVars
      PROVE  [/\ Accounted'
              /\ \A c \in Commands : deny'[c] # deny[c] /\ c \notin met =>
                   theirs \ settings'.rules \subseteq added]_denyVars
  <2>1. Accounted'
      BY <1>1 DEF DenyInv
  <2>2. SUFFICES ASSUME DenyNext, NEW c \in Commands, deny'[c] # deny[c], c \notin met
                 PROVE  theirs \ settings'.rules \subseteq added
      BY <1>1, <2>1
  <2>3. ASSUME Edit \/ DeleteReceipt
        PROVE  FALSE
      BY <2>2, <2>3 DEF Edit, DeleteReceipt
  <2>4. PICK d \in Commands : DenyCommand(d) \/ KilledAt(d)
      BY <2>2, <2>3 DEF DenyNext
  <2>5. d = c
      BY <1>1, <2>2, <2>4, DenyCommandKeeps DEF DenyStep, Unmet
  <2>6. theirs \subseteq settings.rules /\ loose \subseteq added
      BY <1>1, DenyTyped DEF DenyInv
  <2>7. CASE settings' = settings
      BY <2>6, <2>7
  <2>8. CASE settings' # settings
    <3>1. At(c) = "write" /\ Writes(c)
        BY <2>4, <2>5, <2>8 DEF DenyCommand, ReadReceipt, ReadSettings, WriteSettings, WriteReceipt,
                                RemoveReceipt, KilledAt
    <3>2. /\ c \in Removing => settings'.rules = settings.rules \ owned.rules
          /\ c \notin Removing => settings.rules \subseteq settings'.rules
        BY <1>1, <2>2, <2>6, <3>1, WriteAccounts
    <3> QED BY <1>1, <2>6, <3>2 DEF DenyInv, OwnWereAdded
  <2> QED BY <2>7, <2>8
<1> QED BY <1>1, DenyInvAlways, PTL DEF DenySpec, DenyKeepsForeign

-----------------------------------------------------------------------------
(* Environment files: the inductive invariant *)

Untouched == {"idle", "sweep", "make", "work", "validate", "wrap", "commit", "place"}
Decrypted == {"validate", "wrap", "commit", "place"}

\* What sops gave was in the file that it read, and what is put into place was
\* looked at before, but for seal.
FromInput(c) ==
    /\ bridge[c].pc \notin Over => Input(c) \in had[c]
    /\ bridge[c].pc \in Decrypted => bridge[c].seen \in had[c] \cup {Nothing}
    /\ bridge[c].pc \in Decrypted \ {"validate"} /\ c \notin Seals => bridge[c].seen \in Texts

PlacedRight(c) ==
    /\ bridge[c].pc \in Untouched => bridge[c].placed = None
    /\ bridge[c].pc \in {"flush", "tidy", "ok", "replaced"} =>
         bridge[c].placed \in had[c] \cap Texts \/ (c \in Seals /\ bridge[c].placed \in had[c]
               \cup {Nothing})
    /\ bridge[c].pc = "failed" => bridge[c].placed = None \/ c \in Seals

\* The temporary file that is put into place is one no more.
Tidied(c) == c \notin littered =>
    /\ bridge[c].pc \in {"idle", "sweep", "make", "ok", "failed", "replaced"} => OwnTemps(c) = {}
    /\ bridge[c].pc \in {"flush", "tidy"} => \A t \in OwnTemps(c) : t.kind # Kind(c)

\* What a command must not replace is not there, or came late.
MayReplace(c) ==
    /\ c \in Unseals \ Forced /\ bridge[c].pc \in Untouched \ {"idle"} => target = None \/ late[c]
    /\ c \in Reseals /\ bridge[c].pc \in Decrypted =>
         \/ source = bridge[c].seen \/ late[c]
         \/ bridge[c].pc = "validate" /\ bridge[c].seen = Nothing

BridgeSound(c) == FromInput(c) /\ PlacedRight(c) /\ Tidied(c) /\ MayReplace(c)

BridgeInv == BridgeTypeOK /\ \A c \in Cmds : BridgeSound(c)

-----------------------------------------------------------------------------
(* Environment files: steps *)

BridgeState == [pc : BridgePCs, seen : Contents \cup {None}, placed : Contents \cup {None}]

LEMMA BridgeTyped ==
    BridgeTypeOK <=>
        /\ bridge \in [Cmds -> BridgeState]
        /\ source \in Contents \cup {None} /\ target \in Contents \cup {None}
        /\ temps \subseteq Temps /\ changes \in 0..MaxChanges
        /\ had \in [Cmds -> SUBSET (Contents \cup {None})]
        /\ late \in [Cmds -> BOOLEAN] /\ littered \subseteq Cmds
BY DEF BridgeTypeOK, BridgeState

LEMMA GoesOn ==
    ASSUME BridgeTypeOK, NEW c \in Cmds, NEW pc \in BridgePCs, Goes(c, pc)
    PROVE  /\ bridge' \in [Cmds -> BridgeState]
           /\ bridge'[c].pc = pc /\ bridge'[c].seen = bridge[c].seen
           /\ bridge'[c].placed = bridge[c].placed
           /\ \A d \in Cmds \ {c} : bridge'[d] = bridge[d]
BY BridgeTyped DEF Goes, BridgeState

LEMMA KindsApart ==
    /\ \A c \in Seals : c \notin Unseals /\ c \notin Reseals
    /\ \A c \in Reseals : c \notin Unseals /\ c \notin Seals
    /\ Texts \subseteq Contents /\ None \notin Texts /\ Nothing \notin Texts
    /\ \A c \in Cmds : Kind(c) \in {"plain", "cipher"}
BY BridgeAssumption DEF Contents, Kind

LEMMA InputsTyped ==
    ASSUME BridgeTypeOK, NEW c \in Cmds
    PROVE  Input(c) \in Contents \cup {None} /\ Output(c) \in Contents \cup {None}
BY BridgeTyped DEF Input, Output

LEMMA FreshIs ==
    ASSUME BridgeTypeOK, NEW c \in Cmds, NEW k \in {"plain", "cipher"}, temps' = Fresh(c, k)
    PROVE  /\ temps' \subseteq Temps
           /\ \A d \in Cmds \ {c} : OwnTemps(d)' = OwnTemps(d)
<1> DEFINE new == [of |-> c, kind |-> k, old |-> FALSE]
<1>1. new \in Temps /\ new.of = c
    BY DEF Temps
<1>2. temps' = (temps \ {t \in OwnTemps(c) : t.kind = k}) \cup {new}
    BY DEF Fresh
<1> HIDE DEF new
<1>3. temps' \subseteq Temps
    BY <1>1, <1>2, BridgeTyped
<1>4. ASSUME NEW d \in Cmds \ {c} PROVE OwnTemps(d)' = OwnTemps(d)
    BY <1>1, <1>2 DEF OwnTemps
<1> QED BY <1>3, <1>4

\* Files that are removed, or that could not be.
LEMMA DiscardIs ==
    ASSUME BridgeTypeOK, NEW c \in Cmds, NEW gone, gone \subseteq OwnTemps(c), Discard(c, gone)
    PROVE  /\ temps' \subseteq Temps /\ littered' \subseteq Cmds
           /\ c \notin littered' => temps' = temps \ gone
           /\ littered \subseteq littered'
           /\ \A d \in Cmds \ {c} :
                OwnTemps(d)' = OwnTemps(d) /\ (d \in littered' <=> d \in littered)
<1>1. PICK left \in SUBSET gone :
        /\ temps' = (temps \ gone) \cup left
        /\ littered' = IF left = {} THEN littered ELSE littered \cup {c}
    BY DEF Discard
<1>2. temps \subseteq Temps /\ littered \subseteq Cmds /\ gone \subseteq temps
    BY BridgeTyped DEF OwnTemps
<1>3. ASSUME NEW d \in Cmds \ {c} PROVE OwnTemps(d)' = OwnTemps(d)
    BY <1>1, <1>2 DEF OwnTemps
<1> QED BY <1>1, <1>2, <1>3

\* What a step of another command, of a person or of the clock does to d at most.
Disturbed(d) ==
    /\ bridge'[d] = bridge[d]
    /\ had[d] \subseteq had'[d]
    /\ bridge[d].pc \notin Over => Input(d)' \in had'[d]
    /\ \A t \in OwnTemps(d)' : \E u \in OwnTemps(d) : t.kind = u.kind
    /\ d \in littered => d \in littered'
    /\ bridge[d].pc \notin Over => late'[d] \/ (Output(d)' = Output(d) /\ ~late[d])

LEMMA DisturbedKeeps ==
    ASSUME NEW d \in Cmds, BridgeSound(d), Disturbed(d)
    PROVE  BridgeSound(d)'
<1>1. FromInput(d)'
    BY DEF BridgeSound, FromInput, Disturbed, Decrypted, Over
<1>2. PlacedRight(d)'
    BY DEF BridgeSound, PlacedRight, Disturbed, Untouched
<1>3. Tidied(d)'
    BY DEF BridgeSound, Tidied, Disturbed, Kind
<1>4. MayReplace(d)'
  <2>1. CASE bridge[d].pc \in Over
      BY <2>1 DEF MayReplace, Disturbed, Over, Decrypted, Untouched
  <2>2. CASE late'[d]
      BY <2>2 DEF MayReplace
  <2>3. CASE Output(d)' = Output(d) /\ ~late[d]
    <3>1. d \in Unseals => target' = target
        BY <2>3 DEF Output
    <3>2. d \in Reseals => source' = source
        BY <2>3, KindsApart DEF Output
    <3> QED BY <2>3, <3>1, <3>2 DEF BridgeSound, MayReplace, Disturbed, Over, Decrypted, Untouched
  <2> QED BY <2>1, <2>2, <2>3 DEF Disturbed
<1> QED BY <1>1, <1>2, <1>3, <1>4 DEF BridgeSound

\* No file changes but temporary ones: the others are not disturbed.
LEMMA NotDisturbed ==
    ASSUME BridgeInv, NEW d \in Cmds, bridge'[d] = bridge[d], source' = source, target' = target,
           had'[d] = had[d], late'[d] = late[d], OwnTemps(d)' \subseteq OwnTemps(d),
           d \in littered => d \in littered'
    PROVE  Disturbed(d)
<1>1. FromInput(d) /\ late[d] \in BOOLEAN
    BY BridgeTyped DEF BridgeInv, BridgeSound
<1>2. Input(d)' = Input(d) /\ Output(d)' = Output(d)
    BY DEF Input, Output
<1> QED BY <1>1, <1>2 DEF Disturbed, FromInput

BridgeStep(c) == BridgeTypeOK' /\ BridgeSound(c)' /\ \A d \in Cmds \ {c} : Disturbed(d)

LEMMA LookAtKeeps ==
    ASSUME BridgeInv, NEW c \in Cmds, LookAt(c)
    PROVE  BridgeStep(c)
<1>1. BridgeTypeOK /\ BridgeSound(c) /\ bridge[c].pc = "idle"
    BY DEF BridgeInv, LookAt
<1>2. /\ had' = [had EXCEPT ![c] = {Input(c)}]
      /\ source' = source /\ target' = target /\ temps' = temps /\ changes' = changes
      /\ late' = late /\ littered' = littered
    BY DEF LookAt
<1>3. PICK pc \in {"sweep", "failed"} : Goes(c, pc) /\ (pc = "sweep" => Allowed(c))
    BY DEF LookAt
<1>4. /\ bridge' \in [Cmds -> BridgeState]
      /\ bridge'[c].pc = pc /\ bridge'[c].placed = bridge[c].placed
      /\ \A d \in Cmds \ {c} : bridge'[d] = bridge[d]
    BY <1>1, <1>3, GoesOn DEF BridgePCs
<1>5. /\ had' \in [Cmds -> SUBSET (Contents \cup {None})] /\ had'[c] = {Input(c)}
      /\ \A d \in Cmds \ {c} : had'[d] = had[d]
    BY <1>1, <1>2, InputsTyped, BridgeTyped
<1>6. BridgeTypeOK'
    BY <1>1, <1>2, <1>4, <1>5, BridgeTyped DEF BridgeTypeOK, BridgeState
<1>7. ASSUME NEW d \in Cmds \ {c} PROVE Disturbed(d)
    BY <1>2, <1>4, <1>5, NotDisturbed DEF OwnTemps
<1>8. BridgeSound(c)'
  <2>1. FromInput(c)'
      BY <1>2, <1>4, <1>5 DEF FromInput, Input, Decrypted, Over
  <2>2. PlacedRight(c)'
      BY <1>1, <1>4 DEF PlacedRight, BridgeSound, Untouched
  <2>3. Tidied(c)'
      BY <1>1, <1>2, <1>4 DEF Tidied, BridgeSound, OwnTemps
  <2>4. MayReplace(c)'
      BY <1>2, <1>3, <1>4 DEF MayReplace, Allowed, Decrypted, Untouched
  <2> QED BY <2>1, <2>2, <2>3, <2>4 DEF BridgeSound
<1> QED BY <1>6, <1>7, <1>8 DEF BridgeStep

\* A step in the course of c that touches only temporary files.
LEMMA StepsOn ==
    ASSUME BridgeInv, NEW c \in Cmds, NEW pc \in BridgePCs, Goes(c, pc),
           source' = source, target' = target, changes' = changes, had' = had, late' = late,
           temps' \subseteq Temps, littered' \subseteq Cmds, littered \subseteq littered',
           \A d \in Cmds \ {c} : OwnTemps(d)' \subseteq OwnTemps(d),
           \/ pc \in Untouched /\ bridge[c].pc \in Untouched \ {"idle"}
           \/ pc = "tidy" /\ bridge[c].pc = "flush"
           \/ pc \in {"ok", "replaced", "dead"}  /\ bridge[c].pc \in {"flush", "tidy"}
           \/ pc = "failed" /\ bridge[c].pc \in Untouched \cup {"flush"}
           \/ pc = "dead",
           pc = "failed" /\ bridge[c].pc = "flush" => c \in Seals,
           pc \in Decrypted => /\ bridge[c].pc \in Decrypted
                               /\ bridge[c].pc = "validate" => bridge[c].seen \in Texts,
           Tidied(c)'
    PROVE  BridgeStep(c)
<1>1. BridgeTypeOK /\ BridgeSound(c)
    BY DEF BridgeInv
<1>2. /\ bridge' \in [Cmds -> BridgeState]
      /\ bridge'[c].pc = pc /\ bridge'[c].seen = bridge[c].seen
      /\ bridge'[c].placed = bridge[c].placed
      /\ \A d \in Cmds \ {c} : bridge'[d] = bridge[d]
    BY <1>1, GoesOn
<1>3. BridgeTypeOK'
    BY <1>1, <1>2, BridgeTyped DEF BridgeTypeOK, BridgeState
<1>4. ASSUME NEW d \in Cmds \ {c} PROVE Disturbed(d)
    BY <1>2, NotDisturbed
<1>5. FromInput(c)'
    BY <1>1, <1>2 DEF FromInput, BridgeSound, Input, Over, Decrypted, Untouched
<1>6. PlacedRight(c)'
    BY <1>1, <1>2 DEF PlacedRight, BridgeSound, Untouched
<1>7. MayReplace(c)'
    BY <1>1, <1>2, KindsApart DEF MayReplace, BridgeSound, Over, Decrypted, Untouched
<1> QED BY <1>3, <1>4, <1>5, <1>6, <1>7 DEF BridgeStep, BridgeSound

LEMMA SweepKeeps ==
    ASSUME BridgeInv, NEW c \in Cmds, Sweep(c)
    PROVE  BridgeStep(c)
<1>1. BridgeTypeOK /\ BridgeSound(c) /\ bridge[c].pc = "sweep" /\ Goes(c, "make")
    BY DEF BridgeInv, Sweep
<1>2. temps' \subseteq temps /\ littered' = littered
    BY DEF Sweep
<1>3. \A d \in Cmds : OwnTemps(d)' \subseteq OwnTemps(d)
    BY <1>2 DEF OwnTemps
<1>4. temps' \subseteq Temps /\ littered' \subseteq Cmds
    BY <1>1, <1>2, BridgeTyped
<1>5. Tidied(c)'
  <2>1. bridge'[c].pc = "make"
      BY <1>1, GoesOn DEF BridgePCs
  <2> QED BY <1>1, <1>2, <1>3, <2>1 DEF Tidied, BridgeSound
<1> HIDE DEF BridgeInv
<1> QED BY <1>1, <1>2, <1>3, <1>4, <1>5, StepsOn DEF Sweep, Untouched, Decrypted, BridgePCs

LEMMA MakeTempKeeps ==
    ASSUME BridgeInv, NEW c \in Cmds, MakeTemp(c)
    PROVE  BridgeStep(c)
<1>1. BridgeTypeOK /\ bridge[c].pc = "make" /\ Goes(c, "work")
    BY DEF BridgeInv, MakeTemp
<1>2. /\ temps' \subseteq Temps /\ littered' = littered /\ littered \subseteq Cmds
      /\ \A d \in Cmds \ {c} : OwnTemps(d)' = OwnTemps(d)
    BY <1>1, FreshIs, BridgeTyped DEF MakeTemp
<1>3. Tidied(c)'
  <2>1. bridge'[c].pc = "work"
      BY <1>1, GoesOn DEF BridgePCs
  <2> QED BY <2>1 DEF Tidied
<1> HIDE DEF BridgeInv
<1> QED BY <1>1, <1>2, <1>3, StepsOn DEF MakeTemp, Untouched, Decrypted, BridgePCs

LEMMA ValidateKeeps ==
    ASSUME BridgeInv, NEW c \in Cmds, Validate(c)
    PROVE  BridgeStep(c)
<1>1. BridgeTypeOK /\ bridge[c].pc = "validate" /\ bridge[c].seen \in Texts
    BY DEF BridgeInv, Validate, Valid
<1>2. PICK pc \in {"wrap", "commit"} : Goes(c, pc)
    BY DEF Validate
<1>3. temps' = temps /\ littered' = littered /\ temps \subseteq Temps /\ littered \subseteq Cmds
    BY <1>1, BridgeTyped DEF Validate
<1>4. Tidied(c)'
  <2>1. bridge'[c].pc = pc
      BY <1>1, <1>2, GoesOn DEF BridgePCs
  <2> QED BY <1>2, <2>1 DEF Tidied
<1>5. \A d \in Cmds : OwnTemps(d)' \subseteq OwnTemps(d)
    BY <1>3 DEF OwnTemps
<1> HIDE DEF BridgeInv
<1> QED BY <1>1, <1>2, <1>3, <1>4, <1>5, StepsOn DEF Validate, Untouched, Decrypted, BridgePCs

LEMMA WrapKeeps ==
    ASSUME BridgeInv, NEW c \in Cmds, Wrap(c)
    PROVE  BridgeStep(c)
<1>1. BridgeTypeOK /\ bridge[c].pc = "wrap" /\ Goes(c, "commit")
    BY DEF BridgeInv, Wrap
<1>2. /\ temps' \subseteq Temps /\ littered' = littered /\ littered \subseteq Cmds
      /\ \A d \in Cmds \ {c} : OwnTemps(d)' = OwnTemps(d)
    BY <1>1, FreshIs, BridgeTyped DEF Wrap
<1>3. Tidied(c)'
  <2>1. bridge'[c].pc = "commit"
      BY <1>1, GoesOn DEF BridgePCs
  <2> QED BY <2>1 DEF Tidied
<1> HIDE DEF BridgeInv
<1> QED BY <1>1, <1>2, <1>3, StepsOn DEF Wrap, Untouched, Decrypted, BridgePCs

LEMMA CommitTempKeeps ==
    ASSUME BridgeInv, NEW c \in Cmds, CommitTemp(c)
    PROVE  BridgeStep(c)
<1>1. BridgeTypeOK /\ bridge[c].pc = "commit" /\ Goes(c, "place")
    BY DEF BridgeInv, CommitTemp
<1>2. temps' = temps /\ littered' = littered /\ temps \subseteq Temps /\ littered \subseteq Cmds
    BY <1>1, BridgeTyped DEF CommitTemp
<1>3. Tidied(c)'
  <2>1. bridge'[c].pc = "place"
      BY <1>1, GoesOn DEF BridgePCs
  <2> QED BY <2>1 DEF Tidied
<1>4. \A d \in Cmds : OwnTemps(d)' \subseteq OwnTemps(d)
    BY <1>2 DEF OwnTemps
<1> HIDE DEF BridgeInv
<1> QED BY <1>1, <1>2, <1>3, <1>4, StepsOn DEF CommitTemp, Untouched, Decrypted, BridgePCs

LEMMA StopKeeps ==
    ASSUME BridgeInv, NEW c \in Cmds, Stop(c)
    PROVE  BridgeStep(c)
<1>1. BridgeTypeOK /\ bridge[c].pc \in Untouched \ {"idle"} /\ Goes(c, "failed")
        /\ Discard(c, OwnTemps(c))
    BY DEF BridgeInv, Stop, Aborts, Untouched
<1>2. /\ temps' \subseteq Temps /\ littered' \subseteq Cmds /\ littered \subseteq littered'
      /\ c \notin littered' => temps' = temps \ OwnTemps(c)
      /\ \A d \in Cmds \ {c} : OwnTemps(d)' = OwnTemps(d)
    BY <1>1, DiscardIs
<1>3. Tidied(c)'
  <2>1. bridge'[c].pc = "failed"
      BY <1>1, GoesOn DEF BridgePCs
  <2>2. c \notin littered' => OwnTemps(c)' = {}
      BY <1>2 DEF OwnTemps
  <2> QED BY <2>1, <2>2 DEF Tidied
<1> HIDE DEF BridgeInv
<1> QED BY <1>1, <1>2, <1>3, StepsOn DEF Stop, Untouched, Decrypted, BridgePCs

LEMMA FlushKeeps ==
    ASSUME BridgeInv, NEW c \in Cmds, Flush(c)
    PROVE  BridgeStep(c)
<1>1. BridgeTypeOK /\ bridge[c].pc = "flush" /\ Tidied(c)
    BY DEF BridgeInv, BridgeSound, Flush
<1>2. PICK pc \in {"tidy", "failed", "replaced"} : Goes(c, pc) /\ (pc = "failed" => c \in Seals)
    BY DEF Flush
<1>3. bridge'[c].pc = pc
    BY <1>1, <1>2, GoesOn DEF BridgePCs
<1>4. IF pc = "tidy" THEN temps' = temps /\ littered' = littered ELSE Discard(c, Plaintext(c))
    BY <1>3 DEF Flush
<1>5. Plaintext(c) \subseteq OwnTemps(c)
    BY DEF Plaintext
<1>6. /\ temps' \subseteq Temps /\ littered' \subseteq Cmds /\ littered \subseteq littered'
      /\ pc # "tidy" /\ c \notin littered' => temps' = temps \ Plaintext(c)
      /\ \A d \in Cmds \ {c} : OwnTemps(d)' = OwnTemps(d)
  <2>1. CASE pc = "tidy"
      BY <1>1, <1>4, <2>1, BridgeTyped DEF OwnTemps
  <2>2. CASE pc # "tidy"
      BY <1>1, <1>4, <1>5, <2>2, DiscardIs
  <2> QED BY <2>1, <2>2
<1>7. Tidied(c)'
  <2>1. CASE pc = "tidy"
      BY <1>1, <1>3, <1>4, <2>1 DEF Tidied, OwnTemps, Kind
  <2>2. CASE pc # "tidy"
    <3>1. c \notin littered' => OwnTemps(c)' = {}
        BY <1>1, <1>6, <2>2 DEF Tidied, OwnTemps, Plaintext
    <3> QED BY <1>2, <1>3, <2>2, <3>1 DEF Tidied
  <2> QED BY <2>1, <2>2
<1> HIDE DEF BridgeInv
<1> QED BY <1>1, <1>2, <1>6, <1>7, StepsOn DEF Flush, Untouched, Decrypted, BridgePCs

LEMMA TidyKeeps ==
    ASSUME BridgeInv, NEW c \in Cmds, Tidy(c)
    PROVE  BridgeStep(c)
<1>1. BridgeTypeOK /\ bridge[c].pc = "tidy" /\ Tidied(c) /\ Goes(c, "ok")
        /\ Discard(c, Plaintext(c))
    BY DEF BridgeInv, BridgeSound, Tidy
<1>2. Plaintext(c) \subseteq OwnTemps(c)
    BY DEF Plaintext
<1>3. /\ temps' \subseteq Temps /\ littered' \subseteq Cmds /\ littered \subseteq littered'
      /\ c \notin littered' => temps' = temps \ Plaintext(c)
      /\ \A d \in Cmds \ {c} : OwnTemps(d)' = OwnTemps(d)
    BY <1>1, <1>2, DiscardIs
<1>4. Tidied(c)'
  <2>1. bridge'[c].pc = "ok"
      BY <1>1, GoesOn DEF BridgePCs
  <2>2. c \notin littered' => OwnTemps(c)' = {}
      BY <1>1, <1>3 DEF Tidied, OwnTemps, Plaintext
  <2> QED BY <2>1, <2>2 DEF Tidied
<1> HIDE DEF BridgeInv
<1> QED BY <1>1, <1>3, <1>4, StepsOn DEF Tidy, Untouched, Decrypted, BridgePCs

LEMMA KilledKeeps ==
    ASSUME BridgeInv, NEW c \in Cmds, Killed(c)
    PROVE  BridgeStep(c)
<1>1. BridgeTypeOK /\ Goes(c, "dead")
    BY DEF BridgeInv, Killed
<1>2. temps' = temps /\ littered' = littered /\ temps \subseteq Temps /\ littered \subseteq Cmds
    BY <1>1, BridgeTyped DEF Killed
<1>3. Tidied(c)'
  <2>1. bridge'[c].pc = "dead"
      BY <1>1, GoesOn DEF BridgePCs
  <2> QED BY <2>1 DEF Tidied
<1>4. \A d \in Cmds : OwnTemps(d)' \subseteq OwnTemps(d)
    BY <1>2 DEF OwnTemps
<1> HIDE DEF BridgeInv
<1> QED BY <1>1, <1>2, <1>3, <1>4, StepsOn DEF Killed, Untouched, Decrypted, BridgePCs

LEMMA SopsKeeps ==
    ASSUME BridgeInv, NEW c \in Cmds, Sops(c)
    PROVE  BridgeStep(c)
<1>1. BridgeTypeOK /\ BridgeSound(c) /\ bridge[c].pc = "work"
    BY DEF BridgeInv, Sops
<1>2. PICK text \in {Input(c), Nothing} :
        bridge' = [bridge EXCEPT ![c].seen = text,
              ![c].pc = IF c \in Seals THEN "commit" ELSE "validate"]
    BY DEF Sops
<1>3. /\ source' = source /\ target' = target /\ changes' = changes /\ had' = had
        /\ littered' = littered
      /\ late' = IF c \in Reseals THEN [late EXCEPT ![c] = FALSE] ELSE late
    BY DEF Sops
<1>4. text \in Contents \cup {None}
    BY <1>1, InputsTyped DEF Contents
<1>5. /\ bridge' \in [Cmds -> BridgeState]
      /\ bridge'[c].pc = IF c \in Seals THEN "commit" ELSE "validate"
      /\ bridge'[c].seen = text /\ bridge'[c].placed = bridge[c].placed
      /\ \A d \in Cmds \ {c} : bridge'[d] = bridge[d]
    BY <1>1, <1>2, <1>4, BridgeTyped DEF BridgeState, BridgePCs
<1>6. temps' \subseteq Temps /\ \A d \in Cmds \ {c} : OwnTemps(d)' = OwnTemps(d)
  <2>1. CASE OwnTemps(c) = {}
      BY <1>1, <2>1, BridgeTyped DEF Sops, OwnTemps
  <2>2. CASE OwnTemps(c) # {}
      BY <1>1, <2>2, FreshIs DEF Sops
  <2> QED BY <2>1, <2>2
<1>7. late' \in [Cmds -> BOOLEAN] /\ \A d \in Cmds \ {c} : late'[d] = late[d]
    BY <1>1, <1>3, BridgeTyped
<1>8. BridgeTypeOK'
    BY <1>1, <1>3, <1>5, <1>6, <1>7, BridgeTyped DEF BridgeTypeOK, BridgeState
<1>9. ASSUME NEW d \in Cmds \ {c} PROVE Disturbed(d)
    BY <1>3, <1>5, <1>6, <1>7, NotDisturbed
<1>10. Input(c) \in had[c] /\ Input(c)' = Input(c)
    BY <1>1, <1>3 DEF BridgeSound, FromInput, Over, Input
<1>11. FromInput(c)'
    BY <1>2, <1>3, <1>5, <1>10 DEF FromInput, Decrypted, Over
<1>12. PlacedRight(c)'
    BY <1>1, <1>5 DEF BridgeSound, PlacedRight, Untouched
<1>13. Tidied(c)'
    BY <1>5 DEF Tidied
<1>14. MayReplace(c)'
  <2>1. CASE c \in Unseals
    <3>1. late'[c] = late[c] /\ c \notin Reseals
        BY <1>3, <2>1, KindsApart
    <3> QED BY <1>1, <1>3, <3>1 DEF BridgeSound, MayReplace, Untouched
  <2>2. CASE c \in Reseals
    <3>1. c \notin Unseals /\ c \notin Seals /\ Input(c) = source
        BY <2>2, KindsApart DEF Input
    <3>2. source = text \/ text = Nothing
        BY <3>1
    <3> QED BY <1>3, <1>5, <3>1, <3>2 DEF MayReplace
  <2>3. CASE c \notin Unseals /\ c \notin Reseals
      BY <2>3 DEF MayReplace
  <2> QED BY <2>1, <2>2, <2>3
<1> QED BY <1>8, <1>9, <1>11, <1>12, <1>13, <1>14 DEF BridgeStep, BridgeSound

\* What happens to d when one of the two files changes, by somebody else.
LEMMA ChangeDisturbs ==
    ASSUME BridgeInv, NEW d \in Cmds, bridge'[d] = bridge[d],
           had'[d] = IF bridge[d].pc \notin Over THEN had[d] \cup {Input(d)'} ELSE had[d],
           late'[d] = (late[d] \/ (bridge[d].pc \notin Over /\ Output(d)' # Output(d))),
           \A t \in OwnTemps(d)' : \E u \in OwnTemps(d) : t.kind = u.kind,
           d \in littered => d \in littered'
    PROVE  Disturbed(d)
BY DEF Disturbed

LEMMA PlaceKeeps ==
    ASSUME BridgeInv, NEW c \in Cmds, Place(c)
    PROVE  BridgeStep(c)
<1> DEFINE gone == {t \in OwnTemps(c) : t.kind = Kind(c)}
<1>1. BridgeTypeOK /\ BridgeSound(c) /\ bridge[c].pc = "place" /\ bridge[c] \in BridgeState
    BY BridgeTyped DEF BridgeInv, Place
<1>2. bridge' = [bridge EXCEPT ![c].pc = "flush", ![c].placed = bridge[c].seen]
    BY DEF Place
<1>3. /\ bridge' \in [Cmds -> BridgeState]
      /\ bridge'[c].pc = "flush" /\ bridge'[c].placed = bridge[c].seen
      /\ \A d \in Cmds \ {c} : bridge'[d] = bridge[d]
    BY <1>1, <1>2, BridgeTyped DEF BridgeState, BridgePCs
<1>4. /\ source' \in Contents \cup {None} /\ target' \in Contents \cup {None} /\ changes' = changes
    BY <1>1, BridgeTyped DEF Place, BridgeState
<1>5. IF c \in Seals THEN Discard(c, gone) ELSE temps' = temps \ gone /\ littered' = littered
    BY DEF Place
<1>6. /\ temps' \subseteq Temps /\ littered' \subseteq Cmds /\ littered \subseteq littered'
      /\ c \notin littered' => temps' = temps \ gone
      /\ \A d \in Cmds \ {c} : OwnTemps(d)' = OwnTemps(d)
  <2>1. gone \subseteq OwnTemps(c)
      OBVIOUS
  <2> HIDE DEF gone
  <2>2. CASE c \in Seals
      BY <1>1, <1>5, <2>1, <2>2, DiscardIs
  <2>3. CASE c \notin Seals
      BY <1>1, <1>5, <2>1, <2>3, BridgeTyped DEF OwnTemps
  <2> QED BY <2>2, <2>3
<1>7. /\ had' = [d \in Cmds |-> IF bridge[d].pc \notin Over
                                 THEN had[d] \cup {Input(d)'} ELSE had[d]]
      /\ late' = [d \in Cmds |-> late[d] \/ (d # c /\ bridge[d].pc \notin Over
            /\ Output(d)' # Output(d))]
    BY DEF Place
<1>8. had' \in [Cmds -> SUBSET (Contents \cup {None})] /\ late' \in [Cmds -> BOOLEAN]
  <2>1. \A d \in Cmds : Input(d)' \in Contents \cup {None}
      BY <1>4 DEF Input
  <2>2. \A d \in Cmds : had[d] \subseteq Contents \cup {None}
      BY <1>1, BridgeTyped
  <2>3. \A d \in Cmds : (late[d] \/ (d # c /\ bridge[d].pc \notin Over
          /\ Output(d)' # Output(d))) \in BOOLEAN
      BY <1>1, BridgeTyped
  <2> QED BY <1>7, <2>1, <2>2, <2>3
<1>9. BridgeTypeOK'
    BY <1>1, <1>3, <1>4, <1>6, <1>8, BridgeTyped DEF BridgeTypeOK, BridgeState
<1>10. ASSUME NEW d \in Cmds \ {c} PROVE Disturbed(d)
  <2>1. bridge'[d] = bridge[d]
      BY <1>3
  <2>2. had'[d] = IF bridge[d].pc \notin Over THEN had[d] \cup {Input(d)'} ELSE had[d]
      BY <1>7
  <2>3. late'[d] = (late[d] \/ (bridge[d].pc \notin Over /\ Output(d)' # Output(d)))
      BY <1>7
  <2>4. \A t \in OwnTemps(d)' : \E u \in OwnTemps(d) : t.kind = u.kind
      BY <1>6
  <2> QED BY <1>6, <2>1, <2>2, <2>3, <2>4, ChangeDisturbs
<1>11. had[c] \subseteq had'[c] /\ Input(c)' \in had'[c]
    BY <1>1, <1>7 DEF Over
<1>12. FromInput(c)'
    BY <1>3, <1>11 DEF FromInput, Decrypted
<1>13. PlacedRight(c)'
    BY <1>1, <1>3, <1>11, KindsApart DEF PlacedRight, BridgeSound, FromInput, Untouched, Decrypted
<1>14. Tidied(c)'
    BY <1>3, <1>6 DEF Tidied, OwnTemps, Kind
<1>15. MayReplace(c)'
    BY <1>3 DEF MayReplace, Untouched, Decrypted
<1> QED BY <1>9, <1>10, <1>12, <1>13, <1>14, <1>15 DEF BridgeStep, BridgeSound

LEMMA ChangeKeeps ==
    ASSUME BridgeInv, Change
    PROVE  BridgeInv'
<1>1. BridgeTypeOK /\ bridge' = bridge /\ temps' = temps /\ littered' = littered
    BY DEF BridgeInv, Change
<1>2. changes' \in 0..MaxChanges
    BY <1>1, BridgeTyped, BridgeAssumption DEF Change
<1>3. source' \in Contents \cup {None} /\ target' \in Contents \cup {None}
    BY <1>1, BridgeTyped DEF Change, Contents
<1>4. /\ had' = [c \in Cmds |-> IF bridge[c].pc \notin Over
                                 THEN had[c] \cup {Input(c)'} ELSE had[c]]
      /\ late' = [c \in Cmds |-> late[c] \/ (bridge[c].pc \notin Over /\ Output(c)' # Output(c))]
    BY DEF Change
<1>5. had' \in [Cmds -> SUBSET (Contents \cup {None})] /\ late' \in [Cmds -> BOOLEAN]
  <2>1. \A d \in Cmds : Input(d)' \in Contents \cup {None}
      BY <1>3 DEF Input
  <2>2. \A d \in Cmds : had[d] \subseteq Contents \cup {None}
      BY <1>1, BridgeTyped
  <2>3. \A d \in Cmds : (late[d] \/ (bridge[d].pc \notin Over
          /\ Output(d)' # Output(d))) \in BOOLEAN
      BY <1>1, BridgeTyped
  <2> QED BY <1>4, <2>1, <2>2, <2>3
<1>6. BridgeTypeOK'
    BY <1>1, <1>2, <1>3, <1>5, BridgeTyped DEF BridgeTypeOK, BridgeState
<1>7. ASSUME NEW d \in Cmds PROVE Disturbed(d)
  <2>1. had'[d] = IF bridge[d].pc \notin Over THEN had[d] \cup {Input(d)'} ELSE had[d]
      BY <1>4
  <2>2. late'[d] = (late[d] \/ (bridge[d].pc \notin Over /\ Output(d)' # Output(d)))
      BY <1>4
  <2>3. \A t \in OwnTemps(d)' : \E u \in OwnTemps(d) : t.kind = u.kind
      BY <1>1 DEF OwnTemps
  <2> QED BY <1>1, <2>1, <2>2, <2>3, ChangeDisturbs
<1>8. ASSUME NEW d \in Cmds PROVE BridgeSound(d)'
    BY <1>7, DisturbedKeeps DEF BridgeInv
<1> QED BY <1>6, <1>8 DEF BridgeInv

LEMMA HourKeeps ==
    ASSUME BridgeInv, Hour
    PROVE  BridgeInv'
<1>1. /\ BridgeTypeOK /\ bridge' = bridge /\ littered' = littered /\ changes' = changes
      /\ source' = source /\ target' = target /\ had' = had /\ late' = late
      /\ temps' = {[t EXCEPT !.old = TRUE] : t \in temps}
    BY DEF BridgeInv, Hour
<1>2. \A t \in temps : /\ [t EXCEPT !.old = TRUE] \in Temps
                       /\ [t EXCEPT !.old = TRUE].of = t.of /\ [t EXCEPT !.old = TRUE].kind = t.kind
    BY <1>1, BridgeTyped DEF Temps
<1>3. BridgeTypeOK'
    BY <1>1, <1>2, BridgeTyped DEF BridgeTypeOK, BridgeState
<1>4. ASSUME NEW d \in Cmds PROVE BridgeSound(d)'
  <2>1. ASSUME NEW t \in OwnTemps(d)' PROVE \E u \in OwnTemps(d) : t.kind = u.kind
    <3>1. t.of = d /\ t \in {[u EXCEPT !.old = TRUE] : u \in temps}
        BY <1>1 DEF OwnTemps
    <3>2. PICK u \in temps : t = [u EXCEPT !.old = TRUE]
        BY <3>1
    <3>3. u.of = d /\ u.kind = t.kind
        BY <1>2, <3>1, <3>2
    <3> QED BY <3>3 DEF OwnTemps
  <2>2. Input(d)' = Input(d) /\ Output(d)' = Output(d) /\ late[d] \in BOOLEAN
      BY <1>1, BridgeTyped DEF Input, Output
  <2>3. BridgeSound(d)
      BY DEF BridgeInv
  <2>4. Disturbed(d)
      BY <1>1, <2>1, <2>2, <2>3 DEF Disturbed, BridgeSound, FromInput
  <2> QED BY <2>3, <2>4, DisturbedKeeps
<1> QED BY <1>3, <1>4 DEF BridgeInv

-----------------------------------------------------------------------------
(* Environment files: theorems *)

LEMMA BridgeInitially == BridgeInit => BridgeInv
<1> SUFFICES ASSUME BridgeInit PROVE BridgeInv
    OBVIOUS
<1>1. BridgeTypeOK
    BY BridgeAssumption DEF BridgeInit, BridgeTypeOK, BridgePCs, Contents
<1>2. ASSUME NEW c \in Cmds PROVE BridgeSound(c)
  <2>1. bridge[c].pc = "idle" /\ bridge[c].placed = None /\ OwnTemps(c) = {}
      BY DEF BridgeInit, OwnTemps
  <2> QED BY <2>1 DEF BridgeSound, FromInput, PlacedRight, Tidied, MayReplace, Untouched, Decrypted,
          Over
<1> QED BY <1>1, <1>2 DEF BridgeInv

LEMMA BridgeCommandKeeps ==
    ASSUME BridgeInv, NEW c \in Cmds, BridgeCommand(c) \/ Killed(c)
    PROVE  BridgeStep(c)
BY LookAtKeeps, SweepKeeps, MakeTempKeeps, SopsKeeps, ValidateKeeps, WrapKeeps, CommitTempKeeps,
   PlaceKeeps, FlushKeeps, TidyKeeps, StopKeeps, KilledKeeps DEF BridgeCommand

LEMMA BridgeInductive == BridgeInv /\ [BridgeNext]_bridgeVars => BridgeInv'
<1> SUFFICES ASSUME BridgeInv, [BridgeNext]_bridgeVars PROVE BridgeInv'
    OBVIOUS
<1>1. ASSUME NEW c \in Cmds, BridgeCommand(c) \/ Killed(c)
      PROVE  BridgeInv'
  <2>1. BridgeStep(c)
      BY <1>1, BridgeCommandKeeps
  <2>2. ASSUME NEW d \in Cmds PROVE BridgeSound(d)'
      BY <2>1, DisturbedKeeps DEF BridgeStep, BridgeInv
  <2> QED BY <2>1, <2>2 DEF BridgeStep, BridgeInv
<1>2. CASE UNCHANGED bridgeVars
  <2>1. BridgeTypeOK'
      BY <1>2 DEF bridgeVars, BridgeInv, BridgeTypeOK
  <2>2. ASSUME NEW d \in Cmds PROVE BridgeSound(d)'
      BY <1>2 DEF bridgeVars, BridgeInv, BridgeSound, FromInput, PlacedRight, Tidied, MayReplace,
                  Input, OwnTemps, Kind, Untouched, Decrypted, Over
  <2> QED BY <2>1, <2>2 DEF BridgeInv
<1> QED BY <1>1, <1>2, ChangeKeeps, HourKeeps DEF BridgeNext

\* The invariant holds throughout, however commands, people and the clock come
\* between one another (config_env.go, config_env_reseal.go).
THEOREM BridgeInvAlways == BridgeSpec => []BridgeInv
BY BridgeInitially, BridgeInductive, PTL DEF BridgeSpec

\* Every variable of EnvBridge keeps its type.
THEOREM BridgeTypes == BridgeSpec => []BridgeTypeOK
<1>1. BridgeInv => BridgeTypeOK
    BY DEF BridgeInv
<1> QED BY <1>1, BridgeInvAlways, PTL

\* What unseal and reseal report done is a valid text that their source held while
\* they ran, what they report failed they left alone, and only who was killed or
\* could not remove it leaves a temporary file (config_env.go 60-62).
THEOREM EnvTruthfulHolds == BridgeSpec => []EnvTruthful
<1>1. ASSUME BridgeInv PROVE EnvTruthful
  <2> SUFFICES ASSUME NEW c \in Cmds
               PROVE  /\ bridge[c].pc \in {"ok", "replaced"} =>
                           bridge[c].placed \in had[c] \cap Texts \/ (c \in Seals
                                 /\ bridge[c].placed \in had[c] \cup {Nothing})
                      /\ bridge[c].pc = "failed" => bridge[c].placed = None \/ c \in Seals
                      /\ bridge[c].pc \in Over \ {"dead"} /\ c \notin littered => OwnTemps(c) = {}
      BY DEF EnvTruthful
  <2>1. PlacedRight(c) /\ Tidied(c)
      BY <1>1 DEF BridgeInv, BridgeSound
  <2> QED BY <2>1 DEF PlacedRight, Tidied, Over
<1> QED BY <1>1, BridgeInvAlways, PTL

\* A file is put into place by Place only.
LEMMA PlacesOnly ==
    ASSUME BridgeInv, BridgeNext, NEW c \in Cmds, bridge'[c].placed # bridge[c].placed
    PROVE  Place(c)
<1>1. BridgeTypeOK
    BY DEF BridgeInv
<1>2. ~(Change \/ Hour)
    BY DEF Change, Hour
<1>3. PICK d \in Cmds : BridgeCommand(d) \/ Killed(d)
    BY <1>2 DEF BridgeNext
<1>4. d = c
  <2>1. BridgeStep(d)
      BY <1>3, BridgeCommandKeeps
  <2> QED BY <2>1 DEF BridgeStep, Disturbed
<1>5. ASSUME NEW pc \in BridgePCs, Goes(c, pc) PROVE FALSE
    BY <1>1, <1>5, GoesOn
<1>6. ~Sops(c)
  <2> SUFFICES ASSUME Sops(c) PROVE FALSE
      OBVIOUS
  <2>1. PICK text \in {Input(c), Nothing} :
          bridge' = [bridge EXCEPT ![c].seen = text,
                ![c].pc = IF c \in Seals THEN "commit" ELSE "validate"]
      BY DEF Sops
  <2> QED BY <1>1, <2>1, BridgeTyped DEF BridgeState
<1> QED BY <1>3, <1>4, <1>5, <1>6 DEF BridgeCommand, BridgePCs, LookAt, Sweep, MakeTemp, Validate,
        Wrap,
             CommitTemp, Flush, Tidy, Stop, Aborts, Killed

\* No command replaces what it may not: seal never an existing source, unseal
\* without --force and reseal only what came after they looked
\* (config_env_safewrite.go 452-466).
THEOREM EnvKeepsOthersHolds == BridgeSpec => EnvKeepsOthers
<1>1. ASSUME BridgeInv, [BridgeNext]_bridgeVars
      PROVE  [\A c \in Cmds : bridge'[c].placed # bridge[c].placed =>
                /\ c \in Seals => source = None
                /\ c \in Unseals \ Forced => target = None \/ late[c]
                /\ c \in Reseals => source = bridge[c].seen \/ late[c]]_bridgeVars
  <2> SUFFICES ASSUME BridgeNext, NEW c \in Cmds, bridge'[c].placed # bridge[c].placed
               PROVE  /\ c \in Seals => source = None
                      /\ c \in Unseals \ Forced => target = None \/ late[c]
                      /\ c \in Reseals => source = bridge[c].seen \/ late[c]
      BY <1>1
  <2>1. Place(c)
      BY <1>1, PlacesOnly
  <2>2. bridge[c].pc = "place" /\ (c \in Seals => source = None)
      BY <2>1 DEF Place, MayPlace
  <2>3. MayReplace(c)
      BY <1>1 DEF BridgeInv, BridgeSound
  <2> QED BY <2>2, <2>3 DEF MayReplace, Untouched, Decrypted
<1> QED BY <1>1, BridgeInvAlways, PTL DEF BridgeSpec, EnvKeepsOthers

-----------------------------------------------------------------------------
(* Services: the inductive invariant *)

\* A command that no other overlapped is alone at work.
AloneIs == \A d \in Dvas : Active(d) /\ dva[d].alone => \A e \in Dvas \ {d} : ~Active(e)

\* A PID that was written somewhere is one of a service that was started.
Started(p) == p \in Pids => leader[p] # "none"
WrittenStarted == Started(file) /\ \A p \in clean : Started(p)

\* All of a group is signalled with its leader, or the leader left it.
Groups ==
    \A p \in Pids :
        /\ leader[p] = "ending" => member[p] # "up"
        /\ leader[p] \in {"gone", "foreign", "foreignGroup"} /\ member[p] = "up" => p \in leftAlone

\* While a service whose start nobody overlapped is to be kept, the commands know of
\* no other, and none is about to start one, or to write or to unlink the PID file.
Follows(d, p) ==
    /\ dva[d].pc \notin {"start", "open", "write", "unlink"}
    /\ dva[d].pc \in {"check", "kill", "wait", "upCheck"} => dva[d].read = p
Tracked == \A p \in clean : Kept(p) => file = p /\ \A d \in Dvas : Follows(d, p)

\* What a command was to halt is halted when it goes on.
HaltDone(p) == ~Kept(p) /\ (member[p] = "up" => p \in leftAlone)
Chases(d) ==
    /\ dva[d].pc = "ended" => dva[d].verb = "up"
    /\ dva[d].pc \in {"ended", "read"} => dva[d].halted = NoPid
    /\ dva[d].pc \in Starting => dva[d].verb \in {"up", "restart"}
    /\ dva[d].pc \in {"check", "kill", "wait"} => dva[d].read \in Pids
          /\ dva[d].halted = dva[d].read
    /\ dva[d].pc \in Starting \cup {"unlink"} /\ dva[d].halted \in Pids => HaltDone(dva[d].halted)
    /\ Started(dva[d].read) /\ Started(dva[d].halted)

\* The PID it is to save is that of its own service.
Saves(d) ==
    /\ dva[d].pc \in {"open", "write"} => dva[d].pid \in Pids /\ leader[dva[d].pid] # "none"
    /\ dva[d].pc = "write" /\ dva[d].alone => dva[d].linked

\* What a restart finds running when it has halted the old service came since.
FindsFresh(d) == dva[d].verb = "restart" =>
    /\ dva[d].pc \in {"check", "kill", "wait"} /\ file \in Pids => file \in dva[d].fresh
          \cup {dva[d].read}
    /\ dva[d].pc = "upRead" /\ file \in Pids /\ Running(file) => file \in dva[d].fresh
    /\ dva[d].pc = "upCheck" /\ dva[d].read \in Pids /\ Running(dva[d].read)
          => dva[d].read \in dva[d].fresh

DvaSound(d) == Chases(d) /\ Saves(d) /\ FindsFresh(d)

ProcInv ==
    TypeOK /\ AloneIs /\ WrittenStarted /\ Groups /\ Tracked /\ \A d \in Dvas : DvaSound(d)

-----------------------------------------------------------------------------
(* Services: processes *)

Leaders == [Pids -> {"none", "up", "ending", "gone", "foreign", "foreignGroup"}]
Members == [Pids -> {"none", "up", "ending"}]
DvaState == [pc : Halting \cup Starting \cup {"ended"}, verb : Verbs,
             read : Pids \cup {Absent, Empty, Unsafe}, linked : BOOLEAN,
             pid : Pids \cup {NoPid}, halted : Pids \cup {NoPid},
             ok : BOOLEAN, result : Pids \cup {NoPid},
             alone : BOOLEAN, fresh : SUBSET Pids]
FileStates == Pids \cup {Absent, Empty, Unsafe}

LEMMA ProcTyped ==
    TypeOK <=>
        /\ kind \in Kinds /\ leader \in Leaders /\ member \in Members /\ file \in FileStates
        /\ dva \in [Dvas -> DvaState]
        /\ begun \in 0..MaxBegun /\ reused \in 0..MaxReuse
        /\ clean \subseteq Pids /\ leftAlone \subseteq Pids
BY DEF TypeOK, Leaders, Members, DvaState, FileStates

\* Services only ever come closer to their end.
Ages ==
    /\ kind' = kind /\ leader' \in Leaders /\ member' \in Members
    /\ leftAlone \subseteq leftAlone' /\ leftAlone' \subseteq Pids
    /\ Groups'
    /\ \A p \in Pids : leader[p] # "none" =>
         /\ leader'[p] # "none"
         /\ Running(p)' => Running(p)
         /\ Kept(p)' => Kept(p)
         /\ member'[p] = "up" => member[p] = "up"

LEMMA WorldStays ==
    ASSUME ProcInv, UNCHANGED world
    PROVE  Ages
BY ProcTyped DEF ProcInv, world, Ages, Groups, Running, Kept, Background

LEMMA TerminateAges ==
    ASSUME ProcInv, NEW p \in Pids, TerminateGroup(p), kind' = kind, leftAlone' = leftAlone
    PROVE  /\ Ages
           /\ leader[p] = "up" => leader'[p] = "ending"
           /\ member'[p] # "up"
<1>1. leader \in Leaders /\ member \in Members /\ leftAlone \subseteq Pids /\ Groups
    BY ProcTyped DEF ProcInv
<1>2. /\ leader' = [leader EXCEPT ![p] = CASE leader[p] = "up" -> "ending"
                                           [] leader[p] = "foreignGroup" -> "gone"
                                           [] OTHER -> leader[p]]
      /\ member' = [member EXCEPT ![p] = IF member[p] = "up" THEN "ending" ELSE member[p]]
    BY <1>1 DEF TerminateGroup, Leaders, Members
<1>3. /\ leader'[p] = CASE leader[p] = "up" -> "ending"
                        [] leader[p] = "foreignGroup" -> "gone"
                        [] OTHER -> leader[p]
      /\ member'[p] = IF member[p] = "up" THEN "ending" ELSE member[p]
      /\ \A q \in Pids \ {p} : leader'[q] = leader[q] /\ member'[q] = member[q]
    BY <1>1, <1>2 DEF Leaders, Members
<1>4. leader' \in Leaders /\ member' \in Members
    BY <1>1, <1>2 DEF Leaders, Members
<1>5. ASSUME NEW q \in Pids
      PROVE  /\ leader'[q] = "ending" => member'[q] # "up"
             /\ leader'[q] \in {"gone", "foreign", "foreignGroup"} /\ member'[q] = "up"
                   => q \in leftAlone'
             /\ leader[q] # "none" =>
                  /\ leader'[q] # "none"
                  /\ Running(q)' => Running(q)
                  /\ Kept(q)' => Kept(q)
                  /\ member'[q] = "up" => member[q] = "up"
  <2>1. CASE q = p
      BY <1>1, <1>3, <2>1 DEF Running, Kept, Background, Leaders, Members, Groups
  <2>2. CASE q # p
      BY <1>1, <1>3, <2>2 DEF Running, Kept, Background, Groups
  <2> QED BY <2>1, <2>2
<1> QED BY <1>1, <1>3, <1>4, <1>5 DEF Ages, Groups, Members

LEMMA LeaderExitAges ==
    ASSUME ProcInv, NEW p \in Pids, LeaderExits(p)
    PROVE  Ages
<1>1. leader \in Leaders /\ member \in Members /\ leftAlone \subseteq Pids /\ Groups
    BY ProcTyped DEF ProcInv
<1>2. /\ leader' = [leader EXCEPT ![p] = "gone"] /\ Running(p) /\ kind' = kind /\ member' = member
      /\ leftAlone' = IF leader[p] = "up" /\ member[p] = "up" THEN leftAlone \cup {p} ELSE leftAlone
    BY DEF LeaderExits
<1>3. leader'[p] = "gone" /\ \A q \in Pids \ {p} : leader'[q] = leader[q]
    BY <1>1, <1>2 DEF Leaders
<1>4. ASSUME NEW q \in Pids
      PROVE  /\ leader'[q] = "ending" => member'[q] # "up"
             /\ leader'[q] \in {"gone", "foreign", "foreignGroup"} /\ member'[q] = "up"
                   => q \in leftAlone'
             /\ leader[q] # "none" =>
                  /\ leader'[q] # "none"
                  /\ Running(q)' => Running(q)
                  /\ Kept(q)' => Kept(q)
                  /\ member'[q] = "up" => member[q] = "up"
  <2>1. CASE q = p
      BY <1>1, <1>2, <1>3, <2>1 DEF Running, Kept, Background, Leaders, Members, Groups
  <2>2. CASE q # p
      BY <1>1, <1>2, <1>3, <2>2 DEF Running, Kept, Background, Groups
  <2> QED BY <2>1, <2>2
<1>5. leader' \in Leaders /\ leftAlone \subseteq leftAlone' /\ leftAlone' \subseteq Pids
    BY <1>1, <1>2 DEF Leaders
<1> QED BY <1>1, <1>2, <1>4, <1>5 DEF Ages, Groups

LEMMA MemberExitAges ==
    ASSUME ProcInv, NEW p \in Pids, MemberExits(p)
    PROVE  Ages
<1>1. leader \in Leaders /\ member \in Members /\ leftAlone \subseteq Pids /\ Groups
    BY ProcTyped DEF ProcInv
<1>2. /\ member' = [member EXCEPT ![p] = "none"] /\ kind' = kind /\ leader' = leader
      /\ leftAlone' = leftAlone
    BY DEF MemberExits
<1>3. /\ member' \in Members /\ member'[p] = "none" /\ \A q \in Pids \ {p} : member'[q] = member[q]
    BY <1>1, <1>2 DEF Members
<1> QED BY <1>1, <1>2, <1>3 DEF Ages, Groups, Running, Kept, Background

LEMMA ReuseAges ==
    ASSUME ProcInv, NEW p \in Pids, Reuse(p)
    PROVE  Ages
<1>1. leader \in Leaders /\ member \in Members /\ leftAlone \subseteq Pids /\ Groups
    BY ProcTyped DEF ProcInv
<1>2. PICK as \in {"foreign", "foreignGroup"} : leader' = [leader EXCEPT ![p] = as]
    BY DEF Reuse
<1>3. /\ leader[p] = "gone" /\ member[p] = "none" /\ kind' = kind /\ member' = member
      /\ leftAlone' = leftAlone
    BY DEF Reuse
<1>4. leader' \in Leaders /\ leader'[p] = as /\ \A q \in Pids \ {p} : leader'[q] = leader[q]
    BY <1>1, <1>2 DEF Leaders
<1>5. ASSUME NEW q \in Pids
      PROVE  /\ leader'[q] = "ending" => member'[q] # "up"
             /\ leader'[q] \in {"gone", "foreign", "foreignGroup"} /\ member'[q] = "up"
                   => q \in leftAlone'
             /\ leader[q] # "none" =>
                  /\ leader'[q] # "none"
                  /\ Running(q)' => Running(q)
                  /\ Kept(q)' => Kept(q)
                  /\ member'[q] = "up" => member[q] = "up"
  <2>1. CASE q = p
      BY <1>1, <1>3, <1>4, <2>1 DEF Running, Kept, Background
  <2>2. CASE q # p
      BY <1>1, <1>3, <1>4, <2>2 DEF Running, Kept, Background, Groups
  <2> QED BY <2>1, <2>2
<1> QED BY <1>1, <1>3, <1>4, <1>5 DEF Ages, Groups

\* The PID of a new service is one that none had.
LEMMA MinUnused ==
    ASSUME Unused # {}
    PROVE  Min(Unused) \in Unused
<1>1. Unused \subseteq Nat
    BY PidsAssumption DEF Unused
<1>2. PICK p \in Unused : \A q \in Unused : ~ (<<q, p>> \in OpToRel(<, Nat))
    BY <1>1, NatLessThanWellFounded, WFMin
<1>3. \A q \in Unused : p =< q
  <2> SUFFICES ASSUME NEW q \in Unused PROVE p =< q
      OBVIOUS
  <2>1. ~ (q < p)
      BY <1>1, <1>2 DEF OpToRel
  <2> QED BY <1>1, <2>1
<1> QED BY <1>3 DEF Min

LEMMA StartAges ==
    ASSUME ProcInv, NEW d \in Dvas, Start(d)
    PROVE  Ages /\ Min(Unused) \in Pids /\ leader[Min(Unused)] = "none"
           /\ leader'[Min(Unused)] = "up"
<1>1. leader \in Leaders /\ member \in Members /\ leftAlone \subseteq Pids /\ Groups
    BY ProcTyped DEF ProcInv
<1>2. PICK p \in Pids : p = Min(Unused) /\ leader[p] = "none"
    BY MinUnused DEF Start, Unused
<1>3. /\ leader' = [leader EXCEPT ![p] = "up"] /\ kind' = kind /\ leftAlone' = leftAlone
      /\ \E m \in {"none", "up"} : member' = [member EXCEPT ![p] = m]
    BY <1>2 DEF Start
<1>4. /\ leader' \in Leaders /\ leader'[p] = "up" /\ \A q \in Pids \ {p} : leader'[q] = leader[q]
      /\ member' \in Members /\ \A q \in Pids \ {p} : member'[q] = member[q]
    BY <1>1, <1>3 DEF Leaders, Members
<1>5. ASSUME NEW q \in Pids
      PROVE  /\ leader'[q] = "ending" => member'[q] # "up"
             /\ leader'[q] \in {"gone", "foreign", "foreignGroup"} /\ member'[q] = "up"
                   => q \in leftAlone'
             /\ leader[q] # "none" =>
                  /\ leader'[q] # "none"
                  /\ Running(q)' => Running(q)
                  /\ Kept(q)' => Kept(q)
                  /\ member'[q] = "up" => member[q] = "up"
  <2>1. CASE q = p
      BY <1>2, <1>4, <2>1
  <2>2. CASE q # p
      BY <1>1, <1>3, <1>4, <2>2 DEF Running, Kept, Background, Groups
  <2> QED BY <2>1, <2>2
<1> QED BY <1>1, <1>2, <1>3, <1>4, <1>5 DEF Ages, Groups

-----------------------------------------------------------------------------
(* Services: what a step leaves of the other commands *)

\* Of e no more is touched than what is recorded of others.
Nudged(e) ==
    /\ dva'[e].pc = dva[e].pc /\ dva'[e].verb = dva[e].verb /\ dva'[e].read = dva[e].read
    /\ dva'[e].pid = dva[e].pid /\ dva'[e].halted = dva[e].halted
    /\ dva'[e].alone => dva[e].alone
    /\ dva[e].fresh \subseteq dva'[e].fresh
    /\ dva[e].alone /\ Active(e) => dva'[e].linked = dva[e].linked

\* What comes into the PID file is news to a restart.
FileNews(e) ==
    file' = file \/ file' \notin Pids \/ (dva[e].verb = "restart" => file' \in dva'[e].fresh)

LEMMA NudgedKeeps ==
    ASSUME ProcInv, Ages, NEW e \in Dvas, Nudged(e), FileNews(e)
    PROVE  DvaSound(e)'
<1>1. DvaSound(e) /\ WrittenStarted /\ leader \in Leaders
    BY ProcTyped DEF ProcInv
<1>2. \A p : Started(p) => Started(p)'
    BY DEF Started, Ages
<1>3. \A p \in Pids : Started(p) /\ HaltDone(p) => HaltDone(p)'
    BY DEF HaltDone, Ages, Started
<1>4. Chases(e)'
  <2>1. PICK r, h : r = dva[e].read /\ h = dva[e].halted
      OBVIOUS
  <2>2. Started(r)' /\ Started(h)'
      BY <1>1, <1>2, <2>1 DEF DvaSound, Chases
  <2>3. dva'[e].read = r /\ dva'[e].halted = h
        /\ dva'[e].pc = dva[e].pc /\ dva'[e].verb = dva[e].verb
      BY <2>1 DEF Nudged
  <2>4. dva[e].pc \in Starting \cup {"unlink"} /\ h \in Pids => HaltDone(h)'
      BY <1>1, <1>3, <2>1 DEF DvaSound, Chases
  <2>5. Started(dva[e].read)' /\ Started(dva[e].halted)'
      BY <2>2, <2>3 DEF Started
  <2>6. dva'[e].pc \in Starting \cup {"unlink"} /\ dva'[e].halted \in Pids
          => HaltDone(dva[e].halted)'
      BY <2>3, <2>4 DEF HaltDone, Kept, Background
  <2> QED BY <1>1, <2>1, <2>3, <2>5, <2>6 DEF DvaSound, Chases, Starting
<1>5. Saves(e)'
    BY <1>1 DEF DvaSound, Saves, Nudged, Ages, Active
<1>6. FindsFresh(e)'
  <2>1. \A p \in Pids : Started(p) /\ Running(p)' => Running(p)
      BY DEF Ages, Started
  <2>2. Started(file) /\ Started(dva[e].read)
      BY <1>1 DEF WrittenStarted, DvaSound, Chases
  <2> SUFFICES ASSUME dva[e].verb = "restart"
               PROVE  /\ dva[e].pc \in {"check", "kill", "wait"} /\ file' \in Pids
                            => file' \in dva'[e].fresh \cup {dva[e].read}
                      /\ dva[e].pc = "upRead" /\ file' \in Pids /\ Running(file)'
                            => file' \in dva'[e].fresh
                      /\ dva[e].pc = "upCheck" /\ dva[e].read \in Pids /\ Running(dva[e].read)'
                            => dva[e].read \in dva'[e].fresh
      BY DEF FindsFresh, Nudged, Running
  <2>3. CASE file' = file
    <3>1. file' \in Pids /\ Running(file)' => Running(file)
        BY <2>1, <2>2, <2>3 DEF Running
    <3> QED BY <1>1, <2>1, <2>2, <2>3, <3>1 DEF DvaSound, FindsFresh, Nudged
  <2>4. CASE file' \notin Pids \/ file' \in dva'[e].fresh
      BY <1>1, <2>1, <2>2, <2>4 DEF DvaSound, FindsFresh, Nudged
  <2> QED BY <2>3, <2>4 DEF FileNews
<1> QED BY <1>4, <1>5, <1>6 DEF DvaSound

\* A step of d: what it does to d, and that it does not start, save or unlink where
\* a service is to be kept.
DvaMoves(d) ==
    /\ Ages /\ dva' \in [Dvas -> DvaState] /\ file' \in FileStates /\ Started(file)'
    /\ begun' \in 0..MaxBegun /\ reused' \in 0..MaxReuse /\ clean' = clean
    /\ \A e \in Dvas \ {d} : Nudged(e) /\ FileNews(e)
    /\ DvaSound(d)'
    /\ \A p \in clean : Kept(p) /\ Kept(p)' => file' = p /\ Follows(d, p)'
DvaStep(d) ==
    /\ DvaMoves(d)
    /\ Active(d)' => Active(d)
    /\ Active(d)' /\ dva'[d].alone => dva[d].alone

LEMMA MovesKeep ==
    ASSUME ProcInv, NEW d \in Dvas, DvaMoves(d), AloneIs'
    PROVE  ProcInv'
<1>1. TypeOK'
    BY ProcTyped DEF ProcInv, DvaMoves, Ages, TypeOK, Leaders, Members, DvaState, FileStates, Kinds
<1>2. WrittenStarted'
  <2>1. \A p : Started(p) => Started(p)'
      BY DEF DvaMoves, Ages, Started
  <2> QED BY <2>1 DEF ProcInv, WrittenStarted, DvaMoves
<1>3. Tracked'
  <2> SUFFICES ASSUME NEW p \in clean, Kept(p)'
               PROVE  file' = p /\ \A e \in Dvas : Follows(e, p)'
      BY DEF Tracked, DvaMoves
  <2>1. p \in Pids /\ leader[p] # "none"
      BY ProcTyped DEF ProcInv, WrittenStarted, Started
  <2>2. Kept(p)
      BY <2>1 DEF DvaMoves, Ages
  <2>3. file' = p /\ Follows(d, p)'
      BY <2>2 DEF DvaMoves
  <2>4. ASSUME NEW e \in Dvas \ {d} PROVE Follows(e, p)'
      BY <2>2 DEF ProcInv, Tracked, Follows, DvaMoves, Nudged
  <2> QED BY <2>3, <2>4
<1>4. ASSUME NEW e \in Dvas PROVE DvaSound(e)'
    BY NudgedKeeps DEF DvaMoves
<1>5. Groups'
    BY DEF DvaMoves, Ages
<1> QED BY <1>1, <1>2, <1>3, <1>4, <1>5 DEF ProcInv

LEMMA StepKeeps ==
    ASSUME ProcInv, NEW d \in Dvas, DvaStep(d)
    PROVE  ProcInv'
<1>1. \A e \in Dvas : Active(e)' => Active(e) /\ (dva'[e].alone => dva[e].alone)
    BY DEF DvaStep, DvaMoves, Nudged, Active
<1>2. AloneIs'
    BY <1>1 DEF ProcInv, AloneIs, Active
<1> QED BY <1>2, MovesKeep DEF DvaStep

-----------------------------------------------------------------------------
(* Services: one lemma per action *)

LEMMA NotPids == {Absent, Empty, Unsafe, NoPid} \cap Pids = {} /\ NoPid \notin Pids
BY PidsAssumption DEF Absent, Empty, Unsafe, NoPid

\* A step of d that sets no more than its own record.
LEMMA SetSteps ==
    ASSUME ProcInv, Ages, NEW d \in Dvas, NEW c \in DvaState, Set(d, c), Active(d),
           c.pc # "ended" /\ c.alone => dva[d].alone, DvaSound(d)', file' \in FileStates,
           file' = file \/ file' \notin Pids, begun' = begun, reused' = reused, clean' = clean,
           \A p \in clean : Kept(p) /\ Kept(p)' => file' = p /\ Follows(d, p)'
    PROVE  DvaStep(d)
<1>1. /\ dva \in [Dvas -> DvaState] /\ begun \in 0..MaxBegun /\ reused \in 0..MaxReuse
      /\ Started(file)
    BY ProcTyped DEF ProcInv, WrittenStarted
<1>2. /\ dva' \in [Dvas -> DvaState] /\ dva'[d] = c /\ \A e \in Dvas \ {d} : dva'[e] = dva[e]
    BY <1>1 DEF Set
<1>3. Started(file)'
    BY <1>1 DEF Started, Ages
<1>4. \A e \in Dvas \ {d} : Nudged(e) /\ FileNews(e)
    BY <1>2 DEF Nudged, FileNews
<1> QED BY <1>1, <1>2, <1>3, <1>4 DEF DvaStep, DvaMoves, Active

LEMMA EndedIs ==
    ASSUME NEW good \in BOOLEAN, NEW p \in Pids \cup {NoPid}
    PROVE  /\ Ended(good, p) \in DvaState
           /\ LET c == Ended(good, p)
              IN /\ c.pc = "ended" /\ c.verb = "up" /\ c.read = Absent /\ c.halted = NoPid
                 /\ c.ok = good /\ c.result = p
BY DEF Ended, NoCommand, DvaState, Verbs

LEMMA EndedSound ==
    ASSUME NEW d \in Dvas, dva'[d].pc = "ended", dva'[d].verb = "up", dva'[d].read = Absent,
           dva'[d].halted = NoPid
    PROVE  DvaSound(d)'
BY NotPids DEF DvaSound, Chases, Saves, FindsFresh, Started, Starting

\* A command ends, well or not, and leaves the PID file.
LEMMA EndsSteps ==
    ASSUME ProcInv, Ages, NEW d \in Dvas, NEW good \in BOOLEAN, NEW p \in Pids \cup {NoPid},
           Set(d, Ended(good, p)), Active(d), file' = file, begun' = begun, reused' = reused,
           clean' = clean
    PROVE  DvaStep(d)
<1>1. PICK c \in DvaState : c = Ended(good, p)
    BY EndedIs
<1>2. c.pc = "ended" /\ c.verb = "up" /\ c.read = Absent /\ c.halted = NoPid
    BY <1>1, EndedIs
<1>3. dva \in [Dvas -> DvaState] /\ file \in FileStates
    BY ProcTyped DEF ProcInv
<1>4. dva'[d] = c /\ Set(d, c)
    BY <1>1, <1>3 DEF Set
<1>5. DvaSound(d)'
    BY <1>2, <1>4, EndedSound
<1>6. \A q \in clean : Kept(q) /\ Kept(q)' => file' = q /\ Follows(d, q)'
    BY <1>2, <1>4 DEF ProcInv, Tracked, Follows
<1> QED BY <1>2, <1>3, <1>4, <1>5, <1>6, SetSteps

\* A command goes on to another step.
LEMMA GotoIs ==
    ASSUME ProcInv, NEW d \in Dvas, NEW q \in Halting \cup Starting, Goto(d, q)
    PROVE  \E c \in DvaState :
             /\ Set(d, c) /\ dva'[d] = c /\ c.pc = q
             /\ c.verb = dva[d].verb /\ c.read = dva[d].read /\ c.halted = dva[d].halted
             /\ c.pid = dva[d].pid /\ c.alone = dva[d].alone /\ c.fresh = dva[d].fresh
             /\ c.linked = dva[d].linked
<1>1. dva \in [Dvas -> DvaState]
    BY ProcTyped DEF ProcInv
<1>2. PICK c : c = [dva[d] EXCEPT !.pc = q]
    OBVIOUS
<1>3. /\ c \in DvaState /\ c.pc = q
      /\ c.verb = dva[d].verb /\ c.read = dva[d].read /\ c.halted = dva[d].halted
      /\ c.pid = dva[d].pid /\ c.alone = dva[d].alone /\ c.fresh = dva[d].fresh
      /\ c.linked = dva[d].linked
    BY <1>1, <1>2 DEF DvaState
<1>4. Set(d, c)
    BY <1>2 DEF Goto
<1>5. dva'[d] = c
    BY <1>1, <1>4 DEF Set
<1> QED BY <1>3, <1>4, <1>5

LEMMA CrashSteps ==
    ASSUME ProcInv, NEW d \in Dvas, Crash(d)
    PROVE  DvaStep(d)
BY WorldStays, EndsSteps DEF Crash, Ends, world

\* What a command halts is gone, and it goes on.
LEMMA HaltedSteps ==
    ASSUME ProcInv, Ages, NEW d \in Dvas, Active(d), Halted(d), file' = file, begun' = begun,
           reused' = reused, clean' = clean,
           \A h \in Pids : dva[d].halted = h => HaltDone(h)',
           dva[d].verb = "restart" /\ file \in Pids /\ Running(file)' => file \in dva[d].fresh
    PROVE  DvaStep(d)
<1>1. CASE dva[d].verb # "restart"
    BY <1>1, EndsSteps DEF Halted, Ends
<1>2. CASE dva[d].verb = "restart"
  <2>1. PICK c \in DvaState :
             /\ Set(d, c) /\ dva'[d] = c /\ c.pc = "upRead"
             /\ c.verb = dva[d].verb /\ c.read = dva[d].read /\ c.halted = dva[d].halted
             /\ c.pid = dva[d].pid /\ c.alone = dva[d].alone /\ c.fresh = dva[d].fresh
             /\ c.linked = dva[d].linked
      BY <1>2, GotoIs DEF Halted, Starting
  <2>2. PICK r, h : r = dva[d].read /\ h = dva[d].halted
      OBVIOUS
  <2>3. Started(r) /\ Started(h) /\ file \in FileStates
      BY <2>2, ProcTyped DEF ProcInv, DvaSound, Chases
  <2>4. Started(r)' /\ Started(h)' /\ (h \in Pids => HaltDone(h)')
      BY <2>2, <2>3 DEF Started, Ages
  <2>5. Chases(d)'
      BY <1>2, <2>1, <2>2, <2>4 DEF Chases, Starting, Started, HaltDone, Kept, Background
  <2>6. Saves(d)' /\ FindsFresh(d)'
      BY <1>2, <2>1 DEF Saves, FindsFresh, Running
  <2>7. \A q \in clean : Kept(q) /\ Kept(q)' => file' = q /\ Follows(d, q)'
      BY <2>1 DEF ProcInv, Tracked, Follows
  <2> QED BY <2>1, <2>3, <2>5, <2>6, <2>7, SetSteps DEF DvaSound
<1> QED BY <1>1, <1>2

LEMMA ReadIs ==
    ASSUME ProcInv, NEW d \in Dvas, Read(d)
    PROVE  \/ /\ file \in Pids
              /\ \E c \in DvaState :
                   /\ Set(d, c) /\ dva'[d] = c /\ c.pc \in {"check", "kill"}
                   /\ c.read = file /\ c.halted = file
                   /\ c.verb = dva[d].verb /\ c.alone = dva[d].alone
           \/ Ends(d, FALSE)
           \/ /\ file \notin Pids
              /\ \E c \in DvaState :
                   /\ Set(d, c) /\ dva'[d] = c /\ c.pc = "unlink"
                   /\ c.read = file /\ c.halted = NoPid
                   /\ c.verb = dva[d].verb /\ c.alone = dva[d].alone
           \/ file \notin Pids /\ Halted(d)
<1>1. dva \in [Dvas -> DvaState] /\ file \in FileStates
    BY ProcTyped DEF ProcInv
<1>2. CASE file \in Pids
  <2>1. PICK c : c = [dva[d] EXCEPT !.read = file, !.halted = file,
                                    !.pc = IF Background THEN "kill" ELSE "check"]
      OBVIOUS
  <2>2. c \in DvaState
      BY <1>1, <1>2, <2>1 DEF DvaState, Halting
  <2>3. c = [[dva[d] EXCEPT !.read = file, !.halted = IF file \in Pids THEN file ELSE NoPid]
               EXCEPT !.pc = IF Background THEN "kill" ELSE "check"]
      BY <1>1, <1>2, <2>1 DEF DvaState
  <2>4. Set(d, [[dva[d] EXCEPT !.read = file, !.halted = IF file \in Pids THEN file ELSE NoPid]
                  EXCEPT !.pc = IF Background THEN "kill" ELSE "check"])
    <3>1. file # Unsafe /\ file # Empty
        BY <1>2, NotPids
    <3> QED BY <1>2, <3>1, Zenon DEF Read
  <2>5. Set(d, c)
      BY <2>3, <2>4
  <2>6. dva'[d] = c
      BY <1>1, <2>5 DEF Set
  <2>7. /\ c.pc \in {"check", "kill"} /\ c.read = file /\ c.halted = file /\ c.verb = dva[d].verb
        /\ c.alone = dva[d].alone
      BY <1>1, <2>1 DEF DvaState
  <2> QED BY <1>2, <2>2, <2>5, <2>6, <2>7
<1>3. CASE file = Unsafe
  <2>1. file \notin Pids /\ file # Empty
      BY <1>3, NotPids DEF Unsafe, Empty
  <2>2. Ends(d, FALSE)
      BY <1>3, <2>1, Zenon DEF Read
  <2> QED BY <2>2
<1>4. CASE file = Empty /\ ~(~Background /\ dva[d].verb # "down")
  <2>1. PICK c : c = [dva[d] EXCEPT !.read = file, !.halted = NoPid, !.pc = "unlink"]
      OBVIOUS
  <2>2. c \in DvaState
      BY <1>1, <2>1 DEF DvaState, Halting, FileStates
  <2>3. file \notin Pids /\ file # Unsafe
      BY <1>4, NotPids DEF Empty, Unsafe
  <2>4. dva[d].verb = [dva[d] EXCEPT !.read = file, !.halted = NoPid].verb
      BY <1>1 DEF DvaState
  <2>5. Set(d, c)
      BY <1>1, <1>4, <2>1, <2>3, <2>4 DEF Read, Set, DvaState
  <2>6. dva'[d] = c
      BY <1>1, <2>5 DEF Set
  <2>7. /\ c.pc = "unlink" /\ c.read = file /\ c.halted = NoPid /\ c.verb = dva[d].verb
        /\ c.alone = dva[d].alone
      BY <1>1, <2>1 DEF DvaState
  <2> QED BY <2>2, <2>3, <2>5, <2>6, <2>7
<1>5. CASE file \notin Pids /\ file # Unsafe
        /\ ~(file = Empty /\ ~(~Background /\ dva[d].verb # "down"))
  <2>1. dva[d].verb = [dva[d] EXCEPT !.read = file, !.halted = NoPid].verb
      BY <1>1 DEF DvaState
  <2>2. Halted(d)
      BY <1>1, <1>5, <2>1 DEF Read, DvaState
  <2> QED BY <1>5, <2>2
<1> QED BY <1>2, <1>3, <1>4, <1>5

LEMMA ReadSteps ==
    ASSUME ProcInv, NEW d \in Dvas, Read(d)
    PROVE  DvaStep(d)
<1>1. Ages /\ file' = file /\ begun' = begun /\ reused' = reused /\ clean' = clean /\ Active(d)
    BY WorldStays DEF Read, world, Active
<1>2. file \in FileStates /\ Started(file) /\ DvaSound(d)
    BY ProcTyped DEF ProcInv, WrittenStarted
<1>3. ASSUME file \in Pids,
             NEW c \in DvaState, Set(d, c), dva'[d] = c, c.pc \in {"check", "kill"},
             c.read = file, c.halted = file, c.verb = dva[d].verb, c.alone = dva[d].alone
      PROVE  DvaStep(d)
  <2>1. Started(file)'
      BY <1>1, <1>2 DEF Started, Ages
  <2>2. DvaSound(d)'
      BY <1>1, <1>3, <2>1 DEF DvaSound, Chases, Saves, FindsFresh, Started, Starting
  <2>3. \A q \in clean : Kept(q) /\ Kept(q)' => file' = q /\ Follows(d, q)'
      BY <1>1, <1>3 DEF ProcInv, Tracked, Follows
  <2> QED BY <1>1, <1>2, <1>3, <2>2, <2>3, SetSteps
<1>4. CASE Ends(d, FALSE)
    BY <1>1, <1>4, EndsSteps DEF Ends
<1>5. ASSUME file \notin Pids,
             NEW c \in DvaState, Set(d, c), dva'[d] = c, c.pc = "unlink",
             c.read = file, c.halted = NoPid, c.verb = dva[d].verb, c.alone = dva[d].alone
      PROVE  DvaStep(d)
  <2>1. DvaSound(d)'
      BY <1>5, NotPids DEF DvaSound, Chases, Saves, FindsFresh, Started, Starting
  <2>2. \A q \in clean : ~Kept(q)
      BY <1>5, ProcTyped DEF ProcInv, Tracked
  <2> QED BY <1>1, <1>2, <1>5, <2>1, <2>2, SetSteps
<1>6. CASE file \notin Pids /\ Halted(d)
  <2>1. dva[d].halted \notin Pids
      BY <1>2, NotPids DEF DvaSound, Chases, Read
  <2> QED BY <1>1, <1>6, <2>1, HaltedSteps
<1> QED BY <1>3, <1>4, <1>5, <1>6, ReadIs

\* The process the command reads of is gone.
LEMMA GoneSteps ==
    ASSUME ProcInv, Ages, NEW d \in Dvas, Gone(d), file' = file, begun' = begun,
           reused' = reused, clean' = clean, dva[d].pc \in {"check", "wait"},
           ~IsProcessRunning(dva[d].read)
    PROVE  DvaStep(d)
<1>1. PICK r : r = dva[d].read
    OBVIOUS
<1>2. /\ r \in Pids /\ dva[d].halted = r /\ leader[r] \notin {"none", "up", "ending"}
      /\ dva \in [Dvas -> DvaState] /\ file \in FileStates /\ DvaSound(d) /\ Active(d)
    BY <1>1, ProcTyped DEF ProcInv, DvaSound, Chases, Started, IsProcessRunning, Active, Leaders
<1>3. HaltDone(r)' /\ ~Kept(r)
    BY <1>1, <1>2, ProcTyped DEF ProcInv, HaltDone, Kept, Background, Groups, IsProcessRunning, Ages,
       Leaders, Members
<1>4. dva[d].verb = "restart" /\ file \in Pids /\ Running(file)' => file \in dva[d].fresh
  <2>1. Started(file) /\ ~Running(r)'
      BY <1>2 DEF ProcInv, WrittenStarted, Ages, Running
  <2>2. file = r => ~Running(file)'
      BY <2>1 DEF Running
  <2> QED BY <1>1, <1>2, <2>1, <2>2 DEF DvaSound, FindsFresh
<1>5. CASE dva[d].verb # "down"
  <2>1. \A h \in Pids : dva[d].halted = h => HaltDone(h)'
      BY <1>2, <1>3
  <2> QED BY <1>2, <1>4, <1>5, <2>1, HaltedSteps DEF Gone
<1>6. CASE dva[d].verb = "down"
  <2>1. PICK c \in DvaState :
             /\ Set(d, c) /\ dva'[d] = c /\ c.pc = "unlink"
             /\ c.verb = dva[d].verb /\ c.read = dva[d].read /\ c.halted = dva[d].halted
             /\ c.pid = dva[d].pid /\ c.alone = dva[d].alone /\ c.fresh = dva[d].fresh
             /\ c.linked = dva[d].linked
      BY <1>6, GotoIs DEF Gone, Halting
  <2>2. Started(r)'
      BY <1>2 DEF Started, Ages
  <2>3. Chases(d)'
      BY <1>1, <1>2, <1>3, <1>6, <2>1, <2>2 DEF Chases, Starting, Started, HaltDone, Kept,
         Background
  <2>4. Saves(d)' /\ FindsFresh(d)'
      BY <1>6, <2>1 DEF Saves, FindsFresh
  <2>5. \A q \in clean : ~Kept(q)
      BY <1>1, <1>3 DEF ProcInv, Tracked, Follows
  <2> QED BY <1>2, <2>1, <2>3, <2>4, <2>5, SetSteps DEF DvaSound
<1> QED BY <1>5, <1>6

LEMMA WaitSteps ==
    ASSUME ProcInv, NEW d \in Dvas, WaitForExit(d)
    PROVE  DvaStep(d)
<1>1. Ages /\ file' = file /\ begun' = begun /\ reused' = reused /\ clean' = clean /\ Active(d)
    BY WorldStays DEF WaitForExit, world, Active
<1>2. CASE IsProcessRunning(dva[d].read)
    BY <1>1, <1>2, EndsSteps DEF WaitForExit, GiveUp, Ends
<1>3. CASE ~IsProcessRunning(dva[d].read)
    BY <1>1, <1>3, GoneSteps DEF WaitForExit
<1> QED BY <1>2, <1>3

LEMMA CheckSteps ==
    ASSUME ProcInv, NEW d \in Dvas, Check(d)
    PROVE  DvaStep(d)
<1>1. Ages /\ file' = file /\ begun' = begun /\ reused' = reused /\ clean' = clean /\ Active(d)
    BY WorldStays DEF Check, world, Active
<1>2. CASE IsProcessRunning(dva[d].read)
  <2>1. PICK c \in DvaState :
             /\ Set(d, c) /\ dva'[d] = c /\ c.pc = "kill"
             /\ c.verb = dva[d].verb /\ c.read = dva[d].read /\ c.halted = dva[d].halted
             /\ c.pid = dva[d].pid /\ c.alone = dva[d].alone /\ c.fresh = dva[d].fresh
             /\ c.linked = dva[d].linked
      BY <1>2, GotoIs DEF Check, Halting
  <2>2. PICK r \in Pids : r = dva[d].read /\ dva[d].halted = r /\ Started(r)
      BY DEF ProcInv, DvaSound, Chases, Check
  <2>3. Started(r)' /\ file \in FileStates
      BY <1>1, <2>2, ProcTyped DEF Started, Ages, ProcInv
  <2>4. Chases(d)'
      BY <2>1, <2>2, <2>3 DEF Chases, Starting, Started
  <2>5. Saves(d)' /\ FindsFresh(d)'
      BY <1>1, <2>1 DEF Saves, FindsFresh, ProcInv, DvaSound, Check
  <2>6. \A q \in clean : Kept(q) /\ Kept(q)' => file' = q /\ Follows(d, q)'
      BY <1>1, <2>1 DEF ProcInv, Tracked, Follows, Check
  <2> QED BY <1>1, <2>1, <2>3, <2>4, <2>5, <2>6, SetSteps DEF DvaSound
<1>3. CASE ~IsProcessRunning(dva[d].read)
    BY <1>1, <1>3, GoneSteps DEF Check
<1> QED BY <1>2, <1>3

LEMMA KillSteps ==
    ASSUME ProcInv, NEW d \in Dvas, Kill(d)
    PROVE  DvaStep(d)
<1>1. file' = file /\ begun' = begun /\ reused' = reused /\ clean' = clean /\ Active(d)
      /\ kind' = kind /\ leftAlone' = leftAlone /\ dva[d].pc = "kill" /\ file \in FileStates
    BY ProcTyped DEF Kill, Active, ProcInv
<1>2. PICK r \in Pids : r = dva[d].read /\ dva[d].halted = r /\ leader[r] # "none"
    BY <1>1 DEF ProcInv, DvaSound, Chases, Started
<1>3. ASSUME GroupExists(r)
      PROVE  TerminateGroup(r) /\ Goto(d, IF Background THEN "unlink" ELSE "wait")
    BY <1>2, <1>3 DEF Kill
<1>4. ASSUME ~GroupExists(r)
      PROVE  /\ UNCHANGED <<leader, member>>
             /\ Background => Goto(d, "unlink")
             /\ ~Background /\ dva[d].verb = "down" => Ends(d, FALSE)
             /\ ~Background /\ dva[d].verb # "down" => Halted(d)
    BY <1>2, <1>4, Zenon DEF Kill
<1>5. Ages
  <2>1. CASE GroupExists(r)
      BY <1>1, <1>3, <2>1, TerminateAges
  <2>2. CASE ~GroupExists(r)
      BY <1>1, <1>4, <2>2, WorldStays DEF world
  <2> QED BY <2>1, <2>2
<1>6. (GroupExists(r) => leader'[r] # "up" /\ member'[r] # "up")
      /\ (~GroupExists(r) => leader'[r] \notin {"up", "ending"} /\ member'[r] # "up")
  <2>1. CASE GroupExists(r)
    <3>1. leader'[r] = "up" => leader[r] = "up"
        BY <1>1, <1>2, <1>3, <2>1, ProcTyped DEF ProcInv, TerminateGroup, Leaders
    <3> QED BY <1>1, <1>3, <2>1, <3>1, TerminateAges
  <2>2. CASE ~GroupExists(r)
      BY <1>4, <2>2 DEF GroupExists, Running
  <2> QED BY <2>1, <2>2
<1>7. Background \/ ~GroupExists(r) => HaltDone(r)'
    BY <1>1, <1>6 DEF HaltDone, Kept, Background
<1>8. ASSUME NEW q, q \in {"unlink", "wait"}, Goto(d, q), q = "unlink" => Background
      PROVE  DvaStep(d)
  <2>1. PICK c \in DvaState :
             /\ Set(d, c) /\ dva'[d] = c /\ c.pc = q
             /\ c.verb = dva[d].verb /\ c.read = dva[d].read /\ c.halted = dva[d].halted
             /\ c.pid = dva[d].pid /\ c.alone = dva[d].alone /\ c.fresh = dva[d].fresh
             /\ c.linked = dva[d].linked
      BY <1>8, GotoIs DEF Halting
  <2>2. Started(r)' /\ (q = "unlink" => HaltDone(r)')
      BY <1>2, <1>5, <1>7, <1>8 DEF Started, Ages
  <2>3. Chases(d)'
      BY <1>2, <1>8, <2>1, <2>2 DEF Chases, Starting, Started, HaltDone, Kept, Background
  <2>4. Saves(d)' /\ FindsFresh(d)'
      BY <1>1, <1>8, <2>1 DEF Saves, FindsFresh, ProcInv, DvaSound
  <2>5. ASSUME NEW p \in clean, Kept(p), Kept(p)' PROVE file' = p /\ Follows(d, p)'
    <3>1. file = p /\ p = r
        BY <1>1, <1>2, <2>5 DEF ProcInv, Tracked, Follows
    <3>2. q = "wait"
        BY <1>8, <2>2, <2>5, <3>1 DEF HaltDone
    <3> QED BY <1>1, <1>2, <2>1, <3>1, <3>2 DEF Follows
  <2> QED BY <1>1, <1>5, <1>8, <2>1, <2>3, <2>4, <2>5, SetSteps DEF DvaSound
<1>9. CASE GroupExists(r) \/ Background
    BY <1>3, <1>4, <1>8, <1>9
<1>10. CASE ~GroupExists(r) /\ ~Background /\ dva[d].verb = "down"
    BY <1>1, <1>4, <1>5, <1>10, EndsSteps DEF Ends
<1>11. CASE ~GroupExists(r) /\ ~Background /\ dva[d].verb # "down"
  <2>1. \A h \in Pids : dva[d].halted = h => HaltDone(h)'
      BY <1>2, <1>7, <1>11
  <2>2. file = r => ~Running(file)'
      BY <1>1, <1>6, <1>11 DEF Running
  <2>3. dva[d].verb = "restart" /\ file \in Pids /\ Running(file)' => file \in dva[d].fresh
      BY <1>1, <1>2, <2>2 DEF ProcInv, DvaSound, FindsFresh
  <2> QED BY <1>1, <1>4, <1>5, <1>11, <2>1, <2>3, HaltedSteps
<1> QED BY <1>9, <1>10, <1>11

LEMMA UnlinkSteps ==
    ASSUME ProcInv, NEW d \in Dvas, Unlink(d)
    PROVE  DvaStep(d)
<1>1. /\ Ages /\ file' = Absent /\ begun' = begun /\ reused' = reused /\ clean' = clean
      /\ Active(d) /\ dva[d].pc = "unlink"
    BY WorldStays DEF Unlink, world, Active
<1>2. /\ dva \in [Dvas -> DvaState] /\ DvaSound(d) /\ begun \in 0..MaxBegun
      /\ reused \in 0..MaxReuse
    BY ProcTyped DEF ProcInv
<1>3. ASSUME NEW e \in Dvas \ {d}
      PROVE  dva'[e] = [dva[e] EXCEPT !.linked = FALSE] /\ dva'[e] \in DvaState /\ Nudged(e)
             /\ FileNews(e)
  <2>1. dva'[e] = [dva[e] EXCEPT !.linked = FALSE]
      BY <1>3 DEF Unlink
  <2>2. dva'[e] \in DvaState
      BY <1>2, <1>3, <2>1 DEF DvaState
  <2>3. ~(dva[e].alone /\ Active(e))
      BY <1>1, <1>3 DEF ProcInv, AloneIs
  <2>4. Nudged(e)
    <3>1. /\ dva'[e].pc = dva[e].pc /\ dva'[e].verb = dva[e].verb /\ dva'[e].read = dva[e].read
          /\ dva'[e].pid = dva[e].pid /\ dva'[e].halted = dva[e].halted
          /\ dva'[e].alone = dva[e].alone /\ dva'[e].fresh = dva[e].fresh
        BY <1>2, <1>3, <2>1 DEF DvaState
    <3> QED BY <2>3, <3>1 DEF Nudged
  <2> QED BY <1>1, <2>1, <2>2, <2>4, NotPids DEF FileNews
<1>4. dva'[d] \in DvaState /\ DvaSound(d)' /\ (Active(d)' => dva'[d].alone = dva[d].alone)
  <2>1. CASE dva[d].verb = "restart"
    <3>1. dva'[d] = [dva[d] EXCEPT !.pc = "upRead"]
        BY <2>1, Zenon DEF Unlink
    <3>2. PICK c \in DvaState : /\ c = dva'[d] /\ c.pc = "upRead"
             /\ c.verb = dva[d].verb /\ c.read = dva[d].read /\ c.halted = dva[d].halted
             /\ c.alone = dva[d].alone
        BY <1>2, <3>1 DEF DvaState, Starting
    <3>3. PICK r, h : r = dva[d].read /\ h = dva[d].halted
        OBVIOUS
    <3>4. Started(r) /\ Started(h) /\ (h \in Pids => HaltDone(h))
        BY <1>1, <1>2, <3>3 DEF DvaSound, Chases
    <3>5. Started(r)' /\ Started(h)' /\ (h \in Pids => HaltDone(h)')
        BY <1>1, <3>4 DEF Started, Ages, HaltDone
    <3>6. Chases(d)'
        BY <2>1, <3>2, <3>3, <3>5 DEF Chases, Starting, Started, HaltDone, Kept, Background
    <3>7. Saves(d)' /\ FindsFresh(d)'
        BY <1>1, <2>1, <3>2, NotPids DEF Saves, FindsFresh
    <3> QED BY <3>2, <3>6, <3>7 DEF DvaSound
  <2>2. CASE dva[d].verb # "restart"
    <3>1. dva'[d] = Ended(TRUE, NoPid)
        BY <2>2 DEF Unlink
    <3>2. PICK c \in DvaState : c = dva'[d] /\ c.pc = "ended" /\ c.verb = "up" /\ c.read = Absent
                                 /\ c.halted = NoPid
        BY <3>1, EndedIs
    <3> QED BY <3>2, EndedSound DEF Active
  <2> QED BY <2>1, <2>2
<1>5. dva' \in [Dvas -> DvaState]
  <2>1. dva' = [e \in Dvas |-> dva'[e]]
      BY DEF Unlink
  <2> QED BY <1>3, <1>4, <2>1
<1>6. file' \in FileStates /\ Started(file)'
    BY <1>1, NotPids DEF FileStates, Started
<1>7. \A p \in clean : ~Kept(p)
    BY <1>1 DEF ProcInv, Tracked, Follows
<1> QED BY <1>1, <1>2, <1>3, <1>4, <1>5, <1>6, <1>7 DEF DvaStep, DvaMoves

\* A command that halted something, if anything, and sets out to start goes on to do so.
LEMMA StartingStays ==
    ASSUME ProcInv, Ages, NEW d \in Dvas, dva[d].pc \in Starting, dva'[d].pc \in Starting,
           dva'[d].verb = dva[d].verb, dva'[d].halted = dva[d].halted, Started(dva[d].read)'
    PROVE  Chases(d)'
<1>1. PICK h, r : h = dva[d].halted /\ r = dva'[d].read
    OBVIOUS
<1>2. Chases(d)
    BY DEF ProcInv, DvaSound
<1>3. Started(h) /\ (h \in Pids => HaltDone(h)) /\ dva[d].verb \in {"up", "restart"}
    BY <1>1, <1>2 DEF Chases
<1>4. Started(h)' /\ (h \in Pids => HaltDone(h)')
    BY <1>3 DEF Started, Ages, HaltDone
<1>5. dva'[d].halted = h /\ Started(r)'
        /\ dva'[d].pc \notin {"ended", "read", "check", "kill", "wait"}
    BY <1>1 DEF Started, Starting
<1> QED BY <1>1, <1>3, <1>4, <1>5 DEF Chases, Started, HaltDone, Kept, Background

LEMMA UpReadSteps ==
    ASSUME ProcInv, NEW d \in Dvas, UpRead(d)
    PROVE  DvaStep(d)
<1>1. /\ Ages /\ file' = file /\ begun' = begun /\ reused' = reused /\ clean' = clean /\ Active(d)
      /\ leader' = leader /\ dva[d].pc = "upRead"
    BY WorldStays DEF UpRead, world, Active
<1>2. dva \in [Dvas -> DvaState] /\ file \in FileStates /\ Started(file) /\ DvaSound(d)
    BY ProcTyped DEF ProcInv, WrittenStarted
<1>3. PICK c \in DvaState :
           /\ Set(d, c) /\ dva'[d] = c
           /\ c.pc = (IF file \in Pids \cup {Unsafe} THEN "upCheck" ELSE "start")
           /\ c.verb = dva[d].verb /\ c.read = file /\ c.halted = dva[d].halted
           /\ c.alone = dva[d].alone /\ c.fresh = dva[d].fresh
  <2>1. PICK c : c = [dva[d] EXCEPT !.read = file,
                        !.pc = IF file \in Pids \cup {Unsafe} THEN "upCheck" ELSE "start"]
      OBVIOUS
  <2>2. c \in DvaState
      BY <1>2, <2>1 DEF DvaState, Starting, FileStates
  <2>3. Set(d, c)
      BY <2>1 DEF UpRead
  <2>4. dva'[d] = c
      BY <1>2, <2>3 DEF Set
  <2> QED BY <1>2, <2>1, <2>2, <2>3, <2>4 DEF DvaState
<1>4. Started(file)'
    BY <1>1, <1>2 DEF Started
<1>5. c.pc \in Starting /\ dva[d].pc \in Starting
    BY <1>1, <1>3 DEF Starting
<1>6. Started(dva[d].read)'
    BY <1>1, <1>3, <1>4 DEF Started
<1>7. Chases(d)'
    BY <1>1, <1>3, <1>5, <1>6, StartingStays
<1>8. Saves(d)' /\ FindsFresh(d)'
    BY <1>1, <1>2, <1>3 DEF Saves, FindsFresh, DvaSound, Running
<1>9. \A p \in clean : Kept(p) => file' = p /\ Follows(d, p)'
    BY <1>1, <1>3, ProcTyped DEF ProcInv, Tracked, Follows
<1> QED BY <1>1, <1>2, <1>3, <1>7, <1>8, <1>9, SetSteps DEF DvaSound

LEMMA UpCheckSteps ==
    ASSUME ProcInv, NEW d \in Dvas, UpCheck(d)
    PROVE  DvaStep(d)
<1>1. /\ Ages /\ file' = file /\ begun' = begun /\ reused' = reused /\ clean' = clean /\ Active(d)
      /\ leader' = leader /\ dva[d].pc = "upCheck"
    BY WorldStays DEF UpCheck, world, Active
<1>2. dva \in [Dvas -> DvaState] /\ file \in FileStates /\ DvaSound(d)
    BY ProcTyped DEF ProcInv
<1>3. CASE \E p \in Pids \cup {NoPid} : Set(d, Ended(TRUE, p))
    BY <1>1, <1>3, EndsSteps
<1>4. CASE Goto(d, "start") /\ (dva[d].read \in Pids => ~IsProcessRunning(dva[d].read))
  <2>1. PICK c \in DvaState :
             /\ Set(d, c) /\ dva'[d] = c /\ c.pc = "start"
             /\ c.verb = dva[d].verb /\ c.read = dva[d].read /\ c.halted = dva[d].halted
             /\ c.pid = dva[d].pid /\ c.alone = dva[d].alone /\ c.fresh = dva[d].fresh
             /\ c.linked = dva[d].linked
      BY <1>4, GotoIs DEF Starting
  <2>2. Started(dva[d].read)'
      BY <1>1, <1>2, <2>1 DEF DvaSound, Chases, Started
  <2>3. Chases(d)'
      BY <1>1, <2>1, <2>2, StartingStays DEF Starting
  <2>4. Saves(d)' /\ FindsFresh(d)'
      BY <2>1 DEF Saves, FindsFresh
  <2>5. ASSUME NEW p \in clean, Kept(p) PROVE FALSE
    <3>1. dva[d].read = p /\ p \in Pids
        BY <1>1, <2>5, ProcTyped DEF ProcInv, Tracked, Follows
    <3> QED BY <1>4, <2>5, <3>1 DEF Kept, IsProcessRunning
  <2> QED BY <1>1, <1>2, <2>1, <2>3, <2>4, <2>5, SetSteps DEF DvaSound
<1>5. \/ \E p \in Pids \cup {NoPid} : Set(d, Ended(TRUE, p))
      \/ Goto(d, "start") /\ (dva[d].read \in Pids => ~IsProcessRunning(dva[d].read))
  <2>1. PICK is \in AlreadyRunning(dva[d].read) :
            IF is THEN Set(d, Ended(TRUE, IF dva[d].read \in Pids /\ Running(dva[d].read)
                                          THEN dva[d].read ELSE NoPid))
                  ELSE Goto(d, "start")
      BY DEF UpCheck
  <2>2. dva[d].read \in Pids => is = IsProcessRunning(dva[d].read)
      BY <2>1, NotPids DEF AlreadyRunning
  <2>3. CASE is
    <3>1. PICK p \in Pids \cup {NoPid} :
             p = IF dva[d].read \in Pids /\ Running(dva[d].read) THEN dva[d].read ELSE NoPid
        OBVIOUS
    <3> QED BY <2>1, <2>3, <3>1
  <2>4. CASE ~is
      BY <2>1, <2>2, <2>4
  <2> QED BY <2>3, <2>4
<1> QED BY <1>3, <1>4, <1>5

LEMMA StartFailsSteps ==
    ASSUME ProcInv, NEW d \in Dvas, StartFails(d)
    PROVE  DvaStep(d)
BY WorldStays, EndsSteps DEF StartFails, Ends, world, Active

LEMMA StartSteps ==
    ASSUME ProcInv, NEW d \in Dvas, Start(d)
    PROVE  DvaStep(d)
<1>1. /\ file' = file /\ begun' = begun /\ reused' = reused /\ clean' = clean /\ Active(d)
      /\ dva[d].pc = "start"
    BY DEF Start, Active
<1>2. PICK p \in Pids : p = Min(Unused) /\ leader'[p] = "up" /\ Ages
    BY StartAges
<1>3. dva \in [Dvas -> DvaState] /\ file \in FileStates /\ DvaSound(d)
    BY ProcTyped DEF ProcInv
<1>4. PICK c \in DvaState :
           /\ Set(d, c) /\ dva'[d] = c /\ c.pc = "open" /\ c.pid = p
           /\ c.verb = dva[d].verb /\ c.read = dva[d].read /\ c.halted = dva[d].halted
           /\ c.alone = dva[d].alone
  <2>1. PICK c : c = [dva[d] EXCEPT !.pid = p, !.pc = "open"]
      OBVIOUS
  <2>2. c \in DvaState
      BY <1>3, <2>1 DEF DvaState, Starting
  <2>3. Set(d, c)
      BY <1>2, <2>1 DEF Start
  <2>4. dva'[d] = c
      BY <1>3, <2>3 DEF Set
  <2> QED BY <1>3, <2>1, <2>2, <2>3, <2>4 DEF DvaState
<1>5. Started(dva[d].read)'
  <2>1. PICK r : r = dva[d].read
      OBVIOUS
  <2>2. Started(r)'
      BY <1>2, <1>3, <2>1 DEF DvaSound, Chases, Started, Ages
  <2> QED BY <1>4, <2>1, <2>2 DEF Started
<1>6. Chases(d)'
    BY <1>1, <1>2, <1>4, <1>5, StartingStays DEF Starting
<1>7. Saves(d)' /\ FindsFresh(d)'
    BY <1>2, <1>4 DEF Saves, FindsFresh
<1>8. \A q \in clean : ~Kept(q)
    BY <1>1 DEF ProcInv, Tracked, Follows
<1> QED BY <1>1, <1>2, <1>3, <1>4, <1>6, <1>7, <1>8, SetSteps DEF DvaSound

LEMMA OpenSteps ==
    ASSUME ProcInv, NEW d \in Dvas, Open(d)
    PROVE  DvaStep(d)
<1>1. /\ Ages /\ file' = Empty /\ begun' = begun /\ reused' = reused /\ clean' = clean /\ Active(d)
      /\ leader' = leader /\ dva[d].pc = "open"
    BY WorldStays DEF Open, world, Active
<1>2. dva \in [Dvas -> DvaState] /\ DvaSound(d)
    BY ProcTyped DEF ProcInv
<1>3. PICK c \in DvaState :
           /\ Set(d, c) /\ dva'[d] = c /\ c.pc = "write" /\ c.pid = dva[d].pid /\ c.linked = TRUE
           /\ c.verb = dva[d].verb /\ c.read = dva[d].read /\ c.halted = dva[d].halted
           /\ c.alone = dva[d].alone
  <2>1. PICK c : c = [dva[d] EXCEPT !.pc = "write", !.linked = TRUE]
      OBVIOUS
  <2>2. c \in DvaState
      BY <1>2, <2>1 DEF DvaState, Starting
  <2>3. Set(d, c)
      BY <2>1 DEF Open
  <2>4. dva'[d] = c
      BY <1>2, <2>3 DEF Set
  <2> QED BY <1>2, <2>1, <2>2, <2>3, <2>4 DEF DvaState
<1>4. Started(dva[d].read)'
    BY <1>1, <1>2, <1>3 DEF DvaSound, Chases, Started
<1>5. Chases(d)'
    BY <1>1, <1>3, <1>4, StartingStays DEF Starting
<1>6. Saves(d)' /\ FindsFresh(d)'
    BY <1>1, <1>2, <1>3 DEF DvaSound, Saves, FindsFresh
<1>7. \A q \in clean : ~Kept(q)
    BY <1>1 DEF ProcInv, Tracked, Follows
<1>8. file' \in FileStates /\ file' \notin Pids
    BY <1>1, NotPids DEF FileStates
<1> QED BY <1>1, <1>3, <1>5, <1>6, <1>7, <1>8, SetSteps DEF DvaSound

LEMMA SaveFailsSteps ==
    ASSUME ProcInv, NEW d \in Dvas, SaveFails(d)
    PROVE  DvaStep(d)
<1>1. PICK p \in Pids : p = dva[d].pid
    BY DEF SaveFails, ProcInv, DvaSound, Saves
<1>2. /\ TerminateGroup(p) /\ Ends(d, FALSE) /\ Active(d) /\ kind' = kind /\ file' = file
      /\ begun' = begun /\ reused' = reused /\ clean' = clean /\ leftAlone' = leftAlone
    BY <1>1 DEF SaveFails, Active
<1>3. Ages
    BY <1>2, TerminateAges
<1> QED BY <1>2, <1>3, EndsSteps DEF Ends

LEMMA BeginKeeps ==
    ASSUME ProcInv, NEW d \in Dvas, NEW v \in Verbs, Begin(d, v)
    PROVE  ProcInv'
<1>1. /\ Ages /\ file' = file /\ reused' = reused /\ clean' = clean /\ begun' = begun + 1
      /\ ~Active(d) /\ begun < MaxBegun
    BY WorldStays DEF Begin, world
<1>2. /\ dva \in [Dvas -> DvaState] /\ file \in FileStates /\ Started(file)
      /\ begun \in 0..MaxBegun /\ reused \in 0..MaxReuse
    BY ProcTyped DEF ProcInv, WrittenStarted
<1>3. begun' \in 0..MaxBegun /\ Started(file)'
  <2>1. begun' \in 0..MaxBegun
      BY <1>1, <1>2, PidsAssumption
  <2>2. Started(file)'
      BY <1>1, <1>2 DEF Started, Ages
  <2> QED BY <2>1, <2>2
<1>4. ASSUME NEW e \in Dvas \ {d}
      PROVE  /\ dva'[e] \in DvaState /\ Nudged(e)
             /\ (Active(e)' <=> Active(e)) /\ (Active(e)' => ~dva'[e].alone)
  <2>1. CASE Active(e)
    <3>1. dva'[e] = [dva[e] EXCEPT !.alone = FALSE]
        BY <1>4, <2>1 DEF Begin
    <3>2. dva'[e] \in DvaState
        BY <1>2, <1>4, <3>1 DEF DvaState
    <3>3. /\ dva'[e].pc = dva[e].pc /\ dva'[e].verb = dva[e].verb /\ dva'[e].read = dva[e].read
          /\ dva'[e].pid = dva[e].pid /\ dva'[e].halted = dva[e].halted
          /\ dva'[e].alone = FALSE /\ dva'[e].fresh = dva[e].fresh /\ dva'[e].linked = dva[e].linked
        BY <1>2, <1>4, <3>1 DEF DvaState
    <3> QED BY <2>1, <3>2, <3>3 DEF Nudged, Active
  <2>2. CASE ~Active(e)
    <3>1. dva'[e] = dva[e]
        BY <1>4, <2>2 DEF Begin
    <3> QED BY <1>2, <1>4, <2>2, <3>1 DEF Nudged, Active
  <2> QED BY <2>1, <2>2
<1>5. PICK c \in DvaState :
           /\ c = dva'[d] /\ c.pc = (IF v = "up" THEN "upRead" ELSE "read") /\ c.verb = v
           /\ c.read = Absent /\ c.halted = NoPid
           /\ (c.alone => \A o \in Dvas \ {d} : ~Active(o))
  <2>1. PICK o \in BOOLEAN : o = (\A e \in Dvas \ {d} : ~Active(e))
      OBVIOUS
  <2>2. dva'[d] = [NoCommand EXCEPT !.verb = v, !.pc = IF v = "up" THEN "upRead" ELSE "read",
                                    !.alone = \A e \in Dvas \ {d} : ~Active(e)]
      BY Zenon DEF Begin
  <2>3. dva'[d] = [NoCommand EXCEPT !.verb = v, !.pc = IF v = "up" THEN "upRead" ELSE "read",
                                    !.alone = o]
      BY <2>1, <2>2, Zenon
  <2>4. dva'[d] \in DvaState
      BY <2>3 DEF NoCommand, DvaState, Halting, Starting, Verbs
  <2>5. /\ dva'[d].pc = (IF v = "up" THEN "upRead" ELSE "read") /\ dva'[d].verb = v
        /\ dva'[d].read = Absent /\ dva'[d].halted = NoPid /\ dva'[d].alone = o
      BY <2>3 DEF NoCommand
  <2> QED BY <2>1, <2>4, <2>5
<1>6. DvaSound(d)'
  <2>1. Chases(d)'
      BY <1>5, NotPids DEF Chases, Starting, Started, Verbs
  <2> QED BY <1>5, <2>1, NotPids DEF DvaSound, Saves, FindsFresh
<1>7. \A p \in clean : Kept(p) /\ Kept(p)' => file' = p /\ Follows(d, p)'
    BY <1>1, <1>5 DEF ProcInv, Tracked, Follows
<1>8. dva' \in [Dvas -> DvaState]
  <2>1. dva' = [e \in Dvas |-> dva'[e]]
      BY DEF Begin
  <2> QED BY <1>4, <1>5, <2>1
<1>9. DvaMoves(d)
    BY <1>1, <1>2, <1>3, <1>4, <1>6, <1>7, <1>8 DEF DvaMoves, FileNews
<1>10. AloneIs'
    BY <1>4, <1>5 DEF AloneIs, Active
<1> QED BY <1>9, <1>10, MovesKeep

LEMMA WriteKeeps ==
    ASSUME ProcInv, NEW d \in Dvas, Write(d)
    PROVE  ProcInv'
<1>1. /\ Ages /\ begun' = begun /\ reused' = reused /\ dva[d].pc = "write" /\ Active(d)
    BY WorldStays DEF Write, world, Active
<1>2. /\ dva \in [Dvas -> DvaState] /\ file \in FileStates /\ Started(file) /\ DvaSound(d)
      /\ begun \in 0..MaxBegun /\ reused \in 0..MaxReuse /\ clean \subseteq Pids
      /\ \A q \in clean : Started(q)
    BY ProcTyped DEF ProcInv, WrittenStarted
<1>3. PICK p \in Pids : p = dva[d].pid /\ leader[p] # "none"
    BY <1>1, <1>2 DEF DvaSound, Saves
<1>4. /\ file' = (IF dva[d].linked THEN p ELSE file)
      /\ clean' = (IF dva[d].alone THEN clean \cup {p} ELSE clean)
    BY <1>3 DEF Write
<1>5. ASSUME NEW e \in Dvas \ {d}
      PROVE  dva'[e] \in DvaState /\ Nudged(e) /\ FileNews(e) /\ (Active(e)' <=> Active(e))
  <2>1. CASE dva[e].verb = "restart"
    <3>1. dva'[e] = [dva[e] EXCEPT !.fresh = dva[e].fresh \cup {p}]
        BY <1>3, <1>5, <2>1 DEF Write
    <3>2. dva'[e] \in DvaState
        BY <1>2, <1>5, <3>1 DEF DvaState
    <3>3. /\ dva'[e].pc = dva[e].pc /\ dva'[e].verb = dva[e].verb /\ dva'[e].read = dva[e].read
          /\ dva'[e].pid = dva[e].pid /\ dva'[e].halted = dva[e].halted
          /\ dva'[e].alone = dva[e].alone /\ dva'[e].fresh = dva[e].fresh \cup {p}
          /\ dva'[e].linked = dva[e].linked
        BY <1>2, <1>5, <3>1 DEF DvaState
    <3>4. Nudged(e)
        BY <3>3 DEF Nudged
    <3>5. FileNews(e)
        BY <1>4, <3>3 DEF FileNews
    <3> QED BY <3>2, <3>3, <3>4, <3>5 DEF Active
  <2>2. CASE dva[e].verb # "restart"
    <3>1. dva'[e] = dva[e]
        BY <1>5, <2>2 DEF Write
    <3> QED BY <1>2, <1>5, <2>2, <3>1 DEF Nudged, FileNews, Active
  <2> QED BY <2>1, <2>2
<1>6. PICK c \in DvaState : c = dva'[d] /\ c.pc = "ended" /\ c.verb = "up" /\ c.read = Absent
                            /\ c.halted = NoPid
  <2>1. dva'[d] = Ended(TRUE, p)
      BY <1>3 DEF Write
  <2>2. dva'[d] \in DvaState
      BY <2>1 DEF Ended, NoCommand, DvaState, Verbs
  <2>3. /\ dva'[d].pc = "ended" /\ dva'[d].verb = "up" /\ dva'[d].read = Absent
        /\ dva'[d].halted = NoPid
      BY <2>1 DEF Ended, NoCommand
  <2> QED BY <2>2, <2>3
<1>7. dva' \in [Dvas -> DvaState]
  <2>1. dva' = [e \in Dvas |-> dva'[e]]
      BY DEF Write
  <2> QED BY <1>5, <1>6, <2>1
<1>8. TypeOK'
  <2>1. file' \in FileStates /\ clean' \subseteq Pids
      BY <1>2, <1>4 DEF FileStates
  <2>2. leftAlone' \subseteq Pids /\ kind' \in Kinds
      BY <1>1 DEF ProcInv, TypeOK, Ages
  <2> QED BY <1>1, <1>2, <1>7, <2>1, <2>2 DEF TypeOK, Ages, Leaders, Members, DvaState, FileStates
<1>9. AloneIs'
  <2>1. ~Active(d)' /\ \A e \in Dvas \ {d} : dva'[e].alone => dva[e].alone
      BY <1>5, <1>6 DEF Active, Nudged
  <2> QED BY <1>5, <2>1 DEF ProcInv, AloneIs
<1>10. \A q : Started(q) => Started(q)'
    BY <1>1 DEF Started, Ages
<1>11. WrittenStarted'
  <2>1. Started(p)
      BY <1>3 DEF Started
  <2>2. \A q \in clean' : Started(q)
      BY <1>2, <1>4, <2>1
  <2>3. PICK f : f = file' /\ Started(f)
      BY <1>2, <1>4, <2>1
  <2>4. Started(f)'
      BY <1>10, <2>3
  <2> QED BY <1>10, <2>2, <2>3, <2>4 DEF WrittenStarted, Started
<1>12. Tracked'
  <2> SUFFICES ASSUME NEW q \in clean', Kept(q)'
               PROVE  file' = q /\ \A e \in Dvas : Follows(e, q)'
      BY DEF Tracked
  <2>1. q \notin clean
    <3>1. ASSUME q \in clean PROVE FALSE
      <4>1. Kept(q)
          BY <1>1, <1>2, <3>1 DEF Ages, Started
      <4> QED BY <1>1, <3>1, <4>1 DEF ProcInv, Tracked, Follows
    <3> QED BY <3>1
  <2>2. q = p /\ dva[d].alone
      BY <1>4, <2>1
  <2>3. file' = q
      BY <1>1, <1>2, <1>4, <2>2 DEF DvaSound, Saves
  <2>4. ASSUME NEW e \in Dvas PROVE dva'[e].pc = "ended"
      BY <1>1, <1>5, <1>6, <2>2 DEF ProcInv, AloneIs, Active
  <2> QED BY <2>3, <2>4 DEF Follows
<1>13. ASSUME NEW e \in Dvas PROVE DvaSound(e)'
  <2>1. CASE e = d
      BY <1>6, <2>1, EndedSound
  <2>2. CASE e # d
      BY <1>1, <1>5, <2>2, NudgedKeeps
  <2> QED BY <2>1, <2>2
<1> QED BY <1>1, <1>8, <1>9, <1>11, <1>12, <1>13 DEF ProcInv, Ages

\* Processes that end, or a PID that is given away, trouble no command.
LEMMA WorldMoves ==
    ASSUME ProcInv, Ages, UNCHANGED <<file, dva, begun, clean>>, reused' \in 0..MaxReuse
    PROVE  ProcInv'
<1>1. ASSUME NEW e \in Dvas PROVE DvaSound(e)'
    BY NudgedKeeps DEF Nudged, FileNews
<1>2. TypeOK'
    BY ProcTyped DEF ProcInv, Ages, TypeOK, Leaders, Members, DvaState, FileStates
<1>3. AloneIs'
    BY DEF ProcInv, AloneIs, Active
<1>4. WrittenStarted'
    BY DEF ProcInv, WrittenStarted, Started, Ages
<1>5. Tracked'
  <2>1. ASSUME NEW p \in clean, Kept(p)' PROVE Kept(p)
      BY <2>1, ProcTyped DEF ProcInv, WrittenStarted, Started, Ages
  <2> QED BY <2>1 DEF ProcInv, Tracked, Follows
<1> QED BY <1>1, <1>2, <1>3, <1>4, <1>5 DEF ProcInv, Ages

-----------------------------------------------------------------------------
(* Services: the theorems *)

LEMMA ProcInitially == Init => ProcInv
<1> SUFFICES ASSUME Init PROVE ProcInv
    OBVIOUS
<1>1. NoCommand \in DvaState
    BY DEF NoCommand, DvaState, Verbs
<1>2. TypeOK
    BY <1>1, PidsAssumption, ProcTyped DEF Init, Leaders, Members, FileStates
<1>3. AloneIs /\ WrittenStarted /\ Groups /\ Tracked
    BY NotPids DEF Init, AloneIs, WrittenStarted, Groups, Tracked, Active, NoCommand, Started
<1>4. ASSUME NEW d \in Dvas PROVE DvaSound(d)
    BY NotPids DEF Init, NoCommand, DvaSound, Chases, Saves, FindsFresh, Started, Starting
<1> QED BY <1>2, <1>3, <1>4 DEF ProcInv

LEMMA WorksSteps ==
    ASSUME ProcInv, NEW d \in Dvas, Works(d) \/ Crash(d), ~Write(d)
    PROVE  DvaStep(d)
BY ReadSteps, CheckSteps, KillSteps, WaitSteps, UnlinkSteps, UpReadSteps, UpCheckSteps,
   StartFailsSteps, StartSteps, OpenSteps, SaveFailsSteps, CrashSteps DEF Works, Halt, Up

LEMMA ProcInductive == ProcInv /\ [Next]_vars => ProcInv'
<1> SUFFICES ASSUME ProcInv, [Next]_vars PROVE ProcInv'
    OBVIOUS
<1>1. ASSUME NEW d \in Dvas, Works(d) \/ Crash(d) PROVE ProcInv'
    BY <1>1, WriteKeeps, WorksSteps, StepKeeps
<1>2. ASSUME NEW d \in Dvas, NEW v \in Verbs, Begin(d, v) PROVE ProcInv'
    BY <1>2, BeginKeeps
<1>3. reused \in 0..MaxReuse
    BY DEF ProcInv, TypeOK
<1>4. ASSUME NEW p \in Pids, LeaderExits(p) PROVE ProcInv'
    BY <1>3, <1>4, LeaderExitAges, WorldMoves DEF LeaderExits
<1>5. ASSUME NEW p \in Pids, MemberExits(p) PROVE ProcInv'
    BY <1>3, <1>5, MemberExitAges, WorldMoves DEF MemberExits
<1>6. ASSUME NEW p \in Pids, Reuse(p) PROVE ProcInv'
  <2>1. reused' \in 0..MaxReuse
      BY <1>3, <1>6, PidsAssumption DEF Reuse
  <2> QED BY <1>6, <2>1, ReuseAges, WorldMoves DEF Reuse
<1>7. CASE UNCHANGED vars
    BY <1>3, <1>7, WorldStays, WorldMoves DEF vars, world
<1> QED BY <1>1, <1>2, <1>4, <1>5, <1>6, <1>7 DEF Next

THEOREM ProcInvAlways == Spec => []ProcInv
BY ProcInitially, ProcInductive, PTL DEF Spec

\* Every variable of the background process plugin keeps its type.
THEOREM ProcTypes == Spec => []TypeOK
<1>1. ProcInv => TypeOK
    BY DEF ProcInv
<1> QED BY <1>1, ProcInvAlways, PTL

\* The PID file names a service for as long as it is to be kept, if no command
\* overlapped its start: however many commands come after, in whatever order their
\* system calls fall, and whichever of them fail or are killed.
THEOREM TrackedUntilGoneHolds == Spec => []TrackedUntilGone
<1>1. ProcInv => TrackedUntilGone
    BY DEF ProcInv, Tracked, TrackedUntilGone
<1> QED BY <1>1, ProcInvAlways, PTL

\* While such a service is to be kept no command starts another.
THEOREM NoSecondStartHolds == Spec => NoSecondStart
<1>1. ProcInv /\ [Next]_vars =>
        [(\E d \in Dvas : dva[d].pc = "start" /\ dva'[d].pc = "open")
           => \A p \in clean : ~Kept(p)]_vars
    BY DEF ProcInv, Tracked, Follows
<1> QED BY <1>1, ProcInvAlways, PTL DEF Spec, NoSecondStart

\* A command that ended has nothing more to answer for.
LEMMA EndedMeans ==
    ASSUME ProcInv, NEW d \in Dvas, ~Active(d)
    PROVE  Replaced(d) /\ HaltedIt(d)
<1>1. dva[d].verb = "up" /\ dva[d].halted = NoPid
    BY DEF ProcInv, DvaSound, Chases, Active
<1> QED BY <1>1, NotPids DEF Replaced, HaltedIt

LEMMA NotEndedWell ==
    ASSUME ProcInv, NEW d \in Dvas
    PROVE  /\ \A q \in Halting \cup Starting : Goto(d, q) => Active(d)'
           /\ Ends(d, FALSE) => ~dva'[d].ok
<1>1. ASSUME NEW q \in Halting \cup Starting, Goto(d, q) PROVE Active(d)'
    BY <1>1, GotoIs DEF Active, Halting, Starting
<1>2. ASSUME Ends(d, FALSE) PROVE ~dva'[d].ok
  <2>1. dva' = [dva EXCEPT ![d] = Ended(FALSE, NoPid)]
      BY <1>2 DEF Ends, Set
  <2>2. dva'[d] = Ended(FALSE, NoPid)
      BY <2>1, ProcTyped DEF ProcInv
  <2> QED BY <2>2 DEF Ended, NoCommand
<1> QED BY <1>1, <1>2

LEMMA HaltedMeans ==
    ASSUME ProcInv, Ages, leftAlone' = leftAlone, NEW d \in Dvas,
           \A p \in Pids : dva[d].halted = p => HaltDone(p) \/ HaltDone(p)',
           dva[d].verb = "down" => file' \notin Pids
    PROVE  HaltedIt(d)
<1> SUFFICES ASSUME NEW p \in Pids, p = dva[d].halted
             PROVE  ~Kept(p)' /\ (member'[p] = "up" => p \in leftAlone)
                    /\ (dva[d].verb = "down" => file' # p)
    BY DEF HaltedIt
<1>1. leader[p] # "none"
    BY DEF ProcInv, DvaSound, Chases, Started
<1>2. (Kept(p)' => Kept(p)) /\ (member'[p] = "up" => member[p] = "up")
    BY <1>1 DEF Ages
<1>3. HaltDone(p) \/ HaltDone(p)'
    OBVIOUS
<1> QED BY <1>2, <1>3 DEF HaltDone

\* Of a step that brings a command to a good end.
LEMMA HaltedEndMeans ==
    ASSUME ProcInv, Ages, leftAlone' = leftAlone, NEW d \in Dvas, Halted(d), ~Active(d)',
           dva[d].verb # "down",
           \A p \in Pids : dva[d].halted = p => HaltDone(p) \/ HaltDone(p)'
    PROVE  Replaced(d) /\ HaltedIt(d)
<1>1. dva[d].verb # "restart"
    BY NotEndedWell DEF Halted, Starting
<1> QED BY <1>1, HaltedMeans DEF Replaced

LEMMA GoneMeans ==
    ASSUME ProcInv, Ages, leftAlone' = leftAlone, NEW d \in Dvas, Gone(d), ~Active(d)',
           dva[d].pc \in {"check", "wait"}, ~IsProcessRunning(dva[d].read)
    PROVE  Replaced(d) /\ HaltedIt(d)
<1>1. PICK r \in Pids : r = dva[d].read /\ dva[d].halted = r
        /\ leader[r] \notin {"none", "up", "ending"}
    BY ProcTyped DEF ProcInv, DvaSound, Chases, Started, IsProcessRunning, Leaders
<1>2. HaltDone(r)
    BY <1>1, ProcTyped DEF ProcInv, HaltDone, Kept, Background, Groups, IsProcessRunning, Leaders
<1>3. dva[d].verb # "down"
    BY NotEndedWell DEF Gone, Halting
<1> QED BY <1>1, <1>2, <1>3, HaltedEndMeans DEF Gone

LEMMA WorksMeans ==
    ASSUME ProcInv, NEW d \in Dvas, Works(d) \/ Crash(d), Ages, ~Active(d)', dva'[d].ok
    PROVE  Replaced(d) /\ HaltedIt(d)
<1>1. DvaSound(d) /\ leftAlone' = leftAlone /\ dva \in [Dvas -> DvaState] /\ file \in FileStates
    BY ProcTyped DEF ProcInv, Works, Halt, Up, Read, Check, Kill, WaitForExit, Unlink, UpRead,
       UpCheck, StartFails, Start, Open, Write, SaveFails, Crash, world
<1>2. ~Crash(d) /\ ~StartFails(d) /\ ~SaveFails(d)
    BY NotEndedWell DEF Crash, StartFails, SaveFails
<1>3. ~Start(d) /\ ~Open(d)
  <2>1. ASSUME Start(d) PROVE Active(d)'
    <3>1. PICK p : dva'[d] = [dva[d] EXCEPT !.pid = p, !.pc = "open"]
        BY <1>1, <2>1 DEF Start, Set
    <3> QED BY <1>1, <3>1 DEF DvaState, Active
  <2>2. ASSUME Open(d) PROVE Active(d)'
    <3>1. dva'[d] = [dva[d] EXCEPT !.pc = "write", !.linked = TRUE]
        BY <1>1, <2>2 DEF Open, Set
    <3> QED BY <1>1, <3>1 DEF DvaState, Active
  <2> QED BY <2>1, <2>2
<1>4. ~UpRead(d)
  <2>1. ASSUME UpRead(d)
        PROVE  dva'[d] = [dva[d] EXCEPT !.read = file,
                            !.pc = IF file \in Pids \cup {Unsafe} THEN "upCheck" ELSE "start"]
      BY <1>1, <2>1 DEF UpRead, Set
  <2> QED BY <1>1, <2>1 DEF DvaState, Active
<1>5. CASE Write(d)
  <2>1. dva[d].verb # "down" /\ \A p \in Pids : dva[d].halted = p => HaltDone(p)
      BY <1>1, <1>5 DEF Write, DvaSound, Chases, Starting
  <2>2. dva'[d].result = dva[d].pid
    <3>1. dva'[d] = Ended(TRUE, dva[d].pid)
        BY <1>5 DEF Write
    <3> QED BY <3>1 DEF Ended, NoCommand
  <2> QED BY <1>1, <2>1, <2>2, HaltedMeans DEF Replaced
<1>6. CASE UpCheck(d)
  <2>1. dva[d].pc = "upCheck" /\ dva[d].verb # "down" /\ \A p \in Pids : dva[d].halted = p
          => HaltDone(p)
      BY <1>1, <1>6 DEF UpCheck, DvaSound, Chases, Starting
  <2>2. ~Goto(d, "start")
      BY NotEndedWell DEF Starting
  <2>3. Set(d, Ended(TRUE, IF dva[d].read \in Pids /\ Running(dva[d].read)
                           THEN dva[d].read ELSE NoPid))
      BY <1>6, <2>2 DEF UpCheck
  <2>4. PICK p : /\ p = IF dva[d].read \in Pids /\ Running(dva[d].read) THEN dva[d].read ELSE NoPid
                 /\ Set(d, Ended(TRUE, p))
      BY <2>3
  <2>5. dva'[d] = Ended(TRUE, p)
      BY <1>1, <2>4 DEF Set
  <2>6. dva'[d].result = p
      BY <2>5 DEF Ended, NoCommand
  <2>7. Replaced(d)
      BY <1>1, <2>1, <2>4, <2>6 DEF Replaced, DvaSound, FindsFresh
  <2> QED BY <1>1, <2>1, <2>7, HaltedMeans
<1>7. CASE Unlink(d)
  <2>1. dva[d].pc = "unlink" /\ file' \notin Pids /\ \A p \in Pids : dva[d].halted = p
          => HaltDone(p)
      BY <1>1, <1>7, NotPids DEF Unlink, DvaSound, Chases
  <2>2. dva[d].verb # "restart"
    <3>1. ASSUME dva[d].verb = "restart" PROVE FALSE
      <4>1. dva'[d] = [dva[d] EXCEPT !.pc = "upRead"]
          BY <1>7, <3>1, Zenon DEF Unlink
      <4> QED BY <1>1, <4>1 DEF DvaState, Active
    <3> QED BY <3>1
  <2> QED BY <1>1, <2>1, <2>2, HaltedMeans DEF Replaced
<1>8. CASE WaitForExit(d)
  <2>1. ~IsProcessRunning(dva[d].read)
      BY <1>8, NotEndedWell DEF WaitForExit, GiveUp
  <2> QED BY <1>1, <1>8, <2>1, GoneMeans DEF WaitForExit
<1>9. CASE Check(d)
  <2>1. ~IsProcessRunning(dva[d].read)
      BY <1>9, NotEndedWell DEF Check, Halting
  <2> QED BY <1>1, <1>9, <2>1, GoneMeans DEF Check
<1>10. CASE Kill(d)
  <2>1. PICK r \in Pids : r = dva[d].read /\ dva[d].halted = r
      BY <1>1, <1>10 DEF DvaSound, Chases, Kill
  <2>2. ~Goto(d, "unlink") /\ ~Goto(d, "wait") /\ ~Ends(d, FALSE)
      BY NotEndedWell DEF Halting
  <2>3. ~GroupExists(r)
      BY <1>10, <2>1, <2>2 DEF Kill
  <2>4. Halted(d) /\ dva[d].verb # "down"
      BY <1>10, <2>1, <2>2, <2>3, Zenon DEF Kill
  <2>5. HaltDone(r)
      BY <2>3, ProcTyped DEF ProcInv, GroupExists, Running, HaltDone, Kept, Background
  <2> QED BY <1>1, <2>1, <2>4, <2>5, HaltedEndMeans
<1>11. CASE Read(d)
  <2>1. HaltedIt(d)
      BY <1>1, <1>11, NotPids DEF DvaSound, Chases, Read, HaltedIt
  <2>2. Halted(d)
      BY <1>11, ReadIs, NotEndedWell DEF Active
  <2> QED BY <2>1, <2>2, NotEndedWell DEF Halted, Replaced, Starting
<1> QED BY <1>2, <1>3, <1>4, <1>5, <1>6, <1>7, <1>8, <1>9, <1>10, <1>11 DEF Works, Halt, Up

\* Nobody ends the command of another.
LEMMA OthersGoOn ==
    ASSUME ProcInv, NEW e \in Dvas, NEW d \in Dvas \ {e}, Active(d),
           (\E v \in Verbs : Begin(e, v)) \/ Works(e) \/ Crash(e)
    PROVE  Active(d)'
<1>1. dva \in [Dvas -> DvaState]
    BY ProcTyped DEF ProcInv
<1>2. CASE \E v \in Verbs : Begin(e, v)
  <2>1. dva'[d] = [dva[d] EXCEPT !.alone = FALSE]
      BY <1>2 DEF Begin
  <2> QED BY <1>1, <2>1 DEF Active, DvaState
<1>3. CASE Write(e)
  <2>1. dva'[d] = [dva[d] EXCEPT !.fresh = dva[d].fresh \cup {dva[e].pid}] \/ dva'[d] = dva[d]
      BY <1>3 DEF Write
  <2> QED BY <1>1, <2>1 DEF Active, DvaState
<1>4. CASE (Works(e) \/ Crash(e)) /\ ~Write(e)
    BY <1>4, WorksSteps DEF DvaStep, DvaMoves, Nudged, Active
<1> QED BY <1>2, <1>3, <1>4

\* What stop, down and restart report done is done.
THEOREM CommandsMeanItHolds == Spec => CommandsMeanIt
<1>1. ASSUME ProcInv, ProcInv', [Next]_vars
      PROVE  [\A d \in Dvas : ~Active(d)' /\ dva'[d].ok => Replaced(d) /\ HaltedIt(d)]_vars
  <2> SUFFICES ASSUME Next, NEW d \in Dvas, ~Active(d)', dva'[d].ok
               PROVE  Replaced(d) /\ HaltedIt(d)
      BY <1>1
  <2>1. CASE ~Active(d)
      BY <1>1, <2>1, EndedMeans
  <2>2. CASE Active(d)
    <3>1. dva' # dva
        BY <2>2 DEF Active
    <3>2. ~ \E p \in Pids : LeaderExits(p) \/ MemberExits(p) \/ Reuse(p)
        BY <3>1 DEF LeaderExits, MemberExits, Reuse
    <3>3. PICK e \in Dvas : (\E v \in Verbs : Begin(e, v)) \/ Works(e) \/ Crash(e)
        BY <3>2 DEF Next
    <3>4. e = d
        BY <1>1, <2>2, <3>3, OthersGoOn
    <3>5. Works(d) \/ Crash(d)
        BY <2>2, <3>3, <3>4 DEF Begin
    <3>6. Ages
      <4>1. CASE Write(d)
          BY <1>1, <4>1, WorldStays DEF Write
      <4>2. CASE ~Write(d)
          BY <1>1, <3>5, <4>2, WorksSteps DEF DvaStep, DvaMoves
      <4> QED BY <4>1, <4>2
    <3> QED BY <1>1, <3>5, <3>6, WorksMeans
  <2> QED BY <2>1, <2>2
<1> QED BY <1>1, ProcInvAlways, PTL DEF Spec, CommandsMeanIt

-----------------------------------------------------------------------------
(* What git and dva read in .gitignore *)

PathsToIgnore == Probes \cup {ModuleProbe}

\* A set of numbers has a first one.
LEMMA NatHasFirst ==
    ASSUME NEW T, T \subseteq Nat, T # {}
    PROVE  \E j \in T : \A k \in T : j <= k
<1> DEFINE R == OpToRel(<, Nat)
<1>1. IsWellFoundedOn(R, Nat)
    BY Zenon, NatLessThanWellFounded
<1>2. \A ss \in Nat \X Nat : ss[1] < ss[2] => ss \in R
    BY Zenon DEF OpToRel
<1> HIDE DEF R
<1>3. PICK j \in T : \A k \in T : ~(<<k, j>> \in R)
    BY Zenon, <1>1, WFMin
<1>4. ASSUME NEW m \in Nat, NEW n \in Nat, m < n PROVE <<m, n>> \in R
  <2>1. <<m, n>> \in Nat \X Nat /\ <<m, n>>[1] = m /\ <<m, n>>[2] = n
      OBVIOUS
  <2> QED BY Zenon, <1>2, <1>4, <2>1
<1>5. \A k \in T : k \in Nat /\ j \in Nat /\ ~(k < j)
    BY <1>3, <1>4
<1> QED BY <1>5

\* A set of positions has a last and a first one.
LEMMA LastPosition ==
    ASSUME NEW n \in Nat, NEW S, S \subseteq 1..n, S # {}
    PROVE  /\ Max(S) \in S /\ \A i \in S : i <= Max(S)
           /\ Min(S) \in S /\ \A i \in S : Min(S) <= i
<1> DEFINE T == {n - i : i \in S}
<1>0. \A i \in S : i \in Nat /\ n - i \in Nat
    OBVIOUS
<1>1. T \subseteq Nat /\ T # {} /\ S \subseteq Nat
    BY <1>0
<1>2. PICK t \in T : \A k \in T : t <= k
    BY <1>1, NatHasFirst
<1>3. PICK m \in S : t = n - m
    BY <1>2
<1>4. \A i \in S : i \in Nat /\ n - i \in T
    BY <1>1
<1>5. \A i \in S : m >= i
  <2> SUFFICES ASSUME NEW i \in S PROVE m >= i
      OBVIOUS
  <2>1. n - m <= n - i /\ i \in Nat /\ m \in Nat
      BY <1>2, <1>3, <1>4
  <2> QED BY <2>1
<1>6. Max(S) \in S /\ \A i \in S : Max(S) >= i
    BY <1>5, Zenon DEF Max
<1>7. \E j \in S : \A k \in S : j <= k
    BY <1>1, NatHasFirst
<1>8. Min(S) \in S /\ \A i \in S : Min(S) <= i
    BY <1>7, Zenon DEF Min
<1> QED BY <1>4, <1>6, <1>8

\* The beginning of a path.
LEMMA FirstOf ==
    ASSUME NEW path \in Seq(Segments), NEW n \in 0..Len(path)
    PROVE  /\ First(path, n) \in Seq(Segments) /\ Len(First(path, n)) = n
           /\ \A i \in 1..n : First(path, n)[i] = path[i]
<1>1. Len(path) \in Nat /\ n \in Nat /\ n <= Len(path)
    BY LenProperties
<1>2. \A i \in 1..n : path[i] \in Segments /\ 1 + i - 1 = i
    BY <1>1, ElementOfSeq
<1> QED BY <1>1, <1>2, SubSeqProperties DEF First

LEMMA DotDirShape ==
    DotDir \in Seq(Segments) /\ Len(DotDir) = 2 /\ DotDir[1] = ".sb" /\ DotDir[2] = "dva"
BY GitIgnoreAssumption DEF DotDir

\* Which names are on the way to what dva leaves, and to a module.
LEMMA PathShape ==
    ASSUME NEW p \in PathsToIgnore
    PROVE  /\ p \in Seq(Segments) /\ Len(p) \in {3, 4} /\ DOMAIN p = 1..Len(p)
           /\ p[1] = ".sb" /\ p[2] = "dva" /\ p[3] \in StateNames \cup {"probe.yml"}
           /\ p \in Probes => p[3] \in StateNames
           /\ p = ModuleProbe => p[3] = "probe.yml" /\ Len(p) = 3
<1>1. ASSUME NEW q \in Seq(Segments), Len(q) \in {1, 2}, p = DotDir \o q
      PROVE  /\ p \in Seq(Segments) /\ Len(p) = Len(q) + 2 /\ DOMAIN p = 1..Len(p)
             /\ p[1] = ".sb" /\ p[2] = "dva" /\ p[3] = q[1]
  <2>0. /\ DotDir \o q \in Seq(Segments) /\ Len(DotDir \o q) = Len(DotDir) + Len(q)
        /\ \A i \in 1..(Len(DotDir) + Len(q)) :
              (DotDir \o q)[i] = IF i <= Len(DotDir) THEN DotDir[i] ELSE q[i - Len(DotDir)]
      BY DotDirShape, ConcatProperties
  <2>1. /\ p \in Seq(Segments) /\ Len(p) = 2 + Len(q)
        /\ \A i \in 1..(2 + Len(q)) : p[i] = IF i <= 2 THEN DotDir[i] ELSE q[i - 2]
      BY <1>1, <2>0, DotDirShape
  <2>2. 1 \in 1..(2 + Len(q)) /\ 2 \in 1..(2 + Len(q)) /\ 3 \in 1..(2 + Len(q))
    <3>1. Len(q) = 1 \/ Len(q) = 2
        BY <1>1
    <3> QED BY <3>1
  <2>3. DOMAIN p = 1..Len(p)
      BY <2>1, LenProperties
  <2> QED BY <1>1, <2>1, <2>2, <2>3, DotDirShape
<1>2. ASSUME p \in Probes
      PROVE  /\ p \in Seq(Segments) /\ Len(p) \in {3, 4} /\ DOMAIN p = 1..Len(p)
             /\ p[1] = ".sb" /\ p[2] = "dva" /\ p[3] \in StateNames
  <2>1. PICK q \in {<<"pids", "probe.pid">>, <<"logs", "probe.log">>, <<"sources", "probe">>,
                    <<"provisioned-probe.marker">>} : p = DotDir \o q
      BY <1>2 DEF Probes
  <2>2. q \in Seq(Segments) /\ Len(q) \in {1, 2} /\ q[1] \in StateNames
    <3>1. \A s \in StateNames, t \in {"probe.pid", "probe.log", "probe"} :
             /\ <<s, t>> \in Seq(Segments) /\ Len(<<s, t>>) = 2 /\ <<s, t>>[1] = s
             /\ <<s>> \in Seq(Segments) /\ Len(<<s>>) = 1 /\ <<s>>[1] = s
        BY GitIgnoreAssumption
    <3>2. \E s \in StateNames, t \in {"probe.pid", "probe.log", "probe"} : q = <<s, t>> \/ q = <<s>>
        BY DEF StateNames
    <3> QED BY <3>1, <3>2
  <2> QED BY <1>1, <2>1, <2>2
<1>3. /\ ModuleProbe \in Seq(Segments) /\ Len(ModuleProbe) = 3 /\ ModuleProbe[3] = "probe.yml"
      /\ ModuleProbe[1] = ".sb" /\ ModuleProbe[2] = "dva" /\ DOMAIN ModuleProbe = 1..3
  <2>1. <<"probe.yml">> \in Seq(Segments) /\ Len(<<"probe.yml">>) = 1
      BY GitIgnoreAssumption
  <2>2. /\ ModuleProbe \in Seq(Segments) /\ Len(ModuleProbe) = 2 + 1
        /\ \A i \in 1..(2 + 1) : ModuleProbe[i] = IF i <= 2 THEN DotDir[i] ELSE <<"probe.yml">>[i - 2]
      BY <2>1, DotDirShape, ConcatProperties DEF ModuleProbe
  <2>3. DOMAIN ModuleProbe = 1..Len(ModuleProbe)
      BY <2>2, LenProperties
  <2> QED BY <2>2, <2>3, DotDirShape
<1> QED BY <1>2, <1>3 DEF PathsToIgnore

\* The directories on that way.
LEMMA WayDown ==
    ASSUME NEW p \in PathsToIgnore, NEW n \in {1, 2}
    PROVE  First(p, n) = First(DotDir, n)
<1>1. /\ p \in Seq(Segments) /\ n \in 0..Len(p) /\ DotDir \in Seq(Segments) /\ n \in 0..Len(DotDir)
      /\ \A i \in 1..n : p[i] = DotDir[i]
    BY PathShape, DotDirShape
<1>2. /\ First(p, n) \in Seq(Segments) /\ First(DotDir, n) \in Seq(Segments)
      /\ Len(First(p, n)) = n /\ Len(First(DotDir, n)) = n
      /\ \A i \in 1..n : First(p, n)[i] = First(DotDir, n)[i]
    BY <1>1, FirstOf
<1> QED BY <1>2, SeqEqual

LEMMA NamingPositions ==
    ASSUME NEW lines \in Seq(Lines), NEW p, NEW n
    PROVE  Len(lines) \in Nat /\ Naming(lines, p, n) \subseteq 1..Len(lines)
BY DEF Naming

\* What git goes by is in a clone too.
LEMMA GitTells ==
    ASSUME NEW lines \in Seq(Lines), own \in Seq(Lines), NEW p \in PathsToIgnore,
           Source(lines, p) = "shared"
    PROVE  CloneIgnores(lines, p)
<1> DEFINE excluder == [n \in DOMAIN p |-> Excluder(lines, p, n)]
           levels == {n \in DOMAIN p : excluder[n] # "none"}
<1>1. levels # {} /\ excluder[Min(levels)] = "shared"
    BY DEF Source
<1>2. DOMAIN p = 1..Len(p) /\ Len(p) \in Nat
    BY PathShape
<1>3. Min(levels) \in levels
    BY <1>1, <1>2, LastPosition
<1>4. PICK n \in DOMAIN p : Excluder(lines, p, n) = "shared"
    BY <1>1, <1>3
<1>5. Naming(lines, p, n) # {} /\ ~lines[Max(Naming(lines, p, n))].neg
    BY <1>4 DEF Excluder
<1> QED BY <1>5 DEF CloneIgnores, CloneExcludes

\* Whichever line names a path, the reader would know it for one that may.
LEMMA Reached ==
    ASSUME NEW line \in Lines, NEW path \in Seq(Segments), NEW isDir, Names(line, path, isDir)
    PROVE  \/ \E k \in DOMAIN line.parts : line.parts[k] = "**"
           \/ Len(line.parts) > 1 /\ FitAll(line.parts, path)
           \/ Len(line.parts) = 1 /\ Fits(line.parts[1], Base(path))
<1>1. line.parts \in Seq(Segments) /\ Len(line.parts) \in Nat \ {0} /\ DOMAIN line.parts = 1..Len(line.parts)
    BY EmptySeq, LenProperties DEF Lines
<1>2. Len(line.parts) = 1 \/ Len(line.parts) > 1
  <2>1. \A m \in Nat \ {0} : m = 1 \/ m > 1
      OBVIOUS
  <2> QED BY <1>1, <2>1, Zenon
<1>3. CASE line.lead \/ Len(line.parts) > 1
  <2>1. FitAll(line.parts, path) \/ \E k \in DOMAIN line.parts : line.parts[k] = "**"
      BY <1>3, Zenon DEF Names, FitsPath
  <2>2. ASSUME FitAll(line.parts, path), Len(line.parts) = 1 PROVE Fits(line.parts[1], Base(path))
      BY <1>1, <2>2 DEF FitAll, Base
  <2> QED BY <1>2, <2>1, <2>2, Zenon
<1>4. CASE ~(line.lead \/ Len(line.parts) > 1)
  <2>1. Fits(line.parts[1], Base(path))
      BY <1>4, Zenon DEF Names
  <2> QED BY <1>2, <1>4, <2>1, Zenon
<1> QED BY <1>3, <1>4

\* A spelling that names a directory on the way, with no negation behind it that
\* may name that directory again, excludes it for git as well.
LEMMA SpellingTells ==
    ASSUME NEW lines \in Seq(Lines), NEW p \in PathsToIgnore, NEW n \in 1..Len(p),
           NEW spelt, NEW candidates, Excludes(lines, spelt, candidates),
           spelt \subseteq Naming(lines, p, n), First(p, n) \in candidates
    PROVE  CloneIgnores(lines, p)
<1> DEFINE at == Max(spelt)
           named == Naming(lines, p, n)
           last == Max(named)
<1>1. spelt # {} /\ ~lines[at].neg /\ ~NegationReaches(lines, at, candidates)
    BY DEF Excludes, LastMatchExcludes
<1>2. Len(lines) \in Nat /\ named \subseteq 1..Len(lines) /\ DOMAIN lines = 1..Len(lines)
    BY NamingPositions
<1>3. at \in spelt /\ last \in named /\ at <= last
    BY <1>1, <1>2, LastPosition
<1>4. ~lines[last].neg
  <2> SUFFICES ASSUME lines[last].neg PROVE FALSE
      OBVIOUS
  <2>1. last > at /\ last \in DOMAIN lines
      BY <1>1, <1>2, <1>3
  <2>2. lines[last] \in Lines /\ Names(lines[last], First(p, n), n < Len(p))
      BY <1>2, <1>3 DEF Naming
  <2>3. p \in Seq(Segments) /\ n \in Nat /\ First(p, n) \in Seq(Segments)
      BY PathShape, FirstOf
  <2>4. \/ \E k \in DOMAIN lines[last].parts : lines[last].parts[k] = "**"
        \/ Len(lines[last].parts) > 1 /\ FitAll(lines[last].parts, First(p, n))
        \/ Len(lines[last].parts) = 1 /\ Fits(lines[last].parts[1], Base(First(p, n)))
      BY <2>2, <2>3, Reached
  <2> QED BY <1>1, <2>1, <2>4, Zenon DEF NegationReaches
<1>5. named # {} /\ n \in DOMAIN p
    BY <1>3, PathShape
<1> QED BY <1>4, <1>5 DEF CloneIgnores, CloneExcludes

\* dva's own reader never claims what git would not.
LEMMA ReaderTells ==
    ASSUME NEW lines \in Seq(Lines), NEW p \in Probes, IsDvaIgnored(lines)
    PROVE  CloneIgnores(lines, p)
<1>1. p \in PathsToIgnore
    BY DEF PathsToIgnore
<1>2. PICK n \in DOMAIN DotDir :
        \/ Excludes(lines, PathSpellings(lines, First(DotDir, n)), {First(DotDir, n)})
        \/ Excludes(lines, ContentsSpellings(lines, First(DotDir, n)), ChildrenOf(First(DotDir, n)))
    BY DEF IsDvaIgnored
<1>3. n \in {1, 2} /\ n \in 1..Len(p) /\ n + 1 \in 1..Len(p) /\ n < Len(p)
    BY <1>1, PathShape DEF DotDir
<1> DEFINE dir == First(DotDir, n)
<1>4. /\ dir = First(p, n) /\ Len(dir) = n /\ dir \in Seq(Segments)
      /\ \A i \in 1..n : dir[i] = p[i]
  <2>1. dir = First(p, n) /\ p \in Seq(Segments) /\ n \in 0..Len(p)
      BY <1>1, <1>3, WayDown, PathShape
  <2> QED BY <2>1, FirstOf
<1>5. CASE Excludes(lines, PathSpellings(lines, dir), {dir})
  <2>1. ASSUME NEW i \in DOMAIN lines, lines[i].parts = dir PROVE Names(lines[i], First(p, n), n < Len(p))
    <3>1. \A k \in 1..n : Fits(dir[k], dir[k])
        BY DEF Fits
    <3>2. FitAll(dir, First(p, n))
        BY <1>4, <3>1 DEF FitAll
    <3>3. Len(dir) = 1 => Fits(dir[1], Base(First(p, n)))
        BY <1>4, <3>1 DEF Base
    <3>4. Len(dir) > 1 \/ Len(dir) = 1
        BY <1>3, <1>4
    <3> QED BY <1>3, <2>1, <3>2, <3>3, <3>4 DEF Names, FitsPath
  <2>2. PathSpellings(lines, dir) \subseteq Naming(lines, p, n)
      BY <2>1 DEF PathSpellings, Naming
  <2> QED BY <1>1, <1>3, <1>4, <1>5, <2>2, SpellingTells
<1>6. CASE Excludes(lines, ContentsSpellings(lines, dir), ChildrenOf(dir))
  <2>1. p[n + 1] \in {"dva"} \cup StateNames
      BY <1>1, <1>3, PathShape
  <2>2. Fits("*", p[n + 1])
      BY <2>1, GitIgnoreAssumption DEF Fits
  <2>3. /\ First(p, n + 1) \in Seq(Segments) /\ Len(First(p, n + 1)) = n + 1
        /\ \A i \in 1..(n + 1) : First(p, n + 1)[i] = p[i]
      BY <1>1, <1>3, PathShape, FirstOf
  <2>4. /\ dir \o <<"*">> \in Seq(Segments) /\ Len(dir \o <<"*">>) = n + 1
        /\ \A i \in 1..n : (dir \o <<"*">>)[i] = p[i]
        /\ (dir \o <<"*">>)[n + 1] = "*"
    <3>1. <<"*">> \in Seq(Segments) /\ Len(<<"*">>) = 1 /\ <<"*">>[1] = "*"
        BY GitIgnoreAssumption
    <3>2. /\ dir \o <<"*">> \in Seq(Segments) /\ Len(dir \o <<"*">>) = n + 1
          /\ \A i \in 1..(n + 1) : (dir \o <<"*">>)[i] = IF i <= n THEN dir[i] ELSE <<"*">>[i - n]
        BY <1>4, <3>1, ConcatProperties
    <3> HIDE DEF dir
    <3> QED BY <1>3, <1>4, <3>1, <3>2
  <2>5. FitAll(dir \o <<"*">>, First(p, n + 1))
    <3>1. \A i \in 1..(n + 1) : Fits((dir \o <<"*">>)[i], First(p, n + 1)[i])
      <4> SUFFICES ASSUME NEW i \in 1..(n + 1) PROVE Fits((dir \o <<"*">>)[i], First(p, n + 1)[i])
          OBVIOUS
      <4>1. CASE i = n + 1
          BY <4>1, <2>2, <2>3, <2>4
      <4>2. CASE i \in 1..n
          BY <4>2, <2>3, <2>4 DEF Fits
      <4>3. n \in Nat
          BY <1>3
      <4>4. i = n + 1 \/ i \in 1..n
          BY <4>3
      <4> QED BY <4>1, <4>2, <4>4
    <3> QED BY <2>3, <2>4, <3>1 DEF FitAll
  <2>6. ASSUME NEW i \in DOMAIN lines, lines[i].parts = dir \o <<"*">>, ~lines[i].slash
        PROVE  Names(lines[i], First(p, n + 1), n + 1 < Len(p))
    <3>1. Len(lines[i].parts) > 1
        BY <1>3, <2>4, <2>6
    <3> QED BY <2>5, <2>6, <3>1 DEF Names, FitsPath
  <2>7. ContentsSpellings(lines, dir) \subseteq Naming(lines, p, n + 1)
      BY <2>6 DEF ContentsSpellings, Naming
  <2>8. First(p, n + 1) \in ChildrenOf(dir)
      BY <1>4 DEF ChildrenOf
  <2> QED BY <1>1, <1>3, <1>6, <2>7, <2>8, SpellingTells
<1> QED BY <1>2, <1>5, <1>6

\* What a call of ensureGitignore that need not write has seen.
LEMMA DeclaresTells ==
    ASSUME IgnoreTypeOK, NEW git \in BOOLEAN, AlreadyDeclares(git), NEW p \in Probes
    PROVE  CloneIgnores(ignore, p)
<1>1. ignore \in Seq(Lines) /\ own \in Seq(Lines) /\ p \in PathsToIgnore
    BY GitIgnoreAssumption DEF IgnoreTypeOK, PathsToIgnore
<1> QED BY <1>1, GitTells, ReaderTells DEF AlreadyDeclares, DeclaredHere

-----------------------------------------------------------------------------
(* The block that dva writes *)

LEMMA BlockShape ==
    /\ Block \in Seq(Lines) /\ Len(Block) = 2
    /\ ~Block[1].neg /\ Block[2].neg
    /\ \A i \in {1, 2} :
         /\ ~Block[i].lead /\ ~Block[i].slash
         /\ Block[i].parts \in Seq(Segments) /\ Len(Block[i].parts) = 3
         /\ Block[i].parts[1] = ".sb" /\ Block[i].parts[2] = "dva"
    /\ Block[1].parts = DotDir \o <<"*">> /\ Block[2].parts = DotDir \o <<"*.yml">>
    /\ Block[1].parts[3] = "*" /\ Block[2].parts[3] = "*.yml"
<1>1. ASSUME NEW g \in Segments
      PROVE  /\ DotDir \o <<g>> \in Seq(Segments) /\ Len(DotDir \o <<g>>) = 3
             /\ (DotDir \o <<g>>)[1] = ".sb" /\ (DotDir \o <<g>>)[2] = "dva" /\ (DotDir \o <<g>>)[3] = g
             /\ DotDir \o <<g>> # <<>>
  <2>1. <<g>> \in Seq(Segments) /\ Len(<<g>>) = 1 /\ <<g>>[1] = g
      OBVIOUS
  <2>2. /\ DotDir \o <<g>> \in Seq(Segments) /\ Len(DotDir \o <<g>>) = 2 + 1
        /\ \A i \in 1..(2 + 1) : (DotDir \o <<g>>)[i] = IF i <= 2 THEN DotDir[i] ELSE <<g>>[i - 2]
      BY <2>1, DotDirShape, ConcatProperties
  <2>3. DotDir \o <<g>> # <<>>
      BY <2>2, EmptySeq
  <2> QED BY <2>1, <2>2, <2>3, DotDirShape
<1>2. "*" \in Segments /\ "*.yml" \in Segments
    BY GitIgnoreAssumption
<1> DEFINE b1 == Line(FALSE, FALSE, DotDir \o <<"*">>, FALSE)
           b2 == Line(TRUE, FALSE, DotDir \o <<"*.yml">>, FALSE)
<1>3. b1 \in Lines /\ b2 \in Lines
    BY <1>1, <1>2 DEF Line, Lines
<1>4. /\ ~b1.neg /\ ~b1.lead /\ ~b1.slash /\ b1.parts = DotDir \o <<"*">>
      /\ b2.neg /\ ~b2.lead /\ ~b2.slash /\ b2.parts = DotDir \o <<"*.yml">>
    BY DEF Line
<1>5. Block = <<b1, b2>>
    BY DEF Block
<1> HIDE DEF b1, b2
<1>6. Block \in Seq(Lines) /\ Len(Block) = 2 /\ Block[1] = b1 /\ Block[2] = b2
  <2>1. ASSUME NEW S, NEW x \in S, NEW y \in S
        PROVE  <<x, y>> \in Seq(S) /\ Len(<<x, y>>) = 2 /\ <<x, y>>[1] = x /\ <<x, y>>[2] = y
      OBVIOUS
  <2>2. <<b1, b2>> \in Seq(Lines) /\ Len(<<b1, b2>>) = 2 /\ <<b1, b2>>[1] = b1 /\ <<b1, b2>>[2] = b2
      BY <1>3, <2>1
  <2> HIDE DEF b1, b2
  <2>3. Block[1] = b1 /\ Block[2] = b2
      BY <1>5, <2>2, Zenon
  <2>4. Block \in Seq(Lines) /\ Len(Block) = 2
      BY <1>5, <2>2, Zenon
  <2> QED BY <2>3, <2>4
<1>7. ~Block[1].neg /\ ~Block[1].lead /\ ~Block[1].slash /\ Block[1].parts = DotDir \o <<"*">>
    BY <1>4, <1>6, Zenon
<1>8. Block[2].neg /\ ~Block[2].lead /\ ~Block[2].slash /\ Block[2].parts = DotDir \o <<"*.yml">>
    BY <1>4, <1>6, Zenon
<1>9. /\ Block[1].parts \in Seq(Segments) /\ Len(Block[1].parts) = 3
      /\ Block[1].parts[1] = ".sb" /\ Block[1].parts[2] = "dva" /\ Block[1].parts[3] = "*"
  <2> DEFINE spelt == DotDir \o <<"*">>
  <2>1. /\ spelt \in Seq(Segments) /\ Len(spelt) = 3
        /\ spelt[1] = ".sb" /\ spelt[2] = "dva" /\ spelt[3] = "*"
      BY <1>1, <1>2, Zenon
  <2>2. Block[1].parts = spelt
      BY <1>7
  <2> HIDE DEF spelt
  <2> QED BY <2>1, <2>2, Zenon
<1>10. /\ Block[2].parts \in Seq(Segments) /\ Len(Block[2].parts) = 3
       /\ Block[2].parts[1] = ".sb" /\ Block[2].parts[2] = "dva" /\ Block[2].parts[3] = "*.yml"
  <2> DEFINE spelt == DotDir \o <<"*.yml">>
  <2>1. /\ spelt \in Seq(Segments) /\ Len(spelt) = 3
        /\ spelt[1] = ".sb" /\ spelt[2] = "dva" /\ spelt[3] = "*.yml"
      BY <1>1, <1>2, Zenon
  <2>2. Block[2].parts = spelt
      BY <1>8
  <2> HIDE DEF spelt
  <2> QED BY <2>1, <2>2, Zenon
<1>11. \A i \in {1, 2} : i = 1 \/ i = 2
    OBVIOUS
<1> QED BY <1>6, <1>7, <1>8, <1>9, <1>10, <1>11, Zenon

\* A line of the block, as it stands behind others, names what it is meant for and no more.
LEMMA BlockNames ==
    ASSUME NEW i \in {1, 2}, NEW p \in PathsToIgnore, NEW n \in 1..Len(p)
    PROVE  /\ n # 3 => ~Names(Block[i], First(p, n), n < Len(p))
           /\ Names(Block[i], First(p, 3), 3 < Len(p)) <=> Fits(Block[i].parts[3], p[3])
<1>1. /\ ~Block[i].slash /\ Len(Block[i].parts) = 3 /\ DOMAIN Block[i].parts = 1..3
      /\ Block[i].parts[1] = ".sb" /\ Block[i].parts[2] = "dva"
      /\ Block[i].parts[3] \in {"*", "*.yml"}
    BY BlockShape, LenProperties
<1>2. \A k \in DOMAIN Block[i].parts : Block[i].parts[k] # "**"
    BY <1>1
<1>3. \A path, isDir : Names(Block[i], path, isDir) <=> FitAll(Block[i].parts, path)
    BY <1>1, <1>2 DEF Names, FitsPath
<1>4. /\ p \in Seq(Segments) /\ n \in 0..Len(p) /\ 3 \in 0..Len(p)
      /\ p[1] = ".sb" /\ p[2] = "dva"
    BY PathShape
<1>5. Len(First(p, n)) = n /\ Len(First(p, 3)) = 3 /\ \A k \in 1..3 : First(p, 3)[k] = p[k]
    BY <1>4, FirstOf
<1>6. FitAll(Block[i].parts, First(p, 3)) <=> Fits(Block[i].parts[3], p[3])
  <2>1. Fits(".sb", ".sb") /\ Fits("dva", "dva")
      BY DEF Fits
  <2> QED BY <1>1, <1>4, <1>5, <2>1 DEF FitAll
<1>7. n # 3 => ~FitAll(Block[i].parts, First(p, n))
    BY <1>1, <1>5 DEF FitAll
<1> QED BY <1>3, <1>6, <1>7

\* dva's star stands for every name that is left there; its exception for modules alone.
LEMMA BlockFits ==
    ASSUME NEW p \in PathsToIgnore
    PROVE  /\ Fits("*", p[3])
           /\ p \in Probes => ~Fits("*.yml", p[3])
           /\ p = ModuleProbe => Fits("*.yml", p[3])
<1>1. p[3] \in StateNames \cup {"probe.yml"} /\ (p \in Probes => p[3] \in StateNames)
      /\ (p = ModuleProbe => p[3] = "probe.yml")
    BY PathShape
<1>2. \A s \in StateNames : s # "*.yml"
    BY DEF StateNames
<1> QED BY <1>1, <1>2, GitIgnoreAssumption DEF Fits

\* Lines with the block behind them.
LEMMA BlockBehind ==
    ASSUME NEW lines \in Seq(Lines)
    PROVE  /\ lines \o Block \in Seq(Lines) /\ Len(lines) \in Nat
           /\ DOMAIN (lines \o Block) = 1..(Len(lines) + 2)
           /\ (lines \o Block)[Len(lines) + 1] = Block[1] /\ (lines \o Block)[Len(lines) + 2] = Block[2]
           /\ \A i \in 1..Len(lines) : (lines \o Block)[i] = lines[i]
<1>1. /\ lines \o Block \in Seq(Lines) /\ Len(lines \o Block) = Len(lines) + 2 /\ Len(lines) \in Nat
      /\ \A i \in 1..(Len(lines) + 2) :
            (lines \o Block)[i] = IF i <= Len(lines) THEN lines[i] ELSE Block[i - Len(lines)]
  <2>1. /\ lines \o Block \in Seq(Lines) /\ Len(lines \o Block) = Len(lines) + Len(Block)
        /\ \A i \in 1..(Len(lines) + Len(Block)) :
              (lines \o Block)[i] = IF i <= Len(lines) THEN lines[i] ELSE Block[i - Len(lines)]
    <3>1. Block \in Seq(Lines)
        BY BlockShape
    <3> QED BY <3>1, ConcatProperties
  <2>2. Len(Block) = 2 /\ Len(lines) \in Nat
      BY BlockShape, LenProperties
  <2> DEFINE M == Len(Block)
  <2>3. /\ M = 2 /\ lines \o Block \in Seq(Lines) /\ Len(lines \o Block) = Len(lines) + M
        /\ \A i \in 1..(Len(lines) + M) :
              (lines \o Block)[i] = IF i <= Len(lines) THEN lines[i] ELSE Block[i - Len(lines)]
      BY <2>1, <2>2
  <2> HIDE DEF M
  <2> QED BY <2>2, <2>3
<1>2. DOMAIN (lines \o Block) = 1..(Len(lines) + 2)
    BY <1>1, LenProperties
<1>3. Len(lines) + 1 \in 1..(Len(lines) + 2) /\ Len(lines) + 2 \in 1..(Len(lines) + 2)
    BY <1>1
<1>4. (lines \o Block)[Len(lines) + 1] = Block[1] /\ (lines \o Block)[Len(lines) + 2] = Block[2]
    BY <1>1, <1>3
<1> QED BY <1>1, <1>2, <1>4

\* Who decides behind the block: on the last of the way, the block.
LEMMA BlockDecides ==
    ASSUME NEW lines \in Seq(Lines), NEW p \in PathsToIgnore
    PROVE  LET all == lines \o Block
               named == Naming(all, p, 3)
           IN /\ named # {} /\ Max(named) \in DOMAIN all
              /\ p \in Probes => all[Max(named)] = Block[1]
              /\ p = ModuleProbe => all[Max(named)] = Block[2]
              /\ \A n \in 1..Len(p) : n # 3 /\ Naming(all, p, n) # {} =>
                   all[Max(Naming(all, p, n))] \in Lines /\ Max(Naming(all, p, n)) \in 1..Len(lines)
<1> DEFINE all == lines \o Block
           named == Naming(all, p, 3)
           N == Len(lines)
<1>1. /\ all \in Seq(Lines) /\ N \in Nat /\ DOMAIN all = 1..(N + 2)
      /\ all[N + 1] = Block[1] /\ all[N + 2] = Block[2]
    BY BlockBehind
<1>2. 3 \in 1..Len(p)
    BY PathShape
<1>3. Naming(all, p, 3) \subseteq 1..(N + 2) /\ \A n : Naming(all, p, n) \subseteq 1..(N + 2)
    BY <1>1 DEF Naming
<1>4. N + 1 \in named
  <2>1. Names(all[N + 1], First(p, 3), 3 < Len(p))
      BY <1>1, <1>2, BlockNames, BlockFits, BlockShape
  <2>2. N + 1 \in DOMAIN all
      BY <1>1
  <2> QED BY <2>1, <2>2 DEF Naming
<1>5. N + 2 \in named <=> Fits("*.yml", p[3])
  <2>1. Names(all[N + 2], First(p, 3), 3 < Len(p)) <=> Fits("*.yml", p[3])
      BY <1>1, <1>2, BlockNames, BlockShape
  <2>2. N + 2 \in DOMAIN all
      BY <1>1
  <2> QED BY <2>1, <2>2 DEF Naming
<1>6. Max(named) \in named /\ N + 1 <= Max(named) /\ (N + 2 \in named => N + 2 <= Max(named))
  <2>1. N + 2 \in Nat
      BY <1>1
  <2> QED BY <1>3, <1>4, <2>1, LastPosition
<1>7. Max(named) \in {N + 1, N + 2} /\ (N + 2 \in named => Max(named) = N + 2)
    BY <1>1, <1>3, <1>6
<1>8. (p \in Probes => Max(named) = N + 1) /\ (p = ModuleProbe => Max(named) = N + 2)
    BY <1>5, <1>6, <1>7, BlockFits
<1>9. ASSUME NEW n \in 1..Len(p), n # 3, Naming(all, p, n) # {}
      PROVE  Max(Naming(all, p, n)) \in 1..N /\ all[Max(Naming(all, p, n))] \in Lines
  <2> DEFINE m == Max(Naming(all, p, n))
  <2>1. m \in Naming(all, p, n) /\ m \in 1..(N + 2)
    <3>1. N + 2 \in Nat
        BY <1>1
    <3> QED BY <1>3, <1>9, <3>1, LastPosition
  <2>2. Names(all[m], First(p, n), n < Len(p))
      BY <2>1 DEF Naming
  <2>3. m # N + 1 /\ m # N + 2
      BY <1>1, <1>9, <2>2, BlockNames
  <2>4. m \in 1..N
      BY <1>1, <2>1, <2>3
  <2>5. all[m] \in Lines
      BY <1>1, <2>1
  <2> QED BY <2>4, <2>5
<1>10. Max(named) \in DOMAIN all
    BY <1>1, <1>7
<1> QED BY <1>1, <1>4, <1>8, <1>9, <1>10

\* With the block behind them all that dva leaves is ignored in every clone.
LEMMA BlockIgnores ==
    ASSUME NEW lines \in Seq(Lines), NEW p \in Probes
    PROVE  CloneExcludes(lines \o Block, p, 3) /\ 3 \in DOMAIN p
<1>1. p \in PathsToIgnore
    BY DEF PathsToIgnore
<1> QED BY <1>1, BlockDecides, BlockShape, PathShape DEF CloneExcludes

\* What keeps a module out then is a line above the block.
LEMMA BlockAllows ==
    ASSUME NEW lines \in Seq(Lines), CloneIgnores(lines \o Block, ModuleProbe)
    PROVE  \E n \in DOMAIN DotDir :
              /\ CloneExcludes(lines \o Block, ModuleProbe, n)
              /\ (lines \o Block)[Max(Naming(lines \o Block, ModuleProbe, n))] \notin {Block[1], Block[2]}
<1> DEFINE all == lines \o Block
<1>1. ModuleProbe \in PathsToIgnore
    BY DEF PathsToIgnore
<1>2. PICK n \in DOMAIN ModuleProbe : CloneExcludes(all, ModuleProbe, n)
    BY DEF CloneIgnores
<1>3. DOMAIN ModuleProbe = 1..3 /\ Len(ModuleProbe) = 3
    BY <1>1, PathShape
<1>4. n # 3
    BY <1>1, <1>2, BlockDecides, BlockShape DEF CloneExcludes
<1>5. n \in {1, 2} /\ DOMAIN DotDir = 1..2 /\ n \in 1..Len(ModuleProbe)
    BY <1>2, <1>3, <1>4, DotDirShape, LenProperties
<1> DEFINE m == Max(Naming(all, ModuleProbe, n))
<1>6. m \in Naming(all, ModuleProbe, n)
  <2>1. Naming(all, ModuleProbe, n) # {}
      BY <1>2 DEF CloneExcludes
  <2>2. all \in Seq(Lines)
      BY BlockBehind
  <2>3. Len(all) \in Nat /\ Naming(all, ModuleProbe, n) \subseteq 1..Len(all)
      BY <2>2, NamingPositions
  <2> QED BY <2>1, <2>3, LastPosition
<1>7. Names(all[m], First(ModuleProbe, n), n < Len(ModuleProbe))
    BY <1>6 DEF Naming
<1>8. all[m] # Block[1] /\ all[m] # Block[2]
    BY <1>1, <1>4, <1>5, <1>7, BlockNames
<1>9. n \in DOMAIN DotDir
    BY <1>5
<1> QED BY <1>2, <1>8, <1>9, Zenon

\* Where no rule of the machine interferes, both git and the reader then find the block.
LEMMA BlockFound ==
    ASSUME own = <<>>, NEW lines \in Seq(Lines)
    PROVE  DeclaredHere(lines \o Block) /\ IsDvaIgnored(lines \o Block)
<1> DEFINE all == lines \o Block
           N == Len(lines)
<1>1. /\ all \in Seq(Lines) /\ N \in Nat /\ DOMAIN all = 1..(N + 2)
      /\ all[N + 1] = Block[1] /\ all[N + 2] = Block[2]
    BY BlockBehind
<1>2. ASSUME NEW p \in Probes PROVE Source(all, p) = "shared"
  <2> DEFINE excluder == [n \in DOMAIN p |-> Excluder(all, p, n)]
             levels == {n \in DOMAIN p : excluder[n] # "none"}
  <2>1. p \in PathsToIgnore
      BY DEF PathsToIgnore
  <2>2. DOMAIN p = 1..Len(p) /\ Len(p) \in Nat
      BY <2>1, PathShape
  <2>3. \A n : Naming(own, p, n) = {}
    <3>1. DOMAIN own = {}
        OBVIOUS
    <3> QED BY <3>1 DEF Naming
  <2>4. \A n : Excluder(all, p, n) \in {"none", "shared"}
      BY <2>3 DEF Excluder
  <2>5. 3 \in levels
    <3>1. 3 \in DOMAIN p /\ Naming(all, p, 3) # {} /\ ~all[Max(Naming(all, p, 3))].neg
        BY BlockIgnores DEF CloneExcludes
    <3>2. Excluder(all, p, 3) = "shared"
        BY <3>1 DEF Excluder
    <3> QED BY <3>1, <3>2
  <2>6. Min(levels) \in levels
      BY <2>2, <2>5, LastPosition
  <2>7. excluder[Min(levels)] = "shared"
      BY <2>4, <2>6
  <2> HIDE DEF excluder
  <2>8. Source(all, p) = IF levels = {} THEN "none" ELSE excluder[Min(levels)]
      BY DEF Source, excluder
  <2> QED BY <2>5, <2>7, <2>8
<1>3. IsDvaIgnored(all)
  <2> DEFINE dir == First(DotDir, 2)
             spelt == ContentsSpellings(all, dir)
  <2>1. dir = DotDir
      BY DotDirShape, SubSeqFull DEF First
  <2>2. /\ Block[1].parts = DotDir \o <<"*">> /\ ~Block[1].slash /\ ~Block[1].neg
        /\ Block[2].parts # DotDir \o <<"*">> /\ Len(Block[2].parts) = 3
        /\ Block[2].parts[3] = "*.yml" /\ Block[2].parts[1] = ".sb" /\ Block[2].parts[2] = "dva"
        /\ DOMAIN Block[2].parts = 1..3
      BY BlockShape, LenProperties
  <2>3. N + 1 \in spelt /\ N + 2 \notin spelt /\ spelt \subseteq 1..(N + 2)
      BY <1>1, <2>1, <2>2 DEF ContentsSpellings
  <2>4. Max(spelt) \in spelt /\ N + 1 <= Max(spelt)
    <3>1. N + 2 \in Nat
        BY <1>1
    <3> QED BY <2>3, <3>1, LastPosition
  <2>5. Max(spelt) = N + 1
      BY <1>1, <2>3, <2>4
  <2>6. ~NegationReaches(all, N + 1, ChildrenOf(dir))
    <3> SUFFICES ASSUME NEW i \in DOMAIN all, i > N + 1,
                        \/ \E k \in DOMAIN all[i].parts : all[i].parts[k] = "**"
                        \/ \E c \in ChildrenOf(dir) :
                             \/ Len(all[i].parts) > 1 /\ FitAll(all[i].parts, c)
                             \/ Len(all[i].parts) = 1 /\ Fits(all[i].parts[1], Base(c))
                 PROVE  FALSE
        BY Zenon DEF NegationReaches
    <3>1. all[i] = Block[2]
        BY <1>1
    <3>2. PICK c \in ChildrenOf(dir) : FitAll(Block[2].parts, c)
      <4>1. \A k \in DOMAIN Block[2].parts : Block[2].parts[k] # "**"
          BY <2>2
      <4>2. Len(Block[2].parts) # 1
          BY <2>2
      <4> QED BY <3>1, <4>1, <4>2, Zenon
    <3>3. PICK p \in Probes : c = First(p, 3)
      <4>0. Len(DotDir) = 2
          BY DotDirShape
      <4>1. Len(dir) + 1 = 3
        <5>1. Len(dir) = 2
            BY <2>1, <4>0, Zenon
        <5>2. \A x : x = 2 => x + 1 = 3
            OBVIOUS
        <5> QED BY <5>1, <5>2, Zenon
      <4> QED BY <4>1 DEF ChildrenOf
    <3>4. p \in PathsToIgnore /\ 3 \in 1..Len(p) /\ 3 \in 0..Len(p) /\ p \in Seq(Segments)
        BY PathShape DEF PathsToIgnore
    <3>5. c[3] = p[3]
        BY <3>3, <3>4, FirstOf
    <3>6. Fits("*.yml", p[3])
        BY <2>2, <3>2, <3>5 DEF FitAll
    <3> QED BY <3>4, <3>6, BlockFits
  <2>7. 2 \in DOMAIN DotDir
      BY DotDirShape, LenProperties
  <2>8. Excludes(all, spelt, ChildrenOf(dir))
      BY <1>1, <2>2, <2>3, <2>5, <2>6 DEF Excludes, LastMatchExcludes
  <2> QED BY <2>7, <2>8 DEF IsDvaIgnored
<1> QED BY <1>2, <1>3 DEF DeclaredHere

-----------------------------------------------------------------------------
(* The file .gitignore over time *)

IgnoreInv == IgnoreTypeOK /\ GitignoreSettled

LEMMA BlockSettles ==
    ASSUME IgnoreTypeOK, ignore' = ignore \o Block, own' = own
    PROVE  /\ ignore' \in Seq(Lines)
           /\ \A p \in Probes : CloneIgnores(ignore', p)
           /\ CloneIgnores(ignore', ModuleProbe) =>
                 \E n \in DOMAIN DotDir :
                     /\ CloneExcludes(ignore', ModuleProbe, n)
                     /\ ignore'[Max(Naming(ignore', ModuleProbe, n))] \notin {Block[1], Block[2]}
           /\ own' = <<>> => \A git \in BOOLEAN : AlreadyDeclares(git)'
<1>1. ignore \in Seq(Lines)
    BY DEF IgnoreTypeOK
<1>2. \A p \in Probes : CloneIgnores(ignore', p)
    BY <1>1, BlockIgnores DEF CloneIgnores
<1>3. own' = <<>> => \A git \in BOOLEAN : AlreadyDeclares(git)'
  <2>1. own = <<>> => DeclaredHere(ignore \o Block) /\ IsDvaIgnored(ignore \o Block)
      BY <1>1, BlockFound
  <2>2. \A git \in BOOLEAN : AlreadyDeclares(git)' <=>
            IF git THEN DeclaredHere(ignore \o Block) ELSE IsDvaIgnored(ignore \o Block)
      BY DEF AlreadyDeclares, DeclaredHere, Source, Excluder
  <2> QED BY <2>1, <2>2
<1>4. ignore' \in Seq(Lines)
    BY <1>1, BlockBehind
<1>5. CloneIgnores(ignore', ModuleProbe) =>
         \E n \in DOMAIN DotDir :
             /\ CloneExcludes(ignore', ModuleProbe, n)
             /\ ignore'[Max(Naming(ignore', ModuleProbe, n))] \notin {Block[1], Block[2]}
    BY <1>1, BlockAllows
<1> QED BY <1>2, <1>3, <1>4, <1>5

LEMMA IgnoreEnsureKeeps ==
    ASSUME IgnoreInv, NEW git \in BOOLEAN, EnsureGitignore(git)
    PROVE  IgnoreInv'
<1>1. /\ ignore \in Seq(Lines) /\ own' = own /\ own \in OwnRules
      /\ written \in 0..MaxWritten /\ MaxWritten \in Nat
    BY GitIgnoreAssumption DEF IgnoreInv, IgnoreTypeOK, EnsureGitignore
<1>2. CASE AlreadyDeclares(git)
  <2>1. ignore' = ignore /\ written' = written /\ settled' = IF settled = "wrote" THEN "wrote" ELSE "declares"
      BY <1>2 DEF EnsureGitignore
  <2>2. \A p \in Probes : CloneIgnores(ignore, p)
      BY <1>2, DeclaresTells DEF IgnoreInv
  <2>3. \A g \in BOOLEAN : AlreadyDeclares(g)' <=> AlreadyDeclares(g)
      BY <1>1, <2>1 DEF AlreadyDeclares, DeclaredHere, Source, Excluder
  <2>4. settled' = "wrote" => settled = "wrote"
      BY <2>1
  <2>5. IgnoreTypeOK'
      BY <1>1, <2>1 DEF IgnoreInv, IgnoreTypeOK
  <2> QED BY <1>1, <2>1, <2>2, <2>3, <2>4, <2>5 DEF IgnoreInv, GitignoreSettled
<1>3. CASE ~AlreadyDeclares(git) /\ ignore' = ignore \o Block /\ settled' = "wrote" /\ written' = written
  <2>1. IgnoreTypeOK'
      BY <1>1, <1>3, BlockBehind DEF IgnoreTypeOK
  <2> QED BY <1>1, <1>3, <2>1, BlockSettles DEF IgnoreInv, GitignoreSettled
<1>4. CASE /\ written < MaxWritten /\ ignore' = ignore \o First(Block, 1)
           /\ settled' = "no" /\ written' = written + 1
  <2>1. First(Block, 1) \in Seq(Lines)
    <3>1. Block \in Seq(Lines) /\ Len(Block) = 2
        BY BlockShape
    <3>2. \A i \in 1..1 : Block[i] \in Lines
        BY <3>1
    <3> QED BY <3>2, SubSeqProperties DEF First
  <2>2. ignore' \in Seq(Lines)
      BY <1>1, <1>4, <2>1, ConcatProperties
  <2> QED BY <1>1, <1>4, <2>2 DEF IgnoreInv, IgnoreTypeOK, GitignoreSettled
<1> QED BY <1>2, <1>3, <1>4 DEF EnsureGitignore

LEMMA IgnoreEditKeeps ==
    ASSUME IgnoreInv, EditFile
    PROVE  IgnoreInv'
<1>1. /\ ignore \in Seq(Lines) /\ own' = own /\ own \in OwnRules /\ settled' = "no"
      /\ written \in 0..MaxWritten /\ MaxWritten \in Nat /\ written' = written + 1 /\ written < MaxWritten
    BY GitIgnoreAssumption DEF IgnoreInv, IgnoreTypeOK, EditFile
<1>2. ignore' \in Seq(Lines)
  <2>1. CASE \E l \in Written : ignore' = Append(ignore, l)
      BY <1>1, <2>1, GitIgnoreAssumption
  <2>2. ASSUME NEW i \in DOMAIN ignore,
               ignore' = First(ignore, i - 1) \o SubSeq(ignore, i + 1, Len(ignore))
        PROVE  ignore' \in Seq(Lines)
    <3>1. Len(ignore) \in Nat /\ i \in 1..Len(ignore) /\ \A j \in 1..Len(ignore) : ignore[j] \in Lines
        BY <1>1, <2>2, LenProperties, ElementOfSeq
    <3>2. First(ignore, i - 1) \in Seq(Lines)
      <4>1. 1 \in Int /\ i - 1 \in Int /\ \A j \in 1..(i - 1) : ignore[j] \in Lines
          BY <3>1
      <4> QED BY <4>1, SubSeqProperties DEF First
    <3>3. SubSeq(ignore, i + 1, Len(ignore)) \in Seq(Lines)
      <4>1. i + 1 \in Int /\ Len(ignore) \in Int /\ \A j \in (i + 1)..Len(ignore) : ignore[j] \in Lines
          BY <3>1
      <4> QED BY <4>1, SubSeqProperties
    <3> QED BY <2>2, <3>2, <3>3, ConcatProperties
  <2> QED BY <2>1, <2>2 DEF EditFile
<1> QED BY <1>1, <1>2 DEF IgnoreInv, IgnoreTypeOK, GitignoreSettled

\* Whatever lines people write, and whatever rules the machine has: once ensureGitignore
\* is done with a file, every clone ignores what dva leaves there, dva's lines keep
\* no module out, and it writes them once (gitignore.go).
THEOREM GitignoreSettledHolds == IgnoreSpec => []GitignoreSettled
<1>1. IgnoreInit => IgnoreInv
  <2> SUFFICES ASSUME IgnoreInit PROVE IgnoreInv
      OBVIOUS
  <2>1. ignore \in Seq(Lines)
      BY EmptySeq DEF IgnoreInit
  <2> QED BY <2>1, GitIgnoreAssumption DEF IgnoreInit, IgnoreInv, IgnoreTypeOK, GitignoreSettled
<1>2. IgnoreInv /\ [IgnoreNext]_ignoreVars => IgnoreInv'
  <2>1. ASSUME IgnoreInv, UNCHANGED ignoreVars PROVE IgnoreInv'
    <3>1. ignore' = ignore /\ own' = own /\ settled' = settled /\ written' = written
        BY <2>1 DEF ignoreVars
    <3>2. \A g \in BOOLEAN : AlreadyDeclares(g)' <=> AlreadyDeclares(g)
        BY <3>1 DEF AlreadyDeclares, DeclaredHere, Source, Excluder
    <3> QED BY <2>1, <3>1, <3>2 DEF IgnoreInv, IgnoreTypeOK, GitignoreSettled
  <2> QED BY <2>1, IgnoreEnsureKeeps, IgnoreEditKeeps DEF IgnoreNext, InitCommand, DoctorFix
<1>3. IgnoreInv => GitignoreSettled
    BY DEF IgnoreInv
<1> QED BY <1>1, <1>2, <1>3, PTL DEF IgnoreSpec

=============================================================================
