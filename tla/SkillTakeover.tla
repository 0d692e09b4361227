---------------------------- MODULE SkillTakeover ----------------------------
(***************************************************************************)
(* Takeover backups of `dva skill` (internal/skillinstall): an install     *)
(* with --takeover moves the trees that people put at the places of dva's  *)
(* skills out of the way, and an uninstall with --restore-takeover-backup  *)
(* brings them back, perhaps after an uninstall and a reinstall.           *)
(*                                                                         *)
(* One destination, one operation at a time (SkillInstall shows that its   *)
(* locks see to that), people who add trees at any moment, calls that fail *)
(* before or after their effect, and operations that die.  Claims are      *)
(* absent, active or anything in between; bundles are directories.  What   *)
(* preflight refuses the checks under the locks would refuse as well.      *)
(* An update leaves the receipt's manifests as they are, and is left out.  *)
(***************************************************************************)
EXTENDS Naturals, FiniteSets

CONSTANTS
    Spots,          \* the places of dva's skills, in the order of their names
    Writings,       \* trees that people write, each once
    Ours, Spoiled, Empty,
    MaxTries,       \* bound: operations
    MaxBreaks,      \* bound: calls that fail and operations that die
    AddsInWindow    \* may people add a tree where dva does not look any more?

ASSUME TakeoverAssumption ==
    /\ Spots \subseteq Nat /\ IsFiniteSet(Spots)
    /\ Writings \cap {Ours, Spoiled, Empty} = {}
    /\ Ours # Spoiled /\ Ours # Empty /\ Spoiled # Empty
    /\ MaxTries \in Nat /\ MaxBreaks \in Nat /\ AddsInWindow \in BOOLEAN

VARIABLES
    place,      \* place[s]: the tree at s
    stage,      \* the staging directories: captured originals, dva's trees, copies of the backup
    backup,     \* backup[s]: the last backup that was published
    deed,       \* the receipt, with the trees its manifests describe
    hold,       \* the claims
    taker,      \* the operation: where it is, what it still has to treat, ...
    kept,       \* the trees in the artefacts that operations left behind
    wrote, spoilt,  \* history: what people wrote, and which of it they spoilt in the backup
    tries, breaks

takeoverVars == <<place, stage, backup, deed, hold, taker, kept, wrote, spoilt, tries, breaks>>

Bare == [s \in Spots |-> Empty]
Within(f) == {f[s] : s \in Spots} \ {Empty}
Filled(f) == {s \in Spots : f[s] # Empty}
Clear == [capture |-> Bare, dva |-> Bare, copy |-> Bare]
InStage == UNION {Within(stage.capture), Within(stage.dva), Within(stage.copy)}

Lowest(s, S)  == s \in S /\ \A t \in S : s <= t
Highest(s, S) == s \in S /\ \A t \in S : s >= t

NoDeed == [is |-> "none", takes |-> Bare]
Resting == [pc |-> "idle", kind |-> "none", left |-> {}, base |-> NoDeed, takes |-> Bare,
            filled |-> {}, why |-> "none", stuck |-> FALSE]

Contents == Writings \cup {Ours, Spoiled, Empty}
Deeds == [is : {"none", "active", "absent"}, takes : [Spots -> Contents]]
TakerPCs == {"idle", "claim", "list", "capture", "publish", "fill", "record", "activate",
             "setaside", "copy", "swap", "drop", "forget", "tidy", "purge",
             "unfill", "giveback", "discard", "unrecord", "putback", "unswap", "yield"}

TakeoverTypeOK ==
    /\ place \in [Spots -> Contents] /\ backup \in [Spots -> Contents]
    /\ stage \in [capture : [Spots -> Contents], dva : [Spots -> Contents], copy : [Spots -> Contents]]
    /\ deed \in Deeds /\ hold \in {"absent", "active", "busy"}
    /\ taker \in [pc : TakerPCs, kind : {"none", "install", "takeover", "uninstall", "restore"},
                  left : SUBSET Spots, base : Deeds, takes : [Spots -> Contents],
                  filled : SUBSET Spots, why : TakerPCs \cup {"none"}, stuck : BOOLEAN]
    /\ kept \subseteq Contents /\ wrote \subseteq Writings /\ spoilt \subseteq wrote
    /\ tries \in 0..MaxTries /\ breaks \in 0..MaxBreaks

TakeoverInit ==
    /\ place \in [Spots -> Writings \cup {Empty}]
    /\ \A s, t \in Spots : place[s] = place[t] => s = t \/ place[s] = Empty
    /\ wrote = Within(place) /\ spoilt = {}
    /\ stage = Clear /\ backup = Bare /\ deed = NoDeed /\ hold = "absent"
    /\ taker = Resting /\ kept = {} /\ tries = 0 /\ breaks = 0

-----------------------------------------------------------------------------
(* Moving on *)

Is(pc) == taker.pc = pc
On(pc, S) == taker' = [taker EXCEPT !.pc = pc, !.left = S]
Done(s)   == taker' = [taker EXCEPT !.left = @ \ {s}]
Breaks == breaks < MaxBreaks /\ breaks' = breaks + 1
Holds  == UNCHANGED breaks
People == <<wrote, spoilt>>

\* The operation returns: what is in its staging directories stays there.
End == /\ taker' = Resting /\ stage' = Clear /\ kept' = kept \cup InStage

\* An error: where the way back begins, and what it has to treat.
WayBackFrom(pc) ==
    CASE pc \in {"fill", "record", "activate"} -> "unfill"
      [] pc \in {"capture", "publish"} -> "giveback"
      [] pc \in {"list", "copy"} -> "yield"
      [] pc = "setaside" -> "putback"
      [] pc = "swap" -> "unswap"
      [] OTHER -> IF taker.kind = "restore" THEN "unswap" ELSE "putback"
ToUndo(pc, filled, st) ==
    CASE pc = "unfill"   -> filled
      [] pc = "giveback" -> Filled(st.capture)
      [] pc = "putback"  -> Filled(st.dva)
      [] pc = "unswap"   -> filled \cup Filled(st.dva)
      [] OTHER           -> {}
Errs(filled, st) ==
    LET to == WayBackFrom(taker.pc) IN
    taker' = [taker EXCEPT !.pc = to, !.why = taker.pc, !.filled = filled,
                           !.left = ToUndo(to, filled, st)]

-----------------------------------------------------------------------------
(* The start, and the claims *)

\* What an operation asks for under the locks: the claims, the trees, the backup.
Undisturbed == hold = "active" /\ \A s \in Spots : place[s] = Ours
Vacant      == hold = "absent" /\ place = Bare
Available   == deed.takes # Bare /\ backup = deed.takes
May(kind) ==
    CASE kind = "install"   -> deed.is # "active" /\ Vacant
      [] kind = "takeover"  -> hold = "absent" /\ (deed.is = "none" \/ (deed.is = "absent" /\ Vacant))
      [] kind = "uninstall" -> deed.is = "active" /\ Undisturbed
      [] kind = "restore"   -> Available /\ IF deed.is = "active" THEN Undisturbed ELSE Vacant

StartTakeover ==
    /\ Is("idle") /\ tries < MaxTries /\ tries' = tries + 1
    /\ \E kind \in {"install", "takeover", "uninstall", "restore"} :
         /\ May(kind)
         /\ taker' = [Resting EXCEPT !.pc = "claim", !.kind = kind, !.base = deed, !.takes = deed.takes]
    /\ UNCHANGED <<place, stage, backup, deed, hold, kept, People, breaks>>

Takes  == taker.kind = "takeover" /\ taker.base.is = "none"
Taken  == Filled(taker.takes)
Before == IF taker.base.is = "active" THEN "active" ELSE "absent"

\* reserveClaims, transitionActiveClaims.  An error takes them back at once; a restore
\* from a tombstone may leave them active.
ClaimPlaces ==
    /\ Is("claim")
    /\ \/ /\ Holds /\ hold' = "busy" /\ UNCHANGED <<stage, kept>>
          /\ CASE Takes -> On("list", {})
               [] taker.kind = "uninstall" -> On("setaside", Spots)
               [] taker.kind = "restore"   -> On("copy", Taken)
               [] OTHER                    -> On("fill", Spots)
       \/ /\ Breaks /\ End
          /\ hold' \in {Before, "busy"} \cup (IF taker.kind = "restore" THEN {"active"} ELSE {})
    /\ UNCHANGED <<place, backup, deed, People, tries>>

\* activateReservedClaims, removeTransitionedClaims.
SettleClaims ==
    /\ taker.pc \in {"activate", "drop"}
    /\ \/ /\ Holds
          /\ IF Is("activate") THEN hold' = "active" /\ On("tidy", {})
             ELSE hold' = "absent" /\ On("forget", {})
       \/ Breaks /\ Errs(taker.filled, stage) /\ UNCHANGED hold
    /\ UNCHANGED <<place, stage, backup, deed, kept, People, tries>>

\* The end of a failed operation: rollbackClaimsToAbsent, rollbackClaimsToActive.
YieldClaims ==
    /\ Is("yield") /\ End
    /\ \/ Holds /\ hold' = Before
       \/ Breaks /\ hold' = "busy"
    /\ UNCHANGED <<place, backup, deed, People, tries>>

-----------------------------------------------------------------------------
(* Installation: createTakeoverBackups, then as any other *)

\* Which places are taken is read once.
ListForeign ==
    /\ Is("list")
    /\ \/ Holds /\ IF place = Bare THEN On("fill", Spots) ELSE On("capture", Filled(place))
       \/ Breaks /\ Errs({}, stage)
    /\ UNCHANGED <<place, stage, backup, deed, hold, kept, People, tries>>

\* The trees are moved, not copied: what is backed up is what was there.
Capture ==
    /\ Is("capture")
    /\ \E s \in taker.left :
         /\ Lowest(s, taker.left)
         /\ \/ /\ Holds
               /\ stage' = [stage EXCEPT !.capture[s] = place[s]]
               /\ place' = [place EXCEPT ![s] = Empty]
               /\ IF taker.left = {s} THEN On("publish", {}) ELSE Done(s)
            \/ Breaks /\ Errs({}, stage) /\ UNCHANGED <<place, stage>>
    /\ UNCHANGED <<backup, deed, hold, kept, People, tries>>

\* A backup has a new name: the one before it is kept, with or without a receipt.
Publish ==
    /\ Is("publish")
    /\ \/ /\ backup' = stage.capture /\ kept' = kept \cup Within(backup)
          /\ \/ Holds /\ taker' = [taker EXCEPT !.pc = "fill", !.left = Spots, !.takes = stage.capture]
             \/ Breaks /\ taker' = [taker EXCEPT !.pc = "giveback", !.why = "publish",
                                                 !.left = Filled(stage.capture), !.takes = stage.capture]
       \/ Breaks /\ Errs({}, stage) /\ UNCHANGED <<backup, kept>>
    /\ UNCHANGED <<place, stage, deed, hold, People, tries>>

\* replaceSkillDirectories: a place that is taken is an error; the move of a tree is
\* noted before it succeeds, and the directory is synchronised at the end.
Fill ==
    /\ Is("fill")
    /\ \E s \in taker.left :
         /\ Lowest(s, taker.left)
         /\ LET filled == taker.filled \cup {s} IN
            \/ /\ place[s] # Empty
               /\ Errs(taker.filled, stage) /\ Holds /\ UNCHANGED place
            \/ /\ place[s] = Empty /\ place' = [place EXCEPT ![s] = Ours]
               /\ \/ Holds /\ taker' = [taker EXCEPT !.filled = filled, !.left = @ \ {s},
                                            !.pc = IF taker.left = {s} THEN "record" ELSE @]
                  \/ taker.left = {s} /\ Breaks /\ Errs(filled, stage)
            \/ place[s] = Empty /\ Breaks /\ Errs(filled, stage) /\ UNCHANGED place
    /\ UNCHANGED <<stage, backup, deed, hold, kept, People, tries>>

\* writeReceipt: an error may come after the rename.
RecordTakeover ==
    /\ Is("record")
    /\ LET new == [is |-> "active", takes |-> taker.takes] IN
       \/ Holds /\ deed' = new /\ On("activate", {})
       \/ Breaks /\ deed' \in {new, deed} /\ Errs(taker.filled, stage)
    /\ UNCHANGED <<place, stage, backup, hold, kept, People, tries>>

\* finalize: what is not removed is kept, and reported.
Tidy ==
    /\ Is("tidy")
    /\ taker' = Resting /\ stage' = Clear
    /\ \/ Holds /\ UNCHANGED kept
       \/ Breaks /\ kept' = kept \cup InStage
    /\ UNCHANGED <<place, backup, deed, hold, People, tries>>

-----------------------------------------------------------------------------
(* ... and its way back *)

\* replaceSkillDirectories, rollback: whatever is at a place that was noted.
Unfill ==
    /\ Is("unfill")
    /\ IF taker.left # {}
       THEN \E s \in taker.left :
              /\ Highest(s, taker.left)
              /\ \/ Holds /\ place' = [place EXCEPT ![s] = Empty] /\ Done(s)
                 \/ /\ Breaks /\ UNCHANGED place
                    /\ taker' = [taker EXCEPT !.left = @ \ {s}, !.stuck = TRUE]
       ELSE /\ \/ /\ (taker.stuck /\ Holds) \/ Breaks
                  /\ taker.why # "fill" /\ On("unrecord", {})
               \/ /\ ~taker.stuck \/ taker.why = "fill"
                  /\ Holds
                  /\ taker' = [taker EXCEPT !.pc = "giveback", !.left = Filled(stage.capture), !.stuck = FALSE]
            /\ UNCHANGED place
    /\ UNCHANGED <<stage, backup, deed, hold, kept, People, tries>>

\* Faulty: the directory of the captured trees goes whatever is still in it.
ClearedCapture == [stage EXCEPT !.capture = Bare]

\* The directory of the captured trees stays when one of them could not go back.
CaptureAfter == IF taker.stuck THEN stage ELSE [stage EXCEPT !.capture = Bare]

\* rollbackOriginals: a place that somebody filled is left alone.
GiveBack ==
    /\ Is("giveback")
    /\ IF taker.left # {}
       THEN \E s \in taker.left :
              /\ Highest(s, taker.left)
              /\ \/ /\ place[s] = Empty /\ Holds /\ Done(s)
                    /\ place' = [place EXCEPT ![s] = stage.capture[s]]
                    /\ stage' = [stage EXCEPT !.capture[s] = Empty]
                 \/ /\ (place[s] # Empty /\ Holds) \/ Breaks
                    /\ taker' = [taker EXCEPT !.left = @ \ {s}, !.stuck = TRUE]
                    /\ UNCHANGED <<place, stage>>
       ELSE /\ \/ Holds /\ stage' = CaptureAfter /\ On(IF taker.stuck THEN "unrecord" ELSE "discard", {})
               \/ Breaks /\ On("unrecord", {}) /\ UNCHANGED stage
            /\ UNCHANGED place
    /\ UNCHANGED <<backup, deed, hold, kept, People, tries>>

\* cleanupTakeover, restoreReceipt: what fails here is only reported.
DiscardBackup ==
    /\ Is("discard") /\ On("unrecord", {})
    /\ \/ Holds /\ backup' = IF Takes /\ taker.takes # Bare THEN Bare ELSE backup
       \/ Takes /\ taker.takes # Bare /\ Breaks /\ UNCHANGED backup
    /\ UNCHANGED <<place, stage, deed, hold, kept, People, tries>>
Unrecord ==
    /\ Is("unrecord") /\ On("yield", {})
    /\ \/ Holds /\ deed' = IF taker.why = "activate" THEN taker.base ELSE deed
       \/ taker.why = "activate" /\ Breaks /\ UNCHANGED deed
    /\ UNCHANGED <<place, stage, backup, hold, kept, People, tries>>

-----------------------------------------------------------------------------
(* Removal: stageManagedRemoval, removeLastConsumer *)

SetAside ==
    /\ Is("setaside")
    /\ \E s \in taker.left :
         /\ Lowest(s, taker.left)
         /\ LET after == [stage EXCEPT !.dva[s] = place[s]] IN
            \/ /\ stage' = after /\ place' = [place EXCEPT ![s] = Empty]
               /\ \/ Holds /\ IF taker.left = {s} THEN On("drop", {}) ELSE Done(s)
                  \/ taker.left = {s} /\ Breaks /\ Errs({}, after)
            \/ Breaks /\ Errs({}, stage) /\ UNCHANGED <<place, stage>>
    /\ UNCHANGED <<backup, deed, hold, kept, People, tries>>

\* A tree that came to the place stays there, and dva's in the staging directory.
PutBack ==
    /\ Is("putback")
    /\ IF taker.left # {}
       THEN \E s \in taker.left :
              /\ Highest(s, taker.left) /\ Done(s)
              /\ \/ /\ place[s] = Empty /\ Holds
                    /\ place' = [place EXCEPT ![s] = stage.dva[s]]
                    /\ stage' = [stage EXCEPT !.dva[s] = Empty]
                 \/ ((place[s] # Empty /\ Holds) \/ Breaks) /\ UNCHANGED <<place, stage>>
       ELSE On("yield", {}) /\ Holds /\ UNCHANGED <<place, stage>>
    /\ UNCHANGED <<backup, deed, hold, kept, People, tries>>

\* With backups the receipt becomes a tombstone, which is written and may be there in
\* spite of an error; else it is removed.
Forget ==
    /\ Is("forget")
    /\ LET tombstone == taker.kind = "uninstall" /\ Taken # {}
           new == IF tombstone THEN [deed EXCEPT !.is = "absent"] ELSE NoDeed
       IN \/ Holds /\ deed' = new /\ On(IF taker.kind = "restore" THEN "purge" ELSE "tidy", {})
          \/ Breaks /\ deed' \in {deed} \cup (IF tombstone THEN {new} ELSE {}) /\ Errs(taker.filled, stage)
    /\ UNCHANGED <<place, stage, backup, hold, kept, People, tries>>

-----------------------------------------------------------------------------
(* Restoration: replaceWithTakeoverBackups *)

\* A copy is compared with the manifest in the receipt.
AsRecorded(s) == backup[s] = taker.takes[s]

CopyBack ==
    /\ Is("copy")
    /\ \E s \in taker.left :
         /\ Lowest(s, taker.left)
         /\ \/ /\ AsRecorded(s) /\ Holds
               /\ stage' = [stage EXCEPT !.copy[s] = backup[s]]
               /\ IF taker.left = {s} THEN On("swap", Spots) ELSE Done(s)
            \/ /\ (~AsRecorded(s) /\ Holds) \/ Breaks
               /\ stage' = Clear /\ Errs({}, Clear)
    /\ UNCHANGED <<place, backup, deed, hold, kept, People, tries>>

\* What is at the place goes to the staging directory, and the copy comes, if there is
\* one.  Between the two renames, or after the last, an error may occur.
SwapBack ==
    /\ Is("swap")
    /\ \E s \in taker.left :
         /\ Lowest(s, taker.left)
         /\ LET away == [stage EXCEPT !.dva[s] = place[s]]
                back == [away EXCEPT !.copy[s] = Empty]
                filled == taker.filled \cup ({s} \cap Taken)
            IN \/ /\ stage' = back /\ place' = [place EXCEPT ![s] = stage.copy[s]]
                  /\ \/ Holds /\ taker' = [taker EXCEPT !.filled = filled, !.left = @ \ {s},
                                               !.pc = IF taker.left = {s} THEN "drop" ELSE @]
                     \/ taker.left = {s} /\ Breaks /\ Errs(filled, back)
               \/ s \in Taken /\ Breaks /\ stage' = away /\ place' = [place EXCEPT ![s] = Empty] /\ Errs(taker.filled, away)
               \/ Breaks /\ Errs(taker.filled, stage) /\ UNCHANGED <<place, stage>>
    /\ UNCHANGED <<backup, deed, hold, kept, People, tries>>

\* Its rollback: the restored tree is removed, dva's comes back to a place that is free.
\* Only when all of it worked the staging directory goes.
UndoSwap ==
    /\ Is("unswap")
    /\ IF taker.left # {}
       THEN \E s \in taker.left :
              LET free == s \in taker.filled \/ place[s] = Empty
                  due  == stage.dva[s] # Empty IN
              /\ Highest(s, taker.left)
              /\ \/ /\ Holds /\ (free \/ ~due)
                    /\ place' = [place EXCEPT ![s] = IF free THEN stage.dva[s] ELSE @]
                    /\ stage' = [stage EXCEPT !.dva[s] = Empty] /\ Done(s)
                 \/ /\ Breaks \/ (Holds /\ due /\ ~free)
                    /\ taker' = [taker EXCEPT !.left = @ \ {s}, !.stuck = TRUE]
                    /\ place' \in {place, [place EXCEPT ![s] = IF s \in taker.filled THEN Empty ELSE @]}
                    /\ UNCHANGED stage
       ELSE /\ stage' = (IF taker.stuck THEN stage ELSE Clear) /\ On("yield", {})
            /\ Holds /\ UNCHANGED place
    /\ UNCHANGED <<backup, deed, hold, kept, People, tries>>

\* finalize: the staging directory, a last comparison, the backup.  Errors are reported.
Purge ==
    /\ Is("purge") /\ taker' = Resting /\ stage' = Clear
    /\ \/ /\ Holds /\ UNCHANGED kept
          /\ backup' = IF \A s \in Taken : AsRecorded(s) THEN Bare ELSE backup
       \/ Breaks /\ kept' \in {kept, kept \cup InStage} /\ UNCHANGED backup
    /\ UNCHANGED <<place, deed, hold, People, tries>>

-----------------------------------------------------------------------------
(* What else happens *)

Dies ==
    /\ ~Is("idle") /\ Breaks /\ End
    /\ UNCHANGED <<place, backup, deed, hold, People, tries>>

\* Where dva has looked, and will take what it finds for its own tree.
Unwatched(s) ==
    \/ taker.kind = "restore" /\ (taker.pc \in {"claim", "copy"} \/ (Is("swap") /\ s \in taker.left))
    \/ (Is("unfill") /\ s \in taker.left)

PersonAdds ==
    /\ \E s \in Spots, w \in Writings \ wrote :
         /\ place[s] = Empty /\ (Unwatched(s) => AddsInWindow)
         /\ place' = [place EXCEPT ![s] = w] /\ wrote' = wrote \cup {w}
    /\ UNCHANGED <<stage, backup, deed, hold, taker, kept, spoilt, tries, breaks>>

\* A backup is a directory like any other.
PersonSpoils ==
    /\ spoilt = {}
    /\ \E s \in Spots :
         /\ backup[s] \in Writings
         /\ spoilt' = {backup[s]} /\ backup' = [backup EXCEPT ![s] = Spoiled]
    /\ UNCHANGED <<place, stage, deed, hold, taker, kept, wrote, tries, breaks>>

TakeoverStep ==
    \/ StartTakeover \/ ClaimPlaces \/ SettleClaims \/ YieldClaims
    \/ ListForeign \/ Capture \/ Publish \/ Fill \/ RecordTakeover \/ Tidy
    \/ Unfill \/ GiveBack \/ DiscardBackup \/ Unrecord
    \/ SetAside \/ PutBack \/ Forget
    \/ CopyBack \/ SwapBack \/ UndoSwap \/ Purge

TakeoverNext == TakeoverStep \/ Dies \/ PersonAdds \/ PersonSpoils

TakeoverSpec == TakeoverInit /\ [][TakeoverNext]_takeoverVars

-----------------------------------------------------------------------------
(* Properties *)

\* No tree that a person wrote is ever lost: it is at a place, in the staging directory
\* of the operation or of one that failed, or in a backup that the receipt describes
\* and a restore will accept, unless he spoilt that himself; and a restore that is going
\* to report success has brought back every tree that was taken (takeover_backup.go
\* 33-36, uninstall.go 308-336).
OriginalsKept ==
    /\ wrote \ spoilt \subseteq
         UNION {Within(place), Within(stage.capture), Within(stage.dva), kept,
                {backup[s] : s \in {t \in Spots : backup[t] = deed.takes[t]}}}
    /\ Is("purge") => \A s \in Taken : place[s] = taker.takes[s]

=============================================================================
