---------------------------- MODULE ProcessPlugin ----------------------------
(***************************************************************************)
(* One stack entry that dva runs as a local background process             *)
(* (internal/lifecycle/process.go, process_group_contract.go,              *)
(* process_group_unix.go), and its variant for tilt, sam and serverless,   *)
(* which share the start but not the stop.                                 *)
(*                                                                         *)
(* A service is a process group: a leader, the `sh -c` that dva started,   *)
(* and perhaps a member it left in the background.  All that is known of   *)
(* it lies in a PID file, which several dva processes read, truncate,      *)
(* write and unlink with no lock between them; each system call is a step. *)
(* A start takes a PID nobody had; a PID of the past may come to name a    *)
(* process that is none of dva's.                                          *)
(***************************************************************************)
EXTENDS Integers, FiniteSets, FiniteSetsExt

CONSTANTS
    Dvas,       \* dva processes at work at the same time
    Pids,       \* the PIDs of services
    Forking,    \* bound: those that may leave a member beside the leader
    MaxBegun,   \* bound: commands ever given
    MaxReuse    \* bound: PIDs that come to name a foreign process

\* What a PID file holds that is not a PID: there is none; it was truncated and
\* not yet written; a PID dva must not signal (1, or dva's own group).
Absent == 0
Empty  == 0 - 1
Unsafe == 0 - 2
NoPid  == 0

ASSUME PidsAssumption ==
    /\ Pids \subseteq Nat \ {0}
    /\ IsFiniteSet(Pids) /\ Forking \subseteq Pids
    /\ MaxBegun \in Nat /\ MaxReuse \in Nat

VARIABLES
    kind,       \* "process", or "background": tilt, sam, serverless
    leader,     \* leader[p]: the process with PID p
    member,     \* member[p]: the rest of its group
    file,       \* the PID file
    dva,        \* dva[d]: the command d works on
    begun,      \* how many commands were given
    reused,     \* how many PIDs were reused
    clean,      \* history: services whose start and save no other command overlapped
    leftAlone   \* history: groups whose leader ended unsignalled before a member did

vars == <<kind, leader, member, file, dva, begun, reused, clean, leftAlone>>
world == <<kind, leader, member, reused, leftAlone>>

Kinds == {"process", "background"}
Verbs == {"up", "stop", "down", "restart"}
Halting == {"read", "check", "kill", "wait", "unlink"}
Starting == {"upRead", "upCheck", "start", "open", "write"}

\* A command.  read: what it last read in the PID file; linked: the file it has
\* open is still the one of that name; pid: the service it started; halted: the
\* PID it was to halt.  History: alone, no other command overlapped it; fresh,
\* the services saved since a restart began.  Of one that ended only how it
\* ended is kept, and the service it reports running, NoPid if it is not dva's.
NoCommand == [pc |-> "ended", verb |-> "up", read |-> Absent, linked |-> FALSE,
              pid |-> NoPid, halted |-> NoPid, ok |-> FALSE, result |-> NoPid,
              alone |-> TRUE, fresh |-> {}]

TypeOK ==
    /\ kind \in Kinds
    /\ leader \in [Pids -> {"none", "up", "ending", "gone", "foreign", "foreignGroup"}]
    /\ member \in [Pids -> {"none", "up", "ending"}]
    /\ file \in Pids \cup {Absent, Empty, Unsafe}
    /\ dva \in [Dvas -> [pc : Halting \cup Starting \cup {"ended"}, verb : Verbs,
                         read : Pids \cup {Absent, Empty, Unsafe}, linked : BOOLEAN,
                         pid : Pids \cup {NoPid}, halted : Pids \cup {NoPid},
                         ok : BOOLEAN, result : Pids \cup {NoPid},
                         alone : BOOLEAN, fresh : SUBSET Pids]]
    /\ begun \in 0..MaxBegun /\ reused \in 0..MaxReuse
    /\ clean \subseteq Pids /\ leftAlone \subseteq Pids

\* The file may be left over from an earlier life of the machine or of its user.
Init ==
    /\ kind \in Kinds
    /\ leader = [p \in Pids |-> "none"]
    /\ member = [p \in Pids |-> "none"]
    /\ file \in {Absent, Empty, Unsafe}
    /\ dva = [d \in Dvas |-> NoCommand]
    /\ begun = 0 /\ reused = 0 /\ clean = {} /\ leftAlone = {}

-----------------------------------------------------------------------------
(* Processes *)

Running(p) == leader[p] \in {"up", "ending"}

\* kill(pid, 0) succeeds.
IsProcessRunning(p) == leader[p] \notin {"none", "gone"}

\* There is a group for kill(-pid) to signal.
GroupExists(p) == Running(p) \/ leader[p] = "foreignGroup" \/ member[p] # "none"

\* Faulty: only the leader is signalled.
TerminateLeader(p) ==
    /\ leader' = [leader EXCEPT ![p] = CASE @ = "up" -> "ending"
                                         [] @ = "foreignGroup" -> "gone"
                                         [] OTHER -> @]
    /\ UNCHANGED member

\* SIGTERM reaches all of the group; what is dva's winds down in its own time,
\* or never.
TerminateGroup(p) ==
    /\ leader' = [leader EXCEPT ![p] = CASE @ = "up" -> "ending"
                                         [] @ = "foreignGroup" -> "gone"
                                         [] OTHER -> @]
    /\ member' = [member EXCEPT ![p] = IF @ = "up" THEN "ending" ELSE @]

LeaderExits(p) ==
    /\ Running(p)
    /\ leader' = [leader EXCEPT ![p] = "gone"]
    /\ leftAlone' = IF leader[p] = "up" /\ member[p] = "up" THEN leftAlone \cup {p}
                    ELSE leftAlone
    /\ UNCHANGED <<kind, member, file, dva, begun, reused, clean>>

MemberExits(p) ==
    /\ member[p] # "none"
    /\ member' = [member EXCEPT ![p] = "none"]
    /\ UNCHANGED <<kind, leader, file, dva, begun, reused, clean, leftAlone>>

\* The kernel gives a PID away again once nothing of its group is left.
Reuse(p) ==
    /\ leader[p] = "gone" /\ member[p] = "none" /\ reused < MaxReuse
    /\ \E as \in {"foreign", "foreignGroup"} : leader' = [leader EXCEPT ![p] = as]
    /\ reused' = reused + 1
    /\ UNCHANGED <<kind, member, file, dva, begun, clean, leftAlone>>

-----------------------------------------------------------------------------
(* A command *)

Active(d) == dva[d].pc # "ended"

Set(d, c) == dva' = [dva EXCEPT ![d] = c]
Goto(d, pc) == Set(d, [dva[d] EXCEPT !.pc = pc])
Ended(good, p) == [NoCommand EXCEPT !.ok = good, !.result = p]
Ends(d, good) == Set(d, Ended(good, NoPid))

Begin(d, verb) ==
    /\ ~Active(d) /\ begun < MaxBegun
    /\ begun' = begun + 1
    /\ dva' = [e \in Dvas |->
         CASE e = d -> [NoCommand EXCEPT !.verb = verb,
                          !.pc = IF verb = "up" THEN "upRead" ELSE "read",
                          !.alone = \A o \in Dvas \ {d} : ~Active(o)]
           [] e # d /\ Active(e) -> [dva[e] EXCEPT !.alone = FALSE]
           [] OTHER -> dva[e]]
    /\ UNCHANGED <<world, file, clean>>

\* kill -9, at any moment.
Crash(d) ==
    /\ Active(d)
    /\ Ends(d, FALSE)
    /\ UNCHANGED <<world, file, begun, clean>>

-----------------------------------------------------------------------------
(* Stop and Down *)

\* tilt, sam and serverless drop the PID file right after the signal, without a
\* look at the process before it or after it.
Background == kind = "background"

Halted(d) == IF dva[d].verb = "restart" THEN Goto(d, "upRead") ELSE Ends(d, TRUE)

Read(d) ==
    /\ dva[d].pc = "read"
    /\ LET c == [dva[d] EXCEPT !.read = file, !.halted = IF file \in Pids THEN file ELSE NoPid]
           keeps == ~Background /\ c.verb # "down"
       IN CASE file \in Pids -> Set(d, [c EXCEPT !.pc = IF Background THEN "kill" ELSE "check"])
            [] file = Unsafe -> Ends(d, FALSE)
            [] file = Empty /\ ~keeps -> Set(d, [c EXCEPT !.pc = "unlink"])
            [] OTHER -> Halted(d)
    /\ UNCHANGED <<world, file, begun, clean>>

\* What follows when the process is gone.
Gone(d) == IF dva[d].verb = "down" THEN Goto(d, "unlink") ELSE Halted(d)

Check(d) ==
    /\ dva[d].pc = "check"
    /\ IF IsProcessRunning(dva[d].read) THEN Goto(d, "kill") ELSE Gone(d)
    /\ UNCHANGED <<world, file, begun, clean>>

\* With no such group, `down` of a process fails and every other halt goes on.
Kill(d) ==
    /\ dva[d].pc = "kill"
    /\ IF GroupExists(dva[d].read)
       THEN /\ TerminateGroup(dva[d].read)
            /\ Goto(d, IF Background THEN "unlink" ELSE "wait")
       ELSE /\ UNCHANGED <<leader, member>>
            /\ CASE Background -> Goto(d, "unlink")
                 [] ~Background /\ dva[d].verb = "down" -> Ends(d, FALSE)
                 [] OTHER -> Halted(d)
    /\ UNCHANGED <<kind, file, begun, reused, clean, leftAlone>>

\* Faulty: `down` goes on to delete the PID file of what would not end.
GiveUpDeletes(d) == IF dva[d].verb = "down" THEN Goto(d, "unlink") ELSE Ends(d, FALSE)

\* The deadline passed, or the caller canceled: the PID file stays.
GiveUp(d) == Ends(d, FALSE)

WaitForExit(d) ==
    /\ dva[d].pc = "wait"
    /\ IF IsProcessRunning(dva[d].read) THEN GiveUp(d) ELSE Gone(d)
    /\ UNCHANGED <<world, file, begun, clean>>

\* os.Remove, by name: whoever has the file open writes into nothing.
Unlink(d) ==
    /\ dva[d].pc = "unlink"
    /\ file' = Absent
    /\ dva' = [e \in Dvas |->
         CASE e = d /\ dva[d].verb = "restart" -> [dva[d] EXCEPT !.pc = "upRead"]
           [] e = d /\ dva[d].verb # "restart" -> Ended(TRUE, NoPid)
           [] OTHER -> [dva[e] EXCEPT !.linked = FALSE]]
    /\ UNCHANGED <<world, begun, clean>>

-----------------------------------------------------------------------------
(* Up *)

UpRead(d) ==
    /\ dva[d].pc = "upRead"
    /\ Set(d, [dva[d] EXCEPT !.read = file,
                 !.pc = IF file \in Pids \cup {Unsafe} THEN "upCheck" ELSE "start"])
    /\ UNCHANGED <<world, file, begun, clean>>

\* Faulty: a service that is winding down does not count.
AlreadyRunningUp(p) == IF p = Unsafe THEN BOOLEAN ELSE {leader[p] # "ending" /\ IsProcessRunning(p)}

\* Whether dva may signal PID 1 depends on who runs it.
AlreadyRunning(p) == IF p = Unsafe THEN BOOLEAN ELSE {IsProcessRunning(p)}

UpCheck(d) ==
    /\ dva[d].pc = "upCheck"
    /\ LET p == dva[d].read
       IN \E is \in AlreadyRunning(p) :
            IF is THEN Set(d, Ended(TRUE, IF p \in Pids /\ Running(p) THEN p ELSE NoPid))
            ELSE Goto(d, "start")
    /\ UNCHANGED <<world, file, begun, clean>>

Unused == {p \in Pids : leader[p] = "none"}

\* The context is canceled, a directory or the log cannot be made, or the
\* command cannot be started.
StartFails(d) ==
    /\ dva[d].pc = "start"
    /\ Ends(d, FALSE)
    /\ UNCHANGED <<world, file, begun, clean>>

Start(d) ==
    /\ dva[d].pc = "start" /\ Unused # {}
    /\ LET p == Min(Unused)
       IN /\ leader' = [leader EXCEPT ![p] = "up"]
          /\ \E m \in {"none", "up"} :
               /\ m = "up" => p \in Forking
               /\ member' = [member EXCEPT ![p] = m]
          /\ Set(d, [dva[d] EXCEPT !.pid = p, !.pc = "open"])
    /\ UNCHANGED <<kind, file, begun, reused, clean, leftAlone>>

\* os.WriteFile: opens and truncates, then writes.
Open(d) ==
    /\ dva[d].pc = "open"
    /\ file' = Empty
    /\ Set(d, [dva[d] EXCEPT !.pc = "write", !.linked = TRUE])
    /\ UNCHANGED <<world, begun, clean>>

Write(d) ==
    /\ dva[d].pc = "write"
    /\ LET p == dva[d].pid
       IN /\ file' = IF dva[d].linked THEN p ELSE file
          /\ clean' = IF dva[d].alone THEN clean \cup {p} ELSE clean
          /\ dva' = [e \in Dvas |->
               CASE e = d -> Ended(TRUE, p)
                 [] e # d /\ dva[e].verb = "restart" -> [dva[e] EXCEPT !.fresh = @ \cup {p}]
                 [] OTHER -> dva[e]]
    /\ UNCHANGED <<world, begun>>

\* The PID cannot be saved: the service that was just started is told to end.
SaveFails(d) ==
    /\ dva[d].pc \in {"open", "write"}
    /\ TerminateGroup(dva[d].pid)
    /\ Ends(d, FALSE)
    /\ UNCHANGED <<kind, file, begun, reused, clean, leftAlone>>

-----------------------------------------------------------------------------
(* The specification *)

Halt(d) == Read(d) \/ Check(d) \/ Kill(d) \/ WaitForExit(d) \/ Unlink(d)
Up(d) == UpRead(d) \/ UpCheck(d) \/ StartFails(d) \/ Start(d) \/ Open(d) \/ Write(d) \/ SaveFails(d)
Works(d) == Halt(d) \/ Up(d)

Next ==
    \/ \E d \in Dvas : (\E v \in Verbs : Begin(d, v)) \/ Works(d) \/ Crash(d)
    \/ \E p \in Pids : LeaderExits(p) \/ MemberExits(p) \/ Reuse(p)

Spec == Init /\ [][Next]_vars

-----------------------------------------------------------------------------
(* Properties *)

\* Up to the point from which the PID file may be given up: a process is to be
\* waited for, the others are left once they are signalled.
Kept(p) == leader[p] = "up" \/ (~Background /\ leader[p] = "ending")

\* The PID file names a service for as long as it runs, provided its start
\* overlapped no other command: whatever commands come later, in whatever
\* interleaving, whichever of them time out, fail or are killed
\* (process.go 84-109, 200-240, 276-283).
TrackedUntilGone == \A p \in clean : Kept(p) => file = p

\* While such a service runs nobody starts another (process.go 91-104), even if
\* it was told to stop and has not ended yet (the comment at 17-19).
NoSecondStart ==
    [][(\E d \in Dvas : dva[d].pc = "start" /\ dva'[d].pc = "open")
         => \A p \in clean : ~Kept(p)]_vars

\* A restart that worked leaves a service that was saved after it was asked for,
\* never the old one still shutting down (process.go 155-158, 185-190).
Replaced(d) ==
    dva[d].verb = "restart" => dva'[d].result \in dva[d].fresh \cup {dva[d].pid, NoPid}

\* A halt that worked has ended the service it found (a background one was told
\* to end), with all of its group unless the leader had left first; after `down`
\* the PID file is not its own (process.go 173-198, 219-239; tilt.go 138-145).
HaltedIt(d) ==
    \A p \in {dva[d].halted} \cap Pids :
        /\ ~Kept(p)'
        /\ member'[p] = "up" => p \in leftAlone
        /\ dva[d].verb = "down" => file' # p

\* Stop, down and restart have done what they report.
CommandsMeanIt ==
    [][\A d \in Dvas : ~Active(d)' /\ dva'[d].ok => Replaced(d) /\ HaltedIt(d)]_vars

=============================================================================
