------------------------------- MODULE CiReuse -------------------------------
(***************************************************************************)
(* A reusable step of `dva ci run` (runReusableStep,                       *)
(* internal/cirun/cirun_steps.go, and internal/cirun/ci_reuse.go): the     *)
(* inputs are hashed file by file; a success recorded under that key is    *)
(* reused if it is neither too old nor from the future and the outputs are *)
(* still as it left them; otherwise the step runs, the inputs are hashed   *)
(* again and only if the key is the same is the success recorded.          *)
(*                                                                         *)
(* The lock of the root admits one run at a time (CiRunLocks), but nothing *)
(* keeps an editor, another step or the step itself from changing inputs   *)
(* and outputs at any moment.  The files stand for all that the key covers:*)
(* tools, environment, probes and the engine too.                          *)
(***************************************************************************)
EXTENDS Integers, FiniteSets

CONSTANTS
    Files,      \* the declared inputs, 1..n, in the order they are hashed
    Values,     \* what a file may hold
    Fits,       \* the inputs the step succeeds on, a subset of [Files -> Values]
    MaxAge,     \* reuse.max_age
    MaxTime,    \* bound: the latest time
    MaxRuns,    \* bound: times the step is come to
    MaxEdits,   \* bound: edits of inputs
    MaxSpoils   \* bound: edits of outputs

ASSUME ReuseAssumption ==
    /\ Files = 1..Cardinality(Files) /\ IsFiniteSet(Files) /\ Files # {}
    /\ Fits \subseteq [Files -> Values]
    /\ {MaxAge, MaxTime, MaxRuns, MaxEdits, MaxSpoils} \subseteq Nat

Inputs == [Files -> Values]

\* A step leaves behind what it made of its inputs: they stand for it.
Made(i) == [is |-> "made", of |-> i]
Nothing == [is |-> "nothing"]
Spoilt  == [is |-> "spoilt"]
Outputs == {Made(i) : i \in Inputs} \cup {Nothing, Spoilt}

VARIABLES
    inputs,     \* what the files hold
    output,     \* what the declared outputs hold
    now,        \* the clock, which may be set back
    cache,      \* cache[k]: what is on disk under key k
    step,       \* the step: where it is, and what it has in hand
    runs, edits, spoils,    \* how many so far
    tampered    \* history: the output was changed since the step left it

vars == <<inputs, output, now, cache, step, runs, edits, spoils, tampered>>
around == <<inputs, output, now, runs, edits, spoils, tampered>>

NoRecord == [is |-> "none"]
Torn == [is |-> "torn"]
Results == {"none", "reused", "succeeded", "failed", "integrity", "crashed"}

\* key, again: the two hashes; read: the inputs the command saw.  History: since[f],
\* edits of f since its first hash, 2 for more; twice, an input was changed more
\* than once between its two hashes.
Blank == [f \in Files |-> CHOOSE v \in Values : TRUE]
Idle == [pc |-> "ended", fresh |-> FALSE, at |-> 1, key |-> Blank, read |-> Blank,
         again |-> Blank, result |-> "none", since |-> [f \in Files |-> 0], twice |-> FALSE]

TypeOK ==
    /\ inputs \in Inputs /\ output \in Outputs /\ now \in 0..MaxTime
    /\ \A k \in Inputs : cache[k] \in {NoRecord, Torn} \cup
         [is : {"record"}, at : 0..MaxTime, output : Outputs, read : Inputs,
          twice : BOOLEAN, tampered : BOOLEAN]
    /\ step \in [pc : {"hash", "load", "read", "finish", "over", "rehash", "save", "ended"},
                 fresh : BOOLEAN, at : Files, key : Inputs, read : Inputs, again : Inputs,
                 result : Results, since : [Files -> 0..2], twice : BOOLEAN]
    /\ tampered \in BOOLEAN

Init ==
    /\ inputs \in Inputs /\ output = Nothing /\ now = 0
    /\ cache = [k \in Inputs |-> NoRecord]
    /\ step = Idle
    /\ runs = 0 /\ edits = 0 /\ spoils = 0
    /\ tampered = FALSE

-----------------------------------------------------------------------------
(* The step *)

End(result) == step' = [Idle EXCEPT !.result = result]
Last(f) == f + 1 \notin Files

\* --fresh and unless_environment bypass the cache.
Begin(fresh) ==
    /\ step.pc = "ended" /\ runs < MaxRuns
    /\ runs' = runs + 1
    /\ step' = [Idle EXCEPT !.fresh = fresh, !.pc = IF fresh THEN "read" ELSE "hash"]
    /\ UNCHANGED <<inputs, output, now, cache, edits, spoils, tampered>>

\* reuseFor, up to the key.
Hash ==
    /\ step.pc = "hash"
    /\ LET f == step.at
           done == IF Last(f) THEN [step EXCEPT !.pc = "load", !.at = 1] ELSE [step EXCEPT !.at = f + 1]
       IN step' = [done EXCEPT !.key[f] = inputs[f], !.since[f] = 0]
    /\ UNCHANGED <<around, cache>>

\* Faulty: the outputs are not looked at.
UsableAnyhow(r) == r.is = "record" /\ r.at <= now /\ now - r.at <= MaxAge

\* loadReuse: not missing, malformed, from the future, expired or mismatched.
Usable(r) ==
    /\ r.is = "record"
    /\ r.at <= now /\ now - r.at <= MaxAge
    /\ r.output = output

Reuse ==
    /\ step.pc = "load" /\ Usable(cache[step.key])
    /\ End("reused")
    /\ UNCHANGED <<around, cache>>

Execute ==
    /\ step.pc = "load" /\ ~Usable(cache[step.key])
    /\ step' = [step EXCEPT !.pc = "read"]
    /\ UNCHANGED <<around, cache>>

\* The command reads its inputs one by one.
ReadFile ==
    /\ step.pc = "read"
    /\ LET f == step.at
           done == IF Last(f) THEN [step EXCEPT !.pc = "finish", !.at = 1] ELSE [step EXCEPT !.at = f + 1]
       IN step' = [done EXCEPT !.read[f] = inputs[f]]
    /\ UNCHANGED <<around, cache>>

Finish ==
    /\ step.pc = "finish" /\ step.read \in Fits
    /\ output' = Made(step.read) /\ tampered' = FALSE
    /\ IF step.fresh THEN End("succeeded") ELSE step' = [step EXCEPT !.pc = "rehash"]
    /\ UNCHANGED <<inputs, now, cache, runs, edits, spoils>>

\* A hash cannot be taken; the step is canceled or out of time; or the command
\* fails, and may have touched the outputs.
Fail ==
    /\ step.pc \in {"hash", "load", "read", "finish", "rehash"}
    /\ \E result \in {"failed"} \cup (IF step.pc = "rehash" THEN {"integrity"} ELSE {}) : End(result)
    /\ output' \in {output} \cup (IF step.pc = "finish" THEN {Nothing, Spoilt} ELSE {})
    /\ tampered' = (tampered \/ output' # output)
    /\ UNCHANGED <<inputs, now, cache, runs, edits, spoils>>

\* Faulty: the inputs are not hashed again.
SameKeyAnyhow == TRUE

SameKey == step.again = step.key

Rehash ==
    /\ step.pc = "rehash"
    /\ LET f == step.at
       IN step' = [step EXCEPT !.again[f] = inputs[f], !.at = IF Last(f) THEN 1 ELSE f + 1,
                               !.pc = IF Last(f) THEN "save" ELSE "rehash",
                               !.twice = @ \/ step.since[f] = 2]
    /\ UNCHANGED <<around, cache>>

\* saveReuse, by a rename: all of the record or none.
Save ==
    /\ step.pc = "save" /\ SameKey
    /\ cache' = [cache EXCEPT ![step.key] =
         [is |-> "record", at |-> now, output |-> output, read |-> step.read,
          twice |-> step.twice, tampered |-> tampered]]
    /\ End("succeeded")
    /\ UNCHANGED around

\* The key is another one, or the record cannot be made: the run is broken off.
Reject ==
    /\ step.pc = "save"
    /\ End("integrity")
    /\ UNCHANGED <<around, cache>>

Crash ==
    /\ step.pc # "ended"
    /\ End("crashed")
    /\ UNCHANGED <<around, cache>>

-----------------------------------------------------------------------------
(* What happens around it *)

\* Anyone changes a file, the step too.
Edit(f) ==
    /\ edits < MaxEdits /\ edits' = edits + 1
    /\ \E v \in Values \ {inputs[f]} : inputs' = [inputs EXCEPT ![f] = v]
    /\ step' = IF step.pc = "ended" \/ step.since[f] = 2 THEN step
               ELSE [step EXCEPT !.since[f] = @ + 1]
    /\ UNCHANGED <<output, now, cache, runs, spoils, tampered>>

Spoil ==
    /\ spoils < MaxSpoils /\ spoils' = spoils + 1
    /\ output' \in {Nothing, Spoilt} \ {output} /\ tampered' = TRUE
    /\ UNCHANGED <<inputs, now, cache, step, runs, edits>>

SetClock ==
    /\ now' \in {now - 1, now + 1} \cap 0..MaxTime
    /\ UNCHANGED <<inputs, output, cache, step, runs, edits, spoils, tampered>>

\* The machine loses power: a record that was renamed but not synced is empty.
PowerFails(k) ==
    /\ cache[k].is = "record"
    /\ cache' = [cache EXCEPT ![k] = Torn]
    /\ End("crashed")
    /\ UNCHANGED around

-----------------------------------------------------------------------------
(* The specification *)

Step ==
    \/ \E fresh \in BOOLEAN : Begin(fresh)
    \/ Hash \/ Reuse \/ Execute \/ ReadFile \/ Finish \/ Fail \/ Rehash \/ Save \/ Reject

Next ==
    \/ Step \/ Crash
    \/ (\E f \in Files : Edit(f)) \/ Spoil \/ SetClock
    \/ \E k \in Inputs : PowerFails(k)

Spec == Init /\ [][Next]_vars

-----------------------------------------------------------------------------
(* Properties *)

\* A recorded success is that of a run on the inputs of its key, though they may
\* change at any moment: the one exception is an input that was changed and
\* changed back while the step ran (cirun_steps.go 289-303).
CacheTruthful ==
    \A k \in Inputs : cache[k].is = "record" =>
        cache[k].read \in Fits /\ (cache[k].twice \/ cache[k].read = k)

\* To reuse a success is as good as to run the step now: it would succeed, and
\* leave behind what is there, which is not older than max_age.  Set aside are
\* edits while the inputs are hashed, the exception above and outputs that were
\* changed between the end of the step and its record (ci_reuse.go 500-525).
ReuseIsSound ==
    [][step.pc = "load" /\ step'.result = "reused" =>
         LET r == cache[step.key]
         IN /\ 0 <= now - r.at /\ now - r.at <= MaxAge
            /\ ~r.twice /\ ~r.tampered /\ (\A f \in Files : step.since[f] = 0)
                 => inputs \in Fits /\ output = Made(inputs)]_vars

=============================================================================
