------------------------ MODULE CiCompositionProofs -------------------------
(***************************************************************************)
(* Theorems about CiComposition, for any runs, steps, ancestries and       *)
(* roots.                                                                  *)
(*                                                                         *)
(* A step of the model is a step of one run or of one scope.  What it      *)
(* leaves alone is stated once (RunFrame, ScopeFrame); the invariant is    *)
(* then kept part by part, looking only at the run or scope that moves.    *)
(***************************************************************************)
EXTENDS CiComposition, TLAPS

LEMMA ConstantTypes ==
    /\ OwnerOf \in [Scopes -> Runs]
    /\ Via \in [Runs -> Scopes \cup {Nobody}]
    /\ Nobody \notin Runs /\ Nobody \notin Scopes
    /\ RootOf \in [Runs -> Roots]
    /\ MaxFaults \in Nat
BY CompositionAssumption

USE ConstantTypes

-----------------------------------------------------------------------------
(* Types *)

\* A run that nobody but the user started enters no scope.
TopLevel ==
    \A r \in Runs : Via[r] = Nobody =>
        pc[r] \notin {"admit", "wait", "verify", "siblings", "register", "released"}

LEMMA RunTypes ==
    ASSUME TypeOK, TopLevel, NEW r \in Runs, RunStep(r)
    PROVE  TypeOK'
<1> USE DEF TypeOK, PCs, Goto, Leaves, Refuse, Unlock, ChildrenOf, Fault,
            lockVars, stepVars, fileVars
<1>1. CASE Start(r)
  BY <1>1 DEF Start
<1>2. CASE Admit(r)
  BY <1>2 DEF Admit
<1>3. CASE EnterAdmission(r)
  BY <1>3 DEF EnterAdmission
<1>4. CASE GiveUpWaiting(r)
  BY <1>4 DEF GiveUpWaiting
<1>5. CASE Verify(r)
  BY <1>5 DEF Verify
<1>6. CASE CheckSiblings(r)
  BY <1>6 DEF CheckSiblings
<1>7. CASE Acquire(r)
  BY <1>7 DEF Acquire
<1>8. CASE AcquireBusy(r)
  BY <1>8 DEF AcquireBusy
<1>9. CASE Register(r)
  BY <1>9 DEF Register, TopLevel
<1>10. CASE RegisterFails(r)
  BY <1>10 DEF RegisterFails
<1>11. CASE Monitor(r)
  BY <1>11 DEF Monitor
<1>12. CASE Interrupt(r)
  BY <1>12 DEF Interrupt
<1>13. ASSUME NEW ok \in BOOLEAN, FinishRun(r, ok)
       PROVE  TypeOK'
  BY <1>13 DEF FinishRun
<1>14. CASE Release(r)
  BY <1>14 DEF Release
<1>15. CASE RecordEnd(r)
  BY <1>15 DEF RecordEnd, TopLevel
<1>16. CASE Crash(r)
  BY <1>16 DEF Crash
<1> QED
  BY <1>1, <1>2, <1>3, <1>4, <1>5, <1>6, <1>7, <1>8, <1>9, <1>10, <1>11, <1>12,
     <1>13, <1>14, <1>15, <1>16 DEF RunStep

LEMMA ScopeTypes ==
    ASSUME TypeOK, NEW s \in Scopes, ScopeStep(s)
    PROVE  TypeOK'
<1> USE DEF TypeOK, Phases, Results, Conclude, Fault, ChildrenOf
<1>1. CASE OpenScope(s)
  BY <1>1 DEF OpenScope, runVars, lockVars, fileVars
<1>2. CASE Expire(s)
  BY <1>2 DEF Expire, runVars, lockVars, fileVars, stepVars
<1>3. CASE Close(s)
  BY <1>3 DEF Close, runVars, lockVars
<1>4. CASE Drained(s)
  BY <1>4 DEF Drained, runVars, lockVars, fileVars
<1>5. ASSUME NEW ok \in BOOLEAN, ShellEnds(s, ok)
      PROVE  TypeOK'
  <2>1. StepDone(s) \in BOOLEAN
    BY DEF StepDone, ContextDone
  <2> QED
    BY <1>5, <2>1 DEF ShellEnds, runVars, lockVars, fileVars
<1>6. CASE Escalate(s)
  BY <1>6 DEF Escalate, runVars, lockVars
<1>7. CASE GiveUpDraining(s)
  BY <1>7 DEF GiveUpDraining, runVars, lockVars, fileVars
<1>8. CASE DrainFails(s)
  <2>1. closed' \in [Scopes -> BOOLEAN]
    BY <1>8 DEF DrainFails
  <2>2. /\ phase' \in [Scopes -> Phases] /\ result' \in [Scopes -> Results]
        /\ {shell', tainted', draining'} \subseteq [Scopes -> BOOLEAN]
    BY <1>8 DEF DrainFails
  <2>3. faults' \in 0 .. MaxFaults
    BY <1>8 DEF DrainFails
  <2>4. UNCHANGED <<runVars, lockVars, admission, cancel, expired>>
    BY <1>8 DEF DrainFails
  <2> QED
    BY <2>1, <2>2, <2>3, <2>4 DEF runVars, lockVars
<1> QED
  BY <1>1, <1>2, <1>3, <1>4, <1>5, <1>6, <1>7, <1>8 DEF ScopeStep

-----------------------------------------------------------------------------
(* What a step leaves alone *)

\* A run changes no scope, but for its admission lock, and nothing of another
\* run.
RunLeavesAlone(r) ==
    /\ UNCHANGED <<closed, phase, result>>
    /\ \A q \in Runs : q # r =>
          /\ pc'[q] = pc[q] /\ record'[q] = record[q] /\ receipt'[q] = receipt[q]
          /\ Holds(q)' <=> Holds(q)
    /\ \A q \in Runs : \A s \in Scopes :
          q # r /\ admission[s] = q => admission'[s] = q

LEMMA RunFrame ==
    ASSUME TypeOK, NEW r \in Runs, RunStep(r)
    PROVE  RunLeavesAlone(r)
<1> USE DEF TypeOK, Goto, Leaves, Refuse, Unlock, RunLeavesAlone, Holds, Fault,
            lockVars, stepVars, fileVars
<1>1. CASE Start(r)
  BY <1>1 DEF Start
<1>2. CASE Admit(r)
  BY <1>2 DEF Admit
<1>3. CASE EnterAdmission(r)
  BY <1>3 DEF EnterAdmission
<1>4. CASE GiveUpWaiting(r)
  BY <1>4 DEF GiveUpWaiting
<1>5. CASE Verify(r)
  BY <1>5 DEF Verify
<1>6. CASE CheckSiblings(r)
  BY <1>6 DEF CheckSiblings
<1>7. CASE Acquire(r)
  BY <1>7 DEF Acquire
<1>8. CASE AcquireBusy(r)
  BY <1>8 DEF AcquireBusy
<1>9. CASE Register(r)
  BY <1>9 DEF Register
<1>10. CASE RegisterFails(r)
  BY <1>10 DEF RegisterFails
<1>11. CASE Monitor(r)
  BY <1>11 DEF Monitor
<1>12. CASE Interrupt(r)
  BY <1>12 DEF Interrupt
<1>13. ASSUME NEW ok \in BOOLEAN, FinishRun(r, ok)
       PROVE  RunLeavesAlone(r)
  BY <1>13 DEF FinishRun
<1>14. CASE Release(r)
  BY <1>14 DEF Release
<1>15. CASE RecordEnd(r)
  BY <1>15 DEF RecordEnd
<1>16. CASE Crash(r)
  BY <1>16 DEF Crash
<1> QED
  BY <1>1, <1>2, <1>3, <1>4, <1>5, <1>6, <1>7, <1>8, <1>9, <1>10, <1>11, <1>12,
     <1>13, <1>14, <1>15, <1>16 DEF RunStep

\* A scope changes no run and no other scope, and is never opened again; it is
\* closed when nobody is inside its admission lock.
ScopeLeavesAlone(s) ==
    /\ UNCHANGED <<pc, lock, record, receipt, admission>>
    /\ \A t \in Scopes : t # s =>
          phase'[t] = phase[t] /\ result'[t] = result[t] /\ closed'[t] = closed[t]
    /\ \/ closed'[s] = closed[s]
       \/ closed'[s] /\ admission[s] = Nobody
    /\ phase'[s] # "none" \/ phase' = phase

LEMMA ScopeFrame ==
    ASSUME TypeOK, NEW s \in Scopes, ScopeStep(s)
    PROVE  ScopeLeavesAlone(s)
<1> USE DEF TypeOK, Conclude, Fault, runVars, lockVars, fileVars, stepVars,
            ScopeLeavesAlone
<1>1. CASE OpenScope(s)
  BY <1>1 DEF OpenScope
<1>2. CASE Expire(s)
  BY <1>2 DEF Expire
<1>3. CASE Close(s)
  BY <1>3 DEF Close
<1>4. CASE Drained(s)
  BY <1>4 DEF Drained
<1>5. ASSUME NEW ok \in BOOLEAN, ShellEnds(s, ok)
      PROVE  ScopeLeavesAlone(s)
  BY <1>5 DEF ShellEnds
<1>6. CASE Escalate(s)
  BY <1>6 DEF Escalate
<1>7. CASE GiveUpDraining(s)
  BY <1>7 DEF GiveUpDraining
<1>8. CASE DrainFails(s)
  BY <1>8 DEF DrainFails
<1> QED
  BY <1>1, <1>2, <1>3, <1>4, <1>5, <1>6, <1>7, <1>8 DEF ScopeStep

-----------------------------------------------------------------------------
(* The invariant: admission *)

\* Who is inside the admission lock holds it.
AdmissionHeld ==
    \A r \in Runs :
        Via[r] # Nobody /\ pc[r] \in {"verify", "siblings", "acquire", "register"}
            => admission[Via[r]] = r

\* A run holds the lock of its root exactly from Acquire to Release.
RootHeld ==
    \A r \in Runs : pc[r] \in {"register", "running", "final"} <=> Holds(r)

\* A child that executes, or did until just now, has its record; one that was
\* not started has none.
RecordOpen ==
    \A r \in Runs :
        /\ Via[r] # Nobody /\ pc[r] \in {"running", "final", "released"}
              => record[r] = "open"
        /\ pc[r] = "idle" => record[r] = "none"

\* Between Verify and Register the scope stays open: it is closed under the
\* same lock.
OpenInside ==
    \A r \in Runs :
        Via[r] # Nobody /\ pc[r] \in {"siblings", "acquire", "register"}
            => ~closed[Via[r]]

\* Between CheckSiblings and Register no sibling starts.
NoSiblings ==
    \A r, c \in Runs :
        Via[r] # Nobody /\ Via[c] = Via[r] /\ pc[r] \in {"acquire", "register"}
            => ~Executing(c)

\* A scope that is drained, or was, is closed.
DrainClosed ==
    \A s \in Scopes :
        phase[s] = "draining" \/ result[s] \in {"ok", "failed"} => closed[s]

AdmissionInv ==
    /\ TypeOK /\ TopLevel
    /\ AdmissionHeld /\ RootHeld /\ RecordOpen /\ OpenInside /\ NoSiblings
    /\ DrainClosed /\ OneChildAtATime /\ ConfirmedMeansGone

LEMMA TopLevelKept ==
    ASSUME TypeOK, TopLevel, NEW r \in Runs, RunStep(r)
    PROVE  TopLevel'
<1>1. RunLeavesAlone(r)
  BY RunFrame
<1>2. Via[r] = Nobody => pc'[r] \notin {"admit", "wait", "verify", "siblings",
                                         "register", "released"}
  BY DEF TypeOK, TopLevel, RunStep, Goto, Refuse, Start, Admit, EnterAdmission,
         GiveUpWaiting, Verify, CheckSiblings, Acquire, AcquireBusy, Register,
         RegisterFails, Monitor, Interrupt, FinishRun, Release, RecordEnd, Crash
<1> QED
  BY <1>1, <1>2 DEF TopLevel, RunLeavesAlone

LEMMA AdmissionHeldKept ==
    ASSUME TypeOK, TopLevel, AdmissionHeld, NEW r \in Runs, RunStep(r)
    PROVE  AdmissionHeld'
<1>1. RunLeavesAlone(r)
  BY RunFrame
<1>2. Via[r] # Nobody /\ pc'[r] \in {"verify", "siblings", "acquire", "register"}
        => admission'[Via[r]] = r
  BY DEF TypeOK, AdmissionHeld, RunStep, Goto, Refuse, Start, Admit, EnterAdmission,
         GiveUpWaiting, Verify, CheckSiblings, Acquire, AcquireBusy, Register,
         RegisterFails, Monitor, Interrupt, FinishRun, Release, RecordEnd, Crash,
         fileVars
<1> QED
  BY <1>1, <1>2 DEF AdmissionHeld, RunLeavesAlone

LEMMA RootHeldKept ==
    ASSUME TypeOK, RootHeld, NEW r \in Runs, RunStep(r)
    PROVE  RootHeld'
<1>1. RunLeavesAlone(r)
  BY RunFrame
<1>2. pc'[r] \in {"register", "running", "final"} <=> Holds(r)'
  BY DEF TypeOK, RootHeld, Holds, RunStep, Goto, Refuse, Unlock, Start, Admit,
         EnterAdmission, GiveUpWaiting, Verify, CheckSiblings, Acquire,
         AcquireBusy, Register, RegisterFails, Monitor, Interrupt, FinishRun,
         Release, RecordEnd, Crash, lockVars
<1> QED
  BY <1>1, <1>2 DEF RootHeld, RunLeavesAlone

LEMMA RecordOpenKept ==
    ASSUME TypeOK, RecordOpen, NEW r \in Runs, RunStep(r)
    PROVE  RecordOpen'
<1>1. RunLeavesAlone(r)
  BY RunFrame
<1>2. /\ Via[r] # Nobody /\ pc'[r] \in {"running", "final", "released"}
            => record'[r] = "open"
      /\ pc'[r] = "idle" => record'[r] = "none"
  BY DEF TypeOK, RecordOpen, RunStep, Goto, Refuse, Start, Admit, EnterAdmission,
         GiveUpWaiting, Verify, CheckSiblings, Acquire, AcquireBusy, Register,
         RegisterFails, Monitor, Interrupt, FinishRun, Release, RecordEnd, Crash
<1> QED
  BY <1>1, <1>2 DEF RecordOpen, RunLeavesAlone

LEMMA OpenInsideKept ==
    ASSUME TypeOK, OpenInside, NEW r \in Runs, RunStep(r)
    PROVE  OpenInside'
<1>1. RunLeavesAlone(r)
  BY RunFrame
<1>2. Via[r] # Nobody /\ pc'[r] \in {"siblings", "acquire", "register"}
        => ~closed[Via[r]]
  BY DEF TypeOK, OpenInside, IsOpen, RunStep, Goto, Refuse, Start, Admit,
         EnterAdmission, GiveUpWaiting, Verify, CheckSiblings, Acquire,
         AcquireBusy, Register, RegisterFails, Monitor, Interrupt, FinishRun,
         Release, RecordEnd, Crash
<1> QED
  BY <1>1, <1>2 DEF OpenInside, RunLeavesAlone

\* A child begins to execute in Register, and only there.
LEMMA BeginsInRegister ==
    ASSUME TypeOK, NEW r \in Runs, RunStep(r), Via[r] # Nobody
    PROVE  Executing(r)' => Executing(r) \/ pc[r] = "register"
BY DEF TypeOK, Executing, RunStep, Goto, Refuse, Start, Admit, EnterAdmission,
       GiveUpWaiting, Verify, CheckSiblings, Acquire, AcquireBusy, Register,
       RegisterFails, Monitor, Interrupt, FinishRun, Release, RecordEnd, Crash

\* Who goes on to Acquire saw every registered sibling finished, and a sibling
\* without a record, or with a finished one, does not execute.
LEMMA NoSiblingsKept ==
    ASSUME TypeOK, TopLevel, AdmissionHeld, RecordOpen, NoSiblings,
           NEW r \in Runs, RunStep(r)
    PROVE  NoSiblings'
<1>1. RunLeavesAlone(r)
  BY RunFrame
<1>2. SUFFICES ASSUME NEW q \in Runs, NEW c \in Runs, Via[q] # Nobody,
                      Via[c] = Via[q], pc'[q] \in {"acquire", "register"},
                      Executing(c)'
               PROVE  FALSE
  BY DEF NoSiblings
<1>3. c # q
  BY <1>2 DEF Executing
<1>4. CASE q = r
  <2>1. Executing(c) /\ record[c] = "open"
    BY <1>1, <1>2, <1>3, <1>4 DEF RunLeavesAlone, Executing, RecordOpen
  <2>2. pc[r] = "siblings" \/ pc[r] \in {"acquire", "register"}
    BY <1>2, <1>4 DEF TypeOK, RunStep, Goto, Refuse, Start, Admit, EnterAdmission,
       GiveUpWaiting, Verify, CheckSiblings, Acquire, AcquireBusy, Register,
       RegisterFails, Monitor, Interrupt, FinishRun, Release, RecordEnd, Crash
  <2>3. CASE pc[r] = "siblings"
    <3>1. CheckSiblings(r)
      BY <1>2, <1>4, <2>3 DEF TypeOK, RunStep, Goto, Refuse, Start, Admit,
         EnterAdmission, GiveUpWaiting, Verify, Acquire, AcquireBusy, Register,
         RegisterFails, Monitor, Interrupt, FinishRun, Release, RecordEnd, Crash
    <3>2. \A e \in Registered(Via[r]) : CanSeeEnd(e)
      BY <1>2, <1>4, <3>1 DEF CheckSiblings, TypeOK, Refuse, Goto
    <3>3. c \in Registered(Via[r])
      BY <1>2, <1>4, <2>1 DEF Registered, ChildrenOf
    <3> QED
      BY <2>1, <3>2, <3>3 DEF CanSeeEnd
  <2>4. CASE pc[r] \in {"acquire", "register"}
    BY <1>2, <1>4, <2>1, <2>4 DEF NoSiblings
  <2> QED
    BY <2>2, <2>3, <2>4
<1>5. CASE q # r
  <2>1. pc[q] \in {"acquire", "register"} /\ ~Executing(c)
    BY <1>1, <1>2, <1>5 DEF RunLeavesAlone, NoSiblings
  <2>2. c = r /\ pc[r] = "register"
    BY <1>1, <1>2, <2>1, BeginsInRegister DEF RunLeavesAlone, Executing
  <2> QED
    BY <1>2, <1>5, <2>1, <2>2 DEF AdmissionHeld
<1> QED
  BY <1>4, <1>5

LEMMA OneChildKept ==
    ASSUME TypeOK, TopLevel, NoSiblings, OneChildAtATime, NEW r \in Runs, RunStep(r)
    PROVE  OneChildAtATime'
<1>1. RunLeavesAlone(r)
  BY RunFrame
<1>2. SUFFICES ASSUME NEW s \in Scopes, NEW c \in ChildrenOf(s),
                      NEW d \in ChildrenOf(s), Executing(c)', Executing(d)', c # d
               PROVE  FALSE
  BY DEF OneChildAtATime
<1>3. c \in Runs /\ d \in Runs /\ Via[c] = s /\ Via[d] = s /\ s # Nobody
  BY DEF ChildrenOf
<1>4. ~(Executing(c) /\ Executing(d))
  BY <1>2 DEF OneChildAtATime
<1>5. CASE c = r
  BY <1>1, <1>2, <1>3, <1>4, <1>5, BeginsInRegister
     DEF RunLeavesAlone, Executing, NoSiblings
<1>6. CASE d = r
  BY <1>1, <1>2, <1>3, <1>4, <1>6, BeginsInRegister
     DEF RunLeavesAlone, Executing, NoSiblings
<1> QED
  BY <1>1, <1>2, <1>3, <1>4, <1>5, <1>6 DEF RunLeavesAlone, Executing

\* A child of a scope that was drained neither executes nor gets a lock.
LEMMA ConfirmedKept ==
    ASSUME AdmissionInv, NEW r \in Runs, RunStep(r)
    PROVE  ConfirmedMeansGone'
<1> USE DEF AdmissionInv
<1>1. RunLeavesAlone(r)
  BY RunFrame
<1>2. SUFFICES ASSUME NEW s \in Scopes, result[s] \in {"ok", "failed"},
                      NEW c \in ChildrenOf(s)
               PROVE  ~Executing(c)' /\ ~Holds(c)'
  BY <1>1 DEF ConfirmedMeansGone, RunLeavesAlone, ChildrenOf
<1>3. c \in Runs /\ Via[c] = s /\ s # Nobody /\ closed[s]
  BY <1>2 DEF ChildrenOf, DrainClosed
<1>4. pc[c] \notin {"siblings", "acquire", "register", "running", "final"}
  BY <1>2, <1>3 DEF OpenInside, ConfirmedMeansGone, Executing
<1>5. pc'[c] \notin {"register", "running", "final"}
  <2>1. CASE c = r
    BY <1>4, <2>1
       DEF TypeOK, RunStep, Goto, Refuse, Start, Admit, EnterAdmission,
       GiveUpWaiting, Verify, CheckSiblings, Acquire, AcquireBusy, Register,
       RegisterFails, Monitor, Interrupt, FinishRun, Release, RecordEnd, Crash
  <2> QED
    BY <1>1, <1>3, <1>4, <2>1 DEF RunLeavesAlone
<1>6. RootHeld'
  BY RootHeldKept
<1> QED
  BY <1>3, <1>5, <1>6 DEF RootHeld, Executing

LEMMA RunKeepsAdmissionInv ==
    ASSUME AdmissionInv, NEW r \in Runs, RunStep(r)
    PROVE  AdmissionInv'
<1>1. DrainClosed'
  BY RunFrame DEF AdmissionInv, RunLeavesAlone, DrainClosed
<1> QED
  BY <1>1, RunTypes, TopLevelKept, AdmissionHeldKept, RootHeldKept, RecordOpenKept,
     OpenInsideKept, NoSiblingsKept, OneChildKept, ConfirmedKept DEF AdmissionInv

\* The scope that is drained has no child left: one without a record would be
\* inside the admission lock of a closed scope.
LEMMA DrainedMeansGone ==
    ASSUME AdmissionInv, NEW s \in Scopes, Drained(s), NEW c \in ChildrenOf(s)
    PROVE  ~Executing(c) /\ ~Holds(c)
<1> USE DEF AdmissionInv
<1>1. c \in Runs /\ Via[c] = s /\ s # Nobody /\ closed[s]
  BY DEF ChildrenOf, Drained, DrainClosed
<1>2. CASE c \in Registered(s)
  <2>1. record[c] = "finished" /\ ~Holds(c)
    BY <1>2 DEF Drained, Pending
  <2> QED
    BY <1>1, <2>1 DEF Executing, RecordOpen
<1>3. CASE c \notin Registered(s)
  <2>1. record[c] = "none"
    BY <1>3 DEF Registered
  <2>2. pc[c] \notin {"register", "running", "final"}
    BY <1>1, <2>1 DEF RecordOpen, OpenInside
  <2> QED
    BY <1>1, <2>2 DEF RootHeld, Executing
<1> QED
  BY <1>2, <1>3

LEMMA ScopeKeepsAdmissionInv ==
    ASSUME AdmissionInv, NEW s \in Scopes, ScopeStep(s)
    PROVE  AdmissionInv'
<1> USE DEF AdmissionInv
<1>1. TypeOK' /\ ScopeLeavesAlone(s)
  BY ScopeTypes, ScopeFrame
<1>2. TopLevel' /\ AdmissionHeld' /\ RootHeld' /\ RecordOpen'
  BY <1>1 DEF ScopeLeavesAlone, TopLevel, AdmissionHeld, RootHeld, RecordOpen, Holds
<1>3. NoSiblings' /\ OneChildAtATime'
  BY <1>1 DEF ScopeLeavesAlone, NoSiblings, OneChildAtATime, Executing, ChildrenOf
<1>4. OpenInside'
  BY <1>1 DEF ScopeLeavesAlone, OpenInside, AdmissionHeld
<1>5. phase'[s] = "draining" \/ result'[s] \in {"ok", "failed"} => closed'[s]
  BY <1>1 DEF DrainClosed, TypeOK, ScopeStep, ScopeLeavesAlone, OpenScope, Expire, Close,
     Drained, ShellEnds, Escalate, GiveUpDraining, DrainFails, Conclude, fileVars,
     stepVars
<1>6. DrainClosed'
  BY <1>1, <1>5 DEF ScopeLeavesAlone, DrainClosed
<1>7. result'[s] \in {"ok", "failed"} => result'[s] = result[s] \/ Drained(s)
  BY DEF TypeOK, ScopeStep, OpenScope, Expire, Close, ShellEnds, Escalate,
     GiveUpDraining, DrainFails, Conclude, stepVars
<1>8. ConfirmedMeansGone'
  BY <1>1, <1>7, DrainedMeansGone
     DEF ScopeLeavesAlone, ConfirmedMeansGone, Executing, Holds, ChildrenOf
<1> QED
  BY <1>1, <1>2, <1>3, <1>4, <1>6, <1>8

LEMMA AdmissionInvInit == Init => AdmissionInv
<1> SUFFICES ASSUME Init PROVE AdmissionInv
  OBVIOUS
<1>1. TypeOK
  BY DEF Init, TypeOK, PCs, Phases, Results
<1> QED
  BY <1>1 DEF Init, AdmissionInv, TopLevel, AdmissionHeld, RootHeld, RecordOpen,
     OpenInside, NoSiblings, DrainClosed, OneChildAtATime, ConfirmedMeansGone,
     Executing, Holds, ChildrenOf

LEMMA AdmissionInvStep == AdmissionInv /\ [Next]_vars => AdmissionInv'
<1> SUFFICES ASSUME AdmissionInv, [Next]_vars PROVE AdmissionInv'
  OBVIOUS
<1>1. CASE UNCHANGED vars
  BY <1>1 DEF vars, runVars, lockVars, fileVars, stepVars, AdmissionInv, TypeOK,
     TopLevel, AdmissionHeld, RootHeld, RecordOpen, OpenInside, NoSiblings,
     DrainClosed, OneChildAtATime, ConfirmedMeansGone, Executing, Holds, ChildrenOf
<1>2. CASE Next
  BY <1>2, RunKeepsAdmissionInv, ScopeKeepsAdmissionInv DEF Next
<1> QED
  BY <1>1, <1>2

\* The protocol of admission, registration and closing keeps its invariant.
THEOREM AdmissionInvHolds == Spec => []AdmissionInv
<1> QED
  BY AdmissionInvInit, AdmissionInvStep, PTL DEF Spec

-----------------------------------------------------------------------------
(* The first three properties, and what a step may never do *)

\* Every variable keeps its type, and only children of a step have records in
\* its scope or hold its admission lock.
THEOREM TypeCorrect == Spec => []TypeOK
<1>1. AdmissionInv => TypeOK
  BY DEF AdmissionInv
<1> QED
  BY <1>1, AdmissionInvHolds, PTL

\* However many children start at once, die or fail, a step has at most one
\* child at work (acquireComposition).
THEOREM OneChildHolds == Spec => []OneChildAtATime
<1>1. AdmissionInv => OneChildAtATime
  BY DEF AdmissionInv
<1> QED
  BY <1>1, AdmissionInvHolds, PTL

\* A step that ended without "unconfirmed" has no child that executes or holds
\* a root, now or later (drain).
THEOREM ConfirmedHolds == Spec => []ConfirmedMeansGone
<1>1. AdmissionInv => ConfirmedMeansGone
  BY DEF AdmissionInv
<1> QED
  BY <1>1, AdmissionInvHolds, PTL

\* Once the scope is closed no child of it begins (close, acquireComposition).
THEOREM ClosedHolds == Spec => ClosedAdmitsNobody
<1> DEFINE Admitted(c) == /\ Via[c] \in Scopes /\ closed[Via[c]] /\ ~Executing(c)
                          /\ Executing(c)'
<1>1. ASSUME AdmissionInv, NEW r \in Runs, RunStep(r), NEW c \in Runs
      PROVE  ~Admitted(c)
  <2>1. RunLeavesAlone(r)
    BY <1>1, RunFrame DEF AdmissionInv
  <2>2. CASE c = r
    BY <1>1, <2>2, BeginsInRegister DEF AdmissionInv, OpenInside
  <2>3. CASE c # r
    BY <1>1, <2>1, <2>3 DEF RunLeavesAlone, Executing
  <2> QED
    BY <2>2, <2>3
<1>2. ASSUME AdmissionInv, NEW s \in Scopes, ScopeStep(s), NEW c \in Runs
      PROVE  ~Admitted(c)
  BY <1>2, ScopeFrame DEF AdmissionInv, ScopeLeavesAlone, Executing
<1>3. AdmissionInv /\ Next => \A c \in Runs : ~Admitted(c)
  BY <1>1, <1>2 DEF Next
<1>4. AdmissionInv /\ [Next]_vars =>
        [\A c \in Runs : Via[c] \in Scopes /\ closed[Via[c]] /\ ~Executing(c)
            => ~Executing(c)']_vars
  BY <1>3
<1> QED
  BY <1>4, AdmissionInvHolds, PTL DEF Spec, ClosedAdmitsNobody

-----------------------------------------------------------------------------
(* The invariant: success at every depth *)

LEMMA Ancestries ==
    ASSUME NEW r \in Runs
    PROVE  /\ ChainOf[r] \subseteq Scopes
           /\ Via[r] = Nobody => ChainOf[r] = {}
           /\ Via[r] # Nobody =>
                 ChainOf[r] = {Via[r]} \cup ChainOf[OwnerOf[Via[r]]]
           /\ \A s \in ChainOf[r] :
                 s = Via[r] \/ \E t \in ChainOf[r] : Via[OwnerOf[t]] = s
BY CompositionAssumption

\* A step that began belongs to a run that began, and registered if it is a
\* child.
StepOfRun ==
    \A s \in Scopes : phase[s] # "none" =>
        /\ pc[OwnerOf[s]] # "idle"
        /\ Via[OwnerOf[s]] # Nobody => record[OwnerOf[s]] # "none"

\* Whoever was started was started by steps that began.
ChainBegan ==
    \A r \in Runs : pc[r] # "idle" => \A s \in ChainOf[r] : phase[s] # "none"

ResultLast ==
    \A s \in Scopes : result[s] # "none" => phase[s] = "ended"

\* The final receipt is written after the steps returned, and is true.
ReceiptLast ==
    \A r \in Runs :
        /\ receipt[r] # "none" => pc[r] \in {"final", "released", "done", "crashed"}
        /\ receipt[r] = "succeeded" => \A s \in ScopesOf(r) : result[s] = "ok"

\* Below a step that succeeded nobody is at work, who worked succeeded, and
\* who started late finds a closed door.
AllBelow ==
    \A s \in Scopes : result[s] = "ok" =>
        \A r \in Runs : s \in ChainOf[r] =>
            /\ ~Executing(r) /\ ~Holds(r)
            /\ record[r] = "none" \/ receipt[r] = "succeeded"
            /\ pc[r] = "idle" \/ closed[Via[r]]

SuccessInv ==
    /\ AdmissionInv /\ StepOfRun /\ ChainBegan /\ ResultLast /\ ReceiptLast
    /\ AllBelow

\* Once begun, a run is not idle again; once written, a record stays.
LEMMA RunGoesOn ==
    ASSUME TypeOK, NEW r \in Runs, RunStep(r)
    PROVE  /\ pc'[r] # "idle"
           /\ record[r] # "none" => record'[r] # "none"
           /\ receipt'[r] # receipt[r] => \E ok \in BOOLEAN : FinishRun(r, ok)
           /\ pc[r] = "idle" => Start(r)
BY DEF TypeOK, RunStep, Goto, Refuse, Start, Admit, EnterAdmission,
       GiveUpWaiting, Verify, CheckSiblings, Acquire, AcquireBusy, Register,
       RegisterFails, Monitor, Interrupt, FinishRun, Release, RecordEnd, Crash

LEMMA RunKeepsHistory ==
    ASSUME AdmissionInv, StepOfRun, ChainBegan, ResultLast, ReceiptLast,
           NEW r \in Runs, RunStep(r)
    PROVE  StepOfRun' /\ ChainBegan' /\ ResultLast' /\ ReceiptLast'
<1> USE DEF AdmissionInv
<1>1. RunLeavesAlone(r)
  BY RunFrame
<1>2. StepOfRun'
  BY <1>1, RunGoesOn DEF StepOfRun, RunLeavesAlone
<1>3. ResultLast'
  BY <1>1 DEF ResultLast, RunLeavesAlone
<1>4. ChainBegan'
  <2>1. ASSUME pc[r] = "idle", NEW s \in ChainOf[r]
        PROVE  phase[s] # "none"
    <3>1. Via[r] # Nobody /\ Via[r] \in Scopes /\ phase[Via[r]] # "none"
      BY <2>1, Ancestries, RunGoesOn DEF Start
    <3>2. pc[OwnerOf[Via[r]]] # "idle"
      BY <3>1 DEF StepOfRun
    <3> QED
      BY <2>1, <3>1, <3>2, Ancestries DEF ChainBegan
  <2> QED
    BY <1>1, <2>1 DEF ChainBegan, RunLeavesAlone
<1>5. /\ receipt'[r] # "none" => pc'[r] \in {"final", "released", "done", "crashed"}
      /\ receipt'[r] = "succeeded" => \A s \in ScopesOf(r) : result[s] = "ok"
  BY DEF TypeOK, ReceiptLast, RunStep, Goto, Refuse, Start, Admit, EnterAdmission,
         GiveUpWaiting, Verify, CheckSiblings, Acquire, AcquireBusy, Register,
         RegisterFails, Monitor, Interrupt, FinishRun, Release, RecordEnd, Crash
<1>6. ReceiptLast'
  BY <1>1, <1>5 DEF ReceiptLast, RunLeavesAlone, ScopesOf
<1> QED
  BY <1>2, <1>3, <1>4, <1>6

\* A run below a successful step finds its own scope closed when it starts late.
LEMMA LateStart ==
    ASSUME SuccessInv, NEW r \in Runs, Start(r),
           NEW s \in ChainOf[r], result[s] = "ok"
    PROVE  closed[Via[r]]
<1> USE DEF SuccessInv, AdmissionInv
<1>1. Via[r] # Nobody /\ Via[r] \in Scopes /\ s \in Scopes
  BY Ancestries
<1>2. CASE s = Via[r]
  BY <1>1, <1>2 DEF DrainClosed
<1>3. CASE s \in ChainOf[OwnerOf[Via[r]]]
  <2>1. OwnerOf[Via[r]] \in Runs /\ Via[OwnerOf[Via[r]]] # Nobody
    BY <1>1, <1>3, Ancestries
  <2>2. phase[Via[r]] # "none"
    BY <1>1 DEF Start
  <2>3. record[OwnerOf[Via[r]]] # "none"
    BY <1>1, <2>1, <2>2 DEF StepOfRun
  <2>4. receipt[OwnerOf[Via[r]]] = "succeeded"
    BY <1>1, <1>3, <2>1, <2>3 DEF AllBelow
  <2>5. result[Via[r]] = "ok"
    BY <1>1, <2>1, <2>4 DEF ReceiptLast, ScopesOf
  <2> QED
    BY <1>1, <2>5 DEF DrainClosed
<1> QED
  BY <1>1, <1>2, <1>3, Ancestries

LEMMA RunKeepsAllBelow ==
    ASSUME SuccessInv, NEW r \in Runs, RunStep(r)
    PROVE  AllBelow'
<1> USE DEF SuccessInv, AdmissionInv
<1>1. RunLeavesAlone(r)
  BY RunFrame
<1>2. SUFFICES ASSUME NEW s \in Scopes, result[s] = "ok", s \in ChainOf[r]
               PROVE  /\ ~Executing(r)' /\ ~Holds(r)'
                      /\ record'[r] = "none" \/ receipt'[r] = "succeeded"
                      /\ closed[Via[r]]
  BY <1>1 DEF AllBelow, RunLeavesAlone, Executing
<1>3. Via[r] # Nobody /\ Via[r] \in Scopes
  BY <1>2, Ancestries
<1>4. closed[Via[r]]
  BY <1>2, RunGoesOn, LateStart DEF AllBelow
<1>5. pc[r] \notin {"siblings", "acquire", "register", "running", "final"}
  BY <1>2, <1>3, <1>4 DEF OpenInside, AllBelow, Executing
<1>6. pc'[r] \notin {"register", "running", "final"}
  BY <1>3, <1>5 DEF TypeOK, RunStep, Goto, Refuse, Start, Admit, EnterAdmission,
       GiveUpWaiting, Verify, CheckSiblings, Acquire, AcquireBusy, Register,
       RegisterFails, Monitor, Interrupt, FinishRun, Release, RecordEnd, Crash
<1>7. ~Executing(r)' /\ ~Holds(r)'
  BY <1>6, RootHeldKept DEF RootHeld, Executing
<1>8. receipt'[r] = receipt[r]
  BY <1>5, RunGoesOn DEF FinishRun
<1>9. record'[r] = record[r] \/ pc[r] = "released"
  BY <1>5 DEF TypeOK, RunStep, Goto, Refuse, Start, Admit, EnterAdmission,
       GiveUpWaiting, Verify, CheckSiblings, Acquire, AcquireBusy, Register,
       RegisterFails, Monitor, Interrupt, FinishRun, Release, RecordEnd, Crash
<1>10. pc[r] = "released" => receipt[r] = "succeeded"
  BY <1>2, <1>3 DEF RecordOpen, AllBelow
<1>11. record'[r] = "none" \/ receipt'[r] = "succeeded"
  BY <1>2, <1>8, <1>9, <1>10 DEF AllBelow
<1> QED
  BY <1>4, <1>7, <1>11

\* When a step succeeds, so did all below it: a registered child has a receipt
\* that says so of its own steps, a child without a record never began one.
LEMMA DrainedMeansAllBelow ==
    ASSUME SuccessInv, NEW s \in Scopes, Drained(s), result'[s] = "ok",
           NEW r \in Runs, s \in ChainOf[r]
    PROVE  /\ ~Executing(r) /\ ~Holds(r)
           /\ record[r] = "none" \/ receipt[r] = "succeeded"
           /\ pc[r] = "idle" \/ closed[Via[r]]
<1> USE DEF SuccessInv, AdmissionInv
<1>1. \A c \in Registered(s) : receipt[c] = "succeeded"
  BY DEF Drained, Conclude, TypeOK, Good
<1>2. CASE s = Via[r]
  <2>1. r \in ChildrenOf(s) /\ closed[s]
    BY <1>2 DEF ChildrenOf, Drained, DrainClosed
  <2>2. record[r] = "none" \/ receipt[r] = "succeeded"
    BY <1>1, <2>1 DEF Registered
  <2> QED
    BY <1>2, <2>1, <2>2, DrainedMeansGone
<1>3. ASSUME NEW t \in ChainOf[r], Via[OwnerOf[t]] = s
      PROVE  /\ ~Executing(r) /\ ~Holds(r)
             /\ record[r] = "none" \/ receipt[r] = "succeeded"
             /\ pc[r] = "idle" \/ closed[Via[r]]
  <2>1. t \in Scopes /\ OwnerOf[t] \in ChildrenOf(s) /\ s # Nobody
    BY <1>3, Ancestries DEF ChildrenOf
  <2>2. CASE record[OwnerOf[t]] = "none"
    <3>1. pc[r] = "idle"
      BY <1>3, <2>1, <2>2 DEF StepOfRun, ChainBegan
    <3> QED
      BY <3>1 DEF RecordOpen, RootHeld, Executing
  <2>3. CASE record[OwnerOf[t]] # "none"
    <3>1. receipt[OwnerOf[t]] = "succeeded"
      BY <1>1, <2>1, <2>3 DEF Registered
    <3>2. result[t] = "ok"
      BY <2>1, <3>1 DEF ReceiptLast, ScopesOf, ChildrenOf
    <3> QED
      BY <1>3, <2>1, <3>2 DEF AllBelow
  <2> QED
    BY <2>2, <2>3
<1> QED
  BY <1>2, <1>3, Ancestries

\* A step begins in a run that executes; it gets a result once, at its end.
LEMMA ScopeGoesOn ==
    ASSUME TypeOK, ResultLast, NEW s \in Scopes, ScopeStep(s)
    PROVE  /\ phase'[s] # "none" => phase[s] # "none" \/ pc[OwnerOf[s]] = "running"
           /\ result'[s] # "none" => phase'[s] = "ended"
           /\ result'[s] = result[s] \/ pc[OwnerOf[s]] = "running"
           /\ result'[s] = "ok" => result[s] = "ok" \/ Drained(s)
BY DEF TypeOK, ResultLast, ScopeStep, OpenScope, Expire, Close, Drained, ShellEnds,
       Escalate, GiveUpDraining, DrainFails, Conclude, stepVars

LEMMA ScopeKeepsSuccessInv ==
    ASSUME SuccessInv, NEW s \in Scopes, ScopeStep(s)
    PROVE  SuccessInv'
<1> USE DEF SuccessInv, AdmissionInv
<1>1. AdmissionInv' /\ ScopeLeavesAlone(s)
  BY ScopeKeepsAdmissionInv, ScopeFrame
<1>2. StepOfRun'
  BY <1>1, ScopeGoesOn DEF StepOfRun, ScopeLeavesAlone, RecordOpen
<1>3. ChainBegan'
  BY <1>1, Ancestries DEF ChainBegan, ScopeLeavesAlone
<1>4. ResultLast'
  BY <1>1, ScopeGoesOn DEF ResultLast, ScopeLeavesAlone
<1>5. ReceiptLast'
  BY <1>1, ScopeGoesOn DEF ReceiptLast, ScopeLeavesAlone, ScopesOf
<1>6. AllBelow'
  <2>1. SUFFICES ASSUME NEW t \in Scopes, result'[t] = "ok",
                        NEW r \in Runs, t \in ChainOf[r]
                 PROVE  /\ ~Executing(r) /\ ~Holds(r)
                        /\ record[r] = "none" \/ receipt[r] = "succeeded"
                        /\ pc[r] = "idle" \/ closed'[Via[r]]
    BY <1>1 DEF AllBelow, ScopeLeavesAlone, Executing, Holds
  <2>2. Via[r] \in Scopes /\ (closed[Via[r]] => closed'[Via[r]])
    BY <1>1, <2>1, Ancestries DEF ScopeLeavesAlone
  <2>3. CASE result[t] = "ok"
    BY <2>1, <2>2, <2>3 DEF AllBelow
  <2>4. CASE result[t] # "ok"
    <3>1. t = s /\ Drained(s)
      BY <1>1, <2>1, <2>4, ScopeGoesOn DEF ScopeLeavesAlone
    <3> QED
      BY <2>1, <2>2, <3>1, DrainedMeansAllBelow
  <2> QED
    BY <2>3, <2>4
<1> QED
  BY <1>1, <1>2, <1>3, <1>4, <1>5, <1>6

LEMMA SuccessInvInit == Init => SuccessInv
BY AdmissionInvInit
   DEF Init, SuccessInv, StepOfRun, ChainBegan, ResultLast, ReceiptLast, AllBelow

LEMMA SuccessInvStep == SuccessInv /\ [Next]_vars => SuccessInv'
<1> SUFFICES ASSUME SuccessInv, [Next]_vars PROVE SuccessInv'
  OBVIOUS
<1>1. CASE UNCHANGED vars
  <2>1. AdmissionInv'
    BY AdmissionInvStep DEF SuccessInv
  <2> QED
    BY <1>1, <2>1 DEF vars, runVars, lockVars, fileVars, stepVars, SuccessInv,
       StepOfRun, ChainBegan, ResultLast, ReceiptLast, AllBelow, Executing, Holds,
       ScopesOf
<1>2. ASSUME NEW r \in Runs, RunStep(r)
      PROVE  SuccessInv'
  BY <1>2, RunKeepsAdmissionInv, RunKeepsHistory, RunKeepsAllBelow DEF SuccessInv
<1>3. ASSUME NEW s \in Scopes, ScopeStep(s)
      PROVE  SuccessInv'
  BY <1>3, ScopeKeepsSuccessInv
<1> QED
  BY <1>1, <1>2, <1>3 DEF Next

\* At any depth, a step that succeeded left no run behind, and each child it
\* registered has a receipt that says it succeeded (drain, Run).
THEOREM SuccessHolds == Spec => []SuccessIsComplete
<1>1. SuccessInv => SuccessIsComplete
  <2> SUFFICES ASSUME SuccessInv, NEW s \in Scopes, result[s] = "ok"
               PROVE  /\ \A c \in Registered(s) : receipt[c] = "succeeded"
                      /\ \A r \in Runs : s \in ChainOf[r] => ~Executing(r) /\ ~Holds(r)
    BY DEF SuccessIsComplete
  <2>1. \A c \in Registered(s) : c \in Runs /\ s \in ChainOf[c] /\ record[c] # "none"
    BY Ancestries DEF Registered, ChildrenOf
  <2> QED
    BY <2>1 DEF SuccessInv, AllBelow
<1> QED
  BY <1>1, SuccessInvInit, SuccessInvStep, PTL DEF Spec

=============================================================================
