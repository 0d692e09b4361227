----------------------------- MODULE JobRunProofs -----------------------------
(***************************************************************************)
(* Theorems about remote artifact jobs and the secrets they push (JobRun,  *)
(* SecretPush).  PushInv is inductive for any number of pushes, JobInv     *)
(* for any number of runs and watchers on top of them.                     *)
(***************************************************************************)
EXTENDS JobRun, FiniteSetTheorems, TLAPS

-----------------------------------------------------------------------------
(* Pushes: the inductive invariant *)

Locking == {"first", "mark", "send", "await", "accept", "refused"}
Over == {"ok", "failed"}

\* How far a push got with its keys.
KeysInOrder(p) ==
    /\ push[p].pc \in {"idle", "lock", "first"} =>
         \A k \in KeysOf[p] : push[p].key <= k /\ ~Sent(p, k) /\ secretReceipt[p][k] = "none"
    /\ push[p].pc \in {"mark", "send", "refused"} =>
         \A k \in KeysOf[p] : k \in Batch(p) \cup Rest(p) => ~Sent(p, k)
    /\ push[p].pc \in {"await", "accept"} => \A k \in Rest(p) : ~Sent(p, k)
    /\ push[p].pc \in {"mark", "send", "await", "accept", "refused"} =>
         \A k \in KeysOf[p] : k \notin Batch(p) \cup Rest(p) => secretReceipt[p][k] = "accepted"
    /\ push[p].pc \in {"send", "await", "accept", "refused"} =>
         \A k \in Batch(p) : secretReceipt[p][k] = "unknown"
    /\ push[p].pc = "accept" => \A k \in Batch(p) : <<p, k>> \in landed
    /\ push[p].pc = "ok" => \A k \in KeysOf[p] : secretReceipt[p][k] = "accepted"

\* A request is on its way once, and its keys are not known to have been taken.
Flying(p) ==
    /\ \A f \in flying : f[1] = p => \A k \in f[2] : secretReceipt[p][k] = "unknown"
          /\ <<p, k>> \notin landed
    /\ \A f, g \in flying : f[1] = p /\ g[1] = p /\ f[2] \cap g[2] # {} => f = g

\* The lock of a destination is that of the push at work on it.
LockHeld(p) ==
    /\ push[p].pc \in Locking <=> locked[Destination[p]] = p
    /\ \A d \in Destinations : locked[d] = p => d = Destination[p]

Turned == {p \in Pushes : turn[p] > 0}

TurnTaken(p) ==
    /\ push[p].pc \in Locking => turn[p] > 0
    /\ push[p].pc \in {"idle", "lock"} => turn[p] = 0
    /\ turn[p] <= Cardinality(Turned)

\* q had the lock before p.
Ahead(q, p) == Destination[p] = Destination[q] /\ 0 < turn[q] /\ turn[q] < turn[p]

\* Who had the lock before is done, and what of its requests is still kept was late.
LateKnown(p) ==
    \A q \in Pushes : Ahead(q, p) =>
        /\ push[q].pc \in Over
        /\ \A k \in KeysOf[p] \cap KeysOf[q] :
             <<p, k>> \in landed /\ kept[<<Destination[p], k>>] = q
                   => secretReceipt[q][k] = "unknown"

PushSound(p) == KeysInOrder(p) /\ Flying(p) /\ LockHeld(p) /\ TurnTaken(p) /\ LateKnown(p)

PushMaps ==
    /\ push \in [Pushes -> [pc : PushPCs, key : Int]]
    /\ secretReceipt = [p \in Pushes |-> secretReceipt[p]]
    /\ \A f \in flying : f = <<f[1], f[2]>>

PushInv == PushTypeOK /\ PushMaps /\ SecretsAccounted /\ \A p \in Pushes : PushSound(p)

-----------------------------------------------------------------------------
(* Jobs: the inductive invariant *)

Stepping == {"marked", "dispatch", "answer", "known", "next"}
Holding == {"marked", "known", "entry", "artifact", "saveBad", "save"}
ActorPCs == {"idle", "secrets", "look", "lock", "ended"} \cup Stepping \cup Holding
EntryRecords == [state : {"none", "not_started", "unknown_dispatch", "dispatched"},
                 status : {"none", "running", "success", "failure"}, verified : BOOLEAN]
ActorRecords == [pc : ActorPCs, verb : {"run", "status", "resume", "verify"}, poll : BOOLEAN,
                 verify : BOOLEAN, at : Entries \cup {0}, copy : [Entries -> EntryRecords],
                       ok : BOOLEAN]

\* The first attempt at run i succeeded, on the commit the receipt names.
Good(i) == first[i] = "success" /\ remote[i].head = 0
Told(i, e) == (e.verified => i \in Imaged /\ Good(i)) /\ (e.status = "success" => Good(i))

\* The lock, and what its holder read under it.
LockSound(a) ==
    /\ actor[a].pc \in Holding <=> rlock = a
    /\ actor[a].pc \in Holding => \A i \in Entries : actor[a].copy[i].state = jobReceipt[i].state

ActorSound(a) ==
    /\ LockSound(a)
    /\ actor[a].pc \in Stepping \cup {"secrets"} => a = Runner
    /\ actor[a].pc \in Stepping \cup Holding \cup {"secrets"} => actor[a].at \in Entries
    /\ \A i \in Entries : Told(i, actor[a].copy[i])
    /\ actor[a].pc = "artifact" => actor[a].at \in Imaged /\ Good(actor[a].at)
    /\ actor[a].ok => actor[a].pc = "ended"
    /\ actor[a].ok /\ (actor[a].poll \/ actor[a].verb = "verify") => \A i \in Entries : Good(i)

\* No run before its turn, and none twice.
Untouched(i) == jobReceipt[i].state = "not_started" /\ ~AtGitHub(i)
RunnerSound ==
    LET r == actor[Runner]
    IN /\ r.pc = "idle" =>
            /\ \A i \in Entries : jobReceipt[i] = NoEntry /\ ~AtGitHub(i)
            /\ \A a \in Actors : actor[a].pc \in {"idle", "ended"}
       /\ r.pc \in {"secrets", "next", "marked"} => \A i \in Entries : i >= r.at => Untouched(i)
       /\ r.pc \in {"dispatch", "answer", "known"} =>
            /\ jobReceipt[r.at].state = "unknown_dispatch"
            /\ \A i \in Entries : i > r.at => Untouched(i)
       /\ r.pc = "dispatch" => ~AtGitHub(r.at)
       /\ r.pc = "known" => remote[r.at] # NoRun
       /\ r.pc \in Stepping \/ (\E i \in Entries : AtGitHub(i)) =>
            \A j \in DOMAIN Before : push[Before[j]].pc = "ok"

EntrySound(i) ==
    /\ AtGitHub(i) => jobReceipt[i].state \in {"unknown_dispatch", "dispatched"}
    /\ jobReceipt[i].state = "dispatched" => remote[i] # NoRun
    /\ Told(i, jobReceipt[i])
    /\ i \in dispatching => remote[i] = NoRun
    /\ remote[i].status = "none" => remote[i] = NoRun
    /\ remote[i].attempt = 0 => remote[i] = NoRun /\ first[i] = "none"
    /\ remote[i].attempt = 1 => /\ remote[i].status = "running" => first[i] = "none"
                                /\ remote[i].status = "success" => first[i] = "success"

JobMaps ==
    /\ actor \in [Actors -> ActorRecords]
    /\ \A a \in Actors : actor[a].verb = "run" <=> a = Runner

JobInv ==
    /\ PushInv /\ JobTypeOK /\ JobMaps /\ RunnerSound
    /\ (\A a \in Actors : ActorSound(a)) /\ (\A i \in Entries : EntrySound(i))

-----------------------------------------------------------------------------
(* The least and the greatest of the keys *)

LEMMA Greatest ==
    ASSUME NEW S \in SUBSET Int, IsFiniteSet(S), S # {}
    PROVE  Max(S) \in S /\ \A y \in S : y <= Max(S)
<1> DEFINE Above(x) == {y \in S : y > x}
           Aboves == {Above(x) : x \in S}
<1>0. \A y \in S : y \in Int
    OBVIOUS
<1>f. FiniteSubsetsOf(S) = SUBSET S
    BY FS_FiniteSubsetsOfFinite
<1>1. Aboves \subseteq FiniteSubsetsOf(S) /\ Aboves # {}
  <2>1. \A x \in S : Above(x) \in SUBSET S
    OBVIOUS
  <2>2. PICK x \in S : TRUE
    OBVIOUS
  <2>3. Above(x) \in Aboves
    OBVIOUS
  <2>4. Aboves \subseteq SUBSET S
    BY <2>1
  <2> HIDE DEF Aboves
  <2> QED BY <1>f, <2>3, <2>4
<1>2. PICK A \in Aboves : \A B \in Aboves : ~(<<B, A>> \in StrictSubsetOrdering(S))
    BY <1>1, FS_StrictSubsetOrderingWellFounded, WFMin
<1>3. PICK x \in S : A = Above(x)
    BY <1>2
<1>4. ASSUME NEW y \in S, ~(y <= x) PROVE FALSE
  <2>1. y > x /\ y \in Int /\ x \in Int
    BY <1>4
  <2>2. Above(y) \subseteq Above(x) /\ y \in Above(x) /\ y \notin Above(y)
    <3>1. \A z \in S : z > y => z > x
      BY <1>0, <2>1
    <3>2. ~(y > y)
      BY <2>1
    <3> QED BY <2>1, <3>1, <3>2
  <2>3. <<Above(y), A>> \in StrictSubsetOrdering(S)
    BY <1>3, <2>2 DEF StrictSubsetOrdering
  <2> QED BY <1>2, <2>3
<1>5. \E m \in S : \A y \in S : m >= y
    BY <1>4
<1>6. Max(S) \in S /\ \A y \in S : Max(S) >= y
    BY <1>5 DEF Max
<1> QED BY <1>6

LEMMA Least ==
    ASSUME NEW S \in SUBSET Int, IsFiniteSet(S), S # {}
    PROVE  Min(S) \in S /\ \A y \in S : Min(S) <= y
<1> DEFINE Below(x) == {y \in S : y < x}
           Belows == {Below(x) : x \in S}
<1>0. \A y \in S : y \in Int
    OBVIOUS
<1>f. FiniteSubsetsOf(S) = SUBSET S
    BY FS_FiniteSubsetsOfFinite
<1>1. Belows \subseteq FiniteSubsetsOf(S) /\ Belows # {}
  <2>1. \A x \in S : Below(x) \in SUBSET S
    OBVIOUS
  <2>2. PICK x \in S : TRUE
    OBVIOUS
  <2>3. Below(x) \in Belows
    OBVIOUS
  <2>4. Belows \subseteq SUBSET S
    BY <2>1
  <2> HIDE DEF Belows
  <2> QED BY <1>f, <2>3, <2>4
<1>2. PICK A \in Belows : \A B \in Belows : ~(<<B, A>> \in StrictSubsetOrdering(S))
    BY <1>1, FS_StrictSubsetOrderingWellFounded, WFMin
<1>3. PICK x \in S : A = Below(x)
    BY <1>2
<1>4. ASSUME NEW y \in S, ~(x <= y) PROVE FALSE
  <2>1. y < x /\ y \in Int /\ x \in Int
    BY <1>4
  <2>2. Below(y) \subseteq Below(x) /\ y \in Below(x) /\ y \notin Below(y)
    <3>1. \A z \in S : z < y => z < x
      BY <1>0, <2>1
    <3>2. ~(y < y)
      BY <2>1
    <3> QED BY <2>1, <3>1, <3>2
  <2>3. <<Below(y), A>> \in StrictSubsetOrdering(S)
    BY <1>3, <2>2 DEF StrictSubsetOrdering
  <2> QED BY <1>2, <2>3
<1>5. \E m \in S : \A y \in S : m =< y
    BY <1>4
<1>6. Min(S) \in S /\ \A y \in S : Min(S) =< y
    BY <1>5 DEF Min
<1> QED BY <1>6

LEMMA KeysFinite ==
    ASSUME NEW p \in Pushes
    PROVE  KeysOf[p] \in SUBSET Int /\ KeysOf[p] # {} /\ IsFiniteSet(KeysOf[p])
BY PushAssumption

\* The keys after those p is at: they come later, and none is left out.
LEMMA NextBatch ==
    ASSUME NEW p \in Pushes, push[p].key \in KeysOf[p], Rest(p) # {}
    PROVE  /\ p \notin AtOnce /\ Min(Rest(p)) \in Rest(p)
           /\ \A k \in Rest(p) : Min(Rest(p)) <= k
<1>1. Rest(p) \subseteq KeysOf[p] /\ IsFiniteSet(Rest(p)) /\ Rest(p) \in SUBSET Int
    BY KeysFinite, FS_Subset DEF Rest
<1>2. Min(Rest(p)) \in Rest(p) /\ \A k \in Rest(p) : Min(Rest(p)) <= k
    BY <1>1, Least
<1>3. p \in AtOnce => \A k \in KeysOf[p] : k <= Max(Batch(p))
    BY KeysFinite, Greatest DEF Batch
<1>4. p \in AtOnce => Max(Batch(p)) \in Int
    BY KeysFinite, Greatest DEF Batch
<1>5. p \notin AtOnce
    BY <1>3, <1>4, KeysFinite DEF Rest
<1> QED BY <1>2, <1>5

LEMMA OneKey ==
    ASSUME NEW p \in Pushes, push[p].key \in KeysOf[p], p \notin AtOnce
    PROVE  Batch(p) = {push[p].key} /\ Rest(p) = {k \in KeysOf[p] : k > push[p].key}
<1>1. push[p].key \in Int
    BY KeysFinite
<1>2. Batch(p) = {push[p].key}
    BY DEF Batch
<1>3. Max({push[p].key}) = push[p].key
    BY <1>1 DEF Max
<1> QED BY <1>2, <1>3 DEF Rest

LEMMA AllKeys ==
    ASSUME NEW p \in Pushes, p \in AtOnce
    PROVE  Batch(p) = KeysOf[p] /\ Rest(p) = {}
<1>1. Batch(p) = KeysOf[p]
    BY DEF Batch
<1>2. Max(KeysOf[p]) \in Int /\ \A k \in KeysOf[p] : k <= Max(KeysOf[p])
    BY KeysFinite, Greatest
<1> QED BY <1>1, <1>2, KeysFinite DEF Rest

-----------------------------------------------------------------------------
(* Pushes: types, and what the pieces of an action do *)

PushRecords == [pc : PushPCs, key : Int]

LEMMA PushTyped ==
    ASSUME PushInv, NEW p \in Pushes
    PROVE  /\ push \in [Pushes -> PushRecords] /\ push[p] \in PushRecords
           /\ push[p].pc \in PushPCs /\ push[p].key \in KeysOf[p] /\ push[p].key \in Int
           /\ Batch(p) \subseteq KeysOf[p]
<1>1. push \in [Pushes -> PushRecords] /\ push[p].pc \in PushPCs /\ push[p].key \in KeysOf[p]
    BY DEF PushInv, PushMaps, PushTypeOK, PushRecords
<1> QED BY <1>1, KeysFinite DEF Batch

LEMMA PushToIs ==
    ASSUME push \in [Pushes -> PushRecords], NEW p \in Pushes, NEW pc \in PushPCs, PushTo(p, pc)
    PROVE  /\ push' \in [Pushes -> PushRecords]
           /\ push'[p].pc = pc /\ push'[p].key = push[p].key
           /\ \A q \in Pushes \ {p} : push'[q] = push[q]
BY DEF PushTo, PushRecords

\* The receipt of p becomes states or stays, that of others stays.
LEMMA ReceiptIs ==
    ASSUME PushInv, NEW p \in Pushes, NEW states \in [KeysOf[p] -> KeyStates],
           secretReceipt' \in {secretReceipt, [secretReceipt EXCEPT ![p] = states]}
    PROVE  /\ secretReceipt' = [q \in Pushes |-> secretReceipt'[q]]
           /\ secretReceipt'[p] \in {secretReceipt[p], states}
           /\ secretReceipt' = [secretReceipt EXCEPT ![p] = states] => secretReceipt'[p] = states
           /\ \A q \in Pushes \ {p} : secretReceipt'[q] = secretReceipt[q]
           /\ \A q \in Pushes : secretReceipt'[q] \in [KeysOf[q] -> KeyStates]
<1>1. secretReceipt = [q \in Pushes |-> secretReceipt[q]]
    BY DEF PushInv, PushMaps
<1>2. \A q \in Pushes : secretReceipt[q] \in [KeysOf[q] -> KeyStates]
    BY DEF PushInv, PushTypeOK
<1>3. CASE secretReceipt' = secretReceipt
  <2>1. secretReceipt'[p] = states \/ secretReceipt' # [secretReceipt EXCEPT ![p] = states]
    BY <1>1
  <2> QED BY <1>1, <1>2, <1>3, <2>1
<1>4. CASE secretReceipt' = [secretReceipt EXCEPT ![p] = states]
  <2>1. secretReceipt' = [q \in Pushes |-> IF q = p THEN states ELSE secretReceipt[q]]
    BY <1>1, <1>4
  <2> QED BY <1>2, <2>1
<1> QED BY <1>3, <1>4

LEMMA WithIs ==
    ASSUME PushInv, NEW p \in Pushes, NEW state \in KeyStates
    PROVE  /\ With(p, state) \in [KeysOf[p] -> KeyStates]
           /\ \A k \in KeysOf[p] : k \in Batch(p) => With(p, state)[k] = state
           /\ \A k \in KeysOf[p] : k \notin Batch(p) => With(p, state)[k] = secretReceipt[p][k]
BY DEF With, PushInv, PushTypeOK

\* What a push that only waits keeps, whatever another one does.
PushAccounted(p) == \A k \in KeysOf[p] :
    /\ Sent(p, k) => secretReceipt[p][k] \in {"unknown", "accepted"}
    /\ secretReceipt[p][k] = "accepted" => <<p, k>> \in landed
OwnSound(p) == KeysInOrder(p) /\ Flying(p) /\ PushAccounted(p)
Locks(p) == LockHeld(p) /\ TurnTaken(p)

LEMMA PushParts ==
    PushInv <=> /\ PushTypeOK /\ PushMaps
                /\ \A p \in Pushes : OwnSound(p) /\ Locks(p) /\ LateKnown(p)
BY DEF PushInv, PushSound, OwnSound, PushAccounted, Locks, SecretsAccounted

LEMMA OthersKeep ==
    ASSUME PushInv, NEW q \in Pushes, push'[q] = push[q], secretReceipt'[q] = secretReceipt[q],
           \A f \in flying' : f[1] = q => f \in flying,
           \A k : <<q, k>> \in landed' <=> <<q, k>> \in landed
    PROVE  OwnSound(q)'
<1>1. \A k : Sent(q, k)' => Sent(q, k)
    BY DEF Sent
<1>2. OwnSound(q)
    BY PushParts
<1>3. Batch(q)' = Batch(q) /\ Rest(q)' = Rest(q)
    BY DEF Batch, Rest
<1>4. KeysInOrder(q)'
    BY <1>1, <1>2, <1>3 DEF OwnSound, KeysInOrder
<1>5. Flying(q)'
    BY <1>2 DEF OwnSound, Flying
<1>6. PushAccounted(q)'
    BY <1>1, <1>2 DEF OwnSound, PushAccounted
<1> QED BY <1>4, <1>5, <1>6 DEF OwnSound

\* A push in progress has no request on its way for keys it has not asked for.
LEMMA UnsentFree ==
    ASSUME NEW p, NEW k, ~Sent(p, k)
    PROVE  <<p, k>> \notin landed /\ \A f \in flying : f[1] = p => k \notin f[2]
BY DEF Sent

-----------------------------------------------------------------------------
(* Pushes: the locks and the turns *)

LEMMA LocksSame ==
    ASSUME PushInv, UNCHANGED <<locked, turn>>, NEW q \in Pushes,
           push'[q].pc \in Locking <=> push[q].pc \in Locking,
           push'[q].pc \in {"idle", "lock"} => push[q].pc \in {"idle", "lock"}
    PROVE  Locks(q)'
<1>1. Locks(q) /\ Turned' = Turned
    BY PushParts DEF Turned
<1> QED BY <1>1 DEF Locks, LockHeld, TurnTaken

LEMMA LocksReturn ==
    ASSUME PushInv, NEW p \in Pushes, push[p].pc # "idle", NEW how \in Over, Return(p, how),
           UNCHANGED turn
    PROVE  /\ push' \in [Pushes -> PushRecords]
           /\ push'[p].pc = how /\ push'[p].key = push[p].key
           /\ \A q \in Pushes \ {p} : push'[q] = push[q]
           /\ \A q \in Pushes : Locks(q)'
           /\ locked' \in [Destinations -> Pushes \cup {Nobody}]
<1>1. how \in PushPCs /\ how \notin Locking \cup {"idle", "lock"}
    BY DEF Over, PushPCs, Locking
<1>2. push \in [Pushes -> PushRecords] /\ PushTo(p, how)
    BY PushTyped DEF Return
<1>3. /\ push' \in [Pushes -> PushRecords] /\ push'[p].pc = how /\ push'[p].key = push[p].key
      /\ \A q \in Pushes \ {p} : push'[q] = push[q]
    BY <1>1, <1>2, PushToIs
<1>4. locked' = [d \in Destinations |-> IF locked[d] = p THEN Nobody ELSE locked[d]]
    BY DEF Return, Unlock
<1>5. Turned' = Turned
    BY DEF Turned
<1>6. ASSUME NEW q \in Pushes PROVE Locks(q)'
  <2>1. Locks(q) /\ Destination[q] \in Destinations /\ Nobody # q
    BY PushParts, PushAssumption DEF Destinations
  <2>2. CASE q = p
    <3>1. \A d \in Destinations : locked'[d] # p
      BY <1>4, <2>1, <2>2
    <3>2. LockHeld(q)'
      BY <1>1, <1>3, <2>1, <2>2, <3>1 DEF LockHeld
    <3>3. TurnTaken(q)'
      BY <1>1, <1>3, <1>5, <2>1, <2>2 DEF Locks, TurnTaken
    <3> QED BY <3>2, <3>3 DEF Locks
  <2>3. CASE q # p
    <3>1. \A d \in Destinations : locked'[d] = q <=> locked[d] = q
      BY <1>4, <2>1, <2>3
    <3>2. push'[q] = push[q]
      BY <1>3, <2>3
    <3> QED BY <1>5, <2>1, <3>1, <3>2 DEF Locks, LockHeld, TurnTaken
  <2> QED BY <2>2, <2>3
<1>7. locked' \in [Destinations -> Pushes \cup {Nobody}]
    BY <1>4 DEF PushInv, PushTypeOK
<1> QED BY <1>3, <1>6, <1>7

\* Who is done stays so, and so does its receipt.
LEMMA LateSame ==
    ASSUME PushInv, UNCHANGED <<turn, landed, kept>>,
           \A q \in Pushes : push[q].pc \in Over =>
               push'[q].pc \in Over /\ secretReceipt'[q] = secretReceipt[q]
    PROVE  \A p \in Pushes : LateKnown(p)'
<1> SUFFICES ASSUME NEW p \in Pushes, NEW q \in Pushes, Ahead(q, p)
             PROVE  /\ push'[q].pc \in Over
                    /\ \A k \in KeysOf[p] \cap KeysOf[q] :
                         <<p, k>> \in landed /\ kept[<<Destination[p], k>>] = q
                           => secretReceipt'[q][k] = "unknown"
    BY DEF LateKnown, Ahead
<1>1. LateKnown(p)
    BY PushParts
<1> QED BY <1>1 DEF LateKnown

LEMMA LockTurns ==
    ASSUME PushInv, NEW p \in Pushes, Lock(p)
    PROVE  /\ \A q \in Pushes : Locks(q)' /\ LateKnown(q)'
           /\ locked' \in [Destinations -> Pushes \cup {Nobody}]
           /\ turn' \in [Pushes -> 0..Cardinality(Pushes)]
<1> DEFINE n == 1 + Cardinality(Turned)
<1>1. /\ push[p].pc = "lock" /\ locked[Destination[p]] = Nobody
      /\ locked' = [locked EXCEPT ![Destination[p]] = p] /\ turn' = [turn EXCEPT ![p] = n]
      /\ UNCHANGED <<secretReceipt, landed, kept>>
    BY DEF Lock, Takes, Turned
<1>2. /\ push' \in [Pushes -> PushRecords] /\ push'[p].pc = "first"
      /\ \A q \in Pushes \ {p} : push'[q] = push[q]
  <2>1. push \in [Pushes -> PushRecords] /\ "first" \in PushPCs
    BY PushTyped DEF PushPCs
  <2> QED BY <2>1, PushToIs DEF Lock
<1>3. /\ locked \in [Destinations -> Pushes \cup {Nobody}] /\ Destination[p] \in Destinations
      /\ turn \in [Pushes -> 0..Cardinality(Pushes)] /\ turn[p] = 0
  <2>1. Locks(p)
    BY PushParts
  <2> QED BY <1>1, <2>1 DEF PushInv, PushTypeOK, Destinations, Locks, TurnTaken
<1>4. IsFiniteSet(Turned) /\ p \notin Turned /\ Turned \subseteq Pushes
  <2>1. Turned \subseteq Pushes /\ p \notin Turned
    BY <1>3 DEF Turned
  <2> QED BY <2>1, FS_Subset, PushAssumption
<1>5. Cardinality(Turned) \in Nat /\ Cardinality(Pushes) \in Nat /\ Cardinality(Turned \cup {p}) = n
    BY <1>4, FS_CardinalityType, FS_AddElement, PushAssumption
<1>6. Turned' = Turned \cup {p}
  <2>1. \A q \in Pushes : turn'[q] > 0 <=> turn[q] > 0 \/ q = p
    BY <1>1, <1>3, <1>5
  <2> QED BY <2>1 DEF Turned
<1>7. n <= Cardinality(Pushes)
  <2>1. Turned \cup {p} \in SUBSET Pushes
    BY <1>4
  <2> QED BY <1>5, <2>1, FS_Subset, PushAssumption
<1>8. turn' \in [Pushes -> 0..Cardinality(Pushes)] /\ turn'[p] = n
    BY <1>1, <1>3, <1>5, <1>7
<1>9. \A q \in Pushes \ {p} : turn'[q] = turn[q] /\ turn[q] < n
  <2>1. \A q \in Pushes : turn[q] <= Cardinality(Turned) /\ turn[q] \in Int
    BY <1>3, PushParts DEF Locks, TurnTaken
  <2> QED BY <1>1, <1>3, <1>5, <2>1
<1>10. locked' \in [Destinations -> Pushes \cup {Nobody}]
    BY <1>1, <1>3
<1>11. ASSUME NEW q \in Pushes PROVE Locks(q)'
  <2>1. Locks(q) /\ Nobody # q
    BY PushParts, PushAssumption
  <2>2. CASE q = p
    <3>1. \A d \in Destinations : locked[d] # p
      BY <1>1, <2>1, <2>2 DEF Locks, LockHeld, Locking
    <3>2. \A d \in Destinations : locked'[d] = p <=> d = Destination[p]
      BY <1>1, <1>3, <3>1
    <3>3. "first" \in Locking
      BY DEF Locking
    <3>4. LockHeld(p)'
      BY <1>2, <1>3, <3>2, <3>3 DEF LockHeld
    <3>5. TurnTaken(p)'
      BY <1>2, <1>5, <1>6, <1>8 DEF TurnTaken
    <3> QED BY <2>2, <3>4, <3>5 DEF Locks
  <2>3. CASE q # p
    <3>1. \A d \in Destinations : locked'[d] = q <=> locked[d] = q
      BY <1>1, <1>3, <2>1, <2>3
    <3>2. Destination[q] \in Destinations /\ push'[q] = push[q]
      BY <1>2, <2>3 DEF Destinations
    <3>3. LockHeld(q)'
      BY <2>1, <3>1, <3>2 DEF Locks, LockHeld
    <3>4. TurnTaken(q)'
      <4>1. turn[q] <= Cardinality(Turned) /\ turn[q] \in Int
        BY <1>3, <2>1 DEF Locks, TurnTaken
      <4>2. turn'[q] <= Cardinality(Turned')
        BY <1>5, <1>6, <1>9, <2>3, <4>1
      <4> QED BY <1>9, <2>1, <2>3, <3>2, <4>2 DEF Locks, TurnTaken
    <3> QED BY <3>3, <3>4 DEF Locks
  <2> QED BY <2>2, <2>3
<1>12. ASSUME NEW r \in Pushes, NEW q \in Pushes, Ahead(q, r)'
       PROVE  /\ push'[q].pc \in Over
              /\ \A k \in KeysOf[r] \cap KeysOf[q] :
                   <<r, k>> \in landed /\ kept[<<Destination[r], k>>] = q
                     => secretReceipt[q][k] = "unknown"
  <2>1. q # p
    BY <1>3, <1>5, <1>8, <1>9, <1>12 DEF Ahead
  <2>2. push'[q] = push[q] /\ turn'[q] = turn[q] /\ Destination[q] = Destination[r] /\ turn[q] > 0
    BY <1>2, <1>9, <1>12, <2>1 DEF Ahead
  <2>3. CASE r = p
    <3>1. push[q].pc \in Over
      <4>1. Locks(q) /\ Nobody # q /\ push[q].pc \in PushPCs
        BY PushParts, PushAssumption, PushTyped
      <4>2. push[q].pc \notin Locking \cup {"idle", "lock"}
        BY <1>1, <2>2, <2>3, <4>1 DEF Locks, LockHeld, TurnTaken
      <4> QED BY <4>1, <4>2 DEF PushPCs, Locking, Over
    <3>2. \A k \in KeysOf[p] : <<p, k>> \notin landed
      BY <1>1, PushParts DEF OwnSound, KeysInOrder, Sent
    <3> QED BY <2>2, <2>3, <3>1, <3>2
  <2>4. CASE r # p
    <3>1. Ahead(q, r)
      BY <1>9, <1>12, <2>2, <2>4 DEF Ahead
    <3> QED BY <2>2, <3>1, PushParts DEF LateKnown
  <2> QED BY <2>3, <2>4
<1>13. \A r \in Pushes : LateKnown(r)'
    BY <1>1, <1>12 DEF LateKnown
<1> QED BY <1>8, <1>10, <1>11, <1>13

-----------------------------------------------------------------------------
(* Pushes: the steps *)

LEMMA PushRebuilt ==
    ASSUME PushInv, NEW p \in Pushes,
           push' \in [Pushes -> PushRecords], push'[p].key \in KeysOf[p],
           \A q \in Pushes \ {p} : push'[q] = push[q],
           secretReceipt' = [q \in Pushes |-> secretReceipt'[q]],
           secretReceipt'[p] \in [KeysOf[p] -> KeyStates],
           \A q \in Pushes \ {p} : secretReceipt'[q] = secretReceipt[q],
           locked' \in [Destinations -> Pushes \cup {Nobody}],
           turn' \in [Pushes -> 0..Cardinality(Pushes)],
           UNCHANGED <<kept, landed>>, flying' \subseteq flying \cup {<<p, Batch(p)>>},
           OwnSound(p)', \A q \in Pushes : Locks(q)' /\ LateKnown(q)'
    PROVE  PushInv'
<1>1. ASSUME NEW q \in Pushes, q # p PROVE OwnSound(q)'
  <2>1. \A f \in flying' : f[1] = q => f \in flying
    BY <1>1
  <2> QED BY <1>1, <2>1, OthersKeep
<1>2. \A q \in Pushes : OwnSound(q)'
    BY <1>1
<1>3. \A q \in Pushes : /\ push'[q].pc \in PushPCs /\ push'[q].key \in KeysOf[q]
                        /\ secretReceipt'[q] \in [KeysOf[q] -> KeyStates]
  <2>1. \A q \in Pushes : push[q].key \in KeysOf[q] /\ secretReceipt[q] \in [KeysOf[q] -> KeyStates]
    BY DEF PushInv, PushTypeOK
  <2> QED BY <2>1 DEF PushRecords
<1>4. \A f \in flying' : f = <<f[1], f[2]>> /\ f[1] \in Pushes /\ f[2] \subseteq KeysOf[f[1]]
  <2>1. Batch(p) \subseteq KeysOf[p]
    BY PushTyped
  <2>2. \A f \in flying : f = <<f[1], f[2]>> /\ f[1] \in Pushes /\ f[2] \subseteq KeysOf[f[1]]
    BY DEF PushInv, PushTypeOK, PushMaps
  <2> QED BY <2>1, <2>2
<1>5. PushTypeOK'
    BY <1>3, <1>4 DEF PushInv, PushTypeOK
<1>6. PushMaps'
    BY <1>4 DEF PushMaps, PushRecords
<1>8. SecretsAccounted'
    BY <1>2 DEF OwnSound, PushAccounted, SecretsAccounted
<1>9. \A q \in Pushes : PushSound(q)'
    BY <1>2 DEF PushSound, OwnSound, Locks
<1> QED BY <1>5, <1>6, <1>8, <1>9 DEF PushInv

\* An action of p that touches only its own record and the lock.
LEMMA PushSteps ==
    ASSUME PushInv, NEW p \in Pushes, push[p].pc \notin Over,
           push' \in [Pushes -> PushRecords], push'[p].key = push[p].key,
           \A q \in Pushes \ {p} : push'[q] = push[q],
           secretReceipt' = [q \in Pushes |-> secretReceipt'[q]],
           secretReceipt'[p] \in [KeysOf[p] -> KeyStates],
           \A q \in Pushes \ {p} : secretReceipt'[q] = secretReceipt[q],
           locked' \in [Destinations -> Pushes \cup {Nobody}],
           UNCHANGED <<kept, landed, flying, turn>>,
           OwnSound(p)', \A q \in Pushes : Locks(q)'
    PROVE  PushInv'
<1>1. \A q \in Pushes : push[q].pc \in Over => push'[q].pc \in Over
        /\ secretReceipt'[q] = secretReceipt[q]
    OBVIOUS
<1>2. \A q \in Pushes : LateKnown(q)'
    BY <1>1, LateSame
<1>3. push'[p].key \in KeysOf[p] /\ turn' \in [Pushes -> 0..Cardinality(Pushes)]
    BY PushTyped DEF PushInv, PushTypeOK
<1> QED BY <1>2, <1>3, PushRebuilt

\* p goes on to pc without a change of lock or receipt.
LEMMA PushGoes ==
    ASSUME PushInv, NEW p \in Pushes, NEW pc \in PushPCs, PushTo(p, pc), push[p].pc \notin Over,
           push[p].pc \in Locking <=> pc \in Locking, pc \notin Over,
           pc \in {"idle", "lock"} => push[p].pc \in {"idle", "lock"},
           UNCHANGED <<secretReceipt, locked, kept, landed, flying, turn>>,
           KeysInOrder(p)'
    PROVE  PushInv'
<1>1. push \in [Pushes -> PushRecords]
    BY PushTyped
<1>2. /\ push' \in [Pushes -> PushRecords] /\ push'[p].pc = pc /\ push'[p].key = push[p].key
      /\ \A q \in Pushes \ {p} : push'[q] = push[q]
    BY <1>1, PushToIs
<1>3. \A q \in Pushes : Locks(q)'
    BY <1>2, LocksSame
<1>4. Flying(p)' /\ PushAccounted(p)'
    BY PushParts DEF OwnSound, Flying, PushAccounted, Sent
<1>5. secretReceipt' = [q \in Pushes |-> secretReceipt'[q]]
        /\ secretReceipt'[p] \in [KeysOf[p] -> KeyStates]
      /\ locked' \in [Destinations -> Pushes \cup {Nobody}]
    BY DEF PushInv, PushTypeOK, PushMaps
<1> QED BY <1>2, <1>3, <1>4, <1>5, PushSteps DEF OwnSound

\* p returns; its receipt tells no less than before.
LEMMA PushReturns ==
    ASSUME PushInv, NEW p \in Pushes, push[p].pc \notin Over \cup {"idle"}, NEW how \in Over,
           Return(p, how),
           NEW states \in [KeysOf[p] -> KeyStates],
           secretReceipt' \in {secretReceipt, [secretReceipt EXCEPT ![p] = states]},
           UNCHANGED <<kept, landed, flying, turn>>,
           \A k \in KeysOf[p] :
               /\ Sent(p, k) => states[k] \in {"unknown", "accepted"}
               /\ states[k] = "accepted" => <<p, k>> \in landed
               /\ (\E f \in flying : f[1] = p /\ k \in f[2]) => states[k] = "unknown",
           how = "ok" => secretReceipt' = [secretReceipt EXCEPT ![p] = states]
                         /\ \A k \in KeysOf[p] : states[k] = "accepted"
    PROVE  PushInv'
<1>1. /\ push' \in [Pushes -> PushRecords] /\ push'[p].pc = how /\ push'[p].key = push[p].key
      /\ \A q \in Pushes \ {p} : push'[q] = push[q]
      /\ \A q \in Pushes : Locks(q)'
      /\ locked' \in [Destinations -> Pushes \cup {Nobody}]
    BY LocksReturn
<1>2. /\ secretReceipt' = [q \in Pushes |-> secretReceipt'[q]]
      /\ secretReceipt'[p] \in {secretReceipt[p], states}
      /\ secretReceipt' = [secretReceipt EXCEPT ![p] = states] => secretReceipt'[p] = states
      /\ \A q \in Pushes \ {p} : secretReceipt'[q] = secretReceipt[q]
      /\ secretReceipt'[p] \in [KeysOf[p] -> KeyStates]
    BY ReceiptIs
<1>3. KeysInOrder(p)'
    BY <1>1, <1>2 DEF KeysInOrder, Over
<1>4. OwnSound(p)
    BY PushParts
<1>f. \A f \in flying : f[1] = p => f[2] \subseteq KeysOf[p]
    BY DEF PushInv, PushTypeOK
<1>5. Flying(p)'
  <2>1. ASSUME NEW f \in flying, f[1] = p, NEW k \in f[2]
        PROVE  secretReceipt'[p][k] = "unknown" /\ <<p, k>> \notin landed
    BY <1>2, <1>4, <1>f, <2>1 DEF OwnSound, Flying
  <2> QED BY <1>4, <2>1 DEF OwnSound, Flying
<1>6. PushAccounted(p)'
    BY <1>2, <1>4 DEF OwnSound, PushAccounted, Sent
<1> QED BY <1>1, <1>2, <1>3, <1>5, <1>6, PushSteps DEF OwnSound

\* p writes its receipt and goes on to pc.
LEMMA PushWrites ==
    ASSUME PushInv, NEW p \in Pushes, NEW pc \in PushPCs, PushTo(p, pc), push[p].pc \in Locking,
           pc \in Locking,
           NEW states \in [KeysOf[p] -> KeyStates],
           secretReceipt' = [secretReceipt EXCEPT ![p] = states],
           UNCHANGED <<locked, kept, landed, flying, turn>>,
           \A k \in KeysOf[p] :
               /\ Sent(p, k) => states[k] \in {"unknown", "accepted"}
               /\ states[k] = "accepted" => <<p, k>> \in landed
               /\ (\E f \in flying : f[1] = p /\ k \in f[2]) => states[k] = "unknown",
           KeysInOrder(p)'
    PROVE  PushInv'
<1>1. push \in [Pushes -> PushRecords]
    BY PushTyped
<1>2. /\ push' \in [Pushes -> PushRecords] /\ push'[p].pc = pc /\ push'[p].key = push[p].key
      /\ \A q \in Pushes \ {p} : push'[q] = push[q]
    BY <1>1, PushToIs
<1>3. pc \notin {"idle", "lock"} /\ push[p].pc \notin Over
    BY DEF Locking, Over
<1>4. \A q \in Pushes : Locks(q)'
    BY <1>2, <1>3, LocksSame
<1>5. /\ secretReceipt' = [q \in Pushes |-> secretReceipt'[q]] /\ secretReceipt'[p] = states
      /\ \A q \in Pushes \ {p} : secretReceipt'[q] = secretReceipt[q]
    BY ReceiptIs
<1>6. OwnSound(p)
    BY PushParts
<1>f. \A f \in flying : f[1] = p => f[2] \subseteq KeysOf[p]
    BY DEF PushInv, PushTypeOK
<1>7. Flying(p)'
  <2>1. ASSUME NEW f \in flying, f[1] = p, NEW k \in f[2]
        PROVE  secretReceipt'[p][k] = "unknown" /\ <<p, k>> \notin landed
    BY <1>5, <1>6, <1>f, <2>1 DEF OwnSound, Flying
  <2> QED BY <1>6, <2>1 DEF OwnSound, Flying
<1>8. PushAccounted(p)'
    BY <1>5 DEF PushAccounted, Sent
<1>9. locked' \in [Destinations -> Pushes \cup {Nobody}]
    BY DEF PushInv, PushTypeOK
<1> QED BY <1>2, <1>3, <1>4, <1>5, <1>7, <1>8, <1>9, PushSteps DEF OwnSound

\* What a receipt of p has to say of the requests that are out.
Tells(p, states) == \A k \in KeysOf[p] :
    /\ Sent(p, k) => states[k] \in {"unknown", "accepted"}
    /\ states[k] = "accepted" => <<p, k>> \in landed
    /\ (\E f \in flying : f[1] = p /\ k \in f[2]) => states[k] = "unknown"

LEMMA OldTells ==
    ASSUME PushInv, NEW p \in Pushes
    PROVE  Tells(p, secretReceipt[p]) /\ secretReceipt[p] \in [KeysOf[p] -> KeyStates]
           /\ KeysInOrder(p)
<1>1. OwnSound(p) /\ secretReceipt[p] \in [KeysOf[p] -> KeyStates]
    BY PushParts DEF PushTypeOK
<1> QED BY <1>1 DEF OwnSound, Flying, PushAccounted, Tells

\* A batch may be called anything before it is asked for.
LEMMA UnsentTells ==
    ASSUME PushInv, NEW p \in Pushes, NEW state \in KeyStates \ {"accepted"},
           \A k \in Batch(p) : ~Sent(p, k)
    PROVE  Tells(p, With(p, state))
<1>1. Tells(p, secretReceipt[p])
    BY OldTells
<1>2. /\ \A k \in KeysOf[p] : k \in Batch(p) => With(p, state)[k] = state
      /\ \A k \in KeysOf[p] : k \notin Batch(p) => With(p, state)[k] = secretReceipt[p][k]
    BY WithIs
<1>3. \A k \in Batch(p) : \A f \in flying : f[1] = p => k \notin f[2]
    BY UnsentFree
<1> QED BY <1>1, <1>2, <1>3 DEF Tells

\* A batch that was taken may be called accepted.
LEMMA LandedTells ==
    ASSUME PushInv, NEW p \in Pushes, \A k \in Batch(p) : <<p, k>> \in landed
    PROVE  Tells(p, With(p, "accepted"))
<1>1. Tells(p, secretReceipt[p]) /\ "accepted" \in KeyStates
    BY OldTells DEF KeyStates
<1>2. /\ \A k \in KeysOf[p] : k \in Batch(p) => With(p, "accepted")[k] = "accepted"
      /\ \A k \in KeysOf[p] : k \notin Batch(p) => With(p, "accepted")[k] = secretReceipt[p][k]
    BY <1>1, WithIs
<1>3. \A k \in Batch(p) : \A f \in flying : f[1] = p => k \notin f[2]
    BY PushParts DEF OwnSound, Flying
<1> QED BY <1>1, <1>2, <1>3 DEF Tells

LEMMA PCsAre ==
    /\ PushPCs = {"idle", "lock"} \cup Locking \cup Over
    /\ {"unknown", "accepted", "failed", "not_started", "none"} = KeyStates
BY DEF PushPCs, Locking, Over, KeyStates

LEMMA InvokeKeeps == ASSUME PushInv, NEW p \in Pushes, Invoke(p) PROVE PushInv'
<1>1. push[p].pc = "idle" /\ PushTo(p, "lock") /\ "lock" \in PushPCs
    BY PCsAre DEF Invoke
<1>2. UNCHANGED <<secretReceipt, locked, flying, kept, landed, turn>>
    BY DEF Invoke
<1>3. push'[p].pc = "lock" /\ push'[p].key = push[p].key
    BY <1>1, PushTyped, PushToIs
<1>4. KeysInOrder(p)'
    BY <1>1, <1>2, <1>3, OldTells DEF KeysInOrder, Sent
<1> QED BY <1>1, <1>2, <1>4, PushGoes DEF Locking, Over

\* An action by which p gives up and leaves its receipt alone.
LEMMA GivesUp ==
    ASSUME PushInv, NEW p \in Pushes, push[p].pc \notin Over \cup {"idle"}, Return(p, "failed"),
           UNCHANGED <<secretReceipt, flying, kept, landed, turn>>
    PROVE  PushInv'
<1>1. "failed" \in Over
    BY DEF Over
<1> QED BY <1>1, OldTells, PushReturns DEF Tells

\* An action by which p gives up and may have written its receipt.
LEMMA GivesUpSaving ==
    ASSUME PushInv, NEW p \in Pushes, push[p].pc \notin Over \cup {"idle"}, Return(p, "failed"),
           NEW states \in [KeysOf[p] -> KeyStates], Tells(p, states),
           secretReceipt' \in {secretReceipt, [secretReceipt EXCEPT ![p] = states]},
           UNCHANGED <<flying, kept, landed, turn>>
    PROVE  PushInv'
<1>1. "failed" \in Over /\ "failed" # "ok"
    BY DEF Over
<1> QED BY <1>1, PushReturns DEF Tells

LEMMA UnreadyKeeps == ASSUME PushInv, NEW p \in Pushes, Unready(p) PROVE PushInv'
BY GivesUp DEF Unready, Over

LEMMA DoubtKeeps == ASSUME PushInv, NEW p \in Pushes, Doubt(p) PROVE PushInv'
BY GivesUp DEF Doubt, Over

LEMMA DiesKeeps == ASSUME PushInv, NEW p \in Pushes, Dies(p) PROVE PushInv'
BY GivesUp DEF Dies, Over

LEMMA LockKeeps == ASSUME PushInv, NEW p \in Pushes, Lock(p) PROVE PushInv'
<1>1. push[p].pc = "lock" /\ PushTo(p, "first") /\ "first" \in PushPCs
    BY PCsAre DEF Lock, Locking
<1>2. UNCHANGED <<secretReceipt, flying, kept, landed>>
    BY DEF Lock
<1>3. /\ push' \in [Pushes -> PushRecords] /\ push'[p].pc = "first" /\ push'[p].key = push[p].key
      /\ \A q \in Pushes \ {p} : push'[q] = push[q]
    BY <1>1, PushTyped, PushToIs
<1>4. KeysInOrder(p)' /\ Flying(p)' /\ PushAccounted(p)'
    BY <1>1, <1>2, <1>3, PushParts DEF OwnSound, KeysInOrder, Sent, Flying, PushAccounted
<1>5. secretReceipt' = [q \in Pushes |-> secretReceipt'[q]]
        /\ secretReceipt'[p] \in [KeysOf[p] -> KeyStates]
    BY <1>2 DEF PushInv, PushTypeOK, PushMaps
<1>6. push'[p].key \in KeysOf[p]
    BY <1>3, PushTyped
<1> QED BY <1>2, <1>3, <1>4, <1>5, <1>6, LockTurns, PushRebuilt DEF OwnSound

LEMMA FirstKeeps == ASSUME PushInv, NEW p \in Pushes, First(p) PROVE PushInv'
<1> DEFINE states == [k \in KeysOf[p] |-> "not_started"]
<1>1. states \in [KeysOf[p] -> KeyStates]
    BY PCsAre
<1>2. push[p].pc = "first" /\ UNCHANGED <<flying, kept, landed, turn>>
    BY DEF First
<1>3. \A k \in KeysOf[p] : ~Sent(p, k)
    BY <1>2, OldTells DEF KeysInOrder
<1>4. Tells(p, states)
    BY <1>3, UnsentFree DEF Tells
<1> HIDE DEF states
<1>5. CASE secretReceipt' = [secretReceipt EXCEPT ![p] = states] /\ PushTo(p, "mark")
        /\ UNCHANGED locked
  <2>1. "mark" \in Locking /\ "mark" \in PushPCs /\ push[p].pc \in Locking
    BY <1>2, PCsAre DEF Locking
  <2>2. push'[p].pc = "mark" /\ push'[p].key = push[p].key
    BY <1>5, <2>1, PushTyped, PushToIs
  <2>3. \A k \in KeysOf[p] : k \in Batch(p) \cup Rest(p)
    <3>1. p \in AtOnce => \A k \in KeysOf[p] : k \in Batch(p)
      BY AllKeys
    <3>2. p \notin AtOnce => \A k \in KeysOf[p] : k \in Batch(p) \cup Rest(p)
      <4>1. push[p].key \in Int /\ \A k \in KeysOf[p] : push[p].key <= k /\ k \in Int
        BY <1>2, PushTyped, OldTells, KeysFinite DEF KeysInOrder
      <4>2. p \notin AtOnce => Batch(p) = {push[p].key}
              /\ Rest(p) = {k \in KeysOf[p] : k > push[p].key}
        BY PushTyped, OneKey
      <4> QED BY <4>1, <4>2
    <3> QED BY <3>1, <3>2
  <2>4. KeysInOrder(p)'
    BY <1>2, <1>3, <2>2, <2>3 DEF KeysInOrder, Sent, Batch, Rest
  <2> QED BY <1>1, <1>2, <1>4, <1>5, <2>1, <2>4, PushWrites DEF Tells
<1>6. CASE secretReceipt' \in {secretReceipt, [secretReceipt EXCEPT ![p] = states]}
        /\ Return(p, "failed")
    BY <1>1, <1>2, <1>4, <1>6, GivesUpSaving DEF Over
<1> QED BY <1>5, <1>6 DEF First, Saves, states

LEMMA MarkKeeps == ASSUME PushInv, NEW p \in Pushes, Mark(p) PROVE PushInv'
<1> DEFINE states == With(p, "unknown")
<1>1. /\ states \in [KeysOf[p] -> KeyStates]
      /\ \A k \in KeysOf[p] : k \in Batch(p) => states[k] = "unknown"
      /\ \A k \in KeysOf[p] : k \notin Batch(p) => states[k] = secretReceipt[p][k]
  <2>1. "unknown" \in KeyStates
    BY PCsAre
  <2> QED BY <2>1, WithIs
<1>2. push[p].pc = "mark" /\ UNCHANGED <<flying, kept, landed, turn>>
    BY DEF Mark
<1>3. \A k \in KeysOf[p] : k \in Batch(p) \cup Rest(p) => ~Sent(p, k)
    BY <1>2, OldTells DEF KeysInOrder
<1>4. Tells(p, states)
    BY <1>3, UnsentTells, PushTyped, PCsAre
<1> HIDE DEF states
<1>5. CASE secretReceipt' = [secretReceipt EXCEPT ![p] = states] /\ PushTo(p, "send")
        /\ UNCHANGED locked
  <2>1. "send" \in Locking /\ "send" \in PushPCs /\ push[p].pc \in Locking
    BY <1>2, PCsAre DEF Locking
  <2>2. push'[p].pc = "send" /\ push'[p].key = push[p].key
    BY <1>5, <2>1, PushTyped, PushToIs
  <2>3. secretReceipt'[p] = states
    BY <1>1, <1>5, ReceiptIs
  <2>4. Batch(p)' = Batch(p) /\ Rest(p)' = Rest(p) /\ Batch(p) \subseteq KeysOf[p]
    BY <2>2, PushTyped DEF Batch, Rest
  <2>5. KeysInOrder(p)'
    BY <1>1, <1>2, <1>3, <2>2, <2>3, <2>4, OldTells DEF KeysInOrder, Sent
  <2> QED BY <1>1, <1>2, <1>4, <1>5, <2>1, <2>5, PushWrites DEF Tells
<1>6. CASE secretReceipt' \in {secretReceipt, [secretReceipt EXCEPT ![p] = states]}
        /\ Return(p, "failed")
    BY <1>1, <1>2, <1>4, <1>6, GivesUpSaving DEF Over
<1> QED BY <1>5, <1>6 DEF Mark, Saves, states

LEMMA SendKeeps == ASSUME PushInv, NEW p \in Pushes, Send(p) PROVE PushInv'
<1>1. push[p].pc = "send" /\ UNCHANGED <<secretReceipt, locked, kept, landed, turn>>
    BY DEF Send
<1>2. {"await", "refused", "send"} \subseteq Locking /\ Locking \subseteq PushPCs
        /\ Locking \cap (Over \cup {"idle", "lock"}) = {}
    BY PCsAre DEF Locking, Over
<1>3. CASE PushTo(p, "refused") /\ UNCHANGED flying
  <2>1. push'[p].pc = "refused" /\ push'[p].key = push[p].key
    BY <1>2, <1>3, PushTyped, PushToIs
  <2>2. Batch(p)' = Batch(p) /\ Rest(p)' = Rest(p)
    BY <2>1 DEF Batch, Rest
  <2>3. KeysInOrder(p)'
    BY <1>1, <1>3, <2>1, <2>2, OldTells DEF KeysInOrder, Sent
  <2> QED BY <1>1, <1>2, <1>3, <2>3, PushGoes
<1>4. CASE PushTo(p, "await") /\ flying' = flying \cup {<<p, Batch(p)>>}
  <2>1. /\ push' \in [Pushes -> PushRecords] /\ push'[p].pc = "await" /\ push'[p].key = push[p].key
        /\ \A q \in Pushes \ {p} : push'[q] = push[q]
    BY <1>2, <1>4, PushTyped, PushToIs
  <2>2. Batch(p)' = Batch(p) /\ Rest(p)' = Rest(p) /\ Batch(p) \subseteq KeysOf[p]
    BY <2>1, PushTyped DEF Batch, Rest
  <2>3. Batch(p) \cap Rest(p) = {}
    <3>1. p \in AtOnce => Rest(p) = {}
      BY AllKeys
    <3>2. p \notin AtOnce => Batch(p) \cap Rest(p) = {}
      BY PushTyped, OneKey
    <3> QED BY <3>1, <3>2
  <2>4. /\ \A k \in KeysOf[p] : k \in Batch(p) \cup Rest(p) => ~Sent(p, k)
        /\ \A k \in KeysOf[p] : k \notin Batch(p) \cup Rest(p) => secretReceipt[p][k] = "accepted"
        /\ \A k \in Batch(p) : secretReceipt[p][k] = "unknown"
    BY <1>1, OldTells DEF KeysInOrder
  <2>5. \A k : Sent(p, k)' => Sent(p, k) \/ k \in Batch(p)
    BY <1>1, <1>4 DEF Sent
  <2>r. Rest(p) \subseteq KeysOf[p]
    BY DEF Rest
  <2>6. KeysInOrder(p)'
    BY <1>1, <2>1, <2>2, <2>3, <2>4, <2>5, <2>r DEF KeysInOrder
  <2>7. Flying(p) /\ PushAccounted(p)
    BY PushParts DEF OwnSound
  <2>8. \A k \in Batch(p) : <<p, k>> \notin landed /\ \A f \in flying : f[1] = p => k \notin f[2]
    BY <2>2, <2>4, UnsentFree
  <2>9. Flying(p)'
    <3>1. ASSUME NEW f \in flying', f[1] = p, NEW k \in f[2]
          PROVE  secretReceipt[p][k] = "unknown" /\ <<p, k>> \notin landed
      BY <1>4, <2>4, <2>7, <2>8, <3>1 DEF Flying
    <3>2. ASSUME NEW f \in flying', NEW g \in flying', f[1] = p, g[1] = p, f[2] \cap g[2] # {}
          PROVE  f = g
      <4>1. CASE f \in flying /\ g \in flying
        BY <2>7, <3>2, <4>1 DEF Flying
      <4>2. CASE f = <<p, Batch(p)>> /\ g \in flying
        BY <2>8, <3>2, <4>2
      <4>3. CASE g = <<p, Batch(p)>> /\ f \in flying
        BY <2>8, <3>2, <4>3
      <4> QED BY <1>4, <4>1, <4>2, <4>3
    <3> QED BY <1>1, <3>1, <3>2 DEF Flying
  <2>10. PushAccounted(p)'
    BY <1>1, <2>4, <2>5, <2>7 DEF PushAccounted
  <2>11. \A q \in Pushes : Locks(q)' /\ LateKnown(q)'
    <3>1. \A q \in Pushes : Locks(q)'
      BY <1>1, <1>2, <2>1, LocksSame
    <3>2. \A q \in Pushes : push[q].pc \in Over => push'[q].pc \in Over
      BY <1>1, <1>2, <2>1
    <3> QED BY <1>1, <3>1, <3>2, LateSame
  <2>12. /\ secretReceipt' = [q \in Pushes |-> secretReceipt'[q]]
          /\ secretReceipt'[p] \in [KeysOf[p] -> KeyStates]
         /\ locked' \in [Destinations -> Pushes \cup {Nobody}]
               /\ turn' \in [Pushes -> 0..Cardinality(Pushes)]
    BY <1>1 DEF PushInv, PushTypeOK, PushMaps
  <2>13. push'[p].key \in KeysOf[p]
    BY <2>1, PushTyped
  <2>14. flying' \subseteq flying \cup {<<p, Batch(p)>>} /\ OwnSound(p)'
    BY <1>4, <2>6, <2>9, <2>10 DEF OwnSound
  <2> QED BY <1>1, <2>1, <2>11, <2>12, <2>13, <2>14, PushRebuilt
<1> QED BY <1>3, <1>4 DEF Send

LEMMA AnsweredKeeps == ASSUME PushInv, NEW p \in Pushes, Answered(p) PROVE PushInv'
<1>1. push[p].pc = "await" /\ PushTo(p, "accept")
        /\ UNCHANGED <<secretReceipt, locked, flying, kept, landed, turn>>
    BY DEF Answered
<1>2. \A k \in Batch(p) : <<p, k>> \in landed
    BY DEF Answered
<1>3. {"await", "accept"} \subseteq Locking /\ Locking \subseteq PushPCs
        /\ Locking \cap (Over \cup {"idle", "lock"}) = {}
    BY PCsAre DEF Locking, Over
<1>4. push'[p].pc = "accept" /\ push'[p].key = push[p].key
    BY <1>1, <1>3, PushTyped, PushToIs
<1>5. Batch(p)' = Batch(p) /\ Rest(p)' = Rest(p)
    BY <1>4 DEF Batch, Rest
<1>6. KeysInOrder(p)'
    BY <1>1, <1>2, <1>4, <1>5, OldTells DEF KeysInOrder, Sent
<1> QED BY <1>1, <1>3, <1>6, PushGoes

LEMMA RefusedKeeps == ASSUME PushInv, NEW p \in Pushes, Refused(p) PROVE PushInv'
<1>1. push[p].pc = "refused" /\ UNCHANGED <<flying, kept, landed, turn>>
    BY DEF Refused
<1>2. "failed" \in KeyStates \ {"accepted"}
    BY PCsAre
<1>3. \A k \in Batch(p) : ~Sent(p, k)
    BY <1>1, OldTells, PushTyped DEF KeysInOrder
<1>4. With(p, "failed") \in [KeysOf[p] -> KeyStates] /\ Tells(p, With(p, "failed"))
    BY <1>2, <1>3, WithIs, UnsentTells
<1>5. secretReceipt' \in {secretReceipt, [secretReceipt EXCEPT ![p] = With(p, "failed")]}
        /\ Return(p, "failed")
    BY DEF Refused, Saves
<1> QED BY <1>1, <1>4, <1>5, GivesUpSaving DEF Over

LEMMA AcceptKeeps == ASSUME PushInv, NEW p \in Pushes, Accept(p) PROVE PushInv'
<1> DEFINE states == With(p, "accepted")
<1>1. /\ states \in [KeysOf[p] -> KeyStates]
      /\ \A k \in KeysOf[p] : k \in Batch(p) => states[k] = "accepted"
      /\ \A k \in KeysOf[p] : k \notin Batch(p) => states[k] = secretReceipt[p][k]
  <2>1. "accepted" \in KeyStates
    BY PCsAre
  <2> QED BY <2>1, WithIs
<1>2. push[p].pc = "accept" /\ UNCHANGED <<flying, kept, landed, turn>>
    BY DEF Accept
<1>3. /\ \A k \in Rest(p) : ~Sent(p, k)
      /\ \A k \in KeysOf[p] : k \notin Batch(p) \cup Rest(p) => secretReceipt[p][k] = "accepted"
      /\ \A k \in Batch(p) : <<p, k>> \in landed
    BY <1>2, OldTells DEF KeysInOrder
<1>4. Tells(p, states)
    BY <1>3, LandedTells
<1> HIDE DEF states
<1>5. CASE secretReceipt' \in {secretReceipt, [secretReceipt EXCEPT ![p] = states]}
        /\ Return(p, "failed")
    BY <1>1, <1>2, <1>4, <1>5, GivesUpSaving DEF Over
<1>6. CASE secretReceipt' = [secretReceipt EXCEPT ![p] = states] /\ Rest(p) = {} /\ Return(p, "ok")
  <2>1. \A k \in KeysOf[p] : states[k] = "accepted"
    BY <1>1, <1>3, <1>6
  <2>2. "ok" \in Over /\ push[p].pc \notin Over \cup {"idle"}
    BY <1>2 DEF Over
  <2>3. \A k \in KeysOf[p] :
            /\ Sent(p, k) => states[k] \in {"unknown", "accepted"}
            /\ states[k] = "accepted" => <<p, k>> \in landed
            /\ (\E f \in flying : f[1] = p /\ k \in f[2]) => states[k] = "unknown"
    BY <1>4 DEF Tells
  <2>4. Return(p, "ok") /\ secretReceipt' = [secretReceipt EXCEPT ![p] = states]
    BY <1>6
  <2>5. secretReceipt' \in {secretReceipt, [secretReceipt EXCEPT ![p] = states]}
    BY <2>4
  <2> DEFINE how == "ok"
  <2>6. how \in Over /\ Return(p, how)
    BY <2>2, <2>4
  <2>7. how = "ok" => secretReceipt' = [secretReceipt EXCEPT ![p] = states]
                      /\ \A k \in KeysOf[p] : states[k] = "accepted"
    BY <2>1, <2>4
  <2> HIDE DEF how
  <2> QED BY <1>1, <1>2, <2>2, <2>3, <2>5, <2>6, <2>7, PushReturns
<1>7. CASE /\ secretReceipt' = [secretReceipt EXCEPT ![p] = states] /\ Rest(p) # {}
        /\ UNCHANGED locked
           /\ push' = [push EXCEPT ![p] = [pc |-> "mark", key |-> Min(Rest(p))]]
  <2> DEFINE m == Min(Rest(p))
  <2>1. push[p].key \in KeysOf[p] /\ push[p].key \in Int /\ push \in [Pushes -> PushRecords]
    BY PushTyped
  <2>2. p \notin AtOnce /\ m \in Rest(p) /\ \A k \in Rest(p) : m <= k
    BY <1>7, <2>1, NextBatch
  <2> HIDE DEF m
  <2>3. Batch(p) = {push[p].key} /\ Rest(p) = {k \in KeysOf[p] : k > push[p].key}
    BY <2>1, <2>2, OneKey
  <2>4. m \in KeysOf[p] /\ m \in Int /\ m > push[p].key /\ "mark" \in PushPCs
    BY <2>2, <2>3, KeysFinite, PCsAre DEF Locking
  <2>5. /\ push' \in [Pushes -> PushRecords] /\ push'[p].pc = "mark" /\ push'[p].key = m
        /\ \A q \in Pushes \ {p} : push'[q] = push[q]
    BY <1>7, <2>1, <2>4 DEF PushRecords, m
  <2>6. Max({m}) = m
    BY <2>4 DEF Max
  <2>7. Batch(p)' = {m} /\ Rest(p)' = {k \in KeysOf[p] : k > m}
    BY <2>2, <2>5, <2>6 DEF Batch, Rest
  <2>8. \A k \in KeysOf[p] : k \in (Batch(p) \cup Rest(p))' <=> k \in Rest(p)
    <3>1. \A k \in KeysOf[p] : k \in Rest(p) => k = m \/ k > m
      BY <2>2, <2>4, KeysFinite
    <3>2. \A k \in KeysOf[p] : k > m => k > push[p].key
      BY <2>1, <2>4, KeysFinite
    <3> QED BY <2>2, <2>3, <2>7, <3>1, <3>2
  <2>9. /\ secretReceipt' = [q \in Pushes |-> secretReceipt'[q]] /\ secretReceipt'[p] = states
        /\ \A q \in Pushes \ {p} : secretReceipt'[q] = secretReceipt[q]
    BY <1>1, <1>7, ReceiptIs
  <2>10. \A k \in KeysOf[p] : k \notin Rest(p) => states[k] = "accepted"
    BY <1>1, <1>3
  <2>11. KeysInOrder(p)'
    BY <1>2, <1>3, <2>5, <2>8, <2>9, <2>10 DEF KeysInOrder, Sent
  <2>12. Flying(p) /\ \A f \in flying : f[1] = p => f[2] \subseteq KeysOf[p]
    BY PushParts DEF OwnSound, PushTypeOK
  <2>13. Flying(p)'
    <3>1. ASSUME NEW f \in flying, f[1] = p, NEW k \in f[2]
          PROVE  secretReceipt'[p][k] = "unknown" /\ <<p, k>> \notin landed
      BY <1>4, <2>9, <2>12, <3>1 DEF Tells, Flying
    <3> QED BY <1>2, <2>12, <3>1 DEF Flying
  <2>14. PushAccounted(p)'
    BY <1>2, <1>4, <2>9 DEF PushAccounted, Sent, Tells
  <2>15. "mark" \in Locking /\ "accept" \in Locking
          /\ Locking \cap (Over \cup {"idle", "lock"}) = {}
    BY DEF Locking, Over
  <2>16. \A q \in Pushes : Locks(q)'
    BY <1>2, <1>7, <2>5, <2>15, LocksSame
  <2>17. \A q \in Pushes : push[q].pc \in Over => push'[q].pc \in Over
          /\ secretReceipt'[q] = secretReceipt[q]
    BY <1>2, <2>5, <2>9, <2>15
  <2>18. \A q \in Pushes : LateKnown(q)'
    BY <1>2, <2>17, LateSame
  <2>19. locked' \in [Destinations -> Pushes \cup {Nobody}]
          /\ turn' \in [Pushes -> 0..Cardinality(Pushes)]
    BY <1>2, <1>7 DEF PushInv, PushTypeOK
  <2> QED
    BY <1>1, <1>2, <2>4, <2>5, <2>9, <2>11, <2>13, <2>14, <2>16, <2>18, <2>19, PushRebuilt
       DEF OwnSound
<1> QED BY <1>5, <1>6, <1>7 DEF Accept, Saves, states

\* The remote takes a request: it was the only one for its keys.
LEMMA LandsKeeps == ASSUME PushInv, NEW f \in flying, SecretLands(f) PROVE PushInv'
<1>1. /\ flying' = flying \ {f} /\ landed' = landed \cup ({f[1]} \X f[2])
      /\ kept' = [s \in Slots |-> IF s[1] = Destination[f[1]]
            /\ s[2] \in f[2] THEN f[1] ELSE kept[s]]
      /\ UNCHANGED <<push, secretReceipt, locked, turn>>
    BY DEF SecretLands
<1>2. f[1] \in Pushes /\ f[2] \subseteq KeysOf[f[1]] /\ f = <<f[1], f[2]>>
    BY DEF PushInv, PushTypeOK, PushMaps
<1>3. \A q, k : <<q, k>> \in landed' <=> <<q, k>> \in landed \/ (q = f[1] /\ k \in f[2])
    BY <1>1
<1>4. \A q, k : Sent(q, k)' => Sent(q, k)
    BY <1>1, <1>3 DEF Sent
<1>5. \A q \in Pushes : Batch(q)' = Batch(q) /\ Rest(q)' = Rest(q) /\ Batch(q) \subseteq KeysOf[q]
    BY <1>1, PushTyped DEF Batch, Rest
<1>6. ASSUME NEW q \in Pushes PROVE OwnSound(q)'
  <2>1. OwnSound(q)
    BY PushParts
  <2>2. KeysInOrder(q)'
    BY <1>1, <1>3, <1>4, <1>5, <2>1 DEF OwnSound, KeysInOrder
  <2>3. ASSUME NEW g \in flying', g[1] = q, NEW k \in g[2] PROVE <<q, k>> \notin landed'
    BY <1>1, <1>3, <2>1, <2>3 DEF OwnSound, Flying
  <2>4. Flying(q)'
    BY <1>1, <2>1, <2>3 DEF OwnSound, Flying
  <2>5. PushAccounted(q)'
    BY <1>1, <1>3, <1>4, <2>1 DEF OwnSound, PushAccounted
  <2> QED BY <2>2, <2>4, <2>5 DEF OwnSound
<1>7. ASSUME NEW q \in Pushes PROVE Locks(q)'
    BY <1>1, LocksSame
<1>8. ASSUME NEW p \in Pushes, NEW q \in Pushes, Ahead(q, p)
      PROVE  /\ push[q].pc \in Over
             /\ \A k \in KeysOf[p] \cap KeysOf[q] :
                  <<p, k>> \in landed' /\ kept'[<<Destination[p], k>>] = q
                        => secretReceipt[q][k] = "unknown"
  <2>1. LateKnown(p) /\ p # q
    BY <1>8, PushParts DEF PushInv, PushTypeOK, Ahead
  <2>2. ASSUME NEW k \in KeysOf[p] \cap KeysOf[q], <<p, k>> \in landed',
          kept'[<<Destination[p], k>>] = q
        PROVE  secretReceipt[q][k] = "unknown"
    <3>1. <<Destination[p], k>> \in Slots
      BY DEF Slots
    <3>2. kept'[<<Destination[p], k>>] =
            IF Destination[p] = Destination[f[1]]
                  /\ k \in f[2] THEN f[1] ELSE kept[<<Destination[p], k>>]
      BY <1>1, <3>1
    <3>3. CASE Destination[p] = Destination[f[1]] /\ k \in f[2]
      <4>1. f[1] = q
        BY <2>2, <3>2, <3>3
      <4> QED BY <3>3, <4>1, PushParts DEF OwnSound, Flying
    <3>4. CASE ~(Destination[p] = Destination[f[1]] /\ k \in f[2])
      <4>1. <<p, k>> \in landed /\ kept[<<Destination[p], k>>] = q
        BY <1>3, <2>2, <3>2, <3>4
      <4> QED BY <1>8, <2>1, <4>1 DEF LateKnown
    <3> QED BY <3>3, <3>4
  <2> QED BY <1>8, <2>1, <2>2 DEF LateKnown
<1>9. \A p \in Pushes : LateKnown(p)'
    BY <1>1, <1>8 DEF LateKnown, Ahead
<1>10. PushTypeOK'
  <2>1. kept' \in [Slots -> Pushes \cup {Nobody}]
    BY <1>1, <1>2 DEF PushInv, PushTypeOK
  <2>2. \A l \in landed' : l[1] \in Pushes /\ l[2] \in KeysOf[l[1]]
    BY <1>1, <1>2 DEF PushInv, PushTypeOK
  <2> QED BY <1>1, <2>1, <2>2 DEF PushInv, PushTypeOK
<1>11. PushMaps'
    BY <1>1 DEF PushInv, PushMaps
<1> QED BY <1>6, <1>7, <1>9, <1>10, <1>11 DEF PushInv, SecretsAccounted, PushSound, OwnSound,
        PushAccounted, Locks

LEMMA LostKeeps == ASSUME PushInv, NEW f \in flying, SecretLost(f) PROVE PushInv'
<1>1. flying' = flying \ {f} /\ UNCHANGED <<push, secretReceipt, locked, kept, landed, turn>>
    BY DEF SecretLost
<1>2. \A q \in Pushes : OwnSound(q)'
    BY <1>1, OthersKeep
<1>3. \A q \in Pushes : Locks(q)'
    BY <1>1, LocksSame
<1>4. \A q \in Pushes : LateKnown(q)'
    BY <1>1, LateSame
<1>5. PushTypeOK' /\ PushMaps'
    BY <1>1 DEF PushInv, PushTypeOK, PushMaps
<1> QED BY <1>2, <1>3, <1>4, <1>5 DEF PushInv, SecretsAccounted, PushSound, OwnSound, PushAccounted,
        Locks

LEMMA PushStutters == ASSUME PushInv, UNCHANGED pushVars PROVE PushInv'
<1>1. UNCHANGED <<push, secretReceipt, locked, flying, kept, landed, turn>>
    BY DEF pushVars
<1>2. \A q \in Pushes : OwnSound(q)'
    BY <1>1, OthersKeep
<1>3. \A q \in Pushes : Locks(q)'
    BY <1>1, LocksSame
<1>4. \A q \in Pushes : LateKnown(q)'
    BY <1>1, LateSame
<1>5. PushTypeOK' /\ PushMaps'
    BY <1>1 DEF PushInv, PushTypeOK, PushMaps
<1> QED BY <1>2, <1>3, <1>4, <1>5 DEF PushInv, SecretsAccounted, PushSound, OwnSound, PushAccounted,
        Locks

\* All that happens to pushes, by whomever they were called.
LEMMA PushInductive ==
    ASSUME PushInv, (\E p \in Pushes : Invoke(p) \/ Pushing(p) \/ Dies(p)) \/ Remote \/ UNCHANGED pushVars
    PROVE  PushInv'
<1>1. ASSUME NEW p \in Pushes, Invoke(p) \/ Pushing(p) \/ Dies(p) PROVE PushInv'
    BY <1>1, InvokeKeeps, UnreadyKeeps, LockKeeps, FirstKeeps, MarkKeeps, SendKeeps, DoubtKeeps,
       AnsweredKeeps, RefusedKeeps, AcceptKeeps, DiesKeeps DEF Pushing
<1>2. CASE Remote
    BY <1>2, LandsKeeps, LostKeeps DEF Remote
<1> QED BY <1>1, <1>2, PushStutters

\* A push that succeeded stays so, and so does what it says.
LEMMA OkStays ==
    ASSUME PushInv, NEW p \in Pushes, push[p].pc = "ok",
           (\E q \in Pushes : Invoke(q) \/ Pushing(q) \/ Dies(q)) \/ Remote \/ UNCHANGED pushVars
    PROVE  push'[p].pc = "ok"
<1>1. push \in [Pushes -> PushRecords]
    BY PushTyped
<1>2. ASSUME NEW q \in Pushes, Invoke(q) \/ Pushing(q) \/ Dies(q) PROVE push'[p].pc = "ok"
  <2>1. q # p
    BY <1>2 DEF Invoke, Pushing, Dies, Unready, Lock, First, Mark, Send, Doubt, Answered, Refused,
       Accept
  <2>2. \A pc : PushTo(q, pc) => push'[p] = push[p]
    BY <1>1, <2>1 DEF PushTo
  <2>3. \A r : push' = [push EXCEPT ![q] = r] => push'[p] = push[p]
    BY <1>1, <2>1
  <2> QED
    BY <1>2, <2>2, <2>3
       DEF Invoke, Pushing, Dies, Unready, Lock, First, Mark, Send, Doubt, Answered, Refused, Accept,
             Return, Saves
<1>3. CASE Remote
    BY <1>3 DEF Remote, SecretLands, SecretLost
<1>4. CASE UNCHANGED pushVars
    BY <1>4 DEF pushVars
<1> QED BY <1>2, <1>3, <1>4

LEMMA PushInitially == PushInit => PushInv
<1> SUFFICES ASSUME PushInit PROVE PushInv
    OBVIOUS
<1>1. \A p \in Pushes : Min(KeysOf[p]) \in KeysOf[p] /\ \A k \in KeysOf[p] : Min(KeysOf[p]) <= k
    BY KeysFinite, Least
<1>2. /\ push = [p \in Pushes |-> [pc |-> "idle", key |-> Min(KeysOf[p])]]
      /\ secretReceipt = [p \in Pushes |-> [k \in KeysOf[p] |-> "none"]]
      /\ locked = [d \in Destinations |-> Nobody] /\ flying = {} /\ landed = {}
      /\ kept = [s \in Slots |-> Nobody] /\ turn = [p \in Pushes |-> 0]
    BY DEF PushInit
<1>3. \A p \in Pushes : /\ push[p].pc = "idle" /\ push[p].key = Min(KeysOf[p])
                        /\ secretReceipt[p] = [k \in KeysOf[p] |-> "none"] /\ turn[p] = 0
    BY <1>2
<1>z. \A q \in Pushes : turn[q] = 0
    BY <1>2
<1>4. Cardinality(Pushes) \in Nat
    BY FS_CardinalityType, PushAssumption
<1>5. \A p \in Pushes : \A k : ~Sent(p, k)
    BY <1>2 DEF Sent
<1>6. PushTypeOK
    BY <1>1, <1>2, <1>3, <1>4 DEF PushTypeOK, PushPCs, KeyStates
<1>7. PushMaps
    BY <1>1, <1>2, <1>3, KeysFinite DEF PushMaps, PushPCs
<1>8. SecretsAccounted
    BY <1>3, <1>5 DEF SecretsAccounted
<1>9. ASSUME NEW p \in Pushes PROVE PushSound(p)
  <2>1. KeysInOrder(p)
    BY <1>1, <1>3, <1>5 DEF KeysInOrder
  <2>2. Flying(p)
    BY <1>2 DEF Flying
  <2>3. LockHeld(p)
    BY <1>2, <1>3, PushAssumption DEF LockHeld, Locking, Destinations
  <2>4. Turned = {}
    <3>1. \A q \in Pushes : ~(turn[q] > 0)
      BY <1>z
    <3> QED BY <3>1 DEF Turned
  <2>5. TurnTaken(p)
    <3>1. Cardinality(Turned) = 0 /\ turn[p] = 0
      BY <1>3, <2>4, FS_EmptySet
    <3>2. turn[p] <= Cardinality(Turned)
      BY <3>1
    <3> QED BY <1>3, <3>2 DEF TurnTaken, Locking
  <2>6. LateKnown(p)
    <3>1. \A q \in Pushes : ~(0 < turn[q])
      BY <1>z
    <3> QED BY <3>1 DEF LateKnown, Ahead
  <2> QED BY <2>1, <2>2, <2>3, <2>5, <2>6 DEF PushSound
<1> QED BY <1>6, <1>7, <1>8, <1>9 DEF PushInv


-----------------------------------------------------------------------------
(* Jobs: what the pieces of an action do *)

LEMMA Constants ==
    /\ 1 \in Entries /\ Entries \subseteq Nat /\ (\A i \in Entries : i >= 1)
    /\ Runner \in Actors /\ Nobody \notin Actors /\ Imaged \subseteq Entries
    /\ IsFiniteSet(DOMAIN Before) /\ DOMAIN Before \in SUBSET Int
    /\ \A j \in DOMAIN Before : Before[j] \in Pushes
<1>1. Cardinality(Entries) \in Nat /\ Entries = 1..Cardinality(Entries) /\ Entries # {}
    BY FS_CardinalityType, JobAssumption
<1>2. 1 \in Entries /\ Entries \subseteq Nat /\ \A i \in Entries : i >= 1
    BY <1>1
<1>3. Before \in Seq(Pushes) /\ Len(Before) \in Nat /\ DOMAIN Before = 1..Len(Before)
    BY JobAssumption
<1>4. IsFiniteSet(DOMAIN Before) /\ DOMAIN Before \in SUBSET Int
    BY <1>3, FS_Interval
<1>5. \A j \in DOMAIN Before : Before[j] \in Pushes
    BY <1>3
<1> QED BY <1>2, <1>4, <1>5, JobAssumption DEF Actors

LEMMA JobTyped ==
    ASSUME JobInv
    PROVE  /\ jobReceipt \in [Entries -> EntryRecords] /\ rlock \in Actors \cup {Nobody}
           /\ dispatching \subseteq Entries /\ head \in 0..1
           /\ remote \in [Entries -> [status : {"none", "running", "success", "failure"},
                                      attempt : 0..2, head : 0..1]]
           /\ first \in [Entries -> {"none", "success", "failure"}]
BY DEF JobInv, JobTypeOK, EntryRecords

LEMMA ActorTyped ==
    ASSUME JobInv, NEW a \in Actors
    PROVE  /\ actor \in [Actors -> ActorRecords] /\ actor[a] \in ActorRecords
           /\ actor[a].pc \in ActorPCs /\ actor[a].verb \in {"run", "status", "resume", "verify"}
           /\ actor[a].poll \in BOOLEAN /\ actor[a].verify \in BOOLEAN /\ actor[a].at \in Entries
                 \cup {0}
           /\ actor[a].copy \in [Entries -> EntryRecords] /\ actor[a].ok \in BOOLEAN
BY DEF JobInv, JobMaps, ActorRecords

LEMMA SetIs ==
    ASSUME actor \in [Actors -> ActorRecords], NEW a \in Actors, NEW c \in ActorRecords, Set(a, c)
    PROVE  /\ actor' \in [Actors -> ActorRecords] /\ actor'[a] = c
           /\ \A b \in Actors \ {a} : actor'[b] = actor[b]
BY DEF Set

LEMMA GotoIs ==
    ASSUME actor \in [Actors -> ActorRecords], NEW a \in Actors, NEW pc \in ActorPCs
    PROVE  /\ Goto(a, pc) \in ActorRecords /\ Goto(a, pc).pc = pc
           /\ Goto(a, pc).verb = actor[a].verb /\ Goto(a, pc).poll = actor[a].poll
           /\ Goto(a, pc).verify = actor[a].verify /\ Goto(a, pc).at = actor[a].at
           /\ Goto(a, pc).copy = actor[a].copy /\ Goto(a, pc).ok = actor[a].ok
BY DEF Goto, ActorRecords

LEMMA NoEntryIs == NoEntry \in EntryRecords /\ NoEntry.state = "none" /\ NoEntry.status = "none"
      /\ NoEntry.verified = FALSE
BY DEF NoEntry, EntryRecords

LEMMA EndedIs ==
    ASSUME actor \in [Actors -> ActorRecords], NEW a \in Actors, NEW good \in BOOLEAN
    PROVE  /\ Ended(a, good) \in ActorRecords /\ Ended(a, good).pc = "ended"
           /\ Ended(a, good).ok = good
           /\ Ended(a, good).verb = actor[a].verb /\ Ended(a, good).poll = actor[a].poll
           /\ \A i \in Entries : Ended(a, good).copy[i] = NoEntry
<1>1. "ended" \in ActorPCs
    BY DEF ActorPCs
<1>2. /\ Goto(a, "ended") \in ActorRecords /\ Goto(a, "ended").pc = "ended"
      /\ Goto(a, "ended").verb = actor[a].verb /\ Goto(a, "ended").poll = actor[a].poll
    BY <1>1, GotoIs
<1>3. [i \in Entries |-> NoEntry] \in [Entries -> EntryRecords]
    BY NoEntryIs
<1> QED BY <1>2, <1>3 DEF Ended, ActorRecords

\* A record of a command at another entry, or with another copy.
LEMMA AtIs ==
    ASSUME NEW c \in ActorRecords, NEW i \in Entries
    PROVE  LET d == [c EXCEPT !.at = i]
           IN /\ d \in ActorRecords /\ d.pc = c.pc /\ d.verb = c.verb /\ d.poll = c.poll
              /\ d.verify = c.verify /\ d.at = i /\ d.copy = c.copy /\ d.ok = c.ok
BY DEF ActorRecords

LEMMA CopyIs ==
    ASSUME NEW c \in ActorRecords, NEW r \in [Entries -> EntryRecords]
    PROVE  LET d == [c EXCEPT !.copy = r]
           IN /\ d \in ActorRecords /\ d.pc = c.pc /\ d.verb = c.verb /\ d.poll = c.poll
              /\ d.verify = c.verify /\ d.at = c.at /\ d.copy = r /\ d.ok = c.ok
BY DEF ActorRecords

LEMMA PcIs ==
    ASSUME NEW c \in ActorRecords, NEW pc \in ActorPCs
    PROVE  LET d == [c EXCEPT !.pc = pc]
           IN /\ d \in ActorRecords /\ d.pc = pc /\ d.verb = c.verb /\ d.poll = c.poll
              /\ d.verify = c.verify /\ d.at = c.at /\ d.copy = c.copy /\ d.ok = c.ok
BY DEF ActorRecords

LEMMA PutIs ==
    ASSUME NEW c \in ActorRecords, c.at \in Entries, NEW e \in EntryRecords
    PROVE  /\ Put(c, e) \in ActorRecords /\ Put(c, e).pc = c.pc /\ Put(c, e).verb = c.verb
           /\ Put(c, e).poll = c.poll /\ Put(c, e).verify = c.verify /\ Put(c, e).at = c.at
           /\ Put(c, e).ok = c.ok /\ Put(c, e).copy[c.at] = e
           /\ \A i \in Entries \ {c.at} : Put(c, e).copy[i] = c.copy[i]
BY DEF Put, ActorRecords

\* On to the next entry, to the write, or to the write of a refusal.
LEMMA AfterIs ==
    ASSUME NEW c \in ActorRecords, c.at \in Entries
    PROVE  /\ After(c) \in ActorRecords /\ After(c).pc \in {"entry", "save"}
           /\ After(c).at \in Entries
           /\ After(c).verb = c.verb /\ After(c).poll = c.poll /\ After(c).copy = c.copy
                 /\ After(c).ok = c.ok
<1>1. CASE c.at + 1 \in Entries
    BY <1>1 DEF After, ActorRecords, ActorPCs, Holding
<1>2. CASE c.at + 1 \notin Entries
    BY <1>2 DEF After, ActorRecords, ActorPCs, Holding
<1> QED BY <1>1, <1>2

LEMMA BadIs ==
    ASSUME NEW c \in ActorRecords
    PROVE  /\ Bad(c) \in ActorRecords /\ Bad(c).pc = "saveBad" /\ Bad(c).at = c.at
           /\ Bad(c).verb = c.verb /\ Bad(c).poll = c.poll /\ Bad(c).copy = c.copy
                 /\ Bad(c).ok = c.ok
BY DEF Bad, ActorRecords, ActorPCs, Holding

\* What an entry says after one of its fields changed.
LEMMA StateIs ==
    ASSUME NEW e \in EntryRecords,
           NEW s \in {"none", "not_started", "unknown_dispatch", "dispatched"}
    PROVE  LET d == [e EXCEPT !.state = s]
           IN d \in EntryRecords /\ d.state = s /\ d.status = e.status /\ d.verified = e.verified
BY DEF EntryRecords

LEMMA VerifiedIs ==
    ASSUME NEW e \in EntryRecords, NEW v \in BOOLEAN
    PROVE  LET d == [e EXCEPT !.verified = v]
           IN d \in EntryRecords /\ d.state = e.state /\ d.status = e.status /\ d.verified = v
BY DEF EntryRecords

LEMMA SeenIs ==
    ASSUME NEW e \in EntryRecords, NEW s \in {"none", "running", "success", "failure"}
    PROVE  LET d == [e EXCEPT !.status = s, !.verified = @ /\ s = "success"]
           IN d \in EntryRecords /\ d.state = e.state /\ d.status = s /\ (d.verified => e.verified)
<1>1. CASE s = "success"
  <2>1. e.verified \in BOOLEAN
    BY DEF EntryRecords
  <2>2. (e.verified /\ s = "success") = e.verified
    BY <1>1, <2>1
  <2>3. [e EXCEPT !.status = s, !.verified = @ /\ s = "success"] = [e EXCEPT !.status = s,
          !.verified = e.verified]
    BY <2>2
  <2> QED BY <2>1, <2>3 DEF EntryRecords
<1>2. CASE s # "success"
  <2>1. (e.verified /\ s = "success") = FALSE
    BY <1>2
  <2>2. [e EXCEPT !.status = s, !.verified = @ /\ s = "success"] = [e EXCEPT !.status = s,
          !.verified = FALSE]
    BY <2>1
  <2> QED BY <2>2 DEF EntryRecords
<1> QED BY <1>1, <1>2

-----------------------------------------------------------------------------
(* Jobs: what a step leaves alone *)

\* The other actors: the holder of the lock finds the states as it read them.
LEMMA OtherActorsKeep ==
    ASSUME JobInv, NEW b \in Actors, actor'[b] = actor[b], rlock' = b <=> rlock = b,
           rlock = b => \A i \in Entries : jobReceipt'[i].state = jobReceipt[i].state,
           \A i \in Entries : Good(i) => Good(i)'
    PROVE  ActorSound(b)'
<1>1. ActorSound(b) /\ actor[b].at \in Entries \cup {0}
    BY ActorTyped DEF JobInv
<1>2. LockSound(b)'
    BY <1>1 DEF ActorSound, LockSound
<1>3. \A i \in Entries : Told(i, actor[b].copy[i])'
    BY <1>1 DEF ActorSound, Told
<1>4. (actor[b].pc = "artifact" => actor[b].at \in Imaged /\ Good(actor[b].at))'
  <2>1. PICK i \in Entries \cup {0} : i = actor[b].at
    BY <1>1
  <2>2. actor[b].pc = "artifact" => i \in Imaged /\ Good(i)
    BY <1>1, <2>1 DEF ActorSound
  <2>3. actor[b].pc = "artifact" => i \in Imaged /\ Good(i)'
    BY <2>2, Constants
  <2>4. actor'[b].at = i
    BY <2>1
  <2> QED BY <2>3, <2>4 DEF Good
<1>5. actor'[b].ok /\ (actor'[b].poll \/ actor'[b].verb = "verify") => \A i \in Entries : Good(i)'
    BY <1>1 DEF ActorSound
<1> QED BY <1>1, <1>2, <1>3, <1>4, <1>5 DEF ActorSound

LEMMA JobRebuilt ==
    ASSUME JobInv, PushInv', NEW a \in Actors, NEW c \in ActorRecords, c.verb = actor[a].verb,
           Set(a, c),
           rlock' \in Actors \cup {Nobody}, \A b \in Actors \ {a} : rlock' = b <=> rlock = b,
           jobReceipt' \in [Entries -> EntryRecords],
           \A b \in Actors \ {a} : rlock = b =>
               \A i \in Entries : jobReceipt'[i].state = jobReceipt[i].state,
           UNCHANGED <<head, remote, first>>, dispatching' \subseteq Entries,
           ActorSound(a)', RunnerSound', \A i \in Entries : EntrySound(i)'
    PROVE  JobInv'
<1>1. actor \in [Actors -> ActorRecords]
    BY DEF JobInv, JobMaps
<1>2. /\ actor' \in [Actors -> ActorRecords] /\ actor'[a] = c
      /\ \A b \in Actors \ {a} : actor'[b] = actor[b]
    BY <1>1, SetIs
<1>3. \A i \in Entries : Good(i) => Good(i)'
    BY DEF Good
<1>4. \A b \in Actors : ActorSound(b)'
    BY <1>2, <1>3, OtherActorsKeep
<1>5. \A b \in Actors : actor'[b].verb = actor[b].verb
    BY <1>2
<1>6. JobMaps'
    BY <1>2, <1>5 DEF JobInv, JobMaps
<1>7. \A b \in Actors : actor'[b].at \in Entries \cup {0}
        /\ actor'[b].copy \in [Entries -> EntryRecords]
    BY <1>2 DEF ActorRecords
<1>8. JobTypeOK'
    BY <1>7, JobTyped DEF JobTypeOK, PushInv, EntryRecords
<1> QED BY <1>4, <1>6, <1>8 DEF JobInv

\* A push that is done is done, whatever else happens.
OksStay == \A j \in DOMAIN Before : push[Before[j]].pc = "ok" => push'[Before[j]].pc = "ok"

LEMMA StillOk ==
    ASSUME JobInv, UNCHANGED pushVars
    PROVE  OksStay /\ PushInv'
<1>1. PushInv' /\ push' = push
    BY PushStutters DEF JobInv, pushVars
<1> QED BY <1>1 DEF OksStay

\* Who is past the dispatches has nothing more to say of the runs.
LEMMA RunnerLater ==
    ASSUME JobInv, OksStay, NEW a \in Actors, \A b \in Actors \ {a} : actor'[b] = actor[b],
           actor'[a].pc \notin {"idle", "secrets"} \cup Stepping,
           UNCHANGED <<remote, dispatching>>,
                 \A i \in Entries : jobReceipt'[i].state = jobReceipt[i].state,
           a # Runner /\ actor[Runner].pc = "idle" => UNCHANGED jobReceipt /\ actor'[a].pc = "ended"
    PROVE  RunnerSound'
<1>1. RunnerSound /\ \A i : AtGitHub(i)' <=> AtGitHub(i)
    BY DEF JobInv, AtGitHub
<1>2. CASE a = Runner
    BY <1>1, <1>2 DEF RunnerSound, OksStay, Stepping
<1>3. CASE a # Runner
  <2>1. actor'[Runner] = actor[Runner] /\ actor'[Runner].at = actor[Runner].at
    BY <1>3, Constants
  <2>2. \A i \in Entries : Untouched(i) => Untouched(i)'
    BY <1>1 DEF Untouched
  <2>3. actor[Runner].pc = "idle" =>
          /\ \A i \in Entries : jobReceipt'[i] = NoEntry /\ ~AtGitHub(i)'
          /\ \A b \in Actors : actor'[b].pc \in {"idle", "ended"}
    BY <1>1, <1>3 DEF RunnerSound
  <2>4. actor[Runner].pc \in {"secrets", "next", "marked"} =>
          \A i \in Entries : i >= actor[Runner].at => Untouched(i)'
    BY <1>1, <2>2 DEF RunnerSound
  <2>5. actor[Runner].pc \in {"dispatch", "answer", "known"} =>
          /\ jobReceipt'[actor[Runner].at].state = "unknown_dispatch"
          /\ \A i \in Entries : i > actor[Runner].at => Untouched(i)'
    <3>1. actor[Runner].pc \in {"dispatch", "answer", "known"} => actor[Runner].at \in Entries
      BY Constants DEF JobInv, ActorSound, Stepping
    <3> QED BY <1>1, <2>2, <3>1 DEF RunnerSound
  <2>6. /\ actor[Runner].pc = "dispatch" => ~AtGitHub(actor[Runner].at)'
        /\ actor[Runner].pc = "known" => remote'[actor[Runner].at] # NoRun
    BY <1>1, <2>1 DEF RunnerSound, AtGitHub
  <2>7. actor[Runner].pc \in Stepping \/ (\E i \in Entries : AtGitHub(i)') =>
          \A j \in DOMAIN Before : push'[Before[j]].pc = "ok"
    BY <1>1 DEF RunnerSound, OksStay
  <2> QED BY <2>1, <2>3, <2>4, <2>5, <2>6, <2>7 DEF RunnerSound
<1> QED BY <1>2, <1>3

\* The entries, when a receipt with the same states is written.
LEMMA EntriesKeep ==
    ASSUME JobInv, UNCHANGED <<remote, first, dispatching>>, NEW i \in Entries,
           jobReceipt'[i].state = jobReceipt[i].state, Told(i, jobReceipt'[i])
    PROVE  EntrySound(i)'
<1>1. EntrySound(i)
    BY DEF JobInv
<1>2. Told(i, jobReceipt[i])'
    BY DEF Told, Good
<1> QED BY <1>1, <1>2 DEF EntrySound, AtGitHub

LEMMA EntriesSame ==
    ASSUME JobInv, UNCHANGED <<remote, first, dispatching, jobReceipt>>
    PROVE  \A i \in Entries : EntrySound(i)'
<1>1. \A i \in Entries : Told(i, jobReceipt[i])
    BY DEF JobInv, EntrySound
<1> QED BY <1>1, EntriesKeep

\* Nobody but a watcher that has not begun is about when the runner has not.
LEMMA WhileIdle ==
    ASSUME JobInv, NEW a \in Actors, actor[a].pc \notin {"idle", "ended"}
    PROVE  actor[Runner].pc # "idle"
BY DEF JobInv, RunnerSound

LEMMA PCs == /\ {"idle", "secrets", "look", "lock", "ended"} \cup Stepping \cup Holding = ActorPCs
             /\ {"marked", "known", "entry", "artifact", "saveBad", "save"} = Holding
             /\ {"marked", "dispatch", "answer", "known", "next"} = Stepping
BY DEF ActorPCs, Stepping, Holding

\* A command that ends, well or badly, and holds the lock no more.
LEMMA EndsSound ==
    ASSUME JobInv, NEW a \in Actors, NEW good \in BOOLEAN, Set(a, Ended(a, good)), rlock' # a,
           good /\ (actor[a].poll \/ actor[a].verb = "verify") => \A i \in Entries : Good(i)'
    PROVE  /\ Ended(a, good) \in ActorRecords /\ Ended(a, good).verb = actor[a].verb
           /\ \A b \in Actors \ {a} : actor'[b] = actor[b]
           /\ actor'[a].pc = "ended" /\ ActorSound(a)'
<1>1. actor \in [Actors -> ActorRecords]
    BY DEF JobInv, JobMaps
<1>2. /\ Ended(a, good) \in ActorRecords /\ Ended(a, good).pc = "ended" /\ Ended(a, good).ok = good
      /\ Ended(a, good).verb = actor[a].verb /\ Ended(a, good).poll = actor[a].poll
      /\ \A i \in Entries : Ended(a, good).copy[i] = NoEntry
    BY <1>1, EndedIs
<1>3. actor'[a] = Ended(a, good) /\ \A b \in Actors \ {a} : actor'[b] = actor[b]
    BY <1>1, <1>2, SetIs
<1>4. LockSound(a)'
    BY <1>2, <1>3 DEF LockSound, Holding
<1>5. \A i \in Entries : Told(i, actor[a].copy[i])'
    BY <1>2, <1>3, NoEntryIs DEF Told
<1>6. ActorSound(a)'
    BY <1>2, <1>3, <1>4, <1>5 DEF ActorSound, Stepping, Holding
<1> QED BY <1>2, <1>3, <1>6

\* A command that gives up: the lock, if it had it, is free.
LEMMA FailKeeps ==
    ASSUME JobInv, PushInv', OksStay, NEW a \in Actors, Fails(a),
           rlock' = IF rlock = a THEN Nobody ELSE rlock,
           UNCHANGED <<jobReceipt, head, remote, first, dispatching>>
    PROVE  JobInv'
<1>1. rlock \in Actors \cup {Nobody} /\ Nobody \notin Actors
        /\ jobReceipt \in [Entries -> EntryRecords]
      /\ dispatching \subseteq Entries
    BY JobTyped, Constants
<1>2. rlock' \in Actors \cup {Nobody} /\ rlock' # a
        /\ \A b \in Actors \ {a} : rlock' = b <=> rlock = b
    BY <1>1
<1>3. /\ Ended(a, FALSE) \in ActorRecords /\ Ended(a, FALSE).verb = actor[a].verb
      /\ \A b \in Actors \ {a} : actor'[b] = actor[b]
      /\ actor'[a].pc = "ended" /\ ActorSound(a)' /\ Set(a, Ended(a, FALSE))
    BY <1>2, EndsSound DEF Fails
<1>4. RunnerSound'
    BY <1>3, RunnerLater DEF Stepping
<1>5. \A i \in Entries : EntrySound(i)'
    BY EntriesSame
<1> QED BY <1>1, <1>2, <1>3, <1>4, <1>5, JobRebuilt

-----------------------------------------------------------------------------
(* Jobs: the commands that refresh the receipt *)

\* The lock is taken, and with it the receipt; or the command gives up.
LEMMA TakesSound ==
    ASSUME JobInv, NEW a \in Actors, actor[a].pc \notin Holding, NEW c \in ActorRecords,
           c.pc \in Holding \ {"artifact"}, c.verb = actor[a].verb, c.ok = actor[a].ok,
                 c.at \in Entries,
           c.pc \in Stepping => a = Runner, actor[a].pc # "ended",
           rlock = Nobody, rlock' = a, Set(a, [c EXCEPT !.copy = jobReceipt]),
           UNCHANGED <<jobReceipt, github, pushVars>>, RunnerSound'
    PROVE  JobInv'
<1> DEFINE d == [c EXCEPT !.copy = jobReceipt]
<1>1. jobReceipt \in [Entries -> EntryRecords] /\ dispatching \subseteq Entries
        /\ Nobody \notin Actors
    BY JobTyped, Constants
<1>2. /\ d \in ActorRecords /\ d.pc = c.pc /\ d.verb = c.verb /\ d.poll = c.poll
      /\ d.verify = c.verify /\ d.at = c.at /\ d.copy = jobReceipt /\ d.ok = c.ok
    BY <1>1, CopyIs
<1> HIDE DEF d
<1>3. actor'[a] = d
    BY <1>2, SetIs DEF JobInv, JobMaps, d
<1>4. UNCHANGED <<head, remote, first, dispatching>> /\ OksStay /\ PushInv'
    BY StillOk DEF github
<1>5. ~actor[a].ok
    BY DEF JobInv, ActorSound
<1>6. \A i \in Entries : Told(i, actor[a].copy[i])'
  <2>1. \A i \in Entries : Told(i, jobReceipt[i])
    BY DEF JobInv, EntrySound
  <2> QED BY <1>2, <1>3, <1>4, <2>1 DEF Told, Good
<1>7. ActorSound(a)'
    BY <1>2, <1>3, <1>5, <1>6 DEF ActorSound, LockSound, Holding, Stepping
<1>8. \A i \in Entries : EntrySound(i)'
    BY <1>4, EntriesSame
<1>9. Set(a, d)
    BY DEF d
<1>10. \A b \in Actors \ {a} : rlock' = b <=> rlock = b
    BY <1>1
<1> QED BY <1>1, <1>2, <1>4, <1>7, <1>8, <1>9, <1>10, JobRebuilt

LEMMA TakeFails ==
    ASSUME JobInv, NEW a \in Actors, actor[a].pc \notin Holding, Fails(a), UNCHANGED rlock,
           UNCHANGED <<jobReceipt, github, pushVars>>
    PROVE  JobInv'
<1>1. rlock # a
    BY DEF JobInv, ActorSound, LockSound
<1>2. UNCHANGED <<head, remote, first, dispatching>> /\ OksStay /\ PushInv'
    BY StillOk DEF github
<1> QED BY <1>1, <1>2, FailKeeps

\* A command goes on without touching the lock or the receipt.
LEMMA GoesOn ==
    ASSUME JobInv, NEW a \in Actors, NEW d \in ActorRecords, Set(a, d),
           UNCHANGED <<jobReceipt, rlock, github, pushVars>>,
           d.pc \in ActorPCs \ (Stepping \cup {"idle", "secrets", "ended"}),
           d.pc \in Holding => d.at \in Entries,
           d.pc \in Holding <=> actor[a].pc \in Holding, actor[a].pc # "ended",
           d.verb = actor[a].verb, d.ok = actor[a].ok,
           \A i \in Entries : Told(i, d.copy[i]),
           d.pc \in Holding => \A i \in Entries : d.copy[i].state = actor[a].copy[i].state,
           d.pc = "artifact" => d.at \in Imaged /\ Good(d.at),
           a # Runner => actor[Runner].pc # "idle"
    PROVE  JobInv'
<1>1. actor'[a] = d /\ \A b \in Actors \ {a} : actor'[b] = actor[b]
    BY SetIs DEF JobInv, JobMaps
<1>2. UNCHANGED <<head, remote, first, dispatching>> /\ OksStay /\ PushInv'
    BY StillOk DEF github
<1>3. ActorSound(a) /\ ~actor[a].ok
    BY DEF JobInv, ActorSound
<1>4. LockSound(a)'
    BY <1>1, <1>3 DEF ActorSound, LockSound
<1>5. \A i \in Entries : Told(i, actor[a].copy[i])'
    BY <1>1, <1>2 DEF Told, Good
<1>6. (actor[a].pc = "artifact" => actor[a].at \in Imaged /\ Good(actor[a].at))'
    BY <1>1, <1>2 DEF Good
<1>7. ActorSound(a)'
    BY <1>1, <1>3, <1>4, <1>5, <1>6 DEF ActorSound
<1>8. RunnerSound'
    BY <1>1, <1>2, RunnerLater
<1>9. \A i \in Entries : EntrySound(i)'
    BY <1>2, EntriesSame
<1>10. /\ jobReceipt' \in [Entries -> EntryRecords] /\ rlock' \in Actors \cup {Nobody}
       /\ dispatching' \subseteq Entries
    BY <1>2, JobTyped
<1> QED BY <1>2, <1>7, <1>8, <1>9, <1>10, JobRebuilt

LEMMA LookKeeps == ASSUME JobInv, NEW a \in Actors, Look(a) PROVE JobInv'
<1>1. actor[a].pc \in {"look", "idle"} /\ UNCHANGED <<jobReceipt, rlock, github, pushVars>>
    BY DEF Look
<1>2. CASE jobReceipt[1] = NoEntry
  <2>1. actor[a].pc \notin Holding /\ Fails(a)
    BY <1>1, <1>2 DEF Look, Holding
  <2> QED BY <1>1, <2>1, TakeFails
<1>3. CASE jobReceipt[1] # NoEntry
  <2>1. actor[Runner].pc # "idle"
    BY <1>3, Constants DEF JobInv, RunnerSound
  <2> DEFINE c == Goto(a, "lock")
             d == [c EXCEPT !.copy = jobReceipt]
  <2>2. /\ c \in ActorRecords /\ c.pc = "lock" /\ c.verb = actor[a].verb /\ c.ok = actor[a].ok
    BY ActorTyped, GotoIs, PCs
  <2> HIDE DEF c
  <2>3. /\ d \in ActorRecords /\ d.pc = "lock" /\ d.verb = actor[a].verb /\ d.ok = actor[a].ok
        /\ d.copy = jobReceipt
    BY <2>2, JobTyped, CopyIs
  <2>4. Set(a, d)
    BY <1>3 DEF Look, c
  <2> HIDE DEF d
  <2>5. \A i \in Entries : Told(i, d.copy[i])
    BY <2>3 DEF JobInv, EntrySound
  <2>6. d.pc \in ActorPCs \ (Stepping \cup {"idle", "secrets", "ended"}) /\ d.pc \notin Holding
    BY <2>3 DEF ActorPCs, Stepping, Holding
  <2>7. actor[a].pc \notin Holding \cup {"ended"}
    BY <1>1 DEF Holding
  <2> QED BY <1>1, <2>1, <2>3, <2>4, <2>5, <2>6, <2>7, GoesOn
<1> QED BY <1>2, <1>3

LEMMA TakeReceiptKeeps == ASSUME JobInv, NEW a \in Actors, TakeReceipt(a) PROVE JobInv'
<1> DEFINE g == Goto(a, "entry")
           c == [g EXCEPT !.at = 1]
<1>1. actor[a].pc = "lock" /\ UNCHANGED <<jobReceipt, github, pushVars>> /\ Take(a, c)
    BY DEF TakeReceipt
<1>2. actor[a].pc \notin Holding \cup {"ended", "idle"}
    BY <1>1 DEF Holding
<1>3. /\ g \in ActorRecords /\ g.pc = "entry" /\ g.verb = actor[a].verb /\ g.ok = actor[a].ok
    BY ActorTyped, GotoIs, PCs
<1> HIDE DEF g
<1>4. /\ c \in ActorRecords /\ c.pc = "entry" /\ c.verb = actor[a].verb /\ c.ok = actor[a].ok
        /\ c.at \in Entries
    BY <1>3, Constants, AtIs
<1>5. "entry" \in Holding \ ({"artifact"} \cup Stepping) /\ "entry" \notin Stepping
        \cup {"idle", "secrets"}
    BY DEF Holding, Stepping
<1> HIDE DEF c
<1>6. CASE rlock = Nobody
  <2> DEFINE d == [c EXCEPT !.copy = jobReceipt]
  <2>1. rlock' = a /\ Set(a, d)
    BY <1>1, <1>6 DEF Take
  <2>2. d \in ActorRecords /\ d.pc = "entry"
    BY <1>4, JobTyped, CopyIs
  <2>3. actor'[a].pc = "entry" /\ \A b \in Actors \ {a} : actor'[b] = actor[b]
    BY <2>1, <2>2, SetIs DEF JobInv, JobMaps
  <2>4. RunnerSound'
    BY <1>1, <1>2, <1>5, <2>3, StillOk, RunnerLater, WhileIdle DEF github
  <2> HIDE DEF d
  <2>5. Set(a, [c EXCEPT !.copy = jobReceipt])
    BY <2>1 DEF d
  <2> QED BY <1>1, <1>2, <1>4, <1>5, <1>6, <2>1, <2>4, <2>5, TakesSound
<1>7. CASE rlock # Nobody
  <2>1. Fails(a) /\ UNCHANGED rlock
    BY <1>1, <1>7 DEF Take
  <2> QED BY <1>1, <1>2, <2>1, TakeFails
<1> QED BY <1>6, <1>7

\* What a command reads of a run goes to its copy; states it leaves alone.
LEMMA Reads ==
    ASSUME JobInv, NEW a \in Actors, actor[a].pc \in {"entry", "artifact"}, NEW d \in ActorRecords,
           Set(a, d),
           UNCHANGED <<jobReceipt, rlock, github, pushVars>>,
           d.pc \in {"saveBad", "artifact", "entry", "save"}, d.at \in Entries,
           d.verb = actor[a].verb, d.ok = actor[a].ok,
           \A i \in Entries : Told(i, d.copy[i]) /\ d.copy[i].state = actor[a].copy[i].state,
           d.pc = "artifact" => d.at \in Imaged /\ Good(d.at)
    PROVE  JobInv'
<1>1. d.pc \in ActorPCs \ (Stepping \cup {"idle", "secrets", "ended"}) /\ d.pc \in Holding
    BY DEF ActorPCs, Stepping, Holding
<1>2. actor[a].pc \in Holding /\ actor[a].pc \notin {"idle", "ended"}
    BY DEF Holding
<1>3. actor[Runner].pc # "idle"
    BY <1>2, WhileIdle
<1> QED BY <1>1, <1>2, <1>3, GoesOn

\* The copy with the entry a command is at replaced.
LEMMA PutSound ==
    ASSUME JobInv, NEW a \in Actors, actor[a].at \in Entries, NEW e \in EntryRecords,
           Told(actor[a].at, e), e.state = actor[a].copy[actor[a].at].state
    PROVE  LET c == Put(actor[a], e)
           IN /\ c \in ActorRecords /\ c.pc = actor[a].pc /\ c.verb = actor[a].verb
                 /\ c.at = actor[a].at
              /\ c.ok = actor[a].ok
              /\ \A i \in Entries : Told(i, c.copy[i]) /\ c.copy[i].state = actor[a].copy[i].state
<1> DEFINE c == Put(actor[a], e)
<1>1. /\ c \in ActorRecords /\ c.pc = actor[a].pc /\ c.verb = actor[a].verb /\ c.at = actor[a].at
      /\ c.ok = actor[a].ok /\ c.copy[actor[a].at] = e
      /\ \A i \in Entries \ {actor[a].at} : c.copy[i] = actor[a].copy[i]
    BY ActorTyped, PutIs
<1> HIDE DEF c
<1>2. \A i \in Entries : Told(i, actor[a].copy[i])
    BY DEF JobInv, ActorSound
<1>3. ASSUME NEW i \in Entries PROVE Told(i, c.copy[i]) /\ c.copy[i].state = actor[a].copy[i].state
  <2>1. CASE i = actor[a].at
    BY <1>1, <2>1
  <2>2. CASE i # actor[a].at
    BY <1>1, <1>2, <2>2
  <2> QED BY <2>1, <2>2
<1> QED BY <1>1, <1>3 DEF c

LEMMA ReadEntryKeeps == ASSUME JobInv, NEW a \in Actors, ReadEntry(a) PROVE JobInv'
<1> DEFINE c == actor[a]
           e == IF c.verify THEN [c.copy[c.at] EXCEPT !.verified = FALSE] ELSE c.copy[c.at]
           s == remote[c.at].status
           seen == [e EXCEPT !.status = s, !.verified = @ /\ s = "success"]
           none == [e EXCEPT !.verified = FALSE]
<1>1. c.pc = "entry" /\ UNCHANGED <<jobReceipt, rlock, github, pushVars>>
    BY DEF ReadEntry
<1>2. c.at \in Entries /\ c.pc \in {"entry", "artifact"}
    BY <1>1 DEF JobInv, ActorSound, Holding
<1>3. c.copy[c.at] \in EntryRecords /\ Told(c.at, c.copy[c.at])
    BY <1>2, ActorTyped DEF JobInv, ActorSound
<1>4. e \in EntryRecords /\ Told(c.at, e) /\ e.state = c.copy[c.at].state
  <2>1. CASE c.verify
    <3>1. e = [c.copy[c.at] EXCEPT !.verified = FALSE]
      BY <2>1
    <3>2. e \in EntryRecords /\ e.state = c.copy[c.at].state /\ e.status = c.copy[c.at].status
            /\ e.verified = FALSE
      BY <1>3, <3>1, VerifiedIs
    <3> HIDE DEF e
    <3> QED BY <1>3, <3>2 DEF Told
  <2>2. CASE ~c.verify
    BY <1>3, <2>2
  <2> QED BY <2>1, <2>2
<1> HIDE DEF e
<1>5. none \in EntryRecords /\ Told(c.at, none) /\ none.state = c.copy[c.at].state
    BY <1>4, VerifiedIs DEF Told
<1>6. s \in {"none", "running", "success", "failure"}
    BY <1>2, JobTyped
<1>7. Matches(c.at) /\ s = "success" => Good(c.at)
  <2>1. EntrySound(c.at)
    BY <1>2 DEF JobInv
  <2> QED BY <2>1 DEF EntrySound, Matches, Good
<1>8. Matches(c.at) => seen \in EntryRecords /\ Told(c.at, seen) /\ seen.state = c.copy[c.at].state
  <2>1. seen \in EntryRecords /\ seen.state = e.state /\ seen.status = s
          /\ (seen.verified => e.verified)
    BY <1>4, <1>6, SeenIs
  <2> QED BY <1>4, <1>7, <2>1 DEF Told
<1>p. \A x \in EntryRecords : Told(c.at, x) /\ x.state = c.copy[c.at].state =>
        /\ Put(c, x) \in ActorRecords /\ Put(c, x).pc = c.pc /\ Put(c, x).verb = c.verb
        /\ Put(c, x).at = c.at /\ Put(c, x).ok = c.ok
        /\ \A i \in Entries : Told(i, Put(c, x).copy[i])
              /\ Put(c, x).copy[i].state = c.copy[i].state
    BY <1>2, PutSound
<1>q. \A x \in EntryRecords : Told(c.at, x) /\ x.state = c.copy[c.at].state
        /\ Set(a, Bad(Put(c, x))) => JobInv'
  <2> SUFFICES ASSUME NEW x \in EntryRecords, Told(c.at, x), x.state = c.copy[c.at].state,
          Set(a, Bad(Put(c, x)))
               PROVE  JobInv'
    OBVIOUS
  <2> DEFINE d == Bad(Put(c, x))
  <2>1. /\ d \in ActorRecords /\ d.pc = "saveBad" /\ d.at = c.at /\ d.verb = c.verb /\ d.ok = c.ok
        /\ d.copy = Put(c, x).copy
    BY <1>p, BadIs
  <2>2. \A i \in Entries : Told(i, d.copy[i]) /\ d.copy[i].state = c.copy[i].state
    BY <1>p, <2>1
  <2> HIDE DEF d
  <2>3. Set(a, d)
    BY DEF d
  <2> QED BY <1>1, <1>2, <2>1, <2>2, <2>3, Reads
<1> HIDE DEF seen, none
<1>9. CASE Set(a, Bad(Put(c, e)))
    BY <1>4, <1>9, <1>q
<1>10. CASE Set(a, Bad(Put(c, none)))
    BY <1>5, <1>10, <1>q
<1>11. CASE Matches(c.at) /\ Set(a, Bad(Put(c, seen)))
    BY <1>8, <1>11, <1>q
<1>12. CASE Matches(c.at) /\ Set(a, After(Put(c, seen)))
  <2> DEFINE d == After(Put(c, seen))
  <2>1. /\ d \in ActorRecords /\ d.pc \in {"entry", "save"} /\ d.at \in Entries /\ d.verb = c.verb
          /\ d.ok = c.ok
        /\ d.copy = Put(c, seen).copy
    BY <1>2, <1>8, <1>12, <1>p, AfterIs
  <2>2. \A i \in Entries : Told(i, d.copy[i]) /\ d.copy[i].state = c.copy[i].state
    BY <1>8, <1>12, <1>p, <2>1
  <2> HIDE DEF d
  <2>3. Set(a, d)
    BY <1>12 DEF d
  <2> QED BY <1>1, <1>2, <2>1, <2>2, <2>3, Reads
<1>13. CASE Matches(c.at) /\ c.at \in Imaged /\ s = "success"
        /\ Set(a, [Put(c, seen) EXCEPT !.pc = "artifact"])
  <2> DEFINE f == Put(c, seen)
             d == [f EXCEPT !.pc = "artifact"]
  <2>1. /\ f \in ActorRecords /\ f.pc = c.pc /\ f.verb = c.verb /\ f.at = c.at /\ f.ok = c.ok
        /\ \A i \in Entries : Told(i, f.copy[i]) /\ f.copy[i].state = c.copy[i].state
    BY <1>8, <1>13, <1>p
  <2> HIDE DEF f
  <2>2. d \in ActorRecords /\ d.pc = "artifact" /\ d.at = c.at /\ d.verb = c.verb /\ d.ok = c.ok
          /\ d.copy = f.copy
    BY <2>1, PCs, PcIs
  <2>3. Set(a, d)
    BY <1>13 DEF f
  <2> HIDE DEF d
  <2>4. \A i \in Entries : Told(i, d.copy[i]) /\ d.copy[i].state = c.copy[i].state
    BY <2>1, <2>2
  <2>5. d.at \in Imaged /\ Good(d.at)
    BY <1>7, <1>13, <2>2
  <2> QED BY <1>1, <1>2, <2>2, <2>3, <2>4, <2>5, Reads
<1> QED BY <1>9, <1>10, <1>11, <1>12, <1>13 DEF ReadEntry, e, seen, none

LEMMA VerifyArtifactKeeps == ASSUME JobInv, NEW a \in Actors, VerifyArtifact(a) PROVE JobInv'
<1> DEFINE c == actor[a]
           e == [c.copy[c.at] EXCEPT !.verified = TRUE]
<1>1. c.pc = "artifact" /\ UNCHANGED <<jobReceipt, rlock, github, pushVars>>
    BY DEF VerifyArtifact
<1>2. c.at \in Entries /\ c.pc \in {"entry", "artifact"} /\ c.at \in Imaged /\ Good(c.at)
        /\ c \in ActorRecords
    BY <1>1, ActorTyped DEF JobInv, ActorSound, Holding
<1>3. c.copy[c.at] \in EntryRecords /\ \A i \in Entries : Told(i, c.copy[i])
    BY <1>2, ActorTyped DEF JobInv, ActorSound
<1>4. e \in EntryRecords /\ Told(c.at, e) /\ e.state = c.copy[c.at].state
    BY <1>2, <1>3, VerifiedIs DEF Told
<1> HIDE DEF e
<1>5. CASE Set(a, Bad(c))
  <2> DEFINE d == Bad(c)
  <2>1. /\ d \in ActorRecords /\ d.pc = "saveBad" /\ d.at = c.at /\ d.verb = c.verb /\ d.ok = c.ok
          /\ d.copy = c.copy
    BY <1>2, BadIs
  <2> HIDE DEF d
  <2>2. Set(a, d)
    BY <1>5 DEF d
  <2> QED BY <1>1, <1>2, <1>3, <2>1, <2>2, Reads
<1>6. CASE Set(a, After(Put(c, e)))
  <2> DEFINE f == Put(c, e)
             d == After(f)
  <2>1. /\ f \in ActorRecords /\ f.verb = c.verb /\ f.at = c.at /\ f.ok = c.ok
        /\ \A i \in Entries : Told(i, f.copy[i]) /\ f.copy[i].state = c.copy[i].state
    BY <1>2, <1>4, PutSound
  <2> HIDE DEF f
  <2>2. /\ d \in ActorRecords /\ d.pc \in {"entry", "save"} /\ d.at \in Entries /\ d.verb = c.verb
          /\ d.ok = c.ok
        /\ d.copy = f.copy
    BY <1>2, <2>1, AfterIs
  <2>3. Set(a, d)
    BY <1>6 DEF f
  <2> HIDE DEF d
  <2> QED BY <1>1, <1>2, <2>1, <2>2, <2>3, Reads
<1> QED BY <1>5, <1>6 DEF VerifyArtifact, e

\* The receipt is replaced by entries that tell the truth, and the lock is free.
LEMMA CopyWritten ==
    ASSUME JobInv, NEW a \in Actors, actor[a].pc \in {"save", "saveBad"},
           jobReceipt' \in {jobReceipt, actor[a].copy}
    PROVE  /\ jobReceipt' \in [Entries -> EntryRecords]
           /\ \A i \in Entries : jobReceipt'[i].state = jobReceipt[i].state
                 /\ Told(i, jobReceipt'[i])
<1>1. ActorSound(a) /\ actor[a].pc \in Holding
    BY DEF JobInv, Holding
<1>2. \A i \in Entries : Told(i, jobReceipt[i])
    BY DEF JobInv, EntrySound
<1>3. CASE jobReceipt' = jobReceipt
    BY <1>2, <1>3, JobTyped
<1>4. CASE jobReceipt' = actor[a].copy
    BY <1>1, <1>4, ActorTyped DEF ActorSound, LockSound
<1> QED BY <1>3, <1>4

\* A command that writes its copy goes on to c.
LEMMA Saved ==
    ASSUME JobInv, NEW a \in Actors, actor[a].pc \in {"save", "saveBad"}, rlock' = Nobody,
           jobReceipt' \in {jobReceipt, actor[a].copy}, NEW c \in ActorRecords, Set(a, c),
           UNCHANGED <<github, pushVars>>, c.verb = actor[a].verb, c.pc \in {"look", "ended"},
                 ActorSound(a)'
    PROVE  JobInv'
<1>1. /\ jobReceipt' \in [Entries -> EntryRecords]
      /\ \A i \in Entries : jobReceipt'[i].state = jobReceipt[i].state /\ Told(i, jobReceipt'[i])
    BY CopyWritten
<1>2. UNCHANGED <<head, remote, first, dispatching>> /\ OksStay /\ PushInv'
    BY StillOk DEF github
<1>3. \A i \in Entries : EntrySound(i)'
    BY <1>1, <1>2, EntriesKeep
<1>4. actor'[a] = c /\ \A b \in Actors \ {a} : actor'[b] = actor[b]
    BY SetIs DEF JobInv, JobMaps
<1>5. actor[Runner].pc # "idle"
    BY WhileIdle
<1>6. RunnerSound'
    BY <1>1, <1>2, <1>4, <1>5, RunnerLater DEF Stepping
<1>7. rlock = a
    BY DEF JobInv, ActorSound, LockSound, Holding
<1>8. \A b \in Actors \ {a} : rlock' = b <=> rlock = b
    BY <1>7, Constants
<1>9. dispatching' \subseteq Entries /\ rlock' \in Actors \cup {Nobody}
    BY <1>2, JobTyped
<1> QED BY <1>1, <1>2, <1>3, <1>6, <1>8, <1>9, JobRebuilt

LEMMA SavedEnds ==
    ASSUME JobInv, NEW a \in Actors, actor[a].pc \in {"save", "saveBad"}, rlock' = Nobody,
           jobReceipt' \in {jobReceipt, actor[a].copy}, NEW good \in BOOLEAN,
                 Set(a, Ended(a, good)),
           UNCHANGED <<github, pushVars>>,
           good /\ (actor[a].poll \/ actor[a].verb = "verify") => \A i \in Entries : Good(i)
    PROVE  JobInv'
<1>1. rlock' # a /\ UNCHANGED <<remote, first>>
    BY Constants DEF github
<1>2. good /\ (actor[a].poll \/ actor[a].verb = "verify") => \A i \in Entries : Good(i)'
    BY <1>1 DEF Good
<1>3. Ended(a, good) \in ActorRecords /\ Ended(a, good).verb = actor[a].verb /\ ActorSound(a)'
    BY <1>1, <1>2, EndsSound
<1>4. Ended(a, good).pc \in {"look", "ended"}
    BY ActorTyped, EndedIs
<1> QED BY <1>3, <1>4, Saved

LEMMA SaveBadKeeps == ASSUME JobInv, NEW a \in Actors, SaveBad(a) PROVE JobInv'
<1>1. actor[a].pc = "saveBad" /\ UNCHANGED <<github, pushVars>>
        /\ SaveReceipt(a, actor[a].copy, Ended(a, FALSE))
    BY DEF SaveBad
<1>2. rlock' = Nobody /\ jobReceipt' \in {jobReceipt, actor[a].copy} /\ Set(a, Ended(a, FALSE))
    BY <1>1 DEF SaveReceipt, Fails
<1> QED BY <1>1, <1>2, SavedEnds

LEMMA VerdictSound ==
    ASSUME JobInv, NEW a \in Actors, "ok" \in Verdict(actor[a]),
           actor[a].poll \/ actor[a].verb = "verify"
    PROVE  \A i \in Entries : Good(i)
<1>1. AllSucceeded(actor[a].copy)
  <2>1. CASE actor[a].poll /\ AllComplete(actor[a].copy)
    BY <2>1 DEF Verdict
  <2>2. CASE actor[a].poll /\ ~AllComplete(actor[a].copy)
    BY <2>2 DEF Verdict
  <2>3. CASE ~actor[a].poll /\ actor[a].verb = "verify"
    BY <2>3 DEF Verdict
  <2> QED BY <2>1, <2>2, <2>3
<1> QED BY <1>1 DEF AllSucceeded, JobInv, ActorSound, Told

LEMMA SaveEntriesKeeps == ASSUME JobInv, NEW a \in Actors, SaveEntries(a) PROVE JobInv'
<1> DEFINE g == Goto(a, "look")
           d == [g EXCEPT !.copy = [i \in Entries |-> NoEntry]]
<1>1. PICK v \in Verdict(actor[a]) :
         SaveReceipt(a, actor[a].copy, IF v = "again" THEN d ELSE Ended(a, v = "ok"))
    BY DEF SaveEntries
<1>2. actor[a].pc = "save" /\ UNCHANGED <<github, pushVars>>
    BY DEF SaveEntries
<1>3. rlock' = Nobody /\ jobReceipt' \in {jobReceipt, actor[a].copy}
    BY <1>1 DEF SaveReceipt
<1>4. CASE Fails(a)
    BY <1>2, <1>3, <1>4, SavedEnds DEF Fails
<1>5. CASE v = "again" /\ Set(a, d)
  <2>1. /\ g \in ActorRecords /\ g.pc = "look" /\ g.verb = actor[a].verb /\ g.ok = actor[a].ok
    BY ActorTyped, GotoIs, PCs
  <2> HIDE DEF g
  <2> DEFINE blank == [i \in Entries |-> NoEntry]
  <2>2. blank \in [Entries -> EntryRecords] /\ \A i \in Entries : blank[i] = NoEntry
    BY NoEntryIs
  <2> HIDE DEF blank
  <2>d. d = [g EXCEPT !.copy = blank]
    BY DEF blank
  <2> HIDE DEF d
  <2>3. /\ d \in ActorRecords /\ d.pc = "look" /\ d.verb = actor[a].verb /\ d.ok = actor[a].ok
        /\ \A i \in Entries : d.copy[i] = NoEntry
    BY <2>1, <2>2, <2>d, CopyIs
  <2>4. actor'[a] = d /\ ~actor[a].ok
    BY <1>2, <1>5, <2>3, SetIs DEF JobInv, JobMaps, ActorSound
  <2>5. \A i \in Entries : Told(i, actor[a].copy[i])'
    BY <2>3, <2>4, NoEntryIs DEF Told
  <2>6. LockSound(a)'
    BY <1>3, <2>3, <2>4, Constants DEF LockSound, Holding
  <2>7. ActorSound(a)'
    BY <2>3, <2>4, <2>5, <2>6 DEF ActorSound, Stepping, Holding
  <2> QED BY <1>2, <1>3, <1>5, <2>3, <2>7, Saved
<1>6. CASE v # "again" /\ Set(a, Ended(a, v = "ok"))
  <2>1. CASE v = "ok"
    <3>1. (v = "ok") = TRUE
      BY <2>1
    <3>2. Set(a, Ended(a, TRUE))
      BY <1>6, <3>1
    <3> QED BY <1>2, <1>3, <2>1, <3>2, VerdictSound, SavedEnds
  <2>2. CASE v # "ok"
    <3>1. (v = "ok") = FALSE
      BY <2>2
    <3>2. Set(a, Ended(a, FALSE))
      BY <1>6, <3>1
    <3> QED BY <1>2, <1>3, <3>2, SavedEnds
  <2> QED BY <2>1, <2>2
<1> QED BY <1>1, <1>4, <1>5, <1>6 DEF SaveReceipt

-----------------------------------------------------------------------------
(* Jobs: job run *)

\* What the runner's record says of the runs, when it goes on.
LEMMA RunnerIs ==
    ASSUME JobInv
    PROVE  /\ RunnerSound /\ ActorSound(Runner) /\ actor[Runner] \in ActorRecords
           /\ actor[Runner].verb = "run"
           /\ actor[Runner].pc \in Stepping \cup {"secrets"} => actor[Runner].at \in Entries
                 /\ ~actor[Runner].ok
           /\ \A i \in Entries : EntrySound(i)
<1>1. RunnerSound /\ ActorSound(Runner) /\ actor[Runner] \in ActorRecords
        /\ actor[Runner].verb = "run"
    BY Constants, ActorTyped DEF JobInv, JobMaps
<1>2. actor[Runner].pc \in Stepping \cup {"secrets"} => ~actor[Runner].ok
    BY <1>1 DEF ActorSound, Stepping
<1>3. actor[Runner].pc \in Stepping \cup {"secrets"} => actor[Runner].at \in Entries
    BY <1>1 DEF ActorSound
<1> QED BY <1>1, <1>2, <1>3 DEF JobInv

LEMMA CreateReceiptKeeps == ASSUME JobInv, CreateReceipt PROVE JobInv'
<1> DEFINE e == [NoEntry EXCEPT !.state = "not_started"]
           fresh == [i \in Entries |-> e]
           g == Goto(Runner, "secrets")
           c == [g EXCEPT !.at = 1]
<1>1. actor[Runner].pc = "idle" /\ UNCHANGED <<rlock, github, pushVars>>
    BY DEF CreateReceipt
<1>2. e \in EntryRecords /\ e.state = "not_started" /\ e.status = "none" /\ e.verified = FALSE
    BY NoEntryIs, StateIs
<1> HIDE DEF e
<1>3. /\ \A i \in Entries : jobReceipt[i] = NoEntry /\ ~AtGitHub(i)
      /\ \A a \in Actors : actor[a].pc \in {"idle", "ended"}
      /\ Runner \in Actors /\ ~actor[Runner].ok
    BY <1>1, RunnerIs, Constants DEF RunnerSound, ActorSound
<1>4. UNCHANGED <<head, remote, first, dispatching>> /\ OksStay /\ PushInv'
    BY <1>1, StillOk DEF github
<1>5. \A b \in Actors : rlock # b
    BY <1>3 DEF JobInv, ActorSound, LockSound, Holding
<1>6. CASE jobReceipt' \in {jobReceipt, fresh}
  <2>1. jobReceipt' \in [Entries -> EntryRecords]
    BY <1>2, <1>6, JobTyped
  <2>2. \A i \in Entries : EntrySound(i)'
    <3>1. ASSUME NEW i \in Entries PROVE EntrySound(i)'
      <4>1. EntrySound(i) /\ ~AtGitHub(i)' /\ jobReceipt'[i] \in {NoEntry, e}
        BY <1>3, <1>4, <1>6, RunnerIs DEF AtGitHub
      <4>2. Told(i, jobReceipt[i])' /\ jobReceipt'[i].state # "dispatched"
        BY <1>2, <4>1, NoEntryIs DEF Told
      <4> QED BY <1>4, <4>1, <4>2 DEF EntrySound
    <3> QED BY <3>1
  <2>3. CASE Fails(Runner)
    <3>1. /\ Ended(Runner, FALSE) \in ActorRecords /\ Ended(Runner, FALSE).verb = actor[Runner].verb
          /\ actor'[Runner].pc = "ended" /\ ActorSound(Runner)' /\ Set(Runner, Ended(Runner, FALSE))
      BY <1>1, <1>3, <1>5, <2>3, EndsSound DEF Fails
    <3>2. RunnerSound'
      BY <1>3, <1>4, <3>1 DEF RunnerSound, Stepping, AtGitHub
    <3>3. dispatching' \subseteq Entries /\ rlock' \in Actors \cup {Nobody}
      BY <1>1, <1>4, JobTyped
    <3> QED BY <1>1, <1>3, <1>4, <1>5, <2>1, <2>2, <3>1, <3>2, <3>3, JobRebuilt
  <2>4. CASE jobReceipt' = fresh /\ Set(Runner, c)
    <3>1. /\ g \in ActorRecords /\ g.pc = "secrets" /\ g.verb = actor[Runner].verb
            /\ g.ok = actor[Runner].ok
          /\ g.copy = actor[Runner].copy
      BY <1>3, ActorTyped, GotoIs, PCs
    <3> HIDE DEF g
    <3>2. /\ c \in ActorRecords /\ c.pc = "secrets" /\ c.verb = actor[Runner].verb
            /\ c.ok = actor[Runner].ok
          /\ c.copy = actor[Runner].copy /\ c.at = 1
      BY <3>1, Constants, AtIs
    <3> HIDE DEF c
    <3>3. actor'[Runner] = c
      BY <1>3, <2>4, <3>2, SetIs DEF JobInv, JobMaps
    <3>4. \A i \in Entries : Told(i, actor[Runner].copy[i])'
      BY <1>4, <3>2, <3>3, RunnerIs DEF ActorSound, Told, Good
    <3>5. LockSound(Runner)'
      BY <1>1, <1>3, <1>5, <3>2, <3>3 DEF LockSound, Holding
    <3>6. ActorSound(Runner)'
      BY <1>3, <3>2, <3>3, <3>4, <3>5, Constants DEF ActorSound, Stepping, Holding
    <3>7. \A i \in Entries : Untouched(i)'
      BY <1>2, <1>3, <1>4, <2>4 DEF Untouched, AtGitHub
    <3>8. RunnerSound'
      BY <1>3, <1>4, <3>2, <3>3, <3>7 DEF RunnerSound, Stepping, AtGitHub
    <3>9. dispatching' \subseteq Entries /\ rlock' \in Actors \cup {Nobody}
      BY <1>1, <1>4, JobTyped
    <3> QED BY <1>1, <1>3, <1>4, <1>5, <2>1, <2>2, <2>4, <3>2, <3>6, <3>8, <3>9, JobRebuilt
  <2> QED BY <1>6, <2>3, <2>4 DEF CreateReceipt, e
<1> QED BY <1>6 DEF CreateReceipt, e

\* A push of the job begins, goes on or has failed.
LEMMA PushSecretsKeeps == ASSUME JobInv, PushSecrets PROVE
    \/ JobInv'
    \/ (\E p \in Pushes : Invoke(p) \/ Pushing(p)) /\ UNCHANGED jobVars
<1>1. Pending # {} /\ Pending \subseteq DOMAIN Before
    BY DEF PushSecrets, Pending
<1>2. Pending \in SUBSET Int /\ IsFiniteSet(Pending)
    BY <1>1, Constants, FS_Subset
<1>3. Min(Pending) \in DOMAIN Before
    BY <1>1, <1>2, Least
<1>4. Before[Min(Pending)] \in Pushes
    BY <1>3, Constants
<1>5. CASE Fails(Runner) /\ UNCHANGED <<pushVars, jobReceipt, rlock, github>>
  <2>1. Runner \in Actors /\ actor[Runner].pc \notin Holding
    BY Constants DEF PushSecrets, Holding
  <2> QED BY <1>5, <2>1, TakeFails
<1> QED BY <1>4, <1>5 DEF PushSecrets

\* The runner takes the lock on its way to pc.
LEMMA RunnerTakes ==
    ASSUME JobInv, NEW pc \in {"marked", "known"}, Take(Runner, Goto(Runner, pc)),
           UNCHANGED <<jobReceipt, github, pushVars>>,
                 actor[Runner].pc \in {"secrets", "next", "answer"},
           pc = "marked" => /\ \A i \in Entries : i >= actor[Runner].at => Untouched(i)
                            /\ \A j \in DOMAIN Before : push[Before[j]].pc = "ok",
           pc = "known" => actor[Runner].pc = "answer" /\ remote[actor[Runner].at] # NoRun
    PROVE  JobInv'
<1> DEFINE c == Goto(Runner, pc)
<1>1. actor[Runner].pc \notin Holding \cup {"ended"} /\ actor[Runner].pc \in Stepping
        \cup {"secrets"} /\ Runner \in Actors
    BY Constants DEF Holding, Stepping
<1>2. actor[Runner].at \in Entries
    BY <1>1, RunnerIs
<1>3. pc \in ActorPCs /\ pc \in Holding \ {"artifact"} /\ pc \in Stepping
    BY DEF ActorPCs, Holding, Stepping
<1>4. /\ c \in ActorRecords /\ c.pc = pc /\ c.verb = actor[Runner].verb /\ c.ok = actor[Runner].ok
      /\ c.at = actor[Runner].at
    BY <1>1, <1>3, ActorTyped, GotoIs
<1>5. Take(Runner, c)
    OBVIOUS
<1> HIDE DEF c
<1>6. CASE rlock = Nobody
  <2> DEFINE d == [c EXCEPT !.copy = jobReceipt]
  <2>1. rlock' = Runner /\ Set(Runner, d)
    BY <1>5, <1>6 DEF Take
  <2>2. d \in ActorRecords /\ d.pc = pc /\ d.at = actor[Runner].at
    BY <1>4, JobTyped, CopyIs
  <2> HIDE DEF d
  <2>3. actor'[Runner].pc = pc /\ actor'[Runner].at = actor[Runner].at
    BY <1>1, <2>1, <2>2, SetIs DEF JobInv, JobMaps
  <2>4. UNCHANGED <<head, remote, first, dispatching, jobReceipt>> /\ push' = push
    BY DEF github, pushVars
  <2>5. RunnerSound'
    <3>1. CASE pc = "marked"
      BY <2>3, <2>4, <3>1 DEF RunnerSound, Untouched, AtGitHub, Stepping
    <3>2. CASE pc = "known"
      <4>1. /\ jobReceipt[actor[Runner].at].state = "unknown_dispatch"
            /\ \A i \in Entries : i > actor[Runner].at => Untouched(i)
            /\ \A j \in DOMAIN Before : push[Before[j]].pc = "ok"
        BY <3>2, RunnerIs DEF RunnerSound, Stepping
      <4> QED BY <2>3, <2>4, <3>2, <4>1 DEF RunnerSound, Untouched, AtGitHub, Stepping
    <3> QED BY <3>1, <3>2
  <2>6. Set(Runner, [c EXCEPT !.copy = jobReceipt])
    BY <2>1 DEF d
  <2> QED BY <1>1, <1>2, <1>3, <1>4, <1>6, <2>1, <2>5, <2>6, TakesSound
<1>7. CASE rlock # Nobody
  <2>1. Fails(Runner) /\ UNCHANGED rlock
    BY <1>5, <1>7 DEF Take
  <2> QED BY <1>1, <2>1, TakeFails
<1> QED BY <1>6, <1>7

LEMMA MarkEntryKeeps == ASSUME JobInv, MarkEntry PROVE JobInv'
<1>1. /\ actor[Runner].pc \in {"secrets", "next"} /\ UNCHANGED <<jobReceipt, github, pushVars>>
      /\ Take(Runner, Goto(Runner, "marked"))
    BY DEF MarkEntry
<1>2. \A i \in Entries : i >= actor[Runner].at => Untouched(i)
    BY <1>1, RunnerIs DEF RunnerSound
<1>3. \A j \in DOMAIN Before : push[Before[j]].pc = "ok"
    BY RunnerIs DEF MarkEntry, SecretsDone, Pending, RunnerSound, Stepping
<1> QED BY <1>1, <1>2, <1>3, RunnerTakes

LEMMA AnswerKeeps == ASSUME JobInv, Answer PROVE JobInv'
BY RunnerTakes DEF Answer

LEMMA NoAnswerKeeps == ASSUME JobInv, NoAnswer PROVE JobInv'
<1>1. Runner \in Actors /\ actor[Runner].pc \notin Holding
    BY Constants DEF NoAnswer, Holding
<1> QED BY <1>1, TakeFails DEF NoAnswer

LEMMA DispatchKeeps == ASSUME JobInv, Dispatch PROVE JobInv'
<1> DEFINE n == actor[Runner].at
           c == Goto(Runner, "answer")
<1>1. /\ actor[Runner].pc = "dispatch" /\ dispatching' = dispatching \cup {n} /\ Set(Runner, c)
      /\ UNCHANGED <<jobReceipt, rlock, head, remote, first, pushVars>>
    BY DEF Dispatch
<1>2. /\ n \in Entries /\ ~actor[Runner].ok /\ jobReceipt[n].state = "unknown_dispatch"
        /\ ~AtGitHub(n)
      /\ \A i \in Entries : i > n => Untouched(i)
      /\ \A j \in DOMAIN Before : push[Before[j]].pc = "ok"
    BY <1>1, RunnerIs DEF RunnerSound, Stepping
<1>3. /\ c \in ActorRecords /\ c.pc = "answer" /\ c.verb = actor[Runner].verb
        /\ c.ok = actor[Runner].ok
      /\ c.at = n /\ c.copy = actor[Runner].copy
    BY Constants, ActorTyped, GotoIs, PCs
<1> HIDE DEF c
<1>4. actor'[Runner] = c /\ Runner \in Actors
    BY <1>1, <1>3, Constants, SetIs DEF JobInv, JobMaps
<1>5. PushInv' /\ push' = push
    BY <1>1, StillOk DEF pushVars
<1>6. PICK m \in Entries : m = n
    BY <1>2
<1>7. \A i \in Entries : EntrySound(i)'
  <2>1. ASSUME NEW i \in Entries PROVE EntrySound(i)'
    <3>1. EntrySound(i)
      BY RunnerIs
    <3>2. Told(i, jobReceipt[i])'
      BY <1>1, <3>1 DEF EntrySound, Told, Good
    <3>3. i \in dispatching' => i \in dispatching \/ i = m
      BY <1>1, <1>6
    <3>4. remote[m] = NoRun /\ jobReceipt[m].state = "unknown_dispatch"
      BY <1>2, <1>6 DEF AtGitHub
    <3> QED BY <1>1, <3>1, <3>2, <3>3, <3>4 DEF EntrySound, AtGitHub
  <2> QED BY <2>1
<1>8. LockSound(Runner)'
  <2>1. rlock # Runner
    BY <1>1, RunnerIs DEF ActorSound, LockSound, Holding
  <2> QED BY <1>1, <1>3, <1>4, <2>1 DEF LockSound, Holding
<1>9. \A i \in Entries : Told(i, actor[Runner].copy[i])'
  BY <1>1, <1>3, <1>4, RunnerIs DEF ActorSound, Told, Good
<1>10. ActorSound(Runner)'
  BY <1>2, <1>3, <1>4, <1>8, <1>9 DEF ActorSound
<1>11. \A i \in Entries : i > m => Untouched(i)'
  <2>1. ASSUME NEW i \in Entries, i > m PROVE Untouched(i)'
    <3>1. i # m /\ Untouched(i)
      BY <1>2, <1>6, <2>1, Constants
    <3>2. i \notin dispatching'
      BY <1>1, <1>6, <3>1 DEF Untouched, AtGitHub
    <3> QED BY <1>1, <3>1, <3>2 DEF Untouched, AtGitHub
  <2> QED BY <2>1
<1>12. actor'[Runner].pc = "answer" /\ actor'[Runner].at = m
        /\ jobReceipt'[m].state = "unknown_dispatch"
  BY <1>1, <1>2, <1>3, <1>4, <1>6
<1>13. RunnerSound'
  BY <1>2, <1>5, <1>11, <1>12 DEF RunnerSound
<1>14. /\ dispatching' \subseteq Entries /\ rlock' \in Actors \cup {Nobody}
       /\ jobReceipt' \in [Entries -> EntryRecords]
  BY <1>1, <1>2, JobTyped
<1> QED BY <1>1, <1>3, <1>4, <1>5, <1>7, <1>10, <1>13, <1>14, JobRebuilt

\* The copy of the runner with a new state for the entry it is at.
Stated(s) == [actor[Runner].copy EXCEPT ![actor[Runner].at].state = s]

LEMMA StatedIs ==
    ASSUME JobInv, actor[Runner].pc \in {"marked", "known"},
           NEW s \in {"unknown_dispatch", "dispatched"},
           jobReceipt' \in {jobReceipt, Stated(s)}
    PROVE  /\ jobReceipt' \in [Entries -> EntryRecords]
           /\ \A i \in Entries : Told(i, jobReceipt'[i])
           /\ \A i \in Entries \ {actor[Runner].at} : jobReceipt'[i].state = jobReceipt[i].state
           /\ actor[Runner].at \in Entries
           /\ jobReceipt'[actor[Runner].at].state \in {s, jobReceipt[actor[Runner].at].state}
           /\ jobReceipt' = Stated(s) => jobReceipt'[actor[Runner].at].state = s
<1> DEFINE n == actor[Runner].at
           copy == actor[Runner].copy
           e == [copy[n] EXCEPT !.state = s]
<1>1. /\ n \in Entries /\ copy \in [Entries -> EntryRecords]
      /\ \A i \in Entries : Told(i, copy[i]) /\ copy[i].state = jobReceipt[i].state
    BY RunnerIs, ActorTyped, Constants DEF ActorSound, LockSound, Holding, Stepping
<1>r. copy[n] \in EntryRecords /\ s \in {"none", "not_started", "unknown_dispatch", "dispatched"}
    BY <1>1
<1>2. e \in EntryRecords /\ e.state = s /\ e.status = copy[n].status
        /\ e.verified = copy[n].verified
    BY <1>r, StateIs
<1>3. Stated(s) = [copy EXCEPT ![n] = e]
    BY <1>1 DEF Stated
<1> HIDE DEF e
<1>4. Told(n, e)
    BY <1>1, <1>2 DEF Told
<1>5. \A i \in Entries : Told(i, jobReceipt[i])
    BY RunnerIs DEF EntrySound
<1>6. CASE jobReceipt' = Stated(s)
  <2>1. jobReceipt'[n] = e /\ \A i \in Entries \ {n} : jobReceipt'[i] = copy[i]
    BY <1>1, <1>3, <1>6
  <2>2. jobReceipt' \in [Entries -> EntryRecords]
    BY <1>1, <1>2, <1>3, <1>6
  <2>3. \A i \in Entries : Told(i, jobReceipt'[i])
    BY <1>1, <1>4, <2>1
  <2> QED BY <1>1, <1>2, <2>1, <2>2, <2>3
<1>7. CASE jobReceipt' = jobReceipt
  <2>1. jobReceipt' = Stated(s) => jobReceipt[n].state = s
    BY <1>1, <1>2, <1>3, <1>7
  <2> QED BY <1>1, <1>5, <1>7, <2>1, JobTyped
<1> QED BY <1>6, <1>7

LEMMA RunnerSaves ==
    ASSUME JobInv, actor[Runner].pc \in {"marked", "known"},
           NEW s \in {"unknown_dispatch", "dispatched"},
           jobReceipt' \in {jobReceipt, Stated(s)}, rlock' = Nobody, UNCHANGED <<github, pushVars>>,
           NEW c \in ActorRecords, c.verb = actor[Runner].verb, Set(Runner, c),
           s = "dispatched" => remote[actor[Runner].at] # NoRun,
           ActorSound(Runner)', RunnerSound'
    PROVE  JobInv'
<1>1. /\ jobReceipt' \in [Entries -> EntryRecords] /\ \A i \in Entries : Told(i, jobReceipt'[i])
      /\ \A i \in Entries \ {actor[Runner].at} : jobReceipt'[i].state = jobReceipt[i].state
      /\ jobReceipt'[actor[Runner].at].state \in {s, jobReceipt[actor[Runner].at].state}
    BY StatedIs
<1>2. UNCHANGED <<head, remote, first, dispatching>> /\ PushInv'
    BY StillOk DEF github
<1>3. ASSUME NEW i \in Entries PROVE EntrySound(i)'
  <2>1. EntrySound(i) /\ Told(i, jobReceipt[i])'
    BY <1>1, <1>2, RunnerIs DEF Told, Good
  <2>2. jobReceipt'[i].state = jobReceipt[i].state \/ (jobReceipt'[i].state = s
          /\ i = actor[Runner].at)
    BY <1>1
  <2> QED BY <1>2, <2>1, <2>2 DEF EntrySound, AtGitHub
<1>4. rlock = Runner /\ Runner \in Actors
    BY RunnerIs, Constants DEF ActorSound, LockSound, Holding
<1>5. \A b \in Actors \ {Runner} : (rlock' = b <=> rlock = b) /\ rlock # b
    BY <1>4, Constants
<1>6. dispatching' \subseteq Entries /\ rlock' \in Actors \cup {Nobody}
    BY <1>2, JobTyped
<1> QED BY <1>1, <1>2, <1>3, <1>4, <1>5, <1>6, JobRebuilt

\* The runner writes what it can and ends.
LEMMA RunnerSavesEnds ==
    ASSUME JobInv, actor[Runner].pc \in {"marked", "known"},
           NEW s \in {"unknown_dispatch", "dispatched"},
           jobReceipt' \in {jobReceipt, Stated(s)}, rlock' = Nobody, UNCHANGED <<github, pushVars>>,
           NEW good \in BOOLEAN, Set(Runner, Ended(Runner, good)), good => ~actor[Runner].poll,
           s = "dispatched" => remote[actor[Runner].at] # NoRun
    PROVE  JobInv'
<1>1. Runner \in Actors /\ actor[Runner].verb # "verify" /\ rlock' # Runner
    BY Constants, RunnerIs
<1>2. /\ Ended(Runner, good) \in ActorRecords /\ Ended(Runner, good).verb = actor[Runner].verb
      /\ actor'[Runner].pc = "ended" /\ ActorSound(Runner)'
    BY <1>1, EndsSound
<1>3. \A j \in DOMAIN Before : push'[Before[j]].pc = "ok"
    BY RunnerIs DEF RunnerSound, Stepping, pushVars
<1>4. RunnerSound'
    BY <1>2, <1>3 DEF RunnerSound, Stepping
<1> QED BY <1>2, <1>4, RunnerSaves

\* The runner writes and goes on to c, with the lock free.
LEMMA RunnerGoesOn ==
    ASSUME JobInv, actor[Runner].pc \in {"marked", "known"}, NEW c \in ActorRecords, Set(Runner, c),
           rlock' = Nobody, UNCHANGED <<remote, first>>, c.pc \in {"dispatch", "next", "look"},
           c.at \in Entries, c.copy = actor[Runner].copy, c.ok = actor[Runner].ok
    PROVE  actor'[Runner] = c /\ ActorSound(Runner)'
<1>1. Runner \in Actors /\ ~actor[Runner].ok
    BY Constants, RunnerIs DEF Stepping
<1>2. actor'[Runner] = c
    BY <1>1, SetIs DEF JobInv, JobMaps
<1>3. LockSound(Runner)'
    BY <1>1, <1>2, Constants DEF LockSound, Holding
<1>4. \A i \in Entries : Told(i, actor[Runner].copy[i])'
    BY <1>2, RunnerIs DEF ActorSound, Told, Good
<1>5. ActorSound(Runner)'
    BY <1>1, <1>2, <1>3, <1>4 DEF ActorSound
<1> QED BY <1>2, <1>5

LEMMA SaveUnknownKeeps == ASSUME JobInv, SaveUnknown PROVE JobInv'
<1> DEFINE n == actor[Runner].at
           c == Goto(Runner, "dispatch")
           s == "unknown_dispatch"
<1>1. actor[Runner].pc = "marked" /\ UNCHANGED <<github, pushVars>>
        /\ SaveReceipt(Runner, Stated(s), c)
    BY DEF SaveUnknown, Stated
<1>2. rlock' = Nobody /\ jobReceipt' \in {jobReceipt, Stated(s)}
        /\ s \in {"unknown_dispatch", "dispatched"}
    BY <1>1 DEF SaveReceipt
<1>s. s # "dispatched"
    OBVIOUS
<1>3. CASE Fails(Runner)
    BY <1>1, <1>2, <1>3, <1>s, RunnerSavesEnds DEF Fails
<1>4. CASE jobReceipt' = Stated(s) /\ Set(Runner, c)
  <2>1. /\ \A i \in Entries : i >= n => Untouched(i)
        /\ \A j \in DOMAIN Before : push[Before[j]].pc = "ok"
        /\ n \in Entries
    BY <1>1, RunnerIs DEF RunnerSound, Stepping
  <2>2. /\ \A i \in Entries \ {n} : jobReceipt'[i].state = jobReceipt[i].state
        /\ jobReceipt'[n].state = s
    BY <1>1, <1>2, <1>4, StatedIs
  <2>3. /\ c \in ActorRecords /\ c.pc = "dispatch" /\ c.verb = actor[Runner].verb
          /\ c.ok = actor[Runner].ok
        /\ c.at = n /\ c.copy = actor[Runner].copy
    BY Constants, ActorTyped, GotoIs, PCs
  <2> HIDE DEF c
  <2>4. UNCHANGED <<remote, first, dispatching>> /\ push' = push
    BY <1>1 DEF github, pushVars
  <2>5. actor'[Runner] = c /\ ActorSound(Runner)'
    BY <1>1, <1>2, <1>4, <2>1, <2>3, <2>4, RunnerGoesOn
  <2>6. PICK m \in Entries : m = n
    BY <2>1
  <2>7. \A i \in Entries : i > m => Untouched(i)'
    <3>1. ASSUME NEW i \in Entries, i > m PROVE Untouched(i)'
      <4>1. i # m /\ i >= m
        BY <3>1, Constants
      <4> QED BY <2>1, <2>2, <2>4, <2>6, <4>1 DEF Untouched, AtGitHub
    <3> QED BY <3>1
  <2>8. ~AtGitHub(m) /\ ~AtGitHub(m)'
    <3>1. m >= m
      BY Constants
    <3> QED BY <2>1, <2>4, <2>6, <3>1 DEF Untouched, AtGitHub
  <2>9. actor'[Runner].pc = "dispatch" /\ actor'[Runner].at = m
          /\ jobReceipt'[m].state = "unknown_dispatch"
    BY <2>2, <2>3, <2>5, <2>6
  <2>10. RunnerSound'
    BY <2>1, <2>4, <2>7, <2>8, <2>9 DEF RunnerSound
  <2> QED BY <1>1, <1>2, <1>4, <1>s, <2>3, <2>5, <2>10, RunnerSaves
<1> QED BY <1>1, <1>3, <1>4 DEF SaveReceipt

LEMMA SaveDispatchedKeeps == ASSUME JobInv, SaveDispatched PROVE JobInv'
<1> DEFINE n == actor[Runner].at
           s == "dispatched"
           g == Goto(Runner, "next")
           c == [g EXCEPT !.at = n + 1]
           d == Goto(Runner, "look")
<1>1. /\ actor[Runner].pc = "known" /\ UNCHANGED <<github, pushVars>> /\ rlock' = Nobody
      /\ jobReceipt' \in {jobReceipt, Stated(s)}
      /\ \/ Fails(Runner)
         \/ n + 1 \in Entries /\ Set(Runner, c) /\ jobReceipt' = Stated(s)
         \/ n + 1 \notin Entries /\ actor[Runner].poll /\ Set(Runner, d) /\ jobReceipt' = Stated(s)
         \/ ~actor[Runner].poll /\ Set(Runner, Ended(Runner, TRUE))
    BY DEF SaveDispatched, SaveReceipt, Stated
<1>2. /\ remote[n] # NoRun /\ \A i \in Entries : i > n => Untouched(i)
      /\ \A j \in DOMAIN Before : push[Before[j]].pc = "ok"
      /\ n \in Entries
    BY <1>1, RunnerIs DEF RunnerSound, Stepping
<1>3. s \in {"unknown_dispatch", "dispatched"} /\ UNCHANGED <<remote, first, dispatching>>
        /\ push' = push
    BY <1>1 DEF github, pushVars
<1>4. CASE Fails(Runner)
    BY <1>1, <1>2, <1>3, <1>4, RunnerSavesEnds DEF Fails
<1>5. CASE ~actor[Runner].poll /\ Set(Runner, Ended(Runner, TRUE))
    BY <1>1, <1>2, <1>3, <1>5, RunnerSavesEnds
<1>6. CASE n + 1 \in Entries /\ Set(Runner, c) /\ jobReceipt' = Stated(s)
  <2>1. \A i \in Entries \ {n} : jobReceipt'[i].state = jobReceipt[i].state
    BY <1>1, <1>3, StatedIs
  <2>2. /\ g \in ActorRecords /\ g.pc = "next" /\ g.verb = actor[Runner].verb
          /\ g.ok = actor[Runner].ok
        /\ g.copy = actor[Runner].copy
    BY Constants, ActorTyped, GotoIs, PCs
  <2> HIDE DEF g
  <2>3. /\ c \in ActorRecords /\ c.pc = "next" /\ c.verb = actor[Runner].verb
          /\ c.ok = actor[Runner].ok
        /\ c.at = n + 1 /\ c.copy = actor[Runner].copy
    BY <1>6, <2>2, AtIs
  <2> HIDE DEF c
  <2>4. actor'[Runner] = c /\ ActorSound(Runner)'
    BY <1>1, <1>3, <1>6, <2>3, RunnerGoesOn
  <2>5. PICK m \in Entries : m = n
    BY <1>2
  <2>6. \A i \in Entries : i >= m + 1 => Untouched(i)'
    <3>1. ASSUME NEW i \in Entries, i >= m + 1 PROVE Untouched(i)'
      <4>1. i # m /\ i > m
        BY <3>1, Constants
      <4> QED BY <1>2, <1>3, <2>1, <2>5, <4>1 DEF Untouched, AtGitHub
    <3> QED BY <3>1
  <2>7. actor'[Runner].pc = "next" /\ actor'[Runner].at = m + 1
    BY <2>3, <2>4, <2>5
  <2>8. RunnerSound'
    BY <1>2, <1>3, <2>6, <2>7 DEF RunnerSound
  <2> QED BY <1>1, <1>2, <1>3, <1>6, <2>3, <2>4, <2>8, RunnerSaves
<1>7. CASE Set(Runner, d) /\ jobReceipt' = Stated(s)
  <2>1. /\ d \in ActorRecords /\ d.pc = "look" /\ d.verb = actor[Runner].verb
          /\ d.ok = actor[Runner].ok
        /\ d.copy = actor[Runner].copy /\ d.at = n
    BY Constants, ActorTyped, GotoIs, PCs
  <2> HIDE DEF d
  <2>2. actor'[Runner] = d /\ ActorSound(Runner)'
    BY <1>1, <1>2, <1>3, <1>7, <2>1, RunnerGoesOn
  <2>3. RunnerSound'
    BY <1>2, <1>3, <2>1, <2>2 DEF RunnerSound, Stepping
  <2> QED BY <1>1, <1>2, <1>3, <1>7, <2>1, <2>2, <2>3, RunnerSaves
<1> QED BY <1>1, <1>4, <1>5, <1>6, <1>7

-----------------------------------------------------------------------------
(* Jobs: crashes, and what happens at GitHub *)

LEMMA DiesIs ==
    ASSUME JobInv, (\E p \in Pushes : Invoke(p) \/ Pushing(p) \/ Dies(p)) \/ Remote \/ UNCHANGED pushVars
    PROVE  PushInv' /\ OksStay
<1>1. PushInv /\ PushInv'
    BY PushInductive DEF JobInv
<1>2. OksStay
    BY <1>1, Constants, OkStays DEF OksStay
<1> QED BY <1>1, <1>2

LEMMA ActorDiesKeeps == ASSUME JobInv, NEW a \in Actors, ActorDies(a) PROVE JobInv'
<1>1. (\E j \in DOMAIN Before : Dies(Before[j])) \/ UNCHANGED pushVars
    BY DEF ActorDies
<1>2. PushInv' /\ OksStay
    BY <1>1, Constants, DiesIs
<1> QED BY <1>2, FailKeeps DEF ActorDies, github

LEMMA PushesKeep ==
    ASSUME JobInv, (\E p \in Pushes : Invoke(p) \/ Pushing(p) \/ Dies(p)) \/ Remote \/ UNCHANGED pushVars,
           UNCHANGED jobVars
    PROVE  JobInv'
<1>1. PushInv' /\ OksStay
    BY DiesIs
<1>2. UNCHANGED <<cast, jobReceipt, rlock, actor, dispatching, head, remote, first>>
    BY DEF jobVars
<1>3. \A a \in Actors : ActorSound(a)'
    BY <1>2, OtherActorsKeep DEF Good
<1>4. \A i \in Entries : EntrySound(i)'
    BY <1>2, EntriesSame
<1>5. RunnerSound'
    BY <1>1, <1>2, RunnerIs DEF RunnerSound, OksStay, AtGitHub, Untouched
<1>6. JobMaps'
    BY <1>2 DEF JobInv, JobMaps
<1>7. JobTypeOK'
    BY <1>1, <1>2 DEF JobInv, JobTypeOK, PushInv
<1> QED BY <1>1, <1>3, <1>4, <1>5, <1>6, <1>7 DEF JobInv

\* Nothing good about a run is undone, and no run is made up.
LEMMA RemoteMoves ==
    ASSUME JobInv, UNCHANGED <<jobReceipt, rlock, actor, pushVars>>,
           dispatching' \subseteq dispatching, head' \in 0..1,
           remote' \in [Entries -> [status : {"none", "running", "success", "failure"},
                                    attempt : 0..2, head : 0..1]],
           first' \in [Entries -> {"none", "success", "failure"}],
           \A i \in Entries : (Good(i) => Good(i)') /\ (AtGitHub(i)' => AtGitHub(i))
                              /\ (remote[i] # NoRun => remote'[i] # NoRun),
           \A i \in Entries :
               /\ i \in dispatching' => remote'[i] = NoRun
               /\ remote'[i].status = "none" => remote'[i] = NoRun
               /\ remote'[i].attempt = 0 => remote'[i] = NoRun /\ first'[i] = "none"
               /\ remote'[i].attempt = 1 => /\ remote'[i].status = "running" => first'[i] = "none"
                                            /\ remote'[i].status = "success"
                                                  => first'[i] = "success"
    PROVE  JobInv'
<1>1. PushInv' /\ push' = push
    BY StillOk DEF pushVars
<1>2. \A a \in Actors : ActorSound(a)'
    BY OtherActorsKeep
<1>3. ASSUME NEW i \in Entries PROVE EntrySound(i)'
  <2>1. EntrySound(i)
    BY RunnerIs
  <2>2. Told(i, jobReceipt[i])'
    BY <2>1 DEF EntrySound, Told
  <2> QED BY <2>1, <2>2 DEF EntrySound
<1>4. RunnerSound'
  <2>1. \A i \in Entries : Untouched(i) => Untouched(i)'
    BY DEF Untouched
  <2>2. PICK n : n = actor[Runner].at
    OBVIOUS
  <2>3. actor[Runner].pc \in Stepping => n \in Entries
    BY <2>2, RunnerIs
  <2>4. actor[Runner].pc = "dispatch" => ~AtGitHub(n)'
    BY <2>2, <2>3, RunnerIs DEF RunnerSound, Stepping
  <2>5. actor[Runner].pc = "known" => remote'[n] # NoRun
    BY <2>2, <2>3, RunnerIs DEF RunnerSound, Stepping
  <2>6. actor[Runner].pc = "dispatch" => ~AtGitHub(actor[Runner].at)'
    BY <2>2, <2>4 DEF AtGitHub
  <2> QED BY <1>1, <2>1, <2>2, <2>5, <2>6, RunnerIs DEF RunnerSound
<1>5. JobMaps'
    BY DEF JobInv, JobMaps
<1>6. JobTypeOK'
    BY <1>1 DEF JobInv, JobTypeOK, PushInv
<1> QED BY <1>1, <1>2, <1>3, <1>4, <1>5, <1>6 DEF JobInv

LEMMA CommitKeeps == ASSUME JobInv, Commit PROVE JobInv'
<1>1. /\ UNCHANGED <<jobReceipt, rlock, actor, dispatching, remote, first, pushVars>> /\ head' = 1
    BY DEF Commit
<1>2. head' \in 0..1
    BY <1>1
<1> QED BY <1>1, <1>2, JobTyped, RunnerIs, RemoteMoves DEF EntrySound, Good, AtGitHub

LEMMA RunStartsKeeps == ASSUME JobInv, NEW i \in Entries, RunStarts(i) PROVE JobInv'
<1> DEFINE r == [status |-> "running", attempt |-> 1, head |-> head]
<1>1. /\ i \in dispatching /\ dispatching' = dispatching \ {i}
        /\ remote' \in {remote, [remote EXCEPT ![i] = r]}
      /\ UNCHANGED <<jobReceipt, rlock, actor, head, first, pushVars>>
    BY DEF RunStarts
<1>2. \A k \in Entries : EntrySound(k)
    BY RunnerIs
<1>3. remote[i] = NoRun /\ first[i] = "none"
    BY <1>1, <1>2 DEF EntrySound, NoRun
<1>4. r \in [status : {"none", "running", "success", "failure"}, attempt : 0..2, head : 0..1]
        /\ r # NoRun
      /\ r.status = "running" /\ r.attempt = 1
    BY JobTyped DEF NoRun
<1> HIDE DEF r
<1>5. /\ remote' \in [Entries -> [status : {"none", "running", "success", "failure"}, attempt : 0..2,
        head : 0..1]]
      /\ remote'[i] \in {NoRun, r} /\ \A k \in Entries \ {i} : remote'[k] = remote[k]
    BY <1>1, <1>3, <1>4, JobTyped
<1>6. ASSUME NEW k \in Entries
      PROVE  /\ (Good(k) => Good(k)') /\ (AtGitHub(k)' => AtGitHub(k))
             /\ (remote[k] # NoRun => remote'[k] # NoRun)
             /\ k \in dispatching' => remote'[k] = NoRun
             /\ remote'[k].status = "none" => remote'[k] = NoRun
             /\ remote'[k].attempt = 0 => remote'[k] = NoRun /\ first'[k] = "none"
             /\ remote'[k].attempt = 1 => /\ remote'[k].status = "running" => first'[k] = "none"
                                          /\ remote'[k].status = "success" => first'[k] = "success"
  <2>1. CASE k = i
    <3>1. ~Good(k) /\ AtGitHub(k) /\ k \notin dispatching' /\ first'[k] = "none"
      BY <1>1, <1>3, <2>1 DEF Good, AtGitHub
    <3>2. NoRun.status = "none" /\ NoRun.attempt = 0
      BY DEF NoRun
    <3> QED BY <1>3, <1>4, <1>5, <2>1, <3>1, <3>2
  <2>2. CASE k # i
    <3>1. remote'[k] = remote[k] /\ (k \in dispatching' <=> k \in dispatching)
      BY <1>1, <1>5, <2>2
    <3> QED BY <1>1, <1>2, <3>1 DEF EntrySound, Good, AtGitHub
  <2> QED BY <2>1, <2>2
<1>7. dispatching' \subseteq dispatching /\ head' \in 0..1
        /\ first' \in [Entries -> {"none", "success", "failure"}]
    BY <1>1, JobTyped
<1> QED BY <1>1, <1>5, <1>6, <1>7, RemoteMoves

\* A run of i changes; the others do not.
LEMMA OneRunMoves ==
    ASSUME JobInv, NEW i \in Entries,
           UNCHANGED <<jobReceipt, rlock, actor, dispatching, head, pushVars>>,
           remote[i].status # "none",
           remote' \in [Entries -> [status : {"none", "running", "success", "failure"},
                                    attempt : 0..2, head : 0..1]],
           first' \in [Entries -> {"none", "success", "failure"}],
           \A k \in Entries \ {i} : remote'[k] = remote[k] /\ first'[k] = first[k],
           Good(i) => Good(i)', remote'[i].status # "none", remote'[i].attempt # 0,
           remote'[i].attempt = 1 => /\ remote'[i].status = "running" => first'[i] = "none"
                                     /\ remote'[i].status = "success" => first'[i] = "success"
    PROVE  JobInv'
<1>1. \A k \in Entries : EntrySound(k)
    BY RunnerIs
<1>2. NoRun.status = "none"
    BY DEF NoRun
<1>3. remote[i] # NoRun /\ remote'[i] # NoRun /\ i \notin dispatching
    BY <1>1, <1>2 DEF EntrySound
<1>4. ASSUME NEW k \in Entries
      PROVE  /\ (Good(k) => Good(k)') /\ (AtGitHub(k)' => AtGitHub(k))
             /\ (remote[k] # NoRun => remote'[k] # NoRun)
             /\ k \in dispatching' => remote'[k] = NoRun
             /\ remote'[k].status = "none" => remote'[k] = NoRun
             /\ remote'[k].attempt = 0 => remote'[k] = NoRun /\ first'[k] = "none"
             /\ remote'[k].attempt = 1 => /\ remote'[k].status = "running" => first'[k] = "none"
                                          /\ remote'[k].status = "success" => first'[k] = "success"
  <2>1. CASE k = i
    BY <1>3, <2>1 DEF AtGitHub
  <2>2. CASE k # i
    BY <1>1, <2>2 DEF EntrySound, Good, AtGitHub
  <2> QED BY <2>1, <2>2
<1> QED BY <1>4, JobTyped, RemoteMoves

LEMMA RunEndsKeeps == ASSUME JobInv, NEW i \in Entries, RunEnds(i) PROVE JobInv'
<1>1. PICK s \in {"success", "failure"} :
         /\ remote' = [remote EXCEPT ![i].status = s]
         /\ first' = IF remote[i].attempt = 1 THEN [first EXCEPT ![i] = s] ELSE first
    BY DEF RunEnds
<1>2. remote[i].status = "running"
        /\ UNCHANGED <<jobReceipt, rlock, actor, dispatching, head, pushVars>>
    BY DEF RunEnds
<1>3. /\ remote' \in [Entries -> [status : {"none", "running", "success", "failure"}, attempt : 0..2,
        head : 0..1]]
      /\ remote'[i].status = s /\ remote'[i].attempt = remote[i].attempt
            /\ remote'[i].head = remote[i].head
      /\ \A k \in Entries \ {i} : remote'[k] = remote[k]
    BY <1>1, JobTyped
<1>4. /\ first' \in [Entries -> {"none", "success", "failure"}]
      /\ \A k \in Entries \ {i} : first'[k] = first[k]
      /\ remote[i].attempt = 1 => first'[i] = s
      /\ remote[i].attempt # 1 => first'[i] = first[i]
    BY <1>1, JobTyped
<1>5. remote[i].attempt # 0
  <2>1. EntrySound(i)
    BY RunnerIs
  <2> QED BY <1>2, <2>1 DEF EntrySound, NoRun
<1>6. Good(i) => Good(i)'
  <2>1. EntrySound(i)
    BY RunnerIs
  <2>2. remote[i].attempt = 1 => first[i] = "none"
    BY <1>2, <2>1 DEF EntrySound
  <2> QED BY <1>3, <1>4, <2>2 DEF Good
<1> QED BY <1>2, <1>3, <1>4, <1>5, <1>6, OneRunMoves

LEMMA RunsAgainKeeps == ASSUME JobInv, NEW i \in Entries, RunsAgain(i) PROVE JobInv'
<1>1. /\ remote[i].status \in {"success", "failure"} /\ remote[i].attempt = 1
      /\ remote' = [remote EXCEPT ![i].status = "running", ![i].attempt = 2]
      /\ UNCHANGED <<jobReceipt, rlock, actor, dispatching, head, first, pushVars>>
    BY DEF RunsAgain
<1>2. /\ remote' \in [Entries -> [status : {"none", "running", "success", "failure"}, attempt : 0..2,
        head : 0..1]]
      /\ remote'[i].status = "running" /\ remote'[i].attempt = 2 /\ remote'[i].head = remote[i].head
      /\ \A k \in Entries \ {i} : remote'[k] = remote[k]
    BY <1>1, JobTyped
<1>3. Good(i) => Good(i)'
    BY <1>1, <1>2 DEF Good
<1>4. first' \in [Entries -> {"none", "success", "failure"}]
        /\ \A k \in Entries \ {i} : first'[k] = first[k]
    BY <1>1, JobTyped
<1> QED BY <1>1, <1>2, <1>3, <1>4, OneRunMoves

-----------------------------------------------------------------------------
(* Jobs: the invariant holds *)

LEMMA JobInductive == JobInv /\ [JobNext]_remoteVars => JobInv'
<1> SUFFICES ASSUME JobInv, [JobNext]_remoteVars PROVE JobInv'
    OBVIOUS
<1>1. CASE Run
  <2>1. CASE PushSecrets
    <3>1. CASE (\E p \in Pushes : Invoke(p) \/ Pushing(p)) /\ UNCHANGED jobVars
      BY <3>1, PushesKeep
    <3> QED BY <2>1, <3>1, PushSecretsKeeps
  <2> QED
    BY <1>1, <2>1, CreateReceiptKeeps, MarkEntryKeeps, SaveUnknownKeeps, DispatchKeeps,
       NoAnswerKeeps,
       AnswerKeeps, SaveDispatchedKeeps DEF Run
<1>2. ASSUME NEW a \in Actors, Refresh(a) \/ ActorDies(a) PROVE JobInv'
    BY <1>2, LookKeeps, TakeReceiptKeeps, ReadEntryKeeps, VerifyArtifactKeeps, SaveBadKeeps,
       SaveEntriesKeeps, ActorDiesKeeps DEF Refresh
<1>3. ASSUME NEW p \in cast \cap Alone, (Invoke(p) \/ Pushing(p) \/ Dies(p)) /\ UNCHANGED jobVars
      PROVE  JobInv'
  <2>1. p \in Pushes
    BY DEF Alone
  <2> QED BY <1>3, <2>1, PushesKeep
<1>4. CASE Remote /\ UNCHANGED jobVars
    BY <1>4, PushesKeep
<1>5. CASE UNCHANGED remoteVars
    BY <1>5, PushesKeep DEF remoteVars
<1>6. ASSUME NEW i \in Entries, RunStarts(i) \/ RunEnds(i) \/ RunsAgain(i) PROVE JobInv'
    BY <1>6, RunStartsKeeps, RunEndsKeeps, RunsAgainKeeps
<1> QED BY <1>1, <1>2, <1>3, <1>4, <1>5, <1>6, CommitKeeps DEF JobNext

\* The commands there are: none has begun.
CommandOk(c) ==
    c \in ActorRecords /\ c.pc = "idle" /\ ~c.ok /\ \A i \in Entries : c.copy[i] = NoEntry

LEMMA CommandIs ==
    \A verb \in {"run", "status", "resume", "verify"} : \A p,
          v \in BOOLEAN : CommandOk(Command(verb, p, v))
<1> SUFFICES ASSUME NEW verb \in {"run", "status", "resume", "verify"}, NEW p \in BOOLEAN,
        NEW v \in BOOLEAN
             PROVE  CommandOk(Command(verb, p, v))
    BY Zenon
<1>1. [i \in Entries |-> NoEntry] \in [Entries -> EntryRecords]
    BY NoEntryIs
<1> QED BY <1>1 DEF Command, CommandOk, ActorRecords, ActorPCs

LEMMA JobInitially == JobInit => JobInv
<1> SUFFICES ASSUME JobInit PROVE JobInv
    OBVIOUS
<1>1. PushInv
    BY PushInitially DEF JobInit
<1>2. /\ jobReceipt = [i \in Entries |-> NoEntry] /\ rlock = Nobody /\ dispatching = {} /\ head = 0
      /\ remote = [i \in Entries |-> NoRun] /\ first = [i \in Entries |-> "none"]
      /\ \A a \in Actors : actor[a].verb = "run" <=> a = Runner
    BY DEF JobInit
<1>3. /\ actor \in [Actors -> ActorRecords]
      /\ \A a \in Actors : actor[a].pc = "idle" /\ ~actor[a].ok
            /\ \A i \in Entries : actor[a].copy[i] = NoEntry
  <2>1. \A c \in Commands : CommandOk(c)
    BY CommandIs, Zenon DEF Commands
  <2>2. actor \in [Actors -> Commands]
    BY DEF JobInit
  <2> QED BY <2>1, <2>2 DEF CommandOk
<1>4. JobMaps
    BY <1>2, <1>3 DEF JobMaps
<1>5. \A a \in Actors : actor[a].at \in Entries \cup {0}
        /\ actor[a].copy \in [Entries -> EntryRecords]
    BY <1>3 DEF ActorRecords
<1>6. JobTypeOK
  <2>1. NoRun \in [status : {"none", "running", "success", "failure"}, attempt : 0..2, head : 0..1]
    BY DEF NoRun
  <2>2. jobReceipt \in [Entries -> EntryRecords] /\ rlock \in Actors \cup {Nobody}
    BY <1>2, NoEntryIs
  <2>3. /\ remote \in [Entries -> [status : {"none", "running", "success", "failure"},
          attempt : 0..2, head : 0..1]]
        /\ first \in [Entries -> {"none", "success", "failure"}] /\ dispatching \subseteq Entries
              /\ head \in 0..1
    BY <1>2, <2>1
  <2> QED BY <1>1, <1>5, <2>2, <2>3 DEF JobTypeOK, PushInv, EntryRecords
<1>7. \A i \in Entries : jobReceipt[i] = NoEntry /\ ~AtGitHub(i)
    BY <1>2 DEF AtGitHub
<1>8. RunnerSound
    BY <1>3, <1>7, Constants DEF RunnerSound, Stepping
<1>9. ASSUME NEW a \in Actors PROVE ActorSound(a)
  <2>1. LockSound(a)
    BY <1>2, <1>3, Constants DEF LockSound, Holding
  <2>2. \A i \in Entries : Told(i, actor[a].copy[i])
    BY <1>3, NoEntryIs DEF Told
  <2> QED BY <1>3, <2>1, <2>2 DEF ActorSound, Stepping, Holding
<1>10. ASSUME NEW i \in Entries PROVE EntrySound(i)
  <2>1. remote[i] = NoRun /\ first[i] = "none"
    BY <1>2
  <2>2. NoRun.status = "none" /\ NoRun.attempt = 0
    BY DEF NoRun
  <2>3. Told(i, jobReceipt[i]) /\ jobReceipt[i].state = "none"
    BY <1>7, NoEntryIs DEF Told
  <2> QED BY <1>2, <1>7, <2>1, <2>2, <2>3 DEF EntrySound
<1> QED BY <1>1, <1>4, <1>6, <1>8, <1>9, <1>10 DEF JobInv

\* The invariant: what is out is owned up to by whoever may have sent it, and
\* what a receipt or a copy of it says was true when it was read and still is.
THEOREM JobInvAlways == JobSpec => []JobInv
<1>1. JobInit => JobInv
    BY JobInitially
<1>2. JobInv /\ [JobNext]_remoteVars => JobInv'
    BY JobInductive
<1> QED BY <1>1, <1>2, PTL DEF JobSpec

\* The variables of the pushes and of the jobs hold what they are meant to.
THEOREM JobTypes == JobSpec => []JobTypeOK
<1>1. JobInv => JobTypeOK
    BY DEF JobInv
<1> QED BY <1>1, JobInvAlways, PTL

\* Of any number of pushes and runs, none is at GitHub or on its way there that
\* the receipts do not own up to, and no run is asked for before the secrets of
\* its job are in place (internal/jobrun/runtime.go, internal/secretpush).
THEOREM NothingUnrecordedHolds == JobSpec => []NothingUnrecorded
<1>1. ASSUME JobInv PROVE NothingUnrecorded
  <2>1. PushInv /\ SecretsAccounted
    BY <1>1 DEF JobInv, PushInv
  <2>2. OvertakenKnown
    <3> SUFFICES ASSUME NEW p \in Pushes, NEW q \in Pushes, NEW k \in KeysOf[p] \cap KeysOf[q],
            Ahead(q, p),
                        secretReceipt[p][k] = "accepted", kept[<<Destination[p], k>>] = q
                 PROVE  secretReceipt[q][k] = "unknown"
      BY DEF OvertakenKnown, Ahead
    <3>1. <<p, k>> \in landed
      BY <2>1 DEF SecretsAccounted
    <3> QED BY <2>1, <3>1, PushParts DEF LateKnown
  <2>3. ASSUME NEW i \in Entries, AtGitHub(i) PROVE SecretsInPlace
    <3>1. \A j \in DOMAIN Before : push[Before[j]].pc = "ok" /\ Before[j] \in Pushes
      BY <1>1, <2>3, Constants DEF JobInv, RunnerSound
    <3>2. \A p \in Pushes : push[p].pc = "ok"
            => \A k \in KeysOf[p] : secretReceipt[p][k] = "accepted"
      BY <2>1 DEF PushInv, PushSound, KeysInOrder
    <3> QED BY <3>1, <3>2 DEF SecretsInPlace
  <2> QED BY <1>1, <2>1, <2>2, <2>3 DEF NothingUnrecorded, JobInv, EntrySound
<1> QED BY <1>1, JobInvAlways, PTL

\* "verified" is earned by a first attempt on the commit of the receipt, and a
\* wait or a verify that succeeds by all of them, whoever else refreshes the
\* receipt meanwhile (runtime.go 145-157, 178-182, 223-253).
THEOREM SuccessIsEarnedHolds == JobSpec => []SuccessIsEarned
<1>1. JobInv => SuccessIsEarned
    BY DEF JobInv, SuccessIsEarned, EntrySound, ActorSound, Told, Good
<1> QED BY <1>1, JobInvAlways, PTL

-----------------------------------------------------------------------------
(* Jobs: no step takes back what the receipt says *)

LEMMA Ranks ==
    /\ Rank["none"] = 0 /\ Rank["not_started"] = 1 /\ Rank["unknown_dispatch"] = 2
          /\ Rank["dispatched"] = 3
    /\ \A s \in {"none", "not_started", "unknown_dispatch", "dispatched"} : Rank[s] \in 0..3
BY DEF Rank

Grows == \A i \in Entries : Rank[jobReceipt[i].state] <= Rank[jobReceipt'[i].state]

LEMMA SameGrows ==
    ASSUME JobInv, \A i \in Entries : jobReceipt'[i].state = jobReceipt[i].state
    PROVE  Grows
<1>1. \A i \in Entries : jobReceipt[i].state \in {"none", "not_started", "unknown_dispatch",
        "dispatched"}
    BY JobTyped DEF EntryRecords
<1>2. \A i \in Entries : Rank[jobReceipt[i].state] \in 0..3
    BY <1>1, Ranks
<1> QED BY <1>2 DEF Grows

LEMMA CreateGrows == ASSUME JobInv, CreateReceipt PROVE Grows
<1> DEFINE e == [NoEntry EXCEPT !.state = "not_started"]
<1>1. e.state = "not_started"
    BY NoEntryIs, StateIs
<1>2. jobReceipt' \in {jobReceipt, [i \in Entries |-> e]}
    BY DEF CreateReceipt
<1>3. \A i \in Entries : jobReceipt[i] = NoEntry
    BY RunnerIs DEF CreateReceipt, RunnerSound
<1> HIDE DEF e
<1>4. \A i \in Entries : jobReceipt[i].state = "none"
        /\ jobReceipt'[i].state \in {"none", "not_started"}
    BY <1>1, <1>2, <1>3, NoEntryIs
<1> QED BY <1>4, Ranks DEF Grows

LEMMA SavesGrow == ASSUME JobInv, SaveUnknown \/ SaveDispatched PROVE Grows
<1> DEFINE n == actor[Runner].at
<1>1. PICK s \in {"unknown_dispatch", "dispatched"} :
          /\ jobReceipt' \in {jobReceipt, Stated(s)}
          /\ s = "unknown_dispatch" => actor[Runner].pc = "marked"
          /\ s = "dispatched" => actor[Runner].pc = "known"
    BY DEF SaveUnknown, SaveDispatched, SaveReceipt, Stated
<1>2. actor[Runner].pc \in {"marked", "known"}
    BY <1>1
<1>3. /\ \A i \in Entries \ {n} : jobReceipt'[i].state = jobReceipt[i].state
      /\ n \in Entries /\ jobReceipt'[n].state \in {s, jobReceipt[n].state}
    BY <1>1, <1>2, StatedIs
<1>4. PICK m \in Entries : m = n
    BY <1>3
<1>5. s = "unknown_dispatch" => jobReceipt[n].state = "not_started"
  <2>1. m >= m
    BY Constants
  <2> QED BY <1>1, <1>4, <2>1, RunnerIs DEF RunnerSound, Untouched
<1>6. s = "dispatched" => jobReceipt[n].state = "unknown_dispatch"
    BY <1>1, RunnerIs DEF RunnerSound
<1>7. \A i \in Entries : jobReceipt[i].state \in {"none", "not_started", "unknown_dispatch",
        "dispatched"}
    BY JobTyped DEF EntryRecords
<1>8. \A i \in Entries : Rank[jobReceipt[i].state] \in 0..3
    BY <1>7, Ranks
<1>9. Rank[jobReceipt[n].state] <= Rank[jobReceipt'[n].state]
    BY <1>3, <1>5, <1>6, <1>8, Ranks
<1>10. \A i \in Entries \ {n} : Rank[jobReceipt[i].state] <= Rank[jobReceipt'[i].state]
    BY <1>3, <1>8
<1> QED BY <1>3, <1>9, <1>10 DEF Grows

LEMMA StepGrows == ASSUME JobInv, [JobNext]_remoteVars PROVE Grows
<1>1. CASE UNCHANGED jobReceipt
    BY <1>1, SameGrows
<1>2. ASSUME NEW a \in Actors, SaveBad(a) \/ SaveEntries(a) PROVE Grows
  <2>1. actor[a].pc \in {"save", "saveBad"} /\ jobReceipt' \in {jobReceipt, actor[a].copy}
    BY <1>2 DEF SaveBad, SaveEntries, SaveReceipt
  <2> QED BY <2>1, CopyWritten, SameGrows
<1>3. CASE Run
  <2>1. PushSecrets \/ MarkEntry \/ Dispatch \/ NoAnswer \/ Answer => UNCHANGED jobReceipt
    BY DEF PushSecrets, MarkEntry, Dispatch, NoAnswer, Answer, jobVars
  <2> QED BY <1>1, <1>3, <2>1, CreateGrows, SavesGrow DEF Run
<1>4. ASSUME NEW a \in Actors, Refresh(a) \/ ActorDies(a) PROVE Grows
  <2>1. Look(a) \/ TakeReceipt(a) \/ ReadEntry(a) \/ VerifyArtifact(a) \/ ActorDies(a)
          => UNCHANGED jobReceipt
    BY DEF Look, TakeReceipt, ReadEntry, VerifyArtifact, ActorDies
  <2> QED BY <1>1, <1>2, <1>4, <2>1 DEF Refresh
<1>5. UNCHANGED jobVars \/ UNCHANGED remoteVars => UNCHANGED jobReceipt
    BY DEF jobVars, remoteVars
<1>6. ASSUME NEW i \in Entries, RunStarts(i) \/ RunEnds(i) \/ RunsAgain(i)
        PROVE UNCHANGED jobReceipt
    BY <1>6 DEF RunStarts, RunEnds, RunsAgain
<1>7. Commit => UNCHANGED jobReceipt
    BY DEF Commit
<1> QED BY <1>1, <1>3, <1>4, <1>5, <1>6, <1>7 DEF JobNext

\* Neither a refresh nor `job run` undoes what the other recorded, however
\* their reads and writes of the receipt interleave (runtime.go, withReceiptLock).
THEOREM ReceiptGrowsHolds == JobSpec => ReceiptGrows
<1>1. JobInv /\ [JobNext]_remoteVars =>
        [\A i \in Entries : Rank[jobReceipt[i].state] <= Rank[jobReceipt'[i].state]]_remoteVars
    BY StepGrows DEF Grows
<1> QED BY <1>1, JobInvAlways, PTL DEF JobSpec, ReceiptGrows

===============================================================================
