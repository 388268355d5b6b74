--------------------------- MODULE LoginGuardProofs ---------------------------
(***************************************************************************)
(* Theorems about LoginGuard, for every set of requests and of ids, every  *)
(* threshold and every bound.                                              *)
(***************************************************************************)
EXTENDS LoginGuard, FiniteSetTheorems, TLAPS

\* The two halves of the invariant: what is stored and credited, ...
LedgerOK ==
    /\ store \in [Ids -> Entry \cup {Absent}]
    /\ credit \in [Passes -> Int]
    /\ EntriesOK
    /\ CreditOK

RequestOK(r) ==
    /\ req[r].pc \in AfterRow => req[r].name = "known"
    /\ req[r].pc \in {"proofing", "issuing", "restoring", "reading", "proving"} =>
          req[r].name \in Names
    /\ req[r].pc = "proofing" => req[r].purpose \in Purposes
    /\ req[r].pc \in {"reading", "solving"} => ~req[r].free

\* ... and the requests with what they count.
ActorsOK ==
    /\ wrong \in 0 .. MaxWrong
    /\ e2e \in BOOLEAN
    /\ req \in [Requests -> Request]
    /\ faults \in 0 .. MaxFaults
    /\ tried \in [free : Nat, uncounted : 0 .. MaxFaults]
    /\ \A r \in Requests : RequestOK(r)
    /\ TriesOK

LEMMA InvParts == Inv <=> LedgerOK /\ ActorsOK
  BY DEF Inv, TypeOK, RequestsOK, RequestOK, LedgerOK, ActorsOK

LEMMA Together == LedgerOK' /\ ActorsOK' => Inv'
  BY DEF Inv, TypeOK, RequestsOK, RequestOK, LedgerOK, ActorsOK
-----------------------------------------------------------------------------
(* The ledger.                                                             *)

\* Every id has one kind.
LEMMA KindsOfIds ==
    /\ \A id \in Challenges : Kind(id) = "challenge"
    /\ \A id \in Sliders : Kind(id) = "slider"
    /\ \A id \in Proofs : Kind(id) = "proof"
    /\ \A id \in Captchas : Kind(id) = "captcha"
  BY DistinctIds DEF Kind

LEMMA FinitelyManyIds ==
    /\ IsFiniteSet(Ids)
    /\ \A p : IsFiniteSet(Earned(p)) /\ Cardinality(Earned(p)) \in Nat
<1>1. IsFiniteSet(Ids)
  BY DistinctIds, FS_Union DEF Ids
<1>2. ASSUME NEW p PROVE IsFiniteSet(Earned(p)) /\ Cardinality(Earned(p)) \in Nat
  <2>1. Earned(p) \in SUBSET Ids
    BY DEF Earned
  <2> QED  BY <1>1, <2>1, FS_Subset, FS_CardinalityType
<1> QED  BY <1>1, <1>2

\* What is in each store.
LEMMA StoredPasses ==
    ASSUME LedgerOK, NEW id \in Ids, Stored(id)
    PROVE  /\ store[id] \in Entry
           /\ id \in Challenges => store[id].name = "any" /\ store[id].drag
           /\ id \in Sliders => store[id].name \in Names /\ store[id].drag
           /\ id \in Proofs => store[id].name \in Names
           /\ id \in Captchas => /\ store[id].name \in Names /\ store[id].drag
                                 /\ store[id].purpose = "login"
<1>1. store[id] \in Entry /\ Pass(id) \in Passes /\ (store[id].drag \/ id \in Proofs)
  BY DEF LedgerOK, EntriesOK, Stored
<1>2. CASE id \in Challenges
  BY <1>1, <1>2, KindsOfIds, DistinctIds DEF Pass, Passes
<1>3. CASE id \in Sliders
  BY <1>1, <1>3, KindsOfIds, DistinctIds DEF Pass, Passes
<1>4. CASE id \in Proofs
  BY <1>1, <1>4, KindsOfIds, DistinctIds DEF Pass, Passes
<1>5. CASE id \in Captchas
  BY <1>1, <1>5, KindsOfIds, DistinctIds DEF Pass, Passes
<1> QED  BY <1>1, <1>2, <1>3, <1>4, <1>5, DistinctIds DEF Ids

\* Whoever takes an entry and takes its credit keeps the ledger.
LEMMA TakingKeeps ==
    ASSUME LedgerOK, NEW id \in Ids, Stored(id), Take(id),
           credit' = [credit EXCEPT ![Pass(id)] = @ - Worth(id)]
    PROVE  LedgerOK'
<1>1. /\ store' = [store EXCEPT ![id] = Absent]
      /\ store' \in [Ids -> Entry \cup {Absent}]
      /\ store'[id] = Absent
      /\ \A i \in Ids \ {id} : store'[i] = store[i]
  BY DEF Take, LedgerOK
<1>2. /\ store[id].drag \in BOOLEAN /\ Absent.drag = FALSE
      /\ Worth(id) \in Int /\ Pass(id) \in Passes
  BY StoredPasses DEF Worth, Entry, Absent, LedgerOK, EntriesOK
<1>3. credit' \in [Passes -> Int]
  <2>1. credit[Pass(id)] - Worth(id) \in Int
    BY <1>2 DEF LedgerOK
  <2> QED  BY <2>1 DEF LedgerOK
<1>4. EntriesOK'
  BY <1>1 DEF LedgerOK, EntriesOK, Stored, Pass, Kind
<1>5. ASSUME NEW p \in Passes
      PROVE  credit'[p] = Cardinality(Earned(p)')
  <2>1. credit[p] = Cardinality(Earned(p)) /\ IsFiniteSet(Earned(p)) /\ credit[p] \in Int
    BY FinitelyManyIds DEF LedgerOK, CreditOK
  <2>2. Earned(p)' = Earned(p) \ {id}
    BY <1>1, <1>2 DEF Earned, Pass, Kind
  <2>3. Cardinality(Earned(p)') =
           IF id \in Earned(p) THEN Cardinality(Earned(p)) - 1 ELSE Cardinality(Earned(p))
    BY <2>1, <2>2, FS_RemoveElement
  <2>4. id \in Earned(p) <=> p = Pass(id) /\ Worth(id) = 1
    BY <1>2 DEF Earned, Worth
  <2>5. credit'[p] = IF p = Pass(id) THEN credit[p] - Worth(id) ELSE credit[p]
    BY DEF LedgerOK
  <2>6. Worth(id) \in {0, 1}
    BY DEF Worth
  <2> QED  BY <2>1, <2>3, <2>4, <2>5, <2>6
<1> QED  BY <1>1, <1>3, <1>4, <1>5 DEF LedgerOK, CreditOK

LEMMA WastingKeeps ==
    ASSUME LedgerOK, NEW id \in Ids, Stored(id), Waste(id)
    PROVE  LedgerOK'
  BY TakingKeeps DEF Waste

\* An entry is accepted as the pass it is.
LEMMA UsingKeeps ==
    ASSUME LedgerOK, NEW id \in Ids, Stored(id), Use(id, Pass(id)), store[id].drag \/ e2e
    PROVE  LedgerOK'
<1>1. store[id].drag \in BOOLEAN /\ (Kind(id) = "captcha" => store[id].drag)
  BY StoredPasses, KindsOfIds, DistinctIds DEF Entry, Ids
<1>2. credit' = [credit EXCEPT ![Pass(id)] = @ - Worth(id)]
  <2>1. CASE e2e /\ (Kind(id) = "captcha" \/ ~store[id].drag)
    BY <2>1 DEF Use
  <2>2. CASE ~(e2e /\ (Kind(id) = "captcha" \/ ~store[id].drag))
    BY <1>1, <2>2 DEF Use, Worth
  <2> QED  BY <2>1, <2>2
<1> QED  BY <1>2, TakingKeeps DEF Use

\* Whoever puts an entry that is a pass where none is keeps it.
LEMMA PuttingKeeps ==
    ASSUME LedgerOK, NEW id \in Ids, ~Stored(id),
           \E entry \in Entry :
              /\ Put(id, entry)
              /\ <<Kind(id), entry.purpose, entry.name>> \in Passes
              /\ entry.drag \/ id \in Proofs
    PROVE  LedgerOK'
<1>0. PICK entry \in Entry : /\ Put(id, entry)
                             /\ <<Kind(id), entry.purpose, entry.name>> \in Passes
                             /\ entry.drag \/ id \in Proofs
  OBVIOUS
<1> DEFINE pass == <<Kind(id), entry.purpose, entry.name>>
<1>1. /\ store' \in [Ids -> Entry \cup {Absent}]
      /\ store'[id] = entry
      /\ \A i \in Ids \ {id} : store'[i] = store[i]
  BY <1>0 DEF Put, LedgerOK
<1>2. /\ pass \in Passes /\ entry.drag \in BOOLEAN
      /\ Pass(id)' = pass
      /\ credit' = IF entry.drag THEN [credit EXCEPT ![pass] = @ + 1] ELSE credit
  BY <1>0, <1>1 DEF Put, Pass, Kind, Entry
<1> HIDE DEF pass
<1>3. credit' \in [Passes -> Int]
  <2>1. CASE entry.drag
    BY <1>2, <2>1 DEF LedgerOK
  <2>2. CASE ~entry.drag
    BY <1>2, <2>2 DEF LedgerOK
  <2> QED  BY <2>1, <2>2
<1>4. EntriesOK'
  <2>1. ASSUME NEW i \in Ids, Stored(i)'
        PROVE  Pass(i)' \in Passes /\ (store'[i].drag \/ i \in Proofs)
    <3>1. CASE i = id
      BY <1>0, <1>1, <1>2, <3>1
    <3>2. CASE i # id
      BY <1>1, <2>1, <3>2 DEF LedgerOK, EntriesOK, Stored, Pass, Kind
    <3> QED  BY <3>1, <3>2
  <2> QED  BY <2>1 DEF EntriesOK
<1>5. ASSUME NEW p \in Passes
      PROVE  credit'[p] = Cardinality(Earned(p)')
  <2>1. credit[p] = Cardinality(Earned(p)) /\ IsFiniteSet(Earned(p)) /\ credit[p] \in Int
    BY FinitelyManyIds DEF LedgerOK, CreditOK
  <2>2. id \notin Earned(p)
    BY DEF Earned, Stored, Absent
  <2>3. CASE entry.drag /\ p = pass
    <3>1. Earned(p)' = Earned(p) \cup {id}
      BY <1>1, <1>2, <2>2, <2>3 DEF Earned, Pass, Kind
    <3>2. credit'[p] = credit[p] + 1
      BY <1>2, <2>3 DEF LedgerOK
    <3> QED  BY <2>1, <2>2, <3>1, <3>2, FS_AddElement
  <2>4. CASE ~(entry.drag /\ p = pass)
    <3>1. Earned(p)' = Earned(p)
      BY <1>1, <1>2, <2>2, <2>4 DEF Earned, Pass, Kind
    <3>2. credit'[p] = credit[p]
      BY <1>2, <2>4 DEF LedgerOK
    <3> QED  BY <2>1, <3>1, <3>2
  <2> QED  BY <2>3, <2>4
<1> QED  BY <1>1, <1>3, <1>4, <1>5 DEF LedgerOK, CreditOK

\* The same for a new id of a store.
LEMMA PuttingNewKeeps ==
    ASSUME LedgerOK, NEW ids \in SUBSET Ids,
           \E entry \in Entry :
              /\ PutNew(ids, entry)
              /\ \A id \in ids : /\ <<Kind(id), entry.purpose, entry.name>> \in Passes
                                 /\ entry.drag \/ id \in Proofs
    PROVE  LedgerOK'
<1>1. CASE UNCHANGED <<store, credit>>
  BY <1>1 DEF LedgerOK, EntriesOK, CreditOK, Earned, Stored, Pass, Kind
<1>2. CASE ~UNCHANGED <<store, credit>>
  <2>1. PICK entry \in Entry :
             /\ PutNew(ids, entry)
             /\ \A id \in ids : /\ <<Kind(id), entry.purpose, entry.name>> \in Passes
                                /\ entry.drag \/ id \in Proofs
    OBVIOUS
  <2>2. PICK id \in ids : ~Stored(id) /\ Put(id, entry)
    BY <1>2, <2>1 DEF PutNew
  <2> QED  BY <2>1, <2>2, PuttingKeeps
<1> QED  BY <1>1, <1>2

LEMMA LedgerStays ==
    ASSUME LedgerOK, UNCHANGED <<store, credit>>
    PROVE  LedgerOK'
  BY DEF LedgerOK, EntriesOK, CreditOK, Earned, Stored, Pass, Kind
-----------------------------------------------------------------------------
(* The requests.                                                           *)

WaitsNow(request) ==
    request.pc = "gating" \/ (request.pc = "comparing" /\ request.free)

UncountedNow(request) == request.pc = "recording" /\ request.free

LEMMA IdleTyped ==
    /\ Idle \in Request
    /\ Idle.pc = "idle" /\ ~WaitsNow(Idle) /\ ~UncountedNow(Idle)
  BY DEF Idle, Request, Steps, WaitsNow, UncountedNow

\* A request of which only the step and the name are known.
LEMMA IdleWith ==
    \A pc \in Steps, name \in Names :
        LET request == [Idle EXCEPT !.pc = pc, !.name = name]
        IN  /\ request \in Request
            /\ request.pc = pc /\ request.name = name /\ ~request.free
  BY DEF Idle, Request

\* A request that goes on.
LEMMA GoneTo ==
    \A request \in Request, pc \in Steps :
        LET next == [request EXCEPT !.pc = pc]
        IN  /\ next \in Request
            /\ next.pc = pc /\ next.name = request.name
            /\ next.purpose = request.purpose /\ next.free = request.free
  BY DEF Request

\* Nobody waits and is uncounted at once.
LEMMA Room ==
    \A W, U \in SUBSET Requests :
        /\ IsFiniteSet(W) /\ Cardinality(W) \in Nat
        /\ Cardinality(Requests) \in Nat /\ Cardinality(W) <= Cardinality(Requests)
        /\ W \cap U = {} => Cardinality(W) + Cardinality(U) <= Cardinality(Requests)
<1>1. ASSUME NEW W \in SUBSET Requests
      PROVE  /\ IsFiniteSet(W) /\ Cardinality(W) \in Nat
             /\ Cardinality(W) <= Cardinality(Requests)
  BY LoginConfig, FS_Subset, FS_CardinalityType
<1>2. Cardinality(Requests) \in Nat
  BY LoginConfig, FS_CardinalityType
<1>3. ASSUME NEW W \in SUBSET Requests, NEW U \in SUBSET Requests, W \cap U = {}
      PROVE  Cardinality(W) + Cardinality(U) <= Cardinality(Requests)
  <2>1. Cardinality(W \cup U) = Cardinality(W) + Cardinality(U) - Cardinality({})
    BY <1>1, <1>3, FS_Union
  <2>2. Cardinality({}) = 0
    BY FS_EmptySet
  <2>3. W \cup U \in SUBSET Requests
    OBVIOUS
  <2> QED  BY <1>1, <2>1, <2>2, <2>3
<1> QED  BY <1>1, <1>2, <1>3

\* Who waits and who is uncounted after one request has moved.
LEMMA Moved ==
    ASSUME ActorsOK, NEW r \in Requests, req' \in [Requests -> Request],
           \A q \in Requests \ {r} : req'[q] = req[q]
    PROVE  /\ Cardinality(Waiting) \in Nat /\ Cardinality(Uncounted) \in Nat
           /\ Cardinality(Waiting') \in Nat
           /\ Cardinality(Waiting') = Cardinality(Waiting)
                 + (IF WaitsNow(req'[r]) THEN 1 ELSE 0) - (IF WaitsNow(req[r]) THEN 1 ELSE 0)
           /\ Cardinality(Uncounted') = Cardinality(Uncounted)
                 + (IF UncountedNow(req'[r]) THEN 1 ELSE 0)
                 - (IF UncountedNow(req[r]) THEN 1 ELSE 0)
           /\ Cardinality(Waiting') + Cardinality(Uncounted') <= Cardinality(Requests)
<1>1. /\ Waiting \in SUBSET Requests /\ Waiting' \in SUBSET Requests
      /\ Uncounted \in SUBSET Requests /\ Uncounted' \in SUBSET Requests
      /\ Waiting' \cap Uncounted' = {}
  BY DEF Waiting, Uncounted
<1>2. /\ Waiting' = IF WaitsNow(req'[r]) THEN Waiting \cup {r} ELSE Waiting \ {r}
      /\ r \in Waiting <=> WaitsNow(req[r])
  BY DEF Waiting, WaitsNow
<1>3. /\ Uncounted' = IF UncountedNow(req'[r]) THEN Uncounted \cup {r} ELSE Uncounted \ {r}
      /\ r \in Uncounted <=> UncountedNow(req[r])
  BY DEF Uncounted, UncountedNow
<1>4. /\ Cardinality(Waiting) \in Nat /\ Cardinality(Uncounted) \in Nat
      /\ IsFiniteSet(Waiting) /\ IsFiniteSet(Uncounted)
      /\ Cardinality(Waiting') \in Nat
      /\ Cardinality(Waiting') + Cardinality(Uncounted') <= Cardinality(Requests)
  BY <1>1, Room
<1>5. /\ Cardinality(Waiting \cup {r}) =
            IF r \in Waiting THEN Cardinality(Waiting) ELSE Cardinality(Waiting) + 1
      /\ Cardinality(Waiting \ {r}) =
            IF r \in Waiting THEN Cardinality(Waiting) - 1 ELSE Cardinality(Waiting)
      /\ Cardinality(Uncounted \cup {r}) =
            IF r \in Uncounted THEN Cardinality(Uncounted) ELSE Cardinality(Uncounted) + 1
      /\ Cardinality(Uncounted \ {r}) =
            IF r \in Uncounted THEN Cardinality(Uncounted) - 1 ELSE Cardinality(Uncounted)
  BY <1>4, FS_AddElement, FS_RemoveElement
<1> QED  BY <1>2, <1>3, <1>4, <1>5

\* A step of one request that changes no count: it may be let past the count only
\* below the threshold, and it may not forget a try it has to record.
LEMMA MovingKeeps ==
    ASSUME ActorsOK, NEW r \in Requests, req' \in [Requests -> Request],
           \A q \in Requests \ {r} : req'[q] = req[q],
           RequestOK(r)', UNCHANGED <<wrong, e2e, faults, tried>>,
           WaitsNow(req'[r]) => WaitsNow(req[r]) \/ wrong < Threshold,
           ~UncountedNow(req[r]), ~UncountedNow(req'[r])
    PROVE  ActorsOK'
<1>1. \A q \in Requests : RequestOK(q)'
  BY DEF ActorsOK, RequestOK
<1>2. /\ wrong \in Nat /\ tried.free \in Nat /\ tried.uncounted \in Nat
      /\ Threshold \in Nat /\ Cardinality(Requests) \in Nat
  BY Room, LoginConfig DEF ActorsOK
<1>3. /\ Cardinality(Uncounted') = Cardinality(Uncounted)
      /\ Cardinality(Uncounted) \in Nat /\ Cardinality(Waiting) \in Nat
      /\ Cardinality(Waiting') \in Nat
      /\ Cardinality(Waiting') + Cardinality(Uncounted') <= Cardinality(Requests)
  BY Moved
<1>4. TriesOK /\ tried' = tried /\ wrong' = wrong /\ faults' = faults
  BY DEF ActorsOK
<1>5. tried.free + Cardinality(Waiting')
         <= Threshold - 1 + Cardinality(Requests) + tried.uncounted
  <2>1. CASE WaitsNow(req'[r]) /\ ~WaitsNow(req[r])
    BY <1>2, <1>3, <1>4, <2>1 DEF TriesOK
  <2>2. CASE ~(WaitsNow(req'[r]) /\ ~WaitsNow(req[r]))
    <3>1. Cardinality(Waiting') <= Cardinality(Waiting)
      BY <2>2, Moved
    <3> QED  BY <1>2, <1>3, <1>4, <3>1 DEF TriesOK
  <2> QED  BY <2>1, <2>2
<1>6. TriesOK'
  BY <1>3, <1>4, <1>5 DEF TriesOK
<1> QED  BY <1>1, <1>6 DEF ActorsOK

LEMMA ActorsStay ==
    ASSUME ActorsOK, UNCHANGED <<wrong, req, faults, tried>>, e2e' \in BOOLEAN
    PROVE  ActorsOK'
  BY DEF ActorsOK, RequestOK, TriesOK, Waiting, Uncounted

LEMMA FinishingKeeps ==
    ASSUME ActorsOK, NEW r \in Requests, Finish(r), ~UncountedNow(req[r]),
           UNCHANGED <<wrong, e2e, faults, tried>>
    PROVE  ActorsOK'
<1>1. /\ req' \in [Requests -> Request] /\ req'[r] = Idle
      /\ \A q \in Requests \ {r} : req'[q] = req[q]
  BY IdleTyped DEF Finish, ActorsOK
<1>2. RequestOK(r)'
  BY <1>1, IdleTyped DEF RequestOK, AfterRow
<1> QED  BY <1>1, <1>2, IdleTyped, MovingKeeps

\* A request that is answered with a captcha, or that begins or puts back.
LEMMA BecomingKeeps ==
    ASSUME ActorsOK, NEW r \in Requests, ~UncountedNow(req[r]),
           UNCHANGED <<wrong, e2e, faults, tried>>,
           \E pc \in {"issuing", "restoring", "reading", "proving"}, name \in Names :
              req' = [req EXCEPT ![r] = [Idle EXCEPT !.pc = pc, !.name = name]]
    PROVE  ActorsOK'
<1>1. PICK pc \in {"issuing", "restoring", "reading", "proving"}, name \in Names :
         req' = [req EXCEPT ![r] = [Idle EXCEPT !.pc = pc, !.name = name]]
  OBVIOUS
<1> DEFINE next == [Idle EXCEPT !.pc = pc, !.name = name]
<1>2. next \in Request /\ next.pc = pc /\ next.name = name /\ ~next.free
  <2>1. pc \in Steps
    BY DEF Steps
  <2> QED  BY <2>1, IdleWith
<1>3. req' = [req EXCEPT ![r] = next]
  BY <1>1
<1> HIDE DEF next
<1>4. /\ req' \in [Requests -> Request] /\ req'[r] = next
      /\ \A q \in Requests \ {r} : req'[q] = req[q]
  BY <1>2, <1>3 DEF ActorsOK
<1>5. RequestOK(r)'
  BY <1>2, <1>4 DEF RequestOK, AfterRow
<1>6. ~WaitsNow(req'[r]) /\ ~UncountedNow(req'[r])
  BY <1>2, <1>4 DEF WaitsNow, UncountedNow
<1> QED  BY <1>4, <1>5, <1>6, MovingKeeps

LEMMA AnsweringKeeps ==
    ASSUME ActorsOK, NEW r \in Requests, ~UncountedNow(req[r]),
           UNCHANGED <<wrong, e2e, faults, tried>>,
           \E name \in Names : AnswerWithCaptcha(r, name)
    PROVE  ActorsOK'
  BY BecomingKeeps DEF AnswerWithCaptcha
-----------------------------------------------------------------------------
(* The actions.                                                            *)

LEMMA ExpireKeeps ==
    ASSUME Inv, NEW id \in Ids, Expire(id)
    PROVE  Inv'
<1>1. LedgerOK'
  BY InvParts, TakingKeeps DEF Expire, Take
<1>2. ActorsOK'
  BY InvParts, ActorsStay DEF Expire, ActorsOK
<1> QED  BY <1>1, <1>2, Together

LEMMA IssuingKeeps ==
    ASSUME Inv,
           \/ \E purpose \in Purposes : Challenge(purpose)
           \/ \E s \in Subjects : IssueSliderChallenge(s)
    PROVE  Inv'
<1>1. ASSUME NEW purpose \in Purposes, Challenge(purpose)
      PROVE  LedgerOK'
  <2> DEFINE entry == [purpose |-> purpose, name |-> "any", drag |-> TRUE]
  <2>1. entry \in Entry /\ PutNew(Challenges, entry)
    BY <1>1 DEF Entry, Challenge
  <2>2. \A id \in Challenges : <<Kind(id), entry.purpose, entry.name>> \in Passes
    BY KindsOfIds DEF Passes
  <2>3. entry.drag /\ Challenges \in SUBSET Ids
    BY DEF Ids
  <2> HIDE DEF entry
  <2> QED  BY <2>1, <2>2, <2>3, InvParts, PuttingNewKeeps
<1>2. ASSUME NEW s \in Subjects, IssueSliderChallenge(s)
      PROVE  LedgerOK'
  <2> DEFINE entry == [purpose |-> s[1], name |-> s[2], drag |-> TRUE]
  <2>1. s[1] \in Purposes /\ s[2] \in Names
    BY LoginConfig DEF Purposes, Names
  <2>2. entry \in Entry /\ PutNew(Sliders, entry)
    BY <1>2, <2>1 DEF Entry, IssueSliderChallenge
  <2>3. \A id \in Sliders : <<Kind(id), entry.purpose, entry.name>> \in Passes
    BY <2>1, KindsOfIds DEF Passes
  <2>4. entry.drag /\ Sliders \in SUBSET Ids
    BY DEF Ids
  <2> HIDE DEF entry
  <2> QED  BY <2>2, <2>3, <2>4, InvParts, PuttingNewKeeps
<1>3. ActorsOK'
  BY InvParts, ActorsStay DEF Challenge, IssueSliderChallenge, ActorsOK
<1> QED  BY <1>1, <1>2, <1>3, Together

\* The captcha of an answer, and the one that is put back.
LEMMA PutCaptchaKeeps ==
    ASSUME Inv, NEW r \in Requests, NewChallenge(r) \/ Restore(r)
    PROVE  Inv'
<1> DEFINE entry == [purpose |-> "login", name |-> req[r].name, drag |-> TRUE]
<1>1. /\ PutNew(Captchas, entry) /\ Finish(r)
      /\ req[r].pc \in {"issuing", "restoring"}
      /\ UNCHANGED <<wrong, e2e, faults, tried>>
  BY DEF NewChallenge, Restore
<1>2. req[r].name \in Names
  BY <1>1, InvParts DEF ActorsOK, RequestOK
<1>3. entry \in Entry /\ entry.drag /\ Captchas \in SUBSET Ids
  BY <1>2 DEF Entry, Purposes, Ids
<1>4. \A id \in Captchas : <<Kind(id), entry.purpose, entry.name>> \in Passes
  BY <1>2, KindsOfIds DEF Passes
<1> HIDE DEF entry
<1>5. LedgerOK'
  BY <1>1, <1>3, <1>4, InvParts, PuttingNewKeeps
<1>6. ActorsOK'
  BY <1>1, InvParts, FinishingKeeps DEF UncountedNow
<1> QED  BY <1>5, <1>6, Together

LEMMA PutProofKeeps ==
    ASSUME Inv, NEW r \in Requests, PutProof(r)
    PROVE  Inv'
<1> DEFINE entry == [purpose |-> req[r].purpose, name |-> req[r].name, drag |-> req[r].drag]
<1>1. /\ PutNew(Proofs, entry) /\ Finish(r)
      /\ req[r].pc = "proofing"
      /\ UNCHANGED <<wrong, e2e, faults, tried>>
  BY DEF PutProof
<1>2. req[r].name \in Names /\ req[r].purpose \in Purposes /\ req[r].drag \in BOOLEAN
  BY <1>1, InvParts DEF ActorsOK, RequestOK, Request
<1>3. entry \in Entry /\ Proofs \in SUBSET Ids
  BY <1>2 DEF Entry, Ids
<1>4. \A id \in Proofs : <<Kind(id), entry.purpose, entry.name>> \in Passes
  BY <1>2, KindsOfIds DEF Passes
<1> HIDE DEF entry
<1>5. LedgerOK'
  BY <1>1, <1>3, <1>4, InvParts, PuttingNewKeeps
<1>6. ActorsOK'
  BY <1>1, InvParts, FinishingKeeps DEF UncountedNow
<1> QED  BY <1>5, <1>6, Together

LEMMA VerifySliderKeeps ==
    ASSUME Inv, NEW r \in Requests, VerifySlider(r)
    PROVE  Inv'
<1>1. PICK id \in Sliders, s \in Subjects, drag \in BOOLEAN :
         /\ Stored(id)
         /\ IF store[id].purpose = s[1] /\ store[id].name = s[2] /\ (e2e \/ drag)
            THEN /\ Use(id, <<"slider", s[1], s[2]>>)
                 /\ req' = [req EXCEPT ![r] =
                               [pc |-> "proofing", purpose |-> s[1], name |-> s[2],
                                drag |-> ~e2e, free |-> FALSE]]
            ELSE Waste(id) /\ UNCHANGED req
  BY DEF VerifySlider
<1>2. /\ req[r].pc = "idle" /\ UNCHANGED <<wrong, e2e, faults, tried>>
      /\ LedgerOK /\ ActorsOK
  BY InvParts DEF VerifySlider
<1>3. id \in Ids /\ Kind(id) = "slider" /\ store[id].drag
  BY <1>1, <1>2, KindsOfIds, StoredPasses DEF Ids
<1>4. CASE store[id].purpose = s[1] /\ store[id].name = s[2] /\ (e2e \/ drag)
  <2> DEFINE next == [pc |-> "proofing", purpose |-> s[1], name |-> s[2],
                      drag |-> ~e2e, free |-> FALSE]
  <2>1. Use(id, Pass(id)) /\ req' = [req EXCEPT ![r] = next]
    BY <1>1, <1>3, <1>4 DEF Pass
  <2>2. s[1] \in Purposes /\ s[2] \in Names /\ e2e \in BOOLEAN
    BY <1>2, LoginConfig DEF Purposes, Names, ActorsOK
  <2>3. /\ next \in Request /\ next.pc = "proofing"
        /\ next.purpose \in Purposes /\ next.name \in Names
    BY <2>2 DEF Request, Steps
  <2> HIDE DEF next
  <2>4. /\ req' \in [Requests -> Request] /\ req'[r] = next
        /\ \A q \in Requests \ {r} : req'[q] = req[q]
    BY <1>2, <2>1, <2>3 DEF ActorsOK
  <2>5. RequestOK(r)'
    BY <2>3, <2>4 DEF RequestOK, AfterRow
  <2>6. ActorsOK'
    BY <1>2, <2>3, <2>4, <2>5, MovingKeeps DEF WaitsNow, UncountedNow
  <2>7. LedgerOK'
    BY <1>1, <1>2, <1>3, <2>1, UsingKeeps
  <2> QED  BY <2>6, <2>7, Together
<1>5. CASE ~(store[id].purpose = s[1] /\ store[id].name = s[2] /\ (e2e \/ drag))
  <2>1. LedgerOK'
    BY <1>1, <1>2, <1>3, <1>5, WastingKeeps
  <2>2. ActorsOK'
    BY <1>1, <1>2, <1>5, ActorsStay DEF ActorsOK
  <2> QED  BY <2>1, <2>2, Together
<1> QED  BY <1>4, <1>5

LEMMA AskingKeeps ==
    ASSUME Inv, NEW r \in Requests, LoginVerification(r) \/ RefreshChallenge(r)
    PROVE  Inv'
<1>1. CASE LoginVerification(r)
  <2>1. ActorsOK'
    BY <1>1, InvParts, AnsweringKeeps DEF LoginVerification, UncountedNow, Names
  <2>2. LedgerOK'
    BY <1>1, InvParts, LedgerStays DEF LoginVerification
  <2> QED  BY <2>1, <2>2, Together
<1>2. CASE RefreshChallenge(r)
  <2>1. PICK id \in Captchas :
           Stored(id) /\ Waste(id) /\ AnswerWithCaptcha(r, store[id].name)
    BY <1>2 DEF RefreshChallenge
  <2>2. id \in Ids /\ store[id].name \in Names
    BY <2>1, InvParts, StoredPasses DEF Ids
  <2>3. ActorsOK'
    BY <1>2, <2>1, <2>2, InvParts, AnsweringKeeps DEF RefreshChallenge, UncountedNow
  <2>4. LedgerOK'
    BY <2>1, <2>2, InvParts, WastingKeeps
  <2> QED  BY <2>3, <2>4, Together
<1> QED  BY <1>1, <1>2

LEMMA VerifyLoginCaptchaKeeps ==
    ASSUME Inv, NEW r \in Requests, VerifyLoginCaptcha(r)
    PROVE  Inv'
<1>1. /\ req[r].pc = "idle" /\ UNCHANGED <<wrong, e2e, faults, tried>>
      /\ ~UncountedNow(req[r]) /\ LedgerOK /\ ActorsOK
  BY InvParts DEF VerifyLoginCaptcha, UncountedNow
<1>2. PICK name \in Names :
         \/ AnswerWithCaptcha(r, name) /\ UNCHANGED <<store, credit>>
         \/ \E id \in Captchas, solved \in BOOLEAN :
              /\ Stored(id)
              /\ Waste(id)
              /\ IF store[id].name = name /\ (solved \/ e2e)
                 THEN req' = [req EXCEPT ![r] = [Idle EXCEPT !.pc = "restoring", !.name = name]]
                 ELSE AnswerWithCaptcha(r, name)
  BY DEF VerifyLoginCaptcha
<1>3. LedgerOK'
  <2>1. CASE UNCHANGED <<store, credit>>
    BY <1>1, <2>1, LedgerStays
  <2>2. CASE \E id \in Captchas : Stored(id) /\ Waste(id)
    BY <1>1, <2>2, WastingKeeps DEF Ids
  <2> QED  BY <1>2, <2>1, <2>2
<1>4. ActorsOK'
  <2>1. CASE AnswerWithCaptcha(r, name)
    BY <1>1, <2>1, AnsweringKeeps
  <2>2. CASE req' = [req EXCEPT ![r] = [Idle EXCEPT !.pc = "restoring", !.name = name]]
    BY <1>1, <2>2, BecomingKeeps
  <2> QED  BY <1>2, <2>1, <2>2
<1> QED  BY <1>3, <1>4, Together

\* Somebody takes a challenge, of his own type or not.
LEMMA OpeningKeeps ==
    ASSUME Inv, NEW r \in Requests, Open(r) \/ OpenRegistration(r)
    PROVE  Inv'
<1>1. /\ UNCHANGED <<wrong, e2e, faults, tried>>
      /\ ~UncountedNow(req[r]) /\ LedgerOK /\ ActorsOK
  BY InvParts DEF Open, OpenRegistration, UncountedNow
<1>2. PICK id \in Challenges, name \in Names, purpose \in Purposes,
           pc \in {"reading", "proving"} :
         /\ Stored(id)
         /\ IF store[id].purpose = purpose
            THEN /\ Use(id, <<"challenge", purpose, "any">>)
                 /\ req' = [req EXCEPT ![r] = [Idle EXCEPT !.pc = pc, !.name = name]]
            ELSE Waste(id) /\ UNCHANGED req
  <2>1. CASE Open(r)
    BY <2>1 DEF Open, Purposes
  <2>2. CASE OpenRegistration(r)
    BY <2>2 DEF OpenRegistration, Purposes
  <2> QED  BY <2>1, <2>2
<1>3. id \in Ids /\ Kind(id) = "challenge" /\ store[id].drag /\ store[id].name = "any"
  BY <1>1, <1>2, KindsOfIds, StoredPasses DEF Ids
<1>4. CASE store[id].purpose = purpose
  <2>1. Use(id, Pass(id))
    BY <1>2, <1>3, <1>4 DEF Pass
  <2>2. LedgerOK'
    BY <1>1, <1>2, <1>3, <2>1, UsingKeeps
  <2>3. ActorsOK'
    BY <1>1, <1>2, <1>4, BecomingKeeps
  <2> QED  BY <2>2, <2>3, Together
<1>5. CASE store[id].purpose # purpose
  <2>1. LedgerOK'
    BY <1>1, <1>2, <1>3, <1>5, WastingKeeps
  <2>2. ActorsOK'
    BY <1>1, <1>2, <1>5, ActorsStay DEF ActorsOK
  <2> QED  BY <2>1, <2>2, Together
<1> QED  BY <1>4, <1>5

\* A request goes on with the same name, and is let past the count only below
\* the threshold.
LEMMA GoingKeeps ==
    ASSUME ActorsOK, NEW r \in Requests, UNCHANGED <<wrong, e2e, faults, tried>>,
           req[r].name = "known", ~UncountedNow(req[r]),
           \E pc \in {"solving", "gating", "comparing"} :
              /\ Goto(r, pc)
              /\ pc = "gating" => wrong < Threshold
              /\ pc \in {"solving", "comparing"} => ~req[r].free
    PROVE  ActorsOK'
<1>1. PICK pc \in {"solving", "gating", "comparing"} :
         /\ Goto(r, pc)
         /\ pc = "gating" => wrong < Threshold
         /\ pc \in {"solving", "comparing"} => ~req[r].free
  OBVIOUS
<1> DEFINE next == [req[r] EXCEPT !.pc = pc]
<1>2. req[r] \in Request /\ pc \in Steps
  BY DEF ActorsOK, Steps
<1>3. /\ next \in Request /\ next.pc = pc /\ next.name = "known"
      /\ next.free = req[r].free
  BY <1>2, GoneTo
<1>4. req' = [req EXCEPT ![r] = next]
  BY <1>1 DEF Goto
<1> HIDE DEF next
<1>5. /\ req' \in [Requests -> Request] /\ req'[r] = next
      /\ \A q \in Requests \ {r} : req'[q] = req[q]
  BY <1>3, <1>4 DEF ActorsOK
<1>6. RequestOK(r)'
  BY <1>1, <1>3, <1>5 DEF RequestOK, Names
<1>7. /\ WaitsNow(req'[r]) => wrong < Threshold
      /\ ~UncountedNow(req'[r])
  BY <1>1, <1>3, <1>5 DEF WaitsNow, UncountedNow
<1> QED  BY <1>5, <1>6, <1>7, MovingKeeps

LEMMA LoginUserKeeps ==
    ASSUME Inv, NEW r \in Requests, LoginUser(r)
    PROVE  Inv'
<1>1. /\ UNCHANGED <<store, wrong, e2e, faults, credit, tried>>
      /\ req[r].pc = "reading" /\ ~UncountedNow(req[r])
      /\ LedgerOK /\ ActorsOK /\ wrong \in Nat /\ Threshold \in Nat
  BY InvParts, LoginConfig DEF LoginUser, UncountedNow, ActorsOK
<1>2. LedgerOK'
  BY <1>1, LedgerStays
<1>3. CASE req[r].name = "known"
  <2>1. CASE wrong >= Threshold
    <3>1. ~req[r].free
      BY <1>1 DEF ActorsOK, RequestOK
    <3> QED  BY <3>1, <1>1, <1>2, <1>3, <2>1, GoingKeeps, Together DEF LoginUser
  <2>2. CASE ~(wrong >= Threshold)
    BY <1>1, <1>2, <1>3, <2>2, GoingKeeps, Together DEF LoginUser
  <2> QED  BY <2>1, <2>2
<1>4. CASE req[r].name # "known"
  BY <1>1, <1>2, <1>4, FinishingKeeps, Together DEF LoginUser
<1> QED  BY <1>3, <1>4

LEMMA VerifyKeeps ==
    ASSUME Inv, NEW r \in Requests, Verify(r)
    PROVE  Inv'
<1>1. /\ UNCHANGED <<wrong, e2e, faults, tried>>
      /\ req[r].pc = "solving" /\ ~UncountedNow(req[r])
      /\ LedgerOK /\ ActorsOK
      /\ req[r].name = "known" /\ ~req[r].free
  BY InvParts DEF Verify, UncountedNow, ActorsOK, RequestOK, AfterRow
<1>2. CASE AnswerWithCaptcha(r, "known") /\ UNCHANGED <<store, credit>>
  BY <1>1, <1>2, LedgerStays, AnsweringKeeps, Together DEF Names
<1>3. CASE ~(AnswerWithCaptcha(r, "known") /\ UNCHANGED <<store, credit>>)
  <2>1. PICK id \in Captchas, solved \in BOOLEAN :
           /\ Stored(id)
           /\ IF store[id].name = "known" /\ (solved \/ e2e)
              THEN /\ Use(id, <<"captcha", "login", "known">>)
                   /\ Goto(r, "comparing")
              ELSE Waste(id) /\ AnswerWithCaptcha(r, "known")
    BY <1>3 DEF Verify
  <2>2. id \in Ids /\ Kind(id) = "captcha" /\ store[id].drag /\ store[id].purpose = "login"
    BY <1>1, <2>1, KindsOfIds, StoredPasses DEF Ids
  <2>3. CASE store[id].name = "known" /\ (solved \/ e2e)
    <3>1. Use(id, Pass(id)) /\ Goto(r, "comparing")
      BY <2>1, <2>2, <2>3 DEF Pass
    <3>2. LedgerOK'
      BY <1>1, <2>1, <2>2, <3>1, UsingKeeps
    <3>3. ActorsOK'
      BY <1>1, <3>1, GoingKeeps
    <3> QED  BY <3>2, <3>3, Together
  <2>4. CASE ~(store[id].name = "known" /\ (solved \/ e2e))
    <3>1. LedgerOK'
      BY <1>1, <2>1, <2>2, <2>4, WastingKeeps
    <3>2. ActorsOK'
      BY <1>1, <2>1, <2>4, AnsweringKeeps DEF Names
    <3> QED  BY <3>1, <3>2, Together
  <2> QED  BY <2>3, <2>4
<1> QED  BY <1>2, <1>3

\* A slider proof opens the way to the comparison, for who waited for it, or to
\* the registration.
LEMMA ConsumingKeeps ==
    ASSUME Inv, NEW r \in Requests, Gate(r) \/ Prove(r)
    PROVE  Inv'
<1>1. /\ UNCHANGED <<wrong, e2e, faults, tried>>
      /\ req[r].pc \in {"gating", "proving"} /\ ~UncountedNow(req[r])
      /\ LedgerOK /\ ActorsOK /\ req[r] \in Request
      /\ req[r].pc = "gating" => req[r].name = "known"
  BY InvParts DEF Gate, Prove, UncountedNow, ActorsOK, RequestOK, AfterRow
<1>2. PICK purpose \in Purposes, pc \in {"comparing", "registering"} :
         /\ ConsumeProof(r, purpose, pc)
         /\ pc = "comparing" => req[r].pc = "gating"
  <2>1. CASE Gate(r)
    BY <2>1 DEF Gate, Purposes
  <2>2. CASE Prove(r)
    BY <2>2 DEF Prove, Purposes
  <2> QED  BY <2>1, <2>2
<1>3. CASE Finish(r) /\ UNCHANGED <<store, credit>>
  BY <1>1, <1>3, LedgerStays, FinishingKeeps, Together
<1>4. CASE ~(Finish(r) /\ UNCHANGED <<store, credit>>)
  <2>1. PICK id \in Proofs :
         /\ Stored(id)
         /\ IF /\ store[id].purpose = purpose /\ store[id].name = req[r].name
               /\ store[id].drag \/ e2e
            THEN /\ Use(id, <<"proof", purpose, req[r].name>>)
                 /\ req' = [req EXCEPT ![r] = [@ EXCEPT !.pc = pc, !.free = TRUE]]
            ELSE Waste(id) /\ Finish(r)
    BY <1>2, <1>4 DEF ConsumeProof
  <2>2. id \in Ids /\ Kind(id) = "proof"
    BY KindsOfIds DEF Ids
  <2>3. CASE /\ store[id].purpose = purpose /\ store[id].name = req[r].name
             /\ store[id].drag \/ e2e
    <3> DEFINE next == [req[r] EXCEPT !.pc = pc, !.free = TRUE]
    <3>1. Use(id, Pass(id)) /\ req' = [req EXCEPT ![r] = next]
      BY <1>1, <2>1, <2>2, <2>3 DEF Pass, ActorsOK
    <3>2. next \in Request /\ next.pc = pc /\ next.name = req[r].name
      BY <1>1 DEF Request, Steps
    <3> HIDE DEF next
    <3>3. /\ req' \in [Requests -> Request] /\ req'[r] = next
          /\ \A q \in Requests \ {r} : req'[q] = req[q]
      BY <1>1, <3>1, <3>2 DEF ActorsOK
    <3>4. RequestOK(r)'
      BY <1>1, <1>2, <3>2, <3>3 DEF RequestOK, AfterRow
    <3>5. /\ WaitsNow(req'[r]) => WaitsNow(req[r])
          /\ ~UncountedNow(req'[r])
      BY <1>2, <3>2, <3>3 DEF WaitsNow, UncountedNow
    <3>6. ActorsOK'
      BY <1>1, <3>3, <3>4, <3>5, MovingKeeps
    <3>7. LedgerOK'
      BY <1>1, <2>1, <2>2, <2>3, <3>1, UsingKeeps
    <3> QED  BY <3>6, <3>7, Together
  <2>4. CASE ~(/\ store[id].purpose = purpose /\ store[id].name = req[r].name
               /\ store[id].drag \/ e2e)
    <3>1. LedgerOK'
      BY <1>1, <2>1, <2>2, <2>4, WastingKeeps
    <3>2. ActorsOK'
      BY <1>1, <2>1, <2>4, FinishingKeeps
    <3> QED  BY <3>1, <3>2, Together
  <2> QED  BY <2>3, <2>4
<1> QED  BY <1>3, <1>4

\* The counts as numbers.
LEMMA Numbers ==
    ASSUME ActorsOK
    PROVE  /\ wrong \in Nat /\ faults \in Nat
           /\ tried.free \in Nat /\ tried.uncounted \in Nat
           /\ Threshold \in Nat /\ Threshold > 0 /\ MaxWrong \in Nat /\ MaxFaults \in Nat
           /\ Cardinality(Requests) \in Nat
           /\ Cardinality(Waiting) \in Nat /\ Cardinality(Uncounted) \in Nat
           /\ TriesOK
<1>1. Waiting \in SUBSET Requests /\ Uncounted \in SUBSET Requests
  BY DEF Waiting, Uncounted
<1> QED  BY <1>1, Room, LoginConfig DEF ActorsOK

\* A free try is counted on at once.
LEMMA IncorrectPasswordKeeps ==
    ASSUME Inv, NEW r \in Requests, IncorrectPassword(r)
    PROVE  Inv'
<1> DEFINE next == [req[r] EXCEPT !.pc = "recording"]
<1>1. /\ UNCHANGED <<store, wrong, e2e, faults, credit>>
      /\ req[r].pc = "comparing" /\ LedgerOK /\ ActorsOK /\ req[r] \in Request
      /\ req[r].name = "known"
  BY InvParts DEF IncorrectPassword, ActorsOK, RequestOK, AfterRow
<1>2. req' = [req EXCEPT ![r] = next]
  BY <1>1 DEF IncorrectPassword, ActorsOK
<1>3. /\ next \in Request /\ next.pc = "recording" /\ next.name = "known"
      /\ next.free = req[r].free
  BY <1>1, GoneTo DEF Steps
<1> HIDE DEF next
<1>4. /\ req' \in [Requests -> Request] /\ req'[r] = next
      /\ \A q \in Requests \ {r} : req'[q] = req[q]
  BY <1>1, <1>2, <1>3 DEF ActorsOK
<1>5. \A q \in Requests : RequestOK(q)'
  BY <1>1, <1>3, <1>4 DEF ActorsOK, RequestOK
<1>6. /\ WaitsNow(req[r]) <=> req[r].free
      /\ ~WaitsNow(req'[r])
      /\ ~UncountedNow(req[r]) /\ (UncountedNow(req'[r]) <=> req[r].free)
  BY <1>1, <1>3, <1>4 DEF WaitsNow, UncountedNow
<1>7. tried' \in [free : Nat, uncounted : 0 .. MaxFaults] /\ TriesOK'
  <2>1. CASE req[r].free
    <3>1. /\ Cardinality(Waiting') = Cardinality(Waiting) - 1
          /\ Cardinality(Uncounted') = Cardinality(Uncounted) + 1
      BY <1>1, <1>4, <1>6, <2>1, Moved
    <3>2. /\ tried' \in [free : Nat, uncounted : 0 .. MaxFaults]
          /\ tried'.free = tried.free + 1 /\ tried'.uncounted = tried.uncounted
      BY <1>1, <2>1 DEF IncorrectPassword, ActorsOK
    <3> QED  BY <1>1, <3>1, <3>2, Numbers DEF TriesOK
  <2>2. CASE ~req[r].free
    <3>1. /\ Cardinality(Waiting') = Cardinality(Waiting)
          /\ Cardinality(Uncounted') = Cardinality(Uncounted)
      BY <1>1, <1>4, <1>6, <2>2, Moved
    <3>2. tried' = tried
      BY <2>2 DEF IncorrectPassword
    <3> QED  BY <1>1, <3>1, <3>2, Numbers DEF TriesOK, ActorsOK
  <2> QED  BY <2>1, <2>2
<1>8. ActorsOK'
  BY <1>1, <1>4, <1>5, <1>7 DEF ActorsOK
<1>9. LedgerOK'
  BY <1>1, LedgerStays
<1> QED  BY <1>8, <1>9, Together

\* What ends a request that has tried: it is counted in the row, or lost.
LEMMA EndingKeeps ==
    ASSUME ActorsOK, NEW r \in Requests, req' \in [Requests -> Request],
           \A q \in Requests \ {r} : req'[q] = req[q],
           RequestOK(r)', ~WaitsNow(req'[r]), ~UncountedNow(req'[r]),
           UNCHANGED e2e, wrong' \in 0 .. MaxWrong, faults' \in 0 .. MaxFaults,
           tried' \in [free : Nat, uncounted : 0 .. MaxFaults],
           tried'.free = tried.free,
           tried'.uncounted \in {tried.uncounted, tried.uncounted + 1},
           wrong' \in {wrong, wrong + 1},
           tried'.uncounted <= faults',
           UncountedNow(req[r]) =>
              wrong' = wrong + 1 \/ tried'.uncounted = tried.uncounted + 1
    PROVE  ActorsOK'
<1>1. \A q \in Requests : RequestOK(q)'
  BY DEF ActorsOK, RequestOK
<1>2. /\ Cardinality(Waiting') <= Cardinality(Waiting)
      /\ Cardinality(Waiting') \in Nat
      /\ Cardinality(Uncounted') = Cardinality(Uncounted)
            - (IF UncountedNow(req[r]) THEN 1 ELSE 0)
  BY Moved
<1>3. tried'.free + Cardinality(Waiting')
         <= Threshold - 1 + Cardinality(Requests) + tried'.uncounted
  BY <1>2, Numbers DEF TriesOK
<1>4. tried'.free <= wrong' + Cardinality(Uncounted') + tried'.uncounted
  BY <1>2, Numbers DEF TriesOK
<1> QED  BY <1>1, <1>3, <1>4 DEF ActorsOK, TriesOK

LEMMA RecordWrongPasswordKeeps ==
    ASSUME Inv, NEW r \in Requests, RecordWrongPassword(r)
    PROVE  Inv'
<1>1. /\ UNCHANGED <<store, e2e, faults, credit, tried>>
      /\ wrong' = wrong + 1 /\ LedgerOK /\ ActorsOK
      /\ wrong < MaxWrong
  BY InvParts DEF RecordWrongPassword
<1>2. PICK next \in Request :
         /\ req' = [req EXCEPT ![r] = next]
         /\ next.pc \in {"idle", "issuing"}
         /\ next.pc = "issuing" => next.name \in Names
  <2>1. CASE Finish(r)
    BY <2>1, IdleTyped DEF Finish
  <2>2. CASE AnswerWithCaptcha(r, "known")
    <3> DEFINE next == [Idle EXCEPT !.pc = "issuing", !.name = "known"]
    <3>1. next \in Request /\ next.pc = "issuing" /\ next.name \in Names
      BY IdleWith DEF Steps, Names
    <3>2. req' = [req EXCEPT ![r] = next]
      BY <2>2 DEF AnswerWithCaptcha
    <3> HIDE DEF next
    <3> QED  BY <3>1, <3>2
  <2> QED  BY <2>1, <2>2 DEF RecordWrongPassword
<1>3. /\ req' \in [Requests -> Request] /\ req'[r] = next
      /\ \A q \in Requests \ {r} : req'[q] = req[q]
  BY <1>1, <1>2 DEF ActorsOK
<1>4. RequestOK(r)' /\ ~WaitsNow(req'[r]) /\ ~UncountedNow(req'[r])
  BY <1>2, <1>3 DEF RequestOK, AfterRow, WaitsNow, UncountedNow
<1>5. wrong' \in 0 .. MaxWrong /\ tried.uncounted <= faults
  BY <1>1, Numbers DEF TriesOK
<1>6. ActorsOK'
  BY <1>1, <1>3, <1>4, <1>5, EndingKeeps, Numbers DEF ActorsOK
<1> QED  BY <1>1, <1>6, LedgerStays, Together

LEMMA AbortKeeps ==
    ASSUME Inv, NEW r \in Requests, Abort(r)
    PROVE  Inv'
<1>1. /\ UNCHANGED <<store, wrong, e2e, credit>>
      /\ faults' = faults + 1 /\ faults < MaxFaults
      /\ LedgerOK /\ ActorsOK
      /\ tried' = IF req[r].pc = "recording" THEN [tried EXCEPT !.uncounted = @ + 1] ELSE tried
  BY InvParts DEF Abort
<1>2. /\ req' \in [Requests -> Request] /\ req'[r] = Idle
      /\ \A q \in Requests \ {r} : req'[q] = req[q]
  BY <1>1, IdleTyped DEF ActorsOK, Abort, Finish
<1>3. RequestOK(r)' /\ ~WaitsNow(req'[r]) /\ ~UncountedNow(req'[r])
  BY <1>2, IdleTyped DEF RequestOK, AfterRow
<1>4. /\ tried \in [free : Nat, uncounted : 0 .. MaxFaults]
      /\ tried.uncounted + 1 \in 0 .. MaxFaults /\ faults' \in 0 .. MaxFaults
  BY <1>1, Numbers DEF TriesOK, ActorsOK
<1>5. CASE req[r].pc = "recording"
  <2>1. /\ tried' \in [free : Nat, uncounted : 0 .. MaxFaults]
        /\ tried'.free = tried.free /\ tried'.uncounted = tried.uncounted + 1
    BY <1>1, <1>4, <1>5
  <2>2. tried'.uncounted <= faults'
    BY <1>1, <2>1, Numbers DEF TriesOK
  <2>3. ActorsOK'
    BY <1>1, <1>2, <1>3, <1>4, <2>1, <2>2, EndingKeeps DEF ActorsOK
  <2> QED  BY <1>1, <2>3, LedgerStays, Together
<1>6. CASE req[r].pc # "recording"
  <2>1. tried' = tried /\ ~UncountedNow(req[r])
    BY <1>1, <1>6 DEF UncountedNow
  <2>2. tried'.uncounted <= faults'
    BY <1>1, <2>1, Numbers DEF TriesOK
  <2>3. ActorsOK'
    BY <1>1, <1>2, <1>3, <1>4, <2>1, <2>2, EndingKeeps DEF ActorsOK
  <2> QED  BY <1>1, <2>3, LedgerStays, Together
<1> QED  BY <1>5, <1>6

\* With nothing counted there is room for everybody.
LEMMA ForgettingKeeps ==
    ASSUME ActorsOK, Forget, UNCHANGED <<e2e, faults>>,
           req' \in [Requests -> Request], \A r \in Requests : RequestOK(r)'
    PROVE  ActorsOK'
<1>1. Waiting' \in SUBSET Requests /\ Uncounted' \in SUBSET Requests
  BY DEF Waiting, Uncounted
<1>2. /\ Cardinality(Waiting') \in Nat /\ Cardinality(Uncounted') \in Nat
      /\ Cardinality(Waiting') <= Cardinality(Requests)
  BY <1>1, Room
<1>3. /\ tried' \in [free : Nat, uncounted : 0 .. MaxFaults]
      /\ tried'.free = 0 /\ tried'.uncounted = 0
      /\ wrong' = 0 /\ wrong' \in 0 .. MaxWrong
  BY Numbers DEF Forget, Untried
<1>4. TriesOK'
  BY <1>2, <1>3, Numbers DEF TriesOK
<1> QED  BY <1>3, <1>4 DEF ActorsOK

LEMMA LoggedInKeeps ==
    ASSUME Inv, NEW r \in Requests, LoggedIn(r)
    PROVE  Inv'
<1>1. /\ UNCHANGED <<store, e2e, faults, credit>> /\ Finish(r)
      /\ ~UncountedNow(req[r]) /\ LedgerOK /\ ActorsOK
  BY InvParts DEF LoggedIn, UncountedNow
<1>2. CASE UNCHANGED <<wrong, tried>>
  BY <1>1, <1>2, FinishingKeeps, LedgerStays, Together
<1>3. CASE Forget
  <2>1. /\ req' \in [Requests -> Request] /\ req'[r] = Idle
        /\ \A q \in Requests \ {r} : req'[q] = req[q]
    BY <1>1, IdleTyped DEF Finish, ActorsOK
  <2>2. \A q \in Requests : RequestOK(q)'
    BY <1>1, <2>1, IdleTyped DEF ActorsOK, RequestOK, AfterRow
  <2>3. ActorsOK'
    BY <1>1, <1>3, <2>1, <2>2, ForgettingKeeps
  <2> QED  BY <1>1, <2>3, LedgerStays, Together
<1> QED  BY <1>2, <1>3 DEF LoggedIn

LEMMA PasswordReplacedKeeps ==
    ASSUME Inv, PasswordReplaced
    PROVE  Inv'
<1>1. /\ UNCHANGED <<store, e2e, req, faults, credit>> /\ Forget
      /\ LedgerOK /\ ActorsOK
  BY InvParts DEF PasswordReplaced
<1>2. req' \in [Requests -> Request] /\ \A r \in Requests : RequestOK(r)'
  BY <1>1 DEF ActorsOK, RequestOK
<1> QED  BY <1>1, <1>2, ForgettingKeeps, LedgerStays, Together

\* A request that needs no more pass.
LEMMA DoneKeeps ==
    ASSUME Inv, NEW r \in Requests, CorrectPassword(r) \/ Register(r)
    PROVE  Inv'
<1>1. /\ UNCHANGED <<store, wrong, e2e, faults, credit, tried>>
      /\ ~UncountedNow(req[r]) /\ LedgerOK /\ ActorsOK
  BY InvParts DEF CorrectPassword, Register, UncountedNow
<1>2. CASE Register(r)
  BY <1>1, <1>2, FinishingKeeps, LedgerStays, Together DEF Register
<1>3. CASE CorrectPassword(r)
  <2> DEFINE next == [Idle EXCEPT !.pc = "finishing"]
  <2>1. next \in Request /\ next.pc = "finishing"
    BY IdleTyped, GoneTo DEF Steps
  <2>2. req' = [req EXCEPT ![r] = next]
    BY <1>3 DEF CorrectPassword
  <2> HIDE DEF next
  <2>3. /\ req' \in [Requests -> Request] /\ req'[r] = next
        /\ \A q \in Requests \ {r} : req'[q] = req[q]
    BY <1>1, <2>1, <2>2 DEF ActorsOK
  <2>4. RequestOK(r)' /\ ~WaitsNow(req'[r]) /\ ~UncountedNow(req'[r])
    BY <2>1, <2>3 DEF RequestOK, AfterRow, WaitsNow, UncountedNow
  <2> QED  BY <1>1, <2>3, <2>4, MovingKeeps, LedgerStays, Together
<1> QED  BY <1>2, <1>3

LEMMA SwitchKeeps ==
    ASSUME Inv, Switch
    PROVE  Inv'
<1>1. e2e' \in BOOLEAN
  BY DEF Switch
<1> QED  BY <1>1, InvParts, ActorsStay, LedgerStays, Together DEF Switch
-----------------------------------------------------------------------------
(* The theorems.                                                           *)

LEMMA InitEstablishes == Init => Inv
<1> SUFFICES ASSUME Init PROVE Inv
  OBVIOUS
<1>1. store \in [Ids -> Entry \cup {Absent}] /\ credit \in [Passes -> Int] /\ EntriesOK
  BY DEF Init, EntriesOK, Stored
<1>2. \A p : Earned(p) = {}
  BY DEF Init, Earned, Absent
<1>3. CreditOK
  BY <1>2, FS_EmptySet DEF Init, CreditOK
<1>4. /\ req \in [Requests -> Request]
      /\ \A r \in Requests : req[r].pc = "idle"
  BY IdleTyped DEF Init
<1>5. \A r \in Requests : RequestOK(r)
  BY <1>4 DEF RequestOK, AfterRow
<1>6. Waiting = {} /\ Uncounted = {}
  BY <1>4 DEF Waiting, Uncounted
<1>7. Cardinality(Waiting) = 0 /\ Cardinality(Uncounted) = 0
  BY <1>6, FS_EmptySet
<1>8. tried.free = 0 /\ tried.uncounted = 0 /\ faults = 0 /\ wrong = 0
  BY DEF Init, Untried
<1>9. Cardinality(Requests) \in Nat
  BY Room
<1>10. TriesOK
  BY <1>7, <1>8, <1>9, LoginConfig DEF TriesOK
<1>11. /\ wrong \in 0 .. MaxWrong /\ faults \in 0 .. MaxFaults /\ e2e \in BOOLEAN
       /\ tried \in [free : Nat, uncounted : 0 .. MaxFaults]
  BY <1>8, LoginConfig DEF Init, Untried
<1> QED  BY <1>1, <1>3, <1>4, <1>5, <1>10, <1>11, InvParts DEF LedgerOK, ActorsOK

LEMMA NextKeeps == Inv /\ [Next]_vars => Inv'
<1> SUFFICES ASSUME Inv, [Next]_vars PROVE Inv'
  OBVIOUS
<1>1. CASE UNCHANGED vars
  BY <1>1, InvParts, LedgerStays, ActorsStay, Together DEF vars, ActorsOK
<1> QED  BY <1>1, ExpireKeeps, IssuingKeeps, PutCaptchaKeeps, PutProofKeeps,
            VerifySliderKeeps, AskingKeeps, VerifyLoginCaptchaKeeps, OpeningKeeps,
            LoginUserKeeps, VerifyKeeps, ConsumingKeeps, IncorrectPasswordKeeps,
            RecordWrongPasswordKeeps, AbortKeeps, LoggedInKeeps,
            PasswordReplacedKeeps, DoneKeeps, SwitchKeeps
   DEF Next

\* The credit of each pass is exactly what is stored of it, and every free try is
\* counted, about to be counted or lost, however requests, expiry, the switch and
\* replaced passwords meet.
THEOREM InvariantHolds == Spec => []Inv
<1>1. Init => Inv
  BY InitEstablishes
<1>2. Inv /\ [Next]_vars => Inv'
  BY NextKeeps
<1> QED  BY <1>1, <1>2, PTL DEF Spec

\* Every variable keeps its type, and a login that is past the user's row has the
\* name of a user.
THEOREM TypeCorrect == Spec => []TypeOK
<1>1. Inv => TypeOK
  BY DEF Inv
<1> QED  BY <1>1, InvariantHolds, PTL

\* Every comparison and every registration is paid with a challenge of its type
\* and a drag or captcha for its purpose and name, and each of these pays once.
THEOREM PassesAreAlwaysEarned == Spec => []PassesAreEarned
<1>1. Inv => PassesAreEarned
  BY FinitelyManyIds DEF Inv, CreditOK, PassesAreEarned
<1> QED  BY <1>1, InvariantHolds, PTL

\* Without a captcha no more wrong passwords are tried than the threshold allows
\* to each of the requests at once, those apart whose request died.
THEOREM FreeTriesAlwaysBounded == Spec => []FreeTriesAreBounded
<1>1. Inv => FreeTriesAreBounded
  BY InvParts, Numbers DEF TriesOK, FreeTriesAreBounded
<1> QED  BY <1>1, InvariantHolds, PTL
=============================================================================
