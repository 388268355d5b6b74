----------------------------- MODULE ServerProofs -----------------------------
(***************************************************************************)
(* Theorems about the server: its lifecycle and its requests (Lifecycle,   *)
(* HttpRequests), for every set of requests, servers, keys and             *)
(* deployments, and who may call what (Routes, Permissions), for every     *)
(* route table, catalog and configuration.                                 *)
(***************************************************************************)
EXTENDS HttpRequests, Permissions, SequenceTheorems, FiniteSetTheorems,
        WellFoundedInduction, TLAPS

\* What New acquires, whatever the deployment.
LEMMA PlanTyped ==
    /\ Plan \in Seq(Resources) /\ Len(Plan) \in {3, 4}
    /\ Plan[2] = "db"
<1>1. CASE deployment = "redis"
  BY <1>1 DEF Plan, Resources
<1>2. CASE deployment # "redis"
  BY <1>2 DEF Plan, Resources
<1> QED  BY <1>1, <1>2

\* The resources held stay a prefix of the plan when the next one is acquired ...
LEMMA AcquiringKeepsPrefix ==
    ASSUME NEW T, NEW s \in Seq(T), NEW t \in Seq(T), IsPrefix(s, t), Len(s) < Len(t)
    PROVE  /\ Append(s, t[Len(s) + 1]) \in Seq(T)
           /\ IsPrefix(Append(s, t[Len(s) + 1]), t)
<1> DEFINE longer == Append(s, t[Len(s) + 1])
<1>1. t[Len(s) + 1] \in T
  OBVIOUS
<1>2. longer \in Seq(T) /\ Len(longer) = Len(s) + 1
  BY <1>1
<1>3. ASSUME NEW i \in 1 .. Len(s)
      PROVE  s[i] = t[i]
  <2>1. SubSeq(s, 1, Len(s))[i] = s[i] /\ SubSeq(t, 1, Len(s))[i] = t[i]
    OBVIOUS
  <2> QED  BY <2>1 DEF IsPrefix
<1>4. ASSUME NEW i \in 1 .. Len(longer)
      PROVE  SubSeq(longer, 1, Len(longer))[i] = SubSeq(t, 1, Len(longer))[i]
  BY <1>2, <1>3
<1>5. SubSeq(longer, 1, Len(longer)) = SubSeq(t, 1, Len(longer))
  BY <1>2, <1>4
<1> QED  BY <1>2, <1>5 DEF IsPrefix

\* ... and when the last one is given back.
LEMMA ReleasingKeepsPrefix ==
    ASSUME NEW T, NEW s \in Seq(T), NEW t \in Seq(T), IsPrefix(s, t), s # <<>>
    PROVE  /\ Front(s) \in Seq(T)
           /\ IsPrefix(Front(s), t)
<1>1. Len(s) \in Nat \ {0} /\ Front(s) \in Seq(T) /\ Len(Front(s)) = Len(s) - 1
  <2>1. Len(s) \in Nat \ {0}
    OBVIOUS
  <2>2. ASSUME NEW i \in 1 .. Len(s) - 1
        PROVE  s[i] \in T
    BY <2>1, ElementOfSeq
  <2>3. SubSeq(s, 1, Len(s) - 1) \in Seq(T) /\ Len(SubSeq(s, 1, Len(s) - 1)) = Len(s) - 1
    <3> DEFINE n == Len(s) - 1
    <3>1. n \in Nat /\ n \in Int /\ \A i \in 1 .. n : s[i] \in T
      BY <2>1, <2>2
    <3>2. n - 1 + 1 = n
      BY <3>1
    <3> HIDE DEF n
    <3>3. SubSeq(s, 1, n) \in Seq(T) /\ Len(SubSeq(s, 1, n)) = IF 1 <= n THEN n - 1 + 1 ELSE 0
      BY <3>1, SubSeqProperties
    <3>4. SubSeq(s, 1, n) \in Seq(T) /\ Len(SubSeq(s, 1, n)) = n
      BY <3>1, <3>2, <3>3
    <3> QED  BY <3>4 DEF n
  <2> QED  BY <2>1, <2>3 DEF Front
<1>2. ASSUME NEW i \in 1 .. Len(s)
      PROVE  s[i] = t[i]
  <2>1. SubSeq(s, 1, Len(s))[i] = s[i] /\ SubSeq(t, 1, Len(s))[i] = t[i]
    BY DEF IsPrefix
  <2> QED  BY <2>1 DEF IsPrefix
<1>3. ASSUME NEW i \in 1 .. Len(s) - 1
      PROVE  SubSeq(Front(s), 1, Len(Front(s)))[i] = SubSeq(t, 1, Len(Front(s)))[i]
  BY <1>1, <1>2 DEF Front, IsPrefix
<1>4. SubSeq(Front(s), 1, Len(Front(s))) = SubSeq(t, 1, Len(Front(s)))
  BY <1>1, <1>3 DEF IsPrefix
<1> QED  BY <1>1, <1>4 DEF IsPrefix

LEMMA WholePrefix ==
    ASSUME NEW T, NEW s \in Seq(T), NEW t \in Seq(T), IsPrefix(s, t), Len(s) = Len(t)
    PROVE  s = t
  BY DEF IsPrefix
-----------------------------------------------------------------------------
(* The process.                                                            *)

LifecycleInv == LifecycleTypeOK /\ StagesOK

LEMMA BuildingKeeps ==
    ASSUME LifecycleInv, Start \/ Acquire \/ FailToBuild \/ Built
    PROVE  LifecycleInv'
<1> USE DEF LifecycleInv
<1>1. CASE Start
  BY <1>1 DEF Start, LifecycleTypeOK, StagesOK, Stages, Plan
<1>2. CASE Acquire
  <2>1. held' \in Seq(Resources) /\ IsPrefix(held', Plan)
    BY <1>2, PlanTyped, AcquiringKeepsPrefix DEF Acquire, Wanted, LifecycleTypeOK
  <2> QED  BY <1>2, <2>1 DEF Acquire, LifecycleTypeOK, StagesOK, Stages, Plan
<1>3. CASE FailToBuild
  BY <1>3 DEF FailToBuild, LifecycleTypeOK, StagesOK, Stages, Plan
<1>4. CASE Built
  <2>1. held = Plan
    BY <1>4, PlanTyped, WholePrefix DEF Built, LifecycleTypeOK
  <2> QED  BY <1>4, <2>1 DEF Built, LifecycleTypeOK, StagesOK, Stages, Plan
<1> QED  BY <1>1, <1>2, <1>3, <1>4

LEMMA ListeningKeeps ==
    ASSUME LifecycleInv,
           Serve \/ \E e \in Endpoints : Listen(e) \/ FailToListen(e)
    PROVE  LifecycleInv'
<1> USE LifecycleConfig DEF LifecycleInv
<1>1. CASE Serve
  BY <1>1 DEF Serve, LifecycleTypeOK, StagesOK, Stages, Plan
<1>2. ASSUME NEW e \in Endpoints, Listen(e)
      PROVE  LifecycleInv'
  BY <1>2 DEF Listen, LifecycleTypeOK, StagesOK, Stages, Plan
<1>3. ASSUME NEW e \in Endpoints, FailToListen(e)
      PROVE  LifecycleInv'
  BY <1>3 DEF FailToListen, LifecycleTypeOK, StagesOK, Stages, Plan
<1> QED  BY <1>1, <1>2, <1>3

LEMMA SignalKeeps ==
    ASSUME LifecycleInv,
           Signal \/ \E e \in Endpoints : ServerFails(e)
    PROVE  LifecycleInv'
<1> USE LifecycleConfig DEF LifecycleInv
<1>1. CASE Signal
  BY <1>1 DEF Signal, LifecycleTypeOK, StagesOK, Stages, Plan
<1>2. ASSUME NEW e \in Endpoints, ServerFails(e)
      PROVE  LifecycleInv'
  BY <1>2 DEF ServerFails, LifecycleTypeOK, StagesOK, Stages, Plan
<1> QED  BY <1>1, <1>2

\* A server that stops with requests under way has given up on them.
LEMMA DrainingKeeps ==
    ASSUME LifecycleInv,
           \/ Drain \/ ShutdownTimeout \/ Stopped
           \/ \E e \in Endpoints : Shutdown(e) \/ Drained(e)
    PROVE  LifecycleInv'
<1> USE LifecycleConfig DEF LifecycleInv
<1>1. CASE Drain
  BY <1>1 DEF Drain, LifecycleTypeOK, StagesOK, Stages, Plan
<1>2. CASE ShutdownTimeout
  BY <1>2 DEF ShutdownTimeout, LifecycleTypeOK, StagesOK, Stages, Plan
<1>3. CASE Stopped
  BY <1>3 DEF Stopped, LifecycleTypeOK, StagesOK, Stages, Plan
<1>4. ASSUME NEW e \in Endpoints, Shutdown(e)
      PROVE  LifecycleInv'
  BY <1>4 DEF Shutdown, LifecycleTypeOK, StagesOK, Stages, Plan
<1>5. ASSUME NEW e \in Endpoints, Drained(e)
      PROVE  LifecycleInv'
  <2>1. stage = "draining"
    BY <1>5 DEF Drained, LifecycleTypeOK, StagesOK, Stages
  <2>2. LifecycleTypeOK'
    BY <1>5 DEF Drained, LifecycleTypeOK, Plan
  <2>3. \A f \in Endpoints : endpoint'[f] \in {"serving", "failed", "stopping", "stopped"}
    BY <1>5, <2>1 DEF Drained, LifecycleTypeOK, StagesOK
  <2>4. endpoint'["http"] = "stopped" /\ open' # {} => forced'
    BY <1>5 DEF Drained, LifecycleTypeOK, StagesOK
  <2> QED  BY <1>5, <2>1, <2>2, <2>3, <2>4 DEF Drained, StagesOK, Plan
<1> QED  BY <1>1, <1>2, <1>3, <1>4, <1>5

LEMMA JoiningKeeps ==
    ASSUME LifecycleInv,
           Return \/ \E w \in Workers : StopWorker(w) \/ WorkerReturns(w)
    PROVE  LifecycleInv'
<1> USE LifecycleConfig DEF LifecycleInv
<1>1. CASE Return
  BY <1>1 DEF Return, LifecycleTypeOK, StagesOK, Stages, Plan
<1>2. ASSUME NEW w \in Workers, StopWorker(w)
      PROVE  LifecycleInv'
  BY <1>2 DEF StopWorker, LifecycleTypeOK, StagesOK, Stages, Plan
<1>3. ASSUME NEW w \in Workers, WorkerReturns(w)
      PROVE  LifecycleInv'
  BY <1>3 DEF WorkerReturns, LifecycleTypeOK, StagesOK, Stages, Plan
<1> QED  BY <1>1, <1>2, <1>3

LEMMA ClosingKeeps ==
    ASSUME LifecycleInv, Release \/ Exit \/ Crash
    PROVE  LifecycleInv'
<1> USE LifecycleConfig DEF LifecycleInv
<1>1. CASE Release
  <2>1. held' \in Seq(Resources) /\ IsPrefix(held', Plan)
    BY <1>1, PlanTyped, ReleasingKeepsPrefix DEF Release, LifecycleTypeOK
  <2> QED  BY <1>1, <2>1 DEF Release, LifecycleTypeOK, StagesOK, Stages, Plan
<1>2. CASE Exit
  BY <1>2 DEF Exit, Fresh, LifecycleTypeOK, StagesOK, Stages, Plan
<1>3. CASE Crash
  <2>1. held' \in Seq(Resources) /\ IsPrefix(held', Plan)
    BY <1>3, PlanTyped DEF Crash, IsPrefix, Plan
  <2> QED  BY <1>3, <2>1 DEF Crash, Fresh, LifecycleTypeOK, StagesOK, Stages, Plan
<1> QED  BY <1>1, <1>2, <1>3

\* Requests come while the HTTP server serves, and go at any time.
LEMMA TrafficKeeps ==
    ASSUME LifecycleInv, NEW r \in Requests, Accept(r) \/ Finish(r)
    PROVE  LifecycleInv'
<1> USE LifecycleConfig DEF LifecycleInv
<1>1. CASE Accept(r)
  BY <1>1 DEF Accept, LifecycleTypeOK, StagesOK, Stages, Plan
<1>2. CASE Finish(r)
  BY <1>2 DEF Finish, LifecycleTypeOK, StagesOK, Stages, Plan
<1> QED  BY <1>1, <1>2

LEMMA LifecycleStutters ==
    ASSUME LifecycleInv, UNCHANGED lifecycle
    PROVE  LifecycleInv'
  BY DEF lifecycle, LifecycleInv, LifecycleTypeOK, StagesOK, Plan

LEMMA ProcessKeeps ==
    ASSUME LifecycleInv, ProcessStep \/ WorldStep \/ Exit \/ Crash
    PROVE  LifecycleInv'
  BY BuildingKeeps, ListeningKeeps, SignalKeeps, DrainingKeeps, JoiningKeeps, ClosingKeeps
  DEF ProcessStep, WorldStep
-----------------------------------------------------------------------------
(* The requests.                                                           *)

\* What the requests and the claims say of themselves and of each other.
RequestsTyped ==
    /\ req \in [Requests -> Request]
    /\ claim \in [Keys -> Claim]
    /\ grants \in [Keys -> 0 .. 2]

RequestsOK == ClaimsOK /\ OncePerKey /\ OnlyAdmittedConsume /\ AuditIsTheAnswer

OpenOK == open = {r \in Requests : req[r].pc # "none"}

LEMMA InvParts == Inv <=> LifecycleInv /\ RequestsTyped /\ OpenOK /\ RequestsOK
  BY DEF Inv, TypeOK, LifecycleInv, RequestsTyped, OpenOK, RequestsOK

\* Whoever is turned away or let in starts from an empty request.
LEMMA Emptied ==
    ASSUME NEW pc \in Steps, NEW status \in Statuses
    PROVE  LET empty == [NoRequest EXCEPT !.pc = pc, !.status = status] IN
           empty \in Request /\ empty.pc = pc /\ empty.row = "none"
  BY DEF NoRequest, Request, Steps, Statuses

LEMMA EmptiedToEnter ==
    LET empty == [NoRequest EXCEPT !.pc = "handling"] IN
    empty \in Request /\ empty.pc = "handling" /\ empty.row = "none"
  BY DEF NoRequest, Request, Steps, Statuses

\* A request that comes, with or without a key, and one that is let to its claim.
LEMMA Comes ==
    ASSUME RequestsTyped, NEW r \in Requests, NEW key \in Keys \cup {NoKey}
    PROVE  LET come == [req[r] EXCEPT !.pc = "arrived", !.key = key] IN
           /\ come \in Request /\ come.pc = "arrived" /\ come.row = req[r].row
           /\ come.status = req[r].status
  BY DEF RequestsTyped, Request, Steps

LEMMA Admits ==
    ASSUME RequestsTyped, NEW r \in Requests
    PROVE  LET let == [req[r] EXCEPT !.pc = "claiming", !.admitted = TRUE] IN
           /\ let \in Request /\ let.pc = "claiming" /\ let.admitted
           /\ let.key = req[r].key /\ let.row = req[r].row /\ let.status = req[r].status
           /\ [To(r, "claiming") EXCEPT ![r].admitted = TRUE] = [req EXCEPT ![r] = let]
<1> DEFINE let == [req[r] EXCEPT !.pc = "claiming", !.admitted = TRUE]
<1>1. req \in [Requests -> Request] /\ req[r] \in Request
  BY DEF RequestsTyped
<1>2. /\ let \in Request /\ let.pc = "claiming" /\ let.admitted
      /\ let.key = req[r].key /\ let.row = req[r].row /\ let.status = req[r].status
  BY <1>1 DEF Request, Steps
<1>3. [To(r, "claiming") EXCEPT ![r].admitted = TRUE] = [req EXCEPT ![r] = let]
  BY <1>1, Zenon DEF To
<1> QED  BY <1>2, <1>3

LEMMA Rejecting ==
    ASSUME RequestsTyped, NEW r \in Requests, NEW status \in Statuses
    PROVE  /\ Reject(r, status) \in [Requests -> Request]
           /\ \A q \in Requests \ {r} : Reject(r, status)[q] = req[q]
           /\ Reject(r, status)[r].pc = "unwinding"
           /\ Reject(r, status)[r].row = "none"
<1> DEFINE empty == [NoRequest EXCEPT !.pc = "unwinding", !.status = status]
<1>1. empty \in Request /\ empty.pc = "unwinding" /\ empty.row = "none"
  BY Emptied DEF Steps
<1>2. Reject(r, status) = [req EXCEPT ![r] = empty]
  BY DEF Reject
<1> HIDE DEF empty
<1> QED  BY <1>1, <1>2 DEF RequestsTyped

LEMMA Entering ==
    ASSUME RequestsTyped, NEW r \in Requests
    PROVE  /\ Enter(r) \in [Requests -> Request]
           /\ \A q \in Requests \ {r} : Enter(r)[q] = req[q]
           /\ Enter(r)[r].pc = "handling"
           /\ Enter(r)[r].row = "none"
<1> DEFINE empty == [NoRequest EXCEPT !.pc = "handling"]
<1>1. empty \in Request /\ empty.pc = "handling" /\ empty.row = "none"
  BY EmptiedToEnter
<1>2. Enter(r) = [req EXCEPT ![r] = empty]
  BY DEF Enter
<1> HIDE DEF empty
<1> QED  BY <1>1, <1>2 DEF RequestsTyped

\* A step of one request that neither opens nor closes it, and that leaves it
\* outside of the claim and of the audit, disturbs nothing.
LEMMA MovingOn ==
    ASSUME Inv, NEW r \in Requests, UNCHANGED <<lifecycle, claim, grants>>,
           req[r].pc # "none",
           req' \in [Requests -> Request],
           \A q \in Requests \ {r} : req'[q] = req[q],
           req'[r].pc \notin {"none", "claiming"},
           req'[r].row # "none" =>
               req'[r].pc = "audited" /\ req'[r].row = Sent(req'[r].status)
    PROVE  Inv'
<1>1. LifecycleInv'
  BY LifecycleStutters, InvParts
<1>2. RequestsTyped' /\ OpenOK'
  BY InvParts DEF RequestsTyped, OpenOK, lifecycle
<1>3. RequestsOK'
  BY InvParts DEF RequestsOK, ClaimsOK, OncePerKey, OnlyAdmittedConsume, AuditIsTheAnswer,
                  Sent
<1> QED  BY <1>1, <1>2, <1>3, InvParts DEF Inv, TypeOK, LifecycleInv, RequestsTyped, OpenOK,
                  RequestsOK

LEMMA ArriveKeeps ==
    ASSUME Inv, NEW r \in Requests, Arrive(r)
    PROVE  Inv'
<1>1. LifecycleInv'
  BY TrafficKeeps, InvParts DEF Arrive
<1>2. PICK come \in Request :
         /\ req' = [req EXCEPT ![r] = come] /\ come.pc = "arrived"
         /\ come.row = req[r].row /\ come.status = req[r].status
  <2>1. PICK key \in Keys \cup {NoKey} :
           req' = [req EXCEPT ![r] = [req[r] EXCEPT !.pc = "arrived", !.key = key]]
    BY InvParts DEF Arrive, RequestsTyped
  <2> QED  BY <2>1, InvParts, Comes
<1>3. /\ req' \in [Requests -> Request] /\ req'[r] = come
      /\ \A q \in Requests \ {r} : req'[q] = req[q]
  BY <1>2, InvParts DEF RequestsTyped
<1>4. RequestsTyped'
  BY <1>3, InvParts DEF Arrive, RequestsTyped
<1>5. OpenOK'
  BY <1>2, <1>3, InvParts DEF Arrive, Accept, OpenOK
<1>6. RequestsOK'
  BY <1>2, <1>3, InvParts DEF Arrive, RequestsOK, ClaimsOK, OncePerKey,
                  OnlyAdmittedConsume, AuditIsTheAnswer, Sent
<1> QED  BY <1>1, <1>4, <1>5, <1>6 DEF Inv, TypeOK, LifecycleInv, RequestsTyped, OpenOK,
                  RequestsOK

\* Who comes as far as the claim has been authenticated.
LEMMA AuthenticateKeeps ==
    ASSUME Inv, NEW r \in Requests, Authenticate(r)
    PROVE  Inv'
<1> USE InvParts
<1>1. CASE req' = Reject(r, "refused")
  BY <1>1, Rejecting, MovingOn DEF Authenticate, Statuses
<1>2. CASE req' = Enter(r)
  BY <1>2, Entering, MovingOn DEF Authenticate
<1>3. CASE req[r].key # NoKey /\ req' = [To(r, "claiming") EXCEPT ![r].admitted = TRUE]
  <2>1. LifecycleInv'
    BY LifecycleStutters DEF Authenticate
  <2>2. PICK let \in Request :
           /\ req' = [req EXCEPT ![r] = let] /\ let.pc = "claiming" /\ let.admitted
           /\ let.key = req[r].key /\ let.row = req[r].row /\ let.status = req[r].status
    BY <1>3, Admits
  <2>3. /\ req' \in [Requests -> Request] /\ req'[r] = let
        /\ \A q \in Requests \ {r} : req'[q] = req[q]
    BY <2>2 DEF RequestsTyped
  <2>4. RequestsTyped'
    BY <2>3 DEF Authenticate, RequestsTyped
  <2>5. OpenOK'
    BY <2>2, <2>3 DEF Authenticate, OpenOK, lifecycle
  <2>6. req[r].key \in Keys
    BY <1>3 DEF RequestsTyped, Request
  <2>7. RequestsOK'
    BY <2>2, <2>3, <2>6 DEF Authenticate, RequestsOK, ClaimsOK, OncePerKey,
                OnlyAdmittedConsume, AuditIsTheAnswer, Sent
  <2> QED  BY <2>1, <2>4, <2>5, <2>7 DEF Inv, TypeOK, LifecycleInv, RequestsTyped, OpenOK,
                  RequestsOK
<1> QED  BY <1>1, <1>2, <1>3 DEF Authenticate

\* A claim that was not taken is taken by a request that has been admitted:
\* the request enters the handler, or it is told that it did not.
LEMMA TakingKeeps ==
    ASSUME Inv, NEW r \in Requests, NEW kept \in [Keys -> Claim], NEW k \in Keys,
           \A j \in Keys : kept[j].rightful /\ (kept[j].state = "taken" <=> claim[j].state = "taken"),
           kept[k].state # "taken",
           req[r].pc = "claiming", req[r].admitted,
           claim' = [kept EXCEPT ![k] = Take(r, k)],
           \/ LetIn(r, k)
           \/ /\ \E status \in Statuses : req' = Reject(r, status)
              /\ UNCHANGED grants,
           UNCHANGED lifecycle
    PROVE  Inv'
<1> USE InvParts
<1>1. LifecycleInv'
  BY LifecycleStutters
<1>2. /\ req' \in [Requests -> Request]
      /\ \A q \in Requests \ {r} : req'[q] = req[q]
      /\ req'[r].pc \in {"handling", "unwinding"} /\ req'[r].row = "none"
  <2>1. CASE LetIn(r, k)
    BY <2>1, Entering DEF LetIn
  <2>2. CASE \E status \in Statuses : req' = Reject(r, status)
    BY <2>2, Rejecting
  <2> QED  BY <2>1, <2>2
<1>3. /\ claim' \in [Keys -> Claim]
      /\ \A j \in Keys : claim'[j].rightful
      /\ claim'[k].state = "taken"
      /\ \A j \in Keys \ {k} : claim'[j] = kept[j]
  BY DEF Take, Claim
<1>4. grants[k] = 0
  BY DEF RequestsOK, ClaimsOK
<1>5. /\ grants' \in [Keys -> 0 .. 2]
      /\ grants'[k] \in {0, 1}
      /\ \A j \in Keys \ {k} : grants'[j] = grants[j]
  <2>1. CASE grants' = grants
    BY <1>4, <2>1 DEF RequestsTyped
  <2>2. CASE grants' = [grants EXCEPT ![k] = IF @ = 2 THEN 2 ELSE @ + 1]
    <3>1. grants' = [grants EXCEPT ![k] = 1]
      BY <1>4, <2>2 DEF RequestsTyped
    <3> QED  BY <3>1 DEF RequestsTyped
  <2> QED  BY <2>1, <2>2 DEF LetIn
<1>6. RequestsTyped' /\ OpenOK'
  BY <1>2, <1>3, <1>5 DEF RequestsTyped, OpenOK, lifecycle
<1>7. ClaimsOK'
  BY <1>2, <1>3, <1>5 DEF RequestsOK, ClaimsOK
<1>8. OncePerKey'
  BY <1>5 DEF RequestsOK, OncePerKey
<1>9. OnlyAdmittedConsume' /\ AuditIsTheAnswer'
  BY <1>2, <1>3 DEF RequestsOK, OnlyAdmittedConsume, AuditIsTheAnswer, Sent
<1> QED  BY <1>1, <1>6, <1>7, <1>8, <1>9 DEF Inv, TypeOK, LifecycleInv, RequestsTyped, OpenOK

LEMMA ClaimRedisKeeps ==
    ASSUME Inv, NEW r \in Requests, ClaimRedis(r)
    PROVE  Inv'
<1> USE InvParts
<1> DEFINE k == req[r].key
<1>1. req[r].pc = "claiming" /\ k \in Keys /\ req[r].admitted
  BY DEF ClaimRedis, RequestsOK, ClaimsOK
<1>2. ASSUME NEW status \in {"conflict", "failed"},
             req' = Reject(r, status), UNCHANGED <<lifecycle, claim, grants>>
      PROVE  Inv'
  <2>1. status \in Statuses
    BY DEF Statuses
  <2>2. /\ req' \in [Requests -> Request]
        /\ \A q \in Requests \ {r} : req'[q] = req[q]
        /\ req'[r].pc = "unwinding" /\ req'[r].row = "none"
    BY <1>2, <2>1, Rejecting
  <2> QED  BY <1>1, <1>2, <2>2, MovingOn
<1>3. ASSUME claim[k].state = "free", claim' = [claim EXCEPT ![k] = Take(r, k)],
             \/ LetIn(r, k)
             \/ /\ \E status \in {"conflict", "failed"} : req' = Reject(r, status)
                /\ UNCHANGED grants,
             UNCHANGED lifecycle
      PROVE  Inv'
  <2>1. \A j \in Keys : claim[j].rightful
    BY DEF RequestsOK, OnlyAdmittedConsume
  <2>2. claim \in [Keys -> Claim]
    BY DEF RequestsTyped
  <2>3. \/ LetIn(r, k)
        \/ /\ \E status \in Statuses : req' = Reject(r, status)
           /\ UNCHANGED grants
    BY <1>3 DEF Statuses
  <2> HIDE DEF k
  <2> QED  BY <1>1, <1>3, <2>1, <2>2, <2>3, TakingKeeps
<1> QED  BY <1>2, <1>3 DEF ClaimRedis

LEMMA ClaimMemoryKeeps ==
    ASSUME Inv, NEW r \in Requests, ClaimMemory(r)
    PROVE  Inv'
<1> USE InvParts
<1> DEFINE k == req[r].key
<1>1. req[r].pc = "claiming" /\ k \in Keys /\ req[r].admitted
  BY DEF ClaimMemory, RequestsOK, ClaimsOK
<1>2. CASE req' = Reject(r, "failed") /\ UNCHANGED <<lifecycle, claim, grants>>
  BY <1>1, <1>2, Rejecting, MovingOn DEF Statuses
<1>3. ASSUME NEW kept \in Kept
      PROVE  /\ kept \in [Keys -> Claim]
             /\ \A j \in Keys : kept[j].rightful /\ (kept[j].state = "taken" <=> claim[j].state = "taken")
  <2>1. /\ claim \in [Keys -> Claim]
        /\ \A j \in Keys : claim[j].rightful
    BY DEF RequestsTyped, RequestsOK, OnlyAdmittedConsume
  <2>2. CASE kept = claim
    BY <2>1, <2>2
  <2>3. CASE kept = [j \in Keys |-> IF claim[j].state = "expired" THEN Free ELSE claim[j]]
    BY <2>1, <2>3 DEF Free, Claim
  <2> QED  BY <1>3, <2>2, <2>3 DEF Kept
<1>4. ASSUME NEW kept \in Kept, ~Taken(kept[k]),
             claim' = [kept EXCEPT ![k] = Take(r, k)], LetIn(r, k), UNCHANGED lifecycle
      PROVE  Inv'
  <2> HIDE DEF k
  <2> QED  BY <1>1, <1>3, <1>4, TakingKeeps DEF Taken
<1>5. ASSUME NEW kept \in Kept, claim' = kept, req' = Reject(r, "conflict"),
             UNCHANGED <<lifecycle, grants>>
      PROVE  Inv'
  <2>1. LifecycleInv'
    BY <1>5, LifecycleStutters
  <2>2. /\ req' \in [Requests -> Request]
        /\ \A q \in Requests \ {r} : req'[q] = req[q]
        /\ req'[r].pc = "unwinding" /\ req'[r].row = "none"
    BY <1>1, <1>5, Rejecting DEF Statuses
  <2>3. /\ claim' \in [Keys -> Claim]
        /\ \A j \in Keys : claim'[j].rightful /\ (claim'[j].state = "taken" <=> claim[j].state = "taken")
    BY <1>3, <1>5
  <2>4. RequestsTyped' /\ OpenOK'
    BY <1>1, <1>5, <2>2, <2>3 DEF RequestsTyped, OpenOK, lifecycle
  <2>5. RequestsOK'
    BY <1>5, <2>2, <2>3 DEF RequestsOK, ClaimsOK, OncePerKey, OnlyAdmittedConsume,
                            AuditIsTheAnswer, Sent
  <2> QED  BY <2>1, <2>4, <2>5 DEF Inv, TypeOK, LifecycleInv, RequestsTyped, OpenOK,
                  RequestsOK
<1> QED  BY <1>2, <1>4, <1>5 DEF ClaimMemory

\* A claim that runs out may let somebody in again.
LEMMA ExpireKeeps ==
    ASSUME Inv, NEW k \in Keys, Expire(k)
    PROVE  Inv'
<1> USE InvParts
<1>1. LifecycleInv'
  BY LifecycleStutters DEF Expire
<1>2. RequestsTyped' /\ OpenOK'
  BY DEF Expire, RequestsTyped, OpenOK, lifecycle, Free, Claim
<1>3. RequestsOK'
  BY DEF Expire, RequestsTyped, Free, Claim, RequestsOK, ClaimsOK, OncePerKey,
         OnlyAdmittedConsume, AuditIsTheAnswer, Sent
<1> QED  BY <1>1, <1>2, <1>3 DEF Inv, TypeOK, LifecycleInv, RequestsTyped, OpenOK, RequestsOK

LEMMA HandleKeeps ==
    ASSUME Inv, NEW r \in Requests, Handle(r)
    PROVE  Inv'
<1> USE InvParts
<1>1. PICK status \in {"none", "answered"}, way \in {"unwinding", "panicking"} :
          req' = [Reject(r, status) EXCEPT ![r].pc = way]
  BY DEF Handle
<1>2. /\ Reject(r, status) \in [Requests -> Request]
      /\ \A q \in Requests \ {r} : Reject(r, status)[q] = req[q]
      /\ Reject(r, status)[r].row = "none"
  BY Rejecting DEF Handle, Statuses
<1>3. /\ req' \in [Requests -> Request]
      /\ \A q \in Requests \ {r} : req'[q] = req[q]
      /\ req'[r].pc = way /\ req'[r].row = "none"
  BY <1>1, <1>2 DEF Request, Steps
<1> QED  BY <1>3, MovingOn DEF Handle

\* Between the recovery and the audit the answer is settled and no row written.
LEMMA UnwindKeeps ==
    ASSUME Inv, NEW r \in Requests, Unwind(r)
    PROVE  Inv'
<1> USE InvParts
<1>1. PICK status \in Unwound(r) :
          req' = [req EXCEPT ![r] = [@ EXCEPT !.pc = "auditing", !.status = status]]
  BY DEF Unwind
<1>2. status \in Statuses
  BY DEF Unwound, RequestsTyped, Request, Statuses
<1>3. req[r].row = "none" /\ req[r].pc # "none"
  BY DEF Unwind, RequestsOK, ClaimsOK
<1>4. /\ req' \in [Requests -> Request]
      /\ \A q \in Requests \ {r} : req'[q] = req[q]
      /\ req'[r].pc = "auditing" /\ req'[r].row = "none"
  BY <1>1, <1>2, <1>3 DEF RequestsTyped, Request, Steps
<1> QED  BY <1>3, <1>4, MovingOn DEF Unwind

LEMMA AuditKeeps ==
    ASSUME Inv, NEW r \in Requests, Audit(r)
    PROVE  Inv'
<1> USE InvParts
<1>1. req[r].row = "none" /\ req[r].pc # "none"
  BY DEF Audit, RequestsOK, ClaimsOK
<1>2. /\ req' \in [Requests -> Request]
      /\ \A q \in Requests \ {r} : req'[q] = req[q]
      /\ req'[r].pc = "audited" /\ req'[r].status = req[r].status
      /\ req'[r].row \in {"none", Sent(req[r].status)}
  <2>1. req \in [Requests -> Request] /\ Sent(req[r].status) \in Statuses
    BY DEF RequestsTyped, Request, Sent, Statuses
  <2>2. CASE req' = To(r, "audited")
    BY <1>1, <2>1, <2>2 DEF To, Request, Steps
  <2>3. CASE RecordHTTP(r)
    <3> DEFINE sent == Sent(req[r].status)
    <3>1. sent \in Statuses
      BY <2>1
    <3>2. req' = [req EXCEPT ![r] = [@ EXCEPT !.pc = "audited", !.row = sent]]
      BY <2>3 DEF RecordHTTP
    <3> HIDE DEF sent
    <3>3. /\ req' \in [Requests -> Request]
          /\ \A q \in Requests \ {r} : req'[q] = req[q]
          /\ req'[r].pc = "audited" /\ req'[r].status = req[r].status
          /\ req'[r].row = sent
      BY <2>1, <3>1, <3>2 DEF Request, Steps
    <3> QED  BY <3>3 DEF sent
  <2> QED  BY <2>2, <2>3 DEF Audit
<1> QED  BY <1>1, <1>2, MovingOn DEF Audit

LEMMA CompleteKeeps ==
    ASSUME Inv, NEW r \in Requests, Complete(r)
    PROVE  Inv'
<1> USE InvParts
<1>1. LifecycleInv'
  BY TrafficKeeps DEF Complete
<1>2. /\ req' \in [Requests -> Request]
      /\ \A q \in Requests : req'[q] = IF q = r THEN NoRequest ELSE req[q]
  BY DEF Complete, NoRequest, RequestsTyped, Request, Steps, Statuses
<1>3. RequestsTyped' /\ OpenOK'
  BY <1>2 DEF Complete, Finish, NoRequest, RequestsTyped, OpenOK
<1>4. RequestsOK'
  BY <1>2 DEF Complete, NoRequest, RequestsOK, ClaimsOK, OncePerKey, OnlyAdmittedConsume,
              AuditIsTheAnswer, Sent
<1> QED  BY <1>1, <1>3, <1>4 DEF Inv, TypeOK, LifecycleInv, RequestsTyped, OpenOK, RequestsOK
-----------------------------------------------------------------------------
(* Both together.                                                          *)

\* What the process does by itself opens and closes no request.
LEMMA ProcessLeavesRequests ==
    ASSUME ProcessStep \/ WorldStep
    PROVE  open' = open
  BY DEF ProcessStep, WorldStep, Acquire, FailToBuild, Built, Listen, FailToListen, Serve,
         Drain, Shutdown, Drained, ShutdownTimeout, Stopped, StopWorker, WorkerReturns,
         Return, Release, Start, Signal, ServerFails

LEMMA ProcessEndsKeeps ==
    ASSUME Inv, ProcessEnds
    PROVE  Inv'
<1> USE InvParts
<1>1. LifecycleInv'
  BY ProcessKeeps DEF ProcessEnds
<1>2. /\ req' \in [Requests -> Request]
      /\ \A q \in Requests : req'[q] = NoRequest
      /\ open' = {}
  BY DEF ProcessEnds, Exit, Crash, Fresh, NoRequest, Request, Steps, Statuses
<1>3. RequestsTyped'
  <2>1. Free \in Claim
    BY DEF Free, Claim
  <2>2. claim' \in [Keys -> Claim] /\ grants' \in [Keys -> 0 .. 2]
    BY <2>1 DEF ProcessEnds, RequestsTyped
  <2> QED  BY <1>2, <2>2 DEF RequestsTyped
<1>4. OpenOK'
  BY <1>2 DEF NoRequest, OpenOK
<1>5. RequestsOK'
  BY <1>2 DEF ProcessEnds, NoRequest, Free, RequestsOK, ClaimsOK, OncePerKey,
              OnlyAdmittedConsume, AuditIsTheAnswer, Sent
<1> QED  BY <1>1, <1>3, <1>4, <1>5 DEF Inv, TypeOK, LifecycleInv, RequestsTyped, OpenOK, RequestsOK

LEMMA InitEstablishes == Init => Inv
<1> SUFFICES ASSUME Init PROVE Inv
  OBVIOUS
<1>1. LifecycleInv
  <2>1. IsPrefix(held, Plan) /\ held \in Seq(Resources)
    BY PlanTyped DEF Init, LifecycleInit, IsPrefix
  <2>2. LifecycleTypeOK
    BY <2>1 DEF Init, LifecycleInit, LifecycleTypeOK, Stages
  <2>3. StagesOK
    BY LifecycleConfig DEF Init, LifecycleInit, StagesOK
  <2> QED  BY <2>2, <2>3 DEF LifecycleInv
<1>2. RequestsTyped /\ OpenOK
  BY DEF Init, LifecycleInit, RequestsTyped, OpenOK, NoRequest, Request, Steps, Statuses,
         Free, Claim
<1>3. RequestsOK
  BY DEF Init, RequestsOK, ClaimsOK, OncePerKey, OnlyAdmittedConsume, AuditIsTheAnswer,
         NoRequest, Free
<1> QED  BY <1>1, <1>2, <1>3, InvParts

LEMMA NextKeeps == Inv /\ [Next]_vars => Inv'
<1> SUFFICES ASSUME Inv, [Next]_vars PROVE Inv'
  OBVIOUS
<1>1. CASE (ProcessStep \/ WorldStep) /\ UNCHANGED requests
  <2>1. LifecycleInv'
    BY <1>1, ProcessKeeps, InvParts
  <2>2. RequestsTyped' /\ OpenOK' /\ RequestsOK'
    BY <1>1, ProcessLeavesRequests, InvParts
    DEF requests, RequestsTyped, OpenOK, RequestsOK, ClaimsOK, OncePerKey,
        OnlyAdmittedConsume, AuditIsTheAnswer, Sent
  <2> QED  BY <2>1, <2>2 DEF Inv, TypeOK, LifecycleInv, RequestsTyped, OpenOK, RequestsOK
<1>2. ASSUME NEW r \in Requests, RequestStep(r)
      PROVE  Inv'
  BY <1>2, ArriveKeeps, AuthenticateKeeps, ClaimRedisKeeps, ClaimMemoryKeeps, HandleKeeps,
     UnwindKeeps, AuditKeeps, CompleteKeeps DEF RequestStep
<1>3. CASE UNCHANGED vars
  <2>1. LifecycleInv'
    BY <1>3, LifecycleStutters, InvParts DEF vars
  <2>2. RequestsTyped' /\ OpenOK' /\ RequestsOK'
    BY <1>3, InvParts
    DEF vars, lifecycle, requests, RequestsTyped, OpenOK, RequestsOK, ClaimsOK, OncePerKey,
        OnlyAdmittedConsume, AuditIsTheAnswer, Sent
  <2> QED  BY <2>1, <2>2 DEF Inv, TypeOK, LifecycleInv, RequestsTyped, OpenOK, RequestsOK
<1> QED  BY <1>1, <1>2, <1>3, ExpireKeeps, ProcessEndsKeeps DEF Next, Process

\* The whole of what the process, its requests and its claims keep to is an
\* invariant, for every number of requests, servers and keys.
THEOREM InvariantHolds == Spec => []Inv
<1>1. Init => Inv
  BY InitEstablishes
<1>2. Inv /\ [Next]_vars => Inv'
  BY NextKeeps
<1> QED  BY <1>1, <1>2, PTL DEF Spec

\* Every variable keeps its type, what is held is a prefix of what New acquires,
\* and the open requests are those under way.
THEOREM TypeCorrect == Spec => []TypeOK
<1>1. Inv => TypeOK
  BY DEF Inv
<1> QED  BY <1>1, InvariantHolds, PTL

\* A process that is down has released everything, and the database outlives the
\* workers (app.go:107-111, lifecycle.go:97, 120).
THEOREM NothingLeaksHolds == Spec => []NothingLeaks
<1>1. Inv => NothingLeaks
  <2> SUFFICES ASSUME Inv PROVE NothingLeaks
    OBVIOUS
  <2>1. workers # {} => Holds("db")
    BY PlanTyped DEF Inv, StagesOK, Holds, Contains
  <2>2. stage = "down" => /\ held = <<>>
                          /\ \A e \in Endpoints : endpoint[e] = "off"
                          /\ workers = {}
    BY DEF Inv, StagesOK
  <2> QED  BY <2>1, <2>2 DEF NothingLeaks
<1> QED  BY <1>1, InvariantHolds, PTL

\* Run cuts off no request before the shutdown timeout has passed.
THEOREM CleanStopHolds == Spec => []CleanStopCutsNothing
<1>1. Inv => CleanStopCutsNothing
  BY LifecycleConfig DEF Inv, StagesOK, CleanStopCutsNothing
<1> QED  BY <1>1, InvariantHolds, PTL

\* No key lets two requests in before its claim runs out.
THEOREM OncePerKeyHolds == Spec => []OncePerKey
<1>1. Inv => OncePerKey
  BY DEF Inv
<1> QED  BY <1>1, InvariantHolds, PTL

\* Only a request that was authenticated and authorized consumes a key.
THEOREM OnlyAdmittedConsumeHolds == Spec => []OnlyAdmittedConsume
<1>1. Inv => OnlyAdmittedConsume
  BY DEF Inv
<1> QED  BY <1>1, InvariantHolds, PTL

\* The row of the audit has the status that was sent to the client.
THEOREM AuditIsTheAnswerHolds == Spec => []AuditIsTheAnswer
<1>1. Inv => AuditIsTheAnswer
  BY DEF Inv
<1> QED  BY <1>1, InvariantHolds, PTL

-----------------------------------------------------------------------------
(* The router.  What it finds by going down a path segment by segment, and  *)
(* back, is what CheckPermission computes from the whole templates.         *)

\* A non-empty set of naturals has a least element.
LEMMA HasLeast ==
  ASSUME NEW S \in SUBSET Nat, S # {}
  PROVE  \E x \in S : \A y \in S : x <= y
<1> DEFINE Less == {p \in Nat \X Nat : p[1] < p[2]}
<1>1. IsWellFoundedOn(Less, Nat)
  <2>1. OpToRel(<, Nat) = Less
    BY DEF OpToRel
  <2> QED  BY <2>1, NatLessThanWellFounded
<1>2. \A x, y \in Nat : <<y, x>> \notin Less => x <= y
  OBVIOUS
<1> HIDE DEF Less
<1>3. \E x \in S : \A y \in S : ~ (<<y, x>> \in Less)
  BY <1>1, WFMin
<1> QED  BY <1>2, <1>3

\* What holds at the end of a path and, at each segment, if it does at the next
\* one, holds everywhere: induction over the length of what is left.
LEMMA FromTheEnd ==
  ASSUME NEW n \in Nat, NEW S, n + 1 \in S,
         \A i \in 1 .. n : i + 1 \in S => i \in S
  PROVE  \A i \in 1 .. n + 1 : i \in S
<1> SUFFICES ASSUME NEW i0 \in 1 .. n + 1, i0 \notin S PROVE FALSE
  OBVIOUS
<1> DEFINE Left == {m \in 0 .. n : n + 1 - m \notin S}
<1>1. Left \in SUBSET Nat /\ Left # {}
  <2>1. n + 1 - i0 \in 0 .. n /\ n + 1 - (n + 1 - i0) = i0
    OBVIOUS
  <2>2. n + 1 - i0 \in Left
    BY <2>1
  <2>3. Left \subseteq Nat
    OBVIOUS
  <2> QED  BY <2>2, <2>3
<1>2. PICK m \in Left : \A k \in Left : m <= k
  BY <1>1, HasLeast
<1>3. m # 0
  BY <1>2
<1>4. m - 1 \in 0 .. n /\ m - 1 \notin Left /\ n + 1 - (m - 1) = n + 1 - m + 1
  BY <1>2, <1>3
<1>5. n + 1 - m \in 1 .. n /\ n + 1 - m + 1 \in S
  BY <1>3, <1>4
<1> QED  BY <1>2, <1>5

\* Templates that agree with the rest of a path from segment i on, the order of
\* Precedes on that rest, and those that nothing precedes.
Rest(routes, path, i, n) ==
    {r \in routes : \A j \in i .. n : r[j] \in Parameters \/ r[j] = path[j]}

PrecedesFrom(a, b, i, n) ==
    \E k \in i .. n :
       /\ a[k] \notin Parameters /\ b[k] \in Parameters
       /\ \A j \in i .. k - 1 : (a[j] \in Parameters) = (b[j] \in Parameters)

Best(routes, path, i, n) ==
    {r \in Rest(routes, path, i, n) :
       \A s \in Rest(routes, path, i, n) : ~PrecedesFrom(s, r, i, n)}

Static(routes, path, i) == {r \in routes : r[i] \in {path[i]}}
Dynamic(routes, i) == {r \in routes : r[i] \in Parameters}

\* One segment: a template with the segment itself goes before all that have a
\* parameter there, and among either the rest decides.
StaticRest(routes, path, i, n) == Rest(Static(routes, path, i), path, i + 1, n)
DynamicRest(routes, path, i, n) == Rest(Dynamic(routes, i), path, i + 1, n)

LEMMA OneSegment ==
  ASSUME NEW routes, NEW path, NEW n \in Nat, NEW i \in 1 .. n,
         path[i] \notin Parameters
  PROVE  /\ StaticRest(routes, path, i, n) # {}
              => /\ Rest(routes, path, i, n) # {}
                 /\ Best(routes, path, i, n) = Best(Static(routes, path, i), path, i + 1, n)
         /\ StaticRest(routes, path, i, n) = {}
              => /\ Rest(routes, path, i, n) = DynamicRest(routes, path, i, n)
                 /\ Best(routes, path, i, n) = Best(Dynamic(routes, i), path, i + 1, n)
<1> DEFINE static == StaticRest(routes, path, i, n)
           dynamic == DynamicRest(routes, path, i, n)
<1>1. \A j : j \in i .. n <=> (j = i \/ j \in i + 1 .. n)
  OBVIOUS
<1>2. Rest(routes, path, i, n) = static \cup dynamic
  BY <1>1 DEF Rest, Static, Dynamic, StaticRest, DynamicRest
<1>3. \A r \in static : r[i] \notin Parameters
  BY DEF Rest, Static, StaticRest
<1>4. \A r \in dynamic : r[i] \in Parameters
  BY DEF Rest, Dynamic, DynamicRest
<1>5. ASSUME NEW r, NEW s, (r[i] \in Parameters) = (s[i] \in Parameters)
      PROVE  PrecedesFrom(s, r, i, n) <=> PrecedesFrom(s, r, i + 1, n)
  <2>1. ASSUME NEW k \in i + 1 .. n
        PROVE  (\A j \in i .. k - 1 : (s[j] \in Parameters) = (r[j] \in Parameters))
               <=> (\A j \in i + 1 .. k - 1 : (s[j] \in Parameters) = (r[j] \in Parameters))
    <3>1. \A j : j \in i .. k - 1 <=> (j = i \/ j \in i + 1 .. k - 1)
      OBVIOUS
    <3> QED  BY <3>1, <1>5
  <2> QED  BY <1>1, <1>5, <2>1 DEF PrecedesFrom
<1>6. \A s \in static, r \in dynamic : PrecedesFrom(s, r, i, n)
  <2> SUFFICES ASSUME NEW s \in static, NEW r \in dynamic PROVE PrecedesFrom(s, r, i, n)
    OBVIOUS
  <2>1. i \in i .. n /\ i .. i - 1 = {}
    OBVIOUS
  <2> QED  BY <1>3, <1>4, <2>1 DEF PrecedesFrom
<1>7. \A s \in dynamic, r \in static : ~PrecedesFrom(s, r, i, n)
  <2> SUFFICES ASSUME NEW s \in dynamic, NEW r \in static, NEW k \in i .. n,
                      s[k] \notin Parameters,
                      \A j \in i .. k - 1 : (s[j] \in Parameters) = (r[j] \in Parameters)
               PROVE  FALSE
    BY DEF PrecedesFrom
  <2>1. k # i
    BY <1>4
  <2>2. i \in i .. k - 1
    BY <2>1
  <2> QED  BY <1>3, <1>4, <2>2
<1>8. CASE static # {}
  <2>1. \A r \in dynamic : r \notin Best(routes, path, i, n)
    BY <1>2, <1>6, <1>8 DEF Best
  <2>2. \A r \in static : r \in Best(routes, path, i, n)
                             <=> \A s \in static : ~PrecedesFrom(s, r, i + 1, n)
    <3> SUFFICES ASSUME NEW r \in static
                 PROVE  r \in Best(routes, path, i, n)
                           <=> \A s \in static : ~PrecedesFrom(s, r, i + 1, n)
      OBVIOUS
    <3>1. \A s \in static : PrecedesFrom(s, r, i, n) <=> PrecedesFrom(s, r, i + 1, n)
      BY <1>3, <1>5
    <3> QED  BY <1>2, <1>7, <3>1 DEF Best
  <2>3. Best(Static(routes, path, i), path, i + 1, n)
           = {r \in static : \A s \in static : ~PrecedesFrom(s, r, i + 1, n)}
    BY DEF Best, StaticRest, DynamicRest
  <2>4. Best(routes, path, i, n) \subseteq static \cup dynamic
    BY <1>2 DEF Best
  <2> QED  BY <1>2, <1>8, <2>1, <2>2, <2>3, <2>4
<1>9. CASE static = {}
  <2>1. \A r, s \in dynamic : PrecedesFrom(s, r, i, n) <=> PrecedesFrom(s, r, i + 1, n)
    BY <1>4, <1>5
  <2>2. Rest(routes, path, i, n) = dynamic
    BY <1>2, <1>9
  <2>3. Best(Dynamic(routes, i), path, i + 1, n)
           = {r \in dynamic : \A s \in dynamic : ~PrecedesFrom(s, r, i + 1, n)}
    BY DEF Best, StaticRest, DynamicRest
  <2>4. Best(routes, path, i, n)
           = {r \in dynamic : \A s \in dynamic : ~PrecedesFrom(s, r, i, n)}
    BY <2>2 DEF Best
  <2> QED  BY <1>2, <1>9, <2>1, <2>3, <2>4
<1> QED  BY <1>2, <1>8, <1>9

\* Where templates agree with the rest of a path, there is one nothing precedes.
LEMMA BestExists ==
  ASSUME NEW path, NEW n \in Nat, \A i \in 1 .. n : path[i] \notin Parameters,
         NEW table
  PROVE  \A i \in 1 .. n + 1 : \A routes \in SUBSET table :
            Rest(routes, path, i, n) # {} => Best(routes, path, i, n) # {}
<1> DEFINE S == {i \in 1 .. n + 1 : \A routes \in SUBSET table :
                    Rest(routes, path, i, n) # {} => Best(routes, path, i, n) # {}}
<1>1. n + 1 \in S
  <2>1. n + 1 .. n = {}
    OBVIOUS
  <2> QED  BY <2>1 DEF Best, PrecedesFrom
<1>2. ASSUME NEW i \in 1 .. n, i + 1 \in S PROVE i \in S
  <2> SUFFICES ASSUME NEW routes \in SUBSET table, Rest(routes, path, i, n) # {}
               PROVE  Best(routes, path, i, n) # {}
    OBVIOUS
  <2>1. Static(routes, path, i) \in SUBSET table /\ Dynamic(routes, i) \in SUBSET table
    BY DEF Static, Dynamic
  <2>2. /\ Rest(Static(routes, path, i), path, i + 1, n) # {}
              => Best(Static(routes, path, i), path, i + 1, n) # {}
        /\ Rest(Dynamic(routes, i), path, i + 1, n) # {}
              => Best(Dynamic(routes, i), path, i + 1, n) # {}
    BY <1>2, <2>1
  <2>3. i \in 1 .. n /\ path[i] \notin Parameters
    OBVIOUS
  <2>4. Rest(Static(routes, path, i), path, i + 1, n) # {}
           => Best(routes, path, i, n) = Best(Static(routes, path, i), path, i + 1, n)
    BY <2>3, OneSegment DEF StaticRest, DynamicRest
  <2>5. Rest(Static(routes, path, i), path, i + 1, n) = {}
           => /\ Best(routes, path, i, n) = Best(Dynamic(routes, i), path, i + 1, n)
              /\ Rest(routes, path, i, n) = Rest(Dynamic(routes, i), path, i + 1, n)
    BY <2>3, OneSegment DEF StaticRest, DynamicRest
  <2> QED  BY <2>2, <2>4, <2>5
<1> HIDE DEF S
<1>3. \A i \in 1 .. n + 1 : i \in S
  BY <1>1, <1>2, FromTheEnd
<1> QED  BY <1>3 DEF S

\* What descend does with a set of templates, and its equation.  At keeps the pair
\* that descend takes out of the provers' sight.
At(f, routes, i) == f[<<routes, i>>]

Step(path, n, f, routes, i) ==
    IF i > n \/ routes = {} THEN routes
    ELSE IF At(f, Static(routes, path, i), i + 1) # {}
         THEN At(f, Static(routes, path, i), i + 1)
         ELSE At(f, Dynamic(routes, i), i + 1)

Descent(table, path, n, f) ==
    [at \in (SUBSET table) \X (1 .. n + 1) |-> Step(path, n, f, at[1], at[2])]

Solves(table, path, n, f) == f = Descent(table, path, n, f)

LEMMA DescentAt ==
  ASSUME NEW path, NEW n \in Nat, NEW table, NEW f,
         NEW routes \in SUBSET table, NEW i \in 1 .. n + 1
  PROVE  At(Descent(table, path, n, f), routes, i) = Step(path, n, f, routes, i)
<1>1. PICK at : at = <<routes, i>>
  OBVIOUS
<1>2. at \in (SUBSET table) \X (1 .. n + 1) /\ at[1] = routes /\ at[2] = i
  BY <1>1
<1>3. Descent(table, path, n, f)[at] = Step(path, n, f, at[1], at[2])
  BY <1>2, Zenon DEF Descent
<1>4. At(Descent(table, path, n, f), routes, i) = Descent(table, path, n, f)[at]
  BY <1>1, Zenon DEF At
<1> QED  BY <1>2, <1>3, <1>4

\* What nothing precedes, of every set of templates of the table, solves it.
Concrete(path, n) == \A i \in 1 .. n : path[i] \notin Parameters

FindsBest(table, path, n, best) ==
    \A routes \in SUBSET table, i \in 1 .. n + 1 :
       At(best, routes, i) = Best(routes, path, i, n)

LEMMA BestAt ==
  ASSUME NEW path, NEW n \in Nat, Concrete(path, n),
         NEW table, NEW best, FindsBest(table, path, n, best),
         NEW routes \in SUBSET table, NEW i \in 1 .. n + 1
  PROVE  At(best, routes, i) = Step(path, n, best, routes, i)
<1>0. At(best, routes, i) = Best(routes, path, i, n)
  BY DEF FindsBest
<1>2. CASE i = n + 1
  <2>1. i .. n = {}
    BY <1>2
  <2>2. Best(routes, path, i, n) = routes
    BY <2>1 DEF Best, Rest, PrecedesFrom
  <2> QED  BY <1>0, <1>2, <2>2 DEF Step
<1>3. CASE routes = {}
  BY <1>0, <1>3 DEF Best, Rest, Step
<1>4. CASE i \in 1 .. n /\ routes # {}
  <2>1. Static(routes, path, i) \in SUBSET table /\ Dynamic(routes, i) \in SUBSET table
    BY DEF Static, Dynamic
  <2>2. i + 1 \in 1 .. n + 1 /\ path[i] \notin Parameters
    BY <1>4 DEF Concrete
  <2>3. /\ At(best, Static(routes, path, i), i + 1) = Best(Static(routes, path, i), path, i + 1, n)
        /\ At(best, Dynamic(routes, i), i + 1) = Best(Dynamic(routes, i), path, i + 1, n)
    BY <2>1, <2>2 DEF FindsBest
  <2>4. Rest(Static(routes, path, i), path, i + 1, n) # {}
           => Best(Static(routes, path, i), path, i + 1, n) # {}
    BY <2>1, <2>2, BestExists DEF Concrete
  <2>5. Rest(Static(routes, path, i), path, i + 1, n) = {}
           => Best(Static(routes, path, i), path, i + 1, n) = {}
    BY DEF Best
  <2>6. Rest(Static(routes, path, i), path, i + 1, n) # {}
           => Best(routes, path, i, n) = Best(Static(routes, path, i), path, i + 1, n)
    BY <1>4, <2>2, OneSegment DEF StaticRest, DynamicRest
  <2>7. Rest(Static(routes, path, i), path, i + 1, n) = {}
           => Best(routes, path, i, n) = Best(Dynamic(routes, i), path, i + 1, n)
    BY <1>4, <2>2, OneSegment DEF StaticRest, DynamicRest
  <2>8. Step(path, n, best, routes, i) =
           IF At(best, Static(routes, path, i), i + 1) # {}
           THEN At(best, Static(routes, path, i), i + 1)
           ELSE At(best, Dynamic(routes, i), i + 1)
    BY <1>4 DEF Step
  <2> QED  BY <1>0, <2>3, <2>4, <2>5, <2>6, <2>7, <2>8
<1> QED  BY <1>2, <1>3, <1>4

LEMMA BestSolves ==
  ASSUME NEW path, NEW n \in Nat, Concrete(path, n), NEW table, NEW best,
         best = [at \in (SUBSET table) \X (1 .. n + 1) |-> Best(at[1], path, at[2], n)]
  PROVE  Solves(table, path, n, best) /\ FindsBest(table, path, n, best)
<1>1. ASSUME NEW routes \in SUBSET table, NEW i \in 1 .. n + 1
      PROVE  At(best, routes, i) = Best(routes, path, i, n)
  <2>1. PICK at : at = <<routes, i>>
    OBVIOUS
  <2>2. at \in (SUBSET table) \X (1 .. n + 1) /\ at[1] = routes /\ at[2] = i
    BY <2>1
  <2>3. best[at] = Best(at[1], path, at[2], n)
    BY <2>2, Zenon
  <2>4. At(best, routes, i) = best[at]
    BY <2>1, Zenon DEF At
  <2> QED  BY <2>2, <2>3, <2>4
<1>2. FindsBest(table, path, n, best)
  BY <1>1 DEF FindsBest
<1>3. ASSUME NEW at \in (SUBSET table) \X (1 .. n + 1)
      PROVE  best[at] = Step(path, n, best, at[1], at[2])
  <2>1. at[1] \in SUBSET table /\ at[2] \in 1 .. n + 1 /\ at = <<at[1], at[2]>>
    OBVIOUS
  <2>2. At(best, at[1], at[2]) = Step(path, n, best, at[1], at[2])
    BY <1>2, <2>1, BestAt
  <2>3. At(best, at[1], at[2]) = best[at]
    BY <2>1, Zenon DEF At
  <2> QED  BY <2>2, <2>3
<1>4. best = [at \in (SUBSET table) \X (1 .. n + 1) |-> best[at]]
  BY Zenon
<1>5. [at \in (SUBSET table) \X (1 .. n + 1) |-> best[at]] = Descent(table, path, n, best)
  BY <1>3, Zenon DEF Descent
<1> QED  BY <1>2, <1>4, <1>5, Zenon DEF Solves

\* There is no other solution: segment by segment, from the end.
LEMMA DescentSolvedAt ==
  ASSUME NEW path, NEW n \in Nat, NEW table, NEW f, Solves(table, path, n, f),
         NEW routes \in SUBSET table, NEW i \in 1 .. n + 1
  PROVE  At(f, routes, i) = Step(path, n, f, routes, i)
<1>1. At(f, routes, i) = At(Descent(table, path, n, f), routes, i)
  BY DEF Solves
<1> QED  BY <1>1, DescentAt

SameAt(table, n, f, g) ==
    \A routes \in SUBSET table, i \in 1 .. n + 1 : At(f, routes, i) = At(g, routes, i)

LEMMA DescentIsUnique ==
  ASSUME NEW path, NEW n \in Nat, NEW table, NEW f, NEW g,
         Solves(table, path, n, f), Solves(table, path, n, g)
  PROVE  SameAt(table, n, f, g)
<1>1. ASSUME NEW routes \in SUBSET table PROVE At(f, routes, n + 1) = At(g, routes, n + 1)
  <2>1. PICK i : i = n + 1
    OBVIOUS
  <2>2. i \in 1 .. n + 1 /\ i > n
    BY <2>1
  <2>3. /\ At(f, routes, i) = Step(path, n, f, routes, i)
        /\ At(g, routes, i) = Step(path, n, g, routes, i)
    BY <2>2, DescentSolvedAt
  <2>4. Step(path, n, f, routes, i) = routes /\ Step(path, n, g, routes, i) = routes
    BY <2>2 DEF Step
  <2> QED  BY <2>1, <2>3, <2>4
<1>2. ASSUME NEW i \in 1 .. n,
             \A routes \in SUBSET table : At(f, routes, i + 1) = At(g, routes, i + 1),
             NEW routes \in SUBSET table
      PROVE  At(f, routes, i) = At(g, routes, i)
  <2>1. i \in 1 .. n + 1
    OBVIOUS
  <2>2. Static(routes, path, i) \in SUBSET table /\ Dynamic(routes, i) \in SUBSET table
    BY DEF Static, Dynamic
  <2>3. /\ At(f, Static(routes, path, i), i + 1) = At(g, Static(routes, path, i), i + 1)
        /\ At(f, Dynamic(routes, i), i + 1) = At(g, Dynamic(routes, i), i + 1)
    BY <1>2, <2>2
  <2>4. /\ At(f, routes, i) = Step(path, n, f, routes, i)
        /\ At(g, routes, i) = Step(path, n, g, routes, i)
    BY <2>1, DescentSolvedAt
  <2>5. Step(path, n, f, routes, i) = Step(path, n, g, routes, i)
    BY <2>3 DEF Step
  <2> QED  BY <2>4, <2>5
<1> DEFINE S == {i \in 1 .. n + 1 : \A routes \in SUBSET table : At(f, routes, i) = At(g, routes, i)}
<1>3. n + 1 \in S /\ \A i \in 1 .. n : i + 1 \in S => i \in S
  BY <1>1, <1>2
<1> HIDE DEF S
<1>4. \A i \in 1 .. n + 1 : i \in S
  BY <1>3, FromTheEnd
<1> QED  BY <1>4 DEF S, SameAt

\* A function that is defined by an equation with a solution solves it.
Table(method, path) ==
    {r[2] : r \in {r \in RouteTable : r[1] = method /\ Len(r[2]) = Len(path)}}

LEMMA DispatchDescends ==
  ASSUME NEW method, NEW path,
         \E g : Solves(Table(method, path), path, Len(path), g)
  PROVE  \E f : /\ Solves(Table(method, path), path, Len(path), f)
                /\ Dispatch(method, path) = At(f, Table(method, path), 1)
<1> DEFINE P(f) == Solves(Table(method, path), path, Len(path), f)
           h == CHOOSE f : P(f)
<1>1. P(h)
  <2> HIDE DEF P
  <2> QED  BY DEF P
<1>2. Dispatch(method, path) = At(h, Table(method, path), 1)
  BY Zenon DEF Dispatch, Solves, Descent, Step, Table, Static, Dynamic, At
<1> QED  BY <1>1, <1>2

\* The two resolutions of a path agree (permission.go:315, resolveHTTPRoute: the
\* leftmost segment in which only one has a parameter decides, as in the router).
THEOREM RouterAgrees ==
  ASSUME NEW method, NEW path \in Seq(STRING \ Parameters)
  PROVE  Dispatch(method, path) = ResolveHTTPRoute(Target(method, path, ""))
<1> DEFINE n == Len(path)
           table == Table(method, path)
<1>1. n \in Nat /\ Concrete(path, n)
  BY DEF Concrete
<1>2. PICK best : best = [at \in (SUBSET table) \X (1 .. n + 1) |-> Best(at[1], path, at[2], n)]
  OBVIOUS
<1>3. /\ Solves(table, path, n, best)
      /\ FindsBest(table, path, n, best)
  <2> QED  BY <1>1, <1>2, BestSolves, Zenon
<1>4. PICK f : Solves(table, path, n, f) /\ Dispatch(method, path) = At(f, table, 1)
  BY <1>3, DispatchDescends
<1>5. Dispatch(method, path) = Best(table, path, 1, n)
  <2>1. table \in SUBSET table /\ 1 \in 1 .. n + 1 
    BY <1>1
  <2> HIDE DEF table, n
  <2>2. At(best, table, 1) = Best(table, path, 1, n)
    BY <1>3, <2>1 DEF FindsBest
  <2>3. At(f, table, 1) = At(best, table, 1)
    <3>1. n \in Nat /\ Solves(table, path, n, f) /\ Solves(table, path, n, best)
      BY <1>1, <1>3, <1>4
    <3>2. SameAt(table, n, f, best)
      BY <3>1, DescentIsUnique
    <3> QED  BY <2>1, <3>2 DEF SameAt
  <2> QED  BY <1>4, <2>2, <2>3
<1>6. Matching(Target(method, path, "")) = Rest(table, path, 1, n)
  <2>1. DOMAIN path = 1 .. n
    BY <1>1
  <2>2. Matching(Target(method, path, "")) =
           {r[2] : r \in {r \in RouteTable : r[1] = method /\ MatchRouteTemplate(r[2], path)}}
    BY DEF Matching, Target
  <2>3. \A r : MatchRouteTemplate(r, path) <=>
               /\ Len(r) = Len(path)
               /\ \A j \in 1 .. n : r[j] \in Parameters \/ r[j] = path[j]
    BY <2>1 DEF MatchRouteTemplate
  <2>4. \A r : r \in Matching(Target(method, path, ""))
               <=> \E q \in RouteTable : q[1] = method /\ MatchRouteTemplate(q[2], path) /\ r = q[2]
    BY <2>2, Zenon
  <2>5. \A r : r \in table
               <=> \E q \in RouteTable : q[1] = method /\ Len(q[2]) = Len(path) /\ r = q[2]
    BY Zenon DEF Table
  <2>6. \A r : r \in Rest(table, path, 1, n)
               <=> r \in table /\ \A j \in 1 .. n : r[j] \in Parameters \/ r[j] = path[j]
    BY Zenon DEF Rest
  <2>7. \A r : r \in Matching(Target(method, path, "")) <=> r \in Rest(table, path, 1, n)
    <3> HIDE DEF table, n
    <3> SUFFICES ASSUME NEW r
                 PROVE  r \in Matching(Target(method, path, "")) <=> r \in Rest(table, path, 1, n)
      OBVIOUS
    <3>1. ASSUME r \in Matching(Target(method, path, "")) PROVE r \in Rest(table, path, 1, n)
      <4>1. PICK q \in RouteTable : q[1] = method /\ MatchRouteTemplate(q[2], path) /\ r = q[2]
        BY <2>4, <3>1
      <4> QED  BY <2>3, <2>5, <2>6, <4>1
    <3>2. ASSUME r \in Rest(table, path, 1, n) PROVE r \in Matching(Target(method, path, ""))
      <4>1. PICK q \in RouteTable : q[1] = method /\ Len(q[2]) = Len(path) /\ r = q[2]
        BY <2>5, <2>6, <3>2
      <4>2. MatchRouteTemplate(q[2], path)
        BY <2>3, <2>6, <3>2, <4>1
      <4> QED  BY <2>4, <4>1, <4>2
    <3> QED  BY <3>1, <3>2
  <2> QED  BY <2>7, Zenon
<1>7. \A r, s \in Rest(table, path, 1, n) : Precedes(s, r) <=> PrecedesFrom(s, r, 1, n)
  <2>1. \A s \in table : DOMAIN s = 1 .. n
    BY RoutesConfig DEF Table
  <2> QED  BY <2>1 DEF Rest, Precedes, PrecedesFrom
<1>8. ResolveHTTPRoute(Target(method, path, "")) = Best(table, path, 1, n)
  BY <1>6, <1>7 DEF ResolveHTTPRoute, Best
<1> QED  BY <1>5, <1>8

-----------------------------------------------------------------------------
(* The catalog.  The nodes that a node passes an operation on to, without   *)
(* going through those of a path: all that is reachable, by any way.        *)

Passes(c, op, a, b) ==
    /\ Exists(c, b)
    /\ \/ c[b].parent = a
       \/ b \in DOMAIN c[a].refs /\ Selects(c, a, b, op)

Closed(c, op, path, S) ==
    \A a \in S, b \in NodeKeys : Passes(c, op, a, b) /\ b \notin path => b \in S

Reach(c, op, k, path) ==
    {x \in NodeKeys : /\ Exists(c, k) /\ k \notin path
                      /\ \A S \in SUBSET NodeKeys : k \in S /\ Closed(c, op, path, S) => x \in S}

Onward(c, op, k, path) ==
    UNION {Reach(c, op, t, path \cup {k}) : t \in {t \in NodeKeys : Passes(c, op, k, t)}}

LEMMA OnwardIs ==
  ASSUME NEW c, NEW op, NEW k, NEW path, NEW x
  PROVE  x \in Onward(c, op, k, path)
            <=> \E t \in NodeKeys : Passes(c, op, k, t) /\ x \in Reach(c, op, t, path \cup {k})
BY Zenon DEF Onward

\* Going on from a node is going on from those it passes to, never back to it.
LEMMA ReachStep ==
  ASSUME NEW c, NEW op, NEW k \in NodeKeys, NEW path, Exists(c, k), k \notin path
  PROVE  Reach(c, op, k, path) = {k} \cup Onward(c, op, k, path)
<1> DEFINE S0 == {k} \cup Onward(c, op, k, path)
<1>1. S0 \in SUBSET NodeKeys
  BY OnwardIs DEF Reach
<1>2. Closed(c, op, path, S0)
  <2> SUFFICES ASSUME NEW a \in S0, NEW b \in NodeKeys, Passes(c, op, a, b), b \notin path, b # k
               PROVE  b \in Onward(c, op, k, path)
    BY DEF Closed
  <2>1. CASE a = k
    <3>1. b \in Reach(c, op, b, path \cup {k})
      BY DEF Reach, Passes
    <3> QED  BY <2>1, <3>1, OnwardIs
  <2>2. CASE a \in Onward(c, op, k, path)
    <3>1. PICK t \in NodeKeys : Passes(c, op, k, t) /\ a \in Reach(c, op, t, path \cup {k})
      BY <2>2, OnwardIs
    <3>2. b \in Reach(c, op, t, path \cup {k})
      BY <3>1 DEF Reach, Closed
    <3> QED  BY <3>1, <3>2, OnwardIs
  <2> QED  BY <2>1, <2>2
<1>3. ASSUME NEW x \in Reach(c, op, k, path) PROVE x \in S0
  BY <1>1, <1>2 DEF Reach
<1>4. ASSUME NEW x \in Onward(c, op, k, path) PROVE x \in Reach(c, op, k, path)
  <2>1. PICK t \in NodeKeys : Passes(c, op, k, t) /\ x \in Reach(c, op, t, path \cup {k})
    BY OnwardIs
  <2> SUFFICES ASSUME NEW S \in SUBSET NodeKeys, k \in S, Closed(c, op, path, S)
               PROVE  x \in S
    BY <2>1 DEF Reach
  <2>2. t \in S
    BY <2>1 DEF Reach, Closed
  <2>3. Closed(c, op, path \cup {k}, S)
    BY DEF Closed
  <2> QED  BY <2>1, <2>2, <2>3 DEF Reach
<1>5. k \in Reach(c, op, k, path)
  BY DEF Reach
<1> QED  BY <1>3, <1>4, <1>5

\* A set of subsets of a finite set has one that no other of them exceeds.
Missing(N, P) == Cardinality(N \ P)

Families(N, Sets) == Sets \in SUBSET SUBSET N

LEMMA HasMaximal ==
  ASSUME NEW N, IsFiniteSet(N), NEW Sets, Families(N, Sets), Sets # {}
  PROVE  \E P \in Sets : \A k \in N \ P : P \cup {k} \notin Sets
<1> DEFINE Sizes == {Missing(N, P) : P \in Sets}
<1>1. \A P \in Sets : Missing(N, P) \in Nat
  BY FS_Difference, FS_CardinalityType DEF Missing, Families
<1>2. \A P \in Sets : \A k \in N \ P : Missing(N, P \cup {k}) = Missing(N, P) - 1
  <2> SUFFICES ASSUME NEW P \in Sets, NEW k \in N \ P PROVE Missing(N, P \cup {k}) = Missing(N, P) - 1
    OBVIOUS
  <2>1. PICK M : M = N \ P
    OBVIOUS
  <2>2. IsFiniteSet(M) /\ k \in M
    BY <2>1, FS_Difference
  <2>3. Cardinality(M \ {k}) = Cardinality(M) - 1
    BY <2>2, FS_RemoveElement
  <2>4. N \ (P \cup {k}) = M \ {k}
    BY <2>1
  <2> QED  BY <2>1, <2>3, <2>4 DEF Missing
<1>3. Sizes \in SUBSET Nat /\ Sizes # {}
  BY <1>1
<1>4. PICK m \in Sizes : \A y \in Sizes : m <= y
  BY <1>3, HasLeast
<1>5. PICK P \in Sets : m = Missing(N, P)
  OBVIOUS
<1>6. ASSUME NEW k \in N \ P, P \cup {k} \in Sets PROVE FALSE
  <2>1. m <= Missing(N, P \cup {k}) /\ Missing(N, P \cup {k}) = Missing(N, P) - 1
    BY <1>2, <1>4, <1>6
  <2> QED  BY <1>1, <1>5, <2>1
<1> QED  BY <1>6


\* What the walk of resource bindings finds: the resources it reaches for one of
\* the operations that support it.
Found(c, k, ops, path) ==
    {p \in NodeKeys \X Operations :
       p[2] \in ops /\ p[1] \in Reach(c, p[2], k, path) /\ IsResource(c, p[1]) /\ p[2] \in Supported(c, p[1])}

\* What the walk of references finds.
Finds(c, op, k, path) ==
    \E x \in Reach(c, op, k, path) : IsResource(c, x) /\ op \in Supported(c, x)

\* Resources end every way (validateCatalog).
Ends(c) == \A k \in NodeKeys : IsResource(c, k) => /\ DOMAIN c[k].refs = {}
                                                   /\ Children(c, k) = {}

LEMMA ValidEnds == ASSUME NEW c, Validate(c), None \notin NodeKeys PROVE Ends(c)
<1> SUFFICES ASSUME NEW k \in NodeKeys, IsResource(c, k)
             PROVE  DOMAIN c[k].refs = {} /\ Children(c, k) = {}
  BY DEF Ends
<1>1. c[k].kind = "resource"
  BY DEF IsResource
<1>2. DOMAIN c[k].refs = {}
  BY <1>1 DEF Validate
<1>3. ASSUME NEW child \in NodeKeys, c[child].parent = k PROVE FALSE
  BY <1>1, <1>3 DEF Validate
<1> QED  BY <1>2, <1>3 DEF Children

LEMMA ResourceReach ==
  ASSUME NEW c, Ends(c), NEW op, NEW k \in NodeKeys, NEW path, IsResource(c, k), k \notin path
  PROVE  Reach(c, op, k, path) = {k}
<1>1. Exists(c, k)
  BY DEF Exists, IsResource
<1>2. \A t \in NodeKeys : ~Passes(c, op, k, t)
  BY DEF Ends, Children, Passes
<1>3. Onward(c, op, k, path) = {}
  BY <1>2, OnwardIs
<1> QED  BY <1>1, <1>3, ReachStep

\* What the walk does with a node, and its equation.
Passed(c, k, t, ops) == {o \in ops : Selects(c, k, t, o)}

Visit(c, f, k, ops, seen) ==
    LET path == seen \cup {k}
    IN  IF ~Exists(c, k) \/ k \in seen \/ ops = {} THEN {}
        ELSE IF IsResource(c, k) THEN {k} \X (ops \cap Supported(c, k))
        ELSE UNION ({f[<<t, ops, path>>] : t \in Children(c, k)}
               \cup {f[<<t, Passed(c, k, t, ops), path>>] : t \in DOMAIN c[k].refs})

From(f, k, ops, path) == f[<<k, ops, path>>]

WalksAt(c, f, path) ==
    \A k \in NodeKeys, ops \in SUBSET Operations : From(f, k, ops, path) = Found(c, k, ops, path)

LEMMA VisitIs ==
  ASSUME NEW c, NEW f, NEW k, NEW ops, NEW path, NEW p,
         Exists(c, k), k \notin path, ops # {}, ~IsResource(c, k)
  PROVE  p \in Visit(c, f, k, ops, path)
            <=> \/ \E t \in Children(c, k) : p \in From(f, t, ops, path \cup {k})
                \/ \E t \in DOMAIN c[k].refs :
                      p \in From(f, t, Passed(c, k, t, ops), path \cup {k})
BY Zenon DEF Visit, From

LEMMA FoundIs ==
  ASSUME NEW c, NEW k, NEW ops \in SUBSET Operations, NEW path, NEW p
  PROVE  p \in Found(c, k, ops, path)
            <=> /\ p \in NodeKeys \X Operations /\ p[2] \in ops
                /\ p[1] \in Reach(c, p[2], k, path)
                /\ IsResource(c, p[1]) /\ p[2] \in Supported(c, p[1])
BY DEF Found

LEMMA FoundOnward ==
  ASSUME NEW c, CatalogTyped(c), NEW f, NEW k \in NodeKeys, NEW ops \in SUBSET Operations,
         NEW path, WalksAt(c, f, path \cup {k}),
         Exists(c, k), k \notin path, ops # {}, ~IsResource(c, k), NEW p
  PROVE  p \in Visit(c, f, k, ops, path) <=> p \in Found(c, k, ops, path)
<1>1. Children(c, k) \subseteq NodeKeys /\ DOMAIN c[k].refs \subseteq NodeKeys
  BY DEF Children, CatalogTyped, NodeTyped, Partial
<1>2. \A t \in NodeKeys, os \in SUBSET Operations :
         From(f, t, os, path \cup {k}) = Found(c, t, os, path \cup {k})
  BY DEF WalksAt
<1>3. \A t : Passed(c, k, t, ops) \in SUBSET Operations
  BY DEF Passed
<1>4. p \in Visit(c, f, k, ops, path)
         <=> \/ \E t \in Children(c, k) : p \in Found(c, t, ops, path \cup {k})
             \/ \E t \in DOMAIN c[k].refs :
                   p \in Found(c, t, Passed(c, k, t, ops), path \cup {k})
  <2>1. p \in Visit(c, f, k, ops, path)
           <=> \/ \E t \in Children(c, k) : p \in From(f, t, ops, path \cup {k})
               \/ \E t \in DOMAIN c[k].refs :
                     p \in From(f, t, Passed(c, k, t, ops), path \cup {k})
    BY VisitIs
  <2>2. \A t \in Children(c, k) : From(f, t, ops, path \cup {k}) = Found(c, t, ops, path \cup {k})
    BY <1>1, <1>2
  <2>3. \A t \in DOMAIN c[k].refs :
           From(f, t, Passed(c, k, t, ops), path \cup {k})
              = Found(c, t, Passed(c, k, t, ops), path \cup {k})
    BY <1>1, <1>2, <1>3
  <2> QED  BY <2>1, <2>2, <2>3, Zenon
<1>5. ASSUME p \in NodeKeys \X Operations, p[2] \in ops, IsResource(c, p[1])
      PROVE  p[1] \in Reach(c, p[2], k, path)
                <=> \/ \E t \in Children(c, k) : p[1] \in Reach(c, p[2], t, path \cup {k})
                    \/ \E t \in DOMAIN c[k].refs :
                          Selects(c, k, t, p[2]) /\ p[1] \in Reach(c, p[2], t, path \cup {k})
  <2>1. p[1] # k
    BY <1>5
  <2>2. p[1] \in Reach(c, p[2], k, path) <=> p[1] \in Onward(c, p[2], k, path)
    BY <2>1, ReachStep
  <2>3. p[1] \in Onward(c, p[2], k, path)
           <=> \E t \in NodeKeys : Passes(c, p[2], k, t) /\ p[1] \in Reach(c, p[2], t, path \cup {k})
    BY OnwardIs
  <2>4. \A t : p[1] \in Reach(c, p[2], t, path \cup {k}) => Exists(c, t)
    BY DEF Reach
  <2> QED  BY <1>1, <2>2, <2>3, <2>4 DEF Passes, Children
<1>6. p \in Found(c, k, ops, path) =>
         \/ \E t \in Children(c, k) : p \in Found(c, t, ops, path \cup {k})
         \/ \E t \in DOMAIN c[k].refs :
               p \in Found(c, t, Passed(c, k, t, ops), path \cup {k})
  <2> SUFFICES ASSUME p \in Found(c, k, ops, path)
               PROVE  \/ \E t \in Children(c, k) : p \in Found(c, t, ops, path \cup {k})
                      \/ \E t \in DOMAIN c[k].refs :
                            p \in Found(c, t, Passed(c, k, t, ops), path \cup {k})
    OBVIOUS
  <2>1. /\ p \in NodeKeys \X Operations /\ p[2] \in ops /\ p[1] \in Reach(c, p[2], k, path)
        /\ IsResource(c, p[1]) /\ p[2] \in Supported(c, p[1])
    BY FoundIs
  <2>2. CASE \E t \in Children(c, k) : p[1] \in Reach(c, p[2], t, path \cup {k})
    BY <2>1, <2>2, FoundIs
  <2>3. CASE \E t \in DOMAIN c[k].refs :
                Selects(c, k, t, p[2]) /\ p[1] \in Reach(c, p[2], t, path \cup {k})
    <3>1. PICK t \in DOMAIN c[k].refs :
             Selects(c, k, t, p[2]) /\ p[1] \in Reach(c, p[2], t, path \cup {k})
      BY <2>3
    <3>2. p[2] \in Passed(c, k, t, ops)
      BY <2>1, <3>1 DEF Passed
    <3> QED  BY <1>3, <2>1, <3>1, <3>2, FoundIs
  <2> QED  BY <1>5, <2>1, <2>2, <2>3
<1>7. ASSUME NEW t \in Children(c, k), p \in Found(c, t, ops, path \cup {k})
      PROVE  p \in Found(c, k, ops, path)
  <2>1. /\ p \in NodeKeys \X Operations /\ p[2] \in ops
        /\ p[1] \in Reach(c, p[2], t, path \cup {k})
        /\ IsResource(c, p[1]) /\ p[2] \in Supported(c, p[1])
    BY <1>7, FoundIs
  <2> QED  BY <1>5, <2>1, FoundIs
<1>8. ASSUME NEW t \in DOMAIN c[k].refs,
             p \in Found(c, t, Passed(c, k, t, ops), path \cup {k})
      PROVE  p \in Found(c, k, ops, path)
  <2>1. /\ p \in NodeKeys \X Operations /\ p[2] \in Passed(c, k, t, ops)
        /\ p[1] \in Reach(c, p[2], t, path \cup {k})
        /\ IsResource(c, p[1]) /\ p[2] \in Supported(c, p[1])
    BY <1>3, <1>8, FoundIs
  <2>2. p[2] \in ops /\ Selects(c, k, t, p[2])
    BY <2>1 DEF Passed
  <2> QED  BY <1>5, <2>1, <2>2, FoundIs
<1> QED  BY <1>4, <1>6, <1>7, <1>8

LEMMA FoundVisit ==
  ASSUME NEW c, CatalogTyped(c), Ends(c), NEW f, NEW k \in NodeKeys,
         NEW ops \in SUBSET Operations, NEW path,
         k \notin path => WalksAt(c, f, path \cup {k})
  PROVE  Visit(c, f, k, ops, path) = Found(c, k, ops, path)
<1>1. CASE ~Exists(c, k) \/ k \in path \/ ops = {}
  <2>1. Visit(c, f, k, ops, path) = {}
    BY <1>1, Zenon DEF Visit
  <2>2. Found(c, k, ops, path) = {}
    BY <1>1 DEF Found, Reach
  <2> QED  BY <2>1, <2>2
<1>2. CASE ~(~Exists(c, k) \/ k \in path \/ ops = {}) /\ IsResource(c, k)
  <2>1. Visit(c, f, k, ops, path) = {k} \X (ops \cap Supported(c, k))
    BY <1>2, Zenon DEF Visit
  <2>2. \A op : Reach(c, op, k, path) = {k}
    BY <1>2, ResourceReach
  <2>3. ASSUME NEW p \in Found(c, k, ops, path) PROVE p \in {k} \X (ops \cap Supported(c, k))
    BY <2>2, FoundIs
  <2>4. ASSUME NEW p \in {k} \X (ops \cap Supported(c, k)) PROVE p \in Found(c, k, ops, path)
    BY <1>2, <2>2, FoundIs
  <2> QED  BY <2>1, <2>3, <2>4
<1>3. CASE ~(~Exists(c, k) \/ k \in path \/ ops = {}) /\ ~IsResource(c, k)
  <2>1. \A p : p \in Visit(c, f, k, ops, path) <=> p \in Found(c, k, ops, path)
    BY <1>3, FoundOnward
  <2> QED  BY <2>1, Zenon
<1> QED  BY <1>1, <1>2, <1>3

\* The walk of resource bindings.
Starts == NodeKeys \X (SUBSET Operations) \X (SUBSET NodeKeys)

Walks(c, f) == f = [at \in Starts |-> Visit(c, f, at[1], at[2], at[3])]

LEMMA WalkFrom ==
  ASSUME NEW c, NEW f, Walks(c, f), NEW k \in NodeKeys, NEW ops \in SUBSET Operations,
         NEW path \in SUBSET NodeKeys
  PROVE  From(f, k, ops, path) = Visit(c, f, k, ops, path)
<1>1. PICK at : at = <<k, ops, path>>
  OBVIOUS
<1>2. at \in Starts /\ at[1] = k /\ at[2] = ops /\ at[3] = path
  BY <1>1 DEF Starts
<1>3. PICK v : v = [bt \in Starts |-> Visit(c, f, bt[1], bt[2], bt[3])]
  OBVIOUS
<1>4. v[at] = Visit(c, f, at[1], at[2], at[3])
  BY <1>2, <1>3, Zenon
<1>5. From(f, k, ops, path) = f[at]
  BY <1>1, Zenon DEF From
<1> QED  BY <1>2, <1>3, <1>4, <1>5 DEF Walks

LEMMA WalkFinds ==
  ASSUME NEW c, CatalogTyped(c), Ends(c), IsFiniteSet(NodeKeys), NEW f, Walks(c, f),
         NEW path \in SUBSET NodeKeys
  PROVE  WalksAt(c, f, path)
<1>0. PICK Bad : Bad = {P \in SUBSET NodeKeys : ~WalksAt(c, f, P)}
  OBVIOUS
<1>1. ASSUME Bad # {} PROVE FALSE
  <2>1. PICK P \in Bad : \A k \in NodeKeys \ P : P \cup {k} \notin Bad
    <3>1. Families(NodeKeys, Bad)
      BY <1>0 DEF Families
    <3> QED  BY <1>1, <3>1, HasMaximal, Zenon
  <2>2. ASSUME NEW k \in NodeKeys, NEW ops \in SUBSET Operations
        PROVE  From(f, k, ops, P) = Found(c, k, ops, P)
    <3>0. P \in SUBSET NodeKeys
      BY <1>0, <2>1
    <3>1. k \notin P => WalksAt(c, f, P \cup {k})
      BY <1>0, <2>1
    <3>2. From(f, k, ops, P) = Visit(c, f, k, ops, P)
      BY <3>0, WalkFrom
    <3>3. Visit(c, f, k, ops, P) = Found(c, k, ops, P)
      BY <3>1, FoundVisit
    <3> QED  BY <3>2, <3>3
  <2> QED  BY <1>0, <2>1, <2>2 DEF WalksAt
<1> QED  BY <1>0, <1>1

LEMMA WalkExists ==
  ASSUME NEW c, CatalogTyped(c), Ends(c)
  PROVE  \E f : Walks(c, f)
<1>1. PICK f : f = [at \in Starts |-> Found(c, at[1], at[2], at[3])]
  OBVIOUS
<1>2. ASSUME NEW path \in SUBSET NodeKeys PROVE WalksAt(c, f, path)
  <2> SUFFICES ASSUME NEW k \in NodeKeys, NEW ops \in SUBSET Operations
               PROVE  From(f, k, ops, path) = Found(c, k, ops, path)
    BY DEF WalksAt
  <2>1. PICK at : at = <<k, ops, path>>
    OBVIOUS
  <2>2. at \in Starts /\ at[1] = k /\ at[2] = ops /\ at[3] = path
    BY <2>1 DEF Starts
  <2>3. f[at] = Found(c, at[1], at[2], at[3])
    BY <1>1, <2>2, Zenon
  <2>4. From(f, k, ops, path) = f[at]
    BY <2>1, Zenon DEF From
  <2> QED  BY <2>2, <2>3, <2>4
<1>3. ASSUME NEW at \in Starts
      PROVE  Found(c, at[1], at[2], at[3]) = Visit(c, f, at[1], at[2], at[3])
  <2>1. at[1] \in NodeKeys /\ at[2] \in SUBSET Operations /\ at[3] \in SUBSET NodeKeys
    BY DEF Starts
  <2>2. WalksAt(c, f, at[3] \cup {at[1]})
    BY <1>2, <2>1
  <2> QED  BY <2>1, <2>2, FoundVisit
<1>4. [at \in Starts |-> Found(c, at[1], at[2], at[3])]
         = [at \in Starts |-> Visit(c, f, at[1], at[2], at[3])]
  BY <1>3, Zenon
<1> QED  BY <1>1, <1>4, Zenon DEF Walks

\* What directoryResourceBindings returns.
LEMMA DirectoryBindings ==
  ASSUME NEW c, CatalogTyped(c), Ends(c), IsFiniteSet(NodeKeys), NEW owner \in NodeKeys,
         NEW op, op = "*" \/ op \in Operations
  PROVE  DirectoryResourceBindings(c, owner, op)
            = Found(c, owner, IF op = "*" THEN Operations ELSE {op}, {})
<1> DEFINE P(f) == Walks(c, f)
           h == CHOOSE f : P(f)
           ops == IF op = "*" THEN Operations ELSE {op}
<1>1. P(h)
  <2>1. \E f : P(f)
    BY WalkExists
  <2> HIDE DEF P
  <2> QED  BY <2>1
<1>2. DirectoryResourceBindings(c, owner, op) = From(h, owner, ops, {})
  BY Zenon DEF DirectoryResourceBindings, Walks, Visit, Passed, Starts, From
<1>3. ops \in SUBSET Operations
  BY DEF Operations
<1> HIDE DEF h
<1>4. WalksAt(c, h, {})
  BY <1>1, WalkFinds
<1> HIDE DEF ops
<1> QED  BY <1>2, <1>3, <1>4 DEF WalksAt, ops

-----------------------------------------------------------------------------
(* The walk of references, in the same way.                                 *)

LEMMA FindsOnward ==
  ASSUME NEW c, NEW op, NEW k \in NodeKeys, NEW path,
         Exists(c, k), k \notin path, ~IsResource(c, k)
  PROVE  Finds(c, op, k, path)
            <=> \E t \in NodeKeys : Passes(c, op, k, t) /\ Finds(c, op, t, path \cup {k})
<1>1. \A x : IsResource(c, x) => (x \in Reach(c, op, k, path) <=> x \in Onward(c, op, k, path))
  BY ReachStep
<1>2. \A x : x \in Onward(c, op, k, path)
                <=> \E t \in NodeKeys : Passes(c, op, k, t) /\ x \in Reach(c, op, t, path \cup {k})
  BY OnwardIs
<1> QED  BY <1>1, <1>2, Zenon DEF Finds

Told(f, k, path) == f[<<k, path>>]

Answer(c, op, f, k, seen) ==
    IF ~Exists(c, k) \/ k \in seen THEN FALSE
    ELSE IF IsResource(c, k) THEN op \in Supported(c, k)
    ELSE \/ \E t \in Children(c, k) : f[<<t, seen \cup {k}>>]
         \/ \E t \in DOMAIN c[k].refs : Selects(c, k, t, op) /\ f[<<t, seen \cup {k}>>]

AnswersAt(c, op, f, path) == \A k \in NodeKeys : Told(f, k, path) <=> Finds(c, op, k, path)

LEMMA AnswerIs ==
  ASSUME NEW c, NEW op, NEW f, NEW k, NEW path,
         Exists(c, k), k \notin path, ~IsResource(c, k)
  PROVE  Answer(c, op, f, k, path)
            <=> \/ \E t \in Children(c, k) : Told(f, t, path \cup {k})
                \/ \E t \in DOMAIN c[k].refs : Selects(c, k, t, op) /\ Told(f, t, path \cup {k})
BY Zenon DEF Answer, Told

LEMMA FindsAnswer ==
  ASSUME NEW c, CatalogTyped(c), Ends(c), NEW op, NEW f, NEW k \in NodeKeys, NEW path,
         k \notin path => AnswersAt(c, op, f, path \cup {k})
  PROVE  Answer(c, op, f, k, path) <=> Finds(c, op, k, path)
<1>1. CASE ~Exists(c, k) \/ k \in path
  <2>1. ~Answer(c, op, f, k, path)
    BY <1>1, Zenon DEF Answer
  <2>2. ~Finds(c, op, k, path)
    BY <1>1 DEF Finds, Reach
  <2> QED  BY <2>1, <2>2
<1>2. CASE Exists(c, k) /\ k \notin path /\ IsResource(c, k)
  <2>1. Answer(c, op, f, k, path) <=> op \in Supported(c, k)
    BY <1>2, Zenon DEF Answer
  <2>2. Reach(c, op, k, path) = {k}
    BY <1>2, ResourceReach
  <2> QED  BY <1>2, <2>1, <2>2 DEF Finds
<1>3. CASE Exists(c, k) /\ k \notin path /\ ~IsResource(c, k)
  <2>1. Answer(c, op, f, k, path)
           <=> \/ \E t \in Children(c, k) : Told(f, t, path \cup {k})
               \/ \E t \in DOMAIN c[k].refs : Selects(c, k, t, op) /\ Told(f, t, path \cup {k})
    BY <1>3, AnswerIs
  <2>2. Finds(c, op, k, path)
           <=> \E t \in NodeKeys : Passes(c, op, k, t) /\ Finds(c, op, t, path \cup {k})
    BY <1>3, FindsOnward
  <2>3. Children(c, k) \subseteq NodeKeys /\ DOMAIN c[k].refs \subseteq NodeKeys
    BY DEF Children, CatalogTyped, NodeTyped, Partial
  <2>4. \A t \in NodeKeys : Told(f, t, path \cup {k}) <=> Finds(c, op, t, path \cup {k})
    BY <1>3 DEF AnswersAt
  <2>5. \A t \in NodeKeys : Finds(c, op, t, path \cup {k}) => Exists(c, t)
    BY DEF Finds, Reach
  <2>6. \A t \in NodeKeys : Exists(c, t) =>
           (Passes(c, op, k, t) <=> \/ t \in Children(c, k)
                                    \/ t \in DOMAIN c[k].refs /\ Selects(c, k, t, op))
    BY DEF Passes, Children
  <2> QED  BY <2>1, <2>2, <2>3, <2>4, <2>5, <2>6, Zenon
<1> QED  BY <1>1, <1>2, <1>3

Places == NodeKeys \X (SUBSET NodeKeys)

Asks(c, op, f) == f = [at \in Places |-> Answer(c, op, f, at[1], at[2])]

LEMMA AskTold ==
  ASSUME NEW c, NEW op, NEW f, Asks(c, op, f), NEW k \in NodeKeys, NEW path \in SUBSET NodeKeys
  PROVE  Told(f, k, path) <=> Answer(c, op, f, k, path)
<1>1. PICK at : at = <<k, path>>
  OBVIOUS
<1>2. at \in Places /\ at[1] = k /\ at[2] = path
  BY <1>1 DEF Places
<1>3. PICK v : v = [bt \in Places |-> Answer(c, op, f, bt[1], bt[2])]
  OBVIOUS
<1>4. v[at] = Answer(c, op, f, at[1], at[2])
  BY <1>2, <1>3, Zenon
<1>5. Told(f, k, path) = f[at]
  BY <1>1, Zenon DEF Told
<1>6. Told(f, k, path) = Answer(c, op, f, k, path)
  BY <1>2, <1>3, <1>4, <1>5 DEF Asks
<1> QED  BY <1>6, Zenon

LEMMA AskFinds ==
  ASSUME NEW c, CatalogTyped(c), Ends(c), IsFiniteSet(NodeKeys), NEW op, NEW f,
         Asks(c, op, f), NEW path \in SUBSET NodeKeys
  PROVE  AnswersAt(c, op, f, path)
<1>0. PICK Bad : Bad = {P \in SUBSET NodeKeys : ~AnswersAt(c, op, f, P)}
  OBVIOUS
<1>1. ASSUME Bad # {} PROVE FALSE
  <2>1. PICK P \in Bad : \A k \in NodeKeys \ P : P \cup {k} \notin Bad
    <3>1. Families(NodeKeys, Bad)
      BY <1>0 DEF Families
    <3> QED  BY <1>1, <3>1, HasMaximal, Zenon
  <2>2. ASSUME NEW k \in NodeKeys PROVE Told(f, k, P) <=> Finds(c, op, k, P)
    <3>0. P \in SUBSET NodeKeys
      BY <1>0, <2>1
    <3>1. k \notin P => AnswersAt(c, op, f, P \cup {k})
      BY <1>0, <2>1
    <3>2. Told(f, k, P) <=> Answer(c, op, f, k, P)
      BY <3>0, AskTold
    <3>3. Answer(c, op, f, k, P) <=> Finds(c, op, k, P)
      BY <3>1, FindsAnswer
    <3> QED  BY <3>2, <3>3
  <2> QED  BY <1>0, <2>1, <2>2 DEF AnswersAt
<1> QED  BY <1>0, <1>1

LEMMA AskExists ==
  ASSUME NEW c, CatalogTyped(c), Ends(c), NEW op
  PROVE  \E f : Asks(c, op, f)
<1>1. PICK f : f = [at \in Places |-> Finds(c, op, at[1], at[2])]
  OBVIOUS
<1>2. ASSUME NEW path \in SUBSET NodeKeys PROVE AnswersAt(c, op, f, path)
  <2> SUFFICES ASSUME NEW k \in NodeKeys PROVE Told(f, k, path) <=> Finds(c, op, k, path)
    BY DEF AnswersAt
  <2>1. PICK at : at = <<k, path>>
    OBVIOUS
  <2>2. at \in Places /\ at[1] = k /\ at[2] = path
    BY <2>1 DEF Places
  <2>3. f[at] = Finds(c, op, at[1], at[2])
    BY <1>1, <2>2, Zenon
  <2>4. Told(f, k, path) = f[at]
    BY <2>1, Zenon DEF Told
  <2>5. Told(f, k, path) = Finds(c, op, k, path)
    BY <2>2, <2>3, <2>4
  <2> QED  BY <2>5, Zenon
<1>3. ASSUME NEW at \in Places
      PROVE  Finds(c, op, at[1], at[2]) = Answer(c, op, f, at[1], at[2])
  <2>1. at[1] \in NodeKeys /\ at[2] \in SUBSET NodeKeys
    BY DEF Places
  <2>2. AnswersAt(c, op, f, at[2] \cup {at[1]})
    BY <1>2, <2>1
  <2>3. Finds(c, op, at[1], at[2]) <=> Answer(c, op, f, at[1], at[2])
    BY <2>1, <2>2, FindsAnswer
  <2>4. Finds(c, op, at[1], at[2]) \in BOOLEAN
    BY Zenon DEF Finds
  <2>5. Answer(c, op, f, at[1], at[2]) \in BOOLEAN
    <3>1. CASE ~Exists(c, at[1]) \/ at[1] \in at[2]
      BY <3>1, Zenon DEF Answer
    <3>2. CASE ~(~Exists(c, at[1]) \/ at[1] \in at[2]) /\ IsResource(c, at[1])
      <4>1. Answer(c, op, f, at[1], at[2]) = (op \in Supported(c, at[1]))
        BY <3>2, Zenon DEF Answer
      <4>2. (op \in Supported(c, at[1])) \in BOOLEAN
        OBVIOUS
      <4> QED  BY <4>1, <4>2
    <3>3. CASE ~(~Exists(c, at[1]) \/ at[1] \in at[2]) /\ ~IsResource(c, at[1])
      BY <3>3, Zenon DEF Answer
    <3> QED  BY <3>1, <3>2, <3>3
  <2> QED  BY <2>3, <2>4, <2>5
<1>4. [at \in Places |-> Finds(c, op, at[1], at[2])]
         = [at \in Places |-> Answer(c, op, f, at[1], at[2])]
  BY <1>3, Zenon
<1> QED  BY <1>1, <1>4, Zenon DEF Asks

\* What supportsReferencedOperation returns.
LEMMA ReferencedOperation ==
  ASSUME NEW c, CatalogTyped(c), Ends(c), IsFiniteSet(NodeKeys), NEW k \in NodeKeys, NEW op
  PROVE  SupportsReferencedOperation(c, k, op) <=> Finds(c, op, k, {})
<1> DEFINE P(f) == Asks(c, op, f)
           h == CHOOSE f : P(f)
<1>1. P(h)
  <2>1. \E f : P(f)
    BY AskExists
  <2> HIDE DEF P
  <2> QED  BY <2>1
<1>2. SupportsReferencedOperation(c, k, op) <=> Told(h, k, {})
  BY Zenon DEF SupportsReferencedOperation, Asks, Answer, Places, Told
<1> HIDE DEF h
<1>3. AnswersAt(c, op, h, {})
  BY <1>1, AskFinds
<1> QED  BY <1>2, <1>3 DEF AnswersAt

-----------------------------------------------------------------------------
(* Types of documents and configurations.                                   *)

LEMMA AbsentTyped == NodeTyped(Absent)
BY DEF NodeTyped, Absent, Partial

\* What mergeResourceBindings makes of parts: for a resource and an operation, all
\* that the parts for them select.
Chosen(parts, b) == {p[3] : p \in {p \in parts : <<p[1], p[2]>> = b}}

LEMMA ChosenIs ==
  ASSUME NEW parts, NEW b, NEW s
  PROVE  s \in Chosen(parts, b) <=> \E p \in parts : <<p[1], p[2]>> = b /\ s = p[3]
BY Zenon DEF Chosen

LEMMA MergeDomain ==
  ASSUME NEW parts, NEW b
  PROVE  b \in DOMAIN MergeResourceBindings(parts) <=> \E p \in parts : b = <<p[1], p[2]>>
<1>1. DOMAIN MergeResourceBindings(parts) = {<<p[1], p[2]>> : p \in parts}
  BY Zenon DEF MergeResourceBindings
<1> QED  BY <1>1, Zenon

LEMMA MergeAt ==
  ASSUME NEW parts, NEW b \in DOMAIN MergeResourceBindings(parts)
  PROVE  MergeResourceBindings(parts)[b] =
            IF All \in Chosen(parts, b) THEN All ELSE UNION Chosen(parts, b)
BY Zenon DEF MergeResourceBindings, Chosen

PartTyped(p) ==
    /\ <<p[1], p[2]>> \in NodeKeys \X (Operations \cup {"*"})
    /\ p[3] \in Selections

LEMMA MergeIsFunction ==
  ASSUME NEW parts
  PROVE  MergeResourceBindings(parts) =
           [b \in DOMAIN MergeResourceBindings(parts) |-> MergeResourceBindings(parts)[b]]
<1>1. PICK m : m = MergeResourceBindings(parts)
  OBVIOUS
<1>2. m = [b \in DOMAIN m |-> m[b]]
  BY <1>1, Zenon DEF MergeResourceBindings
<1> QED  BY <1>1, <1>2

LEMMA MergeTyped ==
  ASSUME NEW parts, \A p \in parts : PartTyped(p)
  PROVE  Partial(MergeResourceBindings(parts), NodeKeys \X (Operations \cup {"*"}), Selections)
<1>1. PICK m : m = MergeResourceBindings(parts)
  OBVIOUS
<1>2. ASSUME NEW b \in DOMAIN m
      PROVE  b \in NodeKeys \X (Operations \cup {"*"}) /\ m[b] \in Selections
  <2>1. PICK p \in parts : b = <<p[1], p[2]>>
    BY <1>1, MergeDomain
  <2>2. m[b] = IF All \in Chosen(parts, b) THEN All ELSE UNION Chosen(parts, b)
    BY <1>1, MergeAt
  <2>3. \A s \in Chosen(parts, b) : s \in Selections
    BY ChosenIs DEF PartTyped
  <2>4. All \notin Chosen(parts, b) => UNION Chosen(parts, b) \subseteq Features
    BY <2>3 DEF Selections
  <2>5. m[b] \in Selections
    BY <2>2, <2>4 DEF Selections
  <2> QED  BY <2>1, <2>5 DEF PartTyped
<1>3. m = [b \in DOMAIN m |-> m[b]]
  BY <1>1, MergeIsFunction
<1>4. m \in [DOMAIN m -> Selections]
  BY <1>2, <1>3, Zenon
<1>5. DOMAIN m \subseteq NodeKeys \X (Operations \cup {"*"})
  BY <1>2, Zenon
<1> QED  BY <1>1, <1>4, <1>5 DEF Partial

\* Where nothing selects all, what is selected is a set of features.
LEMMA MergeOfFeatures ==
  ASSUME NEW parts, \A p \in parts : p[3] \in SUBSET Features,
         NEW b \in DOMAIN MergeResourceBindings(parts)
  PROVE  MergeResourceBindings(parts)[b] = UNION Chosen(parts, b)
         /\ UNION Chosen(parts, b) \in SUBSET Features
<1>1. \A s \in Chosen(parts, b) : s \in SUBSET Features
  BY ChosenIs
<1>2. All \notin Chosen(parts, b)
  BY <1>1, CatalogConfig
<1> QED  BY <1>1, <1>2, MergeAt

\* The parts that MigrateConvertedResourceConfig merges.
DirectoryParts(after, k, op) ==
    {<<p[1], p[2], after[p[1]].ops[p[2]]>> : p \in DirectoryResourceBindings(after, k, op)}

BindingParts(before, after, cfg, renames, moves) ==
    UNION {IF Converted(before, after, renames, b[1]) THEN DirectoryParts(after, renames[b[1]], b[2])
           ELSE {<<renames[b[1]], b[2], Moved(cfg.bindings[b], moves)>>} : b \in DOMAIN cfg.bindings}

KeyParts(before, after, cfg, renames, moves) ==
    UNION {IF Converted(before, after, renames, k) THEN DirectoryParts(after, renames[k], "read")
           ELSE {<<renames[k], "read",
                   Selected(FeaturesOf(after, renames[k], "read"), Moved(cfg.selected, moves))>>} :
           k \in cfg.keys}

LEMMA MigrateExplicit ==
  ASSUME NEW before, NEW after, NEW cfg, NEW renames, NEW moves, cfg.builtin = ""
  PROVE  MigrateConvertedResourceConfig(before, after, cfg, renames, moves)
            = Explicit(MergeResourceBindings(BindingParts(before, after, cfg, renames, moves)))
BY Zenon DEF MigrateConvertedResourceConfig, Converted, BindingParts, DirectoryParts

LEMMA MigrateDefault ==
  ASSUME NEW before, NEW after, NEW cfg, NEW renames, NEW moves, cfg.builtin = "default",
         \E k \in cfg.keys : Converted(before, after, renames, k),
         NEW reads, reads = MergeResourceBindings(KeyParts(before, after, cfg, renames, moves))
  PROVE  MigrateConvertedResourceConfig(before, after, cfg, renames, moves)
            = Default({b[1] : b \in DOMAIN reads}, UNION {reads[b] : b \in DOMAIN reads})
BY Zenon DEF MigrateConvertedResourceConfig, Converted, KeyParts, DirectoryParts

RenamedOnly(cfg, renames, moves) ==
    [builtin |-> cfg.builtin, bindings |-> cfg.bindings,
     keys |-> {renames[k] : k \in cfg.keys}, selected |-> Moved(cfg.selected, moves)]

LEMMA MigrateAll ==
  ASSUME NEW before, NEW after, NEW cfg, NEW renames, NEW moves, cfg.builtin = "all"
  PROVE  MigrateConvertedResourceConfig(before, after, cfg, renames, moves)
            = RenamedOnly(cfg, renames, moves)
BY Zenon DEF MigrateConvertedResourceConfig, Converted, RenamedOnly

LEMMA MigrateKept ==
  ASSUME NEW before, NEW after, NEW cfg, NEW renames, NEW moves, cfg.builtin = "default",
         ~\E k \in cfg.keys : Converted(before, after, renames, k)
  PROVE  MigrateConvertedResourceConfig(before, after, cfg, renames, moves)
            = RenamedOnly(cfg, renames, moves)
BY Zenon DEF MigrateConvertedResourceConfig, Converted, RenamedOnly

OpsOf(op) == IF op = "*" THEN Operations ELSE {op}

LEMMA DirectoryPartsAre ==
  ASSUME NEW c, CatalogTyped(c), Ends(c), NEW k \in NodeKeys,
         NEW op \in Operations \cup {"*"}, NEW p \in DirectoryParts(c, k, op)
  PROVE  /\ p[1] \in NodeKeys /\ p[2] \in Operations
         /\ IsResource(c, p[1]) /\ p[2] \in Supported(c, p[1])
         /\ p[2] \in OpsOf(op) /\ p[1] \in Reach(c, p[2], k, {})
         /\ p[3] = c[p[1]].ops[p[2]] /\ p[3] \in SUBSET Features
<1>1. PICK q \in DirectoryResourceBindings(c, k, op) : p = <<q[1], q[2], c[q[1]].ops[q[2]]>>
  BY DEF DirectoryParts
<1>2. OpsOf(op) \in SUBSET Operations
  BY DEF OpsOf, Operations
<1>3. DirectoryResourceBindings(c, k, op) = Found(c, k, OpsOf(op), {})
  BY CatalogConfig, DirectoryBindings DEF OpsOf
<1>4. /\ q \in NodeKeys \X Operations /\ q[2] \in OpsOf(op)
      /\ q[1] \in Reach(c, q[2], k, {})
      /\ IsResource(c, q[1]) /\ q[2] \in Supported(c, q[1])
  BY <1>1, <1>2, <1>3, FoundIs
<1>5. p[1] = q[1] /\ p[2] = q[2] /\ p[3] = c[q[1]].ops[q[2]]
  BY <1>1
<1>6. q[1] \in NodeKeys /\ q[2] \in Operations /\ q[2] \in DOMAIN c[q[1]].ops
  BY <1>4 DEF Supported
<1>7. c[q[1]].ops[q[2]] \in SUBSET Features
  BY <1>6 DEF CatalogTyped, NodeTyped, Partial
<1> QED  BY <1>4, <1>5, <1>6, <1>7

\* And it has all of these.
LEMMA DirectoryPartsHave ==
  ASSUME NEW c, CatalogTyped(c), Ends(c), NEW k \in NodeKeys,
         NEW op \in Operations \cup {"*"}, NEW leaf \in NodeKeys, NEW o \in OpsOf(op),
         IsResource(c, leaf), o \in Supported(c, leaf), leaf \in Reach(c, o, k, {})
  PROVE  \E p \in DirectoryParts(c, k, op) :
            p[1] = leaf /\ p[2] = o /\ p[3] = c[leaf].ops[o]
<1>1. OpsOf(op) \in SUBSET Operations
  BY DEF OpsOf, Operations
<1>2. DirectoryResourceBindings(c, k, op) = Found(c, k, OpsOf(op), {})
  BY CatalogConfig, DirectoryBindings DEF OpsOf
<1>3. PICK q : q = <<leaf, o>>
  OBVIOUS
<1>4. q \in NodeKeys \X Operations /\ q[1] = leaf /\ q[2] = o
  BY <1>1, <1>3
<1>5. q \in DirectoryResourceBindings(c, k, op)
  BY <1>1, <1>2, <1>4, FoundIs
<1>6. PICK p : p = <<q[1], q[2], c[q[1]].ops[q[2]]>>
  OBVIOUS
<1>7. p \in DirectoryParts(c, k, op)
  BY <1>5, <1>6 DEF DirectoryParts
<1>8. p[1] = leaf /\ p[2] = o /\ p[3] = c[leaf].ops[o]
  BY <1>4, <1>6
<1> QED  BY <1>7, <1>8

LEMMA BindingPartsAre ==
  ASSUME NEW before, NEW after, NEW cfg, NEW renames, NEW moves, NEW p
  PROVE  p \in BindingParts(before, after, cfg, renames, moves) <=>
            \E b \in DOMAIN cfg.bindings :
               \/ /\ Converted(before, after, renames, b[1])
                  /\ p \in DirectoryParts(after, renames[b[1]], b[2])
               \/ /\ ~Converted(before, after, renames, b[1])
                  /\ p = <<renames[b[1]], b[2], Moved(cfg.bindings[b], moves)>>
BY Zenon DEF BindingParts

LEMMA KeyPartsAre ==
  ASSUME NEW before, NEW after, NEW cfg, NEW renames, NEW moves, NEW p
  PROVE  p \in KeyParts(before, after, cfg, renames, moves) <=>
            \E k \in cfg.keys :
               \/ /\ Converted(before, after, renames, k)
                  /\ p \in DirectoryParts(after, renames[k], "read")
               \/ /\ ~Converted(before, after, renames, k)
                  /\ p = <<renames[k], "read",
                            Selected(FeaturesOf(after, renames[k], "read"), Moved(cfg.selected, moves))>>
BY Zenon DEF KeyParts

\* The bindings of a configuration, one by one.
LEMMA BindingTyped ==
  ASSUME NEW cfg, ConfigTyped(cfg), NEW b \in DOMAIN cfg.bindings
  PROVE  b[1] \in NodeKeys /\ b[2] \in Operations \cup {"*"} /\ cfg.bindings[b] \in Selections
<1>1. b \in NodeKeys \X (Operations \cup {"*"})
  BY DEF ConfigTyped, Partial
<1>2. cfg.bindings[b] \in Selections
  BY Zenon DEF ConfigTyped, Partial
<1> QED  BY <1>1, <1>2

LEMMA FeaturesTyped ==
  ASSUME NEW c, CatalogTyped(c), NEW k \in NodeKeys, NEW op
  PROVE  FeaturesOf(c, k, op) \in SUBSET Features
<1>1. CASE op \in Supported(c, k)
  BY <1>1 DEF FeaturesOf, CatalogTyped, NodeTyped, Partial, Supported
<1>2. CASE op \notin Supported(c, k)
  BY <1>2 DEF FeaturesOf
<1> QED  BY <1>1, <1>2

LEMMA SelectedTyped ==
  ASSUME NEW features \in SUBSET Features, NEW selection
  PROVE  Selected(features, selection) \in SUBSET features
BY DEF Selected

LEMMA MovedTyped ==
  ASSUME NEW selection \in Selections, NEW moves \in [Features -> Features]
  PROVE  Moved(selection, moves) \in Selections
<1>1. CASE selection = All
  BY <1>1 DEF Moved, Selections
<1>2. CASE selection # All
  <2>1. \A f \in selection : moves[f] \in Features
    BY <1>2 DEF Selections
  <2>2. Moved(selection, moves) = {moves[f] : f \in selection}
    BY <1>2 DEF Moved
  <2> QED  BY <2>1, <2>2 DEF Selections
<1> QED  BY <1>1, <1>2

LEMMA BindingPartsTyped ==
  ASSUME NEW before, NEW after, CatalogTyped(after), Ends(after), NEW cfg, ConfigTyped(cfg),
         NEW renames \in [NodeKeys -> NodeKeys], NEW moves \in [Features -> Features],
         NEW p \in BindingParts(before, after, cfg, renames, moves)
  PROVE  PartTyped(p)
<1>1. PICK b \in DOMAIN cfg.bindings :
         \/ /\ Converted(before, after, renames, b[1])
            /\ p \in DirectoryParts(after, renames[b[1]], b[2])
         \/ /\ ~Converted(before, after, renames, b[1])
            /\ p = <<renames[b[1]], b[2], Moved(cfg.bindings[b], moves)>>
  BY BindingPartsAre
<1>2. b[1] \in NodeKeys /\ b[2] \in Operations \cup {"*"} /\ cfg.bindings[b] \in Selections
  BY BindingTyped
<1>3. renames[b[1]] \in NodeKeys
  BY <1>2
<1>4. CASE p \in DirectoryParts(after, renames[b[1]], b[2])
  <2>1. p[1] \in NodeKeys /\ p[2] \in Operations /\ p[3] \in SUBSET Features
    BY <1>2, <1>3, <1>4, DirectoryPartsAre
  <2> QED  BY <2>1 DEF PartTyped, Selections
<1>5. CASE p = <<renames[b[1]], b[2], Moved(cfg.bindings[b], moves)>>
  <2>1. Moved(cfg.bindings[b], moves) \in Selections
    BY <1>2, MovedTyped
  <2> QED  BY <1>2, <1>3, <1>5, <2>1 DEF PartTyped
<1> QED  BY <1>1, <1>4, <1>5

LEMMA KeyPartsTyped ==
  ASSUME NEW before, NEW after, CatalogTyped(after), Ends(after), NEW cfg, ConfigTyped(cfg),
         NEW renames \in [NodeKeys -> NodeKeys], NEW moves \in [Features -> Features],
         NEW p \in KeyParts(before, after, cfg, renames, moves)
  PROVE  p[1] \in NodeKeys /\ p[2] = "read" /\ p[3] \in SUBSET Features
<1>1. PICK k \in cfg.keys :
         \/ /\ Converted(before, after, renames, k)
            /\ p \in DirectoryParts(after, renames[k], "read")
         \/ /\ ~Converted(before, after, renames, k)
            /\ p = <<renames[k], "read", Selected(FeaturesOf(after, renames[k], "read"), Moved(cfg.selected, moves))>>
  BY KeyPartsAre
<1>2. k \in NodeKeys /\ renames[k] \in NodeKeys
  BY DEF ConfigTyped
<1>3. "read" \in Operations \cup {"*"} /\ OpsOf("read") = {"read"}
  BY DEF Operations, OpsOf
<1>4. CASE p \in DirectoryParts(after, renames[k], "read")
  BY <1>2, <1>3, <1>4, DirectoryPartsAre
<1>5. CASE p = <<renames[k], "read", Selected(FeaturesOf(after, renames[k], "read"), Moved(cfg.selected, moves))>>
  <2>1. Selected(FeaturesOf(after, renames[k], "read"), Moved(cfg.selected, moves)) \in SUBSET Features
    BY <1>2, FeaturesTyped, SelectedTyped
  <2> QED  BY <1>2, <1>5, <2>1
<1> QED  BY <1>1, <1>4, <1>5

LEMMA ExplicitTyped ==
  ASSUME NEW bindings, Partial(bindings, NodeKeys \X (Operations \cup {"*"}), Selections)
  PROVE  ConfigTyped(Explicit(bindings))
BY DEF ConfigTyped, Explicit, Selections

LEMMA DefaultTyped ==
  ASSUME NEW keys \in SUBSET NodeKeys, NEW selected \in Selections
  PROVE  ConfigTyped(Default(keys, selected))
BY DEF ConfigTyped, Default, Partial

LEMMA MigrateTyped ==
  ASSUME NEW before, NEW after, CatalogTyped(after), Ends(after), NEW cfg, ConfigTyped(cfg),
         NEW renames \in [NodeKeys -> NodeKeys], NEW moves \in [Features -> Features]
  PROVE  ConfigTyped(MigrateConvertedResourceConfig(before, after, cfg, renames, moves))
<1>1. PICK migrated : migrated = MigrateConvertedResourceConfig(before, after, cfg, renames, moves)
  OBVIOUS
<1>2. CASE cfg.builtin = ""
  <2>1. migrated = Explicit(MergeResourceBindings(BindingParts(before, after, cfg, renames, moves)))
    BY <1>1, <1>2, MigrateExplicit
  <2>2. \A p \in BindingParts(before, after, cfg, renames, moves) : PartTyped(p)
    BY BindingPartsTyped
  <2> QED  BY <1>1, <2>1, <2>2, MergeTyped, ExplicitTyped
<1>3. CASE cfg.builtin = "default" /\ \E k \in cfg.keys : Converted(before, after, renames, k)
  <2>1. PICK reads : reads = MergeResourceBindings(KeyParts(before, after, cfg, renames, moves))
    OBVIOUS
  <2>2. migrated = Default({b[1] : b \in DOMAIN reads}, UNION {reads[b] : b \in DOMAIN reads})
    BY <1>1, <1>3, <2>1, MigrateDefault
  <2>3. \A p \in KeyParts(before, after, cfg, renames, moves) :
           p[1] \in NodeKeys /\ p[3] \in SUBSET Features
    BY KeyPartsTyped
  <2>4. ASSUME NEW b \in DOMAIN reads
        PROVE  b[1] \in NodeKeys /\ reads[b] \in SUBSET Features
    <3>1. PICK p \in KeyParts(before, after, cfg, renames, moves) : b = <<p[1], p[2]>>
      BY <2>1, MergeDomain
    <3>2. b[1] \in NodeKeys
      BY <2>3, <3>1
    <3>3. reads[b] \in SUBSET Features
      BY <2>1, <2>3, MergeOfFeatures
    <3> QED  BY <3>2, <3>3
  <2>5. {b[1] : b \in DOMAIN reads} \in SUBSET NodeKeys
    BY <2>4
  <2>6. UNION {reads[b] : b \in DOMAIN reads} \in SUBSET Features
    BY <2>4
  <2> QED  BY <1>1, <2>2, <2>5, <2>6, DefaultTyped DEF Selections
<1>4. CASE /\ cfg.builtin # ""
           /\ ~(cfg.builtin = "default" /\ \E k \in cfg.keys : Converted(before, after, renames, k))
  <2>0. \/ cfg.builtin = "all"
        \/ cfg.builtin = "default" /\ ~\E k \in cfg.keys : Converted(before, after, renames, k)
    BY <1>4 DEF ConfigTyped
  <2>1. migrated = RenamedOnly(cfg, renames, moves)
    BY <1>1, <2>0, MigrateAll, MigrateKept
  <2>2. {renames[k] : k \in cfg.keys} \subseteq NodeKeys
    BY DEF ConfigTyped
  <2>3. /\ migrated.builtin = cfg.builtin /\ migrated.bindings = cfg.bindings
        /\ migrated.keys \subseteq NodeKeys /\ migrated.selected = Moved(cfg.selected, moves)
    BY <2>1, <2>2 DEF RenamedOnly
  <2>4. migrated.selected \in Selections
    BY <2>3, MovedTyped DEF ConfigTyped
  <2> QED  BY <1>1, <1>4, <2>3, <2>4 DEF ConfigTyped
<1> QED  BY <1>2, <1>3, <1>4

LEMMA StorableTyped == ASSUME NEW cfg \in Storable PROVE ConfigTyped(cfg)
<1>0. FewFeatures \subseteq Selections /\ FewKeys \subseteq SUBSET NodeKeys
  <2>1. ASSUME NEW p \in Features \X Features PROVE {p[1], p[2]} \in SUBSET Features
    OBVIOUS
  <2>2. FewFeatures \subseteq Selections
    BY <2>1 DEF FewFeatures, Selections
  <2> QED  BY <2>2 DEF FewKeys
<1>1. ASSUME NEW k \in NodeKeys, NEW op \in Operations \cup {"*"}, NEW selected \in FewFeatures
      PROVE  ConfigTyped(Explicit(OneBinding(k, op, selected)))
  <2>0. selected \in Selections
    BY <1>0
  <2>1. Partial(OneBinding(k, op, selected), NodeKeys \X (Operations \cup {"*"}), Selections)
    BY <2>0 DEF Partial, OneBinding
  <2> QED  BY <2>1, ExplicitTyped
<1>2. ASSUME NEW keys \in FewKeys, NEW k \in NodeKeys, NEW selected \in FewFeatures
      PROVE  ConfigTyped(Explicit(Reads(keys, k, selected)))
  <2>0. selected \in Selections /\ All \in Selections /\ keys \in SUBSET NodeKeys
    BY <1>0 DEF Selections
  <2>1. Partial(Reads(keys, k, selected), NodeKeys \X (Operations \cup {"*"}), Selections)
    BY <2>0 DEF Partial, Operations, Reads
  <2> QED  BY <2>1, ExplicitTyped
<1>3. ASSUME NEW keys \in FewKeys, NEW selected \in FewFeatures
      PROVE  ConfigTyped(Default(keys, selected))
  BY <1>0, DefaultTyped
<1>4. ConfigTyped(Builtin)
  BY DEF Builtin, ConfigTyped, Partial, Selections
<1>5. \/ cfg \in {Explicit(OneBinding(k, op, selected)) :
                      k \in NodeKeys, op \in Operations \cup {"*"}, selected \in FewFeatures}
      \/ cfg \in {Explicit(Reads(keys, k, selected)) :
                      keys \in FewKeys, k \in NodeKeys, selected \in FewFeatures}
      \/ cfg \in {Default(keys, selected) : keys \in FewKeys, selected \in FewFeatures}
      \/ cfg = Builtin
  <2>1. cfg \in {Explicit(OneBinding(k, op, selected)) :
                     k \in NodeKeys, op \in Operations \cup {"*"}, selected \in FewFeatures}
           \cup {Explicit(Reads(keys, k, selected)) :
                     keys \in FewKeys, k \in NodeKeys, selected \in FewFeatures}
           \cup {Default(keys, selected) : keys \in FewKeys, selected \in FewFeatures}
           \cup {Builtin}
    BY DEF Storable
  <2> QED  BY <2>1
<1> QED  BY <1>1, <1>2, <1>3, <1>4, <1>5

\* Before there is a document nothing is there.
LEMMA NothingValid == Validate([k \in NodeKeys |-> Absent])
<1>1. PICK c : c = [k \in NodeKeys |-> Absent]
  OBVIOUS
<1>2. \A k \in NodeKeys : c[k] = Absent
  BY <1>1
<1>3. \A k \in NodeKeys : /\ c[k].kind = "absent" /\ c[k].parent = None
                          /\ DOMAIN c[k].refs = {} /\ DOMAIN c[k].ops = {}
  BY <1>2 DEF Absent
<1>4. Acyclic(c)
  <2>1. \A a, b \in NodeKeys : ~Edge(c, a, b)
    BY <1>3 DEF Edge, Exists
  <2> SUFFICES ASSUME NEW S \in SUBSET NodeKeys, S # {}
               PROVE  \E a \in S : \A b \in S : ~Edge(c, a, b)
    BY DEF Acyclic
  <2>2. PICK a \in S : TRUE
    OBVIOUS
  <2> QED  BY <2>1, <2>2
<1>5. ASSUME NEW f \in Features
      PROVE  Cardinality(OwnerOf(c, f)) <= 1 /\ \A o \in OwnerOf(c, f) : o[1] = ResourceOf[f]
  <2>1. OwnerOf(c, f) = {}
    BY <1>3 DEF OwnerOf, Supported
  <2> QED  BY <2>1, FS_EmptySet
<1> QED  BY <1>1, <1>3, <1>4, <1>5 DEF Validate, Supported

LEMMA UpdateCatalogIs ==
  ASSUME NEW next, NEW renames, NEW moves, UpdateCatalog(next, renames, moves)
  PROVE  /\ catalog' = next /\ Validate(next) /\ Resolves(next, config')
         /\ config' = MigrateConvertedResourceConfig(catalog, next, config, renames, moves)
<1>1. PICK new : new = MigrateConvertedResourceConfig(catalog, next, config, renames, moves)
  OBVIOUS
<1>2. /\ catalog' \in {c \in {next} : Validate(c)}
      /\ config' \in {cfg \in {new} : Unrepeated(catalog, next, config, renames, moves)
                                         /\ Resolves(next, cfg)}
  BY <1>1, Zenon DEF UpdateCatalog
<1>3. catalog' = next /\ Validate(next) /\ config' = new /\ Resolves(next, config')
  BY <1>2, Zenon
<1> QED  BY <1>1, <1>3

LEMMA UpdateCatalogTyped ==
  ASSUME PermissionsTypeOK, NEW next, CatalogTyped(next), NEW renames \in ResourceRenames,
         NEW moves \in FeatureRenames, UpdateCatalog(next, renames, moves)
  PROVE  PermissionsTypeOK'
<1>1. /\ catalog' = next /\ Validate(next) /\ Resolves(next, config')
      /\ config' = MigrateConvertedResourceConfig(catalog, next, config, renames, moves)
  BY UpdateCatalogIs, Zenon
<1>2. Ends(next)
  BY <1>1, ValidEnds, CatalogConfig
<1>3. renames \in [NodeKeys -> NodeKeys] /\ moves \in [Features -> Features]
  BY CatalogConfig
<1>4. ConfigTyped(config)
  BY DEF PermissionsTypeOK
<1>5. ConfigTyped(config')
  BY <1>1, <1>2, <1>3, <1>4, MigrateTyped
<1> QED  BY <1>1, <1>5 DEF PermissionsTypeOK

\* Whatever the editors do, the catalog is a valid document and the stored
\* configuration fits it: what the two collections hold (permission.go,
\* resource_catalog.go: validation, conversion and resolution in a transaction).
THEOREM PermissionsTyping == PermissionsSpec => []PermissionsTypeOK
<1>1. PermissionsInit => PermissionsTypeOK
  <2> SUFFICES ASSUME PermissionsInit PROVE PermissionsTypeOK
    OBVIOUS
  <2>1. CatalogTyped(catalog) /\ Validate(catalog)
    BY AbsentTyped, NothingValid DEF PermissionsInit, CatalogTyped
  <2>2. Partial(<<>>, NodeKeys \X (Operations \cup {"*"}), Selections)
    BY DEF Partial
  <2>3. ConfigTyped(config)
    BY <2>2, ExplicitTyped DEF PermissionsInit
  <2>4. Resolves(catalog, config)
    <3>1. config.bindings = <<>> /\ config.keys = {} /\ config.selected = All
      BY DEF PermissionsInit, Explicit
    <3>2. DOMAIN config.bindings = {}
      BY <3>1
    <3> QED  BY <3>1, <3>2 DEF Resolves, Fits
  <2> QED  BY <2>1, <2>3, <2>4 DEF PermissionsTypeOK
<1>2. PermissionsTypeOK /\ [PermissionsNext]_permissionVars => PermissionsTypeOK'
  <2> SUFFICES ASSUME PermissionsTypeOK, [PermissionsNext]_permissionVars
               PROVE  PermissionsTypeOK'
    OBVIOUS
  <2>1. ASSUME NEW next \in Documents, NEW renames \in ResourceRenames,
               NEW moves \in FeatureRenames, UpdateCatalog(next, renames, moves)
        PROVE  PermissionsTypeOK'
    <3>1. CatalogTyped(next)
      BY CatalogConfig
    <3> QED  BY <2>1, <3>1, UpdateCatalogTyped
  <2>2. CASE UpdateAction
    <3>1. config' \in Storable /\ Resolves(catalog, config') /\ catalog' = catalog
      BY <2>2 DEF UpdateAction
    <3> QED  BY <3>1, StorableTyped DEF PermissionsTypeOK
  <2>3. CASE UNCHANGED permissionVars
    BY <2>3 DEF permissionVars, PermissionsTypeOK
  <2> QED  BY <2>1, <2>2, <2>3 DEF PermissionsNext
<1> QED  BY <1>1, <1>2, PTL DEF PermissionsSpec

-----------------------------------------------------------------------------
(* What a directory offers.                                                 *)

LEMMA OfferedIs ==
  ASSUME NEW c, NEW k \in NodeKeys, Exists(c, k), NEW op, NEW x
  PROVE  x \in Offered(c, k, op)
            <=> x \in Reach(c, op, k, {}) /\ IsResource(c, x) /\ op \in Supported(c, x)
<1>1. x \in Offered(c, k, op)
         <=> /\ x \in NodeKeys /\ IsResource(c, x) /\ op \in Supported(c, x)
             /\ \A S \in SUBSET NodeKeys :
                   k \in S /\ (\A a \in S, b \in NodeKeys : Passes(c, op, a, b) => b \in S) => x \in S
  BY Zenon DEF Offered, Passes
<1>2. x \in Reach(c, op, k, {})
         <=> /\ x \in NodeKeys
             /\ \A S \in SUBSET NodeKeys :
                   k \in S /\ (\A a \in S, b \in NodeKeys : Passes(c, op, a, b) => b \in S) => x \in S
  BY Zenon DEF Reach, Closed
<1> QED  BY <1>1, <1>2

LEMMA PickerAgreesAt ==
  ASSUME PermissionsTypeOK, NEW k \in NodeKeys, NEW op \in Operations, Exists(catalog, k)
  PROVE  /\ SupportsReferencedOperation(catalog, k, op) <=> Offered(catalog, k, op) # {}
         /\ DirectoryResourceBindings(catalog, k, op) = Offered(catalog, k, op) \X {op}
<1>1. CatalogTyped(catalog) /\ Ends(catalog) /\ IsFiniteSet(NodeKeys)
  BY ValidEnds, CatalogConfig DEF PermissionsTypeOK
<1>2. SupportsReferencedOperation(catalog, k, op) <=> Finds(catalog, op, k, {})
  BY <1>1, ReferencedOperation
<1>3. \A x : x \in Offered(catalog, k, op)
                <=> /\ x \in Reach(catalog, op, k, {})
                    /\ IsResource(catalog, x) /\ op \in Supported(catalog, x)
  BY OfferedIs
<1>4. Finds(catalog, op, k, {}) <=> Offered(catalog, k, op) # {}
  BY <1>3 DEF Finds
<1>5. op # "*" /\ {op} \in SUBSET Operations
  BY DEF Operations
<1>6. DirectoryResourceBindings(catalog, k, op) = Found(catalog, k, {op}, {})
  BY <1>1, <1>5, DirectoryBindings
<1>7. \A p : p \in Found(catalog, k, {op}, {})
                <=> /\ p \in NodeKeys \X Operations /\ p[2] = op
                    /\ p[1] \in Reach(catalog, p[2], k, {})
                    /\ IsResource(catalog, p[1]) /\ p[2] \in Supported(catalog, p[1])
  BY <1>5, FoundIs
<1>8. \A x \in Offered(catalog, k, op) : x \in NodeKeys
  BY <1>3 DEF Reach
<1>9. ASSUME NEW p \in Found(catalog, k, {op}, {}) PROVE p \in Offered(catalog, k, op) \X {op}
  BY <1>3, <1>7
<1>10. ASSUME NEW p \in Offered(catalog, k, op) \X {op} PROVE p \in Found(catalog, k, {op}, {})
  BY <1>3, <1>7, <1>8
<1> QED  BY <1>2, <1>4, <1>6, <1>9, <1>10

\* The validation of references and the conversion of a resource find the same
\* resources, by whatever chains of children and references there are.
THEOREM PickerSoundness == PermissionsSpec => []PickerAgrees
<1>1. PermissionsTypeOK => PickerAgrees
  BY PickerAgreesAt, Zenon DEF PickerAgrees
<1> QED  BY <1>1, PermissionsTyping, PTL

-----------------------------------------------------------------------------
(* What a grant opens.                                                      *)

LEMMA ResolvedTyped ==
  ASSUME NEW c, CatalogTyped(c), NEW cfg, ConfigTyped(cfg)
  PROVE  ResolveConfig(c, cfg) \in SUBSET Features
<1>1. \A k \in NodeKeys : \A op, selection :
         /\ FeaturesOf(c, k, op) \in SUBSET Features
         /\ Selected(FeaturesOf(c, k, op), selection) \in SUBSET Features
  BY FeaturesTyped, SelectedTyped
<1>2. ResolveAll(c) \in SUBSET Features
  BY <1>1 DEF ResolveAll
<1>3. \A b \in DOMAIN cfg.bindings : b[1] \in NodeKeys
  BY BindingTyped
<1>4. ResolveBindings(c, cfg.bindings) \in SUBSET Features
  BY <1>1, <1>3 DEF ResolveBindings
<1>5. Readable(c, cfg.keys) \in SUBSET Features
  <2>1. cfg.keys \subseteq NodeKeys
    BY DEF ConfigTyped
  <2> QED  BY <1>1, <2>1 DEF Readable
<1>6. Selected(Readable(c, cfg.keys), cfg.selected) \in SUBSET Features
  BY <1>5, SelectedTyped
<1> QED  BY <1>2, <1>4, <1>6 DEF ResolveConfig

LEMMA OpenedTyped ==
  ASSUME NEW features \in SUBSET Features, NEW e \in Opened(features)
  PROVE  /\ e.protocol \in {"http", "grpc"} /\ e.path \in Seq(STRING)
         /\ e.protocol = "grpc" => e.method = "GRPC"
<1>1. PICK f \in features : e \in EndpointsOf[f]
  BY DEF Opened
<1>2. f \in Features
  OBVIOUS
<1>3. EndpointsOf[f] \in SUBSET [protocol : {"http", "grpc"}, method : STRING, path : Seq(STRING)]
  BY <1>2, EndpointsConfig
<1>4. e.protocol = "grpc" => e.method = "GRPC"
  BY <1>1, <1>2, EndpointsConfig
<1> QED  BY <1>1, <1>3, <1>4

\* One segment that is no parameter is the only template of its shape.
LEMMA CanonicalAt ==
  ASSUME NEW path
  PROVE  /\ DOMAIN CanonicalRoute(path) = DOMAIN path
         /\ \A i \in DOMAIN path :
               CanonicalRoute(path)[i] = IF path[i] \in Parameters THEN Placeholder ELSE path[i]
BY Zenon DEF CanonicalRoute

LEMMA SameLength ==
  ASSUME NEW T, NEW s \in Seq(T), NEW t \in Seq(T), DOMAIN s = DOMAIN t
  PROVE  Len(s) = Len(t)
<1>1. /\ Len(s) \in Nat /\ DOMAIN s = 1 .. Len(s)
      /\ Len(t) \in Nat /\ DOMAIN t = 1 .. Len(t)
  BY LenProperties
<1>2. PICK m \in Nat : m = Len(s)
  BY <1>1
<1>3. PICK n \in Nat : n = Len(t)
  BY <1>1
<1>4. 1 .. m = 1 .. n
  BY <1>1, <1>2, <1>3
<1>5. m \in 1 .. m \/ m = 0
  OBVIOUS
<1>6. n \in 1 .. n \/ n = 0
  OBVIOUS
<1>7. \A i : i \in 1 .. m <=> i \in 1 .. n
  BY <1>4, Zenon
<1>8. (m \in 1 .. m <=> m \in 1 .. n) /\ (n \in 1 .. m <=> n \in 1 .. n)
  BY <1>7, Zenon
<1>9. m = n
  BY <1>5, <1>6, <1>8
<1> QED  BY <1>2, <1>3, <1>9

LEMMA OneSegmentPath ==
  ASSUME NEW T, NEW name \in T
  PROVE  <<name>> \in Seq(T) /\ Len(<<name>>) = 1 /\ <<name>>[1] = name
OBVIOUS

LEMMA CanonicalSegment ==
  ASSUME NEW T, NEW name, name \notin Parameters, name # Placeholder, NEW path \in Seq(T),
         NEW s \in Seq(T), Len(s) = 1, s[1] = name
  PROVE  CanonicalRoute(path) = CanonicalRoute(s) <=> path = s
<1>1. DOMAIN s = 1 .. Len(s) /\ 1 \in 1 .. 1
  BY LenProperties
<1>2. ASSUME CanonicalRoute(path) = CanonicalRoute(s) PROVE path = s
  <2>1. DOMAIN path = DOMAIN s
    BY <1>2, CanonicalAt, Zenon
  <2>2. Len(path) = 1 /\ 1 \in DOMAIN path /\ 1 \in DOMAIN s
    BY <1>1, <2>1, SameLength
  <2>3. CanonicalRoute(path)[1] = IF path[1] \in Parameters THEN Placeholder ELSE path[1]
    BY <2>2, CanonicalAt, Zenon
  <2>4. CanonicalRoute(s)[1] = IF s[1] \in Parameters THEN Placeholder ELSE s[1]
    BY <2>2, CanonicalAt, Zenon
  <2>5. path[1] = name
    BY <1>1, <1>2, <2>3, <2>4
  <2>6. \A i \in 1 .. Len(path) : path[i] = s[i]
    BY <2>2, <2>5
  <2> QED  BY <2>2, <2>6, SeqEqual
<1> QED  BY <1>2

LEMMA CanonicalName ==
  ASSUME NEW T, NEW name \in T, name \notin Parameters, name # Placeholder, NEW path \in Seq(T)
  PROVE  CanonicalRoute(path) = CanonicalRoute(<<name>>) <=> path = <<name>>
<1>1. PICK s : s = <<name>>
  OBVIOUS
<1>2. s \in Seq(T) /\ Len(s) = 1 /\ s[1] = name
  BY <1>1, OneSegmentPath
<1>3. CanonicalRoute(path) = CanonicalRoute(s) <=> path = s
  BY <1>2, CanonicalSegment
<1> QED  BY <1>1, <1>3

Follows(t, granted, reset) ==
    LET routed == IF t.resource = "" THEN Dispatch(t.method, t.path) ELSE {<<t.resource>>}
        opens == \E e \in granted, r \in routed :
                   /\ (e.protocol = "grpc") = (t.resource # "")
                   /\ e.method = t.method
                   /\ CanonicalRoute(e.path) = CanonicalRoute(r)
        allowed == CheckPermission(granted, Wildcard(config), reset, t)
    IN  /\ routed # {} /\ ~reset /\ opens => allowed
        /\ routed # {} /\ ~Wildcard(config) /\ allowed => opens
        /\ reset /\ allowed => <<t.method, t.path>> \in ResetTargets

EndpointsTyped(granted) ==
    \A e \in granted : /\ e.protocol \in {"http", "grpc"} /\ e.path \in Seq(STRING)
                       /\ e.protocol = "grpc" => e.method = "GRPC"

LEMMA FollowsHTTP ==
  ASSUME NEW t \in Targets, t.resource = "", NEW granted, EndpointsTyped(granted),
         NEW reset \in BOOLEAN
  PROVE  Follows(t, granted, reset)
<1>1. t.path \in Seq(STRING \ Parameters)
  BY EndpointsConfig
<1>2. Matching(t) = Matching(Target(t.method, t.path, ""))
  BY DEF Matching, Target
<1>3. ResolveHTTPRoute(t) = ResolveHTTPRoute(Target(t.method, t.path, ""))
  BY <1>2 DEF ResolveHTTPRoute
<1>4. PICK routed : routed = Dispatch(t.method, t.path)
  OBVIOUS
<1>5. ResolveHTTPRoute(t) = routed
  BY <1>1, <1>3, <1>4, RouterAgrees
<1>6. CASE routed = {}
  BY <1>4, <1>6 DEF Follows, CheckPermission
<1>7. CASE routed # {}
  BY <1>4, <1>5, <1>7 DEF Follows, CheckPermission, EndpointsTyped
<1> QED  BY <1>6, <1>7

LEMMA FollowsRPC ==
  ASSUME NEW t \in Targets, t.resource # "", NEW granted, EndpointsTyped(granted),
         NEW reset \in BOOLEAN
  PROVE  Follows(t, granted, reset)
<1>1. t.method = "GRPC" /\ t.resource \in STRING /\ t.resource \notin Parameters /\ t.resource # Placeholder
  BY EndpointsConfig
<1>2. ResolveHTTPRoute(t) = {}
  BY DEF ResolveHTTPRoute, Matching
<1>3. \A e \in granted : CanonicalRoute(e.path) = CanonicalRoute(<<t.resource>>)
                            <=> e.path = <<t.resource>>
  <2> SUFFICES ASSUME NEW e \in granted
               PROVE  CanonicalRoute(e.path) = CanonicalRoute(<<t.resource>>)
                         <=> e.path = <<t.resource>>
    OBVIOUS
  <2>1. e.path \in Seq(STRING)
    BY DEF EndpointsTyped
  <2>2. PICK name \in STRING : name = t.resource
    BY <1>1
  <2>3. name \notin Parameters /\ name # Placeholder
    BY <1>1, <2>2
  <2>5. CanonicalRoute(e.path) = CanonicalRoute(<<name>>) <=> e.path = <<name>>
    BY <2>1, <2>3, CanonicalName, Zenon
  <2> QED  BY <2>2, <2>5, Zenon
<1> QED  BY <1>1, <1>2, <1>3 DEF Follows, CheckPermission, MatchEndpoint, EndpointsTyped

\* A holder may call what the router would route to a granted endpoint, and
\* without a wildcard nothing else (permission.go:82, 128).
THEOREM CheckSoundness == PermissionsSpec => []CheckFollowsTheRouter
<1>1. PermissionsTypeOK => CheckFollowsTheRouter
  <2> SUFFICES ASSUME PermissionsTypeOK, NEW t \in Targets, NEW reset \in BOOLEAN
               PROVE  Follows(t, Opened(ResolveConfig(catalog, config)), reset)
    BY Zenon DEF CheckFollowsTheRouter, Follows
  <2>1. ResolveConfig(catalog, config) \in SUBSET Features
    BY ResolvedTyped DEF PermissionsTypeOK
  <2>2. EndpointsTyped(Opened(ResolveConfig(catalog, config)))
    BY <2>1, OpenedTyped DEF EndpointsTyped
  <2> QED  BY <2>2, FollowsHTTP, FollowsRPC
<1> QED  BY <1>1, PermissionsTyping, PTL

-----------------------------------------------------------------------------
(* What a conversion grants.                                                *)

OfferedFeatures(c, k, o) == UNION {FeaturesOf(c, leaf, o) : leaf \in Offered(c, k, o)}

LEMMA RemainsIs ==
  ASSUME NEW c, CatalogTyped(c), NEW k \in NodeKeys, Exists(c, k), NEW op, NEW selected, NEW f
  PROVE  /\ IsResource(c, k) =>
               (f \in Remains(c, k, op, selected) <=> f \in Selected(FeaturesOf(c, k, op), selected))
         /\ ~IsResource(c, k) =>
               (f \in Remains(c, k, op, selected)
                   <=> \E o \in OpsOf(op) : \E leaf \in Reach(c, o, k, {}) :
                          IsResource(c, leaf) /\ o \in Supported(c, leaf) /\ f \in c[leaf].ops[o])
<1>1. CASE IsResource(c, k)
  BY <1>1 DEF Remains
<1>2. CASE ~IsResource(c, k)
  <2>1. f \in Remains(c, k, op, selected)
           <=> \E o \in OpsOf(op) : \E leaf \in Offered(c, k, o) : f \in FeaturesOf(c, leaf, o)
    <3>1. Remains(c, k, op, selected) = UNION {OfferedFeatures(c, k, o) : o \in OpsOf(op)}
      BY <1>2, Zenon DEF Remains, OpsOf, OfferedFeatures
    <3>2. \A o : f \in OfferedFeatures(c, k, o)
                    <=> \E leaf \in Offered(c, k, o) : f \in FeaturesOf(c, leaf, o)
      BY Zenon DEF OfferedFeatures
    <3> QED  BY <3>1, <3>2, Zenon
  <2>2. \A o, leaf : leaf \in Offered(c, k, o)
                        <=> leaf \in Reach(c, o, k, {}) /\ IsResource(c, leaf) /\ o \in Supported(c, leaf)
    BY OfferedIs
  <2>3. \A o, leaf : o \in Supported(c, leaf) => FeaturesOf(c, leaf, o) = c[leaf].ops[o]
    BY DEF FeaturesOf
  <2> QED  BY <1>2, <2>1, <2>2, <2>3, Zenon
<1> QED  BY <1>1, <1>2

\* The parts for a converted resource select what the directory offers.
LEMMA DirectoryGrants ==
  ASSUME NEW c, CatalogTyped(c), Ends(c), NEW k \in NodeKeys, Exists(c, k), ~IsResource(c, k),
         NEW op \in Operations \cup {"*"}, NEW selected, NEW f
  PROVE  f \in Remains(c, k, op, selected) <=> \E p \in DirectoryParts(c, k, op) : f \in p[3]
<1>1. f \in Remains(c, k, op, selected)
         <=> \E o \in OpsOf(op) : \E leaf \in Reach(c, o, k, {}) :
                IsResource(c, leaf) /\ o \in Supported(c, leaf) /\ f \in c[leaf].ops[o]
  BY RemainsIs
<1>2. ASSUME NEW p \in DirectoryParts(c, k, op), f \in p[3] PROVE f \in Remains(c, k, op, selected)
  BY <1>1, <1>2, DirectoryPartsAre
<1>3. ASSUME NEW o \in OpsOf(op), NEW leaf \in Reach(c, o, k, {}),
             IsResource(c, leaf), o \in Supported(c, leaf), f \in c[leaf].ops[o]
      PROVE  \E p \in DirectoryParts(c, k, op) : f \in p[3]
  <2>1. leaf \in NodeKeys
    BY DEF Reach
  <2>2. \E p \in DirectoryParts(c, k, op) : p[1] = leaf /\ p[2] = o /\ p[3] = c[leaf].ops[o]
    BY <1>3, <2>1, DirectoryPartsHave
  <2> QED  BY <1>3, <2>2
<1> QED  BY <1>1, <1>2, <1>3

\* A binding that was merged grants what its parts do.
LEMMA MergeGrants ==
  ASSUME NEW c, NEW parts, \A p \in parts : PartTyped(p), NEW f
  PROVE  f \in ResolveBindings(c, MergeResourceBindings(parts))
            <=> \E p \in parts : f \in Selected(FeaturesOf(c, p[1], p[2]), p[3])
<1>1. PICK m : m = MergeResourceBindings(parts)
  OBVIOUS
<1>2. f \in ResolveBindings(c, m)
         <=> \E b \in DOMAIN m : f \in Selected(FeaturesOf(c, b[1], b[2]), m[b])
  BY Zenon DEF ResolveBindings
<1>3. ASSUME NEW b \in DOMAIN m
      PROVE  f \in Selected(FeaturesOf(c, b[1], b[2]), m[b])
                <=> \E s \in Chosen(parts, b) : f \in Selected(FeaturesOf(c, b[1], b[2]), s)
  <2>1. m[b] = IF All \in Chosen(parts, b) THEN All ELSE UNION Chosen(parts, b)
    BY <1>1, MergeAt
  <2>2. \A s \in Chosen(parts, b) : s \in Selections
    BY ChosenIs DEF PartTyped
  <2>3. CASE All \in Chosen(parts, b)
    BY <2>1, <2>3 DEF Selected
  <2>4. CASE All \notin Chosen(parts, b)
    <3>1. UNION Chosen(parts, b) \in SUBSET Features
      BY <2>2, <2>4 DEF Selections
    <3>2. UNION Chosen(parts, b) # All
      BY <3>1, CatalogConfig
    <3>3. m[b] = UNION Chosen(parts, b)
      BY <2>1, <2>4
    <3>4. f \in Selected(FeaturesOf(c, b[1], b[2]), m[b])
             <=> f \in FeaturesOf(c, b[1], b[2]) /\ f \in UNION Chosen(parts, b)
      BY <3>2, <3>3 DEF Selected
    <3>5. \A s \in Chosen(parts, b) :
             f \in Selected(FeaturesOf(c, b[1], b[2]), s) <=> f \in FeaturesOf(c, b[1], b[2]) /\ f \in s
      BY <2>4 DEF Selected
    <3> QED  BY <3>4, <3>5
  <2> QED  BY <2>3, <2>4
<1>4. ASSUME NEW p \in parts, f \in Selected(FeaturesOf(c, p[1], p[2]), p[3])
      PROVE  f \in ResolveBindings(c, m)
  <2>1. PICK b : b = <<p[1], p[2]>>
    OBVIOUS
  <2>2. b \in DOMAIN m /\ p[3] \in Chosen(parts, b)
    BY <1>1, <2>1, MergeDomain, ChosenIs
  <2>3. b[1] = p[1] /\ b[2] = p[2]
    BY <2>1
  <2> QED  BY <1>2, <1>3, <1>4, <2>2, <2>3
<1>5. ASSUME f \in ResolveBindings(c, m)
      PROVE  \E p \in parts : f \in Selected(FeaturesOf(c, p[1], p[2]), p[3])
  <2>1. PICK b \in DOMAIN m : f \in Selected(FeaturesOf(c, b[1], b[2]), m[b])
    BY <1>2, <1>5
  <2>2. PICK s \in Chosen(parts, b) : f \in Selected(FeaturesOf(c, b[1], b[2]), s)
    BY <1>3, <2>1
  <2>3. PICK p \in parts : <<p[1], p[2]>> = b /\ s = p[3]
    BY ChosenIs
  <2>4. b[1] = p[1] /\ b[2] = p[2]
    BY <2>3
  <2> QED  BY <2>2, <2>3, <2>4
<1> QED  BY <1>1, <1>4, <1>5

-----------------------------------------------------------------------------
(* What a configuration grants after the catalog was edited.                *)

\* The features that the bindings, or the resources, of before leave in after.
BindingsRemain(after, cfg, renames, moves, f) ==
    \E b \in DOMAIN cfg.bindings : f \in Remains(after, renames[b[1]], b[2], Moved(cfg.bindings[b], moves))

KeysRemain(after, cfg, renames, moves, f) ==
    \E k \in cfg.keys : f \in Remains(after, renames[k], "read", Moved(cfg.selected, moves))

\* A part of a directory selects what it is a part for.
LEMMA DirectoryPartSelects ==
  ASSUME NEW c, CatalogTyped(c), Ends(c), NEW k \in NodeKeys,
         NEW op \in Operations \cup {"*"}, NEW p \in DirectoryParts(c, k, op)
  PROVE  Selected(FeaturesOf(c, p[1], p[2]), p[3]) = p[3]
<1>1. p[2] \in Supported(c, p[1]) /\ p[3] = c[p[1]].ops[p[2]]
  BY DirectoryPartsAre
<1>2. FeaturesOf(c, p[1], p[2]) = p[3]
  BY <1>1 DEF FeaturesOf
<1> QED  BY <1>2 DEF Selected

LEMMA ConvertedIs ==
  ASSUME NEW before, NEW after, NEW renames, NEW k, Converted(before, after, renames, k)
  PROVE  Exists(after, renames[k]) /\ ~IsResource(after, renames[k])
BY DEF Converted, Exists, IsResource

\* The new bindings grant what remains of the old ones.
LEMMA BindingsGrant ==
  ASSUME NEW before, NEW after, CatalogTyped(after), Ends(after), NEW cfg, ConfigTyped(cfg),
         NEW renames \in [NodeKeys -> NodeKeys], NEW moves \in [Features -> Features], NEW f,
         NEW m, m = MergeResourceBindings(BindingParts(before, after, cfg, renames, moves)),
         \A b \in DOMAIN m : IsResource(after, b[1])
  PROVE  f \in ResolveBindings(after, m) <=> BindingsRemain(after, cfg, renames, moves, f)
<1>1. PICK parts : parts = BindingParts(before, after, cfg, renames, moves)
  OBVIOUS
<1>2. \A p \in parts : PartTyped(p)
  BY <1>1, BindingPartsTyped
<1>3. f \in ResolveBindings(after, m)
         <=> \E p \in parts : f \in Selected(FeaturesOf(after, p[1], p[2]), p[3])
  BY <1>1, <1>2, MergeGrants
<1>4. ASSUME NEW p \in parts, f \in Selected(FeaturesOf(after, p[1], p[2]), p[3])
      PROVE  BindingsRemain(after, cfg, renames, moves, f)
  <2>1. PICK b \in DOMAIN cfg.bindings :
           \/ /\ Converted(before, after, renames, b[1])
              /\ p \in DirectoryParts(after, renames[b[1]], b[2])
           \/ /\ ~Converted(before, after, renames, b[1])
              /\ p = <<renames[b[1]], b[2], Moved(cfg.bindings[b], moves)>>
    BY <1>1, <1>4, BindingPartsAre
  <2>2. PICK k \in NodeKeys : k = renames[b[1]]
    BY BindingTyped
  <2>3. b[2] \in Operations \cup {"*"}
    BY BindingTyped
  <2>4. f \in Remains(after, k, b[2], Moved(cfg.bindings[b], moves))
    <3>1. CASE Converted(before, after, renames, b[1])
      <4>1. Exists(after, k) /\ ~IsResource(after, k)
        BY <2>2, <3>1, ConvertedIs
      <4>2. p \in DirectoryParts(after, k, b[2])
        BY <2>1, <2>2, <3>1
      <4>3. f \in p[3]
        BY <1>4, <2>3, <4>2, DirectoryPartSelects
      <4> QED  BY <2>3, <4>1, <4>2, <4>3, DirectoryGrants
    <3>2. CASE ~Converted(before, after, renames, b[1])
      <4>1. p[1] = k /\ p[2] = b[2] /\ p[3] = Moved(cfg.bindings[b], moves)
        BY <2>1, <2>2, <3>2
      <4>2. PICK d : d = <<p[1], p[2]>>
        OBVIOUS
      <4>3. d \in DOMAIN m
        BY <1>1, <1>4, <4>2, MergeDomain
      <4>4. IsResource(after, k)
        BY <4>1, <4>2, <4>3
      <4>5. Exists(after, k)
        BY <4>4 DEF IsResource, Exists
      <4> QED  BY <1>4, <4>1, <4>4, <4>5, RemainsIs
    <3> QED  BY <3>1, <3>2
  <2> QED  BY <2>2, <2>4 DEF BindingsRemain
<1>5. ASSUME BindingsRemain(after, cfg, renames, moves, f)
      PROVE  \E p \in parts : f \in Selected(FeaturesOf(after, p[1], p[2]), p[3])
  <2>1. PICK b \in DOMAIN cfg.bindings : f \in Remains(after, renames[b[1]], b[2], Moved(cfg.bindings[b], moves))
    BY <1>5 DEF BindingsRemain
  <2>2. PICK k \in NodeKeys : k = renames[b[1]]
    BY BindingTyped
  <2>3. b[2] \in Operations \cup {"*"}
    BY BindingTyped
  <2>4. f \in Remains(after, k, b[2], Moved(cfg.bindings[b], moves))
    BY <2>1, <2>2
  <2>5. CASE Converted(before, after, renames, b[1])
    <3>1. Exists(after, k) /\ ~IsResource(after, k)
      BY <2>2, <2>5, ConvertedIs
    <3>2. PICK p \in DirectoryParts(after, k, b[2]) : f \in p[3]
      BY <2>3, <2>4, <3>1, DirectoryGrants
    <3>3. p \in parts
      BY <1>1, <2>2, <2>5, <3>2, BindingPartsAre
    <3>4. f \in Selected(FeaturesOf(after, p[1], p[2]), p[3])
      BY <2>3, <3>2, DirectoryPartSelects
    <3> QED  BY <3>3, <3>4
  <2>6. CASE ~Converted(before, after, renames, b[1])
    <3>1. PICK p : p = <<renames[b[1]], b[2], Moved(cfg.bindings[b], moves)>>
      OBVIOUS
    <3>2. p \in parts
      BY <1>1, <2>6, <3>1, BindingPartsAre
    <3>3. p[1] = k /\ p[2] = b[2] /\ p[3] = Moved(cfg.bindings[b], moves)
      BY <2>2, <3>1
    <3>4. PICK d : d = <<p[1], p[2]>>
      OBVIOUS
    <3>5. d \in DOMAIN m
      BY <1>1, <3>2, <3>4, MergeDomain
    <3>6. IsResource(after, k)
      BY <3>3, <3>4, <3>5
    <3>7. Exists(after, k)
      BY <3>6 DEF IsResource, Exists
    <3>8. f \in Selected(FeaturesOf(after, p[1], p[2]), p[3])
      BY <2>4, <3>3, <3>6, <3>7, RemainsIs
    <3> QED  BY <3>2, <3>8
  <2> QED  BY <2>5, <2>6
<1> QED  BY <1>3, <1>4, <1>5

\* The parts for resources to read hold what remains of these.
LEMMA KeyPartsGrant ==
  ASSUME NEW before, NEW after, CatalogTyped(after), Ends(after), NEW cfg, ConfigTyped(cfg),
         NEW renames \in [NodeKeys -> NodeKeys], NEW moves \in [Features -> Features], NEW f,
         NEW parts, parts = KeyParts(before, after, cfg, renames, moves),
         \A p \in parts : IsResource(after, p[1])
  PROVE  (\E p \in parts : f \in p[3]) <=> KeysRemain(after, cfg, renames, moves, f)
<1>0. "read" \in Operations \cup {"*"}
  BY DEF Operations
<1>1. ASSUME NEW p \in parts, f \in p[3] PROVE KeysRemain(after, cfg, renames, moves, f)
  <2>1. PICK j \in cfg.keys :
           \/ /\ Converted(before, after, renames, j)
              /\ p \in DirectoryParts(after, renames[j], "read")
           \/ /\ ~Converted(before, after, renames, j)
              /\ p = <<renames[j], "read",
                        Selected(FeaturesOf(after, renames[j], "read"), Moved(cfg.selected, moves))>>
    BY <1>1, KeyPartsAre
  <2>2. PICK k \in NodeKeys : k = renames[j]
    BY DEF ConfigTyped
  <2>3. f \in Remains(after, k, "read", Moved(cfg.selected, moves))
    <3>1. CASE Converted(before, after, renames, j)
      <4>1. Exists(after, k) /\ ~IsResource(after, k)
        BY <2>2, <3>1, ConvertedIs
      <4>2. p \in DirectoryParts(after, k, "read")
        BY <2>1, <2>2, <3>1
      <4> QED  BY <1>0, <1>1, <4>1, <4>2, DirectoryGrants
    <3>2. CASE ~Converted(before, after, renames, j)
      <4>1. p[1] = k /\ p[3] = Selected(FeaturesOf(after, k, "read"), Moved(cfg.selected, moves))
        BY <2>1, <2>2, <3>2
      <4>2. IsResource(after, k)
        BY <1>1, <4>1
      <4>3. Exists(after, k)
        BY <4>2 DEF IsResource, Exists
      <4> QED  BY <1>1, <4>1, <4>2, <4>3, RemainsIs
    <3> QED  BY <3>1, <3>2
  <2> QED  BY <2>2, <2>3 DEF KeysRemain
<1>2. ASSUME KeysRemain(after, cfg, renames, moves, f) PROVE \E p \in parts : f \in p[3]
  <2>1. PICK j \in cfg.keys : f \in Remains(after, renames[j], "read", Moved(cfg.selected, moves))
    BY <1>2 DEF KeysRemain
  <2>2. PICK k \in NodeKeys : k = renames[j]
    BY DEF ConfigTyped
  <2>3. f \in Remains(after, k, "read", Moved(cfg.selected, moves))
    BY <2>1, <2>2
  <2>4. CASE Converted(before, after, renames, j)
    <3>1. Exists(after, k) /\ ~IsResource(after, k)
      BY <2>2, <2>4, ConvertedIs
    <3>2. PICK p \in DirectoryParts(after, k, "read") : f \in p[3]
      BY <1>0, <2>3, <3>1, DirectoryGrants
    <3>3. p \in parts
      BY <2>2, <2>4, <3>2, KeyPartsAre
    <3> QED  BY <3>2, <3>3
  <2>5. CASE ~Converted(before, after, renames, j)
    <3>1. PICK p : p = <<renames[j], "read",
                          Selected(FeaturesOf(after, renames[j], "read"), Moved(cfg.selected, moves))>>
      OBVIOUS
    <3>2. p \in parts
      BY <2>5, <3>1, KeyPartsAre
    <3>3. p[1] = k /\ p[3] = Selected(FeaturesOf(after, k, "read"), Moved(cfg.selected, moves))
      BY <2>2, <3>1
    <3>4. IsResource(after, k)
      BY <3>2, <3>3
    <3>5. Exists(after, k)
      BY <3>4 DEF IsResource, Exists
    <3>6. f \in p[3]
      BY <2>3, <3>3, <3>4, <3>5, RemainsIs
    <3> QED  BY <3>2, <3>6
  <2> QED  BY <2>4, <2>5
<1> QED  BY <1>1, <1>2

\* What a configuration without a wildcard grants.
LEMMA GrantsAre ==
  ASSUME NEW c, NEW cfg, ~Wildcard(cfg), NEW f
  PROVE  f \in ResolveConfig(c, cfg)
            <=> \/ f \in ResolveBindings(c, cfg.bindings)
                \/ f \in Selected(Readable(c, cfg.keys), cfg.selected)
BY DEF ResolveConfig

LEMMA ReadableIs ==
  ASSUME NEW c, NEW keys, NEW f
  PROVE  f \in Readable(c, keys) <=> \E k \in keys : f \in FeaturesOf(c, k, "read")
BY Zenon DEF Readable

LEMMA NothingReadable ==
  ASSUME NEW c, NEW selection
  PROVE  Selected(Readable(c, {}), selection) = {}
<1>1. Readable(c, {}) = {}
  BY DEF Readable
<1> QED  BY <1>1 DEF Selected

LEMMA NothingBound ==
  ASSUME NEW c, NEW bindings, DOMAIN bindings = {}
  PROVE  ResolveBindings(c, bindings) = {}
BY Zenon DEF ResolveBindings

\* An explicit configuration.
LEMMA ExplicitHas ==
  ASSUME NEW m
  PROVE  Explicit(m).bindings = m /\ Explicit(m).keys = {}
BY DEF Explicit

LEMMA ExplicitFollows ==
  ASSUME NEW before, NEW after, CatalogTyped(after), Ends(after), NEW cfg, ConfigTyped(cfg),
         NEW renames \in [NodeKeys -> NodeKeys], NEW moves \in [Features -> Features], cfg.builtin = "",
         NEW new, new = MigrateConvertedResourceConfig(before, after, cfg, renames, moves),
         Resolves(after, new), ~Wildcard(new), NEW f
  PROVE  f \in ResolveConfig(after, new)
            <=> BindingsRemain(after, cfg, renames, moves, f) \/ KeysRemain(after, cfg, renames, moves, f)
<1>1. PICK m : m = MergeResourceBindings(BindingParts(before, after, cfg, renames, moves))
  OBVIOUS
<1>2. new = Explicit(m)
  BY <1>1, MigrateExplicit
<1>3. new.bindings = m /\ new.keys = {}
  BY <1>2, ExplicitHas
<1>4. \A b \in DOMAIN m : IsResource(after, b[1])
  BY <1>3 DEF Resolves
<1>5. f \in ResolveBindings(after, m) <=> BindingsRemain(after, cfg, renames, moves, f)
  BY <1>1, <1>4, BindingsGrant
<1>6. ~KeysRemain(after, cfg, renames, moves, f)
  BY DEF KeysRemain, ConfigTyped
<1>7. Selected(Readable(after, new.keys), new.selected) = {}
  BY <1>3, NothingReadable
<1> QED  BY <1>3, <1>5, <1>6, <1>7, GrantsAre

\* A default one, of which a resource became a directory.
LEMMA ConvertedFollows ==
  ASSUME NEW before, NEW after, CatalogTyped(after), Ends(after), NEW cfg, ConfigTyped(cfg),
         NEW renames \in [NodeKeys -> NodeKeys], NEW moves \in [Features -> Features],
         cfg.builtin = "default",
         \E k \in cfg.keys : Converted(before, after, renames, k),
         NEW new, new = MigrateConvertedResourceConfig(before, after, cfg, renames, moves),
         Resolves(after, new), ~Wildcard(new), NEW f
  PROVE  f \in ResolveConfig(after, new) <=> KeysRemain(after, cfg, renames, moves, f)
<1>1. PICK parts : parts = KeyParts(before, after, cfg, renames, moves)
  OBVIOUS
<1>2. PICK reads : reads = MergeResourceBindings(parts)
  OBVIOUS
<1>3. PICK keys : keys = {b[1] : b \in DOMAIN reads}
  OBVIOUS
<1>4. PICK selected : selected = UNION {reads[b] : b \in DOMAIN reads}
  OBVIOUS
<1>5. new = Default(keys, selected)
  BY <1>1, <1>2, <1>3, <1>4, MigrateDefault
<1>6. new.bindings = <<>> /\ new.keys = keys /\ new.selected = selected
  BY <1>5 DEF Default
<1>7. \A p \in parts : p[3] \in SUBSET Features
  BY <1>1, KeyPartsTyped
<1>8. \A b \in DOMAIN reads : /\ reads[b] = UNION Chosen(parts, b)
                              /\ UNION Chosen(parts, b) \in SUBSET Features
  BY <1>2, <1>7, MergeOfFeatures
<1>9. selected \in SUBSET Features /\ selected # All
  <2>1. selected \in SUBSET Features
    BY <1>4, <1>8
  <2> QED  BY <2>1, CatalogConfig
<1>10. selected \subseteq Readable(after, keys)
  BY <1>6, <1>9 DEF Resolves, Fits
<1>11. Selected(Readable(after, keys), selected) = selected
  BY <1>9, <1>10 DEF Selected
<1>12. f \in selected <=> \E p \in parts : f \in p[3]
  <2>1. ASSUME NEW b \in DOMAIN reads, f \in reads[b] PROVE \E p \in parts : f \in p[3]
    <3>1. PICK s \in Chosen(parts, b) : f \in s
      BY <1>8, <2>1
    <3> QED  BY <3>1, ChosenIs
  <2>2. ASSUME NEW p \in parts, f \in p[3] PROVE \E b \in DOMAIN reads : f \in reads[b]
    <3>1. PICK b : b = <<p[1], p[2]>>
      OBVIOUS
    <3>2. b \in DOMAIN reads
      BY <1>2, <3>1, MergeDomain
    <3>3. p[3] \in Chosen(parts, b)
      BY <3>1, ChosenIs
    <3>4. f \in reads[b]
      BY <1>8, <2>2, <3>2, <3>3
    <3> QED  BY <3>2, <3>4
  <2> QED  BY <1>4, <2>1, <2>2
<1>13. \A p \in parts : IsResource(after, p[1])
  <2> SUFFICES ASSUME NEW p \in parts PROVE IsResource(after, p[1])
    OBVIOUS
  <2>1. PICK b : b = <<p[1], p[2]>>
    OBVIOUS
  <2>2. b \in DOMAIN reads
    BY <1>2, <2>1, MergeDomain
  <2>3. b[1] \in keys
    BY <1>3, <2>2
  <2>4. p[1] \in keys
    BY <2>1, <2>3
  <2> QED  BY <1>6, <2>4 DEF Resolves
<1>14. (\E p \in parts : f \in p[3]) <=> KeysRemain(after, cfg, renames, moves, f)
  BY <1>1, <1>13, KeyPartsGrant
<1>15. ResolveBindings(after, new.bindings) = {}
  <2>1. DOMAIN new.bindings = {}
    BY <1>6
  <2> QED  BY <2>1, NothingBound
<1> QED  BY <1>6, <1>11, <1>12, <1>14, <1>15, GrantsAre

\* A default one, of which none did.
LEMMA KeptFollows ==
  ASSUME NEW before, NEW after, CatalogTyped(after), NEW cfg, ConfigTyped(cfg),
         NEW renames \in [NodeKeys -> NodeKeys], NEW moves \in [Features -> Features],
         cfg.builtin = "default",
         ~\E k \in cfg.keys : Converted(before, after, renames, k),
         NEW new, new = MigrateConvertedResourceConfig(before, after, cfg, renames, moves),
         Resolves(after, new), ~Wildcard(new), NEW f
  PROVE  f \in ResolveConfig(after, new) <=> KeysRemain(after, cfg, renames, moves, f)
<1>1. new = RenamedOnly(cfg, renames, moves)
  BY MigrateKept
<1>2. /\ new.bindings = cfg.bindings /\ new.selected = Moved(cfg.selected, moves)
      /\ new.keys = {renames[k] : k \in cfg.keys}
  BY <1>1 DEF RenamedOnly
<1>3. ResolveBindings(after, new.bindings) = {}
  BY <1>2, NothingBound DEF ConfigTyped
<1>4. \A k \in cfg.keys : IsResource(after, renames[k])
  BY <1>2 DEF Resolves
<1>5. f \in Readable(after, new.keys) <=> \E k \in cfg.keys : f \in FeaturesOf(after, renames[k], "read")
  BY <1>2, ReadableIs
<1>6. ASSUME NEW k \in cfg.keys
      PROVE  f \in Remains(after, renames[k], "read", Moved(cfg.selected, moves))
                <=> f \in Selected(FeaturesOf(after, renames[k], "read"), Moved(cfg.selected, moves))
  <2>1. PICK j \in NodeKeys : j = renames[k]
    BY DEF ConfigTyped
  <2>2. IsResource(after, j) /\ Exists(after, j)
    BY <1>4, <2>1 DEF IsResource, Exists
  <2> QED  BY <2>1, <2>2, RemainsIs
<1>7. KeysRemain(after, cfg, renames, moves, f)
         <=> \E k \in cfg.keys : f \in Selected(FeaturesOf(after, renames[k], "read"), Moved(cfg.selected, moves))
  BY <1>6 DEF KeysRemain
<1>8. f \in Selected(Readable(after, new.keys), Moved(cfg.selected, moves))
         <=> \E k \in cfg.keys : f \in Selected(FeaturesOf(after, renames[k], "read"), Moved(cfg.selected, moves))
  BY <1>5 DEF Selected
<1> QED  BY <1>2, <1>3, <1>7, <1>8, GrantsAre

LEMMA MigrationFollows ==
  ASSUME NEW before, NEW after, CatalogTyped(after), Ends(after), NEW cfg, ConfigTyped(cfg),
         NEW renames \in [NodeKeys -> NodeKeys], NEW moves \in [Features -> Features],
         NEW new, new = MigrateConvertedResourceConfig(before, after, cfg, renames, moves),
         Resolves(after, new), ~Wildcard(new), NEW f
  PROVE  f \in ResolveConfig(after, new)
            <=> BindingsRemain(after, cfg, renames, moves, f) \/ KeysRemain(after, cfg, renames, moves, f)
<1>1. CASE cfg.builtin = ""
  BY <1>1, ExplicitFollows
<1>2. CASE cfg.builtin = "default"
  <2>1. ~BindingsRemain(after, cfg, renames, moves, f)
    BY <1>2 DEF BindingsRemain, ConfigTyped
  <2>2. CASE \E k \in cfg.keys : Converted(before, after, renames, k)
    BY <1>2, <2>1, <2>2, ConvertedFollows
  <2>3. CASE ~\E k \in cfg.keys : Converted(before, after, renames, k)
    BY <1>2, <2>1, <2>3, KeptFollows
  <2> QED  BY <2>2, <2>3
<1>3. CASE cfg.builtin = "all"
  <2>1. new = RenamedOnly(cfg, renames, moves)
    BY <1>3, MigrateAll
  <2>2. new.builtin = "all"
    BY <1>3, <2>1 DEF RenamedOnly
  <2> QED  BY <2>2 DEF Wildcard
<1> QED  BY <1>1, <1>2, <1>3 DEF ConfigTyped

\* Whatever a document renames, an action's grants follow its resources to the new
\* keys, also where another resource was and where bindings are merged, and to what
\* the directory offers for a resource that became one (resource_conversion.go:12).
THEOREM GrantsSoundness == PermissionsSpec => GrantsFollowTheCatalog
<1>1. PermissionsTypeOK /\ PermissionsTypeOK' => GrantsFollow
  <2> SUFFICES ASSUME PermissionsTypeOK, PermissionsTypeOK',
                      NEW renames \in ResourceRenames, NEW moves \in FeatureRenames,
                      UpdateCatalog(catalog', renames, moves), ~Wildcard(config')
               PROVE  ResolveConfig(catalog', config') =
                         (UNION {Remains(catalog', renames[b[1]], b[2], Moved(config.bindings[b], moves)) :
                                    b \in DOMAIN config.bindings})
                         \cup UNION {Remains(catalog', renames[k], "read", Moved(config.selected, moves)) :
                                        k \in config.keys}
    BY Zenon DEF GrantsFollow
  <2>1. PICK next : next = catalog'
    OBVIOUS
  <2>2. PICK new : new = config'
    OBVIOUS
  <2>3. /\ Resolves(next, new)
        /\ new = MigrateConvertedResourceConfig(catalog, next, config, renames, moves)
    BY <2>1, <2>2, UpdateCatalogIs
  <2>4. CatalogTyped(next) /\ Ends(next)
    <3>1. CatalogTyped(next) /\ Validate(next)
      BY <2>1 DEF PermissionsTypeOK
    <3> QED  BY <3>1, ValidEnds, CatalogConfig
  <2>5. renames \in [NodeKeys -> NodeKeys] /\ moves \in [Features -> Features]
    BY CatalogConfig
  <2>6. ConfigTyped(config) /\ ~Wildcard(new)
    BY <2>2 DEF PermissionsTypeOK
  <2>7. ASSUME NEW f
        PROVE  f \in ResolveConfig(next, new)
                  <=> \/ BindingsRemain(next, config, renames, moves, f)
                      \/ KeysRemain(next, config, renames, moves, f)
    BY <2>3, <2>4, <2>5, <2>6, MigrationFollows
  <2>8. PICK bound :
           bound = UNION {Remains(next, renames[b[1]], b[2], Moved(config.bindings[b], moves)) :
                             b \in DOMAIN config.bindings}
    OBVIOUS
  <2>9. PICK read :
           read = UNION {Remains(next, renames[k], "read", Moved(config.selected, moves)) :
                            k \in config.keys}
    OBVIOUS
  <2>10. ASSUME NEW f PROVE f \in bound <=> BindingsRemain(next, config, renames, moves, f)
    BY <2>8, Zenon DEF BindingsRemain
  <2>11. ASSUME NEW f PROVE f \in read <=> KeysRemain(next, config, renames, moves, f)
    BY <2>9, Zenon DEF KeysRemain
  <2>12. ASSUME NEW f PROVE f \in ResolveConfig(next, new) <=> f \in bound \cup read
    BY <2>7, <2>10, <2>11
  <2>13. ResolveConfig(next, new) = bound \cup read
    BY <2>12
  <2> QED  BY <2>1, <2>2, <2>8, <2>9, <2>13
<1> QED  BY <1>1, PermissionsTyping, PTL DEF GrantsFollowTheCatalog
===============================================================================
