--------------------------- MODULE SessionsProofs ---------------------------
(***************************************************************************)
(* Theorems about Sessions, for every set of requests, every retry window, *)
(* every set of lifetimes and every bound.                                 *)
(***************************************************************************)
EXTENDS Sessions, TLAPS

USE SessionConfig

\* Generations as numbers, so that no record is typed by arithmetic.
LEMMA GenerationRange ==
    /\ Generations \subseteq 0 .. MaxGeneration
    /\ Generations \subseteq Nat
    /\ 0 \in 0 .. MaxGeneration
    /\ 1 \in Generations
    /\ \A g \in 0 .. MaxGeneration :
          /\ g \in Nat
          /\ g > 0 => g \in Generations
          /\ g < MaxGeneration => g + 1 \in Generations
BY DEF Generations

\* A request that is not in the store's way.
LEMMA IdleType ==
    ASSUME NEW token \in 0 .. MaxGeneration
    PROVE  Idle(token) \in Request
BY DEF Idle, Request, Steps, Absent, Record

LEMMA RotatedType ==
    ASSUME TypeOK, NEW r \in Requests, req[r].seen.generation < MaxGeneration
    PROVE  Rotated(r) \in Record
<1>1. /\ req[r].seen \in Record
      /\ req[r].stamp \in Nat
      /\ req[r].seen.generation \in 0 .. MaxGeneration
    BY DEF TypeOK, Request, Record
<1>2. req[r].seen.generation + 1 \in 0 .. MaxGeneration
    BY <1>1, GenerationRange
<1> QED
    BY <1>1, <1>2 DEF Rotated, Record

\* Two fields of a request are told at once.
LEMMA Tells ==
    ASSUME NEW f, NEW r \in DOMAIN f, NEW pc, NEW v
    PROVE  /\ [f EXCEPT ![r].pc = pc, ![r].seen = v]
                = [f EXCEPT ![r] = [f[r] EXCEPT !.pc = pc, !.seen = v]]
           /\ [f EXCEPT ![r].pc = pc, ![r].stamp = v]
                = [f EXCEPT ![r] = [f[r] EXCEPT !.pc = pc, !.stamp = v]]
BY Zenon

LEMMA ToldTyped ==
    ASSUME NEW q \in Request, NEW pc \in Steps, NEW seen \in Record, NEW stamp \in Nat
    PROVE  /\ [q EXCEPT !.pc = pc, !.seen = seen] \in Request
           /\ [q EXCEPT !.pc = pc, !.stamp = stamp] \in Request
<1>1. [q EXCEPT !.pc = pc, !.seen = seen] \in Request
    BY Zenon DEF Request
<1>2. [q EXCEPT !.pc = pc, !.stamp = stamp] \in Request
    BY Zenon DEF Request
<1> QED
    BY <1>1, <1>2

\* Every step keeps every variable in its type.
LEMMA TypeStep == Inv /\ [Next]_vars => TypeOK'
<1> SUFFICES ASSUME Inv, [Next]_vars
             PROVE  TypeOK'
    OBVIOUS
<1>type. TypeOK
    BY DEF Inv
<1>seen. ASSUME NEW r \in Requests, req[r].pc \in {"deciding", "rotating"}
         PROVE  req[r].seen.generation \in Generations
    BY <1>seen DEF Inv, RequestOK
<1>room. ASSUME NEW r \in Requests, req[r].pc = "rotating"
         PROVE  /\ req[r].seen.generation < MaxGeneration
                /\ req[r].seen.generation + 1 \in Generations
    <2>1. req[r].seen.generation = req[r].base /\ req[r].base < MaxGeneration
        BY <1>room DEF Inv, RequestOK
    <2> QED
        BY <2>1, <1>room, <1>seen, GenerationRange
<1> USE <1>type DEF TypeOK
<1>abs. Absent \in Record
    BY DEF Absent, Record
<1>1. CASE Tick
    BY <1>1 DEF Tick
<1>2. CASE Issue
    BY <1>2 DEF Issue, Record, Generations
<1>3. CASE RevokeRefresh
    BY <1>3, <1>abs DEF RevokeRefresh
<1>4. CASE Expire
    BY <1>4, <1>abs DEF Expire
<1>5. CASE Restart
    BY <1>5, <1>abs, IdleType DEF Restart
<1>6. ASSUME NEW r \in Requests, Receive(r)
      PROVE  TypeOK'
    <2>1. PICK g \in issued : req' = [req EXCEPT ![r] = [Idle(0) EXCEPT
                      !.pc = "reading", !.gen = g, !.at = now]]
        BY <1>6 DEF Receive
    <2>2. g \in 0 .. MaxGeneration
        BY GenerationRange
    <2>3. [Idle(0) EXCEPT !.pc = "reading", !.gen = g, !.at = now] \in Request
        BY <2>2, IdleType, GenerationRange DEF Request, Steps, Idle
    <2> QED
        BY <1>6, <2>1, <2>3 DEF Receive
<1>7. ASSUME NEW r \in Requests, ReadRefresh(r)
      PROVE  TypeOK'
    <2>1. Idle(0) \in Request /\ store' \in Record
        BY <1>7, <1>abs, IdleType, GenerationRange DEF ReadRefresh, Touch
    <2>2. store.generation \in 0 .. MaxGeneration
        BY DEF Record
    <2>3. req' \in [Requests -> Request] /\ issued' = issued
        BY <1>7, <2>1, <2>2 DEF ReadRefresh, Deny, Request, Steps
    <2> QED
        BY <1>7, <2>1, <2>3 DEF ReadRefresh
<1>8. ASSUME NEW r \in Requests, RefreshIdentity(r)
      PROVE  TypeOK'
    BY <1>8 DEF RefreshIdentity, Request, Steps
<1>9. ASSUME NEW r \in Requests, Revoke(r)
      PROVE  TypeOK'
    BY <1>9, <1>abs, IdleType DEF Revoke, Deny
<1>10. ASSUME NEW r \in Requests, RenewRead(r)
       PROVE  TypeOK'
    <2>1. Idle(0) \in Request /\ store' \in Record
        BY <1>10, <1>abs, IdleType, GenerationRange DEF RenewRead, Touch
    <2>2. store.generation \in 0 .. MaxGeneration
        BY DEF Record
    <2>3. Idle(store.generation) \in Request
        BY <2>2, IdleType
    <2>4. Readable => store.generation \in Generations
        BY <2>2, GenerationRange DEF Readable
    <2>5. [req EXCEPT ![r].pc = "deciding", ![r].seen = store]
            \in [Requests -> Request]
        <3> DEFINE told == [req[r] EXCEPT !.pc = "deciding", !.seen = store]
        <3>req. req[r] \in Request /\ store \in Record /\ now \in Nat
            OBVIOUS
        <3>pc. "deciding" \in Steps
            BY DEF Steps
        <3>1. told \in Request
            BY ONLY <3>req, <3>pc, ToldTyped, Zenon
        <3>dom. r \in DOMAIN req
            OBVIOUS
        <3>2. [req EXCEPT ![r].pc = "deciding", ![r].seen = store] = [req EXCEPT ![r] = told]
            BY ONLY <3>dom, Tells, Zenon
        <3> HIDE DEF told
        <3>3. [req EXCEPT ![r] = told] \in [Requests -> Request]
            BY <3>1
        <3> QED
            BY <3>2, <3>3
    <2>6. req' \in [Requests -> Request] /\ issued' \subseteq Generations
        BY <1>10, <2>1, <2>3, <2>4, <2>5 DEF RenewRead, Deny, Answer
    <2> QED
        BY <1>10, <2>1, <2>6 DEF RenewRead
<1>11. ASSUME NEW r \in Requests, RenewDecide(r)
       PROVE  TypeOK'
    <2>1. req[r].seen.generation \in 0 .. MaxGeneration
        BY DEF Request, Record
    <2>2. /\ Idle(0) \in Request
          /\ Idle(req[r].seen.generation) \in Request
        BY <2>1, IdleType, GenerationRange
    <2>3. [req EXCEPT ![r].pc = "rotating", ![r].stamp = now]
            \in [Requests -> Request]
        <3> DEFINE told == [req[r] EXCEPT !.pc = "rotating", !.stamp = now]
        <3>req. req[r] \in Request /\ store \in Record /\ now \in Nat
            OBVIOUS
        <3>pc. "rotating" \in Steps
            BY DEF Steps
        <3>1. told \in Request
            BY ONLY <3>req, <3>pc, ToldTyped, Zenon
        <3>dom. r \in DOMAIN req
            OBVIOUS
        <3>2. [req EXCEPT ![r].pc = "rotating", ![r].stamp = now] = [req EXCEPT ![r] = told]
            BY ONLY <3>dom, Tells, Zenon
        <3> HIDE DEF told
        <3>3. [req EXCEPT ![r] = told] \in [Requests -> Request]
            BY <3>1
        <3> QED
            BY <3>2, <3>3
    <2>4. req' \in [Requests -> Request]
        BY <1>11, <2>2, <2>3 DEF RenewDecide, Deny, Answer
    <2>5. req[r].seen.generation \in Generations
        BY <1>11, <1>seen DEF RenewDecide
    <2> QED
        BY <1>11, <2>4, <2>5 DEF RenewDecide, Deny, Answer
<1>12. ASSUME NEW r \in Requests, Rotate(r)
       PROVE  TypeOK'
    <2>1. /\ req[r].seen.generation < MaxGeneration
          /\ req[r].seen.generation + 1 \in Generations
          /\ store = req[r].seen
        BY <1>12, <1>room DEF Rotate, Swap
    <2>2. Rotated(r) \in Record
        BY <2>1, RotatedType
    <2>3. Idle(req[r].seen.generation + 1) \in Request
        BY <2>1, IdleType, GenerationRange
    <2>4. req[r].stamp \in Nat
        BY DEF Request
    <2> QED
        BY <1>12, <2>1, <2>2, <2>3, <2>4 DEF Rotate, Swap, Answer
<1>13. ASSUME NEW r \in Requests, RotateUnacknowledged(r)
       PROVE  TypeOK'
    <2>1. req[r].seen.generation < MaxGeneration
        BY <1>13, <1>room DEF RotateUnacknowledged, Swap
    <2>2. Rotated(r) \in Record
        BY <2>1, RotatedType
    <2>3. Idle(0) \in Request
        BY IdleType, GenerationRange
    <2>4. req[r].stamp \in Nat
        BY DEF Request
    <2> QED
        BY <1>13, <2>2, <2>3, <2>4 DEF RotateUnacknowledged, Swap, Deny
<1>14. ASSUME NEW r \in Requests, RotateConflict(r)
       PROVE  TypeOK'
    BY <1>14, <1>abs, IdleType DEF RotateConflict, Deny, Touch, Request, Steps
<1>15. ASSUME NEW r \in Requests, Abort(r)
       PROVE  TypeOK'
    BY <1>15, IdleType DEF Abort, Deny
<1>16. CASE UNCHANGED vars
    BY <1>16 DEF vars
<1> QED
    BY <1>1, <1>2, <1>3, <1>4, <1>5, <1>6, <1>7, <1>8, <1>9, <1>10, <1>11,
       <1>12, <1>13, <1>14, <1>15, <1>16 DEF Next, RequestStep

-----------------------------------------------------------------------------
(* Seen from the store there are four kinds of step: the clock, the login, *)
(* a rotation, and a step that leaves the record alone or removes it.      *)

QuietStep ==
    /\ UNCHANGED <<now, stampedAt, committedAt>>
    /\ store' \in {store, Absent}
    /\ issued \subseteq issued'
    /\ \A g \in issued' : Written(g)
    /\ issued = {} => issued' = {}

SwapStep ==
    \E r \in Requests :
        /\ Swap(r)
        /\ issued \subseteq issued'
        /\ issued' \subseteq issued \cup {store.generation + 1}

LEMMA StepKinds ==
    ASSUME Inv, [Next]_vars
    PROVE  \/ Tick
           \/ Issue
           \/ SwapStep
           \/ QuietStep
<1> USE DEF QuietStep, Written
<1>w. \A g \in issued : Written(g)
    BY DEF Inv
<1>t. TypeOK
    BY DEF Inv
<1>1. CASE RevokeRefresh \/ Expire \/ Restart
    BY <1>1, <1>w DEF RevokeRefresh, Expire, Restart
<1>2. ASSUME NEW r \in Requests,
             Receive(r) \/ RefreshIdentity(r) \/ Revoke(r) \/ Abort(r)
      PROVE  QuietStep
    BY <1>2, <1>w DEF Receive, RefreshIdentity, Revoke, Abort, Deny
<1>3. ASSUME NEW r \in Requests, ReadRefresh(r) \/ RotateConflict(r)
      PROVE  QuietStep
    BY <1>3, <1>w DEF ReadRefresh, RotateConflict, Touch, Deny
<1>4. ASSUME NEW r \in Requests, RenewRead(r)
      PROVE  QuietStep
    <2>1. store' \in {store, Absent}
        BY <1>4 DEF RenewRead, Touch
    <2>2. issued' = issued \/ (Readable /\ issued' = issued \cup {store.generation})
        BY <1>4 DEF RenewRead, Deny, Answer
    <2>3. Readable => Written(store.generation)
        BY DEF Inv, StoreOK, Readable
    <2>4. Readable => issued # {}
        BY <1>t DEF Inv, StoreOK, Readable, TypeOK, Record
    <2> QED
        BY <1>4, <1>w, <2>1, <2>2, <2>3, <2>4 DEF RenewRead
<1>5. ASSUME NEW r \in Requests, RenewDecide(r)
      PROVE  QuietStep
    <2>1. /\ req[r].seen.generation = req[r].base
          /\ Written(req[r].base)
          /\ issued # {}
        BY <1>5 DEF RenewDecide, Inv, RequestOK
    <2>2. issued' = issued \/ issued' = issued \cup {req[r].base}
        BY <1>5, <2>1 DEF RenewDecide, Deny, Answer
    <2> QED
        BY <1>5, <1>w, <2>1, <2>2 DEF RenewDecide
<1>6. ASSUME NEW r \in Requests, Rotate(r) \/ RotateUnacknowledged(r)
      PROVE  SwapStep
    <2>1. Swap(r) /\ store = req[r].seen
        BY <1>6 DEF Rotate, RotateUnacknowledged, Swap
    <2> QED
        BY <1>6, <2>1 DEF Rotate, RotateUnacknowledged, SwapStep, Answer, Deny
<1>7. CASE UNCHANGED vars
    BY <1>7, <1>w DEF vars
<1> QED
    BY <1>1, <1>2, <1>3, <1>4, <1>5, <1>6, <1>7 DEF Next, RequestStep

\* What a rotation knows when the store accepts it.
LEMMA SwapFacts ==
    ASSUME Inv, NEW r \in Requests, Swap(r)
    PROVE  LET G == store.generation
               s == req[r].stamp
           IN  /\ G \in Generations
               /\ G + 1 \in Generations
               /\ s \in 1 .. now
               /\ now <= s + MaxStall
               /\ store.createdAt <= s
               /\ store.rotatedAt = stampedAt[G]
               /\ store.rotatedAt > 0 => store.rotatedAt + RetryWindow <= s
               /\ \A g \in Generations : g > G => stampedAt[g] = 0
               /\ now < store.expiredAt
               /\ store' = [generation |-> G + 1, createdAt |-> store.createdAt,
                            rotatedAt |-> s, expiredAt |-> store.expiredAt]
               /\ stampedAt' = [stampedAt EXCEPT ![G + 1] = s]
               /\ committedAt' = [committedAt EXCEPT ![G + 1] = now]
               /\ now' = now
<1>1. /\ req[r].pc = "rotating"
      /\ Readable
      /\ store = req[r].seen
    BY DEF Swap
<1>2. TypeOK /\ RequestOK(r) /\ StoreOK
    BY DEF Inv
<1>3. /\ req[r].base \in Generations
      /\ req[r].base < MaxGeneration
      /\ req[r].seen.generation = req[r].base
      /\ req[r].stamp \in 1 .. now
      /\ now <= req[r].stamp + MaxStall
      /\ req[r].seen.createdAt <= req[r].stamp
      /\ req[r].seen.rotatedAt > 0 => req[r].seen.rotatedAt + RetryWindow <= req[r].stamp
    BY <1>1, <1>2 DEF RequestOK
<1>4. store.generation \in Generations /\ store.generation + 1 \in Generations
    BY <1>1, <1>3, GenerationRange
<1>5. /\ store.rotatedAt = stampedAt[store.generation]
      /\ \A g \in Generations : g > store.generation => stampedAt[g] = 0
    BY <1>1, <1>2 DEF StoreOK, Readable
<1>6. store' = [generation |-> store.generation + 1, createdAt |-> store.createdAt,
                rotatedAt |-> req[r].stamp, expiredAt |-> store.expiredAt]
    BY <1>1, <1>2 DEF Swap, Rotated, TypeOK, Record
<1> QED
    BY <1>1, <1>3, <1>4, <1>5, <1>6 DEF Swap, Readable

-----------------------------------------------------------------------------
(* The parts of the invariant that speak of the record and the history.     *)

LEMMA HistoryStep ==
    ASSUME Inv, [Next]_vars
    PROVE  HistoryOK'
<1>t. TypeOK /\ HistoryOK /\ StoreOK
    BY DEF Inv
<1>1. CASE Tick
    BY <1>1, <1>t DEF Tick, HistoryOK, TypeOK
<1>2. CASE Issue
    BY <1>2, <1>t, GenerationRange DEF Issue, HistoryOK
<1>3. CASE QuietStep
    BY <1>3, <1>t DEF QuietStep, HistoryOK
<1>4. CASE SwapStep
    <2>1. PICK r \in Requests : Swap(r) /\ issued \subseteq issued'
        BY <1>4 DEF SwapStep
    <2> DEFINE G == store.generation
               st == req[r].stamp
    <2>2. /\ G \in Generations
          /\ G + 1 \in Generations
          /\ st \in 1 .. now
          /\ now <= st + MaxStall
          /\ store.rotatedAt = stampedAt[G]
          /\ store.rotatedAt > 0 => store.rotatedAt + RetryWindow <= st
          /\ \A g \in Generations : g > G => stampedAt[g] = 0
          /\ stampedAt' = [stampedAt EXCEPT ![G + 1] = st]
          /\ committedAt' = [committedAt EXCEPT ![G + 1] = now]
          /\ now' = now
        BY <2>1, SwapFacts
    <2>3. G > 0 /\ Written(G) /\ issued # {}
        BY <2>1, <2>2, <1>t DEF StoreOK, Swap, Readable, Generations
    <2> HIDE DEF G, st
    <2>4. ASSUME NEW g \in Generations
          PROVE  /\ stampedAt'[g] <= committedAt'[g]
                 /\ committedAt'[g] <= now'
                 /\ committedAt'[g] <= stampedAt'[g] + MaxStall
                 /\ g = 1 => stampedAt'[g] = 0
                 /\ issued' # {}
        <3>1. /\ stampedAt[g] \in Nat
              /\ committedAt[g] \in Nat
              /\ stampedAt[g] <= committedAt[g]
              /\ committedAt[g] <= now
              /\ committedAt[g] <= stampedAt[g] + MaxStall
              /\ g = 1 => stampedAt[g] = 0
            BY <1>t DEF HistoryOK, TypeOK
        <3>2. CASE g = G + 1
            <4>1. stampedAt'[g] = st /\ committedAt'[g] = now /\ g # 1
                BY <2>2, <2>3, <3>2, <1>t DEF TypeOK, Generations
            <4> QED
                BY <4>1, <2>1, <2>2, <2>3, <1>t DEF TypeOK
        <3>3. CASE g # G + 1
            <4>1. stampedAt'[g] = stampedAt[g] /\ committedAt'[g] = committedAt[g]
                BY <2>2, <3>3, <1>t DEF TypeOK
            <4> QED
                BY <4>1, <3>1, <2>1, <2>2, <2>3
        <3> QED
            BY <3>2, <3>3
    <2>5. ASSUME NEW g \in Generations, NEW h \in Generations,
                 1 < g, g < h, stampedAt'[h] > 0
          PROVE  stampedAt'[g] > 0 /\ stampedAt'[g] + RetryWindow <= stampedAt'[h]
        <3>1. CASE h = G + 1
            <4>1. g <= G /\ stampedAt'[g] = stampedAt[g] /\ stampedAt'[h] = st
                BY <2>2, <2>5, <3>1, <1>t DEF TypeOK, Generations
            <4>2. stampedAt[G] > 0
                BY <4>1, <2>3, <2>5 DEF Written, Generations
            <4>3. stampedAt[G] + RetryWindow <= st
                BY <4>2, <2>2
            <4>4. CASE g = G
                BY <4>1, <4>2, <4>3, <4>4
            <4>5. CASE g < G
                <5>1. stampedAt[g] > 0 /\ stampedAt[g] + RetryWindow <= stampedAt[G]
                    BY <4>2, <4>5, <2>2, <2>5, <1>t DEF HistoryOK
                <5> QED
                    BY <5>1, <4>1, <4>3, <2>2, <1>t DEF TypeOK
            <4> QED
                BY <4>1, <4>4, <4>5, <2>2, <2>5 DEF Generations
        <3>2. CASE h # G + 1
            <4>1. stampedAt'[h] = stampedAt[h]
                BY <2>2, <3>2, <1>t DEF TypeOK
            <4>2. h <= G
                BY <4>1, <2>2, <2>5 DEF Generations
            <4>3. stampedAt'[g] = stampedAt[g]
                BY <4>2, <2>2, <2>5, <1>t DEF TypeOK, Generations
            <4> QED
                BY <4>1, <4>3, <2>5, <1>t DEF HistoryOK
        <3> QED
            BY <3>1, <3>2
    <2> QED
        BY <2>4, <2>5 DEF HistoryOK
<1> QED
    BY <1>1, <1>2, <1>3, <1>4, StepKinds

LEMMA IssuedStep ==
    ASSUME Inv, [Next]_vars
    PROVE  \A g \in issued' : Written(g)'
<1>t. TypeOK /\ \A g \in issued : Written(g)
    BY DEF Inv
<1>1. CASE Tick \/ Issue \/ QuietStep
    BY <1>1, <1>t DEF Tick, Issue, QuietStep, Written
<1>2. CASE SwapStep
    <2>1. PICK r \in Requests : /\ Swap(r)
                                /\ issued' \subseteq issued \cup {store.generation + 1}
        BY <1>2 DEF SwapStep
    <2>2. /\ store.generation + 1 \in Generations
          /\ req[r].stamp > 0
          /\ stampedAt' = [stampedAt EXCEPT ![store.generation + 1] = req[r].stamp]
        BY <2>1, SwapFacts
    <2> QED
        BY <2>1, <2>2, <1>t DEF Written, TypeOK
<1> QED
    BY <1>1, <1>2, StepKinds

LEMMA StoreStep ==
    ASSUME Inv, [Next]_vars
    PROVE  StoreOK'
<1>t. TypeOK /\ StoreOK /\ HistoryOK
    BY DEF Inv
<1>1. CASE Tick
    BY <1>1, <1>t DEF Tick, StoreOK, RecordStaysValid, Written, TypeOK, Record
<1>2. CASE Issue
    <2>1. PICK lifetime \in Lifetimes :
            store' = [generation |-> 1, createdAt |-> now, rotatedAt |-> 0,
                      expiredAt |-> now + lifetime]
        BY <1>2 DEF Issue
    <2>2. lifetime \in Nat /\ lifetime > 0
        OBVIOUS
    <2>3. \A g \in Generations : stampedAt'[g] = 0
        BY <1>2, <1>t DEF Issue, HistoryOK
    <2>4. RecordStaysValid'
        BY <2>1, <2>2, <1>t DEF RecordStaysValid, TypeOK
    <2> QED
        BY <1>2, <2>1, <2>2, <2>3, <2>4, <1>t, GenerationRange
        DEF Issue, StoreOK, Written, TypeOK
<1>3. CASE QuietStep
    BY <1>3, <1>t DEF QuietStep, StoreOK, RecordStaysValid, Written, Absent
<1>4. CASE SwapStep
    <2>1. PICK r \in Requests : Swap(r) /\ issued \subseteq issued'
        BY <1>4 DEF SwapStep
    <2> DEFINE G == store.generation
               st == req[r].stamp
    <2>2. /\ G \in Generations
          /\ G + 1 \in Generations
          /\ st \in 1 .. now
          /\ store.createdAt <= st
          /\ \A g \in Generations : g > G => stampedAt[g] = 0
          /\ now < store.expiredAt
          /\ store' = [generation |-> G + 1, createdAt |-> store.createdAt,
                       rotatedAt |-> st, expiredAt |-> store.expiredAt]
          /\ stampedAt' = [stampedAt EXCEPT ![G + 1] = st]
          /\ now' = now
        BY <2>1, SwapFacts
    <2>3. /\ issued # {}
          /\ store.expiredAt - store.createdAt \in Lifetimes
          /\ store.createdAt \in Nat /\ store.expiredAt \in Nat
        BY <2>1, <2>2, <1>t
        DEF StoreOK, RecordStaysValid, Swap, Readable, TypeOK, Record
    <2>4. G \in Nat /\ G > 0
        BY <2>2 DEF Generations
    <2> HIDE DEF G, st
    <2>5. RecordStaysValid'
        <3>1. /\ store'.generation = G + 1
              /\ store'.createdAt = store.createdAt
              /\ store'.rotatedAt = st
              /\ store'.expiredAt = store.expiredAt
            BY <2>2
        <3>2. now \in Nat /\ st > 0 /\ st <= now /\ G + 1 > 1
            BY <2>2, <2>4, <1>t DEF TypeOK
        <3> QED
            BY <2>2, <2>3, <3>1, <3>2 DEF RecordStaysValid
    <2>6. \A g \in Generations : g > G + 1 => stampedAt'[g] = 0
        BY <2>2, <2>4, <1>t DEF TypeOK, Generations
    <2>7. stampedAt'[G + 1] = st /\ st > 0 /\ G + 1 > 1
        BY <2>2, <2>4, <1>t DEF TypeOK
    <2>8. /\ store'.generation = G + 1
          /\ store'.createdAt = store.createdAt
          /\ store'.rotatedAt = st
        BY <2>2
    <2>9. store.createdAt <= now'
        BY <2>2, <2>3, <1>t DEF TypeOK
    <2>10. issued' # {}
        BY <2>1, <2>3
    <2> QED
        BY <2>5, <2>6, <2>7, <2>8, <2>9, <2>10 DEF StoreOK, Written
<1> QED
    BY <1>1, <1>2, <1>3, <1>4, StepKinds

-----------------------------------------------------------------------------
(* What a request knows stays true under its own steps and the others'.     *)

LEMMA IdleOK ==
    ASSUME NEW r \in Requests, NEW token, req'[r] = Idle(token)
    PROVE  RequestOK(r)'
BY DEF RequestOK, Idle

\* A step that leaves request r where it is keeps what r knows.
LEMMA RequestUndisturbed ==
    ASSUME Inv, [Next]_vars, NEW r \in Requests, req'[r] = req[r]
    PROVE  RequestOK(r)'
<1>t. TypeOK /\ HistoryOK /\ StoreOK /\ RequestOK(r)
    BY DEF Inv
<1>1. CASE Tick
    <2>1. /\ now \in Nat /\ now' = now + 1
          /\ store' = store /\ stampedAt' = stampedAt /\ issued' = issued
          /\ req[r].pc = "rotating" => now < req[r].stamp + MaxStall
        BY <1>1, <1>t DEF Tick, TypeOK
    <2>2. req[r].seen.createdAt \in Nat /\ req[r].stamp \in Nat
        BY <1>t DEF TypeOK, Request, Record
    <2>3. /\ req[r].at \in 1 .. now => req[r].at \in 1 .. now'
          /\ req[r].stamp \in 1 .. now => req[r].stamp \in 1 .. now'
          /\ req[r].seen.createdAt <= now => req[r].seen.createdAt <= now'
          /\ now < req[r].stamp + MaxStall => now' <= req[r].stamp + MaxStall
        BY <2>1, <2>2
    <2> QED
        BY <2>1, <2>3, <1>t DEF RequestOK, Written
<1>2. CASE Issue
    <2>1. req[r].pc = "idle"
        BY <1>2, <1>t DEF Issue, RequestOK
    <2> QED
        BY <2>1, <1>t DEF RequestOK
<1>3. CASE QuietStep
    <2>1. /\ now' = now /\ stampedAt' = stampedAt
          /\ store' = store \/ store'.generation = 0
          /\ issued \subseteq issued'
        BY <1>3 DEF QuietStep, Absent
    <2>2. req[r].base \in Generations => req[r].base # 0
        BY DEF Generations
    <2> QED
        BY <2>1, <2>2, <1>t DEF RequestOK, Written
<1>4. CASE SwapStep
    <2>1. PICK r2 \in Requests : Swap(r2) /\ issued \subseteq issued'
        BY <1>4 DEF SwapStep
    <2>2. /\ store.generation \in Generations
          /\ store.generation + 1 \in Generations
          /\ req[r2].stamp > 0
          /\ store'.generation = store.generation + 1
          /\ \A g \in Generations : g > store.generation => stampedAt[g] = 0
          /\ stampedAt' = [stampedAt EXCEPT ![store.generation + 1] = req[r2].stamp]
          /\ now' = now
        BY <2>1, SwapFacts
    <2>3. ASSUME req[r].base \in Generations, req[r].base <= store.generation
          PROVE  /\ stampedAt'[req[r].base] = stampedAt[req[r].base]
                 /\ req[r].base <= store'.generation
                 /\ store'.generation # req[r].base
        BY <2>2, <2>3, <1>t DEF TypeOK, Generations
    <2>4. store.generation > 0
        BY <2>2 DEF Generations
    <2> QED
        BY <2>1, <2>2, <2>3, <2>4, <1>t DEF RequestOK, Written
<1> QED
    BY <1>1, <1>2, <1>3, <1>4, StepKinds

LEMMA ReceiveOK ==
    ASSUME Inv, NEW r \in Requests, Receive(r)
    PROVE  RequestOK(r)'
<1>1. PICK g \in issued : req' = [req EXCEPT ![r] = [Idle(0) EXCEPT
                  !.pc = "reading", !.gen = g, !.at = now]]
    BY DEF Receive
<1>2. TypeOK
    BY DEF Inv
<1>3. now \in 1 .. now
    BY <1>2 DEF TypeOK
<1>4. req'[r] = [Idle(0) EXCEPT !.pc = "reading", !.gen = g, !.at = now]
    BY <1>1, <1>2 DEF TypeOK
<1>5. /\ req'[r].pc = "reading" /\ req'[r].gen = g /\ req'[r].at = now
      /\ req'[r].replay = FALSE /\ req'[r].conflicts = 0
      /\ req'[r].answer = 0
    BY <1>4 DEF Idle
<1>6. UNCHANGED <<now, issued>>
    BY DEF Receive
<1> QED
    BY <1>1, <1>3, <1>5, <1>6 DEF RequestOK

LEMMA ReadRefreshOK ==
    ASSUME Inv, NEW r \in Requests, ReadRefresh(r)
    PROVE  RequestOK(r)'
<1>t. TypeOK /\ StoreOK /\ RequestOK(r) /\ req[r].pc = "reading"
    BY DEF Inv, ReadRefresh
<1>1. CASE req' = [req EXCEPT ![r] = Idle(0)]
    BY <1>1, <1>t, IdleOK DEF TypeOK
<1>2. CASE /\ Readable
           /\ Acceptable(store, req[r].gen, req[r].at)
           /\ req' = [req EXCEPT ![r].pc = "checking",
                                 ![r].base = store.generation]
    <2>1. /\ store.generation \in Nat
          /\ store.generation \in Generations
          /\ Written(store.generation)
        BY <1>2, <1>t, GenerationRange DEF Readable, StoreOK, TypeOK, Record
    <2>2. req[r].gen \in Nat
        BY <1>t, GenerationRange DEF TypeOK, Request
    <2>3. store.generation \in {req[r].gen, req[r].gen + 1}
        BY <2>1, <2>2, <1>2 DEF Acceptable
    <2>4. store' = store /\ UNCHANGED <<now, issued, stampedAt>>
        BY <1>2, <1>t DEF ReadRefresh, Touch, Deny
    <2>5. req'[r] = [req[r] EXCEPT !.pc = "checking", !.base = store.generation]
        BY <1>2, <1>t DEF TypeOK
    <2>6. /\ req'[r].pc = "checking" /\ req'[r].base = store.generation
          /\ req'[r].gen = req[r].gen /\ req'[r].at = req[r].at
          /\ req'[r].replay = req[r].replay /\ req'[r].conflicts = req[r].conflicts
          /\ req'[r].answer = req[r].answer
        BY <2>5, <1>t DEF TypeOK, Request
    <2> QED
        BY <2>1, <2>3, <2>4, <2>6, <1>t DEF RequestOK, Written
<1>3. CASE /\ Readable
           /\ Replayed(store, req[r].gen, req[r].at)
           /\ req' = [req EXCEPT ![r].pc = "revoking", ![r].replay = TRUE]
    <2>1. /\ store.generation \in Nat
          /\ store.generation <= MaxGeneration
          /\ req[r].gen \in Nat
          /\ req[r].gen < store.generation
        BY <1>3, <1>t DEF TypeOK, Record, Request, Replayed
    <2>2. req[r].gen < MaxGeneration
        BY <2>1
    <2>3. UNCHANGED <<now, issued>>
        BY <1>3, <1>t DEF ReadRefresh, Deny
    <2>4. req'[r] = [req[r] EXCEPT !.pc = "revoking", !.replay = TRUE]
        BY <1>3, <1>t DEF TypeOK
    <2>5. /\ req'[r].pc = "revoking"
          /\ req'[r].gen = req[r].gen /\ req'[r].at = req[r].at
          /\ req'[r].conflicts = req[r].conflicts
          /\ req'[r].answer = req[r].answer
        BY <2>4, <1>t DEF TypeOK, Request
    <2> QED
        BY <2>2, <2>3, <2>5, <1>t DEF RequestOK
<1> QED
    BY <1>1, <1>2, <1>3 DEF ReadRefresh, Deny

LEMMA RefreshIdentityOK ==
    ASSUME Inv, NEW r \in Requests, RefreshIdentity(r)
    PROVE  RequestOK(r)'
<1>t. TypeOK /\ RequestOK(r) /\ req[r].pc = "checking"
    BY DEF Inv, RefreshIdentity
<1>1. PICK next \in {"renewing", "revoking"} : req' = [req EXCEPT ![r].pc = next]
    BY DEF RefreshIdentity
<1>2. /\ req'[r].pc = next
      /\ req'[r].gen = req[r].gen /\ req'[r].at = req[r].at
      /\ req'[r].base = req[r].base /\ req'[r].conflicts = req[r].conflicts
      /\ req'[r].replay = req[r].replay /\ req'[r].answer = req[r].answer
    BY <1>1, <1>t DEF TypeOK, Request
<1>3. UNCHANGED <<now, store, issued, stampedAt>>
    BY DEF RefreshIdentity
<1> QED
    BY <1>2, <1>3, <1>t DEF RequestOK, Written

LEMMA RenewReadOK ==
    ASSUME Inv, NEW r \in Requests, RenewRead(r)
    PROVE  RequestOK(r)'
<1>t. TypeOK /\ StoreOK /\ RequestOK(r) /\ req[r].pc = "renewing"
    BY DEF Inv, RenewRead
<1>1. ASSUME NEW token, req' = [req EXCEPT ![r] = Idle(token)]
      PROVE  RequestOK(r)'
    BY <1>1, <1>t, IdleOK DEF TypeOK
<1>2. CASE /\ Readable
           /\ store.generation = req[r].base
           /\ req[r].gen = req[r].base
           /\ req' = [req EXCEPT ![r].pc = "deciding", ![r].seen = store]
           /\ UNCHANGED issued
    <2>1. store' = store /\ UNCHANGED <<now, issued, stampedAt>>
        BY <1>2 DEF RenewRead, Touch
    <2>2. /\ req'[r].pc = "deciding" /\ req'[r].seen = store
          /\ req'[r].gen = req[r].gen /\ req'[r].at = req[r].at
          /\ req'[r].base = req[r].base /\ req'[r].conflicts = req[r].conflicts
          /\ req'[r].replay = req[r].replay /\ req'[r].answer = req[r].answer
        BY <1>2, <1>t DEF TypeOK, Request
    <2>3. /\ store.rotatedAt = stampedAt[store.generation]
          /\ store.createdAt <= now
        BY <1>2, <1>t DEF StoreOK, Readable
    <2>4. req[r].conflicts \in 0 .. 3
        BY <1>t DEF TypeOK, Request
    <2>5. req[r].conflicts = 0
        BY <2>4, <1>2, <1>t DEF RequestOK
    <2> QED
        BY <2>1, <2>2, <2>3, <2>5, <1>2, <1>t DEF RequestOK, Written
<1> QED
    BY <1>1, <1>2 DEF RenewRead, Deny, Answer

LEMMA RenewDecideOK ==
    ASSUME Inv, NEW r \in Requests, RenewDecide(r)
    PROVE  RequestOK(r)'
<1>t. TypeOK /\ RequestOK(r) /\ req[r].pc = "deciding"
    BY DEF Inv, RenewDecide
<1>1. ASSUME NEW token, req' = [req EXCEPT ![r] = Idle(token)]
      PROVE  RequestOK(r)'
    BY <1>1, <1>t, IdleOK DEF TypeOK
<1>2. CASE /\ ~WithinRetry(req[r].seen, now)
           /\ req[r].seen.generation < MaxGeneration
           /\ req' = [req EXCEPT ![r].pc = "rotating", ![r].stamp = now]
           /\ UNCHANGED issued
    <2>1. UNCHANGED <<now, store, issued, stampedAt>>
        BY <1>2 DEF RenewDecide
    <2>2. /\ req'[r].pc = "rotating" /\ req'[r].stamp = now
          /\ req'[r].seen = req[r].seen
          /\ req'[r].gen = req[r].gen /\ req'[r].at = req[r].at
          /\ req'[r].base = req[r].base /\ req'[r].conflicts = req[r].conflicts
          /\ req'[r].replay = req[r].replay /\ req'[r].answer = req[r].answer
        BY <1>2, <1>t DEF TypeOK, Request
    <2>3. /\ now \in Nat /\ now \in 1 .. now /\ now <= now + MaxStall
          /\ req[r].seen.rotatedAt \in Nat
        BY <1>t DEF TypeOK, Request, Record
    <2>4. req[r].seen.rotatedAt > 0 => req[r].seen.rotatedAt + RetryWindow <= now
        BY <2>3, <1>2 DEF WithinRetry
    <2>5. /\ req[r].base < MaxGeneration
          /\ req[r].seen.createdAt <= now
        BY <1>2, <1>t DEF RequestOK
    <2> QED
        BY <2>1, <2>2, <2>3, <2>4, <2>5, <1>t DEF RequestOK, Written
<1> QED
    BY <1>1, <1>2 DEF RenewDecide, Deny, Answer

LEMMA RotateConflictOK ==
    ASSUME Inv, NEW r \in Requests, RotateConflict(r)
    PROVE  RequestOK(r)'
<1>t. TypeOK /\ RequestOK(r) /\ req[r].pc = "rotating"
    BY DEF Inv, RotateConflict
<1>1. CASE req' = [req EXCEPT ![r] = Idle(0)]
    BY <1>1, <1>t, IdleOK DEF TypeOK
<1>2. CASE req' = [req EXCEPT ![r].pc = "renewing", ![r].conflicts = @ + 1]
    <2>1. UNCHANGED <<now, issued, stampedAt>>
        BY <1>2, <1>t DEF RotateConflict, Deny
    <2>2. /\ req'[r].pc = "renewing" /\ req'[r].conflicts = req[r].conflicts + 1
          /\ req'[r].gen = req[r].gen /\ req'[r].at = req[r].at
          /\ req'[r].base = req[r].base /\ req'[r].replay = req[r].replay
          /\ req'[r].answer = req[r].answer
        BY <1>2, <1>t DEF TypeOK, Request
    <2>3. req[r].conflicts = 0 /\ req[r].base \in Generations
        BY <1>t DEF RequestOK
    <2>4. store'.generation \in {store.generation, 0}
        BY DEF RotateConflict, Touch, Absent
    <2>5. store'.generation # req[r].base
        <3>1. CASE store.generation = req[r].base
            <4>1. store = req[r].seen
                BY <3>1, <1>t DEF RequestOK
            <4>2. ~Readable
                BY <4>1 DEF RotateConflict
            <4> QED
                BY <4>2, <2>3 DEF RotateConflict, Touch, Absent, Generations
        <3>2. CASE store.generation # req[r].base
            BY <3>2, <2>3, <2>4 DEF Generations
        <3> QED
            BY <3>1, <3>2
    <2>6. store'.generation > 0 => req[r].base <= store'.generation
        BY <2>4, <1>t DEF RequestOK
    <2> QED
        BY <2>1, <2>2, <2>3, <2>5, <2>6, <1>t DEF RequestOK, Written
<1> QED
    BY <1>1, <1>2 DEF RotateConflict, Deny

\* A step of one request leaves the others where they are.
LEMMA RequestsStep ==
    ASSUME Inv, [Next]_vars, NEW s \in Requests
    PROVE  RequestOK(s)'
<1>t. TypeOK
    BY DEF Inv
<1>1. CASE Tick \/ Issue \/ RevokeRefresh \/ Expire \/ UNCHANGED vars
    <2>1. req'[s] = req[s]
        BY <1>1 DEF Tick, Issue, RevokeRefresh, Expire, vars
    <2> QED
        BY <2>1, RequestUndisturbed
<1>2. CASE Restart
    <2>1. req'[s] = Idle(0)
        BY <1>2 DEF Restart
    <2> QED
        BY <2>1, IdleOK
<1>3. ASSUME NEW r \in Requests,
             Receive(r) \/ RequestStep(r) \/ RotateUnacknowledged(r) \/ Abort(r)
      PROVE  RequestOK(s)'
    <2>1. CASE s # r
        <3>1. req'[s] = req[s]
            BY <1>3, <1>t, <2>1
            DEF TypeOK, Receive, RequestStep, ReadRefresh, RefreshIdentity,
                Revoke, RenewRead, RenewDecide, Rotate, RotateConflict,
                RotateUnacknowledged, Abort, Answer, Deny
        <3> QED
            BY <3>1, RequestUndisturbed
    <2>2. CASE s = r
        <3>1. CASE Revoke(r) \/ RotateUnacknowledged(r) \/ Abort(r)
            <4>1. req'[r] = Idle(0)
                BY <3>1, <1>t DEF Revoke, RotateUnacknowledged, Abort, Deny, TypeOK
            <4> QED
                BY <4>1, <2>2, IdleOK
        <3>2. CASE Rotate(r)
            <4>1. req'[r] = Idle(req[r].seen.generation + 1)
                BY <3>2, <1>t DEF Rotate, Answer, TypeOK
            <4> QED
                BY <4>1, <2>2, IdleOK
        <3> QED
            BY <1>3, <2>2, <3>1, <3>2, ReceiveOK, ReadRefreshOK,
               RefreshIdentityOK, RenewReadOK, RenewDecideOK, RotateConflictOK
            DEF RequestStep
    <2> QED
        BY <2>1, <2>2
<1> QED
    BY <1>1, <1>2, <1>3 DEF Next

-----------------------------------------------------------------------------
(* Replay: the one verdict that costs a client its family.                  *)

\* The history never forgets a rotation.
LEMMA StampsStay ==
    ASSUME Inv, [Next]_vars, NEW g \in Generations, stampedAt[g] > 0
    PROVE  stampedAt'[g] = stampedAt[g] /\ committedAt'[g] = committedAt[g]
<1>t. TypeOK
    BY DEF Inv
<1>1. CASE Tick \/ Issue \/ QuietStep
    BY <1>1 DEF Tick, Issue, QuietStep
<1>2. CASE SwapStep
    <2>1. PICK r \in Requests : Swap(r)
        BY <1>2 DEF SwapStep
    <2>2. /\ store.generation \in Generations
          /\ store.generation + 1 \in Generations
          /\ \A h \in Generations : h > store.generation => stampedAt[h] = 0
          /\ stampedAt' = [stampedAt EXCEPT ![store.generation + 1] = req[r].stamp]
          /\ committedAt' = [committedAt EXCEPT ![store.generation + 1] = now]
        BY <2>1, SwapFacts
    <2>3. g # store.generation + 1
        BY <2>2 DEF Generations
    <2> QED
        BY <2>2, <2>3, <1>t DEF TypeOK
<1> QED
    BY <1>1, <1>2, StepKinds

\* The classification of a token as a replay, by the record read.
LEMMA ReplayVerdict ==
    ASSUME Inv, NEW r \in Requests, req[r].pc = "reading", Readable,
           Replayed(store, req[r].gen, req[r].at)
    PROVE  /\ req[r].gen + 1 \in Generations
           /\ stampedAt[req[r].gen + 1] > 0
           /\ stampedAt[req[r].gen + 1] + RetryWindow <= req[r].at
<1> DEFINE G == store.generation
           g == req[r].gen
           at == req[r].at
<1>t. TypeOK /\ HistoryOK /\ StoreOK /\ RequestOK(r)
    BY DEF Inv
<1>1. /\ G \in Generations /\ g \in Generations
      /\ at \in Nat
      /\ store.rotatedAt = stampedAt[G]
      /\ Written(G)
    BY <1>t, GenerationRange DEF Readable, StoreOK, RequestOK, TypeOK, Record, Request
<1>2. g < G /\ stampedAt[G] <= at /\ ~Acceptable(store, g, at)
    BY <1>1 DEF Replayed
<1>3. /\ ~(stampedAt[G] > 0 /\ at < stampedAt[G] + RetryWindow) \/ g # G - 1
    BY <1>1, <1>2 DEF Acceptable, WithinRetry
<1> HIDE DEF G, g, at
<1>4. G \in Nat /\ g \in Nat /\ g > 0 /\ G <= MaxGeneration /\ G > 1
    BY <1>1, <1>2 DEF Generations
<1>5. g + 1 \in Generations /\ g + 1 > 1
    BY <1>1, <1>2, <1>4 DEF Generations
<1>6. stampedAt[G] > 0 /\ stampedAt[G] \in Nat
    BY <1>1, <1>4, <1>t DEF Written, TypeOK
<1>7. CASE g = G - 1
    <2>1. g + 1 = G
        BY <1>4, <1>7
    <2> QED
        BY <2>1, <1>1, <1>3, <1>5, <1>6, <1>7 DEF g, at
<1>8. CASE g # G - 1
    <2>1. g + 1 < G
        BY <1>2, <1>4, <1>8
    <2>2. stampedAt[g + 1] > 0 /\ stampedAt[g + 1] + RetryWindow <= stampedAt[G]
        BY <2>1, <1>1, <1>5, <1>6, <1>t DEF HistoryOK
    <2>3. stampedAt[g + 1] \in Nat
        BY <1>5, <1>t DEF TypeOK
    <2>4. stampedAt[g + 1] + RetryWindow <= at
        BY <2>2, <2>3, <1>1, <1>2, <1>6
    <2> QED
        BY <2>2, <2>4, <1>5 DEF g, at
<1> QED
    BY <1>7, <1>8

LEMMA ReplayStep ==
    ASSUME Inv, [Next]_vars
    PROVE  ReplayIsStale'
<1>t. TypeOK /\ ReplayIsStale
    BY DEF Inv
<1> SUFFICES ASSUME NEW s \in Requests, req'[s].pc = "revoking", req'[s].replay
             PROVE  /\ stampedAt'[req'[s].gen + 1] > 0
                    /\ stampedAt'[req'[s].gen + 1] + RetryWindow <= req'[s].at
    BY DEF ReplayIsStale
<1>1. CASE req'[s] = req[s]
    <2>1. req[s].gen \in 0 .. MaxGeneration /\ req[s].gen < MaxGeneration
        BY <1>1, <1>t DEF Inv, RequestOK, TypeOK, Request
    <2>2. req[s].gen + 1 \in Generations
        BY <2>1, GenerationRange
    <2>3. /\ stampedAt[req[s].gen + 1] > 0
          /\ stampedAt[req[s].gen + 1] + RetryWindow <= req[s].at
        BY <1>1, <1>t DEF ReplayIsStale
    <2> QED
        BY <1>1, <2>2, <2>3, StampsStay
<1>2. CASE req'[s] # req[s]
    <2>1. req'[s] # Idle(0) /\ \A token : req'[s] # Idle(token)
        BY DEF Idle
    <2>2. ReadRefresh(s)
        <3>1. req[s].replay => req[s].pc = "revoking"
            BY DEF Inv, RequestOK
        <3>2. PICK r \in Requests :
                  Receive(r) \/ RequestStep(r) \/ RotateUnacknowledged(r) \/ Abort(r)
            BY <1>2, <2>1 DEF Next, Tick, Issue, RevokeRefresh, Expire, Restart, vars
        <3>3. r = s
            BY <1>2, <1>t, <3>2
            DEF TypeOK, Receive, RequestStep, ReadRefresh, RefreshIdentity,
                Revoke, RenewRead, RenewDecide, Rotate, RotateConflict,
                RotateUnacknowledged, Abort, Answer, Deny
        <3>4. CASE Receive(s)
            BY <3>4, <1>t DEF Receive, TypeOK, Idle
        <3>5. CASE RefreshIdentity(s)
            <4>1. PICK next \in {"renewing", "revoking"} :
                      req' = [req EXCEPT ![s].pc = next]
                BY <3>5 DEF RefreshIdentity
            <4>2. req'[s].replay = req[s].replay
                BY <4>1, <1>t DEF TypeOK, Request
            <4> QED
                BY <4>2, <3>1, <3>5 DEF RefreshIdentity
        <3>6. CASE RenewRead(s) \/ RenewDecide(s) \/ RotateConflict(s)
            <4>1. req'[s].pc # "revoking"
                BY <3>6, <2>1, <1>t
                DEF RenewRead, RenewDecide, RotateConflict, Answer, Deny, TypeOK, Request
            <4> QED
                BY <4>1
        <3>7. CASE Revoke(s) \/ Rotate(s) \/ RotateUnacknowledged(s) \/ Abort(s)
            BY <3>7, <2>1, <1>t
            DEF Revoke, Rotate, RotateUnacknowledged, Abort, Answer, Deny, TypeOK
        <3> QED
            BY <3>2, <3>3, <3>4, <3>5, <3>6, <3>7 DEF RequestStep
    <2>3. /\ Readable
          /\ Replayed(store, req[s].gen, req[s].at)
          /\ req' = [req EXCEPT ![s].pc = "revoking", ![s].replay = TRUE]
        BY <2>1, <2>2, <1>t DEF ReadRefresh, Deny, TypeOK, Request
    <2>4. req'[s].gen = req[s].gen /\ req'[s].at = req[s].at
        BY <2>3, <1>t DEF TypeOK, Request
    <2>5. stampedAt' = stampedAt /\ req[s].pc = "reading"
        BY <2>2 DEF ReadRefresh
    <2> QED
        BY <2>3, <2>4, <2>5, ReplayVerdict
<1> QED
    BY <1>1, <1>2

-----------------------------------------------------------------------------
(* The theorems.                                                            *)

LEMMA InvInit == Init => Inv
<1> SUFFICES ASSUME Init
             PROVE  Inv
    OBVIOUS
<1>1. TypeOK
    <2>1. Absent \in Record
        BY DEF Absent, Record
    <2> QED
        BY <2>1, IdleType, GenerationRange DEF Init, TypeOK
<1>2. HistoryOK /\ StoreOK
    BY GenerationRange DEF Init, HistoryOK, StoreOK, RecordStaysValid, Absent
<1>3. ASSUME NEW r \in Requests
      PROVE  RequestOK(r) /\ req[r].pc = "idle"
    <2>1. req[r] = Idle(0)
        BY DEF Init
    <2>2. req[r].pc = "idle" /\ req[r].replay = FALSE /\ req[r].conflicts = 0
        BY <2>1 DEF Idle
    <2> QED
        BY <2>2 DEF RequestOK
<1>4. ReplayIsStale
    BY <1>3 DEF ReplayIsStale
<1>5. issued = {}
    BY DEF Init
<1> QED
    BY <1>1, <1>2, <1>3, <1>4, <1>5 DEF Inv

\* The inductive invariant: the history of the family is in order, the record
\* is its last line, and what every request has read of the record is true of
\* the history.
THEOREM InvariantHolds == Spec => []Inv
<1>1. Inv /\ [Next]_vars => Inv'
    BY TypeStep, HistoryStep, IssuedStep, StoreStep, RequestsStep, ReplayStep DEF Inv
<1> QED
    BY InvInit, <1>1, PTL DEF Spec

\* Every variable stays in its type: no request is in two places, and no
\* generation passes the largest one (math.MaxInt64), where Renew stops.
THEOREM TypeCorrect == Spec => []TypeOK
<1>1. Inv => TypeOK
    BY DEF Inv
<1> QED
    BY InvariantHolds, <1>1, PTL

\* decodeRecord never meets a record that rotation made invalid, and no
\* rotation moves the deadline that the login fixed.
THEOREM RecordsStayValid == Spec => []RecordStaysValid
<1>1. Inv => RecordStaysValid
    BY DEF Inv, StoreOK
<1> QED
    BY InvariantHolds, <1>1, PTL

\* A family is revoked for replay only when the token's successor was stamped
\* a whole retry window before the request arrived.
THEOREM ReplaysAreStale == Spec => []ReplayIsStale
<1>1. Inv => ReplayIsStale
    BY DEF Inv
<1> QED
    BY InvariantHolds, <1>1, PTL

\* When no write outlasts the retry window, a token that was the newest when
\* its request arrived is never taken for a replay.  The assumption is needed:
\* without it the statement is false.
THEOREM PromptWritesReplay ==
    ASSUME MaxStall < RetryWindow
    PROVE  Spec => []ReplayWasSuperseded
<1>1. Inv => ReplayWasSuperseded
    <2> SUFFICES ASSUME Inv, NEW r \in Requests,
                        req[r].pc = "revoking", req[r].replay
                 PROVE  committedAt[req[r].gen + 1] \in 1 .. req[r].at
        BY DEF ReplayWasSuperseded
    <2>1. TypeOK /\ HistoryOK /\ RequestOK(r)
        BY DEF Inv
    <2> DEFINE h == req[r].gen + 1
    <2>2. h \in Generations
        BY <2>1, GenerationRange DEF RequestOK, TypeOK, Request
    <2>3. stampedAt[h] > 0 /\ stampedAt[h] + RetryWindow <= req[r].at
        BY DEF Inv, ReplayIsStale
    <2>4. /\ stampedAt[h] <= committedAt[h]
          /\ committedAt[h] <= stampedAt[h] + MaxStall
        BY <2>1, <2>2 DEF HistoryOK
    <2>5. stampedAt[h] \in Nat /\ committedAt[h] \in Nat /\ req[r].at \in Nat
        BY <2>1, <2>2 DEF TypeOK, Request
    <2> HIDE DEF h
    <2>6. committedAt[h] \in 1 .. req[r].at
        BY <2>3, <2>4, <2>5
    <2> QED
        BY <2>6 DEF h
<1> QED
    BY InvariantHolds, <1>1, PTL

\* Renew never loses more than one compare-and-set, so its third attempt is
\* never used and no refresh is refused because the record was contended.
THEOREM ConflictsBounded == Spec => []AtMostOneConflict
<1>1. Inv => AtMostOneConflict
    BY DEF Inv, RequestOK, AtMostOneConflict
<1> QED
    BY InvariantHolds, <1>1, PTL

\* A revoked, expired or lost family is not brought back by a rotation that
\* was under way, whatever store holds it.
THEOREM NoResurrection == Spec => NeverResurrected
<1>1. Inv /\ [Next]_vars =>
        [issued # {} /\ store.generation = 0 => store'.generation = 0]_vars
    <2> SUFFICES ASSUME Inv, [Next]_vars, issued # {}, store.generation = 0
                 PROVE  store'.generation = 0
        OBVIOUS
    <2>1. CASE Tick
        BY <2>1 DEF Tick
    <2>2. CASE Issue
        BY <2>2 DEF Issue
    <2>3. CASE SwapStep
        <3>1. store.generation \in Generations
            BY <2>3, SwapFacts DEF SwapStep
        <3> QED
            BY <3>1 DEF Generations
    <2>4. CASE QuietStep
        BY <2>4 DEF QuietStep, Absent
    <2> QED
        BY <2>1, <2>2, <2>3, <2>4, StepKinds
<1> QED
    BY InvariantHolds, <1>1, PTL DEF Spec, NeverResurrected

\* The record a request saw inside its retry window is still the newest, or
\* the family is gone: rotations are a window apart.
LEMMA WindowHoldsTheRecord ==
    ASSUME Inv, NEW r \in Requests, req[r].pc = "deciding",
           WithinRetry(req[r].seen, now)
    PROVE  store.generation \in {0, req[r].seen.generation}
<1> DEFINE b == req[r].base
           G == store.generation
<1>t. TypeOK /\ HistoryOK /\ StoreOK /\ RequestOK(r)
    BY DEF Inv
<1>1. /\ b \in Generations
      /\ req[r].seen.generation = b
      /\ req[r].seen.rotatedAt = stampedAt[b]
      /\ G > 0 => b <= G
    BY <1>t DEF RequestOK
<1>2. stampedAt[b] > 0 /\ now < stampedAt[b] + RetryWindow /\ b # 1
    BY <1>1, <1>t DEF WithinRetry, HistoryOK
<1>3. ASSUME G > 0, G # b
      PROVE  FALSE
    <2>1. G \in Generations /\ Written(G)
        BY <1>3, <1>t, GenerationRange DEF StoreOK, TypeOK, Record
    <2> HIDE DEF b, G
    <2>2. b < G /\ 1 < b /\ G # 1
        BY <1>1, <1>2, <1>3, <2>1 DEF Generations
    <2>3. stampedAt[b] + RetryWindow <= stampedAt[G]
        BY <2>1, <2>2, <1>1, <1>t DEF HistoryOK, Written
    <2>4. stampedAt[G] <= committedAt[G] /\ committedAt[G] <= now
        BY <2>1, <1>t DEF HistoryOK
    <2>5. /\ stampedAt[b] \in Nat /\ stampedAt[G] \in Nat
          /\ committedAt[G] \in Nat /\ now \in Nat
        BY <1>1, <2>1, <1>t DEF TypeOK
    <2> QED
        BY <1>2, <2>3, <2>4, <2>5
<1> QED
    BY <1>1, <1>3, <1>t DEF TypeOK, Record

\* Every token a refresh answers with is the newest of its family at that
\* moment, or the family is gone: concurrent refreshes converge on one token.
THEOREM RefreshesConverge == Spec => AnswersConverge
<1>1. ASSUME Inv, [Next]_vars, NEW s \in Requests,
             req[s].pc # "idle", req'[s].answer > 0
      PROVE  store'.generation \in {0, req'[s].answer}
    <2>t. TypeOK /\ RequestOK(s)
        BY <1>1 DEF Inv
    <2>0. req[s].answer = 0 /\ req'[s] # req[s]
        BY <1>1, <2>t DEF RequestOK
    <2>idle. req'[s] # Idle(0)
        BY <1>1 DEF Idle
    <2>1. PICK r \in Requests :
              Receive(r) \/ RequestStep(r) \/ RotateUnacknowledged(r) \/ Abort(r)
        BY <1>1, <2>0, <2>idle DEF Next, Tick, Issue, RevokeRefresh, Expire, Restart, vars
    <2>2. r = s
        BY <2>0, <2>t, <2>1
        DEF TypeOK, Receive, RequestStep, ReadRefresh, RefreshIdentity,
            Revoke, RenewRead, RenewDecide, Rotate, RotateConflict,
            RotateUnacknowledged, Abort, Answer, Deny
    <2>3. CASE Receive(s) \/ Revoke(s) \/ RotateUnacknowledged(s) \/ Abort(s)
        BY <2>3, <2>idle, <2>t, <1>1
        DEF Receive, Revoke, RotateUnacknowledged, Abort, Deny, TypeOK
    <2>4. CASE ReadRefresh(s) \/ RefreshIdentity(s) \/ RotateConflict(s)
        <3>1. req'[s].answer = req[s].answer
            BY <2>4, <2>idle, <2>t
            DEF ReadRefresh, RefreshIdentity, RotateConflict, Deny, TypeOK, Request
        <3> QED
            BY <3>1, <2>0, <1>1
    <2>5. CASE RenewRead(s)
        <3>1. CASE Readable /\ Answer(s, store.generation)
            BY <3>1, <2>5, <2>t DEF RenewRead, Touch, Answer, Idle, TypeOK
        <3>2. CASE req' = [req EXCEPT ![s].pc = "deciding", ![s].seen = store]
            <4>1. req'[s].answer = req[s].answer
                BY <3>2, <2>t DEF TypeOK, Request
            <4> QED
                BY <4>1, <2>0, <1>1
        <3> QED
            BY <3>1, <3>2, <2>5, <2>idle, <2>t DEF RenewRead, Deny, TypeOK
    <2>6. CASE RenewDecide(s)
        <3>1. CASE WithinRetry(req[s].seen, now) /\ Answer(s, req[s].seen.generation)
            <4>1. store.generation \in {0, req[s].seen.generation}
                BY <3>1, <2>6, <1>1, WindowHoldsTheRecord DEF RenewDecide
            <4>2. store' = store /\ req'[s].answer = req[s].seen.generation
                BY <3>1, <2>6, <2>t DEF RenewDecide, Answer, Idle, TypeOK
            <4> QED
                BY <4>1, <4>2
        <3>2. CASE req' = [req EXCEPT ![s].pc = "rotating", ![s].stamp = now]
            <4>1. req'[s].answer = req[s].answer
                BY <3>2, <2>t DEF TypeOK, Request
            <4> QED
                BY <4>1, <2>0, <1>1
        <3> QED
            BY <3>1, <3>2, <2>6, <2>idle, <2>t DEF RenewDecide, Deny, TypeOK
    <2>7. CASE Rotate(s)
        <3>1. /\ req'[s].answer = req[s].seen.generation + 1
              /\ store = req[s].seen
            BY <2>7, <2>t DEF Rotate, Swap, Answer, Idle, TypeOK
        <3>2. store'.generation = store.generation + 1
            BY <2>7, <1>1, SwapFacts DEF Rotate
        <3> QED
            BY <3>1, <3>2
    <2> QED
        BY <2>1, <2>2, <2>3, <2>4, <2>5, <2>6, <2>7 DEF RequestStep
<1>2. Inv /\ [Next]_vars =>
        [\A r \in Requests :
            req[r].pc # "idle" /\ req'[r].answer > 0 =>
                store'.generation \in {0, req'[r].answer}]_vars
    BY <1>1
<1> QED
    BY InvariantHolds, <1>2, PTL DEF Spec, AnswersConverge

\* What a step of the store looks like to a family.
LEMMA FamilyStep ==
    ASSUME Inv, [Next]_vars
    PROVE  [Family!Next]_(Family!vars)
<1> USE DEF Family!Next, Family!vars
<1>t. TypeOK /\ StoreOK
    BY DEF Inv
<1>1. CASE Tick
    BY <1>1 DEF Tick, Family!Tick
<1>2. CASE Issue
    <2>1. PICK lifetime \in Lifetimes :
            store' = [generation |-> 1, createdAt |-> now, rotatedAt |-> 0,
                      expiredAt |-> now + lifetime]
        BY <1>2 DEF Issue
    <2>2. issued = {} /\ store.generation = 0 /\ now' = now
        BY <1>2, <1>t DEF Issue, StoreOK
    <2>3. /\ store'.generation = 1 /\ store'.rotatedAt = 0
          /\ store'.expiredAt = now + lifetime
        BY <2>1
    <2> QED
        BY <2>2, <2>3 DEF Family!Begin
<1>3. CASE QuietStep
    <2>1. /\ now' = now
          /\ store' = store \/ store' = Absent
          /\ store.generation \in Nat
          /\ issued = {} <=> issued' = {}
          /\ store.generation > 0 => issued # {}
        BY <1>3, <1>t DEF QuietStep, StoreOK, TypeOK, Record
    <2>2. CASE store' = store
        BY <2>1, <2>2
    <2>3. CASE store' = Absent /\ store.generation > 0
        BY <2>1, <2>3 DEF Family!End, Family!Nothing, Absent
    <2>4. CASE store' = Absent /\ store.generation = 0
        <3>1. store = Absent
            BY <2>4, <1>t DEF StoreOK
        <3> QED
            BY <3>1, <2>1, <2>4
    <2> QED
        BY <2>1, <2>2, <2>3, <2>4
<1>4. CASE SwapStep
    <2>1. PICK r \in Requests : Swap(r)
        BY <1>4 DEF SwapStep
    <2> DEFINE st == req[r].stamp
               family == [generation |-> store.generation,
                          rotatedAt |-> store.rotatedAt,
                          expiredAt |-> store.expiredAt]
    <2>2. /\ store.generation > 0
          /\ st \in 1 .. now
          /\ store.rotatedAt > 0 => store.rotatedAt + RetryWindow <= st
          /\ now < store.expiredAt
          /\ store'.generation = store.generation + 1
          /\ store'.rotatedAt = st
          /\ store'.expiredAt = store.expiredAt
          /\ now' = now
        BY <2>1, SwapFacts DEF Generations
    <2>3. store'.generation > 0
        BY <2>2, <1>t DEF TypeOK, Record
    <2>4. family' = [generation |-> store.generation + 1, rotatedAt |-> st,
                     expiredAt |-> store.expiredAt]
        BY <2>2
    <2> QED
        BY <2>2, <2>3, <2>4 DEF Family!Advance
<1> QED
    BY <1>1, <1>2, <1>3, <1>4, StepKinds

\* The requests and the store together behave as one family: it begins once,
\* advances one generation at a time and at most once in a retry window, keeps
\* its deadline, and ends for good.
THEOREM FamilyKept == Spec => KeepsFamilyPromise
<1>1. Init => Family!Init
    BY DEF Init, Absent, Family!Init, Family!Nothing
<1>2. Inv /\ [Next]_vars => [Family!Next]_(Family!vars)
    BY FamilyStep
<1> QED
    BY InvariantHolds, <1>1, <1>2, PTL DEF Spec, KeepsFamilyPromise, Family!Spec
=============================================================================
