------------------------------ MODULE Sessions ------------------------------
(***************************************************************************)
(* One refresh-token family: the record a login stores under its session   *)
(* id, the refresh requests that read and rotate it, and everything that   *)
(* can end it.  A refresh token is the pair of the session id and a        *)
(* generation, so in the model of one family a token is its generation.    *)
(*                                                                         *)
(* A request runs Refresh: it reads and classifies the token (ReadRefresh),*)
(* checks the account in the database, and rotates by compare-and-set      *)
(* (Renew).  Every access to the store is a step of its own, so the steps  *)
(* of concurrent requests, of Logout and of the clock interleave freely.   *)
(***************************************************************************)
EXTENDS Integers

CONSTANTS
    Requests,       \* the refresh requests in flight at once
    RetryWindow,    \* retryWindow, in ticks of the model's clock
    Lifetimes,      \* sessionLifetime and rememberLifetime, in ticks
    MaxGeneration,  \* math.MaxInt64 in the code, which tests for it
    MaxStall,       \* longest time from stamping RotatedAt to the write
    MaxTime,        \* the clock stops here: a bound of the model
    Durable         \* TRUE: Redis store; FALSE: process memory

ASSUME SessionConfig ==
    /\ RetryWindow \in Nat \ {0}
    /\ Lifetimes \subseteq {n \in Nat : n > RetryWindow}
    /\ MaxGeneration \in Nat \ {0}
    /\ MaxStall \in Nat
    /\ MaxTime \in Nat
    /\ Durable \in BOOLEAN

VARIABLES
    now,            \* the clock, in milliseconds in the code
    store,          \* the record under the session id; generation 0: no record
    issued,         \* the tokens the server has handed out
    req,            \* req[r]: where request r is and what it has read
    stampedAt,      \* history: RotatedAt of every generation written
    committedAt     \* history: when the write of every generation happened

vars == <<now, store, issued, req, stampedAt, committedAt>>

Generations == 1 .. MaxGeneration

Record == [generation : 0 .. MaxGeneration, createdAt : Nat,
           rotatedAt : Nat, expiredAt : Nat]

Absent == [generation |-> 0, createdAt |-> 0, rotatedAt |-> 0, expiredAt |-> 0]

Steps == {"idle", "reading", "checking", "renewing", "deciding", "rotating",
          "revoking"}

Request == [pc : Steps, gen : 0 .. MaxGeneration, at : Nat,
            base : 0 .. MaxGeneration, seen : Record, stamp : Nat,
            conflicts : 0 .. 3, replay : BOOLEAN, answer : 0 .. MaxGeneration]

Idle(token) == [pc |-> "idle", gen |-> 0, at |-> 0, base |-> 0,
                seen |-> Absent, stamp |-> 0, conflicts |-> 0,
                replay |-> FALSE, answer |-> token]

TypeOK ==
    /\ now \in Nat \ {0}
    /\ store \in Record
    /\ issued \subseteq Generations
    /\ req \in [Requests -> Request]
    /\ stampedAt \in [Generations -> Nat]
    /\ committedAt \in [Generations -> Nat]

Init ==
    /\ now = 1
    /\ store = Absent
    /\ issued = {}
    /\ req = [r \in Requests |-> Idle(0)]
    /\ stampedAt = [g \in Generations |-> 0]
    /\ committedAt = [g \in Generations |-> 0]

-----------------------------------------------------------------------------
(* What the code computes from a record and an instant.                     *)

\* Get returns the value and decodeRecord accepts it.
Readable == store.generation > 0 /\ now < store.expiredAt

WithinRetry(s, at) == s.rotatedAt > 0 /\ at < s.rotatedAt + RetryWindow

\* Mutant: a token is refused as soon as its successor is stored.
AcceptableCurrentOnly(s, g, at) == g = s.generation /\ g < MaxGeneration

\* validateRefresh returns nil.
Acceptable(s, g, at) ==
    \/ WithinRetry(s, at) /\ g \in {s.generation, s.generation - 1}
    \/ g = s.generation /\ g < MaxGeneration

\* Mutant: every older token is a replay, even one the read overtook.
ReplayedIfOlder(s, g, at) == ~Acceptable(s, g, at) /\ g < s.generation

\* validateRefresh takes the token for a replay and revokes the family.
Replayed(s, g, at) ==
    /\ ~Acceptable(s, g, at)
    /\ g < s.generation
    /\ s.rotatedAt <= at

\* A store call removes the record it finds expired.
Touch == store' = IF Readable THEN store ELSE Absent

\* The request leaves Refresh with a token, or with none (an error).
Answer(r, token) ==
    /\ req' = [req EXCEPT ![r] = Idle(token)]
    /\ issued' = issued \cup {token}

Deny(r) ==
    /\ req' = [req EXCEPT ![r] = Idle(0)]
    /\ UNCHANGED issued

-----------------------------------------------------------------------------
(* The life of the family outside a refresh.                                *)

\* A rotation that has stamped its record reaches the store within MaxStall.
Tick ==
    /\ now < MaxTime
    /\ \A r \in Requests :
          req[r].pc = "rotating" => now < req[r].stamp + MaxStall
    /\ now' = now + 1
    /\ UNCHANGED <<store, issued, req, stampedAt, committedAt>>

\* Login stores the first record and hands out the first token.  The random
\* session id is never used twice.
Issue ==
    /\ issued = {}
    /\ \E lifetime \in Lifetimes :
          store' = [generation |-> 1, createdAt |-> now, rotatedAt |-> 0,
                    expiredAt |-> now + lifetime]
    /\ issued' = {1}
    /\ UNCHANGED <<now, req, stampedAt, committedAt>>

\* Any token of the family, however old, ends it.
RevokeRefresh ==
    /\ issued # {}
    /\ store' = Absent
    /\ UNCHANGED <<now, issued, req, stampedAt, committedAt>>

\* The janitor of the memory store, or the PXAT deadline of the Redis key.
Expire ==
    /\ store.generation > 0
    /\ now >= store.expiredAt
    /\ store' = Absent
    /\ UNCHANGED <<now, issued, req, stampedAt, committedAt>>

\* The process stops: its requests die, and a memory store dies with them.
Restart ==
    /\ req' = [r \in Requests |-> Idle(0)]
    /\ store' = IF Durable THEN store ELSE Absent
    /\ UNCHANGED <<now, issued, stampedAt, committedAt>>

-----------------------------------------------------------------------------
(* The steps of one refresh request.                                        *)

\* A client presents a token it was given, once more or for the first time.
Receive(r) ==
    /\ req[r].pc = "idle"
    /\ \E g \in issued :
          req' = [req EXCEPT ![r] = [Idle(0) EXCEPT
                      !.pc = "reading", !.gen = g, !.at = now]]
    /\ UNCHANGED <<now, store, issued, stampedAt, committedAt>>

ReadRefresh(r) ==
    /\ req[r].pc = "reading"
    /\ \/ /\ ~Readable
          /\ Deny(r)
       \/ /\ Readable
          /\ Acceptable(store, req[r].gen, req[r].at)
          /\ req' = [req EXCEPT ![r].pc = "checking",
                                ![r].base = store.generation]
          /\ UNCHANGED issued
       \/ /\ Readable
          /\ Replayed(store, req[r].gen, req[r].at)
          /\ req' = [req EXCEPT ![r].pc = "revoking", ![r].replay = TRUE]
          /\ UNCHANGED issued
       \/ /\ Readable
          /\ ~Acceptable(store, req[r].gen, req[r].at)
          /\ ~Replayed(store, req[r].gen, req[r].at)
          /\ Deny(r)
    /\ Touch
    /\ UNCHANGED <<now, stampedAt, committedAt>>

\* The account row allows the refresh, or ErrUnauthorized revokes the session.
RefreshIdentity(r) ==
    /\ req[r].pc = "checking"
    /\ \E next \in {"renewing", "revoking"} :
          req' = [req EXCEPT ![r].pc = next]
    /\ UNCHANGED <<now, store, issued, stampedAt, committedAt>>

Revoke(r) ==
    /\ req[r].pc = "revoking"
    /\ store' = Absent
    /\ Deny(r)
    /\ UNCHANGED <<now, stampedAt, committedAt>>

\* Mutant: an unexpected generation is waited out instead of refused.
RenewReadWaits(r) ==
    /\ req[r].pc = "renewing"
    /\ Readable
    /\ store.generation = req[r].base
    /\ IF req[r].gen = req[r].base
       THEN /\ req' = [req EXCEPT ![r].pc = "deciding", ![r].seen = store]
            /\ UNCHANGED issued
       ELSE Answer(r, store.generation)
    /\ UNCHANGED <<now, store, stampedAt, committedAt>>

\* The head of Renew's loop: reload the record and compare generations.
RenewRead(r) ==
    /\ req[r].pc = "renewing"
    /\ LET base == req[r].base
           gen  == req[r].gen
       IN
       \/ /\ ~Readable
          /\ Deny(r)
       \/ /\ Readable
          /\ \/ store.generation = base + 1 /\ gen = base
             \/ store.generation = base /\ gen = base - 1
          /\ Answer(r, store.generation)
       \/ /\ Readable
          /\ store.generation = base
          /\ gen = base
          /\ req' = [req EXCEPT ![r].pc = "deciding", ![r].seen = store]
          /\ UNCHANGED issued
       \/ /\ Readable
          /\ store.generation # base
          /\ ~(store.generation = base + 1 /\ gen = base)
          /\ Deny(r)
    /\ Touch
    /\ UNCHANGED <<now, stampedAt, committedAt>>

\* Mutant: the retry window is not looked at again before a rotation.
RenewDecideEager(r) ==
    /\ req[r].pc = "deciding"
    /\ req[r].seen.generation < MaxGeneration
    /\ req' = [req EXCEPT ![r].pc = "rotating", ![r].stamp = now]
    /\ UNCHANGED <<now, store, issued, stampedAt, committedAt>>

\* Mutant: the window is measured from the request's arrival.
RenewDecideAtArrival(r) ==
    /\ req[r].pc = "deciding"
    /\ IF WithinRetry(req[r].seen, req[r].at)
       THEN Answer(r, req[r].seen.generation)
       ELSE /\ req[r].seen.generation < MaxGeneration
            /\ req' = [req EXCEPT ![r].pc = "rotating", ![r].stamp = now]
            /\ UNCHANGED issued
    /\ UNCHANGED <<now, store, stampedAt, committedAt>>

\* Mutant: nothing stops the generation at math.MaxInt64.
RenewDecideUnbounded(r) ==
    /\ req[r].pc = "deciding"
    /\ ~WithinRetry(req[r].seen, now)
    /\ req' = [req EXCEPT ![r].pc = "rotating", ![r].stamp = now]
    /\ UNCHANGED <<now, store, issued, stampedAt, committedAt>>

\* Not rotating again inside the window, or stamping the next record.
RenewDecide(r) ==
    /\ req[r].pc = "deciding"
    /\ LET seen == req[r].seen
       IN
       \/ /\ WithinRetry(seen, now)
          /\ Answer(r, seen.generation)
       \/ /\ ~WithinRetry(seen, now)
          /\ seen.generation = MaxGeneration
          /\ Deny(r)
       \/ /\ ~WithinRetry(seen, now)
          /\ seen.generation < MaxGeneration
          /\ req' = [req EXCEPT ![r].pc = "rotating", ![r].stamp = now]
          /\ UNCHANGED issued
    /\ UNCHANGED <<now, store, stampedAt, committedAt>>

\* Mutant: a rotation prolongs the session.
RotatedSliding(r) ==
    LET seen == req[r].seen
    IN  [seen EXCEPT !.generation = seen.generation + 1,
                     !.rotatedAt = req[r].stamp,
                     !.expiredAt = req[r].stamp + (seen.expiredAt - seen.createdAt)]

\* Mutant: a rotation keeps the old rotation time.
RotatedUnstamped(r) ==
    [req[r].seen EXCEPT !.generation = req[r].seen.generation + 1]

Rotated(r) == [req[r].seen EXCEPT !.generation = req[r].seen.generation + 1,
                                  !.rotatedAt = req[r].stamp]

\* Mutant: the rotated record is written over whatever is stored.
SwapBlind(r) ==
    /\ req[r].pc = "rotating"
    /\ store' = Rotated(r)
    /\ stampedAt' = [stampedAt EXCEPT ![Rotated(r).generation] = req[r].stamp]
    /\ committedAt' = [committedAt EXCEPT ![Rotated(r).generation] = now]
    /\ UNCHANGED now

\* The store replaces the complete previous value, and only that value.
Swap(r) ==
    /\ req[r].pc = "rotating"
    /\ Readable
    /\ store = req[r].seen
    /\ store' = Rotated(r)
    /\ stampedAt' = [stampedAt EXCEPT ![store.generation + 1] = req[r].stamp]
    /\ committedAt' = [committedAt EXCEPT ![store.generation + 1] = now]
    /\ UNCHANGED now

Rotate(r) ==
    /\ Swap(r)
    /\ Answer(r, req[r].seen.generation + 1)

\* The store applied the rotation and the reply was lost.
RotateUnacknowledged(r) ==
    /\ Swap(r)
    /\ Deny(r)

\* Mutant: after a lost compare-and-set the record is not read again.
RotateConflictNoReload(r) ==
    /\ req[r].pc = "rotating"
    /\ ~(Readable /\ store = req[r].seen)
    /\ IF req[r].conflicts = 2
       THEN Deny(r)
       ELSE /\ req' = [req EXCEPT ![r].pc = "deciding",
                                  ![r].conflicts = @ + 1]
            /\ UNCHANGED issued
    /\ Touch
    /\ UNCHANGED <<now, stampedAt, committedAt>>

\* The store refuses: the value changed, was deleted or has expired.
RotateConflict(r) ==
    /\ req[r].pc = "rotating"
    /\ ~(Readable /\ store = req[r].seen)
    /\ IF req[r].conflicts = 2
       THEN Deny(r)
       ELSE /\ req' = [req EXCEPT ![r].pc = "renewing",
                                  ![r].conflicts = @ + 1]
            /\ UNCHANGED issued
    /\ Touch
    /\ UNCHANGED <<now, stampedAt, committedAt>>

\* A store, database or signing failure, or a cancelled context, ends the
\* request at any step and leaves the record as it is.
Abort(r) ==
    /\ req[r].pc # "idle"
    /\ Deny(r)
    /\ UNCHANGED <<now, store, stampedAt, committedAt>>

RequestStep(r) ==
    \/ ReadRefresh(r)
    \/ RefreshIdentity(r)
    \/ Revoke(r)
    \/ RenewRead(r)
    \/ RenewDecide(r)
    \/ Rotate(r)
    \/ RotateConflict(r)

Next ==
    \/ Tick
    \/ Issue
    \/ RevokeRefresh
    \/ Expire
    \/ Restart
    \/ \E r \in Requests :
          \/ Receive(r)
          \/ RequestStep(r)
          \/ RotateUnacknowledged(r)
          \/ Abort(r)

Spec == Init /\ [][Next]_vars

\* A handler that is running keeps running; clients, failures, logouts and
\* the clock are not obliged to do anything.
FairSpec == Spec /\ \A r \in Requests : WF_vars(RequestStep(r))
-----------------------------------------------------------------------------
(* What the family must never do, and what it must do.                      *)

\* The record a client depends on stays one that decodeRecord accepts: its
\* generation and rotation time agree, it was rotated within its life, and
\* its deadline is still the one the login fixed.
RecordStaysValid ==
    store.generation > 0 =>
        /\ (store.generation = 1) <=> (store.rotatedAt = 0)
        /\ store.generation > 1 => store.rotatedAt >= store.createdAt
        /\ store.rotatedAt < store.expiredAt
        /\ store.expiredAt - store.createdAt \in Lifetimes

\* A family is revoked for replay only for a token whose successor was
\* stamped a whole retry window before the request arrived, however slow the
\* reads, the database and the writes in between were.
ReplayIsStale ==
    \A r \in Requests :
        req[r].pc = "revoking" /\ req[r].replay =>
            /\ stampedAt[req[r].gen + 1] > 0
            /\ stampedAt[req[r].gen + 1] + RetryWindow <= req[r].at

\* validateRefresh's comment: a token that "may have been current at arrival"
\* is not taken for a replay.  Current: no later generation had been written.
ReplayWasSuperseded ==
    \A r \in Requests :
        req[r].pc = "revoking" /\ req[r].replay =>
            committedAt[req[r].gen + 1] \in 1 .. req[r].at

\* Renew's three attempts are more than it needs: a lost compare-and-set means
\* another generation or no record, which the next read settles.
AtMostOneConflict == \A r \in Requests : req[r].conflicts <= 1

\* A token handed out is the newest generation of the family at that moment,
\* or the family is gone: concurrent refreshes converge.
AnswersConverge ==
    [][\A r \in Requests :
          req[r].pc # "idle" /\ req'[r].answer > 0 =>
              store'.generation \in {0, req'[r].answer}]_vars

\* Once a family has been revoked, has expired or was lost, no rotation that
\* was under way brings it back.
NeverResurrected ==
    [][issued # {} /\ store.generation = 0 => store'.generation = 0]_vars

\* Every refresh request is answered, whatever the others do.
RequestsFinish ==
    \A r \in Requests : []<>(req[r].pc = "idle")

\* What a client is promised of its family, and the state that stands for it.
Family == INSTANCE SessionFamily WITH
    phase  <- IF store.generation > 0 THEN "live"
              ELSE IF issued = {} THEN "unborn" ELSE "ended",
    family <- [generation |-> store.generation, rotatedAt |-> store.rotatedAt,
               expiredAt |-> store.expiredAt]

\* Every step of the requests and the store is a step of such a family.
KeepsFamilyPromise == Family!Spec
-----------------------------------------------------------------------------
(* The inductive invariant behind the safety properties.                    *)

Written(g) == g = 1 \/ stampedAt[g] > 0

\* Generations are written in order, a retry window apart, each within
\* MaxStall of its stamp.
HistoryOK ==
    /\ \A g \in Generations :
          /\ stampedAt[g] <= committedAt[g]
          /\ committedAt[g] <= now
          /\ committedAt[g] <= stampedAt[g] + MaxStall
          /\ g = 1 => stampedAt[g] = 0
          /\ issued = {} => stampedAt[g] = 0
    /\ \A g, h \in Generations :
          1 < g /\ g < h /\ stampedAt[h] > 0 =>
              stampedAt[g] > 0 /\ stampedAt[g] + RetryWindow <= stampedAt[h]

\* The record is the last line of that history.
StoreOK ==
    /\ RecordStaysValid
    /\ store.generation = 0 => store = Absent
    /\ issued = {} => store.generation = 0
    /\ store.generation > 0 =>
          /\ store.createdAt <= now
          /\ store.rotatedAt = stampedAt[store.generation]
          /\ Written(store.generation)
          /\ \A g \in Generations : g > store.generation => stampedAt[g] = 0

\* What a request still knows of the record is true of the history, even when
\* the record has moved on.
RequestOK(r) ==
    LET q == req[r]
    IN
    /\ q.replay => q.pc = "revoking" /\ q.gen < MaxGeneration
    /\ q.pc # "idle" => q.gen \in issued /\ q.at \in 1 .. now /\ q.answer = 0
    /\ q.conflicts <= 1
    /\ q.pc \in {"checking", "renewing", "deciding", "rotating"} =>
          /\ q.base \in {q.gen, q.gen + 1}
          /\ q.base \in Generations
          /\ Written(q.base)
          /\ store.generation > 0 => q.base <= store.generation
    /\ q.pc \in {"reading", "checking", "deciding", "rotating"} => q.conflicts = 0
    /\ q.pc = "renewing" /\ q.conflicts > 0 => store.generation # q.base
    /\ q.pc \in {"deciding", "rotating"} =>
          /\ q.seen.generation = q.base
          /\ q.seen.rotatedAt = stampedAt[q.base]
          /\ q.seen.createdAt <= now
          /\ store.generation = q.base => store = q.seen
    /\ q.pc = "rotating" =>
          /\ q.base < MaxGeneration
          /\ q.stamp \in 1 .. now
          /\ now <= q.stamp + MaxStall
          /\ q.seen.createdAt <= q.stamp
          /\ q.seen.rotatedAt > 0 => q.seen.rotatedAt + RetryWindow <= q.stamp

Inv ==
    /\ TypeOK
    /\ HistoryOK
    /\ \A g \in issued : Written(g)
    /\ StoreOK
    /\ \A r \in Requests : RequestOK(r)
    /\ ReplayIsStale
=============================================================================
