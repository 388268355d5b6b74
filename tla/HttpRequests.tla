---------------------------- MODULE HttpRequests ----------------------------
(***************************************************************************)
(* HTTP requests on their way through the router's middleware, composed    *)
(* with the life of the process that serves them.                          *)
(*                                                                         *)
(* From the outside in: the audit, the recovery from panics, the request   *)
(* timeout, authentication and authorization, the idempotency claim of a   *)
(* POST, the handler.  What the handler does is left open: it answers, it  *)
(* panics, or it never returns.  Claims live in Redis, which survives the  *)
(* process, or in the memory of the process, and last for a TTL that may   *)
(* run out at any time.  So may the context of a request, by the request   *)
(* timeout, by a client that leaves or by a server that closes its         *)
(* connections: whoever looks at it finds it live or not.                  *)
(***************************************************************************)
EXTENDS Lifecycle

CONSTANT Keys       \* the values of X-Idempotent

VARIABLES
    req,            \* req[r]: the request in slot r, and how far it has come
    claim,          \* claim[k]: the store's entry for key k
    grants          \* history: the requests let in since the claim was last free

requests == <<req, claim, grants>>
vars == <<lifecycle, requests>>

NoKey == "no key"

Steps == {"none", "arrived", "claiming", "handling", "unwinding", "panicking",
          "auditing", "audited"}

\* "none": nothing written; "refused" stands for 400, 401, 403 and 500 of the
\* authentication, "failed" for 500 of the claim and of the recovery.
Statuses == {"none", "refused", "failed", "conflict", "answered", "timeout", "ok"}

Request == [pc : Steps, key : Keys \cup {NoKey}, admitted : BOOLEAN,
            status : Statuses, row : Statuses]

NoRequest == [pc |-> "none", key |-> NoKey, admitted |-> FALSE,
              status |-> "none", row |-> "none"]

\* An entry of the memory outlives its time until it is cleaned up.
Claim == [state : {"free", "taken", "expired"}, rightful : BOOLEAN]

Free == [state |-> "free", rightful |-> TRUE]

\* net/http sends 200 for a handler that wrote nothing.
Sent(status) == IF status = "none" THEN "ok" ELSE status

TypeOK ==
    /\ LifecycleTypeOK
    /\ req \in [Requests -> Request]
    /\ claim \in [Keys -> Claim]
    /\ grants \in [Keys -> 0 .. 2]
    /\ open = {r \in Requests : req[r].pc # "none"}

Init ==
    /\ LifecycleInit
    /\ req = [r \in Requests |-> NoRequest]
    /\ claim = [k \in Keys |-> Free]
    /\ grants = [k \in Keys |-> 0]
-----------------------------------------------------------------------------
Arrive(r) ==
    /\ req[r].pc = "none"
    /\ Accept(r)
    /\ \E key \in Keys \cup {NoKey} :
           req' = [req EXCEPT ![r] = [@ EXCEPT !.pc = "arrived", !.key = key]]
    /\ UNCHANGED <<claim, grants>>

To(r, pc) == [req EXCEPT ![r].pc = pc]

\* Past the claim the key, and who sent it, no longer matter.
Enter(r) == [req EXCEPT ![r] = [NoRequest EXCEPT !.pc = "handling"]]

Reject(r, status) ==
    [req EXCEPT ![r] = [NoRequest EXCEPT !.pc = "unwinding", !.status = status]]

\* Mutant: the claim comes before the authentication.
AuthenticateLater(r) ==
    /\ req[r].pc = "arrived"
    /\ req' = IF req[r].key = NoKey THEN Enter(r) ELSE To(r, "claiming")
    /\ UNCHANGED <<lifecycle, claim, grants>>

Authenticate(r) ==
    /\ req[r].pc = "arrived"
    /\ \/ req' = IF req[r].key = NoKey THEN Enter(r)
                 ELSE [To(r, "claiming") EXCEPT ![r].admitted = TRUE]
       \/ req' = Reject(r, "refused")
    /\ UNCHANGED <<lifecycle, claim, grants>>
-----------------------------------------------------------------------------
(* The idempotency claim.                                                  *)

Take(r, k) == [state |-> "taken", rightful |-> req[r].admitted]

LetIn(r, k) ==
    /\ req' = Enter(r)
    /\ grants' = [grants EXCEPT ![k] = IF @ = 2 THEN 2 ELSE @ + 1]

\* SET NX with the TTL.  Redis answers, or the answer is lost, whether or not it
\* has run the command; the client library may then have sent it once more.
ClaimRedis(r) ==
    LET k == req[r].key IN
    /\ deployment = "redis" /\ req[r].pc = "claiming"
    /\ \/ /\ claim[k].state = "free"
          /\ claim' = [claim EXCEPT ![k] = Take(r, k)]
          /\ \/ LetIn(r, k)
             \/ /\ \E status \in {"conflict", "failed"} : req' = Reject(r, status)
                /\ UNCHANGED grants
       \/ /\ claim[k].state = "taken"
          /\ req' = Reject(r, "conflict")
          /\ UNCHANGED <<claim, grants>>
       \/ /\ req' = Reject(r, "failed")
          /\ UNCHANGED <<claim, grants>>
    /\ UNCHANGED lifecycle

\* Mutant: the cleanup empties the store.
KeptNone == {claim, [k \in Keys |-> Free]}

\* What a claim finds in memory: the cleanup of expired entries may be due.
Kept == {claim, [k \in Keys |-> IF claim[k].state = "expired" THEN Free ELSE claim[k]]}

Taken(entry) == entry.state = "taken"

\* The store in memory fails when the context has ended.  Otherwise it reads the
\* clock and takes its lock: one step here.
ClaimMemory(r) ==
    LET k == req[r].key IN
    /\ deployment = "memory" /\ req[r].pc = "claiming"
    /\ \/ \E kept \in Kept :
              IF Taken(kept[k])
              THEN /\ claim' = kept
                   /\ req' = Reject(r, "conflict")
                   /\ UNCHANGED grants
              ELSE /\ claim' = [kept EXCEPT ![k] = Take(r, k)]
                   /\ LetIn(r, k)
       \/ /\ req' = Reject(r, "failed")
          /\ UNCHANGED <<claim, grants>>
    /\ UNCHANGED lifecycle

\* The TTL of a claim has passed.
Expire(k) ==
    /\ claim[k].state = "taken"
    /\ claim' = [claim EXCEPT ![k] =
                    IF deployment = "redis" THEN Free ELSE [@ EXCEPT !.state = "expired"]]
    /\ grants' = [grants EXCEPT ![k] = 0]
    /\ UNCHANGED <<lifecycle, req>>
-----------------------------------------------------------------------------
(* The handler, and the way back.                                          *)

\* It writes its answer, or not, and returns or panics.
Handle(r) ==
    /\ req[r].pc = "handling"
    /\ \E status \in {"none", "answered"}, way \in {"unwinding", "panicking"} :
           req' = [Reject(r, status) EXCEPT ![r].pc = way]
    /\ UNCHANGED <<lifecycle, claim, grants>>

\* RequestTimeout writes 504 when the deadline has passed and nothing is written;
\* a panic goes past it to Recoverer.
Unwound(r) ==
    IF req[r].status # "none" THEN {req[r].status}
    ELSE IF req[r].pc = "panicking" THEN {"failed"} ELSE {"timeout", "none"}

Unwind(r) ==
    /\ req[r].pc \in {"unwinding", "panicking"}
    /\ \E status \in Unwound(r) :
           req' = [req EXCEPT ![r] = [@ EXCEPT !.pc = "auditing", !.status = status]]
    /\ UNCHANGED <<lifecycle, claim, grants>>

\* Mutant: the audit inside the recovery and the timeout.
AuditInside(r) ==
    /\ req[r].pc \in {"unwinding", "panicking"}
    /\ \E status \in Unwound(r) :
           req' = [req EXCEPT ![r] = [@ EXCEPT !.pc = "audited", !.status = status,
                                               !.row = Sent(req[r].status)]]
    /\ UNCHANGED <<lifecycle, claim, grants>>

\* One INSERT, with the status that has been sent.
RecordHTTP(r) ==
    /\ Holds("db")
    /\ req' = [req EXCEPT ![r] = [@ EXCEPT !.pc = "audited",
                                           !.row = Sent(req[r].status)]]

\* The row is written with a context of its own; a failure is only logged.
Audit(r) ==
    /\ req[r].pc = "auditing"
    /\ RecordHTTP(r) \/ req' = To(r, "audited")
    /\ UNCHANGED <<lifecycle, claim, grants>>

\* The connection is idle again.
Complete(r) ==
    /\ req[r].pc = "audited"
    /\ Finish(r)
    /\ req' = [req EXCEPT ![r] = NoRequest]
    /\ UNCHANGED <<claim, grants>>
-----------------------------------------------------------------------------
\* Mutant: requests of one process end in the next.
ProcessEndsAlone ==
    /\ Exit \/ Crash
    /\ UNCHANGED requests

\* The memory of the process, and the requests in it, are gone.
ProcessEnds ==
    /\ Exit \/ Crash
    /\ req' = [r \in Requests |-> NoRequest]
    /\ IF deployment = "memory"
       THEN /\ claim' = [k \in Keys |-> Free]
            /\ grants' = [k \in Keys |-> 0]
       ELSE UNCHANGED <<claim, grants>>

Process == ProcessStep /\ UNCHANGED requests

RequestStep(r) ==
    \/ Arrive(r) \/ Authenticate(r) \/ ClaimRedis(r) \/ ClaimMemory(r)
    \/ Handle(r) \/ Unwind(r) \/ Audit(r) \/ Complete(r)

Next ==
    \/ Process
    \/ WorldStep /\ UNCHANGED requests
    \/ \E r \in Requests : RequestStep(r)
    \/ \E k \in Keys : Expire(k)
    \/ ProcessEnds

Spec == Init /\ [][Next]_vars

\* The process goes on by itself: what it waits for has a timeout, and a worker
\* whose context is done leaves its loop.  Nothing makes a handler return.
Fairness ==
    /\ WF_vars(Process)
    /\ WF_vars(ProcessEnds /\ Exit)

FairSpec == Spec /\ Fairness
-----------------------------------------------------------------------------
(* Properties.                                                             *)

\* A key lets one request in for as long as it is consumed, also when that one
\* failed and also across restarts when Redis keeps it (conf/idempotency.yml:
\* "A key is consumed atomically for this long"); memory forgets with the process.
OncePerKey == \A k \in Keys : grants[k] <= 1

\* Nobody who is not let in uses up a key (router.go:288-296: authentication
\* and authorization wrap the claim).
OnlyAdmittedConsume == \A k \in Keys : claim[k].rightful

\* The audit tells what the client was answered, whoever wrote the answer: the
\* handler, the recovery or the timeout (router.go:227).
AuditIsTheAnswer ==
    \A r \in Requests : req[r].row # "none" => req[r].row = Sent(req[r].status)

\* Nobody has been let in for a key that is not consumed; a request that is about
\* to consume one has passed the authentication; a row is written last.
ClaimsOK ==
    /\ \A k \in Keys : claim[k].state # "taken" => grants[k] = 0
    /\ \A r \in Requests :
           /\ req[r].pc = "claiming" => req[r].key \in Keys /\ req[r].admitted
           /\ req[r].row # "none" => req[r].pc = "audited"

\* Inductive: from it follow NothingLeaks and CleanStopCutsNothing.
Inv ==
    /\ TypeOK
    /\ StagesOK
    /\ ClaimsOK
    /\ OncePerKey
    /\ OnlyAdmittedConsume
    /\ AuditIsTheAnswer
=============================================================================
