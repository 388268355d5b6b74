----------------------------- MODULE MsgStatus -----------------------------
(***************************************************************************)
(* Messages and the unread counters kept beside them.                      *)
(*                                                                         *)
(* t_msg and t_msg_recipient are the truth; t_user_msg_status holds, for   *)
(* each user, how many visible messages are unread, when the latest was    *)
(* published, and when that next changes by the mere passing of time.      *)
(* Every operation is one transaction: it takes a database-wide gate       *)
(* (shared, or exclusive when it concerns everybody), locks the status     *)
(* rows of its users, and runs its statements one by one, each at an       *)
(* instant of its own and on what was committed when it began.  What a     *)
(* transaction has written stays with its request until it commits.        *)
(***************************************************************************)
EXTENDS Integers, FiniteSets

CONSTANTS
    Requests,       \* the requests, and sweeps of the worker, at once
    Users,
    Messages,       \* message ids: a bound on the messages ever sent
    MaxTime,        \* the clock stops here: a bound of the model
    KnownTargets    \* messages are addressed to registered users only

ASSUME MsgConfig ==
    /\ MaxTime \in Nat \ {0}
    /\ KnownTargets \in BOOLEAN
    /\ IsFiniteSet(Messages)

VARIABLES
    now,            \* the database's clock
    user,           \* user[u]: the account
    msg,            \* msg[m]: the committed row of t_msg
    receipt,        \* receipt[u][m]: the committed row of t_msg_recipient
    row,            \* row[u]: the committed row of t_user_msg_status
    req,            \* req[r]: where request r is and what it has written
    truths          \* history: what was true while a Status request ran

vars == <<now, user, msg, receipt, row, req, truths>>

\* SQL's NULL among deadlines: later than every instant.
Never == MaxTime + 1

Account == [state : {"unknown", "inserted", "present", "deleted"},
            created : 0 .. MaxTime]

Message == [scope : {"unused", "all", "targeted", "removed"},
            published : 0 .. MaxTime, expired : 0 .. Never]

NoMessage(scope) == [scope |-> scope, published |-> 0, expired |-> 0]

\* A receipt with read_at, with deleted_at, or with neither.
Receipt == {"none", "unread", "read", "deleted"}

Row == [count : 0 .. Cardinality(Messages), latest : 0 .. MaxTime, due : 0 .. Never]

NoRow == [count |-> -1, latest |-> 0, due |-> Never]

\* The epoch deadline of a newly initialized row.
FreshRow == [count |-> 0, latest |-> 0, due |-> 0]

Operations == {"none", "status", "sweep", "send", "read", "readAll", "delete", "unsend"}

Steps == {"idle", "waiting", "locking", "refreshing", "rereading", "publishing",
          "delivering", "changing", "recounting", "committing"}

Request == [pc : Steps, op : Operations, users : SUBSET Users,
            msgs : SUBSET Messages, draft : Message,
            held : SUBSET Users, rows : [Users -> Row \cup {NoRow}],
            changed : SUBSET Messages]

Idle == [pc |-> "idle", op |-> "none", users |-> {}, msgs |-> {},
         draft |-> NoMessage("unused"), held |-> {},
         rows |-> [u \in Users |-> NoRow], changed |-> {}]

Present == {u \in Users : user[u].state = "present"}

Stored == {u \in Users : row[u] # NoRow}

\* Broadcasts, and removals of a message for everyone.
Exclusive(r) == req[r].op = "unsend" \/ req[r].draft.scope = "all"

Inside(r) == req[r].pc \notin {"idle", "waiting"}

TypeOK ==
    /\ now \in 1 .. MaxTime
    /\ user \in [Users -> Account]
    /\ msg \in [Messages -> Message]
    /\ receipt \in [Users -> [Messages -> Receipt]]
    /\ row \in [Users -> Row \cup {NoRow}]
    /\ req \in [Requests -> Request]
    /\ truths \in [Requests -> SUBSET ((0 .. Cardinality(Messages)) \X (0 .. MaxTime))]
-----------------------------------------------------------------------------
(* What the queries compute, from messages M, one user's receipts R, the    *)
(* time c at which he registered, and the instant t of the statement.       *)

Earliest(S) == CHOOSE x \in S : \A y \in S : x <= y
Latest(S) == CHOOSE x \in S : \A y \in S : y <= x

\* Users registered later do not see old broadcasts.
Addressed(M, R, c, m) ==
    \/ M[m].scope = "all" /\ c <= M[m].published
    \/ M[m].scope = "targeted" /\ R[m] # "none"

\* inboxFrom.
Visible(M, R, c, t) ==
    {m \in Messages : /\ Addressed(M, R, c, m)
                      /\ M[m].published <= t
                      /\ t < M[m].expired}

\* Unread, and published now or later.
Outstanding(M, R, c, t) ==
    {m \in Messages : /\ Addressed(M, R, c, m)
                      /\ t < M[m].expired
                      /\ R[m] \in {"none", "unread"}}

\* The UPDATE of refreshStatus for one user.
Aggregate(M, R, c, t) ==
    LET open == Outstanding(M, R, c, t)
        unread == {m \in open : M[m].published <= t}
    IN  [count  |-> Cardinality(unread),
         latest |-> Latest({0} \cup {M[m].published : m \in unread}),
         due    |-> Earliest({Never} \cup
                        {IF M[m].published > t THEN M[m].published
                         ELSE M[m].expired : m \in open})]

\* The same, from what is committed.
Truth(u) == Aggregate(msg, receipt[u], user[u].created, now)

\* What Status answers with.
Shown(stored) == <<stored.count, stored.latest>>

\* What request r sees: what is committed, and what it has written itself.
MsgSeen(r) ==
    [m \in Messages |->
        IF m \notin req[r].changed THEN msg[m]
        ELSE CASE req[r].op = "send"   -> req[r].draft
               [] req[r].op = "unsend" -> NoMessage("removed")
               [] OTHER                -> msg[m]]

ReceiptSeen(r, u) ==
    [m \in Messages |->
        IF m \notin req[r].changed \/ u \notin req[r].users THEN receipt[u][m]
        ELSE CASE req[r].op \in {"read", "readAll"} -> "read"
               [] req[r].op = "delete"              -> "deleted"
               [] req[r].op = "unsend"              -> "none"
               [] req[r].draft.scope = "targeted"   -> "unread"
               [] OTHER                             -> receipt[u][m]]

Recomputed(r, u) == Aggregate(MsgSeen(r), ReceiptSeen(r, u), user[u].created, now)
-----------------------------------------------------------------------------
Init ==
    /\ now = 1
    /\ user \in [Users -> {[state |-> "unknown", created |-> 0],
                           [state |-> "present", created |-> 1]}]
    \* A message from an older writer may be scheduled for later.
    /\ \E old \in SUBSET Messages, at \in 2 .. MaxTime, until \in 3 .. Never :
          /\ Cardinality(old) <= 1
          /\ at < until
          /\ msg = [m \in Messages |->
                IF m \in old
                THEN [scope |-> "all", published |-> at, expired |-> until]
                ELSE NoMessage("unused")]
    /\ receipt = [u \in Users |-> [m \in Messages |-> "none"]]
    /\ row = [u \in Users |-> NoRow]
    /\ req = [r \in Requests |-> Idle]
    /\ truths = [r \in Requests |-> {}]

Leave(r) == req' = [req EXCEPT ![r] = Idle]

\* The calls.

Start(r, op, users, msgs, draft) ==
    req' = [req EXCEPT ![r] = [Idle EXCEPT !.pc = "waiting", !.op = op,
                !.users = users, !.msgs = msgs, !.draft = draft]]

\* Status reads the row without a lock.  One that is not due is the answer, and
\* nothing changes; a missing or overdue one starts the transaction.
Poll(r) ==
    /\ req[r].pc = "idle"
    /\ \E u \in Present :
          /\ u \in Stored => row[u].due <= now
          /\ Start(r, "status", {u}, {}, NoMessage("unused"))
    /\ UNCHANGED <<now, user, msg, receipt, row>>

\* ExpireStatus: the rows that are due, of all users.
Sweep(r) ==
    /\ req[r].pc = "idle"
    /\ LET due == {u \in Stored : row[u].due <= now}
       IN  due # {} /\ Start(r, "sweep", due, {}, NoMessage("unused"))
    /\ UNCHANGED <<now, user, msg, receipt, row>>

\* Create: nobody in particular, or the users that the sender names.
Send(r) ==
    /\ req[r].pc = "idle"
    /\ \E m \in Messages, expired \in now + 1 .. Never,
          targets \in SUBSET (IF KnownTargets THEN Present ELSE Users) :
          /\ msg[m].scope = "unused"
          /\ \A q \in Requests : req[q].op = "send" => m \notin req[q].msgs
          /\ Start(r, "send", IF targets = {} THEN Users ELSE targets, {m},
                   [scope |-> IF targets = {} THEN "all" ELSE "targeted",
                    published |-> 0, expired |-> expired])
    /\ UNCHANGED <<now, user, msg, receipt, row>>

\* Read, Delete and ReadAll, of a user's own inbox, and DeleteSent.
Edit(r) ==
    /\ req[r].pc = "idle"
    /\ \/ \E u \in Present, m \in Messages, op \in {"read", "delete"} :
             /\ msg[m].scope \in {"all", "targeted"}
             /\ Start(r, op, {u}, {m}, NoMessage("unused"))
       \/ \E u \in Present :
             Start(r, "readAll", {u}, Messages, NoMessage("unused"))
       \/ \E m \in Messages :
             /\ msg[m].scope \in {"all", "targeted"}
             /\ Start(r, "unsend", Users, {m}, NoMessage("unused"))
    /\ UNCHANGED <<now, user, msg, receipt, row>>
-----------------------------------------------------------------------------
(* statusTx.                                                                *)

\* Mutant: every transaction shares the gate.
GateShared(r) ==
    /\ req[r].pc = "waiting"
    /\ req' = [req EXCEPT ![r].pc = "locking"]
    /\ UNCHANGED <<now, user, msg, receipt, row>>

Gate(r) ==
    /\ req[r].pc = "waiting"
    /\ \A q \in Requests \ {r} :
          Inside(q) => ~Exclusive(q) /\ ~Exclusive(r)
    /\ req' = [req EXCEPT ![r].pc = "locking"]
    /\ UNCHANGED <<now, user, msg, receipt, row>>

Locked(r) == UNION {req[q].held : q \in Requests \ {r}}

\* Mutant: the status rows are read without FOR UPDATE.
LockNothing(r) ==
    /\ req[r].pc = "locking"
    /\ LET held == req[r].users \cap Present
       IN  req' = [req EXCEPT ![r].held = held,
                ![r].rows = [u \in Users |->
                    IF u \notin held THEN NoRow
                    ELSE IF u \in Stored THEN row[u] ELSE FreshRow],
                ![r].pc = IF req[r].op \in {"status", "sweep", "send"}
                          THEN "refreshing" ELSE "changing"]
    /\ UNCHANGED <<now, user, msg, receipt, row>>

\* Missing rows are initialized, then all rows are locked in the order of the
\* users, so that waiting for one another cannot go round in a circle.
Lock(r) ==
    /\ req[r].pc = "locking"
    /\ LET held == req[r].users \cap Present
       IN  /\ held \cap Locked(r) = {}
           /\ req' = [req EXCEPT ![r].held = held,
                ![r].rows = [u \in Users |->
                    IF u \notin held THEN NoRow
                    ELSE IF u \in Stored THEN row[u] ELSE FreshRow],
                ![r].pc = IF req[r].op \in {"status", "sweep", "send"}
                          THEN "refreshing" ELSE "changing"]
    /\ UNCHANGED <<now, user, msg, receipt, row>>

\* Mutant: a newly initialized row is not taken for a due one.
RefreshOverdue(r) ==
    /\ req[r].pc = "refreshing"
    /\ req' = [req EXCEPT
          ![r].rows = [u \in Users |->
              IF u \in req[r].held /\ @[u].due \in 1 .. now THEN Recomputed(r, u) ELSE @[u]],
          ![r].pc = CASE req[r].op = "status" -> "rereading"
                      [] req[r].op = "sweep"  -> "committing"
                      [] OTHER                -> "publishing"]
    /\ UNCHANGED <<now, user, msg, receipt, row>>

\* refreshStatus, only for rows that are still due.
RefreshDue(r) ==
    /\ req[r].pc = "refreshing"
    /\ req' = [req EXCEPT
          ![r].rows = [u \in Users |->
              IF u \in req[r].held /\ @[u].due <= now THEN Recomputed(r, u) ELSE @[u]],
          ![r].pc = CASE req[r].op = "status" -> "rereading"
                      [] req[r].op = "sweep"  -> "committing"
                      [] OTHER                -> "publishing"]
    /\ UNCHANGED <<now, user, msg, receipt, row>>

\* Status reads the row once more, and no longer asks whether it is due.
Reread(r) ==
    /\ req[r].pc = "rereading"
    /\ IF req[r].held = {}
       THEN Leave(r)
       ELSE req' = [req EXCEPT ![r].pc = "committing"]
    /\ UNCHANGED <<now, user, msg, receipt, row>>

\* INSERT INTO t_msg, unless the message has expired meanwhile.
Publish(r) ==
    /\ req[r].pc = "publishing"
    /\ IF req[r].draft.expired <= now
       THEN Leave(r)
       ELSE req' = [req EXCEPT ![r].pc = "delivering", ![r].changed = req[r].msgs,
                               ![r].draft.published = now]
    /\ UNCHANGED <<now, user, msg, receipt, row>>

Counted(old, sent) ==
    [count  |-> old.count + 1,
     latest |-> Latest({old.latest, sent.published}),
     due    |-> Earliest({old.due, sent.expired})]

\* A broadcast is not for those who registered after it.
Counts(r, u) ==
    req[r].draft.scope = "targeted" \/ user[u].created <= req[r].draft.published

\* INSERT INTO t_msg_recipient, which must find every user, and addStatus,
\* which waits for the rows it has not locked before.
Deliver(r) ==
    /\ req[r].pc = "delivering"
    /\ IF req[r].draft.scope = "targeted" /\ ~(req[r].users \subseteq Present)
       THEN Leave(r)
       ELSE LET late == (req[r].users \cap Present \cap Stored) \ req[r].held
                held == req[r].held \cup late
                base == [u \in Users |-> IF u \in late THEN row[u] ELSE req[r].rows[u]]
            IN  /\ late \cap Locked(r) = {}
                /\ req' = [req EXCEPT ![r].pc = "committing", ![r].held = held,
                      ![r].rows = [u \in Users |->
                          IF u \notin held THEN NoRow
                          ELSE IF Counts(r, u) THEN Counted(base[u], req[r].draft)
                          ELSE base[u]]]
    /\ UNCHANGED <<now, user, msg, receipt, row>>

\* What the statement of Read, Delete, ReadAll or DeleteSent touches.
Touched(r) ==
    LET mine == CHOOSE u \in req[r].users : TRUE
        visible == Visible(msg, receipt[mine], user[mine].created, now) \cap req[r].msgs
    IN  CASE req[r].op = "unsend"  -> {m \in req[r].msgs : msg[m].scope \in {"all", "targeted"}}
          [] req[r].op = "delete"  -> visible
          [] req[r].op = "read"    -> {m \in visible : receipt[mine][m] # "deleted"}
          [] req[r].op = "readAll" -> {m \in visible : receipt[mine][m] \in {"none", "unread"}}

Change(r) ==
    /\ req[r].pc = "changing"
    /\ IF \/ req[r].op # "unsend" /\ req[r].held = {}
          \/ req[r].op # "readAll" /\ Touched(r) = {}
       THEN Leave(r)
       ELSE req' = [req EXCEPT ![r].pc = "recounting", ![r].changed = Touched(r)]
    /\ UNCHANGED <<now, user, msg, receipt, row>>

\* refreshStatus, for every row that is locked.
Recount(r) ==
    /\ req[r].pc = "recounting"
    /\ req' = [req EXCEPT ![r].pc = "committing",
          ![r].rows = [u \in Users |->
              IF u \in req[r].held THEN Recomputed(r, u) ELSE NoRow]]
    /\ UNCHANGED <<now, user, msg, receipt, row>>

Commit(r) ==
    /\ req[r].pc = "committing"
    /\ msg' = MsgSeen(r)
    /\ receipt' = [u \in Users |-> ReceiptSeen(r, u)]
    /\ row' = [u \in Users |-> IF u \in req[r].held THEN req[r].rows[u] ELSE row[u]]
    /\ Leave(r)
    /\ UNCHANGED <<now, user>>

\* A failing statement, a deadlock victim, a crash: nothing is committed.
Abort(r) ==
    /\ req[r].pc # "idle"
    /\ Leave(r)
    /\ UNCHANGED <<now, user, msg, receipt, row>>
-----------------------------------------------------------------------------
(* Accounts and time.                                                       *)

\* A registration takes its time from its INSERT and commits later.
RegisterUser(u) ==
    /\ \/ /\ user[u].state = "unknown"
          /\ user' = [user EXCEPT ![u] = [state |-> "inserted", created |-> now]]
       \/ /\ user[u].state = "inserted"
          /\ user' = [user EXCEPT ![u].state = "present"]
    /\ UNCHANGED <<now, msg, receipt, row, req>>

\* The deletion cascades to the status row, and waits for its lock.
DeleteUser(u) ==
    /\ user[u].state = "present"
    /\ \A r \in Requests : u \notin req[r].held
    /\ user' = [user EXCEPT ![u].state = "deleted"]
    /\ row' = [row EXCEPT ![u] = NoRow]
    /\ receipt' = [receipt EXCEPT ![u] = [m \in Messages |-> "none"]]
    /\ UNCHANGED <<now, msg, req>>

Tick ==
    /\ now < MaxTime
    /\ now' = now + 1
    /\ UNCHANGED <<user, msg, receipt, row, req>>

Step ==
    \/ Tick
    \/ \E u \in Users : RegisterUser(u) \/ DeleteUser(u)
    \/ \E r \in Requests :
          \/ Poll(r)
          \/ Sweep(r)
          \/ Send(r)
          \/ Edit(r)
          \/ Gate(r)
          \/ Lock(r)
          \/ RefreshDue(r)
          \/ Reread(r)
          \/ Publish(r)
          \/ Deliver(r)
          \/ Change(r)
          \/ Recount(r)
          \/ Commit(r)
          \/ Abort(r)

Watch ==
    truths' = [r \in Requests |->
        IF req'[r].op = "status"
        THEN truths[r] \cup {Shown(Truth(u))' : u \in req'[r].users} ELSE {}]

Next == Step /\ Watch

Spec == Init /\ [][Next]_vars
-----------------------------------------------------------------------------
(* What must hold.                                                          *)

\* Until its deadline a committed status row says exactly how many messages its
\* user has not read and when the latest of them was published: no send, read,
\* deletion, registration or mere passing of time falls between the gate, the
\* row locks and the deadline.
StatusIsAccurate ==
    \A u \in Stored : now < row[u].due => row[u] = Truth(u)

\* What a Status request answers with after repairing the row was right at
\* some moment while the request ran.
AnswerWasTrue ==
    \A r \in Requests :
        req[r].pc = "rereading" =>
            \A u \in req[r].held : Shown(req[r].rows[u]) \in truths[r]

\* Messages that somebody may see, and ids that have been given away.
Scopes == {"all", "targeted"}
Used == {m \in Messages : msg[m].scope # "unused"}

Edits == {"read", "readAll", "delete", "unsend"}

\* The request has its row locks.
PastLock(r) == req[r].pc \notin {"idle", "waiting", "locking"}

\* A row and a receipt are of somebody who exists and of something that was sent,
\* and no message expires before it is published.
TablesOK ==
    /\ Stored \subseteq Present
    /\ \A m \in Messages :
          msg[m].scope \in Scopes => msg[m].published < msg[m].expired
    /\ \A u \in Users, m \in Messages \ Used : receipt[u][m] = "none"
    /\ \A u \in Stored : row[u].count <= Cardinality(Used)

\* Where a request is says which operation it runs, and it has locked rows only
\* of users it is about.
StageOK(r) ==
    /\ ~PastLock(r) => req[r].held = {} /\ req[r].changed = {}
    /\ req[r].pc # "idle" => req[r].op # "none"
    /\ req[r].pc = "refreshing" => req[r].op \in {"status", "sweep", "send"}
    /\ req[r].pc = "rereading" => req[r].op = "status"
    /\ req[r].pc \in {"publishing", "delivering"} => req[r].op = "send"
    /\ req[r].pc \in {"changing", "recounting"} => req[r].op \in Edits
    /\ req[r].held \subseteq req[r].users \cap Present
    /\ \A u \in req[r].held :
          /\ req[r].rows[u] # NoRow
          /\ req[r].rows[u].count <=
                Cardinality(IF req[r].pc = "committing" THEN Used \cup req[r].changed
                            ELSE Used)

\* What a request is going to change: a message of its own, or messages that are
\* there and nobody else can remove meanwhile.
ChangesOK(r) ==
    /\ req[r].op = "send" =>
          /\ req[r].draft.scope \in Scopes
          /\ req[r].draft.scope = "all" => req[r].users = Users
          /\ \E m \in Messages \ Used : req[r].msgs = {m}
          /\ req[r].pc \in {"delivering", "committing"} =>
                /\ req[r].changed = req[r].msgs
                /\ req[r].draft.published <= now
                /\ req[r].draft.published < req[r].draft.expired
          /\ req[r].pc \notin {"delivering", "committing"} => req[r].changed = {}
    /\ req[r].op # "send" => req[r].draft.scope = "unused"
    /\ req[r].op = "unsend" => req[r].users = Users
    /\ req[r].op \in Edits => req[r].changed \subseteq {m \in Messages : msg[m].scope \in Scopes}
    /\ req[r].op \notin Edits \cup {"send"} => req[r].changed = {}

\* A transaction has locked every row that its changes concern.
LocksOK(r) ==
    /\ Exclusive(r) /\ PastLock(r) => Stored \subseteq req[r].held
    /\ req[r].op \in Edits \ {"unsend"} =>
          /\ \E u \in Users : req[r].users = {u}
          /\ req[r].pc \in {"recounting", "committing"} => req[r].held = req[r].users
    /\ KnownTargets /\ req[r].draft.scope = "targeted" =>
          /\ \A u \in req[r].users : user[u].state \in {"present", "deleted"}
          /\ PastLock(r) => req[r].users \cap Present \subseteq req[r].held
          /\ req[r].pc = "committing" => req[r].users \subseteq req[r].held

\* The rows it is going to write are accurate until their deadline, first for what
\* is committed, and in the end for what it commits.
RowsOK(r) ==
    \A u \in req[r].held :
        now < req[r].rows[u].due =>
            /\ req[r].pc \in {"refreshing", "rereading", "publishing", "delivering"} =>
                  req[r].rows[u] = Truth(u)
            /\ req[r].pc = "committing" => req[r].rows[u] = Recomputed(r, u)

\* Row locks exclude one another, the exclusive gate everybody, and an id is given
\* to one message.
Apart(q, r) ==
    /\ req[q].held \cap req[r].held = {}
    /\ Inside(q) /\ Inside(r) => ~Exclusive(q)
    /\ req[q].op = "send" /\ req[r].op = "send" => req[q].msgs \cap req[r].msgs = {}

\* The inductive invariant.
Inv ==
    /\ TypeOK
    /\ TablesOK
    /\ \A q, r \in Requests : q # r => Apart(q, r)
    /\ \A r \in Requests : StageOK(r) /\ ChangesOK(r) /\ LocksOK(r)
    /\ KnownTargets =>
          /\ StatusIsAccurate
          /\ \A r \in Requests : RowsOK(r)
          /\ AnswerWasTrue
=============================================================================
