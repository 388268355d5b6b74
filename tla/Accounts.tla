------------------------------ MODULE Accounts ------------------------------
(***************************************************************************)
(* One account: its row in t_user, the sessions opened for it, and the     *)
(* requests and administrators that read and change both.                  *)
(*                                                                         *)
(* The sessions live in a store the database transaction does not cover,   *)
(* so what a session is worth is decided by comparing the identity it      *)
(* carries, credential version included, with the row.  Every query and    *)
(* every store call is a step of its own; a statement that writes the row  *)
(* waits for the transaction that holds it.  Rotation is left to the       *)
(* module Sessions: here a session is live or gone.                        *)
(***************************************************************************)
EXTENDS Naturals

CONSTANTS
    Requests,       \* the requests in flight at once
    Slots,          \* session ids: a bound on the sessions ever opened
    Passwords,
    Names,          \* user names the account may carry
    MaxVersion,     \* a bound on credential_version
    None            \* no request, session id, password or name

ASSUME AccountConfig ==
    /\ MaxVersion \in Nat \ {0}
    /\ None \notin Requests \cup Slots \cup Passwords \cup Names
    /\ "keep" \notin Passwords

VARIABLES
    row,            \* the account's row
    sessions,       \* sessions[s]: what is stored under session id s
    req,            \* req[r]: where request r is and what it has read
    holder          \* the request whose transaction holds the row

vars == <<row, sessions, req, holder>>

Status == {"pending", "active", "locked"}

\* metadata.lock_expired_at: absent, zero, in the future, in the past.
Lock == {"none", "forever", "running", "over"}

Identity == [version : 1 .. MaxVersion, name : Names]

Blank == [version |-> 1, name |-> None]

\* firstLogin: login_count = 0.  origin is history: the password is the one the
\* account was created with or an administrator set, or the user changed it.
Row == [present : BOOLEAN, status : Status, lock : Lock, identity : Identity,
        password : Passwords, firstLogin : BOOLEAN,
        origin : {"issued", "changed"}]

\* password and given are history: what the session was opened with, and
\* whether its token was ever handed out.
Session == [state : {"free", "live", "gone"},
            identity : Identity \cup {Blank}, password : Passwords \cup {None},
            given : BOOLEAN]

Steps == {"idle", "unlocking", "verifying", "completing", "withdrawing",
          "refreshing", "reviving", "revoking", "identifying", "changing",
          "resetting", "locking", "issuing", "committing"}

\* overdue is history: the lock that the request read had run out.
Request == [pc : Steps, session : Slots \cup {None},
            identity : Identity \cup {Blank}, password : Passwords \cup {None},
            overdue : BOOLEAN]

Holding == {"issuing", "committing"}

TypeOK ==
    /\ row \in Row
    /\ sessions \in [Slots -> Session]
    /\ req \in [Requests -> Request]
    /\ holder \in Requests \cup {None}
    /\ \A r \in Requests : req[r].pc \in Holding <=> holder = r

Idle == [pc |-> "idle", session |-> None, identity |-> Blank,
         password |-> None, overdue |-> FALSE]

Unused == [state |-> "free", identity |-> Blank, password |-> None,
           given |-> FALSE]

\* A registration or an administrator's Create.
Init ==
    /\ \E status \in {"pending", "active"}, password \in Passwords, name \in Names :
          row = [present |-> TRUE, status |-> status, lock |-> "none",
                 identity |-> [version |-> 1, name |-> name],
                 password |-> password, firstLogin |-> TRUE,
                 origin |-> "issued"]
    /\ sessions = [s \in Slots |-> Unused]
    /\ req = [r \in Requests |-> Idle]
    /\ holder = None

-----------------------------------------------------------------------------
(* What the statements do.                                                  *)

Writable == row.present /\ holder = None

Goto(r, pc) == req' = [req EXCEPT ![r].pc = pc]

\* What is left to do needs the session id only.
EndSession(r, pc) ==
    req' = [req EXCEPT ![r] = [Idle EXCEPT !.pc = pc, !.session = req[r].session]]

Leave(r) == req' = [req EXCEPT ![r] = Idle]

\* unlockExpiredUser's WHERE clause.
LockIsOver == row.present /\ row.status = "locked" /\ row.lock = "over"

\* One statement for all: the first request to run it finds the row locked,
\* the others change nothing and learn that they changed nothing.
UnlockExpiredUser(unlocked, refused) ==
    /\ row.present => holder = None
    /\ IF LockIsOver
       THEN /\ row' = [row EXCEPT !.status = "active", !.lock = "none"]
            /\ unlocked
       ELSE refused /\ UNCHANGED row

\* Issue: a session under an id never used before.
Open(s, identity, password) ==
    /\ sessions[s].state = "free"
    /\ sessions' = [sessions EXCEPT ![s] = [state |-> "live",
                        identity |-> identity, password |-> password,
                        given |-> FALSE]]

Live(s) == sessions[s].state = "live"

Gone == [Unused EXCEPT !.state = "gone", !.given = TRUE]

Close(s) == sessions' = [sessions EXCEPT ![s] = Gone]

HandOut(s) == sessions' = [sessions EXCEPT ![s].given = TRUE]

\* A client holds the tokens of the sessions that were handed out.
Presented(s) == Live(s) /\ sessions[s].given

-----------------------------------------------------------------------------
(* Login.                                                                   *)

\* The row as one query finds it.  A wrong password only counts towards the
\* captcha that the next login needs, so the typed password is the right one.
LoginRead(r) ==
    /\ req[r].pc = "idle"
    /\ row.present
    /\ row.status # "pending"
    /\ req' = [req EXCEPT ![r] = [Idle EXCEPT
                  !.pc = IF row.status = "locked" THEN "unlocking" ELSE "verifying",
                  !.identity = row.identity,
                  !.password = row.password]]
    /\ UNCHANGED <<row, sessions, holder>>

LoginUnlock(r) ==
    /\ req[r].pc = "unlocking"
    /\ UnlockExpiredUser(Goto(r, "verifying"), Leave(r))
    /\ UNCHANGED <<sessions, holder>>

\* The captcha and the password that was read hold, and the session is stored
\* before the row is written.
LoginVerify(r) ==
    /\ req[r].pc = "verifying"
    /\ \E s \in Slots :
          /\ Open(s, req[r].identity, req[r].password)
          /\ req' = [req EXCEPT ![r].pc = "completing", ![r].session = s,
                                ![r].password = None]
    /\ UNCHANGED <<row, holder>>

\* The UPDATE that counts the login matches only the version that was read,
\* and never turns a zero login_count into one.  No match, or a failing
\* statement, withdraws the session.
LoginComplete(r) ==
    /\ req[r].pc = "completing"
    /\ row.present => holder = None
    /\ \/ /\ row.present
          /\ row.identity.version = req[r].identity.version
          /\ row.status = "active"
          /\ HandOut(req[r].session)
          /\ Leave(r)
       \/ EndSession(r, "withdrawing") /\ UNCHANGED sessions
    /\ UNCHANGED <<row, holder>>

\* The session of a login or a reset that failed after storing it.
Withdraw(r) ==
    /\ req[r].pc = "withdrawing"
    /\ Close(req[r].session)
    /\ Leave(r)
    /\ UNCHANGED <<row, holder>>

-----------------------------------------------------------------------------
(* Refresh.                                                                 *)

RefreshRead(r) ==
    /\ req[r].pc = "idle"
    /\ \E s \in Slots :
          /\ Presented(s)
          /\ req' = [req EXCEPT ![r].pc = "refreshing", ![r].session = s,
                                ![r].identity = sessions[s].identity]
    /\ UNCHANGED <<row, sessions, holder>>

\* currentCredentialIdentity, then the status it read.  Renew then answers for
\* the record as it is: nothing is upgraded, and nothing changes here.
RefreshCheck(r) ==
    /\ req[r].pc = "refreshing"
    /\ \/ /\ ~row.present \/ row.identity # req[r].identity \/ row.status = "pending"
          /\ EndSession(r, "revoking")
       \/ /\ row.present /\ row.identity = req[r].identity
          /\ \/ row.status = "active" /\ Leave(r)
             \/ /\ row.status = "locked"
                /\ req' = [req EXCEPT ![r].pc = "reviving", ![r].overdue = LockIsOver]
    /\ UNCHANGED <<row, sessions, holder>>

RefreshUnlock(r) ==
    /\ req[r].pc = "reviving"
    /\ UnlockExpiredUser(Leave(r), EndSession(r, "revoking"))
    /\ UNCHANGED <<sessions, holder>>

RefreshRevoke(r) ==
    /\ req[r].pc = "revoking"
    /\ Close(req[r].session)
    /\ Leave(r)
    /\ UNCHANGED <<row, holder>>

\* Logout: any token of the session ends it.
Logout ==
    /\ \E s \in Slots : sessions[s].given /\ Close(s)
    /\ UNCHANGED <<row, req, holder>>

-----------------------------------------------------------------------------
(* Requests that carry an access token.                                     *)

\* ResolveIdentity reads the session first ...
Authenticate(r) ==
    /\ req[r].pc = "idle"
    /\ \E s \in Slots :
          /\ Presented(s)
          /\ req' = [req EXCEPT ![r].pc = "identifying", ![r].session = s,
                                ![r].identity = sessions[s].identity]
    /\ UNCHANGED <<row, sessions, holder>>

\* Mutant: the restriction of a first login is not looked at.
ResolveUnrestricted(r) ==
    /\ req[r].pc = "identifying"
    /\ row.present /\ row.identity = req[r].identity /\ row.status = "active"
    /\ \E next \in {"changing", "resetting"} : Goto(r, next)
    /\ UNCHANGED <<row, sessions, holder>>

\* ... and then the row.  ChangePassword turns a first login away on the
\* strength of this read, long before its own transaction.
ResolveIdentity(r) ==
    /\ req[r].pc = "identifying"
    /\ IF row.present /\ row.identity = req[r].identity /\ row.status = "active"
       THEN \/ ~row.firstLogin /\ Goto(r, "changing")
            \/ Goto(r, "resetting")
       ELSE Leave(r)
    /\ UNCHANGED <<row, sessions, holder>>

\* ChangePassword's transaction: lock, compare the version and the current
\* password, write.  The user's other sessions end with the old version.
ChangePassword(r) ==
    /\ req[r].pc = "changing"
    /\ row.present => holder = None
    /\ \/ /\ row.present
          /\ row.identity.version = req[r].identity.version
          /\ row.identity.version < MaxVersion
          /\ \E new \in Passwords \ {row.password} :
                row' = [row EXCEPT !.password = new, !.identity.version = @ + 1,
                                   !.origin = "changed"]
       \/ UNCHANGED row
    /\ Leave(r)
    /\ UNCHANGED <<sessions, holder>>

\* ResetPassword reads the session again for its remember flag.
ResetRead(r) ==
    /\ req[r].pc = "resetting"
    /\ IF Live(req[r].session) THEN Goto(r, "locking") ELSE Leave(r)
    /\ UNCHANGED <<row, sessions, holder>>

ResetLock(r) ==
    /\ req[r].pc = "locking"
    /\ row.present => holder = None
    /\ \/ /\ row.present
          /\ row.identity.version = req[r].identity.version
          /\ row.identity.version < MaxVersion
          /\ row.status = "active"
          /\ row.firstLogin
          /\ \E new \in Passwords \ {row.password} :
                req' = [req EXCEPT ![r].pc = "issuing", ![r].password = new,
                                   ![r].session = None]
          /\ holder' = r
       \/ Leave(r) /\ UNCHANGED holder
    /\ UNCHANGED <<row, sessions>>

\* The new session is stored inside the transaction, under the version that
\* the row will have once it commits.
ResetIssue(r) ==
    /\ req[r].pc = "issuing"
    /\ \E s \in Slots :
          /\ Open(s, [req[r].identity EXCEPT !.version = @ + 1], req[r].password)
          /\ req' = [req EXCEPT ![r].pc = "committing", ![r].session = s]
    /\ UNCHANGED <<row, holder>>

ResetWrites(r) ==
    /\ req[r].pc = "committing"
    /\ row' = [row EXCEPT !.password = req[r].password,
                          !.identity.version = @ + 1,
                          !.firstLogin = FALSE, !.origin = "changed"]
    /\ holder' = None

ResetCommit(r) ==
    /\ ResetWrites(r)
    /\ HandOut(req[r].session)
    /\ Leave(r)

\* The database committed and its answer was lost.
ResetUnacknowledged(r) ==
    /\ ResetWrites(r)
    /\ EndSession(r, "withdrawing")
    /\ UNCHANGED sessions

\* Mutant: the answer prepared inside the transaction is sent all the same.
ResetRollbackAnswers(r) ==
    /\ req[r].pc = "committing"
    /\ HandOut(req[r].session)
    /\ Leave(r)
    /\ holder' = None
    /\ UNCHANGED row

\* The session could not be stored or its token not signed, or the database
\* refused the commit.
ResetRollback(r) ==
    /\ req[r].pc \in Holding
    /\ IF req[r].pc = "committing" THEN EndSession(r, "withdrawing") ELSE Leave(r)
    /\ holder' = None
    /\ UNCHANGED <<row, sessions>>

\* Mutant: a transaction that ends by a panic keeps its connection.
AbortHolding(r) ==
    /\ req[r].pc # "idle"
    /\ Leave(r)
    /\ UNCHANGED <<row, sessions, holder>>

\* The process stops, a call fails or the context ends: the request is over,
\* its transaction is rolled back, and a session it stored stays stored.
Abort(r) ==
    /\ req[r].pc # "idle"
    /\ Leave(r)
    /\ holder' = IF holder = r THEN None ELSE holder
    /\ UNCHANGED <<row, sessions>>

-----------------------------------------------------------------------------
(* Administrators, and time.                                                *)

\* The metadata expression of the UPDATE that user.Update assembles: lock is
\* the lock_expired_at of the input, which counts only beside a locked status.
LockColumn(status, lock, metadata) ==
    IF metadata
    THEN CASE status = "keep"   -> row.lock
           [] status = "locked" -> lock
           [] OTHER             -> "none"
    ELSE IF status \in {"keep", "locked"} THEN row.lock ELSE "none"

\* Any combination of fields in one statement; a locked status needs metadata.
AdminUpdate ==
    /\ Writable
    /\ \E status \in Status \cup {"keep"}, lock \in {"forever", "running"},
          metadata \in BOOLEAN, password \in Passwords \cup {"keep"},
          name \in Names :
          /\ status = "locked" => metadata
          /\ password # "keep" => row.identity.version < MaxVersion
          /\ row' = [row EXCEPT
                !.status = IF status = "keep" THEN @ ELSE status,
                !.lock = LockColumn(status, lock, metadata),
                !.identity = [version |-> IF password = "keep" THEN @.version
                                          ELSE @.version + 1,
                              name |-> name],
                !.password = IF password = "keep" THEN @ ELSE password,
                !.firstLogin = @ \/ password # "keep",
                !.origin = IF password = "keep" THEN @ ELSE "issued"]
    /\ UNCHANGED <<sessions, req, holder>>

\* Deleting the row leaves the sessions in their store.
AdminDelete ==
    /\ Writable
    /\ row' = [row EXCEPT !.present = FALSE]
    /\ UNCHANGED <<sessions, req, holder>>

LockExpires ==
    /\ row.lock = "running"
    /\ row' = [row EXCEPT !.lock = "over"]
    /\ UNCHANGED <<sessions, req, holder>>

SessionExpires ==
    /\ \E s \in Slots : Live(s) /\ Close(s)
    /\ UNCHANGED <<row, req, holder>>

Next ==
    \/ AdminUpdate
    \/ AdminDelete
    \/ LockExpires
    \/ SessionExpires
    \/ Logout
    \/ \E r \in Requests :
          \/ LoginRead(r)
          \/ LoginUnlock(r)
          \/ LoginVerify(r)
          \/ LoginComplete(r)
          \/ Withdraw(r)
          \/ RefreshRead(r)
          \/ RefreshCheck(r)
          \/ RefreshUnlock(r)
          \/ RefreshRevoke(r)
          \/ Authenticate(r)
          \/ ResolveIdentity(r)
          \/ ChangePassword(r)
          \/ ResetRead(r)
          \/ ResetLock(r)
          \/ ResetIssue(r)
          \/ ResetCommit(r)
          \/ ResetUnacknowledged(r)
          \/ ResetRollback(r)
          \/ Abort(r)

Spec == Init /\ [][Next]_vars
-----------------------------------------------------------------------------
(* What must hold.                                                          *)

\* Whoever holds a token that the row still accepts showed, or chose, the
\* password now in force: a login that read the row before a change of
\* password, or a reset that was rolled back, leaves no usable token.
HoldersKnowPassword ==
    \A s \in Slots :
        Presented(s) /\ sessions[s].identity.version = row.identity.version =>
            sessions[s].password = row.password

\* login_count is zero exactly while the password in force is one the user has
\* not changed: no login, refresh or change of password lifts the restriction,
\* and no account that changed its own password is left under it.
FirstLoginUntilOwnPassword == row.firstLogin <=> row.origin = "issued"

\* A password that was good for this version of the credentials still is, unless
\* the row has moved on to a later version.
Good(identity, password) ==
    /\ identity.version <= row.identity.version
    /\ identity.version = row.identity.version => password = row.password

\* A live session says whose it is; one that was handed out is good for the row.
SessionOK(s) ==
    Live(s) =>
        /\ sessions[s].identity \in Identity
        /\ sessions[s].password \in Passwords
        /\ sessions[s].given => Good(sessions[s].identity, sessions[s].password)

\* Whoever goes on with what it has read has read somebody.
ReadOK(r) ==
    /\ req[r].pc \notin {"idle", "revoking", "withdrawing"} => req[r].identity \in Identity
    /\ req[r].pc \in {"unlocking", "verifying"} \cup Holding => req[r].password \in Passwords
    /\ req[r].pc \in {"completing", "committing"} =>
           /\ req[r].session \in Slots
           /\ sessions[req[r].session].state # "free"

\* A login holds what was good when it read the row, and its session is for that.
LoginOK(r) ==
    LET s == req[r].session IN
    /\ req[r].pc \in {"unlocking", "verifying"} => Good(req[r].identity, req[r].password)
    /\ req[r].pc = "completing" /\ Live(s) =>
           /\ sessions[s].identity = req[r].identity
           /\ Good(req[r].identity, sessions[s].password)

\* The session of a reset is for the version and the password it will commit.
ResetOK(r) ==
    LET s == req[r].session IN
    /\ req[r].pc \in Holding =>
           /\ req[r].identity.version = row.identity.version
           /\ req[r].identity.version < MaxVersion
    /\ req[r].pc = "committing" /\ Live(s) =>
           /\ sessions[s].identity.version = row.identity.version + 1
           /\ sessions[s].password = req[r].password

\* What ChangePassword was told about first logins holds for the version it will
\* compare.
ChangeOK(r) ==
    req[r].pc = "changing" =>
        /\ req[r].identity.version <= row.identity.version
        /\ req[r].identity.version = row.identity.version => ~row.firstLogin

\* Inductive: from it follows HoldersKnowPassword.
Inv ==
    /\ TypeOK
    /\ FirstLoginUntilOwnPassword
    /\ \A s \in Slots : SessionOK(s)
    /\ \A r \in Requests : ReadOK(r) /\ LoginOK(r) /\ ResetOK(r) /\ ChangeOK(r)

\* user.go: an expired lock counts as active, and authentication persists
\* that.  A refresh that finds the lock expired and then finds it lifted does
\* not end the session of an account that is active.
ActiveIsNotRevoked ==
    [][\A r \in Requests :
          /\ req[r].pc = "reviving"
          /\ req[r].overdue
          /\ req'[r].pc = "revoking"
          => ~(row.present /\ row.status = "active")]_vars
=============================================================================
