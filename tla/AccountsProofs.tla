---------------------------- MODULE AccountsProofs ----------------------------
(***************************************************************************)
(* Theorems about Accounts, for every set of requests, session ids, names  *)
(* and passwords and every bound on the credential version.                *)
(***************************************************************************)
EXTENDS Accounts, TLAPS

RequestOK(r) == ReadOK(r) /\ LoginOK(r) /\ ResetOK(r) /\ ChangeOK(r)

HolderOK ==
    /\ holder \in Requests \cup {None}
    /\ \A r \in Requests : req[r].pc \in Holding <=> holder = r

\* Sessions that exist stay what they are, end, or are handed out.
SessionsKept ==
    \A s \in Slots :
        sessions[s].state # "free" =>
            /\ sessions'[s].state # "free"
            /\ Live(s)' => /\ Live(s)
                           /\ sessions'[s].identity = sessions[s].identity
                           /\ sessions'[s].password = sessions[s].password

\* The credentials in force stay, or make room for those of a later version.
Unchanging ==
    /\ row'.identity.version = row.identity.version
    /\ row'.password = row.password
    /\ row'.firstLogin => row.firstLogin

Overtaking == row'.identity.version > row.identity.version

LEMMA InvParts ==
    Inv <=> /\ row \in Row
            /\ sessions \in [Slots -> Session]
            /\ req \in [Requests -> Request]
            /\ HolderOK
            /\ FirstLoginUntilOwnPassword
            /\ \A s \in Slots : SessionOK(s)
            /\ \A r \in Requests : RequestOK(r)
  BY DEF Inv, TypeOK, HolderOK, RequestOK

LEMMA RequestsTyped ==
    ASSUME Inv, NEW r \in Requests
    PROVE  req \in [Requests -> Request] /\ req[r] \in Request
  BY InvParts

\* A request that is told something: the others are told nothing.
LEMMA Telling ==
    ASSUME NEW r \in Requests, req \in [Requests -> Request], NEW told \in Request,
           req' = [req EXCEPT ![r] = told]
    PROVE  /\ req' \in [Requests -> Request]
           /\ \A q \in Requests \ {r} : req'[q] = req[q]
           /\ req'[r] = told
  OBVIOUS

\* A version is a number.
LEMMA VersionsAreNumbers ==
    ASSUME NEW identity \in Identity \cup {Blank}
    PROVE  identity.version \in 1 .. MaxVersion /\ identity.version \in Nat
  BY AccountConfig DEF Identity, Blank

LEMMA RowTyped ==
    ASSUME Inv
    PROVE  /\ row.identity \in Identity /\ row.password \in Passwords
           /\ row.identity.version \in 1 .. MaxVersion /\ row.identity.version \in Nat
           /\ row.present \in BOOLEAN /\ row.firstLogin \in BOOLEAN
           /\ row.status \in Status /\ row.lock \in Lock
  BY InvParts, AccountConfig DEF Row, Identity

\* A password that was good stays so.
LEMMA GoodStays ==
    ASSUME Inv, row' \in Row, Unchanging \/ Overtaking
    PROVE  \A identity \in Identity, password \in Passwords :
               Good(identity, password) =>
                   /\ identity.version <= row'.identity.version
                   /\ identity.version = row'.identity.version => password = row'.password
<1> SUFFICES ASSUME NEW identity \in Identity, NEW password \in Passwords,
                    Good(identity, password)
             PROVE  /\ identity.version <= row'.identity.version
                    /\ identity.version = row'.identity.version => password = row'.password
  OBVIOUS
<1>1. identity.version \in Nat
  BY VersionsAreNumbers
<1>2. row'.identity.version \in Nat
  BY VersionsAreNumbers DEF Row
<1> QED  BY <1>1, <1>2, RowTyped DEF Good, Unchanging, Overtaking

\* A session that is not handed out by a step stays in order.
LEMMA SessionStays ==
    ASSUME Inv, NEW s \in Slots, SessionsKept, sessions[s].state # "free",
           sessions'[s].given = sessions[s].given,
           row' \in Row, Unchanging \/ Overtaking
    PROVE  SessionOK(s)'
<1>1. CASE ~Live(s)'
  BY <1>1 DEF SessionOK
<1>2. CASE Live(s)'
  <2>1. Live(s) /\ sessions'[s].identity = sessions[s].identity
        /\ sessions'[s].password = sessions[s].password
    BY <1>2 DEF SessionsKept
  <2>2. /\ sessions[s].identity \in Identity /\ sessions[s].password \in Passwords
        /\ sessions[s].given => Good(sessions[s].identity, sessions[s].password)
    BY <2>1, InvParts DEF SessionOK
  <2> QED  BY <2>1, <2>2, GoodStays DEF SessionOK, Good
<1> QED  BY <1>1, <1>2

\* A request that waits meanwhile stays in order too.
LEMMA RequestStays ==
    ASSUME Inv, NEW q \in Requests, req'[q] = req[q], SessionsKept,
           row' \in Row, Unchanging \/ Overtaking,
           req[q].pc \in Holding => row'.identity.version = row.identity.version
    PROVE  RequestOK(q)'
<1> DEFINE s == req[q].session
<1>1. ReadOK(q) /\ LoginOK(q) /\ ResetOK(q) /\ ChangeOK(q)
  BY InvParts DEF RequestOK
<1>2. ReadOK(q)'
  BY <1>1 DEF ReadOK, SessionsKept
<1>3. LoginOK(q)'
  <2>1. ASSUME req[q].pc \in {"unlocking", "verifying"}
        PROVE  Good(req[q].identity, req[q].password)'
    <3>1. req[q].identity \in Identity /\ req[q].password \in Passwords
          /\ Good(req[q].identity, req[q].password)
      BY <1>1, <2>1 DEF ReadOK, LoginOK
    <3> QED  BY <3>1, GoodStays DEF Good
  <2>2. ASSUME req[q].pc = "completing", Live(s)'
        PROVE  /\ sessions'[s].identity = req[q].identity
               /\ req[q].identity.version <= row'.identity.version
               /\ req[q].identity.version = row'.identity.version =>
                      sessions'[s].password = row'.password
    <3>1. s \in Slots /\ req[q].identity \in Identity /\ Live(s)
          /\ sessions'[s].identity = sessions[s].identity
          /\ sessions'[s].password = sessions[s].password
      BY <1>1, <2>2 DEF ReadOK, SessionsKept
    <3>2. /\ sessions[s].identity = req[q].identity /\ sessions[s].password \in Passwords
          /\ Good(req[q].identity, sessions[s].password)
      BY <1>1, <2>2, <3>1, InvParts DEF LoginOK, SessionOK
    <3> QED  BY <3>1, <3>2, GoodStays
  <2> QED  BY <2>1, <2>2 DEF LoginOK, Good
<1>4. ResetOK(q)'
  <2>1. ASSUME req[q].pc = "committing", Live(s)'
        PROVE  /\ Live(s) /\ sessions'[s].identity = sessions[s].identity
               /\ sessions'[s].password = sessions[s].password
    BY <1>1, <2>1 DEF ReadOK, SessionsKept
  <2> QED  BY <1>1, <2>1 DEF ResetOK, Holding
<1>5. ChangeOK(q)'
  <2> SUFFICES ASSUME req[q].pc = "changing"
               PROVE  /\ req[q].identity.version <= row'.identity.version
                      /\ req[q].identity.version = row'.identity.version => ~row'.firstLogin
    BY DEF ChangeOK
  <2>1. req[q].identity.version \in Nat
    BY <1>1, VersionsAreNumbers DEF ReadOK
  <2>2. row'.identity.version \in Nat
    BY VersionsAreNumbers DEF Row
  <2> QED  BY <1>1, <2>1, <2>2, RowTyped DEF ChangeOK, Unchanging, Overtaking
<1> QED  BY <1>2, <1>3, <1>4, <1>5 DEF RequestOK

\* A step of one request that touches neither the row nor a session.
LEMMA RequestMoves ==
    ASSUME Inv, NEW r \in Requests, UNCHANGED <<row, sessions>>,
           req' \in [Requests -> Request],
           \A q \in Requests \ {r} : req'[q] = req[q],
           RequestOK(r)', HolderOK'
    PROVE  Inv'
<1>1. SessionsKept /\ row' \in Row /\ Unchanging
  BY InvParts DEF SessionsKept, Live, Unchanging
<1>2. \A q \in Requests : RequestOK(q)'
  BY <1>1, RequestStays
<1>3. \A s \in Slots : SessionOK(s)'
  BY InvParts DEF SessionOK, Live, Good
<1> QED  BY <1>2, <1>3, InvParts DEF Inv, TypeOK, FirstLoginUntilOwnPassword, HolderOK, RequestOK
-----------------------------------------------------------------------------
(* What the shared parts of the handlers do to a request.                  *)

LEMMA Goes ==
    ASSUME Inv, NEW r \in Requests, NEW pc \in Steps, Goto(r, pc)
    PROVE  /\ req' \in [Requests -> Request]
           /\ \A q \in Requests \ {r} : req'[q] = req[q]
           /\ req'[r].pc = pc
           /\ req'[r].session = req[r].session
           /\ req'[r].identity = req[r].identity
           /\ req'[r].password = req[r].password
  BY InvParts DEF Goto, Request

LEMMA IdleTyped ==
    /\ Idle \in Request /\ Idle.pc = "idle"
  BY AccountConfig DEF Idle, Request, Steps

LEMMA Leaves ==
    ASSUME Inv, NEW r \in Requests, Leave(r)
    PROVE  /\ req' \in [Requests -> Request]
           /\ \A q \in Requests \ {r} : req'[q] = req[q]
           /\ req'[r].pc = "idle"
  BY InvParts, IdleTyped DEF Leave

LEMMA Ends ==
    ASSUME Inv, NEW r \in Requests, NEW pc \in {"revoking", "withdrawing"},
           EndSession(r, pc)
    PROVE  /\ req' \in [Requests -> Request]
           /\ \A q \in Requests \ {r} : req'[q] = req[q]
           /\ req'[r].pc = pc
<1> DEFINE end == [Idle EXCEPT !.pc = pc, !.session = req[r].session]
<1>1. end \in Request /\ end.pc = pc
  BY InvParts, IdleTyped DEF Request, Steps
<1>2. req' = [req EXCEPT ![r] = end]
  BY DEF EndSession
<1> HIDE DEF end
<1> QED  BY <1>1, <1>2, InvParts

\* Nothing is asked of a request that is over, or has only a session to end.
LEMMA OverIsOK ==
    ASSUME NEW r \in Requests, req'[r].pc \in {"idle", "revoking", "withdrawing"}
    PROVE  RequestOK(r)'
  BY DEF RequestOK, ReadOK, LoginOK, ResetOK, ChangeOK, Holding

\* The row is held by whom it was held, unless a holder moves.
LEMMA HolderStays ==
    ASSUME Inv, NEW r \in Requests, holder' = holder,
           \A q \in Requests \ {r} : req'[q] = req[q],
           req[r].pc \notin Holding, req'[r].pc \notin Holding
    PROVE  HolderOK'
  BY InvParts DEF HolderOK
-----------------------------------------------------------------------------
(* What a step must show.                                                  *)

\* Any step, of the requests in Who, that keeps the sessions that exist.
LEMMA Moves ==
    ASSUME Inv, NEW Who \in SUBSET Requests,
           row' \in Row, Unchanging \/ Overtaking, FirstLoginUntilOwnPassword',
           sessions' \in [Slots -> Session], SessionsKept, \A s \in Slots : SessionOK(s)',
           req' \in [Requests -> Request],
           \A q \in Requests \ Who :
               /\ req'[q] = req[q]
               /\ req[q].pc \in Holding => row'.identity.version = row.identity.version,
           \A q \in Who : RequestOK(q)',
           HolderOK'
    PROVE  Inv'
<1>1. \A q \in Requests : RequestOK(q)'
  BY RequestStays
<1> QED  BY <1>1 DEF Inv, TypeOK, HolderOK, RequestOK

LEMMA SessionsUntouched ==
    ASSUME Inv, UNCHANGED sessions, row' \in Row, Unchanging \/ Overtaking
    PROVE  /\ sessions' \in [Slots -> Session] /\ SessionsKept
           /\ \A s \in Slots : SessionOK(s)'
<1>1. sessions' \in [Slots -> Session] /\ SessionsKept
  BY InvParts DEF SessionsKept, Live
<1>2. ASSUME NEW s \in Slots
      PROVE  SessionOK(s)'
  <2>1. CASE sessions[s].state # "free"
    BY <1>1, <2>1, SessionStays
  <2>2. CASE sessions[s].state = "free"
    BY <2>2 DEF SessionOK, Live
  <2> QED  BY <2>1, <2>2
<1> QED  BY <1>1, <1>2

LEMMA Closes ==
    ASSUME Inv, NEW s \in Slots, Close(s), UNCHANGED row
    PROVE  /\ sessions' \in [Slots -> Session] /\ SessionsKept
           /\ \A t \in Slots : SessionOK(t)'
<1>1. Gone \in Session /\ Gone.state = "gone"
  BY AccountConfig DEF Gone, Unused, Session
<1>2. /\ sessions' \in [Slots -> Session]
      /\ sessions'[s].state = "gone"
      /\ \A t \in Slots \ {s} : sessions'[t] = sessions[t]
  BY <1>1, InvParts DEF Close
<1>3. SessionsKept
  BY <1>2 DEF SessionsKept, Live
<1>4. ASSUME NEW t \in Slots
      PROVE  SessionOK(t)'
  <2>1. SessionOK(t)
    BY InvParts
  <2> QED  BY <1>2, <2>1 DEF SessionOK, Live, Good
<1> QED  BY <1>2, <1>3, <1>4

\* A session is opened for whom it is opened, and nobody has its token yet.
LEMMA Opens ==
    ASSUME Inv, NEW s \in Slots, NEW identity \in Identity, NEW password \in Passwords,
           sessions[s].state = "free",
           sessions' = [sessions EXCEPT ![s] = [state |-> "live",
                            identity |-> identity, password |-> password,
                            given |-> FALSE]],
           UNCHANGED row
    PROVE  /\ sessions' \in [Slots -> Session] /\ SessionsKept
           /\ \A t \in Slots : SessionOK(t)'
           /\ sessions'[s].state = "live"
           /\ sessions'[s].identity = identity
           /\ sessions'[s].password = password
<1> DEFINE opened == [state |-> "live", identity |-> identity, password |-> password,
                      given |-> FALSE]
<1>1. /\ opened \in Session /\ opened.state = "live" /\ opened.identity = identity
      /\ opened.password = password /\ opened.given = FALSE
  BY DEF Session
<1>2. sessions' = [sessions EXCEPT ![s] = opened]
  OBVIOUS
<1> HIDE DEF opened
<1>3. /\ sessions' \in [Slots -> Session]
      /\ sessions'[s] = opened
      /\ \A t \in Slots \ {s} : sessions'[t] = sessions[t]
  BY <1>1, <1>2, InvParts
<1>4. SessionsKept
  BY <1>3 DEF SessionsKept, Live
<1>5. ASSUME NEW t \in Slots
      PROVE  SessionOK(t)'
  <2>1. SessionOK(t)
    BY InvParts
  <2>2. CASE t = s
    BY <1>1, <1>3, <2>2 DEF SessionOK, Live, Good
  <2>3. CASE t # s
    BY <1>3, <2>1, <2>3 DEF SessionOK, Live, Good
  <2> QED  BY <2>2, <2>3
<1> QED  BY <1>1, <1>3, <1>4, <1>5

\* A token may be handed out when its session is good for the row as it is then.
LEMMA HandsOut ==
    ASSUME Inv, NEW s \in Slots, HandOut(s), sessions[s].state # "free",
           row' \in Row, Unchanging \/ Overtaking,
           Live(s) => /\ sessions[s].identity.version <= row'.identity.version
                      /\ sessions[s].identity.version = row'.identity.version =>
                             sessions[s].password = row'.password
    PROVE  /\ sessions' \in [Slots -> Session] /\ SessionsKept
           /\ \A t \in Slots : SessionOK(t)'
<1>1. /\ sessions' \in [Slots -> Session]
      /\ sessions'[s].state = sessions[s].state
      /\ sessions'[s].identity = sessions[s].identity
      /\ sessions'[s].password = sessions[s].password
      /\ \A t \in Slots \ {s} : sessions'[t] = sessions[t]
  BY InvParts DEF HandOut, Session
<1>2. SessionsKept
  BY <1>1 DEF SessionsKept, Live
<1>3. SessionOK(s)'
  <2>1. SessionOK(s)
    BY InvParts
  <2> QED  BY <1>1, <2>1 DEF SessionOK, Live, Good
<1>4. ASSUME NEW t \in Slots \ {s}
      PROVE  SessionOK(t)'
  <2>1. CASE sessions[t].state # "free"
    BY <1>1, <1>2, <2>1, SessionStays
  <2>2. CASE sessions[t].state = "free"
    BY <1>1, <2>2 DEF SessionOK, Live
  <2> QED  BY <2>1, <2>2
<1> QED  BY <1>1, <1>2, <1>3, <1>4
-----------------------------------------------------------------------------
(* Login.                                                                  *)

\* What a login reads together was good together.
LEMMA LoginReadKeeps ==
    ASSUME Inv, NEW r \in Requests, LoginRead(r)
    PROVE  Inv'
<1> DEFINE pc == IF row.status = "locked" THEN "unlocking" ELSE "verifying"
           read == [Idle EXCEPT !.pc = pc, !.identity = row.identity,
                                !.password = row.password]
<1>1. /\ read \in Request /\ read.pc = pc
      /\ read.identity = row.identity /\ read.password = row.password
  BY RowTyped, IdleTyped DEF Request, Steps
<1>2. req' = [req EXCEPT ![r] = read]
  BY DEF LoginRead
<1> HIDE DEF read
<1>3. /\ req' \in [Requests -> Request]
      /\ \A q \in Requests \ {r} : req'[q] = req[q]
      /\ req'[r] = read
  BY <1>1, <1>2, InvParts
<1>4. RequestOK(r)'
  BY <1>1, <1>3, RowTyped
  DEF LoginRead, RequestOK, ReadOK, LoginOK, ResetOK, ChangeOK, Holding, Good
<1>5. HolderOK'
  BY <1>1, <1>3, HolderStays DEF LoginRead, Holding
<1> QED  BY <1>3, <1>4, <1>5, RequestMoves DEF LoginRead

\* UnlockExpiredUser changes neither the credentials nor the count of logins.
LEMMA Unlocks ==
    ASSUME Inv, row' = row \/ row' = [row EXCEPT !.status = "active", !.lock = "none"]
    PROVE  /\ row' \in Row /\ Unchanging /\ FirstLoginUntilOwnPassword'
           /\ row'.identity = row.identity /\ row'.password = row.password
  BY InvParts DEF Row, Unchanging, FirstLoginUntilOwnPassword, Status, Lock

LEMMA LoginUnlockKeeps ==
    ASSUME Inv, NEW r \in Requests, LoginUnlock(r)
    PROVE  Inv'
<1>1. /\ row' \in Row /\ Unchanging /\ FirstLoginUntilOwnPassword'
      /\ row'.identity = row.identity /\ row'.password = row.password
  BY Unlocks DEF LoginUnlock, UnlockExpiredUser
<1>2. /\ req' \in [Requests -> Request]
      /\ \A q \in Requests \ {r} : req'[q] = req[q]
      /\ RequestOK(r)' /\ req'[r].pc \in {"verifying", "idle"}
  <2>1. CASE Goto(r, "verifying")
    <3>1. /\ req' \in [Requests -> Request]
          /\ \A q \in Requests \ {r} : req'[q] = req[q]
          /\ req'[r].pc = "verifying" /\ req'[r].identity = req[r].identity
          /\ req'[r].password = req[r].password
      BY <2>1, Goes DEF Steps
    <3>2. ReadOK(r) /\ LoginOK(r)
      BY InvParts DEF RequestOK
    <3> QED  BY <1>1, <3>1, <3>2 DEF LoginUnlock, RequestOK, ReadOK, LoginOK, ResetOK, ChangeOK,
                                     Holding, Good
  <2>2. CASE Leave(r)
    BY <2>2, Leaves, OverIsOK
  <2> QED  BY <2>1, <2>2 DEF LoginUnlock, UnlockExpiredUser
<1>3. HolderOK'
  BY <1>2, HolderStays DEF LoginUnlock, Holding
<1>4. /\ sessions' \in [Slots -> Session] /\ SessionsKept
      /\ \A s \in Slots : SessionOK(s)'
  BY <1>1, SessionsUntouched DEF LoginUnlock
<1>5. \A q \in Requests \ {r} : row'.identity.version = row.identity.version
  BY <1>1
<1> DEFINE Who == {r}
<1>6. Who \in SUBSET Requests /\ \A q \in Who : RequestOK(q)'
  BY <1>2
<1> QED  BY <1>1, <1>2, <1>3, <1>4, <1>5, <1>6, Moves

\* The session is opened for what the row said when the login read it.
LEMMA LoginVerifyKeeps ==
    ASSUME Inv, NEW r \in Requests, LoginVerify(r)
    PROVE  Inv'
<1>1. PICK s \in Slots :
          /\ Open(s, req[r].identity, req[r].password)
          /\ req' = [req EXCEPT ![r].pc = "completing", ![r].session = s,
                                ![r].password = None]
  BY DEF LoginVerify
<1>2. /\ req[r].identity \in Identity /\ req[r].password \in Passwords
      /\ Good(req[r].identity, req[r].password)
  BY InvParts DEF LoginVerify, RequestOK, ReadOK, LoginOK
<1>3. /\ req' \in [Requests -> Request]
      /\ \A q \in Requests \ {r} : req'[q] = req[q]
      /\ req'[r].pc = "completing" /\ req'[r].session = s
      /\ req'[r].identity = req[r].identity
  <2> DEFINE told == [req[r] EXCEPT !.pc = "completing", !.session = s, !.password = None]
  <2>1. told \in Request
    BY RequestsTyped DEF Request, Steps
  <2>2. told.pc = "completing" /\ told.session = s /\ told.identity = req[r].identity
    BY RequestsTyped DEF Request
  <2>3. req' = [req EXCEPT ![r] = told]
    BY <1>1, RequestsTyped
  <2> HIDE DEF told
  <2> QED  BY <2>1, <2>2, <2>3, RequestsTyped, Telling
<1>4. /\ sessions' \in [Slots -> Session] /\ SessionsKept
      /\ \A t \in Slots : SessionOK(t)'
      /\ sessions'[s].state = "live"
      /\ sessions'[s].identity = req[r].identity
      /\ sessions'[s].password = req[r].password
  BY <1>1, <1>2, Opens DEF LoginVerify, Open
<1>5. RequestOK(r)'
  BY <1>2, <1>3, <1>4 DEF LoginVerify, RequestOK, ReadOK, LoginOK, ResetOK, ChangeOK, Holding,
                          Live, Good
<1>6. HolderOK'
  BY <1>3, HolderStays DEF LoginVerify, Holding
<1>7. row' \in Row /\ Unchanging /\ FirstLoginUntilOwnPassword'
  BY InvParts DEF LoginVerify, Unchanging, FirstLoginUntilOwnPassword
<1> DEFINE Who == {r}
<1>8. Who \in SUBSET Requests /\ \A q \in Who : RequestOK(q)'
  BY <1>5
<1>9. row' = row
  BY DEF LoginVerify
<1> QED  BY <1>3, <1>4, <1>6, <1>7, <1>8, <1>9, Moves

\* The token is handed out only if the row still has the version of the session.
LEMMA LoginCompleteKeeps ==
    ASSUME Inv, NEW r \in Requests, LoginComplete(r)
    PROVE  Inv'
<1>1. row' \in Row /\ Unchanging /\ FirstLoginUntilOwnPassword' /\ row' = row
  BY InvParts DEF LoginComplete, Unchanging, FirstLoginUntilOwnPassword
<1>2. /\ req' \in [Requests -> Request]
      /\ \A q \in Requests \ {r} : req'[q] = req[q]
      /\ req'[r].pc \in {"idle", "withdrawing"}
  BY Leaves, Ends DEF LoginComplete
<1>3. RequestOK(r)'
  BY <1>2, OverIsOK
<1>4. HolderOK'
  BY <1>2, HolderStays DEF LoginComplete, Holding
<1>5. /\ sessions' \in [Slots -> Session] /\ SessionsKept
      /\ \A t \in Slots : SessionOK(t)'
  <2> DEFINE s == req[r].session
  <2>1. CASE UNCHANGED sessions
    BY <1>1, <2>1, SessionsUntouched
  <2>2. CASE HandOut(s)
    <3>1. s \in Slots /\ sessions[s].state # "free"
      BY InvParts DEF LoginComplete, RequestOK, ReadOK
    <3>2. Live(s) => /\ sessions[s].identity.version <= row'.identity.version
                     /\ sessions[s].identity.version = row'.identity.version =>
                            sessions[s].password = row'.password
      BY <1>1, InvParts DEF LoginComplete, RequestOK, LoginOK, Good
    <3> HIDE DEF s
    <3> QED  BY <1>1, <2>2, <3>1, <3>2, HandsOut
  <2> QED  BY <2>1, <2>2 DEF LoginComplete
<1> DEFINE Who == {r}
<1>6. Who \in SUBSET Requests /\ \A q \in Who : RequestOK(q)'
  BY <1>3
<1> QED  BY <1>1, <1>2, <1>4, <1>5, <1>6, Moves

\* A request that ends a session, whatever session it is.
LEMMA ClosingKeeps ==
    ASSUME Inv, NEW r \in Requests, req[r].pc \in {"withdrawing", "revoking"},
           Close(req[r].session), Leave(r), UNCHANGED <<row, holder>>
    PROVE  Inv'
<1>1. row' \in Row /\ Unchanging /\ FirstLoginUntilOwnPassword' /\ row' = row
  BY InvParts DEF Unchanging, FirstLoginUntilOwnPassword
<1>2. /\ req' \in [Requests -> Request]
      /\ \A q \in Requests \ {r} : req'[q] = req[q]
      /\ req'[r].pc = "idle"
  BY Leaves
<1>3. RequestOK(r)'
  BY <1>2, OverIsOK
<1>4. HolderOK'
  BY <1>2, HolderStays DEF Holding
<1>5. /\ sessions' \in [Slots -> Session] /\ SessionsKept
      /\ \A t \in Slots : SessionOK(t)'
  <2>1. CASE req[r].session \in Slots
    BY <2>1, Closes
  <2>2. CASE req[r].session \notin Slots
    <3>1. UNCHANGED sessions
      BY <2>2, InvParts DEF Close
    <3> QED  BY <1>1, <3>1, SessionsUntouched
  <2> QED  BY <2>1, <2>2
<1> DEFINE Who == {r}
<1>6. Who \in SUBSET Requests /\ \A q \in Who : RequestOK(q)'
  BY <1>3
<1> QED  BY <1>1, <1>2, <1>4, <1>5, <1>6, Moves

LEMMA WithdrawKeeps ==
    ASSUME Inv, NEW r \in Requests, Withdraw(r)
    PROVE  Inv'
  BY ClosingKeeps DEF Withdraw
-----------------------------------------------------------------------------
(* Refresh, and requests with an access token.                             *)

\* A request that is presented a session, and reads whose it is.
LEMMA PresentingKeeps ==
    ASSUME Inv, NEW r \in Requests, NEW s \in Slots, NEW pc \in {"refreshing", "identifying"},
           req[r].pc = "idle", Presented(s),
           req' = [req EXCEPT ![r].pc = pc, ![r].session = s,
                              ![r].identity = sessions[s].identity],
           UNCHANGED <<row, sessions, holder>>
    PROVE  Inv'
<1> DEFINE whose == sessions[s].identity
<1>1. whose \in Identity
  BY InvParts DEF Presented, SessionOK
<1>2. /\ req' \in [Requests -> Request]
      /\ \A q \in Requests \ {r} : req'[q] = req[q]
      /\ req'[r].pc = pc /\ req'[r].identity \in Identity
  <2>1. req' = [req EXCEPT ![r].pc = pc, ![r].session = s, ![r].identity = whose]
    OBVIOUS
  <2>2. pc \in Steps
    BY DEF Steps
  <2> DEFINE told == [req[r] EXCEPT !.pc = pc, !.session = s, !.identity = whose]
  <2> HIDE DEF whose
  <2>3. told \in Request /\ told.pc = pc /\ told.identity = whose
    BY <1>1, <2>2, InvParts DEF Request
  <2>4. req' = [req EXCEPT ![r] = told]
    BY <2>1, InvParts
  <2> HIDE DEF told
  <2> QED  BY <1>1, <2>3, <2>4, RequestsTyped, Telling
<1>3. RequestOK(r)'
  BY <1>2 DEF RequestOK, ReadOK, LoginOK, ResetOK, ChangeOK, Holding
<1>4. HolderOK'
  BY <1>2, HolderStays DEF Holding
<1> QED  BY <1>2, <1>3, <1>4, RequestMoves

\* A step that only says how far a request has come.
LEMMA PassingKeeps ==
    ASSUME Inv, NEW r \in Requests, UNCHANGED <<row, sessions, holder>>,
           req[r].pc \in {"refreshing", "identifying", "resetting"},
           req' \in [Requests -> Request],
           \A q \in Requests \ {r} : req'[q] = req[q],
           req'[r].pc \in {"idle", "revoking", "reviving", "changing", "resetting", "locking"},
           req'[r].pc \in {"reviving", "changing", "resetting", "locking"} =>
               req'[r].identity = req[r].identity,
           req'[r].pc = "changing" => req[r].identity = row.identity /\ ~row.firstLogin
    PROVE  Inv'
<1>1. req[r].identity \in Identity
  BY InvParts DEF RequestOK, ReadOK
<1>2. RequestOK(r)'
  BY <1>1, RowTyped DEF RequestOK, ReadOK, LoginOK, ResetOK, ChangeOK, Holding
<1>3. HolderOK'
  BY HolderStays DEF Holding
<1> QED  BY <1>2, <1>3, RequestMoves

LEMMA RefreshKeeps ==
    ASSUME Inv, NEW r \in Requests,
           RefreshRead(r) \/ RefreshCheck(r) \/ RefreshUnlock(r) \/ RefreshRevoke(r)
    PROVE  Inv'
<1>1. CASE RefreshRead(r)
  BY <1>1, PresentingKeeps DEF RefreshRead
<1>2. CASE RefreshCheck(r)
  <2>1. CASE EndSession(r, "revoking")
    BY <1>2, <2>1, Ends, PassingKeeps DEF RefreshCheck
  <2>2. CASE Leave(r)
    BY <1>2, <2>2, Leaves, PassingKeeps DEF RefreshCheck
  <2>3. CASE req' = [req EXCEPT ![r].pc = "reviving", ![r].overdue = LockIsOver]
    <3>1. LockIsOver \in BOOLEAN
      BY RowTyped DEF LockIsOver
    <3>2. /\ req' \in [Requests -> Request]
          /\ \A q \in Requests \ {r} : req'[q] = req[q]
          /\ req'[r].pc = "reviving" /\ req'[r].identity = req[r].identity
      <4> DEFINE told == [req[r] EXCEPT !.pc = "reviving", !.overdue = LockIsOver]
      <4>1. told \in Request /\ told.pc = "reviving" /\ told.identity = req[r].identity
        BY <3>1, RequestsTyped DEF Request, Steps
      <4>2. req' = [req EXCEPT ![r] = told]
        BY <2>3, RequestsTyped
      <4> HIDE DEF told
      <4> QED  BY <4>1, <4>2, RequestsTyped, Telling
    <3> QED  BY <1>2, <3>2, PassingKeeps DEF RefreshCheck
  <2> QED  BY <1>2, <2>1, <2>2, <2>3 DEF RefreshCheck
<1>3. CASE RefreshUnlock(r)
  <2>1. /\ row' \in Row /\ Unchanging /\ FirstLoginUntilOwnPassword'
        /\ row'.identity = row.identity /\ row'.password = row.password
    BY <1>3, Unlocks DEF RefreshUnlock, UnlockExpiredUser
  <2>2. /\ req' \in [Requests -> Request]
        /\ \A q \in Requests \ {r} : req'[q] = req[q]
        /\ req'[r].pc \in {"idle", "revoking"}
    BY <1>3, Leaves, Ends DEF RefreshUnlock, UnlockExpiredUser
  <2>3. HolderOK'
    BY <1>3, <2>2, HolderStays DEF RefreshUnlock, Holding
  <2>4. /\ sessions' \in [Slots -> Session] /\ SessionsKept
        /\ \A s \in Slots : SessionOK(s)'
    BY <1>3, <2>1, SessionsUntouched DEF RefreshUnlock
  <2> DEFINE Who == {r}
  <2>5. Who \in SUBSET Requests /\ \A q \in Who : RequestOK(q)'
    BY <2>2, OverIsOK
  <2> QED  BY <2>1, <2>2, <2>3, <2>4, <2>5, Moves
<1>4. CASE RefreshRevoke(r)
  BY <1>4, ClosingKeeps DEF RefreshRevoke
<1> QED  BY <1>1, <1>2, <1>3, <1>4

\* ChangePassword is reached by who is past the first login of that version.
LEMMA AuthenticationKeeps ==
    ASSUME Inv, NEW r \in Requests, Authenticate(r) \/ ResolveIdentity(r) \/ ResetRead(r)
    PROVE  Inv'
<1>1. CASE Authenticate(r)
  BY <1>1, PresentingKeeps DEF Authenticate
<1>2. CASE ResolveIdentity(r)
  <2>1. CASE Leave(r)
    BY <1>2, <2>1, Leaves, PassingKeeps DEF ResolveIdentity
  <2>2. CASE row.identity = req[r].identity /\ ~row.firstLogin /\ Goto(r, "changing")
    BY <1>2, <2>2, Goes, PassingKeeps DEF ResolveIdentity, Steps
  <2>3. CASE Goto(r, "resetting")
    BY <1>2, <2>3, Goes, PassingKeeps DEF ResolveIdentity, Steps
  <2> QED  BY <1>2, <2>1, <2>2, <2>3 DEF ResolveIdentity
<1>3. CASE ResetRead(r)
  <2>1. CASE Goto(r, "locking")
    BY <1>3, <2>1, Goes, PassingKeeps DEF ResetRead, Steps
  <2>2. CASE Leave(r)
    BY <1>3, <2>2, Leaves, PassingKeeps DEF ResetRead
  <2> QED  BY <1>3, <2>1, <2>2 DEF ResetRead
<1> QED  BY <1>1, <1>2, <1>3
-----------------------------------------------------------------------------
(* Changes of password.                                                    *)

\* A later version overtakes whatever was read of the earlier one.
LEMMA ChangePasswordKeeps ==
    ASSUME Inv, NEW r \in Requests, ChangePassword(r)
    PROVE  Inv'
<1>1. /\ req' \in [Requests -> Request]
      /\ \A q \in Requests \ {r} : req'[q] = req[q]
      /\ req'[r].pc = "idle"
  BY Leaves DEF ChangePassword
<1>2. HolderOK'
  BY <1>1, HolderStays DEF ChangePassword, Holding
<1> DEFINE Who == {r}
<1>3. Who \in SUBSET Requests /\ \A q \in Who : RequestOK(q)'
  BY <1>1, OverIsOK
<1>4. CASE UNCHANGED row
  <2>1. row' \in Row /\ Unchanging /\ FirstLoginUntilOwnPassword'
    BY <1>4, InvParts DEF Unchanging, FirstLoginUntilOwnPassword
  <2>2. /\ sessions' \in [Slots -> Session] /\ SessionsKept
        /\ \A s \in Slots : SessionOK(s)'
    BY <2>1, SessionsUntouched DEF ChangePassword
  <2> QED  BY <1>1, <1>2, <1>3, <1>4, <2>1, <2>2, Moves
<1>5. CASE row' # row
  <2>1. /\ row.present /\ holder = None
        /\ row.identity.version = req[r].identity.version
        /\ row.identity.version < MaxVersion
    BY <1>5 DEF ChangePassword
  <2>2. PICK new \in Passwords :
            row' = [row EXCEPT !.password = new, !.identity.version = @ + 1,
                               !.origin = "changed"]
    BY <1>5 DEF ChangePassword
  <2>3. ~row.firstLogin
    BY <2>1, InvParts DEF ChangePassword, RequestOK, ChangeOK
  <2>4. row.identity.version + 1 \in 1 .. MaxVersion
    BY <2>1, RowTyped, AccountConfig
  <2>5. /\ row' \in Row /\ row'.identity.version = row.identity.version + 1
        /\ row'.firstLogin = row.firstLogin /\ row'.origin = "changed"
    BY <2>2, <2>4, InvParts DEF Row, Identity
  <2>6. Overtaking
    BY <2>5, RowTyped DEF Overtaking
  <2>7. FirstLoginUntilOwnPassword'
    BY <2>3, <2>5 DEF FirstLoginUntilOwnPassword
  <2>8. /\ sessions' \in [Slots -> Session] /\ SessionsKept
        /\ \A s \in Slots : SessionOK(s)'
    BY <2>5, <2>6, SessionsUntouched DEF ChangePassword
  <2>9. \A q \in Requests : req[q].pc \notin Holding
    BY <2>1, AccountConfig, InvParts DEF HolderOK
  <2> QED  BY <1>1, <1>2, <1>3, <2>5, <2>6, <2>7, <2>8, <2>9, Moves
<1> QED  BY <1>4, <1>5

\* The row is taken for the version that the request was authenticated for.
LEMMA ResetLockKeeps ==
    ASSUME Inv, NEW r \in Requests, ResetLock(r)
    PROVE  Inv'
<1>1. CASE Leave(r) /\ UNCHANGED holder
  <2>1. /\ req' \in [Requests -> Request]
        /\ \A q \in Requests \ {r} : req'[q] = req[q]
        /\ req'[r].pc = "idle"
    BY <1>1, Leaves
  <2>2. HolderOK'
    BY <1>1, <2>1, HolderStays DEF ResetLock, Holding
  <2> QED  BY <2>1, <2>2, OverIsOK, RequestMoves DEF ResetLock
<1>2. CASE holder' = r
  <2>1. req[r].identity \in Identity
    BY InvParts DEF ResetLock, RequestOK, ReadOK
  <2>2. PICK new \in Passwords :
            req' = [req EXCEPT ![r].pc = "issuing", ![r].password = new, ![r].session = None]
    BY <1>2, AccountConfig, InvParts DEF ResetLock, HolderOK, Holding
  <2>3. /\ row.present /\ holder = None
        /\ row.identity.version = req[r].identity.version
        /\ row.identity.version < MaxVersion
    BY <1>2, AccountConfig, InvParts DEF ResetLock, HolderOK, Holding
  <2>4. /\ req' \in [Requests -> Request]
        /\ \A q \in Requests \ {r} : req'[q] = req[q]
        /\ req'[r].pc = "issuing" /\ req'[r].identity = req[r].identity
        /\ req'[r].password = new
    <3> DEFINE told == [req[r] EXCEPT !.pc = "issuing", !.password = new, !.session = None]
    <3>1. told \in Request
      BY RequestsTyped DEF Request, Steps
    <3>2. /\ told.pc = "issuing" /\ told.identity = req[r].identity
          /\ told.password = new
      BY RequestsTyped DEF Request
    <3>3. req' = [req EXCEPT ![r] = told]
      BY <2>2, RequestsTyped
    <3> HIDE DEF told
    <3> QED  BY <3>1, <3>2, <3>3, RequestsTyped, Telling
  <2>5. RequestOK(r)'
    BY <2>1, <2>3, <2>4 DEF ResetLock, RequestOK, ReadOK, LoginOK, ResetOK, ChangeOK, Holding
  <2>6. HolderOK'
    BY <1>2, <2>3, <2>4, AccountConfig, InvParts DEF HolderOK, Holding
  <2> QED  BY <2>4, <2>5, <2>6, RequestMoves DEF ResetLock
<1> QED  BY <1>1, <1>2 DEF ResetLock

\* The session is one version ahead of the row, and its token stays where it is.
LEMMA ResetIssueKeeps ==
    ASSUME Inv, NEW r \in Requests, ResetIssue(r)
    PROVE  Inv'
<1> DEFINE next == [req[r].identity EXCEPT !.version = @ + 1]
<1>1. PICK s \in Slots : /\ Open(s, next, req[r].password)
                         /\ req' = [req EXCEPT ![r].pc = "committing", ![r].session = s]
  BY DEF ResetIssue
<1>2. /\ req[r].identity \in Identity /\ req[r].password \in Passwords
      /\ req[r].identity.version = row.identity.version
      /\ req[r].identity.version < MaxVersion
  BY InvParts DEF ResetIssue, RequestOK, ReadOK, ResetOK, Holding
<1>3. req[r].identity.version + 1 \in 1 .. MaxVersion
  BY <1>2, VersionsAreNumbers, AccountConfig
<1>4. next \in Identity /\ next.version = row.identity.version + 1
  BY <1>2, <1>3 DEF Identity
<1>5. /\ req' \in [Requests -> Request]
      /\ \A q \in Requests \ {r} : req'[q] = req[q]
      /\ req'[r].pc = "committing" /\ req'[r].session = s
      /\ req'[r].identity = req[r].identity /\ req'[r].password = req[r].password
  BY <1>1, InvParts DEF Request, Steps
<1> HIDE DEF next
<1>6. /\ sessions' \in [Slots -> Session] /\ SessionsKept
      /\ \A t \in Slots : SessionOK(t)'
      /\ sessions'[s].state = "live"
      /\ sessions'[s].identity = next
      /\ sessions'[s].password = req[r].password
  BY <1>1, <1>2, <1>4, Opens DEF ResetIssue, Open
<1>7. RequestOK(r)'
  BY <1>2, <1>4, <1>5, <1>6
  DEF ResetIssue, RequestOK, ReadOK, LoginOK, ResetOK, ChangeOK, Holding, Live
<1>8. HolderOK'
  BY <1>5, InvParts DEF ResetIssue, HolderOK, Holding
<1>9. row' \in Row /\ Unchanging /\ FirstLoginUntilOwnPassword' /\ row' = row
  BY InvParts DEF ResetIssue, Unchanging, FirstLoginUntilOwnPassword
<1> DEFINE Who == {r}
<1>10. Who \in SUBSET Requests /\ \A q \in Who : RequestOK(q)'
  BY <1>7
<1> QED  BY <1>5, <1>6, <1>8, <1>9, <1>10, Moves

\* Commit: the row catches up with the session, whose token may then go out.
LEMMA ResetWritesKeep ==
    ASSUME Inv, NEW r \in Requests, ResetWrites(r),
           \/ HandOut(req[r].session) /\ Leave(r)
           \/ UNCHANGED sessions /\ EndSession(r, "withdrawing")
    PROVE  Inv'
<1> DEFINE s == req[r].session
<1>1. /\ req' \in [Requests -> Request]
      /\ \A q \in Requests \ {r} : req'[q] = req[q]
      /\ req'[r].pc \in {"idle", "withdrawing"}
  BY Leaves, Ends
<1>2. holder = r /\ \A q \in Requests \ {r} : req[q].pc \notin Holding
  BY InvParts DEF ResetWrites, HolderOK, Holding
<1>3. HolderOK'
  BY <1>1, <1>2, AccountConfig DEF ResetWrites, HolderOK, Holding
<1>4. /\ s \in Slots /\ sessions[s].state # "free" /\ req[r].password \in Passwords
      /\ row.identity.version < MaxVersion
      /\ Live(s) => /\ sessions[s].identity.version = row.identity.version + 1
                    /\ sessions[s].password = req[r].password
  BY InvParts DEF ResetWrites, RequestOK, ReadOK, ResetOK, Holding
<1>5. row.identity.version + 1 \in 1 .. MaxVersion
  BY <1>4, RowTyped, AccountConfig
<1>6. /\ row' \in Row /\ row'.identity.version = row.identity.version + 1
      /\ row'.firstLogin = FALSE /\ row'.origin = "changed"
      /\ row'.password = req[r].password
  <2> DEFINE new == req[r].password
  <2>1. row' = [row EXCEPT !.password = new, !.identity.version = @ + 1,
                           !.firstLogin = FALSE, !.origin = "changed"] /\ new \in Passwords
    BY <1>4 DEF ResetWrites
  <2> HIDE DEF new
  <2>2. /\ row' \in Row /\ row'.identity.version = row.identity.version + 1
        /\ row'.firstLogin = FALSE /\ row'.origin = "changed" /\ row'.password = new
    BY <1>5, <2>1, InvParts DEF Row, Identity
  <2> QED  BY <2>2 DEF new
<1>7. Overtaking /\ FirstLoginUntilOwnPassword'
  BY <1>6, RowTyped DEF Overtaking, FirstLoginUntilOwnPassword
<1>8. /\ sessions' \in [Slots -> Session] /\ SessionsKept
      /\ \A t \in Slots : SessionOK(t)'
  <2>1. CASE UNCHANGED sessions
    BY <1>6, <1>7, <2>1, SessionsUntouched
  <2>2. CASE HandOut(s)
    <3>1. Live(s) => /\ sessions[s].identity.version <= row'.identity.version
                     /\ sessions[s].identity.version = row'.identity.version =>
                            sessions[s].password = row'.password
      BY <1>4, <1>6, RowTyped
    <3> HIDE DEF s
    <3> QED  BY <1>4, <1>6, <1>7, <2>2, <3>1, HandsOut
  <2> QED  BY <2>1, <2>2
<1> DEFINE Who == {r}
<1>9. Who \in SUBSET Requests /\ \A q \in Who : RequestOK(q)'
  BY <1>1, OverIsOK
<1> QED  BY <1>1, <1>2, <1>3, <1>6, <1>7, <1>8, <1>9, Moves

\* A transaction that is given up, and a request that dies, lets the row go; a
\* session it stored has a token nobody was given.
LEMMA GivingUpKeeps ==
    ASSUME Inv, NEW r \in Requests, ResetRollback(r) \/ Abort(r)
    PROVE  Inv'
<1>1. /\ req' \in [Requests -> Request]
      /\ \A q \in Requests \ {r} : req'[q] = req[q]
      /\ req'[r].pc \in {"idle", "withdrawing"}
  BY Leaves, Ends DEF ResetRollback, Abort
<1>2. HolderOK'
  BY <1>1, AccountConfig, InvParts DEF ResetRollback, Abort, HolderOK, Holding
<1> QED  BY <1>1, <1>2, OverIsOK, RequestMoves DEF ResetRollback, Abort
-----------------------------------------------------------------------------
(* Administrators, clients and time.                                       *)

\* A step of none of the requests, that leaves the sessions alone.
LEMMA RowMoves ==
    ASSUME Inv, UNCHANGED <<sessions, req, holder>>,
           row' \in Row, FirstLoginUntilOwnPassword', Unchanging \/ Overtaking,
           row'.identity.version = row.identity.version \/ holder = None
    PROVE  Inv'
<1>1. \A q \in Requests : req[q].pc \in Holding => row'.identity.version = row.identity.version
  BY AccountConfig, InvParts DEF HolderOK
<1>2. HolderOK' /\ req' \in [Requests -> Request]
  BY InvParts DEF HolderOK
<1>3. /\ sessions' \in [Slots -> Session] /\ SessionsKept
      /\ \A s \in Slots : SessionOK(s)'
  BY SessionsUntouched
<1> DEFINE Who == {}
<1>4. /\ Who \in SUBSET Requests /\ \A q \in Who : RequestOK(q)'
      /\ \A q \in Requests \ Who : req'[q] = req[q]
  OBVIOUS
<1> QED  BY <1>1, <1>2, <1>3, <1>4, Moves

\* An update without a password leaves the credentials; with one, it starts a
\* later version and the restriction of a first login.
LEMMA AdminUpdateKeeps ==
    ASSUME Inv, AdminUpdate
    PROVE  Inv'
<1>1. PICK status \in Status \cup {"keep"}, lock \in {"forever", "running"},
           metadata \in BOOLEAN, password \in Passwords \cup {"keep"}, name \in Names :
          /\ status = "locked" => metadata
          /\ password # "keep" => row.identity.version < MaxVersion
          /\ row' = [row EXCEPT
                !.status = IF status = "keep" THEN @ ELSE status,
                !.lock = LockColumn(status, lock, metadata),
                !.identity = [version |-> IF password = "keep" THEN @.version
                                          ELSE @.version + 1,
                              name |-> name],
                !.password = IF password = "keep" THEN @ ELSE password,
                !.firstLogin = @ \/ password # "keep",
                !.origin = IF password = "keep" THEN @ ELSE "issued"]
  BY Zenon DEF AdminUpdate
<1> DEFINE column == LockColumn(status, lock, metadata)
<1>2. column \in Lock
  BY RowTyped DEF LockColumn, Lock, Status
<1> HIDE DEF column
<1>3. CASE password = "keep"
  <2>1. row' = [row EXCEPT
                !.status = IF status = "keep" THEN row.status ELSE status,
                !.lock = column,
                !.identity = [version |-> row.identity.version, name |-> name],
                !.password = row.password,
                !.firstLogin = row.firstLogin,
                !.origin = row.origin]
    BY <1>1, <1>3, RowTyped DEF column
  <2>2. [version |-> row.identity.version, name |-> name] \in Identity
    BY RowTyped DEF Identity
  <2>3. /\ row' \in Row /\ row'.identity.version = row.identity.version
        /\ row'.password = row.password
        /\ row'.firstLogin = row.firstLogin /\ row'.origin = row.origin
    BY <1>2, <2>1, <2>2, InvParts DEF Row
  <2>4. Unchanging /\ FirstLoginUntilOwnPassword'
    BY <2>3, InvParts DEF Unchanging, FirstLoginUntilOwnPassword
  <2> QED  BY <2>3, <2>4, RowMoves DEF AdminUpdate
<1>4. CASE password # "keep"
  <2>1. row' = [row EXCEPT
                !.status = IF status = "keep" THEN row.status ELSE status,
                !.lock = column,
                !.identity = [version |-> row.identity.version + 1, name |-> name],
                !.password = password,
                !.firstLogin = TRUE,
                !.origin = "issued"]
    BY <1>1, <1>4, RowTyped DEF column
  <2>2. row.identity.version + 1 \in 1 .. MaxVersion
    BY <1>1, <1>4, RowTyped, AccountConfig
  <2>3. [version |-> row.identity.version + 1, name |-> name] \in Identity
    BY <2>2 DEF Identity
  <2>4. /\ row' \in Row /\ row'.identity.version = row.identity.version + 1
        /\ row'.firstLogin = TRUE /\ row'.origin = "issued"
    BY <1>2, <1>4, <2>1, <2>3, InvParts DEF Row
  <2>5. Overtaking /\ FirstLoginUntilOwnPassword'
    BY <2>4, RowTyped DEF Overtaking, FirstLoginUntilOwnPassword
  <2> QED  BY <2>4, <2>5, RowMoves DEF AdminUpdate, Writable
<1> QED  BY <1>3, <1>4

LEMMA WorldKeeps ==
    ASSUME Inv, AdminDelete \/ LockExpires
    PROVE  Inv'
<1>1. /\ row' \in Row /\ Unchanging /\ FirstLoginUntilOwnPassword'
      /\ row'.identity.version = row.identity.version
  BY InvParts DEF AdminDelete, LockExpires, Row, Lock, Unchanging, FirstLoginUntilOwnPassword
<1> QED  BY <1>1, RowMoves DEF AdminDelete, LockExpires

LEMMA SessionsEndKeeps ==
    ASSUME Inv, Logout \/ SessionExpires
    PROVE  Inv'
<1>1. PICK s \in Slots : Close(s)
  BY DEF Logout, SessionExpires
<1>2. /\ sessions' \in [Slots -> Session] /\ SessionsKept
      /\ \A t \in Slots : SessionOK(t)'
  BY <1>1, Closes DEF Logout, SessionExpires
<1>3. /\ row' \in Row /\ Unchanging /\ FirstLoginUntilOwnPassword' /\ row' = row
      /\ HolderOK' /\ req' \in [Requests -> Request] /\ req' = req
  BY InvParts DEF Logout, SessionExpires, Unchanging, FirstLoginUntilOwnPassword, HolderOK
<1> DEFINE Who == {}
<1>4. /\ Who \in SUBSET Requests /\ \A q \in Who : RequestOK(q)'
      /\ \A q \in Requests \ Who : req'[q] = req[q]
  BY <1>3
<1> QED  BY <1>2, <1>3, <1>4, Moves
-----------------------------------------------------------------------------
(* All steps.                                                              *)

LEMMA InitEstablishes == Init => Inv
<1> SUFFICES ASSUME Init PROVE Inv
  OBVIOUS
<1>1. PICK status \in {"pending", "active"}, password \in Passwords, name \in Names :
          row = [present |-> TRUE, status |-> status, lock |-> "none",
                 identity |-> [version |-> 1, name |-> name],
                 password |-> password, firstLogin |-> TRUE, origin |-> "issued"]
  BY DEF Init
<1>2. [version |-> 1, name |-> name] \in Identity
  BY AccountConfig DEF Identity
<1>3. row \in Row /\ row.firstLogin = TRUE /\ row.origin = "issued"
  BY <1>1, <1>2 DEF Row, Status, Lock
<1>4. Unused \in Session /\ Unused.state = "free"
  BY AccountConfig DEF Unused, Session
<1>5. sessions \in [Slots -> Session] /\ \A s \in Slots : SessionOK(s)
  BY <1>4 DEF Init, SessionOK, Live
<1>6. req \in [Requests -> Request] /\ \A r \in Requests : req[r].pc = "idle"
  BY IdleTyped DEF Init
<1>7. HolderOK /\ \A r \in Requests : RequestOK(r)
  BY <1>6, AccountConfig DEF Init, HolderOK, Holding, RequestOK, ReadOK, LoginOK, ResetOK, ChangeOK
<1>8. FirstLoginUntilOwnPassword
  BY <1>3 DEF FirstLoginUntilOwnPassword
<1> QED  BY <1>3, <1>5, <1>6, <1>7, <1>8, InvParts

LEMMA NextKeeps == Inv /\ [Next]_vars => Inv'
<1> SUFFICES ASSUME Inv, [Next]_vars PROVE Inv'
  OBVIOUS
<1>1. ASSUME NEW r \in Requests, ResetCommit(r) \/ ResetUnacknowledged(r)
      PROVE  Inv'
  BY <1>1, ResetWritesKeep DEF ResetCommit, ResetUnacknowledged
<1>2. CASE UNCHANGED vars
  <2>1. row' \in Row /\ Unchanging /\ FirstLoginUntilOwnPassword' /\ row' = row
    BY <1>2, InvParts DEF vars, Unchanging, FirstLoginUntilOwnPassword
  <2> QED  BY <1>2, <2>1, RowMoves DEF vars
<1> QED  BY <1>1, <1>2, AdminUpdateKeeps, WorldKeeps, SessionsEndKeeps, LoginReadKeeps,
            LoginUnlockKeeps, LoginVerifyKeeps, LoginCompleteKeeps, WithdrawKeeps,
            RefreshKeeps, AuthenticationKeeps, ChangePasswordKeeps, ResetLockKeeps,
            ResetIssueKeeps, GivingUpKeeps
   DEF Next

\* What sessions and requests know of the row is true of it, or of a version that
\* it has left behind, however logins, resets, changes and administrators meet.
THEOREM InvariantHolds == Spec => []Inv
<1>1. Init => Inv
  BY InitEstablishes
<1>2. Inv /\ [Next]_vars => Inv'
  BY NextKeeps
<1> QED  BY <1>1, <1>2, PTL DEF Spec

\* Every variable keeps its type, and the row is held by the request that is
\* inside ResetPassword's transaction, and by no other.
THEOREM TypeCorrect == Spec => []TypeOK
<1>1. Inv => TypeOK
  BY DEF Inv
<1> QED  BY <1>1, InvariantHolds, PTL

\* Every token that the row still accepts is in the hands of one who showed, or
\* chose, the password now in force.
THEOREM HoldersKnow == Spec => []HoldersKnowPassword
<1>1. Inv => HoldersKnowPassword
  BY DEF Inv, HoldersKnowPassword, Presented, SessionOK, Good
<1> QED  BY <1>1, InvariantHolds, PTL

\* The restriction of a first login lasts exactly until the user has a password
\* of his own.
THEOREM FirstLoginHolds == Spec => []FirstLoginUntilOwnPassword
<1>1. Inv => FirstLoginUntilOwnPassword
  BY DEF Inv
<1> QED  BY <1>1, InvariantHolds, PTL
=============================================================================
