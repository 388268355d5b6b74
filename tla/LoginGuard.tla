----------------------------- MODULE LoginGuard -----------------------------
(***************************************************************************)
(* What stands before a password comparison and before a registration.     *)
(*                                                                         *)
(* A login spends a credential challenge of its own type and, by the       *)
(* number of wrong passwords in the row, a slider proof or a solved point  *)
(* captcha, both for this username; a registration spends a challenge and  *)
(* a slider proof of its own.  All of these lie in stores outside the      *)
(* database, each taken in a step of its own, while other requests take    *)
(* and put, entries expire, the test switch is turned, and the row counts  *)
(* other failures.                                                         *)
(***************************************************************************)
EXTENDS Integers, FiniteSets

CONSTANTS
    Requests,       \* requests at once, in all replicas
    Challenges,     \* ids of credential challenges: with the next three a bound
    Sliders,        \* ids of slider challenges
    Proofs,         \* ids of slider proofs
    Captchas,       \* ids of point captchas
    Subjects,       \* <<purpose, name>>: what sliders are asked for, a bound
    Threshold,      \* wrong passwords before point captchas
    MaxWrong,       \* bound of the wrong passwords in the row
    MaxFaults       \* bound of the requests that die

\* NewPointCaptcha refuses other thresholds.
ASSUME LoginConfig ==
    /\ Threshold \in Nat \ {0}
    /\ MaxWrong \in Nat /\ MaxFaults \in Nat
    /\ IsFiniteSet(Requests)
    /\ Subjects \subseteq {"login", "register"} \X {"known", "free"}

\* Each kind of id has a store of its own.
ASSUME DistinctIds ==
    /\ IsFiniteSet(Challenges) /\ IsFiniteSet(Sliders)
    /\ IsFiniteSet(Proofs) /\ IsFiniteSet(Captchas)
    /\ Challenges \cap (Sliders \cup Proofs \cup Captchas) = {}
    /\ Sliders \cap (Proofs \cup Captchas) = {}
    /\ Proofs \cap Captchas = {}

VARIABLES
    store,      \* store[id]: what is stored under id
    wrong,      \* the column of that name in the row of the known user
    e2e,        \* the switch of the end-to-end tests, which reloads
    req,        \* req[r]: how far request r is
    faults,     \* requests that died so far
    credit,     \* history: passes earned and neither used nor lapsed
    tried       \* history: wrong passwords since the count was last forgotten

vars == <<store, wrong, e2e, req, faults, credit, tried>>

Ids == Challenges \cup Sliders \cup Proofs \cup Captchas

Purposes == {"login", "register"}

\* A registered, active user, and a name nobody has.
Names == {"known", "free"}

\* drag: it was earned with a valid drag, not under the switch.
Entry == [purpose : Purposes, name : Names \cup {"any"}, drag : BOOLEAN]

Absent == [purpose |-> "none", name |-> "none", drag |-> FALSE]

Steps == {"idle", "reading", "gating", "solving", "comparing", "recording",
          "finishing", "proving", "registering", "proofing", "issuing", "restoring"}

\* free: a slider proof opened the way to the comparison.
Request == [pc : Steps, purpose : Purposes \cup {"none"},
            name : Names \cup {"none"}, drag : BOOLEAN, free : BOOLEAN]

Idle == [pc |-> "idle", purpose |-> "none", name |-> "none",
         drag |-> FALSE, free |-> FALSE]

\* The steps of a login that has the user's row.
AfterRow == {"solving", "gating", "comparing", "recording"}

\* The passes there are: <<kind, purpose, name>>.
Passes == {<<"challenge", p, "any">> : p \in Purposes}
          \cup ({"slider", "proof"} \X Purposes \X Names)
          \cup {<<"captcha", "login", n>> : n \in Names}

Untried == [free |-> 0, uncounted |-> 0]

TypeOK ==
    /\ store \in [Ids -> Entry \cup {Absent}]
    /\ wrong \in 0 .. MaxWrong
    /\ e2e \in BOOLEAN
    /\ req \in [Requests -> Request]
    /\ \A r \in Requests : req[r].pc \in AfterRow => req[r].name = "known"
    /\ faults \in 0 .. MaxFaults
    /\ credit \in [Passes -> Int]
    /\ tried \in [free : Nat, uncounted : 0 .. MaxFaults]

Init ==
    /\ store = [id \in Ids |-> Absent]
    /\ wrong = 0
    /\ e2e \in BOOLEAN
    /\ req = [r \in Requests |-> Idle]
    /\ faults = 0
    /\ credit = [p \in Passes |-> 0]
    /\ tried = Untried
-----------------------------------------------------------------------------
(* The stores.                                                             *)

Goto(r, pc) == req' = [req EXCEPT ![r].pc = pc]

Finish(r) == req' = [req EXCEPT ![r] = Idle]

AnswerWithCaptcha(r, name) ==
    req' = [req EXCEPT ![r] = [Idle EXCEPT !.pc = "issuing", !.name = name]]

Stored(id) == store[id] # Absent

Kind(id) ==
    IF id \in Challenges THEN "challenge"
    ELSE IF id \in Sliders THEN "slider"
    ELSE IF id \in Proofs THEN "proof" ELSE "captcha"

Pass(id) == <<Kind(id), store[id].purpose, store[id].name>>

\* A proof got under the switch is nobody's credit.
Worth(id) == IF store[id].drag THEN 1 ELSE 0

Put(id, entry) ==
    /\ store' = [store EXCEPT ![id] = entry]
    /\ credit' = IF entry.drag
                 THEN [credit EXCEPT ![<<Kind(id), entry.purpose, entry.name>>] = @ + 1]
                 ELSE credit

\* Put under a new id, unless the bound on ids is reached: that one is lost.
PutNew(ids, entry) ==
    IF \A id \in ids : Stored(id) THEN UNCHANGED <<store, credit>>
    ELSE \E id \in ids : ~Stored(id) /\ Put(id, entry)

\* Mutant: the entry is read and left to expire.
Peek(id) == UNCHANGED store

\* GETDEL, or under the lock of the store in memory.
Take(id) == store' = [store EXCEPT ![id] = Absent]

\* Taken and of no use: its credit is gone with it.
Waste(id) ==
    /\ Take(id)
    /\ credit' = [credit EXCEPT ![Pass(id)] = @ - Worth(id)]

\* Taken and accepted as a pass.  Under the switch a captcha, and a proof got
\* under it, are good without one.
Use(id, pass) ==
    /\ Take(id)
    /\ credit' = [credit EXCEPT ![pass] =
                     IF e2e /\ (Kind(id) = "captcha" \/ ~store[id].drag)
                     THEN @ - Worth(id) ELSE @ - 1]

Expire(id) ==
    /\ Stored(id)
    /\ store' = [store EXCEPT ![id] = Absent]
    /\ credit' = [credit EXCEPT ![Pass(id)] = @ - Worth(id)]
    /\ UNCHANGED <<wrong, e2e, req, faults, tried>>
-----------------------------------------------------------------------------
(* Challenges, sliders and captchas.                                       *)

Challenge(purpose) ==
    /\ PutNew(Challenges, [purpose |-> purpose, name |-> "any", drag |-> TRUE])
    /\ UNCHANGED <<wrong, e2e, req, faults, tried>>

IssueSliderChallenge(s) ==
    /\ PutNew(Sliders, [purpose |-> s[1], name |-> s[2], drag |-> TRUE])
    /\ UNCHANGED <<wrong, e2e, req, faults, tried>>

\* A challenge is gone, also when it was for somebody else or the drag is invalid.
VerifySlider(r) ==
    /\ req[r].pc = "idle"
    /\ \E id \in Sliders, s \in Subjects, drag \in BOOLEAN :
         /\ Stored(id)
         /\ IF store[id].purpose = s[1] /\ store[id].name = s[2] /\ (e2e \/ drag)
            THEN /\ Use(id, <<"slider", s[1], s[2]>>)
                 /\ req' = [req EXCEPT ![r] =
                               [pc |-> "proofing", purpose |-> s[1], name |-> s[2],
                                drag |-> ~e2e, free |-> FALSE]]
            ELSE Waste(id) /\ UNCHANGED req
    /\ UNCHANGED <<wrong, e2e, faults, tried>>

PutProof(r) ==
    /\ req[r].pc = "proofing"
    /\ PutNew(Proofs, [purpose |-> req[r].purpose, name |-> req[r].name,
                       drag |-> req[r].drag])
    /\ Finish(r)
    /\ UNCHANGED <<wrong, e2e, faults, tried>>

\* Also the last step of every answer that carries a captcha.
NewChallenge(r) ==
    /\ req[r].pc = "issuing"
    /\ PutNew(Captchas, [purpose |-> "login", name |-> req[r].name, drag |-> TRUE])
    /\ Finish(r)
    /\ UNCHANGED <<wrong, e2e, faults, tried>>

LoginVerification(r) ==
    /\ req[r].pc = "idle"
    /\ wrong >= Threshold
    /\ AnswerWithCaptcha(r, "known")
    /\ UNCHANGED <<store, wrong, e2e, faults, credit, tried>>

RefreshChallenge(r) ==
    /\ req[r].pc = "idle"
    /\ \E id \in Captchas :
         /\ Stored(id)
         /\ Waste(id)
         /\ AnswerWithCaptcha(r, store[id].name)
    /\ UNCHANGED <<wrong, e2e, faults, tried>>

\* VerifyLoginCaptcha: what is solved is put back, with its credit.
VerifyLoginCaptcha(r) ==
    /\ req[r].pc = "idle"
    /\ \E name \in Names :
         \/ AnswerWithCaptcha(r, name) /\ UNCHANGED <<store, credit>>
         \/ \E id \in Captchas, solved \in BOOLEAN :
              /\ Stored(id)
              /\ Waste(id)
              /\ IF store[id].name = name /\ (solved \/ e2e)
                 THEN req' = [req EXCEPT ![r] = [Idle EXCEPT !.pc = "restoring", !.name = name]]
                 ELSE AnswerWithCaptcha(r, name)
    /\ UNCHANGED <<wrong, e2e, faults, tried>>

Restore(r) ==
    /\ req[r].pc = "restoring"
    /\ PutNew(Captchas, [purpose |-> "login", name |-> req[r].name, drag |-> TRUE])
    /\ Finish(r)
    /\ UNCHANGED <<wrong, e2e, faults, tried>>
-----------------------------------------------------------------------------
(* Login.                                                                  *)

\* A credential that cannot be decrypted takes nothing; one of the other type
\* takes its challenge.
Open(r) ==
    /\ req[r].pc = "idle"
    /\ \E id \in Challenges, name \in Names :
         /\ Stored(id)
         /\ IF store[id].purpose = "login"
            THEN /\ Use(id, <<"challenge", "login", "any">>)
                 /\ req' = [req EXCEPT ![r] = [Idle EXCEPT !.pc = "reading", !.name = name]]
            ELSE Waste(id) /\ UNCHANGED req
    /\ UNCHANGED <<wrong, e2e, faults, tried>>

\* Mutant: a name without a row is treated like one with a fresh row.
LoginUserUnchecked(r) ==
    /\ req[r].pc = "reading"
    /\ Goto(r, IF req[r].name = "known" /\ wrong >= Threshold THEN "solving" ELSE "gating")
    /\ UNCHANGED <<store, wrong, e2e, faults, credit, tried>>

\* loginUser: the number of wrong passwords is read once.
LoginUser(r) ==
    /\ req[r].pc = "reading"
    /\ IF req[r].name = "known"
       THEN Goto(r, IF wrong >= Threshold THEN "solving" ELSE "gating")
       ELSE Finish(r)
    /\ UNCHANGED <<store, wrong, e2e, faults, credit, tried>>

Verify(r) ==
    /\ req[r].pc = "solving"
    /\ \/ AnswerWithCaptcha(r, "known") /\ UNCHANGED <<store, credit>>
       \/ \E id \in Captchas, solved \in BOOLEAN :
            /\ Stored(id)
            /\ IF store[id].name = "known" /\ (solved \/ e2e)
               THEN /\ Use(id, <<"captcha", "login", "known">>)
                    /\ Goto(r, "comparing")
               ELSE Waste(id) /\ AnswerWithCaptcha(r, "known")
    /\ UNCHANGED <<wrong, e2e, faults, tried>>

\* A proof is gone, also when it is refused.
ConsumeProof(r, purpose, pc) ==
    \/ Finish(r) /\ UNCHANGED <<store, credit>>
    \/ \E id \in Proofs :
         /\ Stored(id)
         /\ IF /\ store[id].purpose = purpose /\ store[id].name = req[r].name
               /\ store[id].drag \/ e2e
            THEN /\ Use(id, <<"proof", purpose, req[r].name>>)
                 /\ req' = [req EXCEPT ![r] = [@ EXCEPT !.pc = pc, !.free = TRUE]]
            ELSE Waste(id) /\ Finish(r)

Gate(r) ==
    /\ req[r].pc = "gating"
    /\ ConsumeProof(r, "login", "comparing")
    /\ UNCHANGED <<wrong, e2e, faults, tried>>

IncorrectPassword(r) ==
    /\ req[r].pc = "comparing"
    /\ wrong < MaxWrong
    /\ tried' = IF req[r].free THEN [tried EXCEPT !.free = @ + 1] ELSE tried
    /\ req' = [req EXCEPT ![r] = [@ EXCEPT !.pc = "recording"]]
    /\ UNCHANGED <<store, wrong, e2e, faults, credit>>

CorrectPassword(r) ==
    /\ req[r].pc = "comparing"
    /\ req' = [req EXCEPT ![r] = [Idle EXCEPT !.pc = "finishing"]]
    /\ UNCHANGED <<store, wrong, e2e, faults, credit, tried>>

\* Mutant: a failure beside another is not counted.
RecordOnlyFirst(r) ==
    /\ req[r].pc = "recording"
    /\ wrong' = IF \E q \in Requests \ {r} : req[q].pc = "recording" THEN wrong ELSE wrong + 1
    /\ IF wrong' >= Threshold THEN AnswerWithCaptcha(r, "known") ELSE Finish(r)
    /\ UNCHANGED <<store, e2e, faults, credit, tried>>

RecordWrongPassword(r) ==
    /\ req[r].pc = "recording"
    /\ wrong < MaxWrong
    /\ wrong' = wrong + 1
    /\ IF wrong' >= Threshold THEN AnswerWithCaptcha(r, "known") ELSE Finish(r)
    /\ UNCHANGED <<store, e2e, faults, credit, tried>>

Forget == wrong' = 0 /\ tried' = Untried

\* The row may have changed: then the new session is revoked.
LoggedIn(r) ==
    /\ req[r].pc = "finishing"
    /\ Forget \/ UNCHANGED <<wrong, tried>>
    /\ Finish(r)
    /\ UNCHANGED <<store, e2e, faults, credit>>

\* ChangePassword and ResetPassword forget the count too.
PasswordReplaced ==
    /\ wrong > 0
    /\ Forget
    /\ UNCHANGED <<store, e2e, req, faults, credit>>
-----------------------------------------------------------------------------
(* Registration.                                                           *)

OpenRegistration(r) ==
    /\ req[r].pc = "idle"
    /\ \E id \in Challenges, name \in Names :
         /\ Stored(id) /\ <<"register", name>> \in Subjects
         /\ IF store[id].purpose = "register"
            THEN /\ Use(id, <<"challenge", "register", "any">>)
                 /\ req' = [req EXCEPT ![r] = [Idle EXCEPT !.pc = "proving", !.name = name]]
            ELSE Waste(id) /\ UNCHANGED req
    /\ UNCHANGED <<wrong, e2e, faults, tried>>

Prove(r) ==
    /\ req[r].pc = "proving"
    /\ ConsumeProof(r, "register", "registering")
    /\ UNCHANGED <<wrong, e2e, faults, tried>>

\* The new account waits for approval: it cannot log in yet.
Register(r) ==
    /\ req[r].pc = "registering"
    /\ Finish(r)
    /\ UNCHANGED <<store, wrong, e2e, faults, credit, tried>>
-----------------------------------------------------------------------------
\* A call fails, the client leaves or the process stops.
Abort(r) ==
    /\ req[r].pc # "idle"
    /\ faults < MaxFaults
    /\ faults' = faults + 1
    /\ tried' = IF req[r].pc = "recording" THEN [tried EXCEPT !.uncounted = @ + 1] ELSE tried
    /\ Finish(r)
    /\ UNCHANGED <<store, wrong, e2e, credit>>

Switch ==
    /\ e2e' = ~e2e
    /\ UNCHANGED <<store, wrong, req, faults, credit, tried>>

Next ==
    \/ \E id \in Ids : Expire(id)
    \/ \E purpose \in Purposes : Challenge(purpose)
    \/ \E s \in Subjects : IssueSliderChallenge(s)
    \/ \E r \in Requests :
          \/ VerifySlider(r) \/ PutProof(r)
          \/ LoginVerification(r) \/ RefreshChallenge(r) \/ VerifyLoginCaptcha(r)
          \/ NewChallenge(r) \/ Restore(r)
          \/ Open(r) \/ LoginUser(r) \/ Verify(r) \/ Gate(r)
          \/ IncorrectPassword(r) \/ CorrectPassword(r)
          \/ RecordWrongPassword(r) \/ LoggedIn(r)
          \/ OpenRegistration(r) \/ Prove(r) \/ Register(r)
          \/ Abort(r)
    \/ PasswordReplaced \/ Switch

Spec == Init /\ [][Next]_vars
-----------------------------------------------------------------------------
(* What must hold.                                                         *)

\* Every password comparison and every registration is paid with a challenge of
\* its type and with a drag, or a captcha, for its purpose and name, and each of
\* these pays once, however requests and the test switch interleave
\* (slider_captcha.go:159-165, captcha.go:187, 207: the entry is taken first and
\* then compared).
PassesAreEarned == \A p \in Passes : credit[p] >= 0

\* Between reading the count and adding to it others may come in, yet not often:
\* without a captcha no more wrong passwords are tried than the threshold allows
\* to each of the requests at once, unless one died before it counted its own.
FreeTriesAreBounded ==
    tried.free <= Threshold - 1 + Cardinality(Requests) + tried.uncounted

\* Only a proof can have been got without a drag; what lies in a store is a pass.
EntriesOK ==
    \A id \in Ids : Stored(id) => Pass(id) \in Passes /\ (store[id].drag \/ id \in Proofs)

\* The credit of a pass is what is stored of it: whatever takes an entry takes
\* its credit, and nothing is accepted that was not stored.
Earned(p) == {id \in Ids : store[id].drag /\ Pass(id) = p}

CreditOK == \A p \in Passes : credit[p] = Cardinality(Earned(p))

\* A request knows whom it acts for as long as it needs to.
RequestsOK ==
    \A r \in Requests :
        /\ req[r].pc \in {"proofing", "issuing", "restoring", "reading", "proving"} =>
              req[r].name \in Names
        /\ req[r].pc = "proofing" => req[r].purpose \in Purposes
        /\ req[r].pc \in {"reading", "solving"} => ~req[r].free

\* Those who have been let past the count without a captcha and have not tried
\* yet, and those who have tried and are not counted yet.
Waiting == {r \in Requests : \/ req[r].pc = "gating"
                             \/ req[r].pc = "comparing" /\ req[r].free}
Uncounted == {r \in Requests : req[r].pc = "recording" /\ req[r].free}

\* Every free try is counted, about to be, or lost with its request; so while
\* anybody is still let past the count there is room for all who are inside.
TriesOK ==
    /\ tried.free <= wrong + Cardinality(Uncounted) + tried.uncounted
    /\ tried.free + Cardinality(Waiting)
          <= Threshold - 1 + Cardinality(Requests) + tried.uncounted
    /\ tried.uncounted <= faults

\* The inductive invariant: the types, the ledger of passes, and the tries that
\* are still to come.
Inv == TypeOK /\ EntriesOK /\ CreditOK /\ RequestsOK /\ TriesOK
=============================================================================
