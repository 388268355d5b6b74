--------------------------- MODULE PasswordGuard ---------------------------
(***************************************************************************)
(* The guard of one user's password change.                                *)
(*                                                                         *)
(* ChangePassword lets whoever holds a session try the old password.  A    *)
(* counter outside the database numbers the wrong ones: from Threshold on  *)
(* each try costs a solved captcha, and at LockThreshold a flag in t_user  *)
(* ends them.  Lock, counter, captcha and password are read by a request   *)
(* one after the other, in three stores, while other requests, resets,     *)
(* administrators, the clock and restarts change them.                     *)
(***************************************************************************)
EXTENDS Integers, FiniteSets

CONSTANTS
    Requests,       \* requests of the user at once, in all replicas
    Captchas,       \* captchas that are answered, at once: a bound of the model
    Threshold,      \* wrong passwords before captchas
    LockThreshold,  \* wrong passwords before the lock
    FailureTTL,     \* life of the counter
    CaptchaTTL,     \* life of a captcha
    MaxTime,        \* the clock stops here: a bound of the model
    MaxVersion,     \* bound of the credential version
    MaxFaults       \* bound of failed calls and restarts

\* NewPasswordChangeGuard refuses other thresholds.
ASSUME GuardConfig ==
    /\ Threshold \in Nat \ {0}
    /\ LockThreshold \in Nat /\ LockThreshold > Threshold
    /\ FailureTTL \in Nat \ {0}
    /\ CaptchaTTL \in Nat \ {0}
    /\ MaxTime \in Nat \ {0}
    /\ MaxVersion \in Nat \ {0}
    /\ MaxFaults \in Nat
    /\ IsFiniteSet(Requests) /\ "none" \notin Captchas

VARIABLES
    now,        \* the clock
    row,        \* the user's row: version, first login due, lock flag
    failures,   \* the counter and its deadline
    captcha,    \* captcha[c]: the deadline of a stored captcha
    req,        \* req[r]: how far request r is
    admin,      \* the administrator: what he does and the form he holds
    faults,     \* failed calls and restarts so far
    tried,      \* history: wrong passwords tried
    spent,      \* history: how often captcha c was accepted
    deployment  \* "single": the stores are process memory; "replicas": Redis

vars == <<now, row, failures, captcha, req, admin, faults, tried, spent, deployment>>

Steps == {"idle", "opened", "counting", "verifying", "solving", "comparing",
          "recording", "locking", "clearing", "resetting", "issuing", "restoring"}

\* right: the old password typed is that of the identity's version.
Request == [pc : Steps, version : 0 .. MaxVersion, right : BOOLEAN,
            captcha : Captchas \cup {"none"}]

Idle == [pc |-> "idle", version |-> 0, right |-> FALSE, captcha |-> "none"]

NoFailures == [count |-> 0, expiredAt |-> 0]

\* A captcha that is not stored.
Absent == 0

\* Wrong passwords since the counter last began anew or the lock was lifted:
\* those before the lock, those of them without a captcha, those under the lock,
\* and those whose request died before it counted them.
Untried == [all |-> 0, free |-> 0, late |-> 0, uncounted |-> 0]

TypeOK ==
    /\ now \in 1 .. MaxTime
    /\ row \in [exists : BOOLEAN, version : 1 .. MaxVersion,
                fresh : BOOLEAN, locked : BOOLEAN]
    /\ failures \in [count : Nat, expiredAt : 0 .. now + FailureTTL]
    /\ captcha \in [Captchas -> 0 .. now + CaptchaTTL]
    /\ req \in [Requests -> Request]
    /\ \A r \in Requests : req[r].pc = "idle" => req[r] = Idle
    /\ admin \in [pc : {"idle", "clearing"}, form : {"none", "unlocked", "locked"}]
    /\ faults \in 0 .. MaxFaults
    /\ tried \in [all : Nat, free : Nat, late : Nat, uncounted : Nat]
    /\ spent \in [Captchas -> Nat]
    /\ deployment \in {"single", "replicas"}

Init ==
    /\ now = 1
    /\ row \in [exists : {TRUE}, version : {1}, fresh : BOOLEAN, locked : {FALSE}]
    /\ failures = NoFailures
    /\ captcha = [c \in Captchas |-> Absent]
    /\ req = [r \in Requests |-> Idle]
    /\ admin = [pc |-> "idle", form |-> "none"]
    /\ faults = 0
    /\ tried = Untried
    /\ spent = [c \in Captchas |-> 0]
    /\ deployment \in {"single", "replicas"}
-----------------------------------------------------------------------------
(* The stores.                                                              *)

Goto(r, pc) == req' = [req EXCEPT ![r].pc = pc]

Finish(r) == req' = [req EXCEPT ![r] = Idle]

AnswerWithCaptcha(r) == req' = [req EXCEPT ![r] = [Idle EXCEPT !.pc = "issuing"]]

Count == IF failures.expiredAt > now THEN failures.count ELSE 0

\* Mutant: the threshold itself is still free.
CaptchaRequiredAfter(count) == count > Threshold

CaptchaRequired(count) == count >= Threshold

LockRequired(count) == count >= LockThreshold

\* Mutant: every failure lengthens the life of the counter.
IncrementProlonging ==
    failures' = IF Count = 0
                THEN [count |-> 1, expiredAt |-> now + FailureTTL]
                ELSE [count |-> failures.count + 1, expiredAt |-> failures.expiredAt + FailureTTL]

\* The deadline is that of the first failure.
Increment ==
    failures' = IF Count = 0
                THEN [count |-> 1, expiredAt |-> now + FailureTTL]
                ELSE [failures EXCEPT !.count = @ + 1]

\* Forgetting the counter begins a new round, unless the lock replaced it.
ClearFailures ==
    /\ failures' = NoFailures
    /\ tried' = IF row.locked THEN tried ELSE Untried

Stored(c) == captcha[c] > now

Put(c) == captcha' = [captcha EXCEPT ![c] = now + CaptchaTTL]

Take(c) == captcha' = [captcha EXCEPT ![c] = Absent]

\* A request that took captcha c to check it puts it back; until then, and
\* while it is stored, the id is in use.
Restoring(c) == \E r \in Requests : req[r].pc = "restoring" /\ req[r].captcha = c
-----------------------------------------------------------------------------
(* Captchas.                                                                *)

BeginIssue(r) ==
    /\ req[r].pc = "idle"
    /\ Goto(r, "issuing")
    /\ UNCHANGED <<now, row, failures, captcha, admin, faults, tried, spent, deployment>>

\* Also the last step of every answer that asks for a captcha.  One for which
\* Captchas has no name left is never answered.
NewChallenge(r) ==
    /\ req[r].pc = "issuing"
    /\ LET unused == {c \in Captchas : ~Stored(c) /\ ~Restoring(c)} IN
       IF unused = {} THEN UNCHANGED <<captcha, spent, deployment>>
       ELSE \E c \in unused :
               /\ Put(c)
               /\ spent' = [spent EXCEPT ![c] = 0]
    /\ Finish(r)
    /\ UNCHANGED <<now, row, failures, admin, faults, tried, deployment>>

RefreshChallenge(r) ==
    /\ req[r].pc = "idle"
    /\ \E c \in Captchas : Stored(c) /\ Take(c)
    /\ Goto(r, "issuing")
    /\ UNCHANGED <<now, row, failures, admin, faults, tried, spent, deployment>>

\* Mutant: the captcha is only looked at.
CheckPeeking(r) ==
    /\ req[r].pc = "idle"
    /\ \E c \in Captchas :
          /\ Stored(c)
          /\ req' = [req EXCEPT ![r] = [Idle EXCEPT !.pc = "restoring", !.captcha = c]]
    /\ UNCHANGED <<now, row, failures, captcha, admin, faults, tried, spent, deployment>>

\* A try that is not the real one: what is solved is put back.
Check(r) ==
    /\ req[r].pc = "idle"
    /\ \E c \in Captchas, solved \in BOOLEAN :
          /\ Stored(c)
          /\ Take(c)
          /\ IF solved
             THEN req' = [req EXCEPT ![r] = [Idle EXCEPT !.pc = "restoring", !.captcha = c]]
             ELSE AnswerWithCaptcha(r)
    /\ UNCHANGED <<now, row, failures, admin, faults, tried, spent, deployment>>

Restore(r) ==
    /\ req[r].pc = "restoring"
    /\ Put(req[r].captcha)
    /\ Finish(r)
    /\ UNCHANGED <<now, row, failures, admin, faults, tried, spent, deployment>>
-----------------------------------------------------------------------------
(* ChangePassword.                                                          *)

\* The identity of the request is that of the row, and not one that owes a reset.
BeginChange(r) ==
    /\ req[r].pc = "idle"
    /\ row.exists /\ ~row.fresh
    /\ \E right \in BOOLEAN :
          req' = [req EXCEPT ![r] = [pc |-> "opened", version |-> row.version,
                                     right |-> right, captcha |-> "none"]]
    /\ UNCHANGED <<now, row, failures, captcha, admin, faults, tried, spent, deployment>>

PasswordChangeLocked(r) ==
    /\ req[r].pc = "opened"
    /\ IF row.exists /\ ~row.locked THEN Goto(r, "counting") ELSE Finish(r)
    /\ UNCHANGED <<now, row, failures, captcha, admin, faults, tried, spent, deployment>>

\* Mutant: a count that an earlier request could not turn into the lock is only
\* counted on.
FailureCountUnlocked(r) ==
    /\ req[r].pc = "counting"
    /\ Goto(r, IF CaptchaRequired(Count) THEN "verifying" ELSE "comparing")
    /\ UNCHANGED <<now, row, failures, captcha, admin, faults, tried, spent, deployment>>

FailureCount(r) ==
    /\ req[r].pc = "counting"
    /\ Goto(r, IF LockRequired(Count) THEN "locking"
               ELSE IF CaptchaRequired(Count) THEN "verifying" ELSE "comparing")
    /\ UNCHANGED <<now, row, failures, captcha, admin, faults, tried, spent, deployment>>

\* The guard asks the counter again.
Required(r) ==
    /\ req[r].pc = "verifying"
    /\ Goto(r, IF CaptchaRequired(Count) THEN "solving" ELSE "comparing")
    /\ UNCHANGED <<now, row, failures, captcha, admin, faults, tried, spent, deployment>>

\* A captcha is gone whether or not it was solved.
Verify(r) ==
    /\ req[r].pc = "solving"
    /\ \/ /\ \E c \in Captchas, solved \in BOOLEAN :
                /\ Stored(c)
                /\ Take(c)
                /\ IF solved
                   THEN /\ req' = [req EXCEPT ![r].pc = "comparing", ![r].captcha = c]
                        /\ spent' = [spent EXCEPT ![c] = @ + 1]
                   ELSE AnswerWithCaptcha(r) /\ UNCHANGED spent
       \/ /\ AnswerWithCaptcha(r)
          /\ UNCHANGED <<captcha, spent, deployment>>
    /\ UNCHANGED <<now, row, failures, admin, faults, tried, deployment>>

\* The row is still there with the password the session was opened with.
Current(r) == row.exists /\ row.version = req[r].version

\* Its transaction locks the row, and nothing in it waits for anybody.
ChangePassword(r) ==
    /\ req[r].pc = "comparing"
    /\ Current(r) /\ req[r].right
    /\ row.version < MaxVersion
    /\ row' = [row EXCEPT !.version = @ + 1]
    /\ tried' = Untried
    /\ Goto(r, "clearing")
    /\ UNCHANGED <<now, failures, captcha, admin, faults, spent, deployment>>

IncorrectPassword(r) ==
    /\ req[r].pc = "comparing"
    /\ Current(r) /\ ~req[r].right
    /\ tried' = IF row.locked THEN [tried EXCEPT !.late = @ + 1]
                ELSE [tried EXCEPT !.all = @ + 1,
                                   !.free = IF req[r].captcha = "none" THEN @ + 1 ELSE @]
    /\ Goto(r, "recording")
    /\ UNCHANGED <<now, row, failures, captcha, admin, faults, spent, deployment>>

\* Unauthorized, or the new password is the old one, which is answered with a
\* captcha where one was asked for.
Refused(r) ==
    /\ req[r].pc = "comparing"
    /\ Current(r) => req[r].right
    /\ Finish(r) \/ (Current(r) /\ AnswerWithCaptcha(r))
    /\ UNCHANGED <<now, row, failures, captcha, admin, faults, tried, spent, deployment>>

RecordFailure(r) ==
    /\ req[r].pc = "recording"
    /\ Increment
    /\ IF LockRequired(failures'.count) THEN Goto(r, "locking")
       ELSE IF CaptchaRequired(failures'.count) THEN AnswerWithCaptcha(r) ELSE Finish(r)
    /\ UNCHANGED <<now, row, captcha, admin, faults, tried, spent, deployment>>

\* The lock is for the user, whatever the password is now.
PersistPasswordChangeLock(r) ==
    /\ req[r].pc = "locking"
    /\ IF row.exists
       THEN row' = [row EXCEPT !.locked = TRUE] /\ Goto(r, "clearing")
       ELSE UNCHANGED row /\ Finish(r)
    /\ UNCHANGED <<now, failures, captcha, admin, faults, tried, spent, deployment>>

Clear(r) ==
    /\ req[r].pc = "clearing"
    /\ ClearFailures
    /\ Finish(r)
    /\ UNCHANGED <<now, row, captcha, admin, faults, spent, deployment>>
-----------------------------------------------------------------------------
(* Others who change the row.                                               *)

BeginReset(r) ==
    /\ req[r].pc = "idle"
    /\ row.exists /\ row.fresh
    /\ req' = [req EXCEPT ![r] = [Idle EXCEPT !.pc = "resetting", !.version = row.version]]
    /\ UNCHANGED <<now, row, failures, captcha, admin, faults, tried, spent, deployment>>

ResetPassword(r) ==
    /\ req[r].pc = "resetting"
    /\ IF Current(r) /\ row.fresh
       THEN /\ row.version < MaxVersion
            /\ row' = [row EXCEPT !.version = @ + 1, !.fresh = FALSE, !.locked = FALSE]
            /\ tried' = Untried
            /\ Goto(r, "clearing")
       ELSE Finish(r) /\ UNCHANGED <<row, tried>>
    /\ UNCHANGED <<now, failures, captcha, admin, faults, spent, deployment>>

\* A form shows the metadata as they are when it is opened.
OpenForm ==
    /\ row.exists
    /\ admin.pc = "idle"
    /\ admin' = [admin EXCEPT !.form = IF row.locked THEN "locked" ELSE "unlocked"]
    /\ UNCHANGED <<now, row, failures, captcha, req, faults, tried, spent, deployment>>

\* User.Update with the metadata of the form, a password, or both.
UpdateUser(metadata, password) ==
    /\ row.exists
    /\ admin.pc = "idle"
    /\ metadata => admin.form # "none"
    /\ metadata \/ password
    /\ password => row.version < MaxVersion
    /\ \E keep \in BOOLEAN :
         LET retained == metadata /\ keep /\ admin.form = "locked" /\ ~password IN
         /\ row' = [row EXCEPT !.version = IF password THEN @ + 1 ELSE @,
                               !.fresh = @ \/ password,
                               !.locked = retained]
         /\ tried' = IF password \/ (row.locked /\ ~retained) THEN Untried ELSE tried
         /\ admin' = [pc |-> IF retained THEN "idle" ELSE "clearing",
                      form |-> IF metadata THEN "none" ELSE admin.form]
    /\ UNCHANGED <<now, failures, captcha, req, faults, spent, deployment>>

ClearUpdated ==
    /\ admin.pc = "clearing"
    /\ admin' = [admin EXCEPT !.pc = "idle"]
    /\ ClearFailures
    /\ UNCHANGED <<now, row, captcha, req, faults, spent, deployment>>

DeleteUser ==
    /\ row.exists
    /\ row' = [row EXCEPT !.exists = FALSE]
    /\ UNCHANGED <<now, failures, captcha, req, admin, faults, tried, spent, deployment>>
-----------------------------------------------------------------------------
(* Time and failures.                                                       *)

Tick ==
    /\ now < MaxTime
    /\ now' = now + 1
    /\ IF failures.count > 0 /\ failures.expiredAt <= now'
       THEN ClearFailures ELSE UNCHANGED <<failures, tried>>
    /\ captcha' = [c \in Captchas |-> IF captcha[c] > now' THEN captcha[c] ELSE Absent]
    /\ UNCHANGED <<row, req, admin, faults, spent, deployment>>

Uncounted(rs) == Cardinality({r \in rs : req[r].pc = "recording"})

\* A call fails, or the client goes away: the request ends where it is.
Abort(r) ==
    /\ req[r].pc # "idle"
    /\ faults < MaxFaults
    /\ faults' = faults + 1
    /\ tried' = [tried EXCEPT !.uncounted = @ + Uncounted({r})]
    /\ Finish(r)
    /\ UNCHANGED <<now, row, failures, captcha, admin, spent, deployment>>

\* The update of an administrator succeeds although the counter stays.
AbortClear ==
    /\ admin.pc = "clearing"
    /\ faults < MaxFaults
    /\ faults' = faults + 1
    /\ admin' = [admin EXCEPT !.pc = "idle"]
    /\ UNCHANGED <<now, row, failures, captcha, req, tried, spent, deployment>>

\* Process memory is lost with the requests; Redis is not.
Restart ==
    /\ faults < MaxFaults
    /\ faults' = faults + 1
    /\ req' = [r \in Requests |-> Idle]
    /\ admin' = [admin EXCEPT !.pc = "idle"]
    /\ IF deployment = "single"
       THEN ClearFailures /\ captcha' = [c \in Captchas |-> Absent]
       ELSE /\ tried' = [tried EXCEPT !.uncounted = @ + Uncounted(Requests)]
            /\ UNCHANGED <<failures, captcha>>
    /\ UNCHANGED <<now, row, spent, deployment>>

Next ==
    \/ \E r \in Requests :
          \/ BeginIssue(r) \/ NewChallenge(r) \/ RefreshChallenge(r)
          \/ Check(r) \/ Restore(r)
          \/ BeginChange(r) \/ PasswordChangeLocked(r) \/ FailureCount(r)
          \/ Required(r) \/ Verify(r)
          \/ ChangePassword(r) \/ IncorrectPassword(r) \/ Refused(r)
          \/ RecordFailure(r) \/ PersistPasswordChangeLock(r) \/ Clear(r)
          \/ BeginReset(r) \/ ResetPassword(r)
          \/ Abort(r)
    \/ OpenForm
    \/ \E metadata, password \in BOOLEAN : UpdateUser(metadata, password)
    \/ ClearUpdated \/ AbortClear
    \/ DeleteUser
    \/ Tick \/ Restart

Spec == Init /\ [][Next]_vars
-----------------------------------------------------------------------------
(* What must hold.                                                          *)

\* Between the lock, the counter, the captcha and the password others may come
\* in, yet not often: no more wrong passwords are tried before the lock than the
\* threshold allows to each of the requests that are inside at once, unless a
\* request died before it counted its own.  The lock itself stops everybody who
\* was not inside when it was set: each request tries at most once more.
TriesAreBounded ==
    /\ tried.all <= LockThreshold - 1 + Cardinality(Requests) + tried.uncounted
    /\ tried.late <= Cardinality(Requests)

\* The same without a captcha.
FreeTriesAreBounded ==
    tried.free <= Threshold - 1 + Cardinality(Requests) + tried.uncounted

\* Checking takes a captcha and puts it back, refreshing and verifying take it
\* for good: a captcha is accepted once, and then never stored again.
CaptchaIsSpentOnce ==
    \A c \in Captchas :
        /\ spent[c] <= 1
        /\ spent[c] = 1 => ~Stored(c) /\ ~Restoring(c)

\* A counter that is above zero has not expired.
CountIsLive == failures.count > 0 => failures.expiredAt > now

\* A captcha that was taken to be checked is with one request, and nowhere else.
CaptchasOK ==
    /\ \A r \in Requests :
          req[r].pc = "restoring" => req[r].captcha \in Captchas /\ ~Stored(req[r].captcha)
    /\ \A q, r \in Requests :
          req[q].pc = "restoring" /\ req[r].pc = "restoring"
          /\ req[q].captcha = req[r].captcha => q = r

At(steps) == {r \in Requests : req[r].pc \in steps}
WithoutCaptcha(rs) == {r \in rs : req[r].captcha = "none"}

\* Those past the lock, those past the counter, and those who have tried.
Unstopped == At({"counting", "verifying", "solving", "comparing"})
Admitted == At({"verifying", "solving", "comparing"})
Trying == At({"comparing"})
Recording == At({"recording"})

\* Without the lock every try is counted, about to be, or lost with its request;
\* so while the counter still admits anybody there is room for all who are inside.
TriesOK ==
    ~row.locked =>
        /\ tried.all <= failures.count + Cardinality(Recording) + tried.uncounted
        /\ tried.free <= failures.count + Cardinality(WithoutCaptcha(Recording))
                           + tried.uncounted
        /\ tried.all + Cardinality(Admitted)
              <= LockThreshold - 1 + Cardinality(Requests) + tried.uncounted
        /\ tried.free + Cardinality(WithoutCaptcha(Trying))
              <= Threshold - 1 + Cardinality(Requests) + tried.uncounted
        /\ tried.late = 0

\* Under it only those try who were already past it.
LateOK == row.locked => tried.late + Cardinality(Unstopped) <= Cardinality(Requests)

\* The inductive invariant.  The lock forgets the counter, not the tries: what is
\* still to come depends on it, and the bounds are part of the invariant.
Inv ==
    /\ TypeOK
    /\ CountIsLive
    /\ CaptchasOK
    /\ CaptchaIsSpentOnce
    /\ TriesOK
    /\ LateOK
    /\ TriesAreBounded
    /\ FreeTriesAreBounded
=============================================================================
