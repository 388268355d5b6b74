-------------------------- MODULE PasswordGuardProofs --------------------------
(***************************************************************************)
(* Theorems about PasswordGuard, for every set of requests and captchas,   *)
(* all thresholds and lives, and every bound.                              *)
(***************************************************************************)
EXTENDS PasswordGuard, FiniteSetTheorems, TLAPS

\* The invariant in three: the types, where each captcha is, and the tries.
StateOK == TypeOK /\ CountIsLive

CaptchaOK == CaptchasOK /\ CaptchaIsSpentOnce

CountsOK == TriesOK /\ LateOK /\ TriesAreBounded /\ FreeTriesAreBounded

LEMMA InvParts == Inv <=> StateOK /\ CaptchaOK /\ CountsOK
  BY DEF Inv, StateOK, CaptchaOK, CountsOK

LEMMA Together == StateOK' /\ CaptchaOK' /\ CountsOK' => Inv'
  BY DEF Inv, StateOK, CaptchaOK, CountsOK

\* One request moves, the others stay where they are.
Moves(r) ==
    /\ req' \in [Requests -> Request]
    /\ \A q \in Requests \ {r} : req'[q] = req[q]
    /\ req'[r].pc = "idle" => req'[r] = Idle
-----------------------------------------------------------------------------
(* Requests.                                                               *)

LEMMA IdleTyped == Idle \in Request /\ Idle.pc = "idle" /\ Idle.captcha = "none"
  BY GuardConfig DEF Idle, Request, Steps

\* A request that goes on.
LEMMA GoneTo ==
    \A request \in Request, pc \in Steps :
        LET next == [request EXCEPT !.pc = pc]
        IN  next \in Request /\ next.pc = pc /\ next.captcha = request.captcha
  BY DEF Request

LEMMA GotoMoves ==
    ASSUME TypeOK, NEW r \in Requests
    PROVE  \A pc \in Steps \ {"idle"} :
              Goto(r, pc) => /\ Moves(r)
                             /\ req'[r].pc = pc
                             /\ req'[r].captcha = req[r].captcha
<1> SUFFICES ASSUME NEW pc \in Steps \ {"idle"}, Goto(r, pc)
             PROVE  /\ Moves(r)
                    /\ req'[r].pc = pc
                    /\ req'[r].captcha = req[r].captcha
  OBVIOUS
<1> DEFINE next == [req[r] EXCEPT !.pc = pc]
<1>1. req[r] \in Request
  BY DEF TypeOK
<1>2. next \in Request /\ next.pc = pc /\ next.captcha = req[r].captcha
  BY <1>1, GoneTo
<1>3. req' = [req EXCEPT ![r] = next]
  BY DEF Goto
<1> HIDE DEF next
<1>4. req \in [Requests -> Request]
  BY DEF TypeOK
<1> QED  BY <1>2, <1>3, <1>4 DEF Moves

LEMMA FinishMoves ==
    ASSUME TypeOK, NEW r \in Requests, Finish(r)
    PROVE  Moves(r) /\ req'[r].pc = "idle"
  BY IdleTyped DEF Finish, Moves, TypeOK

\* A request of which only the step and the captcha are known.
LEMMA IdleWith ==
    \A pc \in Steps \ {"idle"}, c \in Captchas \cup {"none"}, version \in 0 .. MaxVersion :
        LET next == [Idle EXCEPT !.pc = pc, !.captcha = c, !.version = version]
        IN  next \in Request /\ next.pc = pc /\ next.captcha = c
  BY DEF Idle, Request

LEMMA AnswerMoves ==
    ASSUME TypeOK, NEW r \in Requests, AnswerWithCaptcha(r)
    PROVE  Moves(r) /\ req'[r].pc = "issuing"
<1> DEFINE next == [Idle EXCEPT !.pc = "issuing"]
<1>1. next \in Request /\ next.pc = "issuing"
  BY IdleTyped, GoneTo DEF Steps
<1>2. req' = [req EXCEPT ![r] = next]
  BY DEF AnswerWithCaptcha
<1> HIDE DEF next
<1> QED  BY <1>1, <1>2 DEF Moves, TypeOK
-----------------------------------------------------------------------------
(* Counting requests.                                                      *)

LEMMA SomeOfThem ==
    /\ Cardinality(Requests) \in Nat
    /\ \A W, V \in SUBSET Requests :
          /\ IsFiniteSet(W) /\ Cardinality(W) \in Nat
          /\ Cardinality(W) <= Cardinality(Requests)
          /\ W \cap V = {} => Cardinality(W) + Cardinality(V) <= Cardinality(Requests)
<1>1. Cardinality(Requests) \in Nat
  BY GuardConfig, FS_CardinalityType
<1>2. ASSUME NEW W \in SUBSET Requests
      PROVE  /\ IsFiniteSet(W) /\ Cardinality(W) \in Nat
             /\ Cardinality(W) <= Cardinality(Requests)
  BY GuardConfig, FS_Subset, FS_CardinalityType
<1>3. ASSUME NEW W \in SUBSET Requests, NEW V \in SUBSET Requests, W \cap V = {}
      PROVE  Cardinality(W) + Cardinality(V) <= Cardinality(Requests)
  <2>1. Cardinality(W \cup V) = Cardinality(W) + Cardinality(V) - Cardinality({})
    BY <1>2, <1>3, FS_Union
  <2>2. Cardinality({}) = 0 /\ W \cup V \in SUBSET Requests
    BY FS_EmptySet
  <2> QED  BY <1>2, <2>1, <2>2
<1> QED  BY <1>1, <1>2, <1>3

\* One comes, or goes.
LEMMA OneOfThem ==
    \A W, V \in SUBSET Requests, r \in Requests :
        (\A q \in Requests \ {r} : q \in V <=> q \in W) =>
            Cardinality(V) = Cardinality(W) + (IF r \in V THEN 1 ELSE 0)
                                            - (IF r \in W THEN 1 ELSE 0)
<1> SUFFICES ASSUME NEW W \in SUBSET Requests, NEW V \in SUBSET Requests, NEW r \in Requests,
                    \A q \in Requests \ {r} : q \in V <=> q \in W
             PROVE  Cardinality(V) = Cardinality(W) + (IF r \in V THEN 1 ELSE 0)
                                                    - (IF r \in W THEN 1 ELSE 0)
  OBVIOUS
<1>1. IsFiniteSet(W) /\ Cardinality(W) \in Nat
  BY SomeOfThem
<1>2. CASE r \in V
  <2>1. V = W \cup {r}
    BY <1>2
  <2> QED  BY <1>1, <1>2, <2>1, FS_AddElement
<1>3. CASE r \notin V
  <2>1. V = W \ {r}
    BY <1>3
  <2> QED  BY <1>1, <1>3, <2>1, FS_RemoveElement
<1> QED  BY <1>2, <1>3

\* The five numbers of the invariant, and what there is room for.
Fits ==
    /\ Cardinality(Requests) \in Nat
    /\ Cardinality(Unstopped) \in Nat /\ Cardinality(Unstopped) <= Cardinality(Requests)
    /\ Cardinality(Admitted) \in Nat /\ Cardinality(Recording) \in Nat
    /\ Cardinality(WithoutCaptcha(Trying)) \in Nat
    /\ Cardinality(WithoutCaptcha(Recording)) \in Nat
    /\ Cardinality(Admitted) + Cardinality(Recording) <= Cardinality(Requests)
    /\ Cardinality(WithoutCaptcha(Trying)) + Cardinality(WithoutCaptcha(Recording))
          <= Cardinality(Requests)

LEMMA Subsets ==
    /\ Unstopped \in SUBSET Requests /\ Admitted \in SUBSET Requests
    /\ Trying \in SUBSET Requests /\ Recording \in SUBSET Requests
    /\ WithoutCaptcha(Trying) \in SUBSET Requests
    /\ WithoutCaptcha(Recording) \in SUBSET Requests
    /\ Admitted \cap Recording = {}
    /\ WithoutCaptcha(Trying) \cap WithoutCaptcha(Recording) = {}
  BY DEF Unstopped, Admitted, Trying, Recording, WithoutCaptcha, At

LEMMA AllFit == Fits
  BY Subsets, SomeOfThem DEF Fits

LEMMA AllFitNext == Fits'
  BY AllFit, PTL

One(condition) == IF condition THEN 1 ELSE 0

\* How they change when one request moves.
LEMMA Moved ==
    ASSUME TypeOK, NEW r \in Requests, Moves(r)
    PROVE  /\ Cardinality(Unstopped') = Cardinality(Unstopped)
                 + One(req'[r].pc \in {"counting", "verifying", "solving", "comparing"})
                 - One(req[r].pc \in {"counting", "verifying", "solving", "comparing"})
           /\ Cardinality(Admitted') = Cardinality(Admitted)
                 + One(req'[r].pc \in {"verifying", "solving", "comparing"})
                 - One(req[r].pc \in {"verifying", "solving", "comparing"})
           /\ Cardinality(Recording') = Cardinality(Recording)
                 + One(req'[r].pc = "recording") - One(req[r].pc = "recording")
           /\ Cardinality(WithoutCaptcha(Trying)') = Cardinality(WithoutCaptcha(Trying))
                 + One(req'[r].pc = "comparing" /\ req'[r].captcha = "none")
                 - One(req[r].pc = "comparing" /\ req[r].captcha = "none")
           /\ Cardinality(WithoutCaptcha(Recording)') = Cardinality(WithoutCaptcha(Recording))
                 + One(req'[r].pc = "recording" /\ req'[r].captcha = "none")
                 - One(req[r].pc = "recording" /\ req[r].captcha = "none")
<1>1. /\ Unstopped' \in SUBSET Requests /\ Admitted' \in SUBSET Requests
      /\ Recording' \in SUBSET Requests
      /\ WithoutCaptcha(Trying)' \in SUBSET Requests
      /\ WithoutCaptcha(Recording)' \in SUBSET Requests
  BY DEF Unstopped, Admitted, Trying, Recording, WithoutCaptcha, At
<1>2. \A q \in Requests \ {r} :
         /\ q \in Unstopped' <=> q \in Unstopped
         /\ q \in Admitted' <=> q \in Admitted
         /\ q \in Recording' <=> q \in Recording
         /\ q \in WithoutCaptcha(Trying)' <=> q \in WithoutCaptcha(Trying)
         /\ q \in WithoutCaptcha(Recording)' <=> q \in WithoutCaptcha(Recording)
  BY DEF Moves, Unstopped, Admitted, Trying, Recording, WithoutCaptcha, At
<1>3. /\ r \in Unstopped <=> req[r].pc \in {"counting", "verifying", "solving", "comparing"}
      /\ r \in Admitted <=> req[r].pc \in {"verifying", "solving", "comparing"}
      /\ r \in Recording <=> req[r].pc = "recording"
      /\ r \in WithoutCaptcha(Trying)
            <=> req[r].pc = "comparing" /\ req[r].captcha = "none"
      /\ r \in WithoutCaptcha(Recording)
            <=> req[r].pc = "recording" /\ req[r].captcha = "none"
  BY DEF Unstopped, Admitted, Trying, Recording, WithoutCaptcha, At
<1>4. /\ r \in Unstopped' <=> req'[r].pc \in {"counting", "verifying", "solving", "comparing"}
      /\ r \in Admitted' <=> req'[r].pc \in {"verifying", "solving", "comparing"}
      /\ r \in Recording' <=> req'[r].pc = "recording"
      /\ r \in WithoutCaptcha(Trying)'
            <=> req'[r].pc = "comparing" /\ req'[r].captcha = "none"
      /\ r \in WithoutCaptcha(Recording)'
            <=> req'[r].pc = "recording" /\ req'[r].captcha = "none"
  BY DEF Unstopped, Admitted, Trying, Recording, WithoutCaptcha, At
<1>5. Cardinality(Unstopped') = Cardinality(Unstopped)
           + (IF r \in Unstopped' THEN 1 ELSE 0) - (IF r \in Unstopped THEN 1 ELSE 0)
  BY <1>1, <1>2, Subsets, OneOfThem
<1>6. Cardinality(Admitted') = Cardinality(Admitted)
           + (IF r \in Admitted' THEN 1 ELSE 0) - (IF r \in Admitted THEN 1 ELSE 0)
  BY <1>1, <1>2, Subsets, OneOfThem
<1>7. Cardinality(Recording') = Cardinality(Recording)
           + (IF r \in Recording' THEN 1 ELSE 0) - (IF r \in Recording THEN 1 ELSE 0)
  BY <1>1, <1>2, Subsets, OneOfThem
<1>8. Cardinality(WithoutCaptcha(Trying)') = Cardinality(WithoutCaptcha(Trying))
           + (IF r \in WithoutCaptcha(Trying)' THEN 1 ELSE 0)
           - (IF r \in WithoutCaptcha(Trying) THEN 1 ELSE 0)
  BY <1>1, <1>2, Subsets, OneOfThem
<1>9. Cardinality(WithoutCaptcha(Recording)') = Cardinality(WithoutCaptcha(Recording))
           + (IF r \in WithoutCaptcha(Recording)' THEN 1 ELSE 0)
           - (IF r \in WithoutCaptcha(Recording) THEN 1 ELSE 0)
  BY <1>1, <1>2, Subsets, OneOfThem
<1> QED  BY <1>3, <1>4, <1>5, <1>6, <1>7, <1>8, <1>9 DEF One
-----------------------------------------------------------------------------
(* The tries.                                                              *)

LEMMA Numbers ==
    ASSUME StateOK
    PROVE  /\ failures.count \in Nat
           /\ tried.all \in Nat /\ tried.free \in Nat
           /\ tried.late \in Nat /\ tried.uncounted \in Nat
           /\ Threshold \in Nat /\ LockThreshold \in Nat
           /\ Threshold > 0 /\ LockThreshold > Threshold
           /\ row.locked \in BOOLEAN /\ now \in Nat
           /\ Count = failures.count
<1>1. /\ failures.count \in Nat /\ now \in Nat /\ row.locked \in BOOLEAN
      /\ tried.all \in Nat /\ tried.free \in Nat
      /\ tried.late \in Nat /\ tried.uncounted \in Nat
  BY GuardConfig DEF StateOK, TypeOK
<1>2. Count = failures.count
  BY <1>1 DEF StateOK, CountIsLive, Count
<1> QED  BY <1>1, <1>2, GuardConfig

\* A request goes on without a try.  It gets past the lock only if there is none,
\* past the counter only below the threshold of the lock, and to the comparison
\* without a captcha only below that of the captchas.
LEMMA QuietCounts ==
    ASSUME StateOK, CountsOK, NEW r \in Requests, Moves(r),
           row'.locked = row.locked, failures'.count = failures.count, tried' = tried,
           req[r].pc # "recording", req'[r].pc # "recording",
           req'[r].pc \in {"counting", "verifying", "solving", "comparing"} =>
              ~row.locked \/ req[r].pc \in {"counting", "verifying", "solving", "comparing"},
           req'[r].pc \in {"verifying", "solving", "comparing"} =>
              \/ failures.count < LockThreshold
              \/ req[r].pc \in {"verifying", "solving", "comparing"},
           req'[r].pc = "comparing" /\ req'[r].captcha = "none" =>
              \/ failures.count < Threshold
              \/ req[r].pc = "comparing" /\ req[r].captcha = "none"
    PROVE  CountsOK'
<1>1. /\ Cardinality(Recording') = Cardinality(Recording)
      /\ Cardinality(WithoutCaptcha(Recording)') = Cardinality(WithoutCaptcha(Recording))
  BY Moved, AllFit DEF One, Fits, StateOK
<1>2. CASE row.locked
  <2>1. Cardinality(Unstopped') <= Cardinality(Unstopped)
    BY <1>2, Moved, AllFit, AllFitNext DEF One, Fits, StateOK
  <2> QED  BY <1>2, <2>1, Numbers, AllFit, AllFitNext
           DEF CountsOK, TriesOK, LateOK, TriesAreBounded, FreeTriesAreBounded, Fits
<1>3. CASE ~row.locked
  <2>1. tried.all + Cardinality(Admitted')
           <= LockThreshold - 1 + Cardinality(Requests) + tried.uncounted
    <3>1. CASE Cardinality(Admitted') <= Cardinality(Admitted)
      BY <1>3, <3>1, Numbers, AllFit, AllFitNext DEF CountsOK, TriesOK, Fits
    <3>2. CASE ~(Cardinality(Admitted') <= Cardinality(Admitted))
      <4>1. failures.count < LockThreshold
        BY <3>2, Moved, AllFit DEF One, Fits, StateOK
      <4> QED  BY <1>1, <1>3, <4>1, Numbers, AllFit, AllFitNext DEF CountsOK, TriesOK, Fits
    <3> QED  BY <3>1, <3>2
  <2>2. tried.free + Cardinality(WithoutCaptcha(Trying)')
           <= Threshold - 1 + Cardinality(Requests) + tried.uncounted
    <3>1. CASE Cardinality(WithoutCaptcha(Trying)') <= Cardinality(WithoutCaptcha(Trying))
      BY <1>3, <3>1, Numbers, AllFit, AllFitNext DEF CountsOK, TriesOK, Fits
    <3>2. CASE ~(Cardinality(WithoutCaptcha(Trying)') <= Cardinality(WithoutCaptcha(Trying)))
      <4>1. failures.count < Threshold
        BY <3>2, Moved, AllFit DEF One, Fits, StateOK
      <4> QED  BY <1>1, <1>3, <4>1, Numbers, AllFit, AllFitNext DEF CountsOK, TriesOK, Fits
    <3> QED  BY <3>1, <3>2
  <2> QED  BY <1>1, <1>3, <2>1, <2>2
           DEF CountsOK, TriesOK, LateOK, TriesAreBounded, FreeTriesAreBounded
<1> QED  BY <1>2, <1>3, Numbers

\* A request that leaves without a try.
LEMMA LeavingCounts ==
    ASSUME StateOK, CountsOK, NEW r \in Requests, Moves(r),
           row'.locked = row.locked, failures'.count = failures.count, tried' = tried,
           req[r].pc # "recording",
           req'[r].pc \in {"idle", "opened", "issuing", "restoring", "resetting",
                           "clearing", "locking"}
    PROVE  CountsOK'
  BY QuietCounts

\* With nothing tried there is room for everybody.
LEMMA FreshCounts ==
    ASSUME StateOK, tried' = Untried, failures'.count \in Nat
    PROVE  CountsOK'
<1>1. tried'.all = 0 /\ tried'.free = 0 /\ tried'.late = 0 /\ tried'.uncounted = 0
  BY DEF Untried
<1> QED  BY <1>1, Numbers, AllFitNext
         DEF CountsOK, TriesOK, LateOK, TriesAreBounded, FreeTriesAreBounded, Fits

\* Under the lock only the late tries matter.
LEMMA LockedCounts ==
    ASSUME StateOK, CountsOK, row'.locked,
           tried'.all = tried.all, tried'.free = tried.free,
           tried'.uncounted \in Nat, tried'.uncounted >= tried.uncounted,
           tried'.late \in Nat,
           tried'.late + Cardinality(Unstopped') <= Cardinality(Requests)
    PROVE  CountsOK'
  BY Numbers, AllFitNext
  DEF CountsOK, TriesOK, LateOK, TriesAreBounded, FreeTriesAreBounded, Fits

\* A request that has tried is counted, or lost.
LEMMA EndingCounts ==
    ASSUME StateOK, CountsOK, NEW r \in Requests, Moves(r),
           row'.locked = row.locked,
           req'[r].pc \in {"idle", "issuing", "locking"},
           failures'.count \in {failures.count, failures.count + 1},
           tried'.all = tried.all, tried'.free = tried.free, tried'.late = tried.late,
           tried'.uncounted \in {tried.uncounted, tried.uncounted + 1},
           req[r].pc = "recording" =>
              \/ failures'.count = failures.count + 1
              \/ tried'.uncounted = tried.uncounted + 1
    PROVE  CountsOK'
<1>1. /\ Cardinality(Unstopped') <= Cardinality(Unstopped)
      /\ Cardinality(Admitted') <= Cardinality(Admitted)
      /\ Cardinality(WithoutCaptcha(Trying)') <= Cardinality(WithoutCaptcha(Trying))
  BY Moved, AllFit DEF One, Fits, StateOK
<1>2. CASE row.locked
  <2>1. tried'.late + Cardinality(Unstopped') <= Cardinality(Requests)
    BY <1>1, <1>2, Numbers, AllFit, AllFitNext DEF CountsOK, LateOK, Fits
  <2> QED  BY <1>2, <2>1, Numbers, LockedCounts
<1>3. CASE ~row.locked
  <2>1. failures'.count + Cardinality(Recording') + tried'.uncounted
           >= failures.count + Cardinality(Recording) + tried.uncounted
    BY Moved, Numbers, AllFit DEF One, Fits, StateOK
  <2>2. failures'.count + Cardinality(WithoutCaptcha(Recording)') + tried'.uncounted
           >= failures.count + Cardinality(WithoutCaptcha(Recording)) + tried.uncounted
    BY Moved, Numbers, AllFit DEF One, Fits, StateOK
  <2>3. TriesOK
    BY DEF CountsOK
  <2>4. TriesOK'
    <3>1. tried'.all <= failures'.count + Cardinality(Recording') + tried'.uncounted
      BY <1>3, <2>1, <2>3, Numbers, AllFit, AllFitNext DEF TriesOK, Fits
    <3>2. tried'.free <= failures'.count + Cardinality(WithoutCaptcha(Recording)')
                          + tried'.uncounted
      BY <1>3, <2>2, <2>3, Numbers, AllFit, AllFitNext DEF TriesOK, Fits
    <3>3. tried'.all + Cardinality(Admitted')
             <= LockThreshold - 1 + Cardinality(Requests) + tried'.uncounted
      BY <1>1, <1>3, <2>3, Numbers, AllFit, AllFitNext DEF TriesOK, Fits
    <3>4. tried'.free + Cardinality(WithoutCaptcha(Trying)')
             <= Threshold - 1 + Cardinality(Requests) + tried'.uncounted
      BY <1>1, <1>3, <2>3, Numbers, AllFit, AllFitNext DEF TriesOK, Fits
    <3> QED  BY <1>3, <2>3, <3>1, <3>2, <3>3, <3>4 DEF TriesOK
  <2>5. TriesAreBounded' /\ FreeTriesAreBounded' /\ LateOK'
    BY <1>3, <2>3, <2>4, Numbers, AllFitNext
    DEF TriesOK, LateOK, TriesAreBounded, FreeTriesAreBounded, Fits
  <2> QED  BY <2>4, <2>5 DEF CountsOK
<1> QED  BY <1>2, <1>3, Numbers

LEMMA CountsStay ==
    ASSUME CountsOK, UNCHANGED <<req, tried>>, row'.locked = row.locked,
           failures'.count = failures.count
    PROVE  CountsOK'
  BY DEF CountsOK, TriesOK, LateOK, TriesAreBounded, FreeTriesAreBounded,
         Unstopped, Admitted, Trying, Recording, WithoutCaptcha, At
-----------------------------------------------------------------------------
(* The captchas.                                                           *)

\* Nothing new is stored or taken to be checked.
LEMMA CaptchasShrink ==
    ASSUME CaptchaOK, UNCHANGED spent,
           \A c \in Captchas : Stored(c)' => Stored(c),
           \A r \in Requests :
              req'[r].pc = "restoring" =>
                 req[r].pc = "restoring" /\ req'[r].captcha = req[r].captcha
    PROVE  CaptchaOK'
<1>1. CaptchasOK'
  BY DEF CaptchaOK, CaptchasOK
<1>2. \A c \in Captchas : Restoring(c)' => Restoring(c)
  BY DEF Restoring
<1>3. CaptchaIsSpentOnce'
  BY <1>2 DEF CaptchaOK, CaptchaIsSpentOnce
<1> QED  BY <1>1, <1>3 DEF CaptchaOK

\* A captcha that is taken is stored no longer; the others are as they were.
LEMMA Taken ==
    ASSUME StateOK, NEW c \in Captchas, Take(c), UNCHANGED now
    PROVE  /\ captcha' \in [Captchas -> 0 .. now + CaptchaTTL]
           /\ ~Stored(c)'
           /\ \A d \in Captchas \ {c} : Stored(d)' <=> Stored(d)
  BY GuardConfig DEF StateOK, TypeOK, Take, Stored, Absent

LEMMA PutBack ==
    ASSUME StateOK, NEW c \in Captchas, Put(c), UNCHANGED now
    PROVE  /\ captcha' \in [Captchas -> 0 .. now + CaptchaTTL]
           /\ Stored(c)'
           /\ \A d \in Captchas \ {c} : Stored(d)' <=> Stored(d)
<1>1. now \in Nat /\ CaptchaTTL \in Nat \ {0}
  BY GuardConfig DEF StateOK, TypeOK
<1>2. now + CaptchaTTL \in 0 .. now + CaptchaTTL /\ now + CaptchaTTL > now
  BY <1>1
<1> QED  BY <1>2 DEF StateOK, TypeOK, Put, Stored

\* A step of one request that leaves the captchas where they are.
LEMMA CaptchasRest ==
    ASSUME CaptchaOK, NEW r \in Requests, Moves(r), UNCHANGED <<now, captcha, spent>>,
           req'[r].pc # "restoring"
    PROVE  CaptchaOK'
<1>1. \A c \in Captchas : Stored(c)' <=> Stored(c)
  BY DEF Stored
<1> QED  BY <1>1, CaptchasShrink DEF Moves

\* One that takes a captcha for good.
LEMMA CaptchasTaken ==
    ASSUME StateOK, CaptchaOK, NEW r \in Requests, Moves(r), UNCHANGED <<now, spent>>,
           req'[r].pc # "restoring",
           \E c \in Captchas : Take(c)
    PROVE  CaptchaOK'
<1>1. \A c \in Captchas : Stored(c)' => Stored(c)
  BY Taken
<1> QED  BY <1>1, CaptchasShrink DEF Moves

\* One that takes it, and it was solved.
LEMMA CaptchasSpent ==
    ASSUME StateOK, CaptchaOK, NEW r \in Requests, Moves(r), UNCHANGED now,
           req'[r].pc # "restoring",
           \E c \in Captchas : /\ Stored(c) /\ Take(c)
                              /\ spent' = [spent EXCEPT ![c] = @ + 1]
    PROVE  CaptchaOK'
<1>1. PICK c \in Captchas : /\ Stored(c) /\ Take(c)
                            /\ spent' = [spent EXCEPT ![c] = @ + 1]
  OBVIOUS
<1>2. /\ ~Stored(c)'
      /\ \A d \in Captchas \ {c} : Stored(d)' <=> Stored(d)
  BY <1>1, Taken
<1>3. spent \in [Captchas -> Nat] /\ spent[c] = 0
  BY <1>1 DEF StateOK, TypeOK, CaptchaOK, CaptchaIsSpentOnce
<1>4. \A q \in Requests : req'[q].pc = "restoring" => req'[q] = req[q]
  BY DEF Moves
<1>5. CaptchasOK'
  BY <1>2, <1>4 DEF CaptchaOK, CaptchasOK
<1>6. ~Restoring(c)'
  BY <1>1, <1>4 DEF CaptchaOK, CaptchasOK, Restoring
<1>7. \A d \in Captchas \ {c} : Restoring(d)' => Restoring(d)
  BY <1>4 DEF Restoring
<1>8. /\ spent'[c] = 1
      /\ \A d \in Captchas \ {c} : spent'[d] = spent[d]
  BY <1>1, <1>3
<1>9. CaptchaIsSpentOnce'
  BY <1>2, <1>6, <1>7, <1>8 DEF CaptchaOK, CaptchaIsSpentOnce
<1> QED  BY <1>5, <1>9 DEF CaptchaOK

\* One that takes it to put it back.
LEMMA CaptchasChecked ==
    ASSUME StateOK, CaptchaOK, NEW r \in Requests, Moves(r), UNCHANGED <<now, spent>>,
           req[r].pc # "restoring", req'[r].pc = "restoring",
           \E c \in Captchas : Stored(c) /\ Take(c) /\ req'[r].captcha = c
    PROVE  CaptchaOK'
<1>1. PICK c \in Captchas : Stored(c) /\ Take(c) /\ req'[r].captcha = c
  OBVIOUS
<1>2. /\ ~Stored(c)'
      /\ \A d \in Captchas \ {c} : Stored(d)' <=> Stored(d)
  BY <1>1, Taken
<1>3. spent[c] = 0
  BY <1>1 DEF StateOK, TypeOK, CaptchaOK, CaptchaIsSpentOnce
<1>4. \A q \in Requests \ {r} : req'[q] = req[q]
  BY DEF Moves
<1>5. \A q \in Requests \ {r} : req'[q].pc = "restoring" => req'[q].captcha # c
  BY <1>1, <1>4 DEF CaptchaOK, CaptchasOK
<1>6. CaptchasOK'
  <2>1. ASSUME NEW q \in Requests, req'[q].pc = "restoring"
        PROVE  req'[q].captcha \in Captchas /\ ~Stored(req[q].captcha)'
    <3>1. CASE q = r
      BY <1>1, <1>2, <3>1
    <3>2. CASE q # r
      <4>1. req'[q] = req[q] /\ req[q].captcha \in Captchas \ {c} /\ ~Stored(req[q].captcha)
        BY <1>4, <1>5, <2>1, <3>2 DEF CaptchaOK, CaptchasOK
      <4> QED  BY <1>2, <4>1
    <3> QED  BY <3>1, <3>2
  <2>2. ASSUME NEW p \in Requests, NEW q \in Requests,
               req'[p].pc = "restoring", req'[q].pc = "restoring",
               req'[p].captcha = req'[q].captcha
        PROVE  p = q
    BY <1>1, <1>4, <1>5, <2>2 DEF CaptchaOK, CaptchasOK
  <2> QED  BY <2>1, <2>2 DEF CaptchasOK
<1>7. \A d \in Captchas \ {c} : Restoring(d)' => Restoring(d)
  BY <1>1, <1>4 DEF Restoring
<1>8. CaptchaIsSpentOnce'
  BY <1>2, <1>3, <1>7 DEF CaptchaOK, CaptchaIsSpentOnce
<1> QED  BY <1>6, <1>8 DEF CaptchaOK

\* One that puts it back.
LEMMA CaptchasRestored ==
    ASSUME StateOK, CaptchaOK, NEW r \in Requests, Moves(r), UNCHANGED <<now, spent>>,
           req[r].pc = "restoring", req'[r].pc # "restoring",
           Put(req[r].captcha)
    PROVE  CaptchaOK'
<1> DEFINE c == req[r].captcha
<1>1. c \in Captchas /\ Put(c)
  BY DEF CaptchaOK, CaptchasOK
<1>2. \A d \in Captchas \ {c} : Stored(d)' <=> Stored(d)
  BY <1>1, PutBack
<1>3. Restoring(c)
  BY DEF Restoring
<1>4. spent[c] = 0
  BY <1>1, <1>3 DEF StateOK, TypeOK, CaptchaOK, CaptchaIsSpentOnce
<1>5. \A q \in Requests \ {r} : req'[q] = req[q]
  BY DEF Moves
<1>6. \A q \in Requests \ {r} : req'[q].pc = "restoring" => req'[q].captcha # c
  BY <1>5 DEF CaptchaOK, CaptchasOK
<1> HIDE DEF c
<1>7. CaptchasOK'
  BY <1>2, <1>5, <1>6 DEF CaptchaOK, CaptchasOK
<1>8. \A d \in Captchas \ {c} : Restoring(d)' => Restoring(d)
  BY <1>5 DEF Restoring
<1>9. CaptchaIsSpentOnce'
  BY <1>1, <1>2, <1>4, <1>8 DEF CaptchaOK, CaptchaIsSpentOnce
<1> QED  BY <1>7, <1>9 DEF CaptchaOK

\* One that puts a new one where no one is.
LEMMA CaptchasIssued ==
    ASSUME StateOK, CaptchaOK, NEW r \in Requests, Moves(r), UNCHANGED now,
           req'[r].pc # "restoring",
           \E c \in Captchas : /\ ~Stored(c) /\ ~Restoring(c) /\ Put(c)
                              /\ spent' = [spent EXCEPT ![c] = 0]
    PROVE  CaptchaOK'
<1>1. PICK c \in Captchas : /\ ~Stored(c) /\ ~Restoring(c) /\ Put(c)
                            /\ spent' = [spent EXCEPT ![c] = 0]
  OBVIOUS
<1>2. \A d \in Captchas \ {c} : Stored(d)' <=> Stored(d)
  BY <1>1, PutBack
<1>3. \A q \in Requests : req'[q].pc = "restoring" => req'[q] = req[q]
  BY DEF Moves
<1>4. \A q \in Requests : req'[q].pc = "restoring" => req'[q].captcha # c
  BY <1>1, <1>3 DEF Restoring
<1>5. CaptchasOK'
  BY <1>2, <1>3, <1>4 DEF CaptchaOK, CaptchasOK
<1>6. \A d \in Captchas \ {c} : Restoring(d)' => Restoring(d)
  BY <1>3 DEF Restoring
<1>7. /\ spent'[c] = 0
      /\ \A d \in Captchas \ {c} : spent'[d] = spent[d]
  BY <1>1 DEF StateOK, TypeOK
<1>8. CaptchaIsSpentOnce'
  BY <1>2, <1>6, <1>7 DEF CaptchaOK, CaptchaIsSpentOnce
<1> QED  BY <1>5, <1>8 DEF CaptchaOK
-----------------------------------------------------------------------------
(* The actions: first those of one request that only moves.                *)

\* The types when time stands and a request moves.
LEMMA TypesMove ==
    ASSUME StateOK, NEW r \in Requests, Moves(r), UNCHANGED <<now, deployment, admin>>,
           row' \in [exists : BOOLEAN, version : 1 .. MaxVersion,
                     fresh : BOOLEAN, locked : BOOLEAN],
           failures' = failures \/ failures' = NoFailures \/ Increment,
           captcha' \in [Captchas -> 0 .. now + CaptchaTTL],
           spent' \in [Captchas -> Nat],
           faults' \in 0 .. MaxFaults,
           tried' \in [all : Nat, free : Nat, late : Nat, uncounted : Nat]
    PROVE  StateOK'
<1>1. now \in Nat /\ FailureTTL \in Nat \ {0} /\ 0 \in 0 .. now + FailureTTL
  BY GuardConfig DEF StateOK, TypeOK
<1>2. \A q \in Requests : req'[q].pc = "idle" => req'[q] = Idle
  BY DEF StateOK, TypeOK, Moves
<1>3. failures' \in [count : Nat, expiredAt : 0 .. now + FailureTTL] /\ CountIsLive'
  <2>1. CASE failures' = failures
    BY <2>1 DEF StateOK, TypeOK, CountIsLive
  <2>2. CASE failures' = NoFailures
    BY <1>1, <2>2 DEF NoFailures, CountIsLive
  <2>3. CASE Increment
    <3>1. CASE Count = 0
      <4>1. now + FailureTTL \in 0 .. now + FailureTTL /\ now + FailureTTL > now
        BY <1>1
      <4> QED  BY <2>3, <3>1, <4>1 DEF Increment, CountIsLive
    <3>2. CASE Count # 0
      <4>1. failures.count \in Nat /\ failures.count # 0 /\ failures.expiredAt > now
        BY <3>2, Numbers DEF StateOK, TypeOK, CountIsLive
      <4>2. /\ failures' \in [count : Nat, expiredAt : 0 .. now + FailureTTL]
            /\ failures'.expiredAt = failures.expiredAt
        BY <2>3, <3>2, <4>1 DEF Increment, StateOK, TypeOK
      <4> QED  BY <4>1, <4>2 DEF CountIsLive
    <3> QED  BY <3>1, <3>2
  <2> QED  BY <2>1, <2>2, <2>3
<1> QED  BY <1>2, <1>3 DEF StateOK, TypeOK, Moves

LEMMA TypesRest ==
    ASSUME StateOK, NEW r \in Requests, Moves(r),
           UNCHANGED <<now, row, failures, admin, faults, tried, deployment>>,
           captcha' \in [Captchas -> 0 .. now + CaptchaTTL],
           spent' \in [Captchas -> Nat]
    PROVE  StateOK'
<1>1. /\ row' \in [exists : BOOLEAN, version : 1 .. MaxVersion,
                    fresh : BOOLEAN, locked : BOOLEAN]
      /\ faults' \in 0 .. MaxFaults
      /\ tried' \in [all : Nat, free : Nat, late : Nat, uncounted : Nat]
  BY DEF StateOK, TypeOK
<1> QED  BY <1>1, TypesMove

\* A step of a request that touches nothing but the request.
LEMMA RestingKeeps ==
    ASSUME Inv, NEW r \in Requests, Moves(r), req'[r].pc # "restoring",
           UNCHANGED <<now, row, failures, captcha, admin, faults, tried, spent, deployment>>,
           CountsOK'
    PROVE  Inv'
<1>1. /\ captcha' \in [Captchas -> 0 .. now + CaptchaTTL]
      /\ spent' \in [Captchas -> Nat]
  BY InvParts DEF StateOK, TypeOK
<1>2. StateOK'
  BY <1>1, InvParts, TypesRest
<1>3. CaptchaOK'
  BY InvParts, CaptchasRest
<1> QED  BY <1>2, <1>3, Together

LEMMA BeginIssueKeeps ==
    ASSUME Inv, NEW r \in Requests, BeginIssue(r)
    PROVE  Inv'
<1>1. StateOK /\ TypeOK /\ CountsOK /\ "issuing" \in Steps \ {"idle"}
  BY InvParts DEF StateOK, Steps
<1>2. Moves(r) /\ req'[r].pc = "issuing" /\ req[r].pc = "idle"
  BY <1>1, GotoMoves DEF BeginIssue
<1>3. CountsOK'
  BY <1>1, <1>2, LeavingCounts DEF BeginIssue
<1> QED  BY <1>2, <1>3, RestingKeeps DEF BeginIssue

LEMMA NewChallengeKeeps ==
    ASSUME Inv, NEW r \in Requests, NewChallenge(r)
    PROVE  Inv'
<1>1. /\ StateOK /\ TypeOK /\ CountsOK /\ CaptchaOK
      /\ UNCHANGED <<now, row, failures, admin, faults, tried, deployment>>
      /\ spent \in [Captchas -> Nat]
  BY InvParts DEF StateOK, TypeOK, NewChallenge
<1>2. Moves(r) /\ req'[r].pc = "idle" /\ req[r].pc = "issuing"
  BY <1>1, FinishMoves DEF NewChallenge
<1>3. CountsOK'
  BY <1>1, <1>2, LeavingCounts
<1>4. CASE \A c \in Captchas : Stored(c) \/ Restoring(c)
  BY <1>2, <1>3, <1>4, RestingKeeps DEF NewChallenge
<1>5. CASE ~(\A c \in Captchas : Stored(c) \/ Restoring(c))
  <2>1. PICK c \in Captchas : /\ ~Stored(c) /\ ~Restoring(c) /\ Put(c)
                              /\ spent' = [spent EXCEPT ![c] = 0]
    BY <1>5 DEF NewChallenge
  <2>2. /\ captcha' \in [Captchas -> 0 .. now + CaptchaTTL]
        /\ spent' \in [Captchas -> Nat]
    BY <1>1, <2>1, PutBack
  <2>3. StateOK'
    BY <1>1, <1>2, <2>2, TypesRest
  <2>4. CaptchaOK'
    BY <1>1, <1>2, <2>1, CaptchasIssued
  <2> QED  BY <1>3, <2>3, <2>4, Together
<1> QED  BY <1>4, <1>5

LEMMA RefreshChallengeKeeps ==
    ASSUME Inv, NEW r \in Requests, RefreshChallenge(r)
    PROVE  Inv'
<1>1. /\ StateOK /\ TypeOK /\ CountsOK /\ CaptchaOK /\ "issuing" \in Steps \ {"idle"}
      /\ UNCHANGED <<now, row, failures, admin, faults, tried, spent, deployment>>
      /\ spent' \in [Captchas -> Nat]
  BY InvParts DEF StateOK, TypeOK, RefreshChallenge, Steps
<1>2. Moves(r) /\ req'[r].pc = "issuing" /\ req[r].pc = "idle"
  BY <1>1, GotoMoves DEF RefreshChallenge
<1>3. CountsOK'
  BY <1>1, <1>2, LeavingCounts
<1>4. PICK c \in Captchas : Stored(c) /\ Take(c)
  BY DEF RefreshChallenge
<1>5. captcha' \in [Captchas -> 0 .. now + CaptchaTTL]
  BY <1>1, <1>4, Taken
<1>6. StateOK'
  BY <1>1, <1>2, <1>5, TypesRest
<1>7. CaptchaOK'
  BY <1>1, <1>2, <1>4, CaptchasTaken
<1> QED  BY <1>3, <1>6, <1>7, Together

LEMMA CheckKeeps ==
    ASSUME Inv, NEW r \in Requests, Check(r)
    PROVE  Inv'
<1>1. /\ StateOK /\ TypeOK /\ CountsOK /\ CaptchaOK
      /\ UNCHANGED <<now, row, failures, admin, faults, tried, spent, deployment>>
      /\ spent' \in [Captchas -> Nat] /\ req[r].pc = "idle"
  BY InvParts DEF StateOK, TypeOK, Check
<1>2. PICK c \in Captchas, solved \in BOOLEAN :
         /\ Stored(c)
         /\ Take(c)
         /\ IF solved
            THEN req' = [req EXCEPT ![r] = [Idle EXCEPT !.pc = "restoring", !.captcha = c]]
            ELSE AnswerWithCaptcha(r)
  BY DEF Check
<1>3. captcha' \in [Captchas -> 0 .. now + CaptchaTTL]
  BY <1>1, <1>2, Taken
<1>4. CASE solved
  <2> DEFINE next == [Idle EXCEPT !.pc = "restoring", !.captcha = c]
  <2>1. next \in Request /\ next.pc = "restoring" /\ next.captcha = c
    BY IdleTyped DEF Request, Steps
  <2>2. req' = [req EXCEPT ![r] = next]
    BY <1>2, <1>4
  <2> HIDE DEF next
  <2>3. Moves(r) /\ req'[r].pc = "restoring" /\ req'[r].captcha = c
    BY <1>1, <2>1, <2>2 DEF Moves, TypeOK
  <2>4. CountsOK'
    BY <1>1, <2>3, LeavingCounts
  <2>5. StateOK'
    BY <1>1, <1>3, <2>3, TypesRest
  <2>6. CaptchaOK'
    BY <1>1, <1>2, <2>3, CaptchasChecked
  <2> QED  BY <2>4, <2>5, <2>6, Together
<1>5. CASE ~solved
  <2>1. Moves(r) /\ req'[r].pc = "issuing"
    BY <1>1, <1>2, <1>5, AnswerMoves
  <2>2. CountsOK'
    BY <1>1, <2>1, LeavingCounts
  <2>3. StateOK'
    BY <1>1, <1>3, <2>1, TypesRest
  <2>4. CaptchaOK'
    BY <1>1, <1>2, <2>1, CaptchasTaken
  <2> QED  BY <2>2, <2>3, <2>4, Together
<1> QED  BY <1>4, <1>5

LEMMA RestoreKeeps ==
    ASSUME Inv, NEW r \in Requests, Restore(r)
    PROVE  Inv'
<1>1. /\ StateOK /\ TypeOK /\ CountsOK /\ CaptchaOK
      /\ UNCHANGED <<now, row, failures, admin, faults, tried, spent, deployment>>
      /\ spent' \in [Captchas -> Nat]
      /\ req[r].pc = "restoring" /\ Put(req[r].captcha)
  BY InvParts DEF StateOK, TypeOK, Restore
<1>2. Moves(r) /\ req'[r].pc = "idle"
  BY <1>1, FinishMoves DEF Restore
<1>3. CountsOK'
  BY <1>1, <1>2, LeavingCounts
<1>4. captcha' \in [Captchas -> 0 .. now + CaptchaTTL]
  <2>1. req[r].captcha \in Captchas
    BY <1>1 DEF CaptchaOK, CaptchasOK
  <2> QED  BY <1>1, <2>1, PutBack
<1>5. StateOK'
  BY <1>1, <1>2, <1>4, TypesRest
<1>6. CaptchaOK'
  BY <1>1, <1>2, CaptchasRestored
<1> QED  BY <1>3, <1>5, <1>6, Together
-----------------------------------------------------------------------------
(* A change of password.                                                   *)

LEMMA BeginChangeKeeps ==
    ASSUME Inv, NEW r \in Requests, BeginChange(r)
    PROVE  Inv'
<1>1. /\ StateOK /\ TypeOK /\ CountsOK /\ req[r].pc = "idle"
      /\ UNCHANGED <<now, row, failures, captcha, admin, faults, tried, spent, deployment>>
  BY InvParts DEF StateOK, BeginChange
<1>2. PICK right \in BOOLEAN :
         req' = [req EXCEPT ![r] = [pc |-> "opened", version |-> row.version,
                                    right |-> right, captcha |-> "none"]]
  BY DEF BeginChange
<1> DEFINE next == [pc |-> "opened", version |-> row.version,
                    right |-> right, captcha |-> "none"]
<1>3. row.version \in 0 .. MaxVersion
  BY <1>1, GuardConfig DEF TypeOK
<1>4. next \in Request /\ next.pc = "opened"
  BY <1>3 DEF Request, Steps
<1>5. req' = [req EXCEPT ![r] = next]
  BY <1>2
<1> HIDE DEF next
<1>6. Moves(r) /\ req'[r].pc = "opened"
  BY <1>1, <1>4, <1>5 DEF Moves, TypeOK
<1>7. CountsOK'
  BY <1>1, <1>6, LeavingCounts
<1> QED  BY <1>1, <1>6, <1>7, RestingKeeps

LEMMA BeginResetKeeps ==
    ASSUME Inv, NEW r \in Requests, BeginReset(r)
    PROVE  Inv'
<1>1. /\ StateOK /\ TypeOK /\ CountsOK /\ req[r].pc = "idle"
      /\ UNCHANGED <<now, row, failures, captcha, admin, faults, tried, spent, deployment>>
  BY InvParts DEF StateOK, BeginReset
<1> DEFINE next == [Idle EXCEPT !.pc = "resetting", !.version = row.version]
<1>2. row.version \in 0 .. MaxVersion
  BY <1>1, GuardConfig DEF TypeOK
<1>3. next \in Request /\ next.pc = "resetting"
  BY <1>2, IdleTyped DEF Request, Steps
<1>4. req' = [req EXCEPT ![r] = next]
  BY DEF BeginReset
<1> HIDE DEF next
<1>5. Moves(r) /\ req'[r].pc = "resetting"
  BY <1>1, <1>3, <1>4 DEF Moves, TypeOK
<1>6. CountsOK'
  BY <1>1, <1>5, LeavingCounts
<1> QED  BY <1>1, <1>5, <1>6, RestingKeeps

LEMMA PasswordChangeLockedKeeps ==
    ASSUME Inv, NEW r \in Requests, PasswordChangeLocked(r)
    PROVE  Inv'
<1>1. /\ StateOK /\ TypeOK /\ CountsOK /\ req[r].pc = "opened"
      /\ UNCHANGED <<now, row, failures, captcha, admin, faults, tried, spent, deployment>>
      /\ "counting" \in Steps \ {"idle"}
  BY InvParts DEF StateOK, PasswordChangeLocked, Steps
<1>2. CASE row.exists /\ ~row.locked
  <2>1. Moves(r) /\ req'[r].pc = "counting"
    BY <1>1, <1>2, GotoMoves DEF PasswordChangeLocked
  <2>2. CountsOK'
    BY <1>1, <1>2, <2>1, QuietCounts
  <2> QED  BY <1>1, <2>1, <2>2, RestingKeeps
<1>3. CASE ~(row.exists /\ ~row.locked)
  <2>1. Moves(r) /\ req'[r].pc = "idle"
    BY <1>1, <1>3, FinishMoves DEF PasswordChangeLocked
  <2>2. CountsOK'
    BY <1>1, <2>1, LeavingCounts
  <2> QED  BY <1>1, <2>1, <2>2, RestingKeeps
<1> QED  BY <1>2, <1>3

LEMMA FailureCountKeeps ==
    ASSUME Inv, NEW r \in Requests, FailureCount(r)
    PROVE  Inv'
<1>1. /\ StateOK /\ TypeOK /\ CountsOK /\ req[r].pc = "counting"
      /\ UNCHANGED <<now, row, failures, captcha, admin, faults, tried, spent, deployment>>
      /\ {"locking", "verifying", "comparing"} \subseteq Steps \ {"idle"}
  BY InvParts DEF StateOK, FailureCount, Steps
<1>2. /\ Count = failures.count /\ failures.count \in Nat
      /\ Threshold \in Nat /\ LockThreshold \in Nat /\ Threshold < LockThreshold
  BY <1>1, Numbers
<1>3. CASE LockRequired(Count)
  <2>1. Moves(r) /\ req'[r].pc = "locking"
    BY <1>1, <1>3, GotoMoves DEF FailureCount
  <2>2. CountsOK'
    BY <1>1, <2>1, LeavingCounts
  <2> QED  BY <1>1, <2>1, <2>2, RestingKeeps
<1>4. CASE ~LockRequired(Count) /\ CaptchaRequired(Count)
  <2>1. Moves(r) /\ req'[r].pc = "verifying"
    BY <1>1, <1>4, GotoMoves DEF FailureCount
  <2>2. failures.count < LockThreshold
    BY <1>2, <1>4 DEF LockRequired
  <2>3. CountsOK'
    BY <1>1, <2>1, <2>2, QuietCounts
  <2> QED  BY <1>1, <2>1, <2>3, RestingKeeps
<1>5. CASE ~LockRequired(Count) /\ ~CaptchaRequired(Count)
  <2>1. Moves(r) /\ req'[r].pc = "comparing"
    BY <1>1, <1>5, GotoMoves DEF FailureCount
  <2>2. failures.count < LockThreshold /\ failures.count < Threshold
    BY <1>2, <1>5 DEF LockRequired, CaptchaRequired
  <2>3. CountsOK'
    BY <1>1, <2>1, <2>2, QuietCounts
  <2> QED  BY <1>1, <2>1, <2>3, RestingKeeps
<1> QED  BY <1>3, <1>4, <1>5

LEMMA RequiredKeeps ==
    ASSUME Inv, NEW r \in Requests, Required(r)
    PROVE  Inv'
<1>1. /\ StateOK /\ TypeOK /\ CountsOK /\ req[r].pc = "verifying"
      /\ UNCHANGED <<now, row, failures, captcha, admin, faults, tried, spent, deployment>>
      /\ {"solving", "comparing"} \subseteq Steps \ {"idle"}
  BY InvParts DEF StateOK, Required, Steps
<1>2. Count = failures.count /\ failures.count \in Nat /\ Threshold \in Nat
  BY <1>1, Numbers
<1>3. CASE CaptchaRequired(Count)
  <2>1. Moves(r) /\ req'[r].pc = "solving"
    BY <1>1, <1>3, GotoMoves DEF Required
  <2>2. CountsOK'
    BY <1>1, <2>1, QuietCounts
  <2> QED  BY <1>1, <2>1, <2>2, RestingKeeps
<1>4. CASE ~CaptchaRequired(Count)
  <2>1. Moves(r) /\ req'[r].pc = "comparing"
    BY <1>1, <1>4, GotoMoves DEF Required
  <2>2. failures.count < Threshold
    BY <1>2, <1>4 DEF CaptchaRequired
  <2>3. CountsOK'
    BY <1>1, <2>1, <2>2, QuietCounts
  <2> QED  BY <1>1, <2>1, <2>3, RestingKeeps
<1> QED  BY <1>3, <1>4

LEMMA VerifyKeeps ==
    ASSUME Inv, NEW r \in Requests, Verify(r)
    PROVE  Inv'
<1>1. /\ StateOK /\ TypeOK /\ CountsOK /\ CaptchaOK /\ req[r].pc = "solving"
      /\ UNCHANGED <<now, row, failures, admin, faults, tried, deployment>>
  BY InvParts DEF StateOK, Verify
<1>2. CASE AnswerWithCaptcha(r) /\ UNCHANGED <<captcha, spent, deployment>>
  <2>1. Moves(r) /\ req'[r].pc = "issuing"
    BY <1>1, <1>2, AnswerMoves
  <2>2. CountsOK'
    BY <1>1, <2>1, LeavingCounts
  <2> QED  BY <1>1, <1>2, <2>1, <2>2, RestingKeeps
<1>3. CASE ~(AnswerWithCaptcha(r) /\ UNCHANGED <<captcha, spent, deployment>>)
  <2>1. PICK c \in Captchas, solved \in BOOLEAN :
           /\ Stored(c)
           /\ Take(c)
           /\ IF solved
              THEN /\ req' = [req EXCEPT ![r].pc = "comparing", ![r].captcha = c]
                   /\ spent' = [spent EXCEPT ![c] = @ + 1]
              ELSE AnswerWithCaptcha(r) /\ UNCHANGED spent
    BY <1>3 DEF Verify
  <2>2. captcha' \in [Captchas -> 0 .. now + CaptchaTTL]
    BY <1>1, <2>1, Taken
  <2>3. CASE solved
    <3> DEFINE next == [req[r] EXCEPT !.pc = "comparing", !.captcha = c]
    <3>1. req[r] \in Request /\ req \in [Requests -> Request]
      BY <1>1 DEF TypeOK
    <3>2. next \in Request /\ next.pc = "comparing" /\ next.captcha = c
      BY <3>1 DEF Request, Steps
    <3>3. req' = [req EXCEPT ![r] = next]
      BY <2>1, <2>3, <3>1
    <3> HIDE DEF next
    <3>4. Moves(r) /\ req'[r].pc = "comparing" /\ req'[r].captcha # "none"
      BY <3>1, <3>2, <3>3, GuardConfig DEF Moves
    <3>5. CountsOK'
      BY <1>1, <3>4, QuietCounts
    <3>6. spent' \in [Captchas -> Nat]
      BY <1>1, <2>1, <2>3 DEF TypeOK
    <3>7. StateOK'
      BY <1>1, <2>2, <3>4, <3>6, TypesRest
    <3>8. CaptchaOK'
      BY <1>1, <2>1, <2>3, <3>4, CaptchasSpent
    <3> QED  BY <3>5, <3>7, <3>8, Together
  <2>4. CASE ~solved
    <3>1. Moves(r) /\ req'[r].pc = "issuing" /\ UNCHANGED spent
      BY <1>1, <2>1, <2>4, AnswerMoves
    <3>2. CountsOK'
      BY <1>1, <3>1, LeavingCounts
    <3>3. spent' \in [Captchas -> Nat]
      BY <1>1, <3>1 DEF TypeOK
    <3>4. StateOK'
      BY <1>1, <2>2, <3>1, <3>3, TypesRest
    <3>5. CaptchaOK'
      BY <1>1, <2>1, <3>1, CaptchasTaken
    <3> QED  BY <3>2, <3>4, <3>5, Together
  <2> QED  BY <2>3, <2>4
<1> QED  BY <1>2, <1>3

\* A step of one request that leaves the captchas alone.
LEMMA WritingKeeps ==
    ASSUME Inv, NEW r \in Requests, Moves(r), req'[r].pc # "restoring",
           UNCHANGED <<now, captcha, admin, spent, deployment>>,
           row' \in [exists : BOOLEAN, version : 1 .. MaxVersion,
                     fresh : BOOLEAN, locked : BOOLEAN],
           failures' = failures \/ failures' = NoFailures \/ Increment,
           faults' \in 0 .. MaxFaults,
           tried' \in [all : Nat, free : Nat, late : Nat, uncounted : Nat],
           CountsOK'
    PROVE  Inv'
<1>1. /\ captcha' \in [Captchas -> 0 .. now + CaptchaTTL]
      /\ spent' \in [Captchas -> Nat]
  BY InvParts DEF StateOK, TypeOK
<1>2. StateOK'
  BY <1>1, InvParts, TypesMove
<1>3. CaptchaOK'
  BY InvParts, CaptchasRest
<1> QED  BY <1>2, <1>3, Together

LEMMA UntriedTyped ==
    Untried \in [all : Nat, free : Nat, late : Nat, uncounted : Nat]
  BY DEF Untried

\* A new password: nothing was tried against it.
LEMMA ReplacingKeeps ==
    ASSUME Inv, NEW r \in Requests, ChangePassword(r) \/ ResetPassword(r)
    PROVE  Inv'
<1>1. /\ StateOK /\ TypeOK /\ CountsOK /\ req[r].pc \in {"comparing", "resetting"}
      /\ UNCHANGED <<now, failures, captcha, admin, faults, spent, deployment>>
      /\ "clearing" \in Steps \ {"idle"}
      /\ failures'.count \in Nat /\ faults' \in 0 .. MaxFaults
  BY InvParts DEF StateOK, TypeOK, ChangePassword, ResetPassword, Steps
<1>2. CASE tried' = Untried /\ Goto(r, "clearing")
  <2>1. Moves(r) /\ req'[r].pc = "clearing"
    BY <1>1, <1>2, GotoMoves
  <2>2. CountsOK'
    BY <1>1, <1>2, FreshCounts
  <2>3. row' \in [exists : BOOLEAN, version : 1 .. MaxVersion,
                  fresh : BOOLEAN, locked : BOOLEAN]
    <3>1. row.version + 1 \in 1 .. MaxVersion \/ row' = row
      BY <1>1, GuardConfig DEF ChangePassword, ResetPassword, TypeOK
    <3>2. row \in [exists : BOOLEAN, version : 1 .. MaxVersion,
                   fresh : BOOLEAN, locked : BOOLEAN]
      BY <1>1 DEF TypeOK
    <3>3. \/ row' = row
          \/ row' = [row EXCEPT !.version = @ + 1]
          \/ row' = [row EXCEPT !.version = @ + 1, !.fresh = FALSE, !.locked = FALSE]
      BY DEF ChangePassword, ResetPassword
    <3> QED  BY <3>1, <3>2, <3>3
  <2> QED  BY <1>1, <1>2, <2>1, <2>2, <2>3, UntriedTyped, WritingKeeps
<1>3. CASE ~(tried' = Untried /\ Goto(r, "clearing"))
  <2>1. Finish(r) /\ UNCHANGED <<row, tried>> /\ req[r].pc = "resetting"
    BY <1>3 DEF ChangePassword, ResetPassword
  <2>2. Moves(r) /\ req'[r].pc = "idle"
    BY <1>1, <2>1, FinishMoves
  <2>3. CountsOK'
    BY <1>1, <2>1, <2>2, LeavingCounts
  <2> QED  BY <1>1, <2>1, <2>2, <2>3, RestingKeeps
<1> QED  BY <1>2, <1>3

LEMMA RefusedKeeps ==
    ASSUME Inv, NEW r \in Requests, Refused(r)
    PROVE  Inv'
<1>1. /\ StateOK /\ TypeOK /\ CountsOK /\ req[r].pc = "comparing"
      /\ UNCHANGED <<now, row, failures, captcha, admin, faults, tried, spent, deployment>>
  BY InvParts DEF StateOK, Refused
<1>2. Moves(r) /\ req'[r].pc \in {"idle", "issuing"}
  BY <1>1, FinishMoves, AnswerMoves DEF Refused
<1>3. CountsOK'
  BY <1>1, <1>2, LeavingCounts
<1> QED  BY <1>1, <1>2, <1>3, RestingKeeps

LEMMA IncorrectPasswordKeeps ==
    ASSUME Inv, NEW r \in Requests, IncorrectPassword(r)
    PROVE  Inv'
<1>1. /\ StateOK /\ TypeOK /\ CountsOK /\ req[r].pc = "comparing"
      /\ UNCHANGED <<now, row, failures, captcha, admin, faults, spent, deployment>>
      /\ "recording" \in Steps \ {"idle"} /\ faults' \in 0 .. MaxFaults
      /\ row' \in [exists : BOOLEAN, version : 1 .. MaxVersion,
                    fresh : BOOLEAN, locked : BOOLEAN]
      /\ tried \in [all : Nat, free : Nat, late : Nat, uncounted : Nat]
  BY InvParts DEF StateOK, TypeOK, IncorrectPassword, Steps
<1>2. Moves(r) /\ req'[r].pc = "recording" /\ req'[r].captcha = req[r].captcha
  BY <1>1, GotoMoves DEF IncorrectPassword
<1>3. /\ Cardinality(Unstopped') = Cardinality(Unstopped) - 1
      /\ Cardinality(Admitted') = Cardinality(Admitted) - 1
      /\ Cardinality(Recording') = Cardinality(Recording) + 1
      /\ req[r].captcha = "none" =>
            /\ Cardinality(WithoutCaptcha(Trying)') = Cardinality(WithoutCaptcha(Trying)) - 1
            /\ Cardinality(WithoutCaptcha(Recording)') =
                  Cardinality(WithoutCaptcha(Recording)) + 1
      /\ req[r].captcha # "none" =>
            /\ Cardinality(WithoutCaptcha(Trying)') = Cardinality(WithoutCaptcha(Trying))
            /\ Cardinality(WithoutCaptcha(Recording)') = Cardinality(WithoutCaptcha(Recording))
  BY <1>1, <1>2, Moved, AllFit DEF One, Fits
<1>4. CASE row.locked
  <2>1. /\ tried' \in [all : Nat, free : Nat, late : Nat, uncounted : Nat]
        /\ tried'.late = tried.late + 1
        /\ tried'.all = tried.all /\ tried'.free = tried.free
        /\ tried'.uncounted = tried.uncounted
    BY <1>1, <1>4 DEF IncorrectPassword
  <2>2. tried'.late + Cardinality(Unstopped') <= Cardinality(Requests)
    BY <1>1, <1>3, <1>4, <2>1, Numbers, AllFit DEF CountsOK, LateOK, Fits
  <2>3. CountsOK'
    BY <1>1, <1>4, <2>1, <2>2, Numbers, LockedCounts
  <2> QED  BY <1>1, <1>2, <2>1, <2>3, WritingKeeps
<1>5. CASE ~row.locked
  <2>1. /\ tried' \in [all : Nat, free : Nat, late : Nat, uncounted : Nat]
        /\ tried'.late = tried.late
        /\ tried'.all = tried.all + 1
        /\ tried'.free = IF req[r].captcha = "none" THEN tried.free + 1 ELSE tried.free
        /\ tried'.uncounted = tried.uncounted
    <3> DEFINE all == tried.all + 1
               free == IF req[r].captcha = "none" THEN tried.free + 1 ELSE tried.free
    <3>1. tried' = [tried EXCEPT !.all = all, !.free = free]
      BY <1>1, <1>5 DEF IncorrectPassword
    <3>2. all \in Nat /\ free \in Nat
      BY <1>1
    <3>3. /\ all = tried.all + 1
          /\ free = IF req[r].captcha = "none" THEN tried.free + 1 ELSE tried.free
      OBVIOUS
    <3> HIDE DEF all, free
    <3>4. /\ tried' \in [all : Nat, free : Nat, late : Nat, uncounted : Nat]
          /\ tried'.late = tried.late /\ tried'.all = all
          /\ tried'.free = free /\ tried'.uncounted = tried.uncounted
      BY <1>1, <3>1, <3>2
    <3> QED  BY <3>3, <3>4
  <2>2. TriesOK
    BY <1>1 DEF CountsOK
  <2>3. /\ tried'.all <= failures.count + Cardinality(Recording') + tried'.uncounted
        /\ tried'.all + Cardinality(Admitted')
              <= LockThreshold - 1 + Cardinality(Requests) + tried'.uncounted
    BY <1>1, <1>3, <1>5, <2>1, <2>2, Numbers, AllFit DEF TriesOK, Fits
  <2>4. /\ tried'.free <= failures.count + Cardinality(WithoutCaptcha(Recording)')
                           + tried'.uncounted
        /\ tried'.free + Cardinality(WithoutCaptcha(Trying)')
              <= Threshold - 1 + Cardinality(Requests) + tried'.uncounted
    <3>1. CASE req[r].captcha = "none"
      BY <1>1, <1>3, <1>5, <2>1, <2>2, <3>1, Numbers, AllFit DEF TriesOK, Fits
    <3>2. CASE req[r].captcha # "none"
      BY <1>1, <1>3, <1>5, <2>1, <2>2, <3>2, Numbers, AllFit DEF TriesOK, Fits
    <3> QED  BY <3>1, <3>2
  <2>5. TriesOK'
    BY <1>1, <1>5, <2>1, <2>2, <2>3, <2>4 DEF TriesOK
  <2>6. tried'.late = 0 /\ ~row'.locked
    BY <1>1, <1>5, <2>1, <2>2 DEF TriesOK
  <2>7. TriesAreBounded' /\ FreeTriesAreBounded' /\ LateOK'
    BY <1>1, <2>1, <2>3, <2>4, <2>6, Numbers, AllFitNext
    DEF LateOK, TriesAreBounded, FreeTriesAreBounded, Fits
  <2>8. CountsOK'
    BY <2>5, <2>7 DEF CountsOK
  <2> QED  BY <1>1, <1>2, <2>1, <2>8, WritingKeeps
<1> QED  BY <1>1, <1>4, <1>5, Numbers

LEMMA RecordFailureKeeps ==
    ASSUME Inv, NEW r \in Requests, RecordFailure(r)
    PROVE  Inv'
<1>1. /\ StateOK /\ TypeOK /\ CountsOK /\ req[r].pc = "recording"
      /\ UNCHANGED <<now, row, captcha, admin, faults, tried, spent, deployment>>
      /\ Increment
      /\ "locking" \in Steps \ {"idle"} /\ faults' \in 0 .. MaxFaults
      /\ row' \in [exists : BOOLEAN, version : 1 .. MaxVersion,
                    fresh : BOOLEAN, locked : BOOLEAN]
      /\ tried' \in [all : Nat, free : Nat, late : Nat, uncounted : Nat]
  BY InvParts DEF StateOK, TypeOK, RecordFailure, Steps
<1>2. Moves(r) /\ req'[r].pc \in {"idle", "issuing", "locking"}
  BY <1>1, GotoMoves, FinishMoves, AnswerMoves DEF RecordFailure
<1>3. failures'.count = failures.count + 1
  <2>1. CASE Count = 0
    BY <1>1, <2>1, Numbers DEF Increment
  <2>2. CASE Count # 0
    BY <1>1, <2>2, Numbers DEF Increment, TypeOK
  <2> QED  BY <2>1, <2>2
<1>4. CountsOK'
  BY <1>1, <1>2, <1>3, EndingCounts
<1> QED  BY <1>1, <1>2, <1>4, WritingKeeps

\* The lock falls: who is past it may still try once.
LEMMA LockFalls ==
    ASSUME StateOK, CountsOK, row'.locked, tried' = tried,
           Cardinality(Unstopped') <= Cardinality(Unstopped)
    PROVE  CountsOK'
<1>1. tried.late + Cardinality(Unstopped') <= Cardinality(Requests)
  BY Numbers, AllFit, AllFitNext DEF CountsOK, TriesOK, LateOK, Fits
<1> QED  BY <1>1, Numbers, LockedCounts

LEMMA PersistPasswordChangeLockKeeps ==
    ASSUME Inv, NEW r \in Requests, PersistPasswordChangeLock(r)
    PROVE  Inv'
<1>1. /\ StateOK /\ TypeOK /\ CountsOK /\ req[r].pc = "locking"
      /\ UNCHANGED <<now, failures, captcha, admin, faults, tried, spent, deployment>>
      /\ "clearing" \in Steps \ {"idle"} /\ faults' \in 0 .. MaxFaults
      /\ tried' \in [all : Nat, free : Nat, late : Nat, uncounted : Nat]
      /\ row \in [exists : BOOLEAN, version : 1 .. MaxVersion,
                   fresh : BOOLEAN, locked : BOOLEAN]
  BY InvParts DEF StateOK, TypeOK, PersistPasswordChangeLock, Steps
<1>2. CASE row.exists
  <2>1. Moves(r) /\ req'[r].pc = "clearing"
    BY <1>1, <1>2, GotoMoves DEF PersistPasswordChangeLock
  <2>2. /\ row' \in [exists : BOOLEAN, version : 1 .. MaxVersion,
                      fresh : BOOLEAN, locked : BOOLEAN]
        /\ row'.locked
    BY <1>1, <1>2 DEF PersistPasswordChangeLock
  <2>3. Cardinality(Unstopped') <= Cardinality(Unstopped)
    BY <1>1, <2>1, Moved, AllFit DEF One, Fits
  <2>4. CountsOK'
    BY <1>1, <2>2, <2>3, LockFalls
  <2> QED  BY <1>1, <2>1, <2>2, <2>4, WritingKeeps
<1>3. CASE ~row.exists
  <2>1. Moves(r) /\ req'[r].pc = "idle" /\ UNCHANGED row
    BY <1>1, <1>3, FinishMoves DEF PersistPasswordChangeLock
  <2>2. CountsOK'
    BY <1>1, <2>1, LeavingCounts
  <2> QED  BY <1>1, <2>1, <2>2, RestingKeeps
<1> QED  BY <1>2, <1>3

\* Forgetting the counter.
LEMMA ClearingCounts ==
    ASSUME StateOK, CountsOK, ClearFailures, row'.locked = row.locked,
           Cardinality(Unstopped') <= Cardinality(Unstopped)
    PROVE  /\ CountsOK'
           /\ failures' = NoFailures /\ failures'.count \in Nat
           /\ tried' \in [all : Nat, free : Nat, late : Nat, uncounted : Nat]
<1>1. failures' = NoFailures /\ failures'.count \in Nat
  BY DEF ClearFailures, NoFailures
<1>2. CASE row.locked
  <2>1. tried' = tried
    BY <1>2 DEF ClearFailures
  <2> QED  BY <1>1, <1>2, <2>1, LockFalls DEF StateOK, TypeOK
<1>3. CASE ~row.locked
  <2>1. tried' = Untried
    BY <1>3 DEF ClearFailures
  <2> QED  BY <1>1, <2>1, FreshCounts, UntriedTyped
<1> QED  BY <1>2, <1>3, Numbers

LEMMA ClearKeeps ==
    ASSUME Inv, NEW r \in Requests, Clear(r)
    PROVE  Inv'
<1>1. /\ StateOK /\ TypeOK /\ CountsOK /\ req[r].pc = "clearing" /\ ClearFailures
      /\ UNCHANGED <<now, row, captcha, admin, faults, spent, deployment>>
      /\ faults' \in 0 .. MaxFaults
      /\ row' \in [exists : BOOLEAN, version : 1 .. MaxVersion,
                    fresh : BOOLEAN, locked : BOOLEAN]
  BY InvParts DEF StateOK, TypeOK, Clear
<1>2. Moves(r) /\ req'[r].pc = "idle"
  BY <1>1, FinishMoves DEF Clear
<1>3. Cardinality(Unstopped') <= Cardinality(Unstopped)
  BY <1>1, <1>2, Moved, AllFit DEF One, Fits
<1>4. /\ CountsOK' /\ failures' = NoFailures
      /\ tried' \in [all : Nat, free : Nat, late : Nat, uncounted : Nat]
  BY <1>1, <1>3, ClearingCounts
<1> QED  BY <1>1, <1>2, <1>4, WritingKeeps

\* A request dies, and with it what it had not counted yet.
LEMMA AbortKeeps ==
    ASSUME Inv, NEW r \in Requests, Abort(r)
    PROVE  Inv'
<1>1. /\ StateOK /\ TypeOK /\ CountsOK
      /\ UNCHANGED <<now, row, failures, captcha, admin, spent, deployment>>
      /\ faults' \in 0 .. MaxFaults
      /\ row' \in [exists : BOOLEAN, version : 1 .. MaxVersion,
                    fresh : BOOLEAN, locked : BOOLEAN]
      /\ tried \in [all : Nat, free : Nat, late : Nat, uncounted : Nat]
      /\ tried' = [tried EXCEPT !.uncounted = @ + Uncounted({r})]
  BY InvParts, GuardConfig DEF StateOK, TypeOK, Abort
<1>2. Moves(r) /\ req'[r].pc = "idle"
  BY <1>1, FinishMoves DEF Abort
<1>3. Uncounted({r}) = One(req[r].pc = "recording")
  <2>1. CASE req[r].pc = "recording"
    <3>1. {q \in {r} : req[q].pc = "recording"} = {r}
      BY <2>1
    <3> QED  BY <2>1, <3>1, FS_Singleton DEF Uncounted, One
  <2>2. CASE req[r].pc # "recording"
    <3>1. {q \in {r} : req[q].pc = "recording"} = {}
      BY <2>2
    <3> QED  BY <2>2, <3>1, FS_EmptySet DEF Uncounted, One
  <2> QED  BY <2>1, <2>2
<1>4. /\ tried' \in [all : Nat, free : Nat, late : Nat, uncounted : Nat]
      /\ tried'.all = tried.all /\ tried'.free = tried.free /\ tried'.late = tried.late
      /\ tried'.uncounted = tried.uncounted + One(req[r].pc = "recording")
  <2>1. One(req[r].pc = "recording") \in {0, 1}
    BY DEF One
  <2> QED  BY <1>1, <1>3, <2>1
<1>5. CountsOK'
  <2>1. CASE req[r].pc = "recording"
    BY <1>1, <1>2, <1>4, <2>1, EndingCounts DEF One
  <2>2. CASE req[r].pc # "recording"
    <3>1. tried'.uncounted = tried.uncounted /\ failures'.count = failures.count
      BY <1>1, <1>4, <2>2, Numbers DEF One
    <3> QED  BY <1>1, <1>2, <1>4, <2>2, <3>1, EndingCounts
  <2> QED  BY <2>1, <2>2
<1> QED  BY <1>1, <1>2, <1>4, <1>5, WritingKeeps
-----------------------------------------------------------------------------
(* The others.                                                             *)

\* A step that touches neither requests nor captchas.
LEMMA OthersKeep ==
    ASSUME Inv, UNCHANGED <<now, captcha, req, spent, deployment>>,
           row' \in [exists : BOOLEAN, version : 1 .. MaxVersion,
                     fresh : BOOLEAN, locked : BOOLEAN],
           failures' = failures \/ failures' = NoFailures,
           admin' \in [pc : {"idle", "clearing"}, form : {"none", "unlocked", "locked"}],
           faults' \in 0 .. MaxFaults,
           tried' \in [all : Nat, free : Nat, late : Nat, uncounted : Nat],
           CountsOK'
    PROVE  Inv'
<1>1. now \in Nat /\ FailureTTL \in Nat \ {0} /\ 0 \in 0 .. now + FailureTTL
  BY InvParts, GuardConfig DEF StateOK, TypeOK
<1>2. failures' \in [count : Nat, expiredAt : 0 .. now + FailureTTL] /\ CountIsLive'
  BY <1>1, InvParts DEF StateOK, TypeOK, CountIsLive, NoFailures
<1>3. StateOK'
  BY <1>2, InvParts DEF StateOK, TypeOK
<1>4. \A c \in Captchas : Stored(c)' <=> Stored(c)
  BY DEF Stored
<1>5. CaptchaOK'
  BY <1>4, InvParts, CaptchasShrink
<1> QED  BY <1>3, <1>5, Together

LEMMA AdminTyped ==
    ASSUME TypeOK
    PROVE  /\ admin \in [pc : {"idle", "clearing"}, form : {"none", "unlocked", "locked"}]
           /\ row \in [exists : BOOLEAN, version : 1 .. MaxVersion,
                        fresh : BOOLEAN, locked : BOOLEAN]
           /\ tried \in [all : Nat, free : Nat, late : Nat, uncounted : Nat]
           /\ faults \in 0 .. MaxFaults
           /\ failures.count \in Nat
  BY DEF TypeOK

LEMMA FormKeeps ==
    ASSUME Inv, OpenForm
    PROVE  Inv'
<1>1. StateOK /\ TypeOK /\ CountsOK
  BY InvParts DEF StateOK
<1>2. admin' \in [pc : {"idle", "clearing"}, form : {"none", "unlocked", "locked"}]
  BY <1>1, AdminTyped DEF OpenForm
<1>3. CountsOK'
  BY <1>1, CountsStay DEF OpenForm
<1> QED  BY <1>1, <1>2, <1>3, AdminTyped, OthersKeep DEF OpenForm

LEMMA DeleteUserKeeps ==
    ASSUME Inv, DeleteUser
    PROVE  Inv'
<1>1. StateOK /\ TypeOK /\ CountsOK
  BY InvParts DEF StateOK
<1>2. /\ row' \in [exists : BOOLEAN, version : 1 .. MaxVersion,
                    fresh : BOOLEAN, locked : BOOLEAN]
      /\ row'.locked = row.locked
  BY <1>1, AdminTyped DEF DeleteUser
<1>3. CountsOK'
  BY <1>1, <1>2, CountsStay DEF DeleteUser
<1> QED  BY <1>1, <1>2, <1>3, AdminTyped, OthersKeep DEF DeleteUser

LEMMA UpdateUserKeeps ==
    ASSUME Inv, \E metadata, password \in BOOLEAN : UpdateUser(metadata, password)
    PROVE  Inv'
<1>1. PICK metadata \in BOOLEAN, password \in BOOLEAN : UpdateUser(metadata, password)
  OBVIOUS
<1>2. /\ StateOK /\ TypeOK /\ CountsOK
      /\ password => row.version < MaxVersion
      /\ UNCHANGED <<now, failures, captcha, req, faults, spent, deployment>>
  BY <1>1, InvParts DEF StateOK, UpdateUser
<1>3. PICK retained \in BOOLEAN :
         /\ row' = [row EXCEPT !.version = IF password THEN @ + 1 ELSE @,
                               !.fresh = @ \/ password,
                               !.locked = retained]
         /\ tried' = IF password \/ (row.locked /\ ~retained) THEN Untried ELSE tried
         /\ admin' = [pc |-> IF retained THEN "idle" ELSE "clearing",
                      form |-> IF metadata THEN "none" ELSE admin.form]
  <2>1. PICK keep \in BOOLEAN :
           LET retained == metadata /\ keep /\ admin.form = "locked" /\ ~password IN
           /\ row' = [row EXCEPT !.version = IF password THEN @ + 1 ELSE @,
                                 !.fresh = @ \/ password,
                                 !.locked = retained]
           /\ tried' = IF password \/ (row.locked /\ ~retained) THEN Untried ELSE tried
           /\ admin' = [pc |-> IF retained THEN "idle" ELSE "clearing",
                        form |-> IF metadata THEN "none" ELSE admin.form]
    BY <1>1 DEF UpdateUser
  <2>2. (metadata /\ keep /\ admin.form = "locked" /\ ~password) \in BOOLEAN
    OBVIOUS
  <2> QED  BY <2>1, <2>2
<1>4. admin' \in [pc : {"idle", "clearing"}, form : {"none", "unlocked", "locked"}]
  BY <1>2, <1>3, AdminTyped
<1>5. /\ row' \in [exists : BOOLEAN, version : 1 .. MaxVersion,
                    fresh : BOOLEAN, locked : BOOLEAN]
      /\ row'.locked = retained
  <2> DEFINE version == IF password THEN row.version + 1 ELSE row.version
             fresh == row.fresh \/ password
  <2>1. version \in 1 .. MaxVersion
    BY <1>2, AdminTyped, GuardConfig
  <2>2. fresh \in BOOLEAN
    BY <1>2, AdminTyped
  <2>3. row' = [row EXCEPT !.version = version, !.fresh = fresh, !.locked = retained]
    BY <1>3
  <2> HIDE DEF version, fresh
  <2> QED  BY <1>2, <2>1, <2>2, <2>3, AdminTyped
<1>6. tried' \in [all : Nat, free : Nat, late : Nat, uncounted : Nat] /\ CountsOK'
  <2>1. CASE password \/ (row.locked /\ ~retained)
    BY <1>2, <1>3, <2>1, FreshCounts, UntriedTyped, AdminTyped
  <2>2. CASE ~(password \/ (row.locked /\ ~retained))
    <3>1. tried' = tried
      BY <1>3, <2>2
    <3>2. CASE retained
      <4>1. Unstopped' = Unstopped
        BY <1>2 DEF Unstopped, At
      <4>2. Cardinality(Unstopped') <= Cardinality(Unstopped)
        BY <4>1, AllFit DEF Fits
      <4> QED  BY <1>2, <1>5, <3>1, <3>2, <4>2, LockFalls, AdminTyped
    <3>3. CASE ~retained
      BY <1>2, <1>5, <2>2, <3>1, <3>3, CountsStay, AdminTyped
    <3> QED  BY <3>2, <3>3
  <2> QED  BY <2>1, <2>2
<1> QED  BY <1>2, <1>4, <1>5, <1>6, AdminTyped, OthersKeep

LEMMA ClearUpdatedKeeps ==
    ASSUME Inv, ClearUpdated \/ AbortClear
    PROVE  Inv'
<1>1. StateOK /\ TypeOK /\ CountsOK
  BY InvParts DEF StateOK
<1>2. admin' \in [pc : {"idle", "clearing"}, form : {"none", "unlocked", "locked"}]
  BY <1>1, AdminTyped DEF ClearUpdated, AbortClear
<1>3. CASE ClearUpdated
  <2>1. Unstopped' = Unstopped
    BY <1>3 DEF ClearUpdated, Unstopped, At
  <2>2. Cardinality(Unstopped') <= Cardinality(Unstopped)
    BY <2>1, AllFit DEF Fits
  <2>3. /\ CountsOK' /\ failures' = NoFailures
        /\ tried' \in [all : Nat, free : Nat, late : Nat, uncounted : Nat]
    BY <1>1, <1>3, <2>2, ClearingCounts DEF ClearUpdated
  <2> QED  BY <1>1, <1>2, <1>3, <2>3, AdminTyped, OthersKeep DEF ClearUpdated
<1>4. CASE AbortClear
  <2>1. faults' \in 0 .. MaxFaults
    BY <1>1, <1>4, AdminTyped, GuardConfig DEF AbortClear
  <2>2. CountsOK'
    BY <1>1, <1>4, CountsStay DEF AbortClear
  <2> QED  BY <1>1, <1>2, <1>4, <2>1, <2>2, AdminTyped, OthersKeep DEF AbortClear
<1> QED  BY <1>3, <1>4

LEMMA TickKeeps ==
    ASSUME Inv, Tick
    PROVE  Inv'
<1>1. /\ StateOK /\ TypeOK /\ CountsOK /\ CaptchaOK
      /\ UNCHANGED <<row, req, admin, faults, spent, deployment>>
      /\ now \in Nat /\ now' = now + 1 /\ now' \in 1 .. MaxTime /\ MaxTime \in Nat
      /\ FailureTTL \in Nat /\ CaptchaTTL \in Nat
  BY InvParts, GuardConfig DEF StateOK, TypeOK, Tick
<1>2. captcha' \in [Captchas -> 0 .. now' + CaptchaTTL]
  <2>1. \A c \in Captchas : captcha[c] \in 0 .. now' + CaptchaTTL
    BY <1>1 DEF TypeOK
  <2> QED  BY <1>1, <2>1 DEF Tick, Absent
<1>3. /\ \A c \in Captchas : Stored(c)' => Stored(c)
  <2>1. ASSUME NEW c \in Captchas, Stored(c)'
        PROVE  Stored(c)
    <3>1. captcha[c] \in Nat
      BY <1>1 DEF TypeOK
    <3>2. captcha'[c] = IF captcha[c] > now' THEN captcha[c] ELSE 0
      BY DEF Tick, Absent
    <3> QED  BY <1>1, <2>1, <3>1, <3>2 DEF Stored
  <2> QED  BY <2>1
<1>4. CaptchaOK'
  BY <1>1, <1>3, CaptchasShrink
<1>5. CASE failures.count > 0 /\ failures.expiredAt <= now'
  <2>1. ClearFailures
    BY <1>5 DEF Tick
  <2>2. Unstopped' = Unstopped
    BY <1>1 DEF Unstopped, At
  <2>3. Cardinality(Unstopped') <= Cardinality(Unstopped)
    BY <2>2, AllFit DEF Fits
  <2>4. /\ CountsOK' /\ failures' = NoFailures
        /\ tried' \in [all : Nat, free : Nat, late : Nat, uncounted : Nat]
    BY <1>1, <2>1, <2>3, ClearingCounts
  <2>5. failures' \in [count : Nat, expiredAt : 0 .. now' + FailureTTL] /\ CountIsLive'
    BY <1>1, <2>4 DEF NoFailures, CountIsLive
  <2>6. StateOK'
    BY <1>1, <1>2, <2>4, <2>5 DEF StateOK, TypeOK
  <2> QED  BY <1>4, <2>4, <2>6, Together
<1>6. CASE ~(failures.count > 0 /\ failures.expiredAt <= now')
  <2>1. UNCHANGED <<failures, tried>>
    BY <1>6 DEF Tick
  <2>2. CountsOK'
    BY <1>1, <2>1, CountsStay
  <2>3. failures' \in [count : Nat, expiredAt : 0 .. now' + FailureTTL]
    <3>1. failures \in [count : Nat, expiredAt : 0 .. now + FailureTTL]
      BY <1>1 DEF TypeOK
    <3>2. failures.expiredAt \in 0 .. now' + FailureTTL
      BY <1>1, <3>1
    <3> QED  BY <2>1, <3>1, <3>2
  <2>4. CountIsLive'
    <3>1. failures.expiredAt \in Nat /\ failures.count \in Nat
      BY <1>1 DEF TypeOK
    <3> QED  BY <1>1, <1>6, <2>1, <3>1 DEF CountIsLive
  <2>5. StateOK'
    BY <1>1, <1>2, <2>1, <2>3, <2>4 DEF StateOK, TypeOK
  <2> QED  BY <1>4, <2>2, <2>5, Together
<1> QED  BY <1>5, <1>6

\* All requests end; what had not been counted is lost, or the counter is.
LEMMA RestartKeeps ==
    ASSUME Inv, Restart
    PROVE  Inv'
<1>1. /\ StateOK /\ TypeOK /\ CountsOK /\ CaptchaOK
      /\ UNCHANGED <<now, row, spent, deployment>>
      /\ req' = [r \in Requests |-> Idle]
      /\ faults' \in 0 .. MaxFaults
      /\ now \in Nat /\ FailureTTL \in Nat /\ CaptchaTTL \in Nat
  BY InvParts, GuardConfig DEF StateOK, TypeOK, Restart
<1>2. /\ req' \in [Requests -> Request]
      /\ \A r \in Requests : req'[r] = Idle /\ req'[r].pc = "idle"
  BY <1>1, IdleTyped
<1>3. admin' \in [pc : {"idle", "clearing"}, form : {"none", "unlocked", "locked"}]
  BY <1>1, AdminTyped DEF Restart
<1>4. /\ Unstopped' = {} /\ Admitted' = {} /\ Recording' = {}
      /\ WithoutCaptcha(Trying)' = {} /\ WithoutCaptcha(Recording)' = {}
  BY <1>2 DEF Unstopped, Admitted, Trying, Recording, WithoutCaptcha, At
<1>5. /\ Cardinality(Unstopped') = 0 /\ Cardinality(Admitted') = 0
      /\ Cardinality(Recording') = 0 /\ Cardinality(WithoutCaptcha(Trying)') = 0
      /\ Cardinality(WithoutCaptcha(Recording)') = 0
  BY <1>4, FS_EmptySet
<1>6. \A c \in Captchas : Stored(c)' => Stored(c)
  <2>1. captcha' = captcha \/ captcha' = [c \in Captchas |-> 0]
    BY DEF Restart, Absent
  <2> QED  BY <1>1, <2>1 DEF Stored
<1>7. CaptchaOK'
  BY <1>1, <1>2, <1>6, CaptchasShrink
<1>8. captcha' \in [Captchas -> 0 .. now + CaptchaTTL]
  BY <1>1 DEF Restart, Absent, TypeOK
<1>9. CASE deployment = "single"
  <2>1. Cardinality(Unstopped') <= Cardinality(Unstopped)
    BY <1>5, AllFit DEF Fits
  <2>2. /\ CountsOK' /\ failures' = NoFailures
        /\ tried' \in [all : Nat, free : Nat, late : Nat, uncounted : Nat]
    BY <1>1, <1>9, <2>1, ClearingCounts DEF Restart
  <2>3. failures' \in [count : Nat, expiredAt : 0 .. now + FailureTTL] /\ CountIsLive'
    BY <1>1, <2>2 DEF NoFailures, CountIsLive
  <2>4. StateOK'
    BY <1>1, <1>2, <1>3, <1>8, <2>2, <2>3 DEF StateOK, TypeOK
  <2> QED  BY <1>7, <2>2, <2>4, Together
<1>10. CASE deployment # "single"
  <2>1. /\ tried' = [tried EXCEPT !.uncounted = @ + Uncounted(Requests)]
        /\ UNCHANGED <<failures, captcha>>
    BY <1>10 DEF Restart
  <2>2. Uncounted(Requests) = Cardinality(Recording)
    <3>1. {r \in Requests : req[r].pc = "recording"} = Recording
      BY DEF Recording, At
    <3> QED  BY <3>1 DEF Uncounted
  <2>3. /\ Cardinality(Recording) \in Nat
        /\ Cardinality(WithoutCaptcha(Recording)) <= Cardinality(Recording)
    <3>1. IsFiniteSet(Recording) /\ WithoutCaptcha(Recording) \in SUBSET Recording
      BY Subsets, SomeOfThem DEF WithoutCaptcha
    <3> QED  BY <3>1, AllFit, FS_Subset DEF Fits
  <2>4. /\ tried' \in [all : Nat, free : Nat, late : Nat, uncounted : Nat]
        /\ tried'.all = tried.all /\ tried'.free = tried.free /\ tried'.late = tried.late
        /\ tried'.uncounted = tried.uncounted + Cardinality(Recording)
    BY <1>1, <2>1, <2>2, <2>3, AdminTyped
  <2>5. CountsOK'
    <3>1. CASE row.locked
      <4>1. tried'.late + Cardinality(Unstopped') <= Cardinality(Requests)
        BY <1>1, <1>5, <2>4, <3>1, Numbers, AllFit DEF CountsOK, LateOK, Fits
      <4>2. tried'.uncounted \in Nat /\ tried'.uncounted >= tried.uncounted
        BY <1>1, <2>3, <2>4, Numbers
      <4> QED  BY <1>1, <2>4, <3>1, <4>1, <4>2, Numbers, LockedCounts
    <3>2. CASE ~row.locked
      <4>1. TriesOK
        BY <1>1 DEF CountsOK
      <4>2. TriesOK'
        BY <1>1, <1>5, <2>1, <2>3, <2>4, <3>2, <4>1, Numbers, AllFit DEF TriesOK, Fits
      <4>3. TriesAreBounded' /\ FreeTriesAreBounded' /\ LateOK'
        BY <1>1, <1>5, <2>3, <2>4, <3>2, <4>1, <4>2, Numbers, AllFit, AllFitNext
        DEF TriesOK, LateOK, TriesAreBounded, FreeTriesAreBounded, Fits
      <4> QED  BY <4>2, <4>3 DEF CountsOK
    <3> QED  BY <1>1, <3>1, <3>2, Numbers
  <2>6. StateOK'
    BY <1>1, <1>2, <1>3, <1>8, <2>1, <2>4 DEF StateOK, TypeOK, CountIsLive
  <2> QED  BY <1>7, <2>5, <2>6, Together
<1> QED  BY <1>9, <1>10
-----------------------------------------------------------------------------
(* The theorems.                                                           *)

LEMMA InitEstablishes == Init => Inv
<1> SUFFICES ASSUME Init PROVE Inv
  OBVIOUS
<1>1. /\ failures.count = 0 /\ failures.expiredAt = 0 /\ now = 1
      /\ FailureTTL \in Nat /\ CaptchaTTL \in Nat
  BY GuardConfig DEF Init, NoFailures
<1>2. failures \in [count : Nat, expiredAt : 0 .. now + FailureTTL]
  BY <1>1 DEF Init, NoFailures
<1>3. captcha \in [Captchas -> 0 .. now + CaptchaTTL] /\ \A c \in Captchas : ~Stored(c)
  BY <1>1 DEF Init, Absent, Stored
<1>4. /\ req \in [Requests -> Request]
      /\ \A r \in Requests : req[r] = Idle /\ req[r].pc = "idle"
  BY IdleTyped DEF Init
<1>5. /\ row \in [exists : BOOLEAN, version : 1 .. MaxVersion,
                   fresh : BOOLEAN, locked : BOOLEAN]
      /\ ~row.locked
  <2>1. MaxVersion \in Nat /\ 1 \in 1 .. MaxVersion
    BY GuardConfig
  <2>2. row \in [exists : {TRUE}, version : {1}, fresh : BOOLEAN, locked : {FALSE}]
    BY DEF Init
  <2> QED  BY <2>1, <2>2
<1>6. /\ tried \in [all : Nat, free : Nat, late : Nat, uncounted : Nat]
      /\ tried.all = 0 /\ tried.free = 0 /\ tried.late = 0 /\ tried.uncounted = 0
  BY UntriedTyped DEF Init, Untried
<1>7. StateOK
  BY <1>1, <1>2, <1>3, <1>4, <1>5, <1>6, GuardConfig DEF Init, StateOK, TypeOK, CountIsLive
<1>8. CaptchaOK
  BY <1>3, <1>4 DEF Init, CaptchaOK, CaptchasOK, CaptchaIsSpentOnce
<1>9. /\ Unstopped = {} /\ Admitted = {} /\ Recording = {}
      /\ WithoutCaptcha(Trying) = {} /\ WithoutCaptcha(Recording) = {}
  BY <1>4 DEF Unstopped, Admitted, Trying, Recording, WithoutCaptcha, At
<1>10. CountsOK
  BY <1>1, <1>5, <1>6, <1>7, <1>9, FS_EmptySet, Numbers, AllFit
  DEF CountsOK, TriesOK, LateOK, TriesAreBounded, FreeTriesAreBounded, Fits
<1> QED  BY <1>7, <1>8, <1>10, InvParts

LEMMA NextKeeps == Inv /\ [Next]_vars => Inv'
<1> SUFFICES ASSUME Inv, [Next]_vars PROVE Inv'
  OBVIOUS
<1>1. CASE UNCHANGED vars
  <2>1. CountsOK'
    BY <1>1, InvParts, CountsStay DEF vars
  <2>2. StateOK /\ TypeOK
    BY InvParts DEF StateOK
  <2> QED  BY <1>1, <2>1, <2>2, AdminTyped, OthersKeep DEF vars
<1> QED  BY <1>1, BeginIssueKeeps, NewChallengeKeeps, RefreshChallengeKeeps, CheckKeeps,
            RestoreKeeps, BeginChangeKeeps, PasswordChangeLockedKeeps, FailureCountKeeps,
            RequiredKeeps, VerifyKeeps, ReplacingKeeps, IncorrectPasswordKeeps,
            RefusedKeeps, RecordFailureKeeps, PersistPasswordChangeLockKeeps, ClearKeeps,
            BeginResetKeeps, AbortKeeps, FormKeeps, UpdateUserKeeps, ClearUpdatedKeeps,
            DeleteUserKeeps, TickKeeps, RestartKeeps
   DEF Next

\* A captcha is stored, being checked or spent, and every wrong password is counted,
\* about to be, or lost, through resets, forms, expiry, failures and restarts.
THEOREM InvariantHolds == Spec => []Inv
<1>1. Init => Inv
  BY InitEstablishes
<1>2. Inv /\ [Next]_vars => Inv'
  BY NextKeeps
<1> QED  BY <1>1, <1>2, PTL DEF Spec

\* Every variable keeps its type; no counter outlives its deadline's bound.
THEOREM TypeCorrect == Spec => []TypeOK
<1>1. Inv => TypeOK
  BY DEF Inv
<1> QED  BY <1>1, InvariantHolds, PTL

\* Before the lock at most one wrong password more is tried for each request at
\* once than the threshold says, and after it each request tries at most once.
THEOREM TriesAlwaysBounded == Spec => []TriesAreBounded
<1>1. Inv => TriesAreBounded
  BY DEF Inv
<1> QED  BY <1>1, InvariantHolds, PTL

\* The same for tries without a captcha and the threshold of the captchas.
THEOREM FreeTriesAlwaysBounded == Spec => []FreeTriesAreBounded
<1>1. Inv => FreeTriesAreBounded
  BY DEF Inv
<1> QED  BY <1>1, InvariantHolds, PTL

\* A captcha is accepted once and then never stored, or being put back, again.
THEOREM CaptchaAlwaysSpentOnce == Spec => []CaptchaIsSpentOnce
<1>1. Inv => CaptchaIsSpentOnce
  BY DEF Inv
<1> QED  BY <1>1, InvariantHolds, PTL
=============================================================================
