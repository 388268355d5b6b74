------------------------- MODULE MsgStatusProofs -------------------------
(***************************************************************************)
(* Proofs about MsgStatus: what the queries compute, then the invariant.   *)
(*                                                                         *)
(* The deadline of a row is the earliest instant at which its count could  *)
(* change by itself.  Until then the clock does not matter; what else      *)
(* could change the count is a commit, and whoever commits holds the row,  *)
(* or the gate alone, and writes a row that is accurate for its changes.   *)
(***************************************************************************)
EXTENDS MsgStatus, WellFoundedInduction, FiniteSetTheorems, TLAPS

Unread(M, R, c, t) == {m \in Outstanding(M, R, c, t) : M[m].published <= t}

Arrivals(M, R, c, t) == {0} \cup {M[m].published : m \in Unread(M, R, c, t)}

Deadlines(M, R, c, t) ==
    {Never} \cup {IF M[m].published > t THEN M[m].published ELSE M[m].expired :
                     m \in Outstanding(M, R, c, t)}

Tables == [Messages -> Message]
Receipts == [Messages -> Receipt]
Times == 0 .. MaxTime

\* Instants and deadlines are naturals, and NULL is a deadline too.
LEMMA Clock == MaxTime \in Nat /\ Never \in Nat /\ Never = MaxTime + 1 /\ Times \subseteq Nat
  BY MsgConfig DEF Never, Times

\* A set of naturals has a least element, and one below a bound a greatest.
LEMMA HasLeast ==
  ASSUME NEW S \in SUBSET Nat, S # {}
  PROVE  \E x \in S : \A y \in S : x <= y
<1> DEFINE Less == {p \in Nat \X Nat : p[1] < p[2]}
<1>1. IsWellFoundedOn(Less, Nat)
  <2>1. OpToRel(<, Nat) = Less
    BY DEF OpToRel
  <2> QED  BY <2>1, NatLessThanWellFounded
<1>2. \A x, y \in Nat : <<y, x>> \notin Less => x <= y
  OBVIOUS
<1> HIDE DEF Less
<1>3. \E x \in S : \A y \in S : ~ (<<y, x>> \in Less)
  BY <1>1, WFMin
<1> QED  BY <1>2, <1>3

\* The MIN and MAX of the queries, by what they are.
LEMMA EarliestIsLeast ==
  \A S \in SUBSET Nat : S # {} =>
      Earliest(S) \in S /\ \A y \in S : Earliest(S) <= y
  BY HasLeast DEF Earliest

LEMMA LatestIsGreatest ==
  \A S \in SUBSET Times : S # {} =>
      Latest(S) \in S /\ \A y \in S : y <= Latest(S)
<1> SUFFICES ASSUME NEW S \in SUBSET Times, S # {}
             PROVE  \E x \in S : \A y \in S : y <= x
  BY DEF Latest
<1> DEFINE T == {MaxTime - x : x \in S}
<1>1. T \in SUBSET Nat /\ T # {}
  <2>1. \A x \in S : MaxTime - x \in Nat
    BY Clock DEF Times
  <2> QED  BY <2>1
<1>2. PICK z \in T : \A y \in T : z <= y
  BY <1>1, HasLeast
<1>3. PICK x \in S : z = MaxTime - x
  BY <1>2
<1>4. \A y \in S : MaxTime - y \in T
  OBVIOUS
<1>5. \A y \in S : y <= x
  BY <1>2, <1>3, <1>4, Clock DEF Times
<1> QED  BY <1>5

\* A lower bound that is in the set is its MIN, an upper bound its MAX.
LEMMA EarliestIs ==
  \A S \in SUBSET Nat : \A x \in S : (\A y \in S : x <= y) => Earliest(S) = x
<1> SUFFICES ASSUME NEW S \in SUBSET Nat, NEW x \in S, \A y \in S : x <= y
             PROVE  Earliest(S) = x
  OBVIOUS
<1>1. Earliest(S) \in S /\ Earliest(S) <= x /\ x <= Earliest(S)
  BY EarliestIsLeast
<1>2. Earliest(S) \in Nat /\ x \in Nat
  BY <1>1
<1> QED  BY <1>1, <1>2

LEMMA LatestIs ==
  \A S \in SUBSET Times : \A x \in S : (\A y \in S : y <= x) => Latest(S) = x
<1> SUFFICES ASSUME NEW S \in SUBSET Times, NEW x \in S, \A y \in S : y <= x
             PROVE  Latest(S) = x
  OBVIOUS
<1>1. Latest(S) \in S /\ x <= Latest(S) /\ Latest(S) <= x
  BY LatestIsGreatest
<1>2. Latest(S) \in Nat /\ x \in Nat
  BY <1>1, Clock
<1> QED  BY <1>1, <1>2

\* The three columns, each from a set of its own.
LEMMA AggregateIs ==
  \A M, R, c, t :
      Aggregate(M, R, c, t) = [count  |-> Cardinality(Unread(M, R, c, t)),
                               latest |-> Latest(Arrivals(M, R, c, t)),
                               due    |-> Earliest(Deadlines(M, R, c, t))]
  BY DEF Aggregate, Unread, Arrivals, Deadlines

\* The sets behind the columns; none of those that are minimized or maximized is empty.
LEMMA SetsTyped ==
  \A R, c : \A M \in Tables, t \in Times :
      /\ Outstanding(M, R, c, t) \in SUBSET Messages
      /\ Unread(M, R, c, t) \in SUBSET Outstanding(M, R, c, t)
      /\ Arrivals(M, R, c, t) \in SUBSET Times /\ Arrivals(M, R, c, t) # {}
      /\ Deadlines(M, R, c, t) \in SUBSET (0 .. Never) /\ Deadlines(M, R, c, t) # {}
      /\ Deadlines(M, R, c, t) \in SUBSET Nat
<1> SUFFICES ASSUME NEW M \in Tables, NEW R, NEW c, NEW t \in Times
             PROVE  /\ Outstanding(M, R, c, t) \in SUBSET Messages
                    /\ Unread(M, R, c, t) \in SUBSET Outstanding(M, R, c, t)
                    /\ Arrivals(M, R, c, t) \in SUBSET Times /\ Arrivals(M, R, c, t) # {}
                    /\ Deadlines(M, R, c, t) \in SUBSET (0 .. Never)
                    /\ Deadlines(M, R, c, t) # {}
                    /\ Deadlines(M, R, c, t) \in SUBSET Nat
  OBVIOUS
<1>1. \A m \in Messages : M[m].published \in Times /\ M[m].expired \in 0 .. Never
  BY DEF Tables, Message, Times
<1>2. /\ Outstanding(M, R, c, t) \in SUBSET Messages
      /\ Unread(M, R, c, t) \in SUBSET Outstanding(M, R, c, t)
  BY DEF Outstanding, Unread
<1>3. Arrivals(M, R, c, t) \in SUBSET Times /\ Arrivals(M, R, c, t) # {}
  BY <1>1, <1>2, Clock DEF Arrivals, Times
<1>4. Deadlines(M, R, c, t) \in SUBSET (0 .. Never) /\ Deadlines(M, R, c, t) # {}
  BY <1>1, <1>2, Clock DEF Deadlines, Times
<1>5. 0 .. Never \subseteq Nat
  BY Clock
<1> QED  BY <1>2, <1>3, <1>4, <1>5

\* What is recomputed is a row, whose count is not above what was ever sent.
LEMMA AggregateTyped ==
  \A R, c : \A M \in Tables, t \in Times :
      /\ Aggregate(M, R, c, t) \in Row
      /\ Aggregate(M, R, c, t) # NoRow
      /\ \A S \in SUBSET Messages :
            (\A m \in Messages : M[m].scope \in Scopes => m \in S) =>
                Aggregate(M, R, c, t).count <= Cardinality(S)
<1> SUFFICES ASSUME NEW M \in Tables, NEW R, NEW c, NEW t \in Times
             PROVE  /\ Aggregate(M, R, c, t) \in Row
                    /\ Aggregate(M, R, c, t) # NoRow
                    /\ \A S \in SUBSET Messages :
                          (\A m \in Messages : M[m].scope \in Scopes => m \in S) =>
                              Aggregate(M, R, c, t).count <= Cardinality(S)
  OBVIOUS
<1> DEFINE A == Aggregate(M, R, c, t)
           U == Unread(M, R, c, t)
<1>1. A = [count |-> Cardinality(U), latest |-> Latest(Arrivals(M, R, c, t)),
           due |-> Earliest(Deadlines(M, R, c, t))]
  BY AggregateIs
<1>2. IsFiniteSet(Messages) /\ U \in SUBSET Messages /\ Cardinality(Messages) \in Nat
  BY SetsTyped, MsgConfig, FS_CardinalityType
<1>3. Cardinality(U) \in 0 .. Cardinality(Messages)
  BY <1>2, FS_Subset, FS_CardinalityType
<1>4. Latest(Arrivals(M, R, c, t)) \in 0 .. MaxTime
  BY SetsTyped, LatestIsGreatest DEF Times
<1>5. Earliest(Deadlines(M, R, c, t)) \in 0 .. Never
  BY SetsTyped, EarliestIsLeast
<1>6. A \in Row
  BY <1>1, <1>3, <1>4, <1>5 DEF Row
<1>7. A # NoRow
  <2>1. A.count = Cardinality(U)
    BY <1>1
  <2> QED  BY <1>3, <2>1 DEF NoRow
<1>8. ASSUME NEW S \in SUBSET Messages, \A m \in Messages : M[m].scope \in Scopes => m \in S
      PROVE  A.count <= Cardinality(S)
  <2>1. U \subseteq S
    BY <1>8, <1>2 DEF Unread, Outstanding, Addressed, Scopes
  <2>2. IsFiniteSet(S)
    BY <1>2, FS_Subset
  <2> QED  BY <1>1, <2>1, <2>2, FS_Subset
<1> QED  BY <1>6, <1>7, <1>8

\* Only what is addressed to the user matters.
LEMMA SameInbox ==
  ASSUME NEW M, NEW N, NEW R, NEW Q, NEW c, NEW t,
         \A m \in Messages :
            /\ Addressed(M, R, c, m) <=> Addressed(N, Q, c, m)
            /\ Addressed(M, R, c, m) =>
                  /\ M[m].published = N[m].published /\ M[m].expired = N[m].expired
                  /\ R[m] \in {"none", "unread"} <=> Q[m] \in {"none", "unread"}
  PROVE  Aggregate(M, R, c, t) = Aggregate(N, Q, c, t)
<1>1. Outstanding(M, R, c, t) = Outstanding(N, Q, c, t)
  BY DEF Outstanding
<1>2. \A m \in Outstanding(M, R, c, t) :
         M[m].published = N[m].published /\ M[m].expired = N[m].expired
  BY DEF Outstanding
<1>3. Unread(M, R, c, t) = Unread(N, Q, c, t)
  BY <1>1, <1>2 DEF Unread
<1>4. \A m \in Unread(M, R, c, t) : M[m].published = N[m].published
  BY <1>2 DEF Unread
<1>5. Arrivals(M, R, c, t) = Arrivals(N, Q, c, t)
  BY <1>3, <1>4 DEF Arrivals
<1>6. Deadlines(M, R, c, t) = Deadlines(N, Q, c, t)
  BY <1>1, <1>2 DEF Deadlines
<1> QED  BY <1>3, <1>5, <1>6, AggregateIs

\* Until the deadline the passing of time changes nothing.
LEMMA TimePasses ==
  \A R, c : \A M \in Tables, t, s \in Times :
      /\ \A m \in Messages : M[m].scope \in Scopes => M[m].published < M[m].expired
      /\ t <= s
      /\ s < Aggregate(M, R, c, t).due
      => Aggregate(M, R, c, s) = Aggregate(M, R, c, t)
<1> SUFFICES ASSUME NEW M \in Tables, NEW R, NEW c, NEW t \in Times, NEW s \in Times,
                    \A m \in Messages : M[m].scope \in Scopes => M[m].published < M[m].expired,
                    t <= s, s < Aggregate(M, R, c, t).due
             PROVE  Aggregate(M, R, c, s) = Aggregate(M, R, c, t)
  OBVIOUS
<1>1. Aggregate(M, R, c, t).due = Earliest(Deadlines(M, R, c, t))
  BY AggregateIs
<1>2. \A d \in Deadlines(M, R, c, t) : s < d /\ d \in Nat
  <2>1. Deadlines(M, R, c, t) \in SUBSET Nat /\ Deadlines(M, R, c, t) # {}
    BY SetsTyped
  <2>2. \A d \in Deadlines(M, R, c, t) : Earliest(Deadlines(M, R, c, t)) <= d
    BY <2>1, EarliestIsLeast
  <2>3. Earliest(Deadlines(M, R, c, t)) \in Nat
    BY <2>1, EarliestIsLeast
  <2> QED  BY <1>1, <2>1, <2>2, <2>3, Clock
<1>3. \A m \in Messages : M[m].published \in Nat /\ M[m].expired \in Nat
  BY Clock DEF Tables, Message, Times
<1>4. \A m \in Outstanding(M, R, c, t) :
         /\ M[m].published > t => s < M[m].published
         /\ ~(M[m].published > t) => s < M[m].expired
  BY <1>2 DEF Deadlines
<1>5. \A m \in Outstanding(M, R, c, t) : s < M[m].expired
  BY <1>3, <1>4, Clock DEF Outstanding, Addressed, Scopes
<1>6. Outstanding(M, R, c, s) = Outstanding(M, R, c, t)
  BY <1>3, <1>5, Clock DEF Outstanding
<1>7. \A m \in Outstanding(M, R, c, t) : M[m].published > t <=> M[m].published > s
  BY <1>3, <1>4, Clock DEF Outstanding
<1>8. Unread(M, R, c, s) = Unread(M, R, c, t)
  <2>1. \A m \in Outstanding(M, R, c, t) : M[m].published <= t <=> M[m].published <= s
    BY <1>3, <1>7, Clock DEF Outstanding
  <2> QED  BY <1>6, <2>1 DEF Unread
<1>9. Deadlines(M, R, c, s) = Deadlines(M, R, c, t)
  BY <1>6, <1>7 DEF Deadlines
<1>10. Arrivals(M, R, c, s) = Arrivals(M, R, c, t)
  BY <1>8 DEF Arrivals
<1> QED  BY <1>8, <1>9, <1>10, AggregateIs

\* The extreme of a set with one element more.
LEMMA LatestOfTwo ==
  \A S \in SUBSET Times : \A x \in Times :
      S # {} => Latest(S \cup {x}) = Latest({Latest(S), x})
<1> SUFFICES ASSUME NEW S \in SUBSET Times, NEW x \in Times, S # {}
             PROVE  Latest(S \cup {x}) = Latest({Latest(S), x})
  OBVIOUS
<1>1. Latest(S) \in S /\ \A y \in S : y <= Latest(S)
  BY LatestIsGreatest
<1> DEFINE l == Latest({Latest(S), x})
<1>2. l \in {Latest(S), x} /\ Latest(S) <= l /\ x <= l
  BY <1>1, LatestIsGreatest
<1> HIDE DEF l
<1>3. Latest(S) \in Nat /\ x \in Nat /\ l \in Nat /\ S \in SUBSET Nat
  BY <1>1, <1>2, Clock
<1>4. \A y \in S : y <= l
  BY <1>1, <1>2, <1>3
<1>5. l \in S \cup {x} /\ S \cup {x} \in SUBSET Times /\ \A y \in S \cup {x} : y <= l
  BY <1>1, <1>2, <1>4
<1>6. Latest(S \cup {x}) = l
  BY <1>5, LatestIs
<1> QED  BY <1>6 DEF l

LEMMA EarliestOfTwo ==
  \A S \in SUBSET Nat : \A x \in Nat :
      S # {} => Earliest(S \cup {x}) = Earliest({Earliest(S), x})
<1> SUFFICES ASSUME NEW S \in SUBSET Nat, NEW x \in Nat, S # {}
             PROVE  Earliest(S \cup {x}) = Earliest({Earliest(S), x})
  OBVIOUS
<1>1. Earliest(S) \in S /\ \A y \in S : Earliest(S) <= y
  BY EarliestIsLeast
<1> DEFINE l == Earliest({Earliest(S), x})
<1>2. l \in {Earliest(S), x} /\ l <= Earliest(S) /\ l <= x
  BY <1>1, EarliestIsLeast
<1> HIDE DEF l
<1>3. Earliest(S) \in Nat /\ x \in Nat /\ l \in Nat
  BY <1>1, <1>2
<1>4. \A y \in S : l <= y
  BY <1>1, <1>2, <1>3
<1>5. l \in S \cup {x} /\ S \cup {x} \in SUBSET Nat /\ \A y \in S \cup {x} : l <= y
  BY <1>1, <1>2, <1>4
<1>6. Earliest(S \cup {x}) = l
  BY <1>5, EarliestIs
<1> QED  BY <1>6 DEF l

\* Counting a new message is recomputing with it.
LEMMA OneMore ==
  ASSUME NEW M \in Tables, NEW N \in Tables, NEW R, NEW Q, NEW c, NEW t \in Times,
         NEW m \in Messages,
         ~Addressed(M, R, c, m),
         \A n \in Messages \ {m} : N[n] = M[n] /\ Q[n] = R[n],
         Addressed(N, Q, c, m), Q[m] \in {"none", "unread"},
         N[m].published <= t, t < N[m].expired
  PROVE  Aggregate(N, Q, c, t) = Counted(Aggregate(M, R, c, t), N[m])
<1>1. \A n \in Messages \ {m} : Addressed(N, Q, c, n) <=> Addressed(M, R, c, n)
  BY DEF Addressed
<1>2. /\ Outstanding(N, Q, c, t) = Outstanding(M, R, c, t) \cup {m}
      /\ m \notin Outstanding(M, R, c, t)
  BY <1>1 DEF Outstanding
<1>3. \A n \in Outstanding(M, R, c, t) : N[n] = M[n]
  BY <1>2 DEF Outstanding
<1>4. /\ Unread(N, Q, c, t) = Unread(M, R, c, t) \cup {m}
      /\ m \notin Unread(M, R, c, t)
  BY <1>2, <1>3 DEF Unread
<1>5. \A n \in Unread(M, R, c, t) : N[n] = M[n]
  BY <1>3 DEF Unread
<1>6. N[m].published \in Times /\ N[m].expired \in Nat
  BY Clock DEF Tables, Message, Times
<1>7. Cardinality(Unread(N, Q, c, t)) = Cardinality(Unread(M, R, c, t)) + 1
  <2>1. IsFiniteSet(Unread(M, R, c, t))
    BY SetsTyped, MsgConfig, FS_Subset
  <2> QED  BY <1>4, <2>1, FS_AddElement
<1>8. Latest(Arrivals(N, Q, c, t)) = Latest({Latest(Arrivals(M, R, c, t)), N[m].published})
  <2>1. Arrivals(N, Q, c, t) = Arrivals(M, R, c, t) \cup {N[m].published}
    BY <1>4, <1>5 DEF Arrivals
  <2>2. Arrivals(M, R, c, t) \in SUBSET Times /\ Arrivals(M, R, c, t) # {}
    BY SetsTyped
  <2> QED  BY <1>6, <2>1, <2>2, LatestOfTwo
<1>9. Earliest(Deadlines(N, Q, c, t)) = Earliest({Earliest(Deadlines(M, R, c, t)), N[m].expired})
  <2>1. ~(N[m].published > t)
    BY <1>6, Clock
  <2>2. Deadlines(N, Q, c, t) = Deadlines(M, R, c, t) \cup {N[m].expired}
    BY <1>2, <1>3, <2>1 DEF Deadlines
  <2> QED  BY <1>6, <2>2, SetsTyped, EarliestOfTwo
<1> QED  BY <1>7, <1>8, <1>9, AggregateIs DEF Counted
-----------------------------------------------------------------------------
(* What a request sees.                                                     *)

\* What a request sees are tables, too.
LEMMA SeenTyped ==
  ASSUME TypeOK, NEW r \in Requests
  PROVE  /\ MsgSeen(r) \in Tables
         /\ \A u \in Users : ReceiptSeen(r, u) \in Receipts
<1>1. req[r] \in Request /\ msg \in [Messages -> Message]
      /\ receipt \in [Users -> [Messages -> Receipt]]
  BY DEF TypeOK
<1>2. NoMessage("removed") \in Message
  BY Clock DEF NoMessage, Message
<1>3. req[r].draft \in Message
  BY <1>1 DEF Request
<1>4. MsgSeen(r) \in Tables
  BY <1>1, <1>2, <1>3 DEF MsgSeen, Tables
<1>5. \A u \in Users : ReceiptSeen(r, u) \in Receipts
  BY <1>1 DEF ReceiptSeen, Receipts, Receipt
<1> QED  BY <1>4, <1>5

\* Who has changed nothing sees what is committed.
LEMMA SeesCommitted ==
  ASSUME TypeOK, NEW r \in Requests, req[r].changed = {}
  PROVE  /\ MsgSeen(r) = msg
         /\ \A u \in Users : ReceiptSeen(r, u) = receipt[u]
         /\ \A u \in Users : Recomputed(r, u) = Truth(u)
<1>1. msg \in [Messages -> Message] /\ \A u \in Users : receipt[u] \in [Messages -> Receipt]
  BY DEF TypeOK
<1>2. MsgSeen(r) = msg
  BY <1>1 DEF MsgSeen
<1>3. \A u \in Users : ReceiptSeen(r, u) = receipt[u]
  BY <1>1 DEF ReceiptSeen
<1> QED  BY <1>2, <1>3 DEF Recomputed, Truth

\* What is seen was sent, and expires after it is published.
LEMMA SeenSent ==
  ASSUME Inv, NEW r \in Requests, NEW m \in Messages, MsgSeen(r)[m].scope \in Scopes
  PROVE  /\ m \in Used \cup req[r].changed
         /\ MsgSeen(r)[m].published < MsgSeen(r)[m].expired
<1>1. TypeOK /\ TablesOK /\ StageOK(r) /\ ChangesOK(r)
  BY DEF Inv
<1>2. CASE m \notin req[r].changed
  <2>1. MsgSeen(r)[m] = msg[m]
    BY <1>2 DEF MsgSeen
  <2> QED  BY <1>1, <2>1 DEF TablesOK, Used, Scopes
<1>3. CASE m \in req[r].changed
  <2>1. CASE req[r].op = "send"
    <3>1. MsgSeen(r)[m] = req[r].draft
      BY <1>3, <2>1 DEF MsgSeen
    <3> QED  BY <1>1, <1>3, <2>1, <3>1 DEF ChangesOK
  <2>2. CASE req[r].op = "unsend"
    <3>1. MsgSeen(r)[m].scope = "removed"
      BY <1>3, <2>2 DEF MsgSeen, NoMessage
    <3> QED  BY <3>1 DEF Scopes
  <2>3. CASE req[r].op \notin {"send", "unsend"}
    <3>1. MsgSeen(r)[m] = msg[m]
      BY <1>3, <2>3 DEF MsgSeen
    <3> QED  BY <1>1, <1>3, <3>1 DEF TablesOK
  <2> QED  BY <2>1, <2>2, <2>3
<1> QED  BY <1>2, <1>3

\* What is true of a user could be stored as his row.
LEMMA TruthTyped ==
  ASSUME TypeOK, NEW u \in Users
  PROVE  /\ Truth(u) \in Row /\ Truth(u) # NoRow
         /\ Shown(Truth(u)) \in (0 .. Cardinality(Messages)) \X (0 .. MaxTime)
<1>1. msg \in Tables /\ now \in Times
  BY Clock DEF TypeOK, Tables, Times
<1>2. Truth(u) \in Row /\ Truth(u) # NoRow
  BY <1>1, AggregateTyped DEF Truth
<1> QED  BY <1>2 DEF Shown, Row

\* What a request recomputes is a row, and its count is not above what was sent.
LEMMA RecomputedTyped ==
  ASSUME Inv, NEW r \in Requests, NEW u \in Users
  PROVE  /\ Recomputed(r, u) \in Row /\ Recomputed(r, u) # NoRow
         /\ Recomputed(r, u).count <= Cardinality(Used \cup req[r].changed)
<1>1. TypeOK /\ now \in Times
  BY Clock DEF Inv, TypeOK, Times
<1>2. MsgSeen(r) \in Tables
  BY <1>1, SeenTyped
<1>3. Used \cup req[r].changed \in SUBSET Messages
  BY <1>1 DEF Used, TypeOK, Request
<1>4. \A m \in Messages : MsgSeen(r)[m].scope \in Scopes => m \in Used \cup req[r].changed
  BY SeenSent
<1> QED  BY <1>1, <1>2, <1>3, <1>4, AggregateTyped DEF Recomputed
-----------------------------------------------------------------------------
(* Steps of one request that write nothing yet.                             *)

LocalOK(r) == StageOK(r) /\ ChangesOK(r) /\ LocksOK(r)

AnswerOK(r) ==
    req[r].pc = "rereading" => \A u \in req[r].held : Shown(req[r].rows[u]) \in truths[r]

DataTyped ==
    /\ now \in 1 .. MaxTime
    /\ user \in [Users -> Account]
    /\ msg \in [Messages -> Message]
    /\ receipt \in [Users -> [Messages -> Receipt]]
    /\ row \in [Users -> Row \cup {NoRow}]
    /\ req \in [Requests -> Request]

DataStays == UNCHANGED <<now, user, msg, receipt, row>>

OthersStay(r) == \A q \in Requests \ {r} : req'[q] = req[q]

\* The invariant by parts, the answers request by request.
LEMMA InvParts ==
  Inv <=> /\ TypeOK
          /\ TablesOK
          /\ \A q, r \in Requests : q # r => Apart(q, r)
          /\ \A r \in Requests : LocalOK(r)
          /\ KnownTargets => /\ StatusIsAccurate
                             /\ \A r \in Requests : RowsOK(r) /\ AnswerOK(r)
  BY DEF Inv, LocalOK, AnswerOK, AnswerWasTrue

LEMMA Together ==
  /\ TypeOK'
  /\ TablesOK'
  /\ \A q, r \in Requests : q # r => Apart(q, r)'
  /\ \A r \in Requests : LocalOK(r)'
  /\ KnownTargets => /\ StatusIsAccurate'
                     /\ \A r \in Requests : RowsOK(r)' /\ AnswerOK(r)'
  => Inv'
  BY DEF Inv, LocalOK, AnswerOK, AnswerWasTrue

\* While a Status request runs, whatever is true of its user is remembered.
LEMMA Watching ==
  ASSUME TypeOK, DataTyped', Watch
  PROVE  /\ TypeOK'
         /\ \A q \in Requests : req'[q].op = "status" =>
               /\ truths[q] \subseteq truths'[q]
               /\ \A u \in req'[q].users : Shown(Truth(u))' \in truths'[q]
<1> DEFINE Answers == (0 .. Cardinality(Messages)) \X (0 .. MaxTime)
<1>1. \A u \in Users : Shown(Truth(u))' \in Answers
  <2> SUFFICES ASSUME NEW u \in Users PROVE Shown(Truth(u))' \in Answers
    OBVIOUS
  <2>1. msg' \in Tables /\ now' \in Times
    BY Clock DEF DataTyped, Tables, Times
  <2>2. Truth(u)' = Aggregate(msg', receipt'[u], user'[u].created, now')
    BY DEF Truth
  <2>3. Truth(u)' \in Row /\ Truth(u)' # NoRow
    BY <2>1, <2>2, AggregateTyped
  <2> QED  BY <2>3 DEF Shown, Row
<1>2. \A q \in Requests : req'[q].users \subseteq Users
  BY DEF DataTyped, Request
<1>3. \A q \in Requests : truths[q] \subseteq Answers
  BY DEF TypeOK
<1>4. \A q \in Requests :
         truths'[q] = IF req'[q].op = "status"
                      THEN truths[q] \cup {Shown(Truth(u))' : u \in req'[q].users} ELSE {}
  BY DEF Watch
<1> HIDE DEF Answers
<1>5. \A q \in Requests : truths'[q] \in SUBSET Answers
  <2> SUFFICES ASSUME NEW q \in Requests PROVE truths'[q] \in SUBSET Answers
    OBVIOUS
  <2> DEFINE Now == {Shown(Truth(u))' : u \in req'[q].users}
  <2>1. Now \subseteq Answers
    BY <1>1, <1>2
  <2>2. truths'[q] = truths[q] \cup Now \/ truths'[q] = {}
    BY <1>4
  <2> HIDE DEF Now
  <2> QED  BY <1>3, <2>1, <2>2
<1>6. truths' \in [Requests -> SUBSET Answers]
  BY <1>5 DEF Watch
<1>7. TypeOK'
  BY <1>6 DEF TypeOK, DataTyped, Answers
<1> QED  BY <1>4, <1>7

\* A step that leaves the tables leaves their types.
LEMMA DataStaysTyped ==
  ASSUME TypeOK, DataStays, req' \in [Requests -> Request]
  PROVE  DataTyped'
  BY DEF TypeOK, DataTyped, DataStays

\* While the tables stay as they are, so does what is said about them.
LEMMA TablesStay ==
  ASSUME TablesOK, DataStays
  PROVE  /\ TablesOK'
         /\ Used' = Used /\ Stored' = Stored /\ Present' = Present
         /\ \A u : Truth(u)' = Truth(u)
         /\ StatusIsAccurate => StatusIsAccurate'
<1>1. /\ now' = now /\ user' = user /\ msg' = msg /\ receipt' = receipt /\ row' = row
  BY DEF DataStays
<1>2. Used' = Used /\ Stored' = Stored /\ Present' = Present
  BY <1>1 DEF Used, Stored, Present
<1>3. \A u : Truth(u)' = Truth(u)
  BY <1>1 DEF Truth
<1>4. TablesOK'
  BY <1>1, <1>2 DEF TablesOK
<1>5. StatusIsAccurate => StatusIsAccurate'
  BY <1>1, <1>2, <1>3 DEF StatusIsAccurate
<1> QED  BY <1>2, <1>3, <1>4, <1>5

\* A request that does nothing keeps its part, if nobody else commits.
LEMMA Bystander ==
  ASSUME Inv, DataStays, NEW q \in Requests, req'[q] = req[q]
  PROVE  /\ LocalOK(q)'
         /\ KnownTargets => RowsOK(q)'
<1>1. /\ now' = now /\ user' = user /\ msg' = msg /\ receipt' = receipt /\ row' = row
  BY DEF DataStays
<1>2. /\ Used' = Used /\ Stored' = Stored /\ Present' = Present
      /\ \A u : Truth(u)' = Truth(u)
  BY TablesStay, InvParts
<1>3. Inside(q)' = Inside(q) /\ Exclusive(q)' = Exclusive(q) /\ PastLock(q)' = PastLock(q)
  BY DEF Inside, Exclusive, PastLock
<1>4. MsgSeen(q)' = MsgSeen(q) /\ \A u : ReceiptSeen(q, u)' = ReceiptSeen(q, u)
  BY <1>1 DEF MsgSeen, ReceiptSeen
<1>5. \A u : Recomputed(q, u)' = Recomputed(q, u)
  BY <1>1, <1>4 DEF Recomputed
<1>6. LocalOK(q)'
  <2>1. StageOK(q) /\ ChangesOK(q) /\ LocksOK(q)
    BY InvParts DEF LocalOK
  <2>2. StageOK(q)'
    BY <1>2, <1>3, <2>1 DEF StageOK
  <2>3. ChangesOK(q)'
    BY <1>1, <1>2, <2>1 DEF ChangesOK
  <2>4. LocksOK(q)'
    BY <1>1, <1>2, <1>3, <2>1 DEF LocksOK
  <2> QED  BY <2>2, <2>3, <2>4 DEF LocalOK
<1>7. KnownTargets => RowsOK(q)'
  BY <1>1, <1>2, <1>5, InvParts DEF RowsOK
<1> QED  BY <1>6, <1>7

\* A step of one request that leaves the tables alone: its own part is enough.
LEMMA OneMoves ==
  ASSUME Inv, DataStays, Watch, NEW r \in Requests,
         req' \in [Requests -> Request], OthersStay(r),
         LocalOK(r)',
         \A q \in Requests \ {r} : Apart(q, r)' /\ Apart(r, q)',
         KnownTargets => RowsOK(r)' /\ AnswerOK(r)'
  PROVE  Inv'
<1> USE InvParts
<1>1. DataTyped'
  BY DataStaysTyped
<1>2. TypeOK'
  BY <1>1, Watching
<1>3. TablesOK' /\ (KnownTargets => StatusIsAccurate')
  BY TablesStay
<1>4. \A q, s \in Requests : q # s => Apart(q, s)'
  <2> SUFFICES ASSUME NEW q \in Requests, NEW s \in Requests, q # s PROVE Apart(q, s)'
    OBVIOUS
  <2>1. CASE q # r /\ s # r
    <3>1. req'[q] = req[q] /\ req'[s] = req[s] /\ Apart(q, s)
      BY <2>1 DEF OthersStay
    <3> QED  BY <3>1 DEF Apart, Inside, Exclusive
  <2>2. CASE q = r \/ s = r
    BY <2>2
  <2> QED  BY <2>1, <2>2
<1>5. \A q \in Requests : LocalOK(q)' /\ (KnownTargets => RowsOK(q)')
  BY Bystander DEF OthersStay
<1>6. \A q \in Requests : KnownTargets => AnswerOK(q)'
  <2> SUFFICES ASSUME NEW q \in Requests, KnownTargets, q # r PROVE AnswerOK(q)'
    OBVIOUS
  <2>1. req'[q] = req[q] /\ AnswerOK(q) /\ StageOK(q)
    BY DEF OthersStay, LocalOK
  <2>2. req'[q].op = "status" => truths[q] \subseteq truths'[q]
    BY <1>1, Watching
  <2> QED  BY <2>1, <2>2 DEF AnswerOK, StageOK
<1> QED  BY <1>2, <1>3, <1>4, <1>5, <1>6, Together
-----------------------------------------------------------------------------
(* Beginnings and ends.                                                     *)

\* The placeholders of the model are typed.
LEMMA NoMessageTyped ==
  /\ NoMessage("unused") \in Message
  /\ NoMessage("unused").scope = "unused"
  /\ NoMessage("removed") \in Message
  /\ NoMessage("removed").scope = "removed"
  BY Clock DEF NoMessage, Message

LEMMA IdleTyped == Idle \in Request
  BY NoMessageTyped DEF Idle, Request, Steps, Operations

\* A request that ends without committing takes nothing with it.
LEMMA LeaveKeeps ==
  ASSUME Inv, DataStays, Watch, NEW r \in Requests, Leave(r)
  PROVE  Inv'
<1>1. req \in [Requests -> Request]
  BY InvParts DEF TypeOK
<1>2. /\ req' \in [Requests -> Request]
      /\ OthersStay(r)
      /\ req'[r] = Idle
  BY <1>1, IdleTyped DEF Leave, OthersStay
<1>3. /\ req'[r].pc = "idle" /\ req'[r].op = "none" /\ req'[r].held = {}
      /\ req'[r].changed = {} /\ req'[r].draft.scope = "unused"
  BY <1>2, NoMessageTyped DEF Idle
<1>4. LocalOK(r)'
  BY <1>3 DEF LocalOK, StageOK, ChangesOK, LocksOK, PastLock, Exclusive, Edits
<1>5. RowsOK(r)' /\ AnswerOK(r)'
  BY <1>3 DEF RowsOK, AnswerOK
<1>6. \A q \in Requests \ {r} : Apart(q, r)' /\ Apart(r, q)'
  BY <1>3 DEF Apart, Inside
<1> QED  BY <1>2, <1>4, <1>5, <1>6, OneMoves

\* A request that is about to begin; what it needs of its arguments.
LEMMA StartKeeps ==
  ASSUME Inv, DataStays, Watch, NEW r \in Requests,
         NEW op \in Operations \ {"none"}, NEW users \in SUBSET Users,
         NEW msgs \in SUBSET Messages, NEW draft \in Message,
         Start(r, op, users, msgs, draft),
         op = "send" =>
            /\ draft.scope \in Scopes
            /\ draft.scope = "all" => users = Users
            /\ \E m \in Messages \ Used :
                  msgs = {m} /\ \A q \in Requests : req[q].op = "send" => m \notin req[q].msgs
            /\ KnownTargets /\ draft.scope = "targeted" => users \subseteq Present,
         op # "send" => draft.scope = "unused",
         op = "unsend" => users = Users,
         op \in Edits \ {"unsend"} => \E u \in Users : users = {u}
  PROVE  Inv'
<1>1. req \in [Requests -> Request]
  BY InvParts DEF TypeOK
<1> DEFINE new == [Idle EXCEPT !.pc = "waiting", !.op = op, !.users = users,
                               !.msgs = msgs, !.draft = draft]
<1>2. /\ new \in Request
      /\ new.pc = "waiting" /\ new.op = op /\ new.users = users /\ new.msgs = msgs
      /\ new.draft = draft /\ new.held = {} /\ new.changed = {}
  BY IdleTyped DEF Idle, Request, Steps, Operations
<1>3. req' = [req EXCEPT ![r] = new]
  BY DEF Start
<1> HIDE DEF new
<1>4. /\ req' \in [Requests -> Request]
      /\ OthersStay(r)
      /\ req'[r] = new
  BY <1>1, <1>2, <1>3 DEF OthersStay
<1>5. Used' = Used /\ Stored' = Stored /\ Present' = Present /\ user' = user
  BY TablesStay, InvParts DEF DataStays
<1>6. StageOK(r)'
  BY <1>2, <1>4 DEF StageOK, PastLock
<1>7. ChangesOK(r)'
  BY <1>2, <1>4, <1>5 DEF ChangesOK, Edits
<1>8. LocksOK(r)'
  <2>1. ~PastLock(r)' /\ req'[r].pc \notin {"recounting", "committing"}
    BY <1>2, <1>4 DEF PastLock
  <2>2. KnownTargets /\ draft.scope = "targeted" =>
           \A u \in users : user'[u].state \in {"present", "deleted"}
    BY <1>5 DEF Present
  <2> QED  BY <1>2, <1>4, <2>1, <2>2 DEF LocksOK
<1>9. RowsOK(r)' /\ AnswerOK(r)'
  BY <1>2, <1>4 DEF RowsOK, AnswerOK
<1>10. \A q \in Requests \ {r} : Apart(q, r)' /\ Apart(r, q)'
  BY <1>2, <1>4 DEF Apart, Inside, OthersStay
<1>11. LocalOK(r)'
  BY <1>6, <1>7, <1>8 DEF LocalOK
<1> QED  BY <1>4, <1>9, <1>10, <1>11, OneMoves

\* The calls that begin a transaction, and the failures that end it.
LEMMA PollKeeps ==
  ASSUME Inv, Watch, NEW r \in Requests, Poll(r)
  PROVE  Inv'
<1>1. DataStays
  BY DEF Poll, DataStays
<1>2. PICK u \in Present : Start(r, "status", {u}, {}, NoMessage("unused"))
  BY DEF Poll
<1>3. {u} \in SUBSET Users /\ {} \in SUBSET Messages
  BY DEF Present
<1>4. "status" \in Operations \ {"none"} /\ "status" \notin Edits \cup {"send", "unsend"}
  BY DEF Operations, Edits
<1> QED  BY <1>1, <1>2, <1>3, <1>4, NoMessageTyped, StartKeeps

LEMMA SweepKeeps ==
  ASSUME Inv, Watch, NEW r \in Requests, Sweep(r)
  PROVE  Inv'
<1>1. DataStays
  BY DEF Sweep, DataStays
<1>2. \E due \in SUBSET Users : Start(r, "sweep", due, {}, NoMessage("unused"))
  <2>1. {u \in Stored : row[u].due <= now} \in SUBSET Users
    BY DEF Stored
  <2> QED  BY <2>1 DEF Sweep
<1>3. PICK due \in SUBSET Users : Start(r, "sweep", due, {}, NoMessage("unused"))
  BY <1>2
<1>4. "sweep" \in Operations \ {"none"} /\ "sweep" \notin Edits \cup {"send", "unsend"}
  BY DEF Operations, Edits
<1>5. {} \in SUBSET Messages
  OBVIOUS
<1> QED  BY <1>1, <1>3, <1>4, <1>5, NoMessageTyped, StartKeeps

LEMMA SendKeeps ==
  ASSUME Inv, Watch, NEW r \in Requests, Send(r)
  PROVE  Inv'
<1>1. DataStays
  BY DEF Send, DataStays
<1>2. PICK m \in Messages, expired \in now + 1 .. Never,
           targets \in SUBSET (IF KnownTargets THEN Present ELSE Users) :
        /\ msg[m].scope = "unused"
        /\ \A q \in Requests : req[q].op = "send" => m \notin req[q].msgs
        /\ Start(r, "send", IF targets = {} THEN Users ELSE targets, {m},
                 [scope |-> IF targets = {} THEN "all" ELSE "targeted",
                  published |-> 0, expired |-> expired])
  BY DEF Send
<1> DEFINE users == IF targets = {} THEN Users ELSE targets
           draft == [scope |-> IF targets = {} THEN "all" ELSE "targeted",
                     published |-> 0, expired |-> expired]
<1>3. targets \subseteq Users /\ (KnownTargets => targets \subseteq Present)
  BY <1>2 DEF Present
<1>4. now \in Nat
  BY InvParts DEF TypeOK
<1>5. draft \in Message /\ draft.scope \in Scopes
  BY <1>2, <1>4, Clock DEF Message, Scopes
<1>6. /\ users \in SUBSET Users
      /\ draft.scope = "all" => users = Users
      /\ KnownTargets /\ draft.scope = "targeted" => users \subseteq Present
  BY <1>3
<1>7. m \in Messages \ Used /\ {m} \in SUBSET Messages
  BY <1>2 DEF Used
<1>8. Start(r, "send", users, {m}, draft)
  BY <1>2
<1> HIDE DEF users, draft
<1> QED  BY <1>1, <1>2, <1>5, <1>6, <1>7, <1>8, StartKeeps DEF Operations, Edits

LEMMA EditKeeps ==
  ASSUME Inv, Watch, NEW r \in Requests, Edit(r)
  PROVE  Inv'
<1>1. DataStays
  BY DEF Edit, DataStays
<1>2. Present \subseteq Users
  BY DEF Present
<1>3. CASE \E u \in Present, m \in Messages, op \in {"read", "delete"} :
              Start(r, op, {u}, {m}, NoMessage("unused"))
  <2>1. PICK u \in Present, m \in Messages, op \in {"read", "delete"} :
              Start(r, op, {u}, {m}, NoMessage("unused"))
    BY <1>3
  <2> QED  BY <1>1, <1>2, <2>1, NoMessageTyped, StartKeeps DEF Operations, Edits
<1>4. CASE \E u \in Present : Start(r, "readAll", {u}, Messages, NoMessage("unused"))
  <2>1. PICK u \in Present : Start(r, "readAll", {u}, Messages, NoMessage("unused"))
    BY <1>4
  <2>2. u \in Users /\ {u} \in SUBSET Users /\ Messages \in SUBSET Messages
    BY <1>2
  <2>3. "readAll" \in Operations \ {"none"} /\ "readAll" \notin {"send", "unsend"}
    BY DEF Operations
  <2> QED  BY <1>1, <2>1, <2>2, <2>3, NoMessageTyped, StartKeeps
<1>5. CASE \E m \in Messages : Start(r, "unsend", Users, {m}, NoMessage("unused"))
  BY <1>1, <1>5, NoMessageTyped, StartKeeps DEF Operations, Edits
<1> QED  BY <1>3, <1>4, <1>5 DEF Edit

LEMMA AbortKeeps ==
  ASSUME Inv, Watch, NEW r \in Requests, Abort(r)
  PROVE  Inv'
  BY LeaveKeeps DEF Abort, DataStays
-----------------------------------------------------------------------------
(* The steps of a transaction.                                              *)

Rows == [Users -> Row \cup {NoRow}]

\* Only these fields of request r may be new.
Becomes(r, pc, held, rows, changed, draft) ==
    /\ req' \in [Requests -> Request]
    /\ OthersStay(r)
    /\ req'[r].pc = pc
    /\ req'[r].held = held
    /\ req'[r].rows = rows
    /\ req'[r].changed = changed
    /\ req'[r].draft = draft
    /\ req'[r].op = req[r].op
    /\ req'[r].users = req[r].users
    /\ req'[r].msgs = req[r].msgs

\* The fields of a request have their types.
LEMMA RequestTyped ==
  ASSUME TypeOK, NEW r \in Requests
  PROVE  /\ req \in [Requests -> Request]
         /\ req[r].pc \in Steps /\ req[r].op \in Operations
         /\ req[r].users \in SUBSET Users /\ req[r].msgs \in SUBSET Messages
         /\ req[r].draft \in Message /\ req[r].held \in SUBSET Users
         /\ req[r].rows \in Rows /\ req[r].changed \in SUBSET Messages
  BY DEF TypeOK, Request, Rows

\* A request is replaced by its next stage.
LEMMA BecomesIt ==
  ASSUME TypeOK, NEW r \in Requests
  PROVE  \A new \in Request :
            /\ req' = [req EXCEPT ![r] = new]
            /\ new.op = req[r].op /\ new.users = req[r].users /\ new.msgs = req[r].msgs
            => Becomes(r, new.pc, new.held, new.rows, new.changed, new.draft)
<1> SUFFICES ASSUME NEW new \in Request, req' = [req EXCEPT ![r] = new],
                    new.op = req[r].op, new.users = req[r].users, new.msgs = req[r].msgs
             PROVE  Becomes(r, new.pc, new.held, new.rows, new.changed, new.draft)
  OBVIOUS
<1>1. req \in [Requests -> Request]
  BY RequestTyped
<1>2. req' \in [Requests -> Request] /\ req'[r] = new /\ OthersStay(r)
  BY <1>1 DEF OthersStay
<1> QED  BY <1>2 DEF Becomes

\* The rows that others have locked stay theirs.
LEMMA HeldIsMine ==
  ASSUME Inv, NEW r \in Requests
  PROVE  req[r].held \cap Locked(r) = {}
  BY InvParts DEF Locked, Apart

\* Inside the gate nobody gets nearer to anybody but by locking rows.
LEMMA StaysApart ==
  ASSUME Inv, NEW r \in Requests, OthersStay(r),
         req'[r].op = req[r].op, req'[r].draft.scope = req[r].draft.scope,
         req'[r].msgs = req[r].msgs,
         Inside(r), req'[r].held \cap Locked(r) = {}
  PROVE  \A q \in Requests \ {r} : Apart(q, r)' /\ Apart(r, q)'
<1> SUFFICES ASSUME NEW q \in Requests \ {r} PROVE Apart(q, r)' /\ Apart(r, q)'
  OBVIOUS
<1>1. Apart(q, r) /\ Apart(r, q) /\ req'[q] = req[q]
  BY InvParts DEF OthersStay
<1>2. req[q].held \cap req'[r].held = {}
  BY DEF Locked
<1>3. Inside(q)' = Inside(q) /\ Exclusive(q)' = Exclusive(q) /\ Exclusive(r)' = Exclusive(r)
  BY <1>1 DEF Inside, Exclusive
<1> QED  BY <1>1, <1>2, <1>3 DEF Apart

\* What a request sees depends on what it has changed.
LEMMA SeesTheSame ==
  ASSUME DataStays, NEW r \in Requests,
         req'[r].op = req[r].op, req'[r].users = req[r].users,
         req'[r].changed = req[r].changed, req'[r].draft = req[r].draft
  PROVE  \A u : Recomputed(r, u)' = Recomputed(r, u)
<1>1. MsgSeen(r)' = MsgSeen(r) /\ \A u : ReceiptSeen(r, u)' = ReceiptSeen(r, u)
  BY DEF MsgSeen, ReceiptSeen, DataStays
<1> QED  BY <1>1 DEF Recomputed, DataStays

\* Whoever enters the gate excludes, or is excluded by, those inside.
LEMMA GateKeeps ==
  ASSUME Inv, Watch, NEW r \in Requests, Gate(r)
  PROVE  Inv'
<1>1. DataStays
  BY DEF Gate, DataStays
<1>2. TypeOK /\ LocalOK(r) /\ req[r].pc = "waiting"
  BY InvParts DEF Gate
<1> DEFINE new == [req[r] EXCEPT !.pc = "locking"]
<1>3. Becomes(r, "locking", req[r].held, req[r].rows, req[r].changed, req[r].draft)
  <2>1. req \in [Requests -> Request]
    BY <1>2, RequestTyped
  <2>2. /\ new \in Request
        /\ new.pc = "locking" /\ new.held = req[r].held /\ new.rows = req[r].rows
        /\ new.changed = req[r].changed /\ new.draft = req[r].draft
        /\ new.op = req[r].op /\ new.users = req[r].users /\ new.msgs = req[r].msgs
    BY <2>1 DEF Request, Steps
  <2>3. req' = [req EXCEPT ![r] = new]
    BY <2>1 DEF Gate
  <2> HIDE DEF new
  <2> QED  BY <1>2, <2>2, <2>3, BecomesIt
<1>4. /\ req' \in [Requests -> Request]
      /\ OthersStay(r)
      /\ req'[r].pc = "locking" /\ req'[r].op = req[r].op /\ req'[r].users = req[r].users
      /\ req'[r].msgs = req[r].msgs /\ req'[r].draft = req[r].draft
      /\ req'[r].held = req[r].held /\ req'[r].rows = req[r].rows
      /\ req'[r].changed = req[r].changed
  BY <1>3 DEF Becomes
<1>5. /\ Used' = Used /\ Stored' = Stored /\ Present' = Present
      /\ user' = user /\ now' = now /\ msg' = msg
  BY <1>1, TablesStay, InvParts DEF DataStays
<1>6. req[r].held = {} /\ ~PastLock(r) /\ ~PastLock(r)'
  BY <1>2, <1>4 DEF LocalOK, StageOK, PastLock
<1>7. LocalOK(r)'
  <2>1. StageOK(r)'
    BY <1>2, <1>4, <1>5, <1>6 DEF LocalOK, StageOK, PastLock
  <2>2. ChangesOK(r)'
    BY <1>2, <1>4, <1>5 DEF LocalOK, ChangesOK
  <2>3. LocksOK(r)'
    BY <1>2, <1>4, <1>5, <1>6 DEF LocalOK, LocksOK, Exclusive
  <2> QED  BY <2>1, <2>2, <2>3 DEF LocalOK
<1>8. RowsOK(r)' /\ AnswerOK(r)'
  BY <1>4, <1>6 DEF RowsOK, AnswerOK
<1>9. \A q \in Requests \ {r} : Apart(q, r)' /\ Apart(r, q)'
  <2> SUFFICES ASSUME NEW q \in Requests \ {r} PROVE Apart(q, r)' /\ Apart(r, q)'
    OBVIOUS
  <2>1. Apart(q, r) /\ Apart(r, q) /\ req'[q] = req[q]
    BY <1>4, InvParts DEF OthersStay
  <2>2. Inside(q)' = Inside(q) /\ Exclusive(q)' = Exclusive(q) /\ Exclusive(r)' = Exclusive(r)
    BY <1>4, <2>1 DEF Inside, Exclusive
  <2>3. Inside(q) => ~Exclusive(q) /\ ~Exclusive(r)
    BY DEF Gate
  <2> QED  BY <1>4, <2>1, <2>2, <2>3 DEF Apart
<1> QED  BY <1>1, <1>4, <1>7, <1>8, <1>9, OneMoves

\* The rows as they are stored are accurate when they are locked.
LEMMA LockKeeps ==
  ASSUME Inv, Watch, NEW r \in Requests, Lock(r)
  PROVE  Inv'
<1>1. DataStays
  BY DEF Lock, DataStays
<1>2. TypeOK /\ TablesOK /\ LocalOK(r) /\ req[r].pc = "locking"
  BY InvParts DEF Lock
<1> DEFINE held == req[r].users \cap Present
           rows == [u \in Users |-> IF u \notin held THEN NoRow
                                    ELSE IF u \in Stored THEN row[u] ELSE FreshRow]
           pc == IF req[r].op \in {"status", "sweep", "send"} THEN "refreshing" ELSE "changing"
<1>3. /\ held \in SUBSET Users /\ pc \in Steps /\ pc \in {"refreshing", "changing"}
      /\ held \cap Locked(r) = {}
  BY DEF Present, Steps, Lock
<1>4. FreshRow \in Row /\ FreshRow # NoRow /\ FreshRow.due = 0 /\ FreshRow.count = 0
  <2>1. Cardinality(Messages) \in Nat
    BY MsgConfig, FS_CardinalityType
  <2> QED  BY <2>1, Clock DEF FreshRow, Row, NoRow
<1>5. rows \in Rows
  BY <1>2, <1>4 DEF Rows, TypeOK
<1>6. \A u \in held : /\ u \in Users
                      /\ rows[u] = IF u \in Stored THEN row[u] ELSE FreshRow
                      /\ rows[u] # NoRow
  BY <1>3, <1>4 DEF Stored
<1>7. Becomes(r, pc, held, rows, req[r].changed, req[r].draft)
  <2>1. req' = [req EXCEPT ![r].held = held, ![r].rows = rows, ![r].pc = pc]
    BY DEF Lock
  <2>2. req \in [Requests -> Request]
    BY <1>2, RequestTyped
  <2> DEFINE new == [req[r] EXCEPT !.held = held, !.rows = rows, !.pc = pc]
  <2> HIDE DEF held, rows, pc
  <2>3. /\ new \in Request
        /\ new.pc = pc /\ new.held = held /\ new.rows = rows
        /\ new.changed = req[r].changed /\ new.draft = req[r].draft
        /\ new.op = req[r].op /\ new.users = req[r].users /\ new.msgs = req[r].msgs
    BY <1>3, <1>5, <2>2 DEF Request, Rows
  <2>4. req' = [req EXCEPT ![r] = new]
    BY <2>1, <2>2
  <2> HIDE DEF new
  <2> QED  BY <1>2, <2>3, <2>4, BecomesIt
<1>8. /\ Used' = Used /\ Stored' = Stored /\ Present' = Present
      /\ \A u : Truth(u)' = Truth(u)
      /\ user' = user /\ now' = now /\ msg' = msg
  BY <1>1, <1>2, TablesStay DEF DataStays
<1>9. now \in 1 .. MaxTime /\ held \subseteq req[r].users \cap Present
  BY <1>2 DEF TypeOK
<1>10. \A u \in held : rows[u].count <= Cardinality(Used)
  <2>1. IsFiniteSet(Used)
    BY MsgConfig, FS_Subset DEF Used
  <2>2. Cardinality(Used) \in Nat
    BY <2>1, FS_CardinalityType
  <2> QED  BY <1>2, <1>4, <1>6, <2>2 DEF TablesOK
<1>11. req[r].users = Users => Stored \subseteq held
  BY <1>2 DEF TablesOK, Present
<1>12. req[r].op # "none" /\ req[r].changed = {} /\ (pc = "changing" => req[r].op \in Edits)
       /\ (pc = "refreshing" => req[r].op \in {"status", "sweep", "send"})
  <2>1. req[r].op # "none" /\ req[r].changed = {} /\ req[r].op \in Operations
    BY <1>2, RequestTyped DEF LocalOK, StageOK, PastLock
  <2> QED  BY <2>1 DEF Operations, Edits
<1>13. KnownTargets /\ StatusIsAccurate =>
          \A u \in held : now < rows[u].due => rows[u] = Truth(u)
  BY <1>4, <1>6, <1>9 DEF StatusIsAccurate
<1> HIDE DEF held, rows, pc
<1>14. /\ req'[r].pc = pc /\ req'[r].held = held /\ req'[r].rows = rows
       /\ req'[r].changed = {} /\ req'[r].draft = req[r].draft
       /\ req'[r].op = req[r].op /\ req'[r].users = req[r].users
       /\ req'[r].msgs = req[r].msgs
  BY <1>7, <1>12 DEF Becomes
<1>15. StageOK(r)'
  BY <1>3, <1>6, <1>8, <1>9, <1>10, <1>12, <1>14 DEF StageOK, PastLock
<1>16. ChangesOK(r)'
  BY <1>2, <1>3, <1>8, <1>14 DEF LocalOK, ChangesOK
<1>17. LocksOK(r)'
  <2>1. Exclusive(r)' => req[r].users = Users
    BY <1>2, <1>14 DEF Exclusive, LocalOK, ChangesOK
  <2>2. req[r].users \cap Present \subseteq held
    BY DEF held
  <2> QED  BY <1>2, <1>3, <1>8, <1>11, <1>14, <2>1, <2>2 DEF LocalOK, LocksOK
<1>18. KnownTargets => RowsOK(r)' /\ AnswerOK(r)'
  BY <1>3, <1>8, <1>13, <1>14, InvParts DEF RowsOK, AnswerOK
<1>19. \A q \in Requests \ {r} : Apart(q, r)' /\ Apart(r, q)'
  <2>1. Inside(r)
    BY <1>2 DEF Inside
  <2> QED  BY <1>3, <1>7, <1>14, <2>1, StaysApart DEF Becomes
<1>20. LocalOK(r)' /\ req' \in [Requests -> Request] /\ OthersStay(r)
  BY <1>7, <1>15, <1>16, <1>17 DEF LocalOK, Becomes
<1> QED  BY <1>1, <1>18, <1>19, <1>20, OneMoves

\* A due row is recomputed, any other one is still accurate.
LEMMA RefreshDueKeeps ==
  ASSUME Inv, Watch, NEW r \in Requests, RefreshDue(r)
  PROVE  Inv'
<1>1. DataStays
  BY DEF RefreshDue, DataStays
<1>2. TypeOK /\ TablesOK /\ LocalOK(r) /\ req[r].pc = "refreshing"
  BY InvParts DEF RefreshDue
<1> DEFINE rows == [u \in Users |->
                       IF u \in req[r].held /\ req[r].rows[u].due <= now
                       THEN Recomputed(r, u) ELSE req[r].rows[u]]
           pc == CASE req[r].op = "status" -> "rereading"
                   [] req[r].op = "sweep"  -> "committing"
                   [] OTHER                -> "publishing"
<1>3. /\ req[r].op \in {"status", "sweep", "send"} /\ req[r].changed = {}
      /\ req[r].held \subseteq req[r].users \cap Present
      /\ req[r].held \in SUBSET Users /\ req[r].rows \in Rows
  BY <1>2, RequestTyped DEF LocalOK, StageOK, ChangesOK, Edits
<1>4. /\ pc \in Steps
      /\ pc \in {"rereading", "committing", "publishing"}
      /\ pc = "rereading" <=> req[r].op = "status"
      /\ pc = "committing" <=> req[r].op = "sweep"
      /\ pc = "publishing" <=> req[r].op = "send"
  BY <1>3 DEF Steps
<1>5. \A u \in Users : Recomputed(r, u) = Truth(u) /\ Truth(u) \in Row /\ Truth(u) # NoRow
                       /\ Recomputed(r, u).count <= Cardinality(Used)
  <2>1. Used \cup req[r].changed = Used
    BY <1>3
  <2> QED  BY <1>2, <1>3, <2>1, SeesCommitted, TruthTyped, RecomputedTyped
<1>6. rows \in Rows
  BY <1>3, <1>5 DEF Rows
<1>7. \A u \in req[r].held :
         /\ u \in Users /\ rows[u] # NoRow /\ rows[u].count <= Cardinality(Used)
         /\ rows[u] = Truth(u) \/ (rows[u] = req[r].rows[u] /\ ~(req[r].rows[u].due <= now))
  <2>1. \A u \in req[r].held : /\ req[r].rows[u] # NoRow
                               /\ req[r].rows[u].count <= Cardinality(Used)
    BY <1>2 DEF LocalOK, StageOK
  <2> QED  BY <1>3, <1>5, <2>1
<1>8. Becomes(r, pc, req[r].held, rows, req[r].changed, req[r].draft)
  <2>1. req' = [req EXCEPT ![r].rows = rows, ![r].pc = pc]
    BY DEF RefreshDue
  <2>2. req \in [Requests -> Request]
    BY <1>2, RequestTyped
  <2> DEFINE new == [req[r] EXCEPT !.rows = rows, !.pc = pc]
  <2> HIDE DEF rows, pc
  <2>3. /\ new \in Request
        /\ new.pc = pc /\ new.held = req[r].held /\ new.rows = rows
        /\ new.changed = req[r].changed /\ new.draft = req[r].draft
        /\ new.op = req[r].op /\ new.users = req[r].users /\ new.msgs = req[r].msgs
    BY <1>4, <1>6, <2>2 DEF Request, Rows
  <2>4. req' = [req EXCEPT ![r] = new]
    BY <2>1, <2>2
  <2> HIDE DEF new
  <2> QED  BY <1>2, <2>3, <2>4, BecomesIt
<1> HIDE DEF rows, pc
<1>9. /\ req'[r].pc = pc /\ req'[r].held = req[r].held /\ req'[r].rows = rows
      /\ req'[r].changed = {} /\ req[r].changed = {} /\ req'[r].draft = req[r].draft
      /\ req'[r].op = req[r].op /\ req'[r].users = req[r].users
      /\ req'[r].msgs = req[r].msgs
      /\ req' \in [Requests -> Request] /\ OthersStay(r)
  BY <1>3, <1>8 DEF Becomes
<1>10. /\ Used' = Used /\ Stored' = Stored /\ Present' = Present
       /\ \A u : Truth(u)' = Truth(u)
       /\ user' = user /\ now' = now /\ msg' = msg
  BY <1>1, <1>2, TablesStay DEF DataStays
<1>11. PastLock(r) /\ PastLock(r)' /\ Exclusive(r)' = Exclusive(r)
  BY <1>2, <1>4, <1>9 DEF PastLock, Exclusive
<1>12. StageOK(r)'
  <2>1. Used \cup {} = Used
    OBVIOUS
  <2> QED  BY <1>3, <1>4, <1>7, <1>9, <1>10, <1>11, <2>1 DEF StageOK
<1>13. ChangesOK(r)'
  BY <1>2, <1>3, <1>4, <1>9, <1>10 DEF LocalOK, ChangesOK
<1>14. LocksOK(r)'
  <2>1. req[r].draft.scope = "targeted" => req[r].op = "send"
    BY <1>2 DEF LocalOK, ChangesOK
  <2> QED  BY <1>2, <1>3, <1>4, <1>9, <1>10, <1>11, <2>1 DEF LocalOK, LocksOK, Edits
<1>15. ASSUME KnownTargets PROVE RowsOK(r)' /\ AnswerOK(r)'
  <2>1. RowsOK(r)
    BY <1>15, InvParts
  <2>2. now \in Nat /\ \A u \in req[r].held : req[r].rows[u].due \in Nat
    <3>1. \A u \in req[r].held : req[r].rows[u] # NoRow
      BY <1>2 DEF LocalOK, StageOK
    <3> QED  BY <1>2, <1>3, <3>1, Clock DEF TypeOK, Rows, Row
  <2>3. \A u \in req[r].held : rows[u] = Truth(u)
    BY <1>2, <1>7, <2>1, <2>2 DEF RowsOK
  <2>4. \A u \in req[r].held : Recomputed(r, u)' = Truth(u)'
    BY <1>1, <1>3, <1>5, <1>9, <1>10, SeesTheSame
  <2>5. RowsOK(r)'
    BY <1>9, <1>10, <2>3, <2>4 DEF RowsOK
  <2>6. AnswerOK(r)'
    <3>1. DataTyped'
      BY <1>1, <1>2, <1>9, DataStaysTyped
    <3>2. req'[r].op = "status" =>
             \A u \in req'[r].users : Shown(Truth(u))' \in truths'[r]
      BY <1>2, <3>1, Watching
    <3>3. \A u : Shown(Truth(u))' = Shown(Truth(u))
      BY <1>10 DEF Shown
    <3> QED  BY <1>3, <1>4, <1>9, <2>3, <3>2, <3>3 DEF AnswerOK
  <2> QED  BY <2>5, <2>6
<1>16. \A q \in Requests \ {r} : Apart(q, r)' /\ Apart(r, q)'
  <2>1. Inside(r)
    BY <1>2 DEF Inside
  <2> QED  BY <1>9, <2>1, HeldIsMine, StaysApart
<1>17. LocalOK(r)'
  BY <1>12, <1>13, <1>14 DEF LocalOK
<1> QED  BY <1>1, <1>9, <1>15, <1>16, <1>17, OneMoves

\* A Status request leaves only with a row of its own.
LEMMA RereadKeeps ==
  ASSUME Inv, Watch, NEW r \in Requests, Reread(r)
  PROVE  Inv'
<1>1. DataStays
  BY DEF Reread, DataStays
<1>2. CASE Leave(r)
  BY <1>1, <1>2, LeaveKeeps
<1>3. CASE req' = [req EXCEPT ![r].pc = "committing"]
  <2>1. TypeOK /\ TablesOK /\ LocalOK(r) /\ req[r].pc = "rereading"
    BY InvParts DEF Reread
  <2> DEFINE new == [req[r] EXCEPT !.pc = "committing"]
  <2>2. Becomes(r, "committing", req[r].held, req[r].rows, req[r].changed, req[r].draft)
    <3>1. req \in [Requests -> Request]
      BY <2>1, RequestTyped
    <3>2. /\ new \in Request
          /\ new.pc = "committing" /\ new.held = req[r].held /\ new.rows = req[r].rows
          /\ new.changed = req[r].changed /\ new.draft = req[r].draft
          /\ new.op = req[r].op /\ new.users = req[r].users /\ new.msgs = req[r].msgs
      BY <3>1 DEF Request, Steps
    <3>3. req' = [req EXCEPT ![r] = new]
      BY <1>3, <3>1
    <3> HIDE DEF new
    <3> QED  BY <2>1, <3>2, <3>3, BecomesIt
  <2>3. req[r].op = "status" /\ req[r].changed = {} /\ req[r].draft.scope = "unused"
        /\ req[r].held \subseteq Users
    BY <2>1, RequestTyped DEF LocalOK, StageOK, ChangesOK, Edits
  <2>4. /\ req'[r].pc = "committing" /\ req'[r].held = req[r].held
        /\ req'[r].rows = req[r].rows /\ req'[r].changed = req[r].changed
        /\ req'[r].draft = req[r].draft /\ req'[r].op = req[r].op
        /\ req'[r].users = req[r].users /\ req'[r].msgs = req[r].msgs
        /\ req' \in [Requests -> Request] /\ OthersStay(r)
    BY <2>2 DEF Becomes
  <2>5. /\ Used' = Used /\ Stored' = Stored /\ Present' = Present
        /\ \A u : Truth(u)' = Truth(u)
        /\ now' = now /\ Used \cup {} = Used
    BY <1>1, <2>1, TablesStay DEF DataStays
  <2>6. StageOK(r)'
    BY <2>1, <2>3, <2>4, <2>5 DEF LocalOK, StageOK, PastLock
  <2>7. ChangesOK(r)' /\ LocksOK(r)'
    BY <2>3, <2>4 DEF ChangesOK, LocksOK, Exclusive, Edits
  <2>8. ASSUME KnownTargets PROVE RowsOK(r)' /\ AnswerOK(r)'
    <3>1. RowsOK(r)
      BY <2>8, InvParts
    <3>2. \A u \in req[r].held : Recomputed(r, u)' = Truth(u)
      BY <1>1, <2>1, <2>3, <2>4, SeesCommitted, SeesTheSame
    <3> QED  BY <2>1, <2>4, <2>5, <3>1, <3>2 DEF RowsOK, AnswerOK
  <2>9. \A q \in Requests \ {r} : Apart(q, r)' /\ Apart(r, q)'
    <3>1. Inside(r)
      BY <2>1 DEF Inside
    <3> QED  BY <2>4, <3>1, HeldIsMine, StaysApart
  <2>10. LocalOK(r)'
    BY <2>6, <2>7 DEF LocalOK
  <2> QED  BY <1>1, <2>4, <2>8, <2>9, <2>10, OneMoves
<1> QED  BY <1>2, <1>3 DEF Reread

\* The message gets the time of its INSERT, before it expires.
LEMMA PublishKeeps ==
  ASSUME Inv, Watch, NEW r \in Requests, Publish(r)
  PROVE  Inv'
<1>1. DataStays
  BY DEF Publish, DataStays
<1>2. CASE Leave(r)
  BY <1>1, <1>2, LeaveKeeps
<1>3. CASE /\ ~(req[r].draft.expired <= now)
           /\ req' = [req EXCEPT ![r].pc = "delivering", ![r].changed = req[r].msgs,
                                 ![r].draft.published = now]
  <2>1. TypeOK /\ TablesOK /\ LocalOK(r) /\ req[r].pc = "publishing"
    BY InvParts DEF Publish
  <2> DEFINE draft == [req[r].draft EXCEPT !.published = now]
             new == [req[r] EXCEPT !.pc = "delivering", !.changed = req[r].msgs,
                                   !.draft = draft]
  <2>2. /\ draft \in Message /\ draft.published = now
        /\ draft.scope = req[r].draft.scope /\ draft.expired = req[r].draft.expired
    BY <2>1, RequestTyped, Clock DEF TypeOK, Message
  <2>3. Becomes(r, "delivering", req[r].held, req[r].rows, req[r].msgs, draft)
    <3>1. req \in [Requests -> Request]
      BY <2>1, RequestTyped
    <3>2. req' = [req EXCEPT ![r] = new]
      BY <1>3, <3>1 DEF Request
    <3> HIDE DEF draft
    <3>3. /\ new \in Request
          /\ new.pc = "delivering" /\ new.held = req[r].held /\ new.rows = req[r].rows
          /\ new.changed = req[r].msgs /\ new.draft = draft
          /\ new.op = req[r].op /\ new.users = req[r].users /\ new.msgs = req[r].msgs
      BY <2>2, <3>1 DEF Request, Steps
    <3> HIDE DEF new
    <3> QED  BY <2>1, <3>2, <3>3, BecomesIt
  <2> HIDE DEF draft, new
  <2>4. req[r].op = "send" /\ req[r].held \subseteq req[r].users \cap Present
    BY <2>1 DEF LocalOK, StageOK
  <2>5. /\ req'[r].pc = "delivering" /\ req'[r].held = req[r].held
        /\ req'[r].rows = req[r].rows /\ req'[r].changed = req[r].msgs
        /\ req'[r].draft = draft /\ req'[r].op = req[r].op
        /\ req'[r].users = req[r].users /\ req'[r].msgs = req[r].msgs
        /\ req' \in [Requests -> Request] /\ OthersStay(r)
    BY <2>3 DEF Becomes
  <2>6. /\ Used' = Used /\ Stored' = Stored /\ Present' = Present
        /\ \A u : Truth(u)' = Truth(u)
        /\ now' = now /\ user' = user /\ now \in Nat
    BY <1>1, <2>1, TablesStay DEF DataStays, TypeOK
  <2>7. PastLock(r) /\ PastLock(r)' /\ Exclusive(r)' = Exclusive(r)
    BY <2>1, <2>2, <2>5 DEF PastLock, Exclusive
  <2>8. StageOK(r)'
    BY <2>1, <2>4, <2>5, <2>6, <2>7 DEF LocalOK, StageOK
  <2>9. ChangesOK(r)'
    <3>1. draft.published <= now /\ draft.published < draft.expired
      <4>1. draft.expired \in Nat
        BY <2>1, <2>2, RequestTyped, Clock DEF Message
      <4> QED  BY <1>3, <2>2, <2>6, <4>1
    <3> QED  BY <2>1, <2>2, <2>4, <2>5, <2>6, <3>1 DEF LocalOK, ChangesOK, Edits
  <2>10. LocksOK(r)'
    BY <2>1, <2>2, <2>4, <2>5, <2>6, <2>7 DEF LocalOK, LocksOK, Edits
  <2>11. ASSUME KnownTargets PROVE RowsOK(r)' /\ AnswerOK(r)'
    <3>1. RowsOK(r)
      BY <2>11, InvParts
    <3> QED  BY <2>1, <2>5, <2>6, <3>1 DEF RowsOK, AnswerOK
  <2>12. \A q \in Requests \ {r} : Apart(q, r)' /\ Apart(r, q)'
    <3>1. Inside(r)
      BY <2>1 DEF Inside
    <3> QED  BY <2>2, <2>5, <3>1, HeldIsMine, StaysApart
  <2>13. LocalOK(r)'
    BY <2>8, <2>9, <2>10 DEF LocalOK
  <2> QED  BY <1>1, <2>5, <2>11, <2>12, <2>13, OneMoves
<1> QED  BY <1>2, <1>3 DEF Publish

\* Read, Delete, ReadAll and DeleteSent touch messages that are there.
LEMMA TouchedTyped ==
  ASSUME TypeOK, NEW r \in Requests, req[r].op \in Edits,
         req[r].op # "unsend" => \E u \in Users : req[r].users = {u}
  PROVE  /\ Touched(r) \in SUBSET req[r].msgs
         /\ \A m \in Touched(r) : msg[m].scope \in Scopes
<1>1. req[r].msgs \in SUBSET Messages
  BY RequestTyped
<1>2. CASE req[r].op = "unsend"
  <2>1. Touched(r) = {m \in req[r].msgs : msg[m].scope \in {"all", "targeted"}}
    BY <1>2 DEF Touched
  <2> QED  BY <1>1, <2>1 DEF Scopes
<1>3. CASE req[r].op # "unsend"
  <2> DEFINE mine == CHOOSE u \in req[r].users : TRUE
             visible == Visible(msg, receipt[mine], user[mine].created, now) \cap req[r].msgs
  <2>1. \A m \in visible : msg[m].scope \in Scopes
    BY DEF Visible, Addressed, Scopes
  <2> HIDE DEF visible, mine
  <2>2. Touched(r) \subseteq visible
    <3>1. CASE req[r].op = "delete"
      BY <3>1 DEF Touched, visible, mine
    <3>2. CASE req[r].op = "read"
      BY <3>2 DEF Touched, visible, mine
    <3>3. CASE req[r].op = "readAll"
      BY <3>3 DEF Touched, visible, mine
    <3> QED  BY <1>3, <3>1, <3>2, <3>3 DEF Edits
  <2>3. visible \subseteq req[r].msgs
    BY DEF visible
  <2> QED  BY <2>1, <2>2, <2>3
<1> QED  BY <1>2, <1>3

\* What they change stays with the request.
LEMMA ChangeKeeps ==
  ASSUME Inv, Watch, NEW r \in Requests, Change(r)
  PROVE  Inv'
<1>1. DataStays
  BY DEF Change, DataStays
<1>2. CASE Leave(r)
  BY <1>1, <1>2, LeaveKeeps
<1>3. CASE /\ req[r].op # "unsend" => req[r].held # {}
           /\ req' = [req EXCEPT ![r].pc = "recounting", ![r].changed = Touched(r)]
  <2>1. TypeOK /\ TablesOK /\ LocalOK(r) /\ req[r].pc = "changing"
    BY InvParts DEF Change
  <2>2. /\ req[r].op \in Edits /\ req[r].held \subseteq req[r].users \cap Present
        /\ req[r].op # "unsend" => \E u \in Users : req[r].users = {u}
        /\ req[r].draft.scope = "unused"
    BY <2>1 DEF LocalOK, StageOK, LocksOK, ChangesOK, Edits
  <2>3. Touched(r) \in SUBSET Messages /\ \A m \in Touched(r) : msg[m].scope \in Scopes
    BY <2>1, <2>2, TouchedTyped, RequestTyped
  <2> DEFINE touched == Touched(r)
             new == [req[r] EXCEPT !.pc = "recounting", !.changed = touched]
  <2> HIDE DEF touched
  <2>4. Becomes(r, "recounting", req[r].held, req[r].rows, touched, req[r].draft)
    <3>1. req \in [Requests -> Request]
      BY <2>1, RequestTyped
    <3>2. req' = [req EXCEPT ![r] = new]
      BY <1>3, <3>1 DEF touched
    <3>3. /\ new \in Request
          /\ new.pc = "recounting" /\ new.held = req[r].held /\ new.rows = req[r].rows
          /\ new.changed = touched /\ new.draft = req[r].draft
          /\ new.op = req[r].op /\ new.users = req[r].users /\ new.msgs = req[r].msgs
      BY <2>3, <3>1 DEF Request, Steps, touched
    <3> HIDE DEF new
    <3> QED  BY <2>1, <3>2, <3>3, BecomesIt
  <2>5. /\ req'[r].pc = "recounting" /\ req'[r].held = req[r].held
        /\ req'[r].rows = req[r].rows /\ req'[r].changed = touched
        /\ req'[r].draft = req[r].draft /\ req'[r].op = req[r].op
        /\ req'[r].users = req[r].users /\ req'[r].msgs = req[r].msgs
        /\ req' \in [Requests -> Request] /\ OthersStay(r)
    BY <2>4 DEF Becomes
  <2>6. /\ Used' = Used /\ Stored' = Stored /\ Present' = Present
        /\ msg' = msg /\ user' = user
    BY <1>1, <2>1, TablesStay DEF DataStays
  <2>7. PastLock(r) /\ PastLock(r)' /\ Exclusive(r)' = Exclusive(r)
    BY <2>1, <2>5 DEF PastLock, Exclusive
  <2>8. StageOK(r)'
    BY <2>1, <2>2, <2>5, <2>6, <2>7 DEF LocalOK, StageOK, Edits
  <2>9. ChangesOK(r)'
    <3>1. touched \subseteq {m \in Messages : msg[m].scope \in Scopes}
      BY <2>3 DEF touched
    <3> QED  BY <2>1, <2>2, <2>5, <2>6, <3>1 DEF LocalOK, ChangesOK, Edits
  <2>10. LocksOK(r)'
    <3>1. req[r].op # "unsend" => req[r].held = req[r].users
      BY <1>3, <2>2
    <3> QED  BY <2>1, <2>2, <2>5, <2>6, <2>7, <3>1 DEF LocalOK, LocksOK
  <2>11. RowsOK(r)' /\ AnswerOK(r)'
    BY <2>5 DEF RowsOK, AnswerOK
  <2>12. \A q \in Requests \ {r} : Apart(q, r)' /\ Apart(r, q)'
    <3>1. Inside(r)
      BY <2>1 DEF Inside
    <3> QED  BY <2>5, <3>1, HeldIsMine, StaysApart
  <2>13. LocalOK(r)'
    BY <2>8, <2>9, <2>10 DEF LocalOK
  <2> QED  BY <1>1, <2>5, <2>11, <2>12, <2>13, OneMoves
<1> QED  BY <1>2, <1>3 DEF Change

\* After that every locked row is recomputed from what the request sees.
LEMMA RecountKeeps ==
  ASSUME Inv, Watch, NEW r \in Requests, Recount(r)
  PROVE  Inv'
<1>1. DataStays
  BY DEF Recount, DataStays
<1>2. TypeOK /\ TablesOK /\ LocalOK(r) /\ req[r].pc = "recounting"
  BY InvParts DEF Recount
<1> DEFINE rows == [u \in Users |-> IF u \in req[r].held THEN Recomputed(r, u) ELSE NoRow]
           new == [req[r] EXCEPT !.pc = "committing", !.rows = rows]
<1>3. /\ req[r].op \in Edits /\ req[r].held \subseteq req[r].users \cap Present
      /\ req[r].held \subseteq Users /\ req[r].draft.scope = "unused"
  BY <1>2, RequestTyped DEF LocalOK, StageOK, ChangesOK, Edits
<1>4. rows \in Rows
  BY RecomputedTyped DEF Rows
<1>5. \A u \in req[r].held : /\ rows[u] = Recomputed(r, u) /\ rows[u] # NoRow
                             /\ rows[u].count <= Cardinality(Used \cup req[r].changed)
  BY <1>3, RecomputedTyped
<1> HIDE DEF rows
<1>6. Becomes(r, "committing", req[r].held, rows, req[r].changed, req[r].draft)
  <2>1. req \in [Requests -> Request]
    BY <1>2, RequestTyped
  <2>2. req' = [req EXCEPT ![r] = new]
    BY <2>1 DEF Recount, rows
  <2>3. /\ new \in Request
        /\ new.pc = "committing" /\ new.held = req[r].held /\ new.rows = rows
        /\ new.changed = req[r].changed /\ new.draft = req[r].draft
        /\ new.op = req[r].op /\ new.users = req[r].users /\ new.msgs = req[r].msgs
    BY <1>4, <2>1 DEF Request, Steps, Rows
  <2> HIDE DEF new
  <2> QED  BY <1>2, <2>2, <2>3, BecomesIt
<1>7. /\ req'[r].pc = "committing" /\ req'[r].held = req[r].held
      /\ req'[r].rows = rows /\ req'[r].changed = req[r].changed
      /\ req'[r].draft = req[r].draft /\ req'[r].op = req[r].op
      /\ req'[r].users = req[r].users /\ req'[r].msgs = req[r].msgs
      /\ req' \in [Requests -> Request] /\ OthersStay(r)
  BY <1>6 DEF Becomes
<1>8. /\ Used' = Used /\ Stored' = Stored /\ Present' = Present
      /\ msg' = msg /\ user' = user
  BY <1>1, <1>2, TablesStay DEF DataStays
<1>9. PastLock(r) /\ PastLock(r)' /\ Exclusive(r)' = Exclusive(r)
  BY <1>2, <1>7 DEF PastLock, Exclusive
<1>10. StageOK(r)'
  BY <1>3, <1>5, <1>7, <1>8, <1>9 DEF StageOK, Edits
<1>11. ChangesOK(r)'
  BY <1>2, <1>3, <1>7, <1>8 DEF LocalOK, ChangesOK, Edits
<1>12. LocksOK(r)'
  BY <1>2, <1>3, <1>7, <1>8, <1>9 DEF LocalOK, LocksOK
<1>13. RowsOK(r)' /\ AnswerOK(r)'
  <2>1. \A u \in req[r].held : Recomputed(r, u)' = rows[u]
    BY <1>1, <1>5, <1>7, SeesTheSame
  <2> QED  BY <1>7, <2>1 DEF RowsOK, AnswerOK
<1>14. \A q \in Requests \ {r} : Apart(q, r)' /\ Apart(r, q)'
  <2>1. Inside(r)
    BY <1>2 DEF Inside
  <2> QED  BY <1>7, <2>1, HeldIsMine, StaysApart
<1>15. LocalOK(r)'
  BY <1>10, <1>11, <1>12 DEF LocalOK
<1> QED  BY <1>1, <1>7, <1>13, <1>14, <1>15, OneMoves

\* A counter one higher is still that of a row, and is not due later.
LEMMA CountedTyped ==
  ASSUME NEW old \in Row, NEW sent \in Message, old.count < Cardinality(Messages)
  PROVE  /\ Counted(old, sent) \in Row
         /\ Counted(old, sent) # NoRow
         /\ Counted(old, sent).count = old.count + 1
         /\ Counted(old, sent).due <= old.due
         /\ Counted(old, sent).due <= sent.expired
<1> DEFINE l == Latest({old.latest, sent.published})
           e == Earliest({old.due, sent.expired})
<1>1. /\ old.latest \in Times /\ sent.published \in Times
      /\ old.due \in 0 .. Never /\ sent.expired \in 0 .. Never
      /\ old.count \in Nat /\ Cardinality(Messages) \in Nat
  <2>1. Cardinality(Messages) \in Nat
    BY MsgConfig, FS_CardinalityType
  <2> QED  BY <2>1 DEF Row, Message, Times
<1>2. l \in {old.latest, sent.published}
  BY <1>1, LatestIsGreatest
<1>3. e \in {old.due, sent.expired} /\ e <= old.due /\ e <= sent.expired
  <2>1. {old.due, sent.expired} \in SUBSET Nat /\ {old.due, sent.expired} # {}
    BY <1>1, Clock
  <2> QED  BY <2>1, EarliestIsLeast
<1> HIDE DEF l, e
<1>4. Counted(old, sent) = [count |-> old.count + 1, latest |-> l, due |-> e]
  BY DEF Counted, l, e
<1>5. l \in 0 .. MaxTime /\ e \in 0 .. Never /\ old.count + 1 \in 0 .. Cardinality(Messages)
  BY <1>1, <1>2, <1>3 DEF Times
<1>6. Counted(old, sent) \in Row
  BY <1>4, <1>5 DEF Row
<1>7. Counted(old, sent).count = old.count + 1 /\ Counted(old, sent).due = e
  BY <1>4
<1>8. Counted(old, sent) # NoRow
  <2>1. NoRow.count = -1
    BY DEF NoRow
  <2> QED  BY <1>1, <1>7, <2>1
<1> QED  BY <1>3, <1>6, <1>7, <1>8

\* What a send sees: its own message, addressed to its recipients, and no other.
LEMMA SendSees ==
  ASSUME Inv, NEW r \in Requests, req[r].op = "send", req[r].pc = "delivering",
         NEW m \in Messages \ Used, req[r].msgs = {m},
         NEW u \in req[r].held
  PROVE  /\ Counts(r, u) /\ now < req[r].draft.expired =>
               Recomputed(r, u) = Counted(Truth(u), req[r].draft)
         /\ ~Counts(r, u) => Recomputed(r, u) = Truth(u)
<1>1. TypeOK /\ TablesOK /\ LocalOK(r)
  BY InvParts
<1>2. /\ req[r].changed = {m} /\ req[r].draft.scope \in Scopes
      /\ req[r].draft.published <= now
      /\ u \in req[r].users /\ u \in Users
  BY <1>1, RequestTyped DEF LocalOK, StageOK, ChangesOK
<1> DEFINE N == MsgSeen(r)
           Q == ReceiptSeen(r, u)
           c == user[u].created
<1>3. N \in Tables /\ msg \in Tables /\ now \in Times
  BY <1>1, SeenTyped, Clock DEF TypeOK, Tables, Times
<1>4. /\ N[m] = req[r].draft
      /\ \A n \in Messages \ {m} : N[n] = msg[n] /\ Q[n] = receipt[u][n]
      /\ Q[m] = IF req[r].draft.scope = "targeted" THEN "unread" ELSE receipt[u][m]
  BY <1>2 DEF MsgSeen, ReceiptSeen
<1>5. msg[m].scope = "unused" /\ receipt[u][m] = "none"
  BY <1>1, <1>2 DEF Used, TablesOK
<1>6. ~Addressed(msg, receipt[u], c, m)
  BY <1>5 DEF Addressed
<1>7. Q[m] \in {"none", "unread"}
  BY <1>4, <1>5
<1> HIDE DEF N, Q, c
<1>8. Recomputed(r, u) = Aggregate(N, Q, c, now) /\ Truth(u) = Aggregate(msg, receipt[u], c, now)
  BY DEF Recomputed, Truth, N, Q, c
<1>9. CASE Counts(r, u) /\ now < req[r].draft.expired
  <2>1. Addressed(N, Q, c, m)
    BY <1>2, <1>4, <1>9 DEF Addressed, Counts, Scopes, c
  <2>2. N[m].published <= now /\ now < N[m].expired
    BY <1>2, <1>4, <1>9
  <2>3. Aggregate(N, Q, c, now) = Counted(Aggregate(msg, receipt[u], c, now), N[m])
    BY <1>3, <1>4, <1>6, <1>7, <2>1, <2>2, OneMore
  <2> QED  BY <1>4, <1>8, <1>9, <2>3
<1>10. CASE ~Counts(r, u)
  <2>1. ~Addressed(N, Q, c, m)
    BY <1>2, <1>4, <1>10 DEF Addressed, Counts, Scopes, c
  <2>2. \A n \in Messages \ {m} : Addressed(N, Q, c, n) <=> Addressed(msg, receipt[u], c, n)
    BY <1>4 DEF Addressed
  <2>3. Aggregate(N, Q, c, now) = Aggregate(msg, receipt[u], c, now)
    BY <1>4, <1>6, <2>1, <2>2, SameInbox
  <2> QED  BY <1>8, <1>10, <2>3
<1> QED  BY <1>9, <1>10

\* A message adds one to the rows of its users, which is what a query would count.
LEMMA DeliverKeeps ==
  ASSUME Inv, Watch, NEW r \in Requests, Deliver(r)
  PROVE  Inv'
<1>1. DataStays
  BY DEF Deliver, DataStays
<1>2. CASE Leave(r)
  BY <1>1, <1>2, LeaveKeeps
<1> DEFINE late == (req[r].users \cap Present \cap Stored) \ req[r].held
           held == req[r].held \cup late
           base == [u \in Users |-> IF u \in late THEN row[u] ELSE req[r].rows[u]]
           rows == [u \in Users |-> IF u \notin held THEN NoRow
                                    ELSE IF Counts(r, u) THEN Counted(base[u], req[r].draft)
                                    ELSE base[u]]
<1>3. CASE /\ req[r].draft.scope = "targeted" => req[r].users \subseteq Present
           /\ late \cap Locked(r) = {}
           /\ req' = [req EXCEPT ![r].pc = "committing", ![r].held = held, ![r].rows = rows]
  <2>1. TypeOK /\ TablesOK /\ LocalOK(r) /\ req[r].pc = "delivering"
    BY InvParts DEF Deliver
  <2>2. /\ req[r].op = "send" /\ req[r].held \subseteq req[r].users \cap Present
        /\ req[r].changed = req[r].msgs /\ PastLock(r)
        /\ req[r].draft.scope \in Scopes
    BY <2>1 DEF LocalOK, StageOK, ChangesOK, PastLock
  <2>3. PICK m \in Messages \ Used : req[r].msgs = {m}
    BY <2>1, <2>2 DEF LocalOK, ChangesOK
  <2>4. /\ Cardinality(Used \cup {m}) = Cardinality(Used) + 1
        /\ Cardinality(Used) \in Nat /\ Cardinality(Used) < Cardinality(Messages)
    <3>1. IsFiniteSet(Used) /\ Used \cup {m} \in SUBSET Messages
      BY MsgConfig, FS_Subset DEF Used
    <3>2. Cardinality(Used \cup {m}) = Cardinality(Used) + 1 /\ Cardinality(Used) \in Nat
      BY <2>3, <3>1, FS_AddElement, FS_CardinalityType
    <3>3. Cardinality(Used \cup {m}) <= Cardinality(Messages) /\ Cardinality(Messages) \in Nat
      BY <3>1, MsgConfig, FS_Subset, FS_CardinalityType
    <3> QED  BY <3>2, <3>3
  <2>5. /\ late \subseteq req[r].users \cap Present /\ held \subseteq req[r].users \cap Present
        /\ held \in SUBSET Users
    BY <2>2 DEF Present
  <2>6. \A u \in held : base[u] \in Row /\ base[u] # NoRow /\ base[u].count <= Cardinality(Used)
    <3>1. \A u \in late : row[u] \in Row /\ row[u] # NoRow /\ row[u].count <= Cardinality(Used)
      BY <2>1 DEF TypeOK, TablesOK, Stored
    <3>2. \A u \in req[r].held : /\ req[r].rows[u] # NoRow
                                 /\ req[r].rows[u].count <= Cardinality(Used)
      BY <2>1 DEF LocalOK, StageOK
    <3>3. \A u \in req[r].held : req[r].rows[u] \in Row
      BY <2>1, <2>5, <3>2, RequestTyped DEF Rows
    <3> QED  BY <2>5, <3>1, <3>2, <3>3
  <2>7. ASSUME KnownTargets PROVE held = req[r].held /\ \A u \in held : base[u] = req[r].rows[u]
    <3>1. CASE req[r].draft.scope = "targeted"
      BY <2>1, <2>2, <2>5, <2>7, <3>1 DEF LocalOK, LocksOK
    <3>2. CASE req[r].draft.scope = "all"
      <4>1. Stored \subseteq req[r].held
        BY <2>1, <2>2, <3>2 DEF LocalOK, LocksOK, Exclusive
      <4> QED  BY <2>5, <4>1
    <3> QED  BY <2>2, <3>1, <3>2 DEF Scopes
  <2>8. req[r].held \subseteq held /\ held \cap Locked(r) = {}
    BY <1>3, HeldIsMine
  <2> HIDE DEF late, held, base
  <2>9. \A u \in held :
           /\ u \in Users
           /\ rows[u] = IF Counts(r, u) THEN Counted(base[u], req[r].draft) ELSE base[u]
    BY <2>5
  <2>10. req[r].draft \in Message
    BY <2>1, RequestTyped
  <2>11. \A u \in held : Counted(base[u], req[r].draft) \in Row
                         /\ Counted(base[u], req[r].draft) # NoRow
                         /\ Counted(base[u], req[r].draft).count = base[u].count + 1
                         /\ Counted(base[u], req[r].draft).due <= base[u].due
                         /\ Counted(base[u], req[r].draft).due <= req[r].draft.expired
    <3> SUFFICES ASSUME NEW u \in held
                 PROVE  Counted(base[u], req[r].draft) \in Row
                         /\ Counted(base[u], req[r].draft) # NoRow
                         /\ Counted(base[u], req[r].draft).count = base[u].count + 1
                         /\ Counted(base[u], req[r].draft).due <= base[u].due
                         /\ Counted(base[u], req[r].draft).due <= req[r].draft.expired
      OBVIOUS
    <3>1. base[u].count \in Nat /\ Cardinality(Messages) \in Nat
      BY <2>6, MsgConfig, FS_CardinalityType DEF Row
    <3>2. base[u].count < Cardinality(Messages)
      BY <2>4, <2>6, <3>1
    <3> QED  BY <2>6, <2>10, <3>2, CountedTyped
  <2>12. rows \in Rows
    <3>1. \A u \in held : rows[u] \in Row
      BY <2>6, <2>9, <2>11
    <3> QED  BY <3>1 DEF Rows
  <2>13. \A u \in held : rows[u] # NoRow /\ rows[u].count <= Cardinality(Used \cup {m})
    <3> SUFFICES ASSUME NEW u \in held
                 PROVE  rows[u] # NoRow /\ rows[u].count <= Cardinality(Used \cup {m})
      OBVIOUS
    <3>1. base[u].count \in Nat
      BY <2>6 DEF Row
    <3> QED  BY <2>4, <2>6, <2>9, <2>11, <3>1
  <2> HIDE DEF rows
  <2> DEFINE new == [req[r] EXCEPT !.pc = "committing", !.held = held, !.rows = rows]
  <2>14. Becomes(r, "committing", held, rows, req[r].changed, req[r].draft)
    <3>1. req \in [Requests -> Request]
      BY <2>1, RequestTyped
    <3>2. req' = [req EXCEPT ![r] = new]
      BY <1>3, <3>1
    <3>3. /\ new \in Request
          /\ new.pc = "committing" /\ new.held = held /\ new.rows = rows
          /\ new.changed = req[r].changed /\ new.draft = req[r].draft
          /\ new.op = req[r].op /\ new.users = req[r].users /\ new.msgs = req[r].msgs
      BY <2>5, <2>12, <3>1 DEF Request, Steps, Rows
    <3> HIDE DEF new
    <3> QED  BY <2>1, <3>2, <3>3, BecomesIt
  <2>15. /\ req'[r].pc = "committing" /\ req'[r].held = held
         /\ req'[r].rows = rows /\ req'[r].changed = req[r].changed
         /\ req'[r].draft = req[r].draft /\ req'[r].op = req[r].op
         /\ req'[r].users = req[r].users /\ req'[r].msgs = req[r].msgs
         /\ req' \in [Requests -> Request] /\ OthersStay(r)
    BY <2>14 DEF Becomes
  <2>16. /\ Used' = Used /\ Stored' = Stored /\ Present' = Present
         /\ now' = now /\ user' = user /\ now \in Nat
    BY <1>1, <2>1, TablesStay DEF DataStays, TypeOK
  <2>17. PastLock(r)' /\ Exclusive(r)' = Exclusive(r)
    BY <2>15 DEF PastLock, Exclusive
  <2>18. StageOK(r)'
    BY <2>2, <2>3, <2>5, <2>13, <2>15, <2>16, <2>17 DEF StageOK
  <2>19. ChangesOK(r)'
    BY <2>1, <2>2, <2>15, <2>16 DEF LocalOK, ChangesOK, Edits
  <2>20. LocksOK(r)'
    <3>1. KnownTargets /\ req[r].draft.scope = "targeted" => req[r].users \subseteq held
      BY <1>3, <2>1, <2>2, <2>8 DEF LocalOK, LocksOK
    <3> QED  BY <2>1, <2>2, <2>8, <2>15, <2>16, <2>17, <3>1 DEF LocalOK, LocksOK, Edits
  <2>21. ASSUME KnownTargets PROVE RowsOK(r)' /\ AnswerOK(r)'
    <3>1. ASSUME NEW u \in held, now < rows[u].due PROVE rows[u] = Recomputed(r, u)
      <4>1. u \in req[r].held /\ base[u] = req[r].rows[u]
        BY <2>7, <2>21, <3>1
      <4>2. /\ base[u].due \in Nat /\ Counted(base[u], req[r].draft).due \in Nat
            /\ req[r].draft.expired \in Nat
        BY <2>6, <2>10, <2>11, Clock DEF Row, Message
      <4>3. now < base[u].due
        BY <2>9, <2>11, <2>16, <3>1, <4>2
      <4>4. RowsOK(r)
        BY <2>21, InvParts
      <4>5. base[u] = Truth(u)
        BY <2>1, <4>1, <4>3, <4>4 DEF RowsOK
      <4>6. CASE Counts(r, u)
        <5>1. now < req[r].draft.expired
          BY <2>9, <2>11, <2>16, <3>1, <4>2, <4>6
        <5> QED  BY <2>1, <2>2, <2>3, <2>9, <4>1, <4>5, <4>6, <5>1, SendSees
      <4>7. CASE ~Counts(r, u)
        <5>1. Recomputed(r, u) = Truth(u)
          BY <2>1, <2>2, <2>3, <4>1, <4>7, SendSees
        <5> QED  BY <2>9, <4>5, <4>7, <5>1
      <4> QED  BY <4>6, <4>7
    <3>2. \A u : Recomputed(r, u)' = Recomputed(r, u)
      BY <1>1, <2>15, SeesTheSame
    <3> QED  BY <2>15, <2>16, <3>1, <3>2 DEF RowsOK, AnswerOK
  <2>22. \A q \in Requests \ {r} : Apart(q, r)' /\ Apart(r, q)'
    <3>1. Inside(r)
      BY <2>1 DEF Inside
    <3> QED  BY <2>8, <2>15, <3>1, StaysApart
  <2>23. LocalOK(r)'
    BY <2>18, <2>19, <2>20 DEF LocalOK
  <2> QED  BY <1>1, <2>15, <2>21, <2>22, <2>23, OneMoves
<1> QED  BY <1>2, <1>3 DEF Deliver
-----------------------------------------------------------------------------
(* Time and accounts.                                                       *)

\* Requests stand still while the world changes: what they answer was still true.
LEMMA AnswersKeep ==
  ASSUME Inv, DataTyped', Watch, NEW q \in Requests, req'[q] = req[q], AnswerOK(q)
  PROVE  AnswerOK(q)'
<1>1. TypeOK /\ StageOK(q)
  BY InvParts DEF LocalOK
<1>2. req'[q].op = "status" => truths[q] \subseteq truths'[q]
  BY <1>1, Watching
<1> QED  BY <1>1, <1>2 DEF AnswerOK, StageOK

\* The clock turns, and no row changes before its deadline.
LEMMA TickKeeps ==
  ASSUME Inv, Watch, Tick
  PROVE  Inv'
<1> USE InvParts
<1>1. /\ now' = now + 1 /\ now' \in 1 .. MaxTime /\ now \in Times /\ now' \in Times
      /\ user' = user /\ msg' = msg /\ receipt' = receipt /\ row' = row /\ req' = req
  BY Clock DEF Tick, TypeOK, Times
<1>2. DataTyped'
  BY <1>1 DEF DataTyped, TypeOK
<1>3. TypeOK'
  BY <1>2, Watching
<1>4. Used' = Used /\ Stored' = Stored /\ Present' = Present
  BY <1>1 DEF Used, Stored, Present
<1>5. TablesOK'
  BY <1>1, <1>4 DEF TablesOK
<1>6. \A q, r \in Requests : q # r => Apart(q, r)'
  BY <1>1 DEF Apart, Inside, Exclusive
<1>7. \A r \in Requests : LocalOK(r)'
  <2> SUFFICES ASSUME NEW r \in Requests PROVE LocalOK(r)'
    OBVIOUS
  <2>1. StageOK(r) /\ ChangesOK(r) /\ LocksOK(r)
    BY DEF LocalOK
  <2>2. StageOK(r)' /\ LocksOK(r)'
    BY <1>1, <1>4, <2>1 DEF StageOK, LocksOK, PastLock, Exclusive
  <2>3. ChangesOK(r)'
    <3>1. req[r].draft.published \in Nat /\ now \in Nat
      BY <1>1, RequestTyped, Clock DEF Message
    <3>2. req[r].draft.published <= now => req[r].draft.published <= now'
      BY <1>1, <3>1
    <3> QED  BY <1>1, <1>4, <2>1, <3>2 DEF ChangesOK
  <2> QED  BY <2>2, <2>3 DEF LocalOK
<1>8. \A u \in Users : now' < Truth(u).due => now < Truth(u).due /\ Truth(u)' = Truth(u)
  <2> SUFFICES ASSUME NEW u \in Users, now' < Truth(u).due
               PROVE  now < Truth(u).due /\ Truth(u)' = Truth(u)
    OBVIOUS
  <2>1. msg \in Tables /\ \A m \in Messages :
           msg[m].scope \in Scopes => msg[m].published < msg[m].expired
    BY DEF TypeOK, Tables, TablesOK
  <2>2. Truth(u).due \in Nat
    BY TruthTyped, Clock DEF Row
  <2>3. now <= now' /\ now < Truth(u).due
    BY <1>1, <2>2, Clock
  <2>4. Aggregate(msg, receipt[u], user[u].created, now')
           = Aggregate(msg, receipt[u], user[u].created, now)
    BY <1>1, <2>1, <2>3, TimePasses DEF Truth
  <2> QED  BY <1>1, <2>3, <2>4 DEF Truth
<1>9. KnownTargets => StatusIsAccurate'
  <2> SUFFICES ASSUME KnownTargets, NEW u \in Stored, now' < row[u].due
               PROVE  row[u] = Truth(u)'
    BY <1>1, <1>4 DEF StatusIsAccurate
  <2>1. u \in Users /\ row[u] \in Row
    BY DEF Stored, TypeOK
  <2>2. now < row[u].due
    BY <1>1, <2>1, Clock DEF Row
  <2>3. row[u] = Truth(u)
    BY <2>2 DEF StatusIsAccurate
  <2> QED  BY <1>8, <2>1, <2>3
<1>10. \A r \in Requests : KnownTargets => RowsOK(r)'
  <2> SUFFICES ASSUME NEW r \in Requests, KnownTargets, NEW u \in req[r].held,
                      now' < req[r].rows[u].due
               PROVE  /\ req[r].pc \in {"refreshing", "rereading", "publishing", "delivering"} =>
                            req[r].rows[u] = Truth(u)'
                      /\ req[r].pc = "committing" => req[r].rows[u] = Recomputed(r, u)'
    BY <1>1 DEF RowsOK
  <2>1. u \in Users /\ req[r].rows[u] \in Row
    <3>1. req[r].rows[u] # NoRow
      BY DEF LocalOK, StageOK
    <3> QED  BY <3>1, RequestTyped DEF Rows
  <2>2. now < req[r].rows[u].due
    BY <1>1, <2>1, Clock DEF Row
  <2>3. RowsOK(r)
    OBVIOUS
  <2>4. ASSUME req[r].pc \in {"refreshing", "rereading", "publishing", "delivering"}
        PROVE  req[r].rows[u] = Truth(u)'
    <3>1. req[r].rows[u] = Truth(u)
      BY <2>2, <2>3, <2>4 DEF RowsOK
    <3> QED  BY <1>8, <2>1, <3>1
  <2>5. ASSUME req[r].pc = "committing" PROVE req[r].rows[u] = Recomputed(r, u)'
    <3>1. req[r].rows[u] = Recomputed(r, u)
      BY <2>2, <2>3, <2>5 DEF RowsOK
    <3>2. MsgSeen(r)' = MsgSeen(r) /\ ReceiptSeen(r, u)' = ReceiptSeen(r, u)
      BY <1>1 DEF MsgSeen, ReceiptSeen
    <3>3. MsgSeen(r) \in Tables /\ \A m \in Messages :
             MsgSeen(r)[m].scope \in Scopes => MsgSeen(r)[m].published < MsgSeen(r)[m].expired
      BY SeenTyped, SeenSent
    <3>4. now <= now'
      BY <1>1, Clock
    <3>5. now' < Aggregate(MsgSeen(r), ReceiptSeen(r, u), user[u].created, now).due
      BY <3>1 DEF Recomputed
    <3>6. Aggregate(MsgSeen(r), ReceiptSeen(r, u), user[u].created, now')
             = Aggregate(MsgSeen(r), ReceiptSeen(r, u), user[u].created, now)
      BY <1>1, <3>3, <3>4, <3>5, TimePasses
    <3> QED  BY <1>1, <3>1, <3>2, <3>6 DEF Recomputed
  <2> QED  BY <2>4, <2>5
<1>11. \A r \in Requests : KnownTargets => AnswerOK(r)'
  BY <1>1, <1>2, AnswersKeep
<1> QED  BY <1>3, <1>5, <1>6, <1>7, <1>9, <1>10, <1>11, Together

\* A change of one account that no request has locked.
LEMMA AccountChanges ==
  ASSUME Inv, Watch, NEW v \in Users,
         now' = now, msg' = msg, req' = req, DataTyped',
         \A r \in Requests : v \notin req[r].held,
         \A u \in Users \ {v} :
            user'[u] = user[u] /\ receipt'[u] = receipt[u] /\ row'[u] = row[u],
         row'[v] # NoRow => v \in Stored /\ v \in Present' /\ user'[v] = user[v]
                            /\ receipt'[v] = receipt[v] /\ row'[v] = row[v],
         user[v].state \in {"present", "deleted"} => user'[v].state \in {"present", "deleted"},
         v \in Present' => v \in Present \/ user[v].state = "inserted",
         \A m \in Messages : receipt'[v][m] = receipt[v][m] \/ receipt'[v][m] = "none"
  PROVE  Inv'
<1> USE InvParts
<1>1. TypeOK'
  BY Watching
<1>2. Used' = Used /\ Stored' \subseteq Stored /\ Stored \ {v} \subseteq Stored'
      /\ Present \ {v} \subseteq Present' /\ Present' \ {v} \subseteq Present
  BY DEF Used, Stored, Present
<1>3. \A u \in Users \ {v} : Truth(u)' = Truth(u)
  BY DEF Truth
<1>4. TablesOK'
  <2>1. Stored' \subseteq Present'
    BY <1>2 DEF TablesOK, Stored
  <2>2. \A u \in Users, m \in Messages \ Used : receipt'[u][m] = "none"
    BY DEF TablesOK
  <2>3. \A u \in Stored' : row'[u] = row[u]
    BY DEF Stored
  <2> QED  BY <1>2, <2>1, <2>2, <2>3 DEF TablesOK
<1>5. \A q, r \in Requests : q # r => Apart(q, r)'
  BY DEF Apart, Inside, Exclusive
<1>6. \A r \in Requests : LocalOK(r)'
  <2> SUFFICES ASSUME NEW r \in Requests PROVE LocalOK(r)'
    OBVIOUS
  <2>1. StageOK(r) /\ ChangesOK(r) /\ LocksOK(r)
    BY DEF LocalOK
  <2>2. req[r].held \subseteq Users \ {v} /\ req[r].users \subseteq Users
    BY RequestTyped
  <2>3. StageOK(r)'
    BY <1>2, <2>1, <2>2 DEF StageOK, PastLock
  <2>4. ChangesOK(r)'
    BY <1>2, <2>1 DEF ChangesOK
  <2>5. LocksOK(r)'
    <3>1. PastLock(r)' = PastLock(r) /\ Exclusive(r)' = Exclusive(r)
      BY DEF PastLock, Exclusive
    <3>2. ASSUME KnownTargets, req[r].draft.scope = "targeted"
          PROVE  /\ \A u \in req[r].users : user'[u].state \in {"present", "deleted"}
                 /\ req[r].users \cap Present' \subseteq req[r].users \cap Present
      <4>1. \A u \in req[r].users : user[u].state \in {"present", "deleted"}
        BY <2>1, <3>2 DEF LocksOK
      <4>2. \A u \in req[r].users : user'[u].state \in {"present", "deleted"}
        BY <2>2, <4>1
      <4>3. v \in req[r].users /\ v \in Present' => v \in Present
        BY <4>1 DEF Present
      <4> QED  BY <1>2, <4>2, <4>3
    <3>3. KnownTargets /\ req[r].draft.scope = "targeted" =>
             /\ PastLock(r) => req[r].users \cap Present \subseteq req[r].held
             /\ req[r].pc = "committing" => req[r].users \subseteq req[r].held
      BY <2>1 DEF LocksOK
    <3> QED  BY <1>2, <2>1, <3>1, <3>2, <3>3 DEF LocksOK
  <2> QED  BY <2>3, <2>4, <2>5 DEF LocalOK
<1>7. KnownTargets => StatusIsAccurate'
  <2> SUFFICES ASSUME KnownTargets, NEW u \in Stored', now < row'[u].due
               PROVE  row'[u] = Truth(u)'
    BY DEF StatusIsAccurate
  <2>1. u \in Users /\ u \in Stored /\ row'[u] = row[u]
    BY <1>2 DEF Stored
  <2>2. row[u] = Truth(u)
    BY <2>1 DEF StatusIsAccurate
  <2>3. Truth(u)' = Truth(u)
    <3>1. CASE u = v
      <4>1. user'[v] = user[v] /\ receipt'[v] = receipt[v]
        BY <3>1 DEF Stored
      <4> QED  BY <3>1, <4>1 DEF Truth
    <3> QED  BY <1>3, <2>1, <3>1
  <2> QED  BY <2>1, <2>2, <2>3
<1>8. \A r \in Requests : KnownTargets => RowsOK(r)'
  <2> SUFFICES ASSUME NEW r \in Requests, KnownTargets PROVE RowsOK(r)'
    OBVIOUS
  <2>1. req[r].held \subseteq Users \ {v}
    BY RequestTyped
  <2>2. \A u \in Users \ {v} : Recomputed(r, u)' = Recomputed(r, u)
    <3>1. MsgSeen(r)' = MsgSeen(r)
      BY DEF MsgSeen
    <3>2. \A u \in Users \ {v} : ReceiptSeen(r, u)' = ReceiptSeen(r, u)
      BY DEF ReceiptSeen
    <3> QED  BY <3>1, <3>2 DEF Recomputed
  <2> QED  BY <1>3, <2>1, <2>2 DEF RowsOK
<1>9. \A r \in Requests : KnownTargets => AnswerOK(r)'
  BY AnswersKeep
<1> QED  BY <1>1, <1>4, <1>5, <1>6, <1>7, <1>8, <1>9, Together

\* A user who registers has no row, no receipt and no old broadcasts.
LEMMA RegisterUserKeeps ==
  ASSUME Inv, Watch, NEW v \in Users, RegisterUser(v)
  PROVE  Inv'
<1>1. TypeOK /\ TablesOK
  BY InvParts
<1>2. v \notin Present /\ v \notin Stored /\ \A r \in Requests : v \notin req[r].held
  <2>1. v \notin Present
    BY DEF RegisterUser, Present
  <2> QED  BY <1>1, <2>1, InvParts DEF TablesOK, LocalOK, StageOK
<1>3. /\ now' = now /\ msg' = msg /\ req' = req /\ receipt' = receipt /\ row' = row
      /\ user' \in [Users -> Account]
      /\ \A u \in Users \ {v} : user'[u] = user[u]
      /\ user[v].state \in {"unknown", "inserted"}
      /\ user'[v].state = "present" => user[v].state = "inserted"
  <2>1. user \in [Users -> Account] /\ user[v] \in Account /\ now \in 0 .. MaxTime
    BY <1>1 DEF TypeOK
  <2>2. PICK a \in Account : /\ user' = [user EXCEPT ![v] = a]
                             /\ user[v].state \in {"unknown", "inserted"}
                             /\ a.state = "present" => user[v].state = "inserted"
    <3>1. CASE user' = [user EXCEPT ![v] = [state |-> "inserted", created |-> now]]
               /\ user[v].state = "unknown"
      <4>1. [state |-> "inserted", created |-> now] \in Account
        BY <2>1 DEF Account
      <4> QED  BY <3>1, <4>1
    <3>2. CASE user' = [user EXCEPT ![v].state = "present"] /\ user[v].state = "inserted"
      <4>1. [user[v] EXCEPT !.state = "present"] \in Account
        BY <2>1 DEF Account
      <4>2. user' = [user EXCEPT ![v] = [user[v] EXCEPT !.state = "present"]]
        BY <2>1, <3>2
      <4> QED  BY <3>2, <4>1, <4>2
    <3> QED  BY <3>1, <3>2 DEF RegisterUser
  <2>3. UNCHANGED <<now, msg, receipt, row, req>>
    BY DEF RegisterUser
  <2> QED  BY <2>1, <2>2, <2>3
<1>4. DataTyped'
  BY <1>1, <1>3 DEF DataTyped, TypeOK
<1>5. row'[v] = NoRow
  BY <1>2, <1>3 DEF Stored
<1>6. v \in Present' => user[v].state = "inserted"
  BY <1>3 DEF Present
<1> QED  BY <1>2, <1>3, <1>4, <1>5, <1>6, AccountChanges

\* A user whose row is locked cannot be deleted; others take row and receipts along.
LEMMA DeleteUserKeeps ==
  ASSUME Inv, Watch, NEW v \in Users, DeleteUser(v)
  PROVE  Inv'
<1>1. TypeOK
  BY InvParts
<1>2. /\ now' = now /\ msg' = msg /\ req' = req
      /\ \A r \in Requests : v \notin req[r].held
      /\ row'[v] = NoRow
      /\ \A m \in Messages : receipt'[v][m] = "none"
      /\ user'[v].state = "deleted"
      /\ \A u \in Users \ {v} :
            user'[u] = user[u] /\ receipt'[u] = receipt[u] /\ row'[u] = row[u]
  BY <1>1 DEF DeleteUser, TypeOK
<1>3. /\ user' \in [Users -> Account]
      /\ receipt' \in [Users -> [Messages -> Receipt]]
      /\ row' \in [Users -> Row \cup {NoRow}]
  <2>1. [m \in Messages |-> "none"] \in [Messages -> Receipt]
    BY DEF Receipt
  <2> QED  BY <1>1, <2>1 DEF DeleteUser, TypeOK, Account
<1>4. DataTyped'
  BY <1>1, <1>2, <1>3 DEF DataTyped, TypeOK
<1>5. v \notin Present'
  BY <1>2 DEF Present
<1> QED  BY <1>2, <1>4, <1>5, AccountChanges
-----------------------------------------------------------------------------
(* Commit.                                                                  *)

\* What is new in the tables is what the request has changed.
LEMMA CommitWrites ==
  ASSUME Inv, NEW r \in Requests, Commit(r)
  PROVE  /\ DataTyped' /\ OthersStay(r) /\ req'[r] = Idle
         /\ now' = now /\ user' = user /\ msg' = MsgSeen(r)
         /\ \A u \in Users : receipt'[u] = ReceiptSeen(r, u)
         /\ \A u \in Users : row'[u] = IF u \in req[r].held THEN req[r].rows[u] ELSE row[u]
         /\ Used' = Used \cup req[r].changed
         /\ \A u \in Users : Truth(u)' = Recomputed(r, u)
         /\ Stored' = Stored \cup req[r].held
<1>1. TypeOK /\ LocalOK(r) /\ req[r].pc = "committing"
  BY InvParts DEF Commit
<1>2. /\ now' = now /\ user' = user /\ msg' = MsgSeen(r)
      /\ \A u \in Users : receipt'[u] = ReceiptSeen(r, u)
      /\ \A u \in Users : row'[u] = IF u \in req[r].held THEN req[r].rows[u] ELSE row[u]
  BY DEF Commit
<1>3. req' \in [Requests -> Request] /\ OthersStay(r) /\ req'[r] = Idle
  BY <1>1, IdleTyped, RequestTyped DEF Commit, Leave, OthersStay
<1>4. receipt' \in [Users -> [Messages -> Receipt]]
  <2>1. \A u \in Users : ReceiptSeen(r, u) \in [Messages -> Receipt]
    BY <1>1, SeenTyped DEF Receipts
  <2> QED  BY <2>1 DEF Commit
<1>5. row' \in [Users -> Row \cup {NoRow}]
  <2>1. \A u \in Users : req[r].rows[u] \in Row \cup {NoRow} /\ row[u] \in Row \cup {NoRow}
    BY <1>1, RequestTyped DEF Rows, TypeOK
  <2> QED  BY <2>1 DEF Commit
<1>6. DataTyped'
  BY <1>1, <1>2, <1>3, <1>4, <1>5, SeenTyped DEF DataTyped, TypeOK, Tables
<1>7. Used' = Used \cup req[r].changed
  <2>1. req[r].changed \subseteq Messages
    BY <1>1, RequestTyped
  <2>2. \A m \in Messages \ req[r].changed : msg'[m] = msg[m]
    BY <1>2 DEF MsgSeen
  <2>3. \A m \in req[r].changed : msg'[m].scope # "unused"
    <3> SUFFICES ASSUME NEW m \in req[r].changed PROVE MsgSeen(r)[m].scope # "unused"
      BY <1>2
    <3>1. CASE req[r].op = "send"
      <4>1. MsgSeen(r)[m] = req[r].draft
        BY <2>1, <3>1 DEF MsgSeen
      <4> QED  BY <1>1, <3>1, <4>1 DEF LocalOK, ChangesOK, Scopes
    <3>2. CASE req[r].op = "unsend"
      <4>1. MsgSeen(r)[m] = NoMessage("removed")
        BY <2>1, <3>2 DEF MsgSeen
      <4> QED  BY <4>1, NoMessageTyped
    <3>3. CASE req[r].op \notin {"send", "unsend"}
      <4>1. MsgSeen(r)[m] = msg[m]
        BY <2>1, <3>3 DEF MsgSeen
      <4>2. req[r].op \in Edits
        BY <1>1, <3>3 DEF LocalOK, ChangesOK
      <4> QED  BY <1>1, <4>1, <4>2 DEF LocalOK, ChangesOK, Scopes
    <3> QED  BY <3>1, <3>2, <3>3
  <2> QED  BY <2>1, <2>2, <2>3 DEF Used
<1>8. \A u \in Users : Truth(u)' = Recomputed(r, u)
  BY <1>2 DEF Truth, Recomputed
<1>9. Stored' = Stored \cup req[r].held
  <2>1. \A u \in req[r].held : u \in Users /\ req[r].rows[u] # NoRow
    BY <1>1, RequestTyped DEF LocalOK, StageOK
  <2> QED  BY <1>2, <2>1 DEF Stored
<1> QED  BY <1>2, <1>3, <1>6, <1>7, <1>8, <1>9

\* To anybody whose row is not locked a commit says nothing: it is not about him,
\* or, with the gate held alone, he has no row.
LEMMA CommitSpares ==
  ASSUME Inv, KnownTargets, NEW r \in Requests, Commit(r), ~Exclusive(r),
         NEW u \in Users \ req[r].held
  PROVE  /\ receipt'[u] = receipt[u]
         /\ \A m \in Messages :
               \/ msg'[m] = msg[m]
               \/ /\ m \in req[r].changed
                  /\ msg[m].scope = "unused" /\ msg'[m].scope = "targeted"
                  /\ receipt[u][m] = "none"
<1>1. TypeOK /\ TablesOK /\ LocalOK(r) /\ req[r].pc = "committing"
  BY InvParts DEF Commit
<1>2. /\ msg' = MsgSeen(r) /\ receipt'[u] = ReceiptSeen(r, u)
      /\ receipt[u] \in [Messages -> Receipt] /\ msg \in [Messages -> Message]
  BY <1>1, CommitWrites DEF TypeOK
<1>3. req[r].op \in Operations /\ req[r].op # "unsend" /\ req[r].draft.scope # "all"
  BY <1>1, RequestTyped DEF Exclusive
<1>4. CASE req[r].op \notin Edits \cup {"send"}
  <2>1. req[r].changed = {}
    BY <1>1, <1>4 DEF LocalOK, ChangesOK
  <2> QED  BY <1>1, <1>2, <2>1, SeesCommitted
<1>5. CASE req[r].op = "send"
  <2>1. req[r].draft.scope = "targeted" /\ u \notin req[r].users
    BY <1>1, <1>3, <1>5 DEF LocalOK, ChangesOK, LocksOK, Scopes
  <2>2. receipt'[u] = receipt[u]
    BY <1>2, <2>1 DEF ReceiptSeen
  <2>3. \A m \in Messages : m \notin req[r].changed => msg'[m] = msg[m]
    BY <1>2 DEF MsgSeen
  <2>4. \A m \in req[r].changed : m \in Messages \ Used /\ msg'[m] = req[r].draft
    BY <1>1, <1>2, <1>5 DEF LocalOK, ChangesOK, MsgSeen
  <2>5. \A m \in req[r].changed : msg[m].scope = "unused" /\ receipt[u][m] = "none"
    BY <1>1, <2>4 DEF Used, TablesOK
  <2> QED  BY <2>1, <2>2, <2>3, <2>4, <2>5
<1>6. CASE req[r].op \in Edits
  <2>1. u \notin req[r].users
    BY <1>1, <1>3, <1>6 DEF LocalOK, LocksOK
  <2>2. receipt'[u] = receipt[u]
    BY <1>2, <2>1 DEF ReceiptSeen
  <2>3. msg' = msg
    BY <1>2, <1>3, <1>6 DEF MsgSeen, Edits
  <2> QED  BY <2>2, <2>3
<1> QED  BY <1>4, <1>5, <1>6

\* To known targets, a commit changes the truth only about users it has locked.
LEMMA CommitKeepsTruth ==
  ASSUME Inv, KnownTargets, NEW r \in Requests, Commit(r), ~Exclusive(r),
         NEW u \in Users \ req[r].held
  PROVE  Truth(u)' = Truth(u)
<1>1. receipt'[u] = receipt[u] /\ user' = user /\ now' = now
  BY CommitSpares, CommitWrites
<1>2. \A m \in Messages :
         \/ msg'[m] = msg[m]
         \/ ~Addressed(msg, receipt[u], user[u].created, m)
            /\ ~Addressed(msg', receipt[u], user[u].created, m)
  BY CommitSpares DEF Addressed
<1>3. \A m \in Messages :
         Addressed(msg, receipt[u], user[u].created, m)
            <=> Addressed(msg', receipt[u], user[u].created, m)
  BY <1>2 DEF Addressed
<1>4. Aggregate(msg, receipt[u], user[u].created, now)
         = Aggregate(msg', receipt[u], user[u].created, now)
  BY <1>2, <1>3, SameInbox
<1> QED  BY <1>1, <1>4 DEF Truth

\* Nor does it change what another transaction sees.
LEMMA CommitKeepsSeen ==
  ASSUME Inv, KnownTargets, NEW r \in Requests, Commit(r), ~Exclusive(r),
         NEW q \in Requests \ {r}, ~Exclusive(q),
         NEW u \in Users \ req[r].held
  PROVE  Recomputed(q, u)' = Recomputed(q, u)
<1>1. /\ receipt'[u] = receipt[u] /\ user' = user /\ now' = now /\ req'[q] = req[q]
      /\ LocalOK(q) /\ req[q].op # "unsend"
  BY CommitSpares, CommitWrites, InvParts DEF OthersStay, Exclusive
<1> DEFINE c == user[u].created
           M == MsgSeen(q)
           N == MsgSeen(q)'
           R == ReceiptSeen(q, u)
<1>2. ReceiptSeen(q, u)' = R
  BY <1>1 DEF ReceiptSeen
<1>3. \A m \in Messages : m \notin req[q].changed =>
         M[m] = msg[m] /\ N[m] = msg'[m] /\ R[m] = receipt[u][m]
  BY <1>1 DEF MsgSeen, ReceiptSeen
<1>4. \A m \in Messages : m \in req[q].changed => M[m] = N[m]
  <2>1. CASE req[q].op = "send"
    BY <1>1, <2>1 DEF MsgSeen
  <2>2. CASE req[q].op \in Edits
    <3>1. \A m \in req[q].changed : msg[m].scope \in Scopes
      BY <1>1, <2>2 DEF LocalOK, ChangesOK
    <3>2. \A m \in Messages : m \in req[q].changed => msg'[m] = msg[m]
      BY <3>1, CommitSpares DEF Scopes
    <3> QED  BY <1>1, <2>2, <3>2 DEF MsgSeen, Edits
  <2>3. CASE req[q].op \notin Edits \cup {"send"}
    BY <1>1, <2>3 DEF LocalOK, ChangesOK
  <2> QED  BY <2>1, <2>2, <2>3
<1> HIDE DEF M, N, R
<1>5. \A m \in Messages :
         M[m] = N[m] \/ (~Addressed(M, R, c, m) /\ ~Addressed(N, R, c, m))
  BY <1>3, <1>4, CommitSpares DEF Addressed
<1>6. \A m \in Messages : Addressed(M, R, c, m) <=> Addressed(N, R, c, m)
  BY <1>5 DEF Addressed
<1>7. Aggregate(M, R, c, now) = Aggregate(N, R, c, now)
  BY <1>5, <1>6, SameInbox
<1> QED  BY <1>1, <1>2, <1>7 DEF Recomputed, M, N, R

\* What is committed is the rows and the changes they are accurate for.
LEMMA CommitKeeps ==
  ASSUME Inv, Watch, NEW r \in Requests, Commit(r)
  PROVE  Inv'
<1> USE InvParts
<1>1. TypeOK /\ TablesOK /\ LocalOK(r) /\ req[r].pc = "committing" /\ Inside(r) /\ PastLock(r)
  BY DEF Commit, Inside, PastLock
<1>2. /\ DataTyped' /\ OthersStay(r) /\ req'[r] = Idle
      /\ now' = now /\ user' = user /\ msg' = MsgSeen(r)
      /\ \A u \in Users : receipt'[u] = ReceiptSeen(r, u)
      /\ \A u \in Users : row'[u] = IF u \in req[r].held THEN req[r].rows[u] ELSE row[u]
      /\ Used' = Used \cup req[r].changed
      /\ \A u \in Users : Truth(u)' = Recomputed(r, u)
      /\ Stored' = Stored \cup req[r].held
  BY CommitWrites
<1>3. Present' = Present
  BY <1>2 DEF Present
<1>4. TypeOK'
  BY <1>1, <1>2, Watching
<1>5. /\ Used' \in SUBSET Messages /\ Used \subseteq Used' /\ IsFiniteSet(Used')
      /\ Cardinality(Used) <= Cardinality(Used')
      /\ Cardinality(Used) \in Nat /\ Cardinality(Used') \in Nat
  <2>1. Used' \in SUBSET Messages /\ Used \subseteq Used'
    BY <1>1, <1>2, RequestTyped DEF Used
  <2>2. IsFiniteSet(Used')
    BY <2>1, MsgConfig, FS_Subset
  <2> QED  BY <2>1, <2>2, FS_Subset, FS_CardinalityType
<1>6. TablesOK'
  <2>1. Stored' \subseteq Present'
    BY <1>1, <1>2, <1>3 DEF TablesOK, LocalOK, StageOK
  <2>2. \A m \in Messages : msg'[m].scope \in Scopes => msg'[m].published < msg'[m].expired
    BY <1>2, SeenSent
  <2>3. \A u \in Users, m \in Messages \ Used' : receipt'[u][m] = "none"
    <3>1. \A u \in Users, m \in Messages \ req[r].changed : receipt'[u][m] = receipt[u][m]
      BY <1>2 DEF ReceiptSeen
    <3> QED  BY <1>1, <1>2, <3>1 DEF TablesOK
  <2>4. \A u \in Stored' : row'[u].count <= Cardinality(Used')
    <3> SUFFICES ASSUME NEW u \in Stored' PROVE row'[u].count <= Cardinality(Used')
      OBVIOUS
    <3>1. u \in Users
      BY DEF Stored
    <3>2. CASE u \in req[r].held
      BY <1>1, <1>2, <3>1, <3>2 DEF LocalOK, StageOK
    <3>3. CASE u \notin req[r].held
      <4>1. row'[u] = row[u] /\ u \in Stored /\ row[u].count \in Nat
        BY <1>1, <1>2, <3>1, <3>3 DEF Stored, TypeOK, Row
      <4>2. row[u].count <= Cardinality(Used)
        BY <1>1, <4>1 DEF TablesOK
      <4> QED  BY <1>5, <4>1, <4>2
    <3> QED  BY <3>2, <3>3
  <2> QED  BY <2>1, <2>2, <2>3, <2>4 DEF TablesOK
<1>7. /\ Idle.pc = "idle" /\ Idle.op = "none" /\ Idle.held = {} /\ Idle.changed = {}
      /\ Idle.draft.scope = "unused"
  BY NoMessageTyped DEF Idle
<1>8. \A q, s \in Requests : q # s => Apart(q, s)'
  <2> SUFFICES ASSUME NEW q \in Requests, NEW s \in Requests, q # s PROVE Apart(q, s)'
    OBVIOUS
  <2>1. CASE q # r /\ s # r
    <3>1. req'[q] = req[q] /\ req'[s] = req[s] /\ Apart(q, s)
      BY <1>2, <2>1 DEF OthersStay
    <3> QED  BY <3>1 DEF Apart, Inside, Exclusive
  <2>2. CASE q = r \/ s = r
    BY <1>2, <1>7, <2>2 DEF Apart, Inside
  <2> QED  BY <2>1, <2>2
<1>9. LocalOK(r)' /\ RowsOK(r)' /\ AnswerOK(r)'
  BY <1>2, <1>7 DEF LocalOK, StageOK, ChangesOK, LocksOK, PastLock, Exclusive, Edits,
                    RowsOK, AnswerOK
<1>10. ASSUME NEW q \in Requests \ {r}
       PROVE  /\ req'[q] = req[q] /\ LocalOK(q) /\ Apart(q, r) /\ Apart(r, q)
              /\ PastLock(q) => ~Exclusive(q) /\ ~Exclusive(r)
              /\ PastLock(q)' = PastLock(q) /\ Exclusive(q)' = Exclusive(q)
  BY <1>1, <1>2 DEF OthersStay, Apart, Inside, PastLock, Exclusive
<1>11. ASSUME NEW q \in Requests \ {r} PROVE LocalOK(q)'
  <2>1. StageOK(q) /\ ChangesOK(q) /\ LocksOK(q)
    BY <1>10 DEF LocalOK
  <2>2. StageOK(q)'
    <3>1. \A u \in req[q].held : req[q].rows[u].count <=
             Cardinality(IF req[q].pc = "committing" THEN Used' \cup req[q].changed ELSE Used')
      <4> SUFFICES ASSUME NEW u \in req[q].held
                   PROVE  req[q].rows[u].count <=
             Cardinality(IF req[q].pc = "committing" THEN Used' \cup req[q].changed ELSE Used')
        OBVIOUS
      <4>1. req[q].rows[u].count \in Nat
        <5>1. u \in Users /\ req[q].rows[u] # NoRow
          BY <1>1, <2>1, RequestTyped DEF StageOK
        <5> QED  BY <1>1, <5>1, RequestTyped DEF Rows, Row
      <4>2. CASE req[q].pc = "committing"
        <5> DEFINE S == Used \cup req[q].changed
                   T == Used' \cup req[q].changed
        <5>1. S \subseteq T /\ T \in SUBSET Messages
          BY <1>1, <1>5, RequestTyped
        <5>2. IsFiniteSet(T)
          BY <5>1, MsgConfig, FS_Subset
        <5>3. Cardinality(S) <= Cardinality(T) /\ Cardinality(S) \in Nat /\ Cardinality(T) \in Nat
          BY <5>1, <5>2, FS_Subset, FS_CardinalityType
        <5>4. req[q].rows[u].count <= Cardinality(S)
          BY <2>1, <4>2 DEF StageOK
        <5> QED  BY <4>1, <4>2, <5>3, <5>4
      <4>3. CASE req[q].pc # "committing"
        <5>1. req[q].rows[u].count <= Cardinality(Used)
          BY <2>1, <4>3 DEF StageOK
        <5> QED  BY <1>5, <4>1, <4>3, <5>1
      <4> QED  BY <4>2, <4>3
    <3> QED  BY <1>3, <1>10, <2>1, <3>1 DEF StageOK
  <2>3. ChangesOK(q)'
    <3>1. req[q].op = "send" => \E m \in Messages \ Used' : req[q].msgs = {m}
      <4> SUFFICES ASSUME req[q].op = "send" PROVE \E m \in Messages \ Used' : req[q].msgs = {m}
        OBVIOUS
      <4>1. PICK m \in Messages \ Used : req[q].msgs = {m}
        BY <2>1 DEF ChangesOK
      <4>2. m \notin req[r].changed
        <5>1. CASE req[r].op = "send"
          <6>1. req[r].changed = req[r].msgs
            BY <1>1, <5>1 DEF LocalOK, ChangesOK
          <6> QED  BY <1>10, <4>1, <5>1, <6>1 DEF Apart
        <5>2. CASE req[r].op # "send"
          BY <1>1, <4>1, <5>2 DEF LocalOK, ChangesOK, Used, Scopes
        <5> QED  BY <5>1, <5>2
      <4> QED  BY <1>2, <4>1, <4>2
    <3>2. req[q].op \in Edits =>
             req[q].changed \subseteq {m \in Messages : msg'[m].scope \in Scopes}
      <4> SUFFICES ASSUME req[q].op \in Edits, NEW m \in req[q].changed
                   PROVE  m \in Messages /\ msg'[m].scope \in Scopes
        OBVIOUS
      <4>1. m \in Messages /\ msg[m].scope \in Scopes
        BY <2>1 DEF ChangesOK
      <4>2. ~Exclusive(r)
        BY <1>10, <2>1 DEF StageOK
      <4>3. m \notin req[r].changed => msg'[m] = msg[m]
        BY <1>2, <4>1 DEF MsgSeen
      <4>4. m \in req[r].changed => msg'[m] = msg[m]
        <5> SUFFICES ASSUME m \in req[r].changed PROVE msg'[m] = msg[m]
          OBVIOUS
        <5>1. req[r].op # "send" /\ req[r].op # "unsend"
          <6>1. req[r].op = "send" => req[r].changed \subseteq Messages \ Used
            BY <1>1 DEF LocalOK, ChangesOK
          <6> QED  BY <4>1, <4>2, <6>1 DEF Used, Scopes, Exclusive
        <5> QED  BY <1>2, <4>1, <5>1 DEF MsgSeen
      <4> QED  BY <4>1, <4>3, <4>4
    <3> QED  BY <1>2, <1>10, <2>1, <3>1, <3>2 DEF ChangesOK
  <2>4. LocksOK(q)'
    BY <1>2, <1>3, <1>10, <2>1 DEF LocksOK
  <2> QED  BY <2>2, <2>3, <2>4 DEF LocalOK
<1>12. ASSUME KnownTargets PROVE StatusIsAccurate'
  <2> SUFFICES ASSUME NEW u \in Stored', now < row'[u].due PROVE row'[u] = Truth(u)'
    BY <1>2 DEF StatusIsAccurate
  <2>1. u \in Users
    BY DEF Stored
  <2>2. CASE u \in req[r].held
    <3>1. RowsOK(r) /\ row'[u] = req[r].rows[u]
      BY <1>2, <1>12, <2>1, <2>2
    <3> QED  BY <1>1, <1>2, <2>1, <2>2, <3>1 DEF RowsOK
  <2>3. CASE u \notin req[r].held
    <3>1. u \in Stored /\ row'[u] = row[u]
      BY <1>2, <2>1, <2>3
    <3>2. ~Exclusive(r)
      BY <1>1, <2>3, <3>1 DEF LocalOK, LocksOK
    <3>3. Truth(u)' = Truth(u)
      BY <1>12, <2>1, <2>3, <3>2, CommitKeepsTruth
    <3> QED  BY <1>12, <3>1, <3>3 DEF StatusIsAccurate
  <2> QED  BY <2>2, <2>3
<1>13. ASSUME KnownTargets, NEW q \in Requests \ {r} PROVE RowsOK(q)' /\ AnswerOK(q)'
  <2>1. AnswerOK(q)'
    BY <1>2, <1>10, <1>13, AnswersKeep
  <2>2. ASSUME NEW u \in req[q].held
        PROVE  Truth(u)' = Truth(u) /\ Recomputed(q, u)' = Recomputed(q, u)
    <3>1. PastLock(q)
      BY <1>10 DEF LocalOK, StageOK
    <3>2. ~Exclusive(q) /\ ~Exclusive(r)
      BY <1>10, <3>1
    <3>3. u \in Users \ req[r].held
      BY <1>1, <1>10, <2>2, RequestTyped DEF Apart
    <3> QED  BY <1>13, <3>2, <3>3, CommitKeepsTruth, CommitKeepsSeen
  <2>3. RowsOK(q)
    BY <1>13
  <2>4. RowsOK(q)'
    BY <1>2, <1>10, <2>2, <2>3 DEF RowsOK
  <2> QED  BY <2>1, <2>4
<1> QED  BY <1>4, <1>6, <1>8, <1>9, <1>11, <1>12, <1>13, Together
-----------------------------------------------------------------------------
(* The theorems.                                                            *)

\* No row, no receipt and no request, and at most one old broadcast.
LEMMA InitEstablishes == Init => Inv
<1> SUFFICES ASSUME Init PROVE Inv
  OBVIOUS
<1>1. /\ now = 1 /\ MaxTime \in Nat \ {0}
      /\ receipt = [u \in Users |-> [m \in Messages |-> "none"]]
      /\ row = [u \in Users |-> NoRow]
      /\ req = [r \in Requests |-> Idle]
      /\ truths = [r \in Requests |-> {}]
  BY MsgConfig DEF Init
<1>2. PICK old \in SUBSET Messages, at \in 2 .. MaxTime, until \in 3 .. Never :
         /\ at < until
         /\ msg = [m \in Messages |->
               IF m \in old
               THEN [scope |-> "all", published |-> at, expired |-> until]
               ELSE NoMessage("unused")]
  <2>1. PICK old \in SUBSET Messages :
           \E at \in 2 .. MaxTime, until \in 3 .. Never :
              /\ Cardinality(old) <= 1
              /\ at < until
              /\ msg = [m \in Messages |->
                    IF m \in old
                    THEN [scope |-> "all", published |-> at, expired |-> until]
                    ELSE NoMessage("unused")]
    BY Zenon DEF Init
  <2> QED  BY <2>1, Zenon
<1>3. user \in [Users -> Account]
  <2>1. {[state |-> "unknown", created |-> 0], [state |-> "present", created |-> 1]}
           \subseteq Account
    BY <1>1 DEF Account
  <2> QED  BY <2>1 DEF Init
<1>4. msg \in [Messages -> Message]
  <2>1. [scope |-> "all", published |-> at, expired |-> until] \in Message
    BY <1>2, Clock DEF Message
  <2> QED  BY <1>2, <2>1, NoMessageTyped
<1>5. TypeOK
  BY <1>1, <1>3, <1>4, IdleTyped DEF TypeOK, Receipt
<1>6. Stored = {}
  BY <1>1 DEF Stored
<1>7. TablesOK
  <2>1. \A m \in Messages : msg[m].scope \in Scopes => msg[m].published < msg[m].expired
    BY <1>2, NoMessageTyped DEF Scopes
  <2> QED  BY <1>1, <1>6, <2>1 DEF TablesOK
<1>8. \A r \in Requests :
         /\ req[r].pc = "idle" /\ req[r].op = "none"
         /\ req[r].held = {} /\ req[r].changed = {}
         /\ req[r].draft.scope = "unused"
  BY <1>1, NoMessageTyped DEF Idle
<1>9. \A r \in Requests : StageOK(r) /\ ChangesOK(r) /\ LocksOK(r)
  BY <1>8 DEF StageOK, PastLock, ChangesOK, LocksOK, Exclusive, Edits
<1>10. \A q, r \in Requests : Apart(q, r)
  BY <1>8 DEF Apart, Inside
<1>11. StatusIsAccurate /\ AnswerWasTrue /\ \A r \in Requests : RowsOK(r)
  BY <1>6, <1>8 DEF StatusIsAccurate, AnswerWasTrue, RowsOK
<1> QED  BY <1>5, <1>7, <1>9, <1>10, <1>11 DEF Inv

\* A step that changes no variable.
LEMMA StutterKeeps ==
  ASSUME Inv, UNCHANGED vars
  PROVE  Inv'
<1>1. DataStays /\ req' = req /\ truths' = truths
  BY DEF vars, DataStays
<1>2. TypeOK' /\ TablesOK' /\ (StatusIsAccurate => StatusIsAccurate')
  BY <1>1, TablesStay, InvParts DEF TypeOK, DataStays
<1>3. \A r \in Requests : LocalOK(r)' /\ (KnownTargets => RowsOK(r)')
  BY <1>1, Bystander
<1>4. \A q, r \in Requests : q # r => Apart(q, r)'
  BY <1>1, InvParts DEF Apart, Inside, Exclusive
<1>5. \A r \in Requests : AnswerOK(r) => AnswerOK(r)'
  BY <1>1 DEF AnswerOK, Shown
<1> QED  BY <1>2, <1>3, <1>4, <1>5, InvParts, Together

\* The invariant is inductive.
LEMMA NextKeeps == Inv /\ [Next]_vars => Inv'
<1> SUFFICES ASSUME Inv, [Next]_vars PROVE Inv'
  OBVIOUS
<1>1. CASE UNCHANGED vars
  BY <1>1, StutterKeeps
<1>2. CASE Watch /\ Tick
  BY <1>2, TickKeeps
<1>3. ASSUME Watch, NEW u \in Users, RegisterUser(u) \/ DeleteUser(u)
      PROVE  Inv'
  BY <1>3, RegisterUserKeeps, DeleteUserKeeps
<1>4. ASSUME Watch, NEW r \in Requests, Poll(r) \/ Sweep(r) \/ Send(r) \/ Edit(r) \/ Abort(r)
      PROVE  Inv'
  BY <1>4, PollKeeps, SweepKeeps, SendKeeps, EditKeeps, AbortKeeps
<1>5. ASSUME Watch, NEW r \in Requests, Gate(r) \/ Lock(r) \/ RefreshDue(r) \/ Reread(r)
      PROVE  Inv'
  BY <1>5, GateKeeps, LockKeeps, RefreshDueKeeps, RereadKeeps
<1>6. ASSUME Watch, NEW r \in Requests,
             Publish(r) \/ Deliver(r) \/ Change(r) \/ Recount(r) \/ Commit(r)
      PROVE  Inv'
  BY <1>6, PublishKeeps, DeliverKeeps, ChangeKeeps, RecountKeeps, CommitKeeps
<1> QED  BY <1>1, <1>2, <1>3, <1>4, <1>5, <1>6 DEF Next, Step

\* The tables, the locks and what the requests are about to write fit together.
THEOREM InvariantHolds == Spec => []Inv
<1> QED  BY InitEstablishes, NextKeeps, PTL DEF Spec

\* Every variable keeps its type: no count falls below zero or exceeds the
\* messages there are.
THEOREM TypeCorrect == Spec => []TypeOK
<1>1. Inv => TypeOK
  BY DEF Inv
<1> QED  BY <1>1, InvariantHolds, PTL

\* As long as messages go to registered users only, a committed status row
\* says until its deadline exactly what its user has not read.
THEOREM StatusAlwaysAccurate ==
  ASSUME KnownTargets
  PROVE  Spec => []StatusIsAccurate
<1>1. Inv => StatusIsAccurate
  BY DEF Inv
<1> QED  BY <1>1, InvariantHolds, PTL

\* As long as messages go to registered users only, a Status request answers
\* what was right at some moment while it ran.
THEOREM AnswersWereTrue ==
  ASSUME KnownTargets
  PROVE  Spec => []AnswerWasTrue
<1>1. Inv => AnswerWasTrue
  BY DEF Inv
<1> QED  BY <1>1, InvariantHolds, PTL
=============================================================================
