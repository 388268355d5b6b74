-------------------------- MODULE AssignmentsProofs --------------------------
(***************************************************************************)
(* Theorems about Assignments, for every set of users, roles, groups,      *)
(* codes, bindings, documents and requests.                                *)
(***************************************************************************)
EXTENDS Assignments, TLAPS

(* Rows that a transaction writes.                                         *)

LEMMA PartialIntro ==
    ASSUME NEW S, NEW T, NEW D \in SUBSET S, NEW f \in [D -> T]
    PROVE  f \in Partial(S, T)
  BY DEF Partial

LEMMA PartialElim ==
    ASSUME NEW S, NEW T, NEW f \in Partial(S, T)
    PROVE  DOMAIN f \in SUBSET S /\ f \in [DOMAIN f -> T]
  BY DEF Partial

LEMMA NoRowsTyped ==
    ASSUME NEW S, NEW T
    PROVE  NoRows \in Partial(S, T) /\ DOMAIN NoRows = {}
<1>1. NoRows \in [{} -> T] /\ DOMAIN NoRows = {}
  BY DEF NoRows
<1> QED  BY <1>1, PartialIntro

LEMMA OnlyTyped ==
    ASSUME NEW S, NEW T, NEW x \in S, NEW v \in T
    PROVE  Only(x, v) \in Partial(S, T) /\ DOMAIN Only(x, v) = {x} /\ Only(x, v)[x] = v
<1>1. Only(x, v) \in [{x} -> T] /\ DOMAIN Only(x, v) = {x} /\ Only(x, v)[x] = v
  BY DEF Only
<1> QED  BY <1>1, PartialIntro

\* One owner's codes.
LEMMA OnlyCodes ==
    ASSUME NEW o \in Owners, NEW cs \in SUBSET Codes
    PROVE  Only(o, cs) \in Partial(Owners, SUBSET Codes) /\ DOMAIN Only(o, cs) = {o}
           /\ Only(o, cs)[o] = cs
<1> DEFINE T == SUBSET Codes
<1>1. cs \in T
  OBVIOUS
<1> HIDE DEF T
<1>2. Only(o, cs) \in Partial(Owners, T) /\ DOMAIN Only(o, cs) = {o} /\ Only(o, cs)[o] = cs
  BY <1>1, OnlyTyped
<1> QED  BY <1>2 DEF T

LEMMA DefinedCodes == Defined \in SUBSET Codes
  BY DEF Defined

\* What a table is after a transaction.
LEMMA OverlayTyped ==
    ASSUME NEW S, NEW T, NEW f \in Partial(S, T), NEW g \in [S -> T]
    PROVE  /\ Overlay(f, g) \in [S -> T]
           /\ \A x \in S : Overlay(f, g)[x] = IF x \in DOMAIN f THEN f[x] ELSE g[x]
  BY PartialElim DEF Overlay

LEMMA NothingTyped ==
    /\ Nothing \in Writes
    /\ Nothing.actions = NoRows /\ Nothing.codes = NoRows /\ Nothing.members = NoRows
    /\ Nothing.present = NoRows /\ Nothing.catalog = None
  BY NoRowsTyped DEF Nothing, Writes

LEMMA BareTyped == Bare \in Document
  BY DEF Bare, Document

LEMMA IdleTyped == Idle \in Request /\ Idle.pc = "idle"
  BY NothingTyped, BareTyped DEF Idle, Request

LEMMA CatalogAfterTyped ==
    ASSUME Inv, NEW w \in Writes
    PROVE  /\ CatalogAfter(w) \in Catalog
           /\ ActionsAfter(w) \in [Codes -> {None} \cup Action]
           /\ \A c \in Codes : ActionsAfter(w)[c] =
                  IF c \in DOMAIN w.actions THEN w.actions[c] ELSE actions[c]
           /\ CodesAfter(w) \in [Owners -> SUBSET Codes]
           /\ \A o \in Owners : CodesAfter(w)[o] =
                  IF o \in DOMAIN w.codes THEN w.codes[o] ELSE codes[o]
<1>1. actions \in [Codes -> {None} \cup Action] /\ codes \in [Owners -> SUBSET Codes]
      /\ catalog \in Catalog
  BY DEF Inv, TypeOK
<1>2. /\ w.actions \in Partial(Codes, {None} \cup Action)
      /\ w.codes \in Partial(Owners, SUBSET Codes)
      /\ w.catalog \in {None} \cup Catalog
  BY DEF Writes
<1> QED  BY <1>1, <1>2, OverlayTyped DEF CatalogAfter, ActionsAfter, CodesAfter
-----------------------------------------------------------------------------
(* The lock, the checks and the writes.                                    *)

\* Grants change with the tables only.
LEMMA AuthorizedStays ==
    ASSUME UNCHANGED <<actions, codes, members>>
    PROVE  \A u, power, view : Authorized(u, power, view)' <=> Authorized(u, power, view)
  BY DEF Authorized, Bound, Holdings, Defined

\* So does what the holder of the lock is about to write.
LEMMA PendingStays ==
    ASSUME UNCHANGED <<actions, codes, catalog, unbroken>>
    PROVE  \A w : /\ CodesWillResolve(w)' <=> CodesWillResolve(w)
                  /\ ActionsWillResolve(w)' <=> ActionsWillResolve(w)
                  /\ DefaultsWillBeCurrent(w)' <=> DefaultsWillBeCurrent(w)
  BY DEF CodesWillResolve, ActionsWillResolve, DefaultsWillBeCurrent, ActionsAfter, CodesAfter,
         CatalogAfter, DefaultUserCodes, Defined

\* A transaction that has checked its actor is the one that holds the lock, and
\* what it will write must agree with the tables.
LEMMA CheckedKeeps ==
    ASSUME Inv, NEW r \in Requests, holder = None,
           NEW u \in Users \cup {None}, NEW needs \in SUBSET Powers,
           \A power \in needs : Authorized(u, power, snapshot),
           NEW w \in Writes,
           CodesWillResolve(w), ActionsWillResolve(w), DefaultsWillBeCurrent(w),
           Checked(r, u, needs, w)
    PROVE  Inv'
<1> DEFINE view == IF needs = {} THEN Bare ELSE snapshot
           checked == [req[r] EXCEPT !.pc = "checked", !.actor = u, !.needs = needs,
                                     !.view = view, !.writes = w]
<1>1. UNCHANGED <<actions, codes, members, present, catalog, snapshot, unbroken>>
  BY DEF Checked, tables
<1>2. view \in Document
  BY BareTyped DEF Inv, TypeOK
<1> HIDE DEF view
<1>3. /\ checked \in Request /\ checked.pc = "checked" /\ checked.actor = u
      /\ checked.needs = needs /\ checked.view = view /\ checked.writes = w
  BY <1>2 DEF Inv, TypeOK, Request
<1>4. holder' = r /\ req' = [req EXCEPT ![r] = checked]
  BY DEF Checked, view
<1> HIDE DEF checked
<1>5. /\ req' \in [Requests -> Request] /\ req'[r] = checked
      /\ \A q \in Requests \ {r} : req'[q] = req[q] /\ req[q].pc # "checked"
  BY <1>3, <1>4, AssignmentConfig DEF Inv, TypeOK, PendingOK
<1>6. TypeOK'
  BY <1>1, <1>3, <1>4, <1>5 DEF Inv, TypeOK
<1>7. PendingOK'
  <2> SUFFICES ASSUME NEW q \in Requests, req'[q].pc = "checked"
               PROVE  /\ holder' = q
                      /\ CodesWillResolve(req[q].writes)'
                      /\ ActionsWillResolve(req[q].writes)'
                      /\ DefaultsWillBeCurrent(req[q].writes)'
    BY DEF PendingOK
  <2>1. q = r /\ req'[q].writes = w
    BY <1>3, <1>5
  <2>2. CodesWillResolve(w)' /\ ActionsWillResolve(w)' /\ DefaultsWillBeCurrent(w)'
    BY <1>1, PendingStays
  <2>3. /\ CodesWillResolve(req[q].writes)'
        /\ ActionsWillResolve(req[q].writes)'
        /\ DefaultsWillBeCurrent(req[q].writes)'
    BY <2>1, <2>2 DEF CodesWillResolve, ActionsWillResolve, DefaultsWillBeCurrent
  <2> QED  BY <1>4, <2>1, <2>3
<1>8. GrantsStand'
  <2> SUFFICES ASSUME NEW q \in Requests, req'[q].pc = "checked", NEW power \in req'[q].needs
               PROVE  Authorized(req[q].actor, power, req[q].view)'
    BY DEF GrantsStand
  <2>1. q = r /\ power \in needs /\ req'[q].actor = u /\ req'[q].view = snapshot
    BY <1>3, <1>5 DEF view
  <2>2. Authorized(u, power, snapshot)
    BY <2>1
  <2>3. Authorized(u, power, req'[q].view)
    BY <2>1, <2>2
  <2> QED  BY <1>1, <2>1, <2>3, AuthorizedStays
<1>9. /\ unbroken' => catalog'.state # "absent"
      /\ CodesResolve' /\ ActionsResolve'
  BY <1>1 DEF Inv, CodesResolve, ActionsResolve, Defined
<1> QED  BY <1>6, <1>7, <1>8, <1>9 DEF Inv

\* The same for a transaction that checks endpoints.
LEMMA EnterKeeps ==
    ASSUME Inv, NEW r \in Requests, holder = None,
           NEW u \in Users \cup {None}, NEW needs \in SUBSET Powers,
           NEW w \in Writes,
           CodesWillResolve(w), ActionsWillResolve(w), DefaultsWillBeCurrent(w),
           Enter(r, u, needs, w)
    PROVE  Inv'
  BY CheckedKeeps DEF Enter

\* The end of a transaction: its request is over, and the lock is free.
LEMMA Finishes ==
    ASSUME Inv, NEW r \in Requests, Finish(r)
    PROVE  /\ holder' = None
           /\ req' \in [Requests -> Request]
           /\ \A q \in Requests : req'[q].pc # "checked"
<1> DEFINE done == [Idle EXCEPT !.pc = "done"]
<1>1. holder = r /\ \A q \in Requests \ {r} : req[q].pc # "checked"
  BY DEF Finish, Inv, PendingOK
<1>2. done \in Request /\ done.pc = "done"
  BY IdleTyped DEF Request
<1>3. req' = [req EXCEPT ![r] = done] /\ holder' = None
  BY <1>1 DEF Finish
<1> HIDE DEF done
<1> QED  BY <1>1, <1>2, <1>3 DEF Inv, TypeOK

LEMMA RollbackKeeps ==
    ASSUME Inv, NEW r \in Requests, Rollback(r)
    PROVE  Inv'
<1>1. /\ holder' = None
      /\ req' \in [Requests -> Request]
      /\ \A q \in Requests : req'[q].pc # "checked"
  BY Finishes DEF Rollback
<1>2. UNCHANGED <<actions, codes, members, present, catalog, snapshot, unbroken>>
  BY DEF Rollback, tables
<1>3. TypeOK'
  BY <1>1, <1>2 DEF Inv, TypeOK
<1>4. PendingOK' /\ GrantsStand'
  BY <1>1 DEF PendingOK, GrantsStand
<1> QED  BY <1>2, <1>3, <1>4 DEF Inv, CodesResolve, ActionsResolve, Defined

\* What was about to be written becomes what the tables are.
LEMMA CommitKeeps ==
    ASSUME Inv, NEW r \in Requests, Commit(r)
    PROVE  Inv'
<1> DEFINE w == req[r].writes
<1>1. /\ holder' = None
      /\ req' \in [Requests -> Request]
      /\ \A q \in Requests : req'[q].pc # "checked"
  BY Finishes DEF Commit
<1>2. w \in Writes /\ CodesWillResolve(w) /\ ActionsWillResolve(w)
  BY DEF Commit, Finish, Inv, TypeOK, Request, PendingOK
<1>3. /\ actions' = ActionsAfter(w) /\ codes' = CodesAfter(w) /\ catalog' = CatalogAfter(w)
      /\ members' = Overlay(w.members, members)
      /\ present' = (present \ DOMAIN w.present)
                          \cup {o \in DOMAIN w.present : w.present[o]}
      /\ unbroken' = (unbroken /\ catalog'.state # "absent")
      /\ snapshot' = snapshot
  BY DEF Commit, ActionsAfter, CodesAfter, CatalogAfter
<1> HIDE DEF w
<1>4. /\ actions' \in [Codes -> {None} \cup Action] /\ codes' \in [Owners -> SUBSET Codes]
      /\ catalog' \in Catalog
  BY <1>2, <1>3, CatalogAfterTyped
<1>5. w.members \in Partial(Users, SUBSET Bundles) /\ w.present \in Partial(Owners, BOOLEAN)
  BY <1>2 DEF Writes
<1>6. members' \in [Users -> SUBSET Bundles]
  BY <1>3, <1>5, OverlayTyped DEF Inv, TypeOK
<1>7. present' \subseteq Owners
  BY <1>3, <1>5, PartialElim DEF Inv, TypeOK
<1>8. snapshot' \in Document /\ unbroken' \in BOOLEAN
  BY <1>3 DEF Inv, TypeOK
<1>9. TypeOK'
  BY <1>1, <1>4, <1>6, <1>7, <1>8 DEF TypeOK
<1>10. PendingOK' /\ GrantsStand'
  BY <1>1 DEF PendingOK, GrantsStand
<1>11. CodesResolve'
  BY <1>2, <1>3, <1>4 DEF CodesResolve, CodesWillResolve, Defined
<1>12. ActionsResolve' /\ (unbroken' => catalog'.state # "absent")
  BY <1>2, <1>3, <1>4 DEF ActionsResolve, ActionsWillResolve, Defined
<1> QED  BY <1>9, <1>10, <1>11, <1>12 DEF Inv

\* What needs no lock leaves alone all that those who hold it have read.
LEMMA UnlockedKeeps ==
    ASSUME Inv,
           \/ RefreshLocalization
           \/ \E r \in Requests : OpenEditor(r) \/ \E b \in Bundles : CreateEmptyBundle(r, b)
    PROVE  Inv'
<1>1. /\ UNCHANGED <<actions, codes, members, catalog, holder, unbroken>>
      /\ present' \subseteq Owners /\ snapshot' \in Document
      /\ req' \in [Requests -> Request]
      /\ \A q \in Requests : \/ req'[q] = req[q]
                             \/ req[q].pc # "checked" /\ req'[q].pc # "checked"
  <2>1. CASE RefreshLocalization
    BY <2>1, BareTyped DEF RefreshLocalization, tables, Inv, TypeOK, Catalog
  <2>2. ASSUME NEW r \in Requests, OpenEditor(r)
        PROVE  <1>1!:
    <3> DEFINE editing == [Idle EXCEPT !.pc = "editing", !.expected = catalog.document]
    <3>1. catalog.document \in Document
      BY DEF Inv, TypeOK, Catalog
    <3>2. editing \in Request /\ editing.pc = "editing"
      BY <3>1, IdleTyped DEF Request
    <3>3. req' = [req EXCEPT ![r] = editing]
      BY <2>2 DEF OpenEditor
    <3> HIDE DEF editing
    <3> QED  BY <2>2, <3>2, <3>3 DEF OpenEditor, tables, Inv, TypeOK
  <2>3. ASSUME NEW r \in Requests, NEW b \in Bundles, CreateEmptyBundle(r, b)
        PROVE  <1>1!:
    <3> DEFINE done == [Idle EXCEPT !.pc = "done"]
    <3>1. done \in Request /\ done.pc = "done"
      BY IdleTyped DEF Request
    <3>2. req' = [req EXCEPT ![r] = done]
      BY <2>3 DEF CreateEmptyBundle
    <3> HIDE DEF done
    <3> QED  BY <2>3, <3>1, <3>2 DEF CreateEmptyBundle, Inv, TypeOK, Owners
  <2> QED  BY <2>1, <2>2, <2>3
<1>2. TypeOK'
  BY <1>1, AssignmentConfig DEF Inv, TypeOK
<1>3. PendingOK'
  <2> SUFFICES ASSUME NEW q \in Requests, req'[q].pc = "checked"
               PROVE  /\ holder' = q
                      /\ CodesWillResolve(req[q].writes)'
                      /\ ActionsWillResolve(req[q].writes)'
                      /\ DefaultsWillBeCurrent(req[q].writes)'
    BY DEF PendingOK
  <2>1. req'[q] = req[q] /\ req[q].pc = "checked"
    BY <1>1
  <2>2. /\ holder = q /\ CodesWillResolve(req[q].writes)
        /\ ActionsWillResolve(req[q].writes) /\ DefaultsWillBeCurrent(req[q].writes)
    BY <2>1 DEF Inv, PendingOK
  <2>3. /\ CodesWillResolve(req'[q].writes)
        /\ ActionsWillResolve(req'[q].writes) /\ DefaultsWillBeCurrent(req'[q].writes)
    BY <2>1, <2>2
  <2> QED  BY <1>1, <2>2, <2>3, PendingStays
<1>4. GrantsStand'
  <2> SUFFICES ASSUME NEW q \in Requests, req'[q].pc = "checked", NEW power \in req'[q].needs
               PROVE  Authorized(req[q].actor, power, req[q].view)'
    BY DEF GrantsStand
  <2>1. req'[q] = req[q]
    BY <1>1
  <2>2. Authorized(req'[q].actor, power, req'[q].view)
    BY <2>1 DEF Inv, GrantsStand
  <2> QED  BY <1>1, <2>2, AuthorizedStays
<1> QED  BY <1>1, <1>2, <1>3, <1>4 DEF Inv, CodesResolve, ActionsResolve, Defined
-----------------------------------------------------------------------------
(* Transactions about owners.                                              *)

\* They leave the definitions and the catalog alone; it is enough that the codes
\* they give are defined, and that a user who appears gets the default ones.
LEMMA OwnersKeep ==
    ASSUME Inv, NEW r \in Requests, holder = None,
           NEW u \in Users \cup {None}, NEW needs \in SUBSET Powers,
           NEW w \in Writes, w.actions = NoRows, w.catalog = None,
           \A o \in DOMAIN w.codes : w.codes[o] \subseteq Defined,
           \A v \in Users : v \in DOMAIN w.present /\ w.present[v] =>
               v \in DOMAIN w.codes /\ DefaultUserCodes \subseteq w.codes[v],
           Enter(r, u, needs, w)
    PROVE  Inv'
<1>1. ActionsAfter(w) \in [Codes -> {None} \cup Action]
      /\ \A c \in Codes : ActionsAfter(w)[c] = actions[c]
  BY CatalogAfterTyped, NoRowsTyped
<1>2. CatalogAfter(w) = catalog
  BY DEF CatalogAfter
<1>3. CodesWillResolve(w)
  BY <1>1, CatalogAfterTyped DEF CodesWillResolve, Inv, CodesResolve, Defined
<1>4. ActionsWillResolve(w)
  BY <1>1, <1>2 DEF ActionsWillResolve, Inv, ActionsResolve, Defined
<1>5. DefaultsWillBeCurrent(w)
  BY CatalogAfterTyped DEF DefaultsWillBeCurrent, Owners
<1> QED  BY <1>3, <1>4, <1>5, EnterKeeps

\* Users are distinct from roles and groups.
LEMMA OwnersApart ==
    /\ Users \subseteq Owners /\ Bundles \subseteq Owners
    /\ \A v \in Users : v \notin Bundles
  BY AssignmentConfig DEF Owners, Bundles

LEMMA PlacingTyped ==
    ASSUME Inv, NEW b \in Bundles, NEW us
    PROVE  Placing(b, us) \in Partial(Users, SUBSET Bundles)
<1> DEFINE D == {v \in Users : (v \in us) # (b \in members[v])}
<1>1. Placing(b, us) \in [D -> SUBSET Bundles]
  BY DEF Placing, Inv, TypeOK
<1> QED  BY <1>1, PartialIntro

\* Codes alone, memberships alone.
LEMMA CodeRows ==
    ASSUME NEW cs \in Partial(Owners, SUBSET Codes)
    PROVE  LET w == [Nothing EXCEPT !.codes = cs] IN
           /\ w \in Writes /\ w.actions = NoRows /\ w.catalog = None
           /\ w.codes = cs /\ w.present = NoRows
  BY NothingTyped DEF Writes

LEMMA MemberRows ==
    ASSUME NEW ms \in Partial(Users, SUBSET Bundles)
    PROVE  LET w == [Nothing EXCEPT !.members = ms] IN
           /\ w \in Writes /\ w.actions = NoRows /\ w.catalog = None
           /\ w.codes = NoRows /\ w.present = NoRows
  BY NothingTyped DEF Writes

LEMMA AssignCodesKeeps ==
    ASSUME Inv, NEW r \in Requests, holder = None, NEW u \in Users, NEW o \in Owners,
           AssignCodes(r, u, o)
    PROVE  Inv'
<1>1. PICK cs \in SUBSET Defined :
          Enter(r, u, {"assign"}, [Nothing EXCEPT !.codes = Only(o, cs)])
  BY DEF AssignCodes
<1> DEFINE w == [Nothing EXCEPT !.codes = Only(o, cs)]
<1>2. Only(o, cs) \in Partial(Owners, SUBSET Codes) /\ DOMAIN Only(o, cs) = {o}
      /\ Only(o, cs)[o] = cs
  BY OnlyCodes, DefinedCodes
<1>3. /\ w \in Writes /\ w.actions = NoRows /\ w.catalog = None
      /\ w.codes = Only(o, cs) /\ w.present = NoRows
  BY <1>2, CodeRows
<1> HIDE DEF w
<1>4. Enter(r, u, {"assign"}, w)
  BY <1>1 DEF w
<1> QED  BY <1>2, <1>3, <1>4, NoRowsTyped, OwnersKeep DEF Powers

\* Memberships alone.
LEMMA MembershipKeeps ==
    ASSUME Inv, NEW r \in Requests, holder = None, NEW u \in Users,
           NEW ms \in Partial(Users, SUBSET Bundles),
           Enter(r, u, {"assign"}, [Nothing EXCEPT !.members = ms])
    PROVE  Inv'
<1> DEFINE w == [Nothing EXCEPT !.members = ms]
<1>1. /\ w \in Writes /\ w.actions = NoRows /\ w.catalog = None
      /\ w.codes = NoRows /\ w.present = NoRows
  BY MemberRows
<1>2. Enter(r, u, {"assign"}, w)
  OBVIOUS
<1> HIDE DEF w
<1> QED  BY <1>1, <1>2, NoRowsTyped, OwnersKeep DEF Powers

LEMMA ChooseRoleKeeps ==
    ASSUME Inv, NEW r \in Requests, holder = None, NEW u \in Users, NEW v \in Users,
           ChooseRole(r, u, v)
    PROVE  Inv'
<1>1. PICK role \in Assignable :
        Enter(r, u, {"assign"},
              [Nothing EXCEPT !.members =
                  Only(v, (members[v] \ Roles) \cup ({role} \ {None}))])
  BY DEF ChooseRole
<1> DEFINE ms == (members[v] \ Roles) \cup ({role} \ {None})
<1>2. ms \in SUBSET Bundles
  BY DEF Assignable, Bundles, Inv, TypeOK
<1> HIDE DEF ms
<1>3. Only(v, ms) \in Partial(Users, SUBSET Bundles)
  BY <1>2, OnlyTyped
<1>4. Enter(r, u, {"assign"}, [Nothing EXCEPT !.members = Only(v, ms)])
  BY <1>1 DEF ms
<1> QED  BY <1>3, <1>4, MembershipKeeps

LEMMA GroupMembersKeep ==
    ASSUME Inv, NEW r \in Requests, holder = None, NEW u \in Users, NEW g \in UserGroups,
           ReplaceUsers(r, u, g) \/ ChangeMembers(r, u, g)
    PROVE  Inv'
<1>1. PICK us \in SUBSET Users :
          Enter(r, u, {"assign"}, [Nothing EXCEPT !.members = Placing(g, us)])
  <2>1. CASE ReplaceUsers(r, u, g)
    BY <2>1 DEF ReplaceUsers
  <2>2. CASE ChangeMembers(r, u, g)
    <3>1. PICK added \in SUBSET (Users \cap present), removed \in SUBSET Users :
             Enter(r, u, {"assign"},
                   [Nothing EXCEPT !.members =
                       Placing(g, (MembersOf(g) \ removed) \cup added)])
      BY <2>2 DEF ChangeMembers
    <3>2. (MembersOf(g) \ removed) \cup added \in SUBSET Users
      BY DEF MembersOf
    <3> QED  BY <3>1, <3>2
  <2> QED  BY <2>1, <2>2
<1>2. g \in Bundles
  BY DEF Bundles
<1>3. Placing(g, us) \in Partial(Users, SUBSET Bundles)
  BY <1>2, PlacingTyped
<1> QED  BY <1>1, <1>3, MembershipKeeps

\* An owner that appears, with codes that are defined.
LEMMA CreatingKeeps ==
    ASSUME Inv, NEW r \in Requests, holder = None,
           NEW u \in Users \cup {None}, NEW needs \in SUBSET Powers, NEW o \in Owners,
           NEW cs \in SUBSET Defined, NEW ms \in Partial(Users, SUBSET Bundles),
           o \in Users => DefaultUserCodes \subseteq cs,
           Enter(r, u, needs, [Create(o, cs) EXCEPT !.members = ms])
    PROVE  Inv'
<1> DEFINE given == Only(o, cs)
           there == Only(o, TRUE)
           w == [Nothing EXCEPT !.codes = given, !.present = there, !.members = ms]
<1>1. given \in Partial(Owners, SUBSET Codes) /\ DOMAIN given = {o} /\ given[o] = cs
  BY OnlyCodes, DefinedCodes
<1>2. there \in Partial(Owners, BOOLEAN) /\ DOMAIN there = {o}
  BY OnlyTyped
<1>3. Enter(r, u, needs, w)
  BY DEF Create
<1> HIDE DEF given, there
<1>4. /\ w \in Writes /\ w.actions = NoRows /\ w.catalog = None
      /\ w.codes = given /\ w.present = there
  BY <1>1, <1>2, NothingTyped DEF Writes
<1> HIDE DEF w
<1> QED  BY <1>1, <1>2, <1>3, <1>4, OwnersKeep

LEMMA CreateBundleKeeps ==
    ASSUME Inv, NEW r \in Requests, holder = None, NEW u \in Users, NEW b \in Bundles,
           CreateBundle(r, u, b)
    PROVE  Inv'
<1>1. PICK cs \in SUBSET Defined, us \in SUBSET (Users \cap present) :
          Enter(r, u, {"assign"}, [Create(b, cs) EXCEPT !.members = Placing(b, us)])
  BY DEF CreateBundle
<1>2. Placing(b, us) \in Partial(Users, SUBSET Bundles)
  BY PlacingTyped
<1> QED  BY <1>1, <1>2, OwnersApart, CreatingKeeps DEF Powers

LEMMA CreateUserKeeps ==
    ASSUME Inv, NEW r \in Requests, holder = None, NEW u \in Users \cup {None}, NEW v \in Users,
           CreateUser(r, u, v)
    PROVE  Inv'
<1>1. PICK cs \in SUBSET Defined, role \in Assignable :
        Enter(r, u, IF cs = {} /\ role = None THEN {} ELSE {"assign"},
              [Create(v, cs \cup DefaultUserCodes) EXCEPT
                     !.members = Only(v, {role} \ {None})])
  BY DEF CreateUser
<1> DEFINE all == cs \cup DefaultUserCodes
           needs == IF cs = {} /\ role = None THEN {} ELSE {"assign"}
           ms == {role} \ {None}
<1>2. all \in SUBSET Defined /\ DefaultUserCodes \subseteq all
  BY DEF DefaultUserCodes
<1>3. needs \in SUBSET Powers
  BY DEF Powers
<1>4. ms \in SUBSET Bundles
  BY DEF Assignable, Bundles
<1> HIDE DEF all, needs, ms
<1>5. Only(v, ms) \in Partial(Users, SUBSET Bundles)
  BY <1>4, OnlyTyped
<1>6. Enter(r, u, needs, [Create(v, all) EXCEPT !.members = Only(v, ms)])
  BY <1>1 DEF all, needs, ms
<1> QED  BY <1>2, <1>3, <1>5, <1>6, OwnersApart, CreatingKeeps

\* An owner that goes, with all it carried.
LEMMA DeletingKeeps ==
    ASSUME Inv, NEW r \in Requests, holder = None,
           NEW u \in Users \cup {None}, NEW needs \in SUBSET Powers, NEW o \in Owners,
           NEW ms \in Partial(Users, SUBSET Bundles),
           Enter(r, u, needs, [Nothing EXCEPT !.codes = Only(o, {}), !.present = Only(o, FALSE),
                                              !.members = ms])
    PROVE  Inv'
<1> DEFINE given == Only(o, {})
           there == Only(o, FALSE)
           w == [Nothing EXCEPT !.codes = given, !.present = there, !.members = ms]
<1>1. given \in Partial(Owners, SUBSET Codes) /\ DOMAIN given = {o} /\ given[o] = {}
  BY OnlyTyped
<1>2. there \in Partial(Owners, BOOLEAN) /\ DOMAIN there = {o} /\ there[o] = FALSE
  BY OnlyTyped
<1>3. Enter(r, u, needs, w)
  OBVIOUS
<1> HIDE DEF given, there
<1>4. /\ w \in Writes /\ w.actions = NoRows /\ w.catalog = None
      /\ w.codes = given /\ w.present = there
  BY <1>1, <1>2, NothingTyped DEF Writes
<1> HIDE DEF w
<1> QED  BY <1>1, <1>2, <1>3, <1>4, OwnersKeep

LEMMA DeleteBundleKeeps ==
    ASSUME Inv, NEW r \in Requests, holder = None, NEW u \in Users, NEW b \in Bundles,
           DeleteBundle(r, u, b)
    PROVE  Inv'
<1> DEFINE assigned == codes[b] # {} \/ (b \in UserGroups /\ MembersOf(b) # {})
           needs == IF assigned THEN {"assign"} ELSE {}
<1>1. Placing(b, {}) \in Partial(Users, SUBSET Bundles)
  BY PlacingTyped
<1>2. needs \in SUBSET Powers
  BY DEF Powers
<1>3. Enter(r, u, needs, [Nothing EXCEPT !.codes = Only(b, {}), !.present = Only(b, FALSE),
                                         !.members = Placing(b, {})])
  BY Zenon DEF DeleteBundle
<1> HIDE DEF needs
<1> QED  BY <1>1, <1>2, <1>3, OwnersApart, DeletingKeeps

LEMMA DeleteUserKeeps ==
    ASSUME Inv, NEW r \in Requests, holder = None, NEW v \in Users, DeleteUser(r, v)
    PROVE  Inv'
<1>1. Only(v, {}) \in Partial(Users, SUBSET Bundles)
  BY OnlyTyped
<1>2. Enter(r, None, {}, [Nothing EXCEPT !.codes = Only(v, {}), !.present = Only(v, FALSE),
                                         !.members = Only(v, {})])
  BY DEF DeleteUser
<1> QED  BY <1>1, <1>2, OwnersApart, DeletingKeeps
-----------------------------------------------------------------------------
(* Transactions about action definitions.                                  *)

LEMMA WideTyped ==
    \A document, keys : Wide(document, keys) \in BOOLEAN
  BY DEF Wide

LEMMA CatalogTyped ==
    ASSUME Inv
    PROVE  /\ catalog.state \in {"absent", "disabled", "enabled"}
           /\ catalog.document \in Document
           /\ catalog.document.groups \in SUBSET PermissionGroups
           /\ Registered(catalog.document) \in SUBSET Keys
  BY DEF Inv, TypeOK, Catalog, Document, Registered

\* What an action is written as resolves in the catalog it is written under.
LEMMA DefinitionsResolve ==
    ASSUME Inv, NEW group \in catalog.document.groups,
           NEW keys \in SUBSET Registered(catalog.document)
    PROVE  /\ Definition(group, keys) \in Action
           /\ Definition(group, keys) # None
           /\ Resolves(Definition(group, keys), catalog.document)
<1> DEFINE wide == Wide(catalog.document, keys)
<1>1. wide \in BOOLEAN
  BY WideTyped
<1>2. Definition(group, keys) = [group |-> group, keys |-> keys, wide |-> wide]
  BY DEF Definition
<1> HIDE DEF wide
<1>3. Definition(group, keys) \in Action
  BY <1>1, <1>2, CatalogTyped DEF Action
<1>4. Definition(group, keys).group = group /\ Definition(group, keys).keys = keys
      /\ Definition(group, keys).wide = wide
  BY <1>2
<1>5. Resolves(Definition(group, keys), catalog.document)
  BY <1>4 DEF Resolves, wide
<1> QED  BY <1>3, <1>5, AssignmentConfig

\* Definitions that resolve may be added to or replaced, together with codes
\* that have one.
LEMMA DefiningKeeps ==
    ASSUME Inv, NEW r \in Requests, holder = None,
           NEW u \in Users, NEW needs \in SUBSET Powers,
           \A power \in needs : Authorized(u, power, snapshot),
           NEW w \in Writes, w.present = NoRows, w.catalog = None,
           \A c \in DOMAIN w.actions :
               w.actions[c] # None /\ Resolves(w.actions[c], catalog.document),
           \A o \in DOMAIN w.codes : w.codes[o] \subseteq Defined \cup DOMAIN w.actions,
           Checked(r, u, needs, w)
    PROVE  Inv'
<1>1. DOMAIN w.actions \subseteq Codes
  BY PartialElim DEF Writes
<1>2. \A c \in Codes : ActionsAfter(w)[c] =
          IF c \in DOMAIN w.actions THEN w.actions[c] ELSE actions[c]
  BY CatalogAfterTyped
<1>3. CatalogAfter(w) = catalog
  BY DEF CatalogAfter
<1>4. CodesWillResolve(w)
  <2> SUFFICES ASSUME NEW o \in Owners, NEW c \in CodesAfter(w)[o]
               PROVE  ActionsAfter(w)[c] # None
    BY DEF CodesWillResolve
  <2>1. c \in Defined \cup DOMAIN w.actions
    BY CatalogAfterTyped DEF Inv, CodesResolve
  <2> QED  BY <1>1, <1>2, <2>1 DEF Defined
<1>5. ActionsWillResolve(w)
  BY <1>2, <1>3 DEF ActionsWillResolve, Inv, ActionsResolve, Defined
<1>6. DefaultsWillBeCurrent(w)
  BY NoRowsTyped DEF DefaultsWillBeCurrent
<1> QED  BY <1>4, <1>5, <1>6, CheckedKeeps

LEMMA RegisteredResolve ==
    ASSUME Inv, NEW definition \in RegisteredDefinitions
    PROVE  /\ definition \in Action /\ definition # None
           /\ Resolves(definition, catalog.document)
<1>1. PICK group \in IF catalog.state = "enabled" THEN catalog.document.groups ELSE {},
           keys \in SUBSET Registered(catalog.document) :
          definition = Definition(group, keys)
  BY DEF RegisteredDefinitions
<1>2. group \in catalog.document.groups
  BY <1>1
<1> QED  BY <1>1, <1>2, DefinitionsResolve

LEMMA ActionRows ==
    ASSUME NEW as \in Partial(Codes, {None} \cup Action)
    PROVE  LET w == [Nothing EXCEPT !.actions = as] IN
           /\ w \in Writes /\ w.actions = as /\ w.catalog = None
           /\ w.codes = NoRows /\ w.present = NoRows
  BY NothingTyped DEF Writes

LEMMA AdministeringTyped ==
    ASSUME NEW wide \in BOOLEAN
    PROVE  Administering(wide) \in SUBSET Powers
  BY DEF Administering, Powers

LEMMA SaveActionKeeps ==
    ASSUME Inv, NEW r \in Requests, holder = None, NEW u \in Users, NEW c \in Codes,
           CreateAction(r, u, c) \/ UpdateAction(r, u, c)
    PROVE  Inv'
<1>1. PICK definition \in RegisteredDefinitions, wide \in BOOLEAN :
        Enter(r, u, Administering(wide), [Nothing EXCEPT !.actions = Only(c, definition)])
  <2>1. CASE CreateAction(r, u, c)
    <3>1. PICK definition \in RegisteredDefinitions :
              Enter(r, u, Administering(definition.wide),
                    [Nothing EXCEPT !.actions = Only(c, definition)])
      BY <2>1 DEF CreateAction
    <3>2. definition.wide \in BOOLEAN
      BY RegisteredResolve DEF Action
    <3> QED  BY <3>1, <3>2
  <2>2. CASE UpdateAction(r, u, c)
    <3>1. PICK definition \in RegisteredDefinitions :
              Enter(r, u, Administering(actions[c].wide \/ definition.wide),
                    [Nothing EXCEPT !.actions = Only(c, definition)])
      BY <2>2 DEF UpdateAction
    <3> DEFINE wide == actions[c].wide \/ definition.wide
    <3>2. wide \in BOOLEAN
      OBVIOUS
    <3>3. Enter(r, u, Administering(wide), [Nothing EXCEPT !.actions = Only(c, definition)])
      BY <3>1
    <3> HIDE DEF wide
    <3> QED  BY <3>2, <3>3
  <2> QED  BY <2>1, <2>2
<1>2. definition \in Action /\ definition # None /\ Resolves(definition, catalog.document)
  BY RegisteredResolve
<1> DEFINE w == [Nothing EXCEPT !.actions = Only(c, definition)]
<1>3. /\ Only(c, definition) \in Partial(Codes, {None} \cup Action)
      /\ DOMAIN Only(c, definition) = {c} /\ Only(c, definition)[c] = definition
  BY <1>2, OnlyTyped
<1>4. /\ w \in Writes /\ w.actions = Only(c, definition) /\ w.catalog = None
      /\ w.codes = NoRows /\ w.present = NoRows
  BY <1>3, ActionRows
<1>5. Administering(wide) \in SUBSET Powers
  BY AdministeringTyped
<1>6. Enter(r, u, Administering(wide), w)
  BY <1>1
<1> HIDE DEF w
<1>7. /\ \A power \in Administering(wide) : Authorized(u, power, snapshot)
      /\ Checked(r, u, Administering(wide), w)
  BY <1>6 DEF Enter
<1> QED  BY <1>2, <1>3, <1>4, <1>5, <1>7, NoRowsTyped, DefiningKeeps

\* The definition goes with its code, wherever that is assigned.
LEMMA DeleteActionKeeps ==
    ASSUME Inv, NEW r \in Requests, holder = None, NEW u \in Users, NEW c \in Codes,
           DeleteAction(r, u, c)
    PROVE  Inv'
<1> DEFINE O == {p \in Owners : c \in codes[p]}
           cs == [o \in O |-> codes[o] \ {c}]
           as == Only(c, None)
           w == [Nothing EXCEPT !.actions = as, !.codes = cs]
<1>1. /\ cs \in [O -> SUBSET Codes] /\ DOMAIN cs = O
      /\ \A o \in O : cs[o] = codes[o] \ {c}
  BY DEF Inv, TypeOK
<1>2. cs \in Partial(Owners, SUBSET Codes)
  <2> HIDE DEF cs
  <2> QED  BY <1>1, PartialIntro
<1>3. as \in Partial(Codes, {None} \cup Action) /\ DOMAIN as = {c} /\ as[c] = None
  BY OnlyTyped
<1>4. Enter(r, u, Administering(actions[c].wide), w) /\ actions[c] # None
  BY DEF DeleteAction
<1>5. actions[c] \in Action
  BY <1>4 DEF Inv, TypeOK
<1>6. actions[c].wide \in BOOLEAN
  BY <1>5 DEF Action
<1>7. Administering(actions[c].wide) \in SUBSET Powers
  BY <1>6, AdministeringTyped
<1> HIDE DEF cs, as
<1>8. /\ w \in Writes /\ w.actions = as /\ w.codes = cs /\ w.catalog = None
      /\ w.present = NoRows
  BY <1>2, <1>3, NothingTyped DEF Writes
<1> HIDE DEF w
<1>9. \A d \in Codes : ActionsAfter(w)[d] = IF d = c THEN None ELSE actions[d]
  BY <1>3, <1>8, CatalogAfterTyped
<1>10. CodesWillResolve(w)
  <2> SUFFICES ASSUME NEW o \in Owners, NEW d \in CodesAfter(w)[o]
               PROVE  ActionsAfter(w)[d] # None
    BY DEF CodesWillResolve
  <2>1. d \in codes[o] /\ d # c
    BY <1>1, <1>8, CatalogAfterTyped
  <2> QED  BY <1>9, <2>1 DEF Inv, CodesResolve, Defined
<1>11. ActionsWillResolve(w)
  BY <1>8, <1>9 DEF ActionsWillResolve, CatalogAfter, Inv, ActionsResolve, Defined
<1>12. DefaultsWillBeCurrent(w)
  BY <1>8, NoRowsTyped DEF DefaultsWillBeCurrent
<1> QED  BY <1>4, <1>7, <1>8, <1>10, <1>11, <1>12, EnterKeeps

\* A code that is made up for a binding gets the definition of that binding.
LEMMA ResolveAssignmentKeeps ==
    ASSUME Inv, NEW r \in Requests, holder = None, NEW u \in Users, NEW o \in Owners,
           ResolveAssignment(r, u, o)
    PROVE  Inv'
<1> DEFINE Atomic(k) == {c \in Defined : actions[c].keys = {k}}
<1>1. PICK ks \in SUBSET Registered(catalog.document) :
        LET missing == {k \in ks : Atomic(k) = {}}
        IN  \E reused \in [ks \ missing -> Defined], new \in [missing -> Codes],
               group \in [missing -> catalog.document.groups] :
            /\ \A k \in DOMAIN reused : reused[k] \in Atomic(k)
            /\ \A k \in missing : new[k] \notin Defined
            /\ \A k, l \in missing : new[k] = new[l] => k = l
            /\ Checked(r, u, {"assign"},
                 [Nothing EXCEPT
                    !.codes = Only(o, {reused[k] : k \in DOMAIN reused}
                                          \cup {new[k] : k \in missing}),
                    !.actions = [c \in {new[k] : k \in missing} |->
                        LET k == CHOOSE l \in missing : new[l] = c
                        IN  Definition(group[k], {k})]])
  BY DEF ResolveAssignment
<1> DEFINE missing == {k \in ks : Atomic(k) = {}}
<1>2. PICK reused \in [ks \ missing -> Defined], new \in [missing -> Codes],
           group \in [missing -> catalog.document.groups] :
            /\ \A k \in DOMAIN reused : reused[k] \in Atomic(k)
            /\ \A k \in missing : new[k] \notin Defined
            /\ \A k, l \in missing : new[k] = new[l] => k = l
            /\ Checked(r, u, {"assign"},
                 [Nothing EXCEPT
                    !.codes = Only(o, {reused[k] : k \in DOMAIN reused}
                                          \cup {new[k] : k \in missing}),
                    !.actions = [c \in {new[k] : k \in missing} |->
                        LET k == CHOOSE l \in missing : new[l] = c
                        IN  Definition(group[k], {k})]])
  BY <1>1, Zenon
<1>3. missing \in SUBSET Registered(catalog.document)
  OBVIOUS
<1> HIDE DEF missing
<1> DEFINE made == {new[k] : k \in missing}
           given == {reused[k] : k \in DOMAIN reused} \cup made
           Whose(c) == CHOOSE l \in missing : new[l] = c
           as == [c \in made |-> Definition(group[Whose(c)], {Whose(c)})]
           cs == Only(o, given)
           w == [Nothing EXCEPT !.codes = cs, !.actions = as]
<1>4. Checked(r, u, {"assign"}, w)
  BY <1>2
<1>5. made \in SUBSET Codes /\ given \in SUBSET Codes /\ given \subseteq Defined \cup made
  BY DEF Defined
<1>6. \A c \in made : /\ Definition(group[Whose(c)], {Whose(c)}) \in Action
                      /\ Definition(group[Whose(c)], {Whose(c)}) # None
                      /\ Resolves(Definition(group[Whose(c)], {Whose(c)}), catalog.document)
  <2> SUFFICES ASSUME NEW c \in made
               PROVE  /\ Definition(group[Whose(c)], {Whose(c)}) \in Action
                      /\ Definition(group[Whose(c)], {Whose(c)}) # None
                      /\ Resolves(Definition(group[Whose(c)], {Whose(c)}), catalog.document)
    OBVIOUS
  <2>1. Whose(c) \in missing
    OBVIOUS
  <2>2. {Whose(c)} \in SUBSET Registered(catalog.document)
        /\ group[Whose(c)] \in catalog.document.groups
    BY <1>3, <2>1
  <2> HIDE DEF Whose
  <2> QED  BY <2>2, DefinitionsResolve
<1> HIDE DEF Whose
<1>7. as \in [made -> {None} \cup Action] /\ DOMAIN as = made
      /\ \A c \in made : as[c] # None /\ Resolves(as[c], catalog.document)
  BY <1>6
<1> HIDE DEF as, made
<1>8. as \in Partial(Codes, {None} \cup Action)
  BY <1>5, <1>7, PartialIntro
<1> HIDE DEF given
<1>9. cs \in Partial(Owners, SUBSET Codes) /\ DOMAIN cs = {o} /\ cs[o] = given
  BY <1>5, OnlyCodes
<1> HIDE DEF cs
<1>10. /\ w \in Writes /\ w.actions = as /\ w.codes = cs /\ w.catalog = None
       /\ w.present = NoRows
  BY <1>8, <1>9, NothingTyped DEF Writes
<1> HIDE DEF w
<1>11. /\ \A power \in {"assign"} : Authorized(u, power, snapshot)
       /\ {"assign"} \in SUBSET Powers
  BY DEF ResolveAssignment, Powers
<1> QED  BY <1>4, <1>5, <1>7, <1>9, <1>10, <1>11, DefiningKeeps
-----------------------------------------------------------------------------
(* Transactions about the catalog.                                         *)

LEMMA RenamesTyped ==
    ASSUME NEW before, NEW after, NEW renames \in Renames(before, after)
    PROVE  /\ DOMAIN renames \subseteq before \ after
           /\ \A x \in DOMAIN renames : renames[x] \in after
  BY PartialElim DEF Renames

\* A definition moves with the document it is reconciled with.
LEMMA MigratedResolves ==
    ASSUME Inv, NEW document \in Document, NEW c \in Defined,
           NEW renames \in Renames(Registered(catalog.document), Registered(document)),
           NEW moves \in Renames(catalog.document.groups, document.groups),
           ReconcileResourcePermissions(document, renames),
           ReconcilePermissionGroups(document, moves)
    PROVE  /\ Migrated(c, document, renames, moves) \in Action
           /\ Resolves(actions[c], catalog.document) =>
                  Resolves(Migrated(c, document, renames, moves), document)
<1> DEFINE old == actions[c]
           same == SameResources(document, renames)
           keys == {Renamed(renames, k) : k \in old.keys}
           group == Renamed(moves, old.group)
           wide == IF same THEN old.wide ELSE Wide(document, keys)
           new == Migrated(c, document, renames, moves)
<1>1. old \in Action /\ old.group \in PermissionGroups /\ old.keys \in SUBSET Keys
      /\ old.wide \in BOOLEAN
  BY DEF Defined, Inv, TypeOK, Action
<1>2. document.groups \in SUBSET PermissionGroups /\ Registered(document) \in SUBSET Keys
  BY DEF Document, Registered
<1>3. /\ DOMAIN renames \subseteq Registered(catalog.document) \ Registered(document)
      /\ \A k \in DOMAIN renames : renames[k] \in Registered(document)
  BY RenamesTyped
<1>4. /\ DOMAIN moves \subseteq catalog.document.groups \ document.groups
      /\ \A g \in DOMAIN moves : moves[g] \in document.groups
  BY RenamesTyped
<1>5. new = [group |-> group, keys |-> keys, wide |-> wide]
  BY DEF Migrated
<1>6. group \in PermissionGroups
  BY <1>1, <1>2, <1>4 DEF Renamed
<1>7. keys \in SUBSET Keys
  BY <1>1, <1>2, <1>3 DEF Renamed
<1>8. wide \in BOOLEAN
  BY <1>1, WideTyped
<1>9. new \in Action
  <2> HIDE DEF group, keys, wide, new
  <2> QED  BY <1>5, <1>6, <1>7, <1>8 DEF Action
<1>10. new.group = group /\ new.keys = keys /\ new.wide = wide
  <2> HIDE DEF group, keys, wide, new
  <2> QED  BY <1>5
<1>11. ASSUME Resolves(old, catalog.document)
       PROVE  Resolves(new, document)
  <2>1. /\ old.group \in catalog.document.groups
        /\ old.keys \subseteq Registered(catalog.document)
        /\ old.wide = Wide(catalog.document, old.keys)
    BY <1>11 DEF Resolves
  <2>2. group \in document.groups
    <3>1. CASE old.group \in DOMAIN moves
      BY <1>4, <3>1 DEF Renamed
    <3>2. CASE old.group \notin DOMAIN moves
      BY <2>1, <3>2 DEF ReconcilePermissionGroups, Renamed
    <3> QED  BY <3>1, <3>2
  <2>3. CASE same
    <3>1. DOMAIN renames = {} /\ document.resources = catalog.document.resources
      BY <2>3 DEF SameResources
    <3>2. keys = old.keys
      BY <3>1 DEF Renamed
    <3>3. Registered(document) = Registered(catalog.document)
      BY <3>1 DEF Registered
    <3>4. Wide(document, keys) <=> Wide(catalog.document, old.keys)
      BY <3>1, <3>2 DEF Wide
    <3>5. new.wide = Wide(document, new.keys)
      <4>1. new.wide = old.wide /\ new.keys = keys
        BY <1>10, <2>3
      <4> HIDE DEF new, keys, old
      <4> QED  BY <2>1, <3>4, <4>1, WideTyped
    <3>6. new.group \in document.groups /\ new.keys \subseteq Registered(document)
      BY <1>10, <2>1, <2>2, <3>2, <3>3
    <3> HIDE DEF new
    <3> QED  BY <3>5, <3>6 DEF Resolves
  <2>4. CASE ~same
    <3>1. keys \subseteq Registered(document)
      BY <2>4 DEF ReconcileResourcePermissions
    <3>2. new.wide = Wide(document, new.keys)
      BY <1>10, <2>4
    <3>3. new.group \in document.groups /\ new.keys \subseteq Registered(document)
      BY <1>10, <2>2, <3>1
    <3> HIDE DEF new
    <3> QED  BY <3>2, <3>3 DEF Resolves
  <2> QED  BY <2>3, <2>4
<1> QED  BY <1>9, <1>11

LEMMA UpdateCatalogKeeps ==
    ASSUME Inv, NEW r \in Requests, holder = None, NEW u \in Users,
           NEW power \in {"define", "publish"}, NEW document \in Documents,
           UpdateCatalog(r, u, power, document)
    PROVE  Inv'
<1>1. PICK renames \in Renames(Registered(catalog.document), Registered(document)),
           moves \in Renames(catalog.document.groups, document.groups) :
        /\ ReconcileResourcePermissions(document, renames)
        /\ ReconcilePermissionGroups(document, moves)
        /\ Checked(r, u, {power},
                   [Nothing EXCEPT
                      !.catalog = [catalog EXCEPT !.document = document],
                      !.actions = [c \in Defined |->
                                      Migrated(c, document, renames, moves)]])
  BY DEF UpdateCatalog
<1> DEFINE row == [catalog EXCEPT !.document = document]
           as == [c \in Defined |-> Migrated(c, document, renames, moves)]
           w == [Nothing EXCEPT !.catalog = row, !.actions = as]
<1>2. document \in Document
  BY AssignmentConfig
<1>3. row \in Catalog /\ row.document = document /\ row.state = catalog.state /\ row # None
  BY <1>2, AssignmentConfig DEF Inv, TypeOK, Catalog
<1>4. /\ as \in [Defined -> {None} \cup Action] /\ DOMAIN as = Defined
      /\ \A c \in Defined :
             as[c] \in Action
             /\ (Resolves(actions[c], catalog.document) => Resolves(as[c], document))
  BY <1>1, <1>2, MigratedResolves
<1>5. as \in Partial(Codes, {None} \cup Action)
  <2>1. Defined \in SUBSET Codes
    BY DEF Defined
  <2> HIDE DEF as
  <2> QED  BY <1>4, <2>1, PartialIntro
<1>6. Checked(r, u, {power}, w)
  BY <1>1
<1> HIDE DEF as, row
<1>7. /\ w \in Writes /\ w.actions = as /\ w.codes = NoRows /\ w.catalog = row
      /\ w.present = NoRows
  BY <1>3, <1>5, NothingTyped DEF Writes
<1> HIDE DEF w
<1>8. \A c \in Codes : ActionsAfter(w)[c] = IF c \in Defined THEN as[c] ELSE None
  BY <1>4, <1>7, CatalogAfterTyped DEF Defined
<1>9. \A o \in Owners : CodesAfter(w)[o] = codes[o]
  BY <1>7, CatalogAfterTyped, NoRowsTyped
<1>10. CodesWillResolve(w)
  <2> SUFFICES ASSUME NEW o \in Owners, NEW c \in CodesAfter(w)[o]
               PROVE  ActionsAfter(w)[c] # None
    BY DEF CodesWillResolve
  <2>1. c \in Defined
    BY <1>9 DEF Inv, CodesResolve
  <2>2. as[c] \in Action
    BY <1>4, <2>1
  <2> QED  BY <1>8, <2>1, <2>2, AssignmentConfig DEF Defined
<1>11. ActionsWillResolve(w)
  BY <1>3, <1>4, <1>7, <1>8 DEF ActionsWillResolve, CatalogAfter, Inv, ActionsResolve, Defined
<1>12. DefaultsWillBeCurrent(w)
  BY <1>7, NoRowsTyped DEF DefaultsWillBeCurrent
<1>13. (\A p \in {power} : Authorized(u, p, snapshot)) /\ {power} \in SUBSET Powers
  BY DEF UpdateCatalog, Powers
<1> QED  BY <1>6, <1>7, <1>10, <1>11, <1>12, <1>13, CheckedKeeps

\* Any change of the row that keeps the document, or takes it away, or comes when
\* there has been none.
LEMMA CatalogRowKeeps ==
    ASSUME Inv, NEW r \in Requests, holder = None, NEW u \in Users,
           NEW row \in Catalog,
           \/ row.state = "absent"
           \/ row.document = catalog.document
           \/ catalog.state = "absent",
           Enter(r, u, {"publish"}, [Nothing EXCEPT !.catalog = row])
    PROVE  Inv'
<1> DEFINE w == [Nothing EXCEPT !.catalog = row]
<1>1. /\ w \in Writes /\ w.actions = NoRows /\ w.codes = NoRows /\ w.catalog = row
      /\ w.present = NoRows
  BY NothingTyped DEF Writes
<1>2. Enter(r, u, {"publish"}, w)
  OBVIOUS
<1> HIDE DEF w
<1>3. /\ \A c \in Codes : ActionsAfter(w)[c] = actions[c]
      /\ \A o \in Owners : CodesAfter(w)[o] = codes[o]
      /\ CatalogAfter(w) = row
  <2>1. DOMAIN w.actions = {} /\ DOMAIN w.codes = {}
    BY <1>1, NoRowsTyped
  <2>2. /\ \A c \in Codes : ActionsAfter(w)[c] =
               IF c \in DOMAIN w.actions THEN w.actions[c] ELSE actions[c]
        /\ \A o \in Owners : CodesAfter(w)[o] =
               IF o \in DOMAIN w.codes THEN w.codes[o] ELSE codes[o]
    BY <1>1, CatalogAfterTyped
  <2>3. row # None
    BY AssignmentConfig
  <2> QED  BY <1>1, <2>1, <2>2, <2>3 DEF CatalogAfter
<1>4. CodesWillResolve(w)
  BY <1>3 DEF CodesWillResolve, Inv, TypeOK, CodesResolve, Defined
<1>5. ActionsWillResolve(w)
  BY <1>3 DEF ActionsWillResolve, Inv, ActionsResolve, Defined
<1>6. DefaultsWillBeCurrent(w)
  BY <1>1, NoRowsTyped DEF DefaultsWillBeCurrent
<1> QED  BY <1>1, <1>2, <1>4, <1>5, <1>6, EnterKeeps DEF Powers

LEMMA CatalogKeeps ==
    ASSUME Inv, NEW r \in Requests, holder = None, NEW u \in Users, CatalogNext(r, u)
    PROVE  Inv'
<1>1. CASE EnableCatalog(r, u)
  <2> DEFINE row == [catalog EXCEPT !.state = IF @ = "enabled" THEN "disabled" ELSE "enabled"]
  <2>1. row \in Catalog /\ row.document = catalog.document
    BY DEF Inv, TypeOK, Catalog
  <2>2. Enter(r, u, {"publish"}, [Nothing EXCEPT !.catalog = row])
    BY <1>1 DEF EnableCatalog
  <2> HIDE DEF row
  <2> QED  BY <2>1, <2>2, CatalogRowKeeps
<1>2. CASE DeleteCatalog(r, u)
  <2> DEFINE row == [catalog EXCEPT !.state = "absent"]
  <2>1. row \in Catalog /\ row.state = "absent"
    BY DEF Inv, TypeOK, Catalog
  <2>2. Enter(r, u, {"publish"}, [Nothing EXCEPT !.catalog = row])
    BY <1>2 DEF DeleteCatalog
  <2> HIDE DEF row
  <2> QED  BY <2>1, <2>2, CatalogRowKeeps
<1>3. ASSUME NEW document \in Documents, CreateCatalog(r, u, document)
      PROVE  Inv'
  <2> DEFINE row == [state |-> "enabled", document |-> document]
  <2>1. row \in Catalog
    BY AssignmentConfig DEF Catalog
  <2>2. Enter(r, u, {"publish"}, [Nothing EXCEPT !.catalog = row]) /\ catalog.state = "absent"
    BY <1>3 DEF CreateCatalog
  <2> HIDE DEF row
  <2> QED  BY <2>1, <2>2, CatalogRowKeeps
<1> QED  BY <1>1, <1>2, <1>3, UpdateCatalogKeeps DEF CatalogNext
-----------------------------------------------------------------------------
(* All steps.                                                              *)

LEMMA InitEstablishes == Init => Inv
<1> SUFFICES ASSUME Init PROVE Inv
  OBVIOUS
<1>1. FirstDocument \in Document
  BY AssignmentConfig
<1>2. catalog \in Catalog /\ catalog.state = "enabled" /\ catalog.document = FirstDocument
  BY <1>1 DEF Init, Catalog
<1>3. req \in [Requests -> Request] /\ \A r \in Requests : req[r].pc = "idle"
  BY IdleTyped DEF Init
<1>4. TypeOK
  BY <1>1, <1>2, <1>3, AssignmentConfig DEF Init, TypeOK
<1>5. PendingOK /\ GrantsStand
  BY <1>3 DEF PendingOK, GrantsStand
<1>6. CodesResolve /\ ActionsResolve
  BY <1>2, AssignmentConfig DEF Init, CodesResolve, ActionsResolve, Resolves, Defined
<1> QED  BY <1>2, <1>4, <1>5, <1>6 DEF Inv

LEMMA MutationKeeps ==
    ASSUME Inv, NEW r \in Requests, Mutation(r)
    PROVE  Inv'
<1>1. holder = None
  BY DEF Mutation, LockPermissionMutation
<1>2. ASSUME NEW u \in Users, OwnerNext(r, u)
      PROVE  Inv'
  BY <1>1, <1>2, AssignCodesKeeps, ResolveAssignmentKeeps, ChooseRoleKeeps, CreateUserKeeps,
     GroupMembersKeep, CreateBundleKeeps, DeleteBundleKeeps
  DEF OwnerNext
<1>3. ASSUME NEW u \in Users, ActionNext(r, u)
      PROVE  Inv'
  BY <1>1, <1>3, SaveActionKeeps, DeleteActionKeeps DEF ActionNext
<1>4. ASSUME NEW u \in Users, CatalogNext(r, u)
      PROVE  Inv'
  BY <1>1, <1>4, CatalogKeeps
<1>5. ASSUME NEW v \in Users, CreateUser(r, None, v) \/ DeleteUser(r, v)
      PROVE  Inv'
  BY <1>1, <1>5, CreateUserKeeps, DeleteUserKeeps
<1> QED  BY <1>2, <1>3, <1>4, <1>5 DEF Mutation

LEMMA NextKeeps == Inv /\ [Next]_vars => Inv'
<1> SUFFICES ASSUME Inv, [Next]_vars PROVE Inv'
  OBVIOUS
<1>1. CASE UNCHANGED vars
  <2>1. UNCHANGED <<actions, codes, members, present, catalog, snapshot, req, holder, unbroken>>
    BY <1>1 DEF vars
  <2>2. TypeOK' /\ PendingOK' /\ GrantsStand'
    BY <2>1, AuthorizedStays, PendingStays DEF Inv, TypeOK, PendingOK, GrantsStand
  <2> QED  BY <2>1, <2>2 DEF Inv, CodesResolve, ActionsResolve, Defined
<1> QED  BY <1>1, MutationKeeps, UnlockedKeeps, CommitKeeps, RollbackKeeps DEF Next

\* What the holder of the permission-mutation lock has read and is about to write
\* agrees with the tables, whatever does not take the lock does meanwhile.
THEOREM InvariantHolds == Spec => []Inv
<1>1. Init => Inv
  BY InitEstablishes
<1>2. Inv /\ [Next]_vars => Inv'
  BY NextKeeps
<1> QED  BY <1>1, <1>2, PTL DEF Spec

\* Every variable keeps its type, and who holds the lock is inside a transaction.
THEOREM TypeCorrect == Spec => []TypeOK
<1>1. Inv => TypeOK
  BY DEF Inv
<1> QED  BY <1>1, InvariantHolds, PTL

\* Every code that is assigned is one of an action that exists.
THEOREM CodesAlwaysResolve == Spec => []CodesResolve
<1>1. Inv => CodesResolve
  BY DEF Inv
<1> QED  BY <1>1, InvariantHolds, PTL

\* As long as the catalog has not been deleted, every definition has its
\* resources and its group in it.
THEOREM ActionsAlwaysResolve == Spec => []ActionsResolve
<1>1. Inv => ActionsResolve
  BY DEF Inv
<1> QED  BY <1>1, InvariantHolds, PTL

\* A transaction commits under the grants it was checked against.
THEOREM GrantsAlwaysStand == Spec => []GrantsStand
<1>1. Inv => GrantsStand
  BY DEF Inv
<1> QED  BY <1>1, InvariantHolds, PTL

\* Before its commit a transaction changes no table.
LEMMA MutationsOnlyRead ==
    ASSUME NEW r \in Requests, Mutation(r)
    PROVE  present' = present
<1>1. \A u, needs, w : Checked(r, u, needs, w) => present' = present
  BY DEF Checked, tables
<1>2. \A u, needs, w : Enter(r, u, needs, w) => present' = present
  BY <1>1 DEF Enter
<1>3. ASSUME NEW u, NEW o, AssignCodes(r, u, o) \/ ResolveAssignment(r, u, o)
      PROVE  present' = present
  BY <1>1, <1>2, <1>3, Zenon DEF AssignCodes, ResolveAssignment
<1>4. ASSUME NEW u, NEW v, ChooseRole(r, u, v) \/ CreateUser(r, u, v) \/ DeleteUser(r, v)
      PROVE  present' = present
  BY <1>2, <1>4, Zenon DEF ChooseRole, CreateUser, DeleteUser
<1>5. ASSUME NEW u, NEW b, \/ ReplaceUsers(r, u, b) \/ ChangeMembers(r, u, b)
                           \/ CreateBundle(r, u, b) \/ DeleteBundle(r, u, b)
      PROVE  present' = present
  BY <1>2, <1>5, Zenon DEF ReplaceUsers, ChangeMembers, CreateBundle, DeleteBundle
<1>6. ASSUME NEW u, NEW c, CreateAction(r, u, c) \/ UpdateAction(r, u, c) \/ DeleteAction(r, u, c)
      PROVE  present' = present
  BY <1>2, <1>6, Zenon DEF CreateAction, UpdateAction, DeleteAction
<1>7. ASSUME NEW u, NEW power, NEW document, UpdateCatalog(r, u, power, document)
      PROVE  present' = present
  BY <1>1, <1>7, Zenon DEF UpdateCatalog
<1>8. ASSUME NEW u, NEW document,
             EnableCatalog(r, u) \/ DeleteCatalog(r, u) \/ CreateCatalog(r, u, document)
      PROVE  present' = present
  BY <1>2, <1>8, Zenon DEF EnableCatalog, DeleteCatalog, CreateCatalog
<1> QED  BY <1>3, <1>4, <1>5, <1>6, <1>7, <1>8
         DEF Mutation, OwnerNext, ActionNext, CatalogNext

\* Nothing but a commit makes a user appear.
LEMMA UsersAppear ==
    ASSUME Inv, [Next]_vars, NEW v \in Users, v \in present' \ present
    PROVE  \E r \in Requests : Commit(r) /\ v \in DOMAIN req[r].writes.present
                                         /\ req[r].writes.present[v]
<1>1. CASE UNCHANGED vars
  BY <1>1 DEF vars
<1>2. ASSUME NEW r \in Requests, Mutation(r)
      PROVE  present' = present
  BY <1>2, MutationsOnlyRead
<1>3. ASSUME NEW r \in Requests, NEW b \in Bundles, CreateEmptyBundle(r, b)
      PROVE  FALSE
  BY <1>3, OwnersApart DEF CreateEmptyBundle
<1>4. CASE RefreshLocalization \/ \E r \in Requests : OpenEditor(r) \/ Rollback(r)
  BY <1>4 DEF RefreshLocalization, OpenEditor, Rollback, tables
<1>5. ASSUME NEW r \in Requests, Commit(r)
      PROVE  v \in DOMAIN req[r].writes.present /\ req[r].writes.present[v]
  BY <1>5 DEF Commit
<1> QED  BY <1>1, <1>2, <1>3, <1>4, <1>5 DEF Next

\* An account appears with every code that is in a default group at that moment.
THEOREM DefaultsAlwaysCurrent == Spec => DefaultsAreCurrent
<1>1. ASSUME Inv, [Next]_vars, NEW v \in Users, v \in present' \ present
      PROVE  DefaultUserCodes \subseteq codes'[v]
  <2>1. PICK r \in Requests : Commit(r) /\ v \in DOMAIN req[r].writes.present
                                        /\ req[r].writes.present[v]
    BY <1>1, UsersAppear
  <2>2. DefaultsWillBeCurrent(req[r].writes)
    BY <1>1, <2>1 DEF Commit, Finish, Inv, PendingOK
  <2>3. codes' = CodesAfter(req[r].writes)
    BY <2>1 DEF Commit, CodesAfter
  <2> QED  BY <2>1, <2>2, <2>3 DEF DefaultsWillBeCurrent
<1>2. Inv /\ [Next]_vars =>
          [\A v \in Users : v \in present' \ present => DefaultUserCodes \subseteq codes'[v]]_vars
  BY <1>1
<1> QED  BY <1>2, InvariantHolds, PTL DEF Spec, DefaultsAreCurrent
=============================================================================
