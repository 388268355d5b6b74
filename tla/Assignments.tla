---------------------------- MODULE Assignments ----------------------------
(***************************************************************************)
(* Permission assignments: action definitions, the codes of them that      *)
(* users, roles and user groups carry, and the catalog that gives them     *)
(* their meaning.                                                          *)
(*                                                                         *)
(* A request is one transaction.  It takes the permission-mutation lock,   *)
(* checks its actor's grants and reads what it needs in one step, and      *)
(* writes and releases in another: in between, only what does not take the *)
(* lock can happen.  Grants are interpreted with the process's copy of the *)
(* catalog, which a refresh brings up to date some time after a commit.    *)
(***************************************************************************)
EXTENDS Naturals, FiniteSets

CONSTANTS
    Users,
    Roles,
    UserGroups,
    Codes,              \* action codes: a bound on the actions there are at once
    Keys,               \* bindings: a resource, an operation and its features
    PermissionGroups,   \* the groups actions are filed under
    Concerns,           \* Concerns[k]: the powers the operation of k is about
    Documents,          \* the catalog documents an editor may submit
    FirstDocument,      \* the catalog the migrations install
    FirstActions,       \* and the actions, users, roles, groups and their
    FirstCodes,         \* codes
    FirstPresent,
    Requests,           \* the requests ever made
    None                \* no action, actor, role, document or request

Bundles == Roles \cup UserGroups
Owners == Users \cup Bundles

\* assign: the CRUD endpoints of users, roles and user groups; define: those of
\* actions; publish: the developer's catalog publication.
Powers == {"assign", "define", "publish"}

\* resources[k] is None when the catalog has no such binding; otherwise it says
\* which of the powers the endpoints and features behind it amount to.
Document == [resources : [Keys -> {None} \cup SUBSET Powers],
             groups : SUBSET PermissionGroups,
             defaults : SUBSET PermissionGroups]

\* The snapshot when there is no enabled catalog.
Bare == [resources |-> [k \in Keys |-> None], groups |-> {}, defaults |-> {}]

Registered(document) == {k \in Keys : document.resources[k] # None}

\* A wildcard binding: the resource's permission scope is "*".
Wide(document, keys) == \E k \in keys : document.resources[k] = Powers

\* wide is the permission scope stored with the row.
Action == [group : PermissionGroups, keys : SUBSET Keys, wide : BOOLEAN]

Catalog == [state : {"absent", "disabled", "enabled"}, document : Document]

Partial(S, T) == UNION {[D -> T] : D \in SUBSET S}

\* What a transaction writes, row by row.
Writes == [actions : Partial(Codes, {None} \cup Action),
           codes : Partial(Owners, SUBSET Codes),
           members : Partial(Users, SUBSET Bundles),
           present : Partial(Owners, BOOLEAN),
           catalog : {None} \cup Catalog]

ASSUME AssignmentConfig ==
    /\ IsFiniteSet(Codes)
    /\ Users \cap Roles = {} /\ Users \cap UserGroups = {}
    /\ Roles \cap UserGroups = {}
    /\ None \notin Codes \cup Users \cup Bundles \cup Keys \cup Requests
    /\ \A S \in SUBSET Powers : S # None
    /\ None \notin Action /\ None \notin Catalog
    /\ None \notin Document
    /\ Concerns \in [Keys -> SUBSET Powers]
    /\ Documents \subseteq Document /\ FirstDocument \in Documents
    /\ \A d \in Documents : d.defaults \subseteq d.groups
    /\ FirstActions \in [Codes -> {None} \cup Action]
    /\ FirstPresent \subseteq Owners
    /\ FirstCodes \in [Owners -> SUBSET Codes]
    /\ \A o \in Owners : o \notin FirstPresent => FirstCodes[o] = {}
    /\ \A o \in Owners : \A c \in FirstCodes[o] : FirstActions[c] # None
    /\ \A c \in Codes : FirstActions[c] # None =>
        /\ FirstActions[c].group \in FirstDocument.groups
        /\ FirstActions[c].keys \subseteq Registered(FirstDocument)
        /\ FirstActions[c].wide = Wide(FirstDocument, FirstActions[c].keys)

VARIABLES
    actions,        \* actions[c]: the row of t_action with code c
    codes,          \* codes[o]: the action column of owner o
    members,        \* members[u]: the role and the user groups of user u
    present,        \* the users, roles and user groups that exist
    catalog,        \* the I18N_CATALOG row of t_dictionary
    snapshot,       \* the catalog as the process last loaded it
    req,            \* req[r]: what request r has read and is about to write
    holder,         \* the request that holds the permission-mutation lock
    unbroken        \* history: the catalog row has never been missing

vars == <<actions, codes, members, present, catalog, snapshot, req, holder,
          unbroken>>
tables == <<actions, codes, members, present, catalog, unbroken>>

Request == [pc : {"idle", "editing", "checked", "done"},
            actor : Users \cup {None}, needs : SUBSET Powers, view : Document,
            expected : {None} \cup Document, writes : Writes]

TypeOK ==
    /\ actions \in [Codes -> {None} \cup Action]
    /\ codes \in [Owners -> SUBSET Codes]
    /\ members \in [Users -> SUBSET Bundles]
    /\ present \subseteq Owners
    /\ catalog \in Catalog
    /\ snapshot \in Document
    /\ req \in [Requests -> Request]
    /\ holder \in Requests \cup {None}
    /\ unbroken \in BOOLEAN
    /\ holder # None => req[holder].pc = "checked"

NoRows == [x \in {} |-> x]

Nothing == [actions |-> NoRows, codes |-> NoRows, members |-> NoRows,
            present |-> NoRows, catalog |-> None]

Idle == [pc |-> "idle", actor |-> None, needs |-> {}, view |-> Bare,
         expected |-> None, writes |-> Nothing]

Init ==
    /\ actions = FirstActions
    /\ codes = FirstCodes
    /\ members = [u \in Users |-> {}]
    /\ present = FirstPresent
    /\ catalog = [state |-> "enabled", document |-> FirstDocument]
    /\ snapshot = FirstDocument
    /\ req = [r \in Requests |-> Idle]
    /\ holder = None
    /\ unbroken = TRUE

-----------------------------------------------------------------------------
(* Grants.                                                                 *)

Defined == {c \in Codes : actions[c] # None}

\* Direct codes, those of the role and those of the user groups.
Holdings(u) == codes[u] \cup UNION {codes[b] : b \in members[u]}

Bound(u) == UNION {actions[c].keys : c \in Holdings(u) \cap Defined}

\* A check of one endpoint expands the bindings of its operation; publication
\* is a feature, and finding it expands every binding.  One that the view does
\* not have fails the whole check.
Authorized(u, power, view) ==
    LET expanded == {k \in Bound(u) : power = "publish" \/ power \in Concerns[k]}
    IN  /\ expanded \subseteq Registered(view)
        /\ \E k \in expanded : power \in view.resources[k]

\* The codes that every new account gets.
DefaultUserCodes ==
    {c \in Defined : /\ catalog.state = "enabled"
                     /\ actions[c].group \in catalog.document.defaults}

-----------------------------------------------------------------------------
(* A transaction: the lock, the checks and the reads; then the writes.     *)

\* Mutant: the lock is not taken.
LockIgnored == TRUE

\* A second transaction waits for the first to end.
LockPermissionMutation == holder = None

Checked(r, u, needs, writes) ==
    /\ holder' = r
    /\ req' = [req EXCEPT ![r] =
            [@ EXCEPT !.pc = "checked", !.actor = u, !.needs = needs,
                      !.view = IF needs = {} THEN Bare ELSE snapshot,
                      !.writes = writes]]
    /\ UNCHANGED <<tables, snapshot>>

Enter(r, u, needs, writes) ==
    /\ req[r].pc = "idle"
    /\ needs # {} => u \in Users
    /\ \A power \in needs : Authorized(u, power, snapshot)
    /\ Checked(r, u, needs, writes)

Overlay(f, g) == [x \in DOMAIN g |-> IF x \in DOMAIN f THEN f[x] ELSE g[x]]

\* Mutant: the lock outlives the transaction, as a session's would.
FinishHolding(r) ==
    /\ req[r].pc = "checked"
    /\ req' = [req EXCEPT ![r] = [Idle EXCEPT !.pc = "done"]]
    /\ UNCHANGED holder

Finish(r) ==
    /\ req[r].pc = "checked"
    /\ req' = [req EXCEPT ![r] = [Idle EXCEPT !.pc = "done"]]
    /\ holder' = IF holder = r THEN None ELSE holder

Commit(r) ==
    LET w == req[r].writes
    IN  /\ Finish(r)
        /\ actions' = Overlay(w.actions, actions)
        /\ codes' = Overlay(w.codes, codes)
        /\ members' = Overlay(w.members, members)
        /\ present' = (present \ DOMAIN w.present)
                          \cup {o \in DOMAIN w.present : w.present[o]}
        /\ catalog' = IF w.catalog = None THEN catalog ELSE w.catalog
        /\ unbroken' = (unbroken /\ catalog'.state # "absent")
        /\ UNCHANGED snapshot

\* A statement fails, or the process does: nothing is written.
Rollback(r) == Finish(r) /\ UNCHANGED <<tables, snapshot>>

-----------------------------------------------------------------------------
(* Owners: users, roles and user groups.                                   *)

Only(x, v) == [y \in {x} |-> v]

\* A role or group with these codes and members, or an owner that loses both.
Create(o, cs) == [Nothing EXCEPT !.codes = Only(o, cs), !.present = Only(o, TRUE)]

Placing(b, us) ==
    [u \in {v \in Users : (v \in us) # (b \in members[v])} |->
        IF u \in us THEN members[u] \cup {b} ELSE members[u] \ {b}]

\* Codes are given: each of them must be defined.
AssignCodes(r, u, o) ==
    /\ o \in present
    /\ \E cs \in SUBSET Defined :
        Enter(r, u, {"assign"}, [Nothing EXCEPT !.codes = Only(o, cs)])

\* No role, or one that exists.
Assignable == {None} \cup (Roles \cap present)

ChooseRole(r, u, v) ==
    /\ v \in present
    /\ \E role \in Assignable :
        Enter(r, u, {"assign"},
              [Nothing EXCEPT !.members =
                  Only(v, (members[v] \ Roles) \cup ({role} \ {None}))])

ReplaceUsers(r, u, g) ==
    /\ g \in present
    /\ \E us \in SUBSET (Users \cap present) :
        Enter(r, u, {"assign"}, [Nothing EXCEPT !.members = Placing(g, us)])

MembersOf(g) == {v \in Users : g \in members[v]}

\* Users to add, who must exist, and users to take out, who need not be in:
\* whoever else has become a member stays one.
ChangeMembers(r, u, g) ==
    /\ g \in present
    /\ \E added \in SUBSET (Users \cap present), removed \in SUBSET Users :
        /\ added \cap removed = {}
        /\ Enter(r, u, {"assign"},
                 [Nothing EXCEPT !.members =
                     Placing(g, (MembersOf(g) \ removed) \cup added)])

\* Without codes and members nothing is checked, and the lock is not taken.
CreateBundle(r, u, b) ==
    /\ b \notin present
    /\ \E cs \in SUBSET Defined, us \in SUBSET (Users \cap present) :
        /\ us = {} \/ b \in UserGroups
        /\ cs # {} \/ us # {}
        /\ Enter(r, u, {"assign"},
                 [Create(b, cs) EXCEPT !.members = Placing(b, us)])

CreateEmptyBundle(r, b) ==
    /\ req[r].pc = "idle"
    /\ b \notin present
    /\ present' = present \cup {b}
    /\ req' = [req EXCEPT ![r] = [Idle EXCEPT !.pc = "done"]]
    /\ UNCHANGED <<actions, codes, members, catalog, snapshot, holder, unbroken>>

\* The lock is taken in any case; a grant is needed when there is something to
\* take away.  Members are detached, or lose their membership with the row.
DeleteBundle(r, u, b) ==
    LET assigned == \/ codes[b] # {}
                    \/ b \in UserGroups /\ MembersOf(b) # {}
    IN  /\ b \in present
        /\ Enter(r, u, IF assigned THEN {"assign"} ELSE {},
                 [Nothing EXCEPT !.codes = Only(b, {}), !.present = Only(b, FALSE),
                                 !.members = Placing(b, {})])

\* Mutant: the default groups are taken from the process's copy of the catalog.
CreateUserFromCopy(r, u, v) ==
    /\ v \notin present
    /\ \E cs \in SUBSET Defined, role \in Assignable :
        /\ u = None => cs = {} /\ role = None
        /\ Enter(r, u, IF cs = {} /\ role = None THEN {} ELSE {"assign"},
                 [Create(v, cs \cup {c \in Defined :
                                actions[c].group \in snapshot.defaults}) EXCEPT
                     !.members = Only(v, {role} \ {None})])

\* An administrator's, or without an actor a registration.
CreateUser(r, u, v) ==
    /\ v \notin present
    /\ \E cs \in SUBSET Defined, role \in Assignable :
        /\ u = None => cs = {} /\ role = None
        /\ Enter(r, u, IF cs = {} /\ role = None THEN {} ELSE {"assign"},
                 [Create(v, cs \cup DefaultUserCodes) EXCEPT
                     !.members = Only(v, {role} \ {None})])

\* Any authenticated actor's, as far as the transaction is concerned.
DeleteUser(r, v) ==
    /\ v \in present
    /\ Enter(r, None, {}, [Nothing EXCEPT !.codes = Only(v, {}),
                               !.present = Only(v, FALSE), !.members = Only(v, {})])

\* The row that a definition is stored as.
Definition(group, keys) ==
    [group |-> group, keys |-> keys, wide |-> Wide(catalog.document, keys)]

\* Bindings are given: each is served by an action that has it and no other,
\* and by a new one where there is none.
ResolveAssignment(r, u, o) ==
    /\ req[r].pc = "idle"
    /\ o \in present
    /\ catalog.state = "enabled"
    /\ Authorized(u, "assign", snapshot)
    /\ \E ks \in SUBSET Registered(catalog.document) :
        LET Atomic(k) == {c \in Defined : actions[c].keys = {k}}
            missing == {k \in ks : Atomic(k) = {}}
        IN  \E reused \in [ks \ missing -> Defined], new \in [missing -> Codes],
               group \in [missing -> catalog.document.groups] :
            /\ \A k \in DOMAIN reused : reused[k] \in Atomic(k)
            /\ \A k \in missing : new[k] \notin Defined
            /\ \A k, l \in missing : new[k] = new[l] => k = l
            /\ Checked(r, u, {"assign"},
                 [Nothing EXCEPT
                    !.codes = Only(o, {reused[k] : k \in DOMAIN reused}
                                          \cup {new[k] : k \in missing}),
                    !.actions = [c \in {new[k] : k \in missing} |->
                        LET k == CHOOSE l \in missing : new[l] = c
                        IN  Definition(group[k], {k})]])

-----------------------------------------------------------------------------
(* Action definitions.                                                     *)

\* Mutant: under the process's copy of the catalog.
RegisteredDefinitionsStale ==
    {Definition(group, keys) :
        group \in IF catalog.state = "enabled" THEN snapshot.groups ELSE {},
        keys \in SUBSET Registered(snapshot)}

\* Under the committed catalog, not the process's copy.
RegisteredDefinitions ==
    {Definition(group, keys) :
        group \in IF catalog.state = "enabled" THEN catalog.document.groups ELSE {},
        keys \in SUBSET Registered(catalog.document)}

Administering(wide) == {"define"} \cup (IF wide THEN {"publish"} ELSE {})

CreateAction(r, u, c) ==
    /\ actions[c] = None
    /\ \E definition \in RegisteredDefinitions :
        Enter(r, u, Administering(definition.wide),
              [Nothing EXCEPT !.actions = Only(c, definition)])

UpdateAction(r, u, c) ==
    /\ actions[c] # None
    /\ \E definition \in RegisteredDefinitions :
        Enter(r, u, Administering(actions[c].wide \/ definition.wide),
              [Nothing EXCEPT !.actions = Only(c, definition)])

\* Mutant: the statement forgets the user groups.
DeleteActionKeepingGroups(r, u, c) ==
    /\ actions[c] # None
    /\ Bound(u) \subseteq Registered(snapshot)
    /\ Enter(r, u, Administering(actions[c].wide),
             [Nothing EXCEPT
                !.actions = Only(c, None),
                !.codes = [o \in {p \in Owners \ UserGroups : c \in codes[p]} |->
                              codes[o] \ {c}]])

\* One statement deletes the definition and its code wherever it is assigned.
\* The check for all permissions that precedes it expands every binding.
DeleteAction(r, u, c) ==
    /\ actions[c] # None
    /\ Bound(u) \subseteq Registered(snapshot)
    /\ Enter(r, u, Administering(actions[c].wide),
             [Nothing EXCEPT
                !.actions = Only(c, None),
                !.codes = [o \in {p \in Owners : c \in codes[p]} |->
                              codes[o] \ {c}]])

-----------------------------------------------------------------------------
(* The catalog.                                                            *)

\* An editor loads the document it will send back as expected_value.
OpenEditor(r) ==
    /\ req[r].pc = "idle"
    /\ catalog.state # "absent"
    /\ req' = [req EXCEPT ![r] = [Idle EXCEPT !.pc = "editing",
                                              !.expected = catalog.document]]
    /\ UNCHANGED <<tables, snapshot, holder>>

\* expected_value against the row, under its lock; without one nothing is
\* compared, and nothing can be renamed.
ExpectedValue(r) ==
    req[r].pc = "editing" => req[r].expected = catalog.document

\* One-time instructions: an identifier that goes, one of the new ones instead.
Renames(before, after) == Partial(before \ after, after)

Renamed(renames, x) == IF x \in DOMAIN renames THEN renames[x] ELSE x

SameResources(document, renames) ==
    /\ DOMAIN renames = {}
    /\ document.resources = catalog.document.resources

\* What becomes of the definition of c under a new document.
Migrated(c, document, renames, moves) ==
    LET keys == {Renamed(renames, k) : k \in actions[c].keys}
    IN  [group |-> Renamed(moves, actions[c].group), keys |-> keys,
         wide |-> IF SameResources(document, renames) THEN actions[c].wide
                  ELSE Wide(document, keys)]

\* Two bindings must not become one, and none may be left without its resource.
ReconcileResourcePermissions(document, renames) ==
    \/ SameResources(document, renames)
    \/ \A c \in Defined : \A k, l \in actions[c].keys :
           /\ Renamed(renames, k) \in Registered(document)
           /\ Renamed(renames, k) = Renamed(renames, l) => k = l

\* Removed groups must be empty, those that moved excepted.
ReconcilePermissionGroups(document, moves) ==
    \A c \in Defined :
        actions[c].group \in catalog.document.groups \ document.groups =>
            actions[c].group \in DOMAIN moves

\* Only the groups differ from what the editor loaded.
GroupsOnly(r, document, renames) ==
    /\ req[r].pc = "editing"
    /\ DOMAIN renames = {}
    /\ document.resources = req[r].expected.resources
    /\ document.defaults = req[r].expected.defaults

UpdateCatalog(r, u, power, document) ==
    /\ req[r].pc \in {"idle", "editing"}
    /\ catalog.state # "absent"
    /\ ExpectedValue(r)
    /\ Authorized(u, power, snapshot)
    /\ \E renames \in Renames(Registered(catalog.document), Registered(document)),
          moves \in Renames(catalog.document.groups, document.groups) :
        /\ req[r].pc = "idle" => DOMAIN renames = {} /\ DOMAIN moves = {}
        /\ power = "define" => GroupsOnly(r, document, renames)
        /\ ReconcileResourcePermissions(document, renames)
        /\ ReconcilePermissionGroups(document, moves)
        /\ Checked(r, u, {power},
                   [Nothing EXCEPT
                      !.catalog = [catalog EXCEPT !.document = document],
                      !.actions = [c \in Defined |->
                                      Migrated(c, document, renames, moves)]])

\* The row's enabled column alone, or another key for it and back: no document,
\* and nothing reconciled.
EnableCatalog(r, u) ==
    /\ catalog.state # "absent"
    /\ Enter(r, u, {"publish"},
             [Nothing EXCEPT !.catalog =
                 [catalog EXCEPT !.state =
                     IF @ = "enabled" THEN "disabled" ELSE "enabled"]])

DeleteCatalog(r, u) ==
    /\ catalog.state # "absent"
    /\ Enter(r, u, {"publish"},
             [Nothing EXCEPT !.catalog = [catalog EXCEPT !.state = "absent"]])

CreateCatalog(r, u, document) ==
    /\ catalog.state = "absent"
    /\ Enter(r, u, {"publish"},
             [Nothing EXCEPT !.catalog = [state |-> "enabled",
                                          document |-> document]])

\* After a write, and on every poll.
RefreshLocalization ==
    /\ snapshot' = IF catalog.state = "enabled" THEN catalog.document ELSE Bare
    /\ UNCHANGED <<tables, req, holder>>

-----------------------------------------------------------------------------

OwnerNext(r, u) ==
    \/ \E o \in Owners : AssignCodes(r, u, o) \/ ResolveAssignment(r, u, o)
    \/ \E v \in Users : ChooseRole(r, u, v) \/ CreateUser(r, u, v)
    \/ \E g \in UserGroups : ReplaceUsers(r, u, g) \/ ChangeMembers(r, u, g)
    \/ \E b \in Bundles : CreateBundle(r, u, b) \/ DeleteBundle(r, u, b)

ActionNext(r, u) ==
    \E c \in Codes :
        CreateAction(r, u, c) \/ UpdateAction(r, u, c) \/ DeleteAction(r, u, c)

CatalogNext(r, u) ==
    \/ \E power \in {"define", "publish"}, document \in Documents :
           UpdateCatalog(r, u, power, document)
    \/ EnableCatalog(r, u)
    \/ DeleteCatalog(r, u)
    \/ \E document \in Documents : CreateCatalog(r, u, document)

Mutation(r) ==
    /\ LockPermissionMutation
    /\ \/ \E u \in Users : OwnerNext(r, u) \/ ActionNext(r, u) \/ CatalogNext(r, u)
       \/ \E v \in Users : CreateUser(r, None, v) \/ DeleteUser(r, v)

Next ==
    \/ \E r \in Requests :
        \/ Mutation(r)
        \/ \E b \in Bundles : CreateEmptyBundle(r, b)
        \/ OpenEditor(r)
        \/ Commit(r)
        \/ Rollback(r)
    \/ RefreshLocalization

Spec == Init /\ [][Next]_vars

-----------------------------------------------------------------------------
(* Properties.                                                             *)

\* Every code a user, role or user group carries is one of an action that
\* exists, whichever assignment, registration or deletion came first (action
\* README:104, default_permissions.go:8-11).
CodesResolve == \A o \in Owners : codes[o] \subseteq Defined

Resolves(action, document) ==
    /\ action.group \in document.groups
    /\ action.keys \subseteq Registered(document)
    /\ action.wide = Wide(document, action.keys)

\* A definition never outlives its resources or its group, and its stored
\* projection is the one that the committed catalog gives (dictionary README:34,
\* permission_groups.go:13): one binding that does not resolve fails every check
\* of everyone who holds it.  Deleting the catalog and creating it again is not
\* reconciled with anything.
ActionsResolve == unbroken => \A c \in Defined : Resolves(actions[c], catalog.document)

\* What a transaction was allowed to do it is allowed to do when it commits: a
\* queued mutation cannot use a grant that the one before it took away
\* (administration.go:12-14).
GrantsStand ==
    \A r \in Requests : req[r].pc = "checked" =>
        \A power \in req[r].needs : Authorized(req[r].actor, power, req[r].view)

\* A new account has every code that is in a default group when it appears
\* (action README:110-112).
DefaultsAreCurrent ==
    [][\A v \in Users : v \in present' \ present =>
         DefaultUserCodes \subseteq codes'[v]]_vars

ActionsAfter(writes) == Overlay(writes.actions, actions)
CodesAfter(writes) == Overlay(writes.codes, codes)
CatalogAfter(writes) == IF writes.catalog = None THEN catalog ELSE writes.catalog

\* What a transaction is about to write agrees with the tables as they are now:
\* with them it gives no code that is not defined, ...
CodesWillResolve(writes) ==
    \A o \in Owners : \A c \in CodesAfter(writes)[o] : ActionsAfter(writes)[c] # None

\* ... no definition that the catalog does not have, ...
ActionsWillResolve(writes) ==
    unbroken /\ CatalogAfter(writes).state # "absent" =>
        \A c \in Codes :
            ActionsAfter(writes)[c] # None =>
                Resolves(ActionsAfter(writes)[c], CatalogAfter(writes).document)

\* ... and no new user without the default codes.
DefaultsWillBeCurrent(writes) ==
    \A v \in Users : v \in DOMAIN writes.present /\ writes.present[v] =>
        DefaultUserCodes \subseteq CodesAfter(writes)[v]

\* Only the holder of the lock is about to write.
PendingOK ==
    \A r \in Requests : req[r].pc = "checked" =>
        /\ holder = r
        /\ CodesWillResolve(req[r].writes)
        /\ ActionsWillResolve(req[r].writes)
        /\ DefaultsWillBeCurrent(req[r].writes)

\* Inductive: from it follows DefaultsAreCurrent, too.
Inv ==
    /\ TypeOK
    /\ PendingOK
    /\ unbroken => catalog.state # "absent"
    /\ CodesResolve
    /\ ActionsResolve
    /\ GrantsStand
=============================================================================
