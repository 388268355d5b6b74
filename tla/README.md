# Verification of the layout's server

TLA+ models of the Go server generated from this repository
(`{{ .Project }}/`), the TLC runs that check them on small instances, and the
theorems about them that TLAPS proves. Every definition is translated from the
source; `PROJECT.json` maps it to the lines it stands for.

## The system

The server is a set of modules over one PostgreSQL database and a second store
(Redis, or process memory) that database transactions do not cover. Handlers
run concurrently, in several replicas. Paths below are relative to
`{{ .Project }}/internal/`.

| Component | State it keeps | Operations | Interacts with | Correct when |
| --- | --- | --- | --- | --- |
| refresh sessions (`modules/auth/session.go`, `session_store.go`) | one signed record per session id: generation, rotation time, deadline | Issue, ReadRefresh, Renew, Revoke, RevokeRefresh, ValidateIdentity; the stores' Create, Get, Rotate, Delete, janitor, Close | accounts call it before, inside and after database transactions | a family has one newest token, concurrent refreshes converge, a revoked family stays revoked, only stale tokens count as replays |
| accounts (`modules/auth/auth.go`, `identity.go`, `password_reset.go`, `modules/user/user.go`) | `t_user`: status, lock, credential version, password, login count | Register, Login, Refresh, Logout, ChangePassword, ResetPassword, ResolveIdentity; Create, Update, Delete by administrators | sessions, password guard, actions, roles | no token outlives the password it was obtained with; the first-login restriction is lifted by the user's own reset only; lock and deadline go together |
| challenges and captchas (`credential.go`, `captcha.go`, `slider_captcha.go`) | one-time values with time limits, in memory or Redis; the count of wrong passwords in `t_user` | Challenge, Open, OpenRegistration, IssueSliderChallenge, VerifySlider, ConsumeProof, NewChallenge, RefreshChallenge, Verify, Check | accounts | each comparison is paid with a pass earned for it, and each pass is spent once; tries without a captcha are bounded |
| password-change guard (`password_guard.go`) | failure counters, and a lock in `t_user.metadata` | Check, Verify, RecordFailure, Clear | captchas, accounts | the threshold locks the change, and a reset lifts it |
| permissions (`permission.go`, `administration.go`, `common/authn/*`) | none of its own | CheckPermission, route resolution, RequirePermissionOperation, the mutation lock | actions, roles, accounts, the HTTP router | a check decides by the route the router takes; a grant checked under the lock stands until the commit |
| actions, roles (`modules/action`, `modules/role`) | `t_action`, `t_role` and the code lists of users, roles and groups | Create, Update, Delete, ResolveAssignment, migration of resources | users, groups, an advisory lock, the catalog | no list names a deleted action; grants follow renames and conversions of resources, no more and no less |
| user groups (`modules/usergroup`) | `t_user_group` and its members | Create, Update (codes, members, member deltas), Delete | users | as for roles |
| messages (`modules/msg`) | `t_msg`, `t_msg_recipient`, `t_user_msg_status` | Create, Read, ReadAll, Delete, DeleteSent, Status, ExpireStatus | users, a background worker | the stored unread counters agree with the messages whenever they are answered from |
| dictionaries, localization (`modules/dictionary`, `modules/localization`) | `t_dictionary`, a versioned cache, the localized catalog in memory | Get, Create, Update, Delete, refresh, validation of a catalog | the Redis cache, action names, a background worker | a cached value is not older than the last committed change; conditional updates do not lose changes |
| idempotency (`common/idempotency`, `infra/rds/idempotency.go`, `common/server/idempotency.go`) | consumed keys with a deadline | Claim | every POST of a module that asks for it | a key lets one request in while it is consumed, and only an admitted request consumes it |
| audit log (`modules/audit`, `common/server/audit*.go`) | `t_audit_log` | record after the handler | HTTP timeout and recovery | the row tells what the client was answered |
| HTTP server and lifecycle (`common/server`, `common/rpc`, `app`, `cmd/server`) | listeners, workers, cleanups, requests in flight | New, Run, drain, join, Close | everything | nothing is leaked on any way out; a clean stop cuts no request; a process told to stop ends |

## What is hard

- **Two stores.** A login stores its session before it updates the row; a reset
  stores it inside the transaction. A crash, a failed commit or a lost answer
  falls between the two. Safety rests on comparing credential versions later.
- **Check, then act.** Refresh, identity resolution and password change read the
  row and act on it in a later statement; Renew reads the record and swaps it in
  a later call.
- **Retries.** A refresh whose answer was lost is repeated with the old token. A
  window of time tells a retry from a replay, and replays revoke the family.
- **Time.** Locks, sessions, messages and challenges expire between any two steps.
- **The way out.** Construction fails half way, a signal comes at any moment, servers
  fail, handlers do not return: each path has its own cleanups and timeouts.
- **Two readers of one rule.** Routes are resolved by the router and again by the
  permission check; references of the catalog are followed by its validation and
  again by the conversion of definitions. The two must agree.
- **Locks across replicas.** Advisory locks and row locks serialize permission
  changes and message counters; a statement sees what was committed when it began.

## Modules

### Sessions, SessionFamily, SessionsProofs

`Sessions` models one refresh-token family. `store` is the record under the
session id (`refreshSession` without the identity, whose checks belong to
`Accounts`), `req[r]` a request inside `Refresh`, with a `pc` for the point it
has reached: `reading` (ReadRefresh), `checking` (the database),
`renewing`/`deciding`/`rotating` (Renew's loop), `revoking`. Each store call is
one action, because the memory store holds its mutex and the Redis store runs
one script for each. `Tick` moves the clock; `Restart` kills requests and, for
the memory store, the record; `RotateUnacknowledged` and `Abort` are lost
replies and failures. Tokens are generations: the MAC makes others unforgeable,
so a client presents only what is in `issued`. `stampedAt` and `committedAt`
are history: when each generation was stamped and when it was written.

`SessionFamily` is what a client is promised: a family begins once, advances one
generation at a time and not twice within a retry window, never moves its
deadline and ends for good. `Sessions` implements it (`KeepsFamilyPromise`).

### Accounts, AccountsProofs

One row of `t_user`, the sessions opened for it and the requests of its user,
beside administrators. `row.identity` is what tokens are compared with (the
credential version and the user name; the code never changes). `holder` is the
request whose transaction holds the row: only ResetPassword calls the session
store while holding it, so only it needs more than one step per transaction.
ChangePassword's transaction has no step in which others could run and is one
action. History: `origin` says whether the password in force was set from
outside or by the user, `sessions[s].password` the password the session was
opened with, `given` whether its token left the server.

The typed password is the right one: a wrong password changes only the counter
that asks for a captcha. Rotation of tokens is left to `Sessions`.

### PasswordGuard, PasswordGuardProofs

The password change of one user, request by request: `opened`
(passwordChangeLocked), `counting` (FailureCount), `verifying` and `solving`
(the guard's Verify, which asks the counter again and takes a captcha),
`comparing` (the transaction), `recording`, `locking`, `clearing`. `row` holds
what this reads of `t_user`; the typed password is right or wrong for the
credential version the identity was issued for. An administrator saves the
metadata of a form he opened earlier, so that he may take the lock off or put it
back, also after a reset has lifted it: the form is not compared with the row
(`user.go:434`). `tried.late` counts the tries made under a lock, by requests that
were past it when it was set. `Check` takes a captcha and `Restore` puts it back. Ids of
captchas are random: a name is used again only when nobody can hold it. History:
`tried` counts wrong passwords of a round, which ends when the counter or the lock
goes, `spent` how often a captcha was accepted. A lock other than the one the code
writes (a number below the threshold that an administrator types) is left out.

### MsgStatus, MsgStatusProofs

Two tables of messages and the row of counters kept beside them for each user.
A request is one transaction of `statusTx`: `Gate` takes the advisory lock,
shared or exclusive, `Lock` initializes and locks the status rows, and every
further statement (`RefreshDue`, `Reread`, `Publish`, `Deliver`, `Change`,
`Recount`) is an action, because each has an instant of its own and, under READ
COMMITTED, a snapshot of its own. What a transaction has written stays in
`req[r]` until `Commit`; `MsgSeen` and `ReceiptSeen` are what it sees meanwhile.
Row locks are taken by one statement in the order of the users, so `Lock` takes
them at once. Accounts appear and disappear under it (`RegisterUser`,
`DeleteUser`), because user rows are protected by neither the gate nor the
status rows. Messages scheduled for the future are what older writers left.
History: `truths`, what was true while a Status request ran.

### Dictionary, DictionaryRegister, DictionaryProofs

One row, its entry in the namespace cache and the catalog one process installed
from it; a row of another key shares only the version (`WriteOther`). The
deployment is chosen in `Init`: `single` has the memory cache, whose operations
are one step under a mutex and which keeps one entry for a key, `replicas` have
Redis, whose Load is two commands, and requests that another replica serves
(`Remote`). Contents are positions in `commits`, so that older and newer can be
told apart; where the code compares contents the model does too. A write is
`Lock` (the first statement that locks the row, with the comparison of the
expected value), `Commit`, then `Invalidate` as well as it can, then the refresh
of the installed catalog through `localizationGate`. `Worker` is the periodic
refresh. A disabled row is for the readers what a deleted one is (`Absent`).
History: `commits`, `advanced` (how much was committed at the last advance of
the version) and `floor` (that, when a reader began).

`DictionaryRegister` is what readers are promised, without versions, entries or a
worker: a register of which a reader sees a content that was committed, at least as
new as what had been published when it began; that denies a row only when there is
none; and whose installed catalog moves forward only. `Dictionary` implements it
(`KeepsRegisterPromise`): `history` is `commits`, `published` is `advanced`, and
`Reader` shows a request as reading while it loads, fetches, queries and stores.

### Assignments, AssignmentsProofs

Action definitions, the codes of them that users, roles and user groups carry,
and the catalog that says what a binding is. All mutations of permissions are
transactions that take one advisory lock, so a request has two steps: one takes
the lock, checks the actor's grants and reads what it needs, the other writes
and releases (`Commit`) or gives up (`Rollback`). What does not take the lock
comes in between: roles and groups without codes, editors that open the catalog,
and `RefreshLocalization`, which brings `snapshot`, the process's copy of the
catalog, up to date. Grants are interpreted with that copy, definitions and
defaults with the committed row; a check that meets a binding its view does not
have fails altogether.

The endpoints and features that matter here are three `Powers`: the CRUD
endpoints of owners (`assign`), those of actions (`define`) and publication
(`publish`). A binding (`Keys`) is a resource with its operation and features.
A document says which powers each binding gives, which permission groups there
are and which of them supply defaults; a binding that gives all powers is the
wildcard. `UpdateCatalog` applies renames to the definitions and rejects what
would dangle, merge or orphan them. History: `unbroken` says that the catalog
row has never been missing.

### Lifecycle, HttpRequests, ServerProofs

`Lifecycle` models one process: `stage` follows `New` (building), `Run`
(listening, serving, draining, joining) and `Close` (closing); `held` is the stack
of cleanups, `Plan` the order in which `New` acquires. Each step of `New` and each
listener may fail (`FailToBuild`, `FailToListen`); `Signal` cancels the context,
`ServerFails` is a `Serve` that returns. `Drain`, `Shutdown`, `Drained` and
`ShutdownTimeout` are the shutdown goroutines, `StopWorker` and `WorkerReturns` the
deferred cancel-and-join of the two workers. `Crash` is a kill; `Start` a restart.
`forced` remembers that the HTTP server gave up on its requests.

`HttpRequests` adds the requests, so that both can be checked together: `open` of
`Lifecycle` is the set of those in flight. A request passes the middleware in the
order of `NewRouter` (`Authenticate`, `ClaimRedis` or `ClaimMemory`, `Handle`), and
its answer passes it backwards (`Unwind` is timeout and recovery, `Audit` the audit,
`Complete` net/http). Claims are in Redis, which survives the process, or in its
memory; `Expire` is the TTL, and in memory an expired entry stays until a cleanup.
History: `grants` counts the requests let in for a key while it is consumed,
`rightful` says that the one that consumed it was admitted, `row` is the status the
audit recorded.

### LoginGuard, LoginGuardProofs

Everything a login or a registration must bring: `store` holds, by id, credential
challenges, slider challenges, slider proofs and point captchas of both kinds of
deployment, since each is put and taken in one step in either. A request goes from
`Open` over `LoginUser`, which reads the count of wrong passwords once, to `Verify`
(captcha) or `Gate` (slider proof), the comparison, and `RecordWrongPassword` or
`LoggedIn`; or from `OpenRegistration` over `Prove` to `Register`. `Switch` is the
end-to-end test switch, which the process reloads while it runs and under which
drags and captchas count without being solved; it is read in the same step as the
entry is taken. History: `credit` counts, for each kind, purpose and name, the passes
earned and neither used nor lapsed; `tried` the wrong passwords that reached the
comparison with a slider proof, and those whose request died before it counted them.

### Routes, Permissions, ServerProofs

`Routes` is the pure part of `CheckPermission`: which route of the router's table a
path is (`ResolveHTTPRoute`), and whether one of the granted endpoints is that route.
`Dispatch` is what the router itself does with the path, and is external.

`Permissions` is the catalog of one scope and the stored definition of one action.
Nodes are directories and resources with parents and references that may pass only
some operations on. `Validate`, `Resolves` and `ResolveConfig` are the code's;
`UpdateCatalog` takes a document with renames of resources and of features. As in
`validCatalogRenames`, a renamed key must have been there and be gone and its target be
there, whether it was there before or not, and any number of keys is renamed. The
definition is rewritten by `MigrateConvertedResourceConfig`. Bindings that come to name
one resource and operation are merged only if another one was converted; otherwise the
repeated binding, key or feature is refused with the document (`Unrepeated`). A feature
is named after its resource (`ResourceOf`), so selections survive the rename of a
resource only if the features are renamed with it. `UpdateAction` stores any definition
of the forms the code knows (bindings, the default selection, the older "all").
`Offered` and `Remains` are reference definitions of the properties, not translations. The names begin with `Permissions` (`PermissionsSpec`,
`PermissionsTypeOK`) where `HttpRequests` has them too, because one module proves about
both: a request is let in by what `Permissions` decides.

## Runs

| Run | Instance | What it shows |
| --- | --- | --- |
| `sessions` | 2 requests, window 1, 3 generations, clock to 5, lifetime 4, writes stall at most 1, a record that outlives the process | replays, convergence and the refinement of a family, the inductive invariant of the proofs, and every refresh is answered |
| `sessions_slow_write` | as `sessions`, but a write may take two windows | counterexample: a current token taken for a replay |
| `accounts` | 2 requests, 2 sessions, 2 passwords, 1 name, versions to 3 | the safety properties of an account |
| `accounts_unlock` | the same with 2 names | counterexample: an active account loses its session to a concurrent unlock |
| `password_guard` | 2 requests, 1 captcha at a time, thresholds 1 and 2, clock to 2, 2 versions, 1 fault, both deployments | how many wrong passwords get through before and after the lock, with and without captchas; a captcha is accepted once |
| `msg_status` | 2 requests or sweeps, 1 user, 2 messages, clock to 3, recipients registered | stored counters agree with the inbox until their deadline; answers were right |
| `msg_stranger` | the same, with recipients that may not be registered yet | counterexample: a new user's counter misses a message for good |
| `dictionary` | 2 requests, the worker, 1 content and none, 3 commits, 2 versions, 1 failure, both deployments | the refinement of a register (answers fresh, rows not denied), no lost update, the catalog does not go back, convergence although invalidations fail, the inductive invariant of the proofs |
| `assignments` | 3 requests, each made once, 3 users, 1 role, 1 group, 3 codes, 3 bindings, 2 permission groups, 5 documents | codes and bindings resolve, grants stand until the commit, new accounts get the defaults |
| `server` | 2 requests, 2 servers, 1 key, both deployments | nothing is leaked, a clean stop cuts no request, keys are consumed once and by the admitted, the audit is the answer, a stop ends |
| `login` | 2 requests, 1 id of each kind, 3 subjects, threshold 1, 1 counted wrong password, 1 fault | passes are earned and spent once; tries without captcha are bounded |
| `permissions` | 4 keys, 10 features, 120 documents (68 valid), 5 renames of resources by 5 of features, 7 routes, 11 requests | grants follow renames and conversions, picker and conversion agree, the check follows the router |

Bounds. Two requests suffice for the races of the sessions: each step depends
on one request and the record, and the record's changes by any number of
others are those of one other request and of logout. Three generations and five
instants, with a window of one, let a request be overtaken twice, which is
what the replay rule is about; `MaxGeneration` stands for `math.MaxInt64`,
where the code refuses to rotate. In `Accounts` two sessions let a login or a
reset race another one, and three credential versions let a change follow a
change. One name leaves out renames, which for a session are one more way for
the identity to differ; `accounts_unlock` has two. `SYMMETRY` permutes requests
and session ids, which are never compared by order; the runs with liveness do
not use it. `Accounts` allows deadlock: the account may be deleted and the
session ids used up.

In `PasswordGuard` thresholds 1 and 2 have every phase of the guard (free,
captcha, locked), and two requests overtake each other between any two of its
reads; the bounds that the properties state grow with the requests and are
reached by two. A clock of two instants lets a counter or a captcha expire
between any two steps. Two versions let the password change under a request, by
another request, a reset or an administrator; versions are only compared for
equality. One fault is a lost call, an uncounted try or a restart.

In `MsgStatus` one user is enough for what concerns a row: others touch it only
through the gate and its lock, which the second request does as well. Two
messages make counts that differ, and a clock of three instants lets one be
published, expire and be looked at in different ones. `KnownTargets` excludes
the case `msg_stranger` is about, where the accuracy of the counters fails.

In `Dictionary` a stale store needs one reader, one writer and one advance of the
version, which the second version gives; three
commits let a content come back after its deletion. The row is there when the process
starts (`Initial`); deletions make the other case. One content suffices,
because freshness is about positions, and a content and its absence are enough
for a comparison to fail. `MaxFailures` bounds failing calls and crashes:
without it nothing would oblige a refresh ever to succeed.

In `Assignments` every hazard is a matter of two transactions, one of which read
before the other wrote; the third request is for what must be in place before,
such as an action to be deleted. A request is made once, which keeps the graph
finite without counters; the system may then stop, so that `Assignments` allows
deadlock too. Three codes leave one to be created beside the administrator's and
the assistant's, and a deleted one may be used again. The documents are chosen
for the reconciliation: a binding disappears for another, loses its powers, a
permission group goes while the other becomes a default, and the other way round.

In `server` a claim needs two requests to be contested, and every other property
concerns one request and the process. The profiler and gRPC servers behave alike for
the process, so that one beside HTTP suffices. Time is not counted: TTLs and timeouts
may pass whenever they have begun, which includes every order of them.

In `login` one id of each kind at a time makes an id the object of every race, and
challenges that find none free are those that nobody uses. The subjects are both
purposes and a registered and a free name, without the fourth pair, which no drag
serves. A threshold of 1 has both gates, and one counted wrong password reaches
it; a second request that tried beside the first counts its own when a login or a new
password has forgotten the first, or dies with it.

In `permissions` any document may follow any other. `Trees` have references to a
directory or a resource, with all or some operations, resources below either, a
wildcard, and a resource that is a directory in the next document. `Replacements` have
a fourth resource beside two others or in their place. The renames are none, one to a
new key or onto a resource that is there, back again, and two onto the same; features
go one by one, two of a resource into one, or those of two resources together. With up
to three bindings every case occurs: renamed bindings meet each other or a converted
one and are merged, with equal, overlapping and absent selections, or are refused; and
features become one in a merged, in an unmerged and in a default selection. The routes
have templates that overlap in either segment, two spellings of a
parameter and a static route below a parameter of another.

## Fairness

`FairSpec` of `Sessions` assumes that a handler that can take its next step
does (weak fairness of `RequestStep`): a goroutine is scheduled and each store
call returns or fails. Nothing obliges clients, the clock, logouts or failures.

`FairSpec` of `Dictionary` assumes that whoever holds the gate goes on (the query has
a timeout), that the worker ticks, that entries expire (the time to live is ten
minutes), and strong fairness of the worker at the gate: the gate is a channel, whose
waiting senders are served in order. Readers and writers may stop anywhere, and
nothing obliges clients.

`FairSpec` of `HttpRequests` assumes that the process goes on (weak fairness of its
own steps and of its end): every call it waits for has a timeout, the shutdown has
one, and a worker whose context is done leaves its loop. No handler is obliged to
return and no request to arrive, so that `StopEnds` rests on the timeout. It is stated
as infinitely often not on the way out, which is to say that a process on its way out
ends, because nothing else takes it off that way.

## Proofs

`SessionsProofs` proves for every set of requests, window, lifetimes, number of
generations and stall, from `SessionConfig` (the checks of `NewSessions`):

- `InvariantHolds`, `TypeCorrect`, `RecordsStayValid`, `ReplaysAreStale`,
  `ConflictsBounded`: invariants;
- `NoResurrection`, `RefreshesConverge`: action properties;
- `FamilyKept`: `Sessions` implements `SessionFamily`;
- `PromptWritesReplay`: under `MaxStall < RetryWindow`, only tokens that had been
  overwritten when they arrived are taken for replays.

The argument. No property is inductive by itself, because a request acts on a
record it read long ago. `Inv` therefore relates three things: the history of
generations (`HistoryOK`: stamped in order, a retry window apart, each written
within `MaxStall`), the stored record (`StoreOK`: the last line of that history)
and what each request remembers (`RequestOK`: its copy is the line of the
history for its generation, and equals the record as long as the generation
does). A compare-and-set that succeeds therefore extends the history by one line,
and a conflict means that the generation moved or the record is gone, which is
why a second conflict cannot happen.

`DictionaryProofs` proves for every set of requests and contents and every bound,
from `DictionaryConfig`:

- `InvariantHolds`, `TypeCorrect`, `CacheStaysFresh`, `AnswersStayFresh`:
  invariants;
- `UpdatesAreNotLost`, `CatalogIsMonotone`: action properties;
- `RegisterKept`: `Dictionary` implements `DictionaryRegister`.

The argument. An entry under the current version is fresh because whoever loaded
that version read the row later; this needs `ReadersOK`: no request knows a
version that does not exist yet, and whatever is stored, or is about to be
stored, under the version a slow Redis reader holds is at least as new as what
that reader is owed. `CacheOK` adds that versions to come have no entries.
Updates rest on `WritersOK` (a request between comparison and commit holds the
row and its comparison still stands), the catalog on `CatalogOK` (a refresh that
has read the row holds the gate, and has read something not older than what is
installed). `ReadersFrame` is the lemma for the many steps that leave readers
alone or only take entries away.

All of that is `Coherent`. The refinement needs `EntriesExist` besides: what may be
hit, stored or answered is a content that was committed, never the lack of one. A
hit of either cache or a query's row is then a `Find` of the register, an empty
query a `Miss`; a load that finds nothing or fails, and a store, are no step at all
(`ReadSteps`). `Commit` is `Write`, every advance of the version is
`Publish`, `Install` is `Install` or a stutter (`WriteSteps`), and a restart loses the
readers of this process and no others (`RestartStep`). `Quiet` stands for the steps
that show readers nothing.

`ServerProofs` proves about `Lifecycle` and `HttpRequests`, for every set of requests and keys and every finite set of
servers, from `LifecycleConfig` (one of the servers is HTTP, and there is a
deployment):

- `InvariantHolds`, `TypeCorrect`, `NothingLeaksHolds`, `CleanStopHolds`,
  `OncePerKeyHolds`, `OnlyAdmittedConsumeHolds`, `AuditIsTheAnswerHolds`.

The argument. `StagesOK` says for each stage of the process what is held, which
servers serve and which workers run. What is held is a prefix of `Plan` while
`New` builds and while `Close` releases, all of it in between; a failure at any
point therefore releases exactly what was acquired. Requests are open only where
servers serve or are shut down, and `forced` is the only way past `joining` with
one left. `ClaimsOK` ties each key to the requests that are about to consume it,
so that a grant presupposes that the key was free.

It proves about `Routes` and `Permissions`, for every route table, every finite set of
catalog keys, all features, endpoints, documents, renames and requests, from
`RoutesConfig`, `CatalogConfig` and `EndpointsConfig` (routes, nodes and endpoints have
their types, a gRPC endpoint has the method "GRPC", and a request brings no parameters):

- `RouterAgrees`: `ResolveHTTPRoute` finds for every path what `Dispatch` does;
- `PermissionsTyping`, `PickerSoundness`, `CheckSoundness`: invariants;
- `GrantsSoundness`: an action property.

The argument. The searches are recursive functions, so each proof states in closed
form what the search finds, shows that this solves the equation of the function, and
that two solutions agree. For the router the closed form is `Best`: the templates of a
set that match the rest of the path and that none of the others precedes there
(`OneSegment` does one segment, `FromTheEnd` is the induction from the end of the path
over the well-founded order of the naturals). For the two walks of the catalog it is
`Reach`: the nodes in every closed set around the start that avoids the path behind it
(`ReachStep`). Two solutions that differed would differ on a path that cannot be made
longer, because keys are finite (`HasMaximal`); there they agree. It takes what
`Validate` says of resources, that no search goes on from them (`Ends`).

`PermissionsTypeOK` is inductive as it stands: a document is validated before it is
stored, and the definition is rewritten and resolved with it. The grants then follow
from three facts: a merged binding grants what its parts do, whichever resources they
come from (`MergeGrants`); the parts of a converted resource select what the directory
offers (`DirectoryGrants`, by the closed form); and a part that was not converted names
a resource, or the definition would not resolve. Nothing is asked of the renames but
that they map keys to keys, so it does not matter where they lead.
`MigrationFollows` puts them together for each form of definition.

`AccountsProofs` proves for every set of requests, session ids, names and
passwords and every bound on versions, from `AccountConfig` (the placeholders are
no values):

- `InvariantHolds`, `TypeCorrect`, `HoldersKnow`, `FirstLoginHolds`.

The argument. A request acts on a row it read earlier. `Good` says what such a
reading is worth: its password was right for the version it read, hence is in
force, or that version has been overtaken and every comparison with it will fail.
`SessionOK` says it of sessions, `LoginOK`, `ResetOK` and `ChangeOK` of what the
requests hold before and after the session store is called; versions only grow,
so that no step of anybody else makes any of it false.

`AssignmentsProofs` proves for every set of users, roles, groups, codes, powers,
bindings, documents and requests, from `AssignmentConfig`:

- `InvariantHolds`, `TypeCorrect`, `CodesAlwaysResolve`, `ActionsAlwaysResolve`,
  `GrantsAlwaysStand`: invariants;
- `DefaultsAlwaysCurrent`: an action property.

The argument. `PendingOK`: who is about to write holds the lock, and the tables
overlaid with what he will write satisfy the three properties. That is shown once
for each mutation, when it takes the lock and checks; until the commit no step
changes a table the overlay reads, because the others need the lock, and editors
that do not take it write no codes.

`LoginGuardProofs` proves for every finite set of requests and of ids, every threshold and
every bound, from `LoginConfig` and `DistinctIds` (each kind of id has a store of
its own):

- `InvariantHolds`, `TypeCorrect`, `PassesAreAlwaysEarned`,
  `FreeTriesAlwaysBounded`.

The argument is a ledger: `CreditOK` says that the credit of each purpose and name
is the number of passes stored for it, so that what takes an entry takes its credit,
and what is compared without one would be a debt. `TriesOK` counts in the same way:
free tries are at most those counted, those about to be counted and those lost, and
while the count still lets anybody in, there is room below the bound for everybody
who is inside.

`PasswordGuardProofs` proves for every finite set of requests, every set of captchas, all
thresholds, lives and bounds, from `GuardConfig`:

- `InvariantHolds`, `TypeCorrect`, `TriesAlwaysBounded`, `FreeTriesAlwaysBounded`,
  `CaptchaAlwaysSpentOnce`.

The argument. `CaptchasOK`: a captcha is stored, or with the one request that
checks it, or spent, or not in use, and never two of these. `TriesOK` is the ledger of
`LoginGuard` for as long as the account is not locked; `LateOK` takes over when it
is: late tries and the requests that are past the lock are together no more than
the requests. The attempt to prove it corrected the bound, which first left out the
request whose own wrong password sets the lock: a stale form sets the lock without
one, beside requests all of which are past it, so that all of them may try late.

`MsgStatusProofs` proves for every set of requests and users, every finite set of
messages and every clock, from `MsgConfig`:

- `InvariantHolds`, `TypeCorrect`;
- `StatusAlwaysAccurate`, `AnswersWereTrue`: under `KnownTargets`, without which
  they are false (`msg_stranger`).

The argument has two halves. About the queries: `TimePasses`, an aggregate does not
change before its own deadline, because the deadline is the earliest publication or
expiry of what is unread; and `OneMore`, adding a delivered message to an accurate
row is what the query would have computed. About the transactions: `LocksOK`, whoever
writes has locked every row its changes concern, or has the gate to itself; `RowsOK`,
the rows it is going to write are accurate for what is committed together with what
it has changed; `Apart`, no two transactions hold one row. A commit of others
therefore changes neither the truth about the users whose rows a request holds
(`CommitKeepsTruth`) nor what it sees (`CommitKeepsSeen`). Least and greatest
elements of sets of instants come from well-founded induction in the library.

The runs `sessions`, `dictionary`, `server`, `accounts`, `assignments`, `login`,
`password_guard` and `msg_status` check the inductive invariants `Inv` themselves;
their `TypeOK`s, `RecordStaysValid`, `AtMostOneConflict` and `NeverResurrected` of
`Sessions` and `NamespaceFresh` and `AnswersAreFresh` of `Dictionary` are proved from
them and need no run. `permissions` checks `PermissionsTypeOK`.

What stays with TLC: liveness under fairness (`RequestsFinish`, `Converges`,
`StopEnds`), which the provers here do not reach.

## Findings

- *A slow write turns a current token into a replay.* `session.go:182` stamps
  `RotatedAt` before the store call of line 187. A request that arrives a retry
  window after the stamp and before the write presents the token that is still
  current; read after the write, it is older than the record and stamped late
  enough to be "a stale replay" (comment at 208-209), and the family is revoked.
  Run `sessions_slow_write`; `PromptWritesReplay` says when it cannot happen.
- *A lost unlock race ends a session.* Two requests find the same expired lock.
  The second UPDATE of `unlockExpiredUser` changes nothing, `refreshIdentity`
  falls back on the status it read, and `Refresh` revokes the session of an
  account that is active. Run `accounts_unlock`.
- *A message for somebody who is just registering is not counted.* `Create` locks
  the status rows of recipients that exist when it begins and inserts the
  receipts later; in between the recipient may commit his registration and his
  first status row, which `addStatus` does not find committed. Run `msg_stranger`;
  `StatusIsAccurate` holds when recipients are registered.

## Not modelled

The implementation has 63,590 lines, of which 37,954 are the glyph table of
`captcha_chinese_data.go` and about 2,700 generators (`cmd/docsgen`, `modulegen`,
`protogen`, `configgen`, `seedcode`). Of the rest about half are HTTP handlers, lists,
reports and summaries, which decode, select and encode; the models cover the code that
changes state, and the pure rules it relies on.

Rendering of captchas and glyph data (pixels, no state); configuration,
logging, tracing, redaction, reports and pagination (no state that outlives a
call); HTTP handlers, which decode and encode around the operations modelled;
RPC wrappers; generators, scripts and documentation; the SQL planner's
isolation beyond the row locks and statement snapshots named above.
Signatures and hashes are taken to do what they are for.

What `MsgStatus` leaves out: lists and summaries, which write nothing, and the
limit of a hundred rows of a sweep. A deadline that passes between the repair of a
row and the statement that rereads it (`status.go:24-28`) lets `Status` answer from an
overdue row; `AnswerWasTrue` is stated for what was true at some moment of the
request, which such an answer was.

What `Dictionary` leaves out: the loss of Redis's data, after which versions
would start again. Catalogs and actions are in `Assignments` and `Permissions`.

What `Assignments` leaves out: names and labels, which are written into the
catalog's messages and only make more comparisons of `expected_value` fail; the
reserved definitions (`builtin`), of which there is one for each scope; an owner
created with bindings instead of codes; calls that change several things at once, such
as a role and codes, or the catalog's document and its `enabled` column. Legacy codes
that no action has do not occur, because nothing in the code writes them. Deleting the
catalog and creating another, or renaming its key away and back, goes around both
reconciliations: `ActionsResolve` holds until the row has been missing. Grants are
interpreted with the process's copy of the catalog, which lags behind a commit until
the next refresh; `GrantsStand` is about the copy that the check used.

What `Lifecycle` and `HttpRequests` leave out: malformed keys (400, like a refusal),
paths that are not audited, `http.ErrAbortHandler`, the calls of the profiler and gRPC
servers, trace, access log and health. The memory store's Claim reads its clock before
it takes its lock; the two are one step. The tracer is always configured.

What `LoginGuard` leaves out: the challenges of a password change or reset, statuses
other than active (they end a login before the gates), and the login's own session,
which is in `Accounts`.

What `Routes` and `Permissions` leave out: menus, buttons and navigation, which show
and never grant; several scopes at once, except that `OtherScopes` has endpoints of
others; scope-wide endpoints of RPC; values of parameters that are no ordinary
segments. A holder of a wildcard is asked by `CheckPermission` whether a feature of
another scope covers the path (permission.go:82-97), by template and not by route: a
static route of his own scope below such a template is therefore closed to him, and
`CheckFollowsTheRouter` states for wildcards only that granted routes are open. What a
feature opens stays the same from document to document. The order of a definition's
bindings is left out: where two features of a selection become one and the binding is
merged, the code accepts it or refuses it by which binding comes first, and the model
takes the order that is accepted.

## Plan

Done: refresh sessions, accounts, the password guard, login and registration,
message counters, dictionaries, permission assignments, the process and its HTTP
requests, the catalog with routes and conversions, all with proofs of the safety
properties their runs check; the families of sessions and the register of
dictionaries, as abstract specifications whose implementation is proved.

Left:

1. Navigation and menus over the catalog of `Permissions`; a sweep of `MsgStatus` with
   its limit.
