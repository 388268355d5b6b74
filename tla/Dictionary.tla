---------------------------- MODULE Dictionary ------------------------------
(***************************************************************************)
(* One dictionary row, the versioned cache in front of it and the catalog  *)
(* that one process has installed from it.                                 *)
(*                                                                         *)
(* The row is the truth.  Readers load the cache, and on a miss read the   *)
(* row and store what they read under the version they began with; a       *)
(* writer commits first and advances the version afterwards, as well as it *)
(* can.  Independently of the cache, the process reads the row after every *)
(* write of its own, and every few seconds, and installs what it finds.    *)
(*                                                                         *)
(* Contents are known by their position in the history of commits.         *)
(***************************************************************************)
EXTENDS Integers, Sequences

CONSTANTS
    Requests,       \* the requests at once, on this process or elsewhere
    Remote,         \* those that another replica serves, when there are any
    Worker,         \* the periodic refresh of this process
    Values,         \* contents that the row may have
    Initial,        \* what the row may be when the process starts
    MaxCommits,     \* a bound of the model
    MaxVersion,     \* a bound of the model: the version is a 64-bit counter
    MaxFailures     \* a bound of the model: failures of calls, crashes

VARIABLES
    deployment,     \* "replicas" that share Redis, or "single", with its memory
    commits,        \* history: the contents committed, the last being the row
    locker,         \* the request whose transaction holds the row
    version,        \* the version of the cache's namespace
    cached,         \* cached[v]: the entry for the row under version v
    advanced,       \* history: how much was committed at the last advance
    gate,           \* who holds localizationGate
    installed,      \* the commit whose content is the active catalog
    raw,            \* the commit whose content is localizationRaw
    req,            \* req[r]: where request r is
    failures

vars == <<deployment, commits, locker, version, cached, advanced, gate,
          installed, raw, req, failures>>

rowVars == <<commits, locker>>
cacheVars == <<version, cached, advanced>>
catalogVars == <<gate, installed, raw>>

Actors == Requests \cup {Worker}

\* No row, or a disabled one.
Absent == "absent"

Contents == Values \cup {Absent}

\* No entry, no version, a nil localizationRaw.
Nothing == 0
Nobody == "nobody"

ASSUME DictionaryConfig ==
    /\ Remote \subseteq Requests
    /\ Worker \notin Requests
    /\ Nobody \notin Actors
    /\ Initial \subseteq Contents
    /\ MaxCommits \in Nat \ {0}
    /\ MaxVersion \in Nat \ {0}
    /\ MaxFailures \in Nat

Serials == 0 .. MaxCommits

\* Versions count from 1 here; 0 is that of a reader whose Load failed.
Versions == 1 .. MaxVersion

Last == Len(commits)

Steps == {"idle", "loading", "fetching", "querying", "storing", "answering",
          "committing", "invalidating", "waiting", "selecting", "installing"}

\* serial: what a reader or a refresh has read.  content, expected: what a writer
\* brings, and the value he expects, which is Absent when he names none.
\* floor (history): what the cache must know of, for a reader that began then.
Request == [pc : Steps, version : Versions \cup {Nothing}, serial : Serials,
            content : Contents, expected : Contents, floor : Serials]

Idle == [pc |-> "idle", version |-> Nothing, serial |-> Nothing,
         content |-> Absent, expected |-> Absent, floor |-> 0]

Elsewhere(r) == deployment = "replicas" /\ r \in Remote

TypeOK ==
    /\ deployment \in {"replicas", "single"}
    /\ commits \in Seq(Contents) /\ Last \in 1 .. MaxCommits
    /\ locker \in Requests \cup {Nobody}
    /\ version \in Versions
    /\ cached \in [Versions -> Serials]
    /\ advanced \in Serials
    /\ gate \in Actors \cup {Nobody}
    /\ installed \in Serials /\ raw \in Serials
    /\ req \in [Actors -> Request]
    /\ failures \in 0 .. MaxFailures
    /\ gate # Nobody => req[gate].pc \in {"selecting", "installing"}
    /\ locker # Nobody => req[locker].pc = "committing"
-----------------------------------------------------------------------------
Init ==
    /\ deployment \in {"replicas", "single"}
    /\ commits \in {<<c>> : c \in Initial}
    /\ locker = Nobody
    /\ version = 1
    /\ cached = [v \in Versions |-> Nothing]
    /\ advanced = 0
    /\ gate = Nobody
    /\ installed = 1            \* LoadLocalization, before serving
    /\ raw = IF commits[1] = Absent THEN Nothing ELSE 1
    /\ req = [r \in Actors |-> Idle]
    /\ failures = 0

Leave(r) == req' = [req EXCEPT ![r] = Idle]

Goto(r, pc) == req' = [req EXCEPT ![r].pc = pc]

Fail == failures < MaxFailures /\ failures' = failures + 1
-----------------------------------------------------------------------------
(* Reading: DictionaryValue and getCached.                                  *)

Read(r) ==
    /\ req[r].pc = "idle"
    /\ req' = [req EXCEPT ![r] = [Idle EXCEPT !.pc = "loading", !.floor = advanced]]
    /\ UNCHANGED <<deployment, rowVars, cacheVars, catalogVars, failures>>

\* A hit is the answer; a miss goes to the database.
Looked(r, v) ==
    req' = [req EXCEPT
        ![r].version = v,
        ![r].serial = cached[v],
        ![r].pc = IF cached[v] # Nothing THEN "answering" ELSE "querying"]

\* Redis: two commands, GET of the version and GET of the value under it.
LoadVersion(r) ==
    /\ deployment = "replicas"
    /\ req[r].pc = "loading"
    /\ req' = [req EXCEPT ![r].pc = "fetching", ![r].version = version]
    /\ UNCHANGED <<deployment, rowVars, cacheVars, catalogVars, failures>>

LoadValue(r) ==
    /\ req[r].pc = "fetching"
    /\ Looked(r, req[r].version)
    /\ UNCHANGED <<deployment, rowVars, cacheVars, catalogVars, failures>>

\* Mutant: whatever entry the map has is a hit.
LoadMemoryUnchecked(r) ==
    /\ deployment = "single"
    /\ req[r].pc = "loading"
    /\ IF \A v \in Versions : cached[v] = Nothing
       THEN Looked(r, version)
       ELSE Looked(r, CHOOSE v \in Versions : cached[v] # Nothing)
    /\ UNCHANGED <<deployment, rowVars, cacheVars, catalogVars, failures>>

\* Memory: one step under the mutex.  The map has one entry for the row, which
\* is removed when it is of another version.
LoadMemory(r) ==
    /\ deployment = "single"
    /\ req[r].pc = "loading"
    /\ Looked(r, version)
    /\ cached' = [v \in Versions |-> IF v = version THEN cached[v] ELSE Nothing]
    /\ UNCHANGED <<deployment, rowVars, version, advanced, catalogVars, failures>>

\* A failing Load: the row is read, and nothing will be stored.
LoadFails(r) ==
    /\ deployment = "replicas"
    /\ req[r].pc \in {"loading", "fetching"}
    /\ Fail
    /\ req' = [req EXCEPT ![r].pc = "querying", ![r].version = Nothing]
    /\ UNCHANGED <<deployment, rowVars, cacheVars, catalogVars>>

\* SELECT.  That there is no row is not remembered.
Query(r) ==
    /\ req[r].pc = "querying"
    /\ IF commits[Last] = Absent
       THEN Leave(r)
       ELSE req' = [req EXCEPT ![r].serial = Last,
                ![r].pc = IF req[r].version = Nothing THEN "answering" ELSE "storing"]
    /\ UNCHANGED <<deployment, rowVars, cacheVars, catalogVars, failures>>

\* Mutant: the entry is stored under the version of the moment.
StoreUnderLatest(r) ==
    /\ req[r].pc = "storing"
    /\ cached' = [v \in Versions |->
          IF v = version THEN req[r].serial
          ELSE IF deployment = "single" THEN Nothing ELSE cached[v]]
    /\ Goto(r, "answering")
    /\ UNCHANGED <<deployment, rowVars, version, advanced, catalogVars, failures>>

\* The entry is stored under the version that was loaded.  In memory it replaces
\* the row's entry, be that of a later version.
Store(r) ==
    /\ req[r].pc = "storing"
    /\ cached' = [v \in Versions |->
          IF v = req[r].version THEN req[r].serial
          ELSE IF deployment = "single" THEN Nothing ELSE cached[v]]
    /\ Goto(r, "answering")
    /\ UNCHANGED <<deployment, rowVars, version, advanced, catalogVars, failures>>

Answer(r) ==
    /\ req[r].pc = "answering"
    /\ Leave(r)
    /\ UNCHANGED <<deployment, rowVars, cacheVars, catalogVars, failures>>

\* The entry's time to live ends.
Expire(v) ==
    /\ cached[v] # Nothing
    /\ cached' = [cached EXCEPT ![v] = Nothing]
    /\ UNCHANGED <<deployment, rowVars, version, advanced, catalogVars, req, failures>>
-----------------------------------------------------------------------------
(* Writing: Create, Update and Delete.                                      *)

\* Delete finds a row, an Update that expects a value finds that value.  Create
\* and Update find what they need.
Accepts(content, expected) ==
    /\ content = Absent => commits[Last] # Absent
    /\ expected \in {Absent, commits[Last]}

Accepted(r) == Accepts(req[r].content, req[r].expected)

\* A writer that names the value he expects has seen it some time ago.
Brings(r) ==
    \E c \in Contents, e \in {Absent} \cup {commits[i] : i \in 1 .. Last} :
       /\ c = Absent => e = Absent
       /\ Accepts(c, e)
       /\ req' = [req EXCEPT ![r] = [Idle EXCEPT
             !.pc = "committing", !.content = c, !.expected = e]]

\* Mutant: the comparison is made without FOR UPDATE.
CompareUnlocked(r) ==
    /\ req[r].pc = "idle"
    /\ Brings(r)
    /\ locker' = r
    /\ UNCHANGED <<deployment, commits, cacheVars, catalogVars, failures>>

\* A write begins with the statement that locks the row, until the end; one that is
\* not accepted leaves nothing behind.
Lock(r) ==
    /\ req[r].pc = "idle"
    /\ locker = Nobody
    /\ Brings(r)
    /\ locker' = r
    /\ UNCHANGED <<deployment, commits, cacheVars, catalogVars, failures>>

Commit(r) ==
    /\ req[r].pc = "committing"
    /\ Last < MaxCommits
    /\ commits' = Append(commits, req[r].content)
    /\ locker' = Nobody
    /\ req' = [req EXCEPT ![r] = [Idle EXCEPT !.pc = "invalidating"]]
    /\ UNCHANGED <<deployment, cacheVars, catalogVars, failures>>

\* Mutant: the transaction is left open.
RollbackHolding(r) ==
    /\ req[r].pc = "committing"
    /\ Last = MaxCommits \/ failures < MaxFailures
    /\ failures' = IF Last = MaxCommits THEN failures ELSE failures + 1
    /\ Leave(r)
    /\ UNCHANGED <<deployment, rowVars, cacheVars, catalogVars>>

Rollback(r) ==
    /\ req[r].pc = "committing"
    /\ Last = MaxCommits \/ failures < MaxFailures
    /\ locker' = Nobody
    /\ failures' = IF Last = MaxCommits THEN failures ELSE failures + 1
    /\ Leave(r)
    /\ UNCHANGED <<deployment, commits, cacheVars, catalogVars>>

\* INCR, or the memory cache's step under the mutex, which clears the map.
Advance ==
    /\ version < MaxVersion
    /\ version' = version + 1
    /\ cached' = IF deployment = "single" THEN [v \in Versions |-> Nothing] ELSE cached
    /\ advanced' = Last

AfterInvalidation(r) ==
    IF Elsewhere(r) THEN Leave(r) ELSE Goto(r, "waiting")

Invalidate(r) ==
    /\ req[r].pc = "invalidating"
    /\ Advance
    /\ AfterInvalidation(r)
    /\ UNCHANGED <<deployment, rowVars, catalogVars, failures>>

\* The reply is lost: the writer tries again, and the version moves twice.
InvalidateUnacknowledged(r) ==
    /\ deployment = "replicas"
    /\ req[r].pc = "invalidating"
    /\ Fail
    /\ Advance
    /\ UNCHANGED <<deployment, rowVars, catalogVars, req>>

\* Three attempts or a second are over: the write stands, the version too.
GiveUp(r) ==
    /\ req[r].pc = "invalidating"
    /\ \/ version = MaxVersion
       \/ deployment = "replicas" /\ failures < MaxFailures
    /\ failures' = IF version = MaxVersion THEN failures ELSE failures + 1
    /\ AfterInvalidation(r)
    /\ UNCHANGED <<deployment, rowVars, cacheVars, catalogVars>>
-----------------------------------------------------------------------------
(* The installed catalog.                                                   *)

\* The worker's tick.
Refresh ==
    /\ req[Worker].pc = "idle"
    /\ Goto(Worker, "waiting")
    /\ UNCHANGED <<deployment, rowVars, cacheVars, catalogVars, failures>>

\* Mutant: no gate.
EnterUngated(r) ==
    /\ req[r].pc = "waiting"
    /\ gate' = r
    /\ Goto(r, "selecting")
    /\ UNCHANGED <<deployment, rowVars, cacheVars, installed, raw, failures>>

EnterGate(r) ==
    /\ req[r].pc = "waiting"
    /\ gate = Nobody
    /\ gate' = r
    /\ Goto(r, "selecting")
    /\ UNCHANGED <<deployment, rowVars, cacheVars, installed, raw, failures>>

Select(r) ==
    /\ req[r].pc = "selecting"
    /\ req' = [req EXCEPT ![r].pc = "installing", ![r].serial = Last]
    /\ UNCHANGED <<deployment, rowVars, cacheVars, catalogVars, failures>>

\* Mutant: localizationRaw is kept when the catalog is reset.
InstallKeepingRaw(r) ==
    /\ req[r].pc = "installing"
    /\ LET found == req[r].serial
       IN  IF commits[found] = Absent
           THEN installed' = found /\ UNCHANGED raw
           ELSE IF raw # Nothing /\ commits[raw] = commits[found]
           THEN UNCHANGED <<installed, raw>>
           ELSE installed' = found /\ raw' = found
    /\ gate' = Nobody
    /\ Leave(r)
    /\ UNCHANGED <<deployment, rowVars, cacheVars, failures>>

\* Reset when there is no row; nothing when it is what was installed last.
Install(r) ==
    /\ req[r].pc = "installing"
    /\ LET found == req[r].serial
       IN  IF commits[found] = Absent
           THEN installed' = found /\ raw' = Nothing
           ELSE IF raw # Nothing /\ commits[raw] = commits[found]
           THEN UNCHANGED <<installed, raw>>
           ELSE installed' = found /\ raw' = found
    /\ gate' = Nobody
    /\ Leave(r)
    /\ UNCHANGED <<deployment, rowVars, cacheVars, failures>>

\* The wait for the gate or the SELECT fails: the last snapshot stays.
RefreshFails(r) ==
    /\ req[r].pc \in {"waiting", "selecting"}
    /\ Fail
    /\ gate' = IF gate = r THEN Nobody ELSE gate
    /\ Leave(r)
    /\ UNCHANGED <<deployment, rowVars, cacheVars, installed, raw>>
-----------------------------------------------------------------------------
\* This process crashes and starts again: its requests are lost, and with the
\* memory cache its entries and version.  Replicas go on.
Restart ==
    /\ Fail
    /\ req' = [r \in Actors |-> IF Elsewhere(r) THEN req[r] ELSE Idle]
    /\ locker' = IF locker # Nobody /\ ~Elsewhere(locker) THEN Nobody ELSE locker
    /\ gate' = Nobody
    /\ installed' = Last
    /\ raw' = IF commits[Last] = Absent THEN Nothing ELSE Last
    /\ IF deployment = "single"
       THEN /\ version' = 1
            /\ cached' = [v \in Versions |-> Nothing]
            /\ advanced' = Last
       ELSE UNCHANGED cacheVars
    /\ UNCHANGED <<deployment, commits>>

\* The write of another row of the namespace.
WriteOther ==
    /\ Advance
    /\ UNCHANGED <<deployment, rowVars, catalogVars, req, failures>>

\* Steps that a handler takes by itself.
Handle(r) ==
    \/ LoadVersion(r)
    \/ LoadValue(r)
    \/ LoadMemory(r)
    \/ Query(r)
    \/ Store(r)
    \/ Answer(r)
    \/ Commit(r)
    \/ Rollback(r)
    \/ Invalidate(r)
    \/ GiveUp(r)
    \/ EnterGate(r)
    \/ Select(r)
    \/ Install(r)

Next ==
    \/ \E r \in Requests : Read(r) \/ Lock(r)
    \/ \E r \in Requests : LoadFails(r) \/ InvalidateUnacknowledged(r)
    \/ \E r \in Actors : Handle(r) \/ RefreshFails(r)
    \/ \E v \in Versions : Expire(v)
    \/ Refresh
    \/ Restart
    \/ WriteOther

Spec == Init /\ [][Next]_vars

\* Who holds the gate goes on, the worker ticks and finds its turn at the gate,
\* whose waiters are served in order, and entries expire.  Readers and writers may
\* stop anywhere.  Every such step changes the variable of its subscript.
FairSpec ==
    /\ Spec
    /\ \A r \in Actors : WF_req(Select(r) \/ Install(r))
    /\ SF_gate(EnterGate(Worker))
    /\ WF_req(Refresh)
    /\ \A v \in Versions : WF_cached(Expire(v))
-----------------------------------------------------------------------------
(* What must hold.                                                          *)

\* rds/cache.go, NamespaceCache: "A stale read stores under its original version
\* and cannot repopulate a newer generation".  No entry that can still be hit,
\* and none on its way into the cache, is older than what was committed when the
\* version was last advanced.
NamespaceFresh ==
    /\ cached[version] # Nothing => cached[version] >= advanced
    /\ \A r \in Actors :
          req[r].pc = "storing" /\ req[r].version = version => req[r].serial >= advanced

\* A reader is never answered with anything older than what had been committed
\* when the version was last advanced before it began.
AnswersAreFresh ==
    \A r \in Actors : req[r].pc = "answering" => req[r].serial >= req[r].floor

\* What a request shows of itself to its client while it reads.
Reader(r) ==
    CASE req[r].pc \in {"loading", "fetching", "querying", "storing"} ->
            [stage |-> "reading", floor |-> req[r].floor, answer |-> 0]
      [] req[r].pc = "answering" ->
            [stage |-> "answering", floor |-> req[r].floor, answer |-> req[r].serial]
      [] OTHER -> [stage |-> "idle", floor |-> 0, answer |-> 0]

Shown == [r \in Requests |-> Reader(r)]

Register == INSTANCE DictionaryRegister WITH
    Readers <- Requests,
    history <- commits,
    published <- advanced,
    reader <- Shown

\* The cache, its versions, the entries that expire or are stored late, and the
\* replicas together behave like one register: an answer is a content that was
\* committed and is no older than the last invalidation before the reader began,
\* a row that is there is never reported missing, and the catalog of the process
\* moves forward only, from the row as it is when the process starts.
KeepsRegisterPromise == Register!Spec

\* "A concurrent update after the editor's preflight must not be overwritten":
\* a write that names the value it expects replaces that value and no other.
NoLostUpdate ==
    [][\A r \in Requests :
          req[r].pc = "committing" /\ req'[r].pc = "invalidating"
          => req[r].expected \in {Absent, commits[Last]}]_vars

\* A process never goes back to an older catalog, whichever of its refreshes is
\* slow.
CatalogNeverGoesBack == [][installed' >= installed]_vars

\* The inductive invariant: what ties a request's memory to the cache, the row and
\* the catalog.
ReadersOK ==
    \A r \in Actors :
        /\ req[r].version <= version
        /\ req[r].floor <= advanced
        /\ req[r].pc \in {"fetching", "storing"} => req[r].version # Nothing
        /\ req[r].pc = "storing" => req[r].serial >= req[r].floor
        /\ req[r].pc = "fetching" =>
              /\ LET hit == cached[req[r].version]
                 IN  hit # Nothing => hit >= req[r].floor
              /\ \A s \in Actors :
                    req[s].pc = "storing" /\ req[s].version = req[r].version
                    => req[s].serial >= req[r].floor

CacheOK ==
    /\ advanced <= Last
    /\ \A v \in Versions : v > version => cached[v] = Nothing

WritersOK ==
    \A r \in Actors : req[r].pc = "committing" => locker = r /\ Accepted(r)

CatalogOK ==
    /\ installed <= Last /\ raw <= Last
    /\ \A r \in Actors :
          /\ req[r].pc \in {"selecting", "installing"} => gate = r
          /\ req[r].pc = "installing" => req[r].serial \in installed .. Last
          /\ req[r].pc \in {"waiting", "selecting", "installing"} => ~Elsewhere(r)
    /\ req[Worker].pc \in {"idle", "waiting", "selecting", "installing"}

\* What may be hit, stored or answered is a content, never the lack of one.
Real(serial) == serial \in 1 .. Last /\ commits[serial] # Absent

EntriesExist ==
    /\ \A v \in Versions : cached[v] # Nothing => Real(cached[v])
    /\ \A r \in Actors : req[r].pc \in {"storing", "answering"} => Real(req[r].serial)

\* No answer is stale, no update is lost and the catalog does not go back, because
\* what a request remembers agrees with the cache, the row and the catalog.
Coherent ==
    /\ TypeOK
    /\ ReadersOK
    /\ CacheOK
    /\ NamespaceFresh
    /\ AnswersAreFresh
    /\ WritersOK
    /\ CatalogOK

\* What the run checks and the proofs rest on: besides, nothing that may be hit or
\* answered is the lack of a content.
Inv == Coherent /\ EntriesExist

\* Once the writes have ceased, every process has the last catalog installed and
\* the cache holds nothing else, though invalidations may have failed.
Converges ==
    <>[](/\ commits[installed] = commits[Last]
         /\ cached[version] # Nothing => commits[cached[version]] = commits[Last])
=============================================================================
