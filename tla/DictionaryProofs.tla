--------------------------- MODULE DictionaryProofs ---------------------------
(***************************************************************************)
(* Theorems about Dictionary, for every set of requests and contents and   *)
(* every bound.                                                            *)
(*                                                                         *)
(* Coherent is inductive: one lemma for each action says that it keeps Coherent, part *)
(* by part, and ReadersFrame takes over for the many actions that leave    *)
(* readers alone or only take entries away.  The rest follows from Coherent.    *)
(***************************************************************************)
EXTENDS Dictionary, TLAPS

\* A request that does nothing has its type.
LEMMA IdleTyped == Idle \in Request
  BY DictionaryConfig DEF Idle, Request, Steps, Contents, Serials, Nothing

\* What readers are owed stays so when no entry changes but by going, and when
\* every request keeps what it has or begins without a promise to keep.
LEMMA ReadersFrame ==
    ASSUME Coherent,
           \A v \in Versions : cached'[v] \in {cached[v], Nothing},
           \A q \in Actors :
              \/ /\ req'[q] = req[q]
                 /\ version <= version' /\ advanced <= advanced'
              \/ /\ req'[q].pc \notin {"fetching", "storing"}
                 /\ req'[q].version <= version' /\ req'[q].floor <= advanced',
           version' \in Int, advanced' \in Int
    PROVE  ReadersOK'
<1> SUFFICES ASSUME NEW q \in Actors
             PROVE
        /\ req'[q].version <= version'
        /\ req'[q].floor <= advanced'
        /\ req'[q].pc \in {"fetching", "storing"} => req'[q].version # Nothing
        /\ req'[q].pc = "storing" => req'[q].serial >= req'[q].floor
        /\ req'[q].pc = "fetching" =>
              /\ cached'[req'[q].version] # Nothing => cached'[req'[q].version] >= req'[q].floor
              /\ \A s \in Actors :
                    req'[s].pc = "storing" /\ req'[s].version = req'[q].version
                    => req'[s].serial >= req'[q].floor
  BY DEF ReadersOK
<1>1. /\ req[q].version \in Versions \cup {Nothing} /\ req[q].floor \in Serials
      /\ version \in Int /\ advanced \in Int /\ req[q].version \in Int /\ req[q].floor \in Int
  BY DictionaryConfig DEF Coherent, TypeOK, Request, Versions, Serials, Nothing
<1>2. CASE req'[q].pc \notin {"fetching", "storing"} /\ req'[q].version <= version' /\ req'[q].floor <= advanced'
  BY <1>2
<1>3. CASE req'[q] = req[q] /\ version <= version' /\ advanced <= advanced'
  <2>1. /\ req[q].version <= version /\ req[q].floor <= advanced
        /\ req[q].pc \in {"fetching", "storing"} => req[q].version # Nothing
        /\ req[q].pc = "storing" => req[q].serial >= req[q].floor
    BY DEF Coherent, ReadersOK
  <2>2. ASSUME req[q].pc = "fetching"
        PROVE  cached'[req[q].version] # Nothing => cached'[req[q].version] >= req[q].floor
    <3>1. req[q].version \in Versions
      BY <1>1, <2>1, <2>2
    <3>2. cached[req[q].version] # Nothing => cached[req[q].version] >= req[q].floor
      BY <2>2 DEF Coherent, ReadersOK
    <3> QED  BY <3>1, <3>2
  <2>3. ASSUME req[q].pc = "fetching", NEW s \in Actors,
               req'[s].pc = "storing" /\ req'[s].version = req[q].version
        PROVE  req'[s].serial >= req[q].floor
    <3>1. req'[s] = req[s]
      BY <2>3
    <3> QED  BY <2>3, <3>1 DEF Coherent, ReadersOK
  <2> QED  BY <1>1, <1>3, <2>1, <2>2, <2>3
<1> QED  BY <1>2, <1>3

\* The actions, in the order of Next.  Readers: DictionaryValue, Get and the caches.
LEMMA ReadKeeps ==
    ASSUME Coherent, NEW r \in Requests, Read(r)
    PROVE  Coherent'
<1> USE DictionaryConfig DEF Coherent
<1>1. req' \in [Actors -> Request]
  BY IdleTyped DEF Read, TypeOK, Request, Steps
<1>2. TypeOK'
  BY <1>1 DEF Read, rowVars, cacheVars, catalogVars, TypeOK, Last
<1>3. ReadersOK'
  <2>1. version' \in Int /\ advanced' \in Int /\ version \in Int /\ advanced \in Int
    BY <1>2 DEF TypeOK, Versions, Serials
  <2>2. \A v \in Versions : cached'[v] \in {cached[v], Nothing}
    BY DEF Read, cacheVars
  <2>3. /\ req[r].version \in Int /\ req[r].version <= version
        /\ req[r].floor \in Int /\ req[r].floor <= advanced
    BY DEF TypeOK, ReadersOK, Request, Versions, Serials, Nothing, Actors
  <2>4. version <= version' /\ advanced <= advanced' /\ 0 <= version /\ 0 <= advanced
    BY <1>2 DEF Read, cacheVars, TypeOK, Versions, Serials
  <2>5. \A q \in Actors \ {r} : req'[q] = req[q]
    BY DEF Read
  <2>6. /\ req'[r].pc \notin {"fetching", "storing"}
        /\ req'[r].version <= version' /\ req'[r].floor <= advanced'
    BY <2>1, <2>3, <2>4 DEF Read, Idle, Nothing
  <2> QED  BY ReadersFrame, <2>1, <2>2, <2>4, <2>5, <2>6
<1>4. CacheOK'
  BY DEF Read, rowVars, cacheVars, CacheOK, Last
<1>5. NamespaceFresh'
  BY DEF Read, cacheVars, NamespaceFresh
<1>6. AnswersAreFresh'
  BY DEF Read, AnswersAreFresh
<1>7. WritersOK'
  BY DEF Read, rowVars, WritersOK, Accepted, Accepts, Last
<1>8. CatalogOK'
  BY DEF Read, rowVars, catalogVars, CatalogOK, Elsewhere, Last
<1> QED  BY <1>2, <1>3, <1>4, <1>5, <1>6, <1>7, <1>8

LEMMA LoadVersionKeeps ==
    ASSUME Coherent, NEW r \in Actors, LoadVersion(r)
    PROVE  Coherent'
<1> USE DictionaryConfig DEF Coherent
<1>1. req' \in [Actors -> Request]
  <2>1. [req[r] EXCEPT !.pc = "fetching", !.version = version] \in Request
    BY DEF TypeOK, Request, Steps
  <2> QED  BY <2>1 DEF LoadVersion, TypeOK
<1>2. TypeOK'
  BY <1>1 DEF LoadVersion, rowVars, cacheVars, catalogVars, TypeOK, Actors, Last
<1>3. ReadersOK'
  <2>1. /\ \A q \in Actors \ {r} : req'[q] = req[q]
        /\ req'[r].pc = "fetching" /\ req'[r].version = version /\ req'[r].floor = req[r].floor
        /\ UNCHANGED <<version, advanced, cached>>
    BY DEF LoadVersion, TypeOK, cacheVars
  <2>2. /\ version \in 1 .. MaxVersion /\ advanced \in Int
        /\ req[r].floor \in Int /\ req[r].floor <= advanced
    BY DEF TypeOK, Versions, Serials, ReadersOK, Request
  <2>3. cached[version] \in Int /\ (cached[version] # Nothing => cached[version] >= advanced)
    BY DEF TypeOK, Serials, NamespaceFresh
  <2>4. \A s \in Actors : req[s].serial \in Int /\ req[s].version <= version /\ req[s].floor <= advanced
    BY DEF TypeOK, Serials, ReadersOK, Request
  <2>5. \A s \in Actors : req[s].pc = "storing" /\ req[s].version = version => req[s].serial >= advanced
    BY DEF NamespaceFresh
  <2>6. ASSUME NEW q \in Actors \ {r}, req[q].pc = "fetching", NEW s \in Actors,
               req'[s].pc = "storing", req'[s].version = req[q].version
        PROVE  req'[s].serial >= req[q].floor
    BY <2>1, <2>6 DEF ReadersOK
  <2>7. ASSUME NEW s \in Actors, req'[s].pc = "storing", req'[s].version = version
        PROVE  req'[s].serial >= req[r].floor
    <3>1. s # r /\ req'[s] = req[s]
      BY <2>1, <2>7
    <3> QED  BY <3>1, <2>2, <2>4, <2>5, <2>7
  <2>8. \A q \in Actors \ {r} :
           /\ req[q].pc \in {"fetching", "storing"} => req[q].version # Nothing
           /\ req[q].pc = "fetching" /\ cached[req[q].version] # Nothing
              => cached[req[q].version] >= req[q].floor
    BY DEF ReadersOK
  <2>9. \A q \in Actors \ {r} : req[q].pc = "storing" => req[q].serial >= req[q].floor
    BY DEF ReadersOK
  <2> QED  BY <2>1, <2>2, <2>3, <2>4, <2>6, <2>7, <2>8, <2>9 DEF ReadersOK, Nothing
<1>4. CacheOK'
  BY DEF LoadVersion, rowVars, cacheVars, CacheOK, Last
<1>5. NamespaceFresh'
  BY DEF LoadVersion, cacheVars, NamespaceFresh, TypeOK
<1>6. AnswersAreFresh'
  BY DEF LoadVersion, AnswersAreFresh, TypeOK
<1>7. WritersOK'
  BY DEF LoadVersion, rowVars, WritersOK, Accepted, Accepts, TypeOK, Last
<1>8. CatalogOK'
  BY DEF LoadVersion, rowVars, catalogVars, CatalogOK, Elsewhere, TypeOK, Actors, Last
<1> QED  BY <1>2, <1>3, <1>4, <1>5, <1>6, <1>7, <1>8

LEMMA LoadValueKeeps ==
    ASSUME Coherent, NEW r \in Actors, LoadValue(r)
    PROVE  Coherent'
<1> USE DictionaryConfig DEF Coherent
<1>1. req' \in [Actors -> Request]
  <2>1. req[r].version \in Versions /\ cached[req[r].version] \in Serials
    BY DEF LoadValue, TypeOK, ReadersOK, Request
  <2> QED  BY <2>1 DEF LoadValue, Looked, TypeOK, Request
<1>2. TypeOK'
  BY <1>1 DEF LoadValue, Looked, rowVars, cacheVars, catalogVars, TypeOK, Actors, Last
<1>3. ReadersOK'
  <2>1. version' \in Int /\ advanced' \in Int /\ version \in Int /\ advanced \in Int
    BY <1>2 DEF TypeOK, Versions, Serials
  <2>2. \A v \in Versions : cached'[v] \in {cached[v], Nothing}
    BY DEF LoadValue, cacheVars
  <2>3. /\ req[r].version \in Int /\ req[r].version <= version
        /\ req[r].floor \in Int /\ req[r].floor <= advanced
    BY DEF TypeOK, ReadersOK, Request, Versions, Serials, Nothing
  <2>4. version <= version' /\ advanced <= advanced' /\ 0 <= version /\ 0 <= advanced
    BY <1>2 DEF LoadValue, cacheVars, TypeOK, Versions, Serials
  <2>5. \A q \in Actors \ {r} : req'[q] = req[q]
    BY DEF LoadValue, Looked, TypeOK
  <2>6. /\ req'[r].pc \notin {"fetching", "storing"}
        /\ req'[r].version <= version' /\ req'[r].floor <= advanced'
    BY <2>1, <2>3, <2>4 DEF LoadValue, Looked, TypeOK
  <2> QED  BY ReadersFrame, <2>1, <2>2, <2>4, <2>5, <2>6
<1>4. CacheOK'
  BY DEF LoadValue, rowVars, cacheVars, CacheOK, Last
<1>5. NamespaceFresh'
  <2>1. version' = version /\ advanced' = advanced /\ cached' = cached
    BY DEF LoadValue, cacheVars
  <2>2. \A q \in Actors \ {r} : req'[q] = req[q]
    BY DEF LoadValue, Looked, TypeOK
  <2>3. req'[r].pc # "storing"
    BY DEF LoadValue, Looked, TypeOK, Request
  <2>4. NamespaceFresh
    OBVIOUS
  <2> HIDE DEF Coherent
  <2> QED  BY <2>1, <2>2, <2>3, <2>4 DEF NamespaceFresh
<1>6. AnswersAreFresh'
  BY DEF LoadValue, Looked, AnswersAreFresh, ReadersOK, TypeOK
<1>7. WritersOK'
  BY DEF LoadValue, Looked, WritersOK, TypeOK, Request
<1>8. CatalogOK'
  BY DEF LoadValue, Looked, rowVars, catalogVars, CatalogOK, Elsewhere, TypeOK, Actors, Last
<1> QED  BY <1>2, <1>3, <1>4, <1>5, <1>6, <1>7, <1>8

LEMMA LoadMemoryKeeps ==
    ASSUME Coherent, NEW r \in Actors, LoadMemory(r)
    PROVE  Coherent'
<1> USE DictionaryConfig DEF Coherent
<1>1. req' \in [Actors -> Request]
  <2>1. version \in Versions /\ cached[version] \in Serials
    BY DEF TypeOK
  <2> QED  BY <2>1 DEF LoadMemory, Looked, TypeOK, Request
<1>2. TypeOK'
  <2>1. cached' \in [Versions -> Serials]
    BY DEF LoadMemory, TypeOK, Serials, Nothing
  <2>2. req[r].pc = "loading" /\ \A q \in Actors \ {r} : req'[q] = req[q]
    BY DEF LoadMemory, Looked, TypeOK
  <2> QED  BY <1>1, <2>1, <2>2 DEF LoadMemory, TypeOK, rowVars, catalogVars, Last, Actors
<1>3. ReadersOK'
  <2>1. version' \in Int /\ advanced' \in Int /\ version \in Int /\ advanced \in Int
    BY <1>2 DEF TypeOK, Versions, Serials
  <2>2. \A v \in Versions : cached'[v] \in {cached[v], Nothing}
    BY DEF LoadMemory
  <2>3. /\ req[r].version \in Int /\ req[r].version <= version
        /\ req[r].floor \in Int /\ req[r].floor <= advanced
    BY DEF TypeOK, ReadersOK, Request, Versions, Serials, Nothing
  <2>4. version <= version' /\ advanced <= advanced' /\ 0 <= version /\ 0 <= advanced
    BY <1>2 DEF LoadMemory, TypeOK, Versions, Serials
  <2>5. \A q \in Actors \ {r} : req'[q] = req[q]
    BY DEF LoadMemory, Looked, TypeOK
  <2>6. /\ req'[r].pc \notin {"fetching", "storing"}
        /\ req'[r].version <= version' /\ req'[r].floor <= advanced'
    BY <2>1, <2>3, <2>4 DEF LoadMemory, Looked, TypeOK
  <2> QED  BY ReadersFrame, <2>1, <2>2, <2>4, <2>5, <2>6
<1>4. CacheOK'
  BY DEF LoadMemory, rowVars, CacheOK, Last
<1>5. NamespaceFresh'
  BY DEF LoadMemory, Looked, NamespaceFresh, TypeOK
<1>6. AnswersAreFresh'
  BY DEF LoadMemory, Looked, AnswersAreFresh, ReadersOK, CacheOK, TypeOK, Request, Last
<1>7. WritersOK'
  BY DEF LoadMemory, Looked, WritersOK, TypeOK, Request
<1>8. CatalogOK'
  BY DEF LoadMemory, Looked, rowVars, catalogVars, CatalogOK, Elsewhere, TypeOK, Actors, Last
<1> QED  BY <1>2, <1>3, <1>4, <1>5, <1>6, <1>7, <1>8

LEMMA LoadFailsKeeps ==
    ASSUME Coherent, NEW r \in Requests, LoadFails(r)
    PROVE  Coherent'
<1> USE DictionaryConfig DEF Coherent
<1>1. req' \in [Actors -> Request]
  <2>1. req[r] \in Request
    BY DEF TypeOK, Actors
  <2>2. [req[r] EXCEPT !.pc = "querying", !.version = Nothing] \in Request
    <3> HIDE DEF Coherent
    <3> QED  BY <2>1 DEF Request, Steps
  <2> QED  BY <2>2 DEF LoadFails, TypeOK
<1>2. TypeOK'
  <2>1. failures' \in 0 .. MaxFailures
    BY DEF LoadFails, Fail, TypeOK
  <2>2. req[r].pc \in {"loading", "fetching"} /\ \A q \in Actors \ {r} : req'[q] = req[q]
    BY DEF LoadFails, TypeOK
  <2> QED  BY <1>1, <2>1, <2>2 DEF
      LoadFails, TypeOK, rowVars, cacheVars, catalogVars, Last, Actors
<1>3. ReadersOK'
  <2>1. version' \in Int /\ advanced' \in Int /\ version \in Int /\ advanced \in Int
    BY <1>2 DEF TypeOK, Versions, Serials
  <2>2. \A v \in Versions : cached'[v] \in {cached[v], Nothing}
    BY DEF LoadFails, cacheVars
  <2>3. /\ req[r].version \in Int /\ req[r].version <= version
        /\ req[r].floor \in Int /\ req[r].floor <= advanced
    BY DEF TypeOK, ReadersOK, Request, Versions, Serials, Nothing, Actors
  <2>4. version <= version' /\ advanced <= advanced' /\ 0 <= version /\ 0 <= advanced
    <3>1. version' = version /\ advanced' = advanced
      BY DEF LoadFails, cacheVars
    <3>2. version \in Int /\ advanced \in Int /\ 0 <= version /\ 0 <= advanced
      BY DEF TypeOK, Versions, Serials
    <3> HIDE DEF Coherent
    <3> QED  BY <3>1, <3>2
  <2>5. \A q \in Actors \ {r} : req'[q] = req[q]
    BY DEF LoadFails, TypeOK
  <2>6. /\ req'[r].pc \notin {"fetching", "storing"}
        /\ req'[r].version <= version' /\ req'[r].floor <= advanced'
    BY <2>1, <2>3, <2>4 DEF LoadFails, TypeOK, Nothing, Actors
  <2> QED  BY ReadersFrame, <2>1, <2>2, <2>4, <2>5, <2>6
<1>4. CacheOK'
  BY DEF LoadFails, rowVars, cacheVars, CacheOK, Last
<1>5. NamespaceFresh'
  BY DEF LoadFails, cacheVars, NamespaceFresh, TypeOK
<1>6. AnswersAreFresh'
  BY DEF LoadFails, AnswersAreFresh, TypeOK
<1>7. WritersOK'
  BY DEF LoadFails, rowVars, WritersOK, Accepted, Accepts, TypeOK, Last
<1>8. CatalogOK'
  BY DEF LoadFails, rowVars, catalogVars, CatalogOK, Elsewhere, TypeOK, Actors, Last
<1> QED  BY <1>2, <1>3, <1>4, <1>5, <1>6, <1>7, <1>8

LEMMA QueryKeeps ==
    ASSUME Coherent, NEW r \in Actors, Query(r)
    PROVE  Coherent'
<1> USE DictionaryConfig DEF Coherent
<1>1. req' \in [Actors -> Request]
  <2>1. Last \in Serials
    BY DEF TypeOK, Serials
  <2>2. CASE commits[Last] = Absent
    BY <2>2, IdleTyped DEF Query, Leave, TypeOK
  <2>3. CASE commits[Last] # Absent
    BY <2>1, <2>3 DEF Query, TypeOK, Request
  <2> QED  BY <2>2, <2>3
<1>2. TypeOK'
  BY <1>1 DEF Query, Leave, rowVars, cacheVars, catalogVars, TypeOK, Actors, Last
<1>3. ReadersOK'
  <2>1. /\ \A q \in Actors \ {r} : req'[q] = req[q]
        /\ \/ req'[r] = Idle
           \/ req'[r].pc = "answering" /\ req'[r].version = req[r].version /\ req'[r].floor = req[r].floor
           \/ /\ req'[r].pc = "storing" /\ req'[r].version = req[r].version
              /\ req'[r].floor = req[r].floor /\ req'[r].serial = Last
              /\ req[r].version # Nothing
        /\ UNCHANGED <<version, advanced, cached>>
    BY DEF Query, Leave, TypeOK, cacheVars, Request
  <2>2. \A q \in Actors :
           /\ req[q].version <= version /\ req[q].floor <= advanced
           /\ req[q].floor \in Int
    BY DEF TypeOK, Serials, ReadersOK, Request
  <2>3. version \in Int /\ 0 <= version /\ advanced \in Int /\ 0 <= advanced
        /\ Last \in Int /\ advanced <= Last
    BY DEF TypeOK, Serials, CacheOK
  <2>4. ASSUME NEW q \in Actors, req'[q].pc = "fetching", NEW s \in Actors,
               req'[s].pc = "storing", req'[s].version = req'[q].version
        PROVE  req'[s].serial >= req'[q].floor
    <3>1. q # r /\ req'[q] = req[q]
      BY <2>1, <2>4 DEF Idle
    <3>2. CASE s = r
      BY <3>1, <3>2, <2>1, <2>2, <2>3, <2>4 DEF Idle
    <3>3. CASE s # r
      BY <3>1, <3>3, <2>1, <2>4 DEF ReadersOK
    <3> QED  BY <3>2, <3>3
  <2>5. ASSUME NEW q \in Actors
        PROVE  /\ req'[q].version <= version' /\ req'[q].floor <= advanced'
               /\ req'[q].pc \in {"fetching", "storing"} => req'[q].version # Nothing
               /\ req'[q].pc = "storing" => req'[q].serial >= req'[q].floor
               /\ req'[q].pc = "fetching" /\ cached'[req'[q].version] # Nothing
                  => cached'[req'[q].version] >= req'[q].floor
    <3>1. CASE q = r
      BY <3>1, <2>1, <2>2, <2>3 DEF Idle, Nothing
    <3>2. CASE q # r
      BY <3>2, <2>1 DEF ReadersOK
    <3> QED  BY <3>1, <3>2
  <2>6. ASSUME NEW q \in Actors, req'[q].pc = "fetching"
        PROVE  \A s \in Actors :
                  req'[s].pc = "storing" /\ req'[s].version = req'[q].version
                  => req'[s].serial >= req'[q].floor
    BY <2>4, <2>6
  <2> HIDE DEF Coherent
  <2> QED  BY <2>5, <2>6 DEF ReadersOK
<1>4. CacheOK'
  BY DEF Query, rowVars, cacheVars, CacheOK, Last
<1>5. NamespaceFresh'
  <2>1. /\ version' = version /\ advanced' = advanced /\ cached' = cached
        /\ advanced <= Last
    BY DEF Query, cacheVars, CacheOK
  <2>2. \A q \in Actors \ {r} : req'[q] = req[q]
    BY DEF Query, Leave, TypeOK
  <2>3. req'[r].pc = "storing" => req'[r].serial = Last
    <3>1. CASE commits[Last] = Absent
      BY <3>1 DEF Query, Leave, TypeOK, Idle
    <3>2. CASE commits[Last] # Absent
      BY <3>2 DEF Query, TypeOK, Request
    <3> QED  BY <3>1, <3>2
  <2>4. /\ cached[version] # Nothing => cached[version] >= advanced
        /\ \A q \in Actors :
              req[q].pc = "storing" /\ req[q].version = version => req[q].serial >= advanced
    BY DEF NamespaceFresh
  <2>5. Last >= advanced
    <3>1. Last \in Int /\ advanced \in Int
      BY DEF TypeOK, Serials
    <3> QED  BY <2>1, <3>1
  <2> HIDE DEF Coherent
  <2>6. ASSUME NEW q \in Actors, req'[q].pc = "storing", req'[q].version = version
        PROVE  req'[q].serial >= advanced
    <3>1. CASE q = r
      BY <2>3, <2>5, <2>6, <3>1
    <3>2. CASE q # r
      BY <2>2, <2>4, <2>6, <3>2
    <3> QED  BY <3>1, <3>2
  <2> QED  BY <2>1, <2>4, <2>6 DEF NamespaceFresh
<1>6. AnswersAreFresh'
  <2>1. \A q \in Actors \ {r} : req'[q] = req[q]
    BY DEF Query, Leave, TypeOK
  <2>2. req'[r].pc = "answering" => req'[r].serial = Last /\ req'[r].floor = req[r].floor
    BY DEF Query, Leave, TypeOK, Request, Idle
  <2>3. req[r].floor \in Int /\ req[r].floor <= advanced /\ advanced \in Int
        /\ Last \in Int /\ advanced <= Last
    BY DEF TypeOK, Serials, ReadersOK, Request, CacheOK
  <2> QED  BY <2>1, <2>2, <2>3 DEF AnswersAreFresh
<1>7. WritersOK'
  BY DEF Query, Leave, rowVars, WritersOK, Accepted, Accepts, TypeOK, Request, Idle, Actors
<1>8. CatalogOK'
  <2>1. /\ \A q \in Actors \ {r} : req'[q] = req[q]
        /\ req'[r].pc \in {"idle", "answering", "storing"}
        /\ r # Worker
    BY DEF Query, Leave, TypeOK, Request, Idle, CatalogOK
  <2> QED  BY <2>1 DEF Query, CatalogOK, Elsewhere, Actors, Last, rowVars, catalogVars
<1> QED  BY <1>2, <1>3, <1>4, <1>5, <1>6, <1>7, <1>8

LEMMA StoreKeeps ==
    ASSUME Coherent, NEW r \in Actors, Store(r)
    PROVE  Coherent'
<1> USE DictionaryConfig DEF Coherent
<1>1. req' \in [Actors -> Request]
  BY IdleTyped DEF Store, Goto, TypeOK, ReadersOK, Request, Steps, Idle, Nothing, Last
<1>2. TypeOK'
  <2>1. req[r].serial \in Serials /\ 0 \in Serials
    BY DEF TypeOK, Request, Serials
  <2>2. cached' \in [Versions -> Serials]
    BY <2>1 DEF Store, TypeOK, Nothing
  <2>3. req[r].pc = "storing" /\ \A q \in Actors \ {r} : req'[q] = req[q]
    BY DEF Store, Goto
  <2> QED  BY <1>1, <2>2, <2>3 DEF Store, TypeOK, rowVars, catalogVars, Last, Actors
<1>3. ReadersOK'
  <2>1. /\ \A q \in Actors \ {r} : req'[q] = req[q]
        /\ req'[r].pc = "answering" /\ req'[r].version = req[r].version /\ req'[r].floor = req[r].floor
        /\ UNCHANGED <<version, advanced>> /\ req[r].pc = "storing"
    BY DEF Store, Goto, TypeOK
  <2>2. \A v \in Versions :
           \/ cached'[v] \in {Nothing, cached[v]}
           \/ v = req[r].version /\ cached'[v] = req[r].serial
    BY DEF Store
  <2>3. ASSUME NEW q \in Actors, req'[q].pc = "fetching"
        PROVE  /\ cached'[req'[q].version] # Nothing => cached'[req'[q].version] >= req'[q].floor
               /\ \A s \in Actors :
                     req'[s].pc = "storing" /\ req'[s].version = req'[q].version
                     => req'[s].serial >= req'[q].floor
    <3>1. q # r /\ req'[q] = req[q] /\ req[q].pc = "fetching"
      BY <2>1, <2>3
    <3>2. req[q].version \in Versions
      BY <3>1 DEF ReadersOK, TypeOK, Request
    <3>3. cached[req[q].version] # Nothing => cached[req[q].version] >= req[q].floor
      BY <3>1 DEF ReadersOK
    <3>4. req[r].version = req[q].version => req[r].serial >= req[q].floor
      BY <3>1, <2>1 DEF ReadersOK
    <3>5. \A s \in Actors :
             req'[s].pc = "storing" /\ req'[s].version = req[q].version
             => req'[s].serial >= req[q].floor
      BY <3>1, <2>1 DEF ReadersOK
    <3> QED  BY <2>2, <3>1, <3>2, <3>3, <3>4, <3>5
  <2> QED  BY <2>1, <2>3 DEF ReadersOK
<1>4. CacheOK'
  <2>0. version \in Int
    BY DEF TypeOK, Versions
  <2>1. req[r].version \in Versions /\ req[r].version <= version
    BY DEF Store, ReadersOK, TypeOK, Request
  <2> QED  BY <2>0, <2>1 DEF Store, CacheOK, Versions, rowVars, Last
<1>5. NamespaceFresh'
  BY DEF Store, Goto, NamespaceFresh, TypeOK
<1>6. AnswersAreFresh'
  <2>1. /\ \A q \in Actors \ {r} : req'[q] = req[q]
        /\ req'[r].serial = req[r].serial /\ req'[r].floor = req[r].floor
    BY DEF Store, Goto
  <2>2. req[r].serial >= req[r].floor
    BY DEF Store, ReadersOK
  <2> QED  BY <2>1, <2>2 DEF AnswersAreFresh
<1>7. WritersOK'
  BY DEF Store, Goto, rowVars, WritersOK, Accepted, Accepts, Last
<1>8. CatalogOK'
  BY DEF Store, Goto, rowVars, catalogVars, CatalogOK, Elsewhere, Last
<1> QED  BY <1>2, <1>3, <1>4, <1>5, <1>6, <1>7, <1>8

LEMMA AnswerKeeps ==
    ASSUME Coherent, NEW r \in Actors, Answer(r)
    PROVE  Coherent'
<1> USE DictionaryConfig DEF Coherent
<1>1. req' \in [Actors -> Request]
  BY IdleTyped DEF Answer, Leave, TypeOK
<1>2. TypeOK'
  BY <1>1 DEF Answer, Leave, rowVars, cacheVars, catalogVars, TypeOK, Last
<1>3. ReadersOK'
  <2>1. version' \in Int /\ advanced' \in Int /\ version \in Int /\ advanced \in Int
    BY <1>2 DEF TypeOK, Versions, Serials
  <2>2. \A v \in Versions : cached'[v] \in {cached[v], Nothing}
    BY DEF Answer, cacheVars
  <2>3. /\ req[r].version \in Int /\ req[r].version <= version
        /\ req[r].floor \in Int /\ req[r].floor <= advanced
    BY DEF TypeOK, ReadersOK, Request, Versions, Serials, Nothing
  <2>4. version <= version' /\ advanced <= advanced' /\ 0 <= version /\ 0 <= advanced
    BY <1>2 DEF Answer, cacheVars, TypeOK, Versions, Serials
  <2>5. \A q \in Actors \ {r} : req'[q] = req[q]
    BY DEF Answer, Leave
  <2>6. /\ req'[r].pc \notin {"fetching", "storing"}
        /\ req'[r].version <= version' /\ req'[r].floor <= advanced'
    BY <2>1, <2>3, <2>4 DEF Answer, Leave, Idle, Nothing
  <2> QED  BY ReadersFrame, <2>1, <2>2, <2>4, <2>5, <2>6
<1>4. CacheOK'
  BY DEF Answer, rowVars, cacheVars, CacheOK, Last
<1>5. NamespaceFresh'
  BY DEF Answer, Leave, cacheVars, NamespaceFresh, Idle
<1>6. AnswersAreFresh'
  BY DEF Answer, Leave, AnswersAreFresh, Idle
<1>7. WritersOK'
  BY DEF Answer, Leave, rowVars, WritersOK, Accepted, Accepts, Idle, Last
<1>8. CatalogOK'
  BY DEF Answer, Leave, rowVars, catalogVars, CatalogOK, Elsewhere, Idle, Last
<1> QED  BY <1>2, <1>3, <1>4, <1>5, <1>6, <1>7, <1>8

LEMMA ExpireKeeps ==
    ASSUME Coherent, NEW v \in Versions, Expire(v)
    PROVE  Coherent'
<1> USE DictionaryConfig DEF Coherent
<1>1. req' \in [Actors -> Request]
  BY DEF Expire, TypeOK
<1>2. TypeOK'
  BY <1>1 DEF Expire, rowVars, catalogVars, TypeOK, Last, Serials, Nothing
<1>3. ReadersOK'
  <2>1. version' \in Int /\ advanced' \in Int
    BY <1>2 DEF TypeOK, Versions, Serials
  <2>2. \A w \in Versions : cached'[w] \in {cached[w], Nothing}
    BY DEF Expire
  <2>3. \A q \in Actors :
           \/ /\ req'[q] = req[q]
              /\ version <= version' /\ advanced <= advanced'
           \/ /\ req'[q].pc \notin {"fetching", "storing"}
              /\ req'[q].version <= version' /\ req'[q].floor <= advanced'
    BY <1>1, <1>2 DEF Expire, TypeOK, Versions, Serials
  <2> QED  BY ReadersFrame, <2>1, <2>2, <2>3
<1>4. CacheOK'
  BY DEF Expire, rowVars, CacheOK, Last
<1>5. NamespaceFresh'
  BY DEF Expire, NamespaceFresh
<1>6. AnswersAreFresh'
  BY DEF Expire, AnswersAreFresh
<1>7. WritersOK'
  BY DEF Expire, rowVars, WritersOK, Accepted, Accepts, Last
<1>8. CatalogOK'
  BY DEF Expire, rowVars, catalogVars, CatalogOK, Elsewhere, Last
<1> QED  BY <1>2, <1>3, <1>4, <1>5, <1>6, <1>7, <1>8

\* Writers: Create, Update and Delete.
LEMMA LockKeeps ==
    ASSUME Coherent, NEW r \in Requests, Lock(r)
    PROVE  Coherent'
<1> USE DictionaryConfig DEF Coherent
<1>0. PICK c \in Contents, e \in Contents :
         /\ Accepts(c, e)
         /\ req' = [req EXCEPT ![r] =
                [Idle EXCEPT !.pc = "committing", !.content = c, !.expected = e]]
  <2>1. \A i \in 1 .. Last : commits[i] \in Contents
    BY DEF TypeOK, Last
  <2>2. PICK c \in Contents, e \in {Absent} \cup {commits[i] : i \in 1 .. Last} :
             /\ Accepts(c, e)
             /\ req' = [req EXCEPT ![r] =
                    [Idle EXCEPT !.pc = "committing", !.content = c, !.expected = e]]
    BY DEF Lock, Brings
  <2>3. e \in Contents
    BY <2>1, <2>2 DEF Contents
  <2> QED  BY <2>2, <2>3
<1>1. req' \in [Actors -> Request]
  <2>1. [Idle EXCEPT !.pc = "committing", !.content = c, !.expected = e] \in Request
    BY IdleTyped DEF Request, Steps
  <2> QED  BY <1>0, <2>1 DEF TypeOK
<1>2. /\ r \in Actors /\ r # Worker
      /\ \A q \in Actors \ {r} : req'[q] = req[q]
      /\ req'[r].pc = "committing" /\ req'[r].content = c /\ req'[r].expected = e
      /\ req'[r].version = Nothing /\ req'[r].floor = 0
      /\ locker = Nobody /\ locker' = r
      /\ UNCHANGED <<deployment, commits, cacheVars, catalogVars, failures>>
  BY <1>0 DEF Lock, TypeOK, Actors, Idle
<1>3. TypeOK'
  <2>1. gate # Nobody => gate # r
    BY DEF Lock, TypeOK
  <2> QED  BY <1>1, <1>2, <2>1 DEF TypeOK, cacheVars, catalogVars, Last
<1>4. ReadersOK'
  <2>1. version' \in Int /\ advanced' \in Int /\ version \in Int /\ advanced \in Int
    BY <1>3 DEF TypeOK, Versions, Serials
  <2>2. \A v \in Versions : cached'[v] \in {cached[v], Nothing}
    BY <1>2 DEF cacheVars
  <2>3. version <= version' /\ advanced <= advanced' /\ 0 <= version /\ 0 <= advanced
    BY <1>2 DEF cacheVars, TypeOK, Versions, Serials
  <2>4. /\ req'[r].pc \notin {"fetching", "storing"}
        /\ req'[r].version <= version' /\ req'[r].floor <= advanced'
    BY <1>2, <2>1, <2>3 DEF Nothing
  <2> QED  BY <1>2, ReadersFrame, <2>1, <2>2, <2>3, <2>4
<1>5. CacheOK'
  BY <1>2 DEF cacheVars, CacheOK, Last
<1>6. NamespaceFresh'
  BY <1>2 DEF cacheVars, NamespaceFresh
<1>7. AnswersAreFresh'
  BY <1>2 DEF AnswersAreFresh
<1>8. WritersOK'
  <2>1. \A q \in Actors : req[q].pc # "committing"
    BY <1>2, DictionaryConfig DEF WritersOK
  <2>2. Accepts(c, e)'
    BY <1>0, <1>2 DEF Accepts, Last
  <2> QED  BY <1>2, <2>1, <2>2 DEF WritersOK, Accepted, Accepts, Last
<1>9. CatalogOK'
  <2>1. /\ installed' = installed /\ raw' = raw /\ gate' = gate
        /\ commits' = commits /\ deployment' = deployment
    BY <1>2 DEF catalogVars
  <2>2. req'[r].pc \notin {"waiting", "selecting", "installing"}
    BY <1>2
  <2>3. Worker \in Actors /\ req'[Worker] = req[Worker]
    BY <1>2 DEF Actors
  <2> QED  BY <1>2, <2>1, <2>2, <2>3 DEF CatalogOK, Elsewhere, Last
<1> QED  BY <1>3, <1>4, <1>5, <1>6, <1>7, <1>8, <1>9

LEMMA CommitKeeps ==
    ASSUME Coherent, NEW r \in Actors, Commit(r)
    PROVE  Coherent'
<1> USE DictionaryConfig DEF Coherent
<1>1. req' \in [Actors -> Request]
  BY IdleTyped DEF Commit, TypeOK, Request, Steps
<1>2. TypeOK'
  <2>1. commits' \in Seq(Contents) /\ Len(commits') \in 1 .. MaxCommits
    <3>1. req[r].content \in Contents /\ commits \in Seq(Contents)
      BY DEF TypeOK, Request
    <3>2. Len(commits) \in 1 .. MaxCommits /\ Len(commits) < MaxCommits
      BY DEF TypeOK, Commit, Last
    <3> QED  BY <3>1, <3>2 DEF Commit
  <2>2. /\ req[r].pc = "committing" /\ locker' = Nobody
        /\ \A q \in Actors \ {r} : req'[q] = req[q]
    BY DEF Commit
  <2> QED  BY <1>1, <2>1, <2>2 DEF Commit, TypeOK, cacheVars, catalogVars, Last
<1>3. ReadersOK'
  <2>1. version' \in Int /\ advanced' \in Int /\ version \in Int /\ advanced \in Int
    BY <1>2 DEF TypeOK, Versions, Serials
  <2>2. \A v \in Versions : cached'[v] \in {cached[v], Nothing}
    BY DEF Commit, cacheVars
  <2>3. /\ req[r].version \in Int /\ req[r].version <= version
        /\ req[r].floor \in Int /\ req[r].floor <= advanced
    BY DEF TypeOK, ReadersOK, Request, Versions, Serials, Nothing
  <2>4. version <= version' /\ advanced <= advanced' /\ 0 <= version /\ 0 <= advanced
    BY <1>2 DEF Commit, cacheVars, TypeOK, CacheOK, Versions, Serials
  <2>5. \A q \in Actors \ {r} : req'[q] = req[q]
    BY DEF Commit
  <2>6. /\ req'[r].pc \notin {"fetching", "storing"}
        /\ req'[r].version <= version' /\ req'[r].floor <= advanced'
    BY <2>1, <2>3, <2>4 DEF Commit, Idle, Nothing
  <2> QED  BY ReadersFrame, <2>1, <2>2, <2>4, <2>5, <2>6
<1>4. CacheOK'
  BY DEF Commit, cacheVars, CacheOK, TypeOK, Serials, Last
<1>5. NamespaceFresh'
  BY DEF Commit, cacheVars, NamespaceFresh
<1>6. AnswersAreFresh'
  BY DEF Commit, AnswersAreFresh
<1>7. WritersOK'
  BY DEF Commit, WritersOK, TypeOK
<1>8. CatalogOK'
  BY DEF Commit, catalogVars, CatalogOK, Elsewhere, TypeOK, Serials, Last
<1> QED  BY <1>2, <1>3, <1>4, <1>5, <1>6, <1>7, <1>8

LEMMA RollbackKeeps ==
    ASSUME Coherent, NEW r \in Actors, Rollback(r)
    PROVE  Coherent'
<1> USE DictionaryConfig DEF Coherent
<1>1. req' \in [Actors -> Request]
  BY IdleTyped DEF Rollback, Leave, TypeOK
<1>2. TypeOK'
  BY <1>1 DEF Rollback, Leave, cacheVars, catalogVars, TypeOK, Last
<1>3. ReadersOK'
  <2>1. version' \in Int /\ advanced' \in Int /\ version \in Int /\ advanced \in Int
    BY <1>2 DEF TypeOK, Versions, Serials
  <2>2. \A v \in Versions : cached'[v] \in {cached[v], Nothing}
    BY DEF Rollback, cacheVars
  <2>3. /\ req[r].version \in Int /\ req[r].version <= version
        /\ req[r].floor \in Int /\ req[r].floor <= advanced
    BY DEF TypeOK, ReadersOK, Request, Versions, Serials, Nothing
  <2>4. version <= version' /\ advanced <= advanced' /\ 0 <= version /\ 0 <= advanced
    BY <1>2 DEF Rollback, cacheVars, TypeOK, Versions, Serials
  <2>5. \A q \in Actors \ {r} : req'[q] = req[q]
    BY DEF Rollback, Leave
  <2>6. /\ req'[r].pc \notin {"fetching", "storing"}
        /\ req'[r].version <= version' /\ req'[r].floor <= advanced'
    BY <2>1, <2>3, <2>4 DEF Rollback, Leave, Idle, Nothing
  <2> QED  BY ReadersFrame, <2>1, <2>2, <2>4, <2>5, <2>6
<1>4. CacheOK'
  BY DEF Rollback, cacheVars, CacheOK, Last
<1>5. NamespaceFresh'
  BY DEF Rollback, Leave, cacheVars, NamespaceFresh, Idle
<1>6. AnswersAreFresh'
  BY DEF Rollback, Leave, AnswersAreFresh, Idle
<1>7. WritersOK'
  BY DEF Rollback, Leave, WritersOK, TypeOK, Idle
<1>8. CatalogOK'
  BY DEF Rollback, Leave, catalogVars, CatalogOK, Elsewhere, Idle, Last
<1> QED  BY <1>2, <1>3, <1>4, <1>5, <1>6, <1>7, <1>8

LEMMA InvalidateKeeps ==
    ASSUME Coherent, NEW r \in Actors, Invalidate(r)
    PROVE  Coherent'
<1> USE DictionaryConfig DEF Coherent
<1>1. req' \in [Actors -> Request]
  <2>1. CASE Elsewhere(r)
    BY <2>1, IdleTyped DEF Invalidate, AfterInvalidation, Leave, TypeOK
  <2>2. CASE ~Elsewhere(r)
    BY <2>2 DEF Invalidate, AfterInvalidation, Goto, TypeOK, Request, Steps
  <2> QED  BY <2>1, <2>2
<1>2. TypeOK'
  <2>1. version' \in Versions /\ cached' \in [Versions -> Serials] /\ advanced' \in Serials
    BY DEF Invalidate, Advance, TypeOK, Versions, Serials, Nothing
  <2>2. /\ req[r].pc = "invalidating"
        /\ \A q \in Actors \ {r} : req'[q] = req[q]
    BY DEF Invalidate, AfterInvalidation, Goto, Leave, TypeOK
  <2> QED  BY <1>1, <2>1, <2>2 DEF Invalidate, TypeOK, rowVars, catalogVars, Last, Actors
<1>3. ReadersOK'
  <2>1. version' \in Int /\ advanced' \in Int /\ version \in Int /\ advanced \in Int
    BY <1>2 DEF TypeOK, Versions, Serials
  <2>2. \A v \in Versions : cached'[v] \in {cached[v], Nothing}
    BY DEF Invalidate, Advance
  <2>3. /\ req[r].version \in Int /\ req[r].version <= version
        /\ req[r].floor \in Int /\ req[r].floor <= advanced
    BY DEF TypeOK, ReadersOK, Request, Versions, Serials, Nothing
  <2>4. version <= version' /\ advanced <= advanced' /\ 0 <= version /\ 0 <= advanced
    BY <1>2 DEF Invalidate, Advance, TypeOK, CacheOK, Versions, Serials
  <2>5. \A q \in Actors \ {r} : req'[q] = req[q]
    BY DEF Invalidate, AfterInvalidation, Leave, Goto, TypeOK
  <2>6. /\ req'[r].pc \notin {"fetching", "storing"}
        /\ req'[r].version <= version' /\ req'[r].floor <= advanced'
    <3>1. CASE Elsewhere(r)
      BY <3>1, <2>1, <2>4 DEF Invalidate, AfterInvalidation, Leave, TypeOK, Idle, Nothing
    <3>2. CASE ~Elsewhere(r)
      <4>1. req'[r].pc = "waiting" /\ req'[r].version = req[r].version /\ req'[r].floor = req[r].floor
        BY <3>2 DEF Invalidate, AfterInvalidation, Goto, TypeOK, Request
      <4> QED  BY <4>1, <2>1, <2>3, <2>4
    <3> QED  BY <3>1, <3>2
  <2> QED  BY ReadersFrame, <2>1, <2>2, <2>4, <2>5, <2>6
<1>4. CacheOK'
  BY DEF Invalidate, Advance, rowVars, CacheOK, TypeOK, Versions, Last
<1>5. NamespaceFresh'
  <2>1. /\ version' = version + 1 /\ version \in Int
        /\ cached'[version'] = Nothing
    BY DEF Invalidate, Advance, CacheOK, TypeOK, Versions
  <2>2. /\ \A q \in Actors \ {r} : req'[q] = req[q]
        /\ req'[r].pc # "storing"
    BY DEF Invalidate, AfterInvalidation, Goto, Leave, TypeOK, Request, Idle
  <2>3. \A q \in Actors : req[q].version <= version
    BY DEF ReadersOK
  <2> HIDE DEF Coherent
  <2> QED  BY <2>1, <2>2, <2>3 DEF NamespaceFresh
<1>6. AnswersAreFresh'
  <2>1. /\ \A q \in Actors \ {r} : req'[q] = req[q]
        /\ req'[r].pc # "answering"
    BY DEF Invalidate, AfterInvalidation, Goto, Leave, TypeOK, Request, Idle
  <2> QED  BY <2>1 DEF AnswersAreFresh
<1>7. WritersOK'
  BY DEF
      Invalidate, AfterInvalidation, Leave, Goto, rowVars, WritersOK, Accepted, Accepts, TypeOK,
      Request, Idle, Last
<1>8. CatalogOK'
  <2>1. /\ \A q \in Actors \ {r} : req'[q] = req[q]
        /\ req'[r].pc \in {"idle", "waiting"}
        /\ req'[r].pc = "waiting" => ~Elsewhere(r)
        /\ r # Worker
    BY DEF Invalidate, AfterInvalidation, Goto, Leave, TypeOK, Request, Idle, CatalogOK
  <2> QED  BY <2>1 DEF Invalidate, CatalogOK, Elsewhere, Actors, Last, rowVars, catalogVars
<1> QED  BY <1>2, <1>3, <1>4, <1>5, <1>6, <1>7, <1>8

LEMMA InvalidateUnacknowledgedKeeps ==
    ASSUME Coherent, NEW r \in Requests, InvalidateUnacknowledged(r)
    PROVE  Coherent'
<1> USE DictionaryConfig DEF Coherent
<1>1. req' \in [Actors -> Request]
  BY DEF InvalidateUnacknowledged, TypeOK
<1>2. TypeOK'
  BY <1>1 DEF
      InvalidateUnacknowledged, Fail, Advance, rowVars, catalogVars, TypeOK, Last, Versions,
      Serials
<1>3. ReadersOK'
  <2>1. version' \in Int /\ advanced' \in Int /\ version \in Int /\ advanced \in Int
    BY <1>2 DEF TypeOK, Versions, Serials
  <2>2. \A v \in Versions : cached'[v] \in {cached[v], Nothing}
    BY DEF InvalidateUnacknowledged, Advance
  <2>3. /\ req[r].version \in Int /\ req[r].version <= version
        /\ req[r].floor \in Int /\ req[r].floor <= advanced
    BY DEF TypeOK, ReadersOK, Request, Versions, Serials, Nothing, Actors
  <2>4. version <= version' /\ advanced <= advanced' /\ 0 <= version /\ 0 <= advanced
    BY <1>2 DEF InvalidateUnacknowledged, Advance, TypeOK, CacheOK, Versions, Serials
  <2>5. \A q \in Actors \ {r} : req'[q] = req[q]
    BY DEF InvalidateUnacknowledged
  <2>6. /\ req'[r].pc \notin {"fetching", "storing"}
        /\ req'[r].version <= version' /\ req'[r].floor <= advanced'
    BY <2>1, <2>3, <2>4 DEF InvalidateUnacknowledged
  <2> QED  BY ReadersFrame, <2>1, <2>2, <2>4, <2>5, <2>6
<1>4. CacheOK'
  <2>1. version \in Int /\ advanced' = Last /\ version' = version + 1
        /\ commits' = commits /\ Last \in Nat
    BY DEF InvalidateUnacknowledged, Advance, rowVars, TypeOK, Versions
  <2>2. \A v \in Versions : cached'[v] \in {cached[v], Nothing}
    BY DEF InvalidateUnacknowledged, Advance, TypeOK
  <2> QED  BY <2>1, <2>2 DEF CacheOK, Versions, Last
<1>5. NamespaceFresh'
  BY DEF InvalidateUnacknowledged, Advance, NamespaceFresh, CacheOK, ReadersOK, TypeOK, Versions
<1>6. AnswersAreFresh'
  BY DEF InvalidateUnacknowledged, AnswersAreFresh
<1>7. WritersOK'
  BY DEF InvalidateUnacknowledged, rowVars, WritersOK, Accepted, Accepts, Last
<1>8. CatalogOK'
  BY DEF InvalidateUnacknowledged, rowVars, catalogVars, CatalogOK, Elsewhere, Last
<1> QED  BY <1>2, <1>3, <1>4, <1>5, <1>6, <1>7, <1>8

LEMMA GiveUpKeeps ==
    ASSUME Coherent, NEW r \in Actors, GiveUp(r)
    PROVE  Coherent'
<1> USE DictionaryConfig DEF Coherent
<1>1. req' \in [Actors -> Request]
  <2>1. CASE Elsewhere(r)
    BY <2>1, IdleTyped DEF GiveUp, AfterInvalidation, Leave, TypeOK
  <2>2. CASE ~Elsewhere(r)
    <3>1. req' = [req EXCEPT ![r].pc = "waiting"]
      BY <2>2 DEF GiveUp, AfterInvalidation, Goto
    <3> QED  BY <3>1 DEF TypeOK, Request, Steps
  <2> QED  BY <2>1, <2>2
<1>2. TypeOK'
  <2>1. failures' \in 0 .. MaxFailures
    BY DEF GiveUp, TypeOK
  <2>2. /\ req[r].pc = "invalidating"
        /\ \A q \in Actors \ {r} : req'[q] = req[q]
    BY DEF GiveUp, AfterInvalidation, Goto, Leave, TypeOK
  <2> QED  BY <1>1, <2>1, <2>2 DEF GiveUp, TypeOK, rowVars, cacheVars, catalogVars, Last, Actors
<1>3. ReadersOK'
  <2>1. version' \in Int /\ advanced' \in Int /\ version \in Int /\ advanced \in Int
    BY <1>2 DEF TypeOK, Versions, Serials
  <2>2. \A v \in Versions : cached'[v] \in {cached[v], Nothing}
    BY DEF GiveUp, cacheVars
  <2>3. /\ req[r].version \in Int /\ req[r].version <= version
        /\ req[r].floor \in Int /\ req[r].floor <= advanced
    BY DEF TypeOK, ReadersOK, Request, Versions, Serials, Nothing
  <2>4. version <= version' /\ advanced <= advanced' /\ 0 <= version /\ 0 <= advanced
    BY <1>2 DEF GiveUp, cacheVars, TypeOK, Versions, Serials
  <2>5. \A q \in Actors \ {r} : req'[q] = req[q]
    BY DEF GiveUp, AfterInvalidation, Leave, Goto, TypeOK
  <2>6. /\ req'[r].pc \notin {"fetching", "storing"}
        /\ req'[r].version <= version' /\ req'[r].floor <= advanced'
    BY <2>1, <2>3, <2>4 DEF
        GiveUp, AfterInvalidation, Leave, Goto, cacheVars, TypeOK, Request, Idle, Nothing
  <2> QED  BY ReadersFrame, <2>1, <2>2, <2>4, <2>5, <2>6
<1>4. CacheOK'
  BY DEF GiveUp, rowVars, cacheVars, CacheOK, Last
<1>5. NamespaceFresh'
  <2>1. /\ \A q \in Actors \ {r} : req'[q] = req[q]
        /\ req'[r].pc \in {"idle", "waiting"}
    BY DEF GiveUp, AfterInvalidation, Goto, Leave, TypeOK, Request, Idle
  <2> QED  BY <2>1 DEF GiveUp, NamespaceFresh, cacheVars
<1>6. AnswersAreFresh'
  BY DEF
      GiveUp, AfterInvalidation, Leave, Goto, rowVars, cacheVars, catalogVars,
      AnswersAreFresh, ReadersOK, CacheOK, TypeOK, Request, Idle, Versions, Serials, Actors,
      Last
<1>7. WritersOK'
  BY DEF
      GiveUp, AfterInvalidation, Leave, Goto, rowVars, WritersOK, Accepted, Accepts, TypeOK, Request,
      Idle, Elsewhere, Last
<1>8. CatalogOK'
  <2>1. /\ \A q \in Actors \ {r} : req'[q] = req[q]
        /\ req'[r].pc \in {"idle", "waiting"}
        /\ req'[r].pc = "waiting" => ~Elsewhere(r)
        /\ r # Worker
    BY DEF GiveUp, AfterInvalidation, Goto, Leave, TypeOK, Request, Idle, CatalogOK
  <2> QED  BY <2>1 DEF GiveUp, CatalogOK, Elsewhere, Actors, Last, rowVars, catalogVars
<1> QED  BY <1>2, <1>3, <1>4, <1>5, <1>6, <1>7, <1>8

\* Refreshes of the catalog, through the gate.
LEMMA RefreshKeeps ==
    ASSUME Coherent, Refresh
    PROVE  Coherent'
<1> USE DictionaryConfig DEF Coherent
<1>1. req' \in [Actors -> Request]
  BY DEF Refresh, Goto, TypeOK, ReadersOK, Request, Steps, Actors, Idle, Nothing, Last
<1>2. TypeOK'
  BY <1>1 DEF Refresh, Goto, rowVars, cacheVars, catalogVars, TypeOK, Last
<1>3. ReadersOK'
  <2>1. version' \in Int /\ advanced' \in Int
    BY <1>2 DEF TypeOK, Versions, Serials
  <2>2. \A v \in Versions : cached'[v] \in {cached[v], Nothing}
    BY DEF Refresh, cacheVars
  <2>3. \A q \in Actors :
           \/ /\ req'[q] = req[q]
              /\ version <= version' /\ advanced <= advanced'
           \/ /\ req'[q].pc \notin {"fetching", "storing"}
              /\ req'[q].version <= version' /\ req'[q].floor <= advanced'
    BY <1>1, <1>2 DEF Refresh, Goto, cacheVars, TypeOK, ReadersOK, Versions, Serials
  <2> QED  BY ReadersFrame, <2>1, <2>2, <2>3
<1>4. CacheOK'
  BY DEF Refresh, rowVars, cacheVars, CacheOK, Last
<1>5. NamespaceFresh'
  BY DEF Refresh, Goto, cacheVars, NamespaceFresh
<1>6. AnswersAreFresh'
  BY DEF Refresh, Goto, AnswersAreFresh
<1>7. WritersOK'
  BY DEF Refresh, Goto, rowVars, WritersOK, Accepted, Accepts, Last
<1>8. CatalogOK'
  BY DEF Refresh, Goto, rowVars, catalogVars, CatalogOK, Elsewhere, Last
<1> QED  BY <1>2, <1>3, <1>4, <1>5, <1>6, <1>7, <1>8

LEMMA EnterGateKeeps ==
    ASSUME Coherent, NEW r \in Actors, EnterGate(r)
    PROVE  Coherent'
<1> USE DictionaryConfig DEF Coherent
<1>1. req' \in [Actors -> Request]
  BY DEF EnterGate, Goto, TypeOK, ReadersOK, Request, Steps, Idle, Nothing, Last
<1>2. TypeOK'
  BY <1>1 DEF EnterGate, Goto, rowVars, cacheVars, TypeOK, Last
<1>3. ReadersOK'
  <2>1. version' \in Int /\ advanced' \in Int /\ version \in Int /\ advanced \in Int
    BY <1>2 DEF TypeOK, Versions, Serials
  <2>2. \A v \in Versions : cached'[v] \in {cached[v], Nothing}
    BY DEF EnterGate, cacheVars
  <2>3. /\ req[r].version \in Int /\ req[r].version <= version
        /\ req[r].floor \in Int /\ req[r].floor <= advanced
    BY DEF TypeOK, ReadersOK, Request, Versions, Serials, Nothing
  <2>4. version <= version' /\ advanced <= advanced' /\ 0 <= version /\ 0 <= advanced
    BY <1>2 DEF EnterGate, cacheVars, TypeOK, Versions, Serials
  <2>5. \A q \in Actors \ {r} : req'[q] = req[q]
    BY DEF EnterGate, Goto
  <2>6. /\ req'[r].pc \notin {"fetching", "storing"}
        /\ req'[r].version <= version' /\ req'[r].floor <= advanced'
    BY <2>1, <2>3, <2>4 DEF EnterGate, Goto
  <2> QED  BY ReadersFrame, <2>1, <2>2, <2>4, <2>5, <2>6
<1>4. CacheOK'
  BY DEF EnterGate, rowVars, cacheVars, CacheOK, Last
<1>5. NamespaceFresh'
  BY DEF EnterGate, Goto, cacheVars, NamespaceFresh
<1>6. AnswersAreFresh'
  BY DEF EnterGate, Goto, AnswersAreFresh
<1>7. WritersOK'
  BY DEF EnterGate, Goto, rowVars, WritersOK, Accepted, Accepts, Last
<1>8. CatalogOK'
  BY DEF EnterGate, Goto, rowVars, CatalogOK, Elsewhere, Last
<1> QED  BY <1>2, <1>3, <1>4, <1>5, <1>6, <1>7, <1>8

LEMMA SelectKeeps ==
    ASSUME Coherent, NEW r \in Actors, Select(r)
    PROVE  Coherent'
<1> USE DictionaryConfig DEF Coherent
<1>1. req' \in [Actors -> Request]
  <2>1. Last \in Serials
    BY DEF TypeOK, Serials
  <2>2. [req[r] EXCEPT !.pc = "installing", !.serial = Last] \in Request
    BY <2>1 DEF TypeOK, Request, Steps
  <2> QED  BY <2>2 DEF Select, TypeOK
<1>2. TypeOK'
  <2>1. /\ req[r].pc = "selecting" /\ req'[r].pc = "installing"
        /\ \A q \in Actors \ {r} : req'[q] = req[q]
    BY DEF Select, TypeOK
  <2> QED  BY <1>1, <2>1 DEF Select, TypeOK, rowVars, cacheVars, catalogVars, Last, Actors
<1>3. ReadersOK'
  <2>1. version' \in Int /\ advanced' \in Int /\ version \in Int /\ advanced \in Int
    BY <1>2 DEF TypeOK, Versions, Serials
  <2>2. \A v \in Versions : cached'[v] \in {cached[v], Nothing}
    BY DEF Select, cacheVars
  <2>3. /\ req[r].version \in Int /\ req[r].version <= version
        /\ req[r].floor \in Int /\ req[r].floor <= advanced
    BY DEF TypeOK, ReadersOK, Request, Versions, Serials, Nothing
  <2>4. version <= version' /\ advanced <= advanced' /\ 0 <= version /\ 0 <= advanced
    BY <1>2 DEF Select, cacheVars, TypeOK, Versions, Serials
  <2>5. \A q \in Actors \ {r} : req'[q] = req[q]
    BY DEF Select, TypeOK
  <2>6. /\ req'[r].pc \notin {"fetching", "storing"}
        /\ req'[r].version <= version' /\ req'[r].floor <= advanced'
    BY <2>1, <2>3, <2>4 DEF Select, TypeOK
  <2> QED  BY ReadersFrame, <2>1, <2>2, <2>4, <2>5, <2>6
<1>4. CacheOK'
  BY DEF Select, rowVars, cacheVars, CacheOK, Last
<1>5. NamespaceFresh'
  BY DEF Select, cacheVars, NamespaceFresh, TypeOK
<1>6. AnswersAreFresh'
  BY DEF Select, AnswersAreFresh, TypeOK
<1>7. WritersOK'
  BY DEF Select, rowVars, WritersOK, Accepted, Accepts, TypeOK, Last
<1>8. CatalogOK'
  BY DEF Select, rowVars, catalogVars, CatalogOK, Elsewhere, TypeOK, Actors, Last
<1> QED  BY <1>2, <1>3, <1>4, <1>5, <1>6, <1>7, <1>8

LEMMA InstallKeeps ==
    ASSUME Coherent, NEW r \in Actors, Install(r)
    PROVE  Coherent'
<1> USE DictionaryConfig DEF Coherent
<1>1. req' \in [Actors -> Request]
  BY IdleTyped DEF Install, Leave, TypeOK
<1>2. TypeOK'
  BY <1>1 DEF
      Install, Leave, rowVars, cacheVars, TypeOK, Request, Idle, Actors, Last, Versions,
      Nothing
<1>3. ReadersOK'
  <2>1. version' \in Int /\ advanced' \in Int /\ version \in Int /\ advanced \in Int
    BY <1>2 DEF TypeOK, Versions, Serials
  <2>2. \A v \in Versions : cached'[v] \in {cached[v], Nothing}
    BY DEF Install, cacheVars
  <2>3. /\ req[r].version \in Int /\ req[r].version <= version
        /\ req[r].floor \in Int /\ req[r].floor <= advanced
    BY DEF TypeOK, ReadersOK, Request, Versions, Serials, Nothing
  <2>4. version <= version' /\ advanced <= advanced' /\ 0 <= version /\ 0 <= advanced
    BY <1>2 DEF Install, cacheVars, TypeOK, Versions, Serials
  <2>5. \A q \in Actors \ {r} : req'[q] = req[q]
    BY DEF Install, Leave
  <2>6. /\ req'[r].pc \notin {"fetching", "storing"}
        /\ req'[r].version <= version' /\ req'[r].floor <= advanced'
    BY <2>1, <2>3, <2>4 DEF Install, Leave, Idle, Nothing
  <2> QED  BY ReadersFrame, <2>1, <2>2, <2>4, <2>5, <2>6
<1>4. CacheOK'
  BY DEF Install, rowVars, cacheVars, CacheOK, Last
<1>5. NamespaceFresh'
  BY DEF Install, Leave, cacheVars, NamespaceFresh, Idle
<1>6. AnswersAreFresh'
  BY DEF Install, Leave, AnswersAreFresh, Idle
<1>7. WritersOK'
  BY DEF Install, Leave, rowVars, WritersOK, Accepted, Accepts, Idle, Last
<1>8. CatalogOK'
  <2>1. /\ gate = r /\ req[r].serial \in installed .. Last
        /\ \A q \in Actors \ {r} : req'[q] = req[q] /\ req[q].pc \notin {"selecting", "installing"}
        /\ req'[r].pc = "idle"
    BY DEF Install, Leave, TypeOK, Idle, CatalogOK
  <2>2. /\ installed' \in {installed, req[r].serial}
        /\ raw' \in {raw, req[r].serial, Nothing}
    BY DEF Install
  <2>3. installed <= Last /\ raw <= Last /\ 0 <= Last /\ Last \in Int
    BY DEF CatalogOK, TypeOK
  <2>4. installed' <= Last /\ raw' <= Last
    BY <2>1, <2>2, <2>3 DEF Nothing
  <2> QED  BY <2>1, <2>4 DEF Install, CatalogOK, Elsewhere, Actors, Last, rowVars
<1> QED  BY <1>2, <1>3, <1>4, <1>5, <1>6, <1>7, <1>8

LEMMA RefreshFailsKeeps ==
    ASSUME Coherent, NEW r \in Actors, RefreshFails(r)
    PROVE  Coherent'
<1> USE DictionaryConfig DEF Coherent
<1>1. req' \in [Actors -> Request]
  BY IdleTyped DEF RefreshFails, Leave, TypeOK
<1>2. TypeOK'
  BY <1>1 DEF RefreshFails, Fail, Leave, rowVars, cacheVars, TypeOK, Last
<1>3. ReadersOK'
  <2>1. version' \in Int /\ advanced' \in Int /\ version \in Int /\ advanced \in Int
    BY <1>2 DEF TypeOK, Versions, Serials
  <2>2. \A v \in Versions : cached'[v] \in {cached[v], Nothing}
    BY DEF RefreshFails, cacheVars
  <2>3. /\ req[r].version \in Int /\ req[r].version <= version
        /\ req[r].floor \in Int /\ req[r].floor <= advanced
    BY DEF TypeOK, ReadersOK, Request, Versions, Serials, Nothing
  <2>4. version <= version' /\ advanced <= advanced' /\ 0 <= version /\ 0 <= advanced
    BY <1>2 DEF RefreshFails, cacheVars, TypeOK, Versions, Serials
  <2>5. \A q \in Actors \ {r} : req'[q] = req[q]
    BY DEF RefreshFails, Leave
  <2>6. /\ req'[r].pc \notin {"fetching", "storing"}
        /\ req'[r].version <= version' /\ req'[r].floor <= advanced'
    BY <2>1, <2>3, <2>4 DEF RefreshFails, Leave, Idle, Nothing
  <2> QED  BY ReadersFrame, <2>1, <2>2, <2>4, <2>5, <2>6
<1>4. CacheOK'
  BY DEF RefreshFails, rowVars, cacheVars, CacheOK, Last
<1>5. NamespaceFresh'
  BY DEF RefreshFails, Leave, cacheVars, NamespaceFresh, Idle
<1>6. AnswersAreFresh'
  BY DEF RefreshFails, Leave, AnswersAreFresh, Idle
<1>7. WritersOK'
  BY DEF RefreshFails, Leave, rowVars, WritersOK, Accepted, Accepts, Idle, Last
<1>8. CatalogOK'
  BY DEF RefreshFails, Leave, rowVars, CatalogOK, Elsewhere, TypeOK, Idle, Last
<1> QED  BY <1>2, <1>3, <1>4, <1>5, <1>6, <1>7, <1>8

\* What happens to all of them.
LEMMA RestartKeeps ==
    ASSUME Coherent, Restart
    PROVE  Coherent'
<1> USE DictionaryConfig DEF Coherent
<1>1. req' \in [Actors -> Request]
  BY IdleTyped DEF Restart, TypeOK
<1>2. TypeOK'
  BY <1>1 DEF Restart, Fail, cacheVars, TypeOK, Actors, Last, Versions, Serials, Nothing
<1>3. ReadersOK'
  <2>1. version' \in Int /\ advanced' \in Int /\ version \in Int /\ advanced \in Int
        /\ 0 <= version' /\ 0 <= advanced'
    BY <1>2 DEF TypeOK, Versions, Serials
  <2>2. \A v \in Versions : cached'[v] \in {cached[v], Nothing}
    BY DEF Restart, cacheVars
  <2>3. ASSUME NEW q \in Actors
        PROVE  \/ /\ req'[q] = req[q]
                  /\ version <= version' /\ advanced <= advanced'
               \/ /\ req'[q].pc \notin {"fetching", "storing"}
                  /\ req'[q].version <= version' /\ req'[q].floor <= advanced'
    <3>1. CASE Elsewhere(q)
      BY <3>1, <2>1 DEF Restart, Elsewhere, cacheVars
    <3>2. CASE ~Elsewhere(q)
      BY <3>2, <2>1 DEF Restart, Idle, Nothing
    <3> QED  BY <3>1, <3>2
  <2> QED  BY ReadersFrame, <2>1, <2>2, <2>3
<1>4. CacheOK'
  BY DEF Restart, cacheVars, CacheOK, Last
<1>5. NamespaceFresh'
  <2>1. CASE deployment = "single"
    <3>1. \A q \in Actors : req'[q] = Idle
      BY <2>1 DEF Restart, Elsewhere
    <3>2. cached'[version'] = Nothing
      BY <2>1, <1>2 DEF Restart, TypeOK
    <3> QED  BY <3>1, <3>2 DEF NamespaceFresh, Idle
  <2>2. CASE deployment # "single"
    <3>1. \A q \in Actors : req'[q] \in {req[q], Idle}
      BY DEF Restart
    <3> QED  BY <2>2, <3>1 DEF Restart, NamespaceFresh, Idle, cacheVars
  <2> QED  BY <2>1, <2>2
<1>6. AnswersAreFresh'
  BY DEF Restart, AnswersAreFresh, Idle
<1>7. WritersOK'
  BY DEF Restart, WritersOK, Accepted, Accepts, Idle, Last
<1>8. CatalogOK'
  <2>1. \A q \in Actors : \/ req'[q] = Idle
                          \/ req'[q] = req[q] /\ Elsewhere(q)
    BY DEF Restart
  <2>2. Last \in Int /\ 0 <= Last
    BY DEF TypeOK
  <2>3. ~Elsewhere(Worker)
    BY DEF Elsewhere
  <2>4. \A q \in Actors : req'[q].pc \notin {"waiting", "selecting", "installing"}
    BY <2>1 DEF CatalogOK, Idle
  <2>5. req'[Worker].pc = "idle"
    BY <2>1, <2>3 DEF Actors, Idle
  <2>6. installed' <= Last' /\ raw' <= Last'
    BY <2>2 DEF Restart, Last, Nothing
  <2> QED  BY <2>4, <2>5, <2>6 DEF CatalogOK
<1> QED  BY <1>2, <1>3, <1>4, <1>5, <1>6, <1>7, <1>8

LEMMA WriteOtherKeeps ==
    ASSUME Coherent, WriteOther
    PROVE  Coherent'
<1> USE DictionaryConfig DEF Coherent
<1>1. req' \in [Actors -> Request]
  BY DEF WriteOther, TypeOK
<1>2. TypeOK'
  BY <1>1 DEF
      WriteOther, Advance, rowVars, catalogVars, TypeOK, Last, Versions, Serials, Nothing
<1>3. ReadersOK'
  <2>1. version' \in Int /\ advanced' \in Int
    BY <1>2 DEF TypeOK, Versions, Serials
  <2>2. \A v \in Versions : cached'[v] \in {cached[v], Nothing}
    BY DEF WriteOther, Advance
  <2>3. \A q \in Actors :
           \/ /\ req'[q] = req[q]
              /\ version <= version' /\ advanced <= advanced'
           \/ /\ req'[q].pc \notin {"fetching", "storing"}
              /\ req'[q].version <= version' /\ req'[q].floor <= advanced'
    BY <1>1, <1>2 DEF WriteOther, Advance, TypeOK, CacheOK
  <2> QED  BY ReadersFrame, <2>1, <2>2, <2>3
<1>4. CacheOK'
  BY DEF WriteOther, Advance, rowVars, CacheOK, TypeOK, Last
<1>5. NamespaceFresh'
  BY DEF WriteOther, Advance, NamespaceFresh, CacheOK, ReadersOK, TypeOK, Versions
<1>6. AnswersAreFresh'
  BY DEF WriteOther, AnswersAreFresh
<1>7. WritersOK'
  BY DEF WriteOther, rowVars, WritersOK, Accepted, Accepts, Last
<1>8. CatalogOK'
  BY DEF WriteOther, rowVars, catalogVars, CatalogOK, Elsewhere, Last
<1> QED  BY <1>2, <1>3, <1>4, <1>5, <1>6, <1>7, <1>8

\* Together.
LEMMA InitEstablishes == Init => Coherent
<1> SUFFICES ASSUME Init PROVE Coherent
  OBVIOUS
<1> USE DictionaryConfig DEF Init
<1>1. /\ commits \in Seq(Contents) /\ Len(commits) = 1
      /\ raw \in 0 .. 1
  <2>1. PICK c \in Contents : commits = <<c>>
    OBVIOUS
  <2>2. commits \in Seq(Contents) /\ Len(commits) = 1
    BY <2>1
  <2> QED  BY <2>2 DEF Nothing
<1>2. TypeOK
  BY <1>1, IdleTyped DEF TypeOK, Versions, Serials, Nothing, Last
<1>3. ReadersOK /\ NamespaceFresh /\ AnswersAreFresh /\ WritersOK
  BY DEF ReadersOK, NamespaceFresh, AnswersAreFresh, WritersOK, Idle, Nothing, Versions
<1>4. CacheOK /\ CatalogOK
  BY <1>1 DEF CacheOK, CatalogOK, Idle, Actors, Last
<1> QED  BY <1>2, <1>3, <1>4 DEF Coherent

LEMMA StutterKeeps ==
    ASSUME Coherent, UNCHANGED vars
    PROVE  Coherent'
<1> USE DEF Coherent, vars, Last
<1>1. TypeOK' /\ CacheOK' /\ NamespaceFresh' /\ AnswersAreFresh'
  BY DEF TypeOK, CacheOK, NamespaceFresh, AnswersAreFresh
<1>2. ReadersOK' /\ WritersOK' /\ CatalogOK'
  BY DEF ReadersOK, WritersOK, CatalogOK, Accepted, Accepts, Elsewhere
<1> QED  BY <1>1, <1>2

LEMMA HandleKeeps ==
    ASSUME Coherent, NEW r \in Actors, Handle(r)
    PROVE  Coherent'
  BY LoadVersionKeeps, LoadValueKeeps, LoadMemoryKeeps, QueryKeeps, StoreKeeps, AnswerKeeps,
     CommitKeeps, RollbackKeeps, InvalidateKeeps, GiveUpKeeps, EnterGateKeeps, SelectKeeps, InstallKeeps
  DEF Handle

LEMMA NextKeeps == Coherent /\ [Next]_vars => Coherent'
<1> SUFFICES ASSUME Coherent, [Next]_vars PROVE Coherent'
  OBVIOUS
<1>1. CASE \E r \in Requests : Read(r) \/ Lock(r)
  BY <1>1, ReadKeeps, LockKeeps
<1>2. CASE \E r \in Requests : LoadFails(r) \/ InvalidateUnacknowledged(r)
  BY <1>2, LoadFailsKeeps, InvalidateUnacknowledgedKeeps
<1>3. CASE \E r \in Actors : Handle(r) \/ RefreshFails(r)
  BY <1>3, HandleKeeps, RefreshFailsKeeps
<1>4. CASE \E v \in Versions : Expire(v)
  BY <1>4, ExpireKeeps
<1>5. CASE Refresh \/ Restart \/ WriteOther
  BY <1>5, RefreshKeeps, RestartKeeps, WriteOtherKeeps
<1>6. CASE UNCHANGED vars
  BY <1>6, StutterKeeps
<1> QED  BY <1>1, <1>2, <1>3, <1>4, <1>5, <1>6 DEF Next

\* What is real stays so while the history of the row only grows.
LEMMA EntriesFrame ==
    ASSUME TypeOK,
           commits' = commits \/ \E c : commits' = Append(commits, c),
           \A v \in Versions : cached'[v] = Nothing \/ Real(cached'[v]),
           \A q \in Actors :
              req'[q].pc \in {"storing", "answering"} => Real(req'[q].serial)
    PROVE  EntriesExist'
<1>1. commits \in Seq(Contents) /\ Last \in Nat
  BY DEF TypeOK, Last
<1>2. \A s : Real(s) => s \in 1 .. Len(commits') /\ commits'[s] # Absent
  <2>1. CASE commits' = commits
    BY <2>1 DEF Real, Last
  <2>2. CASE \E c : commits' = Append(commits, c)
    <3>1. PICK c : commits' = Append(commits, c)
      BY <2>2
    <3>2. /\ Len(commits') = Last + 1
          /\ \A s \in 1 .. Last : commits'[s] = commits[s]
      BY <1>1, <3>1 DEF Last
    <3> QED  BY <1>1, <3>2 DEF Real
  <2> QED  BY <2>1, <2>2
<1> QED  BY <1>2 DEF EntriesExist, Real, Last

\* Where a step leads, for the request that takes it and for the others.
LEMMA GoesTo ==
    ASSUME TypeOK, NEW r \in Actors
    PROVE  /\ \A pc : Goto(r, pc) =>
                 /\ req'[r].pc = pc
                 /\ req'[r].serial = req[r].serial /\ req'[r].floor = req[r].floor
           /\ Leave(r) => req'[r].pc = "idle"
           /\ (Leave(r) \/ \E pc : Goto(r, pc)) => \A q \in Actors \ {r} : req'[q] = req[q]
<1>1. req \in [Actors -> Request] /\ req[r] \in Request
  BY DEF TypeOK
<1> QED  BY <1>1 DEF Goto, Leave, Idle, Request

\* Steps of a reader: what it hits, finds or stores is there.
LEMMA ReadsKeepEntries ==
    ASSUME Inv, NEW r \in Actors,
           \/ Read(r) \/ LoadVersion(r) \/ LoadValue(r) \/ LoadMemory(r) \/ LoadFails(r)
           \/ Query(r) \/ Store(r) \/ Answer(r)
    PROVE  EntriesExist'
<1>1. /\ TypeOK /\ EntriesExist
      /\ req \in [Actors -> Request] /\ cached \in [Versions -> Serials]
  BY DEF Inv, Coherent, TypeOK
<1>2. commits' = commits
  BY DEF rowVars, Read, LoadVersion, LoadValue, LoadMemory, LoadFails, Query, Store, Answer
<1>3. \A q \in Actors \ {r} : req'[q] = req[q]
  BY <1>1 DEF Read, LoadVersion, LoadValue, LoadMemory, LoadFails, Query, Store, Answer,
     Looked, Goto, Leave
<1>4. ASSUME NEW v \in Versions
      PROVE  cached'[v] = Nothing \/ Real(cached'[v])
  <2>1. CASE Store(r)
    <3>1. Real(req[r].serial)
      BY <1>1, <2>1 DEF Store, EntriesExist
    <3>2. cached'[v] \in {req[r].serial, cached[v], Nothing}
      BY <2>1 DEF Store
    <3> QED  BY <1>1, <3>1, <3>2 DEF EntriesExist
  <2>2. CASE ~Store(r)
    <3>1. cached'[v] \in {cached[v], Nothing}
      BY <2>2 DEF cacheVars, Read, LoadVersion, LoadValue, LoadMemory, LoadFails, Query, Answer
    <3> QED  BY <1>1, <3>1 DEF EntriesExist
  <2> QED  BY <2>1, <2>2
<1>5. ASSUME req'[r].pc \in {"storing", "answering"}
      PROVE  Real(req'[r].serial)
  <2>1. CASE Query(r)
    <3>1. req'[r].serial = Last /\ commits[Last] # Absent
      <4>1. CASE commits[Last] = Absent
        <5>1. req' = [req EXCEPT ![r] = Idle] /\ Idle.pc = "idle"
          BY <2>1, <4>1 DEF Query, Leave, Idle
        <5> QED  BY <1>1, <1>5, <5>1
      <4>2. CASE commits[Last] # Absent
        BY <1>1, <2>1, <4>2 DEF Query, Request
      <4> QED  BY <4>1, <4>2
    <3> QED  BY <1>1, <3>1 DEF Real, TypeOK
  <2>2. CASE Store(r)
    <3>1. req'[r].serial = req[r].serial /\ req[r].pc = "storing"
      BY <1>1, <2>2 DEF Store, Goto
    <3> QED  BY <1>1, <3>1 DEF EntriesExist
  <2>3. ASSUME NEW v \in Versions, Looked(r, v)
        PROVE  Real(req'[r].serial)
    <3>1. req'[r].serial = cached[v] /\ cached[v] # Nothing
      BY <1>1, <1>5, <2>3 DEF Looked
    <3> QED  BY <1>1, <3>1 DEF EntriesExist
  <2>4. CASE LoadValue(r)
    <3>1. req[r].version \in Versions
      BY <1>1, <2>4 DEF LoadValue, Inv, Coherent, ReadersOK, Request
    <3> QED  BY <2>3, <2>4, <3>1 DEF LoadValue
  <2>5. CASE LoadMemory(r)
    BY <1>1, <2>3, <2>5 DEF LoadMemory, TypeOK
  <2>6. CASE Read(r)
    <3>1. req'[r].pc = "loading"
      BY <1>1, <2>6 DEF Read, Idle
    <3> QED  BY <1>5, <3>1
  <2>9. CASE Answer(r)
    <3>1. req'[r].pc = "idle"
      BY <1>1, <2>9 DEF Answer, Leave, Idle
    <3> QED  BY <1>5, <3>1
  <2>7. CASE LoadVersion(r)
    <3>1. req'[r].pc = "fetching"
      <4> DEFINE told == [req[r] EXCEPT !.pc = "fetching", !.version = version]
      <4>1. told.pc = "fetching"
        BY <1>1 DEF TypeOK, Request
      <4>2. req' = [req EXCEPT ![r] = told]
        BY <1>1, <2>7 DEF LoadVersion, TypeOK
      <4> HIDE DEF told
      <4> QED  BY <1>1, <4>1, <4>2 DEF TypeOK
    <3> QED  BY <1>5, <3>1
  <2>8. CASE LoadFails(r)
    <3>1. req'[r].pc = "querying"
      <4> DEFINE told == [req[r] EXCEPT !.pc = "querying", !.version = Nothing]
      <4>1. told.pc = "querying"
        BY <1>1 DEF TypeOK, Request
      <4>2. req' = [req EXCEPT ![r] = told]
        BY <1>1, <2>8 DEF LoadFails, TypeOK
      <4> HIDE DEF told
      <4> QED  BY <1>1, <4>1, <4>2 DEF TypeOK
    <3> QED  BY <1>5, <3>1
  <2> QED  BY <2>1, <2>2, <2>4, <2>5, <2>6, <2>7, <2>8, <2>9
<1> QED  BY <1>1, <1>2, <1>3, <1>4, <1>5, EntriesFrame DEF EntriesExist

\* All others add to the history at most, take entries away and read nothing.
LEMMA OthersKeepEntries ==
    ASSUME Inv,
           commits' = commits \/ \E c : commits' = Append(commits, c),
           \A v \in Versions : cached'[v] \in {cached[v], Nothing},
           \A q \in Actors : req'[q] = req[q] \/ req'[q].pc \notin {"storing", "answering"}
    PROVE  EntriesExist'
<1>1. TypeOK /\ EntriesExist
  BY DEF Inv, Coherent
<1>2. \A v \in Versions : cached'[v] = Nothing \/ Real(cached'[v])
  BY <1>1 DEF EntriesExist
<1>3. \A q \in Actors : req'[q].pc \in {"storing", "answering"} => Real(req'[q].serial)
  BY <1>1 DEF EntriesExist
<1> QED  BY <1>1, <1>2, <1>3, EntriesFrame

LEMMA EntriesKeep ==
    ASSUME Inv, [Next]_vars
    PROVE  EntriesExist'
<1>1. TypeOK /\ req \in [Actors -> Request]
  BY DEF Inv, Coherent, TypeOK
<1> USE DEF rowVars, cacheVars
<1>2. ASSUME NEW r \in Actors, Read(r) \/ LoadFails(r) \/ Answer(r)
      PROVE  EntriesExist'
  BY <1>2, ReadsKeepEntries
<1>3. ASSUME NEW r \in Actors,
             Lock(r) \/ Commit(r) \/ Rollback(r)
      PROVE  EntriesExist'
  <2>1. /\ commits' = commits \/ commits' = Append(commits, req[r].content)
        /\ cached' = cached
    BY <1>3 DEF Lock, Brings, Commit, Rollback
  <2>2. \A q \in Actors \ {r} : req'[q] = req[q]
    BY <1>1, <1>3, GoesTo DEF Lock, Brings, Commit, Rollback
  <2>3. CASE Lock(r)
    <3>1. req'[r].pc = "committing"
      BY <1>1, <2>3 DEF Lock, Brings, Idle
    <3> QED  BY <2>1, <2>2, <3>1, OthersKeepEntries
  <2>4. CASE Rollback(r)
    <3>1. req'[r].pc = "idle"
      BY <1>1, <2>4, GoesTo DEF Rollback
    <3> QED  BY <2>1, <2>2, <3>1, OthersKeepEntries
  <2>5. CASE Commit(r)
    <3>1. req'[r].pc = "invalidating"
      BY <1>1, <2>5 DEF Commit, Idle
    <3> QED  BY <2>1, <2>2, <3>1, OthersKeepEntries
  <2> QED  BY <1>3, <2>3, <2>4, <2>5
<1>4. ASSUME NEW r \in Actors,
             Invalidate(r) \/ InvalidateUnacknowledged(r) \/ GiveUp(r)
      PROVE  EntriesExist'
  <2>1. /\ commits' = commits
        /\ \A v \in Versions : cached'[v] \in {cached[v], Nothing}
    BY <1>4 DEF Invalidate, InvalidateUnacknowledged, GiveUp, Advance
  <2>2. \A q \in Actors \ {r} : req'[q] = req[q]
    BY <1>1, <1>4, GoesTo DEF Invalidate, InvalidateUnacknowledged, GiveUp, AfterInvalidation
  <2>3. req'[r] = req[r] \/ req'[r].pc \in {"idle", "waiting"}
    BY <1>1, <1>4, GoesTo DEF Invalidate, InvalidateUnacknowledged, GiveUp, AfterInvalidation
  <2> QED  BY <2>1, <2>2, <2>3, OthersKeepEntries
<1>5. ASSUME NEW r \in Actors,
             EnterGate(r) \/ Select(r) \/ Install(r) \/ RefreshFails(r)
      PROVE  EntriesExist'
  <2>1. commits' = commits /\ cached' = cached
    BY <1>5 DEF EnterGate, Select, Install, RefreshFails
  <2>2. \A q \in Actors \ {r} : req'[q] = req[q]
    BY <1>1, <1>5, GoesTo DEF EnterGate, Select, Install, RefreshFails
  <2>3. req'[r].pc \in {"idle", "selecting", "installing"}
    <3>1. CASE Select(r)
      BY <1>1, <3>1 DEF Select, Request
    <3> QED  BY <1>1, <1>5, <3>1, GoesTo DEF EnterGate, Install, RefreshFails
  <2> QED  BY <2>1, <2>2, <2>3, OthersKeepEntries
<1>6. ASSUME NEW r \in Actors, Handle(r)
      PROVE  EntriesExist'
  BY <1>3, <1>4, <1>5, <1>6, ReadsKeepEntries DEF Handle
<1>7. ASSUME NEW v \in Versions, Expire(v)
      PROVE  EntriesExist'
  <2>1. cached \in [Versions -> Serials]
    BY DEF Inv, Coherent, TypeOK
  <2> QED  BY <1>7, <2>1, OthersKeepEntries DEF Expire
<1>8. CASE Refresh \/ WriteOther
  <2>1. /\ commits' = commits
        /\ \A v \in Versions : cached'[v] \in {cached[v], Nothing}
    BY <1>8 DEF Refresh, WriteOther, Advance
  <2>2. \A q \in Actors : req'[q] = req[q] \/ req'[q].pc = "waiting"
    BY <1>1, <1>8, GoesTo DEF Refresh, WriteOther, Actors
  <2> QED  BY <2>1, <2>2, OthersKeepEntries
<1>9. CASE Restart
  <2>1. commits' = commits /\ \A v \in Versions : cached'[v] \in {cached[v], Nothing}
    BY <1>9 DEF Restart
  <2>2. \A q \in Actors : req'[q] = req[q] \/ req'[q].pc = "idle"
    BY <1>9 DEF Restart, Idle
  <2> QED  BY <2>1, <2>2, OthersKeepEntries
<1>10. CASE UNCHANGED vars
  BY <1>10, OthersKeepEntries DEF vars
<1> QED  BY <1>2, <1>3, <1>4, <1>5, <1>6, <1>7, <1>8, <1>9, <1>10 DEF Next, Actors

\* The inductive invariant holds whatever the requests, contents and bounds: in
\* every interleaving of the handlers of dictionary.go and localization.go.
THEOREM InvariantHolds == Spec => []Inv
<1>1. Init => Inv
  <2>1. Init => EntriesExist
    BY DEF Init, EntriesExist, Idle, Nothing
  <2> QED  BY <2>1, InitEstablishes DEF Inv
<1>2. Inv /\ [Next]_vars => Inv'
  <2>1. Inv /\ [Next]_vars => EntriesExist'
    BY EntriesKeep
  <2> QED  BY <2>1, NextKeeps DEF Inv
<1> QED  BY <1>1, <1>2, PTL DEF Spec

\* A row lock and the gate are always held by somebody who will release them.
THEOREM TypeCorrect == Spec => []TypeOK
<1>1. Inv => TypeOK
  BY DEF Inv, Coherent
<1> QED  BY <1>1, InvariantHolds, PTL

\* No interleaving of loads, stores, commits and invalidations puts an entry under
\* the current version that is older than the last invalidation.
THEOREM CacheStaysFresh == Spec => []NamespaceFresh
<1>1. Inv => NamespaceFresh
  BY DEF Inv, Coherent
<1> QED  BY <1>1, InvariantHolds, PTL

\* DictionaryValue and Get never answer with anything older than what had been
\* committed at the last invalidation before the call.
THEOREM AnswersStayFresh == Spec => []AnswersAreFresh
<1>1. Inv => AnswersAreFresh
  BY DEF Inv, Coherent
<1> QED  BY <1>1, InvariantHolds, PTL

\* The row is written by the commit of the request that holds it.
LEMMA OnlyCommitWrites ==
    ASSUME Inv, [Next]_vars, NEW r \in Requests,
           req[r].pc = "committing", req'[r].pc = "invalidating"
    PROVE  req[r].expected \in {Absent, commits[Last]}
  BY DEF Inv, Coherent, WritersOK, Accepted, Accepts, Actors

\* Update, with an expected value, replaces that value: no committed change of
\* another writer is overwritten unseen.
THEOREM UpdatesAreNotLost == Spec => NoLostUpdate
<1>1. Inv /\ [Next]_vars =>
        [\A r \in Requests :
            req[r].pc = "committing" /\ req'[r].pc = "invalidating"
            => req[r].expected \in {Absent, commits[Last]}]_vars
  BY OnlyCommitWrites
<1> QED  BY <1>1, InvariantHolds, PTL DEF Spec, NoLostUpdate

\* The catalog is installed by the refresh that holds the gate.
LEMMA CatalogAdvances ==
    ASSUME Inv, [Next]_vars
    PROVE  installed' >= installed
<1> USE DEF Inv, Coherent
<1>1. installed \in Int /\ Last \in Int /\ installed <= Last
  BY DictionaryConfig DEF TypeOK, Serials, CatalogOK
<1>2. ASSUME NEW r \in Actors, Install(r)
      PROVE  installed' >= installed
  <2>1. installed' \in {installed, req[r].serial}
    BY <1>2 DEF Install
  <2>2. req[r].serial \in installed .. Last
    BY <1>2 DEF Install, CatalogOK
  <2> QED  BY <1>1, <2>1, <2>2
<1>3. CASE Restart
  BY <1>1, <1>3 DEF Restart
<1>4. ASSUME installed' = installed
      PROVE  installed' >= installed
  BY <1>1, <1>4
<1>5. CASE Next /\ ~Restart /\ \A r \in Actors : ~Install(r)
  <2> USE DEF rowVars, cacheVars, catalogVars
  <2>1. ASSUME NEW r \in Actors, Handle(r)
        PROVE  installed' = installed
    BY <1>5, <2>1 DEF Handle, LoadVersion, LoadValue, LoadMemory, Query, Store, Answer,
       Commit, Rollback, Invalidate, GiveUp, EnterGate, Select
  <2>2. ASSUME NEW r \in Actors, RefreshFails(r)
        PROVE  installed' = installed
    BY <2>2 DEF RefreshFails
  <2>3. ASSUME NEW r \in Requests,
               Read(r) \/ Lock(r) \/ LoadFails(r) \/ InvalidateUnacknowledged(r)
        PROVE  installed' = installed
    BY <2>3 DEF Read, Lock, LoadFails, InvalidateUnacknowledged
  <2>4. ASSUME NEW v \in Versions, Expire(v)
        PROVE  installed' = installed
    BY <2>4 DEF Expire
  <2>5. ASSUME Refresh \/ WriteOther
        PROVE  installed' = installed
    BY <2>5 DEF Refresh, WriteOther
  <2> QED  BY <1>4, <1>5, <2>1, <2>2, <2>3, <2>4, <2>5 DEF Next
<1>6. CASE UNCHANGED vars
  BY <1>4, <1>6 DEF vars
<1> QED  BY <1>2, <1>3, <1>5, <1>6

\* RefreshLocalization installs no catalog older than the one it replaces, in
\* whichever order the refreshes of a process read and finish.
THEOREM CatalogIsMonotone == Spec => CatalogNeverGoesBack
<1>1. Inv /\ [Next]_vars => [installed' >= installed]_vars
  BY CatalogAdvances
<1> QED  BY <1>1, InvariantHolds, PTL DEF Spec, CatalogNeverGoesBack
-----------------------------------------------------------------------------
(* The register that requests, replicas, caches and worker are together.    *)

\* Other steps than those of readers show nothing of a request.
Outside == {"idle", "committing", "invalidating",
            "waiting", "selecting", "installing"}

Within == {"loading", "fetching", "querying", "storing"}

LEMMA Shows ==
    ASSUME NEW r
    PROVE  /\ req[r].pc \in Outside => Reader(r) = Register!Idle
           /\ req'[r].pc \in Outside => Reader(r)' = Register!Idle
           /\ req[r].pc \in Within =>
                 Reader(r) = [stage |-> "reading", floor |-> req[r].floor, answer |-> 0]
           /\ req'[r].pc \in Within =>
                 Reader(r)' = [stage |-> "reading", floor |-> req'[r].floor, answer |-> 0]
           /\ req[r].pc = "answering" =>
                 Reader(r) = [stage |-> "answering", floor |-> req[r].floor,
                              answer |-> req[r].serial]
           /\ req'[r].pc = "answering" =>
                 Reader(r)' = [stage |-> "answering", floor |-> req'[r].floor,
                               answer |-> req'[r].serial]
  BY DEF Reader, Outside, Within, Register!Idle

\* One request moves, and the others show what they showed.
LEMMA ShownMoves ==
    ASSUME NEW r \in Actors, \A q \in Actors \ {r} : req'[q] = req[q]
    PROVE  /\ r \in Requests => Shown' = [Shown EXCEPT ![r] = Reader(r)']
           /\ Reader(r)' = Reader(r) => Shown' = Shown
<1>1. \A q \in Requests \ {r} : Reader(q)' = Reader(q)
  BY DEF Reader, Actors
<1> QED  BY <1>1 DEF Shown

LEMMA WorkerReadsNothing ==
    ASSUME Inv, NEW r \in Actors, req[r].pc \in Within \cup {"answering"}
    PROVE  r \in Requests
  BY DEF Inv, Coherent, CatalogOK, Actors, Within

LEMMA Finding ==
    ASSUME Inv, NEW r \in Actors, req[r].pc \in Within, req'[r].pc = "answering",
           req'[r].floor = req[r].floor, req[r].floor <= req'[r].serial,
           Real(req'[r].serial),
           \A q \in Actors \ {r} : req'[q] = req[q],
           UNCHANGED <<commits, advanced, installed>>
    PROVE  Register!Find(r)
<1>1. r \in Requests
  BY WorkerReadsNothing
<1>2. Shown' = [Shown EXCEPT ![r] = Reader(r)']
  BY <1>1, ShownMoves
<1>3. Shown[r] = [stage |-> "reading", floor |-> req[r].floor, answer |-> 0]
  BY <1>1, Shows DEF Shown
<1>4. Reader(r)' = [stage |-> "answering", floor |-> req[r].floor,
                    answer |-> req'[r].serial]
  BY Shows
<1>5. Shown' = [Shown EXCEPT ![r] = [stage |-> "answering", floor |-> Shown[r].floor,
                                     answer |-> req'[r].serial]]
  BY <1>2, <1>3, <1>4
<1>6. req'[r].serial \in 1 .. Len(commits) /\ commits[req'[r].serial] # Absent
  BY DEF Real, Last
<1>7. Shown[r].stage = "reading" /\ Shown[r].floor = req[r].floor
  BY <1>3
<1>8. \E s \in 1 .. Len(commits) :
         /\ Shown[r].floor <= s
         /\ commits[s] # Absent
         /\ Shown' = [Shown EXCEPT ![r] = [stage |-> "answering",
                                         floor |-> Shown[r].floor, answer |-> s]]
  BY <1>5, <1>6, <1>7, Zenon
<1> QED  BY <1>7, <1>8 DEF Register!Find, Register!Now

\* A reader that goes on reading, and a request that reads neither before nor after.
LEMMA Quiet ==
    ASSUME NEW r \in Actors, \A q \in Actors \ {r} : req'[q] = req[q],
           \/ req[r].pc \in Outside /\ req'[r].pc \in Outside
           \/ /\ req[r].pc \in Within /\ req'[r].pc \in Within
              /\ req'[r].floor = req[r].floor
    PROVE  Shown' = Shown
  BY Shows, ShownMoves

\* Each step of a reader is a step of the register's reader or none.
LEMMA ReadSteps ==
    ASSUME Inv, NEW r \in Actors,
           \/ r \in Requests /\ Read(r)
           \/ LoadVersion(r) \/ LoadValue(r) \/ LoadMemory(r) \/ LoadFails(r)
           \/ Query(r) \/ Store(r) \/ Answer(r)
    PROVE  [Register!Next]_(Register!vars)
<1>1. /\ Coherent /\ TypeOK /\ EntriesExist /\ EntriesExist'
      /\ req \in [Actors -> Request] /\ req[r] \in Request
  BY ReadsKeepEntries DEF Inv, Coherent, TypeOK
<1>2. \A q \in Actors \ {r} : req'[q] = req[q]
  BY <1>1 DEF Read, LoadVersion, LoadValue, LoadMemory, LoadFails, Query, Store, Answer,
     Looked, Goto, Leave
<1>3. UNCHANGED <<commits, advanced, installed>>
  BY DEF rowVars, cacheVars, catalogVars,
     Read, LoadVersion, LoadValue, LoadMemory, LoadFails, Query, Store, Answer
<1>4. req[r].pc \in Within \cup {"answering"} => r \in Requests
  BY WorkerReadsNothing
<1>5. ASSUME Shown' = Shown
      PROVE  UNCHANGED Register!vars
  BY <1>3, <1>5 DEF Register!vars
<1>6. CASE r \in Requests /\ Read(r)
  <2>1. req[r].pc = "idle" /\ Reader(r) = Register!Idle
    BY <1>6, Shows DEF Read, Outside
  <2>2. req'[r].pc = "loading" /\ req'[r].floor = advanced
    BY <1>1, <1>6 DEF Read, Idle
  <2>3. Reader(r)' = [stage |-> "reading", floor |-> advanced, answer |-> 0]
    BY <2>2, Shows DEF Within
  <2>4. Shown' = [Shown EXCEPT ![r] = Reader(r)'] /\ Shown[r] = Reader(r)
    BY <1>2, <1>6, ShownMoves DEF Shown
  <2>5. Register!Begin(r)
    BY <1>3, <2>1, <2>3, <2>4 DEF Register!Begin
  <2> QED  BY <1>6, <2>5 DEF Register!Next
<1>7. ASSUME Register!Find(r), r \in Requests
      PROVE  Register!Next
  BY <1>7 DEF Register!Next
<1>8. ASSUME NEW v \in Versions, Looked(r, v), req[r].pc \in {"loading", "fetching"},
             cached[v] # Nothing => req[r].floor <= cached[v]
      PROVE  [Register!Next]_(Register!vars)
  <2>1. /\ req'[r].serial = cached[v] /\ req'[r].floor = req[r].floor
        /\ req'[r].pc = IF cached[v] # Nothing THEN "answering" ELSE "querying"
    BY <1>1, <1>8 DEF Looked, Request
  <2>2. CASE cached[v] = Nothing
    BY <1>2, <1>5, <1>8, <2>1, <2>2, Quiet DEF Within
  <2>3. CASE cached[v] # Nothing
    <3>1. Real(cached[v])
      BY <1>1, <1>8, <2>3 DEF EntriesExist
    <3>2. Register!Find(r)
      BY <1>2, <1>3, <1>8, <2>1, <2>3, <3>1, Finding DEF Within
    <3> QED  BY <1>4, <1>7, <1>8, <3>2 DEF Within
  <2> QED  BY <2>2, <2>3
<1>9. CASE LoadValue(r)
  <2>1. req[r].version \in Versions /\ Looked(r, req[r].version) /\ req[r].pc = "fetching"
    BY <1>1, <1>9 DEF LoadValue, Coherent, ReadersOK, Request
  <2>2. cached[req[r].version] # Nothing => req[r].floor <= cached[req[r].version]
    <3>1. cached[req[r].version] # Nothing => cached[req[r].version] >= req[r].floor
      BY <1>1, <2>1 DEF Coherent, ReadersOK
    <3>2. cached[req[r].version] \in Int /\ req[r].floor \in Int
      BY <1>1, <2>1, DictionaryConfig DEF TypeOK, Request, Serials
    <3> QED  BY <3>1, <3>2
  <2> QED  BY <1>8, <2>1, <2>2
<1>10. CASE LoadMemory(r)
  <2>1. version \in Versions /\ Looked(r, version) /\ req[r].pc = "loading"
    BY <1>1, <1>10 DEF LoadMemory, TypeOK
  <2>2. cached[version] # Nothing => req[r].floor <= cached[version]
    <3>1. req[r].floor <= advanced /\ (cached[version] # Nothing => cached[version] >= advanced)
      BY <1>1 DEF Coherent, ReadersOK, NamespaceFresh
    <3>2. cached[version] \in Int /\ req[r].floor \in Int /\ advanced \in Int
      BY <1>1, <2>1, DictionaryConfig DEF TypeOK, Request, Serials
    <3> QED  BY <3>1, <3>2
  <2> QED  BY <1>8, <2>1, <2>2
<1>11. CASE LoadVersion(r) \/ LoadFails(r)
  <2>1. req[r].pc \in Within /\ req'[r].pc \in Within /\ req'[r].floor = req[r].floor
    BY <1>1, <1>11 DEF LoadVersion, LoadFails, Within, Request
  <2> QED  BY <1>2, <1>5, <2>1, Quiet
<1>12. CASE Query(r)
  <2>1. req[r].pc = "querying"
    BY <1>12 DEF Query
  <2>2. CASE commits[Last] = Absent
    <3>1. req'[r].pc = "idle"
      BY <1>1, <1>12, <2>2, GoesTo DEF Query
    <3>2. Shown' = [Shown EXCEPT ![r] = Register!Idle]
      BY <1>2, <1>4, <2>1, <3>1, Shows, ShownMoves DEF Within, Outside
    <3>3. Shown[r].stage = "reading"
      BY <1>4, <2>1, Shows DEF Within, Shown
    <3>4. Register!Miss(r)
      BY <1>3, <2>2, <3>2, <3>3 DEF Register!Miss, Register!Now, Last
    <3> QED  BY <1>4, <2>1, <3>4 DEF Register!Next, Within
  <2>3. CASE commits[Last] # Absent
    <3>1. /\ req'[r].serial = Last /\ req'[r].floor = req[r].floor
          /\ req'[r].pc \in {"storing", "answering"}
      BY <1>1, <1>12, <2>3 DEF Query, Request
    <3>2. CASE req'[r].pc = "storing"
      BY <1>2, <1>5, <2>1, <3>1, <3>2, Quiet DEF Within
    <3>3. CASE req'[r].pc = "answering"
      <4>1. Real(Last)
        BY <1>1, <2>3 DEF Real, TypeOK
      <4>2. req[r].floor <= Last
        <5>1. req[r].floor <= advanced /\ advanced <= Last
          BY <1>1 DEF Coherent, ReadersOK, CacheOK
        <5>2. req[r].floor \in Int /\ advanced \in Int /\ Last \in Int
          BY <1>1, DictionaryConfig DEF TypeOK, Request, Serials
        <5> QED  BY <5>1, <5>2
      <4>3. Register!Find(r)
        BY <1>2, <1>3, <2>1, <3>1, <3>3, <4>1, <4>2, Finding DEF Within
      <4> QED  BY <1>4, <1>7, <2>1, <4>3 DEF Within
    <3> QED  BY <3>1, <3>2, <3>3
  <2> QED  BY <2>2, <2>3
<1>13. CASE Store(r)
  <2>1. /\ req[r].pc = "storing" /\ req'[r].pc = "answering"
        /\ req'[r].serial = req[r].serial /\ req'[r].floor = req[r].floor
    BY <1>1, <1>13, GoesTo DEF Store
  <2>2. Real(req[r].serial)
    BY <1>1, <2>1 DEF EntriesExist
  <2>3. req[r].floor <= req[r].serial
    <3>1. req[r].serial >= req[r].floor
      BY <1>1, <2>1 DEF Coherent, ReadersOK
    <3>2. req[r].serial \in Int /\ req[r].floor \in Int
      BY <1>1, DictionaryConfig DEF Request, Serials
    <3> QED  BY <3>1, <3>2
  <2>4. Register!Find(r)
    BY <1>2, <1>3, <2>1, <2>2, <2>3, Finding DEF Within
  <2> QED  BY <1>4, <1>7, <2>1, <2>4 DEF Within
<1>14. CASE Answer(r)
  <2>1. req[r].pc = "answering" /\ req'[r].pc = "idle"
    BY <1>1, <1>14, GoesTo DEF Answer
  <2>2. Shown' = [Shown EXCEPT ![r] = Register!Idle]
    BY <1>2, <1>4, <2>1, Shows, ShownMoves DEF Outside
  <2>3. Shown[r].stage = "answering"
    BY <1>4, <2>1, Shows DEF Shown
  <2>4. Register!Answer(r)
    BY <1>3, <2>2, <2>3 DEF Register!Answer
  <2> QED  BY <1>4, <2>1, <2>4 DEF Register!Next
<1> QED  BY <1>6, <1>9, <1>10, <1>11, <1>12, <1>13, <1>14

\* A commit writes the register, an advance of the version publishes, a refresh
\* installs, and nothing else of a write or a refresh is seen.
LEMMA WriteSteps ==
    ASSUME Inv, NEW r \in Actors,
           \/ Lock(r) \/ Commit(r) \/ Rollback(r)
           \/ Invalidate(r) \/ InvalidateUnacknowledged(r) \/ GiveUp(r)
           \/ EnterGate(r) \/ Select(r) \/ Install(r) \/ RefreshFails(r)
    PROVE  [Register!Next]_(Register!vars)
<1>1. TypeOK /\ req \in [Actors -> Request] /\ req[r] \in Request
  BY DEF Inv, Coherent, TypeOK
<1>2. \A q \in Actors \ {r} : req'[q] = req[q]
  BY <1>1, GoesTo DEF Lock, Brings, Commit, Rollback, Invalidate, InvalidateUnacknowledged,
     GiveUp, AfterInvalidation, EnterGate, Select, Install, RefreshFails
<1>3. req[r].pc \in Outside
  BY DEF Outside, Lock, Brings, Commit, Rollback, Invalidate, InvalidateUnacknowledged,
     GiveUp, EnterGate, Select, Install, RefreshFails
<1>4. req'[r].pc \in Outside
  <2>1. CASE Lock(r) \/ Commit(r)
    <3>1. req'[r].pc \in {"committing", "invalidating"}
      BY <1>1, <2>1 DEF Lock, Brings, Commit, Idle
    <3> QED  BY <3>1 DEF Outside
  <2>2. CASE Rollback(r) \/ Install(r) \/ RefreshFails(r) \/ EnterGate(r)
    <3>1. req'[r].pc \in {"idle", "selecting"}
      BY <1>1, <2>2, GoesTo DEF Rollback, Install, RefreshFails, EnterGate
    <3> QED  BY <3>1 DEF Outside
  <2>3. CASE Invalidate(r) \/ InvalidateUnacknowledged(r) \/ GiveUp(r)
    <3>1. req'[r].pc \in {"idle", "waiting", "invalidating"}
      BY <1>1, <2>3, GoesTo
      DEF Invalidate, InvalidateUnacknowledged, GiveUp, AfterInvalidation
    <3> QED  BY <3>1 DEF Outside
  <2>4. CASE Select(r)
    BY <1>1, <2>4 DEF Select, Request, Outside
  <2> QED  BY <2>1, <2>2, <2>3, <2>4
<1>5. Shown' = Shown
  BY <1>2, <1>3, <1>4, Quiet
<1>6. CASE \/ Lock(r) \/ Rollback(r) \/ GiveUp(r)
           \/ EnterGate(r) \/ Select(r) \/ RefreshFails(r)
  <2>1. UNCHANGED <<commits, advanced, installed>>
    BY <1>6 DEF rowVars, cacheVars, catalogVars,
       Lock, Rollback, GiveUp, EnterGate, Select, RefreshFails
  <2> QED  BY <1>5, <2>1 DEF Register!vars
<1>7. CASE Commit(r)
  <2>1. /\ commits' = Append(commits, req[r].content) /\ req[r].content \in Contents
        /\ UNCHANGED <<advanced, installed>>
    BY <1>1, <1>7 DEF Commit, Request, cacheVars, catalogVars
  <2>2. req[r].content = Absent => commits[Last] # Absent
    BY <1>7 DEF Commit, Inv, Coherent, WritersOK, Accepted, Accepts
  <2>3. Register!Write
    BY <1>5, <2>1, <2>2 DEF Register!Write, Register!Now, Last
  <2> QED  BY <2>3 DEF Register!Next
<1>8. CASE Invalidate(r) \/ InvalidateUnacknowledged(r)
  <2>1. advanced' = Last /\ UNCHANGED <<commits, installed>>
    BY <1>8 DEF Invalidate, InvalidateUnacknowledged, Advance, rowVars, catalogVars
  <2>2. Register!Publish
    BY <1>5, <2>1 DEF Register!Publish, Register!Now, Last
  <2> QED  BY <2>2 DEF Register!Next
<1>9. CASE Install(r)
  <2>1. /\ UNCHANGED <<commits, advanced>>
        /\ installed' \in {installed, req[r].serial}
    BY <1>9 DEF Install, rowVars, cacheVars
  <2>2. /\ req[r].serial \in installed .. Last
        /\ installed <= Last /\ installed \in Int /\ Last \in Int
    BY <1>1, <1>9, DictionaryConfig DEF Install, Inv, Coherent, CatalogOK, TypeOK, Serials
  <2>3. installed' \in installed .. Last
    BY <2>1, <2>2
  <2>4. Register!Install
    BY <1>5, <2>1, <2>3 DEF Register!Install, Register!Now, Last
  <2> QED  BY <2>4 DEF Register!Next
<1> QED  BY <1>6, <1>7, <1>8, <1>9

\* A restart loses this process's readers, and starts from the row as it is.
LEMMA RestartStep ==
    ASSUME Inv, Restart
    PROVE  Register!Restart
<1> DEFINE lost == {r \in Requests : ~Elsewhere(r)}
<1>1. Shown' = [r \in Requests |-> IF r \in lost THEN Register!Idle ELSE Shown[r]]
  <2>1. ASSUME NEW r \in Requests
        PROVE  Reader(r)' = IF r \in lost THEN Register!Idle ELSE Shown[r]
    <3>1. r \in Actors /\ Shown[r] = Reader(r)
      BY DEF Actors, Shown
    <3>2. CASE Elsewhere(r)
      <4>1. req'[r] = req[r]
        BY <3>1, <3>2 DEF Restart
      <4> QED  BY <3>1, <3>2, <4>1 DEF Reader
    <3>3. CASE ~Elsewhere(r)
      <4>1. req'[r].pc = "idle"
        BY <3>1, <3>3 DEF Restart, Idle
      <4> QED  BY <3>3, <4>1, Shows DEF Outside
    <3> QED  BY <3>2, <3>3
  <2> QED  BY <2>1 DEF Shown
<1>2. advanced' \in {advanced, Last} /\ installed' = Last /\ commits' = commits
  BY DEF Restart, cacheVars
<1>3. lost \in SUBSET Requests
  OBVIOUS
<1> QED  BY <1>1, <1>2, <1>3 DEF Register!Restart, Register!Now, Last

\* Every step is a step of the register or none.
LEMMA RegisterStep ==
    ASSUME Inv, [Next]_vars
    PROVE  [Register!Next]_(Register!vars)
<1>1. Requests \subseteq Actors /\ Worker \in Actors
  BY DEF Actors
<1>2. ASSUME NEW r \in Actors, Handle(r) \/ RefreshFails(r)
      PROVE  [Register!Next]_(Register!vars)
  <2>1. CASE \/ LoadVersion(r) \/ LoadValue(r) \/ LoadMemory(r)
             \/ Query(r) \/ Store(r) \/ Answer(r)
    BY <2>1, ReadSteps
  <2>2. CASE \/ Commit(r) \/ Rollback(r) \/ Invalidate(r) \/ GiveUp(r)
             \/ EnterGate(r) \/ Select(r) \/ Install(r) \/ RefreshFails(r)
    BY <2>2, WriteSteps
  <2> QED  BY <1>2, <2>1, <2>2 DEF Handle
<1>3. ASSUME NEW r \in Requests,
             Read(r) \/ Lock(r) \/ LoadFails(r) \/ InvalidateUnacknowledged(r)
      PROVE  [Register!Next]_(Register!vars)
  BY <1>1, <1>3, ReadSteps, WriteSteps
<1>4. ASSUME Shown' = Shown, UNCHANGED <<commits, advanced, installed>>
      PROVE  UNCHANGED Register!vars
  BY <1>4 DEF Register!vars
<1>5. ASSUME req' = req
      PROVE  Shown' = Shown
  BY <1>5 DEF Shown, Reader
<1>6. ASSUME NEW v \in Versions, Expire(v)
      PROVE  [Register!Next]_(Register!vars)
  BY <1>4, <1>5, <1>6 DEF Expire, rowVars, catalogVars
<1>7. CASE Refresh
  <2>1. /\ \A q \in Actors \ {Worker} : req'[q] = req[q]
        /\ req[Worker].pc = "idle" /\ req'[Worker].pc = "waiting"
    BY <1>1, <1>7, GoesTo DEF Refresh, Inv, Coherent
  <2>2. Shown' = Shown
    BY <1>1, <2>1, Quiet DEF Outside
  <2> QED  BY <1>4, <1>7, <2>2 DEF Refresh, rowVars, cacheVars, catalogVars
<1>8. CASE WriteOther
  <2>1. advanced' = Last /\ UNCHANGED <<commits, installed>> /\ Shown' = Shown
    BY <1>5, <1>8 DEF WriteOther, Advance, rowVars, catalogVars
  <2>2. Register!Publish
    BY <2>1 DEF Register!Publish, Register!Now, Last
  <2> QED  BY <2>2 DEF Register!Next
<1>9. CASE Restart
  BY <1>9, RestartStep DEF Register!Next
<1>10. CASE UNCHANGED vars
  BY <1>4, <1>5, <1>10 DEF vars
<1> QED  BY <1>2, <1>3, <1>6, <1>7, <1>8, <1>9, <1>10 DEF Next

\* To its readers a row behind caches, versions and replicas is a register: every
\* answer was committed and is no older than the last invalidation before the
\* call, what is there is not denied, and the catalog moves forward only.
THEOREM RegisterKept == Spec => KeepsRegisterPromise
<1>1. Init => Register!Init
  <2> SUFFICES ASSUME Init PROVE Register!Init
    OBVIOUS
  <2>1. Shown = [r \in Requests |-> Register!Idle]
    BY Shows DEF Init, Idle, Actors, Shown, Outside
  <2>2. commits \in {<<c>> : c \in Contents}
    BY DictionaryConfig DEF Init
  <2> QED  BY <2>1, <2>2 DEF Init, Register!Init
<1>2. Inv /\ [Next]_vars => [Register!Next]_(Register!vars)
  BY RegisterStep
<1> QED  BY InvariantHolds, <1>1, <1>2, PTL DEF Spec, KeepsRegisterPromise, Register!Spec
=============================================================================
