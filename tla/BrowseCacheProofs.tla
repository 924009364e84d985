-------------------------- MODULE BrowseCacheProofs --------------------------
(***************************************************************************)
(* Theorems about BrowseCache for any set of cache types in use, any number *)
(* of requests, of writes of the catalog and of restarts, with             *)
(* Elasticsearch and without it.                                           *)
(***************************************************************************)
EXTENDS BrowseCache, SequenceTheorems, WellFoundedInduction, TLAPS

-----------------------------------------------------------------------------
(* The types.                                                              *)

Known == Version \cup {Blank}

Job == [at : At, type : Types \cup {"none"}, ver : Held]

\* A request browses a type in use; it asks Elasticsearch for a search only, and
\* what it is about to cache is an answer it has read.
JobTyped(job) ==
  /\ job \in Job
  /\ job.at # "idle" => job.type \in Types
  /\ job.at = "search" => job.type = "search" /\ Elastic
  /\ job.at = "sethot" => job.type = "movies"
  /\ job.at \in {"set", "sethot"} => job.ver \in Known

ReqTyped == req \in [Readers -> Job] /\ \A r \in Readers : JobTyped(req[r])

CatalogTyped ==
  /\ catalog \in Version
  /\ index \in Version \cup {None}
  /\ Elastic => index \in Version

\* While Redis is connected nothing is in the Map.
StoresTyped ==
  /\ redis \in [Types -> Held] /\ memory \in [Types -> Held]
  /\ redisUp => \A t \in Types : memory[t] = None
  /\ redisUp \in BOOLEAN

ClearTyped ==
  /\ clearing \in Seq(Types) /\ found \in BOOLEAN
  /\ found => clearing # <<>>

\* A clear that may vouch for the entries of Redis was made while it was there,
\* and nothing connects to it again but a restart.
ClearedTyped ==
  /\ cleared \in [type : Types \cup {"none"}, ver : Held, lasts : BOOLEAN]
  /\ cleared.type \in Types => cleared.ver \in Known
  /\ redisUp => cleared.lasts

RestartsTyped == restarts \in 0..MaxRestarts

TypeInv == CatalogTyped /\ StoresTyped /\ ReqTyped /\ ClearTyped /\ ClearedTyped /\ RestartsTyped

LEMMA VersionFacts ==
  /\ Version \subseteq Known /\ Blank \in Known /\ Known \subseteq Held /\ None \in Held
  /\ None \notin Known /\ Known \subseteq Int
  /\ \A v \in Known : Blank <= v
  /\ 0 \in Version
BY BrowseAssumption DEF Known, Version, Held, Blank, None

LEMMA HotInUse == "movies" \in Types => "hot_movies" \in Types
BY BrowseAssumption

LEMMA PutTyped ==
  ASSUME ReqTyped, NEW r \in Readers, NEW job, JobTyped(job), Put(r, job)
  PROVE  ReqTyped'
BY DEF ReqTyped, Put, JobTyped

LEMMA IdleTyped == JobTyped(Idle)
BY VersionFacts DEF JobTyped, Idle, Job, At

LEMMA MissTyped ==
  ASSUME ReqTyped, CatalogTyped, NEW r \in Readers, req[r].type \in Types, Miss(r)
  PROVE  ReqTyped'
<1>1. req[r] \in Job
  BY DEF ReqTyped
<1>2. CASE req[r].type = "search" /\ Elastic
  <2>1. JobTyped([req[r] EXCEPT !.at = "search"])
    BY <1>1, <1>2 DEF JobTyped, Job, At
  <2>2. Put(r, [req[r] EXCEPT !.at = "search"])
    BY <1>2 DEF Miss, Go
  <2>3. QED  BY <2>1, <2>2, PutTyped
<1>3. CASE ~ (req[r].type = "search" /\ Elastic)
  <2>1. JobTyped([req[r] EXCEPT !.at = "set", !.ver = catalog])
    BY <1>1, <1>3, VersionFacts DEF JobTyped, Job, At, CatalogTyped
  <2>2. Put(r, [req[r] EXCEPT !.at = "set", !.ver = catalog])
    BY <1>3 DEF Miss
  <2>3. QED  BY <2>1, <2>2, PutTyped
<1>4. QED  BY <1>2, <1>3

LEMMA SetCacheTyped ==
  ASSUME StoresTyped, NEW t \in Types, NEW v \in Held, SetCache(t, v), UNCHANGED redisUp
  PROVE  StoresTyped'
BY DEF StoresTyped, SetCache

LEMMA DeleteCacheTyped ==
  ASSUME StoresTyped, NEW t \in Types, DeleteCache(t), UNCHANGED redisUp
  PROVE  StoresTyped'
BY VersionFacts DEF StoresTyped, DeleteCache

LEMMA ReaderStepTyped ==
  ASSUME TypeInv, NEW r \in Readers, ReaderStep(r)
  PROVE  StoresTyped' /\ ReqTyped' /\ UNCHANGED <<catalog, index, redisUp, clearVars, restarts>>
<1>1. /\ CatalogTyped /\ StoresTyped /\ ReqTyped
      /\ req[r] \in Job /\ JobTyped(req[r])
  BY DEF TypeInv, ReqTyped
<1>2. CASE GetCache(r)
  <2>1. req[r].type \in Types
    BY <1>1, <1>2 DEF GetCache, JobTyped
  <2>2. ASSUME Answer(r) PROVE ReqTyped'
    BY <1>1, <2>2, PutTyped, IdleTyped DEF Answer
  <2>3. ASSUME Go(r, "delete") PROVE ReqTyped'
    <3>1. JobTyped([req[r] EXCEPT !.at = "delete"])
      BY <1>1, <2>1 DEF JobTyped, Job, At
    <3>2. QED  BY <1>1, <2>3, <3>1, PutTyped DEF Go
  <2>4. ASSUME Miss(r) PROVE ReqTyped'
    BY <1>1, <2>1, <2>4, MissTyped
  <2>5. StoresTyped' /\ UNCHANGED <<catalog, index, redisUp, clearVars, restarts>>
    BY <1>1, <1>2 DEF GetCache, cacheVars, StoresTyped
  <2>6. QED  BY <1>2, <2>2, <2>3, <2>4, <2>5 DEF GetCache
<1>3. CASE DeleteExpired(r)
  <2>1. req[r].type \in Types
    BY <1>1, <1>3 DEF DeleteExpired, JobTyped
  <2>2. ReqTyped'
    BY <1>1, <1>3, <2>1, MissTyped DEF DeleteExpired
  <2>3. StoresTyped'
    BY <1>1, <1>3, <2>1, DeleteCacheTyped DEF DeleteExpired
  <2>4. QED  BY <1>3, <2>2, <2>3 DEF DeleteExpired
<1>4. CASE Search(r)
  <2>1. PICK hits \in {index, Blank} : Put(r, [req[r] EXCEPT !.at = "set", !.ver = hits])
    BY <1>4 DEF Search
  <2>2. hits \in Known
    BY <1>1, <1>4, <2>1, VersionFacts DEF Search, JobTyped, CatalogTyped
  <2>3. JobTyped([req[r] EXCEPT !.at = "set", !.ver = hits])
    BY <1>1, <1>4, <2>2, VersionFacts DEF Search, JobTyped, Job, At
  <2>4. ReqTyped'
    BY <1>1, <2>1, <2>3, PutTyped
  <2>5. QED
    BY <1>1, <1>4, <2>4 DEF Search, cacheVars, StoresTyped
<1>5. CASE Fill(r)
  <2>1. req[r].type \in Types /\ req[r].ver \in Known
    BY <1>1, <1>5 DEF Fill, JobTyped
  <2>2. StoresTyped'
    BY <1>1, <1>5, <2>1, SetCacheTyped, VersionFacts DEF Fill
  <2>3. ReqTyped'
    <3>1. CASE req[r].type = "movies"
      <4>1. JobTyped([req[r] EXCEPT !.at = "sethot"])
        BY <1>1, <2>1, <3>1 DEF JobTyped, Job, At
      <4>2. QED  BY <1>1, <1>5, <3>1, <4>1, PutTyped DEF Fill, Go
    <3>2. CASE req[r].type # "movies"
      BY <1>1, <1>5, <3>2, PutTyped, IdleTyped DEF Fill, Answer
    <3>3. QED  BY <3>1, <3>2
  <2>4. QED  BY <1>5, <2>2, <2>3 DEF Fill
<1>6. CASE FillHot(r)
  <2>1. "hot_movies" \in Types /\ req[r].ver \in Known
    BY <1>1, <1>6, HotInUse DEF FillHot, JobTyped
  <2>2. StoresTyped'
    BY <1>1, <1>6, <2>1, SetCacheTyped, VersionFacts DEF FillHot
  <2>3. ReqTyped'
    BY <1>1, <1>6, PutTyped, IdleTyped DEF FillHot, Answer
  <2>4. QED  BY <1>6, <2>2, <2>3 DEF FillHot
<1>7. QED
  BY <1>2, <1>3, <1>4, <1>5, <1>6 DEF ReaderStep

LEMMA TypesInUseTyped == TypesInUse \in Seq(Types)
<1>1. \A i \in 1..5 : InUse(i) \in Seq(Types)
  BY DEF InUse
<1>2. QED
  BY <1>1, ConcatProperties DEF TypesInUse

-----------------------------------------------------------------------------
(* What a clear vouches for.                                               *)

\* A set of versions has an oldest.
LEMMA OldestExists ==
  ASSUME NEW S \in SUBSET Known, S # {}
  PROVE  Oldest(S) \in S /\ \A v \in S : Oldest(S) <= v
<1> DEFINE T == {v + 1 : v \in S}
<1>1. \A v \in S : v \in Int /\ v + 1 \in Nat
  BY BrowseAssumption DEF Known, Version, Blank
<1>2. T \subseteq Nat /\ T # {}
  BY <1>1
<1>3. PICK m \in T : \A n \in T : ~ (<<n, m>> \in OpToRel(<, Nat))
  <2> HIDE DEF T
  <2> QED  BY <1>2, NatLessThanWellFounded, WFMin
<1>4. \A n \in T : ~ (n < m)
  <2>1. \A n \in Nat : n < m => <<n, m>> \in OpToRel(<, Nat)
    BY <1>2 DEF OpToRel
  <2> HIDE DEF T
  <2>2. QED  BY <1>2, <1>3, <2>1
<1>5. PICK v \in S : m = v + 1
  OBVIOUS
<1>6. \A w \in S : v <= w
  BY <1>1, <1>4, <1>5
<1>7. QED
  BY <1>5, <1>6 DEF Oldest

\* The version a clear of t vouches for is known, and none of the requests that
\* are about to fill t, nor the next of them, has anything older.
LEMMA ClearedVersion ==
  ASSUME TypeInv, NEW t \in Types,
         NEW ver, ver = Oldest({Source(t)} \cup {req[r].ver : r \in Filling(t)})
  PROVE  ver \in Known /\ ver <= Source(t) /\ \A r \in Filling(t) : ver <= req[r].ver
<1> DEFINE S == {Source(t)} \cup {req[r].ver : r \in Filling(t)}
<1>1. Source(t) \in Known
  BY VersionFacts DEF Source, TypeInv, CatalogTyped
<1>2. \A r \in Filling(t) : req[r].ver \in Known
  BY DEF Filling, TypeInv, ReqTyped, JobTyped
<1>3. S \in SUBSET Known /\ S # {}
  BY <1>1, <1>2
<1>4. ver \in S /\ \A v \in S : ver <= v
  <2> HIDE DEF S
  <2>1. ver = Oldest(S)
    BY DEF S
  <2>2. Oldest(S) \in S /\ \A v \in S : Oldest(S) <= v
    BY <1>3, OldestExists, Zenon
  <2>3. QED  BY <2>1, <2>2
<1>5. QED
  BY <1>1, <1>2, <1>4

LEMMA TypeClearedTyped ==
  ASSUME TypeInv, clearing # <<>>, TypeCleared(Head(clearing)), UNCHANGED redisUp
  PROVE  StoresTyped' /\ ClearTyped' /\ ClearedTyped'
<1>1. Head(clearing) \in Types /\ Tail(clearing) \in Seq(Types)
  BY HeadTailProperties DEF TypeInv, ClearTyped
<1>2. StoresTyped'
  BY <1>1, DeleteCacheTyped DEF TypeInv, TypeCleared
<1>3. ClearTyped'
  BY <1>1 DEF TypeCleared, ClearTyped
<1>4. ClearedTyped'
  <2> DEFINE t == Head(clearing)
             ver == Oldest({Source(t)} \cup {req[r].ver : r \in Filling(t)})
  <2>1. ver \in Known
    BY <1>1, ClearedVersion
  <2>2. cleared' = [type |-> t, ver |-> ver, lasts |-> redisUp]
    BY DEF TypeCleared
  <2> HIDE DEF ver
  <2>3. redisUp \in BOOLEAN
    BY DEF TypeInv, StoresTyped
  <2>4. QED
    BY <1>1, <2>1, <2>2, <2>3, VersionFacts DEF ClearedTyped
<1>5. QED  BY <1>2, <1>3, <1>4

LEMMA ClearStepTyped ==
  ASSUME TypeInv, ClearStep
  PROVE  StoresTyped' /\ ClearTyped' /\ ClearedTyped'
<1>1. CASE TypeCleared(Head(clearing)) /\ clearing # <<>> /\ UNCHANGED redisUp
  BY <1>1, TypeClearedTyped
<1>2. CASE found' = TRUE /\ UNCHANGED <<cacheVars, clearing, cleared, redisUp>>
           /\ clearing # <<>>
  BY <1>2 DEF TypeInv, StoresTyped, ClearTyped, ClearedTyped, cacheVars
<1>3. QED
  BY <1>1, <1>2 DEF ClearStep, ClearKeys, ClearDel, TypeInv, ClearTyped

LEMMA RestartTyped ==
  ASSUME TypeInv, Restart PROVE TypeInv'
<1>1. catalog \in Held /\ None \in Held
  BY VersionFacts DEF TypeInv, CatalogTyped
<1>2. CatalogTyped'
  BY DEF Restart, Indexed, TypeInv, CatalogTyped
<1>3. StoresTyped'
  <2> DEFINE warm(map) == [t \in Types |-> IF t \in Warmed THEN catalog ELSE map[t]]
             empty == [t \in Types |-> None]
  <2>1. redisUp' \in BOOLEAN
    BY DEF Restart
  <2>2. IF redisUp' THEN redis' = warm(redis) /\ memory' = empty
                    ELSE redis' = redis /\ memory' = warm(empty)
    BY DEF Restart
  <2>3. redis \in [Types -> Held]
    BY DEF TypeInv, StoresTyped
  <2>4. /\ warm(redis) \in [Types -> Held] /\ empty \in [Types -> Held]
        /\ warm(empty) \in [Types -> Held] /\ \A t \in Types : empty[t] = None
    BY <1>1, <2>3
  <2> HIDE DEF warm, empty
  <2>5. QED
    BY <2>1, <2>2, <2>3, <2>4 DEF StoresTyped
<1>4. ReqTyped'
  BY IdleTyped DEF Restart, ReqTyped, JobTyped
<1>5. ClearTyped'
  BY EmptySeq DEF Restart, ClearTyped
<1>6. ClearedTyped'
  <2>1. (cleared' = cleared /\ cleared.lasts) \/ cleared' = Nothing
    BY DEF Restart
  <2>2. CASE cleared' = cleared /\ cleared.lasts
    BY <2>2 DEF TypeInv, ClearedTyped
  <2>3. CASE cleared' = Nothing
    <3>1. "none" \notin Types
      BY BrowseAssumption DEF BROWSE_CACHE_TYPES
    <3>2. Nothing \in [type : Types \cup {"none"}, ver : Held, lasts : BOOLEAN]
      BY VersionFacts DEF Nothing
    <3>3. Nothing.type = "none" /\ Nothing.lasts = TRUE
      BY DEF Nothing
    <3>4. QED  BY <2>3, <3>1, <3>2, <3>3 DEF ClearedTyped
  <2>4. QED  BY <2>1, <2>2, <2>3
<1>7. RestartsTyped'
  BY BrowseAssumption DEF Restart, TypeInv, RestartsTyped
<1>8. QED
  BY <1>2, <1>3, <1>4, <1>5, <1>6, <1>7 DEF TypeInv

LEMMA TypeInvNext == TypeInv /\ [Next]_vars => TypeInv'
<1> SUFFICES ASSUME TypeInv, [Next]_vars PROVE TypeInv'
  OBVIOUS
<1> USE DEF TypeInv
<1>1. ASSUME NEW r \in Readers, NEW t \in Types, Browse(r, t) PROVE TypeInv'
  <2>1. JobTyped([at |-> "get", type |-> t, ver |-> None])
    BY VersionFacts DEF JobTyped, Job, At
  <2>2. ReqTyped'
    BY <1>1, <2>1, PutTyped DEF Browse
  <2>3. QED
    BY <1>1, <2>2 DEF Browse, cacheVars, clearVars, CatalogTyped, StoresTyped, ClearTyped,
                      ClearedTyped, RestartsTyped
<1>2. ASSUME NEW r \in Readers, ReaderStep(r) PROVE TypeInv'
  BY <1>2, ReaderStepTyped DEF clearVars, CatalogTyped, ClearTyped, ClearedTyped, RestartsTyped
<1>3. CASE StartClear
  <2>1. clearing' \in Seq(Types)
    <3>1. \A t \in Types : <<t>> \in Seq(Types)
      OBVIOUS
    <3>2. QED  BY <1>3, <3>1, TypesInUseTyped DEF StartClear
  <2>2. ClearTyped'
    BY <1>3, <2>1 DEF StartClear, ClearTyped
  <2>3. QED
    BY <1>3, <2>2 DEF StartClear, cacheVars, CatalogTyped, StoresTyped, ReqTyped,
                      ClearedTyped, RestartsTyped
<1>4. CASE ClearStep
  BY <1>4, ClearStepTyped DEF ClearStep, ClearKeys, ClearDel, CatalogTyped, ReqTyped, RestartsTyped
<1>5. CASE WriteCatalog
  <2>1. CatalogTyped'
    BY <1>5, BrowseAssumption DEF WriteCatalog, CatalogTyped, Version
  <2>2. QED
    BY <1>5, <2>1 DEF WriteCatalog, cacheVars, clearVars, StoresTyped, ReqTyped, ClearTyped,
                      ClearedTyped, RestartsTyped
<1>6. ASSUME NEW s \in Stores, NEW t \in Types, Expire(s, t) PROVE TypeInv'
  <2>1. StoresTyped'
    BY <1>6, VersionFacts DEF Expire, StoresTyped
  <2>2. QED
    BY <1>6, <2>1 DEF Expire, clearVars, CatalogTyped, ReqTyped, ClearTyped, ClearedTyped,
                      RestartsTyped
<1>7. CASE RedisDrops
  <2>1. StoresTyped' /\ ClearedTyped'
    BY <1>7 DEF RedisDrops, cacheVars, clearVars, StoresTyped, ClearedTyped
  <2>2. QED
    BY <1>7, <2>1 DEF RedisDrops, cacheVars, clearVars, CatalogTyped, ReqTyped, ClearTyped,
                      RestartsTyped
<1>8. CASE Restart
  BY <1>8, RestartTyped
<1>9. CASE UNCHANGED vars
  BY <1>9 DEF vars, CatalogTyped, StoresTyped, ReqTyped, ClearTyped, ClearedTyped, RestartsTyped
<1>10. QED
  BY <1>1, <1>2, <1>3, <1>4, <1>5, <1>6, <1>7, <1>8, <1>9 DEF Next

LEMMA TypeInvInit == Init => TypeInv
<1> SUFFICES ASSUME Init PROVE TypeInv
  OBVIOUS
<1>1. CatalogTyped
  BY VersionFacts, BrowseAssumption DEF Init, CatalogTyped
<1>2. StoresTyped
  <2>1. 0 \in Held /\ None \in Held
    BY VersionFacts
  <2>2. QED  BY <2>1 DEF Init, StoresTyped
<1>3. ReqTyped
  BY IdleTyped DEF Init, ReqTyped, JobTyped
<1>4. ClearTyped
  BY EmptySeq DEF Init, ClearTyped
<1>5. ClearedTyped
  <2>1. "none" \notin Types
    BY BrowseAssumption DEF BROWSE_CACHE_TYPES
  <2>2. QED  BY <2>1, VersionFacts DEF Init, ClearedTyped, Nothing
<1>6. RestartsTyped
  BY BrowseAssumption DEF Init, RestartsTyped
<1>7. QED  BY <1>1, <1>2, <1>3, <1>4, <1>5, <1>6 DEF TypeInv

\* Every variable keeps its type; in particular, as long as Redis is connected,
\* no entry is left in the Map to be found when the connection is lost.
THEOREM TypeCorrect == Spec => []TypeOK
<1>1. TypeInv => TypeOK
  BY DEF TypeInv, CatalogTyped, StoresTyped, ReqTyped, ClearTyped, ClearedTyped, RestartsTyped,
         Job, TypeOK
<1>2. QED
  BY <1>1, TypeInvInit, TypeInvNext, PTL DEF Spec

-----------------------------------------------------------------------------
(* A clear holds.                                                          *)

NotOlder(held, ver) == held = None \/ ver <= held

\* What a clear of t vouches for: neither store holds anything older than ver,
\* Redis not even after a restart if the clear reached it; and neither a request
\* that is about to fill t nor what the next one reads is older.
Vouches(t, ver) ==
  /\ ver <= Source(t)
  /\ cleared.lasts => NotOlder(redis[t], ver)
  /\ NotOlder(memory[t], ver)
  /\ \A r \in Filling(t) : ver <= req[r].ver

Vouched == cleared.type \in Types => Vouches(cleared.type, cleared.ver)

\* A step keeps what is vouched for when it neither clears nor makes the source
\* older, and puts nothing older in a store or in the hands of a request.
LEMMA VouchedKept ==
  ASSUME Vouched, UNCHANGED cleared,
         NEW t, t = cleared.type, NEW ver, ver = cleared.ver,
         t \in Types =>
           /\ ver <= Source(t)'
           /\ redis'[t] = redis[t] \/ NotOlder(redis'[t], ver)
           /\ memory'[t] = memory[t] \/ NotOlder(memory'[t], ver)
           /\ \A r \in Filling(t)' : (r \in Filling(t) /\ req'[r].ver = req[r].ver)
                                     \/ ver <= req'[r].ver
  PROVE  Vouched'
BY DEF Vouched, Vouches

\* What is read on a miss is not older than what a clear vouches for.
LEMMA MissReads ==
  ASSUME TypeInv, NEW r \in Readers, req[r].type \in Types, Miss(r), UNCHANGED catalog,
         NEW t \in Types, NEW q \in Filling(t)'
  PROVE  (q \in Filling(t) /\ req'[q].ver = req[q].ver) \/ req'[q].ver = Source(t)
<1>1. req \in [Readers -> Job] /\ req[r] \in Job /\ q \in Readers
  BY DEF TypeInv, ReqTyped, Filling
<1>2. CASE q # r
  <2>1. req'[q] = req[q]
    BY <1>1, <1>2 DEF Miss, Go, Put
  <2>2. QED  BY <2>1 DEF Filling
<1>3. CASE q = r /\ req[r].type = "search" /\ Elastic
  <2>1. req'[r] = [req[r] EXCEPT !.at = "search"]
    BY <1>1, <1>3 DEF Miss, Go, Put
  <2>2. QED  BY <1>1, <1>3, <2>1 DEF Filling, Job
<1>4. CASE q = r /\ ~ (req[r].type = "search" /\ Elastic)
  <2>1. req'[r] = [req[r] EXCEPT !.at = "set", !.ver = catalog]
    BY <1>1, <1>4 DEF Miss, Put
  <2>2. req'[r].ver = catalog /\ req'[r].type = req[r].type
    BY <1>1, <2>1 DEF Job
  <2>3. t = req[r].type \/ t = "hot_movies"
    BY <1>4, <2>2 DEF Filling
  <2>4. Source(t) = catalog
    BY <1>4, <2>3 DEF Source
  <2>5. QED  BY <1>4, <2>2, <2>4
<1>5. QED  BY <1>2, <1>3, <1>4

LEMMA ReaderStepVouched ==
  ASSUME TypeInv, Vouched, NEW r \in Readers, ReaderStep(r) PROVE Vouched'
<1> SUFFICES ASSUME NEW t, t = cleared.type, NEW ver, ver = cleared.ver PROVE Vouched'
  OBVIOUS
<1>1. /\ CatalogTyped /\ StoresTyped /\ ReqTyped
      /\ req \in [Readers -> Job] /\ req[r] \in Job /\ JobTyped(req[r])
  BY DEF TypeInv, ReqTyped
<1>2. UNCHANGED <<catalog, redisUp, cleared>>
  BY ReaderStepTyped DEF clearVars
<1>3. t \in Types => Vouches(t, ver) /\ ver <= Source(t)' /\ ver <= Source(t)
  BY <1>2 DEF Vouched, Vouches, Source
<1>4. ASSUME NEW job, Put(r, job), job.at \notin {"set", "sethot"}
      PROVE  \A q \in Filling(t)' : q \in Filling(t) /\ req'[q].ver = req[q].ver
  BY <1>1, <1>4 DEF Put, Filling
<1>5. ASSUME Answer(r)
      PROVE  \A q \in Filling(t)' : q \in Filling(t) /\ req'[q].ver = req[q].ver
  BY <1>4, <1>5 DEF Answer, Idle
<1>6. ASSUME NEW at \in At \ {"set", "sethot"}, Go(r, at)
      PROVE  \A q \in Filling(t)' : q \in Filling(t) /\ req'[q].ver = req[q].ver
  <2>1. [req[r] EXCEPT !.at = at].at = at
    BY <1>1 DEF Job
  <2>2. QED  BY <1>4, <1>6, <2>1 DEF Go
<1>7. ASSUME Miss(r), req[r].type \in Types, t \in Types
      PROVE  \A q \in Filling(t)' : (q \in Filling(t) /\ req'[q].ver = req[q].ver)
                                    \/ ver <= req'[q].ver
  BY <1>2, <1>3, <1>7, MissReads
<1>8. CASE GetCache(r)
  <2>1. UNCHANGED <<redis, memory>> /\ req[r].type \in Types
    BY <1>1, <1>8 DEF GetCache, cacheVars, JobTyped
  <2>2. t \in Types => \A q \in Filling(t)' : (q \in Filling(t) /\ req'[q].ver = req[q].ver)
                                              \/ ver <= req'[q].ver
    BY <1>5, <1>6, <1>7, <1>8, <2>1 DEF GetCache, At
  <2>3. QED  BY <1>2, <1>3, <2>1, <2>2, VouchedKept
<1>9. CASE DeleteExpired(r)
  <2>1. DeleteCache(req[r].type) /\ Miss(r) /\ req[r].type \in Types
    BY <1>1, <1>9 DEF DeleteExpired, JobTyped
  <2>2. t \in Types => /\ redis'[t] = redis[t] \/ NotOlder(redis'[t], ver)
                       /\ memory'[t] = memory[t] \/ NotOlder(memory'[t], ver)
    BY <1>1, <2>1 DEF DeleteCache, StoresTyped, NotOlder
  <2>3. QED  BY <1>2, <1>3, <1>7, <2>1, <2>2, VouchedKept
<1>10. CASE Search(r)
  <2>1. PICK hits \in {index, Blank} : Put(r, [req[r] EXCEPT !.at = "set", !.ver = hits])
    BY <1>10 DEF Search
  <2>2. hits \in Known /\ req[r].type = "search" /\ Elastic
    BY <1>1, <1>10, <2>1, VersionFacts DEF Search, JobTyped, CatalogTyped
  <2>3. req'[r] = [req[r] EXCEPT !.at = "set", !.ver = hits]
        /\ \A q \in Readers : q # r => req'[q] = req[q]
    BY <1>1, <2>1 DEF Put
  <2>4. req'[r].ver = hits /\ req'[r].type = "search"
    BY <1>1, <2>2, <2>3 DEF Job
  <2>5. ASSUME t \in Types, NEW q \in Filling(t)'
        PROVE  (q \in Filling(t) /\ req'[q].ver = req[q].ver) \/ ver <= req'[q].ver
    <3>1. CASE q # r
      BY <2>3, <2>5, <3>1 DEF Filling
    <3>2. CASE q = r
      <4>1. t = "search"
        BY <2>4, <2>5, <3>2 DEF Filling
      <4>2. ver <= Blank
        BY <1>3, <2>2, <2>5, <4>1 DEF Source
      <4>3. ver \in Int
        BY <2>5, VersionFacts DEF TypeInv, ClearedTyped
      <4>4. Blank <= hits /\ hits \in Int /\ Blank \in Int
        BY <2>2, VersionFacts
      <4>5. QED  BY <2>4, <3>2, <4>2, <4>3, <4>4
    <3>3. QED  BY <3>1, <3>2
  <2>6. UNCHANGED <<redis, memory>>
    BY <1>10 DEF Search, cacheVars
  <2>7. QED  BY <1>2, <1>3, <2>5, <2>6, VouchedKept
<1>11. ASSUME NEW u \in Types, SetCache(u, req[r].ver), u = t => r \in Filling(t), t \in Types
       PROVE  /\ redis'[t] = redis[t] \/ NotOlder(redis'[t], ver)
              /\ memory'[t] = memory[t] \/ NotOlder(memory'[t], ver)
  <2>1. CASE u # t
    BY <1>1, <1>11, <2>1 DEF SetCache, StoresTyped
  <2>2. CASE u = t
    <3>1. ver <= req[r].ver
      BY <1>3, <1>11, <2>2 DEF Vouches
    <3>2. redis'[t] \in {redis[t], req[r].ver} /\ memory'[t] \in {memory[t], req[r].ver}
      BY <1>1, <1>11, <2>2 DEF SetCache, StoresTyped
    <3>3. QED  BY <3>1, <3>2 DEF NotOlder
  <2>3. QED  BY <2>1, <2>2
<1>12. CASE Fill(r)
  <2>1. req[r].at = "set" /\ req[r].type \in Types /\ SetCache(req[r].type, req[r].ver)
    BY <1>1, <1>12 DEF Fill, JobTyped
  <2>2. req[r].type = t => r \in Filling(t)
    BY <2>1 DEF Filling
  <2>3. \A q \in Filling(t)' : q \in Filling(t) /\ req'[q].ver = req[q].ver
    <3>1. CASE req[r].type = "movies"
      <4>1. req' = [req EXCEPT ![r] = [req[r] EXCEPT !.at = "sethot"]]
        BY <1>12, <3>1 DEF Fill, Go, Put
      <4>2. /\ req'[r].type = "movies" /\ req'[r].ver = req[r].ver /\ req'[r].at = "sethot"
            /\ \A q \in Readers : q # r => req'[q] = req[q]
        BY <1>1, <3>1, <4>1 DEF Job
      <4>3. QED  BY <2>1, <3>1, <4>2 DEF Filling
    <3>2. CASE req[r].type # "movies"
      BY <1>5, <1>12, <3>2 DEF Fill
    <3>3. QED  BY <3>1, <3>2
  <2>4. QED
    BY <1>2, <1>3, <1>11, <2>1, <2>2, <2>3, VouchedKept
<1>13. CASE FillHot(r)
  <2>1. req[r].at = "sethot" /\ req[r].type = "movies" /\ SetCache("hot_movies", req[r].ver)
        /\ "hot_movies" \in Types /\ Answer(r)
    BY <1>1, <1>13, HotInUse DEF FillHot, JobTyped
  <2>2. "hot_movies" = t => r \in Filling(t)
    BY <2>1 DEF Filling
  <2>3. QED
    BY <1>2, <1>3, <1>5, <1>11, <2>1, <2>2, VouchedKept
<1>14. QED
  BY <1>8, <1>9, <1>10, <1>12, <1>13 DEF ReaderStep

\* A clear vouches for the oldest of what it left behind.
LEMMA TypeClearedVouched ==
  ASSUME TypeInv, NEW t \in Types, TypeCleared(t), UNCHANGED <<catalog, redisUp, req>>
  PROVE  Vouched'
<1> DEFINE oldest == Oldest({Source(t)} \cup {req[r].ver : r \in Filling(t)})
<1> SUFFICES ASSUME NEW ver, ver = oldest PROVE Vouched'
  OBVIOUS
<1>1. ver \in Known /\ ver <= Source(t) /\ \A r \in Filling(t) : ver <= req[r].ver
  BY ClearedVersion
<1>2. cleared' = [type |-> t, ver |-> ver, lasts |-> redisUp]
  BY DEF TypeCleared
<1> HIDE DEF oldest
<1>3. memory'[t] = None /\ (redisUp => redis'[t] = None)
  BY DEF TypeCleared, DeleteCache, TypeInv, StoresTyped
<1>4. Source(t)' = Source(t) /\ Filling(t)' = Filling(t)
  BY DEF Source, Filling
<1>5. cleared'.type = t /\ cleared'.ver = ver /\ cleared'.lasts = redisUp
  BY <1>2
<1>6. ver <= Source(t)' /\ \A r \in Filling(t)' : ver <= req'[r].ver
  BY <1>1, <1>4
<1>7. QED
  BY <1>3, <1>5, <1>6 DEF Vouched, Vouches, NotOlder

\* Only what a clear has taken from Redis too is vouched for after a restart,
\* which warms the caches with the catalog as it is.
LEMMA RestartVouched ==
  ASSUME TypeInv, Vouched, Restart PROVE Vouched'
<1>1. (cleared' = cleared /\ cleared.lasts) \/ cleared' = Nothing
  BY DEF Restart
<1>2. CASE cleared' = Nothing
  <2>1. "none" \notin Types
    BY BrowseAssumption DEF BROWSE_CACHE_TYPES
  <2>2. QED  BY <1>2, <2>1 DEF Vouched, Nothing
<1>3. CASE cleared' = cleared /\ cleared.lasts
  <2> SUFFICES ASSUME NEW t \in Types, t = cleared.type, NEW ver, ver = cleared.ver
               PROVE  Vouches(t, ver)'
    BY <1>3 DEF Vouched, Vouches
  <2> DEFINE warm(map) == [u \in Types |-> IF u \in Warmed THEN catalog ELSE map[u]]
             empty == [u \in Types |-> None]
  <2>1. /\ IF redisUp' THEN redis' = warm(redis) /\ memory' = empty
                       ELSE redis' = redis /\ memory' = warm(empty)
        /\ req' = [r \in Readers |-> Idle] /\ catalog' = catalog
    BY DEF Restart
  <2>2. ver <= Source(t) /\ NotOlder(redis[t], ver)
    BY <1>3 DEF Vouched, Vouches
  <2>3. ver <= Source(t)'
    BY <2>1, <2>2 DEF Source
  <2>4. t \in Warmed => NotOlder(catalog, ver)
    BY <2>2 DEF Warmed, Source, NotOlder
  <2>5. NotOlder(warm(redis)[t], ver) /\ NotOlder(warm(empty)[t], ver) /\ NotOlder(empty[t], ver)
    BY <2>2, <2>4 DEF NotOlder
  <2> HIDE DEF warm, empty
  <2>6. NotOlder(redis'[t], ver) /\ NotOlder(memory'[t], ver)
    BY <2>1, <2>2, <2>5
  <2>7. Filling(t)' = {}
    BY <2>1 DEF Filling, Idle
  <2>8. QED  BY <2>3, <2>6, <2>7 DEF Vouches
<1>4. QED  BY <1>1, <1>2, <1>3

LEMMA VouchedNext == TypeInv /\ Vouched /\ [Next]_vars => Vouched'
<1> SUFFICES ASSUME TypeInv, Vouched, [Next]_vars PROVE Vouched'
  OBVIOUS
<1>1. CatalogTyped /\ StoresTyped /\ ReqTyped /\ ClearTyped /\ ClearedTyped
  BY DEF TypeInv
<1>2. ASSUME UNCHANGED <<cleared, req, catalog, cacheVars>> PROVE Vouched'
  BY <1>2 DEF Vouched, Vouches, Source, Filling, cacheVars
<1>3. ASSUME NEW r \in Readers, NEW u \in Types, Browse(r, u) PROVE Vouched'
  <2> SUFFICES ASSUME NEW t \in Types, t = cleared.type PROVE Vouches(t, cleared.ver)'
    BY <1>3 DEF Browse, clearVars, Vouched, Vouches
  <2>1. \A q \in Filling(t)' : q \in Filling(t) /\ req'[q].ver = req[q].ver
    BY <1>1, <1>3 DEF Browse, Put, Filling, ReqTyped
  <2>2. Source(t)' = Source(t)
    BY <1>3 DEF Browse, Source
  <2>3. QED
    BY <1>3, <2>1, <2>2 DEF Browse, cacheVars, clearVars, Vouched, Vouches
<1>4. ASSUME NEW r \in Readers, ReaderStep(r) PROVE Vouched'
  BY <1>4, ReaderStepVouched
<1>5. CASE StartClear
  BY <1>2, <1>5 DEF StartClear
<1>6. CASE ClearStep
  <2>1. CASE UNCHANGED <<cleared, req, catalog, cacheVars>>
    BY <1>2, <2>1
  <2>2. CASE TypeCleared(Head(clearing)) /\ clearing # <<>> /\ UNCHANGED <<catalog, redisUp, req>>
    <3>1. Head(clearing) \in Types
      BY <1>1, <2>2, HeadTailProperties DEF ClearTyped
    <3>2. QED  BY <2>2, <3>1, TypeClearedVouched
  <2>3. QED
    BY <1>1, <1>6, <2>1, <2>2 DEF ClearStep, ClearKeys, ClearDel, ClearTyped
<1>7. CASE WriteCatalog
  <2> SUFFICES ASSUME NEW t \in Types, t = cleared.type, NEW ver, ver = cleared.ver
               PROVE  Vouches(t, ver)'
    BY <1>7 DEF WriteCatalog, clearVars, Vouched, Vouches
  <2>1. ver \in Int /\ catalog \in Int /\ catalog' = catalog + 1
    BY <1>1, <1>7, VersionFacts DEF WriteCatalog, ClearedTyped, CatalogTyped, Version
  <2>2. ver <= Source(t)'
    BY <2>1 DEF Vouched, Vouches, Source
  <2>3. Filling(t)' = Filling(t)
    BY <1>7 DEF WriteCatalog, Filling
  <2>4. QED
    BY <1>7, <2>2, <2>3 DEF WriteCatalog, cacheVars, clearVars, Vouched, Vouches
<1>8. ASSUME NEW s \in Stores, NEW u \in Types, Expire(s, u) PROVE Vouched'
  <2> SUFFICES ASSUME NEW t \in Types, t = cleared.type PROVE Vouches(t, cleared.ver)'
    BY <1>8 DEF Expire, clearVars, Vouched, Vouches
  <2>1. redis'[t] \in {redis[t], None} /\ memory'[t] \in {memory[t], None}
    BY <1>1, <1>8 DEF Expire, StoresTyped
  <2>2. Source(t)' = Source(t) /\ Filling(t)' = Filling(t)
    BY <1>8 DEF Expire, Source, Filling
  <2>3. UNCHANGED <<cleared, req>>
    BY <1>8 DEF Expire, clearVars
  <2>4. QED
    BY <2>1, <2>2, <2>3 DEF Vouched, Vouches, NotOlder
<1>9. CASE RedisDrops
  BY <1>2, <1>9 DEF RedisDrops, clearVars
<1>10. CASE Restart
  BY <1>10, RestartVouched
<1>11. CASE UNCHANGED vars
  BY <1>2, <1>11 DEF vars, cacheVars
<1>12. QED
  BY <1>3, <1>4, <1>5, <1>6, <1>7, <1>8, <1>9, <1>10, <1>11 DEF Next

\* A clear made with Redis takes a type out of both stores: whichever of them
\* answers later, when Redis is lost or the process restarts, the answer is made
\* after the clear.  Exempted are what a request in progress had read before and
\* puts back, and clears without Redis once the process restarts.
THEOREM ClearsHold == Spec => []ClearHolds
<1>1. Init => Vouched
  <2>1. "none" \notin Types
    BY BrowseAssumption DEF BROWSE_CACHE_TYPES
  <2>2. QED  BY <2>1 DEF Init, Nothing, Vouched
<1>2. TypeInv /\ Vouched => ClearHolds
  BY DEF TypeInv, ClearedTyped, Vouched, Vouches, NotOlder, ClearHolds, Cached, InRedis
<1>3. QED
  BY <1>1, <1>2, TypeInvInit, TypeInvNext, VouchedNext, PTL DEF Spec
=============================================================================
