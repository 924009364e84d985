---------------------------- MODULE BrowseCache -----------------------------
(***************************************************************************)
(* The browse caches of RedisStore: filled by the movie, cinema and search *)
(* endpoints of src/server.js and at the start, cleared by administrators, *)
(* kept in Redis and, once its connection is lost, in a Map of the         *)
(* process; and the search index of searchService.js, filled at the start. *)
(*                                                                         *)
(* What an entry, an answer or the index holds is told by a version: how   *)
(* many writes of the catalog it has seen.  A step is one command at Redis *)
(* or Elasticsearch with the local code that follows its reply; a handler  *)
(* reads the catalog synchronously.  Without Redis the code yields at fewer *)
(* places than the model does.                                             *)
(***************************************************************************)
EXTENDS Integers, Sequences, FiniteSets

CONSTANTS
  Types,       \* the types of browse cache in use
  Readers,     \* the browse and search requests that can be in progress at once
  Elastic,     \* is searchService.mode elasticsearch?
  MaxWrites,   \* bound on the writes of the catalog
  MaxRestarts  \* bound on the restarts of the process

BROWSE_CACHE_TYPES == <<"movies", "hot_movies", "cinemas", "search", "movie">>

ASSUME BrowseAssumption ==
  /\ Types \subseteq {BROWSE_CACHE_TYPES[i] : i \in 1..5}
  /\ "movies" \in Types => "hot_movies" \in Types
  /\ Elastic \in BOOLEAN
  /\ MaxWrites \in Nat /\ MaxRestarts \in Nat

\* Beside the versions: an answer without rows, and no entry at all.
Blank == -1
None == -2
Version == 0..MaxWrites
Held == Version \cup {Blank, None}

VARIABLES
  catalog,        \* the version of cinema-db.json
  index,          \* the version in Elasticsearch
  redis, memory,  \* type -> version of the entry
  redisUp,        \* is the Redis connection open?
  req,            \* reader -> where it is, what it browses, what it read
  clearing,       \* the types still to clear
  found,          \* did KEYS find an entry of the first of them?
  cleared,        \* ghost: the last type that was cleared, the version this vouches
                  \* for, and does it last when the process restarts?
  restarts

cacheVars == <<redis, memory>>
clearVars == <<clearing, found, cleared>>
vars == <<catalog, index, redis, memory, redisUp, req, clearing, found, cleared, restarts>>

Stores == {"redis", "memory"}
At == {"idle", "get", "delete", "search", "set", "sethot"}
Nothing == [type |-> "none", ver |-> None, lasts |-> TRUE]
Idle == [at |-> "idle", type |-> "none", ver |-> None]

\* What the start has put into the caches: warmBrowseCache.
Warmed == Types \cap {"movies", "hot_movies", "cinemas"}

Init ==
  /\ catalog = 0
  /\ index = IF Elastic THEN 0 ELSE None
  /\ redis = [t \in Types |-> IF t \in Warmed THEN 0 ELSE None]
  /\ memory = [t \in Types |-> None]
  /\ redisUp = TRUE
  /\ req = [r \in Readers |-> Idle]
  /\ clearing = <<>> /\ found = FALSE
  /\ cleared = Nothing
  /\ restarts = 0

-----------------------------------------------------------------------------
(* RedisStore.                                                             *)

\* Mutant of SetCache: the Map is written as well as Redis.
SetBoth(t, v) ==
  /\ redis' = IF redisUp THEN [redis EXCEPT ![t] = v] ELSE redis
  /\ memory' = [memory EXCEPT ![t] = v]
\* setCache: into Redis, into the Map when the command fails.
SetCache(t, v) ==
  /\ redis' = IF redisUp THEN [redis EXCEPT ![t] = v] ELSE redis
  /\ memory' = IF redisUp THEN memory ELSE [memory EXCEPT ![t] = v]

\* Mutant of DeleteCache: the Map is forgotten.
DeleteRedisOnly(t) ==
  /\ redis' = IF redisUp THEN [redis EXCEPT ![t] = None] ELSE redis
  /\ UNCHANGED memory
\* deleteCache, and what clearCacheType does after KEYS.
DeleteCache(t) ==
  /\ redis' = IF redisUp THEN [redis EXCEPT ![t] = None] ELSE redis
  /\ memory' = [memory EXCEPT ![t] = None]

\* getCache: the entry in Redis, else the one in the Map (getMemoryCache).
InRedis(t) == redisUp /\ redis[t] # None
Cached(t) == IF InRedis(t) THEN redis[t] ELSE memory[t]

-----------------------------------------------------------------------------
(* GET /api/movies, /api/movies/hot, /api/cinemas, /api/search             *)

Put(r, job) == req' = [req EXCEPT ![r] = job]
Go(r, at) == Put(r, [req[r] EXCEPT !.at = at])
Answer(r) == Put(r, Idle)

Browse(r, t) ==
  /\ req[r] = Idle
  /\ Put(r, [at |-> "get", type |-> t, ver |-> None])
  /\ UNCHANGED <<catalog, index, cacheVars, redisUp, clearVars, restarts>>

\* A miss: Elasticsearch is asked, or the catalog is read.
Miss(r) ==
  IF req[r].type = "search" /\ Elastic
    THEN Go(r, "search")
    ELSE Put(r, [req[r] EXCEPT !.at = "set", !.ver = catalog])

\* The reply of GET: a hit is answered, unless its expiresAt has just passed:
\* Redis drops the entry a little later, so it is deleted first.
GetCache(r) ==
  LET t == req[r].type IN
  /\ req[r].at = "get"
  /\ \/ Cached(t) # None /\ Answer(r)
     \/ InRedis(t) /\ Go(r, "delete")
     \/ Cached(t) = None /\ Miss(r)
  /\ UNCHANGED <<catalog, index, cacheVars, redisUp, clearVars, restarts>>

DeleteExpired(r) ==
  /\ req[r].at = "delete"
  /\ DeleteCache(req[r].type)
  /\ Miss(r)
  /\ UNCHANGED <<catalog, index, redisUp, clearVars, restarts>>

\* A search that fails answers no hits, to be cached like any other answer.
Search(r) ==
  /\ req[r].at = "search"
  /\ \E hits \in {index, Blank} : Put(r, [req[r] EXCEPT !.at = "set", !.ver = hits])
  /\ UNCHANGED <<catalog, index, cacheVars, redisUp, clearVars, restarts>>

\* The handlers' calls of setCache; /api/movies goes on to the hot movies.
Fill(r) ==
  /\ req[r].at = "set"
  /\ SetCache(req[r].type, req[r].ver)
  /\ IF req[r].type = "movies" THEN Go(r, "sethot") ELSE Answer(r)
  /\ UNCHANGED <<catalog, index, redisUp, clearVars, restarts>>

FillHot(r) ==
  /\ req[r].at = "sethot"
  /\ SetCache("hot_movies", req[r].ver)
  /\ Answer(r)
  /\ UNCHANGED <<catalog, index, redisUp, clearVars, restarts>>

-----------------------------------------------------------------------------
(* DELETE /api/cache/clear and /api/cache/clear/:type                      *)

\* The types in use in the order of BROWSE_CACHE_TYPES.
InUse(i) == IF BROWSE_CACHE_TYPES[i] \in Types THEN <<BROWSE_CACHE_TYPES[i]>> ELSE <<>>
TypesInUse == InUse(1) \o InUse(2) \o InUse(3) \o InUse(4) \o InUse(5)

StartClear ==
  /\ clearing = <<>>
  /\ clearing' \in {TypesInUse} \cup {<<t>> : t \in Types}
  /\ UNCHANGED <<catalog, index, cacheVars, redisUp, req, found, cleared, restarts>>

\* The requests that will still put what they have read into the cache of t.
Filling(t) ==
  {r \in Readers :
     \/ req[r].at = "set" /\ req[r].type = t
     \/ req[r].at \in {"set", "sethot"} /\ req[r].type = "movies" /\ t = "hot_movies"}

\* What the next entry of t will be made from, at worst.
Source(t) == IF t = "search" /\ Elastic THEN Blank ELSE catalog
Oldest(S) == CHOOSE v \in S : \A w \in S : v <= w

TypeCleared(t) ==
  /\ DeleteCache(t)
  /\ clearing' = Tail(clearing)
  /\ found' = FALSE
  /\ cleared' =
       [type |-> t,
        ver |-> Oldest({Source(t)} \cup {req[r].ver : r \in Filling(t)}),
        lasts |-> redisUp]

\* KEYS finds an entry, or there is nothing to delete in Redis.
ClearKeys ==
  /\ clearing # <<>> /\ ~ found
  /\ IF InRedis(Head(clearing))
       THEN found' = TRUE /\ UNCHANGED <<cacheVars, clearing, cleared>>
       ELSE TypeCleared(Head(clearing))
  /\ UNCHANGED <<catalog, index, redisUp, req, restarts>>

ClearDel ==
  /\ found
  /\ TypeCleared(Head(clearing))
  /\ UNCHANGED <<catalog, index, redisUp, req, restarts>>

-----------------------------------------------------------------------------
(* Writes, time and faults.                                                *)

\* An order, a payment, a new price: none of them touches a cache.
WriteCatalog ==
  /\ catalog < MaxWrites
  /\ catalog' = catalog + 1
  /\ UNCHANGED <<index, cacheVars, redisUp, req, clearVars, restarts>>

\* The time of an entry is over: Redis drops it, connected or not; in the Map
\* it stays until it is looked at, and is dropped then.
Expire(s, t) ==
  /\ IF s = "redis"
       THEN redis[t] # None /\ redis' = [redis EXCEPT ![t] = None] /\ UNCHANGED memory
       ELSE memory[t] # None /\ memory' = [memory EXCEPT ![t] = None] /\ UNCHANGED redis
  /\ UNCHANGED <<catalog, index, redisUp, req, clearVars, restarts>>

\* The connection closes and, with reconnectStrategy false, stays closed.
RedisDrops ==
  /\ redisUp
  /\ redisUp' = FALSE
  /\ UNCHANGED <<catalog, index, cacheVars, req, clearVars, restarts>>

\* indexMovies and indexCinemas: the bulk request may fail.
Indexed == {index} \cup IF Elastic THEN {catalog} ELSE {}

\* The process dies with its Map and its requests and starts again: it connects
\* or not, fills the index, and warms the caches.
Restart ==
  /\ restarts < MaxRestarts
  /\ restarts' = restarts + 1
  /\ redisUp' \in BOOLEAN
  /\ index' \in Indexed
  /\ LET warm(map) == [t \in Types |-> IF t \in Warmed THEN catalog ELSE map[t]]
         empty == [t \in Types |-> None]
     IN IF redisUp'
          THEN redis' = warm(redis) /\ memory' = empty
          ELSE redis' = redis /\ memory' = warm(empty)
  /\ req' = [r \in Readers |-> Idle]
  /\ clearing' = <<>> /\ found' = FALSE
  /\ cleared' = IF cleared.lasts THEN cleared ELSE Nothing
  /\ UNCHANGED catalog

-----------------------------------------------------------------------------
ReaderStep(r) ==
  GetCache(r) \/ DeleteExpired(r) \/ Search(r) \/ Fill(r) \/ FillHot(r)
ClearStep == ClearKeys \/ ClearDel

Next ==
  \/ \E r \in Readers, t \in Types : Browse(r, t)
  \/ \E r \in Readers : ReaderStep(r)
  \/ StartClear \/ ClearStep
  \/ WriteCatalog
  \/ \E s \in Stores, t \in Types : Expire(s, t)
  \/ RedisDrops \/ Restart

Spec == Init /\ [][Next]_vars

-----------------------------------------------------------------------------
TypeOK ==
  /\ catalog \in Version
  /\ index \in Version \cup {None}
  /\ redis \in [Types -> Held] /\ memory \in [Types -> Held]
  /\ redisUp => \A t \in Types : memory[t] = None
  /\ redisUp \in BOOLEAN
  /\ req \in [Readers -> [at : At, type : Types \cup {"none"}, ver : Held]]
  /\ clearing \in Seq(Types) /\ found \in BOOLEAN
  /\ cleared \in [type : Types \cup {"none"}, ver : Held, lasts : BOOLEAN]
  /\ restarts \in 0..MaxRestarts

\* What a clear took out of a type is taken out of both stores: later answers
\* are made after the clear, whichever store gives them, when Redis is lost or
\* the process restarts.  Two cases are left out, and the code has both: what a
\* request in progress had read before the clear it still puts back, and a clear
\* without Redis leaves the entries there, to be found after a restart.
ClearHolds ==
  LET t == cleared.type IN
  t \in Types /\ Cached(t) # None => cleared.ver <= Cached(t)
=============================================================================
