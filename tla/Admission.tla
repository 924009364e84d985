----------------------------- MODULE Admission ------------------------------
(***************************************************************************)
(* Who gets as far as the handler of POST /api/orders: a session of auth.js *)
(* and a permit of sentinel/rateLimiter.js.                                 *)
(*                                                                         *)
(* Time is counted in ticks of any length; a request passes both checks     *)
(* within one tick and without an await, so it is one step.  Tokens are     *)
(* counted in units of which Rate come back in a tick.  All of this state   *)
(* is in the memory of the process.                                         *)
(***************************************************************************)
EXTENDS Integers

CONSTANTS
  Users,
  Tokens,      \* the ids (jti) that sessions get
  Capacity,    \* of the bucket of a show
  Rate,        \* units that come back in a tick
  Cost,        \* units a request takes
  UserLimit,   \* requests of a user in a window: userLimit
  Window,      \* ticks: userLimitWindow
  Ages,        \* ticks after which cleanupUserRecords may drop a record
  Lifetime,    \* ticks a session lasts: TOKEN_TTL_SECONDS
  Nobody,      \* the owner of an id that is not issued
  MaxTime      \* bound on the time that is explored

ASSUME AdmissionAssumption ==
  /\ Capacity \in Nat /\ Rate \in Nat /\ Cost \in Nat \ {0}
  /\ UserLimit \in Nat \ {0} /\ Window \in Nat \ {0}
  /\ Ages \subseteq {a \in Nat : a >= Window}
  /\ Lifetime \in Nat \ {0}
  /\ Nobody \notin Users
  /\ MaxTime \in Nat

VARIABLES
  now,
  algorithm,      \* of the bucket, configured once
  level,          \* tokens left, or the requests still in the leaky bucket
  last,           \* lastRefill or lastLeak
  record,         \* user -> the requests counted in the window that began at timestamp
  session,        \* id -> its user and when it expires
  revoked,        \* revokedTokenIds
  since,          \* ghost: an instant from which on permits are counted:
  taken,          \* ghost: what was taken from the bucket since,
  admitted,       \* ghost: the requests of each user that were allowed since
  loggedOut       \* ghost: the ids logged out since the start of the process

bucketVars == <<algorithm, level, last>>
sessionVars == <<session, revoked, loggedOut>>
watchVars == <<since, taken, admitted>>
vars == <<now, bucketVars, record, sessionVars, watchVars>>

NoRecord == [count |-> 0, timestamp |-> -1]
NoSession == [user |-> Nobody, exp |-> 0]

Full == IF algorithm = "token_bucket" THEN Capacity ELSE 0

Init ==
  /\ now = 0
  /\ algorithm \in {"token_bucket", "leaky_bucket"}
  /\ level = Full /\ last = 0
  /\ record = [u \in Users |-> NoRecord]
  /\ session = [k \in Tokens |-> NoSession]
  /\ revoked = {}
  /\ since = 0 /\ taken = 0 /\ admitted = [u \in Users |-> 0]
  /\ loggedOut = {}

-----------------------------------------------------------------------------
(* auth.js                                                                 *)

\* verifyJwt and getSession.
Accepted(k) ==
  /\ session[k].user # Nobody
  /\ session[k].exp > now
  /\ k \notin revoked

\* issueSession.
Login(u, k) ==
  /\ session[k] = NoSession
  /\ session' = [session EXCEPT ![k] = [user |-> u, exp |-> now + Lifetime]]
  /\ UNCHANGED <<now, bucketVars, record, revoked, loggedOut, watchVars>>

\* Mutant of Purged: an id is forgotten in the last tick of its session.
PurgedEarly(ids) == {k \in ids : session[k].exp > now + 1}
\* purgeRevokedTokens.
Purged(ids) == {k \in ids : session[k].exp > now}

\* POST /api/auth/logout: revokeSession.
Logout(k) ==
  /\ Accepted(k)
  /\ revoked' = Purged(revoked \cup {k})
  /\ loggedOut' = loggedOut \cup {k}
  /\ UNCHANGED <<now, bucketVars, record, session, watchVars>>

-----------------------------------------------------------------------------
(* rateLimiter.js                                                          *)

Least(a, b) == IF a < b THEN a ELSE b
Most(a, b) == IF a < b THEN b ELSE a

\* Mutant of Settled: nothing bounds what comes back.
SettledAbove ==
  IF algorithm = "token_bucket" THEN level + Rate * (now - last)
  ELSE level - Rate * (now - last)
\* refill and leak.
Settled ==
  IF algorithm = "token_bucket" THEN Least(Capacity, level + Rate * (now - last))
  ELSE Most(0, level - Rate * (now - last))

\* tryAcquire of either limiter.
Enough(l) == IF algorithm = "token_bucket" THEN l >= Cost ELSE l + Cost <= Capacity
Take(l) == IF algorithm = "token_bucket" THEN l - Cost ELSE l + Cost

\* checkUserLimit: a window begins with the first request after the last one.
InWindow(u) == record[u] # NoRecord /\ now - record[u].timestamp < Window
UserAllowed(u) == InWindow(u) => record[u].count < UserLimit

\* Mutant of Counted: a new window keeps the timestamp of the old one.
CountedFromFirst(u) ==
  IF InWindow(u) THEN [record[u] EXCEPT !.count = @ + 1]
  ELSE [count |-> 1, timestamp |-> IF record[u] = NoRecord THEN now ELSE record[u].timestamp]
Counted(u) ==
  IF InWindow(u) THEN [record[u] EXCEPT !.count = @ + 1]
  ELSE [count |-> 1, timestamp |-> now]

\* cleanupUserRecords: of the records too old, those of any user.
Cleaned(rs, age) ==
  [u \in Users |-> IF now - rs[u].timestamp > age THEN NoRecord ELSE rs[u]]

\* A refused request of a user has taken its share of the bucket nevertheless.
Acquire(u) ==
  /\ last' = now
  /\ IF Enough(Settled)
       THEN /\ level' = Take(Settled) /\ taken' = taken + Cost
            /\ IF UserAllowed(u)
                 THEN /\ \E age \in Ages : record' = Cleaned([record EXCEPT ![u] = Counted(u)], age)
                      /\ admitted' = [admitted EXCEPT ![u] = @ + 1]
                 ELSE UNCHANGED <<record, admitted>>
       ELSE level' = Settled /\ UNCHANGED <<taken, record, admitted>>

\* POST /api/orders up to the circuit breaker; without a session it changes nothing.
Order(u, k) ==
  /\ session[k].user = u /\ Accepted(k)
  /\ Acquire(u)
  /\ UNCHANGED <<now, algorithm, since, sessionVars>>

\* getStats, for the page of operations, brings the bucket up to date.
Stats ==
  /\ level' = Settled /\ last' = now
  /\ UNCHANGED <<now, algorithm, record, sessionVars, watchVars>>

-----------------------------------------------------------------------------
Tick ==
  /\ now < MaxTime
  /\ now' = now + 1
  /\ UNCHANGED <<bucketVars, record, sessionVars, watchVars>>

\* The process dies and starts again: sessions stay valid, revoked ones as well.
Restart ==
  /\ level' = Full /\ last' = now
  /\ record' = [u \in Users |-> NoRecord]
  /\ revoked' = {} /\ loggedOut' = {}
  /\ since' = now /\ taken' = 0 /\ admitted' = [u \in Users |-> 0]
  /\ UNCHANGED <<now, algorithm, session>>

\* The count of the permits may begin at any instant.
Watch ==
  /\ since' = now /\ taken' = 0 /\ admitted' = [u \in Users |-> 0]
  /\ UNCHANGED <<now, bucketVars, record, sessionVars>>

Next ==
  \/ \E u \in Users, k \in Tokens : Login(u, k) \/ Order(u, k)
  \/ \E k \in Tokens : Logout(k)
  \/ Stats \/ Tick \/ Restart \/ Watch

Spec == Init /\ [][Next]_vars

-----------------------------------------------------------------------------
TypeOK ==
  /\ now \in Nat
  /\ algorithm \in {"token_bucket", "leaky_bucket"}
  /\ level \in 0..Capacity /\ last \in 0..now
  /\ record \in [Users -> [count : 0..UserLimit, timestamp : -1..now]]
  /\ session \in [Tokens -> [user : Users \cup {Nobody}, exp : Nat]]
  /\ revoked \subseteq Tokens /\ loggedOut \subseteq Tokens
  /\ since \in 0..now /\ taken \in Nat /\ admitted \in [Users -> Nat]

\* From whatever instant one counts, no more is taken from a bucket, of either
\* kind, than its capacity and what came back since.
TakenBounded == taken <= Capacity + Rate * (now - since)

\* In no interval shorter than the window is a user allowed twice the limit,
\* although windows begin at any time and records are dropped: the first request
\* of the older window is out of such an interval.
UserBounded ==
  now - since < Window => \A u \in Users : admitted[u] < 2 * UserLimit

\* An id that was logged out is not accepted again while the process lives:
\* purging forgets an id only when its session is over anyway.
LoggedOutStaysOut == \A k \in loggedOut : ~ Accepted(k)
=============================================================================
