------------------------------ MODULE Sentinel ------------------------------
(***************************************************************************)
(* SentinelManager.protect around POST /api/orders of one show: the level  *)
(* of the degradation manager is looked at first, then the circuit breaker *)
(* of the show decides whether the order handler runs.  Handlers are in    *)
(* progress together; the breaker is updated when one of them ends, by its *)
(* timer and by an administrator, the level by the monitor's timer and by  *)
(* an administrator.  The rate limiter between the two may refuse a        *)
(* request, which changes nothing here.                                    *)
(***************************************************************************)
EXTENDS Naturals, FiniteSets

CONSTANTS
  Calls,         \* the requests that can be in progress at once
  MaxProbes,     \* maxHalfOpenRequests
  MinRequests,   \* minRequestAmount
  ErrorPercent,  \* errorThreshold
  SlowPercent,   \* slowCallThreshold
  MaxWindow,     \* bound: how many results the sliding window remembers
  Administrators \* do they use the two endpoints for the level and the breaker?

ASSUME SentinelAssumption ==
  /\ IsFiniteSet(Calls)
  /\ MaxProbes \in Nat \ {0} /\ MinRequests \in Nat /\ MaxWindow \in Nat \ {0}
  /\ ErrorPercent \in 0..100 /\ SlowPercent \in 0..100
  /\ Administrators \in BOOLEAN

VARIABLES
  redis,             \* is store.client there and open?
  level,             \* currentLevel, by the name of its strategy
  errorRate,         \* metrics.errorRate of the degradation manager, in percent
  state,             \* the breaker's state
  window,            \* the breaker's metrics: results, errors and slow ones
  halfOpenRequests,
  running,           \* the requests in progress behind the breaker
  probes             \* history: those the breaker let through while HALF_OPEN
                     \* since it last became so

levelVars == <<redis, level, errorRate>>
vars == <<redis, level, errorRate, state, window, halfOpenRequests, running, probes>>

\* setDegradationLevel takes any number from 0 to 2: "none" stands for one that
\* names no strategy.  Level 1 and 0 are those at which orders are accepted.
Level == {"NORMAL", "PARTIAL", "FULL", "none"}
Accepting == level \in {"NORMAL", "PARTIAL"}

Window == {w \in [total : 0..MaxWindow, errors : 0..MaxWindow, slow : 0..MaxWindow] :
             w.errors <= w.total /\ w.slow <= w.total}
NoResults == [total |-> 0, errors |-> 0, slow |-> 0]

Init ==
  /\ redis \in BOOLEAN
  /\ level = "NORMAL"
  /\ errorRate = 0
  /\ state = "CLOSED"
  /\ window = NoResults
  /\ halfOpenRequests = 0
  /\ running = {}
  /\ probes = {}

-----------------------------------------------------------------------------
(* Transitions of the breaker.                                             *)

BreakerBecomes(st, used) ==
  state' = st /\ halfOpenRequests' = used /\ probes' = {}

BreakerStays == UNCHANGED <<state, halfOpenRequests, probes>>

\* The metrics are not cleared: reset only puts empty buckets behind the others.
TransitionToClosed == BreakerBecomes("CLOSED", 0) /\ UNCHANGED errorRate

\* The listener of SentinelManager tells the degradation manager.
TransitionToOpen == BreakerBecomes("OPEN", halfOpenRequests) /\ errorRate' = 50

\* Mutant of TransitionToHalfOpen: the probes of the last time still count.
TransitionToHalfOpenKeepingCount ==
  BreakerBecomes("HALF_OPEN", halfOpenRequests) /\ UNCHANGED errorRate

TransitionToHalfOpen == BreakerBecomes("HALF_OPEN", 0) /\ UNCHANGED errorRate

\* checkCircuitBreaker.
ShouldOpen(w) ==
  /\ w.total >= MinRequests
  /\ \/ 100 * w.slow >= SlowPercent * w.total
     \/ 100 * w.errors >= ErrorPercent * w.total

-----------------------------------------------------------------------------
(* A request: protect and CircuitBreaker.call.                             *)

\* Mutant of ProbeAllowed: one probe too many.
ProbeAllowedOneMore == halfOpenRequests <= MaxProbes
ProbeAllowed == halfOpenRequests < MaxProbes

\* The request gets to the order handler.
Protect(c) ==
  /\ c \notin running
  /\ Accepting
  /\ \/ state = "CLOSED" /\ UNCHANGED <<halfOpenRequests, probes>>
     \/ /\ state = "HALF_OPEN" /\ ProbeAllowed
        /\ halfOpenRequests' = halfOpenRequests + 1
        /\ probes' = probes \cup {c}
  /\ running' = running \cup {c}
  /\ UNCHANGED <<levelVars, state, window>>

\* record: the result is counted, once the buckets that are too old are gone.
Recorded(success, slow) ==
  {[total  |-> w.total + 1,
    errors |-> w.errors + IF success THEN 0 ELSE 1,
    slow   |-> w.slow + IF slow THEN 1 ELSE 0] :
   w \in {w \in Window : /\ w.total < MaxWindow /\ w.total <= window.total
                         /\ w.errors <= window.errors /\ w.slow <= window.slow}}

\* Mutant of Judge: a failed probe leaves the breaker as it is.
JudgeSuccess(success) ==
  \/ state = "CLOSED" /\ ShouldOpen(window') /\ TransitionToOpen
  \/ state = "CLOSED" /\ ~ ShouldOpen(window') /\ BreakerStays /\ UNCHANGED errorRate
  \/ state = "HALF_OPEN" /\ success /\ TransitionToClosed
  \/ state = "HALF_OPEN" /\ ~ success /\ BreakerStays /\ UNCHANGED errorRate
  \/ state = "OPEN" /\ BreakerStays /\ UNCHANGED errorRate

\* What the end of a request does to the breaker as it is by then, whatever it
\* was when the request started.
Judge(success) ==
  \/ state = "CLOSED" /\ ShouldOpen(window') /\ TransitionToOpen
  \/ state = "CLOSED" /\ ~ ShouldOpen(window') /\ BreakerStays /\ UNCHANGED errorRate
  \/ state = "HALF_OPEN" /\ success /\ TransitionToClosed
  \/ state = "HALF_OPEN" /\ ~ success /\ TransitionToOpen
  \/ state = "OPEN" /\ BreakerStays /\ UNCHANGED errorRate

\* The order handler returns or throws.
Finish(c, success, slow) ==
  /\ c \in running
  /\ running' = running \ {c}
  /\ window' \in Recorded(success, slow)
  /\ Judge(success)
  /\ UNCHANGED <<redis, level>>

-----------------------------------------------------------------------------
(* Timers and administrators.                                              *)

\* The state checker finds the breaker open for waitDurationInOpenState.
CheckState ==
  /\ state = "OPEN"
  /\ TransitionToHalfOpen
  /\ UNCHANGED <<redis, level, window, running>>

\* resetCircuitBreaker, in any state.
ResetCircuitBreaker ==
  /\ Administrators
  /\ TransitionToClosed
  /\ UNCHANGED <<redis, level, window, running>>

\* Mutant of NewLevel: a level is never left for a better one.
NewLevelNeverBetter ==
  IF level = "FULL" \/ ~ redis \/ errorRate > 30 THEN "FULL" ELSE level

\* Nobody ever reports an average response time.
NewLevel ==
  IF ~ redis \/ errorRate > 30 THEN "FULL"
  ELSE IF errorRate > 10 THEN "PARTIAL" ELSE "NORMAL"

\* The monitor's timer.
UpdateDegradationLevel ==
  /\ level' = NewLevel
  /\ UNCHANGED <<redis, errorRate, state, window, halfOpenRequests, running, probes>>

SetDegradationLevel(l) ==
  /\ Administrators
  /\ level' = l
  /\ UNCHANGED <<redis, errorRate, state, window, halfOpenRequests, running, probes>>

\* The client does not reconnect (reconnectStrategy is false).
RedisLost ==
  /\ redis
  /\ redis' = FALSE
  /\ UNCHANGED <<level, errorRate, state, window, halfOpenRequests, running, probes>>

\* The server dies and is started again; nothing of this is kept.
Restart ==
  /\ redis' \in BOOLEAN
  /\ level' = "NORMAL" /\ errorRate' = 0
  /\ BreakerBecomes("CLOSED", 0)
  /\ window' = NoResults
  /\ running' = {}

-----------------------------------------------------------------------------
Next ==
  \/ \E c \in Calls : Protect(c)
  \/ \E c \in Calls, success, slow \in BOOLEAN : Finish(c, success, slow)
  \/ CheckState \/ UpdateDegradationLevel
  \/ ResetCircuitBreaker \/ \E l \in Level : SetDegradationLevel(l)
  \/ RedisLost \/ Restart

Spec == Init /\ [][Next]_vars

\* The two timers go off again and again, and the order handler comes to its
\* end (RequestsEnd of Booking).
Fairness ==
  /\ WF_vars(CheckState) /\ WF_vars(UpdateDegradationLevel)
  /\ \A c \in Calls : WF_vars(\E success, slow \in BOOLEAN : Finish(c, success, slow))

FairSpec == Spec /\ Fairness

\* And customers keep asking for orders, of which again and again one succeeds.
BusySpec ==
  /\ FairSpec
  /\ SF_vars(\E c \in Calls : Protect(c))
  /\ SF_vars(\E c \in Calls, slow \in BOOLEAN : Finish(c, TRUE, slow))

-----------------------------------------------------------------------------
TypeOK ==
  /\ redis \in BOOLEAN
  /\ level \in Level
  /\ errorRate \in {0, 50}
  /\ state \in {"CLOSED", "OPEN", "HALF_OPEN"}
  /\ window \in Window
  /\ halfOpenRequests \in 0..MaxProbes
  /\ running \subseteq Calls
  /\ probes \subseteq Calls

\* A half-open breaker that has counted n probes has exactly these n requests
\* in progress, however late requests of earlier periods end: when no further
\* probe is let through, one is still there to decide.
ProbesInFlight ==
  state = "HALF_OPEN" =>
    probes \subseteq running /\ Cardinality(probes) = halfOpenRequests

\* A breaker that has used up its probes does not stay half-open.
ProbesDecide ==
  state = "HALF_OPEN" /\ halfOpenRequests = MaxProbes ~> state # "HALF_OPEN"

\* With Redis there and no breaker opened, orders are accepted again, whatever
\* level was set, even one that has no strategy.
OrdersReopen == redis /\ errorRate = 0 ~> Accepting \/ ~ redis \/ errorRate > 0

\* A breaker that opens while Redis is there recovers by its probes.
OpenRecovers == state = "OPEN" /\ redis ~> state = "CLOSED" \/ ~ redis
=============================================================================
