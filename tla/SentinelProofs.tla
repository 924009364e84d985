--------------------------- MODULE SentinelProofs ---------------------------
(***************************************************************************)
(* Theorems about Sentinel for any number of requests in progress, probes  *)
(* and results, any thresholds and any use of the administrators.          *)
(***************************************************************************)
EXTENDS Sentinel, FiniteSetTheorems, TLAPS

\* Counting one more result leaves a window of results.
LEMMA RecordedTyped ==
  ASSUME NEW success \in BOOLEAN, NEW slow \in BOOLEAN
  PROVE  Recorded(success, slow) \subseteq Window
<1> SUFFICES ASSUME NEW r \in Recorded(success, slow) PROVE r \in Window
  OBVIOUS
<1>1. PICK w \in Window :
        /\ w.total < MaxWindow
        /\ r = [total  |-> w.total + 1,
                errors |-> w.errors + IF success THEN 0 ELSE 1,
                slow   |-> w.slow + IF slow THEN 1 ELSE 0]
  BY DEF Recorded
<1>2. w.total \in 0..MaxWindow /\ w.errors \in 0..MaxWindow /\ w.slow \in 0..MaxWindow
      /\ w.errors <= w.total /\ w.slow <= w.total
  BY DEF Window
<1>3. QED
  BY <1>1, <1>2, SentinelAssumption DEF Window, SentinelAssumption

\* What a transition of the breaker has to respect: its types, and its probes
\* being those it has counted and among the requests in progress.
BreakerTyped ==
  /\ state \in {"CLOSED", "OPEN", "HALF_OPEN"}
  /\ halfOpenRequests \in 0..MaxProbes
  /\ errorRate \in {0, 50}
  /\ probes \subseteq Calls

\* The end of a request keeps that; it leaves the breaker half-open never.
LEMMA JudgeKeeps ==
  ASSUME TypeOK, NEW success \in BOOLEAN, Judge(success)
  PROVE  BreakerTyped' /\ state' # "HALF_OPEN"
<1>1. 0 \in 0..MaxProbes
  BY SentinelAssumption DEF SentinelAssumption
<1>2. QED
  BY <1>1 DEF Judge, TransitionToOpen, TransitionToClosed, BreakerBecomes, BreakerStays,
              TypeOK, BreakerTyped

LEMMA TypeNext == TypeOK /\ [Next]_vars => TypeOK'
<1> SUFFICES ASSUME TypeOK, [Next]_vars PROVE TypeOK'
  OBVIOUS
<1> USE SentinelAssumption DEF SentinelAssumption
<1>1. ASSUME NEW c \in Calls, Protect(c) PROVE TypeOK'
  BY <1>1 DEF Protect, ProbeAllowed, levelVars, TypeOK
<1>2. ASSUME NEW c \in Calls, NEW success \in BOOLEAN, NEW slow \in BOOLEAN,
             Finish(c, success, slow)
      PROVE  TypeOK'
  <2>1. window' \in Window
    BY <1>2, RecordedTyped DEF Finish
  <2>2. BreakerTyped'
    BY <1>2, JudgeKeeps DEF Finish
  <2>3. redis' \in BOOLEAN /\ level' \in Level /\ running' \subseteq Calls
    BY <1>2 DEF Finish, TypeOK
  <2>4. QED  BY <2>1, <2>2, <2>3 DEF BreakerTyped, TypeOK
<1>3. CASE CheckState \/ ResetCircuitBreaker
  BY <1>3 DEF CheckState, ResetCircuitBreaker, TransitionToHalfOpen, TransitionToClosed,
              BreakerBecomes, TypeOK
<1>4. CASE UpdateDegradationLevel \/ RedisLost
  <2>1. NewLevel \in Level
    BY DEF NewLevel, Level
  <2>2. CASE UpdateDegradationLevel
    BY <2>1, <2>2 DEF UpdateDegradationLevel, TypeOK
  <2>3. CASE RedisLost
    <3>1. redis' \in BOOLEAN
      BY <2>3 DEF RedisLost
    <3>2. QED
      BY <2>3, <3>1 DEF RedisLost, TypeOK
  <2>4. QED  BY <1>4, <2>2, <2>3
<1>5. ASSUME NEW l \in Level, SetDegradationLevel(l) PROVE TypeOK'
  BY <1>5 DEF SetDegradationLevel, TypeOK
<1>6. CASE Restart
  BY <1>6 DEF Restart, BreakerBecomes, NoResults, Window, Level, TypeOK
<1>7. CASE UNCHANGED vars
  BY <1>7 DEF vars, TypeOK
<1>8. QED
  BY <1>1, <1>2, <1>3, <1>4, <1>5, <1>6, <1>7 DEF Next

\* Sentinel keeps its types.
THEOREM TypeCorrect == Spec => []TypeOK
<1>1. Init => TypeOK
  BY SentinelAssumption DEF Init, TypeOK, Level, Window, NoResults, SentinelAssumption
<1>2. QED
  BY <1>1, TypeNext, PTL DEF Spec

-----------------------------------------------------------------------------
LEMMA ProbesNext == TypeOK /\ ProbesInFlight /\ [Next]_vars => ProbesInFlight'
<1> SUFFICES ASSUME TypeOK, ProbesInFlight, [Next]_vars PROVE ProbesInFlight'
  OBVIOUS
<1>1. ASSUME NEW c \in Calls, Protect(c) PROVE ProbesInFlight'
  <2>1. CASE state = "CLOSED"
    BY <1>1, <2>1 DEF Protect, ProbesInFlight
  <2>2. CASE state = "HALF_OPEN"
    <3>1. /\ c \notin running /\ running' = running \cup {c}
          /\ probes' = probes \cup {c} /\ halfOpenRequests' = halfOpenRequests + 1
      BY <1>1, <2>2 DEF Protect
    <3>2. IsFiniteSet(probes)
      BY FS_Subset, SentinelAssumption DEF SentinelAssumption, TypeOK
    <3>3. c \notin probes /\ Cardinality(probes) = halfOpenRequests
      BY <2>2, <3>1 DEF ProbesInFlight
    <3>4. Cardinality(probes') = Cardinality(probes) + 1
      BY <3>1, <3>2, <3>3, FS_AddElement
    <3>5. QED
      BY <2>2, <3>1, <3>3, <3>4 DEF ProbesInFlight
  <2>3. QED  BY <1>1, <2>1, <2>2 DEF Protect
<1>2. ASSUME NEW c \in Calls, NEW success \in BOOLEAN, NEW slow \in BOOLEAN,
             Finish(c, success, slow)
      PROVE  ProbesInFlight'
  BY <1>2, JudgeKeeps DEF Finish, ProbesInFlight
<1>3. CASE CheckState
  BY <1>3, FS_EmptySet DEF CheckState, TransitionToHalfOpen, BreakerBecomes, ProbesInFlight
<1>4. CASE ResetCircuitBreaker \/ Restart
  BY <1>4 DEF ResetCircuitBreaker, TransitionToClosed, Restart, BreakerBecomes, ProbesInFlight
<1>5. CASE UpdateDegradationLevel \/ RedisLost
  BY <1>5 DEF UpdateDegradationLevel, RedisLost, ProbesInFlight
<1>6. ASSUME NEW l \in Level, SetDegradationLevel(l) PROVE ProbesInFlight'
  BY <1>6 DEF SetDegradationLevel, ProbesInFlight
<1>7. CASE UNCHANGED vars
  BY <1>7 DEF vars, ProbesInFlight
<1>8. QED
  BY <1>1, <1>2, <1>3, <1>4, <1>5, <1>6, <1>7 DEF Next

\* The probes a half-open breaker has counted are all still in progress, so it
\* never refuses everybody while nobody is left to decide.
THEOREM CountedProbesInFlight == Spec => []ProbesInFlight
<1>1. Init => ProbesInFlight
  BY DEF Init, ProbesInFlight
<1>2. QED
  BY <1>1, TypeCorrect, ProbesNext, PTL DEF Spec
=============================================================================
