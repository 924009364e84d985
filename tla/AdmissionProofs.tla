-------------------------- MODULE AdmissionProofs ---------------------------
(***************************************************************************)
(* Theorems about Admission for any users, ids, limits, rates and windows, *)
(* and without a bound on the time.                                        *)
(***************************************************************************)
EXTENDS Admission, TLAPS

\* What comes back in a while is a natural number, and adds up over two whiles.
LEMMA Back ==
  ASSUME NEW d \in Nat
  PROVE  Rate * d \in Nat
BY AdmissionAssumption DEF AdmissionAssumption

LEMMA BackAdds ==
  ASSUME NEW d \in Nat, NEW e \in Nat
  PROVE  Rate * (d + e) = Rate * d + Rate * e
BY AdmissionAssumption DEF AdmissionAssumption

\* The permits that are free, in a bucket of either kind.
Free(l) == IF algorithm = "token_bucket" THEN l ELSE Capacity - l

\* Bringing a bucket up to date keeps it within its capacity, and frees no more
\* than came back since it was touched.
LEMMA SettledBounded ==
  ASSUME TypeOK
  PROVE  /\ Settled \in 0..Capacity
         /\ Free(Settled) <= Free(level) + Rate * (now - last)
<1>1. now - last \in Nat
  BY DEF TypeOK
<1> DEFINE b == Rate * (now - last)
<1>2. b \in Nat
  BY <1>1, Back
<1> HIDE DEF b
<1>3. ASSUME algorithm = "token_bucket"
      PROVE  Settled \in 0..Capacity /\ Free(Settled) <= Free(level) + b
  <2>1. Settled = Least(Capacity, level + b) /\ Free(Settled) = Settled /\ Free(level) = level
    BY <1>3 DEF Settled, Free, b
  <2>2. QED
    BY <1>2, <2>1, AdmissionAssumption DEF AdmissionAssumption, Least, TypeOK
<1>4. ASSUME algorithm # "token_bucket"
      PROVE  Settled \in 0..Capacity /\ Free(Settled) <= Free(level) + b
  <2>1. /\ Settled = Most(0, level - b)
        /\ Free(Settled) = Capacity - Settled /\ Free(level) = Capacity - level
    BY <1>4 DEF Settled, Free, b
  <2>2. QED
    BY <1>2, <2>1, AdmissionAssumption DEF AdmissionAssumption, Most, TypeOK
<1>5. QED
  BY <1>3, <1>4 DEF b

\* Taking a permit takes its cost off what is free.
LEMMA TakeBounded ==
  ASSUME TypeOK, NEW l \in 0..Capacity, Enough(l)
  PROVE  Take(l) \in 0..Capacity /\ Free(Take(l)) = Free(l) - Cost
BY AdmissionAssumption DEF AdmissionAssumption, Enough, Take, Free, TypeOK

\* A record is none or counts at least one request.
RecordOK == \A u \in Users : record[u] = NoRecord \/ (record[u].timestamp >= 0 /\ record[u].count >= 1)

\* What counting a request of an allowed user makes of its record.
LEMMA CountedTyped ==
  ASSUME TypeOK, RecordOK, NEW u \in Users, UserAllowed(u)
  PROVE  /\ Counted(u) \in [count : 1..UserLimit, timestamp : 0..now]
         /\ InWindow(u) => /\ Counted(u).count = record[u].count + 1
                           /\ Counted(u).timestamp = record[u].timestamp
         /\ ~ InWindow(u) => Counted(u).count = 1 /\ Counted(u).timestamp = now
<1>1. record[u] \in [count : 0..UserLimit, timestamp : -1..now]
  BY DEF TypeOK
<1>2. CASE InWindow(u)
  <2>1. record[u].count < UserLimit /\ record[u].timestamp >= 0
    BY <1>2 DEF UserAllowed, InWindow, RecordOK
  <2>2. Counted(u) = [record[u] EXCEPT !.count = @ + 1]
    BY <1>2 DEF Counted
  <2>3. QED
    BY <1>1, <1>2, <2>1, <2>2, AdmissionAssumption DEF AdmissionAssumption, TypeOK
<1>3. CASE ~ InWindow(u)
  BY <1>3, AdmissionAssumption DEF AdmissionAssumption, Counted, TypeOK
<1>4. QED
  BY <1>2, <1>3

-----------------------------------------------------------------------------
(* Types.                                                                  *)

LEMMA TypeInit == Init => TypeOK /\ RecordOK
BY AdmissionAssumption DEF AdmissionAssumption, Init, Full, NoRecord, NoSession, TypeOK, RecordOK

LEMMA TypeNext == TypeOK /\ RecordOK /\ [Next]_vars => (TypeOK /\ RecordOK)'
<1> SUFFICES ASSUME TypeOK, RecordOK, [Next]_vars PROVE (TypeOK /\ RecordOK)'
  OBVIOUS
<1>1. ASSUME NEW u \in Users, NEW k \in Tokens, Login(u, k)
      PROVE  (TypeOK /\ RecordOK)'
  BY <1>1, AdmissionAssumption
     DEF AdmissionAssumption, Login, bucketVars, watchVars, TypeOK, RecordOK
<1>2. ASSUME NEW k \in Tokens, Logout(k) PROVE (TypeOK /\ RecordOK)'
  BY <1>2 DEF Logout, Purged, bucketVars, watchVars, TypeOK, RecordOK
<1>3. ASSUME NEW u \in Users, NEW k \in Tokens, Order(u, k)
      PROVE  (TypeOK /\ RecordOK)'
  <2>1. level' \in 0..Capacity /\ last' = now
    BY <1>3, SettledBounded, TakeBounded DEF Order, Acquire
  <2>2. taken' \in Nat /\ admitted' \in [Users -> Nat]
    BY <1>3, AdmissionAssumption DEF AdmissionAssumption, Order, Acquire, TypeOK
  <2>3. /\ record' \in [Users -> [count : 0..UserLimit, timestamp : -1..now]]
        /\ \A v \in Users : record'[v] = NoRecord \/ (record'[v].timestamp >= 0 /\ record'[v].count >= 1)
    <3>1. CASE record' = record
      BY <3>1 DEF TypeOK, RecordOK
    <3>2. CASE record' # record
      <4>1. UserAllowed(u)
        BY <1>3, <3>2 DEF Order, Acquire
      <4>2. PICK age \in Ages : record' = Cleaned([record EXCEPT ![u] = Counted(u)], age)
        BY <1>3, <3>2 DEF Order, Acquire
      <4> DEFINE rs == [record EXCEPT ![u] = Counted(u)]
      <4>3. /\ rs \in [Users -> [count : 0..UserLimit, timestamp : -1..now]]
            /\ \A v \in Users : rs[v] = NoRecord \/ (rs[v].timestamp >= 0 /\ rs[v].count >= 1)
        <5>1. Counted(u) \in [count : 1..UserLimit, timestamp : 0..now]
          BY <4>1, CountedTyped
        <5>2. QED
          BY <5>1, AdmissionAssumption DEF AdmissionAssumption, TypeOK, RecordOK
      <4>4. NoRecord \in [count : 0..UserLimit, timestamp : -1..now]
        BY AdmissionAssumption DEF AdmissionAssumption, NoRecord, TypeOK
      <4> HIDE DEF rs
      <4>5. record' = Cleaned(rs, age)
        BY <4>2 DEF rs
      <4>6. QED
        BY <4>3, <4>4, <4>5 DEF Cleaned
    <3>3. QED
      BY <3>1, <3>2
  <2>4. QED
    BY <1>3, <2>1, <2>2, <2>3 DEF Order, sessionVars, TypeOK, RecordOK
<1>4. CASE Stats
  BY <1>4, SettledBounded DEF Stats, sessionVars, watchVars, TypeOK, RecordOK
<1>5. CASE Tick
  <2>1. 0..now \subseteq 0..(now + 1) /\ -1..now \subseteq -1..(now + 1)
    BY DEF TypeOK
  <2>2. record \in [Users -> [count : 0..UserLimit, timestamp : -1..(now + 1)]]
    BY <2>1 DEF TypeOK
  <2>3. QED
    BY <1>5, <2>1, <2>2 DEF Tick, bucketVars, sessionVars, watchVars, TypeOK, RecordOK
<1>6. CASE Restart
  BY <1>6, AdmissionAssumption DEF AdmissionAssumption, Restart, Full, NoRecord, TypeOK, RecordOK
<1>7. CASE Watch
  BY <1>7 DEF Watch, bucketVars, sessionVars, TypeOK, RecordOK
<1>8. CASE UNCHANGED vars
  BY <1>8 DEF vars, bucketVars, sessionVars, watchVars, TypeOK, RecordOK
<1>9. QED
  BY <1>1, <1>2, <1>3, <1>4, <1>5, <1>6, <1>7, <1>8 DEF Next

\* Every variable keeps its type: no bucket is ever overfull or in debt, no window
\* counts more than the limit.
THEOREM TypeCorrect == Spec => []TypeOK
<1>1. Init => TypeOK /\ RecordOK
  BY TypeInit
<1>2. TypeOK /\ RecordOK /\ [Next]_vars => (TypeOK /\ RecordOK)'
  BY TypeNext
<1>3. QED
  BY <1>1, <1>2, PTL DEF Spec

-----------------------------------------------------------------------------
(* The bucket.                                                             *)

\* What was taken and what is free together are at most the capacity and what
\* came back until the bucket was last touched.
BucketOK ==
  /\ since <= last => taken + Free(level) <= Capacity + Rate * (last - since)
  /\ since > last => taken = 0

\* Bringing the bucket up to date keeps that.
LEMMA SettledCounts ==
  ASSUME TypeOK, BucketOK
  PROVE  taken + Free(Settled) <= Capacity + Rate * (now - since)
<1> DEFINE b == Rate * (now - last)
           c == Rate * (last - since)
           d == Rate * (now - since)
<1>1. Settled \in 0..Capacity /\ Free(Settled) <= Free(level) + b
  BY SettledBounded
<1>2. Free(level) \in Int /\ Free(Settled) \in Int /\ Free(Settled) <= Capacity
  BY <1>1, AdmissionAssumption DEF AdmissionAssumption, Free, TypeOK
<1>3. now - last \in Nat /\ now - since \in Nat
  BY DEF TypeOK
<1>4. b \in Nat /\ d \in Nat
  BY <1>3, Back
<1>5. ASSUME since <= last PROVE taken + Free(Settled) <= Capacity + d
  <2>1. last - since \in Nat
    BY <1>5 DEF TypeOK
  <2>2. (now - last) + (last - since) = now - since
    BY DEF TypeOK
  <2>3. d = b + c /\ c \in Nat
    BY <1>3, <2>1, <2>2, Back, BackAdds
  <2>4. taken + Free(level) <= Capacity + c
    BY <1>5 DEF BucketOK
  <2> HIDE DEF b, c, d
  <2>5. QED
    BY <1>1, <1>2, <1>4, <2>3, <2>4, AdmissionAssumption DEF AdmissionAssumption, TypeOK
<1>6. ASSUME since > last PROVE taken + Free(Settled) <= Capacity + d
  <2>1. taken = 0
    BY <1>6 DEF BucketOK
  <2> HIDE DEF b, c, d
  <2>2. QED
    BY <1>2, <1>4, <2>1, AdmissionAssumption DEF AdmissionAssumption
<1>7. QED
  BY <1>5, <1>6 DEF TypeOK

LEMMA BucketInit == Init => BucketOK
<1> SUFFICES ASSUME Init PROVE BucketOK
  OBVIOUS
<1>1. Rate * (last - since) = 0
  BY AdmissionAssumption DEF AdmissionAssumption, Init
<1>2. QED
  BY <1>1, AdmissionAssumption DEF AdmissionAssumption, Init, Full, Free, BucketOK

LEMMA BucketNext == TypeOK /\ BucketOK /\ [Next]_vars => BucketOK'
<1> SUFFICES ASSUME TypeOK, BucketOK, [Next]_vars PROVE BucketOK'
  OBVIOUS
<1> DEFINE d == Rate * (now - since)
<1>1. d \in Nat /\ taken + Free(Settled) <= Capacity + d /\ Settled \in 0..Capacity
  BY SettledCounts, SettledBounded, Back DEF TypeOK
<1>2. ASSUME algorithm' = algorithm, UNCHANGED <<level, last, since, taken>>
      PROVE  BucketOK'
  BY <1>2 DEF BucketOK, Free
<1>3. ASSUME algorithm' = algorithm, last' = now, since' = since,
             level' \in Int, taken' + Free(level)' <= Capacity + d
      PROVE  BucketOK'
  BY <1>3 DEF BucketOK, TypeOK
<1>4. ASSUME NEW u \in Users, NEW k \in Tokens, Order(u, k)
      PROVE  BucketOK'
  <2>1. algorithm' = algorithm /\ since' = since /\ last' = now
    BY <1>4 DEF Order, Acquire
  <2>2. Free(level)' = Free(level')
    BY <2>1 DEF Free
  <2>3. ASSUME Enough(Settled) PROVE level' \in Int /\ taken' + Free(level') <= Capacity + d
    <3>1. level' = Take(Settled) /\ taken' = taken + Cost
      BY <1>4, <2>3 DEF Order, Acquire
    <3>2. level' \in 0..Capacity /\ Free(level') = Free(Settled) - Cost
      BY <1>1, <2>3, <3>1, TakeBounded
    <3>3. Free(Settled) \in Int
      BY <1>1, AdmissionAssumption DEF AdmissionAssumption, Free
    <3> HIDE DEF d
    <3>4. QED
      BY <1>1, <3>1, <3>2, <3>3, AdmissionAssumption DEF AdmissionAssumption, TypeOK
  <2>4. ASSUME ~ Enough(Settled) PROVE level' \in Int /\ taken' + Free(level') <= Capacity + d
    <3>1. level' = Settled /\ taken' = taken
      BY <1>4, <2>4 DEF Order, Acquire
    <3>2. QED
      BY <1>1, <3>1
  <2> HIDE DEF d
  <2>5. QED
    BY <1>3, <2>1, <2>2, <2>3, <2>4
<1>5. CASE Stats
  <2>1. /\ algorithm' = algorithm /\ since' = since /\ last' = now
        /\ level' = Settled /\ taken' = taken
    BY <1>5 DEF Stats, watchVars
  <2>2. Free(level)' = Free(Settled)
    BY <2>1 DEF Free
  <2>3. QED
    BY <1>1, <1>3, <2>1, <2>2
<1>6. CASE Restart
  <2>1. Rate * (last' - since') = 0
    BY <1>6, AdmissionAssumption DEF AdmissionAssumption, Restart, TypeOK
  <2>2. Free(level)' = Capacity
    BY <1>6, AdmissionAssumption DEF AdmissionAssumption, Restart, Full, Free
  <2>3. QED
    BY <1>6, <2>1, <2>2, AdmissionAssumption DEF AdmissionAssumption, Restart, BucketOK, TypeOK
<1>7. CASE Watch
  <2>1. algorithm' = algorithm /\ level' = level /\ last' = last /\ since' = now /\ taken' = 0
    BY <1>7 DEF Watch, bucketVars
  <2>2. Free(level)' = Free(level) /\ Free(level) \in Int /\ Free(level) <= Capacity
    BY <2>1, AdmissionAssumption DEF AdmissionAssumption, Free, TypeOK
  <2>3. last <= now /\ (since' <= last' => last' - since' = 0)
    BY <2>1 DEF TypeOK
  <2>4. Rate * 0 = 0
    BY AdmissionAssumption DEF AdmissionAssumption
  <2>5. since' <= last' => Rate * (last' - since') = 0
    BY <2>3, <2>4
  <2>6. QED
    BY <2>1, <2>2, <2>5, AdmissionAssumption DEF AdmissionAssumption, BucketOK
<1>8. ASSUME NEW u \in Users, NEW k \in Tokens, Login(u, k) PROVE BucketOK'
  BY <1>2, <1>8 DEF Login, bucketVars, watchVars
<1>9. ASSUME NEW k \in Tokens, Logout(k) PROVE BucketOK'
  BY <1>2, <1>9 DEF Logout, bucketVars, watchVars
<1>10. CASE Tick
  BY <1>2, <1>10 DEF Tick, bucketVars, watchVars
<1>11. CASE UNCHANGED vars
  BY <1>2, <1>11 DEF vars, bucketVars, watchVars
<1>12. QED
  BY <1>4, <1>5, <1>6, <1>7, <1>8, <1>9, <1>10, <1>11 DEF Next

\* From whatever instant one counts, a bucket gives no more than its capacity and
\* what came back since.
THEOREM TakenIsBounded == Spec => []TakenBounded
<1>1. Init => TypeOK /\ RecordOK /\ BucketOK
  BY TypeInit, BucketInit
<1>2. TypeOK /\ RecordOK /\ BucketOK /\ [Next]_vars => (TypeOK /\ RecordOK /\ BucketOK)'
  BY TypeNext, BucketNext
<1>3. TypeOK /\ RecordOK /\ BucketOK => TakenBounded
  <2> SUFFICES ASSUME TypeOK, BucketOK PROVE TakenBounded
    OBVIOUS
  <2> DEFINE d == Rate * (now - since)
  <2>1. Settled \in 0..Capacity /\ taken + Free(Settled) <= Capacity + d /\ d \in Nat
    BY SettledBounded, SettledCounts, Back DEF TypeOK
  <2>2. Free(Settled) \in Nat
    BY <2>1, AdmissionAssumption DEF AdmissionAssumption, Free
  <2>3. taken <= Capacity + d
    <3> HIDE DEF d
    <3>1. QED
      BY <2>1, <2>2, AdmissionAssumption DEF AdmissionAssumption, TypeOK
  <2>4. QED
    BY <2>3 DEF TakenBounded
<1>4. QED
  BY <1>1, <1>2, <1>3, PTL DEF Spec

-----------------------------------------------------------------------------
(* The limit of a user.                                                    *)

\* How many requests of a user were allowed since the instant, while that is less
\* than a window ago: the record counts those of its window, of which the first
\* came before the instant, or else the windows before gave less than a limit.
AdmittedMost(u) ==
  IF record[u] = NoRecord THEN UserLimit - 1
  ELSE IF record[u].timestamp < since THEN record[u].count - 1
  ELSE UserLimit - 1 + record[u].count

UserOK == now - since < Window => \A u \in Users : admitted[u] <= AdmittedMost(u)

\* A record that is dropped is older than the instant.
LEMMA CleanedKeeps ==
  ASSUME TypeOK, NEW rs \in [Users -> [count : 0..UserLimit, timestamp : -1..now]],
         NEW age \in Ages, NEW u \in Users, now - since < Window
  PROVE  Cleaned(rs, age)[u] = rs[u]
           \/ (Cleaned(rs, age)[u] = NoRecord /\ rs[u].timestamp < since)
<1>1. age \in Nat /\ age >= Window /\ Window \in Nat
  BY AdmissionAssumption DEF AdmissionAssumption
<1>2. rs[u].timestamp \in -1..now
  OBVIOUS
<1>3. CASE now - rs[u].timestamp > age
  <2>1. Cleaned(rs, age)[u] = NoRecord
    BY <1>3 DEF Cleaned
  <2>2. rs[u].timestamp < since
    BY <1>1, <1>2, <1>3 DEF TypeOK
  <2>3. QED
    BY <2>1, <2>2
<1>4. CASE ~ (now - rs[u].timestamp > age)
  BY <1>4 DEF Cleaned
<1>5. QED
  BY <1>3, <1>4

LEMMA UserInit == Init => UserOK
<1> SUFFICES ASSUME Init, NEW u \in Users PROVE admitted[u] <= AdmittedMost(u)
  BY DEF UserOK
<1>1. admitted[u] = 0 /\ record[u] = NoRecord
  BY DEF Init
<1>2. QED
  BY <1>1, AdmissionAssumption DEF AdmissionAssumption, AdmittedMost

LEMMA UserNext == TypeOK /\ RecordOK /\ UserOK /\ [Next]_vars => UserOK'
<1> SUFFICES ASSUME TypeOK, RecordOK, UserOK, [Next]_vars, (now - since < Window)',
                    NEW v \in Users
             PROVE  admitted'[v] <= AdmittedMost(v)'
  BY DEF UserOK
<1>1. UserLimit \in Nat \ {0} /\ Window \in Nat \ {0}
  BY AdmissionAssumption DEF AdmissionAssumption
<1>2. /\ record[v] \in [count : 0..UserLimit, timestamp : -1..now]
      /\ admitted[v] \in Nat /\ now \in Nat /\ since \in 0..now
  BY DEF TypeOK
<1>3. ASSUME now - since < Window, UNCHANGED <<record, since, admitted>>
      PROVE  admitted'[v] <= AdmittedMost(v)'
  BY <1>3 DEF UserOK, AdmittedMost
<1>4. ASSUME admitted'[v] = 0, record'[v] = NoRecord \/ (record'[v] = record[v] /\ since' = now)
      PROVE  admitted'[v] <= AdmittedMost(v)'
  <2>1. CASE record'[v] = NoRecord
    BY <1>1, <1>4, <2>1 DEF AdmittedMost
  <2>2. CASE record'[v] # NoRecord
    <3>1. record'[v] = record[v] /\ since' = now /\ record[v].count >= 1
      BY <1>4, <2>2 DEF RecordOK
    <3>2. QED
      BY <1>1, <1>2, <1>4, <2>2, <3>1 DEF AdmittedMost
  <2>3. QED
    BY <2>1, <2>2
<1>5. ASSUME NEW u \in Users, NEW k \in Tokens, Order(u, k)
      PROVE  admitted'[v] <= AdmittedMost(v)'
  <2>1. now' = now /\ since' = since /\ now - since < Window
    BY <1>5 DEF Order
  <2>2. admitted[v] <= AdmittedMost(v)
    BY <2>1 DEF UserOK
  <2>3. CASE UNCHANGED <<record, admitted>>
    BY <1>3, <2>1, <2>3
  <2>4. CASE ~ UNCHANGED <<record, admitted>>
    <3> DEFINE rs == [record EXCEPT ![u] = Counted(u)]
    <3>1. UserAllowed(u) /\ admitted' = [admitted EXCEPT ![u] = @ + 1]
      BY <1>5, <2>4 DEF Order, Acquire
    <3>2. PICK age \in Ages : record' = Cleaned(rs, age)
      BY <1>5, <2>4 DEF Order, Acquire
    <3>3. Counted(u) \in [count : 1..UserLimit, timestamp : 0..now]
      BY <3>1, CountedTyped
    <3>4. rs \in [Users -> [count : 0..UserLimit, timestamp : -1..now]]
      BY <1>1, <1>2, <3>3 DEF TypeOK
    <3>5. \/ record'[v] = rs[v]
          \/ record'[v] = NoRecord /\ rs[v].timestamp < since
      BY <2>1, <3>2, <3>4, CleanedKeeps
    <3>6. CASE v = u
      <4>1. rs[v] = Counted(u) /\ admitted'[v] = admitted[u] + 1
        BY <3>1, <3>6 DEF TypeOK
      <4>2. rs[v] # NoRecord /\ rs[v].timestamp \in 0..now /\ rs[v].count \in 1..UserLimit
        BY <3>3, <4>1 DEF NoRecord
      <4>3. CASE InWindow(u)
        <5>1. /\ rs[v].count = record[u].count + 1 /\ rs[v].timestamp = record[u].timestamp
              /\ record[u] # NoRecord
          BY <3>1, <4>1, <4>3, CountedTyped DEF InWindow
        <5>2. CASE record'[v] = rs[v]
          BY <1>1, <1>2, <2>1, <2>2, <3>6, <4>1, <4>2, <5>1, <5>2 DEF AdmittedMost
        <5>3. CASE record'[v] = NoRecord /\ rs[v].timestamp < since
          BY <1>1, <1>2, <2>1, <2>2, <3>6, <4>1, <4>2, <5>1, <5>3 DEF AdmittedMost
        <5>4. QED
          BY <3>5, <5>2, <5>3
      <4>4. CASE ~ InWindow(u)
        <5>1. rs[v].count = 1 /\ rs[v].timestamp = now
          BY <3>1, <4>1, <4>4, CountedTyped
        <5>2. record'[v] = rs[v]
          BY <1>2, <3>5, <5>1
        <5>3. admitted[u] <= UserLimit - 1
          <6>1. CASE record[u] = NoRecord
            BY <2>2, <3>6, <6>1 DEF AdmittedMost
          <6>2. CASE record[u] # NoRecord
            <7>1. record[u].timestamp < since
              BY <1>1, <1>2, <2>1, <3>6, <4>4, <6>2 DEF InWindow
            <7>2. QED
              BY <1>1, <1>2, <2>2, <3>6, <6>2, <7>1 DEF AdmittedMost
          <6>3. QED
            BY <6>1, <6>2
        <5>4. AdmittedMost(v)' = UserLimit - 1 + 1
          BY <1>2, <2>1, <4>2, <5>1, <5>2 DEF AdmittedMost
        <5>5. QED
          BY <1>1, <1>2, <3>6, <4>1, <5>3, <5>4
      <4>5. QED
        BY <4>3, <4>4
    <3>7. CASE v # u
      <4>1. rs[v] = record[v] /\ admitted'[v] = admitted[v]
        BY <3>1, <3>7 DEF TypeOK
      <4>2. CASE record'[v] = record[v]
        BY <2>1, <2>2, <4>1, <4>2 DEF AdmittedMost
      <4>3. CASE record'[v] = NoRecord /\ record[v].timestamp < since
        BY <1>1, <1>2, <2>1, <2>2, <4>1, <4>3 DEF AdmittedMost
      <4>4. QED
        BY <3>5, <4>1, <4>2, <4>3
    <3>8. QED
      BY <3>6, <3>7
  <2>5. QED
    BY <2>3, <2>4
<1>6. CASE Stats
  BY <1>3, <1>6 DEF Stats, watchVars
<1>7. CASE Tick
  <2>1. now' = now + 1 /\ UNCHANGED <<record, since, admitted>>
    BY <1>7 DEF Tick, watchVars
  <2>2. QED
    BY <1>1, <1>2, <1>3, <2>1
<1>8. CASE Restart
  BY <1>4, <1>8 DEF Restart
<1>9. CASE Watch
  BY <1>4, <1>9 DEF Watch
<1>10. ASSUME NEW u \in Users, NEW k \in Tokens, Login(u, k)
       PROVE  admitted'[v] <= AdmittedMost(v)'
  BY <1>3, <1>10 DEF Login, watchVars
<1>11. ASSUME NEW k \in Tokens, Logout(k)
       PROVE  admitted'[v] <= AdmittedMost(v)'
  BY <1>3, <1>11 DEF Logout, watchVars
<1>12. CASE UNCHANGED vars
  BY <1>3, <1>12 DEF vars, watchVars
<1>13. QED
  BY <1>5, <1>6, <1>7, <1>8, <1>9, <1>10, <1>11, <1>12 DEF Next

\* In no interval shorter than a window is a user allowed twice the limit, wherever
\* windows begin and whenever records are dropped.
THEOREM UsersAreBounded == Spec => []UserBounded
<1>1. Init => TypeOK /\ RecordOK /\ UserOK
  BY TypeInit, UserInit
<1>2. TypeOK /\ RecordOK /\ UserOK /\ [Next]_vars => (TypeOK /\ RecordOK /\ UserOK)'
  BY TypeNext, UserNext
<1>3. TypeOK /\ RecordOK /\ UserOK => UserBounded
  <2> SUFFICES ASSUME TypeOK, UserOK, now - since < Window, NEW u \in Users
               PROVE  admitted[u] < 2 * UserLimit
    BY DEF UserBounded
  <2>1. admitted[u] <= AdmittedMost(u) /\ admitted[u] \in Nat
    BY DEF UserOK, TypeOK
  <2>2. record[u].count \in 0..UserLimit /\ UserLimit \in Nat \ {0}
    BY AdmissionAssumption DEF AdmissionAssumption, TypeOK
  <2>3. QED
    BY <2>1, <2>2 DEF AdmittedMost
<1>4. QED
  BY <1>1, <1>2, <1>3, PTL DEF Spec

-----------------------------------------------------------------------------
(* Sessions.                                                               *)

\* An id that was logged out had a session, and is either still known as revoked
\* or its session is over.
SessionOK ==
  \A k \in loggedOut : session[k] # NoSession /\ (k \in revoked \/ session[k].exp <= now)

LEMMA SessionNext == TypeOK /\ SessionOK /\ [Next]_vars => SessionOK'
<1> SUFFICES ASSUME TypeOK, SessionOK, [Next]_vars PROVE SessionOK'
  OBVIOUS
<1>1. ASSUME NEW k \in Tokens, Logout(k) PROVE SessionOK'
  <2>1. session[k] # NoSession
    BY <1>1 DEF Logout, Accepted, NoSession
  <2>2. \A j \in Tokens : session[j].exp \in Nat
    BY DEF TypeOK
  <2>3. QED
    BY <1>1, <2>1, <2>2 DEF Logout, Purged, SessionOK, TypeOK
<1>2. ASSUME NEW u \in Users, NEW k \in Tokens, Login(u, k) PROVE SessionOK'
  <2>1. k \notin loggedOut
    BY <1>2 DEF Login, SessionOK
  <2>2. QED
    BY <1>2, <2>1 DEF Login, SessionOK, TypeOK
<1>3. CASE Tick
  <2>1. now' = now + 1 /\ now \in Nat /\ UNCHANGED sessionVars
    BY <1>3 DEF Tick, TypeOK
  <2>2. \A j \in Tokens : session[j].exp \in Nat
    BY DEF TypeOK
  <2>3. QED
    BY <2>1, <2>2 DEF sessionVars, SessionOK, TypeOK
<1>4. CASE Restart
  BY <1>4 DEF Restart, SessionOK
<1>5. ASSUME now' = now, UNCHANGED sessionVars PROVE SessionOK'
  BY <1>5 DEF sessionVars, SessionOK
<1>6. ASSUME NEW u \in Users, NEW k \in Tokens, Order(u, k) PROVE SessionOK'
  BY <1>5, <1>6 DEF Order
<1>7. CASE Stats
  BY <1>5, <1>7 DEF Stats
<1>8. CASE Watch
  BY <1>5, <1>8 DEF Watch
<1>9. CASE UNCHANGED vars
  BY <1>5, <1>9 DEF vars
<1>10. QED
  BY <1>1, <1>2, <1>3, <1>4, <1>6, <1>7, <1>8, <1>9 DEF Next

\* An id that was logged out is not accepted again while the process lives.
THEOREM LoggedOutIsRefused == Spec => []LoggedOutStaysOut
<1>1. Init => TypeOK /\ RecordOK /\ SessionOK
  BY TypeInit DEF Init, SessionOK
<1>2. TypeOK /\ RecordOK /\ SessionOK /\ [Next]_vars => (TypeOK /\ RecordOK /\ SessionOK)'
  BY TypeNext, SessionNext
<1>3. TypeOK /\ RecordOK /\ SessionOK => LoggedOutStaysOut
  <2> SUFFICES ASSUME TypeOK, SessionOK, NEW k \in loggedOut PROVE ~ Accepted(k)
    BY DEF LoggedOutStaysOut
  <2>1. session[k].exp \in Nat /\ now \in Nat /\ (k \in revoked \/ session[k].exp <= now)
    BY DEF SessionOK, TypeOK
  <2>2. QED
    BY <2>1 DEF Accepted
<1>4. QED
  BY <1>1, <1>2, <1>3, PTL DEF Spec
=============================================================================
