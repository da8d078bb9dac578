-------------------------- MODULE RateLimitsProofs --------------------------
(***************************************************************************)
(* Proofs about RateLimits for any buckets, capacities, refill periods and *)
(* clock resolution.                                                       *)
(***************************************************************************)
EXTENDS RateLimits, TLAPS

-----------------------------------------------------------------------------
(* Arithmetic.                                                             *)

LEMMA Scaled ==
  ASSUME NEW c \in Nat \ {0}, NEW x \in Int, NEW y \in Int, x <= y
  PROVE  c * x <= c * y /\ c * x \in Int /\ c * y \in Int
  BY SMT

LEMMA ScaledStrictly ==
  ASSUME NEW c \in Nat \ {0}, NEW x \in Int, NEW y \in Int, x < y
  PROVE  c * x < c * y
  BY SMT

LEMMA Distributes ==
  ASSUME NEW c \in Int, NEW x \in Int
  PROVE  c * (x + 1) = c * x + c /\ c * 0 = 0 /\ 0 * c = 0
  BY SMT

LEMMA Rounding ==
  ASSUME NEW m \in Nat, NEW e \in Nat \ {0}
  PROVE  /\ m \div e \in Nat
         /\ e * (m \div e) <= m
         /\ m < e * (m \div e) + e
  BY SMT

-----------------------------------------------------------------------------
(* Levels.                                                                 *)

\* The facts about a bucket every proof below starts from.
LEMMA Shapes ==
  ASSUME TypeOK, NEW b \in Buckets
  PROVE  /\ Capacity[b] \in Nat \ {0} /\ Per \in Nat \ {0}
         /\ Full(b) \in Nat /\ Full(b) >= Per
         /\ credit[b] \in Nat /\ credit[b] <= Full(b)
         /\ now \in Nat /\ updated[b] \in Nat /\ updated[b] <= now
         /\ Capacity[b] * (now - updated[b]) \in Nat
<1>1. Capacity[b] \in Nat \ {0} /\ Per \in Nat \ {0}
  BY BucketsAssumption, TimeAssumption
<1>2. Full(b) \in Nat /\ Full(b) >= Per
  BY <1>1, SMT DEF Full
<1>3. credit[b] \in Nat /\ credit[b] <= Full(b) /\ now \in Nat /\ updated[b] \in Nat
      /\ updated[b] <= now
  BY DEF TypeOK
<1>4. Capacity[b] * (now - updated[b]) \in Nat
  <2>1. now - updated[b] \in Nat
    BY <1>3
  <2> QED
    BY <1>1, <2>1, SMT
<1> QED
  BY <1>1, <1>2, <1>3, <1>4

LEMMA LevelType ==
  ASSUME TypeOK, NEW b \in Buckets
  PROVE  Level(b) \in Nat /\ Level(b) <= Full(b)
  BY Shapes DEF Level, Refilled

\* A check leaves a paid bucket one token poorer and the others as they were.
LEMMA LevelAfterCheck ==
  ASSUME TypeOK, NEW paid \in SUBSET Buckets, NEW denied \in SUBSET Buckets,
         Check(paid, denied), NEW b \in Buckets
  PROVE  Level(b)' = IF b \in paid THEN Level(b) - Per ELSE Level(b)
<1> USE Shapes, LevelType
<1>1. now' = now
  BY DEF Check
<1>2. CASE b \in paid
  <2>1. b \in kept' /\ credit'[b] = Level(b) - Per /\ updated'[b] = now /\ Level(b) >= Per
    BY <1>2 DEF Check, Grants
  <2>2. Capacity[b] * (now' - updated'[b]) = 0
    BY <1>1, <2>1
  <2> QED
    BY <1>2, <2>1, <2>2 DEF Level, Refilled, Full
<1>3. CASE b \in denied \ paid
  <2>1. b \in kept' /\ credit'[b] = Level(b) /\ updated'[b] = now
    BY <1>3 DEF Check
  <2>2. Capacity[b] * (now' - updated'[b]) = 0
    BY <1>1, <2>1
  <2> QED
    BY <1>3, <2>1, <2>2 DEF Level, Refilled, Full
<1>4. CASE b \notin paid \cup denied
  BY <1>1, <1>4 DEF Check, Level, Refilled, Full
<1> QED
  BY <1>2, <1>3, <1>4

LEMMA LevelAfterTick ==
  ASSUME TypeOK, Tick, NEW b \in Buckets
  PROVE  Level(b)' = IF Level(b) + Capacity[b] > Full(b) THEN Full(b)
                     ELSE Level(b) + Capacity[b]
<1>1. UNCHANGED <<kept, credit, updated>> /\ now' = now + 1
  BY DEF Tick
<1>2. Capacity[b] * (now' - updated'[b]) = Capacity[b] * (now - updated[b]) + Capacity[b]
  <2>1. now' - updated'[b] = (now - updated[b]) + 1 /\ now - updated[b] \in Int
    BY <1>1, Shapes
  <2> QED
    BY <2>1, Shapes, Distributes
<1> QED
  BY <1>1, <1>2, Shapes DEF Level, Refilled, Full

\* A bucket idle for IdleFor >= Per is full, so forgetting it changes nothing.
LEMMA LevelAfterPrune ==
  ASSUME TypeOK, Prune, NEW b \in Buckets
  PROVE  Level(b)' = Level(b)
<1> DEFINE stale == {x \in kept : updated[x] < now - IdleFor}
<1>1. /\ now' = now /\ kept' = kept \ stale
      /\ b \notin stale => credit'[b] = credit[b] /\ updated'[b] = updated[b]
  BY DEF Prune
<1>2. CASE b \in stale
  <2>1. Per <= now - updated[b]
    BY <1>2, Shapes, TimeAssumption
  <2>2. Capacity[b] * Per <= Capacity[b] * (now - updated[b])
    BY <2>1, Shapes, Scaled
  <2> QED
    BY <1>1, <1>2, <2>2, Shapes DEF Level, Refilled, Full
<1>3. CASE b \notin stale
  BY <1>1, <1>3 DEF Level, Refilled, Full
<1> QED
  BY <1>2, <1>3

\* Every request is checks on some buckets.
LEMMA Requests ==
  ASSUME Next
  PROVE  \/ \E paid, denied \in SUBSET Buckets : Check(paid, denied)
         \/ Prune
         \/ Tick
<1>1. ASSUME NEW b \in Gates, Gate(b)
      PROVE  \E paid, denied \in SUBSET Buckets : Check(paid, denied)
  BY <1>1, BucketsAssumption DEF Gate
<1>2. ASSUME NEW c \in Chats, Chat(c[1], c[2])
      PROVE  \E paid, denied \in SUBSET Buckets : Check(paid, denied)
  <2>1. c[1] \in Buckets /\ c[2] \in Buckets
    BY BucketsAssumption
  <2> QED
    BY <1>2, <2>1 DEF Chat
<1> QED
  BY <1>1, <1>2 DEF Next

-----------------------------------------------------------------------------
(* Type correctness.                                                       *)

LEMMA TypeInit == Init => TypeOK
  BY BucketsAssumption, TimeAssumption DEF Init, TypeOK, Full

LEMMA RetryAfterType ==
  ASSUME TypeOK, NEW b \in Buckets, b \in kept, ~Grants(b)
  PROVE  RetryAfter(b) \in Nat
<1>1. Per - Refilled(b) \in Nat
  BY Shapes, LevelType DEF Grants, Level
<1>2. Capacity[b] * Second \in Nat \ {0}
  BY Shapes, TimeAssumption, SMT
<1>3. (Per - Refilled(b)) \div (Capacity[b] * Second) \in Nat
  BY <1>1, <1>2, Rounding
<1> QED
  BY <1>3 DEF RetryAfter

\* A bucket that is not kept grants.
LEMMA DeniedAreKept ==
  ASSUME TypeOK, NEW b \in Buckets, ~Grants(b)
  PROVE  b \in kept
  BY Shapes DEF Grants, Level

LEMMA TypeStep == TypeOK /\ [Next]_vars => TypeOK'
<1> SUFFICES ASSUME TypeOK, [Next]_vars PROVE TypeOK'
  OBVIOUS
<1>1. ASSUME NEW paid \in SUBSET Buckets, NEW denied \in SUBSET Buckets,
             Check(paid, denied)
      PROVE  TypeOK'
  <2>1. \A b \in Buckets : Level(b) \in Nat /\ Level(b) <= Full(b) /\ Full(b) \in Nat
    BY Shapes, LevelType
  <2>2. \A b \in paid : Level(b) - Per \in Nat /\ Level(b) - Per <= Full(b)
    BY <1>1, <2>1, TimeAssumption DEF Check, Grants
  <2>3. \A b \in denied : now + RetryAfter(b) * Second \in Nat
    <3> TAKE b \in denied
    <3>1. RetryAfter(b) \in Nat
      BY <1>1, DeniedAreKept, RetryAfterType DEF Check
    <3> QED
      BY <3>1, TimeAssumption, SMT DEF TypeOK
  <2>4. credit' \in [Buckets -> Nat] /\ \A b \in Buckets : credit'[b] <= Full(b)
    BY <1>1, <2>1, <2>2 DEF Check, TypeOK
  <2>5. due' \in [Buckets -> Nat]
    BY <1>1, <2>3 DEF Check, TypeOK
  <2>6. /\ now' \in Nat /\ kept' \subseteq Buckets /\ updated' \in [Buckets -> Nat]
        /\ start' \in Nat /\ taken' \in [Buckets -> Nat] /\ waiting' \subseteq kept'
        /\ \A b \in Buckets : updated'[b] <= now'
    BY <1>1 DEF Check, TypeOK
  <2> QED
    BY <2>4, <2>5, <2>6 DEF TypeOK, Full
<1>2. CASE Prune
  BY <1>2, Shapes DEF Prune, TypeOK, Full
<1>3. CASE Tick
  BY <1>3 DEF Tick, TypeOK, Full
<1>4. CASE UNCHANGED vars
  BY <1>4 DEF vars, TypeOK, Full
<1> QED
  BY <1>1, <1>2, <1>3, <1>4, Requests

\* No bucket ever holds less than nothing or more than its capacity, and
\* none was touched in the future.
THEOREM TypeCorrect == Spec => []TypeOK
  BY TypeInit, TypeStep, PTL DEF Spec

-----------------------------------------------------------------------------
(* The window: what a bucket gave and what it still holds together never   *)
(* exceed its capacity and what the window refilled.                       *)

Elapsed == IF now > start THEN now - start ELSE 0

WindowInv ==
  \A b \in Buckets :
    /\ now < start => taken[b] = 0
    /\ taken[b] * Per + Level(b) <= Full(b) + Capacity[b] * Elapsed

LEMMA WindowInit == Init => WindowInv
<1> SUFFICES ASSUME Init, NEW b \in Buckets
             PROVE  /\ now < start => taken[b] = 0
                    /\ taken[b] * Per + Level(b) <= Full(b) + Capacity[b] * Elapsed
  BY DEF WindowInv
<1>1. taken[b] = 0 /\ Elapsed = 0 /\ Level(b) = Full(b)
  BY BucketsAssumption DEF Init, Elapsed, Level
<1> QED
  BY <1>1, TypeInit, Shapes

LEMMA WindowStep == TypeOK /\ WindowInv /\ [Next]_vars => WindowInv'
<1> SUFFICES ASSUME TypeOK, WindowInv, [Next]_vars, NEW b \in Buckets
             PROVE  /\ now' < start' => taken'[b] = 0
                    /\ taken'[b] * Per + Level(b)' <= Full(b) + Capacity[b] * Elapsed'
  BY DEF WindowInv, Full
<1>1. /\ now < start => taken[b] = 0
      /\ taken[b] * Per + Level(b) <= Full(b) + Capacity[b] * Elapsed
  BY DEF WindowInv
<1>2. taken[b] \in Nat /\ now \in Nat /\ start \in Nat /\ Elapsed \in Nat
  BY DEF TypeOK, Elapsed
<1>3. Capacity[b] * Elapsed \in Nat /\ taken[b] * Per \in Nat
  BY <1>2, Shapes, SMT
<1>4. Level(b) \in Nat /\ Level(b) <= Full(b) /\ Full(b) \in Nat /\ Per \in Nat
  BY Shapes, LevelType
<1>5. ASSUME NEW paid \in SUBSET Buckets, NEW denied \in SUBSET Buckets,
             Check(paid, denied)
      PROVE  /\ now' < start' => taken'[b] = 0
             /\ taken'[b] * Per + Level(b)' <= Full(b) + Capacity[b] * Elapsed'
  <2>1. now' = now /\ start' = start /\ Elapsed' = Elapsed
    BY <1>5 DEF Check, Elapsed
  <2>2. Level(b)' = IF b \in paid THEN Level(b) - Per ELSE Level(b)
    BY <1>5, LevelAfterCheck
  <2>3. taken'[b] = IF b \in paid /\ now >= start THEN taken[b] + 1 ELSE taken[b]
    BY <1>5 DEF Check
  <2>4. (taken[b] + 1) * Per = taken[b] * Per + Per
    BY <1>2, <1>4, SMT
  <2>5. CASE b \in paid /\ now >= start
    <3>1. taken'[b] * Per = taken[b] * Per + Per
      BY <2>3, <2>4, <2>5
    <3> QED
      BY <1>1, <1>2, <1>3, <1>4, <2>1, <2>2, <2>5, <3>1
  <2>6. CASE ~(b \in paid /\ now >= start)
    <3>1. taken'[b] = taken[b] /\ Level(b)' <= Level(b)
      BY <1>4, <2>2, <2>3, <2>6
    <3>2. Level(b)' \in Int
      BY <1>4, <2>2
    <3> QED
      BY <1>1, <1>3, <1>4, <2>1, <3>1, <3>2
  <2> QED
    BY <2>5, <2>6
<1>6. CASE Prune
  <2>1. Level(b)' = Level(b) /\ UNCHANGED <<now, start, taken>> /\ Elapsed' = Elapsed
    BY <1>6, LevelAfterPrune DEF Prune, Elapsed
  <2> QED
    BY <1>1, <2>1
<1>7. CASE Tick
  <2>1. now' = now + 1 /\ start' = start /\ taken' = taken
    BY <1>7 DEF Tick
  <2>2. Level(b)' <= Full(b) /\ Level(b)' <= Level(b) + Capacity[b] /\ Level(b)' \in Nat
    BY <1>4, <1>7, LevelAfterTick, Shapes
  <2>3. CASE now < start
    <3>1. taken'[b] = 0 /\ Elapsed' = 0
      BY <1>1, <1>2, <2>1, <2>3 DEF Elapsed
    <3>2. taken'[b] * Per = 0 /\ Capacity[b] * Elapsed' = 0
      BY <1>4, <3>1, Shapes, Distributes
    <3> QED
      BY <1>1, <1>4, <2>1, <2>2, <2>3, <3>2
  <2>4. CASE now >= start
    <3>1. Elapsed' = Elapsed + 1
      BY <1>2, <2>1, <2>4 DEF Elapsed
    <3>2. Capacity[b] * Elapsed' = Capacity[b] * Elapsed + Capacity[b]
      BY <1>2, <3>1, Shapes, Distributes
    <3> QED
      BY <1>1, <1>2, <1>3, <1>4, <2>1, <2>2, <2>4, <3>2, Shapes
  <2> QED
    BY <1>2, <2>3, <2>4
<1>8. CASE UNCHANGED vars
  BY <1>1, <1>8 DEF vars, Elapsed, Level, Refilled, Full
<1> QED
  BY <1>5, <1>6, <1>7, <1>8, Requests

\* In any window a bucket gives at most its capacity and the window's refill.
THEOREM WindowsAreBounded == Spec => []WindowBound
<1>1. TypeOK /\ WindowInv => WindowBound
  <2> SUFFICES ASSUME TypeOK, WindowInv, NEW b \in Buckets
               PROVE  taken[b] * Per <= Full(b) + Capacity[b] * Elapsed
    BY DEF WindowBound, Elapsed
  <2>1. taken[b] * Per + Level(b) <= Full(b) + Capacity[b] * Elapsed
    BY DEF WindowInv
  <2>2. Level(b) \in Nat /\ taken[b] * Per \in Nat /\ Full(b) \in Nat
    BY LevelType, Shapes, SMT DEF TypeOK
  <2>3. Capacity[b] * Elapsed \in Nat
    BY Shapes, SMT DEF TypeOK, Elapsed
  <2> QED
    BY <2>1, <2>2, <2>3
<1> QED
  BY <1>1, WindowInit, WindowStep, TypeCorrect, PTL DEF Spec

-----------------------------------------------------------------------------
(* Retry-After: as long as a refused bucket is left alone, what its caller *)
(* was told follows from the credit it was refused with.                   *)

RetryInv ==
  \A b \in waiting :
    /\ credit[b] < Per
    /\ due[b] = updated[b]
         + ((Per - credit[b]) \div (Capacity[b] * Second) + 1) * Second

LEMMA RetryStep == TypeOK /\ RetryInv /\ [Next]_vars => RetryInv'
<1> SUFFICES ASSUME TypeOK, RetryInv, [Next]_vars PROVE RetryInv'
  OBVIOUS
<1>1. ASSUME NEW paid \in SUBSET Buckets, NEW denied \in SUBSET Buckets,
             Check(paid, denied)
      PROVE  RetryInv'
  <2> SUFFICES ASSUME NEW b \in waiting'
               PROVE  /\ credit'[b] < Per
                      /\ due'[b] = updated'[b]
                           + ((Per - credit'[b]) \div (Capacity[b] * Second) + 1) * Second
    BY DEF RetryInv
  <2>1. b \in Buckets
    BY <1>1 DEF Check, TypeOK
  <2>2. CASE b \in denied
    <3>1. ~Grants(b) /\ b \in kept /\ b \notin paid
      BY <1>1, <2>1, <2>2, DeniedAreKept DEF Check
    <3>2. Level(b) = Refilled(b) /\ Level(b) < Per
      BY <2>1, <3>1, LevelType, Shapes DEF Grants, Level
    <3>3. /\ credit'[b] = Level(b) /\ updated'[b] = now
          /\ due'[b] = now + RetryAfter(b) * Second
      BY <1>1, <2>1, <2>2, <3>1 DEF Check
    <3> QED
      BY <3>2, <3>3 DEF RetryAfter
  <2>3. CASE b \notin denied
    <3>1. b \in waiting /\ b \notin paid
      BY <1>1, <2>3 DEF Check
    <3>2. credit'[b] = credit[b] /\ updated'[b] = updated[b] /\ due'[b] = due[b]
      BY <1>1, <2>1, <2>3, <3>1 DEF Check
    <3> QED
      BY <3>1, <3>2 DEF RetryInv
  <2> QED
    BY <2>2, <2>3
<1>2. CASE Prune
  BY <1>2 DEF Prune, RetryInv, TypeOK
<1>3. CASE Tick
  BY <1>3 DEF Tick, RetryInv
<1>4. CASE UNCHANGED vars
  BY <1>4 DEF vars, RetryInv
<1> QED
  BY <1>1, <1>2, <1>3, <1>4, Requests

\* A refused caller is served when it comes back as told.  More than a second
\* earlier it would not have been, and a second earlier only where its token
\* was just complete then.
THEOREM RetryAfterCorrect == Spec => []RetryAfterHonest
<1>1. Init => RetryInv
  BY DEF Init, RetryInv
<1>2. TypeOK /\ RetryInv => RetryAfterHonest
  <2> SUFFICES ASSUME TypeOK, RetryInv, NEW b \in waiting
               PROVE  /\ now >= due[b] => Grants(b)
                      /\ now <= due[b] - Second /\ Grants(b)
                           => now = due[b] - Second /\ Level(b) = Per
    BY DEF RetryAfterHonest
  <2> DEFINE c == Capacity[b]
             x == now - updated[b]
             m == Per - credit[b]
             q == m \div (c * Second)
  <2>1. b \in Buckets /\ b \in kept
    BY DEF TypeOK
  <2>2. /\ c \in Nat \ {0} /\ Per \in Nat \ {0} /\ Full(b) \in Nat /\ Full(b) >= Per
        /\ credit[b] \in Nat /\ now \in Nat /\ updated[b] \in Nat /\ x \in Nat
    BY <2>1, Shapes
  <2>3. Second \in Nat \ {0} /\ c * Second \in Nat \ {0}
    BY <2>2, TimeAssumption, SMT
  <2>4. m \in Nat /\ due[b] = updated[b] + (q + 1) * Second
    BY <2>2 DEF RetryInv
  <2>5. q \in Nat /\ (c * Second) * q <= m /\ m < (c * Second) * q + c * Second
    BY <2>3, <2>4, Rounding
  <2>6. q * Second \in Nat /\ (q + 1) * Second = q * Second + Second
    BY <2>3, <2>5, SMT
  <2>7. c * (q * Second) = (c * Second) * q
    BY <2>2, <2>3, <2>5, SMT
  <2>8. c * (q * Second + Second) = c * (q * Second) + c * Second
    BY <2>2, <2>3, <2>6, SMT
  <2>9. Grants(b) <=> credit[b] + c * x >= Per
    BY <2>1, <2>2 DEF Grants, Level, Refilled
  <2>10. ASSUME now >= due[b] PROVE Grants(b)
    <3>1. q * Second + Second <= x
      BY <2>2, <2>3, <2>4, <2>6, <2>10
    <3> HIDE DEF c, x, q
    <3>2. c * (q * Second + Second) <= c * x /\ c * x \in Int
      <4>1. q * Second + Second \in Int /\ x \in Int
        BY <2>2, <2>3, <2>6
      <4> QED
        BY <2>2, <3>1, <4>1, Scaled
    <3>3. m < c * x
      BY <2>2, <2>3, <2>4, <2>5, <2>7, <2>8, <3>2
    <3> QED
      BY <2>2, <2>9, <3>2, <3>3
  <2>11. ASSUME now < due[b] - Second PROVE ~Grants(b)
    <3>1. x < q * Second
      BY <2>2, <2>3, <2>4, <2>6, <2>11
    <3>2. c * x < c * (q * Second)
      BY <2>2, <2>6, <3>1, ScaledStrictly
    <3>3. c * x \in Int /\ c * (q * Second) \in Int
      BY <2>2, <2>6, SMT
    <3> HIDE DEF c, x, q
    <3>4. c * x < m
      BY <2>4, <2>5, <2>7, <3>2, <3>3
    <3> QED
      BY <2>2, <2>9, <3>3, <3>4
  <2>12. ASSUME now = due[b] - Second, Grants(b) PROVE Level(b) = Per
    <3>1. x = q * Second
      BY <2>2, <2>3, <2>4, <2>6, <2>12
    <3>2. c * x = (c * Second) * q /\ c * x \in Int
      BY <2>2, <2>6, <2>7, <3>1, SMT
    <3>3. Level(b) = IF credit[b] + c * x > Full(b) THEN Full(b) ELSE credit[b] + c * x
      BY <2>1 DEF Level, Refilled
    <3> HIDE DEF c, x, q
    <3>4. credit[b] + c * x = Per
      BY <2>2, <2>4, <2>5, <2>9, <2>12, <3>2
    <3> QED
      BY <2>2, <3>3, <3>4
  <2>13. now \in Int /\ due[b] - Second \in Int
    BY <2>2, <2>3, <2>4, <2>6, SMT
  <2> QED
    BY <2>10, <2>11, <2>12, <2>13
<1> QED
  BY <1>1, <1>2, RetryStep, TypeCorrect, PTL DEF Spec

-----------------------------------------------------------------------------
(* Refinement.                                                             *)

\* The limiter with pruning implements the one that forgets nothing.
THEOREM PruningIsInvisible == Spec => ImplementsIdealLimiter
<1>1. Init => Ideal!Init
  <2> SUFFICES ASSUME Init
               PROVE  [b \in Buckets |-> Level(b)] = [b \in Buckets |-> Full(b)]
    BY DEF Ideal!Init
  <2> QED
    BY DEF Init, Level
<1>2. TypeOK /\ [Next]_vars => [Ideal!Next]_([b \in Buckets |-> Level(b)])
  <2> SUFFICES ASSUME TypeOK, [Next]_vars
               PROVE  \/ Ideal!Next
                      \/ [b \in Buckets |-> Level(b)]' = [b \in Buckets |-> Level(b)]
    OBVIOUS
  <2>1. ASSUME NEW paid \in SUBSET Buckets, NEW denied \in SUBSET Buckets,
               Check(paid, denied)
        PROVE  Ideal!Next
    <3>1. \A b \in paid : Level(b) >= Per
      BY <2>1 DEF Check, Grants
    <3>2. \A b \in Buckets : Level(b)' = IF b \in paid THEN Level(b) - Per ELSE Level(b)
      BY <2>1, LevelAfterCheck
    <3>3. Ideal!Charge(paid)
      BY <3>1, <3>2 DEF Ideal!Charge
    <3> QED
      BY <3>3 DEF Ideal!Next
  <2>2. CASE Tick
    <3>1. \A b \in Buckets :
            Level(b)' = IF Level(b) + Capacity[b] > Full(b) THEN Full(b)
                        ELSE Level(b) + Capacity[b]
      BY <2>2, LevelAfterTick
    <3>2. Ideal!Earn
      BY <3>1 DEF Ideal!Earn
    <3> QED
      BY <3>2 DEF Ideal!Next
  <2>3. CASE Prune
    BY <2>3, LevelAfterPrune
  <2>4. CASE UNCHANGED vars
    BY <2>4 DEF vars, Level, Refilled, Full
  <2> QED
    BY <2>1, <2>2, <2>3, <2>4, Requests
<1> QED
  BY <1>1, <1>2, TypeCorrect, PTL DEF Spec, ImplementsIdealLimiter, Ideal!Spec
=============================================================================
