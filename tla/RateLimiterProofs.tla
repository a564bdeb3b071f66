------------------------- MODULE RateLimiterProofs -------------------------
(* The bounds of the token bucket, for every capacity and clock.           *)
EXTENDS RateLimiter, TLAPS

LEMMA CapacityTicks == Capacity * Second \in Nat /\ Capacity * Second >= Second
BY LimiterAssumption

LEMMA LimiterInit == Init => LimiterTypeOK /\ BucketInv
BY CapacityTicks, LimiterAssumption DEF Init, LimiterTypeOK, BucketInv

LEMMA LimiterStep ==
  LimiterTypeOK /\ BucketInv /\ [Next]_limiterVars
    => LimiterTypeOK' /\ BucketInv'
<1> USE CapacityTicks, LimiterAssumption
<1>1. SUFFICES ASSUME LimiterTypeOK, BucketInv, [Next]_limiterVars
               PROVE  LimiterTypeOK' /\ BucketInv'
  OBVIOUS
<1> DEFINE Full == Capacity * Second
<1>2. /\ Replenished \in 0..Full
      /\ Replenished <= last_tokens + (now - last_update)
      /\ Replenished < Full => Replenished = last_tokens + (now - last_update)
  BY <1>1 DEF LimiterTypeOK, Replenished
<1>3. /\ now \in Nat /\ last_update \in Nat /\ last_admit \in Nat
      /\ last_update <= now /\ last_admit <= now /\ window.from <= now
      /\ window.from \in Nat /\ window.before \in Nat /\ admitted \in Nat
      /\ now <= MaxTime /\ last_tokens \in 0..Full
  BY <1>1 DEF LimiterTypeOK
<1>4. CASE Admit
  <2>1. Second * (admitted + 1 - window.before)
          = Second * (admitted - window.before) + Second
    BY <1>3
  <2>2. LimiterTypeOK'
    BY <1>1, <1>2, <1>3, <1>4 DEF Admit, LimiterTypeOK
  <2>3. Second * (admitted - window.before) \in Int
    BY <1>3
  <2>4. last_update < window.from => Second * (admitted - window.before) = 0
    BY <1>1, <1>3 DEF BucketInv
  <2>5. Second * (admitted - window.before) + Replenished
          <= Full + (now - window.from)
    BY <1>1, <1>2, <1>3, <2>3, <2>4 DEF BucketInv
  <2>6. Second * (admitted' - window'.before) + last_tokens'
          <= Full + (last_update' - window'.from)
    BY <1>2, <1>3, <1>4, <2>1, <2>3, <2>5 DEF Admit
  <2>7. BucketInv'
    BY <1>2, <1>3, <1>4, <2>6 DEF Admit, BucketInv
  <2>8. QED BY <2>2, <2>7
<1>5. CASE Refuse
  <2>1. LimiterTypeOK'
    BY <1>1, <1>2, <1>3, <1>5 DEF Refuse, LimiterTypeOK
  <2>2. Second * (admitted - window.before) \in Int
    BY <1>3
  <2>3. last_update < window.from => Second * (admitted - window.before) = 0
    BY <1>1, <1>3 DEF BucketInv
  <2>4. Second * (admitted - window.before) + Replenished
          <= Full + (now - window.from)
    BY <1>1, <1>2, <1>3, <2>2, <2>3 DEF BucketInv
  <2>5. last_tokens < Full
    BY <1>2, <1>3, <1>5 DEF Refuse
  <2>6. Replenished >= now - last_admit
    BY <1>1, <1>2, <1>3, <1>5, <2>5 DEF Refuse, BucketInv
  <2>7. BucketInv'
    BY <1>2, <1>3, <1>5, <2>4, <2>6 DEF Refuse, BucketInv
  <2>8. QED BY <2>1, <2>7
<1>6. CASE Tick
  BY <1>1, <1>3, <1>6 DEF Tick, LimiterTypeOK, BucketInv
<1>7. CASE Watch
  <2>1. LimiterTypeOK'
    BY <1>1, <1>3, <1>7 DEF Watch, LimiterTypeOK
  <2>2. admitted' = window'.before /\ window'.from = now
    BY <1>7 DEF Watch
  <2>3. Second * (admitted' - window'.before) = 0
    BY <1>3, <1>7, <2>2 DEF Watch
  <2>4. BucketInv'
    BY <1>1, <1>3, <1>7, <2>2, <2>3 DEF Watch, BucketInv
  <2>5. QED BY <2>1, <2>4
<1>8. CASE UNCHANGED limiterVars
  BY <1>1, <1>8 DEF limiterVars, LimiterTypeOK, BucketInv
<1>9. QED BY <1>1, <1>4, <1>5, <1>6, <1>7, <1>8 DEF Next

LEMMA LimiterCorrect == Spec => [](LimiterTypeOK /\ BucketInv)
BY LimiterInit, LimiterStep, PTL DEF Spec

\* The bucket never leaves 0..capacity, whatever was requested before.
THEOREM LimiterTypeCorrect == Spec => []LimiterTypeOK
BY LimiterCorrect, PTL

\* Over any interval the admitted requests are bounded by the capacity and the
\* length of the interval.
THEOREM RateIsBounded == Spec => []WindowBounded
<1>1. LimiterTypeOK /\ BucketInv => WindowBounded
  <2>1. SUFFICES ASSUME LimiterTypeOK, BucketInv PROVE WindowBounded
    OBVIOUS
  <2>2. Second * (admitted - window.before) \in Int
    BY <2>1, LimiterAssumption DEF LimiterTypeOK
  <2>3. admitted = window.before => Second * (admitted - window.before) = 0
    BY <2>1, LimiterAssumption DEF LimiterTypeOK
  <2>4. QED
    BY <2>1, <2>2, <2>3, CapacityTicks
    DEF LimiterTypeOK, BucketInv, WindowBounded
<1>2. QED BY <1>1, LimiterCorrect, PTL

\* A client that waits a second after the last admission is let through.
THEOREM NobodyStarves == Spec => NoStarvation
<1>1. LimiterTypeOK /\ BucketInv
        => [Refuse => now - last_admit < Second]_limiterVars
  BY CapacityTicks, LimiterAssumption
  DEF LimiterTypeOK, BucketInv, Refuse, Replenished
<1>2. QED BY <1>1, LimiterCorrect, PTL DEF NoStarvation

=============================================================================
