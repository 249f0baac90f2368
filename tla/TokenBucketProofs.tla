------------------------- MODULE TokenBucketProofs -------------------------
(***************************************************************************)
(* What holds of the token bucket for all rates, burst sizes, counts and   *)
(* clock readings.  The inductive invariant is that the level, which is    *)
(* what the bucket would hold if it were refilled now, is covered by what  *)
(* the observation window still allows.                                    *)
(***************************************************************************)
EXTENDS TokenBucket, TLAPS

Inv == TypeOK /\ LevelWithinAllowance

-----------------------------------------------------------------------------
\* Arithmetic: time splits into intervals, and a longer interval earns no less.
LEMMA IntervalsAdd ==
  ASSUME NEW a \in Int, NEW b \in Int, NEW c \in Int, NEW r \in Int
  PROVE  (c - a) * r = (b - a) * r + (c - b) * r
OBVIOUS

LEMMA EarnsMonotone ==
  ASSUME NEW a \in Int, NEW b \in Int, NEW r \in Nat, a <= b
  PROVE  a * r <= b * r
<1>1. b * r = a * r + (b - a) * r
  OBVIOUS
<1>2. (b - a) * r >= 0
  OBVIOUS
<1> QED
  BY <1>1, <1>2

LEMMA ZeroEarnsNothing ==
  ASSUME NEW r \in Int
  PROVE  0 * r = 0
OBVIOUS

LEMMA NoTimePassed ==
  ASSUME NEW a \in Int, NEW b \in Int, a = b
  PROVE  NonNegative(a - b) = 0
BY DEF NonNegative

\* What RefillLocked leaves is the level, and it lies between nothing and a burst.
LEMMA RefillIsLevel ==
  ASSUME TypeOK
  PROVE  /\ RefillLocked = Level
         /\ Level \in 0..burst_size
         /\ tokens <= Level
<1>1. now \in Int /\ last_refill_time \in Int /\ rate \in Nat /\ burst_size \in Nat
      /\ tokens \in Int /\ 0 <= tokens /\ tokens <= burst_size
  BY InstantAssumption DEF TypeOK
<1> DEFINE earned == NonNegative(now - last_refill_time) * rate
<1>2. earned \in Int /\ earned >= 0
  <2>1. NonNegative(now - last_refill_time) \in Nat
    BY <1>1 DEF NonNegative
  <2> QED
    BY <1>1, <2>1
<1>3. Level = Capped(tokens + earned, burst_size)
  BY DEF Level
<1>4. Level \in 0..burst_size /\ tokens <= Level
  <2> HIDE DEF earned
  <2> QED
    BY <1>1, <1>2, <1>3 DEF Capped
<1>5. CASE now < last_refill_time
  <2>1. earned = 0
    BY <1>1, <1>5, ZeroEarnsNothing DEF NonNegative
  <2>2. Level = tokens
    <3> HIDE DEF earned
    <3> QED
      BY <1>1, <1>3, <2>1 DEF Capped
  <2> QED
    BY <1>4, <1>5, <2>2 DEF RefillLocked
<1>6. CASE ~(now < last_refill_time)
  <2>1. NonNegative(now - last_refill_time) = now - last_refill_time
    BY <1>1, <1>6 DEF NonNegative
  <2> QED
    BY <1>4, <1>6, <2>1 DEF RefillLocked, Level
<1> QED
  BY <1>5, <1>6

\* Just after a refill the level is the token count.
LEMMA LevelWhenRefilled ==
  ASSUME TypeOK, last_refill_time = now
  PROVE  Level = tokens
<1>1. now \in Int /\ rate \in Int /\ burst_size \in Int /\ tokens \in Int
      /\ tokens <= burst_size
  BY InstantAssumption DEF TypeOK
<1>2. NonNegative(now - last_refill_time) = 0
  BY <1>1 DEF NonNegative
<1> QED
  BY <1>1, <1>2, ZeroEarnsNothing DEF Level, Capped

-----------------------------------------------------------------------------
LEMMA InitInv == Init => Inv
<1> SUFFICES ASSUME Init PROVE Inv
  OBVIOUS
<1>1. PICK new_rate \in Rates, new_burst \in BurstSizes, start \in Instant :
        /\ now = start
        /\ rate = NonNegative(new_rate)
        /\ burst_size = IF new_burst < 0 THEN rate ELSE new_burst
        /\ tokens = burst_size
        /\ last_refill_time = start
        /\ allowance = burst_size
  BY DEF Init
<1>2. TypeOK
  <2>1. new_rate \in Int /\ new_burst \in Int
    BY InputsAssumption
  <2> QED
    BY <1>1, <2>1 DEF TypeOK, NonNegative
<1>3. Level = tokens
  BY <1>1, <1>2, LevelWhenRefilled
<1>4. allowance \in Int /\ tokens \in Int
  BY <1>2 DEF TypeOK
<1> QED
  BY <1>1, <1>2, <1>3, <1>4 DEF Inv, LevelWithinAllowance

\* The same of a step that refills.
LEMMA LevelAfterRefill ==
  ASSUME TypeOK', last_refill_time' = now'
  PROVE  Level' = tokens'
<1>1. now' \in Int /\ last_refill_time' \in Int /\ rate' \in Int
      /\ burst_size' \in Int /\ tokens' \in Int /\ tokens' <= burst_size'
  BY InstantAssumption DEF TypeOK
<1>2. NonNegative(now' - last_refill_time') = 0
  BY <1>1, NoTimePassed
<1> QED
  BY <1>1, <1>2, ZeroEarnsNothing DEF Level, Capped

(***************************************************************************)
(* Every operation refills first, so it is enough to compare the tokens it *)
(* leaves with the allowance it leaves.                                    *)
(***************************************************************************)
LEMMA RefillingStep ==
  ASSUME TypeOK', last_refill_time' = now', tokens' <= allowance'
  PROVE  Inv'
BY LevelAfterRefill DEF Inv, LevelWithinAllowance

LEMMA OperationInv == Inv /\ Operation => Inv'
<1> SUFFICES ASSUME Inv, Operation PROVE Inv'
  OBVIOUS
<1>1. /\ RefillLocked = Level
      /\ RefillLocked \in Int /\ 0 <= RefillLocked /\ RefillLocked <= burst_size
      /\ tokens <= RefillLocked /\ RefillLocked <= allowance
  BY RefillIsLevel DEF Inv, TypeOK, LevelWithinAllowance
<1>2. ASSUME NEW count \in Counts, TryConsume(count)
      PROVE  Inv'
  <2>1. count \in Int
    BY InputsAssumption
  <2>2. CASE count <= 0 /\ UNCHANGED vars
    BY <2>2 DEF Inv, TypeOK, LevelWithinAllowance, Level, vars, bucket
  <2>3. CASE count > 0 /\ RefillLocked >= count
    <3>1. /\ last_refill_time' = now /\ now' = now
          /\ rate' = rate /\ burst_size' = burst_size
          /\ tokens' = RefillLocked - count /\ allowance' = allowance - count
      BY <1>2, <2>1, <2>3 DEF TryConsume
    <3>2. TypeOK'
      BY <1>1, <2>1, <2>3, <3>1 DEF Inv, TypeOK
    <3>3. tokens' <= allowance'
      BY <1>1, <2>1, <3>1 DEF Inv, TypeOK
    <3> QED
      BY <3>1, <3>2, <3>3, RefillingStep
  <2>4. CASE count > 0 /\ ~(RefillLocked >= count)
    <3>1. /\ last_refill_time' = now /\ now' = now
          /\ rate' = rate /\ burst_size' = burst_size
          /\ tokens' = RefillLocked /\ allowance' = allowance
      BY <1>2, <2>1, <2>4 DEF TryConsume
    <3>2. TypeOK'
      BY <1>1, <3>1 DEF Inv, TypeOK
    <3> QED
      BY <1>1, <3>1, <3>2, RefillingStep
  <2> QED
    BY <1>2, <2>1, <2>2, <2>3, <2>4 DEF TryConsume
<1>3. ASSUME NEW new_rate \in Rates, SetRate(new_rate)
      PROVE  Inv'
  <2>1. new_rate \in Int
    BY InputsAssumption
  <2>2. /\ last_refill_time' = now /\ now' = now /\ tokens' = RefillLocked
        /\ rate' \in Nat /\ burst_size' = burst_size /\ allowance' = allowance
    BY <1>3, <2>1 DEF SetRate, NonNegative
  <2>3. TypeOK'
    BY <1>1, <2>2 DEF Inv, TypeOK
  <2> QED
    BY <1>1, <2>2, <2>3, RefillingStep
<1>4. ASSUME NEW new_burst_size \in BurstSizes, SetBurstSize(new_burst_size)
      PROVE  Inv'
  <2>1. new_burst_size \in Int
    BY InputsAssumption
  <2>2. /\ last_refill_time' = now /\ now' = now /\ rate' = rate
        /\ burst_size' \in Nat /\ allowance' = allowance
        /\ tokens' = Capped(RefillLocked, burst_size')
    BY <1>4, <2>1 DEF SetBurstSize, NonNegative
  <2>3. tokens' \in 0..burst_size' /\ tokens' <= RefillLocked
    BY <1>1, <2>2 DEF Capped
  <2>4. TypeOK'
    BY <2>2, <2>3 DEF Inv, TypeOK
  <2>5. tokens' <= allowance'
    BY <1>1, <2>2, <2>3 DEF Inv, TypeOK
  <2> QED
    BY <2>2, <2>4, <2>5, RefillingStep
<1>5. ASSUME GetAvailableTokens
      PROVE  Inv'
  <2>1. /\ last_refill_time' = now /\ now' = now /\ rate' = rate
        /\ burst_size' = burst_size /\ allowance' = allowance
        /\ tokens' = RefillLocked
    BY <1>5 DEF GetAvailableTokens
  <2>2. TypeOK'
    BY <1>1, <2>1 DEF Inv, TypeOK
  <2> QED
    BY <1>1, <2>1, <2>2, RefillingStep
<1>6. ASSUME OpenWindow
      PROVE  Inv'
  <2>1. allowance' = burst_size /\ UNCHANGED <<now, bucket>>
    BY <1>6 DEF OpenWindow
  <2>2. TypeOK' /\ Level' = Level
    BY <2>1 DEF Inv, TypeOK, Level, bucket
  <2> QED
    BY <1>1, <2>1, <2>2 DEF Inv, LevelWithinAllowance
<1> QED
  BY <1>2, <1>3, <1>4, <1>5, <1>6 DEF Operation
(***************************************************************************)
(* When the clock moves by t - now, the level rises by at most what that   *)
(* time earns, whichever way the clock moves.                              *)
(***************************************************************************)
LEMMA SetTimeInv ==
  ASSUME Inv, NEW t \in Instant, SetTime(t)
  PROVE  Inv'
<1>1. /\ now \in Int /\ t \in Int /\ last_refill_time \in Int
      /\ rate \in Nat /\ burst_size \in Nat /\ allowance \in Int
      /\ tokens \in Int /\ 0 <= tokens /\ tokens <= burst_size
  BY InstantAssumption DEF Inv, TypeOK
<1>2. /\ now' = t
      /\ allowance' = allowance + NonNegative(t - now) * rate
      /\ UNCHANGED bucket
  BY DEF SetTime
<1> DEFINE before == NonNegative(now - last_refill_time) * rate
           after  == NonNegative(t - last_refill_time) * rate
           earned == NonNegative(t - now) * rate
<1>3. /\ NonNegative(now - last_refill_time) \in Nat
      /\ NonNegative(t - last_refill_time) \in Nat
      /\ NonNegative(t - now) \in Nat
      /\ NonNegative(t - last_refill_time)
           <= NonNegative(now - last_refill_time) + NonNegative(t - now)
  BY <1>1 DEF NonNegative
<1>4. before \in Nat /\ after \in Nat /\ earned \in Nat
  BY <1>1, <1>3
<1>5. after <= before + earned
  <2> DEFINE x == NonNegative(now - last_refill_time)
             y == NonNegative(t - now)
             z == NonNegative(t - last_refill_time)
  <2>1. x \in Nat /\ y \in Nat /\ z \in Nat /\ z <= x + y
    BY <1>3
  <2>2. before = x * rate /\ earned = y * rate /\ after = z * rate
    OBVIOUS
  <2> HIDE DEF x, y, z, before, earned, after
  <2>3. z * rate <= (x + y) * rate
    BY <1>1, <2>1, EarnsMonotone
  <2>4. (x + y) * rate = x * rate + y * rate
    BY <1>1, <2>1
  <2> QED
    BY <2>2, <2>3, <2>4
<1>6. Level = Capped(tokens + before, burst_size)
  BY DEF Level
<1>7. Level' = Capped(tokens + after, burst_size)
  BY <1>2 DEF Level, bucket
<1>8. allowance' = allowance + earned
  BY <1>2
<1> HIDE DEF before, after, earned
<1>9. Level' <= Level + earned
  BY <1>1, <1>4, <1>5, <1>6, <1>7 DEF Capped
<1>10. Level \in Int /\ Level' \in Int
  BY <1>1, <1>4, <1>6, <1>7 DEF Capped
<1>11. Level' <= allowance'
  BY <1>1, <1>4, <1>8, <1>9, <1>10 DEF Inv, LevelWithinAllowance
<1>12. TypeOK'
  BY <1>1, <1>2, <1>4, <1>8 DEF Inv, TypeOK, bucket
<1> QED
  BY <1>11, <1>12 DEF Inv, LevelWithinAllowance

LEMMA NextInv == Inv /\ [Next]_vars => Inv'
<1> SUFFICES ASSUME Inv, [Next]_vars PROVE Inv'
  OBVIOUS
<1>1. CASE Operation
  BY <1>1, OperationInv
<1>2. ASSUME NEW t \in Instant, SetTime(t)
      PROVE  Inv'
  BY <1>2, SetTimeInv
<1>3. CASE UNCHANGED vars
  BY <1>3 DEF Inv, TypeOK, LevelWithinAllowance, Level, vars, bucket
<1> QED
  BY <1>1, <1>2, <1>3 DEF Next

LEMMA InvHolds == Spec => []Inv
<1> QED
  BY InitInv, NextInv, PTL DEF Spec

(***************************************************************************)
(* The bucket's fields keep their ranges: it never holds more than a burst *)
(* and never less than nothing (RefillLocked's cap, TryConsume's test).    *)
(***************************************************************************)
THEOREM TypeCorrect == Spec => []TypeOK
<1>1. Inv => TypeOK
  BY DEF Inv
<1> QED
  BY <1>1, InvHolds, PTL

(***************************************************************************)
(* The tokens in the bucket, refilled now, never exceed what the open      *)
(* window allows.                                                          *)
(***************************************************************************)
THEOREM LevelCovered == Spec => []LevelWithinAllowance
<1>1. Inv => LevelWithinAllowance
  BY DEF Inv
<1> QED
  BY <1>1, InvHolds, PTL

(***************************************************************************)
(* Rate conformance: no window sees more tokens consumed than the burst    *)
(* size at its opening and the rates in force since allow, whatever the    *)
(* sequence of calls and clock readings.                                   *)
(***************************************************************************)
THEOREM RateConformance == Spec => []WindowBound
<1>1. Inv => WindowBound
  <2> SUFFICES ASSUME Inv PROVE WindowBound
    OBVIOUS
  <2>1. Level \in 0..burst_size
    BY RefillIsLevel DEF Inv
  <2>2. burst_size \in Int /\ allowance \in Int /\ Level <= allowance
    BY DEF Inv, TypeOK, LevelWithinAllowance
  <2> QED
    BY <2>1, <2>2 DEF WindowBound
<1> QED
  BY <1>1, InvHolds, PTL

-----------------------------------------------------------------------------
(***************************************************************************)
(* Refinement.  With a steady clock the last refill is never in the        *)
(* future, and the level then follows the ideal bucket step by step.       *)
(***************************************************************************)
SteadyInv == Inv /\ last_refill_time <= now

LEMMA SteadyInvHolds == SteadySpec => []SteadyInv
<1>1. Init => SteadyInv
  <2> SUFFICES ASSUME Init PROVE last_refill_time <= now
    BY InitInv DEF SteadyInv
  <2>1. last_refill_time = now /\ now \in Int
    BY InstantAssumption DEF Init
  <2> QED
    BY <2>1
<1>2. SteadyInv /\ [SteadyNext]_vars => SteadyInv'
  <2> SUFFICES ASSUME SteadyInv, [SteadyNext]_vars PROVE SteadyInv'
    OBVIOUS
  <2>1. [Next]_vars
    BY DEF SteadyNext, Next
  <2>2. Inv'
    BY <2>1, NextInv DEF SteadyInv
  <2>3. now \in Int /\ last_refill_time \in Int /\ last_refill_time <= now
    BY InstantAssumption DEF SteadyInv, Inv, TypeOK
  <2>4. CASE Operation
    <3>1. now' = now /\ (last_refill_time' = now \/ last_refill_time' = last_refill_time)
      BY <2>4 DEF Operation, TryConsume, SetRate, SetBurstSize, GetAvailableTokens,
                  OpenWindow, vars, bucket
    <3> QED
      BY <2>2, <2>3, <3>1 DEF SteadyInv
  <2>5. ASSUME NEW t \in Instant, t > now, SetTime(t)
        PROVE  SteadyInv'
    <3>1. now' = t /\ last_refill_time' = last_refill_time /\ t \in Int
      BY <2>5, InstantAssumption DEF SetTime, bucket
    <3> QED
      BY <2>2, <2>3, <2>5, <3>1 DEF SteadyInv
  <2>6. CASE UNCHANGED vars
    BY <2>2, <2>3, <2>6 DEF SteadyInv, vars, bucket
  <2> QED
    BY <2>4, <2>5, <2>6 DEF SteadyNext
<1> QED
  BY <1>1, <1>2, PTL DEF SteadySpec

LEMMA IdealInit == Init => Ideal!Init
<1> SUFFICES ASSUME Init PROVE Ideal!Init
  OBVIOUS
<1>1. PICK new_rate \in Rates, new_burst \in BurstSizes, start \in Instant :
        /\ now = start
        /\ rate = NonNegative(new_rate)
        /\ burst_size = IF new_burst < 0 THEN rate ELSE new_burst
        /\ tokens = burst_size
        /\ last_refill_time = start
        /\ allowance = burst_size
  BY DEF Init
<1>2. new_rate \in Int /\ new_burst \in Int
  BY InputsAssumption
<1>3. Level = burst_size
  BY <1>1, InitInv, LevelWhenRefilled DEF Inv
<1>4. rate \in {Ideal!AtLeastZero(r) : r \in Rates}
  BY <1>1 DEF NonNegative, Ideal!AtLeastZero
<1>5. burst_size \in {rate} \cup {b \in BurstSizes : b >= 0}
  BY <1>1, <1>2
<1> QED
  BY <1>1, <1>3, <1>4, <1>5 DEF Ideal!Init

LEMMA IdealOperation == Inv /\ Operation => [Ideal!Next]_(Ideal!vars)
<1> SUFFICES ASSUME Inv, Operation PROVE [Ideal!Next]_(Ideal!vars)
  OBVIOUS
<1>1. /\ RefillLocked = Level
      /\ RefillLocked \in Int /\ 0 <= RefillLocked /\ RefillLocked <= burst_size
  BY RefillIsLevel DEF Inv, TypeOK
<1>2. Inv'
  BY OperationInv
<1>3. last_refill_time' = now' => Level' = tokens'
  BY <1>2, LevelAfterRefill DEF Inv
<1>4. ASSUME NEW count \in Counts, TryConsume(count)
      PROVE  [Ideal!Next]_(Ideal!vars)
  <2>1. count \in Int
    BY InputsAssumption
  <2>2. CASE count <= 0 /\ UNCHANGED vars
    BY <2>2 DEF Ideal!vars, Level, vars, bucket
  <2>3. CASE count > 0 /\ RefillLocked >= count
    <3>1. /\ last_refill_time' = now /\ UNCHANGED <<now, rate, burst_size>>
          /\ tokens' = RefillLocked - count
      BY <1>4, <2>1, <2>3 DEF TryConsume
    <3>2. Level >= count /\ Level' = Level - count
      BY <1>1, <1>3, <2>3, <3>1
    <3>3. Ideal!Consume
      BY <2>3, <3>1, <3>2 DEF Ideal!Consume
    <3> QED
      BY <3>3 DEF Ideal!Next
  <2>4. CASE count > 0 /\ ~(RefillLocked >= count)
    <3>1. /\ last_refill_time' = now /\ UNCHANGED <<now, rate, burst_size>>
          /\ tokens' = RefillLocked
      BY <1>4, <2>1, <2>4 DEF TryConsume
    <3> QED
      BY <1>1, <1>3, <3>1 DEF Ideal!vars
  <2> QED
    BY <1>4, <2>1, <2>2, <2>3, <2>4 DEF TryConsume
<1>5. ASSUME NEW new_rate \in Rates, SetRate(new_rate)
      PROVE  [Ideal!Next]_(Ideal!vars)
  <2>1. /\ last_refill_time' = now /\ UNCHANGED <<now, burst_size>>
        /\ tokens' = RefillLocked /\ rate' = NonNegative(new_rate)
    BY <1>5 DEF SetRate
  <2>2. Level' = Level
    BY <1>1, <1>3, <2>1
  <2>3. rate' \in {Ideal!AtLeastZero(r) : r \in Rates}
    BY <2>1 DEF NonNegative, Ideal!AtLeastZero
  <2>4. Ideal!ChangeRate
    BY <2>1, <2>2, <2>3 DEF Ideal!ChangeRate
  <2> QED
    BY <2>4 DEF Ideal!Next
<1>6. ASSUME NEW new_burst_size \in BurstSizes, SetBurstSize(new_burst_size)
      PROVE  [Ideal!Next]_(Ideal!vars)
  <2>1. /\ last_refill_time' = now /\ UNCHANGED <<now, rate>>
        /\ burst_size' = NonNegative(new_burst_size)
        /\ tokens' = Capped(RefillLocked, burst_size')
    BY <1>6 DEF SetBurstSize
  <2>2. Level' = Ideal!AtMost(Level, burst_size')
    BY <1>1, <1>3, <2>1 DEF Capped, Ideal!AtMost
  <2>3. burst_size' \in {Ideal!AtLeastZero(b) : b \in BurstSizes}
    BY <2>1 DEF NonNegative, Ideal!AtLeastZero
  <2>4. Ideal!ChangeBurstSize
    BY <2>1, <2>2, <2>3 DEF Ideal!ChangeBurstSize
  <2> QED
    BY <2>4 DEF Ideal!Next
<1>7. ASSUME GetAvailableTokens
      PROVE  [Ideal!Next]_(Ideal!vars)
  <2>1. /\ last_refill_time' = now /\ UNCHANGED <<now, rate, burst_size>>
        /\ tokens' = RefillLocked
    BY <1>7 DEF GetAvailableTokens
  <2> QED
    BY <1>1, <1>3, <2>1 DEF Ideal!vars
<1>8. ASSUME OpenWindow
      PROVE  [Ideal!Next]_(Ideal!vars)
  BY <1>8 DEF OpenWindow, Ideal!vars, Level, bucket
<1> QED
  BY <1>4, <1>5, <1>6, <1>7, <1>8 DEF Operation

(***************************************************************************)
(* Letting time pass in one step or, at a refill in between, in two gives  *)
(* the same level.                                                         *)
(***************************************************************************)
LEMMA IdealFill ==
  ASSUME SteadyInv, NEW t \in Instant, t > now, SetTime(t)
  PROVE  Ideal!Fill
<1>1. /\ now \in Int /\ t \in Int /\ last_refill_time \in Int
      /\ rate \in Nat /\ burst_size \in Nat
      /\ tokens \in Int /\ 0 <= tokens /\ tokens <= burst_size
      /\ last_refill_time <= now
  BY InstantAssumption DEF SteadyInv, Inv, TypeOK
<1>2. now' = t /\ UNCHANGED <<rate, burst_size, tokens, last_refill_time>>
  BY DEF SetTime, bucket
<1> DEFINE before == (now - last_refill_time) * rate
           earned == (t - now) * rate
<1>3. /\ NonNegative(now - last_refill_time) = now - last_refill_time
      /\ NonNegative(t - last_refill_time) = t - last_refill_time
  BY <1>1 DEF NonNegative
<1>4. (t - last_refill_time) * rate = before + earned
  BY <1>1, IntervalsAdd
<1>5. Level = Capped(tokens + before, burst_size)
  BY <1>3 DEF Level
<1>6. Level' = Capped(tokens + (t - last_refill_time) * rate, burst_size)
  BY <1>2, <1>3 DEF Level
<1>7. before \in Nat /\ earned \in Nat
  BY <1>1
<1>8. Level' = Capped(tokens + (before + earned), burst_size)
  BY <1>4, <1>6
<1>9. Level' = Ideal!AtMost(Level + earned, burst_size)
  <2> HIDE DEF before, earned
  <2> QED
    BY <1>1, <1>5, <1>7, <1>8 DEF Capped, Ideal!AtMost
<1> QED
  BY <1>2, <1>9 DEF Ideal!Fill

(***************************************************************************)
(* Refilling lazily cannot be observed: with a steady clock (RealClock),   *)
(* the bucket of the code, looked at through its level, is a bucket that   *)
(* fills continuously.                                                     *)
(***************************************************************************)
THEOREM LazyRefillIsInvisible == SteadySpec => RefinesIdealBucket
<1>1. SteadyInv /\ [SteadyNext]_vars => [Ideal!Next]_(Ideal!vars)
  <2> SUFFICES ASSUME SteadyInv, [SteadyNext]_vars PROVE [Ideal!Next]_(Ideal!vars)
    OBVIOUS
  <2>1. CASE Operation
    BY <2>1, IdealOperation DEF SteadyInv
  <2>2. ASSUME NEW t \in Instant, t > now, SetTime(t)
        PROVE  [Ideal!Next]_(Ideal!vars)
    BY <2>2, IdealFill DEF Ideal!Next
  <2>3. CASE UNCHANGED vars
    BY <2>3 DEF Ideal!vars, Level, vars, bucket
  <2> QED
    BY <2>1, <2>2, <2>3 DEF SteadyNext
<1> QED
  BY <1>1, IdealInit, SteadyInvHolds, PTL DEF SteadySpec, RefinesIdealBucket, Ideal!Spec

=============================================================================
