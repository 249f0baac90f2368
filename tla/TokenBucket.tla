---------------------------- MODULE TokenBucket ----------------------------
(***************************************************************************)
(* The token bucket of src/token_bucket.  Every public method takes the    *)
(* bucket's mutex for its whole body and reads the clock inside it, so     *)
(* each method is one action here; between two calls only the clock moves. *)
(*                                                                         *)
(* Tokens, rates and instants are integers: `rate' tokens per unit of      *)
(* time.  A double is modelled as an exact number; rounding, infinities    *)
(* and NaN are left out.                                                   *)
(***************************************************************************)
EXTENDS Integers

CONSTANTS
  Rates,       \* rates the constructor and SetRate are called with
  BurstSizes,  \* burst sizes the constructor and SetBurstSize are called with
  Counts,      \* token counts TryConsume is called with
  Instant,     \* the readings of the clock
  MaxAllowance \* bound on what one observation window may come to allow

ASSUME InputsAssumption ==
  /\ Rates \subseteq Int
  /\ BurstSizes \subseteq Int
  /\ Counts \subseteq Int

ASSUME InstantAssumption ==
  /\ Instant \subseteq Nat
  /\ MaxAllowance \in Nat

VARIABLES
  now,               \* what clock_->Now() returns
  rate,              \* rate_
  burst_size,        \* burst_size_
  tokens,            \* tokens_
  last_refill_time,  \* last_refill_time_
  allowance          \* history: tokens the open observation window may still see consumed

bucket == <<rate, burst_size, tokens, last_refill_time>>
vars   == <<now, bucket, allowance>>

\* std::max(0.0, x) and std::min(x, cap).
NonNegative(x) == IF x > 0 THEN x ELSE 0
Capped(x, cap) == IF x > cap THEN cap ELSE x

\* Faulty variant of RefillLocked: the cap is forgotten.
RefillUncapped ==
  IF now < last_refill_time
    THEN tokens
    ELSE tokens + (now - last_refill_time) * rate

(***************************************************************************)
(* RefillLocked: the token count it leaves.  When the clock reads earlier  *)
(* than the last refill nothing is added; either way the caller's action   *)
(* sets last_refill_time to the reading.                                   *)
(***************************************************************************)
RefillLocked ==
  IF now < last_refill_time
    THEN tokens
    ELSE Capped(tokens + (now - last_refill_time) * rate, burst_size)

Init ==
  \E new_rate \in Rates, new_burst \in BurstSizes, start \in Instant :
    /\ now = start
    /\ rate = NonNegative(new_rate)
    /\ burst_size = IF new_burst < 0 THEN rate ELSE new_burst
    /\ tokens = burst_size
    /\ last_refill_time = start
    /\ allowance = burst_size

TryConsume(count) ==
  \/ /\ count <= 0           \* returns true without touching the bucket
     /\ UNCHANGED vars
  \/ /\ count > 0
     /\ last_refill_time' = now
     /\ IF RefillLocked >= count
          THEN /\ tokens' = RefillLocked - count
               /\ allowance' = allowance - count
          ELSE /\ tokens' = RefillLocked
               /\ UNCHANGED allowance
     /\ UNCHANGED <<now, rate, burst_size>>

\* Faulty variant of SetRate: the time since the last refill is paid at the new rate.
SetRateWithoutRefill(new_rate) ==
  /\ rate' = NonNegative(new_rate)
  /\ UNCHANGED <<now, burst_size, tokens, last_refill_time, allowance>>

SetRate(new_rate) ==
  /\ tokens' = RefillLocked
  /\ last_refill_time' = now
  /\ rate' = NonNegative(new_rate)
  /\ UNCHANGED <<now, burst_size, allowance>>

\* Faulty variant of SetBurstSize: the old burst size no longer caps the time before.
SetBurstSizeWithoutRefill(new_burst_size) ==
  /\ burst_size' = NonNegative(new_burst_size)
  /\ tokens' = Capped(tokens, burst_size')
  /\ UNCHANGED <<now, rate, last_refill_time, allowance>>

SetBurstSize(new_burst_size) ==
  /\ burst_size' = NonNegative(new_burst_size)
  /\ tokens' = Capped(RefillLocked, burst_size')
  /\ last_refill_time' = now
  /\ UNCHANGED <<now, rate, allowance>>

GetAvailableTokens ==
  /\ tokens' = RefillLocked
  /\ last_refill_time' = now
  /\ UNCHANGED <<now, rate, burst_size, allowance>>

(***************************************************************************)
(* The clock reads t from now on.  A window earns `rate' for every unit    *)
(* the clock moves forward.                                                *)
(***************************************************************************)
SetTime(t) ==
  /\ now' = t
  /\ allowance' = allowance + NonNegative(t - now) * rate
  /\ allowance' <= MaxAllowance
  /\ UNCHANGED bucket

(***************************************************************************)
(* The observer opens a new window: from here on it allows one burst, and  *)
(* whatever the rate earns.  No part of the code.                          *)
(***************************************************************************)
OpenWindow ==
  /\ allowance' = burst_size
  /\ UNCHANGED <<now, bucket>>

Operation ==
  \/ \E count \in Counts : TryConsume(count)
  \/ \E new_rate \in Rates : SetRate(new_rate)
  \/ \E new_burst_size \in BurstSizes : SetBurstSize(new_burst_size)
  \/ GetAvailableTokens
  \/ OpenWindow

\* RealClock: std::chrono::steady_clock never reads earlier than before.
SteadyNext ==
  \/ Operation
  \/ \E t \in Instant : t > now /\ SetTime(t)

\* Any Clock: FakeClock::SetTime may also turn it back.
Next ==
  \/ Operation
  \/ \E t \in Instant : SetTime(t)

Spec       == Init /\ [][Next]_vars
SteadySpec == Init /\ [][SteadyNext]_vars

-----------------------------------------------------------------------------
(***************************************************************************)
(* The bucket's fields keep their ranges, and it never holds more than a   *)
(* burst or less than nothing, whatever calls and clock readings came      *)
(* before (the cap of RefillLocked and SetBurstSize, the test of           *)
(* TryConsume).                                                            *)
(***************************************************************************)
TypeOK ==
  /\ now \in Instant
  /\ last_refill_time \in Instant
  /\ rate \in Nat
  /\ burst_size \in Nat
  /\ tokens \in 0..burst_size
  /\ allowance \in Int

(***************************************************************************)
(* Rate conformance: in any window of time, whenever it opens, the tokens  *)
(* TryConsume hands out never exceed the burst size at its opening plus    *)
(* what the rate in force earned since, over any sequence of rate and      *)
(* burst changes and with a clock that may be turned back.                 *)
(***************************************************************************)
WindowBound == allowance >= 0

\* What the bucket would hold after a refill now; the bound on it that is inductive.
Level ==
  Capped(tokens + NonNegative(now - last_refill_time) * rate, burst_size)

LevelWithinAllowance == Level <= allowance

(***************************************************************************)
(* Refilling lazily cannot be observed: with a steady clock the bucket     *)
(* behaves as one that fills continuously (module IdealBucket).            *)
(***************************************************************************)
Ideal == INSTANCE IdealBucket WITH level <- Level

RefinesIdealBucket == Ideal!Spec

=============================================================================
