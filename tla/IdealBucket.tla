---------------------------- MODULE IdealBucket ----------------------------
(***************************************************************************)
(* What a token bucket promises its callers, with no refill in sight: the  *)
(* level rises with the clock at the rate in force, stops at the burst     *)
(* size, and falls by what is consumed.  TokenBucket, which only looks at  *)
(* the clock when it is called, implements it.                             *)
(***************************************************************************)
EXTENDS Integers

CONSTANTS Rates, BurstSizes, Counts, Instant

VARIABLES now, rate, burst_size, level

vars == <<now, rate, burst_size, level>>

AtLeastZero(x)  == IF x > 0 THEN x ELSE 0
AtMost(x, cap)  == IF x > cap THEN cap ELSE x

Init ==
  /\ now \in Instant
  /\ rate \in {AtLeastZero(r) : r \in Rates}
  /\ burst_size \in {rate} \cup {b \in BurstSizes : b >= 0}
  /\ level = burst_size

\* A request is granted exactly when the level covers it.
Consume ==
  \E count \in Counts :
    /\ count > 0
    /\ level >= count
    /\ level' = level - count
    /\ UNCHANGED <<now, rate, burst_size>>

\* A change of rate neither gives nor takes tokens.
ChangeRate ==
  /\ rate' \in {AtLeastZero(r) : r \in Rates}
  /\ UNCHANGED <<now, burst_size, level>>

\* A change of burst size takes the tokens above it and gives none.
ChangeBurstSize ==
  /\ burst_size' \in {AtLeastZero(b) : b \in BurstSizes}
  /\ level' = AtMost(level, burst_size')
  /\ UNCHANGED <<now, rate>>

Fill ==
  /\ now' \in {t \in Instant : t > now}
  /\ level' = AtMost(level + (now' - now) * rate, burst_size)
  /\ UNCHANGED <<rate, burst_size>>

Next == Consume \/ ChangeRate \/ ChangeBurstSize \/ Fill

Spec == Init /\ [][Next]_vars

=============================================================================
