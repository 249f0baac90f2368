-------------------------- MODULE ResourceManager --------------------------
(***************************************************************************)
(* The limits of src/resource_manager, the mutex that guards them and what *)
(* its methods do while they hold it.  GetAllocation and GetResourceInfo   *)
(* call the registry with the mutex held, so they are split at those calls *)
(* by the module that runs them (ThrottlingServer).                        *)
(*                                                                         *)
(* A rate limit is an integer divisible by every possible number of        *)
(* clients, so that a fair share is an integer.                            *)
(***************************************************************************)
EXTENDS RegistryState, FiniteSets

CONSTANTS
  RateLimits,  \* limits SetResourceLimit is called with
  Thread,      \* threads of the process
  Nobody       \* holder of a free mutex

ASSUME LimitsAssumption ==
  /\ RateLimits \subseteq Int
  /\ IsFiniteSet(Client)
  /\ \A limit \in RateLimits, n \in 1..Cardinality(Client) : limit % n = 0
  /\ Nobody \notin Thread

VARIABLES
  resource_limits,  \* resource_limits_: configured resource -> rate limit
  mutex             \* who holds the manager's mutex_

manager == <<resource_limits, mutex>>

Configured   == DOMAIN resource_limits
LimitOf(r)   == IF r \in Configured THEN resource_limits[r] ELSE 0

ManagerInit ==
  /\ resource_limits = [r \in {} |-> 0]
  /\ mutex = Nobody

\* Faulty variant of SetResourceLimit: a negative limit is accepted.
SetAnyLimit(r, limit) ==
  /\ mutex = Nobody
  /\ resource_limits' = Put(resource_limits, r, limit)
  /\ UNCHANGED mutex

\* A negative limit is refused before the mutex is taken.
SetResourceLimit(r, limit) ==
  /\ limit >= 0
  /\ mutex = Nobody
  /\ resource_limits' = Put(resource_limits, r, limit)
  /\ UNCHANGED mutex

RemoveResource(r) ==
  /\ mutex = Nobody
  /\ resource_limits' = Drop(resource_limits, {r})
  /\ UNCHANGED mutex

\* Faulty variant of TakeLimit: the mutex is released once the limit is read.
ReadLimit(t, r) ==
  /\ mutex = Nobody
  /\ r \in Configured
  /\ UNCHANGED manager

\* GetAllocation, GetResourceInfo: the limit is found and the mutex kept.
TakeLimit(t, r) ==
  /\ mutex = Nobody
  /\ r \in Configured
  /\ mutex' = t
  /\ UNCHANGED resource_limits

\* The resource is not configured: the mutex is taken and released again.
NoLimit(r) ==
  /\ mutex = Nobody
  /\ r \notin Configured
  /\ UNCHANGED manager

Unlock ==
  /\ mutex' = Nobody
  /\ UNCHANGED resource_limits

\* What GetAllocation returns once it knows the interested clients.
FairShare(rate_limit, c, interested) ==
  IF c \in interested THEN rate_limit \div Cardinality(interested) ELSE 0

\* Faulty variant of OnClientLeft: it drops the departed client's shares under the mutex.
OnClientLeftLocking == mutex = Nobody /\ UNCHANGED manager

(***************************************************************************)
(* The listener callbacks, which the registry makes under its own mutex,   *)
(* maybe from inside GetAllocation: they take no lock and do nothing.      *)
(***************************************************************************)
OnClientLeft == UNCHANGED manager

ManagerTypeOK ==
  /\ Configured \subseteq Resource
  /\ \A r \in Configured : resource_limits[r] \in Nat
  /\ mutex \in Thread \cup {Nobody}

=============================================================================
