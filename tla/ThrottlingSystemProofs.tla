----------------------- MODULE ThrottlingSystemProofs -----------------------
(***************************************************************************)
(* What holds of the whole system, for any number of clients, resources    *)
(* and faults: calls that overlap, fail or arrive late, crashes, restarts  *)
(* and expiries included.                                                  *)
(*                                                                         *)
(* The server's tables are those of ResourceManager with a clock that      *)
(* always reads Horizon, so the facts proved of them are P's.              *)
(***************************************************************************)
EXTENDS ThrottlingSystem, FiniteSetTheorems, TLAPS

P == INSTANCE ResourceManagerProofs WITH
  now <- Horizon, Instant <- 0..Horizon,
  mutex <- "free", Nobody <- "free", Thread <- {}

RegistryInv == RegistryTypeOK /\ ReverseIndexExact

-----------------------------------------------------------------------------
(***************************************************************************)
(* The tables.                                                             *)
(***************************************************************************)
LEMMA HorizonType == Horizon \in Nat /\ Horizon' = Horizon
BY SystemAssumption DEF Horizon

LEMMA PTime == P!TimeAssumption
BY HorizonType, SystemAssumption DEF P!TimeAssumption

LEMMA PLimits == P!LimitsAssumption
BY SystemAssumption
   DEF P!LimitsAssumption, P!IsFiniteSet, IsFiniteSet, P!Cardinality, Cardinality

\* The two names of each definition of the tables mean the same.
LEMMA SameInv == RegistryInv <=> P!RegistryInv
BY DEF RegistryInv, P!RegistryInv, RegistryTypeOK, P!RegistryTypeOK,
       ReverseIndexExact, P!ReverseIndexExact, Registered, P!Registered,
       ClientInfo, P!ClientInfo, ClientsForResource, P!ClientsForResource,
       InterestedResources, P!InterestedResources

LEMMA SameInvNext == RegistryInv' <=> P!RegistryInv'
BY HorizonType
   DEF RegistryInv, P!RegistryInv, RegistryTypeOK, P!RegistryTypeOK,
       ReverseIndexExact, P!ReverseIndexExact, Registered, P!Registered,
       ClientInfo, P!ClientInfo, ClientsForResource, P!ClientsForResource,
       InterestedResources, P!InterestedResources

LEMMA RemoveClientsInv ==
  ASSUME RegistryInv, NEW gone \in SUBSET Registered, RemoveClients(gone)
  PROVE  RegistryInv'
<1>1. gone \in SUBSET P!Registered
  BY DEF Registered, P!Registered
<1>2. P!RemoveClients(gone)
  BY DEF RemoveClients, P!RemoveClients, Drop, P!Drop, IndexAfterRemoval,
         P!IndexAfterRemoval, NoEmptyEntries, P!NoEmptyEntries
<1> QED
  BY <1>1, <1>2, PTime, PLimits, HorizonType, SameInv, SameInvNext, P!RemoveClientsInv

LEMMA RegisterClientInv ==
  ASSUME RegistryInv, NEW c \in Client, RegisterClientLocked(c)
  PROVE  RegistryInv'
<1>1. P!RegisterClientLocked(c)
  BY DEF RegisterClientLocked, P!RegisterClientLocked, Put, P!Put,
         InterestedResources, P!InterestedResources, Registered, P!Registered
<1> QED
  BY <1>1, PTime, PLimits, HorizonType, SameInv, SameInvNext, P!RegisterClientInv

LEMMA HeartbeatInv ==
  ASSUME RegistryInv, NEW c \in Client, NEW R \in SUBSET Resource,
         HeartbeatLocked(c, R)
  PROVE  RegistryInv'
<1>1. P!HeartbeatLocked(c, R)
  BY DEF HeartbeatLocked, P!HeartbeatLocked, Put, P!Put, Registered, P!Registered,
         IndexAfterHeartbeat, P!IndexAfterHeartbeat, NoEmptyEntries,
         P!NoEmptyEntries, AddedResources, P!AddedResources, RemovedResources,
         P!RemovedResources, ClientsForResource, P!ClientsForResource
<1> QED
  BY <1>1, PTime, PLimits, HorizonType, SameInv, SameInvNext, P!HeartbeatInv

LEMMA UnregisterClientInv ==
  ASSUME RegistryInv, NEW c \in Client, UnregisterClientLocked(c)
  PROVE  RegistryInv'
BY RemoveClientsInv DEF UnregisterClientLocked

LEMMA RestartInv ==
  ASSUME Restart
  PROVE  RegistryInv'
BY HorizonType
   DEF Restart, RegistryInv, RegistryTypeOK, ReverseIndexExact, Registered,
       ClientsForResource, InterestedResources

LEMMA SameTablesInv ==
  ASSUME RegistryInv, UNCHANGED <<clients, resource_to_clients>>
  PROVE  RegistryInv'
BY HorizonType
   DEF RegistryInv, RegistryTypeOK, ReverseIndexExact, Registered, ClientInfo,
       ClientsForResource, InterestedResources

\* When time passes only the instants move, none past the clock.
LEMMA TickInv ==
  ASSUME RegistryInv, Tick
  PROVE  RegistryInv'
<1>1. /\ Registered' = Registered
      /\ clients' = [c \in Registered' |-> clients'[c]]
      /\ \A c \in Registered :
           clients'[c] = [clients[c] EXCEPT !.last_heartbeat_time =
                                              IF @ > 0 THEN @ - 1 ELSE 0]
      /\ resource_to_clients' = resource_to_clients
  BY DEF Tick, Registered
<1>2. ASSUME NEW c \in Registered
      PROVE  /\ clients'[c] \in ClientInfo
             /\ clients'[c].last_heartbeat_time <= Horizon
             /\ InterestedResources(c)' = InterestedResources(c)
  <2>1. clients[c] \in ClientInfo
    BY DEF RegistryInv, RegistryTypeOK
  <2>2. \A t \in 0..Horizon : (IF t > 0 THEN t - 1 ELSE 0) \in 0..Horizon
    BY HorizonType
  <2>3. clients'[c] \in ClientInfo
    BY <1>1, <2>1, <2>2 DEF ClientInfo
  <2>4. clients'[c].last_heartbeat_time \in 0..Horizon
    BY <2>3 DEF ClientInfo
  <2>5. clients'[c].interested_resources = clients[c].interested_resources
    BY <1>1, <2>1 DEF ClientInfo
  <2> QED BY <1>1, <2>3, <2>4, <2>5, HorizonType DEF InterestedResources
<1>3. RegistryTypeOK'
  BY <1>1, <1>2, HorizonType DEF RegistryInv, RegistryTypeOK, ClientInfo
<1>4. ReverseIndexExact'
  BY <1>1, <1>2 DEF RegistryInv, ReverseIndexExact, ClientsForResource
<1> QED BY <1>3, <1>4 DEF RegistryInv

-----------------------------------------------------------------------------
(***************************************************************************)
(* Shares.                                                                 *)
(***************************************************************************)
\* The clients counted for a resource are clients.
LEMMA CountedClients ==
  ASSUME RegistryTypeOK, NEW r
  PROVE  ClientsForResource(r) \in SUBSET Client
BY DEF RegistryTypeOK, ClientsForResource

\* A limit in force is one that may be set, or nothing.
LEMMA LimitType ==
  ASSUME TypeOK, NEW r
  PROVE  LimitOf(r) \in RateLimits \cup {0} /\ LimitOf(r) >= 0
BY DEF TypeOK, LimitOf

\* Whatever a handler answers is one of the shares there are.
LEMMA ShareType ==
  ASSUME NEW limit \in RateLimits \cup {0}, limit >= 0,
         NEW c, NEW interested \in SUBSET Client
  PROVE  FairShare(limit, c, interested) \in Shares
<1>1. CASE c \notin interested
  BY <1>1 DEF FairShare, Shares
<1>2. CASE c \in interested
  <2>1. Cardinality(interested) \in 1..Cardinality(Client)
    <3>1. /\ IsFiniteSet(interested)
          /\ Cardinality(interested) <= Cardinality(Client)
      BY SystemAssumption, FS_Subset
    <3>2. Cardinality(interested) \in Nat /\ Cardinality(interested) # 0
      BY <1>2, <3>1, FS_CardinalityType, FS_EmptySet
    <3> QED BY <3>1, <3>2, SystemAssumption, FS_CardinalityType
  <2>2. limit \in RateLimits => limit \div Cardinality(interested) \in Shares
    BY <2>1 DEF Shares
  <2>3. 0 \div Cardinality(interested) = 0
    <3>1. \A n \in Nat \ {0} : 0 \div n = 0
      OBVIOUS
    <3> QED BY <2>1, <3>1, SystemAssumption, FS_CardinalityType
  <2>4. 0 \in Shares
    BY DEF Shares
  <2> QED BY <1>2, <2>2, <2>3, <2>4 DEF FairShare
<1> QED BY <1>1, <1>2

-----------------------------------------------------------------------------
(***************************************************************************)
(* Types.                                                                  *)
(***************************************************************************)
LEMMA NoCallType == NoRates \in Allocation /\ NoCall \in Call
<1>1. NoRates \in [{} -> Shares]
  BY DEF NoRates
<1>2. NoRates \in Allocation
  BY <1>1 DEF Allocation
<1> QED BY <1>2 DEF NoCall, Call

LEMMA SendType ==
  ASSUME NEW rpc \in {"RegisterClient", "UnregisterClient", "Heartbeat"},
         NEW resource_ids \in SUBSET Resource
  PROVE  /\ Send(rpc, resource_ids) \in Call
         /\ Send(rpc, resource_ids).rpc = rpc
         /\ Send(rpc, resource_ids).at = "sent"
         /\ Send(rpc, resource_ids).resource_ids = resource_ids
BY NoCallType DEF Send, Call, NoCall

\* One call changes, and no other.
LEMMA OneCallChanges ==
  ASSUME call \in [Client -> [Slot -> Call]],
         NEW c \in Client, NEW s \in Slot, NEW v \in Call, Becomes(c, s, v)
  PROVE  /\ call' \in [Client -> [Slot -> Call]]
         /\ call'[c][s] = v
         /\ \A d \in Client, q \in Slot : d # c \/ q # s => call'[d][q] = call[d][q]
BY DEF Becomes

\* What a handler leaves of the call it answers.
LEMMA AnswerChanges ==
  ASSUME call \in [Client -> [Slot -> Call]], NEW c \in Client, NEW s \in Slot,
         NEW status \in {"ok", "not_found"}, NEW allocations \in Allocation,
         Answer(c, s, status, allocations)
  PROVE  /\ call' \in [Client -> [Slot -> Call]]
         /\ s = "lost" => call'[c][s] = NoCall
         /\ s # "lost" => /\ call'[c][s].rpc = call[c][s].rpc
                          /\ call'[c][s].at = status
         /\ \A d \in Client, q \in Slot : d # c \/ q # s => call'[d][q] = call[d][q]
<1> DEFINE reply == [NoCall EXCEPT !.rpc = call[c][s].rpc, !.at = status,
                                   !.allocations = allocations]
           v == IF s = "lost" THEN NoCall ELSE reply
<1>1. reply \in Call /\ reply.rpc = call[c][s].rpc /\ reply.at = status
  <2>1. call[c][s] \in Call
    OBVIOUS
  <2> QED BY <2>1, NoCallType DEF Call, NoCall
<1>2. v \in Call
  BY <1>1, NoCallType
<1>3. Becomes(c, s, v)
  BY DEF Answer
<1> HIDE DEF v, reply
<1>4. /\ call' \in [Client -> [Slot -> Call]]
      /\ call'[c][s] = v
      /\ \A d \in Client, q \in Slot : d # c \/ q # s => call'[d][q] = call[d][q]
  BY <1>2, <1>3, OneCallChanges
<1> QED BY <1>1, <1>4 DEF v

\* What a failed call leaves: its slot is free, and of its request perhaps a copy.
LEMMA FailureChanges ==
  ASSUME call \in [Client -> [Slot -> Call]], NEW c \in Client, NEW s \in Slot,
         CallFails(c, s)
  PROVE  /\ call' \in [Client -> [Slot -> Call]]
         /\ s # "lost" /\ call'[c][s] = NoCall
         /\ \/ call'[c]["lost"] = call[c]["lost"]
            \/ call'[c]["lost"] = call[c][s] /\ call[c][s].at = "sent"
         /\ \A d \in Client, q \in Slot :
              d # c \/ q \notin {s, "lost"} => call'[d][q] = call[d][q]
<1>1. PICK lost \in Leftover(c, {s}) :
        call' = [call EXCEPT ![c][s] = NoCall, ![c]["lost"] = lost]
  BY DEF CallFails
<1>2. /\ lost \in Call
      /\ \/ lost = call[c]["lost"]
         \/ lost = call[c][s] /\ call[c][s].at = "sent"
  BY DEF Leftover, Slot
<1>3. s # "lost"
  BY DEF CallFails
<1>4. "lost" \in Slot
  BY DEF Slot
<1> QED BY <1>1, <1>2, <1>3, <1>4, NoCallType

LEMMA CrashChanges ==
  ASSUME call \in [Client -> [Slot -> Call]], NEW c \in Client, Crash(c)
  PROVE  /\ call' \in [Client -> [Slot -> Call]]
         /\ \A s \in Slot \ {"lost"} : call'[c][s] = NoCall
         /\ \/ call'[c]["lost"] = call[c]["lost"]
            \/ \E s \in Slot \ {"lost"} :
                 call'[c]["lost"] = call[c][s] /\ call[c][s].at = "sent"
         /\ \A d \in Client \ {c} : call'[d] = call[d]
<1>1. PICK lost \in Leftover(c, {"app", "heartbeat"}) :
        call' = [call EXCEPT ![c] = [s \in Slot |-> IF s = "lost" THEN lost ELSE NoCall]]
  BY DEF Crash
<1>2. /\ lost \in Call
      /\ \/ lost = call[c]["lost"]
         \/ \E s \in Slot \ {"lost"} : lost = call[c][s] /\ call[c][s].at = "sent"
  BY DEF Leftover, Slot
<1>3. "lost" \in Slot
  BY DEF Slot
<1> QED BY <1>1, <1>2, <1>3, NoCallType

\* Heartbeats missed and the wait for the next one, as ticks.
LEMMA WaitType ==
  ASSUME NEW m \in Nat, NEW w \in Nat
  PROVE  m * Interval + w \in Nat
<1>1. \A i \in Nat : m * i + w \in Nat
  OBVIOUS
<1> QED BY <1>1, SystemAssumption

LEMMA EnoughType == Enough \in Nat /\ Enough > 0
<1>1. MaxFaults + 1 \in Nat
  BY SystemAssumption
<1>2. (MaxFaults + 1) * Interval + 1 \in Nat
  BY <1>1, WaitType
<1>3. \A m, i \in Nat : (m + 1) * i + 1 > 0
  OBVIOUS
<1> QED BY <1>2, <1>3, SystemAssumption DEF Enough

LEMMA InitTypes == Init => TypeOK /\ RegistryInv
<1> SUFFICES ASSUME Init PROVE TypeOK /\ RegistryInv
  OBVIOUS
<1>1. RegistryInv
  BY HorizonType
     DEF Init, RegistryInit, RegistryInv, RegistryTypeOK, ReverseIndexExact, Registered,
         ClientsForResource, InterestedResources
<1>2. Configured \subseteq Resource /\ \A r \in Configured : FALSE
  BY DEF Init, NoRates, Configured
<1> QED
  BY <1>1, <1>2, NoCallType, EnoughType, SystemAssumption DEF Init, TypeOK, RegistryInv

LEMMA RegistryStep ==
  ASSUME TypeOK, RegistryInv, [Next]_vars
  PROVE  RegistryInv'
<1>1. ASSUME UNCHANGED <<clients, resource_to_clients>> PROVE RegistryInv'
  BY <1>1, SameTablesInv
<1>2. ASSUME NEW c \in Client, NEW s \in Slot, Handler(c, s) PROVE RegistryInv'
  <2>1. CASE ExpireStaleClients(c, s)
    <3>1. ToExpire(c) \in SUBSET Registered
      BY DEF ToExpire, StaleClients
    <3> QED BY <2>1, <3>1, RemoveClientsInv DEF ExpireStaleClients
  <2>2. CASE RegisterClient(c, s)
    BY <2>2, RegisterClientInv DEF RegisterClient
  <2>3. CASE UnregisterClient(c, s)
    BY <2>3, UnregisterClientInv DEF UnregisterClient
  <2>4. CASE Heartbeat(c, s)
    <3>1. call[c][s].resource_ids \in SUBSET Resource
      BY DEF TypeOK, Call
    <3> QED BY <2>4, <3>1, HeartbeatInv DEF Heartbeat
  <2>5. CASE HeartbeatRefused(c, s)
    BY <1>1, <2>5 DEF HeartbeatRefused
  <2> QED BY <1>2, <2>1, <2>2, <2>3, <2>4, <2>5 DEF Handler
<1>3. ASSUME NEW c \in Client, NEW s \in Slot, CallFails(c, s) PROVE RegistryInv'
  BY <1>1, <1>3 DEF CallFails, server
<1>4. ASSUME NEW c \in Client, AppThread(c) \/ HeartbeatThread(c) PROVE RegistryInv'
  BY <1>1, <1>4
     DEF AppThread, HeartbeatThread, HeartbeatReturns, Started, UpdateTokenBuckets,
         HeartbeatNotFound, Unregister, Stopped, SendHeartbeat, server
<1>5. ASSUME NEW c \in Client,
             \/ Start(c) \/ Stop(c) \/ Crash(c)
             \/ \E resource_ids \in Interests : SetResourceInterests(c, resource_ids)
      PROVE  RegistryInv'
  BY <1>1, <1>5 DEF Start, Stop, Crash, SetResourceInterests, server
<1>6. ASSUME NEW r \in Resource, NEW limit \in RateLimits, SetLimit(r, limit)
      PROVE  RegistryInv'
  BY <1>1, <1>6 DEF SetLimit
<1>7. CASE Restart
  BY <1>7, RestartInv
<1>8. CASE Tick
  BY <1>8, TickInv
<1>9. CASE UNCHANGED vars
  BY <1>1, <1>9 DEF vars, server
<1> QED
  BY <1>2, <1>3, <1>4, <1>5, <1>6, <1>7, <1>8, <1>9 DEF Next

\* The part of TypeOK that is not about the registry.
LimitsOK == /\ Configured \subseteq Resource
            /\ \A r \in Configured : resource_limits[r] \in RateLimits /\ resource_limits[r] >= 0

LibraryOK == /\ running \in [Client -> BOOLEAN]
             /\ interests \in [Client -> SUBSET Resource]
             /\ rates \in [Client -> Allocation]

CountsOK == /\ waited \in [Client -> 0..Interval]
            /\ faults \in 0..MaxFaults
            /\ missed \in [Client -> 0..faults]

CallsOK == call \in [Client -> [Slot -> Call]]

SteadyOK == steady \in 0..Enough

LEMMA TypeParts ==
  TypeOK <=> RegistryTypeOK /\ LimitsOK /\ LibraryOK /\ CountsOK /\ CallsOK /\ SteadyOK
BY DEF TypeOK, LimitsOK, LibraryOK, CountsOK, CallsOK, SteadyOK

(***************************************************************************)
(* A step makes some share new, or leaves every share as it is; only time  *)
(* makes shares older.                                                     *)
(***************************************************************************)
SharesKept ==
  UNCHANGED <<resource_limits, resource_to_clients, Registered, steady>>

LEMMA SharesStep ==
  ASSUME [Next]_vars, ~ Tick
  PROVE  steady' = 0 \/ SharesKept
<1>1. ASSUME CountSteady PROVE steady' = 0 \/ SharesKept
  BY <1>1 DEF CountSteady, SharesKept
<1>2. ASSUME NEW c \in Client, NEW s \in Slot, Handler(c, s)
      PROVE  CountSteady \/ HeartbeatRefused(c, s)
  BY <1>2 DEF Handler, ExpireStaleClients, RegisterClient, UnregisterClient, Heartbeat
<1>3. ASSUME NEW c \in Client, NEW s \in Slot, HeartbeatRefused(c, s) PROVE SharesKept
  BY <1>3 DEF HeartbeatRefused, Handle, Registered, SharesKept
<1>4. ASSUME UNCHANGED server PROVE SharesKept
  BY <1>4 DEF server, Registered, SharesKept
<1>5. ASSUME NEW c \in Client,
             \/ \E s \in Slot : CallFails(c, s)
             \/ AppThread(c) \/ HeartbeatThread(c)
             \/ Start(c) \/ Stop(c) \/ Crash(c)
             \/ \E R \in Interests : SetResourceInterests(c, R)
      PROVE  UNCHANGED server
  BY <1>5
     DEF CallFails, AppThread, HeartbeatThread, HeartbeatReturns, Started,
         UpdateTokenBuckets, HeartbeatNotFound, Unregister, Stopped, SendHeartbeat, Start,
         Stop, Crash, SetResourceInterests
<1>6. ASSUME Restart \/ \E r \in Resource, limit \in RateLimits : SetLimit(r, limit)
      PROVE  CountSteady
  BY <1>6 DEF Restart, SetLimit
<1>7. CASE UNCHANGED vars
  BY <1>4, <1>7 DEF vars
<1> QED BY <1>1, <1>2, <1>3, <1>4, <1>5, <1>6, <1>7 DEF Next

LEMMA SteadyStep ==
  ASSUME SteadyOK, [Next]_vars
  PROVE  SteadyOK'
<1>1. CASE Tick
  BY <1>1, EnoughType DEF Tick, SteadyOK
<1>2. CASE ~ Tick
  BY <1>2, EnoughType, SharesStep DEF SharesKept, SteadyOK
<1> QED BY <1>1, <1>2

LEMMA LimitsStep ==
  ASSUME LimitsOK, [Next]_vars
  PROVE  LimitsOK'
<1>1. ASSUME UNCHANGED resource_limits PROVE LimitsOK'
  BY <1>1 DEF LimitsOK, Configured
<1>2. ASSUME NEW r \in Resource, NEW limit \in RateLimits, SetLimit(r, limit)
      PROVE  LimitsOK'
  BY <1>2 DEF SetLimit, SetResourceLimit, Put, LimitsOK, Configured
<1>3. CASE Restart
  BY <1>3 DEF Restart, NoRates, LimitsOK, Configured
<1>4. CASE UNCHANGED vars
  BY <1>1, <1>4 DEF vars, server
<1>5. CASE Tick
  BY <1>1, <1>5 DEF Tick
<1>6. ASSUME NEW c \in Client,
             \/ \E s \in Slot : Handler(c, s) \/ CallFails(c, s)
             \/ AppThread(c) \/ HeartbeatThread(c)
             \/ Start(c) \/ Stop(c) \/ Crash(c)
             \/ \E resource_ids \in Interests : SetResourceInterests(c, resource_ids)
      PROVE  UNCHANGED resource_limits
  BY <1>6
     DEF Handler, ExpireStaleClients, RegisterClient, UnregisterClient, Heartbeat,
         HeartbeatRefused, Handle, CallFails, AppThread, HeartbeatThread, HeartbeatReturns,
         Started, UpdateTokenBuckets, HeartbeatNotFound, Unregister, Stopped, SendHeartbeat,
         Start, Stop, Crash, SetResourceInterests, server
<1> QED
  BY <1>1, <1>2, <1>3, <1>4, <1>5, <1>6 DEF Next

LEMMA LibraryStep ==
  ASSUME LibraryOK, CallsOK, [Next]_vars
  PROVE  LibraryOK'
<1>1. ASSUME UNCHANGED library PROVE LibraryOK'
  BY <1>1 DEF LibraryOK, library
<1>2. ASSUME NEW c \in Client, NEW s \in Slot, Handler(c, s) PROVE UNCHANGED library
  BY <1>2 DEF Handler, ExpireStaleClients, RegisterClient, UnregisterClient, Heartbeat,
         HeartbeatRefused, Handle
<1>3. ASSUME NEW c \in Client, NEW s \in Slot, CallFails(c, s) PROVE LibraryOK'
  BY <1>3, NoCallType DEF CallFails, LibraryOK
<1>4. ASSUME NEW c \in Client, NEW s \in Slot, UpdateTokenBuckets(c, s) PROVE LibraryOK'
  BY <1>4 DEF UpdateTokenBuckets, LibraryOK, CallsOK, Call
<1>5. ASSUME NEW c \in Client, NEW s \in Slot, HeartbeatNotFound(c, s) PROVE UNCHANGED library
  BY <1>5 DEF HeartbeatNotFound
<1>6. ASSUME NEW c \in Client,
             Started(c) \/ Unregister(c) \/ Stopped(c) \/ SendHeartbeat(c)
      PROVE  LibraryOK'
  BY <1>6, NoCallType
     DEF Started, Unregister, Stopped, SendHeartbeat, LibraryOK, library
<1>7. ASSUME NEW c \in Client, Start(c) \/ Stop(c) \/ Crash(c) PROVE LibraryOK'
  BY <1>7, NoCallType DEF Start, Stop, Crash, LibraryOK, library
<1>8. ASSUME NEW c \in Client, NEW R \in Interests, SetResourceInterests(c, R)
      PROVE  LibraryOK'
  BY <1>8, SystemAssumption DEF SetResourceInterests, LibraryOK
<1>9. ASSUME \/ \E r \in Resource, limit \in RateLimits : SetLimit(r, limit)
             \/ Restart \/ Tick \/ UNCHANGED vars
      PROVE  UNCHANGED library
  BY <1>9 DEF SetLimit, Restart, Tick, vars
<1>10. "app" \in Slot /\ "heartbeat" \in Slot
  BY DEF Slot
<1> QED
  BY <1>1, <1>2, <1>3, <1>4, <1>5, <1>6, <1>7, <1>8, <1>9, <1>10
     DEF Next, AppThread, HeartbeatThread, HeartbeatReturns

LEMMA CountsStep ==
  ASSUME CountsOK, [Next]_vars
  PROVE  CountsOK'
<1>1. ASSUME UNCHANGED <<waited, missed, faults>> PROVE CountsOK'
  BY <1>1 DEF CountsOK
<1>2. 0 \in 0..Interval /\ Interval \in Nat /\ MaxFaults \in Nat
  BY SystemAssumption
<1>3. ASSUME NEW c \in Client, NEW s \in Slot, HeartbeatReturns(c, s) PROVE CountsOK'
  BY <1>2, <1>3
     DEF HeartbeatReturns, UpdateTokenBuckets, HeartbeatNotFound, Done, CountsOK
<1>4. ASSUME Fault, waited' \in [Client -> 0..Interval],
             \A d \in Client : missed'[d] = missed[d] \/ missed'[d] = missed[d] + 1,
             missed' = [d \in Client |-> missed'[d]]
      PROVE  CountsOK'
  <2>1. faults' \in 0..MaxFaults /\ faults' = faults + 1 /\ faults \in Nat
    BY <1>2, <1>4 DEF Fault, CountsOK
  <2>2. \A d \in Client : missed'[d] \in 0..faults'
    <3>1. \A d \in Client : missed[d] \in 0..faults
      BY DEF CountsOK
    <3> QED BY <1>4, <2>1, <3>1
  <2> QED BY <1>4, <2>1, <2>2 DEF CountsOK
<1>5. ASSUME NEW c \in Client, NEW s \in Slot, CallFails(c, s) PROVE CountsOK'
  <2>1. /\ Fault /\ waited' \in [Client -> 0..Interval]
        /\ \A d \in Client : missed'[d] = missed[d] \/ missed'[d] = missed[d] + 1
        /\ missed' = [d \in Client |-> missed'[d]]
    BY <1>2, <1>5 DEF CallFails, CountsOK
  <2> QED BY <1>4, <2>1
<1>6. ASSUME Restart \/ \E c \in Client : Crash(c) PROVE CountsOK'
  <2>1. Fault /\ UNCHANGED <<waited, missed>>
    BY <1>6 DEF Restart, Crash
  <2> QED BY <1>4, <2>1 DEF CountsOK
<1>7. CASE Tick
  <2>1. \A d \in Client : waited'[d] \in 0..Interval
    BY <1>2, <1>7 DEF Tick, CountsOK
  <2>2. waited' = [d \in Client |-> waited'[d]]
    BY <1>7 DEF Tick
  <2> QED BY <1>7, <2>1, <2>2 DEF Tick, CountsOK
<1>8. ASSUME NEW c \in Client, Started(c) PROVE CountsOK'
  BY <1>2, <1>8 DEF Started, CountsOK
<1>9. ASSUME \/ \E c \in Client :
                  \/ \E s \in Slot : Handler(c, s)
                  \/ Unregister(c) \/ Stopped(c) \/ SendHeartbeat(c)
                  \/ Start(c) \/ Stop(c)
                  \/ \E R \in Interests : SetResourceInterests(c, R)
             \/ \E r \in Resource, limit \in RateLimits : SetLimit(r, limit)
             \/ UNCHANGED vars
      PROVE  UNCHANGED <<waited, missed, faults>>
  BY <1>9
     DEF Handler, ExpireStaleClients, RegisterClient, UnregisterClient, Heartbeat,
         HeartbeatRefused, Handle, Unregister, Stopped, SendHeartbeat, Start, Stop,
         SetResourceInterests, SetLimit, vars
<1>10. "app" \in Slot /\ "heartbeat" \in Slot
  BY DEF Slot
<1> QED
  BY <1>1, <1>3, <1>5, <1>6, <1>7, <1>8, <1>9, <1>10 DEF Next, AppThread, HeartbeatThread

\* A heartbeat's answer: a share of each resource it declared.
LEMMA AllocationsType ==
  ASSUME TypeOK, RegistryInv', NEW c \in Client, NEW R \in SUBSET Resource
  PROVE  [r \in R |-> FairShare(LimitOf(r), c, ClientsForResource(r)')] \in Allocation
<1>1. ASSUME NEW r \in R
      PROVE  FairShare(LimitOf(r), c, ClientsForResource(r)') \in Shares
  <2>1. ClientsForResource(r)' \in SUBSET Client
    BY DEF RegistryInv, RegistryTypeOK, ClientsForResource
  <2> QED BY <2>1, LimitType, ShareType
<1> QED BY <1>1 DEF Allocation

\* The calls a client sets out on.
LEMMA JoiningType ==
  LET joining == [NoCall EXCEPT !.rpc = "UnregisterClient", !.at = "joining"]
  IN  joining \in Call /\ joining.rpc = "UnregisterClient" /\ joining.at = "joining"
BY NoCallType DEF Call, NoCall

LEMMA CallsStep ==
  ASSUME TypeOK, RegistryInv', [Next]_vars
  PROVE  CallsOK'
<1> CallsOK
  BY TypeParts
<1>1. "app" \in Slot /\ "heartbeat" \in Slot
  BY DEF Slot
<1>2. ASSUME NEW c \in Client, NEW s \in Slot, NEW v \in Call, Becomes(c, s, v)
      PROVE  CallsOK'
  BY <1>2, OneCallChanges DEF CallsOK
<1>3. ASSUME NEW c \in Client, NEW s \in Slot, NEW status \in {"ok", "not_found"},
             NEW allocations \in Allocation, Answer(c, s, status, allocations)
      PROVE  CallsOK'
  BY <1>3, AnswerChanges DEF CallsOK
<1>4. ASSUME NEW c \in Client, NEW s \in Slot,
             RegisterClient(c, s) \/ UnregisterClient(c, s) \/ HeartbeatRefused(c, s)
      PROVE  CallsOK'
  BY <1>3, <1>4, NoCallType DEF RegisterClient, UnregisterClient, HeartbeatRefused
<1>5. ASSUME NEW c \in Client, NEW s \in Slot, Heartbeat(c, s) PROVE CallsOK'
  <2>1. call[c][s].resource_ids \in SUBSET Resource
    BY DEF CallsOK, Call
  <2>2. [r \in call[c][s].resource_ids |->
           FairShare(LimitOf(r), c, ClientsForResource(r)')] \in Allocation
    BY <2>1, AllocationsType
  <2> QED BY <1>3, <1>5, <2>2 DEF Heartbeat
<1>6. ASSUME NEW c \in Client, NEW s \in Slot, HeartbeatReturns(c, s) PROVE CallsOK'
  BY <1>2, <1>6, NoCallType DEF HeartbeatReturns, UpdateTokenBuckets, HeartbeatNotFound, Done
<1>7. ASSUME NEW c \in Client, NEW s \in Slot, CallFails(c, s) PROVE CallsOK'
  BY <1>7, FailureChanges DEF CallsOK
<1>8. ASSUME NEW c \in Client, Crash(c) PROVE CallsOK'
  BY <1>8, CrashChanges DEF CallsOK
<1>9. ASSUME NEW c \in Client, Started(c) \/ SendHeartbeat(c) \/ Start(c) \/ Unregister(c)
      PROVE  CallsOK'
  <2>1. /\ Send("Heartbeat", interests[c]) \in Call
        /\ Send("RegisterClient", {}) \in Call
        /\ Send("UnregisterClient", {}) \in Call
    BY SendType DEF TypeOK
  <2> QED BY <1>1, <1>2, <1>9, <2>1 DEF Started, SendHeartbeat, Start, Unregister
<1>10. ASSUME NEW c \in Client, Stopped(c) \/ Stop(c) PROVE CallsOK'
  BY <1>1, <1>2, <1>10, NoCallType, JoiningType DEF Stopped, Stop
<1>11. ASSUME \/ \E c \in Client :
                   \/ \E s \in Slot : ExpireStaleClients(c, s)
                   \/ \E R \in Interests : SetResourceInterests(c, R)
              \/ \E r \in Resource, limit \in RateLimits : SetLimit(r, limit)
              \/ Restart \/ Tick \/ UNCHANGED vars
       PROVE  CallsOK'
  BY <1>11
     DEF ExpireStaleClients, SetResourceInterests, SetLimit, Restart, Tick, vars, CallsOK
<1> QED
  BY <1>1, <1>4, <1>5, <1>6, <1>7, <1>8, <1>9, <1>10, <1>11
     DEF Next, Handler, AppThread, HeartbeatThread

LEMMA TypeStep ==
  ASSUME TypeOK, RegistryInv, [Next]_vars
  PROVE  TypeOK' /\ RegistryInv'
<1>1. RegistryInv'
  BY RegistryStep
<1>2. LimitsOK' /\ LibraryOK' /\ CountsOK' /\ CallsOK' /\ SteadyOK'
  BY <1>1, TypeParts, LimitsStep, LibraryStep, CountsStep, CallsStep, SteadyStep
<1>3. TypeOK'
  BY <1>1, <1>2
     DEF TypeOK, RegistryInv, LimitsOK, LibraryOK, CountsOK, CallsOK, SteadyOK
<1> QED BY <1>1, <1>3

(***************************************************************************)
(* The tables stay well formed and the reverse index exact, limits are     *)
(* those that may be set, and every rate enforced or on its way to a       *)
(* client is a share of such a limit: answers that are late, of a server   *)
(* that restarted since, or to requests given up, are no exception.        *)
(***************************************************************************)
THEOREM TypeCorrect == Spec => [](TypeOK /\ ReverseIndexExact)
<1>1. Init => TypeOK /\ RegistryInv
  BY InitTypes
<1>2. TypeOK /\ RegistryInv /\ [Next]_vars => (TypeOK /\ RegistryInv)'
  BY TypeStep
<1>3. TypeOK /\ RegistryInv => TypeOK /\ ReverseIndexExact
  BY DEF RegistryInv
<1> QED BY <1>1, <1>2, <1>3, PTL DEF Spec

-----------------------------------------------------------------------------
(***************************************************************************)
(* Which calls a client is in.  While it runs its threads send heartbeats  *)
(* only; Stop unregisters when the heartbeat thread has ended, so that no  *)
(* heartbeat thread of an earlier run is left when the next one starts.    *)
(***************************************************************************)
Stage(c, s) == <<call[c][s].rpc, call[c][s].at>>

Idle           == <<"none", "free">>
HeartbeatStage == {<<"Heartbeat", "sent">>, <<"Heartbeat", "ok">>, <<"Heartbeat", "not_found">>}
StartStage     == {<<"RegisterClient", "sent">>, <<"RegisterClient", "ok">>}
StopStage      == {<<"UnregisterClient", "joining">>, <<"UnregisterClient", "sent">>,
                   <<"UnregisterClient", "ok">>}

RunningStages(c) ==
  /\ Stage(c, "app") \in {Idle} \cup HeartbeatStage
  /\ Stage(c, "heartbeat") \in {Idle} \cup HeartbeatStage

StoppedStages(c) ==
  /\ Stage(c, "app") \in {Idle} \cup StartStage \cup StopStage
  /\ \/ Stage(c, "heartbeat") = Idle
     \/ /\ Stage(c, "app") = <<"UnregisterClient", "joining">>
        /\ Stage(c, "heartbeat") \in HeartbeatStage

InOrder(c) == IF running[c] THEN RunningStages(c) ELSE StoppedStages(c)

CallsInOrder == \A c \in Client : InOrder(c)

LEMMA InitInOrder == Init => CallsInOrder
BY DEF Init, CallsInOrder, InOrder, StoppedStages, Stage, Idle, Slot, NoCall

\* Clients none of whose calls changes, or only a request given up.
LEMMA OthersInOrder ==
  ASSUME NEW d, InOrder(d), running'[d] = running[d],
         call'[d]["app"] = call[d]["app"], call'[d]["heartbeat"] = call[d]["heartbeat"]
  PROVE  InOrder(d)'
BY DEF InOrder, RunningStages, StoppedStages, Stage

\* One call of c changes its stage: what is left to show is about c.
LEMMA OneInOrder ==
  ASSUME CallsInOrder, CallsOK, NEW c \in Client, InOrder(c)',
         \A d \in Client \ {c} : running'[d] = running[d] /\ call'[d] = call[d]
  PROVE  CallsInOrder'
BY OthersInOrder DEF CallsInOrder, InOrder

\* A handler answers the request, whatever it is.
LEMMA AnswerInOrder ==
  ASSUME CallsInOrder, CallsOK, NEW c \in Client, NEW s \in Slot,
         call[c][s].at = "sent", NEW status \in {"ok", "not_found"},
         status = "not_found" => call[c][s].rpc = "Heartbeat",
         NEW allocations \in Allocation, Answer(c, s, status, allocations),
         UNCHANGED library
  PROVE  CallsInOrder'
<1>1. /\ s = "lost" => call'[c][s] = NoCall
      /\ s # "lost" => /\ call'[c][s].rpc = call[c][s].rpc
                       /\ call'[c][s].at = status
      /\ \A d \in Client, q \in Slot : d # c \/ q # s => call'[d][q] = call[d][q]
      /\ CallsOK'
  BY AnswerChanges DEF CallsOK
<1>2. /\ running' = running
      /\ \A d \in Client \ {c} : call'[d] = call[d]
  BY <1>1 DEF library, CallsOK
<1>3. InOrder(c)'
  <2>1. InOrder(c)
    BY DEF CallsInOrder, InOrder
  <2>2. CASE s = "lost"
    BY <1>1, <1>2, <2>1, <2>2, OthersInOrder DEF Slot
  <2>3. CASE s = "app"
    <3>1. Stage(c, "app")' = <<call[c]["app"].rpc, status>>
      BY <1>1, <2>3 DEF Stage
    <3>2. Stage(c, "heartbeat")' = Stage(c, "heartbeat")
      BY <1>1, <2>3 DEF Stage, Slot
    <3> QED
      BY <1>2, <2>1, <2>3, <3>1, <3>2
         DEF InOrder, RunningStages, StoppedStages, Stage, Idle, HeartbeatStage,
             StartStage, StopStage
  <2>4. CASE s = "heartbeat"
    <3>1. Stage(c, "heartbeat")' = <<call[c]["heartbeat"].rpc, status>>
      BY <1>1, <2>4 DEF Stage
    <3>2. Stage(c, "app")' = Stage(c, "app")
      BY <1>1, <2>4 DEF Stage, Slot
    <3> QED
      BY <1>2, <2>1, <2>4, <3>1, <3>2
         DEF InOrder, RunningStages, StoppedStages, Stage, Idle, HeartbeatStage,
             StartStage, StopStage
  <2> QED BY <2>2, <2>3, <2>4 DEF Slot
<1> QED BY <1>2, <1>3, OneInOrder

\* The app call of c moves on while the heartbeat thread is where it was.
LEMMA AppInOrder ==
  ASSUME CallsInOrder, CallsOK, NEW c \in Client, NEW v \in Call, Becomes(c, "app", v),
         running' \in [Client -> BOOLEAN],
         \A d \in Client \ {c} : running'[d] = running[d],
         LET stage == <<v.rpc, v.at>>
         IN  IF running'[c]
               THEN /\ stage \in {Idle} \cup HeartbeatStage
                    /\ Stage(c, "heartbeat") \in {Idle} \cup HeartbeatStage
               ELSE /\ stage \in {Idle} \cup StartStage \cup StopStage
                    /\ \/ Stage(c, "heartbeat") = Idle
                       \/ /\ stage = <<"UnregisterClient", "joining">>
                          /\ Stage(c, "heartbeat") \in HeartbeatStage
  PROVE  CallsInOrder'
<1>1. /\ call'[c]["app"] = v
      /\ \A d \in Client, q \in Slot : d # c \/ q # "app" => call'[d][q] = call[d][q]
      /\ CallsOK'
  BY OneCallChanges DEF CallsOK, Slot
<1>2. Stage(c, "app")' = <<v.rpc, v.at>> /\ Stage(c, "heartbeat")' = Stage(c, "heartbeat")
  BY <1>1 DEF Stage, Slot
<1>3. InOrder(c)'
  BY <1>2 DEF InOrder, RunningStages, StoppedStages
<1>4. \A d \in Client \ {c} : call'[d] = call[d]
  BY <1>1 DEF CallsOK
<1> QED BY <1>3, <1>4, OneInOrder

\* The heartbeat thread of c moves on.
LEMMA HeartbeatInOrder ==
  ASSUME CallsInOrder, CallsOK, NEW c \in Client, NEW v \in Call,
         Becomes(c, "heartbeat", v), UNCHANGED running,
         \/ <<v.rpc, v.at>> = Idle
         \/ running[c] /\ <<v.rpc, v.at>> \in HeartbeatStage
  PROVE  CallsInOrder'
<1>1. /\ call'[c]["heartbeat"] = v
      /\ \A d \in Client, q \in Slot : d # c \/ q # "heartbeat" => call'[d][q] = call[d][q]
      /\ CallsOK'
  BY OneCallChanges DEF CallsOK, Slot
<1>2. Stage(c, "heartbeat")' = <<v.rpc, v.at>> /\ Stage(c, "app")' = Stage(c, "app")
  BY <1>1 DEF Stage, Slot
<1>3. InOrder(c)'
  BY <1>2 DEF CallsInOrder, InOrder, RunningStages, StoppedStages
<1>4. \A d \in Client \ {c} : call'[d] = call[d]
  BY <1>1 DEF CallsOK
<1> QED BY <1>3, <1>4, OneInOrder

LEMMA InOrderStep ==
  ASSUME TypeOK, CallsInOrder, RegistryInv', [Next]_vars
  PROVE  CallsInOrder'
<1> CallsOK /\ LibraryOK
  BY TypeParts
<1>1. ASSUME UNCHANGED <<running, call>> PROVE CallsInOrder'
  BY <1>1, OthersInOrder DEF CallsInOrder, InOrder
<1>2. ASSUME NEW c \in Client, NEW s \in Slot, Handler(c, s) PROVE CallsInOrder'
  <2>1. CASE ExpireStaleClients(c, s)
    BY <1>1, <2>1 DEF ExpireStaleClients, library
  <2>2. CASE RegisterClient(c, s)
    BY <2>2, AnswerInOrder, NoCallType DEF RegisterClient, Handle, Is
  <2>3. CASE UnregisterClient(c, s)
    BY <2>3, AnswerInOrder, NoCallType DEF UnregisterClient, Handle, Is
  <2>4. CASE HeartbeatRefused(c, s)
    BY <2>4, AnswerInOrder, NoCallType DEF HeartbeatRefused, Handle, Is
  <2>5. CASE Heartbeat(c, s)
    <3>1. call[c][s].resource_ids \in SUBSET Resource
      BY DEF CallsOK, Call
    <3>2. [r \in call[c][s].resource_ids |->
             FairShare(LimitOf(r), c, ClientsForResource(r)')] \in Allocation
      BY <3>1, AllocationsType
    <3> QED BY <2>5, <3>2, AnswerInOrder DEF Heartbeat, Handle, Is
  <2> QED BY <1>2, <2>1, <2>2, <2>3, <2>4, <2>5 DEF Handler
<1>3. ASSUME NEW c \in Client, NEW s \in {"app", "heartbeat"}, HeartbeatReturns(c, s)
      PROVE  CallsInOrder'
  <2>1. /\ call[c][s].rpc = "Heartbeat" /\ call[c][s].at \in {"ok", "not_found"}
        /\ Becomes(c, s, NoCall) /\ running' = running
    BY <1>3
       DEF HeartbeatReturns, UpdateTokenBuckets, HeartbeatNotFound, Is, Done, library
  <2>2. NoCall \in Call /\ <<NoCall.rpc, NoCall.at>> = Idle
    BY NoCallType DEF NoCall, Idle
  <2>3. CASE s = "heartbeat"
    BY <2>1, <2>2, <2>3, HeartbeatInOrder
  <2>4. CASE s = "app"
    <3>1. running[c] /\ Stage(c, "heartbeat") \in {Idle} \cup HeartbeatStage
      BY <2>1, <2>4
         DEF CallsInOrder, InOrder, RunningStages, StoppedStages, Stage, Idle,
             StartStage, StopStage
    <3> QED BY <2>1, <2>2, <2>4, <3>1, AppInOrder DEF LibraryOK
  <2> QED BY <2>3, <2>4
<1>4. ASSUME NEW c \in Client, Started(c) PROVE CallsInOrder'
  <2> DEFINE v == Send("Heartbeat", interests[c])
  <2>1. v \in Call /\ <<v.rpc, v.at>> = <<"Heartbeat", "sent">>
    BY SendType DEF LibraryOK
  <2>2. Stage(c, "heartbeat") = Idle
    BY <1>4
       DEF Started, Is, CallsInOrder, InOrder, RunningStages, StoppedStages, Stage,
           Idle, HeartbeatStage
  <2>3. Becomes(c, "app", v) /\ running' = [running EXCEPT ![c] = TRUE]
    BY <1>4 DEF Started
  <2> HIDE DEF v
  <2> QED BY <2>1, <2>2, <2>3, AppInOrder DEF LibraryOK, HeartbeatStage
<1>5. ASSUME NEW c \in Client, SendHeartbeat(c) PROVE CallsInOrder'
  <2> DEFINE v == Send("Heartbeat", interests[c])
  <2>1. v \in Call /\ <<v.rpc, v.at>> = <<"Heartbeat", "sent">>
    BY SendType DEF LibraryOK
  <2>2. Becomes(c, "heartbeat", v) /\ running[c] /\ UNCHANGED running
    BY <1>5 DEF SendHeartbeat, library
  <2> HIDE DEF v
  <2> QED BY <2>1, <2>2, HeartbeatInOrder DEF HeartbeatStage
<1>6. ASSUME NEW c \in Client, Start(c) PROVE CallsInOrder'
  <2> DEFINE v == Send("RegisterClient", {})
  <2>1. v \in Call /\ <<v.rpc, v.at>> = <<"RegisterClient", "sent">>
    BY SendType
  <2>2. Becomes(c, "app", v) /\ ~ running[c] /\ UNCHANGED running
    BY <1>6 DEF Start, library
  <2>3. Stage(c, "heartbeat") = Idle
    BY <1>6 DEF Start, Free, CallsInOrder, InOrder, StoppedStages, Stage
  <2> HIDE DEF v
  <2> QED BY <2>1, <2>2, <2>3, AppInOrder DEF LibraryOK, StartStage
<1>7. ASSUME NEW c \in Client, Stop(c) PROVE CallsInOrder'
  <2> DEFINE v == [NoCall EXCEPT !.rpc = "UnregisterClient", !.at = "joining"]
  <2>1. v \in Call /\ <<v.rpc, v.at>> = <<"UnregisterClient", "joining">>
    BY JoiningType
  <2>2. Stage(c, "heartbeat") \in {Idle} \cup HeartbeatStage
    BY <1>7 DEF Stop, CallsInOrder, InOrder, RunningStages
  <2>3. Becomes(c, "app", v) /\ running' = [running EXCEPT ![c] = FALSE]
    BY <1>7 DEF Stop
  <2> HIDE DEF v
  <2> QED BY <2>1, <2>2, <2>3, AppInOrder DEF LibraryOK, StopStage
<1>8. ASSUME NEW c \in Client, Unregister(c) PROVE CallsInOrder'
  <2> DEFINE v == Send("UnregisterClient", {})
  <2>1. v \in Call /\ <<v.rpc, v.at>> = <<"UnregisterClient", "sent">>
    BY SendType
  <2>2. Becomes(c, "app", v) /\ UNCHANGED running
    BY <1>8 DEF Unregister, library
  <2>3. ~ running[c] /\ Stage(c, "heartbeat") = Idle
    BY <1>8
       DEF Unregister, Is, Free, CallsInOrder, InOrder, RunningStages, StoppedStages,
           Stage, Idle, HeartbeatStage
  <2> HIDE DEF v
  <2> QED BY <2>1, <2>2, <2>3, AppInOrder DEF LibraryOK, StopStage
<1>9. ASSUME NEW c \in Client, Stopped(c) PROVE CallsInOrder'
  <2>1. NoCall \in Call /\ <<NoCall.rpc, NoCall.at>> = Idle
    BY NoCallType DEF NoCall, Idle
  <2>2. ~ running[c] /\ Stage(c, "heartbeat") = Idle
    BY <1>9
       DEF Stopped, Is, CallsInOrder, InOrder, RunningStages, StoppedStages, Stage,
           Idle, HeartbeatStage
  <2>3. Becomes(c, "app", NoCall) /\ UNCHANGED running
    BY <1>9 DEF Stopped
  <2> QED BY <2>1, <2>2, <2>3, AppInOrder DEF LibraryOK
<1>10. ASSUME NEW c \in Client, NEW s \in Slot, CallFails(c, s) PROVE CallsInOrder'
  <2>1. /\ s # "lost" /\ call'[c][s] = NoCall
        /\ \A d \in Client, q \in Slot :
             d # c \/ q \notin {s, "lost"} => call'[d][q] = call[d][q]
        /\ CallsOK'
    BY <1>10, FailureChanges DEF CallsOK
  <2>2. running' = running /\ call[c][s].at # "joining"
    BY <1>10 DEF CallFails
  <2>3. Stage(c, s)' = Idle
    BY <2>1 DEF Stage, NoCall, Idle
  <2>4. \A q \in {"app", "heartbeat"} \ {s} : Stage(c, q)' = Stage(c, q)
    BY <2>1 DEF Stage, Slot
  <2>5. InOrder(c)'
    <3>1. CASE s = "app"
      <4>1. Stage(c, "app") # <<"UnregisterClient", "joining">>
        BY <2>2, <3>1 DEF Stage
      <4> QED
        BY <2>2, <2>3, <2>4, <3>1, <4>1
           DEF CallsInOrder, InOrder, RunningStages, StoppedStages
    <3>2. CASE s = "heartbeat"
      BY <2>2, <2>3, <2>4, <3>2
         DEF CallsInOrder, InOrder, RunningStages, StoppedStages
    <3> QED BY <2>1, <3>1, <3>2 DEF Slot
  <2>6. \A d \in Client \ {c} : call'[d] = call[d]
    BY <2>1 DEF CallsOK
  <2> QED BY <2>2, <2>5, <2>6, OneInOrder
<1>11. ASSUME NEW c \in Client, Crash(c) PROVE CallsInOrder'
  <2>1. /\ call'[c]["app"] = NoCall /\ call'[c]["heartbeat"] = NoCall
        /\ \A d \in Client \ {c} : call'[d] = call[d]
    BY <1>11, CrashChanges DEF CallsOK, Slot
  <2>2. running' = [running EXCEPT ![c] = FALSE]
    BY <1>11 DEF Crash
  <2>3. InOrder(c)'
    BY <2>1, <2>2 DEF LibraryOK, InOrder, StoppedStages, Stage, NoCall, Idle
  <2> QED BY <2>1, <2>2, <2>3, OneInOrder DEF LibraryOK
<1>12. ASSUME \/ \E c \in Client, R \in Interests : SetResourceInterests(c, R)
              \/ \E r \in Resource, limit \in RateLimits : SetLimit(r, limit)
              \/ Restart \/ Tick \/ UNCHANGED vars
       PROVE  UNCHANGED <<running, call>>
  BY <1>12 DEF SetResourceInterests, SetLimit, Restart, Tick, vars, library
<1> QED
  BY <1>1, <1>2, <1>3, <1>4, <1>5, <1>6, <1>7, <1>8, <1>9, <1>10, <1>11, <1>12
     DEF Next, AppThread, HeartbeatThread

-----------------------------------------------------------------------------
(***************************************************************************)
(* How old the server's knowledge of a timely client is.  The bound that   *)
(* counts, in the first conjunct, is kept by the other two: what the       *)
(* server heard in a call is still new when the call returns, because no   *)
(* time passes while a timely client is in one.                            *)
(***************************************************************************)
Heard(c) == clients[c].last_heartbeat_time

HeardOK(c) ==
  c \in Registered =>
    /\ running[c] => Horizon - Heard(c) <= missed[c] * Interval + waited[c]
    /\ running[c] /\ call[c]["heartbeat"].at \in {"ok", "not_found"} => Heard(c) = Horizon
    /\ Stage(c, "app") = <<"RegisterClient", "ok">> => Heard(c) = Horizon

HeardInTime == \A c \in Timely : HeardOK(c)

LEMMA OneMoreMissed ==
  ASSUME NEW m \in Nat, NEW w \in 0..Interval
  PROVE  m * Interval + w <= (m + 1) * Interval + 0
<1>1. \A i \in Nat, v \in Int : v <= i => m * i + v <= (m + 1) * i + 0
  OBVIOUS
<1> QED BY <1>1, SystemAssumption

\* A client the server has just heard of is fine whatever its calls are.
LEMMA JustHeard ==
  ASSUME CountsOK', NEW c \in Client, Heard(c)' = Horizon
  PROVE  HeardOK(c)'
<1>1. (missed[c] * Interval + waited[c])' \in Nat
  <2>1. missed'[c] \in Nat /\ waited'[c] \in Nat
    BY SystemAssumption DEF CountsOK
  <2> QED BY <2>1, WaitType
<1>2. (Horizon - Heard(c))' = 0
  BY HorizonType
<1> QED BY <1>1, <1>2, HorizonType DEF HeardOK

\* What a handler of d's call does to what the server knows of c.
LEMMA HandlerHears ==
  ASSUME NEW c \in Client, NEW d \in Client, NEW s \in Slot, Handler(d, s),
         c \in Registered'
  PROVE  \/ Heard(c)' = Horizon
         \/ /\ c \in Registered /\ clients'[c] = clients[c]
            /\ c # d \/ ExpireStaleClients(d, s)
<1>1. CASE ExpireStaleClients(d, s)
  BY <1>1 DEF ExpireStaleClients, RemoveClients, Drop, Registered
<1>2. CASE RegisterClient(d, s)
  BY <1>2 DEF RegisterClient, RegisterClientLocked, Put, Registered, Heard
<1>3. CASE UnregisterClient(d, s)
  BY <1>3
     DEF UnregisterClient, UnregisterClientLocked, RemoveClients, Drop, Registered
<1>4. CASE Heartbeat(d, s)
  BY <1>4 DEF Heartbeat, HeartbeatLocked, Put, Registered, Heard
<1>5. CASE HeartbeatRefused(d, s)
  BY <1>5 DEF HeartbeatRefused, Registered
<1> QED BY <1>1, <1>2, <1>3, <1>4, <1>5 DEF Handler

\* A handler touches no call of a client that is not its caller's.
LEMMA HandlerCalls ==
  ASSUME TypeOK, RegistryInv', NEW c \in Client, NEW d \in Client, NEW s \in Slot,
         Handler(d, s), c # d \/ ExpireStaleClients(d, s)
  PROVE  call'[c] = call[c] /\ UNCHANGED <<running, missed, waited>>
<1> CallsOK
  BY TypeParts
<1>1. UNCHANGED <<running, missed, waited>>
  BY DEF Handler, ExpireStaleClients, RegisterClient, UnregisterClient, Heartbeat,
         HeartbeatRefused, Handle, library
<1>2. CASE ExpireStaleClients(d, s)
  BY <1>1, <1>2 DEF ExpireStaleClients
<1>3. CASE c # d /\ ~ ExpireStaleClients(d, s)
  <2>1. \E v : Becomes(d, s, v)
    BY <1>3
       DEF Handler, RegisterClient, UnregisterClient, Heartbeat, HeartbeatRefused, Answer
  <2>2. PICK v : call' = [call EXCEPT ![d][s] = v]
    BY <2>1 DEF Becomes
  <2> QED BY <1>1, <1>3, <2>2 DEF CallsOK
<1> QED BY <1>2, <1>3

\* A client nothing of which changes that the bound is about.
LEMMA NothingHeard ==
  ASSUME NEW c, HeardOK(c), UNCHANGED clients,
         running'[c] = running[c], missed'[c] = missed[c], waited'[c] = waited[c],
         call'[c]["heartbeat"] = call[c]["heartbeat"], call'[c]["app"] = call[c]["app"]
  PROVE  HeardOK(c)'
BY HorizonType DEF HeardOK, Heard, Registered, Stage

LEMMA InitHeard == Init => HeardInTime
BY DEF Init, RegistryInit, HeardInTime, HeardOK, Registered

\* Steps of c itself, and of its timely threads.
LEMMA OwnStepHeard ==
  ASSUME TypeOK, CallsInOrder, RegistryInv', CountsOK', NEW c \in Timely, HeardOK(c),
         \/ AppThread(c) \/ HeartbeatThread(c)
         \/ Start(c) \/ Stop(c) \/ Crash(c)
         \/ \E s \in Slot : CallFails(c, s)
         \/ \E R \in Interests : SetResourceInterests(c, R)
  PROVE  HeardOK(c)'
<1> c \in Client /\ "app" \in Slot /\ "heartbeat" \in Slot
  BY SystemAssumption DEF Slot
<1> CallsOK /\ LibraryOK /\ CountsOK
  BY TypeParts
<1> UNCHANGED clients
  BY DEF AppThread, HeartbeatThread, HeartbeatReturns, Started, UpdateTokenBuckets,
         HeartbeatNotFound, Unregister, Stopped, SendHeartbeat, Start, Stop, Crash,
         CallFails, SetResourceInterests, server
<1>1. /\ Registered' = Registered /\ Heard(c)' = Heard(c)
  BY DEF Registered, Heard
<1>2. CASE Started(c)
  BY <1>1, <1>2, JustHeard DEF Started, Is, HeardOK, Stage
<1>3. ASSUME UpdateTokenBuckets(c, "app") \/ HeartbeatNotFound(c, "app") PROVE HeardOK(c)'
  <2>1. /\ Becomes(c, "app", NoCall)
        /\ UNCHANGED <<running, waited, missed>>
    BY <1>3 DEF UpdateTokenBuckets, HeartbeatNotFound, Done, library
  <2>2. Stage(c, "app")' = Idle /\ call'[c]["heartbeat"] = call[c]["heartbeat"]
    BY <2>1, NoCallType, OneCallChanges DEF CallsOK, Stage, Idle, NoCall
  <2> QED BY <1>1, <2>1, <2>2, HorizonType DEF HeardOK, Idle
<1>4. ASSUME UpdateTokenBuckets(c, "heartbeat") \/ HeartbeatNotFound(c, "heartbeat")
      PROVE  HeardOK(c)'
  <2>1. /\ Becomes(c, "heartbeat", NoCall)
        /\ call[c]["heartbeat"].at \in {"ok", "not_found"}
        /\ UNCHANGED running
    BY <1>4 DEF UpdateTokenBuckets, HeartbeatNotFound, Is, Done, library
  <2>2. Stage(c, "app")' = Stage(c, "app") /\ call'[c]["heartbeat"].at = "free"
    BY <2>1, NoCallType, OneCallChanges DEF CallsOK, Stage, NoCall
  <2>3. CASE running[c] /\ c \in Registered
    BY <1>1, <2>1, <2>3, JustHeard DEF HeardOK
  <2>4. CASE ~ (running[c] /\ c \in Registered)
    BY <1>1, <2>1, <2>2, <2>4, HorizonType DEF HeardOK
  <2> QED BY <2>3, <2>4
<1>5. CASE Unregister(c)
  <2>1. /\ Stage(c, "app")' = <<"UnregisterClient", "sent">>
        /\ call'[c]["heartbeat"] = call[c]["heartbeat"]
        /\ UNCHANGED <<running, waited, missed>>
    BY <1>5, SendType, OneCallChanges DEF Unregister, CallsOK, Stage, library
  <2> QED BY <1>1, <2>1, HorizonType DEF HeardOK
<1>6. CASE Stopped(c)
  <2>1. /\ Stage(c, "app")' = Idle
        /\ call'[c]["heartbeat"] = call[c]["heartbeat"]
        /\ UNCHANGED <<running, waited, missed>>
    BY <1>6, NoCallType, OneCallChanges DEF Stopped, CallsOK, Stage, NoCall, Idle
  <2> QED BY <1>1, <2>1, HorizonType DEF HeardOK, Idle
<1>7. CASE SendHeartbeat(c)
  <2>1. /\ Stage(c, "app")' = Stage(c, "app")
        /\ call'[c]["heartbeat"].at = "sent"
        /\ UNCHANGED <<running, waited, missed>>
    <3>1. Send("Heartbeat", interests[c]) \in Call /\ Send("Heartbeat", interests[c]).at = "sent"
      BY SendType DEF LibraryOK
    <3> QED BY <1>7, <3>1, OneCallChanges DEF SendHeartbeat, CallsOK, Stage, library
  <2> QED BY <1>1, <2>1, HorizonType DEF HeardOK
<1>8. CASE Start(c)
  <2>1. /\ Stage(c, "app")' = <<"RegisterClient", "sent">>
        /\ call'[c]["heartbeat"] = call[c]["heartbeat"]
        /\ UNCHANGED <<running, waited, missed>>
    BY <1>8, SendType, OneCallChanges DEF Start, CallsOK, Stage, library
  <2> QED BY <1>1, <2>1, HorizonType DEF HeardOK
<1>9. CASE Stop(c)
  <2> DEFINE v == [NoCall EXCEPT !.rpc = "UnregisterClient", !.at = "joining"]
  <2>1. Stage(c, "app")' = <<"UnregisterClient", "joining">> /\ ~ running'[c]
    <3>1. v \in Call /\ v.rpc = "UnregisterClient" /\ v.at = "joining"
      BY JoiningType
    <3>2. Becomes(c, "app", v) /\ ~ running'[c]
      BY <1>9 DEF Stop, LibraryOK
    <3> HIDE DEF v
    <3> QED BY <3>1, <3>2, OneCallChanges DEF CallsOK, Stage
  <2> QED BY <1>1, <2>1 DEF HeardOK
<1>10. CASE Crash(c)
  <2>1. Stage(c, "app")' = Idle /\ ~ running'[c]
    BY <1>10, CrashChanges DEF Crash, CallsOK, LibraryOK, Stage, NoCall, Idle, Slot
  <2> QED BY <1>1, <2>1 DEF HeardOK, Idle
<1>11. ASSUME NEW s \in Slot, CallFails(c, s) PROVE HeardOK(c)'
  <2>1. /\ s # "lost" /\ call'[c][s] = NoCall /\ UNCHANGED running
        /\ \A q \in Slot \ {s, "lost"} : call'[c][q] = call[c][q]
    BY <1>11, FailureChanges DEF CallsOK, CallFails
  <2>2. CASE s = "app"
    <3>1. UNCHANGED <<waited, missed>>
      BY <1>11, <2>2 DEF CallFails
    <3>2. Stage(c, "app")' = Idle /\ call'[c]["heartbeat"] = call[c]["heartbeat"]
      BY <2>1, <2>2 DEF Stage, NoCall, Idle
    <3> QED BY <1>1, <2>1, <3>1, <3>2, HorizonType DEF HeardOK, Idle
  <2>3. CASE s = "heartbeat"
    <3>1. waited'[c] = 0 /\ missed'[c] = missed[c] + 1
      BY <1>11, <2>3 DEF CallFails, CountsOK
    <3>2. call'[c]["heartbeat"].at = "free" /\ Stage(c, "app")' = Stage(c, "app")
      BY <2>1, <2>3 DEF Stage, NoCall
    <3>3. missed[c] * Interval + waited[c] <= (missed[c] + 1) * Interval + 0
      BY OneMoreMissed, SystemAssumption DEF CountsOK
    <3>4. missed[c] * Interval + waited[c] \in Nat /\ (missed[c] + 1) * Interval + 0 \in Nat
      BY WaitType, SystemAssumption DEF CountsOK
    <3>5. c \in Registered => Horizon - Heard(c) \in Int
      BY HorizonType DEF TypeOK, RegistryTypeOK, ClientInfo, Heard
    <3> DEFINE age    == Horizon - Heard(c)
               before == missed[c] * Interval + waited[c]
               after  == (missed[c] + 1) * Interval + 0
    <3>6. c \in Registered /\ running[c] => age <= after
      <4>1. c \in Registered /\ running[c] => age <= before
        BY DEF HeardOK
      <4> HIDE DEF age, before, after
      <4>2. before <= after /\ before \in Nat /\ after \in Nat
        BY <3>3, <3>4 DEF before, after
      <4>3. c \in Registered => age \in Int
        BY <3>5 DEF age
      <4> QED BY <4>1, <4>2, <4>3
    <3>7. (missed[c] * Interval + waited[c])' = after
      BY <3>1
    <3>8. (Horizon - Heard(c))' = age
      BY <1>1, HorizonType
    <3> HIDE DEF age, after
    <3> QED BY <1>1, <2>1, <3>2, <3>6, <3>7, <3>8 DEF HeardOK
  <2> QED BY <2>1, <2>2, <2>3 DEF Slot
<1>12. ASSUME NEW R \in Interests, SetResourceInterests(c, R) PROVE HeardOK(c)'
  BY <1>12, NothingHeard DEF SetResourceInterests
<1> QED
  BY <1>2, <1>3, <1>4, <1>5, <1>6, <1>7, <1>8, <1>9, <1>10, <1>11, <1>12
     DEF AppThread, HeartbeatThread, HeartbeatReturns

\* Steps of another client.
LEMMA OtherStepLibrary ==
  ASSUME TypeOK, NEW c \in Client, NEW d \in Client \ {c},
         \/ AppThread(d) \/ HeartbeatThread(d)
         \/ Start(d) \/ Stop(d) \/ Crash(d)
         \/ \E s \in Slot : CallFails(d, s)
         \/ \E R \in Interests : SetResourceInterests(d, R)
  PROVE  /\ running'[c] = running[c] /\ rates'[c] = rates[c]
         /\ missed'[c] = missed[c] /\ waited'[c] = waited[c] /\ call'[c] = call[c]
<1> CallsOK /\ LibraryOK /\ CountsOK
  BY TypeParts
<1> DEFINE Goal ==
  /\ running'[c] = running[c] /\ rates'[c] = rates[c]
  /\ missed'[c] = missed[c] /\ waited'[c] = waited[c] /\ call'[c] = call[c]
<1>1. CASE AppThread(d)
  BY <1>1
     DEF AppThread, HeartbeatReturns, Started, UpdateTokenBuckets, HeartbeatNotFound,
         Unregister, Stopped, Done, Becomes, library, LibraryOK, CountsOK, CallsOK
<1>2. CASE HeartbeatThread(d)
  BY <1>2
     DEF HeartbeatThread, HeartbeatReturns, UpdateTokenBuckets, HeartbeatNotFound,
         SendHeartbeat, Done, Becomes, library, LibraryOK, CountsOK, CallsOK
<1>3. CASE Start(d) \/ Stop(d)
  BY <1>3 DEF Start, Stop, Becomes, library, LibraryOK, CountsOK, CallsOK
<1>4. CASE Crash(d)
  BY <1>4 DEF Crash, LibraryOK, CountsOK, CallsOK
<1>5. ASSUME NEW s \in Slot, CallFails(d, s) PROVE Goal
  BY <1>5 DEF CallFails, LibraryOK, CountsOK, CallsOK
<1>6. ASSUME NEW R \in Interests, SetResourceInterests(d, R) PROVE Goal
  BY <1>6 DEF SetResourceInterests
<1> QED BY <1>1, <1>2, <1>3, <1>4, <1>5, <1>6

LEMMA OtherStepHeard ==
  ASSUME TypeOK, NEW c \in Timely, NEW d \in Client \ {c}, HeardOK(c),
         \/ AppThread(d) \/ HeartbeatThread(d)
         \/ Start(d) \/ Stop(d) \/ Crash(d)
         \/ \E s \in Slot : CallFails(d, s)
         \/ \E R \in Interests : SetResourceInterests(d, R)
  PROVE  HeardOK(c)'
<1> c \in Client
  BY SystemAssumption
<1>1. UNCHANGED clients
  BY DEF AppThread, HeartbeatThread, HeartbeatReturns, Started, UpdateTokenBuckets,
         HeartbeatNotFound, Unregister, Stopped, SendHeartbeat, Start, Stop, Crash,
         CallFails, SetResourceInterests, server
<1>2. /\ running'[c] = running[c] /\ missed'[c] = missed[c] /\ waited'[c] = waited[c]
      /\ call'[c] = call[c]
  BY OtherStepLibrary
<1> QED BY <1>1, <1>2, NothingHeard

\* A tick makes what the server knows older and the wait for the next heartbeat
\* longer, by as much; and it finds a timely client in no call.
LEMMA TickHeard ==
  ASSUME TypeOK, NEW c \in Timely, HeardOK(c), Tick
  PROVE  HeardOK(c)'
<1> c \in Client /\ "app" \in Slot /\ "heartbeat" \in Slot
  BY SystemAssumption DEF Slot
<1> SUFFICES ASSUME c \in Registered PROVE HeardOK(c)'
  BY DEF HeardOK, Tick, Registered
<1>1. /\ call' = call /\ running' = running /\ missed' = missed
      /\ call[c]["app"].at = "free" /\ call[c]["heartbeat"].at = "free"
  BY DEF Tick, Free, library
<1>2. ASSUME running[c]
      PROVE  (Horizon - Heard(c) <= missed[c] * Interval + waited[c])'
  <2> DEFINE age == Horizon - Heard(c)
             before == missed[c] * Interval
  <2>1. age \in Int /\ Heard(c) \in 0..Horizon
    BY HorizonType DEF TypeOK, RegistryTypeOK, ClientInfo, Heard
  <2>2. Heard(c)' = IF Heard(c) > 0 THEN Heard(c) - 1 ELSE 0
    BY DEF Tick, Heard, TypeOK, RegistryTypeOK, ClientInfo
  <2>3. waited'[c] = waited[c] + 1
    BY <1>2 DEF Tick
  <2>4. before \in Int /\ waited[c] \in Nat
    <3>1. missed[c] \in Nat /\ waited[c] \in Nat
      BY SystemAssumption DEF TypeOK
    <3>2. \A m, i \in Nat : m * i \in Int
      OBVIOUS
    <3> QED BY <3>1, <3>2, SystemAssumption
  <2>5. age <= before + waited[c]
    BY <1>2 DEF HeardOK
  <2>6. (Horizon - Heard(c))' <= age + 1
    BY <2>1, <2>2, HorizonType
  <2>7. (missed[c] * Interval + waited[c])' = before + (waited[c] + 1)
    BY <1>1, <2>3
  <2>8. (Horizon - Heard(c))' \in Int
    BY <2>1, <2>2, HorizonType
  <2> DEFINE aged == (Horizon - Heard(c))'
  <2>9. aged <= before + (waited[c] + 1)
    <3>1. aged <= age + 1 /\ aged \in Int
      BY <2>6, <2>8
    <3> HIDE DEF age, before, aged
    <3> QED BY <2>1, <2>4, <2>5, <3>1
  <2> QED BY <2>7, <2>9
<1> QED BY <1>1, <1>2 DEF HeardOK, Stage

LEMMA HeardStep ==
  ASSUME TypeOK, RegistryInv, CallsInOrder, HeardInTime, [Next]_vars
  PROVE  HeardInTime'
<1>1. TypeOK' /\ RegistryInv' /\ CountsOK'
  BY TypeStep DEF TypeOK, CountsOK
<1> SUFFICES ASSUME NEW c \in Timely PROVE HeardOK(c)'
  BY DEF HeardInTime
<1> c \in Client /\ HeardOK(c)
  BY SystemAssumption DEF HeardInTime
<1>2. ASSUME NEW d \in Client, NEW s \in Slot, Handler(d, s) PROVE HeardOK(c)'
  <2>1. CASE c \notin Registered'
    BY <2>1 DEF HeardOK
  <2>2. CASE c \in Registered' /\ Heard(c)' = Horizon
    BY <1>1, <2>2, JustHeard
  <2>3. CASE /\ c \in Registered /\ clients'[c] = clients[c]
             /\ c # d \/ ExpireStaleClients(d, s)
    <3>1. call'[c] = call[c] /\ UNCHANGED <<running, missed, waited>>
      BY <1>1, <1>2, <2>3, HandlerCalls
    <3> QED BY <2>3, <3>1, HorizonType DEF HeardOK, Heard, Stage
  <2> QED BY <1>2, <2>1, <2>2, <2>3, HandlerHears
<1>3. ASSUME NEW d \in Client,
             \/ AppThread(d) \/ HeartbeatThread(d)
             \/ Start(d) \/ Stop(d) \/ Crash(d)
             \/ \E s \in Slot : CallFails(d, s)
             \/ \E R \in Interests : SetResourceInterests(d, R)
      PROVE  HeardOK(c)'
  <2>1. CASE d = c
    BY <1>1, <1>3, <2>1, OwnStepHeard
  <2>2. CASE d # c
    BY <1>3, <2>2, OtherStepHeard
  <2> QED BY <2>1, <2>2
<1>4. ASSUME \/ \E r \in Resource, limit \in RateLimits : SetLimit(r, limit)
             \/ UNCHANGED vars
      PROVE  HeardOK(c)'
  <2>1. UNCHANGED <<clients, running, missed, waited, call>>
    BY <1>4 DEF SetLimit, library, vars, server
  <2> QED BY <2>1, NothingHeard
<1>5. CASE Restart
  BY <1>5 DEF Restart, HeardOK, Registered
<1>6. CASE Tick
  BY <1>6, TickHeard
<1> QED BY <1>2, <1>3, <1>4, <1>5, <1>6 DEF Next

-----------------------------------------------------------------------------
(***************************************************************************)
(* How old the rates of a timely client are.  A rate that is no share any  *)
(* more cannot outlive the wait for the next heartbeat, because:           *)
(*   - an answer in a timely client's hands was made since time last       *)
(*     passed, so it is still right unless a share changed since;          *)
(*   - a refused heartbeat means that the client is not registered, or     *)
(*     that a share changed since;                                         *)
(*   - a client that starts has no rates of an earlier run.                *)
(***************************************************************************)
InForce(c, f) ==
  \A r \in DOMAIN f : f[r] = FairShare(LimitOf(r), c, ClientsForResource(r))

Wait(c) == missed[c] * Interval + waited[c]

Thread == {"app", "heartbeat"}

Cleared(c) ==
  ~ running[c] /\ call[c]["app"].rpc # "UnregisterClient" => rates[c] = NoRates

AnswersInForce(c) ==
  /\ \A s \in Thread : Stage(c, s) = <<"Heartbeat", "ok">> /\ steady > 0 =>
                         InForce(c, call[c][s].allocations)
  /\ Stage(c, "heartbeat") = <<"Heartbeat", "not_found">> /\ steady > 0 =>
       c \notin Registered

RatesInForce(c) ==
  c \in Registered /\ Wait(c) < steady => InForce(c, rates[c])

RatesFresh ==
  \A c \in Timely : Cleared(c) /\ AnswersInForce(c) /\ RatesInForce(c)

LEMMA InitFresh == Init => RatesFresh
<1> SUFFICES ASSUME Init, NEW c \in Timely
             PROVE  Cleared(c) /\ AnswersInForce(c) /\ RatesInForce(c)
  BY DEF RatesFresh
<1>1. c \in Client /\ rates[c] = NoRates /\ steady = 0
  BY SystemAssumption DEF Init
<1>2. \A r \in DOMAIN NoRates : FALSE
  BY DEF NoRates
<1> QED BY <1>1, <1>2 DEF Cleared, AnswersInForce, RatesInForce, InForce

\* Shares that are kept are the shares they were.
LEMMA SameShares ==
  ASSUME UNCHANGED <<resource_limits, resource_to_clients>>, NEW c, NEW r
  PROVE  FairShare(LimitOf(r), c, ClientsForResource(r))'
           = FairShare(LimitOf(r), c, ClientsForResource(r))
BY DEF LimitOf, Configured, ClientsForResource

LEMMA NothingInForce == \A c : InForce(c, NoRates)
BY DEF InForce, NoRates

LEMMA WaitIsNat ==
  ASSUME CountsOK, NEW c \in Client
  PROVE  Wait(c) \in Nat
<1>1. missed[c] \in Nat /\ waited[c] \in Nat
  BY SystemAssumption DEF CountsOK
<1> QED BY <1>1, WaitType DEF Wait

LEMMA WaitIsNatNext ==
  ASSUME CountsOK', NEW c \in Client
  PROVE  Wait(c)' \in Nat
<1>1. missed'[c] \in Nat /\ waited'[c] \in Nat
  BY SystemAssumption DEF CountsOK
<1> QED BY <1>1, WaitType DEF Wait

(***************************************************************************)
(* A client's buckets are set by its own calls, and gone with its run.     *)
(***************************************************************************)
\* What a step of c itself does to its rates and its wait.
LEMMA OwnStepRates ==
  ASSUME TypeOK, CallsInOrder, NEW c \in Timely, Cleared(c),
         \/ AppThread(c) \/ HeartbeatThread(c)
         \/ Start(c) \/ Stop(c) \/ Crash(c)
         \/ \E s \in Slot : CallFails(c, s)
         \/ \E R \in Interests : SetResourceInterests(c, R)
  PROVE  /\ Cleared(c)'
         /\ \/ rates'[c] = NoRates
            \/ \E s \in Thread : /\ Stage(c, s) = <<"Heartbeat", "ok">>
                                 /\ rates'[c] = call[c][s].allocations
            \/ rates'[c] = rates[c] /\ HeartbeatNotFound(c, "heartbeat")
            \/ rates'[c] = rates[c] /\ Wait(c)' >= Wait(c)
<1> DEFINE Goal ==
  /\ Cleared(c)'
  /\ \/ rates'[c] = NoRates
     \/ \E s \in Thread : /\ Stage(c, s) = <<"Heartbeat", "ok">>
                          /\ rates'[c] = call[c][s].allocations
     \/ rates'[c] = rates[c] /\ HeartbeatNotFound(c, "heartbeat")
     \/ rates'[c] = rates[c] /\ Wait(c)' >= Wait(c)
<1> c \in Client /\ "app" \in Slot /\ "heartbeat" \in Slot
  BY SystemAssumption DEF Slot
<1> CallsOK /\ LibraryOK /\ CountsOK
  BY TypeParts
<1> InOrder(c)
  BY DEF CallsInOrder
<1>1. Wait(c) >= Wait(c)
  BY WaitIsNat
<1>2. ASSUME UNCHANGED <<waited, missed>> PROVE Wait(c)' >= Wait(c)
  BY <1>1, <1>2 DEF Wait
<1>3. CASE Started(c)
  <2>1. rates[c] = NoRates
    BY <1>3
       DEF Started, Is, Cleared, InOrder, RunningStages, Stage, Idle, HeartbeatStage
  <2>2. rates' = rates /\ running'[c]
    BY <1>3 DEF Started, LibraryOK
  <2> QED BY <2>1, <2>2 DEF Cleared
<1>4. ASSUME NEW s \in Thread, UpdateTokenBuckets(c, s) PROVE Goal
  <2>1. /\ Stage(c, s) = <<"Heartbeat", "ok">>
        /\ rates'[c] = call[c][s].allocations
        /\ Becomes(c, s, NoCall) /\ running' = running
    BY <1>4 DEF UpdateTokenBuckets, Is, Stage, Done, LibraryOK
  <2>2. Cleared(c)'
    <3>1. CASE running[c]
      BY <2>1, <3>1 DEF Cleared
    <3>2. CASE ~ running[c]
      <4>1. s = "heartbeat" /\ Stage(c, "app") = <<"UnregisterClient", "joining">>
        BY <2>1, <3>2
           DEF Thread, InOrder, StoppedStages, Stage, Idle, StartStage, StopStage
      <4>2. call'[c]["app"] = call[c]["app"]
        BY <2>1, <4>1, NoCallType, OneCallChanges DEF CallsOK
      <4> QED BY <4>1, <4>2 DEF Cleared, Stage
    <3> QED BY <3>1, <3>2
  <2> QED BY <2>1, <2>2
<1>5. ASSUME NEW s \in Thread, HeartbeatNotFound(c, s) PROVE Goal
  <2>1. /\ call[c][s].rpc = "Heartbeat"
        /\ Becomes(c, s, NoCall) /\ running' = running /\ rates' = rates
    BY <1>5 DEF HeartbeatNotFound, Is, Done, library
  <2>2. Cleared(c)'
    <3>1. CASE s = "heartbeat"
      <4>1. call'[c]["app"] = call[c]["app"]
        BY <2>1, <3>1, NoCallType, OneCallChanges DEF CallsOK
      <4> QED BY <2>1, <4>1 DEF Cleared
    <3>2. CASE s = "app"
      <4>1. running[c]
        BY <2>1, <3>2
           DEF InOrder, StoppedStages, Stage, Idle, StartStage, StopStage
      <4> QED BY <2>1, <4>1 DEF Cleared
    <3> QED BY <3>1, <3>2 DEF Thread
  <2>3. s = "app" => Wait(c)' >= Wait(c)
    BY <1>2, <1>5 DEF HeartbeatNotFound, Done
  <2> QED BY <1>5, <2>1, <2>2, <2>3 DEF Thread
<1>6. CASE Unregister(c)
  <2>1. /\ call'[c]["app"].rpc = "UnregisterClient"
        /\ UNCHANGED <<rates, waited, missed>>
    BY <1>6, SendType, OneCallChanges DEF Unregister, CallsOK, library
  <2> QED BY <1>2, <2>1 DEF Cleared
<1>7. CASE Stopped(c)
  <2>1. rates'[c] = NoRates
    BY <1>7 DEF Stopped, LibraryOK
  <2> QED BY <2>1 DEF Cleared
<1>8. CASE SendHeartbeat(c)
  <2>1. running[c] /\ UNCHANGED <<running, rates, waited, missed>>
    BY <1>8 DEF SendHeartbeat, library
  <2> QED BY <1>2, <2>1 DEF Cleared
<1>9. CASE Start(c)
  <2>1. /\ ~ running[c] /\ Stage(c, "app") = Idle
        /\ UNCHANGED <<running, rates, waited, missed>>
    BY <1>9
       DEF Start, Free, library, InOrder, StoppedStages, Stage, Idle, StartStage, StopStage
  <2>2. rates'[c] = NoRates
    BY <2>1 DEF Cleared, Stage, Idle
  <2> QED BY <2>2 DEF Cleared
<1>10. CASE Stop(c)
  <2> DEFINE v == [NoCall EXCEPT !.rpc = "UnregisterClient", !.at = "joining"]
  <2>1. v \in Call /\ v.rpc = "UnregisterClient"
    BY JoiningType
  <2>2. Becomes(c, "app", v) /\ UNCHANGED <<rates, waited, missed>>
    BY <1>10 DEF Stop
  <2> HIDE DEF v
  <2>3. call'[c]["app"].rpc = "UnregisterClient"
    BY <2>1, <2>2, OneCallChanges DEF CallsOK
  <2> QED BY <1>2, <2>2, <2>3 DEF Cleared
<1>11. CASE Crash(c)
  <2>1. rates'[c] = NoRates
    BY <1>11 DEF Crash, LibraryOK
  <2> QED BY <2>1 DEF Cleared
<1>12. ASSUME NEW s \in Slot, CallFails(c, s) PROVE Goal
  <2>1. CASE call[c][s].rpc = "UnregisterClient"
    <3>1. rates'[c] = NoRates
      BY <1>12, <2>1 DEF CallFails, LibraryOK
    <3> QED BY <3>1 DEF Cleared
  <2>2. CASE call[c][s].rpc # "UnregisterClient"
    <3>1. rates' = rates /\ running' = running /\ s # "lost"
      BY <1>12, <2>2 DEF CallFails
    <3>2. /\ call'[c][s] = NoCall
          /\ s = "heartbeat" => call'[c]["app"] = call[c]["app"]
      BY <1>12, <3>1, FailureChanges DEF CallsOK
    <3>3. Cleared(c)'
      BY <2>2, <3>1, <3>2 DEF Cleared, Slot
    <3>4. Wait(c)' >= Wait(c)
      <4>1. CASE s = "heartbeat"
        <5>1. Wait(c)' = (missed[c] + 1) * Interval + 0
          BY <1>12, <4>1 DEF CallFails, CountsOK, Wait
        <5>2. missed[c] \in Nat /\ waited[c] \in 0..Interval
          BY SystemAssumption DEF CountsOK
        <5>3. Wait(c) <= (missed[c] + 1) * Interval + 0
          BY <5>2, OneMoreMissed DEF Wait
        <5>4. (missed[c] + 1) * Interval + 0 \in Nat
          <6>1. missed[c] + 1 \in Nat
            BY <5>2
          <6> QED BY <6>1, WaitType
        <5> QED BY <5>1, <5>3, <5>4, WaitIsNat
      <4>2. CASE s # "heartbeat"
        BY <1>2, <1>12, <4>2 DEF CallFails
      <4> QED BY <4>1, <4>2
    <3> QED BY <3>1, <3>3, <3>4
  <2> QED BY <2>1, <2>2
<1>13. ASSUME NEW R \in Interests, SetResourceInterests(c, R) PROVE Goal
  BY <1>2, <1>13 DEF SetResourceInterests, Cleared
<1> QED
  BY <1>3, <1>4, <1>5, <1>6, <1>7, <1>8, <1>9, <1>10, <1>11, <1>12, <1>13
     DEF AppThread, HeartbeatThread, HeartbeatReturns, Thread

\* What a step that is not c's does to them: nothing, unless it is a tick.
LEMMA OtherStepRates ==
  ASSUME TypeOK, RegistryInv', NEW c \in Timely, Cleared(c), ~ Tick,
         \/ \E d \in Client, s \in Slot : Handler(d, s)
         \/ \E d \in Client \ {c} :
              \/ AppThread(d) \/ HeartbeatThread(d)
              \/ Start(d) \/ Stop(d) \/ Crash(d)
              \/ \E s \in Slot : CallFails(d, s)
              \/ \E R \in Interests : SetResourceInterests(d, R)
         \/ \E r \in Resource, limit \in RateLimits : SetLimit(r, limit)
         \/ Restart
         \/ UNCHANGED vars
  PROVE  Cleared(c)' /\ rates'[c] = rates[c] /\ Wait(c)' = Wait(c)
<1> c \in Client
  BY SystemAssumption
<1> CallsOK /\ LibraryOK /\ CountsOK
  BY TypeParts
<1> DEFINE Goal == Cleared(c)' /\ rates'[c] = rates[c] /\ Wait(c)' = Wait(c)
<1>1. ASSUME running'[c] = running[c], rates'[c] = rates[c], missed'[c] = missed[c],
             waited'[c] = waited[c], call'[c]["app"].rpc = call[c]["app"].rpc
      PROVE  Goal
  BY <1>1 DEF Cleared, Wait
<1>2. ASSUME NEW d \in Client, NEW s \in Slot, Handler(d, s) PROVE Goal
  <2>1. UNCHANGED <<running, rates, missed, waited>>
    BY <1>2
       DEF Handler, ExpireStaleClients, RegisterClient, UnregisterClient, Heartbeat,
           HeartbeatRefused, Handle, library
  <2>2. call'[c]["app"].rpc = call[c]["app"].rpc
    <3>1. CASE c # d \/ ExpireStaleClients(d, s)
      BY <1>2, <3>1, HandlerCalls
    <3>2. CASE c = d /\ ~ ExpireStaleClients(d, s)
      <4>1. PICK status \in {"ok", "not_found"}, f \in Allocation : Answer(c, s, status, f)
        <5>1. CASE RegisterClient(d, s) \/ UnregisterClient(d, s) \/ HeartbeatRefused(d, s)
          BY <3>2, <5>1, NoCallType DEF RegisterClient, UnregisterClient, HeartbeatRefused
        <5>2. CASE Heartbeat(d, s)
          <6>1. call[c][s].resource_ids \in SUBSET Resource
            BY DEF CallsOK, Call
          <6>2. [r \in call[c][s].resource_ids |->
                   FairShare(LimitOf(r), c, ClientsForResource(r)')] \in Allocation
            BY <6>1, AllocationsType
          <6> QED BY <3>2, <5>2, <6>2 DEF Heartbeat
        <5> QED BY <1>2, <3>2, <5>1, <5>2 DEF Handler
      <4> QED BY <4>1, AnswerChanges DEF CallsOK, Slot
    <3> QED BY <3>1, <3>2
  <2> QED BY <1>1, <2>1, <2>2
<1>3. ASSUME NEW d \in Client \ {c},
             \/ AppThread(d) \/ HeartbeatThread(d)
             \/ Start(d) \/ Stop(d) \/ Crash(d)
             \/ \E s \in Slot : CallFails(d, s)
             \/ \E R \in Interests : SetResourceInterests(d, R)
      PROVE  Goal
  <2>1. /\ running'[c] = running[c] /\ rates'[c] = rates[c]
        /\ missed'[c] = missed[c] /\ waited'[c] = waited[c] /\ call'[c] = call[c]
    BY <1>3, OtherStepLibrary
  <2> QED BY <1>1, <2>1
<1>4. ASSUME \/ \E r \in Resource, limit \in RateLimits : SetLimit(r, limit)
             \/ Restart
             \/ UNCHANGED vars
      PROVE  Goal
  <2>1. UNCHANGED <<running, rates, missed, waited, call>>
    BY <1>4 DEF SetLimit, Restart, vars, library
  <2> QED BY <1>1, <2>1
<1> QED BY <1>2, <1>3, <1>4

(***************************************************************************)
(* The answers a timely client has not taken yet.                          *)
(***************************************************************************)
\* A call that is answered was answered before, or is so in this step.
LEMMA AnswerOrigin ==
  ASSUME TypeOK, RegistryInv', NEW c \in Client, NEW s \in Thread, [Next]_vars,
         Stage(c, s)' \in {<<"Heartbeat", "ok">>, <<"Heartbeat", "not_found">>}
  PROVE  \/ call'[c][s] = call[c][s]
         \/ Heartbeat(c, s) /\ Stage(c, s)' = <<"Heartbeat", "ok">>
         \/ HeartbeatRefused(c, s) /\ Stage(c, s)' = <<"Heartbeat", "not_found">>
<1> CallsOK /\ LibraryOK
  BY TypeParts
<1> "app" \in Slot /\ "heartbeat" \in Slot /\ s \in Slot /\ s # "lost"
  BY DEF Slot, Thread
<1> DEFINE Goal ==
  \/ call'[c][s] = call[c][s]
  \/ Heartbeat(c, s) /\ Stage(c, s)' = <<"Heartbeat", "ok">>
  \/ HeartbeatRefused(c, s) /\ Stage(c, s)' = <<"Heartbeat", "not_found">>
<1>1. ASSUME NEW d \in Client, NEW q \in Slot, NEW v \in Call, Becomes(d, q, v),
             <<v.rpc, v.at>> \notin {<<"Heartbeat", "ok">>, <<"Heartbeat", "not_found">>}
      PROVE  Goal
  BY <1>1, OneCallChanges DEF CallsOK, Stage
<1>2. ASSUME NEW d \in Client, NEW q \in Slot, Handler(d, q) PROVE Goal
  <2>1. CASE ExpireStaleClients(d, q)
    BY <2>1 DEF ExpireStaleClients
  <2>2. CASE RegisterClient(d, q) \/ UnregisterClient(d, q)
    <3>1. Answer(d, q, "ok", NoRates) /\ call[d][q].rpc # "Heartbeat"
      BY <2>2 DEF RegisterClient, UnregisterClient, Handle, Is
    <3> QED BY <3>1, AnswerChanges, NoCallType DEF CallsOK, Stage
  <2>3. CASE HeartbeatRefused(d, q)
    <3>1. Answer(d, q, "not_found", NoRates) /\ call[d][q].rpc = "Heartbeat"
      BY <2>3 DEF HeartbeatRefused, Handle, Is
    <3> QED BY <2>3, <3>1, AnswerChanges, NoCallType DEF CallsOK, Stage
  <2>4. CASE Heartbeat(d, q)
    <3> DEFINE f == [r \in call[d][q].resource_ids |->
                       FairShare(LimitOf(r), d, ClientsForResource(r)')]
    <3>1. call[d][q].resource_ids \in SUBSET Resource
      BY DEF CallsOK, Call
    <3>2. f \in Allocation
      BY <3>1, AllocationsType
    <3>3. Answer(d, q, "ok", f) /\ call[d][q].rpc = "Heartbeat"
      BY <2>4 DEF Heartbeat, Handle, Is
    <3> HIDE DEF f
    <3> QED BY <2>4, <3>2, <3>3, AnswerChanges DEF CallsOK, Stage
  <2> QED BY <1>2, <2>1, <2>2, <2>3, <2>4 DEF Handler
<1>3. ASSUME NEW d \in Client, NEW q \in Slot, HeartbeatReturns(d, q) PROVE Goal
  BY <1>1, <1>3, NoCallType
     DEF HeartbeatReturns, UpdateTokenBuckets, HeartbeatNotFound, Done, NoCall
<1>4. ASSUME NEW d \in Client, Started(d) \/ SendHeartbeat(d) \/ Start(d) \/ Unregister(d)
      PROVE  Goal
  <2>1. ASSUME NEW q \in Slot, NEW rpc \in {"RegisterClient", "UnregisterClient", "Heartbeat"},
               NEW R \in SUBSET Resource, Becomes(d, q, Send(rpc, R))
        PROVE  Goal
    BY <1>1, <2>1, SendType
  <2> QED BY <1>4, <2>1 DEF Started, SendHeartbeat, Start, Unregister, LibraryOK
<1>5. ASSUME NEW d \in Client, Stopped(d) \/ Stop(d) PROVE Goal
  BY <1>1, <1>5, NoCallType, JoiningType DEF Stopped, Stop, NoCall
<1>6. ASSUME NEW d \in Client, NEW q \in Slot, CallFails(d, q) PROVE Goal
  BY <1>6, FailureChanges DEF CallsOK, Stage, NoCall
<1>7. ASSUME NEW d \in Client, Crash(d) PROVE Goal
  <2>1. CASE d = c
    BY <1>7, <2>1, CrashChanges DEF CallsOK, Stage, NoCall
  <2>2. CASE d # c
    BY <1>7, <2>2, CrashChanges DEF CallsOK
  <2> QED BY <2>1, <2>2
<1>8. ASSUME \/ \E d \in Client, R \in Interests : SetResourceInterests(d, R)
             \/ \E r \in Resource, limit \in RateLimits : SetLimit(r, limit)
             \/ Restart \/ Tick \/ UNCHANGED vars
      PROVE  Goal
  BY <1>8 DEF SetResourceInterests, SetLimit, Restart, Tick, vars
<1> QED
  BY <1>2, <1>3, <1>4, <1>5, <1>6, <1>7, <1>8 DEF Next, AppThread, HeartbeatThread

\* What a heartbeat of c in one of its threads brings.
LEMMA AnswerOfHeartbeat ==
  ASSUME TypeOK, RegistryInv', NEW c \in Client, NEW s \in Thread, Heartbeat(c, s)
  PROVE  InForce(c, call[c][s].allocations)'
<1> CallsOK
  BY TypeParts
<1> DEFINE f == [r \in call[c][s].resource_ids |->
                   FairShare(LimitOf(r), c, ClientsForResource(r)')]
<1>1. call[c][s] \in Call /\ s \in Slot /\ s # "lost"
  BY DEF CallsOK, Thread, Slot
<1>2. f \in Allocation
  BY <1>1, AllocationsType DEF Call
<1>3. call'[c][s].allocations = f
  <2> DEFINE v == [NoCall EXCEPT !.rpc = call[c][s].rpc, !.at = "ok", !.allocations = f]
  <2>1. v \in Call /\ v.allocations = f
    <3> HIDE DEF f
    <3> QED BY <1>1, <1>2, NoCallType DEF Call, NoCall
  <2>2. Becomes(c, s, v)
    BY <1>1 DEF Heartbeat, Answer
  <2> HIDE DEF v, f
  <2> QED BY <1>1, <2>1, <2>2, OneCallChanges DEF CallsOK
<1>4. \A r : LimitOf(r)' = LimitOf(r)
  BY DEF Heartbeat, Handle, LimitOf, Configured
<1> QED BY <1>3, <1>4 DEF InForce

LEMMA AnswersStep ==
  ASSUME TypeOK, RegistryInv', NEW c \in Timely, AnswersInForce(c), [Next]_vars
  PROVE  AnswersInForce(c)'
<1> c \in Client
  BY SystemAssumption
<1>1. CASE Tick
  <2>1. \A s \in Thread : call'[c][s].at = "free"
    BY <1>1 DEF Tick, Free, Thread
  <2> QED BY <2>1 DEF AnswersInForce, Stage, Thread
<1>2. CASE ~ Tick /\ steady' = 0
  BY <1>2 DEF AnswersInForce
<1>3. CASE SharesKept
  <2>1. \A r : FairShare(LimitOf(r), c, ClientsForResource(r))'
                 = FairShare(LimitOf(r), c, ClientsForResource(r))
    BY <1>3, SameShares DEF SharesKept
  <2>2. ASSUME NEW s \in Thread, Stage(c, s)' = <<"Heartbeat", "ok">>, steady' > 0
        PROVE  InForce(c, call[c][s].allocations)'
    <3>1. CASE Heartbeat(c, s)
      BY <3>1, AnswerOfHeartbeat
    <3>2. CASE call'[c][s] = call[c][s]
      <4>1. InForce(c, call[c][s].allocations)
        BY <1>3, <2>2, <3>2 DEF AnswersInForce, Stage, SharesKept
      <4> QED BY <2>1, <3>2, <4>1 DEF InForce
    <3> QED BY <2>2, <3>1, <3>2, AnswerOrigin
  <2>3. ASSUME Stage(c, "heartbeat")' = <<"Heartbeat", "not_found">>, steady' > 0
        PROVE  c \notin Registered'
    <3>1. CASE HeartbeatRefused(c, "heartbeat")
      BY <1>3, <3>1 DEF HeartbeatRefused, SharesKept
    <3>2. CASE call'[c]["heartbeat"] = call[c]["heartbeat"]
      BY <1>3, <2>3, <3>2 DEF AnswersInForce, Stage, SharesKept
    <3> QED BY <2>3, <3>1, <3>2, AnswerOrigin DEF Thread
  <2> QED BY <2>2, <2>3 DEF AnswersInForce
<1> QED BY <1>1, <1>2, <1>3, SharesStep

(***************************************************************************)
(* The rates themselves.                                                   *)
(***************************************************************************)
LEMMA RatesStep ==
  ASSUME TypeOK, CountsOK', CallsInOrder, NEW c \in Timely,
         AnswersInForce(c), RatesInForce(c), [Next]_vars, ~ Tick,
         \/ rates'[c] = NoRates
         \/ \E s \in Thread : /\ Stage(c, s) = <<"Heartbeat", "ok">>
                              /\ rates'[c] = call[c][s].allocations
         \/ rates'[c] = rates[c] /\ HeartbeatNotFound(c, "heartbeat")
         \/ rates'[c] = rates[c] /\ Wait(c)' >= Wait(c)
  PROVE  RatesInForce(c)'
<1> SUFFICES ASSUME c \in Registered', Wait(c)' < steady'
             PROVE  InForce(c, rates[c])'
  BY DEF RatesInForce
<1> c \in Client
  BY SystemAssumption
<1>1. Wait(c) \in Nat /\ Wait(c)' \in Nat
  BY TypeParts, WaitIsNat, WaitIsNatNext
<1>2. steady \in Nat
  BY EnoughType DEF TypeOK
<1>3. SharesKept
  <2>1. steady' # 0
    BY <1>1
  <2> QED BY <2>1, SharesStep
<1>4. steady > 0 /\ Wait(c)' < steady /\ c \in Registered
  BY <1>1, <1>2, <1>3 DEF SharesKept
<1>5. \A r : FairShare(LimitOf(r), c, ClientsForResource(r))'
               = FairShare(LimitOf(r), c, ClientsForResource(r))
  BY <1>3, SameShares DEF SharesKept
<1>6. ASSUME InForce(c, rates'[c]) PROVE InForce(c, rates[c])'
  BY <1>5, <1>6 DEF InForce
<1>7. CASE rates'[c] = NoRates
  BY <1>6, <1>7, NothingInForce
<1>8. ASSUME NEW s \in Thread, Stage(c, s) = <<"Heartbeat", "ok">>,
             rates'[c] = call[c][s].allocations
      PROVE  InForce(c, rates[c])'
  BY <1>4, <1>6, <1>8 DEF AnswersInForce
<1>9. CASE HeartbeatNotFound(c, "heartbeat")
  BY <1>4, <1>9 DEF HeartbeatNotFound, Is, AnswersInForce, Stage
<1>10. CASE rates'[c] = rates[c] /\ Wait(c)' >= Wait(c)
  BY <1>1, <1>2, <1>4, <1>6, <1>10 DEF RatesInForce
<1> QED BY <1>7, <1>8, <1>9, <1>10

\* A tick makes shares older, and by as much the wait of a client that runs.
LEMMA TickFresh ==
  ASSUME TypeOK, CallsInOrder, NEW c \in Timely, Cleared(c), RatesInForce(c), Tick
  PROVE  Cleared(c)' /\ RatesInForce(c)'
<1> c \in Client
  BY SystemAssumption
<1>1. UNCHANGED <<rates, running, call, missed, resource_limits, resource_to_clients>>
  BY DEF Tick, library
<1>2. Cleared(c)'
  BY <1>1 DEF Cleared
<1>3. CASE ~ running[c]
  <2>1. call[c]["app"].rpc # "UnregisterClient"
    BY <1>3
       DEF Tick, Free, CallsInOrder, InOrder, StoppedStages, Stage, Idle, StartStage, StopStage
  <2>2. rates'[c] = NoRates
    BY <1>1, <1>3, <2>1 DEF Cleared
  <2>3. \A r \in DOMAIN NoRates : FALSE
    BY DEF NoRates
  <2> QED BY <1>2, <2>2, <2>3 DEF RatesInForce, InForce
<1>4. CASE running[c]
  <2>1. steady \in Nat /\ steady' <= steady + 1 /\ steady' \in Nat
    BY EnoughType DEF Tick, TypeOK
  <2>2. Wait(c) \in Nat
    BY TypeParts, WaitIsNat
  <2>3. Wait(c)' = Wait(c) + 1
    <3>1. waited'[c] = waited[c] + 1 /\ missed' = missed
      BY <1>4 DEF Tick
    <3>2. missed[c] \in Nat /\ waited[c] \in Nat
      BY SystemAssumption DEF TypeOK
    <3> DEFINE before == missed[c] * Interval
    <3>3. before \in Int
      <4>1. \A m, i \in Nat : m * i \in Int
        OBVIOUS
      <4> QED BY <3>2, <4>1, SystemAssumption
    <3>4. Wait(c) = before + waited[c] /\ Wait(c)' = before + (waited[c] + 1)
      BY <3>1 DEF Wait
    <3> HIDE DEF before
    <3> QED BY <3>2, <3>3, <3>4
  <2>4. c \in Registered' /\ Wait(c)' < steady' => InForce(c, rates[c])
    <3>1. Registered' = Registered
      BY DEF Tick, Registered
    <3> QED BY <2>1, <2>2, <2>3, <3>1 DEF RatesInForce
  <2>5. InForce(c, rates[c]) => InForce(c, rates[c])'
    BY <1>1, SameShares DEF InForce
  <2> QED BY <1>2, <2>4, <2>5 DEF RatesInForce
<1> QED BY <1>3, <1>4

LEMMA FreshStep ==
  ASSUME TypeOK, RegistryInv, CallsInOrder, RatesFresh, [Next]_vars
  PROVE  RatesFresh'
<1>1. RegistryInv' /\ CountsOK'
  BY TypeStep DEF TypeOK, CountsOK
<1> SUFFICES ASSUME NEW c \in Timely
             PROVE  Cleared(c)' /\ AnswersInForce(c)' /\ RatesInForce(c)'
  BY DEF RatesFresh
<1>2. Cleared(c) /\ AnswersInForce(c) /\ RatesInForce(c)
  BY DEF RatesFresh
<1>3. AnswersInForce(c)'
  BY <1>1, <1>2, AnswersStep
<1>4. CASE Tick
  BY <1>2, <1>3, <1>4, TickFresh
<1>5. CASE /\ ~ Tick
           /\ \/ AppThread(c) \/ HeartbeatThread(c)
              \/ Start(c) \/ Stop(c) \/ Crash(c)
              \/ \E s \in Slot : CallFails(c, s)
              \/ \E R \in Interests : SetResourceInterests(c, R)
  <2>1. /\ Cleared(c)'
        /\ \/ rates'[c] = NoRates
           \/ \E s \in Thread : /\ Stage(c, s) = <<"Heartbeat", "ok">>
                                /\ rates'[c] = call[c][s].allocations
           \/ rates'[c] = rates[c] /\ HeartbeatNotFound(c, "heartbeat")
           \/ rates'[c] = rates[c] /\ Wait(c)' >= Wait(c)
    BY <1>2, <1>5, OwnStepRates
  <2> QED BY <1>1, <1>2, <1>3, <1>5, <2>1, RatesStep
<1>6. CASE /\ ~ Tick
           /\ \/ \E d \in Client, s \in Slot : Handler(d, s)
              \/ \E d \in Client \ {c} :
                   \/ AppThread(d) \/ HeartbeatThread(d)
                   \/ Start(d) \/ Stop(d) \/ Crash(d)
                   \/ \E s \in Slot : CallFails(d, s)
                   \/ \E R \in Interests : SetResourceInterests(d, R)
              \/ \E r \in Resource, limit \in RateLimits : SetLimit(r, limit)
              \/ Restart
              \/ UNCHANGED vars
  <2>1. Cleared(c)' /\ rates'[c] = rates[c] /\ Wait(c)' = Wait(c)
    BY <1>1, <1>2, <1>6, OtherStepRates
  <2>2. Wait(c)' >= Wait(c)
    BY <2>1, TypeParts, WaitIsNat, SystemAssumption
  <2> QED BY <1>1, <1>2, <1>3, <1>6, <2>1, <2>2, RatesStep
<1> QED BY <1>4, <1>5, <1>6 DEF Next

-----------------------------------------------------------------------------
\* The inductive invariant.
SystemInv ==
  /\ TypeOK
  /\ RegistryInv
  /\ CallsInOrder
  /\ HeardInTime
  /\ RatesFresh

LEMMA SystemInvariant == Spec => []SystemInv
<1>1. Init => SystemInv
  BY InitTypes, InitInOrder, InitHeard, InitFresh DEF SystemInv
<1>2. SystemInv /\ [Next]_vars => SystemInv'
  BY TypeStep, InOrderStep, HeardStep, FreshStep DEF SystemInv
<1> QED BY <1>1, <1>2, PTL DEF Spec

(***************************************************************************)
(* What the server knows of a timely client that runs is no older than the *)
(* heartbeats that failed in a row and the wait for the next one.          *)
(***************************************************************************)
THEOREM StalenessIsBounded == Spec => []StalenessBounded
<1>1. SystemInv => StalenessBounded
  BY DEF SystemInv, HeardInTime, HeardOK, Heard, StalenessBounded
<1> QED BY <1>1, SystemInvariant, PTL

(***************************************************************************)
(* Whatever rate a timely client that runs and is registered enforces is   *)
(* its fair share, but for what changed within the wait for its next       *)
(* heartbeat and the heartbeats that failed.                               *)
(***************************************************************************)
THEOREM RatesArriveInTime == Spec => []RatesInTime
<1>1. SystemInv => RatesInTime
  BY DEF SystemInv, RatesFresh, RatesInForce, InForce, Wait, RatesInTime
<1> QED BY <1>1, SystemInvariant, PTL

\* Who is stale has missed more heartbeats than fit into the timeout.
LEMMA StaleHasMissed ==
  ASSUME SystemInv, NEW c \in Timely, running[c], c \in StaleClients(Horizon)
  PROVE  (missed[c] + 1) * Interval > HeartbeatTimeout
<1> c \in Client /\ c \in Registered
  BY SystemAssumption DEF StaleClients
<1> DEFINE age   == Horizon - clients[c].last_heartbeat_time
           bound == missed[c] * Interval + waited[c]
           limit == (missed[c] + 1) * Interval
<1>1. age > HeartbeatTimeout
  BY DEF StaleClients, IsClientStale
<1>2. age <= bound
  BY DEF SystemInv, HeardInTime, HeardOK, Heard
<1>3. missed[c] \in Nat /\ waited[c] \in 0..Interval
  BY SystemAssumption DEF SystemInv, TypeOK
<1>4. bound <= limit + 0
  BY <1>3, OneMoreMissed
<1>5. bound \in Int /\ limit \in Int
  <2>1. bound \in Nat
    BY <1>3, SystemAssumption, WaitType
  <2>2. missed[c] + 1 \in Nat
    BY <1>3
  <2>3. limit + 0 \in Nat
    BY <2>2, WaitType
  <2>4. \A m, i \in Nat : m * i \in Int
    OBVIOUS
  <2> QED BY <2>1, <2>2, <2>4, SystemAssumption
<1>6. age \in Int
  BY HorizonType DEF SystemInv, TypeOK, RegistryTypeOK, ClientInfo
<1> HIDE DEF age, bound, limit
<1>7. limit > HeartbeatTimeout
  BY <1>1, <1>2, <1>4, <1>5, <1>6, SystemAssumption
<1> QED BY <1>7 DEF limit

LEMMA KeptStep ==
  ASSUME SystemInv, [Next]_vars,
         NEW c \in Timely, running[c], c \in Registered, c \notin Registered'
  PROVE  \/ Restart
         \/ UnregisterClient(c, "lost")
         \/ (missed[c] + 1) * Interval > HeartbeatTimeout
<1> c \in Client
  BY SystemAssumption
<1>1. ASSUME NEW d \in Client, NEW s \in Slot, Handler(d, s)
      PROVE  \/ UnregisterClient(c, "lost")
             \/ (missed[c] + 1) * Interval > HeartbeatTimeout
  <2>1. CASE ExpireStaleClients(d, s)
    <3>1. c \in StaleClients(Horizon)
      BY <2>1 DEF ExpireStaleClients, ToExpire, RemoveClients, Drop, Registered
    <3> QED BY <3>1, StaleHasMissed
  <2>2. CASE UnregisterClient(d, s)
    <3>1. d = c
      BY <2>2
         DEF UnregisterClient, UnregisterClientLocked, RemoveClients, Drop, Registered
    <3>2. call[c][s].rpc = "UnregisterClient"
      BY <2>2, <3>1 DEF UnregisterClient, Handle, Is
    <3>3. RunningStages(c)
      BY DEF SystemInv, CallsInOrder, InOrder
    <3>4. s = "lost"
      BY <3>2, <3>3 DEF RunningStages, Stage, Idle, HeartbeatStage, Slot
    <3> QED BY <2>2, <3>1, <3>4
  <2>3. CASE RegisterClient(d, s)
    BY <2>3 DEF RegisterClient, RegisterClientLocked, Put, Registered
  <2>4. CASE Heartbeat(d, s)
    BY <2>4 DEF Heartbeat, HeartbeatLocked, Put, Registered
  <2>5. CASE HeartbeatRefused(d, s)
    BY <2>5 DEF HeartbeatRefused, Registered
  <2> QED BY <1>1, <2>1, <2>2, <2>3, <2>4, <2>5 DEF Handler
<1>2. CASE Tick
  BY <1>2 DEF Tick, Registered
<1>3. ASSUME \/ \E d \in Client :
                  \/ \E s \in Slot : CallFails(d, s)
                  \/ AppThread(d) \/ HeartbeatThread(d)
                  \/ Start(d) \/ Stop(d) \/ Crash(d)
                  \/ \E R \in Interests : SetResourceInterests(d, R)
             \/ \E r \in Resource, limit \in RateLimits : SetLimit(r, limit)
             \/ UNCHANGED vars
      PROVE  UNCHANGED clients
  BY <1>3
     DEF CallFails, AppThread, HeartbeatThread, HeartbeatReturns, Started,
         UpdateTokenBuckets, HeartbeatNotFound, Unregister, Stopped, SendHeartbeat, Start,
         Stop, Crash, SetResourceInterests, SetLimit, vars, server
<1>4. clients' # clients
  BY DEF Registered
<1> QED BY <1>1, <1>2, <1>3, <1>4 DEF Next

(***************************************************************************)
(* A timely client is expired only when enough of its heartbeats in a row  *)
(* have failed; while it runs, nothing else but a server that restarts and *)
(* an old request of its own to be forgotten makes the server drop it.     *)
(***************************************************************************)
THEOREM TimelyClientsAreKept == Spec => TimelyIsKept
<1>1. ASSUME SystemInv, [Next]_vars
      PROVE  [\A c \in Timely :
                running[c] /\ c \in Registered /\ c \notin Registered' =>
                  \/ Restart
                  \/ UnregisterClient(c, "lost")
                  \/ (missed[c] + 1) * Interval > HeartbeatTimeout]_vars
  BY <1>1, KeptStep
<1> QED BY <1>1, SystemInvariant, PTL DEF Spec, TimelyIsKept

=============================================================================
