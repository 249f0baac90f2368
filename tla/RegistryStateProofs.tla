------------------------ MODULE RegistryStateProofs ------------------------
(***************************************************************************)
(* Every critical section of the registry keeps its tables well formed and *)
(* its reverse index exact.  Whoever runs the sections, and whatever       *)
(* happens between them, cites these lemmas.                               *)
(***************************************************************************)
EXTENDS RegistryState, TLAPS

RegistryInv == RegistryTypeOK /\ ReverseIndexExact

-----------------------------------------------------------------------------
\* Erasing the empty entries of an index changes no lookup.
LEMMA NoEmptyEntriesLookup ==
  ASSUME NEW index, NEW r
  PROVE  LET found(f) == IF r \in DOMAIN f THEN f[r] ELSE {}
         IN  found(NoEmptyEntries(index)) = found(index)
BY DEF NoEmptyEntries

\* An index of non-empty sets of clients, as RegistryTypeOK asks for.
LEMMA NoEmptyEntriesType ==
  ASSUME NEW index, DOMAIN index \subseteq Resource,
         \A r \in DOMAIN index : index[r] \subseteq Client
  PROVE  LET f == NoEmptyEntries(index)
         IN  /\ DOMAIN f \subseteq Resource
             /\ f = [r \in DOMAIN f |-> f[r]]
             /\ \A r \in DOMAIN f : f[r] \in (SUBSET Client) \ {{}}
BY DEF NoEmptyEntries

LEMMA RegistryInitInv ==
  ASSUME RegistryInit, now \in Instant
  PROVE  RegistryInv
<1>1. RegistryTypeOK
  BY DEF RegistryInit, RegistryTypeOK, Registered
<1>2. ReverseIndexExact
  BY DEF RegistryInit, ReverseIndexExact, ClientsForResource, Registered
<1> QED
  BY <1>1, <1>2 DEF RegistryInv

\* RemoveClientLocked and ExpireStaleClients.
LEMMA RemoveClientsInv ==
  ASSUME RegistryInv, NEW gone \in SUBSET Registered, RemoveClients(gone), now' = now
  PROVE  RegistryInv'
<1> DEFINE index == [r \in DOMAIN resource_to_clients |->
                       resource_to_clients[r]
                         \ {c \in gone : r \in clients[c].interested_resources}]
<1>1. resource_to_clients' = NoEmptyEntries(index)
  BY DEF RemoveClients, IndexAfterRemoval
<1>2. /\ Registered' = Registered \ gone
      /\ clients' = [c \in Registered \ gone |-> clients[c]]
  BY DEF RemoveClients, Drop, Registered
<1>3. RegistryTypeOK'
  <2>1. /\ DOMAIN index \subseteq Resource
        /\ \A r \in DOMAIN index : index[r] \subseteq Client
    BY DEF RegistryInv, RegistryTypeOK
  <2>2. /\ DOMAIN resource_to_clients' \subseteq Resource
        /\ resource_to_clients' =
             [r \in DOMAIN resource_to_clients' |-> resource_to_clients'[r]]
        /\ \A r \in DOMAIN resource_to_clients' :
             resource_to_clients'[r] \in (SUBSET Client) \ {{}}
    <3> HIDE DEF index
    <3> QED
      BY <1>1, <2>1, NoEmptyEntriesType
  <2>3. /\ now' \in Instant
        /\ Registered' \subseteq Client
        /\ clients' = [c \in Registered' |-> clients'[c]]
        /\ \A c \in Registered' :
             clients'[c] \in ClientInfo /\ clients'[c].last_heartbeat_time <= now'
    BY <1>2 DEF RegistryInv, RegistryTypeOK
  <2> QED
    BY <2>2, <2>3 DEF RegistryTypeOK
<1>4. ASSUME NEW r \in Resource
      PROVE  ClientsForResource(r)' =
               {c \in Registered : r \in InterestedResources(c)}'
  <2>1. ClientsForResource(r)' = IF r \in DOMAIN index THEN index[r] ELSE {}
    <3> HIDE DEF index
    <3> QED
      BY <1>1, NoEmptyEntriesLookup DEF ClientsForResource
  <2>2. ClientsForResource(r)' =
          ClientsForResource(r) \ {c \in gone : r \in clients[c].interested_resources}
    BY <2>1 DEF ClientsForResource
  <2>3. ClientsForResource(r) =
          {c \in Registered : r \in clients[c].interested_resources}
    BY DEF RegistryInv, ReverseIndexExact, InterestedResources
  <2>4. {c \in Registered : r \in InterestedResources(c)}' =
          {c \in Registered \ gone : r \in clients[c].interested_resources}
    BY <1>2 DEF InterestedResources
  <2> QED
    BY <2>2, <2>3, <2>4
<1> QED
  BY <1>3, <1>4 DEF RegistryInv, ReverseIndexExact

\* RegisterClient: the interests stay, so the index stays.
LEMMA RegisterClientInv ==
  ASSUME RegistryInv, NEW c \in Client, RegisterClientLocked(c), now' = now
  PROVE  RegistryInv'
<1>1. /\ Registered' = Registered \cup {c}
      /\ \A d \in Registered \cup {c} :
           clients'[d] = IF d = c
                           THEN [last_heartbeat_time  |-> now,
                                 interested_resources |-> InterestedResources(c)]
                           ELSE clients[d]
      /\ clients' = [d \in Registered' |-> clients'[d]]
      /\ resource_to_clients' = resource_to_clients
  BY DEF RegisterClientLocked, Put, Registered
<1>2. InterestedResources(c) \subseteq Resource
  BY DEF RegistryInv, RegistryTypeOK, InterestedResources, ClientInfo
<1>3. now \in Int
  BY TimeAssumption DEF RegistryInv, RegistryTypeOK
<1>4. RegistryTypeOK'
  <2>1. now' \in Instant /\ Registered' \subseteq Client
    BY <1>1 DEF RegistryInv, RegistryTypeOK
  <2>2. ASSUME NEW d \in Registered'
        PROVE  clients'[d] \in ClientInfo /\ clients'[d].last_heartbeat_time <= now'
    <3>1. CASE d = c
      <4>1. clients'[d] = [last_heartbeat_time  |-> now,
                           interested_resources |-> InterestedResources(c)]
        BY <3>1, <1>1
      <4>2. now \in Instant
        BY DEF RegistryInv, RegistryTypeOK
      <4> QED
        BY <4>1, <4>2, <1>2, <1>3 DEF ClientInfo
    <3>2. CASE d # c
      <4>1. d \in Registered /\ clients'[d] = clients[d]
        BY <3>2, <1>1
      <4> QED
        BY <4>1 DEF RegistryInv, RegistryTypeOK
    <3> QED
      BY <3>1, <3>2
  <2>3. /\ DOMAIN resource_to_clients' \subseteq Resource
        /\ resource_to_clients' =
             [r \in DOMAIN resource_to_clients' |-> resource_to_clients'[r]]
        /\ \A r \in DOMAIN resource_to_clients' :
             resource_to_clients'[r] \in (SUBSET Client) \ {{}}
    BY <1>1 DEF RegistryInv, RegistryTypeOK
  <2> QED
    BY <1>1, <2>1, <2>2, <2>3 DEF RegistryTypeOK
<1>5. ASSUME NEW r \in Resource
      PROVE  ClientsForResource(r)' =
               {d \in Registered : r \in InterestedResources(d)}'
  <2>1. \A d \in Registered \cup {c} : InterestedResources(d)' = InterestedResources(d)
    BY <1>1 DEF InterestedResources
  <2>2. c \notin Registered => InterestedResources(c) = {}
    BY DEF InterestedResources
  <2>3. ClientsForResource(r)' = ClientsForResource(r)
    BY <1>1 DEF ClientsForResource
  <2> QED
    BY <1>1, <2>1, <2>2, <2>3 DEF RegistryInv, ReverseIndexExact
<1> QED
  BY <1>4, <1>5 DEF RegistryInv, ReverseIndexExact

\* Heartbeat: the index moves by the differences of the interests.
LEMMA HeartbeatInv ==
  ASSUME RegistryInv, NEW c \in Client, NEW R \in SUBSET Resource,
         HeartbeatLocked(c, R), now' = now
  PROVE  RegistryInv'
<1> DEFINE added   == AddedResources(c, R)
           removed == RemovedResources(c, R)
           index   == [r \in DOMAIN resource_to_clients \cup added |->
                         (ClientsForResource(r) \cup {d \in {c} : r \in added})
                           \ {d \in {c} : r \in removed}]
<1>1. resource_to_clients' = NoEmptyEntries(index)
  BY DEF HeartbeatLocked, IndexAfterHeartbeat
<1>2. /\ c \in Registered
      /\ Registered' = Registered
      /\ \A d \in Registered :
           clients'[d] = IF d = c
                           THEN [last_heartbeat_time  |-> now,
                                 interested_resources |-> R]
                           ELSE clients[d]
      /\ clients' = [d \in Registered' |-> clients'[d]]
  BY DEF HeartbeatLocked, Put, Registered
<1>3. now \in Int
  BY TimeAssumption DEF RegistryInv, RegistryTypeOK
<1>4. \A r \in Resource : ClientsForResource(r) \subseteq Client
  BY DEF RegistryInv, RegistryTypeOK, ClientsForResource
<1>5. RegistryTypeOK'
  <2>1. /\ DOMAIN index \subseteq Resource
        /\ \A r \in DOMAIN index : index[r] \subseteq Client
    BY <1>4 DEF RegistryInv, RegistryTypeOK, AddedResources
  <2>2. /\ DOMAIN resource_to_clients' \subseteq Resource
        /\ resource_to_clients' =
             [r \in DOMAIN resource_to_clients' |-> resource_to_clients'[r]]
        /\ \A r \in DOMAIN resource_to_clients' :
             resource_to_clients'[r] \in (SUBSET Client) \ {{}}
    <3> HIDE DEF index
    <3> QED
      BY <1>1, <2>1, NoEmptyEntriesType
  <2>3. /\ now' \in Instant
        /\ Registered' \subseteq Client
        /\ \A d \in Registered' :
             clients'[d] \in ClientInfo /\ clients'[d].last_heartbeat_time <= now'
    BY <1>2, <1>3 DEF RegistryInv, RegistryTypeOK, ClientInfo
  <2> QED
    BY <1>2, <2>2, <2>3 DEF RegistryTypeOK
<1>6. ASSUME NEW r \in Resource
      PROVE  ClientsForResource(r)' =
               {d \in Registered : r \in InterestedResources(d)}'
  <2>1. ClientsForResource(r)' = IF r \in DOMAIN index THEN index[r] ELSE {}
    <3> HIDE DEF index
    <3> QED
      BY <1>1, NoEmptyEntriesLookup DEF ClientsForResource
  <2>2. ClientsForResource(r)' = (ClientsForResource(r) \cup {d \in {c} : r \in added})
                                   \ {d \in {c} : r \in removed}
    BY <2>1 DEF ClientsForResource
  <2>3. ClientsForResource(r) =
          {d \in Registered : r \in clients[d].interested_resources}
    BY DEF RegistryInv, ReverseIndexExact, InterestedResources
  <2>4. {d \in Registered : r \in InterestedResources(d)}' =
          {d \in Registered : r \in IF d = c THEN R ELSE clients[d].interested_resources}
    BY <1>2 DEF InterestedResources
  <2> QED
    BY <1>2, <2>2, <2>3, <2>4 DEF AddedResources, RemovedResources
<1> QED
  BY <1>5, <1>6 DEF RegistryInv, ReverseIndexExact

\* UnregisterClient.
LEMMA UnregisterClientInv ==
  ASSUME RegistryInv, NEW c \in Client, UnregisterClientLocked(c), now' = now
  PROVE  RegistryInv'
BY RemoveClientsInv DEF UnregisterClientLocked

\* Only time passes.
LEMMA TimePassesInv ==
  ASSUME RegistryInv, now' \in Instant, now' >= now, UNCHANGED registry
  PROVE  RegistryInv'
<1>1. RegistryTypeOK'
  <2>1. \A c \in Registered : clients[c].last_heartbeat_time \in Int
    BY TimeAssumption DEF RegistryInv, RegistryTypeOK, ClientInfo
  <2>2. now \in Int /\ now' \in Int
    BY TimeAssumption DEF RegistryInv, RegistryTypeOK
  <2> QED
    BY <2>1, <2>2 DEF RegistryInv, RegistryTypeOK, registry, Registered
<1>2. ReverseIndexExact'
  BY DEF RegistryInv, ReverseIndexExact, registry, ClientsForResource,
         InterestedResources, Registered
<1> QED
  BY <1>1, <1>2 DEF RegistryInv

=============================================================================
