------------------------ MODULE ClientRegistryProofs ------------------------
(***************************************************************************)
(* What holds of the client registry for any number of clients, resources  *)
(* and threads, any timeout and any clock.  The inductive invariant is the *)
(* conjunction of the registry's properties and of the range of the acked  *)
(* history; each action keeps it.                                          *)
(***************************************************************************)
EXTENDS ClientRegistry, RegistryStateProofs

AckedInfo == \A c \in DOMAIN acked : acked[c] \in ClientInfo

Inv ==
  /\ TypeOK
  /\ ReverseIndexExact
  /\ ListenerMirrors
  /\ AckedInfo
  /\ AckedClientsKept
  /\ QueryFresh

-----------------------------------------------------------------------------
\* A listener that knew of the clients that leave what it should forgets them.
LEMMA ListenerForgets ==
  ASSUME ListenerMirrors, NEW gone \in SUBSET Registered, OnClientLeft(Interests(gone))
  PROVE  IF listener THEN heard' = Drop(heard, gone) ELSE heard' = heard
<1>1. \A c \in gone : Interests(gone)[c] = InterestedResources(c)
  BY DEF Interests
<1>2. \A c \in DOMAIN heard \cap gone : heard[c] \ Interests(gone)[c] = {}
  BY <1>1 DEF ListenerMirrors
<1>3. DOMAIN Interests(gone) = gone
  BY DEF Interests
<1> QED BY <1>2, <1>3 DEF OnClientLeft, Drop

\* The clock reads integers, and so do the times the tables hold.
LEMMA Times ==
  ASSUME TypeOK
  PROVE  /\ now \in Int
         /\ HeartbeatTimeout \in Nat
         /\ \A c \in Registered : /\ clients[c].last_heartbeat_time \in Int
                                  /\ clients[c].last_heartbeat_time <= now
         /\ \A t \in Thread : since[t] \in Int /\ since[t] <= now
BY TimeAssumption DEF TypeOK, RegistryTypeOK, ClientInfo

LEMMA InitInv == Init => Inv
<1> SUFFICES ASSUME Init PROVE Inv
  OBVIOUS
<1>1. RegistryInv
  BY RegistryInitInv DEF Init
<1>2. now \in Int
  BY TimeAssumption DEF Init
<1>3. TypeOK
  BY <1>1, <1>2 DEF Init, TypeOK, RegistryInv
<1>4. ListenerMirrors /\ AckedInfo /\ AckedClientsKept /\ QueryFresh
  BY DEF Init, ListenerMirrors, AckedInfo, AckedClientsKept, QueryFresh
<1> QED
  BY <1>1, <1>3, <1>4 DEF Inv, RegistryInv

LEMMA CallInv ==
  ASSUME Inv, NEW t \in Thread, Call(t)
  PROVE  Inv'
<1>1. /\ phase' = [phase EXCEPT ![t] = "expiring"]
      /\ since' = [since EXCEPT ![t] = now]
      /\ \E query \in BOOLEAN : reading' = [reading EXCEPT ![t] = query]
      /\ UNCHANGED <<clients, resource_to_clients, now, listener, heard, acked>>
  BY DEF Call, registry
<1>2. RegistryInv'
  BY <1>1, Times, TimePassesInv DEF Inv, TypeOK, RegistryInv, RegistryTypeOK, registry
<1>3. TypeOK'
  BY <1>1, <1>2, Times DEF Inv, TypeOK, RegistryInv, RegistryTypeOK
<1>4. ListenerMirrors' /\ AckedInfo' /\ AckedClientsKept'
  BY <1>1 DEF Inv, ListenerMirrors, AckedInfo, AckedClientsKept, Registered,
              InterestedResources, ClientInfo
<1>5. QueryFresh'
  BY <1>1 DEF Inv, TypeOK, QueryFresh, StaleClients, IsClientStale, Registered
<1> QED
  BY <1>2, <1>3, <1>4, <1>5 DEF Inv, RegistryInv

(***************************************************************************)
(* Nobody expired was acknowledged within the timeout, and whoever was     *)
(* stale when the call began is among the expired.                         *)
(***************************************************************************)
LEMMA ExpireInv ==
  ASSUME Inv, NEW t \in Thread, ExpireStaleClients(t)
  PROVE  Inv'
<1>1. PICK gone \in SUBSET StaleClients(now) :
        /\ MayExpire(gone, since[t])
        /\ RemoveClients(gone)
        /\ OnClientLeft(Interests(gone))
  BY DEF ExpireStaleClients
<1>2. /\ phase' = [phase EXCEPT ![t] = "body"]
      /\ UNCHANGED <<now, reading, since, listener, acked>>
  BY DEF ExpireStaleClients
<1>3. gone \subseteq Registered
  BY DEF StaleClients
<1>4. /\ Registered' = Registered \ gone
      /\ \A c \in Registered' : clients'[c] = clients[c]
  BY <1>1 DEF RemoveClients, Drop, Registered
<1>5. RegistryInv'
  BY <1>1, <1>2, <1>3, RemoveClientsInv DEF Inv, TypeOK, RegistryInv
<1>6. /\ DOMAIN heard' \subseteq DOMAIN heard
      /\ \A c \in DOMAIN heard' : heard'[c] = heard[c]
      /\ listener => DOMAIN heard' \cap gone = {}
      /\ ~listener => heard' = heard
  <2>1. IF listener THEN heard' = Drop(heard, gone) ELSE heard' = heard
    BY <1>1, <1>3, ListenerForgets DEF Inv
  <2> QED BY <2>1 DEF Drop
<1>7. TypeOK'
  BY <1>2, <1>5, <1>6, Times DEF Inv, TypeOK, RegistryInv
<1>8. ListenerMirrors'
  <2>1. ~listener => DOMAIN heard = {}
    BY DEF Inv, TypeOK
  <2> QED
    BY <1>4, <1>6, <2>1 DEF Inv, ListenerMirrors, InterestedResources
<1>9. AckedInfo' /\ AckedClientsKept'
  <2> SUFFICES ASSUME NEW c \in DOMAIN acked,
                      now - acked[c].last_heartbeat_time <= HeartbeatTimeout
               PROVE  c \in Registered' /\ clients'[c] = acked[c]
    BY <1>2 DEF Inv, AckedInfo, AckedClientsKept, ClientInfo
  <2>1. c \in Registered /\ clients[c] = acked[c]
    BY DEF Inv, AckedClientsKept
  <2>2. c \notin gone
    BY <2>1, Times DEF Inv, StaleClients, IsClientStale
  <2> QED
    BY <1>4, <2>1, <2>2
<1>10. QueryFresh'
  <2> SUFFICES ASSUME NEW u \in Thread, phase'[u] = "body"
               PROVE  \A c \in Registered' :
                        ~(since[u] - clients[c].last_heartbeat_time > HeartbeatTimeout)
    BY <1>2, <1>4 DEF QueryFresh, StaleClients, IsClientStale
  <2>1. CASE u = t
    BY <1>1, <1>4, <2>1 DEF MayExpire, StaleClients, IsClientStale
  <2>2. CASE u # t
    BY <1>2, <1>4, <2>2 DEF Inv, TypeOK, QueryFresh, StaleClients, IsClientStale
  <2> QED
    BY <2>1, <2>2
<1> QED
  BY <1>5, <1>7, <1>8, <1>9, <1>10 DEF Inv, RegistryInv

\* What the second section of a call does beside its own work.
LEMMA BodyEffect ==
  ASSUME Inv, NEW t \in Thread, NEW query \in BOOLEAN, Body(t, query)
  PROVE  /\ phase' \in [Thread -> {"idle", "expiring", "body"}]
         /\ \A u \in Thread : phase'[u] = "body" => phase[u] = "body"
         /\ UNCHANGED <<now, reading, since, listener>>
BY DEF Inv, TypeOK, Body

\* A client seen in a call's second section stays as fresh as it was.
LEMMA QueryFreshKept ==
  ASSUME Inv, UNCHANGED <<now, since>>,
         \A u \in Thread : phase'[u] = "body" => phase[u] = "body",
         \A c \in Registered' : \/ c \in Registered /\ clients'[c] = clients[c]
                                \/ clients'[c].last_heartbeat_time = now
  PROVE  QueryFresh'
<1> SUFFICES ASSUME NEW u \in Thread, phase'[u] = "body", NEW c \in Registered'
             PROVE  ~(since[u] - clients'[c].last_heartbeat_time > HeartbeatTimeout)
  BY DEF QueryFresh, StaleClients, IsClientStale
<1>1. CASE c \in Registered /\ clients'[c] = clients[c]
  BY <1>1 DEF Inv, QueryFresh, StaleClients, IsClientStale
<1>2. CASE clients'[c].last_heartbeat_time = now
  <2>1. since[u] \in Int /\ now \in Int /\ since[u] <= now /\ HeartbeatTimeout \in Nat
    BY Times DEF Inv
  <2> QED
    BY <1>2, <2>1
<1> QED
  BY <1>1, <1>2

LEMMA RegisterInv ==
  ASSUME Inv, NEW t \in Thread, NEW c \in Client, RegisterClient(t, c)
  PROVE  Inv'
<1>1. /\ RegisterClientLocked(c)
      /\ acked' = Put(acked, c, clients'[c])
      /\ IF c \in Registered THEN UNCHANGED heard ELSE OnClientJoined(c)
  BY DEF RegisterClient
<1>2. /\ phase' \in [Thread -> {"idle", "expiring", "body"}]
      /\ \A u \in Thread : phase'[u] = "body" => phase[u] = "body"
      /\ UNCHANGED <<now, reading, since, listener>>
  BY BodyEffect DEF RegisterClient
<1>3. /\ Registered' = Registered \cup {c}
      /\ \A d \in Registered : d # c => clients'[d] = clients[d]
      /\ clients'[c] = [last_heartbeat_time  |-> now,
                        interested_resources |-> InterestedResources(c)]
  BY <1>1 DEF RegisterClientLocked, Put, Registered
<1>4. RegistryInv'
  BY <1>1, <1>2, RegisterClientInv DEF Inv, TypeOK, RegistryInv
<1>5. TypeOK'
  <2>1. DOMAIN heard' \subseteq (IF listener THEN Client ELSE {})
    BY <1>1 DEF Inv, TypeOK, OnClientJoined, Put
  <2>2. DOMAIN acked' \subseteq Client
    BY <1>1 DEF Inv, TypeOK, Put
  <2> QED
    BY <1>2, <1>4, <2>1, <2>2 DEF Inv, TypeOK, RegistryInv
<1>6. ListenerMirrors'
  <2>1. \A d \in Registered : InterestedResources(d)' = InterestedResources(d)
    BY <1>3 DEF InterestedResources
  <2>2. CASE c \in Registered
    BY <1>1, <1>3, <2>1, <2>2 DEF Inv, ListenerMirrors
  <2>3. CASE c \notin Registered
    <3>1. InterestedResources(c)' = {}
      BY <1>3, <2>3 DEF InterestedResources
    <3>2. \A d \in DOMAIN heard' : \/ d = c /\ heard'[d] = {}
                                   \/ d \in DOMAIN heard /\ heard'[d] = heard[d]
      BY <1>1, <2>3 DEF OnClientJoined, Put
    <3> QED
      BY <1>3, <2>1, <3>1, <3>2 DEF Inv, ListenerMirrors
  <2> QED
    BY <2>2, <2>3
<1>7. AckedInfo' /\ AckedClientsKept'
  <2>1. \A d \in DOMAIN acked' : \/ d = c /\ acked'[d] = clients'[c]
                                 \/ d # c /\ d \in DOMAIN acked /\ acked'[d] = acked[d]
    BY <1>1 DEF Put
  <2>2. clients'[c] \in ClientInfo
    BY <1>3, <1>4 DEF RegistryInv, RegistryTypeOK, ClientInfo
  <2> QED
    BY <1>2, <1>3, <2>1, <2>2 DEF Inv, AckedInfo, AckedClientsKept, ClientInfo
<1>8. QueryFresh'
  BY <1>2, <1>3, QueryFreshKept
<1> QED
  BY <1>4, <1>5, <1>6, <1>7, <1>8 DEF Inv, RegistryInv

LEMMA HeartbeatActionInv ==
  ASSUME Inv, NEW t \in Thread, NEW c \in Client, NEW R \in SUBSET Resource,
         Heartbeat(t, c, R)
  PROVE  Inv'
<1>1. /\ HeartbeatLocked(c, R)
      /\ acked' = Put(acked, c, clients'[c])
      /\ OnResourceInterestChanged(c, AddedResources(c, R), RemovedResources(c, R))
  BY DEF Heartbeat
<1>2. /\ phase' \in [Thread -> {"idle", "expiring", "body"}]
      /\ \A u \in Thread : phase'[u] = "body" => phase[u] = "body"
      /\ UNCHANGED <<now, reading, since, listener>>
  BY BodyEffect DEF Heartbeat
<1>3. /\ c \in Registered
      /\ Registered' = Registered
      /\ \A d \in Registered : d # c => clients'[d] = clients[d]
      /\ clients'[c] = [last_heartbeat_time |-> now, interested_resources |-> R]
  BY <1>1 DEF HeartbeatLocked, Put, Registered
<1>4. RegistryInv'
  BY <1>1, <1>2, HeartbeatInv DEF Inv, TypeOK, RegistryInv
<1>5. TypeOK'
  <2>1. DOMAIN heard' \subseteq (IF listener THEN Client ELSE {})
    BY <1>1 DEF Inv, TypeOK, OnResourceInterestChanged, Put
  <2>2. DOMAIN acked' \subseteq Client
    BY <1>1 DEF Inv, TypeOK, Put
  <2> QED
    BY <1>2, <1>4, <2>1, <2>2 DEF Inv, TypeOK, RegistryInv
<1>6. ListenerMirrors'
  <2>1. \A d \in DOMAIN heard' :
          /\ d \in DOMAIN heard
          /\ d # c => heard'[d] = heard[d]
          /\ d = c => heard'[d] = (heard[c] \cup AddedResources(c, R))
                                    \ RemovedResources(c, R)
    <3>1. CASE listener /\ c \in DOMAIN heard
      BY <1>1, <3>1 DEF OnResourceInterestChanged, Put
    <3>2. CASE ~(listener /\ c \in DOMAIN heard)
      <4>1. heard' = heard /\ c \notin DOMAIN heard
        BY <1>1, <3>2 DEF OnResourceInterestChanged, Inv, TypeOK
      <4> QED
        BY <4>1
    <3> QED
      BY <3>1, <3>2
  <2>2. InterestedResources(c) = clients[c].interested_resources
        /\ InterestedResources(c)' = R
    BY <1>3 DEF InterestedResources
  <2>3. (InterestedResources(c) \cup AddedResources(c, R)) \ RemovedResources(c, R) = R
    BY <2>2 DEF AddedResources, RemovedResources
  <2>4. \A d \in Registered : d # c => InterestedResources(d)' = InterestedResources(d)
    BY <1>3 DEF InterestedResources
  <2> QED
    BY <1>3, <2>1, <2>2, <2>3, <2>4 DEF Inv, ListenerMirrors
<1>7. AckedInfo' /\ AckedClientsKept'
  <2>1. \A d \in DOMAIN acked' : \/ d = c /\ acked'[d] = clients'[c]
                                 \/ d # c /\ d \in DOMAIN acked /\ acked'[d] = acked[d]
    BY <1>1 DEF Put
  <2>2. clients'[c] \in ClientInfo
    BY <1>3, <1>4 DEF RegistryInv, RegistryTypeOK, ClientInfo
  <2> QED
    BY <1>2, <1>3, <2>1, <2>2 DEF Inv, AckedInfo, AckedClientsKept, ClientInfo
<1>8. QueryFresh'
  BY <1>2, <1>3, QueryFreshKept
<1> QED
  BY <1>4, <1>5, <1>6, <1>7, <1>8 DEF Inv, RegistryInv

LEMMA UnregisterInv ==
  ASSUME Inv, NEW t \in Thread, NEW c \in Client, UnregisterClient(t, c)
  PROVE  Inv'
<1>1. /\ RemoveClients({c} \cap Registered)
      /\ OnClientLeft(Interests({c} \cap Registered))
      /\ acked' = Drop(acked, {c})
  BY DEF UnregisterClient, UnregisterClientLocked
<1>2. /\ phase' \in [Thread -> {"idle", "expiring", "body"}]
      /\ \A u \in Thread : phase'[u] = "body" => phase[u] = "body"
      /\ UNCHANGED <<now, reading, since, listener>>
  BY BodyEffect DEF UnregisterClient
<1>3. /\ Registered' = Registered \ {c}
      /\ \A d \in Registered' : clients'[d] = clients[d]
  BY <1>1 DEF RemoveClients, Drop, Registered
<1>4. RegistryInv'
  BY <1>2, UnregisterClientInv DEF Inv, TypeOK, RegistryInv, UnregisterClient
<1>5. /\ DOMAIN heard' \subseteq DOMAIN heard
      /\ \A d \in DOMAIN heard' : heard'[d] = heard[d]
      /\ listener /\ c \in Registered => c \notin DOMAIN heard'
      /\ ~listener => heard' = heard
  <2> DEFINE gone == {c} \cap Registered
  <2>1. gone \in SUBSET Registered /\ OnClientLeft(Interests(gone))
    BY <1>1
  <2>2. c \in Registered => c \in gone
    OBVIOUS
  <2> HIDE DEF gone
  <2>3. IF listener THEN heard' = Drop(heard, gone) ELSE heard' = heard
    BY <2>1, ListenerForgets DEF Inv
  <2> QED BY <2>2, <2>3 DEF Drop
<1>6. TypeOK'
  BY <1>1, <1>2, <1>4, <1>5 DEF Inv, TypeOK, RegistryInv, Drop
<1>7. ListenerMirrors'
  <2>1. ~listener => DOMAIN heard = {}
    BY DEF Inv, TypeOK
  <2> QED
    BY <1>3, <1>5, <2>1 DEF Inv, ListenerMirrors, InterestedResources
<1>8. AckedInfo' /\ AckedClientsKept'
  BY <1>1, <1>2, <1>3 DEF Inv, AckedInfo, AckedClientsKept, Drop, ClientInfo
<1>9. QueryFresh'
  BY <1>2, <1>3, QueryFreshKept
<1> QED
  BY <1>4, <1>6, <1>7, <1>8, <1>9 DEF Inv, RegistryInv

\* A query, or a heartbeat that is refused.
LEMMA ReadInv ==
  ASSUME Inv, NEW t \in Thread, NEW query \in BOOLEAN, Body(t, query),
         UNCHANGED <<registry, heard, acked>>
  PROVE  Inv'
<1>1. /\ phase' \in [Thread -> {"idle", "expiring", "body"}]
      /\ \A u \in Thread : phase'[u] = "body" => phase[u] = "body"
      /\ UNCHANGED <<now, reading, since, listener>>
  BY BodyEffect
<1>2. UNCHANGED <<clients, resource_to_clients, Registered, heard, acked>>
  BY DEF registry, Registered
<1>3. RegistryInv'
  BY <1>1, Times, TimePassesInv DEF Inv, TypeOK, RegistryInv, RegistryTypeOK
<1>4. TypeOK'
  BY <1>1, <1>2, <1>3 DEF Inv, TypeOK, RegistryInv
<1>5. ListenerMirrors' /\ AckedInfo' /\ AckedClientsKept'
  BY <1>1, <1>2 DEF Inv, ListenerMirrors, AckedInfo, AckedClientsKept, Registered,
                    InterestedResources, ClientInfo
<1>6. QueryFresh'
  BY <1>1, <1>2, QueryFreshKept
<1> QED
  BY <1>3, <1>4, <1>5, <1>6 DEF Inv, RegistryInv

LEMMA SetListenerInv ==
  ASSUME Inv, SetListener
  PROVE  Inv'
<1>1. /\ listener' \in BOOLEAN
      /\ heard' = [c \in {} |-> {}]
      /\ UNCHANGED <<clients, resource_to_clients, now, phase, reading, since, acked>>
  BY DEF SetListener, registry, calls
<1>2. RegistryInv'
  BY <1>1, Times, TimePassesInv DEF Inv, TypeOK, RegistryInv, RegistryTypeOK, registry
<1>3. TypeOK'
  BY <1>1, <1>2 DEF Inv, TypeOK, RegistryInv
<1>4. ListenerMirrors'
  BY <1>1 DEF ListenerMirrors
<1>5. AckedInfo' /\ AckedClientsKept' /\ QueryFresh'
  BY <1>1 DEF Inv, AckedInfo, AckedClientsKept, Registered, ClientInfo, QueryFresh,
              StaleClients, IsClientStale
<1> QED
  BY <1>2, <1>3, <1>4, <1>5 DEF Inv, RegistryInv

LEMMA TickInv ==
  ASSUME Inv, Tick
  PROVE  Inv'
<1>1. /\ now' \in Instant /\ now' > now
      /\ UNCHANGED <<clients, resource_to_clients, phase, reading, since,
                     listener, heard, acked>>
  BY DEF Tick, registry, calls
<1>2. now \in Int /\ now' \in Int
  BY <1>1, Times, TimeAssumption DEF Inv
<1>3. RegistryInv'
  BY <1>1, <1>2, TimePassesInv DEF Inv, TypeOK, RegistryInv, registry
<1>4. TypeOK'
  <2>1. \A t \in Thread : since[t] <= now'
    BY <1>1, <1>2, Times DEF Inv
  <2> QED
    BY <1>1, <1>3, <2>1 DEF Inv, TypeOK, RegistryInv
<1>5. ListenerMirrors' /\ AckedInfo'
  BY <1>1 DEF Inv, ListenerMirrors, AckedInfo, Registered, InterestedResources, ClientInfo
<1>6. AckedClientsKept'
  <2>1. \A c \in DOMAIN acked : acked[c].last_heartbeat_time \in Int
    <3>1. Instant \subseteq Int
      BY TimeAssumption
    <3> QED
      BY <3>1 DEF Inv, AckedInfo, ClientInfo
  <2> SUFFICES ASSUME NEW c \in DOMAIN acked,
                      now' - acked[c].last_heartbeat_time <= HeartbeatTimeout
               PROVE  c \in Registered /\ clients[c] = acked[c]
    BY <1>1 DEF AckedClientsKept, Registered
  <2>2. now - acked[c].last_heartbeat_time <= HeartbeatTimeout
    BY <1>1, <1>2, <2>1, TimeAssumption
  <2> QED
    BY <2>2 DEF Inv, AckedClientsKept
<1>7. QueryFresh'
  BY <1>1 DEF Inv, QueryFresh, StaleClients, IsClientStale, Registered
<1> QED
  BY <1>3, <1>4, <1>5, <1>6, <1>7 DEF Inv, RegistryInv

-----------------------------------------------------------------------------
LEMMA NextInv == Inv /\ [Next]_vars => Inv'
<1> SUFFICES ASSUME Inv, [Next]_vars PROVE Inv'
  OBVIOUS
<1>1. ASSUME NEW t \in Thread, Call(t) PROVE Inv'
  BY <1>1, CallInv
<1>2. ASSUME NEW t \in Thread, ExpireStaleClients(t) PROVE Inv'
  BY <1>2, ExpireInv
<1>3. ASSUME NEW t \in Thread, NEW c \in Client, RegisterClient(t, c) PROVE Inv'
  BY <1>3, RegisterInv
<1>4. ASSUME NEW t \in Thread, NEW c \in Client, NEW R \in SUBSET Resource,
             Heartbeat(t, c, R)
      PROVE  Inv'
  BY <1>4, HeartbeatActionInv
<1>5. ASSUME NEW t \in Thread, NEW c \in Client, HeartbeatRefused(t, c) PROVE Inv'
  BY <1>5, ReadInv DEF HeartbeatRefused
<1>6. ASSUME NEW t \in Thread, NEW c \in Client, UnregisterClient(t, c) PROVE Inv'
  BY <1>6, UnregisterInv
<1>7. ASSUME NEW t \in Thread, Query(t) PROVE Inv'
  BY <1>7, ReadInv DEF Query
<1>8. CASE SetListener
  BY <1>8, SetListenerInv
<1>9. CASE Tick
  BY <1>9, TickInv
<1>10. CASE UNCHANGED vars
  <2>1. RegistryInv'
    BY <1>10, Times, TimePassesInv DEF Inv, TypeOK, RegistryInv, RegistryTypeOK,
                                       vars, registry
  <2>2. TypeOK' /\ ListenerMirrors' /\ AckedInfo' /\ AckedClientsKept' /\ QueryFresh'
    BY <1>10, <2>1 DEF Inv, TypeOK, ListenerMirrors, AckedInfo, AckedClientsKept,
         QueryFresh, StaleClients, IsClientStale, Registered, InterestedResources,
         ClientInfo, RegistryInv, vars
  <2> QED
    BY <2>1, <2>2 DEF Inv, RegistryInv
<1> QED
  BY <1>1, <1>2, <1>3, <1>4, <1>5, <1>6, <1>7, <1>8, <1>9, <1>10 DEF Next

LEMMA InvHolds == Spec => []Inv
BY InitInv, NextInv, PTL DEF Spec

(***************************************************************************)
(* The registry's maps are well formed at every moment and the index has   *)
(* no empty entry (client_registry.cc, both erasures of an empty set).     *)
(***************************************************************************)
THEOREM TypeCorrect == Spec => []TypeOK
<1>1. Inv => TypeOK
  BY DEF Inv
<1> QED
  BY <1>1, InvHolds, PTL

(***************************************************************************)
(* GetClientsForResource returns exactly the registered clients whose last *)
(* heartbeat named the resource.                                           *)
(***************************************************************************)
THEOREM IndexIsExact == Spec => []ReverseIndexExact
<1>1. Inv => ReverseIndexExact
  BY DEF Inv
<1> QED
  BY <1>1, InvHolds, PTL

(***************************************************************************)
(* A listener that applies the registry's events in the order it gets them *)
(* knows the interests of every client it heard join.                      *)
(***************************************************************************)
THEOREM ListenerFollows == Spec => []ListenerMirrors
<1>1. Inv => ListenerMirrors
  BY DEF Inv
<1> QED
  BY <1>1, InvHolds, PTL

(***************************************************************************)
(* No client is dropped, or changed by another's call, before its timeout. *)
(***************************************************************************)
THEOREM AcknowledgedIsKept == Spec => []AckedClientsKept
<1>1. Inv => AckedClientsKept
  BY DEF Inv
<1> QED
  BY <1>1, InvHolds, PTL

(***************************************************************************)
(* Expiring and reading in two critical sections is good enough for this:  *)
(* no query sees a client that was stale when the query was called.        *)
(***************************************************************************)
THEOREM QueriesAreFresh == Spec => []QueryFresh
<1>1. Inv => QueryFresh
  BY DEF Inv
<1> QED
  BY <1>1, InvHolds, PTL

=============================================================================
