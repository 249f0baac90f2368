--------------------------- MODULE ClientRegistry ---------------------------
(***************************************************************************)
(* The registry of src/client_registry under concurrent callers.  Every    *)
(* method but SetListener is two critical sections: ExpireStaleClients     *)
(* takes and releases the mutex, and only then does the method take it     *)
(* again for its own work.  Between the two other threads run and time     *)
(* passes.  A thread's arguments matter to the second section only and are *)
(* chosen there.  An empty client id is refused by RegisterClient before   *)
(* any of this and by the other methods as unknown; it changes nothing.    *)
(***************************************************************************)
EXTENDS RegistryState

CONSTANT Thread

VARIABLES
  phase,     \* where each thread is in its call
  reading,   \* whether that call is one of the queries
  since,     \* the clock when that call began
  listener,  \* whether listener_ is set
  heard,     \* what the listener knows: client it heard join -> interests
  acked      \* history: the last contact acknowledged to each client, until it leaves

calls == <<phase, reading, since>>
vars  == <<clients, resource_to_clients, now, phase, reading, since,
           listener, heard, acked>>

Init ==
  /\ now \in Instant
  /\ \A t \in Instant : now <= t
  /\ RegistryInit
  /\ phase = [t \in Thread |-> "idle"]
  /\ reading = [t \in Thread |-> FALSE]
  /\ since = [t \in Thread |-> now]
  /\ listener = FALSE
  /\ heard = [c \in {} |-> {}]
  /\ acked = [c \in {} |-> {}]

-----------------------------------------------------------------------------
(***************************************************************************)
(* The events a listener receives, under the mutex.  It learns of a client *)
(* when it joins, and can follow only those.                               *)
(***************************************************************************)
OnClientJoined(c) ==
  heard' = IF listener THEN Put(heard, c, {}) ELSE heard

\* Faulty variant of Interests: they are looked up when the clients are gone.
NoInterests(gone) == [c \in gone |-> {}]

\* What RemoveClientLocked saves of the clients `gone' before it erases them.
Interests(gone) == [c \in gone |-> InterestedResources(c)]

(***************************************************************************)
(* The listener takes each client that left out of the resources reported  *)
(* with it, and knows it no more when it is in none.                       *)
(***************************************************************************)
OnClientLeft(left) ==
  LET remaining(c) == heard[c] \ left[c]
      forgotten    == {c \in DOMAIN left \cap DOMAIN heard : remaining(c) = {}}
  IN  heard' = IF listener
                 THEN [c \in DOMAIN heard \ forgotten |->
                         IF c \in DOMAIN left THEN remaining(c) ELSE heard[c]]
                 ELSE heard

\* Faulty variant of OnResourceInterestChanged: only additions are reported.
OnResourceInterestAdded(c, added, removed) ==
  heard' = IF listener /\ c \in DOMAIN heard
             THEN Put(heard, c, heard[c] \cup added)
             ELSE heard

OnResourceInterestChanged(c, added, removed) ==
  heard' = IF listener /\ c \in DOMAIN heard
             THEN Put(heard, c, (heard[c] \cup added) \ removed)
             ELSE heard

-----------------------------------------------------------------------------
Call(t) ==
  /\ phase[t] = "idle"
  /\ phase' = [phase EXCEPT ![t] = "expiring"]
  /\ \E query \in BOOLEAN : reading' = [reading EXCEPT ![t] = query]
  /\ since' = [since EXCEPT ![t] = now]
  /\ UNCHANGED <<registry, now, listener, heard, acked>>

\* Faulty variant of ExpireStaleClients: it stops at the first stale client it removes.
ExpireOneStaleClient(t) ==
  /\ phase[t] = "expiring"
  /\ \E gone \in SUBSET StaleClients(now) :
       /\ \A c, d \in gone : c = d
       /\ StaleClients(since[t]) # {} => gone # {}
       /\ RemoveClients(gone)
       /\ OnClientLeft(Interests(gone))
  /\ phase' = [phase EXCEPT ![t] = "body"]
  /\ UNCHANGED <<now, reading, since, listener, acked>>

ExpireStaleClients(t) ==
  /\ phase[t] = "expiring"
  /\ \E gone \in SUBSET StaleClients(now) :
       /\ MayExpire(gone, since[t])
       /\ RemoveClients(gone)
       /\ OnClientLeft(Interests(gone))
  /\ phase' = [phase EXCEPT ![t] = "body"]
  /\ UNCHANGED <<now, reading, since, listener, acked>>

\* The second section of a call, which is over with it.
Body(t, query) ==
  /\ phase[t] = "body" /\ reading[t] = query
  /\ phase' = [phase EXCEPT ![t] = "idle"]
  /\ UNCHANGED <<now, reading, since, listener>>

RegisterClient(t, c) ==
  /\ Body(t, FALSE)
  /\ RegisterClientLocked(c)
  /\ IF c \in Registered THEN UNCHANGED heard ELSE OnClientJoined(c)
  /\ acked' = Put(acked, c, clients'[c])

Heartbeat(t, c, resource_ids) ==
  /\ Body(t, FALSE)
  /\ HeartbeatLocked(c, resource_ids)
  /\ OnResourceInterestChanged(c, AddedResources(c, resource_ids),
                                  RemovedResources(c, resource_ids))
  /\ acked' = Put(acked, c, clients'[c])

\* A heartbeat of a client the registry does not know: NOT_FOUND, no change.
HeartbeatRefused(t, c) ==
  /\ Body(t, FALSE)
  /\ c \notin Registered
  /\ UNCHANGED <<registry, heard, acked>>

UnregisterClient(t, c) ==
  /\ Body(t, FALSE)
  /\ UnregisterClientLocked(c)
  /\ OnClientLeft(Interests({c} \cap Registered))
  /\ acked' = Drop(acked, {c})

(***************************************************************************)
(* The queries GetClientsForResource, GetInterestedResources,              *)
(* GetClientCount and IsClientRegistered: they change nothing, and differ  *)
(* in what they return of the same snapshot.                               *)
(***************************************************************************)
Query(t) ==
  /\ Body(t, TRUE)
  /\ UNCHANGED <<registry, heard, acked>>

\* A listener set now has heard of nobody.
SetListener ==
  /\ listener' \in BOOLEAN
  /\ heard' = [c \in {} |-> {}]
  /\ UNCHANGED <<registry, now, calls, acked>>

Tick ==
  /\ now' \in Instant
  /\ now' > now
  /\ UNCHANGED <<registry, calls, listener, heard, acked>>

Next ==
  \/ \E t \in Thread :
       \/ Call(t)
       \/ ExpireStaleClients(t)
       \/ \E c \in Client : RegisterClient(t, c)
       \/ \E c \in Client, R \in SUBSET Resource : Heartbeat(t, c, R)
       \/ \E c \in Client : HeartbeatRefused(t, c)
       \/ \E c \in Client : UnregisterClient(t, c)
       \/ Query(t)
  \/ SetListener
  \/ Tick

Spec == Init /\ [][Next]_vars

-----------------------------------------------------------------------------
\* The tables are well-formed maps, no entry of the index is empty, and no
\* heartbeat lies in the future.
TypeOK ==
  /\ RegistryTypeOK
  /\ phase \in [Thread -> {"idle", "expiring", "body"}]
  /\ reading \in [Thread -> BOOLEAN]
  /\ since \in [Thread -> Instant]
  /\ \A t \in Thread : since[t] <= now
  /\ listener \in BOOLEAN
  /\ DOMAIN heard \subseteq (IF listener THEN Client ELSE {})
  /\ DOMAIN acked \subseteq Client

(***************************************************************************)
(* A listener that applies the events it receives knows, for every client  *)
(* it heard join, exactly the interests the registry holds, and holds no   *)
(* client that is gone (OnClientLeft and OnResourceInterestChanged report  *)
(* all of a change, in the order the changes were made).                   *)
(***************************************************************************)
ListenerMirrors ==
  \A c \in DOMAIN heard :
    c \in Registered /\ heard[c] = InterestedResources(c)

(***************************************************************************)
(* An acknowledged registration or heartbeat holds for the whole timeout:  *)
(* until then, whatever other threads do, the registry has the client, the *)
(* time and the interests it acknowledged last.                            *)
(***************************************************************************)
AckedClientsKept ==
  \A c \in DOMAIN acked :
    now - acked[c].last_heartbeat_time <= HeartbeatTimeout =>
      c \in Registered /\ clients[c] = acked[c]

(***************************************************************************)
(* A query sees no client that was already stale when the query was        *)
(* called, although it reads the tables in another critical section than   *)
(* the one that expired the stale clients.                                 *)
(***************************************************************************)
QueryFresh ==
  \A t \in Thread : phase[t] = "body" => StaleClients(since[t]) = {}

=============================================================================
