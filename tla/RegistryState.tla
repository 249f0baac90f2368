--------------------------- MODULE RegistryState ---------------------------
(***************************************************************************)
(* The tables of src/client_registry and its critical sections: what each  *)
(* method does between taking the registry's mutex and releasing it.  When *)
(* the sections run, and by whom, is up to the modules that extend this    *)
(* one.                                                                    *)
(***************************************************************************)
EXTENDS Integers

CONSTANTS
  Client,            \* non-empty client ids
  Resource,          \* resource ids
  HeartbeatTimeout,  \* heartbeat_timeout_
  Instant            \* the readings of the steady clock

ASSUME TimeAssumption ==
  /\ HeartbeatTimeout \in Nat
  /\ Instant \subseteq Nat

VARIABLES
  clients,              \* clients_: registered client -> its ClientInfo
  resource_to_clients,  \* resource_to_clients_: resource -> interested clients
  now                   \* what clock_->Now() returns

registry == <<clients, resource_to_clients>>

ClientInfo ==
  [last_heartbeat_time : Instant, interested_resources : SUBSET Resource]

\* A std::map is a function on its keys.
Registered   == DOMAIN clients
Put(f, k, v) == [x \in DOMAIN f \cup {k} |-> IF x = k THEN v ELSE f[x]]
Drop(f, K)   == [x \in DOMAIN f \ K |-> f[x]]

RegistryInit ==
  /\ clients = [c \in {} |-> {}]
  /\ resource_to_clients = [r \in {} |-> {}]

-----------------------------------------------------------------------------
\* The lookups of GetClientsForResource and GetInterestedResources.
ClientsForResource(r) ==
  IF r \in DOMAIN resource_to_clients THEN resource_to_clients[r] ELSE {}

InterestedResources(c) ==
  IF c \in Registered THEN clients[c].interested_resources ELSE {}

\* Faulty variant of IsClientStale: the timeout itself already counts as stale.
IsClientStaleEarly(c, t) ==
  t - clients[c].last_heartbeat_time >= HeartbeatTimeout

\* IsClientStaleLocked with the clock reading t.
IsClientStale(c, t) ==
  t - clients[c].last_heartbeat_time > HeartbeatTimeout

StaleClients(t) == {c \in Registered : IsClientStale(c, t)}

-----------------------------------------------------------------------------
\* Both writers of the index erase an entry that has become empty.
NoEmptyEntries(index) ==
  [r \in {q \in DOMAIN index : index[q] # {}} |-> index[r]]

AddedResources(c, resource_ids)   == resource_ids \ clients[c].interested_resources
RemovedResources(c, resource_ids) == clients[c].interested_resources \ resource_ids

\* Faulty variant of IndexAfterHeartbeat: withdrawn interests stay in the index.
IndexOnlyGrows(c, resource_ids) ==
  [r \in DOMAIN resource_to_clients \cup AddedResources(c, resource_ids) |->
     ClientsForResource(r) \cup {d \in {c} : r \in AddedResources(c, resource_ids)}]

\* The index once c's interests are resource_ids: only the differences are touched.
IndexAfterHeartbeat(c, resource_ids) ==
  NoEmptyEntries(
    [r \in DOMAIN resource_to_clients \cup AddedResources(c, resource_ids) |->
       (ClientsForResource(r)
          \cup {d \in {c} : r \in AddedResources(c, resource_ids)})
          \    {d \in {c} : r \in RemovedResources(c, resource_ids)}])

\* Faulty variant of IndexAfterRemoval: entries that become empty are kept.
IndexKeepsEmptyEntries(gone) ==
  [r \in DOMAIN resource_to_clients |->
     resource_to_clients[r] \ {c \in gone : r \in clients[c].interested_resources}]

\* The index once the clients `gone' have been taken out of their own resources.
IndexAfterRemoval(gone) ==
  NoEmptyEntries(
    [r \in DOMAIN resource_to_clients |->
       resource_to_clients[r]
         \ {c \in gone : r \in clients[c].interested_resources}])

-----------------------------------------------------------------------------
\* RemoveClientLocked, for every client of `gone'.
RemoveClients(gone) ==
  /\ clients' = Drop(clients, gone)
  /\ resource_to_clients' = IndexAfterRemoval(gone)

(***************************************************************************)
(* ExpireStaleClients reads the clock once per client it looks at.  The    *)
(* section began no earlier than `since' and ends now, so it removes every *)
(* client stale at `since', and nothing that is not stale by now.          *)
(***************************************************************************)
MayExpire(gone, since) ==
  /\ gone \subseteq StaleClients(now)
  /\ StaleClients(since) \subseteq gone

\* RegisterClient: a known client keeps its interests.
RegisterClientLocked(c) ==
  /\ clients' = Put(clients, c, [last_heartbeat_time  |-> now,
                                 interested_resources |-> InterestedResources(c)])
  /\ UNCHANGED resource_to_clients

\* Faulty variant of HeartbeatLocked: an unchanged declaration is not recorded.
HeartbeatIfChanged(c, resource_ids) ==
  /\ c \in Registered
  /\ clients' = IF clients[c].interested_resources = resource_ids THEN clients
                 ELSE Put(clients, c, [last_heartbeat_time  |-> now,
                                       interested_resources |-> resource_ids])
  /\ resource_to_clients' = IndexAfterHeartbeat(c, resource_ids)

\* Heartbeat, for a registered client; any other is refused.
HeartbeatLocked(c, resource_ids) ==
  /\ c \in Registered
  /\ clients' = Put(clients, c, [last_heartbeat_time  |-> now,
                                 interested_resources |-> resource_ids])
  /\ resource_to_clients' = IndexAfterHeartbeat(c, resource_ids)

\* UnregisterClient: an unknown client is already gone.
UnregisterClientLocked(c) == RemoveClients({c} \cap Registered)

-----------------------------------------------------------------------------
RegistryTypeOK ==
  /\ now \in Instant
  /\ Registered \subseteq Client
  /\ clients = [c \in Registered |-> clients[c]]
  /\ \A c \in Registered :
       /\ clients[c] \in ClientInfo
       /\ clients[c].last_heartbeat_time <= now
  /\ DOMAIN resource_to_clients \subseteq Resource
  /\ resource_to_clients =
       [r \in DOMAIN resource_to_clients |-> resource_to_clients[r]]
  /\ \A r \in DOMAIN resource_to_clients :
       resource_to_clients[r] \in (SUBSET Client) \ {{}}

(***************************************************************************)
(* The reverse index answers exactly what the clients declared: after any  *)
(* mix of heartbeats, departures and expiries nobody is counted for a      *)
(* resource it does not want, and nobody who wants it is left out.         *)
(***************************************************************************)
ReverseIndexExact ==
  \A r \in Resource :
    ClientsForResource(r) = {c \in Registered : r \in InterestedResources(c)}

=============================================================================
