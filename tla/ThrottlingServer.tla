-------------------------- MODULE ThrottlingServer --------------------------
(***************************************************************************)
(* The gRPC handlers of src/server over the client registry and the        *)
(* resource manager.  gRPC runs each call on a thread of its own; what a   *)
(* handler does between two critical sections is merged into the section   *)
(* before.  A request with an empty client id, or a negative limit, is     *)
(* answered INVALID_ARGUMENT at once and changes nothing.                  *)
(***************************************************************************)
EXTENDS ResourceManager, Functions

VARIABLES
  frame,        \* what each thread is doing
  undisturbed,  \* history: the client's interests are still those its heartbeat declared
  granted       \* history: shares handed out since a resource's limit or clients changed

vars == <<clients, resource_to_clients, now, resource_limits, mutex,
          frame, undisturbed, granted>>

NoMap == [x \in {} |-> 0]

(***************************************************************************)
(* A thread's stack: the RPC, its request, the step it is at, the registry *)
(* method it is in, and the locals of GetAllAllocations and GetAllocation. *)
(***************************************************************************)
Idle == [rpc |-> "none", client |-> Nobody, resource_ids |-> {}, at |-> "idle",
         method |-> "none", todo |-> {}, resource |-> Nobody, rate_limit |-> 0,
         allocations |-> NoMap]

At(t, step)     == frame[t].at = step
In(t, method)   == At(t, "registry") /\ frame[t].method = method
Become(t, f)    == frame' = [frame EXCEPT ![t] = f]
Enter(f, method) == [f EXCEPT !.at = "expire", !.method = method]

\* GetAllAllocations and GetAllocation: on to the next resource, or to the response.
Continue(f) == [f EXCEPT !.at = IF f.todo = {} THEN "reply" ELSE "lock",
                         !.method = "none", !.resource = Nobody, !.rate_limit = 0]

Allocated(f, r, share) ==
  Continue([f EXCEPT !.todo = @ \ {r}, !.allocations = Put(@, r, share)])

Init ==
  /\ now \in Instant
  /\ \A t \in Instant : now <= t
  /\ RegistryInit
  /\ ManagerInit
  /\ frame = [t \in Thread |-> Idle]
  /\ undisturbed = [t \in Thread |-> FALSE]
  /\ granted = [r \in Resource |-> NoMap]

-----------------------------------------------------------------------------
\* A request arrives.
Receive(t, request) ==
  /\ At(t, "idle")
  /\ Become(t, request)
  /\ UNCHANGED <<registry, now, manager>>

RegisterClient(t, c) ==
  Receive(t, Enter([Idle EXCEPT !.rpc = "RegisterClient", !.client = c],
                   "RegisterClient"))

UnregisterClient(t, c) ==
  Receive(t, Enter([Idle EXCEPT !.rpc = "UnregisterClient", !.client = c],
                   "UnregisterClient"))

Heartbeat(t, c, resource_ids) ==
  Receive(t, Enter([Idle EXCEPT !.rpc = "Heartbeat", !.client = c,
                                !.resource_ids = resource_ids],
                   "Heartbeat"))

GetAllocation(t, c, r) ==
  Receive(t, [Idle EXCEPT !.rpc = "GetAllocation", !.client = c,
                          !.at = "lock", !.todo = {r}])

GetResourceLimit(t, r) ==
  Receive(t, [Idle EXCEPT !.rpc = "GetResourceLimit", !.at = "lock", !.todo = {r}])

\* Its handler is one critical section.
SetLimit(t, r, limit) ==
  /\ At(t, "idle")
  /\ SetResourceLimit(r, limit)
  /\ UNCHANGED <<registry, now, frame>>

\* No handler calls RemoveResource; the program that embeds the manager may.
RemoveLimit(t, r) ==
  /\ At(t, "idle")
  /\ RemoveResource(r)
  /\ UNCHANGED <<registry, now, frame>>

-----------------------------------------------------------------------------
(***************************************************************************)
(* Every registry method first expires the stale clients in a section of   *)
(* its own, which tells the listener (the manager) of each; the clock is   *)
(* read once here (ClientRegistry reads it once per client).               *)
(***************************************************************************)
ExpireStaleClients(t) ==
  /\ At(t, "expire")
  /\ RemoveClients(StaleClients(now))
  /\ IF StaleClients(now) = {} THEN UNCHANGED manager ELSE OnClientLeft
  /\ Become(t, [frame[t] EXCEPT !.at = "registry"])
  /\ UNCHANGED now

FinishRegister(t) ==
  /\ In(t, "RegisterClient")
  /\ RegisterClientLocked(frame[t].client)
  /\ Become(t, Idle)
  /\ UNCHANGED <<now, manager>>

FinishUnregister(t) ==
  /\ In(t, "UnregisterClient")
  /\ UnregisterClientLocked(frame[t].client)
  /\ Become(t, Idle)
  /\ UNCHANGED <<now, manager>>

\* Faulty variant of RecordHeartbeat: only newly declared resources are answered.
RecordAndAnswerAdded(t) ==
  /\ In(t, "Heartbeat")
  /\ HeartbeatLocked(frame[t].client, frame[t].resource_ids)
  /\ LET f == frame[t]
     IN  Become(t, Continue([f EXCEPT !.todo = AddedResources(f.client, f.resource_ids)]))
  /\ UNCHANGED <<now, manager>>

RecordHeartbeat(t) ==
  /\ In(t, "Heartbeat")
  /\ HeartbeatLocked(frame[t].client, frame[t].resource_ids)
  /\ Become(t, Enter(frame[t], "GetInterestedResources"))
  /\ UNCHANGED <<now, manager>>

\* NOT_FOUND.
RefuseHeartbeat(t) ==
  /\ In(t, "Heartbeat")
  /\ frame[t].client \notin Registered
  /\ Become(t, Idle)
  /\ UNCHANGED <<registry, now, manager>>

\* GetAllAllocations reads the client's interests; the rest goes by this copy.
ReadInterests(t) ==
  /\ In(t, "GetInterestedResources")
  /\ Become(t, Continue([frame[t] EXCEPT !.todo = InterestedResources(frame[t].client)]))
  /\ UNCHANGED <<registry, now, manager>>

\* GetAllocation or GetResourceInfo takes the manager's mutex and finds a limit.
LookUpLimit(t) ==
  /\ At(t, "lock")
  /\ \E r \in frame[t].todo :
       /\ TakeLimit(t, r)
       /\ Become(t, Enter([frame[t] EXCEPT !.resource = r,
                                           !.rate_limit = resource_limits[r]],
                          "GetClientsForResource"))
  /\ UNCHANGED <<registry, now>>

\* No limit: an allocation of 0, or NOT_FOUND for GetResourceLimit.
FindNoLimit(t) ==
  /\ At(t, "lock")
  /\ \E r \in frame[t].todo :
       /\ NoLimit(r)
       /\ Become(t, IF frame[t].rpc = "GetResourceLimit"
                      THEN Idle
                      ELSE Allocated(frame[t], r, 0))
  /\ UNCHANGED <<registry, now>>

ComputeShare(t) ==
  /\ In(t, "GetClientsForResource")
  /\ frame[t].rpc # "GetResourceLimit"
  /\ LET f == frame[t]
     IN  Become(t, Allocated(f, f.resource,
                             FairShare(f.rate_limit, f.client,
                                       ClientsForResource(f.resource))))
  /\ Unlock
  /\ UNCHANGED <<registry, now>>

\* GetResourceInfo returns the limit and the number of interested clients.
CountClients(t) ==
  /\ In(t, "GetClientsForResource")
  /\ frame[t].rpc = "GetResourceLimit"
  /\ Become(t, Idle)
  /\ Unlock
  /\ UNCHANGED <<registry, now>>

Reply(t) ==
  /\ At(t, "reply")
  /\ Become(t, Idle)
  /\ UNCHANGED <<registry, now, manager>>

Tick ==
  /\ now' \in Instant
  /\ now' > now
  /\ UNCHANGED <<registry, manager, frame>>

-----------------------------------------------------------------------------
(***************************************************************************)
(* The history variables, written by every step.  A resource's grants      *)
(* start over whenever its limit or its set of interested clients changes. *)
(***************************************************************************)
SameEpoch(r) ==
  /\ LimitOf(r)' = LimitOf(r)
  /\ ClientsForResource(r)' = ClientsForResource(r)

GrantedNow(r) ==
  {t \in Thread : r \in DOMAIN frame'[t].allocations
                  /\ r \notin DOMAIN frame[t].allocations}

Observe ==
  /\ undisturbed' = [t \in Thread |->
       /\ undisturbed[t] \/ (In(t, "Heartbeat") /\ frame'[t] # frame[t])
       /\ frame[t].client \in Registered'
       /\ InterestedResources(frame[t].client)' = frame[t].resource_ids
       /\ frame'[t] # Idle]
  /\ granted' = [r \in Resource |->
       LET kept == IF SameEpoch(r) THEN granted[r] ELSE NoMap
           told == {frame[t].client : t \in GrantedNow(r)} \cap ClientsForResource(r)
       IN  [c \in DOMAIN kept \cup told |->
              IF c \in told
                THEN frame'[CHOOSE t \in GrantedNow(r) : frame[t].client = c].allocations[r]
                ELSE kept[c]]]

\* The steps that finish what thread t began.
Handle(t) ==
  \/ ExpireStaleClients(t)
  \/ FinishRegister(t)
  \/ FinishUnregister(t)
  \/ RecordHeartbeat(t)
  \/ RefuseHeartbeat(t)
  \/ ReadInterests(t)
  \/ LookUpLimit(t)
  \/ FindNoLimit(t)
  \/ ComputeShare(t)
  \/ CountClients(t)
  \/ Reply(t)

Request(t) ==
  \/ \E c \in Client :
       \/ RegisterClient(t, c)
       \/ UnregisterClient(t, c)
       \/ \E resource_ids \in SUBSET Resource : Heartbeat(t, c, resource_ids)
       \/ \E r \in Resource : GetAllocation(t, c, r)
  \/ \E r \in Resource :
       \/ GetResourceLimit(t, r)
       \/ RemoveLimit(t, r)
       \/ \E limit \in RateLimits : SetLimit(t, r, limit)

Next ==
  /\ \/ \E t \in Thread : Handle(t) \/ Request(t)
     \/ Tick
  /\ Observe

Spec == Init /\ [][Next]_vars

(***************************************************************************)
(* The operating system lets a handler that can go on go on.  Nothing is   *)
(* assumed of the order in which waiting threads get a mutex, nor that     *)
(* requests come or time passes.                                           *)
(***************************************************************************)
Fairness == \A t \in Thread : WF_vars(Handle(t) /\ Observe)

FairSpec == Spec /\ Fairness

-----------------------------------------------------------------------------
\* The tables are well formed, and a thread holds the manager's mutex exactly
\* while it is inside the registry on behalf of GetAllocation or GetResourceInfo.
TypeOK ==
  /\ RegistryTypeOK
  /\ ManagerTypeOK
  /\ \A t \in Thread :
       /\ DOMAIN frame[t].allocations \subseteq Resource
       /\ frame[t].todo \subseteq Resource
       /\ mutex = t <=> frame[t].method = "GetClientsForResource"

(***************************************************************************)
(* Fair shares add up: the allocations handed out for a resource while its *)
(* limit and its clients stay the same never exceed the limit together,    *)
(* and make up all of it once every interested client has asked            *)
(* (GetAllocation, called by any number of handlers at once).              *)
(***************************************************************************)
SharesWithinLimit ==
  \A r \in Resource :
    /\ SumFunction(granted[r]) <= LimitOf(r)
    /\ DOMAIN granted[r] = ClientsForResource(r) /\ DOMAIN granted[r] # {} =>
         SumFunction(granted[r]) = LimitOf(r)

(***************************************************************************)
(* Share by share: what was handed out since the limit or the clients last *)
(* changed is the equal share of the limit and the clients now in force,   *)
(* although its limit was read before, in another critical section than    *)
(* its clients.                                                            *)
(***************************************************************************)
GrantsAreFair ==
  \A r \in Resource : \A c \in DOMAIN granted[r] :
    /\ c \in ClientsForResource(r)
    /\ granted[r][c] = FairShare(LimitOf(r), c, ClientsForResource(r))

(***************************************************************************)
(* A heartbeat that is not disturbed by an expiry, an unregistration or    *)
(* another heartbeat of the same client is answered with an allocation for *)
(* each resource it declared and no other, although the answer is put      *)
(* together from several critical sections.                                *)
(***************************************************************************)
HeartbeatAnswered ==
  \A t \in Thread :
    At(t, "reply") /\ frame[t].rpc = "Heartbeat" /\ undisturbed[t] =>
      DOMAIN frame[t].allocations = frame[t].resource_ids

(***************************************************************************)
(* Whoever takes the manager's mutex releases it, though it calls the      *)
(* registry meanwhile, which may expire clients and then calls the manager *)
(* back on the same thread.                                                *)
(***************************************************************************)
MutexReleased == \A t \in Thread : mutex = t ~> mutex # t

=============================================================================
