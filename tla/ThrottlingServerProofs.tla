----------------------- MODULE ThrottlingServerProofs -----------------------
(***************************************************************************)
(* The handlers, run by any number of threads over any clients, resources  *)
(* and limits: the tables stay well formed, the manager's mutex is held    *)
(* exactly by the thread that is in the registry on the manager's behalf,  *)
(* heartbeats are answered for what they declared, and every share handed  *)
(* out is the fair share of the limit and the clients in force.            *)
(***************************************************************************)
EXTENDS ThrottlingServer, ResourceManagerProofs

Changes == {"RegisterClient", "UnregisterClient", "Heartbeat"}

Allocations == UNION {[S -> Nat] : S \in SUBSET Resource}

Frame == [
  rpc          : Changes \cup {"none", "GetAllocation", "GetResourceLimit"},
  client       : Client \cup {Nobody},
  resource_ids : SUBSET Resource,
  at           : {"idle", "expire", "registry", "lock", "reply"},
  method       : Changes \cup {"none", "GetInterestedResources", "GetClientsForResource"},
  todo         : SUBSET Resource,
  resource     : Resource \cup {Nobody},
  rate_limit   : Nat,
  allocations  : Allocations]

\* What a frame's step says of its locals.
FrameOK(f) ==
  /\ f \in Frame
  /\ f.at \in {"idle", "lock", "reply"} <=> f.method = "none"
  /\ f.method \in Changes => f.client \in Client
  /\ f.method \in Changes \cup {"GetInterestedResources"} => f.allocations = NoMap
  /\ f.method = "GetClientsForResource" => f.resource \in f.todo
  /\ f.at = "reply" => f.todo = {}

FramesOK == frame \in [Thread -> Frame] /\ \A t \in Thread : FrameOK(frame[t])

MutexOK == \A t \in Thread : mutex = t <=> frame[t].method = "GetClientsForResource"

Inv == RegistryInv /\ ManagerTypeOK /\ FramesOK /\ MutexOK

-----------------------------------------------------------------------------
\* What the operators on frames return.
LEMMA PutAllocation ==
  ASSUME NEW m \in Allocations, NEW r \in Resource, NEW share \in Nat
  PROVE  Put(m, r, share) \in Allocations
<1>1. PICK S \in SUBSET Resource : m \in [S -> Nat]
  BY DEF Allocations
<1>2. Put(m, r, share) \in [S \cup {r} -> Nat]
  BY <1>1 DEF Put
<1>3. S \cup {r} \in SUBSET Resource
  OBVIOUS
<1> QED BY <1>2, <1>3 DEF Allocations

LEMMA IdleOK == FrameOK(Idle)
<1>1. NoMap \in Allocations
  <2>1. NoMap \in [{} -> Nat]
    BY DEF NoMap
  <2> QED BY <2>1 DEF Allocations
<1> QED BY <1>1 DEF FrameOK, Frame, Idle, Changes

LEMMA ContinueOK ==
  ASSUME NEW f \in Frame PROVE FrameOK(Continue(f))
<1>1. Continue(f) \in Frame
  BY DEF Frame, Continue, Changes
<1>2. /\ Continue(f).method = "none"
      /\ Continue(f).at \in {"lock", "reply"}
      /\ Continue(f).at = "reply" => Continue(f).todo = {}
  BY DEF Frame, Continue
<1> QED BY <1>1, <1>2 DEF FrameOK, Changes

LEMMA AllocatedOK ==
  ASSUME NEW f \in Frame, NEW r \in Resource, NEW share \in Nat
  PROVE  FrameOK(Allocated(f, r, share))
<1> DEFINE g == [f EXCEPT !.todo = @ \ {r}, !.allocations = Put(@, r, share)]
<1>1. f.allocations \in Allocations
  BY DEF Frame
<1>2. Put(f.allocations, r, share) \in Allocations
  BY <1>1, PutAllocation
<1>3. g \in Frame
  BY <1>2 DEF Frame
<1> QED BY <1>3, ContinueOK DEF Allocated

\* A thread goes on as f, and has the mutex afterwards exactly if f says so.
LEMMA BecomeOK ==
  ASSUME FramesOK, MutexOK, NEW t \in Thread, NEW f, FrameOK(f), Become(t, f),
         mutex' = t <=> f.method = "GetClientsForResource",
         \A s \in Thread \ {t} : mutex' = s <=> mutex = s
  PROVE  FramesOK' /\ MutexOK'
<1>1. /\ frame' \in [Thread -> Frame]
      /\ frame'[t] = f
      /\ \A s \in Thread \ {t} : frame'[s] = frame[s]
  BY DEF FramesOK, Become, FrameOK
<1> QED BY <1>1 DEF FramesOK, MutexOK, FrameOK

\* The manager's part of an action that leaves the limits and the mutex alone.
LEMMA ManagerUnchanged ==
  ASSUME ManagerTypeOK, UNCHANGED manager PROVE ManagerTypeOK'
BY DEF ManagerTypeOK, manager, Configured

LEMMA RegistryUnchanged ==
  ASSUME RegistryInv, UNCHANGED registry, UNCHANGED now PROVE RegistryInv'
BY TimePassesInv, TimeAssumption DEF RegistryInv, RegistryTypeOK

\* Neither does the frame that a thread goes on with change who has the mutex.
LEMMA BecomeKeepingMutex ==
  ASSUME Inv, NEW t \in Thread, NEW f, FrameOK(f), Become(t, f), UNCHANGED manager,
         frame[t].method # "GetClientsForResource",
         f.method # "GetClientsForResource"
  PROVE  FramesOK' /\ MutexOK'
<1>1. mutex' = t <=> f.method = "GetClientsForResource"
  BY DEF Inv, MutexOK, manager
<1>2. \A s \in Thread \ {t} : mutex' = s <=> mutex = s
  BY DEF manager
<1> QED BY <1>1, <1>2, BecomeOK DEF Inv

-----------------------------------------------------------------------------
(***************************************************************************)
(* A request arrives, or a limit changes.                                  *)
(***************************************************************************)
LEMMA ReceiveInv ==
  ASSUME Inv, NEW t \in Thread, NEW request, FrameOK(request),
         request.method # "GetClientsForResource", Receive(t, request)
  PROVE  Inv'
<1>1. RegistryInv' /\ ManagerTypeOK'
  BY RegistryUnchanged, ManagerUnchanged DEF Inv, Receive
<1>2. frame[t].method # "GetClientsForResource"
  BY DEF Inv, FramesOK, FrameOK, Receive, At
<1>3. FramesOK' /\ MutexOK'
  BY <1>2, BecomeKeepingMutex DEF Receive
<1> QED BY <1>1, <1>3 DEF Inv

LEMMA LimitsInv ==
  ASSUME Inv, UNCHANGED <<registry, now, frame, mutex>>, ManagerTypeOK'
  PROVE  Inv'
BY RegistryUnchanged DEF Inv, FramesOK, MutexOK

LEMMA SetLimitInv ==
  ASSUME Inv, NEW t \in Thread, NEW r \in Resource, NEW limit \in RateLimits,
         SetLimit(t, r, limit)
  PROVE  Inv'
<1>1. limit \in Nat
  BY LimitsAssumption DEF SetLimit, SetResourceLimit
<1>2. ManagerTypeOK'
  BY <1>1 DEF SetLimit, SetResourceLimit, Put, Inv, ManagerTypeOK, Configured
<1> QED BY <1>2, LimitsInv DEF SetLimit, SetResourceLimit

LEMMA RemoveLimitInv ==
  ASSUME Inv, NEW t \in Thread, NEW r \in Resource, RemoveLimit(t, r)
  PROVE  Inv'
<1>1. ManagerTypeOK'
  BY DEF RemoveLimit, RemoveResource, Drop, Inv, ManagerTypeOK, Configured
<1> QED BY <1>1, LimitsInv DEF RemoveLimit, RemoveResource

LEMMA RequestInv ==
  ASSUME Inv, NEW t \in Thread, Request(t) PROVE Inv'
<1>1. ASSUME NEW c \in Client, RegisterClient(t, c)
      PROVE  Inv'
  <2> DEFINE f == Enter([Idle EXCEPT !.rpc = "RegisterClient", !.client = c],
                         "RegisterClient")
  <2>1. FrameOK(f) /\ f.method # "GetClientsForResource"
    BY IdleOK DEF FrameOK, Frame, Idle, Enter, Changes
  <2>2. Receive(t, f)
    BY <1>1 DEF RegisterClient
  <2> HIDE DEF f
  <2> QED BY <2>1, <2>2, ReceiveInv
<1>2. ASSUME NEW c \in Client, UnregisterClient(t, c)
      PROVE  Inv'
  <2> DEFINE f == Enter([Idle EXCEPT !.rpc = "UnregisterClient", !.client = c],
                         "UnregisterClient")
  <2>1. FrameOK(f) /\ f.method # "GetClientsForResource"
    BY IdleOK DEF FrameOK, Frame, Idle, Enter, Changes
  <2>2. Receive(t, f)
    BY <1>2 DEF UnregisterClient
  <2> HIDE DEF f
  <2> QED BY <2>1, <2>2, ReceiveInv
<1>3. ASSUME NEW c \in Client, NEW resource_ids \in SUBSET Resource,
             Heartbeat(t, c, resource_ids)
      PROVE  Inv'
  <2> DEFINE f == Enter([Idle EXCEPT !.rpc = "Heartbeat", !.client = c,
                                       !.resource_ids = resource_ids],
                         "Heartbeat")
  <2>1. FrameOK(f) /\ f.method # "GetClientsForResource"
    BY IdleOK DEF FrameOK, Frame, Idle, Enter, Changes
  <2>2. Receive(t, f)
    BY <1>3 DEF Heartbeat
  <2> HIDE DEF f
  <2> QED BY <2>1, <2>2, ReceiveInv
<1>4. ASSUME NEW c \in Client, NEW r \in Resource, GetAllocation(t, c, r)
      PROVE  Inv'
  <2> DEFINE f == [Idle EXCEPT !.rpc = "GetAllocation", !.client = c,
                                 !.at = "lock", !.todo = {r}]
  <2>1. FrameOK(f) /\ f.method # "GetClientsForResource"
    BY IdleOK DEF FrameOK, Frame, Idle, Enter, Changes
  <2>2. Receive(t, f)
    BY <1>4 DEF GetAllocation
  <2> HIDE DEF f
  <2> QED BY <2>1, <2>2, ReceiveInv
<1>5. ASSUME NEW r \in Resource, GetResourceLimit(t, r)
      PROVE  Inv'
  <2> DEFINE f == [Idle EXCEPT !.rpc = "GetResourceLimit", !.at = "lock", !.todo = {r}]
  <2>1. FrameOK(f) /\ f.method # "GetClientsForResource"
    BY IdleOK DEF FrameOK, Frame, Idle, Enter, Changes
  <2>2. Receive(t, f)
    BY <1>5 DEF GetResourceLimit
  <2> HIDE DEF f
  <2> QED BY <2>1, <2>2, ReceiveInv
<1> QED
  BY <1>1, <1>2, <1>3, <1>4, <1>5, SetLimitInv, RemoveLimitInv DEF Request

-----------------------------------------------------------------------------
(***************************************************************************)
(* The critical sections.  First those in which the manager has no part.   *)
(***************************************************************************)
LEMMA FrameOfThread ==
  ASSUME Inv, NEW t \in Thread
  PROVE  FrameOK(frame[t]) /\ frame[t] \in Frame
BY DEF Inv, FramesOK

LEMMA ExpireStaleClientsInv ==
  ASSUME Inv, NEW t \in Thread, ExpireStaleClients(t) PROVE Inv'
<1> DEFINE f == [frame[t] EXCEPT !.at = "registry"]
<1>1. UNCHANGED manager /\ Become(t, f) /\ UNCHANGED now
  BY DEF ExpireStaleClients, OnClientLeft
<1>2. FrameOK(f) /\ f.method = frame[t].method
  BY FrameOfThread DEF ExpireStaleClients, At, FrameOK, Frame
<1>3. RegistryInv'
  <2>1. StaleClients(now) \in SUBSET Registered
    BY DEF StaleClients
  <2> QED BY <1>1, <2>1, RemoveClientsInv DEF ExpireStaleClients, Inv
<1>4. ManagerTypeOK'
  BY <1>1, ManagerUnchanged DEF Inv
<1>5. FramesOK' /\ MutexOK'
  <2> HIDE DEF f
  <2>1. mutex' = t <=> f.method = "GetClientsForResource"
    BY <1>1, <1>2 DEF Inv, MutexOK, manager
  <2> QED BY <1>1, <1>2, <2>1, BecomeOK DEF Inv, manager
<1> QED BY <1>3, <1>4, <1>5 DEF Inv

\* The methods that change the registry, once nobody is stale.
LEMMA ChangeInv ==
  ASSUME Inv, NEW t \in Thread,
         FinishRegister(t) \/ FinishUnregister(t) \/ RecordHeartbeat(t)
  PROVE  Inv'
<1>1. /\ frame[t].method \in Changes /\ frame[t].client \in Client
      /\ frame[t].resource_ids \in SUBSET Resource
      /\ UNCHANGED <<now, manager>>
  BY FrameOfThread DEF FinishRegister, FinishUnregister, RecordHeartbeat, In, FrameOK,
                       Frame, Changes
<1>2. RegistryInv'
  BY <1>1, RegisterClientInv, UnregisterClientInv, HeartbeatInv
     DEF FinishRegister, FinishUnregister, RecordHeartbeat, Inv
<1>3. PICK f : FrameOK(f) /\ Become(t, f) /\ f.method # "GetClientsForResource"
  <2>1. CASE FinishRegister(t) \/ FinishUnregister(t)
    BY <2>1, IdleOK DEF FinishRegister, FinishUnregister, Idle
  <2>2. CASE RecordHeartbeat(t)
    <3> DEFINE g == Enter(frame[t], "GetInterestedResources")
    <3>1. FrameOK(g) /\ g.method = "GetInterestedResources"
      BY <2>2, FrameOfThread DEF RecordHeartbeat, In, Enter, FrameOK, Frame, Changes
    <3>2. Become(t, g)
      BY <2>2 DEF RecordHeartbeat
    <3> HIDE DEF g
    <3> QED BY <3>1, <3>2
  <2> QED BY <2>1, <2>2
<1>4. FramesOK' /\ MutexOK'
  BY <1>1, <1>3, BecomeKeepingMutex DEF Changes
<1>5. ManagerTypeOK'
  BY <1>1, ManagerUnchanged DEF Inv
<1> QED BY <1>2, <1>4, <1>5 DEF Inv

\* The steps that change nothing but their own frame.
LEMMA ReadInv ==
  ASSUME Inv, NEW t \in Thread,
         RefuseHeartbeat(t) \/ ReadInterests(t) \/ Reply(t)
  PROVE  Inv'
<1>1. UNCHANGED <<registry, now, manager>>
  BY DEF RefuseHeartbeat, ReadInterests, Reply
<1>2. frame[t].method # "GetClientsForResource"
  BY FrameOfThread DEF RefuseHeartbeat, ReadInterests, Reply, In, At, FrameOK
<1>3. PICK f : FrameOK(f) /\ Become(t, f) /\ f.method # "GetClientsForResource"
  <2>1. CASE RefuseHeartbeat(t) \/ Reply(t)
    BY <2>1, IdleOK DEF RefuseHeartbeat, Reply, Idle
  <2>2. CASE ReadInterests(t)
    <3> DEFINE g == [frame[t] EXCEPT !.todo = InterestedResources(frame[t].client)]
    <3>1. InterestedResources(frame[t].client) \in SUBSET Resource
      BY DEF InterestedResources, Inv, RegistryInv, RegistryTypeOK, ClientInfo
    <3>2. g \in Frame
      BY <3>1, FrameOfThread DEF Frame
    <3>3. Become(t, Continue(g))
      BY <2>2 DEF ReadInterests
    <3>4. FrameOK(Continue(g)) /\ Continue(g).method = "none"
      <4> HIDE DEF g
      <4> QED BY <3>2, ContinueOK DEF Continue, Frame
    <3> QED BY <3>3, <3>4
  <2> QED BY <2>1, <2>2
<1>4. FramesOK' /\ MutexOK'
  BY <1>1, <1>2, <1>3, BecomeKeepingMutex
<1> QED BY <1>1, <1>4, RegistryUnchanged, ManagerUnchanged DEF Inv

-----------------------------------------------------------------------------
(***************************************************************************)
(* The manager's mutex is taken, and given back.                           *)
(***************************************************************************)
LEMMA LookUpLimitInv ==
  ASSUME Inv, NEW t \in Thread, LookUpLimit(t) PROVE Inv'
<1>1. PICK r \in frame[t].todo :
        /\ TakeLimit(t, r)
        /\ Become(t, Enter([frame[t] EXCEPT !.resource = r,
                                            !.rate_limit = resource_limits[r]],
                           "GetClientsForResource"))
  BY DEF LookUpLimit
<1> DEFINE f == Enter([frame[t] EXCEPT !.resource = r,
                                       !.rate_limit = resource_limits[r]],
                      "GetClientsForResource")
<1>2. resource_limits[r] \in Nat /\ r \in Resource
  BY <1>1, FrameOfThread DEF TakeLimit, Inv, ManagerTypeOK, Configured, Frame
<1>3. FrameOK(f) /\ f.method = "GetClientsForResource"
  BY <1>2, FrameOfThread DEF Enter, FrameOK, Frame, Changes
<1>4. mutex = Nobody /\ mutex' = t /\ UNCHANGED <<registry, now, resource_limits>>
  BY <1>1 DEF TakeLimit, LookUpLimit
<1>5. RegistryInv' /\ ManagerTypeOK'
  BY <1>4, RegistryUnchanged DEF Inv, ManagerTypeOK, Configured
<1>6. FramesOK' /\ MutexOK'
  <2> HIDE DEF f
  <2>1. Become(t, f)
    BY <1>1 DEF f
  <2>2. \A s \in Thread \ {t} : mutex' = s <=> mutex = s
    BY <1>4, LimitsAssumption
  <2> QED BY <1>3, <1>4, <2>1, <2>2, BecomeOK DEF Inv
<1> QED BY <1>5, <1>6 DEF Inv

LEMMA FindNoLimitInv ==
  ASSUME Inv, NEW t \in Thread, FindNoLimit(t) PROVE Inv'
<1>1. PICK r \in frame[t].todo :
        /\ NoLimit(r)
        /\ Become(t, IF frame[t].rpc = "GetResourceLimit"
                       THEN Idle ELSE Allocated(frame[t], r, 0))
  BY DEF FindNoLimit
<1>2. UNCHANGED <<registry, now, manager>>
  BY <1>1 DEF FindNoLimit, NoLimit
<1>3. r \in Resource
  BY FrameOfThread DEF Frame
<1>4. /\ FrameOK(Allocated(frame[t], r, 0))
      /\ Allocated(frame[t], r, 0).method = "none"
  <2>1. FrameOK(Allocated(frame[t], r, 0))
    BY <1>3, FrameOfThread, AllocatedOK
  <2>2. Allocated(frame[t], r, 0).method = "none"
    BY FrameOfThread DEF Allocated, Continue, Frame
  <2> QED BY <2>1, <2>2
<1>5. FrameOK(Idle) /\ Idle.method = "none"
  BY IdleOK DEF Idle
<1>6. frame[t].method # "GetClientsForResource"
  BY FrameOfThread DEF FindNoLimit, At, FrameOK
<1>7. FramesOK' /\ MutexOK'
  BY <1>1, <1>2, <1>4, <1>5, <1>6, BecomeKeepingMutex
<1> QED BY <1>2, <1>7, RegistryUnchanged, ManagerUnchanged DEF Inv

LEMMA UnlockInv ==
  ASSUME Inv, NEW t \in Thread, ComputeShare(t) \/ CountClients(t) PROVE Inv'
<1>1. /\ In(t, "GetClientsForResource")
      /\ mutex' = Nobody /\ UNCHANGED <<registry, now, resource_limits>>
  BY DEF ComputeShare, CountClients, Unlock
<1>2. mutex = t
  BY <1>1 DEF In, Inv, MutexOK
<1>3. RegistryInv' /\ ManagerTypeOK'
  BY <1>1, RegistryUnchanged DEF Inv, ManagerTypeOK, Configured
<1>4. PICK f : FrameOK(f) /\ Become(t, f) /\ f.method = "none"
  <2>1. CASE CountClients(t)
    BY <2>1, IdleOK DEF CountClients, Idle
  <2>2. CASE ComputeShare(t)
    <3> DEFINE r == frame[t].resource
               share == FairShare(frame[t].rate_limit, frame[t].client,
                                  ClientsForResource(r))
    <3>1. r \in Resource /\ frame[t].rate_limit \in Nat
      BY <1>1, FrameOfThread DEF In, FrameOK, Frame
    <3>2. ClientsForResource(r) \in SUBSET Client
      BY DEF ClientsForResource, Inv, RegistryInv, RegistryTypeOK
    <3>3. share \in Nat
      BY <3>1, <3>2, FairShareType
    <3>4. Become(t, Allocated(frame[t], r, share))
      BY <2>2 DEF ComputeShare
    <3> HIDE DEF share, r
    <3>5. FrameOK(Allocated(frame[t], r, share))
      BY <3>1, <3>3, FrameOfThread, AllocatedOK
    <3>6. Allocated(frame[t], r, share).method = "none"
      BY FrameOfThread DEF Allocated, Continue, Frame
    <3> QED BY <3>4, <3>5, <3>6
  <2> QED BY <2>1, <2>2
<1>5. FramesOK' /\ MutexOK'
  <2>1. mutex' # t /\ \A s \in Thread \ {t} : mutex' = s <=> mutex = s
    BY <1>1, <1>2, LimitsAssumption
  <2> QED BY <1>4, <2>1, BecomeOK DEF Inv
<1> QED BY <1>3, <1>5 DEF Inv

-----------------------------------------------------------------------------
LEMMA TickInv ==
  ASSUME Inv, Tick PROVE Inv'
<1>1. now' >= now
  BY TimeAssumption DEF Tick, Inv, RegistryInv, RegistryTypeOK
<1>2. RegistryInv'
  BY <1>1, TimePassesInv DEF Tick, Inv
<1> QED BY <1>2, ManagerUnchanged DEF Tick, Inv, FramesOK, MutexOK, manager

LEMMA InitInv == Init => Inv
<1> SUFFICES ASSUME Init PROVE Inv
  OBVIOUS
<1>1. RegistryInv
  BY RegistryInitInv DEF Init
<1>2. ManagerTypeOK
  BY DEF Init, ManagerInit, ManagerTypeOK, Configured
<1>3. FramesOK
  BY IdleOK DEF Init, FramesOK, FrameOK
<1>4. MutexOK
  BY LimitsAssumption DEF Init, ManagerInit, MutexOK, Idle
<1> QED BY <1>1, <1>2, <1>3, <1>4 DEF Inv

LEMMA HandleInv ==
  ASSUME Inv, NEW t \in Thread, Handle(t) PROVE Inv'
BY ExpireStaleClientsInv, ChangeInv, ReadInv, LookUpLimitInv, FindNoLimitInv, UnlockInv
   DEF Handle

LEMMA NextInv == ASSUME Inv, [Next]_vars PROVE Inv'
<1>1. CASE UNCHANGED vars
  <2>1. UNCHANGED <<registry, now, frame, manager>>
    BY <1>1 DEF vars, registry, manager
  <2> QED BY <2>1, LimitsInv, ManagerUnchanged DEF Inv, manager
<1> QED BY <1>1, HandleInv, RequestInv, TickInv DEF Next

(***************************************************************************)
(* The registry's and the manager's tables stay well formed under every    *)
(* interleaving of handlers, and a thread holds the manager's mutex        *)
(* exactly while it is in GetClientsForResource on the manager's behalf.   *)
(***************************************************************************)
THEOREM TypeCorrect == Spec => []TypeOK
<1>1. Inv => TypeOK
  <2> SUFFICES ASSUME Inv, NEW t \in Thread
               PROVE  /\ DOMAIN frame[t].allocations \subseteq Resource
                      /\ frame[t].todo \subseteq Resource
    BY DEF Inv, TypeOK, RegistryInv, MutexOK
  <2>1. frame[t].allocations \in Allocations /\ frame[t].todo \in SUBSET Resource
    BY FrameOfThread DEF Frame
  <2> QED BY <2>1 DEF Allocations
<1> QED BY <1>1, InitInv, NextInv, PTL DEF Spec

(***************************************************************************)
(* The reverse index is exact under the handlers as well: the number of    *)
(* clients a share is divided by is the number of clients interested.      *)
(***************************************************************************)
THEOREM IndexIsExact == Spec => []ReverseIndexExact
<1>1. Inv => ReverseIndexExact
  BY DEF Inv, RegistryInv
<1> QED BY <1>1, InitInv, NextInv, PTL DEF Spec

-----------------------------------------------------------------------------
(***************************************************************************)
(* Answers.  As long as nothing disturbs it, what a heartbeat has answered *)
(* and what it still has to answer make up what it declared.               *)
(***************************************************************************)
Answering(t) ==
  undisturbed[t] =>
    /\ frame[t].at # "idle" /\ frame[t].method \notin Changes
    /\ InterestedResources(frame[t].client) = frame[t].resource_ids
    /\ frame[t].method # "GetInterestedResources" =>
         frame[t].todo \cup DOMAIN frame[t].allocations = frame[t].resource_ids

AnswerInv == Inv /\ \A t \in Thread : Answering(t)

LEMMA ContinueFields ==
  ASSUME NEW f \in Frame, NEW R
  PROVE  LET g == Continue([f EXCEPT !.todo = R])
         IN  /\ g.client = f.client /\ g.resource_ids = f.resource_ids
             /\ g.todo = R /\ g.allocations = f.allocations
             /\ g.method = "none" /\ g.at # "idle"
BY DEF Continue, Frame

LEMMA AllocatedFields ==
  ASSUME NEW f \in Frame, NEW r, NEW share
  PROVE  LET g == Allocated(f, r, share)
         IN  /\ g.client = f.client /\ g.resource_ids = f.resource_ids
             /\ g.todo = f.todo \ {r}
             /\ g.allocations = Put(f.allocations, r, share)
             /\ g.method = "none" /\ g.at # "idle"
BY DEF Allocated, Continue, Frame

\* What the thread's own steps do to an answer in the making.
LEMMA HandleAnswers ==
  ASSUME Inv, Inv', NEW t \in Thread, Handle(t), Answering(t), Observe, undisturbed'[t]
  PROVE  Answering(t)'
<1> DEFINE f == frame[t]
           g == frame'[t]
<1>1. /\ undisturbed[t] \/ In(t, "Heartbeat")
      /\ InterestedResources(f.client)' = f.resource_ids
      /\ g # Idle
  BY DEF Observe
<1>2. f \in Frame /\ FrameOK(f) /\ frame \in [Thread -> Frame]
  BY FrameOfThread DEF Inv, FramesOK
<1>3. \A x : Become(t, x) => g = x
  BY <1>2 DEF Become
<1>4. SUFFICES /\ g.client = f.client /\ g.resource_ids = f.resource_ids
               /\ g.at # "idle" /\ g.method \notin Changes
               /\ g.method # "GetInterestedResources" =>
                    g.todo \cup DOMAIN g.allocations = g.resource_ids
  BY <1>1 DEF Answering, InterestedResources
<1>5. CASE ExpireStaleClients(t)
  BY <1>1, <1>2, <1>3, <1>5 DEF ExpireStaleClients, At, In, Answering, Frame
<1>6. CASE FinishRegister(t) \/ FinishUnregister(t) \/ RefuseHeartbeat(t) \/ CountClients(t) \/ Reply(t)
  BY <1>1, <1>3, <1>6 DEF FinishRegister, FinishUnregister, RefuseHeartbeat, CountClients, Reply
<1>7. CASE RecordHeartbeat(t)
  BY <1>2, <1>3, <1>7 DEF RecordHeartbeat, Enter, Frame, Changes
<1>8. CASE ReadInterests(t)
  <2>1. f.allocations = NoMap /\ undisturbed[t]
    BY <1>1, <1>2, <1>8 DEF ReadInterests, In, FrameOK
  <2>2. InterestedResources(f.client) = f.resource_ids
    BY <2>1 DEF Answering
  <2>3. g = Continue([f EXCEPT !.todo = f.resource_ids])
    BY <1>3, <1>8, <2>2 DEF ReadInterests
  <2>4. DOMAIN NoMap = {}
    BY DEF NoMap
  <2> HIDE DEF f, g
  <2>5. /\ g.client = f.client /\ g.resource_ids = f.resource_ids
        /\ g.todo = f.resource_ids /\ g.allocations = f.allocations
        /\ g.method = "none" /\ g.at # "idle"
    BY <1>2, <2>3, ContinueFields, Zenon
  <2> QED BY <2>1, <2>4, <2>5 DEF Changes
<1>9. CASE LookUpLimit(t)
  BY <1>1, <1>2, <1>3, <1>9 DEF LookUpLimit, At, In, Answering, Enter, Frame, FrameOK, Changes
<1>10. CASE FindNoLimit(t) \/ ComputeShare(t)
  <2>1. PICK r, share : r \in f.todo /\ g = Allocated(f, r, share)
    BY <1>1, <1>2, <1>3, <1>10 DEF FindNoLimit, ComputeShare, In, FrameOK
  <2>2. f.method \notin Changes \cup {"GetInterestedResources"} /\ undisturbed[t]
    BY <1>1, <1>2, <1>10 DEF FindNoLimit, ComputeShare, At, In, FrameOK, Changes
  <2>3. f.todo \cup DOMAIN f.allocations = f.resource_ids
    BY <2>2 DEF Answering
  <2> HIDE DEF f, g
  <2>4. (f.todo \ {r}) \cup DOMAIN Put(f.allocations, r, share) = f.resource_ids
    BY <2>1, <2>3 DEF Put
  <2> QED BY <1>2, <2>1, <2>4, AllocatedFields DEF Changes
<1> QED
  BY <1>5, <1>6, <1>7, <1>8, <1>9, <1>10 DEF Handle

\* A thread that takes no step keeps its frame.
LEMMA OthersKeepFrames ==
  ASSUME Inv, NEW t \in Thread, NEW s \in Thread, s # t, Handle(s) \/ Request(s)
  PROVE  frame'[t] = frame[t]
<1>1. ASSUME NEW f, Become(s, f) PROVE frame'[t] = frame[t]
  BY <1>1 DEF Become, Inv, FramesOK
<1>2. CASE Handle(s)
  BY <1>1, <1>2 DEF Handle, ExpireStaleClients, FinishRegister, FinishUnregister,
     RecordHeartbeat, RefuseHeartbeat, ReadInterests, LookUpLimit, FindNoLimit,
     ComputeShare, CountClients, Reply
<1>3. CASE Request(s)
  BY <1>1, <1>3 DEF Request, RegisterClient, UnregisterClient, Heartbeat, GetAllocation,
     GetResourceLimit, SetLimit, RemoveLimit, Receive
<1> QED BY <1>2, <1>3

LEMMA AnswerNext ==
  ASSUME AnswerInv, [Next]_vars PROVE AnswerInv'
<1>1. Inv /\ Inv'
  BY NextInv DEF AnswerInv
<1> SUFFICES ASSUME NEW t \in Thread, undisturbed'[t] PROVE Answering(t)'
  BY <1>1 DEF AnswerInv, Answering
<1>2. Answering(t)
  BY DEF AnswerInv
<1>3. CASE UNCHANGED vars
  BY <1>2, <1>3 DEF vars, Answering, InterestedResources, Registered
<1>4. CASE Next
  <2>1. Observe /\ InterestedResources(frame[t].client)' = frame[t].resource_ids
    BY <1>4 DEF Next, Observe
  <2>2. CASE frame'[t] = frame[t]
    <3>1. undisturbed[t]
      BY <2>1, <2>2 DEF Observe
    <3> QED BY <1>2, <2>1, <2>2, <3>1 DEF Answering, InterestedResources
  <2>3. CASE frame'[t] # frame[t]
    <3>1. Handle(t) \/ Request(t)
      BY <1>1, <1>4, <2>3, OthersKeepFrames DEF Next, Tick
    <3>2. CASE Handle(t)
      BY <1>1, <1>2, <2>1, <3>2, HandleAnswers
    <3>3. CASE Request(t)
      <4>1. At(t, "idle")
        BY <3>3 DEF Request, RegisterClient, UnregisterClient, Heartbeat, GetAllocation,
           GetResourceLimit, SetLimit, RemoveLimit, Receive
      <4>2. undisturbed[t]
        BY <2>1, <4>1 DEF Observe, At, In
      <4> QED BY <1>2, <4>1, <4>2 DEF Answering, At
    <3> QED BY <3>1, <3>2, <3>3
  <2> QED BY <2>2, <2>3
<1> QED BY <1>3, <1>4

(***************************************************************************)
(* A heartbeat nobody disturbs is answered for exactly the resources it    *)
(* declared, whatever other handlers do between its critical sections.     *)
(***************************************************************************)
THEOREM UndisturbedIsAnswered == Spec => []HeartbeatAnswered
<1>1. Init => AnswerInv
  BY InitInv DEF Init, AnswerInv, Answering
<1>2. AnswerInv => HeartbeatAnswered
  <2> SUFFICES ASSUME AnswerInv, NEW t \in Thread, At(t, "reply"), undisturbed[t]
               PROVE  DOMAIN frame[t].allocations = frame[t].resource_ids
    BY DEF HeartbeatAnswered
  <2>1. FrameOK(frame[t]) /\ Answering(t)
    BY FrameOfThread DEF AnswerInv
  <2> QED BY <2>1 DEF At, FrameOK, Answering
<1> QED BY <1>1, <1>2, AnswerNext, PTL DEF Spec

-----------------------------------------------------------------------------
(***************************************************************************)
(* Shares.  The limit a thread has read is still in force when it asks for *)
(* the clients, because it has the mutex.                                  *)
(***************************************************************************)
LimitsHeld ==
  \A t \in Thread : frame[t].method = "GetClientsForResource" =>
    frame[t].rate_limit = LimitOf(frame[t].resource)

ShareInv == Inv /\ LimitsHeld /\ GrantsAreFair

\* Only a free mutex lets a limit change.
LEMMA LimitsChangeFree ==
  ASSUME Inv, [Next]_vars, resource_limits' # resource_limits
  PROVE  mutex = Nobody /\ UNCHANGED frame
BY DEF Next, Handle, Request, Tick, vars, manager, Receive,
   ExpireStaleClients, OnClientLeft, FinishRegister, FinishUnregister, RecordHeartbeat,
   RefuseHeartbeat, ReadInterests, LookUpLimit, TakeLimit, FindNoLimit, NoLimit,
   ComputeShare, CountClients, Unlock, Reply, RegisterClient, UnregisterClient,
   Heartbeat, GetAllocation, GetResourceLimit,
   SetLimit, SetResourceLimit, RemoveLimit, RemoveResource

\* Only two steps add an allocation to an answer.
LEMMA WhoAllocates ==
  ASSUME Inv, NEW t \in Thread, Handle(t) \/ Request(t),
         NEW r \in DOMAIN frame'[t].allocations \ DOMAIN frame[t].allocations
  PROVE  FindNoLimit(t) \/ ComputeShare(t)
<1> DEFINE f == frame[t]
<1>1. f \in Frame /\ \A x : Become(t, x) => frame'[t] = x
  BY FrameOfThread DEF Inv, FramesOK, Become
<1>2. DOMAIN NoMap = {} /\ Idle.allocations = NoMap
  BY DEF NoMap, Idle
<1>3. ASSUME Request(t) PROVE FALSE
  BY <1>1, <1>2, <1>3 DEF Request, RegisterClient, UnregisterClient, Heartbeat,
     GetAllocation, GetResourceLimit, SetLimit, RemoveLimit, Receive, Enter, Idle
<1>4. ASSUME FinishRegister(t) \/ FinishUnregister(t) \/ RefuseHeartbeat(t)
             \/ CountClients(t) \/ Reply(t)
      PROVE  FALSE
  BY <1>1, <1>2, <1>4 DEF FinishRegister, FinishUnregister, RefuseHeartbeat, CountClients, Reply
<1>5. ASSUME ExpireStaleClients(t) \/ RecordHeartbeat(t) \/ LookUpLimit(t) PROVE FALSE
  BY <1>1, <1>5 DEF ExpireStaleClients, RecordHeartbeat, LookUpLimit, Enter, Frame
<1>6. ASSUME ReadInterests(t) PROVE FALSE
  <2>1. frame'[t] = Continue([f EXCEPT !.todo = InterestedResources(f.client)])
    BY <1>1, <1>6 DEF ReadInterests
  <2> QED BY <1>1, <2>1 DEF Continue, Frame
<1> QED BY <1>3, <1>4, <1>5, <1>6 DEF Handle

\* The share that a step adds to an answer is fair, and the step changes nothing else.
LEMMA GrantIsFair ==
  ASSUME ShareInv, [Next]_vars, NEW r \in Resource, NEW t \in GrantedNow(r),
         frame[t].client \in ClientsForResource(r)
  PROVE  /\ UNCHANGED <<registry, resource_limits>>
         /\ frame'[t].allocations[r] =
              FairShare(LimitOf(r), frame[t].client, ClientsForResource(r))
<1> DEFINE f == frame[t]
<1>1. /\ t \in Thread
      /\ r \in DOMAIN frame'[t].allocations \ DOMAIN f.allocations
  BY DEF GrantedNow
<1>2. Inv /\ f \in Frame /\ FrameOK(f) /\ frame \in [Thread -> Frame]
  BY <1>1, FrameOfThread DEF ShareInv, Inv, FramesOK
<1>3. FindNoLimit(t) \/ ComputeShare(t)
  <2>1. frame'[t] # f
    BY <1>1
  <2>2. Handle(t) \/ Request(t)
    BY <1>1, <1>2, <2>1, OthersKeepFrames DEF Next, Tick, vars
  <2> QED BY <1>1, <1>2, <2>2, WhoAllocates
<1>4. \A x : Become(t, x) => frame'[t] = x
  BY <1>1, <1>2 DEF Become
<1>5. UNCHANGED <<registry, resource_limits>>
  BY <1>3 DEF FindNoLimit, NoLimit, ComputeShare, Unlock, manager
<1>6. ASSUME NEW q, NEW share, frame'[t] = Allocated(f, q, share)
      PROVE  q = r /\ frame'[t].allocations[r] = share
  <2>1. frame'[t].allocations = Put(f.allocations, q, share)
    BY <1>2, <1>6, AllocatedFields
  <2> QED BY <1>1, <2>1 DEF Put
<1>7. CASE FindNoLimit(t)
  <2>1. PICK q \in f.todo : /\ NoLimit(q)
                            /\ frame'[t] = Idle \/ frame'[t] = Allocated(f, q, 0)
    BY <1>4, <1>7 DEF FindNoLimit
  <2>2. frame'[t] # Idle
    BY <1>1 DEF Idle, NoMap
  <2>3. q = r /\ frame'[t].allocations[r] = 0
    BY <1>6, <2>1, <2>2
  <2>4. LimitOf(r) = 0
    BY <2>1, <2>3 DEF NoLimit, LimitOf
  <2>5. FairShare(0, f.client, ClientsForResource(r)) = 0
    <3>1. ClientsForResource(r) \in SUBSET Client
      BY <1>2 DEF ClientsForResource, Inv, RegistryInv, RegistryTypeOK
    <3> QED BY <3>1, NoShareOfNothing
  <2> QED BY <1>5, <2>3, <2>4, <2>5
<1>8. CASE ComputeShare(t)
  <2>1. f.method = "GetClientsForResource"
    BY <1>8 DEF ComputeShare, In
  <2>2. f.rate_limit = LimitOf(f.resource)
    BY <1>1, <2>1 DEF ShareInv, LimitsHeld
  <2>3. frame'[t] = Allocated(f, f.resource,
                              FairShare(f.rate_limit, f.client, ClientsForResource(f.resource)))
    BY <1>4, <1>8 DEF ComputeShare
  <2> HIDE DEF f
  <2>4. f.resource = r
    BY <1>6, <2>3
  <2> QED BY <1>5, <1>6, <2>2, <2>3, <2>4 DEF f
<1> QED BY <1>3, <1>7, <1>8

LEMMA LimitsStayHeld ==
  ASSUME ShareInv, [Next]_vars PROVE LimitsHeld'
<1>1. Inv /\ Inv'
  BY NextInv DEF ShareInv
<1> SUFFICES ASSUME NEW t \in Thread, frame'[t].method = "GetClientsForResource"
             PROVE  (frame[t].rate_limit = LimitOf(frame[t].resource))'
  BY DEF LimitsHeld
<1>2. CASE frame'[t] = frame[t]
  <2>1. frame[t].rate_limit = LimitOf(frame[t].resource) /\ mutex = t
    BY <1>1, <1>2 DEF ShareInv, LimitsHeld, Inv, MutexOK
  <2>2. UNCHANGED resource_limits
    BY <1>1, <2>1, LimitsChangeFree, LimitsAssumption
  <2> QED BY <1>2, <2>1, <2>2 DEF LimitOf, Configured
<1>3. CASE frame'[t] # frame[t]
  <2>1. UNCHANGED resource_limits
    BY <1>1, <1>3, LimitsChangeFree
  <2>2. Handle(t) \/ Request(t)
    BY <1>1, <1>3, OthersKeepFrames DEF Next, Tick, vars
  <2>3. frame[t] \in Frame /\ FrameOK(frame[t])
        /\ \A x : Become(t, x) => frame'[t] = x
    BY <1>1, FrameOfThread DEF Inv, FramesOK, Become
  <2>4. CASE LookUpLimit(t)
    <3>1. PICK r \in Configured :
            frame'[t] = Enter([frame[t] EXCEPT !.resource = r,
                                               !.rate_limit = resource_limits[r]],
                              "GetClientsForResource")
      BY <2>3, <2>4 DEF LookUpLimit, TakeLimit
    <3>2. frame'[t].resource = r /\ frame'[t].rate_limit = resource_limits[r]
      BY <2>3, <3>1 DEF Enter, Frame
    <3> QED BY <2>1, <3>1, <3>2 DEF LimitOf, Configured
  <2>5. CASE ExpireStaleClients(t)
    <3>1. frame'[t] = [frame[t] EXCEPT !.at = "registry"]
      BY <2>3, <2>5 DEF ExpireStaleClients
    <3>2. frame[t].method = "GetClientsForResource"
          /\ frame'[t].rate_limit = frame[t].rate_limit
          /\ frame'[t].resource = frame[t].resource
      BY <2>3, <3>1 DEF Frame
    <3> QED BY <2>1, <3>2 DEF ShareInv, LimitsHeld, LimitOf, Configured
  <2>6. CASE FinishRegister(t) \/ FinishUnregister(t) \/ RefuseHeartbeat(t)
             \/ CountClients(t) \/ Reply(t)
    BY <2>3, <2>6 DEF FinishRegister, FinishUnregister, RefuseHeartbeat, CountClients,
                      Reply, Idle
  <2>7. CASE RecordHeartbeat(t) \/ ReadInterests(t)
    BY <2>3, <2>7 DEF RecordHeartbeat, ReadInterests, Enter, Continue, Frame
  <2>8. CASE FindNoLimit(t) \/ ComputeShare(t)
    <3>1. PICK x : frame'[t] = Idle \/ \E r, share : frame'[t] = Allocated(frame[t], r, share)
      BY <2>3, <2>8 DEF FindNoLimit, ComputeShare
    <3> QED BY <2>3, <3>1, AllocatedFields DEF Idle
  <2>9. CASE Request(t)
    BY <1>3, <2>3, <2>9 DEF Request, RegisterClient, UnregisterClient, Heartbeat,
       GetAllocation, GetResourceLimit, SetLimit, RemoveLimit, Receive, Enter, Idle
  <2> QED BY <2>2, <2>4, <2>5, <2>6, <2>7, <2>8, <2>9 DEF Handle
<1> QED BY <1>2, <1>3

LEMMA GrantsStayFair ==
  ASSUME ShareInv, [Next]_vars PROVE GrantsAreFair'
<1>1. CASE UNCHANGED vars
  BY <1>1 DEF vars, ShareInv, GrantsAreFair, ClientsForResource, LimitOf, Configured
<1>2. CASE Next
  <2> SUFFICES ASSUME NEW r \in Resource, NEW c \in DOMAIN granted'[r]
               PROVE  /\ c \in ClientsForResource(r)'
                      /\ granted'[r][c] =
                           FairShare(LimitOf(r)', c, ClientsForResource(r)')
    BY DEF GrantsAreFair, FairShare
  <2> DEFINE kept == IF SameEpoch(r) THEN granted[r] ELSE NoMap
             told == {frame[t].client : t \in GrantedNow(r)} \cap ClientsForResource(r)
  <2>1. granted'[r] = [d \in DOMAIN kept \cup told |->
           IF d \in told
             THEN frame'[CHOOSE t \in GrantedNow(r) : frame[t].client = d].allocations[r]
             ELSE kept[d]]
    BY <1>2 DEF Next, Observe
  <2>2. CASE c \in told
    <3> DEFINE t == CHOOSE s \in GrantedNow(r) : frame[s].client = c
    <3>1. t \in GrantedNow(r) /\ frame[t].client = c
      BY <2>2
    <3>2. granted'[r][c] = frame'[t].allocations[r] /\ c \in ClientsForResource(r)
      BY <2>1, <2>2
    <3> HIDE DEF t, kept, told
    <3>3. /\ UNCHANGED <<registry, resource_limits>>
          /\ granted'[r][c] = FairShare(LimitOf(r), c, ClientsForResource(r))
      BY <3>1, <3>2, GrantIsFair
    <3>4. LimitOf(r)' = LimitOf(r) /\ ClientsForResource(r)' = ClientsForResource(r)
      BY <3>3 DEF LimitOf, Configured, ClientsForResource, registry
    <3> QED BY <3>2, <3>3, <3>4
  <2>3. CASE c \notin told
    <3>1. c \in DOMAIN kept /\ granted'[r][c] = kept[c]
      BY <2>1, <2>3
    <3>2. SameEpoch(r) /\ c \in DOMAIN granted[r] /\ granted'[r][c] = granted[r][c]
      BY <3>1 DEF NoMap
    <3>3. /\ c \in ClientsForResource(r)
          /\ granted[r][c] = FairShare(LimitOf(r), c, ClientsForResource(r))
      BY <3>2 DEF ShareInv, GrantsAreFair
    <3> QED BY <3>2, <3>3 DEF SameEpoch
  <2> QED BY <2>2, <2>3
<1> QED BY <1>1, <1>2

(***************************************************************************)
(* Every share handed out since a resource's limit or clients last changed *)
(* is that limit divided by the number of those clients, for any number of *)
(* handlers that compute shares while others change both.                  *)
(***************************************************************************)
THEOREM SharesAreFair == Spec => []GrantsAreFair
<1>1. Init => ShareInv
  <2> SUFFICES ASSUME Init PROVE LimitsHeld /\ GrantsAreFair
    BY InitInv DEF ShareInv
  <2> QED BY DEF Init, LimitsHeld, GrantsAreFair, Idle, NoMap
<1>2. ShareInv /\ [Next]_vars => ShareInv'
  BY NextInv, LimitsStayHeld, GrantsStayFair DEF ShareInv
<1>3. ShareInv => GrantsAreFair
  BY DEF ShareInv
<1> QED BY <1>1, <1>2, <1>3, PTL DEF Spec

-----------------------------------------------------------------------------
\* Only limits that are divisible among the clients are ever in force.
LimitsGiven == \A r \in Configured : resource_limits[r] \in RateLimits

LEMMA LimitsStayGiven ==
  ASSUME LimitsGiven, Inv, [Next]_vars PROVE LimitsGiven'
<1>1. CASE UNCHANGED resource_limits
  BY <1>1 DEF LimitsGiven, Configured
<1>2. CASE resource_limits' # resource_limits
  <2>1. PICK t \in Thread, r \in Resource :
          RemoveLimit(t, r) \/ \E limit \in RateLimits : SetLimit(t, r, limit)
    BY <1>2 DEF Next, Handle, Request, Tick, vars, manager, Receive,
       ExpireStaleClients, OnClientLeft, FinishRegister, FinishUnregister, RecordHeartbeat,
       RefuseHeartbeat, ReadInterests, LookUpLimit, TakeLimit, FindNoLimit, NoLimit,
       ComputeShare, CountClients, Unlock, Reply, RegisterClient, UnregisterClient,
       Heartbeat, GetAllocation, GetResourceLimit
  <2>2. ASSUME RemoveLimit(t, r) PROVE LimitsGiven'
    BY <2>2 DEF RemoveLimit, RemoveResource, Drop, LimitsGiven, Configured
  <2>3. ASSUME NEW limit \in RateLimits, SetLimit(t, r, limit) PROVE LimitsGiven'
    BY <2>3 DEF SetLimit, SetResourceLimit, Put, LimitsGiven, Configured
  <2> QED BY <2>1, <2>2, <2>3
<1> QED BY <1>1, <1>2

(***************************************************************************)
(* The shares handed out for a resource since its limit or its clients     *)
(* last changed never exceed the limit together, and are the whole limit   *)
(* once every interested client has asked, for any number of clients.      *)
(***************************************************************************)
THEOREM SharesAddUp == Spec => []SharesWithinLimit
<1> DEFINE SumInv == ShareInv /\ LimitsGiven
<1>1. Init => SumInv
  <2> SUFFICES ASSUME Init PROVE ShareInv /\ LimitsGiven
    OBVIOUS
  <2>1. LimitsHeld /\ GrantsAreFair
    BY DEF Init, LimitsHeld, GrantsAreFair, Idle, NoMap
  <2>2. LimitsGiven
    BY DEF Init, ManagerInit, LimitsGiven, Configured
  <2> QED BY <2>1, <2>2, InitInv DEF ShareInv
<1>2. SumInv /\ [Next]_vars => SumInv'
  BY NextInv, LimitsStayHeld, GrantsStayFair, LimitsStayGiven DEF ShareInv
<1>3. SumInv => SharesWithinLimit
  <2> SUFFICES ASSUME ShareInv, LimitsGiven, NEW r \in Resource
               PROVE  /\ SumFunction(granted[r]) <= LimitOf(r)
                      /\ DOMAIN granted[r] = ClientsForResource(r) /\ DOMAIN granted[r] # {} =>
                           SumFunction(granted[r]) = LimitOf(r)
    BY DEF SharesWithinLimit
  <2>1. LimitOf(r) \in RateLimits \cup {0} /\ LimitOf(r) >= 0
    BY DEF ShareInv, Inv, ManagerTypeOK, LimitsGiven, LimitOf
  <2>2. ClientsForResource(r) \in SUBSET Client
    BY DEF ShareInv, Inv, RegistryInv, RegistryTypeOK, ClientsForResource
  <2>3. /\ DOMAIN granted[r] \in SUBSET ClientsForResource(r)
        /\ \A c \in DOMAIN granted[r] :
             granted[r][c] = FairShare(LimitOf(r), c, ClientsForResource(r))
    BY DEF ShareInv, GrantsAreFair
  <2> DEFINE limit == LimitOf(r)
             interested == ClientsForResource(r)
             shares == granted[r]
  <2>4. /\ SumFunction(shares) <= limit
        /\ interested \subseteq DOMAIN shares /\ interested # {} => SumFunction(shares) = limit
    <3> HIDE DEF limit, interested, shares
    <3>1. /\ limit \in RateLimits \cup {0} /\ limit >= 0
          /\ interested \in SUBSET Client
          /\ DOMAIN shares \subseteq Client
          /\ \A c \in DOMAIN shares : shares[c] = FairShare(limit, c, interested)
      BY <2>1, <2>2, <2>3 DEF limit, interested, shares
    <3> QED BY ONLY <3>1, FairSharesAddUp
  <2> QED BY <2>4
<1> HIDE DEF SumInv
<1> QED BY <1>1, <1>2, <1>3, PTL DEF Spec

=============================================================================
