-------------------------- MODULE ThrottlingSystem --------------------------
(***************************************************************************)
(* The server and several clients over a network.  The server is its       *)
(* tables: a handler is one step here, behind the expiry that every        *)
(* handler begins with (ThrottlingServer has what happens inside).  A      *)
(* client is its running flag, its interests and the rates its buckets     *)
(* enforce (ThrottlingClient has its threads); one application thread      *)
(* starts and stops it.  Calls of one client overlap, are handled in any   *)
(* order and may be answered in another; they fail, before or after they   *)
(* were handled; clients crash and the server restarts.                    *)
(*                                                                         *)
(* The clock always reads Horizon, and instants further back than that are *)
(* indistinguishable: when time passes, every recorded instant moves back. *)
(***************************************************************************)
EXTENDS Integers, FiniteSets, Functions

CONSTANTS
  Client, Resource, HeartbeatTimeout, RateLimits,
  Interests,  \* the sets of resources applications declare
  Lasting,    \* clients that are never stopped and never die
  Timely,     \* clients that end each call within a tick
  Interval,   \* heartbeat_interval_ of those, in ticks
  MaxFaults   \* bound on the calls that fail, crashes and restarts

ASSUME SystemAssumption ==
  /\ HeartbeatTimeout \in Nat
  /\ RateLimits \subseteq Int
  /\ IsFiniteSet(Client)
  /\ \A limit \in RateLimits, n \in 1..Cardinality(Client) : limit % n = 0
  /\ Interests \subseteq SUBSET Resource
  /\ Timely \subseteq Client
  /\ Interval \in Nat \ {0}
  /\ MaxFaults \in Nat

VARIABLES
  clients, resource_to_clients,  \* the server's tables
  resource_limits,
  running,    \* running_ of each client
  interests,  \* resource_interests_
  rates,      \* token_buckets_: resource -> rate of its bucket
  call,       \* the calls in flight
  waited,     \* ticks a timely client's heartbeat thread has waited
  missed,     \* history: its heartbeats that have failed since one was answered
  steady,     \* history: ticks since a share last changed, up to Enough
  faults      \* faults so far

server  == <<clients, resource_to_clients, resource_limits, steady>>
library == <<running, interests, rates>>
vars    == <<server, library, call, waited, missed, faults>>

Horizon == HeartbeatTimeout + 1

INSTANCE ResourceManager WITH
  now <- Horizon, Instant <- 0..Horizon,
  mutex <- "free", Nobody <- "free", Thread <- {}

(***************************************************************************)
(* Each client's application thread and heartbeat thread make one call at  *)
(* a time; a third slot holds a request whose caller has given up.         *)
(***************************************************************************)
Slot   == {"app", "heartbeat", "lost"}
NoRates == [r \in {} |-> 0]
NoCall  == [rpc |-> "none", resource_ids |-> {}, at |-> "free", allocations |-> NoRates]

Send(rpc, resource_ids) ==
  [NoCall EXCEPT !.rpc = rpc, !.resource_ids = resource_ids, !.at = "sent"]

Is(c, s, rpc, at) == call[c][s].rpc = rpc /\ call[c][s].at = at
Free(c, s)        == call[c][s].at = "free"
Becomes(c, s, v)  == call' = [call EXCEPT ![c][s] = v]

Init ==
  /\ RegistryInit
  /\ resource_limits = NoRates
  /\ running = [c \in Client |-> FALSE]
  /\ interests = [c \in Client |-> {}]
  /\ rates = [c \in Client |-> NoRates]
  /\ call = [c \in Client |-> [s \in Slot |-> NoCall]]
  /\ waited = [c \in Client |-> 0]
  /\ missed = [c \in Client |-> 0]
  /\ steady = 0
  /\ faults = 0

-----------------------------------------------------------------------------
\* More ticks than a client can have waited since its last answer.
Enough == (MaxFaults + 1) * Interval + 1

\* A step that changes limits, interests or who is registered changes shares.
CountSteady ==
  steady' = IF UNCHANGED <<resource_limits, resource_to_clients, Registered>>
              THEN steady ELSE 0

(***************************************************************************)
(* The server.  A handler runs when no client is stale: ExpireStaleClients *)
(* comes first.  The answer to a lost request goes nowhere.                *)
(***************************************************************************)
\* Faulty variant of ToExpire: a call looks at its own client only.
ToExpireCaller(c) == StaleClients(Horizon) \cap {c}

\* Whom a call of c finds stale: whoever it is.
ToExpire(c) == StaleClients(Horizon)

ExpireStaleClients(c, s) ==
  /\ call[c][s].at = "sent"
  /\ ToExpire(c) # {}
  /\ RemoveClients(ToExpire(c))
  /\ UNCHANGED <<resource_limits, library, call, waited, missed, faults>>
  /\ CountSteady

Handle(c, s, rpc) ==
  /\ Is(c, s, rpc, "sent")
  /\ ToExpire(c) = {}
  /\ UNCHANGED <<resource_limits, library, waited, missed, faults>>

Answer(c, s, status, allocations) ==
  Becomes(c, s, IF s = "lost" THEN NoCall
             ELSE [NoCall EXCEPT !.rpc = call[c][s].rpc, !.at = status,
                                 !.allocations = allocations])

RegisterClient(c, s) ==
  /\ Handle(c, s, "RegisterClient")
  /\ RegisterClientLocked(c)
  /\ Answer(c, s, "ok", NoRates)
  /\ CountSteady

UnregisterClient(c, s) ==
  /\ Handle(c, s, "UnregisterClient")
  /\ UnregisterClientLocked(c)
  /\ Answer(c, s, "ok", NoRates)
  /\ CountSteady

Heartbeat(c, s) ==
  /\ Handle(c, s, "Heartbeat")
  /\ HeartbeatLocked(c, call[c][s].resource_ids)
  /\ Answer(c, s, "ok", [r \in call[c][s].resource_ids |->
                           FairShare(LimitOf(r), c, ClientsForResource(r)')])
  /\ CountSteady

HeartbeatRefused(c, s) ==
  /\ Handle(c, s, "Heartbeat")
  /\ c \notin Registered
  /\ Answer(c, s, "not_found", NoRates)
  /\ UNCHANGED <<clients, resource_to_clients, steady>>

\* A limit is set through some client's connection.
SetLimit(r, limit) ==
  /\ SetResourceLimit(r, limit)
  /\ UNCHANGED <<clients, resource_to_clients, library, call, waited, missed, faults>>
  /\ CountSteady

-----------------------------------------------------------------------------
\* The client library.
SetResourceInterests(c, resource_ids) ==
  /\ interests' = [interests EXCEPT ![c] = resource_ids]
  /\ UNCHANGED <<server, running, rates, call, waited, missed, faults>>

Start(c) ==
  /\ ~ running[c] /\ Free(c, "app")
  /\ Becomes(c, "app", Send("RegisterClient", {}))
  /\ UNCHANGED <<server, library, waited, missed, faults>>

\* The threads begin, and Start sends a heartbeat itself.
Started(c) ==
  /\ Is(c, "app", "RegisterClient", "ok")
  /\ running' = [running EXCEPT ![c] = TRUE]
  /\ Becomes(c, "app", Send("Heartbeat", interests[c]))
  /\ waited' = [waited EXCEPT ![c] = 0]
  /\ missed' = [missed EXCEPT ![c] = 0]
  /\ UNCHANGED <<server, interests, rates, faults>>

\* HeartbeatLoop.
SendHeartbeat(c) ==
  /\ running[c] /\ Free(c, "heartbeat")
  /\ c \in Timely => waited[c] = Interval
  /\ Becomes(c, "heartbeat", Send("Heartbeat", interests[c]))
  /\ UNCHANGED <<server, library, waited, missed, faults>>

\* SendHeartbeat returns, and the heartbeat thread waits again.
Done(c, s) ==
  /\ waited' = IF s = "heartbeat" THEN [waited EXCEPT ![c] = 0] ELSE waited
  /\ missed' = IF s = "heartbeat" THEN [missed EXCEPT ![c] = 0] ELSE missed
  /\ Becomes(c, s, NoCall)

\* Faulty variant of UpdateTokenBuckets: a bucket that exists keeps its rate.
UpdateNewTokenBuckets(c, s) ==
  /\ Is(c, s, "Heartbeat", "ok")
  /\ LET allocations == call[c][s].allocations
     IN  rates' = [rates EXCEPT ![c] = [r \in DOMAIN allocations |->
           IF r \in DOMAIN rates[c] THEN rates[c][r] ELSE allocations[r]]]
  /\ Done(c, s)
  /\ UNCHANGED <<server, running, interests, faults>>

UpdateTokenBuckets(c, s) ==
  /\ Is(c, s, "Heartbeat", "ok")
  /\ rates' = [rates EXCEPT ![c] = call[c][s].allocations]
  /\ Done(c, s)
  /\ UNCHANGED <<server, running, interests, faults>>

\* NOT_FOUND is an error like any other: the client goes on as it was.
HeartbeatNotFound(c, s) ==
  /\ Is(c, s, "Heartbeat", "not_found")
  /\ Done(c, s)
  /\ UNCHANGED <<server, library, faults>>

\* Stop joins the heartbeat thread before it unregisters ...
Stop(c) ==
  /\ c \notin Lasting
  /\ running[c] /\ Free(c, "app")
  /\ running' = [running EXCEPT ![c] = FALSE]
  /\ Becomes(c, "app", [NoCall EXCEPT !.rpc = "UnregisterClient", !.at = "joining"])
  /\ UNCHANGED <<server, interests, rates, waited, missed, faults>>

Unregister(c) ==
  /\ Is(c, "app", "UnregisterClient", "joining")
  /\ Free(c, "heartbeat")
  /\ Becomes(c, "app", Send("UnregisterClient", {}))
  /\ UNCHANGED <<server, library, waited, missed, faults>>

\* ... and clears the buckets whatever the answer.
Stopped(c) ==
  /\ Is(c, "app", "UnregisterClient", "ok")
  /\ rates' = [rates EXCEPT ![c] = NoRates]
  /\ Becomes(c, "app", NoCall)
  /\ UNCHANGED <<server, running, interests, waited, missed, faults>>

-----------------------------------------------------------------------------
(***************************************************************************)
(* Faults.  Of the calls given up, one whose request has not been handled  *)
(* yet may still reach the server.                                         *)
(***************************************************************************)
Fault == faults < MaxFaults /\ faults' = faults + 1

Leftover(c, S) ==
  {call[c]["lost"]} \cup {call[c][s] : s \in {q \in S : call[c][q].at = "sent"
                                                         /\ Free(c, "lost")}}

\* The caller sees an error: Start returns, a heartbeat is skipped, Stop goes on.
CallFails(c, s) ==
  /\ Fault
  /\ s # "lost" /\ call[c][s].at \in {"sent", "ok", "not_found"}
  /\ \E lost \in Leftover(c, {s}) :
       call' = [call EXCEPT ![c][s] = NoCall, ![c]["lost"] = lost]
  /\ rates' = IF call[c][s].rpc = "UnregisterClient"
                THEN [rates EXCEPT ![c] = NoRates] ELSE rates
  /\ waited' = IF s = "heartbeat" THEN [waited EXCEPT ![c] = 0] ELSE waited
  /\ missed' = IF s = "heartbeat" /\ c \in Timely
                 THEN [missed EXCEPT ![c] = @ + 1] ELSE missed
  /\ UNCHANGED <<server, running, interests>>

\* The client's process dies; a new one has declared nothing yet.
Crash(c) ==
  /\ Fault
  /\ c \notin Lasting
  /\ \E lost \in Leftover(c, {"app", "heartbeat"}) :
       call' = [call EXCEPT ![c] = [s \in Slot |-> IF s = "lost" THEN lost ELSE NoCall]]
  /\ running' = [running EXCEPT ![c] = FALSE]
  /\ interests' = [interests EXCEPT ![c] = {}]
  /\ rates' = [rates EXCEPT ![c] = NoRates]
  /\ UNCHANGED <<server, waited, missed>>

\* Nothing the server knows survives it, the limits included.
Restart ==
  /\ Fault
  /\ clients' = [c \in {} |-> {}]
  /\ resource_to_clients' = [r \in {} |-> {}]
  /\ resource_limits' = NoRates
  /\ UNCHANGED <<library, call, waited, missed>>
  /\ CountSteady

\* A tick; a timely client that is due, or in a call, goes first.
Tick ==
  /\ \A c \in Timely :
       /\ Free(c, "app") /\ Free(c, "heartbeat")
       /\ running[c] => waited[c] < Interval
  /\ clients' = [c \in Registered |->
       [clients[c] EXCEPT !.last_heartbeat_time = IF @ > 0 THEN @ - 1 ELSE 0]]
  /\ waited' = [c \in Client |->
       IF c \in Timely /\ running[c] THEN waited[c] + 1 ELSE waited[c]]
  /\ steady' = IF steady < Enough THEN steady + 1 ELSE steady
  /\ UNCHANGED <<resource_to_clients, resource_limits, library, call, missed, faults>>

-----------------------------------------------------------------------------
Handler(c, s) ==
  \/ ExpireStaleClients(c, s)
  \/ RegisterClient(c, s) \/ UnregisterClient(c, s)
  \/ Heartbeat(c, s) \/ HeartbeatRefused(c, s)

HeartbeatReturns(c, s) == UpdateTokenBuckets(c, s) \/ HeartbeatNotFound(c, s)
HeartbeatThread(c)     == SendHeartbeat(c) \/ HeartbeatReturns(c, "heartbeat")
AppThread(c)           == Started(c) \/ HeartbeatReturns(c, "app")
                          \/ Unregister(c) \/ Stopped(c)

Next ==
  \/ \E c \in Client :
       \/ \E s \in Slot : Handler(c, s) \/ CallFails(c, s)
       \/ AppThread(c) \/ HeartbeatThread(c)
       \/ Start(c) \/ Stop(c) \/ Crash(c)
       \/ \E resource_ids \in Interests : SetResourceInterests(c, resource_ids)
  \/ \E r \in Resource, limit \in RateLimits : SetLimit(r, limit)
  \/ Restart
  \/ Tick

Spec == Init /\ [][Next]_vars

(***************************************************************************)
(* Requests in flight are handled, answers are taken, running clients go   *)
(* on sending heartbeats, and time passes.  Faults and what applications   *)
(* do need not happen.                                                     *)
(***************************************************************************)
Fairness ==
  /\ \A c \in Client : WF_vars(AppThread(c)) /\ WF_vars(HeartbeatThread(c))
  /\ \A c \in Client, s \in Slot : WF_vars(Handler(c, s))
  /\ WF_vars(Tick)

FairSpec == Spec /\ Fairness

-----------------------------------------------------------------------------
Shares ==
  {0} \cup {limit \div n : limit \in {l \in RateLimits : l >= 0}, n \in 1..Cardinality(Client)}

Allocation == UNION {[S -> Shares] : S \in SUBSET Resource}

Call == [rpc : {"none", "RegisterClient", "UnregisterClient", "Heartbeat"},
         resource_ids : SUBSET Resource,
         at : {"free", "joining", "sent", "ok", "not_found"},
         allocations : Allocation]

\* The tables are well formed, limits are those that may be set, and whatever a
\* client enforces or is on its way to it is a share of such a limit.
TypeOK ==
  /\ RegistryTypeOK
  /\ Configured \subseteq Resource
  /\ \A r \in Configured : resource_limits[r] \in RateLimits /\ resource_limits[r] >= 0
  /\ running \in [Client -> BOOLEAN]
  /\ interests \in [Client -> SUBSET Resource]
  /\ rates \in [Client -> Allocation]
  /\ call \in [Client -> [Slot -> Call]]
  /\ waited \in [Client -> 0..Interval]
  /\ steady \in 0..Enough
  /\ faults \in 0..MaxFaults
  /\ missed \in [Client -> 0..faults]

FairRates(c) ==
  [r \in interests[c] |-> FairShare(LimitOf(r), c, ClientsForResource(r))]

Settled ==
  <>[][/\ UNCHANGED <<resource_limits, running, interests, faults>>
       /\ Registered' = Registered]_vars

(***************************************************************************)
(* Once limits, interests and the registered clients no longer change and  *)
(* no more calls fail, every registered client ends up enforcing exactly   *)
(* its fair shares, although heartbeats of different threads, and requests *)
(* given up long ago, are handled and answered in any order meanwhile.     *)
(***************************************************************************)
RatesConverge ==
  Settled => <>[](\A c \in Client : running[c] /\ c \in Registered =>
                    rates[c] = FairRates(c))

(***************************************************************************)
(* How long a change of a share may take to reach a timely client that     *)
(* runs and is registered: an interval, and one more for each heartbeat    *)
(* that failed meanwhile.  Whatever rate it enforces after that is its     *)
(* fair share, although Start's heartbeat and the heartbeat thread's       *)
(* overlap, and requests given up long ago are still handled.              *)
(***************************************************************************)
RatesInTime ==
  \A c \in Timely :
    running[c] /\ c \in Registered /\ missed[c] * Interval + waited[c] < steady =>
      \A r \in DOMAIN rates[c] :
        rates[c][r] = FairShare(LimitOf(r), c, ClientsForResource(r))

(***************************************************************************)
(* A client that stopped or died is forgotten for good, as long as one     *)
(* other client runs: expiry happens only when somebody calls, and         *)
(* requests left over may bring the client back.                           *)
(***************************************************************************)
DepartedIsForgotten ==
  \A c, d \in Client :
    c # d /\ <>[](~ running[c] /\ Free(c, "app") /\ running[d]) =>
      <>[](c \notin Registered)

(***************************************************************************)
(* What the server last heard of a timely client that runs is as old as    *)
(* the heartbeats that failed since and the wait for the next one: an      *)
(* interval each, whatever else is lost, late or left over.                *)
(***************************************************************************)
StalenessBounded ==
  \A c \in Timely : running[c] /\ c \in Registered =>
    Horizon - clients[c].last_heartbeat_time <= missed[c] * Interval + waited[c]

(***************************************************************************)
(* A timely client is expired only when as many heartbeats in a row have   *)
(* failed as fit into the timeout.  Otherwise, while it runs, it is        *)
(* dropped only with everything else when the server restarts, or by a     *)
(* request of its own past that it had given up.  (project.md: "margin for *)
(* network hiccups".)                                                      *)
(***************************************************************************)
TimelyIsKept ==
  [][\A c \in Timely :
       running[c] /\ c \in Registered /\ c \notin Registered' =>
         \/ Restart
         \/ UnregisterClient(c, "lost")
         \/ (missed[c] + 1) * Interval > HeartbeatTimeout]_vars

(***************************************************************************)
(* What a rate limit is: the total for the resource.  Once everything has  *)
(* settled the rates enforced for a resource add up to at most its limit.  *)
(***************************************************************************)
EnforcedRates(r) ==
  [c \in {d \in Client : running[d] /\ r \in DOMAIN rates[d]} |-> rates[c][r]]

TotalWithinLimit ==
  Settled => <>[](\A r \in Resource : SumFunction(EnforcedRates(r)) <= LimitOf(r))

=============================================================================
