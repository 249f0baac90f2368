-------------------------- MODULE ThrottlingClient --------------------------
(***************************************************************************)
(* The client library of src/client: threads of the application that call  *)
(* its public methods, its heartbeat thread and its worker thread.  An     *)
(* action is one critical section, one atomic access or one call of the    *)
(* server; what follows it up to the next is merged into it.  Both         *)
(* condition variables are waited for with a time-out, so that a wait may  *)
(* always end.  Methods that change nothing (GetAllocation, IsRunning,     *)
(* GetPendingCount), and a Start or Stop with nothing to do, are left out. *)
(*                                                                         *)
(* A bucket is taken as it appears (module IdealBucket): tokens come one   *)
(* at a time while its rate is positive.  A callback returns and calls     *)
(* nothing here.  The server's answers are inputs.                         *)
(***************************************************************************)
EXTENDS Integers, Sequences

CONSTANTS
  App,          \* threads of the application
  Manager,      \* those that call Start and Stop
  Request,      \* requests; one may be made again once it is over
  resource_id,  \* the resource of each request
  count,        \* and the number of tokens it asks for
  Resource,     \* resource ids
  Rates,        \* allocations the server answers with
  NoRequest

Thread == {"heartbeat", "worker"}
Actor  == App \cup Thread

ASSUME ClientAssumption ==
  /\ Manager \subseteq App
  /\ App \cap Thread = {}
  /\ NoRequest \notin Request
  /\ resource_id \in [Request -> Resource]
  /\ count \in [Request -> Int]
  /\ Rates \subseteq Int

VARIABLES
  running,             \* running_
  resource_interests,  \* resource_interests_
  token_buckets,       \* token_buckets_: resource -> its bucket
  pending_queue,       \* pending_queue_
  joinable,            \* whether each std::thread object has a thread to join
  terminated,          \* whether std::terminate has ended the process
  executed,            \* history: requests executed since Acquire was called
  frame                \* what each actor is doing

data    == <<resource_interests, token_buckets, pending_queue, executed>>
control == <<running, joinable, terminated>>
state   == <<data, control>>
vars    == <<state, frame>>

(***************************************************************************)
(* An actor's step and locals.  `bucket' is the raw pointer it looked up   *)
(* for its request: null, live, or erased since.                           *)
(***************************************************************************)
Idle == [at |-> "idle", request |-> NoRequest, bucket |-> "null",
         interests |-> {}, thread |-> "none"]

At(a, step)   == frame[a].at = step
Go(a, f)      == frame' = [frame EXCEPT ![a] = f]
GoTo(a, step) == Go(a, [Idle EXCEPT !.at = step])

Init ==
  /\ running = FALSE
  /\ resource_interests = {}
  /\ token_buckets = [r \in {} |-> 0]
  /\ pending_queue = <<>>
  /\ joinable = [t \in Thread |-> FALSE]
  /\ terminated = FALSE
  /\ executed = {}
  /\ frame = [a \in Actor |-> IF a \in App THEN Idle ELSE [Idle EXCEPT !.at = "ended"]]

-----------------------------------------------------------------------------
\* Buckets.  The constructor's burst size is the rate, and never changes after.
NewBucket(rate) ==
  LET r == IF rate > 0 THEN rate ELSE 0
  IN  [rate |-> r, burst_size |-> r, tokens |-> r]

\* Faulty variant of SetRate: the burst size follows the rate, the tokens do not.
SetRateAndBurst(bucket, rate) ==
  LET r == IF rate > 0 THEN rate ELSE 0
  IN  [bucket EXCEPT !.rate = r, !.burst_size = r]

SetRate(bucket, rate) == [bucket EXCEPT !.rate = IF rate > 0 THEN rate ELSE 0]

\* Faulty variant of Covers: the last token is never handed out.
CoversStrictly(bucket, n) == n <= 0 \/ bucket.tokens > n

Covers(bucket, n) == n <= 0 \/ bucket.tokens >= n

Consume(bucket, n) == IF n <= 0 THEN bucket ELSE [bucket EXCEPT !.tokens = @ - n]

\* Time passes: a bucket earns a token.
Refill(r) ==
  /\ r \in DOMAIN token_buckets
  /\ token_buckets[r].rate > 0
  /\ token_buckets[r].tokens < token_buckets[r].burst_size
  /\ token_buckets' = [token_buckets EXCEPT ![r].tokens = @ + 1]
  /\ UNCHANGED <<control, resource_interests, pending_queue, executed, frame>>

\* The frames once the buckets of the resources R are gone and actor a goes on as f.
Dangle(R, a, f) ==
  [b \in Actor |->
     IF b = a THEN f
     ELSE IF frame[b].bucket = "live" /\ resource_id[frame[b].request] \in R
       THEN [frame[b] EXCEPT !.bucket = "erased"]
       ELSE frame[b]]

-----------------------------------------------------------------------------
\* Start: running_ is read, and the server asked to register the client.
Start(a) ==
  /\ a \in Manager
  /\ At(a, "idle")
  /\ ~ running
  /\ GoTo(a, "register")
  /\ UNCHANGED state

RegisterFails(a) ==
  /\ At(a, "register")
  /\ GoTo(a, "idle")
  /\ UNCHANGED state

RegisterSucceeds(a) ==
  /\ At(a, "register")
  /\ running' = TRUE
  /\ Go(a, [Idle EXCEPT !.at = "spawn", !.thread = "heartbeat"])
  /\ UNCHANGED <<data, joinable, terminated>>

(***************************************************************************)
(* A thread begins and is assigned to its std::thread object; assigning to *)
(* an object that still has a thread calls std::terminate.                 *)
(***************************************************************************)
Spawn(a) ==
  /\ At(a, "spawn")
  /\ LET t == frame[a].thread
     IN  /\ terminated' = joinable[t]
         /\ joinable' = [joinable EXCEPT ![t] = TRUE]
         /\ frame' = [frame EXCEPT
              ![t] = [Idle EXCEPT !.at = IF t = "heartbeat" THEN "wait" ELSE "loop"],
              ![a] = IF t = "heartbeat" THEN [@ EXCEPT !.thread = "worker"]
                                        ELSE [Idle EXCEPT !.at = "copy"]]
  /\ UNCHANGED <<data, running>>

-----------------------------------------------------------------------------
\* SendHeartbeat, in the heartbeat thread or at the end of Start.
AfterHeartbeat(a) == IF a = "heartbeat" THEN "wait" ELSE "idle"

CopyInterests(a) ==
  /\ At(a, "copy")
  /\ Go(a, [Idle EXCEPT !.at = "rpc", !.interests = resource_interests])
  /\ UNCHANGED state

HeartbeatFails(a) ==
  /\ At(a, "rpc")
  /\ GoTo(a, AfterHeartbeat(a))
  /\ UNCHANGED state

(***************************************************************************)
(* The server has answered, usually with an allocation for each resource   *)
(* it was told of; with others, or none, if another heartbeat of this      *)
(* client or its expiry came in between.                                   *)
(***************************************************************************)
UpdateTokenBuckets(a) ==
  /\ At(a, "rpc")
  /\ \E answered \in SUBSET Resource : \E allocations \in [answered -> Rates] :
       /\ token_buckets' = [r \in answered |->
            IF r \in DOMAIN token_buckets THEN SetRate(token_buckets[r], allocations[r])
                                          ELSE NewBucket(allocations[r])]
       /\ frame' = Dangle(DOMAIN token_buckets \ answered, a,
                          [Idle EXCEPT !.at = AfterHeartbeat(a)])
  /\ UNCHANGED <<control, resource_interests, pending_queue, executed>>

\* HeartbeatLoop: the interval is over, or Stop has notified.
WakeUp ==
  /\ At("heartbeat", "wait")
  /\ GoTo("heartbeat", IF running THEN "copy" ELSE "ended")
  /\ UNCHANGED state

SetResourceInterests(a, resource_ids) ==
  /\ At(a, "idle")
  /\ resource_interests' = resource_ids
  /\ UNCHANGED <<control, token_buckets, pending_queue, executed, frame>>

-----------------------------------------------------------------------------
\* The lookup of Acquire and WorkerLoop: the pointer outlives the mutex.
Holding(q, missing) ==
  LET found == resource_id[q] \in DOMAIN token_buckets
  IN  [Idle EXCEPT !.request = q,
                   !.at     = IF found THEN "try" ELSE missing,
                   !.bucket = IF found THEN "live" ELSE "null"]

InUse == {frame[a].request : a \in Actor} \cup {pending_queue[i] : i \in DOMAIN pending_queue}

Acquire(a, q) ==
  /\ At(a, "idle")
  /\ q \notin InUse
  /\ executed' = executed \ {q}
  /\ Go(a, Holding(q, "enqueue"))
  /\ UNCHANGED <<control, resource_interests, token_buckets, pending_queue>>

(***************************************************************************)
(* TryConsume through the pointer.  On success the callback runs and the   *)
(* request is over; if not, it is queued, or put back by the worker.  A    *)
(* call on an erased bucket is undefined: it may return either.            *)
(***************************************************************************)
Executes(a) ==
  /\ At(a, "try")
  /\ LET r == resource_id[frame[a].request]
         n == count[frame[a].request]
     IN  IF frame[a].bucket = "live"
           THEN /\ Covers(token_buckets[r], n)
                /\ token_buckets' = [token_buckets EXCEPT ![r] = Consume(@, n)]
           ELSE UNCHANGED token_buckets
  /\ executed' = executed \cup {frame[a].request}
  /\ GoTo(a, IF a = "worker" THEN "loop" ELSE "idle")
  /\ UNCHANGED <<control, resource_interests, pending_queue>>

IsRefused(a) ==
  /\ At(a, "try")
  /\ frame[a].bucket = "live" =>
       ~ Covers(token_buckets[resource_id[frame[a].request]], count[frame[a].request])
  /\ Go(a, [Idle EXCEPT !.request = frame[a].request, !.at = "enqueue"])
  /\ UNCHANGED state

Enqueue(a) ==
  /\ a \in App /\ At(a, "enqueue")
  /\ pending_queue' = Append(pending_queue, frame[a].request)
  /\ GoTo(a, "idle")
  /\ UNCHANGED <<control, resource_interests, token_buckets, executed>>

-----------------------------------------------------------------------------
\* Faulty variant of LoopHead: the worker first empties the queue.
LoopHeadDraining ==
  /\ At("worker", "loop")
  /\ GoTo("worker", IF running \/ pending_queue # <<>> THEN "pop" ELSE "ended")
  /\ UNCHANGED state

\* WorkerLoop: running_ is read at the head of the loop ...
LoopHead ==
  /\ At("worker", "loop")
  /\ GoTo("worker", IF running THEN "pop" ELSE "ended")
  /\ UNCHANGED state

\* ... and again with the queue's mutex held: nothing came, or Stop was called.
FindNothing ==
  /\ At("worker", "pop")
  /\ pending_queue = <<>>
  /\ GoTo("worker", IF running THEN "loop" ELSE "ended")
  /\ UNCHANGED state

Pop ==
  /\ At("worker", "pop")
  /\ pending_queue # <<>>
  /\ pending_queue' = Tail(pending_queue)
  /\ Go("worker", [Idle EXCEPT !.at = "lookup", !.request = Head(pending_queue)])
  /\ UNCHANGED <<control, resource_interests, token_buckets, executed>>

LookUp ==
  /\ At("worker", "lookup")
  /\ Go("worker", Holding(frame["worker"].request, "enqueue"))
  /\ UNCHANGED state

\* Faulty variant of Requeue: the request goes to the end of the queue.
RequeueBehind ==
  /\ At("worker", "enqueue")
  /\ pending_queue' = Append(pending_queue, frame["worker"].request)
  /\ GoTo("worker", "loop")
  /\ UNCHANGED <<control, resource_interests, token_buckets, executed>>

Requeue ==
  /\ At("worker", "enqueue")
  /\ pending_queue' = <<frame["worker"].request>> \o pending_queue
  /\ GoTo("worker", "loop")
  /\ UNCHANGED <<control, resource_interests, token_buckets, executed>>

-----------------------------------------------------------------------------
\* Stop: running_ is read ...
Stop(a) ==
  /\ a \in Manager
  /\ At(a, "idle")
  /\ running
  /\ GoTo(a, "stop")
  /\ UNCHANGED state

\* ... and written, and everyone notified.
SignalStop(a) ==
  /\ At(a, "stop")
  /\ running' = FALSE
  /\ Go(a, [Idle EXCEPT !.at = "check", !.thread = "heartbeat"])
  /\ UNCHANGED <<data, joinable, terminated>>

\* Faulty variant of Joined: only the heartbeat thread is joined.
JoinedOne(a) == [Idle EXCEPT !.at = "unregister"]

\* From one thread to the next, and then to UnregisterClient.
Joined(a) ==
  IF frame[a].thread = "heartbeat"
    THEN [Idle EXCEPT !.at = "check", !.thread = "worker"]
    ELSE [Idle EXCEPT !.at = "unregister"]

CheckJoinable(a) ==
  /\ At(a, "check")
  /\ Go(a, IF joinable[frame[a].thread] THEN [frame[a] EXCEPT !.at = "join"] ELSE Joined(a))
  /\ UNCHANGED state

\* Faulty variant of Join: Stop does not wait for the thread.
Detach(a) ==
  /\ At(a, "join")
  /\ joinable' = [joinable EXCEPT ![frame[a].thread] = FALSE]
  /\ terminated' = ~ joinable[frame[a].thread]
  /\ Go(a, Joined(a))
  /\ UNCHANGED <<data, running>>

\* join() of an object another Stop has joined meanwhile throws.
Join(a) ==
  /\ At(a, "join")
  /\ At(frame[a].thread, "ended")
  /\ joinable' = [joinable EXCEPT ![frame[a].thread] = FALSE]
  /\ terminated' = ~ joinable[frame[a].thread]
  /\ Go(a, Joined(a))
  /\ UNCHANGED <<data, running>>

\* The server's answer to UnregisterClient is ignored.
ClearBuckets(a) ==
  /\ At(a, "unregister")
  /\ token_buckets' = [r \in {} |-> 0]
  /\ frame' = Dangle(DOMAIN token_buckets, a, [Idle EXCEPT !.at = "clear"])
  /\ UNCHANGED <<control, resource_interests, pending_queue, executed>>

ClearQueue(a) ==
  /\ At(a, "clear")
  /\ pending_queue' = <<>>
  /\ GoTo(a, "idle")
  /\ UNCHANGED <<control, resource_interests, token_buckets, executed>>

-----------------------------------------------------------------------------
\* What the application may do, and what goes on once begun.
Call(a) ==
  \/ Start(a)
  \/ Stop(a)
  \/ \E resource_ids \in SUBSET Resource : SetResourceInterests(a, resource_ids)
  \/ \E q \in Request : Acquire(a, q)

Starting(a)  == RegisterFails(a) \/ RegisterSucceeds(a) \/ Spawn(a)
Beating(a)   == CopyInterests(a) \/ HeartbeatFails(a) \/ UpdateTokenBuckets(a)
Acquiring(a) == Executes(a) \/ IsRefused(a) \/ Enqueue(a)
Stopping(a)  == SignalStop(a) \/ CheckJoinable(a) \/ Join(a) \/ ClearBuckets(a) \/ ClearQueue(a)

AppStep(a)    == Starting(a) \/ Beating(a) \/ Acquiring(a) \/ Stopping(a)
HeartbeatStep == WakeUp \/ Beating("heartbeat")
WorkerStep    == LoopHead \/ FindNothing \/ Pop \/ LookUp \/ Requeue \/ Acquiring("worker")

Next ==
  /\ ~ terminated
  /\ \/ \E a \in App : Call(a) \/ AppStep(a)
     \/ HeartbeatStep
     \/ WorkerStep
     \/ \E r \in Resource : Refill(r)

Spec == Init /\ [][Next]_vars

(***************************************************************************)
(* A thread that can go on goes on, waits time out, the server answers     *)
(* every call in the end, for good or ill, and time passes.                *)
(***************************************************************************)
Fairness ==
  /\ \A a \in App : WF_vars(~ terminated /\ AppStep(a))
  /\ WF_vars(~ terminated /\ HeartbeatStep)
  /\ WF_vars(~ terminated /\ WorkerStep)
  /\ \A r \in Resource : WF_vars(~ terminated /\ Refill(r))

FairSpec == Spec /\ Fairness

-----------------------------------------------------------------------------
\* The fields keep their types, and a live pointer always has its bucket.
TypeOK ==
  /\ resource_interests \subseteq Resource
  /\ DOMAIN token_buckets \subseteq Resource
  /\ \A r \in DOMAIN token_buckets :
       /\ token_buckets[r].rate \in Nat
       /\ token_buckets[r].burst_size \in Nat
       /\ token_buckets[r].tokens \in 0..token_buckets[r].burst_size
  /\ \A a \in Actor :
       frame[a].bucket = "live" => resource_id[frame[a].request] \in DOMAIN token_buckets

(***************************************************************************)
(* Every request is executed exactly once or still waits, in the order the *)
(* requests were queued, and only the end of a Stop discards any, although *)
(* the worker takes each out of the queue for every attempt, with          *)
(* heartbeats, Acquire and Stop in between.  What an Acquire queues while  *)
(* the client is stopped waits for the next Start (module RequestQueue).   *)
(***************************************************************************)
Ending == {"check", "join", "unregister", "clear"}

Phase ==
  IF running THEN "on"
  ELSE IF \E m \in Manager : frame[m].at \in Ending THEN "stopping"
  ELSE "off"

Held == IF frame["worker"].request = NoRequest THEN <<>> ELSE <<frame["worker"].request>>

Service == INSTANCE RequestQueue
  WITH phase   <- Phase,
       asking  <- {frame[a].request : a \in App} \ {NoRequest},
       waiting <- Held \o pending_queue

ImplementsRequestQueue == Service!Spec

(***************************************************************************)
(* When Stop has returned nothing is left running and no bucket is left:   *)
(* no late heartbeat answer brings one back and no queued callback runs    *)
(* before the next Start (Stop joins both threads before it clears).       *)
(***************************************************************************)
StoppedIsQuiet ==
  ~ running /\ (\A a \in Manager : At(a, "idle")) =>
    /\ token_buckets = [r \in {} |-> 0]
    /\ \A t \in Thread : At(t, "ended") /\ ~ joinable[t]

(***************************************************************************)
(* The client may be stopped and started again as often as the application *)
(* likes, and the registration may fail in between: no std::thread object  *)
(* is assigned to or joined at the wrong time, which would end the         *)
(* process.  Several managers at once do end it (README).                  *)
(***************************************************************************)
NeverTerminates == ~ terminated

(***************************************************************************)
(* A Stop comes to an end, whatever its threads are doing and however much *)
(* is queued that cannot be served.                                        *)
(***************************************************************************)
StopReturns == \A a \in App : At(a, "stop") ~> At(a, "idle")

Quiet   == running /\ \A a \in App : At(a, "idle")
Drained == Held \o pending_queue = <<>>

(***************************************************************************)
(* Queued requests are served once Acquire is not called any more, if the  *)
(* bucket of each has a positive rate and a burst that covers it.          *)
(***************************************************************************)
Servable(q) ==
  /\ resource_id[q] \in DOMAIN token_buckets
  /\ token_buckets[resource_id[q]].rate > 0
  /\ token_buckets[resource_id[q]].burst_size >= count[q]

QueueDrains == <>[](Quiet /\ \A q \in Request : Servable(q)) => []<>Drained

(***************************************************************************)
(* The header's promise, in the best of cases: the server allocates to     *)
(* each resource as much per second as a request asks for, nobody else     *)
(* takes tokens, and queued callbacks are executed eventually.             *)
(***************************************************************************)
Allocated(q) ==
  /\ resource_id[q] \in DOMAIN token_buckets
  /\ token_buckets[resource_id[q]].rate > 0
  /\ token_buckets[resource_id[q]].rate >= count[q]

CallbackExecutesEventually == <>[](Quiet /\ \A q \in Request : Allocated(q)) => []<>Drained

(***************************************************************************)
(* The header's claim of thread safety, for the bucket a request is tried  *)
(* on: it still exists.                                                    *)
(***************************************************************************)
BucketOutlivesUse == \A a \in Actor : At(a, "try") => frame[a].bucket = "live"

=============================================================================
