----------------------- MODULE ThrottlingClientProofs -----------------------
(***************************************************************************)
(* The client library for any number of application threads, requests and  *)
(* resources, and any answers of the server.  That its buckets stay in     *)
(* range holds for any use of it; the rest for applications in which at    *)
(* most one thread starts and stops the client (with several, TLC finds    *)
(* each of those properties violated).                                     *)
(***************************************************************************)
EXTENDS ThrottlingClient, SequenceTheorems, TLAPS

OneManager == \A a, b \in Manager : a = b

-----------------------------------------------------------------------------
(***************************************************************************)
(* Types.                                                                  *)
(***************************************************************************)
Bucket == {b \in [rate : Nat, burst_size : Nat, tokens : Nat] : b.tokens <= b.burst_size}

Step == {"idle", "register", "spawn", "copy", "rpc", "wait", "try", "enqueue",
         "loop", "pop", "lookup", "stop", "check", "join", "unregister", "clear",
         "ended"}

Frame == [
  at        : Step,
  request   : Request \cup {NoRequest},
  bucket    : {"null", "live", "erased"},
  interests : SUBSET Resource,
  thread    : Thread \cup {"none"}]

BucketsOK ==
  /\ DOMAIN token_buckets \subseteq Resource
  /\ \A r \in DOMAIN token_buckets : token_buckets[r] \in Bucket

\* Who is about to try a request has one, and a live pointer has its bucket.
FrameOK(f) ==
  /\ f.at = "try" => f.request \in Request
  /\ f.bucket = "live" => f.at = "try" /\ resource_id[f.request] \in DOMAIN token_buckets
  /\ f.at \in {"lookup", "enqueue"} => f.request \in Request
  /\ f.at \in {"spawn", "check", "join"} => f.thread \in Thread

TypeInv ==
  /\ resource_interests \subseteq Resource
  /\ pending_queue \in Seq(Request)
  /\ running \in BOOLEAN /\ terminated \in BOOLEAN
  /\ joinable \in [Thread -> BOOLEAN]
  /\ BucketsOK
  /\ frame \in [Actor -> Frame]
  /\ \A a \in Actor : FrameOK(frame[a])

\* An actor goes on as f while the buckets stay.
LEMMA GoOK ==
  ASSUME TypeInv, NEW a \in Actor, NEW f \in Frame, FrameOK(f), Go(a, f),
         DOMAIN token_buckets' = DOMAIN token_buckets
  PROVE  frame' \in [Actor -> Frame] /\ \A b \in Actor : FrameOK(frame[b])'
<1>1. /\ frame' \in [Actor -> Frame]
      /\ frame'[a] = f
      /\ \A b \in Actor \ {a} : frame'[b] = frame[b]
  BY DEF TypeInv, Go
<1> QED BY <1>1 DEF TypeInv, FrameOK

LEMMA IdleType == Idle \in Frame
BY DEF Idle, Frame, Step

\* What a lookup returns: a live pointer exactly if the bucket is there.
LEMMA HoldingOK ==
  ASSUME NEW q \in Request
  PROVE  Holding(q, "enqueue") \in Frame /\ FrameOK(Holding(q, "enqueue"))
<1>1. CASE resource_id[q] \in DOMAIN token_buckets
  <2> DEFINE f == [Idle EXCEPT !.request = q, !.at = "try", !.bucket = "live"]
  <2>1. Holding(q, "enqueue") = f
    BY <1>1 DEF Holding
  <2>2. f \in Frame /\ f.at = "try" /\ f.request = q
    BY IdleType DEF Frame, Step
  <2> HIDE DEF f
  <2> QED BY <1>1, <2>1, <2>2 DEF FrameOK
<1>2. CASE resource_id[q] \notin DOMAIN token_buckets
  <2> DEFINE f == [Idle EXCEPT !.request = q, !.at = "enqueue", !.bucket = "null"]
  <2>1. Holding(q, "enqueue") = f
    BY <1>2 DEF Holding
  <2>2. f \in Frame /\ f.at = "enqueue" /\ f.request = q /\ f.bucket = "null"
    BY IdleType DEF Frame, Step
  <2> HIDE DEF f
  <2> QED BY <2>1, <2>2 DEF FrameOK
<1> QED BY <1>1, <1>2

\* Erasing buckets turns the live pointers to them into erased ones.
LEMMA DangleOK ==
  ASSUME TypeInv, NEW R, NEW a \in Actor, NEW f \in Frame, FrameOK(f),
         f.bucket = "null",
         frame' = Dangle(R, a, f), DOMAIN token_buckets \ R \subseteq DOMAIN token_buckets'
  PROVE  frame' \in [Actor -> Frame] /\ \A b \in Actor : FrameOK(frame[b])'
<1> SUFFICES ASSUME NEW b \in Actor PROVE frame'[b] \in Frame /\ FrameOK(frame[b])'
  BY DEF Dangle
<1>1. frame[b] \in Frame /\ FrameOK(frame[b])
  BY DEF TypeInv
<1>2. CASE b = a
  BY <1>2 DEF Dangle, FrameOK
<1>3. CASE b # a /\ frame[b].bucket = "live" /\ resource_id[frame[b].request] \in R
  <2>1. frame'[b] = [frame[b] EXCEPT !.bucket = "erased"]
    BY <1>3 DEF Dangle
  <2> QED BY <1>1, <2>1 DEF Frame, FrameOK
<1>4. CASE b # a /\ ~ (frame[b].bucket = "live" /\ resource_id[frame[b].request] \in R)
  BY <1>1, <1>4 DEF Dangle, FrameOK
<1> QED BY <1>2, <1>3, <1>4

-----------------------------------------------------------------------------
(***************************************************************************)
(* What the client does to a bucket keeps its tokens within its burst.     *)
(***************************************************************************)
LEMMA NewBucketOK ==
  ASSUME NEW rate \in Int PROVE NewBucket(rate) \in Bucket
BY DEF NewBucket, Bucket

LEMMA SetRateOK ==
  ASSUME NEW bucket \in Bucket, NEW rate \in Int PROVE SetRate(bucket, rate) \in Bucket
BY DEF SetRate, Bucket

LEMMA ConsumeOK ==
  ASSUME NEW bucket \in Bucket, NEW n \in Int, Covers(bucket, n)
  PROVE  Consume(bucket, n) \in Bucket
BY DEF Consume, Covers, Bucket

-----------------------------------------------------------------------------
(***************************************************************************)
(* Steps that leave the buckets alone: what remains to show is that the    *)
(* actor goes on as a frame.                                               *)
(***************************************************************************)
LEMMA GoInv ==
  ASSUME TypeInv, NEW a \in Actor, NEW f \in Frame, FrameOK(f), Go(a, f),
         UNCHANGED <<resource_interests, token_buckets>>,
         pending_queue' \in Seq(Request), running' \in BOOLEAN, terminated' \in BOOLEAN,
         joinable' \in [Thread -> BOOLEAN]
  PROVE  TypeInv'
<1>1. frame' \in [Actor -> Frame] /\ \A b \in Actor : FrameOK(frame[b])'
  BY GoOK
<1>2. BucketsOK'
  BY DEF TypeInv, BucketsOK
<1> QED BY <1>1, <1>2 DEF TypeInv

\* The frames of an actor that holds no request.
Plain == Step \ {"try", "lookup", "enqueue", "spawn", "check", "join"}

LEMMA Empty ==
  ASSUME NEW step \in Plain, NEW busy \in {"spawn", "check"}, NEW thread \in Thread,
         NEW interests \in SUBSET Resource
  PROVE  LET OK(f) == f \in Frame /\ FrameOK(f)
         IN  /\ OK(Idle)
             /\ OK([Idle EXCEPT !.at = step])
             /\ OK([Idle EXCEPT !.at = busy, !.thread = thread])
             /\ OK([Idle EXCEPT !.at = step, !.interests = interests])
<1>1. Idle.at = "idle" /\ Idle.bucket = "null"
  BY DEF Idle
<1> QED BY <1>1, IdleType DEF Frame, FrameOK, Step, Plain

LEMMA PlainSteps ==
  /\ {"idle", "register", "copy", "rpc", "wait", "loop", "pop", "stop", "unregister",
      "clear", "ended"} \subseteq Plain
  /\ Thread = {"heartbeat", "worker"}
BY DEF Step, Plain, Thread

LEMMA StartInv ==
  ASSUME TypeInv, NEW a \in App, Start(a) \/ RegisterFails(a) \/ RegisterSucceeds(a)
  PROVE  TypeInv'
<1>1. \E f \in Frame : FrameOK(f) /\ Go(a, f)
  BY PlainSteps, Empty DEF Start, RegisterFails, RegisterSucceeds, GoTo
<1> QED
  BY <1>1, GoInv DEF Start, RegisterFails, RegisterSucceeds, state, data, control, Actor, TypeInv

LEMMA SpawnInv ==
  ASSUME TypeInv, NEW a \in App, Spawn(a) PROVE TypeInv'
<1> DEFINE t == frame[a].thread
<1>1. t \in Thread /\ a \notin Thread /\ Thread \subseteq Actor /\ a \in Actor
  BY ClientAssumption DEF TypeInv, FrameOK, Spawn, At, Actor
<1> DEFINE started == [Idle EXCEPT !.at = IF t = "heartbeat" THEN "wait" ELSE "loop"]
           spawned == IF t = "heartbeat" THEN [frame[a] EXCEPT !.thread = "worker"]
                                         ELSE [Idle EXCEPT !.at = "copy"]
<1>2. /\ terminated' = joinable[t]
      /\ joinable' = [joinable EXCEPT ![t] = TRUE]
      /\ frame' = [frame EXCEPT ![t] = started, ![a] = spawned]
      /\ UNCHANGED <<data, running>>
  BY <1>1 DEF Spawn, TypeInv
<1>3. started \in Frame /\ FrameOK(started)
  BY PlainSteps, Empty
<1>4. spawned \in Frame /\ FrameOK(spawned)
  <2>1. CASE t = "heartbeat"
    <3>1. frame[a] \in Frame /\ FrameOK(frame[a]) /\ frame[a].at = "spawn"
      BY <1>1 DEF TypeInv, Spawn, At
    <3> QED BY <2>1, <3>1, PlainSteps DEF Frame, FrameOK
  <2>2. CASE t # "heartbeat"
    BY <2>2, PlainSteps, Empty
  <2> QED BY <2>1, <2>2
<1> HIDE DEF started, spawned
<1>5. frame' \in [Actor -> Frame] /\ \A b \in Actor : FrameOK(frame[b])'
  BY <1>1, <1>2, <1>3, <1>4 DEF TypeInv, FrameOK, data
<1>6. BucketsOK'
  BY <1>2 DEF data, TypeInv, BucketsOK
<1> QED BY <1>1, <1>2, <1>5, <1>6 DEF TypeInv, data

\* SendHeartbeat up to its call, and when that fails; the heartbeat thread's wait.
LEMMA BeatInv ==
  ASSUME TypeInv, NEW a \in Actor,
         CopyInterests(a) \/ HeartbeatFails(a) \/ (a = "heartbeat" /\ WakeUp)
  PROVE  TypeInv'
<1>1. \E f \in Frame : FrameOK(f) /\ Go(a, f)
  <2>1. resource_interests \in SUBSET Resource
    BY DEF TypeInv
  <2> QED
    BY <2>1, PlainSteps, Empty DEF CopyInterests, HeartbeatFails, AfterHeartbeat, WakeUp, GoTo
<1> QED
  BY <1>1, GoInv DEF CopyInterests, HeartbeatFails, WakeUp, state, data, control, TypeInv

LEMMA UpdateTokenBucketsInv ==
  ASSUME TypeInv, NEW a \in Actor, UpdateTokenBuckets(a) PROVE TypeInv'
<1> DEFINE f == [Idle EXCEPT !.at = AfterHeartbeat(a)]
<1>1. PICK answered \in SUBSET Resource : \E allocations \in [answered -> Rates] :
        /\ token_buckets' = [r \in answered |->
             IF r \in DOMAIN token_buckets THEN SetRate(token_buckets[r], allocations[r])
                                           ELSE NewBucket(allocations[r])]
        /\ frame' = Dangle(DOMAIN token_buckets \ answered, a, f)
  BY DEF UpdateTokenBuckets
<1>2. PICK allocations \in [answered -> Rates] :
        /\ token_buckets' = [r \in answered |->
             IF r \in DOMAIN token_buckets THEN SetRate(token_buckets[r], allocations[r])
                                           ELSE NewBucket(allocations[r])]
        /\ frame' = Dangle(DOMAIN token_buckets \ answered, a, f)
  BY <1>1
<1>3. BucketsOK' /\ DOMAIN token_buckets' = answered
  <2>1. \A r \in answered : allocations[r] \in Int
    BY ClientAssumption
  <2>2. \A r \in answered : token_buckets'[r] \in Bucket
    BY <1>2, <2>1, NewBucketOK, SetRateOK DEF TypeInv, BucketsOK
  <2> QED BY <1>2, <2>2 DEF BucketsOK
<1>4. f \in Frame /\ FrameOK(f) /\ f.bucket = "null"
  <2>1. AfterHeartbeat(a) \in Plain
    BY PlainSteps DEF AfterHeartbeat
  <2>2. f.bucket = "null"
    BY DEF Idle
  <2> QED BY <2>1, <2>2, PlainSteps, Empty
<1>5. frame' \in [Actor -> Frame] /\ \A b \in Actor : FrameOK(frame[b])'
  <2> HIDE DEF f
  <2> QED BY <1>2, <1>3, <1>4, DangleOK
<1> QED BY <1>3, <1>5 DEF UpdateTokenBuckets, control, TypeInv

LEMMA SetResourceInterestsInv ==
  ASSUME TypeInv, NEW a \in App, NEW resource_ids \in SUBSET Resource,
         SetResourceInterests(a, resource_ids)
  PROVE  TypeInv'
BY DEF TypeInv, SetResourceInterests, control, BucketsOK, FrameOK

LEMMA RefillInv ==
  ASSUME TypeInv, NEW r \in Resource, Refill(r) PROVE TypeInv'
<1>1. token_buckets[r] \in Bucket
  BY DEF TypeInv, BucketsOK, Refill
<1>2. [token_buckets[r] EXCEPT !.tokens = @ + 1] \in Bucket
  BY <1>1 DEF Refill, Bucket
<1>3. BucketsOK' /\ DOMAIN token_buckets' = DOMAIN token_buckets
  BY <1>2 DEF Refill, TypeInv, BucketsOK
<1> QED BY <1>3 DEF Refill, TypeInv, FrameOK, control

-----------------------------------------------------------------------------
(***************************************************************************)
(* Requests.                                                               *)
(***************************************************************************)
LEMMA AcquireInv ==
  ASSUME TypeInv, NEW a \in App, NEW q \in Request, Acquire(a, q) PROVE TypeInv'
BY GoInv, HoldingOK DEF Acquire, state, data, control, Actor, TypeInv

LEMMA LookUpInv ==
  ASSUME TypeInv, LookUp PROVE TypeInv'
<1>1. "worker" \in Actor /\ frame["worker"].request \in Request
  BY DEF TypeInv, LookUp, At, FrameOK, Actor, Thread
<1> QED BY <1>1, GoInv, HoldingOK DEF LookUp, state, data, control, TypeInv

LEMMA ExecutesInv ==
  ASSUME TypeInv, NEW a \in Actor, Executes(a) PROVE TypeInv'
<1> DEFINE q == frame[a].request
           r == resource_id[q]
<1>1. FrameOK(frame[a]) /\ q \in Request /\ count[q] \in Int
  BY ClientAssumption DEF TypeInv, Executes, At, FrameOK
<1>2. BucketsOK' /\ DOMAIN token_buckets' = DOMAIN token_buckets
  <2>1. CASE frame[a].bucket = "live"
    <3>1. /\ r \in DOMAIN token_buckets /\ token_buckets[r] \in Bucket
          /\ Covers(token_buckets[r], count[q])
          /\ token_buckets' = [token_buckets EXCEPT ![r] = Consume(@, count[q])]
      BY <1>1, <2>1 DEF Executes, FrameOK, TypeInv, BucketsOK
    <3>2. Consume(token_buckets[r], count[q]) \in Bucket
      BY <1>1, <3>1, ConsumeOK
    <3> QED BY <3>1, <3>2 DEF TypeInv, BucketsOK
  <2>2. CASE frame[a].bucket # "live"
    BY <2>2 DEF Executes, TypeInv, BucketsOK
  <2> QED BY <2>1, <2>2
<1>3. PICK f \in Frame : FrameOK(f) /\ Go(a, f)
  BY PlainSteps, Empty DEF Executes, GoTo
<1>4. frame' \in [Actor -> Frame] /\ \A b \in Actor : FrameOK(frame[b])'
  BY <1>2, <1>3, GoOK
<1> QED BY <1>2, <1>4 DEF Executes, control, TypeInv

\* Steps that keep or drop the actor's request.
LEMMA Keeping ==
  ASSUME NEW q \in Request, NEW step \in {"lookup", "enqueue"}
  PROVE  LET OK(f) == f \in Frame /\ FrameOK(f)
         IN  /\ OK([Idle EXCEPT !.request = q, !.at = step])
             /\ OK([Idle EXCEPT !.at = step, !.request = q])
<1>1. Idle.bucket = "null"
  BY DEF Idle
<1> QED BY <1>1, IdleType DEF Frame, FrameOK, Step

LEMMA IsRefusedInv ==
  ASSUME TypeInv, NEW a \in Actor, IsRefused(a) PROVE TypeInv'
<1>1. frame[a].request \in Request
  BY DEF TypeInv, IsRefused, At, FrameOK
<1> QED BY <1>1, Keeping, GoInv DEF IsRefused, state, data, control, TypeInv

LEMMA QueueInv ==
  ASSUME TypeInv,
         NEW a \in Actor, Enqueue(a) \/ (a = "worker" /\ (Requeue \/ Pop))
  PROVE  TypeInv'
<1>1. pending_queue' \in Seq(Request)
  <2>1. CASE Enqueue(a) \/ (a = "worker" /\ Requeue)
    <3> DEFINE q == frame[a].request
    <3>1. q \in Request /\ pending_queue \in Seq(Request)
      BY <2>1 DEF TypeInv, Enqueue, Requeue, At, FrameOK
    <3>2. pending_queue' = Append(pending_queue, q) \/ pending_queue' = <<q>> \o pending_queue
      BY <2>1 DEF Enqueue, Requeue
    <3> HIDE DEF q
    <3>3. Append(pending_queue, q) \in Seq(Request)
      BY <3>1
    <3>4. <<q>> \in Seq(Request)
      BY <3>1
    <3>5. <<q>> \o pending_queue \in Seq(Request)
      BY <3>1, <3>4, ConcatProperties
    <3> QED BY <3>2, <3>3, <3>5
  <2>2. CASE Pop
    BY <2>2 DEF Pop, TypeInv
  <2> QED BY <2>1, <2>2
<1>2. \E f \in Frame : FrameOK(f) /\ Go(a, f)
  <2>1. CASE Enqueue(a) \/ (a = "worker" /\ Requeue)
    BY <2>1, PlainSteps, Empty DEF Enqueue, Requeue, GoTo
  <2>2. CASE a = "worker" /\ Pop
    <3>1. Head(pending_queue) \in Request
      BY <2>2 DEF Pop, TypeInv
    <3> QED BY <2>2, <3>1, Keeping DEF Pop
  <2> QED BY <2>1, <2>2
<1> QED BY <1>1, <1>2, GoInv DEF Enqueue, Requeue, Pop, control, TypeInv

LEMMA WorkerWaitsInv ==
  ASSUME TypeInv, LoopHead \/ FindNothing PROVE TypeInv'
<1>1. \E f \in Frame : FrameOK(f) /\ Go("worker", f)
  BY PlainSteps, Empty DEF LoopHead, FindNothing, GoTo
<1>2. "worker" \in Actor
  BY DEF Actor, Thread
<1> QED BY <1>1, <1>2, GoInv DEF LoopHead, FindNothing, state, data, control, TypeInv

-----------------------------------------------------------------------------
(***************************************************************************)
(* Stop.                                                                   *)
(***************************************************************************)
LEMMA StopInv ==
  ASSUME TypeInv, NEW a \in App,
         Stop(a) \/ SignalStop(a) \/ CheckJoinable(a) \/ Join(a) \/ ClearQueue(a)
  PROVE  TypeInv'
<1>1. \E f \in Frame : FrameOK(f) /\ Go(a, f)
  <2>1. CASE Stop(a) \/ SignalStop(a) \/ ClearQueue(a)
    BY <2>1, PlainSteps, Empty DEF Stop, SignalStop, ClearQueue, GoTo
  <2>2. CASE CheckJoinable(a) \/ Join(a)
    <3>1. Joined(a) \in Frame /\ FrameOK(Joined(a))
      BY PlainSteps, Empty DEF Joined
    <3>2. CASE Go(a, Joined(a))
      BY <3>1, <3>2
    <3>3. CASE At(a, "check") /\ Go(a, [frame[a] EXCEPT !.at = "join"])
      <4>1. frame[a] \in Frame /\ FrameOK(frame[a]) /\ frame[a].at = "check"
        BY <3>3 DEF TypeInv, At, Actor
      <4>2. LET f == [frame[a] EXCEPT !.at = "join"] IN f \in Frame /\ FrameOK(f)
        BY <4>1 DEF Frame, FrameOK, Step
      <4> QED BY <3>3, <4>2
    <3> QED BY <2>2, <3>2, <3>3 DEF CheckJoinable, Join
  <2> QED BY <2>1, <2>2
<1>2. /\ joinable' \in [Thread -> BOOLEAN] /\ terminated' \in BOOLEAN
      /\ running' \in BOOLEAN /\ pending_queue' \in Seq(Request)
  <2>1. CASE Join(a)
    <3>1. frame[a].thread \in Thread
      BY <2>1 DEF TypeInv, Join, At, FrameOK, Actor
    <3>2. UNCHANGED <<running, pending_queue>>
      BY <2>1 DEF Join, data
    <3>3. joinable' = [joinable EXCEPT ![frame[a].thread] = FALSE]
      BY <2>1 DEF Join
    <3>4. joinable' \in [Thread -> BOOLEAN]
      BY <3>3 DEF TypeInv
    <3>5. terminated' \in BOOLEAN
      BY <2>1, Zenon DEF Join
    <3> QED BY <3>2, <3>4, <3>5 DEF TypeInv
  <2>2. CASE Stop(a) \/ SignalStop(a) \/ CheckJoinable(a) \/ ClearQueue(a)
    <3>1. UNCHANGED <<joinable, terminated>> /\ (UNCHANGED running \/ running' = FALSE)
      BY <2>2, Zenon DEF Stop, SignalStop, CheckJoinable, ClearQueue, state, control
    <3>2. UNCHANGED pending_queue \/ pending_queue' = <<>>
      BY <2>2, Zenon DEF Stop, SignalStop, CheckJoinable, ClearQueue, state, data
    <3>3. <<>> \in Seq(Request)
      OBVIOUS
    <3> QED BY <3>1, <3>2, <3>3 DEF TypeInv
  <2> QED BY <2>1, <2>2
<1> QED
  BY <1>1, <1>2, GoInv DEF Stop, SignalStop, CheckJoinable, Join, ClearQueue, state, data, Actor

LEMMA ClearBucketsInv ==
  ASSUME TypeInv, NEW a \in App, ClearBuckets(a) PROVE TypeInv'
<1> DEFINE f == [Idle EXCEPT !.at = "clear"]
<1>1. f \in Frame /\ FrameOK(f) /\ f.bucket = "null" /\ a \in Actor
  <2>1. f.bucket = "null"
    BY DEF Idle
  <2> QED BY <2>1, PlainSteps, Empty DEF Actor
<1>2. DOMAIN token_buckets' = {}
  BY DEF ClearBuckets
<1>3. frame' \in [Actor -> Frame] /\ \A b \in Actor : FrameOK(frame[b])'
  <2>1. frame' = Dangle(DOMAIN token_buckets, a, f)
    BY DEF ClearBuckets
  <2> HIDE DEF f
  <2> QED BY <1>1, <1>2, <2>1, DangleOK
<1>4. BucketsOK'
  BY <1>2 DEF BucketsOK
<1> QED BY <1>3, <1>4 DEF ClearBuckets, control, TypeInv

-----------------------------------------------------------------------------
LEMMA TypeInit == Init => TypeInv
<1> SUFFICES ASSUME Init PROVE TypeInv
  OBVIOUS
<1>1. frame \in [Actor -> Frame] /\ \A a \in Actor : FrameOK(frame[a])
  BY PlainSteps, Empty DEF Init
<1>2. <<>> \in Seq(Request)
  OBVIOUS
<1>3. BucketsOK
  BY DEF Init, BucketsOK
<1>4. running \in BOOLEAN /\ terminated \in BOOLEAN /\ joinable \in [Thread -> BOOLEAN]
  BY DEF Init
<1>5. resource_interests \subseteq Resource /\ pending_queue = <<>>
  BY DEF Init
<1> QED BY <1>1, <1>2, <1>3, <1>4, <1>5, Zenon DEF TypeInv

LEMMA TypeNext == ASSUME TypeInv, [Next]_vars PROVE TypeInv'
<1>1. ASSUME NEW a \in App, Call(a) PROVE TypeInv'
  BY <1>1, StartInv, StopInv, SetResourceInterestsInv, AcquireInv DEF Call
<1>2. ASSUME NEW a \in App, AppStep(a) PROVE TypeInv'
  <2>1. a \in Actor
    BY DEF Actor
  <2> QED
    BY <1>2, <2>1, StartInv, SpawnInv, BeatInv, UpdateTokenBucketsInv, ExecutesInv,
       IsRefusedInv, QueueInv, StopInv, ClearBucketsInv
       DEF AppStep, Starting, Beating, Acquiring, Stopping
<1>3. ASSUME HeartbeatStep PROVE TypeInv'
  <2>1. "heartbeat" \in Actor
    BY DEF Actor, Thread
  <2> QED BY <1>3, <2>1, BeatInv, UpdateTokenBucketsInv DEF HeartbeatStep, Beating
<1>4. ASSUME WorkerStep PROVE TypeInv'
  <2>1. "worker" \in Actor
    BY DEF Actor, Thread
  <2> QED BY <1>4, <2>1, WorkerWaitsInv, QueueInv, LookUpInv, ExecutesInv, IsRefusedInv
          DEF WorkerStep, Acquiring
<1>5. CASE UNCHANGED vars
  BY <1>5 DEF vars, state, data, control, TypeInv, BucketsOK, FrameOK
<1> QED BY <1>1, <1>2, <1>3, <1>4, <1>5, RefillInv DEF Next

(***************************************************************************)
(* For any use of the client every bucket holds between none and its burst *)
(* of tokens, and a pointer that has not been erased has its bucket.       *)
(***************************************************************************)
THEOREM TypeCorrect == Spec => []TypeOK
<1>1. TypeInv => TypeOK
  BY DEF TypeInv, BucketsOK, Bucket, FrameOK, TypeOK
<1> QED BY <1>1, TypeInit, TypeNext, PTL DEF Spec

-----------------------------------------------------------------------------
(***************************************************************************)
(* Control.  Where the manager is says what runs and what has to be        *)
(* joined; an application without one never starts the client.             *)
(***************************************************************************)
Asking == {"idle", "try", "enqueue"}

NoBuckets == [r \in {} |-> 0]

Down == ~ running /\ ~ joinable["heartbeat"] /\ ~ joinable["worker"]
Rest == Down /\ token_buckets = NoBuckets
Up   == running /\ joinable["heartbeat"] /\ joinable["worker"]

\* The thread the manager has come to, the heartbeat's first, is the next one.
SpawnsNext(m) ==
  \/ frame[m].thread = "heartbeat" /\ ~ joinable["heartbeat"]
  \/ frame[m].thread = "worker" /\ joinable["heartbeat"]

JoinsNext(m) ==
  \/ frame[m].thread = "heartbeat" /\ joinable["heartbeat"]
  \/ frame[m].thread = "worker" /\ ~ joinable["heartbeat"]

ManagerOK(m) ==
  \/ frame[m].at \in Asking /\ (Up \/ Rest)
  \/ frame[m].at = "register" /\ Rest
  \/ frame[m].at = "spawn" /\ running /\ ~ joinable["worker"] /\ SpawnsNext(m)
  \/ frame[m].at \in {"copy", "rpc", "stop"} /\ Up
  \/ frame[m].at \in {"check", "join"} /\ ~ running /\ joinable["worker"] /\ JoinsNext(m)
  \/ frame[m].at = "unregister" /\ Down
  \/ frame[m].at = "clear" /\ Rest

ThreadsOK ==
  /\ \A t \in Thread : joinable[t] \/ At(t, "ended")
  /\ frame["heartbeat"].at \in {"wait", "copy", "rpc", "ended"}
  /\ frame["worker"].at \in {"loop", "pop", "lookup", "try", "enqueue", "ended"}

ControlInv ==
  /\ ~ terminated
  /\ ThreadsOK
  /\ \A a \in App \ Manager : frame[a].at \in Asking
  /\ \A m \in Manager : ManagerOK(m)
  /\ Manager = {} => Rest

Inv == TypeInv /\ ControlInv

-----------------------------------------------------------------------------
\* What a step of a does to where the actors are.
KeepOthers(a) ==
  \A b \in Actor \ {a} : frame'[b].at = frame[b].at /\ frame'[b].thread = frame[b].thread

LEMMA GoMoves ==
  ASSUME TypeInv, NEW a \in Actor, NEW f, Go(a, f)
  PROVE  frame'[a] = f /\ KeepOthers(a)
BY DEF TypeInv, Go, KeepOthers

LEMMA DangleMoves ==
  ASSUME TypeInv, NEW a \in Actor, NEW f, NEW R, frame' = Dangle(R, a, f)
  PROVE  frame'[a] = f /\ KeepOthers(a)
<1>1. frame'[a] = f
  BY DEF Dangle
<1>2. ASSUME NEW b \in Actor \ {a}
      PROVE  frame'[b].at = frame[b].at /\ frame'[b].thread = frame[b].thread
  <2>1. frame[b] \in Frame
    BY DEF TypeInv
  <2>2. frame'[b] = frame[b] \/ frame'[b] = [frame[b] EXCEPT !.bucket = "erased"]
    BY DEF Dangle
  <2> QED BY <2>1, <2>2 DEF Frame
<1> QED BY <1>1, <1>2 DEF KeepOthers

LEMMA IdleFields ==
  ASSUME NEW step, NEW thread, NEW interests
  PROVE  /\ Idle.at = "idle"
         /\ [Idle EXCEPT !.at = step].at = step
         /\ [Idle EXCEPT !.at = step, !.interests = interests].at = step
         /\ [Idle EXCEPT !.at = step, !.thread = thread].at = step
         /\ [Idle EXCEPT !.at = step, !.thread = thread].thread = thread
BY DEF Idle

LEMMA GoToMoves ==
  ASSUME TypeInv, NEW a \in Actor, NEW step, GoTo(a, step)
  PROVE  frame'[a].at = step /\ KeepOthers(a)
<1>1. Go(a, [Idle EXCEPT !.at = step])
  BY DEF GoTo
<1>2. frame'[a] = [Idle EXCEPT !.at = step] /\ KeepOthers(a)
  BY <1>1, GoMoves
<1> QED BY <1>2, IdleFields

LEMMA GoAboutThreadMoves ==
  ASSUME TypeInv, NEW a \in Actor, NEW step, NEW thread,
         Go(a, [Idle EXCEPT !.at = step, !.thread = thread])
  PROVE  frame'[a].at = step /\ frame'[a].thread = thread /\ KeepOthers(a)
<1>1. frame'[a] = [Idle EXCEPT !.at = step, !.thread = thread] /\ KeepOthers(a)
  BY GoMoves
<1> QED BY <1>1, IdleFields

\* SendHeartbeat, in either thread.
LEMMA BeatMoves ==
  ASSUME TypeInv, NEW a \in Actor,
         CopyInterests(a) \/ HeartbeatFails(a) \/ UpdateTokenBuckets(a)
  PROVE  /\ KeepOthers(a)
         /\ frame'[a].at = IF At(a, "copy") THEN "rpc" ELSE AfterHeartbeat(a)
<1>1. CASE CopyInterests(a)
  <2>1. frame'[a] = [Idle EXCEPT !.at = "rpc", !.interests = resource_interests]
        /\ KeepOthers(a)
    BY <1>1, GoMoves DEF CopyInterests
  <2> QED BY <1>1, <2>1, IdleFields DEF CopyInterests
<1>2. CASE HeartbeatFails(a)
  BY <1>2, GoToMoves DEF HeartbeatFails, At
<1>3. CASE UpdateTokenBuckets(a)
  <2>1. PICK R : frame' = Dangle(R, a, [Idle EXCEPT !.at = AfterHeartbeat(a)])
    BY <1>3 DEF UpdateTokenBuckets
  <2>2. frame'[a] = [Idle EXCEPT !.at = AfterHeartbeat(a)] /\ KeepOthers(a)
    BY <2>1, DangleMoves
  <2> QED BY <1>3, <2>2, IdleFields DEF UpdateTokenBuckets, At
<1> QED BY <1>1, <1>2, <1>3

LEMMA RequestFields ==
  ASSUME NEW q, NEW step
  PROVE  /\ [Idle EXCEPT !.request = q, !.at = step].at = step
         /\ [Idle EXCEPT !.at = step, !.request = q].at = step
         /\ Holding(q, step).at \in {"try", step}
BY DEF Idle, Holding

\* An application thread goes on about a request, or the application does nothing.
LEMMA AskingInv ==
  ASSUME Inv, NEW a \in App, frame[a].at \in Asking, frame'[a].at \in Asking,
         KeepOthers(a), UNCHANGED control, Rest => UNCHANGED token_buckets
  PROVE  ControlInv'
<1>1. App \subseteq Actor /\ Thread \subseteq Actor \ {a} /\ Manager \subseteq App
  BY ClientAssumption DEF Actor
<1>2. (Up => Up') /\ (Down => Down') /\ (Rest => Rest')
  BY DEF Up, Down, Rest, control
<1>3. ThreadsOK'
  BY <1>1 DEF Inv, ControlInv, ThreadsOK, KeepOthers, control, At, Thread
<1>4. ASSUME NEW m \in Manager PROVE ManagerOK(m)'
  <2>1. CASE m = a
    BY <1>2, <2>1 DEF Inv, ControlInv, ManagerOK, Asking
  <2>2. CASE m # a
    <3>1. frame'[m].at = frame[m].at /\ frame'[m].thread = frame[m].thread
      BY <1>1, <2>2 DEF KeepOthers
    <3> QED
      BY <1>2, <3>1 DEF Inv, ControlInv, ManagerOK, SpawnsNext, JoinsNext, control
  <2> QED BY <2>1, <2>2
<1>5. \A b \in App \ Manager : frame'[b].at \in Asking
  BY <1>1 DEF Inv, ControlInv, KeepOthers
<1> QED BY <1>2, <1>3, <1>4, <1>5 DEF Inv, ControlInv, control

\* A thread of the client's that has not ended goes on.
LEMMA ThreadInv ==
  ASSUME Inv, NEW t \in Thread, ~ At(t, "ended"), KeepOthers(t), UNCHANGED control,
         t = "heartbeat" => frame'[t].at \in {"wait", "copy", "rpc", "ended"},
         t = "worker" =>
           frame'[t].at \in {"loop", "pop", "lookup", "try", "enqueue", "ended"}
  PROVE  ControlInv'
<1>1. App \subseteq Actor \ {t} /\ Thread \subseteq Actor /\ Manager \subseteq App
  BY ClientAssumption DEF Actor
<1>2. (Up => Up') /\ ~ Down
  BY DEF Up, Down, control, Inv, ControlInv, ThreadsOK, Thread
<1>3. ThreadsOK'
  <2>1. joinable[t]
    BY DEF Inv, ControlInv, ThreadsOK
  <2>2. \A u \in Thread \ {t} : frame'[u].at = frame[u].at
    BY <1>1 DEF KeepOthers
  <2> QED BY <2>1, <2>2 DEF Inv, ControlInv, ThreadsOK, At, control, Thread
<1>4. \A m \in App : frame'[m].at = frame[m].at /\ frame'[m].thread = frame[m].thread
  BY <1>1 DEF KeepOthers
<1>5. ASSUME NEW m \in Manager PROVE ManagerOK(m)'
  BY <1>1, <1>2, <1>4
     DEF Inv, ControlInv, ManagerOK, SpawnsNext, JoinsNext, Rest, control
<1> QED BY <1>1, <1>2, <1>3, <1>4, <1>5 DEF Inv, ControlInv, Rest, control

\* The manager starts or stops the client.
LEMMA ManagerInv ==
  ASSUME Inv, OneManager, NEW a \in Manager, KeepOthers(a), ~ terminated',
         ThreadsOK', ManagerOK(a)'
  PROVE  ControlInv'
<1>1. App \subseteq Actor
  BY DEF Actor
<1>2. \A m \in Manager : m = a
  BY DEF OneManager
<1>3. \A b \in App \ Manager : frame'[b].at \in Asking
  BY <1>1 DEF Inv, ControlInv, KeepOthers
<1> QED BY <1>2, <1>3 DEF ControlInv

LEMMA ThreadsStay ==
  ASSUME Inv, NEW a \in App, KeepOthers(a), UNCHANGED joinable
  PROVE  ThreadsOK'
<1>1. Thread \subseteq Actor \ {a}
  BY ClientAssumption DEF Actor
<1> QED BY <1>1 DEF Inv, ControlInv, ThreadsOK, KeepOthers, At, Thread

LEMMA ManagersAlone ==
  ASSUME Inv, NEW a \in App, frame[a].at \notin Asking
  PROVE  a \in Manager /\ ManagerOK(a) /\ a \in Actor /\ a \notin Thread
BY ClientAssumption DEF Inv, ControlInv, Actor

\* Start, and the heartbeat at its end.
LEMMA StartControl ==
  ASSUME Inv, OneManager, NEW a \in App,
         Start(a) \/ RegisterFails(a) \/ RegisterSucceeds(a) \/ CopyInterests(a)
           \/ HeartbeatFails(a) \/ UpdateTokenBuckets(a) \/ Stop(a) \/ SignalStop(a)
  PROVE  ControlInv'
<1>1. a \in Manager /\ ManagerOK(a) /\ a \in Actor /\ a # "heartbeat"
  <2>1. frame[a].at \notin Asking \/ a \in Manager
    BY Zenon DEF Start, RegisterFails, RegisterSucceeds, CopyInterests, HeartbeatFails,
           UpdateTokenBuckets, Stop, SignalStop, At, Asking
  <2> QED BY <2>1, ManagersAlone, ClientAssumption DEF Inv, ControlInv, Actor, Thread
<1>2. ~ terminated' /\ UNCHANGED joinable
  BY DEF Inv, ControlInv, Start, RegisterFails, RegisterSucceeds, CopyInterests,
         HeartbeatFails, UpdateTokenBuckets, Stop, SignalStop, state, control
<1>3. KeepOthers(a) /\ ManagerOK(a)'
  <2>1. CASE Start(a) \/ RegisterFails(a)
    <3>1. /\ Start(a) => KeepOthers(a) /\ frame'[a].at = "register"
          /\ RegisterFails(a) => KeepOthers(a) /\ frame'[a].at = "idle"
      BY <1>1, GoToMoves DEF Start, RegisterFails, Inv
    <3> QED
      BY <1>1, <2>1, <3>1 DEF Start, RegisterFails, At, ManagerOK, Asking, Up, Rest, Down,
         state, data, control
  <2>2. CASE RegisterSucceeds(a)
    <3>1. KeepOthers(a) /\ frame'[a].at = "spawn" /\ frame'[a].thread = "heartbeat"
      BY <1>1, <2>2, GoAboutThreadMoves DEF RegisterSucceeds, Inv
    <3> QED
      BY <1>1, <2>2, <3>1 DEF RegisterSucceeds, At, ManagerOK, SpawnsNext, Asking, Rest, Down
  <2>3. CASE CopyInterests(a) \/ HeartbeatFails(a) \/ UpdateTokenBuckets(a)
    <3>1. KeepOthers(a) /\ frame'[a].at \in {"rpc", "idle"}
      BY <1>1, <2>3, BeatMoves DEF AfterHeartbeat, Inv
    <3> QED
      BY <1>1, <2>3, <3>1 DEF CopyInterests, HeartbeatFails, UpdateTokenBuckets, At,
         ManagerOK, Asking, Up, state, control
  <2>4. CASE Stop(a)
    <3>1. KeepOthers(a) /\ frame'[a].at = "stop"
      BY <1>1, <2>4, GoToMoves DEF Stop, Inv
    <3> QED
      BY <1>1, <2>4, <3>1 DEF Stop, At, ManagerOK, Asking, Up, Rest, Down, state, control
  <2>5. CASE SignalStop(a)
    <3>1. KeepOthers(a) /\ frame'[a].at = "check" /\ frame'[a].thread = "heartbeat"
      BY <1>1, <2>5, GoAboutThreadMoves DEF SignalStop, Inv
    <3> QED
      BY <1>1, <2>5, <3>1 DEF SignalStop, At, ManagerOK, JoinsNext, Asking, Up
  <2> QED BY <2>1, <2>2, <2>3, <2>4, <2>5
<1> QED BY <1>1, <1>2, <1>3, ThreadsStay, ManagerInv

LEMMA SpawnControl ==
  ASSUME Inv, OneManager, NEW a \in App, Spawn(a) PROVE ControlInv'
<1> DEFINE t == frame[a].thread
<1>1. a \in Manager /\ ManagerOK(a) /\ a \in Actor /\ a \notin Thread /\ Thread \subseteq Actor
  BY ManagersAlone DEF Spawn, At, Asking, Actor
<1>2. /\ running /\ ~ joinable["worker"] /\ SpawnsNext(a)
      /\ t \in Thread /\ ~ joinable[t] /\ joinable \in [Thread -> BOOLEAN]
  BY <1>1 DEF Spawn, At, ManagerOK, SpawnsNext, Asking, Thread, Inv, TypeInv
<1>3. ~ terminated' /\ running' = running
  BY <1>2 DEF Spawn
<1>4. joinable' = [joinable EXCEPT ![t] = TRUE]
  BY DEF Spawn
<1>5. /\ frame'[t] = [Idle EXCEPT !.at = IF t = "heartbeat" THEN "wait" ELSE "loop"]
      /\ frame'[a] = IF t = "heartbeat" THEN [frame[a] EXCEPT !.thread = "worker"]
                                        ELSE [Idle EXCEPT !.at = "copy"]
      /\ \A b \in Actor \ {a, t} : frame'[b] = frame[b]
  BY <1>1, <1>2 DEF Spawn, Inv, TypeInv
<1>6. ThreadsOK'
  <2>1. frame'[t].at = IF t = "heartbeat" THEN "wait" ELSE "loop"
    BY <1>5, IdleFields
  <2>2. \A u \in Thread \ {t} : frame'[u] = frame[u] /\ joinable'[u] = joinable[u]
    BY <1>1, <1>2, <1>4, <1>5
  <2>3. joinable'[t]
    BY <1>2, <1>4
  <2> QED BY <1>2, <2>1, <2>2, <2>3 DEF Inv, ControlInv, ThreadsOK, At, Thread
<1>7. ManagerOK(a)'
  <2>1. CASE t = "heartbeat"
    <3>1. frame[a] \in Frame /\ frame[a].at = "spawn"
      BY <1>1 DEF Spawn, At, Inv, TypeInv
    <3>2. frame'[a].at = "spawn" /\ frame'[a].thread = "worker"
      BY <1>5, <2>1, <3>1 DEF Frame
    <3>3. joinable'["heartbeat"] /\ ~ joinable'["worker"]
      BY <1>2, <1>4, <2>1 DEF Thread
    <3> QED BY <1>2, <1>3, <3>2, <3>3 DEF ManagerOK, SpawnsNext
  <2>2. CASE t = "worker"
    <3>1. frame'[a].at = "copy"
      BY <1>5, <2>2, IdleFields
    <3>2. joinable'["heartbeat"] /\ joinable'["worker"]
      BY <1>2, <1>4, <2>2 DEF SpawnsNext, Thread
    <3> QED BY <1>2, <1>3, <3>1, <3>2 DEF ManagerOK, Up
  <2> QED BY <1>2, <2>1, <2>2 DEF Thread
<1>8. ControlInv'
  <2>1. \A m \in Manager : m = a
    BY <1>1 DEF OneManager
  <2>2. \A b \in App \ Manager : frame'[b] = frame[b]
    BY <1>1, <1>2, <1>5, ClientAssumption DEF Actor
  <2> QED BY <1>1, <1>3, <1>6, <1>7, <2>1, <2>2 DEF Inv, ControlInv
<1> QED BY <1>8

\* Stop, from its joins on.
LEMMA JoinedMoves ==
  ASSUME TypeInv, NEW a \in Actor, Go(a, Joined(a))
  PROVE  /\ KeepOthers(a)
         /\ frame[a].thread = "heartbeat" => frame'[a].at = "check" /\ frame'[a].thread = "worker"
         /\ frame[a].thread # "heartbeat" => frame'[a].at = "unregister"
<1>1. frame'[a] = Joined(a) /\ KeepOthers(a)
  BY GoMoves
<1> QED BY <1>1, IdleFields DEF Joined

LEMMA JoinControl ==
  ASSUME Inv, OneManager, NEW a \in App, CheckJoinable(a) \/ Join(a) PROVE ControlInv'
<1> DEFINE t == frame[a].thread
<1>1. a \in Manager /\ ManagerOK(a) /\ a \in Actor /\ a \notin Thread
  BY ManagersAlone DEF CheckJoinable, Join, At, Asking
<1>2. /\ ~ running /\ joinable["worker"] /\ JoinsNext(a)
      /\ t \in Thread /\ joinable[t] /\ joinable \in [Thread -> BOOLEAN]
  BY <1>1 DEF CheckJoinable, Join, At, ManagerOK, JoinsNext, Asking, Thread, Inv, TypeInv
<1>3. CASE CheckJoinable(a)
  <2>1. frame[a] \in Frame /\ frame'[a] = [frame[a] EXCEPT !.at = "join"] /\ KeepOthers(a)
    BY <1>1, <1>2, <1>3, GoMoves DEF CheckJoinable, Inv, TypeInv
  <2>2. frame'[a].at = "join" /\ frame'[a].thread = t
    BY <2>1 DEF Frame
  <2>3. UNCHANGED <<running, joinable, terminated>>
    BY <1>3 DEF CheckJoinable, state, control
  <2>4. ManagerOK(a)'
    BY <1>2, <2>2, <2>3 DEF ManagerOK, JoinsNext
  <2> QED BY <1>1, <2>1, <2>3, <2>4, ThreadsStay, ManagerInv DEF Inv, ControlInv
<1>4. CASE Join(a)
  <2>1. ~ terminated' /\ ~ running' /\ At(t, "ended")
    BY <1>2, <1>4 DEF Join
  <2>2. joinable' = [joinable EXCEPT ![t] = FALSE]
    BY <1>4 DEF Join
  <2>3. /\ KeepOthers(a)
        /\ t = "heartbeat" => frame'[a].at = "check" /\ frame'[a].thread = "worker"
        /\ t # "heartbeat" => frame'[a].at = "unregister"
    BY <1>1, <1>4, JoinedMoves DEF Join, Inv
  <2>4. ThreadsOK'
    <3>1. \A u \in Thread : frame'[u].at = frame[u].at
      BY <1>1, <2>3 DEF KeepOthers, Actor
    <3>2. \A u \in Thread \ {t} : joinable'[u] = joinable[u]
      BY <1>2, <2>2
    <3> QED BY <2>1, <3>1, <3>2 DEF Inv, ControlInv, ThreadsOK, At, Thread
  <2>5. ManagerOK(a)'
    <3>1. CASE t = "heartbeat"
      <4>1. ~ joinable'["heartbeat"] /\ joinable'["worker"]
        BY <1>2, <2>2, <3>1 DEF Thread
      <4> QED BY <2>1, <2>3, <3>1, <4>1 DEF ManagerOK, JoinsNext
    <3>2. CASE t = "worker"
      <4>1. ~ joinable'["heartbeat"] /\ ~ joinable'["worker"]
        BY <1>2, <2>2, <3>2 DEF JoinsNext, Thread
      <4> QED BY <2>1, <2>3, <3>2, <4>1 DEF ManagerOK, Down
    <3> QED BY <1>2, <3>1, <3>2 DEF Thread
  <2> QED BY <1>1, <2>1, <2>3, <2>4, <2>5, ManagerInv
<1> QED BY <1>3, <1>4

LEMMA ClearControl ==
  ASSUME Inv, OneManager, NEW a \in App, ClearBuckets(a) \/ ClearQueue(a) PROVE ControlInv'
<1>1. a \in Manager /\ ManagerOK(a) /\ a \in Actor
  BY ManagersAlone DEF ClearBuckets, ClearQueue, At, Asking
<1>2. UNCHANGED <<running, joinable, terminated>>
  BY DEF ClearBuckets, ClearQueue, control
<1>3. CASE ClearBuckets(a)
  <2>1. frame'[a] = [Idle EXCEPT !.at = "clear"] /\ KeepOthers(a)
    BY <1>1, <1>3, DangleMoves DEF ClearBuckets, Inv
  <2>2. frame'[a].at = "clear"
    BY <2>1, IdleFields
  <2>3. ManagerOK(a)'
    BY <1>1, <1>2, <1>3, <2>2
       DEF ClearBuckets, At, ManagerOK, Asking, Down, Rest, NoBuckets
  <2> QED BY <1>1, <1>2, <2>1, <2>3, ThreadsStay, ManagerInv DEF Inv, ControlInv
<1>4. CASE ClearQueue(a)
  <2>1. frame'[a].at = "idle" /\ KeepOthers(a)
    BY <1>1, <1>4, GoToMoves DEF ClearQueue, Inv
  <2>2. ManagerOK(a)'
    BY <1>1, <1>2, <1>4, <2>1 DEF ClearQueue, At, ManagerOK, Asking, Down, Rest
  <2> QED BY <1>1, <1>2, <2>1, <2>2, ThreadsStay, ManagerInv DEF Inv, ControlInv
<1> QED BY <1>3, <1>4

\* What an actor does about a request; where there are no buckets it consumes nothing.
LEMMA RequestMoves ==
  ASSUME Inv, NEW a \in Actor,
         (\E q \in Request : Acquire(a, q)) \/ Executes(a) \/ IsRefused(a) \/ Enqueue(a)
  PROVE  /\ KeepOthers(a) /\ UNCHANGED control
         /\ Rest => UNCHANGED token_buckets
         /\ At(a, "idle") \/ At(a, "try") \/ (a \in App /\ At(a, "enqueue"))
         /\ IF a = "worker" THEN frame'[a].at \in {"try", "enqueue", "loop"}
                            ELSE frame'[a].at \in Asking
<1>1. ASSUME NEW q \in Request, Acquire(a, q)
      PROVE  frame'[a].at \in {"try", "enqueue"} /\ KeepOthers(a)
  <2>1. frame'[a] = Holding(q, "enqueue") /\ KeepOthers(a)
    BY <1>1, GoMoves DEF Acquire, Inv
  <2> QED BY <2>1, RequestFields
<1>2. ASSUME Executes(a)
      PROVE  frame'[a].at = (IF a = "worker" THEN "loop" ELSE "idle") /\ KeepOthers(a)
  BY <1>2, GoToMoves DEF Executes, Inv
<1>3. ASSUME IsRefused(a) PROVE frame'[a].at = "enqueue" /\ KeepOthers(a)
  <2>1. frame'[a] = [Idle EXCEPT !.request = frame[a].request, !.at = "enqueue"]
        /\ KeepOthers(a)
    BY <1>3, GoMoves DEF IsRefused, Inv
  <2> QED BY <2>1, RequestFields
<1>4. ASSUME Enqueue(a) PROVE frame'[a].at = "idle" /\ KeepOthers(a) /\ a # "worker"
  BY <1>4, GoToMoves, ClientAssumption DEF Enqueue, Inv, Thread
<1>5. Rest => UNCHANGED token_buckets
  <2>1. Rest => DOMAIN token_buckets = {}
    BY DEF Rest, NoBuckets
  <2>2. FrameOK(frame[a])
    BY DEF Inv, TypeInv
  <2> QED BY <2>1, <2>2 DEF Acquire, Executes, IsRefused, Enqueue, FrameOK, state, data
<1>6. UNCHANGED control /\ (At(a, "idle") \/ At(a, "try") \/ (a \in App /\ At(a, "enqueue")))
  BY Zenon DEF Acquire, Executes, IsRefused, Enqueue, state
<1>7. /\ KeepOthers(a)
      /\ frame'[a].at \in {"try", "enqueue"} \/ (frame'[a].at = "loop" /\ a = "worker")
         \/ (frame'[a].at = "idle" /\ a # "worker")
  <2>1. CASE \E q \in Request : Acquire(a, q)
    BY <1>1, <2>1
  <2>2. CASE Executes(a)
    BY <1>2, <2>2
  <2>3. CASE IsRefused(a)
    BY <1>3, <2>3
  <2>4. CASE Enqueue(a)
    BY <1>4, <2>4
  <2> QED BY <2>1, <2>2, <2>3, <2>4
<1> QED BY <1>5, <1>6, <1>7 DEF Asking

LEMMA AskingControl ==
  ASSUME Inv, NEW a \in App, (\E q \in Request : Acquire(a, q)) \/ Acquiring(a)
  PROVE  ControlInv'
<1>1. a \in Actor /\ a # "worker"
  BY ClientAssumption DEF Actor, Thread
<1>2. frame[a].at \in Asking /\ frame'[a].at \in Asking
  BY <1>1, RequestMoves DEF Acquiring, Asking, At
<1> QED BY <1>1, <1>2, RequestMoves, AskingInv DEF Acquiring

\* The heartbeat thread and the worker.
LEMMA HeartbeatControl ==
  ASSUME Inv, HeartbeatStep PROVE ControlInv'
<1> DEFINE t == "heartbeat"
<1>1. t \in Thread /\ t \in Actor
  BY DEF Thread, Actor
<1>2. CASE WakeUp
  <2>1. frame'[t].at \in {"copy", "ended"} /\ KeepOthers(t)
    BY <1>1, <1>2, GoToMoves DEF WakeUp, Inv
  <2>2. UNCHANGED control /\ ~ At(t, "ended")
    BY <1>2 DEF WakeUp, state, At
  <2> QED BY <1>1, <2>1, <2>2, ThreadInv
<1>3. CASE Beating(t)
  <2>1. frame'[t].at \in {"rpc", "wait"} /\ KeepOthers(t)
    BY <1>1, <1>3, BeatMoves DEF Beating, AfterHeartbeat, Inv
  <2>2. UNCHANGED control /\ ~ At(t, "ended")
    BY <1>3 DEF Beating, CopyInterests, HeartbeatFails, UpdateTokenBuckets, state, At
  <2> QED BY <1>1, <2>1, <2>2, ThreadInv
<1> QED BY <1>2, <1>3 DEF HeartbeatStep

LEMMA WorkerControl ==
  ASSUME Inv, WorkerStep PROVE ControlInv'
<1> DEFINE t == "worker"
<1>1. t \in Thread /\ t \in Actor
  BY DEF Thread, Actor
<1>2. CASE LoopHead \/ FindNothing \/ Requeue
  <2>1. frame'[t].at \in {"pop", "loop", "ended"} /\ KeepOthers(t)
    BY <1>1, <1>2, GoToMoves DEF LoopHead, FindNothing, Requeue, Inv
  <2>2. UNCHANGED control /\ ~ At(t, "ended")
    BY <1>2 DEF LoopHead, FindNothing, Requeue, state, At
  <2> QED BY <1>1, <2>1, <2>2, ThreadInv
<1>3. CASE Pop
  <2>1. frame'[t] = [Idle EXCEPT !.at = "lookup", !.request = Head(pending_queue)]
        /\ KeepOthers(t)
    BY <1>1, <1>3, GoMoves DEF Pop, Inv
  <2>2. frame'[t].at = "lookup"
    BY <2>1, RequestFields
  <2>3. UNCHANGED control /\ ~ At(t, "ended")
    BY <1>3 DEF Pop, At
  <2> QED BY <1>1, <2>1, <2>2, <2>3, ThreadInv
<1>4. CASE LookUp
  <2>1. frame'[t] = Holding(frame[t].request, "enqueue") /\ KeepOthers(t)
    BY <1>1, <1>4, GoMoves DEF LookUp, Inv
  <2>2. frame'[t].at \in {"try", "enqueue"}
    BY <2>1, RequestFields
  <2>3. UNCHANGED control /\ ~ At(t, "ended")
    BY <1>4 DEF LookUp, state, At
  <2> QED BY <1>1, <2>1, <2>2, <2>3, ThreadInv
<1>5. CASE Acquiring(t)
  <2>1. /\ frame'[t].at \in {"try", "enqueue", "loop"} /\ KeepOthers(t) /\ UNCHANGED control
        /\ ~ At(t, "ended")
    BY <1>1, <1>5, RequestMoves, ClientAssumption DEF Acquiring, At
  <2> QED BY <1>1, <2>1, ThreadInv
<1> QED BY <1>2, <1>3, <1>4, <1>5 DEF WorkerStep

\* What no actor's place depends on.
LEMMA NobodyMoves ==
  ASSUME Inv, UNCHANGED frame, UNCHANGED control, Rest => UNCHANGED token_buckets
  PROVE  ControlInv'
BY DEF Inv, ControlInv, ThreadsOK, At, ManagerOK, SpawnsNext, JoinsNext, Up, Down, Rest, control

LEMMA InvInit == Init => Inv
<1> SUFFICES ASSUME Init PROVE ControlInv
  BY TypeInit DEF Inv
<1>1. \A a \in App : frame[a].at = "idle"
  BY IdleFields, ClientAssumption DEF Init, Actor
<1>2. \A t \in Thread : frame[t].at = "ended"
  BY IdleFields, ClientAssumption DEF Init, Actor
<1>3. Rest /\ ~ terminated
  BY DEF Init, Rest, Down, NoBuckets, Thread
<1> QED
  BY <1>1, <1>2, <1>3, ClientAssumption DEF ControlInv, ThreadsOK, ManagerOK, Asking, At, Thread

LEMMA InvNext == ASSUME Inv, OneManager, [Next]_vars PROVE Inv'
<1>1. ASSUME NEW a \in App, Call(a) PROVE ControlInv'
  <2>1. ASSUME NEW resource_ids \in SUBSET Resource, SetResourceInterests(a, resource_ids)
        PROVE  ControlInv'
    BY <2>1, NobodyMoves DEF SetResourceInterests
  <2> QED BY <1>1, <2>1, StartControl, AskingControl DEF Call
<1>2. ASSUME NEW a \in App, AppStep(a) PROVE ControlInv'
  BY <1>2, StartControl, SpawnControl, AskingControl, JoinControl, ClearControl
     DEF AppStep, Starting, Beating, Stopping
<1>3. ASSUME NEW r \in Resource, Refill(r) PROVE ControlInv'
  BY <1>3, NobodyMoves DEF Refill, Rest, NoBuckets
<1>4. ASSUME UNCHANGED vars PROVE ControlInv'
  <2>1. UNCHANGED frame /\ UNCHANGED control /\ UNCHANGED token_buckets
    BY <1>4 DEF vars, state, data
  <2> QED BY <2>1, NobodyMoves
<1> QED
  BY <1>1, <1>2, <1>3, <1>4, HeartbeatControl, WorkerControl, TypeNext DEF Next, Inv

(***************************************************************************)
(* When the one manager's Stop has returned, both threads have ended and   *)
(* no bucket is left, whatever was in flight when it was called.           *)
(***************************************************************************)
THEOREM StopIsFinal ==
  ASSUME OneManager PROVE Spec => []StoppedIsQuiet
<1>1. Inv => StoppedIsQuiet
  <2> SUFFICES ASSUME Inv, ~ running, \A a \in Manager : At(a, "idle") PROVE Rest
    BY DEF StoppedIsQuiet, Inv, ControlInv, ThreadsOK, Rest, Down, NoBuckets, Thread
  <2>1. CASE Manager = {}
    BY <2>1 DEF Inv, ControlInv
  <2>2. CASE Manager # {}
    BY <2>2 DEF Inv, ControlInv, ManagerOK, At, Up
  <2> QED BY <2>1, <2>2
<1> QED BY <1>1, InvInit, InvNext, PTL DEF Spec

(***************************************************************************)
(* However often the one manager starts and stops the client, and however  *)
(* its registrations end, no std::thread object is assigned to or joined   *)
(* at the wrong time.                                                      *)
(***************************************************************************)
THEOREM NoTermination ==
  ASSUME OneManager PROVE Spec => []NeverTerminates
<1>1. Inv => NeverTerminates
  BY DEF Inv, ControlInv, NeverTerminates
<1> QED BY <1>1, InvInit, InvNext, PTL DEF Spec

-----------------------------------------------------------------------------
(***************************************************************************)
(* The client library implements the queue of module RequestQueue.         *)
(***************************************************************************)
\* Where an actor has a request in its hands; no two threads have the same.
Busy == {"lookup", "try", "enqueue"}

RequestsOK ==
  /\ \A a \in Actor : frame[a].request = NoRequest <=> frame[a].at \notin Busy
  /\ \A a, b \in App :
       frame[a].request = frame[b].request => a = b \/ frame[a].request = NoRequest

QInv == Inv /\ RequestsOK

\* The abstract variables.
asking  == {frame[a].request : a \in App} \ {NoRequest}
waiting == Held \o pending_queue

-----------------------------------------------------------------------------
(***************************************************************************)
(* Steps that put no request down and take none up.                        *)
(***************************************************************************)
Untouched ==
  \A b \in Actor : /\ frame'[b].request = frame[b].request
                   /\ frame'[b].at \in Busy <=> frame[b].at \in Busy

LEMMA Stutters ==
  ASSUME RequestsOK, Untouched, UNCHANGED pending_queue
  PROVE  RequestsOK' /\ UNCHANGED <<asking, waiting>>
<1>1. App \subseteq Actor /\ "worker" \in Actor
  BY DEF Actor, Thread
<1>2. RequestsOK'
  BY <1>1 DEF RequestsOK, Untouched
<1>3. asking' = asking
  BY <1>1 DEF asking, Untouched
<1>4. waiting' = waiting
  BY <1>1 DEF waiting, Held, Untouched
<1> QED BY <1>2, <1>3, <1>4

LEMMA GoUntouched ==
  ASSUME TypeInv, NEW a \in Actor, NEW f, Go(a, f),
         f.request = frame[a].request, f.at \in Busy <=> frame[a].at \in Busy
  PROVE  Untouched
BY DEF TypeInv, Go, Untouched

LEMMA DangleUntouched ==
  ASSUME TypeInv, NEW a \in Actor, NEW f, NEW R, frame' = Dangle(R, a, f),
         f.request = frame[a].request, f.at \in Busy <=> frame[a].at \in Busy
  PROVE  Untouched
<1>1. ASSUME NEW b \in Actor, b # a
      PROVE  frame'[b].request = frame[b].request /\ frame'[b].at = frame[b].at
  <2>1. frame[b] \in Frame
    BY DEF TypeInv
  <2>2. frame'[b] = frame[b] \/ frame'[b] = [frame[b] EXCEPT !.bucket = "erased"]
    BY <1>1 DEF Dangle
  <2> QED BY <2>1, <2>2 DEF Frame
<1>2. frame'[a] = f
  BY DEF Dangle
<1> QED BY <1>1, <1>2 DEF Untouched

\* The frames of an actor without a request.
LEMMA IdleRequests ==
  ASSUME NEW step, NEW thread, NEW interests
  PROVE  /\ Idle.request = NoRequest
         /\ [Idle EXCEPT !.at = step].request = NoRequest
         /\ [Idle EXCEPT !.at = step, !.interests = interests].request = NoRequest
         /\ [Idle EXCEPT !.at = step, !.thread = thread].request = NoRequest
BY DEF Idle

LEMMA GoToUntouched ==
  ASSUME TypeInv, RequestsOK, NEW a \in Actor, frame[a].at \notin Busy,
         NEW step, step \notin Busy, GoTo(a, step)
  PROVE  Untouched
<1> DEFINE f == [Idle EXCEPT !.at = step]
<1>1. f.request = NoRequest /\ f.at = step /\ Go(a, f)
  BY IdleRequests, IdleFields DEF GoTo
<1> HIDE DEF f
<1> QED BY <1>1, GoUntouched DEF RequestsOK

LEMMA GoAboutThreadUntouched ==
  ASSUME TypeInv, RequestsOK, NEW a \in Actor, frame[a].at \notin Busy,
         NEW step, step \notin Busy, NEW thread,
         Go(a, [Idle EXCEPT !.at = step, !.thread = thread])
  PROVE  Untouched
<1> DEFINE f == [Idle EXCEPT !.at = step, !.thread = thread]
<1>1. f.request = NoRequest /\ f.at = step /\ Go(a, f)
  BY IdleRequests, IdleFields
<1> HIDE DEF f
<1> QED BY <1>1, GoUntouched DEF RequestsOK

LEMMA StartUntouched ==
  ASSUME TypeInv, RequestsOK, NEW a \in Actor,
         Start(a) \/ RegisterFails(a) \/ RegisterSucceeds(a) \/ Stop(a) \/ SignalStop(a)
  PROVE  Untouched /\ UNCHANGED <<pending_queue, executed>>
<1>1. UNCHANGED <<pending_queue, executed>>
  BY DEF Start, RegisterFails, RegisterSucceeds, Stop, SignalStop, state, data
<1>2. CASE Start(a) \/ RegisterFails(a) \/ Stop(a)
  BY <1>1, <1>2, GoToUntouched DEF Start, RegisterFails, Stop, At, Busy
<1>3. CASE RegisterSucceeds(a) \/ SignalStop(a)
  BY <1>1, <1>3, GoAboutThreadUntouched DEF RegisterSucceeds, SignalStop, At, Busy
<1> QED BY <1>2, <1>3

LEMMA SpawnUntouched ==
  ASSUME QInv, NEW a \in App, Spawn(a)
  PROVE  Untouched /\ UNCHANGED <<pending_queue, executed>>
<1> DEFINE t == frame[a].thread
<1>1. a \in Manager /\ ManagerOK(a) /\ a \in Actor /\ a \notin Thread /\ Thread \subseteq Actor
  BY ManagersAlone DEF Spawn, At, Asking, Actor, QInv
<1>2. t \in Thread /\ ~ joinable[t]
  BY <1>1 DEF Spawn, At, ManagerOK, SpawnsNext, Asking, Thread
<1>3. /\ frame'[t] = [Idle EXCEPT !.at = IF t = "heartbeat" THEN "wait" ELSE "loop"]
      /\ frame'[a] = IF t = "heartbeat" THEN [frame[a] EXCEPT !.thread = "worker"]
                                        ELSE [Idle EXCEPT !.at = "copy"]
      /\ \A b \in Actor \ {a, t} : frame'[b] = frame[b]
  BY <1>1, <1>2 DEF Spawn, QInv, Inv, TypeInv
<1>4. frame[t].at = "ended" /\ frame[t].request = NoRequest
  BY <1>1, <1>2 DEF QInv, Inv, ControlInv, ThreadsOK, At, RequestsOK, Busy
<1>5. frame'[t].at \in {"wait", "loop"} /\ frame'[t].request = NoRequest
  BY <1>3, IdleFields, IdleRequests
<1>6. frame[a].at = "spawn" /\ frame[a].request = NoRequest /\ frame[a] \in Frame
  BY <1>1 DEF Spawn, At, QInv, RequestsOK, Busy, Inv, TypeInv
<1>7. frame'[a].at \in {"spawn", "copy"} /\ frame'[a].request = NoRequest
  <2>1. CASE t = "heartbeat"
    BY <1>3, <1>6, <2>1 DEF Frame
  <2>2. CASE t # "heartbeat"
    BY <1>3, <2>2, IdleFields, IdleRequests
  <2> QED BY <2>1, <2>2
<1> QED BY <1>3, <1>4, <1>5, <1>6, <1>7 DEF Untouched, Busy, Spawn, data

LEMMA BeatUntouched ==
  ASSUME TypeInv, RequestsOK, NEW a \in Actor, Beating(a)
  PROVE  Untouched /\ UNCHANGED <<pending_queue, executed>>
<1>1. UNCHANGED <<pending_queue, executed>>
  BY DEF Beating, CopyInterests, HeartbeatFails, UpdateTokenBuckets, state, data
<1>2. AfterHeartbeat(a) \notin Busy
  BY DEF AfterHeartbeat, Busy
<1>3. frame[a].at \notin Busy /\ frame[a].request = NoRequest
  BY DEF Beating, CopyInterests, HeartbeatFails, UpdateTokenBuckets, At, Busy, RequestsOK
<1>4. CASE CopyInterests(a)
  <2> DEFINE f == [Idle EXCEPT !.at = "rpc", !.interests = resource_interests]
  <2>1. f.request = NoRequest /\ f.at = "rpc" /\ Go(a, f)
    BY <1>4, IdleRequests, IdleFields DEF CopyInterests
  <2> HIDE DEF f
  <2> QED BY <1>1, <1>3, <2>1, GoUntouched DEF Busy
<1>5. CASE HeartbeatFails(a)
  BY <1>1, <1>2, <1>3, <1>5, GoToUntouched DEF HeartbeatFails
<1>6. CASE UpdateTokenBuckets(a)
  <2> DEFINE f == [Idle EXCEPT !.at = AfterHeartbeat(a)]
  <2>1. f.request = NoRequest /\ f.at \notin Busy
    BY <1>2, IdleRequests, IdleFields
  <2>2. PICK R : frame' = Dangle(R, a, f)
    BY <1>6 DEF UpdateTokenBuckets
  <2> HIDE DEF f
  <2> QED BY <1>1, <1>3, <2>1, <2>2, DangleUntouched
<1> QED BY <1>4, <1>5, <1>6 DEF Beating

LEMMA StopUntouched ==
  ASSUME TypeInv, RequestsOK, NEW a \in Actor,
         CheckJoinable(a) \/ Join(a) \/ ClearBuckets(a)
  PROVE  Untouched /\ UNCHANGED <<pending_queue, executed>>
<1>1. UNCHANGED <<pending_queue, executed>>
  BY DEF CheckJoinable, Join, ClearBuckets, state, data
<1>2. frame[a].at \notin Busy /\ frame[a].request = NoRequest
  BY DEF CheckJoinable, Join, ClearBuckets, At, Busy, RequestsOK
<1>3. CASE Go(a, Joined(a))
  <2>1. Joined(a).request = NoRequest /\ Joined(a).at \in {"check", "unregister"}
    BY IdleRequests, IdleFields DEF Joined
  <2> QED BY <1>1, <1>2, <1>3, <2>1, GoUntouched DEF Busy
<1>4. CASE Go(a, [frame[a] EXCEPT !.at = "join"])
  <2> DEFINE f == [frame[a] EXCEPT !.at = "join"]
  <2>1. frame[a] \in Frame
    BY DEF TypeInv
  <2>2. f.request = frame[a].request /\ f.at = "join" /\ Go(a, f)
    BY <1>4, <2>1 DEF Frame
  <2> HIDE DEF f
  <2> QED BY <1>1, <1>2, <2>2, GoUntouched DEF Busy
<1>5. CASE ClearBuckets(a)
  <2> DEFINE f == [Idle EXCEPT !.at = "clear"]
  <2>1. f.request = NoRequest /\ f.at = "clear" /\ frame' = Dangle(DOMAIN token_buckets, a, f)
    BY <1>5, IdleRequests, IdleFields DEF ClearBuckets
  <2> HIDE DEF f
  <2> QED BY <1>1, <1>2, <2>1, DangleUntouched DEF Busy
<1> QED BY <1>3, <1>4, <1>5 DEF CheckJoinable, Join

LEMMA ThreadUntouched ==
  ASSUME TypeInv, RequestsOK, WakeUp \/ LoopHead \/ FindNothing
  PROVE  Untouched /\ UNCHANGED <<pending_queue, executed>>
<1>1. "heartbeat" \in Actor /\ "worker" \in Actor
  BY DEF Actor, Thread
<1> QED
  BY <1>1, GoToUntouched DEF WakeUp, LoopHead, FindNothing, At, Busy, state, data

LEMMA RequestIs ==
  ASSUME NEW q, NEW step
  PROVE  /\ [Idle EXCEPT !.request = q, !.at = step].request = q
         /\ [Idle EXCEPT !.at = step, !.request = q].request = q
         /\ Holding(q, step).request = q
BY DEF Idle, Holding

\* A lookup or a refusal keeps the request in the same hands.
LEMMA KeepsRequest ==
  ASSUME TypeInv, RequestsOK, NEW a \in Actor, IsRefused(a) \/ (a = "worker" /\ LookUp)
  PROVE  Untouched /\ UNCHANGED <<pending_queue, executed>>
<1>1. UNCHANGED <<pending_queue, executed>> /\ frame[a].at \in Busy
  BY DEF IsRefused, LookUp, state, data, At, Busy
<1>2. CASE IsRefused(a)
  <2> DEFINE f == [Idle EXCEPT !.request = frame[a].request, !.at = "enqueue"]
  <2>1. f.request = frame[a].request /\ f.at = "enqueue" /\ Go(a, f)
    BY <1>2, RequestIs, RequestFields DEF IsRefused
  <2> HIDE DEF f
  <2> QED BY <1>1, <2>1, GoUntouched DEF Busy
<1>3. CASE a = "worker" /\ LookUp
  <2> DEFINE f == Holding(frame[a].request, "enqueue")
  <2>1. f.request = frame[a].request /\ f.at \in {"try", "enqueue"} /\ Go(a, f)
    BY <1>3, RequestIs, RequestFields DEF LookUp
  <2> HIDE DEF f
  <2> QED BY <1>1, <2>1, GoUntouched DEF Busy
<1> QED BY <1>2, <1>3

-----------------------------------------------------------------------------
(***************************************************************************)
(* The queue's phase is where the manager is: only its registration and    *)
(* the two ends of its Stop change it.                                     *)
(***************************************************************************)
LEMMA MovePhase ==
  ASSUME NEW a \in Actor, KeepOthers(a), UNCHANGED running,
         a \in Thread \/ (frame'[a].at \in Ending <=> frame[a].at \in Ending)
  PROVE  UNCHANGED Phase
<1>1. Manager \subseteq Actor /\ \A m \in Manager : m \notin Thread
  BY ClientAssumption DEF Actor
<1>2. \A m \in Manager : frame'[m].at \in Ending <=> frame[m].at \in Ending
  BY <1>1 DEF KeepOthers
<1> QED BY <1>2 DEF Phase

LEMMA CallPhase ==
  ASSUME TypeInv, NEW a \in App, Start(a) \/ RegisterFails(a) \/ Stop(a)
  PROVE  UNCHANGED Phase
<1>1. a \in Actor
  BY DEF Actor
<1>2. KeepOthers(a) /\ frame'[a].at \in {"register", "idle", "stop"}
  BY <1>1, GoToMoves DEF Start, RegisterFails, Stop
<1> QED
  BY <1>1, <1>2, MovePhase DEF Start, RegisterFails, Stop, At, Ending, state, control

LEMMA SpawnPhase ==
  ASSUME QInv, NEW a \in App, Spawn(a) PROVE UNCHANGED Phase
<1> DEFINE t == frame[a].thread
<1>1. a \in Actor /\ a \notin Thread /\ t \in Thread /\ frame[a] \in Frame
  BY ManagersAlone DEF Spawn, At, Asking, QInv, Inv, TypeInv, FrameOK
<1>2. \A m \in Manager \ {a} : frame'[m] = frame[m]
  BY <1>1, ClientAssumption DEF Spawn, QInv, Inv, TypeInv, Actor
<1>3. frame'[a].at \in {"spawn", "copy"}
  <2>1. frame'[a] = IF t = "heartbeat" THEN [frame[a] EXCEPT !.thread = "worker"]
                                      ELSE [Idle EXCEPT !.at = "copy"]
    BY <1>1 DEF Spawn, QInv, Inv, TypeInv
  <2>2. frame[a].at = "spawn"
    BY DEF Spawn, At
  <2>3. CASE t = "heartbeat"
    BY <1>1, <2>1, <2>2, <2>3 DEF Frame
  <2>4. CASE t # "heartbeat"
    BY <2>1, <2>4, IdleFields
  <2> QED BY <2>3, <2>4
<1> QED BY <1>2, <1>3 DEF Phase, Spawn, At, Ending

LEMMA BeatPhase ==
  ASSUME TypeInv, NEW a \in Actor, Beating(a) PROVE UNCHANGED Phase
<1>1. KeepOthers(a) /\ frame'[a].at \in {"rpc", "wait", "idle"}
  BY BeatMoves DEF Beating, AfterHeartbeat
<1>2. frame[a].at \in {"copy", "rpc"} /\ UNCHANGED running
  BY DEF Beating, CopyInterests, HeartbeatFails, UpdateTokenBuckets, At, state, control
<1> QED BY <1>1, <1>2, MovePhase DEF Ending

LEMMA RequestPhase ==
  ASSUME Inv, NEW a \in Actor, (\E q \in Request : Acquire(a, q)) \/ Acquiring(a)
  PROVE  UNCHANGED Phase
<1>1. /\ KeepOthers(a) /\ UNCHANGED control
      /\ frame[a].at \in Asking
      /\ frame'[a].at \in {"try", "enqueue", "loop", "idle"}
  BY RequestMoves DEF Acquiring, At, Asking
<1> QED BY <1>1, MovePhase DEF Ending, Asking, control

LEMMA StopPhase ==
  ASSUME TypeInv, NEW a \in App, CheckJoinable(a) \/ Join(a) \/ ClearBuckets(a)
  PROVE  UNCHANGED Phase
<1>1. a \in Actor
  BY DEF Actor
<1>2. frame[a].at \in Ending /\ UNCHANGED running
  BY DEF CheckJoinable, Join, ClearBuckets, At, Ending, state, control
<1>3. CASE Go(a, Joined(a))
  BY <1>1, <1>2, <1>3, JoinedMoves, MovePhase DEF Ending
<1>4. CASE Go(a, [frame[a] EXCEPT !.at = "join"])
  <2>1. frame'[a] = [frame[a] EXCEPT !.at = "join"] /\ KeepOthers(a) /\ frame[a] \in Frame
    BY <1>1, <1>4, GoMoves DEF TypeInv
  <2>2. frame'[a].at = "join"
    BY <2>1 DEF Frame
  <2> QED BY <1>1, <1>2, <2>1, <2>2, MovePhase DEF Ending
<1>5. CASE ClearBuckets(a)
  <2>1. frame'[a] = [Idle EXCEPT !.at = "clear"] /\ KeepOthers(a)
    BY <1>1, <1>5, DangleMoves DEF ClearBuckets
  <2>2. frame'[a].at = "clear"
    BY <2>1, IdleFields
  <2> QED BY <1>1, <1>2, <2>1, <2>2, MovePhase DEF Ending
<1> QED BY <1>3, <1>4, <1>5 DEF CheckJoinable, Join

LEMMA ThreadPhase ==
  ASSUME TypeInv, WakeUp \/ LoopHead \/ FindNothing \/ Pop \/ LookUp \/ Requeue
  PROVE  UNCHANGED Phase
<1>1. /\ "heartbeat" \in Actor /\ "heartbeat" \in Thread
      /\ "worker" \in Actor /\ "worker" \in Thread
  BY DEF Actor, Thread
<1>2. UNCHANGED running
  BY DEF WakeUp, LoopHead, FindNothing, Pop, LookUp, Requeue, state, control
<1>3. KeepOthers("heartbeat") \/ KeepOthers("worker")
  BY <1>1, GoToMoves, GoMoves DEF WakeUp, LoopHead, FindNothing, Pop, LookUp, Requeue
<1> QED BY <1>1, <1>2, <1>3, MovePhase

\* Start has registered the client.
LEMMA RegisterStarts ==
  ASSUME QInv, OneManager, NEW a \in App, RegisterSucceeds(a)
  PROVE  Phase = "off" /\ Phase' = "on"
<1>1. a \in Manager /\ ManagerOK(a) /\ frame[a].at = "register"
  BY ManagersAlone DEF RegisterSucceeds, At, Asking, QInv
<1>2. ~ running
  BY <1>1 DEF ManagerOK, Asking, Rest, Down
<1>3. \A m \in Manager : m = a
  BY <1>1 DEF OneManager
<1> QED BY <1>1, <1>2, <1>3 DEF Phase, RegisterSucceeds, Ending

\* Stop has told the threads to end.
LEMMA SignalStops ==
  ASSUME QInv, NEW a \in App, SignalStop(a)
  PROVE  Phase = "on" /\ Phase' = "stopping"
<1>1. a \in Manager /\ ManagerOK(a) /\ frame[a].at = "stop" /\ a \in Actor
  BY ManagersAlone DEF SignalStop, At, Asking, QInv
<1>2. running
  BY <1>1 DEF ManagerOK, Asking, Up
<1>3. frame'[a].at = "check"
  BY <1>1, GoAboutThreadMoves DEF SignalStop, QInv, Inv
<1> QED BY <1>1, <1>2, <1>3 DEF Phase, SignalStop, Ending

\* Stop returns.
LEMMA ClearEnds ==
  ASSUME QInv, OneManager, NEW a \in App, ClearQueue(a)
  PROVE  Phase = "stopping" /\ Phase' = "off"
<1>1. a \in Manager /\ ManagerOK(a) /\ frame[a].at = "clear" /\ a \in Actor
  BY ManagersAlone DEF ClearQueue, At, Asking, QInv
<1>2. ~ running /\ running' = running
  BY <1>1 DEF ManagerOK, Asking, Rest, Down, ClearQueue, control
<1>3. frame'[a].at = "idle"
  BY <1>1, GoToMoves DEF ClearQueue, QInv, Inv
<1>4. \A m \in Manager : m = a
  BY <1>1 DEF OneManager
<1> QED BY <1>1, <1>2, <1>3, <1>4 DEF Phase, Ending

\* While the worker has not ended, the client runs or is being stopped.
LEMMA WorkerNeedsClient ==
  ASSUME QInv, ~ At("worker", "ended") PROVE Phase # "off"
<1>1. joinable["worker"]
  BY DEF QInv, Inv, ControlInv, ThreadsOK, Thread
<1>2. ~ Rest /\ ~ Down
  BY <1>1 DEF Rest, Down
<1>3. PICK m \in Manager : ManagerOK(m)
  BY <1>2 DEF QInv, Inv, ControlInv
<1>4. running \/ frame[m].at \in Ending
  BY <1>2, <1>3 DEF ManagerOK, Up, Ending
<1> QED BY <1>4 DEF Phase

-----------------------------------------------------------------------------
(***************************************************************************)
(* Steps of an application thread about its request.                       *)
(***************************************************************************)
\* Thread a goes on with request q, or with none: nobody else's changes.
Takes(a, q) ==
  /\ frame'[a].request = q
  /\ q = NoRequest <=> frame'[a].at \notin Busy
  /\ \A b \in Actor \ {a} : frame'[b] = frame[b]

LEMMA AcquireAsks ==
  ASSUME TypeInv, RequestsOK, NEW a \in App, NEW q \in Request, Acquire(a, q)
  PROVE  /\ RequestsOK' /\ q \notin asking
         /\ asking' = asking \cup {q} /\ UNCHANGED waiting
         /\ executed' = executed \ {q}
<1>1. App \subseteq Actor /\ a \in Actor /\ "worker" \in Actor /\ a # "worker"
  BY ClientAssumption DEF Actor, Thread
<1>2. Takes(a, q)
  <2> DEFINE f == Holding(q, "enqueue")
  <2>1. f.request = q /\ f.at \in {"try", "enqueue"} /\ Go(a, f)
    BY RequestIs, RequestFields DEF Acquire
  <2> HIDE DEF f
  <2> QED BY <1>1, <2>1, ClientAssumption DEF Go, Takes, Busy, TypeInv
<1>3. \A b \in Actor : frame[b].request # q
  BY DEF Acquire, InUse
<1>4. frame[a].request = NoRequest
  BY <1>1 DEF Acquire, At, RequestsOK, Busy
<1>5. RequestsOK'
  BY <1>1, <1>2, <1>3 DEF RequestsOK, Takes
<1>6. q \notin asking /\ asking' = asking \cup {q}
  BY <1>1, <1>2, <1>3, <1>4, ClientAssumption DEF asking, Takes
<1>7. waiting' = waiting
  BY <1>1, <1>2 DEF Acquire, Takes, waiting, Held
<1> QED BY <1>5, <1>6, <1>7 DEF Acquire

\* What is asked for is not waiting: Acquire's request is nowhere in use.
LEMMA AcquireIsNew ==
  ASSUME TypeInv, NEW a \in App, NEW q \in Request, Acquire(a, q)
  PROVE  \A i \in DOMAIN waiting : waiting[i] # q
<1>1. \A i \in DOMAIN pending_queue : pending_queue[i] # q
  BY DEF Acquire, InUse
<1>2. frame["worker"].request # q /\ frame["worker"].request \in Request \cup {NoRequest}
  BY DEF Acquire, InUse, Actor, Thread, TypeInv, Frame
<1>3. pending_queue \in Seq(Request)
  BY DEF TypeInv
<1>4. CASE frame["worker"].request = NoRequest
  BY <1>1, <1>3, <1>4 DEF waiting, Held
<1>5. CASE frame["worker"].request # NoRequest
  <2> DEFINE h == frame["worker"].request
  <2>1. waiting = <<h>> \o pending_queue /\ h # q /\ h \in Request
    BY <1>2, <1>5 DEF waiting, Held
  <2> HIDE DEF h
  <2> QED BY <1>1, <1>3, <2>1
<1> QED BY <1>4, <1>5

LEMMA AcquireEnds ==
  ASSUME TypeInv, RequestsOK, NEW a \in App, Executes(a) \/ Enqueue(a)
  PROVE  /\ RequestsOK' /\ frame[a].request \in asking
         /\ asking' = asking \ {frame[a].request} /\ Held' = Held
<1> DEFINE q == frame[a].request
<1>1. App \subseteq Actor /\ a \in Actor /\ "worker" \in Actor /\ a # "worker"
  BY ClientAssumption DEF Actor, Thread
<1>2. Takes(a, NoRequest)
  <2>1. GoTo(a, "idle")
    BY <1>1 DEF Executes, Enqueue
  <2> DEFINE f == [Idle EXCEPT !.at = "idle"]
  <2>2. f.request = NoRequest /\ f.at = "idle" /\ Go(a, f)
    BY <2>1, IdleRequests, IdleFields DEF GoTo
  <2> HIDE DEF f
  <2> QED BY <1>1, <2>2 DEF Go, Takes, Busy, TypeInv
<1>3. q # NoRequest
  BY <1>1 DEF Executes, Enqueue, At, RequestsOK, Busy
<1>4. RequestsOK'
  BY <1>1, <1>2 DEF RequestsOK, Takes
<1>5. q \in asking /\ asking' = asking \ {q}
  BY <1>1, <1>2, <1>3 DEF asking, Takes, RequestsOK
<1>6. Held' = Held
  BY <1>1, <1>2 DEF Takes, Held
<1> QED BY <1>4, <1>5, <1>6

-----------------------------------------------------------------------------
(***************************************************************************)
(* Steps of the worker about the request at the head.                      *)
(***************************************************************************)
\* The worker goes on with request q, or with none.
LEMMA WorkerTakes ==
  ASSUME TypeInv, RequestsOK, NEW q \in Request \cup {NoRequest}, Takes("worker", q)
  PROVE  /\ RequestsOK' /\ UNCHANGED asking
         /\ Held' = IF q = NoRequest THEN <<>> ELSE <<q>>
<1>1. App \subseteq Actor \ {"worker"}
  BY ClientAssumption DEF Actor, Thread
<1>2. RequestsOK'
  BY <1>1 DEF RequestsOK, Takes
<1>3. asking' = asking
  BY <1>1 DEF asking, Takes
<1>4. Held' = IF q = NoRequest THEN <<>> ELSE <<q>>
  BY DEF Held, Takes
<1> QED BY <1>2, <1>3, <1>4

LEMMA PopHolds ==
  ASSUME TypeInv, RequestsOK, Pop
  PROVE  RequestsOK' /\ UNCHANGED <<asking, waiting>>
<1> DEFINE q == Head(pending_queue)
<1>1. /\ pending_queue \in Seq(Request) /\ pending_queue # <<>>
      /\ q \in Request /\ Tail(pending_queue) \in Seq(Request) /\ q # NoRequest
  BY ClientAssumption DEF TypeInv, Pop
<1>2. Takes("worker", q)
  <2> DEFINE f == [Idle EXCEPT !.at = "lookup", !.request = q]
  <2>1. f.request = q /\ f.at = "lookup" /\ Go("worker", f)
    BY RequestIs, RequestFields DEF Pop
  <2> HIDE DEF f, q
  <2> QED BY <1>1, <2>1 DEF Go, Takes, Busy, TypeInv, Actor, Thread
<1>3. Held = <<>>
  BY DEF Pop, At, Held, RequestsOK, Busy, Actor, Thread
<1>4. RequestsOK' /\ asking' = asking /\ Held' = <<q>>
  BY <1>1, <1>2, WorkerTakes
<1>5. pending_queue' = Tail(pending_queue)
  BY DEF Pop
<1>6. <<q>> \o Tail(pending_queue) = pending_queue
  BY <1>1
<1>7. <<>> \o pending_queue = pending_queue
  BY <1>1
<1>8. waiting' = waiting
  BY <1>3, <1>4, <1>5, <1>6, <1>7 DEF waiting
<1> QED BY <1>4, <1>8

\* The worker's request is over, or put back: its hands are free.
LEMMA WorkerFree ==
  ASSUME TypeInv, RequestsOK, Executes("worker") \/ Requeue
  PROVE  /\ RequestsOK' /\ asking' = asking /\ Held' = <<>>
         /\ frame["worker"].request \in Request /\ Held = <<frame["worker"].request>>
         /\ pending_queue \in Seq(Request)
<1>1. "worker" \in Actor
  BY DEF Actor, Thread
<1>2. Takes("worker", NoRequest)
  <2>1. GoTo("worker", "loop")
    BY DEF Executes, Requeue
  <2> DEFINE f == [Idle EXCEPT !.at = "loop"]
  <2>2. f.request = NoRequest /\ f.at = "loop" /\ Go("worker", f)
    BY <2>1, IdleRequests, IdleFields DEF GoTo
  <2> HIDE DEF f
  <2> QED BY <1>1, <2>2 DEF Go, Takes, Busy, TypeInv
<1>3. RequestsOK' /\ asking' = asking /\ Held' = <<>>
  BY <1>2, WorkerTakes
<1>4. frame["worker"].request \in Request
  BY <1>1 DEF Executes, Requeue, At, TypeInv, FrameOK
<1>5. Held = <<frame["worker"].request>>
  BY <1>4, ClientAssumption DEF Held
<1> QED BY <1>3, <1>4, <1>5 DEF TypeInv

LEMMA WorkerServes ==
  ASSUME TypeInv, RequestsOK, Executes("worker")
  PROVE  /\ RequestsOK' /\ asking' = asking
         /\ waiting # <<>> /\ waiting' = Tail(waiting)
         /\ executed' = executed \cup {Head(waiting)}
<1> DEFINE q == frame["worker"].request
<1>1. /\ RequestsOK' /\ asking' = asking /\ Held' = <<>> /\ Held = <<q>>
      /\ q \in Request /\ pending_queue \in Seq(Request) /\ pending_queue' = pending_queue
      /\ executed' = executed \cup {q}
  BY WorkerFree DEF Executes
<1> HIDE DEF q
<1>2. /\ <<q>> \o pending_queue # <<>>
      /\ Head(<<q>> \o pending_queue) = q /\ Tail(<<q>> \o pending_queue) = pending_queue
  BY <1>1
<1>3. <<>> \o pending_queue = pending_queue
  BY <1>1
<1> QED BY <1>1, <1>2, <1>3 DEF waiting

LEMMA RequeueStutters ==
  ASSUME TypeInv, RequestsOK, Requeue
  PROVE  RequestsOK' /\ UNCHANGED <<asking, waiting>>
<1> DEFINE q == frame["worker"].request
<1>1. /\ RequestsOK' /\ asking' = asking /\ Held' = <<>> /\ Held = <<q>>
      /\ q \in Request /\ pending_queue \in Seq(Request)
      /\ pending_queue' = <<q>> \o pending_queue
  BY WorkerFree DEF Requeue
<1> HIDE DEF q
<1>2. <<>> \o (<<q>> \o pending_queue) = <<q>> \o pending_queue
  BY <1>1
<1> QED BY <1>1, <1>2 DEF waiting

-----------------------------------------------------------------------------
(***************************************************************************)
(* Every step is one of the queue's, or changes nothing of it.             *)
(***************************************************************************)
LEMMA EnqueueWaits ==
  ASSUME TypeInv, RequestsOK, NEW a \in App, Enqueue(a)
  PROVE  waiting' = Append(waiting, frame[a].request)
<1> DEFINE q == frame[a].request
           h == frame["worker"].request
<1>1. /\ Held' = Held /\ pending_queue' = Append(pending_queue, q)
      /\ pending_queue \in Seq(Request) /\ q \in Request
      /\ Held = IF h = NoRequest THEN <<>> ELSE <<h>>
      /\ h \in Request \cup {NoRequest}
  BY AcquireEnds DEF Enqueue, At, TypeInv, FrameOK, Held, Frame, Actor, Thread
<1> HIDE DEF q, h
<1>2. Held \in Seq(Request)
  BY <1>1
<1>3. Held \o Append(pending_queue, q) = Append(Held \o pending_queue, q)
  BY <1>1, <1>2
<1> QED BY <1>1, <1>3 DEF waiting, q

\* Stop clears the queue when the worker has ended, and holds nothing.
LEMMA ClearDiscards ==
  ASSUME QInv, NEW a \in App, ClearQueue(a)
  PROVE  RequestsOK' /\ asking' = asking /\ waiting' = <<>>
<1>1. a \in Manager /\ ManagerOK(a) /\ a \in Actor /\ "worker" \in Actor
  BY ManagersAlone DEF ClearQueue, At, Asking, QInv, Actor, Thread
<1>2. frame["worker"].request = NoRequest
  <2>1. At("worker", "ended")
    BY <1>1 DEF ClearQueue, At, ManagerOK, Asking, Rest, Down, QInv, Inv, ControlInv,
       ThreadsOK, Thread
  <2> QED BY <1>1, <2>1 DEF At, QInv, RequestsOK, Busy
<1>3. Untouched
  BY <1>1, GoToUntouched DEF ClearQueue, At, Busy, QInv, Inv
<1>4. RequestsOK' /\ asking' = asking /\ Held' = Held
  BY <1>1, <1>3 DEF RequestsOK, Untouched, QInv, asking, Held, Actor
<1>5. waiting' = <<>> \o <<>>
  BY <1>2, <1>4 DEF waiting, Held, ClearQueue
<1> QED BY <1>4, <1>5

LEMMA QInvInit == Init => QInv /\ Service!Init
<1> SUFFICES ASSUME Init PROVE QInv /\ Service!Init
  OBVIOUS
<1>1. \A a \in Actor : frame[a].request = NoRequest /\ frame[a].at \notin Busy
  BY IdleRequests, IdleFields DEF Init, Busy
<1>2. RequestsOK
  BY <1>1 DEF RequestsOK, Actor
<1>3. asking = {} /\ Held = <<>> /\ pending_queue = <<>>
  BY <1>1 DEF asking, Held, Init, Actor, Thread
<1>4. <<>> \o <<>> = <<>>
  OBVIOUS
<1>5. Phase = "off" /\ executed = {}
  <2>1. ~ running /\ \A m \in Manager : frame[m].at = "idle"
    BY IdleFields, ClientAssumption DEF Init, Actor
  <2> QED BY <2>1 DEF Phase, Ending, Init
<1> QED BY <1>2, <1>3, <1>4, <1>5, InvInit DEF QInv, Service!Init, asking

LEMMA QInvNext ==
  ASSUME QInv, OneManager, [Next]_vars
  PROVE  RequestsOK' /\ [Service!Next]_(Service!vars)
<1> DEFINE Done == RequestsOK' /\ [Service!Next]_(Service!vars)
<1>1. /\ TypeInv /\ RequestsOK /\ Inv
      /\ App \subseteq Actor /\ "worker" \in Actor /\ "heartbeat" \in Actor
  BY DEF QInv, Inv, Actor, Thread
<1>2. ASSUME Untouched, UNCHANGED <<pending_queue, executed>>, UNCHANGED Phase
      PROVE  Done
  BY <1>1, <1>2, Stutters DEF Service!vars, asking, waiting
<1>3. ASSUME NEW a \in App, Call(a) PROVE Done
  <2>1. CASE Start(a) \/ Stop(a)
    BY <1>1, <1>2, <2>1, StartUntouched, CallPhase
  <2>2. CASE \E resource_ids \in SUBSET Resource : SetResourceInterests(a, resource_ids)
    BY <1>2, <2>2 DEF SetResourceInterests, Untouched, Phase, control
  <2>3. ASSUME NEW q \in Request, Acquire(a, q)
        PROVE  RequestsOK' /\ Service!Ask(q)
    <3>1. \A i \in DOMAIN waiting : waiting[i] # q
      BY <1>1, <2>3, AcquireIsNew
    <3>2. ~ Service!Waits(q)
      BY <3>1 DEF Service!Waits, waiting
    <3>3. UNCHANGED Phase
      BY <1>1, <2>3, RequestPhase
    <3> QED BY <1>1, <2>3, <3>2, <3>3, AcquireAsks DEF Service!Ask, asking, waiting
  <2> QED BY <1>3, <2>1, <2>2, <2>3 DEF Call, Service!Next
<1>4. ASSUME NEW a \in App, AppStep(a) PROVE Done
  <2>1. CASE RegisterFails(a) \/ Spawn(a)
    BY <1>1, <1>2, <2>1, StartUntouched, SpawnUntouched, CallPhase, SpawnPhase
  <2>2. CASE RegisterSucceeds(a)
    BY <1>1, <2>2, StartUntouched, Stutters, RegisterStarts
       DEF Service!Next, Service!Start, asking, waiting
  <2>3. CASE Beating(a)
    BY <1>1, <1>2, <2>3, BeatUntouched, BeatPhase
  <2>4. CASE SignalStop(a)
    BY <1>1, <2>4, StartUntouched, Stutters, SignalStops
       DEF Service!Next, Service!Stop, asking, waiting
  <2>5. CASE CheckJoinable(a) \/ Join(a) \/ ClearBuckets(a)
    BY <1>1, <1>2, <2>5, StopUntouched, StopPhase
  <2>6. CASE ClearQueue(a)
    <3>1. UNCHANGED executed
      BY <2>6 DEF ClearQueue
    <3> QED
      BY <2>6, <3>1, ClearDiscards, ClearEnds
         DEF Service!Next, Service!Discard, asking, waiting
  <2>7. CASE IsRefused(a)
    BY <1>1, <1>2, <2>7, KeepsRequest, RequestPhase DEF Acquiring
  <2>8. CASE Executes(a)
    <3>1. frame[a].request \in Request /\ UNCHANGED pending_queue
      BY <1>1, <2>8 DEF Executes, At, TypeInv, FrameOK
    <3>2. /\ RequestsOK' /\ frame[a].request \in asking
          /\ asking' = asking \ {frame[a].request} /\ waiting' = waiting
      BY <1>1, <2>8, <3>1, AcquireEnds DEF waiting
    <3>3. UNCHANGED Phase /\ executed' = executed \cup {frame[a].request}
      BY <1>1, <2>8, RequestPhase DEF Acquiring, Executes
    <3>4. PICK q \in Request : q = frame[a].request
      BY <3>1
    <3>5. Service!ExecuteAtOnce(q)
      BY <3>2, <3>3, <3>4 DEF Service!ExecuteAtOnce, asking, waiting
    <3> QED BY <3>2, <3>5 DEF Service!Next
  <2>9. CASE Enqueue(a)
    <3>1. frame[a].request \in Request
      BY <1>1, <2>9 DEF Enqueue, At, TypeInv, FrameOK
    <3>2. /\ RequestsOK' /\ frame[a].request \in asking
          /\ asking' = asking \ {frame[a].request}
          /\ waiting' = Append(waiting, frame[a].request)
      BY <1>1, <2>9, AcquireEnds, EnqueueWaits
    <3>3. UNCHANGED Phase /\ UNCHANGED executed
      BY <1>1, <2>9, RequestPhase DEF Acquiring, Enqueue
    <3>4. PICK q \in Request : q = frame[a].request
      BY <3>1
    <3>5. Service!Wait(q)
      BY <3>2, <3>3, <3>4 DEF Service!Wait, asking, waiting
    <3> QED BY <3>2, <3>5 DEF Service!Next
  <2> QED
    BY <1>4, <2>1, <2>2, <2>3, <2>4, <2>5, <2>6, <2>7, <2>8, <2>9
       DEF AppStep, Starting, Acquiring, Stopping
<1>5. ASSUME HeartbeatStep PROVE Done
  BY <1>1, <1>2, <1>5, ThreadUntouched, ThreadPhase, BeatUntouched, BeatPhase DEF HeartbeatStep
<1>6. ASSUME WorkerStep PROVE Done
  <2>1. CASE LoopHead \/ FindNothing
    BY <1>1, <1>2, <2>1, ThreadUntouched, ThreadPhase
  <2>2. CASE LookUp \/ IsRefused("worker")
    BY <1>1, <1>2, <2>2, KeepsRequest, ThreadPhase, RequestPhase DEF Acquiring
  <2>3. CASE Pop
    <3>1. UNCHANGED executed
      BY <2>3 DEF Pop
    <3> QED BY <1>1, <2>3, <3>1, PopHolds, ThreadPhase DEF Service!vars, asking, waiting
  <2>4. CASE Requeue
    <3>1. UNCHANGED executed
      BY <2>4 DEF Requeue
    <3> QED
      BY <1>1, <2>4, <3>1, RequeueStutters, ThreadPhase DEF Service!vars, asking, waiting
  <2>5. CASE Executes("worker")
    <3>1. UNCHANGED Phase /\ Phase # "off"
      BY <1>1, <2>5, RequestPhase, WorkerNeedsClient DEF Acquiring, Executes, At
    <3> QED
      BY <1>1, <2>5, <3>1, WorkerServes DEF Service!Next, Service!ExecuteNext, asking, waiting
  <2>6. ~ Enqueue("worker")
    BY ClientAssumption DEF Enqueue, Thread
  <2> QED BY <1>6, <2>1, <2>2, <2>3, <2>4, <2>5, <2>6 DEF WorkerStep, Acquiring
<1>7. ASSUME NEW r \in Resource, Refill(r) PROVE Done
  BY <1>2, <1>7 DEF Refill, Untouched, Phase, control
<1>8. ASSUME UNCHANGED vars PROVE Done
  <2>1. UNCHANGED frame /\ UNCHANGED <<pending_queue, executed>> /\ UNCHANGED running
    BY <1>8 DEF vars, state, data, control
  <2> QED BY <1>2, <2>1 DEF Untouched, Phase
<1> QED BY <1>3, <1>4, <1>5, <1>6, <1>7, <1>8 DEF Next

(***************************************************************************)
(* Every request is executed exactly once or still waits, in the order the *)
(* requests were queued, and only the end of a Stop discards any.          *)
(***************************************************************************)
THEOREM ServesInOrder ==
  ASSUME OneManager PROVE Spec => ImplementsRequestQueue
<1>1. QInv /\ [Next]_vars => QInv' /\ [Service!Next]_(Service!vars)
  BY InvNext, QInvNext DEF QInv
<1> QED BY <1>1, QInvInit, PTL DEF Spec, ImplementsRequestQueue, Service!Spec

=============================================================================
