# Throttling service: TLA+ models, checks and proofs

The repository is a distributed rate limiter in C++17. A central gRPC server
holds one rate limit per resource and divides it equally among the clients
interested in the resource. A client library registers with the server, sends
heartbeats that declare the client's interests and bring back its shares, and
enforces each share with a local token bucket.

This directory models the program in TLA+, checks the models with TLC on small
instances, and proves the most important invariants with TLAPS for all values
of the constants. Source paths in this file are relative to `src/src/`.

Contents: 1 inventory, 2 modules, 3 runs and bounds, 4 fairness, 5 proofs,
6 what the checks found, 7 what is left out, 8 plan.

## 1. Inventory of the system

### Token bucket (`token_bucket/`)

* State: `rate_`, `burst_size_`, `tokens_`, `last_refill_time_`, a mutex, and a
  clock (`RealClock`, steady; `FakeClock`, set by tests, may go back).
* Operations: constructor, `TryConsume`, `SetRate`, `SetBurstSize`,
  `GetAvailableTokens`, `GetRate`, `GetBurstSize`. Each holds the mutex for its
  whole body.
* Hard: tokens are computed lazily, only when a method is called, from the time
  since the last refill. Rate and burst changes must settle the time before
  them first. The clock may read earlier than the last refill.
* Correct when: no window of time sees more tokens granted than one burst plus
  what the rates in force earned; who looks at the bucket in between, and how
  often, makes no difference.

### Client registry (`client_registry/`)

* State: `clients_` (client -> last heartbeat and interests), the reverse index
  `resource_to_clients_`, an optional listener, a timeout, a clock, a mutex.
* Operations: `RegisterClient`, `Heartbeat`, `UnregisterClient`, four queries,
  `ExpireStaleClients`, `SetListener`.
* Interaction: calls the listener (the resource manager) under its own mutex.
* Hard: every method expires stale clients in one critical section and does its
  work in another; the index is maintained by differences in two places;
  expiry happens only when somebody calls.
* Correct when: the index is the inverse of the interests and holds no empty
  entry; an acknowledged registration or heartbeat stands for the whole
  timeout; a listener can follow what happens; a query never shows a client
  that was already stale when the query was called.

### Resource manager (`resource_manager/`)

* State: `resource_limits_`, a mutex, a reference to the registry.
* Operations: `SetResourceLimit`, `RemoveResource`, `GetResourceInfo`,
  `GetAllocation`, `GetAllAllocations`, and three listener callbacks that do
  nothing.
* Interaction: `GetAllocation` and `GetResourceInfo` call the registry with the
  manager's mutex held, and the registry calls the manager's callbacks with its
  own mutex held.
* Correct when: the shares handed out for one limit and one set of clients add
  up to the limit; no callback takes the mutex its own thread may hold.

### gRPC server (`server/`)

* State: none of its own. Six handlers, each on a thread of gRPC's pool.
* Hard: a handler is a chain of critical sections of the two components above,
  and other handlers run between any two of them.
* Correct when: a heartbeat is answered for exactly the resources it declared
  unless something else changed the client meanwhile.

### Client library (`client/`)

* State: `resource_interests_` and `token_buckets_` (under `mutex_`),
  `pending_queue_` (under `queue_mutex_`), `running_` (atomic), a heartbeat
  thread and a worker thread.
* Operations: `Start`, `Stop`, `SetResourceInterests`, `Acquire`,
  `GetAllocation`, `SetResourceLimit`, `IsRunning`, `GetPendingCount`; the loops
  `HeartbeatLoop` and `WorkerLoop`; `SendHeartbeat`, `UpdateTokenBuckets`.
* Hard: four kinds of threads; a bucket is looked up under the mutex and used
  after it is released; a request is out of the queue while the worker tries
  it; `Stop` runs against threads that are waiting, calling the server or
  running a callback; heartbeats may fail.
* Correct when: every request is executed exactly once or waits, those that wait
  are executed in the order they were queued, and only `Stop` discards any; `Stop` comes to an end and leaves nothing running; a
  queued request is eventually served if the server gives the client a share.

### Main program (`main.cc`)

* State: `g_shutdown_requested` (atomic), a condition variable and its mutex,
  the server, a shutdown thread.
* Hard: a signal handler notifies the condition variable without the mutex.
* Correct when: a signal leads to `Shutdown` and the process ends.

### The system as a whole

* State: the server's tables, each client's rates, and the calls between them.
* Interaction: a client's application thread (`Start`, `Stop`) and its heartbeat
  thread call the server at the same time, without deadlines or sequence
  numbers; handlers run on any thread of the server, in any order.
* Hard: calls fail before or after they were handled; requests that were given
  up reach the server later; clients die without unregistering; a restarted
  server knows nothing; a client that was expired is told NOT_FOUND.
* Correct when: once things settle, every registered client enforces its fair
  share, and all together no more than the limit; who departed is forgotten; a
  client that keeps its interval is not expired.

### Rest

The RPC contract (`proto/throttling_service.proto`) only declares messages. The
stub classes of the client forward to generated code or are test doubles. Build
files and the unit tests have no behaviour of the program; the tests were read
for what the authors expect.

## 2. Modules

| Module | Models | Uses |
|---|---|---|
| `IdealBucket` | what a token bucket promises: it fills continuously | - |
| `TokenBucket` | `token_bucket.cc`, lazy refill | `IdealBucket` (refined) |
| `RegistryState` | the registry's tables and critical sections | - |
| `ClientRegistry` | the registry under concurrent callers, with a listener | `RegistryState` |
| `ResourceManager` | limits, the manager's mutex, fair shares | `RegistryState` |
| `ThrottlingServer` | the six handlers, each a chain of critical sections | `ResourceManager` |
| `RequestQueue` | what `Acquire` promises: first come, first served | - |
| `ThrottlingClient` | the client's public methods and its two threads | `RequestQueue` (refined) |
| `ServerMain` | arguments, start, signals, shutdown | - |
| `ThrottlingSystem` | the server and several clients over calls that fail, overlap and come late; crashes and restarts | `ResourceManager` |
| `MC...` | the small instance of each for TLC | |
| `TokenBucketProofs` | theorems | `TokenBucket` |
| `RegistryStateProofs` | lemmas about the registry's critical sections | `RegistryState` |
| `ClientRegistryProofs` | theorems | `ClientRegistry`, `RegistryStateProofs` |
| `ResourceManagerProofs` | lemmas about sums and fair shares | `ResourceManager`, `RegistryStateProofs` |
| `ThrottlingServerProofs` | theorems | `ThrottlingServer`, `ResourceManagerProofs` |
| `ThrottlingClientProofs` | theorems, the refinement of `RequestQueue` among them | `ThrottlingClient` |
| `ServerMainProofs` | theorem | `ServerMain` |
| `ThrottlingSystemProofs` | theorems | `ThrottlingSystem`, `ResourceManagerProofs` (an instance) |

How the code maps to the models:

* **An action is a critical section.** A step is what a thread does between two
  points where others can interfere: one mutex scope, one atomic access, one
  call of the server. Code between two such points that touches only locals is
  merged into the step before. `TokenBucket` holds its mutex for the whole of
  each method, so a method is one action. A registry method is two critical
  sections (`ExpireStaleClients`, then its own), so it is two actions, and the
  clock may move between them. The handlers in `ThrottlingServer` and the
  methods in `ThrottlingClient` are longer chains of such steps; a record per
  thread (`frame`) holds the step it is at and the locals it carries over.
* **`RegistryState` is shared.** The registry's critical sections are written
  once as operators over its tables. `ClientRegistry` runs them under any
  callers and observes the listener; `ThrottlingServer` runs them from the
  handlers and inside the manager's mutex.
* **`ThrottlingSystem` is coarser.** A handler is one step on the server's tables
  there, behind the step that expires whoever is stale; what may happen inside
  a handler is the subject of `ThrottlingServer`. A client is its running flag,
  its interests, the rates of its buckets and its calls in flight, one per
  thread that calls (`"app"`, `"heartbeat"`), and one slot (`"lost"`) for a request
  whose caller has given up. Time is relative: the clock stands still and every
  recorded instant moves back by a tick, up to the timeout and one more, beyond
  which instants make no difference.
* **Maps are functions on their keys**, queues are sequences, ids are model
  values. Tokens, rates and time are integers; a clock is a variable that an
  action moves.
* **The listener.** In the program the listener is the resource manager, whose
  callbacks do nothing. `ClientRegistry` instead attaches an observer that
  applies every event it receives (`heard`), because that is what the listener
  interface is for. It takes a client that left out of the resources reported
  with `OnClientLeft` (`Interests`, saved before the client is erased) and forgets
  it when it is in none, so that an event with too few resources is noticed. `ThrottlingServer` has the real, empty callback, made while
  the caller may hold the manager's mutex.
* **Pointers.** In `ThrottlingClient` a frame's `bucket` is the raw pointer that
  `Acquire` and `WorkerLoop` keep after they release `mutex_`. Erasing a bucket
  turns live pointers to it into `"erased"`; `TryConsume` through one is
  undefined, and modelled as returning either result. What else such a call
  might overwrite is not modelled.
* **Buckets in the client** are taken as `IdealBucket` presents them (tokens
  come one at a time while the rate is positive). `TokenBucket` is proved to
  implement that view.
* **`std::thread` objects** are modelled by `joinable`; assigning to one that
  has a thread, or joining one whose thread is already joined, ends the process
  (`terminated`).
* **History variables** are read by properties only: `allowance`
  (`TokenBucket`), `heard` and `acked` (`ClientRegistry`), `undisturbed` and
  `granted` (`ThrottlingServer`), `executed` (`ThrottlingClient`: the requests whose
  callback has been called since they were made), `missed` and `steady`
  (`ThrottlingSystem`: heartbeats that failed in a row, and the ticks since a limit,
  an interest or the set of registered clients last changed, counted as far as
  any client can have waited).
* **Faulty variants.** Operators commented "Faulty variant of ..." are used by
  no action. Each is a plausible bug of the definition it names, put in its
  place to see that the property it is meant for notices it.

## 3. Runs, what they show, and their bounds

| Run | Checks | Shows |
|---|---|---|
| `bucket_any_clock` | `TypeOK`, `WindowBound`, `LevelWithinAllowance` | rate conformance over every window, also when the clock is turned back |
| `bucket_ideal` | `RefinesIdealBucket` | lazy refill cannot be observed if the clock is steady |
| `registry_safety` | `TypeOK`, `ReverseIndexExact`, `ListenerMirrors`, `AckedClientsKept`, `QueryFresh` | the index, the events, the life of an acknowledged heartbeat, and expiry before every read |
| `server_shares` | `TypeOK`, `SharesWithinLimit`, `GrantsAreFair`, `MutexReleased` | what was handed out since the last change are equal shares of the limit in force and add up to it; the manager's mutex is held exactly while in the registry on its behalf, and always released |
| `server_answers` | `HeartbeatAnswered` | an undisturbed heartbeat is answered for what it declared |
| `client_queue` | `TypeOK`, `StoppedIsQuiet`, `NeverTerminates`, `ImplementsRequestQueue`, `StopReturns`, `QueueDrains` | each request executed exactly once or still waiting, first come first served, discarded only by the end of a Stop; Stop ends and leaves nothing; restarts by one thread are safe; a servable queue drains |
| `client_callback` | `CallbackExecutesEventually` | **violated**, section 6 |
| `client_pointer` | `BucketOutlivesUse` | **violated**, section 6 |
| `main_shutdown` | `ExitIsClean`, `RepeatedSignalsEndIt` | nothing outlives `RunServer`; repeated signals end the process |
| `main_signal` | `SignalEndsIt` | **violated**, section 6 |
| `system_convergence` | `TypeOK`, `StalenessBounded`, `RatesInTime`, `TimelyIsKept`, `RatesConverge`, `DepartedIsForgotten` | rates converge to the fair shares whatever order calls are handled and answered in, and those of a timely client are out of date by no more than its failed heartbeats and its wait; who stopped or died is forgotten; the server's knowledge of a timely client is no older than its failed heartbeats and its wait, so that it is expired only when too many failed |
| `system_total` | `TotalWithinLimit` | **violated**, section 6 |

Bounds, and why they are enough to exercise the cases that matter:

* *Token bucket*: rates -1, 0, 1, 3, burst sizes -1, 0, 2, 5, counts -1, 1, 2, 4,
  instants 0..4. Negative inputs are clamped; a refill can be capped or not; a
  rate change can come before, after and in the middle of a refill.
  `MaxAllowance = 20` bounds the history variable: the clock does not move in a
  window that would allow more. Windows can be opened at any state, so a longer
  run shows nothing a fresh window does not.
* *Registry*: two clients, two resources, two threads, timeout 1, instants
  0..3. At instant 1 a client of instant 0 is exactly at its timeout, at 2 it is
  past it; two clients can be stale together; one thread can be between its two
  critical sections while the other does a whole call.
* *Server*: two threads always. `server_shares`: two clients, one resource, limits
  each divisible by two so that shares are exact, timeout 0 and instants 0 and
  1: at 0 a client is exactly at its timeout, at 1 past it. This is enough for a
  limit and a membership to change while a handler is between its two critical
  sections, and for the two mutexes to meet. `server_answers`: one client with
  two resources, so that an answer is put together from several allocations
  and another call of the same client can come between.
* *Client*: one thread that starts and stops the client and makes requests, one
  more that makes requests; three requests (two in `client_callback` and
  `client_pointer` are enough), one for two tokens and the others for one, for
  one resource; allocations 0 and 2. A request may be made again once it is
  over, so runs are not bounded in length.
* *System*: two clients that want one resource, one of them timely (interval 1),
  the other late at will; a limit of 2, which two clients can share, and -2,
  which is refused. `MaxFaults` bounds calls that fail, crashes and restarts
  together: 1 in `system_convergence`, since each property is about what a single
  fault sets off at any moment; 0 in `system_total`, which needs no fault. The
  ages of shares (`steady`) are told apart up to 3, one more than the two ticks that
  a failed heartbeat and a full wait amount to. The timeout in `system_convergence` is 1: the timely client is exactly at its
  timeout before every heartbeat, and one that fails is one too many. It never
  stops or dies (`Lasting`), the other one does both; the theorems of section 5
  are for any such choice. One request per client may be given up and pending at
  a time.
* *Main*: every subset of the four kinds of arguments, both signals, up to two
  calls in flight. The only runs with deadlock checking off, since the process
  ends.

Symmetry (permutations of clients and of threads) is used in `registry_safety`
only, which checks invariants.

## 4. Fairness

Safety runs assume none. The others assume what the program's scheduling gives:

* `ThrottlingServer`: weak fairness of each thread's handler steps. A handler
  that can continue does. No fairness of lock acquisition is assumed (C++
  mutexes promise none), nor that requests arrive or time passes.
* `ThrottlingClient`: weak fairness of each application thread once it is inside
  a method, of the heartbeat thread, of the worker, and of each bucket's refill
  (time passes). Both condition variables are waited for with a time-out, so a
  lost notification only costs that time-out. Calls of the server are assumed
  to end, with a result or an error; the code sets no deadline on them, so this
  rests on the transport. No application thread has to call anything.
* `ThrottlingSystem`: weak fairness of the handling of each request in flight, of
  each client's threads (a running client goes on sending heartbeats and takes
  the answers it gets), and of time. Nothing is assumed of faults, of the calls
  the application makes, or of the clients marked timely: that they are never in
  a call, nor past their interval, when time passes is a guard of `Tick`.
  `RatesConverge` and `TotalWithinLimit` speak of executions that settle: limits, interests, running clients, registered clients and faults no
  longer change.
* `ServerMain`: weak fairness of the threads' steps, of a handler that has begun
  and of the end of calls in flight. None of spurious wake-ups or of signals.

`QueueDrains` is conditional: it speaks of executions in which from some time on
the client runs, no application thread calls `Acquire`, and every request's
bucket exists with a positive rate and a burst that covers it. Without the last
condition the queue stays blocked (section 6); without the second, requests
that succeed at once may overtake a queued one for ever, because `Acquire` tries
the bucket before it looks at the queue.

## 5. Proofs

All theorems are for every value of the constants that satisfies the named
assumptions, which TLC evaluates in the runs: inputs are integers and instants
natural numbers (`InputsAssumption`, `InstantAssumption`, `TimeAssumption`), the
clients are finitely many and limits divisible among them (`LimitsAssumption`,
`SystemAssumption`), application threads are none of the library's own (`ClientAssumption`), and the
bound on calls is a number (`CallsAssumption`).

`TokenBucketProofs`

* `TypeCorrect`: `Spec => []TypeOK`. Inductive as it stands.
* `LevelCovered`, `RateConformance`: `WindowBound` alone (`allowance >= 0`) is not
  inductive, because a bucket could hold more than the window still allows. The
  strengthening is `LevelWithinAllowance`: the level *after a refill now* is at
  most the allowance. The clock moves both sides by the same amount before
  capping; a rate or burst change settles the past first, so it keeps the
  level; consumption lowers both equally. Since the level is never negative,
  `WindowBound` follows.
* `LazyRefillIsInvisible`: `SteadySpec => RefinesIdealBucket`. Each operation maps
  to an ideal one or to a stutter (a refill does not change the level), and the
  key lemma is that refilling in two steps caps to the same as refilling in one.

`RegistryStateProofs` proves what each critical section does to the tables:
registration, heartbeat and removal preserve `RegistryTypeOK` and
`ReverseIndexExact`. It knows nothing of threads, and serves both
the registry's and the server's proofs.

`ResourceManagerProofs` proves what fair shares add up to (`FairSharesAddUp`, for
`SharesAddUp` below): whoever is given them, they are within the limit, and all of it once every
client counted is among those. `SumFunction` is a fold, that is, the value of a
recursive function at the whole set. The library's induction theorems cannot be
used, since they take an operator as a parameter; the proof instead takes the
set of those subsets that have what is to be shown, and if it is not all of
them a smallest one missing (`SubsetInduction`, from the well-foundedness of the
subsets of a finite set). With it the recursive function exists and is unique,
so a sum unfolds one element at a time (`SumUnfolds`), and equal shares add up to
their number times their size (`SumOfEqualShares`).

`ClientRegistryProofs`

* `TypeCorrect`, `IndexIsExact`: from those lemmas, one step per action. Exactness
  needs the type invariant with it (an index entry is never empty), since
  removal looks only at the departing client's own interests.
* `ListenerFollows`, `AcknowledgedIsKept`, `QueriesAreFresh`: the inductive
  invariant `Inv` is the conjunction of all five properties and of the range of
  the `acked` history. They lean on each other: an expiry takes only clients
  stale by now, so an acknowledged entry within its timeout survives it, which
  needs heartbeats not to lie in the future; a client added between a query's
  two critical sections has a heartbeat no older than the query's start, which
  needs `since <= now`.

`ThrottlingServerProofs`

* `TypeCorrect`, `IndexIsExact`: `TypeOK` is not inductive without knowing what each
  handler carries at each of its steps (`FramesOK`), and that a handler in the
  registry on the manager's behalf is the one that holds the mutex (`MutexOK`).
* `UndisturbedIsAnswered`: the loop of `GetAllAllocations` is the point. While the
  handler is undisturbed, the resources answered so far and those still to do
  make up what was declared (`Answering`), and the tables still say so.
* `SharesAreFair`: a share is computed from a limit read one critical section
  earlier. `LimitsHeld` says that it is still the limit in force, because only a
  free mutex lets a limit change, and closes the induction.
* `SharesAddUp`: `SharesWithinLimit`, that all shares handed out for a resource since
  its last change are within its limit together. Each is the fair share
  (`SharesAreFair`) of a limit that may be set (`LimitsGiven`), and fair shares add up.

`ThrottlingClientProofs`

* `TypeCorrect`: for any use of the library. A live pointer always has its bucket
  because erasing a bucket turns every live pointer to it into an erased one.
* `StopIsFinal`, `NoTermination`: assume `OneManager`, that at most one application
  thread calls `Start` and `Stop` (with two, TLC finds both properties violated).
  Neither property is inductive: they follow from where the manager is.
  `ControlInv` says, for each step of `Start` and `Stop`, whether the client runs,
  which `std::thread` objects have a thread and, when both are joined and the
  buckets cleared, that there are none; and that a thread without an object has
  ended.
* `ServesInOrder`: `Spec => ImplementsRequestQueue`, again for one manager. The
  abstract queue is the request in the worker's hands followed by
  `pending_queue`; its `asking` are the requests of Acquires that have not decided,
  its `phase` says whether `running_` is set or `Stop` is between clearing it and
  the end. `RequestQueue` lets a request leave `asking` or the queue only by being
  executed, or when a Stop ends, and a request is executed there only as it
  leaves: a worker that loses a request, executes one and puts it back, or
  executes after the Stop does not implement it. The invariant (`RequestsOK`) is
  that an actor holds a request exactly at the steps that work on one, and no two
  application threads the same one; with `ControlInv` it gives that `Stop` clears the queue only when the
  worker has ended with empty hands. Most steps are stutters (`Untouched`).

`ServerMainProofs`

* `CleanExit`: `ExitIsClean` speaks of the last state only; the invariant says how
  the server and the shutdown thread follow the main thread before it.

`ThrottlingSystemProofs`, for any clients, timeout, interval and number of faults

* `TypeCorrect`: the registry's tables are those of `RegistryState` with the clock
  set to `Horizon`, so the lemmas about its critical sections are taken from an
  instance of the proof modules; `RegistryInv` (types and exact index together) is
  what they preserve. The rest of `TypeOK` goes in parts: limits, the library,
  the counts, the calls. That a rate is a share of some limit that may be set
  needs the tables' type (who is counted are clients, at least one).
* `StalenessIsBounded`: the bound is not inductive. A heartbeat's return resets
  `waited` and `missed`, and `Start`'s end makes a client run: both claim that the
  server has heard of it *now*. `HeardOK` adds just that: from the handling of a
  timely client's call to the call's return, what the server heard is new,
  because no time passes meanwhile, and because whatever else touches the
  client's entry (a request given up long ago, handled late) makes it newer or
  removes it. A failed heartbeat trades a wait of at most one interval for one
  more heartbeat missed.
* `TimelyClientsAreKept`: who is expired is past the timeout, hence by that bound
  has missed enough heartbeats. An `UnregisterClient` that drops a running client
  must be one that was given up: `CallsInOrder` says that the threads of a running
  client are in no calls but heartbeats, and needs to know that a stopped client
  starts again only after its heartbeat thread has ended.

* `RatesArriveInTime`: `Spec => []RatesInTime`, the safety core of `RatesConverge`. A
  rate is as old as the answer it came with, so the invariant (`RatesFresh`)
  follows the answers. `AnswersInForce`: an answer in a timely client's hands still
  is its fair share unless `steady` is 0, because no time passes meanwhile and
  every step that changes a share resets `steady`; a NOT_FOUND likewise means
  that it is not registered. `RatesInForce` is the property without the condition
  that the client runs. `Cleared`: a client that has stopped has no rates left, so
  that `Start`, which resets `waited` and `missed`, claims nothing of old ones; it
  rests on `CallsInOrder`, by which no heartbeat is left when `Stop` clears. A tick
  ages the shares and the wait of a running client alike; a failed heartbeat
  trades a wait of at most one interval for one more heartbeat missed.

Only model-checked, being liveness under fairness, which is beyond the prover:
`MutexReleased`, `StopReturns`, `QueueDrains`, `RepeatedSignalsEndIt`,
`RatesConverge` and `DepartedIsForgotten`. Every safety property of a passing run
is a theorem.

## 6. What the checks found

1. **A bucket created for an allocation of 0 never serves**
   (`client_callback`). `UpdateTokenBuckets` creates `TokenBucket(rate)`, whose
   burst size is the rate at that moment, and later calls only `SetRate`
   (`client/throttling_client.cc:385`). The server answers 0 while a resource has
   no limit. When a limit is set later, the bucket has a rate and a burst of 0:
   its requests wait for ever, and block the queue. `throttling_client.h:152`:
   "callback always executes eventually".
2. **A bucket is used after it was erased** (`client_pointer`). `Acquire` and
   `WorkerLoop` release `mutex_` between the lookup and `TryConsume`; an answered
   heartbeat or `Stop` may destroy the bucket in between.
   `throttling_client.h:16`: "All public methods are thread-safe."
3. **A signal may be lost** (`main_signal`). The handler notifies without the
   mutex; if the shutdown thread has evaluated its predicate and is not asleep
   yet, nobody is woken. `RepeatedSignalsEndIt` shows that a second signal helps.
   `main.cc:5`: "handles graceful shutdown on SIGINT/SIGTERM".

4. **An expired client keeps its rate for ever** (`system_total`).
   `SendHeartbeat` treats NOT_FOUND like any other error
   (`client/throttling_client.cc:363`): it neither registers again nor drops the
   buckets. The server divides the limit among the others, and the rates
   enforced for a resource exceed its limit for good. No fault is needed, only
   heartbeats later than the timeout; after a restart of the server every
   client is in that state. `resource_manager.h:64`: "Total requests per second";
   `throttling_client.h:230`: "Total requests per second for this resource."

Not a run of its own: with `Manager = {a1, a2}` TLC finds `NeverTerminates`
violated within ten steps (two `Start`s pass the test of `running_`, the second
assigns to a `std::thread` that has its thread). `client_queue` therefore lets
one thread start and stop the client.

## 7. What is left out

* Doubles: rounding, infinities and NaN. A rate of infinity passes the check in
  `SetResourceLimit` and can make a bucket's tokens NaN; this needs a value
  domain of its own and is listed as a hazard.
* Requests with an empty client id, a negative limit or malformed data, which
  are refused before anything is changed; queries of the client that change
  nothing (`GetAllocation`, `IsRunning`, `GetPendingCount`). The client's
  destructor is a `Stop`; that nothing else is called by then is the caller's
  duty.
* Callbacks that call the client again, or throw. In particular `Stop` from a
  callback would make the worker join itself.
* `RemoveResource` is modelled, though nothing in the program calls it.
* The transport: gRPC's own threads and failures appear as answers that come
  late or as errors. Generated code, the stub test double and printing.
  Arguments are taken by kind, not character by character.
* In `ThrottlingSystem`: tokens (its subject is rates), re-registration under the
  same id by two processes at once, and more than one request per client given
  up and still on its way.
* Lock-order deadlocks across threads: the registry's mutex is no variable, since a
  critical section of it is one step, so `MutexReleased` shows that no callback
  waits for a mutex its own thread holds, and that the manager's mutex is given
  back, not that two threads never take the two mutexes in opposite orders.
* Needless refusals of a bucket: `RefinesIdealBucket` takes a refusal for a stutter.
  And `allowance` counts an interval that a turned-back clock runs through again a
  second time, so `WindowBound` does not notice its being paid twice.
* Two threads that call `Start` and `Stop` at once: see the end of section 6.
* `TimelyIsKept` makes exceptions for a restart of the server and for an
  `UnregisterClient` that was given up and arrives late, and `RatesConverge` and
  `RatesInTime` speak of registered clients only: what becomes of a running client the
  server has dropped is the subject of `TotalWithinLimit`. That the others' shares
  grow when a departed client is forgotten is what `RatesConverge` says, not
  `DepartedIsForgotten`.
* `ThrottlingServer` and `ThrottlingSystem` expire all clients at one reading of the
  clock; the code, and `ClientRegistry`, read it once for each client.
* Head-of-line blocking in the client's queue and `Acquire` overtaking it are
  what the code means to do; `QueueDrains` states the conditions under which
  they do no harm.

## 8. Plan

Done: all components of the program and their composition, and theorems for
every safety property of a passing run. What would be next:

1. `RatesInTime` for clients with a bound on how long a call lasts, where `Timely`
   has every call end within a tick.
2. A value domain with infinity and NaN for `TokenBucket`.
3. A budget over the lives of several buckets of one resource, if the program
   comes to promise one.
4. The registry's mutex as a variable of `ThrottlingServer`, if a callback that
   takes a lock is ever added.
