----------------------------- MODULE ServerMain -----------------------------
(***************************************************************************)
(* The server's main program, src/main.cc: the main thread, the thread     *)
(* that waits for a shutdown request, and the signal handler, which runs   *)
(* on some thread in the middle of whatever it does and takes no lock.     *)
(* The gRPC server is taken as it documents itself: Shutdown waits for the *)
(* calls in flight, and Wait for the end of Shutdown.                      *)
(***************************************************************************)
EXTENDS Integers

CONSTANTS
  Signal,   \* SIGINT and SIGTERM
  MaxCalls  \* bound on the calls in flight at once

ASSUME CallsAssumption == MaxCalls \in Nat

VARIABLES
  arguments, \* the kinds of arguments on the command line
  main,      \* the main thread
  waiter,    \* shutdown_thread
  requested, \* g_shutdown_requested
  handler,   \* which signals' handlers are running
  server,    \* the gRPC server
  calls      \* how many of its calls are in flight

vars == <<arguments, main, waiter, requested, handler, server, calls>>

\* --port and --heartbeat-timeout with a number in range, --help, anything else.
ArgumentKind == {"port", "heartbeat-timeout", "help", "invalid"}

Init ==
  /\ arguments \in SUBSET ArgumentKind
  /\ main = "parsing"
  /\ waiter = "none"
  /\ requested = FALSE
  /\ handler = {}
  /\ server = "none"
  /\ calls = 0

-----------------------------------------------------------------------------
\* ParseArgs finds a configuration: it gives up at the first other argument.
ParseArgs == arguments \subseteq {"port", "heartbeat-timeout"}

\* main: arguments are refused, or the handlers installed.
RefuseArguments ==
  /\ main = "parsing"
  /\ ~ ParseArgs
  /\ main' = "exited"
  /\ UNCHANGED <<arguments, waiter, requested, handler, server, calls>>

InstallHandlers ==
  /\ main = "parsing"
  /\ ParseArgs
  /\ main' = "building"
  /\ UNCHANGED <<arguments, waiter, requested, handler, server, calls>>

\* RunServer.
StartFails ==
  /\ main = "building"
  /\ main' = "exited"
  /\ UNCHANGED <<arguments, waiter, requested, handler, server, calls>>

StartServer ==
  /\ main = "building"
  /\ main' = "spawning"
  /\ server' = "up"
  /\ UNCHANGED <<arguments, waiter, requested, handler, calls>>

SpawnWaiter ==
  /\ main = "spawning"
  /\ main' = "serving"
  /\ waiter' = "check"
  /\ UNCHANGED <<arguments, requested, handler, server, calls>>

\* Faulty variant of WaitReturns: the shutdown thread is not joined.
WaitReturnsUnjoined ==
  /\ main = "serving" /\ server = "down"
  /\ main' = "exited"
  /\ UNCHANGED <<arguments, waiter, requested, handler, server, calls>>

WaitReturns ==
  /\ main = "serving" /\ server = "down"
  /\ main' = "joining"
  /\ UNCHANGED <<arguments, waiter, requested, handler, server, calls>>

JoinWaiter ==
  /\ main = "joining" /\ waiter = "ended"
  /\ main' = "exited"
  /\ UNCHANGED <<arguments, waiter, requested, handler, server, calls>>

-----------------------------------------------------------------------------
(***************************************************************************)
(* shutdown_thread: it evaluates the predicate of its wait, goes to sleep  *)
(* on the condition variable if it is false, and evaluates it again when   *)
(* it is woken.                                                            *)
(***************************************************************************)
CheckRequested ==
  /\ waiter = "check"
  /\ waiter' = IF requested THEN "shutdown" ELSE "block"
  /\ UNCHANGED <<arguments, main, requested, handler, server, calls>>

Block ==
  /\ waiter = "block"
  /\ waiter' = "asleep"
  /\ UNCHANGED <<arguments, main, requested, handler, server, calls>>

WakeUpSpuriously ==
  /\ waiter = "asleep"
  /\ waiter' = "check"
  /\ UNCHANGED <<arguments, main, requested, handler, server, calls>>

Shutdown ==
  /\ waiter = "shutdown" /\ server = "up"
  /\ server' = "stopping"
  /\ UNCHANGED <<arguments, main, waiter, requested, handler, calls>>

ShutdownReturns ==
  /\ waiter = "shutdown" /\ server = "down"
  /\ waiter' = "ended"
  /\ UNCHANGED <<arguments, main, requested, handler, server, calls>>

-----------------------------------------------------------------------------
\* The server's side of Shutdown, and its calls.
BecomeDown ==
  /\ server = "stopping" /\ calls = 0
  /\ server' = "down"
  /\ UNCHANGED <<arguments, main, waiter, requested, handler, calls>>

CallBegins ==
  /\ server = "up" /\ calls < MaxCalls
  /\ calls' = calls + 1
  /\ UNCHANGED <<arguments, main, waiter, requested, handler, server>>

CallEnds ==
  /\ calls > 0
  /\ calls' = calls - 1
  /\ UNCHANGED <<arguments, main, waiter, requested, handler, server>>

-----------------------------------------------------------------------------
\* SignalHandler: the flag is set ...
SetRequested(s) ==
  /\ main \notin {"parsing", "exited"}
  /\ s \notin handler
  /\ requested' = TRUE
  /\ handler' = handler \cup {s}
  /\ UNCHANGED <<arguments, main, waiter, server, calls>>

\* Faulty variant of NotifyAll: nobody is woken.
NotifyNobody(s) ==
  /\ s \in handler
  /\ handler' = handler \ {s}
  /\ UNCHANGED <<arguments, main, waiter, requested, server, calls>>

\* ... and whoever is asleep is woken.
NotifyAll(s) ==
  /\ s \in handler
  /\ handler' = handler \ {s}
  /\ waiter' = IF waiter = "asleep" THEN "check" ELSE waiter
  /\ UNCHANGED <<arguments, main, requested, server, calls>>

\* Before the handlers are installed a signal ends the process.
Killed ==
  /\ main = "parsing"
  /\ main' = "exited"
  /\ UNCHANGED <<arguments, waiter, requested, handler, server, calls>>

MainStep ==
  \/ RefuseArguments \/ InstallHandlers
  \/ StartFails \/ StartServer \/ SpawnWaiter
  \/ WaitReturns \/ JoinWaiter

WaiterStep == CheckRequested \/ Block \/ Shutdown \/ ShutdownReturns

Next ==
  \/ MainStep \/ WaiterStep \/ WakeUpSpuriously
  \/ BecomeDown \/ CallBegins \/ CallEnds
  \/ \E s \in Signal : SetRequested(s) \/ NotifyAll(s)
  \/ Killed

Spec == Init /\ [][Next]_vars

(***************************************************************************)
(* Threads that can go on go on, a handler that began ends, and the calls  *)
(* in flight end.  Nothing is assumed of spurious wake-ups, nor that a     *)
(* signal comes.                                                           *)
(***************************************************************************)
Fairness ==
  /\ WF_vars(MainStep)
  /\ WF_vars(WaiterStep)
  /\ WF_vars(BecomeDown)
  /\ WF_vars(CallEnds)
  /\ \A s \in Signal : WF_vars(NotifyAll(s))

FairSpec == Spec /\ Fairness

-----------------------------------------------------------------------------
(***************************************************************************)
(* The process leaves RunServer with no call of the server in flight and   *)
(* the shutdown thread gone: both use what main destroys on its way out.   *)
(***************************************************************************)
ExitIsClean ==
  main = "exited" => calls = 0 /\ waiter \in {"none", "ended"}

(***************************************************************************)
(* Who keeps sending signals ends the process: whatever the first one came *)
(* in the middle of, one of them finds the shutdown thread asleep or about *)
(* to evaluate its predicate.                                              *)
(***************************************************************************)
RepeatedSignalsEndIt ==
  []<><<\E s \in Signal : NotifyAll(s)>>_vars => <>(main = "exited")

(***************************************************************************)
(* The header of main.cc: a single SIGINT or SIGTERM leads to a shutdown.  *)
(***************************************************************************)
SignalEndsIt == requested ~> main = "exited"

=============================================================================
