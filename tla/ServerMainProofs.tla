-------------------------- MODULE ServerMainProofs --------------------------
(***************************************************************************)
(* The server's main program never leaves a call or the shutdown thread    *)
(* behind, for any signals and any number of calls in flight.              *)
(***************************************************************************)
EXTENDS ServerMain, TLAPS

(***************************************************************************)
(* ExitIsClean speaks of the last state only.  What leads up to it: a      *)
(* server that is not up and not stopping has no calls, the main thread    *)
(* joins the shutdown thread after the server is down, and before it is    *)
(* serving there is no shutdown thread.                                    *)
(***************************************************************************)
NoCallsUnlessUp == server \in {"none", "down"} => calls = 0

ServerFollowsMain ==
  /\ main \in {"parsing", "building"} => server = "none"
  /\ main = "joining" => server = "down"
  /\ main = "exited" => server \in {"none", "down"}

WaiterFollowsMain ==
  /\ main \in {"parsing", "building", "spawning"} => waiter = "none"
  /\ main = "exited" => waiter \in {"none", "ended"}

Inv == NoCallsUnlessUp /\ ServerFollowsMain /\ WaiterFollowsMain

LEMMA InvInit == Init => Inv
BY DEF Init, Inv, NoCallsUnlessUp, ServerFollowsMain, WaiterFollowsMain

LEMMA MainStepInv == ASSUME Inv, MainStep PROVE Inv'
<1> USE DEF Inv, NoCallsUnlessUp, ServerFollowsMain, WaiterFollowsMain
<1>1. CASE RefuseArguments \/ InstallHandlers
  BY <1>1 DEF RefuseArguments, InstallHandlers
<1>2. CASE StartFails \/ StartServer \/ SpawnWaiter
  BY <1>2 DEF StartFails, StartServer, SpawnWaiter
<1>3. CASE WaitReturns \/ JoinWaiter
  BY <1>3 DEF WaitReturns, JoinWaiter
<1> QED BY <1>1, <1>2, <1>3 DEF MainStep

\* The shutdown thread's steps need it to be neither absent nor at its end.
LEMMA WaiterStepInv == ASSUME Inv, WaiterStep \/ WakeUpSpuriously PROVE Inv'
<1> USE DEF Inv, NoCallsUnlessUp, ServerFollowsMain, WaiterFollowsMain
<1>1. CASE CheckRequested \/ Block \/ WakeUpSpuriously
  BY <1>1 DEF CheckRequested, Block, WakeUpSpuriously
<1>2. CASE Shutdown
  BY <1>2 DEF Shutdown
<1>3. CASE ShutdownReturns
  BY <1>3 DEF ShutdownReturns
<1> QED BY <1>1, <1>2, <1>3 DEF WaiterStep

LEMMA ServerStepInv ==
  ASSUME Inv, BecomeDown \/ CallBegins \/ CallEnds PROVE Inv'
<1> USE DEF Inv, NoCallsUnlessUp, ServerFollowsMain, WaiterFollowsMain
<1>1. CASE BecomeDown
  BY <1>1 DEF BecomeDown
<1>2. CASE CallBegins
  BY <1>2 DEF CallBegins
<1>3. CASE CallEnds
  BY <1>3 DEF CallEnds
<1> QED BY <1>1, <1>2, <1>3

LEMMA SignalInv ==
  ASSUME Inv, NEW s \in Signal, SetRequested(s) \/ NotifyAll(s) PROVE Inv'
BY DEF SetRequested, NotifyAll, Inv, NoCallsUnlessUp, ServerFollowsMain,
       WaiterFollowsMain

LEMMA NextInv == ASSUME Inv, [Next]_vars PROVE Inv'
<1>1. CASE Killed
  BY <1>1 DEF Killed, Inv, NoCallsUnlessUp, ServerFollowsMain, WaiterFollowsMain
<1>2. CASE UNCHANGED vars
  BY <1>2 DEF vars, Inv, NoCallsUnlessUp, ServerFollowsMain, WaiterFollowsMain
<1> QED
  BY <1>1, <1>2, MainStepInv, WaiterStepInv, ServerStepInv, SignalInv DEF Next

(***************************************************************************)
(* RunServer returns with no call in flight and the shutdown thread gone:  *)
(* nobody uses the server, the service or the registry after main has      *)
(* destroyed them.                                                         *)
(***************************************************************************)
THEOREM CleanExit == Spec => []ExitIsClean
<1>1. Inv => ExitIsClean
  BY DEF Inv, NoCallsUnlessUp, ServerFollowsMain, WaiterFollowsMain, ExitIsClean
<1> QED BY <1>1, InvInit, NextInv, PTL DEF Spec

=============================================================================
