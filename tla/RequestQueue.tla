---------------------------- MODULE RequestQueue ----------------------------
(***************************************************************************)
(* What Acquire promises: a request is executed at once or waits, those    *)
(* that wait are executed one by one in the order they began to, each once *)
(* and only while the client runs or is being stopped, and nothing but the *)
(* end of a Stop discards any.  ThrottlingClient, whose worker takes       *)
(* requests out of the queue to try them and puts them back, implements    *)
(* it.                                                                     *)
(***************************************************************************)
EXTENDS Sequences

CONSTANT Request

VARIABLES
  phase,    \* whether the client is "off", "on" or "stopping"
  asking,   \* requests whose Acquire has not decided yet
  waiting,  \* requests that wait, in the order of service
  executed  \* requests whose callback has been called since they were made

vars == <<phase, asking, waiting, executed>>

Init ==
  /\ phase = "off"
  /\ asking = {}
  /\ waiting = <<>>
  /\ executed = {}

Waits(q) == \E i \in DOMAIN waiting : waiting[i] = q

Start == phase = "off" /\ phase' = "on" /\ UNCHANGED <<asking, waiting, executed>>

Stop == phase = "on" /\ phase' = "stopping" /\ UNCHANGED <<asking, waiting, executed>>

\* The end of a Stop: what waits then is never executed.
Discard ==
  /\ phase = "stopping"
  /\ phase' = "off"
  /\ waiting' = <<>>
  /\ UNCHANGED <<asking, executed>>

\* A request may be made again once it is over, and has not been executed then.
Ask(q) ==
  /\ q \notin asking /\ ~ Waits(q)
  /\ asking' = asking \cup {q}
  /\ executed' = executed \ {q}
  /\ UNCHANGED <<phase, waiting>>

ExecuteAtOnce(q) ==
  /\ q \in asking
  /\ asking' = asking \ {q}
  /\ executed' = executed \cup {q}
  /\ UNCHANGED <<phase, waiting>>

Wait(q) ==
  /\ q \in asking
  /\ asking' = asking \ {q}
  /\ waiting' = Append(waiting, q)
  /\ UNCHANGED <<phase, executed>>

ExecuteNext ==
  /\ phase # "off"
  /\ waiting # <<>>
  /\ waiting' = Tail(waiting)
  /\ executed' = executed \cup {Head(waiting)}
  /\ UNCHANGED <<phase, asking>>

Next ==
  \/ Start \/ Stop \/ Discard
  \/ \E q \in Request : Ask(q) \/ ExecuteAtOnce(q) \/ Wait(q)
  \/ ExecuteNext

Spec == Init /\ [][Next]_vars

=============================================================================
