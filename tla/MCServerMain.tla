---------------------------- MODULE MCServerMain ----------------------------
(***************************************************************************)
(* Instance of ServerMain: both signals, up to two calls in flight.        *)
(***************************************************************************)
EXTENDS ServerMain

MCSignal == {"SIGINT", "SIGTERM"}

=============================================================================
