------------------------- MODULE MCThrottlingClient -------------------------
(***************************************************************************)
(* Small instances of ThrottlingClient: allocations of nothing and of two  *)
(* tokens per unit of time, requests for one and for two tokens.           *)
(***************************************************************************)
EXTENDS ThrottlingClient

CONSTANTS a1, a2, q1, q2, q3, r1

MCRates      == {0, 2}
MCCount      == [q \in Request |-> IF q = q1 THEN 2 ELSE 1]
MCResourceId == [q \in Request |-> r1]

=============================================================================
