-------------------------- MODULE MCClientRegistry --------------------------
(***************************************************************************)
(* Small instance of ClientRegistry: two clients, two threads, a timeout   *)
(* of one unit, and time enough for a client to expire, come back and      *)
(* expire again.                                                           *)
(***************************************************************************)
EXTENDS ClientRegistry, TLC

CONSTANTS c1, c2, t1, t2

MCClient  == {c1, c2}
MCThread  == {t1, t2}
MCInstant == 0..3

Symmetry == Permutations(MCClient) \cup Permutations(MCThread)

=============================================================================
