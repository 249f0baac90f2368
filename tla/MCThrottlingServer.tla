------------------------- MODULE MCThrottlingServer -------------------------
(***************************************************************************)
(* Small instances of ThrottlingServer: up to two clients, and limits of   *)
(* both signs, each divisible by two.                                      *)
(***************************************************************************)
EXTENDS ThrottlingServer

CONSTANTS c1, c2, t1, t2

MCClient     == {c1, c2}
MCThread     == {t1, t2}
MCRateLimits == {-2, 2, 4}
MCInstant    == 0..2

=============================================================================
