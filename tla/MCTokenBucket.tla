--------------------------- MODULE MCTokenBucket ---------------------------
(***************************************************************************)
(* Small instance of TokenBucket: negative inputs (which the code clamps), *)
(* rates below and above the burst sizes, and enough instants for a refill *)
(* to be capped, split over several calls, and undone by the clock.        *)
(***************************************************************************)
EXTENDS TokenBucket

MCRates      == {-1, 0, 1, 3}
MCBurstSizes == {-1, 0, 2, 5}
MCCounts     == {-1, 1, 2, 4}
MCInstant    == 0..4
MCAllowance  == 20

=============================================================================
