------------------------- MODULE MCThrottlingSystem -------------------------
(***************************************************************************)
(* A small instance of ThrottlingSystem: one client whose heartbeats come  *)
(* whenever they come, one that is timely, and a resource both want.       *)
(***************************************************************************)
EXTENDS ThrottlingSystem

CONSTANTS late, timely, r1

MCInterests == {{r1}}

\* A limit that is refused, and one that two clients can share.
MCRateLimits == {-2, 2}

=============================================================================
