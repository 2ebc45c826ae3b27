--------------------------- MODULE MCConfigSession ---------------------------
(* Two names of requests: one that is pending, and one that replaces it or   *)
(* is being answered.                                                        *)
EXTENDS ConfigSession

CONSTANTS r1, r2

TwoReqs == {r1, r2}
=============================================================================
