--------------------------- MODULE MCEventBuffer ---------------------------
(* EventBuffer for TLC: two payloads, limits of one and two rows, five rows *)
(* ever inserted and two crashes, enough for a table that starts two rows   *)
(* over its limit.                                                          *)
EXTENDS EventBuffer

MCLimits == {1, 2}
MCBatchSizes == {1, 2}

=============================================================================
