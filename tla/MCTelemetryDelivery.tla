------------------------ MODULE MCTelemetryDelivery ------------------------
(* TelemetryDelivery for TLC.  Channels of capacity one make every sender   *)
(* wait; a buffer of two rows and batches of two make evictions and         *)
(* half-sent batches happen.                                                *)
EXTENDS TelemetryDelivery

=============================================================================
