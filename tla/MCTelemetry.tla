----------------------------- MODULE MCTelemetry -----------------------------
(* Small instance of Telemetry.                                            *)
EXTENDS Telemetry
=============================================================================
