---------------------------- MODULE MCTelemetry ----------------------------
(* An instance of Telemetry for TLC. *)
EXTENDS Telemetry
=============================================================================
