------------------------- MODULE MCTelemetryIngest -------------------------
(* The instance of TelemetryIngest that TLC checks. *)
EXTENDS TelemetryIngest

\* Every way the delivery may be configured.
MCModes == {"disabled", "stub", "remote"}
=============================================================================
