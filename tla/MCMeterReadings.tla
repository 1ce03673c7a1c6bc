--------------------------- MODULE MCMeterReadings ---------------------------
(* MeterReadings with windows of two readings out of up to three. *)
EXTENDS MeterReadings

=============================================================================
