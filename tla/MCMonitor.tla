----------------------------- MODULE MCMonitor -----------------------------
(* The root of the monitor's runs; each cfg sets the windows, the outputs  *)
(* and the bounds of its instance.                                         *)
EXTENDS Monitor
=============================================================================
