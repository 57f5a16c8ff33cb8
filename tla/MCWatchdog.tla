----------------------------- MODULE MCWatchdog -----------------------------
(* Small instances of Watchdog: a tick is a second. *)
EXTENDS Watchdog

AllFaults == FaultKinds
=============================================================================
