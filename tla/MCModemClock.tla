---------------------------- MODULE MCModemClock ----------------------------
(* ModemClock over every day the modem can express. *)
EXTENDS ModemClock

AllYears == 2000 .. 2099
=============================================================================
