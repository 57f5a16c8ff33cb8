--------------------------- MODULE MCPayloadCodec ---------------------------
(* An instance of PayloadCodec. *)
EXTENDS PayloadCodec

\* Every channel, the unpaired ones included.
AllChannels == SUBSET Bits

\* One that is a byte boundary, so that the cut changes both bytes, and one that
\* is not.
SomeVoltages == {3584, 3700}

\* The build reads the low byte of the battery voltage first.
LowFirst == {"low first"}

AllFaults == {"env", "action"}
=============================================================================
