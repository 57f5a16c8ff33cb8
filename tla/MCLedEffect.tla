----------------------------- MODULE MCLedEffect -----------------------------
(* Small instances of LedEffect: three substeps instead of fifteen,
   and a substep counter that wraps at 6 instead of 65536. *)
EXTENDS LedEffect
=============================================================================
