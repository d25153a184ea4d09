------------------------- MODULE MCNvencCloseOrder -------------------------
(***************************************************************************)
(* Constants of the TLC runs of NvencCloseOrder.                           *)
(***************************************************************************)
EXTENDS NvencCloseOrder

CONSTANTS e1, e2, e3
============================================================================
