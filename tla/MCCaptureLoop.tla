--------------------------- MODULE MCCaptureLoop ---------------------------
(***************************************************************************)
(* Constants of the TLC runs of CaptureLoop.                               *)
(***************************************************************************)
EXTENDS CaptureLoop

CONSTANTS small, large

\* The code repeats 2 times, and 5 for a client that may not idle: one more is
\* enough to tell them apart.
MCSettle == [idle \in BOOLEAN |-> IF idle THEN 2 ELSE 3]
============================================================================
