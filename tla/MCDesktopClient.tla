-------------------------- MODULE MCDesktopClient --------------------------
(***************************************************************************)
(* Constants of the TLC runs of DesktopClient.                             *)
(***************************************************************************)
EXTENDS DesktopClient

CONSTANTS small, large
============================================================================
