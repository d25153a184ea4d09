---------------------------- MODULE MCSessionInput ----------------------------
(***************************************************************************)
(* Constants of the TLC run of SessionInput, and of DesktopSession in it.  *)
(***************************************************************************)
EXTENDS SessionInput

\* A server with everything and isolation, and one without a GPU.  The logout service, which
\* only ends what EndSession ends, runs in the smaller of the two.
MCHosts == {
    [plasma |-> TRUE, kwin |-> TRUE, gpu |-> TRUE, isolated |-> TRUE, logout |-> FALSE],
    [plasma |-> TRUE, kwin |-> TRUE, gpu |-> FALSE, isolated |-> FALSE, logout |-> TRUE]}

\* Two keymaps' worth of characters, one of them twice, and one that cannot be typed.
MCTexts == {<<"x", "x", Control, "y">>}
===============================================================================
