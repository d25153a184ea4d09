-------------------------- MODULE MCSessionStream --------------------------
(***************************************************************************)
(* Instances of SessionStream for TLC.  The channels of the code hold 2    *)
(* (frames), 8, 4 and 4 messages; a full channel is what matters, and one  *)
(* place is enough to have it.                                             *)
(***************************************************************************)
EXTENDS SessionStream

CONSTANTS audio, clip

MCCap == [p \in Producer |-> 1]

\* Room for the two messages of one round.
MCRoundCap == [p \in Producer |-> 2]
============================================================================
