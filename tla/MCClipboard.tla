---------------------------- MODULE MCClipboard ----------------------------
(* Instance: two texts, a selection of one file, and one of four: two names *)
(* that coincide, one that is no basename, one that cannot be read.         *)
EXTENDS Clipboard

F(name, data, bytes) == [name |-> name, data |-> data, bytes |-> bytes, readable |-> TRUE]
MCBatch == {<<F("x", "p", 1)>>,
            <<F("x", "q", 1), F("x", "r", 1), F("a/b", "s", 1),
              [F("y", "t", 9) EXCEPT !.readable = FALSE]>>}
MCBytes == 3
=============================================================================
