-------------------------------- MODULE MCTui --------------------------------
(* A disk of two directories, one of them hidden, and a file; two letters  *)
(* of one byte, of which one is a space, and one of two; a log of a few    *)
(* lines.  PINs have their ten characters, of which the user types "0" and *)
(* "1": 36 of the 1024 are valid.                                          *)
EXTENDS Tui
MCNodes == 0 .. 3
MCParent == [n \in 1 .. 3 |-> IF n = 3 THEN 1 ELSE 0]
MCWidth == [c \in {1, 2, 3} |-> IF c = 2 THEN 2 ELSE 1]
=============================================================================
