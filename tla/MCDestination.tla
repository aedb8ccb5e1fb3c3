----------------------------- MODULE MCDestination -----------------------------
(* Two receivers of one name, and other programs. *)
EXTENDS Destination, TLC
CONSTANTS r1, r2, prog

MCReceivers == {r1, r2}
MCOne == {r1}
Interchangeable == Permutations({r1, r2})
MCOthers == {prog}
=============================================================================
