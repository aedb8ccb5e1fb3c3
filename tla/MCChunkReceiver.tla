--------------------------- MODULE MCChunkReceiver ---------------------------
(* ChunkReceiver on files of up to three chunks of two bytes. *)
EXTENDS ChunkReceiver, TLC
CONSTANTS p1, p2

MCPayload == {p1, p2}
MCSizes == {NoSize} \cup 0 .. 7
MCLeftovers == {{[at |-> 2, len |-> 1, body |-> p2]}}
MCNoLeftovers == {}
=============================================================================
