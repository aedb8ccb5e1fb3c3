--------------------------- MODULE MCFileTransfer ---------------------------
(* FileTransfer on sources of up to three chunks of two bytes and a send   *)
(* buffer of two messages.                                                 *)
EXTENDS FileTransfer, TLC

MCOffsets == 0 .. MaxMessageSize
MCSizes == {NoSize, 0, 3, 4, 5, 6}
MCSourceSizes == {Unstable} \cup 0 .. 7
MCLinkOnly == {{"link"}}
MCFaults == {{}, AllFaults}
MCFewSizes == {NoSize, 5}
MCFewSources == {Unstable, 3, 5, 6}
MCLeftovers == {}
=============================================================================
