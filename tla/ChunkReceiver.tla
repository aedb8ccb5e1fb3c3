---------------------------- MODULE ChunkReceiver ----------------------------
(***************************************************************************)
(* run_receiver of transfer.rs against an arbitrary peer: the control of   *)
(* the receive loop, the partial file, and what the file system can do to  *)
(* it (a failed write or sync, the task aborted, the power lost).          *)
(*                                                                         *)
(* Abstractions.  A file is the set of extents written to it: where the    *)
(* extent was written, its length and whose plaintext it is.  Decryption   *)
(* is the question whether the message was sealed under the session key    *)
(* for the index it carries (`sealed`).  Lengths are plaintext lengths:    *)
(* nonce and tag are a constant overhead.  Progress display is left out.   *)
(***************************************************************************)
EXTENDS Integers, FiniteSets

CONSTANTS
    ChunkSize,       \* ENCRYPTION_CHUNK_SIZE
    MaxChunks,       \* MAX_CHUNKS, also the number of two-byte chunk indices
    MaxMessageSize,  \* MAX_MESSAGE_SIZE
    Payload,         \* identities of plaintexts
    Sizes,           \* the sizes the peer may have announced
    Leftovers,       \* what an earlier attempt may have left in the part file
    NoSize,          \* total_bytes is None: a ZIP generated during transfer
    NoFile,          \* there is no such file
    OldFile          \* a file that was there before this transfer

Index == 0 .. MaxChunks - 1
Extent == [at : Nat, len : 1 .. ChunkSize, body : Payload]

ASSUME LimitsAssumption ==
    /\ ChunkSize \in Nat \ {0}
    /\ MaxChunks \in Nat \ {0}
    /\ MaxMessageSize \in Nat
ASSUME SizesAssumption ==
    /\ NoSize \notin Nat
    /\ Sizes \subseteq Nat \cup {NoSize}
    /\ Leftovers \subseteq SUBSET Extent

VARIABLES
    rpc,             \* where run_receiver is
    total_bytes,
    received,        \* the indices marked in the exact-size index set
    received_count,
    received_bytes,
    previous_len,    \* previous_streamed_chunk_len, 0 for None
    part,            \* content of <dest>.part
    dest,            \* content of <dest>
    previous,        \* what <dest> held when the transfer began
    synced           \* sync_all has returned for the part file

rvars == <<rpc, total_bytes, received, received_count, received_bytes,
           previous_len, part, dest, previous, synced>>
loopvars == <<received, received_count, received_bytes, previous_len>>
diskvars == <<part, dest, synced>>
fixed == <<total_bytes, previous>>

File == {NoFile, OldFile} \cup SUBSET Extent
ReceiverPC == {"opening", "receiving", "persisting", "renaming", "acking",
               "saved", "failed", "rejected", "aborted", "halted"}
Running == {"opening", "receiving", "persisting", "renaming", "acking"}

-----------------------------------------------------------------------------
(* Sizes *)

ChunkCount(n) == (n + ChunkSize - 1) \div ChunkSize

PlaintextLen(i, n) ==
    IF n - i * ChunkSize < ChunkSize THEN n - i * ChunkSize ELSE ChunkSize

Exact == total_bytes # NoSize

-----------------------------------------------------------------------------
(* What may arrive on the data channel.  Binary messages that are too short *)
(* to parse are "malformed", text that is not DONE:<n>:<n> is "text"; every *)
(* plaintext length beyond ChunkSize is refused alike, one stands for all.  *)

ChunkMessage == [kind : {"chunk"}, index : Index, len : 0 .. ChunkSize + 1,
                 body : Payload, sealed : BOOLEAN]
DoneMessage == [kind : {"done"}, chunks : 0 .. MaxChunks + 1,
                bytes : 0 .. MaxMessageSize + 1]
JunkMessage == [kind : {"malformed", "text"}]
Message == ChunkMessage \cup DoneMessage \cup JunkMessage

-----------------------------------------------------------------------------
(* The checks on one encrypted chunk *)

FirstCopy_Unchecked(m) == TRUE
FirstCopy(m) == m.index \notin received

InSequence(m) ==
    /\ m.index = received_count
    /\ previous_len \in {0, ChunkSize}
    /\ m.len \in 1 .. ChunkSize

ExpectedLen(m) ==
    IF Exact THEN PlaintextLen(m.index, total_bytes) ELSE m.len

Acceptable(m) ==
    /\ m.kind = "chunk"
    /\ IF Exact THEN m.index < ChunkCount(total_bytes) /\ FirstCopy(m)
                ELSE InSequence(m)
    /\ m.len = ExpectedLen(m)
    /\ received_bytes + ExpectedLen(m) <= MaxMessageSize
    /\ m.sealed

(* Seek to the chunk's place in an exact-size file, append to a streamed one. *)
ExtentOf(m) ==
    [at |-> IF Exact THEN m.index * ChunkSize ELSE received_bytes,
     len |-> m.len, body |-> m.body]

(* The checks on DONE, limits of parse_done included. *)
Concludes(m) ==
    /\ m.kind = "done"
    /\ m.chunks <= MaxChunks /\ m.bytes <= MaxMessageSize
    /\ m.chunks = received_count
    /\ Exact => m.chunks = ChunkCount(total_bytes) /\ m.bytes = total_bytes
    /\ m.bytes = received_bytes

-----------------------------------------------------------------------------
(* The steps of run_receiver *)

ReceiverInit ==
    /\ rpc = "opening"
    /\ total_bytes \in Sizes
    /\ received = {} /\ received_count = 0 /\ received_bytes = 0
    /\ previous_len = 0
    /\ part \in {NoFile} \cup Leftovers
    /\ dest \in {NoFile, OldFile}
    /\ previous = dest
    /\ synced = FALSE

TooManyChunks == Exact /\ ChunkCount(total_bytes) > MaxChunks

RefuseSize ==
    /\ rpc = "opening" /\ TooManyChunks
    /\ rpc' = "rejected"
    /\ UNCHANGED <<loopvars, diskvars, fixed>>

(* File::create truncates what an earlier attempt left. *)
OpenPart ==
    /\ rpc = "opening" /\ ~TooManyChunks
    /\ rpc' = "receiving"
    /\ part' = {}
    /\ UNCHANGED <<loopvars, dest, synced, fixed>>

(* Creating the part file fails, or set_len does once it exists. *)
OpenFails ==
    /\ rpc = "opening" /\ ~TooManyChunks
    /\ rpc' = "failed"
    /\ part' \in {part} \cup (IF Exact THEN {{}} ELSE {})
    /\ UNCHANGED <<loopvars, dest, synced, fixed>>

(* An error of remove_file is ignored. *)
Cleanup == part' \in {NoFile, part}

(* The receive loop ends with an error: the part file is to be removed. *)
LeaveLoop(outcome) ==
    /\ rpc' = outcome
    /\ Cleanup
    /\ UNCHANGED <<loopvars, dest, synced, fixed>>

AcceptChunk(m) ==
    /\ rpc = "receiving" /\ Acceptable(m)
    /\ part' = part \cup {ExtentOf(m)}
    /\ received' = IF Exact THEN received \cup {m.index} ELSE received
    /\ previous_len' = IF Exact THEN previous_len ELSE m.len
    /\ received_count' = received_count + 1
    /\ received_bytes' = received_bytes + m.len
    /\ UNCHANGED <<rpc, dest, synced, fixed>>

(* The seek or the write of an acceptable chunk fails. *)
WriteFails(m) ==
    /\ rpc = "receiving" /\ Acceptable(m)
    /\ LeaveLoop("failed")

AcceptDone(m) ==
    /\ rpc = "receiving" /\ Concludes(m)
    /\ rpc' = "persisting"
    /\ UNCHANGED <<loopvars, diskvars, fixed>>

RejectMessage(m) ==
    /\ rpc = "receiving" /\ ~Acceptable(m) /\ ~Concludes(m)
    /\ LeaveLoop("rejected")

OnMessage(m) ==
    AcceptChunk(m) \/ WriteFails(m) \/ AcceptDone(m) \/ RejectMessage(m)

(* recv returned None, or nothing came within STALL_TIMEOUT. *)
ChannelEnds_Finishes ==
    /\ rpc = "receiving"
    /\ rpc' = "persisting"
    /\ UNCHANGED <<loopvars, diskvars, fixed>>
ChannelEnds == rpc = "receiving" /\ LeaveLoop("failed")
Stall_Unarmed == FALSE
Stall == rpc = "receiving" /\ LeaveLoop("failed")

(* flush and sync_all; with ? and without the cleanup of the loop. *)
Persist_NoSync ==
    /\ rpc = "persisting"
    /\ rpc' = "renaming"
    /\ UNCHANGED <<loopvars, diskvars, fixed>>
Persist ==
    /\ rpc = "persisting"
    /\ rpc' = "renaming"
    /\ synced' = TRUE
    /\ UNCHANGED <<loopvars, part, dest, fixed>>

PersistFails ==
    /\ rpc = "persisting"
    /\ rpc' = "failed"
    /\ UNCHANGED <<loopvars, diskvars, fixed>>

Rename ==
    /\ rpc = "renaming"
    /\ rpc' = "acking"
    /\ dest' = part /\ part' = NoFile
    /\ UNCHANGED <<loopvars, synced, fixed>>

RenameFails_Ignored ==
    /\ rpc = "renaming"
    /\ rpc' = "acking"
    /\ UNCHANGED <<loopvars, diskvars, fixed>>
RenameFails ==
    /\ rpc = "renaming"
    /\ rpc' = "failed"
    /\ UNCHANGED <<loopvars, diskvars, fixed>>

(* send_text("ACK"): accepted by the channel, or refused by a closed one. *)
SendAck ==
    /\ rpc = "acking"
    /\ rpc' = "saved"
    /\ UNCHANGED <<loopvars, diskvars, fixed>>

AckFails ==
    /\ rpc = "acking"
    /\ rpc' = "failed"
    /\ UNCHANGED <<loopvars, diskvars, fixed>>

(* Ctrl-C: the task is dropped wherever it is suspended. *)
Abort ==
    /\ rpc \in Running
    /\ rpc' = "aborted"
    /\ UNCHANGED <<loopvars, diskvars, fixed>>

(***************************************************************************)
(* The machine stops.  What was written before sync_all returned may or    *)
(* may not be on the disk; so may the entries of the directory, which      *)
(* nothing syncs: the part file may be missing, the rename undone.         *)
(***************************************************************************)
OnDisk(file) ==
    IF file \in {NoFile, OldFile} \/ synced THEN {file} ELSE SUBSET file

PowerLoss ==
    /\ rpc # "halted"
    /\ rpc' = "halted"
    /\ IF dest # previous
         THEN \/ dest' \in OnDisk(dest) /\ part' = NoFile
              \/ dest' = previous /\ part' \in {NoFile} \cup OnDisk(dest)
         ELSE dest' = dest /\ part' \in {NoFile} \cup OnDisk(part)
    /\ UNCHANGED <<loopvars, synced, fixed>>

Steps ==
    \/ RefuseSize \/ OpenPart \/ OpenFails
    \/ \E m \in Message : OnMessage(m)
    \/ ChannelEnds \/ Stall
    \/ Persist \/ PersistFails \/ Rename \/ RenameFails
    \/ SendAck \/ AckFails

Next == Steps \/ Abort \/ PowerLoss

Spec == ReceiverInit /\ [][Next]_rvars

-----------------------------------------------------------------------------
(* Properties *)

(* Types, and the relation of the counters to the index set. *)
ReceiverTypeOK ==
    /\ rpc \in ReceiverPC
    /\ total_bytes \in Nat \cup {NoSize}
    /\ received \in SUBSET Index
    /\ received_count \in Nat /\ received_bytes \in 0 .. MaxMessageSize
    /\ previous_len \in 0 .. ChunkSize
    /\ part \in {NoFile} \cup SUBSET Extent
    /\ dest \in File
    /\ previous \in {NoFile, OldFile}
    /\ synced \in BOOLEAN

(* Extents e and f share no byte. *)
Apart(e, f) == e.at + e.len <= f.at \/ f.at + f.len <= e.at

(* The extents cover bytes 0 to n - 1, each exactly once, and nothing else. *)
Covers(file, n) ==
    /\ \A e \in file : e.at + e.len <= n
    /\ \A b \in 0 .. n - 1 : \E e \in file : e.at <= b /\ b < e.at + e.len
    /\ \A e, f \in file : e # f => Apart(e, f)

(* The extents of file are those of the chunks marked as received. *)
HoldsReceived(file) ==
    /\ \A e \in file : \E i \in received :
           e.at = i * ChunkSize /\ e.len = PlaintextLen(i, total_bytes)
    /\ \A i \in received : \E e \in file :
           e.at = i * ChunkSize /\ e.len = PlaintextLen(i, total_bytes)
    /\ \A e, f \in file : e # f => e.at # f.at

(***************************************************************************)
(* While it is being written the part file agrees with the bookkeeping of  *)
(* the loop: one extent per marked index and as many marks as the counter  *)
(* says, or, streamed, no gap and no overlap up to received_bytes.         *)
(***************************************************************************)
PartMatchesBookkeeping ==
    rpc \in {"receiving", "persisting", "renaming"} =>
        /\ part \in SUBSET Extent
        /\ IF Exact
             THEN /\ received_count = Cardinality(received)
                  /\ \A i \in received : i < ChunkCount(total_bytes)
                  /\ HoldsReceived(part)
             ELSE Covers(part, received_bytes)

(***************************************************************************)
(* Whatever the peer sends and whatever fails, the power included, the     *)
(* destination holds what it held before or a file whose every byte was    *)
(* written exactly once, of the announced size when one was announced.     *)
(***************************************************************************)
DestWhole ==
    dest # previous =>
        /\ Covers(dest, received_bytes)
        /\ Exact => received_bytes = total_bytes

(* What the phase of run_receiver says of its data; the strengthening that *)
(* makes the properties above inductive.                                   *)
PhaseInv ==
    /\ rpc = "opening" =>
           received = {} /\ received_count = 0 /\ received_bytes = 0
    /\ rpc \in {"opening", "receiving", "persisting", "renaming"} =>
           dest = previous
    /\ rpc \in {"persisting", "renaming"} /\ Exact =>
           received_count = ChunkCount(total_bytes)
           /\ received_bytes = total_bytes
    /\ rpc = "renaming" \/ dest # previous => synced
    /\ dest # previous => dest \in SUBSET Extent

ReceiverIInv ==
    ReceiverTypeOK /\ PartMatchesBookkeeping /\ DestWhole /\ PhaseInv

(***************************************************************************)
(* "Clean up the partial file on any failure path" (transfer.rs:305), read *)
(* of the function: no part file outlives an error of run_receiver.        *)
(***************************************************************************)
PartRemovedOnFailure == rpc = "failed" => part = NoFile
=============================================================================
