---------------------------- MODULE FileTransfer ----------------------------
(***************************************************************************)
(* One transfer over an open data channel: run_sender, the channel, and    *)
(* run_receiver (module ChunkReceiver), with the close that follows each.  *)
(*                                                                         *)
(* The channel is reliable and ordered while it lives: `wire` is the log   *)
(* of what the sender's SCTP accepted, `arrived` how much of it reached    *)
(* the receiver's message queue, `consumed` how much run_receiver took.    *)
(* A plaintext is identified by its offset in the source.  A timer may     *)
(* fire whenever what it waits for has not happened.                       *)
(***************************************************************************)
EXTENDS ChunkReceiver, Sequences

CONSTANTS
    Window,        \* messages the send buffer takes before sends must wait
    SourceSizes,   \* the sizes the source may really have when it is read
    Unstable,      \* the file changes while it is read
    FaultSets      \* the things that may go wrong, for every kind of run

AllFaults == {"link", "worker", "disk", "read", "abort", "slow"}

ASSUME TransferAssumption ==
    /\ Window \in Nat \ {0}
    /\ SourceSizes \subseteq Nat \cup {Unstable}
    /\ Unstable \notin Nat
    /\ FaultSets \subseteq SUBSET AllFaults
    /\ 0 .. MaxMessageSize \subseteq Payload

VARIABLES
    spc,           \* where run_sender is
    source,        \* the real length of the source, or Unstable
    chunks_sent,
    sent,
    wire, arrived, consumed,
    ack,           \* the ACK: not yet "sent", on its way, or "arrived"
    link,          \* the network path works
    sEnd, rEnd,    \* the sender's and the receiver's end of the channel
    faults         \* what may go wrong in this run

svars == <<spc, source, chunks_sent, sent>>
netvars == <<arrived, ack, link, sEnd, rEnd>>
vars == <<rvars, svars, wire, consumed, netvars>>

(* "closed": the channel's closed flag is set, so sends fail, but run_peer *)
(* still runs and recv still waits; "gone": run_peer has ended.            *)
End == {"open", "closed", "gone"}
SenderPC == {"sending", "ending", "acking", "sent", "failed"}
SenderOver == spc \in {"sent", "failed"}

-----------------------------------------------------------------------------
(* run_sender *)

(* Lengths next_chunk may return, 0 for the end of the source: a file and  *)
(* an archive are cut into full chunks and a rest, a file that changes     *)
(* under the reader may give any.                                          *)
NextChunkLens ==
    IF source = Unstable THEN 0 .. ChunkSize
    ELSE {IF source - sent < ChunkSize THEN source - sent ELSE ChunkSize}

Sendable(n) ==
    /\ chunks_sent < MaxChunks
    /\ sent + n <= MaxMessageSize
    /\ Exact => sent + n <= total_bytes

SendAllowed == Len(wire) - arrived < Window

(* `chunks_sent as u16` *)
ChunkOf_FromOne(n) == [kind |-> "chunk", index |-> (chunks_sent + 1) % MaxChunks,
                       len |-> n, body |-> sent, sealed |-> TRUE]
ChunkOf(n) == [kind |-> "chunk", index |-> chunks_sent % MaxChunks,
               len |-> n, body |-> sent, sealed |-> TRUE]

SendChunk ==
    /\ spc = "sending" /\ sEnd = "open" /\ SendAllowed
    /\ \E n \in NextChunkLens \ {0} :
           /\ Sendable(n)
           /\ wire' = Append(wire, ChunkOf(n))
           /\ sent' = sent + n
    /\ chunks_sent' = chunks_sent + 1
    /\ UNCHANGED <<spc, source, rvars, consumed, netvars>>

SenderFails ==
    /\ spc' = "failed"
    /\ UNCHANGED <<source, chunks_sent, sent, wire, rvars, consumed, netvars>>

(* A limit is exceeded or the source grew past its announced size. *)
SenderRefuses ==
    /\ spc = "sending"
    /\ \E n \in NextChunkLens \ {0} : ~Sendable(n)
    /\ SenderFails

SourceEnds ==
    /\ spc = "sending" /\ 0 \in NextChunkLens
    /\ ~Exact \/ sent = total_bytes
    /\ spc' = "ending"
    /\ UNCHANGED <<source, chunks_sent, sent, wire, rvars, consumed, netvars>>

SourceTooShort ==
    /\ spc = "sending" /\ 0 \in NextChunkLens
    /\ Exact /\ sent # total_bytes
    /\ SenderFails

(* open or next_chunk returns an error. *)
ReadFails == "read" \in faults /\ spc = "sending" /\ SenderFails

SendRefused == spc \in {"sending", "ending"} /\ sEnd # "open" /\ SenderFails

(* Late: the awaited thing has not happened and, unless the peer is merely *)
(* slow, cannot happen in time.                                            *)
Late == "slow" \in faults \/ ~link \/ sEnd # "open" \/ rEnd # "open"

(* Only the chunks are sent under STALL_TIMEOUT. *)
SendStalls_Untimed == FALSE
SendStalls ==
    /\ spc = "sending" /\ ~SendAllowed /\ Late
    /\ \E n \in NextChunkLens \ {0} : Sendable(n)
    /\ SenderFails

SendDone ==
    /\ spc = "ending" /\ sEnd = "open" /\ SendAllowed
    /\ wire' = Append(wire, [kind |-> "done", chunks |-> chunks_sent,
                             bytes |-> sent])
    /\ spc' = "acking"
    /\ UNCHANGED <<source, chunks_sent, sent, rvars, consumed, netvars>>

AckReceived ==
    /\ spc = "acking" /\ ack = "arrived"
    /\ spc' = "sent"
    /\ UNCHANGED <<source, chunks_sent, sent, wire, rvars, consumed, netvars>>

(* ACK_TIMEOUT passes, or recv returns None. *)
AckMissing ==
    /\ spc = "acking" /\ ack # "arrived" /\ Late
    /\ SenderFails

SenderCloses ==
    /\ SenderOver /\ sEnd # "gone"
    /\ sEnd' = "gone"
    /\ UNCHANGED <<svars, wire, rvars, consumed, arrived, ack, link, rEnd>>

SenderProgress ==
    \/ SendChunk \/ SenderRefuses \/ SourceEnds \/ SourceTooShort
    \/ SendRefused \/ SendStalls \/ SendDone \/ AckReceived \/ AckMissing
    \/ SenderCloses

SenderStep == SenderProgress \/ ReadFails

-----------------------------------------------------------------------------
(* run_receiver on the channel *)

Receive ==
    /\ consumed < arrived
    /\ LET m == wire[consumed + 1]
       IN  \/ AcceptChunk(m) \/ AcceptDone(m) \/ RejectMessage(m)
           \/ "disk" \in faults /\ WriteFails(m)
    /\ consumed' = consumed + 1
    /\ UNCHANGED <<svars, wire, netvars>>

(* The queue is drained before recv returns None. *)
RecvEnds ==
    /\ consumed = arrived /\ rEnd = "gone"
    /\ ChannelEnds
    /\ UNCHANGED <<svars, wire, consumed, netvars>>

RecvStalls ==
    /\ consumed = arrived /\ rEnd # "gone" /\ Late
    /\ Stall
    /\ UNCHANGED <<svars, wire, consumed, netvars>>

ReceiverLocal ==
    /\ \/ RefuseSize \/ OpenPart \/ Persist \/ Rename
       \/ "disk" \in faults /\ (OpenFails \/ PersistFails \/ RenameFails)
    /\ UNCHANGED <<svars, wire, consumed, netvars>>

Acknowledge ==
    /\ rEnd = "open" /\ SendAck
    /\ ack' = "sent"
    /\ UNCHANGED <<svars, wire, consumed, arrived, link, sEnd, rEnd>>

AckRefused ==
    /\ rEnd # "open" /\ AckFails
    /\ UNCHANGED <<svars, wire, consumed, netvars>>

(* 200 ms after run_receiver returned, time enough for an ACK unless the   *)
(* network is slow or broken; what is still in the send buffer is lost.    *)
ReceiverCloses ==
    /\ rpc \in {"saved", "failed", "rejected"} /\ rEnd # "gone"
    /\ rpc = "saved" => ack = "arrived" \/ Late
    /\ rEnd' = "gone"
    /\ UNCHANGED <<svars, wire, rvars, consumed, arrived, ack, link, sEnd>>

ReceiverStep ==
    \/ Receive \/ RecvEnds \/ RecvStalls \/ ReceiverLocal
    \/ Acknowledge \/ AckRefused \/ ReceiverCloses

ReceiverAborts ==
    /\ "abort" \in faults /\ Abort
    /\ UNCHANGED <<svars, wire, consumed, netvars>>

-----------------------------------------------------------------------------
(* The channel *)

Arrive ==
    /\ arrived < Len(wire) /\ link /\ rEnd # "gone"
    /\ arrived' = arrived + 1
    /\ UNCHANGED <<svars, wire, rvars, consumed, ack, link, sEnd, rEnd>>

AckArrives ==
    /\ ack = "sent" /\ link /\ sEnd # "gone"
    /\ ack' = "arrived"
    /\ UNCHANGED <<svars, wire, rvars, consumed, arrived, link, sEnd, rEnd>>

LinkDies ==
    /\ "link" \in faults /\ link
    /\ link' = FALSE
    /\ UNCHANGED <<svars, wire, rvars, consumed, arrived, ack, sEnd, rEnd>>

(* OnClose or OnError: the other end closed, or SCTP gave up on a dead path. *)
SenderSeesClose ==
    /\ sEnd = "open" /\ (rEnd = "gone" \/ ~link)
    /\ sEnd' = "closed"
    /\ UNCHANGED <<svars, wire, rvars, consumed, arrived, ack, link, rEnd>>

ReceiverSeesClose ==
    /\ rEnd = "open" /\ (sEnd = "gone" \/ ~link)
    /\ rEnd' = "closed"
    /\ UNCHANGED <<svars, wire, rvars, consumed, arrived, ack, link, sEnd>>

(* run_peer ends by itself: a timer error, or no UDP reader left. *)
WorkerStops ==
    /\ "worker" \in faults
    /\ \/ sEnd # "gone" /\ sEnd' = "gone" /\ UNCHANGED rEnd
       \/ rEnd # "gone" /\ rEnd' = "gone" /\ UNCHANGED sEnd
    /\ UNCHANGED <<svars, wire, rvars, consumed, arrived, ack, link>>

ChannelStep ==
    \/ Arrive \/ AckArrives \/ LinkDies
    \/ SenderSeesClose \/ ReceiverSeesClose \/ WorkerStops

-----------------------------------------------------------------------------
TransferInit ==
    /\ ReceiverInit
    /\ spc = "sending"
    /\ source \in SourceSizes
    /\ source = Unstable => Exact
    /\ chunks_sent = 0 /\ sent = 0
    /\ wire = <<>> /\ arrived = 0 /\ consumed = 0
    /\ ack = "none" /\ link = TRUE
    /\ sEnd = "open" /\ rEnd = "open"
    /\ faults \in FaultSets

TransferNext ==
    /\ SenderStep \/ ReceiverStep \/ ReceiverAborts \/ ChannelStep
    /\ UNCHANGED faults

TransferSpec == TransferInit /\ [][TransferNext]_<<vars, faults>>

(* Each task runs whenever it is not waiting, its timers included, and a   *)
(* path that works delivers.  Nothing makes a close reach the other end.   *)
FairTransferSpec ==
    /\ TransferSpec
    /\ WF_vars(SenderProgress) /\ WF_vars(ReceiverStep)
    /\ WF_vars(Arrive) /\ WF_vars(AckArrives)

-----------------------------------------------------------------------------
(* Properties *)

TransferTypeOK ==
    /\ ReceiverTypeOK
    /\ spc \in SenderPC
    /\ source \in Nat \cup {Unstable}
    /\ chunks_sent \in 0 .. MaxChunks /\ sent \in 0 .. MaxMessageSize
    /\ wire \in Seq(Message)
    /\ arrived \in 0 .. Len(wire) /\ consumed \in 0 .. arrived
    /\ ack \in {"none", "sent", "arrived"}
    /\ link \in BOOLEAN /\ sEnd \in End /\ rEnd \in End
    /\ faults \in FaultSets

(* Every byte of the file is the byte of the source at the same offset. *)
IsSource(file) ==
    /\ Covers(file, sent)
    /\ \A e \in file : e.at = e.body
    /\ source # Unstable => sent = source

(***************************************************************************)
(* Both tasks end, whatever fails; save a sender that is stuck for ever    *)
(* handing DONE to a full buffer whose channel never reports its end       *)
(* (transfer.rs:111-113).                                                  *)
(***************************************************************************)
DoneBlocked == spc = "ending" /\ ~SendAllowed /\ sEnd = "open"
TransferEnds ==
    /\ <>(rpc \notin Running)
    /\ <>SenderOver \/ <>[]DoneBlocked

(***************************************************************************)
(* "Active P2P transfers use a 60-second idle/stall window"                *)
(* (ARCHITECTURE.md): no silence of the network keeps the sender waiting   *)
(* for ever.                                                               *)
(***************************************************************************)
SenderEnds == <>SenderOver

Deliverable ==
    /\ source # Unstable /\ source <= MaxMessageSize
    /\ ChunkCount(source) <= MaxChunks
    /\ Exact => source = total_bytes

(***************************************************************************)
(* When nothing fails, a source within the limits is delivered and both    *)
(* users are told so: the limits and the chunking of run_sender are those  *)
(* run_receiver insists on.                                                *)
(***************************************************************************)
Delivered == faults = {} /\ Deliverable => <>(spc = "sent" /\ rpc = "saved")

-----------------------------------------------------------------------------
(* The abstract specification *)

Promise == INSTANCE TransferPromise WITH
    file <- IF dest = previous THEN "previous"
            ELSE IF IsSource(dest) /\ synced THEN "source" ELSE "damaged",
    sender <- CASE spc = "sent" -> "success"
                [] spc = "failed" -> "error"
                [] OTHER -> "busy",
    receiver <- CASE rpc = "saved" -> "success"
                  [] rpc \in {"failed", "rejected", "aborted"} -> "error"
                  [] OTHER -> "busy"

(***************************************************************************)
(* The transfer keeps the promise: the destination changes once, to the    *)
(* whole source, and each success is reported after that.  A source that   *)
(* was cut short, that changed its size or whose DONE never came is never  *)
(* put in place.                                                           *)
(***************************************************************************)
KeepsPromise == Promise!Spec
=============================================================================
