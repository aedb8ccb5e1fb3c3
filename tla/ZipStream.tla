------------------------------ MODULE ZipStream ------------------------------
(***************************************************************************)
(* A ZIP generated while it is sent: SendSource::open starts write_zip on  *)
(* a blocking thread, ChunkWriter cuts its output into full chunks and     *)
(* hands them through a bounded channel to SendStream::next_chunk.         *)
(*                                                                         *)
(* The archive is its length.  What the zip library writes in one call is  *)
(* any number of the bytes still missing.                                  *)
(***************************************************************************)
EXTENDS Integers, Sequences

CONSTANTS
    ChunkSize,      \* ENCRYPTION_CHUNK_SIZE
    QueueCap,       \* capacity of the channel
    ArchiveSizes    \* lengths the archive may have

ASSUME ZipAssumption ==
    /\ ChunkSize \in Nat \ {0}
    /\ QueueCap \in Nat \ {0}
    /\ ArchiveSizes \subseteq Nat

VARIABLES
    wpc,        \* where the blocking thread is
    archive,    \* length of the finished archive
    written,    \* bytes the zip library has handed to ChunkWriter::write
    input,      \* bytes of the current write not yet copied
    chunk,      \* length of ChunkWriter.chunk
    result,     \* what the thread's closure returns
    queue,      \* the channel: chunk lengths, or the error message
    cpc,        \* what next_chunk's caller does
    taken       \* lengths of the chunks next_chunk returned

vars == <<wpc, archive, written, input, chunk, result, queue, cpc, taken>>

Failure == 0    \* the Err(message) item; a chunk is never empty

(* The receiver half of the channel is dropped with the SendStream. *)
Dropped == cpc \in {"failed", "cancelled"}
Room_Unbounded == TRUE
Room == Len(queue) < QueueCap

Init ==
    /\ wpc = "writing" /\ archive \in ArchiveSizes
    /\ written = 0 /\ input = 0 /\ chunk = 0 /\ result = "none"
    /\ queue = <<>> /\ cpc = "reading" /\ taken = <<>>

-----------------------------------------------------------------------------
(* The blocking thread *)

(* ChunkWriter::write is called with some of the bytes still to come. *)
Write ==
    /\ wpc = "writing" /\ written < archive
    /\ \E n \in 1 .. archive - written :
           written' = written + n /\ input' = n
    /\ wpc' = "copying"
    /\ UNCHANGED <<archive, chunk, result, queue, cpc, taken>>

Copied == IF input < ChunkSize - chunk THEN input ELSE ChunkSize - chunk

(* One turn of the loop of ChunkWriter::write. *)
FillChunk_PerWrite ==
    /\ wpc = "copying"
    /\ chunk' = chunk + Copied
    /\ input' = input - Copied
    /\ wpc' = "sending"
    /\ UNCHANGED <<archive, written, result, queue, cpc, taken>>
FillChunk ==
    /\ wpc = "copying"
    /\ chunk' = chunk + Copied
    /\ input' = input - Copied
    /\ wpc' = IF chunk' = ChunkSize THEN "sending"
              ELSE IF result = "error" THEN "reporting" ELSE "writing"
    /\ UNCHANGED <<archive, written, result, queue, cpc, taken>>

(* Where the thread goes after a chunk was handed over. *)
AfterSend ==
    IF input > 0 THEN "copying"
    ELSE IF result = "ok" THEN "ended"
    ELSE IF result = "error" THEN "reporting"
    ELSE "writing"

(* blocking_send waits for room. *)
SendChunk ==
    /\ wpc = "sending" /\ ~Dropped /\ Room
    /\ queue' = Append(queue, chunk)
    /\ chunk' = 0
    /\ wpc' = AfterSend
    /\ UNCHANGED <<archive, written, input, result, cpc, taken>>

(* BrokenPipe: nobody will take the chunk. *)
SendRefused_Ignored == FALSE
SendRefused ==
    /\ wpc = "sending" /\ Dropped
    /\ chunk' = 0 /\ input' = 0
    /\ result' = "error" /\ wpc' = "reporting"
    /\ UNCHANGED <<archive, written, queue, cpc, taken>>

(* write_zip returns and ChunkWriter::finish hands over the rest. *)
Finish ==
    /\ wpc = "writing" /\ result = "none" /\ written = archive
    /\ result' = "ok"
    /\ wpc' = IF chunk > 0 THEN "sending" ELSE "ended"
    /\ UNCHANGED <<archive, written, input, chunk, queue, cpc, taken>>

(* An input cannot be opened or read.  Dropping the ZipWriter may make it  *)
(* write once more before the error is returned.                           *)
InputFails ==
    /\ wpc = "writing" /\ result = "none"
    /\ result' = "error"
    /\ \E n \in 0 .. archive - written :
           /\ written' = written + n /\ input' = n
           /\ wpc' = IF n > 0 THEN "copying" ELSE "reporting"
    /\ UNCHANGED <<archive, chunk, queue, cpc, taken>>

(* error_sender: the error is queued behind the chunks, if anybody listens. *)
ReportError ==
    /\ wpc = "reporting" /\ (Dropped \/ Room)
    /\ queue' = IF Dropped THEN queue ELSE Append(queue, Failure)
    /\ wpc' = "ended"
    /\ UNCHANGED <<archive, written, input, chunk, result, cpc, taken>>

(* A panic drops both senders without a message. *)
Panic ==
    /\ wpc \in {"writing", "copying"}
    /\ wpc' = "ended" /\ result' = "panic"
    /\ UNCHANGED <<archive, written, input, chunk, queue, cpc, taken>>

WriterStep ==
    \/ Write \/ FillChunk \/ SendChunk \/ SendRefused
    \/ Finish \/ InputFails \/ ReportError \/ Panic

-----------------------------------------------------------------------------
(* next_chunk *)

TakeChunk ==
    /\ cpc = "reading" /\ queue # <<>> /\ Head(queue) # Failure
    /\ taken' = Append(taken, Head(queue))
    /\ queue' = Tail(queue)
    /\ UNCHANGED <<wpc, archive, written, input, chunk, result, cpc>>

TakeError ==
    /\ cpc = "reading" /\ queue # <<>> /\ Head(queue) = Failure
    /\ queue' = Tail(queue) /\ cpc' = "failed"
    /\ UNCHANGED <<wpc, archive, written, input, chunk, result, taken>>

(* recv returns None once both senders are gone; the thread is joined. *)
EndOfStream_Unjoined ==
    /\ cpc = "reading" /\ queue = <<>> /\ wpc = "ended"
    /\ cpc' = "eof"
    /\ UNCHANGED <<wpc, archive, written, input, chunk, result, queue, taken>>
EndOfStream ==
    /\ cpc = "reading" /\ queue = <<>> /\ wpc = "ended"
    /\ cpc' = IF result = "ok" THEN "eof" ELSE "failed"
    /\ UNCHANGED <<wpc, archive, written, input, chunk, result, queue, taken>>

(* The transfer fails or is aborted and drops the stream, queue and all. *)
Cancel ==
    /\ cpc = "reading"
    /\ cpc' = "cancelled" /\ queue' = <<>>
    /\ UNCHANGED <<wpc, archive, written, input, chunk, result, taken>>

ConsumerStep == TakeChunk \/ TakeError \/ EndOfStream

Next == WriterStep \/ ConsumerStep \/ Cancel

Spec == Init /\ [][Next]_vars

-----------------------------------------------------------------------------
(* Properties *)

(* The lengths s added up: those of the first i, and of all. *)
Sums(s) ==
    LET sum[i \in 0 .. Len(s)] == IF i = 0 THEN 0 ELSE sum[i - 1] + s[i]
    IN  sum
Total(s) == Sums(s)[Len(s)]

(***************************************************************************)
(* The end of the stream is the end of the archive: DONE can only follow   *)
(* chunks that add up to all of it, never an error, a panic or a lost rest.*)
(***************************************************************************)
EofIsWholeArchive == cpc = "eof" => result = "ok" /\ Total(taken) = archive

(***************************************************************************)
(* run_receiver appends streamed chunks: every chunk but the last is full  *)
(* and none is empty, however the zip library splits its writes.           *)
(***************************************************************************)
OnlyLastShort ==
    \A i \in 1 .. Len(taken) :
        /\ taken[i] \in 1 .. ChunkSize
        /\ i < Len(taken) => taken[i] = ChunkSize

(***************************************************************************)
(* "Two queued chunks plus the writer's current chunk keep peak archive    *)
(* memory bounded" (archive.rs:84): what was copied out of the library but *)
(* not taken by the transfer never exceeds that.                           *)
(***************************************************************************)
BoundedMemory ==
    Total(queue) + chunk <= (QueueCap + 1) * ChunkSize
=============================================================================
