-------------------------- MODULE FileTransferProofs --------------------------
(***************************************************************************)
(* The transfer proper.  First the receiver alone: for every chunk size,   *)
(* every limit and every peer run_receiver keeps its types and its books,  *)
(* and the destination is never anything but its former content or a whole *)
(* file.  Then one transfer: for any source, any window and any faults,    *)
(* sender, channel and receiver together implement TransferPromise.        *)
(***************************************************************************)
EXTENDS FileTransfer, FiniteSetTheorems, SequenceTheorems, TLAPS

-----------------------------------------------------------------------------
(* The receiver: arithmetic of chunks *)

(* Division by a chunk size, as the provers need it. *)
LEMMA Division ==
  ASSUME NEW b \in Nat, NEW c \in Nat \ {0}
  PROVE  /\ b \div c \in Nat
         /\ (b \div c) * c <= b
         /\ b < (b \div c) * c + c
<1>1. b \div c \in Nat
  OBVIOUS
<1>2. b = (b \div c) * c + (b % c)
  OBVIOUS
<1>3. b % c \in 0 .. c - 1
  OBVIOUS
<1> QED BY <1>1, <1>2, <1>3

(* Chunk i ends before chunk j begins when i < j. *)
LEMMA ChunksInOrder ==
  ASSUME NEW i \in Nat, NEW j \in Nat, i < j
  PROVE  i * ChunkSize + ChunkSize <= j * ChunkSize
<1>1. j - i - 1 \in Nat
  OBVIOUS
<1>2. j * ChunkSize = i * ChunkSize + ChunkSize + (j - i - 1) * ChunkSize
  BY LimitsAssumption
<1>3. (j - i - 1) * ChunkSize \in Nat
  BY <1>1, LimitsAssumption
<1>4. i * ChunkSize \in Nat /\ ChunkSize \in Nat
  BY LimitsAssumption
<1> QED BY <1>2, <1>3, <1>4

(* chunk_count is the number of chunks that cover n bytes, no more. *)
LEMMA ChunkCountBounds ==
  ASSUME NEW n \in Nat
  PROVE  /\ ChunkCount(n) \in Nat
         /\ n <= ChunkCount(n) * ChunkSize
         /\ \A i \in Nat : i < ChunkCount(n) => i * ChunkSize < n
<1> DEFINE c == ChunkCount(n)
<1>1. /\ c \in Nat
      /\ c * ChunkSize <= n + ChunkSize - 1
      /\ n + ChunkSize - 1 < c * ChunkSize + ChunkSize
  <2>1. n + ChunkSize - 1 \in Nat
    BY LimitsAssumption
  <2> QED BY <2>1, LimitsAssumption, Division DEF ChunkCount
<1>2. ASSUME NEW i \in Nat, i < c
      PROVE  i * ChunkSize < n
  <2>1. i * ChunkSize + ChunkSize <= c * ChunkSize
    BY <1>1, <1>2, ChunksInOrder
  <2>2. i * ChunkSize \in Nat /\ c * ChunkSize \in Nat
    BY <1>1, LimitsAssumption
  <2> HIDE DEF c
  <2> QED BY <1>1, <2>1, <2>2, LimitsAssumption
<1>3. n <= c * ChunkSize
  <2>1. c * ChunkSize \in Nat
    BY <1>1, LimitsAssumption
  <2> HIDE DEF c
  <2> QED BY <1>1, <2>1, LimitsAssumption
<1> QED BY <1>1, <1>2, <1>3

(* plaintext_len: a chunk of the file is not empty and ends inside it. *)
LEMMA PlaintextLenBounds ==
  ASSUME NEW n \in Nat, NEW i \in Nat, i < ChunkCount(n)
  PROVE  /\ PlaintextLen(i, n) \in 1 .. ChunkSize
         /\ i * ChunkSize \in Nat
         /\ i * ChunkSize + PlaintextLen(i, n) <= n
         /\ i * ChunkSize + ChunkSize <= n => PlaintextLen(i, n) = ChunkSize
<1>1. i * ChunkSize \in Nat /\ i * ChunkSize < n
  BY ChunkCountBounds, LimitsAssumption
<1> QED BY <1>1, LimitsAssumption DEF PlaintextLen

(***************************************************************************)
(* A file with one extent per chunk, each at its place and of its length,  *)
(* covers every byte exactly once.                                         *)
(***************************************************************************)
LEMMA OneExtentPerChunk ==
  ASSUME NEW n \in Nat, NEW file \in SUBSET Extent,
         \A e \in file : \E i \in Nat :
             /\ i < ChunkCount(n)
             /\ e.at = i * ChunkSize /\ e.len = PlaintextLen(i, n),
         \A i \in Nat : i < ChunkCount(n) => \E e \in file :
             e.at = i * ChunkSize /\ e.len = PlaintextLen(i, n),
         \A e, f \in file : e # f => e.at # f.at
  PROVE  Covers(file, n)
<1>1. \A e \in file : e.at + e.len <= n
  BY PlaintextLenBounds
<1>2. ASSUME NEW b \in 0 .. n - 1
      PROVE  \E e \in file : e.at <= b /\ b < e.at + e.len
  <2> DEFINE i == b \div ChunkSize
  <2>1. b \in Nat /\ b < n
    OBVIOUS
  <2>2. i \in Nat /\ i * ChunkSize <= b /\ b < i * ChunkSize + ChunkSize
    BY <2>1, Division, LimitsAssumption
  <2> HIDE DEF i
  <2>3. i < ChunkCount(n)
    <3>1. SUFFICES ASSUME ChunkCount(n) <= i PROVE FALSE
      BY <2>2, ChunkCountBounds
    <3>2. n <= ChunkCount(n) * ChunkSize /\ ChunkCount(n) \in Nat
      BY ChunkCountBounds
    <3>3. CASE ChunkCount(n) = i
      BY <2>1, <2>2, <3>2, <3>3, LimitsAssumption
    <3>4. CASE ChunkCount(n) < i
      <4>1. ChunkCount(n) * ChunkSize + ChunkSize <= i * ChunkSize
        BY <2>2, <3>2, <3>4, ChunksInOrder
      <4>2. ChunkCount(n) * ChunkSize \in Nat /\ i * ChunkSize \in Nat
        BY <2>2, <3>2, LimitsAssumption
      <4> QED BY <2>1, <2>2, <3>2, <4>1, <4>2, LimitsAssumption
    <3> QED BY <2>2, <3>1, <3>2, <3>3, <3>4
  <2>4. PICK e \in file : e.at = i * ChunkSize /\ e.len = PlaintextLen(i, n)
    BY <2>2, <2>3
  <2>5. b < i * ChunkSize + PlaintextLen(i, n)
    <3>1. i * ChunkSize \in Nat
      BY <2>2, LimitsAssumption
    <3> QED BY <2>1, <2>2, <3>1, LimitsAssumption DEF PlaintextLen
  <2> QED BY <2>2, <2>4, <2>5
<1>3. ASSUME NEW e \in file, NEW f \in file, e # f
      PROVE  Apart(e, f)
  <2>1. PICK i \in Nat : /\ i < ChunkCount(n)
                         /\ e.at = i * ChunkSize /\ e.len = PlaintextLen(i, n)
    OBVIOUS
  <2>2. PICK j \in Nat : /\ j < ChunkCount(n)
                         /\ f.at = j * ChunkSize /\ f.len = PlaintextLen(j, n)
    OBVIOUS
  <2>3. i # j
    BY <1>3, <2>1, <2>2
  <2>4. /\ PlaintextLen(i, n) \in 1 .. ChunkSize
        /\ PlaintextLen(j, n) \in 1 .. ChunkSize
        /\ i * ChunkSize \in Nat /\ j * ChunkSize \in Nat
    BY <2>1, <2>2, PlaintextLenBounds
  <2>5. CASE i < j
    <3>1. i * ChunkSize + ChunkSize <= j * ChunkSize
      BY <2>5, ChunksInOrder
    <3> QED BY <2>1, <2>2, <2>4, <3>1, LimitsAssumption DEF Apart
  <2>6. CASE j < i
    <3>1. j * ChunkSize + ChunkSize <= i * ChunkSize
      BY <2>6, ChunksInOrder
    <3> QED BY <2>1, <2>2, <2>4, <3>1, LimitsAssumption DEF Apart
  <2> QED BY <2>3, <2>5, <2>6
<1> QED BY <1>1, <1>2, <1>3 DEF Covers

(* A chunk message carries a two-byte index and a payload. *)
LEMMA ChunkFields ==
  ASSUME NEW m \in Message, m.kind = "chunk"
  PROVE  m.index \in Index /\ m.len \in 0 .. ChunkSize + 1 /\ m.body \in Payload
BY DEF Message, ChunkMessage, DoneMessage, JunkMessage

(* An acceptable chunk is an extent of the file that was not there before. *)
LEMMA AcceptableChunk ==
  ASSUME NEW m \in Message, ReceiverTypeOK, Acceptable(m)
  PROVE  /\ ExtentOf(m) \in Extent
         /\ received_bytes + m.len \in 0 .. MaxMessageSize
         /\ m.len \in 1 .. ChunkSize
         /\ Exact => /\ m.index < ChunkCount(total_bytes)
                     /\ m.index \notin received
                     /\ m.len = PlaintextLen(m.index, total_bytes)
<1>1. m.index \in Nat /\ m.len \in Nat /\ m.body \in Payload
  BY ChunkFields, LimitsAssumption DEF Acceptable, Index
<1>2. received_bytes \in Nat
  BY LimitsAssumption DEF ReceiverTypeOK
<1>3. m.len \in 1 .. ChunkSize
  <2>1. CASE Exact
    <3>1. total_bytes \in Nat
      BY <2>1 DEF ReceiverTypeOK, Exact
    <3> QED BY <1>1, <2>1, <3>1, PlaintextLenBounds DEF Acceptable, ExpectedLen
  <2>2. CASE ~Exact
    BY <2>2 DEF Acceptable, InSequence
  <2> QED BY <2>1, <2>2
<1>4. m.index * ChunkSize \in Nat
  BY <1>1, LimitsAssumption
<1> QED BY <1>1, <1>2, <1>3, <1>4, LimitsAssumption
        DEF Acceptable, ExpectedLen, FirstCopy, ExtentOf, Extent

-----------------------------------------------------------------------------
(* Initially *)

(* run_receiver starts with empty books and the disk as it was. *)
LEMMA InitEstablishes == ReceiverInit => ReceiverIInv
<1> SUFFICES ASSUME ReceiverInit PROVE ReceiverIInv
  OBVIOUS
<1>1. part \in {NoFile} \cup SUBSET Extent
  BY SizesAssumption DEF ReceiverInit
<1>2. received_bytes \in 0 .. MaxMessageSize /\ previous_len \in 0 .. ChunkSize
  BY LimitsAssumption DEF ReceiverInit
<1>3. total_bytes \in Nat \cup {NoSize}
  BY SizesAssumption DEF ReceiverInit
<1>4. ReceiverTypeOK
  BY <1>1, <1>2, <1>3 DEF ReceiverInit, ReceiverTypeOK, ReceiverPC, File
<1> QED BY <1>4 DEF ReceiverInit, ReceiverIInv, PartMatchesBookkeeping,
                    DestWhole, PhaseInv

(* One step per action of run_receiver. *)

(* Steps that change neither data nor disk, or only remove the part file. *)
LEMMA QuietStep ==
  ASSUME ReceiverIInv,
         UNCHANGED <<loopvars, dest, synced, fixed>>,
         part' = part \/ part' = NoFile \/ part' = {},
         rpc' \in {"failed", "rejected", "aborted"}
  PROVE  ReceiverIInv'
<1>1. ReceiverTypeOK'
  BY DEF ReceiverIInv, ReceiverTypeOK, ReceiverPC, loopvars, fixed, File
<1>2. DestWhole'
  BY DEF ReceiverIInv, DestWhole, Covers, Exact, loopvars, fixed
<1> QED BY <1>1, <1>2
        DEF ReceiverIInv, PartMatchesBookkeeping, PhaseInv, loopvars, fixed

(* File::create and set_len: a new, empty part file of the right length. *)
LEMMA OpenPartStep == ReceiverIInv /\ OpenPart => ReceiverIInv'
<1> SUFFICES ASSUME ReceiverIInv, OpenPart PROVE ReceiverIInv'
  OBVIOUS
<1>1. ReceiverTypeOK'
  BY DEF ReceiverIInv, ReceiverTypeOK, ReceiverPC, OpenPart, loopvars, fixed, File
<1>2. received = {} /\ received_count = 0 /\ received_bytes = 0 /\ dest = previous
  BY DEF ReceiverIInv, PhaseInv, OpenPart
<1>3. PartMatchesBookkeeping'
  <2>1. HoldsReceived({})'
    BY <1>2 DEF HoldsReceived, OpenPart, loopvars
  <2>2. Covers({}, 0)
    BY DEF Covers
  <2> QED BY <1>2, <2>1, <2>2, FS_EmptySet
          DEF PartMatchesBookkeeping, OpenPart, loopvars
<1> QED BY <1>1, <1>2, <1>3
        DEF ReceiverIInv, DestWhole, PhaseInv, OpenPart, loopvars, fixed

(* An accepted chunk adds its extent, its index and its bytes together. *)
LEMMA AcceptChunkStep ==
  ASSUME NEW m \in Message, ReceiverIInv, AcceptChunk(m)
  PROVE  ReceiverIInv'
<1> DEFINE x == ExtentOf(m)
<1>1. /\ rpc = "receiving" /\ rpc' = rpc /\ Acceptable(m)
      /\ part' = part \cup {x}
      /\ UNCHANGED <<dest, synced, total_bytes, previous>>
  BY DEF AcceptChunk, fixed
<1>2. /\ x \in Extent
      /\ received_bytes + m.len \in 0 .. MaxMessageSize
      /\ m.len \in 1 .. ChunkSize
      /\ Exact => /\ m.index < ChunkCount(total_bytes)
                  /\ m.index \notin received
                  /\ m.len = PlaintextLen(m.index, total_bytes)
  BY <1>1, AcceptableChunk DEF ReceiverIInv
<1>3. m.index \in Index
  BY <1>1, ChunkFields DEF Acceptable
<1>4. part \in SUBSET Extent /\ dest = previous
  BY <1>1 DEF ReceiverIInv, PartMatchesBookkeeping, PhaseInv
<1>5. ReceiverTypeOK'
  BY <1>1, <1>2, <1>3, <1>4, LimitsAssumption
     DEF ReceiverIInv, ReceiverTypeOK, ReceiverPC, AcceptChunk, File
<1>6. PartMatchesBookkeeping'
  <2>1. CASE Exact
    <3>1. /\ received' = received \cup {m.index}
          /\ received_count' = received_count + 1
          /\ Exact'
      BY <1>1, <2>1 DEF AcceptChunk, Exact
    <3>2. /\ received_count = Cardinality(received)
          /\ \A i \in received : i < ChunkCount(total_bytes)
          /\ HoldsReceived(part)
      BY <1>1, <2>1 DEF ReceiverIInv, PartMatchesBookkeeping
    <3>3. Cardinality(received') = received_count + 1
      <4>1. IsFiniteSet(Index)
        BY FS_Interval, LimitsAssumption DEF Index
      <4>2. IsFiniteSet(received)
        BY <4>1, FS_Subset DEF ReceiverIInv, ReceiverTypeOK
      <4> QED BY <1>2, <2>1, <3>1, <3>2, <4>2, FS_AddElement
    <3>4. HoldsReceived(part)'
      <4>1. x.at = m.index * ChunkSize /\ x.len = PlaintextLen(m.index, total_bytes)
        BY <1>2, <2>1 DEF ExtentOf
      <4>2. ASSUME NEW e \in part PROVE e.at # x.at
        <5>1. PICK i \in received : e.at = i * ChunkSize
          BY <3>2, <4>2 DEF HoldsReceived
        <5>2. i \in Nat /\ m.index \in Nat /\ i # m.index
          BY <1>2, <1>3, <2>1, <5>1
             DEF ReceiverIInv, ReceiverTypeOK, Index
        <5>3. i * ChunkSize \in Nat /\ m.index * ChunkSize \in Nat
          BY <5>2, LimitsAssumption
        <5>4. CASE i < m.index
          BY <4>1, <5>1, <5>2, <5>3, <5>4, ChunksInOrder, LimitsAssumption
        <5>5. CASE m.index < i
          BY <4>1, <5>1, <5>2, <5>3, <5>5, ChunksInOrder, LimitsAssumption
        <5> QED BY <5>2, <5>4, <5>5
      <4> HIDE DEF x
      <4> QED BY <1>1, <3>1, <3>2, <4>1, <4>2 DEF HoldsReceived
    <3> QED BY <1>1, <1>2, <1>4, <2>1, <3>1, <3>2, <3>3, <3>4
            DEF PartMatchesBookkeeping
  <2>2. CASE ~Exact
    <3>1. /\ received_bytes' = received_bytes + m.len
          /\ ~Exact'
      BY <1>1, <2>2 DEF AcceptChunk, Exact
    <3>2. Covers(part, received_bytes)
      BY <1>1, <2>2 DEF ReceiverIInv, PartMatchesBookkeeping
    <3>3. x.at = received_bytes /\ x.len = m.len
      BY <2>2 DEF ExtentOf
    <3>4. received_bytes \in Nat
      BY LimitsAssumption DEF ReceiverIInv, ReceiverTypeOK
    <3>5. \A e \in part : e.at \in Nat /\ e.len \in Nat
      BY <1>4, LimitsAssumption DEF Extent
    <3> HIDE DEF x
    <3>6. Covers(part', received_bytes')
      <4>1. \A e \in part' : e.at + e.len <= received_bytes'
        BY <1>1, <1>2, <3>1, <3>2, <3>3, <3>4, <3>5, LimitsAssumption DEF Covers
      <4>2. ASSUME NEW b \in 0 .. received_bytes' - 1
            PROVE  \E e \in part' : e.at <= b /\ b < e.at + e.len
        <5>1. CASE b < received_bytes
          BY <1>1, <3>2, <3>4, <5>1 DEF Covers
        <5>2. CASE received_bytes <= b
          BY <1>1, <1>2, <3>1, <3>3, <3>4, <5>2, LimitsAssumption
        <5> QED BY <1>2, <3>1, <3>4, <5>1, <5>2, LimitsAssumption
      <4>3. \A e, f \in part' : e # f => Apart(e, f)
        BY <1>1, <1>2, <3>2, <3>3, <3>4, <3>5, LimitsAssumption DEF Covers, Apart
      <4> QED BY <4>1, <4>2, <4>3 DEF Covers
    <3> QED BY <1>1, <1>2, <1>4, <3>1, <3>6 DEF PartMatchesBookkeeping
  <2> QED BY <2>1, <2>2
<1> QED BY <1>1, <1>4, <1>5, <1>6
        DEF ReceiverIInv, DestWhole, PhaseInv

(* DONE is accepted only when every chunk was received. *)
LEMMA AcceptDoneStep ==
  ASSUME NEW m \in Message, ReceiverIInv, AcceptDone(m)
  PROVE  ReceiverIInv'
<1>1. ReceiverTypeOK'
  BY DEF ReceiverIInv, ReceiverTypeOK, ReceiverPC, AcceptDone, loopvars,
         diskvars, fixed
<1>2. PartMatchesBookkeeping'
  BY DEF ReceiverIInv, PartMatchesBookkeeping, HoldsReceived, Covers, Exact,
         AcceptDone, loopvars, diskvars, fixed
<1>3. PhaseInv'
  BY DEF ReceiverIInv, PhaseInv, Exact, AcceptDone, Concludes, loopvars,
         diskvars, fixed
<1> QED BY <1>1, <1>2, <1>3
        DEF ReceiverIInv, PhaseInv, DestWhole, AcceptDone, diskvars, fixed

(* flush and sync_all make the part file durable as it stands. *)
LEMMA PersistStep == ReceiverIInv /\ Persist => ReceiverIInv'
<1> SUFFICES ASSUME ReceiverIInv, Persist PROVE ReceiverIInv'
  OBVIOUS
<1>1. ReceiverTypeOK'
  BY DEF ReceiverIInv, ReceiverTypeOK, ReceiverPC, Persist, loopvars, fixed
<1>2. PartMatchesBookkeeping'
  BY DEF ReceiverIInv, PartMatchesBookkeeping, HoldsReceived, Covers, Exact,
         Persist, loopvars, fixed
<1>3. PhaseInv'
  BY DEF ReceiverIInv, PhaseInv, Exact, Persist, loopvars, fixed
<1> QED BY <1>1, <1>2, <1>3
        DEF ReceiverIInv, PhaseInv, DestWhole, Persist, fixed

(* The step that matters: what is renamed covers the whole file. *)
LEMMA RenameStep == ReceiverIInv /\ Rename => ReceiverIInv'
<1> SUFFICES ASSUME ReceiverIInv, Rename PROVE ReceiverIInv'
  OBVIOUS
<1>1. /\ rpc = "renaming" /\ rpc' = "acking" /\ dest' = part /\ part' = NoFile
      /\ UNCHANGED <<loopvars, synced, fixed>>
  BY DEF Rename
<1>2. part \in SUBSET Extent
  BY <1>1 DEF ReceiverIInv, PartMatchesBookkeeping
<1>3. ReceiverTypeOK'
  BY <1>1, <1>2
     DEF ReceiverIInv, ReceiverTypeOK, ReceiverPC, loopvars, fixed, File
<1>4. Covers(part, received_bytes) /\ (Exact => received_bytes = total_bytes)
  <2>1. CASE Exact
    <3>1. /\ received_count = ChunkCount(total_bytes)
          /\ received_bytes = total_bytes
          /\ received_count = Cardinality(received)
          /\ \A i \in received : i < ChunkCount(total_bytes)
          /\ HoldsReceived(part)
          /\ received \in SUBSET Index
          /\ total_bytes \in Nat
      BY <1>1, <2>1 DEF ReceiverIInv, PhaseInv, PartMatchesBookkeeping,
                        ReceiverTypeOK, Exact
    <3>2. ChunkCount(total_bytes) \in Nat
      BY <3>1, ChunkCountBounds
    <3>3. received = 0 .. ChunkCount(total_bytes) - 1
      <4> DEFINE all == 0 .. ChunkCount(total_bytes) - 1
      <4>1. IsFiniteSet(all) /\ Cardinality(all) = ChunkCount(total_bytes)
        <5>1. 0 \in Int /\ ChunkCount(total_bytes) - 1 \in Int
          BY <3>2
        <5> HIDE DEF ChunkCount
        <5> QED BY <3>2, <5>1, FS_Interval
      <4>2. received \in SUBSET all
        BY <3>1, <3>2 DEF Index
      <4> HIDE DEF all
      <4>3. received = all
        BY <3>1, <4>1, <4>2, FS_Subset
      <4> QED BY <4>3 DEF all
    <3>4. \A i \in Nat : i < ChunkCount(total_bytes) => i \in received
      BY <3>2, <3>3
    <3>5. Covers(part, total_bytes)
      <4>1. \A e \in part : \E i \in Nat :
                /\ i < ChunkCount(total_bytes)
                /\ e.at = i * ChunkSize /\ e.len = PlaintextLen(i, total_bytes)
        BY <3>1, <3>2, <3>3 DEF HoldsReceived, Index
      <4>2. \A i \in Nat : i < ChunkCount(total_bytes) => \E e \in part :
                e.at = i * ChunkSize /\ e.len = PlaintextLen(i, total_bytes)
        BY <3>1, <3>4 DEF HoldsReceived
      <4>3. \A e, f \in part : e # f => e.at # f.at
        BY <3>1 DEF HoldsReceived
      <4> QED BY <1>2, <3>1, <4>1, <4>2, <4>3, OneExtentPerChunk
    <3> QED BY <3>1, <3>5
  <2>2. CASE ~Exact
    BY <1>1, <2>2 DEF ReceiverIInv, PartMatchesBookkeeping
  <2> QED BY <2>1, <2>2
<1>5. DestWhole'
  BY <1>1, <1>4 DEF DestWhole, Covers, Exact, loopvars, fixed
<1>6. PhaseInv'
  BY <1>1, <1>2 DEF ReceiverIInv, PhaseInv
<1> QED BY <1>1, <1>3, <1>5, <1>6 DEF ReceiverIInv, PartMatchesBookkeeping

(* Acknowledging changes no file. *)
LEMMA AckStep == ReceiverIInv /\ SendAck => ReceiverIInv'
<1> SUFFICES ASSUME ReceiverIInv, SendAck PROVE ReceiverIInv'
  OBVIOUS
<1>1. ReceiverTypeOK' /\ DestWhole'
  BY DEF ReceiverIInv, ReceiverTypeOK, ReceiverPC, DestWhole, Covers, Exact,
         SendAck, loopvars, diskvars, fixed
<1> QED BY <1>1 DEF ReceiverIInv, PartMatchesBookkeeping, PhaseInv, SendAck,
                    diskvars, fixed

(* After a power failure the disk holds one of the states it may hold. *)
LEMMA PowerLossStep == ReceiverIInv /\ PowerLoss => ReceiverIInv'
<1> SUFFICES ASSUME ReceiverIInv, PowerLoss PROVE ReceiverIInv'
  OBVIOUS
<1>1. /\ rpc' = "halted" /\ UNCHANGED <<loopvars, synced, fixed>>
      /\ dest # previous => synced
  BY DEF ReceiverIInv, PhaseInv, PowerLoss
<1>2. dest' \in {dest, previous}
  BY <1>1 DEF PowerLoss, OnDisk
<1>3. ReceiverTypeOK'
  <2>1. part' \in {NoFile} \cup SUBSET Extent
    <3>1. part \in {NoFile} \cup SUBSET Extent
      BY DEF ReceiverIInv, ReceiverTypeOK
    <3>2. CASE dest = previous
      BY <3>1, <3>2 DEF PowerLoss, OnDisk
    <3>3. CASE dest # previous
      BY <1>1, <3>3 DEF ReceiverIInv, PhaseInv, PowerLoss, OnDisk
    <3> QED BY <3>2, <3>3
  <2> QED BY <1>1, <1>2, <2>1
          DEF ReceiverIInv, ReceiverTypeOK, ReceiverPC, loopvars, fixed, File
<1>4. DestWhole'
  BY <1>1, <1>2 DEF ReceiverIInv, DestWhole, Covers, Exact, loopvars, fixed
<1> QED BY <1>1, <1>2, <1>3, <1>4
        DEF ReceiverIInv, PartMatchesBookkeeping, PhaseInv, fixed

-----------------------------------------------------------------------------
(***************************************************************************)
(* The strengthened invariant holds of every step of run_receiver, of an   *)
(* abort of its task and of a power loss.                                  *)
(***************************************************************************)
LEMMA NextPreserves == ReceiverIInv /\ [Next]_rvars => ReceiverIInv'
<1> SUFFICES ASSUME ReceiverIInv, [Next]_rvars PROVE ReceiverIInv'
  OBVIOUS
<1>1. CASE RefuseSize
  BY <1>1, QuietStep DEF RefuseSize, diskvars
<1>2. CASE OpenPart
  BY <1>2, OpenPartStep
<1>3. CASE OpenFails
  BY <1>3, QuietStep DEF OpenFails
<1>4. ASSUME NEW m \in Message, OnMessage(m)
      PROVE  ReceiverIInv'
  <2>1. CASE AcceptChunk(m)
    BY <2>1, AcceptChunkStep
  <2>2. CASE WriteFails(m)
    BY <2>2, QuietStep DEF WriteFails, LeaveLoop, Cleanup
  <2>3. CASE AcceptDone(m)
    BY <2>3, AcceptDoneStep
  <2>4. CASE RejectMessage(m)
    BY <2>4, QuietStep DEF RejectMessage, LeaveLoop, Cleanup
  <2> QED BY <1>4, <2>1, <2>2, <2>3, <2>4 DEF OnMessage
<1>5. CASE ChannelEnds \/ Stall
  BY <1>5, QuietStep DEF ChannelEnds, Stall, LeaveLoop, Cleanup
<1>6. CASE Persist
  BY <1>6, PersistStep
<1>7. CASE Rename
  BY <1>7, RenameStep
<1>8. CASE PersistFails \/ RenameFails \/ AckFails \/ Abort
  BY <1>8, QuietStep DEF PersistFails, RenameFails, AckFails, Abort, diskvars
<1>9. CASE SendAck
  BY <1>9, AckStep
<1>10. CASE PowerLoss
  BY <1>10, PowerLossStep
<1>11. CASE UNCHANGED rvars
  BY <1>11 DEF rvars, ReceiverIInv, ReceiverTypeOK, PartMatchesBookkeeping,
     HoldsReceived, DestWhole, PhaseInv, Covers, Exact
<1> QED BY <1>1, <1>2, <1>3, <1>4, <1>5, <1>6, <1>7, <1>8, <1>9, <1>10, <1>11
        DEF Next, Steps

(* The inductive invariant of run_receiver always holds. *)
THEOREM ReceiverInvariant == Spec => []ReceiverIInv
<1>1. ReceiverInit => ReceiverIInv
  BY InitEstablishes
<1>2. ReceiverIInv /\ [Next]_rvars => ReceiverIInv'
  BY NextPreserves
<1> QED BY <1>1, <1>2, PTL DEF Spec

(* Types hold, for every value of the constants. *)
THEOREM ReceiverTypes == Spec => []ReceiverTypeOK
<1>1. ReceiverIInv => ReceiverTypeOK
  BY DEF ReceiverIInv
<1> QED BY <1>1, ReceiverInvariant, PTL

(* The part file always agrees with the index set and the counters. *)
THEOREM PartAlwaysMatches == Spec => []PartMatchesBookkeeping
<1>1. ReceiverIInv => PartMatchesBookkeeping
  BY DEF ReceiverIInv
<1> QED BY <1>1, ReceiverInvariant, PTL

(***************************************************************************)
(* No peer, no failure and no loss of power leaves a destination that is   *)
(* neither its former self nor whole.                                      *)
(***************************************************************************)
THEOREM DestinationAlwaysWhole == Spec => []DestWhole
<1>1. ReceiverIInv => DestWhole
  BY DEF ReceiverIInv
<1> QED BY <1>1, ReceiverInvariant, PTL

-----------------------------------------------------------------------------
(* One transfer *)

(* What a file holds is neither no file nor the old one.  A hypothesis of  *)
(* the theorem, not of the module: a model value is no set to TLC.         *)
ContentIsNew == {NoFile, OldFile} \cap SUBSET Extent = {}

-----------------------------------------------------------------------------
(* The inductive invariant *)

(* Where in the source chunk i begins, counted from 0. *)
Begins(i) == IF i < chunks_sent THEN wire[i + 1].body ELSE sent
DoneSent == Len(wire) > chunks_sent

(* The log of the channel is the source cut in pieces, one after another,  *)
(* and at most one DONE after the last, when the source has ended.         *)
WireInv ==
    /\ wire \in Seq(Message) /\ chunks_sent \in 0 .. MaxChunks
    /\ sent \in 0 .. MaxMessageSize /\ source \in Nat \cup {Unstable}
    /\ Len(wire) \in {chunks_sent, chunks_sent + 1}
    /\ Begins(0) = 0
    /\ \A i \in 0 .. chunks_sent - 1 :
           /\ wire[i + 1].kind = "chunk" /\ wire[i + 1].index = i
           /\ Begins(i) + wire[i + 1].len = Begins(i + 1)
    /\ DoneSent => /\ spc \notin {"sending", "ending"}
                   /\ wire[Len(wire)].kind = "done" /\ wire[Len(wire)].bytes = sent
    /\ spc = "sending" /\ source # Unstable => sent <= source
    /\ spc = "ending" \/ DoneSent => (source # Unstable => sent = source)

(* The receiver has written what it took at the place it came from.        *)
InPlace(file) == \A e \in file : e.at = e.body
Loading == rpc \in {"opening", "receiving"}
Concluded == rpc \in {"persisting", "renaming"}
ReadInv ==
    /\ arrived \in 0 .. Len(wire) /\ consumed \in 0 .. arrived
    /\ rpc = "opening" => consumed = 0
    /\ Loading => /\ consumed = received_count /\ consumed <= chunks_sent
                  /\ received_bytes = Begins(consumed)
    /\ rpc = "receiving" /\ Exact /\ consumed < ChunkCount(total_bytes) =>
           received_bytes = consumed * ChunkSize
    /\ rpc = "receiving" \/ Concluded => InPlace(part)
    /\ Concluded \/ dest # previous => DoneSent /\ received_bytes = sent

(* Whoever knows of success knows it of the new file. *)
SavedInv ==
    /\ dest # previous => InPlace(dest)
    /\ rpc \in {"acking", "saved"} \/ ack # "none" \/ spc = "sent" => dest # previous

TransferIInv == ReceiverIInv /\ WireInv /\ ReadInv /\ SavedInv

-----------------------------------------------------------------------------
(* The kinds of steps *)

SenderQuits == spc \in {"sending", "ending", "acking"} /\ SenderFails
NetMoves ==
    /\ UNCHANGED <<svars, wire, rvars, consumed>>
    /\ arrived' = arrived \/ (arrived < Len(wire) /\ arrived' = arrived + 1)
    /\ ack' = ack \/ (ack = "sent" /\ ack' = "arrived")
Takes ==
    /\ consumed < arrived /\ consumed' = consumed + 1
    /\ AcceptChunk(wire[consumed + 1]) \/ AcceptDone(wire[consumed + 1])
    /\ UNCHANGED <<svars, wire, netvars>>
GoesOn ==
    /\ OpenPart \/ Persist \/ Rename
    /\ UNCHANGED <<svars, wire, consumed, netvars>>
ReceiverQuits ==
    /\ rpc \in Running /\ rpc' \in {"failed", "rejected", "aborted"}
    /\ consumed' = consumed \/ (consumed < arrived /\ consumed' = consumed + 1)
    /\ UNCHANGED <<loopvars, dest, synced, fixed, svars, wire, netvars>>

(* Every step is of one of these kinds. *)
LEMMA StepKinds ==
    ASSUME TransferNext
    PROVE  \/ SendChunk \/ SendDone \/ SourceEnds \/ AckReceived \/ SenderQuits
           \/ NetMoves \/ Takes \/ GoesOn \/ ReceiverQuits \/ Acknowledge
<1>1. CASE SenderStep
  <2>1. SenderRefuses \/ SourceTooShort \/ ReadFails \/ SendRefused \/ SendStalls
        \/ AckMissing => SenderQuits
    BY DEF SenderRefuses, SourceTooShort, ReadFails, SendRefused, SendStalls, AckMissing,
       SenderQuits
  <2>2. SenderCloses => NetMoves
    BY DEF SenderCloses, NetMoves
  <2> QED BY <1>1, <2>1, <2>2 DEF SenderStep, SenderProgress
<1>2. CASE Receive
  <2>1. CASE RejectMessage(wire[consumed + 1]) \/ WriteFails(wire[consumed + 1])
    BY <1>2, <2>1 DEF Receive, RejectMessage, WriteFails, LeaveLoop, ReceiverQuits, Running
  <2>2. CASE AcceptChunk(wire[consumed + 1]) \/ AcceptDone(wire[consumed + 1])
    BY <1>2, <2>2 DEF Receive, Takes
  <2> QED BY <1>2, <2>1, <2>2 DEF Receive
<1>3. CASE RecvEnds \/ RecvStalls \/ AckRefused \/ ReceiverAborts
  BY <1>3 DEF RecvEnds, RecvStalls, AckRefused, ReceiverAborts, ChannelEnds, Stall, AckFails,
     Abort, LeaveLoop, Running, diskvars, ReceiverQuits
<1>4. CASE ReceiverLocal
  <2>1. RefuseSize \/ OpenFails \/ PersistFails \/ RenameFails =>
            rpc \in Running /\ rpc' \in {"failed", "rejected", "aborted"}
            /\ UNCHANGED <<loopvars, dest, synced, fixed>>
    BY DEF RefuseSize, OpenFails, PersistFails, RenameFails, Running, diskvars
  <2> QED BY <1>4, <2>1 DEF ReceiverLocal, GoesOn, ReceiverQuits
<1>5. CASE ReceiverCloses \/ ChannelStep
  BY <1>5 DEF ReceiverCloses, ChannelStep, Arrive, AckArrives, LinkDies, SenderSeesClose,
     ReceiverSeesClose, WorkerStops, NetMoves
<1> QED BY <1>1, <1>2, <1>3, <1>4, <1>5 DEF TransferNext, ReceiverStep

-----------------------------------------------------------------------------
(* Preservation *)

(* Everything on its way is a message run_receiver knows.                  *)
LEMMA OnTheWay ==
    ASSUME TransferIInv, consumed < arrived
    PROVE  wire[consumed + 1] \in Message /\ consumed + 1 \in 1 .. Len(wire)
<1>1. consumed + 1 \in 1 .. Len(wire) /\ wire \in Seq(Message)
  BY DEF TransferIInv, WireInv, ReadInv
<1> QED BY <1>1, ElementOfSeq

(* Of run_receiver the transfer takes the steps it takes with any peer.    *)
LEMMA ReceiverKept == ASSUME TransferIInv, TransferNext PROVE ReceiverIInv'
<1>1. ReceiverIInv
  BY DEF TransferIInv
<1> SUFFICES [Next]_rvars
  BY <1>1, NextPreserves
<1>2. CASE SenderStep \/ ReceiverCloses \/ ChannelStep
  BY <1>2 DEF SenderStep, SenderProgress, SendChunk, SenderRefuses, SourceEnds,
     SourceTooShort, SendRefused, SendStalls, SendDone, AckReceived, AckMissing,
     SenderCloses, ReadFails, SenderFails, ReceiverCloses, ChannelStep, Arrive, AckArrives,
     LinkDies, SenderSeesClose, ReceiverSeesClose, WorkerStops
<1>3. CASE Receive
  <2>1. wire[consumed + 1] \in Message
    BY <1>3, OnTheWay DEF Receive
  <2> QED BY <1>3, <2>1 DEF Receive, OnMessage, Next, Steps
<1>4. CASE RecvEnds \/ RecvStalls \/ ReceiverLocal \/ Acknowledge \/ AckRefused
           \/ ReceiverAborts
  BY <1>4 DEF RecvEnds, RecvStalls, ReceiverLocal, Acknowledge, AckRefused, ReceiverAborts,
     Next, Steps
<1> QED BY <1>2, <1>3, <1>4 DEF TransferNext, ReceiverStep

(* Nothing is on the wire at the start. *)
LEMMA TransferInitially == TransferInit => TransferIInv
<1> SUFFICES ASSUME TransferInit PROVE TransferIInv
  OBVIOUS
<1>1. ReceiverIInv
  BY InitEstablishes DEF TransferInit
<1>2. wire = <<>> /\ chunks_sent = 0 /\ sent = 0 /\ spc = "sending" /\ Len(wire) = 0
  BY DEF TransferInit
<1>3. WireInv
  BY <1>2, LimitsAssumption, TransferAssumption
     DEF TransferInit, WireInv, Begins, DoneSent
<1>4. ReadInv
  BY <1>2 DEF TransferInit, ReceiverInit, ReadInv, Loading, Concluded, Begins
<1>5. SavedInv
  BY DEF TransferInit, ReceiverInit, SavedInv
<1> QED BY <1>1, <1>3, <1>4, <1>5 DEF TransferIInv

(* A chunk is sent from where the one before it ended.                     *)
LEMMA ChunkOnWire ==
    ASSUME TransferIInv, SendChunk
    PROVE  /\ WireInv' /\ Len(wire) = chunks_sent /\ ~DoneSent /\ ~DoneSent'
           /\ \A i \in 0 .. chunks_sent : Begins(i)' = Begins(i)
<1>1. PICK n \in NextChunkLens \ {0} :
          Sendable(n) /\ wire' = Append(wire, ChunkOf(n)) /\ sent' = sent + n
  BY DEF SendChunk
<1>2. /\ spc = "sending" /\ chunks_sent' = chunks_sent + 1
      /\ UNCHANGED <<spc, source, rvars>>
  BY DEF SendChunk
<1>3. /\ wire \in Seq(Message) /\ Len(wire) = chunks_sent /\ ~DoneSent
      /\ chunks_sent \in Nat /\ sent \in Nat
  BY <1>2 DEF TransferIInv, WireInv, DoneSent
<1>4. n \in 1 .. ChunkSize /\ (source # Unstable => sent + n <= source)
  <2>1. source \in Nat \cup {Unstable} /\ (source # Unstable => sent <= source)
    BY <1>2 DEF TransferIInv, WireInv
  <2> QED BY <1>1, <1>3, <2>1, LimitsAssumption DEF NextChunkLens
<1>5. /\ chunks_sent' \in 0 .. MaxChunks /\ sent' \in 0 .. MaxMessageSize
      /\ chunks_sent % MaxChunks = chunks_sent /\ chunks_sent \in Index
  <2>1. chunks_sent < MaxChunks /\ sent + n <= MaxMessageSize
    BY <1>1 DEF Sendable
  <2> QED BY <1>1, <1>2, <1>3, <1>4, <2>1, LimitsAssumption DEF Index
<1>6. ChunkOf(n) \in Message
  <2>1. sent \in Payload
    BY TransferAssumption DEF TransferIInv, WireInv
  <2> QED BY <1>4, <1>5, <2>1, LimitsAssumption DEF ChunkOf, Message, ChunkMessage
<1>7. /\ wire' \in Seq(Message) /\ Len(wire') = chunks_sent'
      /\ \A i \in 1 .. chunks_sent : wire'[i] = wire[i]
      /\ wire'[chunks_sent'] = ChunkOf(n)
  BY <1>1, <1>2, <1>3, <1>6, AppendProperties
(* The number of chunks as a constant: a primed argument would be primed.  *)
<1>8. PICK c \in Nat : c = chunks_sent
  BY <1>3
<1>9. \A i \in 0 .. c : Begins(i)' = Begins(i)
  <2>1. ASSUME NEW i \in 0 .. c, i < c
        PROVE  Begins(i)' = Begins(i)
    BY <1>2, <1>3, <1>7, <1>8, <2>1 DEF Begins
  <2>2. Begins(c)' = Begins(c)
    <3>1. Begins(c) = sent
      BY <1>8 DEF Begins
    <3>2. wire'[c + 1].body = sent
      BY <1>2, <1>7, <1>8 DEF ChunkOf
    <3>3. c < chunks_sent'
      BY <1>2, <1>8
    <3> QED BY <3>1, <3>2, <3>3 DEF Begins
  <2> QED BY <2>1, <2>2
<1>10. Begins(c + 1)' = sent + n
  BY <1>1, <1>2, <1>8 DEF Begins
<1>11. ASSUME NEW i \in 0 .. chunks_sent' - 1
       PROVE  /\ wire'[i + 1].kind = "chunk" /\ wire'[i + 1].index = i
              /\ Begins(i)' + wire'[i + 1].len = Begins(i + 1)'
  <2>1. CASE i < c
    <3>1. i \in 0 .. chunks_sent - 1 /\ i + 1 \in 0 .. c /\ i \in 0 .. c
          /\ i + 1 \in 1 .. chunks_sent
      BY <1>2, <1>8, <2>1
    <3>2. wire'[i + 1] = wire[i + 1]
      BY <1>7, <3>1
    <3>3. Begins(i)' = Begins(i) /\ Begins(i + 1)' = Begins(i + 1)
      BY <1>9, <3>1
    <3>4. /\ wire[i + 1].kind = "chunk" /\ wire[i + 1].index = i
          /\ Begins(i) + wire[i + 1].len = Begins(i + 1)
      BY <3>1 DEF TransferIInv, WireInv
    <3> QED BY <3>2, <3>3, <3>4
  <2>2. CASE i = c
    <3>1. Begins(i)' = sent /\ Begins(i + 1)' = sent + n
      BY <1>9, <1>10, <1>8, <2>2 DEF Begins
    <3>2. wire'[i + 1] = ChunkOf(n)
      BY <1>2, <1>7, <1>8, <2>2
    <3>3. ChunkOf(n).kind = "chunk" /\ ChunkOf(n).index = i /\ ChunkOf(n).len = n
      BY <1>5, <1>8, <2>2 DEF ChunkOf
    <3> QED BY <3>1, <3>2, <3>3
  <2> QED BY <1>2, <1>8, <2>1, <2>2
<1>12. ~DoneSent' /\ Begins(0)' = 0
  <2>1. Begins(0) = 0 /\ 0 \in 0 .. c
    BY <1>8 DEF TransferIInv, WireInv
  <2> QED BY <1>2, <1>3, <1>7, <1>9, <2>1 DEF DoneSent
<1>13. source' \in Nat \cup {Unstable} /\ (source' # Unstable => sent' <= source')
  BY <1>1, <1>2, <1>4 DEF TransferIInv, WireInv
<1>14. WireInv'
  BY <1>2, <1>5, <1>7, <1>11, <1>12, <1>13 DEF WireInv
<1> QED BY <1>3, <1>9, <1>12, <1>14, <1>8

(* DONE is sent once, after the last chunk. *)
LEMMA DoneOnWire ==
    ASSUME TransferIInv, SendDone
    PROVE  /\ WireInv' /\ Len(wire) = chunks_sent /\ ~DoneSent
           /\ \A i \in 0 .. chunks_sent : Begins(i)' = Begins(i)
<1> DEFINE done == [kind |-> "done", chunks |-> chunks_sent, bytes |-> sent]
<1>1. /\ spc = "ending" /\ spc' = "acking" /\ wire' = Append(wire, done)
      /\ UNCHANGED <<source, chunks_sent, sent>>
  BY DEF SendDone
<1>2. /\ wire \in Seq(Message) /\ Len(wire) = chunks_sent /\ ~DoneSent
      /\ chunks_sent \in 0 .. MaxChunks /\ chunks_sent \in Nat /\ sent \in 0 .. MaxMessageSize
      /\ source # Unstable => sent = source
  BY <1>1, LimitsAssumption DEF TransferIInv, WireInv, DoneSent
<1>3. done \in Message /\ done.kind = "done" /\ done.bytes = sent
  BY <1>2, LimitsAssumption DEF Message, DoneMessage
<1> HIDE DEF done
<1>4. /\ wire' \in Seq(Message) /\ Len(wire') = chunks_sent + 1
      /\ \A i \in 1 .. chunks_sent : wire'[i] = wire[i]
      /\ wire'[Len(wire')] = done
  BY <1>1, <1>2, <1>3, AppendProperties
<1>5. ASSUME NEW i \in 0 .. chunks_sent PROVE Begins(i)' = Begins(i)
  BY <1>1, <1>2, <1>4 DEF Begins
<1>6. ASSUME NEW i \in 0 .. chunks_sent - 1
      PROVE  /\ wire'[i + 1].kind = "chunk" /\ wire'[i + 1].index = i
             /\ Begins(i)' + wire'[i + 1].len = Begins(i + 1)'
  <2>1. i + 1 \in 1 .. chunks_sent /\ i \in 0 .. chunks_sent /\ i + 1 \in 0 .. chunks_sent
    BY <1>2
  <2>2. /\ wire[i + 1].kind = "chunk" /\ wire[i + 1].index = i
        /\ Begins(i) + wire[i + 1].len = Begins(i + 1)
    BY DEF TransferIInv, WireInv
  <2> QED BY <1>4, <1>5, <2>1, <2>2
<1>7. Begins(0)' = 0
  <2>1. Begins(0) = 0 /\ 0 \in 0 .. chunks_sent
    BY <1>2 DEF TransferIInv, WireInv
  <2> QED BY <1>5, <2>1
<1>8. DoneSent' /\ source' \in Nat \cup {Unstable}
  BY <1>1, <1>2, <1>4 DEF DoneSent, TransferIInv, WireInv
<1>9. WireInv'
  BY <1>1, <1>2, <1>3, <1>4, <1>6, <1>7, <1>8 DEF WireInv
<1> QED BY <1>2, <1>5, <1>9

(* What leaves the wire alone keeps it in order. *)
LEMMA WireAlone ==
    ASSUME WireInv, UNCHANGED <<source, chunks_sent, sent, wire>>,
           \/ spc' = spc
           \/ spc' \in {"sent", "failed"}
           \/ spc' = "ending" /\ ~DoneSent /\ (source # Unstable => sent = source)
    PROVE  WireInv'
BY DEF WireInv, Begins, DoneSent

(* The kinds of steps but the two that send. *)
LEMMA WireKept == ASSUME TransferIInv, TransferNext PROVE WireInv'
<1>1. CASE SendChunk
  BY <1>1, ChunkOnWire
<1>2. CASE SendDone
  BY <1>2, DoneOnWire
<1>3. CASE SourceEnds
  <2>1. /\ UNCHANGED <<source, chunks_sent, sent, wire>> /\ spc = "sending"
        /\ spc' = "ending" /\ 0 \in NextChunkLens
    BY <1>3 DEF SourceEnds
  <2>2. source \in Nat \cup {Unstable} /\ sent \in Nat /\ ~DoneSent
        /\ (source # Unstable => sent <= source)
    BY <2>1, LimitsAssumption DEF TransferIInv, WireInv
  <2>3. source # Unstable => sent = source
    BY <2>1, <2>2, LimitsAssumption DEF NextChunkLens
  <2> QED BY <2>1, <2>2, <2>3, WireAlone DEF TransferIInv
<1>4. CASE AckReceived \/ SenderQuits
  BY <1>4, WireAlone DEF AckReceived, SenderQuits, SenderFails, TransferIInv
<1>5. CASE NetMoves \/ Takes \/ GoesOn \/ ReceiverQuits \/ Acknowledge
  BY <1>5, WireAlone DEF NetMoves, Takes, GoesOn, ReceiverQuits, Acknowledge, svars,
     TransferIInv
<1> QED BY <1>1, <1>2, <1>3, <1>4, <1>5, StepKinds

(* More on the wire does not concern a receiver that has not got there.    *)
LEMMA ReadAsBefore ==
    ASSUME TransferIInv, UNCHANGED <<rvars, consumed>>, UNCHANGED arrived,
           SendChunk \/ SendDone
    PROVE  ReadInv'
<1>1. /\ Len(wire) = chunks_sent /\ ~DoneSent
      /\ \A i \in 0 .. chunks_sent : Begins(i)' = Begins(i)
  BY ChunkOnWire, DoneOnWire
<1>2. /\ chunks_sent \in Nat /\ arrived \in 0 .. Len(wire) /\ consumed \in 0 .. arrived
      /\ consumed \in 0 .. chunks_sent
  BY <1>1, LimitsAssumption DEF TransferIInv, WireInv, ReadInv
<1>3. Begins(consumed)' = Begins(consumed)
  <2>1. PICK c \in 0 .. chunks_sent : c = consumed
    BY <1>2
  <2>2. Begins(c)' = Begins(c) /\ consumed' = c
    BY <1>1, <2>1
  <2> QED BY <2>1, <2>2 DEF Begins
<1>4. chunks_sent' >= chunks_sent /\ Len(wire') >= Len(wire)
  BY <1>1, <1>2, LimitsAssumption DEF SendChunk, SendDone, TransferIInv, WireInv
<1>5. ~Concluded /\ dest = previous
  BY <1>1 DEF TransferIInv, ReadInv
<1>6. /\ arrived' \in 0 .. Len(wire') /\ consumed' \in 0 .. arrived'
      /\ consumed' <= chunks_sent'
  BY <1>2, <1>4 DEF SendChunk, SendDone
<1> QED BY <1>2, <1>3, <1>5, <1>6
        DEF TransferIInv, ReadInv, rvars, Loading, Concluded, Exact, InPlace

(* A message is taken in turn, and what it holds is written at its place.  *)
LEMMA TakenInTurn == ASSUME TransferIInv, Takes PROVE ReadInv' /\ SavedInv'
<1> DEFINE m == wire[consumed + 1]
<1>1. /\ rpc = "receiving" /\ consumed < arrived /\ consumed' = consumed + 1
      /\ AcceptChunk(m) \/ AcceptDone(m)
      /\ UNCHANGED <<spc, source, chunks_sent, sent, wire, arrived, ack, dest, total_bytes,
                     previous>>
  BY DEF Takes, AcceptChunk, AcceptDone, svars, netvars, diskvars, fixed
<1>2. /\ chunks_sent \in Nat /\ arrived \in 0 .. Len(wire) /\ consumed \in 0 .. arrived
      /\ Len(wire) \in Nat /\ consumed = received_count /\ consumed <= chunks_sent
      /\ received_bytes = Begins(consumed) /\ InPlace(part)
  BY <1>1, LimitsAssumption DEF TransferIInv, WireInv, ReadInv, Loading
<1>3. \A i \in Nat : Begins(i)' = Begins(i)
  BY <1>1 DEF Begins
<1>4. consumed' \in 0 .. arrived' /\ arrived' \in 0 .. Len(wire')
  BY <1>1, <1>2
<1>5. CASE AcceptChunk(m)
  <2>1. /\ Acceptable(m) /\ rpc' = "receiving" /\ part' = part \cup {ExtentOf(m)}
        /\ received_count' = received_count + 1
        /\ received_bytes' = received_bytes + m.len
    BY <1>5 DEF AcceptChunk
  <2>2. consumed < chunks_sent
    <3>1. SUFFICES ASSUME consumed = chunks_sent PROVE FALSE
      BY <1>2
    <3>2. DoneSent /\ consumed + 1 = Len(wire)
      BY <1>1, <1>2, <3>1 DEF DoneSent, TransferIInv, WireInv
    <3>3. m.kind = "done"
      BY <3>2 DEF TransferIInv, WireInv
    <3> QED BY <2>1, <3>3 DEF Acceptable
  <2>3. m.index = consumed /\ Begins(consumed) + m.len = Begins(consumed + 1)
        /\ Begins(consumed) = m.body
    <3>1. consumed \in 0 .. chunks_sent - 1
      BY <1>2, <2>2
    <3> QED BY <2>2, <3>1 DEF TransferIInv, WireInv, Begins
  <2>4. received_bytes' = Begins(consumed)' /\ consumed' = received_count'
        /\ consumed' <= chunks_sent'
    <3>1. PICK k \in Nat : k = consumed + 1
      BY <1>2
    <3>2. Begins(k)' = Begins(k) /\ received_bytes' = Begins(k)
      BY <1>2, <1>3, <2>1, <2>3, <3>1
    <3>3. Begins(k)' = received_bytes' /\ consumed' = k
      BY <1>1, <3>1, <3>2
    <3>4. consumed' = received_count' /\ consumed' <= chunks_sent'
      BY <1>1, <1>2, <2>1, <2>2
    <3> QED BY <1>1, <3>3, <3>4 DEF Begins
  <2>5. ASSUME Exact
        PROVE  /\ consumed < ChunkCount(total_bytes) /\ received_bytes = consumed * ChunkSize
               /\ m.len = PlaintextLen(consumed, total_bytes)
    <3>1. consumed < ChunkCount(total_bytes) /\ m.len = PlaintextLen(consumed, total_bytes)
      BY <2>1, <2>3, <2>5 DEF Acceptable, ExpectedLen
    <3> QED BY <1>1, <2>5, <3>1 DEF TransferIInv, ReadInv
  <2>6. InPlace(part')
    <3>1. ExtentOf(m).at = received_bytes
      BY <2>3, <2>5 DEF ExtentOf
    <3>2. ExtentOf(m).body = m.body
      BY DEF ExtentOf
    <3> QED BY <1>2, <2>1, <2>3, <3>1, <3>2 DEF InPlace
  <2>7. ASSUME Exact, consumed + 1 < ChunkCount(total_bytes)
        PROVE  received_bytes' = (consumed + 1) * ChunkSize
    <3>1. total_bytes \in Nat
      BY <2>7 DEF TransferIInv, ReceiverIInv, ReceiverTypeOK, Exact
    <3>2. consumed \in Nat /\ consumed < ChunkCount(total_bytes)
      BY <1>2, <2>5, <2>7
    <3>3. (consumed + 1) * ChunkSize < total_bytes
      BY <2>7, <3>1, <3>2, ChunkCountBounds
    <3>4. (consumed + 1) * ChunkSize = consumed * ChunkSize + ChunkSize
          /\ consumed * ChunkSize \in Nat
      BY <3>2, LimitsAssumption
    <3>5. PlaintextLen(consumed, total_bytes) = ChunkSize
      BY <3>1, <3>2, <3>3, <3>4, PlaintextLenBounds, LimitsAssumption
    <3> QED BY <2>1, <2>5, <2>7, <3>4, <3>5
  <2>8. dest = previous /\ ~Concluded' /\ dest' = previous'
    BY <1>1, <2>1, <2>2, <2>4 DEF TransferIInv, ReadInv, Concluded, ReceiverIInv, PhaseInv
  <2>9. ReadInv'
    <3>1. rpc' = "receiving" /\ Exact' = Exact /\ total_bytes' = total_bytes
      BY <1>1, <2>1 DEF Exact
    <3>2. Exact /\ consumed' < ChunkCount(total_bytes) =>
              received_bytes' = consumed' * ChunkSize
      BY <1>1, <2>7
    <3> QED BY <1>4, <2>4, <2>6, <2>8, <3>1, <3>2 DEF ReadInv, InPlace, Loading, ChunkCount
  <2> QED BY <1>1, <2>1, <2>8, <2>9 DEF TransferIInv, SavedInv
<1>6. CASE AcceptDone(m)
  <2>1. /\ Concludes(m) /\ rpc' = "persisting" /\ part' = part
        /\ received_bytes' = received_bytes
    BY <1>6 DEF AcceptDone, loopvars, diskvars
  <2>2. consumed = chunks_sent
    <3>1. SUFFICES ASSUME consumed < chunks_sent PROVE FALSE
      BY <1>2
    <3>2. m.kind = "chunk"
      BY <1>2, <3>1 DEF TransferIInv, WireInv
    <3> QED BY <2>1, <3>2 DEF Concludes
  <2>3. DoneSent /\ consumed + 1 = Len(wire)
    BY <1>1, <1>2, <2>2 DEF DoneSent, TransferIInv, WireInv
  <2>4. received_bytes = sent
    BY <2>1, <2>3 DEF TransferIInv, WireInv, Concludes
  <2>5. ReadInv'
    BY <1>1, <1>2, <1>4, <2>1, <2>3, <2>4
       DEF ReadInv, Loading, Concluded, DoneSent, InPlace
  <2> QED BY <1>1, <2>1, <2>5 DEF TransferIInv, SavedInv
<1> QED BY <1>1, <1>5, <1>6

(* The receiver's own steps read nothing.  What it renames is new content. *)
LEMMA GoesOnInTurn ==
    ASSUME ContentIsNew, TransferIInv, GoesOn
    PROVE  ReadInv' /\ SavedInv'
<1>1. /\ UNCHANGED <<loopvars, fixed, svars, wire, consumed, netvars>>
      /\ OpenPart \/ Persist \/ Rename
  BY DEF GoesOn, OpenPart, Persist, Rename
<1>2. UNCHANGED <<received_count, received_bytes, total_bytes, previous, spc, source,
                  chunks_sent, sent, wire, consumed, arrived, ack>>
  BY <1>1 DEF loopvars, fixed, svars, netvars
<1>3. /\ arrived' \in 0 .. Len(wire') /\ consumed' \in 0 .. arrived'
      /\ Begins(consumed)' = Begins(consumed) /\ (Exact <=> Exact') /\ (DoneSent <=> DoneSent')
  BY <1>2 DEF TransferIInv, ReadInv, Begins, Exact, DoneSent
<1>4. CASE OpenPart
  <2>1. rpc = "opening" /\ rpc' = "receiving" /\ part' = {} /\ dest' = dest
    BY <1>4 DEF OpenPart
  <2>2. consumed = 0 /\ received_bytes = 0 /\ dest = previous
    BY <2>1 DEF TransferIInv, ReadInv, ReceiverIInv, PhaseInv
  <2>3. received_bytes = consumed * ChunkSize
    BY <2>2, LimitsAssumption
  <2> QED BY <1>2, <1>3, <2>1, <2>2, <2>3
          DEF TransferIInv, ReadInv, SavedInv, Loading, Concluded, InPlace
<1>5. CASE Persist
  BY <1>2, <1>3, <1>5 DEF Persist, TransferIInv, ReadInv, SavedInv, Loading, Concluded, InPlace
<1>6. CASE Rename
  <2>1. rpc = "renaming" /\ rpc' = "acking" /\ dest' = part
    BY <1>6 DEF Rename
  <2>2. part \in SUBSET Extent /\ previous \in {NoFile, OldFile}
    BY <2>1 DEF TransferIInv, ReceiverIInv, PartMatchesBookkeeping, ReceiverTypeOK
  <2>3. dest' # previous'
    BY <1>2, <2>1, <2>2 DEF ContentIsNew
  <2>4. DoneSent /\ received_bytes = sent /\ InPlace(part)
    BY <2>1 DEF TransferIInv, ReadInv, Concluded
  <2> QED BY <1>2, <1>3, <2>1, <2>3, <2>4 DEF ReadInv, SavedInv, Loading, Concluded, InPlace
<1> QED BY <1>1, <1>4, <1>5, <1>6

(* A step of sender or channel after the last message, and the end of the  *)
(* receiver, write nothing.                                                *)
LEMMA OthersInTurn ==
    ASSUME TransferIInv,
           SourceEnds \/ AckReceived \/ SenderQuits \/ NetMoves \/ ReceiverQuits \/ Acknowledge
    PROVE  ReadInv' /\ SavedInv'
<1>1. /\ UNCHANGED <<received_count, received_bytes, total_bytes, previous, dest,
                     chunks_sent, sent, wire>>
      /\ arrived' = arrived \/ (arrived < Len(wire) /\ arrived' = arrived + 1)
      /\ \/ UNCHANGED <<rpc, part, consumed>>
         \/ rpc = "acking" /\ rpc' = "saved" /\ consumed' = consumed
         \/ /\ rpc' \in {"failed", "rejected", "aborted"} /\ arrived' = arrived
            /\ consumed' = consumed \/ (consumed < arrived /\ consumed' = consumed + 1)
  <2>1. CASE SourceEnds \/ AckReceived \/ SenderQuits
    BY <2>1 DEF SourceEnds, AckReceived, SenderQuits, SenderFails, rvars, netvars
  <2>2. CASE NetMoves
    BY <2>2 DEF NetMoves, rvars, svars
  <2>3. CASE ReceiverQuits
    BY <2>3 DEF ReceiverQuits, loopvars, fixed, svars, netvars
  <2>4. CASE Acknowledge
    BY <2>4 DEF Acknowledge, SendAck, loopvars, diskvars, fixed, svars
  <2> QED BY <2>1, <2>2, <2>3, <2>4
<1>2. \/ ack' = ack
      \/ ack # "none"
      \/ rpc = "acking"
  BY DEF SourceEnds, AckReceived, SenderQuits, SenderFails, NetMoves, ReceiverQuits,
     Acknowledge, SendAck, netvars
<1>3. spc' = "sent" => spc = "sent" \/ ack # "none"
  BY DEF SourceEnds, AckReceived, SenderQuits, SenderFails, NetMoves, ReceiverQuits, svars,
     Acknowledge
<1>4. arrived \in 0 .. Len(wire) /\ consumed \in 0 .. arrived /\ Len(wire) \in Nat
  BY DEF TransferIInv, ReadInv, WireInv
<1>5. arrived' \in 0 .. Len(wire') /\ consumed' \in 0 .. arrived'
  BY <1>1, <1>4
<1>6. (Exact <=> Exact') /\ (DoneSent <=> DoneSent')
      /\ (consumed' = consumed => Begins(consumed)' = Begins(consumed))
  BY <1>1 DEF Exact, DoneSent, Begins
<1>7. ReadInv'
  BY <1>1, <1>5, <1>6 DEF TransferIInv, ReadInv, Loading, Concluded, InPlace
<1>8. SavedInv'
  BY <1>1, <1>2, <1>3 DEF TransferIInv, SavedInv, InPlace
<1> QED BY <1>7, <1>8

(* The invariant is inductive. *)
LEMMA TransferKept ==
    ASSUME ContentIsNew
    PROVE  TransferIInv /\ [TransferNext]_<<vars, faults>> => TransferIInv'
<1>1. ASSUME TransferIInv, TransferNext PROVE TransferIInv'
  <2>1. ReceiverIInv' /\ WireInv'
    BY <1>1, ReceiverKept, WireKept
  <2>2. ReadInv' /\ SavedInv'
    <3>1. CASE SendChunk \/ SendDone
      <4>1. UNCHANGED <<rvars, consumed>> /\ UNCHANGED <<arrived, ack>> /\ spc' # "sent"
        BY <3>1 DEF SendChunk, SendDone, netvars
      <4>2. ReadInv'
        BY <1>1, <3>1, <4>1, ReadAsBefore
      <4> QED BY <1>1, <4>1, <4>2 DEF TransferIInv, SavedInv, rvars, InPlace
    <3>2. CASE Takes
      BY <1>1, <3>2, TakenInTurn
    <3>3. CASE GoesOn
      BY <1>1, <3>3, GoesOnInTurn
    <3>4. CASE SourceEnds \/ AckReceived \/ SenderQuits \/ NetMoves \/ ReceiverQuits
               \/ Acknowledge
      BY <1>1, <3>4, OthersInTurn
    <3> QED BY <1>1, <3>1, <3>2, <3>3, <3>4, StepKinds
  <2> QED BY <2>1, <2>2 DEF TransferIInv
<1>2. ASSUME TransferIInv, UNCHANGED <<vars, faults>> PROVE TransferIInv'
  <2>1. UNCHANGED rvars /\ UNCHANGED <<svars, wire, consumed, netvars>>
    BY <1>2 DEF vars
  <2>2. ReceiverIInv'
    BY <1>2, <2>1, NextPreserves DEF TransferIInv
  <2>3. WireInv'
    BY <1>2, <2>1, WireAlone DEF TransferIInv, svars
  <2>4. NetMoves
    BY <2>1 DEF NetMoves, netvars
  <2> QED BY <1>2, <2>2, <2>3, <2>4, OthersInTurn DEF TransferIInv
<1> QED BY <1>1, <1>2

-----------------------------------------------------------------------------
(* The promise *)

(* What is put in place is the source. *)
LEMMA PlacedIsSource ==
    ASSUME TransferIInv, dest # previous
    PROVE  IsSource(dest) /\ synced
<1>1. Covers(dest, received_bytes) /\ synced /\ received_bytes = sent /\ DoneSent
      /\ InPlace(dest)
  BY DEF TransferIInv, ReceiverIInv, DestWhole, PhaseInv, ReadInv, SavedInv
<1>2. source # Unstable => sent = source
  BY <1>1 DEF TransferIInv, WireInv
<1> QED BY <1>1, <1>2 DEF IsSource, InPlace

(* What the promise sees of a transfer: abbreviations of its mapping. *)
ToldFile == IF dest = previous THEN "previous"
            ELSE IF IsSource(dest) /\ synced THEN "source" ELSE "damaged"
ToldSender == CASE spc = "sent" -> "success"
                [] spc = "failed" -> "error"
                [] OTHER -> "busy"
ToldReceiver == CASE rpc = "saved" -> "success"
                  [] rpc \in {"failed", "rejected", "aborted"} -> "error"
                  [] OTHER -> "busy"

(* Their values in the states of a transfer. *)
LEMMA Told ==
    ASSUME TransferIInv
    PROVE  /\ ToldFile = IF dest = previous THEN "previous" ELSE "source"
           /\ spc = "sent" => ToldSender = "success"
           /\ spc = "failed" => ToldSender = "error"
           /\ spc \notin {"sent", "failed"} => ToldSender = "busy"
           /\ rpc = "saved" => ToldReceiver = "success"
           /\ rpc \in {"failed", "rejected", "aborted"} => ToldReceiver = "error"
           /\ rpc \notin {"saved", "failed", "rejected", "aborted"} => ToldReceiver = "busy"
<1>1. ToldFile = IF dest = previous THEN "previous" ELSE "source"
  BY PlacedIsSource DEF ToldFile
<1>2. /\ spc = "sent" => ToldSender = "success"
      /\ spc = "failed" => ToldSender = "error"
      /\ spc \notin {"sent", "failed"} => ToldSender = "busy"
  BY DEF ToldSender
<1>3. /\ rpc = "saved" => ToldReceiver = "success"
      /\ rpc \in {"failed", "rejected", "aborted"} => ToldReceiver = "error"
      /\ rpc \notin {"saved", "failed", "rejected", "aborted"} => ToldReceiver = "busy"
  BY DEF ToldReceiver
<1> QED BY <1>1, <1>2, <1>3

(* Every step puts the file in place, is one side's report, or is none of  *)
(* the users' business.                                                    *)
LEMMA StepTold ==
    ASSUME TransferIInv, TransferIInv', [TransferNext]_<<vars, faults>>, ContentIsNew
    PROVE  \/ UNCHANGED <<ToldFile, ToldSender, ToldReceiver>>
           \/ /\ ToldFile = "previous" /\ ToldReceiver = "busy" /\ ToldFile' = "source"
              /\ UNCHANGED <<ToldSender, ToldReceiver>>
           \/ /\ ToldReceiver = "busy"
              /\ \/ ToldReceiver' = "success" /\ ToldFile = "source"
                 \/ ToldReceiver' = "error"
              /\ UNCHANGED <<ToldFile, ToldSender>>
           \/ /\ ToldSender = "busy"
              /\ \/ ToldSender' = "success" /\ ToldFile = "source"
                 \/ ToldSender' = "error"
              /\ UNCHANGED <<ToldFile, ToldReceiver>>
<1>1. /\ ToldFile = IF dest = previous THEN "previous" ELSE "source"
      /\ ToldFile' = IF dest' = previous' THEN "previous" ELSE "source"
  <2>1. (ToldFile = IF dest = previous THEN "previous" ELSE "source")'
    BY Told, PTL
  <2> QED BY <2>1, Told
<1>2. spc' = spc => ToldSender' = ToldSender
  BY DEF ToldSender
<1>3. rpc' = rpc => ToldReceiver' = ToldReceiver
  BY DEF ToldReceiver
<1>4. dest' = dest /\ previous' = previous => ToldFile' = ToldFile
  BY <1>1
<1>5. rpc \in Running => ToldReceiver = "busy"
  BY Told DEF Running
<1>6. rpc' \in Running => ToldReceiver' = "busy"
  BY DEF ToldReceiver, Running
<1>7. CASE SendChunk \/ SendDone \/ SourceEnds
  <2>1. UNCHANGED <<rpc, dest, previous>> /\ spc \notin {"sent", "failed"}
        /\ spc' \notin {"sent", "failed"}
    BY <1>7 DEF SendChunk, SendDone, SourceEnds, rvars
  <2>2. ToldSender = "busy" /\ ToldSender' = "busy"
    BY <2>1 DEF ToldSender
  <2> QED BY <1>3, <1>4, <2>1, <2>2
<1>8. CASE AckReceived \/ SenderQuits
  <2>1. /\ UNCHANGED <<rpc, dest, previous>> /\ spc \notin {"sent", "failed"}
        /\ spc' = "failed" \/ (spc' = "sent" /\ dest # previous)
    BY <1>8 DEF AckReceived, SenderQuits, SenderFails, rvars, TransferIInv, SavedInv
  <2>2. /\ ToldSender = "busy"
        /\ spc' = "failed" => ToldSender' = "error"
        /\ spc' = "sent" => ToldSender' = "success"
    BY <2>1 DEF ToldSender
  <2> QED BY <1>1, <1>3, <1>4, <2>1, <2>2
<1>9. CASE NetMoves \/ Takes \/ UNCHANGED <<vars, faults>>
  <2>1. UNCHANGED <<dest, previous, spc>>
        /\ (rpc' = rpc \/ (rpc \in Running /\ rpc' \in Running))
    BY <1>9 DEF NetMoves, Takes, AcceptChunk, AcceptDone, svars, rvars, vars, diskvars, fixed,
       Running
  <2> QED BY <1>2, <1>3, <1>4, <1>5, <1>6, <2>1
<1>10. CASE GoesOn
  <2>1. /\ rpc \in Running /\ rpc' \in Running /\ UNCHANGED <<previous, spc>>
        /\ dest' = dest \/ (dest = previous /\ dest' # previous)
    <3>1. CASE OpenPart \/ Persist
      BY <1>10, <3>1 DEF GoesOn, OpenPart, Persist, fixed, svars, Running
    <3>2. CASE Rename
      <4>1. dest = previous /\ rpc = "renaming" /\ rpc' = "acking"
        BY <3>2 DEF Rename, TransferIInv, ReceiverIInv, PhaseInv
      <4>2. dest' # previous' /\ previous' = previous /\ spc' = spc
        BY <1>10, <3>2, <4>1 DEF GoesOn, Rename, fixed, svars, TransferIInv, SavedInv
      <4> QED BY <4>1, <4>2 DEF Running
    <3> QED BY <1>10, <3>1, <3>2 DEF GoesOn
  <2> QED BY <1>1, <1>2, <1>4, <1>5, <1>6, <2>1
<1>11. CASE ReceiverQuits \/ Acknowledge
  <2>1. /\ rpc \in Running /\ UNCHANGED <<dest, previous, spc>>
        /\ \/ rpc' \in {"failed", "rejected", "aborted"}
           \/ rpc' = "saved" /\ dest # previous
    BY <1>11 DEF ReceiverQuits, Acknowledge, SendAck, Running, diskvars, fixed, svars,
       TransferIInv, SavedInv
  <2>2. /\ rpc' \in {"failed", "rejected", "aborted"} => ToldReceiver' = "error"
        /\ rpc' = "saved" => ToldReceiver' = "success"
    BY DEF ToldReceiver
  <2> QED BY <1>1, <1>2, <1>4, <1>5, <2>1, <2>2
<1> QED BY <1>7, <1>8, <1>9, <1>10, <1>11, StepKinds

(***************************************************************************)
(* KeepsPromise: whatever fails on the way, the destination changes once,  *)
(* to the whole source, and no side reports a success before it has.       *)
(***************************************************************************)
THEOREM TransferKeepsPromise ==
    ASSUME ContentIsNew
    PROVE  TransferSpec => KeepsPromise
<1>1. TransferInit => Promise!Init
  BY DEF TransferInit, ReceiverInit, Promise!Init
<1>2. TransferIInv /\ TransferIInv' /\ [TransferNext]_<<vars, faults>>
      => [Promise!Next]_(Promise!pvars)
  <2> SUFFICES ASSUME TransferIInv, TransferIInv', [TransferNext]_<<vars, faults>>
               PROVE  [Promise!Next]_(Promise!pvars)
    OBVIOUS
  <2>1. \/ UNCHANGED <<ToldFile, ToldSender, ToldReceiver>>
        \/ /\ ToldFile = "previous" /\ ToldReceiver = "busy" /\ ToldFile' = "source"
           /\ UNCHANGED <<ToldSender, ToldReceiver>>
        \/ /\ ToldReceiver = "busy"
           /\ \/ ToldReceiver' = "success" /\ ToldFile = "source"
              \/ ToldReceiver' = "error"
           /\ UNCHANGED <<ToldFile, ToldSender>>
        \/ /\ ToldSender = "busy"
           /\ \/ ToldSender' = "success" /\ ToldFile = "source"
              \/ ToldSender' = "error"
           /\ UNCHANGED <<ToldFile, ToldReceiver>>
    BY StepTold
  <2> QED BY <2>1 DEF Promise!Next, Promise!pvars, Promise!PutInPlace,
             Promise!ReceiverReports, Promise!SenderReports, ToldFile, ToldSender, ToldReceiver
<1>3. TransferIInv /\ [TransferNext]_<<vars, faults>> => TransferIInv'
  BY TransferKept
<1> QED BY <1>1, <1>2, <1>3, TransferInitially, PTL
        DEF TransferSpec, KeepsPromise, Promise!Spec
=============================================================================
