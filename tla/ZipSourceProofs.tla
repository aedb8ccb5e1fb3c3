---------------------------- MODULE ZipSourceProofs ----------------------------
(***************************************************************************)
(* Proofs about ZipSource: what the transfer reads of an archive is all of *)
(* the archive, the archive is all of the plan, and the plan is all of the *)
(* selection.                                                              *)
(***************************************************************************)
EXTENDS ZipSource, FiniteSetTheorems, SequenceTheorems, WellFoundedInduction, TLAPS

-----------------------------------------------------------------------------
(* Induction, and sums of lengths *)

(* A set of natural numbers has a least element. *)
LEMMA Least ==
  ASSUME NEW N \in SUBSET Nat, N # {}
  PROVE  \E m \in N : \A k \in N : m <= k
<1> DEFINE R == OpToRel(<, Nat)
<1>1. IsWellFoundedOn(R, Nat)
  BY NatLessThanWellFounded
<1>2. \A x, y \in Nat : <<x, y>> \in R <=> x < y
  BY DEF OpToRel
<1> HIDE DEF R
<1>3. PICK m \in N : \A k \in N : <<k, m>> \notin R
  BY <1>1, WFMin
<1>4. ASSUME NEW k \in N PROVE m <= k
  <2>1. k \in Nat /\ m \in Nat /\ ~ (k < m)
    BY <1>2, <1>3
  <2> QED BY <2>1
<1> QED BY <1>4

(* Induction: a set that has 0 and is closed under + 1 has them all. *)
LEMMA Induction ==
  ASSUME NEW N, 0 \in N, \A n \in Nat : n \in N => n + 1 \in N
  PROVE  Nat \subseteq N
<1> SUFFICES ASSUME Nat \ N # {} PROVE FALSE
  OBVIOUS
<1>1. PICK m \in Nat \ N : \A k \in Nat \ N : m <= k
  BY Least
<1>2. m # 0 /\ m - 1 \in Nat /\ m - 1 \notin Nat \ N
  BY <1>1
<1> QED BY <1>1, <1>2

(* The function that Sums chooses exists: it is made one length at a time. *)
LEMMA SumsExist ==
  ASSUME NEW s \in Seq(Nat)
  PROVE  \E f \in [0 .. Len(s) -> Nat] :
            f = [i \in 0 .. Len(s) |-> IF i = 0 THEN 0 ELSE f[i - 1] + s[i]]
<1> DEFINE Upto(n, f) == f[0] = 0 /\ \A i \in 1 .. n : f[i] = f[i - 1] + s[i]
<1> DEFINE Has(n) == \E f \in [0 .. n -> Nat] : Upto(n, f)
<1> DEFINE Reached == {n \in Nat : n <= Len(s) => Has(n)}
<1>1. 0 \in Reached
  <2>1. [i \in 0 .. 0 |-> 0] \in [0 .. 0 -> Nat] /\ Upto(0, [i \in 0 .. 0 |-> 0])
    OBVIOUS
  <2> QED BY <2>1
<1>2. ASSUME NEW n \in Nat, n \in Reached PROVE n + 1 \in Reached
  <2>0. CASE ~ (n + 1 <= Len(s))
    BY <2>0
  <2> SUFFICES ASSUME n + 1 <= Len(s) PROVE n + 1 \in Reached
    BY <2>0
  <2>a. n <= Len(s)
    OBVIOUS
  <2>1. PICK f \in [0 .. n -> Nat] : Upto(n, f)
    BY <1>2, <2>a
  <2> DEFINE g == [i \in 0 .. n + 1 |-> IF i = n + 1 THEN f[n] + s[n + 1] ELSE f[i]]
  <2>2. s[n + 1] \in Nat
    OBVIOUS
  <2>3. g \in [0 .. n + 1 -> Nat]
    BY <2>2
  <2>4. Upto(n + 1, g)
    BY <2>1
  <2>5. Has(n + 1)
    BY <2>3, <2>4
  <2> HIDE DEF Has
  <2> QED BY <2>5
<1> HIDE DEF Reached
<1>3. Nat \subseteq Reached
  BY <1>1, <1>2, Induction
<1>4. PICK f \in [0 .. Len(s) -> Nat] : Upto(Len(s), f)
  BY <1>3 DEF Reached
<1>5. \A i \in 0 .. Len(s) : f[i] = IF i = 0 THEN 0 ELSE f[i - 1] + s[i]
  BY <1>4
<1>6. f = [i \in 0 .. Len(s) |-> IF i = 0 THEN 0 ELSE f[i - 1] + s[i]]
  BY <1>5
<1> QED BY <1>6

(* So the sums satisfy the equation that defines them. *)
LEMMA SumsDef ==
  ASSUME NEW s \in Seq(Nat)
  PROVE  Sums(s) = [i \in 0 .. Len(s) |-> IF i = 0 THEN 0 ELSE Sums(s)[i - 1] + s[i]]
BY SumsExist DEF Sums

(* No length at all. *)
LEMMA SumsFirst ==
  ASSUME NEW s \in Seq(Nat)
  PROVE  Sums(s)[0] = 0
BY SumsDef

(* One length more than the first n. *)
LEMMA SumsNext ==
  ASSUME NEW s \in Seq(Nat), NEW n \in Nat, n + 1 <= Len(s)
  PROVE  Sums(s)[n + 1] = Sums(s)[n] + s[n + 1]
<1>1. n + 1 \in 0 .. Len(s) /\ n + 1 # 0 /\ n + 1 - 1 = n
  OBVIOUS
<1> QED BY <1>1, SumsDef

(* Sums are natural numbers. *)
LEMMA SumsType ==
  ASSUME NEW s \in Seq(Nat), NEW n \in 0 .. Len(s)
  PROVE  Sums(s)[n] \in Nat
<1> DEFINE Reached == {m \in Nat : m <= Len(s) => Sums(s)[m] \in Nat}
<1>1. 0 \in Reached
  BY SumsFirst
<1>2. ASSUME NEW m \in Nat, m \in Reached PROVE m + 1 \in Reached
  <2> SUFFICES ASSUME m + 1 <= Len(s) PROVE Sums(s)[m + 1] \in Nat
    OBVIOUS
  <2>1. Sums(s)[m + 1] = Sums(s)[m] + s[m + 1]
    BY SumsNext
  <2> QED BY <1>2, <2>1
<1> HIDE DEF Reached
<1>3. Nat \subseteq Reached
  BY <1>1, <1>2, Induction
<1> QED BY <1>3 DEF Reached

(* The sum of the first n lengths is that of any sequence that has them. *)
LEMMA SumsAgree ==
  ASSUME NEW s \in Seq(Nat), NEW t \in Seq(Nat), NEW n \in 0 .. Len(s), n <= Len(t),
         \A i \in 1 .. n : s[i] = t[i]
  PROVE  Sums(s)[n] = Sums(t)[n]
<1> DEFINE Reached == {m \in Nat : m <= n => Sums(s)[m] = Sums(t)[m]}
<1>1. 0 \in Reached
  BY SumsFirst
<1>2. ASSUME NEW m \in Nat, m \in Reached PROVE m + 1 \in Reached
  <2> SUFFICES ASSUME m + 1 <= n PROVE Sums(s)[m + 1] = Sums(t)[m + 1]
    OBVIOUS
  <2>1. Sums(s)[m + 1] = Sums(s)[m] + s[m + 1] /\ Sums(t)[m + 1] = Sums(t)[m] + t[m + 1]
    BY SumsNext
  <2> QED BY <1>2, <2>1
<1> HIDE DEF Reached
<1>3. Nat \subseteq Reached
  BY <1>1, <1>2, Induction
<1> QED BY <1>3 DEF Reached

(* Nothing adds up to nothing. *)
LEMMA TotalEmpty == Total(<<>>) = 0
<1>1. <<>> \in Seq(Nat) /\ Len(<<>>) = 0
  OBVIOUS
<1> QED BY <1>1, SumsFirst DEF Total

(* A total is a natural number. *)
LEMMA TotalType ==
  ASSUME NEW s \in Seq(Nat)
  PROVE  Total(s) \in Nat
BY SumsType DEF Total

(* One length more. *)
LEMMA TotalAppend ==
  ASSUME NEW s \in Seq(Nat), NEW x \in Nat
  PROVE  Total(Append(s, x)) = Total(s) + x
<1> DEFINE t == Append(s, x)
<1>1. t \in Seq(Nat) /\ Len(t) = Len(s) + 1 /\ t[Len(s) + 1] = x /\ Len(s) \in Nat
  OBVIOUS
<1>2. \A i \in 1 .. Len(s) : s[i] = t[i]
  OBVIOUS
<1> HIDE DEF t
<1>3. Sums(s)[Len(s)] = Sums(t)[Len(s)]
  <2>1. Len(s) \in 0 .. Len(s) /\ Len(s) <= Len(t)
    BY <1>1
  <2> QED BY <1>1, <1>2, <2>1, SumsAgree
<1>4. Sums(t)[Len(s) + 1] = Sums(t)[Len(s)] + t[Len(s) + 1]
  BY <1>1, SumsNext
<1>5. Total(t) = Total(s) + x
  BY <1>1, <1>3, <1>4 DEF Total
<1> QED BY <1>5 DEF t

(* The first length apart. *)
LEMMA TotalHead ==
  ASSUME NEW s \in Seq(Nat), s # <<>>
  PROVE  Total(s) = Head(s) + Total(Tail(s))
<1> DEFINE t == Tail(s)
<1>1. /\ t \in Seq(Nat) /\ Len(t) \in Nat /\ Len(t) = Len(s) - 1
      /\ Len(s) \in Nat \ {0} /\ Head(s) = s[1]
  OBVIOUS
<1>2. \A i \in 1 .. Len(t) : t[i] = s[i + 1]
  OBVIOUS
<1>3. Head(s) \in Nat
  OBVIOUS
<1> HIDE DEF t
<1> DEFINE Reached == {m \in Nat : m <= Len(t) => Sums(s)[m + 1] = Head(s) + Sums(t)[m]}
<1>4. 0 \in Reached
  <2>1. Sums(s)[1] = Sums(s)[0] + s[1] /\ Sums(s)[0] = 0 /\ Sums(t)[0] = 0
    BY <1>1, SumsFirst, SumsNext
  <2> QED BY <1>1, <1>3, <2>1
<1>5. ASSUME NEW m \in Nat, m \in Reached PROVE m + 1 \in Reached
  <2> SUFFICES ASSUME m + 1 <= Len(t)
               PROVE  Sums(s)[m + 1 + 1] = Head(s) + Sums(t)[m + 1]
    OBVIOUS
  <2>1. Sums(s)[m + 1 + 1] = Sums(s)[m + 1] + s[m + 1 + 1]
    <3>1. m + 1 \in Nat /\ m + 1 + 1 <= Len(s)
      BY <1>1
    <3> QED BY <3>1, SumsNext
  <2>2. Sums(t)[m + 1] = Sums(t)[m] + t[m + 1]
    BY <1>1, SumsNext
  <2>3. Sums(t)[m] \in Nat /\ t[m + 1] \in Nat /\ t[m + 1] = s[m + 1 + 1]
    BY <1>1, <1>2, SumsType
  <2> QED BY <1>3, <1>5, <2>1, <2>2, <2>3
<1> HIDE DEF Reached
<1>6. Nat \subseteq Reached
  BY <1>4, <1>5, Induction
<1>7. Sums(s)[Len(t) + 1] = Head(s) + Sums(t)[Len(t)] /\ Len(t) + 1 = Len(s)
  BY <1>1, <1>6 DEF Reached
<1> QED BY <1>7 DEF Total, t

(* Lengths of at most c add up to at most c for each. *)
LEMMA TotalBound ==
  ASSUME NEW s \in Seq(Nat), NEW c \in Nat, \A i \in 1 .. Len(s) : s[i] <= c
  PROVE  Total(s) <= Len(s) * c
<1> DEFINE Reached == {m \in Nat : m <= Len(s) => Sums(s)[m] <= m * c}
<1>1. 0 \in Reached
  BY SumsFirst
<1>2. ASSUME NEW m \in Nat, m \in Reached PROVE m + 1 \in Reached
  <2> SUFFICES ASSUME m + 1 <= Len(s) PROVE Sums(s)[m + 1] <= (m + 1) * c
    OBVIOUS
  <2>1. Sums(s)[m + 1] = Sums(s)[m] + s[m + 1]
    BY SumsNext
  <2>2. Sums(s)[m] \in Nat /\ s[m + 1] \in Nat /\ s[m + 1] <= c
    BY SumsType
  <2>3. (m + 1) * c = m * c + c /\ m * c \in Nat
    OBVIOUS
  <2> QED BY <1>2, <2>1, <2>2, <2>3
<1> HIDE DEF Reached
<1>3. Nat \subseteq Reached
  BY <1>1, <1>2, Induction
<1> QED BY <1>3 DEF Reached, Total

-----------------------------------------------------------------------------
(* The invariant *)

(* Nothing is queued behind an error, or behind the rest of the archive. *)
StreamTypes ==
    /\ wpc \in {"writing", "copying", "sending", "reporting", "ended"}
    /\ result \in {"none", "ok", "error", "panic"}
    /\ cpc \in {"reading", "eof", "failed", "cancelled"}
    /\ archive \in Nat /\ written \in 0 .. archive
    /\ input \in Nat /\ chunk \in 0 .. ChunkSize
    /\ queue \in Seq(Nat) /\ Len(queue) <= QueueCap
    /\ taken \in Seq(Nat)

(* What the blocking thread knows at each place. *)
ThreadInv ==
    /\ wpc = "writing" => input = 0 /\ chunk < ChunkSize /\ result = "none"
    /\ wpc = "copying" => input > 0 /\ chunk < ChunkSize /\ result \in {"none", "error"}
    /\ wpc = "sending" =>
           /\ chunk > 0 /\ result # "panic"
           /\ result = "ok" => input = 0
           /\ chunk = ChunkSize \/ result = "ok"
    /\ wpc = "reporting" => result = "error"
    /\ wpc = "ended" => result # "none"
    /\ result = "ok" => written = archive /\ wpc \in {"sending", "ended"}
    /\ result = "ok" /\ wpc = "ended" => input = 0 /\ chunk = 0

AllSent == wpc = "ended" /\ result = "ok"

QueueInv ==
    /\ \A i \in 1 .. Len(queue) :
           \/ queue[i] = ChunkSize
           \/ i = Len(queue) /\ queue[i] \in 1 .. ChunkSize /\ AllSent
           \/ i = Len(queue) /\ queue[i] = Failure /\ wpc = "ended" /\ result = "error"
    /\ cpc = "eof" => AllSent /\ queue = <<>>

TakenInv ==
    \A i \in 1 .. Len(taken) :
        \/ taken[i] = ChunkSize
        \/ i = Len(taken) /\ taken[i] \in 1 .. ChunkSize /\ AllSent /\ queue = <<>>

(* What the library has written is underway, unless something failed. *)
CountInv ==
    result \in {"none", "ok"} /\ cpc \in {"reading", "eof"} =>
        Total(taken) + Total(queue) + chunk + input = written

StreamIInv == StreamTypes /\ ThreadInv /\ QueueInv /\ TakenInv /\ CountInv

(* Before the source is opened the stream is as it was made. *)
PlanInv ==
    /\ ~open => /\ wpc = "writing" /\ written = 0 /\ input = 0 /\ chunk = 0
                /\ result = "none" /\ queue = <<>> /\ cpc = "reading" /\ taken = <<>>
                /\ copied = 0
    /\ result = "ok" => copied = planned

SourceIInv == StreamIInv /\ PlanInv

-----------------------------------------------------------------------------
(* Every step of the stream keeps its invariant *)

(* The channel's lengths when one is appended, and when one is taken. *)
LEMMA AppendFacts ==
  ASSUME NEW s \in Seq(Nat), NEW x \in Nat
  PROVE  /\ Append(s, x) \in Seq(Nat) /\ Len(Append(s, x)) = Len(s) + 1
         /\ Append(s, x)[Len(s) + 1] = x /\ Len(s) \in Nat
         /\ \A i \in 1 .. Len(s) : Append(s, x)[i] = s[i]
OBVIOUS

(* The first one taken. *)
LEMMA TailFacts ==
  ASSUME NEW s \in Seq(Nat), s # <<>>
  PROVE  /\ Tail(s) \in Seq(Nat) /\ Len(Tail(s)) = Len(s) - 1
         /\ Len(s) \in Nat \ {0} /\ Head(s) = s[1] /\ Head(s) \in Nat
         /\ \A i \in 1 .. Len(Tail(s)) : Tail(s)[i] = s[i + 1]
OBVIOUS

(* More of the same are at least as many. *)
LEMMA TimesMonotone ==
  ASSUME NEW m \in Nat, NEW n \in Nat, NEW c \in Nat, m <= n
  PROVE  m * c <= n * c
<1> DEFINE d == n - m
<1>1. d \in Nat /\ n = m + d
  OBVIOUS
<1> HIDE DEF d
<1>2. n * c = m * c + d * c /\ d * c \in Nat /\ m * c \in Nat
  BY <1>1
<1> QED BY <1>2

(* The invariant of the channel for one item of it. *)
LEMMA QueueItem ==
  ASSUME StreamIInv, NEW i \in 1 .. Len(queue)
  PROVE  \/ queue[i] = ChunkSize
         \/ i = Len(queue) /\ queue[i] \in 1 .. ChunkSize /\ AllSent
         \/ i = Len(queue) /\ queue[i] = Failure /\ wpc = "ended" /\ result = "error"
BY DEF StreamIInv, QueueInv

(* Bytes the library writes are underway from then on. *)
LEMMA WriteKeeps ==
  ASSUME StreamIInv, Write
  PROVE  StreamIInv'
<1> USE ZipAssumption
<1>1. PICK n \in 1 .. archive - written : written' = written + n /\ input' = n
  BY DEF Write
<1>2. /\ wpc = "writing" /\ wpc' = "copying" /\ input = 0 /\ result = "none"
      /\ UNCHANGED <<archive, chunk, result, queue, cpc, taken>>
  BY DEF Write, StreamIInv, ThreadInv
<1>3. StreamTypes'
  BY <1>1, <1>2 DEF StreamIInv, StreamTypes
<1>4. ThreadInv' /\ QueueInv' /\ TakenInv'
  BY <1>1, <1>2 DEF StreamIInv, StreamTypes, ThreadInv, QueueInv, TakenInv, AllSent
<1>5. CountInv'
  <2>1. Total(taken) \in Nat /\ Total(queue) \in Nat
    BY TotalType DEF StreamIInv, StreamTypes
  <2>2. Total(taken)' = Total(taken) /\ Total(queue)' = Total(queue)
    BY <1>2
  <2> QED BY <1>1, <1>2, <2>1, <2>2 DEF StreamIInv, StreamTypes, CountInv
<1> QED BY <1>3, <1>4, <1>5 DEF StreamIInv

(* What goes into the chunk is no longer of the current write, and a chunk *)
(* is never overfull.                                                      *)
LEMMA FillKeeps ==
  ASSUME StreamIInv, FillChunk
  PROVE  StreamIInv'
<1> USE ZipAssumption
<1>1. /\ wpc = "copying" /\ chunk' = chunk + Copied /\ input' = input - Copied
      /\ UNCHANGED <<archive, written, result, queue, cpc, taken>>
      /\ input > 0 /\ chunk < ChunkSize /\ result \in {"none", "error"}
      /\ wpc' = IF chunk' = ChunkSize THEN "sending"
                ELSE IF result = "error" THEN "reporting" ELSE "writing"
  BY DEF FillChunk, StreamIInv, ThreadInv
<1>2. /\ Copied \in Nat \ {0} /\ Copied <= input /\ chunk + Copied <= ChunkSize
      /\ chunk + Copied # ChunkSize => input = Copied
  BY <1>1 DEF StreamIInv, StreamTypes, Copied
<1>3. StreamTypes'
  BY <1>1, <1>2 DEF StreamIInv, StreamTypes
<1>4. ThreadInv'
  BY <1>1, <1>2 DEF StreamIInv, StreamTypes, ThreadInv
<1>5. QueueInv' /\ TakenInv'
  BY <1>1 DEF StreamIInv, QueueInv, TakenInv, AllSent
<1>6. CountInv'
  <2>1. Total(taken) \in Nat /\ Total(queue) \in Nat
    BY TotalType DEF StreamIInv, StreamTypes
  <2>2. Total(taken)' = Total(taken) /\ Total(queue)' = Total(queue)
    BY <1>1
  <2> QED BY <1>1, <1>2, <2>1, <2>2 DEF StreamIInv, StreamTypes, CountInv
<1> QED BY <1>3, <1>4, <1>5, <1>6 DEF StreamIInv

(* A chunk that is sent is full, or the rest of a finished archive. *)
LEMMA SendKeeps ==
  ASSUME StreamIInv, SendChunk
  PROVE  StreamIInv'
<1> USE ZipAssumption
<1>1. /\ wpc = "sending" /\ ~Dropped /\ Len(queue) < QueueCap
      /\ queue' = Append(queue, chunk) /\ chunk' = 0
      /\ UNCHANGED <<archive, written, input, result, cpc, taken>>
  BY DEF SendChunk, Room
<1>2. /\ chunk \in 1 .. ChunkSize /\ result # "panic" /\ input \in Nat
      /\ result = "ok" => input = 0
      /\ chunk = ChunkSize \/ result = "ok"
  BY <1>1 DEF StreamIInv, StreamTypes, ThreadInv
<1>3. \/ input > 0 /\ wpc' = "copying" /\ result # "ok"
      \/ input = 0 /\ result = "ok" /\ wpc' = "ended"
      \/ input = 0 /\ result = "error" /\ wpc' = "reporting"
      \/ input = 0 /\ result = "none" /\ wpc' = "writing"
  BY <1>2 DEF SendChunk, AfterSend, StreamIInv, StreamTypes
<1>4. /\ queue \in Seq(Nat) /\ chunk \in Nat
      /\ queue' \in Seq(Nat) /\ Len(queue') = Len(queue) + 1
      /\ queue'[Len(queue) + 1] = chunk /\ Len(queue) \in Nat
      /\ \A i \in 1 .. Len(queue) : queue'[i] = queue[i]
  <2>1. queue \in Seq(Nat) /\ chunk \in Nat
    BY <1>2 DEF StreamIInv, StreamTypes
  <2> QED BY <1>1, <2>1, AppendFacts
<1>5. StreamTypes'
  BY <1>1, <1>3, <1>4 DEF StreamIInv, StreamTypes
<1>6. ThreadInv'
  BY <1>1, <1>2, <1>3 DEF StreamIInv, StreamTypes, ThreadInv
<1>7. QueueInv'
  <2>1. \A i \in 1 .. Len(queue) : queue[i] = ChunkSize
    BY <1>1 DEF StreamIInv, QueueInv, AllSent
  <2>2. cpc # "eof"
    BY <1>1 DEF StreamIInv, QueueInv, AllSent
  <2>3. ASSUME NEW i \in 1 .. Len(queue')
        PROVE  \/ queue'[i] = ChunkSize
               \/ i = Len(queue') /\ queue'[i] \in 1 .. ChunkSize /\ AllSent'
    <3>1. CASE i = Len(queue) + 1
      BY <1>1, <1>2, <1>3, <1>4, <3>1 DEF AllSent
    <3>2. CASE i # Len(queue) + 1
      BY <1>4, <2>1, <3>2
    <3> QED BY <3>1, <3>2
  <2> QED BY <1>1, <2>2, <2>3 DEF QueueInv
<1>8. TakenInv'
  BY <1>1 DEF StreamIInv, TakenInv, AllSent
<1>9. CountInv'
  <2>1. Total(taken) \in Nat /\ Total(queue) \in Nat
    BY TotalType DEF StreamIInv, StreamTypes
  <2>2. Total(taken)' = Total(taken) /\ Total(queue)' = Total(queue) + chunk
    BY <1>1, <1>4, TotalAppend
  <2> QED BY <1>1, <1>2, <2>1, <2>2 DEF StreamIInv, StreamTypes, CountInv
<1> QED BY <1>5, <1>6, <1>7, <1>8, <1>9 DEF StreamIInv

(* Nobody listens: the count no longer matters. *)
LEMMA RefusedKeeps ==
  ASSUME StreamIInv, SendRefused
  PROVE  StreamIInv'
<1> USE ZipAssumption
<1>1. /\ wpc = "sending" /\ Dropped /\ chunk' = 0 /\ input' = 0
      /\ result' = "error" /\ wpc' = "reporting"
      /\ UNCHANGED <<archive, written, queue, cpc, taken>>
  BY DEF SendRefused
<1>2. StreamTypes' /\ ThreadInv' /\ CountInv'
  BY <1>1 DEF StreamIInv, StreamTypes, ThreadInv, CountInv
<1>3. QueueInv' /\ TakenInv'
  BY <1>1 DEF StreamIInv, QueueInv, TakenInv, AllSent
<1> QED BY <1>2, <1>3 DEF StreamIInv

(* The library has written the whole archive. *)
LEMMA FinishKeeps ==
  ASSUME StreamIInv, Finish
  PROVE  StreamIInv'
<1> USE ZipAssumption
<1>1. /\ wpc = "writing" /\ result = "none" /\ written = archive /\ result' = "ok"
      /\ input = 0 /\ chunk \in 0 .. ChunkSize /\ chunk < ChunkSize
      /\ wpc' = IF chunk > 0 THEN "sending" ELSE "ended"
      /\ UNCHANGED <<archive, written, input, chunk, queue, cpc, taken>>
  BY DEF Finish, StreamIInv, StreamTypes, ThreadInv
<1>2. StreamTypes' /\ ThreadInv'
  BY <1>1 DEF StreamIInv, StreamTypes, ThreadInv
<1>3. QueueInv' /\ TakenInv'
  BY <1>1 DEF StreamIInv, StreamTypes, QueueInv, TakenInv, AllSent
<1>4. CountInv'
  <2>1. Total(taken)' = Total(taken) /\ Total(queue)' = Total(queue)
    BY <1>1
  <2> QED BY <1>1, <2>1 DEF StreamIInv, CountInv
<1> QED BY <1>2, <1>3, <1>4 DEF StreamIInv

(* An input fails, with or without a last write. *)
LEMMA InputFailsKeeps ==
  ASSUME StreamIInv, InputFails
  PROVE  StreamIInv'
<1> USE ZipAssumption
<1>1. PICK n \in 0 .. archive - written :
         /\ written' = written + n /\ input' = n
         /\ wpc' = IF n > 0 THEN "copying" ELSE "reporting"
  BY DEF InputFails
<1>2. /\ wpc = "writing" /\ result = "none" /\ result' = "error" /\ chunk < ChunkSize
      /\ UNCHANGED <<archive, chunk, queue, cpc, taken>>
  BY DEF InputFails, StreamIInv, ThreadInv
<1>3. StreamTypes' /\ ThreadInv' /\ CountInv'
  BY <1>1, <1>2 DEF StreamIInv, StreamTypes, ThreadInv, CountInv
<1>4. QueueInv' /\ TakenInv'
  BY <1>2 DEF StreamIInv, QueueInv, TakenInv, AllSent
<1> QED BY <1>3, <1>4 DEF StreamIInv

(* The error is behind the chunks. *)
LEMMA ReportKeeps ==
  ASSUME StreamIInv, ReportError
  PROVE  StreamIInv'
<1> USE ZipAssumption
<1>1. /\ wpc = "reporting" /\ wpc' = "ended" /\ result = "error"
      /\ queue' = queue \/ (Len(queue) < QueueCap /\ queue' = Append(queue, Failure))
      /\ UNCHANGED <<archive, written, input, chunk, result, cpc, taken>>
  BY DEF ReportError, Room, StreamIInv, ThreadInv
<1>2. \A i \in 1 .. Len(queue) : queue[i] = ChunkSize
  BY <1>1 DEF StreamIInv, QueueInv, AllSent
<1>3. ThreadInv' /\ TakenInv' /\ CountInv'
  BY <1>1 DEF StreamIInv, ThreadInv, TakenInv, CountInv, AllSent
<1>4. CASE queue' = queue
  BY <1>1, <1>2, <1>3, <1>4 DEF StreamIInv, StreamTypes, QueueInv, AllSent
<1>5. CASE Len(queue) < QueueCap /\ queue' = Append(queue, Failure)
  <2>1. /\ queue' \in Seq(Nat) /\ Len(queue') = Len(queue) + 1
        /\ queue'[Len(queue) + 1] = Failure /\ Len(queue) \in Nat
        /\ \A i \in 1 .. Len(queue) : queue'[i] = queue[i]
    <3>1. queue \in Seq(Nat) /\ Failure \in Nat
      BY DEF StreamIInv, StreamTypes, Failure
    <3> QED BY <1>5, <3>1, AppendFacts
  <2>2. StreamTypes'
    BY <1>1, <1>5, <2>1 DEF StreamIInv, StreamTypes
  <2>3. QueueInv'
    BY <1>1, <1>2, <2>1 DEF StreamIInv, QueueInv, AllSent
  <2> QED BY <1>3, <2>2, <2>3 DEF StreamIInv
<1> QED BY <1>1, <1>4, <1>5

(* After a panic nothing is queued and nothing ends well. *)
LEMMA PanicKeeps ==
  ASSUME StreamIInv, Panic
  PROVE  StreamIInv'
<1>1. /\ wpc \in {"writing", "copying"} /\ wpc' = "ended" /\ result' = "panic"
      /\ UNCHANGED <<archive, written, input, chunk, queue, cpc, taken>>
  BY DEF Panic
<1>2. StreamTypes' /\ ThreadInv' /\ CountInv'
  BY <1>1 DEF StreamIInv, StreamTypes, ThreadInv, CountInv
<1>3. QueueInv' /\ TakenInv'
  BY <1>1 DEF StreamIInv, QueueInv, TakenInv, AllSent
<1> QED BY <1>2, <1>3 DEF StreamIInv

(* The first chunk queued becomes the last one taken; a short one is the   *)
(* last of both.                                                           *)
LEMMA TakeKeeps ==
  ASSUME StreamIInv, TakeChunk
  PROVE  StreamIInv'
<1> USE ZipAssumption
<1>1. /\ cpc = "reading" /\ queue # <<>> /\ Head(queue) # Failure
      /\ taken' = Append(taken, Head(queue)) /\ queue' = Tail(queue)
      /\ UNCHANGED <<wpc, archive, written, input, chunk, result, cpc>>
  BY DEF TakeChunk
<1>2. queue \in Seq(Nat) /\ taken \in Seq(Nat)
  BY DEF StreamIInv, StreamTypes
<1>3. /\ queue' \in Seq(Nat) /\ Len(queue') = Len(queue) - 1
      /\ Len(queue) \in Nat \ {0} /\ Head(queue) = queue[1] /\ Head(queue) \in Nat
      /\ \A i \in 1 .. Len(queue') : queue'[i] = queue[i + 1]
  BY <1>1, <1>2, TailFacts
<1>4. /\ taken' \in Seq(Nat) /\ Len(taken') = Len(taken) + 1
      /\ taken'[Len(taken) + 1] = Head(queue) /\ Len(taken) \in Nat
      /\ \A i \in 1 .. Len(taken) : taken'[i] = taken[i]
  BY <1>1, <1>2, <1>3, AppendFacts
<1>5. StreamTypes' /\ ThreadInv'
  BY <1>1, <1>3, <1>4 DEF StreamIInv, StreamTypes, ThreadInv
<1>6. QueueInv'
  <2>1. ASSUME NEW i \in 1 .. Len(queue')
        PROVE  \/ queue'[i] = ChunkSize
               \/ i = Len(queue') /\ queue'[i] \in 1 .. ChunkSize /\ AllSent'
               \/ i = Len(queue') /\ queue'[i] = Failure /\ wpc' = "ended"
                  /\ result' = "error"
    <3>1. i + 1 \in 1 .. Len(queue) /\ queue'[i] = queue[i + 1]
      BY <1>3
    <3>2. i + 1 = Len(queue) <=> i = Len(queue')
      BY <1>3
    <3>3. \/ queue[i + 1] = ChunkSize
          \/ /\ i + 1 = Len(queue) /\ queue[i + 1] \in 1 .. ChunkSize /\ AllSent
          \/ /\ i + 1 = Len(queue) /\ queue[i + 1] = Failure
             /\ wpc = "ended" /\ result = "error"
      BY <3>1, QueueItem
    <3> QED BY <1>1, <3>1, <3>2, <3>3 DEF AllSent
  <2> QED BY <1>1, <2>1 DEF QueueInv
<1>7. TakenInv'
  <2>1. \A i \in 1 .. Len(taken) : taken[i] = ChunkSize
    BY <1>1 DEF StreamIInv, TakenInv
  <2>2. \/ Head(queue) = ChunkSize
        \/ Len(queue) = 1 /\ Head(queue) \in 1 .. ChunkSize /\ AllSent
    <3>1. 1 \in 1 .. Len(queue)
      BY <1>3
    <3> QED BY <1>1, <1>3, <3>1, QueueItem
  <2>3. Len(queue) = 1 => queue' = <<>>
    BY <1>3
  <2> QED BY <1>1, <1>4, <2>1, <2>2, <2>3 DEF TakenInv, AllSent
<1>8. CountInv'
  <2>1. Total(taken) \in Nat /\ Total(queue) \in Nat /\ Total(queue') \in Nat
    BY <1>2, <1>3, TotalType
  <2>2. Total(taken') = Total(taken) + Head(queue)
    BY <1>1, <1>2, <1>3, TotalAppend
  <2>3. Total(queue) = Head(queue) + Total(queue')
    BY <1>1, <1>2, TotalHead
  <2> QED BY <1>1, <1>3, <2>1, <2>2, <2>3 DEF StreamIInv, StreamTypes, CountInv
<1> QED BY <1>5, <1>6, <1>7, <1>8 DEF StreamIInv

(* The error is the last item. *)
LEMMA TakeErrorKeeps ==
  ASSUME StreamIInv, TakeError
  PROVE  StreamIInv'
<1> USE ZipAssumption
<1>1. /\ cpc = "reading" /\ queue # <<>> /\ Head(queue) = Failure
      /\ queue' = Tail(queue) /\ cpc' = "failed"
      /\ UNCHANGED <<wpc, archive, written, input, chunk, result, taken>>
  BY DEF TakeError
<1>2. queue \in Seq(Nat)
  BY DEF StreamIInv, StreamTypes
<1>3. /\ queue' \in Seq(Nat) /\ Len(queue') = Len(queue) - 1
      /\ Len(queue) \in Nat \ {0} /\ Head(queue) = queue[1]
      /\ \A i \in 1 .. Len(queue') : queue'[i] = queue[i + 1]
  BY <1>1, <1>2, TailFacts
<1>4. Len(queue) = 1
  <2>1. 1 \in 1 .. Len(queue) /\ queue[1] = 0
    BY <1>1, <1>3 DEF Failure
  <2> QED BY <2>1, QueueItem DEF Failure
<1>5. StreamTypes' /\ ThreadInv' /\ QueueInv' /\ CountInv'
  BY <1>1, <1>3, <1>4
  DEF StreamIInv, StreamTypes, ThreadInv, QueueInv, CountInv
<1>6. TakenInv'
  BY <1>1 DEF StreamIInv, TakenInv
<1> QED BY <1>5, <1>6 DEF StreamIInv

(* The stream ends when the thread has, and nothing is queued. *)
LEMMA EndKeeps ==
  ASSUME StreamIInv, EndOfStream
  PROVE  StreamIInv'
<1>1. /\ cpc = "reading" /\ queue = <<>> /\ wpc = "ended"
      /\ cpc' = IF result = "ok" THEN "eof" ELSE "failed"
      /\ UNCHANGED <<wpc, archive, written, input, chunk, result, queue, taken>>
  BY DEF EndOfStream
<1>2. StreamTypes' /\ ThreadInv'
  BY <1>1 DEF StreamIInv, StreamTypes, ThreadInv
<1>3. QueueInv' /\ TakenInv'
  BY <1>1 DEF StreamIInv, QueueInv, TakenInv, AllSent
<1>4. CountInv'
  <2>1. Total(taken)' = Total(taken) /\ Total(queue)' = Total(queue)
    BY <1>1
  <2> QED BY <1>1, <2>1 DEF StreamIInv, CountInv
<1> QED BY <1>2, <1>3, <1>4 DEF StreamIInv

(* The stream is dropped, queue and all. *)
LEMMA CancelKeeps ==
  ASSUME StreamIInv, Cancel
  PROVE  StreamIInv'
<1> USE ZipAssumption
<1>1. /\ cpc = "reading" /\ cpc' = "cancelled" /\ queue' = <<>>
      /\ UNCHANGED <<wpc, archive, written, input, chunk, result, taken>>
  BY DEF Cancel
<1>2. StreamTypes' /\ ThreadInv' /\ QueueInv' /\ CountInv'
  BY <1>1 DEF StreamIInv, StreamTypes, ThreadInv, QueueInv, CountInv
<1>3. TakenInv'
  BY <1>1 DEF StreamIInv, TakenInv, AllSent
<1> QED BY <1>2, <1>3 DEF StreamIInv

(* A step that leaves the stream alone. *)
LEMMA StreamStutters ==
  ASSUME StreamIInv, UNCHANGED streamvars
  PROVE  StreamIInv'
<1>1. UNCHANGED <<wpc, archive, written, input, chunk, result, queue, cpc, taken>>
  BY DEF streamvars
<1>2. StreamTypes' /\ ThreadInv'
  BY <1>1 DEF StreamIInv, StreamTypes, ThreadInv
<1>3. QueueInv' /\ TakenInv'
  BY <1>1 DEF StreamIInv, QueueInv, TakenInv, AllSent
<1>4. CountInv'
  <2>1. Total(taken)' = Total(taken) /\ Total(queue)' = Total(queue)
    BY <1>1
  <2> QED BY <1>1, <2>1 DEF StreamIInv, CountInv
<1> QED BY <1>2, <1>3, <1>4 DEF StreamIInv

(* Every step of the stream, or none. *)
LEMMA StreamKeeps ==
  ASSUME StreamIInv, Next \/ UNCHANGED streamvars
  PROVE  StreamIInv'
<1>1. CASE WriterStep
  BY <1>1, WriteKeeps, FillKeeps, SendKeeps, RefusedKeeps, FinishKeeps,
     InputFailsKeeps, ReportKeeps, PanicKeeps
  DEF WriterStep
<1>2. CASE ConsumerStep
  BY <1>2, TakeKeeps, TakeErrorKeeps, EndKeeps DEF ConsumerStep
<1> QED BY <1>1, <1>2, CancelKeeps, StreamStutters DEF Next

-----------------------------------------------------------------------------
(* The source *)

(* At the start nothing is written, queued or taken. *)
LEMMA SourceInitInv ==
  ASSUME SourceInit
  PROVE  SourceIInv
<1> USE ZipAssumption
<1>1. /\ wpc = "writing" /\ archive \in Nat /\ written = 0 /\ input = 0 /\ chunk = 0
      /\ result = "none" /\ queue = <<>> /\ cpc = "reading" /\ taken = <<>>
      /\ ~open /\ copied = 0
  BY DEF SourceInit, Init
<1>2. queue \in Seq(Nat) /\ Len(queue) = 0 /\ taken \in Seq(Nat) /\ Len(taken) = 0
  BY <1>1
<1>3. StreamTypes /\ ThreadInv /\ QueueInv /\ TakenInv
  BY <1>1, <1>2 DEF StreamTypes, ThreadInv, QueueInv, TakenInv, AllSent
<1>4. CountInv
  <2>1. Total(queue) = 0 /\ Total(taken) = 0
    BY <1>1, TotalEmpty
  <2> QED BY <1>1, <2>1 DEF CountInv
<1>5. PlanInv
  BY <1>1 DEF PlanInv
<1> QED BY <1>3, <1>4, <1>5 DEF SourceIInv, StreamIInv

(* The archive that is opened is as yet unwritten. *)
LEMMA OpenKeeps ==
  ASSUME SourceIInv, Open
  PROVE  SourceIInv'
<1> USE ZipAssumption
<1>1. /\ ~open /\ open' = TRUE /\ archive' \in Nat
      /\ UNCHANGED <<wpc, written, input, chunk, result, queue, cpc, taken, copied>>
  BY DEF Open
<1>2. /\ wpc = "writing" /\ written = 0 /\ input = 0 /\ chunk = 0 /\ result = "none"
      /\ queue = <<>> /\ cpc = "reading" /\ taken = <<>>
  BY <1>1 DEF SourceIInv, PlanInv
<1>3. StreamTypes' /\ ThreadInv' /\ PlanInv'
  BY <1>1, <1>2 DEF SourceIInv, StreamIInv, StreamTypes, ThreadInv, PlanInv
<1>4. QueueInv' /\ TakenInv'
  BY <1>1, <1>2 DEF SourceIInv, StreamIInv, QueueInv, TakenInv, AllSent
<1>5. CountInv'
  <2>1. Total(taken)' = Total(taken) /\ Total(queue)' = Total(queue)
    BY <1>1
  <2> QED BY <1>1, <2>1 DEF SourceIInv, StreamIInv, CountInv
<1> QED BY <1>3, <1>4, <1>5 DEF SourceIInv, StreamIInv

(* The plan is copied before the stream finishes. *)
LEMMA WritingKeepsPlan ==
  ASSUME SourceIInv, Writing
  PROVE  PlanInv'
<1>1. open /\ open' = open /\ copied' = copied /\ planned' = planned
  BY DEF Writing, zipvars
<1>2. CASE result' # "ok"
  BY <1>1, <1>2 DEF PlanInv
<1>3. CASE result' = "ok" /\ result = "ok"
  BY <1>1, <1>3 DEF SourceIInv, PlanInv
<1>4. CASE result' = "ok" /\ result # "ok"
  <2>1. copied = planned
    BY <1>4
    DEF Writing, Write, Finish, FillChunk, SendChunk, SendRefused, InputFails,
        ReportError, Panic
  <2> QED BY <1>1, <2>1 DEF PlanInv
<1> QED BY <1>2, <1>3, <1>4

(* Every step of the source keeps the invariant. *)
LEMMA SourceStepInv ==
  ASSUME SourceIInv, [SourceNext]_allvars
  PROVE  SourceIInv'
<1>1. CASE Preparing \/ OtherPrograms \/ UNCHANGED allvars
  <2>1. UNCHANGED <<streamvars, zipvars>>
    BY <1>1 DEF Preparing, OtherPrograms, allvars
  <2>2. PlanInv'
    BY <2>1 DEF SourceIInv, PlanInv, streamvars, zipvars
  <2> QED BY <2>1, <2>2, StreamKeeps DEF SourceIInv
<1>2. CASE OpenEntry
  <2>1. UNCHANGED streamvars /\ UNCHANGED <<open, planned>> /\ open /\ result = "none"
    BY <1>2 DEF OpenEntry
  <2>2. PlanInv'
    BY <2>1 DEF PlanInv, streamvars
  <2> QED BY <2>1, <2>2, StreamKeeps DEF SourceIInv
<1>3. CASE Writing
  <2>1. Next
    BY <1>3 DEF Writing, Next, WriterStep
  <2> QED BY <1>3, <2>1, StreamKeeps, WritingKeepsPlan DEF SourceIInv
<1>4. CASE Reading
  <2>1. Next /\ UNCHANGED zipvars /\ open
    BY <1>4 DEF Reading, Next
  <2>2. result' = result
    BY <1>4 DEF Reading, ConsumerStep, TakeChunk, TakeError, EndOfStream, Cancel
  <2>3. PlanInv'
    BY <2>1, <2>2 DEF SourceIInv, PlanInv, zipvars
  <2> QED BY <2>1, <2>3, StreamKeeps DEF SourceIInv
<1> QED BY <1>1, <1>2, <1>3, <1>4, OpenKeeps DEF SourceNext

(* The strengthening holds of every reachable state. *)
LEMMA SourceInvariant == SourceSpec => []SourceIInv
BY SourceInitInv, SourceStepInv, PTL DEF SourceSpec

(***************************************************************************)
(* Of every archive, however the zip library splits its writes and whoever *)
(* fails or gives up: the chunks the transfer reads are full but for the   *)
(* last, and the end of the stream is the end of the archive and of the    *)
(* plan.                                                                   *)
(***************************************************************************)
THEOREM StreamAlwaysSource == SourceSpec => []StreamIsSource
<1> USE ZipAssumption
<1>1. SourceIInv => StreamIsSource
  <2> SUFFICES ASSUME SourceIInv PROVE StreamIsSource
    OBVIOUS
  <2>1. OnlyLastShort
    BY DEF SourceIInv, StreamIInv, StreamTypes, TakenInv, OnlyLastShort
  <2>2. EofIsWholeArchive
    <3> SUFFICES ASSUME cpc = "eof" PROVE result = "ok" /\ Total(taken) = archive
      BY DEF EofIsWholeArchive
    <3>1. /\ wpc = "ended" /\ result = "ok" /\ queue = <<>> /\ written = archive
          /\ input = 0 /\ chunk = 0
      BY DEF SourceIInv, StreamIInv, QueueInv, ThreadInv, AllSent
    <3>2. Total(queue) = 0 /\ Total(taken) \in Nat
      BY <3>1, TotalEmpty, TotalType DEF SourceIInv, StreamIInv, StreamTypes
    <3> QED BY <3>1, <3>2 DEF SourceIInv, StreamIInv, CountInv
  <2>3. cpc = "eof" => copied = planned
    BY DEF SourceIInv, StreamIInv, QueueInv, PlanInv, AllSent
  <2> QED BY <2>1, <2>2, <2>3 DEF StreamIsSource
<1> QED BY <1>1, SourceInvariant, PTL

(***************************************************************************)
(* What is generated of an archive and not yet taken by the transfer is at *)
(* most the channel's capacity and one chunk, for every capacity and size. *)
(***************************************************************************)
THEOREM MemoryAlwaysBounded == SourceSpec => []BoundedMemory
<1> USE ZipAssumption
<1>1. SourceIInv => BoundedMemory
  <2> SUFFICES ASSUME SourceIInv PROVE BoundedMemory
    OBVIOUS
  <2>1. /\ queue \in Seq(Nat) /\ Len(queue) \in Nat /\ Len(queue) <= QueueCap
        /\ chunk \in 0 .. ChunkSize
    BY DEF SourceIInv, StreamIInv, StreamTypes
  <2>2. \A i \in 1 .. Len(queue) : queue[i] <= ChunkSize
    BY QueueItem DEF SourceIInv, Failure
  <2>3. Total(queue) <= Len(queue) * ChunkSize /\ Total(queue) \in Nat
    BY <2>1, <2>2, TotalBound, TotalType
  <2>4. Len(queue) * ChunkSize <= QueueCap * ChunkSize
    BY <2>1, TimesMonotone
  <2>5. (QueueCap + 1) * ChunkSize = QueueCap * ChunkSize + ChunkSize
    OBVIOUS
  <2> DEFINE most == QueueCap * ChunkSize
  <2>6. most \in Nat /\ Total(queue) <= most
    BY <2>1, <2>3, <2>4
  <2>7. (QueueCap + 1) * ChunkSize = most + ChunkSize
    BY <2>5
  <2> HIDE DEF most
  <2>8. Total(queue) + chunk <= most + ChunkSize
    BY <2>1, <2>3, <2>6
  <2> QED BY <2>7, <2>8 DEF BoundedMemory
<1> QED BY <1>1, SourceInvariant, PTL

-----------------------------------------------------------------------------
(* The routes of the selection: the paths that lead from an input on       *)

Leads(p, i) == disk[p[i]] = "dir" \/ (disk[p[i]] = "dirlink" /\ i = 1)
Follows(p, i) == p[i] \in S!Inside(p[i - 1]) /\ Leads(p, i - 1)
Route(p) ==
    /\ p \in Seq(Nodes) /\ p # <<>> /\ p[1] \in S!Range(inputs)
    /\ \A i \in 2 .. Len(p) : Follows(p, i)
RoutesOf(n) == {p \in Seq(Nodes) : Route(p) /\ Len(p) = n}

DiskTypes ==
    /\ disk \in [Nodes -> S!Kinds] /\ inputs \in Seq(Nodes)
    /\ touched \subseteq Nodes

(* SendSource counts as the library does. *)
LEMMA SameCardinality ==
  ASSUME NEW set
  PROVE  S!Cardinality(set) = Cardinality(set)
BY DEF S!Cardinality, Cardinality

(* After the second node a route goes down the tree, to greater numbers. *)
LEMMA RouteGrows ==
  ASSUME DiskTypes, NEW p, Route(p), NEW i \in 3 .. Len(p)
  PROVE  p[i - 1] < p[i]
<1> USE SourceAssumption
<1>1. /\ i \in 1 .. Len(p) /\ i - 1 \in 1 .. Len(p) /\ i \in 2 .. Len(p)
      /\ p[i] \in Nodes /\ p[i - 1] \in Nodes
  BY DEF Route
<1>2. disk[p[i - 1]] = "dir" /\ p[i] \in S!Inside(p[i - 1])
  BY <1>1 DEF Route, Follows, Leads
<1>3. Parent[p[i]] = p[i - 1] /\ p[i] # p[i - 1]
  BY <1>2 DEF S!Inside, S!Directory
<1>4. Parent[p[i]] <= p[i] /\ p[i] \in Nat /\ p[i - 1] \in Nat
  BY <1>1
<1> QED BY <1>3, <1>4

(* So it meets no node twice, and is no longer than the tree allows. *)
LEMMA RouteShort ==
  ASSUME DiskTypes, NEW p, Route(p)
  PROVE  Len(p) \in 1 .. S!Longest
<1> USE SourceAssumption
<1>1. p \in Seq(Nodes) /\ Len(p) \in Nat /\ Len(p) >= 1
  BY DEF Route
<1>2. \A i \in 2 .. Len(p) : p[i] \in Nodes /\ p[i] \in Nat
  BY <1>1
<1> DEFINE Reached == {d \in Nat : \A i \in 2 .. Len(p) : i + d + 1 <= Len(p) => p[i] < p[i + d + 1]}
<1>3. 0 \in Reached
  <2> SUFFICES ASSUME NEW i \in 2 .. Len(p), i + 0 + 1 <= Len(p) PROVE p[i] < p[i + 0 + 1]
    OBVIOUS
  <2>1. i + 1 \in 3 .. Len(p) /\ (i + 1) - 1 = i /\ i + 0 + 1 = i + 1
    BY <1>1
  <2>2. p[(i + 1) - 1] < p[i + 1]
    BY <2>1, RouteGrows
  <2> QED BY <2>1, <2>2
<1>4. ASSUME NEW d \in Nat, d \in Reached PROVE d + 1 \in Reached
  <2> SUFFICES ASSUME NEW i \in 2 .. Len(p), i + (d + 1) + 1 <= Len(p)
               PROVE  p[i] < p[i + (d + 1) + 1]
    OBVIOUS
  <2>1. /\ i + (d + 1) + 1 \in 3 .. Len(p) /\ (i + (d + 1) + 1) - 1 = i + d + 1
        /\ i + d + 1 \in 2 .. Len(p) /\ i + (d + 1) + 1 \in 2 .. Len(p)
    BY <1>1
  <2>2. p[i + d + 1] < p[i + (d + 1) + 1]
    BY <2>1, RouteGrows
  <2>3. p[i] < p[i + d + 1]
    BY <1>4, <2>1
  <2> QED BY <1>2, <2>1, <2>2, <2>3
<1>5. Nat \subseteq Reached
  <2> HIDE DEF Reached
  <2> QED BY <1>3, <1>4, Induction
<1>6. \A i, j \in 2 .. Len(p) : i < j => p[i] < p[j]
  <2> TAKE i, j \in 2 .. Len(p)
  <2> HAVE i < j
  <2>1. j - i - 1 \in Nat /\ i + (j - i - 1) + 1 = j
    BY <1>1
  <2>2. j - i - 1 \in Reached
    BY <1>5, <2>1
  <2> QED BY <2>1, <2>2
<1> DEFINE f == [i \in 2 .. Len(p) |-> p[i]]
<1>7. f \in Injection(2 .. Len(p), Nodes)
  <2>1. f \in [2 .. Len(p) -> Nodes]
    BY <1>2
  <2>2. ASSUME NEW i \in 2 .. Len(p), NEW j \in 2 .. Len(p), f[i] = f[j] PROVE i = j
    <3>1. ~ (p[i] < p[j]) /\ ~ (p[j] < p[i])
      BY <1>2, <2>2
    <3>2. ~ (i < j) /\ ~ (j < i)
      BY <1>6, <3>1
    <3> QED BY <3>2
  <2> QED BY <2>1, <2>2 DEF Injection, IsInjective
<1>8. Cardinality(2 .. Len(p)) <= Cardinality(Nodes)
  <2> HIDE DEF f
  <2> QED BY <1>7, FS_Injection
<1>9. Cardinality(2 .. Len(p)) = Len(p) - 1
  BY <1>1, FS_Interval
<1>10. Cardinality(Nodes) \in Nat
  BY FS_CardinalityType
<1>11. S!Longest = Cardinality(Nodes) + 1
  BY SameCardinality DEF S!Longest
<1> QED BY <1>1, <1>8, <1>9, <1>10, <1>11

(* Routes of one node more are those that lead on, with what they lead to. *)
LEMMA RoutesLonger ==
  ASSUME DiskTypes, NEW n \in Nat, n >= 1
  PROVE  S!Longer(RoutesOf(n)) = RoutesOf(n + 1)
<1>1. ASSUME NEW p \in RoutesOf(n), S!LeadsOn(p), NEW c \in S!Inside(S!Last(p))
      PROVE  Append(p, c) \in RoutesOf(n + 1)
  <2>1. p \in Seq(Nodes) /\ Route(p) /\ Len(p) = n /\ c \in Nodes
    BY DEF RoutesOf, S!Inside
  <2> DEFINE q == Append(p, c)
  <2>2. /\ q \in Seq(Nodes) /\ Len(q) = n + 1 /\ q # <<>> /\ q[n + 1] = c
        /\ \A i \in 1 .. n : q[i] = p[i]
    BY <2>1
  <2> HIDE DEF q
  <2>3. q[1] \in S!Range(inputs)
    BY <2>1, <2>2 DEF Route
  <2>4. ASSUME NEW i \in 2 .. n + 1 PROVE Follows(q, i)
    <3>1. CASE i = n + 1
      <4>1. i - 1 = n /\ n \in 1 .. n /\ q[i - 1] = S!Last(p) /\ p[n] = S!Last(p)
        BY <2>1, <2>2, <3>1 DEF S!Last
      <4>2. Leads(q, i - 1)
        BY <1>1, <2>1, <4>1 DEF Leads, S!LeadsOn
      <4> QED BY <2>2, <3>1, <4>1, <4>2 DEF Follows
    <3>2. CASE i # n + 1
      <4>1. i \in 2 .. Len(p) /\ i \in 1 .. n /\ i - 1 \in 1 .. n
        BY <2>1, <3>2
      <4>2. Follows(p, i) /\ q[i] = p[i] /\ q[i - 1] = p[i - 1]
        BY <2>1, <2>2, <4>1 DEF Route
      <4> QED BY <4>2 DEF Follows, Leads
    <3> QED BY <3>1, <3>2
  <2>5. Route(q)
    BY <2>2, <2>3, <2>4 DEF Route
  <2> QED BY <2>2, <2>5 DEF RoutesOf, q
<1>2. ASSUME NEW q \in RoutesOf(n + 1)
      PROVE  \E p \in RoutesOf(n) :
                S!LeadsOn(p) /\ \E c \in S!Inside(S!Last(p)) : q = Append(p, c)
  <2>1. q \in Seq(Nodes) /\ Route(q) /\ Len(q) = n + 1
    BY DEF RoutesOf
  <2> DEFINE p == [i \in 1 .. n |-> q[i]]
  <2>2. /\ p \in Seq(Nodes) /\ Len(p) = n /\ p # <<>>
        /\ \A i \in 1 .. n : p[i] = q[i]
    BY <2>1
  <2> HIDE DEF p
  <2>3. \A i \in 2 .. n : i \in 2 .. Len(q) /\ i \in 1 .. n /\ i - 1 \in 1 .. n
    BY <2>1
  <2>4. ASSUME NEW i \in 2 .. n PROVE Follows(p, i)
    BY <2>1, <2>2, <2>3 DEF Route, Follows, Leads
  <2>5. p[1] \in S!Range(inputs)
    BY <2>1, <2>2 DEF Route
  <2>6. p \in RoutesOf(n)
    BY <2>2, <2>4, <2>5 DEF RoutesOf, Route
  <2>7. n + 1 \in 2 .. Len(q) /\ (n + 1) - 1 = n /\ n \in 1 .. n
    BY <2>1
  <2>8. Follows(q, n + 1)
    BY <2>1, <2>7 DEF Route
  <2>9. S!Last(p) = q[n]
    BY <2>2, <2>7 DEF S!Last
  <2>10. S!LeadsOn(p) /\ q[n + 1] \in S!Inside(S!Last(p))
    BY <2>2, <2>7, <2>8, <2>9 DEF Follows, Leads, S!LeadsOn
  <2>11. q = Append(p, q[n + 1])
    <3> DEFINE r == Append(p, q[n + 1])
    <3>1. q[n + 1] \in Nodes
      BY <2>1, <2>7
    <3>2. r \in Seq(Nodes) /\ Len(r) = n + 1 /\ \A i \in 1 .. n + 1 : r[i] = q[i]
      BY <2>2, <3>1
    <3> HIDE DEF r
    <3>3. r = q
      BY <2>1, <3>2, SeqEqual
    <3> QED BY <3>3 DEF r
  <2> QED BY <2>6, <2>10, <2>11
<1>3. ASSUME NEW q \in S!Longer(RoutesOf(n)) PROVE q \in RoutesOf(n + 1)
  <2>1. PICK p \in RoutesOf(n) :
            S!LeadsOn(p) /\ \E c \in S!Inside(S!Last(p)) : q = Append(p, c)
    BY DEF S!Longer
  <2> QED BY <1>1, <2>1
<1>4. RoutesOf(n + 1) \subseteq S!Longer(RoutesOf(n))
  BY <1>2 DEF S!Longer
<1> QED BY <1>3, <1>4

(* A route of one node is an input. *)
LEMMA RoutesFirst ==
  ASSUME DiskTypes
  PROVE  RoutesOf(1) = {<<i>> : i \in S!Range(inputs)}
<1>1. ASSUME NEW i \in S!Range(inputs) PROVE <<i>> \in RoutesOf(1)
  <2>1. i \in Nodes
    BY DEF DiskTypes, S!Range
  <2>2. <<i>> \in Seq(Nodes) /\ Len(<<i>>) = 1 /\ <<i>>[1] = i /\ <<i>> # <<>>
    BY <2>1
  <2>3. \A k \in 2 .. 1 : FALSE
    OBVIOUS
  <2> QED BY <2>2, <2>3 DEF RoutesOf, Route
<1>2. ASSUME NEW p \in RoutesOf(1) PROVE \E i \in S!Range(inputs) : p = <<i>>
  <2>1. p \in Seq(Nodes) /\ Len(p) = 1 /\ p[1] \in S!Range(inputs)
    BY DEF RoutesOf, Route
  <2>2. p = <<p[1]>>
    BY <2>1
  <2> QED BY <2>1, <2>2
<1> QED BY <1>1, <1>2

(* PathsOf satisfies the equation that defines it, and has the routes. *)
LEMMA PathsAreRoutes ==
  ASSUME DiskTypes, NEW n \in 1 .. S!Longest
  PROVE  S!PathsOf[n] = RoutesOf(n)
<1> USE SourceAssumption
<1>0. S!Longest \in Nat /\ S!Longest >= 1
  BY FS_CardinalityType, SameCardinality DEF S!Longest
<1> DEFINE First == {<<i>> : i \in S!Range(inputs)}
<1> DEFINE Body(f) ==
      [k \in 1 .. S!Longest |-> IF k = 1 THEN First ELSE S!Longer(f[k - 1])]
<1> DEFINE F == [k \in 1 .. S!Longest |-> RoutesOf(k)]
<1>1. F = Body(F)
  <2>1. ASSUME NEW k \in 1 .. S!Longest
        PROVE  RoutesOf(k) = IF k = 1 THEN First ELSE S!Longer(F[k - 1])
    <3>1. CASE k = 1
      BY <3>1, RoutesFirst
    <3>2. CASE k # 1
      <4>1. k - 1 \in 1 .. S!Longest /\ k - 1 \in Nat /\ k - 1 >= 1 /\ (k - 1) + 1 = k
        BY <1>0, <3>2
      <4>2. F[k - 1] = RoutesOf(k - 1)
        BY <4>1
      <4>3. S!Longer(RoutesOf(k - 1)) = RoutesOf((k - 1) + 1)
        BY <4>1, RoutesLonger
      <4> QED BY <3>2, <4>1, <4>2, <4>3
    <3> QED BY <3>1, <3>2
  <2> QED BY <2>1
<1>2. S!PathsOf = Body(S!PathsOf)
  <2>1. S!PathsOf = CHOOSE f : f = Body(f)
    BY DEF S!PathsOf
  <2> HIDE DEF F, Body
  <2> QED BY <1>1, <2>1
<1> DEFINE Reached == {k \in Nat : k + 1 <= S!Longest => S!PathsOf[k + 1] = RoutesOf(k + 1)}
<1>3. 0 \in Reached
  <2>1. 0 + 1 = 1 /\ 1 \in 1 .. S!Longest
    BY <1>0
  <2>2. S!PathsOf[1] = First
    BY <1>2, <2>1
  <2> QED BY <2>1, <2>2, RoutesFirst
<1>4. ASSUME NEW k \in Nat, k \in Reached PROVE k + 1 \in Reached
  <2> SUFFICES ASSUME (k + 1) + 1 <= S!Longest
               PROVE  S!PathsOf[(k + 1) + 1] = RoutesOf((k + 1) + 1)
    OBVIOUS
  <2>1. /\ (k + 1) + 1 \in 1 .. S!Longest /\ (k + 1) + 1 # 1 /\ ((k + 1) + 1) - 1 = k + 1
        /\ k + 1 <= S!Longest /\ k + 1 \in Nat /\ k + 1 >= 1
    BY <1>0
  <2>2. S!PathsOf[(k + 1) + 1] = S!Longer(S!PathsOf[k + 1])
    BY <1>2, <2>1
  <2>3. S!PathsOf[k + 1] = RoutesOf(k + 1)
    BY <1>4, <2>1
  <2> QED BY <2>1, <2>2, <2>3, RoutesLonger
<1>5. Nat \subseteq Reached
  <2> HIDE DEF Reached
  <2> QED BY <1>3, <1>4, Induction
<1>6. n - 1 \in Nat /\ (n - 1) + 1 = n /\ n <= S!Longest
  BY <1>0
<1>7. n - 1 \in Reached
  BY <1>5, <1>6
<1> QED BY <1>6, <1>7

(* The files of the selection are the ends of its routes. *)
LEMMA SelectedIs ==
  ASSUME DiskTypes, NEW p
  PROVE  p \in S!Selected <=> Route(p) /\ disk[S!Last(p)] \in {"file", "filelink"}
<1>1. ASSUME p \in S!Selected PROVE Route(p) /\ disk[S!Last(p)] \in {"file", "filelink"}
  <2>1. PICK n \in 1 .. S!Longest : p \in S!PathsOf[n]
    BY <1>1 DEF S!Selected
  <2>2. p \in RoutesOf(n)
    BY <2>1, PathsAreRoutes
  <2> QED BY <1>1, <2>2 DEF RoutesOf, S!Selected
<1>2. ASSUME Route(p), disk[S!Last(p)] \in {"file", "filelink"} PROVE p \in S!Selected
  <2>1. Len(p) \in 1 .. S!Longest
    BY <1>2, RouteShort
  <2>2. p \in S!PathsOf[Len(p)]
    BY <1>2, <2>1, PathsAreRoutes DEF RoutesOf, Route
  <2> QED BY <1>2, <2>1, <2>2 DEF S!Selected
<1> QED BY <1>1, <1>2
-----------------------------------------------------------------------------
(* The invariant of the walk *)

Looks ==
    [path : Seq(Nodes), how : {"metadata", "read_dir", "symlink_metadata", "follow"}]

(* A path as the walk makes them: of what nobody touched, a route. *)
Walked(p) ==
    /\ p \in Seq(Nodes) /\ p # <<>> /\ p[1] \in S!Range(inputs)
    /\ \A i \in 2 .. Len(p) : p[i - 1] \notin touched => Follows(p, i)

RightLook(look) ==
    /\ Walked(look.path)
    /\ look.how = "metadata" => Len(look.path) = 1
    /\ look.how \in {"symlink_metadata", "follow"} => Len(look.path) >= 2
    /\ S!Last(look.path) \notin touched =>
          /\ look.how = "read_dir" => Leads(look.path, Len(look.path))
          /\ look.how = "symlink_metadata" => disk[S!Last(look.path)] # "none"
RightEntry(p) ==
    /\ Walked(p)
    /\ S!Last(p) \notin touched => disk[S!Last(p)] \in {"file", "filelink"}

(* The look is yet to find the file at the end of the route q. *)
Begins(p, q) == Len(p) <= Len(q) /\ \A i \in 1 .. Len(p) : q[i] = p[i]
Covers(look, q) ==
    /\ Begins(look.path, q)
    /\ look.how = "read_dir" => Len(look.path) < Len(q)
    /\ look.how = "follow" => Len(look.path) = Len(q)
Found == S!Untouched(S!Selected)

Fork(p, q) == \E k \in DOMAIN p \cap DOMAIN q : p[k] # q[k]
NamesDiffer ==
    \A i, j \in DOMAIN inputs : Name[inputs[i]] = Name[inputs[j]] => i = j

WalkTypes ==
    /\ DiskTypes /\ todo \in Seq(Looks)
    /\ pc \in {"start", "walking", "sizing", "ready", "failed"}
    /\ pc = "start" => entries = {} /\ todo = <<>>
LooksInv == \A i \in DOMAIN todo : RightLook(todo[i])
EntriesInv ==
    /\ \A p \in entries : RightEntry(p)
    /\ \A p, q \in entries : S!Key(p) = S!Key(q) => p = q
CoverInv ==
    /\ pc = "walking" =>
          \A q \in Found : q \in entries \/ \E i \in DOMAIN todo : Covers(todo[i], q)
    /\ pc \in {"sizing", "ready"} => Found \subseteq entries
ForkInv ==
    NamesDiffer =>
        /\ \A i, j \in DOMAIN todo : i # j => Fork(todo[i].path, todo[j].path)
        /\ \A p \in entries, i \in DOMAIN todo : Fork(p, todo[i].path)
ReasonInv == pc = "failed" => touched # {} \/ S!Refusable
WalkInv ==
    WalkTypes /\ LooksInv /\ EntriesInv /\ CoverInv /\ ForkInv /\ ReasonInv

-----------------------------------------------------------------------------
(* The steps of the walk *)

(* What the walk leaves alone, while it looks, is the reference. *)
LEMMA SameSelection ==
  ASSUME UNCHANGED <<inputs, disk, touched>>
  PROVE  /\ Found' = Found /\ S!Refusable' = S!Refusable /\ DiskTypes' = DiskTypes
         /\ NamesDiffer' = NamesDiffer
         /\ \A p : Walked(p)' = Walked(p) /\ RightEntry(p)' = RightEntry(p)
         /\ \A l : RightLook(l)' = RightLook(l)
<1>1. S!Selected' = S!Selected
  BY DEF S!Selected, S!PathsOf, S!Longer, S!LeadsOn, S!Inside, S!Directory
<1>2. Found' = Found
  BY <1>1 DEF Found, S!Untouched
<1>3. DiskTypes' = DiskTypes /\ NamesDiffer' = NamesDiffer
  BY DEF DiskTypes, NamesDiffer
<1>4. S!Refusable' = S!Refusable
  BY <1>1 DEF S!Refusable, S!Metadata
<1>5. \A p : Walked(p)' = Walked(p)
  BY DEF Walked, Follows, Leads, S!Inside, S!Directory
<1>6. \A p : RightEntry(p)' = RightEntry(p)
  BY <1>5 DEF RightEntry
<1>7. \A l : RightLook(l)' = RightLook(l)
  BY <1>5 DEF RightLook, Leads
<1> QED BY <1>2, <1>3, <1>4, <1>5, <1>6, <1>7

(* The looks that take the place of the first one. *)
LEMMA Instead ==
  ASSUME NEW T, NEW s \in Seq(T), s # <<>>, NEW t \in Seq(T)
  PROVE  LET r == t \o Tail(s) IN
         /\ r \in Seq(T)
         /\ \A i \in DOMAIN r :
               \/ i \in DOMAIN t /\ r[i] = t[i]
               \/ \E j \in 2 .. Len(s) : i = Len(t) + j - 1 /\ r[i] = s[j]
         /\ \A i \in DOMAIN t : i \in DOMAIN r /\ r[i] = t[i]
         /\ \A j \in 2 .. Len(s) :
               Len(t) + j - 1 \in DOMAIN r /\ r[Len(t) + j - 1] = s[j]
<1> DEFINE u == Tail(s)
<1> DEFINE r == t \o u
<1>1. u \in Seq(T) /\ Len(u) = Len(s) - 1 /\ \A i \in 1 .. Len(s) - 1 : u[i] = s[i + 1]
  OBVIOUS
<1> HIDE DEF u
<1>2. /\ r \in Seq(T) /\ Len(r) = Len(t) + Len(u)
      /\ \A i \in 1 .. Len(t) + Len(u) : r[i] = IF i <= Len(t) THEN t[i] ELSE u[i - Len(t)]
  BY <1>1, ConcatProperties
<1>3. DOMAIN r = 1 .. Len(t) + Len(s) - 1 /\ DOMAIN t = 1 .. Len(t)
  BY <1>1, <1>2
<1> HIDE DEF r
<1>4. ASSUME NEW i \in DOMAIN t PROVE i \in DOMAIN r /\ r[i] = t[i]
  BY <1>1, <1>2, <1>3
<1>5. ASSUME NEW j \in 2 .. Len(s)
      PROVE  Len(t) + j - 1 \in DOMAIN r /\ r[Len(t) + j - 1] = s[j]
  <2>1. /\ Len(t) + j - 1 \in 1 .. Len(t) + Len(u) /\ ~ (Len(t) + j - 1 <= Len(t))
        /\ (Len(t) + j - 1) - Len(t) = j - 1 /\ j - 1 \in 1 .. Len(s) - 1 /\ (j - 1) + 1 = j
    BY <1>1
  <2> QED BY <1>1, <1>2, <1>3, <2>1
<1>6. ASSUME NEW i \in DOMAIN r
      PROVE  \/ i \in DOMAIN t /\ r[i] = t[i]
             \/ \E j \in 2 .. Len(s) : i = Len(t) + j - 1 /\ r[i] = s[j]
  <2>1. CASE i <= Len(t)
    BY <1>3, <1>4, <2>1
  <2>2. CASE ~ (i <= Len(t))
    <3>1. i - Len(t) + 1 \in 2 .. Len(s) /\ i = Len(t) + (i - Len(t) + 1) - 1
      BY <1>1, <1>3, <2>2
    <3> QED BY <1>5, <3>1
  <2> QED BY <2>1, <2>2
<1> QED BY <1>2, <1>4, <1>5, <1>6 DEF r, u

(* What begins with a path forks from whatever that forks from. *)
LEMMA BeginsForks ==
  ASSUME NEW p \in Seq(Nodes), NEW q \in Seq(Nodes), NEW r \in Seq(Nodes),
         Begins(p, q), Fork(r, p)
  PROVE  Fork(r, q) /\ Fork(q, r)
<1>1. PICK k \in DOMAIN r \cap DOMAIN p : r[k] # p[k]
  BY DEF Fork
<1>2. k \in 1 .. Len(p) /\ k \in DOMAIN q /\ q[k] = p[k]
  BY <1>1 DEF Begins
<1> QED BY <1>1, <1>2 DEF Fork

(* The first look and the others. *)
LEMMA FirstLook ==
  ASSUME WalkInv, todo # <<>>
  PROVE  /\ 1 \in DOMAIN todo /\ Head(todo) = todo[1] /\ S!Path = todo[1].path
         /\ RightLook(Head(todo)) /\ S!Path \in Seq(Nodes) /\ S!Path # <<>>
         /\ S!At = S!Path[Len(S!Path)] /\ S!At = S!Last(S!Path) /\ S!At \in Nodes
         /\ S!At \in S!Range(S!Path)
         /\ \A j \in 2 .. Len(todo) : j \in DOMAIN todo /\ j # 1
<1>1. 1 \in DOMAIN todo /\ Head(todo) = todo[1]
      /\ \A j \in 2 .. Len(todo) : j \in DOMAIN todo /\ j # 1
  BY DEF WalkInv, WalkTypes
<1>2. RightLook(Head(todo)) /\ S!Path = todo[1].path
  BY <1>1 DEF WalkInv, LooksInv, S!Path
<1>3. S!Path \in Seq(Nodes) /\ S!Path # <<>>
  BY <1>1, <1>2 DEF RightLook, Walked
<1>4. S!At = S!Path[Len(S!Path)] /\ S!At = S!Last(S!Path)
  BY DEF S!At, S!Last
<1>5. Len(S!Path) \in DOMAIN S!Path
  BY <1>3
<1>6. S!At \in Nodes /\ S!At \in S!Range(S!Path)
  <2>1. S!Path[Len(S!Path)] \in Nodes
    BY <1>3, <1>5
  <2>2. S!Path[Len(S!Path)] \in S!Range(S!Path)
    BY <1>5 DEF S!Range
  <2> QED BY <1>4, <2>1, <2>2
<1> QED BY <1>1, <1>2, <1>3, <1>4, <1>6

(* Looks put in the place of the first one keep the invariant if they are  *)
(* right, fork from each other and find what it would have found.          *)
LEMMA ThenKeeps ==
  ASSUME WalkInv, S!Walking, NEW looks \in Seq(Looks), S!Then(looks),
         \A i \in DOMAIN looks : RightLook(looks[i]) /\ Begins(S!Path, looks[i].path),
         \A i, j \in DOMAIN looks : i # j => Fork(looks[i].path, looks[j].path),
         \A q \in Found : Covers(Head(todo), q) =>
            \E i \in DOMAIN looks : Covers(looks[i], q)
  PROVE  WalkInv'
<1>0. /\ pc = "walking" /\ todo # <<>> /\ pc' = pc /\ entries' = entries
      /\ UNCHANGED <<inputs, disk, touched>> /\ todo' = looks \o Tail(todo)
  BY DEF S!Walking, S!Then, S!diskvars
<1>1. todo \in Seq(Looks)
  BY DEF WalkInv, WalkTypes
<1>2. /\ todo' \in Seq(Looks)
      /\ \A i \in DOMAIN todo' :
            \/ i \in DOMAIN looks /\ todo'[i] = looks[i]
            \/ \E j \in 2 .. Len(todo) : i = Len(looks) + j - 1 /\ todo'[i] = todo[j]
      /\ \A i \in DOMAIN looks : i \in DOMAIN todo' /\ todo'[i] = looks[i]
      /\ \A j \in 2 .. Len(todo) :
            Len(looks) + j - 1 \in DOMAIN todo' /\ todo'[Len(looks) + j - 1] = todo[j]
  <2> DEFINE r == looks \o Tail(todo)
  <2>1. /\ r \in Seq(Looks)
        /\ \A i \in DOMAIN r :
              \/ i \in DOMAIN looks /\ r[i] = looks[i]
              \/ \E j \in 2 .. Len(todo) : i = Len(looks) + j - 1 /\ r[i] = todo[j]
        /\ \A i \in DOMAIN looks : i \in DOMAIN r /\ r[i] = looks[i]
        /\ \A j \in 2 .. Len(todo) :
              Len(looks) + j - 1 \in DOMAIN r /\ r[Len(looks) + j - 1] = todo[j]
    BY <1>0, <1>1, Instead
  <2>2. todo' = r
    BY <1>0
  <2> HIDE DEF r
  <2> QED BY <2>1, <2>2
<1>3. /\ 1 \in DOMAIN todo /\ Head(todo) = todo[1] /\ S!Path = todo[1].path
      /\ \A j \in 2 .. Len(todo) : j \in DOMAIN todo /\ j # 1
      /\ S!Path \in Seq(Nodes)
  BY <1>0, FirstLook
<1>4. \A j \in DOMAIN todo : RightLook(todo[j])
  BY DEF WalkInv, LooksInv
<1>5. WalkTypes'
  BY <1>0, <1>2, SameSelection DEF WalkInv, WalkTypes
<1>6. LooksInv'
  BY <1>0, <1>2, <1>3, <1>4, SameSelection DEF LooksInv
<1>7. EntriesInv'
  BY <1>0, SameSelection DEF WalkInv, EntriesInv, S!Key
<1>8. CoverInv'
  <2> SUFFICES ASSUME NEW q \in Found, q \notin entries
               PROVE  \E i \in DOMAIN todo' : Covers(todo'[i], q)
    BY <1>0, SameSelection DEF CoverInv, Covers, Begins
  <2>1. PICK j \in DOMAIN todo : Covers(todo[j], q)
    BY <1>0 DEF WalkInv, CoverInv
  <2>2. CASE j = 1
    <3>1. PICK i \in DOMAIN looks : Covers(looks[i], q)
      BY <1>3, <2>1, <2>2
    <3> QED BY <1>2, <3>1
  <2>3. CASE j # 1
    <3>1. j \in 2 .. Len(todo)
      BY <1>1, <2>3
    <3> QED BY <1>2, <2>1, <3>1
  <2> QED BY <2>2, <2>3
<1>9. ForkInv'
  <2> SUFFICES ASSUME NamesDiffer
               PROVE  /\ \A i, j \in DOMAIN todo' : i # j => Fork(todo'[i].path, todo'[j].path)
                      /\ \A p \in entries, i \in DOMAIN todo' : Fork(p, todo'[i].path)
    BY <1>0, SameSelection DEF ForkInv, Fork
  <2>1. /\ \A i, j \in DOMAIN todo : i # j => Fork(todo[i].path, todo[j].path)
        /\ \A p \in entries, i \in DOMAIN todo : Fork(p, todo[i].path)
    BY DEF WalkInv, ForkInv
  <2>2. \A i \in DOMAIN looks : looks[i].path \in Seq(Nodes) /\ Begins(S!Path, looks[i].path)
    BY DEF RightLook, Walked
  <2>3. \A j \in DOMAIN todo : todo[j].path \in Seq(Nodes)
    BY <1>4 DEF RightLook, Walked
  <2>4. \A p \in entries : p \in Seq(Nodes)
    BY DEF WalkInv, EntriesInv, RightEntry, Walked
  <2>5. \A p \in entries, i \in DOMAIN looks : Fork(p, looks[i].path)
    BY <1>3, <2>1, <2>2, <2>4, BeginsForks
  <2>6. \A i \in DOMAIN looks, j \in 2 .. Len(todo) :
            Fork(looks[i].path, todo[j].path) /\ Fork(todo[j].path, looks[i].path)
    BY <1>3, <2>1, <2>2, <2>3, BeginsForks
  <2>7. \A p \in entries, i \in DOMAIN todo' : Fork(p, todo'[i].path)
    BY <1>2, <1>3, <2>1, <2>5
  <2>8. ASSUME NEW i \in DOMAIN todo', NEW j \in DOMAIN todo', i # j
        PROVE  Fork(todo'[i].path, todo'[j].path)
    <3>1. CASE i \in DOMAIN looks /\ todo'[i] = looks[i]
      BY <1>2, <2>6, <2>8, <3>1
    <3>2. CASE \E k \in 2 .. Len(todo) : i = Len(looks) + k - 1 /\ todo'[i] = todo[k]
      <4>1. PICK k \in 2 .. Len(todo) : i = Len(looks) + k - 1 /\ todo'[i] = todo[k]
        BY <3>2
      <4>2. CASE j \in DOMAIN looks /\ todo'[j] = looks[j]
        BY <2>6, <4>1, <4>2
      <4>3. CASE \E m \in 2 .. Len(todo) : j = Len(looks) + m - 1 /\ todo'[j] = todo[m]
        <5>1. PICK m \in 2 .. Len(todo) : j = Len(looks) + m - 1 /\ todo'[j] = todo[m]
          BY <4>3
        <5>2. k # m
          BY <2>8, <4>1, <5>1
        <5> QED BY <1>3, <2>1, <4>1, <5>1, <5>2
      <4> QED BY <1>2, <4>2, <4>3
    <3> QED BY <1>2, <3>1, <3>2
  <2> QED BY <2>7, <2>8
<1>10. ReasonInv'
  BY <1>0 DEF ReasonInv
<1> QED BY <1>5, <1>6, <1>7, <1>8, <1>9, <1>10 DEF WalkInv

(* A refusal needs a reason, and nothing else. *)
LEMMA FailsKeeps ==
  ASSUME WalkInv, S!Fails, touched # {} \/ S!Refusable
  PROVE  WalkInv'
<1>1. /\ pc' = "failed" /\ todo' = <<>> /\ entries' = {}
      /\ UNCHANGED <<inputs, disk, touched>>
  BY DEF S!Fails, S!diskvars
<1>2. WalkTypes'
  BY <1>1, SameSelection DEF WalkInv, WalkTypes
<1>3. LooksInv' /\ EntriesInv' /\ CoverInv' /\ ForkInv'
  BY <1>1 DEF LooksInv, EntriesInv, CoverInv, ForkInv
<1>4. ReasonInv'
  BY <1>1, SameSelection DEF ReasonInv
<1> QED BY <1>2, <1>3, <1>4 DEF WalkInv
(* Two routes to the same key mean two inputs of the same name. *)
LEMMA SameKey ==
  ASSUME DiskTypes, touched = {}, NEW p, NEW q, Walked(p), Walked(q), Fork(p, q),
         S!Key(p) = S!Key(q)
  PROVE  ~ NamesDiffer
<1> USE SourceAssumption
<1>1. /\ p \in Seq(Nodes) /\ q \in Seq(Nodes) /\ DOMAIN p = DOMAIN q
      /\ \A i \in DOMAIN p : Name[p[i]] = Name[q[i]]
  <2>1. p \in Seq(Nodes) /\ q \in Seq(Nodes)
    BY DEF Walked
  <2>2. DOMAIN S!Key(p) = DOMAIN p /\ DOMAIN S!Key(q) = DOMAIN q
    BY DEF S!Key
  <2>3. /\ \A i \in DOMAIN p : S!Key(p)[i] = Name[p[i]]
        /\ \A i \in DOMAIN q : S!Key(q)[i] = Name[q[i]]
    BY DEF S!Key
  <2> QED BY <2>1, <2>2, <2>3
<1> DEFINE K == {k \in DOMAIN p : p[k] # q[k]}
<1>2. K \in SUBSET Nat /\ K # {}
  BY <1>1 DEF Fork
<1>3. PICK m \in K : \A k \in K : m <= k
  <2> HIDE DEF K
  <2> QED BY <1>2, Least
<1>4. m \in DOMAIN p /\ m \in DOMAIN q /\ p[m] # q[m] /\ Name[p[m]] = Name[q[m]]
      /\ m \in Nat /\ m >= 1 /\ p[m] \in Nodes /\ q[m] \in Nodes
  BY <1>1
<1>5. CASE m = 1
  <2>1. PICK i \in DOMAIN inputs : p[1] = inputs[i]
    BY DEF Walked, S!Range
  <2>2. PICK j \in DOMAIN inputs : q[1] = inputs[j]
    BY DEF Walked, S!Range
  <2> QED BY <1>4, <1>5, <2>1, <2>2 DEF NamesDiffer
<1>6. CASE m # 1
  <2>1. m - 1 \in DOMAIN p /\ m \in 2 .. Len(p) /\ m \in 2 .. Len(q) /\ ~ (m <= m - 1)
    BY <1>1, <1>4, <1>6
  <2>2. p[m - 1] = q[m - 1]
    BY <1>3, <2>1
  <2>3. Follows(p, m) /\ Follows(q, m)
    BY <2>1 DEF Walked
  <2>4. /\ Parent[p[m]] = Parent[q[m]]
        /\ p[m] # Parent[p[m]] /\ q[m] # Parent[q[m]]
    BY <2>2, <2>3 DEF Follows, S!Inside
  <2> QED BY <1>4, <2>4
<1> QED BY <1>5, <1>6

(* Two inputs of the same name are a reason. *)
LEMMA SameNameRefusable ==
  ASSUME ~ NamesDiffer
  PROVE  S!Refusable
BY DEF NamesDiffer, S!Refusable

(* The files that are found, and where a path they begin with leads. *)
LEMMA FoundIs ==
  ASSUME DiskTypes, NEW q \in Found
  PROVE  /\ q \in S!Selected /\ Route(q) /\ disk[S!Last(q)] \in {"file", "filelink"}
         /\ \A i \in 1 .. Len(q) : q[i] \in Nodes /\ q[i] \notin touched
<1>1. q \in S!Selected /\ S!Range(q) \cap touched = {}
  BY DEF Found, S!Untouched
<1>2. Route(q) /\ disk[S!Last(q)] \in {"file", "filelink"}
  BY <1>1, SelectedIs
<1>3. \A i \in 1 .. Len(q) : q[i] \in Nodes /\ q[i] \in S!Range(q)
  BY <1>2 DEF Route, S!Range
<1> QED BY <1>1, <1>2, <1>3

(* A file beyond a path is the path itself, or in what it leads on to. *)
LEMMA FoundBeyond ==
  ASSUME WalkInv, todo # <<>>, NEW q \in Found, Begins(S!Path, q)
  PROVE  /\ S!At \notin touched
         /\ Len(q) = Len(S!Path) => q = S!Path /\ disk[S!At] \in {"file", "filelink"}
         /\ Len(q) # Len(S!Path) =>
               /\ Len(S!Path) < Len(q)
               /\ q[Len(S!Path) + 1] \in S!Inside(S!At)
               /\ disk[q[Len(S!Path) + 1]] # "none"
               /\ Leads(S!Path, Len(S!Path))
<1> DEFINE p == S!Path
<1>1. p \in Seq(Nodes) /\ p # <<>> /\ S!At = p[Len(p)]
  BY FirstLook
<1> HIDE DEF p
<1>2. /\ Route(q) /\ disk[S!Last(q)] \in {"file", "filelink"} /\ q \in Seq(Nodes)
      /\ \A i \in 1 .. Len(q) : q[i] \in Nodes /\ q[i] \notin touched
  BY FoundIs DEF WalkInv, WalkTypes, Route
<1>3. Len(p) <= Len(q) /\ \A i \in 1 .. Len(p) : q[i] = p[i]
  BY DEF Begins, p
<1>4. Len(p) \in 1 .. Len(p) /\ Len(p) \in 1 .. Len(q) /\ q[Len(p)] = S!At
  BY <1>1, <1>2, <1>3
<1>5. S!At \notin touched
  BY <1>2, <1>4
<1>6. CASE Len(q) = Len(p)
  <2>1. q = p
    BY <1>1, <1>2, <1>3, <1>6, SeqEqual
  <2>2. S!Last(q) = S!At
    BY <1>4, <1>6 DEF S!Last
  <2> QED BY <1>2, <1>5, <1>6, <2>1, <2>2 DEF p
<1>7. CASE Len(q) # Len(p)
  <2>1. /\ Len(p) < Len(q) /\ Len(p) + 1 \in 2 .. Len(q) /\ (Len(p) + 1) - 1 = Len(p)
        /\ Len(p) + 1 \in Nat
    BY <1>1, <1>2, <1>3, <1>7
  <2>2. Follows(q, Len(p) + 1)
    BY <1>2, <2>1 DEF Route
  <2>3. q[Len(p) + 1] \in S!Inside(S!At) /\ Leads(p, Len(p))
    BY <1>1, <1>4, <2>1, <2>2 DEF Follows, Leads
  <2>4. disk[q[Len(p) + 1]] # "none"
    <3>1. CASE Len(p) + 1 = Len(q)
      BY <1>2, <3>1 DEF S!Last
    <3>2. CASE Len(p) + 1 # Len(q)
      <4>1. Len(p) + 2 \in 2 .. Len(q) /\ (Len(p) + 2) - 1 = Len(p) + 1
        BY <1>2, <2>1, <3>2
      <4>2. Follows(q, Len(p) + 2)
        BY <1>2, <4>1 DEF Route
      <4> QED BY <4>1, <4>2 DEF Follows, Leads
    <3> QED BY <3>1, <3>2
  <2> QED BY <1>5, <1>7, <2>1, <2>3, <2>4 DEF p
<1> QED BY <1>6, <1>7 DEF p

(* A file put in the plan. *)
LEMMA InsertKeeps ==
  ASSUME WalkInv, S!Walking, S!InsertEntry, disk[S!At] \in {"file", "filelink"},
         \A q \in Found : Covers(Head(todo), q) => q = S!Path
  PROVE  WalkInv'
<1>0. pc = "walking" /\ todo # <<>>
  BY DEF S!Walking
<1>1. /\ 1 \in DOMAIN todo /\ Head(todo) = todo[1] /\ S!Path = todo[1].path
      /\ RightLook(Head(todo)) /\ S!Path \in Seq(Nodes) /\ S!At = S!Last(S!Path)
      /\ \A j \in 2 .. Len(todo) : j \in DOMAIN todo /\ j # 1
  BY <1>0, FirstLook
<1>2. DiskTypes /\ todo \in Seq(Looks)
  BY DEF WalkInv, WalkTypes
<1>3. Walked(S!Path) /\ RightEntry(S!Path)
  BY <1>1 DEF RightLook, RightEntry
<1>4. CASE \E p \in entries : S!Key(p) = S!Key(S!Path)
  <2>1. PICK p \in entries : S!Key(p) = S!Key(S!Path)
    BY <1>4
  <2>2. S!Fails
    BY <1>4 DEF S!InsertEntry
  <2>3. ASSUME touched = {} PROVE S!Refusable
    <3> SUFFICES ASSUME NamesDiffer PROVE FALSE
      BY SameNameRefusable
    <3>1. Fork(p, S!Path)
      BY <1>1 DEF WalkInv, ForkInv
    <3>2. Walked(p)
      BY DEF WalkInv, EntriesInv, RightEntry
    <3> QED BY <1>2, <1>3, <2>1, <2>3, <3>1, <3>2, SameKey
  <2> QED BY <2>2, <2>3, FailsKeeps
<1>5. CASE ~ \E p \in entries : S!Key(p) = S!Key(S!Path)
  <2>1. /\ entries' = entries \cup {S!Path} /\ todo' = Tail(todo) /\ pc' = pc
        /\ UNCHANGED <<inputs, disk, touched>>
    BY <1>5 DEF S!InsertEntry, S!diskvars
  <2>2. /\ todo' \in Seq(Looks) /\ DOMAIN todo' = 1 .. Len(todo) - 1
        /\ \A i \in 1 .. Len(todo) - 1 : todo'[i] = todo[i + 1]
    BY <1>0, <1>2, <2>1
  <2>3. \A i \in DOMAIN todo' :
            i + 1 \in DOMAIN todo /\ i + 1 \in 2 .. Len(todo) /\ todo'[i] = todo[i + 1]
    BY <1>2, <2>2
  <2>4. WalkTypes'
    BY <1>0, <2>1, <2>2, SameSelection DEF WalkInv, WalkTypes
  <2>5. LooksInv'
    BY <2>1, <2>3, SameSelection DEF WalkInv, LooksInv
  <2>6. EntriesInv'
    <3>1. \A p \in entries' : RightEntry(p)
      BY <1>3, <2>1 DEF WalkInv, EntriesInv
    <3>2. \A p, q \in entries' : S!Key(p) = S!Key(q) => p = q
      BY <1>5, <2>1 DEF WalkInv, EntriesInv
    <3> QED BY <2>1, <3>1, <3>2, SameSelection DEF EntriesInv, S!Key
  <2>7. CoverInv'
    <3> SUFFICES ASSUME NEW q \in Found, q \notin entries'
                 PROVE  \E i \in DOMAIN todo' : Covers(todo'[i], q)
      BY <1>0, <2>1, SameSelection DEF CoverInv, Covers, Begins
    <3>1. PICK j \in DOMAIN todo : Covers(todo[j], q)
      BY <1>0, <2>1 DEF WalkInv, CoverInv
    <3>2. j # 1
      BY <1>1, <2>1, <3>1
    <3>3. j - 1 \in DOMAIN todo' /\ (j - 1) + 1 = j
      BY <1>2, <2>2, <3>2
    <3> QED BY <2>3, <3>1, <3>3
  <2>8. ForkInv'
    <3> SUFFICES ASSUME NamesDiffer
                 PROVE  /\ \A i, j \in DOMAIN todo' : i # j => Fork(todo'[i].path, todo'[j].path)
                        /\ \A p \in entries', i \in DOMAIN todo' : Fork(p, todo'[i].path)
      BY <2>1, SameSelection DEF ForkInv, Fork
    <3>1. /\ \A i, j \in DOMAIN todo : i # j => Fork(todo[i].path, todo[j].path)
          /\ \A p \in entries, i \in DOMAIN todo : Fork(p, todo[i].path)
      BY DEF WalkInv, ForkInv
    <3>2. ASSUME NEW i \in DOMAIN todo', NEW j \in DOMAIN todo', i # j
          PROVE  Fork(todo'[i].path, todo'[j].path)
      <4>1. i + 1 # j + 1
        BY <2>2, <3>2
      <4> QED BY <2>3, <3>1, <4>1
    <3>3. ASSUME NEW p \in entries', NEW i \in DOMAIN todo'
          PROVE  Fork(p, todo'[i].path)
      BY <1>1, <2>1, <2>3, <3>1
    <3> QED BY <3>2, <3>3
  <2>9. ReasonInv'
    BY <1>0, <2>1 DEF ReasonInv
  <2> QED BY <2>4, <2>5, <2>6, <2>7, <2>8, <2>9 DEF WalkInv
<1> QED BY <1>4, <1>5
(* What metadata says of each kind. *)
LEMMA MetadataIs ==
  ASSUME DiskTypes, NEW n \in Nodes
  PROVE  /\ S!Metadata(n) = "file" <=> disk[n] \in {"file", "filelink"}
         /\ S!Metadata(n) = "dir" <=> disk[n] \in {"dir", "dirlink"}
         /\ S!Metadata(n) = "error" => disk[n] \in {"none", "brokenlink"}
         /\ S!Metadata(n) \in {"file", "dir", "other", "error"}
<1>1. disk[n] \in S!Kinds
  BY DEF DiskTypes
<1> QED BY <1>1 DEF S!Metadata, S!Kinds

(* One look in the place of another, along the same path. *)
LEMMA LookKeeps ==
  ASSUME WalkInv, S!Walking, NEW how,
         how \in {"metadata", "read_dir", "symlink_metadata", "follow"},
         S!Then(<<S!Look(S!Path, how)>>), RightLook(S!Look(S!Path, how)),
         \A q \in Found : Covers(Head(todo), q) => Covers(S!Look(S!Path, how), q)
  PROVE  WalkInv'
<1> DEFINE look == S!Look(S!Path, how)
<1> DEFINE looks == <<look>>
<1>1. S!Path \in Seq(Nodes)
  BY FirstLook DEF S!Walking
<1>2. look.path = S!Path /\ look \in Looks
  BY <1>1 DEF S!Look, Looks
<1>3. Begins(S!Path, look.path)
  BY <1>1, <1>2 DEF Begins
<1>4. \A q \in Found : Covers(Head(todo), q) => Covers(look, q)
  OBVIOUS
<1>5. RightLook(look) /\ S!Then(looks)
  OBVIOUS
<1> HIDE DEF look
<1>6. looks \in Seq(Looks) /\ DOMAIN looks = {1} /\ looks[1] = look
  BY <1>2
<1> HIDE DEF looks
<1> QED BY <1>3, <1>4, <1>5, <1>6, ThenKeeps

(* No look in the place of one that has nothing to find. *)
LEMMA SkipKeeps ==
  ASSUME WalkInv, S!Walking, S!Then(<<>>), \A q \in Found : ~ Covers(Head(todo), q)
  PROVE  WalkInv'
<1> DEFINE looks == <<>>
<1>1. looks \in Seq(Looks) /\ DOMAIN looks = {} /\ S!Then(looks)
  OBVIOUS
<1> HIDE DEF looks
<1> QED BY <1>1, ThenKeeps

(* What an input is; of a directory, all that is in it remains to be found. *)
LEMMA LookAtInputKeeps ==
  ASSUME WalkInv, S!LookAtInput
  PROVE  WalkInv'
<1>1. S!Walking /\ todo # <<>> /\ Head(todo).how = "metadata"
  BY DEF S!LookAtInput, S!Walking
<1>2. /\ RightLook(Head(todo)) /\ Head(todo).path = S!Path /\ S!Path \in Seq(Nodes)
      /\ S!At \in Nodes /\ S!At = S!Last(S!Path) /\ S!At = S!Path[Len(S!Path)]
      /\ DiskTypes
  BY <1>1, FirstLook DEF WalkInv, WalkTypes, S!Path
<1>3. Len(S!Path) = 1 /\ Walked(S!Path) /\ S!At \in S!Range(inputs)
  BY <1>1, <1>2 DEF RightLook, Walked
<1>4. CASE S!Metadata(S!At) \in {"error", "other"} \/ S!At \in Unnameable
  <2>1. S!Fails
    BY <1>4 DEF S!LookAtInput
  <2>2. CASE S!Metadata(S!At) \in {"error", "other"}
    <3>1. S!Refusable
      BY <1>3, <2>2 DEF S!Refusable
    <3> QED BY <2>1, <3>1, FailsKeeps
  <2>3. CASE S!Metadata(S!At) \notin {"error", "other"} /\ S!At \in Unnameable
    <3>1. disk[S!At] # "none"
      BY <1>2, <2>3, MetadataIs
    <3>2. S!Refusable
      BY <1>2, <2>3, <3>1 DEF S!Refusable
    <3> QED BY <2>1, <3>2, FailsKeeps
  <2> QED BY <1>4, <2>2, <2>3
<1>5. CASE ~ (S!Metadata(S!At) \in {"error", "other"} \/ S!At \in Unnameable)
           /\ S!Metadata(S!At) = "file"
  <2>1. S!InsertEntry /\ disk[S!At] \in {"file", "filelink"}
    BY <1>2, <1>5, MetadataIs DEF S!LookAtInput
  <2>2. ASSUME NEW q \in Found, Covers(Head(todo), q) PROVE q = S!Path
    BY <1>1, <1>2, <2>1, <2>2, FoundBeyond DEF Covers, Leads
  <2> QED BY <1>1, <2>1, <2>2, InsertKeeps
<1>6. CASE ~ (S!Metadata(S!At) \in {"error", "other"} \/ S!At \in Unnameable)
           /\ S!Metadata(S!At) # "file"
  <2>1. S!Then(<<S!Look(S!Path, "read_dir")>>)
    BY <1>6 DEF S!LookAtInput
  <2>2. disk[S!At] \in {"dir", "dirlink"}
    BY <1>2, <1>6, MetadataIs
  <2>3. /\ S!Look(S!Path, "read_dir").path = S!Path
        /\ S!Look(S!Path, "read_dir").how = "read_dir"
    BY DEF S!Look
  <2>4. RightLook(S!Look(S!Path, "read_dir"))
    BY <1>2, <1>3, <2>2, <2>3 DEF RightLook, Leads
  <2>5. ASSUME NEW q \in Found, Covers(Head(todo), q)
        PROVE  Covers(S!Look(S!Path, "read_dir"), q)
    BY <1>1, <1>2, <2>2, <2>3, <2>5, FoundBeyond DEF Covers
  <2> QED BY <1>1, <2>1, <2>4, <2>5, LookKeeps
<1> QED BY <1>4, <1>5, <1>6

(* What is in a directory; a link is looked at once more. *)
LEMMA LookAtChildKeeps ==
  ASSUME WalkInv, S!LookAtChild
  PROVE  WalkInv'
<1>1. S!Walking /\ todo # <<>> /\ Head(todo).how = "symlink_metadata"
  BY DEF S!LookAtChild, S!Walking
<1>2. /\ RightLook(Head(todo)) /\ Head(todo).path = S!Path /\ S!Path \in Seq(Nodes)
      /\ S!At \in Nodes /\ S!At = S!Last(S!Path) /\ S!At = S!Path[Len(S!Path)]
      /\ DiskTypes
  BY <1>1, FirstLook DEF WalkInv, WalkTypes, S!Path
<1>3. /\ Len(S!Path) >= 2 /\ Walked(S!Path) /\ disk[S!At] \in S!Kinds
      /\ S!At \notin touched => disk[S!At] # "none"
  BY <1>1, <1>2 DEF RightLook, DiskTypes
<1>4. CASE S!At \in Unnameable \/ disk[S!At] = "none"
  <2>1. S!Fails
    BY <1>4 DEF S!LookAtChild
  <2>2. ASSUME touched = {} PROVE S!Refusable
    BY <1>2, <1>3, <1>4, <2>2 DEF S!Refusable
  <2> QED BY <2>1, <2>2, FailsKeeps
<1>5. ASSUME ~ (S!At \in Unnameable \/ disk[S!At] = "none")
      PROVE  \/ disk[S!At] = "dir" /\ S!Then(<<S!Look(S!Path, "read_dir")>>)
             \/ disk[S!At] = "file" /\ S!InsertEntry
             \/ disk[S!At] = "other" /\ S!Then(<<>>)
             \/ /\ disk[S!At] \notin {"dir", "file", "other"}
                /\ S!Then(<<S!Look(S!Path, "follow")>>)
  BY <1>5 DEF S!LookAtChild
<1>6. CASE disk[S!At] = "dir" /\ S!Then(<<S!Look(S!Path, "read_dir")>>)
  <2>1. /\ S!Look(S!Path, "read_dir").path = S!Path
        /\ S!Look(S!Path, "read_dir").how = "read_dir"
    BY DEF S!Look
  <2>2. RightLook(S!Look(S!Path, "read_dir"))
    BY <1>2, <1>3, <1>6, <2>1 DEF RightLook, Leads
  <2>3. ASSUME NEW q \in Found, Covers(Head(todo), q)
        PROVE  Covers(S!Look(S!Path, "read_dir"), q)
    BY <1>1, <1>2, <1>6, <2>1, <2>3, FoundBeyond DEF Covers
  <2> QED BY <1>1, <1>6, <2>2, <2>3, LookKeeps
<1>7. CASE disk[S!At] = "file" /\ S!InsertEntry
  <2>1. ASSUME NEW q \in Found, Covers(Head(todo), q) PROVE q = S!Path
    BY <1>1, <1>2, <1>7, <2>1, FoundBeyond DEF Covers, Leads
  <2> QED BY <1>1, <1>7, <2>1, InsertKeeps
<1>8. CASE disk[S!At] = "other" /\ S!Then(<<>>)
  <2>1. ASSUME NEW q \in Found PROVE ~ Covers(Head(todo), q)
    BY <1>1, <1>2, <1>8, FoundBeyond DEF Covers, Leads
  <2> QED BY <1>1, <1>8, <2>1, SkipKeeps
<1>9. CASE /\ disk[S!At] \notin {"dir", "file", "other"}
           /\ S!Then(<<S!Look(S!Path, "follow")>>)
  <2>1. /\ S!Look(S!Path, "follow").path = S!Path
        /\ S!Look(S!Path, "follow").how = "follow"
    BY DEF S!Look
  <2>2. RightLook(S!Look(S!Path, "follow"))
    BY <1>2, <1>3, <2>1 DEF RightLook
  <2>3. ASSUME NEW q \in Found, Covers(Head(todo), q)
        PROVE  Covers(S!Look(S!Path, "follow"), q)
    <3>1. Begins(S!Path, q)
      BY <1>2, <2>3 DEF Covers
    <3>2. Len(q) = Len(S!Path)
      BY <1>1, <1>2, <1>3, <1>9, <3>1, FoundBeyond DEF Leads
    <3> QED BY <2>1, <3>1, <3>2 DEF Covers
  <2> QED BY <1>1, <1>9, <2>2, <2>3, LookKeeps
<1> QED BY <1>4, <1>5, <1>6, <1>7, <1>8, <1>9

(* A link that leads to a file; no other has a file to be found. *)
LEMMA FollowLinkKeeps ==
  ASSUME WalkInv, S!FollowLink
  PROVE  WalkInv'
<1>1. S!Walking /\ todo # <<>> /\ Head(todo).how = "follow"
  BY DEF S!FollowLink, S!Walking
<1>2. Head(todo).path = S!Path /\ S!Path \in Seq(Nodes) /\ S!At \in Nodes /\ DiskTypes
  BY <1>1, FirstLook DEF WalkInv, WalkTypes, S!Path
<1>3. ASSUME NEW q \in Found, Covers(Head(todo), q)
      PROVE  q = S!Path /\ disk[S!At] \in {"file", "filelink"}
  BY <1>1, <1>2, <1>3, FoundBeyond DEF Covers
<1>4. CASE S!Metadata(S!At) = "file"
  <2>1. S!InsertEntry /\ disk[S!At] \in {"file", "filelink"}
    BY <1>2, <1>4, MetadataIs DEF S!FollowLink
  <2> QED BY <1>1, <1>3, <2>1, InsertKeeps
<1>5. CASE S!Metadata(S!At) # "file"
  <2>1. S!Then(<<>>) /\ disk[S!At] \notin {"file", "filelink"}
    BY <1>2, <1>5, MetadataIs DEF S!FollowLink
  <2> QED BY <1>1, <1>3, <2>1, SkipKeeps
<1> QED BY <1>4, <1>5

(* Every route through a directory goes through one of its children. *)
LEMMA ReadDirKeeps ==
  ASSUME WalkInv, S!ReadDir
  PROVE  WalkInv'
<1> USE SourceAssumption
<1> DEFINE p == S!Path
<1>1. S!Walking /\ todo # <<>> /\ Head(todo).how = "read_dir"
  BY DEF S!ReadDir, S!Walking
<1>2. /\ RightLook(Head(todo)) /\ Head(todo).path = p /\ p \in Seq(Nodes) /\ p # <<>>
      /\ S!At \in Nodes /\ S!At = S!Last(p) /\ S!At = p[Len(p)]
      /\ DiskTypes
  BY <1>1, FirstLook DEF WalkInv, WalkTypes, S!Path
<1> HIDE DEF p
<1>3. Walked(p) /\ (S!At \notin touched => Leads(p, Len(p)))
  BY <1>1, <1>2 DEF RightLook
<1>4. CASE S!Metadata(S!At) # "dir"
  <2>1. S!Fails
    BY <1>4 DEF S!ReadDir
  <2>2. touched # {}
    BY <1>2, <1>3, <1>4, MetadataIs DEF Leads
  <2> QED BY <2>1, <2>2, FailsKeeps
<1>5. CASE S!Metadata(S!At) = "dir"
  <2>1. PICK names \in S!Sorted(S!Children) :
            S!Then([i \in DOMAIN names |->
                        S!Look(Append(S!Path, names[i]), "symlink_metadata")])
    BY <1>5 DEF S!ReadDir
  <2> DEFINE n == S!Cardinality(S!Children)
  <2>2. n \in Nat
    <3>1. S!Children \subseteq Nodes
      BY DEF S!Children
    <3> QED BY <3>1, FS_Subset, FS_CardinalityType, SameCardinality
  <2> HIDE DEF n
  <2>3. /\ DOMAIN names = 1 .. n /\ S!Range(names) = S!Children
        /\ \A i \in 1 .. n : names[i] \in S!Children
        /\ \A i, j \in 1 .. n : i < j => names[i] < names[j]
    <3>1. names \in [1 .. n -> S!Children]
      BY DEF S!Sorted, n
    <3>2. S!Range(names) = S!Children /\ \A i, j \in DOMAIN names : i < j => names[i] < names[j]
      BY DEF S!Sorted
    <3> QED BY <3>1, <3>2
  <2>4. \A c \in S!Children : c \in S!Inside(S!At) /\ disk[c] # "none" /\ c \in Nodes
    BY DEF S!Children, S!Inside
  <2> DEFINE looks == [i \in 1 .. n |-> S!Look(Append(p, names[i]), "symlink_metadata")]
  <2>5. S!Then(looks) /\ DOMAIN looks = 1 .. n
    BY <2>1, <2>3 DEF p
  <2>6. \A i \in 1 .. n :
            looks[i].path = Append(p, names[i]) /\ looks[i].how = "symlink_metadata"
    BY DEF S!Look
  <2>7. ASSUME NEW i \in 1 .. n
        PROVE  /\ looks[i].path \in Seq(Nodes) /\ Len(looks[i].path) = Len(p) + 1
               /\ looks[i].path[Len(p) + 1] = names[i]
               /\ \A k \in 1 .. Len(p) : looks[i].path[k] = p[k]
    <3>1. names[i] \in Nodes
      BY <2>3, <2>4
    <3>2. /\ Append(p, names[i]) \in Seq(Nodes)
          /\ Len(Append(p, names[i])) = Len(p) + 1
          /\ Append(p, names[i])[Len(p) + 1] = names[i]
          /\ \A k \in 1 .. Len(p) : Append(p, names[i])[k] = p[k]
      BY <1>2, <3>1, AppendProperties
    <3>3. looks[i].path = Append(p, names[i])
      BY <2>6
    <3> HIDE DEF looks
    <3> QED BY <3>2, <3>3
  <2>8. looks \in Seq(Looks)
    <3>1. \A i \in 1 .. n : looks[i] \in Looks
      BY <2>3, <2>4, <1>2 DEF S!Look, Looks
    <3> QED BY <2>2, <3>1
  <2> HIDE DEF looks
  <2>9. ASSUME NEW i \in 1 .. n
        PROVE  RightLook(looks[i]) /\ Begins(S!Path, looks[i].path)
    <3> DEFINE q == looks[i].path
    <3>1. /\ q \in Seq(Nodes) /\ Len(q) = Len(p) + 1 /\ q[Len(p) + 1] = names[i]
          /\ \A k \in 1 .. Len(p) : q[k] = p[k]
      BY <2>7
    <3>2. names[i] \in S!Inside(S!At) /\ disk[names[i]] # "none"
      BY <2>3, <2>4
    <3> HIDE DEF q
    <3>3. Len(p) \in Nat /\ Len(p) >= 1 /\ q # <<>> /\ q[1] = p[1] /\ q[Len(p)] = S!At
      BY <1>2, <3>1
    <3>4. ASSUME NEW k \in 2 .. Len(q), q[k - 1] \notin touched PROVE Follows(q, k)
      <4>1. CASE k = Len(p) + 1
        <5>1. k - 1 = Len(p) /\ q[k - 1] = S!At /\ q[k] = names[i]
          BY <3>1, <3>3, <4>1
        <5>2. Leads(p, Len(p))
          BY <1>3, <3>4, <5>1
        <5> QED BY <1>2, <3>2, <5>1, <5>2 DEF Follows, Leads
      <4>2. CASE k # Len(p) + 1
        <5>1. k \in 2 .. Len(p) /\ q[k] = p[k] /\ q[k - 1] = p[k - 1]
          BY <3>1, <3>3, <4>2
        <5>2. Follows(p, k)
          BY <1>3, <3>4, <5>1 DEF Walked
        <5> QED BY <5>1, <5>2 DEF Follows, Leads
      <4> QED BY <4>1, <4>2
    <3>5. Walked(q)
      BY <1>3, <3>1, <3>3, <3>4 DEF Walked
    <3>6. S!Last(q) = names[i]
      BY <3>1 DEF S!Last
    <3>7. RightLook(looks[i])
      BY <2>6, <3>1, <3>2, <3>3, <3>5, <3>6 DEF RightLook, q
    <3>8. Begins(p, q)
      BY <3>1, <3>3 DEF Begins
    <3> QED BY <3>7, <3>8 DEF p, q
  <2>10. ASSUME NEW i \in 1 .. n, NEW j \in 1 .. n, i # j
         PROVE  Fork(looks[i].path, looks[j].path)
    <3>1. names[i] # names[j]
      <4>1. names[i] \in Nat /\ names[j] \in Nat
        BY <2>3, <2>4
      <4>2. names[i] < names[j] \/ names[j] < names[i]
        BY <2>3, <2>10
      <4> QED BY <4>1, <4>2
    <3>2. /\ Len(p) + 1 \in DOMAIN looks[i].path /\ Len(p) + 1 \in DOMAIN looks[j].path
          /\ looks[i].path[Len(p) + 1] = names[i] /\ looks[j].path[Len(p) + 1] = names[j]
      BY <1>2, <2>7
    <3> QED BY <3>1, <3>2 DEF Fork
  <2>11. ASSUME NEW q \in Found, Covers(Head(todo), q)
         PROVE  \E i \in 1 .. n : Covers(looks[i], q)
    <3>1. Begins(p, q) /\ Len(p) < Len(q)
      BY <1>1, <1>2, <2>11 DEF Covers
    <3>2. q[Len(p) + 1] \in S!Inside(S!At) /\ disk[q[Len(p) + 1]] # "none"
      BY <1>1, <3>1, FoundBeyond DEF p
    <3>3. q[Len(p) + 1] \in S!Children
      BY <3>2 DEF S!Inside, S!Children
    <3>4. PICK i \in 1 .. n : names[i] = q[Len(p) + 1]
      BY <2>3, <3>3 DEF S!Range
    <3>5. q \in Seq(Nodes)
      BY <1>2, FoundIs DEF Route
    <3>6. Begins(looks[i].path, q)
      <4>1. Len(looks[i].path) = Len(p) + 1 /\ Len(p) \in Nat /\ Len(q) \in Nat
        BY <1>2, <2>7, <3>5
      <4>2. ASSUME NEW k \in 1 .. Len(p) + 1 PROVE q[k] = looks[i].path[k]
        <5>1. CASE k = Len(p) + 1
          BY <2>7, <3>4, <5>1
        <5>2. CASE k # Len(p) + 1
          <6>1. k \in 1 .. Len(p)
            BY <4>1, <5>2
          <6> QED BY <2>7, <3>1, <6>1 DEF Begins
        <5> QED BY <5>1, <5>2
      <4> QED BY <3>1, <4>1, <4>2 DEF Begins
    <3> QED BY <2>6, <3>6 DEF Covers, looks
  <2> QED BY <1>1, <2>5, <2>8, <2>9, <2>10, <2>11, ThenKeeps
<1> QED BY <1>4, <1>5
(* The inputs that are a single file are the selection. *)
LEMMA SingleSelected ==
  ASSUME DiskTypes, Len(inputs) = 1, disk[inputs[1]] \in {"file", "filelink"}
  PROVE  S!Selected = {inputs} /\ RightEntry(inputs) /\ S!Last(inputs) = inputs[1]
<1>0. inputs \in Seq(Nodes)
  BY DEF DiskTypes
<1>1. inputs \in Seq(Nodes) /\ inputs # <<>> /\ inputs[1] \in Nodes /\ 1 \in DOMAIN inputs
  <2>1. DOMAIN inputs = 1 .. 1
    BY <1>0
  <2>2. inputs[1] \in Nodes
    BY <1>0, <2>1
  <2>3. inputs # <<>>
    BY <1>0, EmptySeq
  <2> QED BY <1>0, <2>1, <2>2, <2>3
<1>2. inputs[1] \in S!Range(inputs) /\ S!Last(inputs) = inputs[1]
  BY <1>1 DEF S!Range, S!Last
<1>3. \A i \in 2 .. Len(inputs) : FALSE
  OBVIOUS
<1>4. Route(inputs) /\ Walked(inputs)
  BY <1>1, <1>2, <1>3 DEF Route, Walked
<1>5. inputs \in S!Selected
  BY <1>2, <1>4, SelectedIs
<1>6. ASSUME NEW p \in S!Selected PROVE p = inputs
  <2>1. Route(p)
    BY SelectedIs
  <2>2. p \in Seq(Nodes) /\ p # <<>> /\ p[1] = inputs[1]
    BY <1>1, <2>1 DEF Route, S!Range
  <2>3. Len(p) = 1
    <3> SUFFICES ASSUME Len(p) # 1 PROVE FALSE
      OBVIOUS
    <3>1. 2 \in 2 .. Len(p) /\ 2 - 1 = 1
      <4>1. Len(p) \in Nat /\ Len(p) # 0
        BY <2>2
      <4>2. \A n \in Nat : n # 0 /\ n # 1 => 2 \in 2 .. n
        OBVIOUS
      <4> QED BY <4>1, <4>2
    <3>2. Follows(p, 2)
      BY <2>1, <3>1 DEF Route
    <3> QED BY <2>2, <3>1, <3>2 DEF Follows, Leads
  <2> QED BY <1>1, <2>2, <2>3, SeqEqual
<1> QED BY <1>2, <1>4, <1>5, <1>6 DEF RightEntry

(* One file as it is, or the looks at the inputs. *)
LEMMA BeginKeeps ==
  ASSUME WalkInv, S!Begin
  PROVE  WalkInv'
<1>1. /\ pc = "start" /\ entries = {} /\ todo = <<>> /\ DiskTypes /\ inputs \in Seq(Nodes)
  BY DEF S!Begin, WalkInv, WalkTypes, DiskTypes
<1>2. CASE Len(inputs) = 1 /\ S!Metadata(inputs[1]) = "file"
  <2>1. inputs[1] \in Nodes
    BY <1>1, <1>2
  <2>2. disk[inputs[1]] \in {"file", "filelink"}
    BY <1>1, <1>2, <2>1, MetadataIs
  <2>3. S!Selected = {inputs} /\ RightEntry(inputs) /\ S!Last(inputs) = inputs[1]
    BY <1>1, <1>2, <2>2, SingleSelected
  <2>4. CASE Size[inputs[1]] = 0 \/ S!TooLarge({inputs}) \/ inputs[1] \in Blank
    <3>1. S!Fails
      BY <1>2, <2>4 DEF S!Begin
    <3>2. S!Refusable
      <4>1. CASE Size[inputs[1]] = 0
        BY <1>2, <2>3, <4>1 DEF S!Refusable
      <4>2. CASE S!TooLarge({inputs})
        BY <2>3, <4>2 DEF S!Refusable
      <4>3. CASE inputs[1] \in Blank
        BY <2>1, <2>2, <4>3 DEF S!Refusable
      <4> QED BY <2>4, <4>1, <4>2, <4>3
    <3> QED BY <3>1, <3>2, FailsKeeps
  <2>5. CASE ~ (Size[inputs[1]] = 0 \/ S!TooLarge({inputs}) \/ inputs[1] \in Blank)
    <3>1. /\ pc' = "ready" /\ entries' = {inputs} /\ todo' = <<>>
          /\ UNCHANGED <<inputs, disk, touched>>
      BY <1>1, <1>2, <2>5 DEF S!Begin, S!diskvars
    <3>2. WalkTypes' /\ LooksInv' /\ ForkInv' /\ ReasonInv'
      BY <1>1, <3>1, SameSelection DEF WalkTypes, LooksInv, ForkInv, ReasonInv
    <3>3. EntriesInv'
      BY <2>3, <3>1, SameSelection DEF EntriesInv
    <3>4. Found \subseteq {inputs}
      BY <2>3 DEF Found, S!Untouched
    <3>5. CoverInv'
      BY <3>1, <3>4, SameSelection DEF CoverInv
    <3> QED BY <3>2, <3>3, <3>5 DEF WalkInv
  <2> QED BY <2>4, <2>5
<1>3. CASE /\ ~ (Len(inputs) = 1 /\ S!Metadata(inputs[1]) = "file")
           /\ inputs = <<>> \/ (Len(inputs) = 1 /\ S!Metadata(inputs[1]) = "error")
  <2>1. S!Fails
    BY <1>3 DEF S!Begin
  <2>2. CASE inputs = <<>>
    <3>1. S!Range(inputs) = {}
      BY <2>2 DEF S!Range
    <3>2. S!Selected = {}
      BY <1>1, <3>1, SelectedIs DEF Route
    <3> QED BY <2>1, <3>2, FailsKeeps DEF S!Refusable
  <2>3. CASE Len(inputs) = 1 /\ S!Metadata(inputs[1]) = "error"
    <3>1. inputs[1] \in S!Range(inputs)
      BY <1>1, <2>3 DEF S!Range
    <3> QED BY <2>1, <2>3, <3>1, FailsKeeps DEF S!Refusable
  <2> QED BY <1>3, <2>2, <2>3
<1>4. CASE /\ ~ (Len(inputs) = 1 /\ S!Metadata(inputs[1]) = "file")
           /\ ~ (inputs = <<>> \/ (Len(inputs) = 1 /\ S!Metadata(inputs[1]) = "error"))
  <2>1. /\ pc' = "walking" /\ todo' = S!Inputs /\ entries' = {}
        /\ UNCHANGED <<inputs, disk, touched>>
    BY <1>1, <1>4 DEF S!Begin, S!diskvars
  <2>2. ASSUME NEW i \in DOMAIN inputs
        PROVE  /\ S!Inputs[i].path = <<inputs[i]>> /\ S!Inputs[i].how = "metadata"
               /\ S!Inputs[i] \in Looks /\ RightLook(S!Inputs[i])
    <3>1. inputs[i] \in Nodes /\ inputs[i] \in S!Range(inputs)
      BY <1>1 DEF S!Range
    <3>2. /\ S!Inputs[i].path = <<inputs[i]>> /\ S!Inputs[i].how = "metadata"
          /\ S!Inputs[i] \in Looks
      BY <3>1 DEF S!Inputs, S!Look, Looks
    <3> DEFINE p == <<inputs[i]>>
    <3>3. p \in Seq(Nodes) /\ p # <<>> /\ Len(p) = 1 /\ p[1] = inputs[i]
      BY <3>1
    <3> HIDE DEF p
    <3>4. Walked(p)
      <4>1. \A k \in 2 .. Len(p) : FALSE
        BY <3>3
      <4> QED BY <3>1, <3>3, <4>1 DEF Walked
    <3>5. S!Inputs[i].path = p
      BY <3>2 DEF p
    <3> QED BY <3>2, <3>3, <3>4, <3>5 DEF RightLook
  <2>3. DOMAIN S!Inputs = DOMAIN inputs /\ DOMAIN inputs = 1 .. Len(inputs)
        /\ Len(inputs) \in Nat
    BY <1>1 DEF S!Inputs
  <2>4. todo' \in Seq(Looks)
    <3>1. S!Inputs = [i \in 1 .. Len(inputs) |-> S!Inputs[i]]
      BY <2>3 DEF S!Inputs
    <3>2. \A i \in 1 .. Len(inputs) : S!Inputs[i] \in Looks
      BY <2>2, <2>3
    <3> QED BY <2>1, <2>3, <3>1, <3>2, IsASeq
  <2>5. WalkTypes' /\ ReasonInv'
    BY <1>1, <2>1, <2>4, SameSelection DEF WalkTypes, ReasonInv
  <2>6. LooksInv' /\ EntriesInv'
    BY <2>1, <2>2, <2>3, SameSelection DEF LooksInv, EntriesInv
  <2>7. CoverInv'
    <3> SUFFICES ASSUME NEW q \in Found
                 PROVE  \E i \in DOMAIN todo' : Covers(todo'[i], q)
      BY <2>1, SameSelection DEF CoverInv, Covers, Begins
    <3>1. q \in Seq(Nodes) /\ q # <<>> /\ q[1] \in S!Range(inputs)
      BY <1>1, FoundIs DEF Route
    <3>2. PICK i \in DOMAIN inputs : q[1] = inputs[i]
      BY <3>1 DEF S!Range
    <3>3. Len(<<inputs[i]>>) = 1 /\ <<inputs[i]>>[1] = inputs[i] /\ 1 <= Len(q)
      BY <3>1
    <3>4. Begins(<<inputs[i]>>, q)
      BY <3>2, <3>3 DEF Begins
    <3>5. Covers(S!Inputs[i], q)
      BY <2>2, <3>4 DEF Covers
    <3> QED BY <2>1, <2>3, <3>5
  <2>8. ForkInv'
    <3>1. ASSUME NamesDiffer, NEW i \in DOMAIN inputs, NEW j \in DOMAIN inputs, i # j
          PROVE  Fork(S!Inputs[i].path, S!Inputs[j].path)
      <4>1. inputs[i] # inputs[j]
        BY <3>1 DEF NamesDiffer
      <4>2. /\ S!Inputs[i].path = <<inputs[i]>> /\ S!Inputs[j].path = <<inputs[j]>>
            /\ 1 \in DOMAIN <<inputs[i]>> /\ 1 \in DOMAIN <<inputs[j]>>
        BY <2>2
      <4> QED BY <4>1, <4>2 DEF Fork
    <3> DEFINE looks == S!Inputs
    <3>2. DOMAIN looks = DOMAIN inputs /\ todo' = looks /\ entries' = {}
          /\ (NamesDiffer => \A i, j \in DOMAIN inputs : i # j => Fork(looks[i].path, looks[j].path))
      BY <2>1, <2>3, <3>1
    <3>3. NamesDiffer' = NamesDiffer
      BY <2>1, SameSelection
    <3> HIDE DEF looks
    <3> QED BY <3>2, <3>3 DEF ForkInv, Fork
  <2> QED BY <2>5, <2>6, <2>7, <2>8 DEF WalkInv
<1> QED BY <1>2, <1>3, <1>4

(* A path of the plan that nobody touched is of the selection. *)
LEMMA EntrySelected ==
  ASSUME WalkInv, NEW p \in entries, S!Range(p) \cap touched = {}
  PROVE  p \in S!Selected
<1>1. DiskTypes /\ RightEntry(p) /\ Walked(p) /\ p \in Seq(Nodes) /\ p # <<>>
  BY DEF WalkInv, WalkTypes, EntriesInv, RightEntry, Walked
<1>2. \A i \in 1 .. Len(p) : p[i] \notin touched
  BY <1>1 DEF S!Range
<1>3. Len(p) \in 1 .. Len(p) /\ \A i \in 2 .. Len(p) : i - 1 \in 1 .. Len(p)
  BY <1>1
<1>4. Route(p)
  BY <1>1, <1>2, <1>3 DEF Walked, Route
<1>5. disk[S!Last(p)] \in {"file", "filelink"}
  BY <1>1, <1>2, <1>3 DEF RightEntry, S!Last
<1> QED BY <1>1, <1>4, <1>5, SelectedIs

(* The plan is made when there is nothing left to look at. *)
LEMMA WalkEndsKeeps ==
  ASSUME WalkInv, S!WalkEnds
  PROVE  WalkInv'
<1>1. pc = "walking" /\ todo = <<>>
  BY DEF S!WalkEnds
<1>2. Found \subseteq entries
  BY <1>1 DEF WalkInv, CoverInv
<1>3. CASE entries = {}
  <2>1. S!Fails
    BY <1>3 DEF S!WalkEnds
  <2>2. ASSUME touched = {} PROVE S!Refusable
    <3>1. S!Selected = {}
      BY <1>2, <1>3, <2>2 DEF Found, S!Untouched
    <3> QED BY <3>1 DEF S!Refusable
  <2> QED BY <2>1, <2>2, FailsKeeps
<1>4. CASE entries # {}
  <2>1. /\ pc' = "sizing" /\ todo' = todo /\ entries' = entries
        /\ UNCHANGED <<inputs, disk, touched>>
    BY <1>4 DEF S!WalkEnds, S!diskvars
  <2>2. WalkTypes' /\ ReasonInv'
    BY <2>1, SameSelection DEF WalkInv, WalkTypes, ReasonInv
  <2>3. LooksInv' /\ ForkInv'
    BY <1>1, <2>1 DEF LooksInv, ForkInv
  <2>4. EntriesInv'
    BY <2>1, SameSelection DEF WalkInv, EntriesInv, S!Key
  <2>5. CoverInv'
    BY <1>2, <2>1, SameSelection DEF CoverInv
  <2> QED BY <2>2, <2>3, <2>4, <2>5 DEF WalkInv
<1> QED BY <1>3, <1>4

(* A step that leaves the walk as it is, but for where it stands. *)
LEMMA OnlyStage ==
  ASSUME WalkInv, UNCHANGED <<inputs, todo, entries, disk, touched>>,
         pc' = pc \/ (pc = "sizing" /\ pc' = "ready")
  PROVE  WalkInv'
<1>1. WalkTypes'
  BY SameSelection DEF WalkInv, WalkTypes
<1>2. LooksInv' /\ EntriesInv'
  BY SameSelection DEF WalkInv, LooksInv, EntriesInv, S!Key
<1>3. CoverInv'
  BY SameSelection DEF WalkInv, CoverInv, Covers, Begins
<1>4. ForkInv'
  BY DEF WalkInv, ForkInv, Fork, NamesDiffer
<1>5. ReasonInv'
  BY SameSelection DEF WalkInv, ReasonInv
<1> QED BY <1>1, <1>2, <1>3, <1>4, <1>5 DEF WalkInv

(* The size of an entry is there to be read, unless somebody took it. *)
LEMMA ReadSizeKeeps ==
  ASSUME WalkInv, S!ReadSize
  PROVE  WalkInv'
<1>1. PICK p \in entries :
          IF S!Metadata(S!Last(p)) = "error" THEN S!Fails
          ELSE /\ sized' = sized + 1
               /\ UNCHANGED <<pc, inputs, todo, entries, kind, S!diskvars>>
  BY DEF S!ReadSize
<1>2. DiskTypes /\ RightEntry(p) /\ p \in Seq(Nodes) /\ p # <<>>
  BY DEF WalkInv, WalkTypes, EntriesInv, RightEntry, Walked
<1>3. S!Last(p) \in Nodes
  BY <1>2 DEF S!Last
<1>4. CASE S!Metadata(S!Last(p)) = "error"
  <2>1. touched # {}
    BY <1>2, <1>3, <1>4, MetadataIs DEF RightEntry
  <2> QED BY <1>1, <1>4, <2>1, FailsKeeps
<1>5. CASE S!Metadata(S!Last(p)) # "error"
  BY <1>1, <1>5, OnlyStage DEF S!diskvars
<1> QED BY <1>4, <1>5

(* A plan that is too large is a selection that is too large. *)
LEMMA PlanKeeps ==
  ASSUME WalkInv, S!Plan
  PROVE  WalkInv'
<1>1. pc = "sizing"
  BY DEF S!Plan
<1>2. CASE S!TooLarge(entries)
  <2>1. S!Fails
    BY <1>2 DEF S!Plan
  <2>2. ASSUME touched = {} PROVE S!Refusable
    <3>1. Found \subseteq entries /\ Found = S!Selected
      BY <1>1, <2>2 DEF WalkInv, CoverInv, Found, S!Untouched
    <3>2. entries \subseteq S!Selected
      BY <2>2, EntrySelected
    <3>3. entries = S!Selected
      BY <3>1, <3>2
    <3> QED BY <1>2, <3>3 DEF S!Refusable
  <2> QED BY <2>1, <2>2, FailsKeeps
<1>3. CASE ~ S!TooLarge(entries)
  BY <1>1, <1>3, OnlyStage DEF S!Plan, S!diskvars
<1> QED BY <1>2, <1>3

(* Every step of prepare_send_source. *)
LEMMA PrepareKeeps ==
  ASSUME WalkInv, S!Prepare
  PROVE  WalkInv'
BY BeginKeeps, LookAtInputKeeps, ReadDirKeeps, LookAtChildKeeps, FollowLinkKeeps,
   WalkEndsKeeps, ReadSizeKeeps, PlanKeeps
DEF S!Prepare

(* What is found: the same, said of routes. *)
FoundAgrees ==
  DiskTypes =>
    \A q : q \in Found <=>
              /\ Route(q) /\ disk[S!Last(q)] \in {"file", "filelink"}
              /\ \A i \in 1 .. Len(q) : q[i] \notin touched
(* It holds of every state. *)
LEMMA FoundState == FoundAgrees
<1> SUFFICES ASSUME DiskTypes, NEW q
             PROVE  q \in Found <=>
                       /\ Route(q) /\ disk[S!Last(q)] \in {"file", "filelink"}
                       /\ \A i \in 1 .. Len(q) : q[i] \notin touched
  BY DEF FoundAgrees
<1>1. q \in Found <=> q \in S!Selected /\ S!Range(q) \cap touched = {}
  BY DEF Found, S!Untouched
<1>2. q \in S!Selected <=> Route(q) /\ disk[S!Last(q)] \in {"file", "filelink"}
  BY SelectedIs
<1>3. Route(q) => (S!Range(q) \cap touched = {} <=> \A i \in 1 .. Len(q) : q[i] \notin touched)
  BY DEF Route, S!Range
<1> QED BY <1>1, <1>2, <1>3

(* And of the next one. *)
LEMMA FoundNext == FoundAgrees'
BY FoundState, PTL

(* Whatever other programs do, of what they leave alone nothing is lost.   *)
LEMMA OthersKeep ==
  ASSUME WalkInv, S!OtherPrograms
  PROVE  WalkInv'
<1>1. /\ UNCHANGED <<pc, inputs, todo, entries>> /\ touched' # {}
  BY DEF S!OtherPrograms
<1>2. PICK n \in Nodes, k \in S!Kinds :
          disk' = [disk EXCEPT ![n] = k] /\ touched' = touched \cup {n}
  BY DEF S!OtherPrograms
<1>3. DiskTypes /\ DiskTypes'
  BY <1>1, <1>2 DEF WalkInv, WalkTypes, DiskTypes
<1>4. \A m : m \notin touched' => m \notin touched /\ disk'[m] = disk[m]
  BY <1>2, <1>3 DEF DiskTypes
<1>5. ASSUME NEW p, NEW i, p[i - 1] \notin touched'
      PROVE  Follows(p, i)' <=> Follows(p, i)
  <2>1. disk'[p[i - 1]] = disk[p[i - 1]]
    BY <1>4, <1>5
  <2> QED BY <2>1 DEF Follows, Leads, S!Inside, S!Directory
<1>6. ASSUME NEW p, Walked(p) PROVE Walked(p)'
  BY <1>1, <1>4, <1>5, <1>6 DEF Walked
<1>7. ASSUME NEW look, RightLook(look) PROVE RightLook(look)'
  <2>1. Walked(look.path)' /\ look.path \in Seq(Nodes)
    BY <1>6, <1>7 DEF RightLook, Walked
  <2>2. S!Last(look.path) = look.path[Len(look.path)]
    BY DEF S!Last
  <2> QED BY <1>4, <1>7, <2>1, <2>2 DEF RightLook, Leads
<1>8. ASSUME NEW p, RightEntry(p) PROVE RightEntry(p)'
  BY <1>4, <1>6, <1>8 DEF RightEntry
<1>9. Found' \subseteq Found
  <2> SUFFICES ASSUME NEW q, q \in Found' PROVE q \in Found
    OBVIOUS
  <2>2. /\ Route(q)' /\ disk'[S!Last(q)] \in {"file", "filelink"}
        /\ \A i \in 1 .. Len(q) : q[i] \notin touched'
    BY <1>3, FoundNext DEF FoundAgrees
  <2>3. /\ q \in Seq(Nodes) /\ q # <<>> /\ q[1] \in S!Range(inputs)
        /\ \A i \in 2 .. Len(q) : Follows(q, i)'
    BY <1>1, <2>2 DEF Route
  <2>4. Len(q) \in 1 .. Len(q) /\ \A i \in 2 .. Len(q) : i - 1 \in 1 .. Len(q)
    BY <2>3
  <2>5. Route(q)
    BY <1>5, <2>2, <2>3, <2>4 DEF Route
  <2>6. disk[S!Last(q)] \in {"file", "filelink"} /\ \A i \in 1 .. Len(q) : q[i] \notin touched
    BY <1>4, <2>2, <2>4 DEF S!Last
  <2> QED BY <1>3, <2>5, <2>6, FoundState DEF FoundAgrees
<1>10. WalkTypes'
  BY <1>1, <1>3 DEF WalkInv, WalkTypes
<1>11. LooksInv' /\ EntriesInv'
  BY <1>1, <1>7, <1>8 DEF WalkInv, LooksInv, EntriesInv, S!Key
<1>12. CoverInv'
  BY <1>1, <1>9 DEF WalkInv, CoverInv, Covers, Begins
<1>13. ForkInv' /\ ReasonInv'
  BY <1>1 DEF WalkInv, ForkInv, Fork, NamesDiffer, ReasonInv
<1> QED BY <1>10, <1>11, <1>12, <1>13 DEF WalkInv

-----------------------------------------------------------------------------
(* The plan *)

SelectionInv == ~open => WalkInv

(* At the start there is no plan. *)
LEMMA SelectionInit ==
  ASSUME SourceInit
  PROVE  SelectionInv
<1> USE SourceAssumption
<1>1. /\ pc = "start" /\ inputs \in Seq(Nodes) /\ todo = <<>> /\ entries = {}
      /\ disk \in [Nodes -> S!Kinds] /\ touched = {}
  BY DEF SourceInit, S!Init
<1> QED BY <1>1
    DEF SelectionInv, WalkInv, WalkTypes, DiskTypes, LooksInv, EntriesInv, CoverInv,
        ForkInv, ReasonInv

(* Every step of the source keeps it; once it is open the plan is its own. *)
LEMMA SelectionStep ==
  ASSUME SelectionInv, [SourceNext]_allvars
  PROVE  SelectionInv'
<1> SUFFICES ASSUME ~ open' PROVE WalkInv'
  BY DEF SelectionInv
<1>1. CASE Preparing
  BY <1>1, PrepareKeeps DEF Preparing, SelectionInv
<1>2. CASE OtherPrograms
  BY <1>2, OthersKeep DEF OtherPrograms, SelectionInv
<1>3. CASE UNCHANGED allvars
  BY <1>3, OnlyStage DEF allvars, sourcevars, zipvars, SelectionInv
<1> QED BY <1>1, <1>2, <1>3
    DEF SourceNext, Open, OpenEntry, Writing, Reading, zipvars

(* What an archive is planned from holds of every reachable state. *)
LEMMA SelectionInvariant == SourceSpec => []SelectionInv
BY SelectionInit, SelectionStep, PTL DEF SourceSpec

(***************************************************************************)
(* Of every tree, selection and disk, whatever other programs do while it  *)
(* is walked: of what they leave alone the plan has every file of the      *)
(* selection and nothing else, its keys are distinct, and a selection is   *)
(* refused for a reason only.                                              *)
(***************************************************************************)
THEOREM PlanAlwaysSelection == SourceSpec => []PlanIsSelection
<1>1. SelectionInv => PlanIsSelection
  <2> SUFFICES ASSUME WalkInv PROVE S!PlanIsSelection
    BY DEF SelectionInv, PlanIsSelection
  <2>1. S!Untouched(entries) \subseteq S!Selected
    BY EntrySelected DEF S!Untouched
  <2>2. \A p, q \in entries : S!Key(p) = S!Key(q) => p = q
    BY DEF WalkInv, EntriesInv
  <2>3. pc = "ready" => S!Untouched(S!Selected) \subseteq entries
    BY DEF WalkInv, CoverInv, Found
  <2>4. pc = "failed" => touched # {} \/ S!Refusable
    BY DEF WalkInv, ReasonInv
  <2> QED BY <2>1, <2>2, <2>3, <2>4 DEF S!PlanIsSelection
<1> QED BY <1>1, SelectionInvariant, PTL
=============================================================================
