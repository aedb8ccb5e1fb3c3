--------------------------- MODULE PeerProofs -------------------------------
(***************************************************************************)
(* A peer connection.  Its channel: the gate of RtcDataChannel::send and   *)
(* the way of incoming messages, for every pair of marks, any number of    *)
(* messages, sockets and set-up commands.  All rests on the shape of the   *)
(* worker's loop: whatever one command, datagram or timer makes the        *)
(* library report is handled before the next is taken, so a report always  *)
(* tells of the buffer as it is.                                           *)
(*                                                                         *)
(* Its gathering: the addresses, the routes and the time, for any          *)
(* interfaces, any servers and every NAT of the model.  That rests on      *)
(* three facts: a socket is known by its name, a request by its socket and *)
(* server, and all servers but the last take less than the timeout.        *)
(***************************************************************************)
EXTENDS DataChannel, IceGathering, SequenceTheorems, FiniteSetTheorems, TLAPS

-----------------------------------------------------------------------------
(* The inductive invariant of the channel *)

Kinds == {"high", "low", "close", "open"}

(* The worker takes the next thing with no report left, and makes one.  *)
OneReport ==
    \/ events = <<>>
    \/ wpc = "polling" /\ \E k \in Kinds : events = <<k>>

(* A report that a mark was crossed is made at the crossing and handled    *)
(* before the buffer changes again.                                        *)
ReportIsCurrent ==
    /\ events = <<"high">> => buffered = High + 1
    /\ events = <<"low">> => buffered = Low

(* Above the high mark the gate is shut, or about to be. *)
ShutAboveHigh == buffered > High => ~send_allowed \/ events = <<"high">>

(* Below the low mark it is open, or about to be. *)
OpenBelowLow == ~send_allowed => buffered > Low \/ events = <<"low">>

(* One send at a time is past the gate: the task sends one message after   *)
(* another, and a command that timed out stays its last.                   *)
Passed == tpc = "queueing" \/ command = "send"
OnePasses ==
    /\ command = "send" => tpc \in {"responding", "over", "gone"}
    /\ response # "none" => command = "none"
NonePastTwo ==
    /\ buffered <= High + 2
    /\ buffered = High + 2 => ~send_allowed /\ ~Passed

GateInv ==
    /\ buffered \in Nat /\ send_allowed \in BOOLEAN
    /\ OneReport /\ ReportIsCurrent /\ ShutAboveHigh /\ OpenBelowLow
    /\ OnePasses /\ NonePastTwo

(* A task between its two checks is woken by what happens after the first. *)
WakeInv ==
    /\ tpc = "checking" /\ ~woken => ~closed \/ wpc \in {"notifying", "releasing"}
    /\ NoLostWakeup

(* What has arrived is in the queue or in the library, in order, and what  *)
(* the library holds has a channel to go to once the reports are handled.  *)
InOrder == \A i \in 1 .. Len(queue) : queue[i] = i
ReadsFollow == \A i \in 1 .. Len(reads) : reads[i] = Len(queue) + i
HasChannel == announced => registered \/ events = <<"open">>
ReadInv ==
    /\ queue \in Seq(Nat) /\ reads \in Seq(Nat) /\ coming \in 0 .. Incoming
    /\ registered \in BOOLEAN /\ announced \in BOOLEAN
    /\ InOrder /\ ReadsFollow /\ HasChannel
    /\ Len(queue) + Len(reads) = Incoming - coming
    /\ wpc = "selecting" => reads = <<>>
    /\ reads # <<>> => announced

ChannelIInv == GateInv /\ WakeInv /\ ReadInv

-----------------------------------------------------------------------------
(* Sequences of one report *)

(* Handling the only report leaves none; the first report is the only one. *)
LEMMA SingleReport ==
    ASSUME NEW k
    PROVE  /\ Head(<<k>>) = k /\ Tail(<<k>>) = <<>>
           /\ Append(<<>>, k) = <<k>> /\ <<k>> # <<>>
OBVIOUS

(* Reports of different kinds differ. *)
LEMMA ReportsDiffer ==
    ASSUME NEW k, NEW l, <<k>> = <<l>>
    PROVE  k = l
<1>1. <<k>>[1] = <<l>>[1]
  OBVIOUS
<1> QED BY <1>1

-----------------------------------------------------------------------------
(* The gate *)

(* Nothing has been sent and the gate is open when the peer is created. *)
LEMMA GateInitially == Init => GateInv
BY ChannelAssumption DEF Init, GateInv, OneReport, ReportIsCurrent, ShutAboveHigh,
   OpenBelowLow, OnePasses, NonePastTwo, Passed

(* What the invariant of the gate speaks of, the task aside. *)
gateview == <<wpc, send_allowed, buffered, events>>

(* The task and the command under way matter to what has passed the gate   *)
(* alone.                                                                  *)
LEMMA GateKept ==
    ASSUME GateInv, UNCHANGED gateview, OnePasses',
           Passed' => Passed \/ send_allowed
    PROVE  GateInv'
BY ChannelAssumption DEF GateInv, gateview, OneReport, ReportIsCurrent, ShutAboveHigh,
   OpenBelowLow, NonePastTwo

(* Every step of the task keeps the gate's invariant: it passes only when  *)
(* the gate is open, and only with its last command done.                  *)
LEMMA GateTask ==
    ASSUME GateInv, TaskStep \/ SetupFails \/ SendTimesOut
    PROVE  GateInv'
<1> USE DEF OnePasses, Passed, gateview, Task, OnlyTaskMoves, WorkerUnchanged, gatevars,
            libvars, wirevars, setupvars, GateInv
<1>1. CASE Ask
  BY <1>1, GateKept DEF Ask
<1>2. CASE Answered
  BY <1>2, GateKept DEF Answered
<1>3. CASE TakeChannel
  BY <1>3, GateKept DEF TakeChannel
<1>4. CASE Watch
  BY <1>4, GateKept DEF Watch
<1>5. CASE CheckClosed
  BY <1>5, GateKept DEF CheckClosed
<1>6. CASE CheckAllowed
  BY <1>6, GateKept DEF CheckAllowed
<1>7. CASE WakeUp
  BY <1>7, GateKept DEF WakeUp
<1>8. CASE QueueSend
  BY <1>8, GateKept DEF QueueSend
<1>9. CASE SendReturns
  BY <1>9, GateKept DEF SendReturns
<1>10. CASE QueueClose
  BY <1>10, GateKept DEF QueueClose
<1>11. CASE CloseReturns
  BY <1>11, GateKept DEF CloseReturns
<1>12. CASE SetupFails
  BY <1>12, GateKept DEF SetupFails
<1>13. CASE SendTimesOut
  BY <1>13, GateKept DEF SendTimesOut
<1> QED BY <1>1, <1>2, <1>3, <1>4, <1>5, <1>6, <1>7, <1>8, <1>9, <1>10, <1>11, <1>12,
           <1>13 DEF TaskStep

(* A report is handled with the buffer as it was when it was made. *)
LEMMA GatePollEvent ==
    ASSUME GateInv, PollEvent
    PROVE  GateInv'
<1> USE DEF PollEvent, taskvars, wirevars
<1>1. PICK k \in Kinds : events = <<k>>
  BY DEF GateInv, OneReport
<1>2. Head(events) = k /\ events' = <<>> /\ buffered' = buffered
  BY <1>1, SingleReport
<1>3. OneReport' /\ ReportIsCurrent'
  BY <1>2 DEF OneReport, ReportIsCurrent
<1>4. OnePasses' /\ NonePastTwo'
  BY <1>1, <1>2, ReportsDiffer, ChannelAssumption
     DEF GateInv, OnePasses, NonePastTwo, Passed, ReportIsCurrent, HandleHigh, HandleLow,
         gatevars, Kinds
<1>5. ShutAboveHigh'
  BY <1>1, <1>2, ReportsDiffer, ChannelAssumption
     DEF GateInv, ShutAboveHigh, ReportIsCurrent, HandleHigh, HandleLow, gatevars, Kinds
<1>6. OpenBelowLow'
  BY <1>1, <1>2, ReportsDiffer, ChannelAssumption
     DEF GateInv, OpenBelowLow, ReportIsCurrent, HandleHigh, HandleLow, gatevars, Kinds
<1> QED BY <1>2, <1>3, <1>4, <1>5, <1>6
        DEF GateInv, HandleHigh, HandleLow, gatevars

(* The library counts the message and reports the crossing. *)
LEMMA GateSend ==
    ASSUME GateInv, HandleSend
    PROVE  GateInv'
<1> USE DEF HandleSend, Worker, taskvars, gatevars
<1>1. events = <<>> /\ wpc = "selecting" /\ wpc' = "polling" /\ send_allowed' = send_allowed
  BY DEF GateInv, OneReport
<1>2. CASE closed
  BY <1>1, <1>2, ChannelAssumption DEF GateInv, OneReport, ReportIsCurrent, ShutAboveHigh,
     OpenBelowLow, OnePasses, NonePastTwo, Passed
<1>3. CASE ~closed
  <2>1. buffered' = buffered + 1
        /\ events' = IF buffered = High THEN <<"high">> ELSE <<>>
    BY <1>1, <1>3, SingleReport
  <2>2. tpc' # "queueing" /\ command' # "send" /\ buffered <= High + 1
    BY ChannelAssumption DEF GateInv, OnePasses, NonePastTwo, Passed
  <2>3. OneReport' /\ ReportIsCurrent'
    BY <1>1, <2>1, ReportsDiffer, ChannelAssumption
       DEF GateInv, OneReport, ReportIsCurrent, Kinds
  <2>4. ShutAboveHigh' /\ NonePastTwo'
    BY <1>1, <2>1, <2>2, ChannelAssumption, SingleReport
       DEF GateInv, ShutAboveHigh, NonePastTwo, Passed
  <2>5. OpenBelowLow' /\ OnePasses'
    BY <1>1, <1>3, <2>1, ChannelAssumption DEF GateInv, OpenBelowLow, OnePasses
  <2> QED BY <1>1, <2>1, <2>3, <2>4, <2>5, ChannelAssumption DEF GateInv
<1> QED BY <1>2, <1>3

(* So when the peer acknowledges. *)
LEMMA GateDrain ==
    ASSUME GateInv, Drain
    PROVE  GateInv'
<1> USE DEF Drain, Datagram, Worker, taskvars, wirevars, gatevars
<1>1. events = <<>> /\ wpc = "selecting" /\ wpc' = "polling" /\ send_allowed' = send_allowed
  BY DEF GateInv, OneReport
<1>2. /\ buffered \in Nat /\ buffered' = buffered - 1
      /\ events' = IF buffered = Low + 1 THEN <<"low">> ELSE <<>>
  BY <1>1, SingleReport DEF GateInv
<1>3. OneReport' /\ ReportIsCurrent'
  BY <1>1, <1>2, ReportsDiffer, ChannelAssumption DEF OneReport, ReportIsCurrent, Kinds
<1>4. ShutAboveHigh' /\ NonePastTwo'
  BY <1>1, <1>2, ChannelAssumption, SingleReport
     DEF GateInv, ShutAboveHigh, NonePastTwo, Passed
<1>5. OpenBelowLow' /\ OnePasses'
  BY <1>1, <1>2, ChannelAssumption, SingleReport DEF GateInv, OpenBelowLow, OnePasses
<1> QED BY <1>1, <1>2, <1>3, <1>4, <1>5, ChannelAssumption DEF GateInv

(* Other reports, and steps without one, leave the buffer and the gate. *)
LEMMA GateOther ==
    ASSUME GateInv, OnePasses', UNCHANGED <<tpc, send_allowed, buffered>>,
           command' = command \/ command' # "send",
           \/ events' = events /\ (events = <<>> \/ wpc' = wpc)
           \/ events = <<>> /\ wpc' = "polling" /\ events' \in {<<"open">>, <<"close">>}
    PROVE  GateInv'
<1>1. OneReport' /\ ReportIsCurrent'
  BY ReportsDiffer DEF GateInv, OneReport, ReportIsCurrent, Kinds
<1>2. NonePastTwo'
  BY DEF GateInv, NonePastTwo, Passed
<1>3. ShutAboveHigh' /\ OpenBelowLow'
  BY SingleReport DEF GateInv, ShutAboveHigh, OpenBelowLow
<1> QED BY <1>1, <1>2, <1>3 DEF GateInv

(* Every step of the worker, the library and the network. *)
LEMMA GateWorker ==
    ASSUME GateInv, WorkerStep \/ Inbound \/ PeerEnds \/ ReaderStops \/ TimerFails
    PROVE  GateInv'
<1> USE DEF GateInv, OnePasses, Worker, taskvars, setupvars, wirevars, gatevars, chanvars, libvars
<1>1. CASE PollEvent
  BY <1>1, GatePollEvent
<1>2. CASE Notify
  BY <1>2, GateOther DEF Notify, OneReport
<1>3. CASE HandOver
  BY <1>3, GateOther DEF HandOver, OneReport
<1>4. CASE ReadMessages
  BY <1>4, GateOther DEF ReadMessages, EventsDone
<1>5. CASE HandleSetup
  BY <1>5, GateOther DEF HandleSetup, SetupCommands, OneReport
<1>6. CASE HandleSend
  BY <1>6, GateSend
<1>7. CASE HandleClose
  BY <1>7, GateOther DEF HandleClose, OneReport
<1>8. CASE AllReadersStopped
  BY <1>8, GateOther DEF AllReadersStopped, OneReport
<1>9. CASE MarkClosed
  BY <1>9, GateOther DEF MarkClosed, OneReport
<1>10. CASE Release
  BY <1>10, GateOther DEF Release, Ends, OneReport
<1>11. CASE Inbound
  BY <1>11, SingleReport, GateOther DEF Inbound, Datagram, OneReport
<1>12. CASE PeerEnds
  BY <1>12, SingleReport, GateOther DEF PeerEnds, Datagram, OneReport
<1>13. CASE ReaderStops
  BY <1>13, GateOther DEF ReaderStops
<1>14. CASE TimerFails
  BY <1>14, GateOther DEF TimerFails, OneReport
<1> QED BY <1>1, <1>2, <1>3, <1>4, <1>5, <1>6, <1>7, <1>8, <1>9, <1>10, <1>11, <1>12,
           <1>13, <1>14 DEF WorkerStep, HandleCommand

-----------------------------------------------------------------------------
(* Waking up *)

(* No flag is stored without a wakeup to follow it, and a task looks at    *)
(* both flags after it began to watch.                                     *)
LEMMA WakeStep ==
    ASSUME WakeInv, [Next]_vars
    PROVE  WakeInv'
<1> USE DEF WakeInv, NoLostWakeup, Task, Worker, OnlyTaskMoves, WorkerUnchanged, gatevars,
            taskvars, setupvars, Sending
<1>1. CASE TaskStep \/ SetupFails \/ SendTimesOut
  BY <1>1 DEF TaskStep, SetupFails, SendTimesOut, Ask, Answered, TakeChannel, Watch,
     CheckClosed, CheckAllowed, WakeUp, QueueSend, SendReturns, QueueClose, CloseReturns
<1>2. CASE PollEvent
  BY <1>2 DEF PollEvent, HandleHigh, HandleLow, HandleClosed, HandleOpen
<1>3. CASE Notify \/ Release
  BY <1>3 DEF Notify, Release, Ends
<1>4. CASE HandOver \/ ReadMessages \/ HandleCommand \/ AllReadersStopped \/ MarkClosed
  BY <1>4 DEF HandOver, ReadMessages, EventsDone, HandleCommand, HandleSetup, HandleSend,
     HandleClose, AllReadersStopped, MarkClosed
<1>5. CASE Network
  BY <1>5 DEF Network, Inbound, Drain, PeerEnds, ReaderStops, TimerFails, Datagram
<1>6. CASE UNCHANGED vars
  BY <1>6 DEF vars
<1> QED BY <1>1, <1>2, <1>3, <1>4, <1>5, <1>6 DEF Next, WorkerStep

-----------------------------------------------------------------------------
(* Incoming messages *)

(* Nothing has arrived at first. *)
LEMMA ReadInitially == Init => ReadInv
<1> SUFFICES ASSUME Init
             PROVE  ReadInv
  OBVIOUS
<1>1. queue \in Seq(Nat) /\ reads \in Seq(Nat) /\ Len(queue) = 0 /\ Len(reads) = 0
  BY DEF Init
<1>2. InOrder /\ ReadsFollow /\ HasChannel
  BY <1>1 DEF Init, InOrder, ReadsFollow, HasChannel
<1>3. coming \in 0 .. Incoming /\ Incoming - coming = 0
  BY ChannelAssumption DEF Init
<1>4. registered = FALSE /\ announced = FALSE /\ reads = <<>>
  BY DEF Init
<1>5. Len(queue) + Len(reads) = Incoming - coming
  BY <1>1, <1>3
<1> QED BY <1>1, <1>2, <1>3, <1>4, <1>5 DEF ReadInv

(* What the invariant speaks of. *)
readview == <<registered, announced, queue, reads, coming>>

(* Steps without a message leave it, as long as an opening is not lost.    *)
LEMMA ReadKept ==
    ASSUME ReadInv, UNCHANGED <<queue, reads, coming, announced>>,
           registered' \in BOOLEAN, registered => registered',
           wpc' = "selecting" => wpc = "selecting",
           announced => registered' \/ events' = <<"open">>
    PROVE  ReadInv'
BY DEF ReadInv, InOrder, ReadsFollow, HasChannel

(* poll_read appends what the library holds, of a registered channel. *)
LEMMA ReadRead ==
    ASSUME ReadInv, ReadMessages
    PROVE  ReadInv'
<1> USE DEF ReadMessages, EventsDone, ReadInv, HasChannel
<1>1. UNCHANGED <<coming, registered, announced, events>> /\ reads' = <<>>
  OBVIOUS
<1>2. CASE registered
  <2>1. queue' = queue \o reads
    BY <1>2
  <2>2. /\ queue' \in Seq(Nat) /\ Len(queue') = Len(queue) + Len(reads)
        /\ \A i \in 1 .. Len(queue') :
               queue'[i] = IF i <= Len(queue) THEN queue[i] ELSE reads[i - Len(queue)]
    BY <2>1, ConcatProperties
  <2>3. InOrder'
    <3> SUFFICES ASSUME NEW i \in 1 .. Len(queue')
                 PROVE  queue'[i] = i
      BY DEF InOrder
    <3>1. Len(queue) \in Nat /\ Len(reads) \in Nat
      OBVIOUS
    <3>2. CASE i <= Len(queue)
      BY <2>2, <3>1, <3>2 DEF InOrder
    <3>3. CASE i > Len(queue)
      <4>1. i - Len(queue) \in 1 .. Len(reads)
        BY <2>2, <3>1, <3>3
      <4>2. reads[i - Len(queue)] = Len(queue) + (i - Len(queue))
        BY <4>1 DEF ReadsFollow
      <4> QED BY <2>2, <3>1, <3>3, <4>2
    <3> QED BY <3>1, <3>2, <3>3
  <2> QED BY <1>1, <1>2, <2>2, <2>3 DEF ReadsFollow
<1>3. CASE ~registered
  <2>1. reads = <<>> /\ queue' = queue
    BY <1>3, SingleReport
  <2> QED BY <1>1, <2>1 DEF ReadsFollow, InOrder
<1> QED BY <1>2, <1>3

(* The library hands out what has arrived, the channel's opening first. *)
LEMMA ReadInbound ==
    ASSUME GateInv, ReadInv, Inbound
    PROVE  ReadInv'
<1> USE DEF Inbound, Datagram, Worker, chanvars
<1>1. events = <<>> /\ reads = <<>> /\ wpc' = "polling" /\ UNCHANGED <<queue, registered>>
  BY DEF GateInv, OneReport, ReadInv
<1>2. PICK n \in 0 .. coming :
          /\ coming' = coming - n
          /\ reads' = [i \in 1 .. n |-> Incoming - coming + i]
  OBVIOUS
<1>3. n \in Nat /\ coming \in Nat /\ Incoming \in Nat /\ coming <= Incoming
  BY ChannelAssumption DEF ReadInv
<1>4. /\ reads' \in Seq(Nat) /\ Len(reads') = n
      /\ \A i \in 1 .. Len(reads') : reads'[i] = (Incoming - coming) + i
  BY <1>2, <1>3
<1>5. Len(queue) = Incoming - coming
  BY <1>1, <1>3 DEF ReadInv
<1>6. ReadsFollow' /\ Len(queue') + Len(reads') = Incoming - coming'
  BY <1>1, <1>2, <1>3, <1>4, <1>5 DEF ReadsFollow
<1>7. HasChannel'
  BY <1>1, SingleReport DEF HasChannel, ReadInv
<1> QED BY <1>1, <1>2, <1>3, <1>4, <1>6, <1>7 DEF ReadInv, InOrder

(* Every step keeps what has arrived, in order. *)
LEMMA ReadStep ==
    ASSUME GateInv, ReadInv, [Next]_vars
    PROVE  ReadInv'
<1> USE DEF Worker, chanvars, libvars
<1>1. CASE TaskStep \/ SetupFails \/ SendTimesOut
  <2>1. UNCHANGED <<wpc, registered, queue, libvars>>
    BY <1>1 DEF TaskStep, SetupFails, SendTimesOut, Ask, Answered, TakeChannel, Watch,
       CheckClosed, CheckAllowed, WakeUp, QueueSend, SendReturns, QueueClose, CloseReturns,
       OnlyTaskMoves, WorkerUnchanged
  <2> QED BY <2>1, ReadKept DEF ReadInv, HasChannel
<1>2. CASE PollEvent
  <2>1. PICK k \in Kinds : events = <<k>> /\ Head(events) = k
    BY <1>2, SingleReport DEF PollEvent, GateInv, OneReport
  <2>2. registered' \in BOOLEAN /\ (registered => registered')
        /\ (announced => registered') /\ wpc' # "selecting"
    <3>1. CASE k = "open"
      <4>1. HandleOpen
        BY <1>2, <2>1, <3>1 DEF PollEvent
      <4> QED BY <4>1 DEF HandleOpen, ReadInv
    <3>2. CASE k # "open"
      <4>1. UNCHANGED registered /\ wpc' # "selecting"
        BY <1>2, <2>1, <3>2 DEF PollEvent
      <4>2. announced => registered
        BY <2>1, <3>2, ReportsDiffer DEF ReadInv, HasChannel
      <4> QED BY <4>1, <4>2 DEF ReadInv
    <3> QED BY <3>1, <3>2
  <2> QED BY <1>2, <2>2, ReadKept DEF PollEvent
<1>3. CASE ReadMessages
  BY <1>3, ReadRead
<1>4. CASE Inbound
  BY <1>4, ReadInbound
<1>5. CASE HandleSetup \/ HandleSend \/ HandleClose \/ Drain \/ PeerEnds
  <2>1. announced => registered
    BY <1>5, SingleReport DEF HandleSetup, HandleSend, HandleClose, Drain, PeerEnds, Datagram,
       GateInv, OneReport, ReadInv, HasChannel
  <2>2. /\ UNCHANGED <<queue, reads, coming, announced>>
        /\ registered' \in BOOLEAN /\ (registered => registered') /\ wpc' # "selecting"
    BY <1>5 DEF HandleSetup, HandleSend, HandleClose, Drain, PeerEnds, Datagram, ReadInv
  <2> QED BY <2>1, <2>2, ReadKept
<1>6. CASE \/ Notify \/ HandOver \/ AllReadersStopped \/ MarkClosed \/ Release
           \/ ReaderStops \/ TimerFails
  <2>1. /\ UNCHANGED <<registered, queue, libvars>>
        /\ wpc' = "selecting" => wpc = "selecting"
    BY <1>6 DEF Notify, HandOver, AllReadersStopped, MarkClosed, Release, Ends, ReaderStops,
       TimerFails
  <2> QED BY <2>1, ReadKept DEF ReadInv, HasChannel
<1>7. CASE UNCHANGED vars
  BY <1>7, ReadKept DEF vars, ReadInv, HasChannel
<1> QED BY <1>1, <1>2, <1>3, <1>4, <1>5, <1>6, <1>7 DEF Next, WorkerStep, HandleCommand, Network

-----------------------------------------------------------------------------
(* The theorems about the channel *)

(* The parts together are inductive. *)
THEOREM ChannelInvariant == Spec => []ChannelIInv
<1>1. Init => ChannelIInv
  <2>1. Init => WakeInv
    BY DEF Init, WakeInv, NoLostWakeup
  <2> QED BY <2>1, GateInitially, ReadInitially DEF ChannelIInv
<1>2. ChannelIInv /\ [Next]_vars => ChannelIInv'
  <2> SUFFICES ASSUME ChannelIInv, [Next]_vars
               PROVE  ChannelIInv'
    OBVIOUS
  <2>1. GateInv'
    <3>1. CASE UNCHANGED vars
      BY <3>1, GateKept DEF vars, taskvars, wirevars, gatevars, libvars, gateview, ChannelIInv,
         GateInv, OnePasses, Passed
    <3>2. CASE Next
      BY <3>2, GateTask, GateWorker, GateDrain DEF Next, Network, ChannelIInv
    <3> QED BY <3>1, <3>2
  <2>2. WakeInv'
    BY WakeStep DEF ChannelIInv
  <2>3. ReadInv'
    BY ReadStep DEF ChannelIInv
  <2> QED BY <2>1, <2>2, <2>3 DEF ChannelIInv
<1> QED BY <1>1, <1>2, PTL DEF Spec

(* NoLostWakeup: however the stores of the worker, notify_waiters and the  *)
(* checks of send interleave.                                              *)
THEOREM WakeupNeverLost == Spec => []NoLostWakeup
<1>1. ChannelIInv => NoLostWakeup
  BY DEF ChannelIInv, WakeInv
<1> QED BY <1>1, ChannelInvariant, PTL

(* GateReopens: for any two marks, the gate is shut only while a report of *)
(* the low mark is still to come.                                          *)
THEOREM GateAlwaysReopens == Spec => []GateReopens
<1>1. ChannelIInv => GateReopens
  <2> SUFFICES ASSUME ChannelIInv, ~send_allowed, ~(buffered > Low)
               PROVE  \E i \in 1 .. Len(events) : events[i] = "low"
    BY DEF GateReopens
  <2>1. events = <<"low">>
    BY DEF ChannelIInv, GateInv, OpenBelowLow
  <2>2. 1 \in 1 .. Len(events) /\ events[1] = "low"
    BY <2>1
  <2> QED BY <2>2
<1> QED BY <1>1, ChannelInvariant, PTL

(* BoundedOvershoot: the buffer passes the high mark by two messages.      *)
THEOREM OvershootAlwaysBounded == Spec => []BoundedOvershoot
<1>1. ChannelIInv => BoundedOvershoot
  BY DEF ChannelIInv, GateInv, NonePastTwo, BoundedOvershoot
<1> QED BY <1>1, ChannelInvariant, PTL

(* InboundComplete: any number of messages, however they are grouped.      *)
THEOREM InboundAlwaysComplete == Spec => []InboundComplete
<1>1. ChannelIInv => InboundComplete
  <2> SUFFICES ASSUME ChannelIInv
               PROVE  InboundComplete
    OBVIOUS
  <2>1. \A i \in 1 .. Len(queue) : queue[i] = i
    BY DEF ChannelIInv, ReadInv, InOrder
  <2>2. ASSUME wpc = "selecting"
        PROVE  Len(queue) = Incoming - coming
    <3>1. reads = <<>> /\ Len(queue) \in Nat /\ Len(queue) + Len(reads) = Incoming - coming
      BY <2>2 DEF ChannelIInv, ReadInv
    <3> QED BY <3>1
  <2> QED BY <2>1, <2>2 DEF InboundComplete
<1> QED BY <1>1, ChannelInvariant, PTL

-----------------------------------------------------------------------------
(* The inductive invariant of gathering *)

(* The sockets have the names of different interfaces. *)
SocketsDiffer ==
    /\ sockets \in Seq(Everywhere) /\ socket_index \in 1 .. Len(sockets)
    /\ \A i, j \in 1 .. Len(sockets) : sockets[i].name = sockets[j].name => i = j

(* What the preferred socket may have used of the time. *)
Turns(n) == n * (ResolveCap + ProbeCap)
InTurn ==
    /\ gpc = "asking" => clock <= Turns(server_index - 1)
    /\ gpc = "resolving" => due <= Turns(server_index - 1) + ResolveCap
    /\ gpc = "waiting" => due <= Turns(server_index)
TimeInv ==
    /\ clock \in 0 .. GatherTimeout /\ due \in 0 .. GatherTimeout
    /\ gpc \in {"asking", "resolving", "waiting", "done"}
    /\ server_index \in 1 .. Len(STUN_SERVERS) + 1
    /\ gpc \in {"resolving", "waiting"} => clock <= due /\ server_index <= Len(STUN_SERVERS)
    /\ socket_index = 1 => InTurn
    /\ \A s \in skipped : s[1] # 1

(* A request that is answered is one of this socket's, to an earlier       *)
(* server or to the host that is waited for.                               *)
Hosts == UNION {s.hosts : s \in ToSet(STUN_SERVERS)}
Requests == [socket : Nat, server : Nat, host : Hosts]
Asked ==
    {r \in Requests :
        /\ r.socket = socket_index /\ r.server <= server_index
        /\ r.server = server_index => gpc = "waiting" /\ r.host = server_addr}
NetInv ==
    /\ underway \subseteq Asked
    /\ inbox \in Seq(UNION {Answers(r) : r \in Asked})

(* What is found is an address of this socket; a candidate has the address *)
(* and the route of its own.                                               *)
OfSocket(addr, i) ==
    addr = LocalAddr(i) \/ \E host \in Hosts : addr = MappedAddr(i, host)
Reachable(c) ==
    /\ c.socket \in 1 .. socket_index
    /\ OfSocket(c.addr, c.socket)
    /\ c.addr \in DOMAIN routes /\ routes[c.addr] = c.socket
RouteInv ==
    /\ \A f \in found : OfSocket(f.addr, socket_index)
    /\ \A c \in candidates : Reachable(c)

GatherIInv == SocketsDiffer /\ TimeInv /\ NetInv /\ RouteInv /\ GatheredIsTold

-----------------------------------------------------------------------------
(* The sockets *)

(* The interfaces are finitely many. *)
LEMMA InterfacesFinite == IsFiniteSet(Everywhere)
<1>1. Interfaces \in Seq(Everywhere)
  BY InterfacesAssumption DEF Everywhere, ToSet
<1>2. Interfaces \in Surjection(1 .. Len(Interfaces), ToSet(Interfaces))
  BY <1>1 DEF Surjection, ToSet
<1>3. IsFiniteSet(1 .. Len(Interfaces))
  BY <1>1, FS_Interval
<1>4. IsFiniteSet(ToSet(Interfaces))
  BY <1>2, <1>3, FS_Surjection
<1> QED BY <1>4, FS_AddElement DEF Everywhere

(* No interface precedes itself. *)
LEMMA NotBeforeItself ==
  ASSUME NEW i, NEW preferred, Precedes(i, i, preferred)
  PROVE  FALSE
<1>1. PICK n \in DOMAIN Interfaces :
          Interfaces[n] = i /\ \A m \in 1 .. n : Interfaces[m] # i
  BY DEF Precedes
<1>2. n \in 1 .. n
  BY <1>1, InterfacesAssumption
<1> QED BY <1>1, <1>2

(* bind_candidate_sockets returns at least one socket, and no name twice. *)
LEMMA SocketsBound ==
  ASSUME NEW preferred \in Everywhere, NEW bindable \in SUBSET Everywhere,
         NEW s \in bind_candidate_sockets(preferred, bindable)
  PROVE  /\ s \in Seq(Everywhere) /\ 1 \in 1 .. Len(s)
         /\ \A i, j \in 1 .. Len(s) : s[i].name = s[j].name => i = j
<1> DEFINE bound == CandidateIps(preferred) \cap bindable
           n == Cardinality(bound)
<1>1. CASE bound = {}
  <2>1. s = <<Localhost>> /\ Localhost \in Everywhere
    BY <1>1 DEF bind_candidate_sockets, Everywhere
  <2> QED BY <2>1
<1>2. CASE bound # {}
  <2>1. IsFiniteSet(bound) /\ bound \subseteq Everywhere
    BY InterfacesFinite, FS_Subset
  <2>2. n \in Nat /\ n # 0
    BY <1>2, <2>1, FS_CardinalityType, FS_EmptySet
  <2>3. /\ s \in [1 .. n -> bound]
        /\ \A i, j \in 1 .. n : i < j => Precedes(s[i], s[j], preferred)
    BY <1>2 DEF bind_candidate_sockets
  <2> HIDE DEF n, bound
  <2>4. s \in Seq(Everywhere) /\ Len(s) = n
    BY <2>1, <2>2, <2>3
  <2>5. ASSUME NEW i \in 1 .. n, NEW j \in 1 .. n, s[i].name = s[j].name, i # j
        PROVE  FALSE
    <3>1. s[i] = s[j]
      BY <2>1, <2>3, <2>5, InterfacesAssumption
    <3>2. i < j \/ j < i
      BY <2>2, <2>5
    <3> QED BY <2>3, <3>1, <3>2, NotBeforeItself
  <2> QED BY <2>2, <2>4, <2>5
<1> QED BY <1>1, <1>2

-----------------------------------------------------------------------------
(* What an answer says *)

(* Where the attributes of an answer are, without one before the address ... *)
LEMMA OffsetsOfOne ==
  ASSUME NEW a, Padded(a.length) \in Nat
  PROVE  AttributeOffsets(<<a>>) =
            [i \in 1 .. 2 |-> IF i = 1 THEN 20 ELSE 24 + Padded(a.length)]
<1> DEFINE g == [i \in 1 .. 2 |-> IF i = 1 THEN 20 ELSE 24 + Padded(a.length)]
           Equation(f) ==
               f = [i \in 1 .. Len(<<a>>) + 1 |->
                        IF i = 1 THEN 20 ELSE f[i - 1] + 4 + Padded(<<a>>[i - 1].length)]
<1>1. Equation(g)
  OBVIOUS
<1>2. ASSUME NEW f, Equation(f) PROVE f = g
  <2>1. f[1] = 20
    BY <1>2
  <2>2. f[2] = 24 + Padded(a.length)
    BY <1>2, <2>1
  <2>3. f = [i \in 1 .. 2 |-> f[i]]
    BY <1>2
  <2> QED BY <2>1, <2>2, <2>3
<1>3. AttributeOffsets(<<a>>) = CHOOSE f : Equation(f)
  BY DEF AttributeOffsets
<1> HIDE DEF g, Equation
<1>4. AttributeOffsets(<<a>>) = g
  BY <1>1, <1>2, <1>3
<1> QED BY <1>4 DEF g

(* ... and with one. *)
LEMMA OffsetsOfTwo ==
  ASSUME NEW a, NEW b, Padded(a.length) \in Nat, Padded(b.length) \in Nat
  PROVE  AttributeOffsets(<<a, b>>) =
            [i \in 1 .. 3 |-> CASE i = 1 -> 20
                                [] i = 2 -> 24 + Padded(a.length)
                                [] i = 3 -> 28 + Padded(a.length) + Padded(b.length)]
<1> DEFINE g == [i \in 1 .. 3 |-> CASE i = 1 -> 20
                                     [] i = 2 -> 24 + Padded(a.length)
                                     [] i = 3 -> 28 + Padded(a.length) + Padded(b.length)]
           Equation(f) ==
               f = [i \in 1 .. Len(<<a, b>>) + 1 |->
                        IF i = 1 THEN 20
                        ELSE f[i - 1] + 4 + Padded(<<a, b>>[i - 1].length)]
<1>1. Equation(g)
  <2>1. g[1] = 20 /\ g[2] = g[1] + 4 + Padded(a.length) /\ g[3] = g[2] + 4 + Padded(b.length)
    OBVIOUS
  <2>2. g = [i \in 1 .. 3 |-> g[i]]
    OBVIOUS
  <2> HIDE DEF g
  <2> QED BY <2>1, <2>2
<1>2. ASSUME NEW f, Equation(f) PROVE f = g
  <2>1. f[1] = 20
    BY <1>2
  <2>2. f[2] = 24 + Padded(a.length)
    BY <1>2, <2>1
  <2>3. f[3] = 28 + Padded(a.length) + Padded(b.length)
    BY <1>2, <2>2
  <2>4. f = [i \in 1 .. 3 |-> f[i]]
    BY <1>2
  <2>5. \A i \in 1 .. 3 : f[i] = g[i]
    BY <2>1, <2>2, <2>3
  <2>6. g = [i \in 1 .. 3 |-> g[i]]
    OBVIOUS
  <2> HIDE DEF g, Equation
  <2> QED BY <2>4, <2>5, <2>6
<1>3. AttributeOffsets(<<a, b>>) = CHOOSE f : Equation(f)
  BY DEF AttributeOffsets
<1> HIDE DEF g, Equation
<1>4. AttributeOffsets(<<a, b>>) = g
  BY <1>1, <1>2, <1>3
<1> QED BY <1>4 DEF g

(* The walk ends at the first attribute that stops it. *)
LEMMA WalkEnds ==
  ASSUME NEW packet, NEW n \in 1 .. Len(packet.attributes) + 1,
         Len(packet.attributes) \in Nat,
         Stops(packet, n), \A j \in 1 .. n - 1 : ~Stops(packet, j)
  PROVE  WalkEnd(packet) = n
<1> DEFINE FirstStop(i) == Stops(packet, i) /\ \A j \in 1 .. i - 1 : ~Stops(packet, j)
<1>1. FirstStop(n)
  OBVIOUS
<1>2. ASSUME NEW i \in 1 .. Len(packet.attributes) + 1, FirstStop(i)
      PROVE  i = n
  <2>1. ~(i < n) /\ ~(n < i)
    BY <1>2
  <2> QED BY <2>1
<1> HIDE DEF FirstStop
<1>3. WalkEnd(packet) = CHOOSE i \in 1 .. Len(packet.attributes) + 1 : FirstStop(i)
  BY DEF WalkEnd, FirstStop
<1> QED BY <1>1, <1>2, <1>3

(* A host is asked over the family of its address. *)
LEMMA HostFamily ==
  ASSUME NEW host \in Hosts
  PROVE  host.v4 \in BOOLEAN
<1>1. PICK i \in DOMAIN STUN_SERVERS : host \in STUN_SERVERS[i].hosts
  BY DEF Hosts, ToSet
<1> DEFINE S == [name : STRING, hosts : SUBSET [at : STRING, v4 : BOOLEAN]]
<1>2. STUN_SERVERS[i] \in S
  <2>1. STUN_SERVERS \in Seq(S)
    BY ServersAssumption
  <2> HIDE DEF S
  <2> QED BY <2>1
<1>3. host \in [at : STRING, v4 : BOOLEAN]
  BY <1>1, <1>2
<1> QED BY <1>3

(* A mapped address fills 8 bytes, or 20. *)
LEMMA MappedFacts ==
  ASSUME NEW r \in Requests
  PROVE  /\ Mapped(r).length \in {8, 20} /\ Padded(Mapped(r).length) = Mapped(r).length
         /\ XorMapped(Mapped(r)) /\ Mapped(r).addr = MappedAddr(r.socket, r.host)
         /\ Mapped(r).typ = "xor_mapped"
         /\ AddressIn(Mapped(r)) = MappedAddr(r.socket, r.host)
<1>1. r.host.v4 \in BOOLEAN
  BY HostFamily DEF Requests
<1>2. Padded(8) = 8 /\ Padded(20) = 20
  BY DEF Padded
<1> QED BY <1>1, <1>2 DEF Mapped, XorMapped, AddressIn

(* The attribute before it fills 5 bytes of 8. *)
LEMMA SoftwareFacts ==
  /\ Software.length = 5 /\ Padded(Software.length) = 8
  /\ Software.typ = "software" /\ ~XorMapped(Software)
BY DEF Software, Padded, XorMapped

(* What is told is the address, and the parser finds it. *)
Says(p, r) ==
    /\ Tells(p) = {MappedAddr(r.socket, r.host)}
    /\ parse_stun_binding_response(p, p.transaction) = MappedAddr(r.socket, r.host)
(* Nothing is told, and the parser finds nothing. *)
SaysNothing(p) ==
    /\ Tells(p) = {}
    /\ parse_stun_binding_response(p, p.transaction) = NoAddress

(* An answer that has the address and nothing before it is read. *)
LEMMA ShortAnswer ==
  ASSUME NEW r \in Requests
  PROVE  Says(Message(r, <<Mapped(r)>>), r)
<1> DEFINE p == Message(r, <<Mapped(r)>>)
           l == Mapped(r).length
<1>1. AttributeOffsets(<<Mapped(r)>>) = [i \in 1 .. 2 |-> IF i = 1 THEN 20 ELSE 24 + l]
  BY OffsetsOfOne, MappedFacts
<1>2. l \in Nat /\ l > 0
  BY MappedFacts
<1>3. /\ p.attributes = <<Mapped(r)>> /\ p.size = 24 + l /\ p.declared = 4 + l
      /\ p.success = TRUE
  BY <1>1, <1>2 DEF Message
<1> HIDE DEF p, l
<1>4. Len(p.attributes) = 1 /\ p.attributes[1] = Mapped(r)
  BY <1>3
<1>5. Fits(p, 1)
  BY <1>1, <1>2, <1>3, <1>4 DEF Fits, AttributeEnd, l
<1>6. Stops(p, 1)
  BY <1>4, MappedFacts DEF Stops
<1>7. WalkEnd(p) = 1
  BY <1>4, <1>6, WalkEnds
<1>8. parse_stun_binding_response(p, p.transaction) = MappedAddr(r.socket, r.host)
  BY <1>2, <1>3, <1>4, <1>5, <1>7, MappedFacts DEF parse_stun_binding_response
<1>9. Tells(p) = {MappedAddr(r.socket, r.host)}
  BY <1>2, <1>3, <1>4, MappedFacts DEF Tells
<1> QED BY <1>8, <1>9 DEF Says, p

(* In an answer with another attribute before the address, the walk ends   *)
(* at the address, and the address fits unless the answer is cut off.      *)
LEMMA LongAnswer ==
  ASSUME NEW r \in Requests, NEW p,
         p.attributes = <<Software, Mapped(r)>>, p.declared = 16 + Mapped(r).length,
         p.size \in {36 + Mapped(r).length, 35 + Mapped(r).length}
  PROVE  /\ WalkEnd(p) = 2 /\ Len(p.attributes) = 2 /\ p.attributes[2] = Mapped(r)
         /\ Fits(p, 2) <=> p.size = 36 + Mapped(r).length
<1> DEFINE l == Mapped(r).length
<1>1. AttributeOffsets(<<Software, Mapped(r)>>) =
         [i \in 1 .. 3 |-> CASE i = 1 -> 20 [] i = 2 -> 32 [] i = 3 -> 36 + l]
  <2>1. AttributeOffsets(<<Software, Mapped(r)>>) =
           [i \in 1 .. 3 |-> CASE i = 1 -> 20
                               [] i = 2 -> 24 + 8
                               [] i = 3 -> 28 + 8 + l]
    BY OffsetsOfTwo, MappedFacts, SoftwareFacts
  <2>2. l \in Nat
    BY MappedFacts
  <2> QED BY <2>1, <2>2
<1>2. l \in Nat /\ l >= 8
  BY MappedFacts
<1>3. Mapped(r).length = l
  OBVIOUS
<1> HIDE DEF l
<1>4. /\ Len(p.attributes) = 2 /\ p.attributes[1] = Software /\ p.attributes[2] = Mapped(r)
  OBVIOUS
<1>5. /\ AttributeOffsets(p.attributes)[1] = 20 /\ AttributeOffsets(p.attributes)[2] = 32
  BY <1>1
<1>6. Fits(p, 1)
  BY <1>2, <1>3, <1>4, <1>5, SoftwareFacts DEF Fits, AttributeEnd
<1>7. Fits(p, 2) <=> p.size = 36 + l
  BY <1>2, <1>3, <1>4, <1>5 DEF Fits, AttributeEnd
<1>8. ~Stops(p, 1) /\ Stops(p, 2)
  BY <1>4, <1>6, SoftwareFacts, MappedFacts DEF Stops
<1>9. WalkEnd(p) = 2
  <2>1. \A j \in 1 .. 2 - 1 : ~Stops(p, j)
    BY <1>8
  <2>2. 2 \in 1 .. Len(p.attributes) + 1 /\ Len(p.attributes) \in Nat
    BY <1>4
  <2> QED BY <1>8, <2>1, <2>2, WalkEnds
<1> QED BY <1>3, <1>4, <1>7, <1>9

(* An answer tells the address it was asked for, and the parser finds just *)
(* that, or it tells nothing, and the parser finds nothing.                *)
LEMMA AnswerFacts ==
  ASSUME NEW r \in Requests, NEW p \in Answers(r)
  PROVE  /\ p.source = r.host /\ p.transaction = <<r.socket, r.server>>
         /\ Says(p, r) \/ SaysNothing(p)
<1> DEFINE whole == Message(r, <<Software, Mapped(r)>>)
           l == Mapped(r).length
<1>1. l \in Nat
  BY MappedFacts
<1>2. AttributeOffsets(<<Software, Mapped(r)>>)[3] = 36 + l
  <2>1. AttributeOffsets(<<Software, Mapped(r)>>) =
           [i \in 1 .. 3 |-> CASE i = 1 -> 20
                               [] i = 2 -> 24 + 8
                               [] i = 3 -> 28 + 8 + l]
    BY OffsetsOfTwo, MappedFacts, SoftwareFacts
  <2> HIDE DEF l
  <2> QED BY <1>1, <2>1
<1>3. /\ whole.attributes = <<Software, Mapped(r)>> /\ whole.declared = 16 + l
      /\ whole.size = 36 + l /\ whole.success = TRUE
      /\ whole.source = r.host /\ whole.transaction = <<r.socket, r.server>>
  BY <1>1, <1>2 DEF Message
<1>4. /\ DOMAIN whole = {"source", "transaction", "success", "declared", "size", "attributes"}
  BY DEF Message
<1>5. p \in {Message(r, <<Mapped(r)>>), whole, [whole EXCEPT !.size = @ - 1],
             [whole EXCEPT !.success = FALSE]}
  BY DEF Answers
<1> HIDE DEF whole
<1>6. CASE p = Message(r, <<Mapped(r)>>)
  BY <1>6, ShortAnswer DEF Message
<1>7. CASE p = whole
  <2>1. Len(p.attributes) = 2 /\ p.attributes[1] = Software /\ p.attributes[2] = Mapped(r)
    BY <1>3, <1>7
  <2>2. WalkEnd(p) = 2 /\ Fits(p, 2)
    BY <1>3, <1>7, LongAnswer
  <2>3. parse_stun_binding_response(p, p.transaction) = MappedAddr(r.socket, r.host)
    BY <1>1, <1>3, <1>7, <2>1, <2>2, MappedFacts DEF parse_stun_binding_response
  <2>4. {j \in 1 .. Len(p.attributes) : p.attributes[j].typ = "xor_mapped"} = {2}
    BY <2>1, MappedFacts, SoftwareFacts
  <2>5. Tells(p) = {MappedAddr(r.socket, r.host)}
    BY <1>1, <1>3, <1>7, <2>1, <2>4, MappedFacts DEF Tells
  <2> QED BY <1>3, <1>7, <2>3, <2>5 DEF Says
<1>8. CASE p = [whole EXCEPT !.size = @ - 1]
  <2>1. /\ p.attributes = <<Software, Mapped(r)>> /\ p.declared = 16 + l /\ p.size = 35 + l
        /\ p.success = TRUE /\ p.source = r.host /\ p.transaction = <<r.socket, r.server>>
    BY <1>1, <1>3, <1>4, <1>8
  <2>2. WalkEnd(p) = 2 /\ ~Fits(p, 2)
    BY <1>1, <2>1, LongAnswer
  <2>3. SaysNothing(p)
    BY <1>1, <2>1, <2>2 DEF SaysNothing, Tells, parse_stun_binding_response
  <2> QED BY <2>1, <2>3
<1>9. CASE p = [whole EXCEPT !.success = FALSE]
  <2>1. ~p.success /\ p.source = r.host /\ p.transaction = <<r.socket, r.server>>
    BY <1>3, <1>4, <1>9
  <2>2. SaysNothing(p)
    BY <2>1 DEF SaysNothing, Tells, parse_stun_binding_response
  <2> QED BY <2>1, <2>2
<1> QED BY <1>5, <1>6, <1>7, <1>8, <1>9

-----------------------------------------------------------------------------
(* Steps of gathering: the sockets *)

(* There is a socket to begin with, ... *)
LEMMA SocketsInitially == GatherInit => SocketsDiffer
<1> SUFFICES ASSUME GatherInit PROVE SocketsDiffer
  OBVIOUS
<1>1. PICK preferred \in Everywhere, bindable \in SUBSET Everywhere :
          sockets \in bind_candidate_sockets(preferred, bindable)
  BY DEF GatherInit, Everywhere
<1>2. socket_index = 1
  BY DEF GatherInit
<1> QED BY <1>1, <1>2, SocketsBound DEF SocketsDiffer

(* ... the one that asks is always one of them, and they keep their names. *)
LEMMA SocketsStep ==
  ASSUME SocketsDiffer, [GatherNext]_gathervars
  PROVE  SocketsDiffer'
<1>1. sockets' = sockets
  BY DEF GatherNext, gathervars, resultvars, Tick, AskServer, SendRequest, CannotAsk, Arrives,
     SkipDatagram, TakeAddress, GiveUp, NextSocket, SocketsDone, NextServer
<1>2. socket_index' = socket_index \/ NextSocket
  BY DEF GatherNext, gathervars, Tick, AskServer, SendRequest, CannotAsk, Arrives,
     SkipDatagram, TakeAddress, GiveUp, SocketsDone, NextServer
<1>3. socket_index' \in 1 .. Len(sockets)
  BY <1>2 DEF SocketsDiffer, NextSocket
<1> QED BY <1>1, <1>3 DEF SocketsDiffer

-----------------------------------------------------------------------------
(* Steps of gathering: the time *)

(* What n servers may take: one more takes one turn more, and all but the  *)
(* last take less than the timeout.                                        *)
LEMMA TurnFacts ==
  /\ \A n \in Nat : Turns(n) \in Nat /\ Turns(n + 1) = Turns(n) + ResolveCap + ProbeCap
  /\ \A n \in Nat : n < Len(STUN_SERVERS) => Turns(n) < GatherTimeout
  /\ Turns(0) = 0 /\ Len(STUN_SERVERS) \in Nat
<1>0. ResolveCap \in Nat /\ ProbeCap \in Nat /\ GatherTimeout \in Nat /\ Len(STUN_SERVERS) \in Nat
  <2> DEFINE S == [name : STRING, hosts : SUBSET [at : STRING, v4 : BOOLEAN]]
  <2>1. STUN_SERVERS \in Seq(S)
    BY ServersAssumption
  <2> HIDE DEF S
  <2> QED BY <2>1, TimesAssumption
<1>1. ASSUME NEW a \in Nat, NEW n \in Nat
      PROVE  n * a \in Nat /\ (n + 1) * a = n * a + a
  OBVIOUS
<1>2. ASSUME NEW n \in Nat, n < Len(STUN_SERVERS)
      PROVE  Turns(n) < GatherTimeout
  <2> DEFINE a == ResolveCap + ProbeCap
  <2>1. a \in Nat
    BY <1>0
  <2>2. n <= Len(STUN_SERVERS) - 1 /\ Len(STUN_SERVERS) - 1 \in Nat
    BY <1>0, <1>2
  <2>3. (Len(STUN_SERVERS) - 1) * a < GatherTimeout
    BY TimesAssumption
  <2>4. \A k, m \in Nat : k <= m => k * a <= m * a
    <3> HIDE DEF a
    <3> SUFFICES ASSUME NEW k \in Nat, NEW m \in Nat, k <= m PROVE k * a <= m * a
      OBVIOUS
    <3>1. (m - k) * a >= 0 /\ m * a = k * a + (m - k) * a
      BY <2>1
    <3>2. (m - k) * a \in Int /\ k * a \in Int
      BY <2>1
    <3> QED BY <3>1, <3>2
  <2>5. n * a <= (Len(STUN_SERVERS) - 1) * a
    BY <2>2, <2>4
  <2>6. n * a \in Nat /\ (Len(STUN_SERVERS) - 1) * a \in Nat
    BY <1>1, <2>1, <2>2
  <2>7. Turns(n) = n * a
    BY DEF Turns
  <2> HIDE DEF a
  <2> QED BY <1>0, <2>3, <2>5, <2>6, <2>7
<1>3. ASSUME NEW n \in Nat
      PROVE  Turns(n) \in Nat /\ Turns(n + 1) = Turns(n) + ResolveCap + ProbeCap
  BY <1>0, <1>1 DEF Turns
<1>4. Turns(0) = 0
  BY <1>0 DEF Turns
<1> QED BY <1>0, <1>2, <1>3, <1>4

(* A wait is over with its time or with the timeout. *)
LEMMA BeforeFacts ==
  ASSUME clock \in 0 .. GatherTimeout, NEW limit \in Nat
  PROVE  Before(limit) \in clock .. GatherTimeout /\ Before(limit) <= clock + limit
BY TimesAssumption DEF Before

(* Gathering begins in time, ... *)
LEMMA TimeInitially == GatherInit => TimeInv
<1> SUFFICES ASSUME GatherInit PROVE TimeInv
  OBVIOUS
<1>1. /\ clock = 0 /\ due = 0 /\ gpc = "asking" /\ server_index = 1 /\ skipped = {}
  BY DEF GatherInit
<1>2. clock <= Turns(server_index - 1)
  BY <1>1, TurnFacts
<1>3. 0 \in 0 .. GatherTimeout /\ 1 \in 1 .. Len(STUN_SERVERS) + 1
  BY TurnFacts, TimesAssumption
<1> QED BY <1>1, <1>2, <1>3 DEF TimeInv, InTurn

(* ... the preferred socket never comes to the timeout with a server left, *)
LEMMA NoneSkipped ==
  ASSUME TimeInv, socket_index = 1, ServersDone
  PROVE  Skipped = {}
<1>0. server_index \in Int /\ Len(STUN_SERVERS) \in Int
  BY TurnFacts DEF TimeInv
<1>1. CASE gpc = "asking" /\ server_index <= Len(STUN_SERVERS)
  <2>1. clock <= Turns(server_index - 1) /\ server_index - 1 \in Nat
    BY <1>1, TurnFacts DEF TimeInv, InTurn
  <2>2. Turns(server_index - 1) < GatherTimeout /\ Turns(server_index - 1) \in Nat
    <3>1. server_index - 1 < Len(STUN_SERVERS)
      BY <1>0, <1>1
    <3> QED BY <2>1, <3>1, TurnFacts
  <2>3. clock < GatherTimeout
    BY <2>1, <2>2, TimesAssumption DEF TimeInv
  <2> QED BY <1>1, <2>3, TurnFacts, TimesAssumption DEF ServersDone, TimeInv
<1>2. CASE gpc = "asking" /\ server_index > Len(STUN_SERVERS)
  <2>1. server_index .. Len(STUN_SERVERS) = {}
    BY <1>2, TurnFacts DEF TimeInv
  <2> QED BY <2>1 DEF Skipped
<1>3. CASE gpc # "asking"
  BY <1>3 DEF Skipped
<1>4. server_index <= Len(STUN_SERVERS) \/ server_index > Len(STUN_SERVERS)
  BY <1>0
<1> QED BY <1>1, <1>2, <1>3, <1>4

(* ... and every step keeps to the socket's turns. *)
LEMMA TimeStep ==
  ASSUME SocketsDiffer, TimeInv, [GatherNext]_gathervars
  PROVE  TimeInv'
<1>0. /\ clock \in 0 .. GatherTimeout /\ due \in 0 .. GatherTimeout /\ GatherTimeout \in Nat
      /\ server_index \in 1 .. Len(STUN_SERVERS) + 1 /\ Len(STUN_SERVERS) \in Nat
      /\ ResolveCap \in Nat /\ ProbeCap \in Nat /\ socket_index \in Nat /\ socket_index >= 1
      /\ \A s \in skipped : s[1] # 1
  BY TurnFacts, TimesAssumption DEF TimeInv, SocketsDiffer
<1> DEFINE before == Turns(server_index - 1)
           after == Turns(server_index)
<1>t. /\ before \in Nat /\ after \in Nat /\ after = before + ResolveCap + ProbeCap
  <2>1. PICK n \in Nat : n = server_index - 1 /\ n + 1 = server_index
    BY <1>0
  <2>2. Turns(n) \in Nat /\ Turns(n + 1) = Turns(n) + ResolveCap + ProbeCap
    BY TurnFacts
  <2>3. Turns(n + 1) \in Nat
    BY <1>0, <2>2
  <2> QED BY <2>1, <2>2, <2>3
<1>b. /\ Before(ResolveCap) \in clock .. GatherTimeout
      /\ Before(ResolveCap) <= clock + ResolveCap
      /\ Before(ProbeCap) \in clock .. GatherTimeout
      /\ Before(ProbeCap) <= clock + ProbeCap
  BY <1>0, BeforeFacts
<1>1. CASE UNCHANGED gathervars
  BY <1>1 DEF gathervars, waitvars, TimeInv, InTurn
<1>2. CASE Tick
  <2>1. /\ gpc \in {"resolving", "waiting"} /\ clock' = clock + 1 /\ clock < due
        /\ gpc' = gpc /\ due' = due /\ socket_index' = socket_index
        /\ server_index' = server_index /\ skipped' = skipped
    BY <1>2 DEF Tick, waitvars
  <2>2. clock' \in 0 .. GatherTimeout /\ clock' <= due'
    BY <1>0, <2>1
  <2> QED BY <1>0, <2>1, <2>2 DEF TimeInv, InTurn
<1>3. CASE AskServer
  <2>1. /\ gpc = "asking" /\ server_index <= Len(STUN_SERVERS) /\ gpc' = "resolving"
        /\ due' = Before(ResolveCap) /\ clock' = clock /\ socket_index' = socket_index
        /\ server_index' = server_index /\ skipped' = skipped
    BY <1>3 DEF AskServer, ResolveDue
  <2>2. socket_index = 1 => due' <= before + ResolveCap
    <3>1. socket_index = 1 => clock <= before
      BY <2>1 DEF TimeInv, InTurn
    <3> HIDE DEF before
    <3> QED BY <1>0, <1>t, <1>b, <2>1, <3>1
  <2> QED BY <1>0, <1>b, <2>1, <2>2 DEF TimeInv, InTurn
<1>4. CASE SendRequest
  <2>1. /\ gpc = "resolving" /\ gpc' = "waiting"
        /\ due' = Before(ProbeCap) /\ clock' = clock /\ socket_index' = socket_index
        /\ server_index' = server_index /\ skipped' = skipped
    BY <1>4 DEF SendRequest
  <2>2. socket_index = 1 => due' <= after
    <3>1. socket_index = 1 => clock <= before + ResolveCap
      BY <1>0, <1>t, <2>1 DEF TimeInv, InTurn
    <3> HIDE DEF before, after
    <3> QED BY <1>0, <1>t, <1>b, <2>1, <3>1
  <2> QED BY <1>0, <1>b, <2>1, <2>2 DEF TimeInv, InTurn
<1>5. ASSUME gpc \in {"resolving", "waiting"}, NextServer, due' = due
      PROVE  TimeInv'
  <2>1. /\ gpc' = "asking" /\ server_index' = server_index + 1 /\ clock' = clock
        /\ socket_index' = socket_index /\ skipped' = skipped
        /\ server_index <= Len(STUN_SERVERS) /\ clock <= due
    BY <1>5 DEF NextServer, TimeInv
  <2>2. socket_index = 1 => clock <= after
    BY <1>0, <1>t, <1>5, <2>1 DEF TimeInv, InTurn
  <2>3. server_index' - 1 = server_index
    BY <1>0, <2>1
  <2>4. server_index' \in 1 .. Len(STUN_SERVERS) + 1
    BY <1>0, <2>1
  <2> QED BY <1>0, <1>5, <2>1, <2>2, <2>3, <2>4 DEF TimeInv, InTurn
<1>6. CASE CannotAsk
  BY <1>5, <1>6 DEF CannotAsk, waitvars
<1>7. CASE TakeAddress
  BY <1>5, <1>7 DEF TakeAddress, Waits, waitvars
<1>8. CASE GiveUp
  BY <1>5, <1>8 DEF GiveUp, waitvars
<1>9. CASE Arrives \/ SkipDatagram
  BY <1>9 DEF Arrives, SkipDatagram, waitvars, TimeInv, InTurn
<1>10. ASSUME ServersDone, skipped' = skipped \cup Skipped
       PROVE  \A s \in skipped' : s[1] # 1
  <2>1. \A s \in Skipped : s[1] # 1
    BY <1>10, NoneSkipped DEF Skipped
  <2> QED BY <1>0, <1>10, <2>1
<1>11. CASE NextSocket
  <2>1. /\ gpc' = "asking" /\ server_index' = 1 /\ clock' = clock /\ due' = due
        /\ socket_index' = socket_index + 1
    BY <1>11 DEF NextSocket, waitvars
  <2>2. socket_index' # 1 /\ 1 \in 1 .. Len(STUN_SERVERS) + 1
    BY <1>0, <2>1
  <2> QED BY <1>0, <1>10, <1>11, <2>1, <2>2 DEF TimeInv, NextSocket
<1>12. CASE SocketsDone
  <2>1. /\ gpc' = "done" /\ server_index' = server_index /\ clock' = clock /\ due' = due
        /\ socket_index' = socket_index
    BY <1>12 DEF SocketsDone, waitvars
  <2> QED BY <1>0, <1>10, <1>12, <2>1 DEF TimeInv, InTurn, SocketsDone
<1> QED BY <1>1, <1>2, <1>3, <1>4, <1>6, <1>7, <1>8, <1>9, <1>11, <1>12 DEF GatherNext

-----------------------------------------------------------------------------
(* Steps of gathering: requests and answers *)

(* A larger set has the sequences of a smaller one. *)
LEMMA MoreSequences ==
  ASSUME NEW S, NEW T, S \subseteq T, NEW s \in Seq(S)
  PROVE  s \in Seq(T)
OBVIOUS

(* What was asked stays asked while the names and the socket do. *)
LEMMA AskedKept ==
  ASSUME NetInv, UNCHANGED <<sockets, nat>>, Asked \subseteq Asked',
         underway' \subseteq underway,
         inbox' \in Seq(UNION {Answers(r) : r \in Asked})
  PROVE  NetInv'
<1>1. \A r \in Requests : Answers(r)' = Answers(r)
  BY DEF Answers, Message, Mapped, MappedAddr
<1>2. UNION {Answers(r) : r \in Asked} \subseteq (UNION {Answers(r) : r \in Asked})'
  BY <1>1 DEF Asked
<1>3. inbox' \in Seq((UNION {Answers(r) : r \in Asked})')
  BY <1>2, MoreSequences
<1> QED BY <1>3 DEF NetInv

(* When the next server is asked, all requests were to earlier ones. *)
LEMMA AskedByNext ==
  ASSUME NextServer, server_index \in Nat
  PROVE  Asked \subseteq Asked'
BY DEF NextServer, Asked, Requests

(* A request that waits is in Asked, and so are the ones before it. *)
LEMMA AskedBySend ==
  ASSUME SocketsDiffer, TimeInv, NetInv, SendRequest
  PROVE  NetInv'
<1>1. PICK host \in STUN_SERVERS[server_index].hosts :
          /\ server_addr' = host
          /\ underway' = underway \cup {Request(socket_index, server_index, host)}
  BY DEF SendRequest
<1>2. /\ gpc = "resolving" /\ gpc' = "waiting" /\ inbox' = inbox
      /\ UNCHANGED <<sockets, nat, socket_index, server_index>>
  BY DEF SendRequest, resultvars
<1>3. host \in Hosts /\ server_index \in Nat /\ socket_index \in Nat
  <2>1. server_index \in DOMAIN STUN_SERVERS
    <3>1. server_index \in 1 .. Len(STUN_SERVERS)
      BY <1>2, TurnFacts DEF TimeInv
    <3> DEFINE S == [name : STRING, hosts : SUBSET [at : STRING, v4 : BOOLEAN]]
    <3>2. STUN_SERVERS \in Seq(S)
      BY ServersAssumption
    <3> HIDE DEF S
    <3> QED BY <3>1, <3>2
  <2>2. server_index \in Nat /\ socket_index \in Nat
    BY TurnFacts DEF SocketsDiffer, TimeInv
  <2> QED BY <1>1, <2>1, <2>2 DEF Hosts, ToSet
<1>4. Asked \subseteq Asked'
  BY <1>2 DEF Asked
<1>5. Request(socket_index, server_index, host) \in Asked'
  BY <1>1, <1>2, <1>3 DEF Asked, Requests, Request
<1>6. \A r \in Requests : Answers(r)' = Answers(r)
  BY <1>2 DEF Answers, Message, Mapped, MappedAddr
<1>7. UNION {Answers(r) : r \in Asked} \subseteq (UNION {Answers(r) : r \in Asked})'
  BY <1>4, <1>6 DEF Asked
<1>8. inbox' \in Seq((UNION {Answers(r) : r \in Asked})')
  BY <1>2, <1>7, MoreSequences DEF NetInv
<1> QED BY <1>1, <1>4, <1>5, <1>8 DEF NetInv

(* So what is read is the answer to a request of this socket. *)
LEMMA NetStep ==
  ASSUME SocketsDiffer, TimeInv, NetInv, [GatherNext]_gathervars
  PROVE  NetInv'
<1> DEFINE Heard == UNION {Answers(r) : r \in Asked}
<1>0. server_index \in Nat /\ inbox \in Seq(Heard) /\ underway \subseteq Asked
  BY TurnFacts DEF TimeInv, NetInv
<1>1. CASE UNCHANGED gathervars
  BY <1>0, <1>1, AskedKept DEF gathervars, resultvars, waitvars, netvars, Asked
<1>2. CASE Tick \/ AskServer
  BY <1>0, <1>2, AskedKept DEF Tick, AskServer, resultvars, waitvars, netvars, Asked
<1>3. CASE SendRequest
  BY <1>3, AskedBySend
<1>4. CASE CannotAsk \/ GiveUp
  BY <1>0, <1>4, AskedByNext, AskedKept DEF CannotAsk, GiveUp, netvars, NextServer, resultvars
<1>5. CASE Arrives
  <2>1. PICK r \in underway : \E p \in Answers(r) :
            underway' = underway \ {r} /\ inbox' = Append(inbox, p)
    BY <1>5 DEF Arrives
  <2>2. PICK p \in Answers(r) : inbox' = Append(inbox, p)
    BY <2>1
  <2>3. p \in Heard
    BY <1>0, <2>2
  <2> HIDE DEF Heard
  <2>4. inbox' \in Seq(Heard)
    BY <1>0, <2>2, <2>3
  <2>5. Asked \subseteq Asked' /\ UNCHANGED <<sockets, nat>>
    BY <1>5 DEF Arrives, Asked, waitvars, resultvars
  <2> QED BY <2>1, <2>4, <2>5, AskedKept DEF Heard
<1>6. ASSUME inbox # <<>>, inbox' = Tail(inbox) PROVE inbox' \in Seq(Heard)
  <2> HIDE DEF Heard
  <2> QED BY <1>0, <1>6
<1>7. CASE SkipDatagram
  BY <1>6, <1>7, AskedKept DEF SkipDatagram, Asked, waitvars, resultvars
<1>8. CASE TakeAddress
  BY <1>0, <1>6, <1>8, AskedByNext, AskedKept DEF TakeAddress, NextServer, resultvars
<1>9. CASE NextSocket
  <2>1. underway' = {} /\ inbox' = <<>>
    BY <1>9 DEF NextSocket
  <2> QED BY <2>1 DEF NetInv
<1>10. CASE SocketsDone
  <2>1. gpc # "waiting"
    BY <1>10 DEF SocketsDone, ServersDone
  <2> QED BY <1>0, <1>10, <2>1, AskedKept DEF SocketsDone, Asked, waitvars, resultvars, netvars
<1> QED BY <1>1, <1>2, <1>3, <1>4, <1>5, <1>7, <1>8, <1>9, <1>10 DEF GatherNext

-----------------------------------------------------------------------------
(* Steps of gathering: addresses and routes *)

(* The datagram that is read is the answer to a request of this socket. *)
LEMMA HeadIsAnswer ==
  ASSUME NetInv, inbox # <<>>
  PROVE  \E r \in Asked : Head(inbox) \in Answers(r)
<1> DEFINE Heard == UNION {Answers(r) : r \in Asked}
<1>1. Head(inbox) \in Heard
  <2>1. inbox \in Seq(Heard)
    BY DEF NetInv
  <2> HIDE DEF Heard
  <2> QED BY <2>1
<1> QED BY <1>1

(* No interface is called none, so no mapped address is NoAddress. *)
LEMMA MappedIsAddress ==
  ASSUME SocketsDiffer, NEW i \in 1 .. Len(sockets), NEW host
  PROVE  MappedAddr(i, host) # NoAddress
<1>1. sockets[i] \in Everywhere
  BY DEF SocketsDiffer
<1>2. sockets[i].name # "none"
  <2>1. ASSUME sockets[i] \in ToSet(Interfaces)
        PROVE  sockets[i].name # "none"
    <3> DEFINE S == [name : STRING \ {"none"}, v4 : BOOLEAN, usable : BOOLEAN]
    <3>1. sockets[i] \in S
      <4>1. Interfaces \in Seq(S)
        BY InterfacesAssumption
      <4> HIDE DEF S
      <4> QED BY <2>1, <4>1 DEF ToSet
    <3> QED BY <3>1
  <2>2. Localhost.name # "none"
    BY DEF Localhost
  <2> QED BY <1>1, <2>1, <2>2 DEF Everywhere
<1>3. MappedAddr(i, host).name # NoAddress.name
  BY <1>2 DEF MappedAddr, NoAddress
<1> QED BY <1>3

(* An address that is read in time is the one that the server waited for   *)
(* was asked for, and all that the answer tells.                           *)
LEMMA AddressFacts ==
  ASSUME SocketsDiffer, NetInv, inbox # <<>>, AddressFrom(Head(inbox)) # NoAddress
  PROVE  \E r \in Asked :
            /\ AddressFrom(Head(inbox)) = MappedAddr(socket_index, r.host)
            /\ Tells(Head(inbox)) = {AddressFrom(Head(inbox))}
            /\ Head(inbox).transaction[2] = server_index
            /\ r.host \in Hosts
<1> DEFINE p == Head(inbox)
<1>1. PICK r \in Asked : p \in Answers(r)
  BY HeadIsAnswer
<1>2. r \in Requests /\ r.socket = socket_index /\ r.host \in Hosts
  BY DEF Asked, Requests
<1> HIDE DEF p
<1>3. AddressFrom(p) = parse_stun_binding_response(p, <<socket_index, server_index>>)
  BY DEF AddressFrom, p
<1>4. p.transaction = <<socket_index, server_index>>
  BY <1>3 DEF parse_stun_binding_response, p
<1>5. Says(p, r)
  BY <1>1, <1>2, <1>3, <1>4, AnswerFacts DEF SaysNothing, p
<1>6. AddressFrom(p) = MappedAddr(socket_index, r.host) /\ Tells(p) = {AddressFrom(p)}
  BY <1>2, <1>3, <1>4, <1>5 DEF Says
<1> QED BY <1>2, <1>4, <1>6 DEF p

(* A skipped answer to the present request tells nothing. *)
LEMMA SkippedTellsNothing ==
  ASSUME SocketsDiffer, NetInv, inbox # <<>>, AddressFrom(Head(inbox)) = NoAddress,
         Head(inbox).transaction = <<socket_index, server_index>>
  PROVE  Tells(Head(inbox)) = {}
<1> DEFINE p == Head(inbox)
<1>1. PICK r \in Asked : p \in Answers(r)
  BY HeadIsAnswer
<1>2. r \in Requests /\ r.socket = socket_index
  BY DEF Asked
<1> HIDE DEF p
<1>3. p.source = r.host /\ p.transaction = <<r.socket, r.server>> /\ (Says(p, r) \/ SaysNothing(p))
  BY <1>1, <1>2, AnswerFacts
<1>4. r.server = server_index
  BY <1>3 DEF p
<1>5. r.host = server_addr
  BY <1>4 DEF Asked
<1>6. AddressFrom(p) = parse_stun_binding_response(p, p.transaction)
  BY <1>3, <1>5 DEF AddressFrom, p
<1>7. MappedAddr(r.socket, r.host) # NoAddress
  BY <1>2, MappedIsAddress DEF SocketsDiffer
<1> QED BY <1>3, <1>6, <1>7 DEF Says, SaysNothing, p

(* What is told is found, and the other way round. *)
LEMMA ToldStep ==
  ASSUME SocketsDiffer, NetInv, GatheredIsTold, [GatherNext]_gathervars
  PROVE  GatheredIsTold'
<1>1. CASE UNCHANGED <<found, told>>
  BY <1>1 DEF GatheredIsTold
<1>2. CASE SkipDatagram
  <2>1. CASE Head(inbox).transaction = <<socket_index, server_index>>
    <3>1. Tells(Head(inbox)) = {}
      BY <1>2, <2>1, SkippedTellsNothing DEF SkipDatagram
    <3>2. told' = told /\ found' = found
      BY <1>2, <2>1, <3>1 DEF SkipDatagram, Learns
    <3> QED BY <1>1, <3>2
  <2>2. CASE Head(inbox).transaction # <<socket_index, server_index>>
    BY <1>1, <1>2, <2>2 DEF SkipDatagram
  <2> QED BY <2>1, <2>2
<1>3. CASE TakeAddress
  <2> DEFINE addr == AddressFrom(Head(inbox))
             entry == [addr |-> addr, server |-> server_index]
  <2>1. Tells(Head(inbox)) = {addr} /\ Head(inbox).transaction[2] = server_index
    BY <1>3, AddressFacts DEF TakeAddress
  <2>2. told' = told \cup {entry}
    BY <1>3, <2>1 DEF TakeAddress, Learns
  <2>3. found' = IF \E f \in found : f.addr = addr THEN found ELSE found \cup {entry}
    BY <1>3 DEF TakeAddress
  <2>4. entry.addr = addr
    OBVIOUS
  <2> HIDE DEF addr, entry
  <2> QED BY <2>2, <2>3, <2>4 DEF GatheredIsTold
<1>4. CASE NextSocket
  BY <1>4 DEF NextSocket, GatheredIsTold
<1> QED BY <1>1, <1>2, <1>3, <1>4 DEF GatherNext, gathervars, Tick, AskServer, SendRequest,
        CannotAsk, Arrives, GiveUp, SocketsDone

(* The address of a socket has the socket's name. *)
LEMMA AddressName ==
  ASSUME NEW addr, NEW i, OfSocket(addr, i)
  PROVE  addr.name = sockets[i].name
BY DEF OfSocket, LocalAddr, MappedAddr

(* New routes to a socket leave those of the others alone: the addresses   *)
(* of two sockets have different names.                                    *)
LEMMA RoutesKept ==
  ASSUME SocketsDiffer, NEW i \in 1 .. Len(sockets), NEW c, NEW addrs, NEW table,
         c.socket \in 1 .. Len(sockets), OfSocket(c.addr, c.socket),
         \A a \in addrs : OfSocket(a, i),
         c.addr \in DOMAIN table /\ table[c.addr] = c.socket
  PROVE  /\ c.addr \in DOMAIN WithRoutes(table, addrs, i)
         /\ WithRoutes(table, addrs, i)[c.addr] = c.socket
<1>1. ASSUME c.addr \in addrs PROVE i = c.socket
  BY <1>1, AddressName DEF SocketsDiffer
<1> QED BY <1>1 DEF WithRoutes

(* They lead to it. *)
LEMMA RoutesAdded ==
  ASSUME NEW i, NEW a, NEW addrs, NEW table, a \in addrs
  PROVE  /\ a \in DOMAIN WithRoutes(table, addrs, i)
         /\ WithRoutes(table, addrs, i)[a] = i
BY DEF WithRoutes

(* The candidates of a socket that is done are routed, and those before.   *)
LEMMA RoutedFacts ==
  ASSUME SocketsDiffer, RouteInv,
         NEW c \in candidates \cup ReflexiveCandidates(socket_index)
  PROVE  /\ c.socket \in 1 .. socket_index /\ OfSocket(c.addr, c.socket)
         /\ c.addr \in DOMAIN Routed(socket_index)
         /\ Routed(socket_index)[c.addr] = c.socket
<1> DEFINE addrs == {f.addr : f \in found}
<1>1. \A a \in addrs : OfSocket(a, socket_index)
  BY DEF RouteInv
<1>2. socket_index \in 1 .. Len(sockets) /\ Len(sockets) \in Nat
  BY DEF SocketsDiffer
<1>3. Routed(socket_index) = WithRoutes(routes, addrs, socket_index)
  BY DEF Routed
<1> HIDE DEF addrs
<1>4. CASE c \in candidates
  <2>1. Reachable(c)
    BY <1>4 DEF RouteInv
  <2>2. c.socket \in 1 .. Len(sockets)
    BY <1>2, <2>1 DEF Reachable
  <2> QED BY <1>1, <1>2, <1>3, <2>1, <2>2, RoutesKept DEF Reachable
<1>5. CASE c \in ReflexiveCandidates(socket_index)
  <2>1. c.socket = socket_index /\ c.addr \in addrs
    BY <1>5 DEF ReflexiveCandidates, addrs
  <2> QED BY <1>1, <1>2, <1>3, <2>1, RoutesAdded
<1> QED BY <1>4, <1>5

(* Before any server is asked the only candidate is the socket's own. *)
LEMMA RouteInitially == GatherInit => RouteInv
<1> SUFFICES ASSUME GatherInit PROVE RouteInv
  OBVIOUS
<1>1. /\ socket_index = 1 /\ found = {} /\ candidates = {HostCandidate(1)}
      /\ routes = [a \in {LocalAddr(1)} |-> 1]
  BY DEF GatherInit
<1>2. HostCandidate(1).socket = 1 /\ HostCandidate(1).addr = LocalAddr(1)
  BY DEF HostCandidate
<1> QED BY <1>1, <1>2 DEF RouteInv, Reachable, OfSocket

(* Every candidate keeps its route. *)
LEMMA RouteStep ==
  ASSUME SocketsDiffer, NetInv, RouteInv, [GatherNext]_gathervars
  PROVE  RouteInv'
<1>0. sockets' = sockets /\ nat' = nat
  BY DEF GatherNext, gathervars, resultvars, Tick, AskServer, SendRequest, CannotAsk, Arrives,
     SkipDatagram, TakeAddress, GiveUp, NextSocket, SocketsDone, NextServer
<1>1. CASE UNCHANGED <<found, routes, candidates, socket_index>>
  BY <1>0, <1>1 DEF RouteInv, Reachable, OfSocket, LocalAddr, MappedAddr
<1>2. CASE TakeAddress
  <2>1. /\ UNCHANGED <<routes, candidates, socket_index>>
        /\ found' \subseteq found \cup {[addr |-> AddressFrom(Head(inbox)), server |-> server_index]}
    BY <1>2 DEF TakeAddress, NextServer, resultvars
  <2>2. OfSocket(AddressFrom(Head(inbox)), socket_index)
    BY <1>2, AddressFacts DEF TakeAddress, OfSocket
  <2>3. \A f \in found' : OfSocket(f.addr, socket_index)
    BY <2>1, <2>2 DEF RouteInv
  <2> QED BY <1>0, <2>1, <2>3 DEF RouteInv, Reachable, OfSocket, LocalAddr, MappedAddr
<1>3. CASE NextSocket
  <2> DEFINE next == socket_index + 1
  <2>1. /\ found' = {} /\ socket_index' = next
        /\ candidates' = candidates \cup ReflexiveCandidates(socket_index) \cup {HostCandidate(next)}
        /\ routes' = WithRoutes(Routed(socket_index), {LocalAddr(next)}, next)
    BY <1>3 DEF NextSocket
  <2>2. next \in 1 .. Len(sockets) /\ socket_index \in 1 .. next /\ next \in 1 .. next
    BY <1>3 DEF NextSocket, SocketsDiffer
  <2>3. ASSUME NEW c \in candidates'
        PROVE  /\ c.socket \in 1 .. next /\ OfSocket(c.addr, c.socket)
               /\ c.addr \in DOMAIN routes' /\ routes'[c.addr] = c.socket
    <3> HIDE DEF next
    <3>1. CASE c \in candidates \cup ReflexiveCandidates(socket_index)
      <4>1. /\ c.socket \in 1 .. socket_index /\ OfSocket(c.addr, c.socket)
            /\ c.addr \in DOMAIN Routed(socket_index)
            /\ Routed(socket_index)[c.addr] = c.socket
        BY <3>1, RoutedFacts
      <4>2. c.socket \in 1 .. next /\ c.socket \in 1 .. Len(sockets)
        BY <2>2, <4>1 DEF SocketsDiffer
      <4>3. \A a \in {LocalAddr(next)} : OfSocket(a, next)
        BY DEF OfSocket
      <4> QED BY <2>1, <2>2, <4>1, <4>2, <4>3, RoutesKept
    <3>2. CASE c = HostCandidate(next)
      <4>1. c.socket = next /\ c.addr = LocalAddr(next)
        BY <3>2 DEF HostCandidate
      <4>2. c.addr \in {LocalAddr(next)}
        BY <4>1
      <4> QED BY <2>1, <2>2, <4>1, <4>2, RoutesAdded DEF OfSocket
    <3> QED BY <2>1, <3>1, <3>2
  <2> QED BY <1>0, <2>1, <2>3 DEF RouteInv, Reachable, OfSocket, LocalAddr, MappedAddr
<1>4. CASE SocketsDone
  <2>1. /\ UNCHANGED <<found, socket_index>>
        /\ candidates' = candidates \cup ReflexiveCandidates(socket_index)
        /\ routes' = Routed(socket_index)
    BY <1>4 DEF SocketsDone
  <2>2. ASSUME NEW c \in candidates'
        PROVE  /\ c.socket \in 1 .. socket_index /\ OfSocket(c.addr, c.socket)
               /\ c.addr \in DOMAIN routes' /\ routes'[c.addr] = c.socket
    BY <2>1, RoutedFacts
  <2> QED BY <1>0, <2>1, <2>2 DEF RouteInv, Reachable, OfSocket, LocalAddr, MappedAddr
<1> QED BY <1>1, <1>2, <1>3, <1>4 DEF GatherNext, gathervars, resultvars, Tick, AskServer,
        SendRequest, CannotAsk, Arrives, SkipDatagram, GiveUp, NextServer

-----------------------------------------------------------------------------
(* The theorems about gathering *)

(* The parts together are inductive. *)
THEOREM GatherInvariant == GatherSpec => []GatherIInv
<1>1. GatherInit => GatherIInv
  <2>1. GatherInit => NetInv /\ GatheredIsTold
    BY DEF GatherInit, NetInv, GatheredIsTold
  <2> QED BY <2>1, SocketsInitially, TimeInitially, RouteInitially DEF GatherIInv
<1>2. GatherIInv /\ [GatherNext]_gathervars => GatherIInv'
  BY SocketsStep, TimeStep, NetStep, RouteStep, ToldStep DEF GatherIInv
<1> QED BY <1>1, <1>2, PTL DEF GatherSpec

(* RoutesReach: whatever interfaces are bound, whichever servers answer and *)
(* whether or not the NAT gives a socket one address for all of them.      *)
THEOREM RoutesAlwaysReach == GatherSpec => []RoutesReach
<1>1. GatherIInv => RoutesReach
  <2> SUFFICES ASSUME GatherIInv, NEW c \in candidates
               PROVE  /\ SocketFor(c.addr, sockets[c.socket].v4) = c.socket
                      /\ \/ c.addr = LocalAddr(c.socket)
                         \/ \E s \in ToSet(STUN_SERVERS) : \E host \in s.hosts :
                                c.addr = MappedAddr(c.socket, host)
    BY DEF RoutesReach
  <2>1. Reachable(c)
    BY DEF GatherIInv, RouteInv
  <2> QED BY <2>1 DEF Reachable, OfSocket, SocketFor, Hosts
<1> QED BY <1>1, GatherInvariant, PTL

(* GatheredIsTold: however late, mixed or incomplete the answers are. *)
THEOREM GatheredAlwaysTold == GatherSpec => []GatheredIsTold
<1>1. GatherIInv => GatheredIsTold
  BY DEF GatherIInv
<1> QED BY <1>1, GatherInvariant, PTL

(* GatherInTime: for every number of servers and every caps that fit the   *)
(* timeout.                                                                *)
THEOREM GatherAlwaysInTime == GatherSpec => []GatherInTime
<1>1. GatherIInv => GatherInTime
  BY TimesAssumption DEF GatherIInv, TimeInv, GatherInTime
<1> QED BY <1>1, GatherInvariant, PTL
=============================================================================
