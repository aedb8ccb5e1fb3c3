----------------------------- MODULE DataChannel -----------------------------
(***************************************************************************)
(* A transfer task and the run_peer worker of its peer connection: the     *)
(* set-up commands and their answers, the way the one data channel of a    *)
(* transfer gets to the task, RtcDataChannel::send with its backpressure   *)
(* gate, the worker's event loop, the way of incoming messages into the    *)
(* channel's queue, the UDP readers, and the end of all of these.          *)
(*                                                                         *)
(* The rtc library is external: it counts the messages in its send buffer, *)
(* reports the buffer crossing its two marks, the opening and the end of   *)
(* the channel, and hands out messages in order.  The task and the worker  *)
(* run on different threads and interleave between any two atomic steps.   *)
(***************************************************************************)
EXTENDS Integers, Sequences

CONSTANTS
    Low, High,     \* BUFFERED_AMOUNT_LOW and _HIGH, in messages
    Outgoing,      \* messages the task wants to send
    Incoming,      \* messages the peer sends
    Setups,        \* descriptions and candidates the task has for the library
    Sockets        \* UDP sockets, each with a reader

ASSUME ChannelAssumption ==
    /\ Low \in Nat /\ High \in Nat /\ Low < High
    /\ Outgoing \in Nat /\ Incoming \in Nat
    /\ Setups \in Nat \ {0} /\ Sockets \in Nat \ {0}

VARIABLES
    creates,       \* the task creates the channel; its peer receives it
    setups,        \* set-up commands the task has still to give
    tpc,           \* where the task is
    woken,         \* notify_waiters was called since `notified` was created
    todo,          \* messages the task has still to send
    command,       \* the command under way to the worker
    response,      \* what the worker answered
    wpc,           \* where the worker is in its loop
    send_allowed, closed,
    readers,       \* UDP readers that have not stopped
    registered,    \* the channel is in the worker's map
    opened,        \* opened_tx
    handed,        \* channels in data_channel_tx
    queue,         \* messages put into message_tx
    announced,     \* the library has reported the channel open
    buffered,      \* messages in the library's send buffer
    events,        \* events the library has for poll_event
    reads,         \* messages the library has for poll_read
    coming         \* messages of the peer still to arrive

setupvars == <<creates, setups>>
taskvars == <<setupvars, tpc, woken, todo>>
wirevars == <<command, response>>
gatevars == <<send_allowed, closed>>
chanvars == <<registered, opened, handed, queue>>
libvars == <<announced, buffered, events, reads, coming>>
vars == <<taskvars, wirevars, wpc, gatevars, readers, chanvars, libvars>>

Setting == {"setting", "asking"}
Sending == {"again", "watching", "checking", "gated", "queueing", "responding"}
TaskPC == Setting \cup Sending \cup {"idle", "over", "closing", "gone"}
WorkerPC == {"polling", "notifying", "handing", "selecting", "ending",
             "releasing", "ended"}
SetupCommands == {"create", "describe"}

Init ==
    /\ creates \in BOOLEAN /\ setups = Setups
    /\ tpc = "setting" /\ woken = FALSE /\ todo = Outgoing
    /\ command = "none" /\ response = "none"
    /\ wpc = "selecting"
    /\ send_allowed = TRUE /\ closed = FALSE
    /\ readers = Sockets
    /\ registered = FALSE /\ opened = FALSE /\ handed = 0 /\ queue = <<>>
    /\ announced = FALSE /\ buffered = 0
    /\ events = <<>> /\ reads = <<>> /\ coming = Incoming

Task(from, to) == tpc = from /\ tpc' = to
WorkerUnchanged == UNCHANGED <<wpc, gatevars, readers, registered, opened, queue, libvars>>
OnlyTaskMoves ==
    UNCHANGED <<setupvars, woken, todo, wirevars, handed>> /\ WorkerUnchanged

-----------------------------------------------------------------------------
(* Setting the connection up: WebRtcPeer's commands *)

(* The side that creates the channel does so before anything else. *)
Ask ==
    /\ wpc # "ended" /\ command = "none" /\ Task("setting", "asking")
    /\ \/ creates /\ ~registered /\ command' = "create" /\ UNCHANGED setups
       \/ /\ creates => registered
          /\ setups > 0 /\ setups' = setups - 1
          /\ command' = "describe"
    /\ response' = "none"
    /\ UNCHANGED <<creates, woken, todo, handed>> /\ WorkerUnchanged

(* Errors end the set-up, save for a candidate the library refuses. *)
Answered ==
    /\ \/ response \in {"ok", "err"} /\ Task("asking", "setting")
       \/ response = "err" /\ Task("asking", "gone")
    /\ OnlyTaskMoves

(* The channel created is open, or one comes out of data_channel_rx; that  *)
(* may happen while there are still candidates to add.                     *)
TakeChannel ==
    /\ Task("setting", "idle")
    /\ \/ creates /\ opened /\ UNCHANGED handed
       \/ ~creates /\ handed > 0 /\ handed' = handed - 1
    /\ UNCHANGED <<setupvars, woken, todo, wirevars>> /\ WorkerUnchanged

(* A window ends, another step of the set-up fails, or the worker has gone *)
(* and with it command_rx, opened_tx and data_channel_tx.  The peer is     *)
(* dropped without a close, and the worker stays.                          *)
SetupFails == Task("setting", "gone") /\ OnlyTaskMoves

-----------------------------------------------------------------------------
(* RtcDataChannel::send; the handle exists once the task has the channel. *)

(* `notified` is created before the flags are read. *)
Watch ==
    /\ todo > 0
    /\ Task("idle", "watching") \/ Task("again", "watching")
    /\ woken' = FALSE
    /\ UNCHANGED <<setupvars, todo, wirevars, handed>> /\ WorkerUnchanged

CheckClosed ==
    /\ \/ ~closed /\ Task("watching", "checking")
       \/ closed /\ Task("watching", "over")
    /\ OnlyTaskMoves

CheckAllowed_LateWatch ==
    /\ \/ send_allowed /\ Task("checking", "queueing") /\ UNCHANGED woken
       \/ ~send_allowed /\ Task("checking", "gated") /\ woken' = FALSE
    /\ UNCHANGED <<setupvars, todo, wirevars, handed>> /\ WorkerUnchanged
CheckAllowed ==
    /\ \/ send_allowed /\ Task("checking", "queueing")
       \/ ~send_allowed /\ Task("checking", "gated")
    /\ OnlyTaskMoves

(* notified.await returns and the loop starts over. *)
WakeUp ==
    /\ woken /\ Task("gated", "again")
    /\ OnlyTaskMoves

(* command_tx.send fails only when the worker has dropped its receiver. *)
QueueSend ==
    /\ \/ /\ wpc # "ended" /\ command = "none"
          /\ command' = "send" /\ response' = "none"
          /\ Task("queueing", "responding")
       \/ /\ wpc = "ended" /\ Task("queueing", "over")
          /\ UNCHANGED wirevars
    /\ UNCHANGED <<setupvars, woken, todo, handed>> /\ WorkerUnchanged

SendReturns ==
    /\ \/ response = "ok" /\ Task("responding", "idle") /\ todo' = todo - 1
       \/ response = "err" /\ Task("responding", "over") /\ UNCHANGED todo
    /\ UNCHANGED <<setupvars, woken, wirevars, handed>> /\ WorkerUnchanged

(* STALL_TIMEOUT drops the send wherever it waits; the command may remain. *)
SendTimesOut ==
    /\ tpc \in {"gated", "queueing", "responding"}
    /\ tpc' = "over"
    /\ OnlyTaskMoves

(* The transfer is over and closes the peer, without a timeout. *)
QueueClose ==
    /\ \/ tpc = "over"
       \/ tpc = "idle" /\ todo = 0
    /\ \/ wpc # "ended" /\ command = "none"
          /\ command' = "close" /\ response' = "none"
          /\ tpc' = "closing"
       \/ wpc = "ended" /\ tpc' = "gone" /\ UNCHANGED wirevars
    /\ UNCHANGED <<setupvars, woken, todo, handed>> /\ WorkerUnchanged

CloseReturns == response # "none" /\ Task("closing", "gone") /\ OnlyTaskMoves

TaskStep ==
    \/ Ask \/ Answered \/ TakeChannel
    \/ Watch \/ CheckClosed \/ CheckAllowed \/ WakeUp
    \/ QueueSend \/ SendReturns \/ QueueClose \/ CloseReturns

-----------------------------------------------------------------------------
(* run_peer *)

Worker(from, to) == wpc = from /\ wpc' = to

HandleHigh_Skipped == UNCHANGED send_allowed
HandleHigh == send_allowed' = FALSE

HandleLow_OnlyWakes == UNCHANGED send_allowed
HandleLow == send_allowed' = TRUE

HandleClosed == closed' = TRUE

(* The opening of a channel not in the map is that of one the peer made. *)
HandleOpen ==
    \/ registered /\ opened' = TRUE /\ wpc' = "polling" /\ UNCHANGED registered
    \/ ~registered /\ registered' = TRUE /\ opened' = TRUE /\ wpc' = "handing"

(* poll_event: events are handled one by one before anything is read.      *)
(* Storing a flag and waking the waiters are two steps.                    *)
PollEvent ==
    /\ wpc = "polling" /\ events # <<>>
    /\ events' = Tail(events)
    /\ \/ /\ Head(events) = "high" /\ HandleHigh /\ wpc' = "polling"
          /\ UNCHANGED <<closed, registered, opened>>
       \/ /\ Head(events) = "low" /\ HandleLow /\ wpc' = "notifying"
          /\ UNCHANGED <<closed, registered, opened>>
       \/ /\ Head(events) = "close" /\ HandleClosed /\ wpc' = "notifying"
          /\ UNCHANGED <<send_allowed, registered, opened>>
       \/ /\ Head(events) = "open" /\ HandleOpen
          /\ UNCHANGED gatevars
    /\ UNCHANGED <<taskvars, wirevars, readers, handed, queue, announced, buffered,
                   reads, coming>>

(* notify_waiters *)
Notify ==
    /\ Worker("notifying", "polling")
    /\ woken' = TRUE
    /\ UNCHANGED <<setupvars, tpc, todo, wirevars, gatevars, readers, chanvars, libvars>>

(* data_channel_tx holds one channel: the worker goes on before it is taken. *)
Room_ForTaker == tpc = "setting" /\ handed = 0
Room == handed < 1
HandOver ==
    /\ Room
    /\ Worker("handing", "polling")
    /\ handed' = handed + 1
    /\ UNCHANGED <<taskvars, wirevars, gatevars, readers, registered, opened, queue, libvars>>

EventsDone_Ignored == wpc = "polling"
EventsDone == wpc = "polling" /\ events = <<>>

(* poll_read: a message for a channel that is not registered is dropped. *)
ReadMessages ==
    /\ EventsDone
    /\ wpc' = "selecting"
    /\ queue' = IF registered THEN queue \o reads ELSE queue
    /\ reads' = <<>>
    /\ UNCHANGED <<taskvars, wirevars, gatevars, readers, registered, opened, handed,
                   announced, buffered, events, coming>>

(* PeerCommand::CreateDataChannel, and the five that only pass something   *)
(* on to the library, which may refuse it.                                 *)
HandleSetup ==
    /\ command \in SetupCommands /\ Worker("selecting", "polling")
    /\ command' = "none"
    /\ \/ response' = "ok" /\ registered' = (registered \/ command = "create")
       \/ response' = "err" /\ UNCHANGED registered
    /\ UNCHANGED <<taskvars, gatevars, readers, opened, handed, queue, libvars>>

(* PeerCommand::Send; the library may refuse it on a channel that ended. *)
HandleSend ==
    /\ command = "send" /\ Worker("selecting", "polling")
    /\ command' = "none"
    /\ \/ /\ ~closed
          /\ response' = "ok"
          /\ buffered' = buffered + 1
          /\ events' = IF buffered = High THEN Append(events, "high") ELSE events
       \/ /\ closed
          /\ response' = "err" /\ UNCHANGED <<buffered, events>>
    /\ UNCHANGED <<taskvars, gatevars, readers, chanvars, announced, reads, coming>>

(* PeerCommand::Close leaves the loop at once. *)
HandleClose ==
    /\ command = "close" /\ Worker("selecting", "ending")
    /\ command' = "none" /\ response' = "ok"
    /\ UNCHANGED <<taskvars, gatevars, readers, chanvars, libvars>>

(* A datagram, which some reader took, or a timer: the channel opens, with *)
(* or without first messages, once the peers have described themselves ... *)
Datagram == readers > 0 /\ ~closed /\ Worker("selecting", "polling")

Inbound ==
    /\ Datagram
    /\ setups < Setups /\ (creates => registered)
    /\ \E n \in 0 .. coming :
           /\ announced => n > 0
           /\ coming' = coming - n
           /\ reads' = [i \in 1 .. n |-> Incoming - coming + i]
    /\ announced' = TRUE
    /\ events' = IF announced THEN events ELSE Append(events, "open")
    /\ UNCHANGED <<taskvars, wirevars, gatevars, readers, chanvars, buffered>>

(* ... the peer acknowledges one of our messages ... *)
Drain ==
    /\ Datagram /\ buffered > 0
    /\ buffered' = buffered - 1
    /\ events' = IF buffered = Low + 1 THEN Append(events, "low") ELSE events
    /\ UNCHANGED <<taskvars, wirevars, gatevars, readers, chanvars, announced, reads, coming>>

(* ... or ends the channel. *)
PeerEnds ==
    /\ Datagram /\ announced
    /\ events' = Append(events, "close")
    /\ UNCHANGED <<taskvars, wirevars, gatevars, readers, chanvars, announced, buffered,
                   reads, coming>>

(* A reader stops at the first error of its socket and drops its sender; *)
(* the original was dropped when the readers were started.               *)
ReaderStops ==
    /\ readers > 0 /\ wpc # "ended"
    /\ readers' = readers - 1
    /\ UNCHANGED <<taskvars, wirevars, wpc, gatevars, chanvars, libvars>>

AllStopped == readers = 0
AllReadersStopped ==
    /\ AllStopped
    /\ Worker("selecting", "ending")
    /\ UNCHANGED <<taskvars, wirevars, gatevars, readers, chanvars, libvars>>

TimerFails ==
    /\ Worker("selecting", "ending")
    /\ UNCHANGED <<taskvars, wirevars, gatevars, readers, chanvars, libvars>>

MarkClosed ==
    /\ Worker("ending", "releasing")
    /\ closed' = (closed \/ registered)
    /\ UNCHANGED <<taskvars, wirevars, send_allowed, readers, chanvars, libvars>>

(* The waiters are woken, the readers aborted; a queued command is dropped *)
(* with its sender half, so receive_response returns an error.             *)
Ends ==
    /\ Worker("releasing", "ended")
    /\ command' = "none"
    /\ response' = IF command # "none" THEN "err" ELSE response
    /\ readers' = 0
    /\ UNCHANGED <<setupvars, tpc, todo, gatevars, chanvars, libvars>>
Release == Ends /\ woken' = TRUE

HandleCommand == HandleSetup \/ HandleSend \/ HandleClose

WorkerStep ==
    \/ PollEvent \/ Notify \/ HandOver \/ ReadMessages
    \/ HandleCommand \/ AllReadersStopped
    \/ MarkClosed \/ Release

Network == Inbound \/ Drain \/ PeerEnds \/ ReaderStops \/ TimerFails

Next ==
    \/ TaskStep \/ SetupFails \/ SendTimesOut
    \/ WorkerStep \/ Network

Spec == Init /\ [][Next]_vars

(* Both threads run, select! passes over no arm for ever, and the peer of  *)
(* a live association acknowledges.                                        *)
Fairness ==
    /\ WF_vars(TaskStep) /\ WF_vars(WorkerStep)
    /\ SF_vars(HandleCommand) /\ SF_vars(Drain)
FairSpec == Spec /\ Fairness

-----------------------------------------------------------------------------
(* Properties *)

TypeOK ==
    /\ creates \in BOOLEAN /\ setups \in 0 .. Setups
    /\ tpc \in TaskPC /\ woken \in BOOLEAN /\ todo \in 0 .. Outgoing
    /\ command \in SetupCommands \cup {"none", "send", "close"}
    /\ response \in {"none", "ok", "err"}
    /\ wpc \in WorkerPC /\ readers \in 0 .. Sockets
    /\ send_allowed \in BOOLEAN /\ closed \in BOOLEAN
    /\ registered \in BOOLEAN /\ opened \in BOOLEAN /\ announced \in BOOLEAN
    /\ handed \in Nat /\ buffered \in Nat /\ coming \in 0 .. Incoming
    /\ events \in Seq({"high", "low", "close", "open"})
    /\ reads \in Seq(1 .. Incoming) /\ queue \in Seq(1 .. Incoming)

(***************************************************************************)
(* A task that waits at the gate is either about to be woken or right to   *)
(* wait: no interleaving of the flag stores, notify_waiters and the checks *)
(* of send loses the wakeup.                                               *)
(***************************************************************************)
NoLostWakeup ==
    tpc = "gated" /\ ~woken =>
        \/ ~send_allowed /\ ~closed
        \/ wpc \in {"notifying", "releasing"}

(***************************************************************************)
(* The gate is shut only while a report of the buffer falling to the low   *)
(* mark is still due: the flag never goes stale against the buffer.        *)
(***************************************************************************)
GateReopens ==
    ~send_allowed =>
        \/ buffered > Low
        \/ \E i \in 1 .. Len(events) : events[i] = "low"

(***************************************************************************)
(* The flag lags the buffer by one message at most: the buffer exceeds the *)
(* high mark by the message that crossed it and one already on its way.    *)
(***************************************************************************)
BoundedOvershoot == buffered <= High + 2

(***************************************************************************)
(* No message is lost or reordered between the library and the receiver's  *)
(* queue, the first ones after an incoming channel opened included.        *)
(***************************************************************************)
InboundComplete ==
    /\ \A i \in 1 .. Len(queue) : queue[i] = i
    /\ wpc = "selecting" => Len(queue) = Incoming - coming

(***************************************************************************)
(* Every call to the worker returns, set-up, sends without a timeout (DONE,*)
(* ACK) and close alike: while the association lives, when it ends, and    *)
(* when the worker hands a channel over while the task waits for it.       *)
(***************************************************************************)
Waiting == tpc \in Sending \cup {"asking", "closing"}
EveryCallReturns == Waiting ~> ~Waiting
=============================================================================
