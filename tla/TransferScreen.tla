---------------------------- MODULE TransferScreen ----------------------------
(***************************************************************************)
(* The live screen of a Nostr transfer (tui/transfer_screen.rs): the       *)
(* transfer task and the peer worker report through one unbounded queue    *)
(* (ui/mod.rs), the screen applies the reports, handles keys, and takes    *)
(* the task's result.                                                      *)
(*                                                                         *)
(* What the task does between reports is left to it: it may begin a step,  *)
(* complete the step it began, show and hide PINs, ask about an existing   *)
(* file and wait for the answer, and end.  A line of the log is who        *)
(* reported it, the step, and whether it is complete.  Rendering, progress *)
(* and the panel with the file's name change nothing else.                 *)
(***************************************************************************)
EXTENDS Naturals, Sequences, FiniteSets, SequencesExt

CONSTANTS
    Capacity,    \* STATUS_LOG_CAPACITY
    MaxSteps,    \* bound: steps the task reports
    MaxNotes     \* bound: reports of the worker

ASSUME ScreenAssumption ==
    Capacity \in Nat \ {0} /\ MaxSteps \in Nat /\ MaxNotes \in Nat

VARIABLES
    tpc, step, notes,          \* the task, its steps, the worker's reports
    queue,                     \* UiEvents
    status_log, pin, modal,    \* State
    outcome,                   \* of the task, once the screen has taken it
    refresh,                   \* the permit of PIN_REFRESH
    screen                     \* "on", or what run has returned

taskvars == <<tpc, step, notes>>
state == <<status_log, pin, modal, outcome>>
screenvars == <<taskvars, queue, state, refresh, screen>>

Done == {"ok", "err"}
Report(by, n, done) == [by |-> by, step |-> n, done |-> done]
Status(l) == [kind |-> "Status", line |-> l]
StatusDone(l) == [kind |-> "StatusDone", line |-> l]
Plain(kind) == [kind |-> kind]

ScreenInit ==
    /\ tpc = "working" /\ step = 0 /\ notes = 0
    /\ queue = <<>>
    /\ status_log = <<>> /\ pin = FALSE /\ modal = FALSE
    /\ outcome = "none"
    /\ refresh = FALSE
    /\ screen = "on"

-----------------------------------------------------------------------------
(* The task and the worker *)

Send(e) == queue' = Append(queue, e)
OnScreen == UNCHANGED <<state, refresh>> /\ screen = "on" /\ UNCHANGED screen

BeginStep ==
    /\ tpc \in {"working", "stepping"} /\ step < MaxSteps
    /\ tpc' = "stepping" /\ step' = step + 1
    /\ Send(Status(Report("task", step + 1, FALSE)))
    /\ UNCHANGED notes /\ OnScreen

(* status_timed: the step that was begun last is complete. *)
CompleteStep ==
    /\ tpc = "stepping" /\ tpc' = "working"
    /\ Send(StatusDone(Report("task", step, TRUE)))
    /\ UNCHANGED <<step, notes>> /\ OnScreen

ShowOrHidePin ==
    /\ tpc \in {"working", "stepping"}
    /\ Len(queue) < MaxSteps + MaxNotes
    /\ \E kind \in {"ShowPin", "HidePin"} : Send(Plain(kind))
    /\ UNCHANGED taskvars /\ OnScreen

(* prompt_file_exists: the question goes through the queue, too. *)
Ask ==
    /\ tpc = "working" /\ tpc' = "asking"
    /\ Send(Plain("FileExists"))
    /\ UNCHANGED <<step, notes>> /\ OnScreen

TaskEnds ==
    /\ tpc \in {"working", "stepping"}
    /\ tpc' \in Done
    /\ UNCHANGED <<step, notes, queue>> /\ OnScreen

(* run_peer reports changes of the connection, also after the task ended. *)
WorkerReports ==
    /\ notes < MaxNotes /\ notes' = notes + 1
    /\ Send(Status(Report("worker", notes + 1, FALSE)))
    /\ UNCHANGED <<tpc, step>> /\ OnScreen

-----------------------------------------------------------------------------
(* The screen *)

Pushed(log, l) ==
    Append(IF Len(log) = Capacity THEN Tail(log) ELSE log, l)
Replaced(log, l) ==
    IF log = <<>> THEN <<l>> ELSE ReplaceAt(log, Len(log), l)

(* State::apply, for the log and for the rest *)
LogAfter(log, e) ==
    CASE e.kind = "Status"     -> Pushed(log, e.line)
      [] e.kind = "StatusDone" -> Replaced(log, e.line)
      [] OTHER                 -> log
PinAfter(p, e) == e.kind = "ShowPin" \/ (p /\ e.kind # "HidePin")

ApplyEvent ==
    /\ screen = "on" /\ queue # <<>>
    /\ queue' = Tail(queue)
    /\ status_log' = LogAfter(status_log, Head(queue))
    /\ pin' = PinAfter(pin, Head(queue))
    /\ modal' = (modal \/ Head(queue).kind = "FileExists")
    /\ UNCHANGED <<taskvars, outcome, refresh, screen>>

Waiting == {i \in DOMAIN queue : queue[i].kind = "FileExists"}

(* The task is over: what is queued is applied, then the last line added. *)
Join_AtOnce ==
    /\ screen = "on" /\ outcome = "none" /\ tpc \in Done
    /\ outcome' = tpc
    /\ status_log' = Append(status_log, Report("screen", 0, TRUE))
    /\ UNCHANGED <<taskvars, queue, pin, modal, refresh, screen>>
Join ==
    /\ screen = "on" /\ outcome = "none" /\ tpc \in Done
    /\ outcome' = tpc
    /\ status_log' = Append(FoldLeft(LogAfter, status_log, queue),
                            Report("screen", 0, TRUE))
    /\ pin' = FoldLeft(PinAfter, pin, queue)
    /\ modal' = (modal \/ Waiting # {})
    /\ queue' = <<>>
    /\ UNCHANGED <<taskvars, refresh, screen>>

(* Keys.  In the modal only o, r, c and Esc do anything. *)
AnswerModal ==
    /\ screen = "on" /\ modal
    /\ modal' = FALSE /\ tpc' = "working"
    /\ UNCHANGED <<step, notes, queue, status_log, pin, outcome, refresh, screen>>

(* Any other key: nothing in the modal; the end when there is a result. *)
OtherKey_ClosesModal ==
    /\ screen = "on" /\ modal /\ modal' = FALSE
    /\ UNCHANGED <<taskvars, queue, status_log, pin, outcome, refresh, screen>>
OtherKey ==
    /\ screen = "on" /\ ~modal /\ outcome # "none"
    /\ screen' = outcome
    /\ UNCHANGED <<taskvars, queue, state, refresh>>

KeyR ==
    /\ screen = "on" /\ ~modal /\ outcome = "none" /\ pin
    /\ refresh' = TRUE
    /\ UNCHANGED <<taskvars, queue, state, screen>>

CtrlC ==
    /\ screen = "on" /\ screen' = "interrupted"
    /\ UNCHANGED <<taskvars, queue, state, refresh>>

-----------------------------------------------------------------------------
TaskStep == BeginStep \/ CompleteStep \/ ShowOrHidePin \/ Ask \/ TaskEnds
ScreenStep == ApplyEvent \/ Join \/ AnswerModal \/ OtherKey \/ KeyR \/ CtrlC

ScreenNext == TaskStep \/ WorkerReports \/ ScreenStep

ScreenSpec == ScreenInit /\ [][ScreenNext]_screenvars
-----------------------------------------------------------------------------
(* Properties *)

Count(condition) == IF condition THEN 1 ELSE 0

(***************************************************************************)
(* "Apply any status updates the task queued before finishing so the final *)
(* log reflects them": once the result is shown, nothing of the task is    *)
(* still to come, neither a line nor a question that would cover it.       *)
(***************************************************************************)
ResultComesLast ==
    outcome # "none" =>
        /\ ~modal
        /\ \A i \in DOMAIN queue :
               queue[i].kind = "Status" /\ queue[i].line.by = "worker"

(***************************************************************************)
(* A task that asks waits for one answer: its question is in the queue or  *)
(* on the screen, once, until it is answered.                              *)
(***************************************************************************)
QuestionNeverLost ==
    Cardinality(Waiting) + Count(modal) = Count(tpc = "asking")
=============================================================================
