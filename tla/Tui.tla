---------------------------------- MODULE Tui ----------------------------------
(***************************************************************************)
(* A run of the program without arguments (tui/mod.rs): the wizard, and    *)
(* then the transfer: on the transfer screen, or, when codes have to be    *)
(* copied, on the plain terminal.  Of the manual exchange only its end is  *)
(* here.  A sender's task shows PINs, a receiver's asks about files.       *)
(***************************************************************************)
EXTENDS TransferScreen, Wizard

VARIABLES
    stage,      \* where run is
    role        \* the plan that is carried out

stagevars == <<stage, role>>
tuivars == <<vars, stagevars, screenvars>>

TuiInit ==
    /\ Init /\ ScreenInit
    /\ stage = "wizard" /\ role = "none"

(* The wizard's variables when it is over and its plan is taken. *)
WizardOver ==
    /\ page' = "over" /\ item' = 0 /\ plan' = NoPlan
    /\ cwd' = Root /\ entries' = <<>> /\ cursor' = 0 /\ show_hidden' = FALSE
    /\ selected' = {} /\ manual' = FALSE
    /\ naming' = FALSE /\ new_name' = <<>> /\ name_cursor' = 0
    /\ output' = Root /\ input' = <<>> /\ input_cursor' = 0
    /\ fingerprint' = NoFingerprint /\ error' = FALSE
    /\ disk' = Nodes /\ changes' = 0

InWizard ==
    /\ stage = "wizard" /\ Next
    /\ UNCHANGED <<screenvars, stagevars>>

(* run returns, and the guard restores the terminal. *)
Returns == stage' = "ended" /\ role' = "none"

WizardInterrupted ==
    /\ stage = "wizard" /\ page # "done"
    /\ Returns /\ WizardOver /\ UNCHANGED screenvars
WizardQuit ==
    /\ stage = "wizard" /\ plan.kind = "quit"
    /\ Returns /\ WizardOver /\ UNCHANGED screenvars

StartTransfer ==
    /\ stage = "wizard" /\ plan.kind \in {"SendNostr", "ReceiveNostr"}
    /\ stage' = "transfer" /\ role' = plan.kind
    /\ WizardOver /\ UNCHANGED screenvars
LeaveScreen ==      \* the guard is dropped before any code is shown or read
    /\ stage = "wizard" /\ plan.kind \in {"SendManual", "ReceiveManual"}
    /\ stage' = "manual" /\ role' = plan.kind
    /\ WizardOver /\ UNCHANGED screenvars

OnTransferScreen ==
    /\ stage = "transfer"
    /\ \/ BeginStep \/ CompleteStep \/ TaskEnds \/ WorkerReports \/ ScreenStep
       \/ role = "SendNostr" /\ ShowOrHidePin
       \/ role = "ReceiveNostr" /\ Ask
    /\ UNCHANGED <<stagevars, vars>>
ScreenReturns ==
    /\ stage = "transfer" /\ screen # "on"
    /\ Returns /\ UNCHANGED <<vars, screenvars>>
ManualReturns ==
    /\ stage = "manual"
    /\ Returns /\ UNCHANGED <<vars, screenvars>>

TuiNext ==
    \/ InWizard \/ WizardInterrupted \/ WizardQuit
    \/ StartTransfer \/ OnTransferScreen \/ ScreenReturns
    \/ LeaveScreen \/ ManualReturns

TuiSpec == TuiInit /\ [][TuiNext]_tuivars
=============================================================================
