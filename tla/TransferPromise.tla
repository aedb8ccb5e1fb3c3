--------------------------- MODULE TransferPromise ---------------------------
(***************************************************************************)
(* What one transfer promises to its two users, abstracted from chunks,    *)
(* channel and part file: the destination changes at most once and then    *)
(* holds the whole source; neither side reports success before it does.    *)
(* The promise is one-sided: after the file is in place either side may    *)
(* still report an error (a lost ACK).                                     *)
(***************************************************************************)
VARIABLES
    file,       \* "previous" content of the destination, or the "source"
    sender,     \* what the sending user is told
    receiver    \* what the receiving user is told

pvars == <<file, sender, receiver>>

Init == file = "previous" /\ sender = "busy" /\ receiver = "busy"

PutInPlace ==
    /\ file = "previous" /\ receiver = "busy"
    /\ file' = "source"
    /\ UNCHANGED <<sender, receiver>>

ReceiverReports(outcome) ==
    /\ receiver = "busy"
    /\ outcome = "success" => file = "source"
    /\ receiver' = outcome
    /\ UNCHANGED <<file, sender>>

SenderReports(outcome) ==
    /\ sender = "busy"
    /\ outcome = "success" => file = "source"
    /\ sender' = outcome
    /\ UNCHANGED <<file, receiver>>

Next ==
    \/ PutInPlace
    \/ \E outcome \in {"success", "error"} :
           ReceiverReports(outcome) \/ SenderReports(outcome)

Spec == Init /\ [][Next]_pvars
=============================================================================
