---------------------------- MODULE MCP2PSignaling ----------------------------
(* Three questions in one run.  The signalling on any day, one candidate a *)
(* side, with windows as short as a retry.  The signalling on good days on *)
(* which relays lose three events, with the code's proportions of window   *)
(* (30 s), retry and gathering (5 s), where candidates play no role.  And  *)
(* the way of every event from one program to the other, in legs.          *)
EXTENDS P2PSignaling, NostrClient
VARIABLE part

MCCandidates == {"c1"}

InProportion == INSTANCE P2PSignaling WITH
    Candidates <- {}, Window <- 6, Retry <- 1, Gather <- 1, MaxLoss <- 3, SlowBy <- 12

One == {"r1"}
Both == {"r1", "r2"}
Leg(sender, receiver, from, to, n) ==
    [reach |-> [sender |-> sender, receiver |-> receiver],
     from |-> [sender |-> from[1], receiver |-> from[2]],
     to |-> [sender |-> to[1], receiver |-> to[2]],
     faults |-> n]
(* To the confirm; the offer; the answer; and offer and answer at once.    *)
MCLegs ==
    {Leg(s, r, <<1, 1>>, <<6, 6>>, 2) : s, r \in {One, Both}} \cup
    {Leg(Both, One, <<6, 6>>, <<10, 10>>, 1), Leg(One, Both, <<6, 6>>, <<10, 10>>, 1),
     Leg(Both, Both, <<9, 10>>, <<11, 11>>, 2),
     Leg(One, One, <<6, 6>>, <<11, 11>>, 0)}

(* The part that is not looked at is over. *)
SignallingOver ==
    /\ now = SlowBy /\ pc = [s \in Side |-> "open"]
    /\ due = [s \in Side |-> 0] /\ retry = due /\ gathered = due /\ round = due
    /\ pending = [s \in Side |-> {}] /\ relay = {} /\ lost = 0
    /\ seen = pending /\ offer_sdp = FALSE
    /\ queued_candidates = pending /\ described = due /\ added = pending
    /\ channel = TRUE /\ good_day = FALSE
MailOver ==
    /\ reach = [s \in Side |-> {}] /\ last = [s \in Side |-> Failed] /\ at = last
    /\ attempts = [e \in Events |-> 0] /\ asked = [e \in Events |-> {}]
    /\ accepted = [e \in Events |-> FALSE] /\ published = {}
    /\ held = [r \in Both |-> {}] /\ faults = 0
    /\ subscription = [s \in Side |-> ""] /\ delivered = reach
    /\ stream = [s \in Side |-> <<>>] /\ lagged = [s \in Side |-> FALSE]
    /\ looked_at = reach /\ handled = reach

MCInit ==
    \/ part = "any day" /\ Init /\ ~good_day /\ MailOver
    \/ part = "good day" /\ InProportion!Init /\ good_day /\ MailOver
    \/ part = "mail" /\ MailInit /\ SignallingOver
MCNext ==
    /\ UNCHANGED part
    /\ \/ part = "any day" /\ Next /\ UNCHANGED mailvars
       \/ part = "good day" /\ InProportion!Next /\ UNCHANGED mailvars
       \/ part = "mail" /\ MailNext /\ UNCHANGED vars
MCSpec == MCInit /\ [][MCNext]_<<part, vars, mailvars>> /\ Fairness
=============================================================================
