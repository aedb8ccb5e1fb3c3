----------------------------- MODULE P2PSignaling -----------------------------
(***************************************************************************)
(* How a confirmed pair finds its P2P path: offer, answer and candidates   *)
(* over Nostr relays, from the confirm to an open data channel.            *)
(*                                                                         *)
(* A signal is an event signed afresh for every publication: its sender,   *)
(* the description or a candidate, and the number of the publication.      *)
(* The relays (external) accept the events of a bundle one by one, in any  *)
(* order, deliver them at any moment or never, and may lose some; a second *)
(* delivery of the same event changes nothing, seen catches it.  The path  *)
(* between the two peers (external) comes up once each has the other's     *)
(* description, or never.                                                  *)
(***************************************************************************)
EXTENDS Naturals

CONSTANTS
    Candidates,   \* the network candidates of a side
    Window,       \* CONNECTION_TIMEOUT
    Retry,        \* OFFER_RETRY_INTERVAL, ANSWER_RETRY_INTERVAL
    Gather,       \* ICE_GATHER_TIMEOUT
    MaxLoss,      \* bound: events the relays lose
    SlowBy        \* bound: what no window covers is over by then

ASSUME SignalingAssumption ==
    /\ "sdp" \notin Candidates
    /\ Window \in Nat /\ Retry \in Nat \ {0} /\ Gather \in Nat
    /\ MaxLoss \in Nat /\ SlowBy \in Nat

(* A window (30 s) has room for gathering on both sides and for the events *)
(* that are lost (5 s for each, that is for three of them).                *)
ASSUME RoomAssumption == 2 * Gather + MaxLoss * Retry < Window

Side == {"sender", "receiver"}
Peer(s) == IF s = "sender" THEN "receiver" ELSE "sender"

VARIABLES
    now,
    pc,
    due,         \* the end of the window a side is in
    retry,       \* when its bundle is published again
    gathered,    \* when gathering candidates is given up
    round,       \* publications so far
    pending,     \* the events of the bundle no relay has accepted yet
    relay, lost, \* events the relays hold, and how many they lost
    seen,        \* events a side has handled
    offer_sdp,   \* the receiver has the offer
    queued_candidates,
    described,   \* set_remote_description calls
    added,       \* add_remote_candidate calls
    channel,     \* the data channel is open
    good_day     \* a day on which all are prompt: see PromptTick

timers == <<due, retry, gathered>>
pubvars == <<round, pending, relay, lost>>
peervars == <<queued_candidates, described, added>>
steps == <<now, pc, timers, pubvars, seen, offer_sdp, peervars, channel>>
vars == <<steps, good_day>>

SenderPC == {"creating", "publishing", "fetching", "waiting", "republishing",
             "opening", "open", "failed"}
ReceiverPC == {"fetching", "awaiting", "answering", "publishing", "waiting",
               "republishing", "opening", "reopening", "open", "failed"}
Signals == [from : Side, kind : Candidates \cup {"sdp"}, round : Nat]
Bundle(s, n) ==
    {[from |-> s, kind |-> k, round |-> n] : k \in Candidates \cup {"sdp"}}

Init ==
    /\ now = 0
    /\ pc = [s \in Side |-> IF s = "sender" THEN "creating" ELSE "fetching"]
    /\ due = [s \in Side |-> Window]
    /\ retry = [s \in Side |-> 0]
    /\ gathered = [s \in Side |-> Gather]
    /\ round = [s \in Side |-> 0] /\ pending = [s \in Side |-> {}]
    /\ relay = {} /\ lost = 0
    /\ seen = [s \in Side |-> {}] /\ offer_sdp = FALSE
    /\ queued_candidates = [s \in Side |-> {}]
    /\ described = [s \in Side |-> 0] /\ added = [s \in Side |-> {}]
    /\ channel = FALSE /\ good_day \in BOOLEAN

Goes(s, from, to) == pc[s] = from /\ pc' = [pc EXCEPT ![s] = to]
Over(s) == now >= due[s]

(* What no window covers.  Time matters only while a window is running. *)
Ended == {"open", "failed"}
Uncovered(s) ==
    \/ pc[s] \in {"creating", "publishing", "fetching", "answering", "reopening"}
    \/ s = "receiver" /\ pc[s] = "republishing"
Tick ==
    /\ now < SlowBy \/ \E s \in Side : ~Over(s) /\ ~Uncovered(s) /\ pc[s] \notin Ended
    /\ \A s \in Side : Uncovered(s) => now < SlowBy
    /\ now' = now + 1
    /\ UNCHANGED <<pc, timers, pubvars, seen, offer_sdp, peervars, channel>>

-----------------------------------------------------------------------------
(* Publishing a bundle: all its events at once, each to all relays *)

Publish(s) ==
    /\ round' = [round EXCEPT ![s] = @ + 1]
    /\ pending' = [pending EXCEPT ![s] = Bundle(s, round[s] + 1)]
    /\ UNCHANGED <<relay, lost>>

RelayAccepts(s) ==
    /\ \E e \in pending[s] :
        /\ pending' = [pending EXCEPT ![s] = @ \ {e}]
        /\ relay' = relay \cup {e}
    /\ pc[s] \in {"publishing", "republishing", "reopening"}
    /\ UNCHANGED <<now, pc, timers, round, lost, seen, offer_sdp, peervars, channel>>

RelayLoses(e) ==
    /\ lost < MaxLoss /\ e \notin seen[Peer(e.from)]
    /\ relay' = relay \ {e} /\ lost' = lost + 1
    /\ UNCHANGED <<now, pc, timers, round, pending, seen, offer_sdp, peervars, channel>>

(* The interval makes up for ticks it missed. *)
NextTick_BacksOff(s) == retry' = [retry EXCEPT ![s] = @ + Retry * round[s]]
NextTick(s) == retry' = [retry EXCEPT ![s] = @ + Retry]

Republish(s) ==
    /\ \/ Goes(s, "waiting", "republishing")
       \/ s = "receiver" /\ Goes(s, "opening", "reopening")
    /\ now >= retry[s]
    /\ NextTick(s)
    /\ Publish(s)
    /\ UNCHANGED <<now, due, gathered, seen, offer_sdp, peervars, channel>>

Republished(s) ==
    /\ pending[s] = {}
    /\ Goes(s, "republishing", "waiting") \/ Goes(s, "reopening", "opening")
    /\ UNCHANGED <<now, timers, pubvars, seen, offer_sdp, peervars, channel>>

(* An error of a relay, of the peer connection, or of the notifications. *)
Fails(s) ==
    /\ pc[s] \notin Ended
    /\ pc' = [pc EXCEPT ![s] = "failed"]
    /\ UNCHANGED <<now, timers, pubvars, seen, offer_sdp, peervars, channel>>

-----------------------------------------------------------------------------
(* What a side does with a signal of the other *)

Incoming(s) == {e \in relay : e.from = Peer(s)} \ seen[s]
Sees(s, e) == e \in Incoming(s) /\ seen' = [seen EXCEPT ![s] = @ \cup {e}]

(* set_remote_description, then the candidates that came before it *)
Describe_KeepsQueue(s) ==
    /\ described' = [described EXCEPT ![s] = @ + 1]
    /\ UNCHANGED <<queued_candidates, added>>
Describe(s) ==
    /\ described' = [described EXCEPT ![s] = @ + 1]
    /\ added' = [added EXCEPT ![s] = @ \cup queued_candidates[s]]
    /\ queued_candidates' = [queued_candidates EXCEPT ![s] = {}]

Add(s, c) ==
    /\ added' = [added EXCEPT ![s] = @ \cup {c}]
    /\ UNCHANGED <<queued_candidates, described>>
Enqueue(s, c) ==
    /\ queued_candidates' = [queued_candidates EXCEPT ![s] = @ \cup {c}]
    /\ UNCHANGED <<described, added>>

answer_set == described["sender"] > 0

TakeAnswer ==
    /\ Describe("sender")
    /\ \/ /\ Goes("sender", "waiting", "opening")
          /\ due' = [due EXCEPT !["sender"] = now + Window]
       \/ pc["sender"] \in {"fetching", "opening"} /\ UNCHANGED <<pc, due>>

OnAnswer_Again == TakeAnswer
(* Only the first answer counts; it ends the wait for one. *)
OnAnswer ==
    \/ ~answer_set /\ TakeAnswer
    \/ answer_set /\ UNCHANGED <<pc, due, peervars>>

OnSenderCandidate_Adds(c) == Add("sender", c)
OnSenderCandidate(c) ==
    IF answer_set THEN Add("sender", c) ELSE Enqueue("sender", c)

(* handle_sender_signal *)
HandleSenderSignal(e) ==
    /\ pc["sender"] \in {"fetching", "waiting", "opening"}
    /\ Sees("sender", e)
    /\ \/ e.kind = "sdp" /\ OnAnswer
       \/ e.kind # "sdp" /\ OnSenderCandidate(e.kind) /\ UNCHANGED <<pc, due>>
    /\ UNCHANGED <<now, retry, gathered, pubvars, offer_sdp, channel>>

(* handle_pre_offer_signal: the first offer ends the search, whatever else *)
(* was fetched with it; peer and candidates are then made.                 *)
HandlePreOfferSignal(e) ==
    /\ pc["receiver"] \in {"fetching", "awaiting"} /\ ~offer_sdp
    /\ Sees("receiver", e)
    /\ \/ /\ e.kind = "sdp"
          /\ offer_sdp' = TRUE
          /\ \/ /\ Goes("receiver", "awaiting", "answering")
                /\ gathered' = [gathered EXCEPT !["receiver"] = now + Gather]
             \/ pc["receiver"] = "fetching" /\ UNCHANGED <<pc, gathered>>
          /\ UNCHANGED peervars
       \/ /\ e.kind # "sdp" /\ Enqueue("receiver", e.kind)
          /\ UNCHANGED <<pc, gathered, offer_sdp>>
    /\ UNCHANGED <<now, due, retry, pubvars, channel>>

(* handle_receiver_candidate: offers published again are ignored *)
HandleReceiverCandidate(e) ==
    /\ pc["receiver"] \in {"waiting", "opening"}
    /\ Sees("receiver", e)
    /\ \/ e.kind = "sdp" /\ UNCHANGED peervars
       \/ e.kind # "sdp" /\ Add("receiver", e.kind)
    /\ UNCHANGED <<now, pc, timers, pubvars, offer_sdp, channel>>

-----------------------------------------------------------------------------
(* The sender *)

(* The peer connection, its data channel and the offer are made. *)
PublishOffer ==
    /\ Goes("sender", "creating", "publishing")
    /\ Publish("sender")
    /\ UNCHANGED <<now, timers, seen, offer_sdp, peervars, channel>>

OfferPublished ==
    /\ pending["sender"] = {}
    /\ Goes("sender", "publishing", "fetching")
    /\ UNCHANGED <<now, timers, pubvars, seen, offer_sdp, peervars, channel>>

(* What the relays already hold is handled: the wait for an answer starts, *)
(* or, when it was among that, the wait for the data channel.              *)
SenderFetched ==
    /\ Goes("sender", "fetching", IF answer_set THEN "opening" ELSE "waiting")
    /\ due' = [due EXCEPT !["sender"] = now + Window]
    /\ retry' = [retry EXCEPT !["sender"] = now + Retry]
    /\ UNCHANGED <<now, gathered, pubvars, seen, offer_sdp, peervars, channel>>

(* A publication in progress is cut short. *)
SenderWindow_Answer == {"waiting", "republishing"}
SenderWindow == {"waiting", "republishing", "opening"}
SenderTimesOut ==
    /\ Over("sender")
    /\ \E at \in SenderWindow : Goes("sender", at, "failed")
    /\ UNCHANGED <<now, timers, pubvars, seen, offer_sdp, peervars, channel>>

SenderStep ==
    \/ PublishOffer \/ OfferPublished \/ SenderFetched \/ SenderTimesOut
    \/ \E e \in Incoming("sender") : HandleSenderSignal(e)

-----------------------------------------------------------------------------
(* The receiver *)

ReceiverFetched ==
    /\ \/ Over("receiver") /\ Goes("receiver", "fetching", "failed")
       \/ ~Over("receiver") /\ offer_sdp /\ Goes("receiver", "fetching", "answering")
       \/ ~Over("receiver") /\ ~offer_sdp /\ Goes("receiver", "fetching", "awaiting")
    /\ gathered' = [gathered EXCEPT !["receiver"] = now + Gather]
    /\ UNCHANGED <<now, due, retry, pubvars, seen, offer_sdp, peervars, channel>>

(* The peer connection takes the offer and makes the answer. *)
PublishAnswer ==
    /\ Goes("receiver", "answering", "publishing")
    /\ Describe("receiver")
    /\ Publish("receiver")
    /\ UNCHANGED <<now, timers, seen, offer_sdp, channel>>

AnswerPublished ==
    /\ pending["receiver"] = {}
    /\ \/ Over("receiver") /\ Goes("receiver", "publishing", "failed")
       \/ ~Over("receiver") /\ Goes("receiver", "publishing", "waiting")
    /\ retry' = [retry EXCEPT !["receiver"] = now + Retry]
    /\ UNCHANGED <<now, due, gathered, pubvars, seen, offer_sdp, peervars, channel>>

(* A publication in progress is not cut short: nothing else is polled. *)
ReceiverTimesOut ==
    /\ Over("receiver")
    /\ \E at \in {"awaiting", "waiting"} : Goes("receiver", at, "failed")
    /\ UNCHANGED <<now, timers, pubvars, seen, offer_sdp, peervars, channel>>

(* The worker hands the channel over when it is open. *)
ChannelArrives ==
    /\ channel
    /\ Goes("receiver", "waiting", "opening")
    /\ UNCHANGED <<now, timers, pubvars, seen, offer_sdp, peervars, channel>>

ReceiverStep ==
    \/ ReceiverFetched \/ PublishAnswer \/ AnswerPublished \/ ReceiverTimesOut
    \/ ChannelArrives
    \/ \E e \in Incoming("receiver") :
           HandlePreOfferSignal(e) \/ HandleReceiverCandidate(e)

-----------------------------------------------------------------------------
(* Both *)

(* The network connects two peers that know each other. *)
Acquainted == \A s \in Side : described[s] > 0 /\ pc[s] # "failed"
LinkUp ==
    /\ ~channel /\ Acquainted
    /\ channel' = TRUE
    /\ UNCHANGED <<now, pc, timers, pubvars, seen, offer_sdp, peervars>>

Open(s) ==
    /\ channel
    /\ Goes(s, "opening", "open")
    /\ UNCHANGED <<now, timers, pubvars, seen, offer_sdp, peervars, channel>>

Steps ==
    \/ SenderStep \/ ReceiverStep \/ LinkUp
    \/ \E e \in relay : RelayLoses(e)
    \/ \E s \in Side :
           RelayAccepts(s) \/ Republish(s) \/ Republished(s) \/ Open(s)

(* Good days: no errors, and within one tick everything is done that can   *)
(* be, save gathering candidates, which takes up to its timeout.  The      *)
(* relays still lose up to MaxLoss events.                                 *)
Idle(s) ==
    /\ pc[s] \in {"creating", "answering"} => now < gathered[s]
    /\ pc[s] \notin {"publishing", "fetching", "republishing", "reopening"}
    /\ pc[s] \in {"awaiting", "waiting", "opening"} => Incoming(s) = {}
    /\ pc[s] = "waiting" => now < retry[s]
    /\ pc[s] \in {"waiting", "opening"} => ~channel
PromptTick ==
    /\ \A s \in Side : Idle(s)
    /\ Acquainted => channel
    /\ Tick

Next ==
    /\ \/ good_day /\ (PromptTick \/ Steps)
       \/ ~good_day /\ (Tick \/ Steps \/ \E s \in Side : Fails(s))
    /\ UNCHANGED good_day

Spec == Init /\ [][Next]_vars

(* Clocks run; what is published, fetched or gathered ends; each program   *)
(* does what is due, and select passes over no arm for ever.  Nothing      *)
(* makes a relay deliver a signal or the network connect.                  *)
Fairness ==
    /\ WF_steps(Tick)
    /\ \A s \in Side : WF_steps(RelayAccepts(s)) /\ WF_steps(Republished(s))
    /\ WF_steps(PublishOffer) /\ WF_steps(OfferPublished) /\ WF_steps(SenderFetched)
    /\ SF_steps(SenderTimesOut)
    /\ WF_steps(ReceiverFetched) /\ WF_steps(PublishAnswer) /\ WF_steps(AnswerPublished)
    /\ SF_steps(ReceiverTimesOut) /\ SF_steps(Open("receiver"))
FairSpec == Spec /\ Fairness

-----------------------------------------------------------------------------
(* Properties *)

TypeOK ==
    /\ now \in Nat
    /\ pc["sender"] \in SenderPC /\ pc["receiver"] \in ReceiverPC
    /\ {due, retry, gathered, round} \subseteq [Side -> Nat]
    /\ relay \subseteq Signals /\ lost \in Nat
    /\ \A s \in Side : seen[s] \subseteq Signals /\ pending[s] \subseteq Bundle(s, round[s])
    /\ offer_sdp \in BOOLEAN /\ channel \in BOOLEAN
    /\ queued_candidates \in [Side -> SUBSET Candidates]
    /\ added \in [Side -> SUBSET Candidates]
    /\ described \in [Side -> Nat]

(***************************************************************************)
(* In whatever order the relays deliver, and however often offers and      *)
(* answers are published again, the remote description is set once, for    *)
(* setting it twice would end the transfer.  The peer connection is given  *)
(* candidates only once it has that description, and then all of them:     *)
(* those that came before wait for it, and none waits after it.  (The      *)
(* receiver stops handling what it fetched at the first offer; that is not *)
(* marked as seen.)                                                        *)
(***************************************************************************)
CandidatesInTurn ==
    \A s \in Side :
        /\ described[s] <= 1
        /\ added[s] # {} => described[s] > 0
        /\ \A e \in seen[s] :
               e.kind # "sdp" =>
                   e.kind \in IF described[s] > 0 THEN added[s] ELSE queued_candidates[s]

(***************************************************************************)
(* The two 30-second windows, which start at different moments and on the  *)
(* receiver's side cover both the offer and the channel, leave room for    *)
(* the publications that are lost: nobody gives up.                        *)
(***************************************************************************)
WindowsSuffice == good_day => \A s \in Side : pc[s] # "failed"

(***************************************************************************)
(* Neither side waits for the other for ever.                              *)
(***************************************************************************)
BothSettle == \A s \in Side : <>(pc[s] \in Ended)
=============================================================================
