------------------------------ MODULE NostrClient ------------------------------
(***************************************************************************)
(* How the events of one transfer travel between the two programs: what is *)
(* signed, which subscription it matches, how it is published to several   *)
(* relays at once, and how a program waits for what the other publishes.   *)
(*                                                                         *)
(* Both programs are straight lines of such steps, see Script.  Rotation,  *)
(* the signals published again, and every timeout are in NostrHandshake    *)
(* and P2PSignaling: here a program waits as long as it takes.  The relays *)
(* and the library's connections to them are external: a relay keeps what  *)
(* it accepted and sends a subscriber what it holds and what it gets.      *)
(***************************************************************************)
EXTENDS Naturals, Sequences, Functions

CONSTANTS
    Relays,
    Legs,       \* bound: parts of the way, each with the relays a program is
                \* connected to, the steps they begin at, those they get to,
                \* and how often a relay does not take an event, or say so
    Retries,    \* PUBLISH_RETRIES
    Capacity    \* notifications kept for a reader that is busy

Sides == {"sender", "receiver"}
Other(s) == IF s = "sender" THEN "receiver" ELSE "sender"

VARIABLES
    reach,          \* the relays each program is connected to
    last,           \* the step each program gets to
    at,             \* the step of its script a program has reached
    attempts,       \* of publish, for each event; 0: not begun
    asked,          \* the relays that have not answered the current attempt
    accepted,       \* a relay has said OK to the current attempt
    published,      \* events whose publish returned Ok
    held,           \* events each relay has
    faults,         \* those left
    subscription,   \* the wait a program is subscribed for
    delivered,      \* what each relay sent under that subscription
    stream,         \* notifications not read yet
    lagged,         \* a notification was dropped from a full stream (history)
    looked_at,      \* the set seen of the current wait
    handled

publishing == <<attempts, asked, accepted, published, held, faults>>
readvars == <<subscription, delivered, stream, lagged, looked_at, handled>>
envvars == <<reach, last>>
mailvars == <<envvars, at, publishing, readvars>>

-----------------------------------------------------------------------------
(* Events and filters *)

(* create_rendezvous_event *)
Rendezvous == [type |-> "rendezvous", author |-> "sender", p |-> "", body |-> ""]
(* create_handshake_event: addressed to the other side *)
Handshake(type, author) ==
    [type |-> type, author |-> author, p |-> Other(author), body |-> ""]
(* create_signal_event: whoever signs it, the p tag names the sender; the  *)
(* library drops a tag that names the author unless it is told not to.     *)
SignalEvent(author, body) ==
    [type |-> "signal", author |-> author, p |-> "sender", body |-> body]

Claim == Handshake("claim", "receiver")
Confirm == Handshake("confirm", "sender")
Offer == SignalEvent("sender", "sdp")
Answer == SignalEvent("receiver", "sdp")
Parcel == [
    rendezvous |-> {Rendezvous}, claim |-> {Claim}, confirm |-> {Confirm},
    offer |-> {Offer, SignalEvent("sender", "candidate")},
    answer |-> {Answer, SignalEvent("receiver", "candidate")}]
Events == UNION {Parcel[b] : b \in DOMAIN Parcel}

addressed_filter(e, recipient) == e.type # "rendezvous" /\ e.p = recipient
addressed_filter_from_author(e, recipient, author) ==
    addressed_filter(e, recipient) /\ e.author = author
signal_filter_from_sender(e) == e.type # "rendezvous" /\ e.author = "sender"

(* What a subscription, or a fetch, asks the relays for. *)
Matches(wait, e) ==
    CASE wait = "claim"   -> addressed_filter(e, "sender")
      [] wait = "confirm" -> addressed_filter_from_author(e, "receiver", "sender")
      [] wait = "answer"  -> addressed_filter_from_author(e, "sender", "receiver")
      [] wait = "offer"   -> signal_filter_from_sender(e)

(* What the handlers act on, of all that comes: verify_claim, verify, and  *)
(* the two users of parse_signal_event.                                    *)
Accepts(wait, e) ==
    CASE wait = "claim"   -> e = Claim
      [] wait = "confirm" -> e = Confirm
      [] wait = "answer"  -> e.type = "signal" /\ e.author = "receiver"
      [] wait = "offer"   -> e.type = "signal" /\ e.author = "sender"

Awaited == [claim |-> Claim, confirm |-> Confirm, answer |-> Answer, offer |-> Offer]
Waits == DOMAIN Awaited

-----------------------------------------------------------------------------
(* The two programs *)

Step(does, what) == [does |-> does, what |-> what]

(* Subscribed before the first publication, so that a fast claim, or the   *)
(* confirm, can never slip past; and the stream is there before that.      *)
Mailbox_Late(wait) == <<Step("subscribe", wait), Step("notifications", wait)>>
Mailbox(wait) == <<Step("notifications", wait), Step("subscribe", wait)>>

Script == [
    sender |->
        Mailbox("claim")
        \o <<Step("publish", "rendezvous"), Step("listen", "claim"),
             Step("publish", "confirm")>>
        \o Mailbox("answer")
        \o <<Step("publish", "offer"), Step("fetch", "answer"),
             Step("listen", "answer"), Step("connect", "answer")>>,
    receiver |->
        <<Step("search", "rendezvous")>>
        \o Mailbox("confirm")
        \o <<Step("publish", "claim"), Step("listen", "confirm")>>
        \o Mailbox("offer")
        \o <<Step("fetch", "offer"), Step("listen", "offer"),
             Step("publish", "answer"), Step("connect", "offer")>>]

ASSUME MailAssumption ==
    /\ Relays # {} /\ Retries \in Nat \ {0} /\ Capacity \in Nat \ {0}
    /\ \A leg \in Legs :
           /\ leg.reach \in [Sides -> SUBSET Relays] /\ leg.faults \in Nat
           /\ DOMAIN leg.from = Sides /\ DOMAIN leg.to = Sides
           /\ \A s \in Sides : /\ leg.to[s] \in 1 .. Len(Script[s])
                              /\ leg.from[s] \in 1 .. leg.to[s]

Failed == 0
Doing(s) == IF at[s] = Failed THEN Step("nothing", "") ELSE Script[s][at[s]]
Advances(s) == at[s] < last[s] /\ at' = [at EXCEPT ![s] = @ + 1]

(* What has come to pass when a leg begins: all was published to every     *)
(* relay, delivered, and read.                                             *)
Done(s, start, does) ==
    {Script[s][i].what : i \in {i \in 1 .. start[s] - 1 : Script[s][i].does = does}}
Before(start) ==
    UNION {Parcel[b] : b \in Done("sender", start, "publish")
                             \cup Done("receiver", start, "publish")}
SubscribedFor(s, start) ==
    LET waits == Done(s, start, "subscribe")
                 \ (Done(s, start, "listen") \cap {"claim", "confirm"})
    IN  IF waits = {} THEN "" ELSE CHOOSE w \in waits : TRUE
Received(s, start) == {e \in Before(start) :
    SubscribedFor(s, start) # "" /\ Matches(SubscribedFor(s, start), e)}

MailInit ==
    /\ \E leg \in Legs : reach = leg.reach /\ at = leg.from /\ last = leg.to
                       /\ faults = leg.faults
    /\ attempts = [e \in Events |-> 0]
    /\ asked = [e \in Events |-> {}] /\ accepted = [e \in Events |-> FALSE]
    /\ published = Before(at) /\ held = [r \in Relays |-> Before(at)]
    /\ subscription = [s \in Sides |-> SubscribedFor(s, at)]
    /\ delivered = [s \in Sides |-> Relays \X Received(s, at)]
    /\ stream = [s \in Sides |-> <<>>] /\ lagged = [s \in Sides |-> FALSE]
    /\ looked_at = [s \in Sides |-> Received(s, at)]
    /\ handled = [s \in Sides |->
           {e \in looked_at[s] : Accepts(SubscribedFor(s, at), e)}]

-----------------------------------------------------------------------------
(* NostrClient::publish, one task for each event of a bundle *)

Attempt(e) ==
    /\ attempts' = [attempts EXCEPT ![e] = @ + 1]
    /\ asked' = [asked EXCEPT ![e] = reach[e.author]]
    /\ accepted' = [accepted EXCEPT ![e] = FALSE]

Begins(s, e) ==
    /\ Doing(s).does = "publish" /\ e \in Parcel[Doing(s).what]
    /\ at[s] < last[s] /\ attempts[e] = 0 /\ e \notin published
    /\ Attempt(e)
    /\ UNCHANGED <<envvars, at, published, held, faults, readvars>>

(* A relay takes the event and says so; takes it, but the answer is lost;  *)
(* or neither takes it nor says that in time.                              *)
RelayAnswers(e, r) ==
    /\ r \in asked[e]
    /\ asked' = [asked EXCEPT ![e] = @ \ {r}]
    /\ \/ /\ held' = [held EXCEPT ![r] = @ \cup {e}]
          /\ accepted' = [accepted EXCEPT ![e] = TRUE] /\ UNCHANGED faults
       \/ /\ faults > 0 /\ faults' = faults - 1
          /\ held' \in {held, [held EXCEPT ![r] = @ \cup {e}]}
          /\ UNCHANGED accepted
    /\ UNCHANGED <<envvars, at, attempts, published, readvars>>

Answered(e) == attempts[e] > 0 /\ asked[e] = {}

Accepted(e) ==
    /\ Answered(e) /\ accepted[e]
    /\ published' = published \cup {e}
    /\ attempts' = [attempts EXCEPT ![e] = 0]
    /\ accepted' = [accepted EXCEPT ![e] = FALSE]
    /\ UNCHANGED <<envvars, at, asked, held, faults, readvars>>

(* After a pause that doubles each time. *)
TryAgain(e) ==
    /\ Answered(e) /\ ~accepted[e] /\ attempts[e] < Retries
    /\ at[e.author] # Failed
    /\ Attempt(e)
    /\ UNCHANGED <<envvars, at, published, held, faults, readvars>>

PublishFails(e) ==
    /\ Answered(e) /\ ~accepted[e] /\ attempts[e] = Retries

(* The set of tasks is joined: all must have succeeded, and the first that *)
(* has not ends the program.                                               *)
Joined_Any(s) ==
    /\ Doing(s).does = "publish"
    /\ \E e \in Parcel[Doing(s).what] : e \in published
    /\ Advances(s)
    /\ UNCHANGED <<envvars, publishing, readvars>>
Joined(s) ==
    /\ Doing(s).does = "publish"
    /\ Parcel[Doing(s).what] \subseteq published
    /\ Advances(s)
    /\ UNCHANGED <<envvars, publishing, readvars>>

GivesUp(s) ==
    /\ Doing(s).does = "publish"
    /\ \E e \in Parcel[Doing(s).what] : PublishFails(e)
    /\ at' = [at EXCEPT ![s] = Failed]
    /\ UNCHANGED <<envvars, publishing, readvars>>

-----------------------------------------------------------------------------
(* Subscriptions and notifications *)

(* client.notifications() gives what is announced from now on; every wait  *)
(* begins with a stream and a set of its own.                              *)
Notifications(s) ==
    /\ Doing(s).does = "notifications"
    /\ Advances(s)
    /\ stream' = [stream EXCEPT ![s] = <<>>]
    /\ looked_at' = [looked_at EXCEPT ![s] = {}]
    /\ UNCHANGED <<envvars, publishing, subscription, delivered, lagged, handled>>

(* The relays' answers to an earlier subscription count no more. *)
Subscribe(s) ==
    /\ Doing(s).does = "subscribe"
    /\ Advances(s)
    /\ subscription' = [subscription EXCEPT ![s] = Doing(s).what]
    /\ delivered' = [delivered EXCEPT ![s] = {}]
    /\ UNCHANGED <<envvars, publishing, stream, lagged, looked_at, handled>>

Listening(s) ==
    \E i \in 1 .. Len(Script[s]) :
        i < at[s] /\ Script[s][i] = Step("notifications", subscription[s])

(* Of a full stream the oldest is dropped; the reader skips that silently. *)
Announce(s, e) ==
    LET queue == Append(stream[s], e)
        full == Len(stream[s]) = Capacity
    IN  IF Listening(s)
        THEN /\ stream' = [stream EXCEPT ![s] = IF full THEN Tail(queue) ELSE queue]
             /\ lagged' = [lagged EXCEPT ![s] = @ \/ full]
        ELSE UNCHANGED <<stream, lagged>>

(* Each relay sends the event once; what several relays send, or the       *)
(* library announces twice, comes again.                                   *)
Deliver(s, r, e) ==
    /\ at[s] # Failed /\ subscription[s] \in Waits /\ r \in reach[s]
    /\ e \in held[r] /\ Matches(subscription[s], e)
    /\ <<r, e>> \notin delivered[s]
    /\ delivered' = [delivered EXCEPT ![s] = @ \cup {<<r, e>>}]
    /\ Announce(s, e)
    /\ UNCHANGED <<envvars, at, publishing, subscription, looked_at, handled>>

(* looked_at and the handlers: an event is looked at once. *)
Handles(s, wait, events) ==
    /\ looked_at' = [looked_at EXCEPT ![s] = @ \cup events]
    /\ handled' = [handled EXCEPT ![s] =
           @ \cup {e \in events \ looked_at[s] : Accepts(wait, e)}]

(* A wait for the claim or the confirm unsubscribes when it has it; after  *)
(* the offer or the answer the subscription stays, for the candidates.     *)
AfterHandling(s, wait, events) ==
    IF Doing(s).does = "listen" /\ Awaited[wait] \in events
    THEN /\ Advances(s)
         /\ subscription' = IF wait \in {"claim", "confirm"}
                            THEN [subscription EXCEPT ![s] = ""] ELSE subscription
    ELSE UNCHANGED <<at, subscription>>

NextEvent(s) ==
    /\ Doing(s).does \in {"listen", "connect"} /\ stream[s] # <<>>
    /\ stream' = [stream EXCEPT ![s] = Tail(@)]
    /\ Handles(s, Doing(s).what, {Head(stream[s])})
    /\ AfterHandling(s, Doing(s).what, {Head(stream[s])} \ looked_at[s])
    /\ UNCHANGED <<envvars, publishing, delivered, lagged>>

-----------------------------------------------------------------------------
(* NostrClient::fetch: from the relays that answer in time *)

Fetched(s, wait, answering) ==
    {e \in UNION {held[r] : r \in reach[s] \cap answering} : Matches(wait, e)}

(* The receiver stops at the first offer; what it has not looked at then   *)
(* is left to the subscription.                                            *)
LooksAt(wait, events) ==
    IF wait = "offer" /\ Offer \in events
    THEN {part \in SUBSET events : Offer \in part} ELSE {events}

(* The step after "listen" is reached when the awaited event was among it. *)
Fetch(s) ==
    /\ Doing(s).does = "fetch"
    /\ \E answering \in SUBSET Relays :
        \E part \in LooksAt(Doing(s).what, Fetched(s, Doing(s).what, answering)) :
            /\ Handles(s, Doing(s).what, part)
            /\ at[s] + 1 < last[s]
            /\ at' = [at EXCEPT ![s] =
                   @ + IF Awaited[Doing(s).what] \in part THEN 2 ELSE 1]
    /\ UNCHANGED <<envvars, publishing, subscription, delivered, stream, lagged>>

(* The backstop of wait_for_confirm: events are looked at until one is it. *)
Poll(s, answering) ==
    /\ Doing(s) = Step("listen", "confirm")
    /\ LET events == Fetched(s, "confirm", answering) \ looked_at[s] IN
        /\ events # {}
        /\ Handles(s, "confirm", events)
        /\ AfterHandling(s, "confirm", events)
    /\ UNCHANGED <<envvars, publishing, delivered, stream, lagged>>

(* find_rendezvous_event; a user tries again until the sender is found. *)
Search(s) ==
    /\ Doing(s).does = "search"
    /\ \E r \in reach[s] : Rendezvous \in held[r]
    /\ Advances(s)
    /\ UNCHANGED <<envvars, publishing, readvars>>

-----------------------------------------------------------------------------
Relaying ==
    \E e \in Events : Accepted(e) \/ TryAgain(e) \/ \E r \in Relays : RelayAnswers(e, r)

Program(s) ==
    \/ \E e \in Events : Begins(s, e)
    \/ Joined(s) \/ GivesUp(s)
    \/ Notifications(s) \/ Subscribe(s) \/ NextEvent(s)
    \/ Fetch(s) \/ Search(s) \/ \E answering \in SUBSET Relays : Poll(s, answering)

MailNext ==
    \/ Relaying
    \/ \E s \in Sides :
        Program(s) \/ \E r \in Relays, e \in Events : Deliver(s, r, e)

MailSpec == MailInit /\ [][MailNext]_mailvars

-----------------------------------------------------------------------------
(* Properties *)

MailTypeOK ==
    /\ reach \in [Sides -> SUBSET Relays]
    /\ \A s \in Sides : at[s] \in 0 .. Len(Script[s])
    /\ attempts \in [Events -> 0 .. Retries] /\ asked \in [Events -> SUBSET Relays]
    /\ accepted \in [Events -> BOOLEAN] /\ published \subseteq Events
    /\ held \in [Relays -> SUBSET Events]
    /\ subscription \in [Sides -> Waits \cup {""}]
    /\ delivered \in [Sides -> SUBSET (Relays \X Events)]
    /\ stream \in [Sides -> Seq(Events)] /\ lagged \in [Sides -> BOOLEAN]
    /\ looked_at \in [Sides -> SUBSET Events] /\ handled \in [Sides -> SUBSET Events]

(***************************************************************************)
(* A program that goes on after publishing has got every event of the      *)
(* bundle to a relay, however many tasks, attempts and lost answers it     *)
(* took: it never waits for the answer to an offer half of which is lost.  *)
(***************************************************************************)
PublishedIsHeld ==
    \A s \in Sides : \A i \in 1 .. Len(Script[s]) :
        i < at[s] /\ Script[s][i].does = "publish" =>
            Parcel[Script[s][i].what] \subseteq UNION {held[r] : r \in Relays}

(***************************************************************************)
(* "Subscribes before publishing so the response cannot slip past, and     *)
(* polls as a backstop" (nostr_receiver.rs:442).  Whichever of             *)
(* subscription, publication, fetch and poll comes first, and however the  *)
(* relays' copies overlap: what a program waits for, and a relay it is     *)
(* connected to holds, has been handled or is on its way, still to be      *)
(* delivered under the right subscription or in the stream.  Only a stream *)
(* that overflows loses it, and then the next poll finds the confirm.      *)
(***************************************************************************)
Awaits(s, e) ==
    /\ Doing(s).does \in {"listen", "connect"} /\ Accepts(Doing(s).what, e)
    /\ e \notin handled[s]
OnItsWay(s, r, e) ==
    \/ /\ subscription[s] = Doing(s).what /\ Matches(Doing(s).what, e)
       /\ <<r, e>> \notin delivered[s]
    \/ e \in Range(stream[s])
Polled(s, e) == Doing(s).what = "confirm" /\ e \notin looked_at[s]
NothingSlipsPast ==
    \A s \in Sides, r \in Relays, e \in Events :
        r \in reach[s] /\ e \in held[r] /\ Awaits(s, e) =>
            OnItsWay(s, r, e) \/ (lagged[s] /\ (e = Confirm => Polled(s, e)))
=============================================================================
