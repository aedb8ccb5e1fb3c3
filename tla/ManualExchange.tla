---------------------------- MODULE ManualExchange ----------------------------
(***************************************************************************)
(* The exchange of two codes by hand: the sender shows an offer, the       *)
(* receiver answers it, a person carries both, and the sides connect.      *)
(*                                                                         *)
(* A code is its type, its created_at, the hour it is obscured with, and   *)
(* whether it belongs to this session ("this": the sender's offer and the  *)
(* answers to it).  People paste any code they have seen, codes of other   *)
(* sessions included; what is no code at all is an error like any other    *)
(* (Fails).  The two machines have clocks of their own.  Keys, network     *)
(* candidates and file metadata are data; the path between two peers that  *)
(* took each other's codes (external) comes up or not.                     *)
(***************************************************************************)
EXTENDS ManualCodes

CONSTANTS
    StartClocks,   \* [Side -> Nat]s: the clocks at the start
    StaleCodes,    \* codes of other sessions
    NoCode,
    Connect,       \* CONNECTION_TIMEOUT
    OpenTimeout,   \* OPEN_TIMEOUT
    Gather,        \* ICE_GATHER_TIMEOUT
    Carry,         \* how long prompt people take to carry an answer
    MaxTime        \* bound: ticks while no timeout is running

Side == {"sender", "receiver"}

Codes == [type : {"offer", "answer"}, created : Nat, bucket : Nat,
          of : {"this", "other"}]

ASSUME ExchangeAssumption ==
    /\ StartClocks \subseteq [Side -> Nat] /\ StaleCodes \subseteq Codes
    /\ \A c \in StaleCodes : c.of = "other"
    /\ {Connect, OpenTimeout, Gather, Carry, MaxTime} \subseteq Nat

(* A prompt person carries an answer within the receiver's two minutes,    *)
(* and an hour has room for that and for gathering (5 s).                  *)
ASSUME PromptAssumption ==
    /\ Carry < Connect /\ OpenTimeout > 0
    /\ Gather + Carry <= TransferExpiration

VARIABLES
    clock,       \* now_ms on either machine
    ticks,
    pc,
    since,       \* when a side came to where it is
    created_at,  \* the sender's, taken before the offer is prepared
    codes,       \* every code a person can paste
    applied,     \* the code a side has decoded and gone on with
    connected,   \* connection_state, of both sides
    channel,     \* the data channel
    good_day     \* a day on which people and programs are prompt: see below

steps == <<clock, ticks, pc, since, created_at, codes, applied, connected, channel>>
vars == <<steps, good_day>>
link == <<connected, channel>>

SenderPC == {"preparing", "prompting", "connecting", "open", "failed"}
ReceiverPC == {"prompting", "choosing", "answering", "waiting", "opening",
               "open", "cancelled", "failed"}
Ended == {"open", "cancelled", "failed"}

Init ==
    /\ clock \in StartClocks /\ ticks = 0
    /\ good_day \in BOOLEAN
    /\ good_day => clock["sender"] = clock["receiver"]
    /\ pc = [s \in Side |-> IF s = "sender" THEN "preparing" ELSE "prompting"]
    /\ since = clock
    /\ created_at = clock["sender"]
    /\ codes = StaleCodes
    /\ applied = [s \in Side |-> NoCode]
    /\ connected = "no" /\ channel = "none"

Goes(s, from, to) ==
    /\ pc[s] = from
    /\ pc' = [pc EXCEPT ![s] = to]
    /\ since' = [since EXCEPT ![s] = clock[s]]

(* The timeouts of this exchange; prompts have none. *)
Window(s) == CASE pc[s] = "connecting" -> Connect
               [] pc[s] = "waiting"    -> Connect
               [] pc[s] = "opening"    -> OpenTimeout
Timed(s) == pc[s] \in {"connecting", "waiting", "opening"}
Over(s) == Timed(s) /\ clock[s] >= since[s] + Window(s)

Tick ==
    /\ ticks < MaxTime \/ \E s \in Side : Timed(s) /\ ~Over(s)
    /\ clock' = [s \in Side |-> clock[s] + 1]
    /\ ticks' = ticks + 1
    /\ UNCHANGED <<pc, since, created_at, codes, applied, link>>

Fails(s) ==
    /\ pc[s] \notin Ended
    /\ Goes(s, pc[s], "failed")
    /\ UNCHANGED <<clock, ticks, created_at, codes, applied, link>>

TimesOut_Never(s) == FALSE /\ Fails(s)
TimesOut(s) == Over(s) /\ Fails(s)

-----------------------------------------------------------------------------
(* The sender *)

ShowOffer ==
    /\ Goes("sender", "preparing", "prompting")
    /\ codes' = codes \cup {[type |-> "offer", created |-> created_at,
                             bucket |-> Bucket(clock["sender"]), of |-> "this"]}
    /\ UNCHANGED <<clock, ticks, created_at, applied, link>>

(* It is the sender's own created_at that counts. *)
AnswerAccepted(c) ==
    /\ Decodes(c.bucket, clock["sender"])
    /\ c.type = "answer"
    /\ ~IsExpired(created_at, clock["sender"])

PasteAnswer(c) ==
    /\ \/ /\ AnswerAccepted(c)
          /\ Goes("sender", "prompting", "connecting")
          /\ applied' = [applied EXCEPT !["sender"] = c]
       \/ /\ ~AnswerAccepted(c)
          /\ Goes("sender", "prompting", "failed")
          /\ UNCHANGED applied
    /\ UNCHANGED <<clock, ticks, created_at, codes, link>>

(* open_and_detach, then a look at the connection *)
SenderOpens ==
    /\ channel = "open"
    /\ Goes("sender", "connecting", IF connected = "yes" THEN "open" ELSE "failed")
    /\ UNCHANGED <<clock, ticks, created_at, codes, applied, link>>

-----------------------------------------------------------------------------
(* The receiver *)

OfferAccepted(c) ==
    /\ Decodes(c.bucket, clock["receiver"])
    /\ c.type = "offer"
    /\ ~IsExpired(c.created, clock["receiver"])

PasteOffer(c) ==
    /\ \/ /\ OfferAccepted(c)
          /\ Goes("receiver", "prompting", "choosing")
          /\ applied' = [applied EXCEPT !["receiver"] = c]
       \/ /\ ~OfferAccepted(c)
          /\ Goes("receiver", "prompting", "failed")
          /\ UNCHANGED applied
    /\ UNCHANGED <<clock, ticks, created_at, codes, link>>

(* resolve_destination may ask, for as long as it takes. *)
ChooseDestination ==
    /\ \E to \in {"answering", "cancelled"} : Goes("receiver", "choosing", to)
    /\ UNCHANGED <<clock, ticks, created_at, codes, applied, link>>

Answer == [type |-> "answer", created |-> clock["receiver"],
           bucket |-> Bucket(clock["receiver"]), of |-> applied["receiver"].of]

(* The wait for the channel begins now, before the answer has been carried. *)
ShowAnswer ==
    /\ Goes("receiver", "answering", "waiting")
    /\ codes' = codes \cup {Answer}
    /\ UNCHANGED <<clock, ticks, created_at, applied, link>>

ChannelArrives_OneDeadline ==
    /\ channel # "none"
    /\ pc["receiver"] = "waiting" /\ pc' = [pc EXCEPT !["receiver"] = "opening"]
    /\ UNCHANGED <<since, clock, ticks, created_at, codes, applied, link>>
ChannelArrives ==
    /\ channel # "none"
    /\ Goes("receiver", "waiting", "opening")
    /\ UNCHANGED <<clock, ticks, created_at, codes, applied, link>>

ReceiverOpens ==
    /\ channel = "open"
    /\ Goes("receiver", "opening", "open")
    /\ UNCHANGED <<clock, ticks, created_at, codes, applied, link>>

-----------------------------------------------------------------------------
(* The path between the two *)

Matched ==
    /\ pc["sender"] = "connecting" /\ applied["sender"].of = "this"
    /\ pc["receiver"] \in {"waiting", "opening"} /\ applied["receiver"].of = "this"

LinkUp ==
    /\ Matched
    /\ \/ connected = "no" /\ connected' = "yes" /\ UNCHANGED channel
       \/ /\ connected = "yes" /\ UNCHANGED connected
          /\ \/ channel = "none" /\ channel' = "announced"
             \/ channel = "announced" /\ channel' = "open"
    /\ UNCHANGED <<clock, ticks, pc, since, created_at, codes, applied>>

LinkDown ==
    /\ connected = "yes" /\ connected' = "failed"
    /\ UNCHANGED <<clock, ticks, pc, since, created_at, codes, applied, channel>>

-----------------------------------------------------------------------------

SenderStep ==
    ShowOffer \/ SenderOpens \/ \E c \in codes : PasteAnswer(c)
ReceiverStep ==
    \/ ChooseDestination \/ ShowAnswer \/ ChannelArrives \/ ReceiverOpens
    \/ \E c \in codes : PasteOffer(c)

AnyStep ==
    \/ Tick \/ SenderStep \/ ReceiverStep \/ LinkUp \/ LinkDown
    \/ \E s \in Side : TimesOut(s) \/ Fails(s)

(* Good days: the clocks agree, no errors, everybody pastes the code that  *)
(* was just shown, programs and network do what they can within a tick.    *)
(* The offer and the choice of a destination take any part of the hour     *)
(* that leaves room for the answer, which takes up to Carry to bring.      *)
Latest == TransferExpiration - Gather - Carry
Prompt ==
    /\ pc["sender"] = "preparing" => clock["sender"] < since["sender"] + Gather
    /\ pc["receiver"] \in {"prompting", "choosing"} =>
           clock["sender"] < created_at + Latest
    /\ pc["receiver"] = "answering" => clock["receiver"] < since["receiver"] + Gather
    /\ pc["receiver"] = "waiting" /\ pc["sender"] = "prompting" =>
           clock["receiver"] < since["receiver"] + Carry
    /\ ~Matched /\ pc["receiver"] # "opening"
    /\ channel # "none" => pc["receiver"] # "waiting" /\ pc["sender"] # "connecting"
PromptPaste ==
    \E c \in codes : /\ c.of = "this"
                     /\ \/ c.type = "offer" /\ PasteOffer(c)
                        \/ c.type = "answer" /\ PasteAnswer(c)
PromptStep ==
    \/ Prompt /\ Tick
    \/ PromptPaste \/ LinkUp
    \/ ShowOffer \/ SenderOpens
    \/ ChooseDestination \/ ShowAnswer \/ ChannelArrives \/ ReceiverOpens
    \/ \E s \in Side : TimesOut(s)

Next == IF good_day THEN PromptStep /\ UNCHANGED good_day
                    ELSE AnyStep /\ UNCHANGED good_day

Spec == Init /\ [][Next]_vars

(* Clocks run and timeouts fire.  People and the network need not act. *)
Fairness == WF_steps(Tick) /\ \A s \in Side : WF_steps(TimesOut(s))
FairSpec == Spec /\ Fairness

-----------------------------------------------------------------------------
(* Properties *)

(* Types; the sender goes on with answers only, the receiver with offers. *)
TypeOK ==
    /\ clock \in [Side -> Nat] /\ since \in [Side -> Nat]
    /\ ticks \in Nat /\ created_at \in Nat
    /\ pc["sender"] \in SenderPC /\ pc["receiver"] \in ReceiverPC
    /\ codes \subseteq Codes
    /\ applied \in [Side -> codes \cup {NoCode}]
    /\ applied["sender"] # NoCode => applied["sender"].type = "answer"
    /\ applied["receiver"] # NoCode => applied["receiver"].type = "offer"
    /\ connected \in {"no", "yes", "failed"}
    /\ channel \in {"none", "announced", "open"}

Behind(c, s) == Bucket(clock[s]) < c.bucket

(***************************************************************************)
(* An offer that is not expired can be read, although it was obscured some *)
(* time after it was dated and the hour may have changed since: unless the *)
(* receiver's clock is still in an earlier hour than the sender's was.     *)
(***************************************************************************)
OfferReadable ==
    \A c \in codes :
        c.type = "offer" /\ c.of = "this" /\ ~Decodes(c.bucket, clock["receiver"]) =>
            IsExpired(c.created, clock["receiver"]) \/ Behind(c, "receiver")

(***************************************************************************)
(* An answer can be read for as long as the sender's session lasts, though *)
(* it is dated and obscured by the receiver's clock and its own date is    *)
(* never looked at: unless the sender's clock is in an earlier hour.       *)
(***************************************************************************)
AnswerReadable ==
    \A c \in codes :
        c.type = "answer" /\ c.of = "this" /\ ~Decodes(c.bucket, clock["sender"]) =>
            IsExpired(created_at, clock["sender"]) \/ Behind(c, "sender")

(***************************************************************************)
(* Whichever code is decoded an hour boundary later, or by a clock that is *)
(* ahead, it is readable as long as it is of any use.                      *)
(***************************************************************************)
CodesReadable == OfferReadable /\ AnswerReadable

(***************************************************************************)
(* When the answer is carried before the receiver's two minutes are over,  *)
(* nobody gives up, whatever part of the hour the offer took.              *)
(***************************************************************************)
CarriedInTime == good_day => \A s \in Side : pc[s] # "failed"

(***************************************************************************)
(* A side that has done its part of the exchange does not wait for ever,   *)
(* whichever code it was given and whatever became of the other side.      *)
(***************************************************************************)
ExchangeSettles == \A s \in Side : Timed(s) ~> pc[s] \in Ended
=============================================================================
