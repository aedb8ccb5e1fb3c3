------------------------- MODULE ManualExchangeProofs -------------------------
(***************************************************************************)
(* A code that is not expired can be read, for every length of the hour,   *)
(* any clocks and any codes of other sessions.  The argument follows a     *)
(* code through its life: it is dated, obscured no earlier, carried, and   *)
(* an answer is obscured by a receiver that could read the offer.          *)
(*                                                                         *)
(* And on a good day nobody gives up: each wait, with the waits before it, *)
(* ends within the time that is left, whoever waits for whom.              *)
(***************************************************************************)
EXTENDS ManualExchange, TLAPS

-----------------------------------------------------------------------------
(* Arithmetic of the hours *)

(* now_ms / 1000 rounds down. *)
LEMMA Seconds ==
    ASSUME NEW t \in Nat
    PROVE  /\ t \div Second \in Nat
           /\ (t \div Second) * Second <= t
           /\ t < (t \div Second + 1) * Second
BY HourAssumption

(* current_bucket: a second lies in its hour. *)
LEMMA HourBounds ==
    ASSUME NEW n \in Nat
    PROVE  /\ n \div BucketSec \in Nat
           /\ (n \div BucketSec) * BucketSec <= n
           /\ n < (n \div BucketSec + 1) * BucketSec
BY HourAssumption

(* Whole seconds pass in order. *)
LEMMA SecondsMonotonic ==
    ASSUME NEW t \in Nat, NEW u \in Nat, t <= u
    PROVE  t \div Second <= u \div Second
<1>1. (t \div Second) * Second < (u \div Second + 1) * Second
  BY Seconds, HourAssumption
<1> QED BY <1>1, Seconds, HourAssumption

(* Hours pass in order. *)
LEMMA HoursMonotonic ==
    ASSUME NEW m \in Nat, NEW n \in Nat, m <= n
    PROVE  m \div BucketSec <= n \div BucketSec
<1>1. (m \div BucketSec) * BucketSec < (n \div BucketSec + 1) * BucketSec
  BY HourBounds, HourAssumption
<1> QED BY <1>1, HourBounds, HourAssumption

(* current_bucket never runs back. *)
LEMMA BucketMonotonic ==
    ASSUME NEW t \in Nat, NEW u \in Nat, t <= u
    PROVE  Bucket(t) \in Nat /\ Bucket(u) \in Nat /\ Bucket(t) <= Bucket(u)
BY Seconds, SecondsMonotonic, HourBounds, HoursMonotonic DEF Bucket

(* One transfer expiration later the next hour is current, at most. *)
LEMMA NextBucket ==
    ASSUME NEW t \in Nat
    PROVE  /\ t + TransferExpiration \in Nat
           /\ Bucket(t + TransferExpiration) = Bucket(t) + 1
<1> DEFINE n == t \div Second
<1>1. BucketSec * Second \in Nat
  BY HourAssumption
<1>2. (t + BucketSec * Second) \div Second = n + BucketSec
  BY HourAssumption
<1>3. (n + BucketSec) \div BucketSec = n \div BucketSec + 1
  BY Seconds, HourAssumption
<1> QED BY <1>1, <1>2, <1>3 DEF Bucket, TransferExpiration

(***************************************************************************)
(* is_expired against decode: a code dated at d and obscured in hour b no  *)
(* earlier than d's is read at t by a reader that does not consider d      *)
(* expired and whose clock has reached hour b.                             *)
(***************************************************************************)
LEMMA UnexpiredDecodes ==
    ASSUME NEW d \in Nat, NEW t \in Nat, NEW b \in Nat,
           Bucket(d) <= b, b <= Bucket(t), ~IsExpired(d, t)
    PROVE  Decodes(b, t)
<1>1. t <= d + TransferExpiration
  <2>1. TransferExpiration \in Nat
    BY HourAssumption DEF TransferExpiration
  <2>2. SaturatingSub(t, d) <= TransferExpiration
    BY <2>1 DEF IsExpired, SaturatingSub
  <2> QED BY <2>1, <2>2 DEF SaturatingSub
<1>2. Bucket(t) <= Bucket(d + TransferExpiration)
  BY <1>1, NextBucket, BucketMonotonic
<1>3. Bucket(t) \in Nat /\ Bucket(d) \in Nat
  BY BucketMonotonic
<1>4. b = Bucket(t) \/ (b + 1 = Bucket(t))
  BY <1>2, <1>3, NextBucket
<1>5. b = SaturatingSub(Bucket(t), 0) \/ b = SaturatingSub(Bucket(t), 1)
  BY <1>3, <1>4 DEF SaturatingSub
<1> QED BY <1>5 DEF Decodes

(* decode: what is read was not obscured in a later hour. *)
LEMMA DecodesNotAhead ==
    ASSUME NEW t \in Nat, NEW b \in Nat, Decodes(b, t)
    PROVE  b <= Bucket(t)
<1>1. Bucket(t) \in Nat
  BY BucketMonotonic
<1>2. PICK i \in 0 .. 1 : b = SaturatingSub(Bucket(t), i)
  BY DEF Decodes
<1> QED BY <1>1, <1>2 DEF SaturatingSub

-----------------------------------------------------------------------------
(* The inductive invariant *)

CodesDated ==
    \A c \in codes : c.of = "this" =>
        /\ Bucket(created_at) <= c.bucket
        /\ c.type = "offer" => c.created = created_at

OfferRead ==
    pc["receiver"] \in {"choosing", "answering"} =>
        /\ applied["receiver"] \in codes
        /\ applied["receiver"].bucket <= Bucket(clock["receiver"])

IInv ==
    /\ clock \in [Side -> Nat]
    /\ pc \in [Side -> SenderPC \cup ReceiverPC]
    /\ applied \in [Side -> Codes \cup {NoCode}]
    /\ created_at \in Nat /\ created_at <= clock["sender"]
    /\ codes \subseteq Codes
    /\ CodesDated
    /\ OfferRead

(* It holds in the beginning: only codes of other sessions are about. *)
LEMMA InitEstablishes == Init => IInv
<1> SUFFICES ASSUME Init PROVE IInv
  OBVIOUS
<1>1. clock \in [Side -> Nat] /\ created_at = clock["sender"]
  BY ExchangeAssumption DEF Init
<1>2. created_at \in Nat /\ created_at <= clock["sender"]
  BY <1>1 DEF Side
<1>3. pc \in [Side -> SenderPC \cup ReceiverPC] /\ pc["receiver"] = "prompting"
  BY DEF Init, Side, SenderPC, ReceiverPC
<1>4. applied \in [Side -> Codes \cup {NoCode}]
  BY DEF Init
<1>5. codes \subseteq Codes /\ \A c \in codes : c.of = "other"
  BY ExchangeAssumption DEF Init
<1> QED BY <1>1, <1>2, <1>3, <1>4, <1>5 DEF IInv, CodesDated, OfferRead

(* A step of the clocks. *)
LEMMA TickStep == IInv /\ Tick => IInv'
<1> SUFFICES ASSUME IInv, Tick PROVE IInv'
  OBVIOUS
<1>1. /\ clock' \in [Side -> Nat]
      /\ clock["sender"] \in Nat /\ clock'["sender"] = clock["sender"] + 1
      /\ clock["receiver"] \in Nat /\ clock'["receiver"] = clock["receiver"] + 1
  BY DEF IInv, Tick, Side
<1>2. created_at' \in Nat /\ created_at' <= clock'["sender"]
  BY <1>1 DEF IInv, Tick
<1>3. UNCHANGED <<pc, applied, codes, created_at>>
  BY DEF Tick
<1>4. CodesDated'
  BY <1>3 DEF IInv, CodesDated
<1>5. OfferRead'
  <2> SUFFICES ASSUME pc["receiver"] \in {"choosing", "answering"}
               PROVE  /\ applied["receiver"] \in codes
                      /\ applied["receiver"].bucket <= Bucket(clock'["receiver"])
    BY <1>3 DEF OfferRead
  <2>1. applied["receiver"] \in codes /\ applied["receiver"].bucket \in Nat
    BY DEF IInv, OfferRead, Codes
  <2>2. /\ Bucket(clock["receiver"]) \in Nat /\ Bucket(clock'["receiver"]) \in Nat
        /\ Bucket(clock["receiver"]) <= Bucket(clock'["receiver"])
    BY <1>1, BucketMonotonic
  <2>3. applied["receiver"].bucket <= Bucket(clock["receiver"])
    BY DEF IInv, OfferRead
  <2> QED BY <2>1, <2>2, <2>3
<1> QED BY <1>1, <1>2, <1>3, <1>4, <1>5 DEF IInv

(* ShowOffer obscures the offer no earlier than it was dated. *)
LEMMA ShowOfferStep == IInv /\ ShowOffer => IInv'
<1> SUFFICES ASSUME IInv, ShowOffer PROVE IInv'
  OBVIOUS
<1> DEFINE o == [type |-> "offer", created |-> created_at,
                 bucket |-> Bucket(clock["sender"]), of |-> "this"]
<1>1. /\ clock' = clock /\ created_at' = created_at /\ applied' = applied
      /\ codes' = codes \cup {o} /\ clock["sender"] \in Nat
  BY DEF ShowOffer, IInv, Side
<1>2. Bucket(created_at) \in Nat /\ o.bucket \in Nat /\ Bucket(created_at) <= o.bucket
  BY <1>1, BucketMonotonic DEF IInv
<1>3. o \in Codes
  BY <1>2 DEF Codes, IInv
<1>4. pc' \in [Side -> SenderPC \cup ReceiverPC] /\ pc'["receiver"] = pc["receiver"]
  BY DEF ShowOffer, Goes, IInv, Side, SenderPC
<1>5. CodesDated'
  BY <1>1, <1>2 DEF IInv, CodesDated
<1>6. OfferRead'
  BY <1>1, <1>4 DEF IInv, OfferRead
<1> QED BY <1>1, <1>3, <1>4, <1>5, <1>6 DEF IInv

(* PasteOffer: the receiver goes on with an offer it could read. *)
LEMMA PasteOfferStep == ASSUME NEW c \in codes PROVE IInv /\ PasteOffer(c) => IInv'
<1> SUFFICES ASSUME IInv, PasteOffer(c) PROVE IInv'
  OBVIOUS
<1>1. /\ clock' = clock /\ created_at' = created_at /\ codes' = codes
      /\ clock["receiver"] \in Nat /\ c \in Codes /\ c.bucket \in Nat
  BY DEF PasteOffer, IInv, Side, Codes
<1>2. pc' \in [Side -> SenderPC \cup ReceiverPC]
  BY DEF PasteOffer, Goes, IInv, ReceiverPC
<1>3. applied' \in [Side -> Codes \cup {NoCode}]
  BY <1>1 DEF PasteOffer, IInv
<1>4. OfferRead'
  <2>1. CASE OfferAccepted(c)
    <3>1. c.bucket <= Bucket(clock["receiver"])
      BY <2>1, <1>1, DecodesNotAhead DEF OfferAccepted
    <3>2. applied'["receiver"] = c
      BY <2>1 DEF PasteOffer, IInv, Side
    <3> QED BY <1>1, <3>1, <3>2 DEF OfferRead
  <2>2. CASE ~OfferAccepted(c)
    <3>1. pc'["receiver"] = "failed"
      BY <2>2 DEF PasteOffer, Goes, IInv, Side
    <3> QED BY <3>1 DEF OfferRead
  <2> QED BY <2>1, <2>2
<1> QED BY <1>1, <1>2, <1>3, <1>4 DEF IInv, CodesDated

(* ShowAnswer: the hour of an answer is not before that of its offer. *)
LEMMA ShowAnswerStep == IInv /\ ShowAnswer => IInv'
<1> SUFFICES ASSUME IInv, ShowAnswer PROVE IInv'
  OBVIOUS
<1> DEFINE o == applied["receiver"]
<1>1. /\ clock' = clock /\ created_at' = created_at /\ applied' = applied
      /\ codes' = codes \cup {Answer}
      /\ clock["receiver"] \in Nat /\ created_at \in Nat
  BY DEF ShowAnswer, IInv, Side
<1>2. o \in codes /\ o \in Codes /\ o.bucket \in Nat /\ o.bucket <= Bucket(clock["receiver"])
  BY DEF ShowAnswer, Goes, IInv, OfferRead, Codes
<1>3. Bucket(clock["receiver"]) \in Nat /\ Bucket(created_at) \in Nat
  BY <1>1, BucketMonotonic
<1>4. Answer \in Codes /\ Answer.of = o.of /\ Answer.type = "answer"
      /\ Answer.bucket = Bucket(clock["receiver"])
  BY <1>1, <1>2, <1>3 DEF Answer, Codes
<1>5. Answer.of = "this" => Bucket(created_at) <= Answer.bucket
  <2> SUFFICES ASSUME o.of = "this" PROVE Bucket(created_at) <= Answer.bucket
    BY <1>4
  <2>1. Bucket(created_at) <= o.bucket
    BY <1>2 DEF IInv, CodesDated
  <2> QED BY <1>2, <1>3, <1>4, <2>1
<1>6. CodesDated'
  BY <1>1, <1>4, <1>5 DEF IInv, CodesDated
<1>7. pc' \in [Side -> SenderPC \cup ReceiverPC] /\ pc'["receiver"] = "waiting"
  BY DEF ShowAnswer, Goes, IInv, Side, ReceiverPC
<1>8. OfferRead'
  BY <1>7 DEF OfferRead
<1> QED BY <1>1, <1>4, <1>6, <1>7, <1>8 DEF IInv

(* Steps that show no code and read no offer change neither. *)
LEMMA OtherSteps ==
    ASSUME IInv, UNCHANGED <<clock, created_at, codes>>,
           pc' \in [Side -> SenderPC \cup ReceiverPC],
           applied' \in [Side -> Codes \cup {NoCode}],
           applied'["receiver"] = applied["receiver"],
           pc'["receiver"] \in {"choosing", "answering"} =>
               pc["receiver"] \in {"choosing", "answering"}
    PROVE  IInv'
BY DEF IInv, CodesDated, OfferRead

(* The steps that are left, one by one. *)
LEMMA QuietStep ==
    ASSUME IInv,
           \/ \E c \in codes : PasteAnswer(c)
           \/ SenderOpens \/ ChooseDestination \/ ChannelArrives \/ ReceiverOpens
           \/ LinkUp \/ LinkDown \/ \E s \in Side : TimesOut(s) \/ Fails(s)
    PROVE  IInv'
<1> DEFINE Gone == /\ UNCHANGED <<clock, created_at, codes>>
                   /\ pc' \in [Side -> SenderPC \cup ReceiverPC]
                   /\ applied' \in [Side -> Codes \cup {NoCode}]
                   /\ applied'["receiver"] = applied["receiver"]
                   /\ pc'["receiver"] \in {"choosing", "answering"} =>
                          pc["receiver"] \in {"choosing", "answering"}
<1>1. ASSUME NEW c \in codes, PasteAnswer(c) PROVE Gone
  BY <1>1 DEF PasteAnswer, Goes, IInv, Side, SenderPC
<1>2. CASE SenderOpens
  BY <1>2, OtherSteps DEF SenderOpens, Goes, IInv, Side, SenderPC
<1>3. CASE ChooseDestination
  BY <1>3, OtherSteps DEF ChooseDestination, Goes, IInv, Side, ReceiverPC
<1>4. CASE ChannelArrives
  BY <1>4, OtherSteps DEF ChannelArrives, Goes, IInv, Side, ReceiverPC
<1>5. CASE ReceiverOpens
  BY <1>5, OtherSteps DEF ReceiverOpens, Goes, IInv, Side, ReceiverPC
<1>6. CASE LinkUp \/ LinkDown
  BY <1>6, OtherSteps DEF LinkUp, LinkDown, IInv
<1>7. ASSUME NEW s \in Side, TimesOut(s) \/ Fails(s) PROVE Gone
  BY <1>7 DEF TimesOut, Fails, Goes, IInv, Side, SenderPC
<1> HIDE DEF Gone
<1>8. Gone => IInv'
  BY OtherSteps DEF Gone
<1> QED BY <1>1, <1>2, <1>3, <1>4, <1>5, <1>6, <1>7, <1>8

(* Prompt people do nothing that others could not. *)
LEMMA PromptIsStep == PromptStep => AnyStep
BY DEF PromptStep, PromptPaste, AnyStep, SenderStep, ReceiverStep

(* Every step preserves the invariant. *)
LEMMA StepPreserves == IInv /\ [Next]_vars => IInv'
<1> SUFFICES ASSUME IInv, AnyStep \/ UNCHANGED steps PROVE IInv'
  BY PromptIsStep DEF Next, vars
<1>1. CASE Tick
  BY <1>1, TickStep
<1>2. CASE ShowOffer
  BY <1>2, ShowOfferStep
<1>3. CASE \E c \in codes : PasteOffer(c)
  BY <1>3, PasteOfferStep
<1>4. CASE ShowAnswer
  BY <1>4, ShowAnswerStep
<1>5. CASE UNCHANGED steps
  BY <1>5 DEF steps, IInv, CodesDated, OfferRead
<1> QED BY <1>1, <1>2, <1>3, <1>4, <1>5, QuietStep DEF AnyStep, SenderStep, ReceiverStep

(* So it always holds. *)
LEMMA ExchangeInvariant == Spec => []IInv
BY InitEstablishes, StepPreserves, PTL DEF Spec

(***************************************************************************)
(* OfferReadable, for every instance: an offer that is not expired is      *)
(* decoded unless the receiver's clock is in an earlier hour.              *)
(***************************************************************************)
THEOREM OfferAlwaysReadable == Spec => []OfferReadable
<1>1. IInv => OfferReadable
  <2> SUFFICES ASSUME IInv, NEW c \in codes, c.type = "offer", c.of = "this",
                      ~IsExpired(c.created, clock["receiver"]), ~Behind(c, "receiver")
               PROVE  Decodes(c.bucket, clock["receiver"])
    BY DEF OfferReadable
  <2>1. c.bucket \in Nat /\ c.created = created_at /\ created_at \in Nat
    BY DEF IInv, CodesDated, Codes
  <2>2. clock["receiver"] \in Nat /\ Bucket(created_at) <= c.bucket
    BY DEF IInv, CodesDated, Side
  <2>3. Bucket(clock["receiver"]) \in Nat
    BY <2>2, BucketMonotonic
  <2>4. c.bucket <= Bucket(clock["receiver"])
    BY <2>1, <2>3 DEF Behind
  <2> QED BY <2>1, <2>2, <2>4, UnexpiredDecodes
<1> QED BY <1>1, ExchangeInvariant, PTL

(***************************************************************************)
(* AnswerReadable, for every instance: an answer is decoded for as long    *)
(* as the sender's session lasts, unless the sender's clock is in an       *)
(* earlier hour.                                                           *)
(***************************************************************************)
THEOREM AnswerAlwaysReadable == Spec => []AnswerReadable
<1>1. IInv => AnswerReadable
  <2> SUFFICES ASSUME IInv, NEW c \in codes, c.of = "this",
                      ~IsExpired(created_at, clock["sender"]), ~Behind(c, "sender")
               PROVE  Decodes(c.bucket, clock["sender"])
    BY DEF AnswerReadable
  <2>1. c.bucket \in Nat /\ created_at \in Nat
    BY DEF IInv, Codes
  <2>2. clock["sender"] \in Nat /\ Bucket(created_at) <= c.bucket
    BY DEF IInv, CodesDated, Side
  <2>3. Bucket(clock["sender"]) \in Nat
    BY <2>2, BucketMonotonic
  <2>4. c.bucket <= Bucket(clock["sender"])
    BY <2>1, <2>3 DEF Behind
  <2> QED BY <2>1, <2>2, <2>4, UnexpiredDecodes
<1> QED BY <1>1, ExchangeInvariant, PTL

(***************************************************************************)
(* CodesReadable, for every instance: both of these.                       *)
(***************************************************************************)
THEOREM CodesAlwaysReadable == Spec => []CodesReadable
<1>1. OfferReadable /\ AnswerReadable => CodesReadable
  BY DEF CodesReadable
<1> QED BY <1>1, OfferAlwaysReadable, AnswerAlwaysReadable, PTL

-----------------------------------------------------------------------------
(* The inductive invariant of a good day *)

Now == clock["sender"]

(* The sides are where they should be, with the same time. *)
Together ==
    /\ clock["receiver"] = Now
    /\ pc["sender"] \in SenderPC \ {"failed"}
    /\ pc["receiver"] \in ReceiverPC \ {"failed"}

(* Each wait is as long as a prompt person makes it, and begins in time.   *)
OnTime ==
    /\ since \in [Side -> Nat]
    /\ pc["receiver"] \in {"prompting", "choosing"} => Now <= created_at + Latest
    /\ pc["receiver"] = "answering" =>
           since["receiver"] <= created_at + Latest /\ Now <= since["receiver"] + Gather
    /\ pc["receiver"] = "waiting" =>
           /\ since["receiver"] <= created_at + Latest + Gather
           /\ Now <= since["receiver"] + Carry
    /\ pc["receiver"] = "opening" => Now = since["receiver"]
    /\ pc["sender"] = "connecting" => Now = since["sender"]

(* The codes of the session: none before the offer, answers only of a      *)
(* receiver that waits, all of them obscured by now.                       *)
CodesShown ==
    /\ \A c \in codes : c.of = "this" => c.bucket <= Bucket(Now)
    /\ \A c \in codes : c.of = "this" /\ c.type = "answer" =>
           pc["receiver"] \in {"waiting", "opening", "open"}
    /\ pc["sender"] = "preparing" =>
           pc["receiver"] = "prompting" /\ \A c \in codes : c.of # "this"

(* Who has gone on has gone on with a code of the session. *)
Paired ==
    /\ pc["receiver"] \notin {"prompting", "cancelled"} => applied["receiver"].of = "this"
    /\ pc["sender"] \in {"connecting", "open"} =>
           /\ applied["sender"].of = "this"
           /\ pc["receiver"] \in {"waiting", "opening", "open"}

(* The link comes up between the two and stays. *)
Linked ==
    /\ connected \in {"no", "yes"} /\ channel \in {"none", "announced", "open"}
    /\ channel # "none" => connected = "yes" /\ pc["sender"] \in {"connecting", "open"}
    /\ pc["receiver"] \in {"opening", "open"} => channel # "none"
    /\ pc["sender"] = "open" \/ pc["receiver"] = "open" => channel = "open"

GoodDay == Together /\ OnTime /\ CodesShown /\ Paired /\ Linked
GoodInv == good_day => GoodDay

(* The hour has room for the answer. *)
LEMMA HourHasRoom ==
    /\ Latest \in Nat /\ TransferExpiration \in Nat
    /\ Latest + Gather + Carry = TransferExpiration
    /\ Gather \in Nat /\ Carry \in Nat /\ Connect \in Nat /\ OpenTimeout \in Nat
    /\ Carry < Connect /\ OpenTimeout > 0
<1>1. TransferExpiration \in Nat
  BY HourAssumption DEF TransferExpiration
<1> QED BY <1>1, ExchangeAssumption, PromptAssumption DEF Latest

(* What it is to go on, for one side and for the other. *)
LEMMA GoesFacts ==
    ASSUME pc \in [Side -> SenderPC \cup ReceiverPC], since \in [Side -> Nat],
           clock \in [Side -> Nat], NEW s \in Side, NEW from, NEW to, Goes(s, from, to)
    PROVE  /\ pc[s] = from /\ pc'[s] = to /\ since'[s] = clock[s]
           /\ since' \in [Side -> Nat]
           /\ \A o \in Side : o # s => pc'[o] = pc[o] /\ since'[o] = since[o]
BY DEF Goes

(* A good day begins with the two clocks alike. *)
LEMMA GoodInitially == Init => GoodInv
<1> SUFFICES ASSUME Init, good_day PROVE GoodDay
  BY DEF GoodInv
<1>1. /\ clock \in [Side -> Nat] /\ since = clock /\ created_at = Now
      /\ clock["receiver"] = Now /\ Now \in Nat
      /\ pc["sender"] = "preparing" /\ pc["receiver"] = "prompting"
      /\ connected = "no" /\ channel = "none" /\ \A c \in codes : c.of # "this"
  BY ExchangeAssumption DEF Init, Now, Side
<1>2. Now <= created_at + Latest
  BY <1>1, HourHasRoom
<1> QED BY <1>1, <1>2 DEF GoodDay, Together, OnTime, CodesShown, Paired, Linked,
        SenderPC, ReceiverPC

(* Time passes only while somebody prompt is still about it. *)
LEMMA GoodTick ==
    ASSUME IInv, GoodDay, Prompt, Tick
    PROVE  GoodDay'
<1>1. /\ Now \in Nat /\ Now' = Now + 1 /\ clock'["receiver"] = Now'
      /\ UNCHANGED <<pc, since, created_at, codes, applied, connected, channel>>
  BY DEF IInv, GoodDay, Together, Tick, Now, Side, link
<1>2. created_at \in Nat /\ since["receiver"] \in Nat /\ since["sender"] \in Nat
  BY DEF IInv, GoodDay, OnTime, Side
<1>3. pc["receiver"] # "opening" /\ ~Matched
  BY DEF Prompt
<1>4. channel # "none" => pc["receiver"] # "waiting" /\ pc["sender"] # "connecting"
  BY DEF Prompt
<1>5. pc["sender"] # "connecting"
  BY <1>3, <1>4 DEF Matched, GoodDay, Paired, Linked
<1>6. pc["receiver"] = "waiting" => pc["sender"] = "prompting"
  BY <1>4, <1>5 DEF GoodDay, Together, SenderPC, CodesShown, Linked
<1>7. OnTime'
  <2>1. pc["receiver"] \in {"prompting", "choosing"} => Now' <= created_at + Latest
    BY <1>1, <1>2, HourHasRoom DEF Prompt, Now
  <2>2. pc["receiver"] = "answering" => Now' <= since["receiver"] + Gather
    BY <1>1, <1>2, HourHasRoom DEF Prompt, GoodDay, Together
  <2>3. pc["receiver"] = "waiting" => Now' <= since["receiver"] + Carry
    BY <1>1, <1>2, <1>6, HourHasRoom DEF Prompt, GoodDay, Together
  <2> QED BY <1>1, <1>3, <1>5, <2>1, <2>2, <2>3 DEF GoodDay, OnTime
<1>8. CodesShown'
  <2>1. Bucket(Now) \in Nat /\ Bucket(Now') \in Nat /\ Bucket(Now) <= Bucket(Now')
    BY <1>1, BucketMonotonic
  <2>2. \A c \in codes : c.of = "this" => c.bucket <= Bucket(Now')
    BY <2>1 DEF GoodDay, CodesShown, IInv, Codes
  <2> QED BY <1>1, <2>2 DEF GoodDay, CodesShown
<1> QED BY <1>1, <1>7, <1>8 DEF GoodDay, Together, Paired, Linked

(* A code of this session is decoded while the hour lasts. *)
LEMMA GoodCodes ==
    ASSUME IInv, GoodDay, NEW c \in codes, c.of = "this",
           Now <= created_at + TransferExpiration
    PROVE  Decodes(c.bucket, Now) /\ ~IsExpired(created_at, Now)
<1>1. Now \in Nat /\ created_at \in Nat /\ c.bucket \in Nat
  BY DEF IInv, Now, Side, Codes
<1>2. ~IsExpired(created_at, Now)
  BY <1>1, HourHasRoom DEF IsExpired, SaturatingSub
<1>3. Bucket(created_at) <= c.bucket /\ c.bucket <= Bucket(Now)
  BY DEF IInv, CodesDated, GoodDay, CodesShown
<1> QED BY <1>1, <1>2, <1>3, UnexpiredDecodes

(* The offer that was just shown is accepted. *)
LEMMA GoodOffer ==
    ASSUME IInv, GoodDay, NEW c \in codes, c.of = "this", c.type = "offer", PasteOffer(c)
    PROVE  GoodDay'
<1>0. /\ pc \in [Side -> SenderPC \cup ReceiverPC] /\ since \in [Side -> Nat]
      /\ clock \in [Side -> Nat] /\ created_at \in Nat /\ Now \in Nat
      /\ clock["receiver"] = Now /\ "receiver" \in Side /\ "sender" \in Side
  BY DEF IInv, GoodDay, OnTime, Together, Side, Now
<1>1. pc["receiver"] = "prompting"
  BY DEF PasteOffer, Goes
<1>2. Now <= created_at + Latest /\ Now <= created_at + TransferExpiration
  BY <1>0, <1>1, HourHasRoom DEF GoodDay, OnTime
<1>3. OfferAccepted(c)
  <2>1. c.created = created_at
    BY DEF IInv, CodesDated
  <2> QED BY <1>0, <1>2, <2>1, GoodCodes DEF OfferAccepted
<1>4. /\ Goes("receiver", "prompting", "choosing")
      /\ applied' = [applied EXCEPT !["receiver"] = c]
      /\ UNCHANGED <<clock, created_at, codes, connected, channel>>
  BY <1>3 DEF PasteOffer, link
<1>5. /\ pc'["receiver"] = "choosing" /\ pc'["sender"] = pc["sender"]
      /\ since' \in [Side -> Nat] /\ since'["sender"] = since["sender"] /\ Now' = Now
  BY <1>0, <1>4, GoesFacts DEF Now
<1>6. applied'["receiver"] = c /\ applied'["sender"] = applied["sender"]
  BY <1>0, <1>4 DEF IInv
<1>7. OnTime'
  BY <1>2, <1>4, <1>5 DEF GoodDay, OnTime
<1>8. pc["sender"] # "preparing"
  BY DEF GoodDay, CodesShown
<1>9. CodesShown' /\ Together'
  BY <1>0, <1>1, <1>4, <1>5, <1>8 DEF GoodDay, CodesShown, Together, ReceiverPC
<1>10. pc["sender"] \notin {"connecting", "open"}
  BY <1>1 DEF GoodDay, Paired
<1>11. Paired' /\ Linked'
  BY <1>1, <1>4, <1>5, <1>6, <1>10 DEF GoodDay, Paired, Linked
<1> QED BY <1>7, <1>9, <1>11 DEF GoodDay

(* An answer is pasted while the receiver waits for the channel, ... *)
LEMMA AnswerComesInTime ==
    ASSUME IInv, GoodDay, NEW c \in codes, c.of = "this", c.type = "answer",
           pc["sender"] = "prompting"
    PROVE  pc["receiver"] = "waiting" /\ Now <= created_at + TransferExpiration
<1>1. pc["receiver"] = "waiting"
  BY DEF GoodDay, CodesShown, Linked
<1>2. /\ since["receiver"] <= created_at + Latest + Gather
      /\ Now <= since["receiver"] + Carry
  BY <1>1 DEF GoodDay, OnTime
<1>3. Now \in Nat /\ created_at \in Nat /\ since["receiver"] \in Nat
  BY DEF IInv, GoodDay, OnTime, Now, Side
<1> QED BY <1>1, <1>2, <1>3, HourHasRoom

(* ... and accepted. *)
LEMMA GoodAnswer ==
    ASSUME IInv, GoodDay, NEW c \in codes, c.of = "this", c.type = "answer", PasteAnswer(c)
    PROVE  GoodDay'
<1>0. /\ pc \in [Side -> SenderPC \cup ReceiverPC] /\ since \in [Side -> Nat]
      /\ clock \in [Side -> Nat] /\ "receiver" \in Side /\ "sender" \in Side
  BY DEF IInv, GoodDay, OnTime, Side
<1>1. pc["sender"] = "prompting"
  BY DEF PasteAnswer, Goes
<1>2. pc["receiver"] = "waiting" /\ Now <= created_at + TransferExpiration
  BY <1>1, AnswerComesInTime
<1>3. AnswerAccepted(c)
  BY <1>2, GoodCodes DEF AnswerAccepted, Now
<1>4. /\ Goes("sender", "prompting", "connecting")
      /\ applied' = [applied EXCEPT !["sender"] = c]
      /\ UNCHANGED <<clock, created_at, codes, connected, channel>>
  BY <1>3 DEF PasteAnswer, link
<1>5. /\ pc'["sender"] = "connecting" /\ pc'["receiver"] = pc["receiver"]
      /\ since' \in [Side -> Nat] /\ since'["receiver"] = since["receiver"]
      /\ since'["sender"] = Now /\ Now' = Now
  BY <1>0, <1>4, GoesFacts DEF Now
<1>6. applied'["sender"] = c /\ applied'["receiver"] = applied["receiver"]
  BY <1>0, <1>4 DEF IInv
<1>7. OnTime'
  BY <1>4, <1>5 DEF GoodDay, OnTime
<1>8. CodesShown' /\ Together'
  BY <1>4, <1>5 DEF GoodDay, CodesShown, Together, SenderPC
<1>9. Paired' /\ Linked'
  BY <1>1, <1>2, <1>4, <1>5, <1>6 DEF GoodDay, Paired, Linked
<1> QED BY <1>7, <1>8, <1>9 DEF GoodDay

(* No wait of the programs runs out. *)
LEMMA GoodTimeouts ==
    ASSUME IInv, GoodDay, NEW s \in Side
    PROVE  ~TimesOut(s)
<1>1. /\ Now \in Nat /\ since["receiver"] \in Nat /\ since["sender"] \in Nat
      /\ clock["receiver"] = Now /\ clock["sender"] = Now
  BY DEF IInv, GoodDay, OnTime, Together, Now, Side
<1>2. CASE s = "sender"
  <2>1. Timed(s) => pc[s] = "connecting" /\ Now = since["sender"]
    BY <1>2 DEF Timed, GoodDay, Together, SenderPC, OnTime
  <2>2. Timed(s) => Window(s) = Connect
    BY <2>1 DEF Window
  <2> QED BY <1>1, <1>2, <2>1, <2>2, HourHasRoom DEF TimesOut, Over
<1>3. CASE s = "receiver"
  <2>1. Timed(s) => \/ pc[s] = "waiting" /\ Now <= since["receiver"] + Carry
                    \/ pc[s] = "opening" /\ Now = since["receiver"]
    BY <1>3 DEF Timed, GoodDay, Together, ReceiverPC, OnTime
  <2>2. (pc[s] = "waiting" => Window(s) = Connect) /\ (pc[s] = "opening" => Window(s) = OpenTimeout)
    BY DEF Window
  <2> QED BY <1>1, <1>3, <2>1, <2>2, HourHasRoom DEF TimesOut, Over
<1> QED BY <1>2, <1>3 DEF Side

(* What is true of the two sides on a good day before each of them goes on. *)
LEMMA GoodTypes ==
    ASSUME IInv, GoodDay
    PROVE  /\ pc \in [Side -> SenderPC \cup ReceiverPC] /\ since \in [Side -> Nat]
           /\ clock \in [Side -> Nat] /\ "receiver" \in Side /\ "sender" \in Side
           /\ clock["receiver"] = Now /\ clock["sender"] = Now /\ Now \in Nat
           /\ created_at \in Nat
BY DEF IInv, GoodDay, OnTime, Together, Side, Now

(* The sender shows its offer, and opens the channel. *)
LEMMA GoodSender ==
    ASSUME IInv, GoodDay, ShowOffer \/ SenderOpens
    PROVE  GoodDay'
<1>1. CASE ShowOffer
  <2> DEFINE o == [type |-> "offer", created |-> created_at,
                   bucket |-> Bucket(clock["sender"]), of |-> "this"]
  <2>1. /\ Goes("sender", "preparing", "prompting") /\ codes' = codes \cup {o}
        /\ UNCHANGED <<clock, created_at, applied, connected, channel>>
    BY <1>1 DEF ShowOffer, link
  <2>2. /\ pc["sender"] = "preparing" /\ pc'["sender"] = "prompting"
        /\ pc'["receiver"] = pc["receiver"] /\ since' \in [Side -> Nat]
        /\ since'["receiver"] = since["receiver"] /\ Now' = Now
    BY <2>1, GoodTypes, GoesFacts DEF Now
  <2>3. pc["receiver"] = "prompting"
    BY <2>2 DEF GoodDay, CodesShown
  <2>4. o.type = "offer" /\ o.bucket = Bucket(Now) /\ Bucket(Now) \in Nat
    BY GoodTypes, BucketMonotonic DEF Now
  <2> HIDE DEF o
  <2>5. CodesShown'
    BY <2>1, <2>2, <2>4 DEF GoodDay, CodesShown
  <2> QED BY <2>1, <2>2, <2>3, <2>5 DEF GoodDay, Together, OnTime, Paired, Linked, SenderPC
<1>2. CASE SenderOpens
  <2>1. channel = "open" /\ connected = "yes"
    BY <1>2 DEF SenderOpens, GoodDay, Linked
  <2>2. /\ Goes("sender", "connecting", "open")
        /\ UNCHANGED <<clock, created_at, codes, applied, connected, channel>>
    BY <1>2, <2>1 DEF SenderOpens, link
  <2>3. /\ pc["sender"] = "connecting" /\ pc'["sender"] = "open"
        /\ pc'["receiver"] = pc["receiver"] /\ since' \in [Side -> Nat]
        /\ since'["receiver"] = since["receiver"] /\ Now' = Now
    BY <2>2, GoodTypes, GoesFacts DEF Now
  <2> QED BY <2>1, <2>2, <2>3 DEF GoodDay, Together, OnTime, CodesShown, Paired, Linked, SenderPC
<1> QED BY <1>1, <1>2

(* The receiver chooses, and shows its answer. *)
LEMMA GoodReceiverAnswers ==
    ASSUME IInv, GoodDay, ChooseDestination \/ ShowAnswer
    PROVE  GoodDay'
<1>1. CASE ChooseDestination
  <2>1. PICK to \in {"answering", "cancelled"} : Goes("receiver", "choosing", to)
    BY <1>1 DEF ChooseDestination
  <2>2. /\ pc["receiver"] = "choosing" /\ pc'["receiver"] = to
        /\ pc'["sender"] = pc["sender"] /\ since' \in [Side -> Nat]
        /\ since'["receiver"] = Now /\ since'["sender"] = since["sender"]
    BY <2>1, GoodTypes, GoesFacts
  <2>3. UNCHANGED <<clock, created_at, codes, applied, connected, channel>> /\ Now' = Now
    BY <1>1 DEF ChooseDestination, link, Now
  <2>4. Now <= created_at + Latest /\ Now <= Now + Gather
    BY <2>2, GoodTypes, HourHasRoom DEF GoodDay, OnTime
  <2>5. pc["sender"] \notin {"connecting", "open", "preparing"}
    BY <2>2 DEF GoodDay, Paired, CodesShown
  <2>6. OnTime' /\ Together'
    BY <2>2, <2>3, <2>4 DEF GoodDay, OnTime, Together, ReceiverPC
  <2>7. CodesShown' /\ Paired' /\ Linked'
    BY <2>2, <2>3, <2>5 DEF GoodDay, CodesShown, Paired, Linked
  <2> QED BY <2>6, <2>7 DEF GoodDay
<1>2. CASE ShowAnswer
  <2>1. /\ Goes("receiver", "answering", "waiting") /\ codes' = codes \cup {Answer}
        /\ UNCHANGED <<clock, created_at, applied, connected, channel>> /\ Now' = Now
    BY <1>2 DEF ShowAnswer, link, Now
  <2>2. /\ pc["receiver"] = "answering" /\ pc'["receiver"] = "waiting"
        /\ pc'["sender"] = pc["sender"] /\ since' \in [Side -> Nat]
        /\ since'["receiver"] = Now /\ since'["sender"] = since["sender"]
    BY <2>1, GoodTypes, GoesFacts
  <2>3. Now <= created_at + Latest + Gather /\ Now <= Now + Carry
    <3>1. since["receiver"] <= created_at + Latest /\ Now <= since["receiver"] + Gather
      BY <2>2 DEF GoodDay, OnTime
    <3>2. since["receiver"] \in Nat
      BY GoodTypes
    <3> QED BY <3>1, <3>2, GoodTypes, HourHasRoom
  <2>4. Answer.bucket = Bucket(Now) /\ Bucket(Now) \in Nat
    BY GoodTypes, BucketMonotonic DEF Answer
  <2>5. pc["sender"] \notin {"connecting", "open", "preparing"}
    BY <2>2 DEF GoodDay, Paired, CodesShown
  <2>6. OnTime' /\ Together'
    BY <2>1, <2>2, <2>3 DEF GoodDay, OnTime, Together, ReceiverPC
  <2>7. CodesShown'
    BY <2>1, <2>2, <2>4, <2>5 DEF GoodDay, CodesShown
  <2>8. Paired' /\ Linked'
    BY <2>1, <2>2, <2>5 DEF GoodDay, Paired, Linked
  <2> QED BY <2>6, <2>7, <2>8 DEF GoodDay
<1> QED BY <1>1, <1>2

(* The channel arrives and opens. *)
LEMMA GoodReceiverOpens ==
    ASSUME IInv, GoodDay, ChannelArrives \/ ReceiverOpens
    PROVE  GoodDay'
<1>1. PICK from \in {"waiting", "opening"}, to \in {"opening", "open"} :
          /\ Goes("receiver", from, to)
          /\ \/ from = "waiting" /\ to = "opening" /\ channel # "none"
             \/ from = "opening" /\ to = "open" /\ channel = "open"
  BY DEF ChannelArrives, ReceiverOpens
<1>2. /\ pc["receiver"] = from /\ pc'["receiver"] = to
      /\ pc'["sender"] = pc["sender"] /\ since' \in [Side -> Nat]
      /\ since'["receiver"] = Now /\ since'["sender"] = since["sender"]
  BY <1>1, GoodTypes, GoesFacts
<1>3. UNCHANGED <<clock, created_at, codes, applied, connected, channel>> /\ Now' = Now
  BY DEF ChannelArrives, ReceiverOpens, link, Now
<1>4. pc["sender"] # "preparing"
  BY <1>1, <1>2 DEF GoodDay, CodesShown
<1>5. OnTime' /\ Together'
  BY <1>1, <1>2, <1>3 DEF GoodDay, OnTime, Together, ReceiverPC
<1>6. CodesShown' /\ Paired' /\ Linked'
  BY <1>1, <1>2, <1>3, <1>4 DEF GoodDay, CodesShown, Paired, Linked
<1> QED BY <1>5, <1>6 DEF GoodDay

(* The link comes up. *)
LEMMA GoodLink ==
    ASSUME IInv, GoodDay, LinkUp
    PROVE  GoodDay'
<1>1. UNCHANGED <<clock, pc, since, created_at, codes, applied>> /\ Now' = Now
  BY DEF LinkUp, Now
<1>2. Linked'
  BY <1>1 DEF LinkUp, Matched, GoodDay, Linked
<1> QED BY <1>1, <1>2 DEF GoodDay, Together, OnTime, CodesShown, Paired

(* So every day that begins well stays so. *)
LEMMA GoodStep == IInv /\ GoodInv /\ [Next]_vars => GoodInv'
<1> SUFFICES ASSUME IInv, GoodDay, good_day, good_day' = good_day,
                    PromptStep \/ UNCHANGED steps
             PROVE  GoodDay'
  BY DEF Next, vars, GoodInv
<1>1. CASE UNCHANGED steps
  BY <1>1 DEF steps, GoodDay, Together, OnTime, CodesShown, Paired, Linked, Now
<1>2. CASE Prompt /\ Tick
  BY <1>2, GoodTick
<1>3. CASE PromptPaste
  BY <1>3, GoodOffer, GoodAnswer DEF PromptPaste
<1> QED BY <1>1, <1>2, <1>3, GoodTimeouts, GoodSender, GoodReceiverAnswers, GoodReceiverOpens,
        GoodLink DEF PromptStep

(***************************************************************************)
(* CarriedInTime, for every instance: on a good day no side gives up,      *)
(* wherever in the hour it begins and however the hour, the two minutes    *)
(* and the time to carry are chosen.                                       *)
(***************************************************************************)
THEOREM AlwaysCarriedInTime == Spec => []CarriedInTime
<1>1. GoodInv => CarriedInTime
  BY DEF GoodInv, GoodDay, Together, CarriedInTime, Side
<1> QED BY <1>1, GoodInitially, GoodStep, ExchangeInvariant, PTL DEF Spec
=============================================================================
