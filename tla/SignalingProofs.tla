---------------------------- MODULE SignalingProofs ----------------------------
(***************************************************************************)
(* Three facts about how a pair finds its path, for any candidates,        *)
(* windows, losses, relays and retries: what a peer connection is told is  *)
(* in turn; on a good day, windows with room for gathering and for what is *)
(* lost are long enough; and what a program has published a relay has.     *)
(***************************************************************************)
EXTENDS P2PSignaling, NostrClient, FiniteSetTheorems, TLAPS

-----------------------------------------------------------------------------
(* Descriptions and candidates *)

(* The receiver makes its peer connection between these two.  The sender   *)
(* has one from the start; whether it is described, answer_set tells.      *)
Searching == {"fetching", "awaiting", "answering"}
Answering == {"publishing", "waiting", "republishing", "opening", "reopening", "open"}

Shapes ==
    /\ DOMAIN pc = Side /\ DOMAIN seen = Side /\ DOMAIN described = Side
    /\ DOMAIN added = Side /\ DOMAIN queued_candidates = Side
    /\ \A s \in Side : described[s] \in Nat
ReceiverDescribes ==
    /\ pc["receiver"] \in Searching => described["receiver"] = 0
    /\ pc["receiver"] \in Answering => described["receiver"] > 0
TurnInv == Shapes /\ ReceiverDescribes /\ CandidatesInTurn

(* The invariant, one side at a time. *)
InTurn(s) ==
    /\ described[s] <= 1
    /\ added[s] # {} => described[s] > 0
    /\ \A e \in seen[s] :
           e.kind # "sdp" =>
               e.kind \in IF described[s] > 0 THEN added[s] ELSE queued_candidates[s]

(* A side is as it was when nothing of its peer connection changed.        *)
LEMMA TurnKept ==
    ASSUME TurnInv, UNCHANGED <<seen, peervars>>,
           DOMAIN pc' = Side,
           \/ pc'["receiver"] \notin Searching \cup Answering
           \/ pc["receiver"] \in Searching /\ pc'["receiver"] \in Searching
           \/ pc["receiver"] \in Answering /\ pc'["receiver"] \in Answering
    PROVE  TurnInv'
BY DEF TurnInv, Shapes, ReceiverDescribes, CandidatesInTurn, peervars, Searching, Answering

(* Steps of the sender that do not handle a signal. *)
LEMMA TurnSenderPC ==
    ASSUME TurnInv, UNCHANGED <<seen, peervars>>, NEW to, pc' = [pc EXCEPT !["sender"] = to]
    PROVE  TurnInv'
<1>1. DOMAIN pc' = Side /\ pc'["receiver"] = pc["receiver"]
  BY DEF TurnInv, Shapes, Side
<1> QED BY <1>1 DEF TurnInv, Shapes, ReceiverDescribes, CandidatesInTurn, peervars

(* Describe, on a side that is not: what was queued is added, all of it.   *)
LEMMA DescribedInTurn ==
    ASSUME TurnInv, NEW s \in Side, described[s] = 0, Describe(s),
           NEW e, e.kind = "sdp", DOMAIN seen' = Side,
           \A t \in Side : seen'[t] \in {seen[t], seen[t] \cup {e}},
           \A t \in Side : t # s => seen'[t] = seen[t]
    PROVE  /\ CandidatesInTurn' /\ described'[s] = 1
           /\ \A t \in Side : t # s => described'[t] = described[t]
           /\ DOMAIN described' = Side /\ DOMAIN added' = Side
           /\ DOMAIN queued_candidates' = Side
<1>1. /\ described'[s] = 1 /\ added'[s] = added[s] \cup queued_candidates[s]
      /\ \A t \in Side : t # s =>
             /\ described'[t] = described[t] /\ added'[t] = added[t]
             /\ queued_candidates'[t] = queued_candidates[t]
  BY DEF Describe, TurnInv, Shapes
<1>2. InTurn(s)'
  <2>1. \A f \in seen[s] : f.kind # "sdp" => f.kind \in queued_candidates[s]
    BY DEF TurnInv, CandidatesInTurn
  <2> QED BY <1>1, <2>1 DEF InTurn
<1>3. ASSUME NEW t \in Side, t # s PROVE InTurn(t)'
  BY <1>1, <1>3 DEF InTurn, TurnInv, CandidatesInTurn
<1> QED BY <1>1, <1>2, <1>3 DEF InTurn, CandidatesInTurn, Describe, TurnInv, Shapes

(* A candidate goes where it belongs. *)
LEMMA CandidateInTurn ==
    ASSUME TurnInv, NEW s \in Side, NEW e, e.kind # "sdp",
           seen' = [seen EXCEPT ![s] = @ \cup {e}],
           \/ described[s] > 0 /\ Add(s, e.kind)
           \/ ~(described[s] > 0) /\ Enqueue(s, e.kind),
           pc' = pc
    PROVE  TurnInv'
<1>1. described' = described /\ DOMAIN added' = Side /\ DOMAIN queued_candidates' = Side
      /\ DOMAIN seen' = Side
  BY DEF Add, Enqueue, TurnInv, Shapes
<1>2. ASSUME NEW t \in Side, t # s PROVE InTurn(t)'
  BY <1>2 DEF InTurn, TurnInv, CandidatesInTurn, Add, Enqueue, Shapes
<1>3. InTurn(s)'
  <2>1. seen'[s] = seen[s] \cup {e}
    BY DEF TurnInv, Shapes
  <2>2. CASE described[s] > 0
    <3>1. added'[s] = added[s] \cup {e.kind}
      BY <2>2 DEF Add, TurnInv, Shapes
    <3> QED BY <1>1, <2>1, <2>2, <3>1 DEF InTurn, TurnInv, CandidatesInTurn
  <2>3. CASE ~(described[s] > 0)
    <3>1. queued_candidates'[s] = queued_candidates[s] \cup {e.kind} /\ added' = added
      BY <2>3 DEF Enqueue, TurnInv, Shapes
    <3> QED BY <1>1, <2>1, <2>3, <3>1 DEF InTurn, TurnInv, CandidatesInTurn
  <2> QED BY <2>2, <2>3
<1> QED BY <1>1, <1>2, <1>3 DEF InTurn, CandidatesInTurn, TurnInv, Shapes, ReceiverDescribes

(* Nothing is seen, described or added at first. *)
LEMMA TurnInitially == Init => TurnInv
BY DEF Init, TurnInv, Shapes, ReceiverDescribes, CandidatesInTurn, Side, Searching, Answering

(* The sender describes itself with the first answer and no other, while   *)
(* it fetches or waits.                                                    *)
LEMMA TurnSender ==
    ASSUME TurnInv, SenderStep
    PROVE  TurnInv'
<1> USE DEF Goes
<1>1. CASE PublishOffer \/ OfferPublished \/ SenderFetched \/ SenderTimesOut
  <2>1. PICK to : pc' = [pc EXCEPT !["sender"] = to]
    BY <1>1 DEF PublishOffer, OfferPublished, SenderFetched, SenderTimesOut
  <2> QED BY <1>1, <2>1, TurnSenderPC
          DEF PublishOffer, OfferPublished, SenderFetched, SenderTimesOut
<1>2. CASE \E e \in Incoming("sender") : HandleSenderSignal(e)
  <2>1. PICK e : HandleSenderSignal(e)
    BY <1>2
  <2>2. seen' = [seen EXCEPT !["sender"] = @ \cup {e}]
    BY <2>1 DEF HandleSenderSignal, Sees
  <2>3. DOMAIN seen' = Side
    BY <2>2 DEF TurnInv, Shapes
  <2>4. /\ seen'["sender"] = seen["sender"] \cup {e}
        /\ \A t \in Side : t # "sender" => seen'[t] = seen[t]
    BY <2>2 DEF TurnInv, Shapes, Side
  <2>5. CASE e.kind = "sdp" /\ ~answer_set
    <3>1. TakeAnswer
      BY <2>1, <2>5 DEF HandleSenderSignal, OnAnswer
    <3>2. described["sender"] = 0 /\ Describe("sender")
      BY <2>5, <3>1 DEF TakeAnswer, answer_set, TurnInv, Shapes, Side
    <3>3. /\ CandidatesInTurn' /\ described'["sender"] = 1
          /\ \A t \in Side : t # "sender" => described'[t] = described[t]
          /\ DOMAIN described' = Side /\ DOMAIN added' = Side
          /\ DOMAIN queued_candidates' = Side
      BY <2>3, <2>4, <2>5, <3>2, DescribedInTurn DEF Side
    <3>4. DOMAIN pc' = Side /\ pc'["receiver"] = pc["receiver"]
      BY <3>1 DEF TakeAnswer, TurnInv, Shapes, Side
    <3> QED BY <2>3, <3>3, <3>4 DEF TurnInv, Shapes, ReceiverDescribes, Side
  <2>6. CASE e.kind = "sdp" /\ answer_set
    <3>1. UNCHANGED <<pc, peervars>>
      BY <2>1, <2>6 DEF HandleSenderSignal, OnAnswer
    <3>2. \A t \in Side : \A f \in seen'[t] : f.kind # "sdp" => f \in seen[t]
      BY <2>4, <2>6
    <3> QED BY <2>3, <3>1, <3>2
            DEF TurnInv, Shapes, ReceiverDescribes, CandidatesInTurn, peervars
  <2>7. CASE e.kind # "sdp"
    <3>1. OnSenderCandidate(e.kind) /\ UNCHANGED pc
      BY <2>1, <2>7 DEF HandleSenderSignal
    <3> QED BY <2>2, <2>7, <3>1, CandidateInTurn DEF OnSenderCandidate, answer_set, Side
  <2> QED BY <2>5, <2>6, <2>7
<1> QED BY <1>1, <1>2 DEF SenderStep

(* The receiver queues until it makes its peer connection and describes it *)
(* with the offer, which it does once.                                     *)
LEMMA TurnReceiver ==
    ASSUME TurnInv, ReceiverStep
    PROVE  TurnInv'
<1> USE DEF Goes
<1>1. CASE ReceiverFetched \/ AnswerPublished \/ ReceiverTimesOut \/ ChannelArrives
  <2>1. UNCHANGED <<seen, peervars>>
    BY <1>1 DEF ReceiverFetched, AnswerPublished, ReceiverTimesOut, ChannelArrives
  <2>2. /\ DOMAIN pc' = Side
        /\ \/ pc'["receiver"] \notin Searching \cup Answering
           \/ pc["receiver"] \in Searching /\ pc'["receiver"] \in Searching
           \/ pc["receiver"] \in Answering /\ pc'["receiver"] \in Answering
    BY <1>1 DEF ReceiverFetched, AnswerPublished, ReceiverTimesOut, ChannelArrives, TurnInv,
       Shapes, Side, Searching, Answering
  <2> QED BY <2>1, <2>2, TurnKept
<1>2. CASE PublishAnswer
  <2>1. /\ described["receiver"] = 0 /\ Describe("receiver") /\ UNCHANGED seen
        /\ DOMAIN pc' = Side /\ pc'["receiver"] = "publishing"
    BY <1>2 DEF PublishAnswer, TurnInv, Shapes, ReceiverDescribes, Side, Searching
  <2>2. /\ CandidatesInTurn' /\ described'["receiver"] = 1
        /\ \A t \in Side : t # "receiver" => described'[t] = described[t]
        /\ DOMAIN described' = Side /\ DOMAIN added' = Side
        /\ DOMAIN queued_candidates' = Side
    <3> DEFINE offer == [kind |-> "sdp"]
    <3>1. offer.kind = "sdp" /\ DOMAIN seen' = Side
      BY <2>1 DEF TurnInv, Shapes
    <3> HIDE DEF offer
    <3> QED BY <2>1, <3>1, DescribedInTurn DEF Side
  <2> QED BY <2>1, <2>2 DEF TurnInv, Shapes, ReceiverDescribes, Side, Searching
<1>3. CASE \E e \in Incoming("receiver") : HandlePreOfferSignal(e)
  <2>1. PICK e : HandlePreOfferSignal(e)
    BY <1>3
  <2>2. /\ seen' = [seen EXCEPT !["receiver"] = @ \cup {e}]
        /\ described["receiver"] = 0
    BY <2>1 DEF HandlePreOfferSignal, Sees, TurnInv, ReceiverDescribes, Searching
  <2>3. CASE e.kind # "sdp"
    <3>1. pc' = pc /\ Enqueue("receiver", e.kind)
      BY <2>1, <2>3 DEF HandlePreOfferSignal
    <3>2. ~(described["receiver"] > 0) /\ "receiver" \in Side
      BY <2>2 DEF Side
    <3> QED BY <2>2, <2>3, <3>1, <3>2, CandidateInTurn
  <2>4. CASE e.kind = "sdp"
    <3>1. DOMAIN seen' = Side
          /\ \A t \in Side : \A f \in seen'[t] : f.kind # "sdp" => f \in seen[t]
      BY <2>2, <2>4 DEF TurnInv, Shapes
    <3>2. UNCHANGED peervars /\ DOMAIN pc' = Side /\ pc'["receiver"] \in Searching
      BY <2>1, <2>4 DEF HandlePreOfferSignal, TurnInv, Shapes, Side, Searching
    <3> QED BY <2>2, <3>1, <3>2
            DEF TurnInv, Shapes, ReceiverDescribes, CandidatesInTurn, peervars, Searching,
                Answering
  <2> QED BY <2>3, <2>4
<1>4. CASE \E e \in Incoming("receiver") : HandleReceiverCandidate(e)
  <2>1. PICK e : HandleReceiverCandidate(e)
    BY <1>4
  <2>2. /\ seen' = [seen EXCEPT !["receiver"] = @ \cup {e}]
        /\ described["receiver"] > 0 /\ pc' = pc
    BY <2>1 DEF HandleReceiverCandidate, Sees, TurnInv, ReceiverDescribes, Answering
  <2>3. CASE e.kind # "sdp"
    BY <2>1, <2>2, <2>3, CandidateInTurn DEF HandleReceiverCandidate, Side
  <2>4. CASE e.kind = "sdp"
    <3>1. DOMAIN seen' = Side
          /\ \A t \in Side : \A f \in seen'[t] : f.kind # "sdp" => f \in seen[t]
      BY <2>2, <2>4 DEF TurnInv, Shapes
    <3>2. UNCHANGED peervars
      BY <2>1, <2>4 DEF HandleReceiverCandidate
    <3> QED BY <2>2, <3>1, <3>2
            DEF TurnInv, Shapes, ReceiverDescribes, CandidatesInTurn, peervars
  <2> QED BY <2>3, <2>4
<1> QED BY <1>1, <1>2, <1>3, <1>4 DEF ReceiverStep

(* Relays, clocks and the link change nothing of a peer connection; what   *)
(* both sides do alike leaves the receiver with or without one.            *)
LEMMA TurnOther ==
    ASSUME TurnInv,
           \/ Tick \/ LinkUp \/ UNCHANGED steps
           \/ \E e \in relay : RelayLoses(e)
           \/ \E s \in Side : \/ RelayAccepts(s) \/ Republish(s) \/ Republished(s)
                              \/ Open(s) \/ Fails(s)
    PROVE  TurnInv'
<1>1. UNCHANGED <<seen, peervars>>
  BY DEF Tick, LinkUp, steps, RelayLoses, RelayAccepts, Republish, Republished, Open, Fails
<1>2. /\ DOMAIN pc' = Side
      /\ \/ pc'["receiver"] = pc["receiver"]
         \/ pc'["receiver"] \notin Searching \cup Answering
         \/ pc["receiver"] \in Answering /\ pc'["receiver"] \in Answering
  BY DEF Tick, LinkUp, steps, RelayLoses, RelayAccepts, Republish, Republished, Open, Fails,
     Goes, TurnInv, Shapes, Side, Searching, Answering
<1> QED BY <1>1, <1>2, TurnKept

(* CandidatesInTurn: for any candidates, publications and orders.          *)
THEOREM AlwaysInTurn == Spec => []CandidatesInTurn
<1>1. TurnInv /\ [Next]_vars => TurnInv'
  BY TurnSender, TurnReceiver, TurnOther DEF Next, Steps, PromptTick, vars
<1>2. TurnInv => CandidatesInTurn
  BY DEF TurnInv
<1> QED BY <1>1, <1>2, TurnInitially, PTL DEF Spec

-----------------------------------------------------------------------------
(* Good days: the inductive invariant *)

Sdp(s, n) == [from |-> s, kind |-> "sdp", round |-> n]

(* The publications of a side whose description no relay has any more.     *)
Missed(s) == {n \in 1 .. round[s] : Sdp(s, n) \notin relay \cup pending[s]}
Misses(s) == Cardinality(Missed(s))
LossInv ==
    /\ \A s \in Side : Misses(s) \in Nat
    /\ Misses("sender") + Misses("receiver") <= lost
    /\ lost \in 0 .. MaxLoss

DayTypes ==
    /\ now \in Nat /\ DOMAIN pending = Side
    /\ due \in [Side -> Nat] /\ retry \in [Side -> Nat]
    /\ gathered \in [Side -> Nat] /\ round \in [Side -> Nat]
    /\ pc["sender"] \in SenderPC \ {"failed"} /\ pc["receiver"] \in ReceiverPC \ {"failed"}

(* Where the sides are, and what they know there. *)
Publishing == {"publishing", "republishing", "reopening"}
Places ==
    /\ \A s \in Side : pc[s] \notin Publishing => pending[s] = {}
    /\ \A s \in Side : \A e \in pending[s] : e.from = s
    /\ pc["sender"] = "creating" =>
           ~offer_sdp /\ round["sender"] = 0 /\ \A e \in relay : e.from # "sender"
    /\ pc["receiver"] \in Searching =>
           ~answer_set /\ round["receiver"] = 0 /\ \A e \in relay : e.from # "receiver"
    /\ pc["receiver"] = "awaiting" => ~offer_sdp
    /\ pc["receiver"] \notin {"fetching", "awaiting"} => offer_sdp
    /\ pc["sender"] \in {"creating", "publishing", "waiting", "republishing"} => ~answer_set
    /\ pc["sender"] \in {"opening", "open"} => answer_set
    /\ channel => answer_set
    /\ pc["receiver"] \in {"opening", "reopening", "open"} \/ pc["sender"] = "open" => channel
    /\ \A e \in seen["receiver"] : e.kind = "sdp" => offer_sdp
    /\ \A e \in seen["sender"] : e.kind = "sdp" => answer_set

(* How late it can be there: a side publishes for the nth time after n - 1 *)
(* intervals, and waits for one more only if the first n were lost.        *)
Span(n) == n * Retry
Offered == Gather + Span(Misses("sender"))
SenderTimes ==
    /\ pc["sender"] = "creating" => gathered["sender"] = Gather /\ now <= Gather
    /\ pc["sender"] \in {"publishing", "fetching"} => now <= Gather /\ round["sender"] = 1
    /\ pc["sender"] = "waiting" =>
           now <= retry["sender"] /\ retry["sender"] <= Gather + Span(round["sender"])
    /\ pc["sender"] = "republishing" =>
           now + Retry <= retry["sender"] /\ retry["sender"] <= Gather + Span(round["sender"])
ReceiverTimes ==
    /\ pc["receiver"] = "fetching" => now = 0
    /\ ~offer_sdp => now <= Offered
    /\ pc["receiver"] = "answering" =>
           now <= gathered["receiver"] /\ gathered["receiver"] <= Offered + Gather
    /\ pc["receiver"] = "publishing" => now <= Offered + Gather /\ round["receiver"] = 1
    /\ pc["receiver"] = "waiting" =>
           /\ now <= retry["receiver"]
           /\ retry["receiver"] <= Offered + Gather + Span(round["receiver"])
    /\ pc["receiver"] = "republishing" =>
           /\ now + Retry <= retry["receiver"]
           /\ retry["receiver"] <= Offered + Gather + Span(round["receiver"])
InWindow ==
    /\ \A s \in Side : due[s] >= Window
    /\ (\A s \in Side : pc[s] = "open") \/ now <= 2 * Gather + Span(lost)

DayInv == DayTypes /\ LossInv /\ Places /\ SenderTimes /\ ReceiverTimes /\ InWindow

-----------------------------------------------------------------------------
(* Good days: publications and losses *)

(* Intervals add up, and the window has room for all that are lost. *)
LEMMA Spans ==
    /\ \A n \in Nat : Span(n) \in Nat /\ Span(n + 1) = Span(n) + Retry
    /\ \A m, n \in Nat : m <= n => Span(m) <= Span(n)
    /\ \A m, n \in Nat : Span(m + n) = Span(m) + Span(n)
    /\ Span(0) = 0
    /\ 2 * Gather + Span(MaxLoss) < Window
<1>0. Retry \in Nat /\ Gather \in Nat /\ MaxLoss \in Nat /\ Window \in Nat
  BY SignalingAssumption
<1>1. ASSUME NEW a \in Nat, NEW n \in Nat, NEW m \in Nat
      PROVE  n * a \in Nat /\ (n + 1) * a = n * a + a /\ (m + n) * a = m * a + n * a
  OBVIOUS
<1>2. ASSUME NEW a \in Nat, NEW n \in Nat, NEW m \in Nat, m <= n
      PROVE  m * a <= n * a
  <2>1. (n - m) * a \in Nat /\ n * a = m * a + (n - m) * a
    BY <1>2
  <2>2. m * a \in Nat
    OBVIOUS
  <2> QED BY <2>1, <2>2
<1>3. 2 * Gather + MaxLoss * Retry < Window
  BY RoomAssumption
<1> QED BY <1>0, <1>1, <1>2, <1>3 DEF Span

(* Misses can be counted. *)
LEMMA MissedFinite ==
    ASSUME NEW s \in Side, round \in [Side -> Nat]
    PROVE  IsFiniteSet(Missed(s)) /\ Misses(s) \in Nat
<1>1. IsFiniteSet(1 .. round[s])
  BY FS_Interval
<1>2. Missed(s) \subseteq 1 .. round[s]
  BY DEF Missed
<1> QED BY <1>1, <1>2, FS_Subset, FS_CardinalityType DEF Misses

(* When every publication is missed, there are as many misses.             *)
LEMMA AllMissed ==
    ASSUME NEW s \in Side, round \in [Side -> Nat], Missed(s) = 1 .. round[s]
    PROVE  Misses(s) = round[s]
<1>1. Cardinality(1 .. round[s]) = round[s]
  BY FS_Interval
<1> QED BY <1>1 DEF Misses

(* What was missed stays missed, and what is missed more is lost. *)
LossesGrow ==
    /\ LossInv' /\ lost <= lost'
    /\ \A s \in Side : Misses(s) \in Nat /\ Misses(s)' \in Nat /\ Misses(s) <= Misses(s)'

(* A step that moves no event into or out of the relays misses nothing. *)
LEMMA LossKept ==
    ASSUME DayTypes, LossInv, lost' = lost, \A s \in Side : Missed(s)' = Missed(s)
    PROVE  LossesGrow
<1>1. \A s \in Side : Misses(s)' = Misses(s) /\ Misses(s) \in Nat
  BY DEF LossInv, Misses
<1>2. Misses("sender")' = Misses("sender") /\ Misses("receiver")' = Misses("receiver")
  BY <1>1 DEF Side
<1>3. lost' = lost /\ lost \in Nat /\ lost \in 0 .. MaxLoss
      /\ Misses("sender") + Misses("receiver") <= lost
  BY SignalingAssumption DEF LossInv
<1>4. LossInv'
  BY <1>1, <1>2, <1>3 DEF LossInv
<1> QED BY <1>1, <1>3, <1>4 DEF LossesGrow

(* A new publication is not missed. *)
LEMMA LossPublish ==
    ASSUME DayTypes, LossInv, NEW s \in Side, pending[s] = {}, Publish(s)
    PROVE  LossesGrow
<1>1. /\ round' = [round EXCEPT ![s] = @ + 1]
      /\ pending' = [pending EXCEPT ![s] = Bundle(s, round[s] + 1)]
      /\ relay' = relay /\ lost' = lost
  BY DEF Publish
<1>2. ASSUME NEW o \in Side, o # s PROVE Missed(o)' = Missed(o)
  BY <1>1, <1>2 DEF Missed, DayTypes
<1>3. Missed(s)' = Missed(s)
  <2> DEFINE n == round[s]
  <2>1. n \in Nat /\ round'[s] = n + 1 /\ pending'[s] = Bundle(s, n + 1)
    BY <1>1 DEF DayTypes
  <2>2. Sdp(s, n + 1) \in pending'[s]
    BY <2>1 DEF Sdp, Bundle
  <2>3. \A m \in 1 .. n : Sdp(s, m) \notin pending'[s]
    <3>1. \A e \in pending'[s] : e.round = n + 1
      BY <2>1 DEF Bundle
    <3>2. \A m : Sdp(s, m).round = m
      BY DEF Sdp
    <3>3. \A m \in 1 .. n : m # n + 1
      BY <2>1
    <3> QED BY <3>1, <3>2, <3>3
  <2>4. \A m : m \in 1 .. n + 1 <=> m \in 1 .. n \/ m = n + 1
    BY <2>1
  <2>5. Missed(s)' = {m \in 1 .. n + 1 : Sdp(s, m) \notin relay \cup pending'[s]}
    BY <1>1, <2>1 DEF Missed
  <2>6. Missed(s) = {m \in 1 .. n : Sdp(s, m) \notin relay}
    BY DEF Missed
  <2> HIDE DEF n
  <2> QED BY <2>2, <2>3, <2>4, <2>5, <2>6
<1> QED BY <1>1, <1>2, <1>3, LossKept

(* Nor is what a relay accepts. *)
LEMMA LossAccept ==
    ASSUME DayTypes, LossInv, Places, NEW s \in Side, RelayAccepts(s)
    PROVE  LossesGrow
<1>1. PICK e \in pending[s] :
          pending' = [pending EXCEPT ![s] = @ \ {e}] /\ relay' = relay \cup {e}
  BY DEF RelayAccepts
<1>2. e.from = s /\ round' = round /\ lost' = lost
  BY DEF Places, RelayAccepts
<1>3. ASSUME NEW o \in Side PROVE Missed(o)' = Missed(o)
  <2>1. CASE o = s
    BY <1>1, <1>2, <2>1 DEF Missed, DayTypes
  <2>2. CASE o # s
    <3>1. \A n : Sdp(o, n) # e
      BY <1>2, <2>2 DEF Sdp
    <3> QED BY <1>1, <1>2, <2>2, <3>1 DEF Missed, DayTypes
  <2> QED BY <2>1, <2>2
<1> QED BY <1>2, <1>3, LossKept

(* Of an event that is lost one publication at most is missed. *)
LEMMA LossLose ==
    ASSUME DayTypes, LossInv, NEW e \in relay, RelayLoses(e)
    PROVE  LossesGrow
<1>1. /\ relay' = relay \ {e} /\ lost' = lost + 1 /\ lost < MaxLoss
      /\ pending' = pending /\ round' = round
  BY DEF RelayLoses
<1>2. round \in [Side -> Nat] /\ round' \in [Side -> Nat] /\ lost' \in 0 .. MaxLoss /\ lost \in Nat
  BY <1>1, SignalingAssumption DEF DayTypes, LossInv
<1>3. ASSUME NEW s \in Side
      PROVE  /\ Missed(s) \subseteq Missed(s)' /\ Misses(s) \in Nat /\ Misses(s)' \in Nat
             /\ Misses(s) <= Misses(s)' /\ Misses(s)' <= Misses(s) + 1
             /\ e # Sdp(s, e.round) => Misses(s)' = Misses(s)
  <2>1. Missed(s) \subseteq Missed(s)'
    BY <1>1 DEF Missed
  <2>2. Missed(s)' \subseteq Missed(s) \cup {e.round}
    <3>1. ASSUME NEW n \in 1 .. round[s], e = Sdp(s, n) PROVE n = e.round
      BY <3>1 DEF Sdp
    <3> QED BY <1>1, <3>1 DEF Missed
  <2>3. e # Sdp(s, e.round) => Missed(s)' = Missed(s)
    <3>1. ASSUME e # Sdp(s, e.round), NEW n \in 1 .. round[s] PROVE e # Sdp(s, n)
      BY <3>1 DEF Sdp
    <3> QED BY <1>1, <3>1 DEF Missed
  <2>4. IsFiniteSet(Missed(s)) /\ Misses(s) \in Nat
    BY <1>2, MissedFinite
  <2>5. IsFiniteSet(Missed(s) \cup {e.round})
    BY <2>4, FS_AddElement
  <2>6. IsFiniteSet(Missed(s)') /\ Cardinality(Missed(s)') <= Cardinality(Missed(s) \cup {e.round})
    BY <2>2, <2>5, FS_Subset
  <2>7. Cardinality(Missed(s) \cup {e.round}) <= Misses(s) + 1
    <3>1. Cardinality(Missed(s) \cup {e.round}) = IF e.round \in Missed(s)
              THEN Cardinality(Missed(s)) ELSE Cardinality(Missed(s)) + 1
      BY <2>4, FS_AddElement
    <3> QED BY <2>4, <3>1 DEF Misses
  <2>8. Misses(s) <= Cardinality(Missed(s)')
    BY <2>1, <2>6, FS_Subset DEF Misses
  <2>9. Misses(s)' = Cardinality(Missed(s)') /\ Misses(s)' \in Nat
    BY <2>6, FS_CardinalityType DEF Misses
  <2>10. Cardinality(Missed(s) \cup {e.round}) \in Nat
    BY <2>5, FS_CardinalityType
  <2>11. e # Sdp(s, e.round) => Misses(s)' = Misses(s)
    BY <2>3 DEF Misses
  <2> QED BY <2>1, <2>4, <2>6, <2>7, <2>8, <2>9, <2>10, <2>11
<1>4. Misses("sender")' + Misses("receiver")' <= lost'
  <2>1. e # Sdp("sender", e.round) \/ e # Sdp("receiver", e.round)
    BY DEF Sdp
  <2>2. "sender" \in Side /\ "receiver" \in Side
    BY DEF Side
  <2>3. Misses("sender") + Misses("receiver") <= lost
    BY DEF LossInv
  <2>4. /\ Misses("sender") \in Nat /\ Misses("sender")' \in Nat
        /\ Misses("sender")' <= Misses("sender") + 1
        /\ e # Sdp("sender", e.round) => Misses("sender")' = Misses("sender")
    BY <1>3, <2>2
  <2>5. /\ Misses("receiver") \in Nat /\ Misses("receiver")' \in Nat
        /\ Misses("receiver")' <= Misses("receiver") + 1
        /\ e # Sdp("receiver", e.round) => Misses("receiver")' = Misses("receiver")
    BY <1>3, <2>2
  <2> QED BY <1>1, <1>2, <2>1, <2>3, <2>4, <2>5
<1> QED BY <1>1, <1>2, <1>3, <1>4 DEF LossesGrow, LossInv

-----------------------------------------------------------------------------
(* Good days: one side goes on *)

Day == TurnInv /\ DayInv

(* The side that goes on, and the other. *)
LEMMA GoesTo ==
    ASSUME TurnInv, NEW s \in Side, NEW from, NEW to, Goes(s, from, to)
    PROVE  /\ pc[s] = from /\ pc'[s] = to
           /\ \A o \in Side : o # s => pc'[o] = pc[o]
BY DEF Goes, TurnInv, Shapes

(* The time that losses may take grows with them. *)
LEMMA OfferedGrows ==
    ASSUME LossesGrow, lost \in Nat, lost' \in Nat
    PROVE  /\ Offered \in Nat /\ Offered' \in Nat /\ Offered <= Offered'
           /\ Span(lost) \in Nat /\ Span(lost') \in Nat /\ Span(lost) <= Span(lost')
<1>1. /\ Misses("sender") \in Nat /\ Misses("sender")' \in Nat
      /\ Misses("sender") <= Misses("sender")' /\ lost <= lost' /\ Gather \in Nat
  BY SignalingAssumption DEF LossesGrow, Side
<1>2. Span(Misses("sender")) <= Span(Misses("sender")') /\ Span(lost) <= Span(lost')
  BY <1>1, Spans
<1>3. /\ Span(Misses("sender")) \in Nat /\ Span(Misses("sender")') \in Nat
      /\ Span(lost) \in Nat /\ Span(lost') \in Nat
  BY <1>1, Spans
<1>4. Offered' = Gather + Span(Misses("sender")')
  BY DEF Offered, Span
<1> QED BY <1>1, <1>2, <1>3, <1>4 DEF Offered

(* Numbers on a good day. *)
LEMMA DayNumbers ==
    ASSUME Day
    PROVE  /\ now \in Nat /\ Gather \in Nat /\ Retry \in Nat /\ Window \in Nat /\ lost \in Nat
           /\ \A s \in Side : /\ retry[s] \in Nat /\ gathered[s] \in Nat /\ round[s] \in Nat
                              /\ due[s] \in Nat /\ Span(round[s]) \in Nat
           /\ Offered \in Nat /\ "sender" \in Side /\ "receiver" \in Side
<1>1. Misses("sender") \in Nat /\ Gather \in Nat
  BY SignalingAssumption DEF Day, DayInv, LossInv, Side
<1>2. Offered \in Nat
  <2>1. Span(Misses("sender")) \in Nat
    BY <1>1, Spans
  <2> HIDE DEF Span
  <2> QED BY <1>1, <2>1 DEF Offered
<1>3. lost \in Nat
  BY SignalingAssumption DEF Day, DayInv, LossInv
<1>4. \A s \in Side : Span(round[s]) \in Nat
  BY Spans DEF Day, DayInv, DayTypes
<1> QED BY <1>1, <1>2, <1>3, <1>4, SignalingAssumption DEF Day, DayInv, DayTypes, Side

(* While the sender goes on, the receiver is in time, ... *)
LEMMA ReceiverStays ==
    ASSUME Day, LossesGrow, now' = now, offer_sdp' = offer_sdp, lost' \in Nat,
           UNCHANGED <<pc["receiver"], retry["receiver"], gathered["receiver"], round["receiver"]>>
    PROVE  ReceiverTimes'
<1>1. Offered <= Offered' /\ Offered' \in Nat
  BY OfferedGrows, DayNumbers
<1>2. /\ now \in Nat /\ Gather \in Nat /\ retry["receiver"] \in Nat
      /\ gathered["receiver"] \in Nat /\ Span(round["receiver"]) \in Nat /\ Offered \in Nat
      /\ Retry \in Nat
  BY DayNumbers
<1>3. Span(round["receiver"])' = Span(round["receiver"])
  BY DEF Span
<1>4. ReceiverTimes
  BY DEF Day, DayInv
<1>5. pc["receiver"] = "fetching" => now' = 0
  BY <1>4 DEF ReceiverTimes
<1>6. ~offer_sdp => now' <= Offered'
  BY <1>1, <1>2, <1>4 DEF ReceiverTimes
<1>7. pc["receiver"] = "answering" =>
          now' <= gathered["receiver"] /\ gathered["receiver"] <= Offered' + Gather
  BY <1>1, <1>2, <1>4 DEF ReceiverTimes
<1>8. pc["receiver"] = "publishing" => now' <= Offered' + Gather /\ round["receiver"] = 1
  <2>1. pc["receiver"] = "publishing" => now <= Offered + Gather /\ round["receiver"] = 1
    BY <1>4 DEF ReceiverTimes
  <2>2. \A t, a, b, g \in Nat : a <= b /\ t <= a + g => t <= b + g
    OBVIOUS
  <2>3. now <= Offered + Gather => now <= Offered' + Gather
    BY <1>1, <1>2, <2>2
  <2> QED BY <2>1, <2>3
<1>9. pc["receiver"] = "waiting" =>
          /\ now' <= retry["receiver"]
          /\ retry["receiver"] <= Offered' + Gather + Span(round["receiver"])
  BY <1>1, <1>2, <1>4 DEF ReceiverTimes
<1>10. pc["receiver"] = "republishing" =>
          /\ now' + Retry <= retry["receiver"]
          /\ retry["receiver"] <= Offered' + Gather + Span(round["receiver"])
  BY <1>1, <1>2, <1>4 DEF ReceiverTimes
<1> HIDE DEF Span, Offered
<1> QED BY <1>3, <1>5, <1>6, <1>7, <1>8, <1>9, <1>10 DEF ReceiverTimes

(* ... and the other way round. *)
LEMMA SenderStays ==
    ASSUME Day, now' = now,
           UNCHANGED <<pc["sender"], retry["sender"], gathered["sender"], round["sender"]>>
    PROVE  SenderTimes'
BY DEF SenderTimes, Day, DayInv, Span

(* The windows are as long as before. *)
LEMMA WindowsStay ==
    ASSUME Day, LossesGrow, now' = now, lost' \in Nat, \A s \in Side : due'[s] >= Window,
           \A s \in Side : pc[s] = "open" => pc'[s] = "open"
    PROVE  InWindow'
<1>1. /\ Span(lost) \in Nat /\ Span(lost') \in Nat /\ Span(lost) <= Span(lost')
      /\ Span(lost') = Span(lost)'
  BY OfferedGrows, DayNumbers DEF Span
<1>2. InWindow
  BY DEF Day, DayInv
<1> HIDE DEF Span
<1>3. now \in Nat /\ Gather \in Nat
  BY DayNumbers
<1>4. pc["sender"] = "open" /\ pc["receiver"] = "open" =>
          pc'["sender"] = "open" /\ pc'["receiver"] = "open"
  BY DEF Side
<1>5. now <= 2 * Gather + Span(lost) => now' <= 2 * Gather + Span(lost)'
  BY <1>1, <1>3
<1> QED BY <1>2, <1>4, <1>5 DEF InWindow

(* Until both are done, no window is over. *)
LEMMA NothingOver ==
    ASSUME Day, NEW s \in Side, pc["sender"] # "open" \/ pc["receiver"] # "open"
    PROVE  ~Over(s)
<1>1. now <= 2 * Gather + Span(lost) /\ due[s] >= Window
  BY DEF Day, DayInv, InWindow, Side
<1>2. Span(lost) <= Span(MaxLoss) /\ Span(lost) \in Nat /\ Span(MaxLoss) \in Nat
  BY Spans, SignalingAssumption DEF Day, DayInv, LossInv
<1>3. 2 * Gather + Span(MaxLoss) < Window
  BY Spans
<1>4. now < due[s]
  BY <1>1, <1>2, <1>3, DayNumbers
<1> QED BY <1>4, DayNumbers DEF Over

-----------------------------------------------------------------------------
(* Good days: the steps of the sender *)

(* What a step of the sender leaves alone. *)
SenderAlone ==
    /\ now' = now /\ offer_sdp' = offer_sdp
    /\ UNCHANGED <<pc["receiver"], retry["receiver"], gathered["receiver"], round["receiver"],
                   due["receiver"]>>
    /\ due'["sender"] >= Window /\ (pc["sender"] = "open" => pc'["sender"] = "open")

(* Such a step keeps the receiver in time and both in their windows. *)
LEMMA SenderGoesOn ==
    ASSUME Day, LossesGrow, SenderAlone, DayTypes', Places', SenderTimes'
    PROVE  DayInv'
<1>1. lost' \in Nat /\ LossInv'
  BY SignalingAssumption DEF LossesGrow, LossInv
<1>2. ReceiverTimes'
  BY <1>1, ReceiverStays DEF SenderAlone
<1>3. \A s \in Side : due'[s] >= Window /\ (pc[s] = "open" => pc'[s] = "open")
  BY DEF SenderAlone, Side, Day, DayInv, InWindow
<1>4. InWindow'
  BY <1>1, <1>3, WindowsStay DEF SenderAlone
<1> QED BY <1>1, <1>2, <1>4 DEF DayInv

(* The description is handed to the relays within the time to gather. *)
LEMMA DayPublishOffer ==
    ASSUME Day, PublishOffer
    PROVE  DayInv'
<1>1. /\ pc["sender"] = "creating" /\ pc'["sender"] = "publishing"
      /\ pc'["receiver"] = pc["receiver"] /\ Publish("sender")
      /\ UNCHANGED <<now, timers, seen, offer_sdp, peervars, channel>>
  BY GoesTo DEF PublishOffer, Day, Side
<1>2. pending["sender"] = {} /\ LossesGrow
  <2>1. pending["sender"] = {}
    BY <1>1 DEF Day, DayInv, Places, Publishing, Side
  <2> QED BY <1>1, <2>1, LossPublish DEF Day, DayInv, Side
<1>3. /\ round'["sender"] = round["sender"] + 1 /\ round'["receiver"] = round["receiver"]
      /\ pending'["sender"] = Bundle("sender", round["sender"] + 1)
      /\ pending'["receiver"] = pending["receiver"]
      /\ DOMAIN pending' = Side /\ round' \in [Side -> Nat] /\ relay' = relay /\ lost' = lost
  BY <1>1 DEF Publish, Day, DayInv, DayTypes, Side
<1>4. DayTypes'
  BY <1>1, <1>3 DEF Day, DayInv, DayTypes, timers, SenderPC
<1>5. SenderTimes'
  BY <1>1, <1>3 DEF Day, DayInv, SenderTimes, Places
<1>6. Places'
  <2>1. \A e \in pending'["sender"] : e.from = "sender"
    BY <1>3 DEF Bundle
  <2>2. answer_set' = answer_set
    BY <1>1 DEF answer_set, peervars
  <2> QED BY <1>1, <1>3, <2>1, <2>2 DEF Day, DayInv, Places, Publishing, Side, Searching
<1>7. SenderAlone
  BY <1>1, <1>3 DEF SenderAlone, timers, Day, DayInv, InWindow, Side
<1> QED BY <1>2, <1>4, <1>5, <1>6, <1>7, SenderGoesOn

(* Nothing of a bundle or a relay moves. *)
LEMMA LossIdle ==
    ASSUME Day, UNCHANGED <<relay, lost, pending, round>>
    PROVE  LossesGrow
<1>1. \A s \in Side : Missed(s)' = Missed(s)
  BY DEF Missed
<1> QED BY <1>1, LossKept DEF Day, DayInv

(* A bundle is out. *)
LEMMA DayOfferPublished ==
    ASSUME Day, OfferPublished
    PROVE  DayInv'
<1>1. /\ pc["sender"] = "publishing" /\ pc'["sender"] = "fetching"
      /\ pc'["receiver"] = pc["receiver"] /\ pending["sender"] = {}
      /\ UNCHANGED <<now, timers, pubvars, seen, offer_sdp, peervars, channel>>
  BY GoesTo DEF OfferPublished, Day, Side
<1>2. LossesGrow
  BY <1>1, LossIdle DEF pubvars
<1>3. DayTypes'
  BY <1>1 DEF Day, DayInv, DayTypes, timers, pubvars, SenderPC
<1>4. SenderTimes'
  BY <1>1 DEF Day, DayInv, SenderTimes, timers, pubvars
<1>5. Places'
  <2>1. answer_set' = answer_set
    BY <1>1 DEF answer_set, peervars
  <2> QED BY <1>1, <2>1 DEF Day, DayInv, Places, Publishing, Side, Searching, pubvars
<1>6. SenderAlone
  BY <1>1 DEF SenderAlone, timers, pubvars, Day, DayInv, InWindow, Side
<1> QED BY <1>2, <1>3, <1>4, <1>5, <1>6, SenderGoesOn

(* The wait for an answer begins with a full window and one interval. *)
LEMMA DaySenderFetched ==
    ASSUME Day, SenderFetched
    PROVE  DayInv'
<1>1. /\ pc["sender"] = "fetching" /\ pc'["receiver"] = pc["receiver"]
      /\ pc'["sender"] = (IF answer_set THEN "opening" ELSE "waiting")
      /\ UNCHANGED <<now, gathered, pubvars, seen, offer_sdp, peervars, channel>>
  BY GoesTo DEF SenderFetched, Day, Side
<1>2. /\ due' \in [Side -> Nat] /\ due'["sender"] = now + Window /\ due'["receiver"] = due["receiver"]
      /\ retry' \in [Side -> Nat] /\ retry'["sender"] = now + Retry
      /\ retry'["receiver"] = retry["receiver"]
  BY DayNumbers DEF SenderFetched, Day, DayInv, DayTypes, Side
<1>3. LossesGrow
  BY <1>1, LossIdle DEF pubvars
<1>4. DayTypes'
  BY <1>1, <1>2 DEF Day, DayInv, DayTypes, pubvars, SenderPC
<1>5. SenderTimes'
  <2>1. Span(1) = Retry /\ Span(1)' = Span(1)
    BY SignalingAssumption DEF Span
  <2>2. round["sender"] = 1 /\ now <= Gather
    BY <1>1 DEF Day, DayInv, SenderTimes
  <2>3. Span(round["sender"])' = Retry
    BY <1>1, <2>1, <2>2 DEF pubvars, Span
  <2> HIDE DEF Span
  <2>4. now <= now + Retry /\ now + Retry <= Gather + Retry
    BY <2>2, DayNumbers
  <2> QED BY <1>1, <1>2, <2>3, <2>4 DEF SenderTimes
<1>6. Places'
  <2>1. answer_set' = answer_set
    BY <1>1 DEF answer_set, peervars
  <2> QED BY <1>1, <2>1 DEF Day, DayInv, Places, Publishing, Side, Searching, pubvars
<1>7. SenderAlone
  BY <1>1, <1>2, DayNumbers DEF SenderAlone, pubvars, Day, DayInv, InWindow, Side
<1> QED BY <1>3, <1>4, <1>5, <1>6, <1>7, SenderGoesOn

(* No window of the sender is over, nor is its timeout due. *)
LEMMA DaySenderTimesOut ==
    ASSUME Day, SenderTimesOut
    PROVE  FALSE
<1>1. pc["sender"] # "open" /\ Over("sender")
  BY GoesTo DEF SenderTimesOut, SenderWindow, Day, Side, Goes
<1> QED BY <1>1, NothingOver DEF Side

(* The sender is answered by a receiver that has answered; the answer ends *)
(* its wait, whenever it comes.                                            *)
LEMMA DayHandleSenderSignal ==
    ASSUME Day, NEW e, HandleSenderSignal(e)
    PROVE  DayInv'
<1>1. /\ pc["sender"] \in {"fetching", "waiting", "opening"} /\ Sees("sender", e)
      /\ \/ e.kind = "sdp" /\ OnAnswer
         \/ e.kind # "sdp" /\ OnSenderCandidate(e.kind) /\ UNCHANGED <<pc, due>>
      /\ UNCHANGED <<now, retry, gathered, pubvars, offer_sdp, channel>>
  BY DEF HandleSenderSignal
<1>2. pc["receiver"] \notin Searching
  <2>1. e \in relay /\ e.from = "receiver"
    BY <1>1 DEF Sees, Incoming, Peer
  <2> QED BY <2>1 DEF Day, DayInv, Places
<1>3. /\ seen'["sender"] = seen["sender"] \cup {e} /\ seen'["receiver"] = seen["receiver"]
  BY <1>1 DEF Sees, Day, TurnInv, Shapes, Side
<1>4. /\ due' \in [Side -> Nat] /\ due'["receiver"] = due["receiver"] /\ due'["sender"] >= Window
      /\ pc'["receiver"] = pc["receiver"]
      /\ \/ pc'["sender"] = pc["sender"]
         \/ pc["sender"] = "waiting" /\ pc'["sender"] = "opening" /\ e.kind = "sdp"
  <2>1. \/ UNCHANGED <<pc, due>>
        \/ /\ Goes("sender", "waiting", "opening") /\ e.kind = "sdp"
           /\ due' = [due EXCEPT !["sender"] = now + Window]
    BY <1>1 DEF OnAnswer, TakeAnswer
  <2>2. due \in [Side -> Nat] /\ due["sender"] >= Window
    BY DEF Day, DayInv, DayTypes, InWindow, Side
  <2>3. now + Window \in Nat /\ now + Window >= Window
    BY DayNumbers
  <2>4. CASE UNCHANGED <<pc, due>>
    BY <2>2, <2>4 DEF Side
  <2>5. CASE Goes("sender", "waiting", "opening") /\ e.kind = "sdp"
             /\ due' = [due EXCEPT !["sender"] = now + Window]
    BY <2>2, <2>3, <2>5, GoesTo DEF Day, Side
  <2> QED BY <2>1, <2>4, <2>5
<1>5. (answer_set => answer_set') /\ (e.kind = "sdp" => answer_set')
      /\ (e.kind # "sdp" => answer_set' = answer_set)
      /\ (answer_set /\ e.kind = "sdp" => pc'["sender"] = pc["sender"])
  <2>1. described["sender"] \in Nat /\ "sender" \in DOMAIN described
    BY DEF Day, TurnInv, Shapes, Side
  <2>2. ASSUME Describe("sender") PROVE described'["sender"] > 0
    BY <2>1, <2>2 DEF Describe
  <2>3. CASE e.kind = "sdp"
    BY <1>1, <2>2, <2>3 DEF OnAnswer, TakeAnswer, answer_set, peervars
  <2>4. CASE e.kind # "sdp"
    BY <1>1, <2>4 DEF OnSenderCandidate, Add, Enqueue, answer_set
  <2> QED BY <2>3, <2>4
<1>6. LossesGrow
  BY <1>1, LossIdle DEF pubvars
<1>7. DayTypes'
  BY <1>1, <1>4 DEF Day, DayInv, DayTypes, pubvars, SenderPC
<1>8. SenderTimes'
  BY <1>1, <1>4 DEF Day, DayInv, SenderTimes, pubvars, Span
<1>9. Places'
  <2>1. Places /\ pending' = pending /\ round' = round /\ relay' = relay /\ offer_sdp' = offer_sdp
        /\ channel' = channel
    BY <1>1 DEF Day, DayInv, pubvars
  <2>2. pc["sender"] = "waiting" => ~answer_set
    BY <2>1 DEF Places
  <2>3. pc'["sender"] \in {"creating", "publishing", "waiting", "republishing"} => ~answer_set'
    <3>1. CASE e.kind = "sdp"
      <4>1. pc["sender"] = "waiting" => pc'["sender"] = "opening"
        BY <1>1, <2>2, <3>1, GoesTo DEF OnAnswer, TakeAnswer, Day, Side
      <4> QED BY <1>1, <1>4, <4>1
    <3>2. CASE e.kind # "sdp"
      BY <1>1, <1>4, <1>5, <2>2, <3>2
    <3> QED BY <3>1, <3>2
  <2>4. pc'["sender"] \in {"opening", "open"} => answer_set'
    BY <1>1, <1>4, <1>5, <2>1 DEF Places
  <2>5. \A f \in seen'["sender"] : f.kind = "sdp" => answer_set'
    BY <1>3, <1>5, <2>1 DEF Places
  <2>6. \A s \in Side : pc'[s] \notin Publishing => pending'[s] = {}
    BY <1>1, <1>4, <2>1 DEF Places, Publishing, Side
  <2> QED BY <1>1, <1>2, <1>3, <1>4, <1>5, <2>1, <2>3, <2>4, <2>5, <2>6 DEF Places
<1>10. SenderAlone
  BY <1>1, <1>4 DEF SenderAlone, pubvars
<1> QED BY <1>6, <1>7, <1>8, <1>9, <1>10, SenderGoesOn

(* So no step of the sender spoils a good day. *)
LEMMA DaySender ==
    ASSUME Day, SenderStep
    PROVE  DayInv'
BY DayPublishOffer, DayOfferPublished, DaySenderFetched, DaySenderTimesOut,
   DayHandleSenderSignal DEF SenderStep

-----------------------------------------------------------------------------
(* Good days: the steps of the receiver *)

(* What a step of the receiver leaves alone. *)
ReceiverAlone ==
    /\ now' = now /\ due' = due
    /\ UNCHANGED <<pc["sender"], retry["sender"], gathered["sender"], round["sender"]>>
    /\ pc["receiver"] = "open" => pc'["receiver"] = "open"

(* Such a step keeps the sender in time and both in their windows. *)
LEMMA ReceiverGoesOn ==
    ASSUME Day, LossesGrow, ReceiverAlone, DayTypes', Places', ReceiverTimes'
    PROVE  DayInv'
<1>1. lost' \in Nat /\ LossInv'
  BY SignalingAssumption DEF LossesGrow, LossInv
<1>2. SenderTimes'
  BY SenderStays DEF ReceiverAlone
<1>3. \A s \in Side : due'[s] >= Window /\ (pc[s] = "open" => pc'[s] = "open")
  BY DEF ReceiverAlone, Side, Day, DayInv, InWindow
<1>4. InWindow'
  BY <1>1, <1>3, WindowsStay DEF ReceiverAlone
<1> QED BY <1>1, <1>2, <1>4 DEF DayInv

(* The times of the receiver are counted from the first offer that is not  *)
(* missed; a step may only put that off.                                   *)
LEMMA OfferedLater ==
    ASSUME Day, LossesGrow
    PROVE  Offered \in Nat /\ Offered' \in Nat /\ Offered <= Offered'
<1>1. lost \in Nat /\ lost' \in Nat
  BY SignalingAssumption DEF LossesGrow, LossInv, Day, DayInv
<1> QED BY <1>1, OfferedGrows

(* What the relays already hold is fetched at once. *)
LEMMA DayReceiverFetched ==
    ASSUME Day, ReceiverFetched
    PROVE  DayInv'
<1>1. pc["receiver"] = "fetching" /\ now = 0
  BY GoesTo DEF ReceiverFetched, Day, DayInv, ReceiverTimes, Side
<1>2. ~Over("receiver")
  BY <1>1, NothingOver DEF Side
<1>3. /\ pc'["sender"] = pc["sender"]
      /\ \/ offer_sdp /\ pc'["receiver"] = "answering"
         \/ ~offer_sdp /\ pc'["receiver"] = "awaiting"
  BY <1>2, GoesTo DEF ReceiverFetched, Day, Side
<1>4. /\ gathered' = [gathered EXCEPT !["receiver"] = now + Gather]
      /\ UNCHANGED <<now, due, retry, pubvars, seen, offer_sdp, peervars, channel>>
  BY DEF ReceiverFetched
<1>5. /\ gathered' \in [Side -> Nat] /\ gathered'["receiver"] = Gather
      /\ gathered'["sender"] = gathered["sender"]
  BY <1>1, <1>4, DayNumbers DEF Day, DayInv, DayTypes, Side
<1>6. LossesGrow
  BY <1>4, LossIdle DEF pubvars
<1>7. DayTypes'
  BY <1>3, <1>4, <1>5 DEF Day, DayInv, DayTypes, pubvars, ReceiverPC
<1>8. ReceiverTimes'
  <2>1. 0 <= Offered' /\ 0 <= Gather /\ Gather <= Offered' + Gather
    BY <1>6, OfferedLater, DayNumbers
  <2> QED BY <1>1, <1>3, <1>4, <1>5, <2>1 DEF ReceiverTimes
<1>9. Places'
  <2>1. answer_set' = answer_set
    BY <1>4 DEF answer_set, peervars
  <2> QED BY <1>1, <1>3, <1>4, <2>1 DEF Day, DayInv, Places, Publishing, Side, Searching, pubvars
<1>10. ReceiverAlone
  BY <1>1, <1>3, <1>4, <1>5 DEF ReceiverAlone, pubvars
<1> QED BY <1>6, <1>7, <1>8, <1>9, <1>10, ReceiverGoesOn

(* The answer is handed to the relays within the time to gather. *)
LEMMA DayPublishAnswer ==
    ASSUME Day, PublishAnswer
    PROVE  DayInv'
<1>1. /\ pc["receiver"] = "answering" /\ pc'["receiver"] = "publishing"
      /\ pc'["sender"] = pc["sender"] /\ Publish("receiver") /\ Describe("receiver")
      /\ UNCHANGED <<now, timers, seen, offer_sdp, channel>>
  BY GoesTo DEF PublishAnswer, Day, Side
<1>2. LossesGrow
  <2>1. pending["receiver"] = {}
    BY <1>1 DEF Day, DayInv, Places, Publishing, Side
  <2> QED BY <1>1, <2>1, LossPublish DEF Day, DayInv, Side
<1>3. round["receiver"] = 0 /\ ~answer_set /\ offer_sdp
  BY <1>1 DEF Day, DayInv, Places, Searching
<1>4. /\ round'["receiver"] = 1 /\ round'["sender"] = round["sender"]
      /\ pending'["receiver"] = Bundle("receiver", 1) /\ pending'["sender"] = pending["sender"]
      /\ DOMAIN pending' = Side /\ round' \in [Side -> Nat] /\ relay' = relay /\ lost' = lost
  BY <1>1, <1>3 DEF Publish, Day, DayInv, DayTypes, Side
<1>5. DayTypes'
  BY <1>1, <1>4 DEF Day, DayInv, DayTypes, timers, ReceiverPC
<1>6. ReceiverTimes'
  <2>1. now <= gathered["receiver"] /\ gathered["receiver"] <= Offered + Gather
    BY <1>1 DEF Day, DayInv, ReceiverTimes
  <2>2. now <= Offered' + Gather
    BY <1>2, <2>1, OfferedLater, DayNumbers
  <2> QED BY <1>1, <1>3, <1>4, <2>2 DEF ReceiverTimes
<1>7. Places'
  <2>1. \A e \in pending'["receiver"] : e.from = "receiver"
    BY <1>4 DEF Bundle
  <2>2. answer_set' = answer_set
    BY <1>1 DEF answer_set, Describe, Day, TurnInv, Shapes, Side
  <2> QED BY <1>1, <1>4, <2>1, <2>2 DEF Day, DayInv, Places, Publishing, Side, Searching
<1>8. ReceiverAlone
  BY <1>1, <1>4 DEF ReceiverAlone, timers
<1> QED BY <1>2, <1>5, <1>6, <1>7, <1>8, ReceiverGoesOn

(* The wait for the channel begins with one interval. *)
LEMMA DayAnswerPublished ==
    ASSUME Day, AnswerPublished
    PROVE  DayInv'
<1>1. pc["receiver"] = "publishing"
  BY GoesTo DEF AnswerPublished, Day, Side
<1>2. ~Over("receiver")
  BY <1>1, NothingOver DEF Side
<1>3. /\ pc'["receiver"] = "waiting" /\ pc'["sender"] = pc["sender"] /\ pending["receiver"] = {}
      /\ UNCHANGED <<now, due, gathered, pubvars, seen, offer_sdp, peervars, channel>>
  BY <1>2, GoesTo DEF AnswerPublished, Day, Side
<1>4. /\ retry' \in [Side -> Nat] /\ retry'["receiver"] = now + Retry
      /\ retry'["sender"] = retry["sender"]
  BY DayNumbers DEF AnswerPublished, Day, DayInv, DayTypes, Side
<1>5. LossesGrow
  BY <1>3, LossIdle DEF pubvars
<1>6. DayTypes'
  BY <1>3, <1>4 DEF Day, DayInv, DayTypes, pubvars, ReceiverPC
<1>7. ReceiverTimes'
  <2>1. now <= Offered + Gather /\ round["receiver"] = 1
    BY <1>1 DEF Day, DayInv, ReceiverTimes
  <2>2. Span(1) = Retry
    BY SignalingAssumption DEF Span
  <2>3. Span(round["receiver"])' = Retry
    BY <1>3, <2>1, <2>2 DEF pubvars, Span
  <2>4. offer_sdp
    BY <1>1 DEF Day, DayInv, Places
  <2> HIDE DEF Span
  <2>5. now <= now + Retry /\ now + Retry <= Offered' + Gather + Retry
    BY <1>5, <2>1, OfferedLater, DayNumbers
  <2> QED BY <1>3, <1>4, <2>3, <2>4, <2>5 DEF ReceiverTimes
<1>8. Places'
  <2>1. answer_set' = answer_set
    BY <1>3 DEF answer_set, peervars
  <2> QED BY <1>1, <1>3, <2>1 DEF Day, DayInv, Places, Publishing, Side, Searching, pubvars
<1>9. ReceiverAlone
  BY <1>1, <1>3, <1>4 DEF ReceiverAlone, pubvars
<1> QED BY <1>5, <1>6, <1>7, <1>8, <1>9, ReceiverGoesOn

(* No window of the receiver is over. *)
LEMMA DayReceiverTimesOut ==
    ASSUME Day, ReceiverTimesOut
    PROVE  FALSE
<1>1. pc["receiver"] # "open" /\ Over("receiver")
  BY GoesTo DEF ReceiverTimesOut, Day, Side, Goes
<1> QED BY <1>1, NothingOver DEF Side

(* A channel that arrives was answered for. *)
LEMMA DayChannelArrives ==
    ASSUME Day, ChannelArrives
    PROVE  DayInv'
<1>1. /\ pc["receiver"] = "waiting" /\ pc'["receiver"] = "opening" /\ channel
      /\ pc'["sender"] = pc["sender"]
      /\ UNCHANGED <<now, timers, pubvars, seen, offer_sdp, peervars, channel>>
  BY GoesTo DEF ChannelArrives, Day, Side
<1>2. LossesGrow
  BY <1>1, LossIdle DEF pubvars
<1>3. DayTypes'
  BY <1>1 DEF Day, DayInv, DayTypes, pubvars, timers, ReceiverPC
<1>4. offer_sdp
  BY <1>1 DEF Day, DayInv, Places
<1>5. ReceiverTimes'
  BY <1>1, <1>4 DEF ReceiverTimes
<1>6. Places'
  <2>1. answer_set' = answer_set
    BY <1>1 DEF answer_set, peervars
  <2> QED BY <1>1, <1>4, <2>1 DEF Day, DayInv, Places, Publishing, Side, Searching, pubvars
<1>7. ReceiverAlone
  BY <1>1 DEF ReceiverAlone, pubvars, timers
<1> QED BY <1>2, <1>3, <1>5, <1>6, <1>7, ReceiverGoesOn

(* The offer comes from a sender that has made one, before its time is up. *)
LEMMA DayHandlePreOfferSignal ==
    ASSUME Day, NEW e, HandlePreOfferSignal(e)
    PROVE  DayInv'
<1>1. /\ pc["receiver"] \in {"fetching", "awaiting"} /\ ~offer_sdp /\ Sees("receiver", e)
      /\ UNCHANGED <<now, due, retry, pubvars, channel>>
  BY DEF HandlePreOfferSignal
<1>2. pc["sender"] # "creating"
  <2>1. e \in relay /\ e.from = "sender"
    BY <1>1 DEF Sees, Incoming, Peer
  <2> QED BY <2>1 DEF Day, DayInv, Places
<1>3. /\ seen'["receiver"] = seen["receiver"] \cup {e} /\ seen'["sender"] = seen["sender"]
      /\ answer_set' = answer_set /\ ~answer_set
  <2>1. described'["sender"] = described["sender"]
    BY DEF HandlePreOfferSignal, Enqueue, peervars
  <2>2. ~answer_set
    BY <1>1 DEF Day, DayInv, Places, Searching
  <2> QED BY <1>1, <2>1, <2>2 DEF Sees, Day, TurnInv, Shapes, Side, answer_set
<1>4. /\ pc'["sender"] = pc["sender"] /\ gathered' \in [Side -> Nat]
      /\ gathered'["sender"] = gathered["sender"]
      /\ \/ /\ e.kind # "sdp" /\ offer_sdp' = offer_sdp
            /\ pc'["receiver"] = pc["receiver"] /\ gathered' = gathered
         \/ /\ e.kind = "sdp" /\ offer_sdp' = TRUE
            /\ pc["receiver"] = "awaiting" /\ pc'["receiver"] = "answering"
            /\ gathered'["receiver"] = now + Gather
         \/ /\ e.kind = "sdp" /\ offer_sdp' = TRUE /\ pc["receiver"] = "fetching"
            /\ pc'["receiver"] = "fetching" /\ gathered' = gathered
  <2>1. gathered \in [Side -> Nat]
    BY DEF Day, DayInv, DayTypes
  <2>2. CASE e.kind # "sdp"
    BY <2>1, <2>2 DEF HandlePreOfferSignal
  <2>3. CASE e.kind = "sdp" /\ UNCHANGED <<pc, gathered>>
    BY <2>1, <2>3, GoesTo DEF HandlePreOfferSignal, Goes, Day, TurnInv, Shapes, Side
  <2>4. CASE /\ e.kind = "sdp" /\ Goes("receiver", "awaiting", "answering")
             /\ gathered' = [gathered EXCEPT !["receiver"] = now + Gather]
    <3>1. offer_sdp' = TRUE
      BY <2>4 DEF HandlePreOfferSignal
    <3> QED BY <2>1, <2>4, <3>1, GoesTo, DayNumbers DEF Day, Side
  <2> QED BY <2>2, <2>3, <2>4 DEF HandlePreOfferSignal
<1>5. LossesGrow
  BY <1>1, LossIdle DEF pubvars
<1>6. DayTypes'
  BY <1>1, <1>4 DEF Day, DayInv, DayTypes, pubvars, ReceiverPC
<1>7. ReceiverTimes'
  <2>1. now <= Offered
    BY <1>1 DEF Day, DayInv, ReceiverTimes
  <2>2. now <= Offered' /\ now <= now + Gather /\ now + Gather <= Offered' + Gather
    BY <1>5, <2>1, OfferedLater, DayNumbers
  <2>3. pc["receiver"] = "fetching" => now = 0
    BY DEF Day, DayInv, ReceiverTimes
  <2> QED BY <1>1, <1>4, <2>2, <2>3 DEF ReceiverTimes
<1>8. Places'
  <2>1. Places /\ pending' = pending /\ round' = round /\ relay' = relay /\ channel' = channel
    BY <1>1 DEF Day, DayInv, pubvars
  <2>2. \A s \in Side : pc'[s] \notin Publishing => pending'[s] = {}
    BY <1>1, <1>4, <2>1 DEF Places, Publishing, Side
  <2>3. \A f \in seen'["receiver"] : f.kind = "sdp" => offer_sdp'
    BY <1>3, <1>4, <2>1 DEF Places
  <2>4. pc'["receiver"] \in Searching => pc["receiver"] \in Searching
    BY <1>1 DEF Searching
  <2> QED BY <1>1, <1>2, <1>3, <1>4, <2>1, <2>2, <2>3, <2>4 DEF Places
<1>9. ReceiverAlone
  BY <1>1, <1>4 DEF ReceiverAlone, pubvars
<1> QED BY <1>5, <1>6, <1>7, <1>8, <1>9, ReceiverGoesOn

(* Nothing but the peer connection learns of the candidates. *)
LEMMA DayHandleReceiverCandidate ==
    ASSUME Day, NEW e, HandleReceiverCandidate(e)
    PROVE  DayInv'
<1>1. /\ pc["receiver"] \in {"waiting", "opening"} /\ Sees("receiver", e)
      /\ UNCHANGED <<now, pc, timers, pubvars, offer_sdp, channel>>
  BY DEF HandleReceiverCandidate
<1>2. /\ seen'["receiver"] = seen["receiver"] \cup {e} /\ seen'["sender"] = seen["sender"]
      /\ answer_set' = answer_set /\ offer_sdp
  <2>1. described' = described
    BY DEF HandleReceiverCandidate, Add, peervars
  <2>2. offer_sdp
    BY <1>1 DEF Day, DayInv, Places
  <2> QED BY <1>1, <2>1, <2>2 DEF Sees, Day, TurnInv, Shapes, Side, answer_set
<1>3. LossesGrow
  BY <1>1, LossIdle DEF pubvars
<1>4. DayTypes'
  BY <1>1 DEF Day, DayInv, DayTypes, pubvars, timers
<1>5. ReceiverTimes'
  BY <1>1, <1>3, ReceiverStays, SignalingAssumption DEF pubvars, timers, LossesGrow, LossInv
<1>6. Places'
  BY <1>1, <1>2 DEF Day, DayInv, Places, pubvars
<1>7. ReceiverAlone
  BY <1>1 DEF ReceiverAlone, pubvars, timers
<1> QED BY <1>3, <1>4, <1>5, <1>6, <1>7, ReceiverGoesOn

(* So no step of the receiver spoils a good day. *)
LEMMA DayReceiver ==
    ASSUME Day, ReceiverStep
    PROVE  DayInv'
BY DayReceiverFetched, DayPublishAnswer, DayAnswerPublished, DayReceiverTimesOut,
   DayChannelArrives, DayHandlePreOfferSignal, DayHandleReceiverCandidate DEF ReceiverStep

-----------------------------------------------------------------------------
(* Good days: what both sides do, the relays and the network *)

(* No side goes on. *)
LEMMA BothStay ==
    ASSUME Day, LossesGrow, UNCHANGED <<now, pc, timers, round, offer_sdp>>, DayTypes', Places'
    PROVE  DayInv'
<1>1. ReceiverAlone
  BY DEF ReceiverAlone, timers
<1>2. ReceiverTimes'
  BY ReceiverStays, SignalingAssumption DEF timers, LossesGrow, LossInv
<1> QED BY <1>1, <1>2, ReceiverGoesOn

(* The network connects those that know each other. *)
LEMMA DayLinkUp ==
    ASSUME Day, LinkUp
    PROVE  DayInv'
<1>1. channel' = TRUE /\ UNCHANGED <<now, pc, timers, pubvars, seen, offer_sdp, peervars>>
  BY DEF LinkUp
<1>2. answer_set /\ answer_set'
  BY <1>1 DEF LinkUp, Acquainted, answer_set, Side, peervars
<1>3. DayTypes' /\ LossesGrow
  BY <1>1, LossIdle DEF Day, DayInv, DayTypes, pubvars, timers
<1>4. Places'
  BY <1>1, <1>2 DEF Day, DayInv, Places, pubvars
<1> QED BY <1>1, <1>3, <1>4, BothStay DEF pubvars

(* A relay loses an event. *)
LEMMA DayRelayLoses ==
    ASSUME Day, NEW e \in relay, RelayLoses(e)
    PROVE  DayInv'
<1>1. /\ relay' = relay \ {e}
      /\ UNCHANGED <<now, pc, timers, round, pending, seen, offer_sdp, peervars, channel>>
  BY DEF RelayLoses
<1>2. LossesGrow
  BY LossLose DEF Day, DayInv
<1>3. DayTypes'
  BY <1>1 DEF Day, DayInv, DayTypes, timers
<1>4. Places'
  <2>1. answer_set' = answer_set
    BY <1>1 DEF answer_set, peervars
  <2> QED BY <1>1, <2>1 DEF Day, DayInv, Places
<1> QED BY <1>1, <1>2, <1>3, <1>4, BothStay

(* A relay accepts one. *)
LEMMA DayRelayAccepts ==
    ASSUME Day, NEW s \in Side, RelayAccepts(s)
    PROVE  DayInv'
<1>1. /\ pc[s] \in Publishing
      /\ UNCHANGED <<now, pc, timers, round, seen, offer_sdp, peervars, channel>>
  BY DEF RelayAccepts, Publishing
<1>2. PICK e \in pending[s] :
          pending' = [pending EXCEPT ![s] = @ \ {e}] /\ relay' = relay \cup {e}
  BY DEF RelayAccepts
<1>3. LossesGrow
  BY LossAccept DEF Day, DayInv
<1>4. DayTypes'
  BY <1>1, <1>2 DEF Day, DayInv, DayTypes, timers
<1>5. Places'
  <2>1. answer_set' = answer_set /\ e.from = s
    BY <1>1 DEF answer_set, peervars, Day, DayInv, Places
  <2>2. \A o \in Side : pending'[o] \subseteq pending[o]
    BY <1>2 DEF Day, DayInv, DayTypes
  <2>3. s = "sender" => pc["sender"] # "creating"
    BY <1>1 DEF Publishing
  <2>4. s = "receiver" => pc["receiver"] \notin Searching
    BY <1>1 DEF Publishing, Searching
  <2>5. /\ \A o \in Side : pc'[o] \notin Publishing => pending'[o] = {}
        /\ \A o \in Side : \A f \in pending'[o] : f.from = o
    BY <1>1, <2>2 DEF Day, DayInv, Places
  <2> QED BY <1>1, <1>2, <2>1, <2>3, <2>4, <2>5 DEF Day, DayInv, Places
<1> QED BY <1>1, <1>3, <1>4, <1>5, BothStay

(* A side that waited one interval more starts another. *)
LEMMA DayRepublish ==
    ASSUME Day, NEW s \in Side, Republish(s)
    PROVE  DayInv'
<1>1. /\ pc[s] \in {"waiting", "opening"}
      /\ pc[s] = "opening" => s = "receiver"
      /\ pc'[s] = (IF pc[s] = "waiting" THEN "republishing" ELSE "reopening")
      /\ \A o \in Side : o # s => pc'[o] = pc[o]
  BY GoesTo DEF Republish, Day
<1>2. /\ now >= retry[s] /\ NextTick(s) /\ Publish(s)
      /\ UNCHANGED <<now, due, gathered, seen, offer_sdp, peervars, channel>>
  BY DEF Republish
<1>3. LossesGrow /\ pending[s] = {}
  <2>1. pending[s] = {}
    BY <1>1 DEF Day, DayInv, Places, Publishing
  <2> QED BY <1>2, <2>1, LossPublish DEF Day, DayInv
<1>4. /\ round'[s] = round[s] + 1 /\ pending'[s] = Bundle(s, round[s] + 1)
      /\ \A o \in Side : o # s => round'[o] = round[o] /\ pending'[o] = pending[o]
      /\ DOMAIN pending' = Side /\ round' \in [Side -> Nat] /\ relay' = relay /\ lost' = lost
  BY <1>2 DEF Publish, Day, DayInv, DayTypes
<1>5. /\ retry' \in [Side -> Nat] /\ retry'[s] = retry[s] + Retry
      /\ \A o \in Side : o # s => retry'[o] = retry[o]
  BY <1>2, DayNumbers DEF NextTick, Day, DayInv, DayTypes
<1>6. DayTypes'
  BY <1>1, <1>2, <1>4, <1>5 DEF Day, DayInv, DayTypes, SenderPC, ReceiverPC, Side
<1>7. Places'
  <2>1. \A e \in pending'[s] : e.from = s
    BY <1>4 DEF Bundle
  <2>2. answer_set' = answer_set
    BY <1>2 DEF answer_set, peervars
  <2>3. /\ \A o \in Side : pc'[o] \notin Publishing => pending'[o] = {}
        /\ \A o \in Side : \A f \in pending'[o] : f.from = o
    BY <1>1, <1>4, <2>1 DEF Day, DayInv, Places, Publishing
  <2>4. CASE s = "sender"
    BY <1>1, <1>2, <1>4, <2>2, <2>3, <2>4 DEF Day, DayInv, Places, Side, Searching
  <2>5. CASE s = "receiver"
    BY <1>1, <1>2, <1>4, <2>2, <2>3, <2>5 DEF Day, DayInv, Places, Side, Searching
  <2> QED BY <2>4, <2>5 DEF Side
<1>8. Span(round[s])' = Span(round[s]) + Retry /\ Span(round[s]) \in Nat
  <2>1. Span(round[s])' = Span(round'[s])
    BY DEF Span
  <2> QED BY <1>4, <2>1, Spans, DayNumbers
<1> HIDE DEF Span
<1>9. CASE s = "sender"
  <2>1. now <= retry["sender"] /\ retry["sender"] <= Gather + Span(round["sender"])
    BY <1>1, <1>9 DEF Day, DayInv, SenderTimes
  <2>2. now + Retry <= retry'["sender"] /\ retry'["sender"] <= Gather + Span(round["sender"])'
    BY <1>2, <1>5, <1>8, <1>9, <2>1, DayNumbers
  <2>3. SenderTimes'
    BY <1>1, <1>2, <1>9, <2>2 DEF SenderTimes
  <2>4. SenderAlone
    BY <1>1, <1>2, <1>4, <1>5, <1>9 DEF SenderAlone, Day, DayInv, InWindow, Side
  <2> QED BY <1>3, <1>6, <1>7, <2>3, <2>4, SenderGoesOn
<1>10. CASE s = "receiver"
  <2>1. pc["receiver"] = "waiting" =>
            /\ now <= retry["receiver"]
            /\ retry["receiver"] <= Offered + Gather + Span(round["receiver"])
    BY DEF Day, DayInv, ReceiverTimes
  <2>2. Offered \in Nat /\ Offered' \in Nat /\ Offered <= Offered' /\ offer_sdp
    BY <1>1, <1>3, <1>10, OfferedLater DEF Day, DayInv, Places
  <2>3. pc["receiver"] = "waiting" => now + Retry <= retry'["receiver"]
    BY <1>2, <1>5, <1>10, <2>1, DayNumbers
  <2>4. pc["receiver"] = "waiting" =>
            retry'["receiver"] <= Offered' + Gather + Span(round["receiver"])'
    <3>1. \A r, a, b, g, p, i \in Nat : a <= b /\ r <= a + g + p => r + i <= b + g + (p + i)
      OBVIOUS
    <3> QED BY <1>5, <1>8, <1>10, <2>1, <2>2, <3>1, DayNumbers
  <2>5. ReceiverTimes'
    BY <1>1, <1>2, <1>10, <2>2, <2>3, <2>4 DEF ReceiverTimes
  <2>6. ReceiverAlone
    BY <1>1, <1>2, <1>4, <1>5, <1>10 DEF ReceiverAlone, Side
  <2> QED BY <1>3, <1>6, <1>7, <2>5, <2>6, ReceiverGoesOn
<1> QED BY <1>9, <1>10 DEF Side

(* The bundle is out again, well before the next interval ends. *)
LEMMA DayRepublished ==
    ASSUME Day, NEW s \in Side, Republished(s)
    PROVE  DayInv'
<1>1. /\ pc[s] \in {"republishing", "reopening"}
      /\ pc'[s] = (IF pc[s] = "republishing" THEN "waiting" ELSE "opening")
      /\ \A o \in Side : o # s => pc'[o] = pc[o]
  BY GoesTo DEF Republished, Day
<1>2. /\ pending[s] = {}
      /\ UNCHANGED <<now, timers, pubvars, seen, offer_sdp, peervars, channel>>
  BY DEF Republished
<1>3. LossesGrow
  BY <1>2, LossIdle DEF pubvars
<1>4. s = "sender" => pc[s] = "republishing"
  BY <1>1 DEF Day, DayInv, DayTypes, SenderPC
<1>5. DayTypes'
  BY <1>1, <1>2, <1>4 DEF Day, DayInv, DayTypes, SenderPC, ReceiverPC, Side, pubvars, timers
<1>6. Places'
  <2>1. answer_set' = answer_set
    BY <1>2 DEF answer_set, peervars
  <2>2. CASE s = "sender"
    BY <1>1, <1>2, <1>4, <2>1, <2>2 DEF Day, DayInv, Places, Side, Searching, Publishing, pubvars
  <2>3. CASE s = "receiver"
    BY <1>1, <1>2, <2>1, <2>3 DEF Day, DayInv, Places, Side, Searching, Publishing, pubvars
  <2> QED BY <2>2, <2>3 DEF Side
<1>7. CASE s = "sender"
  <2>1. now + Retry <= retry["sender"] /\ retry["sender"] <= Gather + Span(round["sender"])
    BY <1>4, <1>7 DEF Day, DayInv, SenderTimes
  <2>2. now <= retry["sender"]
    BY <2>1, DayNumbers
  <2>3. SenderTimes'
    BY <1>1, <1>2, <1>4, <1>7, <2>1, <2>2 DEF SenderTimes, pubvars, timers, Span
  <2>4. SenderAlone
    BY <1>1, <1>2, <1>7 DEF SenderAlone, Day, DayInv, InWindow, Side, pubvars, timers
  <2> QED BY <1>3, <1>5, <1>6, <2>3, <2>4, SenderGoesOn
<1>8. CASE s = "receiver"
  <2>1. pc["receiver"] = "republishing" =>
            /\ now + Retry <= retry["receiver"]
            /\ retry["receiver"] <= Offered + Gather + Span(round["receiver"])
    BY DEF Day, DayInv, ReceiverTimes
  <2>2. Offered \in Nat /\ Offered' \in Nat /\ Offered <= Offered' /\ offer_sdp
    BY <1>1, <1>3, <1>8, OfferedLater DEF Day, DayInv, Places
  <2>3. Span(round["receiver"])' = Span(round["receiver"])
    BY <1>2 DEF Span, pubvars
  <2> HIDE DEF Span
  <2>4. pc["receiver"] = "republishing" =>
            /\ now <= retry["receiver"]
            /\ retry["receiver"] <= Offered' + Gather + Span(round["receiver"])
    <3>1. \A r, a, b, g, p \in Nat : a <= b /\ r <= a + g + p => r <= b + g + p
      OBVIOUS
    <3>2. \A t, i, r \in Nat : t + i <= r => t <= r
      OBVIOUS
    <3> QED BY <1>8, <2>1, <2>2, <3>1, <3>2, DayNumbers
  <2>5. ReceiverTimes'
    BY <1>1, <1>2, <1>8, <2>2, <2>3, <2>4 DEF ReceiverTimes, timers
  <2>6. ReceiverAlone
    BY <1>1, <1>2, <1>8 DEF ReceiverAlone, Side, pubvars, timers
  <2> QED BY <1>3, <1>5, <1>6, <2>5, <2>6, ReceiverGoesOn
<1> QED BY <1>7, <1>8 DEF Side

(* The channel is there. *)
LEMMA DayOpen ==
    ASSUME Day, NEW s \in Side, Open(s)
    PROVE  DayInv'
<1>1. /\ pc[s] = "opening" /\ pc'[s] = "open" /\ channel
      /\ \A o \in Side : o # s => pc'[o] = pc[o]
      /\ UNCHANGED <<now, timers, pubvars, seen, offer_sdp, peervars, channel>>
  BY GoesTo DEF Open, Day
<1>2. LossesGrow
  BY <1>1, LossIdle DEF pubvars
<1>3. DayTypes'
  BY <1>1 DEF Day, DayInv, DayTypes, SenderPC, ReceiverPC, Side, pubvars, timers
<1>4. Places'
  <2>1. answer_set' = answer_set
    BY <1>1 DEF answer_set, peervars
  <2>2. CASE s = "sender"
    BY <1>1, <2>1, <2>2 DEF Day, DayInv, Places, Side, Searching, Publishing, pubvars
  <2>3. CASE s = "receiver"
    BY <1>1, <2>1, <2>3 DEF Day, DayInv, Places, Side, Searching, Publishing, pubvars
  <2> QED BY <2>2, <2>3 DEF Side
<1>5. CASE s = "sender"
  <2>1. SenderTimes'
    BY <1>1, <1>5 DEF SenderTimes
  <2>2. SenderAlone
    BY <1>1, <1>5 DEF SenderAlone, Day, DayInv, InWindow, Side, pubvars, timers
  <2> QED BY <1>2, <1>3, <1>4, <2>1, <2>2, SenderGoesOn
<1>6. CASE s = "receiver"
  <2>1. offer_sdp
    BY <1>1, <1>6 DEF Day, DayInv, Places
  <2>2. ReceiverTimes'
    BY <1>1, <1>6, <2>1 DEF ReceiverTimes
  <2>3. ReceiverAlone
    BY <1>1, <1>6 DEF ReceiverAlone, Side, pubvars, timers
  <2> QED BY <1>2, <1>3, <1>4, <2>2, <2>3, ReceiverGoesOn
<1> QED BY <1>5, <1>6 DEF Side

-----------------------------------------------------------------------------
(* Good days: the clock *)

(* Whoever has handled all that the relays hold, and has no description,   *)
(* has missed every publication of the other side.                         *)
LEMMA NothingCame ==
    ASSUME Day, NEW s \in Side, pc[s] \notin Publishing, NEW o \in Side, s = Peer(o),
           Incoming(o) = {}, \A e \in seen[o] : e.kind # "sdp"
    PROVE  Misses(s) = round[s]
<1>1. ASSUME NEW n \in 1 .. round[s] PROVE Sdp(s, n) \notin relay \cup pending[s]
  <2>1. Sdp(s, n).from = s /\ Sdp(s, n).kind = "sdp" /\ pending[s] = {}
    BY DEF Sdp, Day, DayInv, Places
  <2>2. Sdp(s, n) \notin seen[o]
    BY <2>1
  <2> QED BY <2>1, <2>2 DEF Incoming
<1>2. Missed(s) = 1 .. round[s] /\ round \in [Side -> Nat]
  BY <1>1 DEF Missed, Day, DayInv, DayTypes
<1> QED BY <1>2, AllMissed

(* A sender that is idle has its time left. *)
LEMMA TickSender ==
    ASSUME Day, PromptTick
    PROVE  SenderTimes'
<1>1. Idle("sender") /\ now' = now + 1 /\ UNCHANGED <<pc, timers, pubvars>>
  BY DEF PromptTick, Tick, Side
<1>2. pc["sender"] = "creating" => gathered["sender"] = Gather /\ now < gathered["sender"]
  BY <1>1 DEF Idle, Day, DayInv, SenderTimes
<1>3. pc["sender"] = "waiting" =>
          now < retry["sender"] /\ retry["sender"] <= Gather + Span(round["sender"])
  BY <1>1 DEF Idle, Day, DayInv, SenderTimes
<1>4. pc["sender"] \notin {"publishing", "fetching", "republishing"}
  BY <1>1 DEF Idle
<1>5. Span(round["sender"])' = Span(round["sender"])
  BY <1>1 DEF Span, pubvars
<1>6. /\ pc["sender"] = "creating" => now + 1 <= Gather
      /\ pc["sender"] = "waiting" => now + 1 <= retry["sender"]
  BY <1>2, <1>3, DayNumbers
<1> HIDE DEF Span
<1> QED BY <1>1, <1>2, <1>3, <1>4, <1>5, <1>6 DEF SenderTimes, timers

(* While the receiver waits for an offer, the next one is on its way. *)
LEMMA TickAwaiting ==
    ASSUME Day, PromptTick, ~offer_sdp
    PROVE  pc["receiver"] = "awaiting" /\ now + 1 <= Offered
<1>1. Idle("sender") /\ Idle("receiver")
  BY DEF PromptTick, Side
<1>2. pc["receiver"] = "awaiting"
  BY <1>1 DEF Day, DayInv, Places, Idle
<1>3. pc["sender"] \in {"creating", "waiting"}
  <2>1. ~answer_set
    BY <1>2 DEF Day, DayInv, Places, Searching
  <2> QED BY <1>1, <2>1 DEF Idle, Day, DayInv, DayTypes, Places, SenderPC
<1>4. pc["sender"] = "creating" => now + 1 <= Gather
  BY <1>1, DayNumbers DEF Idle, Day, DayInv, SenderTimes
<1>5. pc["sender"] = "waiting" => now + 1 <= Gather + Span(round["sender"])
  <2>1. pc["sender"] = "waiting" =>
            now < retry["sender"] /\ retry["sender"] <= Gather + Span(round["sender"])
    BY <1>1 DEF Idle, Day, DayInv, SenderTimes
  <2> QED BY <2>1, DayNumbers
<1>6. Misses("sender") = round["sender"]
  <2>1. Incoming("receiver") = {} /\ pc["sender"] \notin Publishing
    BY <1>1, <1>2, <1>3 DEF Idle, Publishing
  <2>2. \A e \in seen["receiver"] : e.kind # "sdp"
    BY DEF Day, DayInv, Places
  <2> QED BY <2>1, <2>2, NothingCame DEF Side, Peer
<1>7. Gather + Span(round["sender"]) = Offered /\ Gather <= Gather + Span(round["sender"])
  BY <1>6, DayNumbers DEF Offered
<1>8. now + 1 <= Offered
  BY <1>3, <1>4, <1>5, <1>7, DayNumbers
<1> QED BY <1>2, <1>8

(* A receiver that is idle has its time left. *)
LEMMA TickReceiver ==
    ASSUME Day, PromptTick
    PROVE  ReceiverTimes'
<1>1. Idle("receiver") /\ now' = now + 1 /\ UNCHANGED <<pc, timers, pubvars, offer_sdp>>
  BY DEF PromptTick, Tick, Side
<1>2. Offered' = Offered /\ Span(round["receiver"])' = Span(round["receiver"])
  BY <1>1 DEF Offered, Misses, Missed, pubvars, Span
<1>3. pc["receiver"] = "answering" =>
          now + 1 <= gathered["receiver"] /\ gathered["receiver"] <= Offered + Gather
  BY <1>1, DayNumbers DEF Idle, Day, DayInv, ReceiverTimes
<1>4. pc["receiver"] = "waiting" =>
          /\ now + 1 <= retry["receiver"]
          /\ retry["receiver"] <= Offered + Gather + Span(round["receiver"])
  BY <1>1, DayNumbers DEF Idle, Day, DayInv, ReceiverTimes
<1>5. pc["receiver"] \notin {"fetching", "publishing", "republishing"}
  BY <1>1 DEF Idle
<1>6. ~offer_sdp => now + 1 <= Offered
  BY TickAwaiting
<1> HIDE DEF Span, Offered
<1> QED BY <1>1, <1>2, <1>3, <1>4, <1>5, <1>6 DEF ReceiverTimes, timers

(* Until the channel is open on both sides, every tick is gathering, or is *)
(* the wait for a publication that makes up for one that was lost.         *)
LEMMA TickWindow ==
    ASSUME Day, PromptTick
    PROVE  InWindow'
<1>1. /\ Idle("sender") /\ Idle("receiver")
      /\ Acquainted => channel
      /\ now' = now + 1 /\ UNCHANGED <<pc, timers, pubvars>>
  BY DEF PromptTick, Tick, Side
<1> DEFINE Ms == Misses("sender")
           Mr == Misses("receiver")
<1>2. /\ Ms \in Nat /\ Mr \in Nat /\ Ms + Mr <= lost /\ lost \in Nat /\ Gather \in Nat
  BY SignalingAssumption DEF Day, DayInv, LossInv, Side
<1>3. /\ Span(Ms) \in Nat /\ Span(Mr) \in Nat /\ Span(lost) \in Nat
      /\ Span(Ms) + Span(Mr) <= Span(lost)
  <2>1. Span(Ms + Mr) <= Span(lost) /\ Span(Ms + Mr) = Span(Ms) + Span(Mr)
    BY <1>2, Spans
  <2> QED BY <1>2, <2>1, Spans
<1>4. Offered = Gather + Span(Ms)
  BY DEF Offered
<1> HIDE DEF Ms, Mr, Span
<1>5. ASSUME ~(pc["sender"] = "open" /\ pc["receiver"] = "open")
      PROVE  now + 1 <= 2 * Gather + Span(lost)
  <2>1. CASE ~offer_sdp
    BY <1>2, <1>3, <1>4, <2>1, TickAwaiting, DayNumbers
  <2>2. CASE pc["receiver"] = "answering"
    <3>1. now + 1 <= Offered + Gather
      BY <1>1, <2>2, DayNumbers DEF Idle, Day, DayInv, ReceiverTimes
    <3> QED BY <1>2, <1>3, <1>4, <3>1, DayNumbers
  <2>3. CASE offer_sdp /\ pc["receiver"] # "answering"
    <3>1. pc["receiver"] \in {"waiting", "opening", "open"} /\ pc["sender"] # "creating"
      BY <1>1, <2>3 DEF Idle, Day, DayInv, DayTypes, Places, ReceiverPC
    <3>2. ~channel
      <4>1. ASSUME channel PROVE FALSE
        <5>1. pc["receiver"] = "open"
          BY <1>1, <3>1, <4>1 DEF Idle
        <5>2. answer_set
          BY <4>1 DEF Day, DayInv, Places
        <5>3. pc["sender"] = "open"
          BY <1>1, <4>1, <5>2 DEF Idle, Day, DayInv, DayTypes, Places, SenderPC
        <5> QED BY <1>5, <5>1, <5>3
      <4> QED BY <4>1
    <3>3. pc["receiver"] = "waiting"
      BY <3>1, <3>2 DEF Day, DayInv, Places
    <3>4. ~answer_set
      <4>1. described["receiver"] > 0
        BY <3>3 DEF Day, TurnInv, ReceiverDescribes, Answering
      <4>2. \A s \in Side : pc[s] # "failed"
        BY DEF Day, DayInv, DayTypes, Side
      <4> QED BY <1>1, <3>2, <4>1, <4>2 DEF Acquainted, answer_set, Side
    <3>5. pc["sender"] = "waiting"
      BY <1>1, <3>1, <3>4 DEF Idle, Day, DayInv, DayTypes, Places, SenderPC
    <3>6. Mr = round["receiver"]
      <4>1. Incoming("sender") = {} /\ pc["receiver"] \notin Publishing
        BY <1>1, <3>3, <3>5 DEF Idle, Publishing
      <4>2. \A e \in seen["sender"] : e.kind # "sdp"
        BY <3>4 DEF Day, DayInv, Places
      <4> QED BY <4>1, <4>2, NothingCame DEF Side, Peer, Mr
    <3>7. /\ now < retry["receiver"]
          /\ retry["receiver"] <= Offered + Gather + Span(round["receiver"])
      BY <1>1, <3>3 DEF Idle, Day, DayInv, ReceiverTimes
    <3>8. now + 1 <= Gather + Span(Ms) + Gather + Span(Mr)
      BY <1>4, <3>6, <3>7, DayNumbers
    <3> QED BY <1>2, <1>3, <3>8, DayNumbers
  <2> QED BY <2>1, <2>2, <2>3
<1>6. Span(lost)' = Span(lost) /\ \A s \in Side : due'[s] >= Window
  BY <1>1 DEF Span, pubvars, timers, Day, DayInv, InWindow
<1> QED BY <1>1, <1>5, <1>6 DEF InWindow, Side

(* When nothing is left to do, a tick does no harm. *)
LEMMA DayPromptTick ==
    ASSUME Day, PromptTick
    PROVE  DayInv'
<1>1. /\ now' = now + 1
      /\ UNCHANGED <<pc, timers, pubvars, seen, offer_sdp, peervars, channel>>
  BY DEF PromptTick, Tick
<1>2. DayTypes'
  BY <1>1, DayNumbers DEF Day, DayInv, DayTypes, pubvars, timers
<1>3. LossInv'
  BY <1>1 DEF Day, DayInv, LossInv, Misses, Missed, pubvars
<1>4. Places'
  <2>1. answer_set' = answer_set
    BY <1>1 DEF answer_set, peervars
  <2> QED BY <1>1, <2>1 DEF Day, DayInv, Places, pubvars
<1> QED BY <1>2, <1>3, <1>4, TickSender, TickReceiver, TickWindow DEF DayInv

-----------------------------------------------------------------------------
(* Good days: the theorem *)

(* At first nothing is published. *)
LEMMA DayInitially == Init => DayInv
<1> SUFFICES ASSUME Init PROVE DayInv
  OBVIOUS
<1> USE SignalingAssumption
<1>1. \A s \in Side : Missed(s) = {}
  BY DEF Init, Missed
<1>2. \A s \in Side : Misses(s) = 0
  BY <1>1, FS_EmptySet DEF Misses
<1>3. LossInv
  BY <1>2 DEF Init, LossInv, Side
<1>4. Offered = Gather
  BY <1>2, Spans DEF Offered, Side
<1>5. DayTypes /\ Places
  BY DEF Init, DayTypes, Places, Side, SenderPC, ReceiverPC, Publishing, Searching, answer_set
<1>6. SenderTimes /\ ReceiverTimes
  BY <1>4 DEF Init, SenderTimes, ReceiverTimes, Side
<1>7. InWindow
  BY Spans DEF Init, InWindow, Side
<1> QED BY <1>3, <1>5, <1>6, <1>7 DEF DayInv

(* WindowsSuffice: for any windows with room for gathering and for what is *)
(* lost, any candidates and any order, nobody gives up on a good day.      *)
THEOREM WindowsAlwaysSuffice == Spec => []WindowsSuffice
<1> DEFINE WindowsInv == TurnInv /\ (good_day => DayInv)
<1>1. Init => WindowsInv
  BY TurnInitially, DayInitially
<1>2. WindowsInv /\ [Next]_vars => WindowsInv'
  <2> SUFFICES ASSUME WindowsInv, [Next]_vars PROVE WindowsInv'
    OBVIOUS
  <2>1. TurnInv'
    BY TurnSender, TurnReceiver, TurnOther DEF Next, Steps, PromptTick, vars
  <2>2. CASE UNCHANGED vars
    <3>1. good_day' = good_day /\ UNCHANGED steps
      BY <2>2 DEF vars
    <3>2. DayInv => DayInv'
      <4>1. UNCHANGED <<pc, now, timers, pubvars, seen, offer_sdp, peervars, channel>>
        BY <3>1 DEF steps
      <4>2. DayInv <=> DayInv'
        BY <4>1 DEF DayInv, DayTypes, LossInv, Places, SenderTimes, ReceiverTimes, InWindow,
           Misses, Missed, Offered, Span, pubvars, timers, peervars, answer_set
      <4> QED BY <4>2
    <3> QED BY <2>1, <3>1, <3>2
  <2>3. CASE Next
    <3>1. good_day' = good_day
      BY <2>3 DEF Next
    <3>2. ASSUME good_day PROVE DayInv'
      <4>1. Day /\ (PromptTick \/ Steps)
        BY <2>3, <3>2 DEF Next, Day
      <4> QED BY <4>1, DayPromptTick, DaySender, DayReceiver, DayLinkUp, DayRelayLoses,
                 DayRelayAccepts, DayRepublish, DayRepublished, DayOpen DEF Steps
    <3> QED BY <2>1, <3>1, <3>2
  <2> QED BY <2>2, <2>3
<1>3. WindowsInv => WindowsSuffice
  BY DEF WindowsSuffice, DayInv, DayTypes, Side
<1> HIDE DEF WindowsInv
<1> QED BY <1>1, <1>2, <1>3, PTL DEF Spec

-----------------------------------------------------------------------------
(* Published events *)

(* A program passes a publication only when all its events are published,  *)
(* and an event counts as published only when a relay has said OK.         *)
Holds(e) == \E r \in Relays : e \in held[r]
Passes(s) ==
    \A i \in 1 .. Len(Script[s]) : i < at[s] /\ Script[s][i].does = "publish" =>
        Parcel[Script[s][i].what] \subseteq published
HeldInv ==
    /\ DOMAIN at = Sides /\ DOMAIN accepted = Events /\ DOMAIN asked = Events
    /\ DOMAIN held = Relays
    /\ \A s \in Sides : /\ last[s] \in 1 .. Len(Script[s]) /\ at[s] \in 0 .. last[s]
                       /\ reach[s] \subseteq Relays
    /\ \A e \in Events : asked[e] \subseteq Relays
    /\ \A e \in Events : accepted[e] => Holds(e)
    /\ \A e \in published : Holds(e)
    /\ \A s \in Sides : Passes(s)

(* Only the two programs sign events. *)
LEMMA Authors == \A e \in Events : e.author \in Sides
<1> SUFFICES ASSUME NEW b \in DOMAIN Parcel, NEW e \in Parcel[b]
             PROVE  e.author \in Sides
  BY DEF Events
<1>1. b \in {"rendezvous", "claim", "confirm", "offer", "answer"}
  BY DEF Parcel
<1>2. e \in {Rendezvous, Claim, Confirm, Offer, Answer, SignalEvent("sender", "candidate"),
            SignalEvent("receiver", "candidate")}
  BY <1>1 DEF Parcel
<1>3. /\ Rendezvous.author = "sender" /\ Claim.author = "receiver"
      /\ Confirm.author = "sender" /\ Offer.author = "sender" /\ Answer.author = "receiver"
      /\ SignalEvent("sender", "candidate").author = "sender"
      /\ SignalEvent("receiver", "candidate").author = "receiver"
  BY DEF Rendezvous, Claim, Confirm, Offer, Answer, Handshake, SignalEvent
<1> QED BY <1>2, <1>3 DEF Sides

(* No program publishes right after a fetch: it listens first, or found    *)
(* what it was looking for and skips that.                                 *)
LEMMA ScriptSteps ==
    \A s \in Sides :
        /\ Len(Script[s]) = 11
        /\ \A i \in 1 .. 11 : Script[s][i].does = "fetch" =>
               i < 11 /\ Script[s][i + 1].does # "publish"
<1>1. Len(Script["sender"]) = 11 /\ Len(Script["receiver"]) = 11
  BY SMTT(60) DEF Script, Mailbox, Step
<1>2. \A i \in 1 .. 11 : Script["sender"][i].does = "fetch" => i = 9
  BY SMTT(60) DEF Script, Mailbox, Step
<1>3. Script["sender"][10].does = "listen"
  BY SMTT(60) DEF Script, Mailbox, Step
<1>4. \A i \in 1 .. 11 : Script["receiver"][i].does = "fetch" => i = 8
  BY SMTT(60) DEF Script, Mailbox, Step
<1>5. Script["receiver"][9].does = "listen"
  BY SMTT(60) DEF Script, Mailbox, Step
<1> HIDE DEF Script
<1> QED BY <1>1, <1>2, <1>3, <1>4, <1>5 DEF Sides

(* What a leg begins with is held by every relay.                          *)
LEMMA HeldInitially == MailInit => HeldInv
<1> SUFFICES ASSUME MailInit PROVE HeldInv
  OBVIOUS
<1>1. PICK leg \in Legs : reach = leg.reach /\ at = leg.from /\ last = leg.to
  BY DEF MailInit
<1>2. /\ DOMAIN at = Sides
      /\ \A s \in Sides : /\ last[s] \in 1 .. Len(Script[s]) /\ at[s] \in 0 .. last[s]
                          /\ reach[s] \subseteq Relays
  BY <1>1, ScriptSteps, MailAssumption
<1>3. /\ DOMAIN accepted = Events /\ DOMAIN asked = Events /\ DOMAIN held = Relays
      /\ \A e \in Events : asked[e] \subseteq Relays /\ ~accepted[e]
      /\ published = Before(at) /\ \A r \in Relays : held[r] = Before(at)
  BY DEF MailInit
<1>4. \A e \in published : Holds(e)
  BY <1>3, MailAssumption DEF Holds
<1>5. ASSUME NEW s \in Sides PROVE Passes(s)
  <2>1. SUFFICES ASSUME NEW i \in 1 .. Len(Script[s]), i < at[s],
                        Script[s][i].does = "publish"
                 PROVE  Parcel[Script[s][i].what] \subseteq Before(at)
    BY <1>3 DEF Passes
  <2>2. i \in 1 .. at[s] - 1
    BY <1>2, <2>1, ScriptSteps
  <2>3. Script[s][i].what \in Done(s, at, "publish")
    BY <2>1, <2>2 DEF Done
  <2> QED BY <2>3 DEF Before, Sides
<1> QED BY <1>2, <1>3, <1>4, <1>5 DEF HeldInv

(* A program that moves on past no publication but a completed one, or     *)
(* ends; nothing else changes here.                                        *)
LEMMA HeldMoves ==
    ASSUME HeldInv, NEW s \in Sides, UNCHANGED <<envvars, publishing>>,
           DOMAIN at' = Sides, \A t \in Sides : t # s => at'[t] = at[t],
           \/ at'[s] = 0
           \/ /\ at'[s] \in at[s] .. last[s]
              /\ \A i \in 1 .. Len(Script[s]) :
                     i >= at[s] /\ i < at'[s] /\ Script[s][i].does = "publish" =>
                         Parcel[Script[s][i].what] \subseteq published
    PROVE  HeldInv'
<1>1. UNCHANGED <<reach, last, asked, accepted, published, held>>
  BY DEF envvars, publishing
<1>2. at'[s] \in 0 .. last'[s]
  BY <1>1, ScriptSteps DEF HeldInv
<1>3. ASSUME NEW t \in Sides PROVE Passes(t)'
  <2>1. CASE t # s
    BY <1>1, <2>1 DEF HeldInv, Passes
  <2>2. CASE t = s /\ at'[s] = 0
    <3>1. \A i \in 1 .. Len(Script[s]) : ~(i < at'[s])
      BY <2>2, ScriptSteps
    <3> QED BY <2>2, <3>1 DEF Passes
  <2>3. CASE t = s /\ at'[s] # 0
    <3>1. ASSUME NEW i \in 1 .. Len(Script[s]), i < at'[s], Script[s][i].does = "publish"
          PROVE  Parcel[Script[s][i].what] \subseteq published
      <4>1. at[s] \in Nat /\ i \in Nat
        BY ScriptSteps DEF HeldInv
      <4>2. CASE i < at[s]
        BY <3>1, <4>2 DEF HeldInv, Passes
      <4>3. CASE i >= at[s]
        BY <2>3, <3>1, <4>3
      <4> QED BY <4>1, <4>2, <4>3
    <3> QED BY <1>1, <2>3, <3>1 DEF Passes
  <2> QED BY <2>1, <2>2, <2>3
<1>4. \A e : Holds(e)' = Holds(e)
  BY <1>1 DEF Holds
<1> QED BY <1>1, <1>2, <1>3, <1>4 DEF HeldInv

(* Another attempt forgets the last one's answers.                         *)
LEMMA HeldAttempt ==
    ASSUME HeldInv, NEW e \in Events, Attempt(e),
           UNCHANGED <<envvars, at, published, held>>
    PROVE  HeldInv'
<1>1. UNCHANGED <<reach, last, at, published, held>>
  BY DEF envvars
<1>2. \A f : Holds(f)' = Holds(f)
  BY <1>1 DEF Holds
<1>3. reach[e.author] \subseteq Relays
  BY Authors DEF HeldInv
<1>4. DOMAIN asked' = Events /\ \A f \in Events : asked'[f] \subseteq Relays
  BY <1>3 DEF Attempt, HeldInv
<1>5. DOMAIN accepted' = Events /\ \A f \in Events : accepted'[f] => Holds(f)'
  BY <1>2 DEF Attempt, HeldInv
<1>6. \A s \in Sides : Passes(s)'
  BY <1>1 DEF HeldInv, Passes
<1> QED BY <1>1, <1>2, <1>4, <1>5, <1>6 DEF HeldInv

(* The relays' answers: what is held stays held, and a relay says OK only  *)
(* to what it holds.                                                       *)
LEMMA HeldRelaying == ASSUME HeldInv, Relaying PROVE HeldInv'
<1>1. PICK e \in Events : Accepted(e) \/ TryAgain(e) \/ \E r \in Relays : RelayAnswers(e, r)
  BY DEF Relaying
<1>2. CASE Accepted(e)
  <2>1. /\ UNCHANGED <<reach, last, at, asked, held>> /\ accepted[e]
        /\ published' = published \cup {e}
        /\ accepted' = [accepted EXCEPT ![e] = FALSE]
    BY <1>2 DEF Accepted, envvars
  <2>2. \A f : Holds(f)' = Holds(f)
    BY <2>1 DEF Holds
  <2>3. \A s \in Sides : Passes(s)'
    BY <2>1 DEF HeldInv, Passes
  <2>4. \A f \in published' : Holds(f)'
    BY <2>1, <2>2 DEF HeldInv
  <2>5. DOMAIN accepted' = Events /\ \A f \in Events : accepted'[f] => Holds(f)'
    BY <2>1, <2>2 DEF HeldInv
  <2> QED BY <2>1, <2>3, <2>4, <2>5 DEF HeldInv
<1>3. CASE TryAgain(e)
  BY <1>1, <1>3, HeldAttempt DEF TryAgain, readvars
<1>4. CASE \E r \in Relays : RelayAnswers(e, r)
  <2>1. PICK r \in Relays : RelayAnswers(e, r)
    BY <1>4
  <2>2. /\ UNCHANGED <<reach, last, at, published>>
        /\ asked' = [asked EXCEPT ![e] = @ \ {r}]
        /\ held' \in {held, [held EXCEPT ![r] = @ \cup {e}]}
        /\ \/ held' = [held EXCEPT ![r] = @ \cup {e}]
              /\ accepted' = [accepted EXCEPT ![e] = TRUE]
           \/ accepted' = accepted
    BY <2>1 DEF RelayAnswers, envvars
  <2>3. DOMAIN held' = Relays /\ \A q \in Relays : held[q] \subseteq held'[q]
    BY <2>2 DEF HeldInv
  <2>4. \A f : Holds(f) => Holds(f)'
    BY <2>3 DEF Holds
  <2>5. DOMAIN accepted' = Events /\ \A f \in Events : accepted'[f] => Holds(f)'
    <3>1. CASE accepted' = accepted
      BY <2>4, <3>1 DEF HeldInv
    <3>2. CASE /\ held' = [held EXCEPT ![r] = @ \cup {e}]
               /\ accepted' = [accepted EXCEPT ![e] = TRUE]
      <4>1. Holds(e)'
        BY <3>2 DEF Holds, HeldInv
      <4> QED BY <2>4, <3>2, <4>1 DEF HeldInv
    <3> QED BY <2>2, <3>1, <3>2
  <2>6. DOMAIN asked' = Events /\ \A f \in Events : asked'[f] \subseteq Relays
    BY <2>2 DEF HeldInv
  <2>7. \A s \in Sides : Passes(s)'
    BY <2>2 DEF HeldInv, Passes
  <2> QED BY <2>2, <2>3, <2>4, <2>5, <2>6, <2>7 DEF HeldInv
<1> QED BY <1>1, <1>2, <1>3, <1>4

(* Only a finished publication is passed by a program that takes a step.   *)
LEMMA HeldProgram == ASSUME HeldInv, NEW s \in Sides, Program(s) PROVE HeldInv'
<1> DEFINE step == Script[s][at[s]]
<1>1. /\ DOMAIN at = Sides /\ at[s] \in 0 .. last[s]
      /\ last[s] \in 1 .. Len(Script[s]) /\ Len(Script[s]) = 11
  BY ScriptSteps DEF HeldInv
<1>2. Doing(s).does # "nothing" => at[s] # 0 /\ Doing(s) = step
  BY DEF Doing, Failed, Step
<1>3. CASE \E e \in Events : Begins(s, e)
  BY <1>3, HeldAttempt DEF Begins, readvars
(* One step on: past a publication only if it is complete.                 *)
<1>4. ASSUME Advances(s), UNCHANGED <<envvars, publishing>>,
             Doing(s).does # "nothing",
             Doing(s).does = "publish" => Parcel[Doing(s).what] \subseteq published
      PROVE  HeldInv'
  <2>1. at[s] < last[s] /\ at' = [at EXCEPT ![s] = @ + 1]
    BY <1>4 DEF Advances
  <2>2. DOMAIN at' = Sides /\ \A t \in Sides : t # s => at'[t] = at[t]
    BY <1>1, <2>1
  <2>3. at'[s] = at[s] + 1
    BY <1>1, <2>1
  <2>4. at'[s] \in at[s] .. last[s]
        /\ \A i \in 1 .. Len(Script[s]) : i >= at[s] /\ i < at'[s] => i = at[s]
    BY <1>1, <2>1, <2>3
  <2> QED BY <1>2, <1>4, <2>2, <2>4, HeldMoves
(* No step at all. *)
<1>5. ASSUME UNCHANGED at, UNCHANGED <<envvars, publishing>> PROVE HeldInv'
  <2>1. at'[s] \in at[s] .. last[s] /\ \A i \in 1 .. Len(Script[s]) :
                                           ~(i >= at[s] /\ i < at'[s])
    BY <1>1, <1>5
  <2>2. DOMAIN at' = Sides /\ \A t \in Sides : t # s => at'[t] = at[t]
    BY <1>1, <1>5
  <2> QED BY <1>5, <2>1, <2>2, HeldMoves
<1>6. CASE Joined(s)
  BY <1>4, <1>6 DEF Joined
<1>7. CASE GivesUp(s)
  <2>1. at'[s] = 0 /\ DOMAIN at' = Sides /\ \A t \in Sides : t # s => at'[t] = at[t]
    BY <1>1, <1>7 DEF GivesUp, Failed
  <2> QED BY <1>7, <2>1, HeldMoves DEF GivesUp
<1>8. CASE Notifications(s) \/ Subscribe(s) \/ Search(s)
  BY <1>4, <1>8 DEF Notifications, Subscribe, Search
<1>9. ASSUME NEW wait, NEW events, AfterHandling(s, wait, events),
             UNCHANGED <<envvars, publishing>>
      PROVE  HeldInv'
  <2>1. CASE Doing(s).does = "listen" /\ Advances(s)
    BY <1>4, <1>9, <2>1
  <2>2. CASE UNCHANGED at
    BY <1>5, <1>9, <2>2
  <2> QED BY <1>9, <2>1, <2>2 DEF AfterHandling
<1>10. CASE NextEvent(s)
  BY <1>9, <1>10 DEF NextEvent
<1>11. CASE \E answering \in SUBSET Relays : Poll(s, answering)
  BY <1>9, <1>11 DEF Poll
<1>12. CASE Fetch(s)
  <2>1. /\ Doing(s).does = "fetch" /\ at[s] + 1 < last[s]
        /\ \/ at' = [at EXCEPT ![s] = @ + 1]
           \/ at' = [at EXCEPT ![s] = @ + 2]
        /\ UNCHANGED <<envvars, publishing>>
    BY <1>12 DEF Fetch
  <2>2. at[s] \in 1 .. 11 /\ step.does = "fetch"
    BY <1>1, <1>2, <2>1
  <2>3. Script[s][at[s] + 1].does # "publish"
    BY <2>2, ScriptSteps
  <2>4. /\ DOMAIN at' = Sides /\ \A t \in Sides : t # s => at'[t] = at[t]
        /\ at'[s] \in {at[s] + 1, at[s] + 2}
    BY <1>1, <2>1
  <2>5. /\ at'[s] \in at[s] .. last[s]
        /\ \A i \in 1 .. Len(Script[s]) :
               i >= at[s] /\ i < at'[s] => i \in {at[s], at[s] + 1}
    BY <1>1, <2>1, <2>2, <2>4
  <2>6. \A i \in 1 .. Len(Script[s]) :
            i >= at[s] /\ i < at'[s] => Script[s][i].does # "publish"
    BY <2>2, <2>3, <2>5
  <2> QED BY <2>1, <2>4, <2>5, <2>6, HeldMoves
<1> QED BY <1>3, <1>6, <1>7, <1>8, <1>10, <1>11, <1>12 DEF Program

(* Every step keeps it. *)
LEMMA HeldStep == HeldInv /\ [MailNext]_mailvars => HeldInv'
<1> SUFFICES ASSUME HeldInv, [MailNext]_mailvars PROVE HeldInv'
  OBVIOUS
<1>1. CASE Relaying
  BY <1>1, HeldRelaying
<1>2. ASSUME NEW s \in Sides, Program(s) PROVE HeldInv'
  BY <1>2, HeldProgram
<1>3. ASSUME UNCHANGED <<envvars, at, publishing>> PROVE HeldInv'
  <2>1. "sender" \in Sides
    BY DEF Sides
  <2>2. /\ DOMAIN at' = Sides /\ \A t \in Sides : at'[t] = at[t]
        /\ at'["sender"] \in at["sender"] .. last["sender"]
        /\ \A i \in Nat : ~(i >= at["sender"] /\ i < at'["sender"])
    BY <1>3, <2>1, ScriptSteps DEF HeldInv
  <2>3. 1 .. Len(Script["sender"]) \subseteq Nat
    BY <2>1, ScriptSteps
  <2> QED BY <1>3, <2>1, <2>2, <2>3, HeldMoves
<1>4. ASSUME NEW s \in Sides, NEW r \in Relays, NEW e \in Events, Deliver(s, r, e)
      PROVE  HeldInv'
  BY <1>3, <1>4 DEF Deliver
<1>5. CASE UNCHANGED mailvars
  BY <1>3, <1>5 DEF mailvars
<1> QED BY <1>1, <1>2, <1>4, <1>5 DEF MailNext

(* PublishedIsHeld: for any relays, connections, retries and faults, from  *)
(* any step the programs begin at.                                         *)
THEOREM PublishedAlwaysHeld == MailSpec => []PublishedIsHeld
<1>1. HeldInv /\ [MailNext]_mailvars => HeldInv'
  BY HeldStep
<1>2. HeldInv => PublishedIsHeld
  BY DEF HeldInv, PublishedIsHeld, Passes, Holds
<1> QED BY <1>1, <1>2, HeldInitially, PTL DEF MailSpec
-----------------------------------------------------------------------------
(* What is awaited *)

(* The subscription a program has at a step of its script.                 *)
Subscribed(s, n) ==
    IF s = "sender"
    THEN IF n \in 3 .. 4 THEN "claim" ELSE IF n \in 8 .. 11 THEN "answer" ELSE ""
    ELSE IF n \in 4 .. 5 THEN "confirm" ELSE IF n \in 8 .. 11 THEN "offer" ELSE ""

(* Of what the subscription is about, what was looked at has been handled, *)
(* and what was delivered, too, unless it is in the stream or was dropped  *)
(* from it.  The set of what was looked at is empty when a wait begins.    *)
Concerns(s, e) == subscription[s] \in Waits /\ Accepts(subscription[s], e)
WayInv(s) ==
    at[s] # Failed =>
        /\ subscription[s] = Subscribed(s, at[s])
        /\ Doing(s).does = "subscribe" => looked_at[s] = {}
        /\ \A e \in looked_at[s] : Concerns(s, e) => e \in handled[s]
        /\ \A r \in Relays, e \in Events :
               <<r, e>> \in delivered[s] /\ Concerns(s, e) =>
                   e \in handled[s] \/ e \in Range(stream[s]) \/ lagged[s]
WayTypes ==
    /\ DOMAIN subscription = Sides /\ DOMAIN delivered = Sides /\ DOMAIN stream = Sides
    /\ DOMAIN lagged = Sides /\ DOMAIN looked_at = Sides /\ DOMAIN handled = Sides
    /\ \A s \in Sides : stream[s] \in Seq(Events) /\ lagged[s] \in BOOLEAN
MailWays == WayTypes /\ \A s \in Sides : WayInv(s)

(* The sender's steps one by one. *)
LEMMA SenderScript ==
    /\ Script["sender"][1] = Step("notifications", "claim")
    /\ Script["sender"][2] = Step("subscribe", "claim")
    /\ Script["sender"][3] = Step("publish", "rendezvous")
    /\ Script["sender"][4] = Step("listen", "claim")
    /\ Script["sender"][5] = Step("publish", "confirm")
    /\ Script["sender"][6] = Step("notifications", "answer")
    /\ Script["sender"][7] = Step("subscribe", "answer")
    /\ Script["sender"][8] = Step("publish", "offer")
    /\ Script["sender"][9] = Step("fetch", "answer")
    /\ Script["sender"][10] = Step("listen", "answer")
    /\ Script["sender"][11] = Step("connect", "answer")
BY SMTT(60) DEF Script, Mailbox, Step

(* The receiver's steps one by one. *)
LEMMA ReceiverScript ==
    /\ Script["receiver"][1] = Step("search", "rendezvous")
    /\ Script["receiver"][2] = Step("notifications", "confirm")
    /\ Script["receiver"][3] = Step("subscribe", "confirm")
    /\ Script["receiver"][4] = Step("publish", "claim")
    /\ Script["receiver"][5] = Step("listen", "confirm")
    /\ Script["receiver"][6] = Step("notifications", "offer")
    /\ Script["receiver"][7] = Step("subscribe", "offer")
    /\ Script["receiver"][8] = Step("fetch", "offer")
    /\ Script["receiver"][9] = Step("listen", "offer")
    /\ Script["receiver"][10] = Step("publish", "answer")
    /\ Script["receiver"][11] = Step("connect", "offer")
BY SMTT(60) DEF Script, Mailbox, Step

(* The waits, by name. *)
LEMMA WaitNames == Waits = {"claim", "confirm", "answer", "offer"}
BY DEF Waits, Awaited

(* How the subscription changes along the script.                          *)
Changes(s, n) ==
    LET does == Script[s][n].does
        what == Script[s][n].what
        then == Script[s][n + 1].does
    IN  /\ does \in {"publish", "search", "listen", "fetch"} /\ n < 11 => then # "subscribe"
        /\ does \in {"publish", "search", "notifications"} /\ n < 11 =>
               Subscribed(s, n + 1) = Subscribed(s, n)
        /\ does \in {"notifications", "subscribe"} => Subscribed(s, n) = ""
        /\ does = "subscribe" /\ n < 11 =>
               what \in Waits /\ Subscribed(s, n + 1) = what /\ then # "subscribe"
        /\ does \in {"fetch", "listen", "connect"} =>
               what \in Waits /\ Subscribed(s, n) = what
        /\ does = "fetch" /\ n < 10 =>
               /\ Subscribed(s, n + 1) = what /\ Subscribed(s, n + 2) = what
               /\ Script[s][n + 2].does # "subscribe"
        /\ does = "listen" /\ n < 11 =>
               Subscribed(s, n + 1) = IF what \in {"claim", "confirm"} THEN "" ELSE what

(* Sums, for the provers. *)
LEMMA Sums ==
    /\ 1 + 1 = 2 /\ 2 + 1 = 3 /\ 3 + 1 = 4 /\ 4 + 1 = 5 /\ 5 + 1 = 6 /\ 6 + 1 = 7
    /\ 7 + 1 = 8 /\ 8 + 1 = 9 /\ 9 + 1 = 10 /\ 10 + 1 = 11
    /\ 8 + 2 = 10 /\ 9 + 2 = 11
OBVIOUS

(* It changes where the script says so, and a stream was there before. *)
LEMMA ScriptSubscribes ==
    ASSUME NEW s \in Sides, NEW n \in 1 .. 11
    PROVE  /\ Changes(s, n)
           /\ Subscribed(s, n) # "" =>
                  \E i \in 1 .. 11 :
                      i < n /\ Script[s][i] = Step("notifications", Subscribed(s, n))
<1>1. n \in {1, 2, 3, 4, 5, 6, 7, 8, 9, 10, 11}
  OBVIOUS
<1>2. CASE s = "sender"
  <2>1. /\ Script[s][1].does = "notifications" /\ Script[s][2].does = "subscribe"
        /\ Script[s][3].does = "publish" /\ Script[s][4].does = "listen"
        /\ Script[s][5].does = "publish" /\ Script[s][6].does = "notifications"
        /\ Script[s][7].does = "subscribe" /\ Script[s][8].does = "publish"
        /\ Script[s][9].does = "fetch" /\ Script[s][10].does = "listen"
        /\ Script[s][11].does = "connect" /\ Script[s][2].what = "claim"
        /\ Script[s][4].what = "claim" /\ Script[s][7].what = "answer"
        /\ Script[s][9].what = "answer" /\ Script[s][10].what = "answer"
        /\ Script[s][11].what = "answer"
    BY <1>2, SenderScript DEF Step
  <2>2. /\ Subscribed(s, 1) = "" /\ Subscribed(s, 2) = ""
        /\ Subscribed(s, 3) = "claim" /\ Subscribed(s, 4) = "claim"
        /\ Subscribed(s, 5) = "" /\ Subscribed(s, 6) = ""
        /\ Subscribed(s, 7) = "" /\ Subscribed(s, 8) = "answer"
        /\ Subscribed(s, 9) = "answer" /\ Subscribed(s, 10) = "answer"
        /\ Subscribed(s, 11) = "answer"
    BY <1>2 DEF Subscribed
  <2>3. ASSUME Subscribed(s, n) # ""
        PROVE  \E i \in 1 .. 11 :
                   i < n /\ Script[s][i] = Step("notifications", Subscribed(s, n))
    <3>1. n \in {3, 4} \/ n \in {8, 9, 10, 11}
      BY <1>1, <2>2, <2>3
    <3>2. CASE n \in {3, 4}
      <4>1. Subscribed(s, n) = "claim" /\ 1 < n
        BY <1>2, <3>2 DEF Subscribed
      <4> QED BY <1>2, <4>1, SenderScript
    <3>3. CASE n \in {8, 9, 10, 11}
      <4>1. Subscribed(s, n) = "answer" /\ 6 < n
        BY <1>2, <3>3 DEF Subscribed
      <4> QED BY <1>2, <4>1, SenderScript
    <3> QED BY <3>1, <3>2, <3>3
  <2>4. Changes(s, n)
    <3>1. Changes(s, 1)
      BY <2>1, <2>2, Sums, WaitNames DEF Changes
    <3>2. Changes(s, 2)
      BY <2>1, <2>2, Sums, WaitNames DEF Changes
    <3>3. Changes(s, 3)
      BY <2>1, <2>2, Sums, WaitNames DEF Changes
    <3>4. Changes(s, 4)
      BY <2>1, <2>2, Sums, WaitNames DEF Changes
    <3>5. Changes(s, 5)
      BY <2>1, <2>2, Sums, WaitNames DEF Changes
    <3>6. Changes(s, 6)
      BY <2>1, <2>2, Sums, WaitNames DEF Changes
    <3>7. Changes(s, 7)
      BY <2>1, <2>2, Sums, WaitNames DEF Changes
    <3>8. Changes(s, 8)
      BY <2>1, <2>2, Sums, WaitNames DEF Changes
    <3>9. Changes(s, 9)
      BY <2>1, <2>2, Sums, WaitNames DEF Changes
    <3>10. Changes(s, 10)
      BY <2>1, <2>2, Sums, WaitNames DEF Changes
    <3>11. Changes(s, 11)
      BY <2>1, <2>2, Sums, WaitNames DEF Changes
    <3> QED BY <1>1, <3>1, <3>2, <3>3, <3>4, <3>5, <3>6, <3>7, <3>8, <3>9, <3>10, <3>11
  <2> QED BY <2>3, <2>4
<1>3. CASE s = "receiver"
  <2>1. /\ Script[s][1].does = "search" /\ Script[s][2].does = "notifications"
        /\ Script[s][3].does = "subscribe" /\ Script[s][4].does = "publish"
        /\ Script[s][5].does = "listen" /\ Script[s][6].does = "notifications"
        /\ Script[s][7].does = "subscribe" /\ Script[s][8].does = "fetch"
        /\ Script[s][9].does = "listen" /\ Script[s][10].does = "publish"
        /\ Script[s][11].does = "connect" /\ Script[s][3].what = "confirm"
        /\ Script[s][5].what = "confirm" /\ Script[s][7].what = "offer"
        /\ Script[s][8].what = "offer" /\ Script[s][9].what = "offer"
        /\ Script[s][11].what = "offer"
    BY <1>3, ReceiverScript DEF Step
  <2>2. /\ Subscribed(s, 1) = "" /\ Subscribed(s, 2) = ""
        /\ Subscribed(s, 3) = "" /\ Subscribed(s, 4) = "confirm"
        /\ Subscribed(s, 5) = "confirm" /\ Subscribed(s, 6) = ""
        /\ Subscribed(s, 7) = "" /\ Subscribed(s, 8) = "offer"
        /\ Subscribed(s, 9) = "offer" /\ Subscribed(s, 10) = "offer"
        /\ Subscribed(s, 11) = "offer"
    BY <1>3 DEF Subscribed
  <2>3. ASSUME Subscribed(s, n) # ""
        PROVE  \E i \in 1 .. 11 :
                   i < n /\ Script[s][i] = Step("notifications", Subscribed(s, n))
    <3>1. n \in {4, 5} \/ n \in {8, 9, 10, 11}
      BY <1>1, <2>2, <2>3
    <3>2. CASE n \in {4, 5}
      <4>1. Subscribed(s, n) = "confirm" /\ 2 < n
        BY <1>3, <3>2 DEF Subscribed
      <4> QED BY <1>3, <4>1, ReceiverScript
    <3>3. CASE n \in {8, 9, 10, 11}
      <4>1. Subscribed(s, n) = "offer" /\ 6 < n
        BY <1>3, <3>3 DEF Subscribed
      <4> QED BY <1>3, <4>1, ReceiverScript
    <3> QED BY <3>1, <3>2, <3>3
  <2>4. Changes(s, n)
    <3>1. Changes(s, 1)
      BY <2>1, <2>2, Sums, WaitNames DEF Changes
    <3>2. Changes(s, 2)
      BY <2>1, <2>2, Sums, WaitNames DEF Changes
    <3>3. Changes(s, 3)
      BY <2>1, <2>2, Sums, WaitNames DEF Changes
    <3>4. Changes(s, 4)
      BY <2>1, <2>2, Sums, WaitNames DEF Changes
    <3>5. Changes(s, 5)
      BY <2>1, <2>2, Sums, WaitNames DEF Changes
    <3>6. Changes(s, 6)
      BY <2>1, <2>2, Sums, WaitNames DEF Changes
    <3>7. Changes(s, 7)
      BY <2>1, <2>2, Sums, WaitNames DEF Changes
    <3>8. Changes(s, 8)
      BY <2>1, <2>2, Sums, WaitNames DEF Changes
    <3>9. Changes(s, 9)
      BY <2>1, <2>2, Sums, WaitNames DEF Changes
    <3>10. Changes(s, 10)
      BY <2>1, <2>2, Sums, WaitNames DEF Changes
    <3>11. Changes(s, 11)
      BY <2>1, <2>2, Sums, WaitNames DEF Changes
    <3> QED BY <1>1, <3>1, <3>2, <3>3, <3>4, <3>5, <3>6, <3>7, <3>8, <3>9, <3>10, <3>11
  <2> QED BY <2>3, <2>4
<1> QED BY <1>2, <1>3 DEF Sides

(* What comes to a stream, and what is read from it. *)
LEMMA StreamRange ==
    ASSUME NEW S, NEW q \in Seq(S)
    PROVE  /\ \A e \in S : Range(Append(q, e)) = Range(q) \cup {e}
           /\ q # <<>> => /\ Range(q) \subseteq Range(Tail(q)) \cup {Head(q)}
                         /\ Head(q) \in S /\ Tail(q) \in Seq(S)
<1>1. ASSUME NEW e \in S PROVE Range(Append(q, e)) = Range(q) \cup {e}
  <2>1. /\ DOMAIN q = 1 .. Len(q) /\ DOMAIN Append(q, e) = 1 .. Len(q) + 1 /\ Len(q) \in Nat
        /\ \A i \in 1 .. Len(q) : Append(q, e)[i] = q[i]
        /\ Append(q, e)[Len(q) + 1] = e
    OBVIOUS
  <2> QED BY <2>1 DEF Range
<1>2. ASSUME q # <<>>
      PROVE  /\ Range(q) \subseteq Range(Tail(q)) \cup {Head(q)}
             /\ Head(q) \in S /\ Tail(q) \in Seq(S)
  <2>1. Head(q) \in S /\ Tail(q) \in Seq(S) /\ Len(Tail(q)) = Len(q) - 1
    BY <1>2
  <2>2. ASSUME NEW i \in 1 .. Len(q) PROVE q[i] \in Range(Tail(q)) \cup {Head(q)}
    <3>1. CASE i = 1
      BY <3>1
    <3>2. CASE i # 1
      <4>1. i - 1 \in DOMAIN Tail(q) /\ Tail(q)[i - 1] = q[i]
        BY <1>2, <2>1, <3>2
      <4> QED BY <4>1 DEF Range
    <3> QED BY <3>1, <3>2
  <2>3. DOMAIN q = 1 .. Len(q)
    OBVIOUS
  <2>4. Range(q) \subseteq Range(Tail(q)) \cup {Head(q)}
    <3> SUFFICES ASSUME NEW x \in Range(q) PROVE x \in Range(Tail(q)) \cup {Head(q)}
      OBVIOUS
    <3>1. PICK i \in DOMAIN q : x = q[i]
      BY DEF Range
    <3> QED BY <2>2, <2>3, <3>1
  <2> QED BY <2>1, <2>4
<1> QED BY <1>1, <1>2

(* The relays are asked for everything a handler acts on. *)
LEMMA AcceptedIsAskedFor ==
    ASSUME NEW w \in Waits, NEW e \in Events, Accepts(w, e)
    PROVE  Matches(w, e) /\ (e = Confirm => w = "confirm")
<1>1. e \in {Rendezvous, Claim, Confirm, Offer, Answer, SignalEvent("sender", "candidate"),
            SignalEvent("receiver", "candidate")}
  <2>1. PICK b \in DOMAIN Parcel : e \in Parcel[b]
    BY DEF Events
  <2>2. b \in {"rendezvous", "claim", "confirm", "offer", "answer"}
    BY DEF Parcel
  <2> QED BY <2>1, <2>2 DEF Parcel
<1>2. Claim.type = "claim" /\ Claim.author = "receiver" /\ Claim.p = "sender"
  BY DEF Claim, Handshake, Other
<1>3. Confirm.type = "confirm" /\ Confirm.author = "sender" /\ Confirm.p = "receiver"
  BY DEF Confirm, Handshake, Other
<1>4. e.type = "signal" => e.p = "sender"
  <2>1. /\ Rendezvous.type = "rendezvous"
        /\ Offer.p = "sender" /\ Answer.p = "sender"
        /\ \A a, x : SignalEvent(a, x).p = "sender"
    BY DEF Rendezvous, Offer, Answer, SignalEvent
  <2> QED BY <1>1, <1>2, <1>3, <2>1
<1>5. e.type = "confirm" \/ e # Confirm
  BY <1>3
<1>6. CASE w = "claim"
  <2>1. Accepts("claim", e)
    BY <1>6
  <2>2. e.type = "claim" /\ e.author = "receiver" /\ e.p = "sender"
    BY <1>2, <1>3, <1>4, <2>1 DEF Accepts
  <2>3. Matches("claim", e)
    BY <2>2 DEF Matches, addressed_filter
  <2> QED BY <1>5, <1>6, <2>2, <2>3
<1>7. CASE w = "confirm"
  <2>1. Accepts("confirm", e)
    BY <1>7
  <2>2. e.type = "confirm" /\ e.author = "sender" /\ e.p = "receiver"
    BY <1>2, <1>3, <1>4, <2>1 DEF Accepts
  <2>3. Matches("confirm", e)
    BY <2>2 DEF Matches, addressed_filter, addressed_filter_from_author
  <2> QED BY <1>5, <1>7, <2>2, <2>3
<1>8. CASE w = "answer"
  <2>1. Accepts("answer", e)
    BY <1>8
  <2>2. e.type = "signal" /\ e.author = "receiver" /\ e.p = "sender"
    BY <1>2, <1>3, <1>4, <2>1 DEF Accepts
  <2>3. Matches("answer", e)
    BY <2>2 DEF Matches, addressed_filter, addressed_filter_from_author
  <2> QED BY <1>5, <1>8, <2>2, <2>3
<1>9. CASE w = "offer"
  <2>1. Accepts("offer", e)
    BY <1>9
  <2>2. e.type = "signal" /\ e.author = "sender" /\ e.p = "sender"
    BY <1>2, <1>3, <1>4, <2>1 DEF Accepts
  <2>3. Matches("offer", e)
    BY <2>2 DEF Matches, signal_filter_from_sender
  <2> QED BY <1>5, <1>9, <2>2, <2>3
<1> QED BY <1>6, <1>7, <1>8, <1>9, WaitNames

(* What a leg begins with: the subscription it would have got to. *)
LEMMA SubscribedAtFirst ==
    ASSUME NEW start, NEW s \in Sides, start[s] \in 1 .. 11
    PROVE  SubscribedFor(s, start) = Subscribed(s, start[s])
<1> DEFINE n == start[s]
           subs == Done(s, start, "subscribe")
           over == Done(s, start, "listen") \cap {"claim", "confirm"}
<1>1. CASE s = "sender"
  <2>1. subs = {Script[s][i].what : i \in {i \in {2, 7} : i < n}}
    <3>1. {i \in 1 .. n - 1 : Script[s][i].does = "subscribe"} = {i \in {2, 7} : i < n}
      BY <1>1, SenderScript DEF Step
    <3> QED BY <3>1 DEF Done
  <2>2. over = {Script[s][i].what : i \in {i \in {4, 10} : i < n}} \cap {"claim", "confirm"}
    <3>1. {i \in 1 .. n - 1 : Script[s][i].does = "listen"} = {i \in {4, 10} : i < n}
      BY <1>1, SenderScript DEF Step
    <3> QED BY <3>1 DEF Done
  <2>3. /\ Script[s][2].what = "claim" /\ Script[s][7].what = "answer"
        /\ Script[s][4].what = "claim" /\ Script[s][10].what = "answer"
    BY <1>1, SenderScript DEF Step
  <2> HIDE DEF subs, over
  <2>4. subs \ over = IF n \in 3 .. 4 THEN {"claim"}
                      ELSE IF n \in 8 .. 11 THEN {"answer"} ELSE {}
    BY <2>1, <2>2, <2>3
  <2> QED BY <1>1, <2>4 DEF SubscribedFor, Subscribed, subs, over
<1>2. CASE s = "receiver"
  <2>1. subs = {Script[s][i].what : i \in {i \in {3, 7} : i < n}}
    <3>1. {i \in 1 .. n - 1 : Script[s][i].does = "subscribe"} = {i \in {3, 7} : i < n}
      BY <1>2, ReceiverScript DEF Step
    <3> QED BY <3>1 DEF Done
  <2>2. over = {Script[s][i].what : i \in {i \in {5, 9} : i < n}} \cap {"claim", "confirm"}
    <3>1. {i \in 1 .. n - 1 : Script[s][i].does = "listen"} = {i \in {5, 9} : i < n}
      BY <1>2, ReceiverScript DEF Step
    <3> QED BY <3>1 DEF Done
  <2>3. /\ Script[s][3].what = "confirm" /\ Script[s][7].what = "offer"
        /\ Script[s][5].what = "confirm" /\ Script[s][9].what = "offer"
    BY <1>2, ReceiverScript DEF Step
  <2> HIDE DEF subs, over
  <2>4. subs \ over = IF n \in 4 .. 5 THEN {"confirm"}
                      ELSE IF n \in 8 .. 11 THEN {"offer"} ELSE {}
    BY <2>1, <2>2, <2>3
  <2> QED BY <1>2, <2>4 DEF SubscribedFor, Subscribed, subs, over
<1> QED BY <1>1, <1>2 DEF Sides

(* Where a program is. *)
LEMMA Place ==
    ASSUME HeldInv, NEW s \in Sides
    PROVE  /\ DOMAIN at = Sides /\ last[s] \in 1 .. 11 /\ at[s] \in 0 .. 11
           /\ at[s] <= last[s]
           /\ Doing(s).does # "nothing" =>
                  /\ at[s] \in 1 .. 11 /\ at[s] # Failed
                  /\ Doing(s) = Script[s][at[s]] /\ Changes(s, at[s])
<1>1. /\ DOMAIN at = Sides /\ last[s] \in 1 .. Len(Script[s]) /\ at[s] \in 0 .. last[s]
      /\ Len(Script[s]) = 11
  BY ScriptSteps DEF HeldInv
<1>2. Doing(s).does # "nothing" => at[s] # Failed /\ Doing(s) = Script[s][at[s]]
  BY DEF Doing, Step
<1>3. at[s] \in 0 .. 11 /\ last[s] \in 1 .. 11 /\ at[s] <= last[s]
  BY <1>1
<1>4. at[s] # Failed => at[s] \in 1 .. 11
  BY <1>3 DEF Failed
<1> QED BY <1>1, <1>2, <1>3, <1>4, ScriptSubscribes

(* What came before a leg has been handled. *)
LEMMA WaysInitially == MailInit => MailWays
<1> SUFFICES ASSUME MailInit PROVE MailWays
  OBVIOUS
<1>1. \A s \in Sides : at[s] \in 0 .. 11 /\ last[s] \in 1 .. 11
  BY HeldInitially, Place
<1>2. WayTypes
  BY DEF MailInit, WayTypes
<1>3. ASSUME NEW s \in Sides, at[s] # Failed PROVE WayInv(s)
  <2>1. at[s] \in 1 .. 11
    BY <1>1, <1>3 DEF Failed
  <2>2. subscription[s] = Subscribed(s, at[s]) /\ SubscribedFor(s, at) = Subscribed(s, at[s])
    BY <2>1, SubscribedAtFirst DEF MailInit
  <2>3. /\ looked_at[s] = Received(s, at) /\ delivered[s] = Relays \X Received(s, at)
        /\ handled[s] = {e \in Received(s, at) : Accepts(subscription[s], e)}
    BY <2>2 DEF MailInit
  <2>4. Doing(s).does = "subscribe" => looked_at[s] = {}
    <3>1. Doing(s).does = "subscribe" => Subscribed(s, at[s]) = ""
      BY <1>3, <2>1, ScriptSubscribes DEF Doing, Changes
    <3> QED BY <2>2, <2>3, <3>1 DEF Received
  <2> QED BY <2>2, <2>3, <2>4 DEF WayInv, Concerns
<1> QED BY <1>2, <1>3 DEF MailWays, WayInv

(* A step that concerns only one program's reading. *)
LEMMA WaysOneSide ==
    ASSUME MailWays, NEW s \in Sides, WayTypes', WayInv(s)',
           \A t \in Sides : t # s =>
               /\ at'[t] = at[t] /\ subscription'[t] = subscription[t]
               /\ delivered'[t] = delivered[t] /\ stream'[t] = stream[t]
               /\ lagged'[t] = lagged[t] /\ looked_at'[t] = looked_at[t]
               /\ handled'[t] = handled[t]
    PROVE  MailWays'
<1> SUFFICES ASSUME NEW t \in Sides, t # s PROVE WayInv(t)'
  BY DEF MailWays
<1>1. Doing(t)' = Doing(t)
  BY DEF Doing
<1>2. \A e : Concerns(t, e)' = Concerns(t, e)
  BY DEF Concerns
<1> QED BY <1>1, <1>2 DEF MailWays, WayInv

(* Nothing that is read changes.                                           *)
LEMMA WaysIdle ==
    ASSUME MailWays, UNCHANGED <<at, readvars>> PROVE MailWays'
<1>1. /\ UNCHANGED <<at, subscription, delivered, stream, lagged, looked_at, handled>>
  BY DEF readvars
<1>2. WayTypes'
  BY <1>1 DEF MailWays, WayTypes
<1>3. ASSUME NEW s \in Sides PROVE WayInv(s)'
  <2>1. Doing(s)' = Doing(s) /\ \A e : Concerns(s, e)' = Concerns(s, e)
    BY <1>1 DEF Doing, Concerns
  <2> QED BY <1>1, <2>1 DEF MailWays, WayInv
<1> QED BY <1>2, <1>3 DEF MailWays

(* What a handler does with events of its wait, new or seen before. *)
LEMMA WayHandles ==
    ASSUME MailWays, NEW s \in Sides, at[s] # Failed, NEW events,
           Handles(s, subscription[s], events),
           UNCHANGED <<delivered, lagged>>, DOMAIN stream' = Sides,
           \A e \in Range(stream[s]) : e \in Range(stream'[s]) \/ e \in events,
           subscription'[s] \in {subscription[s], ""},
           subscription'[s] = Subscribed(s, at'[s]),
           Doing(s)'.does # "subscribe"
    PROVE  WayInv(s)'
<1>1. /\ WayInv(s) /\ WayTypes
  BY DEF MailWays
<1>2. /\ looked_at'[s] = looked_at[s] \cup events
      /\ handled'[s] = handled[s]
             \cup {e \in events \ looked_at[s] : Accepts(subscription[s], e)}
  BY <1>1 DEF Handles, WayTypes
<1>3. \A e : Concerns(s, e)' => Concerns(s, e)
  BY WaitNames DEF Concerns
<1>4. \A e : Concerns(s, e) /\ e \in events => e \in handled'[s]
  BY <1>1, <1>2 DEF WayInv, Concerns
<1>5. \A e \in looked_at'[s] : Concerns(s, e)' => e \in handled'[s]
  BY <1>1, <1>2, <1>3, <1>4 DEF WayInv
<1>6. ASSUME NEW r \in Relays, NEW e \in Events, <<r, e>> \in delivered'[s], Concerns(s, e)'
      PROVE  e \in handled'[s] \/ e \in Range(stream'[s]) \/ lagged'[s]
  BY <1>1, <1>2, <1>3, <1>4, <1>6 DEF WayInv
<1> QED BY <1>5, <1>6 DEF WayInv

(* After handling: the wait goes on, or ends where the script says. *)
GoesOn(s) ==
    /\ DOMAIN at' = Sides /\ DOMAIN subscription' = Sides
    /\ \A t \in Sides : t # s => at'[t] = at[t] /\ subscription'[t] = subscription[t]
    /\ subscription'[s] \in {subscription[s], ""}
    /\ subscription'[s] = Subscribed(s, at'[s])
    /\ Doing(s)'.does # "subscribe"

(* It does, for every wait. *)
LEMMA WayAfter ==
    ASSUME HeldInv, MailWays, NEW s \in Sides, NEW events,
           Doing(s).does \in {"listen", "connect"},
           AfterHandling(s, Doing(s).what, events)
    PROVE  GoesOn(s)
<1>1. /\ DOMAIN at = Sides /\ at[s] \in 1 .. 11 /\ at[s] # Failed /\ last[s] \in 1 .. 11
      /\ Doing(s) = Script[s][at[s]] /\ Changes(s, at[s])
  BY Place
<1>2. /\ DOMAIN subscription = Sides /\ subscription[s] = Subscribed(s, at[s])
      /\ Doing(s).what = subscription[s]
  BY <1>1 DEF MailWays, WayTypes, WayInv, Changes
<1>3. CASE UNCHANGED <<at, subscription>>
  <2>1. Doing(s)' = Doing(s)
    BY <1>3 DEF Doing
  <2> QED BY <1>1, <1>2, <1>3, <2>1 DEF GoesOn
<1>4. CASE /\ Doing(s).does = "listen" /\ Advances(s)
           /\ subscription' = IF Doing(s).what \in {"claim", "confirm"}
                              THEN [subscription EXCEPT ![s] = ""] ELSE subscription
  <2>1. at[s] < 11 /\ at' = [at EXCEPT ![s] = @ + 1] /\ at'[s] = at[s] + 1
    <3>1. at[s] < last[s] /\ at' = [at EXCEPT ![s] = @ + 1]
      BY <1>4 DEF Advances
    <3> QED BY <1>1, <3>1
  <2>2. at'[s] # Failed
    BY <1>1, <2>1 DEF Failed
  <2>3. Doing(s)'.does # "subscribe"
    <3>1. Doing(s)' = Script[s][at[s] + 1]
      BY <2>1, <2>2 DEF Doing
    <3> QED BY <1>1, <1>4, <2>1, <3>1 DEF Changes
  <2>4. subscription'[s] = Subscribed(s, at'[s])
    BY <1>1, <1>2, <1>4, <2>1 DEF Changes
  <2>5. subscription'[s] \in {subscription[s], ""}
    BY <1>2, <1>4
  <2>6. /\ DOMAIN at' = Sides /\ DOMAIN subscription' = Sides
        /\ \A t \in Sides : t # s =>
               at'[t] = at[t] /\ subscription'[t] = subscription[t]
    BY <1>1, <1>2, <1>4, <2>1
  <2> QED BY <2>3, <2>4, <2>5, <2>6 DEF GoesOn
<1> QED BY <1>3, <1>4 DEF AfterHandling

(* A step of the script with nothing to read. *)
LEMMA WayPasses ==
    ASSUME HeldInv, MailWays, NEW s \in Sides,
           Doing(s).does \in {"publish", "search"}, Advances(s), UNCHANGED readvars
    PROVE  MailWays'
<1>1. /\ DOMAIN at = Sides /\ at[s] \in 1 .. 11 /\ at[s] # Failed /\ last[s] \in 1 .. 11
      /\ Doing(s) = Script[s][at[s]] /\ Changes(s, at[s])
  BY Place
<1>2. at[s] < 11 /\ at' = [at EXCEPT ![s] = @ + 1] /\ at'[s] = at[s] + 1
  BY <1>1 DEF Advances
<1>3. UNCHANGED <<subscription, delivered, stream, lagged, looked_at, handled>>
  BY DEF readvars
<1>4. Doing(s)'.does # "subscribe"
  <2>1. at'[s] # Failed
    BY <1>1, <1>2 DEF Failed
  <2>2. Doing(s)' = Script[s][at[s] + 1]
    BY <1>2, <2>1 DEF Doing
  <2> QED BY <1>1, <1>2, <2>2 DEF Changes
<1>5. subscription[s] = Subscribed(s, at'[s])
  BY <1>1, <1>2 DEF Changes, MailWays, WayInv
<1>6. WayInv(s)'
  <2>1. \A e : Concerns(s, e)' = Concerns(s, e)
    BY <1>3 DEF Concerns
  <2> QED BY <1>1, <1>3, <1>4, <1>5, <2>1 DEF MailWays, WayInv
<1>7. WayTypes'
  BY <1>3 DEF MailWays, WayTypes
<1> QED BY <1>1, <1>2, <1>3, <1>6, <1>7, WaysOneSide

(* A new stream and a new set, before there is a subscription to miss. *)
LEMMA WaysNotifications ==
    ASSUME HeldInv, MailWays, NEW s \in Sides, Notifications(s) PROVE MailWays'
<1>1. /\ DOMAIN at = Sides /\ at[s] \in 1 .. 11 /\ at[s] # Failed /\ last[s] \in 1 .. 11
      /\ Script[s][at[s]].does = "notifications" /\ Changes(s, at[s])
  BY Place DEF Notifications
<1>2. /\ at[s] < last[s] /\ at' = [at EXCEPT ![s] = @ + 1]
      /\ stream' = [stream EXCEPT ![s] = <<>>]
      /\ looked_at' = [looked_at EXCEPT ![s] = {}]
      /\ UNCHANGED <<subscription, delivered, lagged, handled>>
  BY DEF Notifications, Advances
<1>3. at[s] < 11 /\ at'[s] = at[s] + 1
  BY <1>1, <1>2
<1>4. Subscribed(s, at'[s]) = "" /\ subscription[s] = ""
  BY <1>1, <1>3 DEF Changes, MailWays, WayInv
<1>5. looked_at'[s] = {}
  BY <1>2 DEF MailWays, WayTypes
<1>6. WayInv(s)'
  <2>1. \A e : ~Concerns(s, e)'
    BY <1>2, <1>4, WaitNames DEF Concerns
  <2> QED BY <1>2, <1>4, <1>5, <2>1 DEF WayInv
<1>7. WayTypes'
  BY <1>2 DEF MailWays, WayTypes
<1>8. \A t \in Sides : t # s =>
          at'[t] = at[t] /\ stream'[t] = stream[t] /\ looked_at'[t] = looked_at[t]
  BY <1>1, <1>2 DEF MailWays, WayTypes
<1> QED BY <1>2, <1>6, <1>7, <1>8, WaysOneSide

(* A new subscription: nothing was looked at, nothing is delivered yet. *)
LEMMA WaysSubscribe ==
    ASSUME HeldInv, MailWays, NEW s \in Sides, Subscribe(s) PROVE MailWays'
<1>1. /\ DOMAIN at = Sides /\ at[s] \in 1 .. 11 /\ at[s] # Failed /\ last[s] \in 1 .. 11
      /\ Doing(s) = Script[s][at[s]] /\ Changes(s, at[s])
  BY Place DEF Subscribe
<1>2. /\ Doing(s).does = "subscribe"
      /\ at[s] < last[s] /\ at' = [at EXCEPT ![s] = @ + 1]
      /\ subscription' = [subscription EXCEPT ![s] = Doing(s).what]
      /\ delivered' = [delivered EXCEPT ![s] = {}]
      /\ UNCHANGED <<stream, lagged, looked_at, handled>>
  BY DEF Subscribe, Advances
<1>3. at[s] < 11 /\ at'[s] = at[s] + 1
  BY <1>1, <1>2
<1>4. Doing(s)' = Script[s][at[s] + 1]
  <2>1. at'[s] # Failed
    BY <1>1, <1>3 DEF Failed
  <2> QED BY <1>3, <2>1 DEF Doing
<1>5. Subscribed(s, at'[s]) = Doing(s).what /\ Doing(s)'.does # "subscribe"
  BY <1>1, <1>2, <1>3, <1>4 DEF Changes
<1>6. /\ subscription'[s] = Doing(s).what /\ delivered'[s] = {} /\ looked_at[s] = {}
  BY <1>1, <1>2 DEF MailWays, WayTypes, WayInv
<1>7. WayInv(s)'
  BY <1>2, <1>5, <1>6 DEF WayInv
<1>8. WayTypes'
  BY <1>2 DEF MailWays, WayTypes
<1>9. \A t \in Sides : t # s =>
          /\ at'[t] = at[t] /\ subscription'[t] = subscription[t]
          /\ delivered'[t] = delivered[t]
  BY <1>1, <1>2 DEF MailWays, WayTypes
<1> QED BY <1>2, <1>7, <1>8, <1>9, WaysOneSide

(* The next event of the stream is looked at. *)
LEMMA WaysNextEvent ==
    ASSUME HeldInv, MailWays, NEW s \in Sides, NextEvent(s) PROVE MailWays'
<1> DEFINE e == Head(stream[s])
<1>1. /\ DOMAIN at = Sides /\ at[s] \in 1 .. 11 /\ at[s] # Failed
      /\ Doing(s) = Script[s][at[s]] /\ Changes(s, at[s])
  BY Place DEF NextEvent
<1>2. /\ Doing(s).does \in {"listen", "connect"} /\ stream[s] # <<>>
      /\ stream' = [stream EXCEPT ![s] = Tail(@)]
      /\ Handles(s, Doing(s).what, {e})
      /\ AfterHandling(s, Doing(s).what, {e} \ looked_at[s])
      /\ UNCHANGED <<delivered, lagged>>
  BY DEF NextEvent
<1>3. Doing(s).what = subscription[s]
  BY <1>1, <1>2 DEF MailWays, WayInv, Changes
<1>4. WayTypes
  BY DEF MailWays
<1>5. /\ stream[s] \in Seq(Events) /\ stream'[s] = Tail(stream[s])
      /\ Range(stream[s]) \subseteq Range(stream'[s]) \cup {e}
      /\ stream'[s] \in Seq(Events) /\ DOMAIN stream' = Sides
  BY <1>2, <1>4, StreamRange DEF WayTypes
<1>6. /\ DOMAIN looked_at' = Sides /\ DOMAIN handled' = Sides
      /\ \A t \in Sides : t # s => /\ stream'[t] = stream[t]
                                   /\ looked_at'[t] = looked_at[t]
                                   /\ handled'[t] = handled[t]
  BY <1>2, <1>4 DEF Handles, WayTypes
<1>7. GoesOn(s)
  BY <1>2, WayAfter
<1>8. WayInv(s)'
  <2>1. Handles(s, subscription[s], {e})
    BY <1>2, <1>3
  <2>2. \A f \in Range(stream[s]) : f \in Range(stream'[s]) \/ f \in {e}
    BY <1>5
  <2>3. /\ at[s] # Failed /\ UNCHANGED <<delivered, lagged>> /\ DOMAIN stream' = Sides
        /\ subscription'[s] \in {subscription[s], ""}
        /\ subscription'[s] = Subscribed(s, at'[s]) /\ Doing(s)'.does # "subscribe"
    BY <1>1, <1>2, <1>5, <1>7 DEF GoesOn
  <2> QED BY <2>1, <2>2, <2>3, WayHandles
<1>9. WayTypes'
  <2>1. \A t \in Sides : stream'[t] \in Seq(Events)
    BY <1>4, <1>5, <1>6 DEF WayTypes
  <2> QED BY <1>2, <1>4, <1>5, <1>6, <1>7, <2>1 DEF GoesOn, WayTypes
<1> QED BY <1>2, <1>6, <1>7, <1>8, <1>9, WaysOneSide DEF GoesOn

(* The poll finds what the stream has not brought. *)
LEMMA WaysPoll ==
    ASSUME HeldInv, MailWays, NEW s \in Sides, NEW answering, Poll(s, answering)
    PROVE  MailWays'
<1> DEFINE events == Fetched(s, "confirm", answering) \ looked_at[s]
<1>1. Doing(s).does = "listen" /\ Doing(s).what = "confirm"
  BY DEF Poll, Step
<1>2. /\ DOMAIN at = Sides /\ at[s] \in 1 .. 11 /\ at[s] # Failed
      /\ Doing(s) = Script[s][at[s]] /\ Changes(s, at[s])
  BY <1>1, Place
<1>3. /\ Handles(s, "confirm", events) /\ AfterHandling(s, "confirm", events)
      /\ UNCHANGED <<delivered, stream, lagged>>
  BY DEF Poll
<1>4. subscription[s] = "confirm"
  BY <1>1, <1>2 DEF MailWays, WayInv, Changes
<1>5. WayTypes
  BY DEF MailWays
<1>6. /\ DOMAIN looked_at' = Sides /\ DOMAIN handled' = Sides /\ DOMAIN stream' = Sides
      /\ \A t \in Sides : t # s => looked_at'[t] = looked_at[t] /\ handled'[t] = handled[t]
  BY <1>3, <1>5 DEF Handles, WayTypes
<1> HIDE DEF events
<1>7. GoesOn(s)
  <2>1. Doing(s).does \in {"listen", "connect"} /\ AfterHandling(s, Doing(s).what, events)
    BY <1>1, <1>3
  <2> QED BY <2>1, WayAfter
<1>8. WayInv(s)'
  <2>1. Handles(s, subscription[s], events)
    BY <1>3, <1>4
  <2>2. \A f \in Range(stream[s]) : f \in Range(stream'[s]) \/ f \in events
    BY <1>3
  <2>3. /\ at[s] # Failed /\ UNCHANGED <<delivered, lagged>> /\ DOMAIN stream' = Sides
        /\ subscription'[s] \in {subscription[s], ""}
        /\ subscription'[s] = Subscribed(s, at'[s]) /\ Doing(s)'.does # "subscribe"
    BY <1>2, <1>3, <1>6, <1>7 DEF GoesOn
  <2> QED BY <2>1, <2>2, <2>3, WayHandles
<1>9. WayTypes'
  BY <1>3, <1>5, <1>6, <1>7 DEF GoesOn, WayTypes
<1> QED BY <1>3, <1>6, <1>7, <1>8, <1>9, WaysOneSide DEF GoesOn

(* A fetch, complete or cut short at the first offer. *)
LEMMA WaysFetch ==
    ASSUME HeldInv, MailWays, NEW s \in Sides, Fetch(s) PROVE MailWays'
<1>1. /\ DOMAIN at = Sides /\ at[s] \in 1 .. 11 /\ at[s] # Failed /\ last[s] \in 1 .. 11
      /\ Doing(s) = Script[s][at[s]] /\ Changes(s, at[s]) /\ Doing(s).does = "fetch"
  BY Place DEF Fetch
<1>2. PICK part :
          /\ Handles(s, Doing(s).what, part)
          /\ at[s] + 1 < last[s]
          /\ at' = [at EXCEPT ![s] =
                 @ + IF Awaited[Doing(s).what] \in part THEN 2 ELSE 1]
          /\ UNCHANGED <<subscription, delivered, stream, lagged>>
  BY DEF Fetch
<1>3. /\ at[s] < 10 /\ at'[s] \in {at[s] + 1, at[s] + 2} /\ at'[s] # Failed
      /\ \A t \in Sides : t # s => at'[t] = at[t]
  BY <1>1, <1>2 DEF Failed
<1>4. Doing(s)' = Script[s][at'[s]]
  BY <1>3 DEF Doing
<1>5. Doing(s).what = subscription[s]
  BY <1>1 DEF MailWays, WayInv, Changes
<1>6. Subscribed(s, at'[s]) = subscription[s] /\ Doing(s)'.does # "subscribe"
  <2>1. /\ Subscribed(s, at[s] + 1) = Doing(s).what
        /\ Subscribed(s, at[s] + 2) = Doing(s).what
        /\ Script[s][at[s] + 1].does # "subscribe"
        /\ Script[s][at[s] + 2].does # "subscribe"
    BY <1>1, <1>3 DEF Changes
  <2> QED BY <1>3, <1>4, <1>5, <2>1
<1>7. WayTypes
  BY DEF MailWays
<1>8. /\ DOMAIN looked_at' = Sides /\ DOMAIN handled' = Sides /\ DOMAIN stream' = Sides
      /\ \A t \in Sides : t # s => looked_at'[t] = looked_at[t] /\ handled'[t] = handled[t]
  BY <1>2, <1>7 DEF Handles, WayTypes
<1>9. WayInv(s)'
  BY <1>1, <1>2, <1>5, <1>6, <1>8, WayHandles
<1>10. WayTypes'
  BY <1>2, <1>7, <1>8 DEF WayTypes
<1> QED BY <1>2, <1>3, <1>8, <1>9, <1>10, WaysOneSide

(* An event is announced: into the stream, which may push another out. *)
LEMMA WaysDeliver ==
    ASSUME HeldInv, MailWays, NEW s \in Sides, NEW r \in Relays, NEW e \in Events,
           Deliver(s, r, e)
    PROVE  MailWays'
<1>1. /\ at[s] # Failed /\ subscription[s] \in Waits
      /\ delivered' = [delivered EXCEPT ![s] = @ \cup {<<r, e>>}]
      /\ Announce(s, e)
      /\ UNCHANGED <<at, subscription, looked_at, handled>>
  BY DEF Deliver
<1>2. WayTypes /\ WayInv(s)
  BY DEF MailWays
<1>3. Listening(s)
  <2>1. at[s] \in 1 .. 11 /\ Len(Script[s]) = 11
    BY <1>1, Place, ScriptSteps DEF Failed
  <2>2. subscription[s] = Subscribed(s, at[s]) /\ subscription[s] # ""
    BY <1>1, <1>2, WaitNames DEF WayInv
  <2>3. PICK i \in 1 .. 11 :
            i < at[s] /\ Script[s][i] = Step("notifications", Subscribed(s, at[s]))
    BY <2>1, <2>2, ScriptSubscribes
  <2> QED BY <2>1, <2>2, <2>3 DEF Listening
<1> DEFINE queue == Append(stream[s], e)
           full == Len(stream[s]) = Capacity
<1>4. /\ stream' = [stream EXCEPT ![s] = IF full THEN Tail(queue) ELSE queue]
      /\ lagged' = [lagged EXCEPT ![s] = @ \/ full]
  BY <1>1, <1>3 DEF Announce
<1>5. /\ stream[s] \in Seq(Events) /\ queue \in Seq(Events) /\ queue # <<>>
      /\ Range(queue) = Range(stream[s]) \cup {e} /\ Tail(queue) \in Seq(Events)
  BY <1>2, StreamRange DEF WayTypes
<1> HIDE DEF queue, full
<1>6. /\ DOMAIN stream' = Sides /\ DOMAIN lagged' = Sides /\ DOMAIN delivered' = Sides
      /\ stream'[s] = IF full THEN Tail(queue) ELSE queue
      /\ lagged'[s] = (lagged[s] \/ full)
      /\ delivered'[s] = delivered[s] \cup {<<r, e>>}
      /\ \A t \in Sides : t # s => /\ stream'[t] = stream[t] /\ lagged'[t] = lagged[t]
                                   /\ delivered'[t] = delivered[t]
  BY <1>1, <1>2, <1>4 DEF WayTypes
<1>7. WayTypes'
  <2>1. stream'[s] \in Seq(Events) /\ lagged'[s] \in BOOLEAN
    BY <1>5, <1>6
  <2> QED BY <1>1, <1>2, <1>6, <2>1 DEF WayTypes
<1>8. WayInv(s)'
  <2>1. Doing(s)' = Doing(s) /\ \A f : Concerns(s, f)' = Concerns(s, f)
    BY <1>1 DEF Doing, Concerns
  <2>2. ASSUME NEW q \in Relays, NEW f \in Events, <<q, f>> \in delivered'[s], Concerns(s, f)
        PROVE  f \in handled[s] \/ f \in Range(stream'[s]) \/ lagged'[s]
    <3>1. CASE full
      BY <1>6, <3>1
    <3>2. CASE ~full
      <4>1. Range(stream'[s]) = Range(stream[s]) \cup {e} /\ (lagged[s] => lagged'[s])
        BY <1>5, <1>6, <3>2
      <4>2. CASE <<q, f>> \in delivered[s]
        BY <1>1, <1>2, <2>2, <4>1, <4>2 DEF WayInv
      <4>3. CASE <<q, f>> = <<r, e>>
        BY <4>1, <4>3
      <4> QED BY <1>6, <2>2, <4>2, <4>3
    <3> QED BY <3>1, <3>2
  <2> QED BY <1>1, <1>2, <2>1, <2>2 DEF WayInv
<1> QED BY <1>1, <1>6, <1>7, <1>8, WaysOneSide

(* What a program does, and where it stops. *)
LEMMA WaysProgram ==
    ASSUME HeldInv, MailWays, NEW s \in Sides, Program(s) PROVE MailWays'
<1>1. CASE \E e \in Events : Begins(s, e)
  BY <1>1, WaysIdle DEF Begins
<1>2. CASE Joined(s) \/ Search(s)
  BY <1>2, WayPasses DEF Joined, Search
<1>3. CASE GivesUp(s)
  <2>1. at' = [at EXCEPT ![s] = Failed]
        /\ UNCHANGED <<subscription, delivered, stream, lagged, looked_at, handled>>
    BY <1>3 DEF GivesUp, readvars
  <2>2. at'[s] = Failed /\ \A t \in Sides : t # s => at'[t] = at[t]
    BY <2>1, Place
  <2>3. WayTypes' /\ WayInv(s)'
    BY <2>1, <2>2 DEF MailWays, WayTypes, WayInv
  <2> QED BY <2>1, <2>2, <2>3, WaysOneSide
<1>4. CASE \E answering \in SUBSET Relays : Poll(s, answering)
  BY <1>4, WaysPoll
<1> QED BY <1>1, <1>2, <1>3, <1>4, WaysNotifications, WaysSubscribe, WaysNextEvent,
           WaysFetch DEF Program

(* What is not on its way has been handled, or dropped.                    *)
LEMMA WaysSuffice == HeldInv /\ MailWays => NothingSlipsPast
<1> SUFFICES ASSUME HeldInv, MailWays, NEW s \in Sides, NEW r \in Relays, NEW e \in Events,
                    r \in reach[s], e \in held[r], Awaits(s, e)
             PROVE  OnItsWay(s, r, e) \/ (lagged[s] /\ (e = Confirm => Polled(s, e)))
  BY DEF NothingSlipsPast
<1>1. /\ Doing(s).does \in {"listen", "connect"} /\ Accepts(Doing(s).what, e)
      /\ e \notin handled[s]
  BY DEF Awaits
<1>2. at[s] # Failed /\ Doing(s) = Script[s][at[s]] /\ Changes(s, at[s])
  BY <1>1, Place
<1>3. subscription[s] = Doing(s).what /\ subscription[s] \in Waits
  BY <1>1, <1>2 DEF MailWays, WayInv, Changes
<1>4. Concerns(s, e)
  BY <1>1, <1>3 DEF Concerns
<1>5. Matches(Doing(s).what, e) /\ (e = Confirm => Doing(s).what = "confirm")
  BY <1>1, <1>3, AcceptedIsAskedFor
<1>6. e \notin looked_at[s]
  BY <1>1, <1>2, <1>4 DEF MailWays, WayInv
<1>7. CASE <<r, e>> \notin delivered[s]
  BY <1>3, <1>5, <1>7 DEF OnItsWay
<1>8. CASE <<r, e>> \in delivered[s]
  <2>1. e \in Range(stream[s]) \/ lagged[s]
    BY <1>1, <1>2, <1>4, <1>8 DEF MailWays, WayInv
  <2> QED BY <1>5, <1>6, <2>1 DEF OnItsWay, Polled
<1> QED BY <1>7, <1>8

(* NothingSlipsPast: for any relays, connections, retries, faults and size *)
(* of the stream, from any step the programs begin at.                     *)
THEOREM NothingEverSlipsPast == MailSpec => []NothingSlipsPast
<1>1. HeldInv /\ [MailNext]_mailvars => HeldInv'
  BY HeldStep
<1>2. HeldInv /\ MailWays /\ [MailNext]_mailvars => MailWays'
  <2> SUFFICES ASSUME HeldInv, MailWays, [MailNext]_mailvars PROVE MailWays'
    OBVIOUS
  <2>1. CASE Relaying
    <3>1. UNCHANGED <<at, readvars>>
      BY <2>1 DEF Relaying, Accepted, TryAgain, RelayAnswers
    <3> QED BY <3>1, WaysIdle
  <2>2. CASE UNCHANGED mailvars
    BY <2>2, WaysIdle DEF mailvars
  <2>3. ASSUME NEW s \in Sides,
               Program(s) \/ \E r \in Relays, e \in Events : Deliver(s, r, e)
        PROVE  MailWays'
    BY <2>3, WaysProgram, WaysDeliver
  <2> QED BY <2>1, <2>2, <2>3 DEF MailNext
<1>3. MailInit => HeldInv /\ MailWays
  BY HeldInitially, WaysInitially
<1> QED BY <1>1, <1>2, <1>3, WaysSuffice, PTL DEF MailSpec
=============================================================================
