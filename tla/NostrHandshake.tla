---------------------------- MODULE NostrHandshake ----------------------------
(***************************************************************************)
(* How a sender that shows a rotating PIN and a receiver whose user typed  *)
(* it become a pair: rendezvous, claim and confirm over Nostr relays.      *)
(*                                                                         *)
(* A PIN is the number of its minting; it stands for the PIN itself, its   *)
(* derived keys and the nonce published with it, all of them fresh.  Every *)
(* element of Receivers is one run of the receiving program, with keys of  *)
(* its own.  The relays are external: they keep what they accepted, may    *)
(* hide it from a fetch, and deliver it late, twice, or never.             *)
(***************************************************************************)
EXTENDS PinBuckets

CONSTANTS
    Receivers,
    Nobody,          \* no receiver
    WaitTimeout,     \* WAIT_FOR_RECEIVER_TIMEOUT
    ConfirmTimeout,  \* CONFIRM_TIMEOUT
    Skew,            \* by how much each receiver's clock is ahead, or behind
    Start,           \* earliest beginning; no clock reads a negative time
    MaxRefresh,      \* bound: refreshes the user asks for
    MaxTime          \* bound: end of the clock

ASSUME HandshakeAssumption ==
    /\ Nobody \notin Receivers
    /\ WaitTimeout \in Nat /\ ConfirmTimeout \in Nat
    /\ Skew \in [Receivers -> Int] /\ Start \in Nat
    /\ \A r \in Receivers : Start + Skew[r] >= 0
    /\ MaxRefresh \in Nat /\ MaxTime \in Nat

NoPin == 0

VARIABLES
    now,
    spc,            \* where send_file_nostr is
    deadline, rotation_due,
    minted,         \* PINs generated so far
    fresh,          \* the generation being published
    generations,    \* those retained to verify claims
    shown,          \* the PIN on the sender's screen
    refresh,        \* the permit of PIN_REFRESH
    refreshes,      \* how often the user asked
    revoked,        \* the PINs generated before the last refresh (history)
    seen,           \* receivers whose claim wait_for_verified_claim has seen
    locked,         \* the verified claim
    relay,          \* rendezvous events the relays accepted
    claims,         \* the receivers whose claim the relays accepted
    confirms,       \* confirm events the relays accepted
    rpc, rpin, rhints, rdue     \* for each receiver

mintvars == <<minted, fresh, generations, shown, revoked>>
pinvars == <<deadline, rotation_due, mintvars>>
uservars == <<refresh, refreshes>>
eventvars == <<relay, claims, confirms>>
recvars == <<rpc, rpin, rhints, rdue>>
vars == <<now, spc, pinvars, uservars, seen, locked, eventvars, recvars>>

Generation == [pin : Nat, bucket : Nat, created : Nat]
SenderPC == {"deriving", "publishing", "waiting", "confirming", "confirmed", "failed"}
ReceiverPC == {"idle", "deriving", "searching", "asking", "waiting",
               "confirmed", "cancelled", "failed"}

Init ==
    /\ now \in Start .. Start + Rotation - 1
    /\ spc = "deriving"
    /\ deadline = now + WaitTimeout /\ rotation_due = now + Rotation
    /\ minted = 0 /\ fresh = [pin |-> NoPin, bucket |-> 0, created |-> 0]
    /\ generations = {} /\ shown = NoPin
    /\ refresh = FALSE /\ refreshes = 0 /\ revoked = 0
    /\ seen = {} /\ locked = Nobody
    /\ relay = {} /\ claims = {} /\ confirms = {}
    /\ rpc = [r \in Receivers |-> "idle"]
    /\ rpin = [r \in Receivers |-> NoPin]
    /\ rhints = [r \in Receivers |-> {}]
    /\ rdue = [r \in Receivers |-> 0]

(* The sender's clock reads now; now_ms() on the machine of receiver r: *)
Reads(r) == now + Skew[r]

Tick ==
    /\ now < MaxTime
    /\ now' = now + 1
    /\ UNCHANGED <<spc, pinvars, uservars, seen, locked, eventvars, recvars>>

-----------------------------------------------------------------------------
(* The sender: publish_fresh_pin.  Stretching the PIN and publishing take  *)
(* any time, and nothing else is polled meanwhile.                         *)

(* The PIN has been derived; its bucket is read and its event is signed. *)
MintPin ==
    /\ spc = "deriving"
    /\ spc' = "publishing"
    /\ minted' = minted + 1
    /\ fresh' = [pin |-> minted + 1, bucket |-> PinBucket(now),
                 created |-> CreatedAt(now)]
    /\ UNCHANGED <<now, deadline, rotation_due, generations, shown, revoked,
                   uservars, seen, locked, eventvars, recvars>>

(* register: the fresh generation joins those still active. *)
Register(g) ==
    {c \in generations \cup {g} : IsPinBucketActive(c.bucket, now)}

(* A relay has accepted the event: the PIN is displayed and retained. *)
PublishPin ==
    /\ spc = "publishing"
    /\ spc' = "waiting"
    /\ relay' = relay \cup {fresh}
    /\ shown' = fresh.pin
    /\ generations' = Register(fresh)
    /\ UNCHANGED <<now, deadline, rotation_due, minted, fresh, revoked,
                   uservars, seen, locked, claims, confirms, recvars>>

(* No attempt is known to have succeeded; the transfer ends. *)
PublishPinFails ==
    /\ spc = "publishing"
    /\ spc' = "failed"
    /\ relay' \in {relay, relay \cup {fresh}}
    /\ UNCHANGED <<now, pinvars, uservars, seen, locked, claims, confirms, recvars>>

-----------------------------------------------------------------------------
(* The sender: the select loop of wait_for_verified_claim *)

(* The interval does not skip ticks it missed while a PIN was published. *)
Rotate_ExtendsWait ==
    /\ spc = "waiting" /\ now >= rotation_due
    /\ spc' = "deriving"
    /\ rotation_due' = rotation_due + Rotation
    /\ deadline' = now + WaitTimeout
    /\ UNCHANGED <<now, mintvars, uservars, seen, locked, eventvars, recvars>>
Rotate ==
    /\ spc = "waiting" /\ now >= rotation_due
    /\ spc' = "deriving"
    /\ rotation_due' = rotation_due + Rotation
    /\ UNCHANGED <<now, deadline, mintvars, uservars, seen, locked, eventvars,
                   recvars>>

Refresh_KeepsGenerations ==
    /\ spc = "waiting" /\ refresh
    /\ spc' = "deriving"
    /\ refresh' = FALSE
    /\ revoked' = minted
    /\ rotation_due' = now + Rotation
    /\ UNCHANGED <<now, deadline, minted, fresh, generations, shown, refreshes, seen,
                   locked, eventvars, recvars>>
Refresh ==
    /\ spc = "waiting" /\ refresh
    /\ spc' = "deriving"
    /\ refresh' = FALSE
    /\ generations' = {} /\ revoked' = minted
    /\ rotation_due' = now + Rotation
    /\ UNCHANGED <<now, deadline, minted, fresh, shown, refreshes, seen,
                   locked, eventvars, recvars>>

WaitEnds ==
    /\ spc = "waiting" /\ now >= deadline
    /\ spc' = "failed"
    /\ UNCHANGED <<now, pinvars, uservars, seen, locked, eventvars, recvars>>

(* The notification stream is closed. *)
NotificationsEnd ==
    /\ spc = "waiting"
    /\ spc' = "failed"
    /\ UNCHANGED <<now, pinvars, uservars, seen, locked, eventvars, recvars>>

(* The claim opens under a retained generation's key, and that generation  *)
(* is active.                                                              *)
Verifies_NewestOnly(r) ==
    rpin[r] = fresh.pin /\ IsPinBucketActive(fresh.bucket, now)
Verifies(r) ==
    \E g \in generations :
        g.pin = rpin[r] /\ IsPinBucketActive(g.bucket, now)

(* The first claim that verifies ends the loop and hides the PIN. *)
AcceptClaim_KeepsWaiting(r) ==
    /\ spc = "waiting" /\ r \in claims \ seen /\ Verifies(r)
    /\ locked' = r /\ seen' = seen \cup {r}
    /\ confirms' = confirms \cup {[to |-> r, pin |-> rpin[r]]}
    /\ UNCHANGED <<now, spc, pinvars, uservars, relay, claims, recvars>>
AcceptClaim(r) ==
    /\ spc = "waiting" /\ r \in claims \ seen /\ Verifies(r)
    /\ spc' = "confirming"
    /\ locked' = r /\ seen' = seen \cup {r} /\ shown' = NoPin
    /\ UNCHANGED <<now, deadline, rotation_due, minted, fresh, generations,
                   revoked, uservars, eventvars, recvars>>

IgnoreClaim(r) ==
    /\ spc = "waiting" /\ r \in claims \ seen /\ ~Verifies(r)
    /\ seen' = seen \cup {r}
    /\ UNCHANGED <<now, spc, pinvars, uservars, locked, eventvars, recvars>>

(* The confirm is sealed under the key that sealed the claim. *)
ConfirmEvent == [to |-> locked, pin |-> rpin[locked]]

PublishConfirm ==
    /\ spc = "confirming"
    /\ spc' = "confirmed"
    /\ confirms' = confirms \cup {ConfirmEvent}
    /\ UNCHANGED <<now, pinvars, uservars, seen, locked, relay, claims, recvars>>

PublishConfirmFails ==
    /\ spc = "confirming"
    /\ spc' = "failed"
    /\ confirms' \in {confirms, confirms \cup {ConfirmEvent}}
    /\ UNCHANGED <<now, pinvars, uservars, seen, locked, relay, claims, recvars>>

SenderStep ==
    \/ MintPin \/ PublishPin \/ PublishPinFails
    \/ Rotate \/ Refresh \/ WaitEnds \/ NotificationsEnd
    \/ \E r \in Receivers : AcceptClaim(r) \/ IgnoreClaim(r)
    \/ PublishConfirm \/ PublishConfirmFails

(* The r key asks for a refresh while a PIN is on the screen. *)
RequestRefresh ==
    /\ shown # NoPin /\ refreshes < MaxRefresh
    /\ refresh' = TRUE /\ refreshes' = refreshes + 1
    /\ UNCHANGED <<now, spc, pinvars, seen, locked, eventvars, recvars>>

-----------------------------------------------------------------------------
(* The receiver *)

ReceiverGoes(r, from, to) ==
    /\ rpc[r] = from
    /\ rpc' = [rpc EXCEPT ![r] = to]
    /\ UNCHANGED <<now, spc, pinvars, uservars, seen, locked, relay, confirms>>

(* The user types the PIN the sender shows. *)
EnterPin(r) ==
    /\ shown # NoPin
    /\ ReceiverGoes(r, "idle", "deriving")
    /\ rpin' = [rpin EXCEPT ![r] = shown]
    /\ UNCHANGED <<claims, rhints, rdue>>

(* The hints are computed once, before the relays are connected. *)
DeriveHints(r) ==
    /\ ReceiverGoes(r, "deriving", "searching")
    /\ rhints' = [rhints EXCEPT ![r] = HintBuckets(Reads(r))]
    /\ UNCHANGED <<claims, rpin, rdue>>

(* An event the hints find, not too old, and sealed with this PIN. *)
IsRendezvous(e, pin, hints, t) ==
    e.pin = pin /\ e.bucket \in hints /\ ~TooOld(e.created, t)

FindRendezvous(r) ==
    /\ \E e \in relay : IsRendezvous(e, rpin[r], rhints[r], Reads(r))
    /\ ReceiverGoes(r, "searching", "asking")
    /\ UNCHANGED <<claims, rpin, rhints, rdue>>

(* Nothing matches, or the relays did not return it. *)
FindNothing(r) ==
    /\ ReceiverGoes(r, "searching", "failed")
    /\ UNCHANGED <<claims, rpin, rhints, rdue>>

(* The user keeps the destination prompt open for any time, then declines, *)
Decline(r) ==
    /\ ReceiverGoes(r, "asking", "cancelled")
    /\ UNCHANGED <<claims, rpin, rhints, rdue>>

(* or accepts: the claim is published, once.  (MaxTime leaves room for the *)
(* answer to be late.)                                                     *)
PublishClaim(r) ==
    /\ now + ConfirmTimeout <= MaxTime
    /\ ReceiverGoes(r, "asking", "waiting")
    /\ claims' = claims \cup {r}
    /\ rdue' = [rdue EXCEPT ![r] = now + ConfirmTimeout]
    /\ UNCHANGED <<rpin, rhints>>

PublishClaimFails(r) ==
    /\ ReceiverGoes(r, "asking", "failed")
    /\ claims' \in {claims, claims \cup {r}}
    /\ UNCHANGED <<rpin, rhints, rdue>>

ConfirmsClaim(c, r) == c.to = r /\ c.pin = rpin[r]

(* By subscription or by the poll. *)
ReceiveConfirm(r) ==
    /\ \E c \in confirms : ConfirmsClaim(c, r)
    /\ ReceiverGoes(r, "waiting", "confirmed")
    /\ UNCHANGED <<claims, rpin, rhints, rdue>>

ConfirmMissing_Never(r) == FALSE
ConfirmMissing(r) ==
    /\ now >= rdue[r]
    /\ ReceiverGoes(r, "waiting", "failed")
    /\ UNCHANGED <<claims, rpin, rhints, rdue>>

(* A fetch fails or the notification stream is closed. *)
WaitForConfirmFails(r) ==
    /\ ReceiverGoes(r, "waiting", "failed")
    /\ UNCHANGED <<claims, rpin, rhints, rdue>>

ReceiverStep(r) ==
    \/ EnterPin(r) \/ DeriveHints(r) \/ FindRendezvous(r) \/ FindNothing(r)
    \/ Decline(r) \/ PublishClaim(r) \/ PublishClaimFails(r)
    \/ ReceiveConfirm(r) \/ ConfirmMissing(r) \/ WaitForConfirmFails(r)

Next ==
    \/ Tick \/ SenderStep \/ RequestRefresh
    \/ \E r \in Receivers : ReceiverStep(r)

Spec == Init /\ [][Next]_vars

(* Clocks run, publishing returns, and each program serves what is due.    *)
(* Nothing makes a user act, or a relay deliver an event.                  *)
Fairness ==
    /\ WF_vars(Tick)
    /\ WF_vars(MintPin) /\ WF_vars(PublishPin \/ PublishPinFails)
    /\ WF_vars(Rotate) /\ SF_vars(WaitEnds)
    /\ WF_vars(PublishConfirm \/ PublishConfirmFails)
    /\ \A r \in Receivers : WF_vars(ConfirmMissing(r))
FairSpec == Spec /\ Fairness

-----------------------------------------------------------------------------
(* Properties *)

TypeOK ==
    /\ now \in Nat /\ now >= Start /\ spc \in SenderPC
    /\ deadline \in Nat /\ rotation_due \in Nat
    /\ minted \in Nat /\ fresh \in Generation
    /\ generations \subseteq Generation
    /\ shown \in 0 .. minted /\ revoked \in 0 .. minted
    /\ refresh \in BOOLEAN /\ refreshes \in 0 .. MaxRefresh
    /\ seen \subseteq Receivers /\ locked \in Receivers \cup {Nobody}
    /\ relay \subseteq Generation
    /\ claims \subseteq Receivers
    /\ confirms \subseteq [to : Receivers, pin : Nat]
    /\ rpc \in [Receivers -> ReceiverPC] /\ rpin \in [Receivers -> Nat]
    /\ rhints \in [Receivers -> SUBSET Nat] /\ rdue \in [Receivers -> Nat]

(***************************************************************************)
(* The PIN on the sender's screen can be claimed: however long deriving    *)
(* and publishing took, until its rotation is due it is the one retained,  *)
(* active, and on the relays.                                              *)
(***************************************************************************)
ShownCanBeClaimed ==
    spc = "waiting" /\ now < rotation_due =>
        \E g \in generations \cap relay :
            g.pin = shown /\ IsPinBucketActive(g.bucket, now)

(***************************************************************************)
(* Whatever generation the sender honours is still with the relays, which  *)
(* have not been told to forget it.  And a receiver that starts now finds  *)
(* a generation exactly when the sender's rule would honour it at the time *)
(* the receiver's own clock reads: hints and age test agree with the rule, *)
(* and a clock may be wrong as long as it reads a time in the two buckets. *)
(***************************************************************************)
HonouredIsFindable ==
    \A g \in generations :
        /\ IsPinBucketActive(g.bucket, now) =>
               g \in relay /\ now < Expiration(g.bucket) * Second
        /\ \A t \in {now} \cup {Reads(r) : r \in Receivers} :
               IsRendezvous(g, g.pin, HintBuckets(t), t)
                   <=> IsPinBucketActive(g.bucket, t)

(***************************************************************************)
(* A claim is seen once.  One that was turned down would be turned down    *)
(* for ever: it was not too early, nor beaten by a rotation.               *)
(***************************************************************************)
Honoured(pin) ==
    \E g \in generations : g.pin = pin /\ IsPinBucketActive(g.bucket, now)
NoClaimWasted == spc = "waiting" => \A r \in seen : ~Honoured(rpin[r])

(***************************************************************************)
(* First-claim lockout: a receiver that believes itself confirmed is the   *)
(* one the sender is locked to, so there is never a second one.            *)
(***************************************************************************)
ConfirmedIsLocked ==
    \A r \in Receivers : rpc[r] = "confirmed" => locked = r

(***************************************************************************)
(* "Drop every retained generation so previously shown PINs stop           *)
(* authenticating" (nostr_sender.rs:394): from the moment the refresh is   *)
(* handled, also while the old PIN is still on the screen.                 *)
(***************************************************************************)
RevokedStaysRevoked ==
    [][\A r \in Receivers : locked' = r /\ locked # r => rpin[r] > revoked]_vars

(***************************************************************************)
(* The strengthening that makes the safety properties inductive.           *)
(***************************************************************************)

(* A generation's bucket is that of a past instant, and so is its event's  *)
(* timestamp.                                                              *)
PastGeneration(g) ==
    /\ g.bucket <= PinBucket(now)
    /\ g.bucket * Rotation <= g.created * Second

(* The next rotation is due at most one period after the instant whose     *)
(* bucket the newest generation has.                                       *)
MintInv ==
    /\ spc \in {"deriving", "publishing", "waiting"} =>
           /\ rotation_due <= now + Rotation
           /\ locked = Nobody
    /\ spc \in {"publishing", "waiting"} =>
           /\ fresh.pin = minted /\ minted > revoked
           /\ PastGeneration(fresh)
           /\ PinBucket(rotation_due) <= fresh.bucket + 1
    /\ spc = "waiting" =>
           /\ shown = fresh.pin /\ fresh \in relay
           /\ fresh \in generations \/ rotation_due <= now

GenerationsInv ==
    \A g \in generations :
        /\ g \in relay /\ PastGeneration(g)
        /\ revoked < g.pin /\ g.pin <= minted
        /\ spc = "publishing" => g.pin < minted

(* A PIN somebody has typed is not the one being published. *)
PinsInv ==
    /\ spc = "publishing" => shown < minted
    /\ \A r \in Receivers :
           /\ rpin[r] <= minted
           /\ spc = "publishing" => rpin[r] < minted
    /\ seen \subseteq claims
    /\ \A r \in claims : rpc[r] \notin {"idle", "deriving", "searching", "asking"}

(* What was turned down stays turned down, also while a PIN is published. *)
SeenInv ==
    spc \in {"deriving", "publishing", "waiting"} =>
        \A r \in seen : ~Honoured(rpin[r])

(* Confirms go to the locked receiver only. *)
LockInv ==
    /\ spc = "confirming" => locked \in Receivers
    /\ \A c \in confirms : c.to = locked /\ spc \in {"confirmed", "failed"}

IInv ==
    /\ TypeOK /\ MintInv /\ GenerationsInv /\ PinsInv /\ LockInv
    /\ SeenInv /\ ConfirmedIsLocked

(***************************************************************************)
(* The sender does not wait for a receiver for ever, however often the PIN *)
(* rotates and is refreshed, and a receiver that has claimed is told how   *)
(* it went.                                                                *)
(***************************************************************************)
HandshakeSettles ==
    /\ <>(spc \in {"confirmed", "failed"})
    /\ \A r \in Receivers :
           rpc[r] = "waiting" ~> rpc[r] \in {"confirmed", "failed"}
=============================================================================
