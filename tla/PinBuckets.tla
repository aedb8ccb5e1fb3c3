------------------------------ MODULE PinBuckets ------------------------------
(***************************************************************************)
(* The wall-clock rule by which a PIN is honoured (crypto/pin.rs), with    *)
(* the three places that repeat it: the receiver's lookup hints, its test  *)
(* of an event's age, and the expiration the sender asks of the relays.    *)
(* Times are u64 milliseconds since 1970: overflow is out of reach.        *)
(***************************************************************************)
EXTENDS Integers

CONSTANTS
    Rotation,    \* PIN_ROTATION_MS
    Second       \* milliseconds in the unit of Nostr timestamps

ASSUME RotationAssumption ==
    /\ Rotation \in Nat \ {0} /\ Second \in Nat \ {0}
    /\ Rotation % Second = 0

PinActiveBuckets == 2
PinTtl == Rotation * PinActiveBuckets
PinHintLookbackBuckets == PinActiveBuckets - 1

SaturatingSub(a, b) == IF a >= b THEN a - b ELSE 0

PinBucket(t) == t \div Rotation

IsPinBucketActive_CurrentOnly(b, t) == b = PinBucket(t)
IsPinBucketActive(b, t) == b = PinBucket(t) \/ b + 1 = PinBucket(t)

(* The buckets whose hints the receiver looks for when it starts at t. *)
HintBuckets_NoLookback(t) == {PinBucket(t)}
HintBuckets(t) ==
    {SaturatingSub(PinBucket(t), offset) : offset \in 0 .. PinHintLookbackBuckets}

(* The expiration tag of a rendezvous event, in seconds. *)
Expiration(b) == ((b + PinActiveBuckets) * Rotation) \div Second

(* created_at of an event signed at t, in seconds. *)
CreatedAt(t) == t \div Second

(* find_rendezvous_event skips the event at time t. *)
TooOld(created, t) == SaturatingSub(t, created * Second) > PinTtl
=============================================================================
