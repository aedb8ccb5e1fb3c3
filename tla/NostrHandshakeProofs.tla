------------------------- MODULE NostrHandshakeProofs -------------------------
(***************************************************************************)
(* The four expressions of the rule "current or previous bucket" agree,    *)
(* for every rotation period that is a whole number of seconds; and proofs *)
(* about the handshake, for any number of receivers, any rotation period,  *)
(* any timeouts and however long a publication takes.                      *)
(***************************************************************************)
EXTENDS NostrHandshake, TLAPS

-----------------------------------------------------------------------------
(* Buckets *)

(* Dividing a multiple gives the factor back. *)
LEMMA DivideMultiple ==
    ASSUME NEW k \in Nat, NEW c \in Nat \ {0}
    PROVE  (k * c) \div c = k
<1> DEFINE q == (k * c) \div c
<1>1. k * c \in Nat
  OBVIOUS
<1>2. q \in Nat /\ q * c <= k * c /\ k * c < (q + 1) * c
  BY <1>1
<1> HIDE DEF q
<1>3. q <= k
  BY <1>2
<1>4. k < q + 1
  BY <1>2
<1> QED BY <1>2, <1>3, <1>4 DEF q

(* Multiplication keeps the order. *)
LEMMA TimesMonotonic ==
    ASSUME NEW a \in Nat, NEW b \in Nat, NEW c \in Nat, a <= b
    PROVE  a * c \in Nat /\ b * c \in Nat /\ a * c <= b * c
<1>1. PICK d \in Nat : b = a + d
  <2> WITNESS b - a \in Nat
  <2> QED OBVIOUS
<1>2. b * c = a * c + d * c /\ d * c \in Nat
  BY <1>1
<1> QED BY <1>2

(* A rotation period is a whole number of seconds. *)
LEMMA WholeSeconds == \E k \in Nat : Rotation = k * Second
<1>1. Rotation = (Rotation \div Second) * Second + (Rotation % Second)
  BY RotationAssumption
<1>2. Rotation \div Second \in Nat /\ Rotation % Second = 0
  BY RotationAssumption
<1>3. (Rotation \div Second) * Second \in Nat
  BY <1>2, RotationAssumption
<1>4. Rotation = (Rotation \div Second) * Second
  BY <1>1, <1>2, <1>3
<1> QED BY <1>2, <1>4

(* pin_bucket: t lies in its bucket. *)
LEMMA BucketBounds ==
    ASSUME NEW t \in Nat
    PROVE  /\ PinBucket(t) \in Nat
           /\ PinBucket(t) * Rotation <= t
           /\ t < (PinBucket(t) + 1) * Rotation
BY RotationAssumption DEF PinBucket

(* Time does not run back through the buckets. *)
LEMMA BucketMonotonic ==
    ASSUME NEW t \in Nat, NEW u \in Nat, t <= u
    PROVE  PinBucket(t) <= PinBucket(u)
<1>1. PinBucket(t) * Rotation < (PinBucket(u) + 1) * Rotation
  BY BucketBounds, RotationAssumption DEF PinBucket
<1> QED BY <1>1, BucketBounds, RotationAssumption

(* One rotation period later the next bucket is current. *)
LEMMA NextBucket ==
    ASSUME NEW t \in Nat
    PROVE  PinBucket(t + Rotation) = PinBucket(t) + 1
BY RotationAssumption DEF PinBucket

(***************************************************************************)
(* is_pin_bucket_active against the receiver's hints: the receiver looks   *)
(* up exactly the buckets the sender honours.                              *)
(***************************************************************************)
THEOREM HintsAreActiveBuckets ==
    ASSUME NEW t \in Nat
    PROVE  HintBuckets(t) = {b \in Nat : IsPinBucketActive(b, t)}
<1>1. PinBucket(t) \in Nat
  BY BucketBounds
<1>2. HintBuckets(t) = {PinBucket(t), SaturatingSub(PinBucket(t), 1)}
  <2>1. 0 .. PinHintLookbackBuckets = {0, 1}
    BY DEF PinHintLookbackBuckets, PinActiveBuckets
  <2>2. SaturatingSub(PinBucket(t), 0) = PinBucket(t)
    BY <1>1 DEF SaturatingSub
  <2> QED BY <2>1, <2>2 DEF HintBuckets
<1>3. ASSUME NEW b \in Nat
      PROVE  IsPinBucketActive(b, t) <=> b \in HintBuckets(t)
  BY <1>1, <1>2 DEF IsPinBucketActive, SaturatingSub
<1>4. HintBuckets(t) \subseteq Nat
  BY <1>1, <1>2 DEF SaturatingSub
<1> QED BY <1>3, <1>4

(***************************************************************************)
(* The expiration tag: a generation is honoured until that instant at the  *)
(* latest, and relays are never asked to forget one that still is.         *)
(***************************************************************************)
THEOREM ExpirationEndsActivity ==
    ASSUME NEW b \in Nat, NEW t \in Nat, b <= PinBucket(t)
    PROVE  IsPinBucketActive(b, t) <=> t < Expiration(b) * Second
<1>1. Expiration(b) * Second = (b + 2) * Rotation
  <2>1. PICK k \in Nat : Rotation = k * Second
    BY WholeSeconds
  <2>2. (b + 2) * Rotation = ((b + 2) * k) * Second /\ (b + 2) * k \in Nat
    BY <2>1, RotationAssumption
  <2>3. Expiration(b) = (b + 2) * k
    BY <2>2, DivideMultiple, RotationAssumption DEF Expiration, PinActiveBuckets
  <2> QED BY <2>2, <2>3
<1>2. IsPinBucketActive(b, t) <=> PinBucket(t) < b + 2
  BY BucketBounds DEF IsPinBucketActive
<1>3. PinBucket(t) < b + 2 <=> t < (b + 2) * Rotation
  <2> DEFINE p == PinBucket(t)
  <2>1. p \in Nat /\ p * Rotation <= t /\ t < (p + 1) * Rotation
    BY BucketBounds
  <2> HIDE DEF p
  <2>2. Rotation \in Nat
    BY RotationAssumption
  <2>3. /\ p * Rotation \in Nat /\ (p + 1) * Rotation \in Nat
        /\ (b + 2) * Rotation \in Nat
    BY <2>1, <2>2
  <2>4. ASSUME p < b + 2
        PROVE  t < (b + 2) * Rotation
    <3>1. (p + 1) * Rotation <= (b + 2) * Rotation
      BY <2>1, <2>2, <2>4, TimesMonotonic
    <3> QED BY <2>1, <2>3, <3>1
  <2>5. ASSUME b + 2 <= p
        PROVE  (b + 2) * Rotation <= t
    <3>1. (b + 2) * Rotation <= p * Rotation
      BY <2>1, <2>2, <2>5, TimesMonotonic
    <3> QED BY <2>1, <2>3, <3>1
  <2>6. p < b + 2 <=> t < (b + 2) * Rotation
    BY <2>1, <2>3, <2>4, <2>5
  <2> QED BY <2>6 DEF p
<1> QED BY <1>1, <1>2, <1>3

(***************************************************************************)
(* Which clocks the rule tolerates: a PIN of bucket b is found by every    *)
(* receiver whose clock reads a time in the two periods from the start of  *)
(* its bucket, and by no other.  A clock that is behind by more than the   *)
(* part of the bucket that has passed is refused, however little that is.  *)
(***************************************************************************)
THEOREM ToleratedReadings ==
    ASSUME NEW b \in Nat, NEW t \in Nat
    PROVE  b \in HintBuckets(t) <=> b * Rotation <= t /\ t < (b + 2) * Rotation
<1> DEFINE p == PinBucket(t)
<1>1. p \in Nat /\ p * Rotation <= t /\ t < (p + 1) * Rotation
  BY BucketBounds
<1>2. b \in HintBuckets(t) <=> b = p \/ b + 1 = p
  BY HintsAreActiveBuckets DEF IsPinBucketActive
<1> HIDE DEF p
<1>3. /\ Rotation \in Nat /\ p * Rotation \in Nat /\ (p + 1) * Rotation \in Nat
      /\ b * Rotation \in Nat /\ (b + 2) * Rotation \in Nat
  BY <1>1, RotationAssumption
<1>4. ASSUME b = p \/ b + 1 = p
      PROVE  b * Rotation <= t /\ t < (b + 2) * Rotation
  <2>1. b * Rotation <= p * Rotation /\ (p + 1) * Rotation <= (b + 2) * Rotation
    BY <1>1, <1>3, <1>4, TimesMonotonic
  <2> QED BY <1>1, <1>3, <2>1
<1>5. ASSUME p < b
      PROVE  t < b * Rotation
  <2>1. (p + 1) * Rotation <= b * Rotation
    BY <1>1, <1>3, <1>5, TimesMonotonic
  <2> QED BY <1>1, <1>3, <2>1
<1>6. ASSUME b + 2 <= p
      PROVE  (b + 2) * Rotation <= t
  <2>1. (b + 2) * Rotation <= p * Rotation
    BY <1>1, <1>3, <1>6, TimesMonotonic
  <2> QED BY <1>1, <1>3, <2>1
<1>7. b = p \/ b + 1 = p <=> ~(p < b) /\ ~(b + 2 <= p)
  BY <1>1
<1> QED BY <1>1, <1>2, <1>3, <1>4, <1>5, <1>6, <1>7

(***************************************************************************)
(* The age test of the receiver never turns away an event whose generation *)
(* the sender still honours, although created_at is cut to seconds.        *)
(***************************************************************************)
THEOREM ActiveIsNotTooOld ==
    ASSUME NEW b \in Nat, NEW c \in Nat, NEW t \in Nat,
           b * Rotation <= c * Second, IsPinBucketActive(b, t)
    PROVE  ~TooOld(c, t)
<1>1. t < (b + 2) * Rotation
  <2> DEFINE p == PinBucket(t)
  <2>1. p \in Nat /\ t < (p + 1) * Rotation /\ p + 1 <= b + 2
    BY BucketBounds DEF IsPinBucketActive
  <2> HIDE DEF p
  <2>2. (p + 1) * Rotation \in Nat /\ (b + 2) * Rotation \in Nat
        /\ (p + 1) * Rotation <= (b + 2) * Rotation
    BY <2>1, RotationAssumption, TimesMonotonic
  <2> QED BY <2>1, <2>2
<1>2. c * Second \in Nat /\ PinTtl = 2 * Rotation
  BY RotationAssumption DEF PinTtl, PinActiveBuckets
<1>3. (b + 2) * Rotation = b * Rotation + 2 * Rotation
  BY RotationAssumption
<1>4. b * Rotation \in Nat /\ Rotation \in Nat
  BY RotationAssumption
<1> QED BY <1>1, <1>2, <1>3, <1>4 DEF TooOld, SaturatingSub

(* created_at of an event signed in bucket b is not before that bucket. *)
LEMMA CreatedInBucket ==
    ASSUME NEW t \in Nat
    PROVE  /\ CreatedAt(t) \in Nat
           /\ PinBucket(t) * Rotation <= CreatedAt(t) * Second
<1>1. PICK k \in Nat : Rotation = k * Second
  BY WholeSeconds
<1>2. PinBucket(t) * Rotation = (PinBucket(t) * k) * Second
  <2> DEFINE p == PinBucket(t)
  <2>1. p \in Nat
    BY BucketBounds
  <2> HIDE DEF p
  <2>2. p * Rotation = (p * k) * Second
    BY <1>1, <2>1, RotationAssumption
  <2> QED BY <2>2 DEF p
<1>3. /\ CreatedAt(t) \in Nat
        /\ t < (CreatedAt(t) + 1) * Second
  BY RotationAssumption DEF CreatedAt
<1>4. (PinBucket(t) * k) * Second < (CreatedAt(t) + 1) * Second
  BY <1>2, <1>3, BucketBounds, RotationAssumption
<1>5. PinBucket(t) * k \in Nat
  BY <1>1, BucketBounds
<1>6. PinBucket(t) * k <= CreatedAt(t)
  <2> DEFINE p == PinBucket(t) * k
  <2>1. p \in Nat /\ p * Second < (CreatedAt(t) + 1) * Second
    BY <1>4, <1>5
  <2> HIDE DEF p
  <2>2. p < CreatedAt(t) + 1
    BY <2>1, <1>3, RotationAssumption
  <2>3. p <= CreatedAt(t)
    BY <2>1, <2>2, <1>3
  <2> QED BY <2>3 DEF p
<1> QED BY <1>2, <1>3, <1>5, <1>6, RotationAssumption

-----------------------------------------------------------------------------
(* The handshake *)

(* No clock reads a negative time. *)
LEMMA ReadsIsTime ==
    ASSUME NEW r \in Receivers, now \in Nat, now >= Start
    PROVE  Reads(r) \in Nat
BY HandshakeAssumption DEF Reads

(* Initially nothing is minted, shown, claimed or locked. *)
LEMMA InitEstablishes == Init => IInv
<1> SUFFICES ASSUME Init PROVE IInv
  OBVIOUS
<1>1. TypeOK
  <2>0. now \in Nat /\ now >= Start
    <3>1. now \in Start .. Start + Rotation - 1
      BY DEF Init
    <3> QED BY <3>1, RotationAssumption, HandshakeAssumption
  <2>1. deadline \in Nat /\ rotation_due \in Nat
    <3>1. deadline = now + WaitTimeout /\ rotation_due = now + Rotation
      BY DEF Init
    <3> QED BY <2>0, <3>1, RotationAssumption, HandshakeAssumption
  <2>2. /\ rpc \in [Receivers -> ReceiverPC] /\ rpin \in [Receivers -> Nat]
        /\ rhints \in [Receivers -> SUBSET Nat] /\ rdue \in [Receivers -> Nat]
    BY DEF Init, ReceiverPC, NoPin
  <2>3. fresh \in Generation
    BY DEF Init, Generation, NoPin
  <2>4. /\ minted = 0 /\ shown = 0 /\ revoked = 0 /\ refreshes = 0
        /\ refresh = FALSE /\ spc = "deriving" /\ locked = Nobody
        /\ generations = {} /\ seen = {} /\ relay = {} /\ claims = {} /\ confirms = {}
    BY DEF Init, NoPin
  <2>5. /\ minted \in Nat /\ shown \in 0 .. minted /\ revoked \in 0 .. minted
        /\ refreshes \in 0 .. MaxRefresh
    <3>1. minted = 0 /\ shown = 0 /\ revoked = 0 /\ refreshes = 0
      BY <2>4
    <3> QED BY <3>1, HandshakeAssumption
  <2>6. /\ generations \subseteq Generation /\ relay \subseteq Generation
        /\ seen \subseteq Receivers /\ claims \subseteq Receivers
        /\ confirms \subseteq [to : Receivers, pin : Nat]
    BY <2>4
  <2>7. refresh \in BOOLEAN /\ spc \in SenderPC /\ locked \in Receivers \cup {Nobody}
    BY <2>4 DEF SenderPC
  <2> QED BY <2>0, <2>1, <2>2, <2>3, <2>5, <2>6, <2>7 DEF TypeOK
<1>2. MintInv
  BY DEF Init, MintInv
<1>3. GenerationsInv /\ LockInv /\ SeenInv
  BY DEF Init, GenerationsInv, LockInv, SeenInv
<1>4. PinsInv /\ ConfirmedIsLocked
  BY DEF Init, PinsInv, ConfirmedIsLocked, NoPin
<1> QED BY <1>1, <1>2, <1>3, <1>4 DEF IInv

(* Once past, a generation stays past; once inactive, it stays inactive. *)
LEMMA TimeGoesOn ==
    ASSUME NEW g \in Generation, NEW t \in Nat, NEW u \in Nat, t <= u,
           g.bucket <= PinBucket(t)
    PROVE  /\ g.bucket <= PinBucket(u)
           /\ IsPinBucketActive(g.bucket, u) => IsPinBucketActive(g.bucket, t)
<1>1. g.bucket \in Nat /\ PinBucket(t) \in Nat /\ PinBucket(u) \in Nat
  BY BucketBounds DEF Generation
<1>2. PinBucket(t) <= PinBucket(u)
  BY BucketMonotonic
<1> QED BY <1>1, <1>2 DEF IsPinBucketActive

(* The clock. *)
LEMMA TickStep == IInv /\ Tick => IInv'
<1> SUFFICES ASSUME IInv, Tick PROVE IInv'
  OBVIOUS
<1> USE DEF IInv, Tick, pinvars, mintvars, uservars, eventvars, recvars
<1>2. now \in Nat /\ now' \in Nat /\ now <= now' /\ now' = now + 1
  BY DEF TypeOK
<1>1. TypeOK'
  <2>1. now >= Start
    BY DEF TypeOK
  <2>2. now' \in Nat /\ now' >= Start
    BY <1>2, <2>1, HandshakeAssumption
  <2> QED BY <2>2 DEF TypeOK
<1>3. ASSUME NEW g \in Generation, PastGeneration(g)
      PROVE  /\ PastGeneration(g)'
             /\ IsPinBucketActive(g.bucket, now') => IsPinBucketActive(g.bucket, now)
  BY <1>2, <1>3, TimeGoesOn DEF PastGeneration
<1>4. MintInv'
  <2>1. fresh \in Generation /\ rotation_due \in Nat
    BY DEF TypeOK
  <2>2. spc \in {"publishing", "waiting"} => PastGeneration(fresh)'
    BY <1>3, <2>1 DEF MintInv
  <2> QED BY <1>2, <2>1, <2>2, RotationAssumption DEF MintInv
<1>5. GenerationsInv'
  <2>1. \A g \in generations : g \in Generation
    BY DEF TypeOK
  <2> QED BY <1>3, <2>1 DEF GenerationsInv
<1>6. SeenInv'
  <2>1. \A g \in generations : g \in Generation /\ PastGeneration(g)
    BY DEF TypeOK, GenerationsInv
  <2>2. \A pin : Honoured(pin)' => Honoured(pin)
    BY <1>3, <2>1 DEF Honoured
  <2> QED BY <2>2 DEF SeenInv
<1>7. PinsInv' /\ LockInv' /\ ConfirmedIsLocked'
  BY DEF PinsInv, LockInv, ConfirmedIsLocked
<1> QED BY <1>1, <1>4, <1>5, <1>6, <1>7

(* publish_fresh_pin reads the bucket: it is at most one period before the *)
(* bucket of the next rotation.                                            *)
LEMMA MintPinStep == IInv /\ MintPin => IInv'
<1> SUFFICES ASSUME IInv, MintPin PROVE IInv'
  OBVIOUS
<1> USE DEF IInv, MintPin, uservars, eventvars, recvars
<1>1. /\ now \in Nat /\ minted \in Nat /\ rotation_due \in Nat /\ revoked \in 0 .. minted
      /\ PinBucket(now) \in Nat /\ CreatedAt(now) \in Nat
      /\ minted' = minted + 1 /\ now' = now
  BY BucketBounds, CreatedInBucket DEF TypeOK
<1>2. fresh' \in Generation
  BY <1>1 DEF Generation
<1>3. TypeOK'
  BY <1>1, <1>2 DEF TypeOK, SenderPC
<1>4. PastGeneration(fresh)'
  <2>1. fresh'.bucket = PinBucket(now) /\ fresh'.created = CreatedAt(now)
    OBVIOUS
  <2> QED BY <1>1, <2>1, CreatedInBucket DEF PastGeneration
<1>5. PinBucket(rotation_due) <= fresh'.bucket + 1
  <2>1. rotation_due <= now + Rotation /\ now + Rotation \in Nat
    BY <1>1, RotationAssumption DEF MintInv
  <2>2. PinBucket(rotation_due) <= PinBucket(now + Rotation)
    BY <1>1, <2>1, BucketMonotonic
  <2> QED BY <1>1, <2>2, NextBucket
<1>6. MintInv'
  BY <1>1, <1>4, <1>5 DEF MintInv
<1>7. GenerationsInv'
  <2>1. \A g \in generations : g \in Generation /\ g.pin \in Nat
    BY DEF TypeOK, Generation
  <2> QED BY <1>1, <2>1 DEF GenerationsInv, PastGeneration
<1>8. PinsInv'
  BY <1>1 DEF PinsInv, TypeOK
<1>9. SeenInv' /\ LockInv' /\ ConfirmedIsLocked'
  BY <1>1 DEF SeenInv, Honoured, LockInv, ConfirmedIsLocked
<1> QED BY <1>3, <1>6, <1>7, <1>8, <1>9

(* publish_fresh_pin returns: unless publishing took so long that the next *)
(* rotation is already due, the generation is registered while active.     *)
LEMMA PublishPinStep == IInv /\ PublishPin => IInv'
<1> SUFFICES ASSUME IInv, PublishPin PROVE IInv'
  OBVIOUS
<1> USE DEF IInv, PublishPin, uservars, recvars
<1>1. /\ now \in Nat /\ minted \in Nat /\ rotation_due \in Nat /\ fresh \in Generation
      /\ fresh.pin = minted /\ PastGeneration(fresh)
      /\ PinBucket(rotation_due) <= fresh.bucket + 1
      /\ minted > revoked /\ locked = Nobody /\ rotation_due <= now + Rotation
  BY DEF TypeOK, MintInv
<1>2. /\ generations' \subseteq generations \cup {fresh}
      /\ IsPinBucketActive(fresh.bucket, now) => fresh \in generations'
  BY DEF Register
<1>3. TypeOK'
  <2>1. generations' \subseteq Generation /\ relay' \subseteq Generation
    BY <1>1, <1>2 DEF TypeOK
  <2>2. spc' \in SenderPC /\ shown' \in 0 .. minted'
    BY <1>1 DEF SenderPC
  <2> QED BY <2>1, <2>2 DEF TypeOK
<1>4. IsPinBucketActive(fresh.bucket, now) \/ rotation_due <= now
  <2>1. fresh.bucket \in Nat /\ PinBucket(now) \in Nat /\ PinBucket(rotation_due) \in Nat
    BY <1>1, BucketBounds DEF Generation
  <2>2. SUFFICES ASSUME now <= rotation_due
                 PROVE  IsPinBucketActive(fresh.bucket, now)
    BY <1>1
  <2>3. PinBucket(now) <= PinBucket(rotation_due)
    BY <1>1, <2>2, BucketMonotonic
  <2> QED BY <1>1, <2>1, <2>3 DEF PastGeneration, IsPinBucketActive
<1>5. MintInv'
  BY <1>1, <1>2, <1>4 DEF MintInv, PastGeneration
<1>6. GenerationsInv'
  <2>1. \A g \in generations' : g \in Generation /\ g.pin \in Nat
    BY <1>1, <1>2 DEF TypeOK, Generation
  <2> QED BY <1>1, <1>2, <2>1 DEF GenerationsInv, PastGeneration
<1>7. PinsInv'
  BY DEF PinsInv
<1>8. SeenInv'
  <2>1. ASSUME NEW r \in seen, NEW g \in generations', g.pin = rpin[r],
               IsPinBucketActive(g.bucket, now)
        PROVE  FALSE
    <3>1. r \in Receivers /\ rpin[r] \in Nat /\ rpin[r] < minted
      BY DEF TypeOK, PinsInv
    <3>2. g \in generations
      BY <1>1, <1>2, <2>1, <3>1
    <3> QED BY <2>1, <3>2 DEF SeenInv, Honoured
  <2> QED BY <2>1 DEF SeenInv, Honoured
<1>9. LockInv' /\ ConfirmedIsLocked'
  BY <1>1 DEF LockInv, ConfirmedIsLocked
<1> QED BY <1>3, <1>5, <1>6, <1>7, <1>8, <1>9

(* A rotation falls due one period after the last one. *)
LEMMA RotateStep == IInv /\ Rotate => IInv'
<1> SUFFICES ASSUME IInv, Rotate PROVE IInv'
  OBVIOUS
<1> USE DEF IInv, Rotate, mintvars, uservars, eventvars, recvars
<1>1. TypeOK'
  BY RotationAssumption DEF TypeOK, SenderPC
<1>2. MintInv'
  BY RotationAssumption DEF TypeOK, MintInv
<1>3. GenerationsInv' /\ PinsInv'
  BY DEF GenerationsInv, PastGeneration, PinsInv
<1>4. SeenInv' /\ LockInv' /\ ConfirmedIsLocked'
  BY DEF SeenInv, Honoured, LockInv, ConfirmedIsLocked
<1> QED BY <1>1, <1>2, <1>3, <1>4

(* A refresh drops the generations and restarts the rotation period. *)
LEMMA RefreshStep == IInv /\ Refresh => IInv'
<1> SUFFICES ASSUME IInv, Refresh PROVE IInv'
  OBVIOUS
<1> USE DEF IInv, Refresh, eventvars, recvars
<1>1. TypeOK'
  <2>1. now \in Nat /\ Rotation \in Nat /\ minted \in Nat
    BY RotationAssumption DEF TypeOK
  <2>2. now + Rotation \in Nat
    BY <2>1
  <2>3. minted \in 0 .. minted
    BY <2>1
  <2>4. /\ spc' \in SenderPC /\ rotation_due' \in Nat /\ refresh' \in BOOLEAN
        /\ generations' \subseteq Generation /\ revoked' \in 0 .. minted'
    BY <2>2, <2>3 DEF TypeOK, SenderPC
  <2> QED BY <2>4 DEF TypeOK
<1>2. MintInv'
  BY RotationAssumption DEF TypeOK, MintInv
<1>3. GenerationsInv' /\ PinsInv'
  BY DEF GenerationsInv, PinsInv
<1>4. SeenInv' /\ LockInv' /\ ConfirmedIsLocked'
  BY DEF SeenInv, Honoured, LockInv, ConfirmedIsLocked
<1> QED BY <1>1, <1>2, <1>3, <1>4

(* Giving up, for whatever reason, changes nothing else but the relays. *)
LEMMA GiveUpStep ==
    IInv /\ (PublishPinFails \/ WaitEnds \/ NotificationsEnd) => IInv'
<1> SUFFICES ASSUME IInv, PublishPinFails \/ WaitEnds \/ NotificationsEnd
             PROVE  IInv'
  OBVIOUS
<1>1. /\ spc' = "failed" /\ relay' \in {relay, relay \cup {fresh}}
      /\ spc \in {"publishing", "waiting"}
      /\ UNCHANGED <<now, pinvars, uservars, seen, locked, claims, confirms, recvars>>
  BY DEF PublishPinFails, WaitEnds, NotificationsEnd, eventvars
<1> USE <1>1 DEF IInv, pinvars, mintvars, uservars, recvars
<1>2. TypeOK'
  <2>1. relay' \subseteq Generation
    BY DEF TypeOK
  <2> QED BY <2>1 DEF TypeOK, SenderPC
<1>3. MintInv' /\ GenerationsInv' /\ PinsInv'
  BY DEF MintInv, GenerationsInv, PastGeneration, PinsInv
<1>4. SeenInv' /\ LockInv' /\ ConfirmedIsLocked'
  BY DEF SeenInv, LockInv, ConfirmedIsLocked
<1> QED BY <1>2, <1>3, <1>4

(* The first claim that verifies locks the transfer: until then there is   *)
(* no confirm, so nobody believes itself confirmed.                        *)
LEMMA AcceptClaimStep ==
    ASSUME NEW r \in Receivers
    PROVE  IInv /\ AcceptClaim(r) => IInv'
<1> SUFFICES ASSUME IInv, AcceptClaim(r) PROVE IInv'
  OBVIOUS
<1> USE DEF IInv, AcceptClaim, uservars, eventvars, recvars
<1>1. TypeOK'
  BY DEF TypeOK, SenderPC, NoPin
<1>2. MintInv' /\ GenerationsInv' /\ PinsInv' /\ SeenInv'
  BY DEF MintInv, GenerationsInv, PastGeneration, PinsInv, SeenInv
<1>3. LockInv'
  BY DEF LockInv
<1>4. ConfirmedIsLocked'
  BY HandshakeAssumption DEF ConfirmedIsLocked, MintInv
<1> QED BY <1>1, <1>2, <1>3, <1>4

(* A claim that does not verify is remembered. *)
LEMMA IgnoreClaimStep ==
    ASSUME NEW r \in Receivers
    PROVE  IInv /\ IgnoreClaim(r) => IInv'
<1> SUFFICES ASSUME IInv, IgnoreClaim(r) PROVE IInv'
  OBVIOUS
<1> USE DEF IInv, IgnoreClaim, pinvars, mintvars, uservars, eventvars, recvars
<1>1. TypeOK' /\ PinsInv'
  BY DEF TypeOK, PinsInv
<1>2. MintInv' /\ GenerationsInv'
  BY DEF MintInv, GenerationsInv, PastGeneration
<1>3. SeenInv'
  BY DEF SeenInv, Honoured, Verifies
<1>4. LockInv' /\ ConfirmedIsLocked'
  BY DEF LockInv, ConfirmedIsLocked
<1> QED BY <1>1, <1>2, <1>3, <1>4

(* The confirm, published or not, is for the locked receiver. *)
LEMMA ConfirmStep ==
    IInv /\ (PublishConfirm \/ PublishConfirmFails) => IInv'
<1> SUFFICES ASSUME IInv, PublishConfirm \/ PublishConfirmFails
             PROVE  IInv'
  OBVIOUS
<1>1. /\ spc = "confirming" /\ spc' \in {"confirmed", "failed"}
      /\ confirms' \in {confirms, confirms \cup {ConfirmEvent}}
      /\ UNCHANGED <<now, pinvars, uservars, seen, locked, relay, claims, recvars>>
  BY DEF PublishConfirm, PublishConfirmFails
<1> USE <1>1 DEF IInv, pinvars, mintvars, uservars, recvars
<1>2. locked \in Receivers /\ ConfirmEvent \in [to : Receivers, pin : Nat]
      /\ ConfirmEvent.to = locked
  BY DEF LockInv, TypeOK, ConfirmEvent
<1>3. TypeOK'
  <2>1. confirms' \subseteq [to : Receivers, pin : Nat]
    BY <1>2 DEF TypeOK
  <2> QED BY <2>1 DEF TypeOK, SenderPC
<1>4. LockInv'
  BY <1>2 DEF LockInv
<1>5. MintInv' /\ GenerationsInv' /\ PinsInv' /\ SeenInv' /\ ConfirmedIsLocked'
  BY DEF MintInv, GenerationsInv, PastGeneration, PinsInv, SeenInv, ConfirmedIsLocked
<1> QED BY <1>3, <1>4, <1>5

(* Asking for a refresh changes nothing but the permit. *)
LEMMA RequestRefreshStep == IInv /\ RequestRefresh => IInv'
<1> SUFFICES ASSUME IInv, RequestRefresh PROVE IInv'
  OBVIOUS
<1> USE DEF IInv, RequestRefresh, pinvars, mintvars, eventvars, recvars
<1>1. TypeOK'
  BY HandshakeAssumption DEF TypeOK
<1>2. MintInv' /\ GenerationsInv' /\ PinsInv'
  BY DEF MintInv, GenerationsInv, PastGeneration, PinsInv
<1>3. SeenInv' /\ LockInv' /\ ConfirmedIsLocked'
  BY DEF SeenInv, Honoured, LockInv, ConfirmedIsLocked
<1> QED BY <1>1, <1>2, <1>3

(* The receiver's user types what is on the screen, never the PIN that is  *)
(* still being published.                                                  *)
LEMMA EnterPinStep ==
    ASSUME NEW r \in Receivers
    PROVE  IInv /\ EnterPin(r) => IInv'
<1> SUFFICES ASSUME IInv, EnterPin(r) PROVE IInv'
  OBVIOUS
<1> USE DEF IInv, EnterPin, ReceiverGoes, pinvars, mintvars, uservars
<1>1. TypeOK'
  <2>1. rpc' \in [Receivers -> ReceiverPC] /\ rpin' \in [Receivers -> Nat]
    BY DEF TypeOK, ReceiverPC
  <2> QED BY <2>1 DEF TypeOK
<1>2. \A x \in Receivers : x # r => rpc'[x] = rpc[x] /\ rpin'[x] = rpin[x]
  BY DEF TypeOK
<1>3. rpc'[r] = "deriving" /\ rpin'[r] = shown /\ r \notin claims
  BY DEF TypeOK, PinsInv
<1>4. MintInv' /\ GenerationsInv'
  BY DEF MintInv, GenerationsInv, PastGeneration
<1>5. PinsInv'
  <2>1. \A x \in Receivers : /\ rpin'[x] <= minted
                             /\ spc = "publishing" => rpin'[x] < minted
    BY <1>2, <1>3 DEF PinsInv, TypeOK
  <2>2. \A x \in claims : rpc'[x] = rpc[x]
    BY <1>2, <1>3 DEF TypeOK
  <2> QED BY <2>1, <2>2 DEF PinsInv
<1>6. SeenInv'
  <2>1. \A x \in seen : rpin'[x] = rpin[x]
    BY <1>2, <1>3 DEF PinsInv, TypeOK
  <2> QED BY <2>1 DEF SeenInv, Honoured
<1>7. LockInv' /\ ConfirmedIsLocked'
  BY <1>2, <1>3 DEF LockInv, ConfirmedIsLocked
<1> QED BY <1>1, <1>4, <1>5, <1>6, <1>7

(* Whatever else the receiver does, it goes on to a later state, claims    *)
(* only for itself, and believes itself confirmed only on a confirm.       *)
LEMMA ReceiverStepPreserves ==
    ASSUME NEW r \in Receivers
    PROVE  IInv /\ ReceiverStep(r) => IInv'
<1> SUFFICES ASSUME IInv, ReceiverStep(r) PROVE IInv'
  OBVIOUS
<1>1. CASE EnterPin(r)
  BY <1>1, EnterPinStep
<1>2. CASE ~EnterPin(r)
  <2> USE DEF IInv, ReceiverGoes, pinvars, mintvars, uservars
  <2>1. PICK pc \in {"searching", "asking", "waiting", "confirmed", "cancelled",
                     "failed"} :
          /\ rpc' = [rpc EXCEPT ![r] = pc] /\ rpc[r] # "idle"
          /\ pc = "confirmed" => \E c \in confirms : ConfirmsClaim(c, r)
          /\ pc \in {"searching", "asking"} =>
                 rpc[r] \in {"deriving", "searching"} /\ claims' = claims
          /\ \/ claims' = claims
             \/ claims' = claims \cup {r} /\ pc \in {"waiting", "failed"}
          /\ UNCHANGED <<now, spc, pinvars, uservars, seen, locked, relay,
                         confirms, rpin>>
    BY <1>2 DEF ReceiverStep, DeriveHints, FindRendezvous, FindNothing, Decline,
                PublishClaim, PublishClaimFails, ReceiveConfirm, ConfirmMissing,
                WaitForConfirmFails
  <2>2. /\ rhints' \in [Receivers -> SUBSET Nat]
        /\ rdue' \in [Receivers -> Nat]
    <3>1. HintBuckets(Reads(r)) \in SUBSET Nat
      BY ReadsIsTime, HintsAreActiveBuckets DEF TypeOK
    <3>2. now + ConfirmTimeout \in Nat
      BY HandshakeAssumption DEF TypeOK
    <3> QED BY <1>2, <3>1, <3>2
            DEF ReceiverStep, DeriveHints, FindRendezvous, FindNothing, Decline,
                PublishClaim, PublishClaimFails, ReceiveConfirm, ConfirmMissing,
                WaitForConfirmFails, TypeOK
  <2>3. TypeOK'
    <3>1. rpc' \in [Receivers -> ReceiverPC] /\ claims' \subseteq Receivers
      BY <2>1 DEF TypeOK, ReceiverPC
    <3> QED BY <2>1, <2>2, <3>1 DEF TypeOK
  <2>4. MintInv' /\ GenerationsInv' /\ SeenInv' /\ LockInv'
    BY <2>1 DEF MintInv, GenerationsInv, PastGeneration, SeenInv, Honoured, LockInv
  <2>5. PinsInv'
    <3>1. \A x \in claims' :
              rpc'[x] \notin {"idle", "deriving", "searching", "asking"}
      BY <2>1 DEF PinsInv, TypeOK
    <3> QED BY <2>1, <3>1 DEF PinsInv
  <2>6. ConfirmedIsLocked'
    BY <2>1 DEF ConfirmedIsLocked, ConfirmsClaim, LockInv, TypeOK
  <2> QED BY <2>3, <2>4, <2>5, <2>6
<1> QED BY <1>1, <1>2

(* Every step of the handshake preserves the inductive invariant. *)
LEMMA NextPreserves == IInv /\ [Next]_vars => IInv'
<1> SUFFICES ASSUME IInv, [Next]_vars PROVE IInv'
  OBVIOUS
<1>1. CASE Tick
  BY <1>1, TickStep
<1>2. CASE SenderStep
  BY <1>2, MintPinStep, PublishPinStep, RotateStep, RefreshStep, GiveUpStep,
     AcceptClaimStep, IgnoreClaimStep, ConfirmStep DEF SenderStep
<1>3. CASE RequestRefresh
  BY <1>3, RequestRefreshStep
<1>4. CASE \E r \in Receivers : ReceiverStep(r)
  BY <1>4, ReceiverStepPreserves
<1>5. CASE UNCHANGED vars
  <2> USE <1>5 DEF vars, IInv, pinvars, mintvars, uservars, eventvars, recvars
  <2>1. TypeOK'
    BY DEF TypeOK
  <2>2. MintInv' /\ GenerationsInv' /\ PinsInv'
    BY DEF MintInv, GenerationsInv, PastGeneration, PinsInv
  <2>3. SeenInv' /\ LockInv' /\ ConfirmedIsLocked'
    BY DEF SeenInv, Honoured, LockInv, ConfirmedIsLocked
  <2> QED BY <2>1, <2>2, <2>3
<1> QED BY <1>1, <1>2, <1>3, <1>4, <1>5 DEF Next

(***************************************************************************)
(* The inductive invariant of the handshake of the sender that rotates its *)
(* PIN and the receivers that claim.                                       *)
(***************************************************************************)
THEOREM HandshakeInvariant == Spec => []IInv
<1>1. Init => IInv
  BY InitEstablishes
<1>2. IInv /\ [Next]_vars => IInv'
  BY NextPreserves
<1> QED BY <1>1, <1>2, PTL DEF Spec

(* Types hold, for every value of the constants. *)
THEOREM HandshakeTypes == Spec => []TypeOK
<1>1. IInv => TypeOK
  BY DEF IInv
<1> QED BY <1>1, HandshakeInvariant, PTL

(***************************************************************************)
(* The PIN on the sender's screen can be claimed until its rotation is     *)
(* due, however long deriving and publishing took.                         *)
(***************************************************************************)
THEOREM ShownAlwaysClaimable == Spec => []ShownCanBeClaimed
<1>1. ASSUME IInv, spc = "waiting", now < rotation_due
      PROVE  /\ fresh \in generations \cap relay /\ fresh.pin = shown
             /\ IsPinBucketActive(fresh.bucket, now)
  <2>1. /\ now \in Nat /\ rotation_due \in Nat /\ fresh \in Generation
        /\ fresh \in generations /\ fresh \in relay /\ shown = fresh.pin
        /\ fresh.bucket <= PinBucket(now)
        /\ PinBucket(rotation_due) <= fresh.bucket + 1
    BY <1>1 DEF IInv, TypeOK, MintInv, PastGeneration
  <2>2. PinBucket(now) <= PinBucket(rotation_due)
    BY <1>1, <2>1, BucketMonotonic
  <2>3. /\ fresh.bucket \in Nat /\ PinBucket(now) \in Nat
        /\ PinBucket(rotation_due) \in Nat
    BY <2>1, BucketBounds DEF Generation
  <2>4. IsPinBucketActive(fresh.bucket, now)
    BY <2>1, <2>2, <2>3 DEF IsPinBucketActive
  <2> QED BY <2>1, <2>4
<1>2. IInv => ShownCanBeClaimed
  BY <1>1 DEF ShownCanBeClaimed
<1> QED BY <1>2, HandshakeInvariant, PTL

(***************************************************************************)
(* Every generation the sender honours is with the relays, and a receiver  *)
(* finds it exactly when the rule holds by its own clock: hints, age and   *)
(* expiration agree with the sender's rule, whatever the clocks differ by. *)
(***************************************************************************)
THEOREM HonouredAlwaysFindable == Spec => []HonouredIsFindable
<1>1. ASSUME IInv, NEW g \in generations
      PROVE  /\ now \in Nat /\ now >= Start /\ g \in relay
             /\ g.bucket \in Nat /\ g.created \in Nat
             /\ g.bucket <= PinBucket(now)
             /\ g.bucket * Rotation <= g.created * Second
  BY <1>1 DEF IInv, TypeOK, Generation, GenerationsInv, PastGeneration
<1>2. ASSUME IInv, NEW g \in generations, IsPinBucketActive(g.bucket, now)
      PROVE  g \in relay /\ now < Expiration(g.bucket) * Second
  BY <1>1, <1>2, ExpirationEndsActivity
<1>3. ASSUME IInv, NEW g \in generations, NEW t \in Nat
      PROVE  IsRendezvous(g, g.pin, HintBuckets(t), t)
                 <=> IsPinBucketActive(g.bucket, t)
  <2>1. g.bucket \in HintBuckets(t) <=> IsPinBucketActive(g.bucket, t)
    BY <1>1, <1>3, HintsAreActiveBuckets
  <2>2. IsPinBucketActive(g.bucket, t) => ~TooOld(g.created, t)
    BY <1>1, <1>3, ActiveIsNotTooOld
  <2> QED BY <2>1, <2>2 DEF IsRendezvous
<1>4. ASSUME IInv, NEW g \in generations
      PROVE  {now} \cup {Reads(r) : r \in Receivers} \subseteq Nat
  BY <1>1, <1>4, ReadsIsTime
<1>5. IInv => HonouredIsFindable
  BY <1>2, <1>3, <1>4 DEF HonouredIsFindable
<1> QED BY <1>5, HandshakeInvariant, PTL

(* A claim that was turned down could not have been accepted later. *)
THEOREM NoClaimEverWasted == Spec => []NoClaimWasted
<1>1. IInv => NoClaimWasted
  BY DEF IInv, SeenInv, NoClaimWasted
<1> QED BY <1>1, HandshakeInvariant, PTL

(***************************************************************************)
(* First-claim lockout: of any number of receivers that claim, only the    *)
(* one the sender is locked to is ever confirmed.                          *)
(***************************************************************************)
THEOREM OnlyLockedIsConfirmed == Spec => []ConfirmedIsLocked
<1>1. IInv => ConfirmedIsLocked
  BY DEF IInv
<1> QED BY <1>1, HandshakeInvariant, PTL

(***************************************************************************)
(* A refresh revokes: no step locks the transfer to a receiver whose PIN   *)
(* was generated before the last refresh was handled.                      *)
(***************************************************************************)
THEOREM RevokedNeverAccepted == Spec => RevokedStaysRevoked
<1> DEFINE Safe == \A r \in Receivers : locked' = r /\ locked # r => rpin[r] > revoked
<1>1. IInv /\ [Next]_vars => [Safe]_vars
  <2> SUFFICES ASSUME IInv, Next PROVE Safe
    OBVIOUS
  <2>1. ASSUME NEW r \in Receivers, AcceptClaim(r)
        PROVE  locked' = r /\ rpin[r] > revoked
    BY <2>1 DEF AcceptClaim, Verifies, IInv, GenerationsInv, TypeOK
  <2>2. (\E r \in Receivers : AcceptClaim(r)) \/ locked' = locked
    BY DEF Next, Tick, SenderStep, RequestRefresh, ReceiverStep, MintPin, PublishPin,
           PublishPinFails, Rotate, Refresh, WaitEnds, NotificationsEnd, IgnoreClaim,
           PublishConfirm, PublishConfirmFails, EnterPin, DeriveHints, FindRendezvous,
           FindNothing, Decline, PublishClaim, PublishClaimFails, ReceiveConfirm,
           ConfirmMissing, WaitForConfirmFails, ReceiverGoes
  <2> QED BY <2>1, <2>2
<1> QED BY <1>1, HandshakeInvariant, PTL DEF Spec, RevokedStaysRevoked
=============================================================================
