------------------------------ MODULE ManualCodes ------------------------------
(***************************************************************************)
(* The two clock rules of SS03 codes (signaling/manual.rs): the age at     *)
(* which a session is over, and the hour whose key a code is obscured      *)
(* with.  A code carries no hour; the reader tries two.  Times are         *)
(* milliseconds since 1970.                                                *)
(***************************************************************************)
EXTENDS Integers

CONSTANTS
    Second,       \* milliseconds in a second
    BucketSec     \* BUCKET_SEC

ASSUME HourAssumption == Second \in Nat \ {0} /\ BucketSec \in Nat \ {0}

(* TRANSFER_EXPIRATION_MS is written apart from BUCKET_SEC: both are an hour. *)
TransferExpiration_TwoHours == 2 * (BucketSec * Second)
TransferExpiration == BucketSec * Second

SaturatingSub(a, b) == IF a >= b THEN a - b ELSE 0

IsExpired(created, t) == SaturatingSub(t, created) > TransferExpiration

Bucket(t) == (t \div Second) \div BucketSec

(* decode at t of a code obscured in hour b *)
Decodes_CurrentOnly(b, t) == b = Bucket(t)
Decodes(b, t) == \E i \in 0 .. 1 : b = SaturatingSub(Bucket(t), i)
=============================================================================
