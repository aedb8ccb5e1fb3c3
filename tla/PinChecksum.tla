----------------------------- MODULE PinChecksum -----------------------------
(***************************************************************************)
(* The characters of a PIN and its checksum (crypto/pin.rs).  A character  *)
(* is its index in PIN_CHARSET.  The loop of compute_checksum, which runs  *)
(* over nine characters, is written out: the theorems need no induction.   *)
(***************************************************************************)
EXTENDS Integers, Sequences

PIN_LENGTH == 10
CharsetSize == 32
Charset == 0 .. CharsetSize - 1

Data == [1 .. 9 -> Charset]
Pin == [1 .. 10 -> Charset]

(* The weights are the odd numbers; positions count from 1 here. *)
Term(data, i) == data[i] * (2 * i - 1)
WeightedSum(data) ==
    Term(data, 1) + Term(data, 2) + Term(data, 3) + Term(data, 4) + Term(data, 5)
    + Term(data, 6) + Term(data, 7) + Term(data, 8) + Term(data, 9)
compute_checksum(data) == WeightedSum(data) % CharsetSize

(* generate_pin appends the checksum to nine characters drawn at random. *)
generate_pin(data) ==
    [i \in 1 .. 10 |-> IF i = 10 THEN compute_checksum(data) ELSE data[i]]

is_valid_pin(pin) ==
    /\ Len(pin) = PIN_LENGTH
    /\ \A i \in 1 .. PIN_LENGTH : pin[i] \in Charset
    /\ compute_checksum(pin) = pin[PIN_LENGTH]
=============================================================================
