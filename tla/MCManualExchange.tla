--------------------------- MODULE MCManualExchange ---------------------------
(* The manual exchange with an hour of four ticks, starting anywhere in    *)
(* the second hour, the clocks up to two ticks apart.                      *)
EXTENDS ManualExchange

Hour == BucketSec * Second
MCClocks ==
    {k \in [Side -> Hour .. 2 * Hour] : k["sender"] - k["receiver"] \in -2 .. 2}

(* Left over from the hour before: *)
Stale(t, age) == [type |-> t, created |-> Hour - age, bucket |-> 0, of |-> "other"]
MCStale == {Stale("offer", 1), Stale("answer", 1)}
=============================================================================
