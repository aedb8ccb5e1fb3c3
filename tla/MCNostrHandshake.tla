--------------------------- MODULE MCNostrHandshake ---------------------------
(* NostrHandshake with buckets of two ticks, for two kinds of users: one   *)
(* receiver while the sender's user may ask for a refresh, and two runs of *)
(* the receiver without.  (Both at once is 20 times the states.)  One of   *)
(* the receivers' clocks is slow, one fast.                                *)
EXTENDS NostrHandshake, TLC
CONSTANTS r1, r2
VARIABLE active      \* the runs of the receiver that take place

MCReceivers == {r1, r2}
MCSkew == (r1 :> -1) @@ (r2 :> 1)

MCInit == Init /\ active \in {{r1}, MCReceivers}
MCNext ==
    /\ Next
    /\ \A r \in MCReceivers \ active : rpc'[r] = "idle"
    /\ rpc'[r2] # "idle" => rpc'[r1] # "idle"      \* r1 is the first to type
    /\ active = MCReceivers => refreshes' = 0
    /\ UNCHANGED active
MCSpec == MCInit /\ [][MCNext]_<<vars, active>> /\ Fairness
=============================================================================
