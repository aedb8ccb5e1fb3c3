-------------------------------- MODULE MCPeer --------------------------------
(* One peer connection in two parts that follow each other: gathering on a *)
(* machine of two IPv4 interfaces, one of IPv6 and one nobody can reach,   *)
(* with the code's three servers, two of them on one host, and its         *)
(* timeouts in units of 0.7 s; and a worker with two readers and a send    *)
(* buffer of two messages that six are pushed into.                        *)
EXTENDS DataChannel, IceGathering
VARIABLES part

Interface(name, v4, usable) == [name |-> name, v4 |-> v4, usable |-> usable]
Eth == Interface("eth", TRUE, TRUE)
Six == Interface("six", FALSE, TRUE)
Wifi == Interface("wifi", TRUE, TRUE)
MCInterfaces == <<Interface("lo", TRUE, FALSE), Eth, Six, Wifi>>
Host(at, v4) == [at |-> at, v4 |-> v4]
Server(name, hosts) == [name |-> name, hosts |-> hosts]
MCServers ==
    <<Server("stun", {Host("g", TRUE)}),
      Server("stun1", {Host("g", TRUE), Host("g6", FALSE)}),
      Server("cloudflare", {Host("c", TRUE)})>>

(* Before the worker is spawned nothing of it moves.  Bound: the machines. *)
MCInit ==
    /\ part \in {"gathering", "working"}
    /\ GatherInit
    /\ IF part = "working"
       THEN Init /\ sockets = <<Localhost>> /\ nat = "none"
       ELSE /\ Init /\ creates
            /\ sockets \in {<<Eth, Wifi>>, <<Six, Eth>>, <<Localhost, Eth>>}
MCNext ==
    \/ part = "gathering" /\ GatherNext /\ UNCHANGED <<vars, part>>
    \/ part = "working" /\ Next /\ UNCHANGED <<gathervars, part>>
MCSpec == MCInit /\ [][MCNext]_<<vars, gathervars, part>> /\ Fairness
=============================================================================
