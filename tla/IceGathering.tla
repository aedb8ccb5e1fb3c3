----------------------------- MODULE IceGathering -----------------------------
(***************************************************************************)
(* WebRtcPeer::new up to the start of the worker: the UDP sockets, the     *)
(* candidates that stand for them, and the routes by which the worker      *)
(* finds the socket of a candidate again.                                  *)
(*                                                                         *)
(* Every socket asks every STUN server in turn what address it is seen at, *)
(* all under one deadline.  Name resolution, the network, the NAT and the  *)
(* servers (external) answer late, in part or not at all.  An address is a *)
(* record of the interface behind it and a port.                           *)
(***************************************************************************)
EXTENDS Integers, FiniteSets, SequencesExt

CONSTANTS
    Interfaces,    \* the interfaces, as listed: [name, v4, usable]
    STUN_SERVERS,  \* [name, hosts], a host being [at, v4]
    GatherTimeout, \* ICE_GATHER_TIMEOUT
    ResolveCap,    \* the most a name may take
    ProbeCap,      \* the most an answer may take
    MaxInbox       \* bound: datagrams that wait on a socket

Localhost == [name |-> "localhost", v4 |-> TRUE, usable |-> FALSE]
Everywhere == ToSet(Interfaces) \cup {Localhost}

(* An interface is known by its name, an address.  All servers but the     *)
(* last may take all their time: common.rs:696 asks three of them, for 0.5 *)
(* and 0.7 s at most, and the timeout is 5 s.                              *)
ASSUME InterfacesAssumption ==
    /\ Interfaces \in Seq([name : STRING \ {"none"}, v4 : BOOLEAN, usable : BOOLEAN])
    /\ \A i, j \in Everywhere : i.name = j.name => i = j
ASSUME ServersAssumption ==
    STUN_SERVERS \in Seq([name : STRING, hosts : SUBSET [at : STRING, v4 : BOOLEAN]])
ASSUME TimesAssumption ==
    /\ ResolveCap \in Nat /\ ProbeCap \in Nat /\ GatherTimeout \in Nat
    /\ (Len(STUN_SERVERS) - 1) * (ResolveCap + ProbeCap) < GatherTimeout

VARIABLES
    sockets,       \* the interfaces that are bound, the preferred one first
    nat,           \* how the network maps the sockets' addresses
    clock,
    gpc,
    socket_index, server_index,
    server_addr,   \* the host that is asked
    due,           \* when the present wait is given up
    underway,      \* requests without an answer yet
    inbox,         \* datagrams the socket has received
    found,         \* addresses and the servers that told them
    routes, candidates,
    told, skipped  \* history: what this socket was told in time, who was not asked

waitvars == <<server_addr, due>>
netvars == <<underway, inbox>>
resultvars == <<sockets, nat, routes, candidates>>
gathervars == <<resultvars, clock, gpc, socket_index, server_index, waitvars, netvars,
                found, told, skipped>>

-----------------------------------------------------------------------------
(* Sockets *)

(* The preferred address, then every other that others could reach. *)
CandidateIps(preferred) == {preferred} \cup {i \in ToSet(Interfaces) : i.usable}
(* The preferred one is first, the others as they are listed first. *)
Precedes(i, j, preferred) ==
    /\ j # preferred
    /\ \/ i = preferred
       \/ \E n \in DOMAIN Interfaces :
              Interfaces[n] = i /\ \A m \in 1 .. n : Interfaces[m] # j

(* Each of them once, if it can be bound. *)
bind_candidate_sockets(preferred, bindable) ==
    LET bound == CandidateIps(preferred) \cap bindable
        n == Cardinality(bound)
    IN  IF bound = {} THEN {<<Localhost>>}
        ELSE {s \in [1 .. n -> bound] :
                  \A i, j \in 1 .. n : i < j => Precedes(s[i], s[j], preferred)}

LocalAddr(i) == [name |-> sockets[i].name, port |-> "own"]

HostCandidate(i) == [typ |-> "host", addr |-> LocalAddr(i), socket |-> i]

-----------------------------------------------------------------------------
(* A STUN message: a header and attributes, each a header of four bytes    *)
(* and a value padded to a multiple of four                                *)

Padded(n) == 4 * ((n + 3) \div 4)
AttributeEnd(a, at) == at + 4 + a.length

AttributeOffsets(attributes) ==
    LET offset[i \in 1 .. Len(attributes) + 1] ==
            IF i = 1 THEN 20 ELSE offset[i - 1] + 4 + Padded(attributes[i - 1].length)
    IN  offset
NoAddress == [name |-> "none", port |-> "none"]

XorMapped(a) == a.typ = "xor_mapped" /\ a.length >= 8
AddressIn(a) ==
    IF a.family = "v4" \/ (a.family = "v6" /\ a.length >= 20) THEN a.addr ELSE NoAddress

(* The walk over the attributes ends with the first mapped address, or at  *)
(* one that does not fit.                                                  *)
Fits(packet, i) ==
    /\ i <= Len(packet.attributes)
    /\ LET end == IF 20 + packet.declared < packet.size
                  THEN 20 + packet.declared ELSE packet.size
           at == AttributeOffsets(packet.attributes)[i]
       IN  at + 4 <= end /\ AttributeEnd(packet.attributes[i], at) <= end
Stops(packet, i) == ~Fits(packet, i) \/ XorMapped(packet.attributes[i])
WalkEnd(packet) ==
    CHOOSE i \in 1 .. Len(packet.attributes) + 1 :
        Stops(packet, i) /\ \A j \in 1 .. i - 1 : ~Stops(packet, j)
parse_stun_binding_response(packet, transaction) ==
    IF packet.size < 20 \/ ~packet.success \/ packet.transaction # transaction
       \/ ~Fits(packet, WalkEnd(packet))
    THEN NoAddress
    ELSE AddressIn(packet.attributes[WalkEnd(packet)])

-----------------------------------------------------------------------------
(* The network *)

(* Without NAT, with one public address per socket, or one per destination. *)
Nats == {"none", "socket", "destination"}
MappedAddr(i, host) ==
    [name |-> sockets[i].name,
     port |-> CASE nat = "none" -> "own"
                [] nat = "socket" -> "public"
                [] nat = "destination" -> host.at]

Request(i, s, host) == [socket |-> i, server |-> s, host |-> host]

Mapped(r) ==
    [typ |-> "xor_mapped", addr |-> MappedAddr(r.socket, r.host),
     length |-> IF r.host.v4 THEN 8 ELSE 20,
     family |-> IF r.host.v4 THEN "v4" ELSE "v6"]
Software == [typ |-> "software", length |-> 5, family |-> "none", addr |-> NoAddress]

Message(r, attributes) ==
    LET length == AttributeOffsets(attributes)[Len(attributes) + 1]
    IN  [source |-> r.host, transaction |-> <<r.socket, r.server>>, success |-> TRUE,
         declared |-> length - 20, size |-> length, attributes |-> attributes]

(* A server answers with or without attributes before the address, in part, *)
(* or with an error.                                                        *)
Answers(r) ==
    LET whole == Message(r, <<Software, Mapped(r)>>)
    IN  {Message(r, <<Mapped(r)>>), whole, [whole EXCEPT !.size = @ - 1],
         [whole EXCEPT !.success = FALSE]}

(* What a whole answer says. *)
Tells(packet) ==
    IF ~packet.success \/ packet.size < 20 + packet.declared THEN {}
    ELSE {packet.attributes[i].addr :
              i \in {j \in 1 .. Len(packet.attributes) :
                         packet.attributes[j].typ = "xor_mapped"}}

-----------------------------------------------------------------------------
(* WebRtcPeer::new and gather_server_reflexive_candidates *)

GatherInit ==
    /\ \E preferred \in ToSet(Interfaces) \cup {Localhost},
          bindable \in SUBSET ToSet(Interfaces) :
           sockets \in bind_candidate_sockets(preferred, bindable \cup {Localhost})
    /\ nat \in Nats
    /\ clock = 0 /\ gpc = "asking"
    /\ socket_index = 1 /\ server_index = 1
    /\ server_addr = [at |-> "none", v4 |-> TRUE] /\ due = 0
    /\ underway = {} /\ inbox = <<>> /\ found = {}
    /\ routes = [a \in {LocalAddr(1)} |-> 1]
    /\ candidates = {HostCandidate(1)}
    /\ told = {} /\ skipped = {}

Socket == sockets[socket_index]
Before(limit) == IF clock + limit < GatherTimeout THEN clock + limit ELSE GatherTimeout

(* A wait ends when it is due, so time does not pass it. *)
Tick ==
    /\ gpc \in {"resolving", "waiting"} /\ clock < due
    /\ clock' = clock + 1
    /\ UNCHANGED <<resultvars, gpc, socket_index, server_index, waitvars, netvars,
                   found, told, skipped>>

ResolveDue_Uncapped == GatherTimeout
ResolveDue == Before(ResolveCap)

AskServer ==
    /\ gpc = "asking" /\ server_index <= Len(STUN_SERVERS) /\ clock < GatherTimeout
    /\ gpc' = "resolving"
    /\ due' = ResolveDue
    /\ UNCHANGED <<resultvars, clock, socket_index, server_index, server_addr, netvars,
                   found, told, skipped>>

NextServer ==
    /\ gpc' = "asking" /\ server_index' = server_index + 1
    /\ UNCHANGED <<resultvars, clock, socket_index, skipped>>

(* The name has an address of the socket's family, and the request is sent. *)
SendRequest ==
    /\ gpc = "resolving"
    /\ \E host \in STUN_SERVERS[server_index].hosts :
           /\ host.v4 = Socket.v4
           /\ server_addr' = host
           /\ underway' = underway \cup {Request(socket_index, server_index, host)}
    /\ gpc' = "waiting"
    /\ due' = Before(ProbeCap)
    /\ UNCHANGED <<resultvars, clock, socket_index, server_index, inbox,
                   found, told, skipped>>

(* No answer from the resolver, none in time, none of the family, or the   *)
(* request cannot be sent.                                                 *)
CannotAsk ==
    /\ gpc = "resolving"
    /\ NextServer
    /\ UNCHANGED <<waitvars, netvars, found, told>>

(* A datagram reaches the socket: the answer to any request of it. *)
Arrives ==
    /\ gpc # "done" /\ Len(inbox) < MaxInbox
    /\ \E r \in {r \in underway : r.socket = socket_index} :
           /\ underway' = underway \ {r}
           /\ \E p \in Answers(r) : inbox' = Append(inbox, p)
    /\ UNCHANGED <<resultvars, clock, gpc, socket_index, server_index, waitvars,
                   found, told, skipped>>

Learns(p) ==
    told' = told \cup {[addr |-> a, server |-> p.transaction[2]] : a \in Tells(p)}

(* The address an answer gives, unless it answers another request. *)
AddressFrom_AnyTransaction(p) ==
    IF p.source # server_addr THEN NoAddress
    ELSE parse_stun_binding_response(p, p.transaction)
AddressFrom(p) ==
    IF p.source # server_addr THEN NoAddress
    ELSE parse_stun_binding_response(p, <<socket_index, server_index>>)

Waits == gpc = "waiting" /\ clock < due

(* A datagram without an address of ours is skipped, ... *)
SkipDatagram ==
    /\ Waits /\ inbox # <<>>
    /\ AddressFrom(Head(inbox)) = NoAddress
    /\ inbox' = Tail(inbox)
    /\ IF Head(inbox).transaction = <<socket_index, server_index>>
       THEN Learns(Head(inbox)) ELSE UNCHANGED told
    /\ UNCHANGED <<resultvars, clock, gpc, socket_index, server_index, waitvars,
                   underway, found, skipped>>

(* ... and the first with one is the end of the probe. *)
TakeAddress ==
    /\ Waits /\ inbox # <<>>
    /\ AddressFrom(Head(inbox)) # NoAddress
    /\ inbox' = Tail(inbox)
    /\ Learns(Head(inbox))
    /\ LET addr == AddressFrom(Head(inbox))
       IN  found' = IF \E f \in found : f.addr = addr THEN found
                    ELSE found \cup {[addr |-> addr, server |-> server_index]}
    /\ NextServer
    /\ UNCHANGED <<waitvars, underway>>

(* The probe is due, or the socket reports an error. *)
GiveUp ==
    /\ gpc = "waiting"
    /\ NextServer
    /\ UNCHANGED <<waitvars, netvars, found, told>>

-----------------------------------------------------------------------------
(* A socket is done: its addresses become candidates, with routes to it *)

ReflexiveCandidates(i) ==
    {[typ |-> "srflx", addr |-> f.addr, socket |-> i, server |-> f.server] : f \in found}

WithRoutes(table, addrs, i) ==
    [a \in addrs \cup DOMAIN table |-> IF a \in addrs THEN i ELSE table[a]]
Routed_HostOnly(i) == routes
Routed(i) == WithRoutes(routes, {f.addr : f \in found}, i)

(* All servers are asked, the deadline has passed, or (without a source of *)
(* random bytes) there is no request to send.                              *)
ServersDone ==
    \/ gpc = "asking" /\ (server_index > Len(STUN_SERVERS) \/ clock >= GatherTimeout)
    \/ gpc = "resolving"

Skipped ==
    IF gpc = "asking"
    THEN {<<socket_index, s>> : s \in server_index .. Len(STUN_SERVERS)}
    ELSE {}

NextSocket ==
    /\ ServersDone /\ socket_index < Len(sockets)
    /\ LET next == socket_index + 1
       IN  /\ socket_index' = next
           /\ routes' = WithRoutes(Routed(socket_index), {LocalAddr(next)}, next)
           /\ candidates' = candidates \cup ReflexiveCandidates(socket_index)
                                       \cup {HostCandidate(next)}
    /\ skipped' = skipped \cup Skipped
    /\ gpc' = "asking" /\ server_index' = 1 /\ found' = {} /\ told' = {}
    /\ inbox' = <<>> /\ underway' = {}     \* of the socket that is left
    /\ UNCHANGED <<sockets, nat, clock, waitvars>>

SocketsDone ==
    /\ ServersDone /\ socket_index = Len(sockets)
    /\ routes' = Routed(socket_index)
    /\ candidates' = candidates \cup ReflexiveCandidates(socket_index)
    /\ skipped' = skipped \cup Skipped
    /\ gpc' = "done"
    /\ UNCHANGED <<sockets, nat, clock, socket_index, server_index, waitvars, netvars,
                   found, told>>

GatherNext ==
    \/ Tick \/ AskServer \/ SendRequest \/ CannotAsk \/ Arrives
    \/ SkipDatagram \/ TakeAddress \/ GiveUp \/ NextSocket \/ SocketsDone

GatherSpec == GatherInit /\ [][GatherNext]_gathervars

(* run_peer: where a datagram leaves that the library sends from an address *)
SocketFor(local_addr, v4) ==
    IF local_addr \in DOMAIN routes THEN routes[local_addr]
    ELSE LET family == {i \in 1 .. Len(sockets) : sockets[i].v4 = v4}
         IN  IF family = {} THEN 1 ELSE CHOOSE i \in family : \A j \in family : i <= j

-----------------------------------------------------------------------------
(* Properties *)

(***************************************************************************)
(* What the library sends from a candidate leaves by the socket that the   *)
(* network knows under the candidate's address.                            *)
(***************************************************************************)
RoutesReach ==
    gpc = "done" =>
        \A c \in candidates :
            /\ SocketFor(c.addr, sockets[c.socket].v4) = c.socket
            /\ \/ c.addr = LocalAddr(c.socket)
               \/ \E s \in ToSet(STUN_SERVERS) : \E host \in s.hosts :
                      c.addr = MappedAddr(c.socket, host)

(***************************************************************************)
(* The answers that are read in time, however they are built and whatever  *)
(* late answers they are mixed with, give exactly the addresses: each one  *)
(* was told by the server it names, and no address told is left out.       *)
(***************************************************************************)
GatheredIsTold ==
    /\ found \subseteq told
    /\ \A t \in told : \E f \in found : f.addr = t.addr

(***************************************************************************)
(* Gathering ends with its timeout, and within it the preferred address    *)
(* gets to ask every server, however slow each of them is.  (The others    *)
(* share what is left.)                                                    *)
(***************************************************************************)
GatherInTime ==
    /\ clock <= GatherTimeout
    /\ \A s \in skipped : s[1] # 1
=============================================================================
