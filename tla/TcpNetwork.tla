------------------------------ MODULE TcpNetwork ------------------------------
(***************************************************************************)
(* Segments and links: what the agents and the TCP endpoints of both        *)
(* examples, htscookie and smartcookie, share.                              *)
(*                                                                         *)
(* There is one protected server, so a connection is a client address and   *)
(* a client port.  Sequence numbers and timestamps are numbers of a bounded *)
(* width, and the code's wrap-around arithmetic is kept.                    *)
(***************************************************************************)
EXTENDS Integers, Sequences, FiniteSets, SequencesExt

CONSTANTS
    Clients,     \* client addresses
    Ports,       \* client ports
    WordMod,     \* 2^32, the range of sequence numbers
    TsMod,       \* 2^32, the range of timestamps
    MaxFaults    \* bound: how often the network misbehaves

VARIABLES
    link,        \* the segments in flight on every link, oldest first
    faults       \* how often the network has misbehaved

ASSUME TcpAssumption ==
    WordMod \in Nat \ {0} /\ TsMod \in Nat \ {0} /\ MaxFaults \in Nat

Conns == Clients \X Ports
SeqNums == 0 .. WordMod - 1
Timestamps == 0 .. TsMod - 1

\* Mutant: the sum does not wrap.
PlusWide(a, b) == a + b

Plus(a, b) == (a + b) % WordMod
Minus(a, b) == (a - b) % WordMod

\* A timestamp comparison of RFC 7323: b is not older than a.
NotOlder(a, b) == (b - a) % TsMod < TsMod \div 2

-----------------------------------------------------------------------------
(* Segments.  "len" is the sequence space the segment takes: payload or FIN. *)
(* RST0 is a reset without TCP options.  ECE is a segment with the flag that *)
(* the agents use for messages of their own.                                *)

Kinds == {"SYN", "SYNACK", "ACK", "RST", "RST0", "ECE"}

Segments == [kind : Kinds, ip : Clients, port : Ports, seq : SeqNums,
             ack : SeqNums \cup Timestamps,
             tsval : Timestamps, tsecr : Timestamps, len : {0, 1}]

ConnOf(p) == <<p.ip, p.port>>

Seg(kind, conn, seq, ack, tsval, tsecr, len) ==
    [kind |-> kind, ip |-> conn[1], port |-> conn[2], seq |-> seq, ack |-> ack,
     tsval |-> tsval, tsecr |-> tsecr, len |-> len]

\* Client to gateway, gateway to server, server to gateway, gateway to client;
\* inside the server: from server_in to TCP, from TCP to server_en, and
\* redirected by server_en to the ingress of the interface.
Wires == {"c2a", "a2s", "s2a", "a2c"}
Links == Wires \cup {"rx", "tx", "redirect"}

Arrived(l, kinds) == link[l] # <<>> /\ Head(link[l]).kind \in kinds

\* The head of a link is taken off; segs go onto another one.
Handle(l, to, segs) ==
    link' = [link EXCEPT ![l] = Tail(@), ![to] = @ \o segs]
Discard(l) == link' = [link EXCEPT ![l] = Tail(@)]
Emit(to, segs) == link' = [link EXCEPT ![to] = @ \o segs]

InFlight(conn) ==
    \E l \in Links : \E k \in DOMAIN link[l] : ConnOf(link[l][k]) = conn

NetworkInit ==
    /\ link = [l \in Links |-> <<>>]
    /\ faults = 0

\* The network loses, repeats or reorders segments.
Fault(l) ==
    /\ faults < MaxFaults
    /\ faults' = faults + 1
    /\ \E k \in DOMAIN link[l] :
         \/ link' = [link EXCEPT ![l] = RemoveAt(@, k)]
         \/ link' = [link EXCEPT ![l] = Append(@, @[k])]
         \/ /\ k < Len(link[l])
            /\ link' = [link EXCEPT ![l] = [@ EXCEPT ![k] = link[l][k + 1],
                                                     ![k + 1] = link[l][k]]]

=============================================================================
