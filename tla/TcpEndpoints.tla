----------------------------- MODULE TcpEndpoints -----------------------------
(***************************************************************************)
(* Clients and a server that speak TCP.  They are external.  They do what   *)
(* the agents rely on: the handshake, one request and one response at a     *)
(* time, retransmission of what gets lost, timestamps with PAWS, resets     *)
(* with the sequence number check of RFC 5961.  A client whose connection   *)
(* is reset connects again from another port, as test/client.c does.        *)
(***************************************************************************)
EXTENDS TcpNetwork

CONSTANTS
    ServerIss,    \* initial sequence number of the server
    MaxOpen,      \* connections a client has open at a time
    MaxRequests,  \* bound: requests on one connection
    MaxClock,     \* bound: ticks of the server's timestamp clock
    MaxStrays,    \* bound: segments of connections the server does not know
    MaxAborts     \* bound: connections the server aborts

VARIABLES
    cl,      \* the clients' ends of the connections
    sv,      \* the server's ends
    clock,   \* the server's timestamp clock
    strays,  \* stray segments sent
    aborts   \* connections aborted

endpointVars == <<cl, sv, clock, strays, aborts>>

ClientIss == 0
ClientTs == 1

EndpointTypeOK ==
    /\ \A l \in Links : \A k \in DOMAIN link[l] : link[l][k] \in Segments
    /\ faults \in 0 .. MaxFaults
    /\ cl \in [Conns -> [st : {"closed", "syn_sent", "estab", "reset"},
                         rcv : SeqNums, ts : Timestamps,
                         req : 0 .. MaxRequests, got : 0 .. MaxRequests]]
    /\ sv \in [Conns -> [st : {"none", "syn_rcvd", "estab", "closed"},
                         nxt : SeqNums, snd : SeqNums]]
    /\ clock \in 1 .. MaxClock
    /\ strays \in 0 .. MaxStrays
    /\ aborts \in 0 .. MaxAborts

EndpointInit ==
    /\ cl = [c \in Conns |-> [st |-> "closed", rcv |-> 0, ts |-> 0,
                              req |-> 0, got |-> 0]]
    /\ sv = [c \in Conns |-> [st |-> "none", nxt |-> 0, snd |-> 0]]
    /\ clock = 1
    /\ strays = 0
    /\ aborts = 0

-----------------------------------------------------------------------------
(* Clients *)

Syn(c) == Seg("SYN", c, ClientIss, 0, ClientTs, 0, 0)
Ack(c, e) == Seg("ACK", c, Plus(ClientIss, 1 + e.got), e.rcv, ClientTs, e.ts, 0)
Request(c, e) ==
    Seg("ACK", c, Plus(ClientIss, e.req), e.rcv, ClientTs, e.ts, 1)
Refusal(c, p) == Seg("RST0", c, p.ack, 0, 0, 0, 0)

Open(ip) == {c \in Conns : c[1] = ip /\ cl[c].st \in {"syn_sent", "estab"}}

Connect(c) ==
    /\ cl[c].st = "closed" /\ Cardinality(Open(c[1])) < MaxOpen
    /\ cl' = [cl EXCEPT ![c].st = "syn_sent"]
    /\ Emit("c2a", <<Syn(c)>>)
    /\ UNCHANGED <<sv, clock, strays, aborts>>

SendRequest(c) ==
    /\ cl[c].st = "estab" /\ cl[c].req = cl[c].got /\ cl[c].req < MaxRequests
    /\ cl' = [cl EXCEPT ![c].req = @ + 1]
    /\ Emit("c2a", <<Request(c, cl'[c])>>)
    /\ UNCHANGED <<sv, clock, strays, aborts>>

ClientRetransmit(c) ==
    /\ ~ InFlight(c)
    /\ \/ cl[c].st = "syn_sent" /\ Emit("c2a", <<Syn(c)>>)
       \/ /\ cl[c].st = "estab" /\ cl[c].req > cl[c].got
          /\ Emit("c2a", <<Request(c, cl[c])>>)
    /\ UNCHANGED endpointVars

ClientSynAck ==
    /\ Arrived("a2c", {"SYNACK"})
    /\ LET p == Head(link["a2c"])
           c == ConnOf(p)
       IN  CASE cl[c].st = "syn_sent" ->
                  /\ cl' = [cl EXCEPT ![c].st = "estab", ![c].ts = p.tsval,
                                      ![c].rcv = Plus(p.seq, 1)]
                  /\ Handle("a2c", "c2a", <<Ack(c, cl'[c])>>)
             [] cl[c].st = "estab" ->
                  Handle("a2c", "c2a", <<Ack(c, cl[c])>>) /\ UNCHANGED cl
             [] OTHER ->
                  Handle("a2c", "c2a", <<Refusal(c, p)>>) /\ UNCHANGED cl
    /\ UNCHANGED <<sv, clock, strays, aborts>>

ClientReset ==
    /\ Arrived("a2c", {"RST", "RST0"})
    /\ LET p == Head(link["a2c"])
           c == ConnOf(p)
       IN  cl' = IF cl[c].st = "estab" /\ p.seq = cl[c].rcv
                 THEN [cl EXCEPT ![c].st = "reset"] ELSE cl
    /\ Discard("a2c")
    /\ UNCHANGED <<sv, clock, strays, aborts>>

ClientData ==
    /\ Arrived("a2c", {"ACK"})
    /\ LET p == Head(link["a2c"])
           c == ConnOf(p)
       IN  CASE cl[c].st # "estab" ->
                  Handle("a2c", "c2a", <<Refusal(c, p)>>) /\ UNCHANGED cl
             [] cl[c].st = "estab" /\ p.seq = cl[c].rcv
                /\ NotOlder(cl[c].ts, p.tsval) /\ p.len = 1
                /\ cl[c].got < cl[c].req ->
                  /\ cl' = [cl EXCEPT ![c].ts = p.tsval, ![c].got = @ + 1,
                                      ![c].rcv = Plus(@, 1)]
                  /\ Handle("a2c", "c2a", <<Ack(c, cl'[c])>>)
             [] OTHER -> Discard("a2c") /\ UNCHANGED cl
    /\ UNCHANGED <<sv, clock, strays, aborts>>

\* A segment of a connection that nobody has opened.
StraySegment(p) ==
    /\ strays < MaxStrays /\ cl[ConnOf(p)].st = "closed"
    /\ Emit("c2a", <<p>>)
    /\ strays' = strays + 1
    /\ UNCHANGED <<cl, sv, clock, aborts>>

ClientReceive == ClientSynAck \/ ClientReset \/ ClientData

-----------------------------------------------------------------------------
(* The server *)

ServerSeg(kind, c, seq, e, len) ==
    Seg(kind, c, seq, e.nxt, clock, ClientTs, len)

ServerSyn ==
    /\ Arrived("rx", {"SYN"})
    /\ LET p == Head(link["rx"])
           c == ConnOf(p)
       IN  IF sv[c].st = "estab"
           THEN /\ Handle("rx", "tx", <<ServerSeg("ACK", c, sv[c].snd, sv[c], 0)>>)
                /\ UNCHANGED sv
           ELSE /\ sv' = [sv EXCEPT ![c] = [st |-> "syn_rcvd",
                                            nxt |-> Plus(p.seq, 1),
                                            snd |-> Plus(ServerIss, 1)]]
                /\ Handle("rx", "tx",
                          <<ServerSeg("SYNACK", c, ServerIss, sv'[c], 0)>>)
    /\ UNCHANGED <<cl, clock, strays, aborts>>

\* An ACK the server can use: of something it has sent.
Acceptable(c, p) == Minus(sv[c].snd, p.ack) <= MaxRequests

ServerAck ==
    /\ Arrived("rx", {"ACK"})
    /\ LET p == Head(link["rx"])
           c == ConnOf(p)
           e == sv[c]
           answered == [e EXCEPT !.st = "estab", !.nxt = Plus(@, 1),
                                 !.snd = Plus(@, 1)]
       IN  CASE e.st \in {"none", "closed"}
                \/ (e.st = "syn_rcvd" /\ p.ack # e.snd) ->
                  Handle("rx", "tx", <<Refusal(c, p)>>) /\ UNCHANGED sv
             [] e.st = "syn_rcvd" /\ p.ack = e.snd /\ p.len = 0 ->
                  Discard("rx") /\ sv' = [sv EXCEPT ![c].st = "estab"]
             [] /\ \/ e.st = "syn_rcvd" /\ p.ack = e.snd
                   \/ e.st = "estab" /\ Acceptable(c, p)
                /\ p.len = 1 /\ p.seq = e.nxt ->
                  /\ sv' = [sv EXCEPT ![c] = answered]
                  /\ Handle("rx", "tx", <<ServerSeg("ACK", c, e.snd, answered, 1)>>)
             [] e.st = "estab" /\ p.len = 1 /\ Plus(p.seq, 1) = e.nxt ->
                  /\ Handle("rx", "tx",
                            <<ServerSeg("ACK", c, Minus(e.snd, 1), e, 1)>>)
                  /\ UNCHANGED sv
             [] OTHER -> Discard("rx") /\ UNCHANGED sv
    /\ UNCHANGED <<cl, clock, strays, aborts>>

ServerReset ==
    /\ Arrived("rx", {"RST0"})
    /\ LET p == Head(link["rx"])
           c == ConnOf(p)
       IN  sv' = IF sv[c].st \in {"syn_rcvd", "estab"} /\ p.seq = sv[c].nxt
                 THEN [sv EXCEPT ![c].st = "closed"] ELSE sv
    /\ Discard("rx")
    /\ UNCHANGED <<cl, clock, strays, aborts>>

ServerRetransmit(c) ==
    /\ ~ InFlight(c) /\ sv[c].st = "syn_rcvd"
    /\ Emit("tx", <<ServerSeg("SYNACK", c, ServerIss, sv[c], 0)>>)
    /\ UNCHANGED endpointVars

Abort(c) ==
    /\ sv[c].st = "estab" /\ aborts < MaxAborts
    /\ sv' = [sv EXCEPT ![c].st = "closed"]
    /\ Emit("tx", <<ServerSeg("RST", c, sv[c].snd, sv[c], 0)>>)
    /\ aborts' = aborts + 1
    /\ UNCHANGED <<cl, clock, strays>>

Tick ==
    /\ clock < MaxClock
    /\ clock' = clock + 1
    /\ UNCHANGED <<link, cl, sv, strays, aborts>>

ServerReceive == ServerSyn \/ ServerAck \/ ServerReset

=============================================================================
