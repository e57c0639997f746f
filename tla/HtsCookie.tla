------------------------------ MODULE HtsCookie ------------------------------
(***************************************************************************)
(* The whole of htscookie: the gateway agent, server_in and server_en,      *)
(* between clients and a server that speak TCP.                             *)
(***************************************************************************)
EXTENDS SwitchAgent, ServerEn, TcpEndpoints

serverVars == <<conntrack_map, in_seeds, dropcnt, in, en, rtt_map, max_rtt>>
vars == <<link, faults, agentVars, serverVars, endpointVars>>

TypeOK == EndpointTypeOK /\ AgentTypeOK /\ InTypeOK /\ EnTypeOK

Init == NetworkInit /\ EndpointInit /\ AgentInit /\ InInit /\ EnInit

\* A program works on a segment of the connection.
Busy(c) ==
    \/ in.busy /\ ConnOf(in.p) = c
    \/ en.busy /\ ConnOf(en.p) = c

\* A segment of a connection the server does not know: with a good cookie in
\* its timestamp, or an ACK of a SYN-ACK nobody got, next to the syncookie.
Stray(c) ==
    /\ c \notin DOMAIN conntrack_map
    /\ \/ \E d \in Conns :
            /\ d[1] = c[1] /\ cl[d].st = "estab" /\ cl[d].ts # TS_START
            /\ StraySegment(Seg("ACK", c, 0, 0, ClientTs, cl[d].ts, 1))
       \/ StraySegment(Seg("ACK", c, 1, SynCookie(c), ClientTs, TS_START, 0))

\* What happens to a connection without a segment: timers wait until nothing
\* of it is on its way.
ClientTimer(c) ==
    Connect(c) \/ SendRequest(c) \/ (~ Busy(c) /\ ClientRetransmit(c))
ServerTimer(c) == ~ Busy(c) /\ ServerRetransmit(c)

EndpointNext ==
    \/ ClientReceive \/ ServerReceive \/ Tick
    \/ \E c \in Conns : ClientTimer(c) \/ Stray(c) \/ ServerTimer(c) \/ Abort(c)

Outside(A) == A /\ UNCHANGED <<faults, agentVars, serverVars>>
Gateway(A) == A /\ UNCHANGED <<serverVars, endpointVars>>

Endpoints == Outside(EndpointNext)
Agent == Gateway(AgentNext)
Ingress == InNext /\ UNCHANGED <<max_rtt, agentVars, endpointVars>>
Egress == EnNext /\ UNCHANGED <<agentVars, endpointVars>>
Network ==
    /\ \E l \in Wires : Fault(l)
    /\ UNCHANGED <<agentVars, serverVars, endpointVars>>

Next == Endpoints \/ Agent \/ Ingress \/ Egress \/ Network

Spec == Init /\ [][Next]_vars

\* A worker polls all its interfaces in turn, so the gateway handles what
\* arrives on either side; a program of the server runs for every segment; the
\* endpoints take what reaches them, and the timer of every connection expires.
FairSpec ==
    /\ Spec
    /\ WF_vars(Gateway(AgentInbound)) /\ WF_vars(Gateway(AgentOutbound))
    /\ WF_vars(Ingress) /\ WF_vars(Egress)
    /\ WF_vars(Outside(ClientReceive)) /\ WF_vars(Outside(ServerReceive))
    /\ \A c \in Conns : /\ WF_vars(Outside(ClientTimer(c)))
                         /\ WF_vars(Outside(ServerTimer(c)))

-----------------------------------------------------------------------------
(* Properties *)

Irs(c) == Minus(cl[c].rcv, cl[c].got + 1)

\* "ultimately synchronizing the two independent connections" (README.md): when
\* both ends are established, the delta that server_in and server_en add and
\* subtract is the difference between the sequence numbers the client was
\* given and the server's own.
Synchronized ==
    \A c \in Conns :
       cl[c].st = "estab" /\ sv[c].st = "estab"
          => Plus(ServerIss, conntrack_map[c].delta) = Irs(c)

\* The gateway is a SYN proxy: a connection the server's TCP has heard of
\* returned a syncookie itself, except for one per client, which uses the
\* cookie that another connection of the client returned (syn_cache).  And only
\* clients that got the gateway's SYN-ACK return a syncookie.
AdmissionPaid ==
    \A ip \in Clients :
       LET free == {c \in Conns \ validated : c[1] = ip /\ sv[c].st # "none"}
       IN  /\ Cardinality(free) <= 1
           /\ free # {} => \E c \in validated : c[1] = ip
           /\ \A c \in validated : cl[c].st \in {"estab", "reset"}

\* "Make the timestamp incremental" (server_in): no segment that reaches an
\* established client carries an older timestamp than the client has seen, or
\* PAWS would discard it.
TimestampsAdvance ==
    Arrived("a2c", {"ACK"}) =>
       LET p == Head(link["a2c"])
       IN  cl[ConnOf(p)].st = "estab" => NotOlder(cl[ConnOf(p)].ts, p.tsval)

\* The cookie stored with a seed is the cookie under that seed, and carries
\* the folded syncookie: otherwise server_in would never renew it.
CookieMatchesSeed ==
    \A c \in DOMAIN conntrack_map :
       LET val == conntrack_map[c]
       IN  val.cur_hash_seed # 0 =>
             /\ CookieMap(val.hybrid_cookie) = get_map_cookie(c[1], val.cur_hash_seed)
             /\ CookieHash(val.hybrid_cookie) = get_hash_cookie(val.hash_cookie)

\* A client that acknowledges the gateway's own SYN-ACK passes the check.
OwnCookiesValidate ==
    Arrived("c2a", {"ACK"}) =>
       LET p == Head(link["c2a"])
       IN  p.tsecr = TS_START /\ cl[ConnOf(p)].st \in {"estab", "reset"}
              => CookieReturned(p)

\* Both agents use the same seed, unless a message about a new one is on its
\* way.
SeedsAgree ==
    sa_seeds = in_seeds
       \/ \E k \in DOMAIN link["s2a"] : link["s2a"][k].kind = "ECE"

\* "Enable switch_agent to validate two cookies" (-k): whatever happens to the
\* seeds, the gateway lets every segment of an established connection pass that
\* went through the hand-over.
HandedOverPass ==
    Arrived("c2a", {"ACK"}) =>
       LET p == Head(link["c2a"])
       IN  (/\ ConnOf(p) \in validated /\ cl[ConnOf(p)].st = "estab"
            /\ p.tsecr # TS_START)
              => CookieEchoed(p)

\* "if in bf -> pass directly" (switch_agent): the SYN of a connection is
\* answered in the end, by the gateway or by the server.
SynAnswered ==
    \A c \in Conns : cl[c].st = "syn_sent" ~> cl[c].st # "syn_sent"

\* Resets work: one with options that reaches a client with an established
\* connection has the sequence number the client expects, so RFC 5961 lets it
\* act on it.  The gateway takes the number from the ACK it answers, and
\* server_en translates that of a server that aborts.
ResetAccepted ==
    Arrived("a2c", {"RST"}) =>
       LET p == Head(link["a2c"])
       IN  cl[ConnOf(p)].st = "estab" => p.seq = cl[ConnOf(p)].rcv

\* A client that goes on connecting gets an answer to a request: the cookie
\* that a reset connection has paid for is in syn_cache when the client
\* connects again.
EventuallyServed ==
    \A ip \in Clients : <>(\E c \in Conns : c[1] = ip /\ cl[c].got > 0)

=============================================================================
