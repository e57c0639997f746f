----------------------------- MODULE SmartCookie -----------------------------
(***************************************************************************)
(* The whole of examples/smartcookie: its gateway agent, server_in and      *)
(* server_en, between clients and a server that speak TCP.                  *)
(*                                                                         *)
(* The gateway answers every SYN with a syncookie.  The first ACK of a      *)
(* connection that returns the cookie puts the connection into a Bloom      *)
(* filter and goes on to the server with the ECE flag as a tag; segments of *)
(* connections in the filter go on without.  server_in turns a tagged ACK   *)
(* into a SYN, and checks the cookie of an untagged one itself when it does *)
(* not know the connection, because the filter has false positives.         *)
(***************************************************************************)
EXTENDS TcpEndpoints, TLC

CONSTANTS
    hsiphash,        \* the half SipHash of a connection, on either host
    BloomBits,       \* the bits the hash functions set for a connection
    opt_tcpoption,   \* option -o of the gateway agent
    MAX_CONNECTION,  \* 1000000, the capacity of conntrack_map_sc
    XDP_DRV,         \* XDP runs in driver mode
    Concurrent       \* the programs of the server run on several CPUs

VARIABLES
    bf,                \* the bits set in the Bloom filter
    conntrack_map_sc,  \* delta and last timestamp of every connection
    en,                \* the SYN-ACK of server_en between copy and write-back
    unchecked          \* history: connections with a tag that nobody has checked

agentVars == <<bf, unchecked>>
serverVars == <<conntrack_map_sc, en>>
vars == <<link, faults, agentVars, serverVars, endpointVars>>

ASSUME SmartAssumption ==
    /\ hsiphash \in [Conns -> SeqNums]
    /\ DOMAIN BloomBits = Conns
    /\ MAX_CONNECTION \in Nat \ {0}

Idle == [busy |-> FALSE]
Entries == [delta : SeqNums, ts_val_s : Timestamps]

TypeOK ==
    /\ EndpointTypeOK
    /\ bf \subseteq UNION {BloomBits[c] : c \in Conns}
    /\ DOMAIN conntrack_map_sc \subseteq Conns
    /\ Cardinality(DOMAIN conntrack_map_sc) <= MAX_CONNECTION
    /\ \A c \in DOMAIN conntrack_map_sc : conntrack_map_sc[c] \in Entries
    /\ en.busy => en.p \in Segments /\ en.val \in Entries
    /\ unchecked \subseteq Conns

Init ==
    /\ NetworkInit /\ EndpointInit
    /\ bf = {}
    /\ conntrack_map_sc = << >>
    /\ en = Idle
    /\ unchecked = {}

-----------------------------------------------------------------------------
(* The gateway agent *)

bloom_filter_test(c) == BloomBits[c] \subseteq bf
bloom_filter_put(c) == bf' = bf \cup BloomBits[c]

\* The agent's clock is a constant, which is larger after the handshake.
\* Without -o the client's own timestamps stay in the SYN-ACK.
AgentSyn ==
    /\ Arrived("c2a", {"SYN"})
    /\ LET p == Head(link["c2a"])
       IN  Handle("c2a", "a2c",
             <<Seg("SYNACK", ConnOf(p), hsiphash[ConnOf(p)], Plus(p.seq, 1),
                   IF opt_tcpoption THEN 1 ELSE p.tsval,
                   IF opt_tcpoption THEN p.tsval ELSE p.tsecr, 0)>>)
    /\ UNCHANGED <<faults, agentVars>>

\* Mutant: the ACK number is taken for the cookie.
ReturnsCookieNoDecrement(p) == p.ack = hsiphash[ConnOf(p)]

ReturnsCookie(p) == Minus(p.ack, 1) = hsiphash[ConnOf(p)]

\* A segment of a connection in the filter passes as it is, with the flag if it
\* has it already; one with the right cookie is tagged and puts its connection
\* there.
AgentAck ==
    /\ Arrived("c2a", {"ACK", "ECE"})
    /\ LET p == Head(link["c2a"])
           c == ConnOf(p)
       IN  CASE bloom_filter_test(c) ->
                  /\ Handle("c2a", "a2s", <<p>>)
                  /\ unchecked' = unchecked \cup (IF p.kind = "ECE" THEN {c} ELSE {})
                  /\ UNCHANGED bf
             [] ~ bloom_filter_test(c) /\ ReturnsCookie(p) ->
                  /\ bloom_filter_put(c)
                  /\ Handle("c2a", "a2s", <<[p EXCEPT !.kind = "ECE"]>>)
                  /\ UNCHANGED unchecked
             [] OTHER -> Discard("c2a") /\ UNCHANGED agentVars
    /\ UNCHANGED faults

AgentReset ==
    /\ Arrived("c2a", {"RST0"})
    /\ Handle("c2a", "a2s", <<Head(link["c2a"])>>)
    /\ UNCHANGED <<faults, agentVars>>

\* The timestamps of the server are replaced by a constant.
AgentClock(p) == [p EXCEPT !.tsval = 2]

AgentOutbound ==
    /\ Arrived("s2a", {"ACK", "RST", "RST0"})
    /\ LET p == Head(link["s2a"])
       IN  Handle("s2a", "a2c", <<IF p.kind = "RST0" THEN p ELSE AgentClock(p)>>)
    /\ UNCHANGED <<faults, agentVars>>

AgentInbound == AgentSyn \/ AgentAck \/ AgentReset

-----------------------------------------------------------------------------
(* server_in *)

\* On one CPU a program runs to its end.
MayRun == en.busy => Concurrent

\* bpf_map_update_elem with BPF_ANY; a full map takes no new key.
Update(c, val) ==
    IF c \in DOMAIN conntrack_map_sc
       \/ Cardinality(DOMAIN conntrack_map_sc) < MAX_CONNECTION
    THEN (c :> val) @@ conntrack_map_sc
    ELSE conntrack_map_sc

\* A connection the server knows: translate.
InTranslate ==
    /\ MayRun /\ Arrived("a2s", {"ACK"})
    /\ LET p == Head(link["a2s"])
           c == ConnOf(p)
       IN  /\ c \in DOMAIN conntrack_map_sc
           /\ Handle("a2s", "rx",
                <<[p EXCEPT !.ack = Minus(@, conntrack_map_sc[c].delta),
                            !.tsecr = conntrack_map_sc[c].ts_val_s]>>)
    /\ UNCHANGED <<faults, serverVars>>

\* Mutant: the filter of the gateway is trusted.
AdmittedUnchecked(p) == TRUE

\* A tag stands for a cookie that the gateway has checked.
Admitted(p) == p.kind = "ECE" \/ ReturnsCookie(p)

\* A tagged segment, or one of an unknown connection: open it, or drop.
InCreate ==
    /\ MayRun /\ Arrived("a2s", {"ACK", "ECE"})
    /\ LET p == Head(link["a2s"])
           c == ConnOf(p)
       IN  /\ p.kind = "ECE" \/ c \notin DOMAIN conntrack_map_sc
           /\ IF Admitted(p)
              THEN /\ conntrack_map_sc' = Update(c, [delta |-> p.ack, ts_val_s |-> 0])
                   /\ Handle("a2s", "rx",
                        <<[p EXCEPT !.kind = "SYN", !.seq = Minus(@, 1),
                                    !.ack = 0, !.tsecr = 0]>>)
              ELSE Discard("a2s") /\ UNCHANGED conntrack_map_sc
    /\ UNCHANGED <<faults, en>>

\* In SKB mode the SYN-ACK that server_en redirects passes here.
InRedirected ==
    /\ MayRun /\ Arrived("redirect", {"SYNACK"})
    /\ Handle("redirect", "rx", <<[Head(link["redirect"]) EXCEPT !.kind = "ACK"]>>)
    /\ UNCHANGED <<faults, serverVars>>

InOther ==
    /\ MayRun /\ Arrived("a2s", {"RST0"})
    /\ Handle("a2s", "rx", <<Head(link["a2s"])>>)
    /\ UNCHANGED <<faults, serverVars>>

Ingress == InTranslate \/ InCreate \/ InRedirected \/ InOther

-----------------------------------------------------------------------------
(* server_en *)

\* What belongs to no connection is dropped.  A SYN-ACK copies the entry and
\* writes it back in another step.
EnCopy ==
    /\ ~ en.busy /\ Arrived("tx", {"SYNACK"})
    /\ LET p == Head(link["tx"])
           c == ConnOf(p)
       IN  en' = IF c \in DOMAIN conntrack_map_sc
                 THEN [busy |-> TRUE, p |-> p, val |-> conntrack_map_sc[c]]
                 ELSE Idle
    /\ Discard("tx")
    /\ UNCHANGED <<faults, conntrack_map_sc>>

\* Mutant: the SYN's place in the sequence space is forgotten.
SynchronizeOffByOne(ack, isn) == Minus(ack, isn)

Synchronize(ack, isn) == Minus(ack, isn + 1)

\* The SYN-ACK fixes delta and goes back as the ACK the server waits for.
EnSynAck ==
    /\ en.busy
    /\ conntrack_map_sc' =
         [conntrack_map_sc EXCEPT ![ConnOf(en.p)] =
            [delta |-> Synchronize(en.val.delta, en.p.seq),
             ts_val_s |-> en.p.tsval]]
    /\ Emit(IF XDP_DRV THEN "rx" ELSE "redirect",
            <<[en.p EXCEPT !.kind = IF XDP_DRV THEN "ACK" ELSE "SYNACK",
                           !.seq = en.p.ack, !.ack = Plus(en.p.seq, 1),
                           !.tsval = en.p.tsecr, !.tsecr = en.p.tsval]>>)
    /\ en' = Idle
    /\ UNCHANGED faults

\* Everything else, resets included, is translated.  An ordinary header has
\* 32 bytes and its timestamp is not looked for: the test is for more than 32.
EnData ==
    /\ ~ en.busy /\ Arrived("tx", {"ACK", "RST", "RST0"})
    /\ LET p == Head(link["tx"])
           c == ConnOf(p)
       IN  IF c \in DOMAIN conntrack_map_sc
           THEN Handle("tx", "s2a",
                  <<[p EXCEPT !.seq = Plus(@, conntrack_map_sc[c].delta)]>>)
           ELSE Discard("tx")
    /\ UNCHANGED <<faults, serverVars>>

Egress == EnCopy \/ EnSynAck \/ EnData

-----------------------------------------------------------------------------

Busy(c) == en.busy /\ ConnOf(en.p) = c

\* A segment of a connection nobody has opened, next to its cookie.  Its ECE
\* flag may be set.
Stray(c) ==
    \E kind \in {"ACK", "ECE"} :
       StraySegment(Seg(kind, c, 0, hsiphash[c], ClientTs, 1, 1))

\* The connections the properties are about: those whose tag, if there is one,
\* is the gateway's.  A segment that comes with the flag set and is passed by
\* the filter is taken for tagged by server_in, and its connection for checked.
\* Such a connection is not followed any further: its timers rest.
Tagged == Conns \ unchecked

ClientTimer(c) ==
    /\ c \in Tagged
    /\ Connect(c) \/ SendRequest(c) \/ (~ Busy(c) /\ ClientRetransmit(c))
ServerTimer(c) == c \in Tagged /\ ~ Busy(c) /\ ServerRetransmit(c)

EndpointNext ==
    \/ ClientReceive \/ ServerReceive \/ Tick
    \/ \E c \in Tagged : ClientTimer(c) \/ Stray(c) \/ ServerTimer(c) \/ Abort(c)

Outside(A) == A /\ UNCHANGED <<faults, agentVars, serverVars>>
Gateway(A) == A /\ UNCHANGED <<serverVars, endpointVars>>
Server(A) == A /\ UNCHANGED <<agentVars, endpointVars>>

\* The Internet is unreliable; the gateway and the server share a wire.
Network ==
    /\ \E l \in {"c2a", "a2c"} : Fault(l)
    /\ UNCHANGED <<agentVars, serverVars, endpointVars>>

Next ==
    \/ Outside(EndpointNext)
    \/ Gateway(AgentInbound \/ AgentOutbound)
    \/ Server(Ingress \/ Egress)
    \/ Network

Spec == Init /\ [][Next]_vars

\* As for htscookie: the gateway serves both interfaces, the programs run for
\* every segment, the endpoints take what reaches them and timers expire.
FairSpec ==
    /\ Spec
    /\ WF_vars(Gateway(AgentInbound)) /\ WF_vars(Gateway(AgentOutbound))
    /\ WF_vars(Server(Ingress)) /\ WF_vars(Server(Egress))
    /\ WF_vars(Outside(ClientReceive)) /\ WF_vars(Outside(ServerReceive))
    /\ \A c \in Conns : /\ WF_vars(Outside(ClientTimer(c)))
                         /\ WF_vars(Outside(ServerTimer(c)))

-----------------------------------------------------------------------------
(* Properties *)

Irs(c) == Minus(cl[c].rcv, cl[c].got + 1)

\* When both ends are established, the delta of server_in and server_en is the
\* difference between the cookie the client was given for a sequence number
\* and the server's own.
Synchronized ==
    \A c \in Tagged :
       cl[c].st = "estab" /\ sv[c].st = "estab"
          => Plus(ServerIss, conntrack_map_sc[c].delta) = Irs(c)

\* "Check benign or malicious by syncookie" (server_in): also when the Bloom
\* filter answers yes for a connection it has never seen, the server's TCP
\* hears only of connections whose client has received the gateway's SYN-ACK,
\* as long as the ECE flag is set by nobody but the gateway.
AdmissionPaid ==
    \A c \in Tagged : sv[c].st # "none" => cl[c].st \in {"estab", "reset"}

\* Every connection is served in the end unless the server aborts it, also one
\* that the Bloom filter takes for known, and one whose request overtakes the
\* handshake with the server.  The gateway's constants in place of a clock do
\* not make the client discard the response for its timestamp.
EveryConnectionServed ==
    \A c \in Conns :
       cl[c].st = "syn_sent" ~> \/ cl[c].got > 0
                                \/ cl[c].st = "reset" /\ sv[c].st = "closed"
                                \/ c \in unchecked

=============================================================================
