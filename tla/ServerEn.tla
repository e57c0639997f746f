------------------------------- MODULE ServerEn -------------------------------
(***************************************************************************)
(* The TC program on the server's egress:                                   *)
(* examples/htscookie/server_en_kern.c.                                     *)
(*                                                                         *)
(* It puts the hybrid cookie into the timestamps of what the server sends   *)
(* and translates sequence numbers.  It answers the SYN-ACK of a            *)
(* handed-over handshake itself.  Every segment copies the map entry in one *)
(* step and writes all of it back in another.                               *)
(***************************************************************************)
EXTENDS ServerIn

CONSTANT XDP_DRV   \* XDP runs in driver mode

VARIABLE max_rtt   \* the largest round trip since the last new cookie

enVars == <<en, rtt_map, max_rtt>>

EnTypeOK ==
    /\ en.busy => en.p \in Segments /\ en.val \in Entries
    /\ rtt_map \in Timestamps
    /\ max_rtt \in Timestamps

EnInit ==
    /\ en = Idle
    /\ rtt_map = 0
    /\ max_rtt = 0

\* Copy the entry of the connection.  What has none is dropped.
EnCopy ==
    /\ Arrived("tx", {"SYNACK", "ACK", "RST"})
    /\ ~ en.busy /\ (in.busy => Concurrent)
    /\ LET p == Head(link["tx"])
       IN  en' = IF ConnOf(p) \in DOMAIN conntrack_map
                 THEN [busy |-> TRUE, p |-> p, val |-> conntrack_map[ConnOf(p)]]
                 ELSE Idle
    /\ Discard("tx")
    /\ UNCHANGED <<faults, rtt_map, max_rtt>>
    /\ UNCHANGED inVars

\* Write the changed copy back and let the translated segment go.
WriteBack(val, to, seg) ==
    /\ conntrack_map' = [conntrack_map EXCEPT ![ConnOf(en.p)] = val]
    /\ Emit(to, <<seg>>)
    /\ en' = Idle
    /\ UNCHANGED <<faults, in_seeds, dropcnt, in>>

\* A SYN-ACK for a client that reconnected goes to the client.
EnSynAckReset ==
    /\ en.busy /\ en.p.kind = "SYNACK" /\ en.val.delta = 0
    /\ WriteBack([en.val EXCEPT !.ts_val_s = en.p.tsval], "s2a",
                 [en.p EXCEPT !.tsval = en.val.hybrid_cookie])
    /\ UNCHANGED <<rtt_map, max_rtt>>

\* Mutant: the SYN's place in the sequence space is forgotten.
SynchronizeOffByOne(ack, isn) == Minus(ack, isn)

\* What the client acknowledged to the gateway, less what the server counts.
Synchronize(ack, isn) == Minus(ack, isn + 1)

\* A SYN-ACK of a handed-over handshake fixes the difference of the two
\* sequence spaces and is turned round into the ACK the server waits for.
EnSynAckHandover ==
    /\ en.busy /\ en.p.kind = "SYNACK" /\ en.val.delta # 0
    /\ WriteBack([en.val EXCEPT !.delta = Synchronize(@, en.p.seq),
                                !.ts_val_s = en.p.tsval],
                 IF XDP_DRV THEN "rx" ELSE "redirect",
                 [en.p EXCEPT !.kind = IF XDP_DRV THEN "ACK" ELSE "SYNACK",
                              !.seq = en.p.ack, !.ack = Plus(en.p.seq, 1),
                              !.tsval = en.p.tsecr, !.tsecr = en.p.tsval])
    /\ UNCHANGED <<rtt_map, max_rtt>>

\* Mutant: the reset keeps the server's sequence number.
EnResetRaw ==
    /\ en.busy /\ en.p.kind = "RST"
    /\ WriteBack(en.val, "s2a", en.p)
    /\ UNCHANGED <<rtt_map, max_rtt>>

\* A reset with options is translated too, so that the client accepts it.
EnReset ==
    /\ en.busy /\ en.p.kind = "RST"
    /\ WriteBack(en.val, "s2a", [en.p EXCEPT !.seq = Plus(@, en.val.delta)])
    /\ UNCHANGED <<rtt_map, max_rtt>>

\* Everything else: observe the round trip since the last segment, hide the
\* server's timestamp behind the cookie, translate the sequence number.
EnData ==
    /\ en.busy /\ en.p.kind = "ACK"
    /\ LET val == en.val
           changed == CookieHead(val.hybrid_cookie) # val.cur_cookie_head
           rtt == (en.p.tsval - val.ts_val_s) % TsMod
           max == IF changed THEN 0 ELSE max_rtt
       IN  /\ WriteBack([val EXCEPT
                           !.cur_cookie_head = IF changed THEN (@ + 1) % 4 ELSE @,
                           !.ts_val_s = en.p.tsval],
                        "s2a",
                        [en.p EXCEPT !.tsval = val.hybrid_cookie,
                                     !.seq = Plus(@, val.delta)])
           /\ max_rtt' = IF rtt > max THEN rtt ELSE max
           /\ rtt_map' = IF rtt > max THEN rtt ELSE rtt_map

\* A segment without options passes as it is.
EnOther ==
    /\ Arrived("tx", {"RST0"})
    /\ ~ en.busy /\ (in.busy => Concurrent)
    /\ Handle("tx", "s2a", <<Head(link["tx"])>>)
    /\ UNCHANGED <<faults, enVars>>
    /\ UNCHANGED inVars

EnNext ==
    \/ EnCopy \/ EnSynAckReset \/ EnSynAckHandover \/ EnReset \/ EnData
    \/ EnOther

=============================================================================
