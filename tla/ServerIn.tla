------------------------------- MODULE ServerIn -------------------------------
(***************************************************************************)
(* The XDP program on the server's ingress:                                 *)
(* examples/htscookie/server_in_kern.c.                                     *)
(*                                                                         *)
(* It keeps conntrack_map, which server_en shares, turns the ACK of a       *)
(* handed-over handshake into a SYN for the server's TCP, and translates    *)
(* acknowledgement numbers and timestamp echoes of the segments that        *)
(* follow.  A segment for an established connection is handled in two       *)
(* steps, the copy of the map entry and its write-back: server_en, and      *)
(* server_in for another connection, may run in between on other CPUs.      *)
(***************************************************************************)
EXTENDS HtsNetwork, TLC

CONSTANTS
    MAX_ENTRY,    \* 700000, the capacity of conntrack_map
    DROP_THRESH,  \* 5000000, unknown segments that make it change the key
    Concurrent    \* the programs run on several CPUs

VARIABLES
    conntrack_map,  \* what is known of each connection, shared with server_en
    in_seeds,       \* map_seeds: the seed of the clients' addresses
    dropcnt,        \* unknown segments since the last key change
    in,             \* the segment between copy and write-back, if any
    en,             \* the same for server_en
    rtt_map         \* the largest round trip server_en has seen

inVars == <<conntrack_map, in_seeds, dropcnt, in>>

Entries == [hybrid_cookie : Timestamps, hash_cookie : SeqNums,
            cur_hash_seed : Seeds \cup {0}, ts_val_s : Timestamps,
            delta : SeqNums, cur_cookie_head : 0 .. 3]

\* Struct members without an initializer are 0.
NewEntry(hybrid_cookie, hash_cookie, cur_hash_seed, delta) ==
    [hybrid_cookie |-> hybrid_cookie, hash_cookie |-> hash_cookie,
     cur_hash_seed |-> cur_hash_seed, ts_val_s |-> 0, delta |-> delta,
     cur_cookie_head |-> 0]

Idle == [busy |-> FALSE]

InTypeOK ==
    /\ DOMAIN conntrack_map \subseteq Conns
    /\ \A c \in DOMAIN conntrack_map : conntrack_map[c] \in Entries
    /\ Cardinality(DOMAIN conntrack_map) <= MAX_ENTRY
    /\ in_seeds \in Seeds
    /\ dropcnt \in 0 .. DROP_THRESH - 1
    /\ in.busy => in.p \in Segments /\ in.val \in Entries

InInit ==
    /\ conntrack_map = << >>
    /\ in_seeds = InitSeed
    /\ dropcnt = 0
    /\ in = Idle

\* bpf_map_update_elem with BPF_ANY: a full map takes no new key, and the
\* program does not look at the result.
Update(conn, val) ==
    IF conn \in DOMAIN conntrack_map
       \/ Cardinality(DOMAIN conntrack_map) < MAX_ENTRY
    THEN (conn :> val) @@ conntrack_map
    ELSE conntrack_map

\* Another run of the program may not interfere with the one in progress:
\* segments of one connection share a CPU, and on one CPU a program runs to
\* its end.
MayRun(conn) ==
    /\ in.busy => Concurrent /\ ConnOf(in.p) # conn
    /\ en.busy => Concurrent

-----------------------------------------------------------------------------

\* A SYN carries a cookie that the gateway has checked, or it is dropped.
InSyn ==
    /\ Arrived("a2s", {"SYN"})
    /\ LET p == Head(link["a2s"])
           hybrid == HybridCookie(1, get_hash_cookie(p.tsecr),
                                  get_map_cookie(p.ip, in_seeds))
       IN  /\ MayRun(ConnOf(p))
           /\ IF p.tsecr = 0
              THEN Discard("a2s") /\ UNCHANGED conntrack_map
              ELSE /\ conntrack_map' =
                        Update(ConnOf(p), NewEntry(hybrid, p.tsecr, in_seeds, 0))
                   /\ Handle("a2s", "rx", <<[p EXCEPT !.tsecr = 0]>>)
    /\ UNCHANGED <<faults, in_seeds, dropcnt, in>>

\* An ACK with TS_START and nothing else ends a handshake with the gateway; it
\* becomes the SYN of a handshake with the server.
InHandover ==
    /\ Arrived("a2s", {"ACK"})
    /\ LET p == Head(link["a2s"])
       IN  /\ MayRun(ConnOf(p))
           /\ p.tsecr = TS_START /\ p.len = 0
           /\ conntrack_map' =
                Update(ConnOf(p), NewEntry(0, Minus(p.ack, 1), 0, p.ack))
           /\ Handle("a2s", "rx",
                <<[p EXCEPT !.kind = "SYN", !.seq = Minus(@, 1), !.ack = 0,
                            !.tsecr = 0]>>)
    /\ UNCHANGED <<faults, in_seeds, dropcnt, in>>

\* The rest is data for an existing connection.
IsData(p) == p.tsecr # TS_START \/ p.len # 0

\* Too many segments of unknown connections change the key: a new seed, and a
\* message to the gateway in place of the segment.
ChangeKey(p) ==
    \E new_seed \in Seeds :
       /\ in_seeds' = new_seed
       /\ dropcnt' = 0
       /\ Handle("a2s", "s2a", <<[p EXCEPT !.kind = "ECE", !.seq = new_seed,
                                            !.ack = rtt_map]>>)

InUnknown ==
    /\ Arrived("a2s", {"ACK"})
    /\ LET p == Head(link["a2s"])
       IN  /\ MayRun(ConnOf(p))
           /\ IsData(p) /\ ConnOf(p) \notin DOMAIN conntrack_map
           /\ IF p.tsecr = TS_START
              THEN Discard("a2s") /\ UNCHANGED <<in_seeds, dropcnt>>
              ELSE IF dropcnt + 1 >= DROP_THRESH
              THEN ChangeKey(p)
              ELSE /\ dropcnt' = dropcnt + 1
                   /\ Discard("a2s")
                   /\ UNCHANGED in_seeds
    /\ UNCHANGED <<faults, conntrack_map, in>>

\* Mutant: the new map cookie is added to the old one.
WithMapCookieUnmasked(h, map_cookie) == h + map_cookie

WithMapCookie(h, map_cookie) == (h - CookieMap(h)) + map_cookie

\* Mutant: the counter stays.
IncrementalNot(h) == h

Incremental(h) == (h + FoldMod * HalfMod) % TsMod

\* The hybrid cookie of an entry whose seed is not the current one: made when
\* there is none yet, with a new map cookie otherwise, and larger by one in
\* its counter, so that timestamps increase.
Refreshed(ip, val) ==
    LET h == val.hybrid_cookie
        first == HybridCookie(0, get_hash_cookie(val.hash_cookie),
                              get_map_cookie(ip, in_seeds))
        renewed == WithMapCookie(h, get_map_cookie(ip, in_seeds))
        old == IF val.cur_hash_seed = 0 THEN first ELSE renewed
    IN  Incremental(old)

\* Copy the entry and bring its cookie up to date.
InCopy ==
    /\ Arrived("a2s", {"ACK"})
    /\ LET p == Head(link["a2s"])
           val == conntrack_map[ConnOf(p)]
           modify == val.cur_hash_seed # in_seeds
       IN  /\ MayRun(ConnOf(p)) /\ ~ in.busy
           /\ IsData(p) /\ ConnOf(p) \in DOMAIN conntrack_map
           /\ in' = [busy |-> TRUE, p |-> p, modify |-> modify, seed |-> in_seeds,
                     val |-> IF modify
                             THEN [val EXCEPT !.hybrid_cookie = Refreshed(p.ip, val)]
                             ELSE val]
    /\ Discard("a2s")
    /\ UNCHANGED <<faults, conntrack_map, in_seeds, dropcnt>>

\* Translate the segment and write the entry back if it has changed.  The seed
\* stored with the cookie is read again: the compiler may or may not reuse the
\* value read before, and another CPU may have changed it.
InWriteBack ==
    /\ in.busy
    /\ LET p == in.p
       IN  /\ \E seed \in {in.seed, in_seeds} :
                conntrack_map' =
                  IF in.modify
                  THEN [conntrack_map EXCEPT ![ConnOf(p)] =
                          [in.val EXCEPT !.cur_hash_seed = seed]]
                  ELSE conntrack_map
           /\ Emit("rx", <<[p EXCEPT !.ack = Minus(@, in.val.delta),
                                     !.tsecr = in.val.ts_val_s]>>)
    /\ in' = Idle
    /\ UNCHANGED <<faults, in_seeds, dropcnt>>

\* In SKB mode the SYN-ACK that server_en redirects passes here and becomes an
\* ACK.
InRedirected ==
    /\ Arrived("redirect", {"SYNACK"})
    /\ MayRun(ConnOf(Head(link["redirect"])))
    /\ Handle("redirect", "rx", <<[Head(link["redirect"]) EXCEPT !.kind = "ACK"]>>)
    /\ UNCHANGED <<faults, inVars>>

\* Segments without timestamps, and resets, pass.
InOther ==
    /\ Arrived("a2s", {"RST0"})
    /\ MayRun(ConnOf(Head(link["a2s"])))
    /\ Handle("a2s", "rx", <<Head(link["a2s"])>>)
    /\ UNCHANGED <<faults, inVars>>

InNext ==
    /\ \/ InSyn \/ InHandover \/ InUnknown \/ InCopy \/ InWriteBack
       \/ InRedirected \/ InOther
    /\ UNCHANGED <<en, rtt_map>>

=============================================================================
