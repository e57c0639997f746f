------------------------------ MODULE SwitchAgent ------------------------------
(***************************************************************************)
(* The gateway agent: xsknf_packet_processor and the main loop of           *)
(* examples/htscookie/switch_agent_user.c, one worker.                      *)
(*                                                                         *)
(* A SYN of an unknown address is answered with a syncookie.  The first     *)
(* valid cookie of an address puts it in the Bloom filter, leaves the       *)
(* cookie in syn_cache and resets the client; the SYN of the reconnection   *)
(* collects the cookie and goes to the server.  Later segments must echo a  *)
(* map cookie, or while the key changes a hash cookie.                      *)
(***************************************************************************)
EXTENDS HtsNetwork

CONSTANTS
    BloomBits,      \* the bits the hash functions set for an address
    CacheSlots,     \* 10000000, the entries of syn_cache
    hash_option,    \* option -h: "HARAKA", "HSIPHASH" or "OFF"
    opt_change_key  \* option -k

VARIABLES
    bf,                   \* the bits set in the Bloom filter
    syn_cache,            \* 0, or a cookie some client has returned
    sa_seeds,             \* map_seeds: the seed of the clients' addresses
    change_key_duration,  \* 0, or the length of the running key change
    sleeping,             \* the main loop waits for the change to be over
    validated             \* history: connections that returned a valid cookie

agentVars == <<bf, syn_cache, sa_seeds, change_key_duration, sleeping,
               validated>>

AgentTypeOK ==
    /\ bf \subseteq UNION {BloomBits[ip] : ip \in Clients}
    /\ syn_cache \in [0 .. CacheSlots - 1 -> SeqNums]
    /\ sa_seeds \in Seeds
    /\ change_key_duration \in Timestamps
    /\ sleeping \in BOOLEAN
    /\ validated \subseteq Conns

AgentInit ==
    /\ bf = {}
    /\ syn_cache = [k \in 0 .. CacheSlots - 1 |-> 0]
    /\ sa_seeds = InitSeed
    /\ change_key_duration = 0
    /\ sleeping = FALSE
    /\ validated = {}

bloom_filter_test(ip) == BloomBits[ip] \subseteq bf
bloom_filter_put(ip) == bf' = bf \cup BloomBits[ip]

\* The slot depends on the seed: it moves when the key changes.
CacheIndex(ip) == hsiphash_ip[ip, sa_seeds] % CacheSlots

\* The cookie put into a SYN-ACK.  The addresses have been swapped by then,
\* which half SipHash sees and Haraka, over the flow recorded before, does not.
SynCookie(conn) ==
    CASE hash_option = "HARAKA" -> haraka[conn]
      [] hash_option = "HSIPHASH" -> hsiphash[ServerAddr, conn[1], conn[2]]
      [] OTHER -> 0

\* The cookie an ACK is compared with.
AckCookie(conn) ==
    CASE hash_option = "HARAKA" -> haraka[conn]
      [] hash_option = "HSIPHASH" -> hsiphash[conn[1], ServerAddr, conn[2]]
      [] OTHER -> 0

-----------------------------------------------------------------------------
(* Segments from the clients *)

\* Mutant: the cookie stays in the cache.
CollectKeeping(slot) == UNCHANGED syn_cache

\* A cookie serves one SYN.
Collect(slot) == syn_cache' = [syn_cache EXCEPT ![slot] = 0]

\* A SYN of an address in the filter takes the cookie out of syn_cache with it;
\* any other SYN is answered.
IngressSyn ==
    /\ Arrived("c2a", {"SYN"})
    /\ LET p == Head(link["c2a"])
           slot == CacheIndex(p.ip)
       IN  IF bloom_filter_test(p.ip)
           THEN /\ Handle("c2a", "a2s", <<[p EXCEPT !.tsecr = syn_cache[slot]]>>)
                /\ Collect(slot)
           ELSE /\ Handle("c2a", "a2c",
                     <<Seg("SYNACK", ConnOf(p), SynCookie(ConnOf(p)),
                           Plus(p.seq, 1), TS_START, p.tsval, 0)>>)
                /\ UNCHANGED syn_cache
    /\ UNCHANGED <<faults, bf, sa_seeds, change_key_duration, sleeping,
                   validated>>

\* Mutant: the ACK number is taken for the cookie.
CookieReturnedNoDecrement(p) == p.ack = AckCookie(ConnOf(p))

\* Mutant: any ACK will do.
CookieReturnedByAll(p) == TRUE

\* An ACK that echoes TS_START must acknowledge the syncookie.
CookieReturned(p) == Minus(p.ack, 1) = AckCookie(ConnOf(p))

\* Mutant: the address is remembered, the cookie is not.
DepositNothing(slot, cookie) == UNCHANGED syn_cache

Deposit(slot, cookie) == syn_cache' = [syn_cache EXCEPT ![slot] = cookie]

\* The first cookie of an address is kept and the client reset, so that it
\* connects again.  Nobody reads the acknowledgement number of the reset.
IngressCookie ==
    /\ Arrived("c2a", {"ACK"})
    /\ LET p == Head(link["c2a"])
           slot == CacheIndex(p.ip)
       IN  /\ p.tsecr = TS_START
           /\ IF ~ CookieReturned(p)
              THEN Discard("c2a") /\ UNCHANGED <<bf, syn_cache, validated>>
              ELSE /\ validated' = validated \cup {ConnOf(p)}
                   /\ IF bloom_filter_test(p.ip)
                      THEN /\ Handle("c2a", "a2s", <<p>>)
                           /\ UNCHANGED <<bf, syn_cache>>
                      ELSE /\ bloom_filter_put(p.ip)
                           /\ Deposit(slot, AckCookie(ConnOf(p)))
                           /\ Handle("c2a", "a2c",
                                <<[p EXCEPT !.kind = "RST", !.seq = p.ack,
                                            !.ack = Plus(p.ack, 1)]>>)
    /\ UNCHANGED <<faults, sa_seeds, change_key_duration, sleeping>>

\* Mutant: only the map cookie counts.
CookieEchoedMapOnly(p) == CookieMap(p.tsecr) = get_map_cookie(p.ip, sa_seeds)

\* Any other ACK must echo the map cookie of its address, or while the key
\* changes the hash cookie of its connection.
CookieEchoed(p) ==
    \/ CookieMap(p.tsecr) = get_map_cookie(p.ip, sa_seeds)
    \/ /\ change_key_duration # 0 \/ opt_change_key
       /\ CookieHash(p.tsecr) = get_hash_cookie(AckCookie(ConnOf(p)))

IngressAck ==
    /\ Arrived("c2a", {"ACK"})
    /\ LET p == Head(link["c2a"])
       IN  /\ p.tsecr # TS_START
           /\ IF CookieEchoed(p) THEN Handle("c2a", "a2s", <<p>>)
                                 ELSE Discard("c2a")
    /\ UNCHANGED <<faults, agentVars>>

IngressOther ==
    /\ Arrived("c2a", {"RST0"})
    /\ Handle("c2a", "a2s", <<Head(link["c2a"])>>)
    /\ UNCHANGED <<faults, agentVars>>

-----------------------------------------------------------------------------
(* Segments from the server *)

\* Mutant: the message starts a key change, but the seed stays.
NewSeedIgnored(p) == sa_seeds

NewSeed(p) == p.seq

\* A message of server_in with the new seed in seq and the duration of the
\* change in ack: take both over.
EgressChangeKey ==
    /\ Arrived("s2a", {"ECE"})
    /\ LET p == Head(link["s2a"])
       IN  /\ sa_seeds' = NewSeed(p)
           /\ change_key_duration' = p.ack
    /\ Discard("s2a")
    /\ UNCHANGED <<faults, bf, syn_cache, sleeping, validated>>

EgressOther ==
    /\ Arrived("s2a", Kinds \ {"ECE"})
    /\ Handle("s2a", "a2c", <<Head(link["s2a"])>>)
    /\ UNCHANGED <<faults, agentVars>>

-----------------------------------------------------------------------------
(* The main loop sleeps for the duration it has read, then clears the       *)
(* variable, whatever it holds by then.                                     *)

StartSleep ==
    /\ ~ sleeping /\ change_key_duration # 0
    /\ sleeping' = TRUE
    /\ UNCHANGED <<link, faults, bf, syn_cache, sa_seeds, change_key_duration,
                   validated>>

EndSleep ==
    /\ sleeping
    /\ sleeping' = FALSE
    /\ change_key_duration' = 0
    /\ UNCHANGED <<link, faults, bf, syn_cache, sa_seeds, validated>>

AgentInbound == IngressSyn \/ IngressCookie \/ IngressAck \/ IngressOther
AgentOutbound == EgressChangeKey \/ EgressOther
MainLoop == StartSleep \/ EndSleep

AgentNext == AgentInbound \/ AgentOutbound \/ MainLoop

=============================================================================
