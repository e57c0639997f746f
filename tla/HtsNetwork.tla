------------------------------ MODULE HtsNetwork ------------------------------
(***************************************************************************)
(* Cookies: what the gateway agent and the two server programs of           *)
(* examples/htscookie compute alike.  The hash functions are constants: the *)
(* protocol uses of them only that they are functions of their arguments.   *)
(***************************************************************************)
EXTENDS TcpNetwork

CONSTANTS
    Seeds,       \* the values a hash seed may take
    InitSeed,    \* the seed both agents start with
    HalfMod,     \* 2^16, the range of half a word and of a map cookie
    FoldMod,     \* 2^14, the range of the folded syncookie in a hybrid cookie
    haraka,      \* the Haraka hash of a client address and port
    hsiphash,    \* the half SipHash of source, destination and client port
    hsiphash_ip, \* the half SipHash of an address, keyed with a seed
    ServerAddr   \* the address of the protected server

ASSUME NetworkAssumption ==
    /\ HalfMod \in Nat \ {0, 1} /\ FoldMod \in 2 .. HalfMod
    /\ WordMod = HalfMod * HalfMod /\ TsMod = 4 * FoldMod * HalfMod
    /\ InitSeed \in Seeds /\ Seeds \subseteq SeqNums
    /\ haraka \in [Conns -> SeqNums]
    /\ hsiphash_ip \in [Clients \X Seeds -> SeqNums]

\* 0x01010000: counter 0, a folded syncookie of its own, map cookie 0.
TS_START == HalfMod

\* Exclusive or of two numbers.
xor[a \in Nat, b \in Nat] ==
    IF a = 0 THEN b ELSE (2 * xor[a \div 2, b \div 2]) + ((a + b) % 2)

\* The two half words of a hash folded into one.
fold(hash) == xor[hash \div HalfMod, hash % HalfMod]

\* The folded syncookie, as wide as the hybrid cookie keeps it.
get_hash_cookie(syncookie) == fold(syncookie) % FoldMod

\* The cookie of an address under a seed.
get_map_cookie(ip, seed) == fold(hsiphash_ip[ip, seed])

\* |counter: 2 bits|folded syncookie: 14 bits|map cookie: 16 bits|
HybridCookie(counter, hash_cookie, map_cookie) ==
    (counter * FoldMod + hash_cookie) * HalfMod + map_cookie
CookieHead(h) == h \div (FoldMod * HalfMod)
CookieHash(h) == (h \div HalfMod) % FoldMod
CookieMap(h) == h % HalfMod

=============================================================================
