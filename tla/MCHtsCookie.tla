----------------------------- MODULE MCHtsCookie -----------------------------
(***************************************************************************)
(* htscookie with one client or two.  HalfMod is 4, so sequence numbers     *)
(* have four bits.  The cookies of different ports fold to different        *)
(* values, none of them that of TS_START, and the map cookies of different  *)
(* seeds differ.                                                            *)
(***************************************************************************)
EXTENDS HtsCookie

\* The cookies 0010, 1100 and 0101 fold to 2, 3 and 0.
CookieOf == (1 :> 2) @@ (2 :> 12) @@ (3 :> 5)

OneHaraka == [c \in Conns |-> CookieOf[c[2]]]

\* A hash of the swapped addresses is another hash.
OneHsiphash == [a \in (Clients \cup {ServerAddr}) \X (Clients \cup {ServerAddr}) \X Ports |->
                  IF a[2] = ServerAddr THEN CookieOf[a[3]] ELSE CookieOf[a[3]] + 1]

OneHsiphashIp == [k \in Clients \X Seeds |-> k[2]]

OneBloomBits == [ip \in Clients |-> {1, 2, 3}]

-----------------------------------------------------------------------------
(* Two clients, with map cookies and Bloom filter bits of their own.         *)

CONSTANTS c1, c2

TwoHaraka == [c \in Conns |-> CookieOf[c[2]] + IF c[1] = c1 THEN 0 ELSE 1]

TwoHsiphashIp == [k \in Clients \X Seeds |-> IF k[1] = c1 THEN 1 ELSE 2]

TwoBloomBits == [ip \in Clients |-> IF ip = c1 THEN {1, 2, 3} ELSE {2, 3, 4}]

=============================================================================
