---------------------------- MODULE MCSmartCookie ----------------------------
(***************************************************************************)
(* smartcookie with one client and two ports.  Once the connection of the   *)
(* first port is in the Bloom filter, the filter answers yes for the second *)
(* as well.                                                                 *)
(***************************************************************************)
EXTENDS SmartCookie

Cookies == [c \in Conns |-> IF c[2] = 1 THEN 2 ELSE 15]

FalsePositive == [c \in Conns |-> IF c[2] = 1 THEN {1, 2, 3} ELSE {1, 2}]

=============================================================================
