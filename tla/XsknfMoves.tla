---------------------------- MODULE XsknfMoves -----------------------------
(***************************************************************************)
(* The inductive invariant of Xsknf, and what the proofs of XsknfProofs need *)
(* to know about the rings.                                                 *)
(*                                                                          *)
(* Every step of the worker or of the kernel that touches a ring moves the  *)
(* first n entries of one place to the end of another one.  Moved states    *)
(* this; MovePlaced shows once that a move neither loses nor duplicates a   *)
(* frame, and OwnedFit that an interface's frames always fit in its fill    *)
(* ring.                                                                    *)
(***************************************************************************)
EXTENDS Xsknf, FiniteSetTheorems, SequenceTheorems, TLAPS

-----------------------------------------------------------------------------
(* The inductive invariant *)

\* No two entries hold the same frame.
Distinct(r) ==
    \A p, q \in Places : \A k \in 1 .. Len(r[p]) : \A m \in 1 .. Len(r[q]) :
        r[p][k] = r[q][m] => p = q /\ k = m

\* Every frame is somewhere.
Covered(r) ==
    \A f \in Frames : \E p \in Places : \E k \in 1 .. Len(r[p]) : r[p][k] = f

\* r2 is r after moving the first n entries of a to the end of b.
Moved(r, r2, a, b, n) ==
    /\ r2 \in [Places -> Seq(Frames)]
    /\ \A p \in Places : p # a /\ p # b => r2[p] = r[p]
    /\ Len(r2[a]) = Len(r[a]) - n
    /\ \A k \in 1 .. Len(r[a]) - n : r2[a][k] = r[a][k + n]
    /\ Len(r2[b]) = Len(r[b]) + n
    /\ \A k \in 1 .. Len(r[b]) : r2[b][k] = r[b][k]
    /\ \A k \in 1 .. n : r2[b][Len(r[b]) + k] = r[a][k]

Kinds == {"fq", "rx", "tx", "cq", "rx_batch", "cq_batch",
          "to_drop", "to_tx", "to_fill"}

Size(kind, j) == Len(ring[<<kind, j>>])

\* The uint8_t counters are exact: they never wrap.
CountsExact ==
    \A j \in Interfaces :
        /\ count[<<"to_drop", j>>] = Size("to_drop", j)
        /\ count[<<"to_tx", j>>] = Size("to_tx", j)
        /\ count[<<"to_fill", j>>] = Size("to_fill", j)

\* What is left to store fits in the arrays it may go to.
BatchFits ==
    \A j, k \in Interfaces :
        /\ Size("to_fill", j) + Size("cq_batch", k) <= BatchSize
        /\ Size("to_tx", j) + Size("rx_batch", k) <= BatchSize
        /\ Size("to_drop", j) + Size("rx_batch", k) <= BatchSize

\* Which arrays and windows are in use at which point of the code.
IdleArrays(j) ==
    /\ (pc # "map" \/ j # ifindex) => Size("cq_batch", j) = 0
    /\ (pc # "process" \/ j # ifindex) => Size("rx_batch", j) = 0
    /\ (pc \notin {"process", "drop"} \/ j # ifindex) => Size("to_drop", j) = 0
    /\ (caller = "tx" /\ j < i) => Size("to_tx", j) = 0
    /\ (caller = "peek" /\ pc \notin {"process", "drop"}) => Size("to_tx", j) = 0
    /\ (pc \notin {"map", "fill"}) => Size("to_fill", j) = 0

Phases ==
    /\ \A j \in Interfaces : IdleArrays(j)
    /\ pc = "map" => Size("cq_batch", ifindex) > 0
    /\ pc = "process" => Size("rx_batch", ifindex) > 0
    /\ pc \in {"loop", "peek", "process", "drop", "stopped"} => caller = "peek"
    /\ pc = "tx" => caller = "tx"

\* Where the frames are ...
PlacesInv ==
    /\ ring \in [Places -> Seq(Frames)]
    /\ \A p \in Places : Len(ring[p]) <= Capacity(p)
    /\ Distinct(ring)
    /\ Covered(ring)
    /\ FramesReturnToOwner

\* ... and the types of the other variables.
ControlTypes ==
    /\ count \in [Counters -> 0 .. CounterMod - 1]
    /\ outstanding_tx \in [Interfaces -> Nat]
    /\ peeked \in 0 .. BatchSize
    /\ ifindex \in Interfaces
    /\ i \in Interfaces
    /\ caller \in {"peek", "tx"}
    /\ pc \in {"loop", "complete", "map", "fill", "peek", "process", "drop",
               "tx", "stopped", "fq_full", "kick_failed"}
    /\ stop_workers \in BOOLEAN

IInv ==
    /\ PlacesInv
    /\ ControlTypes
    /\ CountsExact
    /\ BatchFits
    /\ Phases
    /\ OutstandingExact
    /\ FillReserveNeverFails

-----------------------------------------------------------------------------
(* Facts about places and moves *)

\* Every kind of ring or array of every interface is a place, and the arrays of
\* the worker are the places that have a counter.
LEMMA PlaceFacts ==
    ASSUME NEW j \in Interfaces
    PROVE  /\ \A kind \in Kinds : <<kind, j>> \in Places
           /\ \A kind \in {"to_drop", "to_tx", "to_fill"} : <<kind, j>> \in Counters
BY DEF Kinds, Places, Counters, Rings, Windows, Arrays

\* A move keeps the frames apart and loses none.
LEMMA MovePlaced ==
    ASSUME NEW r \in [Places -> Seq(Frames)], NEW r2,
           NEW a \in Places, NEW b \in Places, a # b,
           NEW n \in 0 .. Len(r[a]),
           Moved(r, r2, a, b, n), Distinct(r), Covered(r)
    PROVE  Distinct(r2) /\ Covered(r2)
<1> DEFINE Src(p, k) == IF p = a THEN <<a, k + n>>
                        ELSE IF p = b /\ k > Len(r[b]) THEN <<a, k - Len(r[b])>>
                        ELSE <<p, k>>
<1>0. /\ \A p \in Places : Len(r[p]) \in Nat /\ Len(r2[p]) \in Nat
      /\ n \in Nat
  BY DEF Moved
<1>1. ASSUME NEW p \in Places, NEW k \in 1 .. Len(r2[p])
      PROVE  \E q \in Places : \E m \in 1 .. Len(r[q]) :
                Src(p, k) = <<q, m>> /\ r2[p][k] = r[q][m]
  <2>1. CASE p = a
    <3>1. k + n \in 1 .. Len(r[a]) /\ r2[a][k] = r[a][k + n]
      BY <1>0, <2>1 DEF Moved
    <3> QED BY <3>1, <2>1
  <2>2. CASE p = b /\ k > Len(r[b])
    <3>1. k - Len(r[b]) \in 1 .. n
      BY <1>0, <2>2 DEF Moved
    <3>2. r2[b][Len(r[b]) + (k - Len(r[b]))] = r[a][k - Len(r[b])]
      BY <3>1 DEF Moved
    <3>3. Len(r[b]) + (k - Len(r[b])) = k /\ k - Len(r[b]) \in 1 .. Len(r[a])
      BY <1>0, <3>1
    <3> QED BY <3>2, <3>3, <2>2
  <2>3. CASE p = b /\ k <= Len(r[b])
    <3>1. k \in 1 .. Len(r[b]) /\ r2[b][k] = r[b][k] /\ ~(k > Len(r[b]))
      BY <1>0, <2>3 DEF Moved
    <3> QED BY <3>1, <2>3
  <2>4. CASE p # a /\ p # b
    BY <2>4 DEF Moved
  <2>5. k <= Len(r[b]) \/ k > Len(r[b])
    BY <1>0
  <2> HIDE DEF Src
  <2> QED BY <2>1, <2>2, <2>3, <2>4, <2>5
<1>2. ASSUME NEW p \in Places, NEW k \in 1 .. Len(r2[p]),
             NEW q \in Places, NEW m \in 1 .. Len(r2[q]),
             Src(p, k) = Src(q, m)
      PROVE  p = q /\ k = m
  <2>1. /\ p = b /\ k > Len(r[b]) => k - Len(r[b]) <= n
        /\ q = b /\ m > Len(r[b]) => m - Len(r[b]) <= n
    BY <1>0 DEF Moved
  <2> QED BY <2>1, <1>0, <1>2
<1> HIDE DEF Src
<1>3. Distinct(r2)
  <2> SUFFICES ASSUME NEW p \in Places, NEW q \in Places,
                      NEW k \in 1 .. Len(r2[p]), NEW m \in 1 .. Len(r2[q]),
                      r2[p][k] = r2[q][m]
               PROVE  p = q /\ k = m
    BY Zenon DEF Distinct
  <2>1. PICK p0 \in Places : \E k0 \in 1 .. Len(r[p0]) :
                Src(p, k) = <<p0, k0>> /\ r2[p][k] = r[p0][k0]
    BY <1>1
  <2>2. PICK k0 \in 1 .. Len(r[p0]) :
                Src(p, k) = <<p0, k0>> /\ r2[p][k] = r[p0][k0]
    BY <2>1
  <2>3. PICK q0 \in Places : \E m0 \in 1 .. Len(r[q0]) :
                Src(q, m) = <<q0, m0>> /\ r2[q][m] = r[q0][m0]
    BY <1>1
  <2>4. PICK m0 \in 1 .. Len(r[q0]) :
                Src(q, m) = <<q0, m0>> /\ r2[q][m] = r[q0][m0]
    BY <2>3
  <2>5. r[p0][k0] = r[q0][m0]
    BY <2>2, <2>4
  <2>6. p0 = q0 /\ k0 = m0
    <3>1. \A x \in 1 .. Len(r[p0]) : \A y \in 1 .. Len(r[q0]) :
            r[p0][x] = r[q0][y] => p0 = q0 /\ x = y
      BY DEF Distinct
    <3> QED BY <3>1, <2>5
  <2>7. Src(p, k) = Src(q, m)
    BY <2>2, <2>4, <2>6
  <2>8. \A x \in 1 .. Len(r2[p]) : \A y \in 1 .. Len(r2[q]) :
            Src(p, x) = Src(q, y) => p = q /\ x = y
    BY <1>2
  <2> QED BY <2>7, <2>8
<1>4. Covered(r2)
  <2> SUFFICES ASSUME NEW f \in Frames
               PROVE  \E q \in Places : \E m \in 1 .. Len(r2[q]) : r2[q][m] = f
    BY DEF Covered
  <2>1. PICK p \in Places : \E k \in 1 .. Len(r[p]) : r[p][k] = f
    BY DEF Covered
  <2>2. PICK k \in 1 .. Len(r[p]) : r[p][k] = f
    BY <2>1
  <2>3. CASE p = a /\ k <= n
    <3>1. Len(r[b]) + k \in 1 .. Len(r2[b]) /\ r2[b][Len(r[b]) + k] = r[a][k]
      BY <1>0, <2>3 DEF Moved
    <3> QED BY <3>1, <2>2, <2>3
  <2>4. CASE p = a /\ k > n
    <3>1. k - n \in 1 .. Len(r[a]) - n /\ (k - n) + n = k
      BY <1>0, <2>4
    <3>2. r2[a][k - n] = r[a][k] /\ k - n \in 1 .. Len(r2[a])
      BY <3>1 DEF Moved
    <3> QED BY <3>2, <2>2, <2>4
  <2>5. CASE p = b
    <3>1. k \in 1 .. Len(r2[b]) /\ r2[b][k] = r[b][k]
      BY <1>0, <2>5 DEF Moved
    <3> QED BY <3>1, <2>2, <2>5
  <2>6. CASE p # a /\ p # b
    BY <2>2, <2>6 DEF Moved
  <2>7. k <= n \/ k > n
    BY <1>0
  <2> QED BY <2>3, <2>4, <2>5, <2>6, <2>7
<1> QED BY <1>3, <1>4

\* A place is empty exactly when its length is 0.
LEMMA EmptyLen ==
    ASSUME NEW r \in [Places -> Seq(Frames)], NEW p \in Places
    PROVE  /\ Len(r[p]) \in Nat
           /\ r[p] = <<>> <=> Len(r[p]) = 0
BY EmptySeq

\* The shapes of the steps are moves: the head of a place, ...
LEMMA MoveHead ==
    ASSUME NEW r \in [Places -> Seq(Frames)],
           NEW a \in Places, NEW b \in Places, a # b, Len(r[a]) > 0
    PROVE  Moved(r, [r EXCEPT ![a] = Tail(@), ![b] = Append(@, Head(r[a]))],
                 a, b, 1)
<1> DEFINE r2 == [r EXCEPT ![a] = Tail(@), ![b] = Append(@, Head(r[a]))]
<1>1. /\ r[a] \in Seq(Frames) /\ r[b] \in Seq(Frames)
      /\ r[a] # <<>>
      /\ Len(r[a]) \in Nat /\ Len(r[b]) \in Nat
  BY EmptyLen
<1>2. /\ r2[a] = Tail(r[a]) /\ r2[b] = Append(r[b], Head(r[a]))
      /\ \A p \in Places : p # a /\ p # b => r2[p] = r[p]
  OBVIOUS
<1>3. /\ Tail(r[a]) \in Seq(Frames) /\ Len(Tail(r[a])) = Len(r[a]) - 1
      /\ \A k \in 1 .. Len(r[a]) - 1 : Tail(r[a])[k] = r[a][k + 1]
      /\ Head(r[a]) \in Frames /\ Head(r[a]) = r[a][1]
  BY <1>1, HeadTailProperties
<1>4. /\ Append(r[b], Head(r[a])) \in Seq(Frames)
      /\ Len(Append(r[b], Head(r[a]))) = Len(r[b]) + 1
      /\ \A k \in 1 .. Len(r[b]) : Append(r[b], Head(r[a]))[k] = r[b][k]
      /\ Append(r[b], Head(r[a]))[Len(r[b]) + 1] = r[a][1]
  BY <1>1, <1>3, AppendProperties
<1>5. r2 \in [Places -> Seq(Frames)]
  BY <1>3, <1>4
<1> HIDE DEF r2
<1>6. Moved(r, r2, a, b, 1)
  BY <1>1, <1>2, <1>3, <1>4, <1>5 DEF Moved
<1> QED BY <1>6 DEF r2

\* ... a prefix appended to another place, ...
LEMMA MovePrefix ==
    ASSUME NEW r \in [Places -> Seq(Frames)],
           NEW a \in Places, NEW b \in Places, a # b,
           NEW n \in 0 .. Len(r[a])
    PROVE  Moved(r, [r EXCEPT ![a] = SubSeq(@, n + 1, Len(@)),
                              ![b] = @ \o SubSeq(r[a], 1, n)], a, b, n)
<1> DEFINE r2 == [r EXCEPT ![a] = SubSeq(@, n + 1, Len(@)),
                           ![b] = @ \o SubSeq(r[a], 1, n)]
           s == SubSeq(r[a], n + 1, Len(r[a]))
           t == SubSeq(r[a], 1, n)
<1>1. /\ r[a] \in Seq(Frames) /\ r[b] \in Seq(Frames)
      /\ Len(r[a]) \in Nat /\ Len(r[b]) \in Nat /\ n \in Nat
  BY EmptyLen
<1>2. /\ s \in Seq(Frames) /\ Len(s) = Len(r[a]) - n
      /\ \A k \in 1 .. Len(r[a]) - n : s[k] = r[a][k + n]
  BY <1>1
<1>3. /\ t \in Seq(Frames) /\ Len(t) = n
      /\ \A k \in 1 .. n : t[k] = r[a][k]
  BY <1>1
<1>4. /\ r2[a] = s /\ r2[b] = r[b] \o t
      /\ \A p \in Places : p # a /\ p # b => r2[p] = r[p]
  OBVIOUS
<1> HIDE DEF s, t
<1>5. /\ r[b] \o t \in Seq(Frames) /\ Len(r[b] \o t) = Len(r[b]) + n
      /\ \A k \in 1 .. Len(r[b]) : (r[b] \o t)[k] = r[b][k]
      /\ \A k \in 1 .. n : (r[b] \o t)[Len(r[b]) + k] = t[k]
  <2>1. /\ r[b] \o t \in Seq(Frames) /\ Len(r[b] \o t) = Len(r[b]) + n
        /\ \A k \in 1 .. Len(r[b]) + n :
              (r[b] \o t)[k] = IF k <= Len(r[b]) THEN r[b][k]
                                                ELSE t[k - Len(r[b])]
    BY <1>1, <1>3, ConcatProperties
  <2> QED BY <1>1, <2>1
<1>6. r2 \in [Places -> Seq(Frames)]
  BY <1>2, <1>5 DEF s, t
<1> HIDE DEF r2
<1>7. Moved(r, r2, a, b, n)
  BY <1>2, <1>3, <1>4, <1>5, <1>6 DEF Moved
<1> QED BY <1>7 DEF r2

\* ... a prefix moved to an empty place (a peek), ...
LEMMA MoveToEmpty ==
    ASSUME NEW r \in [Places -> Seq(Frames)],
           NEW a \in Places, NEW b \in Places, a # b,
           NEW n \in 0 .. Len(r[a]), Len(r[b]) = 0
    PROVE  Moved(r, [r EXCEPT ![a] = SubSeq(@, n + 1, Len(@)),
                              ![b] = SubSeq(r[a], 1, n)], a, b, n)
<1>1. r[b] = <<>> /\ r[a] \in Seq(Frames) /\ Len(r[a]) \in Nat
  BY EmptyLen
<1>2. SubSeq(r[a], 1, n) \in Seq(Frames)
  BY <1>1
<1>3. r[b] \o SubSeq(r[a], 1, n) = SubSeq(r[a], 1, n)
  BY <1>1, <1>2, ConcatEmptySeq
<1>4. [r EXCEPT ![a] = SubSeq(@, n + 1, Len(@)), ![b] = @ \o SubSeq(r[a], 1, n)]
      = [r EXCEPT ![a] = SubSeq(@, n + 1, Len(@)), ![b] = SubSeq(r[a], 1, n)]
  BY <1>3
<1> QED BY <1>4, MovePrefix

\* ... and a whole array submitted to a ring.
LEMMA MoveAll ==
    ASSUME NEW r \in [Places -> Seq(Frames)],
           NEW a \in Places, NEW b \in Places, a # b
    PROVE  Moved(r, [r EXCEPT ![a] = <<>>,
                              ![b] = @ \o SubSeq(r[a], 1, Len(r[a]))],
                 a, b, Len(r[a]))
<1>1. Len(r[a]) \in Nat /\ Len(r[a]) \in 0 .. Len(r[a])
  BY EmptyLen
<1>2. SubSeq(r[a], Len(r[a]) + 1, Len(r[a])) = <<>>
  BY <1>1, SubSeqEmpty
<1>3. [r EXCEPT ![a] = SubSeq(@, Len(r[a]) + 1, Len(@)),
                ![b] = @ \o SubSeq(r[a], 1, Len(r[a]))]
      = [r EXCEPT ![a] = <<>>, ![b] = @ \o SubSeq(r[a], 1, Len(r[a]))]
  BY <1>2
<1> QED BY <1>1, <1>3, MovePrefix

\* The frames an interface owns are FramesPerSocket consecutive numbers.
LEMMA OwnerRange ==
    ASSUME NEW f \in Frames
    PROVE  /\ owner(f) \in Interfaces
           /\ f \in owner(f) * FramesPerSocket ..
                    owner(f) * FramesPerSocket + FramesPerSocket - 1
<1> DEFINE F == FramesPerSocket
           o == f \div F
<1>1. /\ F \in Nat \ {0} /\ NumInterfaces \in Nat \ {0}
      /\ f \in Nat /\ f < NumInterfaces * F
  BY ConfAssumption, SMTT(30) DEF Frames
<1>2. o \in Nat /\ F * o <= f /\ f < F * o + F
  BY <1>1, SMTT(30)
<1>3. o < NumInterfaces
  <2>1. SUFFICES ASSUME o >= NumInterfaces PROVE FALSE
    BY <1>1, <1>2
  <2>2. F * o >= F * NumInterfaces
    BY <1>1, <1>2, <2>1, SMTT(30)
  <2> QED BY <1>1, <1>2, <2>2, SMTT(30)
<1> QED BY <1>1, <1>2, <1>3, SMTT(30) DEF owner, Interfaces

\* Two sets of entries whose frames all belong to one interface are together
\* no more than the frames of that interface.
LEMMA OwnedFit ==
    ASSUME NEW r \in [Places -> Seq(Frames)], Distinct(r),
           NEW a \in Places, NEW b \in Places, a # b,
           NEW j \in Interfaces, NEW n \in 0 .. Len(r[b]),
           \A k \in 1 .. Len(r[a]) : owner(r[a][k]) = j,
           \A k \in 1 .. n : owner(r[b][k]) = j
    PROVE  Len(r[a]) + n <= FramesPerSocket
<1> DEFINE T == j * FramesPerSocket .. j * FramesPerSocket + FramesPerSocket - 1
           S == 1 .. Len(r[a]) + n
           g == [k \in S |-> IF k <= Len(r[a]) THEN r[a][k] ELSE r[b][k - Len(r[a])]]
<1>1. /\ Len(r[a]) \in Nat /\ Len(r[b]) \in Nat /\ n \in Nat
      /\ FramesPerSocket \in Nat \ {0} /\ j \in Nat
      /\ j * FramesPerSocket \in Nat
  BY ConfAssumption, EmptyLen DEF Interfaces
<1>2. IsFiniteSet(T) /\ Cardinality(T) = FramesPerSocket
  <2> DEFINE lo == j * FramesPerSocket
             hi == j * FramesPerSocket + FramesPerSocket - 1
  <2>1. lo \in Int /\ hi \in Int /\ hi - lo + 1 = FramesPerSocket /\ ~(lo > hi)
    BY <1>1
  <2> HIDE DEF lo, hi
  <2>2. IsFiniteSet(lo .. hi) /\ Cardinality(lo .. hi) = FramesPerSocket
    BY <2>1, FS_Interval
  <2> QED BY <2>2 DEF lo, hi
<1>3. IsFiniteSet(S) /\ Cardinality(S) = Len(r[a]) + n
  <2> DEFINE hi == Len(r[a]) + n
  <2>1. 1 \in Int /\ hi \in Nat /\ hi \in Int
    BY <1>1
  <2> HIDE DEF hi
  <2>2. /\ IsFiniteSet(1 .. hi)
        /\ Cardinality(1 .. hi) = IF 1 > hi THEN 0 ELSE hi - 1 + 1
    BY <2>1, FS_Interval
  <2>3. Cardinality(1 .. hi) = hi
    BY <2>1, <2>2
  <2> QED BY <2>2, <2>3 DEF hi
<1>4. ASSUME NEW k \in S
      PROVE  /\ k <= Len(r[a]) => k \in 1 .. Len(r[a]) /\ r[a][k] \in Frames
             /\ k > Len(r[a]) => /\ k - Len(r[a]) \in 1 .. n
                                 /\ k - Len(r[a]) \in 1 .. Len(r[b])
                                 /\ r[b][k - Len(r[a])] \in Frames
  BY <1>1
<1>5. \A f \in Frames : owner(f) = j => f \in T
  BY OwnerRange
<1>6. g \in [S -> T]
  <2> SUFFICES ASSUME NEW k \in S PROVE g[k] \in T
    OBVIOUS
  <2> QED BY <1>1, <1>4, <1>5
<1>7. ASSUME NEW x \in S, NEW y \in S, g[x] = g[y]
      PROVE  x = y
  <2>1. CASE x <= Len(r[a]) /\ y <= Len(r[a])
    BY <1>4, <1>7, <2>1 DEF Distinct
  <2>2. CASE x > Len(r[a]) /\ y > Len(r[a])
    <3>1. x - Len(r[a]) = y - Len(r[a])
      BY <1>1, <1>4, <1>7, <2>2 DEF Distinct
    <3> QED BY <1>1, <3>1
  <2>0. \A k \in 1 .. Len(r[a]) : \A m \in 1 .. Len(r[b]) : r[a][k] # r[b][m]
    BY DEF Distinct
  <2>3. CASE x <= Len(r[a]) /\ y > Len(r[a])
    BY <2>0, <1>1, <1>4, <1>7, <2>3
  <2>4. CASE x > Len(r[a]) /\ y <= Len(r[a])
    BY <2>0, <1>1, <1>4, <1>7, <2>4
  <2> QED BY <1>1, <2>1, <2>2, <2>3, <2>4
<1> HIDE DEF g, S, T
<1>8. SUFFICES ASSUME Cardinality(T) < Cardinality(S) PROVE FALSE
  BY <1>1, <1>2, <1>3
<1>9. \E x, y \in S : x # y /\ g[x] = g[y]
  BY <1>2, <1>3, <1>6, <1>8, FS_PigeonHole
<1> QED BY <1>7, <1>9

-----------------------------------------------------------------------------
(* What a move does to the invariant *)

\* The part of the invariant about which frame is where, and the new lengths.
LEMMA MoveContents ==
    ASSUME IInv,
           NEW a \in Places, NEW b \in Places, a # b,
           NEW n \in 0 .. Len(ring[a]), Moved(ring, ring', a, b, n),
           Len(ring[b]) + n <= Capacity(b),
           b[1] \in {"fq", "rx", "rx_batch", "to_drop", "to_fill"}
              => \A k \in 1 .. n : owner(ring[a][k]) = b[2]
    PROVE  /\ PlacesInv'
           /\ \A p \in Places : p # a /\ p # b => Len(ring'[p]) = Len(ring[p])
           /\ Len(ring'[a]) = Len(ring[a]) - n
           /\ Len(ring'[b]) = Len(ring[b]) + n
           /\ \A p \in Places : Len(ring[p]) \in Nat /\ Len(ring'[p]) \in Nat
<1>1. /\ ring \in [Places -> Seq(Frames)]
      /\ \A p \in Places : Len(ring[p]) <= Capacity(p)
      /\ Distinct(ring) /\ Covered(ring) /\ FramesReturnToOwner
  BY DEF IInv, PlacesInv
<1>2. Distinct(ring') /\ Covered(ring')
  BY <1>1, MovePlaced
<1>3. /\ ring' \in [Places -> Seq(Frames)]
      /\ \A p \in Places : p # a /\ p # b => ring'[p] = ring[p]
      /\ Len(ring'[a]) = Len(ring[a]) - n
      /\ Len(ring'[b]) = Len(ring[b]) + n
  BY DEF Moved
<1>4. \A p \in Places : Len(ring[p]) \in Nat /\ Len(ring'[p]) \in Nat
  BY <1>1, <1>3, EmptyLen
<1>5. \A p \in Places : Len(ring'[p]) <= Capacity(p)
  <2>0. \A p \in Places : Capacity(p) \in Nat
    BY ConfAssumption DEF Capacity
  <2> SUFFICES ASSUME NEW p \in Places PROVE Len(ring'[p]) <= Capacity(p)
    OBVIOUS
  <2>1. CASE p = a
    BY <2>0, <2>1, <1>1, <1>3, <1>4
  <2>2. CASE p = b
    BY <2>2, <1>3
  <2>3. CASE p # a /\ p # b
    BY <2>3, <1>1, <1>3
  <2> QED BY <2>1, <2>2, <2>3
<1>6. FramesReturnToOwner'
  <2> SUFFICES ASSUME NEW j \in Interfaces,
                      NEW kind \in {"fq", "rx", "rx_batch", "to_drop", "to_fill"},
                      NEW k \in 1 .. Len(ring'[<<kind, j>>])
               PROVE  owner(ring'[<<kind, j>>][k]) = j
    BY DEF FramesReturnToOwner, owner
  <2> DEFINE p == <<kind, j>>
  <2>0. /\ p \in Places /\ \A m \in 1 .. Len(ring[p]) : owner(ring[p][m]) = j
        /\ k \in 1 .. Len(ring'[p])
        /\ p[1] = kind /\ p[2] = j
    BY <1>1, PlaceFacts DEF FramesReturnToOwner, Kinds
  <2> SUFFICES owner(ring'[p][k]) = j
    OBVIOUS
  <2> HIDE DEF p
  <2>1. CASE p = a
    <3>1. k \in 1 .. Len(ring[a]) - n
      BY <2>0, <2>1, <1>3
    <3>2. k + n \in 1 .. Len(ring[a])
      BY <3>1, <1>4
    <3>3. ring'[a][k] = ring[a][k + n]
      BY <3>1 DEF Moved
    <3> QED BY <3>2, <3>3, <2>0, <2>1
  <2>2. CASE p = b /\ k <= Len(ring[b])
    <3>1. k \in 1 .. Len(ring[b]) /\ ring'[b][k] = ring[b][k]
      BY <2>0, <2>2, <1>4 DEF Moved
    <3> QED BY <3>1, <2>0, <2>2
  <2>3. CASE p = b /\ k > Len(ring[b])
    <3>1. /\ k - Len(ring[b]) \in 1 .. n
          /\ Len(ring[b]) + (k - Len(ring[b])) = k
      BY <2>0, <2>3, <1>3, <1>4
    <3>2. ring'[b][k] = ring[a][k - Len(ring[b])]
      BY <3>1 DEF Moved
    <3>3. b[1] = kind /\ b[2] = j
      BY <2>0, <2>3
    <3> QED BY <3>1, <3>2, <3>3, <2>3
  <2>4. CASE p # a /\ p # b
    BY <2>0, <2>4, <1>3
  <2>5. k <= Len(ring[b]) \/ k > Len(ring[b])
    BY <1>4, <2>0
  <2> QED BY <2>1, <2>2, <2>3, <2>4, <2>5
<1> QED BY <1>2, <1>3, <1>4, <1>5, <1>6 DEF PlacesInv, Capacity

\* The same, with the lengths as sizes.
LEMMA MoveSizes ==
    ASSUME IInv,
           NEW ka \in Kinds, NEW ja \in Interfaces,
           NEW kb \in Kinds, NEW jb \in Interfaces,
           <<ka, ja>> # <<kb, jb>>,
           NEW n \in 0 .. Size(ka, ja),
           Moved(ring, ring', <<ka, ja>>, <<kb, jb>>, n),
           Size(kb, jb) + n <= Capacity(<<kb, jb>>),
           kb \in {"fq", "rx", "rx_batch", "to_drop", "to_fill"}
              => \A k \in 1 .. n : owner(ring[<<ka, ja>>][k]) = jb
    PROVE  /\ PlacesInv'
           /\ \A kind \in Kinds : \A j \in Interfaces :
                 /\ Size(kind, j) \in Nat /\ Size(kind, j)' \in Nat
                 /\ (kind # ka \/ j # ja) /\ (kind # kb \/ j # jb)
                       => Size(kind, j)' = Size(kind, j)
           /\ Size(ka, ja)' = Size(ka, ja) - n
           /\ Size(kb, jb)' = Size(kb, jb) + n
<1>1. <<ka, ja>> \in Places /\ <<kb, jb>> \in Places
  BY PlaceFacts
<1>2. /\ PlacesInv'
      /\ \A p \in Places : p # <<ka, ja>> /\ p # <<kb, jb>>
            => Len(ring'[p]) = Len(ring[p])
      /\ Len(ring'[<<ka, ja>>]) = Len(ring[<<ka, ja>>]) - n
      /\ Len(ring'[<<kb, jb>>]) = Len(ring[<<kb, jb>>]) + n
      /\ \A p \in Places : Len(ring[p]) \in Nat /\ Len(ring'[p]) \in Nat
  BY <1>1, MoveContents DEF Size
<1>3. ASSUME NEW kind \in Kinds, NEW j \in Interfaces
      PROVE  /\ Size(kind, j) \in Nat /\ Size(kind, j)' \in Nat
             /\ (kind # ka \/ j # ja) /\ (kind # kb \/ j # jb)
                   => Size(kind, j)' = Size(kind, j)
  BY <1>2, PlaceFacts DEF Size
<1> QED BY <1>2, <1>3 DEF Size

\* Facts every action proof starts from.
LEMMA StateFacts ==
    ASSUME IInv
    PROVE  /\ ring \in [Places -> Seq(Frames)]
           /\ \A kind \in Kinds : \A j \in Interfaces :
                 /\ <<kind, j>> \in Places
                 /\ Size(kind, j) \in Nat
                 /\ ring[<<kind, j>>] = <<>> <=> Size(kind, j) = 0
           /\ ifindex \in Interfaces /\ i \in Interfaces
           /\ peeked \in Nat
<1>1. /\ ring \in [Places -> Seq(Frames)]
      /\ ifindex \in Interfaces /\ i \in Interfaces /\ peeked \in Nat
  BY ConfAssumption DEF IInv, PlacesInv, ControlTypes
<1>2. ASSUME NEW kind \in Kinds, NEW j \in Interfaces
      PROVE  /\ <<kind, j>> \in Places
             /\ Size(kind, j) \in Nat
             /\ ring[<<kind, j>>] = <<>> <=> Size(kind, j) = 0
  BY <1>1, PlaceFacts, EmptyLen DEF Size
<1> QED BY <1>1, <1>2

\* The frames of the places that only hold an interface's own frames.
LEMMA OwnFrames ==
    ASSUME IInv, NEW j \in Interfaces,
           NEW kind \in {"fq", "rx", "rx_batch", "to_drop", "to_fill"},
           NEW n \in 0 .. Size(kind, j)
    PROVE  \A k \in 1 .. n : owner(ring[<<kind, j>>][k]) = j
<1>1. \A k \in 1 .. Size(kind, j) : owner(ring[<<kind, j>>][k]) = j
  BY DEF IInv, PlacesInv, FramesReturnToOwner, Size
<1>2. Size(kind, j) \in Nat
  BY StateFacts DEF Kinds
<1> QED BY <1>1, <1>2

\* A step that leaves the rings alone keeps the places.
LEMMA StayPut ==
    ASSUME IInv, UNCHANGED ring
    PROVE  /\ PlacesInv'
           /\ \A kind \in Kinds : \A j \in Interfaces :
                 Size(kind, j)' = Size(kind, j)
<1>1. FramesReturnToOwner'
  BY DEF IInv, PlacesInv, FramesReturnToOwner
<1>2. PlacesInv'
  BY <1>1 DEF IInv, PlacesInv
<1> QED BY <1>2 DEF Size

=============================================================================
