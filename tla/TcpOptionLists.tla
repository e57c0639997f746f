--------------------------- MODULE TcpOptionLists ---------------------------
(***************************************************************************)
(* Option lists for ParseTimestamp: every order of up to four of the        *)
(* options a TCP sends, with data bytes whose bits are those of the masks   *)
(* or none of them.                                                         *)
(***************************************************************************)
EXTENDS Naturals, Sequences, SequencesExt

Nop == <<1>>
Mss(low) == <<2, 4, 5, low>>
WScale(shift) == <<3, 3, shift>>
SackOk == <<4, 2>>
Sack == <<5, 10, 0, 0, 0, 0, 0, 0, 0, 0>>
Ts(b) == <<8, 10, b, b, b, b, b, b, b, b>>

\* Maximum segment sizes 1460 and 1448; window shifts 7 and 8.
SynOptions ==
    {Nop, Mss(180), Mss(168), WScale(7), WScale(8), SackOk, Ts(0), Ts(255)}

SynLists == UNION {[1 .. n -> SynOptions] : n \in 1 .. 4}

\* Segments after the handshake carry padded blocks.
AckLists ==
    LET blocks == {<<Nop, Nop, Ts(0)>>, <<Nop, Nop, Ts(255)>>,
                   <<Nop, Nop, Sack>>, <<Ts(255), Nop, Nop>>}
    IN  {FlattenSeq(b) : b \in UNION {[1 .. n -> blocks] : n \in 1 .. 2}}

\* A timestamp after many NOPs, up to and beyond MAX_TCP_OPTION.
LateLists == {[k \in 1 .. n + 1 |-> IF k <= n THEN Nop ELSE Ts(0)] : n \in 3 .. 12}

RoundUp(n) == 4 * ((n + 3) \div 4)

\* The option area: filled up with ends of list to a multiple of 4 bytes, or
\* cut off by a header length that is a word too small.
Area(l, cut) ==
    LET bytes == FlattenSeq(l)
    IN  [k \in 1 .. RoundUp(Len(bytes)) - cut |->
           IF k <= Len(bytes) THEN bytes[k] ELSE 0]

Segs(flags, lists, cut) ==
    {[flags |-> f, options |-> l, bytes |-> Area(l, cut)] : f \in flags, l \in lists}

AllInputs ==
    Segs({"syn", "synack"}, SynLists, 0)
       \cup Segs({"ack", "none"}, AckLists \cup LateLists, 0)
       \cup Segs({"syn", "synack"}, {l \in SynLists : Len(l) <= 3}, 4)
       \cup Segs({"ack", "none"}, AckLists, 4)

=============================================================================
