--------------------------- MODULE ParseTimestamp ---------------------------
(***************************************************************************)
(* Both agents look for the timestamp option of a segment: parse_timestamp  *)
(* of the gateway (examples/common/timestamp.c) and of the server programs  *)
(* (examples/htscookie/server.h).  Usual orders of options are recognised   *)
(* by masks over the first 8 and the next 4 bytes, all others by a walk     *)
(* over the options.                                                        *)
(*                                                                         *)
(* A segment has no payload here: it ends where its options end.            *)
(***************************************************************************)
EXTENDS Naturals, Integers, Sequences, SequencesExt, FiniteSetsExt

CONSTANT Inputs   \* flags, option list and option area of the segments

VARIABLES
    seg,    \* the segment, with its list of options for reference
    agent,  \* who parses it
    pc,     \* "masks", "walk" or "done"
    opt,    \* offset of the option the walk is at
    i,      \* options seen by the walk
    res     \* what the agents have found

vars == <<seg, agent, pc, opt, i, res>>

Agents == {"gateway", "server"}
Missing == -1
NotParsed == -2

\* sizeof(struct tcp_opt_ts)
TsSize == 10

\* Faulty variant: the server's loop ends one option early.
MaxOptionsFewer == [gateway |-> 40, server |-> 9]

\* Bound of the walk: a literal in the gateway, MAX_TCP_OPTION on the server.
MaxOptions == [gateway |-> 40, server |-> 10]

Size == Len(seg.bytes)

TypeOK ==
    /\ seg.flags \in {"syn", "ack", "synack", "none"} /\ Size \in 0 .. 40
    /\ agent \in Agents
    /\ pc \in {"masks", "walk", "done"}
    /\ opt \in 0 .. 40 + 255
    /\ i \in 0 .. MaxOptions[agent]
    /\ res \in [Agents -> {NotParsed, Missing} \cup 0 .. 40 - TsSize]

-----------------------------------------------------------------------------
(* Bytes and masks.  Masks are written in the order of the bytes in memory  *)
(* on a little-endian machine.                                              *)

Byte(at) == seg.bytes[at + 1]

Bits(b) == {k \in 0 .. 7 : (b \div 2 ^ k) % 2 = 1}

\* Faulty variant: (mask & bytes) != 0
CoversSome(mask, at) ==
    \E k \in DOMAIN mask : Bits(mask[k]) \cap Bits(Byte(at + k - 1)) # {}

\* (mask & bytes) == mask
Covers(mask, at) ==
    \A k \in DOMAIN mask : Bits(mask[k]) \subseteq Bits(Byte(at + k - 1))

Anything == <<>>
syn_1_mask == <<2, 0, 0, 0, 4, 0, 8, 0>>
syn_2_mask_1 == <<2, 0, 0, 0, 1, 7, 0, 0>>
syn_2_mask_2 == <<0, 1, 1, 8>>
syn_3_mask_1 == <<2, 0, 0, 0, 1, 7, 0, 0>>
syn_3_mask_2 == <<0, 4, 0, 8>>
ack_1_mask == <<1, 1, 8, 0, 0, 0, 0, 0>>
synack_3_mask == <<4, 0, 0, 0, 1, 1, 8, 0>>

Entry(first, second, offset) ==
    [first |-> first, second |-> second, offset |-> offset]

SynMasks == <<Entry(syn_1_mask, Anything, 6),
              Entry(syn_2_mask_1, syn_2_mask_2, 10),
              Entry(syn_3_mask_1, syn_3_mask_2, 10)>>
AckMasks == <<Entry(ack_1_mask, Anything, 2)>>
SynAckMasks == <<Entry(ack_1_mask, Anything, 2),
                 Entry(syn_2_mask_1, syn_3_mask_2, 10),
                 Entry(synack_3_mask, syn_3_mask_2, 6),
                 Entry(syn_2_mask_1, syn_2_mask_2, 10)>>

\* A segment that is neither SYN nor ACK is a SYN-ACK to the gateway, and
\* nothing in particular to the server.
Masks ==
    CASE seg.flags = "syn" -> SynMasks
      [] seg.flags = "ack" -> AckMasks
      [] seg.flags = "synack" \/ agent = "gateway" -> SynAckMasks
      [] OTHER -> <<>>

-----------------------------------------------------------------------------
(* Parsing *)

\* The caller makes sure that the whole option is in the packet.  The gateway
\* passes a segment on, and the server parses one with at least 12 bytes of
\* options.
Return(offset) ==
    LET found == IF offset + TsSize <= Size THEN offset ELSE Missing
    IN  /\ res' = [res EXCEPT ![agent] = found]
        /\ opt' = 0 /\ i' = 0
        /\ IF agent = "gateway" /\ found # Missing /\ Size >= 12
           THEN agent' = "server" /\ pc' = "masks"
           ELSE UNCHANGED agent /\ pc' = "done"
        /\ UNCHANGED seg

\* The result after one of the masks has matched.  The server adds the offset
\* twice before it compares with the end of the packet.
ReturnMasked(offset) ==
    IF agent = "server" /\ 2 * offset > Size
    THEN Return(Missing) ELSE Return(offset)

StartWalk == pc' = "walk" /\ UNCHANGED <<seg, agent, opt, i, res>>

\* The first entry whose first mask matches counts.  All but the first of
\* the entries need 12 bytes.
MatchMasks ==
    LET hits == {k \in DOMAIN Masks : Covers(Masks[k].first, 0)}
    IN  /\ pc = "masks"
        /\ CASE Size < 8 -> Return(Missing)
             [] Size >= 8 /\ 1 \in hits -> ReturnMasked(Masks[1].offset)
             [] Size \in 8 .. 11 /\ Len(Masks) > 1 /\ 1 \notin hits ->
                  Return(Missing)
             [] OTHER ->
                  IF hits # {} /\ Covers(Masks[Min(hits)].second, 8)
                  THEN ReturnMasked(Masks[Min(hits)].offset)
                  ELSE StartWalk

AtOption == pc = "walk" /\ i < MaxOptions[agent] /\ opt + 1 <= Size

Step(n) ==
    /\ opt' = opt + n
    /\ i' = i + 1
    /\ UNCHANGED <<seg, agent, pc, res>>

SkipNop == AtOption /\ Byte(opt) = 1 /\ Step(1)

SkipOption ==
    /\ AtOption /\ Byte(opt) \notin {0, 1, 8} /\ opt + 2 <= Size
    /\ Step(Byte(opt + 1))

FoundTimestamp ==
    /\ AtOption /\ Byte(opt) = 8 /\ opt + 2 <= Size
    /\ Return(opt)

NoTimestamp ==
    /\ pc = "walk"
    /\ AtOption => Byte(opt) = 0 \/ (Byte(opt) # 1 /\ opt + 2 > Size)
    /\ Return(Missing)

parse_timestamp ==
    MatchMasks \/ SkipNop \/ SkipOption \/ FoundTimestamp \/ NoTimestamp

Init ==
    /\ seg \in Inputs
    /\ agent = "gateway" /\ pc = "masks"
    /\ opt = 0 /\ i = 0
    /\ res = [a \in Agents |-> NotParsed]

Next == parse_timestamp

Spec == Init /\ [][Next]_vars

-----------------------------------------------------------------------------
(* Properties *)

Timestamps(s) == {k \in DOMAIN s.options : Head(s.options[k]) = 8}

\* Reference: the place of the first timestamp in a list of options.
TimestampOffset(s) ==
    IF Timestamps(s) = {} THEN Missing
    ELSE Len(FlattenSeq(SubSeq(s.options, 1, Min(Timestamps(s)) - 1)))

\* The orders the masks are made for: a SYN starts with its MSS, any other
\* segment with its timestamp or with two NOPs.
Usual(s) ==
    /\ Len(FlattenSeq(s.options)) <= Len(s.bytes)
    /\ IF s.flags \in {"syn", "synack"} THEN Head(s.options)[1] = 2
       ELSE \/ Head(s.options)[1] = 8
            \/ Len(s.options) > 1 /\ s.options[1] = <<1>> /\ s.options[2] = <<1>>

\* parse_timestamp finds the timestamp of every segment with a usual order of
\* options, on the masks' path and on the walk alike: the agents read and
\* rewrite the cookie there.  (Other orders may be taken for one of the masks,
\* and the server gives up after ten options.)
TimestampFound ==
    \A a \in Agents :
       /\ Usual(seg) /\ res[a] # NotParsed
       /\ a = "server" => \E k \in Timestamps(seg) : k <= 10
       => res[a] = TimestampOffset(seg)

\* Gateway and server take the same bytes for the cookie, also where the order
\* is unusual or the list is cut off by the header length: what the gateway
\* has checked is what the server reads.
AgentsAgree ==
    pc = "done" /\ res["gateway"] # Missing /\ (\E k \in Timestamps(seg) : k <= 10)
       => res["server"] = res["gateway"]

=============================================================================
