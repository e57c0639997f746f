----------------------------- MODULE MCGateway ------------------------------
(***************************************************************************)
(* Two parts of the gateway process that share no state, side by side: its  *)
(* set-up and clean-up (XsknfSetup) and the parsing of a segment's options, *)
(* there and on the server (ParseTimestamp).  A behaviour is one of either  *)
(* part, while the other rests in its initial state.                        *)
(***************************************************************************)
EXTENDS MCXsknfSetup, TcpOptionLists

VARIABLES part, seg, agent, at, opt, i, res

parseVars == <<seg, agent, at, opt, i, res>>
allVars == <<part, vars, parseVars>>

Parser == INSTANCE ParseTimestamp WITH pc <- at, Inputs <- AllInputs

NoSegment == [flags |-> "none", options |-> << >>, bytes |-> << >>]

RestingParser ==
    /\ seg = NoSegment /\ agent = "gateway" /\ at = "done"
    /\ opt = 0 /\ i = 0 /\ res = [a \in Parser!Agents |-> Parser!NotParsed]

RestingSetup ==
    /\ Init
    /\ conf = [mode |-> "XDP", skb |-> FALSE, copy |-> [j \in Interfaces |-> "c"],
               unaligned |-> FALSE, frame_size |-> 6]

GatewayInit ==
    \/ part = "setup" /\ Init /\ RestingParser
    \/ part = "parser" /\ RestingSetup /\ Parser!Init

InSetup(A) == part = "setup" /\ A /\ UNCHANGED <<part, parseVars>>

InParser(A) == part = "parser" /\ A /\ UNCHANGED <<part, vars>>

GatewayNext == InSetup(Next) \/ InParser(Parser!Next)

\* The fairness of XsknfSetup; parsing needs none.
GatewaySpec ==
    /\ GatewayInit /\ [][GatewayNext]_allVars
    /\ WF_allVars(InSetup(MainThread))
    /\ \A w \in Workers : WF_allVars(InSetup(worker_loop(w) \/ process_batch(w)))
    /\ \A a \in Actors : WF_allVars(InSetup(Cleanup(a)))

\* The type invariants of both parts: what the loops of xsknf_init and of
\* parse_timestamp reach stays inside the arrays they are about.
GatewayTypeOK == IF part = "setup" THEN TypeOK ELSE Parser!TypeOK

\* parse_timestamp finds the timestamp of every segment with a usual order of
\* options (ParseTimestamp).
TimestampFound == part = "parser" => Parser!TimestampFound

\* Gateway and server take the same bytes of a segment for the cookie
\* (ParseTimestamp).
AgentsAgree == part = "parser" => Parser!AgentsAgree

=============================================================================
