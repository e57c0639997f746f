--------------------------- MODULE SwitchAgentKern ---------------------------
(***************************************************************************)
(* The redirect program of the gateway in combined mode: handle_xdp         *)
(* (examples/htscookie/switch_agent_kern.c), the map of sockets that        *)
(* xsknf_init fills for it (src/xsknf.c) and the global data that           *)
(* swich_agent writes (switch_agent_user.c).                                *)
(*                                                                         *)
(* Segments arrive as soon as the program is attached, and the first one    *)
(* copies the global data into static variables for good.  The write covers *)
(* the static variables too: it takes the size of the whole section from a  *)
(* struct that is only its beginning.                                       *)
(***************************************************************************)
EXTENDS Integers

CONSTANTS
    num_interfaces,  \* option -i, repeated; CLIENT_R_IF_ORDER and so on follow it
    num_workers      \* option -w

VARIABLES
    pc,       \* the main thread: "load", "map", "write" or "running"
    xsks,     \* the map: keys to sockets, which are pairs <<interface, worker>>
    global,   \* global_data
    init,     \* the static variables have been set
    statics,  \* workers and the orders of the interfaces
    last      \* the segment handled last, where it went and by what data

vars == <<pc, xsks, global, init, statics, last>>

Interfaces == 0 .. num_interfaces - 1
Workers == 0 .. num_workers - 1

Data == [workers : 0 .. num_workers, order : [Interfaces -> Interfaces]]
Written == [workers |-> num_workers, order |-> [i \in Interfaces |-> i]]
Zeros == [workers |-> 0, order |-> [i \in Interfaces |-> 0]]

XDP_PASS == <<-1, -1>>

NoSegment == [interface |-> 0, queue |-> 0, to |-> XDP_PASS, by |-> Zeros]

Init ==
    /\ pc = "load"
    /\ xsks = << >>
    /\ global = Zeros
    /\ init = FALSE
    /\ statics = Zeros
    /\ last = NoSegment

load_ebpf_programs ==
    /\ pc = "load"
    /\ pc' = "map"
    /\ UNCHANGED <<xsks, global, init, statics, last>>

SocketKey(i, w) == i * num_workers + w

enter_xsks_into_map ==
    /\ pc = "map"
    /\ pc' = "write"
    /\ xsks' = [key \in {SocketKey(i, w) : i \in Interfaces, w \in Workers} |->
                  <<key \div num_workers, key % num_workers>>]
    /\ UNCHANGED <<global, init, statics, last>>

\* What follows the struct on the stack ends up in the static variables.
WriteGlobalData ==
    /\ pc = "write"
    /\ pc' = "running"
    /\ global' = Written
    /\ init' \in BOOLEAN
    /\ statics' \in Data
    /\ UNCHANGED <<xsks, last>>

RedirectKey(s, i, queue) == queue + (s.workers - 1) * s.order[i]

\* A TCP segment arrives on a queue of an interface.
handle_xdp(i, queue) ==
    /\ pc # "load"
    /\ init' = TRUE
    /\ statics' = IF init THEN statics ELSE global
    /\ LET key == RedirectKey(statics', i, queue)
       IN  last' = [interface |-> i, queue |-> queue, by |-> statics',
                    to |-> IF key \in DOMAIN xsks THEN xsks[key] ELSE XDP_PASS]
    /\ UNCHANGED <<pc, xsks, global>>

Next ==
    \/ load_ebpf_programs \/ enter_xsks_into_map \/ WriteGlobalData
    \/ \E i \in Interfaces, queue \in Workers : handle_xdp(i, queue)

Spec == Init /\ [][Next]_vars

-----------------------------------------------------------------------------
(* Properties *)

\* "queue N -> Nth CPU -> worker N" (xsknf.c): a segment that handle_xdp
\* redirects goes to the socket of its interface that worker N polls for its
\* queue N, at least when it uses the data that the main thread has written.
QueueToItsWorker ==
    last.by = Written => last.to \in {XDP_PASS, <<last.interface, last.queue>>}

=============================================================================
