------------------------------ MODULE XsknfSetup ------------------------------
(***************************************************************************)
(* The life of an xsknf application: arguments, sockets, programs, worker   *)
(* threads, clean-up (src/xsknf.c).                                         *)
(*                                                                         *)
(* Any call of the kernel may fail.  Some failures end the process, others  *)
(* clean up first (exit_with_error), whatever has been set up by then, and  *)
(* those of the clean-up itself are passed over.  Workers may fail too, and *)
(* then clean up themselves.                                                *)
(***************************************************************************)
EXTENDS Integers, Sequences, FiniteSets, TLC

CONSTANTS
    num_interfaces,  \* option -i, repeated
    num_workers,     \* option -w
    FrameShift,      \* FRAMES_PER_SOCKET_SHIFT
    Configs,         \* the other options a user may give
    Faulty,          \* calls may fail during set-up and clean-up
    MaxErrors        \* bound: workers that run into an error

main == -1
Interfaces == 0 .. num_interfaces - 1
Workers == 0 .. num_workers - 1
Actors == {main} \cup Workers

ASSUME SetupAssumption ==
    /\ num_interfaces \in Nat \ {0} /\ num_workers \in Nat \ {0}
    /\ FrameShift \in Nat /\ Faulty \in BOOLEAN /\ MaxErrors \in Nat
    /\ Configs \subseteq [mode : {"AF_XDP", "XDP", "COMBINED"}, skb : BOOLEAN,
                          copy : [Interfaces -> {"c", "z", ""}],
                          unaligned : BOOLEAN, frame_size : Nat \ {0}]

VARIABLES
    conf,    \* the configuration
    pc,      \* what every thread is doing
    n,       \* the loop counter of the main thread
    k,       \* the worker that every clean-up joins next
    held,    \* what the process has allocated or installed
    egress,  \* egress_ebpf_program: there are egress filters to remove
    stuck,   \* history: programs and filters whose removal failed
    stop,    \* stop_workers
    errors   \* workers that ran into an error

vars == <<conf, pc, n, k, held, egress, stuck, stop, errors>>

AfXdp == conf.mode # "XDP"
Xdp == conf.mode # "AF_XDP"

\* What may be held.  Buffers come with the UMEM registered for them.
Umem(w, kind) == <<"umem", w, kind>>
Array(w) == <<"xsks", w, 0>>
Socket(w, i) == <<"socket", w, i>>
Program(i) == <<"xdp", 0, i>>
Filter(i) == <<"tc", 0, i>>
IfIndexes == <<"ifindexes", 0, 0>>
WorkerArray == <<"workers", 0, 0>>

Filters == {Filter(i) : i \in Interfaces}
Programs == {Program(i) : i \in Interfaces}
Sockets == {Socket(w, i) : w \in Workers, i \in Interfaces}
Memory == {WorkerArray} \cup {Array(w) : w \in Workers}
            \cup {Umem(w, kind) : w \in Workers, kind \in {"c", "z"}}
Resources == Filters \cup Programs \cup Sockets \cup Memory \cup {IfIndexes}

Steps == {"args", "alloc", "workers", "sockets", "programs", "filters", "map",
          "start", "running", "none", "polling", "batch", "retry", "done",
          "join", "detach", "unfilter", "cleaned", "exit", "crash"}

TypeOK ==
    /\ conf \in Configs
    /\ pc \in [Actors -> Steps]
    /\ n \in 0 .. num_interfaces * num_workers
    /\ k \in [Actors -> 0 .. num_workers]
    /\ held \subseteq Resources
    /\ egress \in BOOLEAN
    /\ stuck \subseteq held
    /\ stop \in BOOLEAN
    /\ errors \in 0 .. MaxErrors

Init ==
    /\ conf \in Configs
    /\ pc = [a \in Actors |-> IF a = main THEN "args" ELSE "none"]
    /\ n = 0
    /\ k = [a \in Actors |-> 0]
    /\ held = {}
    /\ egress = FALSE
    /\ stuck = {}
    /\ stop = FALSE
    /\ errors = 0

\* One thread has ended the process.
Over == \E a \in Actors : pc[a] \in {"cleaned", "exit", "crash"}

At(a, step) == ~ Over /\ pc[a] = step
Goto(a, step) == pc' = [pc EXCEPT ![a] = step]

\* exit_with_error calls xsknf_cleanup, which first stops the workers; in pure
\* XDP mode there are none.
xsknf_cleanup(a) ==
    /\ Goto(a, IF AfXdp THEN "join" ELSE "detach")
    /\ stop' = TRUE

-----------------------------------------------------------------------------
(* xsknf_parse_args and xsknf_init *)

PowerOfTwo(m) == \E e \in 0 .. m : m = 2 ^ e

xsknf_parse_args ==
    /\ At(main, "args")
    /\ Goto(main, IF PowerOfTwo(conf.frame_size) \/ conf.unaligned
                  THEN "alloc" ELSE "exit")
    /\ UNCHANGED <<conf, n, k, held, egress, stuck, stop, errors>>

\* Skb mode copies; without a mode zero copy is tried.
CopyMode(i) ==
    IF conf.skb \/ conf.copy[i] = "c" THEN "c" ELSE "z"

InterfaceIndexes ==
    /\ At(main, "alloc")
    /\ \/ /\ held' = held \cup {IfIndexes}
          /\ Goto(main, IF AfXdp THEN "workers" ELSE "programs")
          /\ UNCHANGED stop
       \/ Faulty /\ xsknf_cleanup(main) /\ UNCHANGED held
       \/ Faulty /\ Goto(main, "exit") /\ UNCHANGED <<held, stop>>
    /\ UNCHANGED <<conf, n, k, egress, stuck, errors>>

AllocateWorkers ==
    /\ At(main, "workers")
    /\ \/ /\ held' = held \cup {WorkerArray}
          /\ Goto(main, "sockets")
          /\ UNCHANGED stop
       \/ Faulty /\ xsknf_cleanup(main) /\ UNCHANGED held
    /\ UNCHANGED <<conf, n, k, egress, stuck, errors>>

\* Mutant: one socket too many.
MoreSocketsOffByOne == n <= num_workers * num_interfaces

MoreSockets == n < num_workers * num_interfaces

\* Socket n: the array of its worker, the UMEM of its copy mode unless the
\* worker has one, the socket and its fill ring.
CreateSocket ==
    /\ At(main, "sockets") /\ MoreSockets
    /\ LET w == n \div num_interfaces
           i == n % num_interfaces
           parts == <<Array(w), Umem(w, CopyMode(i)), Socket(w, i)>>
       IN  \/ /\ held' = held \cup {parts[1], parts[2], parts[3]}
              /\ n' = n + 1
              /\ UNCHANGED <<pc, stop>>
           \/ /\ Faulty
              /\ \E done \in 0 .. 3 : held' = held \cup {parts[m] : m \in 1 .. done}
              /\ xsknf_cleanup(main)
              /\ UNCHANGED n
    /\ UNCHANGED <<conf, k, egress, stuck, errors>>

SocketsCreated ==
    /\ At(main, "sockets") /\ ~ MoreSockets
    /\ Goto(main, IF Xdp THEN "programs" ELSE "start")
    /\ n' = 0
    /\ UNCHANGED <<conf, k, held, egress, stuck, stop, errors>>

\* Attach the programs one by one.  A failure here ends the process.
Attach(step, resource, next) ==
    /\ At(main, step)
    /\ \/ /\ n < num_interfaces
          /\ held' = held \cup {resource}
          /\ n' = n + 1
          /\ UNCHANGED pc
       \/ /\ n = num_interfaces
          /\ \E after \in next : Goto(main, after)
          /\ n' = 0
          /\ UNCHANGED held
       \/ /\ Faulty
          /\ Goto(main, "exit")
          /\ UNCHANGED <<n, held>>
    /\ UNCHANGED <<conf, k, stuck, stop, errors>>

AfterPrograms == IF AfXdp THEN "map" ELSE "start"

\* The user need not name an egress program.
load_ebpf_programs ==
    /\ Attach("programs", Program(n), {"filters", AfterPrograms})
    /\ UNCHANGED egress

\* Mutant: the process does not remember that it has filters.
LoadTcForgotten ==
    Attach("filters", Filter(n), {AfterPrograms}) /\ UNCHANGED egress

\* egress_ebpf_program is set once every interface has its filter.
load_tc_programs ==
    /\ Attach("filters", Filter(n), {AfterPrograms})
    /\ egress' = (pc'[main] = AfterPrograms)

\* The keys are those of module SwitchAgentKern.
enter_xsks_into_map ==
    /\ At(main, "map")
    /\ \/ Goto(main, "start")
       \/ Faulty /\ Goto(main, "exit")
    /\ UNCHANGED <<conf, n, k, held, egress, stuck, stop, errors>>

-----------------------------------------------------------------------------
(* Workers *)

\* Threads start one by one.  Too few CPUs or a failing call clean up.
xsknf_start_workers ==
    /\ At(main, "start")
    /\ \/ /\ AfXdp /\ n < num_workers
          /\ pc' = [pc EXCEPT ![n] = "polling"]
          /\ n' = n + 1
          /\ UNCHANGED stop
       \/ /\ AfXdp => n = num_workers
          /\ Goto(main, "running")
          /\ UNCHANGED <<n, stop>>
       \/ /\ AfXdp /\ Faulty
          /\ xsknf_cleanup(main)
          /\ UNCHANGED n
    /\ UNCHANGED <<conf, k, held, egress, stuck, errors>>

\* SIGINT ends the main loop.
Interrupted ==
    /\ At(main, "running")
    /\ xsknf_cleanup(main)
    /\ UNCHANGED <<conf, n, k, held, egress, stuck, errors>>

\* Mutant: the condition of the loop is not read again.
WorkerLoopForever(w) ==
    /\ At(w, "polling")
    /\ Goto(w, "batch")
    /\ UNCHANGED <<conf, n, k, held, egress, stuck, stop, errors>>

worker_loop(w) ==
    /\ At(w, "polling")
    /\ Goto(w, IF stop THEN "done" ELSE "batch")
    /\ UNCHANGED <<conf, n, k, held, egress, stuck, stop, errors>>

\* An iteration of the loop: a timeout of poll, or a batch of each interface.
\* Where a tx ring is full, it waits for room and does not look at stop.
process_batch(w) ==
    /\ At(w, "batch")
    /\ Goto(w, "polling")
    /\ UNCHANGED <<conf, n, k, held, egress, stuck, stop, errors>>

TxRingFull(w) ==
    /\ At(w, "batch")
    /\ Goto(w, "retry")
    /\ UNCHANGED <<conf, n, k, held, egress, stuck, stop, errors>>

TxRingHasRoom(w) ==
    /\ At(w, "retry")
    /\ Goto(w, "polling")
    /\ UNCHANGED <<conf, n, k, held, egress, stuck, stop, errors>>

\* Every call in a batch that fails ends in exit_with_error.
WorkerError(w) ==
    /\ At(w, "batch") \/ At(w, "retry")
    /\ errors < MaxErrors
    /\ errors' = errors + 1
    /\ xsknf_cleanup(w)
    /\ UNCHANGED <<conf, n, k, held, egress, stuck>>

-----------------------------------------------------------------------------
(* xsknf_cleanup *)

Waiting(a, w) == pc[a] = "join" /\ k[a] = w

\* pthread_join.  A thread that was never created, or the array missing, is
\* not survived.  Joining oneself, or a thread that waits for the caller,
\* returns at once, and so does joining one that another thread waits for.
\* Joining a thread twice is undefined: it may return or not be survived.
pthread_join(a) ==
    LET w == k[a]
        missing == WorkerArray \notin held \/ pc[w] = "none"
        refused == \/ w = a
                   \/ a # main /\ Waiting(w, a)
                   \/ \E b \in Actors \ {a} : Waiting(b, w)
        again == pc[w] = "done" /\ \E b \in Actors : k[b] > w /\ b # w
    IN  /\ At(a, "join") /\ w < num_workers
        /\ \/ ~ missing /\ (refused \/ pc[w] = "done") /\ k' = [k EXCEPT ![a] = @ + 1]
              /\ UNCHANGED pc
           \/ (missing \/ again) /\ Goto(a, "crash") /\ UNCHANGED k
        /\ UNCHANGED <<conf, n, held, egress, stuck, stop, errors>>

\* Mutant: the sockets go before the workers are waited for.
JoinedNobody(a) == At(a, "join")

Joined(a) == At(a, "join") /\ k[a] = num_workers

\* Delete sockets and UMEMs.  An array that is missing, of a worker not set up
\* yet or released by another thread, is not survived.
ReleaseSockets(a) ==
    /\ Joined(a)
    /\ IF \A w \in Workers : Array(w) \in held
       THEN /\ held' = held \ (Sockets \cup Memory)
            /\ Goto(a, "detach")
       ELSE /\ Goto(a, "crash")
            /\ UNCHANGED held
    /\ UNCHANGED <<conf, n, k, egress, stuck, stop, errors>>

\* Remove one kind of what is installed from every interface.  Where that
\* fails the loop goes on with the next interface.
Uninstall(kind, freed) ==
    \E left \in SUBSET (kind \cap held) :
       /\ left # {} => Faulty
       /\ held' = (held \ (kind \cup freed)) \cup left
       /\ stuck' = stuck \cup left

DetachPrograms(a) ==
    /\ At(a, "detach")
    /\ IF IfIndexes \in held
       THEN Uninstall(Programs, {}) /\ Goto(a, "unfilter")
       ELSE Goto(a, "crash") /\ UNCHANGED <<held, stuck>>
    /\ UNCHANGED <<conf, n, k, egress, stop, errors>>

\* The filters go only if there are any.  Then ifindexes is freed.
del_clsact_qdiscs(a) ==
    /\ At(a, "unfilter")
    /\ Uninstall(IF egress THEN Filters ELSE {}, {IfIndexes})
    /\ Goto(a, "cleaned")
    /\ UNCHANGED <<conf, n, k, egress, stop, errors>>

Cleanup(a) ==
    pthread_join(a) \/ ReleaseSockets(a) \/ DetachPrograms(a) \/ del_clsact_qdiscs(a)

MainThread ==
    \/ xsknf_parse_args \/ InterfaceIndexes \/ AllocateWorkers \/ CreateSocket
    \/ SocketsCreated \/ load_ebpf_programs \/ load_tc_programs
    \/ enter_xsks_into_map \/ xsknf_start_workers

Next ==
    \/ MainThread \/ Interrupted
    \/ \E w \in Workers : \/ worker_loop(w) \/ process_batch(w) \/ WorkerError(w)
                          \/ TxRingFull(w) \/ TxRingHasRoom(w)
    \/ \E a \in Actors : Cleanup(a)

Spec == Init /\ [][Next]_vars

\* Threads are scheduled; whether there are errors or a SIGINT is open, and so
\* is whether a tx ring that is full ever has room again.
FairSpec ==
    /\ Spec /\ WF_vars(MainThread)
    /\ \A w \in Workers : WF_vars(worker_loop(w) \/ process_batch(w))
    /\ \A a \in Actors : WF_vars(Cleanup(a))

-----------------------------------------------------------------------------
(* Addresses of frames *)

\* The lowest bit set, counted from 1.
ffs(m) == CHOOSE e \in 1 .. m : m % 2 ^ e # 0 /\ m % 2 ^ (e - 1) = 0

\* Mutant: the result of ffs is taken for a shift.
owner_shift_off_by_one == FrameShift + ffs(conf.frame_size)

owner_shift == FrameShift + ffs(conf.frame_size) - 1

FrameAddress(i, frame) == (i * 2 ^ FrameShift + frame) * conf.frame_size

-----------------------------------------------------------------------------
(* Properties *)

\* xsknf_cleanup deletes sockets and buffers after it has joined the workers:
\* as long as no worker runs into an error and cleans up on its own, no worker
\* polls a socket that is gone.
PollingWorkersHaveSockets ==
    errors = 0 =>
       \A w \in Workers : At(w, "polling") \/ At(w, "batch") \/ At(w, "retry") =>
          \A i \in Interfaces : Socket(w, i) \in held

\* xsknf_cleanup does not stop at what it cannot remove: a process that got
\* through it leaves no socket, no UMEM and no array behind, and of programs
\* and egress filters only those whose own removal failed.  In particular
\* egress_ebpf_program is set whenever there are filters.
NothingLeft ==
    (\E a \in Actors : pc[a] = "cleaned") => held \subseteq stuck

\* "This allows to quickly identify the owner (socket) of the frame when frames
\* are put back into the fill ring" (xsknf.c): the address of a frame, shifted,
\* is the interface it was given to.
OwnerFound ==
    AfXdp /\ held \cap Sockets # {} =>
       \A i \in Interfaces : \A frame \in 0 .. 2 ^ FrameShift - 1 :
          FrameAddress(i, frame) \div 2 ^ owner_shift = i

\* Whoever cleans up, main thread or workers that fail at the same time, nobody
\* waits for ever: once the workers are told to stop the process ends, provided
\* that no worker is held up for ever by a tx ring that is full (the retry loop
\* does not read stop_workers).
StopEnds ==
    (\A w \in Workers : []<>(Over \/ pc[w] # "retry")) => (stop ~> Over)

=============================================================================
