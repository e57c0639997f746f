------------------------------- MODULE Xsknf -------------------------------
(***************************************************************************)
(* One worker of the XSKNF library (src/src/xsknf.c): worker_loop and the   *)
(* two pairs process_batch/complete_tx (several interfaces) and             *)
(* process_batch_1if/complete_tx_1if (one interface), running against the   *)
(* kernel side of the AF_XDP rings of its sockets.                          *)
(*                                                                          *)
(* Every worker has sockets and a UMEM of its own, so one worker is the     *)
(* whole of the concurrency: worker against kernel.  A frame is a UMEM      *)
(* chunk, named by its number.  Rings and the batch-local arrays of the     *)
(* code are sequences of frames, held in one function, `ring', so that      *)
(* "where is this frame" can be asked uniformly.                            *)
(***************************************************************************)
EXTENDS Integers, Sequences, FiniteSets

CONSTANTS
    NumInterfaces,    \* conf.num_interfaces
    FramesPerSocket,  \* FRAMES_PER_SOCKET
    FillSize,         \* entries of a fill ring
    RingSize,         \* entries of an rx, a tx and a completion ring
    BatchSize,        \* conf.batch_size
    CounterMod,       \* 2^8 in the code: ndrop, ntx and nfill are uint8_t
    Poll              \* conf.poll

ASSUME ConfAssumption ==
    /\ NumInterfaces \in Nat \ {0}
    /\ FramesPerSocket \in Nat \ {0}
    /\ FillSize \in Nat /\ FramesPerSocket <= FillSize
    /\ RingSize \in Nat \ {0}
    /\ BatchSize \in Nat \ {0}
    /\ CounterMod \in Nat \ {0}
    /\ Poll \in BOOLEAN

VARIABLES
    ring,            \* the frames in every ring and batch array
    count,           \* ndrop, ntx[] and nfill[]: the uint8_t array counters
    outstanding_tx,  \* per socket: frames given to tx and not recycled yet
    peeked,          \* descriptors of the last peek (rcvd, sent)
    ifindex,         \* interface whose batch is being processed
    i,               \* loop index over the interfaces
    caller,          \* where complete_tx returns to
    pc,
    stop_workers

vars == <<ring, count, outstanding_tx, peeked, ifindex, i, caller, pc,
          stop_workers>>

Interfaces == 0 .. NumInterfaces - 1
Frames == 0 .. NumInterfaces * FramesPerSocket - 1

\* Frame addresses are |owner-id|frame-id|offset|, so addr >> owner_shift
\* divides the frame number by FRAMES_PER_SOCKET.
owner(f) == f \div FramesPerSocket

\* Rings shared with the kernel, and the arrays local to one batch: the two
\* peeked windows and the arrays the uint8_t counters index.
Rings == {"fq", "rx", "tx", "cq"}
Windows == {"rx_batch", "cq_batch"}
Arrays == {"to_drop", "to_tx", "to_fill"}
Places == (Rings \cup Windows \cup Arrays) \X Interfaces
Counters == Arrays \X Interfaces

Min2(a, b) == IF a < b THEN a ELSE b

-----------------------------------------------------------------------------
(* Operations on the rings *)

\* xsk_ring_cons__peek: a nonempty prefix of at most `max' entries.  It may
\* be shorter than what is there, since cached_prod is refreshed only when
\* the cached window is used up.
Peek(src, dst, max) ==
    \E n \in 1 .. Min2(max, Len(ring[src])) :
        /\ ring' = [ring EXCEPT ![src] = SubSeq(@, n + 1, Len(@)),
                                ![dst] = SubSeq(ring[src], 1, n)]
        /\ peeked' = n

\* array[counter++] = frame, for the frame at the head of a peeked window.
\* Once the counter has wrapped, an earlier entry is overwritten.
Store(window, array) ==
    LET f == Head(ring[window])
        n == count[array]
    IN  /\ ring' = [ring EXCEPT
                      ![window] = Tail(@),
                      ![array]  = IF n < Len(@) THEN [@ EXCEPT ![n + 1] = f]
                                                ELSE Append(@, f)]
        /\ count' = [count EXCEPT ![array] = (n + 1) % CounterMod]

\* Faulty variant: one entry too many.
CanReserveOffByOne(q, size, n) == Len(ring[q]) + n <= size + 1

\* Faulty variant: the last free entry is never given out.
CanReserveStrict(q, size, n) == Len(ring[q]) + n < size

\* xsk_ring_prod__reserve succeeds only if all the entries are free.
CanReserve(q, size, n) == Len(ring[q]) + n <= size

\* Faulty variant: the copying loop stops one entry early.
SubmitOffByOne(array, q) ==
    /\ ring' = [ring EXCEPT ![array] = <<>>,
                            ![q] = @ \o SubSeq(ring[array], 1, count[array] - 1)]
    /\ count' = [count EXCEPT ![array] = 0]

\* Copy the counted entries of an array into the reserved ring entries and
\* submit them.  Array and counter are dead afterwards: the next call starts
\* with a counter of 0.
Submit(array, q) ==
    /\ ring' = [ring EXCEPT ![array] = <<>>,
                            ![q] = @ \o SubSeq(ring[array], 1, count[array])]
    /\ count' = [count EXCEPT ![array] = 0]

-----------------------------------------------------------------------------
(* Kernel side of the rings.  Entries peeked by the worker stay occupied    *)
(* until it releases them.                                                  *)

Held(kind, j) ==
    IF /\ ifindex = j
       /\ <<kind, pc>> \in {<<"cq", "map">>, <<"rx", "process">>}
    THEN peeked ELSE 0

\* A packet arrives on j: it is written to the next frame of the fill ring.
KernelRx(j) ==
    /\ ring[<<"fq", j>>] # <<>>
    /\ Len(ring[<<"rx", j>>]) + Held("rx", j) < RingSize
    /\ ring' = [ring EXCEPT ![<<"fq", j>>] = Tail(@),
                            ![<<"rx", j>>] = Append(@, Head(ring[<<"fq", j>>]))]
    /\ UNCHANGED <<count, outstanding_tx, peeked, ifindex, i, caller, pc,
                   stop_workers>>

\* A frame is sent on j.  The kernel takes a tx descriptor only if it has
\* room to report the completion.
KernelTx(j) ==
    /\ ring[<<"tx", j>>] # <<>>
    /\ Len(ring[<<"cq", j>>]) + Held("cq", j) < RingSize
    /\ ring' = [ring EXCEPT ![<<"tx", j>>] = Tail(@),
                            ![<<"cq", j>>] = Append(@, Head(ring[<<"tx", j>>]))]
    /\ UNCHANGED <<count, outstanding_tx, peeked, ifindex, i, caller, pc,
                   stop_workers>>

-----------------------------------------------------------------------------
(* Control flow of the worker *)

\* exit_with_error: xsknf_cleanup stops the workers, and the process ends.
ExitWithError(reason) ==
    /\ pc' = reason
    /\ stop_workers' = TRUE
    /\ UNCHANGED <<ring, count, outstanding_tx, peeked, ifindex, i, caller>>

\* Leave process_batch: the next interface, or the top of worker_loop.
NextInterface ==
    /\ i' = 0
    /\ caller' = "peek"
    /\ IF ifindex + 1 < NumInterfaces
       THEN ifindex' = ifindex + 1 /\ pc' = "complete"
       ELSE ifindex' = 0 /\ pc' = "loop"

\* Faulty variant: stop_workers is not looked at.
WorkerLoopForever ==
    /\ pc = "loop"
    /\ Poll => \E j \in Interfaces : ring[<<"rx", j>>] # <<>>
    /\ pc' = "complete"
    /\ UNCHANGED <<ring, count, outstanding_tx, peeked, ifindex, i, caller,
                   stop_workers>>

\* while (!stop_workers) { if (conf.poll) ... poll(); ... }
\* A poll that times out goes back to the top and changes nothing.
worker_loop ==
    /\ pc = "loop"
    /\ IF stop_workers
       THEN pc' = "stopped"
       ELSE /\ Poll => \E j \in Interfaces : ring[<<"rx", j>>] # <<>>
            /\ pc' = "complete"
    /\ UNCHANGED <<ring, count, outstanding_tx, peeked, ifindex, i, caller,
                   stop_workers>>

xsknf_stop_workers ==
    /\ ~stop_workers
    /\ stop_workers' = TRUE
    /\ UNCHANGED <<ring, count, outstanding_tx, peeked, ifindex, i, caller, pc>>
-----------------------------------------------------------------------------
(* complete_tx(xsks, ifindex): recycle the frames whose transmission on     *)
(* ifindex is complete into the fill rings of their owners.                 *)

Ndescs == Min2(outstanding_tx[ifindex], BatchSize)

\* The sendto that triggers transmission fails with an error other than the
\* five kick_tx ignores.  complete_tx kicks ifindex if something is
\* outstanding on it, the retry loop kicks the target after complete_tx.
kick_tx ==
    /\ pc = "complete"
    /\ outstanding_tx[ifindex] # 0 \/ caller = "tx"
    /\ ExitWithError("kick_failed")

\* Faulty variant: wait until a whole batch is outstanding.
CompleteOnlyBatches ==
    /\ pc = "complete"
    /\ outstanding_tx[ifindex] < BatchSize \/ ring[<<"cq", ifindex>>] = <<>>
    /\ pc' = caller
    /\ UNCHANGED <<ring, count, outstanding_tx, peeked, ifindex, i, caller,
                   stop_workers>>

\* Nothing outstanding, or nothing completed yet.
CompleteNothing ==
    /\ pc = "complete"
    /\ outstanding_tx[ifindex] = 0 \/ ring[<<"cq", ifindex>>] = <<>>
    /\ pc' = caller
    /\ UNCHANGED <<ring, count, outstanding_tx, peeked, ifindex, i, caller,
                   stop_workers>>

CompletePeek ==
    /\ pc = "complete"
    /\ outstanding_tx[ifindex] # 0
    /\ Peek(<<"cq", ifindex>>, <<"cq_batch", ifindex>>, Ndescs)
    /\ pc' = "map"
    /\ UNCHANGED <<count, outstanding_tx, ifindex, i, caller, stop_workers>>

\* Faulty variant: frames go to the interface that sent them.
MapSender ==
    LET window == <<"cq_batch", ifindex>>
    IN  /\ pc = "map"
        /\ Store(window, <<"to_fill", ifindex>>)
        /\ pc' = IF Len(ring[window]) = 1 THEN "fill" ELSE "map"
        /\ UNCHANGED <<outstanding_tx, peeked, ifindex, i, caller, stop_workers>>

\* One iteration of "Map every frame to its owner"; the last one releases
\* the peeked completion entries.
MapOwner ==
    LET window == <<"cq_batch", ifindex>>
    IN  /\ pc = "map"
        /\ Store(window, <<"to_fill", owner(Head(ring[window]))>>)
        /\ pc' = IF Len(ring[window]) = 1 THEN "fill" ELSE "map"
        /\ UNCHANGED <<outstanding_tx, peeked, ifindex, i, caller, stop_workers>>

\* One iteration of "Put frames in their owner's fill queue": the first
\* interface whose frames are still to be put back.
FillOwner(j) ==
    /\ pc = "fill"
    /\ ring[<<"to_fill", j>>] # <<>>
    /\ \A k \in Interfaces : k < j => ring[<<"to_fill", k>>] = <<>>
    /\ IF CanReserve(<<"fq", j>>, FillSize, count[<<"to_fill", j>>])
       THEN /\ Submit(<<"to_fill", j>>, <<"fq", j>>)
            /\ UNCHANGED <<outstanding_tx, peeked, ifindex, i, caller, pc,
                           stop_workers>>
       ELSE ExitWithError("fq_full")

\* Faulty variant: the subtraction is missing.
CompleteReturnNoSubtract ==
    /\ pc = "fill"
    /\ \A j \in Interfaces : ring[<<"to_fill", j>>] = <<>>
    /\ pc' = caller
    /\ UNCHANGED <<ring, count, outstanding_tx, peeked, ifindex, i, caller,
                   stop_workers>>

\* outstanding_tx -= sent, and return.
CompleteReturn ==
    /\ pc = "fill"
    /\ \A j \in Interfaces : ring[<<"to_fill", j>>] = <<>>
    /\ outstanding_tx' = [outstanding_tx EXCEPT ![ifindex] = @ - peeked]
    /\ pc' = caller
    /\ UNCHANGED <<ring, count, peeked, ifindex, i, caller, stop_workers>>

complete_tx ==
    \/ kick_tx
    \/ CompleteNothing
    \/ CompletePeek
    \/ MapOwner
    \/ \E j \in Interfaces : FillOwner(j)
    \/ CompleteReturn

\* Faulty variant: the completion entries are neither released nor subtracted.
CompleteNoRelease1if ==
    \/ kick_tx
    \/ CompleteNothing
    \/ /\ pc = "complete"
       /\ outstanding_tx[0] # 0
       /\ \E n \in 1 .. Min2(Ndescs, Len(ring[<<"cq", 0>>])) :
            IF CanReserve(<<"fq", 0>>, FillSize, n)
            THEN /\ ring' = [ring EXCEPT
                       ![<<"fq", 0>>] = @ \o SubSeq(ring[<<"cq", 0>>], 1, n)]
                 /\ pc' = caller
                 /\ UNCHANGED <<count, outstanding_tx, peeked, ifindex, i, caller, stop_workers>>
            ELSE ExitWithError("fq_full")

\* complete_tx_1if: the same with one interface.  All frames have the same
\* owner, so they go straight from the completion to the fill ring, and no
\* uint8_t counter is involved.
complete_tx_1if ==
    \/ kick_tx
    \/ CompleteNothing
    \/ /\ pc = "complete"
       /\ outstanding_tx[0] # 0
       /\ \E n \in 1 .. Min2(Ndescs, Len(ring[<<"cq", 0>>])) :
            IF CanReserve(<<"fq", 0>>, FillSize, n)
            THEN /\ ring' = [ring EXCEPT
                       ![<<"cq", 0>>] = SubSeq(@, n + 1, Len(@)),
                       ![<<"fq", 0>>] = @ \o SubSeq(ring[<<"cq", 0>>], 1, n)]
                 /\ outstanding_tx' = [outstanding_tx EXCEPT ![0] = @ - n]
                 /\ pc' = caller
                 /\ UNCHANGED <<count, peeked, ifindex, i, caller, stop_workers>>
            ELSE ExitWithError("fq_full")

-----------------------------------------------------------------------------
(* process_batch(xsks, ifindex), after its call of complete_tx *)

PeekRx ==
    /\ pc = "peek"
    /\ IF ring[<<"rx", ifindex>>] = <<>>
       THEN NextInterface /\ UNCHANGED <<ring, peeked>>
       ELSE /\ Peek(<<"rx", ifindex>>, <<"rx_batch", ifindex>>, BatchSize)
            /\ pc' = "process"
            /\ UNCHANGED <<ifindex, i, caller>>
    /\ UNCHANGED <<count, outstanding_tx, stop_workers>>

\* One packet of the batch: xsknf_packet_processor, which the application
\* defines, returns an interface or -1.  The last iteration releases the
\* peeked rx entries.
ProcessPacket ==
    LET window == <<"rx_batch", ifindex>>
    IN  /\ pc = "process"
        /\ \E ret \in {-1} \cup Interfaces :
              Store(window, IF ret = -1 THEN <<"to_drop", ifindex>>
                                        ELSE <<"to_tx", ret>>)
        /\ pc' = IF Len(ring[window]) = 1 THEN "drop" ELSE "process"
        /\ UNCHANGED <<outstanding_tx, peeked, ifindex, i, caller, stop_workers>>

\* Frames of dropped packets go back to the fill ring of the receiving
\* interface.
DropFrames ==
    LET array == <<"to_drop", ifindex>>
    IN  /\ pc = "drop"
        /\ IF CanReserve(<<"fq", ifindex>>, FillSize, count[array])
           THEN /\ Submit(array, <<"fq", ifindex>>)
                /\ pc' = "tx"
                /\ i' = 0
                /\ caller' = "tx"
                /\ UNCHANGED <<outstanding_tx, peeked, ifindex, stop_workers>>
           ELSE ExitWithError("fq_full")

\* Faulty variant: outstanding_tx counts batches instead of frames.
SubmitTxCountsBatches ==
    LET array == <<"to_tx", i>>
    IN  /\ pc = "tx"
        /\ CanReserve(<<"tx", i>>, RingSize, count[array])
        /\ Submit(array, <<"tx", i>>)
        /\ outstanding_tx' = [outstanding_tx EXCEPT ![i] = @ + 1]
        /\ IF i + 1 < NumInterfaces
           THEN i' = i + 1 /\ UNCHANGED <<ifindex, caller, pc>>
           ELSE NextInterface
        /\ UNCHANGED <<peeked, stop_workers>>

\* Frames of redirected packets go to the tx ring of the target interface i.
SubmitTx ==
    LET array == <<"to_tx", i>>
    IN  /\ pc = "tx"
        /\ CanReserve(<<"tx", i>>, RingSize, count[array])
        /\ Submit(array, <<"tx", i>>)
        /\ outstanding_tx' = [outstanding_tx EXCEPT ![i] = @ + count[array]]
        /\ IF i + 1 < NumInterfaces
           THEN i' = i + 1 /\ UNCHANGED <<ifindex, caller, pc>>
           ELSE NextInterface
        /\ UNCHANGED <<peeked, stop_workers>>

\* The retry loop of a full tx ring calls complete_tx(xsks, ifindex), which
\* looks at the completions of the receiving interface, and tries again.
RetryTx ==
    /\ pc = "tx"
    /\ ~ CanReserve(<<"tx", i>>, RingSize, count[<<"to_tx", i>>])
    /\ pc' = "complete"
    /\ UNCHANGED <<ring, count, outstanding_tx, peeked, ifindex, i, caller,
                   stop_workers>>

process_batch ==
    \/ complete_tx
    \/ PeekRx \/ ProcessPacket \/ DropFrames \/ SubmitTx \/ RetryTx

process_batch_1if ==
    \/ complete_tx_1if
    \/ PeekRx \/ ProcessPacket \/ DropFrames \/ SubmitTx \/ RetryTx

-----------------------------------------------------------------------------
(* xsknf_init/xsk_configure_socket: socket j starts with the frames it owns *)
(* in its fill ring.                                                        *)

Init ==
    /\ ring = [p \in Places |->
                 IF p[1] = "fq"
                 THEN [k \in 1 .. FramesPerSocket |->
                         p[2] * FramesPerSocket + k - 1]
                 ELSE <<>>]
    /\ count = [c \in Counters |-> 0]
    /\ outstanding_tx = [j \in Interfaces |-> 0]
    /\ peeked = 0
    /\ ifindex = 0
    /\ i = 0
    /\ caller = "peek"
    /\ pc = "loop"
    /\ stop_workers = FALSE

Worker ==
    \/ worker_loop
    \/ NumInterfaces > 1 /\ process_batch
    \/ NumInterfaces = 1 /\ process_batch_1if

Kernel == \E j \in Interfaces : KernelRx(j) \/ KernelTx(j)

Next == Worker \/ Kernel \/ xsknf_stop_workers

Spec == Init /\ [][Next]_vars

\* The worker is a thread pinned to a CPU of its own, and the kernel keeps
\* sending on an interface as long as it has descriptors and room for the
\* completions.  Nothing makes packets arrive or the user stop the program.
FairSpec ==
    /\ Spec
    /\ WF_vars(Worker)
    /\ \A j \in Interfaces : WF_vars(KernelTx(j))

-----------------------------------------------------------------------------
(* Properties *)

Capacity(p) ==
    CASE p[1] = "fq" -> FillSize
      [] p[1] \in {"rx", "tx", "cq"} -> RingSize
      [] OTHER -> BatchSize

\* Types, and the rings and arrays of xsknf.c never hold more entries than
\* they have: a ring has its configured size, an array batch_size entries.
TypeOK ==
    /\ ring \in [Places -> Seq(Frames)]
    /\ \A p \in Places : Len(ring[p]) <= Capacity(p)
    /\ count \in [Counters -> 0 .. CounterMod - 1]
    /\ outstanding_tx \in [Interfaces -> Nat]
    /\ peeked \in 0 .. BatchSize
    /\ ifindex \in Interfaces
    /\ i \in Interfaces
    /\ caller \in {"peek", "tx"}
    /\ pc \in {"loop", "complete", "map", "fill", "peek", "process", "drop",
               "tx", "stopped", "fq_full", "kick_failed"}
    /\ stop_workers \in BOOLEAN

\* No UMEM frame is ever leaked or given away twice: at every moment each
\* frame is in exactly one entry of exactly one ring or batch array, however
\* complete_tx, process_batch and the kernel interleave.
FrameInOnePlace ==
    \A f \in Frames :
        \E p \in Places : \E k \in 1 .. Len(ring[p]) :
            /\ ring[p][k] = f
            /\ \A q \in Places : \A m \in 1 .. Len(ring[q]) :
                  ring[q][m] = f => q = p /\ m = k

\* complete_tx and the drop path of process_batch return a frame only to the
\* fill ring of the socket that owns it, also when it was sent on another
\* interface: what j receives is always in frames of j.
FramesReturnToOwner ==
    \A j \in Interfaces : \A kind \in {"fq", "rx", "rx_batch", "to_drop", "to_fill"} :
        \A k \in 1 .. Len(ring[<<kind, j>>]) : owner(ring[<<kind, j>>][k]) = j

\* The reservations in a fill ring that the code comments with "should never
\* happen" never fail: no worker ends in exit_with_error because of them.
FillReserveNeverFails == pc # "fq_full"

\* outstanding_tx of a socket is the number of frames the kernel still has of
\* it (tx and completion ring) plus the completions complete_tx has peeked
\* and not accounted for yet, so complete_tx never gives up too early and the
\* unsigned counter never goes below zero.
OutstandingExact ==
    \A j \in Interfaces :
        outstanding_tx[j] =
            Len(ring[<<"tx", j>>]) + Len(ring[<<"cq", j>>])
            + (IF ifindex = j /\ pc \in {"map", "fill"} THEN peeked ELSE 0)

\* "Put frames of redirected packets in the tx queue of the target
\* interface": the loop of process_batch that does so comes to an end.
RedirectedFramesAreQueued == (caller = "tx") ~> (caller # "tx" \/ stop_workers)

\* xsknf_stop_workers, which joins the workers, comes back: a worker told to
\* stop leaves worker_loop.
StopTakesEffect == stop_workers ~> pc \in {"stopped", "fq_full", "kick_failed"}

\* A frame whose transmission is complete goes back to its owner, so that
\* the owner can receive with it again.
CompletedFramesRecycled ==
    \A f \in Frames :
        (\E j \in Interfaces : \E k \in 1 .. Len(ring[<<"cq", j>>]) :
            ring[<<"cq", j>>][k] = f)
        ~> (stop_workers \/ \E k \in 1 .. Len(ring[<<"fq", owner(f)>>]) :
                                ring[<<"fq", owner(f)>>][k] = f)

=============================================================================
