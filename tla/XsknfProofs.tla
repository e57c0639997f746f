---------------------------- MODULE XsknfProofs ----------------------------
(***************************************************************************)
(* Proofs of the safety properties of Xsknf for every number of interfaces, *)
(* ring size, frame count and batch size, provided a batch is smaller than  *)
(* the range of the uint8_t counters.  One lemma per action shows that the  *)
(* action keeps IInv, the inductive invariant of XsknfMoves.                *)
(***************************************************************************)
EXTENDS XsknfMoves

-----------------------------------------------------------------------------
(* The steps of the kernel *)

\* The kernel moves frames between the shared rings only.
LEMMA KernelRest ==
    ASSUME IInv,
           UNCHANGED <<count, outstanding_tx, peeked, ifindex, i, caller, pc,
                       stop_workers>>,
           \A kind \in {"rx_batch", "cq_batch", "to_drop", "to_tx", "to_fill"} :
              \A k \in Interfaces : Size(kind, k)' = Size(kind, k)
    PROVE  /\ ControlTypes' /\ CountsExact' /\ BatchFits' /\ Phases'
           /\ FillReserveNeverFails'
<1>1. ControlTypes'
  BY DEF IInv, ControlTypes
<1>2. CountsExact' /\ BatchFits'
  BY DEF IInv, CountsExact, BatchFits
<1>3. Phases'
  <2>1. ifindex \in Interfaces /\ Phases
    BY StateFacts DEF IInv
  <2>2. ASSUME NEW k \in Interfaces PROVE IdleArrays(k)'
    BY <2>1 DEF Phases, IdleArrays
  <2> QED BY <2>1, <2>2 DEF Phases
<1>4. FillReserveNeverFails'
  BY DEF IInv, FillReserveNeverFails
<1> QED BY <1>1, <1>2, <1>3, <1>4

\* The driver's step that fills a frame of the fill ring with a received packet
\* keeps the invariant.
LEMMA KernelRxInv ==
    ASSUME IInv, NEW j \in Interfaces, KernelRx(j)
    PROVE  IInv'
<1>0. /\ "fq" \in Kinds /\ "rx" \in Kinds /\ <<"fq", j>> # <<"rx", j>>
      /\ <<"fq", j>> \in Places /\ <<"rx", j>> \in Places
  BY PlaceFacts DEF Kinds
<1>1. 1 \in 0 .. Size("fq", j) /\ Len(ring[<<"fq", j>>]) > 0
  BY <1>0, StateFacts DEF KernelRx, Size
<1>2. Moved(ring, ring', <<"fq", j>>, <<"rx", j>>, 1)
  BY <1>0, <1>1, MoveHead, StateFacts DEF KernelRx
<1>3. Size("rx", j) + 1 <= Capacity(<<"rx", j>>)
  <2>1. Held("rx", j) \in Nat
    BY StateFacts DEF Held
  <2> QED BY <2>1, <1>0, StateFacts, ConfAssumption DEF KernelRx, Capacity, Size
<1>4. \A k \in 1 .. 1 : owner(ring[<<"fq", j>>][k]) = j
  BY <1>1, OwnFrames
<1>5. /\ PlacesInv'
      /\ \A kind \in Kinds \ {"fq", "rx"} : \A k \in Interfaces :
            Size(kind, k)' = Size(kind, k)
  BY <1>0, <1>1, <1>2, <1>3, <1>4, MoveSizes
<1>6. UNCHANGED <<count, outstanding_tx, peeked, ifindex, i, caller, pc,
                  stop_workers>>
  BY DEF KernelRx
<1>7. /\ ControlTypes' /\ CountsExact' /\ BatchFits' /\ Phases'
      /\ FillReserveNeverFails'
  BY <1>5, <1>6, KernelRest DEF Kinds
<1>8. OutstandingExact'
  BY <1>5, <1>6 DEF IInv, OutstandingExact, Kinds, Size
<1> QED BY <1>5, <1>7, <1>8 DEF IInv

\* The driver's step that sends a frame and reports it on the completion ring
\* keeps the invariant.
LEMMA KernelTxInv ==
    ASSUME IInv, NEW j \in Interfaces, KernelTx(j)
    PROVE  IInv'
<1>0. /\ "tx" \in Kinds /\ "cq" \in Kinds /\ <<"tx", j>> # <<"cq", j>>
      /\ <<"tx", j>> \in Places /\ <<"cq", j>> \in Places
  BY PlaceFacts DEF Kinds
<1>1. 1 \in 0 .. Size("tx", j) /\ Len(ring[<<"tx", j>>]) > 0
  BY <1>0, StateFacts DEF KernelTx, Size
<1>2. Moved(ring, ring', <<"tx", j>>, <<"cq", j>>, 1)
  BY <1>0, <1>1, MoveHead, StateFacts DEF KernelTx
<1>3. Size("cq", j) + 1 <= Capacity(<<"cq", j>>)
  <2>1. Held("cq", j) \in Nat
    BY StateFacts DEF Held
  <2> QED BY <2>1, <1>0, StateFacts, ConfAssumption DEF KernelTx, Capacity, Size
<1>5. /\ PlacesInv'
      /\ \A kind \in Kinds : \A k \in Interfaces :
            /\ Size(kind, k) \in Nat
            /\ kind \notin {"tx", "cq"} \/ k # j => Size(kind, k)' = Size(kind, k)
      /\ Size("tx", j)' = Size("tx", j) - 1
      /\ Size("cq", j)' = Size("cq", j) + 1
  BY <1>0, <1>1, <1>2, <1>3, MoveSizes
<1>6. UNCHANGED <<count, outstanding_tx, peeked, ifindex, i, caller, pc,
                  stop_workers>>
  BY DEF KernelTx
<1>7. /\ ControlTypes' /\ CountsExact' /\ BatchFits' /\ Phases'
      /\ FillReserveNeverFails'
  BY <1>5, <1>6, KernelRest DEF Kinds
<1>8. OutstandingExact'
  <2> SUFFICES ASSUME NEW k \in Interfaces
               PROVE  outstanding_tx[k] = Size("tx", k)' + Size("cq", k)'
                        + (IF ifindex = k /\ pc \in {"map", "fill"} THEN peeked ELSE 0)
    BY <1>6 DEF OutstandingExact, Size
  <2>1. outstanding_tx[k] = Size("tx", k) + Size("cq", k)
                        + (IF ifindex = k /\ pc \in {"map", "fill"} THEN peeked ELSE 0)
    BY DEF IInv, OutstandingExact, Size
  <2>2. CASE k = j
    BY <1>0, <1>5, <2>1, <2>2, StateFacts
  <2>3. CASE k # j
    BY <1>0, <1>5, <2>1, <2>3
  <2> QED BY <2>2, <2>3
<1> QED BY <1>5, <1>7, <1>8 DEF IInv

-----------------------------------------------------------------------------
(* Steps that only change the point of control *)

\* A step that moves no frame and writes no counter keeps the invariant if the
\* control variables it leaves do.
LEMMA ControlOnly ==
    ASSUME IInv, UNCHANGED <<ring, count, outstanding_tx, peeked>>,
           pc \notin {"map", "fill"}, pc' \notin {"map", "fill", "fq_full"},
           ControlTypes', Phases'
    PROVE  IInv'
<1>1. /\ PlacesInv'
      /\ \A kind \in Kinds : \A j \in Interfaces : Size(kind, j)' = Size(kind, j)
  BY StayPut
<1>2. CountsExact' /\ BatchFits'
  BY <1>1 DEF IInv, CountsExact, BatchFits, Kinds
<1>3. OutstandingExact'
  BY DEF IInv, OutstandingExact
<1>4. FillReserveNeverFails'
  BY DEF FillReserveNeverFails
<1> QED BY <1>1, <1>2, <1>3, <1>4 DEF IInv

\* A turn of worker_loop's while keeps the invariant: all arrays are empty there.
LEMMA WorkerLoopInv ==
    ASSUME IInv, worker_loop
    PROVE  IInv'
<1>1. \A kind \in Kinds : \A j \in Interfaces : Size(kind, j)' = Size(kind, j)
  BY StayPut DEF worker_loop
<1>2. ControlTypes'
  BY DEF IInv, ControlTypes, worker_loop
<1>3. Phases'
  <2>1. ASSUME NEW j \in Interfaces PROVE IdleArrays(j)'
    BY <1>1 DEF IInv, Phases, IdleArrays, Kinds, worker_loop
  <2> QED BY <2>1 DEF IInv, Phases, worker_loop
<1> QED BY <1>2, <1>3, ControlOnly DEF worker_loop

\* Setting stop_workers touches nothing the invariant speaks of.
LEMMA StopWorkersInv ==
    ASSUME IInv, xsknf_stop_workers
    PROVE  IInv'
<1>1. /\ PlacesInv'
      /\ \A kind \in Kinds : \A j \in Interfaces : Size(kind, j)' = Size(kind, j)
  BY StayPut DEF xsknf_stop_workers
<1>2. ControlTypes'
  BY DEF IInv, ControlTypes, xsknf_stop_workers
<1>3. Phases'
  <2>0. ifindex \in Interfaces
    BY StateFacts
  <2>1. ASSUME NEW j \in Interfaces PROVE IdleArrays(j)'
    BY <1>1 DEF IInv, Phases, IdleArrays, Kinds, xsknf_stop_workers
  <2> QED BY <1>1, <2>0, <2>1 DEF IInv, Phases, Kinds, xsknf_stop_workers
<1>4. CountsExact' /\ BatchFits'
  BY <1>1 DEF IInv, CountsExact, BatchFits, Kinds, xsknf_stop_workers
<1>5. OutstandingExact' /\ FillReserveNeverFails'
  BY DEF IInv, OutstandingExact, FillReserveNeverFails, xsknf_stop_workers
<1> QED BY <1>1, <1>2, <1>3, <1>4, <1>5 DEF IInv

\* complete_tx keeps the invariant when it has nothing to complete, and when the
\* kick fails.
LEMMA CompleteNothingInv ==
    ASSUME IInv, CompleteNothing \/ kick_tx
    PROVE  IInv'
<1>0. /\ pc = "complete" /\ pc' \in {caller, "kick_failed"}
      /\ UNCHANGED <<ring, count, outstanding_tx, peeked, ifindex, i, caller>>
      /\ stop_workers' \in BOOLEAN /\ caller \in {"peek", "tx"}
  BY DEF CompleteNothing, kick_tx, ExitWithError, IInv, ControlTypes
<1>1. \A kind \in Kinds : \A j \in Interfaces : Size(kind, j)' = Size(kind, j)
  BY <1>0, StayPut
<1>2. ControlTypes'
  BY <1>0 DEF IInv, ControlTypes
<1>3. Phases'
  <2>1. ASSUME NEW j \in Interfaces PROVE IdleArrays(j)'
    BY <1>0, <1>1 DEF IInv, Phases, IdleArrays, Kinds
  <2> QED BY <1>0, <2>1 DEF Phases
<1> QED BY <1>0, <1>2, <1>3, ControlOnly

\* A failed reservation on the transmit ring keeps the invariant: the frames wait
\* in to_tx.
LEMMA RetryTxInv ==
    ASSUME IInv, RetryTx
    PROVE  IInv'
<1>1. \A kind \in Kinds : \A j \in Interfaces : Size(kind, j)' = Size(kind, j)
  BY StayPut DEF RetryTx
<1>2. ControlTypes'
  BY DEF IInv, ControlTypes, RetryTx
<1>3. Phases'
  <2>1. ASSUME NEW j \in Interfaces PROVE IdleArrays(j)'
    BY <1>1 DEF IInv, Phases, IdleArrays, Kinds, RetryTx
  <2> QED BY <2>1 DEF Phases, RetryTx
<1> QED BY <1>2, <1>3, ControlOnly DEF RetryTx

\* Leaving process_batch with nothing left in its arrays.
LEMMA NextInterfaceFacts ==
    ASSUME ifindex \in Interfaces, NextInterface
    PROVE  /\ ifindex' \in Interfaces /\ i' = 0 /\ i' \in Interfaces
           /\ caller' = "peek" /\ pc' \in {"complete", "loop"}
BY ConfAssumption DEF NextInterface, Interfaces

\* An empty receive ring sends the worker to the next interface, invariant kept.
LEMMA PeekRxNothingInv ==
    ASSUME IInv, PeekRx, ring[<<"rx", ifindex>>] = <<>>
    PROVE  IInv'
<1>0. /\ pc = "peek" /\ caller = "peek"
      /\ UNCHANGED <<ring, count, outstanding_tx, peeked, stop_workers>>
      /\ ifindex' \in Interfaces /\ i' = 0 /\ i' \in Interfaces
      /\ caller' = "peek" /\ pc' \in {"complete", "loop"}
  BY StateFacts, NextInterfaceFacts DEF PeekRx, IInv, Phases
<1>1. \A kind \in Kinds : \A j \in Interfaces : Size(kind, j)' = Size(kind, j)
  BY <1>0, StayPut
<1>2. ControlTypes'
  BY <1>0 DEF IInv, ControlTypes
<1>3. Phases'
  <2>1. ASSUME NEW j \in Interfaces PROVE IdleArrays(j)'
    BY <1>0, <1>1 DEF IInv, Phases, IdleArrays, Kinds
  <2> QED BY <1>0, <2>1 DEF Phases
<1> QED BY <1>0, <1>2, <1>3, ControlOnly

-----------------------------------------------------------------------------
(* Peeks *)

\* Peeking the completion ring moves frames to the completed window, invariant kept.
LEMMA CompletePeekInv ==
    ASSUME IInv, CompletePeek
    PROVE  IInv'
<1> DEFINE j == ifindex
<1>0. /\ "cq" \in Kinds /\ "cq_batch" \in Kinds /\ j \in Interfaces
      /\ <<"cq", j>> # <<"cq_batch", j>>
      /\ <<"cq", j>> \in Places /\ <<"cq_batch", j>> \in Places
      /\ pc = "complete" /\ pc' = "map" /\ j' = j
      /\ UNCHANGED <<count, outstanding_tx, i, caller, stop_workers>>
  BY PlaceFacts, StateFacts DEF Kinds, CompletePeek
<1>1. \A k \in Interfaces :
          /\ Size("cq_batch", k) = 0 /\ Size("to_fill", k) = 0
          /\ Size("rx_batch", k) = 0 /\ Size("to_drop", k) = 0
  BY <1>0 DEF IInv, Phases, IdleArrays
<1>2. PICK n \in 1 .. Min2(Ndescs, Size("cq", j)) :
          /\ ring' = [ring EXCEPT
                        ![<<"cq", j>>] = SubSeq(@, n + 1, Len(@)),
                        ![<<"cq_batch", j>>] = SubSeq(ring[<<"cq", j>>], 1, n)]
          /\ peeked' = n
  BY DEF CompletePeek, Peek, Size
<1>3. n \in 0 .. Size("cq", j) /\ n \in 1 .. BatchSize
  <2>1. Ndescs \in Nat /\ Ndescs <= BatchSize
    BY <1>0, ConfAssumption DEF Ndescs, Min2, IInv, ControlTypes
  <2>2. Size("cq", j) \in Nat
    BY <1>0, StateFacts
  <2> QED BY <2>1, <2>2, ConfAssumption DEF Min2
<1>4. Moved(ring, ring', <<"cq", j>>, <<"cq_batch", j>>, n)
  BY <1>0, <1>1, <1>2, <1>3, MoveToEmpty, StateFacts DEF Size
<1>5. Size("cq_batch", j) + n <= Capacity(<<"cq_batch", j>>)
  BY <1>0, <1>1, <1>3, ConfAssumption DEF Capacity
<1>6. /\ PlacesInv'
      /\ \A kind \in Kinds : \A k \in Interfaces :
            /\ Size(kind, k) \in Nat
            /\ kind \notin {"cq", "cq_batch"} \/ k # j
                  => Size(kind, k)' = Size(kind, k)
      /\ Size("cq", j)' = Size("cq", j) - n
      /\ Size("cq_batch", j)' = Size("cq_batch", j) + n
  BY <1>0, <1>3, <1>4, <1>5, MoveSizes
<1> HIDE DEF j
<1>7. ControlTypes'
  BY <1>0, <1>2, <1>3, ConfAssumption DEF IInv, ControlTypes, j
<1>8. CountsExact'
  BY <1>0, <1>6 DEF IInv, CountsExact, Kinds
<1>9. BatchFits'
  <2> SUFFICES ASSUME NEW k \in Interfaces, NEW m \in Interfaces
               PROVE  /\ Size("to_fill", k)' + Size("cq_batch", m)' <= BatchSize
                      /\ Size("to_tx", k)' + Size("rx_batch", m)' <= BatchSize
                      /\ Size("to_drop", k)' + Size("rx_batch", m)' <= BatchSize
    BY DEF BatchFits
  <2>1. /\ Size("to_fill", k)' = 0
        /\ Size("cq_batch", m)' = IF m = j THEN n ELSE 0
        /\ Size("to_tx", k)' = Size("to_tx", k)
        /\ Size("rx_batch", m)' = Size("rx_batch", m)
        /\ Size("to_drop", k)' = Size("to_drop", k)
    BY <1>0, <1>1, <1>3, <1>6 DEF Kinds
  <2> QED BY <2>1, <1>3, ConfAssumption DEF IInv, BatchFits
<1>10. Phases'
  <2>1. ASSUME NEW k \in Interfaces PROVE IdleArrays(k)'
    BY <1>0, <1>1, <1>6 DEF IInv, Phases, IdleArrays, Kinds, j
  <2>2. Size("cq_batch", j)' > 0
    BY <1>0, <1>1, <1>3, <1>6
  <2> QED BY <1>0, <2>1, <2>2 DEF IInv, Phases, j, Size
<1>11. OutstandingExact'
  <2> SUFFICES ASSUME NEW k \in Interfaces
               PROVE  outstanding_tx[k] = Size("tx", k)' + Size("cq", k)'
                        + (IF j = k THEN n ELSE 0)
    BY <1>0, <1>2 DEF OutstandingExact, Size, j
  <2>1. outstanding_tx[k] = Size("tx", k) + Size("cq", k) + 0
    BY <1>0 DEF IInv, OutstandingExact, Size
  <2>2. Size("tx", k)' = Size("tx", k) /\ Size("tx", k) \in Nat
        /\ Size("cq", k) \in Nat
    BY <1>6 DEF Kinds
  <2>3. CASE k = j
    BY <1>0, <1>3, <1>6, <2>1, <2>2, <2>3
  <2>4. CASE k # j
    BY <1>0, <1>6, <2>1, <2>2, <2>4
  <2> QED BY <2>3, <2>4
<1>12. FillReserveNeverFails'
  BY <1>0 DEF FillReserveNeverFails
<1> QED BY <1>6, <1>7, <1>8, <1>9, <1>10, <1>11, <1>12 DEF IInv

\* Peeking the receive ring moves a batch to the receive window, invariant kept.
LEMMA PeekRxInv ==
    ASSUME IInv, PeekRx, ring[<<"rx", ifindex>>] # <<>>
    PROVE  IInv'
<1> DEFINE j == ifindex
<1>0. /\ "rx" \in Kinds /\ "rx_batch" \in Kinds /\ j \in Interfaces
      /\ <<"rx", j>> # <<"rx_batch", j>>
      /\ <<"rx", j>> \in Places /\ <<"rx_batch", j>> \in Places
      /\ pc = "peek" /\ pc' = "process" /\ j' = j /\ caller = "peek"
      /\ UNCHANGED <<count, outstanding_tx, i, caller, stop_workers>>
  BY PlaceFacts, StateFacts DEF Kinds, PeekRx, IInv, Phases
<1>1. \A k \in Interfaces :
          /\ Size("cq_batch", k) = 0 /\ Size("to_fill", k) = 0
          /\ Size("rx_batch", k) = 0 /\ Size("to_drop", k) = 0
          /\ Size("to_tx", k) = 0
  BY <1>0 DEF IInv, Phases, IdleArrays
<1>2. PICK n \in 1 .. Min2(BatchSize, Size("rx", j)) :
          /\ ring' = [ring EXCEPT
                        ![<<"rx", j>>] = SubSeq(@, n + 1, Len(@)),
                        ![<<"rx_batch", j>>] = SubSeq(ring[<<"rx", j>>], 1, n)]
          /\ peeked' = n
  BY DEF PeekRx, Peek, Size
<1>3. n \in 0 .. Size("rx", j) /\ n \in 1 .. BatchSize
  BY <1>0, StateFacts, ConfAssumption DEF Min2
<1>4. Moved(ring, ring', <<"rx", j>>, <<"rx_batch", j>>, n)
  BY <1>0, <1>1, <1>2, <1>3, MoveToEmpty, StateFacts DEF Size
<1>5. /\ Size("rx_batch", j) + n <= Capacity(<<"rx_batch", j>>)
      /\ \A k \in 1 .. n : owner(ring[<<"rx", j>>][k]) = j
  <2>1. Size("rx_batch", j) + n <= Capacity(<<"rx_batch", j>>)
    BY <1>0, <1>1, <1>3, ConfAssumption DEF Capacity
  <2> QED BY <2>1, <1>0, <1>3, OwnFrames
<1>6. /\ PlacesInv'
      /\ \A kind \in Kinds : \A k \in Interfaces :
            /\ Size(kind, k) \in Nat
            /\ kind \notin {"rx", "rx_batch"} \/ k # j
                  => Size(kind, k)' = Size(kind, k)
      /\ Size("rx_batch", j)' = Size("rx_batch", j) + n
  BY <1>0, <1>3, <1>4, <1>5, MoveSizes
<1> HIDE DEF j
<1>7. ControlTypes'
  BY <1>0, <1>2, <1>3, ConfAssumption DEF IInv, ControlTypes, j
<1>8. CountsExact'
  BY <1>0, <1>6 DEF IInv, CountsExact, Kinds
<1>9. BatchFits'
  <2> SUFFICES ASSUME NEW k \in Interfaces, NEW m \in Interfaces
               PROVE  /\ Size("to_fill", k)' + Size("cq_batch", m)' <= BatchSize
                      /\ Size("to_tx", k)' + Size("rx_batch", m)' <= BatchSize
                      /\ Size("to_drop", k)' + Size("rx_batch", m)' <= BatchSize
    BY DEF BatchFits
  <2>1. /\ Size("to_fill", k)' = 0 /\ Size("cq_batch", m)' = 0
        /\ Size("rx_batch", m)' = IF m = j THEN n ELSE 0
        /\ Size("to_tx", k)' = 0 /\ Size("to_drop", k)' = 0
    BY <1>0, <1>1, <1>3, <1>6 DEF Kinds
  <2> QED BY <2>1, <1>3, ConfAssumption
<1>10. Phases'
  <2>1. ASSUME NEW k \in Interfaces PROVE IdleArrays(k)'
    BY <1>0, <1>1, <1>6 DEF IdleArrays, Kinds, j
  <2>2. Size("rx_batch", j)' > 0
    BY <1>0, <1>1, <1>3, <1>6
  <2> QED BY <1>0, <2>1, <2>2 DEF Phases, j, Size
<1>11. OutstandingExact'
  <2>1. \A k \in Interfaces : Size("tx", k)' = Size("tx", k)
                              /\ Size("cq", k)' = Size("cq", k)
    BY <1>6 DEF Kinds
  <2> QED BY <1>0, <2>1 DEF IInv, OutstandingExact, Size
<1>12. FillReserveNeverFails'
  BY <1>0 DEF FillReserveNeverFails
<1> QED BY <1>6, <1>7, <1>8, <1>9, <1>10, <1>11, <1>12 DEF IInv

-----------------------------------------------------------------------------
(* Storing the head of a window in an array *)

\* A batch is smaller than the range of the counters of its arrays.
NoWrap == BatchSize < CounterMod

\* A number below the modulus is its own remainder: a counter that cannot wrap.
LEMMA SmallMod ==
    ASSUME NEW x \in Nat, NEW m \in Nat \ {0}, x < m
    PROVE  x % m = x
OBVIOUS

\* Storing the next received frame in an array moves one frame and adds one to
\* the array's counter.
LEMMA StoreMove ==
    ASSUME IInv, NoWrap,
           NEW w \in {"cq_batch", "rx_batch"}, NEW jw \in Interfaces,
           NEW ar \in {"to_drop", "to_tx", "to_fill"}, NEW ja \in Interfaces,
           Size(w, jw) > 0, Size(ar, ja) + Size(w, jw) <= BatchSize,
           Store(<<w, jw>>, <<ar, ja>>)
    PROVE  /\ Moved(ring, ring', <<w, jw>>, <<ar, ja>>, 1)
           /\ Size(ar, ja) + 1 \in 1 .. BatchSize
           /\ count' = [count EXCEPT ![<<ar, ja>>] = Size(ar, ja) + 1]
<1> DEFINE a == <<w, jw>>
           b == <<ar, ja>>
<1>0. /\ a \in Places /\ b \in Places /\ a # b
      /\ Len(ring[a]) \in Nat /\ Len(ring[b]) \in Nat
      /\ Len(ring[a]) = Size(w, jw) /\ Len(ring[b]) = Size(ar, ja)
      /\ count[b] = Len(ring[b])
  BY PlaceFacts, StateFacts DEF Kinds, IInv, CountsExact, Size
<1>1. Size(ar, ja) + 1 \in 1 .. BatchSize /\ Size(ar, ja) + 1 < CounterMod
  BY <1>0, ConfAssumption DEF NoWrap
<1>2. (count[b] + 1) % CounterMod = Size(ar, ja) + 1 /\ ~(count[b] < Len(ring[b]))
  <2>1. Size(ar, ja) + 1 \in Nat /\ CounterMod \in Nat \ {0}
    BY <1>0, ConfAssumption
  <2> QED BY <1>0, <1>1, <2>1, SmallMod
<1>3. /\ ring' = [ring EXCEPT ![a] = Tail(@), ![b] = Append(@, Head(ring[a]))]
      /\ count' = [count EXCEPT ![b] = Size(ar, ja) + 1]
  <2> HIDE DEF a, b
  <2>1. Store(a, b)
    BY DEF a, b
  <2> QED BY <1>2, <2>1 DEF Store
<1>4. Moved(ring, ring', a, b, 1)
  BY <1>0, <1>3, MoveHead, StateFacts
<1> QED BY <1>1, <1>3, <1>4

\* The sizes and counters after such a step.
LEMMA StoreFacts ==
    ASSUME IInv, NoWrap,
           NEW w \in {"cq_batch", "rx_batch"}, NEW jw \in Interfaces,
           NEW ar \in {"to_drop", "to_tx", "to_fill"}, NEW ja \in Interfaces,
           Size(w, jw) > 0, Size(ar, ja) + Size(w, jw) <= BatchSize,
           ar # "to_tx" => owner(ring[<<w, jw>>][1]) = ja,
           Store(<<w, jw>>, <<ar, ja>>)
    PROVE  /\ PlacesInv'
           /\ \A kind \in Kinds : \A k \in Interfaces :
                 /\ Size(kind, k) \in Nat /\ Size(kind, k)' \in Nat
                 /\ (kind # w \/ k # jw) /\ (kind # ar \/ k # ja)
                       => Size(kind, k)' = Size(kind, k)
           /\ Size(w, jw)' = Size(w, jw) - 1
           /\ Size(ar, ja)' = Size(ar, ja) + 1
           /\ count' \in [Counters -> 0 .. CounterMod - 1]
           /\ CountsExact'
<1>0. /\ w \in Kinds /\ ar \in Kinds /\ <<w, jw>> # <<ar, ja>>
      /\ Size(w, jw) \in Nat /\ Size(ar, ja) \in Nat
      /\ <<ar, ja>> \in Counters
  BY PlaceFacts, StateFacts DEF Kinds
<1>1. /\ Moved(ring, ring', <<w, jw>>, <<ar, ja>>, 1)
      /\ Size(ar, ja) + 1 \in 1 .. BatchSize
      /\ count' = [count EXCEPT ![<<ar, ja>>] = Size(ar, ja) + 1]
  BY StoreMove
<1>2. 1 \in 0 .. Size(w, jw) /\ Size(ar, ja) + 1 <= Capacity(<<ar, ja>>)
  BY <1>0, <1>1, ConfAssumption DEF Capacity
<1>3. /\ PlacesInv'
      /\ \A kind \in Kinds : \A k \in Interfaces :
            /\ Size(kind, k) \in Nat /\ Size(kind, k)' \in Nat
            /\ (kind # w \/ k # jw) /\ (kind # ar \/ k # ja)
                  => Size(kind, k)' = Size(kind, k)
      /\ Size(w, jw)' = Size(w, jw) - 1
      /\ Size(ar, ja)' = Size(ar, ja) + 1
  <2>1. ar \in {"fq", "rx", "rx_batch", "to_drop", "to_fill"}
           => \A k \in 1 .. 1 : owner(ring[<<w, jw>>][k]) = ja
    OBVIOUS
  <2> QED BY <1>0, <1>1, <1>2, <2>1, MoveSizes
<1>4. count' \in [Counters -> 0 .. CounterMod - 1]
  BY <1>0, <1>1, ConfAssumption DEF IInv, ControlTypes, NoWrap
<1>5. CountsExact'
  <2> SUFFICES ASSUME NEW k \in Interfaces,
                      NEW kind \in {"to_drop", "to_tx", "to_fill"}
               PROVE  count'[<<kind, k>>] = Size(kind, k)'
    BY DEF CountsExact
  <2>1. <<kind, k>> \in Counters /\ kind \in Kinds /\ kind # w
    BY PlaceFacts DEF Kinds
  <2>2. count[<<kind, k>>] = Size(kind, k) /\ count \in [Counters -> 0 .. CounterMod - 1]
    BY DEF IInv, CountsExact, ControlTypes
  <2>3. CASE kind = ar /\ k = ja
    BY <1>0, <1>1, <1>3, <2>1, <2>2, <2>3
  <2>4. CASE kind # ar \/ k # ja
    BY <1>0, <1>1, <1>3, <2>1, <2>2, <2>4
  <2> QED BY <2>3, <2>4
<1> QED BY <1>3, <1>4, <1>5

\* The sizes and counters after an array has been submitted to a ring.
LEMMA SubmitFacts ==
    ASSUME IInv, NoWrap,
           NEW ar \in {"to_drop", "to_tx", "to_fill"},
           NEW q \in {"fq", "tx"}, NEW j \in Interfaces,
           Size(q, j) + Size(ar, j) <= Capacity(<<q, j>>),
           q = "fq" => ar # "to_tx",
           Submit(<<ar, j>>, <<q, j>>)
    PROVE  /\ PlacesInv'
           /\ \A kind \in Kinds : \A k \in Interfaces :
                 /\ Size(kind, k) \in Nat /\ Size(kind, k)' \in Nat
                 /\ kind \notin {ar, q} \/ k # j => Size(kind, k)' = Size(kind, k)
           /\ Size(ar, j)' = 0
           /\ Size(q, j)' = Size(q, j) + Size(ar, j)
           /\ count' \in [Counters -> 0 .. CounterMod - 1]
           /\ CountsExact'
<1> DEFINE a == <<ar, j>>
           b == <<q, j>>
<1>0. /\ ar \in Kinds /\ q \in Kinds /\ a # b
      /\ a \in Places /\ b \in Places /\ a \in Counters
      /\ Size(ar, j) \in Nat /\ Size(q, j) \in Nat
      /\ Size(ar, j) = Len(ring[a]) /\ Size(q, j) = Len(ring[b])
      /\ count[a] = Len(ring[a])
  BY PlaceFacts, StateFacts DEF Kinds, IInv, CountsExact, Size
<1>1. /\ ring' = [ring EXCEPT ![a] = <<>>,
                              ![b] = @ \o SubSeq(ring[a], 1, Len(ring[a]))]
      /\ count' = [count EXCEPT ![a] = 0]
  BY <1>0 DEF Submit
<1>2. Moved(ring, ring', a, b, Len(ring[a]))
  BY <1>0, <1>1, MoveAll, StateFacts
<1>3. q \in {"fq", "rx", "rx_batch", "to_drop", "to_fill"}
         => \A k \in 1 .. Size(ar, j) : owner(ring[a][k]) = j
  <2>1. SUFFICES ASSUME q = "fq"
                 PROVE  \A k \in 1 .. Size(ar, j) : owner(ring[a][k]) = j
    OBVIOUS
  <2>2. ar \in {"fq", "rx", "rx_batch", "to_drop", "to_fill"}
    BY <2>1
  <2> QED BY <2>2 DEF IInv, PlacesInv, FramesReturnToOwner, Size
<1>4. /\ PlacesInv'
      /\ \A kind \in Kinds : \A k \in Interfaces :
            /\ Size(kind, k) \in Nat /\ Size(kind, k)' \in Nat
            /\ (kind # ar \/ k # j) /\ (kind # q \/ k # j)
                  => Size(kind, k)' = Size(kind, k)
      /\ Size(ar, j)' = Size(ar, j) - Size(ar, j)
      /\ Size(q, j)' = Size(q, j) + Size(ar, j)
  <2>0. PICK n \in Nat : n = Size(ar, j)
    BY <1>0
  <2>1. n \in 0 .. Size(ar, j)
    BY <1>0, <2>0
  <2>5. Size(q, j) + n <= Capacity(<<q, j>>)
    BY <2>0
  <2>2. Moved(ring, ring', a, b, n)
    BY <1>0, <1>2, <2>0
  <2>3. q \in {"fq", "rx", "rx_batch", "to_drop", "to_fill"}
         => \A k \in 1 .. n : owner(ring[a][k]) = j
    BY <1>3, <2>0
  <2>6. ar \in Kinds /\ q \in Kinds /\ <<ar, j>> # <<q, j>>
    BY <1>0
  <2>4. /\ PlacesInv'
        /\ \A kind \in Kinds : \A k \in Interfaces :
              /\ Size(kind, k) \in Nat /\ Size(kind, k)' \in Nat
              /\ (kind # ar \/ k # j) /\ (kind # q \/ k # j)
                    => Size(kind, k)' = Size(kind, k)
        /\ Size(ar, j)' = Size(ar, j) - n
        /\ Size(q, j)' = Size(q, j) + n
    BY <2>1, <2>2, <2>3, <2>5, <2>6, MoveSizes, SMTT(60)
  <2> QED BY <2>0, <2>4
<1>5. Size(ar, j)' = 0
  BY <1>0, <1>4
<1> HIDE DEF a, b
<1>6. count' \in [Counters -> 0 .. CounterMod - 1]
  BY <1>0, <1>1, ConfAssumption DEF IInv, ControlTypes
<1>7. CountsExact'
  <2> SUFFICES ASSUME NEW k \in Interfaces,
                      NEW kind \in {"to_drop", "to_tx", "to_fill"}
               PROVE  count'[<<kind, k>>] = Size(kind, k)'
    BY DEF CountsExact
  <2>1. <<kind, k>> \in Counters /\ kind \in Kinds /\ kind # q
    BY PlaceFacts DEF Kinds
  <2>2. count[<<kind, k>>] = Size(kind, k) /\ count \in [Counters -> 0 .. CounterMod - 1]
    BY DEF IInv, CountsExact, ControlTypes
  <2>3. CASE kind = ar /\ k = j
    BY <1>0, <1>1, <1>5, <2>1, <2>2, <2>3 DEF a
  <2>4. CASE kind # ar \/ k # j
    BY <1>0, <1>1, <1>4, <2>1, <2>2, <2>4 DEF a
  <2> QED BY <2>3, <2>4
<1> QED BY <1>4, <1>5, <1>6, <1>7

\* Finding the owner of a completed frame keeps the invariant.
LEMMA MapOwnerInv ==
    ASSUME IInv, NoWrap, MapOwner
    PROVE  IInv'
<1>j. PICK j \in Interfaces : j = ifindex
  BY StateFacts
<1>0. /\ pc = "map" /\ ifindex' = ifindex
      /\ Store(<<"cq_batch", j>>, <<"to_fill", owner(Head(ring[<<"cq_batch", j>>]))>>)
      /\ pc' = IF Size("cq_batch", j) = 1 THEN "fill" ELSE "map"
      /\ UNCHANGED <<outstanding_tx, peeked, i, caller, stop_workers>>
      /\ Size("cq_batch", j) > 0
  BY <1>j DEF MapOwner, Size, IInv, Phases
<1>1. PICK o \in Interfaces : /\ o = owner(Head(ring[<<"cq_batch", j>>]))
                              /\ o = owner(ring[<<"cq_batch", j>>][1])
  <2>1. <<"cq_batch", j>> \in Places /\ ring \in [Places -> Seq(Frames)]
    BY <1>0, StateFacts DEF Kinds
  <2>2. ring[<<"cq_batch", j>>] \in Seq(Frames) /\ ring[<<"cq_batch", j>>] # <<>>
    BY <1>0, <2>1, EmptyLen DEF Size
  <2>3. /\ Head(ring[<<"cq_batch", j>>]) \in Frames
        /\ Head(ring[<<"cq_batch", j>>]) = ring[<<"cq_batch", j>>][1]
    BY <2>2, HeadTailProperties
  <2> QED BY <2>3, OwnerRange
<1>2. Size("to_fill", o) + Size("cq_batch", j) <= BatchSize
  BY <1>0, <1>1 DEF IInv, BatchFits
<1>3. /\ PlacesInv'
      /\ \A kind \in Kinds : \A k \in Interfaces :
            /\ Size(kind, k) \in Nat /\ Size(kind, k)' \in Nat
            /\ (kind # "cq_batch" \/ k # j) /\ (kind # "to_fill" \/ k # o)
                  => Size(kind, k)' = Size(kind, k)
      /\ Size("cq_batch", j)' = Size("cq_batch", j) - 1
      /\ Size("to_fill", o)' = Size("to_fill", o) + 1
      /\ count' \in [Counters -> 0 .. CounterMod - 1]
      /\ CountsExact'
  <2>1. "cq_batch" \in {"cq_batch", "rx_batch"}
        /\ "to_fill" \in {"to_drop", "to_tx", "to_fill"}
    OBVIOUS
  <2>2. "to_fill" # "to_tx" => owner(ring[<<"cq_batch", j>>][1]) = o
    BY <1>1
  <2>3. Store(<<"cq_batch", j>>, <<"to_fill", o>>) /\ Size("cq_batch", j) > 0
    BY <1>0, <1>1
  <2> QED BY <1>2, <2>1, <2>2, <2>3, StoreFacts
<1>4. ControlTypes'
  BY <1>0, <1>3 DEF IInv, ControlTypes
<1>5. \A k \in Interfaces : k # j => Size("cq_batch", k) = 0 /\ Size("cq_batch", k)' = 0
  BY <1>j, <1>3 DEF IInv, Phases, IdleArrays, Kinds
<1>6. BatchFits'
  <2> SUFFICES ASSUME NEW k \in Interfaces, NEW m \in Interfaces
               PROVE  /\ Size("to_fill", k)' + Size("cq_batch", m)' <= BatchSize
                      /\ Size("to_tx", k)' + Size("rx_batch", m)' <= BatchSize
                      /\ Size("to_drop", k)' + Size("rx_batch", m)' <= BatchSize
    BY DEF BatchFits
  <2>1. /\ Size("to_tx", k)' = Size("to_tx", k)
        /\ Size("rx_batch", m)' = Size("rx_batch", m)
        /\ Size("to_drop", k)' = Size("to_drop", k)
    BY <1>3 DEF Kinds
  <2>2. /\ Size("to_fill", k) \in Nat /\ Size("cq_batch", j) \in Nat
        /\ Size("to_fill", k) + Size("cq_batch", j) <= BatchSize
    BY <1>0, <1>3 DEF Kinds, IInv, BatchFits
  <2>3. Size("to_fill", k)' \in {Size("to_fill", k), Size("to_fill", k) + 1}
    BY <1>3 DEF Kinds
  <2>4. Size("cq_batch", m)' \in {0, Size("cq_batch", j) - 1}
    BY <1>3, <1>5
  <2>5. Size("to_fill", k)' + Size("cq_batch", m)' <= BatchSize
    BY <1>0, <2>2, <2>3, <2>4, ConfAssumption
  <2> QED BY <2>1, <2>5 DEF IInv, BatchFits
<1>7. Phases'
  <2>1. ASSUME NEW k \in Interfaces PROVE IdleArrays(k)'
    <3>1. (pc' # "map" \/ k # j) => Size("cq_batch", k)' = 0
      BY <1>0, <1>3, <1>5
    <3>2. \A kind \in {"rx_batch", "to_drop", "to_tx"} :
             Size(kind, k)' = Size(kind, k)
      BY <1>3 DEF Kinds
    <3> QED BY <1>0, <1>j, <3>1, <3>2 DEF IInv, Phases, IdleArrays
  <2>2. pc' = "map" => Size("cq_batch", j)' > 0
    BY <1>0, <1>3 DEF Kinds
  <2> QED BY <1>0, <1>j, <2>1, <2>2 DEF IInv, Phases, Size
<1>8. OutstandingExact'
  <2>1. \A k \in Interfaces : Size("tx", k)' = Size("tx", k)
                              /\ Size("cq", k)' = Size("cq", k)
    BY <1>3 DEF Kinds
  <2> QED BY <1>0, <2>1 DEF IInv, OutstandingExact, Size
<1>9. FillReserveNeverFails'
  BY <1>0 DEF FillReserveNeverFails
<1> QED BY <1>3, <1>4, <1>6, <1>7, <1>8, <1>9 DEF IInv

\* Handling one packet of a batch, forwarded or dropped, keeps the invariant.
LEMMA ProcessPacketInv ==
    ASSUME IInv, NoWrap, ProcessPacket
    PROVE  IInv'
<1>j. PICK j \in Interfaces : j = ifindex
  BY StateFacts
<1>0. /\ pc = "process" /\ caller = "peek"
      /\ pc' = IF Size("rx_batch", j) = 1 THEN "drop" ELSE "process"
      /\ UNCHANGED <<outstanding_tx, peeked, ifindex, i, caller, stop_workers>>
      /\ Size("rx_batch", j) > 0
  BY <1>j DEF ProcessPacket, Size, IInv, Phases
<1>1. PICK ar \in {"to_drop", "to_tx"}, o \in Interfaces :
          /\ ar = "to_drop" => o = j
          /\ Store(<<"rx_batch", j>>, <<ar, o>>)
  BY <1>j DEF ProcessPacket
<1>2. Size(ar, o) + Size("rx_batch", j) <= BatchSize
  BY DEF IInv, BatchFits
<1>3. /\ PlacesInv'
      /\ \A kind \in Kinds : \A k \in Interfaces :
            /\ Size(kind, k) \in Nat /\ Size(kind, k)' \in Nat
            /\ (kind # "rx_batch" \/ k # j) /\ (kind # ar \/ k # o)
                  => Size(kind, k)' = Size(kind, k)
      /\ Size("rx_batch", j)' = Size("rx_batch", j) - 1
      /\ Size(ar, o)' = Size(ar, o) + 1
      /\ count' \in [Counters -> 0 .. CounterMod - 1]
      /\ CountsExact'
  <2>1. "rx_batch" \in {"cq_batch", "rx_batch"}
        /\ ar \in {"to_drop", "to_tx", "to_fill"}
    OBVIOUS
  <2>2. ar # "to_tx" => owner(ring[<<"rx_batch", j>>][1]) = o
    <3>1. Size("rx_batch", j) \in Nat
      BY StateFacts DEF Kinds
    <3>2. 1 \in 1 .. Size("rx_batch", j)
      BY <1>0, <3>1
    <3>3. owner(ring[<<"rx_batch", j>>][1]) = j
      BY <3>2 DEF IInv, PlacesInv, FramesReturnToOwner, Size
    <3> QED BY <1>1, <3>3
  <2> QED BY <1>0, <1>1, <1>2, <2>1, <2>2, StoreFacts
<1>4. ControlTypes'
  BY <1>0, <1>3 DEF IInv, ControlTypes
<1>5. \A k \in Interfaces : k # j => Size("rx_batch", k) = 0 /\ Size("rx_batch", k)' = 0
  BY <1>j, <1>3 DEF IInv, Phases, IdleArrays, Kinds
<1>6. BatchFits'
  <2> SUFFICES ASSUME NEW k \in Interfaces, NEW m \in Interfaces
               PROVE  /\ Size("to_fill", k)' + Size("cq_batch", m)' <= BatchSize
                      /\ Size("to_tx", k)' + Size("rx_batch", m)' <= BatchSize
                      /\ Size("to_drop", k)' + Size("rx_batch", m)' <= BatchSize
    BY DEF BatchFits
  <2>1. /\ Size("to_fill", k)' = Size("to_fill", k)
        /\ Size("cq_batch", m)' = Size("cq_batch", m)
    BY <1>3 DEF Kinds
  <2>2. Size("rx_batch", m)' \in {0, Size("rx_batch", j) - 1}
    BY <1>3, <1>5
  <2>3. ASSUME NEW kind \in {"to_tx", "to_drop"}
        PROVE  Size(kind, k)' + Size("rx_batch", m)' <= BatchSize
    <3>1. /\ Size(kind, k) \in Nat /\ Size("rx_batch", j) \in Nat
          /\ Size(kind, k) + Size("rx_batch", j) <= BatchSize
      BY <1>3 DEF Kinds, IInv, BatchFits
    <3>2. Size(kind, k)' \in {Size(kind, k), Size(kind, k) + 1}
      BY <1>3 DEF Kinds
    <3> QED BY <1>0, <2>2, <3>1, <3>2, ConfAssumption
  <2> QED BY <2>1, <2>3 DEF IInv, BatchFits
<1>7. Phases'
  <2>1. ASSUME NEW k \in Interfaces PROVE IdleArrays(k)'
    <3>1. (pc' # "process" \/ k # j) => Size("rx_batch", k)' = 0
      BY <1>0, <1>3, <1>5
    <3>2. k # j => Size("to_drop", k)' = Size("to_drop", k)
      BY <1>1, <1>3 DEF Kinds
    <3>3. /\ Size("cq_batch", k)' = Size("cq_batch", k)
          /\ Size("to_fill", k)' = Size("to_fill", k)
      BY <1>3 DEF Kinds
    <3> QED BY <1>0, <1>j, <3>1, <3>2, <3>3 DEF IInv, Phases, IdleArrays
  <2>2. pc' = "process" => Size("rx_batch", j)' > 0
    BY <1>0, <1>3 DEF Kinds
  <2> QED BY <1>0, <1>j, <2>1, <2>2 DEF Phases, Size
<1>8. OutstandingExact'
  <2>1. \A k \in Interfaces : Size("tx", k)' = Size("tx", k)
                              /\ Size("cq", k)' = Size("cq", k)
    BY <1>3 DEF Kinds
  <2> QED BY <1>0, <2>1 DEF IInv, OutstandingExact, Size
<1>9. FillReserveNeverFails'
  BY <1>0 DEF FillReserveNeverFails
<1> QED BY <1>3, <1>4, <1>6, <1>7, <1>8, <1>9 DEF IInv

-----------------------------------------------------------------------------
(* Submitting an array *)

\* There is always room in a fill ring for frames of its owner.
LEMMA FillFits ==
    ASSUME IInv, NEW j \in Interfaces, NEW kind \in {"to_drop", "to_fill"}
    PROVE  /\ Size("fq", j) + Size(kind, j) <= FillSize
           /\ Size("fq", j) + Size(kind, j) <= Capacity(<<"fq", j>>)
           /\ CanReserve(<<"fq", j>>, FillSize, count[<<kind, j>>])
<1>1. /\ <<"fq", j>> \in Places /\ <<kind, j>> \in Places
      /\ <<"fq", j>> # <<kind, j>>
      /\ Size(kind, j) \in Nat /\ Size("fq", j) \in Nat
      /\ ring \in [Places -> Seq(Frames)] /\ Distinct(ring)
      /\ count[<<kind, j>>] = Size(kind, j)
  BY StateFacts DEF Kinds, IInv, PlacesInv, CountsExact
<1>2. PICK n \in Nat : n = Size(kind, j)
  BY <1>1
<1>3. n \in 0 .. Len(ring[<<kind, j>>])
  BY <1>2 DEF Size
<1>4. /\ \A k \in 1 .. Len(ring[<<"fq", j>>]) : owner(ring[<<"fq", j>>][k]) = j
      /\ \A k \in 1 .. n : owner(ring[<<kind, j>>][k]) = j
  BY <1>2 DEF IInv, PlacesInv, FramesReturnToOwner, Size
<1>5. Len(ring[<<"fq", j>>]) + n <= FramesPerSocket
  BY <1>1, <1>3, <1>4, OwnedFit
<1>6. Size("fq", j) + Size(kind, j) <= FillSize
  BY <1>1, <1>2, <1>5, ConfAssumption DEF Size
<1> QED BY <1>1, <1>6 DEF CanReserve, Capacity, Size

\* Returning completed frames to their owner's fill ring keeps the invariant.
LEMMA FillOwnerInv ==
    ASSUME IInv, NoWrap, NEW j \in Interfaces, FillOwner(j)
    PROVE  IInv'
<1>0. /\ pc = "fill" /\ Submit(<<"to_fill", j>>, <<"fq", j>>)
      /\ UNCHANGED <<outstanding_tx, peeked, ifindex, i, caller, pc, stop_workers>>
  BY FillFits DEF FillOwner
<1>1. /\ PlacesInv'
      /\ \A kind \in Kinds : \A k \in Interfaces :
            /\ Size(kind, k) \in Nat
            /\ kind \notin {"to_fill", "fq"} \/ k # j
                  => Size(kind, k)' = Size(kind, k)
      /\ Size("to_fill", j)' = 0
      /\ count' \in [Counters -> 0 .. CounterMod - 1]
      /\ CountsExact'
  <2>1. Size("fq", j) + Size("to_fill", j) <= Capacity(<<"fq", j>>)
    BY FillFits
  <2> QED BY <1>0, <2>1, SubmitFacts
<1>2. ControlTypes'
  BY <1>0, <1>1 DEF IInv, ControlTypes
<1>3. \A k \in Interfaces : \A kind \in Kinds \ {"to_fill", "fq"} :
          Size(kind, k)' = Size(kind, k)
  BY <1>1
<1>4. BatchFits'
  <2> SUFFICES ASSUME NEW k \in Interfaces, NEW m \in Interfaces
               PROVE  /\ Size("to_fill", k)' + Size("cq_batch", m)' <= BatchSize
                      /\ Size("to_tx", k)' + Size("rx_batch", m)' <= BatchSize
                      /\ Size("to_drop", k)' + Size("rx_batch", m)' <= BatchSize
    BY DEF BatchFits
  <2>1. /\ Size("to_fill", k)' \in {0, Size("to_fill", k)}
        /\ Size("to_fill", k) \in Nat /\ Size("cq_batch", m) \in Nat
    BY <1>1 DEF Kinds
  <2> QED BY <1>3, <2>1, ConfAssumption DEF IInv, BatchFits, Kinds
<1>5. Phases'
  <2>1. ASSUME NEW k \in Interfaces PROVE IdleArrays(k)'
    BY <1>0, <1>3 DEF IInv, Phases, IdleArrays, Kinds
  <2> QED BY <1>0, <2>1 DEF IInv, Phases
<1>6. OutstandingExact'
  BY <1>0, <1>3 DEF IInv, OutstandingExact, Size, Kinds
<1>7. FillReserveNeverFails'
  BY <1>0 DEF FillReserveNeverFails
<1> QED BY <1>1, <1>2, <1>4, <1>5, <1>6, <1>7 DEF IInv

\* Returning dropped frames to the fill ring keeps the invariant.
LEMMA DropFramesInv ==
    ASSUME IInv, NoWrap, DropFrames
    PROVE  IInv'
<1>j. PICK j \in Interfaces : j = ifindex
  BY StateFacts
<1>0. /\ pc = "drop" /\ pc' = "tx" /\ i' = 0 /\ caller = "peek" /\ caller' = "tx"
      /\ Submit(<<"to_drop", j>>, <<"fq", j>>)
      /\ UNCHANGED <<outstanding_tx, peeked, ifindex, stop_workers>>
  BY <1>j, FillFits DEF DropFrames, IInv, Phases
<1>1. /\ PlacesInv'
      /\ \A kind \in Kinds : \A k \in Interfaces :
            /\ Size(kind, k) \in Nat
            /\ kind \notin {"to_drop", "fq"} \/ k # j
                  => Size(kind, k)' = Size(kind, k)
      /\ Size("to_drop", j)' = 0
      /\ count' \in [Counters -> 0 .. CounterMod - 1]
      /\ CountsExact'
  <2>1. Size("fq", j) + Size("to_drop", j) <= Capacity(<<"fq", j>>)
    BY FillFits
  <2> QED BY <1>0, <2>1, SubmitFacts
<1>2. ControlTypes'
  BY <1>0, <1>1, ConfAssumption DEF IInv, ControlTypes, Interfaces
<1>3. \A k \in Interfaces : \A kind \in Kinds \ {"to_drop", "fq"} :
          Size(kind, k)' = Size(kind, k)
  BY <1>1
<1>4. \A k \in Interfaces : Size("to_drop", k)' = 0
  BY <1>j, <1>1 DEF IInv, Phases, IdleArrays, Kinds
<1>5. BatchFits'
  <2> SUFFICES ASSUME NEW k \in Interfaces, NEW m \in Interfaces
               PROVE  /\ Size("to_fill", k)' + Size("cq_batch", m)' <= BatchSize
                      /\ Size("to_tx", k)' + Size("rx_batch", m)' <= BatchSize
                      /\ Size("to_drop", k)' + Size("rx_batch", m)' <= BatchSize
    BY DEF BatchFits
  <2>1. Size("to_drop", k) \in Nat /\ Size("rx_batch", m) \in Nat
    BY <1>1 DEF Kinds
  <2> QED BY <1>3, <1>4, <2>1, ConfAssumption DEF IInv, BatchFits, Kinds
<1>6. Phases'
  <2>1. ASSUME NEW k \in Interfaces PROVE IdleArrays(k)'
    <3>1. ~(k < 0)
      BY DEF Interfaces
    <3> QED BY <1>0, <1>3, <1>4, <3>1 DEF IInv, Phases, IdleArrays, Kinds
  <2> QED BY <1>0, <2>1 DEF Phases
<1>7. OutstandingExact'
  BY <1>0, <1>3 DEF IInv, OutstandingExact, Size, Kinds
<1>8. FillReserveNeverFails'
  BY <1>0 DEF FillReserveNeverFails
<1> QED BY <1>1, <1>2, <1>5, <1>6, <1>7, <1>8 DEF IInv

\* Submitting an interface's frames to its transmit ring keeps the invariant.
LEMMA SubmitTxInv ==
    ASSUME IInv, NoWrap, SubmitTx
    PROVE  IInv'
<1>j. PICK j \in Interfaces : j = i
  BY StateFacts
<1>n. PICK n \in Nat : n = Size("to_tx", j)
  BY StateFacts DEF Kinds
<1>0. /\ pc = "tx" /\ caller = "tx"
      /\ CanReserve(<<"tx", j>>, RingSize, n)
      /\ Submit(<<"to_tx", j>>, <<"tx", j>>)
      /\ outstanding_tx' = [outstanding_tx EXCEPT ![j] = @ + n]
      /\ UNCHANGED <<peeked, stop_workers>>
  BY <1>j, <1>n DEF SubmitTx, IInv, Phases, CountsExact
<1>1. /\ PlacesInv'
      /\ \A kind \in Kinds : \A k \in Interfaces :
            /\ Size(kind, k) \in Nat
            /\ kind \notin {"to_tx", "tx"} \/ k # j
                  => Size(kind, k)' = Size(kind, k)
      /\ Size("to_tx", j)' = 0
      /\ Size("tx", j)' = Size("tx", j) + n
      /\ count' \in [Counters -> 0 .. CounterMod - 1]
      /\ CountsExact'
  <2>1. Size("tx", j) + Size("to_tx", j) <= Capacity(<<"tx", j>>)
    BY <1>0, <1>n DEF CanReserve, Capacity, Size
  <2> QED BY <1>0, <1>n, <2>1, SubmitFacts
<1>2. \/ /\ i' = i + 1 /\ i' \in Interfaces
         /\ UNCHANGED <<ifindex, caller, pc>>
      \/ /\ i = NumInterfaces - 1
         /\ ifindex' \in Interfaces /\ i' \in Interfaces
         /\ caller' = "peek" /\ pc' \in {"complete", "loop"}
  <2>1. CASE i + 1 < NumInterfaces
    BY <2>1, StateFacts, ConfAssumption DEF SubmitTx, Interfaces
  <2>2. CASE ~(i + 1 < NumInterfaces)
    <3>1. ifindex \in Interfaces /\ NextInterface
      BY <2>2, StateFacts DEF SubmitTx
    <3>2. i = NumInterfaces - 1
      BY <2>2, StateFacts, ConfAssumption DEF Interfaces
    <3> QED BY <3>1, <3>2, NextInterfaceFacts
  <2> QED BY <2>1, <2>2
<1>3. ControlTypes'
  <2>1. outstanding_tx' \in [Interfaces -> Nat]
    BY <1>0 DEF IInv, ControlTypes
  <2> QED BY <1>0, <1>1, <1>2, <2>1 DEF IInv, ControlTypes
<1>4. \A k \in Interfaces : \A kind \in Kinds \ {"to_tx", "tx"} :
          Size(kind, k)' = Size(kind, k)
  BY <1>1
<1>5. BatchFits'
  <2> SUFFICES ASSUME NEW k \in Interfaces, NEW m \in Interfaces
               PROVE  /\ Size("to_fill", k)' + Size("cq_batch", m)' <= BatchSize
                      /\ Size("to_tx", k)' + Size("rx_batch", m)' <= BatchSize
                      /\ Size("to_drop", k)' + Size("rx_batch", m)' <= BatchSize
    BY DEF BatchFits
  <2>1. /\ Size("to_tx", k)' \in {0, Size("to_tx", k)}
        /\ Size("to_tx", k) \in Nat /\ Size("rx_batch", m) \in Nat
    BY <1>1 DEF Kinds
  <2> QED BY <1>4, <2>1, ConfAssumption DEF IInv, BatchFits, Kinds
<1>6. Phases'
  <2>1. ASSUME NEW k \in Interfaces, k <= i PROVE Size("to_tx", k)' = 0
    <3>1. CASE k = j
      BY <1>1, <3>1
    <3>2. CASE k # j
      <4>1. k < i
        BY <1>j, <2>1, <3>2 DEF Interfaces
      <4> QED BY <1>0, <1>1, <3>2, <4>1 DEF IInv, Phases, IdleArrays, Kinds
    <3> QED BY <3>1, <3>2
  <2>2. ASSUME NEW k \in Interfaces PROVE IdleArrays(k)'
    <3>1. caller' = "tx" /\ k < i' => k <= i
      BY <1>2, <1>j DEF Interfaces
    <3>2. caller' = "peek" => k <= i
      BY <1>0, <1>2, <1>j, ConfAssumption DEF Interfaces
    <3>3. (caller' = "tx" /\ k < i') \/ caller' = "peek" => Size("to_tx", k)' = 0
      BY <2>1, <3>1, <3>2
    <3>4. pc' \in {"tx", "complete", "loop"}
      BY <1>0, <1>2
    <3> QED BY <1>0, <1>4, <3>3, <3>4 DEF IInv, Phases, IdleArrays, Kinds
  <2> QED BY <1>0, <1>2, <2>2 DEF Phases
<1>7. OutstandingExact'
  <2> SUFFICES ASSUME NEW k \in Interfaces
               PROVE  outstanding_tx'[k] = Size("tx", k)' + Size("cq", k)' + 0
    <3>1. pc' \notin {"map", "fill"}
      BY <1>0, <1>2
    <3> QED BY <3>1 DEF OutstandingExact, Size
  <2>1. outstanding_tx[k] = Size("tx", k) + Size("cq", k) + 0
    BY <1>0 DEF IInv, OutstandingExact, Size
  <2>2. /\ Size("cq", k)' = Size("cq", k) /\ Size("cq", k) \in Nat
        /\ Size("tx", k) \in Nat
        /\ outstanding_tx \in [Interfaces -> Nat]
    BY <1>1 DEF Kinds, IInv, ControlTypes
  <2>3. CASE k = j
    BY <1>0, <1>1, <2>1, <2>2, <2>3
  <2>4. CASE k # j
    BY <1>0, <1>1, <2>1, <2>2, <2>4 DEF Kinds
  <2> QED BY <2>3, <2>4
<1>8. FillReserveNeverFails'
  BY <1>0, <1>2 DEF FillReserveNeverFails
<1> QED BY <1>1, <1>3, <1>5, <1>6, <1>7, <1>8 DEF IInv

\* Releasing the completion ring and subtracting from outstanding_tx keeps the
\* invariant.
LEMMA CompleteReturnInv ==
    ASSUME IInv, CompleteReturn
    PROVE  IInv'
<1>j. PICK j \in Interfaces : j = ifindex
  BY StateFacts
<1>0. /\ pc = "fill" /\ pc' = caller /\ caller \in {"peek", "tx"}
      /\ outstanding_tx' = [outstanding_tx EXCEPT ![j] = @ - peeked]
      /\ UNCHANGED <<ring, count, peeked, ifindex, i, caller, stop_workers>>
  BY <1>j DEF CompleteReturn, IInv, ControlTypes
<1>1. /\ PlacesInv'
      /\ \A kind \in Kinds : \A k \in Interfaces : Size(kind, k)' = Size(kind, k)
  BY <1>0, StayPut
<1>2. \A k \in Interfaces : Size("to_fill", k) = 0
  BY StateFacts DEF CompleteReturn, Kinds
<1>3. ASSUME NEW k \in Interfaces
      PROVE  /\ outstanding_tx'[k] = Size("tx", k) + Size("cq", k)
             /\ outstanding_tx'[k] \in Nat
  <2>1. /\ outstanding_tx[k] = Size("tx", k) + Size("cq", k)
                              + (IF j = k THEN peeked ELSE 0)
        /\ outstanding_tx \in [Interfaces -> Nat]
        /\ Size("tx", k) \in Nat /\ Size("cq", k) \in Nat /\ peeked \in Nat
    BY <1>0, <1>j, StateFacts DEF IInv, OutstandingExact, Size, ControlTypes, Kinds
  <2>2. CASE k = j
    BY <1>0, <2>1, <2>2
  <2>3. CASE k # j
    BY <1>0, <2>1, <2>3
  <2> QED BY <2>2, <2>3
<1>4. ControlTypes'
  <2>1. outstanding_tx' \in [Interfaces -> Nat]
    BY <1>0, <1>3 DEF IInv, ControlTypes
  <2> QED BY <1>0, <2>1 DEF IInv, ControlTypes
<1>5. CountsExact' /\ BatchFits'
  BY <1>0, <1>1 DEF IInv, CountsExact, BatchFits, Kinds
<1>6. Phases'
  <2>1. ASSUME NEW k \in Interfaces PROVE IdleArrays(k)'
    BY <1>0, <1>1, <1>2 DEF IInv, Phases, IdleArrays, Kinds
  <2> QED BY <1>0, <2>1 DEF Phases
<1>7. OutstandingExact'
  <2>1. ASSUME NEW k \in Interfaces
        PROVE  outstanding_tx'[k] = Len(ring'[<<"tx", k>>]) + Len(ring'[<<"cq", k>>]) + 0
    <3>1. Size("tx", k) \in Nat /\ Size("cq", k) \in Nat
      BY StateFacts DEF Kinds
    <3>2. outstanding_tx'[k] = Size("tx", k) + Size("cq", k) + 0
      BY <1>3, <3>1
    <3> QED BY <1>0, <3>2 DEF Size
  <2> QED BY <1>0, <2>1 DEF OutstandingExact
<1>8. FillReserveNeverFails'
  BY <1>0 DEF FillReserveNeverFails
<1> QED BY <1>1, <1>4, <1>5, <1>6, <1>7, <1>8 DEF IInv

\* With one interface every frame belongs to it.
LEMMA Complete1ifInv ==
    ASSUME IInv, NumInterfaces = 1, complete_tx_1if, ~CompleteNothing, ~kick_tx
    PROVE  IInv'
<1>0. /\ pc = "complete" /\ outstanding_tx[0] # 0
      /\ 0 \in Interfaces /\ ifindex = 0 /\ \A k \in Interfaces : k = 0
      /\ "cq" \in Kinds /\ "fq" \in Kinds /\ <<"cq", 0>> # <<"fq", 0>>
      /\ <<"cq", 0>> \in Places /\ <<"fq", 0>> \in Places
      /\ Size("cq", 0) \in Nat /\ Size("fq", 0) \in Nat
      /\ caller \in {"peek", "tx"}
  BY StateFacts DEF complete_tx_1if, Interfaces, Kinds, IInv, ControlTypes
<1>1. PICK n \in 1 .. Min2(Ndescs, Len(ring[<<"cq", 0>>])) :
          IF CanReserve(<<"fq", 0>>, FillSize, n)
          THEN /\ ring' = [ring EXCEPT
                     ![<<"cq", 0>>] = SubSeq(@, n + 1, Len(@)),
                     ![<<"fq", 0>>] = @ \o SubSeq(ring[<<"cq", 0>>], 1, n)]
               /\ outstanding_tx' = [outstanding_tx EXCEPT ![0] = @ - n]
               /\ pc' = caller
               /\ UNCHANGED <<count, peeked, ifindex, i, caller, stop_workers>>
          ELSE ExitWithError("fq_full")
  BY DEF complete_tx_1if
<1>2. n \in 0 .. Size("cq", 0) /\ n \in Nat
  <2>1. Ndescs \in Nat
    BY <1>0, ConfAssumption DEF Ndescs, Min2, IInv, ControlTypes
  <2> QED BY <1>0, <2>1 DEF Min2, Size
<1>3. \A f \in Frames : owner(f) = 0
  BY <1>0, OwnerRange
<1>4. /\ \A k \in 1 .. n : owner(ring[<<"cq", 0>>][k]) = 0
      /\ \A k \in 1 .. Len(ring[<<"fq", 0>>]) : owner(ring[<<"fq", 0>>][k]) = 0
  <2>1. ring[<<"cq", 0>>] \in Seq(Frames) /\ ring[<<"fq", 0>>] \in Seq(Frames)
    BY <1>0, StateFacts
  <2>2. /\ \A k \in 1 .. Len(ring[<<"cq", 0>>]) : ring[<<"cq", 0>>][k] \in Frames
        /\ \A k \in 1 .. Len(ring[<<"fq", 0>>]) : ring[<<"fq", 0>>][k] \in Frames
    BY <2>1
  <2>3. \A k \in 1 .. n : k \in 1 .. Len(ring[<<"cq", 0>>])
    BY <1>0, <1>2 DEF Size
  <2> QED BY <1>3, <2>2, <2>3
<1>5. Size("fq", 0) + n <= FillSize
  <2>1. Len(ring[<<"fq", 0>>]) + n <= FramesPerSocket
    BY <1>0, <1>2, <1>4, OwnedFit, StateFacts DEF IInv, PlacesInv, Size
  <2> QED BY <1>0, <1>2, <2>1, ConfAssumption DEF Size
<1>6. /\ ring' = [ring EXCEPT
                     ![<<"cq", 0>>] = SubSeq(@, n + 1, Len(@)),
                     ![<<"fq", 0>>] = @ \o SubSeq(ring[<<"cq", 0>>], 1, n)]
      /\ outstanding_tx' = [outstanding_tx EXCEPT ![0] = @ - n]
      /\ pc' = caller
      /\ UNCHANGED <<count, peeked, ifindex, i, caller, stop_workers>>
  BY <1>1, <1>5 DEF CanReserve, Size
<1>7. Moved(ring, ring', <<"cq", 0>>, <<"fq", 0>>, n)
  BY <1>0, <1>2, <1>6, MovePrefix, StateFacts DEF Size
<1>8. /\ PlacesInv'
      /\ \A kind \in Kinds : \A k \in Interfaces :
            (kind # "cq" \/ k # 0) /\ (kind # "fq" \/ k # 0)
               => Size(kind, k)' = Size(kind, k)
      /\ Size("cq", 0)' = Size("cq", 0) - n
  <2>1. Size("fq", 0) + n <= Capacity(<<"fq", 0>>)
    BY <1>5 DEF Capacity
  <2> QED BY <1>0, <1>2, <1>4, <1>7, <2>1, MoveSizes
<1>9. \A kind \in Kinds \ {"cq", "fq"} : \A k \in Interfaces :
          Size(kind, k)' = Size(kind, k)
  BY <1>8
<1>10. /\ outstanding_tx[0] = Size("tx", 0) + Size("cq", 0) + 0
       /\ Size("tx", 0) \in Nat
       /\ outstanding_tx \in [Interfaces -> Nat]
       /\ Size("tx", 0)' = Size("tx", 0)
  <2>1. outstanding_tx[0] = Size("tx", 0) + Size("cq", 0) + 0
    BY <1>0 DEF IInv, OutstandingExact, Size
  <2>2. Size("tx", 0) \in Nat /\ Size("tx", 0)' = Size("tx", 0)
    BY <1>0, <1>9, StateFacts DEF Kinds
  <2> QED BY <2>1, <2>2 DEF IInv, ControlTypes
<1>11. /\ outstanding_tx'[0] = Size("tx", 0)' + Size("cq", 0)'
       /\ outstanding_tx'[0] \in Nat
  BY <1>0, <1>2, <1>6, <1>8, <1>10
<1>12. ControlTypes'
  <2>1. outstanding_tx' \in [Interfaces -> Nat]
    BY <1>0, <1>6, <1>10, <1>11
  <2> QED BY <1>0, <1>6, <2>1 DEF IInv, ControlTypes
<1>13. CountsExact' /\ BatchFits'
  BY <1>6, <1>9 DEF IInv, CountsExact, BatchFits, Kinds
<1>14. Phases'
  <2>1. ASSUME NEW k \in Interfaces PROVE IdleArrays(k)'
    BY <1>0, <1>6, <1>9 DEF IInv, Phases, IdleArrays, Kinds
  <2> QED BY <1>0, <1>6, <2>1 DEF Phases
<1>15. OutstandingExact'
  <2>1. outstanding_tx'[0] = Len(ring'[<<"tx", 0>>]) + Len(ring'[<<"cq", 0>>]) + 0
    <3>1. outstanding_tx'[0] = Len(ring'[<<"tx", 0>>]) + Len(ring'[<<"cq", 0>>])
      BY <1>11 DEF Size
    <3>2. Len(ring'[<<"tx", 0>>]) \in Nat /\ Len(ring'[<<"cq", 0>>]) \in Nat
      BY <1>0, <1>2, <1>8, <1>10 DEF Size
    <3> QED BY <3>1, <3>2
  <2> QED BY <1>0, <1>6, <2>1 DEF OutstandingExact
<1>16. FillReserveNeverFails'
  BY <1>0, <1>6 DEF FillReserveNeverFails
<1> QED BY <1>8, <1>12, <1>13, <1>14, <1>15, <1>16 DEF IInv

-----------------------------------------------------------------------------
(* The invariant and the theorems *)

\* The invariant holds when the workers start: every frame is in a fill ring.
LEMMA InitInv == Init => IInv
<1> SUFFICES ASSUME Init PROVE IInv
  OBVIOUS
<1> DEFINE F == FramesPerSocket
<1>0. /\ F \in Nat \ {0} /\ NumInterfaces \in Nat \ {0} /\ F <= FillSize
      /\ 0 \in Interfaces /\ Interfaces \subseteq Nat
  BY ConfAssumption DEF Interfaces
<1>1. ASSUME NEW j \in Interfaces, NEW k \in 1 .. F
      PROVE  /\ j * F + k - 1 \in Frames
             /\ owner(j * F + k - 1) = j
  <2>1. j \in Nat /\ j <= NumInterfaces - 1 /\ j * F \in Nat
    BY <1>0 DEF Interfaces
  <2>2. j * F + F <= NumInterfaces * F
    <3>1. (j + 1) * F <= NumInterfaces * F
      BY <1>0, <2>1, SMTT(30)
    <3> QED BY <1>0, <2>1, <3>1, SMTT(30)
  <2>3. j * F + k - 1 \in Frames
    BY <1>0, <2>1, <2>2, SMTT(30) DEF Frames
  <2>4. (j * F + (k - 1)) \div F = j
    BY <1>0, <2>1, SMTT(30)
  <2> QED BY <1>0, <2>1, <2>3, <2>4 DEF owner
<1>2. ASSUME NEW p \in Places
      PROVE  /\ p[2] \in Interfaces
             /\ ring[p] \in Seq(Frames)
             /\ p[1] = "fq" => /\ Len(ring[p]) = F
                               /\ \A k \in 1 .. F : ring[p][k] = p[2] * F + k - 1
             /\ p[1] # "fq" => ring[p] = <<>> /\ Len(ring[p]) = 0
  <2>1. p[2] \in Interfaces
    BY DEF Places
  <2>2. CASE p[1] = "fq"
    <3>1. ring[p] = [k \in 1 .. F |-> p[2] * F + k - 1]
      BY <2>2 DEF Init
    <3>2. \A k \in 1 .. F : p[2] * F + k - 1 \in Frames
      BY <1>1, <2>1
    <3>3. ring[p] \in [1 .. F -> Frames] /\ F \in Nat
      BY <1>0, <3>1, <3>2
    <3>4. ring[p] \in Seq(Frames) /\ Len(ring[p]) = F
      BY <3>3
    <3> QED BY <2>1, <2>2, <3>1, <3>4
  <2>3. CASE p[1] # "fq"
    BY <2>1, <2>3 DEF Init
  <2> QED BY <2>2, <2>3
<1>3. ring \in [Places -> Seq(Frames)]
  <2>1. ring = [p \in Places |-> ring[p]]
    BY DEF Init
  <2> QED BY <1>2, <2>1
<1>4. \A p \in Places : Len(ring[p]) <= Capacity(p)
  BY <1>0, <1>2, ConfAssumption DEF Capacity
<1>5. ASSUME NEW p \in Places, NEW k \in 1 .. Len(ring[p])
      PROVE  /\ p[1] = "fq" /\ k \in 1 .. F /\ ring[p][k] = p[2] * F + k - 1
             /\ owner(ring[p][k]) = p[2]
  <2>1. p[1] = "fq" /\ Len(ring[p]) = F
    BY <1>0, <1>2
  <2>2. k \in 1 .. F /\ ring[p][k] = p[2] * F + k - 1 /\ p[2] \in Interfaces
    BY <1>2, <2>1
  <2> QED BY <1>1, <2>1, <2>2
<1>6. Distinct(ring)
  <2> SUFFICES ASSUME NEW p \in Places, NEW q \in Places,
                      NEW k \in 1 .. Len(ring[p]), NEW m \in 1 .. Len(ring[q]),
                      ring[p][k] = ring[q][m]
               PROVE  p = q /\ k = m
    BY DEF Distinct
  <2>1. p[1] = "fq" /\ q[1] = "fq" /\ p[2] = q[2]
    BY <1>5
  <2>2. p = q
    BY <2>1 DEF Places
  <2>3. PICK x \in Int : x = p[2] * F
    <3>1. p[2] \in Nat /\ F \in Nat
      BY <1>0, <1>2
    <3> QED BY <3>1
  <2>4. /\ ring[p][k] = x + k - 1 /\ k \in Int
        /\ ring[q][m] = x + m - 1 /\ m \in Int
    BY <1>5, <2>2, <2>3
  <2>5. x + k - 1 = x + m - 1
    BY <2>4
  <2>6. k = m
    BY <2>4, <2>5
  <2> QED BY <2>2, <2>6
<1>7. Covered(ring)
  <2> SUFFICES ASSUME NEW f \in Frames
               PROVE  \E p \in Places : \E k \in 1 .. Len(ring[p]) : ring[p][k] = f
    BY DEF Covered
  <2> DEFINE o == owner(f)
             k == f - o * F + 1
  <2>1. o \in Interfaces /\ f \in o * F .. o * F + F - 1
    BY OwnerRange
  <2> HIDE DEF o
  <2>2. o * F \in Nat /\ f \in Int
    <3>1. o \in Nat /\ F \in Nat
      BY <1>0, <2>1
    <3> QED BY <3>1, <2>1
  <2>3. k \in 1 .. F /\ o * F + k - 1 = f
    BY <1>0, <2>1, <2>2
  <2>4. <<"fq", o>> \in Places
    BY <2>1, PlaceFacts DEF Kinds
  <2>5. Len(ring[<<"fq", o>>]) = F /\ ring[<<"fq", o>>][k] = f
    BY <1>2, <2>3, <2>4
  <2> QED BY <2>3, <2>4, <2>5
<1>8. FramesReturnToOwner
  <2> SUFFICES ASSUME NEW j \in Interfaces,
                      NEW kind \in {"fq", "rx", "rx_batch", "to_drop", "to_fill"},
                      NEW k \in 1 .. Len(ring[<<kind, j>>])
               PROVE  owner(ring[<<kind, j>>][k]) = j
    BY DEF FramesReturnToOwner
  <2>1. <<kind, j>> \in Places /\ <<kind, j>>[2] = j
    BY PlaceFacts DEF Kinds
  <2> QED BY <1>5, <2>1
<1>9. \A kind \in Kinds \ {"fq"} : \A j \in Interfaces : Size(kind, j) = 0
  BY <1>2, PlaceFacts DEF Size, Kinds
<1>10. ControlTypes
  <2>1. 0 \in 0 .. CounterMod - 1 /\ 0 \in 0 .. BatchSize
    BY ConfAssumption
  <2>2. count \in [Counters -> 0 .. CounterMod - 1]
    BY <2>1 DEF Init
  <2> QED BY <1>0, <2>1, <2>2 DEF Init, ControlTypes
<1>11. CountsExact
  BY <1>9, PlaceFacts DEF Init, CountsExact, Kinds
<1>12. BatchFits
  BY <1>9, ConfAssumption DEF BatchFits, Kinds
<1>13. Phases
  BY <1>9 DEF Init, Phases, IdleArrays, Kinds
<1>14. OutstandingExact
  BY <1>9 DEF Init, OutstandingExact, Size, Kinds
<1>15. FillReserveNeverFails
  BY DEF Init, FillReserveNeverFails
<1> QED BY <1>3, <1>4, <1>6, <1>7, <1>8, <1>10, <1>11, <1>12, <1>13, <1>14,
           <1>15 DEF IInv, PlacesInv

\* Every step of the worker and of the driver keeps the invariant.
LEMMA NextInv ==
    ASSUME NoWrap
    PROVE  IInv /\ [Next]_vars => IInv'
<1> SUFFICES ASSUME IInv, [Next]_vars PROVE IInv'
  OBVIOUS
<1>1. CASE worker_loop
  BY <1>1, WorkerLoopInv
<1>2. CASE CompleteNothing \/ kick_tx
  BY <1>2, CompleteNothingInv
<1>3. CASE CompletePeek
  BY <1>3, CompletePeekInv
<1>4. CASE MapOwner
  BY <1>4, MapOwnerInv
<1>5. ASSUME NEW j \in Interfaces, FillOwner(j) PROVE IInv'
  BY <1>5, FillOwnerInv
<1>6. CASE CompleteReturn
  BY <1>6, CompleteReturnInv
<1>7. CASE NumInterfaces = 1 /\ complete_tx_1if
  BY <1>2, <1>7, Complete1ifInv
<1>8. CASE PeekRx
  BY <1>8, PeekRxInv, PeekRxNothingInv
<1>9. CASE ProcessPacket
  BY <1>9, ProcessPacketInv
<1>10. CASE DropFrames
  BY <1>10, DropFramesInv
<1>11. CASE SubmitTx
  BY <1>11, SubmitTxInv
<1>12. CASE RetryTx
  BY <1>12, RetryTxInv
<1>13. ASSUME NEW j \in Interfaces, KernelRx(j) \/ KernelTx(j) PROVE IInv'
  BY <1>13, KernelRxInv, KernelTxInv
<1>14. CASE xsknf_stop_workers
  BY <1>14, StopWorkersInv
<1>15. CASE UNCHANGED vars
  <2>1. UNCHANGED <<ring, count, outstanding_tx, peeked, ifindex, i, caller, pc,
                    stop_workers>>
    BY <1>15 DEF vars
  <2>2. /\ PlacesInv'
        /\ \A kind \in Kinds : \A j \in Interfaces : Size(kind, j)' = Size(kind, j)
    BY <2>1, StayPut
  <2>3. /\ ControlTypes' /\ CountsExact' /\ BatchFits' /\ Phases'
        /\ FillReserveNeverFails'
    BY <2>1, <2>2, KernelRest DEF Kinds
  <2>4. OutstandingExact'
    BY <2>1 DEF IInv, OutstandingExact
  <2> QED BY <2>2, <2>3, <2>4 DEF IInv
<1>16. CASE complete_tx
  BY <1>2, <1>3, <1>4, <1>5, <1>6, <1>16 DEF complete_tx
<1> QED BY <1>1, <1>7, <1>8, <1>9, <1>10, <1>11, <1>12, <1>13, <1>14, <1>15,
           <1>16 DEF Next, Worker, Kernel, process_batch, process_batch_1if

\* The inductive invariant holds throughout.
LEMMA Invariance ==
    ASSUME NoWrap
    PROVE  Spec => []IInv
<1>1. Init => IInv
  BY InitInv
<1>2. IInv /\ [Next]_vars => IInv'
  BY NextInv
<1> QED BY <1>1, <1>2, PTL DEF Spec

\* For every number of interfaces and every size of rings and batches: the
\* variables keep their types, and neither a ring of the kernel nor a batch
\* array of xsknf.c ever holds more entries than it has, if batch_size is
\* less than the range of the uint8_t counters.
THEOREM TypeCorrect ==
    ASSUME NoWrap
    PROVE  Spec => []TypeOK
<1>1. IInv => TypeOK
  BY DEF IInv, PlacesInv, ControlTypes, TypeOK
<1>2. Spec => []IInv
  BY Invariance
<1> QED BY <1>1, <1>2, PTL

\* complete_tx, process_batch and the kernel together never leak a UMEM
\* frame and never have it in two places.
THEOREM FramesConserved ==
    ASSUME NoWrap
    PROVE  Spec => []FrameInOnePlace
<1>1. IInv => FrameInOnePlace
  <2> SUFFICES ASSUME IInv, NEW f \in Frames
               PROVE  \E p \in Places : \E k \in 1 .. Len(ring[p]) :
                        /\ ring[p][k] = f
                        /\ \A q \in Places : \A m \in 1 .. Len(ring[q]) :
                              ring[q][m] = f => q = p /\ m = k
    BY DEF FrameInOnePlace
  <2>1. PICK p \in Places : \E k \in 1 .. Len(ring[p]) : ring[p][k] = f
    BY DEF IInv, PlacesInv, Covered
  <2>2. PICK k \in 1 .. Len(ring[p]) : ring[p][k] = f
    BY <2>1
  <2>3. ASSUME NEW q \in Places, NEW m \in 1 .. Len(ring[q]), ring[q][m] = f
        PROVE  q = p /\ m = k
    <3>1. \A x \in 1 .. Len(ring[q]) : \A y \in 1 .. Len(ring[p]) :
             ring[q][x] = ring[p][y] => q = p /\ x = y
      BY DEF IInv, PlacesInv, Distinct
    <3> QED BY <2>2, <2>3, <3>1
  <2> QED BY <2>2, <2>3
<1>2. Spec => []IInv
  BY Invariance
<1> QED BY <1>1, <1>2, PTL

\* Whatever interface a frame is sent on, it is put back into the fill ring
\* of its owner only.
THEOREM OwnersKept ==
    ASSUME NoWrap
    PROVE  Spec => []FramesReturnToOwner
<1>1. IInv => FramesReturnToOwner
  BY DEF IInv, PlacesInv
<1>2. Spec => []IInv
  BY Invariance
<1> QED BY <1>1, <1>2, PTL

\* The failed reservations in fill rings that xsknf.c ends the program on do
\* not happen.
THEOREM FillNeverFull ==
    ASSUME NoWrap
    PROVE  Spec => []FillReserveNeverFails
<1>1. IInv => FillReserveNeverFails
  BY DEF IInv
<1>2. Spec => []IInv
  BY Invariance
<1> QED BY <1>1, <1>2, PTL

\* outstanding_tx is the exact number of frames the kernel has for sending,
\* so the unsigned subtraction in complete_tx never wraps.
THEOREM OutstandingCorrect ==
    ASSUME NoWrap
    PROVE  Spec => []OutstandingExact
<1>1. IInv => OutstandingExact
  BY DEF IInv
<1>2. Spec => []IInv
  BY Invariance
<1> QED BY <1>1, <1>2, PTL

=============================================================================
