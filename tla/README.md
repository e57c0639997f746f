# EdgeCookie: a TLA+ verification project

EdgeCookie puts a gateway in front of a server. The gateway answers SYNs with
cookies instead of keeping state, and checks a cookie in the timestamp echo of
every segment that follows. It runs in user space, on AF_XDP sockets that the
xsknf library drives; two eBPF programs on the server join the client's
handshake with the gateway to the server's own. The modules in this directory
follow that code, TLC explores them on small instances, and TLAPS proves the
invariants of the packet workers for instances of any size.

Paths are relative to the root of the repository. `PROJECT.json`, which has them
with the prefix `src/`, maps each definition to the lines it stands for.

## 1. Inventory

| Part of the system | Where | Module | State |
|---|---|---|---|
| Packet workers on AF_XDP rings | `src/xsknf.c` 396-743, 1105-1115; ring helpers of `xdp/xsk.h` | `Xsknf` | modelled, proved |
| Set-up, threads, clean-up | `src/xsknf.c` 38-394, 778-1115 | `XsknfSetup` | modelled |
| Redirect program of the gateway | `examples/htscookie/switch_agent_kern.c` | `SwitchAgentKern` | modelled |
| Gateway agent, Bloom filter | `examples/htscookie/switch_agent_user.c`, `examples/common/bloom.c` | `SwitchAgent` | partly |
| Ingress program of the server | `examples/htscookie/server_in_kern.c` | `ServerIn` | partly |
| Egress program of the server | `examples/htscookie/server_en_kern.c` | `ServerEn` | modelled |
| The protocol from end to end | the three agents with the TCP endpoints | `HtsCookie` | modelled |
| TCP option parsing | `examples/common/timestamp.c`, `examples/htscookie/server.h` | `ParseTimestamp` | modelled |
| smartcookie, the older protocol | `examples/smartcookie/` | `SmartCookie` | partly |
| TCP endpoints, network | external; the client loop of `test/client.c` | `TcpEndpoints`, `TcpNetwork` | modelled as used |
| khashmap, a concurrent hash table | `examples/common/khashmap.c` | none | planned |
| Hash functions, checksums, statistics, benchmarks, client test programs | `examples/common/`, `examples/htscookie/` | none | left out, see section 8 |

## 2. How the parts interact

Each worker thread of xsknf owns one UMEM and one socket per interface. It polls
the receive rings, calls the application's packet processor for every packet,
and hands the frame to the transmit ring of some interface or back to the fill
ring. The kernel works on the other end of all four rings at its own pace.
Workers share nothing but the flag that stops them, so a worker and the kernel
are the whole concurrency of the packet path. Starting and stopping is another
matter: there the main thread, every worker that hits an error, and the signal
handler may all run the same clean-up.

The packet processor of interest is the gateway agent. A client goes through it
in one of two ways.

1. *Reset and return.* The first time an address returns a valid cookie the
   agent adds it to a Bloom filter, leaves the cookie in `syn_cache` and resets
   the connection. The client connects again; its SYN collects the cookie and
   passes to the server. `server_in` files the connection with `delta` 0 and the
   server answers the client directly.
2. *Hand-over.* If the address is in the filter already when a cookie comes
   back, the ACK is forwarded. `server_in` turns it into a SYN, `server_en`
   catches the SYN-ACK, computes `delta`, the distance between the cookie the
   client takes for a sequence number and the server's real one, and sends an
   ACK back into the server. From then on one program adds `delta` to what
   leaves and the other subtracts it from what arrives.

Afterwards the server's timestamps are replaced by a *hybrid cookie* (two bits
of counter, the folded syncookie, and a map cookie of the address under a seed),
which the client echoes and the gateway checks. Too many segments of unknown
connections make `server_in` choose a new seed and tell the gateway in a segment
with the ECE flag.

smartcookie, the protocol before this one, has no resets, cached cookies or
keys. The gateway answers every SYN, lets the first ACK that returns its cookie
pass with the ECE flag as a tag, and remembers the connection in a Bloom filter;
each connection is a hand-over. The server checks cookies again for connections
it does not know, because the filter may be wrong.

`server_in` and `server_en` share `conntrack_map`. Each copies an entry, changes
the copy and writes the whole of it back; no lock is involved.

## 3. Modules

`Xsknf` has one variable `ring` for everything that can hold a frame: the four
rings of each socket and the arrays of the batch in progress (`rx_batch`,
`to_drop`, `to_tx`, `cq_batch`, `to_fill`). The question where a frame is can
then be asked of one function. The `uint8_t` counters of the arrays are a
variable of their own and wrap at `CounterMod`. One action is one loop iteration
or one ring operation: `CompletePeek`, `MapOwner`, `FillOwner`, `CompleteReturn`
for `complete_tx`, `PeekRx`, `ProcessPacket`, `DropFrames`, `SubmitTx`,
`RetryTx` for `process_batch`, and the shorter single-interface versions. What
the packet processor returns is left open. `KernelRx` and `KernelTx` are
external: they consume and produce ring entries as the AF_XDP documentation and
the code's use of the rings imply.

`XsknfSetup` records which resources the process holds. Its main thread goes
through `xsknf_parse_args`, `xsknf_init` and `xsknf_start_workers`; any call of
the kernel may fail, and the reaction is the one in the code, either plain
`exit` or `exit_with_error`, which cleans up. The clean-up passes over programs
and filters that it cannot remove; `stuck` remembers them, and `egress` is the
flag `egress_ebpf_program`, by which it knows that there are filters.
`pthread_join` behaves as POSIX and glibc define it, including the answers for
threads that do not exist, wait for the caller, or are being joined by somebody
else. A worker is between two iterations (`polling`), in one (`batch`) or in the
loop that waits for room in a tx ring (`retry`). It reads `stop_workers` between
iterations only.

`SwitchAgentKern` has the redirect program: the map of sockets that
`enter_xsks_into_map` fills, the global data that the main thread writes, and
the static variables into which the first segment copies it. The programs are
attached before the data is written, so segments may come first. The write takes
as many bytes as the whole section has from a struct that is only its beginning,
which leaves the static variables with whatever lies behind it: any value, in
the model. `SocketKey` and `RedirectKey` are the two formulas for the index of a
socket.

`TcpNetwork` defines segments and links. Sequence numbers have `WordMod` values
and all arithmetic on them wraps. The module also has the faults of a network:
loss, duplication, reordering of neighbours. `HtsNetwork` adds the cookies of
htscookie; hash functions are constants.

`TcpEndpoints` has clients and a server for both protocols. They are external
and contain what the agents depend on: handshake, request and response,
retransmission, PAWS, resets that must match the expected sequence number,
reconnection from a new port after a reset as in `test/client.c`.

`SwitchAgent`, `ServerIn` and `ServerEn` contain one action per case of the
handlers they model, each with every effect of that case. Where a program copies
a map entry and writes it back, there are two actions, and the constant
`Concurrent` says whether something may run in between; on a single CPU nothing
does. `InWriteBack` reads the seed again or reuses the value read earlier,
because the compiler is free to do either. All clients share one entry of
`map_seeds`; the code indexes it by the low half of the address.

`HtsCookie` composes the three with the endpoints.

`SmartCookie` has all of the other protocol in one module, since its agents are
small: `AgentSyn`, `AgentAck`, `AgentReset` and `AgentOutbound` for the gateway,
`InTranslate`, `InCreate`, `InRedirected` and `InOther` for `server_in`,
`EnCopy`, `EnSynAck` and `EnData` for `server_en`. The gateway puts constants in
place of its clock, and so does the model. `AgentAck` leaves an ECE flag that a
segment arrives with in place, as the code does; the history variable
`unchecked` remembers the connections of which the filter passed such a segment.

`ParseTimestamp` works on bytes. It has the masks of both parsers in memory
order, the comparison `(mask & word) == mask`, the walk over the options with
its two bounds (40 in the gateway, `MAX_TCP_OPTION` on the server) and the
checks of the callers. The result is compared with a reference that is computed
from the list of options instead of from the bytes.

`MCXsknfSetup`, `MCHtsCookie` and `MCSmartCookie` define values for constants,
and `TcpOptionLists` the headers for `ParseTimestamp`. `MCGateway` puts
`XsknfSetup` and `ParseTimestamp` side by side: a behaviour is one of either
part, the other rests, and the fairness is that of `XsknfSetup`. `Xsknf` and
`SwitchAgentKern` need no such module. `XsknfMoves` and `XsknfProofs` hold the
proofs.

## 4. Runs

Seven runs pass; five show a disagreement between the code and what the
repository says about it.

**`xsknf_two`** explores two interfaces that forward to each other, two frames
each, with batches of two. This is the smallest instance in which a frame can
end up in the completion ring of an interface that does not own it. No frame is
lost or in two places (`FrameInOnePlace`), a frame is refilled only where it
belongs (`FramesReturnToOwner`), the fill ring always has room, so the `exit`
after a failed reservation is dead code (`FillReserveNeverFails`), and
`outstanding_tx` is the number of frames on their way (`OutstandingExact`).

**`xsknf_one`** takes the separate code path for a single interface, and adds
liveness. Frames that a batch wants to send reach the transmit ring although it
may be full at first, a stop is followed by every worker, completed frames
return to the fill ring. Four frames and rings of two make the ring fill up.

**`xsknf_wrap`** and **`xsknf_hang`** are about the limits of those results. A
comment promises batches of 511 packets; the counters are `uint8_t`, and a batch
that reaches their range loses its frames. With two interfaces the retry loop
recycles completions of the receiving interface while it waits for the sending
one, and can wait for ever.

**`gateway`** is about the process around the workers, in two parts that share
no state.

The first is set-up and clean-up, with three workers, every mode and copy mode,
with and without an egress program, failing calls, up to two workers that meet
an error, and SIGINT at any time. As long as there is no error, no polling
worker loses its socket (`PollingWorkersHaveSockets`). A clean-up that finishes
leaves no memory or socket, and only those programs and filters whose own
removal failed (`NothingLeft`); nothing is claimed of a process that ends in the
middle of `xsknf_init`, which leaves attached what it has attached. A stop ends
the process, whoever cleans up, provided that no worker is held in the retry
loop for ever (`StopEnds`); `xsknf_hang` shows that one may be. The shift that
finds the owner of a frame is right for aligned frames (`OwnerFound`).

The second is the parsing of options: every header a sender may build from up to
four options (SYNs in the order that Linux uses), headers cut short, and
timestamps behind up to twelve NOPs. Both parsers report the place where the
timestamp is (`TimestampFound`), and where both find one they agree
(`AgentsAgree`).

**`redirect`** compares the two formulas for the index of a socket. Even with
the global data in place they agree for the first interface only; a segment of
another interface is redirected to a socket that is not its own.

**`hts_key_change`** is the main run of the protocol: three ports, two
connections at a time, two requests on each, one change of the key, one abort by
the server, on a reliable network and one CPU. `Synchronized` says that both
ends of an established connection agree on their sequence numbers once the agents have
translated them. `AdmissionPaid` says that the server only hears of a client that
returned a cookie, and that a stray ACK next to the cookie is not taken for one
that returns it. `TimestampsAdvance` keeps the
client from discarding segments by PAWS after a change of the key.
`CookieMatchesSeed`, `OwnCookiesValidate` and `SeedsAgree` relate the seeds
and the cookies of the two hosts. `HandedOverPass` says that the gateway lets
through whatever an established hand-over connection sends, also in the middle
of a change. `ResetAccepted` says that a reset of the server arrives with a
sequence number that the client accepts. The run has `-k` on: the gateway then
checks both cookies all the time, so the estimate `change_key_duration` and the
sleep of the main loop, although modelled, decide nothing in it.

**`hts_faults`** drops the two assumptions of the previous run: the programs of
the server interleave, and the network may lose, repeat or swap a segment.
`AdmissionPaid` survives. All segments come from clients that follow TCP here.

**`hts_two_clients`** gives two clients overlapping Bloom bits and checks that
both are served in the end, with XDP in SKB mode, where `server_en` leaves the
SYN flag for `server_in` to clear.

**`hts_race`** checks `Synchronized` when the server programs interleave, which
needs the SYN-ACK of the server to leave on another CPU than the one that runs
XDP for the connection, as with receive packet steering. The write-back of one
undoes that of the other and the connection is out of step for good. **`hts_second_connection`** shows that the cookie in `syn_cache` serves
one SYN only, while the address stays in the filter, so that further SYNs are
dropped however often they are repeated.

**`smart_cookie`** has one client with two ports, and a Bloom filter that takes
the second connection for known as soon as it has seen the first. The server
programs interleave, the Internet loses, repeats or reorders one segment, one
segment belongs to no connection and may have the ECE flag set, and the server
may abort. Under all of this connections are `Synchronized`, none reaches the
server without its cookie, and every connection is served or aborted by the
server. In particular a request that overtakes the handshake of the agents is
translated wrongly but repeated, and then served. All three properties leave out
a connection of which the filter passed a segment that had the flag set already:
`server_in` takes it for the gateway's tag. The run has `-o` on.

### Bounds

Sequence numbers have 16 values and cookies 4 in each half, so that wrapping
happens within a run: the server's first sequence number is 7 and a syncookie
may be larger or smaller. `MaxOpen`, `MaxRequests`, `MaxClock`, `MaxStrays`,
`MaxAborts` and `MaxFaults` count connections at a time, requests, clock ticks,
segments of unknown connections, aborts and faults of the network. Three ports
are enough for a reset, a return, and a hand-over beside it, which is every path
through the agents. `DROP_THRESH` is 1 instead of a rate, so one stray segment
changes the key. Rings of the worker model have one, two or four entries; what
matters is whether a ring is full, empty or neither, and the proofs lift the
bound. Faults of the network strike everywhere in
`hts_faults`. In `smart_cookie` they strike between client and gateway;
section 6 says what one behind the gateway does. Deadlock is not checked because all of these systems may stop: workers
are told to, and clients run out of requests.

### Fairness

`Xsknf!FairSpec` has weak fairness for the worker, a thread pinned to its own
CPU, and for the kernel's transmission on each interface, since the driver sends
as long as there are descriptors and room for completions. Nothing is assumed
of arriving packets or of the user. `XsknfSetup!FairSpec` assumes that threads
are scheduled; it assumes neither errors nor a signal, nor that a worker leaves
the retry loop, which `StopEnds` names as its condition.
`HtsCookie!FairSpec` assumes that the gateway serves both of its interfaces,
which the loop over interfaces in the worker does, that programs run for the
segments that arrive, that endpoints read what they are sent and that their
timers expire, which includes that a client which may connect does so, as the
loop of `test/client.c` does. `SmartCookie!FairSpec`
assumes the same. Faults, stray segments and aborts need not happen.

## 5. Proofs

`XsknfProofs` contains five theorems about `Xsknf`, for every number of
interfaces, frames and ring entries, every batch size, with and without poll:

| Theorem | Establishes |
|---|---|
| `TypeCorrect` | `TypeOK`: arrays stay within a batch, rings within their size |
| `FramesConserved` | `FrameInOnePlace` |
| `OwnersKept` | `FramesReturnToOwner` |
| `FillNeverFull` | `FillReserveNeverFails` |
| `OutstandingCorrect` | `OutstandingExact` |

They rest on two assumptions. `ConfAssumption` says that sizes are positive and
a fill ring has room for all frames of its socket, which the sizes
in `xsknf.c` satisfy (4096 each). `NoWrap`, a hypothesis of each theorem, says that a batch is
smaller than the range of its counters. The run `xsknf_wrap` shows that the
second one cannot be dropped.

None of the five is inductive by itself. That a fill ring has room follows from
counting the frames it could receive, so one must know that frames are distinct,
which depends on where the worker is in its loop: while `to_fill` is being
emptied, its counter and its contents must agree, and between batches the arrays
must be empty. `IInv` in `XsknfMoves` collects this: the frames of all places
are distinct and cover the UMEM, each place is within its capacity, places that
lead to a fill ring hold the owner's frames only, counters equal lengths, what
remains of a batch fits into the arrays, arrays are idle outside the phase that
uses them, and `outstanding_tx` equals the sum of what is in flight.

Nearly every action moves a prefix of one sequence to the end of another.
`XsknfMoves` proves once that such a move keeps distinctness, coverage and
capacity, and what it does to lengths. `XsknfProofs` then has one lemma per
action, which names the places that the action moves between and deals with the
control variables. The temporal theorems combine `InitInv`, the lemma for
`Next`, and the fact that the invariant implies the property.

Liveness, the set-up, the protocol and the parsers are model-checked only. The
liveness results are outside what this prover handles; invariants of the
protocol are the next ones to be proved.

## 6. What the models show about the code, beyond the runs

While the models were built, TLC or the translation itself also showed the
following. They are recorded as notes on the hazards in `PROJECT.json`.

* With `-p`, a timeout of `poll` skips the whole iteration. Completed frames
  stay in the completion ring until a packet arrives.
* A worker that is joined for the second time answers `EINVAL`; clean-up goes on
  and deletes sockets that another worker is still polling. Three failing
  workers can wait for each other in a circle (the run has two).
* An error inside `xsknf_init` joins threads that were never created, and one
  while programs are attached leaves those before it in place.
* In combined mode, a segment that arrives before the global data is written
  copies zeros into the redirect program's static variables, and the write
  itself runs over them.
* `-u` accepts frame sizes that are no powers of two; the owner of a frame is
  then computed wrongly.
* If the last ACK of a hand-over is repeated after `server_en` has stored
  `delta`, `server_in` overwrites it.
* With `-k`, a connection admitted by way of a reset holds neither of the two
  cookies the gateway accepts during a change of the key.
* With `HSIPHASH`, the cookie of a SYN-ACK is computed after source and
  destination were swapped, and that of the ACK before, so cookies do not
  validate. The runs use `HARAKA`, which the programs default to.
* Two addresses with the same slot in `syn_cache` can keep one of them out.
* The server may file a cookie made with the old seed under the new one when the
  seed changes between two reads on another CPU.
* In smartcookie, a tagged ACK that reaches the server twice replaces the final
  `delta` by the raw one. Without `-o` the SYN-ACK carries the client's own
  timestamp, and a client whose clock is past 2 then discards by PAWS what the
  gateway stamps with 2. The example command of `README.md` has no `-o`.
* In smartcookie, a segment that arrives at the gateway with the ECE flag set and
  is passed by the Bloom filter opens a connection that nobody has checked.
* In smartcookie, `server_en` looks for timestamps in headers of more than 32
  bytes. Ordinary segments have 32, so the timestamp the comment says is stored
  is that of the SYN-ACK for good.
* For SYNs with options in unusual orders a mask may match data bytes of another
  option. Behind ten NOPs the gateway finds a timestamp and the server does not.

## 7. Plan

1. `KHashMap`: the hash table with bucket locks and lock-free lookups that retry
   when the list they followed ends in another bucket's marker. Threads that
   insert, delete and look up; a key that is present throughout a lookup is
   found, the count is right, a lookup ends.
2. The rest of the gateway: SYNs of the protected host, several workers
   sharing filter, cache and seeds.
3. An abstract admission protocol, *no connection before its cookie came back*,
   and `HtsCookie` and `SmartCookie` as implementations of it.
4. An abstract pool of frames, each received, held, sent or free, and a proof
   that `Xsknf` implements it under the mapping from places to states.
5. Proofs for the protocols: `AdmissionPaid` first, since it needs no assumption
   about interleaving, then `CookieMatchesSeed` on one CPU, and `OwnerFound`.

## 8. Not modelled

Haraka, HalfSipHash, MurmurHash and CRC are functions without state; the models
take them as constants, so nothing here speaks of their strength. Checksums and
MAC addresses are recomputed from fields the models keep. Statistics, option
texts and logging do not influence packets. Only the TCP cases of the gateway
are modelled: `handle_xdp` redirects nothing else to user space. Loading of eBPF
objects is reduced to whether it succeeded. The `test` programs, the benchmarks
and the vendored libraries are outside the scope; what the models need of
libbpf, libxdp and POSIX threads is marked external.
`conntrack_map` never deletes entries and is pinned across reloads of the
programs, but no run restarts an agent: the models start from empty maps.
