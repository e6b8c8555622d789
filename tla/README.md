# Justitia in TLA+

Justitia shares one RDMA NIC between applications. A daemon per host, the *pacer*
(`rdma_pacer/`), hands out send permissions through shared memory; patched user-space
drivers (`libmlx5-41mlnx1/`, and `libmlx4/` with the same logic) cut large messages
into chunks and wait for a permission before each chunk. The pacers of the sending
hosts and of their receiver tell each other how many flows of which kind are active,
and each sending pacer steers the rate it hands out permissions at by a latency it
measures itself. This directory holds TLA+ models of that logic, TLC runs over them,
and proofs checked by TLAPS.

The models follow the build as it is configured in the sources: `CPU_FRIENDLY`,
`USE_CMH`, `USE_TIMEFRAME` and `HACK_APP_NUMS` are off, `TREAT_L_AS_ONE` is on.
File names below are relative to the root of the repository.

## 1. Inventory

| Component | Where | State | Operations |
|---|---|---|---|
| token loop and token waits | `rdma_pacer/pacer.c` `generate_fetch_tokens`; `__mlx5_post_send`, `__mlx4_post_send` | `flows[].pending/read`, `active_chunk_size`, `virtual_link_cap` (shared); `cb.tokens`, the scan position (daemon); `debit` per process | make a token, scan, grant, wait; raise pending and spin, per WR or per batch |
| splitting, one-sided verbs | `split_mlx5_post_send`, `mlx4_post_send` | the WR being cut, the chunk size loaded once | WRITE and READ as chunks; the rest of the list behind the last one |
| splitting, two-sided verbs | `libmlx4/src/qp.c`, `cq.c` | `split_qp[0]`, `split_qp2`, their completion queues and channels, and `split_fc_msg` | first chunk, INFO, ACK, chunks; reassembly inside `ibv_poll_cq`; WRITE with immediate; arming and taking events |
| work queues of `libmlx4` | `libmlx4/src/qp.c`, `srq.c`, `cq.c`, `verbs.c` | head and tail of each queue, the free list of the SRQ, the completion ring with its owner bits and consumer index | post, ring, poll, clean a destroyed queue pair's completions, resize |
| flow registration and exit | `libmlx5-41mlnx1/src/pacer.c`, `qp.c` (start_flag), `pacer.c` `find_next_slot`, `flow_handler` | `pid_list`, `num_active_*_flows` (shared, `uint16_t`), the process's own counts, `isSmall`, `start_flag` | join, register at the first post, exit handler, forwarding to the receiver |
| pacer-to-pacer updates | `pacer.c` `flow_handler`, `monitor.c` `monitor_latency`, `server_loop` | one queue pair per host, its `send_cq`, one receive request per direction, the receiver's counters | send an update, count it, broadcast INFO, the reference flow |
| virtual link control | `monitor.c` `monitor_latency` | `virtual_link_cap`, the measured tail, `temp` | halve, raise by one, lower bound, release |
| pacer start-up and shutdown | `pacer.c` `main`, `termination_handler` | the shared block | initialise, unlink |
| pacer handshake | `pingpong.c`, `server_loop` | one listening socket and one queue pair per slot of the server, `rem_dest` at both ends | connect, exchange addresses, "done", RTR, RTS |
| split queue pair bring-up | `verbs.c` of both drivers | companion queue pairs | create, guess the peer's number, pre-post |
| not in use or not ours | READ pacing (threads commented out), token sockets, count-min sketch, vendored libibverbs, the rest of the drivers, benchmarks, scripts | | |

How they interact. An application's driver and the host's pacer share one memory block,
written with single relaxed loads and stores (flags, sizes) and atomic adds (counters).
Joins and exits go over a Unix socket to `flow_handler`, which forwards the exits and
first posts to the receiver's `server_loop` over an RDMA queue pair that
`monitor_latency` uses too. `server_loop` broadcasts its counts; `monitor_latency` reads
them, and turns them and its latency samples into `virtual_link_cap` and the
"latency flows present" input of the token loop, which sets the chunk size that every
driver cuts by.

What is hard. Flags written from both sides without a lock; several posting threads
behind one flag; a signal handler that takes back what the interrupted code was about to
add; two daemon threads that poll one completion queue for their own completions; single
receive requests and blocking broadcasts; counts kept twice by independent means;
`uint16_t` counters that wrap; a chunking protocol over three independent queue pairs
whose two ends decide separately whether a message is split, and whose threads sleep on
one event for several completions; rings that software and adapter use without a lock,
with counters of different widths that wrap at different times; a handshake in which each
end moves to RTS without seeing the other do so. `PROJECT.json` lists each
such place under `hazards`, with the properties aimed at it.

What makes the components correct:

* token loop: one permission per request, given to somebody who waits; nobody is passed
  over for ever; the loop never stops with work left; a throughput flow's account stays
  within one batch above and one list below zero;
* registry: a pid keeps one slot and shares it with nobody; the two counts of the same
  flows agree when nothing is under way; what came is taken back when it goes;
* updates: none lost, none counted twice, views of bounded age, everybody is told;
* link control: the cap stays within the line and, unless the host is told of very many
  flows, open; floors can be honoured together while both ends count alike; the line is
  given back;
* two-sided splitting: every chunk lands in its own place, the application sees whole
  messages, the call returns, and no wait misses the event it sleeps for;
* work queues: each completion is reported once, in order and for the right request; no
  entry is overwritten, lost or listed twice, through errors, destroyed queue pairs,
  numbers that are used again, and resizes;
* handshake: a queue pair is ready only for the client that agreed on it, a client that
  is ready has or gets its partner, a client that is turned away costs no slot, and
  nobody hangs.

## 2. Modules

| Module | Models | Notes |
|---|---|---|
| `TokenService` | what the token loop promises: ask, allow, use, withdraw | abstract |
| `TokenPacer` | the token loop against the posting threads, exits and kills | implements `TokenService` |
| `TokenPacing` | `TokenPacer` with the worth of each token in bytes | composition by history variables |
| `ReceiverUpdates` | flow_handler and monitor_latency of the hosts, server_loop | |
| `FlowRegistry` | join, registration, exit, and both sets of counters | |
| `LinkCap` | the AIMD loop of each host, fed by the counts that processes keep at their host and at the receiver | |
| `PacerHandshake` | how pacers and their receiver bring up their queue pairs | |
| `SplitTwoSided` | SEND, WRITE with immediate and WRITE in chunks, sender and receiver, with the completion events they sleep on | |
| `CompletionService` | what `ibv_poll_cq` promises | abstract |
| `SendQueue`, `SharedReceiveQueue` | the send ring, and the linked free list of an SRQ, against the adapter | state and steps, no specification of their own |
| `CompletionQueue` | the two above with the completion queue they share: poll, clean, destroy, resize | composes them; implements `CompletionService` |
| `PacerProofs` | theorems about `TokenPacer`, `LinkCap` and `PacerHandshake`, which meet in one daemon and are proved side by side | TLAPS, section 4 |
| `CompletionQueueLemmas`, `CompletionQueueProofs` | the inductive invariant of the work queues with the lemmas about their parts, and the theorems | TLAPS |
| the other `...Proofs` | theorems about the module they are named after (`SplitWholeProofs`: `SplitTwoSided`) | TLAPS |
| `Arithmetic` | lemmas on remainders and on sums over sets, for the proofs | TLAPS |
| `MC...` | the constants TLC runs them with | |

### TokenPacer

Constants are the number of slots, the posting threads and the slot of each, the class
of each slot, and the lists of work requests an application may post. `ppc` is the place
of `generate_fetch_tokens` in its loop: `LoadCap` (`pacer.c:518`), `ScanRead` and
`ScanPending` (the two loads of one `if`, kept apart), `Grant` (the store that clears
`pending` and takes the token), `Refill` (the wait and the next token, with the chunk size
it is worth). A posting thread takes a call (`PostSend`), which fixes the chunk size and
cuts the first WR into `work`, a sequence of batches of posts; each WR of a bandwidth flow
raises `pending` (`RequestWR`), spins, and is posted (`PostWR`) or fails; a throughput
flow builds its list first (`BuildBatch`), subtracts it from `debit`, and asks for a token
when the account runs out (`RequestBatch`, `CreditBatch`, `RingBatch`). `BeginExit`,
`ClearPending`, `EndExit` are `set_inactive_on_exit` step by step, `Kill` is SIGKILL.
`credit` (grants not yet used) and `bypass` (grants to others while a flow waits, counted
up to `NumFlows`) are history variables. `Monitor` stands for the stores of the monitor thread.

The wait itself has no clock: a token carries the chunk size its wait was computed from,
and `TokenPacing` compares that with the bytes posted on it.

### ReceiverUpdates

A host's queue pair is the sequence `sq`; `Transmit` executes its head, which needs the
receiver's single receive request if it is an update, and puts a completion in `scq`,
which either thread may take. `server_loop` is `ServerPoll` (count, repost), then
`ServerSend`/`Deliver`/`ServerReap` per host. The counters wrap at `CountMod`.

### FlowRegistry

A process joins at its first queue pair, registers at its first post in the steps of the
`start_flag` block (local count, message to the pacer, add to the shared block), and
leaves through the exit handler: take back the local count, tell the pacer, clear the
flags. `EarlyExit` and `Crashes` are the processes whose registrations may be interrupted
and those that may meet SIGKILL; `irregular` marks the processes for which the counts can no longer be expected to match.
The pacer may exit itself (full table, closed socket), after which the host is not
followed any further.

### LinkCap

One action is one iteration of the monitor loop. The uninitialised `temp` of `monitor.c:409`
is a choice from `Garbage`. What the iteration loads is kept by others. `Arrive` and
`MarkRead` are a registration (`FlowRegistry` has it step by step), by class: a bandwidth or
throughput process adds itself to the host's `num_active_big_flows` (`localBig`) and tells the
receiver, a READ one does neither. `Leave` is the exit handler: a bandwidth process takes its
own count off again, a throughput or READ process takes nothing off, and each of them tells
the receiver of one exit. So a throughput exit leaves the host's count up while the
receiver's goes down, and a READ exit takes away an arrival that was never announced, at
worst from 0 to 65535 (`CountMod`). `DepartEarly` is the handler in the middle of a
registration, `KillApp` SIGKILL. What a host tells is `underway` until `Count`, and the host
learns the receiver's count by `Inform`. `irregular` marks runs with an exit that the two ends
count differently, `crowded` a host whose last iteration was told of at least
`2 * LINE_RATE_MB` flows.

### PacerHandshake

A run of a pacer on a sending host is a client (one that is started again is another
client). The server's `spc` walks through `init_monitor_chan` once per slot: the listening
socket is opened for one client and closed when it is accepted, so that `waiting` is `None`
between two slots, a client that connects then is refused, and one that was queued behind
the accepted one is reset. `toServer` and `toClient` are what is under way on a
connection; `Reads` is `read` returning a message or, when the client has closed and
nothing is under way, the end of the connection, upon which the server gives up
(`goto out`) and uses up the slot. `KillClient` is SIGKILL of a client anywhere in the exchange.
`cdest` and `sdest` record whose address each end was told and for whom a server's queue
pair reached RTS.

### SplitTwoSided

Per end, a thread in `mlx4_post_send` (`spc`) and one in `mlx4_poll_cq` (`rpc`); the user's
queue pair, `split_qp[0]` and `split_qp2` are three channels that deliver independently,
each of which waits for a receive request. `placed` records where each piece landed, in
which receive request and from which message. The comments `<1>` to `<6>` of both source
files are quoted at the actions. Three protocols share these queue pairs: a SEND (first
chunk on the user's queue pair, then INFO, ACK and the other chunks), a WRITE with
immediate (all chunks but the last on `split_qp[0]`, the last of those with the immediate,
then the last chunk on the user's queue pair), and a plain WRITE (the same, polled once).

Every wait takes an event from a channel, arms it again and then polls, as three steps:
`Wake` takes the event and re-arms, `Polled` ends the wait. `mlx4_arm_cq` hands the adapter
the consumer index, and the adapter raises an event at once if something lies beyond it;
`Rearm` says so, and `RearmForNew`, which does not, is the mutant under which messages stop
arriving.

### SendQueue, SharedReceiveQueue, CompletionQueue

The ring of a send queue, its array of request numbers and three counters (`sqHead`,
`sqTail`, and the adapter's `hwSq`), with entries written before the doorbell is rung
(`WriteWqe`, `RingDoorbell`), the stamp `sq_spare_wqes` ahead of an entry, and an overflow
check that reads a tail it does not own. The counters are 32 bits wide in the source and a
completion names its entry in 16; the model keeps two different widths, `IndexMod` and
`WqeMod`, and starts a few entries before both wrap. That the stamp never meets an entry in
flight needs the overflow check to be exact, which `SendEntriesIntact` shows.

The free list of the SRQ is linked through the entries themselves; the adapter follows the
same links. The last free entry cannot be posted, so the list is never empty and the end of
it always known.

`CompletionQueue` gives the adapter's `Produce` and the three things that hold the queue's
lock: polling (`BeginPoll` to `EndPoll`; the consumer index is told to the adapter at the
end of a call), sweeping out the completions of a queue pair that is being destroyed
(`mlx4_cq_clean`, entry by entry, while the adapter goes on writing past the point where the
sweep began), and a resize (a second ring, a mark in the first, and the copy of what was
not polled). Queue pairs go to the error state, are destroyed, and are created again under
the same number. The application must not have more requests outstanding than the queue has
entries; `due` is its own count, and a request whose completion was swept out with its queue
pair stays in it, as the application cannot know that it is over. A resize that asks for
too little is refused without an error.

## 3. Runs

All passing runs explore their state space exhaustively.

| Run | Instance | Shows |
|---|---|---|
| `pacer_service` | a bandwidth and a throughput process, lists of one WR and of one in two chunks with another behind it, changing chunk size, batches of 2, failing posts, exits, kills; fairness | `TypeOK`, `DebitBounds`, `TokenBound`, `OneTokenPerRelease`, `BoundedBypass`, `NoWastedToken`, `Served`, refinement `ServiceSafe` and, with liveness, `Service` |
| `pacer_threads` | 2 threads behind one flag beside a READ flow | `NoWastedToken`, `FlowServed` |
| `pacing_list` | 1 process, a short WR before a long one | violation of `PacedAtLinkRate` |
| `updates_safe` | 2 hosts, 2 updates each, counters modulo 4 | `TypeOK`, `CountsAccountForUpdates`, `OneCompletionEach`, `BoundedStaleness` |
| `updates_stuck` | the same with fairness | violation of `EveryoneInformed` |
| `registry` | 3 processes of all classes on 2 hosts, 2 slots, counters modulo 3, early exits of two and kills of one | `TypeOK`, `CountsAgree`, `OneSlotPerPid`, `ReceiverClears` |
| `registry_early` | 2 processes on one host, no interruption | violation of `SmallAreLatencyFlows` |
| `linkcap` | 2 hosts with a process each, of any class, 2 registrations begun, line rate 3, counters modulo 8, garbage 0 or 4 | `CapTypeOK`, `LinkStaysOpen`, `FloorsFit`, `GetsLineBack` |
| `bring_up` | 4 clients, 2 slots, room for one more in the listening queue, 1 kill | `HandshakeTypeOK`, `AgreedBeforeReady`, `ReadyOrComing`, `NoSlotWasted`, `HandshakeEnds`, `ServerMovesOn` |
| `split_send` | 2 ends taking turns, 2 messages and 1, of 1 or 5 units and all three verbs, chunks of 2, 3 or 5, threshold 2 | `TypeOK`, `InPlace`, `DeliveredWhole`, `SenderReturns`, `EveryMessageArrives` |
| `split_small` | the same with lengths 1, 2, 3, 5 and chunks of 1 or 2 | violation of `DeliveredWhole` |
| `queues` | 2 queue pairs with send rings of 4 (2 spare), an SRQ of 4, a completion ring of 4 that becomes 2 or 8; counters two steps before they wrap; 3 posts, one error, one destroyed queue pair, one resize | `TypeOK`, `OwnerBitsTell`, `NoOverrun`, `SharedEntriesAccounted`, `SendEntriesIntact`, refinement `PollsInOrder` |

Why the bounds are enough to be interesting:

* two slots, one of each class that is paced, let either be passed over for the other; that
  round robin holds with more of them is proved; two threads behind a flag are the least
  that can steal each other's grants, and beside them the READ slot must be skipped; two
  chunks and a list behind them reach every branch of the cutting; batches of two with lists
  of up to two cross the account's zero;
* two hosts are the least for a broadcast that blocks on one while another waits, two
  updates per host the least at which a second one meets a receive request that was not
  yet reposted; `CountMod = 4` makes the counters wrap;
* two slots for three processes reach the full table; `MaxQPs` of 2 for one process makes
  it join twice;
* counters modulo 8 beside a line of 3 let a count that wraps below zero reach twice the line,
  where a floor rounds to zero (the link is then closed within 8 steps); two registrations are
  enough for two hosts to share the line, for a process that left its count behind to be
  followed by another, and for an unannounced exit to meet a flow of the other host. Line and counters are as small
  as that allows, for the run has 887,104 states;
* four clients for two slots: at each slot one is served, one is queued behind it and reset,
  and one finds no listening socket; a kill can hit any of them at any place of the exchange
  (two kills were checked as well: 299,702 states);
* a completion ring of 4 passes its end in a run, so the owner bit flips, and the counters
  pass zero; three receives, the most that the SRQ holds, can be swept out last to first; a resize to 2 is refused or not depending on what is unread; two queue
  pairs are the least at which a sweep must leave some completions and drop others;
* lengths 1 and 5 with chunks of 2, 3 and 5 give a message below the threshold, exactly one
  chunk, two and three chunks with a short last one (lengths 2 and 3, at the threshold and
  just above, were checked with chunks of 2 and 3: 402,254 states); the second message of an end
  uses every companion queue pair again after one of another verb and chunk size, and the
  message of the other end uses them the other way round.

`CHECK_DEADLOCK FALSE` stands where the system really may stop: every process has gone
(`registry`), every client has ended and the server is in its loop (`bring_up`), or the
bounded messages and posts are used up (`split_send`, `queues`).

Fairness. `TokenPacer`: weak fairness of the daemon loop and of each thread inside a call
or inside the exit handler. The loops are plain code on their own threads, so a scheduler
that runs every runnable thread now and then is enough; nobody is obliged to call, exit or
be killed. `FlowRegistry` and `LinkCap`: weak fairness of the daemon threads and of
processes that are inside a registration or an exit; `GetsLineBack` assumes in its premise
that the environment settles. `ReceiverUpdates`: also of the queue pairs, which retry for
ever (`rnr_retry = 7`). `PacerHandshake`: of the server and of each client inside the
exchange; nobody has to be started or killed. `SplitTwoSided`: of the threads inside a call, the network, and the
applications' polling, without which no SEND is ever received.

### What the violations show

* `split_small`: a SEND is cut by the pacer's current chunk size, 5000 bytes while latency
  flows are present, but recognised by the receiver only from 1000000 bytes on
  (`libmlx4/src/cq.c:753`). The first chunk is delivered as if it were the message, and the
  sender waits for ever.
* `updates_stuck`: `flow_handler` can take the completion `monitor_latency` waits for. The
  monitor then waits for the SEND's, the SEND for a receive request of `server_loop`, and
  `server_loop` for the monitor's: the pacers stop.
* `registry_early`: a process that created a queue pair and exits before its first post
  reports the end of a latency flow that never was; the receiver's `uint16_t` wraps.
* `pacing_list`: only the first WR of a list is cut; a long one behind it goes out whole on
  a token worth one chunk.

Two more were met on the way and are in the hazards only, without a run of their own: with
SENDs in both directions at once the sender of a next message can take the completion its
own end's receiver thread waits for, and both ends stop (`HalfDuplex = FALSE` in
`split_send.cfg`, two messages per end); and with `ne > 1` the length of a split message is
written into the first entry of `wc` (`Batch = 2`).

Every property of a passing run is shown to depend on the code by a mutant: a `Faulty
variant` in the module, substituted for the definition it stands next to, makes TLC find
the property violated.

## 4. Proofs

`PacerProofs`, the token loop: for every number of slots and threads, every assignment of
threads to slots, all sizes, caps and calls that satisfy the assumptions of `TokenPacer`:

* `TypeCorrect`: `SafeSpec => []TypeOK`. `TypeOK` alone is not inductive: that the head of
  `work` exists when a thread takes it depends on where the thread is. `TypeInv` adds that
  a thread in "post", "debit" or "spin" has work left. `ChunkBounds`, `PostsType` and
  `AfterWRType` are the lemmas on the cutting: a message of positive length gives at least
  one chunk, all of positive length.
* `TokensAreOneOrZero`: `SafeSpec => []TokenBound`. The strengthening `TokenInv` says at
  which places of the loop there is exactly one token and at which none.
* `OneGrantPerRequest`: for single-threaded processes (`SingleThreaded`, no two threads
  share a slot), `SafeSpec => []OneTokenPerRelease`. The inductive invariant `HandInv` is an
  account of where the request is: in exactly one of the raised flag, the token the scan has
  fetched for it, and the grant nobody has seen yet; where no thread of a flow waits there
  is neither a grant nor, unless the process has ended, a flag. One lemma per group of
  actions (`HandDaemon`, `HandRaise`, `HandRelease`, `HandMove`, `HandExit`) shows that the
  account is kept; `HandStep` puts them together.
* `PacerImplementsService`: for single-threaded processes, `SafeSpec => ServiceSafe`, the
  safety part of `TokenService` under the refinement mapping of `TokenPacer`. `ServiceStep`
  maps a step to `Ask` (raising the flag), `Allow` (the store that clears it), `Use` (the
  spinning thread that sees it cleared), `Withdraw` (the exit handler's clear) or a stutter;
  `HandInv` gives the guards of the abstract actions.
* `TokenReachesWaiter`: `SafeSpec => []NoWastedToken`, for any number of threads per slot.
  The strengthening `WaitInv` says that a raised flag has somebody behind it, and that the
  flag the scan is about to clear is still raised unless its process has taken it back.

* `RoundRobin`: `SafeSpec => []BoundedBypass`, for any number of slots and of threads per
  slot. `BypassInv` adds the way the scan still has to go to a waiting flow (`Distance`) to
  the grants it has already been passed over by: together never more than `NumFlows - 1`.
  READ flows are outside that count, so `ReadInv` shows that a flow enters it only with a
  count of zero: the registration lasts from the first call to the exit handler.
* `DebitStaysBounded`: for single-threaded processes, `SafeSpec => []DebitBounds`. The
  account of a throughput process is changed where a list is debited and where a token is
  credited; `DebitInv` adds that a thread which spins for a token has used up what it had, so that a
  credit never adds to one, and that no list being posted is longer than the longest call.

The argument that needs the single thread: a second thread of the process may raise the
flag between the grant and the moment the first one looks, and both go on with one token.
`pacer_threads` has that case and asks for what remains true of it.

`FlowRegistryProofs`, for any hosts, applications, table length, counter width and queue
pairs, with early exits and kills:

* `TypeCorrect`. `TypeOK` is not inductive: that the first of the steps still to do exists
  when a registration takes it is `StepLeft`.
* `OnePidPerSlot`: `Spec => []OneSlotPerPid`. `SlotInv` adds `OwnHost`, that a message in
  a pacer's socket was sent by a process of its own host: a join is answered from the table
  of the right host.
* `CountsRight`: `Spec => []CountsAgree`. Its conclusion is about moments when nothing is
  under way; `CountInv` says what the counts are in between, as long as nothing irregular has
  happened. The receiver counts exactly the processes whose arrival it has been told and whose
  exit it has not (`Reported`: the message is neither still to be sent nor in a socket,
  `WireInv`, whose part `Ordered` says that the exit of a process is behind its arrival); a host's
  block counts those that have taken the `add` step of their registration and not the
  `ExitCount` of their exit (`SmallOn`, `BigOn`). `Local` ties `isSmall`, the local counts and
  what is left of a registration to the class of the queue pair, which is why what an exit takes
  back is what the arrival added; `Marked` is about the READ flags, which decide in `ExitCount`.
  Each counter is a cardinality modulo `CountMod`, so the wrap needs no case of its own.

`ReceiverUpdatesProofs`, for any number of hosts, kinds and number of updates and width of
the counters:

* `TypeCorrect`; `CompletionForEach`: `Spec => []OneCompletionEach`, which is inductive
  together with `TypeOK`: the completions in a host's queue and those still to come from its
  queue pair are as many as the threads that poll, whoever takes whose.
* `TwoBehindAtMost`: `Spec => []BoundedStaleness`. `ViewInv` accounts for the broadcast the
  server is in: the last INFO sent to a host is of the present version or, if the broadcast
  has not reached it, the one before (`LastInfo`); the host has read all of them but the one
  that lies in its buffer, and the buffer is free while its receive request is posted.
* `CountsAccount`: `Spec => []CountsAccountForUpdates`. With `BufferFree`, that a posted receive
  request has a free buffer, it is inductive (`AccountInv`): an update moves from a host's queue
  to its buffer and from there into the counter, and the sum over the hosts of what was issued
  and is neither queued nor held changes only when the counter does. `Occurrences` are the places
  of an update in a queue, so that the same one may be queued twice.

`PacerProofs`, the virtual link: for every set of hosts, line rate, counter width and garbage:

* `CapTypeCorrect`, and `LinkNeverCloses`: `CapSpec => []LinkStaysOpen`, for whatever the processes
  and the receiver count. The exception that the property makes, an iteration that was told of
  `2 * LINE_RATE_MB` big flows or more, is real: 512 slots on each of 36 hosts are 18432 flows, more
  than twice the 6000 MB/s of the line, and one READ process that exits before anything was
  announced takes the receiver's count to 65535. A single flow's share then rounds to zero, halving
  gets there, and the token loop stops until the count is lower or the latency flows are gone.
  `FloorBounds` is the arithmetic of the lower bound.
* `FloorsFitTogether`: `CapSpec => []FloorsFit`. `CountsInv` is the invariant behind it: while every
  exit was that of a bandwidth process with one queue pair, what the hosts count and have not yet
  told adds up to the receiver's count modulo its width (`CountedWraps` is the step of a host's own
  counter, which may wrap as well); so informed hosts divide by the sum of their own counts
  (`InformedTotal`). `FloorIsShare` bounds twice a host's rounded floor by its exact share and one
  half; added up over the hosts, the shares are the line less one share. The premise `~irregular`
  cannot be dropped either: TLC finds floors above the line after a throughput or READ exit, for the host's
  count stays up, or the receiver's is too low, for as long as the pacer runs.

`Arithmetic` holds what several of these proofs need and the library does not state: remainders
(`RemUnique`, `RemAdd`, `RemEqual`: two numbers less than a divisor apart with the same remainder are equal), and sums over a
finite set, `SumFunctionOnSet` of the community modules (`SumUnfold`, `SumChange`, `SumBound`). That
operator is a fold, defined by a recursive function on sets; `FoldsAgree` and `FoldsExist` show
that the function exists and is unique. The induction behind it, `SubsetInduction`, is stated about a *set*
of good subsets, not about an operator: in that form the library's theorem on minimal elements of
a well-founded relation (`WFMin`) proves it.

`PacerProofs`, the handshake: for any number of clients, slots, length of the listening queue and
kills, given that `None` is none of the other constants:

* `HandshakeTypeCorrect`, `Agreed`, `Ready`, `NoSlotLost`: `HandshakeSpec => []HandshakeTypeOK`,
  `[]AgreedBeforeReady`, `[]ReadyOrComing` and `[]NoSlotWasted`. All four follow from one
  inductive invariant, `HandshakeInv`: `ServerInv` (what the server knows of its connection
  at each place), `QueueInv` (who waits at the socket is at "write" or beyond, and waits
  once), `ClientInv` (for each place of a client, what is under way in both directions and
  where the server can be), and `NoSlotWasted` itself.

`SplitTwoSidedProofs`, for any lengths, chunk sizes, threshold, batch and number of messages,
half duplex or not:

* `TypeCorrect`: `SafeSpec => []TypeOK`. It says more than its name: no chunk is empty or of
  negative length, except the write that carries the immediate of a WRITE of one chunk, and
  no thread takes the head of an empty queue. `SplitInv` adds to it, per end, `JobInv` (the
  bytes still to be sent are enough for every chunk still to come and one more, so the last
  one is not empty) and `RxInv` (a message being put together has a buffer, and a chunk left
  to wait for). `Divide`,
  `NumChunksBounds` and `FirstLast` are the arithmetic of `ceil_helper` and of the length of
  a first chunk.

* `ChunksInPlace`: `SafeSpec => []InPlace`, for any lengths, chunk sizes, batch, number and mix
  of messages, under two hypotheses that the code does not establish by itself: the ends take
  turns (`HalfDuplex`), and no chunk is smaller than the receiver's threshold (`LargeChunks`;
  `split_small` shows what happens otherwise). `None` must be none of the `Items`
  (`NoneAssumption`). The three queue pairs deliver in any order, so what
  makes the chunks find their requests is an agreement between the two ends, `PlaceInv`. For
  the direction whose turn it is, `Sending` says:
  - `Order`: messages reach the application in the order they were posted in, and what is at
    hand is older than what is still on the way;
  - `JobLatest`, `OnSplitWire`: the message being split is the latest one, and
    `split_qp[0]` carries exactly what its thread waits for;
  - `Phase`: `Announced` is the set of messages that the receiver has still to recognise or
    whose INFO it has still to take. Either one request is left and nothing but the next
    INFO can use it up (`Open`), or it is used up and one completion tells of it (`Used`: by
    INFO that announces nothing, by INFO that the sender awaits an ACK for, or by an immediate),
    or a message's chunks are under way and the requests left are those of the chunks to
    come, in order, with one for INFO behind them (`Exchange`);
  - `Acks`: there is one ACK or its completions exactly while somebody waits for it, which is
    what lets both threads of an end poll the same completion queue.

  `Resting` says that the other direction is empty. Each action of the direction under way has
  a lemma (`Running`, the invariant, to `Kept`, the parts of it that could be disturbed);
  `RestDisabled` and `AllArrived` are about turns.

`SplitWholeProofs` goes on from there, with one hypothesis more: completions are polled one at a
time (`Batch = 1`; with more, the length of a split message is written into the entry of another).

* `WholeWhenHanded`: `SafeSpec => []DeliveredWhole`. That the application is told of a message
  only when all of it has landed is a statement about the end of an exchange; `WholeInv` is
  about every moment of it, in two halves.
  - `Bytes` is where each byte of each posted message is (`Account`): in the buffer, on the
    user's queue pair, on `split_qp[0]`, or not posted yet (`Held`), and those of no other number
    are anywhere. The lemmas under "How bytes move" say that posting, landing and a new message
    keep the account, and there is one for each action. `JobWhole` is what makes the chunks of a
    WRITE add up: what its offset, the chunks left and the last one come to.
  - `Told` is what the receiver's sum comes to: the first piece is a chunk long while others
    are to follow it and the whole message otherwise (`FirstPieces`), and the sum so far, the
    completions that have come and the chunks to come make up the length (`Adding`), of which
    all but the last are as long as each other.

  `LatestPosted` then gives the theorem: what has been handed out is older than what is on the
  way, and of the latest message `PlaceInv` leaves no place in which a chunk could be behind it.

`CompletionQueueProofs`, for any number of queue pairs, set of ring sizes, size of the work
queues, widths of the counters and first values of the indices, and any number of posts,
errors, destroyed queue pairs and resizes:

* `TypesHold`, `BitsAgree`, `NeverFull`, `SendsIntact`, `SharedAccounted`: `Spec => []TypeOK`,
  `[]OwnerBitsTell`, `[]NoOverrun`, `[]SendEntriesIntact` and `[]SharedEntriesAccounted`. None of
  them is inductive without the others: that the adapter finds a free place depends on what the
  application thinks is outstanding, that on which requests the tails have passed, that on which
  completion names which entry, and that on reading the owner bits rightly. All five follow from
  one invariant, `IInv` (`Invariance`).
* The device of the proof is `Q`, the completions produced and not consumed, in order, as a
  function on `1..QLen`, wherever they are: in the ring, in the ring around the gap that a sweep
  has opened (`sweep.left` entries before it, the rest `sweep.freed` places further up), or during a
  resize in the old ring up to the mark and in the new one behind it. Every action then leaves
  `Q` alone (`Same`), appends to it (`Pushed`) or takes one entry out (`Gone`), which the first half
  of `CompletionQueueLemmas` shows; nothing behind it looks at a ring again. There entries have
  numbers that only grow, entry `n` in slot `n % s` with bit `(n \div s) % 2`, and the
  assumption that twice the ring divides the range of the indices makes both survive the wrap
  (`PlaceWraps`).
* The parts of `IInv`, besides types: `Jobs` (what each holder of the lock has set up; a swept
  queue pair is in RESET, so the adapter adds nothing for it), `Bits` (the owner bits, also of the
  half-filled new ring), `Contents` (every completion is of a queue pair that can still be looked
  up; those the sweep has passed are of others), `SendInv` (`Counters`: the adapter is between tail
  and head; `Numbers`: `wrid` has the number of every request in between; `Window`: the completions
  of a queue pair name executed requests behind its tail, in order), `EntriesIntact`, `Account`
  (what the application counts covers the ring, the completion in hand, the posted receives and,
  summed up over the queue pairs, the sends without a completion; during a sweep the entries as
  they lie), `Lag` (how far the consumer index the adapter knows may trail), and `SrqInv` (a path
  along the links of the shared queue from the adapter's position by way of the posted entries to
  the free ones; what is not on it is named by exactly one completion).
* The assumptions these proofs need beyond the types of the constants: the sizes of the rings
  divide the ranges of the indices (powers of two in the source), the shared queue has no more entries
  than a completion can name (`wqe_index` has 16 bits at both), and, of the model only, that
  receive requests are numbered within the range of `id` and that `None` is none of the other values.

Only model-checked: every liveness property (`Served`, `FlowServed`, `Service`,
`ReceiverClears`, `GetsLineBack`, `HandshakeEnds`, `ServerMovesOn`, `SenderReturns`,
`EveryMessageArrives`), which the prover does not reach, and the refinement `PollsInOrder` of
the `queues` run. Its mapping filters the ring with `SelectSeq`, a recursive definition: what
that gives for every ring is an induction over data, which the prover cannot do either. The
invariant below has the substance of it (Q, the completions not consumed yet, in order), but
no theorem says so.

## 5. Not modelled

* The clock: how long a token's wait takes, and the 32-bit product it is computed with. A
  token carries the chunk size its wait was computed from (`TokenPacing`). The latency
  samples and their average are an input of `LinkCap`.
* In the two-sided protocol: lists of two-sided work requests (each chunk's post sends the
  rest of the list again, `libmlx4/src/qp.c:1824`, a hazard without a property); posts that
  fail on a companion queue pair; writes of more than 8000 chunks, of which some are
  signaled in between. Messages are single work requests.
* The `float` quotient that counts the chunks of a one-sided message: TLA+ has no floating
  point, and the sizes at which it rounds are far outside a checkable range.
* Bring-up of the companion queue pairs (`create_qp`, `modify_qp`, `destroy_qp` of both
  drivers): the peer's numbers are guessed as the user's minus one and minus two, so
  whether they are right is decided by the firmware that hands out the numbers, which is not
  in the repository. The pre-posted requests they begin with are in `Init` of
  `SplitTwoSided`.
* Pacer start-up and shutdown, beyond the initial states. A pacer that exits unlinks the
  shared block, so that applications still running wait at one that nobody serves; one that
  was killed leaves it, and its successor resets the flags and the slots of applications that
  go on using them (`pacer.c:801`). The code provides for neither case, and there is no
  promise to check; the second is kept as a hazard.
* What a broadcast does to the slot of a client that died in the handshake
  (`monitor.c:531`): `PacerHandshake` ends where `ReceiverUpdates` begins, with every host up.
* Inline data, scatter lists, BlueFlame and receive rings without an SRQ in the work
  queues; libmlx5's work queues, which are built alike; memory registration, doorbell pages
  and the experimental verbs.
* READ pacing, the token sockets (`CPU_FRIENDLY`), the sketch and its ring queue
  (`USE_CMH`), which the build does not use; formatting of messages and GIDs.
* libibverbs, perftest and the benchmarks are vendor or measurement code. They are most of
  the repository's lines and no part of the isolation service.

## 6. Plan

Done, in this order: `TokenService`/`TokenPacer` with its proofs, `TokenPacing`,
`ReceiverUpdates`, `FlowRegistry`, `LinkCap`, `SplitTwoSided` (SEND, then the two WRITEs and
the completion events), the work queues, `PacerHandshake`, and the proofs about
`LinkCap`, `FlowRegistry`, `ReceiverUpdates`, `PacerHandshake`, `SplitTwoSided` and the work
queues.

What could follow:

1. The refinement `PollsInOrder` step by step, with a mapping that does not filter sequences.
2. Lists of two-sided work requests, and companions whose posts fail.
