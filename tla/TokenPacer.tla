----------------------------- MODULE TokenPacer -----------------------------
(***************************************************************************)
(* The token loop that paces bandwidth- and throughput-hungry flows.       *)
(*                                                                         *)
(* One side is the daemon thread generate_fetch_tokens of                  *)
(* rdma_pacer/pacer.c, which scans the flow table of the shared block,     *)
(* clears the pending flag of one flow per token and waits before it makes *)
(* the next token.  The other side is the driver linked into every         *)
(* application, whose posting threads raise pending and spin until it is   *)
(* cleared (__mlx5_post_send), once per work request of a bandwidth flow   *)
(* and once per batch of operations of a throughput flow.                  *)
(*                                                                         *)
(* Every load and store of a flag that the two sides share is a step.  A   *)
(* thread of this module is a posting thread with a queue pair of its own: *)
(* posts to one queue pair exclude each other by its sq.lock.  A process   *)
(* has one flow slot, whatever its number of threads.  Latency-sensitive   *)
(* processes never touch the flags (isSmall = 1 skips both waits) and are  *)
(* not modelled here; they matter as the receiverSmall input.              *)
(***************************************************************************)
EXTENDS Integers, Sequences, FiniteSets

CONSTANTS
  NumFlows,      \* MAX_FLOWS, the length of the flow table
  Threads,       \* posting threads of all processes
  FlowOf,        \* the flow slot of a thread's process
  TputFlows,     \* slots of processes with isSmall = 2; the others have 0
  ReadFlows,     \* slots of isSmall = 0 processes whose first request is a READ
  SmallChunk,    \* SMALL_CHUNK_SIZE, also EVEN_SMALLER_CHUNK_SIZE
  DefaultChunk,  \* DEFAULT_CHUNK_SIZE
  BatchOps,      \* DEFAULT_BATCH_OPS, the operations a tput token pays for
  MaxToken,      \* MAX_TOKEN
  Caps,          \* values the monitor may store in virtual_link_cap
  Calls          \* argument lists of ibv_post_send: sequences of WR lengths

Flow == 0 .. NumFlows - 1

ASSUME NumFlowsAssumption == NumFlows \in Nat \ {0}
ASSUME FlowOfAssumption == FlowOf \in [Threads -> Flow]
ASSUME ClassAssumption ==
  /\ TputFlows \subseteq Flow
  /\ ReadFlows \subseteq Flow \ TputFlows
ASSUME SizeAssumption ==
  /\ SmallChunk \in Nat \ {0}
  /\ DefaultChunk \in Nat \ {0}
  /\ BatchOps \in Nat \ {0}
  /\ MaxToken \in Nat \ {0}
ASSUME InputAssumption ==
  /\ Caps \subseteq Nat
  /\ Calls \subseteq Seq(Nat \ {0}) \ {<<>>}

VARIABLES
  \* the shared block
  pending,       \* flows[f].pending
  read,          \* flows[f].read
  activeChunk,   \* active_chunk_size
  linkCap,       \* virtual_link_cap, written by the monitor thread
  \* the daemon
  receiverSmall, \* cb.num_receiver_small_flows[0] # 0, written by the monitor
  ppc,           \* where generate_fetch_tokens is in its loop
  tokens,        \* cb.tokens
  scanIdx,       \* its local i
  nextIdx,       \* its local next_idx
  chunk,         \* its local chunk_size
  \* the drivers
  pc,            \* where each posting thread is
  work,          \* WRs the thread's call has yet to post, per __mlx5_post_send
  debit,         \* debit of the flow's process
  \* history
  credit,        \* grants of the pacer minus requests released, per flow
  bypass         \* grants to other flows since the flow's request was raised,
                 \* counted up to NumFlows

daemonVars == <<ppc, tokens, scanIdx, nextIdx, chunk>>
driverVars == <<pc, work, debit>>
historyVars == <<credit, bypass>>
vars == <<pending, read, activeChunk, linkCap, receiverSmall, daemonVars,
          driverVars, historyVars>>

ThreadsOf(f) == {t \in Threads : FlowOf[t] = f}
ChunkSizes == {SmallChunk, DefaultChunk}

-----------------------------------------------------------------------------
(* What one ibv_post_send of a one-sided verb posts.  The first WR is cut   *)
(* when it is longer than the chunk size the call has just loaded; each    *)
(* chunk but the last is one __mlx5_post_send on the split queue pair, and *)
(* the last one, with the rest of the caller's list behind it, is one on   *)
(* the caller's.                                                           *)

NumChunks(len, c) == (len + c - 1) \div c

LastChunk(len, c) == len - (NumChunks(len, c) - 1) * c

Posts(call, c) ==
  LET n == NumChunks(Head(call), c)
  IN  [k \in 1 .. n |-> IF k < n THEN <<c>>
                        ELSE <<LastChunk(Head(call), c)>> \o Tail(call)]

(* The posts that remain when the first WR of the first one is posted.      *)
AfterWR(w) == IF Len(Head(w)) = 1 THEN Tail(w)
              ELSE <<Tail(Head(w))>> \o Tail(w)

Init ==
  /\ pending = [f \in Flow |-> FALSE]
  /\ read = [f \in Flow |-> FALSE]
  /\ activeChunk = DefaultChunk
  /\ linkCap \in Caps
  /\ receiverSmall = FALSE
  /\ ppc = "cap"
  /\ tokens = 1
  /\ scanIdx = 0
  /\ nextIdx = 0
  /\ chunk = DefaultChunk
  /\ pc = [t \in Threads |-> "idle"]
  /\ work = [t \in Threads |-> <<>>]
  /\ debit = [f \in Flow |-> 0]
  /\ credit = [f \in Flow |-> 0]
  /\ bypass = [f \in Flow |-> 0]

-----------------------------------------------------------------------------
(* The daemon thread.                                                      *)

(* Faulty variant of LoadCap: every scan starts at the first slot.          *)
LoadCapFromStart ==
  /\ ppc = "cap"
  /\ linkCap # 0
  /\ chunk' = IF receiverSmall THEN SmallChunk ELSE DefaultChunk
  /\ activeChunk' = chunk'
  /\ scanIdx' = 0
  /\ ppc' = "scan"
  /\ UNCHANGED <<pending, read, linkCap, receiverSmall, tokens, nextIdx,
                 driverVars, historyVars>>

(* Top of the outer loop: with a zero link cap it goes round again, else it *)
(* publishes the chunk size and starts the scan where the last one ended.  *)
LoadCap ==
  /\ ppc = "cap"
  /\ linkCap # 0
  /\ chunk' = IF receiverSmall THEN SmallChunk ELSE DefaultChunk
  /\ activeChunk' = chunk'
  /\ scanIdx' = nextIdx
  /\ ppc' = "scan"
  /\ UNCHANGED <<pending, read, linkCap, receiverSmall, tokens, nextIdx,
                 driverVars, historyVars>>

(* Faulty variants of Advance: no wrap at the end of the flow table, and a  *)
(* scan that stays at the last slot.                                       *)
AdvanceOffTheEnd(i) == i + 1
AdvanceToTheLast(i) == IF i + 1 < NumFlows THEN i + 1 ELSE i

Advance(i) == (i + 1) % NumFlows

(* Mutant: a READ flow is skipped without moving to the next slot.         *)
ScanReadStays ==
  /\ ppc = "scan"
  /\ ppc' = IF read[scanIdx] THEN ppc ELSE "check"
  /\ UNCHANGED <<pending, read, activeChunk, linkCap, receiverSmall, tokens,
                 nextIdx, scanIdx, chunk, driverVars, historyVars>>

(* The scan's first load: flows registered as READ are passed over.         *)
ScanRead ==
  /\ ppc = "scan"
  /\ IF read[scanIdx]
       THEN scanIdx' = Advance(scanIdx) /\ UNCHANGED ppc
       ELSE ppc' = "check" /\ UNCHANGED scanIdx
  /\ UNCHANGED <<pending, read, activeChunk, linkCap, receiverSmall, tokens,
                 nextIdx, chunk, driverVars, historyVars>>

(* Faulty variants of ScanPending: a token that is not taken out of the     *)
(* bucket, and a scan that does not look whether the flow waits.           *)
ScanPendingForFree ==
  /\ ppc = "check"
  /\ tokens > 0
  /\ IF pending[scanIdx] THEN ppc' = "grant" /\ UNCHANGED scanIdx
                         ELSE ppc' = "scan" /\ scanIdx' = Advance(scanIdx)
  /\ UNCHANGED <<pending, read, activeChunk, linkCap, receiverSmall, tokens,
                 nextIdx, chunk, driverVars, historyVars>>

ScanPendingBlind ==
  /\ ppc = "check"
  /\ tokens > 0
  /\ tokens' = tokens - 1
  /\ ppc' = "grant"
  /\ UNCHANGED <<pending, read, activeChunk, linkCap, receiverSmall, scanIdx,
                 nextIdx, chunk, driverVars, historyVars>>

(* The scan's second load and, for a waiting flow, try_fetch_a_token: only  *)
(* this thread touches the tokens.  Out of tokens, the scan is resumed here. *)
ScanPending ==
  /\ ppc = "check"
  /\ IF pending[scanIdx]
       THEN /\ UNCHANGED scanIdx
            /\ IF tokens > 0
                 THEN /\ tokens' = tokens - 1
                      /\ ppc' = "grant"
                      /\ UNCHANGED nextIdx
                 ELSE /\ nextIdx' = scanIdx
                      /\ ppc' = "refill"
                      /\ UNCHANGED tokens
       ELSE /\ scanIdx' = Advance(scanIdx)
            /\ ppc' = "scan"
            /\ UNCHANGED <<tokens, nextIdx>>
  /\ UNCHANGED <<pending, read, activeChunk, linkCap, receiverSmall, chunk,
                 driverVars, historyVars>>

(* Faulty variant of Grant: the flag of the served flow stays raised.       *)
GrantKept ==
  /\ ppc = "grant"
  /\ nextIdx' = Advance(scanIdx)
  /\ ppc' = "refill"
  /\ credit' = [credit EXCEPT ![scanIdx] = @ + 1]
  /\ UNCHANGED <<pending, read, activeChunk, linkCap, receiverSmall, tokens,
                 scanIdx, chunk, driverVars, bypass>>

(* Hands the fetched token over; the next scan starts behind this flow.     *)
Grant ==
  /\ ppc = "grant"
  /\ pending' = [pending EXCEPT ![scanIdx] = FALSE]
  /\ nextIdx' = Advance(scanIdx)
  /\ ppc' = "refill"
  /\ credit' = [credit EXCEPT ![scanIdx] = @ + 1]
  /\ bypass' = [f \in Flow |->
                  IF f = scanIdx THEN 0
                  ELSE IF pending[f] /\ ~read[f] /\ bypass[f] < NumFlows
                    THEN bypass[f] + 1
                  ELSE bypass[f]]
  /\ UNCHANGED <<read, activeChunk, linkCap, receiverSmall, tokens, scanIdx,
                 chunk, driverVars>>

(* Makes one token, after the time one chunk takes at the link cap.  The    *)
(* clock is left out: the wait ends by itself.                             *)
Refill ==
  /\ ppc = "refill"
  /\ tokens' = IF tokens < MaxToken THEN tokens + 1 ELSE tokens
  /\ ppc' = "cap"
  /\ UNCHANGED <<pending, read, activeChunk, linkCap, receiverSmall, scanIdx,
                 nextIdx, chunk, driverVars, historyVars>>

Daemon == LoadCap \/ ScanRead \/ ScanPending \/ Grant \/ Refill

-----------------------------------------------------------------------------
(* The posting threads.                                                    *)

IsTput(t) == FlowOf[t] \in TputFlows

Continue(t, w) ==
  /\ work' = [work EXCEPT ![t] = w]
  /\ pc' = [pc EXCEPT ![t] = IF w = <<>> THEN "idle" ELSE "post"]

(* A call of ibv_post_send up to the split decision: the first call of the  *)
(* process registers it, then the chunk size is loaded, once per call.     *)
PostSend(t, call) ==
  /\ pc[t] = "idle"
  /\ read' = [read EXCEPT ![FlowOf[t]] = @ \/ FlowOf[t] \in ReadFlows]
  /\ Continue(t, Posts(call, activeChunk))
  /\ UNCHANGED <<pending, activeChunk, linkCap, receiverSmall, daemonVars,
                 debit, historyVars>>

(* The store that raises the flow's request.                               *)
Raise(t) ==
  LET f == FlowOf[t]
  IN  /\ pending' = [pending EXCEPT ![f] = TRUE]
      /\ pc' = [pc EXCEPT ![t] = "spin"]

(* A bandwidth flow asks for a token before every WR.                       *)
RequestWR(t) ==
  /\ pc[t] = "post"
  /\ ~IsTput(t)
  /\ Raise(t)
  /\ UNCHANGED <<read, activeChunk, linkCap, receiverSmall, daemonVars, work,
                 debit, historyVars>>

(* Faulty variant of Released: the waiting loop gives up early.             *)
ReleasedEarly(t) ==
  /\ pc[t] = "spin"
  /\ credit' = [credit EXCEPT ![FlowOf[t]] = IF @ >= 0 THEN @ - 1 ELSE -1]

(* The load that sees the request cleared.  The count of a flow whose       *)
(* threads share grants stays at -1: that it is short is all that matters. *)
Released(t) ==
  /\ pc[t] = "spin"
  /\ ~pending[FlowOf[t]]
  /\ credit' = [credit EXCEPT ![FlowOf[t]] = IF @ >= 0 THEN @ - 1 ELSE -1]

(* A released bandwidth flow writes the WR, or finds the queue full or the  *)
(* WR malformed and abandons the call: the token is spent either way.      *)
PostWR(t, ok) ==
  /\ ~IsTput(t)
  /\ Released(t)
  /\ Continue(t, IF ok THEN AfterWR(work[t]) ELSE <<>>)
  /\ UNCHANGED <<pending, read, activeChunk, linkCap, receiverSmall,
                 daemonVars, debit, bypass>>

(* A throughput flow writes its WRs first; a failure jumps over the debit.  *)
BuildBatch(t, ok) ==
  /\ pc[t] = "post"
  /\ IsTput(t)
  /\ IF ok THEN pc' = [pc EXCEPT ![t] = "debit"] /\ UNCHANGED work
           ELSE Continue(t, <<>>)
  /\ UNCHANGED <<pending, read, activeChunk, linkCap, receiverSmall,
                 daemonVars, debit, historyVars>>

(* With no operations left it asks for a batch ...                          *)
RequestBatch(t) ==
  /\ pc[t] = "debit"
  /\ debit[FlowOf[t]] <= 0
  /\ Raise(t)
  /\ UNCHANGED <<read, activeChunk, linkCap, receiverSmall, daemonVars, work,
                 debit, historyVars>>

(* ... which the release adds ...                                           *)
CreditBatch(t) ==
  /\ IsTput(t)
  /\ Released(t)
  /\ debit' = [debit EXCEPT ![FlowOf[t]] = @ + BatchOps]
  /\ pc' = [pc EXCEPT ![t] = "debit"]
  /\ UNCHANGED <<pending, read, activeChunk, linkCap, receiverSmall,
                 daemonVars, work, bypass>>

(* Faulty variant of RingBatch: a batch of zero operations is enough.       *)
RingBatchAtZero(t) ==
  /\ pc[t] = "debit"
  /\ debit[FlowOf[t]] >= 0
  /\ debit' = [debit EXCEPT ![FlowOf[t]] = @ - Len(Head(work[t]))]
  /\ Continue(t, Tail(work[t]))
  /\ UNCHANGED <<pending, read, activeChunk, linkCap, receiverSmall,
                 daemonVars, historyVars>>

(* ... and the posted WRs are taken from before the doorbell is rung.       *)
RingBatch(t) ==
  /\ pc[t] = "debit"
  /\ debit[FlowOf[t]] > 0
  /\ debit' = [debit EXCEPT ![FlowOf[t]] = @ - Len(Head(work[t]))]
  /\ Continue(t, Tail(work[t]))
  /\ UNCHANGED <<pending, read, activeChunk, linkCap, receiverSmall,
                 daemonVars, historyVars>>

Poster(t) ==
  \/ RequestWR(t)
  \/ \E ok \in BOOLEAN : PostWR(t, ok) \/ BuildBatch(t, ok)
  \/ RequestBatch(t)
  \/ CreditBatch(t)
  \/ RingBatch(t)

-----------------------------------------------------------------------------
(* The end of a process.  exit() or a signal runs set_inactive_on_exit on   *)
(* some thread, at any point of its own work, while the others go on.      *)

Handling(f) == \E t \in ThreadsOf(f) : pc[t] \in {"exiting", "exited"}

BeginExit(t) ==
  /\ pc[t] # "dead"
  /\ ~Handling(FlowOf[t])
  /\ pc' = [pc EXCEPT ![t] = "exiting"]
  /\ read' = [read EXCEPT ![FlowOf[t]] = FALSE]
  /\ UNCHANGED <<pending, activeChunk, linkCap, receiverSmall, daemonVars,
                 work, debit, historyVars>>

ClearPending(t) ==
  /\ pc[t] = "exiting"
  /\ pc' = [pc EXCEPT ![t] = "exited"]
  /\ pending' = [pending EXCEPT ![FlowOf[t]] = FALSE]
  /\ bypass' = [bypass EXCEPT ![FlowOf[t]] = 0]
  /\ UNCHANGED <<read, activeChunk, linkCap, receiverSmall, daemonVars, work,
                 debit, credit>>

Die(f) ==
  /\ pc' = [t \in Threads |-> IF FlowOf[t] = f THEN "dead" ELSE pc[t]]
  /\ work' = [t \in Threads |-> IF FlowOf[t] = f THEN <<>> ELSE work[t]]
  /\ debit' = [debit EXCEPT ![f] = 0]
  /\ UNCHANGED <<pending, read, activeChunk, linkCap, receiverSmall,
                 daemonVars, historyVars>>

(* The handler ends in _exit.                                               *)
EndExit(t) == pc[t] = "exited" /\ Die(FlowOf[t])

(* SIGKILL runs no handler and leaves the flags as they are.                *)
Kill(t) == pc[t] # "dead" /\ Die(FlowOf[t])

-----------------------------------------------------------------------------
(* The monitor thread, as this loop sees it.                               *)

SetCap(c) ==
  /\ linkCap' = c
  /\ UNCHANGED <<pending, read, activeChunk, receiverSmall, daemonVars,
                 driverVars, historyVars>>

SetReceiverSmall(b) ==
  /\ receiverSmall' = b
  /\ UNCHANGED <<pending, read, activeChunk, linkCap, daemonVars, driverVars,
                 historyVars>>

Monitor == (\E c \in Caps : SetCap(c)) \/ (\E b \in BOOLEAN : SetReceiverSmall(b))

Next ==
  \/ Daemon
  \/ Monitor
  \/ \E t \in Threads :
       \/ \E call \in Calls : PostSend(t, call)
       \/ Poster(t)
       \/ BeginExit(t) \/ ClearPending(t) \/ EndExit(t) \/ Kill(t)

(* The daemon thread and the threads inside a call or inside the exit       *)
(* handler keep running; nobody has to call, exit or be killed.            *)
Fairness ==
  /\ WF_vars(Daemon)
  /\ \A t \in Threads : WF_vars(Poster(t) \/ ClearPending(t) \/ EndExit(t))

SafeSpec == Init /\ [][Next]_vars
Spec == SafeSpec /\ Fairness

-----------------------------------------------------------------------------
(* Properties.                                                             *)

ThreadPc == {"idle", "post", "debit", "spin", "exiting", "exited", "dead"}

(* Every variable has its type.                                             *)
TypeOK ==
  /\ pending \in [Flow -> BOOLEAN]
  /\ read \in [Flow -> BOOLEAN]
  /\ activeChunk \in ChunkSizes
  /\ linkCap \in Caps
  /\ receiverSmall \in BOOLEAN
  /\ ppc \in {"cap", "scan", "check", "grant", "refill"}
  /\ tokens \in Nat
  /\ scanIdx \in Flow
  /\ nextIdx \in Flow
  /\ chunk \in ChunkSizes
  /\ pc \in [Threads -> ThreadPc]
  /\ work \in [Threads -> Seq(Seq(Nat) \ {<<>>})]
  /\ debit \in [Flow -> Int]
  /\ credit \in [Flow -> Int]
  /\ bypass \in [Flow -> Nat]

(* The comment of generate_fetch_tokens: "in fact, in current logic, # of   *)
(* tokens should always be 1 or 0".  While it looks for a waiting flow the *)
(* loop holds exactly one token, so it never runs out in mid-scan.         *)
TokenBound ==
  /\ tokens \in {0, 1}
  /\ ppc \in {"cap", "scan", "check"} => tokens = 1

(* Between the scan's load of pending and the store that clears it nobody   *)
(* else can have taken the request back, unless the process is going down: *)
(* the token always reaches somebody who waits for it.                     *)
NoWastedToken ==
  ppc = "grant" =>
    \E t \in ThreadsOf(scanIdx) : pc[t] \in {"spin", "exiting", "exited", "dead"}

(* A request is released by a grant of its own: no thread goes on without a *)
(* token and no second token is spent on a request already served.  It     *)
(* holds for processes that post from a single thread.                     *)
OneTokenPerRelease == \A f \in Flow : credit[f] \in {0, 1}

(* Round robin: while a flow waits, each other flow is served at most once, *)
(* however the requests and the scan interleave.                           *)
BoundedBypass ==
  \A f \in Flow : pending[f] /\ ~read[f] => bypass[f] <= NumFlows - 1

(* What a throughput flow owes or has left over: never more than the batch  *)
(* a token pays for, never as much as a whole list below zero.             *)
DebitBounds ==
  \A f \in Flow : \A call \in Calls :
    (\A other \in Calls : Len(other) <= Len(call)) =>
      /\ debit[f] <= BatchOps
      /\ debit[f] > -Len(call)

(* Every flow that is not registered as READ is served: the thread that     *)
(* spins on the flag leaves its loop.                                      *)
Served ==
  \A t \in Threads :
    (pc[t] = "spin" /\ FlowOf[t] \notin ReadFlows) ~> (pc[t] # "spin")

(* Several posting threads of one process share one flag.  Then a given     *)
(* thread may be overtaken for ever by a sibling that raises the flag again *)
(* before the thread looks, but the flow as a whole is served.             *)
FlowServed ==
  \A f \in Flow \ ReadFlows : pending[f] ~> ~pending[f]

(* The abstract service.  A request counts as asked until the store that    *)
(* clears it, which is still to come when the process withdraws the flag   *)
(* after the scan has fetched the token for it; a permission is held while *)
(* a grant has not been seen.                                              *)
Asking ==
  {f \in Flow : pending[f] \/ (ppc = "grant" /\ scanIdx = f)}

Abstract == INSTANCE TokenService WITH
  Flow <- Flow,
  Promised <- Flow \ ReadFlows,
  asking <- Asking,
  allowed <- {f \in Flow : credit[f] = 1}

(* Scanning, flags and tokens implement the abstract service: one grant per *)
(* request, one flow at a time ...                                         *)
ServiceSafe == Abstract!SafeSpec

(* ... and every flow that is not registered as READ gets its grant.        *)
Service == Abstract!Spec
=============================================================================
