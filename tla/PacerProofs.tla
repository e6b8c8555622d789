----------------------------- MODULE PacerProofs -----------------------------
(***************************************************************************)
(* Proofs about the parts of rdma_pacer that meet in one daemon: the token *)
(* loop and the waits of the drivers (TokenPacer), for every length of the *)
(* flow table, set of posting threads, class of flows, chunk size and list *)
(* of requests; the rate those tokens are made at (LinkCap), for every set *)
(* of hosts, line rate, width of the receiver's counter and content of the *)
(* uninitialised variable; and the handshake that connects the daemon with *)
(* the receiver's (PacerHandshake), for every number of clients, of slots  *)
(* of the server and of connections its socket queues, and any kills.      *)
(***************************************************************************)
EXTENDS TokenPacer, LinkCap, PacerHandshake, Arithmetic, SequenceTheorems, TLAPS

-----------------------------------------------------------------------------
(* The token loop and the token waits.                                     *)

Batch == Seq(Nat) \ {<<>>}

(* A thread in the middle of a call has something left to post.             *)
Busy ==
  \A t \in Threads : pc[t] \in {"post", "debit", "spin"} => work[t] # <<>>

TypeInv == TypeOK /\ Busy

-----------------------------------------------------------------------------
(* Lemmas about the splitting of a call.                                   *)

LEMMA DivBounds ==
  ASSUME NEW a \in Nat, NEW c \in Nat \ {0}
  PROVE  /\ a \div c \in Nat
         /\ c * (a \div c) <= a
         /\ a < c * (a \div c) + c
  OBVIOUS

(* A WR is cut into at least one chunk, and what is left for the last chunk *)
(* is not negative (and not zero).                                         *)
LEMMA ChunkBounds ==
  ASSUME NEW len \in Nat \ {0}, NEW c \in Nat \ {0}
  PROVE  /\ NumChunks(len, c) \in Nat \ {0}
         /\ LastChunk(len, c) \in Nat \ {0}
         /\ LastChunk(len, c) <= c
  <1> DEFINE n == NumChunks(len, c)
  <1>1. len + c - 1 \in Nat
    OBVIOUS
  <1>2. n \in Nat /\ c * n <= len + c - 1 /\ len + c - 1 < c * n + c
    BY <1>1, DivBounds DEF NumChunks
  <1>3. n # 0
    BY <1>2
  <1>4. (n - 1) * c = c * n - c /\ c * n \in Nat
    BY <1>2
  <1>5. len - (n - 1) * c \in 1 .. c
    BY <1>2, <1>4
  <1> QED
    BY <1>2, <1>3, <1>5 DEF LastChunk

(* The posts of a call are a nonempty sequence of nonempty lists.           *)
LEMMA PostsType ==
  ASSUME NEW call \in Calls, NEW c \in ChunkSizes
  PROVE  Posts(call, c) \in Seq(Batch) \ {<<>>}
  <1> DEFINE len == Head(call)
             n == NumChunks(len, c)
             last == <<LastChunk(len, c)>> \o Tail(call)
  <1>1. call \in Seq(Nat \ {0}) /\ call # <<>>
    BY InputAssumption
  <1>2. len \in Nat \ {0} /\ Tail(call) \in Seq(Nat \ {0})
    BY <1>1, HeadTailProperties
  <1>3. c \in Nat \ {0}
    BY SizeAssumption DEF ChunkSizes
  <1>4. n \in Nat \ {0} /\ LastChunk(len, c) \in Nat
    BY <1>2, <1>3, ChunkBounds
  <1>5. Tail(call) \in Seq(Nat)
    BY <1>2, SeqMonotonic
  <1>6. last \in Seq(Nat) /\ Len(last) = 1 + Len(Tail(call))
    BY <1>4, <1>5, ConcatProperties
  <1>7. last \in Batch
    BY <1>5, <1>6, LenProperties, EmptySeq DEF Batch
  <1>8. <<c>> \in Batch
    BY <1>3 DEF Batch
  <1> DEFINE e(k) == IF k < n THEN <<c>> ELSE last
  <1>9. \A k \in 1 .. n : e(k) \in Batch
    BY <1>7, <1>8
  <1> HIDE DEF e, last
  <1>10. [k \in 1 .. n |-> e(k)] \in Seq(Batch)
    BY <1>4, <1>9, IsASeq
  <1>11. [k \in 1 .. n |-> e(k)] # <<>>
    BY <1>4, <1>10, EmptySeq
  <1>12. Posts(call, c) = [k \in 1 .. n |-> e(k)]
    BY DEF Posts, e, last
  <1> QED
    BY <1>10, <1>11, <1>12

LEMMA AfterWRType ==
  ASSUME NEW w \in Seq(Batch), w # <<>>
  PROVE  AfterWR(w) \in Seq(Batch)
  <1>1. Head(w) \in Batch /\ Tail(w) \in Seq(Batch)
    BY HeadTailProperties
  <1>2. CASE Len(Head(w)) = 1
    BY <1>1, <1>2 DEF AfterWR
  <1>3. CASE Len(Head(w)) # 1
    <2>1. Tail(Head(w)) \in Seq(Nat) /\ Len(Tail(Head(w))) = Len(Head(w)) - 1
      BY <1>1, HeadTailProperties DEF Batch
    <2>2. Len(Head(w)) \in Nat
      BY <1>1, LenProperties DEF Batch
    <2>3. Tail(Head(w)) # <<>>
      <3>1. Len(Tail(Head(w))) # 0
        BY <1>3, <2>1, <2>2
      <3>2. Tail(Head(w)) = <<>> => Len(Tail(Head(w))) = Len(<<>>)
        OBVIOUS
      <3>3. Len(<<>>) = 0
        OBVIOUS
      <3> QED
        BY <3>1, <3>2, <3>3
    <2>4. <<Tail(Head(w))>> \in Seq(Batch)
      BY <2>1, <2>3 DEF Batch
    <2>5. <<Tail(Head(w))>> \o Tail(w) \in Seq(Batch)
      BY <1>1, <2>4, ConcatProperties
    <2> QED
      BY <1>3, <2>5 DEF AfterWR
  <1> QED
    BY <1>2, <1>3

LEMMA HeadLen ==
  ASSUME NEW w \in Seq(Batch), w # <<>>
  PROVE  Len(Head(w)) \in Nat /\ Tail(w) \in Seq(Batch)
  BY HeadTailProperties, LenProperties DEF Batch

LEMMA AdvanceType ==
  ASSUME NEW i \in Flow
  PROVE  Advance(i) \in Flow
  BY NumFlowsAssumption DEF Advance, Flow

LEMMA ZeroInFlow == 0 \in Flow
  BY NumFlowsAssumption DEF Flow

(* Continue keeps the thread's variables typed and busy threads busy.       *)
LEMMA ContinueType ==
  ASSUME TypeInv, NEW t \in Threads, NEW w \in Seq(Batch), Continue(t, w)
  PROVE  /\ work' \in [Threads -> Seq(Batch)]
         /\ pc' \in [Threads -> ThreadPc]
         /\ Busy'
  BY DEF TypeInv, TypeOK, Busy, Continue, Batch, ThreadPc

-----------------------------------------------------------------------------
(* Type correctness.                                                       *)

LEMMA InitTypeInv == Init => TypeInv
  BY ZeroInFlow DEF Init, TypeInv, TypeOK, Busy, ChunkSizes, ThreadPc

LEMMA DaemonTypeInv ==
  ASSUME TypeInv, Daemon
  PROVE  TypeInv'
  <1> USE DEF TypeInv, TypeOK, daemonVars, driverVars, historyVars
  <1>1. CASE LoadCap
    BY <1>1 DEF LoadCap, Busy, ChunkSizes
  <1>2. CASE ScanRead
    BY <1>2, AdvanceType DEF ScanRead, Busy
  <1>3. CASE ScanPending
    BY <1>3, AdvanceType DEF ScanPending, Busy
  <1>4. CASE Grant
    BY <1>4, AdvanceType DEF Grant, Busy
  <1>5. CASE Refill
    BY <1>5 DEF Refill, Busy
  <1> QED
    BY <1>1, <1>2, <1>3, <1>4, <1>5 DEF Daemon

LEMMA MonitorTypeInv ==
  ASSUME TypeInv, Monitor
  PROVE  TypeInv'
  BY DEF Monitor, SetCap, SetReceiverSmall, TypeInv, TypeOK, Busy,
         daemonVars, driverVars, historyVars

LEMMA PostSendTypeInv ==
  ASSUME TypeInv, NEW t \in Threads, NEW call \in Calls, PostSend(t, call)
  PROVE  TypeInv'
  <1> DEFINE w == Posts(call, activeChunk)
  <1>1. w \in Seq(Batch)
    BY PostsType DEF TypeInv, TypeOK
  <1>2. Continue(t, w)
    BY DEF PostSend
  <1>3. work' \in [Threads -> Seq(Batch)] /\ pc' \in [Threads -> ThreadPc] /\ Busy'
    BY <1>1, <1>2, ContinueType
  <1>4. FlowOf[t] \in Flow
    BY FlowOfAssumption
  <1> QED
    BY <1>3, <1>4 DEF PostSend, TypeInv, TypeOK, daemonVars, historyVars, Batch

LEMMA PosterTypeInv ==
  ASSUME TypeInv, NEW t \in Threads, Poster(t)
  PROVE  TypeInv'
  <1> USE DEF TypeInv, TypeOK, daemonVars, driverVars, historyVars
  <1>1. FlowOf[t] \in Flow
    BY FlowOfAssumption
  <1>2. BatchOps \in Nat
    BY SizeAssumption
  <1>3. work[t] \in Seq(Batch) /\ <<>> \in Seq(Batch)
    BY DEF Batch
  <1>4. CASE RequestWR(t) \/ RequestBatch(t)
    BY <1>1, <1>4 DEF RequestWR, RequestBatch, Raise, Busy, ThreadPc
  <1>5. ASSUME NEW ok \in BOOLEAN, PostWR(t, ok)
        PROVE  TypeInv'
    <2> DEFINE w == IF ok THEN AfterWR(work[t]) ELSE <<>>
    <2>1. w \in Seq(Batch)
      BY <1>3, <1>5, AfterWRType DEF PostWR, Released, Busy
    <2>2. Continue(t, w)
      BY <1>5 DEF PostWR
    <2>3. work' \in [Threads -> Seq(Batch)] /\ pc' \in [Threads -> ThreadPc] /\ Busy'
      BY <2>1, <2>2, ContinueType
    <2>4. credit' \in [Flow -> Int]
      BY <1>1, <1>5 DEF PostWR, Released
    <2> QED
      BY <1>5, <2>3, <2>4 DEF PostWR, Batch
  <1>6. ASSUME NEW ok \in BOOLEAN, BuildBatch(t, ok)
        PROVE  TypeInv'
    <2>1. CASE ok
      BY <1>6, <2>1 DEF BuildBatch, Busy, ThreadPc
    <2>2. CASE ~ok
      <3>1. Continue(t, <<>>)
        BY <1>6, <2>2 DEF BuildBatch
      <3>2. work' \in [Threads -> Seq(Batch)] /\ pc' \in [Threads -> ThreadPc] /\ Busy'
        BY <1>3, <3>1, ContinueType
      <3> QED
        BY <1>6, <3>2 DEF BuildBatch, Batch
    <2> QED
      BY <2>1, <2>2
  <1>7. CASE CreditBatch(t)
    <2>1. debit' \in [Flow -> Int] /\ credit' \in [Flow -> Int]
      <3>1. FlowOf[t] \in Flow /\ debit \in [Flow -> Int] /\ credit \in [Flow -> Int]
        BY <1>1, <1>2, FlowOfAssumption
      <3>2. debit' = [debit EXCEPT ![FlowOf[t]] = @ + BatchOps]
        BY <1>7 DEF CreditBatch
      <3>3. credit' = [credit EXCEPT ![FlowOf[t]] = IF @ >= 0 THEN @ - 1 ELSE -1]
        BY <1>7 DEF CreditBatch, Released
      <3>4. BatchOps \in Int
        BY SizeAssumption
      <3>5. debit' \in [Flow -> Int]
        BY <3>1, <3>2, <3>4
      <3>6. credit' \in [Flow -> Int]
        BY <3>1, <3>3
      <3> QED
        BY <3>5, <3>6
    <2>2. pc' \in [Threads -> ThreadPc] /\ Busy'
      BY <1>7 DEF CreditBatch, Released, Busy, ThreadPc
    <2> QED
      BY <1>7, <2>1, <2>2 DEF CreditBatch
  <1>8. CASE RingBatch(t)
    <2>1. Len(Head(work[t])) \in Nat /\ Tail(work[t]) \in Seq(Batch)
      BY <1>3, <1>8, HeadLen DEF RingBatch, Busy
    <2>2. work' \in [Threads -> Seq(Batch)] /\ pc' \in [Threads -> ThreadPc] /\ Busy'
      BY <1>8, <2>1, ContinueType DEF RingBatch
    <2>3. debit' \in [Flow -> Int]
      <3>1. PICK n \in Nat : n = Len(Head(work[t]))
        BY <2>1
      <3>2. debit' = [debit EXCEPT ![FlowOf[t]] = @ - n]
        BY <1>8, <3>1 DEF RingBatch
      <3>3. debit \in [Flow -> Int] /\ FlowOf[t] \in Flow
        BY <1>1, FlowOfAssumption
      <3> QED
        BY <3>2, <3>3
    <2> QED
      BY <1>8, <2>2, <2>3 DEF RingBatch, Batch
  <1> QED
    BY <1>4, <1>5, <1>6, <1>7, <1>8 DEF Poster

LEMMA ExitTypeInv ==
  ASSUME TypeInv, NEW t \in Threads,
         BeginExit(t) \/ ClearPending(t) \/ EndExit(t) \/ Kill(t)
  PROVE  TypeInv'
  <1> USE DEF TypeInv, TypeOK, daemonVars, driverVars, historyVars
  <1>1. FlowOf[t] \in Flow
    BY FlowOfAssumption
  <1>2. CASE BeginExit(t)
    BY <1>1, <1>2 DEF BeginExit, Busy, ThreadPc
  <1>3. CASE ClearPending(t)
    BY <1>1, <1>3 DEF ClearPending, Busy, ThreadPc
  <1>4. CASE EndExit(t) \/ Kill(t)
    <2>1. Die(FlowOf[t])
      BY <1>4 DEF EndExit, Kill
    <2>2. <<>> \in Seq(Seq(Nat) \ {<<>>})
      OBVIOUS
    <2> QED
      BY <1>1, <2>1, <2>2 DEF Die, Busy, ThreadPc
  <1> QED
    BY <1>2, <1>3, <1>4

LEMMA TypeInvariant == SafeSpec => []TypeInv
  <1>1. TypeInv /\ [Next]_vars => TypeInv'
    <2> SUFFICES ASSUME TypeInv, [Next]_vars
                 PROVE  TypeInv'
      OBVIOUS
    <2>1. CASE Daemon
      BY <2>1, DaemonTypeInv
    <2>2. CASE Monitor
      BY <2>2, MonitorTypeInv
    <2>3. ASSUME NEW t \in Threads, NEW call \in Calls, PostSend(t, call)
          PROVE  TypeInv'
      BY <2>3, PostSendTypeInv
    <2>4. ASSUME NEW t \in Threads, Poster(t)
          PROVE  TypeInv'
      BY <2>4, PosterTypeInv
    <2>5. ASSUME NEW t \in Threads,
                 BeginExit(t) \/ ClearPending(t) \/ EndExit(t) \/ Kill(t)
          PROVE  TypeInv'
      BY <2>5, ExitTypeInv
    <2>6. CASE UNCHANGED vars
      BY <2>6 DEF vars, TypeInv, TypeOK, Busy, daemonVars, driverVars, historyVars
    <2> QED
      BY <2>1, <2>2, <2>3, <2>4, <2>5, <2>6 DEF Next
  <1> QED
    BY <1>1, InitTypeInv, PTL DEF SafeSpec

(* The variables of TokenPacer keep their types, and a thread inside a call *)
(* always has a work request left to post, in every reachable state.       *)
THEOREM TypeCorrect == SafeSpec => []TypeOK
  <1>1. TypeInv => TypeOK
    BY DEF TypeInv
  <1> QED
    BY <1>1, TypeInvariant, PTL

-----------------------------------------------------------------------------
(* The token count.                                                        *)

(* The token fetched for a grant is made up for before the next scan.       *)
TokenInv == TokenBound /\ (ppc \in {"grant", "refill"} => tokens = 0)

(* "in fact, in current logic, # of tokens should always be 1 or 0": the    *)
(* comment in generate_fetch_tokens holds, and the out-of-tokens branch of *)
(* the scan is never taken.                                                *)
THEOREM TokensAreOneOrZero == SafeSpec => []TokenBound
  <1>1. Init => TokenInv
    BY DEF Init, TokenInv, TokenBound
  <1>2. TypeOK /\ TokenInv /\ [Next]_vars => TokenInv'
    <2> SUFFICES ASSUME TypeOK, TokenInv, [Next]_vars
                 PROVE  TokenInv'
      OBVIOUS
    <2> USE DEF TokenInv, TokenBound
    <2>1. CASE LoadCap
      BY <2>1 DEF LoadCap
    <2>2. CASE ScanRead
      BY <2>2 DEF ScanRead
    <2>3. CASE ScanPending
      BY <2>3 DEF ScanPending
    <2>4. CASE Grant
      BY <2>4 DEF Grant
    <2>5. CASE Refill
      BY <2>5, SizeAssumption DEF Refill
    <2>6. CASE UNCHANGED <<ppc, tokens>>
      BY <2>6
    <2>7. Monitor \/ UNCHANGED vars => UNCHANGED <<ppc, tokens>>
      BY DEF Monitor, SetCap, SetReceiverSmall, vars, daemonVars
    <2>8. ASSUME NEW t \in Threads, NEW call \in Calls, PostSend(t, call)
          PROVE  UNCHANGED <<ppc, tokens>>
      BY <2>8 DEF PostSend, daemonVars
    <2>9. ASSUME NEW t \in Threads, Poster(t)
          PROVE  UNCHANGED <<ppc, tokens>>
      BY <2>9 DEF Poster, RequestWR, PostWR, BuildBatch, RequestBatch,
                  CreditBatch, RingBatch, daemonVars
    <2>10. ASSUME NEW t \in Threads,
                  BeginExit(t) \/ ClearPending(t) \/ EndExit(t) \/ Kill(t)
           PROVE  UNCHANGED <<ppc, tokens>>
      BY <2>10 DEF BeginExit, ClearPending, EndExit, Kill, Die, daemonVars
    <2> QED
      BY <2>1, <2>2, <2>3, <2>4, <2>5, <2>6, <2>7, <2>8, <2>9, <2>10
         DEF Next, Daemon
  <1>3. TokenInv => TokenBound
    BY DEF TokenInv
  <1> QED
    BY <1>1, <1>2, <1>3, TypeCorrect, PTL DEF SafeSpec

-----------------------------------------------------------------------------
(* One token per release, for processes that post from a single thread.    *)

SingleThreaded == \A t, u \in Threads : FlowOf[t] = FlowOf[u] => t = u

(* Who may wait on a flow that the pacer is about to serve.                 *)
Waiters(f, states) == \E t \in ThreadsOf(f) : pc[t] \in states

(* A request lives in exactly one place: the raised flag, the token fetched *)
(* for it, or the grant nobody has seen yet.                               *)
HandInv ==
  /\ \A f \in Flow : credit[f] \in {0, 1}
  /\ \A f \in Flow : pending[f] =>
       credit[f] = 0 /\ Waiters(f, {"spin", "exiting", "dead"})
  /\ ppc = "grant" =>
       credit[scanIdx] = 0 /\ Waiters(scanIdx, {"spin", "exiting", "exited", "dead"})
  /\ \A t \in Threads : pc[t] \in {"idle", "post", "debit"} =>
       ~pending[FlowOf[t]] /\ credit[FlowOf[t]] = 0
  /\ \A t \in Threads : pc[t] = "spin" =>
       (pending[FlowOf[t]] <=> credit[FlowOf[t]] = 0)

LEMMA HandInit == Init => HandInv
  BY FlowOfAssumption DEF Init, HandInv

LEMMA HandDaemon ==
  ASSUME SingleThreaded, TypeOK, HandInv, Daemon
  PROVE  HandInv'
  <1> USE FlowOfAssumption DEF TypeOK, HandInv, Waiters, ThreadsOf, daemonVars,
                               driverVars, historyVars
  <1>1. CASE LoadCap
    BY <1>1 DEF LoadCap
  <1>2. CASE ScanRead
    BY <1>2 DEF ScanRead
  <1>3. CASE ScanPending
    BY <1>3 DEF ScanPending
  <1>4. CASE Grant
    BY <1>4 DEF Grant, SingleThreaded
  <1>5. CASE Refill
    BY <1>5 DEF Refill
  <1> QED
    BY <1>1, <1>2, <1>3, <1>4, <1>5 DEF Daemon

LEMMA HandRaise ==
  ASSUME SingleThreaded, TypeOK, HandInv, NEW t \in Threads,
         RequestWR(t) \/ RequestBatch(t)
  PROVE  HandInv'
  <1> DEFINE f == FlowOf[t]
  <1>1. /\ pc[t] \in {"post", "debit"}
        /\ pending' = [pending EXCEPT ![f] = TRUE]
        /\ pc' = [pc EXCEPT ![t] = "spin"]
        /\ UNCHANGED <<credit, ppc, scanIdx>>
    BY DEF RequestWR, RequestBatch, Raise, daemonVars, historyVars
  <1>2. f \in Flow /\ ~pending[f] /\ credit[f] = 0
    BY <1>1, FlowOfAssumption DEF HandInv
  <1>3. ~(ppc = "grant" /\ scanIdx = f)
    BY <1>1 DEF HandInv, Waiters, ThreadsOf, SingleThreaded
  <1>4. \A u \in Threads : u # t => FlowOf[u] # f
    BY DEF SingleThreaded
  <1>5. \A u \in Threads : pc'[u] = IF u = t THEN "spin" ELSE pc[u]
    BY <1>1 DEF TypeOK
  <1>6. \A g \in Flow : pending'[g] = IF g = f THEN TRUE ELSE pending[g]
    BY <1>1, <1>2 DEF TypeOK
  <1>7. \A g \in Flow : credit'[g] \in {0, 1}
    BY <1>1 DEF HandInv
  <1>8. \A g \in Flow : pending'[g] =>
          credit'[g] = 0 /\ Waiters(g, {"spin", "exiting", "dead"})'
    BY <1>1, <1>2, <1>5, <1>6 DEF HandInv, Waiters, ThreadsOf
  <1>9. ppc' = "grant" =>
          /\ credit'[scanIdx'] = 0
          /\ Waiters(scanIdx, {"spin", "exiting", "exited", "dead"})'
    BY <1>1, <1>5 DEF HandInv, Waiters, ThreadsOf
  <1>10. \A u \in Threads : pc'[u] \in {"idle", "post", "debit"} =>
           ~pending'[FlowOf[u]] /\ credit'[FlowOf[u]] = 0
    BY <1>1, <1>4, <1>5, <1>6, FlowOfAssumption DEF HandInv
  <1>11. \A u \in Threads : pc'[u] = "spin" =>
           (pending'[FlowOf[u]] <=> credit'[FlowOf[u]] = 0)
    <2>1. ASSUME NEW u \in Threads, pc'[u] = "spin", u = t
          PROVE  pending'[FlowOf[u]] /\ credit'[FlowOf[u]] = 0
      BY <1>1, <1>2, <1>6, <2>1
    <2>2. ASSUME NEW u \in Threads, pc'[u] = "spin", u # t
          PROVE  pending'[FlowOf[u]] <=> credit'[FlowOf[u]] = 0
      <3>1. FlowOf[u] \in Flow /\ FlowOf[u] # f /\ pc[u] = "spin"
        BY <1>4, <1>5, <2>2, FlowOfAssumption
      <3>2. pending'[FlowOf[u]] = pending[FlowOf[u]]
        BY <1>6, <3>1
      <3>3. credit'[FlowOf[u]] = credit[FlowOf[u]]
        BY <1>1
      <3> QED
        BY <3>1, <3>2, <3>3 DEF HandInv
    <2> QED
      BY <2>1, <2>2
  <1> QED
    BY <1>7, <1>8, <1>9, <1>10, <1>11 DEF HandInv

LEMMA HandRelease ==
  ASSUME SingleThreaded, TypeOK, HandInv, NEW t \in Threads, Released(t),
         UNCHANGED <<pending, daemonVars>>,
         NEW s \in {"idle", "post", "debit"}, pc' = [pc EXCEPT ![t] = s]
  PROVE  HandInv'
  <1> DEFINE f == FlowOf[t]
  <1>1. /\ f \in Flow /\ ~pending[f] /\ pc[t] = "spin"
        /\ UNCHANGED <<pending, ppc, scanIdx>>
    BY FlowOfAssumption DEF Released, daemonVars
  <1>2. credit[f] = 1
    BY <1>1 DEF HandInv
  <1>3. \A g \in Flow : credit'[g] = IF g = f THEN 0 ELSE credit[g]
    BY <1>1, <1>2 DEF Released, TypeOK
  <1>4. ~(ppc = "grant" /\ scanIdx = f)
    BY <1>2 DEF HandInv
  <1>5. \A u \in Threads : u # t => FlowOf[u] # f
    BY DEF SingleThreaded
  <1>6. \A u \in Threads : pc'[u] = IF u = t THEN s ELSE pc[u]
    BY DEF TypeOK
  <1>7. \A g \in Flow : credit'[g] \in {0, 1}
    BY <1>3 DEF HandInv
  <1>8. \A g \in Flow : pending'[g] =>
          credit'[g] = 0 /\ Waiters(g, {"spin", "exiting", "dead"})'
    BY <1>1, <1>3, <1>6 DEF HandInv, Waiters, ThreadsOf
  <1>9. ppc' = "grant" =>
          /\ credit'[scanIdx'] = 0
          /\ Waiters(scanIdx, {"spin", "exiting", "exited", "dead"})'
    BY <1>1, <1>3, <1>4, <1>6 DEF HandInv, Waiters, ThreadsOf, TypeOK
  <1>10. \A u \in Threads : pc'[u] \in {"idle", "post", "debit"} =>
           ~pending'[FlowOf[u]] /\ credit'[FlowOf[u]] = 0
    BY <1>1, <1>3, <1>6, FlowOfAssumption DEF HandInv
  <1>11. \A u \in Threads : pc'[u] = "spin" =>
           (pending'[FlowOf[u]] <=> credit'[FlowOf[u]] = 0)
    BY <1>1, <1>3, <1>5, <1>6, FlowOfAssumption DEF HandInv
  <1> QED
    BY <1>7, <1>8, <1>9, <1>10, <1>11 DEF HandInv

LEMMA HandMove ==
  ASSUME TypeOK, HandInv, NEW t \in Threads,
         pc[t] \in {"idle", "post", "debit"},
         UNCHANGED <<pending, daemonVars, credit>>,
         NEW s \in {"idle", "post", "debit"}, pc' = [pc EXCEPT ![t] = s]
  PROVE  HandInv'
  BY FlowOfAssumption
     DEF TypeOK, HandInv, Waiters, ThreadsOf, daemonVars

LEMMA HandExit ==
  ASSUME SingleThreaded, TypeOK, HandInv, NEW t \in Threads,
         BeginExit(t) \/ ClearPending(t) \/ EndExit(t) \/ Kill(t)
  PROVE  HandInv'
  <1> USE FlowOfAssumption DEF TypeOK, HandInv, Waiters, ThreadsOf, daemonVars,
                               historyVars, SingleThreaded
  <1>1. CASE BeginExit(t)
    BY <1>1 DEF BeginExit
  <1>2. CASE ClearPending(t)
    BY <1>2 DEF ClearPending
  <1>3. CASE EndExit(t) \/ Kill(t)
    <2>1. /\ Die(FlowOf[t])
          /\ UNCHANGED <<pending, credit, ppc, scanIdx>>
      BY <1>3 DEF EndExit, Kill, Die
    <2>2. pc' = [u \in Threads |-> IF FlowOf[u] = FlowOf[t] THEN "dead" ELSE pc[u]]
      BY <2>1 DEF Die
    <2> QED
      BY <2>1, <2>2
  <1> QED
    BY <1>1, <1>2, <1>3

LEMMA HandStep ==
  ASSUME SingleThreaded, TypeOK, HandInv, [Next]_vars
  PROVE  HandInv'
  <1>1. CASE Daemon
    BY <1>1, HandDaemon
  <1>2. CASE Monitor \/ UNCHANGED vars
    BY <1>2 DEF Monitor, SetCap, SetReceiverSmall, HandInv, Waiters, vars,
                daemonVars, driverVars, historyVars
  <1>3. ASSUME NEW t \in Threads, NEW call \in Calls, PostSend(t, call)
        PROVE  HandInv'
    <2>1. PICK s \in {"idle", "post"} : pc' = [pc EXCEPT ![t] = s]
      BY <1>3 DEF PostSend, Continue
    <2> QED
      BY <1>3, <2>1, HandMove DEF PostSend, historyVars
  <1>4. ASSUME NEW t \in Threads, Poster(t)
        PROVE  HandInv'
    <2>1. CASE RequestWR(t) \/ RequestBatch(t)
      BY <2>1, HandRaise
    <2>2. CASE CreditBatch(t)
      BY <2>2, HandRelease DEF CreditBatch
    <2>3. ASSUME NEW ok \in BOOLEAN, PostWR(t, ok)
          PROVE  HandInv'
      <3>1. PICK s \in {"idle", "post"} : pc' = [pc EXCEPT ![t] = s]
        BY <2>3 DEF PostWR, Continue
      <3> QED
        BY <2>3, <3>1, HandRelease DEF PostWR
    <2>4. ASSUME NEW ok \in BOOLEAN, BuildBatch(t, ok)
          PROVE  HandInv'
      <3>1. PICK s \in {"idle", "post", "debit"} : pc' = [pc EXCEPT ![t] = s]
        BY <2>4 DEF BuildBatch, Continue
      <3> QED
        BY <2>4, <3>1, HandMove DEF BuildBatch, historyVars
    <2>5. CASE RingBatch(t)
      <3>1. PICK s \in {"idle", "post"} : pc' = [pc EXCEPT ![t] = s]
        BY <2>5 DEF RingBatch, Continue
      <3> QED
        BY <2>5, <3>1, HandMove DEF RingBatch, historyVars
    <2> QED
      BY <1>4, <2>1, <2>2, <2>3, <2>4, <2>5 DEF Poster
  <1>5. ASSUME NEW t \in Threads,
               BeginExit(t) \/ ClearPending(t) \/ EndExit(t) \/ Kill(t)
        PROVE  HandInv'
    BY <1>5, HandExit
  <1> QED
    BY <1>1, <1>2, <1>3, <1>4, <1>5 DEF Next

LEMMA HandCorrect ==
  ASSUME SingleThreaded
  PROVE  SafeSpec => []HandInv
  <1>1. TypeOK /\ HandInv /\ [Next]_vars => HandInv'
    BY HandStep
  <1> QED
    BY <1>1, HandInit, TypeCorrect, PTL DEF SafeSpec

(* Nobody posts without a grant of its own and no grant answers a request   *)
(* that was answered before, if every process posts from one thread.       *)
THEOREM OneGrantPerRequest ==
  ASSUME SingleThreaded
  PROVE  SafeSpec => []OneTokenPerRelease
  <1>1. HandInv => OneTokenPerRelease
    BY DEF HandInv, OneTokenPerRelease
  <1> QED
    BY <1>1, HandCorrect, PTL

-----------------------------------------------------------------------------
(* The token reaches somebody who waits, whatever the number of threads.    *)

Ended == {"exited", "dead"}
Waiting == {"spin", "exiting"} \cup Ended

(* A raised flag has somebody behind it, and what the scan is about to      *)
(* clear is still raised unless the process has taken it back for good.    *)
WaitInv ==
  /\ \A f \in Flow : pending[f] => Waiters(f, Waiting)
  /\ ppc = "grant" => pending[scanIdx] \/ Waiters(scanIdx, Ended)

(* A step that lowers no flag, ends nobody's waiting but that of a released *)
(* thread, and is not the daemon's keeps the invariant.                    *)
LEMMA WaitStays ==
  ASSUME TypeOK, WaitInv, NEW t \in Threads,
         UNCHANGED <<pending, daemonVars>>,
         pc[t] \in {"idle", "post", "debit"} \/ Released(t),
         NEW s \in ThreadPc, pc' = [pc EXCEPT ![t] = s]
  PROVE  WaitInv'
  <1>a. UNCHANGED <<pending, ppc, scanIdx>>
    BY DEF daemonVars
  <1>b. \A u \in Threads : u # t => pc'[u] = pc[u]
    BY DEF TypeOK
  <1>c. pc[t] \in {"idle", "post", "debit"} \/ (pc[t] = "spin" /\ ~pending[FlowOf[t]])
    BY DEF Released
  <1>1. /\ UNCHANGED <<pending, ppc, scanIdx>>
        /\ \A u \in Threads : u # t => pc'[u] = pc[u]
        /\ pc[t] \in {"idle", "post", "debit"} \/ (pc[t] = "spin" /\ ~pending[FlowOf[t]])
    BY <1>a, <1>b, <1>c
  <1>2. \A f \in Flow : pending'[f] => Waiters(f, Waiting)'
    BY <1>1 DEF WaitInv, Waiters, ThreadsOf, Waiting, Ended
  <1>3. ppc' = "grant" => pending'[scanIdx'] \/ Waiters(scanIdx, Ended)'
    BY <1>1 DEF WaitInv, Waiters, ThreadsOf, Ended
  <1> QED
    BY <1>2, <1>3 DEF WaitInv

LEMMA WaitRaise ==
  ASSUME TypeOK, WaitInv, NEW t \in Threads,
         RequestWR(t) \/ RequestBatch(t)
  PROVE  WaitInv'
  <1>1. /\ pc[t] \in {"post", "debit"}
        /\ pending' = [pending EXCEPT ![FlowOf[t]] = TRUE]
        /\ pc' = [pc EXCEPT ![t] = "spin"]
        /\ UNCHANGED <<ppc, scanIdx>>
    BY DEF RequestWR, RequestBatch, Raise, daemonVars
  <1>2. FlowOf[t] \in Flow
    BY FlowOfAssumption
  <1>3. \A f \in Flow : pending'[f] => Waiters(f, Waiting)'
    BY <1>1, <1>2 DEF WaitInv, Waiters, ThreadsOf, Waiting, Ended, TypeOK
  <1>4. ppc' = "grant" => pending'[scanIdx'] \/ Waiters(scanIdx, Ended)'
    BY <1>1, <1>2 DEF WaitInv, Waiters, ThreadsOf, Ended, TypeOK
  <1> QED
    BY <1>3, <1>4 DEF WaitInv

LEMMA WaitDaemon ==
  ASSUME TypeOK, WaitInv, Daemon
  PROVE  WaitInv'
  <1> USE DEF TypeOK, WaitInv, Waiters, ThreadsOf, daemonVars, driverVars
  <1>1. CASE LoadCap
    BY <1>1 DEF LoadCap
  <1>2. CASE ScanRead
    BY <1>2 DEF ScanRead
  <1>3. CASE ScanPending
    BY <1>3 DEF ScanPending
  <1>4. CASE Grant
    BY <1>4 DEF Grant
  <1>5. CASE Refill
    BY <1>5 DEF Refill
  <1> QED
    BY <1>1, <1>2, <1>3, <1>4, <1>5 DEF Daemon

LEMMA WaitExit ==
  ASSUME TypeOK, WaitInv, NEW t \in Threads,
         BeginExit(t) \/ ClearPending(t) \/ EndExit(t) \/ Kill(t)
  PROVE  WaitInv'
  <1> USE FlowOfAssumption DEF TypeOK, WaitInv, Waiters, ThreadsOf, Waiting,
                               Ended, daemonVars
  <1>1. CASE BeginExit(t)
    <2>1. pc[t] = "exited" => Handling(FlowOf[t])
      BY DEF Handling
    <2> QED
      BY <1>1, <2>1 DEF BeginExit
  <1>2. CASE ClearPending(t)
    BY <1>2 DEF ClearPending
  <1>3. CASE EndExit(t) \/ Kill(t)
    BY <1>3 DEF EndExit, Kill, Die
  <1> QED
    BY <1>1, <1>2, <1>3

LEMMA WaitPoster ==
  ASSUME TypeOK, WaitInv, NEW t \in Threads, Poster(t)
  PROVE  WaitInv'
  <1>1. CASE RequestWR(t) \/ RequestBatch(t)
    BY <1>1, WaitRaise
  <1>2. CASE CreditBatch(t)
    BY <1>2, WaitStays DEF CreditBatch, ThreadPc
  <1>3. ASSUME NEW ok \in BOOLEAN, PostWR(t, ok)
        PROVE  WaitInv'
    <2>1. PICK s \in ThreadPc : pc' = [pc EXCEPT ![t] = s]
      BY <1>3 DEF PostWR, Continue, ThreadPc
    <2> QED
      BY <1>3, <2>1, WaitStays DEF PostWR
  <1>4. ASSUME NEW ok \in BOOLEAN, BuildBatch(t, ok)
        PROVE  WaitInv'
    <2>1. PICK s \in ThreadPc : pc' = [pc EXCEPT ![t] = s]
      BY <1>4 DEF BuildBatch, Continue, ThreadPc
    <2> QED
      BY <1>4, <2>1, WaitStays DEF BuildBatch
  <1>5. CASE RingBatch(t)
    <2>1. PICK s \in ThreadPc : pc' = [pc EXCEPT ![t] = s]
      BY <1>5 DEF RingBatch, Continue, ThreadPc
    <2> QED
      BY <1>5, <2>1, WaitStays DEF RingBatch
  <1> QED
    BY <1>1, <1>2, <1>3, <1>4, <1>5 DEF Poster

LEMMA WaitStep ==
  ASSUME TypeOK, WaitInv, [Next]_vars
  PROVE  WaitInv'
  <1>1. CASE Monitor \/ UNCHANGED vars
    BY <1>1 DEF Monitor, SetCap, SetReceiverSmall, WaitInv, Waiters, vars,
                daemonVars, driverVars
  <1>2. ASSUME NEW t \in Threads, NEW call \in Calls, PostSend(t, call)
        PROVE  WaitInv'
    <2>1. PICK s \in ThreadPc : pc' = [pc EXCEPT ![t] = s]
      BY <1>2 DEF PostSend, Continue, ThreadPc
    <2> QED
      BY <1>2, <2>1, WaitStays DEF PostSend
  <1> QED
    BY <1>1, <1>2, WaitDaemon, WaitPoster, WaitExit DEF Next

LEMMA WaitCorrect == SafeSpec => []WaitInv
  <1>1. Init => WaitInv
    BY DEF Init, WaitInv
  <1>2. TypeOK /\ WaitInv /\ [Next]_vars => WaitInv'
    BY WaitStep
  <1> QED
    BY <1>1, <1>2, TypeCorrect, PTL DEF SafeSpec

(* The store that clears a flag, and the token it costs, are for a process  *)
(* in which somebody waits for it or which is going down, however many     *)
(* threads share the flag.                                                 *)
THEOREM TokenReachesWaiter == SafeSpec => []NoWastedToken
  <1>1. TypeOK /\ WaitInv => NoWastedToken
    BY DEF TypeOK, WaitInv, NoWastedToken, Waiters, Waiting, Ended
  <1> QED
    BY <1>1, TypeCorrect, WaitCorrect, PTL

-----------------------------------------------------------------------------
(* Round robin: no waiting flow is passed over twice by another one.        *)

Distance(i, f) == IF i <= f THEN f - i ELSE f - i + NumFlows

(* The slot at which the scan is, or at which the next scan starts.         *)
ScanPos == IF ppc \in {"scan", "check", "grant"} THEN scanIdx ELSE nextIdx

Live(f) == \A t \in ThreadsOf(f) : pc[t] \notin {"exiting", "exited", "dead"}

(* The registration as READ is there from the first call of a process until *)
(* its exit handler, and during that time nobody counts bypasses of it: the *)
(* scan may pass it any number of times.                                   *)
ReadInv ==
  /\ \A t, u \in Threads :
       FlowOf[t] = FlowOf[u] /\ pc[t] = "dead" => pc[u] = "dead"
  /\ \A t \in Threads :
       pc[t] \in {"post", "debit", "spin"} /\ Live(FlowOf[t])
         /\ FlowOf[t] \in ReadFlows => read[FlowOf[t]]
  /\ \A f \in Flow : read[f] /\ Live(f) => bypass[f] = 0

(* The flows between the scan and a waiting flow are those that may still   *)
(* be served before it.                                                    *)
BypassInv ==
  /\ \A f \in Flow : ~pending[f] => bypass[f] = 0
  /\ \A f \in Flow :
       pending[f] /\ ~read[f] => bypass[f] + Distance(ScanPos, f) <= NumFlows - 1

LEMMA DistanceBounds ==
  ASSUME NEW i \in Flow, NEW f \in Flow
  PROVE  /\ Distance(i, f) \in 0 .. NumFlows - 1
         /\ i # f => Distance(Advance(i), f) = Distance(i, f) - 1
  <1>1. Advance(i) = IF i = NumFlows - 1 THEN 0 ELSE i + 1
    <2>1. CASE i = NumFlows - 1
      <3>1. i + 1 = NumFlows /\ NumFlows % NumFlows = 0
        BY <2>1, NumFlowsAssumption DEF Flow
      <3> QED
        BY <2>1, <3>1 DEF Advance
    <2>2. CASE i # NumFlows - 1
      <3>1. i + 1 \in 0 .. NumFlows - 1
        BY <2>2, NumFlowsAssumption DEF Flow
      <3>2. (i + 1) % NumFlows = i + 1
        BY <3>1, NumFlowsAssumption
      <3> QED
        BY <2>2, <3>2 DEF Advance
    <2> QED
      BY <2>1, <2>2
  <1> QED
    BY <1>1, NumFlowsAssumption DEF Distance, Flow

LEMMA ScanPosType ==
  ASSUME TypeOK
  PROVE  ScanPos \in Flow
  BY DEF TypeOK, ScanPos

LEMMA RoundRobinInit == Init => ReadInv /\ BypassInv
  BY FlowOfAssumption DEF Init, ReadInv, BypassInv

(* The daemon steps over a flow that does not wait, or serves it.           *)
LEMMA RoundRobinDaemon ==
  ASSUME TypeOK, TypeOK', ReadInv, BypassInv, Daemon
  PROVE  ReadInv' /\ BypassInv'
  <1>1. UNCHANGED <<pc, read>>
    BY DEF Daemon, LoadCap, ScanRead, ScanPending, Grant, Refill, driverVars
  <1>2. CASE LoadCap \/ Refill
    <2>1. UNCHANGED <<pending, bypass>> /\ ScanPos' = ScanPos
      BY <1>2 DEF LoadCap, Refill, ScanPos, historyVars
    <2> QED
      BY <1>1, <2>1 DEF ReadInv, BypassInv, Live, ThreadsOf, Distance
  <1>3. CASE ScanRead \/ ScanPending
    <2>1. UNCHANGED <<pending, bypass>>
      BY <1>3 DEF ScanRead, ScanPending, historyVars
    <2>2. \/ ScanPos' = ScanPos
          \/ /\ ScanPos' = Advance(ScanPos)
             /\ read[ScanPos] \/ ~pending[ScanPos]
      BY <1>3 DEF ScanRead, ScanPending, ScanPos
    <2>3. PICK i \in Flow : i = ScanPos
      BY ScanPosType
    <2>4. PICK j \in Flow : j = ScanPos'
      BY DEF TypeOK, ScanPos
    <2>5. \A f \in Flow : pending[f] /\ ~read[f] => Distance(j, f) <= Distance(i, f)
      BY <2>2, <2>3, <2>4, DistanceBounds, NumFlowsAssumption
    <2>6. \A f \in Flow : /\ Distance(j, f) \in Int /\ Distance(i, f) \in Int
                          /\ bypass[f] \in Nat
      BY DistanceBounds, NumFlowsAssumption DEF TypeOK
    <2>7. BypassInv'
      <3>1. \A f \in Flow : pending[f] /\ ~read[f] => bypass[f] + Distance(i, f) <= NumFlows - 1
        BY <2>3 DEF BypassInv
      <3>2. \A f \in Flow : pending[f] /\ ~read[f] => bypass[f] + Distance(j, f) <= NumFlows - 1
        BY <3>1, <2>5, <2>6, NumFlowsAssumption
      <3> QED
        BY <1>1, <2>1, <2>4, <3>2 DEF BypassInv, Distance
    <2> QED
      BY <1>1, <2>1, <2>7 DEF ReadInv, Live, ThreadsOf
  <1>4. CASE Grant
    <2>1. PICK i \in Flow : i = ScanPos /\ i = scanIdx
      BY <1>4 DEF Grant, TypeOK, ScanPos
    <2>2. PICK j \in Flow : j = ScanPos' /\ j = Advance(i)
      BY <1>4, <2>1, AdvanceType DEF Grant, ScanPos
    <2>3. /\ pending' = [pending EXCEPT ![i] = FALSE]
          /\ bypass' = [f \in Flow |->
                          IF f = i THEN 0
                          ELSE IF pending[f] /\ ~read[f] /\ bypass[f] < NumFlows
                            THEN bypass[f] + 1
                          ELSE bypass[f]]
      BY <1>4, <2>1 DEF Grant
    <2>4. ASSUME NEW f \in Flow, f # i, pending[f], ~read[f]
          PROVE  bypass'[f] + Distance(j, f) <= NumFlows - 1
      <3>1. Distance(j, f) = Distance(i, f) - 1 /\ Distance(i, f) \in 0 .. NumFlows - 1
        BY <2>2, <2>4, DistanceBounds
      <3>2. bypass'[f] \in {bypass[f], bypass[f] + 1} /\ bypass[f] \in Nat
        BY <2>3, <2>4 DEF TypeOK
      <3>3. bypass[f] + Distance(i, f) <= NumFlows - 1
        BY <2>1, <2>4 DEF BypassInv
      <3> QED
        BY <3>1, <3>2, <3>3, NumFlowsAssumption
    <2>5. BypassInv'
      <3>1. ASSUME NEW f \in Flow, ~pending'[f]
            PROVE  bypass'[f] = 0
        BY <2>3, <3>1 DEF BypassInv, TypeOK
      <3>2. ASSUME NEW f \in Flow, pending'[f], ~read'[f]
            PROVE  bypass'[f] + Distance(ScanPos, f)' <= NumFlows - 1
        <4>1. f # i /\ pending[f] /\ ~read[f]
          BY <1>1, <2>3, <3>2 DEF TypeOK
        <4>2. Distance(ScanPos, f)' = Distance(j, f)
          BY <2>2 DEF Distance
        <4> QED
          BY <2>4, <4>1, <4>2
      <3> QED
        BY <3>1, <3>2 DEF BypassInv
    <2>6. \A f \in Flow : read[f] /\ Live(f) => bypass'[f] = 0
      BY <2>3 DEF ReadInv
    <2> QED
      BY <1>1, <2>5, <2>6 DEF ReadInv, Live, ThreadsOf
  <1> QED
    BY <1>2, <1>3, <1>4 DEF Daemon

(* A flow that starts to wait has been passed over by nobody.               *)
LEMMA RoundRobinRaise ==
  ASSUME TypeOK, ReadInv, BypassInv, NEW t \in Threads,
         RequestWR(t) \/ RequestBatch(t)
  PROVE  ReadInv' /\ BypassInv'
  <1> DEFINE g == FlowOf[t]
  <1>1. /\ pc[t] \in {"post", "debit"}
        /\ pending' = [pending EXCEPT ![g] = TRUE]
        /\ pc' = [pc EXCEPT ![t] = "spin"]
        /\ UNCHANGED <<read, bypass>>
        /\ ScanPos' = ScanPos
    BY DEF RequestWR, RequestBatch, Raise, daemonVars, historyVars, ScanPos
  <1>2. g \in Flow
    BY FlowOfAssumption
  <1>3. \A f \in Flow : Live(f)' => Live(f)
    BY <1>1 DEF Live, ThreadsOf, TypeOK
  <1>4. ReadInv'
    BY <1>1, <1>3, FlowOfAssumption DEF ReadInv, TypeOK
  <1>5. PICK i \in Flow : i = ScanPos
    BY ScanPosType
  <1>6. ~pending[g] => bypass[g] + Distance(i, g) <= NumFlows - 1
    BY <1>2, DistanceBounds, NumFlowsAssumption DEF BypassInv
  <1>7. BypassInv'
    BY <1>1, <1>2, <1>5, <1>6 DEF BypassInv, Distance, TypeOK
  <1> QED
    BY <1>4, <1>7

(* Other steps inside a call touch neither flags nor the scan.              *)
LEMMA RoundRobinMove ==
  ASSUME TypeOK, ReadInv, BypassInv, NEW t \in Threads,
         UNCHANGED <<pending, read, daemonVars, bypass>>,
         pc[t] \in {"post", "debit", "spin"},
         NEW s \in {"idle", "post", "debit"}, pc' = [pc EXCEPT ![t] = s]
  PROVE  ReadInv' /\ BypassInv'
  <1>1. UNCHANGED <<pending, read, bypass>> /\ ScanPos' = ScanPos
    BY DEF daemonVars, ScanPos
  <1>2. \A f \in Flow : Live(f)' => Live(f)
    BY DEF Live, ThreadsOf, TypeOK
  <1>3. ReadInv'
    BY <1>1, <1>2, FlowOfAssumption DEF ReadInv, TypeOK
  <1>4. BypassInv'
    BY <1>1 DEF BypassInv, Distance
  <1> QED
    BY <1>3, <1>4

(* The first call registers a READ flow while it cannot be waiting.         *)
LEMMA RoundRobinPostSend ==
  ASSUME TypeOK, WaitInv, ReadInv, BypassInv,
         NEW t \in Threads, NEW call \in Calls, PostSend(t, call)
  PROVE  ReadInv' /\ BypassInv'
  <1> DEFINE g == FlowOf[t]
  <1>1. /\ pc[t] = "idle"
        /\ read' = [read EXCEPT ![g] = @ \/ g \in ReadFlows]
        /\ UNCHANGED <<pending, bypass>>
        /\ ScanPos' = ScanPos
    BY DEF PostSend, daemonVars, historyVars, ScanPos
  <1>2. PICK s \in {"idle", "post"} : pc' = [pc EXCEPT ![t] = s]
    BY DEF PostSend, Continue
  <1>3. g \in Flow
    BY FlowOfAssumption
  <1>4. \A f \in Flow : Live(f)' => Live(f)
    BY <1>1, <1>2 DEF Live, ThreadsOf, TypeOK
  <1>5. ASSUME Live(g), g \in ReadFlows
        PROVE  bypass[g] = 0
    <2>1. CASE read[g]
      BY <1>3, <1>5, <2>1 DEF ReadInv
    <2>2. CASE ~read[g]
      <3>1. \A u \in ThreadsOf(g) : pc[u] \notin Waiting
        BY <1>5, <2>2 DEF ReadInv, Live, ThreadsOf, Waiting, Ended
      <3>2. ~pending[g]
        BY <1>3, <3>1 DEF WaitInv, Waiters
      <3> QED
        BY <1>3, <3>2 DEF BypassInv
    <2> QED
      BY <2>1, <2>2
  <1>6. \A f \in Flow : read'[f] => read[f] \/ (f = g /\ g \in ReadFlows)
    BY <1>1 DEF TypeOK
  <1>7. \A f \in Flow : read[f] => read'[f]
    BY <1>1 DEF TypeOK
  <1>8. ReadInv'
    <2>1. \A f \in Flow : read'[f] /\ Live(f)' => bypass'[f] = 0
      BY <1>1, <1>4, <1>5, <1>6 DEF ReadInv
    <2>2. g \in ReadFlows => read'[g]
      BY <1>1, <1>3 DEF TypeOK
    <2>3. ASSUME NEW u \in Threads, pc'[u] \in {"post", "debit", "spin"},
                 Live(FlowOf[u])', FlowOf[u] \in ReadFlows
          PROVE  read'[FlowOf[u]]
      <3>1. CASE FlowOf[u] = g
        BY <2>2, <2>3, <3>1
      <3>2. CASE FlowOf[u] # g
        BY <1>2, <1>4, <1>7, <2>3, <3>2, FlowOfAssumption DEF ReadInv, TypeOK
      <3> QED
        BY <3>1, <3>2
    <2>4. ASSUME NEW u \in Threads, NEW v \in Threads,
                 FlowOf[u] = FlowOf[v], pc'[u] = "dead"
          PROVE  pc'[v] = "dead"
      BY <1>1, <1>2, <2>4 DEF ReadInv, TypeOK
    <2> QED
      BY <2>1, <2>3, <2>4 DEF ReadInv
  <1>9. BypassInv'
    BY <1>1, <1>7 DEF BypassInv, Distance
  <1> QED
    BY <1>8, <1>9

LEMMA RoundRobinExit ==
  ASSUME TypeOK, ReadInv, BypassInv, NEW t \in Threads,
         BeginExit(t) \/ ClearPending(t) \/ EndExit(t) \/ Kill(t)
  PROVE  ReadInv' /\ BypassInv'
  <1> DEFINE g == FlowOf[t]
  <1>1. g \in Flow /\ ScanPos' = ScanPos
    BY FlowOfAssumption
       DEF BeginExit, ClearPending, EndExit, Kill, Die, daemonVars, ScanPos
  <1>2. PICK i \in Flow : i = ScanPos
    BY ScanPosType
  <1>3. CASE BeginExit(t)
    <2>1. /\ pc' = [pc EXCEPT ![t] = "exiting"]
          /\ read' = [read EXCEPT ![g] = FALSE]
          /\ UNCHANGED <<pending, bypass>>
      BY <1>3 DEF BeginExit, historyVars
    <2>2. Live(g)
      BY <1>3 DEF BeginExit, Handling, ReadInv, Live, ThreadsOf
    <2>3. \A f \in Flow : Live(f)' => Live(f) /\ f # g
      BY <2>1 DEF Live, ThreadsOf, TypeOK
    <2>4. ReadInv'
      <3>1. \A f \in Flow : f # g => read'[f] = read[f]
        BY <2>1 DEF TypeOK
      <3>2. pc[t] # "dead"
        BY <1>3 DEF BeginExit
      <3>3. ASSUME NEW u \in Threads, NEW v \in Threads,
                   FlowOf[u] = FlowOf[v], pc'[u] = "dead"
            PROVE  pc'[v] = "dead"
        BY <2>1, <3>2, <3>3 DEF ReadInv, TypeOK
      <3>4. ASSUME NEW u \in Threads, pc'[u] \in {"post", "debit", "spin"},
                   Live(FlowOf[u])', FlowOf[u] \in ReadFlows
            PROVE  read'[FlowOf[u]]
        <4>1. Live(FlowOf[u]) /\ FlowOf[u] # g /\ FlowOf[u] \in Flow
          BY <2>3, <3>4, FlowOfAssumption
        <4>2. pc'[u] = pc[u]
          BY <2>1, <4>1 DEF TypeOK
        <4> QED
          BY <3>1, <3>4, <4>1, <4>2 DEF ReadInv
      <3>5. \A f \in Flow : read'[f] /\ Live(f)' => bypass'[f] = 0
        BY <2>1, <2>3, <3>1 DEF ReadInv
      <3> QED
        BY <3>3, <3>4, <3>5 DEF ReadInv
    <2>5. pending[g] => bypass[g] + Distance(i, g) <= NumFlows - 1
      BY <1>1, <1>2, <2>2, DistanceBounds, NumFlowsAssumption DEF ReadInv, BypassInv
    <2>6. BypassInv'
      BY <1>1, <1>2, <2>1, <2>5 DEF BypassInv, Distance, TypeOK
    <2> QED
      BY <2>4, <2>6
  <1>4. CASE ClearPending(t)
    <2>1. /\ pc[t] = "exiting" /\ pc' = [pc EXCEPT ![t] = "exited"]
          /\ pending' = [pending EXCEPT ![g] = FALSE]
          /\ bypass' = [bypass EXCEPT ![g] = 0]
          /\ UNCHANGED read
      BY <1>4 DEF ClearPending
    <2>2. \A f \in Flow : Live(f)' => Live(f)
      BY <2>1 DEF Live, ThreadsOf, TypeOK
    <2>3. ReadInv'
      BY <1>1, <2>1, <2>2, FlowOfAssumption DEF ReadInv, TypeOK
    <2>4. BypassInv'
      BY <1>1, <2>1 DEF BypassInv, Distance, TypeOK
    <2> QED
      BY <2>3, <2>4
  <1>5. CASE EndExit(t) \/ Kill(t)
    <2>1. /\ pc' = [u \in Threads |-> IF FlowOf[u] = g THEN "dead" ELSE pc[u]]
          /\ UNCHANGED <<pending, read, bypass>>
      BY <1>5 DEF EndExit, Kill, Die, historyVars
    <2>2. \A f \in Flow : Live(f)' => Live(f)
      BY <2>1 DEF Live, ThreadsOf
    <2>3. ReadInv'
      BY <2>1, <2>2, FlowOfAssumption DEF ReadInv
    <2>4. BypassInv'
      BY <1>1, <2>1 DEF BypassInv, Distance
    <2> QED
      BY <2>3, <2>4
  <1> QED
    BY <1>3, <1>4, <1>5

LEMMA RoundRobinPoster ==
  ASSUME TypeOK, ReadInv, BypassInv, NEW t \in Threads, Poster(t)
  PROVE  ReadInv' /\ BypassInv'
  <1>1. CASE RequestWR(t) \/ RequestBatch(t)
    BY <1>1, RoundRobinRaise
  <1>2. CASE CreditBatch(t)
    BY <1>2, RoundRobinMove DEF CreditBatch, Released
  <1>3. ASSUME NEW ok \in BOOLEAN, PostWR(t, ok)
        PROVE  ReadInv' /\ BypassInv'
    <2>1. PICK s \in {"idle", "post"} : pc' = [pc EXCEPT ![t] = s]
      BY <1>3 DEF PostWR, Continue
    <2> QED
      BY <1>3, <2>1, RoundRobinMove DEF PostWR, Released
  <1>4. ASSUME NEW ok \in BOOLEAN, BuildBatch(t, ok)
        PROVE  ReadInv' /\ BypassInv'
    <2>1. PICK s \in {"idle", "post", "debit"} : pc' = [pc EXCEPT ![t] = s]
      BY <1>4 DEF BuildBatch, Continue
    <2> QED
      BY <1>4, <2>1, RoundRobinMove DEF BuildBatch, historyVars
  <1>5. CASE RingBatch(t)
    <2>1. PICK s \in {"idle", "post"} : pc' = [pc EXCEPT ![t] = s]
      BY <1>5 DEF RingBatch, Continue
    <2> QED
      BY <1>5, <2>1, RoundRobinMove DEF RingBatch, historyVars
  <1> QED
    BY <1>1, <1>2, <1>3, <1>4, <1>5 DEF Poster

LEMMA RoundRobinStep ==
  ASSUME TypeOK, TypeOK', WaitInv, ReadInv, BypassInv, [Next]_vars
  PROVE  ReadInv' /\ BypassInv'
  <1>1. CASE Monitor \/ UNCHANGED vars
    <2>1. UNCHANGED <<pending, read, bypass, pc>> /\ ScanPos' = ScanPos
      BY <1>1 DEF Monitor, SetCap, SetReceiverSmall, vars, daemonVars, driverVars,
                  historyVars, ScanPos
    <2> QED
      BY <2>1 DEF ReadInv, BypassInv, Live, ThreadsOf, Distance
  <1> QED
    BY <1>1, RoundRobinDaemon, RoundRobinPoster, RoundRobinPostSend, RoundRobinExit
       DEF Next

(* While a flow waits every other one is served at most once, for any       *)
(* number of flows, of threads behind a flag, and of exits on the way.      *)
THEOREM RoundRobin == SafeSpec => []BoundedBypass
  <1>1. TypeOK /\ TypeOK' /\ WaitInv /\ ReadInv /\ BypassInv /\ [Next]_vars
          => ReadInv' /\ BypassInv'
    BY RoundRobinStep
  <1>2. TypeOK /\ BypassInv => BoundedBypass
    <2> SUFFICES ASSUME TypeOK, BypassInv, NEW f \in Flow, pending[f], ~read[f]
                 PROVE  bypass[f] <= NumFlows - 1
      BY DEF BoundedBypass
    <2>1. bypass[f] \in Nat /\ bypass[f] + Distance(ScanPos, f) <= NumFlows - 1
      BY DEF TypeOK, BypassInv
    <2>2. Distance(ScanPos, f) \in 0 .. NumFlows - 1
      BY ScanPosType, DistanceBounds
    <2> QED
      BY <2>1, <2>2, NumFlowsAssumption
  <1> QED
    BY <1>1, <1>2, RoundRobinInit, TypeCorrect, WaitCorrect, PTL DEF SafeSpec

-----------------------------------------------------------------------------
(* The scan implements the abstract service, for single-threaded processes. *)

Allowed == {f \in Flow : credit[f] = 1}

(* A step that leaves flags, credit and a pending hand-over alone stutters. *)
LEMMA ServiceStutters ==
  ASSUME Asking' = Asking, Allowed' = Allowed
  PROVE  [Abstract!Next]_(Abstract!vars)
  BY DEF Abstract!vars, Allowed

LEMMA ServiceRaise ==
  ASSUME SingleThreaded, TypeOK, HandInv, NEW t \in Threads,
         RequestWR(t) \/ RequestBatch(t)
  PROVE  [Abstract!Next]_(Abstract!vars)
  <1> DEFINE f == FlowOf[t]
  <1>1. /\ pc[t] \in {"post", "debit"}
        /\ pending' = [pending EXCEPT ![f] = TRUE]
        /\ UNCHANGED <<credit, ppc, scanIdx>>
    BY DEF RequestWR, RequestBatch, Raise, daemonVars, historyVars
  <1>2. f \in Flow /\ ~pending[f] /\ credit[f] = 0
    BY <1>1, FlowOfAssumption DEF HandInv
  <1>3. ~(ppc = "grant" /\ scanIdx = f)
    BY <1>1 DEF HandInv, Waiters, ThreadsOf, SingleThreaded
  <1>4. f \notin Asking \cup Allowed
    BY <1>2, <1>3 DEF Asking, Allowed
  <1>5. Asking' = Asking \cup {f}
    BY <1>1, <1>2 DEF Asking, TypeOK
  <1>6. Allowed' = Allowed
    BY <1>1 DEF Allowed
  <1>7. Abstract!Ask(f)
    BY <1>4, <1>5, <1>6 DEF Abstract!Ask, Allowed
  <1> QED
    BY <1>2, <1>7 DEF Abstract!Next

LEMMA ServiceGrant ==
  ASSUME TypeOK, HandInv, Grant
  PROVE  [Abstract!Next]_(Abstract!vars)
  <1> PICK f \in Flow : f = scanIdx
    BY DEF TypeOK
  <1>1. /\ ppc = "grant" /\ credit[f] = 0
        /\ ppc' = "refill"
        /\ pending' = [pending EXCEPT ![f] = FALSE]
        /\ credit' = [credit EXCEPT ![f] = @ + 1]
    BY DEF Grant, HandInv, TypeOK
  <1>2. f \in Asking
    BY <1>1 DEF Asking
  <1>3. Asking' = Asking \ {f}
    BY <1>1 DEF Asking, TypeOK
  <1>4. \A g \in Flow : credit'[g] = IF g = f THEN 1 ELSE credit[g]
    BY <1>1 DEF TypeOK
  <1>5. Allowed' = Allowed \cup {f}
    BY <1>1, <1>4 DEF Allowed
  <1>6. Abstract!Allow(f)
    BY <1>2, <1>3, <1>5 DEF Abstract!Allow, Allowed
  <1> QED
    BY <1>6 DEF Abstract!Next

LEMMA ServiceRelease ==
  ASSUME TypeOK, HandInv, NEW t \in Threads, Released(t),
         UNCHANGED <<pending, daemonVars>>
  PROVE  [Abstract!Next]_(Abstract!vars)
  <1> DEFINE f == FlowOf[t]
  <1>1. /\ f \in Flow /\ ~pending[f] /\ pc[t] = "spin"
        /\ UNCHANGED <<pending, ppc, scanIdx>>
    BY FlowOfAssumption DEF Released, daemonVars
  <1>2. credit[f] = 1
    BY <1>1 DEF HandInv
  <1>3. \A g \in Flow : credit'[g] = IF g = f THEN 0 ELSE credit[g]
    BY <1>1, <1>2 DEF Released, TypeOK
  <1>4. f \in Allowed /\ Allowed' = Allowed \ {f}
    BY <1>1, <1>2, <1>3 DEF Allowed
  <1>5. Asking' = Asking
    BY <1>1 DEF Asking
  <1>6. Abstract!Use(f)
    BY <1>4, <1>5 DEF Abstract!Use, Allowed
  <1> QED
    BY <1>1, <1>6 DEF Abstract!Next

(* Clearing the flag takes the request back, unless the scan has already    *)
(* fetched the token for it or nothing was asked.                          *)
LEMMA ServiceWithdraw ==
  ASSUME TypeOK, NEW t \in Threads, ClearPending(t)
  PROVE  [Abstract!Next]_(Abstract!vars)
  <1> DEFINE f == FlowOf[t]
  <1>1. /\ f \in Flow
        /\ pending' = [pending EXCEPT ![f] = FALSE]
        /\ UNCHANGED <<ppc, scanIdx, credit>>
    BY FlowOfAssumption DEF ClearPending, daemonVars
  <1>2. Allowed' = Allowed
    BY <1>1 DEF Allowed
  <1>3. CASE pending[f] /\ ~(ppc = "grant" /\ scanIdx = f)
    <2>1. f \in Asking /\ Asking' = Asking \ {f}
      BY <1>1, <1>3 DEF Asking, TypeOK
    <2>2. Abstract!Withdraw(f)
      BY <2>1, <1>2 DEF Abstract!Withdraw, Allowed
    <2> QED
      BY <1>1, <2>2 DEF Abstract!Next
  <1>4. CASE ~pending[f] \/ (ppc = "grant" /\ scanIdx = f)
    <2>1. Asking' = Asking
      BY <1>1, <1>4 DEF Asking, TypeOK
    <2> QED
      BY <1>2, <2>1, ServiceStutters
  <1> QED
    BY <1>3, <1>4

LEMMA ServiceDaemon ==
  ASSUME TypeOK, HandInv, Daemon
  PROVE  [Abstract!Next]_(Abstract!vars)
  <1>1. CASE Grant
    BY <1>1, ServiceGrant
  <1>2. CASE LoadCap \/ ScanRead \/ ScanPending \/ Refill
    <2>1. UNCHANGED <<pending, credit>>
      BY <1>2 DEF LoadCap, ScanRead, ScanPending, Refill, historyVars
    <2>2. /\ ppc # "grant"
          /\ ppc' = "grant" => scanIdx' = scanIdx /\ pending[scanIdx]
      BY <1>2 DEF LoadCap, ScanRead, ScanPending, Refill
    <2>3. Asking' = Asking
      BY <2>1, <2>2 DEF Asking
    <2>4. Allowed' = Allowed
      BY <2>1 DEF Allowed
    <2> QED
      BY <2>3, <2>4, ServiceStutters
  <1> QED
    BY <1>1, <1>2 DEF Daemon

LEMMA ServicePoster ==
  ASSUME SingleThreaded, TypeOK, HandInv, NEW t \in Threads, Poster(t)
  PROVE  [Abstract!Next]_(Abstract!vars)
  <1>1. CASE RequestWR(t) \/ RequestBatch(t)
    BY <1>1, ServiceRaise
  <1>2. CASE CreditBatch(t) \/ \E ok \in BOOLEAN : PostWR(t, ok)
    BY <1>2, ServiceRelease DEF CreditBatch, PostWR
  <1>3. CASE RingBatch(t) \/ \E ok \in BOOLEAN : BuildBatch(t, ok)
    <2>1. UNCHANGED <<pending, credit, ppc, scanIdx>>
      BY <1>3 DEF RingBatch, BuildBatch, daemonVars, historyVars
    <2>2. Asking' = Asking /\ Allowed' = Allowed
      BY <2>1 DEF Asking, Allowed
    <2> QED
      BY <2>2, ServiceStutters
  <1> QED
    BY <1>1, <1>2, <1>3 DEF Poster

LEMMA ServiceStep ==
  ASSUME SingleThreaded, TypeOK, HandInv, [Next]_vars
  PROVE  [Abstract!Next]_(Abstract!vars)
  <1>1. ASSUME UNCHANGED <<pending, credit, ppc, scanIdx>>
        PROVE  [Abstract!Next]_(Abstract!vars)
    <2>1. Asking' = Asking /\ Allowed' = Allowed
      BY <1>1 DEF Asking, Allowed
    <2> QED
      BY <2>1, ServiceStutters
  <1>2. CASE Monitor \/ UNCHANGED vars
    <2>1. UNCHANGED <<pending, credit, ppc, scanIdx>>
      BY <1>2 DEF Monitor, SetCap, SetReceiverSmall, vars, daemonVars, historyVars
    <2> QED
      BY <1>1, <2>1
  <1>3. ASSUME NEW t \in Threads, NEW call \in Calls, PostSend(t, call)
        PROVE  [Abstract!Next]_(Abstract!vars)
    BY <1>1, <1>3 DEF PostSend, daemonVars, historyVars
  <1>4. ASSUME NEW t \in Threads, BeginExit(t) \/ EndExit(t) \/ Kill(t)
        PROVE  [Abstract!Next]_(Abstract!vars)
    BY <1>1, <1>4 DEF BeginExit, EndExit, Kill, Die, daemonVars, historyVars
  <1> QED
    BY <1>2, <1>3, <1>4, ServiceDaemon, ServicePoster, ServiceWithdraw DEF Next

(* Flags, scan and tokens implement the abstract service: every step of     *)
(* daemon, threads and exits is a request, a permission, its use, a         *)
(* withdrawal, or invisible.                                               *)
THEOREM PacerImplementsService ==
  ASSUME SingleThreaded
  PROVE  SafeSpec => ServiceSafe
  <1>1. Init => Abstract!Init
    BY DEF Init, Abstract!Init, Asking
  <1>2. TypeOK /\ HandInv /\ [Next]_vars => [Abstract!Next]_(Abstract!vars)
    BY ServiceStep
  <1> QED
    BY <1>1, <1>2, TypeCorrect, HandCorrect, PTL
       DEF SafeSpec, ServiceSafe, Abstract!SafeSpec

-----------------------------------------------------------------------------
(* The debit of throughput flows.                                          *)

(* No list that is still to be posted is longer than n.                     *)
Fits(w, n) == \A k \in DOMAIN w : Len(w[k]) <= n

Longest(call) == \A other \in Calls : Len(other) <= Len(call)

LEMMA FitsPosts ==
  ASSUME NEW call \in Calls, NEW c \in ChunkSizes
  PROVE  Fits(Posts(call, c), Len(call))
  <1> DEFINE n == NumChunks(Head(call), c)
             last == <<LastChunk(Head(call), c)>> \o Tail(call)
  <1>1. call \in Seq(Nat \ {0}) /\ call # <<>>
    BY InputAssumption
  <1>2. /\ Head(call) \in Nat \ {0} /\ Tail(call) \in Seq(Nat \ {0})
        /\ Len(Tail(call)) = Len(call) - 1 /\ Len(call) \in Nat \ {0}
    BY <1>1, HeadTailProperties, LenProperties, EmptySeq
  <1>3. LastChunk(Head(call), c) \in Nat
    BY <1>2, ChunkBounds, SizeAssumption DEF ChunkSizes
  <1>4. Tail(call) \in Seq(Nat)
    BY <1>2, SeqMonotonic
  <1>5. Len(last) = Len(call)
    <2>1. <<LastChunk(Head(call), c)>> \in Seq(Nat)
      BY <1>3
    <2>2. Len(last) = 1 + Len(Tail(call))
      BY <1>4, <2>1, ConcatProperties
    <2> QED
      BY <1>2, <2>2
  <1>6. Len(<<c>>) <= Len(call)
    BY <1>2
  <1> HIDE DEF last, n
  <1>7. Posts(call, c) = [k \in 1 .. n |-> IF k < n THEN <<c>> ELSE last]
    BY DEF Posts, n, last
  <1> QED
    BY <1>2, <1>5, <1>6, <1>7 DEF Fits

LEMMA FitsTail ==
  ASSUME NEW n \in Nat, NEW w \in Seq(Batch), w # <<>>, Fits(w, n)
  PROVE  Fits(Tail(w), n) /\ Len(Head(w)) <= n
  <1>1. /\ Tail(w) \in Seq(Batch) /\ Len(Tail(w)) = Len(w) - 1
        /\ \A i \in 1 .. Len(Tail(w)) : Tail(w)[i] = w[i + 1]
        /\ Len(w) \in Nat \ {0}
    BY HeadTailProperties, LenProperties, EmptySeq
  <1>2. DOMAIN w = 1 .. Len(w) /\ DOMAIN Tail(w) = 1 .. Len(w) - 1
    BY <1>1, LenProperties
  <1>3. Head(w) = w[1]
    OBVIOUS
  <1> QED
    BY <1>1, <1>2, <1>3 DEF Fits

LEMMA FitsAfterWR ==
  ASSUME NEW n \in Nat, NEW w \in Seq(Batch), w # <<>>, Fits(w, n)
  PROVE  Fits(AfterWR(w), n)
  <1>1. CASE Len(Head(w)) = 1
    BY <1>1, FitsTail DEF AfterWR
  <1>2. CASE Len(Head(w)) # 1
    <2> DEFINE rest == Tail(Head(w))
    <2>1. Head(w) \in Batch /\ Tail(w) \in Seq(Batch)
      BY HeadTailProperties
    <2>2. /\ rest \in Seq(Nat) /\ Len(rest) = Len(Head(w)) - 1
          /\ Len(Head(w)) \in Nat
      BY <2>1, HeadTailProperties, LenProperties DEF Batch
    <2>3. Len(rest) <= n
      BY <2>2, FitsTail
    <2> HIDE DEF rest
    <2>4. AfterWR(w) = <<rest>> \o Tail(w)
      BY <1>2 DEF AfterWR, rest
    <2>5. <<rest>> \in Seq(Seq(Nat)) /\ Len(<<rest>>) = 1 /\ <<rest>>[1] = rest
      BY <2>2
    <2>6. Tail(w) \in Seq(Seq(Nat))
      BY <2>1, SeqMonotonic DEF Batch
    <2>7. /\ AfterWR(w) \in Seq(Seq(Nat))
          /\ Len(AfterWR(w)) = 1 + Len(Tail(w))
          /\ \A i \in 1 .. 1 + Len(Tail(w)) :
               AfterWR(w)[i] = IF i <= 1 THEN <<rest>>[i] ELSE Tail(w)[i - 1]
      BY <2>4, <2>5, <2>6, ConcatProperties
    <2>8. /\ DOMAIN AfterWR(w) = 1 .. 1 + Len(Tail(w))
          /\ DOMAIN Tail(w) = 1 .. Len(Tail(w)) /\ Len(Tail(w)) \in Nat
      BY <2>6, <2>7, LenProperties
    <2>9. Fits(Tail(w), n)
      BY FitsTail
    <2>10. ASSUME NEW i \in DOMAIN AfterWR(w)
           PROVE  Len(AfterWR(w)[i]) <= n
      <3>1. i \in 1 .. 1 + Len(Tail(w))
        BY <2>8
      <3>2. CASE i = 1
        <4>1. AfterWR(w)[1] = rest
          BY <2>5, <2>7, <2>8
        <4> QED
          BY <2>3, <3>2, <4>1, Zenon
      <3>3. CASE i # 1
        <4>1. i - 1 \in DOMAIN Tail(w) /\ AfterWR(w)[i] = Tail(w)[i - 1]
          BY <2>7, <2>8, <3>1, <3>3
        <4>2. Len(Tail(w)[i - 1]) <= n
          BY <2>9, <4>1 DEF Fits
        <4> QED
          BY <4>1, <4>2, Zenon
      <3> QED
        BY <3>2, <3>3
    <2> QED
      BY <2>10 DEF Fits
  <1> QED
    BY <1>1, <1>2

(* A thread asks for a batch only when nothing is left, and a lone thread   *)
(* finds it so when it is released.                                        *)
DebitInv ==
  /\ \A t \in Threads : pc[t] = "spin" /\ IsTput(t) => debit[FlowOf[t]] <= 0
  /\ \A call \in Calls : Longest(call) =>
       /\ \A t \in Threads : Fits(work[t], Len(call))
       /\ \A f \in Flow : debit[f] <= BatchOps /\ debit[f] > -Len(call)

LEMMA CallLength ==
  ASSUME NEW call \in Calls
  PROVE  Len(call) \in Nat \ {0}
  BY InputAssumption, LenProperties, EmptySeq

LEMMA DebitInit == Init => DebitInv
  <1> SUFFICES ASSUME Init PROVE DebitInv
    OBVIOUS
  <1>1. \A f \in Flow : debit[f] = 0
    BY DEF Init
  <1>2. \A t \in Threads : pc[t] = "idle" /\ work[t] = <<>>
    BY DEF Init
  <1>3. \A n : Fits(<<>>, n)
    BY DEF Fits
  <1> QED
    BY <1>1, <1>2, <1>3, CallLength, SizeAssumption DEF DebitInv

(* A thread moves on to what is left of its call.                           *)
LEMMA DebitContinue ==
  ASSUME TypeInv, DebitInv, NEW t \in Threads, NEW w, Continue(t, w),
         \A call \in Calls : Longest(call) => Fits(w, Len(call))
  PROVE  /\ \A u \in Threads : pc'[u] = "spin" => pc[u] = "spin" /\ u # t
         /\ \A call \in Calls : Longest(call) =>
              \A u \in Threads : Fits(work'[u], Len(call))
  <1>1. /\ work' = [work EXCEPT ![t] = w]
        /\ pc' = [pc EXCEPT ![t] = IF w = <<>> THEN "idle" ELSE "post"]
    BY DEF Continue
  <1>2. work \in [Threads -> Seq(Batch)] /\ pc \in [Threads -> ThreadPc]
    BY DEF TypeInv, TypeOK, Batch
  <1>3. \A u \in Threads : pc'[u] = "spin" => pc[u] = "spin" /\ u # t
    BY <1>1, <1>2
  <1>4. \A u \in Threads : work'[u] = IF u = t THEN w ELSE work[u]
    BY <1>1, <1>2
  <1> QED
    BY <1>3, <1>4 DEF DebitInv

LEMMA DebitPoster ==
  ASSUME SingleThreaded, TypeInv, DebitInv, NEW t \in Threads, Poster(t)
  PROVE  DebitInv'
  <1>1. /\ FlowOf[t] \in Flow /\ \A u \in Threads : FlowOf[u] \in Flow
        /\ debit \in [Flow -> Int] /\ pc \in [Threads -> ThreadPc]
        /\ work[t] \in Seq(Batch)
        /\ pc[t] \in {"post", "debit", "spin"} => work[t] # <<>>
    BY FlowOfAssumption DEF TypeInv, TypeOK, Busy, Batch
  <1>2. \A call \in Calls : Longest(call) => Fits(work[t], Len(call))
    BY DEF DebitInv
  <1>3. CASE RequestWR(t)
    <2>1. \A u \in Threads : pc'[u] = "spin" /\ IsTput(u) => pc[u] = "spin"
      BY <1>1, <1>3 DEF RequestWR, Raise
    <2>2. debit' = debit /\ work' = work
      BY <1>3 DEF RequestWR
    <2> QED
      BY <2>1, <2>2 DEF DebitInv, IsTput
  <1>4. CASE RequestBatch(t)
    <2>1. \A u \in Threads : pc'[u] = "spin" => pc[u] = "spin" \/ u = t
      BY <1>1, <1>4 DEF RequestBatch, Raise
    <2>2. debit' = debit /\ work' = work /\ debit[FlowOf[t]] <= 0
      BY <1>4 DEF RequestBatch
    <2> QED
      BY <2>1, <2>2 DEF DebitInv, IsTput
  <1>5. ASSUME NEW ok \in BOOLEAN, PostWR(t, ok)
        PROVE  DebitInv'
    <2>1. PICK w : w = (IF ok THEN AfterWR(work[t]) ELSE <<>>)
      OBVIOUS
    <2>2. \A call \in Calls : Longest(call) => Fits(w, Len(call))
      <3>1. pc[t] = "spin"
        BY <1>5 DEF PostWR, Released
      <3>2. \A n : Fits(<<>>, n)
        BY DEF Fits
      <3> QED
        BY <1>1, <1>2, <2>1, <3>1, <3>2, FitsAfterWR, CallLength
    <2>3. Continue(t, w) /\ debit' = debit
      BY <1>5, <2>1 DEF PostWR
    <2>4. /\ \A u \in Threads : pc'[u] = "spin" => pc[u] = "spin"
          /\ \A call \in Calls : Longest(call) =>
               \A u \in Threads : Fits(work'[u], Len(call))
      BY <2>2, <2>3, DebitContinue
    <2> QED
      BY <2>3, <2>4 DEF DebitInv, IsTput
  <1>6. ASSUME NEW ok \in BOOLEAN, BuildBatch(t, ok)
        PROVE  DebitInv'
    <2>1. CASE ok
      <3>1. pc' = [pc EXCEPT ![t] = "debit"] /\ work' = work /\ debit' = debit
        BY <1>6, <2>1 DEF BuildBatch
      <3> QED
        BY <1>1, <3>1 DEF DebitInv, IsTput
    <2>2. CASE ~ok
      <3>1. Continue(t, <<>>) /\ debit' = debit
        BY <1>6, <2>2 DEF BuildBatch
      <3>2. \A n : Fits(<<>>, n)
        BY DEF Fits
      <3>3. /\ \A u \in Threads : pc'[u] = "spin" => pc[u] = "spin"
            /\ \A call \in Calls : Longest(call) =>
                 \A u \in Threads : Fits(work'[u], Len(call))
        BY <3>1, <3>2, DebitContinue
      <3> QED
        BY <3>1, <3>3 DEF DebitInv, IsTput
    <2> QED
      BY <2>1, <2>2
  <1>7. CASE CreditBatch(t)
    <2>1. /\ pc[t] = "spin" /\ IsTput(t) /\ work' = work
          /\ debit' = [debit EXCEPT ![FlowOf[t]] = @ + BatchOps]
          /\ pc' = [pc EXCEPT ![t] = "debit"]
      BY <1>7 DEF CreditBatch, Released
    <2>2. debit[FlowOf[t]] <= 0 /\ debit[FlowOf[t]] \in Int /\ BatchOps \in Nat
      BY <1>1, <2>1, SizeAssumption DEF DebitInv
    <2>3. \A u \in Threads : pc'[u] = "spin" => pc[u] = "spin" /\ FlowOf[u] # FlowOf[t]
      BY <1>1, <2>1 DEF SingleThreaded
    <2>4. \A u \in Threads : pc'[u] = "spin" /\ IsTput(u) => debit'[FlowOf[u]] <= 0
      BY <1>1, <2>1, <2>3 DEF DebitInv, IsTput
    <2>5. ASSUME NEW call \in Calls, Longest(call), NEW f \in Flow
          PROVE  debit'[f] <= BatchOps /\ debit'[f] > -Len(call)
      <3>1. debit[f] <= BatchOps /\ debit[f] > -Len(call) /\ debit[f] \in Int
        BY <1>1, <2>5 DEF DebitInv
      <3>2. debit'[f] = IF f = FlowOf[t] THEN debit[f] + BatchOps ELSE debit[f]
        BY <1>1, <2>1
      <3> QED
        BY <2>2, <3>1, <3>2, CallLength
    <2> QED
      BY <2>1, <2>4, <2>5 DEF DebitInv, IsTput
  <1>8. CASE RingBatch(t)
    <2>1. /\ debit[FlowOf[t]] > 0 /\ work[t] # <<>>
          /\ debit' = [debit EXCEPT ![FlowOf[t]] = @ - Len(Head(work[t]))]
          /\ Continue(t, Tail(work[t]))
      BY <1>1, <1>8 DEF RingBatch
    <2>2. \A call \in Calls : Longest(call) =>
            Fits(Tail(work[t]), Len(call)) /\ Len(Head(work[t])) <= Len(call)
      BY <1>1, <1>2, <2>1, FitsTail, CallLength
    <2>3. Len(Head(work[t])) \in Nat
      BY <1>1, <2>1, HeadLen
    <2>4. /\ \A u \in Threads : pc'[u] = "spin" => pc[u] = "spin" /\ u # t
          /\ \A call \in Calls : Longest(call) =>
               \A u \in Threads : Fits(work'[u], Len(call))
      BY <2>1, <2>2, DebitContinue
    <2>5. \A u \in Threads : pc'[u] = "spin" /\ IsTput(u) => debit'[FlowOf[u]] <= 0
      <3>1. \A u \in Threads : pc'[u] = "spin" => FlowOf[u] # FlowOf[t]
        BY <2>4 DEF SingleThreaded
      <3> QED
        BY <1>1, <2>1, <2>4, <3>1 DEF DebitInv, IsTput
    <2>6. ASSUME NEW call \in Calls, Longest(call), NEW f \in Flow
          PROVE  debit'[f] <= BatchOps /\ debit'[f] > -Len(call)
      <3>1. /\ debit[f] <= BatchOps /\ debit[f] > -Len(call) /\ debit[f] \in Int
            /\ BatchOps \in Nat
        BY <1>1, <2>6, SizeAssumption DEF DebitInv
      <3>2. debit'[f] = IF f = FlowOf[t] THEN debit[f] - Len(Head(work[t])) ELSE debit[f]
        BY <1>1, <2>1
      <3>3. Len(Head(work[t])) <= Len(call)
        BY <2>2, <2>6
      <3> QED
        BY <2>1, <2>3, <3>1, <3>2, <3>3, CallLength
    <2> QED
      BY <2>4, <2>5, <2>6 DEF DebitInv, IsTput
  <1> QED
    BY <1>3, <1>4, <1>5, <1>6, <1>7, <1>8 DEF Poster

LEMMA DebitStep ==
  SingleThreaded /\ TypeInv /\ DebitInv /\ [Next]_vars => DebitInv'
  <1> SUFFICES ASSUME SingleThreaded, TypeInv, DebitInv, [Next]_vars
               PROVE  DebitInv'
    OBVIOUS
  <1>1. ASSUME UNCHANGED driverVars
        PROVE  DebitInv'
    BY <1>1 DEF driverVars, DebitInv, IsTput
  <1>2. ASSUME NEW t \in Threads, NEW call \in Calls, PostSend(t, call)
        PROVE  DebitInv'
    <2>1. Continue(t, Posts(call, activeChunk)) /\ debit' = debit
      BY <1>2 DEF PostSend
    <2>2. Fits(Posts(call, activeChunk), Len(call))
      BY FitsPosts DEF TypeInv, TypeOK
    <2>3. ASSUME NEW long \in Calls, Longest(long)
          PROVE  Fits(Posts(call, activeChunk), Len(long))
      <3>1. Len(call) <= Len(long)
        BY <2>3 DEF Longest
      <3>2. Len(call) \in Nat /\ Len(long) \in Nat
        BY CallLength
      <3>3. \A k \in DOMAIN Posts(call, activeChunk) :
              Len(Posts(call, activeChunk)[k]) \in Nat
        <4>1. Posts(call, activeChunk) \in Seq(Batch)
          BY PostsType DEF TypeInv, TypeOK
        <4>2. \A k \in DOMAIN Posts(call, activeChunk) : Posts(call, activeChunk)[k] \in Batch
          BY <4>1, LenProperties
        <4> QED
          BY <4>2, LenProperties DEF Batch
      <3> QED
        BY <2>2, <3>1, <3>2, <3>3 DEF Fits
    <2>4. /\ \A u \in Threads : pc'[u] = "spin" => pc[u] = "spin"
          /\ \A long \in Calls : Longest(long) =>
               \A u \in Threads : Fits(work'[u], Len(long))
      BY <2>1, <2>3, DebitContinue
    <2> QED
      BY <2>1, <2>4 DEF DebitInv, IsTput
  <1>3. ASSUME NEW t \in Threads, BeginExit(t) \/ ClearPending(t)
        PROVE  DebitInv'
    <2>1. \A u \in Threads : pc'[u] = "spin" => pc[u] = "spin"
      BY <1>3 DEF BeginExit, ClearPending, TypeInv, TypeOK
    <2> QED
      BY <1>3, <2>1 DEF BeginExit, ClearPending, DebitInv, IsTput
  <1>4. ASSUME NEW f \in Flow, Die(f)
        PROVE  DebitInv'
    <2>1. \A u \in Threads : pc'[u] = "spin" => pc[u] = "spin" /\ FlowOf[u] # f
      BY <1>4 DEF Die, TypeInv, TypeOK
    <2>2. \A u \in Threads : work'[u] = <<>> \/ work'[u] = work[u]
      BY <1>4 DEF Die, TypeInv, TypeOK
    <2>3. \A g \in Flow : debit'[g] = IF g = f THEN 0 ELSE debit[g]
      BY <1>4 DEF Die, TypeInv, TypeOK
    <2>4. \A n : Fits(<<>>, n)
      BY DEF Fits
    <2>5. ASSUME NEW call \in Calls, Longest(call)
          PROVE  /\ \A u \in Threads : Fits(work'[u], Len(call))
                 /\ \A g \in Flow : debit'[g] <= BatchOps /\ debit'[g] > -Len(call)
      BY <2>2, <2>3, <2>4, <2>5, CallLength, SizeAssumption DEF DebitInv
    <2>6. \A u \in Threads : pc'[u] = "spin" /\ IsTput(u) => debit'[FlowOf[u]] <= 0
      BY <2>1, <2>3, FlowOfAssumption DEF DebitInv, IsTput
    <2> QED
      BY <2>5, <2>6 DEF DebitInv, IsTput
  <1>5. Daemon \/ Monitor \/ UNCHANGED vars => UNCHANGED driverVars
    BY DEF Daemon, LoadCap, ScanRead, ScanPending, Grant, Refill, Monitor, SetCap,
           SetReceiverSmall, vars
  <1> QED
    BY <1>1, <1>2, <1>3, <1>4, <1>5, DebitPoster, FlowOfAssumption
    DEF Next, EndExit, Kill

(* A throughput process that posts from one thread never has more           *)
(* operations left over than a token pays for, and never owes as many as    *)
(* the longest list it posts, for any lists, batch and number of flows     *)
(* (the isSmall branch of __mlx5_post_send).                               *)
THEOREM DebitStaysBounded ==
  ASSUME SingleThreaded
  PROVE  SafeSpec => []DebitBounds
  <1>1. TypeInv /\ DebitInv /\ [Next]_vars => DebitInv'
    BY DebitStep
  <1>2. DebitInv => DebitBounds
    BY DEF DebitInv, DebitBounds, Longest
  <1> QED
    BY <1>1, <1>2, DebitInit, TypeInvariant, PTL DEF SafeSpec

-----------------------------------------------------------------------------
(* The virtual link.                                                       *)

(* The quotient that Floor rounds: between one and the line, or cut to it.  *)
LEMMA QuotientBounds ==
  ASSUME NEW n \in Nat, NEW d \in Nat \ {0}
  PROVE  /\ n \div d \in Nat
         /\ n >= d => n \div d >= 1
         /\ d * (n \div d) <= n
  OBVIOUS

(* The least cap of a host with a flow of its own: never more than the      *)
(* line, and at least one while the receiver knows fewer than two flows    *)
(* per unit of the line.                                                   *)
LEMMA FloorBounds ==
  ASSUME NEW big \in Nat, NEW all \in Nat
  PROVE  /\ Floor(big, all) \in 0 .. LineRate
         /\ big # 0 /\ all < 2 * LineRate => Floor(big, all) \in 1 .. LineRate
  <1> DEFINE n == 2 * big * LineRate + all + 1
             d == 2 * (all + 1)
  <1>1. LineRate \in Nat \ {0}
    BY LineAssumption
  <1>2. big * LineRate \in Nat
    BY <1>1
  <1>3. n \in Nat /\ d \in Nat \ {0}
    BY <1>1, <1>2
  <1>4. n \div d \in Nat /\ (n >= d => n \div d >= 1)
    BY <1>3, QuotientBounds
  <1>5. ASSUME big # 0, all < 2 * LineRate
        PROVE  n >= d
    <2>1. big * LineRate >= LineRate
      BY <1>1, <1>5
    <2> QED
      BY <1>1, <1>2, <1>5, <2>1
  <1>6. Floor(big, all) = IF n \div d > LineRate THEN LineRate ELSE n \div d
    BY DEF Floor
  <1> HIDE DEF n, d
  <1> QED
    BY <1>1, <1>4, <1>5, <1>6

(* A halved cap stays within the line, and is kept at the floor.            *)
LEMMA DecreaseBounds ==
  ASSUME NEW c \in Nat, NEW floor \in Nat
  PROVE  /\ Decrease(c, floor) \in Nat
         /\ floor \in 1 .. LineRate /\ c \in 1 .. LineRate
              => Decrease(c, floor) \in 1 .. LineRate
  BY LineAssumption DEF Decrease

LEMMA IncreaseBounds ==
  ASSUME NEW c \in Nat
  PROVE  /\ Increase(c) \in Nat
         /\ c \in 1 .. LineRate => Increase(c) \in 1 .. LineRate
  BY LineAssumption DEF Increase

-----------------------------------------------------------------------------
(* Type correctness: every counter wraps.                                   *)

LEMMA CountRange == ASSUME NEW n \in Int PROVE n % CountMod \in Counter
  BY CountAssumption, RemDef DEF Counter

(* How far an interrupted registration may have got.                        *)
LEMMA CutType ==
  /\ \A i, j, k \in 0 .. 1 :
       Done(i, j, k).counted = i /\ Done(i, j, k).told = j /\ Done(i, j, k).added = k
  /\ \A cut \in CutShort : /\ cut[1] \in {"bw", "tput"}
                           /\ cut[2].counted \in 0 .. 1
                           /\ cut[2].told \in 0 .. 1
                           /\ cut[2].added \in 0 .. 1
  <1>1. \A i, j, k : Done(i, j, k).counted = i /\ Done(i, j, k).told = j
                       /\ Done(i, j, k).added = k
    BY DEF Done
  <1>2. ASSUME NEW cut \in CutShort
        PROVE  /\ cut[1] \in {"bw", "tput"}
               /\ \E i, j, k \in 0 .. 1 : cut[2] = Done(i, j, k)
    BY DEF CutShort
  <1> QED
    BY <1>1, <1>2

LEMMA CapTypeInit == CapInit => CapTypeOK
  <1> SUFFICES ASSUME CapInit PROVE CapTypeOK
    OBVIOUS
  <1>1. 0 \in Counter /\ 0 \in -1 .. 1 /\ 0 \in 0 .. MaxStarts
    BY CountAssumption DEF Counter
  <1>2. /\ localBig \in [Hosts -> Counter] /\ viewBig \in [Hosts -> Counter]
        /\ underway \in [Hosts -> -1 .. 1] /\ reported \in Counter
        /\ started \in 0 .. MaxStarts
    BY <1>1 DEF CapInit
  <1>3. cap \in [Hosts -> Nat] /\ own \in [Apps -> Nat]
    BY LineAssumption DEF CapInit
  <1> QED
    BY <1>2, <1>3 DEF CapInit, CapTypeOK

(* What every exit does to the counts.                                      *)
LEMMA LeaveType ==
  ASSUME CapTypeOK, NEW p \in Apps, NEW c, NEW done, Leave(p, c, done),
         done.counted \in 0 .. 1, done.told \in 0 .. 1, done.added \in 0 .. 1
  PROVE  /\ localBig' \in [Hosts -> Counter]
         /\ underway' \in [Hosts -> -1 .. 1]
         /\ class' \in [Apps -> {"none", "bw", "tput", "read"}]
         /\ own' \in [Apps -> Nat]
         /\ UNCHANGED <<localBw, notTheirs>>
  <1> DEFINE h == HostOf[p]
             mine == IF c = "bw" THEN own[p] + done.counted ELSE 0
  <1>1. h \in Hosts
    BY HostsAssumption
  <1>2. localBig[h] + done.added - mine \in Int
    BY <1>1, CountAssumption DEF CapTypeOK, Counter
  <1>3. (localBig[h] + done.added - mine) % CountMod \in Counter
    <2> HIDE DEF h, mine
    <2> QED BY <1>2, CountRange
  <1>4. localBig' = [localBig EXCEPT ![h] = (@ + done.added - mine) % CountMod]
    BY DEF Leave
  <1>5. localBig' \in [Hosts -> Counter]
    <2> HIDE DEF h, mine
    <2> QED BY <1>3, <1>4 DEF CapTypeOK
  <1> QED
    BY <1>5 DEF Leave, NoMore, CapTypeOK

LEMMA CapTypeStep == CapTypeOK /\ [CapNext]_capVars => CapTypeOK'
  <1> SUFFICES ASSUME CapTypeOK, [CapNext]_capVars
               PROVE  CapTypeOK'
    OBVIOUS
  <1>1. ASSUME NEW h \in Hosts, Adapt(h)
        PROVE  CapTypeOK'
    <2>1. Floor(localBig[h], viewBig[h]) \in Nat
      BY FloorBounds, CountAssumption, LineAssumption DEF CapTypeOK, Counter
    <2>2. cap' \in [Hosts -> Nat]
      BY <1>1, <2>1, DecreaseBounds, IncreaseBounds DEF CapTypeOK, Adapt
    <2>3. crowded' \in [Hosts -> BOOLEAN]
      BY <1>1 DEF CapTypeOK, Adapt, FewFlows
    <2> QED
      BY <1>1, <2>2, <2>3 DEF CapTypeOK, Adapt, environment, registry
  <1>2. ASSUME NEW h \in Hosts, Release(h)
        PROVE  CapTypeOK'
    BY <1>2, LineAssumption, GarbageAssumption
    DEF CapTypeOK, Release, environment, registry
  <1>3. ASSUME NEW p \in Apps, MarkRead(p)
        PROVE  CapTypeOK'
    BY <1>3, CountAssumption DEF CapTypeOK, MarkRead, Begin, notTheirs
  <1>4. ASSUME NEW p \in Apps, NEW c \in {"bw", "tput"}, Arrive(p, c)
        PROVE  CapTypeOK'
    <2>1. localBig' \in [Hosts -> Counter]
      <3>1. \A h \in Hosts : (localBig[h] + 1) % CountMod \in Counter
        BY CountRange DEF CapTypeOK, Counter
      <3> QED
        BY <1>4, <3>1 DEF CapTypeOK, Arrive
    <2>2. class' \in [Apps -> {"none", "bw", "tput", "read"}] /\ own' \in [Apps -> Nat]
      BY <1>4 DEF CapTypeOK, Arrive
    <2>3. underway' \in [Hosts -> -1 .. 1]
      <3>1. underway \in [Hosts -> -1 .. 1] /\ 1 \in -1 .. 1
        BY DEF CapTypeOK
      <3>2. underway' = [underway EXCEPT ![HostOf[p]] = 1]
        BY <1>4 DEF Arrive
      <3> QED
        BY <3>1, <3>2
    <2>4. localBw' \in [Hosts -> BOOLEAN]
      BY <1>4 DEF CapTypeOK, Arrive
    <2>5. started' \in 0 .. MaxStarts
      BY <1>4, CountAssumption DEF CapTypeOK, Arrive, Begin
    <2> QED
      BY <1>4, <2>1, <2>2, <2>3, <2>4, <2>5 DEF CapTypeOK, Arrive, notTheirs
  <1>5. ASSUME NEW p \in Apps, Depart(p)
        PROVE  CapTypeOK'
    <2>1. Leave(p, class[p], Done(0, 0, 0)) /\ started' = started /\ irregular' \in BOOLEAN
      BY <1>5 DEF Depart
    <2> QED
      BY <2>1, CutType, LeaveType DEF CapTypeOK, notTheirs
  <1>6. ASSUME NEW p \in Apps, DepartEarly(p)
        PROVE  CapTypeOK'
    <2>1. PICK cut \in CutShort :
            Leave(p, IF class[p] = "read" THEN "read" ELSE cut[1], cut[2])
      BY <1>6 DEF DepartEarly
    <2>2. started' \in 0 .. MaxStarts /\ irregular' \in BOOLEAN
      BY <1>6, CountAssumption DEF CapTypeOK, DepartEarly, Begin
    <2>3. /\ localBig' \in [Hosts -> Counter]
          /\ underway' \in [Hosts -> -1 .. 1]
          /\ class' \in [Apps -> {"none", "bw", "tput", "read"}]
          /\ own' \in [Apps -> Nat]
          /\ UNCHANGED <<localBw, notTheirs>>
      BY <2>1, CutType, LeaveType
    <2> QED
      BY <2>2, <2>3 DEF CapTypeOK, notTheirs
  <1>7. ASSUME NEW p \in Apps, KillApp(p)
        PROVE  CapTypeOK'
    <2>1. underway' \in [Hosts -> -1 .. 1]
      <3>1. underway \in [Hosts -> -1 .. 1] /\ 1 \in -1 .. 1
        BY DEF CapTypeOK
      <3>2. underway' = underway \/ underway' = [underway EXCEPT ![HostOf[p]] = 1]
        BY <1>7 DEF KillApp
      <3> QED
        BY <3>1, <3>2
    <2>2. started' \in 0 .. MaxStarts /\ irregular' \in BOOLEAN
      <3>1. started' \in 0 .. MaxStarts
        BY <1>7, CountAssumption DEF CapTypeOK, KillApp, Begin
      <3>2. irregular' \in BOOLEAN
        BY <1>7 DEF CapTypeOK, KillApp
      <3> QED
        BY <3>1, <3>2
    <2> QED
      BY <1>7, <2>1, <2>2 DEF CapTypeOK, KillApp, NoMore, notTheirs
  <1>8. ASSUME NEW h \in Hosts, Count(h)
        PROVE  CapTypeOK'
    <2>1. reported' \in Counter
      BY <1>8, CountRange DEF CapTypeOK, Count, Counter
    <2> QED
      BY <1>8, <2>1 DEF CapTypeOK, Count
  <1>9. ASSUME NEW h \in Hosts, Inform(h)
        PROVE  CapTypeOK'
    BY <1>9 DEF CapTypeOK, Inform, registry
  <1>10. ASSUME NEW h \in Hosts, SmallComeOrGo(h)
         PROVE  CapTypeOK'
    BY <1>10 DEF CapTypeOK, SmallComeOrGo, registry
  <1>11. ASSUME NEW h \in Hosts, Measure(h)
         PROVE  CapTypeOK'
    BY <1>11 DEF CapTypeOK, Measure, registry
  <1>12. CASE UNCHANGED capVars
    BY <1>12 DEF CapTypeOK, capVars, environment, registry
  <1> QED
    BY <1>1, <1>2, <1>3, <1>4, <1>5, <1>6, <1>7, <1>8, <1>9, <1>10, <1>11, <1>12
    DEF CapNext, MonitorLatency

(* Every variable keeps its type, for every line rate and width of the      *)
(* counters: no cap becomes negative by halving or by the floor, and no    *)
(* count leaves its range (num_active_big_flows, current_num_big_apps).    *)
THEOREM CapTypeCorrect == CapSpec => []CapTypeOK
  <1>1. CapInit => CapTypeOK
    BY CapTypeInit
  <1>2. CapTypeOK /\ [CapNext]_capVars => CapTypeOK'
    BY CapTypeStep
  <1> QED
    BY <1>1, <1>2, PTL DEF CapSpec, CapSafeSpec

-----------------------------------------------------------------------------
LEMMA OpenInit == CapInit => LinkStaysOpen
  BY LineAssumption DEF CapInit, LinkStaysOpen

LEMMA OpenStep ==
  CapTypeOK /\ LinkStaysOpen /\ [CapNext]_capVars => LinkStaysOpen'
  <1> SUFFICES ASSUME CapTypeOK, LinkStaysOpen, [CapNext]_capVars
               PROVE  LinkStaysOpen'
    OBVIOUS
  <1>1. ASSUME NEW h \in Hosts, Adapt(h)
        PROVE  LinkStaysOpen'
    <2> DEFINE floor == Floor(localBig[h], viewBig[h])
               few == FewFlows(viewBig[h])
    <2>1. localBig[h] \in Nat \ {0} /\ viewBig[h] \in Nat
      BY <1>1, CountAssumption DEF CapTypeOK, Adapt, Counter
    <2>2. floor \in 0 .. LineRate /\ (few => floor \in 1 .. LineRate)
      BY <2>1, FloorBounds DEF FewFlows
    <2>3. ASSUME ~wild[h]
          PROVE  /\ Decrease(cap[h], floor) \in (IF few THEN 1 ELSE 0) .. LineRate
                 /\ Increase(cap[h]) \in 1 .. LineRate
      <3>1. cap[h] \in 0 .. LineRate
        BY <2>3 DEF LinkStaysOpen, CapTypeOK
      <3> HIDE DEF floor, few
      <3> QED
        BY <3>1, <2>2, LineAssumption DEF Decrease, Increase
    <2>4. /\ cap' = [cap EXCEPT ![h] = IF slow[h] THEN Decrease(@, floor) ELSE Increase(@)]
          /\ crowded' = [crowded EXCEPT ![h] = ~few]
          /\ wild' = wild
      BY <1>1 DEF Adapt
    <2> HIDE DEF floor, few
    <2>5. ASSUME ~wild[h]
          PROVE  cap'[h] \in (IF crowded'[h] THEN 0 ELSE 1) .. LineRate
      BY <2>3, <2>4, <2>5 DEF CapTypeOK
    <2>6. ASSUME NEW i \in Hosts, i # h
          PROVE  cap'[i] = cap[i] /\ crowded'[i] = crowded[i]
      BY <2>4, <2>6 DEF CapTypeOK
    <2> QED
      BY <2>4, <2>5, <2>6 DEF LinkStaysOpen
  <1>2. ASSUME NEW h \in Hosts, Release(h)
        PROVE  LinkStaysOpen'
    BY <1>2, LineAssumption DEF CapTypeOK, LinkStaysOpen, Release
  <1>3. ASSUME UNCHANGED <<cap, wild, crowded>>
        PROVE  LinkStaysOpen'
    BY <1>3 DEF LinkStaysOpen
  <1> QED
    BY <1>1, <1>2, <1>3
    DEF CapNext, MonitorLatency, MarkRead, Arrive, Depart, DepartEarly, Leave, KillApp,
        Count, Inform, SmallComeOrGo, Measure, notTheirs, capVars

(* The virtual link is never wider than the line, and closed only by an     *)
(* iteration that was told of 2 * LINE_RATE_MB big flows or more: then the *)
(* floor of a host with a single flow rounds to zero and halving may reach *)
(* it.  Whatever else was counted, at either end, and however long latency *)
(* is bad, it stays open.                                                  *)
THEOREM LinkNeverCloses == CapSpec => []LinkStaysOpen
  <1>1. CapInit => LinkStaysOpen
    BY OpenInit
  <1>2. CapTypeOK /\ LinkStaysOpen /\ [CapNext]_capVars => LinkStaysOpen'
    BY OpenStep
  <1>3. CapSpec => []CapTypeOK
    BY CapTypeCorrect
  <1> QED
    BY <1>1, <1>2, <1>3, PTL DEF CapSpec, CapSafeSpec

-----------------------------------------------------------------------------
(* The two counts.  What a host counts and has not told the receiver adds   *)
(* up, over the hosts, to the receiver's count, but for wrapping, as long  *)
(* as every exit is that of a bandwidth process with one queue pair.       *)

Counted == [h \in Hosts |-> localBig[h] - underway[h]]

CountsInv == ~irregular => reported = SumFunctionOnSet(Counted, Hosts) % CountMod

LEMMA CountedType == CapTypeOK => Counted \in [Hosts -> Int]
  BY CountAssumption DEF CapTypeOK, Counted, Counter

LEMMA CountsInit == CapInit => CountsInv
  <1> SUFFICES ASSUME CapInit PROVE reported = SumFunctionOnSet(Counted, Hosts) % CountMod
    BY DEF CountsInv
  <1>1. Counted \in [Hosts -> Int] /\ \A h \in Hosts : Counted[h] = 0
    BY DEF CapInit, Counted
  <1>2. SumFunctionOnSet(Counted, Hosts) = 0
    BY <1>1, HostsAssumption, SumOfZeros
  <1>3. 0 % CountMod = 0
    BY CountAssumption, RemSmall
  <1> QED
    BY <1>2, <1>3 DEF CapInit

(* A host's own counter moves by what it then tells, and may wrap.          *)
LEMMA CountedWraps ==
  ASSUME CapTypeOK, CapTypeOK', CountsInv, NEW h \in Hosts, NEW d \in Int,
         underway[h] = 0, underway' = [underway EXCEPT ![h] = d],
         localBig' = [localBig EXCEPT ![h] = (@ + d) % CountMod],
         UNCHANGED <<reported, irregular>>
  PROVE  CountsInv'
  <1> DEFINE k == -((localBig[h] + d) \div CountMod)
             s == SumFunctionOnSet(Counted, Hosts)
  <1>1. localBig[h] \in Int /\ localBig[h] + d \in Int
    BY CountAssumption DEF CapTypeOK, Counter
  <1>2. k \in Int /\ (localBig[h] + d) % CountMod = localBig[h] + d + k * CountMod
    <2> DEFINE x == localBig[h] + d
    <2>1. x \in Int
      BY <1>1
    <2> HIDE DEF x
    <2>2. x \div CountMod \in Int /\ x % CountMod = x - CountMod * (x \div CountMod)
      BY <2>1, CountAssumption, RemDef
    <2>3. x - CountMod * (x \div CountMod) = x + (-(x \div CountMod)) * CountMod
      BY <2>1, <2>2, CountAssumption
    <2> QED
      BY <2>2, <2>3 DEF x
  <1> HIDE DEF k
  <1>3. Counted'[h] = Counted[h] + k * CountMod
    <2>1. localBig'[h] = localBig[h] + d + k * CountMod /\ underway'[h] = d
      BY <1>2 DEF CapTypeOK
    <2>2. k * CountMod \in Int
      BY <1>2, CountAssumption
    <2> QED
      BY <1>1, <2>1, <2>2 DEF Counted
  <1>4. \A i \in Hosts : i # h => Counted'[i] = Counted[i]
    BY DEF Counted, CapTypeOK
  <1>5. Counted \in [Hosts -> Int] /\ Counted' \in [Hosts -> Int]
    BY CountedType, CountAssumption DEF CapTypeOK, Counted, Counter
  <1>6. k * CountMod \in Int /\ IsFiniteSet(Hosts)
    BY <1>2, CountAssumption, HostsAssumption
  <1>7. SumFunctionOnSet(Counted', Hosts) = s + k * CountMod /\ s \in Int
    BY <1>3, <1>4, <1>5, <1>6, SumChange, SumType
  <1> HIDE DEF s
  <1>8. (s + k * CountMod) % CountMod = s % CountMod
    BY <1>2, <1>7, CountAssumption, RemShift
  <1> QED
    BY <1>7, <1>8 DEF CountsInv, s

LEMMA CountsStep ==
  CapTypeOK /\ CapTypeOK' /\ CountsInv /\ [CapNext]_capVars => CountsInv'
  <1> SUFFICES ASSUME CapTypeOK, CapTypeOK', CountsInv, [CapNext]_capVars
               PROVE  CountsInv'
    OBVIOUS
  <1>1. ASSUME NEW p \in Apps, NEW c \in {"bw", "tput"}, Arrive(p, c)
        PROVE  CountsInv'
    <2>1. HostOf[p] \in Hosts /\ 1 \in Int
      BY HostsAssumption
    <2>2. /\ underway[HostOf[p]] = 0
          /\ underway' = [underway EXCEPT ![HostOf[p]] = 1]
          /\ localBig' = [localBig EXCEPT ![HostOf[p]] = (@ + 1) % CountMod]
          /\ UNCHANGED <<reported, irregular>>
      BY <1>1 DEF Arrive, Begin, notTheirs
    <2> QED
      BY <1>1, <2>1, <2>2, CountedWraps
  <1>2. ASSUME NEW p \in Apps, Depart(p)
        PROVE  CountsInv'
    <2>1. CASE irregular'
      BY <2>1 DEF CountsInv
    <2>2. CASE ~irregular'
      <3> DEFINE h == HostOf[p]
      <3>1. class[p] = "bw" /\ own[p] = 1 /\ ~irregular /\ irregular' = irregular
        BY <1>2, <2>2 DEF Depart, CapTypeOK
      <3>2. h \in Hosts /\ localBig[h] \in Int
        BY HostsAssumption, CountAssumption DEF CapTypeOK, Counter
      <3>3. Leave(p, "bw", Done(0, 0, 0))
        BY <1>2, <3>1 DEF Depart
      <3>4. Done(0, 0, 0).counted = 0 /\ Done(0, 0, 0).told = 0 /\ Done(0, 0, 0).added = 0
        BY DEF Done
      <3> DEFINE d == 0 - 1
      <3>5. /\ underway[h] = 0
            /\ underway' = [underway EXCEPT ![h] = d]
            /\ localBig' = [localBig EXCEPT ![h] = (localBig[h] + 0 - (1 + 0)) % CountMod]
            /\ reported' = reported
        BY <3>1, <3>3, <3>4 DEF Leave, notTheirs
      <3>6. localBig[h] + 0 - (1 + 0) = localBig[h] + d /\ d \in Int
        BY <3>2
      <3> HIDE DEF h, d
      <3>7. localBig' = [localBig EXCEPT ![h] = (@ + d) % CountMod]
        BY <3>5, <3>6
      <3> QED
        BY <3>1, <3>2, <3>5, <3>6, <3>7, CountedWraps
    <2> QED
      BY <2>1, <2>2
  <1>3. ASSUME NEW h \in Hosts, Count(h)
        PROVE  CountsInv'
    <2> DEFINE s == SumFunctionOnSet(Counted, Hosts)
               u == underway[h]
    <2>1. u \in Int /\ Counted \in [Hosts -> Int] /\ Counted' \in [Hosts -> Int]
      BY CountedType, CountAssumption DEF CapTypeOK, Counted, Counter
    <2>2. Counted'[h] = Counted[h] + u
      BY <1>3, CountAssumption DEF Count, Counted, CapTypeOK, Counter
    <2>3. \A i \in Hosts : i # h => Counted'[i] = Counted[i]
      BY <1>3 DEF Count, Counted, CapTypeOK
    <2>4. reported' = (reported + u) % CountMod /\ irregular' = irregular
      BY <1>3 DEF Count
    <2> HIDE DEF u
    <2>5. SumFunctionOnSet(Counted', Hosts) = s + u /\ s \in Int
      BY <2>1, <2>2, <2>3, HostsAssumption, SumChange, SumType
    <2> HIDE DEF s
    <2>6. ((s % CountMod) + u) % CountMod = (s + u) % CountMod
      BY <2>1, <2>5, CountAssumption, RemAdd
    <2> QED
      BY <2>4, <2>5, <2>6 DEF CountsInv, s
  <1>4. ASSUME NEW p \in Apps, KillApp(p)
        PROVE  CountsInv'
    <2>1. CASE irregular'
      BY <2>1 DEF CountsInv
    <2>2. CASE ~irregular'
      <3>1. UNCHANGED <<localBig, underway, reported, irregular>>
        BY <1>4, <2>2 DEF KillApp, notTheirs
      <3> QED
        BY <3>1 DEF CountsInv, Counted
    <2> QED
      BY <2>1, <2>2
  <1>5. ASSUME NEW p \in Apps, DepartEarly(p)
        PROVE  CountsInv'
    BY <1>5 DEF DepartEarly, CountsInv
  <1>6. ASSUME UNCHANGED <<localBig, underway, reported, irregular>>
        PROVE  CountsInv'
    BY <1>6 DEF CountsInv, Counted
  <1> QED
    BY <1>1, <1>2, <1>3, <1>4, <1>5, <1>6
    DEF CapNext, MonitorLatency, Adapt, Release, MarkRead, Inform, SmallComeOrGo, Measure,
        notTheirs, registry, environment, capVars

-----------------------------------------------------------------------------
(* The floors together.                                                    *)

(* A floor is the host's share of the line, plus at most one half for       *)
(* rounding; multiplied out, to stay among the integers.                   *)
LEMMA FloorIsShare ==
  ASSUME NEW big \in Nat, NEW all \in Nat
  PROVE  2 * (all + 1) * Floor(big, all) <= 2 * LineRate * big + (all + 1)
  <1> DEFINE n == 2 * big * LineRate + all + 1
             d == 2 * (all + 1)
  <1>1. LineRate \in Nat \ {0}
    BY LineAssumption
  <1>2. n \in Nat /\ d \in Nat \ {0} /\ n = 2 * LineRate * big + (all + 1)
    BY <1>1
  <1>3. n \div d \in Nat /\ d * (n \div d) <= n
    BY <1>2, QuotientBounds
  <1>4. Floor(big, all) = IF n \div d > LineRate THEN LineRate ELSE n \div d
    BY DEF Floor
  <1> HIDE DEF n
  <1>5. ASSUME NEW q \in Nat, NEW r \in Nat, r <= q
        PROVE  d * r <= d * q
    BY <1>2, <1>5
  <1>6. Floor(big, all) \in Nat /\ Floor(big, all) <= n \div d
    BY <1>1, <1>3, <1>4
  <1>7. d * Floor(big, all) <= d * (n \div d)
    BY <1>3, <1>5, <1>6
  <1>8. d * Floor(big, all) \in Int /\ d * (n \div d) \in Int
    BY <1>2, <1>3, <1>6
  <1> QED
    BY <1>2, <1>3, <1>7, <1>8

(* Once everything is told and counted, the receiver's count is the sum of  *)
(* the hosts'.                                                             *)
LEMMA InformedTotal ==
  ASSUME CapTypeOK, CountsInv, Informed, ~irregular, Total < CountMod
  PROVE  reported = Total /\ Total \in Nat
  <1>1. IsFiniteSet(Hosts) /\ localBig \in [Hosts -> Int] /\ \A h \in Hosts : localBig[h] >= 0
    BY HostsAssumption, CountAssumption DEF CapTypeOK, Counter
  <1>2. Total \in Int
    BY <1>1, SumType DEF Total
  <1>3. Cardinality(Hosts) \in Nat
    BY <1>1, FS_CardinalityType
  <1>4. Total >= 0
    <2> DEFINE m == 0 - 1
               z == 0
    <2>1. m \in Int /\ z \in Int /\ \A h \in Hosts : m * localBig[h] <= z * localBig[h] + z
      BY <1>1
    <2>2. m * Total <= z * Total + z * Cardinality(Hosts)
      <3> HIDE DEF m, z
      <3> QED
        BY <1>1, <2>1, SumBound DEF Total
    <2> QED
      BY <1>2, <1>3, <2>2
  <1>5. Total \in 0 .. CountMod - 1
    BY <1>2, <1>4, CountAssumption
  <1>6. Counted = localBig
    BY <1>1 DEF Informed, Counted
  <1> QED
    BY <1>5, <1>6, CountAssumption, RemSmall DEF CountsInv, Total

(* With everybody informed, the hosts' floors fit into the line and leave   *)
(* the share of the latency flows, whatever the number of hosts and flows: *)
(* no host needs to be cut below its floor for another to have its own.    *)
(* What the hosts are informed of is the receiver's count, which the       *)
(* invariant CountsInv relates to their own.                               *)
THEOREM FloorsFitTogether == CapSpec => []FloorsFit
  <1>1. CapTypeOK /\ CountsInv => FloorsFit
    <2> SUFFICES ASSUME CapTypeOK, CountsInv, Informed, ~irregular, Total < CountMod
                 PROVE  2 * (reported + 1)
                          * SumFunctionOnSet([h \in Hosts |-> Floor(localBig[h], viewBig[h])], Hosts)
                          <= 2 * reported * LineRate + (reported + 1) * Cardinality(Hosts)
      BY DEF FloorsFit
    <2> DEFINE floors == [h \in Hosts |-> Floor(localBig[h], viewBig[h])]
    <2>1. IsFiniteSet(Hosts) /\ LineRate \in Nat
      BY HostsAssumption, LineAssumption
    <2>2. localBig \in [Hosts -> Int] /\ \A h \in Hosts : localBig[h] \in Nat
      BY CountAssumption DEF CapTypeOK, Counter
    <2>3. reported = Total /\ reported \in Nat
      BY InformedTotal
    <2>4. \A h \in Hosts : viewBig[h] = reported
      BY DEF Informed
    <2>5. ASSUME NEW h \in Hosts PROVE floors[h] \in Int
      <3>1. Floor(localBig[h], viewBig[h]) \in 0 .. LineRate
        BY <2>2, <2>3, <2>4, FloorBounds
      <3> QED
        BY <2>1, <3>1
    <2>6. \A h \in Hosts :
            2 * (reported + 1) * floors[h] <= 2 * LineRate * localBig[h] + (reported + 1)
      BY <2>2, <2>3, <2>4, FloorIsShare
    <2>7. 2 * (reported + 1) \in Int /\ 2 * LineRate \in Int /\ reported + 1 \in Int
      BY <2>1, <2>3
    <2>8. floors \in [Hosts -> Int]
      BY <2>5
    <2>9. 2 * (reported + 1) * SumFunctionOnSet(floors, Hosts)
            <= 2 * LineRate * Total + (reported + 1) * Cardinality(Hosts)
      <3> HIDE DEF floors
      <3> QED
        BY <2>1, <2>2, <2>6, <2>7, <2>8, SumBound DEF Total
    <2>10. 2 * LineRate * Total = 2 * reported * LineRate
      BY <2>1, <2>3
    <2> QED
      BY <2>9, <2>10
  <1>2. CapInit => CountsInv
    BY CountsInit
  <1>3. CapTypeOK /\ CapTypeOK' /\ CountsInv /\ [CapNext]_capVars => CountsInv'
    BY CountsStep
  <1> QED
    BY <1>1, <1>2, <1>3, CapTypeCorrect, PTL DEF CapSpec, CapSafeSpec

-----------------------------------------------------------------------------
(* The handshake of the pacers.                                            *)

(* Sequences of at most one message, as all those under way are.            *)
LEMMA OneMessage ==
  /\ \A x : Append(<<>>, x) = <<x>> /\ Head(<<x>>) = x /\ Tail(<<x>>) = <<>> /\ <<x>> # <<>>
  /\ \A x, y : <<x>> = <<y>> => x = y
  OBVIOUS

-----------------------------------------------------------------------------
(* The inductive invariant.                                                *)

InLine(c) == waiting # None /\ \E k \in DOMAIN waiting : waiting[k] = c

(* Where the server is tells what its locals hold.                          *)
ServerInv ==
  /\ waiting # None <=> spc = "accept"
  /\ conn = None <=> spc \in {"create", "listen", "accept", "loop"}
  /\ spc \in {"create", "listen", "accept", "address", "loop"} => rem = None
  /\ spc \in {"reply", "done", "qp"} => rem = conn
  /\ spc = "out" /\ rem # None => sdest[slot] = rem
  /\ spc = "loop" => slot = NumSlots - 1
  /\ \A i \in Slots : sdest[i] # None => i < slot \/ (i = slot /\ spc \in {"out", "loop"})

(* Nobody waits twice.                                                      *)
QueueInv ==
  waiting # None => \A j, k \in DOMAIN waiting : waiting[j] = waiting[k] => j = k

(* Connected, and without an answer: accepted or not.                       *)
Early(c) ==
  /\ cpc[c] \in {"write", "reply", "gone"}
  /\ cdest[c] = None
  /\ toClient[c] = <<>>
  /\ toServer[c] \in {<<>>, <<"address">>}
  /\ cpc[c] = "write" => toServer[c] = <<>>
  /\ cpc[c] = "reply" => toServer[c] = <<"address">>
  /\ link[c] = (IF cpc[c] = "gone" THEN "closed" ELSE "open")

(* A client that has not connected has left no trace.                       *)
Fresh(c) ==
  cpc[c] \in {"off", "create", "connect"} =>
    /\ cdest[c] = None /\ link[c] = "none" /\ toServer[c] = <<>> /\ toClient[c] = <<>>
    /\ ~InLine(c) /\ conn # c

Queued(c) == InLine(c) => Early(c) /\ conn # c

TurnedAway(c) ==
  link[c] = "reset" =>
    /\ conn # c /\ ~InLine(c) /\ cdest[c] = None /\ toClient[c] = <<>>
    /\ cpc[c] \in {"write", "reply", "gone"}

(* The last part of the exchange: the answer is on the way, has been read,  *)
(* and has been confirmed.                                                 *)
Confirming(c) ==
  \/ /\ cpc[c] \in {"reply", "gone"} /\ cdest[c] = None
     /\ toClient[c] = <<slot>> /\ toServer[c] = <<>>
  \/ /\ cpc[c] \in {"done", "gone"} /\ cdest[c] = slot
     /\ toClient[c] = <<>> /\ toServer[c] = <<>>
  \/ /\ cpc[c] \in {"qp", "up", "gone"} /\ cdest[c] = slot
     /\ toClient[c] = <<>> /\ toServer[c] = <<"done">>

(* The client the server has accepted.                                      *)
InService(c) ==
  conn = c =>
    /\ spc = "address" => Early(c)
    /\ spc = "reply" =>
         /\ cpc[c] \in {"reply", "gone"} /\ cdest[c] = None
         /\ toClient[c] = <<>> /\ toServer[c] = <<>>
         /\ link[c] = (IF cpc[c] = "gone" THEN "closed" ELSE "open")
    /\ spc = "done" =>
         /\ Confirming(c)
         /\ link[c] = (IF cpc[c] \in {"qp", "up", "gone"} THEN "closed" ELSE "open")
    /\ spc = "qp" => cdest[c] = slot /\ cpc[c] \in {"qp", "up", "gone"}
    /\ spc = "out" /\ rem = None => cpc[c] = "gone"
    /\ spc = "out" => cpc[c] \in {"qp", "up", "gone"}

(* A client that has a slot had read its address.                           *)
Settled(c) ==
  \A i \in Slots : sdest[i] = c =>
    /\ cdest[c] = i /\ cpc[c] \in {"qp", "up", "gone"}
    /\ conn = c => spc = "out"

(* A client that has read an address has its slot, or the server is with it.*)
Ahead(c) ==
  /\ cpc[c] = "done" => conn = c /\ spc = "done"
  /\ cpc[c] \in {"qp", "up"} =>
       \/ conn = c /\ spc \in {"done", "qp", "out"}
       \/ cdest[c] \in Slots /\ sdest[cdest[c]] = c
  /\ toClient[c] # <<>> => cpc[c] = "gone" \/ (conn = c /\ spc = "done")

(* Nobody the server has to do with is lost unless it was killed.           *)
Spared(c) == kills = 0 /\ (InLine(c) \/ conn = c) => cpc[c] # "gone"

ClientInv(c) ==
  /\ Fresh(c) /\ Queued(c) /\ TurnedAway(c) /\ InService(c)
  /\ Settled(c) /\ Ahead(c) /\ Spared(c)

HandshakeInv ==
  ServerInv /\ QueueInv /\ (\A c \in Clients : ClientInv(c)) /\ NoSlotWasted

-----------------------------------------------------------------------------
(* Type correctness.                                                       *)

LEMMA HandshakeTypeInit == HandshakeInit => HandshakeTypeOK
  BY HandshakeAssumption DEF HandshakeInit, HandshakeTypeOK, Slots

LEMMA TypeClient ==
  ASSUME HandshakeTypeOK, NEW c \in Clients, Client(c) \/ Start(c) \/ KillClient(c)
  PROVE  HandshakeTypeOK'
  <1> USE DEF HandshakeTypeOK
  <1>1. ASSUME Gone(c), kills' \in 0..MaxKills
        PROVE  HandshakeTypeOK'
    BY <1>1 DEF Gone, Goto, serverVars
  <1>2. CASE Start(c) \/ ClientCreate(c) \/ ClientQp(c)
    BY <1>2 DEF Start, ClientCreate, ClientQp, Goto, serverVars, tcpVars
  <1>3. CASE ClientConnect(c)
    <2>1. waiting \in Seq(Clients) /\ Len(waiting) \in Nat
      BY <1>3, LenProperties DEF ClientConnect
    <2>2. waiting' \in Seq(Clients) /\ Len(waiting') <= Backlog + 1
      BY <1>3, <2>1, AppendProperties, HandshakeAssumption DEF ClientConnect
    <2> QED
      BY <1>3, <2>2 DEF ClientConnect, Goto, serverVars
  <1>4. CASE ClientWrite(c)
    <2>1. Append(toServer[c], "address") \in Seq({"address", "done"})
      BY AppendProperties
    <2> QED
      BY <1>4, <2>1 DEF ClientWrite, Goto, serverVars
  <1>5. CASE ClientRead(c)
    <2>1. toClient[c] \in Seq(Slots) /\ toClient[c] # <<>>
      BY <1>5 DEF ClientRead
    <2>2. Head(toClient[c]) \in Slots /\ Tail(toClient[c]) \in Seq(Slots)
      BY <2>1, HeadTailProperties
    <2> QED
      BY <1>5, <2>2 DEF ClientRead, Goto, serverVars
  <1>6. CASE ClientDone(c)
    <2>1. Append(toServer[c], "done") \in Seq({"address", "done"})
      BY AppendProperties
    <2> QED
      BY <1>6, <2>1 DEF ClientDone, Goto, serverVars
  <1>7. CASE KillClient(c)
    <2>1. kills' \in 0..MaxKills
      BY <1>7, HandshakeAssumption DEF KillClient
    <2> QED
      BY <1>1, <1>7, <2>1 DEF KillClient
  <1>8. CASE ClientRefused(c) \/ ClientFails(c)
    BY <1>1, <1>8 DEF ClientRefused, ClientFails
  <1> QED
    BY <1>2, <1>3, <1>4, <1>5, <1>6, <1>7, <1>8 DEF Client

(* rem_dest is set to the accepted client or not at all, and only when      *)
(* there is one.                                                           *)
LEMMA TypeServer ==
  ASSUME HandshakeTypeOK, ServerInv, Server
  PROVE  HandshakeTypeOK'
  <1> USE DEF HandshakeTypeOK
  <1>1. ASSUME NEW then \in {"reply", "qp"}, Reads(then), conn' = conn, conn \in Clients
        PROVE  /\ toServer' \in [Clients -> Seq({"address", "done"})]
               /\ rem' \in {None, conn'}
               /\ spc' \in {"reply", "qp", "out"}
    <2>1. toServer[conn] # <<>> => Tail(toServer[conn]) \in Seq({"address", "done"})
      BY <1>1, HeadTailProperties
    <2> QED
      BY <1>1, <2>1 DEF Reads
  <1>2. CASE ServerCreate
    BY <1>2 DEF ServerCreate, clientVars, tcpVars
  <1>0. CASE ServerListen
    <2>1. <<>> \in Seq(Clients) /\ Len(<<>>) = 0
      BY EmptySeq
    <2> QED
      BY <1>0, <2>1, HandshakeAssumption DEF ServerListen, clientVars
  <1>3. CASE ServerAccept
    <2>1. waiting \in Seq(Clients) /\ waiting # <<>> /\ rem = None
      BY <1>3 DEF ServerAccept, ServerInv
    <2>2. Head(waiting) \in Clients
      BY <2>1, HeadTailProperties
    <2> QED
      BY <1>3, <2>1, <2>2 DEF ServerAccept, clientVars
  <1>4. CASE ServerAddress \/ ServerDone
    <2>1. conn \in Clients
      BY <1>4 DEF ServerAddress, ServerDone, ServerInv
    <2> QED
      BY <1>1, <1>4, <2>1 DEF ServerAddress, ServerDone, clientVars
  <1>5. CASE ServerReply
    <2>1. \A c \in Clients : Append(toClient[c], slot) \in Seq(Slots)
      BY AppendProperties
    <2> QED
      BY <1>5, <2>1 DEF ServerReply, clientVars
  <1>6. CASE ServerQp
    BY <1>6 DEF ServerQp, clientVars, tcpVars
  <1>7. CASE ServerOut
    BY <1>7, HandshakeAssumption DEF ServerOut, Slots, clientVars, tcpVars
  <1> QED
    BY <1>0, <1>2, <1>3, <1>4, <1>5, <1>6, <1>7 DEF Server

-----------------------------------------------------------------------------
(* It holds at the start, and every step of a client preserves it.         *)

LEMMA InvInit == HandshakeInit => HandshakeInv
  <1> SUFFICES ASSUME HandshakeInit PROVE HandshakeInv
    OBVIOUS
  <1>1. ServerInv /\ QueueInv
    BY NoneAssumption DEF HandshakeInit, ServerInv, QueueInv
  <1>2. ASSUME NEW c \in Clients
        PROVE  ClientInv(c)
    BY NoneAssumption
    DEF HandshakeInit, ClientInv, Fresh, Queued, TurnedAway, InService, Settled, Ahead, Spared, InLine
  <1>3. NoSlotWasted
    BY HandshakeAssumption DEF HandshakeInit, NoSlotWasted, Passed, Slots
  <1> QED
    BY <1>1, <1>2, <1>3 DEF HandshakeInv

(* A step of one client leaves the others where they are.                   *)
LEMMA OtherClient ==
  ASSUME NEW d \in Clients, ClientInv(d), UNCHANGED serverVars,
         cpc'[d] = cpc[d], cdest'[d] = cdest[d], link'[d] = link[d],
         toServer'[d] = toServer[d], toClient'[d] = toClient[d],
         InLine(d)' = InLine(d), kills' = 0 => kills = 0
  PROVE  ClientInv(d)'
  <1> USE DEF serverVars, ClientInv
  <1>1. Early(d)' = Early(d)
    BY DEF Early
  <1>2. Confirming(d)' = Confirming(d)
    BY DEF Confirming
  <1>3. Fresh(d)' /\ Queued(d)' /\ TurnedAway(d)'
    BY <1>1 DEF Fresh, Queued, TurnedAway
  <1>4. InService(d)'
    BY <1>1, <1>2 DEF InService
  <1>5. Settled(d)' /\ Ahead(d)' /\ Spared(d)'
    BY DEF Settled, Ahead, Spared
  <1> QED
    BY <1>3, <1>4, <1>5

(* So what remains is the client itself.                                    *)
LEMMA OwnStep ==
  ASSUME HandshakeInv, NEW c \in Clients, ClientInv(c)', QueueInv', UNCHANGED serverVars,
         \A d \in Clients \ {c} :
           /\ cpc'[d] = cpc[d] /\ cdest'[d] = cdest[d] /\ link'[d] = link[d]
           /\ toServer'[d] = toServer[d] /\ toClient'[d] = toClient[d]
           /\ InLine(d)' = InLine(d),
         (waiting # None)' = (waiting # None),
         kills' = 0 => kills = 0
  PROVE  HandshakeInv'
  <1>1. \A d \in Clients : ClientInv(d)'
    BY OtherClient DEF HandshakeInv
  <1>2. ServerInv'
    BY DEF HandshakeInv, ServerInv, serverVars
  <1>3. NoSlotWasted'
    BY DEF HandshakeInv, NoSlotWasted, Passed, serverVars
  <1> QED
    BY <1>1, <1>2, <1>3 DEF HandshakeInv

(* What the other clients' variables do in a step of client c: nothing.     *)
OthersStay(c) ==
  \A d \in Clients \ {c} :
    /\ cpc'[d] = cpc[d] /\ cdest'[d] = cdest[d] /\ link'[d] = link[d]
    /\ toServer'[d] = toServer[d] /\ toClient'[d] = toClient[d]

(* Steps that leave the listening socket alone.                             *)
LEMMA QuietStep ==
  ASSUME HandshakeInv, NEW c \in Clients, OthersStay(c), ClientInv(c)',
         UNCHANGED serverVars, waiting' = waiting, kills' = 0 => kills = 0
  PROVE  HandshakeInv'
  <1>2. \A d \in Clients : InLine(d)' = InLine(d)
    BY DEF InLine
  <1>3. QueueInv'
    BY DEF HandshakeInv, QueueInv
  <1>4. (waiting # None)' = (waiting # None)
    OBVIOUS
  <1> QED
    BY <1>2, <1>3, <1>4, OwnStep DEF OthersStay

(* The client's own variables after a step, and what it knew before.        *)
LEMMA InvStartCreate ==
  ASSUME HandshakeTypeOK, HandshakeInv, NEW c \in Clients, Start(c) \/ ClientCreate(c)
  PROVE  HandshakeInv'
  <1>1. PICK a \in {"create", "connect"} : cpc' = [cpc EXCEPT ![c] = a]
    BY DEF Start, ClientCreate, Goto
  <1>2. UNCHANGED <<cdest, serverVars, tcpVars, kills>> /\ cpc[c] \in {"off", "create"}
    BY DEF Start, ClientCreate
  <1>3. cpc'[c] = a /\ ClientInv(c) /\ InLine(c)' = InLine(c)
    BY <1>1, <1>2 DEF HandshakeTypeOK, HandshakeInv, InLine, tcpVars
  <1>4. ClientInv(c)'
    BY <1>1, <1>2, <1>3, NoneAssumption
    DEF ClientInv, Fresh, Queued, TurnedAway, InService, Settled, Ahead, Spared,
        serverVars, tcpVars
  <1>10. OthersStay(c)
    BY <1>1, <1>2 DEF HandshakeTypeOK, OthersStay, tcpVars
  <1>11. UNCHANGED serverVars /\ waiting' = waiting /\ (kills' = 0 => kills = 0)
    BY <1>1, <1>2 DEF tcpVars
  <1> QED
    BY <1>4, <1>10, <1>11, QuietStep

LEMMA InvConnect ==
  ASSUME HandshakeTypeOK, HandshakeInv, NEW c \in Clients, ClientConnect(c)
  PROVE  HandshakeInv'
  <1>1. /\ waiting \in Seq(Clients) /\ waiting # None /\ waiting' = Append(waiting, c)
        /\ cpc[c] = "connect" /\ cpc' = [cpc EXCEPT ![c] = "write"]
        /\ link' = [link EXCEPT ![c] = "open"]
        /\ UNCHANGED <<cdest, serverVars, toServer, toClient, kills>>
    BY DEF ClientConnect, Goto, HandshakeTypeOK
  <1>2. /\ waiting' \in Seq(Clients) /\ Len(waiting) \in Nat
        /\ DOMAIN waiting = 1..Len(waiting) /\ DOMAIN waiting' = 1..Len(waiting)+1
        /\ \A k \in 1..Len(waiting) : waiting'[k] = waiting[k]
        /\ waiting'[Len(waiting)+1] = c
    BY <1>1, AppendProperties, LenProperties
  <1>3. waiting' # None
    BY <1>2, NoneAssumption
  <1>4. \A d \in Clients \ {c} : InLine(d)' = InLine(d)
    BY <1>1, <1>2, <1>3 DEF InLine
  <1>5. ClientInv(c) /\ ~InLine(c)
    BY <1>1 DEF HandshakeInv, ClientInv, Fresh
  <1>6. QueueInv'
    BY <1>1, <1>2, <1>3, <1>5 DEF QueueInv, HandshakeInv, InLine
  <1>7. /\ cpc'[c] = "write" /\ link'[c] = "open" /\ cdest' = cdest
        /\ toServer' = toServer /\ toClient' = toClient /\ kills' = kills
        /\ UNCHANGED serverVars
    BY <1>1 DEF HandshakeTypeOK
  <1>8. Early(c)'
    BY <1>1, <1>5, <1>7 DEF Early, ClientInv, Fresh
  <1>9. ClientInv(c)'
    BY <1>1, <1>5, <1>7, <1>8, NoneAssumption
    DEF ClientInv, Fresh, Queued, TurnedAway, InService, Settled, Ahead, Spared, serverVars
  <1>10. \A d \in Clients \ {c} :
           /\ cpc'[d] = cpc[d] /\ cdest'[d] = cdest[d] /\ link'[d] = link[d]
           /\ toServer'[d] = toServer[d] /\ toClient'[d] = toClient[d]
    BY <1>1 DEF HandshakeTypeOK
  <1> QED
    BY <1>1, <1>3, <1>4, <1>6, <1>9, <1>10, OwnStep

LEMMA InvWrite ==
  ASSUME HandshakeTypeOK, HandshakeInv, NEW c \in Clients, ClientWrite(c)
  PROVE  HandshakeInv'
  <1>1. /\ cpc[c] = "write" /\ cpc' = [cpc EXCEPT ![c] = "reply"]
        /\ toServer' = [toServer EXCEPT ![c] = Append(@, "address")]
        /\ UNCHANGED <<cdest, serverVars, waiting, link, toClient, kills>>
        /\ link[c] = "open"
    BY DEF ClientWrite, Goto
  <1>2. /\ cpc'[c] = "reply" /\ toServer'[c] = Append(toServer[c], "address")
        /\ ClientInv(c) /\ InLine(c)' = InLine(c)
    BY <1>1 DEF HandshakeTypeOK, HandshakeInv, InLine
  <1>3. Early(c) => Early(c)'
    BY <1>1, <1>2, OneMessage DEF Early
  <1>4. ClientInv(c)'
    BY <1>1, <1>2, <1>3
    DEF ClientInv, Fresh, Queued, TurnedAway, InService, Settled, Ahead, Spared, Confirming,
        serverVars
  <1>10. OthersStay(c)
    BY <1>1, <1>2 DEF HandshakeTypeOK, OthersStay
  <1>11. UNCHANGED serverVars /\ waiting' = waiting /\ (kills' = 0 => kills = 0)
    BY <1>1, <1>2
  <1> QED
    BY <1>4, <1>10, <1>11, QuietStep

LEMMA InvRead ==
  ASSUME HandshakeTypeOK, HandshakeInv, NEW c \in Clients, ClientRead(c)
  PROVE  HandshakeInv'
  <1>1. /\ cpc[c] = "reply" /\ cpc' = [cpc EXCEPT ![c] = "done"] /\ toClient[c] # <<>>
        /\ cdest' = [cdest EXCEPT ![c] = Head(toClient[c])]
        /\ toClient' = [toClient EXCEPT ![c] = Tail(@)]
        /\ UNCHANGED <<serverVars, waiting, link, toServer, kills>>
    BY DEF ClientRead, Goto
  <1>2. /\ cpc'[c] = "done" /\ cdest'[c] = Head(toClient[c])
        /\ toClient'[c] = Tail(toClient[c])
        /\ ClientInv(c) /\ InLine(c)' = InLine(c)
    BY <1>1 DEF HandshakeTypeOK, HandshakeInv, InLine
  <1>3. conn = c /\ spc = "done" /\ ~InLine(c) /\ link[c] = "open"
    BY <1>1, <1>2 DEF ClientInv, Ahead, Queued, InService, Early
  <1>4. toClient[c] = <<slot>> /\ toServer[c] = <<>>
    BY <1>1, <1>2, <1>3 DEF ClientInv, InService, Confirming
  <1>5. cdest'[c] = slot /\ toClient'[c] = <<>>
    BY <1>2, <1>4, OneMessage
  <1>6. Confirming(c)'
    BY <1>1, <1>2, <1>4, <1>5 DEF Confirming, serverVars
  <1>7. ClientInv(c)'
    BY <1>1, <1>2, <1>3, <1>5, <1>6
    DEF ClientInv, Fresh, Queued, TurnedAway, InService, Settled, Ahead, Spared, serverVars
  <1>10. OthersStay(c)
    BY <1>1, <1>2 DEF HandshakeTypeOK, OthersStay
  <1>11. UNCHANGED serverVars /\ waiting' = waiting /\ (kills' = 0 => kills = 0)
    BY <1>1, <1>2
  <1> QED
    BY <1>7, <1>10, <1>11, QuietStep

LEMMA InvDone ==
  ASSUME HandshakeTypeOK, HandshakeInv, NEW c \in Clients, ClientDone(c)
  PROVE  HandshakeInv'
  <1>1. /\ cpc[c] = "done" /\ cpc' = [cpc EXCEPT ![c] = "qp"]
        /\ toServer' = [toServer EXCEPT ![c] = Append(@, "done")]
        /\ link' = [link EXCEPT ![c] = "closed"]
        /\ UNCHANGED <<cdest, serverVars, waiting, toClient, kills>>
    BY DEF ClientDone, Goto
  <1>2. /\ cpc'[c] = "qp" /\ toServer'[c] = Append(toServer[c], "done")
        /\ link'[c] = "closed" /\ ClientInv(c) /\ InLine(c)' = InLine(c)
    BY <1>1 DEF HandshakeTypeOK, HandshakeInv, InLine
  <1>3. conn = c /\ spc = "done" /\ ~InLine(c)
    BY <1>1, <1>2 DEF ClientInv, Ahead, Queued
  <1>4. cdest[c] = slot /\ toClient[c] = <<>> /\ toServer[c] = <<>>
    BY <1>1, <1>2, <1>3 DEF ClientInv, InService, Confirming
  <1>5. Confirming(c)'
    BY <1>1, <1>2, <1>4, OneMessage DEF Confirming, serverVars
  <1>6. ClientInv(c)'
    BY <1>1, <1>2, <1>3, <1>4, <1>5
    DEF ClientInv, Fresh, Queued, TurnedAway, InService, Settled, Ahead, Spared, serverVars
  <1>10. OthersStay(c)
    BY <1>1, <1>2 DEF HandshakeTypeOK, OthersStay
  <1>11. UNCHANGED serverVars /\ waiting' = waiting /\ (kills' = 0 => kills = 0)
    BY <1>1, <1>2
  <1> QED
    BY <1>6, <1>10, <1>11, QuietStep

LEMMA InvClientQp ==
  ASSUME HandshakeTypeOK, HandshakeInv, NEW c \in Clients, ClientQp(c)
  PROVE  HandshakeInv'
  <1>1. /\ cpc[c] = "qp" /\ cpc' = [cpc EXCEPT ![c] = "up"]
        /\ UNCHANGED <<cdest, serverVars, tcpVars, kills>>
    BY DEF ClientQp, Goto
  <1>2. cpc'[c] = "up" /\ ClientInv(c) /\ InLine(c)' = InLine(c)
    BY <1>1 DEF HandshakeTypeOK, HandshakeInv, InLine, tcpVars
  <1>3. Confirming(c) => Confirming(c)'
    BY <1>1, <1>2 DEF Confirming, serverVars, tcpVars
  <1>4. ~InLine(c)
    BY <1>1, <1>2 DEF ClientInv, Queued, Early
  <1>5. ClientInv(c)'
    BY <1>1, <1>2, <1>3, <1>4
    DEF ClientInv, Fresh, Queued, TurnedAway, InService, Settled, Ahead, Spared, Early,
        serverVars, tcpVars
  <1>10. OthersStay(c)
    BY <1>1, <1>2 DEF HandshakeTypeOK, OthersStay, tcpVars
  <1>11. UNCHANGED serverVars /\ waiting' = waiting /\ (kills' = 0 => kills = 0)
    BY <1>1, <1>2 DEF tcpVars
  <1> QED
    BY <1>5, <1>10, <1>11, QuietStep

(* A client that ends closes its connection and keeps what it had read.     *)
LEMMA InvGone ==
  ASSUME HandshakeTypeOK, HandshakeInv, NEW c \in Clients,
         ClientRefused(c) \/ ClientFails(c) \/ KillClient(c)
  PROVE  HandshakeInv'
  <1>1. /\ cpc' = [cpc EXCEPT ![c] = "gone"]
        /\ link' = [link EXCEPT ![c] = IF @ = "open" THEN "closed" ELSE @]
        /\ UNCHANGED <<cdest, serverVars, waiting, toServer, toClient>>
    BY DEF ClientRefused, ClientFails, KillClient, Gone, Goto
  <1>2. /\ kills' = 0 => kills = 0
        /\ kills' = 0 => cpc[c] = "connect" \/ link[c] = "reset"
        /\ cpc[c] \notin {"off", "up", "gone"}
    BY DEF ClientRefused, ClientFails, KillClient, HandshakeTypeOK
  <1>3. /\ cpc'[c] = "gone" /\ link'[c] = (IF link[c] = "open" THEN "closed" ELSE link[c])
        /\ ClientInv(c) /\ InLine(c)' = InLine(c)
    BY <1>1 DEF HandshakeTypeOK, HandshakeInv, InLine
  <1>4. Early(c) => Early(c)'
    BY <1>1, <1>2, <1>3 DEF Early
  <1>5. Confirming(c) => Confirming(c)'
    BY <1>1, <1>2, <1>3 DEF Confirming, serverVars
  <1>6. Fresh(c)' /\ Queued(c)' /\ TurnedAway(c)'
    BY <1>1, <1>3, <1>4 DEF ClientInv, Fresh, Queued, TurnedAway, serverVars
  <1>7. InService(c)'
    BY <1>1, <1>2, <1>3, <1>4, <1>5 DEF ClientInv, InService, serverVars
  <1>8. Settled(c)' /\ Ahead(c)' /\ Spared(c)'
    BY <1>1, <1>2, <1>3
    DEF ClientInv, Fresh, TurnedAway, Settled, Ahead, Spared, serverVars
  <1>9. ClientInv(c)'
    BY <1>6, <1>7, <1>8 DEF ClientInv
  <1>10. OthersStay(c)
    BY <1>1, <1>2 DEF HandshakeTypeOK, OthersStay
  <1>11. UNCHANGED serverVars /\ waiting' = waiting /\ (kills' = 0 => kills = 0)
    BY <1>1, <1>2
  <1> QED
    BY <1>9, <1>10, <1>11, QuietStep

-----------------------------------------------------------------------------
(* Every step of the server preserves it.                                  *)

(* A client the server is not with, before and after a step.                *)
LEMMA Uninvolved ==
  ASSUME NEW d \in Clients, ClientInv(d), conn # d, conn' # d, InLine(d)' => InLine(d),
         UNCHANGED clientVars, UNCHANGED kills,
         link'[d] = link[d], toServer'[d] = toServer[d], toClient'[d] = toClient[d],
         \A i \in Slots : (sdest'[i] = d) <=> (sdest[i] = d)
  PROVE  ClientInv(d)'
  <1>1. cpc' = cpc /\ cdest' = cdest
    BY DEF clientVars
  <1>2. Early(d) => Early(d)'
    BY <1>1 DEF Early
  <1>3. Fresh(d)' /\ Queued(d)' /\ TurnedAway(d)'
    BY <1>1, <1>2 DEF ClientInv, Fresh, Queued, TurnedAway
  <1>4. InService(d)'
    BY DEF InService
  <1>5. Settled(d)' /\ Ahead(d)' /\ Spared(d)'
    BY <1>1 DEF ClientInv, Settled, Ahead, Spared
  <1> QED
    BY <1>3, <1>4, <1>5 DEF ClientInv

LEMMA InvCreateListen ==
  ASSUME HandshakeTypeOK, HandshakeInv, ServerCreate \/ ServerListen
  PROVE  HandshakeInv'
  <1>1. /\ UNCHANGED <<clientVars, slot, conn, rem, sdest, link, toServer, toClient, kills>>
        /\ \/ spc = "create" /\ spc' = "listen" /\ waiting' = waiting
           \/ spc = "listen" /\ spc' = "accept" /\ waiting' = <<>>
    <2>1. CASE ServerCreate
      BY <2>1 DEF ServerCreate, tcpVars
    <2>2. CASE ServerListen
      BY <2>2 DEF ServerListen
    <2> QED
      BY <2>1, <2>2
  <1>2. conn = None /\ <<>> # None
    <2>1. conn = None
      BY <1>1 DEF HandshakeInv, ServerInv
    <2>2. <<>> \in Seq(Clients)
      BY EmptySeq
    <2> QED
      BY <2>1, <2>2, NoneAssumption
  <1>3. ASSUME NEW d \in Clients
        PROVE  ClientInv(d)'
    <2>1. DOMAIN <<>> = {}
      OBVIOUS
    <2>2. InLine(d)' => InLine(d)
      BY <1>1, <2>1 DEF InLine
    <2>3. conn # d /\ conn' # d /\ ClientInv(d)
      BY <1>1, <1>2, NoneAssumption DEF HandshakeInv
    <2> QED
      BY <1>1, <2>2, <2>3, Uninvolved
  <1>4. QueueInv'
    <2>1. DOMAIN <<>> = {}
      OBVIOUS
    <2> QED
      BY <1>1, <2>1 DEF HandshakeInv, QueueInv
  <1>5. ServerInv'
    BY <1>1, <1>2 DEF HandshakeInv, ServerInv
  <1>6. NoSlotWasted'
    BY <1>1 DEF HandshakeInv, NoSlotWasted, Passed
  <1> QED
    BY <1>3, <1>4, <1>5, <1>6 DEF HandshakeInv

LEMMA InvAccept ==
  ASSUME HandshakeTypeOK, HandshakeInv, ServerAccept
  PROVE  HandshakeInv'
  <1>1. /\ spc = "accept" /\ spc' = "address" /\ waiting # <<>> /\ waiting' = None
        /\ conn' = Head(waiting)
        /\ UNCHANGED <<clientVars, slot, rem, sdest, toServer, toClient, kills>>
    BY DEF ServerAccept
  <1>2. conn = None /\ rem = None /\ waiting # None /\ waiting \in Seq(Clients)
    BY <1>1 DEF HandshakeInv, ServerInv, HandshakeTypeOK
  <1>3. PICK h \in Clients : h = Head(waiting)
    BY <1>1, <1>2, HeadTailProperties
  <1>4. Len(waiting) \in Nat /\ 1 \in DOMAIN waiting /\ h = waiting[1]
        /\ DOMAIN waiting = 1..Len(waiting)
    BY <1>1, <1>2, <1>3, LenProperties, EmptySeq
  <1>5. \A d \in Clients :
          link'[d] = IF \E k \in 2..Len(waiting) : waiting[k] = d THEN "reset" ELSE link[d]
    BY DEF ServerAccept
  <1>6. conn' = h /\ \A d \in Clients : ~InLine(d)'
    BY <1>1, <1>3 DEF InLine
  <1>7. ClientInv(h)'
    <2>1. ~\E k \in 2..Len(waiting) : waiting[k] = h
      BY <1>2, <1>4 DEF HandshakeInv, QueueInv
    <2>2. link'[h] = link[h] /\ ClientInv(h) /\ InLine(h)
      BY <1>2, <1>4, <1>5, <2>1 DEF HandshakeInv, InLine
    <2>3. Early(h)
      BY <2>2 DEF ClientInv, Queued
    <2>4. cpc' = cpc /\ cdest' = cdest
      BY <1>1 DEF clientVars
    <2>5. Early(h)'
      BY <1>1, <2>2, <2>3, <2>4 DEF Early
    <2>6. link[h] # "reset" /\ cpc[h] \in {"write", "reply", "gone"} /\ toClient[h] = <<>>
          /\ cdest[h] = None
      BY <2>3 DEF Early
    <2>7. Fresh(h)' /\ Queued(h)' /\ TurnedAway(h)' /\ InService(h)'
      BY <1>1, <1>6, <2>2, <2>4, <2>5, <2>6 DEF Fresh, Queued, TurnedAway, InService
    <2>8. Settled(h)' /\ Ahead(h)' /\ Spared(h)'
      BY <1>1, <1>6, <2>2, <2>4, <2>6, NoneAssumption
      DEF ClientInv, Settled, Ahead, Spared
    <2> QED
      BY <2>7, <2>8 DEF ClientInv
  <1>8. ASSUME NEW d \in Clients, d # h
        PROVE  ClientInv(d)'
    <2>1. ClientInv(d) /\ conn # d /\ conn' # d
      BY <1>1, <1>2, <1>3, <1>8, NoneAssumption DEF HandshakeInv
    <2>2. CASE link'[d] = link[d]
      BY <1>1, <1>6, <2>1, <2>2, Uninvolved
    <2>3. CASE link'[d] # link[d]
      <3>1. InLine(d) /\ link'[d] = "reset"
        BY <1>2, <1>4, <1>5, <2>3 DEF InLine
      <3>2. cpc' = cpc /\ cdest' = cdest
        BY <1>1 DEF clientVars
      <3>3. cpc[d] \in {"write", "reply", "gone"} /\ toClient[d] = <<>> /\ cdest[d] = None
        BY <2>1, <3>1 DEF ClientInv, Queued, Early
      <3>4. Fresh(d)' /\ Queued(d)' /\ TurnedAway(d)' /\ InService(d)'
        BY <1>1, <1>6, <2>1, <3>1, <3>2, <3>3 DEF Fresh, Queued, TurnedAway, InService
      <3>5. Settled(d)' /\ Ahead(d)' /\ Spared(d)'
        BY <1>1, <1>6, <2>1, <3>2, <3>3 DEF ClientInv, Settled, Ahead, Spared
      <3> QED
        BY <3>4, <3>5 DEF ClientInv
    <2> QED
      BY <2>2, <2>3
  <1>9. ServerInv' /\ QueueInv'
    BY <1>1, <1>2, <1>3, NoneAssumption DEF HandshakeInv, ServerInv, QueueInv
  <1>10. NoSlotWasted'
    BY <1>1 DEF HandshakeInv, NoSlotWasted, Passed
  <1> QED
    BY <1>7, <1>8, <1>9, <1>10 DEF HandshakeInv

(* In the other steps the server is with one client.                        *)
LEMMA WithClient ==
  ASSUME HandshakeTypeOK, HandshakeInv, NEW c \in Clients, conn = c, conn' \in {c, None},
         UNCHANGED clientVars, UNCHANGED kills, link' = link, waiting' = waiting,
         \A d \in Clients \ {c} : toServer'[d] = toServer[d] /\ toClient'[d] = toClient[d],
         \A d \in Clients \ {c} : \A i \in Slots : (sdest'[i] = d) <=> (sdest[i] = d),
         ClientInv(c)', ServerInv', NoSlotWasted'
  PROVE  HandshakeInv'
  <1>1. ASSUME NEW d \in Clients, d # c
        PROVE  ClientInv(d)'
    <2>1. ClientInv(d) /\ conn # d /\ conn' # d
      BY <1>1, NoneAssumption DEF HandshakeInv
    <2>2. InLine(d)' => InLine(d)
      BY DEF InLine
    <2> QED
      BY <1>1, <2>1, <2>2, Uninvolved
  <1>2. QueueInv'
    BY DEF HandshakeInv, QueueInv
  <1> QED
    BY <1>1, <1>2 DEF HandshakeInv

LEMMA InvAddress ==
  ASSUME HandshakeTypeOK, HandshakeInv, ServerAddress
  PROVE  HandshakeInv'
  <1>1. /\ spc = "address" /\ Reads("reply")
        /\ UNCHANGED <<clientVars, slot, conn, sdest, waiting, link, toClient, kills>>
    BY DEF ServerAddress
  <1>2. PICK c \in Clients : conn = c
    BY <1>1 DEF HandshakeInv, ServerInv, HandshakeTypeOK
  <1>3. ClientInv(c) /\ InLine(c)' = InLine(c) /\ cpc' = cpc /\ cdest' = cdest
    BY <1>1 DEF HandshakeInv, InLine, clientVars
  <1>4. Early(c) /\ ~InLine(c)
    BY <1>1, <1>2, <1>3 DEF ClientInv, InService, Queued
  <1>5. \/ /\ toServer[c] = <<"address">> /\ toServer' = [toServer EXCEPT ![c] = <<>>]
           /\ rem' = c /\ spc' = "reply" /\ cpc[c] \in {"reply", "gone"}
        \/ /\ toServer' = toServer /\ rem' = None /\ spc' = "out" /\ cpc[c] = "gone"
    BY <1>1, <1>2, <1>4, OneMessage DEF Reads, Early
  <1>6. toServer'[c] = <<>> \/ spc' = "out"
    BY <1>5 DEF HandshakeTypeOK
  <1>7. Fresh(c)' /\ Queued(c)' /\ TurnedAway(c)'
    BY <1>1, <1>2, <1>3, <1>4, <1>5 DEF ClientInv, Fresh, Queued, TurnedAway
  <1>8. InService(c)'
    BY <1>1, <1>2, <1>3, <1>4, <1>5, <1>6, NoneAssumption DEF InService, Early
  <1>9. Settled(c)' /\ Ahead(c)' /\ Spared(c)'
    BY <1>1, <1>2, <1>3, <1>4, <1>5 DEF ClientInv, Settled, Ahead, Spared, Early
  <1>10. ServerInv'
    BY <1>1, <1>2, <1>5, NoneAssumption DEF HandshakeInv, ServerInv
  <1>11. NoSlotWasted'
    BY <1>1, <1>5 DEF HandshakeInv, NoSlotWasted, Passed
  <1>12. \A d \in Clients \ {c} : toServer'[d] = toServer[d] /\ toClient'[d] = toClient[d]
    BY <1>1, <1>5 DEF HandshakeTypeOK
  <1>13. ClientInv(c)'
    BY <1>7, <1>8, <1>9 DEF ClientInv
  <1> QED
    BY <1>1, <1>2, <1>10, <1>11, <1>12, <1>13, WithClient

LEMMA InvReply ==
  ASSUME HandshakeTypeOK, HandshakeInv, ServerReply
  PROVE  HandshakeInv'
  <1>1. /\ spc = "reply" /\ spc' = "done"
        /\ toClient' = [toClient EXCEPT ![conn] = Append(@, slot)]
        /\ UNCHANGED <<clientVars, slot, conn, rem, sdest, waiting, link, toServer, kills>>
    BY DEF ServerReply
  <1>2. PICK c \in Clients : conn = c
    BY <1>1 DEF HandshakeInv, ServerInv, HandshakeTypeOK
  <1>3. ClientInv(c) /\ InLine(c)' = InLine(c) /\ cpc' = cpc /\ cdest' = cdest
    BY <1>1 DEF HandshakeInv, InLine, clientVars
  <1>4. /\ cpc[c] \in {"reply", "gone"} /\ cdest[c] = None
        /\ toClient[c] = <<>> /\ toServer[c] = <<>>
        /\ link[c] = (IF cpc[c] = "gone" THEN "closed" ELSE "open") /\ ~InLine(c)
    BY <1>1, <1>2, <1>3 DEF ClientInv, InService, Queued
  <1>5. toClient'[c] = <<slot>>
    BY <1>1, <1>2, <1>4, OneMessage DEF HandshakeTypeOK
  <1>6. Confirming(c)'
    BY <1>1, <1>3, <1>4, <1>5 DEF Confirming
  <1>7. Fresh(c)' /\ Queued(c)' /\ TurnedAway(c)' /\ InService(c)'
    BY <1>1, <1>2, <1>3, <1>4, <1>6 DEF ClientInv, Fresh, Queued, TurnedAway, InService
  <1>8. Settled(c)' /\ Ahead(c)' /\ Spared(c)'
    BY <1>1, <1>2, <1>3, <1>4 DEF ClientInv, Settled, Ahead, Spared
  <1>9. ServerInv'
    BY <1>1, <1>2, NoneAssumption DEF HandshakeInv, ServerInv
  <1>10. NoSlotWasted'
    BY <1>1 DEF HandshakeInv, NoSlotWasted, Passed
  <1>11. \A d \in Clients \ {c} : toServer'[d] = toServer[d] /\ toClient'[d] = toClient[d]
    BY <1>1, <1>2 DEF HandshakeTypeOK
  <1>12. ClientInv(c)'
    BY <1>7, <1>8 DEF ClientInv
  <1> QED
    BY <1>1, <1>2, <1>9, <1>10, <1>11, <1>12, WithClient

LEMMA InvServerDone ==
  ASSUME HandshakeTypeOK, HandshakeInv, ServerDone
  PROVE  HandshakeInv'
  <1>1. /\ spc = "done" /\ Reads("qp")
        /\ UNCHANGED <<clientVars, slot, conn, sdest, waiting, link, toClient, kills>>
    BY DEF ServerDone
  <1>2. PICK c \in Clients : conn = c
    BY <1>1 DEF HandshakeInv, ServerInv, HandshakeTypeOK
  <1>3. ClientInv(c) /\ InLine(c)' = InLine(c) /\ cpc' = cpc /\ cdest' = cdest
    BY <1>1 DEF HandshakeInv, InLine, clientVars
  <1>4. /\ Confirming(c)
        /\ link[c] = (IF cpc[c] \in {"qp", "up", "gone"} THEN "closed" ELSE "open")
    BY <1>1, <1>2, <1>3 DEF ClientInv, InService
  <1>5. \/ /\ toServer' = [toServer EXCEPT ![c] = Tail(@)]
           /\ rem' = c /\ spc' = "qp" /\ cdest[c] = slot /\ toClient[c] = <<>>
           /\ cpc[c] \in {"qp", "up", "gone"}
        \/ /\ toServer' = toServer /\ rem' = None /\ spc' = "out" /\ cpc[c] = "gone"
    BY <1>1, <1>2, <1>4, OneMessage DEF Reads, Confirming
  <1>6. cpc[c] \in {"qp", "up", "gone"} /\ ~InLine(c)
    BY <1>2, <1>3, <1>5 DEF ClientInv, Queued
  <1>7. Fresh(c)' /\ Queued(c)' /\ TurnedAway(c)'
    BY <1>1, <1>2, <1>3, <1>6 DEF ClientInv, Fresh, Queued, TurnedAway
  <1>8. InService(c)'
    BY <1>1, <1>2, <1>3, <1>5, NoneAssumption DEF InService
  <1>9. Settled(c)' /\ Ahead(c)' /\ Spared(c)'
    BY <1>1, <1>2, <1>3, <1>5, <1>6 DEF ClientInv, Settled, Ahead, Spared
  <1>10. ServerInv'
    BY <1>1, <1>2, <1>5, NoneAssumption DEF HandshakeInv, ServerInv
  <1>11. NoSlotWasted'
    BY <1>1, <1>5 DEF HandshakeInv, NoSlotWasted, Passed
  <1>12. \A d \in Clients \ {c} : toServer'[d] = toServer[d] /\ toClient'[d] = toClient[d]
    BY <1>1, <1>5 DEF HandshakeTypeOK
  <1>13. ClientInv(c)'
    BY <1>7, <1>8, <1>9 DEF ClientInv
  <1> QED
    BY <1>1, <1>2, <1>10, <1>11, <1>12, <1>13, WithClient

(* The slot was free, so nobody loses it.                                   *)
LEMMA InvServerQp ==
  ASSUME HandshakeTypeOK, HandshakeInv, ServerQp
  PROVE  HandshakeInv'
  <1>1. /\ spc = "qp" /\ spc' = "out" /\ sdest' = [sdest EXCEPT ![slot] = rem]
        /\ UNCHANGED <<clientVars, slot, conn, rem, tcpVars, kills>>
    BY DEF ServerQp
  <1>2. PICK c \in Clients : conn = c
    BY <1>1 DEF HandshakeInv, ServerInv, HandshakeTypeOK
  <1>3. ClientInv(c) /\ InLine(c)' = InLine(c) /\ cpc' = cpc /\ cdest' = cdest
    BY <1>1 DEF HandshakeInv, InLine, clientVars, tcpVars
  <1>4. /\ rem = c /\ sdest \in [Slots -> Clients \cup {None}] /\ slot \in Slots
        /\ sdest[slot] = None
    BY <1>1, <1>2 DEF HandshakeInv, ServerInv, HandshakeTypeOK, Slots
  <1>5. sdest'[slot] = c /\ \A i \in Slots \ {slot} : sdest'[i] = sdest[i]
    BY <1>1, <1>4
  <1>6. cdest[c] = slot /\ cpc[c] \in {"qp", "up", "gone"} /\ ~InLine(c)
    BY <1>1, <1>2, <1>3 DEF ClientInv, InService, Queued
  <1>7. Fresh(c)' /\ Queued(c)' /\ TurnedAway(c)'
    BY <1>1, <1>2, <1>3, <1>6 DEF ClientInv, Fresh, Queued, TurnedAway, tcpVars
  <1>8. InService(c)'
    BY <1>1, <1>2, <1>3, <1>4, <1>6, NoneAssumption DEF InService
  <1>9. Settled(c)'
    BY <1>1, <1>2, <1>3, <1>5, <1>6 DEF ClientInv, Settled
  <1>10. Ahead(c)' /\ Spared(c)'
    BY <1>1, <1>2, <1>3, <1>6 DEF ClientInv, Ahead, Spared, tcpVars
  <1>11. ServerInv'
    BY <1>1, <1>2, <1>4, <1>5, NoneAssumption DEF HandshakeInv, ServerInv, tcpVars
  <1>12. NoSlotWasted'
    BY <1>1, <1>4, <1>5, NoneAssumption DEF HandshakeInv, NoSlotWasted, Passed
  <1>13. \A d \in Clients \ {c} : \A i \in Slots : (sdest'[i] = d) <=> (sdest[i] = d)
    BY <1>4, <1>5, NoneAssumption
  <1>14. ClientInv(c)'
    BY <1>7, <1>8, <1>9, <1>10 DEF ClientInv
  <1> QED
    BY <1>1, <1>2, <1>11, <1>12, <1>13, <1>14, WithClient DEF tcpVars

LEMMA InvOut ==
  ASSUME HandshakeTypeOK, HandshakeInv, ServerOut
  PROVE  HandshakeInv'
  <1>1. /\ spc = "out" /\ conn' = None /\ rem' = None
        /\ \/ slot < NumSlots - 1 /\ slot' = slot + 1 /\ spc' = "create"
           \/ ~(slot < NumSlots - 1) /\ slot' = slot /\ spc' = "loop"
        /\ UNCHANGED <<clientVars, sdest, tcpVars, kills>>
    BY DEF ServerOut
  <1>2. PICK c \in Clients : conn = c
    BY <1>1 DEF HandshakeInv, ServerInv, HandshakeTypeOK
  <1>3. ClientInv(c) /\ InLine(c)' = InLine(c) /\ cpc' = cpc /\ cdest' = cdest
    BY <1>1 DEF HandshakeInv, InLine, clientVars, tcpVars
  <1>4. /\ cpc[c] \in {"qp", "up", "gone"} /\ ~InLine(c)
        /\ rem = None => cpc[c] = "gone"
    BY <1>1, <1>2, <1>3 DEF ClientInv, InService, Queued
  <1>5. rem # None => sdest[slot] = c /\ cdest[c] = slot
    BY <1>1, <1>2, <1>3 DEF HandshakeInv, ServerInv, HandshakeTypeOK, ClientInv, Settled
  <1>6. slot \in Slots /\ slot \in Nat /\ NumSlots \in Nat
    BY HandshakeAssumption DEF HandshakeTypeOK, Slots
  <1>7. conn' # c
    BY <1>1, NoneAssumption
  <1>8. Fresh(c)' /\ Queued(c)' /\ TurnedAway(c)' /\ InService(c)'
    BY <1>1, <1>3, <1>4, <1>7 DEF ClientInv, Fresh, Queued, TurnedAway, InService, tcpVars
  <1>9. Settled(c)' /\ Spared(c)'
    BY <1>1, <1>3, <1>4, <1>7 DEF ClientInv, Settled, Spared
  <1>10. Ahead(c)'
    BY <1>1, <1>2, <1>3, <1>4, <1>5, <1>6 DEF ClientInv, Ahead, tcpVars
  <1>11. ServerInv'
    BY <1>1, <1>6 DEF HandshakeInv, ServerInv, HandshakeTypeOK, Slots, tcpVars
  <1>12. NoSlotWasted'
    <2>1. kills = 0 => sdest[slot] # None
      BY <1>2, <1>3, <1>4, <1>5, NoneAssumption DEF ClientInv, Spared
    <2>2. \A i \in Slots : Passed(i)' => Passed(i) \/ i = slot
      BY <1>1, <1>6 DEF Passed, Slots
    <2> QED
      BY <1>1, <2>1, <2>2 DEF HandshakeInv, NoSlotWasted
  <1>13. ClientInv(c)'
    BY <1>8, <1>9, <1>10 DEF ClientInv
  <1> QED
    BY <1>1, <1>2, <1>11, <1>12, <1>13, WithClient DEF tcpVars

-----------------------------------------------------------------------------
(* The theorems.                                                           *)

LEMMA InvStep ==
  ASSUME HandshakeTypeOK, HandshakeInv, [HandshakeNext]_handshakeVars
  PROVE  HandshakeTypeOK' /\ HandshakeInv'
  <1>1. CASE UNCHANGED handshakeVars
    BY <1>1 DEF handshakeVars, clientVars, serverVars, tcpVars, HandshakeTypeOK, HandshakeInv, ServerInv,
         QueueInv, ClientInv, Fresh, Queued, TurnedAway, InService, Settled, Ahead, Spared,
         Early, Confirming, InLine, NoSlotWasted, Passed
  <1>2. CASE Server
    <2>1. HandshakeTypeOK'
      BY <1>2, TypeServer DEF HandshakeInv
    <2>2. HandshakeInv'
      BY <1>2, InvCreateListen, InvAccept, InvAddress, InvReply, InvServerDone,
         InvServerQp, InvOut DEF Server
    <2> QED
      BY <2>1, <2>2
  <1>3. ASSUME NEW c \in Clients, Client(c) \/ Start(c) \/ KillClient(c)
        PROVE  HandshakeTypeOK' /\ HandshakeInv'
    <2>1. HandshakeTypeOK'
      BY <1>3, TypeClient
    <2>2. HandshakeInv'
      BY <1>3, InvStartCreate, InvConnect, InvWrite, InvRead, InvDone, InvClientQp, InvGone
      DEF Client
    <2> QED
      BY <2>1, <2>2
  <1> QED
    BY <1>1, <1>2, <1>3 DEF HandshakeNext

LEMMA Invariant == HandshakeSpec => [](HandshakeTypeOK /\ HandshakeInv)
  <1>1. HandshakeInit => HandshakeTypeOK /\ HandshakeInv
    BY HandshakeTypeInit, InvInit
  <1>2. HandshakeTypeOK /\ HandshakeInv /\ [HandshakeNext]_handshakeVars => (HandshakeTypeOK /\ HandshakeInv)'
    BY InvStep
  <1> QED
    BY <1>1, <1>2, PTL DEF HandshakeSpec

(* Every variable keeps its type: the server reads and answers only on a    *)
(* connection it has accepted (pingpong.c:373-438).                         *)
THEOREM HandshakeTypeCorrect == HandshakeSpec => []HandshakeTypeOK
  BY Invariant, PTL

(* A queue pair of the server reaches RTS only for a client that had read   *)
(* its address, and for no client twice (pingpong.c:422-430).               *)
THEOREM Agreed == HandshakeSpec => []AgreedBeforeReady
  <1>1. HandshakeTypeOK /\ HandshakeInv => AgreedBeforeReady
    BY DEF HandshakeTypeOK, HandshakeInv, ClientInv, Settled, AgreedBeforeReady
  <1> QED
    BY <1>1, Invariant, PTL

(* A client in RTS sends to a queue pair that is in RTS for it, or the      *)
(* server is on the way there (pingpong.c:51-54, 309, 430).                 *)
THEOREM Ready == HandshakeSpec => []ReadyOrComing
  <1>1. ASSUME HandshakeTypeOK, HandshakeInv, NEW c \in Clients, cpc[c] = "up"
        PROVE  \/ sdest[cdest[c]] = c
               \/ /\ slot = cdest[c] /\ conn = c
                  /\ \/ spc = "qp" /\ rem = c
                     \/ spc = "done" /\ toServer[c] = <<"done">>
    <2>1. ClientInv(c) /\ ServerInv
      BY <1>1 DEF HandshakeInv
    <2>2. CASE conn = c /\ spc = "done"
      BY <1>1, <2>1, <2>2 DEF ClientInv, InService, Confirming
    <2>3. CASE conn = c /\ spc = "qp"
      BY <1>1, <2>1, <2>3 DEF ClientInv, InService, ServerInv
    <2>4. CASE conn = c /\ spc = "out"
      <3>1. rem = c /\ slot \in Slots
        BY <1>1, <2>1, <2>4 DEF ClientInv, InService, HandshakeTypeOK
      <3>2. sdest[slot] = c
        BY <1>1, <2>1, <2>4, <3>1, NoneAssumption DEF ServerInv
      <3> QED
        BY <2>1, <3>1, <3>2 DEF ClientInv, Settled
    <2> QED
      BY <1>1, <2>1, <2>2, <2>3, <2>4 DEF ClientInv, Ahead
  <1>2. HandshakeTypeOK /\ HandshakeInv => ReadyOrComing
    BY <1>1 DEF ReadyOrComing
  <1> QED
    BY <1>2, Invariant, PTL

(* Without a kill, every slot the server has passed has its client: those   *)
(* turned away at the listening socket cost none (pingpong.c:377-384).      *)
THEOREM NoSlotLost == HandshakeSpec => []NoSlotWasted
  <1>1. HandshakeInv => NoSlotWasted
    BY DEF HandshakeInv
  <1> QED
    BY <1>1, Invariant, PTL
=============================================================================
