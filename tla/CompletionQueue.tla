-------------------------- MODULE CompletionQueue --------------------------
(***************************************************************************)
(* A completion queue of libmlx4 with the queue pairs and the shared       *)
(* receive queue that use it (cq.c, and verbs.c for destroying, creating   *)
(* and resizing).  The adapter writes completions into a ring; an owner    *)
(* bit that flips on every pass tells software which entries are new.      *)
(* Polling, sweeping out the completions of a queue pair that is destroyed *)
(* and moving to a ring of another size all hold the queue's lock, and the *)
(* adapter goes on writing meanwhile.                                      *)
(***************************************************************************)
EXTENDS SendQueue, SharedReceiveQueue, Sequences

CONSTANTS
  CqSizes,     \* ring sizes (ibv_cq.cqe + 1), powers of two
  FirstSize,   \* the size at creation
  CqMod,       \* where cons_index wraps, a multiple of twice every size
  CqStart,     \* the indices at first: a ring that was used and drained
  MaxPosts, MaxDestroys, MaxResizes, MaxErrors,   \* bounds of a run
  None

ASSUME CompletionQueueAssumption ==
  /\ IsFiniteSet(QPs)
  /\ CqMod \in Nat \ {0} /\ CqStart \in 0..CqMod-1
  /\ CqSizes \subseteq Nat /\ FirstSize \in CqSizes
  /\ \A s \in CqSizes : s > 1 /\ CqMod % (2 * s) = 0
  /\ SrqSize <= WqeMod /\ RecvMod <= IndexMod   \* a completion can name any of them

VARIABLES
  ring,        \* buffer the adapter writes: an owner bit and a completion
  size,        \* its size
  cons, prod,  \* cq->cons_index, and the adapter's producer index
  ci,          \* *cq->set_ci_db, the consumer index the adapter knows
  lock,        \* cq->lock: None, "poll", "clean", "resize"
  taken,       \* poll: completion taken, its request not looked up
  seen,        \* poll: requests this call reports as done
  sweep,       \* clean: queue pair, entries left to look at, entries freed
  target,      \* resize: the size asked for
  oldRing,     \* resize: ring software still reads, and its size
  table,       \* queue pairs in the context's table
  state,       \* queue pair in the adapter: "ready", "error", "reset"
  due,         \* requests whose completions the application waits for
  reported,    \* what the last ibv_poll_cq entry said
  posts, destroys, resizes, errors

cqVars == <<ring, size, cons, prod, ci>>
pollVars == <<taken, seen, reported>>
qpVars == <<table, state>>
jobVars == <<sweep, target, oldRing>>
budget == <<posts, destroys, resizes, errors>>
vars == <<sqVars, srqVars, cqVars, pollVars, qpVars, lock, jobVars, due, budget>>

Completions ==      \* id: the request the adapter really completed
  [qp : QPs, send : BOOLEAN, wqe : 0..WqeMod-1, id : 0..IndexMod-1]
ResizeMark == [qp |-> None]
Cell == [owner : {0, 1}, cqe : Completions \cup {None, ResizeMark}]
OldRing == [size : CqSizes, ring : UNION {[0..s-1 -> Cell] : s \in CqSizes}]

ASSUME NoneAssumption ==
  None \notin QPs \cup CqSizes \cup Completions \cup OldRing \cup {"poll", "clean", "resize"}

Bit(n, s) == (n \div s) % 2          \* n & (cqe + 1)
CqIndex(n) == n % CqMod
Span == (prod - cons) % CqMod        \* entries produced and not consumed

(* get_sw_cqe: entry n belongs to software.                                *)
Valid(r, n, s) == r[n % s].owner = Bit(n, s)

(* A ring whose first entry is n: the firmware clears every owner bit.     *)
EmptyRing(n, s) ==
  [c \in 0..s-1 |->
     [owner |-> 1 - Bit(CqIndex(n + ((c - n) % s)), s), cqe |-> None]]

Init ==
  /\ SqInit /\ SrqInit
  /\ size = FirstSize /\ ring = EmptyRing(CqStart, FirstSize)
  /\ cons = CqStart /\ prod = CqStart /\ ci = CqStart
  /\ lock = None /\ taken = None /\ seen = 0
  /\ sweep = None /\ target = None /\ oldRing = None
  /\ table = QPs /\ state = [q \in QPs |-> "ready"]
  /\ due = 0 /\ reported = None
  /\ posts = 0 /\ destroys = 0 /\ resizes = 0 /\ errors = 0

-----------------------------------------------------------------------------
(* Posting.  The application keeps fewer requests outstanding than         *)
(* ibv_cq.cqe, by its own count: a request is over when the ibv_poll_cq    *)
(* call that reports it, or a later one of its queue, returns.             *)
Capacity == IF target = None \/ target > size THEN size ELSE target
Room == due < Capacity - 1 /\ posts < MaxPosts
CountPost == due' = due + 1 /\ posts' = posts + 1 /\ UNCHANGED <<destroys, resizes, errors>>

PostSend(q, sig) ==
  /\ Room /\ q \in table /\ state[q] # "reset"
  /\ WriteWqe(q, sig) /\ CountPost
  /\ UNCHANGED <<srqVars, cqVars, pollVars, qpVars, lock, jobVars>>

EndPost(q) ==
  /\ q \in table /\ RingDoorbell(q)
  /\ UNCHANGED <<srqVars, cqVars, pollVars, qpVars, lock, jobVars, due, budget>>

PostRecv ==
  /\ Room /\ PostSrqRecv /\ CountPost
  /\ UNCHANGED <<sqVars, cqVars, pollVars, qpVars, lock, jobVars>>

-----------------------------------------------------------------------------
(* The adapter.                                                            *)
Produce(c) ==
  /\ ring' = [ring EXCEPT ![prod % size] = [owner |-> Bit(prod, size), cqe |-> c]]
  /\ prod' = CqIndex(prod + 1)
  /\ UNCHANGED <<size, cons, ci>>

(* A send entry is executed; an unsignaled one completes silently, unless  *)
(* the queue pair is in the error state and everything is flushed.         *)
ExecuteSend(q) ==
  /\ state[q] # "reset"
  /\ Execute(q)
  /\ IF NextEntry(q).signaled \/ state[q] = "error"
     THEN Produce([qp |-> q, send |-> TRUE, wqe |-> hwSq[q] % WqeMod, id |-> hwSq[q]])
     ELSE UNCHANGED cqVars
  /\ UNCHANGED <<srqVars, pollVars, qpVars, lock, jobVars, due, budget>>

(* A message for q arrives and takes an entry of the shared queue.         *)
Receive(q) ==
  /\ state[q] = "ready" /\ TakeSrqWqe
  /\ Produce([qp |-> q, send |-> FALSE, wqe |-> hwSrq, id |-> hwTaken])
  /\ UNCHANGED <<sqVars, pollVars, qpVars, lock, jobVars, due, budget>>

(* A transport error.                                                      *)
Break(q) ==
  /\ state[q] = "ready" /\ errors < MaxErrors
  /\ state' = [state EXCEPT ![q] = "error"] /\ errors' = errors + 1
  /\ UNCHANGED <<sqVars, srqVars, cqVars, pollVars, table, lock, jobVars, due,
                 posts, destroys, resizes>>

-----------------------------------------------------------------------------
(* ibv_poll_cq: __mlx4_poll_cq calls __mlx4_poll_one until it has enough   *)
(* or the ring is empty, then publishes cons_index.  TakeCqe is the first  *)
(* half of __mlx4_poll_one, up to the send queue's tail.                   *)
TakeCqe ==
  LET c == ring[cons % size].cqe
  IN /\ lock \in {None, "poll"} /\ taken = None
     /\ Valid(ring, cons, size)
     /\ lock' = "poll"
     /\ cons' = CqIndex(cons + 1)
     /\ IF c.qp \notin table                  \* CQ_POLL_ERR
        THEN UNCHANGED <<sqVars, taken, seen>>
        ELSE /\ taken' = c
             /\ IF c.send
                THEN /\ SkipTo(c.qp, c.wqe)
                     /\ seen' = seen + Dist(sqTail[c.qp], sqTail'[c.qp])
                     /\ UNCHANGED <<sqHead, nreq, wqe, wrid, hwSq>>
                ELSE UNCHANGED <<sqVars, seen>>
     /\ UNCHANGED <<srqVars, ring, size, prod, ci, qpVars, jobVars, reported, due, budget>>

(* The second half: the request number is read, then the entry released.   *)
ReportSend ==
  /\ taken # None /\ taken.send
  /\ reported' = [taken EXCEPT !.id = RequestAtTail(taken.qp)]
  /\ AdvanceTail(taken.qp)
  /\ taken' = None /\ seen' = seen + 1
  /\ UNCHANGED <<sqHead, nreq, wqe, wrid, hwSq, srqVars, cqVars, qpVars, lock, jobVars, due, budget>>

ReportRecv ==
  /\ taken # None /\ ~taken.send
  /\ reported' = [taken EXCEPT !.id = srqWrid[taken.wqe]]
  /\ FreeSrqWqe(taken.wqe)
  /\ taken' = None /\ seen' = seen + 1
  /\ UNCHANGED <<sqVars, cqVars, qpVars, lock, jobVars, due, budget>>

(* Faulty variant of EndPoll: what was polled is counted again next time.  *)
EndPollKeepingCount ==
  /\ lock = "poll" /\ taken = None
  /\ ci' = cons /\ lock' = None
  /\ due' = due - seen
  /\ UNCHANGED <<sqVars, srqVars, ring, size, cons, prod, pollVars, qpVars, jobVars, budget>>

(* mlx4_update_cons_index and the return to the application.               *)
EndPoll ==
  /\ lock = "poll" /\ taken = None
  /\ ci' = cons /\ lock' = None
  /\ due' = due - seen /\ seen' = 0
  /\ UNCHANGED <<sqVars, srqVars, ring, size, cons, prod, taken, reported, qpVars, jobVars, budget>>

-----------------------------------------------------------------------------
(* mlx4_destroy_qp: the kernel resets the queue pair, which ends its       *)
(* completions; then the ring is cleaned and the table entry dropped.  The *)
(* application is done posting to q, and stops waiting for its sends.      *)
DestroyQp(q) ==
  /\ q \in table /\ state[q] # "reset" /\ nreq[q] = 0 /\ destroys < MaxDestroys
  /\ state' = [state EXCEPT ![q] = "reset"] /\ destroys' = destroys + 1
  /\ UNCHANGED <<sqVars, srqVars, cqVars, pollVars, table, lock, jobVars, due,
                 posts, resizes, errors>>

(* __mlx4_cq_clean's first loop: the first entry software does not own.    *)
(* The loop stops at the last entry without looking behind it.             *)
FirstInvalid ==
  CHOOSE n \in 0..size-1 :
    /\ n = size - 1 \/ ~Valid(ring, CqIndex(cons + n), size)
    /\ \A m \in 0..n-1 : Valid(ring, CqIndex(cons + m), size)

CleanScan(q) ==
  /\ q \in table /\ state[q] = "reset" /\ lock = None
  /\ lock' = "clean"
  /\ sweep' = [qp |-> q, left |-> FirstInvalid, freed |-> 0]
  /\ UNCHANGED <<sqVars, srqVars, cqVars, pollVars, qpVars, target, oldRing, due, budget>>

(* The second loop, backwards, one entry at a time: entries of q are       *)
(* dropped (a receive frees its shared entry), the others move up over the *)
(* dropped ones and keep the owner bit of the place they move to.          *)
Dest(k) == CqIndex(cons + k + sweep.freed) % size
(* Faulty variant of MoveUp: the owner bit moves along.                    *)
MoveUpWhole(k, c) == ring' = [ring EXCEPT ![Dest(k)] = ring[CqIndex(cons + k) % size]]

MoveUp(k, c) == ring' = [ring EXCEPT ![Dest(k)].cqe = c]

SweepEntry ==
  /\ lock = "clean" /\ sweep.left > 0
  /\ LET k == sweep.left - 1
         c == ring[CqIndex(cons + k) % size].cqe
     IN IF c.qp = sweep.qp
        THEN /\ sweep' = [sweep EXCEPT !.left = k, !.freed = @ + 1]
             /\ IF c.send THEN UNCHANGED srqVars ELSE FreeSrqWqe(c.wqe)
             /\ UNCHANGED ring
        ELSE /\ sweep' = [sweep EXCEPT !.left = k]
             /\ IF sweep.freed > 0 THEN MoveUp(k, c) ELSE UNCHANGED ring
             /\ UNCHANGED srqVars
  /\ UNCHANGED <<sqVars, size, cons, prod, ci, pollVars, qpVars, lock, target, oldRing, due, budget>>

(* Faulty variant of CleanEnd: the doorbell record is not updated.         *)
CleanEndQuietly ==
  /\ lock = "clean" /\ sweep.left = 0
  /\ cons' = CqIndex(cons + sweep.freed) /\ ci' = ci
  /\ table' = table \ {sweep.qp}
  /\ lock' = None /\ sweep' = None
  /\ due' = due - Dist(sqTail[sweep.qp], sqHead[sweep.qp])
  /\ UNCHANGED <<sqVars, srqVars, ring, size, prod, pollVars, state, target, oldRing, budget>>

(* The consumer index jumps over what was dropped, and mlx4_clear_qp.      *)
CleanEnd ==
  /\ lock = "clean" /\ sweep.left = 0
  /\ cons' = CqIndex(cons + sweep.freed)
  /\ ci' = IF sweep.freed > 0 THEN cons' ELSE ci
  /\ table' = table \ {sweep.qp}
  /\ lock' = None /\ sweep' = None
  /\ due' = due - Dist(sqTail[sweep.qp], sqHead[sweep.qp])
  /\ UNCHANGED <<sqVars, srqVars, ring, size, prod, pollVars, state, target, oldRing, budget>>

(* A new queue pair, which may get the number of the old one.              *)
CreateQp(q) ==
  /\ q \notin table
  /\ InitIndices(q)
  /\ table' = table \cup {q} /\ state' = [state EXCEPT ![q] = "ready"]
  /\ UNCHANGED <<srqVars, cqVars, pollVars, lock, jobVars, due, budget>>

-----------------------------------------------------------------------------
(* mlx4_resize_cq.  A size the ring has already, or one that could not     *)
(* hold what software finds in the ring, changes nothing and is no error.  *)
(* The application asks for no less than it has outstanding.               *)
ResizeCq(s) ==
  /\ lock = None /\ resizes < MaxResizes
  /\ due < s /\ s # size /\ s >= FirstInvalid + 1
  /\ lock' = "resize" /\ target' = s /\ resizes' = resizes + 1
  /\ UNCHANGED <<sqVars, srqVars, cqVars, pollVars, qpVars, sweep, oldRing, due,
                 posts, destroys, errors>>

(* The command: the adapter marks the old ring and continues in the new    *)
(* one at the next index.                                                  *)
ResizeCommand ==
  /\ lock = "resize" /\ oldRing = None
  /\ oldRing' = [size |-> size,
                 ring |-> [ring EXCEPT ![prod % size] =
                             [owner |-> Bit(prod, size), cqe |-> ResizeMark]]]
  /\ size' = target /\ prod' = CqIndex(prod + 1)
  /\ ring' = EmptyRing(prod', target)
  /\ UNCHANGED <<sqVars, srqVars, cons, ci, pollVars, qpVars, lock, sweep, target, due, budget>>

(* mlx4_cq_resize_copy_cqes: entry i of the old ring up to the mark goes   *)
(* to i + 1 of the new one, with that place's owner bit.                   *)
OldCqe(k) == oldRing.ring[CqIndex(cons + k) % oldRing.size].cqe
Outstanding == CHOOSE n \in 0..oldRing.size : OldCqe(n) = ResizeMark
                  /\ \A m \in 0..n-1 : OldCqe(m) # ResizeMark
CopyCqes(n) ==
  [c \in 0..size-1 |->
     LET K == {k \in 0..n-1 : CqIndex(cons + k + 1) % size = c}
     IN IF K = {} THEN ring[c]
        ELSE LET k == CHOOSE k \in K : \A m \in K : m <= k
             IN [owner |-> Bit(CqIndex(cons + k + 1), size), cqe |-> OldCqe(k)]]

ResizeCopy ==
  /\ lock = "resize" /\ oldRing # None
  /\ ring' = CopyCqes(Outstanding)
  /\ cons' = CqIndex(cons + 1) /\ ci' = cons'
  /\ lock' = None /\ target' = None /\ oldRing' = None
  /\ UNCHANGED <<sqVars, srqVars, size, prod, pollVars, qpVars, sweep, due, budget>>

-----------------------------------------------------------------------------
Next ==
  \/ \E q \in QPs :
       \/ \E sig \in BOOLEAN : PostSend(q, sig)
       \/ EndPost(q)
       \/ ExecuteSend(q) \/ Receive(q) \/ Break(q)
       \/ DestroyQp(q) \/ CleanScan(q) \/ CreateQp(q)
  \/ PostRecv
  \/ TakeCqe \/ ReportSend \/ ReportRecv \/ EndPoll
  \/ SweepEntry \/ CleanEnd
  \/ \E s \in CqSizes : ResizeCq(s)
  \/ ResizeCommand \/ ResizeCopy

Spec == Init /\ [][Next]_vars

-----------------------------------------------------------------------------
(* What has its type (cq.c, qp.c, srq.c, verbs.c: the fields above).       *)
TypeOK ==
  /\ size \in CqSizes /\ ring \in [0..size-1 -> Cell]
  /\ cons \in 0..CqMod-1 /\ prod \in 0..CqMod-1 /\ ci \in 0..CqMod-1
  /\ lock \in {None, "poll", "clean", "resize"}
  /\ taken \in Completions \cup {None} /\ reported \in Completions \cup {None}
  /\ seen \in Nat /\ due \in Nat
  /\ table \subseteq QPs /\ state \in [QPs -> {"ready", "error", "reset"}]
  /\ sqHead \in [QPs -> Index] /\ sqTail \in [QPs -> Index] /\ hwSq \in [QPs -> Index]
  /\ wqe \in [QPs -> [Slot -> Entry]]

(* While no call rearranges the ring, software finds exactly the entries   *)
(* the adapter produced: an owner bit left over from an earlier pass, kept *)
(* from the entry that moved (__mlx4_cq_clean), or computed for the wrong  *)
(* size (the resize copy) would show too many or too few.                  *)
OwnerBitsTell ==
  lock \in {None, "poll"} =>
    \A k \in 0..size-1 : Valid(ring, CqIndex(cons + k), size) <=> k < Span

(* The adapter never finds the ring full: by the consumer index it was     *)
(* given, it writes only over entries that were consumed.                  *)
NoOverrun == (prod - ci) % CqMod <= size

(* The entries of the shared queue that completions in the ring, or the    *)
(* one being polled, still name.                                           *)
Live ==
  IF lock = "clean"
  THEN {k \in 0..Span-1 : k < sweep.left \/ k >= sweep.left + sweep.freed}
  ELSE 0..Span-1
InRing(k) ==
  IF oldRing # None /\ k <= Outstanding
  THEN OldCqe(k) ELSE ring[CqIndex(cons + k) % size].cqe
Unpolled ==
  LET w == [k \in Live |-> InRing(k)]
  IN {c \in {w[k] : k \in Live} \cup {taken} : c # None /\ c # ResizeMark}

(* Every entry of the shared receive queue is in one place, whatever polls *)
(* and sweeps free and in whatever order (mlx4_free_srq_wqe, from          *)
(* __mlx4_poll_one and __mlx4_cq_clean).                                   *)
SharedEntriesAccounted ==
  EntriesAccounted({c.wqe : c \in {d \in Unpolled : ~d.send}})

(* The entries of the send queues keep what was posted until the adapter   *)
(* executed it, with the stamps of __mlx4_post_send ahead of the head and  *)
(* a tail that polling moves concurrently (wq_overflow).                   *)
SendEntriesIntact == EntriesIntact

(* ibv_poll_cq as CompletionService promises it.                           *)
Sequence(K) ==
  LET live == SelectSeq([i \in 1..Span |-> i - 1], LAMBDA k : k \in K)
  IN [i \in 1..Len(live) |-> InRing(live[i])]
ServiceQueue ==
  LET inRing == SelectSeq(Sequence(Live), LAMBDA c : c # ResizeMark)
      swept(k) == lock = "clean" /\ k < sweep.left /\ InRing(k).qp = sweep.qp
      kept == Sequence({k \in Live : ~swept(k)})
  IN IF taken # None THEN <<taken>> \o inRing
     ELSE SelectSeq(kept, LAMBDA c : c # ResizeMark)

QpOf(c) == c.qp
Service == INSTANCE CompletionService WITH
  Owner <- QpOf, Owners <- QPs, queue <- ServiceQueue

(* Every completion is reported once, in order and with the number of the  *)
(* request it is for; those of a queue pair that is destroyed disappear    *)
(* together, and nobody else's; a resize loses and repeats none.           *)
PollsInOrder == Service!Spec
=============================================================================
