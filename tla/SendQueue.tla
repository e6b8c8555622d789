----------------------------- MODULE SendQueue -----------------------------
(***************************************************************************)
(* The send queues of libmlx4 (qp.c): a ring of wqe_cnt work queue entries *)
(* beside an array of request numbers, three counters in software and the  *)
(* adapter's own position.  A posting thread writes entries past the head, *)
(* then rings the doorbell; the head moves only then.  Posting also stamps *)
(* the entry sq_spare_wqes further on as invalid, so that the adapter does *)
(* not prefetch an old one: the overflow check keeps a distance so that    *)
(* the stamp never meets an entry in flight.                               *)
(***************************************************************************)
EXTENDS Integers

CONSTANTS
  QPs,         \* queue pairs that share the completion queue
  SqSize,      \* qp->sq.wqe_cnt, a power of two
  SqSpare,     \* qp->sq_spare_wqes
  IndexMod,    \* 2^32, where head and tail wrap
  WqeMod,      \* 2^16, the width of a completion's wqe_index
  Start        \* counters' value at first: a queue that was used and drained

ASSUME SendQueueAssumption ==
  /\ SqSize \in Nat /\ SqSpare \in 1..SqSize-1
  /\ WqeMod \in Nat \ {0} /\ IndexMod \in Nat \ {0}
  /\ WqeMod % SqSize = 0 /\ IndexMod % WqeMod = 0
  /\ Start \in 0..IndexMod-1

VARIABLES
  sqHead, sqTail,  \* qp->sq.head and qp->sq.tail
  nreq,            \* entries written, the doorbell not rung
  wqe,             \* the buffer: what each entry holds
  wrid,            \* qp->sq.wrid
  hwSq             \* the adapter executed every entry before this one

sqVars == <<sqHead, sqTail, nreq, wqe, wrid, hwSq>>

SqMax == SqSize - SqSpare          \* qp->sq.max_post
Index == 0..IndexMod-1
Slot == 0..SqSize-1
Dist(a, b) == (b - a) % IndexMod   \* unsigned subtraction

Stamped == [id |-> -1, signaled |-> FALSE]
Entry == [id : Index, signaled : BOOLEAN] \cup {Stamped}

SqInit ==
  /\ sqHead = [q \in QPs |-> Start]
  /\ sqTail = [q \in QPs |-> Start]
  /\ nreq = [q \in QPs |-> 0]
  /\ wqe = [q \in QPs |-> [s \in Slot |-> Stamped]]
  /\ wrid = [q \in QPs |-> [s \in Slot |-> 0]]
  /\ hwSq = [q \in QPs |-> Start]

(* mlx4_init_qp_indices and mlx4_qp_init_sq_ownership, at RESET and INIT.  *)
InitIndices(q) ==
  /\ sqHead' = [sqHead EXCEPT ![q] = 0]
  /\ sqTail' = [sqTail EXCEPT ![q] = 0]
  /\ nreq' = [nreq EXCEPT ![q] = 0]
  /\ wqe' = [wqe EXCEPT ![q] = [s \in Slot |-> Stamped]]
  /\ hwSq' = [hwSq EXCEPT ![q] = 0]
  /\ UNCHANGED wrid

(* Faulty variant of WqOverflow: off by one.                               *)
WqOverflowLate(q) == Dist(sqTail[q], sqHead[q]) + nreq[q] > SqMax

(* wq_overflow and __wq_overflow.  The caller holds the send queue's lock; *)
(* the tail it reads belongs to whoever polls, under the completion        *)
(* queue's lock: it may be old, and then the queue only looks fuller.      *)
WqOverflow(q) == Dist(sqTail[q], sqHead[q]) + nreq[q] >= SqMax

Ahead(i) == (i + SqSpare) % SqSize          \* the slot a stamp goes to
StampAfter(q, i) == [wqe EXCEPT ![q][Ahead(i)] = Stamped]

(* One turn of __mlx4_post_send's loop.  When the list goes on, the turn   *)
(* before has stamped the slot ahead of its own entry.                     *)
WriteWqe(q, sig) ==
  LET ind == (sqHead[q] + nreq[q]) % IndexMod
      buf == IF nreq[q] = 0 THEN wqe ELSE StampAfter(q, ind - 1)
  IN /\ ~WqOverflow(q)
     /\ wrid' = [wrid EXCEPT ![q][ind % SqSize] = ind]
     /\ wqe' = [buf EXCEPT ![q][ind % SqSize] = [id |-> ind, signaled |-> sig]]
     /\ nreq' = [nreq EXCEPT ![q] = @ + 1]
     /\ UNCHANGED <<sqHead, sqTail, hwSq>>

(* The end of the list, or a WR refused half way ("goto out").             *)
RingDoorbell(q) ==
  /\ nreq[q] > 0
  /\ sqHead' = [sqHead EXCEPT ![q] = (@ + nreq[q]) % IndexMod]
  /\ wqe' = StampAfter(q, sqHead[q] + nreq[q] - 1)
  /\ nreq' = [nreq EXCEPT ![q] = 0]
  /\ UNCHANGED <<sqTail, wrid, hwSq>>

(* The adapter executes what it finds in the next slot.                    *)
NextEntry(q) == wqe[q][hwSq[q] % SqSize]

Execute(q) ==
  /\ hwSq[q] # sqHead[q]
  /\ hwSq' = [hwSq EXCEPT ![q] = (@ + 1) % IndexMod]
  /\ UNCHANGED <<sqHead, sqTail, nreq, wqe, wrid>>

(* Faulty variant of SkipTo: every completion is for the oldest entry.     *)
SkipNothing(q, wqeIndex) == sqTail' = sqTail

(* __mlx4_poll_one: "wq->tail += (uint16_t)(wqe_index - (uint16_t)tail)"   *)
(* passes over entries that complete without a completion of their own.    *)
SkipTo(q, wqeIndex) ==
  sqTail' = [sqTail EXCEPT ![q] = (@ + ((wqeIndex - @) % WqeMod)) % IndexMod]

RequestAtTail(q) == wrid[q][sqTail[q] % SqSize]

AdvanceTail(q) == sqTail' = [sqTail EXCEPT ![q] = (@ + 1) % IndexMod]

(* Every entry the adapter has still to execute holds the request it was   *)
(* posted for: no later post and no stamp got there first.                 *)
EntriesIntact ==
  \A q \in QPs : \A k \in Index :
    k < Dist(hwSq[q], sqHead[q]) + nreq[q] =>
      LET n == (hwSq[q] + k) % IndexMod IN wqe[q][n % SqSize].id = n
=============================================================================
