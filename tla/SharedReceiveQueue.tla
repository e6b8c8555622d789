------------------------- MODULE SharedReceiveQueue -------------------------
(***************************************************************************)
(* The shared receive queue of libmlx4 (srq.c).  The entries are linked    *)
(* through next_wqe_index: posting takes the entry at the head of the free *)
(* list, a completion that was polled (or swept with its queue pair) puts  *)
(* its entry back at the tail.  The list is never empty, so the last free  *)
(* entry cannot be posted.  The adapter follows the same links from its    *)
(* own position and is told by the doorbell counter how far it may go.     *)
(***************************************************************************)
EXTENDS Integers, FiniteSets

CONSTANTS
  SrqSize,     \* srq->max, a power of two
  RecvMod      \* where the doorbell counter wraps, 2^16 in the adapter

ASSUME SharedReceiveQueueAssumption ==
  SrqSize \in Nat \ {0, 1} /\ RecvMod \in Nat /\ RecvMod >= SrqSize

VARIABLES
  srqNext,          \* next_wqe_index of each entry
  srqHead, srqTail, \* srq->head, srq->tail
  srqWrid,          \* srq->wrid
  srqCounter,       \* srq->counter, and the doorbell record
  hwSrq,            \* the adapter's position in the list
  hwTaken           \* entries the adapter took, modulo RecvMod

srqVars == <<srqNext, srqHead, srqTail, srqWrid, srqCounter, hwSrq, hwTaken>>

SrqIndex == 0..SrqSize-1

(* mlx4_alloc_srq_buf links every entry into the free list.                *)
SrqInit ==
  /\ srqNext = [i \in SrqIndex |-> (i + 1) % SrqSize]
  /\ srqHead = 0 /\ srqTail = SrqSize - 1
  /\ srqWrid = [i \in SrqIndex |-> 0]
  /\ srqCounter = 0
  /\ hwSrq = 0 /\ hwTaken = 0

(* mlx4_post_srq_recv, for one WR: a list is a run of these under the      *)
(* lock, with the doorbell at the end.  The requests are numbered.         *)
PostSrqRecv ==
  /\ srqHead # srqTail
  /\ srqWrid' = [srqWrid EXCEPT ![srqHead] = srqCounter]
  /\ srqHead' = srqNext[srqHead]
  /\ srqCounter' = (srqCounter + 1) % RecvMod
  /\ UNCHANGED <<srqNext, srqTail, hwSrq, hwTaken>>

Posted == (srqCounter - hwTaken) % RecvMod   \* what the adapter may still take

(* The adapter takes an entry for a message that arrived.                  *)
TakeSrqWqe ==
  /\ Posted > 0
  /\ hwSrq' = srqNext[hwSrq]
  /\ hwTaken' = (hwTaken + 1) % RecvMod
  /\ UNCHANGED <<srqNext, srqHead, srqTail, srqWrid, srqCounter>>

(* Faulty variant of FreeSrqWqe: the old tail is not linked to the entry.  *)
FreeSrqWqeUnlinked(i) ==
  /\ srqTail' = i
  /\ UNCHANGED <<srqNext, srqHead, srqWrid, srqCounter, hwSrq, hwTaken>>

(* mlx4_free_srq_wqe.                                                      *)
FreeSrqWqe(i) ==
  /\ srqNext' = [srqNext EXCEPT ![srqTail] = i]
  /\ srqTail' = i
  /\ UNCHANGED <<srqHead, srqWrid, srqCounter, hwSrq, hwTaken>>

(* The entry n links after i.                                              *)
Follow(i, n) ==
  LET f[k \in 0..SrqSize] == IF k = 0 THEN i ELSE srqNext[f[k - 1]] IN f[n]

PostedEntries == {Follow(hwSrq, k) : k \in 0..Posted-1}

(* The free list from head to tail; SrqSize links that miss the tail mean  *)
(* that the list is broken.                                                *)
FreeLength ==
  IF \E k \in 0..SrqSize-1 : Follow(srqHead, k) = srqTail
  THEN 1 + CHOOSE k \in 0..SrqSize-1 :
         /\ Follow(srqHead, k) = srqTail
         /\ \A m \in 0..k-1 : Follow(srqHead, m) # srqTail
  ELSE SrqSize
FreeEntries == {Follow(srqHead, k) : k \in 0..FreeLength-1}

(* Every entry is in one place: free, posted to the adapter, or named by a *)
(* completion nobody has polled (completed).                               *)
EntriesAccounted(completed) ==
  /\ Posted < SrqSize
  /\ Cardinality(PostedEntries) = Posted
  /\ Cardinality(FreeEntries) = FreeLength
  /\ PostedEntries \cap FreeEntries = {}
  /\ completed \cap (PostedEntries \cup FreeEntries) = {}
  /\ completed \cup PostedEntries \cup FreeEntries = SrqIndex
=============================================================================
