------------------------- MODULE CompletionService -------------------------
(***************************************************************************)
(* What ibv_poll_cq promises: the completions of the queue pairs that use  *)
(* a completion queue are reported once each, in the order the adapter     *)
(* produced them, and those of a queue pair that is destroyed are not      *)
(* reported any more.  CompletionQueue shows how libmlx4 keeps the promise.*)
(***************************************************************************)
EXTENDS Naturals, Sequences, SequencesExt

CONSTANTS
  Completions,   \* what a completion tells: queue pair, direction, request
  Owner(_),      \* the queue pair of a completion
  Owners,        \* the queue pairs
  None           \* nothing was reported yet

VARIABLES
  queue,         \* produced and not reported
  reported       \* the completion reported last

Init == queue = <<>> /\ reported = None

Produce ==
  /\ Len(queue') = Len(queue) + 1
  /\ Front(queue') = queue /\ Last(queue') \in Completions
  /\ UNCHANGED reported

Report ==
  /\ queue # <<>>
  /\ reported' = Head(queue)
  /\ queue' = Tail(queue)

Purge(q) ==
  /\ queue' = SelectSeq(queue, LAMBDA c : Owner(c) # q)
  /\ UNCHANGED reported

Next == Produce \/ Report \/ \E q \in Owners : Purge(q)

Spec == Init /\ [][Next]_<<queue, reported>>
=============================================================================
