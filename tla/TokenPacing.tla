----------------------------- MODULE TokenPacing -----------------------------
(***************************************************************************)
(* TokenPacer with the account that tells whether the chunks released were *)
(* paid for.  generate_fetch_tokens waits, before it makes a token, for    *)
(* "number of cycles needed to send 1 split chunk at current virtual link  *)
(* rate" (rdma_pacer/pacer.c:610), so a token is worth the chunk size that *)
(* the wait was computed from.  A WR longer than the worth of its token    *)
(* goes out faster than the virtual link; the excess is paid back by the   *)
(* tokens that follow, and worth that is not used is lost, as in a token   *)
(* bucket.                                                                 *)
(***************************************************************************)
EXTENDS TokenPacer

CONSTANT OverdraftCap    \* the account is not followed beyond this

VARIABLES
  price,      \* chunk_size the wait for the last token was computed from
  paid,       \* price of the token the flow was last granted
  overdraft   \* bytes released and not paid for by the tokens so far

pacingVars == <<price, paid, overdraft>>

PacingInit ==
  /\ Init
  /\ price = DefaultChunk
  /\ paid = [f \in Flow |-> 0]
  /\ overdraft = 0

Least(a, b) == IF a < b THEN a ELSE b

Charge(t) ==
  LET size == Head(Head(work[t]))
      worth == paid[FlowOf[t]]
  IN  IF overdraft + size > worth
        THEN Least(overdraft + size - worth, OverdraftCap) ELSE 0

PacingNext ==
  \/ Refill /\ price' = chunk /\ UNCHANGED <<paid, overdraft>>
  \/ Grant /\ paid' = [paid EXCEPT ![scanIdx] = price]
           /\ UNCHANGED <<price, overdraft>>
  \/ \E t \in Threads :
       /\ PostWR(t, TRUE)
       /\ overdraft' = Charge(t)
       /\ paid' = [paid EXCEPT ![FlowOf[t]] = 0]
       /\ UNCHANGED price
  \/ /\ LoadCap \/ ScanRead \/ ScanPending \/ Monitor
        \/ \E t \in Threads : (\E call \in Calls : PostSend(t, call))
                              \/ RequestWR(t)
     /\ UNCHANGED pacingVars

PacingSpec == PacingInit /\ [][PacingNext]_<<vars, pacingVars>>

(* What the comment on the wait promises: bandwidth flows stay within the   *)
(* virtual link rate.  One chunk of the old size may still go out on a     *)
(* token of the new price when the chunk size has just changed.            *)
PacedAtLinkRate == overdraft <= DefaultChunk
=============================================================================
