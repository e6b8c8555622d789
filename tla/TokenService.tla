---------------------------- MODULE TokenService ----------------------------
(***************************************************************************)
(* What the pacer promises to the applications, without scans, flags or    *)
(* tokens: a flow that asks for permission gets exactly one permission per *)
(* request, one flow at a time, and every flow that keeps asking is        *)
(* eventually given its permission.  The state is what generate_fetch_     *)
(* tokens and __mlx5_post_send hand over through flows[].pending.          *)
(***************************************************************************)
EXTENDS Naturals

CONSTANTS
  Flow,      \* the flow slots
  Promised   \* the slots whose requests have to be answered

VARIABLES
  asking,    \* flows with a request nobody has answered yet
  allowed    \* flows that were given a permission and have not used it

vars == <<asking, allowed>>

TypeOK == asking \subseteq Flow /\ allowed \subseteq Flow

Init == asking = {} /\ allowed = {}

Ask(f) ==
  /\ f \notin asking \cup allowed
  /\ asking' = asking \cup {f}
  /\ UNCHANGED allowed

Allow(f) ==
  /\ f \in asking
  /\ asking' = asking \ {f}
  /\ allowed' = allowed \cup {f}

Use(f) ==
  /\ f \in allowed
  /\ allowed' = allowed \ {f}
  /\ UNCHANGED asking

(* A process that goes down takes its request back.                         *)
Withdraw(f) ==
  /\ f \in asking
  /\ asking' = asking \ {f}
  /\ UNCHANGED allowed

Next == \E f \in Flow : Ask(f) \/ Allow(f) \/ Use(f) \/ Withdraw(f)

SafeSpec == Init /\ [][Next]_vars

Spec == SafeSpec /\ \A f \in Promised : WF_vars(Allow(f))
=============================================================================
