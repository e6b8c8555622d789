-------------------------- MODULE ReceiverUpdates --------------------------
(***************************************************************************)
(* How the pacers of the sending hosts and the pacer of their receiver     *)
(* keep each other informed (rdma_pacer).                                  *)
(*                                                                         *)
(* On a sending host two threads share one queue pair to the receiver: the *)
(* flow_handler sends an update for each application that starts or ends,  *)
(* and monitor_latency posts a small RDMA write (the reference flow) whose *)
(* completion time is the latency it steers by.  Both threads then poll    *)
(* the same send_cq for "their" completion.  On the receiver server_loop   *)
(* polls each sender's updates in turn, counts the applications and        *)
(* broadcasts the counts to every sender, one blocking SEND after the      *)
(* other.  Each end keeps a single receive request posted per queue pair,  *)
(* and a queue pair is an in-order channel whose head waits, for ever      *)
(* (rnr_retry = 7), until the other end has a receive request for it.      *)
(***************************************************************************)
EXTENDS Integers, Sequences, FiniteSets, Functions

CONSTANTS
  NumClients,   \* the pacers of sending hosts, num_clients
  Updates,      \* the update messages sent
  MaxUpdates,   \* bound: updates per host
  CountMod,     \* 2^16: the counters are uint16_t
  None          \* no message

Host == 0 .. NumClients - 1

AllUpdates == {"big_inc", "big_dec", "small_inc", "small_dec"}

ASSUME ClientsAssumption == NumClients \in Nat \ {0}
ASSUME UpdatesAssumption == Updates \subseteq AllUpdates
ASSUME NoneAssumption ==
  None \notin AllUpdates /\ None \notin [big : Nat, small : Nat, version : Nat]
ASSUME BoundAssumption == MaxUpdates \in Nat /\ CountMod \in Nat \ {0}

VARIABLES
  \* a sending host
  hpc,      \* flow_handler: "accept" the next process, or "wait" for its SEND
  mpc,      \* monitor_latency: "recv", "post", "wait"
  sq,       \* posted and not yet executed: updates and "ref" writes, in order
  scq,      \* completions in send_cq: "send" or "ref"
  rr,       \* a receive request is posted
  rbuf,     \* the INFO in recv_buf with its completion in recv_cq, or None
  view,     \* cb.num_receiver_big_flows[0] and num_receiver_small_flows[0]
  \* the receiver
  srr,      \* a receive request is posted for the host
  sbuf,     \* the update in the host's recv_buf, or None
  counts,   \* current_num_big_apps and current_num_small_apps
  spc,      \* server_loop: "poll" host i, or in the broadcast to host j:
            \* "send", "wire" (posted) and "sent" (completed)
  si,       \* its i
  sj,       \* its j
  \* history
  issued,   \* per host and kind, the updates handed to flow_handler
  version   \* how many updates the receiver has counted

hostVars == <<hpc, mpc, sq, scq, rr, rbuf, view>>
serverVars == <<srr, sbuf, counts, spc, si, sj>>
vars == <<hostVars, serverVars, issued, version>>

-----------------------------------------------------------------------------

Init ==
  /\ hpc = [h \in Host |-> "accept"]
  /\ mpc = [h \in Host |-> "recv"]
  /\ sq = [h \in Host |-> <<>>]
  /\ scq = [h \in Host |-> <<>>]
  /\ rr = [h \in Host |-> TRUE]
  /\ rbuf = [h \in Host |-> None]
  /\ view = [h \in Host |-> [big |-> 0, small |-> 0, version |-> 0]]
  /\ srr = [h \in Host |-> TRUE]
  /\ sbuf = [h \in Host |-> None]
  /\ counts = [big |-> 0, small |-> 0]
  /\ spc = "poll"
  /\ si = 0
  /\ sj = 0
  /\ issued = [h \in Host |-> [m \in AllUpdates |-> 0]]
  /\ version = 0

IssuedBy(h) == issued[h]["big_inc"] + issued[h]["big_dec"]
                 + issued[h]["small_inc"] + issued[h]["small_dec"]

-----------------------------------------------------------------------------
(* The flow_handler of a sending host.  A process has connected and told    *)
(* that it starts or ends; the message is copied into the WR (IBV_SEND_    *)
(* INLINE), so the shared send_buf may be written again.                   *)
SendUpdate(h, m) ==
  /\ hpc[h] = "accept"
  /\ IssuedBy(h) < MaxUpdates
  /\ issued' = [issued EXCEPT ![h][m] = @ + 1]
  /\ sq' = [sq EXCEPT ![h] = Append(@, m)]
  /\ hpc' = [hpc EXCEPT ![h] = "wait"]
  /\ UNCHANGED <<mpc, scq, rr, rbuf, view, serverVars, version>>

(* Faulty variant of HandlerReap: the poll drains the queue.                *)
HandlerReapAll(h) ==
  /\ hpc[h] = "wait"
  /\ scq[h] # <<>>
  /\ scq' = [scq EXCEPT ![h] = <<>>]
  /\ hpc' = [hpc EXCEPT ![h] = "accept"]
  /\ UNCHANGED <<mpc, sq, rr, rbuf, view, serverVars, issued, version>>

(* Its busy poll takes whatever completion comes first.                     *)
HandlerReap(h) ==
  /\ hpc[h] = "wait"
  /\ scq[h] # <<>>
  /\ scq' = [scq EXCEPT ![h] = Tail(@)]
  /\ hpc' = [hpc EXCEPT ![h] = "accept"]
  /\ UNCHANGED <<mpc, sq, rr, rbuf, view, serverVars, issued, version>>

(* The monitor: one look at recv_cq; an INFO is copied into the control     *)
(* block and the receive request posted again.                             *)
MonitorRecv(h) ==
  /\ mpc[h] = "recv"
  /\ mpc' = [mpc EXCEPT ![h] = "post"]
  /\ IF rbuf[h] = None
       THEN UNCHANGED <<view, rbuf, rr>>
       ELSE /\ view' = [view EXCEPT ![h] = rbuf[h]]
            /\ rbuf' = [rbuf EXCEPT ![h] = None]
            /\ rr' = [rr EXCEPT ![h] = TRUE]
  /\ UNCHANGED <<hpc, sq, scq, serverVars, issued, version>>

MonitorPost(h) ==
  /\ mpc[h] = "post"
  /\ sq' = [sq EXCEPT ![h] = Append(@, "ref")]
  /\ mpc' = [mpc EXCEPT ![h] = "wait"]
  /\ UNCHANGED <<hpc, scq, rr, rbuf, view, serverVars, issued, version>>

MonitorReap(h) ==
  /\ mpc[h] = "wait"
  /\ scq[h] # <<>>
  /\ scq' = [scq EXCEPT ![h] = Tail(@)]
  /\ mpc' = [mpc EXCEPT ![h] = "recv"]
  /\ UNCHANGED <<hpc, sq, rr, rbuf, view, serverVars, issued, version>>

-----------------------------------------------------------------------------
(* Faulty variant of Transmit: no flow control, an update overwrites the    *)
(* one before it.                                                          *)
TransmitOver(h) ==
  /\ sq[h] # <<>>
  /\ scq' = [scq EXCEPT ![h] = Append(@, "send")]
  /\ IF Head(sq[h]) = "ref" THEN UNCHANGED sbuf
                            ELSE sbuf' = [sbuf EXCEPT ![h] = Head(sq[h])]
  /\ sq' = [sq EXCEPT ![h] = Tail(@)]
  /\ UNCHANGED <<hpc, mpc, rr, rbuf, view, srr, counts, spc, si, sj, issued,
                 version>>

(* The sending host's side of the queue pair executes its oldest request:   *)
(* a write needs nothing from the other end, an update a receive request.  *)
Transmit(h) ==
  /\ sq[h] # <<>>
  /\ IF Head(sq[h]) = "ref"
       THEN /\ scq' = [scq EXCEPT ![h] = Append(@, "ref")]
            /\ UNCHANGED <<srr, sbuf>>
       ELSE /\ srr[h]
            /\ srr' = [srr EXCEPT ![h] = FALSE]
            /\ sbuf' = [sbuf EXCEPT ![h] = Head(sq[h])]
            /\ scq' = [scq EXCEPT ![h] = Append(@, "send")]
  /\ sq' = [sq EXCEPT ![h] = Tail(@)]
  /\ UNCHANGED <<hpc, mpc, rr, rbuf, view, counts, spc, si, sj, issued,
                 version>>

-----------------------------------------------------------------------------
(* The receiver's server_loop.                                             *)

(* Faulty variant of Following: the loop runs past the last client.         *)
FollowingOffTheEnd(i) == i + 1

Following(i) == (i + 1) % NumClients

(* uint16_t arithmetic: the decrement of a zero counter wraps.              *)
Counted(c, m) ==
  CASE m = "big_inc"   -> [c EXCEPT !.big = (@ + 1) % CountMod]
    [] m = "big_dec"   -> [c EXCEPT !.big = (@ - 1) % CountMod]
    [] m = "small_inc" -> [c EXCEPT !.small = (@ + 1) % CountMod]
    [] m = "small_dec" -> [c EXCEPT !.small = (@ - 1) % CountMod]

(* One look at the recv_cq of host si; an update is counted, the receive    *)
(* request posted again and the broadcast begun.                           *)
ServerPoll ==
  /\ spc = "poll"
  /\ IF sbuf[si] = None
       THEN /\ si' = Following(si)
            /\ UNCHANGED <<srr, sbuf, counts, spc, sj, version>>
       ELSE /\ counts' = Counted(counts, sbuf[si])
            /\ version' = version + 1
            /\ sbuf' = [sbuf EXCEPT ![si] = None]
            /\ srr' = [srr EXCEPT ![si] = TRUE]
            /\ spc' = "send"
            /\ sj' = 0
            /\ UNCHANGED si
  /\ UNCHANGED <<hostVars, issued>>

ServerSend ==
  /\ spc = "send"
  /\ spc' = "wire"
  /\ UNCHANGED <<hostVars, srr, sbuf, counts, si, sj, issued, version>>

(* Faulty variant of Deliver: an INFO without a receive request is lost.    *)
DeliverOrDrop ==
  /\ spc = "wire"
  /\ rr' = [rr EXCEPT ![sj] = FALSE]
  /\ rbuf' = IF rr[sj]
               THEN [rbuf EXCEPT ![sj] = [big |-> counts.big,
                                          small |-> counts.small,
                                          version |-> version]]
               ELSE rbuf
  /\ spc' = "sent"
  /\ UNCHANGED <<hpc, mpc, sq, scq, view, srr, sbuf, counts, si, sj, issued,
                 version>>

(* The INFO is delivered when the host has a receive request posted.        *)
Deliver ==
  /\ spc = "wire"
  /\ rr[sj]
  /\ rr' = [rr EXCEPT ![sj] = FALSE]
  /\ rbuf' = [rbuf EXCEPT ![sj] =
       [big |-> counts.big, small |-> counts.small, version |-> version]]
  /\ spc' = "sent"
  /\ UNCHANGED <<hpc, mpc, sq, scq, view, srr, sbuf, counts, si, sj, issued,
                 version>>

(* Its completion is polled: on to the next host, or back to the updates.   *)
ServerReap ==
  /\ spc = "sent"
  /\ IF sj < NumClients - 1
       THEN sj' = sj + 1 /\ spc' = "send" /\ UNCHANGED si
       ELSE sj' = sj /\ spc' = "poll" /\ si' = Following(si)
  /\ UNCHANGED <<hostVars, srr, sbuf, counts, issued, version>>

Server == ServerPoll \/ ServerSend \/ Deliver \/ ServerReap

Handler(h) == HandlerReap(h) \/ \E m \in Updates : SendUpdate(h, m)
MonitorThread(h) == MonitorRecv(h) \/ MonitorPost(h) \/ MonitorReap(h)

Next ==
  \/ Server
  \/ \E h \in Host : Handler(h) \/ MonitorThread(h) \/ Transmit(h)

(* Threads and queue pairs keep working; no application has to come or go.  *)
Fairness ==
  /\ WF_vars(Server)
  /\ \A h \in Host : WF_vars(HandlerReap(h)) /\ WF_vars(MonitorThread(h))
                       /\ WF_vars(Transmit(h))

SafeSpec == Init /\ [][Next]_vars
Spec == SafeSpec /\ Fairness

-----------------------------------------------------------------------------
(* Properties.                                                             *)

Info == [big : 0 .. CountMod - 1, small : 0 .. CountMod - 1, version : Nat]

(* Every variable has its type.                                             *)
TypeOK ==
  /\ hpc \in [Host -> {"accept", "wait"}]
  /\ mpc \in [Host -> {"recv", "post", "wait"}]
  /\ sq \in [Host -> Seq(Updates \cup {"ref"})]
  /\ scq \in [Host -> Seq({"send", "ref"})]
  /\ rr \in [Host -> BOOLEAN]
  /\ rbuf \in [Host -> Info \cup {None}]
  /\ view \in [Host -> Info]
  /\ srr \in [Host -> BOOLEAN]
  /\ sbuf \in [Host -> Updates \cup {None}]
  /\ counts \in [big : 0 .. CountMod - 1, small : 0 .. CountMod - 1]
  /\ spc \in {"poll", "send", "wire", "sent"}
  /\ si \in Host
  /\ sj \in Host
  /\ issued \in [Host -> [AllUpdates -> Nat]]
  /\ version \in Nat

(* Updates of kind m by host h that the receiver has not counted yet.       *)
InFlight(h, m) ==
  Cardinality({k \in DOMAIN sq[h] : sq[h][k] = m}) + (IF sbuf[h] = m THEN 1 ELSE 0)

CountedOf(m) == SumFunctionOnSet([h \in Host |-> issued[h][m] - InFlight(h, m)], Host)

(* The single receive request, the in-order queue pair and the reading      *)
(* before reposting lose and repeat nothing: the receiver's counters are   *)
(* what the hosts reported, but for the updates still under way.           *)
CountsAccountForUpdates ==
  /\ counts.big = (CountedOf("big_inc") - CountedOf("big_dec")) % CountMod
  /\ counts.small = (CountedOf("small_inc") - CountedOf("small_dec")) % CountMod

(* However the two threads of a host steal each other's completions, each   *)
(* has exactly one coming: nobody polls send_cq for a completion that      *)
(* another thread has taken for good, and its two entries are enough.      *)
OneCompletionEach ==
  \A h \in Host :
    Len(sq[h]) + Len(scq[h]) = (IF hpc[h] = "wait" THEN 1 ELSE 0)
                                 + (IF mpc[h] = "wait" THEN 1 ELSE 0)

(* The blocking broadcast bounds how stale a host's view is: one INFO may   *)
(* lie unread in recv_buf and one may be waiting for a receive request, so *)
(* a host never misses more than the last two updates.                     *)
BoundedStaleness == \A h \in Host : version - view[h].version <= 2

(* "broadcast to all clients when there is an update from a client": what   *)
(* the receiver has counted reaches every host.                            *)
EveryoneInformed ==
  \A h \in Host : \A n \in 1 .. NumClients * MaxUpdates :
    (version >= n) ~> (view[h].version >= n)
=============================================================================
