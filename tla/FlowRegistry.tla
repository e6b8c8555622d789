---------------------------- MODULE FlowRegistry ----------------------------
(***************************************************************************)
(* Who counts how many flows of which kind are active.                     *)
(*                                                                         *)
(* The driver in each application joins the pacer of its host when a queue *)
(* pair is created (contact_pacer(1) answers with a slot of the flow       *)
(* table), registers the application at the first post after a queue pair  *)
(* was brought up (the start_flag block of split_mlx5_post_send) and takes *)
(* it back in set_inactive_on_exit, which runs at exit() or in the handler *)
(* of SIGINT, SIGHUP and SIGTERM.  Registering touches two sets of         *)
(* counters: those of the host's shared block, which the driver changes    *)
(* itself, and those of the receiving host's pacer, which flow_handler     *)
(* tells of each arrival and exit.  The channel between the pacers is the  *)
(* subject of ReceiverUpdates; here an update is counted, in order, when   *)
(* flow_handler sends it.                                                  *)
(***************************************************************************)
EXTENDS Integers, Sequences, FiniteSets, FiniteSetsExt

CONSTANTS
  Procs,      \* the applications, each with its own pid
  Hosts,      \* the sending hosts
  HostOf,     \* the host of an application
  ClassesOf,  \* the classes of the queue pairs an application may use: "bw",
              \* "tput" and "lat" by qp_context, "read" if the first post is one
  MaxFlows,   \* MAX_FLOWS
  CountMod,   \* 2^16: the counters are uint16_t
  MaxQPs,     \* bound: queue pairs each application creates
  EarlyExit,  \* the applications that may end before or within their
              \* registration
  Crashes,    \* those that may be killed by SIGKILL
  None        \* no process: the -1 of pid_list

ASSUME ProcsAssumption ==
  /\ HostOf \in [Procs -> Hosts]
  /\ ClassesOf \in [Procs -> SUBSET {"bw", "tput", "lat", "read"}]
  /\ IsFiniteSet(Procs)
  /\ None \notin Procs
ASSUME SizesAssumption ==
  /\ MaxFlows \in Nat \ {0}
  /\ CountMod \in Nat \ {0}
  /\ MaxQPs \in [Procs -> Nat \ {0}]
ASSUME EndingAssumption == EarlyExit \subseteq Procs /\ Crashes \subseteq Procs

Slots == 0 .. MaxFlows - 1

VARIABLES
  \* the driver of each application
  pc,         \* what it is doing
  class,      \* the class of the queue pair it last registered
  todo,       \* steps of its registration still to take
  isSmall,    \* 0: bw, 1: lat (the initial value), 2: tput
  localBig,   \* its own num_active_big_flows
  localSmall, \* its own num_active_small_flows
  slot,       \* slot number, None while flow = NULL
  qps,        \* queue pairs created
  \* the shared block and the pacer of each sending host
  big,        \* num_active_big_flows
  small,      \* num_active_small_flows
  bw,         \* num_active_bw_flows
  read,       \* flows[s].read
  pidList,    \* pid_list
  inbox,      \* connections in the order flow_handler accepts them
  up,         \* the pacer has not exited
  \* the pacer of the receiving host
  receiver,   \* current_num_big_apps, current_num_small_apps
  \* history
  irregular   \* applications the exit code does not account for: READ ones,
              \* and those that were killed, ended early or joined again

driverVars == <<pc, class, todo, isSmall, localBig, localSmall, slot, qps>>
blockVars == <<big, small, bw, read>>
vars == <<driverVars, blockVars, pidList, inbox, up, receiver, irregular>>

On(h) == {p \in Procs : HostOf[p] = h}

Init ==
  /\ pc = [p \in Procs |-> "new"]
  /\ class = [p \in Procs |-> "lat"]
  /\ todo = [p \in Procs |-> <<>>]
  /\ isSmall = [p \in Procs |-> 1]
  /\ localBig = [p \in Procs |-> 0]
  /\ localSmall = [p \in Procs |-> 0]
  /\ slot = [p \in Procs |-> None]
  /\ qps = [p \in Procs |-> 0]
  /\ big = [h \in Hosts |-> 0]
  /\ small = [h \in Hosts |-> 0]
  /\ bw = [h \in Hosts |-> 0]
  /\ read = [h \in Hosts |-> [s \in Slots |-> FALSE]]
  /\ pidList = [h \in Hosts |-> [s \in Slots |-> None]]
  /\ inbox = [h \in Hosts |-> <<>>]
  /\ up = [h \in Hosts |-> TRUE]
  /\ receiver = [big |-> 0, small |-> 0]
  /\ irregular = {}

Send(p, m) == inbox' = [inbox EXCEPT ![HostOf[p]] = Append(@, m)]

(* Nothing is followed on a host whose pacer has exited.                    *)
Alive(p) == up[HostOf[p]] /\ pc[p] # "gone"

-----------------------------------------------------------------------------
(* Joining: mlx5_create_qp asks for a slot and waits for the answer.        *)
CreateQP(p) ==
  /\ Alive(p)
  /\ pc[p] \in {"new", "active"}
  /\ qps[p] < MaxQPs[p]
  /\ qps' = [qps EXCEPT ![p] = @ + 1]
  /\ pc' = [pc EXCEPT ![p] = "joining"]
  /\ Send(p, [kind |-> "join", by |-> p])
  /\ irregular' = IF qps[p] = 0 THEN irregular ELSE irregular \cup {p}
  /\ UNCHANGED <<class, todo, isSmall, localBig, localSmall, slot, blockVars, pidList,
                 up, receiver>>

(* Faulty variant of SlotFor: a slot that is taken is handed out again.     *)
FirstSlot(h, p) == 0

(* find_next_slot: the slot that holds the pid, or the first free one.      *)
SlotFor(h, p) ==
  LET mine == {s \in Slots : pidList[h][s] = p}
      free == {s \in Slots : pidList[h][s] = None}
  IN  IF mine # {} THEN Min(mine) ELSE IF free # {} THEN Min(free) ELSE None

(* flow_handler answers.  Without a slot it exits; so it does when the      *)
(* process is gone, for its send meets a closed socket (SIGPIPE).  The     *)
(* joined process moves its queue pair to RTS, which arms start_flag.      *)
HandleJoin(h) ==
  /\ up[h]
  /\ inbox[h] # <<>>
  /\ Head(inbox[h]).kind = "join"
  /\ inbox' = [inbox EXCEPT ![h] = Tail(@)]
  /\ LET p == Head(inbox[h]).by
         s == SlotFor(h, p)
     IN  IF s = None \/ pc[p] # "joining"
           THEN /\ up' = [up EXCEPT ![h] = FALSE]
                /\ UNCHANGED <<pidList, slot, pc>>
           ELSE /\ pidList' = [pidList EXCEPT ![h][s] = p]
                /\ slot' = [slot EXCEPT ![p] = s]
                /\ pc' = [pc EXCEPT ![p] = "joined"]
                /\ UNCHANGED up
  /\ UNCHANGED <<class, todo, isSmall, localBig, localSmall, qps, blockVars, receiver, irregular>>

-----------------------------------------------------------------------------
(* Registering, at the first post: the steps in the order of the code.      *)

Steps(c) ==
  CASE c = "bw"   -> <<"count_big", "tell", "add_big", "add_bw">>
    [] c = "tput" -> <<"tell", "count_big", "add_big">>
    [] c = "lat"  -> <<"tell", "count_small", "add_small">>
    [] c = "read" -> <<"mark_read">>

FirstPost(p, c) ==
  /\ Alive(p)
  /\ pc[p] = "joined"
  /\ pc' = [pc EXCEPT ![p] = "registering"]
  /\ class' = [class EXCEPT ![p] = c]
  /\ todo' = [todo EXCEPT ![p] = Steps(c)]
  /\ isSmall' = [isSmall EXCEPT ![p] =
       CASE c = "lat" -> 1 [] c = "tput" -> 2 [] OTHER -> 0]
  /\ UNCHANGED <<localBig, localSmall, slot, qps, blockVars, pidList, inbox, up,
                 receiver, irregular>>

(* Faulty variant of Up: a counter wider than 16 bits.                      *)
UpNoWrap(n) == n + 1

Up(n) == (n + 1) % CountMod

Take(p, step) ==
  /\ Alive(p)
  /\ pc[p] = "registering"
  /\ Head(todo[p]) = step
  /\ todo' = [todo EXCEPT ![p] = Tail(@)]
  /\ pc' = [pc EXCEPT ![p] = IF Len(todo[p]) = 1 THEN "active" ELSE @]
  /\ UNCHANGED <<class, isSmall, slot, qps, pidList, up, receiver, irregular>>

CountLocally(p) ==
  \/ /\ Take(p, "count_big")
     /\ localBig' = [localBig EXCEPT ![p] = @ + 1]
     /\ UNCHANGED <<localSmall, blockVars, inbox>>
  \/ /\ Take(p, "count_small")
     /\ localSmall' = [localSmall EXCEPT ![p] = @ + 1]
     /\ UNCHANGED <<localBig, blockVars, inbox>>

(* contact_pacer(2): the message names the kind isSmall stands for.         *)
Tell(p) ==
  /\ Take(p, "tell")
  /\ Send(p, [kind |-> IF isSmall[p] = 1 THEN "small_inc" ELSE "big_inc", by |-> p])
  /\ UNCHANGED <<localBig, localSmall, blockVars>>

AddToBlock(p) ==
  /\ \/ /\ Take(p, "add_big")
        /\ big' = [big EXCEPT ![HostOf[p]] = Up(@)]
        /\ UNCHANGED <<small, bw, read>>
     \/ /\ Take(p, "add_bw")
        /\ bw' = [bw EXCEPT ![HostOf[p]] = Up(@)]
        /\ UNCHANGED <<big, small, read>>
     \/ /\ Take(p, "add_small")
        /\ small' = [small EXCEPT ![HostOf[p]] = Up(@)]
        /\ UNCHANGED <<big, bw, read>>
     \/ /\ Take(p, "mark_read")
        /\ read' = [read EXCEPT ![HostOf[p]][slot[p]] = TRUE]
        /\ UNCHANGED <<big, small, bw>>
  /\ UNCHANGED <<localBig, localSmall, inbox>>

-----------------------------------------------------------------------------
(* Leaving.                                                                *)

(* exit() or a signal.  Before the first slot is known flow is NULL and     *)
(* set_inactive_on_exit does nothing.                                      *)
BeginExit(p) ==
  /\ Alive(p)
  /\ pc[p] \in IF p \in EarlyExit THEN {"joining", "joined", "registering", "active"}
                                     ELSE {"active"}
  /\ pc' = [pc EXCEPT ![p] = IF slot[p] = None THEN "gone" ELSE "leaving"]
  /\ irregular' = IF pc[p] = "active" /\ class[p] # "read"
                   THEN irregular ELSE irregular \cup {p}
  /\ todo' = [todo EXCEPT ![p] = <<>>]
  /\ UNCHANGED <<class, isSmall, localBig, localSmall, slot, qps, blockVars, pidList,
                 inbox, up, receiver>>

(* Faulty variant of ExitCount: the counters of the block are left alone.   *)
ExitUncounted(p) ==
  /\ Alive(p)
  /\ pc[p] = "leaving"
  /\ pc' = [pc EXCEPT ![p] = "telling"]
  /\ UNCHANGED <<class, todo, isSmall, localBig, localSmall, slot, qps, blockVars,
                 pidList, inbox, up, receiver, irregular>>

(* Takes the process out of its host's counters: by isSmall, which is 1     *)
(* when nothing was posted, and with its local count of small flows, which *)
(* is 0 for a throughput flow.                                             *)
ExitCount(p) ==
  LET h == HostOf[p]
  IN  /\ Alive(p)
      /\ pc[p] = "leaving"
      /\ pc' = [pc EXCEPT ![p] = "telling"]
      /\ IF isSmall[p] # 0
           THEN /\ small' = [small EXCEPT ![h] = (@ - localSmall[p]) % CountMod]
                /\ UNCHANGED <<big, read>>
           ELSE IF read[h][slot[p]]
             THEN /\ read' = [read EXCEPT ![h][slot[p]] = FALSE]
                  /\ UNCHANGED <<big, small>>
             ELSE /\ big' = [big EXCEPT ![h] = (@ - localBig[p]) % CountMod]
                  /\ UNCHANGED <<small, read>>
      /\ UNCHANGED <<class, todo, isSmall, localBig, localSmall, slot, qps, bw, pidList,
                     inbox, up, receiver, irregular>>

(* Faulty variant of ExitTell: every exit is reported as that of a big flow.*)
ExitTellBig(p) ==
  /\ Alive(p)
  /\ pc[p] = "telling"
  /\ pc' = [pc EXCEPT ![p] = "gone"]
  /\ Send(p, [kind |-> "big_dec", by |-> p])
  /\ UNCHANGED <<class, todo, isSmall, localBig, localSmall, slot, qps, blockVars,
                 pidList, up, receiver, irregular>>

(* contact_pacer(0): the exit message, again by isSmall.                    *)
ExitTell(p) ==
  /\ Alive(p)
  /\ pc[p] = "telling"
  /\ pc' = [pc EXCEPT ![p] = "gone"]
  /\ Send(p, [kind |-> IF isSmall[p] = 1 THEN "small_dec" ELSE "big_dec", by |-> p])
  /\ UNCHANGED <<class, todo, isSmall, localBig, localSmall, slot, qps, blockVars,
                 pidList, up, receiver, irregular>>

Kill(p) ==
  /\ p \in Crashes
  /\ Alive(p)
  /\ pc[p] # "new"
  /\ pc' = [pc EXCEPT ![p] = "gone"]
  /\ irregular' = irregular \cup {p}
  /\ todo' = [todo EXCEPT ![p] = <<>>]
  /\ UNCHANGED <<class, isSmall, localBig, localSmall, slot, qps, blockVars, pidList,
                 inbox, up, receiver>>

-----------------------------------------------------------------------------
(* flow_handler passes an arrival or an exit on to server_loop, which       *)
(* counts it.                                                              *)
Forward(h) ==
  /\ up[h]
  /\ inbox[h] # <<>>
  /\ Head(inbox[h]).kind # "join"
  /\ inbox' = [inbox EXCEPT ![h] = Tail(@)]
  /\ receiver' =
       CASE Head(inbox[h]).kind = "big_inc" -> [receiver EXCEPT !.big = Up(@)]
         [] Head(inbox[h]).kind = "small_inc" -> [receiver EXCEPT !.small = Up(@)]
         [] Head(inbox[h]).kind = "big_dec" ->
              [receiver EXCEPT !.big = (@ - 1) % CountMod]
         [] Head(inbox[h]).kind = "small_dec" ->
              [receiver EXCEPT !.small = (@ - 1) % CountMod]
  /\ UNCHANGED <<driverVars, blockVars, pidList, up, irregular>>

Leave(p) == ExitCount(p) \/ ExitTell(p)
Register(p) == CountLocally(p) \/ Tell(p) \/ AddToBlock(p)
FlowHandler(h) == HandleJoin(h) \/ Forward(h)

Next ==
  \/ \E p \in Procs : \/ CreateQP(p) \/ Register(p)
                      \/ \E c \in ClassesOf[p] : FirstPost(p, c)
                      \/ BeginExit(p) \/ Leave(p) \/ Kill(p)
  \/ \E h \in Hosts : FlowHandler(h)

(* A process inside a post or inside its exit handler, and flow_handler,    *)
(* keep running.                                                           *)
Fairness ==
  /\ \A p \in Procs : WF_vars(Register(p)) /\ WF_vars(Leave(p))
  /\ \A h \in Hosts : WF_vars(FlowHandler(h))

SafeSpec == Init /\ [][Next]_vars
Spec == SafeSpec /\ Fairness

-----------------------------------------------------------------------------
(* Properties.                                                             *)

Counter == 0 .. CountMod - 1
Message == [kind : {"join", "big_inc", "small_inc", "big_dec", "small_dec"},
            by : Procs]

(* Every variable has its type.                                             *)
TypeOK ==
  /\ pc \in [Procs -> {"new", "joining", "joined", "registering", "active",
                       "leaving", "telling", "gone"}]
  /\ class \in [Procs -> {"bw", "tput", "lat", "read"}]
  /\ todo \in [Procs -> Seq({"count_big", "count_small", "tell", "add_big",
                             "add_bw", "add_small", "mark_read"})]
  /\ isSmall \in [Procs -> 0 .. 2]
  /\ localBig \in [Procs -> Nat]
  /\ localSmall \in [Procs -> Nat]
  /\ slot \in [Procs -> Slots \cup {None}]
  /\ qps \in [Procs -> Nat]
  /\ big \in [Hosts -> Counter]
  /\ small \in [Hosts -> Counter]
  /\ bw \in [Hosts -> Counter]
  /\ read \in [Hosts -> [Slots -> BOOLEAN]]
  /\ pidList \in [Hosts -> [Slots -> Procs \cup {None}]]
  /\ inbox \in [Hosts -> Seq(Message)]
  /\ up \in [Hosts -> BOOLEAN]
  /\ receiver \in [big : Counter, small : Counter]

(* Nobody is in the middle of anything and no message is under way.         *)
Quiet ==
  /\ \A p \in Procs : pc[p] \in {"new", "joined", "active", "gone"}
  /\ \A h \in Hosts : up[h] /\ inbox[h] = <<>>

Active(classes) == {p \in Procs : pc[p] = "active" /\ class[p] \in classes}

(* Two counts of the same applications, one kept by atomic adds in shared   *)
(* memory and one by messages through two daemons, agree with each other   *)
(* and with the truth whenever nothing is under way: the receiver's counts *)
(* are of the applications of all hosts, the counts of a host's shared     *)
(* block of its own.  The shared count of big flows is right only on hosts *)
(* without throughput applications.                                        *)
CountsAgree ==
  Quiet /\ irregular = {} =>
    /\ receiver.big = Cardinality(Active({"bw", "tput"})) % CountMod
    /\ receiver.small = Cardinality(Active({"lat"})) % CountMod
    /\ \A h \in Hosts :
         /\ small[h] = Cardinality(Active({"lat"}) \cap On(h)) % CountMod
         /\ (\A p \in On(h) : "tput" \notin ClassesOf[p]) =>
              big[h] = Cardinality(Active({"bw"}) \cap On(h)) % CountMod

(* A pid has one slot, also when it joins again for another queue pair, and *)
(* no two pids share one: the pacer's clearing of a slot's pending flag    *)
(* releases the process it was meant for.                                  *)
OneSlotPerPid ==
  \A h \in Hosts :
    /\ \A s, r \in Slots : pidList[h][s] = pidList[h][r] /\ s # r
                             => pidList[h][s] = None
    /\ \A p \in On(h) : slot[p] # None => pidList[h][slot[p]] = p

AllGone ==
  /\ \A p \in Procs : pc[p] \in {"new", "gone"}
  /\ \A h \in Hosts : up[h]
  /\ irregular = {}

(* When the last application has gone the receiver has nothing left to      *)
(* count, so that the senders stop throttling for its latency flows.       *)
ReceiverClears ==
  AllGone ~> (receiver = [big |-> 0, small |-> 0] \/ ~AllGone)

(* "small: lat": the receiver's second count is of latency-sensitive        *)
(* applications.                                                           *)
SmallAreLatencyFlows ==
  Quiet => receiver.small <= Cardinality({p \in Procs : "lat" \in ClassesOf[p]})
=============================================================================
