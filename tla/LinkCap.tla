------------------------------- MODULE LinkCap -------------------------------
(***************************************************************************)
(* The virtual link: how monitor_latency (rdma_pacer/monitor.c) of each    *)
(* sending host steers virtual_link_cap, the rate its pacer makes tokens   *)
(* for.  While latency-sensitive flows are around, the cap is halved when  *)
(* the measured tail latency is above its target and raised by one when it *)
(* is not, and never cut below the host's share of the line among all big  *)
(* flows of the receiver; without them the host gets the whole line.       *)
(*                                                                         *)
(* One iteration of the monitor loop is one step: only this thread writes  *)
(* the cap.  What it loads is the environment's: the counters of the       *)
(* shared block, the counts the receiver has broadcast so far, and the     *)
(* latency.  The counters are kept by the processes themselves, when they  *)
(* register and in their exit handlers, and host and receiver do not count *)
(* alike: the module has a registration and an exit as one step each, with *)
(* what the steps of FlowRegistry add up to, whole or interrupted.  The    *)
(* receiver counts what it is told later, and a host knows its count from  *)
(* the last INFO (ReceiverUpdates).                                        *)
(***************************************************************************)
EXTENDS Integers, FiniteSets, Functions

CONSTANTS
  Hosts,     \* the sending hosts
  Apps,      \* the applications that have big flows; a name may be used
             \* again when the process is gone
  HostOf,    \* the host of an application
  LineRate,  \* LINE_RATE_MB
  CountMod,  \* 2^16: the counters are uint16_t
  MaxStarts, \* bound: registrations that are begun
  Garbage    \* what an uninitialised uint32_t may hold

ASSUME HostsAssumption == IsFiniteSet(Hosts) /\ HostOf \in [Apps -> Hosts]
ASSUME LineAssumption == LineRate \in Nat \ {0}
ASSUME CountAssumption == CountMod \in Nat \ {0} /\ MaxStarts \in Nat
ASSUME GarbageAssumption == Garbage \subseteq Nat

VARIABLES
  \* the monitor of each host
  cap,        \* virtual_link_cap
  known,      \* the local variable temp has been assigned
  \* what it loads
  localBig,   \* num_active_big_flows
  localBw,    \* num_active_bw_flows # 0: the counter never goes down again
  smallFlows, \* a small flow at this host or at the receiver
  viewBig,    \* num_receiver_big_flows[0]
  slow,       \* measured_tail[0] > latency_target
  \* the applications and the receiver
  class,      \* how the exit handler sees the process: "bw", "tput" or "read";
              \* "none" while there is no process with a big flow
  own,        \* num_active_big_flows of its driver
  underway,   \* what the host has told the receiver and is not counted yet
  reported,   \* current_num_big_apps of the receiver
  started,    \* registrations begun, for the bound
  \* history
  wild,       \* the cap goes back to the uninitialised temp
  crowded,    \* the last iteration was told of too many flows for a floor
  irregular   \* a process has ended that host and receiver count differently

registry == <<localBig, localBw, class, own, underway, started, irregular>>
environment == <<registry, smallFlows, viewBig, slow, reported>>
capVars == <<cap, known, environment, wild, crowded>>

CapInit ==
  /\ cap = [h \in Hosts |-> LineRate]
  /\ known = [h \in Hosts |-> FALSE]
  /\ localBig = [h \in Hosts |-> 0]
  /\ localBw = [h \in Hosts |-> FALSE]
  /\ smallFlows = [h \in Hosts |-> FALSE]
  /\ viewBig = [h \in Hosts |-> 0]
  /\ slow = [h \in Hosts |-> FALSE]
  /\ class = [p \in Apps |-> "none"]
  /\ own = [p \in Apps |-> 0]
  /\ underway = [h \in Hosts |-> 0]
  /\ reported = 0
  /\ started = 0
  /\ wild = [h \in Hosts |-> FALSE]
  /\ crowded = [h \in Hosts |-> FALSE]
  /\ irregular = FALSE

-----------------------------------------------------------------------------
(* min_virtual_link_cap: the host's flows over all flows and one for the    *)
(* latency flows, of the line, rounded half up, at most the line.          *)
Floor(big, all) ==
  LET share == (2 * big * LineRate + all + 1) \div (2 * (all + 1))
  IN  IF share > LineRate THEN LineRate ELSE share

(* Faulty variant of Decrease: no lower bound.                              *)
DecreaseUnbounded(c, floor) == c \div 2

Decrease(c, floor) == IF c \div 2 < floor THEN floor ELSE c \div 2

(* Faulty variant of Increase: no increase at all.                          *)
IncreaseNever(c) == c

Increase(c) == IF c < LineRate THEN c + 1 ELSE c

Throttled(h) == smallFlows[h] /\ localBw[h]

(* Up to here one flow's floor is at least one.                             *)
FewFlows(all) == all < 2 * LineRate

(* With latency flows: multiplicative decrease, additive increase.          *)
Adapt(h) ==
  /\ localBig[h] # 0
  /\ Throttled(h)
  /\ LET floor == Floor(localBig[h], viewBig[h])
     IN  cap' = [cap EXCEPT ![h] = IF slow[h] THEN Decrease(@, floor) ELSE Increase(@)]
  /\ known' = [known EXCEPT ![h] = TRUE]
  /\ crowded' = [crowded EXCEPT ![h] = ~FewFlows(viewBig[h])]
  /\ UNCHANGED <<environment, wild>>

(* Without: the whole line.  When the cap is the line already, temp is      *)
(* stored as it stands; until an iteration has assigned it, that is        *)
(* whatever the stack holds, and after that it equals the cap.             *)
Release(h) ==
  /\ localBig[h] # 0
  /\ ~Throttled(h)
  /\ IF cap[h] # LineRate \/ known[h]
       THEN /\ cap' = [cap EXCEPT ![h] = LineRate]
            /\ known' = [known EXCEPT ![h] = TRUE]
            /\ wild' = [wild EXCEPT ![h] = FALSE]
       ELSE /\ \E g \in Garbage : cap' = [cap EXCEPT ![h] = g]
            /\ wild' = [wild EXCEPT ![h] = TRUE]
            /\ UNCHANGED known
  /\ crowded' = [crowded EXCEPT ![h] = FALSE]
  /\ UNCHANGED environment

MonitorLatency(h) == Adapt(h) \/ Release(h)

-----------------------------------------------------------------------------
(* The applications.  A host has one message for the receiver under way at *)
(* a time; ReceiverUpdates has the queue.                                  *)

notTheirs == <<cap, known, smallFlows, viewBig, slow, reported, wild, crowded>>

Begin(p) ==
  /\ started < MaxStarts
  /\ started' = started + 1
  /\ underway[HostOf[p]] = 0

(* A READ at the first post: the slot is marked, and nothing is counted.    *)
MarkRead(p) ==
  /\ Begin(p)
  /\ class' = [class EXCEPT ![p] = "read"]
  /\ UNCHANGED <<own, localBig, localBw, underway, irregular>>
  /\ UNCHANGED notTheirs

(* Any other first post on a bandwidth or throughput queue pair.  A second  *)
(* one, on another queue pair, is registered like the first; the mark of a *)
(* READ stays.                                                             *)
Arrive(p, c) ==
  /\ Begin(p)
  /\ class' = [class EXCEPT ![p] = IF @ = "read" THEN @ ELSE c]
  /\ own' = [own EXCEPT ![p] = @ + 1]
  /\ underway' = [underway EXCEPT ![HostOf[p]] = 1]
  /\ localBig' = [localBig EXCEPT ![HostOf[p]] = (@ + 1) % CountMod]
  /\ localBw' = [localBw EXCEPT ![HostOf[p]] = @ \/ c = "bw"]
  /\ UNCHANGED irregular
  /\ UNCHANGED notTheirs

NoMore(p) ==
  /\ class' = [class EXCEPT ![p] = "none"]
  /\ own' = [own EXCEPT ![p] = 0]

(* Faulty variant of Leave: a bandwidth process leaves its count behind, as *)
(* a throughput process does.                                              *)
LeaveUncounted(p, c, done) ==
  LET h == HostOf[p]
  IN  /\ underway[h] = 0
      /\ underway' = [underway EXCEPT ![h] = done.told - 1]
      /\ localBig' = [localBig EXCEPT ![h] = (@ + done.added) % CountMod]
      /\ NoMore(p)
      /\ UNCHANGED localBw
      /\ UNCHANGED notTheirs

(* What set_inactive_on_exit does to a process it sees as of class c, when  *)
(* the registration it interrupts, if any, has got as far as "done" says.  *)
(* A bandwidth process takes its own count off its host's; a throughput    *)
(* process takes off small flows, of which it has none, and a READ one     *)
(* nothing.  All of them report the exit of a big flow.                    *)
Leave(p, c, done) ==
  LET h == HostOf[p]
      mine == IF c = "bw" THEN own[p] + done.counted ELSE 0
  IN  /\ underway[h] = 0
      /\ underway' = [underway EXCEPT ![h] = done.told - 1]
      /\ localBig' = [localBig EXCEPT ![h] = (@ + done.added - mine) % CountMod]
      /\ NoMore(p)
      /\ UNCHANGED localBw
      /\ UNCHANGED notTheirs

Done(counted, told, added) == [counted |-> counted, told |-> told, added |-> added]

(* exit() or a signal after a whole registration.                           *)
Depart(p) ==
  /\ class[p] # "none"
  /\ Leave(p, class[p], Done(0, 0, 0))
  /\ irregular' = (irregular \/ class[p] # "bw" \/ own[p] # 1)
  /\ UNCHANGED started

(* The order of a registration: a bandwidth process counts, tells and adds, *)
(* a throughput process tells, counts and adds.                            *)
CutShort ==
  {<<"bw", Done(0, 0, 0)>>, <<"bw", Done(1, 0, 0)>>, <<"bw", Done(1, 1, 0)>>,
   <<"bw", Done(1, 1, 1)>>,
   <<"tput", Done(0, 0, 0)>>, <<"tput", Done(0, 1, 0)>>, <<"tput", Done(1, 1, 0)>>}

(* The same within a registration, a READ one being like a bandwidth one    *)
(* not begun; of an arrival and an exit both told nothing remains.         *)
DepartEarly(p) ==
  /\ Begin(p)
  /\ \E cut \in CutShort : Leave(p, IF class[p] = "read" THEN "read" ELSE cut[1], cut[2])
  /\ irregular' = TRUE

(* SIGKILL, or an exit as a latency process: nothing is taken back.  A kill *)
(* between telling the receiver and adding to the block leaves the two     *)
(* counts different.                                                       *)
KillApp(p) ==
  /\ \/ /\ class[p] # "none"
        /\ UNCHANGED <<underway, started, irregular>>
     \/ /\ Begin(p)
        /\ underway' = [underway EXCEPT ![HostOf[p]] = 1]
        /\ irregular' = TRUE
  /\ NoMore(p)
  /\ UNCHANGED <<localBig, localBw>>
  /\ UNCHANGED notTheirs

-----------------------------------------------------------------------------
(* The receiver and the rest of the environment.                           *)

(* Faulty variant of Count: a counter that does not wrap.                   *)
CountNoWrap(h) ==
  /\ underway[h] # 0
  /\ underway' = [underway EXCEPT ![h] = 0]
  /\ reported' = reported + underway[h]
  /\ UNCHANGED <<cap, known, localBig, localBw, smallFlows, viewBig, slow, class, own,
                 started, wild, crowded, irregular>>

(* server_loop counts an arrival or an exit.                                *)
Count(h) ==
  /\ underway[h] # 0
  /\ underway' = [underway EXCEPT ![h] = 0]
  /\ reported' = (reported + underway[h]) % CountMod
  /\ UNCHANGED <<cap, known, localBig, localBw, smallFlows, viewBig, slow, class, own,
                 started, wild, crowded, irregular>>

Inform(h) ==
  /\ viewBig' = [viewBig EXCEPT ![h] = reported]
  /\ UNCHANGED <<cap, known, registry, smallFlows, slow, reported, wild, crowded>>

SmallComeOrGo(h) ==
  /\ smallFlows' = [smallFlows EXCEPT ![h] = ~@]
  /\ UNCHANGED <<cap, known, registry, viewBig, slow, reported, wild, crowded>>

Measure(h) ==
  /\ slow' = [slow EXCEPT ![h] = ~@]
  /\ UNCHANGED <<cap, known, registry, smallFlows, viewBig, reported, wild, crowded>>

CapNext ==
  \/ \E h \in Hosts :
       MonitorLatency(h) \/ Count(h) \/ Inform(h) \/ SmallComeOrGo(h) \/ Measure(h)
  \/ \E p \in Apps :
       \/ MarkRead(p)
       \/ \E c \in {"bw", "tput"} : Arrive(p, c)
       \/ Depart(p) \/ DepartEarly(p) \/ KillApp(p)

CapSafeSpec == CapInit /\ [][CapNext]_capVars

(* The monitor thread keeps iterating.                                      *)
CapSpec == CapSafeSpec /\ \A h \in Hosts : WF_capVars(MonitorLatency(h))

-----------------------------------------------------------------------------
(* Properties.                                                             *)

Counter == 0 .. CountMod - 1

(* Every variable has its type.                                             *)
CapTypeOK ==
  /\ cap \in [Hosts -> Nat]
  /\ known \in [Hosts -> BOOLEAN]
  /\ localBig \in [Hosts -> Counter]
  /\ localBw \in [Hosts -> BOOLEAN]
  /\ smallFlows \in [Hosts -> BOOLEAN]
  /\ viewBig \in [Hosts -> Counter]
  /\ slow \in [Hosts -> BOOLEAN]
  /\ class \in [Apps -> {"none", "bw", "tput", "read"}]
  /\ own \in [Apps -> Nat]
  /\ underway \in [Hosts -> -1 .. 1]
  /\ reported \in Counter
  /\ started \in 0 .. MaxStarts
  /\ wild \in [Hosts -> BOOLEAN]
  /\ crowded \in [Hosts -> BOOLEAN]
  /\ irregular \in BOOLEAN

(* Halving and raising keep the virtual link within the line, and open      *)
(* however long the latency stays high, except where the iteration was     *)
(* told of at least 2 * LINE_RATE_MB big flows; such a count may be real,  *)
(* or one that an unannounced exit took below zero, or left by exits that  *)
(* are not told.  The first iteration that is told of fewer opens the link *)
(* again.  At a cap of zero the token loop stops serving.  The cap is not  *)
(* the loop's doing while it goes back to the uninitialised store.         *)
LinkStaysOpen ==
  \A h \in Hosts : ~wild[h] => cap[h] \in (IF crowded[h] THEN 0 ELSE 1) .. LineRate

Total == SumFunctionOnSet(localBig, Hosts)

(* Everything told has been counted, and every host knows the count.        *)
Informed == \A h \in Hosts : underway[h] = 0 /\ viewBig[h] = reported

(* The floors of all hosts can be kept at the same time and leave room for  *)
(* the latency flows: when everybody is informed, they add up to the line  *)
(* less one share, but for half a unit of rounding per host.  That needs   *)
(* the hosts' own counts to add up to the receiver's, through arrivals of  *)
(* all classes, kills and exits of bandwidth processes; an exit of a       *)
(* throughput or READ process, of one with several queue pairs or in the   *)
(* middle of a registration is taken back at one end only, after which the *)
(* floors may exceed the line for good.                                    *)
FloorsFit ==
  Informed /\ ~irregular /\ Total < CountMod =>
    2 * (reported + 1) * SumFunctionOnSet([h \in Hosts |-> Floor(localBig[h], viewBig[h])], Hosts)
      <= 2 * reported * LineRate + (reported + 1) * Cardinality(Hosts)

(* When latency is good for ever, or the latency flows are gone for ever,   *)
(* the host gets the whole line back.                                      *)
GetsLineBack ==
  \A h \in Hosts :
    <>[](localBig[h] # 0 /\ (~smallFlows[h] \/ ~slow[h])) => <>[](cap[h] >= LineRate)
=============================================================================
