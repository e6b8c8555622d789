------------------------- MODULE ReceiverUpdatesProofs -------------------------
(***************************************************************************)
(* Proofs about ReceiverUpdates, for every number of sending hosts, width  *)
(* of the counters and number of updates.                                  *)
(***************************************************************************)
EXTENDS ReceiverUpdates, Arithmetic, SequenceTheorems, TLAPS

(* The position of the broadcast is one past a host from the end at most.   *)
LEMMA HostBounds ==
  /\ 0 \in Host
  /\ \A i \in Host : i \in Nat /\ i < NumClients
  /\ \A i \in Host : i < NumClients - 1 => i + 1 \in Host
  BY ClientsAssumption DEF Host

LEMMA FollowingHost ==
  ASSUME NEW i \in Host
  PROVE  Following(i) \in Host
  BY ClientsAssumption DEF Host, Following

LEMMA CountBounds ==
  ASSUME NEW n \in 0 .. CountMod - 1
  PROVE  (n + 1) % CountMod \in 0 .. CountMod - 1 /\ (n - 1) % CountMod \in 0 .. CountMod - 1
  BY BoundAssumption

LEMMA CountedType ==
  ASSUME NEW c \in [big : 0 .. CountMod - 1, small : 0 .. CountMod - 1],
         NEW m \in AllUpdates
  PROVE  Counted(c, m) \in [big : 0 .. CountMod - 1, small : 0 .. CountMod - 1]
  <1>1. c.big \in 0 .. CountMod - 1 /\ c.small \in 0 .. CountMod - 1
    OBVIOUS
  <1>2. /\ (c.big + 1) % CountMod \in 0 .. CountMod - 1
        /\ (c.big - 1) % CountMod \in 0 .. CountMod - 1
        /\ (c.small + 1) % CountMod \in 0 .. CountMod - 1
        /\ (c.small - 1) % CountMod \in 0 .. CountMod - 1
    BY <1>1, CountBounds
  <1> QED
    BY <1>2 DEF Counted, AllUpdates

LEMMA InfoIsNotNone == None \notin Info
  BY NoneAssumption, BoundAssumption DEF Info

-----------------------------------------------------------------------------
(* Type correctness.                                                       *)

LEMMA TypeInit == Init => TypeOK
  BY HostBounds, BoundAssumption DEF Init, TypeOK, Info, AllUpdates

LEMMA TypeHandler ==
  ASSUME NEW h \in Host, TypeOK, Handler(h)
  PROVE  TypeOK'
  <1>1. CASE HandlerReap(h)
    <2>1. scq[h] \in Seq({"send", "ref"}) /\ scq[h] # <<>>
      BY <1>1 DEF HandlerReap, TypeOK
    <2>2. Tail(scq[h]) \in Seq({"send", "ref"})
      BY <2>1, HeadTailProperties
    <2>3. scq' \in [Host -> Seq({"send", "ref"})]
      BY <1>1, <2>2 DEF HandlerReap, TypeOK
    <2> QED
      BY <1>1, <2>3 DEF HandlerReap, TypeOK, serverVars
  <1>2. ASSUME NEW m \in Updates, SendUpdate(h, m)
        PROVE  TypeOK'
    <2>1. m \in AllUpdates
      BY UpdatesAssumption
    <2>2. Append(sq[h], m) \in Seq(Updates \cup {"ref"})
      BY AppendProperties DEF TypeOK
    <2>3. sq' \in [Host -> Seq(Updates \cup {"ref"})]
      BY <1>2, <2>2 DEF SendUpdate, TypeOK
    <2>4. issued' \in [Host -> [AllUpdates -> Nat]]
      BY <1>2, <2>1 DEF SendUpdate, TypeOK
    <2> QED
      BY <1>2, <2>3, <2>4 DEF SendUpdate, TypeOK, serverVars
  <1> QED
    BY <1>1, <1>2 DEF Handler

LEMMA TypeMonitor ==
  ASSUME NEW h \in Host, TypeOK, MonitorThread(h)
  PROVE  TypeOK'
  <1>1. CASE MonitorRecv(h)
    <2>1. view' \in [Host -> Info]
      BY <1>1 DEF MonitorRecv, TypeOK
    <2>2. rbuf' \in [Host -> Info \cup {None}]
      BY <1>1 DEF MonitorRecv, TypeOK
    <2>3. rr' \in [Host -> BOOLEAN]
      BY <1>1 DEF MonitorRecv, TypeOK
    <2> QED
      BY <1>1, <2>1, <2>2, <2>3 DEF MonitorRecv, TypeOK, serverVars
  <1>2. CASE MonitorPost(h)
    <2>1. Append(sq[h], "ref") \in Seq(Updates \cup {"ref"})
      BY AppendProperties DEF TypeOK
    <2>2. sq' \in [Host -> Seq(Updates \cup {"ref"})]
      BY <1>2, <2>1 DEF MonitorPost, TypeOK
    <2> QED
      BY <1>2, <2>2 DEF MonitorPost, TypeOK, serverVars
  <1>3. CASE MonitorReap(h)
    <2>1. scq[h] \in Seq({"send", "ref"}) /\ scq[h] # <<>>
      BY <1>3 DEF MonitorReap, TypeOK
    <2>2. Tail(scq[h]) \in Seq({"send", "ref"})
      BY <2>1, HeadTailProperties
    <2>3. scq' \in [Host -> Seq({"send", "ref"})]
      BY <1>3, <2>2 DEF MonitorReap, TypeOK
    <2> QED
      BY <1>3, <2>3 DEF MonitorReap, TypeOK, serverVars
  <1> QED
    BY <1>1, <1>2, <1>3 DEF MonitorThread

LEMMA TypeTransmit ==
  ASSUME NEW h \in Host, TypeOK, Transmit(h)
  PROVE  TypeOK'
  <1>1. sq[h] \in Seq(Updates \cup {"ref"}) /\ sq[h] # <<>>
    BY DEF Transmit, TypeOK
  <1>2. Head(sq[h]) \in Updates \cup {"ref"} /\ Tail(sq[h]) \in Seq(Updates \cup {"ref"})
    BY <1>1, HeadTailProperties
  <1>3. sq' \in [Host -> Seq(Updates \cup {"ref"})]
    BY <1>2 DEF Transmit, TypeOK
  <1>4. scq' \in [Host -> Seq({"send", "ref"})]
    <2>1. /\ Append(scq[h], "send") \in Seq({"send", "ref"})
          /\ Append(scq[h], "ref") \in Seq({"send", "ref"})
      BY AppendProperties DEF TypeOK
    <2> QED
      BY <2>1 DEF Transmit, TypeOK
  <1>5. sbuf' \in [Host -> Updates \cup {None}]
    BY <1>2 DEF Transmit, TypeOK
  <1>6. srr' \in [Host -> BOOLEAN]
    BY DEF Transmit, TypeOK
  <1> QED
    BY <1>3, <1>4, <1>5, <1>6 DEF Transmit, TypeOK

LEMMA TypeServer ==
  ASSUME TypeOK, Server
  PROVE  TypeOK'
  <1>1. CASE ServerPoll
    <2>1. CASE sbuf[si] = None
      BY <1>1, <2>1, FollowingHost DEF ServerPoll, TypeOK, hostVars
    <2>2. CASE sbuf[si] # None
      <3>1. sbuf[si] \in AllUpdates
        BY <2>2, UpdatesAssumption DEF TypeOK
      <3>2. counts' \in [big : 0 .. CountMod - 1, small : 0 .. CountMod - 1]
        BY <1>1, <2>2, <3>1, CountedType DEF ServerPoll, TypeOK
      <3>3. sbuf' \in [Host -> Updates \cup {None}]
        BY <1>1, <2>2 DEF ServerPoll, TypeOK
      <3>4. srr' \in [Host -> BOOLEAN]
        BY <1>1, <2>2 DEF ServerPoll, TypeOK
      <3> QED
        <4>1. /\ si' = si /\ spc' = "send" /\ sj' = 0 /\ version' = version + 1
              /\ UNCHANGED <<hostVars, issued>>
          BY <1>1, <2>2 DEF ServerPoll
        <4> QED
          BY <3>2, <3>3, <3>4, <4>1, HostBounds DEF TypeOK, hostVars
    <2> QED
      BY <2>1, <2>2
  <1>2. CASE ServerSend
    BY <1>2 DEF ServerSend, TypeOK, hostVars
  <1>3. CASE Deliver
    <2>1. [big |-> counts.big, small |-> counts.small, version |-> version] \in Info
      BY DEF TypeOK, Info
    <2>2. rbuf' \in [Host -> Info \cup {None}]
      BY <1>3, <2>1 DEF Deliver, TypeOK
    <2>3. rr' \in [Host -> BOOLEAN]
      BY <1>3 DEF Deliver, TypeOK
    <2> QED
      BY <1>3, <2>2, <2>3 DEF Deliver, TypeOK
  <1>4. CASE ServerReap
    <2>1. CASE sj < NumClients - 1
      BY <1>4, <2>1, HostBounds DEF ServerReap, TypeOK, hostVars
    <2>2. CASE ~ (sj < NumClients - 1)
      BY <1>4, <2>2, FollowingHost DEF ServerReap, TypeOK, hostVars
    <2> QED
      BY <2>1, <2>2
  <1> QED
    BY <1>1, <1>2, <1>3, <1>4 DEF Server

LEMMA TypeStep == TypeOK /\ [Next]_vars => TypeOK'
  <1> SUFFICES ASSUME TypeOK, [Next]_vars
               PROVE  TypeOK'
    OBVIOUS
  <1>1. CASE UNCHANGED vars
    BY <1>1 DEF vars, hostVars, serverVars, TypeOK
  <1> QED
    BY <1>1, TypeHandler, TypeMonitor, TypeTransmit, TypeServer DEF Next

(* Every variable keeps its type, for any number of hosts: the receiver     *)
(* stays within its table of clients and its counters within 16 bits       *)
(* (server_loop, flow_handler, monitor_latency).                           *)
THEOREM TypeCorrect == Spec => []TypeOK
  <1>1. Init => TypeOK
    BY TypeInit
  <1>2. TypeOK /\ [Next]_vars => TypeOK'
    BY TypeStep
  <1> QED
    BY <1>1, <1>2, PTL DEF Spec, SafeSpec

-----------------------------------------------------------------------------
(* One completion for each thread that polls send_cq.                      *)

Waiting(h) == (IF hpc[h] = "wait" THEN 1 ELSE 0) + (IF mpc[h] = "wait" THEN 1 ELSE 0)

LEMMA Lengths ==
  ASSUME NEW h \in Host, TypeOK
  PROVE  /\ Len(sq[h]) \in Nat /\ Len(scq[h]) \in Nat
         /\ \A m \in Updates \cup {"ref"} : Len(Append(sq[h], m)) = Len(sq[h]) + 1
         /\ \A c \in {"send", "ref"} : Len(Append(scq[h], c)) = Len(scq[h]) + 1
         /\ sq[h] # <<>> => Len(Tail(sq[h])) = Len(sq[h]) - 1
         /\ scq[h] # <<>> => Len(Tail(scq[h])) = Len(scq[h]) - 1
  <1>1. sq[h] \in Seq(Updates \cup {"ref"}) /\ scq[h] \in Seq({"send", "ref"})
    BY DEF TypeOK
  <1> QED
    BY <1>1, LenProperties, AppendProperties, HeadTailProperties

(* What a step of host h does to its own lengths; the others stay.          *)
LEMMA CompletionFrame ==
  ASSUME NEW h \in Host, TypeOK, OneCompletionEach,
         \A g \in Host \ {h} : /\ sq'[g] = sq[g] /\ scq'[g] = scq[g]
                               /\ hpc'[g] = hpc[g] /\ mpc'[g] = mpc[g],
         Len(sq'[h]) + Len(scq'[h]) = Waiting(h)'
  PROVE  OneCompletionEach'
  <1>1. \A g \in Host \ {h} : Len(sq'[g]) + Len(scq'[g]) = Waiting(g)'
    BY DEF OneCompletionEach, Waiting
  <1> QED
    BY <1>1 DEF OneCompletionEach, Waiting

LEMMA CompletionStep ==
  TypeOK /\ OneCompletionEach /\ [Next]_vars => OneCompletionEach'
  <1> SUFFICES ASSUME TypeOK, OneCompletionEach, [Next]_vars
               PROVE  OneCompletionEach'
    OBVIOUS
  <1>1. ASSUME NEW h \in Host, HandlerReap(h)
        PROVE  OneCompletionEach'
    <2>1. /\ Len(scq'[h]) = Len(scq[h]) - 1 /\ sq' = sq
          /\ Waiting(h)' = Waiting(h) - 1
      BY <1>1, Lengths DEF HandlerReap, Waiting, TypeOK
    <2>2. Len(sq[h]) \in Nat /\ Len(scq[h]) \in Nat \ {0} /\ Waiting(h) \in Nat
      BY <1>1, Lengths, EmptySeq DEF HandlerReap, Waiting, TypeOK
    <2>3. Len(sq[h]) + Len(scq[h]) = Waiting(h)
      BY DEF OneCompletionEach, Waiting
    <2>4. Len(sq'[h]) + Len(scq'[h]) = Waiting(h)'
      <3>1. PICK a, b, w \in Nat : a = Len(sq[h]) /\ b = Len(scq[h]) /\ w = Waiting(h)
        BY <2>2
      <3>2. Len(sq'[h]) = a /\ Len(scq'[h]) = b - 1 /\ Waiting(h)' = w - 1
        BY <3>1, <2>1, <2>2, Zenon
      <3>3. a + b = w
        BY <3>1, <2>3, Zenon
      <3>4. (a) + (b - 1) = w - 1
        BY <3>3
      <3> QED
        BY <3>2, <3>4, Zenon
    <2>5. \A g \in Host \ {h} : /\ sq'[g] = sq[g] /\ scq'[g] = scq[g]
                                /\ hpc'[g] = hpc[g] /\ mpc'[g] = mpc[g]
      BY <1>1 DEF HandlerReap, TypeOK
    <2> QED
      BY <2>4, <2>5, CompletionFrame
  <1>2. ASSUME NEW h \in Host, NEW m \in Updates, SendUpdate(h, m)
        PROVE  OneCompletionEach'
    <2>1. /\ Len(sq'[h]) = Len(sq[h]) + 1 /\ scq' = scq
          /\ Waiting(h)' = Waiting(h) + 1
      BY <1>2, Lengths DEF SendUpdate, Waiting, TypeOK
    <2>2. Len(sq[h]) \in Nat /\ Len(scq[h]) \in Nat /\ Waiting(h) \in Nat
      BY Lengths DEF Waiting
    <2>3. Len(sq[h]) + Len(scq[h]) = Waiting(h)
      BY DEF OneCompletionEach, Waiting
    <2>4. Len(sq'[h]) + Len(scq'[h]) = Waiting(h)'
      <3>1. PICK a, b, w \in Nat : a = Len(sq[h]) /\ b = Len(scq[h]) /\ w = Waiting(h)
        BY <2>2
      <3>2. Len(sq'[h]) = a + 1 /\ Len(scq'[h]) = b /\ Waiting(h)' = w + 1
        BY <3>1, <2>1, <2>2, Zenon
      <3>3. a + b = w
        BY <3>1, <2>3, Zenon
      <3>4. (a + 1) + (b) = w + 1
        BY <3>3
      <3> QED
        BY <3>2, <3>4, Zenon
    <2>5. \A g \in Host \ {h} : /\ sq'[g] = sq[g] /\ scq'[g] = scq[g]
                                /\ hpc'[g] = hpc[g] /\ mpc'[g] = mpc[g]
      BY <1>2 DEF SendUpdate, TypeOK
    <2> QED
      BY <2>4, <2>5, CompletionFrame
  <1>3. ASSUME NEW h \in Host, MonitorPost(h)
        PROVE  OneCompletionEach'
    <2>1. /\ Len(sq'[h]) = Len(sq[h]) + 1 /\ scq' = scq
          /\ Waiting(h)' = Waiting(h) + 1
      BY <1>3, Lengths DEF MonitorPost, Waiting, TypeOK
    <2>2. Len(sq[h]) \in Nat /\ Len(scq[h]) \in Nat /\ Waiting(h) \in Nat
      BY Lengths DEF Waiting
    <2>3. Len(sq[h]) + Len(scq[h]) = Waiting(h)
      BY DEF OneCompletionEach, Waiting
    <2>4. Len(sq'[h]) + Len(scq'[h]) = Waiting(h)'
      <3>1. PICK a, b, w \in Nat : a = Len(sq[h]) /\ b = Len(scq[h]) /\ w = Waiting(h)
        BY <2>2
      <3>2. Len(sq'[h]) = a + 1 /\ Len(scq'[h]) = b /\ Waiting(h)' = w + 1
        BY <3>1, <2>1, <2>2, Zenon
      <3>3. a + b = w
        BY <3>1, <2>3, Zenon
      <3>4. (a + 1) + (b) = w + 1
        BY <3>3
      <3> QED
        BY <3>2, <3>4, Zenon
    <2>5. \A g \in Host \ {h} : /\ sq'[g] = sq[g] /\ scq'[g] = scq[g]
                                /\ hpc'[g] = hpc[g] /\ mpc'[g] = mpc[g]
      BY <1>3 DEF MonitorPost, TypeOK
    <2> QED
      BY <2>4, <2>5, CompletionFrame
  <1>4. ASSUME NEW h \in Host, MonitorReap(h)
        PROVE  OneCompletionEach'
    <2>1. /\ Len(scq'[h]) = Len(scq[h]) - 1 /\ sq' = sq
          /\ Waiting(h)' = Waiting(h) - 1
      BY <1>4, Lengths DEF MonitorReap, Waiting, TypeOK
    <2>2. Len(sq[h]) \in Nat /\ Len(scq[h]) \in Nat \ {0} /\ Waiting(h) \in Nat
      BY <1>4, Lengths, EmptySeq DEF MonitorReap, Waiting, TypeOK
    <2>3. Len(sq[h]) + Len(scq[h]) = Waiting(h)
      BY DEF OneCompletionEach, Waiting
    <2>4. Len(sq'[h]) + Len(scq'[h]) = Waiting(h)'
      <3>1. PICK a, b, w \in Nat : a = Len(sq[h]) /\ b = Len(scq[h]) /\ w = Waiting(h)
        BY <2>2
      <3>2. Len(sq'[h]) = a /\ Len(scq'[h]) = b - 1 /\ Waiting(h)' = w - 1
        BY <3>1, <2>1, <2>2, Zenon
      <3>3. a + b = w
        BY <3>1, <2>3, Zenon
      <3>4. (a) + (b - 1) = w - 1
        BY <3>3
      <3> QED
        BY <3>2, <3>4, Zenon
    <2>5. \A g \in Host \ {h} : /\ sq'[g] = sq[g] /\ scq'[g] = scq[g]
                                /\ hpc'[g] = hpc[g] /\ mpc'[g] = mpc[g]
      BY <1>4 DEF MonitorReap, TypeOK
    <2> QED
      BY <2>4, <2>5, CompletionFrame
  <1>5. ASSUME NEW h \in Host, Transmit(h)
        PROVE  OneCompletionEach'
    <2>1. PICK c \in {"send", "ref"} : scq' = [scq EXCEPT ![h] = Append(@, c)]
      BY <1>5 DEF Transmit
    <2>2. /\ Len(sq'[h]) = Len(sq[h]) - 1
          /\ Len(scq'[h]) = Len(scq[h]) + 1
          /\ Waiting(h)' = Waiting(h)
      BY <1>5, <2>1, Lengths DEF Transmit, Waiting, TypeOK
    <2>3. Len(sq[h]) \in Nat \ {0} /\ Len(scq[h]) \in Nat /\ Waiting(h) \in Nat
      BY <1>5, Lengths, EmptySeq DEF Transmit, Waiting, TypeOK
    <2>4. Len(sq[h]) + Len(scq[h]) = Waiting(h)
      BY DEF OneCompletionEach, Waiting
    <2>5. Len(sq'[h]) + Len(scq'[h]) = Waiting(h)'
      <3>1. PICK a, b, w \in Nat : a = Len(sq[h]) /\ b = Len(scq[h]) /\ w = Waiting(h)
        BY <2>3
      <3>2. Len(sq'[h]) = a - 1 /\ Len(scq'[h]) = b + 1 /\ Waiting(h)' = w
        BY <3>1, <2>2, Zenon
      <3>3. a + b = w
        BY <3>1, <2>4, Zenon
      <3>4. (a - 1) + (b + 1) = w
        BY <3>3
      <3> QED
        BY <3>2, <3>4, Zenon
    <2>6. \A g \in Host \ {h} : /\ sq'[g] = sq[g] /\ scq'[g] = scq[g]
                                /\ hpc'[g] = hpc[g] /\ mpc'[g] = mpc[g]
      BY <1>5 DEF Transmit, TypeOK
    <2> QED
      BY <2>5, <2>6, CompletionFrame
  <1>6. ASSUME UNCHANGED <<sq, scq, hpc, mpc>>
        PROVE  OneCompletionEach'
    BY <1>6 DEF OneCompletionEach
  <1>7. ASSUME NEW h \in Host, MonitorRecv(h)
        PROVE  OneCompletionEach'
    BY <1>7 DEF MonitorRecv, OneCompletionEach, TypeOK
  <1>8. Server => UNCHANGED <<sq, scq, hpc, mpc>>
    BY DEF Server, ServerPoll, ServerSend, Deliver, ServerReap, hostVars
  <1>9. UNCHANGED vars => UNCHANGED <<sq, scq, hpc, mpc>>
    BY DEF vars, hostVars
  <1> QED
    BY <1>1, <1>2, <1>3, <1>4, <1>5, <1>6, <1>7, <1>8, <1>9
    DEF Next, Handler, MonitorThread

(* However the two threads of a host take each other's completions off      *)
(* send_cq, as many are there or to come as threads wait for one           *)
(* (flow_handler, monitor_latency).                                        *)
THEOREM CompletionForEach == Spec => []OneCompletionEach
  <1>1. Init => OneCompletionEach
    BY EmptySeq DEF Init, OneCompletionEach
  <1>2. TypeOK /\ OneCompletionEach /\ [Next]_vars => OneCompletionEach'
    BY CompletionStep
  <1> QED
    BY <1>1, <1>2, TypeCorrect, PTL DEF Spec, SafeSpec

-----------------------------------------------------------------------------
(* How far behind the view of a host may be.                                *)

(* The version of the last INFO that reached the host: that of the          *)
(* broadcast under way, if the broadcast has come to the host, or the one  *)
(* before.                                                                 *)
Reached(h) == spc = "poll" \/ h < sj \/ (spc = "sent" /\ h = sj)
LastInfo(h) == IF Reached(h) THEN version ELSE version - 1

(* recv_buf is free while the receive request is posted; the host has read  *)
(* all of its INFO but the one in recv_buf.                                *)
ViewInv ==
  \A h \in Host :
    /\ rr[h] => rbuf[h] = None
    /\ rbuf[h] = None => view[h].version = LastInfo(h)
    /\ rbuf[h] # None => rbuf[h].version = LastInfo(h) /\ view[h].version = LastInfo(h) - 1

LEMMA ViewInit == Init => ViewInv
  BY DEF Init, ViewInv, LastInfo, Reached

(* The steps that touch neither the broadcast nor what the hosts got of it. *)
LEMMA ViewFrame ==
  ASSUME ViewInv, UNCHANGED <<rr, rbuf, view, spc, sj, version>>
  PROVE  ViewInv'
  BY DEF ViewInv, LastInfo, Reached

LEMMA ViewStep == TypeOK /\ ViewInv /\ [Next]_vars => ViewInv'
  <1> SUFFICES ASSUME TypeOK, ViewInv, [Next]_vars
               PROVE  ViewInv'
    OBVIOUS
  <1>1. ASSUME NEW h \in Host, MonitorRecv(h)
        PROVE  ViewInv'
    <2>1. \A g \in Host : LastInfo(g)' = LastInfo(g)
      BY <1>1 DEF MonitorRecv, LastInfo, Reached, serverVars
    <2>2. CASE rbuf[h] = None
      BY <1>1, <2>1, <2>2 DEF MonitorRecv, ViewInv
    <2>3. CASE rbuf[h] # None
      <3>1. /\ rbuf[h].version = LastInfo(h)
            /\ view' = [view EXCEPT ![h] = rbuf[h]]
            /\ rbuf' = [rbuf EXCEPT ![h] = None]
            /\ rr' = [rr EXCEPT ![h] = TRUE]
        BY <1>1, <2>3 DEF MonitorRecv, ViewInv
      <3>2. /\ view \in [Host -> Info] /\ rbuf \in [Host -> Info \cup {None}]
            /\ rr \in [Host -> BOOLEAN]
        BY DEF TypeOK
      <3> QED
        BY <2>1, <3>1, <3>2 DEF ViewInv
    <2> QED
      BY <2>2, <2>3
  <1>2. CASE ServerPoll
    <2>1. CASE sbuf[si] = None
      BY <1>2, <2>1, ViewFrame DEF ServerPoll, hostVars
    <2>2. CASE sbuf[si] # None
      <3>1. \A h \in Host : LastInfo(h) = version /\ LastInfo(h)' = version
        BY <1>2, <2>2, HostBounds DEF ServerPoll, LastInfo, Reached, TypeOK
      <3> QED
        BY <1>2, <3>1 DEF ServerPoll, hostVars, ViewInv
    <2> QED
      BY <2>1, <2>2
  <1>3. CASE ServerSend
    <2>1. \A h \in Host : LastInfo(h)' = LastInfo(h)
      BY <1>3 DEF ServerSend, LastInfo, Reached
    <2> QED
      BY <1>3, <2>1 DEF ServerSend, hostVars, ViewInv
  <1>4. CASE Deliver
    <2>1. PICK j \in Host : j = sj
      BY DEF TypeOK
    <2>2. PICK info \in Info : info.version = version /\ rbuf' = [rbuf EXCEPT ![j] = info]
      BY <1>4, <2>1 DEF Deliver, TypeOK, Info
    <2>3. /\ rbuf[j] = None /\ view[j].version = LastInfo(j)
          /\ LastInfo(j) = version - 1 /\ LastInfo(j)' = version
      BY <1>4, <2>1, HostBounds DEF Deliver, ViewInv, LastInfo, Reached
    <2>4. \A h \in Host \ {j} : LastInfo(h)' = LastInfo(h)
      BY <1>4, <2>1 DEF Deliver, LastInfo, Reached
    <2>5. rbuf \in [Host -> Info \cup {None}] /\ rr \in [Host -> BOOLEAN]
      BY DEF TypeOK
    <2>6. ASSUME NEW h \in Host \ {j}
          PROVE  rr'[h] = rr[h] /\ rbuf'[h] = rbuf[h] /\ view' = view
      BY <1>4, <2>1, <2>2, <2>5 DEF Deliver
    <2>7. ~ rr'[j] /\ rbuf'[j] = info /\ info # None /\ view' = view
      BY <1>4, <2>1, <2>2, <2>5, InfoIsNotNone DEF Deliver
    <2>8. ASSUME NEW h \in Host
          PROVE  /\ rr'[h] => rbuf'[h] = None
                 /\ rbuf'[h] = None => view'[h].version = LastInfo(h)'
                 /\ rbuf'[h] # None => /\ rbuf'[h].version = LastInfo(h)'
                                      /\ view'[h].version = LastInfo(h)' - 1
      <3>1. CASE h # j
        BY <2>4, <2>6, <3>1 DEF ViewInv
      <3>2. CASE h = j
        BY <2>2, <2>3, <2>7, <3>2, Zenon
      <3> QED
        BY <3>1, <3>2
    <2> QED
      BY <2>8, Zenon DEF ViewInv
  <1>5. CASE ServerReap
    <2>1. \A h \in Host : LastInfo(h)' = LastInfo(h)
      <3>1. CASE sj < NumClients - 1
        BY <1>5, <3>1, HostBounds DEF ServerReap, LastInfo, Reached, TypeOK
      <3>2. CASE ~ (sj < NumClients - 1)
        <4>1. \A h \in Host : h < sj \/ h = sj
          BY <3>2, ClientsAssumption DEF Host, TypeOK
        <4> QED
          BY <1>5, <3>2, <4>1 DEF ServerReap, LastInfo, Reached
      <3> QED
        BY <3>1, <3>2
    <2> QED
      BY <1>5, <2>1 DEF ServerReap, hostVars, ViewInv
  <1>6. ASSUME NEW h \in Host, Handler(h) \/ Transmit(h) \/ MonitorPost(h) \/ MonitorReap(h)
        PROVE  ViewInv'
    BY <1>6, ViewFrame
    DEF Handler, HandlerReap, SendUpdate, Transmit, MonitorPost, MonitorReap, serverVars
  <1>7. CASE UNCHANGED vars
    BY <1>7, ViewFrame DEF vars, hostVars, serverVars
  <1> QED
    BY <1>1, <1>2, <1>3, <1>4, <1>5, <1>6, <1>7 DEF Next, Server, MonitorThread

(* A host misses at most the last two updates the receiver has counted, for *)
(* any number of hosts and however slow its monitor is: the broadcast does *)
(* not go on before the host has a receive request for it (server_loop,    *)
(* monitor_latency).                                                       *)
THEOREM TwoBehindAtMost == Spec => []BoundedStaleness
  <1>1. Init => ViewInv
    BY ViewInit
  <1>2. TypeOK /\ ViewInv /\ [Next]_vars => ViewInv'
    BY ViewStep
  <1>3. TypeOK /\ ViewInv => BoundedStaleness
    <2> SUFFICES ASSUME TypeOK, ViewInv, NEW h \in Host
                 PROVE  version - view[h].version <= 2
      BY DEF BoundedStaleness
    <2>1. view[h].version \in Nat /\ version \in Nat
      BY DEF TypeOK, Info
    <2>2. LastInfo(h) \in {version, version - 1}
      BY DEF LastInfo
    <2>3. view[h].version \in {LastInfo(h), LastInfo(h) - 1}
      BY DEF ViewInv
    <2> QED
      BY <2>1, <2>2, <2>3
  <1> QED
    BY <1>1, <1>2, <1>3, TypeCorrect, PTL DEF Spec, SafeSpec

-----------------------------------------------------------------------------
(* The receiver's counters.                                                *)

Occurrences(s, m) == {k \in DOMAIN s : s[k] = m}

LEMMA OccurrencesFinite ==
  ASSUME NEW S, NEW s \in Seq(S), NEW m
  PROVE  IsFiniteSet(Occurrences(s, m)) /\ Cardinality(Occurrences(s, m)) \in Nat
  <1>1. DOMAIN s = 1 .. Len(s) /\ Len(s) \in Nat
    BY LenProperties
  <1>2. IsFiniteSet(1 .. Len(s))
    BY <1>1, FS_Interval
  <1>3. Occurrences(s, m) \in SUBSET (1 .. Len(s))
    BY <1>1 DEF Occurrences
  <1> QED
    BY <1>2, <1>3, FS_Subset, FS_CardinalityType

LEMMA OccurrencesAppend ==
  ASSUME NEW S, NEW s \in Seq(S), NEW e \in S, NEW m
  PROVE  Cardinality(Occurrences(Append(s, e), m)) =
           Cardinality(Occurrences(s, m)) + (IF e = m THEN 1 ELSE 0)
  <1> DEFINE n == Len(s) + 1
             A == Occurrences(s, m)
             B == Occurrences(Append(s, e), m)
  <1>1. /\ DOMAIN s = 1 .. Len(s) /\ Len(s) \in Nat
        /\ DOMAIN Append(s, e) = 1 .. n
        /\ \A k \in 1 .. Len(s) : Append(s, e)[k] = s[k]
        /\ Append(s, e)[n] = e
    BY LenProperties, AppendProperties
  <1>2. B = IF e = m THEN A \cup {n} ELSE A
    BY <1>1 DEF Occurrences
  <1>3. n \notin A
    BY <1>1 DEF Occurrences
  <1>4. IsFiniteSet(A) /\ Cardinality(A) \in Nat
    BY OccurrencesFinite
  <1> HIDE DEF A, B, n
  <1>5. Cardinality(A \cup {n}) = Cardinality(A) + 1
    BY <1>3, <1>4, FS_AddElement
  <1>6. Cardinality(B) = Cardinality(A) + (IF e = m THEN 1 ELSE 0)
    BY <1>2, <1>4, <1>5
  <1> QED
    BY <1>6 DEF A, B

LEMMA OccurrencesTail ==
  ASSUME NEW S, NEW s \in Seq(S), s # <<>>, NEW m
  PROVE  Cardinality(Occurrences(s, m)) =
           Cardinality(Occurrences(Tail(s), m)) + (IF Head(s) = m THEN 1 ELSE 0)
  <1> DEFINE A == Occurrences(s, m) \ {1}
             B == Occurrences(Tail(s), m)
             f == [k \in A |-> k - 1]
  <1>1. /\ DOMAIN s = 1 .. Len(s) /\ Len(s) \in Nat \ {0}
        /\ DOMAIN Tail(s) = 1 .. Len(s) - 1
        /\ \A k \in 1 .. Len(s) - 1 : Tail(s)[k] = s[k + 1]
        /\ Head(s) = s[1]
    BY LenProperties, HeadTailProperties, EmptySeq
  <1>2. IsFiniteSet(Occurrences(s, m)) /\ Cardinality(Occurrences(s, m)) \in Nat
    BY OccurrencesFinite
  <1>3. IsFiniteSet(A)
        /\ Cardinality(A) = IF 1 \in Occurrences(s, m) THEN Cardinality(Occurrences(s, m)) - 1
                                                       ELSE Cardinality(Occurrences(s, m))
    BY <1>2, FS_RemoveElement
  <1>4. 1 \in Occurrences(s, m) <=> Head(s) = m
    BY <1>1 DEF Occurrences
  <1>5. f \in Bijection(A, B)
    <2>1. \A k \in A : k \in 2 .. Len(s) /\ s[k] = m
      BY <1>1 DEF Occurrences
    <2>2. \A j \in B : j \in 1 .. Len(s) - 1 /\ s[j + 1] = m
      BY <1>1 DEF Occurrences
    <2>3. \A k \in A : k - 1 \in B
      BY <1>1, <2>1 DEF Occurrences
    <2>4. \A j \in B : j + 1 \in A
      BY <1>1, <2>2 DEF Occurrences
    <2>5. f \in [A -> B]
      BY <2>3
    <2>6. \A a, b \in A : f[a] = f[b] => a = b
      BY <2>1
    <2>7. \A j \in B : \E k \in A : f[k] = j
      BY <2>2, <2>4
    <2> HIDE DEF f, A, B
    <2>8. f \in Injection(A, B) /\ f \in Surjection(A, B)
      BY <2>5, <2>6, <2>7 DEF Injection, Surjection, IsInjective
    <2> QED
      BY <2>8 DEF Bijection
  <1>6. Cardinality(B) = Cardinality(A)
    <2> HIDE DEF f, A, B
    <2>1. ExistsBijection(A, B)
      BY <1>5 DEF ExistsBijection
    <2> QED
      BY <1>3, <2>1, FS_Bijection
  <1> QED
    BY <1>2, <1>3, <1>4, <1>6

(* The updates of kind m that host h has queued, that lie in its buffer on  *)
(* the receiver, and that the receiver has counted for it.                 *)
Queued(h, m) == Cardinality(Occurrences(sq[h], m))
Held(h, m) == IF sbuf[h] = m THEN 1 ELSE 0
Net(h, m) == issued[h][m] - (Queued(h, m) + Held(h, m))
Terms(m) == [h \in Host |-> Net(h, m)]

(* A posted receive request has a free buffer.                              *)
BufferFree == \A h \in Host : srr[h] => sbuf[h] = None

AccountInv == BufferFree /\ CountsAccountForUpdates

LEMMA NetType ==
  ASSUME TypeOK, NEW h \in Host, NEW m \in AllUpdates
  PROVE  /\ Queued(h, m) \in Nat /\ Held(h, m) \in 0 .. 1
         /\ issued[h][m] \in Nat /\ Net(h, m) \in Int
  <1>1. sq[h] \in Seq(Updates \cup {"ref"}) /\ issued[h][m] \in Nat
    BY DEF TypeOK
  <1>2. Queued(h, m) \in Nat
    BY <1>1, OccurrencesFinite DEF Queued
  <1>3. Held(h, m) \in 0 .. 1
    BY DEF Held
  <1> QED
    BY <1>1, <1>2, <1>3 DEF Net

LEMMA CountedOfNet ==
  ASSUME NEW m
  PROVE  CountedOf(m) = SumFunctionOnSet(Terms(m), Host)
  BY DEF CountedOf, Terms, Net, InFlight, Queued, Held, Occurrences

LEMMA TermsType ==
  ASSUME TypeOK, NEW m \in AllUpdates
  PROVE  /\ IsFiniteSet(Host) /\ Terms(m) \in [Host -> Int]
         /\ CountedOf(m) \in Int
  <1>1. IsFiniteSet(Host)
    BY ClientsAssumption, FS_Interval DEF Host
  <1>2. Terms(m) \in [Host -> Int]
    BY NetType DEF Terms
  <1>3. SumFunctionOnSet(Terms(m), Host) \in Int
    BY <1>1, <1>2, SumType
  <1> QED
    BY <1>1, <1>2, <1>3, CountedOfNet

(* A step under which no host's account changes.                            *)
LEMMA AccountFrame ==
  ASSUME TypeOK, CountsAccountForUpdates, counts' = counts,
         \A h \in Host : \A m \in AllUpdates : Net(h, m)' = Net(h, m)
  PROVE  CountsAccountForUpdates'
  <1>1. ASSUME NEW m \in AllUpdates
        PROVE  CountedOf(m)' = CountedOf(m)
    <2>1. Terms(m)' = Terms(m)
      BY DEF Terms
    <2>2. CountedOf(m) = SumFunctionOnSet(Terms(m), Host)
      BY CountedOfNet
    <2>3. CountedOf(m)' = SumFunctionOnSet(Terms(m)', Host)
      BY DEF CountedOf, Terms, Net, InFlight, Queued, Held, Occurrences
    <2> QED
      BY <2>1, <2>2, <2>3
  <1> QED
    BY <1>1 DEF CountsAccountForUpdates, AllUpdates

(* An update handed to flow_handler is under way at once.                   *)
LEMMA AccountSend ==
  ASSUME TypeOK, NEW h \in Host, NEW e \in Updates, SendUpdate(h, e)
  PROVE  \A g \in Host : \A m \in AllUpdates : Net(g, m)' = Net(g, m)
  <1> SUFFICES ASSUME NEW g \in Host, NEW m \in AllUpdates
               PROVE  Net(g, m)' = Net(g, m)
    OBVIOUS
  <1>1. CASE g # h
    <2>1. sq'[g] = sq[g] /\ sbuf'[g] = sbuf[g] /\ issued'[g] = issued[g]
      BY <1>1 DEF SendUpdate, serverVars, TypeOK
    <2> QED
      BY <2>1 DEF Net, Queued, Held
  <1>2. CASE g = h
    <2>1. sq[h] \in Seq(Updates \cup {"ref"}) /\ sq'[h] = Append(sq[h], e)
      BY DEF TypeOK, SendUpdate
    <2>2. Held(h, m)' = Held(h, m)
      BY DEF SendUpdate, serverVars, Held
    <2>3. CASE e = m
      <3>1. issued'[h][m] = issued[h][m] + 1
        <4>1. issued' = [issued EXCEPT ![h] = [issued[h] EXCEPT ![e] = issued[h][e] + 1]]
          BY DEF SendUpdate
        <4>2. issued \in [Host -> [AllUpdates -> Nat]]
          BY DEF TypeOK
        <4>3. issued'[h] = [issued[h] EXCEPT ![m] = issued[h][m] + 1]
          BY <2>3, <4>1, <4>2
        <4>4. issued[h] \in [AllUpdates -> Nat]
          BY <4>2
        <4> QED
          BY <4>3, <4>4
      <3>2. Queued(h, m)' = Queued(h, m) + 1
        BY <2>1, <2>3, OccurrencesAppend DEF Queued
      <3> QED
        BY <1>2, <2>2, <3>1, <3>2, NetType DEF Net
    <2>4. CASE e # m
      <3>1. issued'[h][m] = issued[h][m]
        BY <2>4 DEF SendUpdate, TypeOK
      <3>2. Queued(h, m)' = Queued(h, m) + 0
        BY <2>1, <2>4, OccurrencesAppend DEF Queued
      <3> QED
        BY <1>2, <2>2, <3>1, <3>2, NetType DEF Net
    <2> QED
      BY <2>3, <2>4
  <1> QED
    BY <1>1, <1>2

(* The queue pair moves it, and a reference write is no update.             *)
LEMMA AccountTransmit ==
  ASSUME TypeOK, BufferFree, NEW h \in Host, Transmit(h)
  PROVE  \A g \in Host : \A m \in AllUpdates : Net(g, m)' = Net(g, m)
  <1> SUFFICES ASSUME NEW g \in Host, NEW m \in AllUpdates
               PROVE  Net(g, m)' = Net(g, m)
    OBVIOUS
  <1>1. CASE g # h
    <2>1. sq'[g] = sq[g] /\ sbuf'[g] = sbuf[g] /\ issued'[g] = issued[g]
      BY <1>1 DEF Transmit, TypeOK
    <2> QED
      BY <2>1 DEF Net, Queued, Held
  <1>2. CASE g = h
    <2>1. sq[h] \in Seq(Updates \cup {"ref"}) /\ sq[h] # <<>> /\ sq'[h] = Tail(sq[h])
          /\ issued' = issued
      BY DEF TypeOK, Transmit
    <2>2. Queued(h, m) = Queued(h, m)' + (IF Head(sq[h]) = m THEN 1 ELSE 0)
      BY <2>1, OccurrencesTail DEF Queued
    <2>3. sq'[h] \in Seq(Updates \cup {"ref"})
      BY <2>1, HeadTailProperties
    <2>4. Queued(h, m)' \in Nat
      BY <2>3, OccurrencesFinite DEF Queued
    <2>5. CASE Head(sq[h]) = "ref"
      <3>1. sbuf' = sbuf /\ Head(sq[h]) # m
        BY <2>5 DEF Transmit, AllUpdates
      <3>2. Queued(h, m)' = Queued(h, m)
        BY <2>2, <2>4, <3>1
      <3> QED
        BY <1>2, <2>1, <3>1, <3>2 DEF Net, Held
    <2>6. CASE Head(sq[h]) # "ref"
      <3>1. sbuf[h] = None /\ sbuf'[h] = Head(sq[h]) /\ m # None
        BY <2>6, NoneAssumption DEF Transmit, BufferFree, TypeOK
      <3>2. Held(h, m) = 0 /\ Held(h, m)' = (IF Head(sq[h]) = m THEN 1 ELSE 0)
        BY <3>1 DEF Held
      <3>3. Queued(h, m)' + Held(h, m)' = Queued(h, m) + Held(h, m)
        BY <2>2, <2>4, <3>2
      <3> QED
        BY <1>2, <2>1, <3>3 DEF Net
    <2> QED
      BY <2>5, <2>6
  <1> QED
    BY <1>1, <1>2

LEMMA AccountPost ==
  ASSUME TypeOK, NEW h \in Host, MonitorPost(h)
  PROVE  \A g \in Host : \A m \in AllUpdates : Net(g, m)' = Net(g, m)
  <1> SUFFICES ASSUME NEW g \in Host, NEW m \in AllUpdates
               PROVE  Net(g, m)' = Net(g, m)
    OBVIOUS
  <1>1. sbuf' = sbuf /\ issued' = issued
    BY DEF MonitorPost, serverVars
  <1>2. sq[g] \in Seq(Updates \cup {"ref"})
    BY DEF TypeOK
  <1>3. sq'[g] = sq[g] \/ sq'[g] = Append(sq[g], "ref")
    BY DEF MonitorPost, TypeOK
  <1>4. "ref" # m
    BY DEF AllUpdates
  <1>5. Cardinality(Occurrences(Append(sq[g], "ref"), m)) = Queued(g, m) + 0
    BY <1>2, <1>4, OccurrencesAppend DEF Queued
  <1>6. Queued(g, m)' = Queued(g, m)
    <2>1. Queued(g, m)' \in {Queued(g, m), Queued(g, m) + 0}
      BY <1>3, <1>5, Zenon DEF Queued
    <2> QED
      BY <2>1, NetType
  <1> QED
    BY <1>1, <1>6 DEF Net, Held

(* server_loop counts the update in the host's buffer.                      *)
LEMMA AccountPoll ==
  ASSUME TypeOK, CountsAccountForUpdates, ServerPoll, sbuf[si] # None
  PROVE  CountsAccountForUpdates'
  <1>0. PICK i \in Host, e \in AllUpdates : i = si /\ e = sbuf[i]
    BY UpdatesAssumption DEF TypeOK
  <1> DEFINE One(m) == IF e = m THEN 1 ELSE 0
  <1>1. CountMod \in Nat \ {0}
    BY BoundAssumption
  <1>2. /\ sq' = sq /\ issued' = issued /\ sbuf' = [sbuf EXCEPT ![i] = None]
        /\ counts' = Counted(counts, e)
    BY <1>0 DEF ServerPoll, hostVars
  <1>3. ASSUME NEW m \in AllUpdates
        PROVE  CountedOf(m)' = CountedOf(m) + One(m)
    <2>1. ASSUME NEW h \in Host, h # i
          PROVE  Net(h, m)' = Net(h, m)
      BY <1>2, <2>1 DEF Net, Queued, Held, TypeOK
    <2>2. Held(i, m)' = 0 /\ Held(i, m) = One(m)
      <3>1. sbuf'[i] = None /\ None # m
        BY <1>2, NoneAssumption DEF TypeOK
      <3> QED
        BY <1>0, <3>1 DEF Held
    <2>3. Queued(i, m)' = Queued(i, m)
      BY <1>2 DEF Queued
    <2>4. Net(i, m)' = issued[i][m] - Queued(i, m)
      BY <1>2, <2>2, <2>3, NetType DEF Net
    <2>5. Net(i, m)' = Net(i, m) + One(m)
      <3>1. Net(i, m) = issued[i][m] - (Queued(i, m) + One(m))
        BY <2>2 DEF Net
      <3>2. issued[i][m] \in Nat /\ Queued(i, m) \in Nat /\ One(m) \in 0 .. 1
        BY NetType
      <3> HIDE DEF One
      <3> QED
        BY <2>4, <3>1, <3>2
    <2>6. /\ IsFiniteSet(Host) /\ Terms(m) \in [Host -> Int]
          /\ CountedOf(m) = SumFunctionOnSet(Terms(m), Host)
      BY TermsType, CountedOfNet
    <2>7. CountedOf(m)' = SumFunctionOnSet(Terms(m)', Host)
      BY DEF CountedOf, Terms, Net, InFlight, Queued, Held, Occurrences
    <2> DEFINE u == Terms(m)
               v == Terms(m)'
               d == One(m)
    <2>8. d \in Int
      OBVIOUS
    <2>9. \A x \in Host : u[x] = Net(x, m) /\ v[x] = Net(x, m)'
      BY DEF Terms
    <2>10. v[i] = u[i] + d /\ \A x \in Host : x # i => v[x] = u[x]
      BY <2>1, <2>5, <2>9
    <2>11. v \in [Host -> Int]
      <3>1. \A x \in Host : v[x] \in Int
        <4>1. \A x \in Host : u[x] \in Int
          BY <2>6
        <4> HIDE DEF u, v, d
        <4> QED
          BY <2>8, <2>10, <4>1
      <3>2. v = [x \in Host |-> v[x]]
        BY DEF Terms
      <3> HIDE DEF v
      <3> QED
        BY <3>1, <3>2
    <2>12. SumFunctionOnSet(v, Host) = SumFunctionOnSet(u, Host) + d
      <3>1. u \in [Host -> Int]
        BY <2>6
      <3> HIDE DEF u, v, d
      <3> QED
        BY <2>6, <2>8, <2>10, <2>11, <3>1, SumChange
    <2> QED
      BY <2>6, <2>7, <2>12
  <1>4. ASSUME NEW inc \in AllUpdates, NEW dec \in AllUpdates, NEW c \in 0 .. CountMod - 1,
               c = (CountedOf(inc) - CountedOf(dec)) % CountMod
        PROVE  /\ e = inc /\ e # dec
                    => (c + 1) % CountMod = (CountedOf(inc)' - CountedOf(dec)') % CountMod
               /\ e # inc /\ e = dec
                    => (c - 1) % CountMod = (CountedOf(inc)' - CountedOf(dec)') % CountMod
               /\ e # inc /\ e # dec
                    => c = (CountedOf(inc)' - CountedOf(dec)') % CountMod
    <2> DEFINE x == CountedOf(inc) - CountedOf(dec)
               y == CountedOf(inc)' - CountedOf(dec)'
    <2>1. CountedOf(inc) \in Int /\ CountedOf(dec) \in Int
      BY TermsType
    <2>2. /\ CountedOf(inc)' = CountedOf(inc) + One(inc)
          /\ CountedOf(dec)' = CountedOf(dec) + One(dec)
      BY <1>3
    <2>3. /\ e = inc /\ e # dec => y = x + 1
          /\ e # inc /\ e = dec => y = x + (-1)
          /\ e # inc /\ e # dec => y = x
      BY <2>1, <2>2
    <2>4. x \in Int /\ c = x % CountMod
      BY <1>4, <2>1
    <2> HIDE DEF x, y
    <2>5. ASSUME NEW d \in Int
          PROVE  (c + d) % CountMod = (x + d) % CountMod
      BY <1>1, <2>4, RemAdd
    <2>6. (c + 1) % CountMod = (x + 1) % CountMod
      BY <2>5
    <2>7. (c + (-1)) % CountMod = (x + (-1)) % CountMod
      BY <2>5
    <2>8. c + (-1) = c - 1
      BY <2>4
    <2> QED
      BY <2>3, <2>4, <2>6, <2>7, <2>8 DEF y
  <1>5. /\ counts.big \in 0 .. CountMod - 1 /\ counts.small \in 0 .. CountMod - 1
        /\ counts = [big |-> counts.big, small |-> counts.small]
    BY DEF TypeOK
  <1>6. counts'.big = CASE e = "big_inc" -> (counts.big + 1) % CountMod
                        [] e = "big_dec" -> (counts.big - 1) % CountMod
                        [] OTHER -> counts.big
    BY <1>1, <1>2, <1>5 DEF Counted, AllUpdates
  <1>7. counts'.small = CASE e = "small_inc" -> (counts.small + 1) % CountMod
                          [] e = "small_dec" -> (counts.small - 1) % CountMod
                          [] OTHER -> counts.small
    BY <1>1, <1>2, <1>5 DEF Counted, AllUpdates
  <1>8. counts'.big = (CountedOf("big_inc")' - CountedOf("big_dec")') % CountMod
    BY <1>1, <1>4, <1>5, <1>6 DEF CountsAccountForUpdates, AllUpdates
  <1>9. counts'.small = (CountedOf("small_inc")' - CountedOf("small_dec")') % CountMod
    BY <1>1, <1>4, <1>5, <1>7 DEF CountsAccountForUpdates, AllUpdates
  <1> QED
    BY <1>8, <1>9 DEF CountsAccountForUpdates

LEMMA AccountStep == TypeOK /\ AccountInv /\ [Next]_vars => AccountInv'
  <1> SUFFICES ASSUME TypeOK, AccountInv, [Next]_vars
               PROVE  AccountInv'
    OBVIOUS
  <1> USE DEF AccountInv
  <1>1. TypeOK'
    BY TypeStep
  <1>2. ASSUME NEW h \in Host, NEW m \in Updates, SendUpdate(h, m)
        PROVE  AccountInv'
    <2>1. \A g \in Host : \A e \in AllUpdates : Net(g, e)' = Net(g, e)
      BY <1>2, AccountSend
    <2>2. counts' = counts /\ BufferFree'
      BY <1>2 DEF SendUpdate, serverVars, BufferFree
    <2> QED
      BY <2>1, <2>2, AccountFrame
  <1>3. ASSUME NEW h \in Host, Transmit(h)
        PROVE  AccountInv'
    <2>1. \A g \in Host : \A e \in AllUpdates : Net(g, e)' = Net(g, e)
      BY <1>3, AccountTransmit
    <2>2. counts' = counts /\ BufferFree'
      BY <1>3 DEF Transmit, BufferFree, TypeOK
    <2> QED
      BY <2>1, <2>2, AccountFrame
  <1>4. ASSUME NEW h \in Host, MonitorPost(h)
        PROVE  AccountInv'
    <2>1. \A g \in Host : \A e \in AllUpdates : Net(g, e)' = Net(g, e)
      BY <1>4, AccountPost
    <2>2. counts' = counts /\ BufferFree'
      BY <1>4 DEF MonitorPost, serverVars, BufferFree
    <2> QED
      BY <2>1, <2>2, AccountFrame
  <1>5. ASSUME ServerPoll, sbuf[si] # None
        PROVE  AccountInv'
    <2>1. BufferFree'
      BY <1>5 DEF ServerPoll, BufferFree, TypeOK
    <2>2. CountsAccountForUpdates'
      BY <1>1, <1>5, AccountPoll
    <2> QED
      BY <2>1, <2>2
  <1>6. ASSUME UNCHANGED <<sq, srr, sbuf, counts, issued>>
        PROVE  AccountInv'
    <2>1. \A g \in Host : \A e \in AllUpdates : Net(g, e)' = Net(g, e)
      BY <1>6 DEF Net, Queued, Held
    <2>2. counts' = counts /\ BufferFree'
      BY <1>6 DEF BufferFree
    <2> QED
      BY <2>1, <2>2, AccountFrame
  <1>7. ASSUME NEW h \in Host, HandlerReap(h) \/ MonitorRecv(h) \/ MonitorReap(h)
        PROVE  UNCHANGED <<sq, srr, sbuf, counts, issued>>
    BY <1>7 DEF HandlerReap, MonitorRecv, MonitorReap, serverVars
  <1>8. ASSUME ServerSend \/ Deliver \/ ServerReap \/ (ServerPoll /\ sbuf[si] = None)
        PROVE  UNCHANGED <<sq, srr, sbuf, counts, issued>>
    BY <1>8 DEF ServerSend, Deliver, ServerReap, ServerPoll, hostVars
  <1>9. CASE UNCHANGED vars
    BY <1>6, <1>9 DEF vars, hostVars, serverVars
  <1> QED
    BY <1>2, <1>3, <1>4, <1>5, <1>6, <1>7, <1>8, <1>9
    DEF Next, Server, Handler, MonitorThread

(* The receiver's counters are what the hosts reported, but for the updates *)
(* under way: the single receive request, the in-order queue pair and the  *)
(* reading before reposting lose none and count none twice (server_loop).  *)
THEOREM CountsAccount == Spec => []CountsAccountForUpdates
  <1>1. Init => AccountInv
    <2> SUFFICES ASSUME Init
                 PROVE  AccountInv
      OBVIOUS
    <2>1. TypeOK
      BY TypeInit
    <2>2. ASSUME NEW m \in AllUpdates
          PROVE  CountedOf(m) = 0
      <3>1. \A h \in Host : Net(h, m) = 0
        <4> TAKE h \in Host
        <4>1. sq[h] = <<>> /\ sbuf[h] = None /\ issued[h][m] = 0 /\ m # None
          BY NoneAssumption DEF Init
        <4>2. Occurrences(sq[h], m) = {}
          BY <4>1, EmptySeq DEF Occurrences
        <4>3. Queued(h, m) = 0 /\ Held(h, m) = 0
          BY <4>1, <4>2, FS_EmptySet DEF Queued, Held
        <4> QED
          BY <4>1, <4>3 DEF Net
      <3>2. \A h \in Host : Terms(m)[h] = 0
        BY <3>1 DEF Terms
      <3> QED
        BY <2>1, <3>2, TermsType, CountedOfNet, SumOfZeros
    <2>3. counts.big = 0 /\ counts.small = 0 /\ (0 - 0) % CountMod = 0
      BY BoundAssumption, RemSmall DEF Init
    <2> QED
      BY <2>2, <2>3 DEF AccountInv, BufferFree, CountsAccountForUpdates, AllUpdates, Init
  <1>2. TypeOK /\ AccountInv /\ [Next]_vars => AccountInv'
    BY AccountStep
  <1>3. AccountInv => CountsAccountForUpdates
    BY DEF AccountInv
  <1> QED
    BY <1>1, <1>2, <1>3, TypeCorrect, PTL DEF Spec, SafeSpec
=============================================================================
