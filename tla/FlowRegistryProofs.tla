-------------------------- MODULE FlowRegistryProofs --------------------------
(***************************************************************************)
(* Proofs about FlowRegistry, for every number of hosts and applications,  *)
(* length of the flow table, width of the counters and number of queue     *)
(* pairs, with applications that end early or are killed.                  *)
(***************************************************************************)
EXTENDS FlowRegistry, Arithmetic, SequenceTheorems, WellFoundedInduction, TLAPS

StepNames == {"count_big", "count_small", "tell", "add_big", "add_bw", "add_small",
              "mark_read"}

(* An application that is registering has a step left to take.              *)
StepLeft == \A p \in Procs : pc[p] = "registering" => todo[p] # <<>>

TypeInv == TypeOK /\ StepLeft

-----------------------------------------------------------------------------
(* Lemmas about the operators.                                             *)

LEMMA CountBounds ==
  ASSUME NEW n \in Int
  PROVE  n % CountMod \in Counter
  BY SizesAssumption DEF Counter

LEMMA UpType ==
  ASSUME NEW n \in Counter
  PROVE  Up(n) \in Counter
  BY CountBounds, SizesAssumption DEF Up, Counter

LEMMA StepsType ==
  ASSUME NEW c \in {"bw", "tput", "lat", "read"}
  PROVE  Steps(c) \in Seq(StepNames) /\ Steps(c) # <<>>
  <1>1. CASE c = "bw"
    BY <1>1 DEF Steps, StepNames
  <1>2. CASE c = "tput"
    BY <1>2 DEF Steps, StepNames
  <1>3. CASE c = "lat"
    BY <1>3 DEF Steps, StepNames
  <1>4. CASE c = "read"
    BY <1>4 DEF Steps, StepNames
  <1> QED
    BY <1>1, <1>2, <1>3, <1>4

(* The least element of a set of slots is one of them.                      *)
LEMMA MinSlot ==
  ASSUME NEW S \in SUBSET Slots, S # {}
  PROVE  Min(S) \in S
  <1>1. S \subseteq Nat
    BY SizesAssumption DEF Slots
  <1>2. PICK less : less = OpToRel(<, Nat)
    OBVIOUS
  <1>3. \A m, n \in Nat : m < n => <<m, n>> \in less
    BY <1>2 DEF OpToRel
  <1>4. PICK n \in S : \A m \in S : ~ (<<m, n>> \in less)
    BY <1>1, <1>2, NatLessThanWellFounded, WFMin
  <1>5. ASSUME NEW m \in S
        PROVE  n <= m
    <2>1. m \in Nat /\ n \in Nat
      BY <1>1
    <2>2. ~ (m < n)
      BY <2>1, <1>3, <1>4
    <2> QED
      BY <2>1, <2>2
  <1> QED
    BY <1>5 DEF Min

(* find_next_slot: the slot answered is free or held by the same pid, and   *)
(* it is the one the pid holds if there is one.                            *)
LEMMA SlotForFits ==
  ASSUME NEW h \in Hosts, NEW p \in Procs, SlotFor(h, p) # None
  PROVE  /\ SlotFor(h, p) \in Slots
         /\ pidList[h][SlotFor(h, p)] \in {p, None}
         /\ (\E s \in Slots : pidList[h][s] = p) => pidList[h][SlotFor(h, p)] = p
  <1>1. PICK mine \in SUBSET Slots : mine = {s \in Slots : pidList[h][s] = p}
    OBVIOUS
  <1>2. PICK free \in SUBSET Slots : free = {s \in Slots : pidList[h][s] = None}
    OBVIOUS
  <1>3. SlotFor(h, p) = IF mine # {} THEN Min(mine)
                        ELSE IF free # {} THEN Min(free) ELSE None
    BY <1>1, <1>2 DEF SlotFor
  <1>4. CASE mine # {}
    <2>1. Min(mine) \in mine
      BY <1>4, MinSlot
    <2> QED
      BY <1>1, <1>3, <1>4, <2>1
  <1>5. CASE mine = {}
    <2>1. free # {} /\ SlotFor(h, p) = Min(free)
      BY <1>3, <1>5
    <2>2. Min(free) \in free
      BY <2>1, MinSlot
    <2> QED
      BY <1>1, <1>2, <1>5, <2>1, <2>2
  <1> QED
    BY <1>4, <1>5

-----------------------------------------------------------------------------
(* Type correctness.                                                       *)

LEMMA SendType ==
  ASSUME NEW p \in Procs, NEW m \in Message, inbox \in [Hosts -> Seq(Message)], Send(p, m)
  PROVE  inbox' \in [Hosts -> Seq(Message)]
  BY ProcsAssumption, AppendProperties DEF Send

LEMMA TypeInit == Init => TypeInv
  <1> SUFFICES ASSUME Init PROVE TypeInv
    OBVIOUS
  <1>1. 0 \in Counter
    BY SizesAssumption DEF Counter
  <1>2. TypeOK
    BY <1>1 DEF Init, TypeOK, Slots
  <1>3. StepLeft
    BY DEF Init, StepLeft
  <1> QED
    BY <1>2, <1>3 DEF TypeInv

LEMMA TypeTake ==
  ASSUME NEW p \in Procs, NEW step \in StepNames, TypeInv, Take(p, step)
  PROVE  /\ todo' \in [Procs -> Seq(StepNames)]
         /\ pc' \in [Procs -> {"new", "joining", "joined", "registering", "active",
                               "leaving", "telling", "gone"}]
         /\ StepLeft'
  <1>1. todo[p] \in Seq(StepNames) /\ todo[p] # <<>>
    BY DEF TypeInv, TypeOK, StepLeft, Take, StepNames
  <1>2. /\ Tail(todo[p]) \in Seq(StepNames)
        /\ Len(Tail(todo[p])) = Len(todo[p]) - 1
    BY <1>1, HeadTailProperties
  <1>3. todo' = [todo EXCEPT ![p] = Tail(@)] /\ todo \in [Procs -> Seq(StepNames)]
    BY DEF Take, TypeInv, TypeOK, StepNames
  <1>4. todo' \in [Procs -> Seq(StepNames)]
    BY <1>2, <1>3
  <1>5. pc' = [pc EXCEPT ![p] = IF Len(todo[p]) = 1 THEN "active" ELSE @]
    BY DEF Take
  <1>6. Len(todo[p]) # 1 => Tail(todo[p]) # <<>>
    <2>1. Tail(todo[p]) = <<>> => Len(Tail(todo[p])) = 0
      BY EmptySeq
    <2>2. Len(todo[p]) \in Nat
      BY <1>1, LenProperties
    <2> QED
      BY <1>2, <2>1, <2>2
  <1>7. StepLeft'
    BY <1>3, <1>5, <1>6 DEF StepLeft, TypeInv, TypeOK
  <1>8. pc' \in [Procs -> {"new", "joining", "joined", "registering", "active",
                           "leaving", "telling", "gone"}]
    BY <1>5 DEF TypeInv, TypeOK
  <1> QED
    BY <1>4, <1>7, <1>8

LEMMA MarkType ==
  ASSUME NEW table \in [Hosts -> [Slots -> BOOLEAN]], NEW h \in Hosts, NEW s,
         NEW mark \in BOOLEAN
  PROVE  [table EXCEPT ![h][s] = mark] \in [Hosts -> [Slots -> BOOLEAN]]
  <1>1. [table[h] EXCEPT ![s] = mark] \in [Slots -> BOOLEAN]
    BY Zenon
  <1> QED
    BY <1>1, Zenon

LEMMA TypeRegister ==
  ASSUME NEW p \in Procs, TypeInv, Register(p)
  PROVE  TypeInv'
  <1> USE DEF StepNames
  <1>1. CASE CountLocally(p)
    <2>1. PICK step \in StepNames : Take(p, step)
      BY <1>1 DEF CountLocally
    <2>2. localBig' \in [Procs -> Nat]
      <3>1. localBig' = localBig \/ localBig' = [localBig EXCEPT ![p] = @ + 1]
        BY <1>1 DEF CountLocally
      <3>2. localBig \in [Procs -> Nat]
        BY DEF TypeInv, TypeOK
      <3> QED
        BY <3>1, <3>2
    <2>3. localSmall' \in [Procs -> Nat]
      <3>1. localSmall' = localSmall \/ localSmall' = [localSmall EXCEPT ![p] = @ + 1]
        BY <1>1 DEF CountLocally
      <3>2. localSmall \in [Procs -> Nat]
        BY DEF TypeInv, TypeOK
      <3> QED
        BY <3>1, <3>2
    <2> QED
      BY <1>1, <2>1, <2>2, <2>3, TypeTake DEF CountLocally, Take, TypeInv, TypeOK, blockVars
  <1>2. CASE Tell(p)
    <2>1. Take(p, "tell")
      BY <1>2 DEF Tell
    <2>2. inbox' \in [Hosts -> Seq(Message)]
      BY <1>2, SendType DEF Tell, Message, TypeInv, TypeOK
    <2> QED
      BY <1>2, <2>1, <2>2, TypeTake DEF Tell, Take, TypeInv, TypeOK, blockVars
  <1>3. CASE AddToBlock(p)
    <2>0. HostOf[p] \in Hosts
      BY ProcsAssumption
    <2>1. PICK step \in StepNames : Take(p, step)
      BY <1>3 DEF AddToBlock
    <2>2. big' \in [Hosts -> Counter]
      <3>1. big' = big \/ big' = [big EXCEPT ![HostOf[p]] = Up(@)]
        BY <1>3 DEF AddToBlock
      <3>2. big \in [Hosts -> Counter]
        BY DEF TypeInv, TypeOK
      <3> QED
        BY <2>0, <3>1, <3>2, UpType
    <2>3. small' \in [Hosts -> Counter]
      <3>1. small' = small \/ small' = [small EXCEPT ![HostOf[p]] = Up(@)]
        BY <1>3 DEF AddToBlock
      <3>2. small \in [Hosts -> Counter]
        BY DEF TypeInv, TypeOK
      <3> QED
        BY <2>0, <3>1, <3>2, UpType
    <2>4. bw' \in [Hosts -> Counter]
      <3>1. bw' = bw \/ bw' = [bw EXCEPT ![HostOf[p]] = Up(@)]
        BY <1>3 DEF AddToBlock
      <3>2. bw \in [Hosts -> Counter]
        BY DEF TypeInv, TypeOK
      <3> QED
        BY <2>0, <3>1, <3>2, UpType
    <2>5. read' \in [Hosts -> [Slots -> BOOLEAN]]
      <3>1. read' = read \/ read' = [read EXCEPT ![HostOf[p]][slot[p]] = TRUE]
        BY <1>3 DEF AddToBlock
      <3>2. read \in [Hosts -> [Slots -> BOOLEAN]]
        BY DEF TypeInv, TypeOK
      <3> QED
        <4>1. [read EXCEPT ![HostOf[p]][slot[p]] = TRUE] \in [Hosts -> [Slots -> BOOLEAN]]
          BY <2>0, <3>2, MarkType
        <4> QED
          BY <3>1, <3>2, <4>1, Zenon
    <2> QED
      BY <1>3, <2>1, <2>2, <2>3, <2>4, <2>5, TypeTake DEF AddToBlock, Take, TypeInv, TypeOK
  <1> QED
    BY <1>1, <1>2, <1>3 DEF Register

LEMMA TypeExitCount ==
  ASSUME NEW p \in Procs, TypeInv, ExitCount(p)
  PROVE  TypeInv'
  <1>1. HostOf[p] \in Hosts
    BY ProcsAssumption
  <1>2. /\ (small[HostOf[p]] - localSmall[p]) % CountMod \in Counter
        /\ (big[HostOf[p]] - localBig[p]) % CountMod \in Counter
    <2>1. small[HostOf[p]] - localSmall[p] \in Int /\ big[HostOf[p]] - localBig[p] \in Int
      BY <1>1, SizesAssumption DEF TypeInv, TypeOK, Counter
    <2> QED
      BY <2>1, CountBounds
  <1>3. small' \in [Hosts -> Counter]
    BY <1>2 DEF ExitCount, TypeInv, TypeOK
  <1>4. big' \in [Hosts -> Counter]
    BY <1>2 DEF ExitCount, TypeInv, TypeOK
  <1>5. read' \in [Hosts -> [Slots -> BOOLEAN]]
    <2>1. read' = read \/ read' = [read EXCEPT ![HostOf[p]][slot[p]] = FALSE]
      BY DEF ExitCount
    <2>2. read \in [Hosts -> [Slots -> BOOLEAN]]
      BY DEF TypeInv, TypeOK
    <2> QED
      <3>1. [read EXCEPT ![HostOf[p]][slot[p]] = FALSE] \in [Hosts -> [Slots -> BOOLEAN]]
        BY <1>1, <2>2, MarkType
      <3> QED
        BY <2>1, <2>2, <3>1, Zenon
  <1> QED
    BY <1>3, <1>4, <1>5 DEF ExitCount, TypeInv, TypeOK, StepLeft

LEMMA TypeHandleJoin ==
  ASSUME NEW h \in Hosts, TypeInv, HandleJoin(h)
  PROVE  TypeInv'
  <1>1. PICK p \in Procs : p = Head(inbox[h]).by
    <2>1. inbox[h] \in Seq(Message) /\ inbox[h] # <<>>
      BY DEF HandleJoin, TypeInv, TypeOK
    <2>2. Head(inbox[h]) \in Message
      BY <2>1, HeadTailProperties
    <2> QED
      BY <2>2 DEF Message
  <1>2. inbox' \in [Hosts -> Seq(Message)]
    BY HeadTailProperties DEF HandleJoin, TypeInv, TypeOK
  <1>3. CASE SlotFor(h, p) = None \/ pc[p] # "joining"
    BY <1>1, <1>2, <1>3 DEF HandleJoin, TypeInv, TypeOK, StepLeft, blockVars
  <1>4. CASE ~(SlotFor(h, p) = None \/ pc[p] # "joining")
    <2>1. SlotFor(h, p) \in Slots
      BY <1>4, SlotForFits
    <2>2. /\ pidList' = [pidList EXCEPT ![h][SlotFor(h, p)] = p]
          /\ slot' = [slot EXCEPT ![p] = SlotFor(h, p)]
          /\ pc' = [pc EXCEPT ![p] = "joined"]
          /\ UNCHANGED up
      BY <1>1, <1>4 DEF HandleJoin
    <2>3. pidList' \in [Hosts -> [Slots -> Procs \cup {None}]]
      BY <2>2 DEF TypeInv, TypeOK
    <2>4. slot' \in [Procs -> Slots \cup {None}]
      BY <2>1, <2>2 DEF TypeInv, TypeOK
    <2> QED
      BY <1>2, <2>2, <2>3, <2>4 DEF HandleJoin, TypeInv, TypeOK, StepLeft, blockVars
  <1> QED
    BY <1>3, <1>4

LEMMA TypeForward ==
  ASSUME NEW h \in Hosts, TypeInv, Forward(h)
  PROVE  TypeInv'
  <1>1. inbox[h] \in Seq(Message) /\ inbox[h] # <<>>
    BY DEF Forward, TypeInv, TypeOK
  <1>2. Head(inbox[h]) \in Message /\ Tail(inbox[h]) \in Seq(Message)
    BY <1>1, HeadTailProperties
  <1>3. inbox' \in [Hosts -> Seq(Message)]
    BY <1>2 DEF Forward, TypeInv, TypeOK
  <1>4. /\ receiver \in [big : Counter, small : Counter]
        /\ Up(receiver.big) \in Counter /\ Up(receiver.small) \in Counter
        /\ (receiver.big - 1) % CountMod \in Counter
        /\ (receiver.small - 1) % CountMod \in Counter
    <2>1. receiver \in [big : Counter, small : Counter]
      BY DEF TypeInv, TypeOK
    <2>2. receiver.big - 1 \in Int /\ receiver.small - 1 \in Int
      BY <2>1, SizesAssumption DEF Counter
    <2> QED
      BY <2>1, <2>2, UpType, CountBounds
  <1>5. Head(inbox[h]).kind \in {"big_inc", "small_inc", "big_dec", "small_dec"}
    BY <1>2 DEF Forward, Message
  <1>6. receiver' \in [big : Counter, small : Counter]
    BY <1>4, <1>5 DEF Forward
  <1> QED
    BY <1>3, <1>6 DEF Forward, TypeInv, TypeOK, StepLeft, driverVars, blockVars

LEMMA TypeStep == TypeInv /\ [Next]_vars => TypeInv'
  <1> SUFFICES ASSUME TypeInv, [Next]_vars
               PROVE  TypeInv'
    OBVIOUS
  <1>1. ASSUME NEW p \in Procs, CreateQP(p)
        PROVE  TypeInv'
    <2>1. inbox' \in [Hosts -> Seq(Message)]
      BY <1>1, SendType DEF CreateQP, Message, TypeInv, TypeOK
    <2> QED
      BY <1>1, <2>1 DEF CreateQP, TypeInv, TypeOK, StepLeft, blockVars
  <1>2. ASSUME NEW p \in Procs, Register(p)
        PROVE  TypeInv'
    BY <1>2, TypeRegister
  <1>3. ASSUME NEW p \in Procs, NEW c \in ClassesOf[p], FirstPost(p, c)
        PROVE  TypeInv'
    <2>1. c \in {"bw", "tput", "lat", "read"}
      BY ProcsAssumption
    <2>2. Steps(c) \in Seq(StepNames) /\ Steps(c) # <<>>
      BY <2>1, StepsType
    <2>3. todo' \in [Procs -> Seq(StepNames)]
      BY <1>3, <2>2 DEF FirstPost, TypeInv, TypeOK, StepNames
    <2>4. isSmall' \in [Procs -> 0 .. 2]
      BY <1>3, <2>1 DEF FirstPost, TypeInv, TypeOK
    <2>5. StepLeft'
      BY <1>3, <2>2 DEF FirstPost, TypeInv, TypeOK, StepLeft
    <2> QED
      BY <1>3, <2>1, <2>3, <2>4, <2>5
      DEF FirstPost, TypeInv, TypeOK, StepNames, blockVars
  <1>4. ASSUME NEW p \in Procs, BeginExit(p)
        PROVE  TypeInv'
    BY <1>4 DEF BeginExit, TypeInv, TypeOK, StepLeft, blockVars
  <1>5. ASSUME NEW p \in Procs, ExitCount(p)
        PROVE  TypeInv'
    BY <1>5, TypeExitCount
  <1>6. ASSUME NEW p \in Procs, ExitTell(p)
        PROVE  TypeInv'
    <2>1. inbox' \in [Hosts -> Seq(Message)]
      BY <1>6, SendType DEF ExitTell, Message, TypeInv, TypeOK
    <2> QED
      BY <1>6, <2>1 DEF ExitTell, TypeInv, TypeOK, StepLeft, blockVars
  <1>7. ASSUME NEW p \in Procs, Kill(p)
        PROVE  TypeInv'
    BY <1>7 DEF Kill, TypeInv, TypeOK, StepLeft, blockVars
  <1>8. ASSUME NEW h \in Hosts, HandleJoin(h)
        PROVE  TypeInv'
    BY <1>8, TypeHandleJoin
  <1>9. ASSUME NEW h \in Hosts, Forward(h)
        PROVE  TypeInv'
    BY <1>9, TypeForward
  <1>10. CASE UNCHANGED vars
    BY <1>10 DEF TypeInv, TypeOK, StepLeft, vars, driverVars, blockVars
  <1> QED
    BY <1>1, <1>2, <1>3, <1>4, <1>5, <1>6, <1>7, <1>8, <1>9, <1>10
    DEF Next, Leave, FlowHandler

LEMMA TypeInvariant == Spec => []TypeInv
  <1>1. Init => TypeInv
    BY TypeInit
  <1>2. TypeInv /\ [Next]_vars => TypeInv'
    BY TypeStep
  <1> QED
    BY <1>1, <1>2, PTL DEF Spec, SafeSpec

(* Every variable keeps its type: no registration runs past its last step,  *)
(* and no counter of the shared block or of the receiver leaves 16 bits,   *)
(* however applications end and join again (the start_flag block of        *)
(* split_mlx5_post_send, set_inactive_on_exit, flow_handler).              *)
THEOREM TypeCorrect == Spec => []TypeOK
  <1>1. TypeInv => TypeOK
    BY DEF TypeInv
  <1> QED
    BY <1>1, TypeInvariant, PTL

-----------------------------------------------------------------------------
(* One slot per pid.                                                       *)

(* An application tells the pacer of its own host only.                     *)
OwnHost == \A h \in Hosts : \A k \in DOMAIN inbox[h] : HostOf[inbox[h][k].by] = h

SlotInv == OwnHost /\ OneSlotPerPid

LEMMA SlotInit == Init => SlotInv
  <1> SUFFICES ASSUME Init PROVE SlotInv
    OBVIOUS
  <1>1. OwnHost
    BY DEF Init, OwnHost
  <1>2. OneSlotPerPid
    BY DEF Init, OneSlotPerPid, On
  <1> QED
    BY <1>1, <1>2 DEF SlotInv

LEMMA OwnHostSend ==
  ASSUME NEW p \in Procs, NEW m \in Message, m.by = p, TypeOK, OwnHost, Send(p, m)
  PROVE  OwnHost'
  <1> SUFFICES ASSUME NEW h \in Hosts, NEW k \in DOMAIN inbox'[h]
               PROVE  HostOf[inbox'[h][k].by] = h
    BY DEF OwnHost
  <1>1. inbox \in [Hosts -> Seq(Message)]
    BY DEF TypeOK
  <1>2. inbox' = [inbox EXCEPT ![HostOf[p]] = Append(@, m)]
    BY DEF Send
  <1>3. CASE h # HostOf[p]
    BY <1>1, <1>2, <1>3 DEF OwnHost
  <1>4. CASE h = HostOf[p]
    <2>1. inbox'[h] = Append(inbox[h], m) /\ inbox[h] \in Seq(Message)
      BY <1>1, <1>2, <1>4
    <2>2. /\ DOMAIN inbox'[h] = 1 .. Len(inbox[h]) + 1
          /\ DOMAIN inbox[h] = 1 .. Len(inbox[h]) /\ Len(inbox[h]) \in Nat
      BY <2>1, AppendProperties, LenProperties
    <2>3. CASE k \in DOMAIN inbox[h]
      BY <2>1, <2>2, <2>3, AppendProperties DEF OwnHost
    <2>4. CASE k = Len(inbox[h]) + 1
      BY <1>4, <2>1, <2>4, AppendProperties
    <2> QED
      BY <2>2, <2>3, <2>4
  <1> QED
    BY <1>3, <1>4

LEMMA OwnHostTake ==
  ASSUME NEW h \in Hosts, TypeOK, OwnHost, inbox[h] # <<>>,
         inbox' = [inbox EXCEPT ![h] = Tail(@)]
  PROVE  OwnHost' /\ HostOf[Head(inbox[h]).by] = h
  <1>1. inbox[h] \in Seq(Message)
    BY DEF TypeOK
  <1>2. /\ Tail(inbox[h]) \in Seq(Message)
        /\ \A k \in 1 .. Len(Tail(inbox[h])) : Tail(inbox[h])[k] = inbox[h][k + 1]
        /\ Len(Tail(inbox[h])) = Len(inbox[h]) - 1
        /\ Len(inbox[h]) \in Nat \ {0}
    BY <1>1, HeadTailProperties, LenProperties, EmptySeq
  <1>3. /\ DOMAIN Tail(inbox[h]) = 1 .. Len(inbox[h]) - 1
        /\ DOMAIN inbox[h] = 1 .. Len(inbox[h])
    BY <1>1, <1>2, LenProperties
  <1>4. \A k \in DOMAIN Tail(inbox[h]) : HostOf[Tail(inbox[h])[k].by] = h
    BY <1>2, <1>3 DEF OwnHost
  <1>5. OwnHost'
    BY <1>4 DEF OwnHost, TypeOK
  <1>6. HostOf[Head(inbox[h]).by] = h
    <2>1. Head(inbox[h]) = inbox[h][1]
      BY <1>1
    <2> QED
      BY <1>2, <1>3, <2>1 DEF OwnHost
  <1> QED
    BY <1>5, <1>6

(* The one action that fills a slot.  Were it a second one for the pid, or  *)
(* one that another pid holds, find_next_slot would have answered that.    *)
LEMMA SlotHandleJoin ==
  ASSUME NEW h \in Hosts, TypeInv, SlotInv, HandleJoin(h)
  PROVE  OneSlotPerPid'
  <1>1. PICK p \in Procs : p = Head(inbox[h]).by
    <2>1. inbox[h] \in Seq(Message) /\ inbox[h] # <<>>
      BY DEF HandleJoin, TypeInv, TypeOK
    <2>2. Head(inbox[h]) \in Message
      BY <2>1, HeadTailProperties
    <2> QED
      BY <2>2 DEF Message
  <1>2. HostOf[p] = h
    BY <1>1, OwnHostTake DEF HandleJoin, TypeInv, SlotInv
  <1>3. CASE SlotFor(h, p) = None \/ pc[p] # "joining"
    BY <1>1, <1>3 DEF HandleJoin, SlotInv, OneSlotPerPid, On
  <1>4. CASE ~(SlotFor(h, p) = None \/ pc[p] # "joining")
    <2>1. PICK s \in Slots : /\ s = SlotFor(h, p)
                             /\ pidList[h][s] \in {p, None}
                             /\ (\E r \in Slots : pidList[h][r] = p) => pidList[h][s] = p
      BY <1>4, SlotForFits
    <2>2. /\ pidList' = [pidList EXCEPT ![h][s] = p]
          /\ slot' = [slot EXCEPT ![p] = s]
      BY <1>1, <1>4, <2>1 DEF HandleJoin
    <2>3. /\ pidList \in [Hosts -> [Slots -> Procs \cup {None}]]
          /\ slot \in [Procs -> Slots \cup {None}]
          /\ None \notin Procs
      BY ProcsAssumption DEF TypeInv, TypeOK
    <2>4. /\ \A r \in Slots : pidList'[h][r] = IF r = s THEN p ELSE pidList[h][r]
          /\ \A g \in Hosts : g # h => pidList'[g] = pidList[g]
      BY <2>2, <2>3
    <2>5. ASSUME NEW g \in Hosts, NEW r \in Slots, NEW q \in Slots, r # q,
                 pidList'[g][r] = pidList'[g][q]
          PROVE  pidList'[g][r] = None
      <3>1. \A x, y \in Slots : pidList[g][x] = pidList[g][y] /\ x # y => pidList[g][x] = None
        BY DEF SlotInv, OneSlotPerPid
      <3>2. CASE g # h
        BY <2>4, <2>5, <3>1, <3>2
      <3>3. CASE g = h
        <4>1. \A x \in Slots \ {s} : pidList[h][x] # p
          BY <2>1, <2>3, <3>1, <3>3
        <4> QED
          BY <2>4, <2>5, <3>1, <3>3, <4>1
      <3> QED
        BY <3>2, <3>3
    <2>6. ASSUME NEW g \in Hosts, NEW q \in On(g), slot'[q] # None
          PROVE  pidList'[g][slot'[q]] = q
      <3>1. q \in Procs /\ HostOf[q] = g
        BY DEF On
      <3>2. CASE q = p
        BY <1>2, <2>2, <2>3, <2>4, <3>1, <3>2
      <3>3. CASE q # p
        <4>1. slot'[q] = slot[q] /\ slot[q] \in Slots
          BY <2>2, <2>3, <2>6, <3>1, <3>3
        <4>2. pidList[g][slot[q]] = q
          BY <2>6, <4>1 DEF SlotInv, OneSlotPerPid
        <4>3. g = h => slot[q] # s
          BY <2>1, <2>3, <3>1, <3>3, <4>2
        <4> QED
          BY <2>4, <4>1, <4>2, <4>3
      <3> QED
        BY <3>2, <3>3
    <2> QED
      BY <2>5, <2>6 DEF OneSlotPerPid, On
  <1> QED
    BY <1>3, <1>4

LEMMA SlotStep == TypeInv /\ SlotInv /\ [Next]_vars => SlotInv'
  <1> SUFFICES ASSUME TypeInv, SlotInv, [Next]_vars
               PROVE  SlotInv'
    OBVIOUS
  <1>0. TypeOK /\ OwnHost /\ OneSlotPerPid
    BY DEF TypeInv, SlotInv
  <1>1. ASSUME NEW p \in Procs, CreateQP(p)
        PROVE  SlotInv'
    <2>1. OwnHost'
      BY <1>0, <1>1, OwnHostSend DEF CreateQP, Message
    <2> QED
      BY <1>0, <1>1, <2>1 DEF CreateQP, SlotInv, OneSlotPerPid, On
  <1>2. ASSUME NEW p \in Procs, CountLocally(p) \/ AddToBlock(p)
        PROVE  SlotInv'
    BY <1>0, <1>2 DEF CountLocally, AddToBlock, Take, SlotInv, OwnHost, OneSlotPerPid, On
  <1>3. ASSUME NEW p \in Procs, Tell(p)
        PROVE  SlotInv'
    <2>1. OwnHost'
      BY <1>0, <1>3, OwnHostSend DEF Tell, Message
    <2> QED
      BY <1>0, <1>3, <2>1 DEF Tell, Take, SlotInv, OneSlotPerPid, On
  <1>4. ASSUME NEW p \in Procs, NEW c \in ClassesOf[p], FirstPost(p, c)
        PROVE  SlotInv'
    BY <1>0, <1>4 DEF FirstPost, SlotInv, OwnHost, OneSlotPerPid, On
  <1>5. ASSUME NEW p \in Procs, BeginExit(p) \/ ExitCount(p) \/ Kill(p)
        PROVE  SlotInv'
    BY <1>0, <1>5 DEF BeginExit, ExitCount, Kill, SlotInv, OwnHost, OneSlotPerPid, On
  <1>6. ASSUME NEW p \in Procs, ExitTell(p)
        PROVE  SlotInv'
    <2>1. OwnHost'
      BY <1>0, <1>6, OwnHostSend DEF ExitTell, Message
    <2> QED
      BY <1>0, <1>6, <2>1 DEF ExitTell, SlotInv, OneSlotPerPid, On
  <1>7. ASSUME NEW h \in Hosts, HandleJoin(h)
        PROVE  SlotInv'
    <2>1. OwnHost'
      BY <1>0, <1>7, OwnHostTake DEF HandleJoin
    <2> QED
      BY <1>7, <2>1, SlotHandleJoin DEF SlotInv
  <1>8. ASSUME NEW h \in Hosts, Forward(h)
        PROVE  SlotInv'
    <2>1. OwnHost'
      BY <1>0, <1>8, OwnHostTake DEF Forward
    <2> QED
      BY <1>0, <1>8, <2>1 DEF Forward, driverVars, SlotInv, OneSlotPerPid, On
  <1>9. CASE UNCHANGED vars
    BY <1>0, <1>9 DEF vars, driverVars, SlotInv, OwnHost, OneSlotPerPid, On
  <1> QED
    BY <1>1, <1>2, <1>3, <1>4, <1>5, <1>6, <1>7, <1>8, <1>9
    DEF Next, Register, Leave, FlowHandler

(* A pid has one slot of the flow table, however often it joins, and no     *)
(* two pids share one, for every length of the table and number of         *)
(* applications, also when they are killed (find_next_slot, flow_handler): *)
(* a token the pacer grants through a slot is that of one process.         *)
THEOREM OnePidPerSlot == Spec => []OneSlotPerPid
  <1>1. Init => SlotInv
    BY SlotInit
  <1>2. TypeInv /\ SlotInv /\ [Next]_vars => SlotInv'
    BY SlotStep
  <1>3. SlotInv => OneSlotPerPid
    BY DEF SlotInv
  <1> QED
    BY <1>1, <1>2, <1>3, TypeInvariant, PTL DEF Spec, SafeSpec

-----------------------------------------------------------------------------
(* The counts.                                                             *)

Incs == {"big_inc", "small_inc"}
Decs == {"big_dec", "small_dec"}
IncOf(p) == [kind |-> IF isSmall[p] = 1 THEN "small_inc" ELSE "big_inc", by |-> p]
DecOf(p) == [kind |-> IF isSmall[p] = 1 THEN "small_dec" ELSE "big_dec", by |-> p]

(* The messages under way.                                                  *)
Entries(s) == {s[k] : k \in DOMAIN s}
Wire == {m \in Message : m \in Entries(inbox[HostOf[m.by]])}

(* The steps of its registration that are left.                             *)
Left(p) == Len(todo[p])

(* The application has sent its arrival.                                    *)
Told(p) ==
  /\ class[p] # "read"
  /\ \/ pc[p] \in {"active", "leaving", "telling", "gone"}
     \/ pc[p] = "registering" /\ Left(p) <= 2

(* The receiver has counted its arrival, and not yet its exit.              *)
Reported(p) ==
  /\ Told(p)
  /\ IncOf(p) \notin Wire
  /\ pc[p] = "gone" => DecOf(p) \in Wire
BigReported == {p \in Procs : Reported(p) /\ isSmall[p] # 1}
SmallReported == {p \in Procs : Reported(p) /\ isSmall[p] = 1}

(* The shared block of its host has counted the application, and not yet    *)
(* uncounted it.                                                           *)
AddedSmall(p) == class[p] = "lat" /\ pc[p] \in {"active", "leaving"}
AddedBig(p) ==
  /\ class[p] = "bw"
  /\ \/ pc[p] \in {"active", "leaving"}
     \/ pc[p] = "registering" /\ Left(p) <= 1
SmallOn(h) == {p \in Procs : HostOf[p] = h /\ AddedSmall(p)}
BigOn(h) == {p \in Procs : HostOf[p] = h /\ AddedBig(p)}

(* What is left of a registration.                                          *)
Rest(c) ==
  CASE c = "bw" -> {<<"count_big", "tell", "add_big", "add_bw">>,
                    <<"tell", "add_big", "add_bw">>, <<"add_big", "add_bw">>, <<"add_bw">>}
    [] c = "tput" -> {<<"tell", "count_big", "add_big">>, <<"count_big", "add_big">>,
                      <<"add_big">>}
    [] c = "lat" -> {<<"tell", "count_small", "add_small">>,
                     <<"count_small", "add_small">>, <<"add_small">>}
    [] c = "read" -> {<<"mark_read">>}

(* An application that has joined once and was not cut short: what it has  *)
(* counted for itself is what it has added or has still to add.            *)
Local(p) ==
  /\ pc[p] # "new" => qps[p] # 0
  /\ pc[p] \in {"new", "joining", "joined"} => localBig[p] = 0 /\ localSmall[p] = 0
  /\ pc[p] \in {"joined", "registering", "active", "leaving", "telling"} => slot[p] # None
  /\ pc[p] \in {"registering", "active", "leaving", "telling", "gone"} =>
       /\ class[p] \in ClassesOf[p]
       /\ isSmall[p] = (CASE class[p] = "lat" -> 1 [] class[p] = "tput" -> 2 [] OTHER -> 0)
  /\ pc[p] = "registering" => todo[p] \in Rest(class[p])
  /\ pc[p] = "registering" =>
       /\ localSmall[p] = (IF class[p] = "lat" /\ Left(p) <= 1 THEN 1 ELSE 0)
       /\ class[p] = "bw" => localBig[p] = (IF Left(p) <= 3 THEN 1 ELSE 0)
  /\ pc[p] \in {"active", "leaving"} =>
       /\ localSmall[p] = (IF class[p] = "lat" THEN 1 ELSE 0)
       /\ class[p] = "bw" => localBig[p] = 1
  /\ pc[p] \in {"leaving", "telling", "gone"} => class[p] # "read"

(* At most an arrival and an exit of an application are under way at once,  *)
(* in this order.                                                          *)
Ordered(s) ==
  \A j, k \in DOMAIN s :
    j < k /\ s[j].by = s[k].by => s[j].kind \in Incs /\ s[k].kind \in Decs

WireInv ==
  /\ \A h \in Hosts : Ordered(inbox[h])
  /\ \A m \in Wire :
       /\ m.kind = "join" => pc[m.by] = "joining"
       /\ m.kind \in Incs => Told(m.by) /\ m = IncOf(m.by)
       /\ m.kind \in Decs => pc[m.by] = "gone" /\ m = DecOf(m.by)
  /\ \A p \in Procs : pc[p] = "gone" /\ IncOf(p) \in Wire => DecOf(p) \in Wire

(* A slot is marked for READ by the process it belongs to.                  *)
Marked ==
  \A h \in Hosts : \A s \in Slots : read[h][s] =>
    \E p \in Procs : /\ pidList[h][s] = p /\ class[p] = "read"
                     /\ pc[p] \notin {"new", "joining", "joined"}

Counts ==
  /\ receiver.big = Cardinality(BigReported) % CountMod
  /\ receiver.small = Cardinality(SmallReported) % CountMod
  /\ \A h \in Hosts :
       /\ small[h] = Cardinality(SmallOn(h)) % CountMod
       /\ (\A p \in On(h) : "tput" \notin ClassesOf[p]) =>
            big[h] = Cardinality(BigOn(h)) % CountMod

CountSafe == (\A p \in Procs : Local(p)) /\ WireInv /\ Marked /\ Counts

(* No application was killed, ended early, joined again or left a READ      *)
(* behind, and every pacer is there.                                       *)
Regular == irregular = {} /\ \A h \in Hosts : up[h]

CountInv == Regular => CountSafe

-----------------------------------------------------------------------------
(* Messages in order, and the set of those under way.                       *)

LEMMA CountType == IsFiniteSet(Procs) /\ CountMod \in Nat \ {0}
  BY ProcsAssumption, SizesAssumption

LEMMA CountUp ==
  ASSUME NEW S \in SUBSET Procs, NEW p \in Procs, p \notin S,
         NEW c, c = Cardinality(S) % CountMod
  PROVE  Up(c) = Cardinality(S \cup {p}) % CountMod
  <1>1. IsFiniteSet(S)
    BY CountType, FS_Subset
  <1>2. PICK n \in Nat : n = Cardinality(S)
    BY <1>1, FS_CardinalityType
  <1>3. Cardinality(S \cup {p}) = n + 1
    BY <1>1, <1>2, FS_AddElement
  <1>4. ((n % CountMod) + 1) % CountMod = (n + 1) % CountMod
    BY <1>2, CountType, RemAdd
  <1> QED
    BY <1>2, <1>3, <1>4 DEF Up

LEMMA CountDown ==
  ASSUME NEW S \in SUBSET Procs, NEW p \in S, NEW c, c = Cardinality(S) % CountMod
  PROVE  (c - 1) % CountMod = Cardinality(S \ {p}) % CountMod
  <1>1. IsFiniteSet(S)
    BY CountType, FS_Subset
  <1>2. PICK n \in Nat : n = Cardinality(S)
    BY <1>1, FS_CardinalityType
  <1>3. Cardinality(S \ {p}) = n - 1
    BY <1>1, <1>2, FS_RemoveElement
  <1>4. -1 \in Int /\ n \in Int
    BY <1>2
  <1>5. ((n % CountMod) + (-1)) % CountMod = (n + (-1)) % CountMod
    BY <1>4, CountType, RemAdd
  <1>6. n % CountMod \in Int
    BY <1>2, CountType
  <1>7. c - 1 = (n % CountMod) + (-1) /\ n + (-1) = n - 1
    BY <1>2, <1>6
  <1> QED
    BY <1>3, <1>5, <1>7

LEMMA EntriesAppend ==
  ASSUME NEW s \in Seq(Message), NEW e \in Message
  PROVE  /\ Entries(Append(s, e)) = Entries(s) \cup {e}
         /\ (/\ Ordered(s)
             /\ \A m \in Entries(s) : m.by = e.by => m.kind \in Incs /\ e.kind \in Decs)
            => Ordered(Append(s, e))
  <1>1. /\ DOMAIN s = 1 .. Len(s) /\ Len(s) \in Nat
        /\ DOMAIN Append(s, e) = 1 .. Len(s) + 1
        /\ \A k \in 1 .. Len(s) : Append(s, e)[k] = s[k]
        /\ Append(s, e)[Len(s) + 1] = e
    BY LenProperties, AppendProperties
  <1>2. Entries(Append(s, e)) = Entries(s) \cup {e}
    BY <1>1 DEF Entries
  <1>3. ASSUME Ordered(s),
               \A m \in Entries(s) : m.by = e.by => m.kind \in Incs /\ e.kind \in Decs,
               NEW j \in DOMAIN Append(s, e), NEW k \in DOMAIN Append(s, e), j < k,
               Append(s, e)[j].by = Append(s, e)[k].by
        PROVE  Append(s, e)[j].kind \in Incs /\ Append(s, e)[k].kind \in Decs
    <2>1. j \in 1 .. Len(s) /\ Append(s, e)[j] = s[j]
      BY <1>1, <1>3
    <2>2. CASE k \in 1 .. Len(s)
      BY <1>1, <1>3, <2>1, <2>2 DEF Ordered
    <2>3. CASE k = Len(s) + 1
      BY <1>1, <1>3, <2>1, <2>3 DEF Entries
    <2> QED
      BY <1>1, <2>2, <2>3
  <1> QED
    BY <1>2, <1>3 DEF Ordered

LEMMA EntriesTail ==
  ASSUME NEW s \in Seq(Message), s # <<>>, Ordered(s)
  PROVE  /\ Ordered(Tail(s))
         /\ Entries(s) = Entries(Tail(s)) \cup {Head(s)}
         /\ \A m \in Entries(Tail(s)) :
              m.by = Head(s).by => Head(s).kind \in Incs /\ m.kind \in Decs
  <1>1. /\ DOMAIN s = 1 .. Len(s) /\ Len(s) \in Nat \ {0}
        /\ DOMAIN Tail(s) = 1 .. Len(s) - 1
        /\ \A k \in 1 .. Len(s) - 1 : Tail(s)[k] = s[k + 1]
        /\ Head(s) = s[1]
    BY LenProperties, HeadTailProperties, EmptySeq
  <1>2. \A k \in 1 .. Len(s) : k = 1 \/ (k - 1 \in 1 .. Len(s) - 1 /\ Tail(s)[k - 1] = s[k])
    BY <1>1
  <1>3. ASSUME NEW m \in Entries(s)
        PROVE  m = Head(s) \/ m \in Entries(Tail(s))
    <2>1. PICK k \in 1 .. Len(s) : m = s[k]
      BY <1>1, <1>3 DEF Entries
    <2>2. k - 1 \in DOMAIN Tail(s) => Tail(s)[k - 1] \in Entries(Tail(s))
      BY DEF Entries
    <2> QED
      BY <1>1, <1>2, <2>1, <2>2
  <1>4. ASSUME NEW k \in 1 .. Len(s) - 1
        PROVE  k + 1 \in DOMAIN s /\ 1 < k + 1 /\ 1 \in DOMAIN s
    BY <1>1
  <1>5. ASSUME NEW m \in Entries(Tail(s))
        PROVE  m \in Entries(s) /\ (m.by = Head(s).by => Head(s).kind \in Incs /\ m.kind \in Decs)
    <2>1. PICK k \in 1 .. Len(s) - 1 : m = s[k + 1]
      BY <1>1, <1>5 DEF Entries
    <2> QED
      BY <1>1, <1>4, <2>1 DEF Entries, Ordered
  <1>6. Head(s) \in Entries(s)
    BY <1>1 DEF Entries
  <1>7. Ordered(Tail(s))
    <2> SUFFICES ASSUME NEW j \in DOMAIN Tail(s), NEW k \in DOMAIN Tail(s), j < k,
                        Tail(s)[j].by = Tail(s)[k].by
                 PROVE  Tail(s)[j].kind \in Incs /\ Tail(s)[k].kind \in Decs
      BY DEF Ordered
    <2>1. /\ j + 1 \in DOMAIN s /\ k + 1 \in DOMAIN s /\ j + 1 < k + 1
          /\ Tail(s)[j] = s[j + 1] /\ Tail(s)[k] = s[k + 1]
      BY <1>1, <1>4
    <2> QED
      BY <2>1 DEF Ordered
  <1> QED
    BY <1>3, <1>5, <1>6, <1>7

LEMMA WireSend ==
  ASSUME TypeOK, NEW p \in Procs, NEW m \in Message, m.by = p, Send(p, m),
         \A h \in Hosts : Ordered(inbox[h]),
         \A n \in Wire : n.by = p => n.kind \in Incs /\ m.kind \in Decs
  PROVE  /\ Wire' = Wire \cup {m}
         /\ \A h \in Hosts : Ordered(inbox'[h])
  <1>1. PICK g \in Hosts : g = HostOf[p]
    BY ProcsAssumption
  <1>2. /\ inbox \in [Hosts -> Seq(Message)] /\ inbox[g] \in Seq(Message)
        /\ inbox'[g] = Append(inbox[g], m)
        /\ \A h \in Hosts : h # g => inbox'[h] = inbox[h]
    BY <1>1 DEF TypeOK, Send
  <1>3. Entries(inbox'[g]) = Entries(inbox[g]) \cup {m}
    BY <1>2, EntriesAppend
  <1>4. \A n \in Message : HostOf[n.by] \in Hosts
    BY ProcsAssumption DEF Message
  <1>5. ASSUME NEW n \in Message
        PROVE  n \in Entries(inbox'[HostOf[n.by]])
                 <=> n \in Entries(inbox[HostOf[n.by]]) \/ n = m
    BY <1>1, <1>2, <1>3, <1>4
  <1>6. Wire' = Wire \cup {m}
    BY <1>5 DEF Wire
  <1>7. \A n \in Entries(inbox[g]) : n \in Message
    BY <1>2 DEF Entries
  <1>8. \A n \in Entries(inbox[g]) : n.by = m.by => n.kind \in Incs /\ m.kind \in Decs
    BY <1>1, <1>7 DEF Wire
  <1>9. Ordered(inbox'[g])
    BY <1>2, <1>8, EntriesAppend
  <1> QED
    BY <1>2, <1>6, <1>9

LEMMA WireTake ==
  ASSUME TypeOK, OwnHost, NEW h \in Hosts, inbox[h] # <<>>,
         inbox' = [inbox EXCEPT ![h] = Tail(@)],
         \A g \in Hosts : Ordered(inbox[g])
  PROVE  /\ Head(inbox[h]) \in Wire /\ Head(inbox[h]).by \in Procs
         /\ HostOf[Head(inbox[h]).by] = h
         /\ Wire' = Wire \ {Head(inbox[h])}
         /\ \A g \in Hosts : Ordered(inbox'[g])
         /\ \A n \in Wire' : n.by = Head(inbox[h]).by
                               => Head(inbox[h]).kind \in Incs /\ n.kind \in Decs
  <1>1. /\ inbox \in [Hosts -> Seq(Message)] /\ inbox[h] \in Seq(Message)
        /\ inbox'[h] = Tail(inbox[h])
        /\ \A g \in Hosts : g # h => inbox'[g] = inbox[g]
    BY DEF TypeOK
  <1>2. PICK m \in Message : m = Head(inbox[h])
    BY <1>1, HeadTailProperties
  <1>3. /\ Ordered(inbox'[h])
        /\ Entries(inbox[h]) = Entries(inbox'[h]) \cup {m}
        /\ \A n \in Entries(inbox'[h]) : n.by = m.by => m.kind \in Incs /\ n.kind \in Decs
    BY <1>1, <1>2, EntriesTail
  <1>4. m.by \in Procs /\ HostOf[m.by] = h
    BY <1>2, OwnHostTake DEF Message
  <1>5. m \notin Entries(inbox'[h])
    BY <1>3 DEF Incs, Decs
  <1>6. \A n \in Message : HostOf[n.by] \in Hosts
    BY ProcsAssumption DEF Message
  <1>7. ASSUME NEW n \in Message
        PROVE  n \in Entries(inbox'[HostOf[n.by]])
                 <=> n \in Entries(inbox[HostOf[n.by]]) /\ n # m
    BY <1>1, <1>3, <1>4, <1>5, <1>6
  <1>8. Wire' = Wire \ {m} /\ m \in Wire
    BY <1>3, <1>4, <1>7 DEF Wire
  <1>9. \A n \in Wire' : n.by = m.by => m.kind \in Incs /\ n.kind \in Decs
    BY <1>3, <1>4 DEF Wire
  <1> QED
    BY <1>1, <1>2, <1>3, <1>4, <1>8, <1>9

-----------------------------------------------------------------------------
(* What a step of one application leaves as it was.                         *)

Same(q) ==
  /\ pc'[q] = pc[q] /\ class'[q] = class[q] /\ todo'[q] = todo[q] /\ isSmall'[q] = isSmall[q]
  /\ localBig'[q] = localBig[q] /\ localSmall'[q] = localSmall[q]
  /\ slot'[q] = slot[q] /\ qps'[q] = qps[q]

LEMMA SameFrame ==
  ASSUME NEW q, Same(q)
  PROVE  /\ Local(q)' <=> Local(q)
         /\ Told(q)' <=> Told(q)
         /\ IncOf(q)' = IncOf(q) /\ DecOf(q)' = DecOf(q)
  <1>1. Local(q)' <=> Local(q)
    BY Zenon DEF Same, Local, Left
  <1>2. Told(q)' <=> Told(q)
    BY Zenon DEF Same, Told, Left
  <1>3. IncOf(q)' = IncOf(q) /\ DecOf(q)' = DecOf(q)
    BY DEF Same, IncOf, DecOf
  <1> QED
    BY <1>1, <1>2, <1>3

LEMMA MessageOf ==
  ASSUME NEW q \in Procs
  PROVE  /\ IncOf(q) \in Message /\ IncOf(q).by = q /\ IncOf(q).kind \in Incs
         /\ DecOf(q) \in Message /\ DecOf(q).by = q /\ DecOf(q).kind \in Decs
         /\ IncOf(q).kind \notin Decs \cup {"join"} /\ DecOf(q).kind \notin Incs \cup {"join"}
  BY DEF IncOf, DecOf, Message, Incs, Decs

LEMMA CountsFrame ==
  ASSUME Counts, BigReported' = BigReported, SmallReported' = SmallReported,
         \A h \in Hosts : SmallOn(h)' = SmallOn(h) /\ BigOn(h)' = BigOn(h),
         UNCHANGED <<receiver, big, small>>
  PROVE  Counts'
  BY DEF Counts, On

(* The set of applications the receiver has counted stays what it is if    *)
(* this holds of each of them.                                             *)
LEMMA ReportedFrame ==
  ASSUME \A q \in Procs : Reported(q)' <=> Reported(q),
         \A q \in Procs : Reported(q) => isSmall'[q] = isSmall[q]
  PROVE  BigReported' = BigReported /\ SmallReported' = SmallReported
  BY DEF BigReported, SmallReported

(* A step of p that neither sends nor exits.                                *)
LEMMA WireFrame ==
  ASSUME WireInv, inbox' = inbox, NEW p \in Procs, \A q \in Procs \ {p} : Same(q),
         pc[p] # "joining", pc[p] # "gone", pc'[p] # "gone",
         Told(p)' <=> Told(p), Told(p) => isSmall'[p] = isSmall[p]
  PROVE  /\ WireInv'
         /\ BigReported' = BigReported /\ SmallReported' = SmallReported
  <1>1. Wire' = Wire
    BY DEF Wire
  <1>2. \A q \in Procs \ {p} :
          /\ Told(q)' <=> Told(q)
          /\ IncOf(q)' = IncOf(q) /\ DecOf(q)' = DecOf(q)
          /\ pc'[q] = pc[q] /\ isSmall'[q] = isSmall[q]
    BY SameFrame DEF Same
  <1>3. Told(p) => IncOf(p)' = IncOf(p) /\ DecOf(p)' = DecOf(p)
    BY DEF IncOf, DecOf
  <1>4. \A m \in Wire : m.by \in Procs
    BY DEF Wire, Message
  <1>5. \A m \in Wire : /\ m.kind = "join" => pc'[m.by] = "joining"
                        /\ m.kind \in Incs => Told(m.by)' /\ m = IncOf(m.by)'
                        /\ m.kind \in Decs => pc'[m.by] = "gone" /\ m = DecOf(m.by)'
    <2> SUFFICES ASSUME NEW m \in Wire
                 PROVE  /\ m.kind = "join" => pc'[m.by] = "joining"
                        /\ m.kind \in Incs => Told(m.by)' /\ m = IncOf(m.by)'
                        /\ m.kind \in Decs => pc'[m.by] = "gone" /\ m = DecOf(m.by)'
      OBVIOUS
    <2>1. /\ m.kind = "join" => pc[m.by] = "joining"
          /\ m.kind \in Incs => Told(m.by) /\ m = IncOf(m.by)
          /\ m.kind \in Decs => pc[m.by] = "gone" /\ m = DecOf(m.by)
      BY DEF WireInv
    <2>2. CASE m.by = p
      BY <1>3, <2>1, <2>2
    <2>3. CASE m.by # p
      BY <1>2, <1>4, <2>1, <2>3
    <2> QED
      BY <2>2, <2>3
  <1>6. \A q \in Procs : pc'[q] = "gone" /\ IncOf(q)' \in Wire => DecOf(q)' \in Wire
    BY <1>2 DEF WireInv
  <1>7. WireInv'
    BY <1>1, <1>5, <1>6 DEF WireInv
  <1>8. \A q \in Procs : /\ Reported(q)' <=> Reported(q)
                         /\ Reported(q) => isSmall'[q] = isSmall[q]
    BY <1>1, <1>2, <1>3 DEF Reported
  <1> QED
    BY <1>7, <1>8, ReportedFrame

(* A slot stays marked by its process.                                      *)
LEMMA MarkedFrame ==
  ASSUME Marked, TypeOK, read' = read, pidList' = pidList,
         NEW p \in Procs, \A q \in Procs \ {p} : Same(q),
         pc[p] \in {"new", "joining", "joined"}
           \/ (class'[p] = class[p] /\ pc'[p] \notin {"new", "joining", "joined"})
  PROVE  Marked'
  BY DEF Marked, Same

-----------------------------------------------------------------------------
(* The registration.                                                        *)

LEMMA TailsOfTuples ==
  ASSUME NEW a, NEW b, NEW c, NEW d
  PROVE  /\ Tail(<<a, b, c, d>>) = <<b, c, d>> /\ Head(<<a, b, c, d>>) = a
         /\ Tail(<<a, b, c>>) = <<b, c>> /\ Head(<<a, b, c>>) = a
         /\ Tail(<<a, b>>) = <<b>> /\ Head(<<a, b>>) = a
         /\ Head(<<a>>) = a
         /\ Len(<<a, b, c, d>>) = 4 /\ Len(<<a, b, c>>) = 3 /\ Len(<<a, b>>) = 2
         /\ Len(<<a>>) = 1
  <1>1. Tail(<<a, b, c, d>>) = <<b, c, d>>
    OBVIOUS
  <1>2. Tail(<<a, b, c>>) = <<b, c>> /\ Tail(<<a, b>>) = <<b>>
    OBVIOUS
  <1> QED
    BY <1>1, <1>2

LEMMA RestSteps ==
  ASSUME NEW c \in {"bw", "tput", "lat", "read"}, NEW t \in Rest(c)
  PROVE  /\ Len(t) \in 1 .. 4
         /\ Len(t) # 1 => Tail(t) \in Rest(c) /\ Len(Tail(t)) = Len(t) - 1
         /\ Head(t) = "count_big" => (c = "bw" /\ Len(t) = 4) \/ (c = "tput" /\ Len(t) = 2)
         /\ Head(t) = "count_small" => c = "lat" /\ Len(t) = 2
         /\ Head(t) = "tell" => c \in {"bw", "tput", "lat"} /\ Len(t) = 3
         /\ Head(t) = "add_big" => (c = "bw" /\ Len(t) = 2) \/ (c = "tput" /\ Len(t) = 1)
         /\ Head(t) = "add_bw" => c = "bw" /\ Len(t) = 1
         /\ Head(t) = "add_small" => c = "lat" /\ Len(t) = 1
         /\ Head(t) = "mark_read" => c = "read" /\ Len(t) = 1
  <1>1. CASE c = "bw"
    <2>1. CASE t = <<"count_big", "tell", "add_big", "add_bw">>
      <3>1. Tail(t) = <<"tell", "add_big", "add_bw">> /\ Head(t) = "count_big" /\ Len(t) = 4 /\ Len(Tail(t)) = 3
        BY <2>1, TailsOfTuples
      <3>2. Len(t) # 1 => Tail(t) \in Rest(c)
        BY <1>1, <3>1 DEF Rest
      <3> QED
        BY <1>1, <3>1, <3>2
    <2>2. CASE t = <<"tell", "add_big", "add_bw">>
      <3>1. Tail(t) = <<"add_big", "add_bw">> /\ Head(t) = "tell" /\ Len(t) = 3 /\ Len(Tail(t)) = 2
        BY <2>2, TailsOfTuples
      <3>2. Len(t) # 1 => Tail(t) \in Rest(c)
        BY <1>1, <3>1 DEF Rest
      <3> QED
        BY <1>1, <3>1, <3>2
    <2>3. CASE t = <<"add_big", "add_bw">>
      <3>1. Tail(t) = <<"add_bw">> /\ Head(t) = "add_big" /\ Len(t) = 2 /\ Len(Tail(t)) = 1
        BY <2>3, TailsOfTuples
      <3>2. Len(t) # 1 => Tail(t) \in Rest(c)
        BY <1>1, <3>1 DEF Rest
      <3> QED
        BY <1>1, <3>1, <3>2
    <2>4. CASE t = <<"add_bw">>
      <3>1. Head(t) = "add_bw" /\ Len(t) = 1
        BY <2>4, TailsOfTuples
      <3>2. Len(t) # 1 => Tail(t) \in Rest(c)
        BY <1>1, <3>1 DEF Rest
      <3> QED
        BY <1>1, <3>1, <3>2
    <2> QED
      BY <1>1, <2>1, <2>2, <2>3, <2>4 DEF Rest
  <1>2. CASE c = "tput"
    <2>1. CASE t = <<"tell", "count_big", "add_big">>
      <3>1. Tail(t) = <<"count_big", "add_big">> /\ Head(t) = "tell" /\ Len(t) = 3 /\ Len(Tail(t)) = 2
        BY <2>1, TailsOfTuples
      <3>2. Len(t) # 1 => Tail(t) \in Rest(c)
        BY <1>2, <3>1 DEF Rest
      <3> QED
        BY <1>2, <3>1, <3>2
    <2>2. CASE t = <<"count_big", "add_big">>
      <3>1. Tail(t) = <<"add_big">> /\ Head(t) = "count_big" /\ Len(t) = 2 /\ Len(Tail(t)) = 1
        BY <2>2, TailsOfTuples
      <3>2. Len(t) # 1 => Tail(t) \in Rest(c)
        BY <1>2, <3>1 DEF Rest
      <3> QED
        BY <1>2, <3>1, <3>2
    <2>3. CASE t = <<"add_big">>
      <3>1. Head(t) = "add_big" /\ Len(t) = 1
        BY <2>3, TailsOfTuples
      <3>2. Len(t) # 1 => Tail(t) \in Rest(c)
        BY <1>2, <3>1 DEF Rest
      <3> QED
        BY <1>2, <3>1, <3>2
    <2> QED
      BY <1>2, <2>1, <2>2, <2>3 DEF Rest
  <1>3. CASE c = "lat"
    <2>1. CASE t = <<"tell", "count_small", "add_small">>
      <3>1. Tail(t) = <<"count_small", "add_small">> /\ Head(t) = "tell" /\ Len(t) = 3 /\ Len(Tail(t)) = 2
        BY <2>1, TailsOfTuples
      <3>2. Len(t) # 1 => Tail(t) \in Rest(c)
        BY <1>3, <3>1 DEF Rest
      <3> QED
        BY <1>3, <3>1, <3>2
    <2>2. CASE t = <<"count_small", "add_small">>
      <3>1. Tail(t) = <<"add_small">> /\ Head(t) = "count_small" /\ Len(t) = 2 /\ Len(Tail(t)) = 1
        BY <2>2, TailsOfTuples
      <3>2. Len(t) # 1 => Tail(t) \in Rest(c)
        BY <1>3, <3>1 DEF Rest
      <3> QED
        BY <1>3, <3>1, <3>2
    <2>3. CASE t = <<"add_small">>
      <3>1. Head(t) = "add_small" /\ Len(t) = 1
        BY <2>3, TailsOfTuples
      <3>2. Len(t) # 1 => Tail(t) \in Rest(c)
        BY <1>3, <3>1 DEF Rest
      <3> QED
        BY <1>3, <3>1, <3>2
    <2> QED
      BY <1>3, <2>1, <2>2, <2>3 DEF Rest
  <1>4. CASE c = "read"
    BY <1>4, TailsOfTuples DEF Rest
  <1> QED
    BY <1>1, <1>2, <1>3, <1>4

LEMMA StepsRest ==
  ASSUME NEW c \in {"bw", "tput", "lat", "read"}
  PROVE  /\ Steps(c) \in Rest(c)
         /\ Len(Steps(c)) = (CASE c = "bw" -> 4 [] c = "read" -> 1 [] OTHER -> 3)
  <1>1. CASE c = "bw"
    BY <1>1 DEF Rest, Steps
  <1>2. CASE c = "tput"
    BY <1>2 DEF Rest, Steps
  <1>3. CASE c = "lat"
    BY <1>3 DEF Rest, Steps
  <1>4. CASE c = "read"
    BY <1>4 DEF Rest, Steps
  <1> QED
    BY <1>1, <1>2, <1>3, <1>4

-----------------------------------------------------------------------------
(* The steps of a registration.                                             *)

LEMMA BlockFrame ==
  ASSUME NEW p \in Procs, \A q \in Procs \ {p} : Same(q),
         AddedSmall(p)' <=> AddedSmall(p), AddedBig(p)' <=> AddedBig(p)
  PROVE  \A h \in Hosts : SmallOn(h)' = SmallOn(h) /\ BigOn(h)' = BigOn(h)
  <1>1. \A q \in Procs \ {p} : /\ AddedSmall(q)' <=> AddedSmall(q)
                               /\ AddedBig(q)' <=> AddedBig(q)
    BY DEF Same, AddedSmall, AddedBig, Left
  <1> QED
    BY <1>1 DEF SmallOn, BigOn

LEMMA LocalFrame ==
  ASSUME NEW p \in Procs, \A q \in Procs \ {p} : Same(q), \A q \in Procs : Local(q), Local(p)'
  PROVE  \A q \in Procs : Local(q)'
  BY SameFrame

LEMMA TakeEffect ==
  ASSUME TypeInv, NEW p \in Procs, NEW step \in StepNames, Local(p), Take(p, step)
  PROVE  /\ pc[p] = "registering" /\ class[p] \in {"bw", "tput", "lat", "read"}
         /\ todo[p] \in Rest(class[p]) /\ Head(todo[p]) = step /\ Left(p) \in 1 .. 4
         /\ class' = class /\ isSmall' = isSmall /\ slot' = slot /\ qps' = qps
         /\ Left(p) = 1 => pc'[p] = "active"
         /\ Left(p) # 1 => /\ pc'[p] = "registering" /\ todo'[p] \in Rest(class[p])
                                /\ Left(p)' = Left(p) - 1
         /\ Told(p) <=> class[p] # "read" /\ Left(p) <= 2
         /\ Told(p)' <=> class[p] # "read" /\ Left(p) <= 3
         /\ \A q \in Procs \ {p} : pc'[q] = pc[q] /\ todo'[q] = todo[q]
  <1>1. /\ pc[p] = "registering" /\ class[p] \in {"bw", "tput", "lat", "read"}
        /\ todo[p] \in Rest(class[p]) /\ Head(todo[p]) = step
        /\ class' = class /\ isSmall' = isSmall /\ slot' = slot /\ qps' = qps
    BY DEF Take, Local, TypeInv, TypeOK
  <1>2. /\ pc'[p] = IF Left(p) = 1 THEN "active" ELSE "registering"
        /\ todo'[p] = Tail(todo[p])
        /\ \A q \in Procs \ {p} : pc'[q] = pc[q] /\ todo'[q] = todo[q]
    BY <1>1 DEF Take, TypeInv, TypeOK, Left
  <1>3. /\ Left(p) \in 1 .. 4
        /\ Left(p) # 1 => Tail(todo[p]) \in Rest(class[p]) /\ Left(p)' = Left(p) - 1
    BY <1>1, <1>2, RestSteps DEF Left
  <1>4. Told(p) <=> class[p] # "read" /\ Left(p) <= 2
    BY <1>1 DEF Told
  <1>5. Told(p)' <=> class[p] # "read" /\ Left(p) <= 3
    <2>1. CASE Left(p) = 1
      BY <1>1, <1>2, <2>1 DEF Told
    <2>2. CASE Left(p) # 1
      BY <1>1, <1>2, <1>3, <2>2 DEF Told
    <2> QED
      BY <2>1, <2>2
  <1> QED
    BY <1>1, <1>2, <1>3, <1>4, <1>5

LEMMA CountsLocally ==
  ASSUME TypeInv, CountSafe, NEW p \in Procs, CountLocally(p)
  PROVE  CountSafe'
  <1>1. PICK step \in {"count_big", "count_small"} :
          /\ Take(p, step)
          /\ step = "count_big" => /\ localBig' = [localBig EXCEPT ![p] = @ + 1]
                                   /\ localSmall' = localSmall
          /\ step = "count_small" => /\ localSmall' = [localSmall EXCEPT ![p] = @ + 1]
                                     /\ localBig' = localBig
    BY DEF CountLocally
  <1>2. Local(p) /\ step \in StepNames
    BY DEF CountSafe, StepNames
  <1>3. UNCHANGED <<blockVars, inbox, pidList, receiver>>
    BY <1>1 DEF CountLocally, Take
  <1>4. localBig \in [Procs -> Nat] /\ localSmall \in [Procs -> Nat]
    BY DEF TypeInv, TypeOK
  <1>5. /\ (step = "count_big" /\ class[p] = "bw" /\ Left(p) = 4)
           \/ (step = "count_big" /\ class[p] = "tput" /\ Left(p) = 2)
           \/ (step = "count_small" /\ class[p] = "lat" /\ Left(p) = 2)
    BY <1>1, <1>2, TakeEffect, RestSteps DEF Left
  <1>6. /\ pc[p] = "registering" /\ pc'[p] = "registering"
        /\ class' = class /\ isSmall' = isSmall /\ slot' = slot /\ qps' = qps
        /\ todo'[p] \in Rest(class[p]) /\ Left(p)' = Left(p) - 1
        /\ Told(p)' <=> Told(p)
    BY <1>1, <1>2, <1>5, TakeEffect
  <1>7. \A q \in Procs \ {p} : Same(q)
    BY <1>1, <1>2, <1>4, TakeEffect DEF Same
  <1>8. Local(p)'
    <2>1. /\ step = "count_big" => localBig'[p] = localBig[p] + 1 /\ localSmall'[p] = localSmall[p]
          /\ step = "count_small" => localSmall'[p] = localSmall[p] + 1 /\ localBig'[p] = localBig[p]
      BY <1>1, <1>4
    <2> QED
      BY <1>2, <1>5, <1>6, <2>1 DEF Local
  <1>9. \A q \in Procs : Local(q)'
    BY <1>7, <1>8, LocalFrame DEF CountSafe
  <1>10. WireInv' /\ BigReported' = BigReported /\ SmallReported' = SmallReported
    BY <1>3, <1>6, <1>7, WireFrame DEF CountSafe
  <1>11. Marked'
    BY <1>3, <1>6, <1>7, MarkedFrame DEF CountSafe, TypeInv, blockVars
  <1>12. \A h \in Hosts : SmallOn(h)' = SmallOn(h) /\ BigOn(h)' = BigOn(h)
    <2>1. AddedSmall(p)' <=> AddedSmall(p)
      BY <1>6 DEF AddedSmall
    <2>2. AddedBig(p)' <=> AddedBig(p)
      BY <1>5, <1>6 DEF AddedBig
    <2> QED
      BY <1>7, <2>1, <2>2, BlockFrame
  <1>13. Counts'
    BY <1>3, <1>10, <1>12, CountsFrame DEF CountSafe, blockVars
  <1> QED
    BY <1>9, <1>10, <1>11, <1>13 DEF CountSafe

LEMMA CountsTell ==
  ASSUME TypeInv, CountSafe, NEW p \in Procs, Tell(p)
  PROVE  CountSafe'
  <1>1. /\ Take(p, "tell") /\ Send(p, IncOf(p)) /\ "tell" \in StepNames
        /\ UNCHANGED <<localBig, localSmall, blockVars, pidList, receiver>>
    BY DEF Tell, Take, IncOf, StepNames
  <1>2. Local(p)
    BY DEF CountSafe
  <1>3. Left(p) = 3 /\ class[p] \in {"bw", "tput", "lat"}
    BY <1>1, <1>2, TakeEffect, RestSteps DEF Left
  <1>4. /\ pc[p] = "registering" /\ pc'[p] = "registering"
        /\ class' = class /\ isSmall' = isSmall /\ slot' = slot /\ qps' = qps
        /\ todo'[p] \in Rest(class[p]) /\ Left(p)' = 2
        /\ ~ Told(p) /\ Told(p)'
    BY <1>1, <1>2, <1>3, TakeEffect
  <1>5. \A q \in Procs \ {p} : Same(q)
    BY <1>1, <1>2, TakeEffect DEF Same
  <1>6. Local(p)'
    BY <1>1, <1>2, <1>3, <1>4 DEF Local
  <1>7. \A q \in Procs : Local(q)'
    BY <1>5, <1>6, LocalFrame DEF CountSafe
  <1>8. /\ IncOf(p) \in Message /\ IncOf(p).by = p /\ IncOf(p).kind \in Incs
        /\ IncOf(p)' = IncOf(p)
    BY <1>4 DEF IncOf, Message, Incs
  <1>9. \A n \in Wire : n.by # p
    <2> SUFFICES ASSUME NEW n \in Wire, n.by = p
                 PROVE  FALSE
      OBVIOUS
    <2>1. n.kind \in {"join"} \cup Incs \cup Decs
      BY DEF Wire, Message, Incs, Decs
    <2> QED
      BY <1>4, <2>1 DEF CountSafe, WireInv
  <1>10. Wire' = Wire \cup {IncOf(p)} /\ \A h \in Hosts : Ordered(inbox'[h])
    BY <1>1, <1>8, <1>9, WireSend DEF CountSafe, WireInv, TypeInv
  <1>11. \A q \in Procs \ {p} :
           /\ Told(q)' <=> Told(q)
           /\ IncOf(q)' = IncOf(q) /\ DecOf(q)' = DecOf(q)
           /\ pc'[q] = pc[q]
           /\ IncOf(q).by = q /\ DecOf(q).by = q
    BY <1>5, SameFrame DEF Same, IncOf, DecOf
  <1>12. WireInv'
    <2>1. ASSUME NEW m \in Wire'
          PROVE  /\ m.kind = "join" => pc'[m.by] = "joining"
                 /\ m.kind \in Incs => Told(m.by)' /\ m = IncOf(m.by)'
                 /\ m.kind \in Decs => pc'[m.by] = "gone" /\ m = DecOf(m.by)'
      <3>1. CASE m = IncOf(p)
        BY <1>4, <1>8, <3>1 DEF Incs, Decs
      <3>2. CASE m \in Wire
        <4>1. m.by \in Procs \ {p}
          BY <1>9, <3>2 DEF Wire, Message
        <4> QED
          BY <1>11, <3>2, <4>1 DEF CountSafe, WireInv
      <3> QED
        BY <1>10, <3>1, <3>2
    <2>2. \A q \in Procs : pc'[q] = "gone" /\ IncOf(q)' \in Wire' => DecOf(q)' \in Wire'
      BY <1>4, <1>8, <1>10, <1>11 DEF CountSafe, WireInv
    <2> QED
      BY <1>10, <2>1, <2>2 DEF WireInv
  <1>13. BigReported' = BigReported /\ SmallReported' = SmallReported
    <2>1. ASSUME NEW q \in Procs \ {p}
          PROVE  /\ IncOf(q)' \in Wire' <=> IncOf(q) \in Wire
                 /\ DecOf(q)' \in Wire' <=> DecOf(q) \in Wire
      BY <1>8, <1>10, <1>11
    <2>2. \A q \in Procs : Reported(q)' <=> Reported(q)
      BY <1>4, <1>8, <1>10, <1>11, <2>1 DEF Reported
    <2> QED
      BY <1>4, <2>2, ReportedFrame
  <1>14. Marked'
    BY <1>1, <1>4, <1>5, MarkedFrame DEF CountSafe, TypeInv, blockVars
  <1>15. \A h \in Hosts : SmallOn(h)' = SmallOn(h) /\ BigOn(h)' = BigOn(h)
    <2>1. AddedSmall(p)' <=> AddedSmall(p)
      BY <1>4 DEF AddedSmall
    <2>2. AddedBig(p)' <=> AddedBig(p)
      BY <1>3, <1>4 DEF AddedBig
    <2> QED
      BY <1>5, <2>1, <2>2, BlockFrame
  <1>16. Counts'
    BY <1>1, <1>13, <1>15, CountsFrame DEF CountSafe, blockVars
  <1> QED
    BY <1>7, <1>12, <1>14, <1>16 DEF CountSafe


(* An atomic add to a counter of the shared block.                          *)
LEMMA CountsAdd ==
  ASSUME TypeInv, CountSafe, SlotInv, NEW p \in Procs, AddToBlock(p)
  PROVE  CountSafe'
  <1>1. PICK step \in {"add_big", "add_bw", "add_small", "mark_read"} :
          /\ Take(p, step)
          /\ IF step = "add_big" THEN big' = [big EXCEPT ![HostOf[p]] = Up(@)] ELSE big' = big
          /\ IF step = "add_small" THEN small' = [small EXCEPT ![HostOf[p]] = Up(@)]
                                   ELSE small' = small
          /\ IF step = "mark_read" THEN read' = [read EXCEPT ![HostOf[p]][slot[p]] = TRUE]
                                   ELSE read' = read
    BY DEF AddToBlock
  <1>2. Local(p) /\ step \in StepNames
    BY DEF CountSafe, StepNames
  <1>3. UNCHANGED <<localBig, localSmall, inbox, pidList, receiver>>
    BY <1>1 DEF AddToBlock, Take
  <1>4. /\ step = "add_big" => (class[p] = "bw" /\ Left(p) = 2) \/ (class[p] = "tput" /\ Left(p) = 1)
        /\ step = "add_bw" => class[p] = "bw" /\ Left(p) = 1
        /\ step = "add_small" => class[p] = "lat" /\ Left(p) = 1
        /\ step = "mark_read" => class[p] = "read" /\ Left(p) = 1
    BY <1>1, <1>2, TakeEffect, RestSteps DEF Left
  <1>5. /\ pc[p] = "registering" /\ pc'[p] \in {"registering", "active"}
        /\ Left(p) = 1 => pc'[p] = "active"
        /\ Left(p) # 1 => /\ pc'[p] = "registering" /\ todo'[p] \in Rest(class[p])
                          /\ Left(p)' = Left(p) - 1
        /\ class' = class /\ isSmall' = isSmall /\ slot' = slot /\ qps' = qps
        /\ Told(p)' <=> Told(p)
    BY <1>1, <1>2, <1>4, TakeEffect
  <1>6. \A q \in Procs \ {p} : Same(q)
    BY <1>1, <1>2, <1>3, TakeEffect DEF Same
  <1>7. Local(p)'
    <2>1. CASE Left(p) = 1
      BY <1>2, <1>3, <1>4, <1>5, <2>1 DEF Local
    <2>2. CASE Left(p) # 1
      <3>1. Left(p) = 2 /\ class[p] = "bw" /\ Left(p)' = 1 /\ pc'[p] = "registering"
        BY <1>4, <1>5, <2>2
      <3> QED
        BY <1>2, <1>3, <1>5, <2>2, <3>1 DEF Local
    <2> QED
      BY <2>1, <2>2
  <1>8. \A q \in Procs : Local(q)'
    BY <1>6, <1>7, LocalFrame DEF CountSafe
  <1>9. WireInv' /\ BigReported' = BigReported /\ SmallReported' = SmallReported
    BY <1>3, <1>5, <1>6, WireFrame DEF CountSafe
  <1>10. Marked'
    <2>1. CASE step = "mark_read"
      <3>1. PICK g \in Hosts, s \in Slots : g = HostOf[p] /\ s = slot[p]
        BY <1>2, <1>5, ProcsAssumption DEF Local, TypeInv, TypeOK
      <3>2. pidList[g][s] = p
        BY <1>2, <1>5, <3>1, ProcsAssumption DEF Local, SlotInv, OneSlotPerPid, On
      <3>3. \A h \in Hosts : \A r \in Slots : read'[h][r] => read[h][r] \/ (h = g /\ r = s)
        BY <1>1, <2>1, <3>1 DEF TypeInv, TypeOK
      <3>4. class'[p] = "read" /\ pc'[p] = "active"
        BY <1>4, <1>5, <2>1
      <3>5. \A q \in Procs : class[q] = "read" /\ pc[q] \notin {"new", "joining", "joined"}
                => class'[q] = "read" /\ pc'[q] \notin {"new", "joining", "joined"}
        BY <1>5, <1>6 DEF Same
      <3> QED
        BY <1>3, <3>2, <3>3, <3>4, <3>5 DEF CountSafe, Marked
    <2>2. CASE step # "mark_read"
      BY <1>1, <1>3, <1>5, <1>6, <2>2, MarkedFrame DEF CountSafe, TypeInv
    <2> QED
      BY <2>1, <2>2
  <1>11. PICK g \in Hosts : g = HostOf[p]
    BY ProcsAssumption
  <1>12. /\ small \in [Hosts -> Counter] /\ big \in [Hosts -> Counter]
    BY DEF TypeInv, TypeOK
  <1>13. /\ receiver' = receiver
         /\ receiver.big = Cardinality(BigReported) % CountMod
         /\ receiver.small = Cardinality(SmallReported) % CountMod
    BY <1>3 DEF CountSafe, Counts
  <1>14. ASSUME NEW h \in Hosts
         PROVE  small'[h] = Cardinality(SmallOn(h)') % CountMod
    <2>1. small[h] = Cardinality(SmallOn(h)) % CountMod
      BY DEF CountSafe, Counts
    <2>2. CASE step = "add_small" /\ h = g
      <3>1. p \notin SmallOn(h) /\ SmallOn(h) \in SUBSET Procs
        BY <1>5 DEF SmallOn, AddedSmall
      <3>2. SmallOn(h)' = SmallOn(h) \cup {p}
        BY <1>4, <1>5, <1>6, <1>11, <2>2 DEF SmallOn, AddedSmall, Same
      <3>3. small'[h] = Up(small[h])
        BY <1>1, <1>11, <1>12, <2>2
      <3> QED
        BY <2>1, <3>1, <3>2, <3>3, CountUp
    <2>3. CASE ~ (step = "add_small" /\ h = g)
      <3>1. SmallOn(h)' = SmallOn(h)
        BY <1>4, <1>5, <1>6, <1>11, <2>3 DEF SmallOn, AddedSmall, Same
      <3>2. small'[h] = small[h]
        BY <1>1, <1>11, <1>12, <2>3
      <3> QED
        BY <2>1, <3>1, <3>2
    <2> QED
      BY <2>2, <2>3
  <1>15. ASSUME NEW h \in Hosts, \A q \in On(h) : "tput" \notin ClassesOf[q]
         PROVE  big'[h] = Cardinality(BigOn(h)') % CountMod
    <2>1. big[h] = Cardinality(BigOn(h)) % CountMod
      BY <1>15 DEF CountSafe, Counts
    <2>2. CASE step = "add_big" /\ h = g
      <3>1. class[p] = "bw" /\ Left(p) = 2 /\ Left(p)' = 1
        <4>1. p \in On(h) /\ class[p] \in ClassesOf[p]
          BY <1>2, <1>5, <1>11, <2>2 DEF On, Local
        <4> QED
          BY <1>4, <1>5, <1>15, <2>2, <4>1
      <3>2. p \notin BigOn(h) /\ BigOn(h) \in SUBSET Procs
        BY <1>5, <3>1 DEF BigOn, AddedBig
      <3>3. BigOn(h)' = BigOn(h) \cup {p}
        <4>1. AddedBig(p)'
          BY <1>5, <3>1 DEF AddedBig
        <4>2. \A q \in Procs \ {p} : AddedBig(q)' <=> AddedBig(q)
          BY <1>6 DEF Same, AddedBig, Left
        <4> QED
          BY <1>11, <2>2, <4>1, <4>2 DEF BigOn
      <3>4. big'[h] = Up(big[h])
        BY <1>1, <1>11, <1>12, <2>2
      <3> QED
        BY <2>1, <3>2, <3>3, <3>4, CountUp
    <2>3. CASE ~ (step = "add_big" /\ h = g)
      <3>1. h = g => (AddedBig(p)' <=> AddedBig(p))
        BY <1>4, <1>5, <2>3 DEF AddedBig
      <3>2. \A q \in Procs \ {p} : AddedBig(q)' <=> AddedBig(q)
        BY <1>6 DEF Same, AddedBig, Left
      <3>3. BigOn(h)' = BigOn(h)
        BY <1>11, <3>1, <3>2 DEF BigOn
      <3>4. big'[h] = big[h]
        BY <1>1, <1>11, <1>12, <2>3
      <3> QED
        BY <2>1, <3>3, <3>4
    <2> QED
      BY <2>2, <2>3
  <1>16. Counts'
    BY <1>9, <1>13, <1>14, <1>15 DEF Counts, On
  <1> QED
    BY <1>8, <1>9, <1>10, <1>16 DEF CountSafe

LEMMA CountsFirstPost ==
  ASSUME TypeInv, CountSafe, NEW p \in Procs, NEW c \in ClassesOf[p], FirstPost(p, c)
  PROVE  CountSafe'
  <1>1. Local(p) /\ c \in {"bw", "tput", "lat", "read"}
    BY ProcsAssumption DEF CountSafe
  <1>2. /\ pc[p] = "joined" /\ pc'[p] = "registering" /\ class'[p] = c /\ todo'[p] = Steps(c)
        /\ isSmall'[p] = (CASE c = "lat" -> 1 [] c = "tput" -> 2 [] OTHER -> 0)
        /\ UNCHANGED <<localBig, localSmall, slot, qps, blockVars, pidList, inbox, receiver>>
    BY DEF FirstPost, TypeInv, TypeOK
  <1>3. \A q \in Procs \ {p} : Same(q)
    BY DEF FirstPost, Same, TypeInv, TypeOK
  <1>4. /\ todo'[p] \in Rest(c)
        /\ Left(p)' = (CASE c = "bw" -> 4 [] c = "read" -> 1 [] OTHER -> 3)
    BY <1>1, <1>2, StepsRest DEF Left
  <1>5. /\ c = "bw" => Left(p)' = 4
        /\ c \in {"tput", "lat"} => Left(p)' = 3
    BY <1>4
  <1>6. ~ Told(p) /\ ~ Told(p)'
    BY <1>1, <1>2, <1>5 DEF Told
  <1>7. Local(p)'
    BY <1>1, <1>2, <1>4, <1>5 DEF Local
  <1>8. \A q \in Procs : Local(q)'
    BY <1>3, <1>7, LocalFrame DEF CountSafe
  <1>9. WireInv' /\ BigReported' = BigReported /\ SmallReported' = SmallReported
    BY <1>2, <1>3, <1>6, WireFrame DEF CountSafe
  <1>10. Marked'
    BY <1>2, <1>3, MarkedFrame DEF CountSafe, TypeInv, blockVars
  <1>11. \A h \in Hosts : SmallOn(h)' = SmallOn(h) /\ BigOn(h)' = BigOn(h)
    <2>1. AddedSmall(p)' <=> AddedSmall(p)
      BY <1>2 DEF AddedSmall
    <2>2. AddedBig(p)' <=> AddedBig(p)
      BY <1>2, <1>5 DEF AddedBig
    <2> QED
      BY <1>3, <2>1, <2>2, BlockFrame
  <1>12. Counts'
    BY <1>2, <1>9, <1>11, CountsFrame DEF CountSafe, blockVars
  <1> QED
    BY <1>8, <1>9, <1>10, <1>12 DEF CountSafe

-----------------------------------------------------------------------------
(* Leaving.                                                                *)

LEMMA CountsBeginExit ==
  ASSUME TypeInv, CountSafe, NEW p \in Procs, BeginExit(p), irregular' = {}
  PROVE  CountSafe'
  <1>1. Local(p)
    BY DEF CountSafe
  <1>2. pc[p] = "active" /\ class[p] # "read"
    BY DEF BeginExit
  <1>3. /\ pc'[p] = "leaving"
        /\ UNCHANGED <<class, isSmall, localBig, localSmall, slot, qps, blockVars, pidList,
                       inbox, receiver>>
    BY <1>1, <1>2 DEF BeginExit, Local, TypeInv, TypeOK
  <1>4. \A q \in Procs \ {p} : Same(q)
    BY DEF BeginExit, Same, TypeInv, TypeOK
  <1>5. Local(p)'
    BY <1>1, <1>2, <1>3 DEF Local
  <1>6. Told(p) /\ Told(p)'
    BY <1>2, <1>3 DEF Told
  <1>7. \A q \in Procs : Local(q)'
    BY <1>4, <1>5, LocalFrame DEF CountSafe
  <1>8. WireInv' /\ BigReported' = BigReported /\ SmallReported' = SmallReported
    BY <1>2, <1>3, <1>4, <1>6, WireFrame DEF CountSafe
  <1>9. Marked'
    BY <1>2, <1>3, <1>4, MarkedFrame DEF CountSafe, TypeInv, blockVars
  <1>10. \A h \in Hosts : SmallOn(h)' = SmallOn(h) /\ BigOn(h)' = BigOn(h)
    <2>1. AddedSmall(p)' <=> AddedSmall(p)
      BY <1>2, <1>3 DEF AddedSmall
    <2>2. AddedBig(p)' <=> AddedBig(p)
      BY <1>2, <1>3 DEF AddedBig
    <2> QED
      BY <1>4, <2>1, <2>2, BlockFrame
  <1>11. Counts'
    BY <1>3, <1>8, <1>10, CountsFrame DEF CountSafe, blockVars
  <1> QED
    BY <1>7, <1>8, <1>9, <1>11 DEF CountSafe

(* The application takes itself out of the counters it is in: the count of  *)
(* small flows for a latency flow, with a local count of 1, that of big    *)
(* flows for a bandwidth flow.  The slot of the latter is not marked for   *)
(* READ, for no READ application holds it.                                 *)
LEMMA CountsExitCount ==
  ASSUME TypeInv, CountSafe, SlotInv, NEW p \in Procs, ExitCount(p)
  PROVE  CountSafe'
  <1>1. Local(p)
    BY DEF CountSafe
  <1>2. PICK g \in Hosts : g = HostOf[p]
    BY ProcsAssumption
  <1>3. /\ pc[p] = "leaving" /\ pc'[p] = "telling"
        /\ UNCHANGED <<class, todo, isSmall, localBig, localSmall, slot, qps, pidList,
                       inbox, receiver>>
    BY DEF ExitCount, TypeInv, TypeOK
  <1>4. class[p] \in {"bw", "tput", "lat"}
    BY <1>1, <1>3 DEF Local, TypeInv, TypeOK
  <1>5. /\ class[p] = "lat" => isSmall[p] = 1 /\ localSmall[p] = 1
        /\ class[p] = "tput" => isSmall[p] = 2 /\ localSmall[p] = 0
        /\ class[p] = "bw" => isSmall[p] = 0 /\ localBig[p] = 1
    BY <1>1, <1>3 DEF Local
  <1>6. \A q \in Procs \ {p} : Same(q)
    BY <1>3 DEF ExitCount, Same, TypeInv, TypeOK
  <1>7. class[p] = "bw" => ~ read[g][slot[p]]
    <2>1. slot[p] \in Slots /\ pidList[g][slot[p]] = p
      BY <1>1, <1>2, <1>3 DEF Local, TypeInv, TypeOK, SlotInv, OneSlotPerPid, On
    <2> QED
      BY <2>1 DEF CountSafe, Marked
  <1>8. /\ small \in [Hosts -> Counter] /\ big \in [Hosts -> Counter]
        /\ \A h \in Hosts : small[h] \in 0 .. CountMod - 1
    BY DEF TypeInv, TypeOK, Counter
  <1>9. /\ read' = read
        /\ class[p] = "bw" => /\ big' = [big EXCEPT ![g] = (big[g] - 1) % CountMod]
                              /\ small' = small
        /\ class[p] # "bw" =>
             /\ small' = [small EXCEPT ![g] = (small[g] - localSmall[p]) % CountMod]
             /\ big' = big
    BY <1>2, <1>4, <1>5, <1>7 DEF ExitCount
  <1>10. Local(p)'
    BY <1>1, <1>3, <1>4 DEF Local
  <1>11. Told(p) /\ Told(p)'
    BY <1>3, <1>4 DEF Told
  <1>12. \A q \in Procs : Local(q)'
    BY <1>6, <1>10, LocalFrame DEF CountSafe
  <1>13. WireInv' /\ BigReported' = BigReported /\ SmallReported' = SmallReported
    BY <1>3, <1>6, <1>11, WireFrame DEF CountSafe
  <1>14. Marked'
    BY <1>3, <1>6, <1>9, MarkedFrame DEF CountSafe, TypeInv
  <1>15. /\ receiver' = receiver
         /\ receiver.big = Cardinality(BigReported) % CountMod
         /\ receiver.small = Cardinality(SmallReported) % CountMod
    BY <1>3 DEF CountSafe, Counts
  <1>16. \A q \in Procs \ {p} : /\ AddedBig(q)' <=> AddedBig(q)
                                /\ AddedSmall(q)' <=> AddedSmall(q)
    BY <1>6 DEF Same, AddedBig, AddedSmall, Left
  <1>17. /\ ~ AddedBig(p)' /\ ~ AddedSmall(p)'
         /\ AddedBig(p) <=> class[p] = "bw"
         /\ AddedSmall(p) <=> class[p] = "lat"
    BY <1>3 DEF AddedBig, AddedSmall
  <1>18. ASSUME NEW h \in Hosts
         PROVE  small'[h] = Cardinality(SmallOn(h)') % CountMod
    <2>1. small[h] = Cardinality(SmallOn(h)) % CountMod
      BY DEF CountSafe, Counts
    <2>2. CASE class[p] = "lat" /\ h = g
      <3>1. p \in SmallOn(h) /\ SmallOn(h) \in SUBSET Procs
        BY <1>2, <1>17, <2>2 DEF SmallOn
      <3>2. SmallOn(h)' = SmallOn(h) \ {p}
        BY <1>16, <1>17 DEF SmallOn
      <3>3. small'[h] = (small[h] - 1) % CountMod
        BY <1>5, <1>8, <1>9, <2>2
      <3> QED
        BY <2>1, <3>1, <3>2, <3>3, CountDown
    <2>3. CASE ~ (class[p] = "lat" /\ h = g)
      <3>1. SmallOn(h)' = SmallOn(h)
        BY <1>2, <1>16, <1>17, <2>3 DEF SmallOn
      <3>2. small'[h] = small[h]
        <4>1. CASE class[p] = "tput" /\ h = g
          <5>1. PICK n \in 0 .. CountMod - 1 : n = small[h]
            BY <1>8
          <5>2. small'[h] = (n - 0) % CountMod
            BY <1>5, <1>8, <1>9, <4>1, <5>1
          <5>3. n - 0 = n /\ n % CountMod = n
            BY CountType, RemSmall
          <5> QED
            BY <5>1, <5>2, <5>3
        <4>2. CASE ~ (class[p] = "tput" /\ h = g)
          BY <1>4, <1>8, <1>9, <2>3, <4>2
        <4> QED
          BY <4>1, <4>2
      <3> QED
        BY <2>1, <3>1, <3>2
    <2> QED
      BY <2>2, <2>3
  <1>19. ASSUME NEW h \in Hosts, \A q \in On(h) : "tput" \notin ClassesOf[q]
         PROVE  big'[h] = Cardinality(BigOn(h)') % CountMod
    <2>1. big[h] = Cardinality(BigOn(h)) % CountMod
      BY <1>19 DEF CountSafe, Counts
    <2>2. CASE class[p] = "bw" /\ h = g
      <3>1. p \in BigOn(h) /\ BigOn(h) \in SUBSET Procs
        BY <1>2, <1>17, <2>2 DEF BigOn
      <3>2. BigOn(h)' = BigOn(h) \ {p}
        BY <1>16, <1>17 DEF BigOn
      <3>3. big'[h] = (big[h] - 1) % CountMod
        BY <1>8, <1>9, <2>2
      <3> QED
        BY <2>1, <3>1, <3>2, <3>3, CountDown
    <2>3. CASE ~ (class[p] = "bw" /\ h = g)
      <3>1. BigOn(h)' = BigOn(h)
        BY <1>2, <1>16, <1>17, <2>3 DEF BigOn
      <3>2. big'[h] = big[h]
        BY <1>8, <1>9, <2>3
      <3> QED
        BY <2>1, <3>1, <3>2
    <2> QED
      BY <2>2, <2>3
  <1>20. Counts'
    BY <1>13, <1>15, <1>18, <1>19 DEF Counts, On
  <1> QED
    BY <1>12, <1>13, <1>14, <1>20 DEF CountSafe


LEMMA CountsExitTell ==
  ASSUME TypeInv, CountSafe, NEW p \in Procs, ExitTell(p)
  PROVE  CountSafe'
  <1>1. Local(p)
    BY DEF CountSafe
  <1>2. /\ pc[p] = "telling" /\ pc'[p] = "gone" /\ Send(p, DecOf(p))
        /\ UNCHANGED <<class, todo, isSmall, localBig, localSmall, slot, qps, blockVars,
                       pidList, receiver>>
    BY DEF ExitTell, DecOf, TypeInv, TypeOK
  <1>3. \A q \in Procs \ {p} : Same(q)
    BY <1>2 DEF ExitTell, Same, TypeInv, TypeOK
  <1>4. Local(p)'
    BY <1>1, <1>2 DEF Local
  <1>5. Told(p) /\ Told(p)'
    BY <1>1, <1>2 DEF Told, Local
  <1>6. \A q \in Procs : Local(q)'
    BY <1>3, <1>4, LocalFrame DEF CountSafe
  <1>7. /\ DecOf(p) \in Message /\ DecOf(p).by = p /\ DecOf(p).kind \in Decs
        /\ DecOf(p).kind \notin Incs /\ IncOf(p).kind \in Incs
        /\ DecOf(p)' = DecOf(p) /\ IncOf(p)' = IncOf(p)
    BY <1>2 DEF IncOf, DecOf, Message, Incs, Decs
  <1>8. \A n \in Wire : n.by = p => n.kind \in Incs
    <2> SUFFICES ASSUME NEW n \in Wire, n.by = p
                 PROVE  n.kind \in Incs
      OBVIOUS
    <2>1. n.kind \in {"join"} \cup Incs \cup Decs
      BY DEF Wire, Message, Incs, Decs
    <2> QED
      BY <1>2, <2>1 DEF CountSafe, WireInv
  <1>9. Wire' = Wire \cup {DecOf(p)} /\ \A h \in Hosts : Ordered(inbox'[h])
    BY <1>2, <1>7, <1>8, WireSend DEF CountSafe, WireInv, TypeInv
  <1>10. \A q \in Procs \ {p} :
           /\ Told(q)' <=> Told(q)
           /\ IncOf(q)' = IncOf(q) /\ DecOf(q)' = DecOf(q)
           /\ pc'[q] = pc[q]
           /\ IncOf(q).by = q /\ DecOf(q).by = q
    BY <1>3, SameFrame DEF Same, IncOf, DecOf
  <1>11. WireInv'
    <2>1. ASSUME NEW m \in Wire'
          PROVE  /\ m.kind = "join" => pc'[m.by] = "joining"
                 /\ m.kind \in Incs => Told(m.by)' /\ m = IncOf(m.by)'
                 /\ m.kind \in Decs => pc'[m.by] = "gone" /\ m = DecOf(m.by)'
      <3>1. CASE m = DecOf(p)
        BY <1>2, <1>7, <3>1 DEF Incs, Decs
      <3>2. CASE m \in Wire /\ m.by = p
        BY <1>5, <1>7, <1>8, <3>2 DEF CountSafe, WireInv, Incs, Decs
      <3>3. CASE m \in Wire /\ m.by # p
        <4>1. m.by \in Procs \ {p}
          BY <3>3 DEF Wire, Message
        <4> QED
          BY <1>10, <3>3, <4>1 DEF CountSafe, WireInv
      <3> QED
        BY <1>9, <3>1, <3>2, <3>3
    <2>2. ASSUME NEW q \in Procs, pc'[q] = "gone", IncOf(q)' \in Wire'
          PROVE  DecOf(q)' \in Wire'
      <3>1. CASE q = p
        BY <1>7, <1>9, <3>1
      <3>2. CASE q # p
        BY <1>7, <1>9, <1>10, <2>2, <3>2 DEF CountSafe, WireInv
      <3> QED
        BY <3>1, <3>2
    <2> QED
      BY <1>9, <2>1, <2>2 DEF WireInv
  <1>12. BigReported' = BigReported /\ SmallReported' = SmallReported
    <2>1. ASSUME NEW q \in Procs \ {p}
          PROVE  /\ IncOf(q)' \in Wire' <=> IncOf(q) \in Wire
                 /\ DecOf(q)' \in Wire' <=> DecOf(q) \in Wire
      BY <1>7, <1>9, <1>10
    <2>2. /\ IncOf(p)' \in Wire' <=> IncOf(p) \in Wire
          /\ DecOf(p)' \in Wire'
      BY <1>7, <1>9
    <2>3. \A q \in Procs : Reported(q)' <=> Reported(q)
      BY <1>2, <1>5, <1>10, <2>1, <2>2 DEF Reported
    <2> QED
      BY <1>2, <2>3, ReportedFrame
  <1>13. Marked'
    BY <1>2, <1>3, MarkedFrame DEF CountSafe, TypeInv, blockVars
  <1>14. \A h \in Hosts : SmallOn(h)' = SmallOn(h) /\ BigOn(h)' = BigOn(h)
    <2>1. AddedSmall(p)' <=> AddedSmall(p)
      BY <1>2 DEF AddedSmall
    <2>2. AddedBig(p)' <=> AddedBig(p)
      BY <1>2 DEF AddedBig
    <2> QED
      BY <1>3, <2>1, <2>2, BlockFrame
  <1>15. Counts'
    BY <1>2, <1>12, <1>14, CountsFrame DEF CountSafe, blockVars
  <1> QED
    BY <1>6, <1>11, <1>13, <1>15 DEF CountSafe

-----------------------------------------------------------------------------
(* Joining.                                                                *)

LEMMA CountsCreateQP ==
  ASSUME TypeInv, CountSafe, NEW p \in Procs, CreateQP(p), irregular' = {}
  PROVE  CountSafe'
  <1> DEFINE join == [kind |-> "join", by |-> p]
  <1>1. Local(p)
    BY DEF CountSafe
  <1>2. qps[p] = 0 /\ pc[p] = "new"
    <2>1. qps[p] = 0
      BY DEF CreateQP
    <2> QED
      BY <1>1, <2>1 DEF Local
  <1>3. /\ pc'[p] = "joining" /\ qps'[p] = 1 /\ Send(p, join)
        /\ UNCHANGED <<class, todo, isSmall, localBig, localSmall, slot, blockVars, pidList,
                       receiver>>
    BY <1>2 DEF CreateQP, TypeInv, TypeOK
  <1>4. \A q \in Procs \ {p} : Same(q)
    BY <1>3 DEF CreateQP, Same, TypeInv, TypeOK
  <1>5. Local(p)'
    BY <1>1, <1>2, <1>3 DEF Local
  <1>6. ~ Told(p) /\ ~ Told(p)'
    BY <1>2, <1>3 DEF Told
  <1>7. \A q \in Procs : Local(q)'
    BY <1>4, <1>5, LocalFrame DEF CountSafe
  <1>8. join \in Message /\ join.by = p /\ join.kind = "join"
    BY DEF Message
  <1> HIDE DEF join
  <1>9. \A n \in Wire : n.by # p
    <2> SUFFICES ASSUME NEW n \in Wire, n.by = p
                 PROVE  FALSE
      OBVIOUS
    <2>1. n.kind \in {"join"} \cup Incs \cup Decs
      BY DEF Wire, Message, Incs, Decs
    <2> QED
      BY <1>2, <1>6, <2>1 DEF CountSafe, WireInv
  <1>10. Wire' = Wire \cup {join} /\ \A h \in Hosts : Ordered(inbox'[h])
    BY <1>3, <1>8, <1>9, WireSend DEF CountSafe, WireInv, TypeInv
  <1>11. \A q \in Procs \ {p} :
           /\ Told(q)' <=> Told(q)
           /\ IncOf(q)' = IncOf(q) /\ DecOf(q)' = DecOf(q)
           /\ pc'[q] = pc[q]
           /\ IncOf(q) # join /\ DecOf(q) # join
    <2> TAKE q \in Procs \ {p}
    <2>1. IncOf(q) # join /\ DecOf(q) # join
      BY <1>8, MessageOf
    <2>2. Same(q)
      BY <1>4
    <2> QED
      BY <2>1, <2>2, SameFrame DEF Same
  <1>12. WireInv'
    <2>1. ASSUME NEW m \in Wire'
          PROVE  /\ m.kind = "join" => pc'[m.by] = "joining"
                 /\ m.kind \in Incs => Told(m.by)' /\ m = IncOf(m.by)'
                 /\ m.kind \in Decs => pc'[m.by] = "gone" /\ m = DecOf(m.by)'
      <3>1. CASE m = join
        BY <1>3, <1>8, <3>1 DEF Incs, Decs
      <3>2. CASE m \in Wire
        <4>1. m.by \in Procs \ {p}
          BY <1>9, <3>2 DEF Wire, Message
        <4> QED
          BY <1>11, <3>2, <4>1 DEF CountSafe, WireInv
      <3> QED
        BY <1>10, <3>1, <3>2
    <2>2. \A q \in Procs : pc'[q] = "gone" /\ IncOf(q)' \in Wire' => DecOf(q)' \in Wire'
      BY <1>3, <1>10, <1>11 DEF CountSafe, WireInv
    <2> QED
      BY <1>10, <2>1, <2>2 DEF WireInv
  <1>13. BigReported' = BigReported /\ SmallReported' = SmallReported
    <2>1. ASSUME NEW q \in Procs \ {p}
          PROVE  /\ IncOf(q)' \in Wire' <=> IncOf(q) \in Wire
                 /\ DecOf(q)' \in Wire' <=> DecOf(q) \in Wire
      BY <1>10, <1>11
    <2>2. \A q \in Procs : Reported(q)' <=> Reported(q)
      BY <1>6, <1>11, <2>1 DEF Reported
    <2> QED
      BY <1>3, <2>2, ReportedFrame
  <1>14. Marked'
    BY <1>2, <1>3, <1>4, MarkedFrame DEF CountSafe, TypeInv, blockVars
  <1>15. \A h \in Hosts : SmallOn(h)' = SmallOn(h) /\ BigOn(h)' = BigOn(h)
    <2>1. AddedSmall(p)' <=> AddedSmall(p)
      BY <1>2, <1>3 DEF AddedSmall
    <2>2. AddedBig(p)' <=> AddedBig(p)
      BY <1>2, <1>3 DEF AddedBig
    <2> QED
      BY <1>4, <2>1, <2>2, BlockFrame
  <1>16. Counts'
    BY <1>3, <1>13, <1>15, CountsFrame DEF CountSafe, blockVars
  <1> QED
    BY <1>7, <1>12, <1>14, <1>16 DEF CountSafe

LEMMA CountsHandleJoin ==
  ASSUME TypeInv, CountSafe, SlotInv, NEW h \in Hosts, HandleJoin(h), up'[h]
  PROVE  CountSafe'
  <1>1. inbox[h] # <<>> /\ inbox' = [inbox EXCEPT ![h] = Tail(@)]
    BY DEF HandleJoin
  <1>2. TypeOK /\ OwnHost /\ \A g \in Hosts : Ordered(inbox[g])
    BY DEF TypeInv, SlotInv, CountSafe, WireInv
  <1>3. PICK p \in Procs, m \in Wire :
          /\ m = Head(inbox[h]) /\ p = m.by /\ HostOf[p] = h
          /\ Wire' = Wire \ {m}
          /\ \A g \in Hosts : Ordered(inbox'[g])
          /\ \A n \in Wire' : n.by = p => m.kind \in Incs
    <2>1. PICK m \in Wire : m = Head(inbox[h])
      BY <1>1, <1>2, WireTake
    <2>2. /\ m.by \in Procs /\ HostOf[m.by] = h /\ Wire' = Wire \ {m}
          /\ \A g \in Hosts : Ordered(inbox'[g])
          /\ \A n \in Wire' : n.by = m.by => m.kind \in Incs
      BY <1>1, <1>2, <2>1, WireTake
    <2> QED
      BY <2>1, <2>2
  <1>4. m.kind = "join" /\ pc[p] = "joining"
    BY <1>3 DEF HandleJoin, CountSafe, WireInv
  <1>5. /\ SlotFor(h, p) # None
        /\ pidList' = [pidList EXCEPT ![h][SlotFor(h, p)] = p]
        /\ slot' = [slot EXCEPT ![p] = SlotFor(h, p)]
        /\ pc' = [pc EXCEPT ![p] = "joined"]
        /\ UNCHANGED <<class, todo, isSmall, localBig, localSmall, qps, blockVars, receiver>>
    BY <1>3, <1>4 DEF HandleJoin, TypeInv, TypeOK
  <1>6. PICK s \in Slots : s = SlotFor(h, p) /\ pidList[h][s] \in {p, None}
    BY <1>5, SlotForFits
  <1>7. /\ pc'[p] = "joined" /\ slot'[p] # None
        /\ \A q \in Procs \ {p} : Same(q)
    BY <1>5 DEF Same, TypeInv, TypeOK
  <1>8. Local(p) /\ Local(p)'
    <2>1. Local(p)
      BY DEF CountSafe
    <2> QED
      BY <1>4, <1>5, <1>7, <2>1 DEF Local
  <1>9. \A q \in Procs : Local(q)'
    BY <1>7, <1>8, LocalFrame DEF CountSafe
  <1>10. ~ Told(p) /\ ~ Told(p)'
    BY <1>4, <1>7 DEF Told
  <1>11. \A q \in Procs \ {p} :
           /\ Told(q)' <=> Told(q)
           /\ IncOf(q)' = IncOf(q) /\ DecOf(q)' = DecOf(q)
           /\ pc'[q] = pc[q]
           /\ IncOf(q) # m /\ DecOf(q) # m
    <2> TAKE q \in Procs \ {p}
    <2>1. IncOf(q) # m /\ DecOf(q) # m
      BY <1>3, MessageOf
    <2>2. Same(q)
      BY <1>7
    <2> QED
      BY <2>1, <2>2, SameFrame DEF Same
  <1>12. \A n \in Wire' : n \in Wire /\ n.by \in Procs \ {p}
    BY <1>3, <1>4 DEF Wire, Message, Incs
  <1>13. WireInv'
    <2>1. \A n \in Wire' : /\ n.kind = "join" => pc'[n.by] = "joining"
                           /\ n.kind \in Incs => Told(n.by)' /\ n = IncOf(n.by)'
                           /\ n.kind \in Decs => pc'[n.by] = "gone" /\ n = DecOf(n.by)'
      BY <1>11, <1>12 DEF CountSafe, WireInv
    <2>2. \A q \in Procs : pc'[q] = "gone" /\ IncOf(q)' \in Wire' => DecOf(q)' \in Wire'
      BY <1>3, <1>7, <1>11 DEF CountSafe, WireInv
    <2> QED
      BY <1>3, <2>1, <2>2 DEF WireInv
  <1>14. BigReported' = BigReported /\ SmallReported' = SmallReported
    <2>1. \A q \in Procs : Reported(q)' <=> Reported(q)
      BY <1>3, <1>10, <1>11 DEF Reported
    <2> QED
      BY <1>5, <2>1, ReportedFrame
  <1>15. Marked'
    <2> SUFFICES ASSUME NEW g \in Hosts, NEW r \in Slots, read'[g][r]
                 PROVE  \E q \in Procs : /\ pidList'[g][r] = q /\ class'[q] = "read"
                                         /\ pc'[q] \notin {"new", "joining", "joined"}
      BY DEF Marked
    <2>1. PICK q \in Procs : /\ pidList[g][r] = q /\ class[q] = "read"
                             /\ pc[q] \notin {"new", "joining", "joined"}
      BY <1>5 DEF CountSafe, Marked, blockVars
    <2>2. q # p /\ q # None
      BY <1>4, <2>1, ProcsAssumption
    <2>3. ~ (g = h /\ r = s)
      BY <1>6, <2>1, <2>2
    <2>4. pidList'[g][r] = q
      BY <1>5, <1>6, <2>1, <2>3 DEF TypeInv, TypeOK
    <2> QED
      BY <1>7, <2>1, <2>2, <2>4 DEF Same
  <1>16. \A g \in Hosts : SmallOn(g)' = SmallOn(g) /\ BigOn(g)' = BigOn(g)
    <2>1. AddedSmall(p)' <=> AddedSmall(p)
      BY <1>4, <1>7 DEF AddedSmall
    <2>2. AddedBig(p)' <=> AddedBig(p)
      BY <1>4, <1>7 DEF AddedBig
    <2> QED
      BY <1>7, <2>1, <2>2, BlockFrame
  <1>17. Counts'
    BY <1>5, <1>14, <1>16, CountsFrame DEF CountSafe, blockVars
  <1> QED
    BY <1>9, <1>13, <1>15, <1>17 DEF CountSafe


-----------------------------------------------------------------------------
(* The receiver counts a message.                                           *)

LEMMA CountsForward ==
  ASSUME TypeInv, CountSafe, SlotInv, NEW h \in Hosts, Forward(h)
  PROVE  CountSafe'
  <1>1. inbox[h] # <<>> /\ inbox' = [inbox EXCEPT ![h] = Tail(@)]
    BY DEF Forward
  <1>2. TypeOK /\ OwnHost /\ \A g \in Hosts : Ordered(inbox[g])
    BY DEF TypeInv, SlotInv, CountSafe, WireInv
  <1>3. PICK m \in Wire : m = Head(inbox[h])
    BY <1>1, <1>2, WireTake
  <1>4. PICK p \in Procs : p = m.by
    BY <1>3 DEF Wire, Message
  <1>5. /\ Wire' = Wire \ {m}
        /\ \A g \in Hosts : Ordered(inbox'[g])
        /\ \A n \in Wire' : n.by = p => m.kind \in Incs /\ n.kind \in Decs
    BY <1>1, <1>2, <1>3, <1>4, WireTake
  <1>6. UNCHANGED <<pc, class, todo, isSmall, localBig, localSmall, slot, qps, big, small,
                    read, pidList>>
    BY DEF Forward, driverVars, blockVars
  <1>7. \A q \in Procs : Same(q)
    BY <1>6 DEF Same
  <1>8. \A q \in Procs : Local(q)'
    BY <1>7, SameFrame DEF CountSafe
  <1>9. \A q \in Procs : /\ Told(q)' <=> Told(q)
                         /\ IncOf(q)' = IncOf(q) /\ DecOf(q)' = DecOf(q)
    BY <1>7, SameFrame
  <1>10. \A q \in Procs : q # p => IncOf(q) # m /\ DecOf(q) # m
    BY <1>4, MessageOf
  <1>11. m.kind \in Incs \cup Decs /\ (m.kind \in Incs <=> m.kind \notin Decs)
    BY <1>3 DEF Forward, Wire, Message, Incs, Decs
  <1>12. /\ m.kind \in Incs => Told(p) /\ m = IncOf(p)
         /\ m.kind \in Decs => pc[p] = "gone" /\ m = DecOf(p) /\ Told(p)
    <2>1. /\ m.kind \in Incs => Told(p) /\ m = IncOf(p)
          /\ m.kind \in Decs => pc[p] = "gone" /\ m = DecOf(p)
      BY <1>4 DEF CountSafe, WireInv
    <2>2. pc[p] = "gone" => Told(p)
      BY DEF CountSafe, Local, Told
    <2> QED
      BY <2>1, <2>2
  <1>13. m.kind \in Decs => IncOf(p) \notin Wire
    <2> SUFFICES ASSUME m.kind \in Decs, IncOf(p) \in Wire
                 PROVE  FALSE
      OBVIOUS
    <2>1. IncOf(p) # m
      BY <1>11, MessageOf
    <2> QED
      BY <1>5, <1>11, <2>1, MessageOf
  <1>14. WireInv'
    <2>1. ASSUME NEW n \in Wire'
          PROVE  /\ n.kind = "join" => pc'[n.by] = "joining"
                 /\ n.kind \in Incs => Told(n.by)' /\ n = IncOf(n.by)'
                 /\ n.kind \in Decs => pc'[n.by] = "gone" /\ n = DecOf(n.by)'
      <3>1. n \in Wire /\ n.by \in Procs
        BY <1>5, <2>1 DEF Wire, Message
      <3> QED
        BY <1>6, <1>9, <3>1 DEF CountSafe, WireInv
    <2>2. ASSUME NEW q \in Procs, pc'[q] = "gone", IncOf(q)' \in Wire'
          PROVE  DecOf(q)' \in Wire'
      <3>1. IncOf(q) \in Wire /\ DecOf(q) \in Wire
        BY <1>5, <1>6, <1>9, <2>2 DEF CountSafe, WireInv
      <3>2. DecOf(q) # m
        <4>1. CASE q # p
          BY <1>10, <4>1
        <4>2. CASE q = p
          BY <1>11, <1>13, <3>1, <4>2, MessageOf
        <4> QED
          BY <4>1, <4>2
      <3> QED
        BY <1>5, <1>9, <3>1, <3>2
    <2> QED
      BY <1>5, <2>1, <2>2 DEF WireInv
  <1>15. Marked'
    BY <1>6 DEF CountSafe, Marked
  <1>16. \A g \in Hosts : SmallOn(g)' = SmallOn(g) /\ BigOn(g)' = BigOn(g)
    BY <1>6 DEF SmallOn, BigOn, AddedSmall, AddedBig, Left
  <1>17. \A q \in Procs \ {p} : Reported(q)' <=> Reported(q)
    BY <1>5, <1>6, <1>9, <1>10 DEF Reported
  <1>18. /\ BigReported \in SUBSET Procs /\ SmallReported \in SUBSET Procs
         /\ receiver.big = Cardinality(BigReported) % CountMod
         /\ receiver.small = Cardinality(SmallReported) % CountMod
    BY DEF BigReported, SmallReported, CountSafe, Counts
  <1>19. /\ m.kind = "big_inc" => receiver' = [receiver EXCEPT !.big = Up(receiver.big)]
         /\ m.kind = "small_inc" => receiver' = [receiver EXCEPT !.small = Up(receiver.small)]
         /\ m.kind = "big_dec" =>
              receiver' = [receiver EXCEPT !.big = (receiver.big - 1) % CountMod]
         /\ m.kind = "small_dec" =>
              receiver' = [receiver EXCEPT !.small = (receiver.small - 1) % CountMod]
         /\ receiver \in [big : Counter, small : Counter]
    BY <1>3 DEF Forward, TypeInv, TypeOK
  <1>20. CASE m.kind \in Incs
    <2>1. ~ Reported(p) /\ Reported(p)'
      <3>1. IncOf(p) \in Wire /\ Told(p) /\ IncOf(p) \notin Wire'
        BY <1>5, <1>12, <1>20
      <3>2. pc[p] = "gone" => DecOf(p) \in Wire'
        BY <1>5, <1>11, <1>20, <3>1, MessageOf DEF CountSafe, WireInv
      <3> QED
        BY <1>6, <1>9, <3>1, <3>2 DEF Reported
    <2>2. m.kind = (IF isSmall[p] = 1 THEN "small_inc" ELSE "big_inc")
      BY <1>12, <1>20 DEF IncOf
    <2>3. CASE isSmall[p] = 1
      <3>1. /\ p \notin SmallReported /\ SmallReported' = SmallReported \cup {p}
            /\ BigReported' = BigReported
        BY <1>6, <1>17, <2>1, <2>3 DEF SmallReported, BigReported
      <3>2. receiver'.small = Up(receiver.small) /\ receiver'.big = receiver.big
        BY <1>19, <2>2, <2>3
      <3>3. receiver'.small = Cardinality(SmallReported') % CountMod
        BY <1>18, <3>1, <3>2, CountUp
      <3> QED
        BY <1>6, <1>8, <1>14, <1>15, <1>16, <1>18, <3>1, <3>2, <3>3 DEF CountSafe, Counts, On
    <2>4. CASE isSmall[p] # 1
      <3>1. /\ p \notin BigReported /\ BigReported' = BigReported \cup {p}
            /\ SmallReported' = SmallReported
        BY <1>6, <1>17, <2>1, <2>4 DEF SmallReported, BigReported
      <3>2. receiver'.big = Up(receiver.big) /\ receiver'.small = receiver.small
        BY <1>19, <2>2, <2>4
      <3>3. receiver'.big = Cardinality(BigReported') % CountMod
        BY <1>18, <3>1, <3>2, CountUp
      <3> QED
        BY <1>6, <1>8, <1>14, <1>15, <1>16, <1>18, <3>1, <3>2, <3>3 DEF CountSafe, Counts, On
    <2> QED
      BY <2>3, <2>4
  <1>21. CASE m.kind \in Decs
    <2>1. Reported(p) /\ ~ Reported(p)'
      <3>1. DecOf(p) \in Wire /\ DecOf(p) \notin Wire' /\ pc[p] = "gone" /\ Told(p)
        BY <1>5, <1>12, <1>21
      <3> QED
        BY <1>6, <1>9, <1>13, <1>21, <3>1 DEF Reported
    <2>2. m.kind = (IF isSmall[p] = 1 THEN "small_dec" ELSE "big_dec")
      BY <1>12, <1>21 DEF DecOf
    <2>3. CASE isSmall[p] = 1
      <3>1. /\ p \in SmallReported /\ SmallReported' = SmallReported \ {p}
            /\ BigReported' = BigReported
        BY <1>6, <1>17, <2>1, <2>3 DEF SmallReported, BigReported
      <3>2. receiver'.small = (receiver.small - 1) % CountMod /\ receiver'.big = receiver.big
        BY <1>19, <2>2, <2>3
      <3>3. receiver'.small = Cardinality(SmallReported') % CountMod
        BY <1>18, <3>1, <3>2, CountDown
      <3> QED
        BY <1>6, <1>8, <1>14, <1>15, <1>16, <1>18, <3>1, <3>2, <3>3 DEF CountSafe, Counts, On
    <2>4. CASE isSmall[p] # 1
      <3>1. /\ p \in BigReported /\ BigReported' = BigReported \ {p}
            /\ SmallReported' = SmallReported
        BY <1>6, <1>17, <2>1, <2>4 DEF SmallReported, BigReported
      <3>2. receiver'.big = (receiver.big - 1) % CountMod /\ receiver'.small = receiver.small
        BY <1>19, <2>2, <2>4
      <3>3. receiver'.big = Cardinality(BigReported') % CountMod
        BY <1>18, <3>1, <3>2, CountDown
      <3> QED
        BY <1>6, <1>8, <1>14, <1>15, <1>16, <1>18, <3>1, <3>2, <3>3 DEF CountSafe, Counts, On
    <2> QED
      BY <2>3, <2>4
  <1> QED
    BY <1>11, <1>20, <1>21

-----------------------------------------------------------------------------

LEMMA CountInit == Init => CountInv
  <1> SUFFICES ASSUME Init
               PROVE  CountInv
    OBVIOUS
  <1>1. \A p \in Procs : Local(p)
    BY DEF Init, Local
  <1>2. Wire = {}
    <2>1. \A m \in Message : Entries(inbox[HostOf[m.by]]) = {}
      BY ProcsAssumption, EmptySeq DEF Init, Entries, Message
    <2> QED
      BY <2>1 DEF Wire
  <1>3. WireInv
    <2>1. \A h \in Hosts : Ordered(inbox[h])
      BY EmptySeq DEF Init, Ordered
    <2> QED
      BY <1>2, <2>1 DEF WireInv
  <1>4. Marked
    BY DEF Init, Marked
  <1>5. /\ BigReported = {} /\ SmallReported = {}
        /\ \A h \in Hosts : SmallOn(h) = {} /\ BigOn(h) = {}
    BY DEF Init, BigReported, SmallReported, SmallOn, BigOn, AddedSmall, AddedBig, Reported, Told
  <1>6. 0 = Cardinality({}) % CountMod
    BY FS_EmptySet, CountType, RemSmall
  <1>7. Counts
    BY <1>5, <1>6 DEF Init, Counts
  <1> QED
    BY <1>1, <1>3, <1>4, <1>7 DEF CountInv, CountSafe

LEMMA CountStep == TypeInv /\ SlotInv /\ CountInv /\ [Next]_vars => CountInv'
  <1> SUFFICES ASSUME TypeInv, SlotInv, CountInv, [Next]_vars, Regular'
               PROVE  CountSafe'
    BY DEF CountInv
  <1>1. irregular' = {} /\ \A h \in Hosts : up'[h]
    BY DEF Regular
  <1>2. irregular \subseteq irregular' /\ \A h \in Hosts : up'[h] => up[h]
    <2>1. ASSUME NEW p \in Procs, CountLocally(p) \/ Tell(p) \/ AddToBlock(p)
          PROVE  irregular' = irregular /\ up' = up
      BY <2>1 DEF CountLocally, Tell, AddToBlock, Take
    <2>2. ASSUME NEW p \in Procs, \/ CreateQP(p) \/ \E c \in ClassesOf[p] : FirstPost(p, c)
                                  \/ BeginExit(p) \/ ExitCount(p) \/ ExitTell(p) \/ Kill(p)
          PROVE  irregular \subseteq irregular' /\ up' = up
      BY <2>2 DEF CreateQP, FirstPost, BeginExit, ExitCount, ExitTell, Kill
    <2>3. ASSUME NEW h \in Hosts, HandleJoin(h) \/ Forward(h)
          PROVE  irregular' = irregular /\ \A g \in Hosts : up'[g] => up[g]
      BY <2>3 DEF HandleJoin, Forward, TypeInv, TypeOK
    <2>4. CASE UNCHANGED vars
      BY <2>4 DEF vars
    <2> QED
      BY <2>1, <2>2, <2>3, <2>4 DEF Next, Register, Leave, FlowHandler
  <1>3. CountSafe
    BY <1>1, <1>2 DEF Regular, CountInv, CountSafe
  <1>4. ASSUME NEW p \in Procs, CreateQP(p)
        PROVE  CountSafe'
    BY <1>1, <1>3, <1>4, CountsCreateQP
  <1>5. ASSUME NEW p \in Procs, Register(p)
        PROVE  CountSafe'
    BY <1>3, <1>5, CountsLocally, CountsTell, CountsAdd DEF Register
  <1>6. ASSUME NEW p \in Procs, NEW c \in ClassesOf[p], FirstPost(p, c)
        PROVE  CountSafe'
    BY <1>3, <1>6, CountsFirstPost
  <1>7. ASSUME NEW p \in Procs, BeginExit(p)
        PROVE  CountSafe'
    BY <1>1, <1>3, <1>7, CountsBeginExit
  <1>8. ASSUME NEW p \in Procs, Leave(p)
        PROVE  CountSafe'
    BY <1>3, <1>8, CountsExitCount, CountsExitTell DEF Leave
  <1>9. ASSUME NEW p \in Procs, Kill(p)
        PROVE  CountSafe'
    BY <1>1, <1>9 DEF Kill
  <1>10. ASSUME NEW h \in Hosts, HandleJoin(h)
         PROVE  CountSafe'
    BY <1>1, <1>3, <1>10, CountsHandleJoin
  <1>11. ASSUME NEW h \in Hosts, Forward(h)
         PROVE  CountSafe'
    BY <1>3, <1>11, CountsForward
  <1>12. CASE UNCHANGED vars
    <2>1. UNCHANGED <<pc, class, todo, isSmall, localBig, localSmall, slot, qps, big, small,
                      read, pidList, inbox, receiver>>
      BY <1>12 DEF vars, driverVars, blockVars
    <2>2. \A q \in Procs : /\ Local(q)' <=> Local(q)
                           /\ Told(q)' <=> Told(q)
                           /\ IncOf(q)' = IncOf(q) /\ DecOf(q)' = DecOf(q)
      BY <2>1, SameFrame DEF Same
    <2>3. Wire' = Wire
      BY <2>1 DEF Wire
    <2>4. WireInv'
      <3>1. \A m \in Wire : m.by \in Procs
        BY DEF Wire, Message
      <3> QED
        BY <1>3, <2>1, <2>2, <2>3, <3>1 DEF CountSafe, WireInv
    <2>5. Marked'
      BY <1>3, <2>1 DEF CountSafe, Marked
    <2>6. BigReported' = BigReported /\ SmallReported' = SmallReported
      BY <2>1, <2>2, <2>3, ReportedFrame DEF Reported
    <2>7. \A h \in Hosts : SmallOn(h)' = SmallOn(h) /\ BigOn(h)' = BigOn(h)
      BY <2>1 DEF SmallOn, BigOn, AddedSmall, AddedBig, Left
    <2>8. Counts'
      BY <1>3, <2>1, <2>6, <2>7, CountsFrame DEF CountSafe
    <2> QED
      BY <1>3, <2>2, <2>4, <2>5, <2>8 DEF CountSafe
  <1> QED
    BY <1>4, <1>5, <1>6, <1>7, <1>8, <1>9, <1>10, <1>11, <1>12 DEF Next, FlowHandler

LEMMA CountEnds == CountInv => CountsAgree
  <1> SUFFICES ASSUME CountInv, Quiet, irregular = {}
               PROVE  CountsAgree
    BY DEF CountsAgree
  <1>1. CountSafe
    BY DEF CountInv, Regular, CountSafe, Quiet
  <1>2. Wire = {}
    <2>1. \A m \in Message : Entries(inbox[HostOf[m.by]]) = {}
      BY ProcsAssumption, EmptySeq DEF Quiet, Entries, Message
    <2> QED
      BY <2>1 DEF Wire
  <1>3. \A p \in Procs :
          /\ pc[p] \in {"new", "joined", "active", "gone"}
          /\ Reported(p) <=> pc[p] = "active" /\ class[p] # "read"
    BY <1>2 DEF Quiet, Reported, Told
  <1>4. \A p \in Procs : pc[p] = "active" =>
          /\ class[p] \in {"bw", "tput", "lat", "read"}
          /\ isSmall[p] = 1 <=> class[p] = "lat"
    BY <1>1, ProcsAssumption DEF CountSafe, Local
  <1>5. BigReported = Active({"bw", "tput"}) /\ SmallReported = Active({"lat"})
    BY <1>3, <1>4 DEF BigReported, SmallReported, Active
  <1>6. \A h \in Hosts : /\ SmallOn(h) = Active({"lat"}) \cap On(h)
                         /\ BigOn(h) = Active({"bw"}) \cap On(h)
    BY <1>3 DEF SmallOn, BigOn, AddedSmall, AddedBig, Active, On
  <1> QED
    BY <1>1, <1>5, <1>6 DEF CountSafe, Counts, CountsAgree

(* Whenever nothing is under way, and no application was killed, ended      *)
(* early, joined twice or used READ, the receiver's counts are, modulo     *)
(* 2^16, the numbers of big and of latency applications that are active,   *)
(* and those of each host's shared block the numbers on that host, for any *)
(* number of hosts and applications in any order of their steps (the       *)
(* start_flag block of split_mlx5_post_send, set_inactive_on_exit,         *)
(* flow_handler, server_loop).                                             *)
THEOREM CountsRight == Spec => []CountsAgree
  <1>1. Init => SlotInv /\ CountInv
    BY SlotInit, CountInit
  <1>2. TypeInv /\ SlotInv /\ CountInv /\ [Next]_vars => SlotInv' /\ CountInv'
    BY SlotStep, CountStep
  <1>3. CountInv => CountsAgree
    BY CountEnds
  <1> QED
    BY <1>1, <1>2, <1>3, TypeInvariant, PTL DEF Spec, SafeSpec
=============================================================================
