------------------------ MODULE CompletionQueueProofs ------------------------
(***************************************************************************)
(* Proofs about CompletionQueue, for every number of queue pairs, set of   *)
(* ring sizes, size of the work queues, width of the counters, first value *)
(* of the indices and bound on posts, destroys, resizes and errors: every  *)
(* action keeps the invariant of CompletionQueueLemmas, and the invariant  *)
(* has what the properties say.                                            *)
(***************************************************************************)
EXTENDS CompletionQueueLemmas

-----------------------------------------------------------------------------
(* Everything but the types and the shared queue, action by action.        *)

(* The part of the invariant that an action's effect on ring and send      *)
(* queues decides.                                                         *)
Core == RingTypes /\ Bits /\ SqTypes /\ Contents /\ SendInv /\ EntriesIntact /\ Account /\ Lag

LEMMA SendsGive ==
  ASSUME SendsKept
  PROVE  SqTypes' /\ SendInv' /\ EntriesIntact'
  <1>1. \A q \in QPs : Counters(q)' /\ Numbers(q)' /\ Intact(q)' /\ Window(q)'
    BY DEF SendsKept, SqOk
  <1>2. SendInv' BY <1>1 DEF SendInv
  <1>3. EntriesIntact' BY <1>1 DEF EntriesIntact, Intact
  <1> QED BY <1>2, <1>3 DEF SendsKept

LEMMA AccountIs ==
  ASSUME IInv
  PROVE  /\ due <= Capacity - 1
         /\ due - seen >= QLen + TK + Posted + Total
         /\ lock = "clean" => due >= Span + Posted + Rest
  BY DEF IInv, Account, Total, Rest

LEMMA AccountNext ==
  ASSUME due' <= Capacity' - 1, due' - seen' >= QLen' + TK' + Posted' + Total',
         lock' = "clean" => due' >= Span' + Posted' + Rest'
  PROVE  Account'
  BY DEF Account, Total, Rest

LEMMA ContentsStay ==
  ASSUME IInv, Same, table \subseteq table', taken' = taken,
         \A x \in table : sqTail'[x] = sqTail[x],
         lock' = "clean" => lock = "clean" /\ sweep' = sweep
  PROVE  Contents'
  <1>1. QLen \in Nat /\ Held /\ Swept /\ Looked BY Base
  <1>2. Q' = Q /\ QLen' = QLen BY <1>1, QueueMoves
  <1>3. Held' BY <1>1, <1>2 DEF Held, GoodCqe
  <1>4. Swept' BY <1>1, <1>2 DEF Swept
  <1>5. Looked' BY <1>1 DEF Looked
  <1> QED BY <1>3, <1>4, <1>5 DEF Contents

LEMMA ContentsPushed ==
  ASSUME IInv, NEW c, Pushed(c), GoodCqe(c, table), UNCHANGED <<table, taken, sqTail, lock, sweep>>,
         lock = "clean" => c.qp # sweep.qp
  PROVE  Contents'
  <1>1. QLen \in Nat /\ Held /\ Swept /\ Looked BY Base
  <1>2. QLen' = QLen + 1 /\ \A i \in 1..QLen+1 : Q'[i] = IF i \in 1..QLen THEN Q[i] ELSE c
    BY <1>1 DEF Pushed
  <1>3. Held' BY <1>1, <1>2 DEF Held
  <1>4. Swept' BY <1>1, <1>2 DEF Swept
  <1>5. Looked' BY <1>1 DEF Looked
  <1> QED BY <1>3, <1>4, <1>5 DEF Contents

LEMMA PostedTaken ==
  ASSUME IInv, TakeSrqWqe
  PROVE  Posted' = Posted - 1
  <1>1. /\ Posted \in 0..RecvMod-1 /\ Posted \in Nat /\ RecvMod \in Nat \ {0}
        /\ srqCounter \in 0..RecvMod-1 /\ hwTaken \in 0..RecvMod-1
    BY PostedNat DEF IInv, Types
  <1>2. Posted > 0 BY DEF TakeSrqWqe
  <1>3. srqCounter \in Int /\ hwTaken \in Int BY <1>1
  <1>4. (srqCounter - ((hwTaken + 1) % RecvMod)) % RecvMod = ((srqCounter - hwTaken) % RecvMod) - 1
    <2> DEFINE one == 1
    <2>1. one \in Int /\ ((srqCounter - hwTaken) % RecvMod) - one \in 0..RecvMod-1
      BY <1>1, <1>2 DEF Posted
    <2> HIDE DEF one
    <2>2. (srqCounter - ((hwTaken + one) % RecvMod)) % RecvMod = ((srqCounter - hwTaken) % RecvMod) - one
      BY <1>1, <1>3, <2>1, RemShrinks
    <2> QED BY <2>2 DEF one
  <1> QED BY <1>4 DEF Posted, TakeSrqWqe

LEMMA PathRoom ==
  ASSUME IInv, srqHead # srqTail
  PROVE  Posted + 1 < SrqSize
  <1>1. Posted \in Nat /\ SrqSize \in Nat BY PostedNat DEF IInv, Types
  <1>2. PICK n \in 1..SrqSize : \E p \in [0..n-1 -> SrqIndex] : Path(p, n) BY DEF IInv, SrqInv
  <1>3. PICK p \in [0..n-1 -> SrqIndex] : Path(p, n) BY <1>2
  <1>4. n \in Nat /\ n <= SrqSize /\ Posted < n /\ p[Posted] = srqHead /\ p[n - 1] = srqTail
    BY <1>1, <1>3 DEF Path
  <1>5. Posted # n - 1 BY <1>4
  <1> QED BY <1>1, <1>4, <1>5

LEMMA PostedPosts ==
  ASSUME IInv, PostSrqRecv
  PROVE  Posted' = Posted + 1
  <1>1. /\ Posted \in 0..RecvMod-1 /\ Posted \in Nat /\ RecvMod \in Nat \ {0} /\ RecvMod >= SrqSize
        /\ SrqSize \in Nat
        /\ srqCounter \in 0..RecvMod-1 /\ hwTaken \in 0..RecvMod-1
    BY PostedNat DEF IInv, Types
  <1>2. Posted + 1 < SrqSize BY PathRoom DEF PostSrqRecv
  <1>3. srqCounter \in Int /\ hwTaken \in Int BY <1>1
  <1>4. (((srqCounter + 1) % RecvMod) - hwTaken) % RecvMod = ((srqCounter - hwTaken) % RecvMod) + 1
    <2> DEFINE one == 1
    <2>1. one \in Int /\ ((srqCounter - hwTaken) % RecvMod) + one \in 0..RecvMod-1
      BY <1>1, <1>2 DEF Posted
    <2> HIDE DEF one
    <2>2. (((srqCounter + one) % RecvMod) - hwTaken) % RecvMod = ((srqCounter - hwTaken) % RecvMod) + one
      BY <1>1, <1>3, <2>1, RemGrows
    <2> QED BY <2>2 DEF one
  <1> QED BY <1>4 DEF Posted, PostSrqRecv

LEMMA LagStays ==
  ASSUME IInv, UNCHANGED <<lock, cons, ci, seen, taken>>
  PROVE  Lag'
  BY TakenStays DEF IInv, Lag

LEMMA PostSendCore ==
  ASSUME IInv, NEW q \in QPs, NEW sig \in BOOLEAN, PostSend(q, sig)
  PROVE  Core' /\ Same /\ Span' = Span
  <1>1. /\ UNCHANGED <<srqVars, ring, size, cons, prod, ci, taken, seen, reported, table, state, lock,
                       sweep, target, oldRing>>
        /\ WriteWqe(q, sig) /\ due' = due + 1 /\ due < Capacity - 1 /\ q \in table /\ state[q] # "reset"
    BY DEF PostSend, cqVars, pollVars, qpVars, jobVars, CountPost, Room
  <1>2. RingInv /\ Slacks \in [QPs -> Int] /\ due \in Nat /\ seen \in Nat /\ Total \in Nat /\ Rest \in Nat
        /\ Posted \in Nat /\ Span \in Nat /\ QLen \in Nat /\ TK \in Nat /\ Capacity \in Nat
    BY Base
  <1>3. Same /\ Span' = Span /\ Bits' /\ RingTypes' BY <1>1, <1>2, RingStays
  <1>4. SendsKept /\ \A x \in QPs : Slack(x)' = Slack(x) + (IF x = q THEN 1 ELSE 0)
    BY <1>1, <1>3, PostSends
  <1>5. Total' = Total + 1 /\ Rest' = Rest + (IF q = sweep.qp THEN 0 ELSE 1)
    BY <1>1, <1>4, SumsMove
  <1>6. lock = "clean" => q # sweep.qp BY <1>1, <1>2 DEF RingInv, Jobs
  <1>7. Posted' = Posted /\ Capacity' = Capacity /\ TK' = TK /\ QLen' = QLen
    BY <1>1, <1>3, TakenStays DEF Posted, Capacity, srqVars, Same
  <1>8. Account'
    <2>1. due' <= Capacity' - 1 BY <1>1, <1>2, <1>7
    <2>2. due' - seen' >= QLen' + TK' + Posted' + Total'
      <3>1. due - seen >= QLen + TK + Posted + Total BY AccountIs
      <3> QED BY <1>1, <1>2, <1>5, <1>7, <3>1
    <2>3. lock' = "clean" => due' >= Span' + Posted' + Rest'
      <3>1. lock = "clean" => due >= Span + Posted + Rest BY AccountIs
      <3> QED BY <1>1, <1>2, <1>3, <1>5, <1>6, <1>7, <3>1
    <2> QED BY <2>1, <2>2, <2>3, AccountNext
  <1>9. Contents'
    <2>1. sqTail' = sqTail BY <1>1 DEF WriteWqe
    <2> QED BY <1>1, <1>3, <2>1, ContentsStay
  <1>10. Lag' BY <1>1, LagStays
  <1> QED BY <1>3, <1>4, <1>8, <1>9, <1>10, SendsGive DEF Core

LEMMA EndPostCore ==
  ASSUME IInv, NEW q \in QPs, EndPost(q)
  PROVE  Core' /\ Same /\ Span' = Span
  <1>1. /\ UNCHANGED <<srqVars, ring, size, cons, prod, ci, taken, seen, reported, table, state, lock,
                       sweep, target, oldRing, due>>
        /\ RingDoorbell(q)
    BY DEF EndPost, cqVars, pollVars, qpVars, jobVars
  <1>2. RingInv BY Base
  <1>3. Same /\ Span' = Span /\ Bits' /\ RingTypes' BY <1>1, <1>2, RingStays
  <1>4. SendsKept /\ \A x \in QPs : Slack(x)' = Slack(x)
    BY <1>1, <1>3, DoorbellSends
  <1>5. Total' = Total /\ Rest' = Rest BY <1>1, <1>4, SumsStay
  <1>6. Posted' = Posted /\ Capacity' = Capacity /\ TK' = TK /\ QLen' = QLen
    BY <1>1, <1>3, TakenStays DEF Posted, Capacity, srqVars, Same
  <1>7. Account' BY <1>1, <1>3, <1>5, <1>6, AccountIs, AccountNext
  <1>8. Contents'
    <2>1. sqTail' = sqTail BY <1>1 DEF RingDoorbell
    <2> QED BY <1>1, <1>3, <2>1, ContentsStay
  <1>9. Lag' BY <1>1, LagStays
  <1> QED BY <1>3, <1>4, <1>7, <1>8, <1>9, SendsGive DEF Core

LEMMA PostRecvCore ==
  ASSUME IInv, PostRecv
  PROVE  Core' /\ Same /\ Span' = Span
  <1>1. /\ UNCHANGED <<sqVars, ring, size, cons, prod, ci, taken, seen, reported, table, state, lock,
                       sweep, target, oldRing>>
        /\ PostSrqRecv /\ due' = due + 1 /\ due < Capacity - 1
    BY DEF PostRecv, cqVars, pollVars, qpVars, jobVars, CountPost, Room
  <1>2. RingInv /\ due \in Nat /\ seen \in Nat /\ Total \in Nat /\ Rest \in Nat
        /\ Posted \in Nat /\ Span \in Nat /\ QLen \in Nat /\ TK \in Nat /\ Capacity \in Nat
    BY Base
  <1>3. Same /\ Span' = Span /\ Bits' /\ RingTypes' BY <1>1, <1>2, RingStays
  <1>4. SendsKept /\ \A x \in QPs : Slack(x)' = Slack(x)
    BY <1>1, <1>3, StaySends
  <1>5. Total' = Total /\ Rest' = Rest BY <1>1, <1>4, SumsStay
  <1>6. Posted' = Posted + 1 /\ Capacity' = Capacity /\ TK' = TK /\ QLen' = QLen
    BY <1>1, <1>3, TakenStays, PostedPosts DEF Capacity, Same
  <1>7. Account'
    <2>1. due' <= Capacity' - 1 BY <1>1, <1>2, <1>6
    <2>2. due' - seen' >= QLen' + TK' + Posted' + Total'
      <3>1. due - seen >= QLen + TK + Posted + Total BY AccountIs
      <3> QED BY <1>1, <1>2, <1>5, <1>6, <3>1
    <2>3. lock' = "clean" => due' >= Span' + Posted' + Rest'
      <3>1. lock = "clean" => due >= Span + Posted + Rest BY AccountIs
      <3> QED BY <1>1, <1>2, <1>3, <1>5, <1>6, <3>1
    <2> QED BY <2>1, <2>2, <2>3, AccountNext
  <1>8. Contents'
    <2>1. sqTail' = sqTail BY <1>1 DEF sqVars
    <2> QED BY <1>1, <1>3, <2>1, ContentsStay
  <1>9. Lag' BY <1>1, LagStays
  <1> QED BY <1>3, <1>4, <1>7, <1>8, <1>9, SendsGive DEF Core

(* A transport error, the start of a destruction, and nothing at all.      *)
LEMMA QuietCore ==
  ASSUME IInv, UNCHANGED <<sqVars, srqVars, cqVars, taken, seen, table, lock, jobVars, due>>
  PROVE  Core' /\ Same /\ Span' = Span
  <1>1. UNCHANGED <<sqVars, srqVars, ring, size, cons, prod, ci, taken, seen, table, lock,
                    sweep, target, oldRing, due>>
    BY DEF cqVars, jobVars
  <1>2. RingInv BY Base
  <1>3. Same /\ Span' = Span /\ Bits' /\ RingTypes' BY <1>1, <1>2, RingStays
  <1>4. SendsKept /\ \A x \in QPs : Slack(x)' = Slack(x)
    BY <1>1, <1>3, StaySends
  <1>5. Total' = Total /\ Rest' = Rest BY <1>1, <1>4, SumsStay
  <1>6. Posted' = Posted /\ Capacity' = Capacity /\ TK' = TK /\ QLen' = QLen
    BY <1>1, <1>3, TakenStays DEF Posted, Capacity, srqVars, Same
  <1>7. Account' BY <1>1, <1>3, <1>5, <1>6, AccountIs, AccountNext
  <1>8. Contents'
    <2>1. sqTail' = sqTail BY <1>1 DEF sqVars
    <2> QED BY <1>1, <1>3, <2>1, ContentsStay
  <1>9. Lag' BY <1>1, LagStays
  <1> QED BY <1>3, <1>4, <1>7, <1>8, <1>9, SendsGive DEF Core

LEMMA NotBoth ==
  ASSUME QLen \in Nat, NEW c, Pushed(c)
  PROVE  ~Same
  <1>1. QLen' = QLen + 1 BY DEF Pushed
  <1> QED BY <1>1 DEF Same

LEMMA ExecuteCore ==
  ASSUME IInv, NEW q \in QPs, ExecuteSend(q)
  PROVE  /\ Core' /\ Span' >= Span
         /\ Same \/ \E c \in Completions : Pushed(c) /\ c.send
  <1>1. /\ UNCHANGED <<srqVars, size, cons, ci, taken, seen, reported, table, state, lock,
                       sweep, target, oldRing, due>>
        /\ Execute(q) /\ state[q] # "reset"
    BY DEF ExecuteSend, cqVars, pollVars, qpVars, jobVars, Produce
  <1>2. /\ RingInv /\ SqTypes /\ Slacks \in [QPs -> Int]
        /\ due \in Nat /\ seen \in Nat /\ Total \in Nat /\ Rest \in Nat
        /\ Posted \in Nat /\ Span \in Nat /\ QLen \in Nat /\ TK \in Nat /\ Capacity \in Nat
    BY Base
  <1>3. q \in table /\ (lock = "clean" => q # sweep.qp) BY <1>1, <1>2 DEF RingInv, Jobs
  <1>4. PICK c : c = [qp |-> q, send |-> TRUE, wqe |-> hwSq[q] % WqeMod, id |-> hwSq[q]] OBVIOUS
  <1>5. c \in Completions /\ GoodCqe(c, table) /\ c.qp = q /\ c.send /\ c.id = hwSq[q]
    <2>1. hwSq[q] \in Index BY <1>2 DEF SqTypes
    <2>2. hwSq[q] % WqeMod \in 0..WqeMod-1
      <3>1. hwSq[q] \in Int /\ WqeMod \in Nat \ {0} BY <2>1, SqConsts DEF Index
      <3> QED BY <3>1, DivRem
    <2>3. c \in Completions BY <1>4, <2>1, <2>2 DEF Completions, Index
    <2> QED BY <1>3, <1>4, <2>3 DEF GoodCqe
  <1>6. Posted' = Posted /\ Capacity' = Capacity /\ TK' = TK
    BY <1>1, TakenStays DEF Posted, Capacity, srqVars
  <1>7. sqTail' = sqTail BY <1>1 DEF Execute
  <1>8. Lag' BY <1>1, LagStays
  <1>9. CASE NextEntry(q).signaled \/ state[q] = "error"
    <2>1. Produce(c) BY <1>4, <1>9 DEF ExecuteSend
    <2>2. Pushed(c) /\ Span' = Span + 1 /\ Bits' /\ RingTypes'
      BY <1>1, <1>2, <1>5, <2>1, RingProduces
    <2>3. ~Same BY <1>2, <2>2, NotBoth
    <2>4. SendsKept /\ \A x \in QPs : Slack(x)' = Slack(x) + (IF x = q THEN -1 ELSE 0)
      BY <1>1, <1>5, <2>2, <2>3, ExecuteSends
    <2>5. Total' = Total + (-1) /\ Rest' = Rest + (IF q = sweep.qp THEN 0 ELSE -1)
      BY <1>1, <1>3, <2>4, SumsMove
    <2>6. QLen' = QLen + 1 BY <2>2 DEF Pushed
    <2>7. Account'
      <3>1. due' - seen' >= QLen' + TK' + Posted' + Total'
        <4>1. due - seen >= QLen + TK + Posted + Total BY AccountIs
        <4> QED BY <1>1, <1>2, <1>6, <2>5, <2>6, <4>1
      <3>2. lock' = "clean" => due' >= Span' + Posted' + Rest'
        <4>1. lock = "clean" => due >= Span + Posted + Rest BY AccountIs
        <4> QED BY <1>1, <1>2, <1>3, <1>6, <2>2, <2>5, <4>1
      <3> QED BY <1>1, <1>6, <3>1, <3>2, AccountIs, AccountNext
    <2>8. Contents' BY <1>1, <1>3, <1>5, <1>7, <2>2, ContentsPushed
    <2> QED BY <1>2, <1>5, <1>8, <2>2, <2>4, <2>7, <2>8, SendsGive DEF Core
  <1>10. CASE ~(NextEntry(q).signaled \/ state[q] = "error")
    <2>1. UNCHANGED <<ring, prod>> BY <1>10 DEF ExecuteSend, cqVars
    <2>2. Same /\ Span' = Span /\ Bits' /\ RingTypes' BY <1>1, <1>2, <2>1, RingStays
    <2>3. SendsKept /\ \A x \in QPs : Slack(x)' = Slack(x)
      BY <1>1, <2>2, ExecuteSends
    <2>4. Total' = Total /\ Rest' = Rest BY <1>1, <2>3, SumsStay
    <2>5. QLen' = QLen BY <2>2 DEF Same
    <2>6. Account' BY <1>1, <1>6, <2>2, <2>4, <2>5, AccountIs, AccountNext
    <2>7. Contents' BY <1>1, <1>7, <2>2, ContentsStay
    <2> QED BY <1>2, <1>8, <2>2, <2>3, <2>6, <2>7, SendsGive DEF Core
  <1> QED BY <1>9, <1>10

LEMMA ReceiveCore ==
  ASSUME IInv, NEW q \in QPs, Receive(q)
  PROVE  /\ Core' /\ Span' >= Span
         /\ \E c \in Completions : Pushed(c) /\ ~c.send /\ c.wqe = hwSrq
  <1>1. /\ UNCHANGED <<sqVars, size, cons, ci, taken, seen, reported, table, state, lock,
                       sweep, target, oldRing, due>>
        /\ TakeSrqWqe /\ state[q] = "ready"
    BY DEF Receive, cqVars, pollVars, qpVars, jobVars, Produce
  <1>2. /\ RingInv /\ SqTypes
        /\ due \in Nat /\ seen \in Nat /\ Total \in Nat /\ Rest \in Nat
        /\ Posted \in Nat /\ Span \in Nat /\ QLen \in Nat /\ TK \in Nat /\ Capacity \in Nat
    BY Base
  <1>3. q \in table /\ (lock = "clean" => q # sweep.qp) BY <1>1, <1>2 DEF RingInv, Jobs
  <1>4. PICK c : c = [qp |-> q, send |-> FALSE, wqe |-> hwSrq, id |-> hwTaken] OBVIOUS
  <1>5. c \in Completions /\ GoodCqe(c, table) /\ c.qp = q /\ ~c.send /\ c.wqe = hwSrq
    <2>1. hwSrq \in SrqIndex /\ hwTaken \in 0..RecvMod-1 BY DEF IInv, Types
    <2>2. /\ SrqSize \in Nat /\ RecvMod \in Nat /\ WqeMod \in Nat /\ IndexMod \in Nat
          /\ SrqSize <= WqeMod /\ RecvMod <= IndexMod
      BY SharedReceiveQueueAssumption, CompletionQueueAssumption, SqConsts
    <2>3. hwSrq \in 0..WqeMod-1 /\ hwTaken \in 0..IndexMod-1 BY <2>1, <2>2 DEF SrqIndex
    <2>4. c \in Completions BY <1>4, <2>3 DEF Completions
    <2> QED BY <1>3, <1>4, <2>1, <2>4 DEF GoodCqe
  <1>6. Posted' = Posted - 1 /\ Capacity' = Capacity /\ TK' = TK
    BY <1>1, TakenStays, PostedTaken DEF Capacity
  <1>7. sqTail' = sqTail BY <1>1 DEF sqVars
  <1>8. Lag' BY <1>1, LagStays
  <1>9. Produce(c) BY <1>4 DEF Receive
  <1>10. Pushed(c) /\ Span' = Span + 1 /\ Bits' /\ RingTypes'
    BY <1>1, <1>2, <1>5, <1>9, RingProduces
  <1>11. SendsKept /\ \A x \in QPs : Slack(x)' = Slack(x)
    BY <1>1, <1>5, <1>10, ReceiveSends
  <1>12. Total' = Total /\ Rest' = Rest BY <1>1, <1>11, SumsStay
  <1>13. QLen' = QLen + 1 BY <1>10 DEF Pushed
  <1>14. Account'
    <2>1. due' - seen' >= QLen' + TK' + Posted' + Total'
      <3>1. due - seen >= QLen + TK + Posted + Total BY AccountIs
      <3> QED BY <1>1, <1>2, <1>6, <1>12, <1>13, <3>1
    <2>2. lock' = "clean" => due' >= Span' + Posted' + Rest'
      <3>1. lock = "clean" => due >= Span + Posted + Rest BY AccountIs
      <3> QED BY <1>1, <1>2, <1>6, <1>10, <1>12, <3>1
    <2> QED BY <1>1, <1>6, <2>1, <2>2, AccountIs, AccountNext
  <1>15. Contents' BY <1>1, <1>3, <1>5, <1>7, <1>10, ContentsPushed
  <1> QED BY <1>2, <1>5, <1>8, <1>10, <1>11, <1>14, <1>15, SendsGive DEF Core

LEMMA CreateCore ==
  ASSUME IInv, NEW q \in QPs, CreateQp(q)
  PROVE  Core' /\ Same /\ Span' = Span
  <1>1. /\ UNCHANGED <<srqVars, ring, size, cons, prod, ci, taken, seen, reported, lock,
                       sweep, target, oldRing, due>>
        /\ InitIndices(q) /\ q \notin table /\ table' = table \cup {q}
    BY DEF CreateQp, cqVars, pollVars, jobVars
  <1>2. RingInv /\ SqTypes BY Base
  <1>3. Same /\ Span' = Span /\ Bits' /\ RingTypes' BY <1>1, <1>2, RingStays
  <1>4. /\ SendsKept /\ Slack(q)' = 0
        /\ \A x \in QPs : x # q => Slack(x)' = Slack(x)
    BY <1>1, <1>3, CreateSends
  <1>5. Slacks' = Slacks
    <2>1. \A x \in QPs : (IF x \in table' THEN Slack(x)' ELSE 0) = (IF x \in table THEN Slack(x) ELSE 0)
      BY <1>1, <1>4
    <2>2. Slacks' = [x \in QPs |-> IF x \in table' THEN Slack(x)' ELSE 0] BY DEF Slacks
    <2> QED BY <2>1, <2>2 DEF Slacks
  <1>6. Others' = Others
    <2>1. \A x \in QPs : (IF x \in table' /\ x # sweep.qp THEN Slack(x)' ELSE 0)
                           = (IF x \in table /\ x # sweep.qp THEN Slack(x) ELSE 0)
      BY <1>1, <1>4
    <2>2. Others' = [x \in QPs |-> IF x \in table' /\ x # sweep'.qp THEN Slack(x)' ELSE 0] BY DEF Others
    <2> QED BY <1>1, <2>1, <2>2 DEF Others
  <1>7. Total' = Total /\ Rest' = Rest BY <1>5, <1>6 DEF Total, Rest
  <1>8. Posted' = Posted /\ Capacity' = Capacity /\ TK' = TK /\ QLen' = QLen
    BY <1>1, <1>3, TakenStays DEF Posted, Capacity, srqVars, Same
  <1>9. Account' BY <1>1, <1>3, <1>7, <1>8, AccountIs, AccountNext
  <1>10. Contents'
    <2>1. \A x \in table : sqTail'[x] = sqTail[x]
      <3>1. table \subseteq QPs BY DEF IInv, Types, TypeOK
      <3> QED BY <1>1, <1>2, <3>1 DEF InitIndices, SqTypes
    <2>2. table \subseteq table' BY <1>1
    <2> QED BY <1>1, <1>3, <2>1, <2>2, ContentsStay
  <1>11. Lag' BY <1>1, LagStays
  <1> QED BY <1>3, <1>4, <1>9, <1>10, <1>11, SendsGive DEF Core

LEMMA OneMore ==
  ASSUME NEW M \in Nat \ {0}, NEW x \in Int, NEW y \in Int
  PROVE  (((x + 1) % M) - y) % M <= ((x - y) % M) + 1
  <1> DEFINE one == 1
             r == (x - y) % M
  <1>1. one \in Int /\ x - y \in Int OBVIOUS
  <1>2. (((x + 1) % M) - y) % M = (r + 1) % M
    <2> HIDE DEF one, r
    <2>1. (((x + one) % M) - y) % M = ((x - y) + one) % M
      BY <1>1, WrapRight
    <2>2. (((x - y) % M) + one) % M = ((x - y) + one) % M
      <3> DEFINE z == x - y
      <3>1. z \in Int BY <1>1
      <3> HIDE DEF z
      <3>2. ((z % M) + one) % M = (z + one) % M BY <1>1, <3>1, RemAdd
      <3> QED BY <3>2 DEF z
    <2> QED BY <2>1, <2>2 DEF one, r
  <1>3. r \in 0..M-1 BY <1>1, DivRem
  <1> HIDE DEF r
  <1>4. CASE r + 1 < M
    <2>1. r + 1 \in 0..M-1 BY <1>3, <1>4
    <2>2. (r + 1) % M = r + 1 BY <2>1, RemSmall
    <2> QED BY <1>2, <1>3, <2>2 DEF r
  <1>5. CASE ~(r + 1 < M)
    <2>1. r + 1 \in Int /\ r + 1 = M BY <1>3, <1>5
    <2>2. (r + 1) % M \in 0..M-1 BY <2>1, DivRem
    <2>3. (r + 1) % M <= r + 1 BY <2>1, <2>2
    <2> QED BY <1>2, <2>3 DEF r
  <1> QED BY <1>4, <1>5

LEMMA ContentsGone ==
  ASSUME IInv, NEW k, Gone(k), table' = table
  PROVE  Held'
  <1>1. QLen \in Nat /\ Held BY Base
  <1>2. /\ k \in 1..QLen /\ QLen' = QLen - 1
        /\ \A i \in 1..QLen-1 : Q'[i] = IF i < k THEN Q[i] ELSE Q[i + 1]
    BY DEF Gone
  <1>3. ASSUME NEW i \in 1..QLen-1 PROVE GoodCqe(Q'[i], table)
    <2>1. i \in 1..QLen /\ i + 1 \in 1..QLen BY <1>1
    <2>2. GoodCqe(Q[i], table) /\ GoodCqe(Q[i + 1], table) BY <1>1, <2>1 DEF Held
    <2> QED BY <1>2, <2>2
  <1> QED BY <1>2, <1>3 DEF Held

LEMMA TakeCore ==
  ASSUME IInv, TakeCqe
  PROVE  Core' /\ Gone(1) /\ taken = None /\ taken' = Q[1] /\ Q[1] \in Completions /\ seen' \in Nat
  <1>1. /\ UNCHANGED <<srqVars, ring, size, prod, ci, table, state, sweep, target, oldRing, reported, due>>
        /\ lock \in {None, "poll"} /\ taken = None /\ Valid(ring, cons, size) /\ lock' = "poll"
        /\ cons' = CqIndex(cons + 1)
    BY DEF TakeCqe, qpVars, jobVars
  <1>2. /\ RingInv /\ SqTypes /\ Slacks \in [QPs -> Int]
        /\ due \in Nat /\ seen \in Nat /\ Total \in Nat /\ Rest \in Nat
        /\ Posted \in Nat /\ Span \in Nat /\ QLen \in Nat /\ TK \in Nat /\ Capacity \in Nat /\ Held
    BY Base
  <1>3. /\ Gone(1) /\ Span' = Span - 1 /\ Bits' /\ RingTypes'
        /\ Q[1] = ring[cons % size].cqe
    BY <1>1, <1>2, RingTakes
  <1>4. QLen' = QLen - 1 /\ 1 \in 1..QLen
    BY <1>3 DEF Gone
  <1>5. PICK c : c = Q[1] OBVIOUS
  <1>6. GoodCqe(c, table) BY <1>2, <1>4, <1>5 DEF Held
  <1>7. PICK q : q = c.qp OBVIOUS
  <1>8. /\ c \in Completions /\ q \in table /\ c.send \in BOOLEAN /\ c # None
        /\ (~c.send => c.wqe \in SrqIndex)
    BY <1>6, <1>7, NoneAssumption DEF GoodCqe, Completions
  <1>9. /\ taken' = c
        /\ c.send => /\ SkipTo(q, c.wqe) /\ UNCHANGED <<sqHead, nreq, wqe, wrid, hwSq>>
                     /\ seen' = seen + Dist(sqTail[q], sqTail'[q])
        /\ ~c.send => UNCHANGED sqVars /\ seen' = seen
    BY <1>3, <1>5, <1>7, <1>8 DEF TakeCqe
  <1>10. /\ SendsKept
         /\ ~c.send => \A x \in QPs : Slack(x)' = Slack(x)
         /\ c.send => \E d \in Nat :
              /\ sqTail'[q] = c.id /\ Dist(sqTail[q], sqTail'[q]) = d
              /\ \A x \in QPs : Slack(x)' = Slack(x) + (IF x = q THEN -d ELSE 0)
    BY <1>1, <1>3, <1>5, <1>7, <1>8, <1>9, TakeSends
  <1>11. /\ TK = 0 /\ TK' = 1 BY <1>1, <1>8, <1>9 DEF TK
  <1>12. Posted' = Posted /\ Capacity' = Capacity BY <1>1 DEF Posted, Capacity, srqVars
  <1>13. \E d \in Nat : seen' = seen + d /\ Total' = Total + (-d)
    <2>1. CASE ~c.send
      <3>1. Total' = Total BY <1>1, <1>10, <2>1, SumsStay
      <3>2. 0 \in Nat /\ seen' = seen + 0 /\ Total' = Total + (-0) BY <1>2, <1>9, <2>1, <3>1
      <3> QED BY <3>2
    <2>2. CASE c.send
      <3>1. PICK d \in Nat : /\ Dist(sqTail[q], sqTail'[q]) = d
                             /\ \A x \in QPs : Slack(x)' = Slack(x) + (IF x = q THEN -d ELSE 0)
        BY <1>10, <2>2
      <3> DEFINE e == -d
      <3>2. e \in Int /\ \A x \in QPs : Slack(x)' = Slack(x) + (IF x = q THEN e ELSE 0) BY <3>1
      <3> HIDE DEF e
      <3>3. Total' = Total + e BY <1>1, <1>8, <3>2, SumsMove
      <3> QED BY <1>9, <2>2, <3>1, <3>3 DEF e
    <2> QED BY <1>8, <2>1, <2>2
  <1>14. PICK d \in Nat : seen' = seen + d /\ Total' = Total + (-d) BY <1>13
  <1>15. Account'
    <2>1. due' - seen' >= QLen' + TK' + Posted' + Total'
      <3>1. due - seen >= QLen + TK + Posted + Total BY AccountIs
      <3> QED BY <1>1, <1>2, <1>4, <1>11, <1>12, <1>14, <3>1
    <2>2. lock' # "clean" BY <1>1
    <2> QED BY <1>1, <1>12, <2>1, <2>2, AccountIs, AccountNext
  <1>16. Lag'
    <2>1. (cons' - ci') % CqMod <= ((cons - ci) % CqMod) + 1
      <3>1. CqMod \in Nat \ {0} /\ cons \in Int /\ ci \in Int
        BY CompletionQueueAssumption DEF IInv, Types, TypeOK
      <3> QED BY <1>1, <3>1, OneMore DEF CqIndex
    <2>2. (cons - ci) % CqMod <= seen
      <3>1. CASE lock = "poll" BY <1>2, <1>11, <3>1 DEF IInv, Lag
      <3>2. CASE lock # "poll"
        <4>1. ci = cons BY <1>2, <3>2 DEF RingInv, Jobs
        <4>2. CqMod \in Nat \ {0} /\ cons \in Int
          BY CompletionQueueAssumption DEF IInv, Types, TypeOK
        <4>3. 0 \in 0..CqMod-1 /\ cons - ci = 0 BY <4>1, <4>2
        <4>4. (cons - ci) % CqMod = 0 BY <4>2, <4>3, RemSmall
        <4> QED BY <1>2, <4>4
      <3> QED BY <3>1, <3>2
    <2>3. (cons - ci) % CqMod \in Int
      <3>1. CqMod \in Nat \ {0} /\ cons - ci \in Int
        BY CompletionQueueAssumption DEF IInv, Types, TypeOK
      <3> QED BY <3>1, DivRem
    <2>4. (cons' - ci') % CqMod \in Int
      <3>1. CqMod \in Nat \ {0} /\ cons' - ci' \in Int
        BY <1>1, <1>3, CompletionQueueAssumption DEF IInv, Types, TypeOK, RingTypes
      <3> QED BY <3>1, DivRem
    <2>5. (cons' - ci') % CqMod <= seen' + TK'
      BY <1>2, <1>11, <1>14, <2>1, <2>2, <2>3, <2>4
    <2> QED BY <2>5 DEF Lag
  <1>17. Contents'
    <2>1. Held' 
      <3> DEFINE one == 1
      <3>1. Gone(one) BY <1>3
      <3> HIDE DEF one
      <3> QED BY <1>1, <3>1, ContentsGone
    <2>2. Swept' BY <1>1 DEF Swept
    <2>3. Looked' BY <1>1, <1>7, <1>8, <1>9, <1>10 DEF Looked
    <2> QED BY <2>1, <2>2, <2>3 DEF Contents
  <1>18. seen' \in Nat BY <1>2, <1>14
  <1> QED BY <1>1, <1>3, <1>5, <1>8, <1>9, <1>10, <1>15, <1>16, <1>17, <1>18, SendsGive DEF Core

LEMMA ReportSendCore ==
  ASSUME IInv, ReportSend
  PROVE  Core' /\ Same /\ taken' = None /\ seen' = seen + 1 /\ reported' \in Completions
  <1>1. /\ UNCHANGED <<srqVars, ring, size, cons, prod, ci, table, state, lock, sweep, target, oldRing, due>>
        /\ UNCHANGED <<sqHead, nreq, wqe, wrid, hwSq>>
        /\ taken # None /\ taken.send /\ AdvanceTail(taken.qp) /\ taken' = None /\ seen' = seen + 1
        /\ reported' = [taken EXCEPT !.id = RequestAtTail(taken.qp)]
    BY DEF ReportSend, cqVars, qpVars, jobVars
  <1>2. /\ RingInv /\ SqTypes
        /\ due \in Nat /\ seen \in Nat /\ Total \in Nat /\ Rest \in Nat
        /\ Posted \in Nat /\ Span \in Nat /\ QLen \in Nat /\ Held /\ Swept /\ Looked
    BY Base
  <1>3. Same /\ Span' = Span /\ Bits' /\ RingTypes' BY <1>1, <1>2, RingStays
  <1>4. PICK q : q = taken.qp OBVIOUS
  <1>5. SendsKept /\ \A x \in QPs : Slack(x)' = Slack(x)
    BY <1>1, <1>3, <1>4, ReportSends
  <1>6. Total' = Total /\ Rest' = Rest BY <1>1, <1>5, SumsStay
  <1>7. TK = 1 /\ TK' = 0 BY <1>1 DEF TK
  <1>8. Posted' = Posted /\ Capacity' = Capacity /\ QLen' = QLen
    BY <1>1, <1>3 DEF Posted, Capacity, srqVars, Same
  <1>9. lock = "poll" BY <1>1, <1>2 DEF RingInv, Jobs
  <1>10. Account'
    <2>1. due' - seen' >= QLen' + TK' + Posted' + Total'
      <3>1. due - seen >= QLen + TK + Posted + Total BY AccountIs
      <3> QED BY <1>1, <1>2, <1>6, <1>7, <1>8, <3>1
    <2>2. lock' # "clean" BY <1>1, <1>9
    <2> QED BY <1>1, <1>8, <2>1, <2>2, AccountIs, AccountNext
  <1>11. Lag'
    <2>1. (cons - ci) % CqMod <= seen + TK BY <1>9 DEF IInv, Lag
    <2>2. seen' + TK' = seen + TK BY <1>1, <1>2, <1>7
    <2> QED BY <1>1, <2>1, <2>2 DEF Lag
  <1>12. Contents'
    <2>1. Q' = Q /\ QLen' = QLen BY <1>2, <1>3, QueueMoves
    <2> QED BY <1>1, <1>2, <2>1 DEF Contents, Held, Swept, Looked
  <1>13. reported' \in Completions
    <2>1. q \in QPs /\ taken \in Completions
      BY <1>1, <1>2, <1>4 DEF Looked, IInv, Types, TypeOK
    <2>2. TS(q) = 1 BY <1>1, <1>4 DEF TS
    <2>3. RequestAtTail(q) \in Index BY <2>1, <2>2, TailNumber
    <2> QED BY <1>1, <1>4, <2>1, <2>3 DEF Completions, Index
  <1> QED BY <1>1, <1>3, <1>5, <1>10, <1>11, <1>12, <1>13, SendsGive DEF Core

LEMMA ReportRecvCore ==
  ASSUME IInv, ReportRecv
  PROVE  Core' /\ Same /\ taken' = None /\ seen' = seen + 1 /\ reported' \in Completions
  <1>1. /\ UNCHANGED <<sqVars, ring, size, cons, prod, ci, table, state, lock, sweep, target, oldRing, due>>
        /\ UNCHANGED <<srqCounter, hwTaken>>
        /\ taken # None /\ ~taken.send /\ taken' = None /\ seen' = seen + 1
        /\ reported' = [taken EXCEPT !.id = srqWrid[taken.wqe]]
    BY DEF ReportRecv, cqVars, qpVars, jobVars, FreeSrqWqe
  <1>2. /\ RingInv /\ SqTypes
        /\ due \in Nat /\ seen \in Nat /\ Total \in Nat /\ Rest \in Nat
        /\ Posted \in Nat /\ Span \in Nat /\ QLen \in Nat /\ Held /\ Swept /\ Looked
        /\ \A x \in QPs : SqOk(x) /\ Window(x)
    BY Base
  <1>3. Same /\ Span' = Span /\ Bits' /\ RingTypes' BY <1>1, <1>2, RingStays
  <1>4. SendsKept /\ \A x \in QPs : Slack(x)' = Slack(x)
    <2>1. \A x : TS(x) = 0 /\ TS(x)' = 0 BY <1>1 DEF TS
    <2>2. \A x \in QPs : Unmoved(x) BY <1>1, <1>2, <2>1, SqStays DEF Unmoved
    <2>3. SqTypes' BY <1>1, <1>2, SqStays
    <2> QED BY <1>2, <1>3, <2>2, <2>3, KeptSame DEF SendsKept
  <1>5. Total' = Total /\ Rest' = Rest BY <1>1, <1>4, SumsStay
  <1>6. TK = 1 /\ TK' = 0 BY <1>1 DEF TK
  <1>7. Posted' = Posted /\ Capacity' = Capacity /\ QLen' = QLen
    BY <1>1, <1>3 DEF Posted, Capacity, Same
  <1>8. lock = "poll" BY <1>1, <1>2 DEF RingInv, Jobs
  <1>9. Account'
    <2>1. due' - seen' >= QLen' + TK' + Posted' + Total'
      <3>1. due - seen >= QLen + TK + Posted + Total BY AccountIs
      <3> QED BY <1>1, <1>2, <1>5, <1>6, <1>7, <3>1
    <2>2. lock' # "clean" BY <1>1, <1>8
    <2> QED BY <1>1, <1>7, <2>1, <2>2, AccountIs, AccountNext
  <1>10. Lag'
    <2>1. (cons - ci) % CqMod <= seen + TK BY <1>8 DEF IInv, Lag
    <2>2. seen' + TK' = seen + TK BY <1>1, <1>2, <1>6
    <2> QED BY <1>1, <2>1, <2>2 DEF Lag
  <1>11. Contents'
    <2>1. Q' = Q /\ QLen' = QLen BY <1>2, <1>3, QueueMoves
    <2> QED BY <1>1, <1>2, <2>1 DEF Contents, Held, Swept, Looked
  <1>12. reported' \in Completions
    <2>1. taken \in Completions /\ taken.wqe \in SrqIndex
      BY <1>1, <1>2 DEF Looked, IInv, Types, TypeOK
    <2>2. srqWrid[taken.wqe] \in 0..RecvMod-1 BY <2>1 DEF IInv, Types
    <2>3. RecvMod \in Nat /\ IndexMod \in Nat /\ RecvMod <= IndexMod
      BY SharedReceiveQueueAssumption, CompletionQueueAssumption, SqConsts
    <2>4. srqWrid[taken.wqe] \in 0..IndexMod-1 BY <2>2, <2>3
    <2> QED BY <1>1, <2>1, <2>4 DEF Completions
  <1> QED BY <1>1, <1>3, <1>4, <1>9, <1>10, <1>11, <1>12, SendsGive DEF Core

LEMMA EndPollCore ==
  ASSUME IInv, EndPoll
  PROVE  Core' /\ Same /\ due' \in Nat
  <1>1. /\ UNCHANGED <<sqVars, srqVars, ring, size, cons, prod, taken, table, state, sweep, target, oldRing>>
        /\ lock = "poll" /\ taken = None /\ lock' = None /\ due' = due - seen /\ seen' = 0
    BY DEF EndPoll, qpVars, jobVars
  <1>2. /\ RingInv /\ due \in Nat /\ seen \in Nat /\ Total \in Nat /\ Rest \in Nat
        /\ Posted \in Nat /\ Span \in Nat /\ QLen \in Nat /\ TK \in Nat /\ Capacity \in Nat
    BY Base
  <1>3. Same /\ Span' = Span /\ Bits' /\ RingTypes' BY <1>1, <1>2, LockNames, RingStays
  <1>4. SendsKept /\ \A x \in QPs : Slack(x)' = Slack(x)
    BY <1>1, <1>3, StaySends
  <1>5. Total' = Total BY <1>1, <1>4, SumsStay
  <1>6. Posted' = Posted /\ Capacity' = Capacity /\ TK' = TK /\ QLen' = QLen
    BY <1>1, <1>3, TakenStays DEF Posted, Capacity, srqVars, Same
  <1>7. due - seen >= QLen + TK + Posted + Total /\ due <= Capacity - 1 BY AccountIs
  <1>8. Account'
    <2>1. due' <= Capacity' - 1 BY <1>1, <1>2, <1>6, <1>7
    <2>2. due' - seen' >= QLen' + TK' + Posted' + Total'
      BY <1>1, <1>2, <1>5, <1>6, <1>7
    <2>3. lock' # "clean" BY <1>1, LockNames
    <2> QED BY <2>1, <2>2, <2>3, AccountNext
  <1>9. Contents'
    <2>1. sqTail' = sqTail /\ lock' # "clean" BY <1>1, LockNames DEF sqVars
    <2> QED BY <1>1, <1>3, <2>1, ContentsStay
  <1>10. Lag' BY <1>1, LockNames DEF Lag
  <1>11. due' \in Nat BY <1>1, <1>2, <1>7
  <1> QED BY <1>3, <1>4, <1>8, <1>9, <1>10, <1>11, SendsGive DEF Core

-----------------------------------------------------------------------------
(* Cleaning and resizing.                                                  *)

LEMMA NotPolling ==
  ASSUME IInv, lock # "poll"
  PROVE  taken = None /\ seen = 0 /\ ci = cons /\ TK = 0
  <1>1. taken = None /\ seen = 0 /\ ci = cons BY DEF IInv, Jobs
  <1> QED BY <1>1 DEF TK

(* Leaving one queue pair out of the account.                              *)
LEMMA RestIs ==
  ASSUME IInv, NEW q \in table, NEW g,
         g = [x \in QPs |-> IF x \in table /\ x # q THEN Slack(x) ELSE 0]
  PROVE  Total = SumFunctionOnSet(g, QPs) + Slack(q) /\ Slack(q) \in Nat
  <1> DEFINE f == Slacks
             d == Slack(q)
  <1>1. /\ f \in [QPs -> Int] /\ IsFiniteSet(QPs) /\ q \in QPs /\ d \in Nat
        /\ \A x \in QPs : Slack(x) \in Nat
    <2>1. Slacks \in [QPs -> Int] /\ \A x \in QPs : Slack(x) \in Nat BY Base
    <2>2. q \in QPs BY DEF IInv, Types, TypeOK
    <2> QED BY <2>1, <2>2, CompletionQueueAssumption
  <1>2. g \in [QPs -> Int] BY <1>1
  <1>3. f[q] = d /\ g[q] = 0 BY <1>1 DEF Slacks
  <1>4. f[q] = g[q] + d BY <1>1, <1>3
  <1>5. \A x \in QPs : x # q => f[x] = g[x] BY DEF Slacks
  <1>6. d \in Int BY <1>1
  <1>7. SumFunctionOnSet(f, QPs) = SumFunctionOnSet(g, QPs) + d
    <2> HIDE DEF f, d
    <2> QED BY <1>1, <1>2, <1>4, <1>5, <1>6, SumChange
  <1> QED BY <1>1, <1>7 DEF Total

LEMMA CleanScanCore ==
  ASSUME IInv, NEW q \in QPs, CleanScan(q)
  PROVE  /\ Core' /\ Same
         /\ sweep' \in [qp : table, left : Nat, freed : Nat] /\ sweep'.qp = q
         /\ sweep'.left + sweep'.freed <= Span'
  <1>1. /\ UNCHANGED <<sqVars, srqVars, ring, size, cons, prod, ci, taken, seen, table, state,
                       target, oldRing, due>>
        /\ q \in table /\ lock = None /\ lock' = "clean"
        /\ sweep' = [qp |-> q, left |-> FirstInvalid, freed |-> 0]
    BY DEF CleanScan, cqVars, pollVars, qpVars
  <1>2. /\ RingInv /\ due \in Nat /\ seen \in Nat /\ Total \in Nat
        /\ Posted \in Nat /\ Span \in Nat /\ QLen \in Nat /\ Held /\ Swept /\ Looked
    BY Base
  <1>3. /\ Same /\ Span' = Span /\ Bits' /\ RingTypes'
        /\ sweep'.left = QLen /\ sweep'.freed = 0 /\ sweep'.qp = q
    BY <1>1, <1>2, RingScans
  <1>4. SendsKept /\ \A x \in QPs : Slack(x)' = Slack(x)
    BY <1>1, <1>3, StaySends
  <1>5. Posted' = Posted /\ Capacity' = Capacity /\ TK' = TK /\ QLen' = QLen
    BY <1>1, <1>3, TakenStays DEF Posted, Capacity, srqVars, Same
  <1>6. taken = None /\ seen = 0 /\ TK = 0 /\ oldRing = None
    <2>1. lock # "poll" /\ lock # "resize" BY <1>1, LockNames
    <2> QED BY <1>2, <2>1, NotPolling DEF RingInv, Jobs
  <1>7. Span = QLen BY <1>1, <1>2, <1>6, LockNames, QLenNat DEF RingInv
  <1>8. Total' = Total
    <2>1. Slacks' = Slacks BY <1>1, <1>4 DEF Slacks
    <2> QED BY <2>1 DEF Total
  <1>9. Rest' <= Total
    <2>1. Others' = [x \in QPs |-> IF x \in table /\ x # q THEN Slack(x) ELSE 0]
      <3>1. Others' = [x \in QPs |-> IF x \in table' /\ x # sweep'.qp THEN Slack(x)' ELSE 0] BY DEF Others
      <3> QED BY <1>1, <1>3, <1>4, <3>1
    <2>2. PICK g : g = Others' OBVIOUS
    <2>3. Total = SumFunctionOnSet(g, QPs) + Slack(q) /\ Slack(q) \in Nat
      BY <1>1, <2>1, <2>2, RestIs
    <2>4. Rest' = SumFunctionOnSet(g, QPs) BY <2>2 DEF Rest
    <2>5. SumFunctionOnSet(g, QPs) \in Int
      <3>1. \A x \in QPs : Slack(x) \in Nat BY Base
      <3>2. \A x \in QPs : g[x] \in Int BY <2>1, <2>2, <3>1
      <3> QED BY <3>2, CompletionQueueAssumption, SumType
    <2> QED BY <2>3, <2>4, <2>5
  <1>10. Rest' \in Int
    <2>1. \A x \in QPs : Slack(x)' \in Int
      <3>1. \A x \in QPs : Slack(x) \in Nat BY Base
      <3> QED BY <1>4, <3>1
    <2>2. PICK g : g = Others' OBVIOUS
    <2>3. \A x \in QPs : g[x] \in Int BY <2>1, <2>2 DEF Others
    <2>4. SumFunctionOnSet(g, QPs) \in Int BY <2>3, CompletionQueueAssumption, SumType
    <2> QED BY <2>2, <2>4 DEF Rest
  <1>11. Account'
    <2>1. due - seen >= QLen + TK + Posted + Total BY AccountIs
    <2>2. due' - seen' >= QLen' + TK' + Posted' + Total' BY <1>1, <1>5, <1>8, <2>1
    <2>3. due' >= Span' + Posted' + Rest'
      <3>1. due >= 0 + Span + 0 + Posted + Total BY <1>2, <1>6, <1>7, <2>1
      <3>2. due' = due /\ Span' = Span /\ Posted' = Posted BY <1>1, <1>3, <1>5
      <3>3. PICK r \in Int : r = Rest' BY <1>10
      <3>4. r <= Total BY <1>9, <3>3
      <3>5. due >= Span + Posted + r BY <1>2, <3>1, <3>4
      <3> QED BY <3>2, <3>3, <3>5
    <2> QED BY <1>1, <1>5, <2>2, <2>3, AccountIs, AccountNext
  <1>12. Contents'
    <2>1. Q' = Q /\ QLen' = QLen BY <1>2, <1>3, QueueMoves
    <2>2. \A i \in 1..QLen : ~(i > QLen) BY <1>2
    <2> QED BY <1>1, <1>2, <1>3, <1>6, <2>1, <2>2 DEF Contents, Held, Swept, Looked
  <1>13. Lag' BY <1>1, LockNames DEF Lag
  <1>14. sweep' \in [qp : table, left : Nat, freed : Nat]
    <2>1. sweep' = [qp |-> q, left |-> QLen, freed |-> 0] BY <1>1, <1>3
    <2> QED BY <1>1, <1>2, <2>1
  <1>15. sweep'.left + sweep'.freed <= Span' BY <1>2, <1>3, <1>7
  <1> QED BY <1>3, <1>4, <1>11, <1>12, <1>13, <1>14, <1>15, SendsGive DEF Core

LEMMA SweepCore ==
  ASSUME IInv, SweepEntry
  PROVE  /\ Core' /\ Span' = Span
         /\ sweep' \in [qp : table, left : Nat, freed : Nat] /\ sweep'.qp = sweep.qp
         /\ sweep'.left + sweep'.freed <= Span
         /\ \E c \in Completions :
              \/ Same /\ UNCHANGED srqVars
              \/ Gone(sweep.left) /\ Q[sweep.left] = c /\ c.send /\ UNCHANGED srqVars
              \/ Gone(sweep.left) /\ Q[sweep.left] = c /\ ~c.send /\ FreeSrqWqe(c.wqe) /\ c.wqe \in SrqIndex
  <1>1. /\ UNCHANGED <<sqVars, size, cons, prod, ci, taken, seen, table, state, lock,
                       target, oldRing, due>>
        /\ lock = "clean" /\ sweep.left > 0
    BY DEF SweepEntry, pollVars, qpVars
  <1>2. /\ RingInv /\ due \in Nat /\ seen \in Nat /\ Total \in Nat /\ Rest \in Nat
        /\ Posted \in Nat /\ Span \in Nat /\ QLen \in Nat /\ Held /\ Swept /\ Looked /\ TK \in Nat
    BY Base
  <1>3. /\ sweep.left \in 1..QLen
        /\ ring[CqIndex(cons + (sweep.left - 1)) % size].cqe = Q[sweep.left]
    BY <1>1, <1>2, SweepLooks
  <1>4. PICK c : c = Q[sweep.left] OBVIOUS
  <1>5. PICK l : l = sweep.left OBVIOUS
  <1>6. GoodCqe(c, table) BY <1>2, <1>3, <1>4 DEF Held
  <1>7. /\ c \in Completions /\ c.send \in BOOLEAN /\ (~c.send => c.wqe \in SrqIndex)
    BY <1>6 DEF GoodCqe, Completions
  <1>8. /\ sweep \in [qp : table, left : Nat, freed : Nat] /\ l \in Nat /\ l > 0
        /\ sweep.left + sweep.freed <= Span /\ sweep.qp \in table /\ table \subseteq QPs
    <2>1. sweep \in [qp : table, left : Nat, freed : Nat] /\ sweep.left + sweep.freed <= Span
      BY <1>1, <1>2 DEF RingInv, Jobs
    <2>2. table \subseteq QPs BY DEF IInv, Types, TypeOK
    <2> QED BY <1>1, <1>5, <2>1, <2>2
  <1>9. taken = None /\ taken' = None /\ seen = 0 /\ TK = 0 /\ TK' = 0
    <2>1. lock # "poll" BY <1>1, LockNames
    <2>2. taken = None /\ seen = 0 /\ TK = 0 BY <2>1, NotPolling
    <2> QED BY <1>1, <2>2, TakenStays
  <1>10. srqVars' = srqVars \/ (~c.send /\ FreeSrqWqe(c.wqe))
    BY <1>3, <1>4 DEF SweepEntry
  <1>11. Posted' = Posted /\ Capacity' = Capacity BY <1>1, <1>10 DEF Posted, Capacity, srqVars, FreeSrqWqe
  <1>12. Lag' BY <1>1, LockNames DEF Lag
  <1>13. CASE c.qp = sweep.qp
    <2>1. /\ sweep' = [sweep EXCEPT !.left = sweep.left - 1, !.freed = @ + 1] /\ ring' = ring
          /\ IF c.send THEN UNCHANGED srqVars ELSE FreeSrqWqe(c.wqe)
      BY <1>3, <1>4, <1>13 DEF SweepEntry
    <2>2. /\ Gone(sweep.left) /\ Span' = Span /\ Bits' /\ RingTypes'
          /\ sweep' = [qp |-> sweep.qp, left |-> sweep.left - 1, freed |-> sweep.freed + 1]
      BY <1>1, <1>2, <2>1, RingDrops
    <2>3. Gone(l) /\ Q[l] = c BY <1>4, <1>5, <2>2
    <2>4. QLen' = QLen - 1 /\ \A i \in 1..QLen-1 : Q'[i] = IF i < l THEN Q[i] ELSE Q[i + 1]
      BY <2>3 DEF Gone
    <2>5. SendsKept /\ \A x \in QPs : Slack(x)' = Slack(x) + (IF Matches(Q[l], x) THEN 1 ELSE 0)
      BY <1>1, <2>3, DropSends
    <2>6. \E d \in {0, 1} : Total' = Total + d /\ Rest' = Rest
      <3>1. PICK d \in {0, 1} : d = IF c.send THEN 1 ELSE 0 BY <1>7
      <3>2. PICK s : s = sweep.qp OBVIOUS
      <3>3. s \in table /\ d \in Int /\ \A x \in QPs : Slack(x)' = Slack(x) + (IF x = s THEN d ELSE 0)
        BY <1>8, <1>13, <2>3, <2>5, <3>1, <3>2 DEF Matches
      <3>4. Total' = Total + d /\ Rest' = Rest + (IF s = sweep.qp THEN 0 ELSE d)
        BY <1>1, <2>2, <3>3, SumsMove
      <3> QED BY <1>2, <3>1, <3>2, <3>4
    <2>7. Account'
      <3>1. due' - seen' >= QLen' + TK' + Posted' + Total'
        <4>1. due - seen >= QLen + TK + Posted + Total BY AccountIs
        <4> QED BY <1>1, <1>2, <1>9, <1>11, <2>4, <2>6, <4>1
      <3> QED BY <1>1, <1>11, <2>2, <2>6, <3>1, AccountIs, AccountNext
    <2>8. Contents'
      <3>1. Held' BY <1>1, <2>3, ContentsGone
      <3>2. Swept'
        <4> SUFFICES ASSUME NEW i \in 1..QLen-1, i > l - 1 PROVE Q'[i].qp # sweep.qp
          BY <1>5, <2>2, <2>4 DEF Swept
        <4>1. ~(i < l) /\ i + 1 > l /\ i + 1 \in 1..QLen BY <1>2, <1>8
        <4> QED BY <1>1, <1>2, <1>5, <2>4, <4>1 DEF Swept
      <3>3. Looked' BY <1>9 DEF Looked
      <3> QED BY <3>1, <3>2, <3>3 DEF Contents
    <2>9. /\ sweep' \in [qp : table, left : Nat, freed : Nat] /\ sweep'.qp = sweep.qp
          /\ sweep'.left + sweep'.freed <= Span
      <3>1. sweep.freed \in Nat /\ sweep.left \in Nat /\ sweep.left - 1 \in Nat BY <1>5, <1>8
      <3>2. (sweep.left - 1) + (sweep.freed + 1) <= Span BY <1>2, <1>8, <3>1
      <3> QED BY <1>8, <2>2, <3>1, <3>2
    <2> QED BY <1>4, <1>7, <1>12, <2>1, <2>2, <2>5, <2>7, <2>8, <2>9, SendsGive DEF Core
  <1>14. CASE c.qp # sweep.qp
    <2>1. /\ sweep' = [sweep EXCEPT !.left = sweep.left - 1] /\ UNCHANGED srqVars
          /\ IF sweep.freed > 0 THEN MoveUp(sweep.left - 1, Q[sweep.left]) ELSE ring' = ring
      BY <1>3, <1>4, <1>14 DEF SweepEntry
    <2>2. /\ Same /\ Span' = Span /\ Bits' /\ RingTypes'
          /\ sweep' = [qp |-> sweep.qp, left |-> sweep.left - 1, freed |-> sweep.freed]
      BY <1>1, <1>2, <2>1, RingKeeps
    <2>3. SendsKept /\ \A x \in QPs : Slack(x)' = Slack(x)
      BY <1>1, <2>2, StaySends
    <2>4. Total' = Total /\ Rest' = Rest BY <1>1, <2>2, <2>3, SumsStay
    <2>5. QLen' = QLen BY <2>2 DEF Same
    <2>6. Account' BY <1>1, <1>9, <1>11, <2>2, <2>4, <2>5, AccountIs, AccountNext
    <2>7. Contents'
      <3>1. Q' = Q BY <1>2, <2>2, QueueMoves
      <3>2. Held' BY <1>1, <1>2, <2>5, <3>1 DEF Held
      <3>3. Swept'
        <4> SUFFICES ASSUME NEW i \in 1..QLen, i > l - 1 PROVE Q[i].qp # sweep.qp
          BY <1>5, <2>2, <2>5, <3>1 DEF Swept
        <4>1. i = l \/ i > l BY <1>8
        <4> QED BY <1>1, <1>2, <1>4, <1>5, <1>14, <4>1 DEF Swept
      <3>4. Looked' BY <1>9 DEF Looked
      <3> QED BY <3>2, <3>3, <3>4 DEF Contents
    <2>8. /\ sweep' \in [qp : table, left : Nat, freed : Nat] /\ sweep'.qp = sweep.qp
          /\ sweep'.left + sweep'.freed <= Span
      <3>1. sweep.freed \in Nat /\ sweep.left \in Nat /\ sweep.left - 1 \in Nat BY <1>5, <1>8
      <3>2. (sweep.left - 1) + sweep.freed <= Span BY <1>2, <1>8, <3>1
      <3> QED BY <1>8, <2>2, <3>1, <3>2
    <2> QED BY <1>7, <1>12, <2>1, <2>2, <2>3, <2>6, <2>7, <2>8, SendsGive DEF Core
  <1> QED BY <1>13, <1>14

LEMMA CleanEndCore ==
  ASSUME IInv, CleanEnd
  PROVE  /\ Core' /\ Same /\ due' \in Nat /\ ci' = cons' /\ table' \subseteq table
         /\ sweep.qp \in table /\ table' = table \ {sweep.qp} /\ state[sweep.qp] = "reset"
  <1>1. /\ UNCHANGED <<sqVars, srqVars, ring, size, prod, taken, seen, reported, state, target, oldRing>>
        /\ lock = "clean" /\ sweep.left = 0 /\ lock' = None
        /\ cons' = CqIndex(cons + sweep.freed) /\ ci' = IF sweep.freed > 0 THEN cons' ELSE ci
        /\ table' = table \ {sweep.qp}
        /\ due' = due - Dist(sqTail[sweep.qp], sqHead[sweep.qp])
    BY DEF CleanEnd, pollVars
  <1>2. /\ RingInv /\ due \in Nat /\ seen \in Nat /\ Total \in Nat /\ Rest \in Nat
        /\ Posted \in Nat /\ Span \in Nat /\ QLen \in Nat /\ Held /\ Swept /\ Looked /\ TK \in Nat
        /\ SqTypes /\ Capacity \in Nat
        /\ \A x \in QPs : SqOk(x) /\ Window(x)
    BY Base
  <1>3. /\ Same /\ Span' = QLen /\ Bits' /\ RingTypes'
        /\ sweep.freed = 0 => cons' = cons
    BY <1>1, <1>2, RingCleaned
  <1>4. PICK s : s = sweep.qp OBVIOUS
  <1>5. /\ s \in table /\ s \in QPs /\ state[s] = "reset" /\ nreq[s] = 0 /\ sweep.freed \in Nat
    <2>1. sweep \in [qp : table, left : Nat, freed : Nat] /\ state[sweep.qp] = "reset"
          /\ \A q \in QPs : state[q] = "reset" => nreq[q] = 0
      BY <1>1, <1>2 DEF RingInv, Jobs
    <2>2. table \subseteq QPs BY DEF IInv, Types, TypeOK
    <2> QED BY <1>4, <2>1, <2>2
  <1>6. taken = None /\ taken' = None /\ seen = 0 /\ TK = 0 /\ TK' = 0 /\ ci = cons
    <2>1. lock # "poll" BY <1>1, LockNames
    <2>2. taken = None /\ seen = 0 /\ TK = 0 /\ ci = cons BY <2>1, NotPolling
    <2> QED BY <1>1, <2>2, TakenStays
  <1>7. SendsKept /\ \A x \in QPs : Slack(x)' = Slack(x)
    BY <1>1, <1>3, StaySends
  <1>8. Q' = Q /\ QLen' = QLen BY <1>2, <1>3, QueueMoves
  <1>9. \A i \in 1..QLen : Q[i].qp # s BY <1>1, <1>2, <1>4 DEF Swept
  <1>10. Slack(s) = Dist(sqTail[s], sqHead[s]) /\ Dist(sqTail[s], sqHead[s]) \in Nat
    <2>1. Sends(s) = {} BY <1>9 DEF Sends
    <2>2. Cardinality({}) = 0 BY FS_EmptySet
    <2>3. TS(s) = 0 BY <1>6 DEF TS
    <2>4. Dist(sqTail[s], sqHead[s]) \in Nat BY <1>2, <1>5, SqNumbers
    <2>5. Slack(s) = Dist(sqTail[s], sqHead[s]) + 0 - 0 - 0 BY <1>5, <2>1, <2>2, <2>3 DEF Slack
    <2> QED BY <2>4, <2>5
  <1>11. Total' = Rest
    <2>1. Slacks' = [x \in QPs |-> IF x \in table' THEN Slack(x)' ELSE 0] BY DEF Slacks
    <2>2. \A x \in QPs : x \in table' <=> x \in table /\ x # sweep.qp BY <1>1
    <2>3. Slacks' = Others BY <1>7, <2>1, <2>2 DEF Others
    <2> QED BY <2>3 DEF Total, Rest
  <1>12. Total = Rest + Slack(s)
    <2>1. PICK g : g = Others OBVIOUS
    <2>2. g = [x \in QPs |-> IF x \in table /\ x # s THEN Slack(x) ELSE 0] BY <1>4, <2>1 DEF Others
    <2>3. Total = SumFunctionOnSet(g, QPs) + Slack(s) BY <1>5, <2>2, RestIs
    <2> QED BY <2>1, <2>3 DEF Rest
  <1>13. Posted' = Posted /\ Capacity' = Capacity
    BY <1>1 DEF Posted, Capacity, srqVars
  <1>14. due - seen >= QLen + TK + Posted + Total /\ due <= Capacity - 1 BY AccountIs
  <1>15. due' = due - Slack(s) BY <1>1, <1>4, <1>10
  <1>16. due' \in Nat /\ due' <= Capacity - 1 /\ due' >= QLen + Posted + Rest
    BY <1>2, <1>6, <1>10, <1>12, <1>14, <1>15
  <1>17. Account'
    <2>1. due' <= Capacity' - 1 BY <1>13, <1>16
    <2>2. due' - seen' >= QLen' + TK' + Posted' + Total'
      BY <1>1, <1>2, <1>6, <1>8, <1>11, <1>13, <1>16
    <2>3. lock' # "clean" BY <1>1, LockNames
    <2> QED BY <2>1, <2>2, <2>3, AccountNext
  <1>18. Contents'
    <2>1. Held'
      <3> SUFFICES ASSUME NEW i \in 1..QLen PROVE GoodCqe(Q[i], table')
        BY <1>8 DEF Held
      <3>1. GoodCqe(Q[i], table) /\ Q[i].qp # sweep.qp BY <1>2, <1>4, <1>9 DEF Held
      <3> QED BY <1>1, <3>1 DEF GoodCqe
    <2>2. Swept' BY <1>1, LockNames DEF Swept
    <2>3. Looked' BY <1>6 DEF Looked
    <2> QED BY <2>1, <2>2, <2>3 DEF Contents
  <1>19. Lag' BY <1>1, LockNames DEF Lag
  <1>20. ci' = cons'
    <2>1. CASE sweep.freed > 0 BY <1>1, <2>1
    <2>2. CASE ~(sweep.freed > 0)
      <3>1. sweep.freed = 0 BY <1>5, <2>2
      <3> QED BY <1>1, <1>3, <1>6, <2>2, <3>1
    <2> QED BY <2>1, <2>2
  <1> QED BY <1>1, <1>3, <1>4, <1>5, <1>7, <1>16, <1>17, <1>18, <1>19, <1>20, SendsGive DEF Core

LEMMA ResizeCore ==
  ASSUME IInv, NEW s \in CqSizes, ResizeCq(s)
  PROVE  Core' /\ Same
  <1>1. /\ UNCHANGED <<sqVars, srqVars, ring, size, cons, prod, ci, taken, seen, reported, table, state,
                       sweep, oldRing, due>>
        /\ lock = None /\ lock' = "resize" /\ target' = s /\ due < s
    BY DEF ResizeCq, cqVars, pollVars, qpVars
  <1>2. /\ RingInv /\ due \in Nat /\ size \in Nat /\ QLen \in Nat /\ Capacity \in Nat /\ Capacity <= size
    BY Base
  <1>3. Same /\ Span' = Span /\ Bits' /\ RingTypes' BY <1>1, <1>2, LockNames, RingStays
  <1>4. SendsKept /\ \A x \in QPs : Slack(x)' = Slack(x)
    BY <1>1, <1>3, StaySends
  <1>5. Total' = Total BY <1>1, <1>4, SumsStay
  <1>6. Posted' = Posted /\ TK' = TK /\ QLen' = QLen
    BY <1>1, <1>3, TakenStays DEF Posted, srqVars, Same
  <1>7. due' <= Capacity' - 1
    <2>1. s \in Nat BY SizeFacts
    <2>2. Capacity' = IF s = None \/ s > size THEN size ELSE s BY <1>1 DEF Capacity
    <2>3. due <= Capacity - 1 BY AccountIs
    <2>4. due <= size - 1 /\ due <= s - 1 BY <1>1, <1>2, <2>1, <2>3
    <2>5. CASE s = None \/ s > size BY <1>1, <2>2, <2>4, <2>5
    <2>6. CASE ~(s = None \/ s > size) BY <1>1, <2>2, <2>4, <2>6
    <2> QED BY <2>5, <2>6
  <1>8. Account'
    <2>1. lock' # "clean" BY <1>1, LockNames
    <2> QED BY <1>1, <1>5, <1>6, <1>7, <2>1, AccountIs, AccountNext
  <1>9. Contents'
    <2>1. sqTail' = sqTail /\ lock' # "clean" BY <1>1, LockNames DEF sqVars
    <2> QED BY <1>1, <1>3, <2>1, ContentsStay
  <1>10. Lag' BY <1>1, LockNames DEF Lag
  <1> QED BY <1>3, <1>4, <1>8, <1>9, <1>10, SendsGive DEF Core

LEMMA CommandCore ==
  ASSUME IInv, ResizeCommand
  PROVE  /\ Core' /\ Same /\ size' = target /\ oldRing' # None
         /\ \E s \in CqSizes : oldRing' \in [size : {s}, ring : [0..s-1 -> Cell]]
  <1>1. /\ UNCHANGED <<sqVars, srqVars, cons, ci, taken, seen, reported, table, state,
                       lock, sweep, target, due>>
        /\ lock = "resize" /\ oldRing = None
    BY DEF ResizeCommand, pollVars, qpVars
  <1>2. /\ RingInv /\ due \in Nat /\ size \in Nat /\ QLen \in Nat /\ Capacity \in Nat /\ Held
    BY Base
  <1>3. /\ Same /\ Span' = Span + 1 /\ Bits' /\ RingTypes'
        /\ size' = target /\ oldRing' # None
        /\ \E s \in CqSizes : oldRing' \in [size : {s}, ring : [0..s-1 -> Cell]]
    <2>1. \A i \in 1..QLen : Q[i] \in Completions BY <1>2 DEF Held, GoodCqe
    <2> QED BY <1>2, <2>1, RingCommanded
  <1>4. SendsKept /\ \A x \in QPs : Slack(x)' = Slack(x)
    BY <1>1, <1>3, StaySends
  <1>5. Total' = Total BY <1>1, <1>4, SumsStay
  <1>6. Posted' = Posted /\ TK' = TK /\ QLen' = QLen
    BY <1>1, <1>3, TakenStays DEF Posted, srqVars, Same
  <1>7. due' <= Capacity' - 1
    <2>1. target \in CqSizes BY <1>1, <1>2 DEF RingInv, Jobs
    <2>2. target \in Nat /\ target # None BY <2>1, SizeFacts, NoneAssumption
    <2>3. Capacity' = target
      <3>1. Capacity' = IF target = None \/ target > target THEN target ELSE target
        BY <1>1, <1>3 DEF Capacity
      <3> QED BY <3>1
    <2>4. Capacity <= target
      <3>1. CASE target > size BY <1>2, <2>2, <3>1 DEF Capacity
      <3>2. CASE ~(target > size) BY <2>2, <3>2 DEF Capacity
      <3> QED BY <3>1, <3>2
    <2>5. due <= Capacity - 1 BY AccountIs
    <2> QED BY <1>1, <1>2, <2>2, <2>3, <2>4, <2>5
  <1>8. Account'
    <2>1. lock' # "clean" BY <1>1, LockNames
    <2> QED BY <1>1, <1>5, <1>6, <1>7, <2>1, AccountIs, AccountNext
  <1>9. Contents'
    <2>1. sqTail' = sqTail /\ lock' # "clean" BY <1>1, LockNames DEF sqVars
    <2> QED BY <1>1, <1>3, <2>1, ContentsStay
  <1>10. Lag' BY <1>1, LockNames DEF Lag
  <1> QED BY <1>3, <1>4, <1>8, <1>9, <1>10, SendsGive DEF Core

LEMMA CopyCore ==
  ASSUME IInv, ResizeCopy
  PROVE  Core' /\ Same
  <1>1. /\ UNCHANGED <<sqVars, srqVars, size, prod, taken, seen, reported, table, state, sweep, due>>
        /\ lock = "resize" /\ oldRing # None /\ lock' = None /\ target' = None /\ oldRing' = None
        /\ ci' = cons'
    BY DEF ResizeCopy, pollVars, qpVars
  <1>2. /\ RingInv /\ due \in Nat /\ size \in Nat /\ QLen \in Nat /\ Capacity \in Nat /\ Capacity <= size
    BY Base
  <1>3. Same /\ Span' = QLen /\ Bits' /\ RingTypes' BY <1>2, RingCopied
  <1>4. SendsKept /\ \A x \in QPs : Slack(x)' = Slack(x)
    BY <1>1, <1>3, StaySends
  <1>5. Total' = Total BY <1>1, <1>4, SumsStay
  <1>6. Posted' = Posted /\ TK' = TK /\ QLen' = QLen
    BY <1>1, <1>3, TakenStays DEF Posted, srqVars, Same
  <1>7. due' <= Capacity' - 1
    <2>1. Capacity' = size BY <1>1 DEF Capacity
    <2>2. due <= Capacity - 1 BY AccountIs
    <2> QED BY <1>1, <1>2, <2>1, <2>2
  <1>8. Account'
    <2>1. lock' # "clean" BY <1>1, LockNames
    <2> QED BY <1>1, <1>5, <1>6, <1>7, <2>1, AccountIs, AccountNext
  <1>9. Contents'
    <2>1. sqTail' = sqTail /\ lock' # "clean" BY <1>1, LockNames DEF sqVars
    <2> QED BY <1>1, <1>3, <2>1, ContentsStay
  <1>10. Lag' BY <1>1, LockNames DEF Lag
  <1> QED BY <1>3, <1>4, <1>8, <1>9, <1>10, SendsGive DEF Core

-----------------------------------------------------------------------------
(* Types and jobs, action by action.                                       *)

SrqTypes ==
  /\ srqNext \in [SrqIndex -> SrqIndex] /\ srqWrid \in [SrqIndex -> 0..RecvMod-1]
  /\ srqHead \in SrqIndex /\ srqTail \in SrqIndex /\ hwSrq \in SrqIndex
  /\ srqCounter \in 0..RecvMod-1 /\ hwTaken \in 0..RecvMod-1
OtherTypes ==
  /\ ci \in 0..CqMod-1 /\ lock \in {None, "poll", "clean", "resize"}
  /\ taken \in Completions \cup {None} /\ reported \in Completions \cup {None}
  /\ seen \in Nat /\ due \in Nat
  /\ table \subseteq QPs /\ state \in [QPs -> {"ready", "error", "reset"}]

LEMMA TypesAre ==
  Types <=> RingTypes /\ SqTypes /\ SrqTypes /\ OtherTypes
  BY DEF Types, TypeOK, RingTypes, SqTypes, SrqTypes, OtherTypes

LEMMA TypesNext ==
  ASSUME RingTypes', SqTypes', SrqTypes', OtherTypes'
  PROVE  Types'
  BY DEF Types, TypeOK, RingTypes, SqTypes, SrqTypes, OtherTypes

LEMMA SrqTypesStay ==
  ASSUME SrqTypes, srqVars' = srqVars \/ PostSrqRecv \/ TakeSrqWqe
                   \/ \E i \in SrqIndex : FreeSrqWqe(i)
  PROVE  SrqTypes'
  <1>1. CASE srqVars' = srqVars BY <1>1 DEF SrqTypes, srqVars
  <1>0. \A x \in 0..RecvMod-1 : (x + 1) % RecvMod \in 0..RecvMod-1
    <2> SUFFICES ASSUME NEW x \in 0..RecvMod-1 PROVE (x + 1) % RecvMod \in 0..RecvMod-1
      OBVIOUS
    <2>1. RecvMod \in Nat \ {0} BY SharedReceiveQueueAssumption
    <2>2. x + 1 \in Int BY <2>1
    <2> QED BY <2>1, <2>2, DivRem
  <1>2. CASE PostSrqRecv BY <1>0, <1>2 DEF SrqTypes, PostSrqRecv
  <1>3. CASE TakeSrqWqe BY <1>0, <1>3 DEF SrqTypes, TakeSrqWqe
  <1>4. CASE \E i \in SrqIndex : FreeSrqWqe(i) BY <1>4 DEF SrqTypes, FreeSrqWqe
  <1> QED BY <1>1, <1>2, <1>3, <1>4

LEMMA SpanNext ==
  ASSUME RingTypes'
  PROVE  Span' \in Nat /\ cons' \in 0..CqMod-1
  <1>1. CqMod \in Nat \ {0} BY CompletionQueueAssumption
  <1>2. cons' \in 0..CqMod-1 /\ prod' - cons' \in Int BY <1>1 DEF RingTypes
  <1>3. (prod' - cons') % CqMod \in 0..CqMod-1 BY <1>1, <1>2, DivRem
  <1> QED BY <1>2, <1>3 DEF Span

LEMMA JobsKeep ==
  ASSUME IInv, UNCHANGED <<lock, sweep, target, oldRing, size, taken, seen, ci, cons>>,
         Span' >= Span, Span' \in Nat, table \subseteq table',
         lock = "clean" => state'[sweep.qp] = "reset",
         \A q \in QPs \ table' : state'[q] = "reset",
         \A q \in QPs : state'[q] = "reset" => nreq'[q] = 0
  PROVE  Jobs'
  <1>1. Jobs /\ Span \in Nat BY Base DEF RingInv
  <1>2. lock = "clean" => /\ sweep \in [qp : table', left : Nat, freed : Nat]
                          /\ sweep.left + sweep.freed <= Span'
    <2> SUFFICES ASSUME lock = "clean"
                 PROVE  /\ sweep \in [qp : table', left : Nat, freed : Nat]
                        /\ sweep.left + sweep.freed <= Span'
      OBVIOUS
    <2>1. sweep \in [qp : table, left : Nat, freed : Nat] /\ sweep.left + sweep.freed <= Span
      BY <1>1 DEF Jobs
    <2>2. sweep.left \in Nat /\ sweep.freed \in Nat BY <2>1
    <2> QED BY <1>1, <2>1, <2>2
  <1> QED BY <1>1, <1>2 DEF Jobs

LEMMA StateFacts ==
  ASSUME IInv
  PROVE  /\ table \subseteq QPs /\ state \in [QPs -> {"ready", "error", "reset"}]
         /\ \A q \in QPs \ table : state[q] = "reset"
         /\ \A q \in QPs : state[q] = "reset" => nreq[q] = 0
         /\ lock = "clean" => state[sweep.qp] = "reset" /\ sweep.qp \in table
         /\ SrqTypes /\ OtherTypes /\ SqTypes /\ Jobs
         /\ lock # "resize" => target = None /\ oldRing = None
  BY TypesAre DEF IInv, Jobs, OtherTypes

LEMMA PostSendTypes ==
  ASSUME IInv, NEW q \in QPs, PostSend(q, TRUE) \/ PostSend(q, FALSE)
  PROVE  Types' /\ Jobs'
  <1>1. PICK sig \in BOOLEAN : PostSend(q, sig) OBVIOUS
  <1>2. Core' /\ Span' = Span BY <1>1, PostSendCore
  <1>3. /\ UNCHANGED <<srqVars, cons, ci, size, taken, seen, reported, table, state, lock,
                       sweep, target, oldRing>>
        /\ WriteWqe(q, sig) /\ due' = due + 1 /\ state[q] # "reset"
    BY <1>1 DEF PostSend, cqVars, pollVars, qpVars, jobVars, CountPost
  <1>4. SrqTypes' BY <1>3, StateFacts, SrqTypesStay
  <1>5. OtherTypes' BY <1>3, StateFacts DEF OtherTypes
  <1>6. \A x \in QPs : state[x] = "reset" => nreq'[x] = 0
    <2>1. \A x \in QPs : x # q => nreq'[x] = nreq[x]
      BY <1>3, StateFacts DEF WriteWqe, SqTypes
    <2> QED BY <1>3, <2>1, StateFacts
  <1>7. Span \in Nat BY Base
  <1>8. Span' \in Nat /\ Span' >= Span BY <1>2, <1>7
  <1>9. Jobs' BY <1>3, <1>6, <1>8, StateFacts, JobsKeep
  <1> QED BY <1>2, <1>4, <1>5, <1>9, TypesNext DEF Core

LEMMA EndPostTypes ==
  ASSUME IInv, NEW q \in QPs, EndPost(q)
  PROVE  Types' /\ Jobs'
  <1>2. Core' /\ Span' = Span BY EndPostCore
  <1>3. /\ UNCHANGED <<srqVars, cons, ci, size, taken, seen, reported, table, state, lock,
                       sweep, target, oldRing, due>>
        /\ RingDoorbell(q)
    BY DEF EndPost, cqVars, pollVars, qpVars, jobVars
  <1>4. SrqTypes' BY <1>3, StateFacts, SrqTypesStay
  <1>5. OtherTypes' BY <1>3, StateFacts DEF OtherTypes
  <1>6. \A x \in QPs : state[x] = "reset" => nreq'[x] = 0
    BY <1>3, StateFacts DEF RingDoorbell, SqTypes
  <1>7. Span \in Nat BY Base
  <1>8. Span' \in Nat /\ Span' >= Span BY <1>2, <1>7
  <1>9. Jobs' BY <1>3, <1>6, <1>8, StateFacts, JobsKeep
  <1> QED BY <1>2, <1>4, <1>5, <1>9, TypesNext DEF Core

LEMMA PostRecvTypes ==
  ASSUME IInv, PostRecv
  PROVE  Types' /\ Jobs'
  <1>2. Core' /\ Span' = Span BY PostRecvCore
  <1>3. /\ UNCHANGED <<sqVars, cons, ci, size, taken, seen, reported, table, state, lock,
                       sweep, target, oldRing>>
        /\ PostSrqRecv /\ due' = due + 1
    BY DEF PostRecv, cqVars, pollVars, qpVars, jobVars, CountPost
  <1>4. SrqTypes' BY <1>3, StateFacts, SrqTypesStay
  <1>5. OtherTypes' BY <1>3, StateFacts DEF OtherTypes
  <1>6. nreq' = nreq BY <1>3 DEF sqVars
  <1>7. Span \in Nat BY Base
  <1>8. Span' \in Nat /\ Span' >= Span BY <1>2, <1>7
  <1>9. Jobs' BY <1>3, <1>6, <1>8, StateFacts, JobsKeep
  <1> QED BY <1>2, <1>4, <1>5, <1>9, TypesNext DEF Core

LEMMA ExecuteTypes ==
  ASSUME IInv, NEW q \in QPs, ExecuteSend(q)
  PROVE  Types' /\ Jobs'
  <1>2. Core' /\ Span' >= Span BY ExecuteCore
  <1>3. /\ UNCHANGED <<srqVars, cons, ci, size, taken, seen, reported, table, state, lock,
                       sweep, target, oldRing, due>>
        /\ Execute(q)
    BY DEF ExecuteSend, cqVars, pollVars, qpVars, jobVars, Produce
  <1>4. SrqTypes' BY <1>3, StateFacts, SrqTypesStay
  <1>5. OtherTypes' BY <1>3, StateFacts DEF OtherTypes
  <1>6. nreq' = nreq BY <1>3 DEF Execute
  <1>8. Span' \in Nat BY <1>2, SpanNext DEF Core
  <1>9. Jobs' BY <1>2, <1>3, <1>6, <1>8, StateFacts, JobsKeep
  <1> QED BY <1>2, <1>4, <1>5, <1>9, TypesNext DEF Core

LEMMA ReceiveTypes ==
  ASSUME IInv, NEW q \in QPs, Receive(q)
  PROVE  Types' /\ Jobs'
  <1>2. Core' /\ Span' >= Span BY ReceiveCore
  <1>3. /\ UNCHANGED <<sqVars, cons, ci, size, taken, seen, reported, table, state, lock,
                       sweep, target, oldRing, due>>
        /\ TakeSrqWqe
    BY DEF Receive, cqVars, pollVars, qpVars, jobVars, Produce
  <1>4. SrqTypes' BY <1>3, StateFacts, SrqTypesStay
  <1>5. OtherTypes' BY <1>3, StateFacts DEF OtherTypes
  <1>6. nreq' = nreq BY <1>3 DEF sqVars
  <1>8. Span' \in Nat BY <1>2, SpanNext DEF Core
  <1>9. Jobs' BY <1>2, <1>3, <1>6, <1>8, StateFacts, JobsKeep
  <1> QED BY <1>2, <1>4, <1>5, <1>9, TypesNext DEF Core

LEMMA BreakTypes ==
  ASSUME IInv, NEW q \in QPs, Break(q)
  PROVE  Types' /\ Jobs' /\ Core' /\ Same /\ UNCHANGED <<srqVars, taken>>
  <1>1. /\ UNCHANGED <<sqVars, srqVars, cqVars, cons, ci, size, taken, seen, reported, table, lock, jobVars,
                       sweep, target, oldRing, due>>
        /\ state[q] = "ready" /\ state' = [state EXCEPT ![q] = "error"]
    BY DEF Break, cqVars, pollVars, jobVars
  <1>2. Core' /\ Span' = Span /\ Same BY <1>1, QuietCore
  <1>4. SrqTypes' BY <1>1, StateFacts, SrqTypesStay
  <1>5. OtherTypes' BY <1>1, StateFacts DEF OtherTypes
  <1>6. /\ \A x \in QPs : state'[x] = "reset" <=> state[x] = "reset"
        /\ nreq' = nreq
    BY <1>1, StateFacts DEF sqVars
  <1>7. Span \in Nat BY Base
  <1>8. Span' \in Nat /\ Span' >= Span BY <1>2, <1>7
  <1>9. Jobs' BY <1>1, <1>6, <1>8, StateFacts, JobsKeep
  <1> QED BY <1>1, <1>2, <1>4, <1>5, <1>9, TypesNext DEF Core

LEMMA DestroyTypes ==
  ASSUME IInv, NEW q \in QPs, DestroyQp(q)
  PROVE  Types' /\ Jobs' /\ Core' /\ Same /\ UNCHANGED <<srqVars, taken>>
  <1>1. /\ UNCHANGED <<sqVars, srqVars, cqVars, cons, ci, size, taken, seen, reported, table, lock, jobVars,
                       sweep, target, oldRing, due>>
        /\ nreq[q] = 0 /\ state' = [state EXCEPT ![q] = "reset"]
    BY DEF DestroyQp, cqVars, pollVars, jobVars
  <1>2. Core' /\ Span' = Span /\ Same BY <1>1, QuietCore
  <1>4. SrqTypes' BY <1>1, StateFacts, SrqTypesStay
  <1>5. OtherTypes' BY <1>1, StateFacts DEF OtherTypes
  <1>6. /\ \A x \in QPs : state[x] = "reset" => state'[x] = "reset"
        /\ \A x \in QPs : state'[x] = "reset" => nreq'[x] = 0
    BY <1>1, StateFacts DEF sqVars
  <1>7. Span \in Nat BY Base
  <1>8. Span' \in Nat /\ Span' >= Span BY <1>2, <1>7
  <1>9. Jobs' BY <1>1, <1>6, <1>8, StateFacts, JobsKeep
  <1> QED BY <1>1, <1>2, <1>4, <1>5, <1>9, TypesNext DEF Core

LEMMA CreateTypes ==
  ASSUME IInv, NEW q \in QPs, CreateQp(q)
  PROVE  Types' /\ Jobs'
  <1>2. Core' /\ Span' = Span BY CreateCore
  <1>3. /\ UNCHANGED <<srqVars, cons, ci, size, taken, seen, reported, lock,
                       sweep, target, oldRing, due>>
        /\ InitIndices(q) /\ q \notin table /\ table' = table \cup {q}
        /\ state' = [state EXCEPT ![q] = "ready"]
    BY DEF CreateQp, cqVars, pollVars, jobVars
  <1>4. SrqTypes' BY <1>3, StateFacts, SrqTypesStay
  <1>5. OtherTypes' BY <1>3, StateFacts DEF OtherTypes
  <1>6. /\ \A x \in QPs : x # q => state'[x] = state[x] /\ nreq'[x] = nreq[x]
        /\ state'[q] = "ready" /\ nreq'[q] = 0
    BY <1>3, StateFacts DEF InitIndices, SqTypes
  <1>7. Span \in Nat BY Base
  <1>8. Span' \in Nat /\ Span' >= Span BY <1>2, <1>7
  <1>9. Jobs'
    <2>1. lock = "clean" => state'[sweep.qp] = "reset" BY <1>3, <1>6, StateFacts
    <2>2. \A x \in QPs \ table' : state'[x] = "reset" BY <1>3, <1>6, StateFacts
    <2>3. \A x \in QPs : state'[x] = "reset" => nreq'[x] = 0 BY <1>6, StateFacts
    <2>4. table \subseteq table' BY <1>3
    <2> QED BY <1>3, <1>8, <2>1, <2>2, <2>3, <2>4, JobsKeep
  <1> QED BY <1>2, <1>4, <1>5, <1>9, TypesNext DEF Core

LEMMA TakeTypes ==
  ASSUME IInv, TakeCqe
  PROVE  Types' /\ Jobs'
  <1>2. Core' /\ taken' = Q[1] /\ Q[1] \in Completions /\ seen' \in Nat
    BY TakeCore
  <1>3. /\ UNCHANGED <<srqVars, ci, size, reported, table, state, sweep, target, oldRing, due>>
        /\ lock' = "poll" /\ lock \in {None, "poll"} /\ nreq' = nreq
    BY DEF TakeCqe, qpVars, jobVars, sqVars
  <1>4. SrqTypes' BY <1>3, StateFacts, SrqTypesStay
  <1>5. OtherTypes' BY <1>2, <1>3, StateFacts DEF OtherTypes
  <1>6. Jobs' BY <1>3, StateFacts, LockNames DEF Jobs
  <1> QED BY <1>2, <1>4, <1>5, <1>6, TypesNext DEF Core

LEMMA SeenMore ==
  ASSUME IInv
  PROVE  seen + 1 \in Nat
  BY Base

LEMMA ReportSendTypes ==
  ASSUME IInv, ReportSend
  PROVE  Types' /\ Jobs'
  <1>2. Core' /\ taken' = None /\ seen' = seen + 1 /\ reported' \in Completions
    BY ReportSendCore
  <1>3. /\ UNCHANGED <<srqVars, ci, size, table, state, sweep, target, oldRing, due, lock>>
        /\ nreq' = nreq /\ taken # None
    BY DEF ReportSend, qpVars, jobVars, sqVars, cqVars
  <1>4. SrqTypes' BY <1>3, StateFacts, SrqTypesStay
  <1>5. OtherTypes' BY <1>2, <1>3, StateFacts, SeenMore DEF OtherTypes
  <1>6. lock = "poll" BY <1>3, NotPolling
  <1>7. Jobs' BY <1>3, <1>6, StateFacts, LockNames DEF Jobs
  <1> QED BY <1>2, <1>4, <1>5, <1>7, TypesNext DEF Core

LEMMA ReportRecvTypes ==
  ASSUME IInv, ReportRecv
  PROVE  Types' /\ Jobs'
  <1>2. Core' /\ taken' = None /\ seen' = seen + 1 /\ reported' \in Completions
    BY ReportRecvCore
  <1>3. /\ UNCHANGED <<sqVars, ci, size, table, state, sweep, target, oldRing, due, lock>>
        /\ taken # None /\ ~taken.send /\ FreeSrqWqe(taken.wqe)
    BY DEF ReportRecv, qpVars, jobVars, cqVars
  <1>4. taken.wqe \in SrqIndex BY <1>3, Base DEF Looked
  <1>5. SrqTypes' BY <1>3, <1>4, StateFacts, SrqTypesStay
  <1>6. OtherTypes' BY <1>2, <1>3, StateFacts, SeenMore DEF OtherTypes
  <1>7. lock = "poll" BY <1>3, NotPolling
  <1>8. nreq' = nreq BY <1>3 DEF sqVars
  <1>9. Jobs' BY <1>3, <1>7, <1>8, StateFacts, LockNames DEF Jobs
  <1> QED BY <1>2, <1>5, <1>6, <1>9, TypesNext DEF Core

LEMMA EndPollTypes ==
  ASSUME IInv, EndPoll
  PROVE  Types' /\ Jobs'
  <1>2. Core' /\ due' \in Nat BY EndPollCore
  <1>3. /\ UNCHANGED <<sqVars, srqVars, size, cons, table, state, sweep, target, oldRing, taken, reported>>
        /\ lock = "poll" /\ taken = None /\ ci' = cons /\ lock' = None /\ seen' = 0
    BY DEF EndPoll, qpVars, jobVars
  <1>4. SrqTypes' BY <1>3, StateFacts, SrqTypesStay
  <1>5. cons \in 0..CqMod-1 BY Base DEF RingInv, RingTypes
  <1>6. OtherTypes' BY <1>2, <1>3, <1>5, StateFacts DEF OtherTypes
  <1>8. nreq' = nreq BY <1>3 DEF sqVars
  <1>9. Jobs' BY <1>3, <1>8, StateFacts, LockNames DEF Jobs
  <1> QED BY <1>2, <1>4, <1>6, <1>9, TypesNext DEF Core

LEMMA CleanScanTypes ==
  ASSUME IInv, NEW q \in QPs, CleanScan(q)
  PROVE  Types' /\ Jobs'
  <1>1. /\ UNCHANGED <<sqVars, srqVars, cqVars, pollVars, qpVars, target, oldRing, due>>
        /\ q \in table /\ state[q] = "reset" /\ lock = None /\ lock' = "clean"
    BY DEF CleanScan
  <1>2. /\ Core' /\ sweep' \in [qp : table, left : Nat, freed : Nat] /\ sweep'.qp = q
        /\ sweep'.left + sweep'.freed <= Span'
    BY <1>1, CleanScanCore
  <1>3. UNCHANGED <<ci, cons, size, taken, seen, reported, table, state, nreq>>
    BY <1>1 DEF cqVars, pollVars, qpVars, sqVars
  <1>4. SrqTypes' BY <1>1, StateFacts, SrqTypesStay
  <1>5. OtherTypes' BY <1>1, <1>3, StateFacts DEF OtherTypes
  <1>6. taken = None /\ seen = 0 /\ ci = cons BY <1>1, NotPolling, LockNames
  <1>7. target = None /\ oldRing = None BY <1>1, StateFacts, LockNames
  <1>8. Jobs' BY <1>1, <1>2, <1>3, <1>6, <1>7, StateFacts, LockNames DEF Jobs
  <1> QED BY <1>2, <1>4, <1>5, <1>8, TypesNext DEF Core

LEMMA SweepTypes ==
  ASSUME IInv, SweepEntry
  PROVE  Types' /\ Jobs'
  <1>1. /\ UNCHANGED <<sqVars, size, cons, prod, ci, pollVars, qpVars, lock, target, oldRing, due>>
        /\ lock = "clean"
    BY DEF SweepEntry
  <1>2. /\ Core' /\ Span' = Span
        /\ sweep' \in [qp : table, left : Nat, freed : Nat] /\ sweep'.qp = sweep.qp
        /\ sweep'.left + sweep'.freed <= Span
        /\ srqVars' = srqVars \/ \E i \in SrqIndex : FreeSrqWqe(i)
    BY SweepCore
  <1>3. UNCHANGED <<taken, seen, reported, table, state, nreq>>
    BY <1>1 DEF pollVars, qpVars, sqVars
  <1>4. SrqTypes' BY <1>2, StateFacts, SrqTypesStay
  <1>5. OtherTypes' BY <1>1, <1>3, StateFacts DEF OtherTypes
  <1>8. Jobs' BY <1>1, <1>2, <1>3, StateFacts, LockNames DEF Jobs
  <1> QED BY <1>2, <1>4, <1>5, <1>8, TypesNext DEF Core

LEMMA CleanEndTypes ==
  ASSUME IInv, CleanEnd
  PROVE  Types' /\ Jobs'
  <1>1. /\ UNCHANGED <<sqVars, srqVars, size, pollVars, state, target, oldRing>>
        /\ lock = "clean" /\ lock' = None
    BY DEF CleanEnd
  <1>2. /\ Core' /\ due' \in Nat /\ ci' = cons' /\ table' \subseteq table
        /\ sweep.qp \in table /\ table' = table \ {sweep.qp} /\ state[sweep.qp] = "reset"
    BY CleanEndCore
  <1>3. UNCHANGED <<taken, seen, reported, nreq>>
    BY <1>1 DEF pollVars, sqVars
  <1>4. SrqTypes' BY <1>1, StateFacts, SrqTypesStay
  <1>5. cons' \in 0..CqMod-1 BY <1>2, SpanNext DEF Core
  <1>6. OtherTypes' BY <1>1, <1>2, <1>3, <1>5, StateFacts DEF OtherTypes
  <1>7. taken = None /\ seen = 0 BY <1>1, NotPolling, LockNames
  <1>8. target = None /\ oldRing = None BY <1>1, StateFacts, LockNames
  <1>9. \A x \in QPs \ table' : state[x] = "reset" BY <1>2, StateFacts
  <1>10. Jobs' BY <1>1, <1>2, <1>3, <1>7, <1>8, <1>9, StateFacts, LockNames DEF Jobs
  <1> QED BY <1>2, <1>4, <1>6, <1>10, TypesNext DEF Core

LEMMA ResizeTypes ==
  ASSUME IInv, NEW s \in CqSizes, ResizeCq(s)
  PROVE  Types' /\ Jobs'
  <1>1. /\ UNCHANGED <<sqVars, srqVars, cqVars, pollVars, qpVars, sweep, oldRing, due>>
        /\ lock = None /\ lock' = "resize" /\ target' = s
    BY DEF ResizeCq
  <1>2. Core' BY ResizeCore
  <1>3. UNCHANGED <<ci, cons, taken, seen, reported, table, state, nreq>>
    BY <1>1 DEF cqVars, pollVars, qpVars, sqVars
  <1>4. SrqTypes' BY <1>1, StateFacts, SrqTypesStay
  <1>5. OtherTypes' BY <1>1, <1>3, StateFacts DEF OtherTypes
  <1>6. taken = None /\ seen = 0 /\ ci = cons BY <1>1, NotPolling, LockNames
  <1>7. oldRing = None BY <1>1, StateFacts, LockNames
  <1>8. Jobs' BY <1>1, <1>3, <1>6, <1>7, StateFacts, LockNames DEF Jobs
  <1> QED BY <1>2, <1>4, <1>5, <1>8, TypesNext DEF Core

LEMMA CommandTypes ==
  ASSUME IInv, ResizeCommand
  PROVE  Types' /\ Jobs'
  <1>1. /\ UNCHANGED <<sqVars, srqVars, cons, ci, pollVars, qpVars, lock, sweep, target, due>>
        /\ lock = "resize"
    BY DEF ResizeCommand
  <1>2. /\ Core' /\ size' = target
        /\ \E s \in CqSizes : oldRing' \in [size : {s}, ring : [0..s-1 -> Cell]]
    BY CommandCore
  <1>3. UNCHANGED <<taken, seen, reported, table, state, nreq>>
    BY <1>1 DEF pollVars, qpVars, sqVars
  <1>4. SrqTypes' BY <1>1, StateFacts, SrqTypesStay
  <1>5. OtherTypes' BY <1>1, <1>3, StateFacts DEF OtherTypes
  <1>6. taken = None /\ seen = 0 /\ ci = cons BY <1>1, NotPolling, LockNames
  <1>8. Jobs' BY <1>1, <1>2, <1>3, <1>6, StateFacts, LockNames DEF Jobs
  <1> QED BY <1>2, <1>4, <1>5, <1>8, TypesNext DEF Core

LEMMA CopyTypes ==
  ASSUME IInv, ResizeCopy
  PROVE  Types' /\ Jobs'
  <1>1. /\ UNCHANGED <<sqVars, srqVars, pollVars, qpVars, sweep, due>>
        /\ lock = "resize" /\ lock' = None /\ target' = None /\ oldRing' = None /\ ci' = cons'
    BY DEF ResizeCopy
  <1>2. Core' BY CopyCore
  <1>3. UNCHANGED <<taken, seen, reported, table, state, nreq>>
    BY <1>1 DEF pollVars, qpVars, sqVars
  <1>4. SrqTypes' BY <1>1, StateFacts, SrqTypesStay
  <1>5. cons' \in 0..CqMod-1 BY <1>2, SpanNext DEF Core
  <1>6. OtherTypes' BY <1>1, <1>3, <1>5, StateFacts DEF OtherTypes
  <1>7. taken = None /\ seen = 0 BY <1>1, NotPolling, LockNames
  <1>8. Jobs' BY <1>1, <1>3, <1>7, StateFacts, LockNames DEF Jobs
  <1> QED BY <1>2, <1>4, <1>6, <1>8, TypesNext DEF Core

(* The shared receive queue: the list from the adapter's position through  *)
(* the free entries, and the entries that completions name.                *)
ChainOf(next, hw, tail, head, k, p, n) ==
  /\ \A i, j \in 0..n-1 : p[i] = p[j] => i = j
  /\ \A i \in 0..n-2 : next[p[i]] = p[i + 1]
  /\ p[0] = hw /\ p[n - 1] = tail /\ k < n /\ p[k] = head
On(p, n) == {p[i] : i \in 0..n-1}
Chained(next, hw, tail, head, k, p, n, busy) ==
  /\ n \in 1..SrqSize /\ p \in [0..n-1 -> SrqIndex]
  /\ ChainOf(next, hw, tail, head, k, p, n)
  /\ \A x \in SrqIndex : x \in On(p, n) <=> x \notin busy

RecvsOf(F, L) == {i \in 1..L : ~F[i].send}
Recv(t) == t # None /\ ~t.send
BusyOf(F, L, t) ==
  {x \in SrqIndex : (Recv(t) /\ t.wqe = x) \/ \E i \in RecvsOf(F, L) : F[i].wqe = x}
ApartOf(F, L, t) ==
  /\ \A i, j \in RecvsOf(F, L) : F[i].wqe = F[j].wqe => i = j
  /\ Recv(t) => \A i \in RecvsOf(F, L) : F[i].wqe # t.wqe

LEMMA ChainPosts ==
  ASSUME NEW next, NEW hw, NEW tail, NEW head, NEW k \in Nat, NEW p, NEW n, NEW busy,
         Chained(next, hw, tail, head, k, p, n, busy), head # tail
  PROVE  Chained(next, hw, tail, next[head], k + 1, p, n, busy)
  <1>1. n \in Nat /\ n >= 1 /\ k < n /\ p[k] = head /\ p[n - 1] = tail
    BY SharedReceiveQueueAssumption DEF Chained, ChainOf
  <1>2. k # n - 1 BY <1>1
  <1>3. k \in 0..n-2 /\ k + 1 < n BY <1>1, <1>2
  <1>4. next[p[k]] = p[k + 1] BY <1>3 DEF Chained, ChainOf
  <1> QED BY <1>1, <1>3, <1>4 DEF Chained, ChainOf

LEMMA ChainTakes ==
  ASSUME NEW next, NEW hw, NEW tail, NEW head, NEW k \in Nat, NEW p, NEW n, NEW busy,
         Chained(next, hw, tail, head, k, p, n, busy), k > 0
  PROVE  \E m : \E o : Chained(next, next[hw], tail, head, k - 1, o, m, busy \cup {hw})
  <1> DEFINE m == n - 1
             o == [i \in 0..m-1 |-> p[i + 1]]
  <1>1. n \in Nat /\ k < n /\ m \in Nat /\ m >= 1 /\ m <= SrqSize /\ SrqSize \in Nat
    BY SharedReceiveQueueAssumption DEF Chained, ChainOf
  <1>2. \A i \in 0..m-1 : o[i] = p[i + 1] /\ i + 1 \in 0..n-1 /\ p[i + 1] \in SrqIndex
    BY <1>1 DEF Chained
  <1>3. o \in [0..m-1 -> SrqIndex] BY <1>2
  <1>4. \A i, j \in 0..m-1 : o[i] = o[j] => i = j
    <2> SUFFICES ASSUME NEW i \in 0..m-1, NEW j \in 0..m-1, o[i] = o[j] PROVE i = j
      OBVIOUS
    <2>1. i + 1 = j + 1 BY <1>2 DEF Chained, ChainOf
    <2> QED BY <2>1
  <1>5. \A i \in 0..m-2 : next[o[i]] = o[i + 1]
    <2> SUFFICES ASSUME NEW i \in 0..m-2 PROVE next[o[i]] = o[i + 1]
      OBVIOUS
    <2>1. i \in 0..m-1 /\ i + 1 \in 0..m-1 /\ i + 1 \in 0..n-2 /\ (i + 1) + 1 = i + 2 BY <1>1
    <2>2. next[p[i + 1]] = p[(i + 1) + 1] BY <2>1 DEF Chained, ChainOf
    <2>3. o[i] = p[i + 1] /\ o[i + 1] = p[(i + 1) + 1] BY <1>2, <2>1
    <2> QED BY <2>2, <2>3
  <1>6. o[0] = next[hw]
    <2>1. 0 \in 0..m-1 /\ 0 \in 0..n-2 BY <1>1
    <2> QED BY <1>2, <2>1 DEF Chained, ChainOf
  <1>7. o[m - 1] = tail
    <2>1. m - 1 \in 0..m-1 /\ (m - 1) + 1 = n - 1 BY <1>1
    <2> QED BY <1>2, <2>1 DEF Chained, ChainOf
  <1>8. k - 1 < m /\ o[k - 1] = head
    <2>1. k - 1 \in 0..m-1 /\ (k - 1) + 1 = k BY <1>1
    <2> QED BY <1>2, <2>1 DEF Chained, ChainOf
  <1>9. \A x \in SrqIndex : x \in On(o, m) <=> x \notin busy \cup {hw}
    <2> SUFFICES ASSUME NEW x \in SrqIndex PROVE x \in On(o, m) <=> x \in On(p, n) /\ x # hw
      BY DEF Chained
    <2>0. 0 \in 0..n-1 /\ p[0] = hw BY <1>1 DEF Chained, ChainOf
    <2>1. ASSUME x \in On(o, m) PROVE x \in On(p, n) /\ x # hw
      <3>1. PICK i \in 0..m-1 : x = o[i] BY <2>1 DEF On
      <3>2. x = p[i + 1] /\ i + 1 \in 0..n-1 /\ i + 1 # 0 BY <1>2, <3>1
      <3>3. p[i + 1] # p[0] BY <2>0, <3>2 DEF Chained, ChainOf
      <3> QED BY <2>0, <3>2, <3>3 DEF On
    <2>2. ASSUME x \in On(p, n), x # hw PROVE x \in On(o, m)
      <3>1. PICK i \in 0..n-1 : x = p[i] BY <2>2 DEF On
      <3>2. i # 0 BY <2>0, <2>2, <3>1
      <3>3. i - 1 \in 0..m-1 /\ (i - 1) + 1 = i BY <1>1, <3>2
      <3>4. o[i - 1] = x BY <1>2, <3>1, <3>3
      <3> HIDE DEF o, m
      <3> QED BY <3>3, <3>4 DEF On
    <2> QED BY <2>1, <2>2
  <1>10. m \in 1..SrqSize BY <1>1
  <1> HIDE DEF o, m
  <1>11. ChainOf(next, next[hw], tail, head, k - 1, o, m)
    BY <1>4, <1>5, <1>6, <1>7, <1>8 DEF ChainOf
  <1> QED BY <1>3, <1>9, <1>10, <1>11 DEF Chained

LEMMA ChainFrees ==
  ASSUME NEW next \in [SrqIndex -> SrqIndex], NEW hw, NEW tail, NEW head, NEW k \in Nat,
         NEW p, NEW n, NEW busy,
         Chained(next, hw, tail, head, k, p, n, busy), NEW x \in SrqIndex, x \in busy
  PROVE  \E m : \E o : Chained([next EXCEPT ![tail] = x], hw, x, head, k, o, m, busy \ {x})
  <1> DEFINE m == n + 1
             o == [i \in 0..m-1 |-> IF i < n THEN p[i] ELSE x]
             link == [next EXCEPT ![tail] = x]
  <1>1. n \in Nat /\ n >= 1 /\ k < n /\ m \in Nat /\ SrqSize \in Nat /\ n <= SrqSize
    BY SharedReceiveQueueAssumption DEF Chained, ChainOf
  <1>2. \A i \in 0..n-1 : p[i] \in SrqIndex /\ p[i] # x
    BY DEF Chained, On
  <1>3. n <= SrqSize - 1
    <2> SUFFICES ASSUME n = SrqSize PROVE FALSE BY <1>1
    <2>0. 0 \in Int /\ n - 1 \in Int /\ SrqSize - 1 \in Int BY <1>1
    <2>1. IsFiniteSet(0..n-1) /\ Cardinality(0..n-1) = n
      <3>1. IsFiniteSet(0..n-1) /\ Cardinality(0..n-1) = IF 0 > n - 1 THEN 0 ELSE (n - 1) - 0 + 1
        BY <2>0, FS_Interval
      <3> QED BY <1>1, <3>1
    <2>2. IsFiniteSet(SrqIndex) /\ Cardinality(SrqIndex) = SrqSize
      <3>1. /\ IsFiniteSet(0..SrqSize-1)
            /\ Cardinality(0..SrqSize-1) = IF 0 > SrqSize - 1 THEN 0 ELSE (SrqSize - 1) - 0 + 1
        BY <2>0, FS_Interval
      <3> QED BY <1>1, <3>1 DEF SrqIndex
    <2>3. IsFiniteSet(SrqIndex \ {x}) /\ Cardinality(SrqIndex \ {x}) = SrqSize - 1
      BY <2>2, FS_RemoveElement
    <2>4. p \in [0..n-1 -> SrqIndex \ {x}] BY <1>2 DEF Chained
    <2>5. Cardinality(SrqIndex \ {x}) < Cardinality(0..n-1) BY <1>1, <2>1, <2>3
    <2> HIDE DEF m, o, link
    <2> DEFINE A == 0..n-1
               B == SrqIndex \ {x}
    <2>6. IsFiniteSet(A) /\ IsFiniteSet(B) /\ Cardinality(B) < Cardinality(A) /\ p \in [A -> B]
      BY <2>1, <2>3, <2>4, <2>5
    <2> HIDE DEF A, B
    <2>7. \E i, j \in A : i # j /\ p[i] = p[j] BY <2>6, FS_PigeonHole
    <2> QED BY <2>7 DEF Chained, ChainOf, A
  <1>4. \A i \in 0..m-1 : o[i] = IF i < n THEN p[i] ELSE x
    OBVIOUS
  <1>5. o \in [0..m-1 -> SrqIndex] BY <1>1, <1>2
  <1>6. \A i, j \in 0..m-1 : o[i] = o[j] => i = j
    <2> SUFFICES ASSUME NEW i \in 0..m-1, NEW j \in 0..m-1, o[i] = o[j] PROVE i = j
      OBVIOUS
    <2>1. CASE i < n /\ j < n
      <3>1. i \in 0..n-1 /\ j \in 0..n-1 /\ p[i] = p[j] BY <1>1, <1>4, <2>1
      <3> QED BY <3>1 DEF Chained, ChainOf
    <2>2. CASE i < n /\ ~(j < n)
      <3>1. i \in 0..n-1 /\ p[i] = x BY <1>1, <1>4, <2>2
      <3> QED BY <1>2, <3>1
    <2>3. CASE ~(i < n) /\ j < n
      <3>1. j \in 0..n-1 /\ p[j] = x BY <1>1, <1>4, <2>3
      <3> QED BY <1>2, <3>1
    <2>4. CASE ~(i < n) /\ ~(j < n)
      <3>1. i = n /\ j = n BY <1>1, <2>4
      <3> QED BY <3>1
    <2> QED BY <2>1, <2>2, <2>3, <2>4
  <1>7. p[n - 1] = tail /\ tail \in SrqIndex /\ n - 1 \in 0..n-1
    <2>1. n - 1 \in 0..n-1 BY <1>1
    <2>2. p[n - 1] = tail BY DEF Chained, ChainOf
    <2> QED BY <1>2, <2>1, <2>2
  <1>8. \A i \in 0..m-2 : link[o[i]] = o[i + 1]
    <2> SUFFICES ASSUME NEW i \in 0..m-2 PROVE link[o[i]] = o[i + 1]
      OBVIOUS
    <2>1. i \in 0..n-1 /\ i \in 0..m-1 /\ i + 1 \in 0..m-1 /\ i < n BY <1>1
    <2>2. o[i] = p[i]
      <3>1. o[i] = IF i < n THEN p[i] ELSE x BY <1>4, <2>1
      <3> QED BY ONLY <2>1, <3>1
    <2>3. CASE i = n - 1
      <3>1. o[i + 1] = x BY <1>1, <1>4, <2>1, <2>3
      <3> QED BY <1>7, <2>2, <2>3, <3>1
    <2>4. CASE i # n - 1
      <3>1. i \in 0..n-2 /\ i + 1 < n BY <1>1, <2>1, <2>4
      <3>2. o[i + 1] = p[i + 1] BY <1>4, <2>1, <3>1
      <3>3. next[p[i]] = p[i + 1] BY <3>1 DEF Chained, ChainOf
      <3>4. p[i] # tail /\ p[i] \in SrqIndex BY <1>2, <1>7, <2>1, <2>4 DEF Chained, ChainOf
      <3> QED BY <2>2, <3>2, <3>3, <3>4
    <2> QED BY <2>3, <2>4
  <1>9. o[0] = hw /\ o[m - 1] = x /\ k < m /\ o[k] = head
    <2>1. 0 \in 0..m-1 /\ 0 < n /\ m - 1 \in 0..m-1 /\ ~(m - 1 < n) /\ k \in 0..m-1 /\ k < m
      BY <1>1
    <2>2. o[0] = p[0] /\ o[m - 1] = x /\ o[k] = p[k] BY <1>1, <1>4, <2>1
    <2> QED BY <2>1, <2>2 DEF Chained, ChainOf
  <1>10. \A y \in SrqIndex : y \in On(o, m) <=> y \notin busy \ {x}
    <2> SUFFICES ASSUME NEW y \in SrqIndex PROVE y \in On(o, m) <=> y \in On(p, n) \/ y = x
      BY DEF Chained
    <2>1. ASSUME y \in On(o, m) PROVE y \in On(p, n) \/ y = x
      <3>1. PICK i \in 0..m-1 : y = o[i] BY <2>1 DEF On
      <3>2. i < n => i \in 0..n-1 BY <1>1
      <3> QED BY <1>4, <3>1, <3>2 DEF On
    <2>2. ASSUME y \in On(p, n) PROVE y \in On(o, m)
      <3>1. PICK i \in 0..n-1 : y = p[i] BY <2>2 DEF On
      <3>2. i \in 0..m-1 /\ i < n BY <1>1
      <3>3. y = o[i] BY <1>4, <3>1, <3>2
      <3> HIDE DEF o, m
      <3> QED BY <3>2, <3>3 DEF On
    <2>3. ASSUME y = x PROVE y \in On(o, m)
      <3>1. m - 1 \in 0..m-1 BY <1>1
      <3>2. y = o[m - 1] BY <1>9, <2>3
      <3> HIDE DEF o, m
      <3> QED BY <3>1, <3>2 DEF On
    <2> QED BY <2>1, <2>2, <2>3
  <1>11. m \in 1..SrqSize BY <1>1, <1>3
  <1> HIDE DEF o, m, link
  <1>12. ChainOf(link, hw, x, head, k, o, m)
    BY <1>6, <1>8, <1>9 DEF ChainOf
  <1>13. Chained(link, hw, x, head, k, o, m, busy \ {x})
    BY <1>5, <1>10, <1>11, <1>12 DEF Chained
  <1> QED BY <1>13 DEF link

LEMMA ChainStarts ==
  ASSUME NEW next, next = [i \in SrqIndex |-> (i + 1) % SrqSize]
  PROVE  \E n : \E p : Chained(next, 0, SrqSize - 1, 0, 0, p, n, {})
  <1> DEFINE p == [i \in 0..SrqSize-1 |-> i]
  <1>1. SrqSize \in Nat /\ SrqSize >= 2 /\ SrqSize \in Nat \ {0} BY SharedReceiveQueueAssumption
  <1>2. p \in [0..SrqSize-1 -> SrqIndex] /\ \A i \in 0..SrqSize-1 : p[i] = i BY DEF SrqIndex
  <1>3. \A i \in 0..SrqSize-2 : next[p[i]] = p[i + 1]
    <2> SUFFICES ASSUME NEW i \in 0..SrqSize-2 PROVE next[p[i]] = p[i + 1]
      OBVIOUS
    <2>1. i \in SrqIndex /\ i + 1 \in 0..SrqSize-1 BY <1>1 DEF SrqIndex
    <2>2. (i + 1) % SrqSize = i + 1 BY <1>1, <2>1, RemSmall
    <2> QED BY <1>2, <2>1, <2>2 DEF SrqIndex
  <1>4. \A x \in SrqIndex : x \in On(p, SrqSize) BY <1>2 DEF On, SrqIndex
  <1>5. 0 \in 0..SrqSize-1 /\ SrqSize - 1 \in 0..SrqSize-1 /\ SrqSize \in 1..SrqSize BY <1>1
  <1> HIDE DEF p
  <1>6. ChainOf(next, 0, SrqSize - 1, 0, 0, p, SrqSize)
    BY <1>1, <1>2, <1>3, <1>5 DEF ChainOf
  <1> QED BY <1>2, <1>4, <1>5, <1>6 DEF Chained

LEMMA BusyPushed ==
  ASSUME NEW L \in Nat, NEW F, NEW G, NEW c, NEW t, PushedOf(F, L, G, c), ApartOf(F, L, t)
  PROVE  /\ c.send => BusyOf(G, L + 1, t) = BusyOf(F, L, t) /\ ApartOf(G, L + 1, t)
         /\ ~c.send /\ c.wqe \in SrqIndex /\ c.wqe \notin BusyOf(F, L, t) =>
              BusyOf(G, L + 1, t) = BusyOf(F, L, t) \cup {c.wqe} /\ ApartOf(G, L + 1, t)
  <1>1. \A i \in 1..L : G[i] = F[i] /\ i \in 1..L+1 BY DEF PushedOf
  <1>2. G[L + 1] = c /\ L + 1 \in 1..L+1 /\ L + 1 \notin 1..L BY DEF PushedOf
  <1>3. \A i \in 1..L+1 : i \in 1..L \/ i = L + 1 OBVIOUS
  <1>4. RecvsOf(F, L) \subseteq 1..L /\ \A i \in RecvsOf(F, L) : G[i] = F[i]
    BY <1>1 DEF RecvsOf
  <1>5. CASE c.send
    <2>1. RecvsOf(G, L + 1) = RecvsOf(F, L) BY <1>1, <1>2, <1>3, <1>5 DEF RecvsOf
    <2> QED BY <1>4, <1>5, <2>1 DEF BusyOf, ApartOf
  <1>6. CASE ~c.send /\ c.wqe \in SrqIndex /\ c.wqe \notin BusyOf(F, L, t)
    <2>1. RecvsOf(G, L + 1) = RecvsOf(F, L) \cup {L + 1} BY <1>1, <1>2, <1>3, <1>6 DEF RecvsOf
    <2>2. BusyOf(G, L + 1, t) = BusyOf(F, L, t) \cup {c.wqe}
      BY <1>2, <1>4, <1>6, <2>1 DEF BusyOf
    <2>3. \A i \in RecvsOf(F, L) : F[i].wqe # c.wqe BY <1>6 DEF BusyOf
    <2>4. Recv(t) => t.wqe # c.wqe BY <1>6 DEF BusyOf
    <2>5. ApartOf(G, L + 1, t)
      BY <1>2, <1>4, <2>1, <2>3, <2>4 DEF ApartOf
    <2> QED BY <1>6, <2>2, <2>5
  <1> QED BY <1>5, <1>6

LEMMA RecvsGone ==
  ASSUME NEW L \in Nat, NEW k \in 1..L, NEW F, NEW G, GoneOf(F, L, G, k)
  PROVE  /\ \A i \in RecvsOf(G, L - 1) : \E j \in RecvsOf(F, L) :
              G[i] = F[j] /\ j # k /\ j = IF i < k THEN i ELSE i + 1
         /\ \A j \in RecvsOf(F, L) : j # k => \E i \in RecvsOf(G, L - 1) : G[i] = F[j]
  <1>1. ASSUME NEW i \in RecvsOf(G, L - 1)
        PROVE  \E j \in RecvsOf(F, L) : G[i] = F[j] /\ j # k /\ j = IF i < k THEN i ELSE i + 1
    <2> DEFINE j == IF i < k THEN i ELSE i + 1
    <2>1. i \in 1..L-1 /\ ~G[i].send BY DEF RecvsOf
    <2>2. j \in 1..L /\ j # k BY <2>1
    <2>3. G[i] = F[j] BY <2>1 DEF GoneOf
    <2>4. j \in RecvsOf(F, L) BY <2>1, <2>2, <2>3 DEF RecvsOf
    <2> QED BY <2>2, <2>3, <2>4
  <1>2. ASSUME NEW j \in RecvsOf(F, L), j # k
        PROVE  \E i \in RecvsOf(G, L - 1) : G[i] = F[j]
    <2> DEFINE i == IF j < k THEN j ELSE j - 1
    <2>1. j \in 1..L /\ ~F[j].send BY DEF RecvsOf
    <2>2. i \in 1..L-1 /\ (i < k <=> j < k) /\ (~(j < k) => i + 1 = j) BY <1>2, <2>1
    <2>3. G[i] = F[j] BY <2>2 DEF GoneOf
    <2>4. i \in RecvsOf(G, L - 1) BY <2>1, <2>2, <2>3 DEF RecvsOf
    <2> QED BY <2>3, <2>4
  <1> QED BY <1>1, <1>2

LEMMA ApartGone ==
  ASSUME NEW L \in Nat, NEW k \in 1..L, NEW F, NEW G, NEW t, GoneOf(F, L, G, k), ApartOf(F, L, t)
  PROVE  ApartOf(G, L - 1, t)
  <1>1. ASSUME NEW i \in RecvsOf(G, L - 1), NEW j \in RecvsOf(G, L - 1), G[i].wqe = G[j].wqe
        PROVE  i = j
    <2>1. PICK a \in RecvsOf(F, L) : G[i] = F[a] /\ a = IF i < k THEN i ELSE i + 1
      BY RecvsGone
    <2>2. PICK b \in RecvsOf(F, L) : G[j] = F[b] /\ b = IF j < k THEN j ELSE j + 1
      BY RecvsGone
    <2>3. a = b BY <1>1, <2>1, <2>2 DEF ApartOf
    <2>4. i \in Nat /\ j \in Nat BY DEF RecvsOf
    <2> QED BY <2>1, <2>2, <2>3, <2>4
  <1>2. ASSUME Recv(t), NEW i \in RecvsOf(G, L - 1) PROVE G[i].wqe # t.wqe
    <2>1. PICK a \in RecvsOf(F, L) : G[i] = F[a] BY RecvsGone
    <2> QED BY <1>2, <2>1 DEF ApartOf
  <1> QED BY <1>1, <1>2 DEF ApartOf

LEMMA BusyGone ==
  ASSUME NEW L \in Nat, NEW k \in 1..L, NEW F, NEW G, NEW t, GoneOf(F, L, G, k), ApartOf(F, L, t)
  PROVE  /\ F[k].send => BusyOf(G, L - 1, t) = BusyOf(F, L, t)
         /\ ~F[k].send /\ F[k].wqe \in SrqIndex =>
              /\ F[k].wqe \in BusyOf(F, L, t)
              /\ BusyOf(G, L - 1, t) = BusyOf(F, L, t) \ {F[k].wqe}
  <1>1. ASSUME F[k].send
        PROVE  BusyOf(G, L - 1, t) = BusyOf(F, L, t)
    <2>1. k \notin RecvsOf(F, L) BY <1>1 DEF RecvsOf
    <2>2. \A i \in RecvsOf(G, L - 1) : \E j \in RecvsOf(F, L) : G[i] = F[j] BY RecvsGone
    <2>3. \A j \in RecvsOf(F, L) : \E i \in RecvsOf(G, L - 1) : G[i] = F[j] BY <2>1, RecvsGone
    <2> QED BY <2>2, <2>3 DEF BusyOf
  <1>2. ASSUME ~F[k].send, F[k].wqe \in SrqIndex
        PROVE  /\ F[k].wqe \in BusyOf(F, L, t)
               /\ BusyOf(G, L - 1, t) = BusyOf(F, L, t) \ {F[k].wqe}
    <2>1. k \in RecvsOf(F, L) BY <1>2 DEF RecvsOf
    <2>2. F[k].wqe \in BusyOf(F, L, t) BY <1>2, <2>1 DEF BusyOf
    <2>3. ASSUME NEW x \in BusyOf(G, L - 1, t) PROVE x \in BusyOf(F, L, t) \ {F[k].wqe}
      <3>1. x \in SrqIndex BY <2>3 DEF BusyOf
      <3>2. CASE Recv(t) /\ t.wqe = x
        BY <2>1, <3>1, <3>2 DEF BusyOf, ApartOf
      <3>3. CASE \E i \in RecvsOf(G, L - 1) : G[i].wqe = x
        <4>1. PICK i \in RecvsOf(G, L - 1) : G[i].wqe = x BY <3>3
        <4>2. PICK j \in RecvsOf(F, L) : G[i] = F[j] /\ j # k BY RecvsGone
        <4>3. F[j].wqe # F[k].wqe BY <2>1, <4>2 DEF ApartOf
        <4> QED BY <3>1, <4>1, <4>2, <4>3 DEF BusyOf
      <3> QED BY <2>3, <3>2, <3>3 DEF BusyOf
    <2>4. ASSUME NEW x \in BusyOf(F, L, t), x # F[k].wqe PROVE x \in BusyOf(G, L - 1, t)
      <3>1. x \in SrqIndex BY <2>4 DEF BusyOf
      <3>2. CASE Recv(t) /\ t.wqe = x
        BY <3>1, <3>2 DEF BusyOf
      <3>3. CASE \E j \in RecvsOf(F, L) : F[j].wqe = x
        <4>1. PICK j \in RecvsOf(F, L) : F[j].wqe = x BY <3>3
        <4>2. j # k BY <2>4, <4>1
        <4>3. \E i \in RecvsOf(G, L - 1) : G[i] = F[j] BY <4>2, RecvsGone
        <4> QED BY <3>1, <4>1, <4>3 DEF BusyOf
      <3> QED BY <2>4, <3>2, <3>3 DEF BusyOf
    <2> QED BY <2>2, <2>3, <2>4
  <1> QED BY <1>1, <1>2

LEMMA BusyTaken ==
  ASSUME NEW L \in Nat, 1 \in 1..L, NEW F, NEW G, GoneOf(F, L, G, 1), ApartOf(F, L, None),
         F[1] # None, F[1].wqe \in SrqIndex \/ F[1].send
  PROVE  BusyOf(G, L - 1, F[1]) = BusyOf(F, L, None) /\ ApartOf(G, L - 1, F[1])
  <1> DEFINE one == 1
  <1>0. one \in 1..L /\ GoneOf(F, L, G, one) /\ ApartOf(F, L, None) OBVIOUS
  <1>f. F[one] = F[1] OBVIOUS
  <1> HIDE DEF one
  <1>1. ApartOf(G, L - 1, None) BY <1>0, ApartGone
  <1>2. \A i \in RecvsOf(G, L - 1) : \E j \in RecvsOf(F, L) : G[i] = F[j] /\ j # one
    BY <1>0, RecvsGone
  <1>3. CASE F[1].send
    <2>1. BusyOf(G, L - 1, None) = BusyOf(F, L, None) BY <1>0, <1>3, <1>f, BusyGone
    <2>2. BusyOf(G, L - 1, F[1]) = BusyOf(G, L - 1, None) BY <1>3 DEF BusyOf, Recv
    <2>3. ApartOf(G, L - 1, F[1]) BY <1>1, <1>3 DEF ApartOf, Recv
    <2> QED BY <2>1, <2>2, <2>3
  <1>4. CASE ~F[1].send
    <2>1. one \in RecvsOf(F, L) BY <1>0, <1>4, <1>f DEF RecvsOf
    <2>2. /\ F[1].wqe \in BusyOf(F, L, None)
          /\ BusyOf(G, L - 1, None) = BusyOf(F, L, None) \ {F[1].wqe}
      BY <1>0, <1>4, <1>f, BusyGone
    <2>3. BusyOf(G, L - 1, F[1]) = BusyOf(G, L - 1, None) \cup {F[1].wqe}
      BY <1>4 DEF BusyOf, Recv
    <2>4. \A i \in RecvsOf(G, L - 1) : G[i].wqe # F[1].wqe
      BY <1>2, <1>f, <2>1 DEF ApartOf
    <2>5. ApartOf(G, L - 1, F[1]) BY <1>1, <2>4 DEF ApartOf
    <2> QED BY <2>2, <2>3, <2>5
  <1> QED BY <1>3, <1>4

LEMMA BusyReported ==
  ASSUME NEW L, NEW F, NEW t, ApartOf(F, L, t)
  PROVE  /\ ~Recv(t) => BusyOf(F, L, None) = BusyOf(F, L, t)
         /\ Recv(t) /\ t.wqe \in SrqIndex =>
              /\ t.wqe \in BusyOf(F, L, t)
              /\ BusyOf(F, L, None) = BusyOf(F, L, t) \ {t.wqe}
         /\ ApartOf(F, L, None)
  BY DEF BusyOf, ApartOf, Recv

(* The same, of the state.                                                 *)
Busy == BusyOf(Q, QLen, taken)
Linked == \E n : \E p : Chained(srqNext, hwSrq, srqTail, srqHead, Posted, p, n, Busy)
Apart == ApartOf(Q, QLen, taken)

LEMMA PathIs ==
  ASSUME NEW p, NEW n
  PROVE  n \in 1..SrqSize /\ p \in [0..n-1 -> SrqIndex] /\ Path(p, n) <=>
         Chained(srqNext, hwSrq, srqTail, srqHead, Posted, p, n, Busy)
  <1>1. Busy = {x \in SrqIndex : (TakenRecv /\ taken.wqe = x) \/ \E i \in Recvs : Q[i].wqe = x}
    BY DEF Busy, BusyOf, RecvsOf, Recvs, Recv, TakenRecv
  <1>2. \A x \in SrqIndex : x \in On(p, n) <=> \E i \in 0..n-1 : p[i] = x
    BY DEF On
  <1> QED BY <1>1, <1>2 DEF Path, Chained, ChainOf

LEMMA SrqIs == SrqInv <=> Linked /\ Apart
  <1>1. Apart <=> /\ \A i, j \in Recvs : Q[i].wqe = Q[j].wqe => i = j
                  /\ TakenRecv => \A i \in Recvs : Q[i].wqe # taken.wqe
    BY DEF Apart, ApartOf, RecvsOf, Recvs, Recv, TakenRecv
  <1>2. Linked <=> \E n \in 1..SrqSize : \E p \in [0..n-1 -> SrqIndex] : Path(p, n)
    BY PathIs DEF Linked
  <1> QED BY <1>1, <1>2 DEF SrqInv

LEMMA SrqNextIs ==
  ASSUME Linked', Apart'
  PROVE  SrqInv'
  <1>1. /\ \A i, j \in Recvs' : Q'[i].wqe = Q'[j].wqe => i = j
        /\ TakenRecv' => \A i \in Recvs' : Q'[i].wqe # taken'.wqe
    BY DEF Apart, ApartOf, RecvsOf, Recvs, Recv, TakenRecv
  <1>2. PICK n, p : Chained(srqNext', hwSrq', srqTail', srqHead', Posted', p, n, Busy')
    BY DEF Linked
  <1>3. Busy' = {x \in SrqIndex : (TakenRecv' /\ taken'.wqe = x) \/ \E i \in Recvs' : Q'[i].wqe = x}
    BY DEF Busy, BusyOf, RecvsOf, Recvs, Recv, TakenRecv
  <1>4. \A x \in SrqIndex : x \in On(p, n) <=> \E i \in 0..n-1 : p[i] = x
    BY DEF On
  <1>5. n \in 1..SrqSize /\ p \in [0..n-1 -> SrqIndex] /\ Path(p, n)'
    BY <1>2, <1>3, <1>4 DEF Path, Chained, ChainOf
  <1> QED BY <1>1, <1>5 DEF SrqInv

LEMMA SrqFacts ==
  ASSUME IInv
  PROVE  /\ Linked /\ Apart /\ QLen \in Nat /\ Posted \in Nat
         /\ srqNext \in [SrqIndex -> SrqIndex] /\ srqHead \in SrqIndex /\ srqTail \in SrqIndex
         /\ hwSrq \in SrqIndex
  BY SrqIs, Base, StateFacts DEF IInv, SrqTypes

LEMMA ChainMoves ==
  ASSUME IInv, UNCHANGED srqVars, Busy' = Busy
  PROVE  Linked'
  BY SrqFacts DEF Linked, srqVars, Posted

(* Nothing enters or leaves the queue, and what was taken stays so.        *)
LEMMA SrqStays ==
  ASSUME IInv, Same, UNCHANGED <<srqVars, taken>>
  PROVE  SrqInv'
  <1>1. Q' = Q /\ QLen' = QLen BY SrqFacts, QueueMoves
  <1>2. Busy' = Busy /\ Apart' BY <1>1, SrqFacts DEF Busy, Apart
  <1> QED BY <1>2, ChainMoves, SrqNextIs

LEMMA SrqPosts ==
  ASSUME IInv, Same, taken' = taken, PostSrqRecv
  PROVE  SrqInv'
  <1>1. Q' = Q /\ QLen' = QLen BY SrqFacts, QueueMoves
  <1>2. Busy' = Busy /\ Apart' BY <1>1, SrqFacts DEF Busy, Apart
  <1>3. PICK n, p : Chained(srqNext, hwSrq, srqTail, srqHead, Posted, p, n, Busy)
    BY SrqFacts DEF Linked
  <1>4. Chained(srqNext, hwSrq, srqTail, srqNext[srqHead], Posted + 1, p, n, Busy)
    BY <1>3, SrqFacts, ChainPosts DEF PostSrqRecv
  <1>5. /\ srqNext' = srqNext /\ hwSrq' = hwSrq /\ srqTail' = srqTail
        /\ srqHead' = srqNext[srqHead] /\ Posted' = Posted + 1
    BY PostedPosts DEF PostSrqRecv
  <1>6. Linked' BY <1>2, <1>4, <1>5 DEF Linked
  <1> QED BY <1>2, <1>6, SrqNextIs

LEMMA SrqSendPushed ==
  ASSUME IInv, NEW c, Pushed(c), c.send, UNCHANGED <<srqVars, taken>>
  PROVE  SrqInv'
  <1>1. PushedOf(Q, QLen, Q', c) /\ QLen' = QLen + 1 BY SrqFacts, QueueMoves
  <1>2. BusyOf(Q', QLen + 1, taken) = Busy /\ ApartOf(Q', QLen + 1, taken)
    BY <1>1, SrqFacts, BusyPushed DEF Busy, Apart
  <1>3. Busy' = Busy /\ Apart' BY <1>1, <1>2 DEF Busy, Apart
  <1> QED BY <1>3, ChainMoves, SrqNextIs

LEMMA SrqRecvPushed ==
  ASSUME IInv, NEW c, Pushed(c), ~c.send, c.wqe = hwSrq, taken' = taken, TakeSrqWqe
  PROVE  SrqInv'
  <1>1. PushedOf(Q, QLen, Q', c) /\ QLen' = QLen + 1 BY SrqFacts, QueueMoves
  <1>2. PICK n, p : Chained(srqNext, hwSrq, srqTail, srqHead, Posted, p, n, Busy)
    BY SrqFacts DEF Linked
  <1>3. hwSrq \notin Busy
    <2>1. 0 \in 0..n-1 /\ p[0] = hwSrq BY <1>2, SharedReceiveQueueAssumption DEF Chained, ChainOf
    <2> QED BY <1>2, <2>1, SrqFacts DEF Chained, On
  <1>4. BusyOf(Q', QLen + 1, taken) = Busy \cup {hwSrq} /\ ApartOf(Q', QLen + 1, taken)
    <2>1. c.wqe \in SrqIndex /\ c.wqe \notin BusyOf(Q, QLen, taken) /\ ApartOf(Q, QLen, taken)
      BY <1>3, SrqFacts DEF Busy, Apart
    <2>2. /\ BusyOf(Q', QLen + 1, taken) = BusyOf(Q, QLen, taken) \cup {c.wqe}
          /\ ApartOf(Q', QLen + 1, taken)
      BY <1>1, <2>1, SrqFacts, BusyPushed
    <2> QED BY <2>2 DEF Busy
  <1>5. Busy' = Busy \cup {hwSrq} /\ Apart' BY <1>1, <1>4 DEF Busy, Apart
  <1>6. \E m, o : Chained(srqNext, srqNext[hwSrq], srqTail, srqHead, Posted - 1, o, m, Busy \cup {hwSrq})
    <2>1. Posted \in Nat /\ Posted > 0 BY SrqFacts DEF TakeSrqWqe
    <2> QED BY <1>2, <2>1, ChainTakes
  <1>7. /\ srqNext' = srqNext /\ hwSrq' = srqNext[hwSrq] /\ srqTail' = srqTail
        /\ srqHead' = srqHead /\ Posted' = Posted - 1
    BY PostedTaken DEF TakeSrqWqe
  <1>8. Linked' BY <1>5, <1>6, <1>7 DEF Linked
  <1> QED BY <1>5, <1>8, SrqNextIs

LEMMA SrqFreed ==
  ASSUME IInv, NEW x \in SrqIndex, x \in Busy, FreeSrqWqe(x), Busy' = Busy \ {x}
  PROVE  Linked'
  <1>2. PICK n, p : Chained(srqNext, hwSrq, srqTail, srqHead, Posted, p, n, Busy)
    BY SrqFacts DEF Linked
  <1>3. \E m, o : Chained([srqNext EXCEPT ![srqTail] = x], hwSrq, x, srqHead, Posted, o, m, Busy \ {x})
    BY <1>2, SrqFacts, ChainFrees
  <1>4. /\ srqNext' = [srqNext EXCEPT ![srqTail] = x] /\ hwSrq' = hwSrq /\ srqTail' = x
        /\ srqHead' = srqHead /\ Posted' = Posted
    BY DEF FreeSrqWqe, Posted
  <1> QED BY <1>3, <1>4 DEF Linked

LEMMA SrqTaken ==
  ASSUME IInv, Gone(1), taken = None, taken' = Q[1], Q[1] \in Completions, UNCHANGED srqVars
  PROVE  SrqInv'
  <1>1. GoneOf(Q, QLen, Q', 1) /\ QLen' = QLen - 1 /\ 1 \in 1..QLen BY SrqFacts, QueueMoves
  <1>2. Q[1] # None BY NoneAssumption
  <1>3. Q[1].wqe \in SrqIndex \/ Q[1].send
    BY <1>1, Base DEF Held, GoodCqe
  <1>4. BusyOf(Q', QLen - 1, Q[1]) = BusyOf(Q, QLen, None) /\ ApartOf(Q', QLen - 1, Q[1])
    BY <1>1, <1>2, <1>3, SrqFacts, BusyTaken DEF Apart
  <1>5. Busy' = Busy /\ Apart' BY <1>1, <1>4 DEF Busy, Apart
  <1> QED BY <1>5, ChainMoves, SrqNextIs

LEMMA SrqReported ==
  ASSUME IInv, Same, taken # None, taken' = None,
         \/ taken.send /\ UNCHANGED srqVars
         \/ ~taken.send /\ FreeSrqWqe(taken.wqe)
  PROVE  SrqInv'
  <1>1. Q' = Q /\ QLen' = QLen BY SrqFacts, QueueMoves
  <1>2. ApartOf(Q, QLen, None) BY SrqFacts, BusyReported DEF Apart
  <1>3. Apart' BY <1>1, <1>2 DEF Apart
  <1>4. Busy' = BusyOf(Q, QLen, None) BY <1>1 DEF Busy
  <1>5. CASE taken.send /\ UNCHANGED srqVars
    <2>1. Busy' = Busy BY <1>4, <1>5, SrqFacts, BusyReported DEF Busy, Apart, Recv
    <2> QED BY <1>3, <1>5, <2>1, ChainMoves, SrqNextIs
  <1>6. CASE ~taken.send /\ FreeSrqWqe(taken.wqe)
    <2>1. taken.wqe \in SrqIndex BY <1>6, Base DEF Looked
    <2>2. taken.wqe \in Busy /\ Busy' = Busy \ {taken.wqe}
      BY <1>4, <1>6, <2>1, SrqFacts, BusyReported DEF Busy, Apart, Recv
    <2> QED BY <1>3, <1>6, <2>1, <2>2, SrqFreed, SrqNextIs
  <1> QED BY <1>5, <1>6

LEMMA SrqSwept ==
  ASSUME IInv, NEW k, Gone(k), taken' = taken,
         \/ Q[k].send /\ UNCHANGED srqVars
         \/ ~Q[k].send /\ FreeSrqWqe(Q[k].wqe) /\ Q[k].wqe \in SrqIndex
  PROVE  SrqInv'
  <1>1. GoneOf(Q, QLen, Q', k) /\ QLen' = QLen - 1 /\ k \in 1..QLen BY SrqFacts, QueueMoves
  <1>2. ApartOf(Q', QLen - 1, taken) BY <1>1, SrqFacts, ApartGone DEF Apart
  <1>3. Apart' BY <1>1, <1>2 DEF Apart
  <1>4. Busy' = BusyOf(Q', QLen - 1, taken) BY <1>1 DEF Busy
  <1>5. CASE Q[k].send /\ UNCHANGED srqVars
    <2>1. Busy' = Busy BY <1>1, <1>4, <1>5, SrqFacts, BusyGone DEF Busy, Apart
    <2> QED BY <1>3, <1>5, <2>1, ChainMoves, SrqNextIs
  <1>6. CASE ~Q[k].send /\ FreeSrqWqe(Q[k].wqe) /\ Q[k].wqe \in SrqIndex
    <2>2. Q[k].wqe \in Busy /\ Busy' = Busy \ {Q[k].wqe}
      BY <1>1, <1>4, <1>6, SrqFacts, BusyGone DEF Busy, Apart
    <2> QED BY <1>3, <1>6, <2>2, SrqFreed, SrqNextIs
  <1> QED BY <1>5, <1>6

-----------------------------------------------------------------------------
(* The invariant, step by step.                                            *)

LEMMA Together ==
  ASSUME Core', Types', Jobs', SrqInv'
  PROVE  IInv'
  BY DEF IInv, Core

LEMMA StutterKeeps ==
  ASSUME IInv, UNCHANGED vars
  PROVE  IInv'
  <1>1. UNCHANGED <<sqVars, srqVars, cqVars, taken, seen, reported, table, state, lock, jobVars, due>>
    BY DEF vars, pollVars, qpVars
  <1>2. UNCHANGED <<nreq, cons, ci, size, sweep, target, oldRing>>
    BY <1>1 DEF sqVars, cqVars, jobVars
  <1>3. Core' /\ Same /\ Span' = Span BY <1>1, QuietCore
  <1>4. SrqTypes' BY <1>1, StateFacts, SrqTypesStay
  <1>5. OtherTypes' BY <1>1, <1>2, StateFacts DEF OtherTypes
  <1>6. Span \in Nat BY Base
  <1>7. Span' \in Nat /\ Span' >= Span BY <1>3, <1>6
  <1>8. Jobs' BY <1>1, <1>2, <1>7, StateFacts, JobsKeep
  <1>9. Types' BY <1>3, <1>4, <1>5, TypesNext DEF Core
  <1>10. SrqInv' BY <1>1, <1>3, SrqStays
  <1> QED BY <1>3, <1>8, <1>9, <1>10, Together

LEMMA QpSteps ==
  ASSUME IInv, NEW q \in QPs,
         \/ \E sig \in BOOLEAN : PostSend(q, sig)
         \/ EndPost(q) \/ ExecuteSend(q) \/ Receive(q) \/ Break(q)
         \/ DestroyQp(q) \/ CleanScan(q) \/ CreateQp(q)
  PROVE  IInv'
  <1>1. ASSUME NEW sig \in BOOLEAN, PostSend(q, sig) PROVE IInv'
    <2>1. Core' /\ Same BY <1>1, PostSendCore
    <2>2. UNCHANGED <<srqVars, taken>> BY <1>1 DEF PostSend, pollVars
    <2>3. Types' /\ Jobs' BY <1>1, PostSendTypes
    <2> QED BY <2>1, <2>2, <2>3, SrqStays, Together
  <1>2. ASSUME EndPost(q) PROVE IInv'
    <2>1. Core' /\ Same BY <1>2, EndPostCore
    <2>2. UNCHANGED <<srqVars, taken>> BY <1>2 DEF EndPost, pollVars
    <2> QED BY <1>2, <2>1, <2>2, EndPostTypes, SrqStays, Together
  <1>3. ASSUME ExecuteSend(q) PROVE IInv'
    <2>1. Core' /\ (Same \/ \E c \in Completions : Pushed(c) /\ c.send) BY <1>3, ExecuteCore
    <2>2. UNCHANGED <<srqVars, taken>> BY <1>3 DEF ExecuteSend, pollVars
    <2>3. SrqInv' BY <2>1, <2>2, SrqStays, SrqSendPushed
    <2> QED BY <1>3, <2>1, <2>3, ExecuteTypes, Together
  <1>4. ASSUME Receive(q) PROVE IInv'
    <2>1. Core' /\ \E c \in Completions : Pushed(c) /\ ~c.send /\ c.wqe = hwSrq BY <1>4, ReceiveCore
    <2>2. taken' = taken /\ TakeSrqWqe BY <1>4 DEF Receive, pollVars
    <2>3. SrqInv' BY <2>1, <2>2, SrqRecvPushed
    <2> QED BY <1>4, <2>1, <2>3, ReceiveTypes, Together
  <1>5. ASSUME Break(q) PROVE IInv' BY <1>5, BreakTypes, SrqStays, Together
  <1>6. ASSUME DestroyQp(q) PROVE IInv' BY <1>6, DestroyTypes, SrqStays, Together
  <1>7. ASSUME CleanScan(q) PROVE IInv'
    <2>1. UNCHANGED <<srqVars, taken>> /\ q \in table BY <1>7 DEF CleanScan, pollVars
    <2>2. Core' /\ Same BY <1>7, <2>1, CleanScanCore
    <2> QED BY <1>7, <2>1, <2>2, CleanScanTypes, SrqStays, Together
  <1>8. ASSUME CreateQp(q) PROVE IInv'
    <2>1. Core' /\ Same BY <1>8, CreateCore
    <2>2. UNCHANGED <<srqVars, taken>> BY <1>8 DEF CreateQp, pollVars
    <2> QED BY <1>8, <2>1, <2>2, CreateTypes, SrqStays, Together
  <1> QED BY <1>1, <1>2, <1>3, <1>4, <1>5, <1>6, <1>7, <1>8

LEMMA NextKeeps ==
  ASSUME IInv, [Next]_vars
  PROVE  IInv'
  <1>1. CASE UNCHANGED vars BY <1>1, StutterKeeps
  <1>2. ASSUME NEW q \in QPs,
               \/ \E sig \in BOOLEAN : PostSend(q, sig)
               \/ EndPost(q) \/ ExecuteSend(q) \/ Receive(q) \/ Break(q)
               \/ DestroyQp(q) \/ CleanScan(q) \/ CreateQp(q)
        PROVE  IInv'
    BY <1>2, QpSteps
  <1>3. CASE PostRecv
    <2>1. Core' /\ Same BY <1>3, PostRecvCore
    <2>2. taken' = taken /\ PostSrqRecv BY <1>3 DEF PostRecv, pollVars
    <2> QED BY <1>3, <2>1, <2>2, PostRecvTypes, SrqPosts, Together
  <1>4. CASE TakeCqe
    <2>1. Core' /\ Gone(1) /\ taken = None /\ taken' = Q[1] /\ Q[1] \in Completions BY <1>4, TakeCore
    <2>2. UNCHANGED srqVars BY <1>4 DEF TakeCqe
    <2> QED BY <1>4, <2>1, <2>2, TakeTypes, SrqTaken, Together
  <1>5. CASE ReportSend
    <2>1. Core' /\ Same /\ taken' = None BY <1>5, ReportSendCore
    <2>2. UNCHANGED srqVars /\ taken # None /\ taken.send BY <1>5 DEF ReportSend
    <2> QED BY <1>5, <2>1, <2>2, ReportSendTypes, SrqReported, Together
  <1>6. CASE ReportRecv
    <2>1. Core' /\ Same /\ taken' = None BY <1>6, ReportRecvCore
    <2>2. taken # None /\ ~taken.send /\ FreeSrqWqe(taken.wqe) BY <1>6 DEF ReportRecv
    <2> QED BY <1>6, <2>1, <2>2, ReportRecvTypes, SrqReported, Together
  <1>7. CASE EndPoll
    <2>1. Core' /\ Same BY <1>7, EndPollCore
    <2>2. UNCHANGED <<srqVars, taken>> BY <1>7 DEF EndPoll
    <2> QED BY <1>7, <2>1, <2>2, EndPollTypes, SrqStays, Together
  <1>8. CASE SweepEntry
    <2>1. Core' BY <1>8, SweepCore
    <2>2. taken' = taken BY <1>8 DEF SweepEntry, pollVars
    <2>3. \/ Same /\ UNCHANGED srqVars
          \/ Gone(sweep.left) /\ Q[sweep.left].send /\ UNCHANGED srqVars
          \/ /\ Gone(sweep.left) /\ ~Q[sweep.left].send
             /\ FreeSrqWqe(Q[sweep.left].wqe) /\ Q[sweep.left].wqe \in SrqIndex
      <3>1. PICK c \in Completions :
                \/ Same /\ UNCHANGED srqVars
                \/ Gone(sweep.left) /\ Q[sweep.left] = c /\ c.send /\ UNCHANGED srqVars
                \/ Gone(sweep.left) /\ Q[sweep.left] = c /\ ~c.send /\ FreeSrqWqe(c.wqe) /\ c.wqe \in SrqIndex
        BY <1>8, SweepCore
      <3> QED BY <3>1
    <2>4. SrqInv' BY <2>2, <2>3, SrqStays, SrqSwept
    <2> QED BY <1>8, <2>1, <2>4, SweepTypes, Together
  <1>9. CASE CleanEnd
    <2>1. Core' /\ Same BY <1>9, CleanEndCore
    <2>2. UNCHANGED <<srqVars, taken>> BY <1>9 DEF CleanEnd, pollVars
    <2> QED BY <1>9, <2>1, <2>2, CleanEndTypes, SrqStays, Together
  <1>10. ASSUME NEW s \in CqSizes, ResizeCq(s) PROVE IInv'
    <2>1. Core' /\ Same BY <1>10, ResizeCore
    <2>2. UNCHANGED <<srqVars, taken>> BY <1>10 DEF ResizeCq, pollVars
    <2> QED BY <1>10, <2>1, <2>2, ResizeTypes, SrqStays, Together
  <1>11. CASE ResizeCommand
    <2>1. Core' /\ Same BY <1>11, CommandCore
    <2>2. UNCHANGED <<srqVars, taken>> BY <1>11 DEF ResizeCommand, pollVars
    <2> QED BY <1>11, <2>1, <2>2, CommandTypes, SrqStays, Together
  <1>12. CASE ResizeCopy
    <2>1. Core' /\ Same BY <1>12, CopyCore
    <2>2. UNCHANGED <<srqVars, taken>> BY <1>12 DEF ResizeCopy, pollVars
    <2> QED BY <1>12, <2>1, <2>2, CopyTypes, SrqStays, Together
  <1> QED BY <1>1, <1>2, <1>3, <1>4, <1>5, <1>6, <1>7, <1>8, <1>9, <1>10, <1>11, <1>12 DEF Next

-----------------------------------------------------------------------------
(* The invariant at first.                                                 *)

LEMMA NoDistance ==
  ASSUME NEW M \in Nat \ {0}, NEW x \in Int
  PROVE  (x - x) % M = 0
  <1>1. x - x = 0 /\ 0 \in 0..M-1 OBVIOUS
  <1> QED BY <1>1, RemSmall

LEMMA InitNumbers ==
  ASSUME Init
  PROVE  /\ size \in CqSizes /\ size \in Nat /\ size >= 2 /\ cons \in 0..CqMod-1 /\ cons \in Int
         /\ Span = 0 /\ QLen = 0 /\ Posted = 0 /\ TK = 0 /\ taken = None
         /\ 1..QLen = {} /\ Dist(Start, Start) = 0
         /\ \A q : TS(q) = 0 /\ Sends(q) = {}
  <1>1. /\ CqMod \in Nat \ {0} /\ IndexMod \in Nat \ {0} /\ RecvMod \in Nat \ {0}
        /\ CqStart \in Int /\ Start \in Int /\ FirstSize \in CqSizes /\ CqStart \in 0..CqMod-1
    BY CompletionQueueAssumption, SendQueueAssumption, SharedReceiveQueueAssumption
  <1>2. size \in CqSizes /\ cons = CqStart /\ prod = CqStart /\ taken = None /\ oldRing = None /\ lock = None
        /\ srqCounter = 0 /\ hwTaken = 0
    BY <1>1 DEF Init, SrqInit
  <1>3. size \in Nat /\ size >= 2 BY <1>2, SizeFacts
  <1>4. Span = 0 BY <1>1, <1>2, NoDistance DEF Span
  <1>5. Posted = 0 BY <1>1, <1>2, NoDistance DEF Posted
  <1>6. Dist(Start, Start) = 0 BY <1>1, NoDistance DEF Dist
  <1>7. QLen = 0 BY <1>2, <1>4, LockNames DEF QLen, Dropped
  <1>8. 1..QLen = {} BY <1>7
  <1>9. TK = 0 BY <1>2 DEF TK
  <1>10. ASSUME NEW q PROVE TS(q) = 0 /\ Sends(q) = {} BY <1>2, <1>8 DEF TS, Sends
  <1> QED BY <1>1, <1>2, <1>3, <1>4, <1>5, <1>6, <1>7, <1>8, <1>9, <1>10

LEMMA InitTypes ==
  ASSUME Init
  PROVE  Types /\ Jobs /\ Bits
  <1>1. Holds(EmptyRing(CqStart, FirstSize), FirstSize, CqStart, 0)
        /\ EmptyRing(CqStart, FirstSize) \in [0..FirstSize-1 -> Cell]
    <2>1. CqStart \in Int /\ FirstSize \in CqSizes BY CompletionQueueAssumption
    <2> QED BY <2>1, HoldsEmpty
  <1>2. RingTypes BY <1>1, InitNumbers, CompletionQueueAssumption DEF Init, RingTypes
  <1>3. Bits BY <1>1, InitNumbers DEF Init, Bits
  <1>4. SqTypes
    <2>1. Start \in Index /\ Stamped \in Entry BY SendQueueAssumption DEF Index, Entry
    <2> QED BY <2>1 DEF Init, SqInit, SqTypes
  <1>5. SrqTypes
    <2>1. SrqSize \in Nat \ {0} /\ RecvMod \in Nat \ {0} BY SharedReceiveQueueAssumption
    <2>2. \A i \in SrqIndex : (i + 1) % SrqSize \in SrqIndex
      <3> SUFFICES ASSUME NEW i \in SrqIndex PROVE (i + 1) % SrqSize \in SrqIndex
        OBVIOUS
      <3>1. i + 1 \in Int BY <2>1 DEF SrqIndex
      <3> QED BY <2>1, <3>1, DivRem DEF SrqIndex
    <2>3. 0 \in SrqIndex /\ SrqSize - 1 \in SrqIndex /\ 0 \in 0..RecvMod-1 BY <2>1 DEF SrqIndex
    <2> QED BY <2>2, <2>3 DEF Init, SrqInit, SrqTypes
  <1>6. OtherTypes BY CompletionQueueAssumption DEF Init, OtherTypes
  <1>7. Types BY <1>2, <1>4, <1>5, <1>6, TypesAre
  <1>8. nreq \in [QPs -> Nat] /\ \A q \in QPs : nreq[q] = 0 BY DEF Init, SqInit
  <1>9. Jobs BY <1>8, LockNames DEF Init, Jobs
  <1> QED BY <1>3, <1>7, <1>9

LEMMA InitSends ==
  ASSUME Init
  PROVE  SendInv /\ EntriesIntact
  <1>1. SqMax \in Nat /\ Dist(Start, Start) = 0 BY SqConsts, InitNumbers
  <1>2. ASSUME NEW q \in QPs PROVE Counters(q) /\ Numbers(q) /\ Window(q)
    <2>1. sqTail[q] = Start /\ sqHead[q] = Start /\ hwSq[q] = Start /\ nreq[q] = 0
      BY DEF Init, SqInit
    <2>2. Counters(q) BY <1>1, <2>1 DEF Counters
    <2>3. Numbers(q) BY <1>1, <2>1 DEF Numbers
    <2>4. Window(q) BY <1>1, <2>1, InitNumbers DEF Window
    <2> QED BY <2>2, <2>3, <2>4
  <1>3. ASSUME NEW q \in QPs PROVE Intact(q)
    <2>1. sqHead[q] = Start /\ hwSq[q] = Start /\ nreq[q] = 0 BY DEF Init, SqInit
    <2> QED BY <1>1, <2>1, SendQueueAssumption DEF Intact, Index
  <1> QED BY <1>2, <1>3, IntactIs DEF SendInv

LEMMA InitAccount ==
  ASSUME Init
  PROVE  Account /\ Lag
  <1>1. \A q \in QPs : Slack(q) = 0
    <2> SUFFICES ASSUME NEW q \in QPs PROVE Slack(q) = 0
      OBVIOUS
    <2>1. sqTail[q] = Start /\ sqHead[q] = Start /\ nreq[q] = 0 BY DEF Init, SqInit
    <2>2. Cardinality(Sends(q)) = 0 BY InitNumbers, FS_EmptySet
    <2> QED BY <2>1, <2>2, InitNumbers DEF Slack
  <1>2. Slacks \in [QPs -> Int] /\ \A q \in QPs : Slacks[q] = 0 BY <1>1 DEF Slacks
  <1>3. SumFunctionOnSet(Slacks, QPs) = 0 BY <1>2, CompletionQueueAssumption, SumOfZeros
  <1>4. due = 0 /\ seen = 0 /\ target = None /\ lock = None BY DEF Init
  <1>5. Capacity = size BY <1>4 DEF Capacity
  <1>6. Account BY <1>3, <1>4, <1>5, InitNumbers, LockNames DEF Account
  <1> QED BY <1>4, <1>6, LockNames DEF Lag

LEMMA InitSrq ==
  ASSUME Init
  PROVE  SrqInv
  <1>1. Busy = {} /\ Apart
    BY InitNumbers DEF Busy, BusyOf, RecvsOf, Recv, Apart, ApartOf
  <1>2. \E n : \E p : Chained(srqNext, 0, SrqSize - 1, 0, 0, p, n, {})
    BY ChainStarts DEF Init, SrqInit
  <1>3. Linked BY <1>1, <1>2, InitNumbers DEF Linked, Init, SrqInit
  <1> QED BY <1>1, <1>3, SrqIs

LEMMA InitHolds ==
  ASSUME Init
  PROVE  IInv
  <1>1. Contents BY InitNumbers, LockNames DEF Init, Contents, Held, Swept, Looked
  <1> QED BY <1>1, InitTypes, InitSends, InitAccount, InitSrq DEF IInv

(* Induction along an interval, for a set of good numbers.                 *)
LEMMA IntervalInduction ==
  ASSUME NEW N \in Nat, NEW Good, 0 \in Good,
         \A k \in 0..N-1 : k \in Good => k + 1 \in Good
  PROVE  \A k \in 0..N : k \in Good
  <1> DEFINE Bad == {k \in 0..N : k \notin Good}
             R == OpToRel(<, Nat)
  <1>1. SUFFICES ASSUME Bad # {} PROVE FALSE OBVIOUS
  <1>2. Bad \subseteq Nat OBVIOUS
  <1>3. IsWellFoundedOn(R, Nat) BY NatLessThanWellFounded
  <1>r. \A x \in Nat, y \in Nat : x < y => <<x, y>> \in R BY DEF OpToRel
  <1>4. PICK m \in Bad : \A k \in Bad : <<k, m>> \notin R
    <2> HIDE DEF Bad, R
    <2> QED BY ONLY <1>1, <1>2, <1>3, WFMin
  <1> HIDE DEF R
  <1>5. m # 0 BY <1>4
  <1>6. m - 1 \in 0..N-1 /\ m - 1 \in 0..N /\ m - 1 < m /\ m - 1 \in Nat /\ m \in Nat BY <1>4, <1>5
  <1>7. m - 1 \in Good
    <2>1. <<m - 1, m>> \in R BY <1>r, <1>6
    <2>2. m - 1 \notin Bad
      <3> HIDE DEF Bad
      <3> QED BY <1>4, <2>1
    <2> QED BY <1>6, <2>2
  <1>8. (m - 1) + 1 \in Good BY <1>6, <1>7
  <1> QED BY <1>4, <1>6, <1>8

(* Following the links is the recursion it looks like.                     *)
LEMMA FollowExists ==
  ASSUME NEW next \in [SrqIndex -> SrqIndex], NEW x \in SrqIndex
  PROVE  \E f : f = [k \in 0..SrqSize |-> IF k = 0 THEN x ELSE next[f[k - 1]]]
  <1> DEFINE Steps(g, m) == /\ g \in [0..m -> SrqIndex] /\ g[0] = x
                            /\ \A k \in 1..m : g[k] = next[g[k - 1]]
             Good == {m \in Nat : \E g : Steps(g, m)}
  <1>1. 0 \in Good
    <2>1. Steps([k \in 0..0 |-> x], 0) OBVIOUS
    <2> QED BY <2>1
  <1>2. ASSUME NEW m \in Nat, m \in Good PROVE m + 1 \in Good
    <2>1. PICK g : Steps(g, m) BY <1>2
    <2> DEFINE h == [k \in 0..m+1 |-> IF k = m + 1 THEN next[g[m]] ELSE g[k]]
    <2>2. h \in [0..m+1 -> SrqIndex]
      <3>1. \A k \in 0..m+1 : k = m + 1 \/ k \in 0..m OBVIOUS
      <3>2. g[m] \in SrqIndex BY <2>1
      <3> QED BY <2>1, <3>1, <3>2
    <2>3. h[0] = x BY <2>1
    <2>4. ASSUME NEW k \in 1..m+1 PROVE h[k] = next[h[k - 1]]
      <3>1. k - 1 \in 0..m+1 /\ k - 1 # m + 1 /\ k \in 0..m+1 BY <2>4
      <3>2. h[k - 1] = g[k - 1] BY <3>1
      <3>3. CASE k = m + 1 BY <3>1, <3>2, <3>3
      <3>4. CASE k # m + 1
        <4>1. k \in 1..m BY <3>4
        <4> QED BY <2>1, <3>1, <3>2, <3>4, <4>1
      <3> QED BY <3>3, <3>4
    <2> HIDE DEF h
    <2>5. Steps(h, m + 1) BY <2>2, <2>3, <2>4
    <2> QED BY <2>5
  <1>3. SrqSize \in Nat BY SharedReceiveQueueAssumption
  <1>4. \A k \in 0..SrqSize : k \in Good
    <2>1. \A k \in 0..SrqSize-1 : k \in Good => k + 1 \in Good BY <1>2, <1>3
    <2> HIDE DEF Good
    <2> QED BY <1>1, <1>3, <2>1, IntervalInduction
  <1>5. SrqSize \in 0..SrqSize BY <1>3
  <1>6. PICK g : Steps(g, SrqSize) BY <1>4, <1>5
  <1>7. g = [k \in 0..SrqSize |-> IF k = 0 THEN x ELSE next[g[k - 1]]]
    <2>1. \A k \in 0..SrqSize : g[k] = IF k = 0 THEN x ELSE next[g[k - 1]] BY <1>3, <1>6
    <2>2. g = [k \in 0..SrqSize |-> g[k]] BY <1>6
    <2> QED BY <2>1, <2>2
  <1> QED BY <1>7

LEMMA FollowSteps ==
  ASSUME srqNext \in [SrqIndex -> SrqIndex], NEW x \in SrqIndex
  PROVE  /\ Follow(x, 0) = x
         /\ \A k \in 1..SrqSize : Follow(x, k) = srqNext[Follow(x, k - 1)]
  <1> DEFINE c == CHOOSE f : f = [k \in 0..SrqSize |-> IF k = 0 THEN x ELSE srqNext[f[k - 1]]]
  <1>1. \E f : f = [k \in 0..SrqSize |-> IF k = 0 THEN x ELSE srqNext[f[k - 1]]]
    BY FollowExists
  <1>2. c = [k \in 0..SrqSize |-> IF k = 0 THEN x ELSE srqNext[c[k - 1]]] BY <1>1
  <1>3. \A k : Follow(x, k) = c[k] BY DEF Follow
  <1> HIDE DEF c
  <1>4. SrqSize \in Nat BY SharedReceiveQueueAssumption
  <1>5. 0 \in 0..SrqSize /\ \A k \in 1..SrqSize : k \in 0..SrqSize /\ k # 0 BY <1>4
  <1>6. c[0] = x BY <1>2, <1>5
  <1>7. \A k \in 1..SrqSize : c[k] = srqNext[c[k - 1]] BY <1>2, <1>5
  <1> QED BY <1>3, <1>6, <1>7

LEMMA FollowPath ==
  ASSUME srqNext \in [SrqIndex -> SrqIndex], NEW n \in 1..SrqSize, NEW p \in [0..n-1 -> SrqIndex],
         \A i \in 0..n-2 : srqNext[p[i]] = p[i + 1], NEW a \in 0..n-1
  PROVE  \A k \in 0..n-1-a : Follow(p[a], k) = p[a + k]
  <1>1. SrqSize \in Nat BY SharedReceiveQueueAssumption
  <1> DEFINE N == n - 1 - a
             Good == {k \in 0..N : Follow(p[a], k) = p[a + k]}
  <1>2. N \in Nat /\ n \in Nat /\ a \in Nat BY <1>1
  <1>3. p[a] \in SrqIndex OBVIOUS
  <1>4. 0 \in Good
    <2>1. Follow(p[a], 0) = p[a] BY <1>3, FollowSteps
    <2>2. a + 0 = a /\ 0 \in 0..N BY <1>2
    <2> QED BY <2>1, <2>2
  <1>5. ASSUME NEW k \in 0..N-1, k \in Good PROVE k + 1 \in Good
    <2>1. k + 1 \in 1..SrqSize /\ (k + 1) - 1 = k /\ k + 1 \in 0..N BY <1>1, <1>2
    <2>2. Follow(p[a], k + 1) = srqNext[Follow(p[a], k)]
      <3>1. Follow(p[a], k + 1) = srqNext[Follow(p[a], (k + 1) - 1)]
        BY <1>3, <2>1, FollowSteps
      <3> QED BY <2>1, <3>1
    <2>3. a + k \in 0..n-2 /\ (a + k) + 1 = a + (k + 1) BY <1>2
    <2>4. srqNext[p[a + k]] = p[(a + k) + 1] BY <2>3
    <2>5. Follow(p[a], k) = p[a + k] BY <1>5
    <2>6. Follow(p[a], k + 1) = p[a + (k + 1)] BY <2>2, <2>3, <2>4, <2>5
    <2> QED BY <2>1, <2>6
  <1>6. \A k \in 0..N : k \in Good
    <2> HIDE DEF Good, N
    <2> QED BY <1>2, <1>4, <1>5, IntervalInduction
  <1> QED BY <1>6

(* What the adapter's ring and the old one hold is what software has yet to poll. *)
LEMMA InRingIs ==
  ASSUME IInv
  PROVE  /\ \A k \in Live : InRing(k) = ResizeMark \/ \E i \in 1..QLen : InRing(k) = Q[i]
         /\ \A i \in 1..QLen : \E k \in Live : InRing(k) = Q[i]
  <1>0. RingInv /\ RingTypes /\ QLen \in Nat /\ Span \in Nat BY Base DEF RingInv
  <1>1. size \in CqSizes /\ cons \in Int /\ size \in Nat \ {0} BY <1>0, SpanFacts DEF RingTypes
  <1>2. \A k \in Int : ring[CqIndex(cons + k) % size].cqe = Cqe(ring, size, cons + k)
    BY <1>1, PlaceWraps DEF Cqe
  <1>3. CASE lock # "clean" /\ oldRing = None
    <2>1. QLen = Span /\ \A i \in 1..QLen : Q[i] = Cqe(ring, size, cons + (i - 1))
      BY <1>0, <1>3, QPlain
    <2>2. Live = 0..Span-1 BY <1>3 DEF Live
    <2>3. \A k \in Int : InRing(k) = Cqe(ring, size, cons + k) BY <1>2, <1>3 DEF InRing
    <2>4. ASSUME NEW k \in Live PROVE \E i \in 1..QLen : InRing(k) = Q[i]
      <3>1. k \in Int /\ k + 1 \in 1..QLen /\ (k + 1) - 1 = k BY <1>0, <2>1, <2>2
      <3>2. Q[k + 1] = Cqe(ring, size, cons + k) BY <2>1, <3>1
      <3> QED BY <2>3, <3>1, <3>2
    <2>5. ASSUME NEW i \in 1..QLen PROVE \E k \in Live : InRing(k) = Q[i]
      <3>1. i - 1 \in Int /\ i - 1 \in Live BY <1>0, <2>1, <2>2
      <3> QED BY <2>1, <2>3, <3>1
    <2> QED BY <2>4, <2>5
  <1>4. CASE lock = "clean"
    <2>1. /\ oldRing = None /\ QLen = Span - sweep.freed
          /\ sweep.freed \in Nat /\ sweep.left \in Nat /\ sweep.left <= QLen
          /\ \A i \in 1..QLen :
                Q[i] = Cqe(ring, size, cons + ((i - 1) + (IF i <= sweep.left THEN 0 ELSE sweep.freed)))
      BY <1>0, <1>4, QClean
    <2>2. Live = {k \in 0..Span-1 : k < sweep.left \/ k >= sweep.left + sweep.freed}
      BY <1>4 DEF Live
    <2>3. \A k \in Int : InRing(k) = Cqe(ring, size, cons + k) BY <1>2, <2>1 DEF InRing
    <2>4. ASSUME NEW k \in Live PROVE \E i \in 1..QLen : InRing(k) = Q[i]
      <3>0. k \in Int /\ k \in 0..Span-1 BY <1>0, <2>2
      <3>1. CASE k < sweep.left
        <4>1. k + 1 \in 1..QLen /\ k + 1 <= sweep.left /\ ((k + 1) - 1) + 0 = k BY <2>1, <3>0, <3>1
        <4>2. Q[k + 1] = Cqe(ring, size, cons + (((k + 1) - 1) + 0)) BY <2>1, <4>1
        <4> QED BY <2>3, <3>0, <4>1, <4>2
      <3>2. CASE ~(k < sweep.left)
        <4> DEFINE i == k - sweep.freed + 1
        <4>0. k >= sweep.left + sweep.freed BY <2>2, <3>2
        <4>1. i \in 1..QLen /\ ~(i <= sweep.left) /\ (i - 1) + sweep.freed = k
          BY <1>0, <2>1, <3>0, <4>0
        <4> HIDE DEF i
        <4>2. Q[i] = Cqe(ring, size, cons + ((i - 1) + sweep.freed)) BY <2>1, <4>1
        <4> QED BY <2>3, <3>0, <4>1, <4>2
      <3> QED BY <3>1, <3>2
    <2>5. ASSUME NEW i \in 1..QLen PROVE \E k \in Live : InRing(k) = Q[i]
      <3> DEFINE k == (i - 1) + (IF i <= sweep.left THEN 0 ELSE sweep.freed)
      <3>1. k \in 0..Span-1 /\ k \in Int /\ (k < sweep.left \/ k >= sweep.left + sweep.freed)
        BY <1>0, <2>1
      <3>2. Q[i] = Cqe(ring, size, cons + k) BY <2>1
      <3> HIDE DEF k
      <3>3. k \in Live BY <2>2, <3>1
      <3> QED BY <2>3, <3>1, <3>2, <3>3
    <2> QED BY <2>4, <2>5
  <1>5. CASE oldRing # None
    <2>1. /\ QLen = Span - 1 /\ lock = "resize"
          /\ Outstanding \in 0..QLen /\ Outstanding \in Nat
          /\ \A i \in 1..QLen :
                Q[i] = IF i <= Outstanding THEN Cqe(oldRing.ring, oldRing.size, cons + (i - 1))
                                           ELSE Cqe(ring, size, cons + i)
          /\ \A k \in Int : OldCqe(k) = Cqe(oldRing.ring, oldRing.size, cons + k)
      BY <1>0, <1>5, QResized
    <2>2. Live = 0..Span-1 BY <2>1, LockNames DEF Live
    <2>3. \A k \in Int : InRing(k) = IF k <= Outstanding THEN Cqe(oldRing.ring, oldRing.size, cons + k)
                                                         ELSE Cqe(ring, size, cons + k)
      BY <1>2, <1>5, <2>1 DEF InRing
    <2>4. InRing(Outstanding) = ResizeMark
      <3>1. OldCqe(Outstanding) = ResizeMark BY <1>0, <1>5 DEF RingInv, Bits, MarkedAt
      <3> QED BY <1>5, <2>1, <3>1 DEF InRing
    <2>5. ASSUME NEW k \in Live PROVE InRing(k) = ResizeMark \/ \E i \in 1..QLen : InRing(k) = Q[i]
      <3>0. k \in Int /\ k \in 0..Span-1 BY <1>0, <2>2
      <3>1. CASE k = Outstanding BY <2>4, <3>1
      <3>2. CASE k < Outstanding
        <4>1. k + 1 \in 1..QLen /\ k + 1 <= Outstanding /\ (k + 1) - 1 = k BY <2>1, <3>0, <3>2
        <4>2. Q[k + 1] = Cqe(oldRing.ring, oldRing.size, cons + k) BY <2>1, <4>1
        <4>3. InRing(k) = Cqe(oldRing.ring, oldRing.size, cons + k) BY <2>1, <2>3, <3>0, <3>2
        <4> QED BY <4>1, <4>2, <4>3
      <3>3. CASE k > Outstanding
        <4>1. k \in 1..QLen /\ ~(k <= Outstanding) BY <1>0, <2>1, <3>0, <3>3
        <4>2. Q[k] = Cqe(ring, size, cons + k) BY <2>1, <4>1
        <4>3. InRing(k) = Cqe(ring, size, cons + k) BY <2>3, <3>0, <4>1
        <4> QED BY <4>1, <4>2, <4>3
      <3> QED BY <2>1, <3>0, <3>1, <3>2, <3>3
    <2>6. ASSUME NEW i \in 1..QLen PROVE \E k \in Live : InRing(k) = Q[i]
      <3>1. CASE i <= Outstanding
        <4>1. i - 1 \in Live /\ i - 1 \in Int /\ i - 1 <= Outstanding BY <1>0, <2>1, <2>2, <3>1
        <4>2. Q[i] = Cqe(oldRing.ring, oldRing.size, cons + (i - 1)) BY <2>1, <3>1
        <4>3. InRing(i - 1) = Cqe(oldRing.ring, oldRing.size, cons + (i - 1)) BY <2>3, <4>1
        <4> QED BY <4>1, <4>2, <4>3
      <3>2. CASE ~(i <= Outstanding)
        <4>1. i \in Live /\ i \in Int BY <1>0, <2>1, <2>2
        <4>2. Q[i] = Cqe(ring, size, cons + i) BY <2>1, <3>2
        <4>3. InRing(i) = Cqe(ring, size, cons + i) BY <2>3, <3>2, <4>1
        <4> QED BY <4>1, <4>2, <4>3
      <3> QED BY <3>1, <3>2
    <2> QED BY <2>5, <2>6
  <1> QED BY <1>3, <1>4, <1>5

LEMMA CompletionIs ==
  ASSUME NEW c \in Completions
  PROVE  c # None /\ c # ResizeMark
  <1>1. c # None BY NoneAssumption
  <1>2. c.qp \in QPs /\ ResizeMark.qp = None BY DEF Completions, ResizeMark
  <1>3. None \notin QPs BY NoneAssumption
  <1> QED BY <1>1, <1>2, <1>3

LEMMA BusyIs ==
  ASSUME IInv
  PROVE  {c.wqe : c \in {d \in Unpolled : ~d.send}} = Busy
  <1>1. \A i \in 1..QLen : GoodCqe(Q[i], table) BY Base DEF Held
  <1>2. taken \in Completions \cup {None} BY StateFacts DEF OtherTypes
  <1>3. \A i \in 1..QLen : Q[i] \in Completions BY <1>1 DEF GoodCqe
  <1>4. \A c : c \in Unpolled <=> \/ (\E k \in Live : c = InRing(k) \/ c = taken) /\ c # None /\ c # ResizeMark
                                  \/ c = taken /\ c # None /\ c # ResizeMark
    BY DEF Unpolled
  <1>5. \A c : c \in Unpolled <=> (\E i \in 1..QLen : c = Q[i]) \/ (c = taken /\ c # None)
    <2>1. ASSUME NEW c, c \in Unpolled PROVE (\E i \in 1..QLen : c = Q[i]) \/ (c = taken /\ c # None)
      BY <1>4, <2>1, InRingIs
    <2>2. ASSUME NEW i \in 1..QLen PROVE Q[i] \in Unpolled
      <3>1. Q[i] # None /\ Q[i] # ResizeMark BY <1>3, CompletionIs
      <3> QED BY <1>4, <3>1, InRingIs
    <2>3. ASSUME taken # None PROVE taken \in Unpolled
      <3>1. taken # ResizeMark BY <1>2, <2>3, CompletionIs
      <3> QED BY <1>4, <2>3, <3>1
    <2> QED BY <2>1, <2>2, <2>3
  <1>6. ASSUME NEW c \in Unpolled, ~c.send PROVE c.wqe \in Busy
    <2>1. CASE \E i \in 1..QLen : c = Q[i]
      <3>1. PICK i \in 1..QLen : c = Q[i] BY <2>1
      <3>2. c.wqe \in SrqIndex BY <1>1, <1>6, <3>1 DEF GoodCqe
      <3> QED BY <1>6, <3>1, <3>2 DEF Busy, BusyOf, RecvsOf
    <2>2. CASE c = taken /\ c # None
      <3>1. c.wqe \in SrqIndex BY <1>6, <2>2, Base DEF Looked
      <3> QED BY <1>6, <2>2, <3>1 DEF Busy, BusyOf, Recv
    <2> QED BY <1>5, <1>6, <2>1, <2>2
  <1>7. ASSUME NEW x \in Busy PROVE \E c \in Unpolled : ~c.send /\ c.wqe = x
    <2>1. CASE Recv(taken) /\ taken.wqe = x BY <1>5, <2>1 DEF Recv
    <2>2. CASE \E i \in RecvsOf(Q, QLen) : Q[i].wqe = x
      <3>1. PICK i \in 1..QLen : ~Q[i].send /\ Q[i].wqe = x BY <2>2 DEF RecvsOf
      <3>2. Q[i] \in Unpolled BY <1>5
      <3> QED BY <3>1, <3>2
    <2> QED BY <1>7, <2>1, <2>2 DEF Busy, BusyOf
  <1> QED BY <1>6, <1>7

(* The b entries of p from a on.                                           *)
Stretch(p, a, b) == {p[a + k] : k \in 0..b-1}
LEMMA Spots ==
  ASSUME NEW n \in Nat, NEW p, \A i, j \in 0..n-1 : p[i] = p[j] => i = j,
         NEW a \in Nat, NEW b \in Nat, a + b <= n
  PROVE  Cardinality(Stretch(p, a, b)) = b
  <1> DEFINE S == 0..b-1
             T == {p[a + k] : k \in S}
             f == [k \in S |-> p[a + k]]
  <1>1. IsFiniteSet(S) /\ Cardinality(S) = b
    <2>1. 0 \in Int /\ b - 1 \in Int OBVIOUS
    <2>2. IsFiniteSet(0..b-1) /\ Cardinality(0..b-1) = IF 0 > b - 1 THEN 0 ELSE (b - 1) - 0 + 1
      BY <2>1, FS_Interval
    <2> QED BY <2>2
  <1>2. f \in [S -> T] /\ \A y \in T : \E k \in S : f[k] = y OBVIOUS
  <1>3. \A i, j \in S : f[i] = f[j] => i = j
    <2> SUFFICES ASSUME NEW i \in S, NEW j \in S, f[i] = f[j] PROVE i = j OBVIOUS
    <2>1. a + i \in 0..n-1 /\ a + j \in 0..n-1 /\ p[a + i] = p[a + j] OBVIOUS
    <2>2. a + i = a + j BY <2>1
    <2> QED BY <2>2
  <1> HIDE DEF f, S, T
  <1>4. f \in Bijection(S, T)
    <2>1. f \in Injection(S, T) BY <1>2, <1>3 DEF Injection, IsInjective
    <2>2. f \in Surjection(S, T) BY <1>2 DEF Surjection
    <2> QED BY <2>1, <2>2 DEF Bijection
  <1>5. ExistsBijection(S, T) BY <1>4 DEF ExistsBijection
  <1>6. Cardinality(T) = Cardinality(S) BY <1>1, <1>5, FS_Bijection
  <1> QED BY <1>1, <1>6 DEF S, T, Stretch

LEMMA SharedHolds ==
  ASSUME IInv
  PROVE  SharedEntriesAccounted
  <1>1. PICK n, p : Chained(srqNext, hwSrq, srqTail, srqHead, Posted, p, n, Busy)
    BY SrqFacts DEF Linked
  <1>2. /\ n \in 1..SrqSize /\ p \in [0..n-1 -> SrqIndex]
        /\ \A i, j \in 0..n-1 : p[i] = p[j] => i = j
        /\ \A i \in 0..n-2 : srqNext[p[i]] = p[i + 1]
        /\ p[0] = hwSrq /\ p[n - 1] = srqTail /\ Posted < n /\ p[Posted] = srqHead
        /\ \A x \in SrqIndex : x \in On(p, n) <=> x \notin Busy
    BY <1>1 DEF Chained, ChainOf
  <1>3. SrqSize \in Nat /\ n \in Nat /\ n >= 1 /\ n <= SrqSize /\ Posted \in Nat
        /\ srqNext \in [SrqIndex -> SrqIndex]
    BY <1>2, SrqFacts, SharedReceiveQueueAssumption
  <1> DEFINE P == Posted
             M == n - Posted
  <1>4. P \in 0..n-1 /\ 0 \in 0..n-1 /\ P \in Nat /\ M \in Nat /\ M >= 1 /\ P + M = n BY <1>2, <1>3
  <1>5. \A k \in 0..n-1 : Follow(hwSrq, k) = p[k]
    <2> DEFINE z == 0
    <2>1. z \in 0..n-1 /\ p[z] = hwSrq BY <1>2, <1>4
    <2> HIDE DEF z
    <2>2. \A k \in 0..n-1-z : Follow(p[z], k) = p[z + k] BY <1>2, <1>3, <2>1, FollowPath
    <2> QED BY <1>3, <2>1, <2>2 DEF z
  <1>6. \A k \in 0..M-1 : Follow(srqHead, k) = p[P + k]
    <2> HIDE DEF P, M
    <2>1. P \in 0..n-1 /\ p[P] = srqHead BY <1>2, <1>4 DEF P
    <2>2. \A k \in 0..n-1-P : Follow(p[P], k) = p[P + k] BY <1>2, <1>3, <2>1, FollowPath
    <2>3. 0..M-1 = 0..n-1-P BY <1>3, <1>4 DEF M, P
    <2> QED BY <2>1, <2>2, <2>3
  <1>7. PostedEntries = {p[0 + k] : k \in 0..P-1}
    <2>1. \A k \in 0..P-1 : k \in 0..n-1 /\ 0 + k = k BY <1>3, <1>4
    <2>2. \A k \in 0..P-1 : Follow(hwSrq, k) = p[0 + k] BY <1>5, <2>1
    <2> QED BY <2>2 DEF PostedEntries
  <1>8. Cardinality(PostedEntries) = Posted
    <2> HIDE DEF P, M
    <2> DEFINE z == 0
    <2>1. z \in Nat /\ z + P <= n BY <1>2, <1>3 DEF P
    <2> HIDE DEF z
    <2>2. Cardinality(Stretch(p, z, P)) = P BY <1>2, <1>3, <1>4, <2>1, Spots
    <2>3. PostedEntries = Stretch(p, z, P) BY <1>7 DEF z, Stretch
    <2> QED BY <2>2, <2>3 DEF P
  <1>9. FreeLength = M
    <2>1. M - 1 \in 0..SrqSize-1 /\ M - 1 \in 0..M-1 /\ P + (M - 1) = n - 1 BY <1>3, <1>4
    <2>2. Follow(srqHead, M - 1) = srqTail BY <1>2, <1>6, <2>1
    <2>3. \A k \in 0..M-2 : Follow(srqHead, k) # srqTail
      <3> SUFFICES ASSUME NEW k \in 0..M-2 PROVE Follow(srqHead, k) # srqTail OBVIOUS
      <3>1. k \in 0..M-1 /\ P + k \in 0..n-1 /\ n - 1 \in 0..n-1 /\ P + k # n - 1 BY <1>3, <1>4
      <3>2. p[P + k] # p[n - 1] BY <1>2, <3>1
      <3> QED BY <1>2, <1>6, <3>1, <3>2
    <2> DEFINE First(k) == /\ Follow(srqHead, k) = srqTail
                           /\ \A m \in 0..k-1 : Follow(srqHead, m) # srqTail
    <2>4. First(M - 1)
      <3>1. \A m \in 0..(M-1)-1 : m \in 0..M-2 BY <1>4
      <3> QED BY <2>2, <2>3, <3>1
    <2>5. \A k \in 0..SrqSize-1 : First(k) => k = M - 1
      <3> SUFFICES ASSUME NEW k \in 0..SrqSize-1, First(k) PROVE k = M - 1 OBVIOUS
      <3>1. ~(k < M - 1)
        <4>1. k < M - 1 => k \in 0..M-2 BY <1>3, <1>4
        <4> QED BY <2>3, <4>1
      <3>2. ~(k > M - 1)
        <4>1. k > M - 1 => M - 1 \in 0..k-1 BY <1>3, <1>4
        <4> QED BY <2>2, <4>1
      <3> QED BY <1>3, <1>4, <3>1, <3>2
    <2>6. (CHOOSE k \in 0..SrqSize-1 : First(k)) = M - 1
      <3> HIDE DEF First, M
      <3> QED BY <2>1, <2>4, <2>5
    <2>7. FreeLength = 1 + (M - 1) BY <2>1, <2>2, <2>6 DEF FreeLength
    <2> QED BY <1>4, <2>7
  <1>10. FreeEntries = {p[P + k] : k \in 0..M-1} BY <1>6, <1>9 DEF FreeEntries
  <1>11. Cardinality(FreeEntries) = FreeLength
    <2>1. P \in Nat /\ M \in Nat /\ P + M <= n BY <1>3, <1>4
    <2> HIDE DEF P, M
    <2>2. Cardinality(Stretch(p, P, M)) = M BY <1>2, <1>3, <2>1, Spots
    <2>3. FreeEntries = Stretch(p, P, M) BY <1>10 DEF Stretch
    <2> QED BY <1>9, <2>2, <2>3
  <1>12. PostedEntries \cap FreeEntries = {}
    <2> SUFFICES ASSUME NEW i \in 0..P-1, NEW j \in 0..M-1 PROVE p[0 + i] # p[P + j]
      BY <1>7, <1>10
    <2>1. 0 + i \in 0..n-1 /\ P + j \in 0..n-1 /\ 0 + i # P + j BY <1>3, <1>4
    <2> QED BY <1>2, <2>1
  <1>13. PostedEntries \cup FreeEntries = On(p, n)
    <2>1. ASSUME NEW i \in 0..P-1 PROVE p[0 + i] \in On(p, n)
      <3>1. 0 + i \in 0..n-1 BY <1>3, <1>4
      <3> QED BY <3>1 DEF On
    <2>2. ASSUME NEW j \in 0..M-1 PROVE p[P + j] \in On(p, n)
      <3>1. P + j \in 0..n-1 BY <1>3, <1>4
      <3> QED BY <3>1 DEF On
    <2>3. ASSUME NEW i \in 0..n-1 PROVE p[i] \in PostedEntries \cup FreeEntries
      <3>1. CASE i < P
        <4>1. i \in 0..P-1 /\ 0 + i = i BY <1>4, <3>1
        <4> QED BY <1>7, <4>1
      <3>2. CASE ~(i < P)
        <4> DEFINE j == i - P
        <4>1. j \in 0..M-1 /\ P + j = i BY <1>3, <1>4, <3>2
        <4> HIDE DEF j, P, M
        <4> QED BY <1>10, <4>1
      <3> QED BY <3>1, <3>2
    <2> HIDE DEF P, M
    <2>4. PostedEntries \cup FreeEntries \subseteq On(p, n) BY <1>7, <1>10, <2>1, <2>2
    <2> QED BY <2>3, <2>4 DEF On
  <1>14. On(p, n) \subseteq SrqIndex /\ Busy \subseteq SrqIndex
    BY <1>2 DEF On, Busy, BusyOf
  <1>15. Busy \cap On(p, n) = {} /\ Busy \cup On(p, n) = SrqIndex BY <1>2, <1>14
  <1>16. Posted < SrqSize BY <1>2, <1>3
  <1>17. EntriesAccounted(Busy)
    BY <1>8, <1>11, <1>12, <1>13, <1>15, <1>16 DEF EntriesAccounted
  <1> QED BY <1>17, BusyIs DEF SharedEntriesAccounted

LEMMA RemSum ==
  ASSUME NEW M \in Nat \ {0}, NEW x \in Int, NEW y \in Int
  PROVE  (x + y) % M <= (x % M) + (y % M)
  <1> DEFINE u == x % M
             v == y % M
  <1>1. u \in Nat /\ v \in Nat /\ u \in Int /\ v \in Int BY DivRem
  <1>2. (u + y) % M = (x + y) % M BY RemAdd
  <1>3. (u + v) % M = (u + y) % M
    <2>1. (u + (y % M)) % M = (y + u) % M BY <1>1, RemAdd
    <2>2. y + u = u + y BY <1>1
    <2> QED BY <2>1, <2>2
  <1> HIDE DEF u, v
  <1>4. (u + v) % M <= u + v
    <2> DEFINE w == u + v
    <2>1. w \in Nat /\ w \in Int BY <1>1
    <2> HIDE DEF w
    <2>2. PICK d \in Int : w = d * M + (w % M) BY <2>1, DivRem
    <2>3. w % M \in 0..M-1 BY <2>1, DivRem
    <2>4. d >= 0
      <3>1. d <= -1 => d * M <= -M BY <2>2
      <3>2. M \in Int /\ d * M \in Int /\ w % M \in Int /\ w % M < M BY <2>2, <2>3
      <3> HIDE DEF w
      <3>3. d * M > -M BY <2>1, <2>2, <3>2
      <3> QED BY <2>2, <3>1, <3>2, <3>3
    <2>5. d * M >= 0 BY <2>2, <2>4
    <2>6. d * M \in Int BY <2>2
    <2>7. w % M <= w BY <2>1, <2>2, <2>3, <2>5, <2>6
    <2> QED BY <2>7 DEF w
  <1>5. (x + y) % M <= u + v BY <1>2, <1>3, <1>4
  <1> QED BY <1>5 DEF u, v

LEMMA BitsTell ==
  ASSUME IInv
  PROVE  OwnerBitsTell
  <1> SUFFICES ASSUME lock \in {None, "poll"}, NEW k \in 0..size-1
               PROVE  Valid(ring, CqIndex(cons + k), size) <=> k < Span
    BY DEF OwnerBitsTell
  <1>1. oldRing = None BY StateFacts, LockNames
  <1>2. RingTypes /\ Holds(ring, size, cons, Span) BY <1>1, Base DEF RingInv, Bits
  <1>3. size \in CqSizes /\ cons \in Int /\ k \in Int BY <1>2, SpanFacts DEF RingTypes
  <1>4. (ring[(cons + k) % size].owner = Bit(cons + k, size)) <=> k < Span
    BY <1>2 DEF Holds
  <1>5. CqIndex(cons + k) % size = (cons + k) % size /\ Bit(CqIndex(cons + k), size) = Bit(cons + k, size)
    BY <1>3, PlaceWraps
  <1> QED BY <1>4, <1>5 DEF Valid

LEMMA Overrun ==
  ASSUME IInv
  PROVE  NoOverrun
  <1>1. /\ RingInv /\ Span \in Nat /\ QLen \in Nat /\ TK \in {0, 1} /\ seen \in Nat /\ due \in Nat
        /\ Posted \in Nat /\ Total \in Nat /\ size \in Nat /\ Capacity \in Nat /\ Capacity <= size
    BY Base
  <1>2. /\ CqMod \in Nat \ {0} /\ cons \in Int /\ prod \in Int /\ ci \in Int
    BY <1>1, SpanFacts, StateFacts DEF RingInv, OtherTypes
  <1>3. CASE lock # "poll"
    <2>1. ci = cons BY <1>3, NotPolling
    <2>2. (prod - ci) % CqMod = Span BY <2>1 DEF Span
    <2>3. Span <= size
      <3>1. CASE oldRing = None BY <1>1, <3>1 DEF RingInv, Fits
      <3>2. CASE oldRing # None
        <4>1. QLen = Span - 1 /\ QLen <= size - 1 BY <1>1, <3>2, QResized DEF RingInv, Fits
        <4> QED BY <1>1, <4>1
      <3> QED BY <3>1, <3>2
    <2> QED BY <2>2, <2>3 DEF NoOverrun
  <1>4. CASE lock = "poll"
    <2>1. oldRing = None BY <1>4, StateFacts, LockNames
    <2>2. QLen = Span BY <1>1, <1>4, <2>1, LockNames, QPlain
    <2>3. (cons - ci) % CqMod <= seen + TK BY <1>4 DEF IInv, Lag
    <2>4. prod - cons \in Int /\ cons - ci \in Int /\ (prod - cons) + (cons - ci) = prod - ci BY <1>2
    <2>5. ((prod - cons) + (cons - ci)) % CqMod <= ((prod - cons) % CqMod) + ((cons - ci) % CqMod)
      BY <1>2, <2>4, RemSum
    <2>6. (prod - ci) % CqMod <= Span + ((cons - ci) % CqMod) BY <2>4, <2>5 DEF Span
    <2>7. /\ due <= Capacity - 1
          /\ due - seen >= QLen + TK + Posted + Total
      BY AccountIs
    <2>8. (prod - ci) % CqMod \in Int /\ (cons - ci) % CqMod \in Int
      <3>1. prod - ci \in Int BY <1>2
      <3> QED BY <1>2, <2>4, <3>1, DivRem
    <2> HIDE DEF Span
    <2>9. (prod - ci) % CqMod <= size BY <1>1, <2>2, <2>3, <2>6, <2>7, <2>8
    <2> QED BY <2>9 DEF NoOverrun
  <1> QED BY <1>3, <1>4

(* No poll, sweep, resize, post or error of libmlx4, in whatever order     *)
(* with the adapter, breaks the invariant.                                 *)
THEOREM Invariance == Spec => []IInv
  <1>1. Init => IInv BY InitHolds
  <1>2. IInv /\ [Next]_vars => IInv' BY NextKeeps
  <1> QED BY <1>1, <1>2, PTL DEF Spec

(* Every variable keeps its type: the indices stay in their widths, and    *)
(* the ring, through all sweeps and exchanges, holds completions and marks *)
(* only (cq.c, qp.c, srq.c).                                               *)
THEOREM TypesHold == Spec => []TypeOK
  <1>1. IInv => TypeOK BY DEF IInv, Types
  <1> QED BY <1>1, Invariance, PTL

(* Between calls and while polling, the owner bits tell software exactly   *)
(* the entries the adapter produced, after any number of rounds, sweeps    *)
(* that move entries and exchanges of the ring (get_sw_cqe,                *)
(* __mlx4_cq_clean, mlx4_cq_resize_copy_cqes).                             *)
THEOREM BitsAgree == Spec => []OwnerBitsTell
  <1>1. IInv => OwnerBitsTell BY BitsTell
  <1> QED BY <1>1, Invariance, PTL

(* The adapter never finds the ring full by the consumer index it was      *)
(* given, also while a call of poll has not yet told it how far it came,   *)
(* as long as the application keeps its count of completions to come below *)
(* the size of the ring (mlx4_update_cons_index, mlx4_cq_resize).          *)
THEOREM NeverFull == Spec => []NoOverrun
  <1>1. IInv => NoOverrun BY Overrun
  <1> QED BY <1>1, Invariance, PTL

(* An entry of a send queue keeps what was posted until the adapter has    *)
(* executed it: neither a head that wraps, nor the stamps ahead of it, nor *)
(* a tail that polling moves meanwhile lets a post overwrite it            *)
(* (wq_overflow, __mlx4_post_send).                                        *)
THEOREM SendsIntact == Spec => []SendEntriesIntact
  <1>1. IInv => SendEntriesIntact BY DEF IInv, SendEntriesIntact
  <1> QED BY <1>1, Invariance, PTL

(* Every entry of the shared receive queue is free, posted or named by     *)
(* exactly one completion that software still has to free it for, in       *)
(* whatever order polls and sweeps free the entries (mlx4_free_srq_wqe,    *)
(* mlx4_post_srq_recv).                                                    *)
THEOREM SharedAccounted == Spec => []SharedEntriesAccounted
  <1>1. IInv => SharedEntriesAccounted BY SharedHolds
  <1> QED BY <1>1, Invariance, PTL
=============================================================================
