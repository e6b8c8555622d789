------------------------ MODULE CompletionQueueLemmas ------------------------
(***************************************************************************)
(* The inductive invariant of CompletionQueue, and what its parts say of   *)
(* the rings, the wrapping indices and the send queues.  The theorems are  *)
(* in CompletionQueueProofs.                                               *)
(*                                                                         *)
(* The proofs look at the ring through Q, the completions that software    *)
(* has not consumed, in order, wherever the cleaning or the resizing has   *)
(* them for the moment.  An action either leaves Q alone, appends to it or *)
(* takes one entry out; the rings, the owner bits and the wrapping indices *)
(* are met only in the lemmas that show this.                              *)
(***************************************************************************)
EXTENDS CompletionQueue, Arithmetic

-----------------------------------------------------------------------------
(* The invariant.                                                          *)

(* The completions the adapter produced and software has not consumed, in *)
(* order, wherever the cleaning or the resizing has them for the moment.   *)
Dropped == IF lock = "clean" THEN sweep.freed ELSE 0
QLen == IF oldRing # None THEN Span - 1 ELSE Span - Dropped
Cqe(r, s, n) == r[n % s].cqe
Q == [i \in 1..QLen |->
        IF lock = "clean"
        THEN Cqe(ring, size, cons + ((i - 1) + (IF i <= sweep.left THEN 0 ELSE sweep.freed)))
        ELSE IF oldRing # None
        THEN IF i <= Outstanding THEN Cqe(oldRing.ring, oldRing.size, cons + (i - 1))
                                 ELSE Cqe(ring, size, cons + i)
        ELSE Cqe(ring, size, cons + (i - 1))]

(* Every variable has its type, those that TypeOK does not need to name    *)
(* too.                                                                    *)
Types ==
  /\ TypeOK
  /\ nreq \in [QPs -> Nat] /\ wrid \in [QPs -> [Slot -> Int]]
  /\ srqNext \in [SrqIndex -> SrqIndex] /\ srqWrid \in [SrqIndex -> 0..RecvMod-1]
  /\ srqHead \in SrqIndex /\ srqTail \in SrqIndex /\ hwSrq \in SrqIndex
  /\ srqCounter \in 0..RecvMod-1 /\ hwTaken \in 0..RecvMod-1

(* What the holder of the queue's lock (poll, __mlx4_cq_clean,             *)
(* mlx4_resize_cq) has set up, and what nobody else has.                   *)
Jobs ==
  /\ lock = "clean" =>
       /\ sweep \in [qp : table, left : Nat, freed : Nat]
       /\ state[sweep.qp] = "reset" /\ sweep.left + sweep.freed <= Span
  /\ lock = "resize" => target \in CqSizes
  /\ lock # "resize" => target = None /\ oldRing = None
  /\ oldRing # None => size = target /\ \E s \in CqSizes : oldRing \in [size : {s}, ring : [0..s-1 -> Cell]]
  /\ lock # "poll" => taken = None /\ seen = 0 /\ ci = cons
  /\ \A q \in QPs \ table : state[q] = "reset"
  /\ \A q \in QPs : state[q] = "reset" => nreq[q] = 0

(* Of the places c..c+s-1, exactly the first n belong to software, by the  *)
(* owner bits of the ring r of size s.                                     *)
Holds(r, s, c, n) ==
  \A k \in 0..s-1 : (r[(c + k) % s].owner = Bit(c + k, s)) <=> k < n
(* The first mark in the old ring is o entries on.                         *)
MarkedAt(o) ==
  /\ o \in 0..oldRing.size /\ OldCqe(o) = ResizeMark
  /\ \A m \in 0..o-1 : OldCqe(m) # ResizeMark
(* Owner bits, in the ring or, while it is exchanged, in the part of the   *)
(* new ring after the entries to copy.                                     *)
Bits ==
  /\ oldRing = None => Holds(ring, size, cons, Span)
  /\ oldRing # None =>
       /\ Outstanding < Span /\ MarkedAt(Outstanding)
       /\ Holds(ring, size, cons + Outstanding + 1, Span - Outstanding - 1)

(* A completion as the adapter writes it, of a queue pair software knows.  *)
GoodCqe(c, tb) ==
  /\ c \in Completions /\ c.qp \in tb
  /\ c.send => c.wqe = c.id % WqeMod
  /\ ~c.send => c.wqe \in SrqIndex
(* Software can look up whatever it finds.                                 *)
Held == \A i \in 1..QLen : GoodCqe(Q[i], table)
(* What the cleaning has passed over is of other queue pairs.              *)
Swept == lock = "clean" => \A i \in 1..QLen : i > sweep.left => Q[i].qp # sweep.qp
(* The completion that polling has in hand.                                *)
Looked ==
  taken # None => /\ taken.qp \in table
                  /\ taken.send => taken.id = sqTail[taken.qp]
                  /\ ~taken.send => taken.wqe \in SrqIndex
Contents == Held /\ Swept /\ Looked

(* The unpolled send completions of q.                                     *)
Sends(q) == {i \in 1..QLen : Q[i].send /\ Q[i].qp = q}
(* One if polling has a send completion of q in hand.                      *)
TS(q) == IF taken # None /\ taken.send /\ taken.qp = q THEN 1 ELSE 0
(* One if it has any.                                                      *)
TK == IF taken # None THEN 1 ELSE 0

(* The adapter is between tail and head, and the overflow check holds.     *)
Counters(q) ==
  /\ Dist(sqTail[q], hwSq[q]) + Dist(hwSq[q], sqHead[q]) = Dist(sqTail[q], sqHead[q])
  /\ Dist(sqTail[q], sqHead[q]) + nreq[q] <= SqMax
(* wrid has the number of every request between tail and head.             *)
Numbers(q) ==
  \A k \in 0..Dist(sqTail[q], sqHead[q]) + nreq[q] - 1 :
    wrid[q][(sqTail[q] + k) % SqSize] = (sqTail[q] + k) % IndexMod
(* The unpolled completions of q are for requests the adapter executed, in *)
(* order, after the tail.                                                  *)
Window(q) ==
  /\ TS(q) <= Dist(sqTail[q], hwSq[q])
  /\ \A i \in Sends(q) : Dist(sqTail[q], Q[i].id) \in TS(q)..Dist(sqTail[q], hwSq[q])-1
  /\ \A i, j \in Sends(q) : i < j => Dist(sqTail[q], Q[i].id) < Dist(sqTail[q], Q[j].id)
SendInv == \A q \in QPs : Counters(q) /\ Numbers(q) /\ Window(q)

(* Requests of q the application waits for that have no completion yet.    *)
Slack(q) == Dist(sqTail[q], sqHead[q]) + nreq[q] - Cardinality(Sends(q)) - TS(q)
(* Slack, as functions to sum up: of the queue pairs in the table, and of  *)
(* those but the one that is cleaned.                                      *)
Slacks == [q \in QPs |-> IF q \in table THEN Slack(q) ELSE 0]
Others == [q \in QPs |-> IF q \in table /\ q # sweep.qp THEN Slack(q) ELSE 0]
(* What the application waits for covers what is in the ring, in hand,     *)
(* reported by this call, posted to receive and not completed. While a     *)
(* queue pair is cleaned, it covers the ring as it stands without the      *)
(* sends of that queue pair.                                               *)
Account ==
  /\ due <= Capacity - 1
  /\ due - seen >= QLen + TK + Posted + SumFunctionOnSet(Slacks, QPs)
  /\ lock = "clean" => due >= Span + Posted + SumFunctionOnSet(Others, QPs)
(* The adapter's consumer index trails by no more than what this call      *)
(* took.                                                                   *)
Lag == lock = "poll" => (cons - ci) % CqMod <= seen + TK

(* The unpolled receive completions.                                       *)
Recvs == {i \in 1..QLen : ~Q[i].send}
TakenRecv == taken # None /\ ~taken.send
(* The links lead from the adapter's position through the posted entries   *)
(* to the free ones and end at the tail; what is not on the way is named   *)
(* by exactly one completion.                                              *)
Path(p, n) ==
  /\ n \in 1..SrqSize /\ p \in [0..n-1 -> SrqIndex]
  /\ \A i, j \in 0..n-1 : p[i] = p[j] => i = j
  /\ \A i \in 0..n-2 : srqNext[p[i]] = p[i + 1]
  /\ p[0] = hwSrq /\ p[n - 1] = srqTail
  /\ Posted < n /\ p[Posted] = srqHead
  /\ \A x \in SrqIndex : (\E i \in 0..n-1 : p[i] = x) <=>
                         ~((TakenRecv /\ taken.wqe = x) \/ \E i \in Recvs : Q[i].wqe = x)
SrqInv ==
  /\ \E n \in 1..SrqSize : \E p \in [0..n-1 -> SrqIndex] : Path(p, n)
  /\ \A i, j \in Recvs : Q[i].wqe = Q[j].wqe => i = j
  /\ TakenRecv => \A i \in Recvs : Q[i].wqe # taken.wqe

(* The inductive invariant.                                                *)
IInv == Types /\ Jobs /\ Bits /\ Contents /\ SendInv /\ EntriesIntact /\ Account /\ Lag /\ SrqInv

-----------------------------------------------------------------------------
(* The ring.  Places are numbers that only grow; entry n is in the slot    *)
(* n % s and carries the bit (n \div s) % 2, both unchanged by the         *)
(* wrapping of the indices.                                                *)

LEMMA DivRem ==
  ASSUME NEW x \in Int, NEW M \in Nat \ {0}
  PROVE  /\ x % M \in 0 .. M-1 /\ x % M \in Int
         /\ \E q \in Int : x = q * M + (x % M) /\ x \div M = q
  <1> DEFINE q == x \div M
             r == x % M
  <1>1. q \in Int /\ r \in 0 .. M-1 /\ r = x - M * q
    BY RemDef
  <1> HIDE DEF q, r
  <1>2. x = q * M + r
    BY <1>1
  <1>3. x % M = r /\ x \div M = q
    BY DEF q, r
  <1>4. \E d \in Int : x = d * M + r /\ x \div M = d
    BY <1>1, <1>2, <1>3
  <1> QED BY <1>1, <1>3, <1>4

LEMMA SizeFacts ==
  ASSUME NEW s \in CqSizes
  PROVE  /\ s \in Nat \ {0} /\ s >= 2 /\ CqMod \in Nat \ {0} /\ CqMod % s = 0
         /\ \E k \in Int : CqMod = (2 * k) * s
         /\ CqMod >= 2 * s
  <1>1. s \in Nat \ {0} /\ s >= 2 /\ CqMod \in Nat \ {0} /\ CqMod % (2 * s) = 0
    BY CompletionQueueAssumption
  <1>2. PICK k \in Int : CqMod = (2 * s) * k
    <2> DEFINE d == 2 * s
    <2>1. d \in Nat \ {0} /\ CqMod \in Int BY <1>1
    <2>2. CqMod % d = 0 BY <1>1
    <2> HIDE DEF d
    <2>3. PICK q \in Int : CqMod = q * d + 0
      BY <2>1, <2>2, DivRem
    <2>4. CqMod = d * q BY <2>1, <2>3
    <2> QED BY <2>4 DEF d
  <1>3. CqMod = (2 * k) * s
    BY <1>1, <1>2
  <1>4. k >= 1
    <2>1. k <= 0 => (2 * s) * k <= 0
      BY <1>1, <1>2
    <2> QED BY <1>1, <1>2, <2>1
  <1>5. (2 * s) * k >= 2 * s
    BY <1>1, <1>2, <1>4
  <1>6. CqMod % s = 0
    <2> DEFINE m == 2 * k
    <2>1. m \in Int /\ 0 \in 0 .. s-1 /\ CqMod = m * s + 0 /\ CqMod \in Int
      BY <1>1, <1>2, <1>3
    <2> HIDE DEF m
    <2> QED BY <1>1, <2>1, RemUnique
  <1> QED BY <1>1, <1>2, <1>3, <1>5, <1>6

LEMMA BitFacts ==
  ASSUME NEW s \in CqSizes, NEW n \in Int
  PROVE  /\ Bit(n, s) \in {0, 1}
         /\ Bit(n + s, s) = 1 - Bit(n, s)
         /\ Bit(n % CqMod, s) = Bit(n, s)
         /\ (n % CqMod) % s = n % s
         /\ n % s \in 0 .. s-1
  <1>1. /\ s \in Nat \ {0} /\ CqMod \in Nat \ {0} /\ CqMod % s = 0
    BY SizeFacts
  <1>2. PICK k \in Int : CqMod = (2 * k) * s
    BY SizeFacts
  <1> DEFINE r == n % s
  <1>3. PICK d \in Int : n = d * s + r /\ n \div s = d
    BY <1>1, DivRem
  <1>3a. r \in 0 .. s-1
    BY <1>1, DivRem
  <1> HIDE DEF r
  <1>4. Bit(n, s) = d % 2
    BY <1>3 DEF Bit
  <1>5. (n + s) \div s = d + 1
    <2>1. n + s = (d + 1) * s + r /\ n + s \in Int /\ d + 1 \in Int
      BY <1>1, <1>3, <1>3a
    <2> QED BY <1>1, <1>3, <1>3a, <2>1, RemUnique
  <1>6. Bit(n + s, s) = (d + 1) % 2
    BY <1>5 DEF Bit
  <1>7. d % 2 \in {0, 1} /\ (d + 1) % 2 = 1 - (d % 2)
    BY <1>3
  <1>8a. PICK e \in Int : n = e * CqMod + (n % CqMod)
    BY <1>1, DivRem
  <1>8b. n % CqMod \in Int
    BY <1>1, DivRem
  <1>8. n % CqMod = n - CqMod * e /\ n % CqMod \in Int
    BY <1>1, <1>8a, <1>8b
  <1>9. (n % CqMod) \div s = d - 2 * (k * e)
    <2>1. CqMod * e = (2 * (k * e)) * s
      BY <1>1, <1>2, <1>8
    <2> DEFINE m == 2 * (k * e)
    <2>2. m \in Int BY <1>2, <1>8
    <2> HIDE DEF m
    <2>3. n % CqMod = (d - m) * s + r
      BY <1>1, <1>3, <1>3a, <1>8, <2>1, <2>2 DEF m
    <2>4. (n % CqMod) \div s = d - m
      BY <1>1, <1>3, <1>3a, <1>8, <2>2, <2>3, RemUnique
    <2> QED BY <2>4 DEF m
  <1>10. (d - 2 * (k * e)) % 2 = d % 2
    <2> DEFINE m == -(k * e)
    <2>1. m \in Int /\ d - 2 * (k * e) = d + m * 2
      BY <1>2, <1>3, <1>8
    <2> HIDE DEF m
    <2> QED BY <1>3, <2>1, RemShift
  <1>11. (n % CqMod) % s = n % s
    BY <1>1, RemOfRem
  <1> QED BY <1>3a, <1>4, <1>6, <1>7, <1>9, <1>10, <1>11 DEF Bit, r

(* Places less than a whole ring apart are in slots of their own.          *)
LEMMA SlotsApart ==
  ASSUME NEW s \in CqSizes, NEW x \in Int, NEW y \in Int, x % s = y % s,
         x - y < s, y - x < s
  PROVE  x = y
  BY SizeFacts, RemEqual

(* Every slot is one of the s places from c on.                            *)
LEMMA SlotPlace ==
  ASSUME NEW s \in CqSizes, NEW c \in Int, NEW x \in 0 .. s-1
  PROVE  /\ (x - c) % s \in 0 .. s-1
         /\ (c + ((x - c) % s)) % s = x
  <1>1. s \in Nat \ {0} BY SizeFacts
  <1>2. x - c \in Int BY <1>1
  <1>3. (c + ((x - c) % s)) % s = ((x - c) + c) % s
    BY <1>1, <1>2, RemAdd
  <1>4. (x - c) + c = x /\ x % s = x
    BY <1>1, RemSmall
  <1> QED BY <1>1, <1>2, <1>3, <1>4, RemDef

LEMMA HoldsShift ==
  ASSUME NEW s \in CqSizes, NEW r, NEW c \in Int, NEW n \in 0 .. s, NEW j \in 0 .. n,
         Holds(r, s, c, n)
  PROVE  Holds(r, s, c + j, n - j)
  <1>1. s \in Nat \ {0} BY SizeFacts
  <1> SUFFICES ASSUME NEW k \in 0 .. s-1
               PROVE  (r[((c + j) + k) % s].owner = Bit((c + j) + k, s)) <=> k < n - j
    BY DEF Holds
  <1>2. (c + j) + k = c + (j + k) /\ j + k \in Int
    BY <1>1
  <1>3. CASE j + k < s
    <2>1. j + k \in 0 .. s-1 BY <1>1, <1>3
    <2>2. (r[(c + (j + k)) % s].owner = Bit(c + (j + k), s)) <=> j + k < n
      BY <2>1 DEF Holds
    <2> QED BY <1>1, <1>2, <2>2
  <1>4. CASE j + k >= s
    <2> DEFINE m == (j + k) - s
               y == c + m
    <2>1. m \in 0 .. s-1 /\ m < n /\ y \in Int /\ c + (j + k) = y + s
      BY <1>1, <1>4
    <2> HIDE DEF m
    <2>2. r[y % s].owner = Bit(y, s)
      BY <2>1 DEF Holds
    <2> HIDE DEF y
    <2>3. (y + s) % s = y % s
      <3> DEFINE one == 1
      <3>1. y + s = y + one * s /\ one \in Int BY <1>1, <2>1
      <3> HIDE DEF one
      <3>2. (y + one * s) % s = y % s BY <1>1, <2>1, <3>1, RemShift
      <3> QED BY <3>1, <3>2
    <2>4. Bit(y + s, s) = 1 - Bit(y, s) /\ Bit(y, s) \in {0, 1}
      BY <2>1, BitFacts
    <2>5. ~(k < n - j) BY <1>1, <1>4
    <2> QED BY <1>2, <2>1, <2>2, <2>3, <2>4, <2>5
  <1> QED BY <1>1, <1>3, <1>4

LEMMA HoldsAdd ==
  ASSUME NEW s \in CqSizes, NEW r \in [0 .. s-1 -> Cell], NEW c \in Int, NEW n \in 0 .. s-1,
         Holds(r, s, c, n), NEW x
  PROVE  Holds([r EXCEPT ![(c + n) % s] = [owner |-> Bit(c + n, s), cqe |-> x]], s, c, n + 1)
  <1>1. s \in Nat \ {0} BY SizeFacts
  <1> DEFINE r2 == [r EXCEPT ![(c + n) % s] = [owner |-> Bit(c + n, s), cqe |-> x]]
  <1> SUFFICES ASSUME NEW k \in 0 .. s-1
               PROVE  (r2[(c + k) % s].owner = Bit(c + k, s)) <=> k < n + 1
    BY DEF Holds
  <1>2. (c + k) % s \in 0 .. s-1 /\ (c + n) % s \in 0 .. s-1
    <2>1. c + k \in Int /\ c + n \in Int BY <1>1
    <2> QED BY <2>1, BitFacts
  <1>3. CASE k = n
    BY <1>1, <1>2, <1>3
  <1>4. CASE k # n
    <2>1. (c + k) % s # (c + n) % s
      <3>1. c + k \in Int /\ c + n \in Int /\ (c + k) - (c + n) < s /\ (c + n) - (c + k) < s /\ c + k # c + n
        BY <1>1, <1>4
      <3> QED BY <3>1, SlotsApart
    <2>2. r2[(c + k) % s] = r[(c + k) % s]
      BY <1>2, <2>1
    <2>3. (r[(c + k) % s].owner = Bit(c + k, s)) <=> k < n
      BY DEF Holds
    <2> QED BY <1>1, <1>4, <2>2, <2>3
  <1> QED BY <1>3, <1>4

LEMMA HoldsEmpty ==
  ASSUME NEW s \in CqSizes, NEW c \in Int
  PROVE  /\ Holds(EmptyRing(c, s), s, c, 0)
         /\ EmptyRing(c, s) \in [0 .. s-1 -> Cell]
  <1>1. s \in Nat \ {0} BY SizeFacts
  <1>2. ASSUME NEW k \in 0 .. s-1
        PROVE  ~(EmptyRing(c, s)[(c + k) % s].owner = Bit(c + k, s))
    <2> DEFINE x == (c + k) % s
    <2>0. c + k \in Int BY <1>1
    <2>1. x \in 0 .. s-1 /\ c + k \in Int BY <2>0, BitFacts
    <2>2. (x - c) % s = k
      <3> DEFINE y == c + k
                 z == -c
      <3>0. y \in Int /\ z \in Int BY <1>1
      <3>1. ((y % s) + z) % s = (y + z) % s
        <4> HIDE DEF y, z
        <4> QED BY <1>1, <3>0, RemAdd
      <3>2. y + z = k /\ x + z = x - c
        BY <1>1, <2>1
      <3>3. k % s = k
        BY <1>1, RemSmall
      <3> HIDE DEF z
      <3> QED BY <3>1, <3>2, <3>3
    <2> HIDE DEF x
    <2>3. EmptyRing(c, s)[x].owner = 1 - Bit(CqIndex(c + k), s)
      BY <2>1, <2>2 DEF EmptyRing
    <2>4. Bit(CqIndex(c + k), s) \in {0, 1} /\ Bit(CqIndex(c + k), s) = Bit(c + k, s)
      BY <2>1, BitFacts DEF CqIndex
    <2> QED BY <2>3, <2>4 DEF x
  <1>3. Holds(EmptyRing(c, s), s, c, 0)
    BY <1>1, <1>2 DEF Holds
  <1>4. ASSUME NEW x \in 0 .. s-1
        PROVE  [owner |-> 1 - Bit(CqIndex(c + ((x - c) % s)), s), cqe |-> None] \in Cell
    <2>1. c + ((x - c) % s) \in Int
      BY <1>1, SlotPlace
    <2>2. Bit(CqIndex(c + ((x - c) % s)), s) \in {0, 1}
      BY <2>1, BitFacts DEF CqIndex
    <2> QED BY <2>2 DEF Cell
  <1>5. EmptyRing(c, s) \in [0 .. s-1 -> Cell]
    BY <1>4 DEF EmptyRing
  <1> QED BY <1>3, <1>5

(* Only the place modulo the range of the indices matters.                 *)
LEMMA PlaceWraps ==
  ASSUME NEW s \in CqSizes, NEW c \in Int, NEW k \in Int
  PROVE  /\ ((c % CqMod) + k) % s = (c + k) % s
         /\ CqIndex(c + k) % s = (c + k) % s
         /\ Bit((c % CqMod) + k, s) = Bit(c + k, s)
         /\ Bit(CqIndex(c + k), s) = Bit(c + k, s)
  <1>1. s \in Nat \ {0} /\ CqMod \in Nat \ {0} BY SizeFacts
  <1>2. c + k \in Int /\ c % CqMod \in Int /\ (c % CqMod) + k \in Int
    BY <1>1, RemDef
  <1>3. ((c % CqMod) + k) % CqMod = (c + k) % CqMod
    BY <1>1, RemAdd
  <1> QED BY <1>2, <1>3, BitFacts DEF CqIndex

LEMMA HoldsWraps ==
  ASSUME NEW s \in CqSizes, NEW r, NEW c \in Int, NEW n
  PROVE  Holds(r, s, c % CqMod, n) <=> Holds(r, s, c, n)
  <1>1. ASSUME NEW k \in 0 .. s-1
        PROVE  ((c % CqMod) + k) % s = (c + k) % s /\ Bit((c % CqMod) + k, s) = Bit(c + k, s)
    <2>1. k \in Int BY SizeFacts
    <2> QED BY <2>1, PlaceWraps
  <1> QED BY <1>1 DEF Holds

-----------------------------------------------------------------------------
(* What an entry's life looks like from outside: it joins at the end of Q, *)
(* leaves it, or Q stays as it is while the ring under it is rearranged.   *)

RingTypes ==
  /\ size \in CqSizes /\ ring \in [0..size-1 -> Cell]
  /\ cons \in 0..CqMod-1 /\ prod \in 0..CqMod-1
(* The accounts leave a place in the ring.                                 *)
Fits ==
  /\ oldRing = None => Span <= size - 1
  /\ oldRing # None => QLen <= size - 1
RingInv == RingTypes /\ Jobs /\ Bits /\ Fits

(* Q does not change, c joins it, entry k leaves it.                       *)
Same == QLen' = QLen /\ \A i \in 1..QLen : Q'[i] = Q[i]
Pushed(c) ==
  /\ QLen' = QLen + 1
  /\ \A i \in 1..QLen : Q'[i] = Q[i]
  /\ Q'[QLen + 1] = c
Gone(k) ==
  /\ k \in 1..QLen /\ QLen' = QLen - 1
  /\ \A i \in 1..QLen-1 : Q'[i] = IF i < k THEN Q[i] ELSE Q[i + 1]

LEMMA Untouched ==
  ASSUME NEW s \in CqSizes, NEW r \in [0..s-1 -> Cell], NEW x \in Int, NEW y \in Int, NEW v,
         x - y < s, y - x < s
  PROVE  [r EXCEPT ![x % s] = v][y % s] = IF x = y THEN v ELSE r[y % s]
  <1>1. x % s \in 0..s-1 /\ y % s \in 0..s-1 BY BitFacts
  <1>2. x # y => x % s # y % s BY SlotsApart
  <1> QED BY <1>1, <1>2

LEMMA SpanFacts ==
  ASSUME RingTypes
  PROVE  /\ Span \in 0..CqMod-1 /\ CqMod \in Nat \ {0} /\ cons \in Int /\ prod \in Int
         /\ prod = CqIndex(cons + Span)
         /\ size \in Nat \ {0} /\ size >= 2
  <1>1. CqMod \in Nat \ {0} BY CompletionQueueAssumption
  <1>2. cons \in Int /\ prod \in Int BY <1>1 DEF RingTypes
  <1>3. prod - cons \in Int BY <1>2
  <1>4. Span \in 0..CqMod-1 BY <1>1, <1>3, RemDef DEF Span
  <1>5. (cons + ((prod - cons) % CqMod)) % CqMod = ((prod - cons) + cons) % CqMod
    BY <1>1, <1>2, <1>3, RemAdd
  <1>6. (prod - cons) + cons = prod /\ prod % CqMod = prod
    BY <1>1, <1>2, RemSmall DEF RingTypes
  <1>7. prod = CqIndex(cons + Span)
    BY <1>5, <1>6 DEF CqIndex, Span
  <1> QED BY <1>1, <1>2, <1>4, <1>7, SizeFacts DEF RingTypes

(* Distances between indices that wrap.                                    *)
LEMMA WrapRight ==
  ASSUME NEW M \in Nat \ {0}, NEW x \in Int, NEW y \in Int, NEW j \in Int
  PROVE  (((x + j) % M) - y) % M = ((x - y) + j) % M
  <1> DEFINE s == x + j
             z == -y
             r == s % M
  <1>1. s \in Int /\ z \in Int OBVIOUS
  <1>2. (r + z) % M = (s + z) % M
    <2> HIDE DEF s, z
    <2> QED BY <1>1, RemAdd
  <1>3. r \in Int
    <2> HIDE DEF s
    <2> QED BY <1>1, DivRem
  <1>4. r + z = r - y /\ s + z = (x - y) + j
    <2> HIDE DEF r
    <2> QED BY <1>3
  <1> HIDE DEF z
  <1> QED BY <1>2, <1>4

LEMMA WrapLeft ==
  ASSUME NEW M \in Nat \ {0}, NEW x \in Int, NEW y \in Int, NEW j \in Int
  PROVE  (y - ((x + j) % M)) % M = ((y - x) - j) % M
  <1> DEFINE s == x + j
  <1>1. s \in Int OBVIOUS
  <1>2. (y - (s % M)) % M = (y - s) % M
    <2> HIDE DEF s
    <2> QED BY <1>1, RemAdd
  <1>3. y - s = (y - x) - j OBVIOUS
  <1> HIDE DEF s
  <1> QED BY <1>2, <1>3 DEF s

LEMMA RemMinus ==
  ASSUME NEW M \in Nat \ {0}, NEW x \in Int, NEW j \in Int
  PROVE  ((x % M) - j) % M = (x - j) % M
  <1> DEFINE z == -j
             r == x % M
  <1>1. z \in Int /\ r \in Int BY DivRem
  <1>2. r - j = r + z /\ x - j = x + z BY <1>1
  <1>3. (r + z) % M = (x + z) % M
    <2> HIDE DEF z
    <2> QED BY <1>1, RemAdd
  <1> QED BY <1>2, <1>3

LEMMA SpanGrows ==
  ASSUME RingTypes, Span + 1 < CqMod, cons' = cons, prod' = CqIndex(prod + 1)
  PROVE  Span' = Span + 1
  <1>1. CqMod \in Nat \ {0} /\ Span \in 0..CqMod-1 /\ cons \in Int /\ prod \in Int BY SpanFacts
  <1>2. Span' = (((prod + 1) % CqMod) - cons) % CqMod
    BY DEF Span, CqIndex
  <1>3. Span' = (Span + 1) % CqMod
    <2> DEFINE one == 1
               x == prod - cons
    <2>1. one \in Int /\ x \in Int BY <1>1
    <2>2. (((prod + one) % CqMod) - cons) % CqMod = ((prod - cons) + one) % CqMod
      <3> HIDE DEF one, x
      <3> QED BY <1>1, <2>1, WrapRight
    <2>3. ((x % CqMod) + one) % CqMod = (x + one) % CqMod
      <3> HIDE DEF one, x
      <3> QED BY <1>1, <2>1, RemAdd
    <2>4. Span = x % CqMod BY DEF Span
    <2> QED BY <1>2, <2>2, <2>3, <2>4
  <1>4. Span + 1 \in 0..CqMod-1 BY <1>1
  <1> QED BY <1>1, <1>3, <1>4, RemSmall

LEMMA SpanShrinks ==
  ASSUME RingTypes, NEW j \in Nat, j <= Span, prod' = prod, cons' = CqIndex(cons + j)
  PROVE  Span' = Span - j
  <1>1. j \in Int /\ CqMod \in Nat \ {0} /\ Span \in 0..CqMod-1 /\ cons \in Int /\ prod \in Int BY SpanFacts
  <1>2. Span' = (prod - ((cons + j) % CqMod)) % CqMod
    BY DEF Span, CqIndex
  <1>3. Span' = ((prod - cons) - j) % CqMod
    <2>1. (prod - ((cons + j) % CqMod)) % CqMod = ((prod - cons) - j) % CqMod
      BY <1>1, WrapLeft
    <2> QED BY <1>2, <2>1
  <1>4. prod - cons \in Int BY <1>1
  <1>5. Span' = (Span - j) % CqMod
    <2>1. Span = (prod - cons) % CqMod BY DEF Span
    <2>2. (((prod - cons) % CqMod) - j) % CqMod = ((prod - cons) - j) % CqMod
      <3> DEFINE x == prod - cons
      <3>1. x \in Int BY <1>1
      <3> HIDE DEF x
      <3>2. ((x % CqMod) - j) % CqMod = (x - j) % CqMod
        BY <1>1, <3>1, RemMinus
      <3> QED BY <3>2 DEF x
    <2> QED BY <1>3, <2>1, <2>2
  <1>6. Span - j \in 0..CqMod-1 BY <1>1
  <1> QED BY <1>1, <1>5, <1>6, RemSmall

LEMMA MarkStays ==
  ASSUME oldRing' = oldRing, cons' = cons
  PROVE  /\ Outstanding' = Outstanding
         /\ \A o : MarkedAt(o)' <=> MarkedAt(o)
         /\ \A k : OldCqe(k)' = OldCqe(k)
  BY DEF Outstanding, MarkedAt, OldCqe

(* Steps that leave the ring alone.                                        *)
LEMMA RingStays ==
  ASSUME RingInv, UNCHANGED <<ring, size, cons, prod, sweep, oldRing>>,
         (lock' = "clean") <=> (lock = "clean")
  PROVE  Same /\ Span' = Span /\ Bits' /\ RingTypes'
  <1>1. Span' = Span BY DEF Span
  <1>2. QLen' = QLen BY <1>1 DEF QLen, Dropped
  <1>3. Outstanding' = Outstanding /\ (MarkedAt(Outstanding)' <=> MarkedAt(Outstanding))
    BY MarkStays, Zenon
  <1>4. Q' = Q
    BY <1>2, <1>3 DEF Q, Cqe
  <1>5. Bits'
    BY <1>1, <1>3 DEF RingInv, Bits, Holds, MarkedAt, OldCqe
  <1>6. RingTypes' BY DEF RingInv, RingTypes
  <1> QED BY <1>1, <1>2, <1>4, <1>5, <1>6 DEF Same

(* What the job in hand says about Q.                                      *)
LEMMA QPlain ==
  ASSUME RingInv, lock # "clean", oldRing = None
  PROVE  QLen = Span /\ \A i \in 1..QLen : Q[i] = Cqe(ring, size, cons + (i - 1))
  <1>1. QLen = Span BY SpanFacts DEF QLen, Dropped, RingInv
  <1> QED BY <1>1 DEF Q

LEMMA QClean ==
  ASSUME RingInv, lock = "clean"
  PROVE  /\ oldRing = None /\ QLen = Span - sweep.freed
         /\ sweep.freed \in Nat /\ sweep.left \in Nat /\ sweep.left <= QLen
         /\ sweep = [qp |-> sweep.qp, left |-> sweep.left, freed |-> sweep.freed]
         /\ \A i \in 1..QLen :
              Q[i] = Cqe(ring, size, cons + ((i - 1) + (IF i <= sweep.left THEN 0 ELSE sweep.freed)))
  <1>1. /\ oldRing = None /\ sweep.freed \in Nat /\ sweep.left \in Nat
        /\ sweep.left + sweep.freed <= Span
        /\ sweep = [qp |-> sweep.qp, left |-> sweep.left, freed |-> sweep.freed]
    <2>1. sweep \in [qp : table, left : Nat, freed : Nat] /\ sweep.left + sweep.freed <= Span
      BY DEF RingInv, Jobs
    <2>2. oldRing = None BY DEF RingInv, Jobs
    <2> QED BY <2>1, <2>2
  <1>2. QLen = Span - sweep.freed BY <1>1 DEF QLen, Dropped
  <1>3. ASSUME NEW i \in 1..QLen
        PROVE  Q[i] = Cqe(ring, size, cons + ((i - 1) + (IF i <= sweep.left THEN 0 ELSE sweep.freed)))
    BY <1>3 DEF Q
  <1>4. Span \in Int /\ cons \in Int BY SpanFacts DEF RingInv
  <1>6. sweep.left <= QLen BY <1>1, <1>2, <1>4
  <1> QED BY <1>1, <1>2, <1>3, <1>6

LEMMA QResized ==
  ASSUME RingInv, oldRing # None
  PROVE  /\ QLen = Span - 1 /\ lock = "resize" /\ size = target
         /\ oldRing.size \in CqSizes /\ oldRing.ring \in [0..oldRing.size-1 -> Cell]
         /\ Outstanding \in 0..QLen /\ Outstanding \in Nat
         /\ \A i \in 1..QLen :
              Q[i] = IF i <= Outstanding THEN Cqe(oldRing.ring, oldRing.size, cons + (i - 1))
                                         ELSE Cqe(ring, size, cons + i)
         /\ \A k \in Int : OldCqe(k) = Cqe(oldRing.ring, oldRing.size, cons + k)
  <1>1. lock = "resize" /\ size = target
    BY DEF RingInv, Jobs
  <1>2. QLen = Span - 1 BY DEF QLen
  <1>3. oldRing.size \in CqSizes /\ oldRing.ring \in [0..oldRing.size-1 -> Cell]
    <2>1. PICK s \in CqSizes : oldRing \in [size : {s}, ring : [0..s-1 -> Cell]]
      BY DEF RingInv, Jobs
    <2> QED BY <2>1
  <1>4. Outstanding \in 0..QLen /\ Outstanding \in Nat
    <2>1. Outstanding < Span /\ Outstanding \in 0..oldRing.size
      BY DEF RingInv, Bits, MarkedAt
    <2> QED BY <1>2, <1>3, <2>1, SizeFacts, SpanFacts DEF RingInv
  <1>5. \A i \in 1..QLen :
           Q[i] = IF i <= Outstanding THEN Cqe(oldRing.ring, oldRing.size, cons + (i - 1))
                                      ELSE Cqe(ring, size, cons + i)
    BY <1>1 DEF Q
  <1>6. ASSUME NEW k \in Int PROVE OldCqe(k) = Cqe(oldRing.ring, oldRing.size, cons + k)
    <2>1. cons + k \in Int BY SpanFacts DEF RingInv
    <2>2. CqIndex(cons + k) % oldRing.size = (cons + k) % oldRing.size
      BY <1>3, <2>1, BitFacts DEF CqIndex
    <2> QED BY <2>2 DEF OldCqe, Cqe
  <1> QED BY <1>1, <1>2, <1>3, <1>4, <1>5, <1>6

-----------------------------------------------------------------------------
(* The adapter writes a completion behind the others.                      *)
LEMMA RingProduces ==
  ASSUME RingInv, NEW c \in Completions, Produce(c), UNCHANGED <<sweep, oldRing, lock>>
  PROVE  Pushed(c) /\ Span' = Span + 1 /\ Bits' /\ RingTypes'
  <1> DEFINE n == Span
             x == cons + n
             r2 == [ring EXCEPT ![x % size] = [owner |-> Bit(x, size), cqe |-> c]]
  <1>1. /\ size \in CqSizes /\ ring \in [0..size-1 -> Cell] /\ cons \in Int /\ n \in Nat
        /\ size \in Nat \ {0} /\ CqMod \in Nat \ {0} /\ x \in Int
        /\ prod = CqIndex(x) /\ RingTypes
    BY SpanFacts DEF RingInv, RingTypes
  <1>2. n <= size /\ n + 1 < CqMod /\ (oldRing = None => n + 1 <= size)
    <2>1. CqMod >= 2 * size /\ size >= 2 BY <1>1, SizeFacts
    <2>2. CASE oldRing = None BY <1>1, <2>1, <2>2 DEF RingInv, Fits
    <2>3. CASE oldRing # None
      <3>1. QLen = n - 1 /\ QLen <= size - 1 BY <2>3, QResized DEF RingInv, Fits
      <3> HIDE DEF n
      <3> QED BY <1>1, <2>1, <2>3, <3>1
    <2> QED BY <2>2, <2>3
  <1>3. ring' = r2
    <2>1. prod % size = x % size /\ Bit(prod, size) = Bit(x, size)
      BY <1>1, BitFacts DEF CqIndex
    <2> QED BY <2>1 DEF Produce
  <1>4. size' = size /\ cons' = cons /\ prod' = CqIndex(prod + 1)
    BY DEF Produce
  <1>5. Span' = n + 1
    BY <1>1, <1>2, <1>4, SpanGrows
  <1>6. \A m \in 0..n-1 : n - m < size => Cqe(ring', size, cons + m) = Cqe(ring, size, cons + m)
    <2> SUFFICES ASSUME NEW m \in 0..n-1, n - m < size
                 PROVE  r2[(cons + m) % size] = ring[(cons + m) % size]
      BY <1>3 DEF Cqe
    <2> DEFINE y == cons + m
    <2>1. y \in Int /\ x - y < size /\ y - x < size /\ x # y
      BY <1>1, <1>2
    <2> HIDE DEF x, y
    <2>2. x % size # y % size /\ y % size \in 0..size-1
      BY <1>1, <2>1, SlotsApart, BitFacts
    <2> QED BY <1>1, <2>2 DEF y
  <1>7. Cqe(ring', size, x) = c
    <2>1. x % size \in 0..size-1
      <3> HIDE DEF x
      <3> QED BY <1>1, BitFacts
    <2>2. r2[x % size] = [owner |-> Bit(x, size), cqe |-> c]
      <3> HIDE DEF x
      <3> QED BY <1>1, <2>1
    <2> QED BY <1>3, <2>2 DEF Cqe
  <1>8. RingTypes'
    <2>1. Bit(x, size) \in {0, 1} /\ x % size \in 0..size-1
      <3> HIDE DEF x
      <3> QED BY <1>1, BitFacts
    <2>2. [owner |-> Bit(x, size), cqe |-> c] \in Cell BY <2>1 DEF Cell
    <2>3. ring' \in [0..size-1 -> Cell] BY <1>1, <1>3, <2>1, <2>2
    <2>4. prod' \in 0..CqMod-1
      <3>1. prod + 1 \in Int BY <1>1, SpanFacts
      <3> QED BY <1>1, <1>4, <3>1, DivRem DEF CqIndex
    <2> QED BY <1>1, <1>4, <2>3, <2>4 DEF RingTypes
  <1> HIDE DEF n, r2
  <1>9. CASE oldRing = None
    <2>1. Holds(ring, size, cons, n) BY <1>9 DEF RingInv, Bits, n
    <2>2. Holds(r2, size, cons, n + 1)
      <3>1. n \in 0..size-1 BY <1>1, <1>2, <1>9
      <3> QED BY <1>1, <2>1, <3>1, HoldsAdd DEF r2
    <2>3. Bits'
      BY <1>3, <1>4, <1>5, <1>9, <2>2 DEF Bits
    <2>4. CASE lock # "clean"
      <3>1. QLen = n /\ \A i \in 1..QLen : Q[i] = Cqe(ring, size, cons + (i - 1))
        BY <1>9, <2>4, QPlain DEF n
      <3>2. QLen' = n + 1
        BY <1>5, <1>9, <2>4, <1>1 DEF QLen, Dropped
      <3>3. ASSUME NEW i \in 1..n+1 PROVE Q'[i] = Cqe(ring', size, cons + (i - 1))
        BY <1>4, <1>9, <2>4, <3>2 DEF Q
      <3>4. \A i \in 1..n : Q'[i] = Q[i]
        <4>1. ASSUME NEW i \in 1..n PROVE i - 1 \in 0..n-1 /\ n - (i - 1) < size /\ i \in 1..n+1
          BY <1>1, <1>2, <1>9
        <4> QED BY <1>6, <3>1, <3>3, <4>1
      <3>5. Q'[n + 1] = c
        <4>1. n + 1 \in 1..n+1 /\ (n + 1) - 1 = n BY <1>1
        <4>2. Q'[n + 1] = Cqe(ring', size, cons + ((n + 1) - 1)) BY <3>3, <4>1
        <4> QED BY <1>7, <4>1, <4>2
      <3> QED BY <1>5, <1>8, <2>3, <3>1, <3>2, <3>4, <3>5 DEF Pushed, n
    <2>5. CASE lock = "clean"
      <3> DEFINE f == sweep.freed
                 l == sweep.left
                 skip(i) == IF i <= l THEN 0 ELSE f
      <3>1. /\ QLen = n - f /\ f \in Nat /\ l \in Nat /\ l <= QLen
            /\ \A i \in 1..QLen : Q[i] = Cqe(ring, size, cons + ((i - 1) + skip(i)))
        BY <2>5, QClean DEF n
      <3>2. QLen' = QLen + 1
        <4>1. QLen' = Span' - sweep'.freed BY <1>9, <2>5 DEF QLen, Dropped
        <4>2. sweep' = sweep OBVIOUS
        <4> QED BY <1>1, <1>5, <3>1, <4>1, <4>2
      <3>3. ASSUME NEW i \in 1..QLen+1 PROVE Q'[i] = Cqe(ring', size, cons + ((i - 1) + skip(i)))
        BY <1>4, <2>5, <3>2 DEF Q
      <3> HIDE DEF f, l
      <3>4. ASSUME NEW i \in 1..QLen PROVE Q'[i] = Q[i]
        <4>1. i \in 1..QLen+1 /\ (i - 1) + skip(i) \in 0..n-1 /\ n - ((i - 1) + skip(i)) < size
          BY <1>1, <1>2, <1>9, <3>1
        <4> HIDE DEF skip
        <4> QED BY <1>6, <3>1, <3>3, <4>1
      <3>5. Q'[QLen + 1] = c
        <4>1. QLen + 1 \in 1..QLen+1 /\ ((QLen + 1) - 1) + skip(QLen + 1) = n BY <1>1, <3>1
        <4> HIDE DEF skip
        <4>2. Q'[QLen + 1] = Cqe(ring', size, cons + (((QLen + 1) - 1) + skip(QLen + 1)))
          BY <3>3, <4>1
        <4> QED BY <1>7, <4>1, <4>2
      <3> QED BY <1>5, <1>8, <2>3, <3>2, <3>4, <3>5 DEF Pushed, n
    <2> QED BY <2>4, <2>5
  <1>10. CASE oldRing # None
    <2> DEFINE o == Outstanding
               b == cons + o + 1
               m == n - o - 1
    <2>1. /\ QLen = n - 1 /\ o \in 0..QLen /\ o \in Nat /\ lock = "resize"
          /\ \A i \in 1..QLen : Q[i] = IF i <= o THEN Cqe(oldRing.ring, oldRing.size, cons + (i - 1))
                                                 ELSE Cqe(ring, size, cons + i)
      BY <1>10, QResized DEF n
    <2>2. QLen' = QLen + 1
      BY <1>1, <1>5, <1>10, <2>1 DEF QLen
    <2>3. Outstanding' = o /\ (MarkedAt(o)' <=> MarkedAt(o))
      BY <1>4, MarkStays, Zenon
    <2>4. ASSUME NEW i \in 1..QLen+1
          PROVE  Q'[i] = IF i <= o THEN Cqe(oldRing.ring, oldRing.size, cons + (i - 1))
                                   ELSE Cqe(ring', size, cons + i)
      <3>1. lock' # "clean" /\ oldRing' # None BY <1>10, <2>1
      <3> QED BY <1>4, <2>2, <2>3, <3>1 DEF Q
    <2> HIDE DEF o
    <2>5. ASSUME NEW i \in 1..QLen PROVE Q'[i] = Q[i]
      <3>1. i \in 1..QLen+1 /\ i \in 0..n-1 /\ (i > o => n - i < size) BY <1>1, <1>2, <2>1
      <3>2. ~(i <= o) => i > o BY <2>1
      <3> QED BY <1>6, <2>1, <2>4, <3>1, <3>2
    <2>6. Q'[QLen + 1] = c
      <3>1. QLen + 1 \in 1..QLen+1 /\ QLen + 1 = n /\ ~(QLen + 1 <= o) BY <1>1, <2>1
      <3>2. Q'[QLen + 1] = Cqe(ring', size, cons + (QLen + 1)) BY <2>4, <3>1
      <3> QED BY <1>7, <3>1, <3>2
    <2>7. MarkedAt(o) /\ o < Span /\ Holds(ring, size, b, m)
      BY <1>10 DEF RingInv, Bits, n, o
    <2>8. Holds(r2, size, b, m + 1)
      <3>1. b \in Int /\ m \in 0..size-1 /\ b + m = x
        BY <1>1, <1>2, <2>1
      <3> HIDE DEF b, m
      <3>2. Holds([ring EXCEPT ![(b + m) % size] = [owner |-> Bit(b + m, size), cqe |-> c]], size, b, m + 1)
        BY <1>1, <2>7, <3>1, HoldsAdd
      <3> QED BY <3>1, <3>2 DEF r2
    <2>9. m + 1 = (n + 1) - o - 1 /\ o < n + 1 BY <1>1, <2>1
    <2>10. Holds(ring', size, cons + o + 1, Span' - o - 1)
      <3> HIDE DEF m
      <3> QED BY <1>3, <1>5, <2>8, <2>9
    <2>11. Bits'
      <3>1. oldRing' # None BY <1>10
      <3>2. /\ oldRing' # None => Outstanding' < Span' /\ MarkedAt(Outstanding)'
                                  /\ Holds(ring', size', cons' + Outstanding' + 1, Span' - Outstanding' - 1)
        BY <1>4, <1>5, <2>3, <2>7, <2>9, <2>10 DEF o
      <3> QED BY <3>1, <3>2 DEF Bits
    <2> QED BY <1>5, <1>8, <2>2, <2>5, <2>6, <2>11 DEF Pushed, n
  <1> QED BY <1>9, <1>10

-----------------------------------------------------------------------------
(* Polling and cleaning, as far as the ring goes.                          *)

LEMMA LockNames ==
  /\ None # "poll" /\ None # "clean" /\ None # "resize"
  /\ "poll" # "clean" /\ "poll" # "resize" /\ "clean" # "resize"
  BY NoneAssumption

LEMMA CqeWraps ==
  ASSUME NEW s \in CqSizes, NEW r, NEW c \in Int, NEW k \in Int
  PROVE  Cqe(r, s, CqIndex(c) + k) = Cqe(r, s, c + k)
  BY PlaceWraps DEF Cqe, CqIndex

(* The consumer index moves over consumed entries.                         *)
LEMMA ConsMoves ==
  ASSUME RingTypes, oldRing = None, Holds(ring, size, cons, Span), Span <= size,
         NEW j \in 0..Span, cons' = CqIndex(cons + j), UNCHANGED <<ring, size, prod, oldRing>>
  PROVE  /\ Span' = Span - j /\ Bits' /\ RingTypes'
         /\ \A m \in Int : Cqe(ring, size, cons' + m) = Cqe(ring, size, cons + (j + m))
  <1>1. /\ size \in CqSizes /\ cons \in Int /\ Span \in Nat /\ j \in Int /\ j \in Nat /\ j <= Span
        /\ cons + j \in Int /\ CqMod \in Nat \ {0} /\ size \in Nat \ {0}
    BY SpanFacts DEF RingTypes
  <1>2. Span' = Span - j BY <1>1, SpanShrinks
  <1>3. Holds(ring, size, cons + j, Span - j)
    <2>1. Span \in 0..size BY <1>1
    <2> HIDE DEF Span
    <2> QED BY <1>1, <2>1, HoldsShift
  <1>4. Holds(ring, size, cons', Span')
    BY <1>1, <1>2, <1>3, HoldsWraps DEF CqIndex
  <1>5. Bits' BY <1>4 DEF Bits
  <1>6. RingTypes'
    <2>1. cons' \in 0..CqMod-1 BY <1>1, DivRem DEF CqIndex
    <2> QED BY <2>1 DEF RingTypes
  <1>7. ASSUME NEW m \in Int PROVE Cqe(ring, size, cons' + m) = Cqe(ring, size, cons + (j + m))
    <2>1. Cqe(ring, size, cons' + m) = Cqe(ring, size, (cons + j) + m)
      BY <1>1, CqeWraps
    <2>2. (cons + j) + m = cons + (j + m) BY <1>1
    <2> QED BY <2>1, <2>2
  <1> QED BY <1>2, <1>5, <1>6, <1>7

(* Polling consumes the first of them.                                     *)
LEMMA RingTakes ==
  ASSUME RingInv, lock \in {None, "poll"}, Valid(ring, cons, size), lock' = "poll",
         cons' = CqIndex(cons + 1), UNCHANGED <<ring, size, prod, sweep, oldRing>>
  PROVE  /\ Gone(1) /\ Span' = Span - 1 /\ Bits' /\ RingTypes'
         /\ Q[1] = ring[cons % size].cqe /\ QLen = Span
  <1>1. /\ size \in CqSizes /\ cons \in Int /\ size \in Nat \ {0} /\ Span \in Nat /\ RingTypes
    BY SpanFacts DEF RingInv, RingTypes
  <1>2. oldRing = None /\ lock # "clean" /\ lock' # "clean" /\ oldRing' = None
    BY LockNames DEF RingInv, Jobs
  <1>3. Holds(ring, size, cons, Span) /\ Span <= size
    BY <1>1, <1>2 DEF RingInv, Bits, Fits
  <1>4. 1 \in 0..Span
    <2>1. 0 \in 0..size-1 /\ cons + 0 = cons BY <1>1
    <2>2. (ring[(cons + 0) % size].owner = Bit(cons + 0, size)) <=> 0 < Span
      BY <1>3, <2>1 DEF Holds
    <2> QED BY <1>1, <2>1, <2>2 DEF Valid
  <1>5. /\ Span' = Span - 1 /\ Bits' /\ RingTypes'
        /\ \A m \in Int : Cqe(ring, size, cons' + m) = Cqe(ring, size, cons + (1 + m))
    BY <1>1, <1>2, <1>3, <1>4, ConsMoves
  <1>6. QLen = Span /\ \A i \in 1..QLen : Q[i] = Cqe(ring, size, cons + (i - 1))
    BY <1>2, QPlain
  <1>7. QLen' = Span - 1
    BY <1>1, <1>2, <1>5 DEF QLen, Dropped
  <1>8. ASSUME NEW i \in 1..Span-1 PROVE Q'[i] = Q[i + 1]
    <2>1. Q'[i] = Cqe(ring, size, cons' + (i - 1))
      BY <1>2, <1>7 DEF Q
    <2>2. i - 1 \in Int /\ 1 + (i - 1) = (i + 1) - 1 /\ i + 1 \in 1..QLen
      BY <1>1, <1>6
    <2>3. Cqe(ring, size, cons' + (i - 1)) = Cqe(ring, size, cons + (1 + (i - 1)))
      BY <1>5, <2>2
    <2> QED BY <1>6, <2>1, <2>2, <2>3
  <1>9. Gone(1)
    <2>1. 1 \in 1..QLen BY <1>1, <1>4, <1>6
    <2>2. ASSUME NEW i \in 1..QLen-1 PROVE Q'[i] = Q[i + 1] /\ ~(i < 1)
      BY <1>1, <1>6, <1>8
    <2> QED BY <1>6, <1>7, <2>1, <2>2 DEF Gone
  <1>10. Q[1] = ring[cons % size].cqe
    <2>1. 1 \in 1..QLen /\ cons + (1 - 1) = cons BY <1>1, <1>4, <1>6
    <2>2. Q[1] = Cqe(ring, size, cons + (1 - 1)) BY <1>6, <2>1
    <2> QED BY <2>1, <2>2 DEF Cqe
  <1> QED BY <1>5, <1>6, <1>9, <1>10

(* Cleaning looks at every entry.                                          *)
LEMMA ScanFindsAll ==
  ASSUME RingInv, oldRing = None
  PROVE  FirstInvalid = Span
  <1>1. /\ size \in CqSizes /\ cons \in Int /\ size \in Nat \ {0} /\ Span \in Nat /\ Span <= size - 1
    BY SpanFacts DEF RingInv, RingTypes, Fits
  <1>2. ASSUME NEW m \in 0..size-1 PROVE Valid(ring, CqIndex(cons + m), size) <=> m < Span
    <2>1. (ring[(cons + m) % size].owner = Bit(cons + m, size)) <=> m < Span
      BY DEF RingInv, Bits, Holds
    <2>2. m \in Int BY <1>1
    <2>3. CqIndex(cons + m) % size = (cons + m) % size /\ Bit(CqIndex(cons + m), size) = Bit(cons + m, size)
      BY <1>1, <2>2, PlaceWraps
    <2> QED BY <2>1, <2>3 DEF Valid
  <1> DEFINE P(n) == /\ n = size - 1 \/ ~Valid(ring, CqIndex(cons + n), size)
                     /\ \A m \in 0..n-1 : Valid(ring, CqIndex(cons + m), size)
  <1>3. Span \in 0..size-1 /\ P(Span)
    <2>1. \A m \in 0..Span-1 : m \in 0..size-1 /\ m < Span BY <1>1
    <2> QED BY <1>1, <1>2, <2>1
  <1>4. ASSUME NEW n \in 0..size-1, P(n) PROVE n = Span
    <2>1. CASE n > Span
      <3>1. Span \in 0..n-1 BY <1>1, <2>1
      <3> QED BY <1>2, <1>3, <1>4, <3>1, <1>1
    <2>2. CASE n < Span
      <3>1. n # size - 1 BY <1>1, <2>2
      <3> QED BY <1>2, <1>4, <2>2, <3>1
    <2> QED BY <1>1, <2>1, <2>2
  <1>5. FirstInvalid = CHOOSE n \in 0..size-1 : P(n)
    BY DEF FirstInvalid
  <1> QED BY <1>3, <1>4, <1>5

LEMMA RingScans ==
  ASSUME RingInv, NEW q, lock = None, lock' = "clean",
         sweep' = [qp |-> q, left |-> FirstInvalid, freed |-> 0],
         UNCHANGED <<ring, size, cons, prod, oldRing>>
  PROVE  /\ Same /\ Span' = Span /\ Bits' /\ RingTypes'
         /\ sweep'.left = QLen /\ sweep'.freed = 0 /\ sweep'.qp = q
  <1>1. oldRing = None /\ lock # "clean" BY LockNames DEF RingInv, Jobs
  <1>2. sweep' = [qp |-> q, left |-> Span, freed |-> 0] BY <1>1, ScanFindsAll
  <1>3. Span' = Span BY DEF Span
  <1>4. Span \in Nat /\ cons \in Int BY SpanFacts DEF RingInv
  <1>5. QLen = Span /\ \A i \in 1..QLen : Q[i] = Cqe(ring, size, cons + (i - 1))
    BY <1>1, QPlain
  <1>6. QLen' = Span BY <1>1, <1>2, <1>3, <1>4 DEF QLen, Dropped
  <1>7. ASSUME NEW i \in 1..QLen PROVE Q'[i] = Q[i]
    <2>1. i <= Span /\ (i - 1) + 0 = i - 1 BY <1>4, <1>5
    <2>2. Q'[i] = Cqe(ring, size, cons + ((i - 1) + 0))
      BY <1>2, <1>5, <1>6, <2>1 DEF Q
    <2> QED BY <1>5, <2>1, <2>2
  <1>8. Bits' BY <1>1, <1>3 DEF RingInv, Bits
  <1> QED BY <1>2, <1>3, <1>5, <1>6, <1>7, <1>8 DEF Same, RingInv, RingTypes

(* The entry the sweep looks at, and the two things it does with it.       *)
LEMMA SweepLooks ==
  ASSUME RingInv, lock = "clean", sweep.left > 0
  PROVE  /\ sweep.left \in 1..QLen
         /\ ring[CqIndex(cons + (sweep.left - 1)) % size].cqe = Q[sweep.left]
  <1> DEFINE l == sweep.left
  <1>1. /\ size \in CqSizes /\ cons \in Int /\ QLen \in Int /\ l \in 1..QLen /\ l \in Int
        /\ Q[l] = Cqe(ring, size, cons + ((l - 1) + 0))
    <2>1. QLen = Span - sweep.freed /\ sweep.freed \in Nat /\ l \in Nat /\ l <= QLen
      BY QClean
    <2>2. Span \in Nat /\ cons \in Int /\ size \in CqSizes BY SpanFacts DEF RingInv, RingTypes
    <2>3. l \in 1..QLen /\ QLen \in Int /\ l <= l BY <2>1, <2>2
    <2>4. Q[l] = Cqe(ring, size, cons + ((l - 1) + (IF l <= l THEN 0 ELSE sweep.freed)))
      BY <2>3, QClean
    <2> QED BY <2>1, <2>2, <2>3, <2>4
  <1>2. l - 1 \in Int /\ (l - 1) + 0 = l - 1 BY <1>1
  <1> HIDE DEF l
  <1>3. CqIndex(cons + (l - 1)) % size = (cons + (l - 1)) % size
    BY <1>1, <1>2, PlaceWraps
  <1> QED BY <1>1, <1>2, <1>3 DEF Cqe, l

LEMMA RingDrops ==
  ASSUME RingInv, lock = "clean", sweep.left > 0,
         sweep' = [sweep EXCEPT !.left = sweep.left - 1, !.freed = @ + 1],
         UNCHANGED <<ring, size, cons, prod, lock, oldRing>>
  PROVE  /\ Gone(sweep.left) /\ Span' = Span /\ Bits' /\ RingTypes'
         /\ sweep' = [qp |-> sweep.qp, left |-> sweep.left - 1, freed |-> sweep.freed + 1]
  <1> DEFINE l == sweep.left
             f == sweep.freed
  <1>1. /\ oldRing = None /\ QLen = Span - f /\ f \in Nat /\ l \in Nat /\ l <= QLen
        /\ sweep = [qp |-> sweep.qp, left |-> l, freed |-> f]
        /\ \A i \in 1..QLen : Q[i] = Cqe(ring, size, cons + ((i - 1) + (IF i <= l THEN 0 ELSE f)))
    BY QClean
  <1>2. Span \in Nat /\ cons \in Int /\ Span' = Span BY SpanFacts DEF RingInv, Span
  <1>3. sweep' = [qp |-> sweep.qp, left |-> l - 1, freed |-> f + 1] BY <1>1
  <1>4. QLen' = QLen - 1
    <2>1. QLen' = Span' - sweep'.freed BY <1>1 DEF QLen, Dropped
    <2> QED BY <1>1, <1>2, <1>3, <2>1
  <1>5. ASSUME NEW i \in 1..QLen-1 PROVE Q'[i] = IF i < l THEN Q[i] ELSE Q[i + 1]
    <2>1. Q'[i] = Cqe(ring, size, cons + ((i - 1) + (IF i <= l - 1 THEN 0 ELSE f + 1)))
      BY <1>3, <1>4 DEF Q
    <2> HIDE DEF l, f
    <2>2. QLen \in Int /\ i \in 1..QLen /\ i + 1 \in 1..QLen /\ (i <= l - 1 <=> i < l) BY <1>1, <1>2
    <2>3. CASE i < l
      <3>1. i <= l - 1 /\ i <= l BY <1>1, <2>3
      <3>2. Q[i] = Cqe(ring, size, cons + ((i - 1) + 0)) BY <1>1, <2>2, <3>1
      <3> QED BY <2>1, <2>3, <3>1, <3>2
    <2>4. CASE ~(i < l)
      <3>1. ~(i <= l - 1) /\ ~(i + 1 <= l) /\ (i - 1) + (f + 1) = ((i + 1) - 1) + f BY <1>1, <2>4
      <3>2. Q[i + 1] = Cqe(ring, size, cons + (((i + 1) - 1) + f)) BY <1>1, <2>2, <3>1
      <3> QED BY <2>1, <2>4, <3>1, <3>2
    <2> QED BY <2>3, <2>4
  <1>6. Bits' BY <1>1, <1>2 DEF RingInv, Bits
  <1>7. l \in 1..QLen BY <1>1, <1>2
  <1> QED BY <1>2, <1>3, <1>4, <1>5, <1>6, <1>7 DEF Gone, RingInv, RingTypes

LEMMA RingKeeps ==
  ASSUME RingInv, lock = "clean", sweep.left > 0,
         sweep' = [sweep EXCEPT !.left = sweep.left - 1],
         IF sweep.freed > 0 THEN MoveUp(sweep.left - 1, Q[sweep.left]) ELSE ring' = ring,
         UNCHANGED <<size, cons, prod, lock, oldRing>>
  PROVE  /\ Same /\ Span' = Span /\ Bits' /\ RingTypes'
         /\ sweep' = [qp |-> sweep.qp, left |-> sweep.left - 1, freed |-> sweep.freed]
  <1> DEFINE l == sweep.left
             f == sweep.freed
             x == cons + ((l - 1) + f)
             c == Q[l]
  <1>1. /\ oldRing = None /\ QLen = Span - f /\ f \in Nat /\ l \in Nat /\ l <= QLen
        /\ sweep = [qp |-> sweep.qp, left |-> l, freed |-> f]
        /\ \A i \in 1..QLen : Q[i] = Cqe(ring, size, cons + ((i - 1) + (IF i <= l THEN 0 ELSE f)))
    BY QClean
  <1>2. /\ Span \in Nat /\ cons \in Int /\ Span' = Span /\ size \in CqSizes /\ size \in Nat \ {0}
        /\ ring \in [0..size-1 -> Cell] /\ Span <= size - 1
    BY <1>1, SpanFacts DEF RingInv, RingTypes, Span, Fits
  <1>3. sweep' = [qp |-> sweep.qp, left |-> l - 1, freed |-> f] BY <1>1
  <1>4. QLen' = QLen
    <2>1. QLen' = Span' - sweep'.freed BY <1>1 DEF QLen, Dropped
    <2> QED BY <1>1, <1>2, <1>3, <2>1
  <1>5. l \in 1..QLen /\ QLen \in Int /\ x \in Int /\ l <= l
        /\ c = Cqe(ring, size, cons + ((l - 1) + 0)) /\ cons + ((l - 1) + 0) \in Int
    <2>1. l \in 1..QLen /\ QLen \in Int /\ x \in Int /\ l <= l BY <1>1, <1>2
    <2>2. c = Cqe(ring, size, cons + ((l - 1) + (IF l <= l THEN 0 ELSE f))) BY <1>1, <2>1
    <2> QED BY <1>1, <1>2, <2>1, <2>2
  <1> DEFINE r2 == [ring EXCEPT ![x % size] = [owner |-> ring[x % size].owner, cqe |-> c]]
  <1>6. x % size \in 0..size-1 /\ ring[x % size] \in Cell /\ (cons + ((l - 1) + 0)) % size \in 0..size-1
    <2> HIDE DEF l, f, x
    <2> QED BY <1>2, <1>5, BitFacts
  <1>7. c \in Completions \cup {None, ResizeMark}
    <2> HIDE DEF l, f, x, c
    <2> QED BY <1>2, <1>5, <1>6 DEF Cqe, Cell
  <1>8. f > 0 => ring' = r2
    <2>1. Dest(l - 1) = x % size
      <3> DEFINE j == (l - 1) + f
      <3>1. j \in Int /\ cons + (l - 1) + f = cons + j BY <1>1, <1>2
      <3>2. CqIndex(cons + j) % size = (cons + j) % size
        <4> HIDE DEF j
        <4> QED BY <1>2, <3>1, PlaceWraps
      <3> QED BY <3>1, <3>2 DEF Dest
    <2>2. f > 0 => ring' = [ring EXCEPT ![x % size].cqe = c]
      <3> HIDE DEF x
      <3> QED BY <2>1 DEF MoveUp
    <2>3. [ring EXCEPT ![x % size].cqe = c] = r2
      <3> HIDE DEF x, c
      <3>1. [ring[x % size] EXCEPT !.cqe = c] = [owner |-> ring[x % size].owner, cqe |-> c]
        BY <1>6 DEF Cell
      <3> QED BY <1>2, <1>6, <3>1
    <2> QED BY <2>2, <2>3
  <1> HIDE DEF r2
  <1>9. ring' = IF f > 0 THEN r2 ELSE ring
    BY <1>8
  <1>10. ASSUME NEW m \in Int, m < (l - 1) + f + size, (l - 1) + f < m + size, m # (l - 1) + f
         PROVE  Cqe(ring', size, cons + m) = Cqe(ring, size, cons + m)
    <2> DEFINE y == cons + m
    <2>1. y \in Int /\ x - y < size /\ y - x < size /\ x # y
      <3>1. l \in Int /\ f \in Int /\ size \in Int /\ cons \in Int BY <1>1, <1>2
      <3> HIDE DEF l, f
      <3> QED BY <1>10, <3>1
    <2> HIDE DEF x, y
    <2>2. x % size # y % size /\ y % size \in 0..size-1
      BY <1>2, <1>5, <2>1, SlotsApart, BitFacts
    <2>3. r2[y % size] = ring[y % size] BY <1>2, <1>6, <2>2 DEF r2
    <2> QED BY <1>9, <2>3 DEF Cqe, y
  <1>11. Cqe(ring', size, x) = c
    <2>1. CASE f > 0
      <3>1. r2[x % size] = [owner |-> ring[x % size].owner, cqe |-> c]
        <4> HIDE DEF x, c, f
        <4> QED BY <1>2, <1>6 DEF r2
      <3> QED BY <1>9, <2>1, <3>1 DEF Cqe
    <2>2. CASE ~(f > 0)
      <3>1. f = 0 BY <1>1, <2>2
      <3> QED BY <1>5, <1>9, <2>2, <3>1
    <2> QED BY <2>1, <2>2
  <1>12. ASSUME NEW i \in 1..QLen PROVE Q'[i] = Q[i]
    <2>1. Q'[i] = Cqe(ring', size, cons + ((i - 1) + (IF i <= l - 1 THEN 0 ELSE f)))
      BY <1>3, <1>4 DEF Q
    <2>2. CASE i < l
      <3>1. i <= l - 1 /\ i <= l /\ (i - 1) + 0 \in Int /\ (i - 1) + 0 < (l - 1) + f + size
            /\ (l - 1) + f < ((i - 1) + 0) + size /\ (i - 1) + 0 # (l - 1) + f
        BY <1>1, <1>2, <2>2
      <3>2. Cqe(ring', size, cons + ((i - 1) + 0)) = Cqe(ring, size, cons + ((i - 1) + 0))
        <4> HIDE DEF l, f
        <4> QED BY <1>10, <3>1
      <3> QED BY <1>1, <2>1, <3>1, <3>2
    <2>3. CASE i = l
      <3>1. ~(i <= l - 1) BY <1>1, <2>3
      <3> QED BY <1>11, <2>1, <2>3, <3>1
    <2>4. CASE i > l
      <3>1. ~(i <= l - 1) /\ ~(i <= l) /\ (i - 1) + f \in Int /\ (i - 1) + f < (l - 1) + f + size
            /\ (l - 1) + f < ((i - 1) + f) + size /\ (i - 1) + f # (l - 1) + f
        BY <1>1, <1>2, <2>4
      <3>2. Cqe(ring', size, cons + ((i - 1) + f)) = Cqe(ring, size, cons + ((i - 1) + f))
        <4> HIDE DEF l, f
        <4> QED BY <1>10, <3>1
      <3> QED BY <1>1, <2>1, <3>1, <3>2
    <2> QED BY <1>1, <1>2, <2>2, <2>3, <2>4
  <1>13. ring' \in [0..size-1 -> Cell] /\ \A y \in 0..size-1 : ring'[y].owner = ring[y].owner
    <2>1. [owner |-> ring[x % size].owner, cqe |-> c] \in Cell
      <3> HIDE DEF x, c
      <3> QED BY <1>6, <1>7 DEF Cell
    <2> HIDE DEF x, c, f, l
    <2> QED BY <1>2, <1>6, <1>9, <2>1 DEF r2
  <1>14. Holds(ring', size, cons, Span)
    <2>1. Holds(ring, size, cons, Span) BY <1>1 DEF RingInv, Bits
    <2>2. \A k \in 0..size-1 : (cons + k) % size \in 0..size-1
      <3>1. \A k \in 0..size-1 : cons + k \in Int BY <1>2
      <3> QED BY <1>2, <3>1, BitFacts
    <2> QED BY <1>13, <2>1, <2>2 DEF Holds
  <1>15. Bits' BY <1>1, <1>2, <1>14 DEF Bits
  <1> QED BY <1>2, <1>3, <1>4, <1>12, <1>13, <1>15 DEF Same, RingInv, RingTypes

(* The consumer index jumps over the entries that were dropped.            *)
LEMMA RingCleaned ==
  ASSUME RingInv, lock = "clean", sweep.left = 0, lock' = None,
         cons' = CqIndex(cons + sweep.freed), UNCHANGED <<ring, size, prod, oldRing>>
  PROVE  /\ Same /\ Span' = QLen /\ Bits' /\ RingTypes'
         /\ sweep.freed = 0 => cons' = cons
  <1> DEFINE f == sweep.freed
  <1>1. /\ oldRing = None /\ QLen = Span - f /\ f \in Nat /\ 0 <= QLen /\ lock' # "clean"
        /\ \A i \in 1..QLen : Q[i] = Cqe(ring, size, cons + ((i - 1) + (IF i <= 0 THEN 0 ELSE f)))
    BY QClean, LockNames
  <1>2. /\ Span \in Nat /\ cons \in Int /\ size \in CqSizes /\ size \in Nat \ {0}
        /\ Span <= size /\ RingTypes /\ Holds(ring, size, cons, Span) /\ f \in 0..Span
    BY <1>1, SpanFacts DEF RingInv, RingTypes, Fits, Bits
  <1>3. /\ Span' = Span - f /\ Bits' /\ RingTypes'
        /\ \A m \in Int : Cqe(ring, size, cons' + m) = Cqe(ring, size, cons + (f + m))
    <2> HIDE DEF f
    <2>1. cons' = CqIndex(cons + f) BY DEF f
    <2> QED BY <1>1, <1>2, <2>1, ConsMoves
  <1>4. QLen' = QLen /\ Span' = QLen
    BY <1>1, <1>2, <1>3 DEF QLen, Dropped
  <1>5. ASSUME NEW i \in 1..QLen PROVE Q'[i] = Q[i]
    <2>1. Q'[i] = Cqe(ring, size, cons' + (i - 1))
      BY <1>1, <1>4 DEF Q
    <2>2. i - 1 \in Int /\ f + (i - 1) = (i - 1) + f /\ ~(i <= 0) BY <1>1, <1>2
    <2> HIDE DEF f
    <2> QED BY <1>1, <1>3, <2>1, <2>2
  <1>6. f = 0 => cons' = cons
    <2>1. CqMod \in Nat \ {0} /\ cons + 0 = cons BY SpanFacts DEF RingInv
    <2> QED BY <2>1, RemSmall DEF CqIndex, RingInv, RingTypes
  <1> QED BY <1>3, <1>4, <1>5, <1>6 DEF Same

(* The mark of a resized ring is where the only one is.                    *)
LEMMA MarkFound ==
  ASSUME NEW CONSTANT o, MarkedAt(o)', oldRing'.size \in Nat
  PROVE  Outstanding' = o
  <1> DEFINE M(p) == MarkedAt(p)'
  <1>1. ASSUME NEW CONSTANT p, MarkedAt(p)' PROVE p = o
    <2>1. /\ p \in 0..oldRing'.size /\ o \in 0..oldRing'.size
          /\ OldCqe(p)' = ResizeMark /\ OldCqe(o)' = ResizeMark
          /\ \A m \in 0..p-1 : OldCqe(m)' # ResizeMark
          /\ \A m \in 0..o-1 : OldCqe(m)' # ResizeMark
      BY <1>1 DEF MarkedAt, OldCqe
    <2>2. ~(p < o)
      <3>1. p < o => p \in 0..o-1 BY <2>1
      <3> QED BY <2>1, <3>1 DEF OldCqe
    <2>3. ~(o < p)
      <3>1. o < p => o \in 0..p-1 BY <2>1
      <3> QED BY <2>1, <3>1 DEF OldCqe
    <2> QED BY <2>1, <2>2, <2>3
  <1>2. Outstanding' = CHOOSE n \in 0..oldRing'.size : MarkedAt(n)'
    BY DEF Outstanding, MarkedAt
  <1>3. o \in 0..oldRing'.size BY DEF MarkedAt
  <1> QED BY <1>1, <1>2, <1>3

LEMMA CqIndexNext ==
  ASSUME NEW x \in Int
  PROVE  CqIndex(CqIndex(x) + 1) = CqIndex(x + 1)
  <1> DEFINE one == 1
  <1>1. one \in Int /\ CqMod \in Nat \ {0} BY CompletionQueueAssumption
  <1> HIDE DEF one
  <1>2. ((x % CqMod) + one) % CqMod = (x + one) % CqMod BY <1>1, RemAdd
  <1> QED BY <1>2 DEF CqIndex, one

(* The adapter moves to a new ring.                                        *)
LEMMA RingCommanded ==
  ASSUME RingInv, ResizeCommand, \A i \in 1..QLen : Q[i] \in Completions
  PROVE  /\ Same /\ Span' = Span + 1 /\ Bits' /\ RingTypes'
         /\ size' = target /\ oldRing' # None
         /\ \E s \in CqSizes : oldRing' \in [size : {s}, ring : [0..s-1 -> Cell]]
  <1>0. PICK n \in Nat : n = Span BY SpanFacts DEF RingInv
  <1> DEFINE x == cons + n
             v == [owner |-> Bit(x, size), cqe |-> ResizeMark]
             r2 == [ring EXCEPT ![x % size] = v]
  <1>1. /\ lock = "resize" /\ lock' = lock /\ oldRing = None /\ target \in CqSizes /\ sweep' = sweep
        /\ size' = target /\ prod' = CqIndex(prod + 1) /\ cons' = cons
        /\ ring' = EmptyRing(prod', target) /\ lock # "clean"
    BY LockNames DEF ResizeCommand, RingInv, Jobs
  <1>2. /\ n \in Nat /\ cons \in Int /\ size \in CqSizes /\ size \in Nat \ {0} /\ n <= size - 1
        /\ ring \in [0..size-1 -> Cell] /\ x \in Int /\ prod = CqIndex(x) /\ RingTypes
        /\ CqMod \in Nat \ {0} /\ CqMod >= 2 * size /\ prod \in Int
    <2>1. RingTypes /\ Span <= size - 1 BY <1>1 DEF RingInv, Fits
    <2>2. /\ size \in CqSizes /\ ring \in [0..size-1 -> Cell] /\ cons \in Int /\ prod \in Int
          /\ size \in Nat \ {0} /\ CqMod \in Nat \ {0} /\ prod = CqIndex(x)
      BY <1>0, <2>1, SpanFacts DEF RingTypes
    <2>3. CqMod >= 2 * size BY <2>2, SizeFacts
    <2> QED BY <1>0, <2>1, <2>2, <2>3
  <1>3. Span' = n + 1
    <2>1. Span + 1 < CqMod BY <1>0, <1>2
    <2> QED BY <1>0, <1>1, <1>2, <2>1, SpanGrows
  <1>4. oldRing' = [size |-> size, ring |-> r2]
    <2>1. prod % size = x % size /\ Bit(prod, size) = Bit(x, size)
      <3> HIDE DEF x
      <3> QED BY <1>2, BitFacts DEF CqIndex
    <2> QED BY <2>1 DEF ResizeCommand
  <1>5. /\ r2 \in [0..size-1 -> Cell] /\ x % size \in 0..size-1
    <2>1. x % size \in 0..size-1 /\ Bit(x, size) \in {0, 1}
      <3> HIDE DEF x
      <3> QED BY <1>2, BitFacts
    <2>2. v \in Cell BY <2>1 DEF Cell
    <2> HIDE DEF v, x
    <2> QED BY <1>2, <2>1, <2>2
  <1>6. oldRing' # None
    <2>1. r2 \in UNION {[0..s-1 -> Cell] : s \in CqSizes}
      <3> HIDE DEF r2
      <3> QED BY <1>2, <1>5
    <2>2. oldRing' \in OldRing
      <3> HIDE DEF r2
      <3> QED BY <1>2, <1>4, <2>1 DEF OldRing
    <2> QED BY <2>2, NoneAssumption
  <1>7. \E s \in CqSizes : oldRing' \in [size : {s}, ring : [0..s-1 -> Cell]]
    <2> HIDE DEF r2
    <2> QED BY <1>2, <1>4, <1>5
  <1>8. QLen = n /\ \A i \in 1..QLen : Q[i] = Cqe(ring, size, cons + (i - 1))
    BY <1>0, <1>1, QPlain
  <1>9. QLen' = n
    <2>1. QLen' = Span' - 1 BY <1>6 DEF QLen
    <2> QED BY <1>2, <1>3, <2>1
  <1>10. ASSUME NEW m \in 0..n-1
         PROVE  r2[(cons + m) % size] = ring[(cons + m) % size] /\ (cons + m) % size \in 0..size-1
    <2> DEFINE y == cons + m
    <2>1. y \in Int /\ x - y < size /\ y - x < size /\ x # y
      <3>1. m \in Int /\ m < n /\ 0 <= m BY <1>2
      <3> QED BY <1>2, <3>1
    <2> HIDE DEF x, y, v
    <2>2. x % size # y % size /\ y % size \in 0..size-1
      BY <1>2, <2>1, SlotsApart, BitFacts
    <2> QED BY <1>2, <2>2 DEF y
  <1>11. ASSUME NEW k \in 0..n
         PROVE  OldCqe(k)' = r2[(cons + k) % size].cqe
    <2>1. k \in Int /\ cons + k \in Int BY <1>2
    <2>2. CqIndex(cons + k) % size = (cons + k) % size
      BY <1>2, <2>1, PlaceWraps
    <2>3. OldCqe(k)' = oldRing'.ring[CqIndex(cons + k) % oldRing'.size].cqe
      BY <1>1 DEF OldCqe
    <2> HIDE DEF r2
    <2> QED BY <1>4, <2>2, <2>3
  <1>12. MarkedAt(n)'
    <2>1. n \in 0..size BY <1>2
    <2>2. OldCqe(n)' = ResizeMark
      <3>1. n \in 0..n BY <1>2
      <3>2. r2[x % size].cqe = ResizeMark
        <4> HIDE DEF x
        <4> QED BY <1>2, <1>5
      <3>3. OldCqe(n)' = r2[(cons + n) % size].cqe
        <4> HIDE DEF r2
        <4> QED BY <1>11, <3>1
      <3> QED BY <3>2, <3>3
    <2>3. ASSUME NEW m \in 0..n-1 PROVE OldCqe(m)' # ResizeMark
      <3>1. m \in 0..n /\ m + 1 \in 1..QLen /\ (m + 1) - 1 = m BY <1>2, <1>8
      <3>2. OldCqe(m)' = ring[(cons + m) % size].cqe
        <4> HIDE DEF r2
        <4> QED BY <1>10, <1>11, <3>1
      <3>3. Q[m + 1] = ring[(cons + m) % size].cqe BY <1>8, <3>1 DEF Cqe
      <3>4. Q[m + 1] \in Completions BY <3>1
      <3>5. ResizeMark \notin Completions
        <4>1. None \notin QPs BY NoneAssumption
        <4> QED BY <4>1 DEF ResizeMark, Completions
      <3> QED BY <3>2, <3>3, <3>4, <3>5
    <2> QED BY <1>4, <2>1, <2>2, <2>3 DEF MarkedAt
  <1>13. Outstanding' = n
    <2>1. oldRing'.size \in Nat BY <1>2, <1>4
    <2> QED BY <1>12, <2>1, MarkFound
  <1>14. Holds(ring', target, cons + n + 1, 0) /\ ring' \in [0..target-1 -> Cell]
    <2>1. prod' \in Int /\ prod' \in 0..CqMod-1
      <3>1. prod + 1 \in Int BY <1>2
      <3> QED BY <1>1, <1>2, <3>1, DivRem DEF CqIndex
    <2>2. Holds(ring', target, prod', 0) /\ ring' \in [0..target-1 -> Cell]
      BY <1>1, <2>1, HoldsEmpty
    <2>3. prod' = (x + 1) % CqMod
      <3>1. CqIndex(CqIndex(x) + 1) = CqIndex(x + 1)
        <4> HIDE DEF x
        <4> QED BY <1>2, CqIndexNext
      <3> HIDE DEF x
      <3> QED BY <1>1, <1>2, <3>1 DEF CqIndex
    <2>4. x + 1 \in Int /\ x + 1 = cons + n + 1 BY <1>2
    <2>5. Holds(ring', target, x + 1, 0)
      <3> HIDE DEF x
      <3> QED BY <1>1, <2>2, <2>3, <2>4, HoldsWraps
    <2> QED BY <2>2, <2>4, <2>5
  <1>15. Bits'
    <2>1. Span' - n - 1 = 0 /\ n < Span' BY <1>0, <1>3
    <2>2. MarkedAt(Outstanding)'
      BY <1>12, <1>13 DEF MarkedAt, OldCqe
    <2>3. Outstanding' < Span' /\ Holds(ring', size', cons' + Outstanding' + 1, Span' - Outstanding' - 1)
      BY <1>1, <1>13, <1>14, <2>1
    <2> QED BY <1>6, <2>2, <2>3 DEF Bits
  <1>16. RingTypes'
    <2>1. prod + 1 \in Int BY <1>2
    <2>2. prod' \in 0..CqMod-1 BY <1>1, <1>2, <2>1, DivRem DEF CqIndex
    <2> QED BY <1>1, <1>2, <1>14, <2>2 DEF RingTypes
  <1>17. ASSUME NEW i \in 1..QLen PROVE Q'[i] = Q[i]
    <2>1. i - 1 \in 0..n-1 /\ i \in 1..n /\ i <= n BY <1>2, <1>8
    <2>2. Q'[i] = Cqe(oldRing'.ring, oldRing'.size, cons + (i - 1))
      <3> HIDE DEF r2, x, v
      <3> QED BY <1>1, <1>6, <1>9, <1>13, <2>1 DEF Q
    <2>3. Cqe(oldRing'.ring, oldRing'.size, cons + (i - 1)) = ring[(cons + (i - 1)) % size].cqe
      <3> HIDE DEF r2
      <3> QED BY <1>4, <1>10, <2>1 DEF Cqe
    <2> QED BY <1>8, <2>2, <2>3 DEF Cqe
  <1> QED BY <1>0, <1>1, <1>3, <1>6, <1>7, <1>8, <1>9, <1>15, <1>16, <1>17 DEF Same

(* Software takes over the new ring.                                       *)
LEMMA RingCopied ==
  ASSUME RingInv, ResizeCopy
  PROVE  Same /\ Span' = QLen /\ Bits' /\ RingTypes'
  <1> DEFINE o == Outstanding
             y(j) == (cons + 1) + j
             K(c) == {k \in 0..o-1 : CqIndex(cons + k + 1) % size = c}
             best(c) == CHOOSE k \in K(c) : \A m \in K(c) : m <= k
             cell(k) == [owner |-> Bit(CqIndex(cons + k + 1), size), cqe |-> OldCqe(k)]
  <1>1. /\ oldRing # None /\ oldRing' = None /\ lock' # "clean" /\ UNCHANGED <<size, prod>>
        /\ cons' = CqIndex(cons + 1) /\ ring' = CopyCqes(o)
    BY LockNames DEF ResizeCopy
  <1>2. /\ QLen = Span - 1 /\ oldRing.size \in CqSizes /\ oldRing.ring \in [0..oldRing.size-1 -> Cell]
        /\ o \in 0..QLen /\ o \in Nat
        /\ \A i \in 1..QLen : Q[i] = IF i <= o THEN Cqe(oldRing.ring, oldRing.size, cons + (i - 1))
                                               ELSE Cqe(ring, size, cons + i)
        /\ \A k \in Int : OldCqe(k) = Cqe(oldRing.ring, oldRing.size, cons + k)
    BY <1>1, QResized
  <1>3. /\ RingTypes /\ size \in CqSizes /\ ring \in [0..size-1 -> Cell] /\ cons \in Int
        /\ size \in Nat \ {0} /\ QLen \in Nat /\ QLen <= size - 1
        /\ Holds(ring, size, cons + o + 1, Span - o - 1)
        /\ o < Span /\ Span \in Nat
    <2>1. RingTypes /\ QLen <= size - 1 /\ Outstanding < Span
          /\ Holds(ring, size, cons + Outstanding + 1, Span - Outstanding - 1)
      BY <1>1 DEF RingInv, Fits, Bits
    <2>2. /\ size \in CqSizes /\ ring \in [0..size-1 -> Cell] /\ cons \in Int
          /\ size \in Nat \ {0} /\ Span \in Nat
      BY <2>1, SpanFacts DEF RingTypes
    <2>3. QLen \in Nat
      <3> HIDE DEF o
      <3> QED BY <1>2, <2>2
    <2> QED BY <2>1, <2>2, <2>3
  <1> HIDE DEF o
  <1>4. ring' = [c \in 0..size-1 |-> IF K(c) = {} THEN ring[c] ELSE cell(best(c))]
    BY <1>1 DEF CopyCqes
  <1>5. ASSUME NEW j \in 0..size-1
        PROVE  /\ y(j) \in Int /\ y(j) % size \in 0..size-1
               /\ j < o => K(y(j) % size) = {j}
               /\ j >= o => K(y(j) % size) = {}
    <2>1. y(j) \in Int /\ j \in Int BY <1>3
    <2>2. y(j) % size \in 0..size-1
      <3> HIDE DEF y
      <3> QED BY <1>3, <2>1, BitFacts
    <2>3. ASSUME NEW k \in 0..o-1 PROVE CqIndex(cons + k + 1) % size = y(j) % size <=> k = j
      <3>1. k \in 0..size-1 /\ y(k) \in Int /\ k \in Int /\ cons + k + 1 = y(k) BY <1>2, <1>3
      <3>2. CqIndex(y(k)) % size = y(k) % size
        <4> HIDE DEF y
        <4> QED BY <1>3, <3>1, BitFacts DEF CqIndex
      <3>3. y(k) - y(j) < size /\ y(j) - y(k) < size /\ (y(k) = y(j) <=> k = j)
        BY <1>3, <2>1, <3>1
      <3>4. y(k) % size = y(j) % size <=> k = j
        <4> HIDE DEF y
        <4>1. y(k) % size = y(j) % size => y(k) = y(j)
          BY <1>3, <2>1, <3>1, <3>3, SlotsApart
        <4> QED BY <3>3, <4>1
      <3> HIDE DEF y
      <3> QED BY <3>1, <3>2, <3>4
    <2>4. j < o => j \in 0..o-1 BY <1>2
    <2>5. j >= o => j \notin 0..o-1 BY <1>2, <2>1
    <2> HIDE DEF y
    <2> QED BY <2>1, <2>2, <2>3, <2>4, <2>5
  <1>6. ASSUME NEW j \in 0..size-1, j < o
        PROVE  ring'[y(j) % size] = [owner |-> Bit(y(j), size), cqe |-> OldCqe(j)]
    <2> DEFINE c == y(j) % size
    <2>1. c \in 0..size-1 /\ K(c) = {j} BY <1>5, <1>6
    <2>2. best(c) = j
      <3> HIDE DEF c, K
      <3>1. j <= j /\ j \in K(c) BY <1>3, <2>1
      <3> QED BY <2>1, <3>1
    <2>3. ring'[c] = cell(j)
      <3> HIDE DEF c, K, cell, best
      <3> QED BY <1>4, <2>1, <2>2
    <2>4. Bit(CqIndex(cons + j + 1), size) = Bit(y(j), size)
      <3>1. cons + j + 1 = y(j) /\ y(j) \in Int BY <1>3
      <3> HIDE DEF y
      <3> QED BY <1>3, <3>1, BitFacts DEF CqIndex
    <2> QED BY <2>3, <2>4
  <1>7. ASSUME NEW j \in 0..size-1, j >= o
        PROVE  ring'[y(j) % size] = ring[y(j) % size]
    <2> HIDE DEF cell, best
    <2> QED BY <1>4, <1>5, <1>7
  <1>8. \A k \in Int : OldCqe(k) \in Completions \cup {None, ResizeMark}
    <2> SUFFICES ASSUME NEW k \in Int PROVE OldCqe(k) \in Completions \cup {None, ResizeMark}
      OBVIOUS
    <2>1. cons + k \in Int /\ oldRing.size \in CqSizes BY <1>2, <1>3
    <2>2. (cons + k) % oldRing.size \in 0..oldRing.size-1 BY <2>1, BitFacts
    <2>3. oldRing.ring[(cons + k) % oldRing.size] \in Cell BY <1>2, <2>2
    <2> QED BY <1>2, <2>3 DEF Cqe, Cell
  <1>9. ring' \in [0..size-1 -> Cell]
    <2>1. ASSUME NEW c \in 0..size-1 PROVE ring'[c] \in Cell
      <3>1. PICK j \in 0..size-1 : y(j) % size = c
        <4> DEFINE j == (c - (cons + 1)) % size
        <4>1. cons + 1 \in Int BY <1>3
        <4>2. j \in 0..size-1 /\ ((cons + 1) + j) % size = c
          BY <1>3, <4>1, SlotPlace
        <4> HIDE DEF j
        <4> QED BY <4>2
      <3>2. CASE j < o
        <4>1. Bit(y(j), size) \in {0, 1} /\ j \in Int
          <5>1. y(j) \in Int BY <1>5
          <5> HIDE DEF y
          <5> QED BY <1>3, <5>1, BitFacts
        <4>2. ring'[c] = [owner |-> Bit(y(j), size), cqe |-> OldCqe(j)]
          BY <1>6, <3>1, <3>2
        <4>3. OldCqe(j) \in Completions \cup {None, ResizeMark} BY <1>8, <4>1
        <4> HIDE DEF y
        <4> QED BY <4>1, <4>2, <4>3 DEF Cell
      <3>3. CASE j >= o
        <4>1. ring'[c] = ring[c] BY <1>7, <3>1, <3>3
        <4> QED BY <1>3, <4>1
      <3> QED BY <1>2, <1>3, <3>2, <3>3
    <2>2. ring' = [c \in 0..size-1 |-> ring'[c]] BY <1>4
    <2> QED BY <2>1, <2>2
  <1>10. Span' = QLen
    <2>1. 1 \in Nat /\ 1 <= Span BY <1>2, <1>3
    <2>2. Span' = Span - 1 BY <1>1, <1>3, <2>1, SpanShrinks
    <2> QED BY <1>2, <2>2
  <1>11. Holds(ring', size, cons + 1, QLen)
    <2> SUFFICES ASSUME NEW j \in 0..size-1
                 PROVE  (ring'[y(j) % size].owner = Bit(y(j), size)) <=> j < QLen
      BY DEF Holds
    <2>1. CASE j < o
      <3>1. ring'[y(j) % size].owner = Bit(y(j), size)
        <4> HIDE DEF y
        <4>1. ring'[y(j) % size] = [owner |-> Bit(y(j), size), cqe |-> OldCqe(j)]
          BY <1>6, <2>1, Zenon
        <4> QED BY <4>1
      <3>2. j < QLen BY <1>2, <1>3, <2>1
      <3> QED BY <3>1, <3>2
    <2>2. CASE j >= o
      <3>1. ring'[y(j) % size] = ring[y(j) % size] BY <1>7, <2>2
      <3>2. j - o \in 0..size-1 /\ (cons + o + 1) + (j - o) = y(j) /\ (j - o < Span - o - 1 <=> j < QLen)
        BY <1>2, <1>3, <2>2
      <3>3. (ring[((cons + o + 1) + (j - o)) % size].owner = Bit((cons + o + 1) + (j - o), size))
              <=> j - o < Span - o - 1
        BY <1>3, <3>2 DEF Holds
      <3> HIDE DEF y
      <3> QED BY <3>1, <3>2, <3>3
    <2> QED BY <1>2, <1>3, <2>1, <2>2
  <1>12. Bits'
    <2>1. cons + 1 \in Int BY <1>3
    <2>2. Holds(ring', size, cons', Span') BY <1>1, <1>3, <1>10, <1>11, <2>1, HoldsWraps DEF CqIndex
    <2> QED BY <1>1, <2>2 DEF Bits
  <1>13. RingTypes'
    <2>1. cons + 1 \in Int /\ CqMod \in Nat \ {0} BY <1>3, SpanFacts
    <2>2. cons' \in 0..CqMod-1 BY <1>1, <2>1, DivRem DEF CqIndex
    <2> QED BY <1>1, <1>3, <1>9, <2>2 DEF RingTypes
  <1>14. QLen' = QLen
    BY <1>1, <1>3, <1>10 DEF QLen, Dropped
  <1>15. ASSUME NEW i \in 1..QLen PROVE Q'[i] = Q[i]
    <2>1. Q'[i] = Cqe(ring', size, cons' + (i - 1))
      BY <1>1, <1>14 DEF Q
    <2> DEFINE j == i - 1
    <2>2. j \in 0..size-1 /\ j \in Int /\ y(j) = cons + i /\ (i <= o <=> j < o) /\ cons + 1 \in Int
      <3>1. QLen \in Int /\ size \in Int /\ cons \in Int /\ o \in Int /\ QLen <= size - 1 BY <1>2, <1>3
      <3> QED BY <3>1
    <2>3. Q'[i] = Cqe(ring', size, y(j))
      <3> HIDE DEF j
      <3>1. Cqe(ring', size, CqIndex(cons + 1) + j) = Cqe(ring', size, (cons + 1) + j)
        BY <1>3, <2>2, CqeWraps
      <3> QED BY <1>1, <2>1, <3>1 DEF j
    <2> HIDE DEF j
    <2>4. CASE j < o
      <3>1. Cqe(ring', size, y(j)) = OldCqe(j)
        <4> HIDE DEF y
        <4>1. ring'[y(j) % size] = [owner |-> Bit(y(j), size), cqe |-> OldCqe(j)]
          BY <1>6, <2>2, <2>4, Zenon
        <4> QED BY <4>1 DEF Cqe
      <3>2. Q[i] = Cqe(oldRing.ring, oldRing.size, cons + j) BY <1>2, <2>2, <2>4 DEF j
      <3> HIDE DEF y
      <3> QED BY <1>2, <2>2, <2>3, <3>1, <3>2
    <2>5. CASE j >= o
      <3>1. ~(i <= o) BY <1>2, <2>2, <2>5
      <3>2. Q[i] = Cqe(ring, size, y(j)) BY <1>2, <2>2, <3>1
      <3>3. Cqe(ring', size, y(j)) = Cqe(ring, size, y(j)) BY <1>7, <2>2, <2>5 DEF Cqe
      <3> QED BY <2>3, <3>2, <3>3
    <2> QED BY <1>2, <2>2, <2>4, <2>5
  <1> QED BY <1>10, <1>12, <1>13, <1>14, <1>15 DEF Same

(***************************************************************************)
(* The send queues, without the completions.                               *)
(***************************************************************************)
LEMMA Multiple ==
  ASSUME NEW M \in Nat \ {0}, NEW N \in Nat \ {0}, N % M = 0
  PROVE  M <= N
  <1>1. N \in Int OBVIOUS
  <1>2. PICK q \in Int : N = q * M + (N % M) BY <1>1, DivRem
  <1>3. N = q * M BY <1>2
  <1>4. q >= 1
    <2>1. q <= 0 => q * M <= 0 OBVIOUS
    <2> QED BY <1>3, <2>1
  <1>5. q * M >= M BY <1>4
  <1> QED BY <1>3, <1>5

LEMMA SqConsts ==
  /\ SqSize \in Nat \ {0} /\ WqeMod \in Nat \ {0} /\ IndexMod \in Nat \ {0}
  /\ SqSpare \in Nat /\ SqSpare >= 1 /\ SqMax \in Nat /\ SqMax + SqSpare = SqSize
  /\ SqSize <= WqeMod /\ WqeMod <= IndexMod /\ SqSize <= IndexMod
  /\ WqeMod % SqSize = 0 /\ IndexMod % WqeMod = 0 /\ IndexMod % SqSize = 0
  <1>1. /\ SqSize \in Nat /\ SqSpare \in 1..SqSize-1 /\ WqeMod \in Nat \ {0} /\ IndexMod \in Nat \ {0}
        /\ WqeMod % SqSize = 0 /\ IndexMod % WqeMod = 0
    BY SendQueueAssumption
  <1>2. /\ SqSize \in Nat \ {0} /\ SqSpare \in Nat /\ SqSpare >= 1 /\ SqMax \in Nat /\ SqMax + SqSpare = SqSize
    BY <1>1 DEF SqMax
  <1>3. SqSize <= WqeMod /\ WqeMod <= IndexMod BY <1>1, <1>2, Multiple
  <1>4. IndexMod % SqSize = 0
    <2>1. IndexMod \in Int BY <1>1
    <2>2. (IndexMod % WqeMod) % SqSize = IndexMod % SqSize BY <1>1, <1>2, <2>1, RemOfRem
    <2>3. 0 % SqSize = 0 BY <1>2, RemSmall
    <2> QED BY <1>1, <2>2, <2>3
  <1> QED BY <1>1, <1>2, <1>3, <1>4

LEMMA DistFacts ==
  ASSUME NEW a \in Index, NEW b \in Index
  PROVE  /\ Dist(a, b) \in 0..IndexMod-1 /\ Dist(a, b) \in Nat /\ Dist(a, b) \in Int
         /\ (a + Dist(a, b)) % IndexMod = b
         /\ Dist(a, b) = 0 <=> a = b
  <1> DEFINE M == IndexMod
  <1>1. M \in Nat \ {0} /\ a \in Int /\ b \in Int /\ b - a \in Int BY SqConsts DEF Index
  <1>2. Dist(a, b) \in 0..M-1 BY <1>1, DivRem DEF Dist
  <1>3. (a + ((b - a) % M)) % M = ((b - a) + a) % M
    <2> DEFINE x == b - a
    <2> HIDE DEF x
    <2> QED BY <1>1, RemAdd DEF x
  <1>4. (b - a) + a = b /\ b % M = b BY <1>1, RemSmall DEF Index
  <1>5. (a + Dist(a, b)) % M = b BY <1>3, <1>4 DEF Dist
  <1>6. a = b => Dist(a, b) = 0
    <2>1. a = b => b - a = 0 BY <1>1
    <2>2. 0 % M = 0 BY <1>1, RemSmall
    <2> QED BY <2>1, <2>2 DEF Dist
  <1>7. Dist(a, b) = 0 => a = b
    <2>1. a + 0 = a /\ a % M = a BY <1>1, RemSmall DEF Index
    <2> QED BY <1>5, <2>1
  <1> QED BY <1>1, <1>2, <1>5, <1>6, <1>7

(* The number d after a.                                                   *)
LEMMA DistThere ==
  ASSUME NEW a \in Index, NEW d \in 0..IndexMod-1
  PROVE  /\ (a + d) % IndexMod \in Index
         /\ Dist(a, (a + d) % IndexMod) = d
  <1> DEFINE M == IndexMod
  <1>1. M \in Nat \ {0} /\ a \in Int /\ d \in Int /\ a + d \in Int BY SqConsts DEF Index
  <1>2. (a + d) % M \in 0..M-1 BY <1>1, DivRem
  <1>3. (((a + d) % M) - a) % M = ((a - a) + d) % M
    <2> HIDE DEF M
    <2> QED BY <1>1, WrapRight
  <1>4. (a - a) + d = d /\ d % M = d BY <1>1, RemSmall
  <1> QED BY <1>2, <1>3, <1>4 DEF Dist, Index

(* Moving the farther end on, and the nearer one.                          *)
LEMMA RemGrows ==
  ASSUME NEW M \in Nat \ {0}, NEW a \in Int, NEW b \in Int, NEW d \in Int,
         ((b - a) % M) + d \in 0..M-1
  PROVE  (((b + d) % M) - a) % M = ((b - a) % M) + d
  <1> DEFINE r == (b - a) % M
  <1>1. (((b + d) % M) - a) % M = ((b - a) + d) % M BY WrapRight
  <1>2. (((b - a) % M) + d) % M = ((b - a) + d) % M
    <2> DEFINE x == b - a
    <2>1. x \in Int OBVIOUS
    <2> HIDE DEF x
    <2>2. ((x % M) + d) % M = (x + d) % M BY <2>1, RemAdd
    <2> QED BY <2>2 DEF x
  <1>3. r \in Int
    <2>1. b - a \in Int OBVIOUS
    <2> QED BY <2>1, DivRem
  <1>4. (r + d) % M = ((b - a) + d) % M BY <1>2
  <1> HIDE DEF r
  <1>5. r + d \in 0..M-1 BY DEF r
  <1>6. (r + d) % M = r + d BY <1>5, RemSmall
  <1> QED BY <1>1, <1>4, <1>6 DEF r

LEMMA RemLeft ==
  ASSUME NEW M \in Nat \ {0}, NEW a \in Int, NEW b \in Int, NEW d \in Int
  PROVE  (b - ((a + d) % M)) % M = (((b - a) % M) - d) % M
  <1> DEFINE r == (b - a) % M
             x == b - a
  <1>1. (b - ((a + d) % M)) % M = (x - d) % M BY WrapLeft
  <1>2. x \in Int OBVIOUS
  <1>3. (r - d) % M = (x - d) % M
    <2>1. r = x % M OBVIOUS
    <2> HIDE DEF x, r
    <2> QED BY <1>2, <2>1, RemMinus
  <1> HIDE DEF x, r
  <1> QED BY <1>1, <1>3 DEF r

LEMMA RemShrinks ==
  ASSUME NEW M \in Nat \ {0}, NEW a \in Int, NEW b \in Int, NEW d \in Int,
         ((b - a) % M) - d \in 0..M-1
  PROVE  (b - ((a + d) % M)) % M = ((b - a) % M) - d
  <1> DEFINE r == (b - a) % M
             x == b - a
  <1>1. (b - ((a + d) % M)) % M = (r - d) % M BY RemLeft
  <1>2. x \in Int OBVIOUS
  <1>3. r \in Int
    <2> HIDE DEF x
    <2> QED BY <1>2, DivRem DEF x
  <1> HIDE DEF r
  <1>4. r - d \in 0..M-1 BY DEF r
  <1>5. (r - d) % M = r - d BY <1>3, <1>4, RemSmall
  <1> QED BY <1>1, <1>5 DEF r

LEMMA DistGrows ==
  ASSUME NEW a \in Index, NEW b \in Index, NEW d \in Nat, Dist(a, b) + d < IndexMod
  PROVE  (b + d) % IndexMod \in Index /\ Dist(a, (b + d) % IndexMod) = Dist(a, b) + d
  <1>1. IndexMod \in Nat \ {0} /\ a \in Int /\ b \in Int /\ d \in Int /\ b + d \in Int BY SqConsts DEF Index
  <1>2. (b + d) % IndexMod \in Index BY <1>1, DivRem DEF Index
  <1>3. Dist(a, b) + d \in 0..IndexMod-1
    <2>1. Dist(a, b) \in Nat BY DistFacts
    <2> QED BY <1>1, <2>1
  <1>4. ((b - a) % IndexMod) + d \in 0..IndexMod-1 BY <1>3 DEF Dist
  <1>5. (((b + d) % IndexMod) - a) % IndexMod = ((b - a) % IndexMod) + d
    BY ONLY <1>1, <1>4, RemGrows, Zenon
  <1> QED BY <1>2, <1>5 DEF Dist

LEMMA DistShrinks ==
  ASSUME NEW a \in Index, NEW b \in Index, NEW d \in Nat, d <= Dist(a, b)
  PROVE  (a + d) % IndexMod \in Index /\ Dist((a + d) % IndexMod, b) = Dist(a, b) - d
  <1>1. IndexMod \in Nat \ {0} /\ a \in Int /\ b \in Int /\ d \in Int /\ a + d \in Int BY SqConsts DEF Index
  <1>2. (a + d) % IndexMod \in Index BY <1>1, DivRem DEF Index
  <1>3. Dist(a, b) - d \in 0..IndexMod-1
    <2>1. Dist(a, b) \in Int /\ Dist(a, b) < IndexMod BY <1>1, DistFacts
    <2> QED BY <1>1, <2>1
  <1>4. ((b - a) % IndexMod) - d \in 0..IndexMod-1 BY <1>3 DEF Dist
  <1>5. (b - ((a + d) % IndexMod)) % IndexMod = ((b - a) % IndexMod) - d
    <2> DEFINE M == IndexMod
               r == (b - a) % M
    <2>1. M \in Nat \ {0} /\ a \in Int /\ b \in Int /\ d \in Int BY <1>1
    <2>2. r - d \in 0..M-1 BY <1>4
    <2>3. r \in Int
      <3> DEFINE x == b - a
      <3>1. x \in Int BY <1>1
      <3> HIDE DEF x, M
      <3> QED BY <2>1, <3>1, DivRem DEF x
    <2>4. (b - ((a + d) % M)) % M = (r - d) % M
      <3> HIDE DEF M
      <3> QED BY <2>1, RemLeft
    <2>5. (r - d) % M = r - d
      <3> HIDE DEF M, r
      <3> QED BY <2>1, <2>2, <2>3, RemSmall
    <2> QED BY <2>4, <2>5
  <1> QED BY <1>2, <1>5 DEF Dist

(* Slots.                                                                  *)
LEMMA SlotOf ==
  ASSUME NEW n \in Int
  PROVE  /\ n % SqSize \in Slot /\ (n % IndexMod) % SqSize = n % SqSize
         /\ (n % SqSize) \in Int /\ n % IndexMod \in Index
  <1>1. /\ SqSize \in Nat \ {0} /\ IndexMod \in Nat \ {0} /\ IndexMod % SqSize = 0
    BY SqConsts
  <1>2. n % SqSize \in 0..SqSize-1 /\ n % IndexMod \in 0..IndexMod-1 BY <1>1, DivRem
  <1>3. (n % IndexMod) % SqSize = n % SqSize BY <1>1, RemOfRem
  <1> QED BY <1>1, <1>2, <1>3 DEF Slot, Index

LEMMA SlotsDiffer ==
  ASSUME NEW x \in Int, NEW y \in Int, x < y, y < x + SqSize
  PROVE  x % SqSize # y % SqSize
  <1>1. SqSize \in Nat \ {0} BY SqConsts
  <1>2. x - y < SqSize /\ y - x < SqSize BY <1>1
  <1>3. x % SqSize = y % SqSize => x = y BY <1>1, <1>2, RemEqual
  <1> QED BY <1>3

LEMMA SlotOfSum ==
  ASSUME NEW n \in Int, NEW j \in Int
  PROVE  /\ ((n % IndexMod) + j) % SqSize = (n + j) % SqSize
         /\ ((n % IndexMod) + j) % IndexMod = (n + j) % IndexMod
         /\ ((n % SqSize) + j) % SqSize = (n + j) % SqSize
  <1>1. n + j \in Int /\ (n % IndexMod) + j \in Int /\ IndexMod \in Nat \ {0} /\ SqSize \in Nat \ {0}
    BY SqConsts, DivRem
  <1>2. ((n % IndexMod) + j) % IndexMod = (n + j) % IndexMod BY <1>1, RemAdd
  <1>3. ((n % SqSize) + j) % SqSize = (n + j) % SqSize BY <1>1, RemAdd
  <1>4. (((n % IndexMod) + j) % IndexMod) % SqSize = ((n % IndexMod) + j) % SqSize BY <1>1, SlotOf
  <1>5. ((n + j) % IndexMod) % SqSize = (n + j) % SqSize BY <1>1, SlotOf
  <1> QED BY <1>2, <1>3, <1>4, <1>5

-----------------------------------------------------------------------------
(* What the counters, the request numbers and the buffer of one send queue *)
(* owe each other, apart from its completions.                             *)

SqTypes ==
  /\ sqHead \in [QPs -> Index] /\ sqTail \in [QPs -> Index] /\ hwSq \in [QPs -> Index]
  /\ wqe \in [QPs -> [Slot -> Entry]]
  /\ nreq \in [QPs -> Nat] /\ wrid \in [QPs -> [Slot -> Int]]
Intact(q) ==
  \A k \in Index : k < Dist(hwSq[q], sqHead[q]) + nreq[q] =>
    wqe[q][((hwSq[q] + k) % IndexMod) % SqSize].id = (hwSq[q] + k) % IndexMod
SqOk(q) == Counters(q) /\ Numbers(q) /\ Intact(q)

LEMMA IntactIs == EntriesIntact <=> \A q \in QPs : Intact(q)
  BY DEF EntriesIntact, Intact

LEMMA SqNumbers ==
  ASSUME SqTypes, NEW q \in QPs, SqOk(q)
  PROVE  /\ sqTail[q] \in Index /\ hwSq[q] \in Index /\ sqHead[q] \in Index /\ nreq[q] \in Nat
         /\ sqTail[q] \in Int /\ hwSq[q] \in Int /\ sqHead[q] \in Int
         /\ Dist(sqTail[q], hwSq[q]) \in Nat /\ Dist(hwSq[q], sqHead[q]) \in Nat
         /\ Dist(sqTail[q], sqHead[q]) \in Nat
         /\ Dist(sqTail[q], hwSq[q]) + Dist(hwSq[q], sqHead[q]) = Dist(sqTail[q], sqHead[q])
         /\ Dist(sqTail[q], sqHead[q]) + nreq[q] <= SqMax
         /\ SqMax \in Nat /\ SqMax < SqSize /\ SqMax < WqeMod /\ SqMax < IndexMod
         /\ IndexMod \in Nat \ {0}
  <1>1. sqTail[q] \in Index /\ hwSq[q] \in Index /\ sqHead[q] \in Index /\ nreq[q] \in Nat
    BY DEF SqTypes
  <1>2. /\ SqMax \in Nat /\ SqMax < SqSize /\ SqMax < WqeMod /\ SqMax < IndexMod
        /\ IndexMod \in Nat \ {0}
    BY SqConsts
  <1>3. sqTail[q] \in Int /\ hwSq[q] \in Int /\ sqHead[q] \in Int
    BY <1>1 DEF Index
  <1>4. /\ Dist(sqTail[q], hwSq[q]) \in Nat /\ Dist(hwSq[q], sqHead[q]) \in Nat
        /\ Dist(sqTail[q], sqHead[q]) \in Nat
    BY <1>1, DistFacts
  <1> QED BY <1>1, <1>2, <1>3, <1>4 DEF SqOk, Counters

LEMMA SqSame ==
  ASSUME NEW q \in QPs, SqOk(q),
         sqTail'[q] = sqTail[q], sqHead'[q] = sqHead[q], nreq'[q] = nreq[q],
         wqe'[q] = wqe[q], wrid'[q] = wrid[q], hwSq'[q] = hwSq[q]
  PROVE  SqOk(q)'
  BY DEF SqOk, Counters, Numbers, Intact

(* Polling moves the tail.                                                 *)
LEMMA TailMoves ==
  ASSUME SqTypes, NEW q \in QPs, SqOk(q), NEW d \in Nat, d <= Dist(sqTail[q], hwSq[q]),
         sqTail' = [sqTail EXCEPT ![q] = (sqTail[q] + d) % IndexMod],
         UNCHANGED <<sqHead, nreq, wqe, wrid, hwSq>>
  PROVE  /\ SqOk(q)' /\ sqTail' \in [QPs -> Index]
         /\ \A b \in Index : d <= Dist(sqTail[q], b) => Dist(sqTail'[q], b) = Dist(sqTail[q], b) - d
  <1> DEFINE T == sqTail[q]
             W == hwSq[q]
             H == sqHead[q]
             n == nreq[q]
  <1>1. /\ T \in Index /\ W \in Index /\ H \in Index /\ n \in Nat /\ T \in Int
        /\ Dist(T, W) \in Nat /\ Dist(W, H) \in Nat /\ Dist(T, H) \in Nat
        /\ Dist(T, W) + Dist(W, H) = Dist(T, H) /\ Dist(T, H) + n <= SqMax /\ SqMax \in Nat
    BY SqNumbers
  <1>2. sqTail'[q] = (T + d) % IndexMod BY DEF SqTypes
  <1>3. \A b \in Index : d <= Dist(T, b) => (T + d) % IndexMod \in Index /\ Dist((T + d) % IndexMod, b) = Dist(T, b) - d
    BY <1>1, DistShrinks
  <1>4. sqTail' \in [QPs -> Index]
    <2>1. (T + d) % IndexMod \in Index BY <1>1, <1>3
    <2> QED BY <2>1 DEF SqTypes
  <1>5. /\ Dist(sqTail'[q], W) = Dist(T, W) - d /\ Dist(sqTail'[q], H) = Dist(T, H) - d
    <2>1. d <= Dist(T, H) BY <1>1
    <2> QED BY <1>1, <1>2, <1>3, <2>1
  <1>6. Counters(q)'
    <2>1. /\ (Dist(T, W) - d) + Dist(W, H) = Dist(T, H) - d
          /\ (Dist(T, H) - d) + n <= SqMax
      BY <1>1
    <2> QED BY <1>5, <2>1 DEF Counters
  <1>7. Numbers(q)'
    <2> SUFFICES ASSUME NEW k \in 0..(Dist(T, H) - d) + n - 1
                 PROVE  wrid[q][(sqTail'[q] + k) % SqSize] = (sqTail'[q] + k) % IndexMod
      BY <1>5 DEF Numbers
    <2>1. k \in Int /\ d \in Int /\ d + k \in 0..Dist(T, H) + n - 1 /\ T + d \in Int
          /\ (T + d) + k = T + (d + k)
      BY <1>1
    <2>2. wrid[q][(T + (d + k)) % SqSize] = (T + (d + k)) % IndexMod
      <3> HIDE DEF T, H, n
      <3>1. Numbers(q) BY DEF SqOk
      <3> QED BY <2>1, <3>1 DEF Numbers, T, H, n
    <2>3. /\ (((T + d) % IndexMod) + k) % SqSize = ((T + d) + k) % SqSize
          /\ (((T + d) % IndexMod) + k) % IndexMod = ((T + d) + k) % IndexMod
      BY <2>1, SlotOfSum
    <2> QED BY <1>2, <2>1, <2>2, <2>3
  <1>8. Intact(q)' BY DEF SqOk, Intact
  <1> QED BY <1>2, <1>3, <1>4, <1>6, <1>7, <1>8 DEF SqOk

(* The adapter executes an entry.                                          *)
LEMMA ExecuteMoves ==
  ASSUME SqTypes, NEW q \in QPs, SqOk(q), Execute(q)
  PROVE  /\ SqOk(q)' /\ hwSq' \in [QPs -> Index]
         /\ Dist(sqTail[q], hwSq'[q]) = Dist(sqTail[q], hwSq[q]) + 1
         /\ Dist(sqTail[q], hwSq[q]) + 1 <= Dist(sqTail[q], sqHead[q])
  <1> DEFINE T == sqTail[q]
             W == hwSq[q]
             H == sqHead[q]
             n == nreq[q]
  <1>1. /\ T \in Index /\ W \in Index /\ H \in Index /\ n \in Nat /\ W \in Int
        /\ Dist(T, W) \in Nat /\ Dist(W, H) \in Nat /\ Dist(T, H) \in Nat
        /\ Dist(T, W) + Dist(W, H) = Dist(T, H) /\ Dist(T, H) + n <= SqMax /\ SqMax \in Nat
        /\ SqMax < IndexMod /\ IndexMod \in Nat \ {0}
    BY SqNumbers
  <1>2. /\ W # H /\ hwSq' = [hwSq EXCEPT ![q] = (W + 1) % IndexMod]
        /\ UNCHANGED <<sqHead, nreq, wqe, wrid, sqTail>>
    BY DEF Execute
  <1>3. hwSq'[q] = (W + 1) % IndexMod BY <1>2 DEF SqTypes
  <1>4. Dist(W, H) >= 1 /\ Dist(T, W) + 1 <= Dist(T, H)
    <2>1. Dist(W, H) # 0 BY <1>1, <1>2, DistFacts
    <2> QED BY <1>1, <2>1
  <1>5. (W + 1) % IndexMod \in Index /\ Dist(T, (W + 1) % IndexMod) = Dist(T, W) + 1
    <2>1. 1 \in Nat /\ Dist(T, W) + 1 < IndexMod BY <1>1, <1>4
    <2> QED BY <1>1, <2>1, DistGrows
  <1>6. Dist((W + 1) % IndexMod, H) = Dist(W, H) - 1
    <2>1. 1 \in Nat /\ 1 <= Dist(W, H) BY <1>1, <1>4
    <2> QED BY <1>1, <2>1, DistShrinks
  <1>7. hwSq' \in [QPs -> Index] BY <1>2, <1>5 DEF SqTypes
  <1>8. Counters(q)'
    <2>1. (Dist(T, W) + 1) + (Dist(W, H) - 1) = Dist(T, H) BY <1>1
    <2> QED BY <1>1, <1>2, <1>3, <1>5, <1>6, <2>1 DEF Counters
  <1>9. Numbers(q)' BY <1>2 DEF Numbers, SqOk
  <1>10. Intact(q)'
    <2> SUFFICES ASSUME NEW k \in Index, k < (Dist(W, H) - 1) + n
                 PROVE  wqe[q][((hwSq'[q] + k) % IndexMod) % SqSize].id = (hwSq'[q] + k) % IndexMod
      BY <1>2, <1>3, <1>6 DEF Intact
    <2>1. /\ k \in Int /\ 1 \in Int /\ 1 + k \in Index /\ 1 + k < Dist(W, H) + n /\ W + 1 \in Int
          /\ (W + 1) + k = W + (1 + k)
      <3>1. k \in Int /\ 0 <= k BY <1>1 DEF Index
      <3>2. 1 + k <= SqMax BY <1>1, <3>1
      <3> QED BY <1>1, <3>1, <3>2 DEF Index
    <2>2. wqe[q][((W + (1 + k)) % IndexMod) % SqSize].id = (W + (1 + k)) % IndexMod
      <3>1. Intact(q) BY DEF SqOk
      <3> QED BY <2>1, <3>1 DEF Intact
    <2>3. (((W + 1) % IndexMod) + k) % IndexMod = ((W + 1) + k) % IndexMod
      BY <2>1, SlotOfSum
    <2> QED BY <1>3, <2>1, <2>2, <2>3
  <1> QED BY <1>3, <1>4, <1>5, <1>7, <1>8, <1>9, <1>10 DEF SqOk

(* The numbers at the head, seen from the tail and from the adapter.       *)
LEMMA HeadIs ==
  ASSUME SqTypes, NEW q \in QPs, SqOk(q), NEW j \in Int
  PROVE  /\ (sqHead[q] + j) % IndexMod = (sqTail[q] + (Dist(sqTail[q], sqHead[q]) + j)) % IndexMod
         /\ (sqHead[q] + j) % IndexMod = (hwSq[q] + (Dist(hwSq[q], sqHead[q]) + j)) % IndexMod
         /\ (sqHead[q] + j) % SqSize = (sqTail[q] + (Dist(sqTail[q], sqHead[q]) + j)) % SqSize
         /\ (sqHead[q] + j) % SqSize = (hwSq[q] + (Dist(hwSq[q], sqHead[q]) + j)) % SqSize
  <1>1. ASSUME NEW a \in Index, NEW h \in Index
        PROVE  /\ (h + j) % IndexMod = (a + (Dist(a, h) + j)) % IndexMod
               /\ (h + j) % SqSize = (a + (Dist(a, h) + j)) % SqSize
    <2>1. a \in Int /\ Dist(a, h) \in Int /\ a + Dist(a, h) \in Int /\ (a + Dist(a, h)) % IndexMod = h
      BY DistFacts DEF Index
    <2>2. (a + Dist(a, h)) + j = a + (Dist(a, h) + j) BY <2>1
    <2>3. /\ (((a + Dist(a, h)) % IndexMod) + j) % IndexMod = ((a + Dist(a, h)) + j) % IndexMod
          /\ (((a + Dist(a, h)) % IndexMod) + j) % SqSize = ((a + Dist(a, h)) + j) % SqSize
      BY <2>1, SlotOfSum
    <2> QED BY <2>1, <2>2, <2>3
  <1> QED BY <1>1, SqNumbers

(* Writing an entry past the head: its slot, and the slot stamped, hold    *)
(* nothing that is still to be executed.                                   *)
LEMMA WriteKeeps ==
  ASSUME SqTypes, NEW q \in QPs, SqOk(q), NEW sig \in BOOLEAN, WriteWqe(q, sig)
  PROVE  /\ SqOk(q)' /\ wqe' \in [QPs -> [Slot -> Entry]] /\ wrid' \in [QPs -> [Slot -> Int]]
         /\ nreq' \in [QPs -> Nat]
  <1> DEFINE T == sqTail[q]
             W == hwSq[q]
             H == sqHead[q]
             n == nreq[q]
             a == Dist(T, H) + n
             b == Dist(W, H) + n
             ind == (H + n) % IndexMod
             slot == ind % SqSize
             stamp == Ahead(ind - 1)
             entry == [id |-> ind, signaled |-> sig]
             buf == IF n = 0 THEN wqe ELSE [wqe EXCEPT ![q][stamp] = Stamped]
  <1>1. /\ T \in Index /\ W \in Index /\ H \in Index /\ n \in Nat /\ W \in Int /\ T \in Int /\ H \in Int
        /\ Dist(T, W) \in Nat /\ Dist(W, H) \in Nat /\ Dist(T, H) \in Nat
        /\ Dist(T, W) + Dist(W, H) = Dist(T, H) /\ Dist(T, H) + n <= SqMax /\ SqMax \in Nat
        /\ SqMax < IndexMod /\ IndexMod \in Nat \ {0}
    BY SqNumbers
  <1>2. a \in Nat /\ b \in Nat /\ a < SqMax /\ b <= a /\ a \in Int /\ b \in Int
    <2>1. ~(a >= SqMax) BY DEF WriteWqe, WqOverflow
    <2> QED BY <1>1, <2>1
  <1>3. SqSize \in Nat \ {0} /\ SqSpare \in Nat /\ SqSpare >= 1 /\ SqMax + SqSpare = SqSize
    BY SqConsts
  <1>4. /\ wrid' = [wrid EXCEPT ![q][slot] = ind]
        /\ wqe' = [buf EXCEPT ![q][slot] = entry]
        /\ nreq' = [nreq EXCEPT ![q] = n + 1] /\ UNCHANGED <<sqHead, sqTail, hwSq>>
    BY DEF WriteWqe, StampAfter
  <1>5. /\ ind \in Index /\ ind \in Int /\ slot \in Slot
        /\ ind = (T + a) % IndexMod /\ ind = (W + b) % IndexMod
        /\ slot = (T + a) % SqSize /\ slot = (W + b) % SqSize
    <2>1. n \in Int /\ H + n \in Int BY <1>1
    <2>2. ind \in Index /\ slot = (H + n) % SqSize BY <2>1, SlotOf
    <2>3. slot \in Slot /\ ind \in Int
      <3>1. ind \in Int BY <2>2 DEF Index
      <3> HIDE DEF ind
      <3> QED BY <3>1, SlotOf
    <2> HIDE DEF ind, slot
    <2> QED BY <2>1, <2>2, <2>3, HeadIs DEF ind
  <1> HIDE DEF ind, a, b
  <1>6. /\ stamp \in Slot /\ stamp = (W + (b - 1 + SqSpare)) % SqSize
    <2> DEFINE j == SqSpare - 1
    <2>1. j \in Int /\ (ind - 1) + SqSpare = ind + j /\ ind + j \in Int BY <1>3, <1>5
    <2>2. W + b \in Int /\ (W + b) + j = W + (b - 1 + SqSpare) BY <1>1, <1>2, <1>3
    <2> HIDE DEF j
    <2>3. (((W + b) % IndexMod) + j) % SqSize = ((W + b) + j) % SqSize BY <2>1, <2>2, SlotOfSum
    <2>4. stamp = (ind + j) % SqSize BY <2>1 DEF Ahead
    <2>5. stamp \in Slot BY <2>1, <2>4, SlotOf
    <2> QED BY <1>5, <2>2, <2>3, <2>4, <2>5
  <1> HIDE DEF slot, stamp
  <1>7. entry \in Entry /\ Stamped \in Entry BY <1>5 DEF Entry
  <1>8. buf \in [QPs -> [Slot -> Entry]]
    BY <1>6, <1>7 DEF SqTypes
  <1>9. wqe' \in [QPs -> [Slot -> Entry]] /\ wqe'[q][slot] = entry
        /\ \A s \in Slot : s # slot /\ (n = 0 \/ s # stamp) => wqe'[q][s] = wqe[q][s]
    <2>1. \A s \in Slot : (n = 0 \/ s # stamp) => buf[q][s] = wqe[q][s]
      BY <1>6 DEF SqTypes
    <2> HIDE DEF buf, entry, n
    <2>2. wqe' \in [QPs -> [Slot -> Entry]] /\ wqe'[q][slot] = entry
      BY <1>4, <1>5, <1>7, <1>8
    <2>3. \A s \in Slot : s # slot => wqe'[q][s] = buf[q][s]
      BY <1>4, <1>5, <1>8
    <2> QED BY <2>1, <2>2, <2>3
  <1>10. /\ wrid' \in [QPs -> [Slot -> Int]] /\ wrid'[q][slot] = ind
         /\ \A s \in Slot : s # slot => wrid'[q][s] = wrid[q][s]
    BY <1>4, <1>5 DEF SqTypes
  <1>11. nreq' \in [QPs -> Nat] /\ nreq'[q] = n + 1
    BY <1>1, <1>4 DEF SqTypes
  <1>12. Counters(q)'
    <2>1. Dist(T, H) + (n + 1) <= SqMax BY <1>1, <1>2 DEF a
    <2> QED BY <1>1, <1>4, <1>11, <2>1 DEF Counters
  <1>13. Numbers(q)'
    <2> SUFFICES ASSUME NEW k \in 0..Dist(T, H) + (n + 1) - 1
                 PROVE  wrid'[q][(T + k) % SqSize] = (T + k) % IndexMod
      BY <1>4, <1>11 DEF Numbers
    <2>1. k \in Int /\ T + k \in Int /\ T + a \in Int /\ (k = a \/ k \in 0..Dist(T, H) + n - 1)
      BY <1>1, <1>2 DEF a
    <2>2. CASE k = a BY <1>5, <1>10, <2>2
    <2>3. CASE k \in 0..Dist(T, H) + n - 1
      <3>1. T + k < T + a /\ T + a < (T + k) + SqSize
        <4>1. 0 <= k /\ k < a BY <1>1, <2>3 DEF a
        <4> QED BY <1>1, <1>2, <1>3, <2>1, <4>1
      <3>2. (T + k) % SqSize # slot /\ (T + k) % SqSize \in Slot
        BY <1>5, <2>1, <3>1, SlotsDiffer, SlotOf
      <3>3. wrid[q][(T + k) % SqSize] = (T + k) % IndexMod BY <2>3 DEF Numbers, SqOk
      <3> QED BY <1>10, <3>2, <3>3
    <2> QED BY <2>1, <2>2, <2>3
  <1>14. Intact(q)'
    <2> SUFFICES ASSUME NEW k \in Index, k < Dist(W, H) + (n + 1)
                 PROVE  wqe'[q][((W + k) % IndexMod) % SqSize].id = (W + k) % IndexMod
      BY <1>4, <1>11 DEF Intact
    <2>1. k \in Int /\ 0 <= k /\ W + k \in Int /\ W + b \in Int /\ (k = b \/ k < b)
      BY <1>1, <1>2 DEF b, Index
    <2>2. ((W + k) % IndexMod) % SqSize = (W + k) % SqSize /\ (W + k) % SqSize \in Slot
      BY <2>1, SlotOf
    <2>3. CASE k = b
      BY <1>5, <1>9, <2>2, <2>3
    <2>4. CASE k < b
      <3>1. (W + k) % SqSize # slot
        <4>1. W + k < W + b /\ W + b < (W + k) + SqSize BY <1>1, <1>2, <1>3, <2>1, <2>4
        <4> QED BY <1>5, <2>1, <4>1, SlotsDiffer
      <3>2. (W + k) % SqSize # stamp
        <4> DEFINE y == W + (b - 1 + SqSpare)
        <4>1. y \in Int /\ W + k < y /\ y < (W + k) + SqSize BY <1>1, <1>2, <1>3, <2>1, <2>4
        <4> HIDE DEF y
        <4>2. (W + k) % SqSize # y % SqSize BY <2>1, <4>1, SlotsDiffer
        <4> QED BY <1>6, <4>2 DEF y
      <3>3. wqe[q][((W + k) % IndexMod) % SqSize].id = (W + k) % IndexMod
        BY <2>4 DEF Intact, SqOk, b
      <3> QED BY <1>9, <2>2, <3>1, <3>2, <3>3
    <2> QED BY <2>1, <2>3, <2>4
  <1> QED BY <1>9, <1>10, <1>11, <1>12, <1>13, <1>14 DEF SqOk

(* Ringing the doorbell: the head moves over the entries written.          *)
LEMMA DoorbellKeeps ==
  ASSUME SqTypes, NEW q \in QPs, SqOk(q), RingDoorbell(q)
  PROVE  /\ SqOk(q)' /\ wqe' \in [QPs -> [Slot -> Entry]] /\ sqHead' \in [QPs -> Index]
         /\ nreq' \in [QPs -> Nat]
         /\ Dist(sqTail'[q], sqHead'[q]) + nreq'[q] = Dist(sqTail[q], sqHead[q]) + nreq[q]
  <1> DEFINE T == sqTail[q]
             W == hwSq[q]
             H == sqHead[q]
             n == nreq[q]
             b == Dist(W, H) + n
             stamp == Ahead(H + n - 1)
             h2 == (H + n) % IndexMod
  <1>1. /\ T \in Index /\ W \in Index /\ H \in Index /\ n \in Nat /\ W \in Int /\ T \in Int /\ H \in Int
        /\ Dist(T, W) \in Nat /\ Dist(W, H) \in Nat /\ Dist(T, H) \in Nat
        /\ Dist(T, W) + Dist(W, H) = Dist(T, H) /\ Dist(T, H) + n <= SqMax /\ SqMax \in Nat
        /\ SqMax < IndexMod /\ IndexMod \in Nat \ {0}
    BY SqNumbers
  <1>2. b \in Nat /\ b \in Int /\ b <= SqMax BY <1>1
  <1>3. SqSize \in Nat \ {0} /\ SqSpare \in Nat /\ SqSpare >= 1 /\ SqMax + SqSpare = SqSize
    BY SqConsts
  <1>4. /\ n > 0 /\ sqHead' = [sqHead EXCEPT ![q] = h2]
        /\ wqe' = [wqe EXCEPT ![q][stamp] = Stamped]
        /\ nreq' = [nreq EXCEPT ![q] = 0] /\ UNCHANGED <<sqTail, wrid, hwSq>>
    BY DEF RingDoorbell, StampAfter
  <1>5. h2 \in Index /\ Dist(T, h2) = Dist(T, H) + n /\ Dist(W, h2) = b
    <2>1. Dist(T, H) + n < IndexMod /\ Dist(W, H) + n < IndexMod BY <1>1
    <2> QED BY <1>1, <2>1, DistGrows
  <1>6. sqHead' \in [QPs -> Index] /\ sqHead'[q] = h2 /\ nreq' \in [QPs -> Nat] /\ nreq'[q] = 0
    BY <1>4, <1>5 DEF SqTypes
  <1>7. stamp \in Slot /\ stamp = (W + (b - 1 + SqSpare)) % SqSize
    <2> DEFINE j == n - 1 + SqSpare
    <2>1. j \in Int /\ (H + n - 1) + SqSpare = H + j /\ H + j \in Int /\ Dist(W, H) + j = b - 1 + SqSpare
      BY <1>1, <1>3
    <2> HIDE DEF j, b
    <2>2. (H + j) % SqSize = (W + (Dist(W, H) + j)) % SqSize BY <2>1, HeadIs
    <2>3. stamp = (H + j) % SqSize BY <2>1 DEF Ahead
    <2>4. stamp \in Slot BY <2>1, <2>3, SlotOf
    <2> QED BY <2>1, <2>2, <2>3, <2>4
  <1> HIDE DEF stamp, h2, b
  <1>8. /\ wqe' \in [QPs -> [Slot -> Entry]]
        /\ \A s \in Slot : s # stamp => wqe'[q][s] = wqe[q][s]
    <2>1. Stamped \in Entry BY DEF Entry
    <2> QED BY <1>4, <1>7, <2>1 DEF SqTypes
  <1>9. Counters(q)'
    <2>1. Dist(T, W) + b = Dist(T, H) + n /\ Dist(T, H) + n + 0 <= SqMax BY <1>1 DEF b
    <2> QED BY <1>1, <1>4, <1>5, <1>6, <2>1 DEF Counters
  <1>10. Numbers(q)'
    <2>1. Dist(T, h2) + 0 - 1 = Dist(T, H) + n - 1 BY <1>1, <1>5
    <2>2. sqTail'[q] = T /\ sqHead'[q] = h2 /\ nreq'[q] = 0 /\ wrid' = wrid BY <1>4, <1>6
    <2>3. \A k \in 0..Dist(T, H) + n - 1 : wrid[q][(T + k) % SqSize] = (T + k) % IndexMod
      BY DEF Numbers, SqOk
    <2> HIDE DEF T, H, n
    <2>4. \A k \in 0..Dist(T, h2) + 0 - 1 : wrid'[q][(T + k) % SqSize] = (T + k) % IndexMod
      BY <2>1, <2>2, <2>3
    <2> QED BY <2>2, <2>4 DEF Numbers
  <1>11. Intact(q)'
    <2> SUFFICES ASSUME NEW k \in Index, k < b + 0
                 PROVE  wqe'[q][((W + k) % IndexMod) % SqSize].id = (W + k) % IndexMod
      BY <1>4, <1>5, <1>6 DEF Intact
    <2>1. k \in Int /\ 0 <= k /\ W + k \in Int /\ k < b BY <1>1, <1>2 DEF Index
    <2>2. ((W + k) % IndexMod) % SqSize = (W + k) % SqSize /\ (W + k) % SqSize \in Slot
      BY <2>1, SlotOf
    <2>3. (W + k) % SqSize # stamp
      <3> DEFINE y == W + (b - 1 + SqSpare)
      <3>1. y \in Int /\ W + k < y /\ y < (W + k) + SqSize BY <1>1, <1>2, <1>3, <2>1
      <3> HIDE DEF y
      <3>2. (W + k) % SqSize # y % SqSize BY <2>1, <3>1, SlotsDiffer
      <3> QED BY <1>7, <3>2 DEF y
    <2>4. wqe[q][((W + k) % IndexMod) % SqSize].id = (W + k) % IndexMod
      BY <2>1 DEF Intact, SqOk, b
    <2> QED BY <1>8, <2>2, <2>3, <2>4
  <1>12. Dist(sqTail'[q], sqHead'[q]) + nreq'[q] = Dist(T, H) + n
    BY <1>1, <1>4, <1>5, <1>6
  <1> QED BY <1>6, <1>8, <1>9, <1>10, <1>11, <1>12 DEF SqOk

(* A queue pair that is set up anew.                                       *)
LEMMA InitKeeps ==
  ASSUME SqTypes, NEW q \in QPs, InitIndices(q)
  PROVE  /\ SqOk(q)' /\ SqTypes' /\ Dist(sqTail'[q], sqHead'[q]) = 0 /\ nreq'[q] = 0
         /\ Dist(sqTail'[q], hwSq'[q]) = 0
  <1>1. 0 \in Index /\ Stamped \in Entry /\ SqMax \in Nat
    BY SqConsts DEF Index, Entry
  <1>2. Dist(0, 0) = 0 BY <1>1, DistFacts
  <1>3. /\ sqHead'[q] = 0 /\ sqTail'[q] = 0 /\ nreq'[q] = 0 /\ hwSq'[q] = 0
    BY DEF InitIndices, SqTypes
  <1>4. SqTypes'
    BY <1>1 DEF InitIndices, SqTypes
  <1>5. Counters(q)' BY <1>1, <1>2, <1>3 DEF Counters
  <1>6. Numbers(q)' BY <1>2, <1>3 DEF Numbers
  <1>7. Intact(q)' BY <1>2, <1>3 DEF Intact, Index
  <1> QED BY <1>2, <1>3, <1>4, <1>5, <1>6, <1>7 DEF SqOk

(* The queue of unpolled completions as a value: L entries, F[1] to F[L].  *)
SendsOf(F, L, q) == {i \in 1..L : F[i].send /\ F[i].qp = q}
WindowOf(F, L, q, T, W, t) ==
  /\ t <= Dist(T, W)
  /\ \A i \in SendsOf(F, L, q) : Dist(T, F[i].id) \in t..Dist(T, W)-1
  /\ \A i, j \in SendsOf(F, L, q) : i < j => Dist(T, F[i].id) < Dist(T, F[j].id)
PushedOf(F, L, G, c) == (\A i \in 1..L : G[i] = F[i]) /\ G[L + 1] = c
GoneOf(F, L, G, k) == \A i \in 1..L-1 : G[i] = IF i < k THEN F[i] ELSE F[i + 1]
Matches(c, q) == c.send /\ c.qp = q

LEMMA SendsPushed ==
  ASSUME NEW L \in Nat, NEW F, NEW G, NEW c, NEW q, PushedOf(F, L, G, c)
  PROVE  /\ SendsOf(F, L, q) \subseteq 1..L
         /\ SendsOf(G, L + 1, q) = SendsOf(F, L, q) \cup (IF Matches(c, q) THEN {L + 1} ELSE {})
         /\ \A i \in SendsOf(F, L, q) : G[i] = F[i]
         /\ IsFiniteSet(SendsOf(F, L, q))
         /\ Cardinality(SendsOf(G, L + 1, q)) =
              Cardinality(SendsOf(F, L, q)) + (IF Matches(c, q) THEN 1 ELSE 0)
  <1> DEFINE S == SendsOf(F, L, q)
  <1>1. S \subseteq 1..L BY DEF SendsOf
  <1>2. SendsOf(G, L + 1, q) = S \cup (IF Matches(c, q) THEN {L + 1} ELSE {})
    <2>1. \A i \in 1..L+1 : i \in 1..L \/ i = L + 1 OBVIOUS
    <2>2. \A i \in 1..L : i \in 1..L+1 /\ i # L + 1 OBVIOUS
    <2>3. L + 1 \in 1..L+1 OBVIOUS
    <2>4. \A i \in 1..L : G[i] = F[i] BY DEF PushedOf
    <2>5. G[L + 1] = c BY DEF PushedOf
    <2> QED BY <2>1, <2>2, <2>3, <2>4, <2>5 DEF SendsOf, Matches
  <1>3. IsFiniteSet(S)
    <2>1. IsFiniteSet(1..L) BY FS_Interval
    <2> QED BY <1>1, <2>1, FS_Subset
  <1>4. L + 1 \notin S BY <1>1
  <1>5. Cardinality(S \cup {L + 1}) = Cardinality(S) + 1
    BY <1>3, <1>4, FS_AddElement
  <1>6. S \cup {} = S /\ Cardinality(S) + 0 = Cardinality(S)
    <2>1. Cardinality(S) \in Nat BY <1>3, FS_CardinalityType
    <2> QED BY <2>1
  <1>7. \A i \in S : G[i] = F[i] BY <1>1 DEF PushedOf
  <1> HIDE DEF S
  <1>8. Cardinality(SendsOf(G, L + 1, q)) = Cardinality(S) + (IF Matches(c, q) THEN 1 ELSE 0)
    BY <1>2, <1>5, <1>6
  <1> QED BY <1>1, <1>2, <1>3, <1>7, <1>8 DEF S

LEMMA SendsGone ==
  ASSUME NEW L \in Nat, NEW k \in 1..L, NEW F, NEW G, NEW q, GoneOf(F, L, G, k)
  PROVE  /\ \A i \in SendsOf(G, L - 1, q) :
              \/ i < k /\ i \in SendsOf(F, L, q) /\ G[i] = F[i]
              \/ k <= i /\ i + 1 \in SendsOf(F, L, q) /\ G[i] = F[i + 1]
         /\ SendsOf(G, L - 1, q) \subseteq Nat
         /\ Cardinality(SendsOf(F, L, q)) =
              Cardinality(SendsOf(G, L - 1, q)) + (IF Matches(F[k], q) THEN 1 ELSE 0)
  <1> DEFINE S == SendsOf(F, L, q)
             R == SendsOf(G, L - 1, q)
             f == [i \in R |-> IF i < k THEN i ELSE i + 1]
  <1>1. S \subseteq 1..L /\ R \subseteq 1..L-1 /\ k \in Int /\ L - 1 \in Nat BY DEF SendsOf
  <1>2. IsFiniteSet(S) /\ IsFiniteSet(R)
    <2>1. IsFiniteSet(1..L) /\ IsFiniteSet(1..L-1) BY <1>1, FS_Interval
    <2> QED BY <1>1, <2>1, FS_Subset
  <1>3. \A i \in R : \/ i < k /\ i \in S /\ G[i] = F[i]
                     \/ k <= i /\ i + 1 \in S /\ G[i] = F[i + 1]
    <2> SUFFICES ASSUME NEW i \in R
                 PROVE  \/ i < k /\ i \in S /\ G[i] = F[i]
                        \/ k <= i /\ i + 1 \in S /\ G[i] = F[i + 1]
      OBVIOUS
    <2>1. i \in 1..L-1 /\ G[i].send /\ G[i].qp = q /\ i \in Int BY <1>1 DEF SendsOf
    <2>2. G[i] = IF i < k THEN F[i] ELSE F[i + 1] BY <2>1 DEF GoneOf
    <2>3. i \in 1..L /\ i + 1 \in 1..L BY <2>1
    <2> QED BY <1>1, <2>1, <2>2, <2>3 DEF SendsOf
  <1>4. \A s \in S : s # k => (s < k /\ s \in R) \/ (s > k /\ s - 1 \in R)
    <2> SUFFICES ASSUME NEW s \in S, s # k
                 PROVE  (s < k /\ s \in R) \/ (s > k /\ s - 1 \in R)
      OBVIOUS
    <2>1. s \in 1..L /\ F[s].send /\ F[s].qp = q BY <1>1 DEF SendsOf
    <2>2. CASE s < k
      <3>1. s \in 1..L-1 BY <2>1, <2>2
      <3>2. G[s] = F[s] BY <2>2, <3>1 DEF GoneOf
      <3> QED BY <2>1, <2>2, <3>1, <3>2 DEF SendsOf
    <2>3. CASE s > k
      <3>1. s - 1 \in 1..L-1 /\ ~(s - 1 < k) /\ (s - 1) + 1 = s BY <2>1, <2>3
      <3>2. G[s - 1] = F[s] BY <3>1 DEF GoneOf
      <3> QED BY <2>1, <2>3, <3>1, <3>2 DEF SendsOf
    <2> QED BY <2>1, <2>2, <2>3
  <1> HIDE DEF S, R
  <1>5. f \in Bijection(R, S \ {k})
    <2>1. \A i \in R : i \in Int /\ f[i] = IF i < k THEN i ELSE i + 1 BY <1>1
    <2>2. \A i \in R : f[i] \in S \ {k} BY <1>1, <1>3, <2>1
    <2>3. \A i, j \in R : f[i] = f[j] => i = j BY <1>1, <2>1
    <2>4. \A s \in S \ {k} : \E i \in R : f[i] = s
      <3> SUFFICES ASSUME NEW s \in S, s # k PROVE \E i \in R : f[i] = s
        OBVIOUS
      <3>1. s \in Int BY <1>1
      <3>2. CASE s < k /\ s \in R BY <2>1, <3>2
      <3>3. CASE s > k /\ s - 1 \in R
        <4>1. f[s - 1] = s BY <1>1, <2>1, <3>1, <3>3
        <4> QED BY <3>3, <4>1
      <3> QED BY <1>4, <3>2, <3>3
    <2>5. f \in [R -> S \ {k}]
      <3>1. f = [i \in R |-> f[i]] OBVIOUS
      <3> HIDE DEF f
      <3> QED BY <2>2, <3>1
    <2> HIDE DEF f
    <2> QED BY <2>3, <2>4, <2>5 DEF Bijection, Injection, Surjection, IsInjective
  <1>6. IsFiniteSet(S \ {k}) /\ Cardinality(R) = Cardinality(S \ {k})
    <2>1. ExistsBijection(R, S \ {k}) BY <1>5 DEF ExistsBijection
    <2> HIDE DEF f
    <2> QED BY <1>2, <2>1, FS_Bijection
  <1>7. Cardinality(S \ {k}) = IF k \in S THEN Cardinality(S) - 1 ELSE Cardinality(S)
    BY <1>2, FS_RemoveElement
  <1>8. Cardinality(S) \in Nat BY <1>2, FS_CardinalityType
  <1>9. k \in S <=> Matches(F[k], q) BY DEF S, SendsOf, Matches
  <1>10. Cardinality(S) = Cardinality(R) + (IF Matches(F[k], q) THEN 1 ELSE 0)
    BY <1>6, <1>7, <1>8, <1>9
  <1> QED BY <1>1, <1>3, <1>10 DEF S, R

(* The sends of a queue pair lie between its tail and the adapter, so there *)
(* are no more of them than that.                                          *)
LEMMA SendsBound ==
  ASSUME NEW L \in Nat, NEW F, NEW q, NEW T, NEW W, NEW t \in {0, 1},
         Dist(T, W) \in Nat, WindowOf(F, L, q, T, W, t)
  PROVE  /\ Cardinality(SendsOf(F, L, q)) \in Nat
         /\ Cardinality(SendsOf(F, L, q)) + t <= Dist(T, W)
  <1> DEFINE S == SendsOf(F, L, q)
             D == Dist(T, W)
             R == t..D-1
             f == [i \in S |-> Dist(T, F[i].id)]
  <1>1. S \subseteq 1..L BY DEF SendsOf
  <1>2. t \in Int /\ D - 1 \in Int /\ t <= D BY DEF WindowOf
  <1>3. IsFiniteSet(R) /\ Cardinality(R) = D - t
    <2>1. IsFiniteSet(R) /\ Cardinality(R) = IF t > D - 1 THEN 0 ELSE (D - 1) - t + 1
      <3> DEFINE e == D - 1
      <3> HIDE DEF e
      <3>1. e \in Int BY <1>2 DEF e
      <3>2. IsFiniteSet(t..e) /\ Cardinality(t..e) = IF t > e THEN 0 ELSE e - t + 1
        BY <1>2, <3>1, FS_Interval
      <3> QED BY <3>2 DEF e
    <2> HIDE DEF D, R
    <2>2. D \in Nat BY DEF D
    <2> QED BY <1>2, <2>1, <2>2
  <1>4. f \in Injection(S, R)
    <2>1. \A i \in S : f[i] = Dist(T, F[i].id) /\ f[i] \in R BY DEF WindowOf
    <2>2. \A i, j \in S : i < j => f[i] < f[j] BY <2>1 DEF WindowOf
    <2>3. \A i \in S : f[i] \in Int BY <1>2, <2>1
    <2>4. f \in [S -> R]
      <3>1. f = [i \in S |-> f[i]] OBVIOUS
      <3> HIDE DEF f
      <3> QED BY <2>1, <3>1
    <2> HIDE DEF f, S, R
    <2>5. \A i, j \in S : f[i] = f[j] => i = j
      <3> SUFFICES ASSUME NEW i \in S, NEW j \in S, f[i] = f[j] PROVE i = j
        OBVIOUS
      <3>1. i \in Int /\ j \in Int BY <1>1
      <3>2. ~(i < j) /\ ~(j < i) BY <2>2, <2>3
      <3> QED BY <3>1, <3>2
    <2> QED BY <2>4, <2>5 DEF Injection, IsInjective
  <1> HIDE DEF S, R, f
  <1>5. IsFiniteSet(S) /\ Cardinality(S) <= Cardinality(R)
    BY <1>3, <1>4, FS_Injection
  <1>6. Cardinality(S) \in Nat BY <1>5, FS_CardinalityType
  <1> QED BY <1>2, <1>3, <1>5, <1>6 DEF S

(* An entry that is executed and reported joins at the end.                *)
LEMMA WindowPushed ==
  ASSUME NEW L \in Nat, NEW F, NEW G, NEW c, NEW q, NEW T, NEW W, NEW V, NEW t \in {0, 1},
         Dist(T, W) \in Nat, WindowOf(F, L, q, T, W, t), PushedOf(F, L, G, c),
         \/ ~Matches(c, q) /\ Dist(T, V) \in {Dist(T, W), Dist(T, W) + 1}
         \/ Matches(c, q) /\ c.id = W /\ Dist(T, V) = Dist(T, W) + 1
  PROVE  WindowOf(G, L + 1, q, T, V, t)
  <1> DEFINE S == SendsOf(F, L, q)
             R == SendsOf(G, L + 1, q)
             D == Dist(T, W)
             E == Dist(T, V)
  <1>1. /\ S \subseteq 1..L /\ R = S \cup (IF Matches(c, q) THEN {L + 1} ELSE {})
        /\ \A i \in S : G[i] = F[i]
    BY SendsPushed
  <1>2. t <= D /\ D \in Nat /\ E \in {D, D + 1} /\ t \in Int BY DEF WindowOf
  <1>3. \A i \in S : Dist(T, G[i].id) \in t..D-1 BY <1>1 DEF WindowOf
  <1>4. \A i, j \in S : i < j => Dist(T, G[i].id) < Dist(T, G[j].id) BY <1>1 DEF WindowOf
  <1>5. Matches(c, q) => G[L + 1].id = W /\ E = D + 1 BY DEF PushedOf
  <1>6. \A i \in R : i \in S \/ (i = L + 1 /\ Matches(c, q)) BY <1>1
  <1>7. WindowOf(G, L + 1, q, T, V, t) <=>
          /\ t <= E
          /\ \A i \in R : Dist(T, G[i].id) \in t..E-1
          /\ \A i, j \in R : i < j => Dist(T, G[i].id) < Dist(T, G[j].id)
    BY DEF WindowOf
  <1>8. Matches(c, q) => Dist(T, G[L + 1].id) = D BY <1>5
  <1> HIDE DEF S, R, D, E
  <1>9. \A i \in R : Dist(T, G[i].id) \in t..E-1
    <2> SUFFICES ASSUME NEW i \in R PROVE Dist(T, G[i].id) \in t..E-1
      OBVIOUS
    <2>1. CASE i \in S
      <3>1. Dist(T, G[i].id) \in t..D-1 BY <1>3, <2>1
      <3> QED BY <1>2, <3>1
    <2>2. CASE i = L + 1 /\ Matches(c, q)
      <3>1. Dist(T, G[i].id) = D /\ E = D + 1 BY <1>5, <1>8, <2>2
      <3> QED BY <1>2, <3>1
    <2> QED BY <1>6, <2>1, <2>2
  <1>10. \A i, j \in R : i < j => Dist(T, G[i].id) < Dist(T, G[j].id)
    <2> SUFFICES ASSUME NEW i \in R, NEW j \in R, i < j
                 PROVE  Dist(T, G[i].id) < Dist(T, G[j].id)
      OBVIOUS
    <2>1. CASE i \in S /\ j \in S BY <1>4, <2>1
    <2>2. CASE i \in S /\ j = L + 1 /\ Matches(c, q)
      <3>1. Dist(T, G[j].id) = D /\ Dist(T, G[i].id) \in t..D-1 BY <1>3, <1>8, <2>2
      <3> QED BY <1>2, <3>1
    <2>3. i = L + 1 => j \notin S /\ j # L + 1
      <3> SUFFICES ASSUME i = L + 1 PROVE j \notin S /\ j # L + 1
        OBVIOUS
      <3>1. L + 1 < j BY Zenon
      <3> QED BY <1>1, <3>1
    <2> QED BY <1>6, <2>1, <2>2, <2>3
  <1>11. t <= E BY <1>2
  <1> QED BY <1>7, <1>9, <1>10, <1>11

(* An unsignaled entry is executed.                                        *)
LEMMA WindowWidens ==
  ASSUME NEW L \in Nat, NEW F, NEW q, NEW T, NEW W, NEW V, NEW t \in {0, 1},
         Dist(T, W) \in Nat, WindowOf(F, L, q, T, W, t), Dist(T, V) = Dist(T, W) + 1
  PROVE  WindowOf(F, L, q, T, V, t)
  <1> DEFINE D == Dist(T, W)
  <1>1. \A i \in SendsOf(F, L, q) : Dist(T, F[i].id) \in t..(D + 1)-1
    <2> SUFFICES ASSUME NEW i \in SendsOf(F, L, q) PROVE Dist(T, F[i].id) \in t..(D + 1)-1
      OBVIOUS
    <2>1. Dist(T, F[i].id) \in t..D-1 BY DEF WindowOf
    <2> HIDE DEF D
    <2>2. D \in Nat BY DEF D
    <2> QED BY <2>1, <2>2
  <1>2. t <= D + 1
    <2>1. t <= D /\ D \in Nat BY DEF WindowOf
    <2> QED BY <2>1
  <1> QED BY <1>1, <1>2 DEF WindowOf

(* An entry of the queue is dropped or taken.                              *)
LEMMA WindowGone ==
  ASSUME NEW L \in Nat, NEW k \in 1..L, NEW F, NEW G, NEW q, NEW T, NEW W, NEW t,
         WindowOf(F, L, q, T, W, t), GoneOf(F, L, G, k)
  PROVE  WindowOf(G, L - 1, q, T, W, t)
  <1> DEFINE S == SendsOf(F, L, q)
             R == SendsOf(G, L - 1, q)
  <1>1. /\ \A i \in R : \/ i < k /\ i \in S /\ G[i] = F[i]
                        \/ k <= i /\ i + 1 \in S /\ G[i] = F[i + 1]
        /\ R \subseteq Nat
    <2> HIDE DEF R, S
    <2>1. L \in Nat /\ k \in 1..L /\ GoneOf(F, L, G, k) OBVIOUS
    <2>2. \A i \in R : \/ i < k /\ i \in S /\ G[i] = F[i]
                       \/ k <= i /\ i + 1 \in S /\ G[i] = F[i + 1]
      BY ONLY <2>1, SendsGone DEF R, S
    <2>3. R \subseteq Nat BY ONLY <2>1, SendsGone DEF R
    <2> QED BY <2>2, <2>3
  <1>2. /\ t <= Dist(T, W)
        /\ \A i \in S : Dist(T, F[i].id) \in t..Dist(T, W)-1
        /\ \A i, j \in S : i < j => Dist(T, F[i].id) < Dist(T, F[j].id)
    BY DEF WindowOf
  <1> HIDE DEF S
  <1>3. \A i \in R : Dist(T, G[i].id) \in t..Dist(T, W)-1 BY <1>1, <1>2
  <1>4. \A i, j \in R : i < j => Dist(T, G[i].id) < Dist(T, G[j].id)
    <2> SUFFICES ASSUME NEW i \in R, NEW j \in R, i < j
                 PROVE  Dist(T, G[i].id) < Dist(T, G[j].id)
      OBVIOUS
    <2> HIDE DEF R
    <2>1. i \in Nat /\ j \in Nat /\ k \in Int BY <1>1
    <2>2. PICK a \in S : G[i] = F[a] /\ ((i < k /\ a = i) \/ (k <= i /\ a = i + 1)) BY <1>1
    <2>3. PICK b \in S : G[j] = F[b] /\ ((j < k /\ b = j) \/ (k <= j /\ b = j + 1)) BY <1>1
    <2>4. a < b BY <2>1, <2>2, <2>3
    <2>5. Dist(T, F[a].id) < Dist(T, F[b].id) BY <1>2, <2>4
    <2> QED BY <2>2, <2>3, <2>5
  <1> QED BY <1>2, <1>3, <1>4 DEF WindowOf

(* The tail moves up to the oldest entry that is left.                     *)
LEMMA WindowAdvances ==
  ASSUME NEW L \in Nat, NEW F, NEW q, NEW T, NEW W, NEW U, NEW t \in {0, 1}, NEW u \in {0, 1},
         NEW d \in Nat, Dist(T, W) \in Nat, WindowOf(F, L, q, T, W, t),
         \A b \in Index : d <= Dist(T, b) => Dist(U, b) = Dist(T, b) - d,
         W \in Index, \A i \in SendsOf(F, L, q) : F[i].id \in Index /\ Dist(T, F[i].id) >= d + u,
         d + u <= Dist(T, W)
  PROVE  WindowOf(F, L, q, U, W, u)
  <1> DEFINE S == SendsOf(F, L, q)
             D == Dist(T, W)
  <1>1. u \in Int /\ t \in Int /\ d <= D BY DEF D
  <1>2. Dist(U, W) = D - d BY <1>1
  <1>3. \A i \in S : Dist(T, F[i].id) \in t..D-1 /\ Dist(T, F[i].id) >= d + u
    BY DEF WindowOf
  <1>4. \A i, j \in S : i < j => Dist(T, F[i].id) < Dist(T, F[j].id) BY DEF WindowOf
  <1> HIDE DEF D
  <1>5. D \in Nat BY DEF D
  <1>6. \A i \in S : Dist(T, F[i].id) \in Int /\ Dist(U, F[i].id) = Dist(T, F[i].id) - d
    <2> SUFFICES ASSUME NEW i \in S
                 PROVE  Dist(T, F[i].id) \in Int /\ Dist(U, F[i].id) = Dist(T, F[i].id) - d
      OBVIOUS
    <2>1. Dist(T, F[i].id) \in Int /\ d <= Dist(T, F[i].id) BY <1>1, <1>3, <1>5
    <2> QED BY <2>1
  <1> HIDE DEF S
  <1>7. \A i \in S : Dist(U, F[i].id) \in u..(D - d)-1
    <2> SUFFICES ASSUME NEW i \in S PROVE Dist(U, F[i].id) \in u..(D - d)-1
      OBVIOUS
    <2>1. Dist(T, F[i].id) \in t..D-1 /\ Dist(T, F[i].id) >= d + u /\ Dist(U, F[i].id) = Dist(T, F[i].id) - d
      BY <1>3, <1>6
    <2> QED BY <1>1, <1>5, <2>1
  <1>8. \A i, j \in S : i < j => Dist(U, F[i].id) < Dist(U, F[j].id)
    <2> SUFFICES ASSUME NEW i \in S, NEW j \in S, i < j
                 PROVE  Dist(U, F[i].id) < Dist(U, F[j].id)
      OBVIOUS
    <2>1. Dist(T, F[i].id) < Dist(T, F[j].id) BY <1>4
    <2>2. /\ Dist(T, F[i].id) \in Int /\ Dist(U, F[i].id) = Dist(T, F[i].id) - d
          /\ Dist(T, F[j].id) \in Int /\ Dist(U, F[j].id) = Dist(T, F[j].id) - d
      BY <1>6
    <2> QED BY <2>1, <2>2
  <1>9. u <= D - d
    <2>1. d + u <= D BY DEF D
    <2> QED BY <1>1, <1>5, <2>1
  <1> QED BY <1>2, <1>7, <1>8, <1>9 DEF WindowOf, S

(* Polling takes the first entry of the queue, the oldest send of its      *)
(* queue pair, and the tail moves there.                                   *)
LEMMA WindowTaken ==
  ASSUME NEW L \in Nat, 1 \in 1..L, NEW F, NEW G, NEW q, NEW T, NEW W, NEW U,
         NEW d \in Nat, Dist(T, W) \in Nat, WindowOf(F, L, q, T, W, 0), GoneOf(F, L, G, 1),
         Matches(F[1], q), d = Dist(T, F[1].id),
         \A b \in Index : d <= Dist(T, b) => Dist(U, b) = Dist(T, b) - d,
         W \in Index, \A i \in 1..L : F[i].id \in Index
  PROVE  d + 1 <= Dist(T, W) /\ WindowOf(G, L - 1, q, U, W, 1)
  <1> DEFINE S == SendsOf(F, L, q)
             R == SendsOf(G, L - 1, q)
             D == Dist(T, W)
  <1>1. 1 \in S BY DEF SendsOf, Matches
  <1>2. d \in 0..D-1 BY <1>1 DEF WindowOf
  <1>3. /\ \A i \in R : \/ i < 1 /\ i \in S /\ G[i] = F[i]
                        \/ 1 <= i /\ i + 1 \in S /\ G[i] = F[i + 1]
        /\ R \subseteq Nat /\ S \subseteq 1..L
    <2>1. S \subseteq 1..L BY DEF SendsOf
    <2> DEFINE one == 1
    <2>2. one \in 1..L /\ GoneOf(F, L, G, one) OBVIOUS
    <2> HIDE DEF one, S, R
    <2>3. /\ \A i \in R : \/ i < one /\ i \in S /\ G[i] = F[i]
                          \/ one <= i /\ i + 1 \in S /\ G[i] = F[i + 1]
          /\ R \subseteq Nat
      BY <2>2, SendsGone DEF R, S
    <2> QED BY <2>1, <2>3 DEF one
  <1>4. d + 1 <= D
    <2> HIDE DEF D
    <2>1. D \in Nat BY DEF D
    <2> QED BY <1>2, <2>1
  <1>5. \A i \in R : G[i].id \in Index /\ Dist(T, G[i].id) >= d + 1
    <2> SUFFICES ASSUME NEW i \in R PROVE G[i].id \in Index /\ Dist(T, G[i].id) >= d + 1
      OBVIOUS
    <2> HIDE DEF R
    <2>1. i \in Nat /\ 1 <= i /\ i + 1 \in S /\ G[i] = F[i + 1]
      <3>1. i < 1 => i \notin S BY <1>3
      <3> QED BY <1>3, <3>1
    <2>2. i + 1 \in 1..L BY <1>3, <2>1
    <2>3. Dist(T, F[1].id) < Dist(T, F[i + 1].id)
      <3>1. 1 < i + 1 BY <2>1
      <3> QED BY <1>1, <2>1, <3>1 DEF WindowOf
    <2>4. Dist(T, F[i + 1].id) \in Int
      <3>1. Dist(T, F[i + 1].id) \in 0..D-1 BY <2>1 DEF WindowOf
      <3> QED BY <3>1
    <2> QED BY <2>1, <2>2, <2>3, <2>4
  <1>6. WindowOf(G, L - 1, q, T, W, 0)
    <2> DEFINE one == 1
               t == 0
    <2>1. one \in 1..L /\ GoneOf(F, L, G, one) /\ WindowOf(F, L, q, T, W, t) OBVIOUS
    <2> HIDE DEF one, t
    <2>2. WindowOf(G, L - 1, q, T, W, t) BY <2>1, WindowGone
    <2> QED BY <2>2 DEF t
  <1>7. L - 1 \in Nat OBVIOUS
  <1>8. WindowOf(G, L - 1, q, U, W, 1)
    <2> DEFINE t == 0
               u == 1
               l == L - 1
    <2>1. /\ t \in {0, 1} /\ u \in {0, 1} /\ l \in Nat /\ WindowOf(G, l, q, T, W, t)
          /\ \A i \in SendsOf(G, l, q) : G[i].id \in Index /\ Dist(T, G[i].id) >= d + u
          /\ d + u <= Dist(T, W)
      BY <1>4, <1>5, <1>6, <1>7
    <2> HIDE DEF t, u, l
    <2>2. WindowOf(G, l, q, U, W, u) BY <2>1, WindowAdvances
    <2> QED BY <2>2 DEF l, u
  <1> QED BY <1>4, <1>8

-----------------------------------------------------------------------------
(* The accounts: what is posted, executed, reported, and still due.        *)

Total == SumFunctionOnSet(Slacks, QPs)
Rest == SumFunctionOnSet(Others, QPs)
Used(q) == Dist(sqTail[q], sqHead[q]) + nreq[q]

LEMMA WindowIs ==
  ASSUME NEW q
  PROVE  /\ Sends(q) = SendsOf(Q, QLen, q)
         /\ Window(q) <=> WindowOf(Q, QLen, q, sqTail[q], hwSq[q], TS(q))
         /\ TS(q) \in {0, 1}
  BY DEF Sends, SendsOf, Window, WindowOf, TS

LEMMA WindowNext ==
  ASSUME NEW q
  PROVE  /\ Sends(q)' = SendsOf(Q', QLen', q)
         /\ Window(q)' <=> WindowOf(Q', QLen', q, sqTail'[q], hwSq'[q], TS(q)')
         /\ TS(q)' \in {0, 1}
  BY DEF Sends, SendsOf, Window, WindowOf, TS

LEMMA QLenNat ==
  ASSUME RingTypes, Jobs, Bits
  PROVE  /\ QLen \in Nat
         /\ oldRing = None /\ lock # "clean" => QLen = Span
         /\ lock = "clean" => oldRing = None /\ sweep.freed \in Nat /\ QLen = Span - sweep.freed
         /\ oldRing # None => QLen = Span - 1
  <1>1. Span \in Nat BY SpanFacts
  <1>2. CASE oldRing # None
    <2>1. Outstanding < Span /\ MarkedAt(Outstanding) BY <1>2 DEF Bits
    <2>2. oldRing.size \in CqSizes BY <1>2 DEF Jobs
    <2>3. oldRing.size \in Nat BY <2>2, SizeFacts
    <2>4. Outstanding \in Nat BY <2>1, <2>3 DEF MarkedAt
    <2>5. QLen = Span - 1 BY <1>2 DEF QLen
    <2>6. lock = "resize" /\ lock # "clean" BY <1>2, LockNames DEF Jobs
    <2> QED BY <1>1, <1>2, <2>1, <2>4, <2>5, <2>6
  <1>3. CASE oldRing = None /\ lock = "clean"
    <2>1. sweep.left \in Nat /\ sweep.freed \in Nat /\ sweep.left + sweep.freed <= Span
      BY <1>3 DEF Jobs
    <2>2. QLen = Span - sweep.freed BY <1>3 DEF QLen, Dropped
    <2> QED BY <1>1, <1>3, <2>1, <2>2
  <1>4. CASE oldRing = None /\ lock # "clean"
    <2>1. QLen = Span BY <1>1, <1>4 DEF QLen, Dropped
    <2> QED BY <1>1, <1>4, <2>1
  <1> QED BY <1>2, <1>3, <1>4

LEMMA PostedNat ==
  ASSUME srqCounter \in 0..RecvMod-1, hwTaken \in 0..RecvMod-1
  PROVE  Posted \in 0..RecvMod-1 /\ Posted \in Nat /\ RecvMod \in Nat \ {0} /\ RecvMod >= SrqSize
         /\ SrqSize \in Nat \ {0, 1}
  <1>1. RecvMod \in Nat \ {0} /\ RecvMod >= SrqSize /\ SrqSize \in Nat \ {0, 1}
    BY SharedReceiveQueueAssumption
  <1>2. srqCounter - hwTaken \in Int BY <1>1
  <1> QED BY <1>1, <1>2, RemDef DEF Posted

(* No queue pair has more completions than requests.                       *)
LEMMA SlackNat ==
  ASSUME SqTypes, QLen \in Nat, NEW q \in QPs, SqOk(q), Window(q)
  PROVE  Slack(q) \in Nat /\ Cardinality(Sends(q)) \in Nat /\ Used(q) \in Nat
         /\ Cardinality(Sends(q)) + TS(q) <= Dist(sqTail[q], hwSq[q])
  <1> DEFINE D == Dist(sqTail[q], hwSq[q])
             H == Dist(sqTail[q], sqHead[q])
             C == Cardinality(Sends(q))
  <1>1. D \in Nat /\ H \in Nat /\ nreq[q] \in Nat /\ D <= H
    <2>1. /\ Dist(sqTail[q], hwSq[q]) \in Nat /\ Dist(hwSq[q], sqHead[q]) \in Nat
          /\ Dist(sqTail[q], sqHead[q]) \in Nat /\ nreq[q] \in Nat
          /\ Dist(sqTail[q], hwSq[q]) + Dist(hwSq[q], sqHead[q]) = Dist(sqTail[q], sqHead[q])
      BY SqNumbers
    <2> QED BY <2>1
  <1>2. C \in Nat /\ C + TS(q) <= D /\ TS(q) \in {0, 1}
    <2>1. TS(q) \in {0, 1} /\ WindowOf(Q, QLen, q, sqTail[q], hwSq[q], TS(q)) /\ Sends(q) = SendsOf(Q, QLen, q)
      BY WindowIs
    <2> HIDE DEF H
    <2> QED BY <1>1, <2>1, SendsBound
  <1>3. Slack(q) = H + nreq[q] - C - TS(q) /\ Used(q) = H + nreq[q] BY DEF Slack, Used
  <1> HIDE DEF D, H, C
  <1>4. Slack(q) \in Nat /\ C \in Nat /\ Used(q) \in Nat /\ C + TS(q) <= D
    BY <1>1, <1>2, <1>3
  <1> QED BY <1>4 DEF C, D

LEMMA SlacksType ==
  ASSUME SqTypes, QLen \in Nat, \A q \in QPs : SqOk(q) /\ Window(q)
  PROVE  /\ Slacks \in [QPs -> Nat] /\ Slacks \in [QPs -> Int]
         /\ Others \in [QPs -> Nat] /\ Others \in [QPs -> Int]
         /\ Total \in Nat /\ Rest \in Nat
  <1>1. \A q \in QPs : Slack(q) \in Nat BY SlackNat
  <1>2. Slacks \in [QPs -> Nat] /\ Others \in [QPs -> Nat] BY <1>1 DEF Slacks, Others
  <1>3. Slacks \in [QPs -> Int] /\ Others \in [QPs -> Int] BY <1>2
  <1>4. IsFiniteSet(QPs) BY CompletionQueueAssumption
  <1>5. ASSUME NEW f \in [QPs -> Nat]
        PROVE  SumFunctionOnSet(f, QPs) \in Nat
    <2>1. SumFunctionOnSet(f, QPs) \in Int
      <3>1. \A x \in QPs : f[x] \in Int OBVIOUS
      <3> QED BY <1>4, <3>1, SumType
    <2> DEFINE z == [q \in QPs |-> 0]
               one == 1
               nil == 0
    <2>2. z \in [QPs -> Int] /\ f \in [QPs -> Int] /\ \A q \in QPs : z[q] = 0 OBVIOUS
    <2>4. \A q \in QPs : one * z[q] <= one * f[q] + nil
      <3> SUFFICES ASSUME NEW q \in QPs PROVE one * z[q] <= one * f[q] + nil
        OBVIOUS
      <3>1. z[q] = 0 /\ f[q] \in Nat BY <2>2
      <3> HIDE DEF z
      <3> QED BY <3>1
    <2>5. one \in Int /\ nil \in Int OBVIOUS
    <2> HIDE DEF z, one, nil
    <2>3. SumFunctionOnSet(z, QPs) = 0 BY <1>4, <2>2, SumOfZeros
    <2>6. one * SumFunctionOnSet(z, QPs) <= one * SumFunctionOnSet(f, QPs) + nil * Cardinality(QPs)
      BY <1>4, <2>2, <2>4, <2>5, SumBound
    <2>7. Cardinality(QPs) \in Nat BY <1>4, FS_CardinalityType
    <2> QED BY <2>1, <2>3, <2>6, <2>7 DEF one, nil
  <1> QED BY <1>2, <1>3, <1>5 DEF Total, Rest

(* What the invariant says, piece by piece.                                *)
LEMMA Base ==
  ASSUME IInv
  PROVE  /\ RingInv /\ SqTypes /\ QLen \in Nat /\ Held /\ Swept /\ Looked
         /\ \A q \in QPs : SqOk(q) /\ Window(q) /\ Slack(q) \in Nat
         /\ Slacks \in [QPs -> Int] /\ Others \in [QPs -> Int] /\ Total \in Nat /\ Rest \in Nat
         /\ Span \in Nat /\ Posted \in Nat /\ TK \in {0, 1} /\ due \in Nat /\ seen \in Nat
         /\ size \in Nat /\ Capacity \in Nat /\ Capacity <= size
  <1>1. RingTypes /\ Jobs /\ Bits /\ SqTypes /\ Held /\ Swept /\ Looked
    BY DEF IInv, Types, TypeOK, RingTypes, SqTypes, Contents
  <1>2. QLen \in Nat /\ Span \in Nat /\ size \in Nat BY <1>1, QLenNat, SpanFacts
  <1>3. \A q \in QPs : SqOk(q) /\ Window(q)
    BY IntactIs DEF IInv, SendInv, SqOk
  <1>4. \A q \in QPs : Slack(q) \in Nat BY <1>1, <1>2, <1>3, SlackNat
  <1>5. Slacks \in [QPs -> Int] /\ Others \in [QPs -> Int] /\ Total \in Nat /\ Rest \in Nat
    BY <1>1, <1>2, <1>3, SlacksType
  <1>6. Posted \in Nat BY PostedNat DEF IInv, Types
  <1>7. TK \in {0, 1} /\ due \in Nat /\ seen \in Nat BY DEF TK, IInv, Types, TypeOK
  <1>8. Capacity \in Nat /\ Capacity <= size
    <2>1. target = None \/ target \in CqSizes BY <1>1 DEF Jobs
    <2>2. target \in CqSizes => target \in Nat BY SizeFacts
    <2>3. CASE target = None \/ target > size BY <1>2, <2>3 DEF Capacity
    <2>4. CASE ~(target = None \/ target > size)
      <3>1. Capacity = target /\ target \in Nat BY <2>1, <2>2, <2>4 DEF Capacity
      <3>2. target <= size BY <1>2, <2>4, <3>1
      <3> QED BY <3>1, <3>2
    <2> QED BY <2>3, <2>4
  <1>9. Fits
    <2>1. due <= Capacity - 1 /\ due - seen >= QLen + TK + Posted + Total
          /\ (lock = "clean" => due >= Span + Posted + Rest)
      BY DEF IInv, Account, Total, Rest
    <2>2. QLen <= size - 1
      BY <1>2, <1>5, <1>6, <1>7, <1>8, <2>1
    <2>3. lock = "clean" => Span <= size - 1
      BY <1>2, <1>5, <1>6, <1>7, <1>8, <2>1
    <2>4. oldRing = None /\ lock # "clean" => QLen = Span BY <1>1, QLenNat
    <2> QED BY <2>2, <2>3, <2>4 DEF Fits
  <1> QED BY <1>1, <1>2, <1>3, <1>4, <1>5, <1>6, <1>7, <1>8, <1>9 DEF RingInv

(* One queue pair's share of the account changes.                          *)
LEMMA TotalChange ==
  ASSUME Slacks \in [QPs -> Int], Slacks' \in [QPs -> Int], NEW q \in QPs, NEW d \in Int,
         \A x \in QPs : Slacks'[x] = Slacks[x] + (IF x = q THEN d ELSE 0)
  PROVE  Total' = Total + d
  <1> DEFINE f == Slacks
             g == Slacks'
  <1>1. f \in [QPs -> Int] /\ g \in [QPs -> Int] /\ IsFiniteSet(QPs) BY CompletionQueueAssumption
  <1>2. g[q] = f[q] + d OBVIOUS
  <1>3. \A x \in QPs : x # q => g[x] = f[x]
    <2> SUFFICES ASSUME NEW x \in QPs, x # q PROVE g[x] = f[x]
      OBVIOUS
    <2>1. g[x] = f[x] + 0 /\ f[x] \in Int OBVIOUS
    <2> HIDE DEF f, g
    <2> QED BY <2>1
  <1>4. Total = SumFunctionOnSet(f, QPs) /\ Total' = SumFunctionOnSet(g, QPs) BY DEF Total
  <1> HIDE DEF f, g
  <1>5. SumFunctionOnSet(g, QPs) = SumFunctionOnSet(f, QPs) + d
    BY <1>1, <1>2, <1>3, SumChange
  <1> QED BY <1>4, <1>5

LEMMA RestChange ==
  ASSUME Others \in [QPs -> Int], Others' \in [QPs -> Int], NEW q \in QPs, NEW d \in Int,
         \A x \in QPs : Others'[x] = Others[x] + (IF x = q THEN d ELSE 0)
  PROVE  Rest' = Rest + d
  <1> DEFINE f == Others
             g == Others'
  <1>1. f \in [QPs -> Int] /\ g \in [QPs -> Int] /\ IsFiniteSet(QPs) BY CompletionQueueAssumption
  <1>2. g[q] = f[q] + d OBVIOUS
  <1>3. \A x \in QPs : x # q => g[x] = f[x]
    <2> SUFFICES ASSUME NEW x \in QPs, x # q PROVE g[x] = f[x]
      OBVIOUS
    <2>1. g[x] = f[x] + 0 /\ f[x] \in Int OBVIOUS
    <2> HIDE DEF f, g
    <2> QED BY <2>1
  <1>4. Rest = SumFunctionOnSet(f, QPs) /\ Rest' = SumFunctionOnSet(g, QPs) BY DEF Rest
  <1> HIDE DEF f, g
  <1>5. SumFunctionOnSet(g, QPs) = SumFunctionOnSet(f, QPs) + d
    BY <1>1, <1>2, <1>3, SumChange
  <1> QED BY <1>4, <1>5

(* The transitions of the queue as values.                                 *)
LEMMA QueueMoves ==
  ASSUME QLen \in Nat
  PROVE  /\ Same => Q' = Q /\ QLen' = QLen
         /\ \A c : Pushed(c) => PushedOf(Q, QLen, Q', c) /\ QLen' = QLen + 1
         /\ \A k : Gone(k) => GoneOf(Q, QLen, Q', k) /\ QLen' = QLen - 1 /\ k \in 1..QLen
  <1>1. Same => Q' = Q
    <2>1. Q = [i \in 1..QLen |-> Q[i]] BY DEF Q
    <2>2. Q' = [i \in 1..QLen' |-> Q'[i]] BY DEF Q
    <2> QED BY <2>1, <2>2, Zenon DEF Same
  <1> QED BY <1>1 DEF Same, Pushed, Gone, PushedOf, GoneOf

(* A queue pair a step does not concern.                                   *)
Unmoved(q) ==
  /\ sqTail'[q] = sqTail[q] /\ sqHead'[q] = sqHead[q] /\ nreq'[q] = nreq[q]
  /\ wqe'[q] = wqe[q] /\ wrid'[q] = wrid[q] /\ hwSq'[q] = hwSq[q]
  /\ TS(q)' = TS(q)

LEMMA SlackNext ==
  ASSUME NEW q
  PROVE  Slack(q)' = Dist(sqTail'[q], sqHead'[q]) + nreq'[q] - Cardinality(SendsOf(Q', QLen', q)) - TS(q)'
  BY DEF Slack, Sends, SendsOf

LEMMA KeptSame ==
  ASSUME NEW q \in QPs, QLen \in Nat, SqOk(q), Window(q), Unmoved(q), Same
  PROVE  SqOk(q)' /\ Window(q)' /\ Slack(q)' = Slack(q)
  <1>1. SqOk(q)' BY SqSame DEF Unmoved
  <1>2. Q' = Q /\ QLen' = QLen BY QueueMoves
  <1>3. Window(q)'
    BY <1>2, WindowIs, WindowNext DEF Unmoved
  <1>4. Slack(q)' = Slack(q)
    <2>1. Slack(q)' = Dist(sqTail[q], sqHead[q]) + nreq[q] - Cardinality(SendsOf(Q, QLen, q)) - TS(q)
      BY <1>2, SlackNext DEF Unmoved
    <2> QED BY <2>1, WindowIs DEF Slack
  <1> QED BY <1>1, <1>3, <1>4

LEMMA KeptPushed ==
  ASSUME NEW q \in QPs, QLen \in Nat, SqTypes, SqOk(q), Window(q), Unmoved(q),
         NEW c, Pushed(c), ~Matches(c, q)
  PROVE  SqOk(q)' /\ Window(q)' /\ Slack(q)' = Slack(q)
  <1>1. SqOk(q)' BY SqSame DEF Unmoved
  <1>2. PushedOf(Q, QLen, Q', c) /\ QLen' = QLen + 1 BY QueueMoves
  <1>3. Dist(sqTail[q], hwSq[q]) \in Nat BY SqNumbers
  <1>4. TS(q) \in {0, 1} /\ WindowOf(Q, QLen, q, sqTail[q], hwSq[q], TS(q)) BY WindowIs
  <1>5. WindowOf(Q', QLen + 1, q, sqTail[q], hwSq[q], TS(q))
    BY <1>2, <1>3, <1>4, WindowPushed
  <1>6. Window(q)' BY <1>2, <1>5, WindowNext DEF Unmoved
  <1>7. Cardinality(SendsOf(Q', QLen + 1, q)) = Cardinality(SendsOf(Q, QLen, q)) + 0
    BY <1>2, SendsPushed
  <1>8. Cardinality(SendsOf(Q, QLen, q)) \in Nat
    BY <1>3, <1>4, SendsBound
  <1>9. Slack(q)' = Slack(q)
    <2>1. Cardinality(SendsOf(Q', QLen', q)) = Cardinality(SendsOf(Q, QLen, q)) BY <1>2, <1>7, <1>8
    <2>2. Slack(q)' = Dist(sqTail[q], sqHead[q]) + nreq[q] - Cardinality(SendsOf(Q, QLen, q)) - TS(q)
      BY <2>1, SlackNext DEF Unmoved
    <2> QED BY <2>2, WindowIs DEF Slack
  <1> QED BY <1>1, <1>6, <1>9

LEMMA KeptGone ==
  ASSUME NEW q \in QPs, QLen \in Nat, SqTypes, SqOk(q), Window(q), Unmoved(q),
         NEW k, Gone(k)
  PROVE  /\ SqOk(q)' /\ Window(q)'
         /\ Slack(q)' = Slack(q) + (IF Matches(Q[k], q) THEN 1 ELSE 0)
  <1>1. SqOk(q)' BY SqSame DEF Unmoved
  <1>2. GoneOf(Q, QLen, Q', k) /\ QLen' = QLen - 1 /\ k \in 1..QLen BY QueueMoves
  <1>3. Dist(sqTail[q], hwSq[q]) \in Nat /\ Dist(sqTail[q], sqHead[q]) \in Nat /\ nreq[q] \in Nat BY SqNumbers
  <1>4. TS(q) \in {0, 1} /\ WindowOf(Q, QLen, q, sqTail[q], hwSq[q], TS(q)) BY WindowIs
  <1>5. WindowOf(Q', QLen - 1, q, sqTail[q], hwSq[q], TS(q))
    BY <1>2, <1>4, WindowGone
  <1>6. Window(q)' BY <1>2, <1>5, WindowNext DEF Unmoved
  <1>7. Cardinality(SendsOf(Q, QLen, q)) =
          Cardinality(SendsOf(Q', QLen - 1, q)) + (IF Matches(Q[k], q) THEN 1 ELSE 0)
    BY <1>2, SendsGone
  <1>8. QLen - 1 \in Nat BY <1>2
  <1>9. Cardinality(SendsOf(Q', QLen - 1, q)) \in Nat
    BY <1>3, <1>4, <1>5, <1>8, SendsBound
  <1>10. Slack(q)' = Dist(sqTail[q], sqHead[q]) + nreq[q] - Cardinality(SendsOf(Q', QLen - 1, q)) - TS(q)
    BY <1>2, SlackNext DEF Unmoved
  <1>11. Slack(q) = Dist(sqTail[q], sqHead[q]) + nreq[q] - Cardinality(SendsOf(Q, QLen, q)) - TS(q)
    BY WindowIs DEF Slack
  <1>12. Slack(q)' = Slack(q) + (IF Matches(Q[k], q) THEN 1 ELSE 0)
    BY <1>3, <1>4, <1>7, <1>9, <1>10, <1>11
  <1> QED BY <1>1, <1>6, <1>12

-----------------------------------------------------------------------------
(* How the actions that post and execute treat the send queues.            *)

SendsKept == SqTypes' /\ \A q \in QPs : SqOk(q)' /\ Window(q)'

LEMMA SumsMove ==
  ASSUME IInv, table' = table, NEW q \in table, NEW d \in Int,
         \A x \in QPs : Slack(x)' = Slack(x) + (IF x = q THEN d ELSE 0)
  PROVE  /\ Total' = Total + d
         /\ sweep'.qp = sweep.qp => Rest' = Rest + (IF q = sweep.qp THEN 0 ELSE d)
  <1>1. /\ \A x \in QPs : Slack(x) \in Nat
        /\ Slacks \in [QPs -> Int] /\ Others \in [QPs -> Int] /\ Rest \in Int
    BY Base
  <1>2. q \in QPs /\ table \subseteq QPs BY DEF IInv, Types, TypeOK
  <1>3. \A x \in QPs : Slack(x)' \in Int
    <2> SUFFICES ASSUME NEW x \in QPs PROVE Slack(x)' \in Int
      OBVIOUS
    <2>1. Slack(x) \in Nat /\ Slack(x)' = Slack(x) + (IF x = q THEN d ELSE 0) BY <1>1
    <2> QED BY <2>1
  <1>4. \A x \in QPs : /\ Slacks[x] = (IF x \in table THEN Slack(x) ELSE 0)
                       /\ Slacks'[x] = (IF x \in table THEN Slack(x)' ELSE 0)
    BY DEF Slacks
  <1>5. Slacks' \in [QPs -> Int]
    BY <1>3 DEF Slacks
  <1>6. \A x \in QPs : Slacks'[x] = Slacks[x] + (IF x = q THEN d ELSE 0)
    <2> SUFFICES ASSUME NEW x \in QPs PROVE Slacks'[x] = Slacks[x] + (IF x = q THEN d ELSE 0)
      OBVIOUS
    <2>1. Slack(x) \in Nat /\ Slack(x)' = Slack(x) + (IF x = q THEN d ELSE 0) BY <1>1
    <2>2. x \notin table => x # q OBVIOUS
    <2> QED BY <1>4, <2>1, <2>2
  <1>7. Total' = Total + d
    BY <1>1, <1>2, <1>5, <1>6, TotalChange
  <1>8. ASSUME sweep'.qp = sweep.qp
        PROVE  Rest' = Rest + (IF q = sweep.qp THEN 0 ELSE d)
    <2> DEFINE e == IF q = sweep.qp THEN 0 ELSE d
    <2>1. e \in Int OBVIOUS
    <2>2. \A x \in QPs : /\ Others[x] = (IF x \in table /\ x # sweep.qp THEN Slack(x) ELSE 0)
                         /\ Others'[x] = (IF x \in table /\ x # sweep.qp THEN Slack(x)' ELSE 0)
      BY <1>8 DEF Others
    <2>3. Others' \in [QPs -> Int]
      BY <1>3 DEF Others
    <2>4. \A x \in QPs : Others'[x] = Others[x] + (IF x = q THEN e ELSE 0)
      <3> SUFFICES ASSUME NEW x \in QPs PROVE Others'[x] = Others[x] + (IF x = q THEN e ELSE 0)
        OBVIOUS
      <3>1. Slack(x) \in Nat /\ Slack(x)' = Slack(x) + (IF x = q THEN d ELSE 0) BY <1>1
      <3>2. x \notin table => x # q OBVIOUS
      <3> QED BY <2>2, <3>1, <3>2
    <2> HIDE DEF e
    <2>5. Rest' = Rest + e
      BY <1>1, <1>2, <2>1, <2>3, <2>4, RestChange
    <2> QED BY <2>5 DEF e
  <1> QED BY <1>7, <1>8

LEMMA SumsStay ==
  ASSUME table' = table, \A x \in QPs : Slack(x)' = Slack(x)
  PROVE  Total' = Total /\ (sweep'.qp = sweep.qp => Rest' = Rest)
  <1>1. Slacks' = Slacks BY DEF Slacks
  <1>2. sweep'.qp = sweep.qp => Others' = Others BY DEF Others
  <1> QED BY <1>1, <1>2 DEF Total, Rest

LEMMA TakenStays ==
  ASSUME taken' = taken
  PROVE  /\ \A q : TS(q)' = TS(q)
         /\ TK' = TK
  BY DEF TS, TK

LEMMA SqStays ==
  ASSUME SqTypes, UNCHANGED sqVars
  PROVE  /\ SqTypes'
         /\ \A q : /\ sqTail'[q] = sqTail[q] /\ sqHead'[q] = sqHead[q] /\ nreq'[q] = nreq[q]
                   /\ wqe'[q] = wqe[q] /\ wrid'[q] = wrid[q] /\ hwSq'[q] = hwSq[q]
  BY DEF SqTypes, sqVars

(* Steps that leave the send queues and the completions alone.             *)
LEMMA StaySends ==
  ASSUME IInv, Same, UNCHANGED <<sqVars, taken>>
  PROVE  SendsKept /\ \A q \in QPs : Slack(q)' = Slack(q)
  <1>1. QLen \in Nat /\ SqTypes /\ \A q \in QPs : SqOk(q) /\ Window(q) BY Base
  <1>2. SqTypes' BY <1>1, SqStays
  <1>3. \A q \in QPs : Unmoved(q) BY <1>1, SqStays, TakenStays DEF Unmoved
  <1> QED BY <1>1, <1>2, <1>3, KeptSame DEF SendsKept

LEMMA PostSends ==
  ASSUME IInv, NEW q \in QPs, NEW sig \in BOOLEAN, Same, WriteWqe(q, sig), taken' = taken
  PROVE  SendsKept /\ \A x \in QPs : Slack(x)' = Slack(x) + (IF x = q THEN 1 ELSE 0)
  <1>1. /\ QLen \in Nat /\ SqTypes
        /\ \A x \in QPs : SqOk(x) /\ Window(x) /\ Slack(x) \in Nat
    BY Base
  <1>2. /\ SqOk(q)' /\ wqe' \in [QPs -> [Slot -> Entry]] /\ wrid' \in [QPs -> [Slot -> Int]]
        /\ nreq' \in [QPs -> Nat]
    BY <1>1, WriteKeeps
  <1>3. UNCHANGED <<sqHead, sqTail, hwSq>> BY DEF WriteWqe
  <1>4. SqTypes' BY <1>1, <1>2, <1>3 DEF SqTypes
  <1>5. \A x : TS(x)' = TS(x) BY TakenStays
  <1>6. \A x \in QPs : x # q => Unmoved(x)
    <2> SUFFICES ASSUME NEW x \in QPs, x # q PROVE Unmoved(x)
      OBVIOUS
    <2>1. wqe'[x] = wqe[x] /\ wrid'[x] = wrid[x] /\ nreq'[x] = nreq[x]
      BY <1>1 DEF WriteWqe, StampAfter, SqTypes
    <2> QED BY <1>3, <1>5, <2>1 DEF Unmoved
  <1>7. \A x \in QPs : x # q => SqOk(x)' /\ Window(x)' /\ Slack(x)' = Slack(x)
    BY <1>1, <1>6, KeptSame
  <1>8. Q' = Q /\ QLen' = QLen BY <1>1, QueueMoves
  <1>9. Window(q)' BY <1>1, <1>3, <1>5, <1>8, WindowIs, WindowNext
  <1>10. Slack(q)' = Slack(q) + 1
    <2>1. nreq'[q] = nreq[q] + 1 BY <1>1 DEF WriteWqe, SqTypes
    <2>2. Slack(q)' = Dist(sqTail[q], sqHead[q]) + (nreq[q] + 1) - Cardinality(Sends(q)) - TS(q)
      BY <1>3, <1>5, <1>8, <2>1, SlackNext, WindowIs
    <2>3. /\ Dist(sqTail[q], sqHead[q]) \in Int /\ nreq[q] \in Int /\ Cardinality(Sends(q)) \in Int
          /\ TS(q) \in Int
      BY <1>1, SlackNat, SqNumbers, WindowIs
    <2> QED BY <2>2, <2>3 DEF Slack
  <1>11. \A x \in QPs : Slack(x)' = Slack(x) + (IF x = q THEN 1 ELSE 0)
    <2> SUFFICES ASSUME NEW x \in QPs
                 PROVE  Slack(x)' = Slack(x) + (IF x = q THEN 1 ELSE 0)
      OBVIOUS
    <2>1. CASE x = q BY <1>10, <2>1
    <2>2. CASE x # q
      <3>1. Slack(x)' = Slack(x) /\ Slack(x) \in Nat BY <1>1, <1>7, <2>2
      <3> QED BY <2>2, <3>1
    <2> QED BY <2>1, <2>2
  <1> QED BY <1>2, <1>4, <1>7, <1>9, <1>11 DEF SendsKept

LEMMA DoorbellSends ==
  ASSUME IInv, NEW q \in QPs, Same, RingDoorbell(q), taken' = taken
  PROVE  SendsKept /\ \A x \in QPs : Slack(x)' = Slack(x)
  <1>1. /\ QLen \in Nat /\ SqTypes
        /\ \A x \in QPs : SqOk(x) /\ Window(x) /\ Slack(x) \in Nat
    BY Base
  <1>2. /\ SqOk(q)' /\ wqe' \in [QPs -> [Slot -> Entry]] /\ sqHead' \in [QPs -> Index]
        /\ nreq' \in [QPs -> Nat]
        /\ Dist(sqTail'[q], sqHead'[q]) + nreq'[q] = Dist(sqTail[q], sqHead[q]) + nreq[q]
    BY <1>1, DoorbellKeeps
  <1>3. UNCHANGED <<sqTail, wrid, hwSq>> BY DEF RingDoorbell
  <1>4. SqTypes' BY <1>1, <1>2, <1>3 DEF SqTypes
  <1>5. \A x : TS(x)' = TS(x) BY TakenStays
  <1>6. \A x \in QPs : x # q => Unmoved(x)
    <2> SUFFICES ASSUME NEW x \in QPs, x # q PROVE Unmoved(x)
      OBVIOUS
    <2>1. wqe'[x] = wqe[x] /\ sqHead'[x] = sqHead[x] /\ nreq'[x] = nreq[x]
      BY <1>1 DEF RingDoorbell, StampAfter, SqTypes
    <2> QED BY <1>3, <1>5, <2>1 DEF Unmoved
  <1>7. \A x \in QPs : x # q => SqOk(x)' /\ Window(x)' /\ Slack(x)' = Slack(x)
    BY <1>1, <1>6, KeptSame
  <1>8. Q' = Q /\ QLen' = QLen BY <1>1, QueueMoves
  <1>9. Window(q)' BY <1>1, <1>3, <1>5, <1>8, WindowIs, WindowNext
  <1>10. Slack(q)' = Slack(q)
    <2>1. Slack(q)' = Dist(sqTail'[q], sqHead'[q]) + nreq'[q] - Cardinality(SendsOf(Q, QLen, q)) - TS(q)
      BY <1>5, <1>8, SlackNext
    <2>2. SendsOf(Q, QLen, q) = Sends(q) BY WindowIs
    <2>3. Slack(q) = Dist(sqTail[q], sqHead[q]) + nreq[q] - Cardinality(Sends(q)) - TS(q) BY DEF Slack
    <2>4. Dist(sqTail'[q], sqHead'[q]) + nreq'[q] = Dist(sqTail[q], sqHead[q]) + nreq[q] BY <1>2
    <2>5. /\ Dist(sqTail[q], sqHead[q]) \in Int /\ nreq[q] \in Int /\ Cardinality(Sends(q)) \in Int
          /\ TS(q) \in Int
      BY <1>1, SlackNat, SqNumbers, WindowIs
    <2>6. Dist(sqTail'[q], sqHead'[q]) \in Int /\ nreq'[q] \in Int
      BY <1>1, <1>2, <1>3, DistFacts DEF SqTypes
    <2> QED BY ONLY <2>1, <2>2, <2>3, <2>4, <2>5, <2>6
  <1> QED BY <1>2, <1>4, <1>7, <1>9, <1>10 DEF SendsKept

(* The adapter executes an entry, silently or with a completion.           *)
LEMMA ExecuteSends ==
  ASSUME IInv, NEW q \in QPs, Execute(q), taken' = taken, NEW c,
         \/ Same
         \/ Pushed(c) /\ c.qp = q /\ c.send /\ c.id = hwSq[q]
  PROVE  /\ SendsKept
         /\ Same \/ Pushed(c)
         /\ Same => \A x \in QPs : Slack(x)' = Slack(x)
         /\ ~Same => \A x \in QPs : Slack(x)' = Slack(x) + (IF x = q THEN -1 ELSE 0)
  <1>1. /\ QLen \in Nat /\ SqTypes
        /\ \A x \in QPs : SqOk(x) /\ Window(x) /\ Slack(x) \in Nat
    BY Base
  <1>2. /\ SqOk(q)' /\ hwSq' \in [QPs -> Index]
        /\ Dist(sqTail[q], hwSq'[q]) = Dist(sqTail[q], hwSq[q]) + 1
    BY <1>1, ExecuteMoves
  <1>3. UNCHANGED <<sqHead, sqTail, nreq, wqe, wrid>> BY DEF Execute
  <1>4. SqTypes' BY <1>1, <1>2, <1>3 DEF SqTypes
  <1>5. \A x : TS(x)' = TS(x) BY TakenStays
  <1>6. \A x \in QPs : x # q => Unmoved(x)
    <2> SUFFICES ASSUME NEW x \in QPs, x # q PROVE Unmoved(x)
      OBVIOUS
    <2>1. hwSq'[x] = hwSq[x]
      BY <1>1 DEF Execute, SqTypes
    <2> QED BY <1>3, <1>5, <2>1 DEF Unmoved
  <1>7. /\ TS(q) \in {0, 1} /\ WindowOf(Q, QLen, q, sqTail[q], hwSq[q], TS(q))
        /\ Dist(sqTail[q], hwSq[q]) \in Nat /\ Dist(sqTail[q], sqHead[q]) \in Nat /\ nreq[q] \in Nat
        /\ Cardinality(Sends(q)) \in Nat /\ Sends(q) = SendsOf(Q, QLen, q)
    BY <1>1, WindowIs, SqNumbers, SlackNat
  <1>8. Slack(q) = Dist(sqTail[q], sqHead[q]) + nreq[q] - Cardinality(Sends(q)) - TS(q) BY DEF Slack
  <1>9. CASE Same
    <2>1. Q' = Q /\ QLen' = QLen BY <1>1, <1>9, QueueMoves
    <2>2. WindowOf(Q, QLen, q, sqTail[q], hwSq'[q], TS(q)) BY <1>1, <1>2, <1>7, WindowWidens
    <2>3. Window(q)' BY <1>3, <1>5, <2>1, <2>2, WindowNext
    <2>4. Slack(q)' = Dist(sqTail[q], sqHead[q]) + nreq[q] - Cardinality(SendsOf(Q, QLen, q)) - TS(q)
      BY <1>3, <1>5, <2>1, SlackNext
    <2>5. Slack(q)' = Slack(q) BY <1>7, <1>8, <2>4
    <2>6. \A x \in QPs : x # q => SqOk(x)' /\ Window(x)' /\ Slack(x)' = Slack(x)
      BY <1>1, <1>6, <1>9, KeptSame
    <2> QED BY <1>2, <1>4, <1>9, <2>3, <2>5, <2>6 DEF SendsKept
  <1>10. CASE ~Same
    <2>1. Pushed(c) /\ c.qp = q /\ c.send /\ c.id = hwSq[q] BY <1>10
    <2>2. PushedOf(Q, QLen, Q', c) /\ QLen' = QLen + 1 BY <1>1, <2>1, QueueMoves
    <2>3. Matches(c, q) /\ \A x \in QPs : x # q => ~Matches(c, x) BY <2>1 DEF Matches
    <2>4. WindowOf(Q', QLen + 1, q, sqTail[q], hwSq'[q], TS(q))
      BY <1>1, <1>2, <1>7, <2>1, <2>2, <2>3, WindowPushed
    <2>5. Window(q)' BY <1>3, <1>5, <2>2, <2>4, WindowNext
    <2>6. Cardinality(SendsOf(Q', QLen + 1, q)) = Cardinality(SendsOf(Q, QLen, q)) + 1
      BY <1>1, <2>2, <2>3, SendsPushed
    <2>7. Slack(q)' = Dist(sqTail[q], sqHead[q]) + nreq[q] - Cardinality(SendsOf(Q', QLen + 1, q)) - TS(q)
      BY <1>3, <1>5, <2>2, SlackNext
    <2>8. Slack(q)' = Slack(q) + (-1) BY <1>7, <1>8, <2>6, <2>7
    <2>9. \A x \in QPs : x # q => SqOk(x)' /\ Window(x)' /\ Slack(x)' = Slack(x)
      BY <1>1, <1>6, <2>1, <2>3, KeptPushed
    <2>10. \A x \in QPs : Slack(x)' = Slack(x) + (IF x = q THEN -1 ELSE 0)
      <3> SUFFICES ASSUME NEW x \in QPs
                   PROVE  Slack(x)' = Slack(x) + (IF x = q THEN -1 ELSE 0)
        OBVIOUS
      <3>1. CASE x = q BY <2>8, <3>1
      <3>2. CASE x # q
        <4>1. Slack(x)' = Slack(x) /\ Slack(x) \in Nat BY <1>1, <2>9, <3>2
        <4> QED BY <3>2, <4>1
      <3> QED BY <3>1, <3>2
    <2> QED BY <1>2, <1>4, <1>10, <2>1, <2>5, <2>9, <2>10 DEF SendsKept
  <1> QED BY <1>9, <1>10

(* A receive completion concerns no send queue.                            *)
LEMMA ReceiveSends ==
  ASSUME IInv, NEW c, Pushed(c), ~c.send, UNCHANGED <<sqVars, taken>>
  PROVE  SendsKept /\ \A x \in QPs : Slack(x)' = Slack(x)
  <1>1. /\ QLen \in Nat /\ SqTypes
        /\ \A x \in QPs : SqOk(x) /\ Window(x)
    BY Base
  <1>2. SqTypes' BY <1>1, SqStays
  <1>3. \A q \in QPs : Unmoved(q) BY <1>1, SqStays, TakenStays DEF Unmoved
  <1>4. \A q \in QPs : ~Matches(c, q) BY DEF Matches
  <1> QED BY <1>1, <1>2, <1>3, <1>4, KeptPushed DEF SendsKept

(* An entry is dropped.                                                    *)
LEMMA DropSends ==
  ASSUME IInv, NEW k, Gone(k), UNCHANGED <<sqVars, taken>>
  PROVE  /\ SendsKept
         /\ \A x \in QPs : Slack(x)' = Slack(x) + (IF Matches(Q[k], x) THEN 1 ELSE 0)
  <1>1. /\ QLen \in Nat /\ SqTypes
        /\ \A x \in QPs : SqOk(x) /\ Window(x)
    BY Base
  <1>2. SqTypes' BY <1>1, SqStays
  <1>3. \A q \in QPs : Unmoved(q) BY <1>1, SqStays, TakenStays DEF Unmoved
  <1> QED BY <1>1, <1>2, <1>3, KeptGone DEF SendsKept

(* The sixteen bits of wqe_index are enough to tell how far the tail moves. *)
LEMMA SkipFinds ==
  ASSUME NEW T \in Index, NEW b \in Index, Dist(T, b) < WqeMod
  PROVE  ((b % WqeMod) - T) % WqeMod = Dist(T, b)
  <1> DEFINE z == -T
             x == b - T
  <1>1. /\ WqeMod \in Nat \ {0} /\ IndexMod \in Nat \ {0} /\ IndexMod % WqeMod = 0
        /\ T \in Int /\ b \in Int /\ z \in Int /\ x \in Int /\ b + z = x /\ b % WqeMod \in Int
    <2>1. WqeMod \in Nat \ {0} /\ IndexMod \in Nat \ {0} /\ IndexMod % WqeMod = 0 BY SqConsts
    <2>2. T \in Int /\ b \in Int BY DEF Index
    <2>3. b % WqeMod \in Int BY <2>1, <2>2, DivRem
    <2> QED BY <2>1, <2>2, <2>3
  <1>2. (b % WqeMod) - T = (b % WqeMod) + z BY <1>1
  <1>3. Dist(T, b) = x % IndexMod BY DEF Dist
  <1>4. Dist(T, b) \in 0..WqeMod-1
    <2>1. Dist(T, b) \in Nat BY DistFacts
    <2> QED BY <1>1, <2>1
  <1> HIDE DEF x, z
  <1>5. ((b % WqeMod) + z) % WqeMod = (b + z) % WqeMod BY <1>1, RemAdd
  <1>6. (x % IndexMod) % WqeMod = x % WqeMod BY <1>1, RemOfRem
  <1>7. Dist(T, b) % WqeMod = Dist(T, b) BY <1>1, <1>4, RemSmall
  <1> QED BY <1>1, <1>2, <1>3, <1>5, <1>6, <1>7

(* Polling takes the first entry and moves its queue's tail there.         *)
LEMMA TakeSends ==
  ASSUME IInv, NEW c, NEW q, c = Q[1], q = c.qp,
         Gone(1), taken = None, taken' = c, c # None,
         c.send => SkipTo(q, c.wqe) /\ UNCHANGED <<sqHead, nreq, wqe, wrid, hwSq>>,
         ~c.send => UNCHANGED sqVars
  PROVE  /\ SendsKept
         /\ q \in table
         /\ ~c.send => \A x \in QPs : Slack(x)' = Slack(x)
         /\ c.send => \E d \in Nat :
              /\ sqTail'[q] = c.id /\ Dist(sqTail[q], sqTail'[q]) = d
              /\ \A x \in QPs : Slack(x)' = Slack(x) + (IF x = q THEN -d ELSE 0)
  <1> DEFINE T == sqTail[q]
             W == hwSq[q]
             d == Dist(T, c.id)
  <1>1. /\ QLen \in Nat /\ SqTypes /\ Held
        /\ \A x \in QPs : SqOk(x) /\ Window(x) /\ Slack(x) \in Nat
    BY Base
  <1>2. GoneOf(Q, QLen, Q', 1) /\ QLen' = QLen - 1 /\ 1 \in 1..QLen
    <2> DEFINE one == 1
    <2>1. Gone(one) OBVIOUS
    <2> HIDE DEF one
    <2>2. GoneOf(Q, QLen, Q', one) /\ QLen' = QLen - 1 /\ one \in 1..QLen BY <1>1, <2>1, QueueMoves
    <2> QED BY <2>2 DEF one
  <1>3. /\ c \in Completions /\ q \in table /\ q \in QPs /\ c.id \in Index
        /\ (c.send => c.wqe = c.id % WqeMod) /\ c.send \in BOOLEAN
    <2>1. GoodCqe(Q[1], table) BY <1>1, <1>2 DEF Held
    <2> QED BY <2>1 DEF GoodCqe, Completions, Index
  <1>4. \A x : TS(x) = 0 BY DEF TS
  <1>5. \A x : TS(x)' = IF Matches(c, x) THEN 1 ELSE 0
    BY DEF TS, Matches
  <1>6. CASE ~c.send
    <2>1. SqTypes' BY <1>1, <1>6, SqStays
    <2>2. \A x \in QPs : ~Matches(c, x) BY <1>6 DEF Matches
    <2>3. \A x \in QPs : Unmoved(x) BY <1>1, <1>4, <1>5, <1>6, <2>2, SqStays DEF Unmoved
    <2>4. \A x \in QPs : SqOk(x)' /\ Window(x)' /\ Slack(x)' = Slack(x) + (IF Matches(c, x) THEN 1 ELSE 0)
      <3> DEFINE one == 1
      <3>1. Gone(one) /\ Q[one] = c OBVIOUS
      <3> HIDE DEF one
      <3>2. \A x \in QPs : SqOk(x)' /\ Window(x)' /\ Slack(x)' = Slack(x) + (IF Matches(Q[one], x) THEN 1 ELSE 0)
        BY <1>1, <2>3, <3>1, KeptGone
      <3> QED BY <3>1, <3>2
    <2>5. \A x \in QPs : Slack(x)' = Slack(x)
      <3> SUFFICES ASSUME NEW x \in QPs PROVE Slack(x)' = Slack(x)
        OBVIOUS
      <3>1. Slack(x)' = Slack(x) + 0 /\ Slack(x) \in Nat BY <1>1, <2>2, <2>4
      <3> QED BY <3>1
    <2> QED BY <1>3, <1>6, <2>1, <2>4, <2>5 DEF SendsKept
  <1>7. CASE c.send
    <2>1. /\ T \in Index /\ W \in Index /\ sqHead[q] \in Index /\ nreq[q] \in Nat
          /\ Dist(T, W) \in Nat /\ Dist(T, sqHead[q]) \in Nat /\ Dist(T, W) <= Dist(T, sqHead[q])
          /\ Dist(T, W) < WqeMod
      <3>1. /\ sqTail[q] \in Index /\ hwSq[q] \in Index /\ sqHead[q] \in Index /\ nreq[q] \in Nat
            /\ Dist(sqTail[q], hwSq[q]) \in Nat /\ Dist(hwSq[q], sqHead[q]) \in Nat
            /\ Dist(sqTail[q], sqHead[q]) \in Nat
            /\ Dist(sqTail[q], hwSq[q]) + Dist(hwSq[q], sqHead[q]) = Dist(sqTail[q], sqHead[q])
            /\ Dist(sqTail[q], sqHead[q]) + nreq[q] <= SqMax /\ SqMax \in Nat /\ SqMax < WqeMod
            /\ WqeMod \in Nat
        BY <1>1, <1>3, SqNumbers, SqConsts
      <3> QED BY <3>1
    <2>2. WindowOf(Q, QLen, q, T, W, 0) /\ 1 \in SendsOf(Q, QLen, q)
      <3>1. Window(q) BY <1>1, <1>3
      <3>2. WindowOf(Q, QLen, q, T, W, TS(q)) BY <3>1, WindowIs
      <3> QED BY <1>2, <1>4, <1>7, <3>2 DEF SendsOf
    <2>3. d \in 0..Dist(T, W)-1 /\ d \in Nat
      <3>1. d \in 0..Dist(T, W)-1 BY <2>2 DEF WindowOf
      <3>2. d \in Nat BY <1>3, <2>1, DistFacts
      <3> QED BY <3>1, <3>2
    <2>4. d <= Dist(T, W) /\ d < WqeMod
      <3> HIDE DEF d, T, W
      <3>1. WqeMod \in Nat BY SqConsts
      <3> QED BY <2>1, <2>3, <3>1
    <2>5. (c.wqe - T) % WqeMod = d
      <3>1. c.wqe = c.id % WqeMod BY <1>3, <1>7
      <3> QED BY <1>3, <2>1, <2>4, <3>1, SkipFinds
    <2>6. (T + d) % IndexMod = c.id BY <1>3, <2>1, DistFacts
    <2>7. sqTail' = [sqTail EXCEPT ![q] = (sqTail[q] + d) % IndexMod]
          /\ UNCHANGED <<sqHead, nreq, wqe, wrid, hwSq>>
      BY <1>7, <2>5 DEF SkipTo
    <2>8. sqTail'[q] = c.id /\ \A x \in QPs : x # q => sqTail'[x] = sqTail[x]
      BY <1>1, <1>3, <2>6, <2>7 DEF SqTypes
    <2>9. /\ SqOk(q)' /\ sqTail' \in [QPs -> Index]
          /\ \A b \in Index : d <= Dist(T, b) => Dist(sqTail'[q], b) = Dist(T, b) - d
      <3> HIDE DEF d
      <3> QED BY <1>1, <1>3, <2>3, <2>4, <2>7, TailMoves
    <2>10. SqTypes' BY <1>1, <2>7, <2>9 DEF SqTypes
    <2>11. /\ WindowOf(Q', QLen - 1, q, sqTail'[q], W, 1)
      <3>1. Matches(Q[1], q) BY <1>7 DEF Matches
      <3>2. \A i \in 1..QLen : Q[i].id \in Index
        <4> SUFFICES ASSUME NEW i \in 1..QLen PROVE Q[i].id \in Index
          OBVIOUS
        <4>1. GoodCqe(Q[i], table) BY <1>1 DEF Held
        <4> QED BY <4>1 DEF GoodCqe, Completions, Index
      <3>3. d = Dist(T, Q[1].id) OBVIOUS
      <3> HIDE DEF d, T, W
      <3> QED BY <1>1, <1>2, <2>1, <2>2, <2>3, <2>9, <3>1, <3>2, <3>3, WindowTaken
    <2>12. Window(q)'
      <3>1. TS(q)' = 1 BY <1>5, <1>7 DEF Matches
      <3> QED BY <1>2, <2>7, <2>11, <3>1, WindowNext
    <2>13. \A x \in QPs : x # q => SqOk(x)' /\ Window(x)' /\ Slack(x)' = Slack(x)
      <3> SUFFICES ASSUME NEW x \in QPs, x # q
                   PROVE  SqOk(x)' /\ Window(x)' /\ Slack(x)' = Slack(x)
        OBVIOUS
      <3>1. ~Matches(c, x) BY DEF Matches
      <3>2. Unmoved(x) BY <1>4, <1>5, <2>7, <2>8, <3>1 DEF Unmoved
      <3> DEFINE one == 1
      <3>3. Gone(one) /\ ~Matches(Q[one], x) BY <3>1
      <3> HIDE DEF one
      <3>4. SqOk(x)' /\ Window(x)' /\ Slack(x)' = Slack(x) + (IF Matches(Q[one], x) THEN 1 ELSE 0)
        BY <1>1, <3>2, <3>3, KeptGone
      <3>5. Slack(x) \in Nat BY <1>1
      <3> QED BY <3>3, <3>4, <3>5
    <2>14. Slack(q)' = Slack(q) + (-d)
      <3>1. Dist(sqTail'[q], sqHead[q]) = Dist(T, sqHead[q]) - d
        <4>1. d <= Dist(T, sqHead[q])
          <5> HIDE DEF d, T, W
          <5> QED BY <2>1, <2>3, <2>4
        <4> QED BY <2>1, <2>9, <4>1
      <3>2. TS(q)' = 1 /\ TS(q) = 0 BY <1>4, <1>5, <1>7 DEF Matches
      <3>3. Cardinality(SendsOf(Q, QLen, q)) = Cardinality(SendsOf(Q', QLen - 1, q)) + 1
        <4> DEFINE one == 1
        <4>1. one \in 1..QLen /\ GoneOf(Q, QLen, Q', one) /\ Matches(Q[one], q)
          BY <1>2, <1>7 DEF Matches
        <4> HIDE DEF one
        <4>2. Cardinality(SendsOf(Q, QLen, q)) =
                Cardinality(SendsOf(Q', QLen - 1, q)) + (IF Matches(Q[one], q) THEN 1 ELSE 0)
          BY <1>1, <4>1, SendsGone
        <4> QED BY <4>1, <4>2
      <3>4. Slack(q)' = Dist(sqTail'[q], sqHead[q]) + nreq[q] - Cardinality(SendsOf(Q', QLen - 1, q)) - TS(q)'
        <4> QED BY <1>2, <2>7, SlackNext
      <3>5. Slack(q) = Dist(T, sqHead[q]) + nreq[q] - Cardinality(SendsOf(Q, QLen, q)) - TS(q)
        BY WindowIs DEF Slack
      <3>6. Cardinality(SendsOf(Q', QLen - 1, q)) \in Nat
        <4>1. QLen - 1 \in Nat BY <1>1, <1>2
        <4>2. Dist(sqTail'[q], W) \in Nat
          <5>1. sqTail'[q] \in Index BY <1>3, <2>8
          <5> QED BY <2>1, <5>1, DistFacts
        <4> DEFINE one == 1
        <4>3. one \in {0, 1} /\ WindowOf(Q', QLen - 1, q, sqTail'[q], W, one) BY <2>11
        <4> HIDE DEF one, W
        <4> QED BY <4>1, <4>2, <4>3, SendsBound
      <3> HIDE DEF d, T
      <3> QED BY <2>1, <2>3, <3>1, <3>2, <3>3, <3>4, <3>5, <3>6
    <2>15. \A x \in QPs : Slack(x)' = Slack(x) + (IF x = q THEN -d ELSE 0)
      <3> SUFFICES ASSUME NEW x \in QPs
                   PROVE  Slack(x)' = Slack(x) + (IF x = q THEN -d ELSE 0)
        OBVIOUS
      <3> HIDE DEF d
      <3>1. CASE x = q BY <2>14, <3>1
      <3>2. CASE x # q
        <4>1. Slack(x)' = Slack(x) /\ Slack(x) \in Nat BY <1>1, <2>13, <3>2
        <4> QED BY <3>2, <4>1
      <3> QED BY <3>1, <3>2
    <2>16. SendsKept
      <3> QED BY <2>9, <2>10, <2>12, <2>13 DEF SendsKept
    <2>17. Dist(T, sqTail'[q]) = d BY <2>8
    <2> QED BY <1>3, <1>7, <2>3, <2>8, <2>15, <2>16, <2>17
  <1> QED BY <1>6, <1>7

(* The number of the oldest request is the one polling finds.              *)
LEMMA TailNumber ==
  ASSUME IInv, NEW q \in QPs, TS(q) = 1
  PROVE  RequestAtTail(q) = sqTail[q] /\ sqTail[q] \in Index
  <1>1. SqTypes /\ SqOk(q) /\ Window(q) BY Base
  <1>2. /\ sqTail[q] \in Index /\ sqTail[q] \in Int
        /\ Dist(sqTail[q], hwSq[q]) \in Nat /\ Dist(hwSq[q], sqHead[q]) \in Nat /\ nreq[q] \in Nat
        /\ Dist(sqTail[q], hwSq[q]) + Dist(hwSq[q], sqHead[q]) = Dist(sqTail[q], sqHead[q])
        /\ IndexMod \in Nat \ {0}
    BY <1>1, SqNumbers
  <1>3. 1 <= Dist(sqTail[q], hwSq[q]) BY <1>1 DEF Window
  <1>4. 0 \in 0..Dist(sqTail[q], sqHead[q]) + nreq[q] - 1 BY <1>2, <1>3
  <1>5. wrid[q][(sqTail[q] + 0) % SqSize] = (sqTail[q] + 0) % IndexMod
    BY <1>1, <1>4 DEF SqOk, Numbers
  <1>6. sqTail[q] + 0 = sqTail[q] BY <1>2
  <1>7. sqTail[q] % IndexMod = sqTail[q] BY <1>2, RemSmall DEF Index
  <1> QED BY <1>2, <1>5, <1>6, <1>7 DEF RequestAtTail

(* The completion taken is reported and its entry released.                *)
LEMMA ReportSends ==
  ASSUME IInv, NEW q, taken # None, taken.send, taken.qp = q, Same, AdvanceTail(q), taken' = None,
         UNCHANGED <<sqHead, nreq, wqe, wrid, hwSq>>
  PROVE  /\ SendsKept
         /\ \A x \in QPs : Slack(x)' = Slack(x)
  <1> DEFINE T == sqTail[q]
             W == hwSq[q]
  <1>1. /\ QLen \in Nat /\ SqTypes /\ Held /\ Looked
        /\ \A x \in QPs : SqOk(x) /\ Window(x) /\ Slack(x) \in Nat
    BY Base
  <1>2. q \in QPs BY <1>1 DEF Looked, IInv, Types, TypeOK
  <1>3. \A x : TS(x)' = 0 /\ TS(x) = IF x = q THEN 1 ELSE 0 BY DEF TS
  <1>4. /\ T \in Index /\ W \in Index /\ sqHead[q] \in Index /\ nreq[q] \in Nat
        /\ Dist(T, W) \in Nat /\ Dist(T, sqHead[q]) \in Nat /\ Dist(T, W) <= Dist(T, sqHead[q])
    <2>1. /\ sqTail[q] \in Index /\ hwSq[q] \in Index /\ sqHead[q] \in Index /\ nreq[q] \in Nat
          /\ Dist(sqTail[q], hwSq[q]) \in Nat /\ Dist(hwSq[q], sqHead[q]) \in Nat
          /\ Dist(sqTail[q], sqHead[q]) \in Nat
          /\ Dist(sqTail[q], hwSq[q]) + Dist(hwSq[q], sqHead[q]) = Dist(sqTail[q], sqHead[q])
      BY <1>1, <1>2, SqNumbers
    <2> QED BY <2>1
  <1>5. WindowOf(Q, QLen, q, T, W, 1)
    <2>1. TS(q) = 1 BY <1>3
    <2>2. WindowOf(Q, QLen, q, T, W, TS(q)) BY <1>1, <1>2, WindowIs
    <2> QED BY <2>1, <2>2
  <1>6. 1 <= Dist(T, W) BY <1>5 DEF WindowOf
  <1>7. sqTail' = [sqTail EXCEPT ![q] = (sqTail[q] + 1) % IndexMod] BY DEF AdvanceTail
  <1>8. \A x \in QPs : x # q => sqTail'[x] = sqTail[x] BY <1>1, <1>2, <1>7 DEF SqTypes
  <1>9. /\ SqOk(q)' /\ sqTail' \in [QPs -> Index]
        /\ \A b \in Index : 1 <= Dist(T, b) => Dist(sqTail'[q], b) = Dist(T, b) - 1
    <2> DEFINE d == 1
    <2>1. d \in Nat /\ d <= Dist(sqTail[q], hwSq[q])
          /\ sqTail' = [sqTail EXCEPT ![q] = (sqTail[q] + d) % IndexMod]
      BY <1>6, <1>7
    <2> HIDE DEF d
    <2>2. /\ SqOk(q)' /\ sqTail' \in [QPs -> Index]
          /\ \A b \in Index : d <= Dist(T, b) => Dist(sqTail'[q], b) = Dist(T, b) - d
      BY <1>1, <1>2, <2>1, TailMoves
    <2> QED BY <2>2 DEF d
  <1>10. SqTypes' BY <1>1, <1>9 DEF SqTypes
  <1>11. \A i \in SendsOf(Q, QLen, q) : Q[i].id \in Index /\ Dist(T, Q[i].id) >= 1 + 0
    <2> SUFFICES ASSUME NEW i \in SendsOf(Q, QLen, q)
                 PROVE  Q[i].id \in Index /\ Dist(T, Q[i].id) >= 1 + 0
      OBVIOUS
    <2>1. i \in 1..QLen BY DEF SendsOf
    <2>2. GoodCqe(Q[i], table) BY <1>1, <2>1 DEF Held
    <2>3. Q[i].id \in Index BY <2>2 DEF GoodCqe, Completions, Index
    <2>4. Dist(T, Q[i].id) \in 1..Dist(T, W)-1 BY <1>5 DEF WindowOf
    <2> QED BY <2>3, <2>4
  <1>12. WindowOf(Q, QLen, q, sqTail'[q], W, 0)
    <2> DEFINE t == 1
               u == 0
               d == 1
    <2>1. /\ t \in {0, 1} /\ u \in {0, 1} /\ d \in Nat /\ WindowOf(Q, QLen, q, T, W, t)
          /\ \A b \in Index : d <= Dist(T, b) => Dist(sqTail'[q], b) = Dist(T, b) - d
          /\ \A i \in SendsOf(Q, QLen, q) : Q[i].id \in Index /\ Dist(T, Q[i].id) >= d + u
          /\ d + u <= Dist(T, W)
      BY <1>5, <1>6, <1>9, <1>11
    <2> HIDE DEF t, u, d, T, W
    <2>2. WindowOf(Q, QLen, q, sqTail'[q], W, u)
      BY <1>1, <1>4, <2>1, WindowAdvances
    <2> QED BY <2>2 DEF u
  <1>13. Q' = Q /\ QLen' = QLen BY <1>1, QueueMoves
  <1>14. Window(q)'
    <2>1. TS(q)' = 0 BY <1>3
    <2> QED BY <1>12, <1>13, <2>1, WindowNext
  <1>15. \A x \in QPs : x # q => SqOk(x)' /\ Window(x)' /\ Slack(x)' = Slack(x)
    <2> SUFFICES ASSUME NEW x \in QPs, x # q
                 PROVE  SqOk(x)' /\ Window(x)' /\ Slack(x)' = Slack(x)
      OBVIOUS
    <2>1. Unmoved(x) BY <1>3, <1>8 DEF Unmoved
    <2> QED BY <1>1, <2>1, KeptSame
  <1>16. Slack(q)' = Slack(q)
    <2>1. Dist(sqTail'[q], sqHead[q]) = Dist(T, sqHead[q]) - 1
      <3>1. 1 <= Dist(T, sqHead[q]) BY <1>4, <1>6
      <3> QED BY <1>4, <1>9, <3>1
    <2>2. TS(q)' = 0 /\ TS(q) = 1 BY <1>3
    <2>3. Slack(q)' = Dist(sqTail'[q], sqHead[q]) + nreq[q] - Cardinality(SendsOf(Q, QLen, q)) - TS(q)'
      <3> QED BY <1>13, SlackNext
    <2>4. Slack(q) = Dist(T, sqHead[q]) + nreq[q] - Cardinality(SendsOf(Q, QLen, q)) - TS(q)
      BY WindowIs DEF Slack
    <2>5. Cardinality(SendsOf(Q, QLen, q)) \in Nat
      BY <1>1, <1>2, SlackNat, WindowIs
    <2> HIDE DEF T
    <2> QED BY <1>4, <2>1, <2>2, <2>3, <2>4, <2>5
  <1>17. \A x \in QPs : SqOk(x)' /\ Window(x)' /\ Slack(x)' = Slack(x)
    <2> QED BY <1>9, <1>14, <1>15, <1>16
  <1> QED BY <1>10, <1>17 DEF SendsKept

(* A new queue pair has neither requests nor completions.                  *)
LEMMA CreateSends ==
  ASSUME IInv, NEW q \in QPs, q \notin table, InitIndices(q), Same, taken' = taken
  PROVE  /\ SendsKept /\ Slack(q)' = 0
         /\ \A x \in QPs : x # q => Slack(x)' = Slack(x)
  <1>1. /\ QLen \in Nat /\ SqTypes /\ Held /\ Looked
        /\ \A x \in QPs : SqOk(x) /\ Window(x)
    BY Base
  <1>2. /\ SqOk(q)' /\ SqTypes' /\ Dist(sqTail'[q], sqHead'[q]) = 0 /\ nreq'[q] = 0
        /\ Dist(sqTail'[q], hwSq'[q]) = 0
    BY <1>1, InitKeeps
  <1>3. Q' = Q /\ QLen' = QLen BY <1>1, QueueMoves
  <1>4. SendsOf(Q, QLen, q) = {}
    BY <1>1 DEF SendsOf, Held, GoodCqe
  <1>5. TS(q)' = 0
    <2>1. TS(q) = 0 BY <1>1 DEF TS, Looked
    <2> QED BY <2>1, TakenStays
  <1>6. WindowOf(Q, QLen, q, sqTail'[q], hwSq'[q], 0) BY <1>2, <1>4 DEF WindowOf
  <1>7. Window(q)' BY <1>3, <1>5, <1>6, WindowNext
  <1>8. Slack(q)' = 0
    <2>1. Slack(q)' = 0 + 0 - Cardinality({}) - 0 BY <1>2, <1>3, <1>4, <1>5, SlackNext
    <2>2. Cardinality({}) = 0 BY FS_EmptySet
    <2> QED BY <2>1, <2>2
  <1>9. \A x \in QPs : x # q => SqOk(x)' /\ Window(x)' /\ Slack(x)' = Slack(x)
    <2> SUFFICES ASSUME NEW x \in QPs, x # q
                 PROVE  SqOk(x)' /\ Window(x)' /\ Slack(x)' = Slack(x)
      OBVIOUS
    <2>1. Unmoved(x)
      BY <1>1, TakenStays DEF Unmoved, InitIndices, SqTypes
    <2> QED BY <1>1, <2>1, KeptSame
  <1> QED BY <1>2, <1>7, <1>8, <1>9 DEF SendsKept
=============================================================================
