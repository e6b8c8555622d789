-------------------------- MODULE SplitWholeProofs --------------------------
(***************************************************************************)
(* What the application is handed is whole: a proof about SplitTwoSided.   *)
(***************************************************************************)
EXTENDS SplitTwoSidedProofs, Arithmetic

(* Bytes of a message: in the buffer it is put together in, on the user's   *)
(* queue pair, on split_qp[0], and not posted yet.                          *)
Covers(x, byte) == x.off <= byte /\ byte < x.off + x.len
InBuffer(r, m, byte) ==
  \E p \in placed[r] : p.buf = m /\ p.pos <= byte /\ byte < p.pos + p.len
OnUserWire(s, m, byte) == \E x \in Range(userWire[s]) : x.msg = m /\ Covers(x, byte)
Crossing(s, m, byte) ==
  \E x \in Range(splitWire[s]) : x.kind # "info" /\ x.msg = m /\ Covers(x, byte)
Writing(s) == spc[s] \in {"write", "written", "put", "flush"}
NextByte(s) == IF Writing(s) THEN job[s].off ELSE job[s].off + job[s].chunk
ToPost(s, m, byte) ==
  spc[s] # "idle" /\ m = job[s].msg /\ NextByte(s) <= byte /\ byte < job[s].len
Held(s, r, m, byte) ==
  InBuffer(r, m, byte) \/ OnUserWire(s, m, byte) \/ Crossing(s, m, byte) \/ ToPost(s, m, byte)

LengthOf(s, m) == posted[s][m].len

(* There is a buffer for what each end receives.                            *)
Buffers == DOMAIN placed = Sides

(* Every byte of a message, and no other, is in one of these places.        *)
Account(s, r) ==
  \A m \in 1..Len(posted[s]) : \A byte \in Nat : Held(s, r, m, byte) <=> byte < LengthOf(s, m)

Pieces(s, r) ==
  \A p \in placed[r] : p.buf \in 1..Len(posted[s]) /\ p.pos \in Nat /\ p.len \in Nat

(* The message being split; what its writes add up to.                      *)
JobWhole(s) ==
  LET j == job[s]
      n == NumChunks(j.len, j.chunk)
  IN /\ spc[s] # "idle" => j.len = LengthOf(s, j.msg)
     /\ spc[s] \in {"write", "written"} =>
          IF n = 1 THEN j.off = 0
          ELSE \/ spc[s] = "write" /\ j.off = 0 /\ j.left = n - 1
               \/ j.off > 0 /\ j.off + j.chunk * j.left + j.chunk = j.len

(* What is on split_qp[0] belongs to it.                                    *)
SplitOwn(s) ==
  \A x \in Range(splitWire[s]) : spc[s] # "idle" /\ (x.kind # "info" => x.msg = job[s].msg)

Bytes(s, r) == Account(s, r) /\ Pieces(s, r) /\ JobWhole(s) /\ SplitOwn(s)

-----------------------------------------------------------------------------
(* Queues, and what is on the way.                                          *)

LEMMA RangeGrows ==
  ASSUME NEW T, NEW q \in Seq(T), NEW x
  PROVE  \A y : y \in Range(Append(q, x)) <=> y \in Range(q) \/ y = x
  <1> DEFINE a == Append(q, x)
             U == T \cup {x}
  <1>1. q \in Seq(U)
    <2>1. Len(q) \in Nat /\ q \in [1..Len(q) -> T]
      BY LenProperties
    <2>2. q \in [1..Len(q) -> U]
      BY <2>1
    <2> QED
      BY <2>1, <2>2, SeqDef
  <1>2. x \in U
    OBVIOUS
  <1> HIDE DEF U
  <1>3. /\ a \in Seq(U) /\ Len(a) = Len(q) + 1
        /\ \A i \in 1..Len(q) : a[i] = q[i]
        /\ a[Len(q) + 1] = x
    BY <1>1, <1>2, AppendProperties
  <1> HIDE DEF a
  <1>4. Len(q) \in Nat /\ \A y : y \in Range(q) <=> \E i \in 1..Len(q) : y = q[i]
    BY Indices
  <1>5. \A y : y \in Range(a) <=> \E i \in 1..Len(a) : y = a[i]
    BY <1>3, Indices
  <1>6. \A y \in Range(a) : y \in Range(q) \/ y = x
    BY <1>3, <1>4, <1>5
  <1>7. \A y \in Range(q) : y \in Range(a)
    BY <1>3, <1>4, <1>5
  <1>8. x \in Range(a)
    BY <1>3, <1>4, <1>5
  <1> QED
    BY <1>6, <1>7, <1>8 DEF a

LEMMA RangeShrinks ==
  ASSUME NEW T, NEW q \in Seq(T), q # <<>>
  PROVE  /\ Head(q) \in Range(q) /\ Head(q) \in T
         /\ \A y : y \in Range(q) <=> y \in Range(Tail(q)) \/ y = Head(q)
  <1> DEFINE t == Tail(q)
  <1>1. /\ t \in Seq(T) /\ Head(q) \in T /\ Head(q) = q[1] /\ Len(t) = Len(q) - 1
        /\ \A i \in 1..Len(t) : t[i] = q[i + 1]
    BY HeadTailProperties
  <1> HIDE DEF t
  <1>2. /\ Len(q) \in Nat /\ Len(q) # 0
        /\ \A y : y \in Range(q) <=> \E i \in 1..Len(q) : y = q[i]
    BY Indices
  <1>6. \A y : y \in Range(t) <=> \E i \in 1..Len(t) : y = t[i]
    BY <1>1, Indices
  <1>3. Head(q) \in Range(q)
    BY <1>1, <1>2
  <1>4. \A y \in Range(t) : y \in Range(q)
    BY <1>1, <1>2, <1>6
  <1>5. ASSUME NEW y \in Range(q), y # Head(q) PROVE y \in Range(t)
    <2>1. PICK i \in 1..Len(q) : y = q[i]
      BY <1>2
    <2>2. i # 1
      BY <1>1, <1>5, <2>1
    <2>3. i - 1 \in 1..Len(t) /\ i - 1 + 1 = i
      BY <1>1, <1>2, <2>1, <2>2
    <2>4. y = t[i - 1]
      BY <1>1, <2>1, <2>3
    <2> QED
      BY <1>6, <2>3, <2>4
  <1> QED
    BY <1>1, <1>3, <1>4, <1>5 DEF t

LEMMA UserWireGrows ==
  ASSUME NEW s \in Sides, userWire \in [Sides -> Seq(UserItems)], NEW x \in UserItems,
         userWire'[s] = Append(userWire[s], x)
  PROVE  \A m, byte : OnUserWire(s, m, byte)'
           <=> OnUserWire(s, m, byte) \/ (m = x.msg /\ Covers(x, byte))
  <1>1. \A y : y \in Range(userWire[s])' <=> y \in Range(userWire[s]) \/ y = x
    BY RangeGrows
  <1> QED
    BY <1>1 DEF OnUserWire, Covers

-----------------------------------------------------------------------------
(* How bytes move.                                                          *)

SamePosted(s, r) == posted'[s] = posted[s] /\ placed'[r] = placed[r]

(* From one place to another, none gained and none lost.                    *)
LEMMA BytesMove ==
  ASSUME NEW s, NEW r, Account(s, r), posted'[s] = posted[s],
         \A m \in 1..Len(posted[s]) : \A byte \in Nat :
           Held(s, r, m, byte)' <=> Held(s, r, m, byte)
  PROVE  Account(s, r)'
  <1>1. PICK n : n = Len(posted[s])
    OBVIOUS
  <1>2. Len(posted'[s]) = n /\ \A m \in 1..n : LengthOf(s, m)' = LengthOf(s, m)
    BY <1>1 DEF LengthOf
  <1> QED
    BY <1>1, <1>2 DEF Account

(* The sender goes from one wait to another.                                *)
LEMMA BytesWait ==
  ASSUME NEW s, NEW r, Account(s, r), Pieces(s, r), SamePosted(s, r),
         userWire'[s] = userWire[s], splitWire'[s] = splitWire[s],
         \A m \in 1..Len(posted[s]) : \A byte \in Nat : ToPost(s, m, byte)' <=> ToPost(s, m, byte)
  PROVE  Account(s, r)' /\ Pieces(s, r)'
  <1>1. \A m, byte : /\ InBuffer(r, m, byte)' <=> InBuffer(r, m, byte)
                     /\ OnUserWire(s, m, byte)' <=> OnUserWire(s, m, byte)
                     /\ Crossing(s, m, byte)' <=> Crossing(s, m, byte)
    BY DEF InBuffer, OnUserWire, Crossing, SamePosted, Covers
  <1>2. \A m \in 1..Len(posted[s]) : \A byte \in Nat :
          Held(s, r, m, byte)' <=> Held(s, r, m, byte)
    BY <1>1 DEF Held
  <1>3. Account(s, r)'
    BY <1>2, BytesMove DEF SamePosted
  <1> QED
    BY <1>3 DEF Pieces, SamePosted

(* It posts the next part of the message on split_qp[0].                    *)
LEMMA BytesCross ==
  ASSUME NEW s \in Sides, NEW r, Account(s, r), Pieces(s, r), SplitOwn(s), SamePosted(s, r),
         userWire'[s] = userWire[s], splitWire \in [Sides -> Seq(Items)],
         NEW x, splitWire'[s] = Append(splitWire[s], x),
         x.kind # "info", x.msg = job[s].msg, job'[s].msg = job[s].msg,
         job'[s].len = job[s].len, spc[s] # "idle", spc'[s] # "idle",
         \A byte \in Nat :
           NextByte(s) <= byte /\ byte < job[s].len
             <=> Covers(x, byte) \/ (NextByte(s)' <= byte /\ byte < job[s].len)
  PROVE  Account(s, r)' /\ Pieces(s, r)' /\ SplitOwn(s)'
  <1>1. \A y : y \in Range(splitWire[s])' <=> y \in Range(splitWire[s]) \/ y = x
    BY RangeGrows
  <1>2. \A m, byte : /\ InBuffer(r, m, byte)' <=> InBuffer(r, m, byte)
                     /\ OnUserWire(s, m, byte)' <=> OnUserWire(s, m, byte)
    BY DEF InBuffer, OnUserWire, SamePosted, Covers
  <1>3. ASSUME NEW m \in 1..Len(posted[s]), NEW byte \in Nat
        PROVE  Held(s, r, m, byte)' <=> Held(s, r, m, byte)
    <2>1. Crossing(s, m, byte)' <=> Crossing(s, m, byte) \/ (m = job[s].msg /\ Covers(x, byte))
      BY <1>1 DEF Crossing, Covers
    <2>2. ToPost(s, m, byte) <=> m = job[s].msg /\ NextByte(s) <= byte /\ byte < job[s].len
      BY DEF ToPost
    <2>3. ToPost(s, m, byte)' <=> m = job[s].msg /\ NextByte(s)' <= byte /\ byte < job[s].len
      BY DEF ToPost
    <2> QED
      BY <1>2, <2>1, <2>2, <2>3 DEF Held
  <1>4. Account(s, r)'
    BY <1>3, BytesMove DEF SamePosted
  <1>5. SplitOwn(s)'
    BY <1>1 DEF SplitOwn
  <1> QED
    BY <1>4, <1>5 DEF Pieces, SamePosted

(* It posts the rest of it on the user's queue pair, and returns.           *)
LEMMA BytesLast ==
  ASSUME NEW s \in Sides, NEW r, Account(s, r), Pieces(s, r), SamePosted(s, r),
         userWire \in [Sides -> Seq(UserItems)], splitWire'[s] = splitWire[s],
         NEW x \in UserItems, userWire'[s] = Append(userWire[s], x), x.msg = job[s].msg,
         spc[s] # "idle", spc'[s] = "idle",
         \A byte \in Nat : NextByte(s) <= byte /\ byte < job[s].len <=> Covers(x, byte)
  PROVE  Account(s, r)' /\ Pieces(s, r)'
  <1>2. \A m, byte : /\ InBuffer(r, m, byte)' <=> InBuffer(r, m, byte)
                     /\ Crossing(s, m, byte)' <=> Crossing(s, m, byte)
    BY DEF InBuffer, Crossing, SamePosted, Covers
  <1>3. ASSUME NEW m \in 1..Len(posted[s]), NEW byte \in Nat
        PROVE  Held(s, r, m, byte)' <=> Held(s, r, m, byte)
    <2>1. OnUserWire(s, m, byte)'
            <=> OnUserWire(s, m, byte) \/ (m = job[s].msg /\ Covers(x, byte))
      BY UserWireGrows
    <2>2. ToPost(s, m, byte) <=> m = job[s].msg /\ NextByte(s) <= byte /\ byte < job[s].len
      BY DEF ToPost
    <2>3. ~ToPost(s, m, byte)'
      BY DEF ToPost
    <2> QED
      BY <1>2, <2>1, <2>2, <2>3 DEF Held
  <1>4. Account(s, r)'
    BY <1>3, BytesMove DEF SamePosted
  <1> QED
    BY <1>4 DEF Pieces, SamePosted

(* A piece lands in the buffer.                                             *)
LEMMA BytesLand ==
  ASSUME NEW s \in Sides, NEW r \in Sides, Account(s, r), Pieces(s, r),
         posted'[s] = posted[s], NEW p, placed'[r] = placed[r] \cup {p},
         p.buf \in 1..Len(posted[s]), p.pos \in Nat, p.len \in Nat,
         \A m \in 1..Len(posted[s]) : \A byte \in Nat :
           /\ ToPost(s, m, byte)' <=> ToPost(s, m, byte)
           /\ OnUserWire(s, m, byte) \/ Crossing(s, m, byte)
                <=> \/ OnUserWire(s, m, byte)' \/ Crossing(s, m, byte)'
                    \/ p.buf = m /\ p.pos <= byte /\ byte < p.pos + p.len
  PROVE  Account(s, r)' /\ Pieces(s, r)'
  <1>1. ASSUME NEW m \in 1..Len(posted[s]), NEW byte \in Nat
        PROVE  Held(s, r, m, byte)' <=> Held(s, r, m, byte)
    <2>1. InBuffer(r, m, byte)'
            <=> InBuffer(r, m, byte) \/ (p.buf = m /\ p.pos <= byte /\ byte < p.pos + p.len)
      BY DEF InBuffer
    <2> QED
      BY <2>1 DEF Held
  <1>2. Account(s, r)'
    BY <1>1, BytesMove
  <1> QED
    BY <1>2 DEF Pieces

(* A new message.                                                           *)
LEMMA BytesNew ==
  ASSUME NEW s \in Sides, NEW r \in Sides, TypeOK, Order(s, r), Account(s, r), Pieces(s, r),
         spc[s] = "idle", splitWire[s] = <<>>, placed'[r] = placed[r],
         NEW verb \in Verbs, NEW len \in Lengths, Accept(s, verb, len),
         NEW n \in Nat, n = Len(posted[s]),
         \A m \in 1..n : \A byte \in Nat :
           /\ OnUserWire(s, m, byte)' <=> OnUserWire(s, m, byte)
           /\ ~Crossing(s, m, byte)' /\ ~ToPost(s, m, byte)',
         \A byte \in Nat :
           OnUserWire(s, n + 1, byte)' \/ Crossing(s, n + 1, byte)' \/ ToPost(s, n + 1, byte)'
             <=> byte < len
  PROVE  /\ Account(s, r)' /\ Pieces(s, r)'
         /\ LengthOf(s, n + 1)' = len /\ \A m \in 1..n : LengthOf(s, m)' = LengthOf(s, m)
  <1> DEFINE item == [verb |-> verb, len |-> len]
  <1>1. PICK q \in Seq([verb : Verbs, len : Lengths]) : q = posted[s]
    BY DEF TypeOK
  <1>2. posted'[s] = Append(q, item)
    BY <1>1 DEF Accept, TypeOK
  <1>3. /\ Len(Append(q, item)) = n + 1 /\ Append(q, item)[n + 1] = item
        /\ \A m \in 1..n : Append(q, item)[m] = q[m]
    BY <1>1
  <1>4. /\ Len(posted'[s]) = n + 1 /\ posted'[s][n + 1] = item
        /\ \A m \in 1..n : posted'[s][m] = posted[s][m]
    BY <1>1, <1>2, <1>3, Zenon
  <1>5. LengthOf(s, n + 1)' = len /\ \A m \in 1..n : LengthOf(s, m)' = LengthOf(s, m)
    BY <1>4 DEF LengthOf
  <1>6. Pieces(s, r)' /\ \A p \in placed[r] : p.buf # n + 1
    BY <1>4 DEF Pieces
  <1>7. ASSUME NEW m \in 1..n + 1, NEW byte \in Nat
        PROVE  Held(s, r, m, byte)' <=> byte < LengthOf(s, m)'
    <2>1. CASE m = n + 1
      <3>1. ~InBuffer(r, m, byte)'
        BY <1>6, <2>1 DEF InBuffer
      <3> QED
        BY <1>5, <2>1, <3>1 DEF Held
    <2>2. CASE m \in 1..n
      <3>1. InBuffer(r, m, byte)' <=> InBuffer(r, m, byte)
        BY DEF InBuffer
      <3>2. ~Crossing(s, m, byte) /\ ~ToPost(s, m, byte)
        BY NothingQueued DEF Crossing, ToPost
      <3>3. Held(s, r, m, byte)' <=> Held(s, r, m, byte)
        BY <2>2, <3>1, <3>2 DEF Held
      <3> QED
        BY <1>5, <2>2, <3>3 DEF Account
    <2> QED
      BY <2>1, <2>2
  <1>8. Account(s, r)'
    BY <1>4, <1>7 DEF Account
  <1> QED
    BY <1>5, <1>6, <1>8

-----------------------------------------------------------------------------
(* The sender's actions.                                                    *)

(* When a call begins: what comes onto the user's queue pair is new.        *)
LEMMA NewOnUserWire ==
  ASSUME NEW s, NEW r, Running(s, r), spc[s] = "idle",
         NEW n \in Nat, n = Len(posted[s])
  PROVE  \A byte : ~OnUserWire(s, n + 1, byte)
  <1>1. s \in Sides /\ Top(s) = n
    BY SenderFields DEF Top
  <1>2. \A y \in Range(userWire[s]) : y.msg \in 1..n
    BY <1>1 DEF Running, Order, QueuesInOrder
  <1>3. \A y \in Range(userWire[s]) : y.msg # n + 1
    BY <1>2
  <1> QED
    BY <1>3 DEF OnUserWire

LEMMA BytesWhole ==
  ASSUME NEW s, NEW r, Running(s, r), Bytes(s, r), NEW verb \in Verbs, NEW len \in Lengths,
         NEW chunk \in Chunks, PostWhole(s, verb, len, chunk)
  PROVE  Bytes(s, r)'
  <1>1. /\ TypeOK /\ s \in Sides /\ r \in Sides /\ Order(s, r)
        /\ Account(s, r) /\ Pieces(s, r) /\ userWire \in [Sides -> Seq(UserItems)]
    BY SenderFields DEF Running, Bytes
  <1>2. PICK n \in Nat : n = Len(posted[s])
    BY <1>1, OrderTypes
  <1>3. Accept(s, verb, len) /\ spc[s] = "idle"
    BY DEF PostWhole, Accept
  <1>4. splitWire[s] = <<>>
    BY <1>3, BeforeCall
  <1>5. spc'[s] = "idle" /\ splitWire'[s] = <<>> /\ placed'[r] = placed[r]
    BY <1>3, <1>4 DEF PostWhole, sendVars
  <1>6. len \in Nat \ {0} /\ n + 1 \in Nat \ {0}
    BY SizesAssumption
  <1>7. PICK x \in UserItems : x = [verb |-> verb, msg |-> n + 1, off |-> 0, len |-> len]
    BY <1>6 DEF UserItems
  <1>8. userWire'[s] = Append(userWire[s], x)
    BY <1>1, <1>2, <1>7 DEF PostWhole, PostOnUserQP
  <1>9. \A m, byte : ~Crossing(s, m, byte)' /\ ~ToPost(s, m, byte)'
    BY <1>5, NothingQueued DEF Crossing, ToPost
  <1>10. \A byte \in Nat : Covers(x, byte) <=> byte < len
    BY <1>6, <1>7 DEF Covers
  <1>11. x.msg = n + 1
    BY <1>7
  <1>12. /\ \A m, byte : OnUserWire(s, m, byte)'
              <=> OnUserWire(s, m, byte) \/ (m = n + 1 /\ Covers(x, byte))
         /\ \A byte : ~OnUserWire(s, n + 1, byte)
    BY <1>1, <1>2, <1>3, <1>8, <1>11, NewOnUserWire, UserWireGrows
  <1>13. Account(s, r)' /\ Pieces(s, r)'
    <2>1. \A m \in 1..n : m # n + 1
      OBVIOUS
    <2> QED
      BY <1>1, <1>2, <1>3, <1>4, <1>5, <1>9, <1>10, <1>12, <2>1, BytesNew
  <1> QED
    BY <1>5, <1>13, NothingQueued DEF Bytes, JobWhole, SplitOwn

LEMMA FirstOfTwo ==
  ASSUME NEW len \in Nat \ {0}, NEW chunk \in Nat \ {0}
  PROVE  /\ Min({len, chunk}) \in Nat \ {0}
         /\ Min({len, chunk}) = IF len <= chunk THEN len ELSE chunk
  <1>1. \E m \in {len, chunk} : \A z \in {len, chunk} : m =< z
    OBVIOUS
  <1>2. Min({len, chunk}) \in {len, chunk} /\ \A z \in {len, chunk} : Min({len, chunk}) =< z
    BY <1>1 DEF Min
  <1> QED
    BY <1>2

LEMMA BytesSplit ==
  ASSUME NEW s, NEW r, Running(s, r), Bytes(s, r), NEW len \in Lengths,
         NEW chunk \in Chunks, PostSplit(s, len, chunk)
  PROVE  Bytes(s, r)'
  <1>1. /\ TypeOK /\ s \in Sides /\ r \in Sides /\ Order(s, r)
        /\ Account(s, r) /\ Pieces(s, r) /\ userWire \in [Sides -> Seq(UserItems)]
        /\ splitWire \in [Sides -> Seq(Items)] /\ SpcOK /\ job \in [Sides -> Jobs]
    BY SenderFields DEF Running, Bytes
  <1>2. PICK n \in Nat : n = Len(posted[s])
    BY <1>1, OrderTypes
  <1>3. Accept(s, "SEND", len) /\ spc[s] = "idle"
    BY DEF PostSplit, Accept
  <1>4. splitWire[s] = <<>>
    BY <1>3, BeforeCall
  <1>5. len \in Nat \ {0} /\ chunk \in Nat \ {0} /\ n + 1 \in Nat \ {0} /\ "SEND" \in Verbs
    BY SizesAssumption DEF Verbs
  <1>6. PICK first \in Nat \ {0} :
          first = Min({len, chunk}) /\ first = IF len <= chunk THEN len ELSE chunk
    BY <1>5, FirstOfTwo
  <1>7. PICK left \in Nat : left = ChunksBehind(len, chunk)
    BY <1>5, NumChunksBounds DEF ChunksBehind
  <1>8. PICK x \in UserItems : x = [verb |-> "SEND", msg |-> n + 1, off |-> 0, len |-> first]
    BY <1>5 DEF UserItems
  <1>9. PICK info \in Items : info = [kind |-> "info", chunks |-> left, size |-> chunk]
    BY DEF Items
  <1>10. userWire'[s] = Append(userWire[s], x)
    BY <1>1, <1>2, <1>6, <1>8 DEF PostSplit, PostOnUserQP
  <1>11. splitWire'[s] = <<info>>
    BY <1>1, <1>4, <1>7, <1>9 DEF PostSplit, PostOnSplitQP
  <1>12. /\ spc'[s] = "info" /\ placed'[r] = placed[r]
         /\ job'[s].msg = n + 1 /\ job'[s].len = len /\ job'[s].chunk = chunk
         /\ job'[s].off = 0
    BY <1>1, <1>2 DEF PostSplit, SpcOK
  <1>13. Range(<<info>>) = {info} /\ info.kind = "info"
    BY <1>9 DEF Range
  <1>14. \A m, byte : /\ ~Crossing(s, m, byte)'
                      /\ ToPost(s, m, byte)' <=> m = n + 1 /\ 0 + chunk <= byte /\ byte < len
    BY <1>11, <1>12, <1>13 DEF Crossing, ToPost, NextByte, Writing
  <1>15. \A byte \in Nat : Covers(x, byte) \/ (0 + chunk <= byte /\ byte < len) <=> byte < len
    BY <1>5, <1>6, <1>8 DEF Covers
  <1>16. x.msg = n + 1
    BY <1>8
  <1>17. /\ \A m, byte : OnUserWire(s, m, byte)'
              <=> OnUserWire(s, m, byte) \/ (m = n + 1 /\ Covers(x, byte))
         /\ \A byte : ~OnUserWire(s, n + 1, byte)
    BY <1>1, <1>2, <1>3, <1>10, <1>16, NewOnUserWire, UserWireGrows
  <1>18. Account(s, r)' /\ Pieces(s, r)' /\ LengthOf(s, n + 1)' = len
    <2>1. \A m \in 1..n : m # n + 1
      OBVIOUS
    <2>2. \A byte \in Nat :
            OnUserWire(s, n + 1, byte)' \/ Crossing(s, n + 1, byte)' \/ ToPost(s, n + 1, byte)'
              <=> byte < len
      BY <1>14, <1>15, <1>17
    <2>3. \A m \in 1..n : \A byte \in Nat :
            /\ OnUserWire(s, m, byte)' <=> OnUserWire(s, m, byte)
            /\ ~Crossing(s, m, byte)' /\ ~ToPost(s, m, byte)'
      BY <1>14, <1>17, <2>1
    <2>4. PICK verb \in Verbs : Accept(s, verb, len)
      BY <1>3, <1>5
    <2>5. placed'[r] = placed[r]
      BY <1>12
    <2> QED
      BY <1>1, <1>2, <1>3, <1>4, <2>2, <2>3, <2>4, <2>5, BytesNew
  <1> QED
    BY <1>11, <1>12, <1>13, <1>18 DEF Bytes, JobWhole, SplitOwn

LEMMA ChunksOfWrite ==
  ASSUME NEW len \in Nat \ {0}, NEW chunk \in Nat \ {0}
  PROVE  Max({NumChunks(len, chunk) - 1, 1}) =
           IF NumChunks(len, chunk) = 1 THEN 1 ELSE NumChunks(len, chunk) - 1
  <1>1. PICK n \in Nat \ {0} : n = NumChunks(len, chunk)
    BY NumChunksBounds
  <1>2. \E m \in {n - 1, 1} : \A z \in {n - 1, 1} : m >= z
    OBVIOUS
  <1>3. Max({n - 1, 1}) \in {n - 1, 1} /\ \A z \in {n - 1, 1} : Max({n - 1, 1}) >= z
    BY <1>2 DEF Max
  <1>4. Max({n - 1, 1}) = IF n = 1 THEN 1 ELSE n - 1
    BY <1>3
  <1> QED
    BY <1>1, <1>4

LEMMA BytesStart ==
  ASSUME NEW s, NEW r, Running(s, r), Bytes(s, r), NEW len \in Lengths, NEW chunk \in Chunks,
         StartWimm(s, len, chunk) \/ StartPut(s, len, chunk)
  PROVE  Bytes(s, r)'
  <1>1. /\ TypeOK /\ s \in Sides /\ r \in Sides /\ Order(s, r)
        /\ Account(s, r) /\ Pieces(s, r) /\ SpcOK /\ job \in [Sides -> Jobs]
    BY SenderFields DEF Running, Bytes
  <1>2. PICK n \in Nat : n = Len(posted[s])
    BY <1>1, OrderTypes
  <1>3. len \in Nat \ {0} /\ chunk \in Nat \ {0}
    BY SizesAssumption
  <1>4. PICK verb \in Verbs : Accept(s, verb, len)
    BY DEF StartWimm, StartPut, Verbs
  <1>5. spc[s] = "idle" /\ UNCHANGED <<userWire, splitWire, placed>>
    BY DEF StartWimm, StartPut, Accept
  <1>6. splitWire[s] = <<>> /\ splitWire'[s] = <<>> /\ placed'[r] = placed[r]
    BY <1>5, BeforeCall
  <1>7. /\ job'[s].msg = n + 1 /\ job'[s].len = len /\ job'[s].chunk = chunk
        /\ job'[s].off = 0 /\ spc'[s] \in {"write", "put"}
        /\ spc'[s] = "write" => job'[s].left = Max({NumChunks(len, chunk) - 1, 1})
    BY <1>1, <1>2 DEF StartWimm, StartPut, SpcOK
  <1>8. \A m, byte : /\ ~Crossing(s, m, byte)'
                     /\ ToPost(s, m, byte)' <=> m = n + 1 /\ 0 <= byte /\ byte < len
                     /\ OnUserWire(s, m, byte)' <=> OnUserWire(s, m, byte)
    BY <1>5, <1>6, <1>7, NothingQueued
    DEF Crossing, ToPost, NextByte, Writing, OnUserWire, Covers
  <1>9. \A byte : ~OnUserWire(s, n + 1, byte)
    BY <1>2, <1>5, NewOnUserWire
  <1>10. Account(s, r)' /\ Pieces(s, r)' /\ LengthOf(s, n + 1)' = len
    <2>1. (\A m \in 1..n : m # n + 1) /\ \A byte \in Nat : 0 <= byte
      OBVIOUS
    <2> QED
      BY <1>1, <1>2, <1>4, <1>5, <1>6, <1>8, <1>9, <2>1, BytesNew
  <1>11. JobWhole(s)'
    BY <1>3, <1>7, <1>10, ChunksOfWrite DEF JobWhole
  <1> QED
    BY <1>6, <1>10, <1>11, NothingQueued DEF Bytes, SplitOwn

(* What has been posted on split_qp[0] has landed.                          *)
LEMMA BytesPolled ==
  ASSUME NEW s, NEW r, Running(s, r), Bytes(s, r),
         PollInfoSent(s) \/ PollAck(s) \/ PollChunkSent(s)
  PROVE  Bytes(s, r)'
  <1>1. /\ s \in Sides /\ SpcOK /\ job \in [Sides -> Jobs] /\ JobLatest(s)
        /\ job[s].len \in Nat /\ job[s].chunk \in Nat /\ job[s].left \in Nat /\ job[s].off \in Nat
        /\ Account(s, r) /\ Pieces(s, r) /\ JobWhole(s) /\ SplitOwn(s)
    BY SenderFields DEF Bytes
  <1>2. /\ UNCHANGED <<posted, placed, userWire, splitWire>>
        /\ spc[s] \in {"info", "ack", "sent"}
        /\ \/ spc'[s] \in {"ack", "chunk"} /\ job' = job
           \/ spc'[s] = "idle" /\ job[s].left = 0 /\ spc[s] \in {"info", "sent"}
    BY <1>1 DEF PollInfoSent, PollAck, PollChunkSent, Return, SpcOK, appVars
  <1>3. ASSUME spc'[s] # "idle" PROVE \A m, byte : ToPost(s, m, byte)' <=> ToPost(s, m, byte)
    BY <1>2, <1>3 DEF ToPost, NextByte, Writing
  <1>4. ASSUME spc'[s] = "idle"
        PROVE  /\ \A m : \A byte \in Nat : ~ToPost(s, m, byte)' /\ ~ToPost(s, m, byte)
               /\ splitWire[s] = <<>>
    <2>1. spc[s] \in {"info", "sent"} /\ job[s].left = 0
      BY <1>2, <1>4
    <2>2. job[s].len <= job[s].off + job[s].chunk * job[s].left + job[s].chunk
      BY <1>1, <2>1 DEF JobLatest
    <2>3. job[s].len <= job[s].off + job[s].chunk
      BY <1>1, <2>1, <2>2
    <2>4. \A byte \in Nat : ~(job[s].off + job[s].chunk <= byte /\ byte < job[s].len)
      BY <1>1, <2>3
    <2>5. /\ sendCq[s] > 0 /\ sendCq' = [sendCq EXCEPT ![s] = @ - 1]
      BY <2>1 DEF PollInfoSent, PollAck, PollChunkSent
    <2> QED
      BY <1>4, <2>1, <2>4, <2>5, SenderPolls DEF ToPost, NextByte, Writing
  <1>5. Account(s, r)' /\ Pieces(s, r)'
    BY <1>1, <1>2, <1>3, <1>4, BytesWait DEF SamePosted
  <1>6. JobWhole(s)'
    BY <1>1, <1>2 DEF JobWhole, LengthOf
  <1>7. SplitOwn(s)'
    BY <1>1, <1>2, <1>4, NothingQueued DEF SplitOwn
  <1> QED
    BY <1>5, <1>6, <1>7 DEF Bytes

(* The chunks of a SEND.                                                    *)
LEMMA BytesChunk ==
  ASSUME NEW s, NEW r, Running(s, r), Bytes(s, r), PostChunk(s)
  PROVE  Bytes(s, r)'
  <1>1. /\ s \in Sides /\ SpcOK /\ job \in [Sides -> Jobs] /\ JobLatest(s) /\ JobInv(s)
        /\ splitWire \in [Sides -> Seq(Items)]
        /\ Account(s, r) /\ Pieces(s, r) /\ JobWhole(s) /\ SplitOwn(s)
    BY SenderFields DEF Bytes
  <1>2. spc[s] = "chunk" /\ UNCHANGED <<posted, placed, userWire>>
    BY DEF PostChunk, appVars
  <1>3. PICK j \in Jobs : j = job[s]
    BY <1>1
  <1>4. /\ j.msg \in Nat /\ j.len \in Nat /\ j.chunk \in Nat \ {0} /\ j.left \in Nat \ {0}
        /\ j.off \in Nat
    BY <1>1, <1>2, <1>3, SizesAssumption DEF JobInv, Jobs
  <1>5. PICK off \in Nat : off = j.off + j.chunk
    BY <1>4
  <1>6. PICK x : x = [kind |-> "chunk", msg |-> j.msg, off |-> off,
                      len |-> IF j.left = 1 THEN j.len - off ELSE j.chunk]
    OBVIOUS
  <1>7. splitWire'[s] = Append(splitWire[s], x)
    BY <1>1, <1>3, <1>5, <1>6 DEF PostChunk, PostOnSplitQP
  <1>8. spc'[s] = "sent" /\ job'[s] = [j EXCEPT !.off = off, !.left = j.left - 1]
    BY <1>1, <1>3, <1>5 DEF PostChunk, SpcOK
  <1>9. /\ job'[s].msg = j.msg /\ job'[s].len = j.len /\ job'[s].chunk = j.chunk
        /\ job'[s].off = off
    BY <1>8 DEF Jobs
  <1>10. NextByte(s) = off /\ NextByte(s)' = off + j.chunk
    BY <1>2, <1>3, <1>5, <1>8, <1>9 DEF NextByte, Writing
  <1>11. /\ j.len <= j.off + j.chunk * j.left + j.chunk
         /\ j.off + j.chunk * j.left < j.len
    BY <1>1, <1>2, <1>3 DEF JobLatest, JobInv
  <1>12. PICK len \in Nat : len = x.len /\ (IF j.left = 1 THEN off + len = j.len /\ len <= j.chunk
                                            ELSE len = j.chunk /\ off + len <= j.len)
    <2>1. PICK p \in Nat : p = j.chunk * j.left
      BY <1>4
    <2>2. j.chunk * (j.left - 1) = p - j.chunk
      BY <1>4, <2>1, Distribute
    <2>3. j.left = 1 => p = j.chunk
      BY <1>4, <2>1
    <2>4. j.left # 1 => j.left - 1 \in Nat \ {0}
      BY <1>4
    <2>5. j.left # 1 => j.chunk * (j.left - 1) >= j.chunk
      BY <1>4, <2>4
    <2>6. j.left # 1 => off + j.chunk <= j.len
      BY <1>4, <1>5, <1>11, <2>1, <2>2, <2>5
    <2>7. j.left = 1 => j.len - off \in Nat /\ j.len - off <= j.chunk
      BY <1>4, <1>5, <1>11, <2>1, <2>3
    <2> QED
      BY <1>4, <1>5, <1>6, <2>6, <2>7
  <1>13. \A byte \in Nat :
           NextByte(s) <= byte /\ byte < j.len
             <=> Covers(x, byte) \/ (NextByte(s)' <= byte /\ byte < j.len)
    <2>1. TAKE byte \in Nat
    <2>2. Covers(x, byte) <=> off <= byte /\ byte < off + len
      BY <1>6, <1>12 DEF Covers
    <2> QED
      BY <1>4, <1>5, <1>10, <1>12, <2>2
  <1>14. Account(s, r)' /\ Pieces(s, r)' /\ SplitOwn(s)'
    BY <1>1, <1>2, <1>3, <1>6, <1>7, <1>8, <1>9, <1>13, BytesCross DEF SamePosted
  <1>15. JobWhole(s)'
    BY <1>1, <1>2, <1>3, <1>8, <1>9 DEF JobWhole, LengthOf
  <1> QED
    BY <1>14, <1>15 DEF Bytes

(* The first of N chunks takes what N - 1 whole ones leave over.            *)
LEMMA FirstOfWrite ==
  ASSUME NEW len \in Nat \ {0}, NEW chunk \in Nat \ {0}
  PROVE  FirstLength(len, chunk) + chunk * (NumChunks(len, chunk) - 1) = len
  <1>0. len \div chunk \in Nat /\ len % chunk \in 0..chunk - 1
    <2>1. len \in Int /\ len \in Nat
      OBVIOUS
    <2>2. len \div chunk \in Nat
      BY Divide
    <2>3. len % chunk \in 0..chunk - 1
      OBVIOUS
    <2> QED
      BY <2>2, <2>3
  <1>1. PICK q \in Nat, m \in 0..chunk - 1 : q = len \div chunk /\ m = len % chunk
    BY <1>0
  <1>2. PICK p \in Nat : p = chunk * q
    OBVIOUS
  <1>3. len = p + m
    BY <1>1, <1>2, RemDef
  <1>4. CASE m = 0
    <2>1. len + chunk - 1 = q * chunk + (chunk - 1) /\ chunk - 1 \in 0..chunk - 1
      BY <1>2, <1>3, <1>4
    <2>2. NumChunks(len, chunk) = q
      BY <2>1, RemUnique DEF NumChunks
    <2>3. FirstLength(len, chunk) = chunk
      BY <1>1, <1>4 DEF FirstLength
    <2>4. chunk * (q - 1) = p - chunk
      BY <1>2, Distribute
    <2> QED
      BY <1>3, <1>4, <2>2, <2>3, <2>4
  <1>5. CASE m # 0
    <2>1. len + chunk - 1 = (q + 1) * chunk + (m - 1) /\ m - 1 \in 0..chunk - 1
      <3>1. (q + 1) * chunk = p + chunk
        BY <1>2
      <3> QED
        BY <1>3, <1>5, <3>1
    <2>2. NumChunks(len, chunk) = q + 1
      BY <2>1, RemUnique DEF NumChunks
    <2>3. FirstLength(len, chunk) = m
      BY <1>1, <1>5 DEF FirstLength
    <2>4. q + 1 - 1 = q
      OBVIOUS
    <2> QED
      BY <1>2, <1>3, <2>2, <2>3, <2>4
  <1> QED
    BY <1>4, <1>5

(* What a WRITE with immediate posts next, and what is left then.           *)
LEMMA WriteSums ==
  ASSUME NEW j \in Jobs, j.len \in Nat \ {0}, j.chunk \in Nat \ {0}, j.left \in Nat \ {0},
         NEW n \in Nat \ {0}, n = NumChunks(j.len, j.chunk), n = 1 => j.off = 0,
         n # 1 => \/ j.off = 0 /\ j.left = n - 1
                  \/ j.off > 0 /\ j.off + j.chunk * j.left + j.chunk = j.len
  PROVE  /\ NextLength(j) \in Nat /\ j.off + NextLength(j) <= j.len
         /\ n = 1 => NextLength(j) = 0
         /\ n # 1 => /\ j.off + NextLength(j) > 0
                     /\ j.off + NextLength(j) + j.chunk * (j.left - 1) + j.chunk = j.len
  <1>1. j.off \in Nat
    BY DEF Jobs
  <1>2. PICK first \in Nat \ {0} : first = FirstLength(j.len, j.chunk)
    BY FirstLast
  <1>3. first + j.chunk * (n - 1) = j.len
    BY <1>2, FirstOfWrite
  <1>4. PICK p \in Nat : p = j.chunk * j.left
    OBVIOUS
  <1>5. j.chunk * (j.left - 1) = p - j.chunk /\ p - j.chunk \in Nat
    <2>1. j.left - 1 \in Nat /\ j.chunk * (j.left - 1) \in Nat
      OBVIOUS
    <2> QED
      BY <1>4, <2>1, Distribute
  <1>6. CASE n = 1
    BY <1>1, <1>6 DEF NextLength
  <1>7. CASE n # 1 /\ j.off = 0
    <2>1. j.left = n - 1
      BY <1>7
    <2>2. NextLength(j) = first
      BY <1>2, <1>7 DEF NextLength
    <2>3. first + p = j.len
      BY <1>3, <1>4, <2>1
    <2> QED
      BY <1>5, <1>7, <2>2, <2>3
  <1>8. CASE n # 1 /\ j.off # 0
    <2>1. NextLength(j) = j.chunk
      BY <1>8 DEF NextLength
    <2>2. j.off + p + j.chunk = j.len
      BY <1>4, <1>8
    <2> QED
      BY <1>1, <1>5, <1>8, <2>1, <2>2
  <1> QED
    BY <1>6, <1>7, <1>8

LEMMA BytesWrite ==
  ASSUME NEW s, NEW r, Running(s, r), Bytes(s, r), PostWrite(s)
  PROVE  Bytes(s, r)'
  <1>1. /\ s \in Sides /\ SpcOK /\ job \in [Sides -> Jobs] /\ JobLatest(s) /\ JobInv(s)
        /\ splitWire \in [Sides -> Seq(Items)]
        /\ Account(s, r) /\ Pieces(s, r) /\ JobWhole(s) /\ SplitOwn(s)
    BY SenderFields DEF Bytes
  <1>2. spc[s] = "write" /\ UNCHANGED <<posted, placed, userWire>>
    BY DEF PostWrite, appVars
  <1>3. PICK j \in Jobs : j = job[s]
    BY <1>1
  <1>4. /\ j.msg \in Nat /\ j.len \in Nat \ {0} /\ j.chunk \in Nat \ {0} /\ j.left \in Nat \ {0}
        /\ j.off \in Nat
    BY <1>1, <1>2, <1>3, SizesAssumption DEF JobInv, Jobs
  <1>5. PICK n \in Nat \ {0} : n = NumChunks(j.len, j.chunk)
    BY <1>4, NumChunksBounds
  <1>6. /\ n = 1 => j.off = 0
        /\ n # 1 => \/ j.off = 0 /\ j.left = n - 1
                    \/ j.off > 0 /\ j.off + j.chunk * j.left + j.chunk = j.len
    BY <1>1, <1>2, <1>3, <1>5 DEF JobWhole
  <1>7. PICK len \in Nat : len = NextLength(j)
    BY <1>4, <1>5, <1>6, WriteSums
  <1>8. /\ j.off + len <= j.len /\ (n = 1 => len = 0)
        /\ n # 1 => j.off + len > 0 /\ j.off + len + j.chunk * (j.left - 1) + j.chunk = j.len
    BY <1>4, <1>5, <1>6, <1>7, WriteSums
  <1>9. PICK x : x = [kind |-> IF j.left = 1 THEN "wimm" ELSE "write",
                      msg |-> j.msg, off |-> j.off, len |-> len, signaled |-> TRUE]
    OBVIOUS
  <1>10. splitWire'[s] = Append(splitWire[s], x)
    BY <1>1, <1>3, <1>7, <1>9 DEF PostWrite, PostOnSplitQP
  <1>11. spc'[s] = "written" /\ job'[s] = [j EXCEPT !.off = j.off + len, !.left = j.left - 1]
    BY <1>1, <1>3, <1>7 DEF PostWrite, SpcOK
  <1>12. /\ job'[s].msg = j.msg /\ job'[s].len = j.len /\ job'[s].chunk = j.chunk
         /\ job'[s].off = j.off + len /\ job'[s].left = j.left - 1
    BY <1>11 DEF Jobs
  <1>13. NextByte(s) = j.off /\ NextByte(s)' = j.off + len
    BY <1>2, <1>3, <1>11, <1>12 DEF NextByte, Writing
  <1>14. \A byte \in Nat :
           NextByte(s) <= byte /\ byte < j.len
             <=> Covers(x, byte) \/ (NextByte(s)' <= byte /\ byte < j.len)
    <2>1. TAKE byte \in Nat
    <2>2. Covers(x, byte) <=> j.off <= byte /\ byte < j.off + len
      BY <1>9 DEF Covers
    <2> QED
      BY <1>4, <1>8, <1>13, <2>2
  <1>15. Account(s, r)' /\ Pieces(s, r)' /\ SplitOwn(s)'
    BY <1>1, <1>2, <1>3, <1>9, <1>10, <1>11, <1>12, <1>14, BytesCross DEF SamePosted
  <1>16. JobWhole(s)'
    <2>1. j.len = LengthOf(s, j.msg)'
      BY <1>1, <1>2, <1>3 DEF JobWhole, LengthOf
    <2>2. n = 1 => j.off + len = 0
      BY <1>4, <1>6, <1>8
    <2> QED
      BY <1>5, <1>8, <1>11, <1>12, <2>1, <2>2 DEF JobWhole
  <1> QED
    BY <1>15, <1>16 DEF Bytes

LEMMA BytesPut ==
  ASSUME NEW s, NEW r, Running(s, r), Bytes(s, r), PostPut(s)
  PROVE  Bytes(s, r)'
  <1>1. /\ s \in Sides /\ SpcOK /\ job \in [Sides -> Jobs] /\ JobInv(s)
        /\ splitWire \in [Sides -> Seq(Items)]
        /\ Account(s, r) /\ Pieces(s, r) /\ JobWhole(s) /\ SplitOwn(s)
    BY SenderFields DEF Bytes
  <1>2. spc[s] = "put" /\ UNCHANGED <<posted, placed, userWire>>
    BY DEF PostPut, appVars
  <1>3. PICK j \in Jobs : j = job[s]
    BY <1>1
  <1>4. /\ j.msg \in Nat /\ j.len \in Nat \ {0} /\ j.chunk \in Nat \ {0} /\ j.left \in Nat \ {0}
        /\ j.off \in Nat /\ j.off + j.chunk * j.left < j.len
    BY <1>1, <1>2, <1>3, SizesAssumption DEF JobInv, Jobs
  <1>5. PICK x : x = [kind |-> "write", msg |-> j.msg, off |-> j.off,
                      len |-> j.chunk, signaled |-> Signaled(j)]
    OBVIOUS
  <1>6. splitWire'[s] = Append(splitWire[s], x)
    BY <1>1, <1>3, <1>5 DEF PostPut, PostOnSplitQP
  <1>7. /\ spc'[s] \in {"put", "flush"}
        /\ job'[s] = [j EXCEPT !.off = j.off + j.chunk, !.left = j.left - 1]
    BY <1>1, <1>3 DEF PostPut, SpcOK
  <1>8. /\ job'[s].msg = j.msg /\ job'[s].len = j.len /\ job'[s].chunk = j.chunk
        /\ job'[s].off = j.off + j.chunk
    BY <1>7 DEF Jobs
  <1>9. NextByte(s) = j.off /\ NextByte(s)' = j.off + j.chunk
    BY <1>2, <1>3, <1>7, <1>8 DEF NextByte, Writing
  <1>10. j.off + j.chunk <= j.len
    <2>1. j.chunk * j.left >= j.chunk
      BY <1>4
    <2>2. PICK p \in Nat : p = j.chunk * j.left
      BY <1>4
    <2> QED
      BY <1>4, <2>1, <2>2
  <1>11. \A byte \in Nat :
           NextByte(s) <= byte /\ byte < j.len
             <=> Covers(x, byte) \/ (NextByte(s)' <= byte /\ byte < j.len)
    <2>1. TAKE byte \in Nat
    <2>2. Covers(x, byte) <=> j.off <= byte /\ byte < j.off + j.chunk
      BY <1>5 DEF Covers
    <2> QED
      BY <1>4, <1>9, <1>10, <2>2
  <1>12. Account(s, r)' /\ Pieces(s, r)' /\ SplitOwn(s)'
    BY <1>1, <1>2, <1>3, <1>5, <1>6, <1>7, <1>8, <1>11, BytesCross DEF SamePosted
  <1>13. JobWhole(s)'
    BY <1>1, <1>2, <1>3, <1>7, <1>8 DEF JobWhole, LengthOf
  <1> QED
    BY <1>12, <1>13 DEF Bytes

(* What is left goes out on the user's queue pair.                          *)
LEMMA BytesReturn ==
  ASSUME NEW s, NEW r, Running(s, r), Bytes(s, r), NEW verb \in Verbs,
         NEW len \in Nat \ {0}, PostLast(s, verb, len), job[s].off + len = job[s].len,
         UNCHANGED <<posted, placed, splitWire>>, splitWire[s] = <<>>,
         spc[s] \in {"written", "flush"}
  PROVE  Bytes(s, r)'
  <1>1. /\ s \in Sides /\ SpcOK /\ JobInv(s) /\ userWire \in [Sides -> Seq(UserItems)]
        /\ Account(s, r) /\ Pieces(s, r)
    BY SenderFields DEF Bytes
  <1>2. PICK msg \in Nat \ {0}, off \in Nat : msg = job[s].msg /\ off = job[s].off
    BY <1>1, SenderFields DEF JobInv
  <1>3. PICK x \in UserItems : x = [verb |-> verb, msg |-> msg, off |-> off, len |-> len]
    BY DEF UserItems
  <1>4. userWire'[s] = Append(userWire[s], x) /\ spc'[s] = "idle"
    BY <1>1, <1>2, <1>3 DEF PostLast, PostOnUserQP, SpcOK
  <1>5. \A byte \in Nat : NextByte(s) <= byte /\ byte < job[s].len <=> Covers(x, byte)
    BY <1>2, <1>3 DEF NextByte, Writing, Covers
  <1>6. Account(s, r)' /\ Pieces(s, r)'
    BY <1>1, <1>2, <1>3, <1>4, <1>5, BytesLast DEF SamePosted
  <1> QED
    BY <1>4, <1>6, NothingQueued DEF Bytes, JobWhole, SplitOwn

LEMMA BytesWritten ==
  ASSUME NEW s, NEW r, Running(s, r), Bytes(s, r), PollWritten(s) \/ PollPut(s)
  PROVE  Bytes(s, r)'
  <1>1. /\ s \in Sides /\ SpcOK /\ JobInv(s) /\ job \in [Sides -> Jobs]
        /\ Account(s, r) /\ Pieces(s, r) /\ JobWhole(s) /\ SplitOwn(s)
    BY SenderFields DEF Bytes
  <1>2. /\ UNCHANGED <<posted, placed, splitWire>> /\ spc[s] \in {"written", "flush"}
        /\ sendCq[s] > 0 /\ sendCq' = [sendCq EXCEPT ![s] = @ - 1]
    BY DEF PollWritten, PollPut, appVars
  <1>3. splitWire[s] = <<>>
    BY <1>2, SenderPolls
  <1>4. PICK j \in Jobs : j = job[s]
    BY <1>1
  <1>5. /\ j.len \in Nat \ {0} /\ j.chunk \in Nat \ {0} /\ j.left \in Nat /\ j.off \in Nat
    BY <1>1, <1>2, <1>4, SizesAssumption DEF JobInv, Jobs
  <1>6. CASE PollPut(s)
    <2>1. spc[s] = "flush" /\ PostLast(s, "WRITE", j.len - j.off) /\ "WRITE" \in Verbs
      BY <1>4, <1>6 DEF PollPut, Verbs
    <2>2. PICK p \in Nat : p = j.chunk * j.left
      BY <1>5
    <2>3. j.off + p < j.len
      BY <1>1, <1>4, <2>1, <2>2 DEF JobInv
    <2>4. PICK len \in Nat \ {0} : len = j.len - j.off /\ j.off + len = j.len
      BY <1>5, <2>3
    <2> QED
      BY <1>2, <1>3, <1>4, <2>1, <2>4, BytesReturn
  <1>7. CASE PollWritten(s) /\ j.left = 0
    <2>1. /\ spc[s] = "written" /\ "WRITE_WITH_IMM" \in Verbs
          /\ PostLast(s, "WRITE_WITH_IMM", LastLength(j.len, j.chunk))
      BY <1>4, <1>7 DEF PollWritten, Verbs
    <2>2. PICK n \in Nat \ {0} : n = NumChunks(j.len, j.chunk)
      BY <1>5, NumChunksBounds
    <2>3. IF n = 1 THEN j.off = 0 ELSE j.off + j.chunk * j.left + j.chunk = j.len
      BY <1>1, <1>4, <2>1, <2>2 DEF JobWhole
    <2>4. PICK len \in Nat \ {0} : len = LastLength(j.len, j.chunk)
      BY <1>5, FirstLast
    <2>5. CASE n = 1
      <3>1. FirstLength(j.len, j.chunk) + j.chunk * (n - 1) = j.len
        BY <1>5, <2>2, FirstOfWrite
      <3>2. len = FirstLength(j.len, j.chunk) /\ j.chunk * (n - 1) = 0
        BY <1>5, <2>2, <2>4, <2>5 DEF LastLength
      <3>3. j.off + len = j.len
        BY <2>3, <2>4, <2>5, <3>1, <3>2
      <3> QED
        BY <1>2, <1>3, <1>4, <2>1, <2>4, <3>3, BytesReturn
    <2>6. CASE n # 1
      <3>1. len = j.chunk /\ j.chunk * j.left = 0
        BY <1>5, <1>7, <2>2, <2>4, <2>6 DEF LastLength
      <3>2. j.off + len = j.len
        BY <1>5, <2>3, <2>6, <3>1
      <3> QED
        BY <1>2, <1>3, <1>4, <2>1, <2>4, <3>2, BytesReturn
    <2> QED
      BY <2>5, <2>6
  <1>8. CASE PollWritten(s) /\ j.left # 0
    <2>1. spc[s] = "written" /\ spc'[s] = "write" /\ UNCHANGED <<userWire, job>>
      BY <1>1, <1>4, <1>8 DEF PollWritten, SpcOK
    <2>2. \A m, byte : ToPost(s, m, byte)' <=> ToPost(s, m, byte)
      BY <2>1 DEF ToPost, NextByte, Writing
    <2>3. Account(s, r)' /\ Pieces(s, r)'
      BY <1>1, <1>2, <2>1, <2>2, BytesWait DEF SamePosted
    <2>4. JobWhole(s)'
      BY <1>1, <1>2, <2>1 DEF JobWhole, LengthOf
    <2>5. SplitOwn(s)'
      BY <1>2, <1>3, NothingQueued DEF SplitOwn
    <2> QED
      BY <2>3, <2>4, <2>5 DEF Bytes
  <1> QED
    BY <1>6, <1>7, <1>8

-----------------------------------------------------------------------------
(* The queue pairs.                                                         *)
LEMMA BytesLandUser ==
  ASSUME NEW s, NEW r, Running(s, r), Bytes(s, r), Buffers, LandUser(s)
  PROVE  Bytes(s, r)'
  <1>1. /\ s \in Sides /\ r \in Sides /\ Peer(s) = r /\ userWire \in [Sides -> Seq(UserItems)]
        /\ Account(s, r) /\ Pieces(s, r) /\ JobWhole(s) /\ SplitOwn(s)
        /\ Len(posted[s]) \in Nat /\ QueuesInOrder(s, r)
    BY SenderFields DEF Bytes, Ends, Running, Order
  <1>2. /\ userWire[s] # <<>> /\ userWire'[s] = Tail(userWire[s])
        /\ UNCHANGED <<posted, spc, job, splitWire>>
    BY <1>1 DEF LandUser, sendVars
  <1>3. PICK q \in Seq(UserItems) : q = userWire[s] /\ q # <<>>
    BY <1>1, <1>2
  <1>4. PICK x : x = Head(q)
    OBVIOUS
  <1>5. x \in Range(q) /\ \A y : y \in Range(q) <=> y \in Range(Tail(q)) \/ y = x
    BY <1>3, <1>4, RangeShrinks
  <1>6. PICK p : p = Fill(Written(x), x)
    OBVIOUS
  <1>7. p.buf = x.msg /\ p.pos = x.off /\ p.len = x.len
    BY <1>6 DEF Fill, Written, Piece
  <1>8. placed'[r] = placed[r] \cup {p}
    BY <1>1, <1>3, <1>4, <1>6 DEF LandUser, Buffers
  <1>9. p.buf \in 1..Len(posted[s])
    <2>1. x.msg \in 1..Top(s)
      BY <1>1, <1>3, <1>5 DEF QueuesInOrder
    <2> QED
      BY <1>1, <1>7, <2>1 DEF Top
  <1>10. \A m, byte : /\ ToPost(s, m, byte)' <=> ToPost(s, m, byte)
                      /\ Crossing(s, m, byte)' <=> Crossing(s, m, byte)
    BY <1>2 DEF ToPost, NextByte, Writing, Crossing, Covers
  <1>11. \A m, byte : OnUserWire(s, m, byte)
           <=> OnUserWire(s, m, byte)' \/ (p.buf = m /\ p.pos <= byte /\ byte < p.pos + p.len)
    BY <1>2, <1>3, <1>5, <1>7 DEF OnUserWire, Covers
  <1>12. Account(s, r)' /\ Pieces(s, r)'
    <2>1. x \in UserItems
      BY <1>5, QueueItems
    <2>2. x.off \in Nat /\ x.len \in Nat
      BY <2>1 DEF UserItems
    <2>3. p.pos \in Nat /\ p.len \in Nat
      BY <1>7, <2>2
    <2> QED
      BY <1>1, <1>2, <1>8, <1>9, <1>10, <1>11, <2>3, BytesLand
  <1>13. JobWhole(s)' /\ SplitOwn(s)'
    BY <1>1, <1>2 DEF JobWhole, SplitOwn, LengthOf
  <1> QED
    BY <1>12, <1>13 DEF Bytes

(* Something lands on split_qp[0].                                          *)
LEMMA BytesLandSplit ==
  ASSUME NEW s, NEW r, Running(s, r), InPlace', Bytes(s, r), Buffers, LandOnSplit(s)
  PROVE  Bytes(s, r)'
  <1>1. /\ s \in Sides /\ r \in Sides /\ Peer(s) = r /\ splitWire \in [Sides -> Seq(Items)]
        /\ Account(s, r) /\ Pieces(s, r) /\ JobWhole(s) /\ SplitOwn(s) /\ JobLatest(s)
        /\ Len(posted[s]) \in Nat /\ Phase(s, r) /\ TypeOK
    BY SenderFields DEF Bytes, Ends, Running
  <1>2. /\ splitWire[s] # <<>> /\ splitWire'[s] = Tail(splitWire[s])
        /\ UNCHANGED <<posted, spc, job, userWire>>
    BY <1>1 DEF LandOnSplit, LandSplitSend, LandSplitWrite, LandSplit, appVars, sendVars
  <1>3. PICK q \in Seq(Items) : q = splitWire[s] /\ q # <<>>
    BY <1>1, <1>2
  <1>4. PICK x \in Items : x = Head(q)
    BY <1>3, RangeShrinks
  <1>5. x \in Range(q) /\ \A y : y \in Range(q) <=> y \in Range(Tail(q)) \/ y = x
    BY <1>3, <1>4, RangeShrinks
  <1>6. \A m, byte : /\ ToPost(s, m, byte)' <=> ToPost(s, m, byte)
                     /\ OnUserWire(s, m, byte)' <=> OnUserWire(s, m, byte)
    BY <1>2 DEF ToPost, NextByte, Writing, OnUserWire, Covers
  <1>7. \A m, byte : Crossing(s, m, byte)
           <=> Crossing(s, m, byte)' \/ (x.kind # "info" /\ x.msg = m /\ Covers(x, byte))
    BY <1>2, <1>3, <1>5 DEF Crossing, Covers
  <1>8. JobWhole(s)' /\ SplitOwn(s)'
    BY <1>1, <1>2, <1>3, <1>5 DEF JobWhole, SplitOwn, LengthOf
  <1>9. CASE x.kind = "info"
    <2>1. LandSplitSend(s) /\ spc[s] = "info"
      <3>1. LandSplitSend(s)
        BY <1>3, <1>4, <1>9 DEF LandOnSplit, LandSplitWrite
      <3>2. ~IsChunk(s, x) /\ ~IsWrite(s, x) /\ x.kind # "write"
        BY <1>9 DEF IsChunk, IsWrite
      <3> QED
        BY <1>2, <1>3, <1>4, <3>1, <3>2, NextToLand
    <2>2. placed'[r] = placed[r]
      <3>1. splitRR[r] # <<>>
        BY <1>1, <2>1 DEF LandSplitSend, UseRequest
      <3>2. InFlight(s) /\ ~Chunking(s)
        BY <1>2, <2>1 DEF InFlight, Chunking, Awaiting
      <3>3. Open(s, r)
        BY <1>1, <3>1, <3>2 DEF Phase, Used, Exchange
      <3>4. Head(splitRR[r]).kind = "fc"
        BY <3>3 DEF Open, InfoRequest
      <3> QED
        BY <1>1, <2>1, <3>4 DEF LandSplitSend
    <2>3. \A m \in 1..Len(posted[s]) : \A byte \in Nat : Held(s, r, m, byte)' <=> Held(s, r, m, byte)
      BY <1>6, <1>7, <1>9, <2>2 DEF Held, InBuffer
    <2>4. Account(s, r)' /\ Pieces(s, r)'
      BY <1>1, <1>2, <2>2, <2>3, BytesMove DEF Pieces
    <2> QED
      BY <1>8, <2>4 DEF Bytes
  <1>10. CASE x.kind # "info"
    <2>1. PICK p : /\ placed'[r] = placed[r] \cup {p}
                   /\ p.buf = x.msg /\ p.pos = x.off /\ p.len = x.len
      <3>1. CASE LandSplitWrite(s)
        <4>1. PICK p : p = Fill(Written(x), x)
          OBVIOUS
        <4>2. p.buf = x.msg /\ p.pos = x.off /\ p.len = x.len
          BY <4>1 DEF Fill, Written, Piece
        <4>3. placed'[r] = placed[r] \cup {p}
          BY <1>1, <1>3, <1>4, <3>1, <4>1 DEF LandSplitWrite, Buffers
        <4> QED
          BY <4>2, <4>3
      <3>2. CASE LandSplitSend(s)
        <4>1. x.kind = "chunk"
          BY <1>3, <1>4, <1>10, <3>2 DEF LandSplitSend
        <4>2. spc[s] = "sent"
          <5>1. x # Announcement(s) /\ ~IsWrite(s, x) /\ x.kind # "write"
            BY <4>1 DEF IsWrite, Announcement
          <5> QED
            BY <1>2, <1>3, <1>4, <5>1, NextToLand
        <4>3. Chunking(s) /\ ~Elsewhere(s) /\ ~InFlight(s) /\ ~ImmLanded(s) /\ ~Awaiting(s)
          BY <1>2, <4>2 DEF InFlight, Chunking, Awaiting, Elsewhere, ImmLanded
        <4>4. Exchange(s, r)
          BY <1>1, <4>3 DEF Phase, Open, Used
        <4>5. PICK n \in Nat : n = ToLand(s) /\ n >= 1
          <5>1. OneSent(s) = 1
            BY <1>2, <4>2 DEF OneSent
          <5>2. PICK k \in Nat : k = job[s].left
            BY SenderFields
          <5>3. ToLand(s) = k + 1 /\ k + 1 \in Nat /\ k + 1 >= 1
            BY <5>1, <5>2 DEF ToLand
          <5> QED
            BY <5>3
        <4>6. splitRR[r][1].kind = "buf"
          <5>1. 1 \in 1..n
            BY <4>5
          <5>2. splitRR[r][1] = [kind |-> "buf", buf |-> job[s].msg, room |-> job[s].chunk,
                   pos |-> job[s].off - OneSent(s) * job[s].chunk + job[s].chunk * 1]
            BY <4>4, <4>5, <5>1, Zenon DEF Exchange
          <5> QED
            BY <5>2
        <4>7. Head(splitRR[r]) = splitRR[r][1]
          BY <1>1, <3>2 DEF TypeOK, LandSplitSend, UseRequest
        <4>8. PICK p : p = Fill(Head(splitRR[r]), x)
          OBVIOUS
        <4>9. placed' = [placed EXCEPT ![r] = @ \cup {p}]
          BY <1>1, <1>3, <1>4, <3>2, <4>1, <4>6, <4>7, <4>8 DEF LandSplitSend
        <4>10. placed'[r] = placed[r] \cup {p}
          BY <1>1, <4>9 DEF Buffers
        <4>11. p.msg = x.msg /\ p.off = x.off /\ p.len = x.len
          BY <4>8 DEF Fill, Piece
        <4>12. p.buf = p.msg /\ p.pos = p.off
          BY <1>1, <4>10 DEF InPlace
        <4> QED
          BY <4>10, <4>11, <4>12
      <3> QED
        BY <3>1, <3>2 DEF LandOnSplit
    <2>2. x.msg \in 1..Len(posted[s])
      BY <1>1, <1>3, <1>5, <1>10 DEF SplitOwn, JobLatest
    <2>3. \A m \in 1..Len(posted[s]) : \A byte \in Nat :
           /\ ToPost(s, m, byte)' <=> ToPost(s, m, byte)
           /\ OnUserWire(s, m, byte) \/ Crossing(s, m, byte)
                <=> \/ OnUserWire(s, m, byte)' \/ Crossing(s, m, byte)'
                    \/ p.buf = m /\ p.pos <= byte /\ byte < p.pos + p.len
      BY <1>6, <1>7, <1>10, <2>1 DEF Covers
    <2>4. Account(s, r)' /\ Pieces(s, r)'
      <3>1. x.off \in Nat /\ x.len \in Nat
        BY <1>10 DEF Items
      <3>2. p.pos \in Nat /\ p.len \in Nat
        BY <2>1, <3>1
      <3> QED
        BY <1>1, <1>2, <2>1, <2>2, <2>3, <3>2, BytesLand
    <2> QED
      BY <1>8, <2>4 DEF Bytes
  <1> QED
    BY <1>9, <1>10

(* Nothing is posted, nothing lands.                                        *)
LEMMA BytesStay ==
  ASSUME NEW s, NEW r, Bytes(s, r), SamePosted(s, r), spc'[s] = spc[s], job'[s] = job[s],
         userWire'[s] = userWire[s], splitWire'[s] = splitWire[s]
  PROVE  Bytes(s, r)'
  <1>1. \A m, byte : ToPost(s, m, byte)' <=> ToPost(s, m, byte)
    BY DEF ToPost, NextByte, Writing
  <1>2. Account(s, r)' /\ Pieces(s, r)'
    BY <1>1, BytesWait DEF Bytes
  <1> QED
    BY <1>2 DEF Bytes, JobWhole, SplitOwn, LengthOf, SamePosted

-----------------------------------------------------------------------------
(* The length an application is told.                                       *)

(* How much of a SEND goes out on the user's queue pair: of one that has    *)
(* chunks behind it, and until its ACK has come, a chunk.                   *)
HasChunks(s, m) == spc[s] \in {"info", "ack"} /\ job[s].msg = m /\ job[s].left > 0
FirstLen(s, m) == IF HasChunks(s, m) THEN job[s].chunk ELSE LengthOf(s, m)

FirstPieces(s, r) ==
  /\ \A x \in OnTheWay(s, r) : VerbOf(s, x.msg) = "SEND" => x.len = FirstLen(s, x.msg)
  /\ rpc[r] = "info" => rx[r].total = FirstLen(s, rx[r].buf)

(* One completion at a time is being put together.                          *)
OneBatch(s, r) ==
  rpc[r] # "idle" =>
    /\ Len(rx[r].batch) = 1 /\ rx[r].batch[1].msg = rx[r].buf
    /\ rpc[r] = "wimm" => VerbOf(s, rx[r].buf) = "WRITE_WITH_IMM"

(* The chunks the receiver has still to add to its sum are c long, but the  *)
(* last, which is l long: those that have landed, and those to be posted.   *)
Mine(s, r) == spc[s] # "idle" /\ rx[r].buf = job[s].msg
SizesAre(s, r, c, l) ==
  LET j == job[s]
  IN /\ rx[r].total + c * (rx[r].left - 1) + l = LengthOf(s, rx[r].buf)
     /\ \A i \in 1..Len(recvCq[r]) :
          /\ i < rx[r].left => recvCq[r][i] = c
          /\ i = rx[r].left => recvCq[r][i] = l
     /\ Mine(s, r) =>
          /\ c = j.chunk /\ j.off + j.chunk * j.left + l = j.len
          /\ \A x \in Range(splitWire[s]) : x.len = (IF j.left = 0 THEN l ELSE c)
Adding(s, r) ==
  rpc[r] \in {"ack", "chunks"} => \E c \in Chunks, l \in Int : SizesAre(s, r, c, l)

HandedWhole(s, r) ==
  \A i \in DOMAIN delivered[r] :
    LET wc == delivered[r][i] IN VerbOf(s, wc.msg) = "SEND" => wc.len = LengthOf(s, wc.msg)

Told(s, r) == FirstPieces(s, r) /\ OneBatch(s, r) /\ Adding(s, r) /\ HandedWhole(s, r)

(* What is known of a message stays as it is.                               *)
SameMessages(s) ==
  \A m \in 1..Len(posted[s]) : VerbOf(s, m)' = VerbOf(s, m) /\ LengthOf(s, m)' = LengthOf(s, m)

(* The messages the receiver has to do with have been posted.               *)
LEMMA MessagesPosted ==
  ASSUME NEW s, NEW r, Running(s, r)
  PROVE  /\ \A x \in OnTheWay(s, r) : x.msg \in 1..Len(posted[s])
         /\ rpc[r] # "idle" => rx[r].buf \in 1..Len(posted[s])
         /\ \A i \in DOMAIN delivered[r] : delivered[r][i].msg \in 1..Len(posted[s])
         /\ \A m \in 1..Top(s) : m \in 1..Len(posted[s])
  <1>1. /\ TypeOK /\ s \in Sides /\ r \in Sides /\ Len(posted[s]) \in Nat /\ Order(s, r)
    BY SenderFields DEF Running
  <1>2. \A m \in 1..Top(s) : m \in 1..Len(posted[s])
    BY <1>1 DEF Top
  <1>3. \A x \in OnTheWay(s, r) : x.msg \in 1..Top(s)
    BY <1>1 DEF Order, QueuesInOrder, OnTheWay
  <1>4. rpc[r] # "idle" => rx[r].buf \in 1..Top(s)
    BY <1>1 DEF Order, ReceptionInOrder
  <1>5. \A i \in DOMAIN delivered[r] : delivered[r][i].msg \in 1..Top(s)
    <2>1. TAKE i \in DOMAIN delivered[r]
    <2>2. delivered[r] \in Completions /\ Top(s) \in Int
      BY <1>1, OrderTypes
    <2>3. delivered[r][i] \in [msg : Nat \ {0}, len : Nat]
      <3>1. PICK q \in Seq([msg : Nat \ {0}, len : Nat]) : q = delivered[r]
        BY <2>2 DEF Completions
      <3>2. i \in 1..Len(q)
        BY <3>1, LenProperties
      <3>3. q[i] \in [msg : Nat \ {0}, len : Nat]
        BY <3>2, ElementOfSeq
      <3> QED
        BY <3>1, <3>3
    <2>4. delivered[r][i].msg \in Nat \ {0}
      BY <2>3
    <2>5. delivered[r][i].msg <= Top(s)
      BY <1>1 DEF Order, HandedInOrder, Msgs
    <2> QED
      BY <2>2, <2>4, <2>5
  <1> QED
    BY <1>2, <1>3, <1>4, <1>5

(* The receiver does nothing.                                               *)
LEMMA FirstStay ==
  ASSUME NEW s, NEW r, Running(s, r), FirstPieces(s, r), SameReceiver(r), SameMessages(s),
         \A x \in OnTheWay(s, r)' :
           \/ x \in OnTheWay(s, r)
           \/ VerbOf(s, x.msg)' = "SEND" => x.len = FirstLen(s, x.msg)',
         \A x \in OnTheWay(s, r) :
           VerbOf(s, x.msg) = "SEND" => FirstLen(s, x.msg)' = FirstLen(s, x.msg),
         rpc[r] = "info" => FirstLen(s, rx[r].buf)' = FirstLen(s, rx[r].buf)
  PROVE  FirstPieces(s, r)'
  <1>1. ASSUME NEW x \in OnTheWay(s, r), VerbOf(s, x.msg)' = "SEND"
        PROVE  x.len = FirstLen(s, x.msg)'
    <2>1. VerbOf(s, x.msg) = "SEND"
      BY <1>1, MessagesPosted DEF SameMessages
    <2> QED
      BY <2>1 DEF FirstPieces
  <1>2. rpc'[r] = "info" => rx'[r].total = FirstLen(s, rx[r].buf)'
    BY DEF FirstPieces, SameReceiver
  <1> QED
    BY <1>1, <1>2 DEF FirstPieces, SameReceiver

LEMMA BatchStays ==
  ASSUME NEW s, NEW r, Running(s, r), OneBatch(s, r), SameReceiver(r), SameMessages(s)
  PROVE  OneBatch(s, r)'
  <1>1. PICK b : b = rx[r].buf /\ b = rx'[r].buf
    BY DEF SameReceiver
  <1>2. rpc[r] # "idle" => VerbOf(s, b)' = VerbOf(s, b)
    BY <1>1, MessagesPosted DEF SameMessages
  <1> QED
    BY <1>1, <1>2 DEF OneBatch, SameReceiver, VerbOf

LEMMA HandedStay ==
  ASSUME NEW s, NEW r, Running(s, r), HandedWhole(s, r), delivered'[r] = delivered[r],
         SameMessages(s)
  PROVE  HandedWhole(s, r)'
  <1>1. ASSUME NEW i \in DOMAIN delivered[r]
        PROVE  /\ VerbOf(s, delivered[r][i].msg)' = VerbOf(s, delivered[r][i].msg)
               /\ LengthOf(s, delivered[r][i].msg)' = LengthOf(s, delivered[r][i].msg)
    BY MessagesPosted DEF SameMessages
  <1> QED
    BY <1>1 DEF HandedWhole, VerbOf, LengthOf

LEMMA AddingStays ==
  ASSUME NEW s, NEW r, Running(s, r), Adding(s, r), SameReceiver(r), SameMessages(s),
         recvCq'[r] = recvCq[r],
         rpc[r] \in {"ack", "chunks"} /\ Mine(s, r)' =>
           /\ Mine(s, r) /\ job'[s] = job[s]
           /\ \A x \in Range(splitWire[s])' : x \in Range(splitWire[s])
  PROVE  Adding(s, r)'
  <1>1. SUFFICES ASSUME rpc[r] \in {"ack", "chunks"} PROVE Adding(s, r)'
    BY DEF Adding, SameReceiver
  <1>2. PICK c \in Chunks, l \in Int : SizesAre(s, r, c, l)
    BY <1>1 DEF Adding
  <1>3. LengthOf(s, rx[r].buf)' = LengthOf(s, rx[r].buf)
    <2>1. PICK b : b = rx[r].buf /\ b = rx'[r].buf
      BY DEF SameReceiver
    <2>2. LengthOf(s, b)' = LengthOf(s, b)
      BY <1>1, <2>1, MessagesPosted DEF SameMessages
    <2> QED
      BY <2>1, <2>2
  <1>4. /\ rx[r].total + c * (rx[r].left - 1) + l = LengthOf(s, rx[r].buf)
        /\ \A i \in 1..Len(recvCq[r]) :
             /\ i < rx[r].left => recvCq[r][i] = c
             /\ i = rx[r].left => recvCq[r][i] = l
        /\ Mine(s, r) =>
             /\ c = job[s].chunk /\ job[s].off + job[s].chunk * job[s].left + l = job[s].len
             /\ \A x \in Range(splitWire[s]) : x.len = (IF job[s].left = 0 THEN l ELSE c)
    BY <1>2, Zenon DEF SizesAre
  <1>5. SizesAre(s, r, c, l)'
    <2>1. rx'[r] = rx[r]
      BY DEF SameReceiver
    <2>2. (rx[r].total + c * (rx[r].left - 1) + l = LengthOf(s, rx[r].buf))'
      BY <1>3, <1>4, <2>1
    <2>3. \A i \in 1..Len(recvCq'[r]) :
             /\ i < rx'[r].left => recvCq'[r][i] = c
             /\ i = rx'[r].left => recvCq'[r][i] = l
      BY <1>4, <2>1
    <2>4. Mine(s, r)' =>
             /\ c = job'[s].chunk /\ job'[s].off + job'[s].chunk * job'[s].left + l = job'[s].len
             /\ \A x \in Range(splitWire[s])' : x.len = (IF job'[s].left = 0 THEN l ELSE c)
      BY <1>1, <1>4
    <2> QED
      BY <2>2, <2>3, <2>4 DEF SizesAre
  <1> QED
    BY <1>5 DEF Adding

LEMMA SameWhenPosted ==
  ASSUME NEW s, posted'[s] = posted[s]
  PROVE  SameMessages(s)
  BY DEF SameMessages, VerbOf, LengthOf

(* A new message.                                                           *)
LEMMA NewMessage ==
  ASSUME NEW s, NEW r, Running(s, r), NEW verb, NEW len, NEW n \in Nat, n = Len(posted[s]),
         Accept(s, verb, len)
  PROVE  /\ SameMessages(s) /\ VerbOf(s, n + 1)' = verb /\ LengthOf(s, n + 1)' = len
         /\ spc[s] = "idle" /\ delivered'[r] = delivered[r]
  <1> DEFINE item == [verb |-> verb, len |-> len]
  <1>1. TypeOK /\ s \in Sides
    BY SenderFields
  <1>2. PICK q \in Seq([verb : Verbs, len : Lengths]) : q = posted[s]
    BY <1>1 DEF TypeOK
  <1>3. posted'[s] = Append(q, item)
    BY <1>1, <1>2 DEF Accept, TypeOK
  <1>4. /\ Append(q, item)[n + 1] = item
        /\ \A m \in 1..n : Append(q, item)[m] = q[m]
    BY <1>2
  <1>5. posted'[s][n + 1] = item /\ \A m \in 1..n : posted'[s][m] = posted[s][m]
    BY <1>2, <1>3, <1>4, Zenon
  <1>6. spc[s] = "idle" /\ delivered'[r] = delivered[r]
    BY DEF Accept
  <1> QED
    BY <1>5, <1>6 DEF SameMessages, VerbOf, LengthOf

LEMMA ToldNew ==
  ASSUME NEW s, NEW r, Running(s, r), Told(s, r), NEW verb, NEW len, Accept(s, verb, len),
         NEW n \in Nat, n = Len(posted[s]), SameReceiver(r), recvCq'[r] = recvCq[r],
         userCq'[r] = userCq[r],
         \/ userWire'[s] = userWire[s]
         \/ \E x : /\ userWire'[s] = Append(userWire[s], x) /\ x.msg = n + 1
                   /\ verb = "SEND" => x.len = FirstLen(s, n + 1)',
         spc'[s] # "idle" => job'[s].msg = n + 1
  PROVE  Told(s, r)'
  <1>1. /\ FirstPieces(s, r) /\ OneBatch(s, r) /\ Adding(s, r) /\ HandedWhole(s, r)
        /\ s \in Sides /\ userWire \in [Sides -> Seq(UserItems)]
    BY SenderFields DEF Told
  <1>2. /\ SameMessages(s) /\ VerbOf(s, n + 1)' = verb
        /\ spc[s] = "idle" /\ delivered'[r] = delivered[r]
    BY NewMessage
  <1>3. \A m \in 1..n : m # n + 1
    OBVIOUS
  <1>4. \A m \in 1..n : FirstLen(s, m)' = FirstLen(s, m)
    BY <1>2, <1>3 DEF FirstLen, HasChunks, SameMessages
  <1>5. \A x \in OnTheWay(s, r)' :
           \/ x \in OnTheWay(s, r)
           \/ VerbOf(s, x.msg)' = "SEND" => x.len = FirstLen(s, x.msg)'
    <2>1. CASE userWire'[s] = userWire[s]
      BY <2>1 DEF OnTheWay
    <2>2. ASSUME NEW x, userWire'[s] = Append(userWire[s], x), x.msg = n + 1,
                 verb = "SEND" => x.len = FirstLen(s, n + 1)'
          PROVE  \A y \in OnTheWay(s, r)' :
                   \/ y \in OnTheWay(s, r)
                   \/ VerbOf(s, y.msg)' = "SEND" => y.len = FirstLen(s, y.msg)'
      <3>1. \A y : y \in Range(userWire[s])' <=> y \in Range(userWire[s]) \/ y = x
        BY <1>1, <2>2, RangeGrows
      <3> QED
        BY <1>2, <2>2, <3>1 DEF OnTheWay
    <2> QED
      BY <2>1, <2>2
  <1>6. /\ \A x \in OnTheWay(s, r) : x.msg \in 1..n
        /\ rpc[r] # "idle" => rx[r].buf \in 1..n
    BY MessagesPosted
  <1>7. FirstPieces(s, r)'
    <2>1. rpc[r] = "info" => FirstLen(s, rx[r].buf)' = FirstLen(s, rx[r].buf)
      <3>1. PICK b : b = rx[r].buf /\ b = rx'[r].buf
        BY DEF SameReceiver
      <3> QED
        BY <1>4, <1>6, <3>1 DEF FirstLen, HasChunks
    <2>2. \A x \in OnTheWay(s, r) : FirstLen(s, x.msg)' = FirstLen(s, x.msg)
      BY <1>4, <1>6
    <2> QED
      BY <1>1, <1>2, <1>5, <2>1, <2>2, FirstStay
  <1>8. rpc[r] \in {"ack", "chunks"} => ~Mine(s, r)'
    <2>1. rpc[r] \in {"ack", "chunks"} => rx[r].buf # n + 1
      BY <1>3, <1>6
    <2> QED
      BY <2>1 DEF Mine, SameReceiver
  <1>9. Adding(s, r)'
    BY <1>1, <1>2, <1>8, AddingStays
  <1> QED
    BY <1>1, <1>2, <1>7, <1>9, BatchStays, HandedStay DEF Told

LEMMA ToldPost ==
  ASSUME NEW s, NEW r, Running(s, r), Told(s, r), Post(s)
  PROVE  Told(s, r)'
  <1>1. /\ TypeOK /\ s \in Sides /\ SpcOK /\ job \in [Sides -> Jobs]
        /\ userWire \in [Sides -> Seq(UserItems)] /\ Len(posted[s]) \in Nat
    BY SenderFields
  <1>2. PICK n \in Nat : n = Len(posted[s])
    BY <1>1
  <1>3. SUFFICES ASSUME NEW len \in Lengths, NEW chunk \in Chunks,
                   \/ \E verb \in Verbs : PostWhole(s, verb, len, chunk)
                   \/ PostSplit(s, len, chunk)
                   \/ StartWimm(s, len, chunk) \/ StartPut(s, len, chunk)
                 PROVE  Told(s, r)'
    BY DEF Post
  <1>4. len \in Nat \ {0} /\ chunk \in Nat \ {0}
    BY SizesAssumption
  <1>5. SameReceiver(r) /\ recvCq'[r] = recvCq[r] /\ userCq'[r] = userCq[r]
    BY <1>3 DEF PostWhole, PostSplit, StartWimm, StartPut, SameReceiver, recvVars
  <1>6. ASSUME NEW verb \in Verbs, PostWhole(s, verb, len, chunk) PROVE Told(s, r)'
    <2>1. Accept(s, verb, len) /\ spc'[s] = "idle"
      BY <1>6 DEF PostWhole, Accept, sendVars
    <2>2. PICK x : x = [verb |-> verb, msg |-> n + 1, off |-> 0, len |-> len]
      OBVIOUS
    <2>3. userWire'[s] = Append(userWire[s], x)
      BY <1>1, <1>2, <1>6, <2>2 DEF PostWhole, PostOnUserQP
    <2>4. x.msg = n + 1 /\ x.len = FirstLen(s, n + 1)'
      BY <1>2, <2>1, <2>2, NewMessage DEF FirstLen, HasChunks
    <2> QED
      BY <1>2, <1>5, <2>1, <2>3, <2>4, ToldNew
  <1>7. CASE PostSplit(s, len, chunk)
    <2>1. Accept(s, "SEND", len)
      BY <1>7 DEF PostSplit
    <2>2. PICK m \in Nat \ {0} : m = NumChunks(len, chunk)
      BY <1>4, NumChunksBounds
    <2>3. chunk * (m - 1) < len /\ (len > chunk => m > 1)
      BY <1>4, <2>2, NumChunksBounds
    <2>4. len <= chunk => m = 1
      <3>1. m > 1 => chunk * (m - 1) >= chunk
        BY <1>4
      <3>2. chunk * (m - 1) \in Int
        BY <1>4
      <3> QED
        BY <1>4, <2>3, <3>1, <3>2
    <2>5. /\ spc'[s] = "info" /\ job'[s].msg = n + 1 /\ job'[s].chunk = chunk
          /\ job'[s].left = m - 1
      BY <1>1, <1>2, <1>7, <2>2 DEF PostSplit, SpcOK, ChunksBehind
    <2>6. PICK first : first = Min({len, chunk}) /\ first = IF len <= chunk THEN len ELSE chunk
      BY <1>4, FirstOfTwo
    <2>7. PICK x : x = [verb |-> "SEND", msg |-> n + 1, off |-> 0, len |-> first]
      OBVIOUS
    <2>8. userWire'[s] = Append(userWire[s], x)
      BY <1>1, <1>2, <1>7, <2>6, <2>7 DEF PostSplit, PostOnUserQP
    <2>9. x.msg = n + 1 /\ x.len = FirstLen(s, n + 1)'
      <3>1. LengthOf(s, n + 1)' = len
        BY <1>2, <2>1, NewMessage
      <3>2. HasChunks(s, n + 1)' <=> m - 1 > 0
        BY <2>5 DEF HasChunks
      <3>3. m - 1 > 0 <=> len > chunk
        BY <1>4, <2>3, <2>4
      <3> QED
        BY <1>4, <2>5, <2>6, <2>7, <3>1, <3>2, <3>3 DEF FirstLen
    <2> QED
      BY <1>2, <1>5, <2>1, <2>5, <2>8, <2>9, ToldNew
  <1>8. CASE StartWimm(s, len, chunk) \/ StartPut(s, len, chunk)
    <2>1. PICK verb \in Verbs : Accept(s, verb, len)
      BY <1>8 DEF StartWimm, StartPut, Verbs
    <2>2. userWire'[s] = userWire[s] /\ job'[s].msg = n + 1
      BY <1>1, <1>2, <1>8 DEF StartWimm, StartPut
    <2> QED
      BY <1>2, <1>5, <2>1, <2>2, ToldNew
  <1> QED
    BY <1>3, <1>6, <1>7, <1>8

(* Nothing changes of the message being split but where its sender is.      *)
LEMMA ToldMoves ==
  ASSUME NEW s, NEW r, Running(s, r), Told(s, r), SameApp(s, r), SameUser(s, r),
         SameReceiver(r), recvCq'[r] = recvCq[r],
         spc'[s] # "idle" => job'[s] = job[s],
         \A x \in Range(splitWire[s])' : x \in Range(splitWire[s]),
         spc'[s] # "idle" => spc[s] # "idle",
         \A x \in OnTheWay(s, r) :
           VerbOf(s, x.msg) = "SEND" => (HasChunks(s, x.msg)' <=> HasChunks(s, x.msg)),
         rpc[r] = "info" => (HasChunks(s, rx[r].buf)' <=> HasChunks(s, rx[r].buf))
  PROVE  Told(s, r)'
  <1>1. FirstPieces(s, r) /\ OneBatch(s, r) /\ Adding(s, r) /\ HandedWhole(s, r)
    BY DEF Told
  <1>2. SameMessages(s) /\ \A m : LengthOf(s, m)' = LengthOf(s, m)
    BY SameWhenPosted DEF SameApp, LengthOf
  <1>3. OnTheWay(s, r)' = OnTheWay(s, r)
    BY DEF OnTheWay, SameUser
  <1>4. ASSUME NEW m, HasChunks(s, m)' <=> HasChunks(s, m)
        PROVE  FirstLen(s, m)' = FirstLen(s, m)
    BY <1>2, <1>4 DEF FirstLen, HasChunks
  <1>5. \A x \in OnTheWay(s, r) :
           VerbOf(s, x.msg) = "SEND" => FirstLen(s, x.msg)' = FirstLen(s, x.msg)
    BY <1>4
  <1>6. rpc[r] = "info" => FirstLen(s, rx[r].buf)' = FirstLen(s, rx[r].buf)
    <2>1. PICK b : b = rx[r].buf /\ b = rx'[r].buf
      BY DEF SameReceiver
    <2>2. rpc[r] = "info" => (HasChunks(s, b)' <=> HasChunks(s, b))
      BY <2>1 DEF HasChunks
    <2>3. rpc[r] = "info" => FirstLen(s, b)' = FirstLen(s, b)
      BY <1>4, <2>2
    <2> QED
      BY <1>2, <2>1, <2>3 DEF FirstLen, HasChunks
  <1>7. FirstPieces(s, r)'
    BY <1>1, <1>2, <1>3, <1>5, <1>6, FirstStay
  <1>8. Adding(s, r)'
    <2>1. Mine(s, r)' => Mine(s, r) /\ job'[s] = job[s]
      BY DEF Mine, SameReceiver
    <2> QED
      BY <1>1, <1>2, <2>1, AddingStays
  <1> QED
    BY <1>1, <1>2, <1>7, <1>8, BatchStays, HandedStay DEF Told, SameApp

(* An ACK is there for a message only when its first chunk has been taken.  *)
LEMMA FirstTaken ==
  ASSUME LargeChunks, NEW s, NEW r, Running(s, r), Told(s, r), spc[s] = "ack", cq2[s] > 0
  PROVE  /\ \A x \in OnTheWay(s, r) : VerbOf(s, x.msg) = "SEND" => ~HasChunks(s, x.msg)
         /\ rpc[r] # "info"
  <1>1. /\ TypeOK /\ s \in Sides /\ r \in Sides /\ FirstPieces(s, r) /\ JobInv(s)
    BY SenderFields DEF Told
  <1>2. Acks(s, r) /\ Order(s, r)
    BY DEF Running
  <1>3. cq2[s] \in Nat /\ ackWire[r] \in Nat
    BY <1>1 DEF TypeOK
  <1>4. ackWire[r] + cq2[s] = (IF Awaiting(s) /\ Announced(s, r) = {} THEN 1 ELSE 0)
    BY <1>2 DEF Acks
  <1>5. Announced(s, r) = {}
    BY <1>3, <1>4
  <1>6. rpc[r] # "info" /\ \A x \in OnTheWay(s, r) : ~Large(x)
    BY <1>5 DEF Announced
  <1>7. ASSUME NEW x \in OnTheWay(s, r), VerbOf(s, x.msg) = "SEND", HasChunks(s, x.msg)
        PROVE  FALSE
    <2>1. x.len = job[s].chunk
      BY <1>1, <1>7 DEF FirstPieces, FirstLen
    <2>2. job[s].chunk >= MinSplit
      BY <1>1 DEF JobInv, LargeChunks
    <2>3. x.verb = "SEND"
      BY <1>2, <1>7 DEF Order, QueuesInOrder, OnTheWay
    <2> QED
      BY <1>6, <2>1, <2>2, <2>3 DEF Large, TwoSided
  <1> QED
    BY <1>6, <1>7

LEMMA ToldPolled ==
  ASSUME LargeChunks, NEW s, NEW r, Running(s, r), Told(s, r),
         PollInfoSent(s) \/ PollAck(s) \/ PollChunkSent(s)
  PROVE  Told(s, r)'
  <1>1. /\ s \in Sides /\ r \in Sides /\ SpcOK /\ job \in [Sides -> Jobs]
        /\ Len(posted[s]) \in Nat
    BY SenderFields
  <1>2. UNCHANGED <<appVars, recvVars, userWire, userCq, splitWire, recvCq>>
    BY DEF PollInfoSent, PollAck, PollChunkSent
  <1>3. /\ SameApp(s, r) /\ SameUser(s, r) /\ SameReceiver(r) /\ recvCq'[r] = recvCq[r]
        /\ splitWire'[s] = splitWire[s]
    BY <1>2 DEF SameApp, SameUser, SameReceiver, appVars, recvVars
  <1>4. /\ spc[s] \in {"info", "ack", "sent"}
        /\ \/ spc'[s] \in {"ack", "chunk"} /\ job' = job
           \/ spc'[s] = "idle" /\ job[s].left = 0
    BY <1>1 DEF PollInfoSent, PollAck, PollChunkSent, Return, SpcOK
  <1>5. CASE PollAck(s)
    <2>1. spc[s] = "ack" /\ cq2[s] > 0 /\ spc'[s] = "chunk"
      BY <1>1, <1>5 DEF PollAck, SpcOK
    <2>2. \A m : ~HasChunks(s, m)'
      BY <2>1 DEF HasChunks
    <2>3. \A x \in OnTheWay(s, r) :
            VerbOf(s, x.msg) = "SEND" => (HasChunks(s, x.msg)' <=> HasChunks(s, x.msg))
      BY <2>1, <2>2, FirstTaken
    <2>4. rpc[r] # "info"
      BY <2>1, FirstTaken
    <2> QED
      BY <1>3, <1>4, <2>3, <2>4, ToldMoves
  <1>6. CASE PollInfoSent(s) \/ PollChunkSent(s)
    <2>1. \A m : HasChunks(s, m)' <=> HasChunks(s, m)
      <3>1. CASE PollInfoSent(s) /\ job[s].left = 0
        BY <1>1, <3>1 DEF PollInfoSent, Return, SpcOK, HasChunks
      <3>2. CASE PollInfoSent(s) /\ job[s].left # 0
        BY <1>1, <3>2 DEF PollInfoSent, SpcOK, HasChunks
      <3>3. CASE PollChunkSent(s)
        BY <1>1, <3>3 DEF PollChunkSent, Return, SpcOK, HasChunks
      <3> QED
        BY <1>6, <3>1, <3>2, <3>3
    <2>2. PICK b : b = rx[r].buf /\ b = rx'[r].buf
      BY <1>3 DEF SameReceiver
    <2>3. HasChunks(s, rx[r].buf)' <=> HasChunks(s, rx[r].buf)
      BY <2>1, <2>2 DEF HasChunks
    <2> QED
      BY <1>3, <1>4, <2>1, <2>3, ToldMoves
  <1> QED
    BY <1>5, <1>6

(* The next chunk is as long as the receiver expects it.                    *)
LEMMA ToldChunk ==
  ASSUME NEW s, NEW r, Running(s, r), Told(s, r), Bytes(s, r), PostChunk(s)
  PROVE  Told(s, r)'
  <1>1. /\ s \in Sides /\ r \in Sides /\ SpcOK /\ job \in [Sides -> Jobs]
        /\ splitWire \in [Sides -> Seq(Items)] /\ JobInv(s) /\ OnSplitWire(s)
        /\ FirstPieces(s, r) /\ OneBatch(s, r) /\ Adding(s, r) /\ HandedWhole(s, r)
        /\ Phase(s, r)
    BY SenderFields DEF Told, Running
  <1>2. spc[s] = "chunk" /\ UNCHANGED <<appVars, recvVars, userWire, userCq, recvCq>>
    BY DEF PostChunk
  <1>3. /\ SameApp(s, r) /\ SameUser(s, r) /\ SameReceiver(r) /\ recvCq'[r] = recvCq[r]
        /\ rpc' = rpc /\ rx' = rx /\ posted' = posted
    BY <1>2 DEF SameApp, SameUser, SameReceiver, appVars, recvVars
  <1>4. PICK j \in Jobs : j = job[s]
    BY <1>1
  <1>5. /\ j.msg \in Nat /\ j.len \in Nat /\ j.chunk \in Nat \ {0} /\ j.left \in Nat \ {0}
        /\ j.off \in Nat
    BY <1>1, <1>2, <1>4, SizesAssumption DEF JobInv, Jobs
  <1>6. PICK off \in Nat : off = j.off + j.chunk
    BY <1>5
  <1>7. PICK x : x = [kind |-> "chunk", msg |-> j.msg, off |-> off,
                      len |-> IF j.left = 1 THEN j.len - off ELSE j.chunk]
    OBVIOUS
  <1>8. splitWire[s] = <<>>
    BY <1>1, <1>2 DEF OnSplitWire
  <1>9. splitWire'[s] = Append(splitWire[s], x)
    BY <1>1, <1>4, <1>6, <1>7 DEF PostChunk, PostOnSplitQP
  <1>10. \A y : y \in Range(splitWire[s])' <=> y = x
    <2>1. \A y : y \in Range(splitWire[s])' <=> y \in Range(splitWire[s]) \/ y = x
      BY <1>1, <1>9, RangeGrows
    <2> QED
      BY <1>8, <2>1, NothingQueued
  <1>11. spc'[s] = "sent" /\ job'[s] = [j EXCEPT !.off = off, !.left = j.left - 1]
    BY <1>1, <1>4, <1>6 DEF PostChunk, SpcOK
  <1>12. /\ job'[s].msg = j.msg /\ job'[s].len = j.len /\ job'[s].chunk = j.chunk
         /\ job'[s].off = off /\ job'[s].left = j.left - 1
    BY <1>11 DEF Jobs
  <1>13. Exchange(s, r)
    <2>1. Chunking(s) /\ ~Elsewhere(s) /\ ~InFlight(s) /\ ~ImmLanded(s) /\ ~Awaiting(s)
      BY <1>2 DEF InFlight, Chunking, Awaiting, Elsewhere, ImmLanded
    <2> QED
      BY <1>1, <2>1 DEF Phase, Open, Used
  <1>14. rpc[r] \in {"ack", "chunks"} /\ Mine(s, r)
    BY <1>2, <1>13 DEF Exchange, Mine
  <1>15. PICK c \in Chunks, l \in Int : SizesAre(s, r, c, l)
    BY <1>1, <1>14 DEF Adding
  <1>16. c = j.chunk /\ j.off + j.chunk * j.left + l = j.len
    BY <1>4, <1>14, <1>15 DEF SizesAre
  <1>17. off + j.chunk * (j.left - 1) + l = j.len
    <2>1. PICK p \in Int : p = j.chunk * j.left
      BY <1>5
    <2>2. j.chunk * (j.left - 1) = p - j.chunk
      BY <1>5, <2>1, Distribute
    <2> QED
      BY <1>5, <1>6, <1>16, <2>1, <2>2
  <1>18. x.len = IF j.left - 1 = 0 THEN l ELSE c
    <2>1. CASE j.left = 1
      <3>1. j.chunk * (j.left - 1) = 0
        BY <1>5, <2>1
      <3> QED
        BY <1>5, <1>7, <1>17, <2>1, <3>1
    <2>2. CASE j.left # 1
      <3>1. j.left - 1 # 0
        BY <1>5, <2>2
      <3> QED
        BY <1>7, <1>16, <2>2, <3>1
    <2> QED
      BY <2>1, <2>2
  <1>19. Adding(s, r)'
    <2>1. /\ rx[r].total + c * (rx[r].left - 1) + l = LengthOf(s, rx[r].buf)
          /\ \A i \in 1..Len(recvCq[r]) :
               /\ i < rx[r].left => recvCq[r][i] = c
               /\ i = rx[r].left => recvCq[r][i] = l
      BY <1>15, Zenon DEF SizesAre
    <2>2. LengthOf(s, rx[r].buf)' = LengthOf(s, rx[r].buf)
      BY <1>3 DEF LengthOf
    <2>3. (rx[r].total + c * (rx[r].left - 1) + l = LengthOf(s, rx[r].buf))'
      BY <1>3, <2>1, <2>2
    <2>4. \A i \in 1..Len(recvCq'[r]) :
             /\ i < rx'[r].left => recvCq'[r][i] = c
             /\ i = rx'[r].left => recvCq'[r][i] = l
      BY <1>3, <2>1
    <2>5. c = job'[s].chunk /\ job'[s].off + job'[s].chunk * job'[s].left + l = job'[s].len
      BY <1>12, <1>16, <1>17
    <2>6. \A y \in Range(splitWire[s])' : y.len = (IF job'[s].left = 0 THEN l ELSE c)
      BY <1>10, <1>12, <1>18
    <2>7. SizesAre(s, r, c, l)'
      BY <2>3, <2>4, <2>5, <2>6 DEF SizesAre
    <2> QED
      BY <2>7 DEF Adding
  <1>20. SameMessages(s)
    BY <1>3, SameWhenPosted
  <1>21. FirstPieces(s, r)'
    <2>1. \A m : FirstLen(s, m)' = FirstLen(s, m)
      BY <1>2, <1>3, <1>11 DEF FirstLen, HasChunks, LengthOf
    <2>2. FirstLen(s, rx[r].buf)' = FirstLen(s, rx[r].buf)
      BY <1>2, <1>3, <1>11 DEF FirstLen, HasChunks, LengthOf
    <2>3. OnTheWay(s, r)' = OnTheWay(s, r)
      BY <1>3 DEF OnTheWay, SameUser
    <2> QED
      BY <1>1, <1>3, <1>20, <2>1, <2>2, <2>3, FirstStay
  <1> QED
    BY <1>1, <1>3, <1>19, <1>20, <1>21, BatchStays, HandedStay DEF Told, SameApp

(* Nobody adds up what is written.                                          *)
LEMMA ToldWriting ==
  ASSUME NEW s, NEW r, Running(s, r), Told(s, r), Writing(s), SameApp(s, r),
         userCq'[r] = userCq[r], SameReceiver(r), recvCq'[r] = recvCq[r],
         spc'[s] # "idle" => Writing(s)' /\ job'[s].msg = job[s].msg,
         \/ userWire'[s] = userWire[s]
         \/ \E x : userWire'[s] = Append(userWire[s], x) /\ VerbOf(s, x.msg) # "SEND"
  PROVE  Told(s, r)'
  <1>1. /\ s \in Sides /\ r \in Sides /\ JobLatest(s) /\ Len(posted[s]) \in Nat
        /\ FirstPieces(s, r) /\ OneBatch(s, r) /\ Adding(s, r) /\ HandedWhole(s, r)
        /\ userWire \in [Sides -> Seq(UserItems)] /\ Order(s, r)
    BY SenderFields DEF Told, Running
  <1>2. /\ SameMessages(s) /\ posted'[s] = posted[s] /\ \A m : VerbOf(s, m)' = VerbOf(s, m)
    BY SameWhenPosted DEF SameApp, VerbOf
  <1>3. \A m : ~HasChunks(s, m) /\ ~HasChunks(s, m)'
    BY DEF HasChunks, Writing
  <1>4. \A m : FirstLen(s, m)' = FirstLen(s, m)
    BY <1>2, <1>3 DEF FirstLen, LengthOf
  <1>5. \A x \in OnTheWay(s, r)' :
           \/ x \in OnTheWay(s, r)
           \/ VerbOf(s, x.msg)' = "SEND" => x.len = FirstLen(s, x.msg)'
    <2>1. CASE userWire'[s] = userWire[s]
      BY <2>1 DEF OnTheWay
    <2>2. ASSUME NEW x, userWire'[s] = Append(userWire[s], x), VerbOf(s, x.msg) # "SEND"
          PROVE  \A y \in OnTheWay(s, r)' :
                   \/ y \in OnTheWay(s, r)
                   \/ VerbOf(s, y.msg)' = "SEND" => y.len = FirstLen(s, y.msg)'
      <3>1. \A y : y \in Range(userWire[s])' <=> y \in Range(userWire[s]) \/ y = x
        BY <1>1, <2>2, RangeGrows
      <3> QED
        BY <1>2, <2>2, <3>1 DEF OnTheWay
    <2> QED
      BY <2>1, <2>2
  <1>6. FirstPieces(s, r)'
    <2>1. FirstLen(s, rx[r].buf)' = FirstLen(s, rx[r].buf)
      <3>1. PICK b : b = rx[r].buf /\ b = rx'[r].buf
        BY DEF SameReceiver
      <3> QED
        BY <1>4, <3>1 DEF FirstLen, HasChunks
    <2> QED
      BY <1>1, <1>2, <1>4, <1>5, <2>1, FirstStay
  <1>7. rpc[r] \in {"ack", "chunks"} => ~Mine(s, r)'
    <2>1. rpc[r] # "idle" => rx[r].buf \in 1..Top(s)
      BY <1>1 DEF Order, ReceptionInOrder
    <2>2. PICK n \in Nat : n = Len(posted[s])
      BY <1>1
    <2>3. Top(s) = n - 1 /\ job[s].msg = n
      BY <1>1, <2>2 DEF Top, Writing, JobLatest
    <2>4. \A b \in 1..n - 1 : b # n
      OBVIOUS
    <2>5. rpc[r] # "idle" => rx[r].buf # job[s].msg
      BY <2>1, <2>3, <2>4
    <2> QED
      BY <2>5 DEF Mine, SameReceiver
  <1>8. Adding(s, r)'
    BY <1>1, <1>2, <1>7, AddingStays
  <1> QED
    BY <1>1, <1>2, <1>6, <1>8, BatchStays, HandedStay DEF Told, SameApp

LEMMA ToldWrites ==
  ASSUME NEW s, NEW r, Running(s, r), Told(s, r),
         PostWrite(s) \/ PostPut(s) \/ PollWritten(s) \/ PollPut(s)
  PROVE  Told(s, r)'
  <1>1. /\ s \in Sides /\ r \in Sides /\ SpcOK /\ job \in [Sides -> Jobs] /\ JobLatest(s)
        /\ userWire \in [Sides -> Seq(UserItems)]
    BY SenderFields
  <1>2. UNCHANGED <<appVars, recvVars, userCq, recvCq>>
    BY DEF PostWrite, PostPut, PollWritten, PollPut
  <1>3. /\ SameApp(s, r) /\ userCq'[r] = userCq[r] /\ SameReceiver(r)
        /\ recvCq'[r] = recvCq[r]
    BY <1>2 DEF SameApp, SameReceiver, appVars, recvVars
  <1>4. CASE PostWrite(s) \/ PostPut(s)
    <2>1. Writing(s) /\ Writing(s)' /\ userWire' = userWire
      BY <1>1, <1>4 DEF PostWrite, PostPut, Writing, SpcOK
    <2>2. job'[s].msg = job[s].msg
      BY <1>1, <1>4 DEF PostWrite, PostPut, Jobs
    <2> QED
      BY <1>3, <2>1, <2>2, ToldWriting
  <1>5. ASSUME NEW verb, NEW len, verb # "SEND", VerbOf(s, Len(posted[s])) = verb,
               spc[s] \in {"written", "flush"}, PostLast(s, verb, len)
        PROVE  Told(s, r)'
    <2>1. PICK x : x = [verb |-> verb, msg |-> job[s].msg, off |-> job[s].off, len |-> len]
      OBVIOUS
    <2>2. userWire'[s] = Append(userWire[s], x)
      BY <1>1, <1>5, <2>1 DEF PostLast, PostOnUserQP
    <2>3. VerbOf(s, x.msg) # "SEND"
      BY <1>1, <1>5, <2>1 DEF JobLatest
    <2>4. spc'[s] = "idle" /\ Writing(s)
      BY <1>1, <1>5 DEF PostLast, SpcOK, Writing
    <2> QED
      BY <1>3, <2>2, <2>3, <2>4, ToldWriting
  <1>6. CASE PollPut(s)
    BY <1>1, <1>5, <1>6 DEF PollPut, JobLatest
  <1>7. CASE PollWritten(s) /\ job[s].left = 0
    BY <1>1, <1>5, <1>7 DEF PollWritten, JobLatest
  <1>8. CASE PollWritten(s) /\ job[s].left # 0
    <2>1. Writing(s) /\ Writing(s)' /\ userWire' = userWire /\ job' = job
      BY <1>1, <1>8 DEF PollWritten, Writing, SpcOK
    <2> QED
      BY <1>3, <2>1, ToldWriting
  <1> QED
    BY <1>4, <1>6, <1>7, <1>8

(* What lands on the user's queue pair stays on its way, or is a WRITE.     *)
LEMMA ToldLandUser ==
  ASSUME NEW s, NEW r, Running(s, r), Told(s, r), LandUser(s)
  PROVE  Told(s, r)'
  <1>1. /\ s \in Sides /\ r \in Sides /\ Peer(s) = r /\ userWire \in [Sides -> Seq(UserItems)]
        /\ userCq \in [Sides -> Seq(UserItems)]
        /\ FirstPieces(s, r) /\ OneBatch(s, r) /\ Adding(s, r) /\ HandedWhole(s, r)
    BY SenderFields DEF Told, Ends, TypeOK
  <1>2. UNCHANGED <<posted, delivered, spc, job, rpc, rx, splitWire, recvCq>>
    BY DEF LandUser, sendVars, recvVars
  <1>3. SameReceiver(r) /\ recvCq'[r] = recvCq[r] /\ SameMessages(s)
    BY <1>2, SameWhenPosted DEF SameReceiver
  <1>4. PICK q \in Seq(UserItems) : q = userWire[s] /\ q # <<>>
    BY <1>1 DEF LandUser
  <1>5. PICK x : x = Head(q)
    OBVIOUS
  <1>6. x \in Range(q) /\ \A y : y \in Range(q) <=> y \in Range(Tail(q)) \/ y = x
    BY <1>4, <1>5, RangeShrinks
  <1>7. /\ userWire'[s] = Tail(q)
        /\ userCq'[r] = userCq[r] \/ userCq'[r] = Append(userCq[r], x)
    BY <1>1, <1>4, <1>5 DEF LandUser
  <1>8. \A y \in OnTheWay(s, r)' : y \in OnTheWay(s, r)
    <2>1. \A y : y \in Range(Append(userCq[r], x)) <=> y \in Range(userCq[r]) \/ y = x
      BY <1>1, RangeGrows
    <2> QED
      BY <1>4, <1>6, <1>7, <2>1 DEF OnTheWay
  <1>9. \A m : FirstLen(s, m)' = FirstLen(s, m)
    BY <1>2 DEF FirstLen, HasChunks, LengthOf
  <1>10. FirstLen(s, rx[r].buf)' = FirstLen(s, rx[r].buf)
    BY <1>2 DEF FirstLen, HasChunks, LengthOf
  <1>11. FirstPieces(s, r)'
    BY <1>1, <1>3, <1>8, <1>9, <1>10, FirstStay
  <1>12. Adding(s, r)'
    BY <1>1, <1>2, <1>3, AddingStays DEF Mine
  <1> QED
    BY <1>1, <1>2, <1>3, <1>11, <1>12, BatchStays, HandedStay DEF Told

(* Nothing of it moves.                                                     *)
LEMMA ToldStay ==
  ASSUME NEW s, NEW r, Running(s, r), Told(s, r), SameApp(s, r), SameUser(s, r),
         SameReceiver(r), recvCq'[r] = recvCq[r], spc'[s] = spc[s], job'[s] = job[s],
         \A x \in Range(splitWire[s])' : x \in Range(splitWire[s])
  PROVE  Told(s, r)'
  <1>1. HasChunks(s, rx[r].buf)' <=> HasChunks(s, rx[r].buf)
    BY DEF HasChunks, SameReceiver
  <1>2. \A x : HasChunks(s, x.msg)' <=> HasChunks(s, x.msg)
    BY DEF HasChunks
  <1> QED
    BY <1>1, <1>2, ToldMoves

(* One more completion for the receiver, of the length that is next.        *)
NextIs(s, r, n, len) ==
  \A c \in Chunks, l \in Int : SizesAre(s, r, c, l) =>
    /\ n + 1 < rx[r].left => len = c
    /\ n + 1 = rx[r].left => len = l

LEMMA ToldLands ==
  ASSUME NEW s, NEW r, Running(s, r), Told(s, r), SameApp(s, r), SameUser(s, r),
         SameReceiver(r), spc'[s] = spc[s], job'[s] = job[s], NEW len,
         recvCq'[r] = Append(recvCq[r], len),
         \A x \in Range(splitWire[s])' : x \in Range(splitWire[s]),
         NEW n \in Nat, n = Len(recvCq[r]),
         rpc[r] \in {"ack", "chunks"} => NextIs(s, r, n, len)
  PROVE  Told(s, r)'
  <1>1. /\ s \in Sides /\ r \in Sides /\ TypeOK
        /\ FirstPieces(s, r) /\ OneBatch(s, r) /\ Adding(s, r) /\ HandedWhole(s, r)
    BY SenderFields DEF Told
  <1>2. SameMessages(s) /\ \A m : LengthOf(s, m)' = LengthOf(s, m)
    BY SameWhenPosted DEF SameApp, LengthOf
  <1>3. OnTheWay(s, r)' = OnTheWay(s, r)
    BY DEF OnTheWay, SameUser
  <1>4. \A m : FirstLen(s, m)' = FirstLen(s, m)
    BY <1>2 DEF FirstLen, HasChunks
  <1>5. PICK b : b = rx[r].buf /\ b = rx'[r].buf
    BY DEF SameReceiver
  <1>6. FirstLen(s, rx[r].buf)' = FirstLen(s, rx[r].buf)
    BY <1>4, <1>5 DEF FirstLen, HasChunks
  <1>7. FirstPieces(s, r)'
    BY <1>1, <1>2, <1>3, <1>4, <1>6, FirstStay
  <1>8. Adding(s, r)'
    <2>1. SUFFICES ASSUME rpc[r] \in {"ack", "chunks"} PROVE Adding(s, r)'
      BY DEF Adding, SameReceiver
    <2>2. PICK c \in Chunks, l \in Int : SizesAre(s, r, c, l)
      BY <1>1, <2>1 DEF Adding
    <2>3. /\ rx[r].total + c * (rx[r].left - 1) + l = LengthOf(s, rx[r].buf)
          /\ \A i \in 1..Len(recvCq[r]) :
               /\ i < rx[r].left => recvCq[r][i] = c
               /\ i = rx[r].left => recvCq[r][i] = l
          /\ Mine(s, r) =>
               /\ c = job[s].chunk /\ job[s].off + job[s].chunk * job[s].left + l = job[s].len
               /\ \A x \in Range(splitWire[s]) : x.len = (IF job[s].left = 0 THEN l ELSE c)
      BY <2>2, Zenon DEF SizesAre
    <2>4. rx'[r] = rx[r]
      BY DEF SameReceiver
    <2>5. LengthOf(s, rx[r].buf)' = LengthOf(s, rx[r].buf)
      BY <1>2, <1>5 DEF LengthOf
    <2>6. (rx[r].total + c * (rx[r].left - 1) + l = LengthOf(s, rx[r].buf))'
      BY <2>3, <2>4, <2>5
    <2>7. \A i \in 1..Len(recvCq'[r]) :
             /\ i < rx'[r].left => recvCq'[r][i] = c
             /\ i = rx'[r].left => recvCq'[r][i] = l
      <3>1. PICK q \in Seq(Nat) : q = recvCq[r]
        BY <1>1 DEF TypeOK
      <3>2. /\ Len(q) = n /\ Len(Append(q, len)) = n + 1
            /\ \A i \in 1..n : Append(q, len)[i] = q[i]
            /\ Append(q, len)[n + 1] = len
        BY <3>1
      <3>3. PICK a : a = Append(q, len)
        OBVIOUS
      <3>4. recvCq'[r] = a /\ Len(a) = n + 1
        BY <3>1, <3>2, <3>3
      <3>5. \A i \in 1..n : a[i] = q[i]
        BY <3>2, <3>3
      <3>6. a[n + 1] = len
        BY <3>2, <3>3
      <3>7. \A i \in 1..n : /\ i < rx[r].left => a[i] = c
                            /\ i = rx[r].left => a[i] = l
        BY <2>3, <3>1, <3>2, <3>5
      <3>8. /\ n + 1 < rx[r].left => a[n + 1] = c
            /\ n + 1 = rx[r].left => a[n + 1] = l
        BY <2>1, <2>2, <3>6 DEF NextIs
      <3>9. \A i \in 1..n + 1 : i \in 1..n \/ i = n + 1
        OBVIOUS
      <3>10. \A i \in 1..n + 1 : /\ i < rx[r].left => a[i] = c
                                 /\ i = rx[r].left => a[i] = l
        BY <3>7, <3>8, <3>9
      <3> QED
        BY <2>4, <3>4, <3>10
    <2>8. Mine(s, r)' => Mine(s, r)
      BY <1>5 DEF Mine
    <2>9. SizesAre(s, r, c, l)'
      BY <2>3, <2>6, <2>7, <2>8 DEF SizesAre
    <2> QED
      BY <2>9 DEF Adding
  <1> QED
    BY <1>1, <1>2, <1>7, <1>8, BatchStays, HandedStay DEF Told, SameApp

(* What lands on split_qp[0] while no chunks are on their way adds nothing. *)
LEMMA NothingAdded ==
  ASSUME NEW s, NEW r, Running(s, r), ~Exchange(s, r), splitRR[r] # <<>>,
         rpc[r] \in {"ack", "chunks"}, NEW n \in Nat, n = Len(recvCq[r])
  PROVE  ~(n + 1 < rx[r].left) /\ n + 1 # rx[r].left
  <1>1. Open(s, r)
    BY DEF Running, Phase, Used
  <1>2. n = rx[r].left
    BY <1>1 DEF Open, Expected
  <1> QED
    BY <1>2

LEMMA ToldLandSplit ==
  ASSUME NEW s, NEW r, Running(s, r), Told(s, r), LandOnSplit(s)
  PROVE  Told(s, r)'
  <1>1. /\ s \in Sides /\ r \in Sides /\ Peer(s) = r /\ splitWire \in [Sides -> Seq(Items)]
        /\ TypeOK /\ Ends(s, r) /\ Phase(s, r)
    BY SenderFields DEF Ends, Running
  <1>2. /\ splitWire[s] # <<>> /\ splitWire'[s] = Tail(splitWire[s])
        /\ UNCHANGED <<appVars, sendVars, recvVars, userWire, userCq>>
    BY <1>1 DEF LandOnSplit, LandSplitSend, LandSplitWrite, LandSplit
  <1>3. PICK q \in Seq(Items) : q = splitWire[s] /\ q # <<>>
    BY <1>1, <1>2
  <1>4. PICK x \in Items : x = Head(q)
    BY <1>3, RangeShrinks
  <1>5. x \in Range(q) /\ \A y : y \in Range(q) <=> y \in Range(Tail(q)) \/ y = x
    BY <1>3, <1>4, RangeShrinks
  <1>6. /\ SameApp(s, r) /\ SameUser(s, r) /\ SameReceiver(r)
        /\ spc'[s] = spc[s] /\ job'[s] = job[s]
    BY <1>2 DEF SameApp, SameUser, SameReceiver, appVars, sendVars, recvVars
  <1>7. \A y \in Range(splitWire[s])' : y \in Range(splitWire[s])
    BY <1>2, <1>3, <1>5
  <1>8. CASE x.kind = "write"
    <2>1. recvCq' = recvCq
      BY <1>3, <1>4, <1>8 DEF LandOnSplit, LandSplitSend, LandSplitWrite
    <2> QED
      BY <1>6, <1>7, <2>1, ToldStay
  <1>9. ASSUME x.kind # "write" PROVE Told(s, r)'
    <2>1. PICK len : UseRequest(s, len) /\ (x.kind = "chunk" => len = x.len)
      BY <1>3, <1>4, <1>9 DEF LandOnSplit, LandSplitSend, LandSplitWrite
    <2>2. splitRR[r] # <<>> /\ recvCq'[r] = Append(recvCq[r], len) /\ Len(recvCq[r]) \in Nat
      BY <1>1, <2>1, RequestUsed
    <2>3. PICK n \in Nat : n = Len(recvCq[r])
      BY <2>2
    <2>4. CASE Exchange(s, r)
      <3>1. x.kind = "chunk" /\ spc[s] = "sent"
        <4>1. spc[s] # "info" /\ spc[s] # "written" /\ spc[s] # "put" /\ spc[s] # "flush"
          BY <1>2, <2>4 DEF Exchange, Chunking, Awaiting
        <4> QED
          BY <1>2, <1>3, <1>4, <4>1, NextToLand DEF IsChunk
      <3>2. PICK left \in Nat : left = rx[r].left
        BY <1>1, RxFields
      <3>3. PICK k \in Nat : k = job[s].left
        BY SenderFields
      <3>4. n + (k + 1) = left
        <4>1. OneSent(s) = 1
          BY <1>2, <3>1 DEF OneSent
        <4>2. ToLand(s) = k + 1
          BY <3>3, <4>1 DEF ToLand
        <4> QED
          BY <2>3, <2>4, <3>2, <4>2 DEF Exchange
      <3>5. (n + 1 < left => k # 0) /\ (n + 1 = left => k = 0)
        BY <3>4
      <3>6. Mine(s, r)
        BY <2>4, <3>1 DEF Exchange, Mine
      <3>7. ASSUME NEW c \in Chunks, NEW l \in Int, SizesAre(s, r, c, l)
            PROVE  /\ n + 1 < rx[r].left => len = c
                   /\ n + 1 = rx[r].left => len = l
        <4>1. \A y \in Range(splitWire[s]) : y.len = (IF job[s].left = 0 THEN l ELSE c)
          BY <3>6, <3>7, Zenon DEF SizesAre
        <4>2. len = IF k = 0 THEN l ELSE c
          BY <1>3, <1>5, <2>1, <3>1, <3>3, <4>1
        <4> QED
          BY <3>2, <3>5, <4>2
      <3>8. NextIs(s, r, n, len)
        BY <3>7 DEF NextIs
      <3> QED
        BY <1>6, <1>7, <2>2, <2>3, <3>8, ToldLands
    <2>5. CASE ~Exchange(s, r)
      <3>1. rpc[r] \in {"ack", "chunks"} => ~(n + 1 < rx[r].left) /\ n + 1 # rx[r].left
        BY <2>2, <2>3, <2>5, NothingAdded
      <3> QED
        BY <1>6, <1>7, <2>2, <2>3, <3>1, ToldLands DEF NextIs
    <2> QED
      BY <2>4, <2>5
  <1> QED
    BY <1>8, <1>9

-----------------------------------------------------------------------------
(* The receiver.                                                            *)

(* One more completion is handed to the application.                        *)
LEMMA HandedOne ==
  ASSUME NEW s, NEW r, TypeOK, r \in Sides, HandedWhole(s, r), posted'[s] = posted[s],
         NEW wc \in Completions, Len(wc) = 1, delivered'[r] = delivered[r] \o wc,
         VerbOf(s, wc[1].msg) = "SEND" => wc[1].len = LengthOf(s, wc[1].msg)
  PROVE  HandedWhole(s, r)'
  <1> DEFINE T == [msg : Nat \ {0}, len : Nat]
             Right(e) == VerbOf(s, e.msg) = "SEND" => e.len = LengthOf(s, e.msg)
  <1>1. delivered[r] \in Completions
    BY DEF TypeOK
  <1>2. PICK p \in Seq(T) : p = delivered[r]
    BY <1>1 DEF Completions
  <1>3. PICK w \in Seq(T) : w = wc
    BY DEF Completions
  <1> HIDE DEF T
  <1>4. PICK n \in Nat : n = Len(p) /\ DOMAIN p = 1..n
    BY Indices
  <1>5. /\ p \o w \in Seq(T) /\ Len(p \o w) = n + 1
        /\ \A i \in 1..n + 1 : (p \o w)[i] = IF i <= n THEN p[i] ELSE w[i - n]
    <2>1. /\ p \o w \in Seq(T) /\ Len(p \o w) = Len(p) + Len(w)
          /\ \A i \in 1..Len(p) + Len(w) :
               (p \o w)[i] = IF i <= Len(p) THEN p[i] ELSE w[i - Len(p)]
      BY ConcatProperties
    <2>2. Len(p) = n /\ Len(w) = 1
      BY <1>3, <1>4
    <2> QED
      BY <2>1, <2>2, Zenon
  <1>6. PICK a \in Seq(T) : a = p \o w
    BY <1>5
  <1>7. /\ DOMAIN a = 1..n + 1
        /\ \A i \in 1..n + 1 : a[i] = IF i <= n THEN p[i] ELSE w[i - n]
    <2>1. Len(a) = n + 1
      BY <1>5, <1>6
    <2> QED
      BY <1>5, <1>6, <2>1, Indices
  <1>8. \A i \in 1..n : Right(p[i])
    BY <1>2, <1>4 DEF HandedWhole
  <1>9. Right(w[1])
    BY <1>3
  <1>10. ASSUME NEW i \in 1..n + 1 PROVE Right(a[i])
    <2>1. CASE i <= n
      <3>1. i \in 1..n /\ a[i] = p[i]
        BY <1>7, <2>1
      <3> QED
        BY <1>8, <3>1
    <2>2. CASE ~(i <= n)
      <3>1. i - n = 1
        BY <2>2
      <3>2. a[i] = w[1]
        BY <1>7, <2>2, <3>1
      <3> QED
        BY <1>9, <3>2
    <2> QED
      BY <2>1, <2>2
  <1>11. delivered'[r] = a
    BY <1>2, <1>3, <1>6
  <1> QED
    BY <1>7, <1>10, <1>11 DEF HandedWhole, VerbOf, LengthOf

LEMMA ToldHandsOut ==
  ASSUME NEW s, NEW r, Running(s, r), Told(s, r), posted'[s] = posted[s],
         spc'[s] = spc[s], job'[s] = job[s],
         \A x \in OnTheWay(s, r)' : x \in OnTheWay(s, r),
         rpc'[r] = "idle", NEW wc \in Completions, Len(wc) = 1,
         delivered'[r] = delivered[r] \o wc,
         VerbOf(s, wc[1].msg) = "SEND" => wc[1].len = LengthOf(s, wc[1].msg)
  PROVE  Told(s, r)'
  <1>1. TypeOK /\ r \in Sides /\ FirstPieces(s, r) /\ HandedWhole(s, r)
    BY SenderFields DEF Told
  <1>2. HandedWhole(s, r)'
    BY <1>1, HandedOne
  <1>3. FirstPieces(s, r)'
    BY <1>1 DEF FirstPieces, FirstLen, HasChunks, LengthOf, VerbOf
  <1>4. OneBatch(s, r)' /\ Adding(s, r)'
    BY DEF OneBatch, Adding
  <1> QED
    BY <1>2, <1>3, <1>4 DEF Told

(* Of a WRITE with immediate the length is none of the receiver's concern.  *)
LEMMA ToldWimm ==
  ASSUME NEW s, NEW r, Running(s, r), Told(s, r), PollWimm(r)
  PROVE  Told(s, r)'
  <1>1. TypeOK /\ r \in Sides /\ OneBatch(s, r)
    BY SenderFields DEF Told
  <1>2. rx[r].batch \in Completions /\ RpcOK /\ delivered \in [Sides -> Completions]
    BY <1>1, RxFields DEF TypeOK
  <1>3. PICK wc \in Completions : wc = rx[r].batch
    BY <1>2
  <1>4. /\ rpc[r] = "wimm" /\ HandOut(r, wc) /\ rpc' = [rpc EXCEPT ![r] = "idle"]
        /\ UNCHANGED <<sendVars, userWire, userCq>>
    BY <1>3 DEF PollWimm
  <1>5. rpc'[r] = "idle" /\ delivered'[r] = delivered[r] \o wc /\ posted' = posted
    BY <1>1, <1>2, <1>4 DEF HandOut, RpcOK
  <1>6. spc' = spc /\ job' = job /\ OnTheWay(s, r)' = OnTheWay(s, r)
    BY <1>4 DEF sendVars, OnTheWay
  <1>7. Len(wc) = 1 /\ VerbOf(s, wc[1].msg) = "WRITE_WITH_IMM"
    BY <1>1, <1>3, <1>4 DEF OneBatch
  <1> QED
    BY <1>5, <1>6, <1>7, ToldHandsOut

(* The sum is handed out.                                                   *)
LEMMA ToldFinish ==
  ASSUME NEW s, NEW r, Running(s, r), Told(s, r), rpc[r] # "idle",
         NEW total \in Nat, Finish(r, total), total = LengthOf(s, rx[r].buf),
         UNCHANGED <<sendVars, userWire, userCq>>
  PROVE  Told(s, r)'
  <1>1. TypeOK /\ r \in Sides /\ OneBatch(s, r)
    BY SenderFields DEF Told
  <1>2. rx[r].batch \in Completions /\ RpcOK /\ delivered \in [Sides -> Completions]
    BY <1>1, RxFields DEF TypeOK
  <1>3. PICK b \in Completions : b = rx[r].batch
    BY <1>2
  <1>4. PICK wc \in Completions : wc = [b EXCEPT ![1].len = total]
    BY TotalType
  <1>5. Len(b) = 1 /\ b[1].msg = rx[r].buf
    BY <1>1, <1>3 DEF OneBatch
  <1>6. Len(wc) = 1 /\ wc[1].msg = rx[r].buf /\ wc[1].len = total
    <2>1. PICK q \in Seq([msg : Nat \ {0}, len : Nat]) : q = b
      BY DEF Completions
    <2>2. 1 \in 1..Len(q) /\ 1 \in DOMAIN q
      <3>1. Len(q) = 1
        BY <1>5, <2>1
      <3>2. DOMAIN q = 1..Len(q)
        BY Indices
      <3> QED
        BY <3>1, <3>2
    <2>3. q[1] \in [msg : Nat \ {0}, len : Nat]
      BY <2>1, <2>2, CompletionItems
    <2>4. wc = [q EXCEPT ![1] = [q[1] EXCEPT !.len = total]]
      BY <1>4, <2>1
    <2>5. [q[1] EXCEPT !.len = total] \in [msg : Nat \ {0}, len : Nat]
      BY <2>3
    <2>6. /\ Len([q EXCEPT ![1] = [q[1] EXCEPT !.len = total]]) = Len(q)
          /\ wc[1] = [q[1] EXCEPT !.len = total]
      BY <1>5, <2>1, <2>2, <2>4, <2>5, ExceptSeq
    <2> QED
      BY <1>5, <2>1, <2>3, <2>4, <2>6
  <1>7. /\ HandOut(r, wc) /\ rpc' = [rpc EXCEPT ![r] = "idle"]
    BY <1>3, <1>4 DEF Finish
  <1>8. rpc'[r] = "idle" /\ delivered'[r] = delivered[r] \o wc /\ posted' = posted
    BY <1>1, <1>2, <1>7 DEF HandOut, RpcOK
  <1>9. spc' = spc /\ job' = job /\ OnTheWay(s, r)' = OnTheWay(s, r)
    BY DEF sendVars, OnTheWay
  <1>10. wc[1].len = LengthOf(s, wc[1].msg)
    BY <1>6
  <1> QED
    BY <1>6, <1>8, <1>9, <1>10, ToldHandsOut

(* The ACK has been sent: the sum goes on.                                  *)
LEMMA ToldAckSent ==
  ASSUME NEW s, NEW r, Running(s, r), Told(s, r), PollAckSent(r)
  PROVE  Told(s, r)'
  <1>1. /\ TypeOK /\ s \in Sides /\ r \in Sides
        /\ FirstPieces(s, r) /\ OneBatch(s, r) /\ Adding(s, r) /\ HandedWhole(s, r)
    BY SenderFields DEF Told
  <1>2. /\ rpc[r] = "ack" /\ rpc'[r] = "chunks"
        /\ UNCHANGED <<appVars, sendVars, rx, userWire, userCq, splitWire, recvCq>>
    BY <1>1, RxFields DEF PollAckSent, RpcOK
  <1>3. UNCHANGED <<posted, delivered, spc, job>>
    BY <1>2 DEF appVars, sendVars
  <1>4. FirstPieces(s, r)'
    BY <1>1, <1>2, <1>3 DEF FirstPieces, FirstLen, HasChunks, LengthOf, VerbOf, OnTheWay
  <1>5. OneBatch(s, r)' /\ HandedWhole(s, r)'
    BY <1>1, <1>2, <1>3 DEF OneBatch, HandedWhole, VerbOf, LengthOf
  <1>6. Adding(s, r)'
    BY <1>1, <1>2, <1>3 DEF Adding, SizesAre, Mine, LengthOf
  <1> QED
    BY <1>4, <1>5, <1>6 DEF Told

(* One chunk more, and one less to come.                                    *)
LEMMA ToldChunkTaken ==
  ASSUME NEW s, NEW r, Running(s, r), Told(s, r), PollChunk(r)
  PROVE  Told(s, r)'
  <1>1. /\ TypeOK /\ s \in Sides /\ r \in Sides
        /\ FirstPieces(s, r) /\ OneBatch(s, r) /\ Adding(s, r) /\ HandedWhole(s, r)
    BY SenderFields DEF Told
  <1>2. /\ rpc[r] = "chunks" /\ recvCq[r] # <<>> /\ recvCq'[r] = Tail(recvCq[r])
        /\ UNCHANGED <<sendVars, userWire, userCq, splitWire>>
    BY <1>1 DEF PollChunk, TypeOK
  <1>3. PICK q \in Seq(Nat) : q = recvCq[r]
    BY <1>1 DEF TypeOK
  <1>4. PICK t \in Seq(Nat) : t = Tail(q)
    BY <1>2, <1>3, HeadTailProperties
  <1>5. /\ Len(q) \in Nat \ {0} /\ Len(t) = Len(q) - 1 /\ Head(q) = q[1] /\ q[1] \in Nat
        /\ \A i \in 1..Len(t) : t[i] = q[i + 1]
    BY <1>2, <1>3, <1>4, EmptySeq, HeadTailProperties, LenProperties
  <1>6. PICK n \in Nat : n = rx[r].left
    BY <1>1, RxFields
  <1>7. n > 0 /\ rx[r].total \in Nat
    <2>1. RxInv(r)
      BY <1>1 DEF Running, SplitInv
    <2> QED
      BY <1>1, <1>2, <1>6, <2>1, RxFields DEF RxInv
  <1>8. PICK old \in Nat : old = rx[r].total
    BY <1>7
  <1>9. PICK total \in Nat : total = old + q[1] /\ total = rx[r].total + Head(recvCq[r])
    BY <1>3, <1>5, <1>8
  <1>10. PICK c \in Chunks, l \in Int : SizesAre(s, r, c, l)
    BY <1>1, <1>2 DEF Adding
  <1>11. c \in Nat
    BY SizesAssumption
  <1>12. /\ old + c * (n - 1) + l = LengthOf(s, rx[r].buf)
         /\ \A i \in 1..Len(q) : (i < n => q[i] = c) /\ (i = n => q[i] = l)
         /\ Mine(s, r) =>
              /\ c = job[s].chunk /\ job[s].off + job[s].chunk * job[s].left + l = job[s].len
              /\ \A x \in Range(splitWire[s]) : x.len = (IF job[s].left = 0 THEN l ELSE c)
    BY <1>3, <1>6, <1>8, <1>10, Zenon DEF SizesAre
  <1>13. 1 \in 1..Len(q)
    BY <1>5
  <1>14. CASE n = 1
    <2>1. q[1] = l /\ c * (n - 1) = 0
      BY <1>11, <1>12, <1>13, <1>14
    <2>2. total = LengthOf(s, rx[r].buf)
      BY <1>8, <1>9, <1>12, <2>1
    <2>3. Finish(r, total)
      BY <1>6, <1>9, <1>14 DEF PollChunk
    <2> QED
      BY <1>2, <2>2, <2>3, ToldFinish
  <1>15. CASE n # 1
    <2>1. PICK m \in Nat : m = n - 1 /\ m + 1 = n
      BY <1>7
    <2>2. rx' = [rx EXCEPT ![r].left = m, ![r].total = total] /\ UNCHANGED <<rpc, appVars>>
      BY <1>6, <1>9, <1>15, <2>1 DEF PollChunk
    <2>3. UNCHANGED <<posted, delivered, rpc, spc, job>>
      BY <1>2, <2>2 DEF appVars, sendVars
    <2>4. /\ rx'[r].left = m /\ rx'[r].total = total
          /\ rx'[r].buf = rx[r].buf /\ rx'[r].batch = rx[r].batch
      <3>1. rx \in [Sides -> Receptions]
        BY <1>1, RxFields
      <3>2. rx'[r] = [rx[r] EXCEPT !.left = m, !.total = total]
        BY <1>1, <2>2, <3>1
      <3> QED
        BY <1>1, <3>1, <3>2 DEF Receptions
    <2>5. q[1] = c
      <3>1. 1 < n
        BY <1>7, <1>15
      <3>2. \A i \in 1..Len(q) : i < n => q[i] = c
        BY <1>12, Zenon
      <3> QED
        BY <1>13, <3>1, <3>2
    <2>6. total + c * (m - 1) + l = LengthOf(s, rx[r].buf)
      <3>1. PICK p \in Int : p = c * m
        BY <1>11
      <3>2. c * (m - 1) = p - c
        BY <1>11, <3>1, Distribute
      <3>3. c * (n - 1) = p
        BY <2>1, <3>1
      <3>4. old + p + l = LengthOf(s, rx[r].buf)
        BY <1>12, <3>3
      <3>5. total + (p - c) + l = old + p + l
        BY <1>9, <1>11, <2>5
      <3> QED
        BY <3>2, <3>4, <3>5
    <2>7. \A i \in 1..Len(t) : (i < m => t[i] = c) /\ (i = m => t[i] = l)
      <3>1. TAKE i \in 1..Len(t)
      <3>2. i + 1 \in 1..Len(q) /\ t[i] = q[i + 1]
        BY <1>5
      <3>3. (i < m => i + 1 < n) /\ (i = m => i + 1 = n)
        BY <2>1
      <3> QED
        BY <1>12, <3>2, <3>3
    <2>8. Adding(s, r)'
      <3>1. (rx[r].total + c * (rx[r].left - 1) + l = LengthOf(s, rx[r].buf))'
        <4>1. PICK b : b = rx[r].buf /\ b = rx'[r].buf
          BY <2>4
        <4>2. LengthOf(s, b)' = LengthOf(s, b)
          BY <2>3 DEF LengthOf
        <4> QED
          BY <2>4, <2>6, <4>1, <4>2
      <3>2. \A i \in 1..Len(recvCq'[r]) :
              /\ i < rx'[r].left => recvCq'[r][i] = c
              /\ i = rx'[r].left => recvCq'[r][i] = l
        BY <1>2, <1>3, <1>4, <2>4, <2>7
      <3>3. Mine(s, r)' => Mine(s, r)
        BY <2>3, <2>4 DEF Mine
      <3>4. SizesAre(s, r, c, l)'
        BY <1>2, <1>12, <2>3, <3>1, <3>2, <3>3 DEF SizesAre
      <3> QED
        BY <3>4 DEF Adding
    <2>9. FirstPieces(s, r)'
      BY <1>1, <1>2, <2>3 DEF FirstPieces, FirstLen, HasChunks, LengthOf, VerbOf, OnTheWay
    <2>10. OneBatch(s, r)' /\ HandedWhole(s, r)'
      BY <1>1, <1>2, <2>3, <2>4 DEF OneBatch, HandedWhole, VerbOf, LengthOf
    <2> QED
      BY <2>8, <2>9, <2>10 DEF Told
  <1> QED
    BY <1>14, <1>15

(* The INFO says how the message goes on: either it was whole, or so many   *)
(* chunks follow.                                                           *)
LEMMA ToldInfo ==
  ASSUME NEW s, NEW r, Running(s, r), Told(s, r), Bytes(s, r), PollInfo(r)
  PROVE  Told(s, r)'
  <1>1. /\ TypeOK /\ s \in Sides /\ r \in Sides /\ JobLatest(s) /\ OnSplitWire(s)
        /\ FirstPieces(s, r) /\ OneBatch(s, r) /\ Adding(s, r) /\ HandedWhole(s, r)
        /\ JobWhole(s) /\ JobInv(s)
    BY SenderFields DEF Told, Bytes
  <1>2. /\ rpc[r] = "info" /\ recvCq[r] # <<>> /\ recvCq' = [recvCq EXCEPT ![r] = Tail(@)]
        /\ UNCHANGED <<sendVars, userWire, userCq, splitWire>>
    BY DEF PollInfo
  <1>3. Len(recvCq[r]) = 1 /\ fc[r] # None /\ fc[r].kind = "info"
    BY <1>2, InfoAtHand
  <1>4. Answer(r)
    BY <1>3 DEF PollInfo
  <1>5. rx[r].total = FirstLen(s, rx[r].buf) /\ rx[r].total \in Nat /\ RpcOK
    BY <1>1, <1>2, RxFields DEF FirstPieces
  <1>6. CASE fc[r].chunks = 0
    <2>1. \/ Announced(s, r) = {rx[r].buf} /\ Elsewhere(s)
          \/ Announced(s, r) = {rx[r].buf, job[s].msg} /\ InFlight(s) /\ rx[r].buf # job[s].msg
      BY <1>2, <1>6, InfoAtHand
    <2>2. ~HasChunks(s, rx[r].buf)
      BY <2>1 DEF HasChunks, Elsewhere, InFlight, Chunking, Awaiting
    <2>3. PICK total \in Nat : total = rx[r].total /\ total = LengthOf(s, rx[r].buf)
      BY <1>5, <2>2 DEF FirstLen
    <2>4. Finish(r, total)
      BY <1>4, <1>6, <2>3 DEF Answer
    <2> QED
      BY <1>2, <2>3, <2>4, ToldFinish
  <1>7. CASE fc[r].chunks # 0
    <2>1. /\ rx[r].buf = job[s].msg /\ Awaiting(s) /\ fc[r].chunks = job[s].left
          /\ job[s].left \in Nat \ {0}
      BY <1>2, <1>7, InfoAtHand
    <2>2. PICK n \in Nat \ {0} : n = job[s].left
      BY <2>1
    <2>3. rpc' = [rpc EXCEPT ![r] = "ack"] /\ rx' = [rx EXCEPT ![r].left = n] /\ UNCHANGED appVars
      BY <1>4, <1>7, <2>1, <2>2 DEF Answer
    <2>4. UNCHANGED <<posted, delivered, spc, job>> /\ rpc'[r] = "ack"
      BY <1>1, <1>2, <1>5, <2>3 DEF appVars, sendVars, RpcOK
    <2>5. /\ rx'[r].left = n /\ rx'[r].buf = rx[r].buf /\ rx'[r].batch = rx[r].batch
          /\ rx'[r].total = rx[r].total
      <3>1. rx \in [Sides -> Receptions]
        BY <1>1, RxFields
      <3>2. rx'[r] = [rx[r] EXCEPT !.left = n]
        BY <1>1, <2>3, <3>1
      <3> QED
        BY <1>1, <3>1, <3>2 DEF Receptions
    <2>6. spc[s] \in {"info", "ack"} /\ spc[s] # "idle" /\ splitWire[s] = <<>>
      BY <1>1, <2>1 DEF Awaiting, OnSplitWire
    <2>7. job[s].off = 0 /\ job[s].chunk \in Chunks /\ job[s].len = LengthOf(s, rx[r].buf)
      BY <1>1, <2>1, <2>6 DEF JobLatest, JobWhole, JobInv
    <2>8. PICK c \in Chunks : c = job[s].chunk
      BY <2>7
    <2>9. PICK len \in Nat : len = job[s].len
      BY SenderFields
    <2>10. c \in Nat
      BY SizesAssumption
    <2>11. rx[r].total = c
      BY <1>5, <2>1, <2>2, <2>6, <2>8 DEF FirstLen, HasChunks
    <2>12. PICK p \in Int : p = c * n
      BY <2>10
    <2>13. PICK l \in Int : l = len - p
      OBVIOUS
    <2>14. c + c * (n - 1) + l = len
      <3>1. c * (n - 1) = p - c
        BY <2>10, <2>12, Distribute
      <3> QED
        BY <2>10, <2>13, <3>1
    <2>15. Len(recvCq'[r]) = 0
      <3>1. Len(recvCq'[r]) = Len(recvCq[r]) - 1
        BY <1>2, OneTaken
      <3> QED
        BY <1>3, <3>1
    <2>16. Adding(s, r)'
      <3>1. (rx[r].total + c * (rx[r].left - 1) + l = LengthOf(s, rx[r].buf))'
        <4>1. PICK b : b = rx[r].buf /\ b = rx'[r].buf
          BY <2>5
        <4>2. LengthOf(s, b)' = LengthOf(s, b)
          BY <2>4 DEF LengthOf
        <4> QED
          BY <2>5, <2>7, <2>9, <2>11, <2>14, <4>1, <4>2
      <3>2. \A i \in 1..Len(recvCq'[r]) :
              /\ i < rx'[r].left => recvCq'[r][i] = c
              /\ i = rx'[r].left => recvCq'[r][i] = l
        BY <2>15
      <3>3. c = job'[s].chunk /\ job'[s].off + job'[s].chunk * job'[s].left + l = job'[s].len
        BY <2>2, <2>4, <2>7, <2>8, <2>9, <2>12, <2>13
      <3>4. \A x \in Range(splitWire[s])' : x.len = (IF job'[s].left = 0 THEN l ELSE c)
        BY <1>2, <2>6, NothingQueued
      <3>5. SizesAre(s, r, c, l)'
        BY <3>1, <3>2, <3>3, <3>4 DEF SizesAre
      <3> QED
        BY <3>5 DEF Adding
    <2>17. FirstPieces(s, r)'
      BY <1>1, <1>2, <2>4 DEF FirstPieces, FirstLen, HasChunks, LengthOf, VerbOf, OnTheWay
    <2>18. OneBatch(s, r)' /\ HandedWhole(s, r)'
      BY <1>1, <1>2, <2>4, <2>5 DEF OneBatch, HandedWhole, VerbOf, LengthOf
    <2> QED
      BY <2>16, <2>17, <2>18 DEF Told
  <1> QED
    BY <1>6, <1>7

LEMMA OneWc ==
  ASSUME NEW q \in Seq(UserItems), Len(q) = 1
  PROVE  /\ Wc(q) \in Completions /\ Len(Wc(q)) = 1
         /\ Wc(q)[1].msg = q[1].msg /\ Wc(q)[1].len = q[1].len
  <1>1. DOMAIN q = 1..Len(q)
    BY Indices
  <1>2. PICK w \in Completions : w = Wc(q)
    BY WcType
  <1>3. /\ DOMAIN w = 1..Len(q)
        /\ \A i \in 1..Len(q) : w[i] = [msg |-> q[i].msg, len |-> q[i].len]
    BY <1>1, <1>2 DEF Wc
  <1>4. 1 \in 1..Len(q)
    OBVIOUS
  <1>5. w[1].msg = q[1].msg /\ w[1].len = q[1].len
    BY <1>3, <1>4
  <1>6. PICK v \in Seq([msg : Nat \ {0}, len : Nat]) : v = w
    BY DEF Completions
  <1>7. PICK n \in Nat : n = Len(v) /\ DOMAIN v = 1..n
    BY Indices
  <1>8. 1..n = 1..1
    BY <1>3, <1>6, <1>7
  <1>9. n = 1
    <2>1. 1 \in 1..n
      BY <1>8
    <2>2. n \in 1..n
      BY <2>1
    <2>3. n \in 1..1
      BY <1>8, <2>2, Zenon
    <2> QED
      BY <2>3
  <1> QED
    BY <1>2, <1>5, <1>6, <1>7, <1>9

(* A completion of the user's queue: it is that of a whole message, or the  *)
(* receiver begins to put one together.                                     *)
LEMMA ToldTake ==
  ASSUME LargeChunks, Batch = 1, NEW s, NEW r, Running(s, r), Told(s, r),
         NEW k \in 1..Batch, PollUser(r, k)
  PROVE  Told(s, r)'
  <1>1. /\ TypeOK /\ s \in Sides /\ r \in Sides /\ JobInv(s) /\ Order(s, r)
        /\ FirstPieces(s, r) /\ OneBatch(s, r) /\ Adding(s, r) /\ HandedWhole(s, r)
    BY SenderFields DEF Told, Running
  <1>2. k = 1
    OBVIOUS
  <1>3. PICK batch : batch = SubSeq(userCq[r], 1, k)
    OBVIOUS
  <1>4. /\ rpc[r] = "idle" /\ batch \in Seq(UserItems)
        /\ recvCq' = recvCq /\ UNCHANGED <<sendVars, userWire, splitWire>>
        /\ UNCHANGED <<turn, posted, completed>> => Taking(s, r, k, batch)
    BY <1>3, PollTakes
  <1>5. UNCHANGED <<turn, posted, completed>>
    BY DEF PollUser, HandOut, appVars
  <1>6. /\ batch[1] \in Range(batch)
        /\ \A y \in Range(batch) : VerbOf(s, y.msg) = y.verb /\ TwoSided(y.verb) /\ y \in UserItems
        /\ OnTheWay(s, r) = OnTheWay(s, r)' \cup Range(batch)
    BY <1>1, <1>2, <1>4, <1>5, TakenInOrder DEF TakenFirst
  <1>7. PICK x \in UserItems : x = batch[1] /\ x \in OnTheWay(s, r)
    BY <1>6
  <1>8. VerbOf(s, x.msg) = x.verb /\ TwoSided(x.verb)
    BY <1>6, <1>7
  <1>9. Len(batch) = 1
    <2>1. userCq[r] \in Seq(UserItems) /\ Batch \in Nat
      BY <1>1, BoundsAssumption DEF TypeOK
    <2>2. PICK n \in Nat : n = Len(userCq[r])
      BY <2>1, LenProperties
    <2>3. Taken(r, 1)
      BY <1>2 DEF PollUser
    <2>4. 1 \in 1..Min({Batch, n})
      BY <2>2, <2>3 DEF Taken
    <2>5. 1 \in 1..n
      BY <2>1, <2>2, <2>4, MinBelow
    <2>6. \A i \in 1..1 : userCq[r][i] \in UserItems
      BY <2>1, <2>2, <2>5, ElementOfSeq
    <2>7. Len(SubSeq(userCq[r], 1, 1)) = 1
      BY <2>6, SubSeqProperties
    <2> QED
      BY <1>2, <1>3, <2>7
  <1>10. PICK wc \in Completions : wc = Wc(batch) /\ Len(wc) = 1 /\ wc[1].msg = x.msg /\ wc[1].len = x.len
    BY <1>4, <1>7, <1>9, OneWc
  <1>11. \A y \in OnTheWay(s, r)' : y \in OnTheWay(s, r)
    BY <1>6
  <1>12. posted' = posted /\ spc' = spc /\ job' = job
    BY <1>4, <1>5 DEF sendVars
  <1>13. x.verb = "SEND" => x.len = FirstLen(s, x.msg)
    BY <1>1, <1>7, <1>8 DEF FirstPieces
  <1>14. CASE ~SeenAsSplit(x.len)
    <2>1. HandOut(r, wc) /\ UNCHANGED recvVars
      BY <1>2, <1>3, <1>7, <1>10, <1>14 DEF PollUser
    <2>2. delivered'[r] = delivered[r] \o wc /\ rpc'[r] = "idle"
      BY <1>1, <1>4, <2>1 DEF HandOut, recvVars, TypeOK
    <2>3. VerbOf(s, wc[1].msg) = "SEND" => wc[1].len = LengthOf(s, wc[1].msg)
      <3>1. SUFFICES ASSUME x.verb = "SEND" PROVE x.len = LengthOf(s, x.msg)
        BY <1>8, <1>10
      <3>2. ~HasChunks(s, x.msg)
        <4>1. SUFFICES ASSUME HasChunks(s, x.msg) PROVE FALSE
          OBVIOUS
        <4>2. x.len = job[s].chunk /\ job[s].chunk >= MinSplit
          BY <1>1, <1>13, <3>1, <4>1 DEF FirstLen, HasChunks, JobInv, LargeChunks
        <4> QED
          BY <1>14, <4>2 DEF SeenAsSplit
      <3> QED
        BY <1>13, <3>1, <3>2 DEF FirstLen
    <2> QED
      BY <1>10, <1>11, <1>12, <2>2, <2>3, ToldHandsOut
  <1>15. CASE SeenAsSplit(x.len)
    <2>1. /\ rx' = [rx EXCEPT ![r] = [batch |-> wc, buf |-> x.msg, left |-> 0, total |-> x.len]]
          /\ rpc' = [rpc EXCEPT ![r] = IF x.verb = "WRITE_WITH_IMM" THEN "wimm" ELSE "info"]
          /\ UNCHANGED appVars
      BY <1>2, <1>3, <1>7, <1>10, <1>15 DEF PollUser, ExpectWimm
    <2>2. /\ rx'[r].batch = wc /\ rx'[r].buf = x.msg /\ rx'[r].total = x.len
          /\ rpc'[r] = (IF x.verb = "WRITE_WITH_IMM" THEN "wimm" ELSE "info")
      BY <1>1, <2>1, RxFields DEF RpcOK
    <2>3. delivered' = delivered
      BY <2>1 DEF appVars
    <2>4. OneBatch(s, r)'
      BY <1>8, <1>10, <1>12, <2>2 DEF OneBatch, VerbOf
    <2>5. rpc'[r] = "info" => x.len = FirstLen(s, x.msg)
      BY <1>8, <1>13, <2>2 DEF UserItems, TwoSided, Verbs
    <2>6. FirstPieces(s, r)'
      <3>1. \A m : FirstLen(s, m)' = FirstLen(s, m) /\ VerbOf(s, m)' = VerbOf(s, m)
        BY <1>12 DEF FirstLen, HasChunks, LengthOf, VerbOf
      <3>2. rpc'[r] = "info" => rx'[r].total = FirstLen(s, rx[r].buf)'
        <4>1. PICK b : b = x.msg /\ b = rx'[r].buf
          BY <2>2
        <4>2. FirstLen(s, rx[r].buf)' = FirstLen(s, b)
          BY <1>12, <4>1 DEF FirstLen, HasChunks, LengthOf
        <4> QED
          BY <2>2, <2>5, <4>1, <4>2
      <3>3. \A y \in OnTheWay(s, r)' : VerbOf(s, y.msg)' = "SEND" => y.len = FirstLen(s, y.msg)'
        BY <1>1, <1>11, <3>1 DEF FirstPieces
      <3> QED
        BY <3>2, <3>3 DEF FirstPieces
    <2>7. Adding(s, r)'
      BY <2>2 DEF Adding
    <2>8. HandedWhole(s, r)'
      BY <1>1, <1>12, <2>3 DEF HandedWhole, VerbOf, LengthOf
    <2> QED
      BY <2>4, <2>6, <2>7, <2>8 DEF Told
  <1> QED
    BY <1>14, <1>15

-----------------------------------------------------------------------------
(* Every step.                                                              *)
WholeInv == Buffers /\ \A s \in Sides : Bytes(s, Peer(s)) /\ Told(s, Peer(s))

(* Nobody touches a message.                                                *)
LEMMA WholeSame ==
  ASSUME NEW s, NEW r, Bytes(s, r), Told(s, r),
         UNCHANGED <<posted, delivered, placed, sendVars, recvVars, userWire, userCq,
                     splitWire, recvCq>>
  PROVE  Bytes(s, r)' /\ Told(s, r)'
  <1>1. /\ posted' = posted /\ delivered' = delivered /\ placed' = placed /\ spc' = spc
        /\ job' = job /\ rpc' = rpc /\ rx' = rx /\ userWire' = userWire /\ userCq' = userCq
        /\ splitWire' = splitWire /\ recvCq' = recvCq
    BY DEF sendVars, recvVars
  <1>2. Bytes(s, r)'
    BY <1>1, BytesStay DEF SamePosted
  <1>3. /\ \A m : FirstLen(s, m)' = FirstLen(s, m) /\ LengthOf(s, m)' = LengthOf(s, m)
        /\ FirstLen(s, rx[r].buf)' = FirstLen(s, rx[r].buf)
        /\ LengthOf(s, rx[r].buf)' = LengthOf(s, rx[r].buf)
        /\ \A m : VerbOf(s, m)' = VerbOf(s, m)
        /\ VerbOf(s, rx[r].buf)' = VerbOf(s, rx[r].buf)
        /\ OnTheWay(s, r)' = OnTheWay(s, r) /\ (Mine(s, r)' <=> Mine(s, r))
    BY <1>1 DEF FirstLen, HasChunks, LengthOf, VerbOf, OnTheWay, Mine
  <1>4. FirstPieces(s, r)' /\ OneBatch(s, r)'
    BY <1>1, <1>3 DEF Told, FirstPieces, OneBatch
  <1>5. HandedWhole(s, r)'
    BY <1>1 DEF Told, HandedWhole, VerbOf, LengthOf
  <1>6. Adding(s, r)'
    <2>1. ASSUME NEW c, NEW l, SizesAre(s, r, c, l) PROVE SizesAre(s, r, c, l)'
      BY <1>1, <1>3, <2>1 DEF SizesAre
    <2> QED
      BY <1>1, <2>1 DEF Told, Adding
  <1> QED
    BY <1>2, <1>4, <1>5, <1>6 DEF Told

(* In the other direction nothing is under way.                             *)
LEMMA WholeRests ==
  ASSUME NEW s, NEW r, Resting(r, s), SameRest(s, r), Bytes(r, s), Told(r, s),
         placed'[s] = placed[s]
  PROVE  Bytes(r, s)' /\ Told(r, s)'
  <1>1. /\ spc[r] = "idle" /\ rpc[s] = "idle" /\ spc'[r] = "idle" /\ rpc'[s] = "idle"
        /\ userWire[r] = <<>> /\ userCq[s] = <<>> /\ splitWire[r] = <<>>
        /\ userWire'[r] = <<>> /\ userCq'[s] = <<>> /\ splitWire'[r] = <<>>
        /\ posted'[r] = posted[r] /\ delivered'[s] = delivered[s]
    BY DEF Resting, SameRest, SameApp, SameUser
  <1>2. \A m, byte : ToPost(r, m, byte)' <=> ToPost(r, m, byte)
    BY <1>1 DEF ToPost
  <1>3. Account(r, s)' /\ Pieces(r, s)'
    BY <1>1, <1>2, BytesWait DEF Bytes, SamePosted
  <1>4. JobWhole(r)' /\ SplitOwn(r)'
    BY <1>1, NothingQueued DEF JobWhole, SplitOwn
  <1>5. FirstPieces(r, s)' /\ OneBatch(r, s)' /\ Adding(r, s)'
    BY <1>1, NothingQueued DEF FirstPieces, OneBatch, Adding, OnTheWay
  <1>6. HandedWhole(r, s)'
    BY <1>1 DEF Told, HandedWhole, VerbOf, LengthOf
  <1> QED
    BY <1>3, <1>4, <1>5, <1>6 DEF Bytes, Told

(* Only what lands is placed.                                               *)
LEMMA OthersBuffer ==
  ASSUME NEW s, NEW r, Ends(s, r), Buffers,
         \/ placed' = placed
         \/ LandUser(s) \/ LandOnSplit(s)
  PROVE  Buffers' /\ placed'[s] = placed[s]
  <1>1. s \in Sides /\ r \in Sides /\ s # r /\ Peer(s) = r
    BY DEF Ends
  <1>2. placed' = placed \/ \E x : placed' = [placed EXCEPT ![r] = x]
    BY <1>1 DEF LandUser, LandOnSplit, LandSplitSend, LandSplitWrite
  <1> QED
    BY <1>1, <1>2 DEF Buffers

LEMMA WholeSends ==
  ASSUME LargeChunks, NEW s, NEW r, Running(s, r), Bytes(s, r), Told(s, r),
         Post(s) \/ SendStep(s), ~SenderWakes(s)
  PROVE  Bytes(s, r)' /\ Told(s, r)' /\ placed' = placed
  <1>1. CASE Post(s)
    <2>1. PICK len \in Lengths, chunk \in Chunks :
            \/ \E verb \in Verbs : PostWhole(s, verb, len, chunk)
            \/ PostSplit(s, len, chunk)
            \/ StartWimm(s, len, chunk) \/ StartPut(s, len, chunk)
      BY <1>1 DEF Post
    <2>2. Bytes(s, r)'
      BY <2>1, BytesWhole, BytesSplit, BytesStart
    <2>3. placed' = placed
      BY <2>1 DEF PostWhole, PostSplit, StartWimm, StartPut
    <2> QED
      BY <1>1, <2>2, <2>3, ToldPost
  <1>2. CASE PollInfoSent(s) \/ PollAck(s) \/ PollChunkSent(s)
    BY <1>2, BytesPolled, ToldPolled DEF PollInfoSent, PollAck, PollChunkSent
  <1>3. CASE PostChunk(s)
    BY <1>3, BytesChunk, ToldChunk DEF PostChunk
  <1>4. CASE PostWrite(s) \/ PostPut(s) \/ PollWritten(s) \/ PollPut(s)
    BY <1>4, BytesWrite, BytesPut, BytesWritten, ToldWrites
    DEF PostWrite, PostPut, PollWritten, PollPut
  <1> QED
    BY <1>1, <1>2, <1>3, <1>4 DEF SendStep

LEMMA WholeReceives ==
  ASSUME LargeChunks, Batch = 1, NEW s, NEW r, Running(s, r), Bytes(s, r), Told(s, r),
         RecvStep(r), ~ReceiverWakes(r)
  PROVE  Bytes(s, r)' /\ Told(s, r)' /\ placed' = placed
  <1>1. UNCHANGED <<posted, placed, sendVars, userWire, splitWire>>
    BY DEF RecvStep, PollUser, PollInfo, PollAckSent, PollChunk, PollWimm, Answer, Finish,
         HandOut, appVars
  <1>2. Bytes(s, r)'
    BY <1>1, BytesStay DEF SamePosted, sendVars
  <1>3. Told(s, r)'
    BY ToldTake, ToldInfo, ToldAckSent, ToldChunkTaken, ToldWimm DEF RecvStep
  <1> QED
    BY <1>1, <1>2, <1>3

LEMMA WholeLandAck ==
  ASSUME NEW s, NEW r, Bytes(s, r), Told(s, r), LandAck(r)
  PROVE  Bytes(s, r)' /\ Told(s, r)' /\ placed' = placed
  <1>1. UNCHANGED <<posted, delivered, placed, sendVars, recvVars, userWire, userCq,
                    splitWire, recvCq>>
    BY DEF LandAck, appVars
  <1> QED
    BY <1>1, WholeSame

LEMMA WholeStep ==
  ASSUME HalfDuplex, LargeChunks, Batch = 1, TypeOK, SplitInv, PlaceInv, InPlace, WholeInv,
         [Next]_vars
  PROVE  WholeInv'
  <1>1. PICK s \in Sides, r \in Sides :
          turn = s /\ r = Peer(s) /\ Sending(s, r) /\ Resting(r, s)
    BY DEF PlaceInv
  <1>2. Ends(s, r)
    BY <1>1, BothEnds
  <1>3. Running(s, r)
    BY <1>1, <1>2 DEF Running, Sending, Order
  <1>4. /\ Buffers /\ Bytes(s, r) /\ Told(s, r) /\ Bytes(r, s) /\ Told(r, s)
    BY <1>2 DEF WholeInv, Ends
  <1>5. PICK p \in Sides, q \in Sides : p = s /\ q = r
    OBVIOUS
  <1>6. ASSUME Buffers', Bytes(p, q)', Told(p, q)', Bytes(q, p)', Told(q, p)' PROVE WholeInv'
    BY <1>2, <1>5, <1>6 DEF WholeInv, Ends
  <1>7. InPlace'
    BY PlaceStep
  <1>8. ASSUME UNCHANGED <<posted, delivered, placed, sendVars, recvVars, userWire, userCq,
                           splitWire, recvCq>>
        PROVE  WholeInv'
    <2>1. Bytes(p, q)' /\ Told(p, q)' /\ Bytes(q, p)' /\ Told(q, p)'
      BY <1>4, <1>5, <1>8, WholeSame
    <2> QED
      BY <1>4, <1>6, <1>8, <2>1 DEF Buffers
  <1>9. ASSUME Kept(s, r), Bytes(s, r)', Told(s, r)',
               \/ placed' = placed
               \/ LandUser(s) \/ LandOnSplit(s)
        PROVE  WholeInv'
    <2>1. Buffers' /\ placed'[s] = placed[s]
      BY <1>2, <1>4, <1>9, OthersBuffer
    <2>2. Bytes(r, s)' /\ Told(r, s)'
      BY <1>1, <1>4, <1>9, <2>1, WholeRests DEF Kept
    <2> QED
      BY <1>5, <1>6, <1>9, <2>1, <2>2
  <1>10. CASE UNCHANGED vars
    BY <1>8, <1>10 DEF vars, appVars
  <1>11. ASSUME NEW e \in Sides, SenderWakes(e) \/ ReceiverWakes(e)
         PROVE  WholeInv'
    BY <1>8, <1>11 DEF SenderWakes, ReceiverWakes, Wake, appVars
  <1>12. CASE (Post(s) \/ SendStep(s)) /\ ~SenderWakes(s)
    BY <1>3, <1>4, <1>9, <1>12, WholeSends, SendKept
  <1>13. CASE RecvStep(r) /\ ~ReceiverWakes(r)
    BY <1>3, <1>4, <1>9, <1>13, WholeReceives, ReceiveKept
  <1>14. CASE LandUser(s) \/ LandOnSplit(s)
    <2>1. Kept(s, r)
      BY <1>3, <1>14, PlaceLandUser, PlaceLandSplit
    <2>2. Bytes(s, r)' /\ Told(s, r)'
      BY <1>3, <1>4, <1>7, <1>14, BytesLandUser, BytesLandSplit, ToldLandUser, ToldLandSplit
    <2> QED
      BY <1>9, <1>14, <2>1, <2>2
  <1>15. CASE LandAck(r)
    BY <1>3, <1>4, <1>9, <1>15, WholeLandAck, PlaceLandAck
  <1>16. CASE HandOver(s)
    BY <1>8, <1>16 DEF HandOver
  <1>17. \E e \in {s, r} : \/ Post(e) \/ SendStep(e) \/ RecvStep(e) \/ HandOver(e)
                           \/ LandUser(e) \/ LandOnSplit(e) \/ LandAck(e) \/ UNCHANGED vars
    BY <1>2 DEF Next, Ends
  <1> QED
    BY <1>1, <1>3, <1>10, <1>11, <1>12, <1>13, <1>14, <1>15, <1>16, <1>17, RestDisabled

LEMMA WholeInit == Init => WholeInv
  <1>1. SUFFICES ASSUME Init PROVE WholeInv
    OBVIOUS
  <1>2. Buffers
    BY <1>1 DEF Init, Buffers
  <1>3. ASSUME NEW s \in Sides, NEW r \in Sides PROVE Bytes(s, r) /\ Told(s, r)
    <2>1. /\ spc[s] = "idle" /\ rpc[r] = "idle" /\ posted[s] = <<>> /\ delivered[r] = <<>>
          /\ userWire[s] = <<>> /\ userCq[r] = <<>> /\ splitWire[s] = <<>> /\ placed[r] = {}
      BY <1>1 DEF Init
    <2>2. Account(s, r) /\ Pieces(s, r)
      BY <2>1 DEF Account, Pieces
    <2>3. JobWhole(s) /\ SplitOwn(s)
      BY <2>1, NothingQueued DEF JobWhole, SplitOwn
    <2>4. FirstPieces(s, r) /\ OneBatch(s, r) /\ Adding(s, r)
      BY <2>1, NothingQueued DEF FirstPieces, OneBatch, Adding, OnTheWay
    <2>5. HandedWhole(s, r)
      BY <2>1 DEF HandedWhole
    <2> QED
      BY <2>2, <2>3, <2>4, <2>5 DEF Bytes, Told
  <1> QED
    BY <1>2, <1>3, PeerInSides DEF WholeInv

(* What an application has been handed of the message being sent, or been   *)
(* told is through, has left split_qp[0] and is posted to the end.          *)
LEMMA LatestPosted ==
  ASSUME NEW s, NEW r, Running(s, r), spc[s] # "idle",
         job[s].msg \in Msgs(delivered[r]) \cup completed[s]
  PROVE  splitWire[s] = <<>> /\ job[s].len <= NextByte(s)
  <1>1. /\ TypeOK /\ s \in Sides /\ r \in Sides /\ JobLatest(s) /\ OnSplitWire(s) /\ SpcOK
        /\ Order(s, r) /\ Phase(s, r)
        /\ Len(posted[s]) \in Nat /\ job[s].len \in Nat /\ job[s].chunk \in Nat
        /\ job[s].left \in Nat /\ job[s].off \in Nat
    BY SenderFields DEF Running
  <1>2. PICK n \in Nat : n = Len(posted[s])
    BY <1>1
  <1>3. job[s].msg = n
    BY <1>1, <1>2 DEF JobLatest
  <1>4. n <= Top(s)
    BY <1>1, <1>3 DEF Order, HandedInOrder
  <1>5. ~Writing(s)
    BY <1>2, <1>4 DEF Writing, Top
  <1>6. spc[s] \in {"info", "ack", "chunk", "sent"}
    BY <1>1, <1>5 DEF Writing, SpcOK
  <1>7. /\ VerbOf(s, n) = "SEND"
        /\ job[s].len <= job[s].off + job[s].chunk * job[s].left + job[s].chunk
    BY <1>1, <1>2, <1>6 DEF JobLatest
  <1>8. n \in Msgs(delivered[r])
    BY <1>1, <1>3, <1>7 DEF Order, HandedInOrder
  <1>9. \A x \in OnTheWay(s, r) : x.msg \in 1..n /\ n < x.msg
    <2>1. Top(s) = n
      BY <1>2, <1>5 DEF Writing, Top
    <2> QED
      BY <1>1, <1>8, <2>1 DEF Order, QueuesInOrder, HandedInOrder, OnTheWay
  <1>10. rpc[r] = "idle"
    <2>1. rpc[r] # "idle" => rx[r].buf \in 1..n /\ n < rx[r].buf
      <3>1. Top(s) = n
        BY <1>2, <1>5 DEF Writing, Top
      <3> QED
        BY <1>1, <1>8, <3>1 DEF Order, ReceptionInOrder
    <2> QED
      BY <2>1
  <1>11. Announced(s, r) = {}
    <2>1. OnTheWay(s, r) = {}
      BY <1>9
    <2> QED
      BY <1>10, <2>1 DEF Announced
  <1>12. ~InFlight(s) /\ ~Chunking(s)
    <2>1. ~ImmLanded(s)
      BY <1>6 DEF ImmLanded
    <2>2. Elsewhere(s)
      BY <1>1, <1>10, <1>11, <2>1 DEF Phase, Open, Used, Exchange
    <2> QED
      BY <2>2 DEF Elsewhere
  <1>13. splitWire[s] = <<>> /\ ~(job[s].left > 0)
    BY <1>6, <1>12 DEF InFlight, Chunking, Awaiting
  <1>14. job[s].left = 0
    BY <1>1, <1>13
  <1>15. job[s].chunk * 0 = 0
    BY <1>1
  <1>16. job[s].len <= job[s].off + job[s].chunk
    BY <1>1, <1>7, <1>14, <1>15
  <1> QED
    BY <1>5, <1>13, <1>16 DEF NextByte

(* All of it is in the buffer.                                              *)
LEMMA NoneLeft ==
  ASSUME NEW s, NEW r, Running(s, r), Bytes(s, r),
         NEW m \in Msgs(delivered[r]) \cup completed[s]
  PROVE  /\ m \in 1..Len(posted[s])
         /\ \A byte \in Nat : InBuffer(r, m, byte) <=> byte < LengthOf(s, m)
  <1>1. /\ TypeOK /\ s \in Sides /\ r \in Sides /\ Order(s, r) /\ SplitOwn(s) /\ Account(s, r)
        /\ userWire[s] \in Seq(UserItems) /\ job[s].len \in Nat
    BY SenderFields, OrderTypes DEF Running, Bytes
  <1>2. m \in 1..Len(posted[s])
    <2>1. CASE m \in completed[s]
      BY <1>1, <2>1, MessagesPosted DEF Order, HandedInOrder
    <2>2. CASE m \in Msgs(delivered[r])
      BY <2>2, MessagesPosted DEF Msgs
    <2> QED
      BY <2>1, <2>2
  <1>3. \A x \in Range(userWire[s]) : x.msg # m
    <2>1. \A x \in Range(userWire[s]) : m < x.msg
      BY <1>1 DEF Order, HandedInOrder, OnTheWay
    <2> QED
      BY <1>1, <1>2, <2>1, QueueItems
  <1>4. ASSUME NEW byte \in Nat PROVE ~Crossing(s, m, byte) /\ ~ToPost(s, m, byte)
    <2>1. CASE spc[s] = "idle"
      BY <1>1, <2>1 DEF Crossing, ToPost, SplitOwn
    <2>2. CASE spc[s] # "idle" /\ m = job[s].msg
      <3>1. splitWire[s] = <<>> /\ job[s].len <= NextByte(s)
        BY <2>2, LatestPosted
      <3>2. NextByte(s) \in Nat
        BY SenderFields DEF NextByte
      <3> QED
        BY <1>1, <3>1, <3>2, NothingQueued DEF Crossing, ToPost
    <2>3. CASE m # job[s].msg
      BY <1>1, <2>3 DEF Crossing, ToPost, SplitOwn
    <2> QED
      BY <2>1, <2>2, <2>3
  <1>5. \A byte : ~OnUserWire(s, m, byte)
    BY <1>3 DEF OnUserWire
  <1> QED
    BY <1>1, <1>2, <1>4, <1>5 DEF Account, Held

(* The same of the end that rests.                                          *)
LEMMA NoneLeftAtRest ==
  ASSUME TypeOK, NEW s \in Sides, NEW r \in Sides, Resting(s, r), Account(s, r),
         NEW m \in Msgs(delivered[r]) \cup completed[s]
  PROVE  /\ m \in 1..Len(posted[s])
         /\ \A byte \in Nat : InBuffer(r, m, byte) <=> byte < LengthOf(s, m)
  <1>1. /\ spc[s] = "idle" /\ userWire[s] = <<>> /\ splitWire[s] = <<>>
        /\ HandedInOrder(s, r)
    BY DEF Resting
  <1>2. m \in 1..Len(posted[s])
    <2>1. Top(s) = Len(posted[s]) /\ Len(posted[s]) \in Nat
      BY <1>1, OrderTypes DEF Top
    <2>2. m \in Msgs(delivered[r]) => m \in Nat \ {0} /\ m <= Top(s)
      <3>1. delivered[r] \in Completions
        BY OrderTypes
      <3> QED
        BY <1>1, <3>1, MsgsType DEF HandedInOrder
    <2> QED
      BY <1>1, <2>1, <2>2 DEF HandedInOrder
  <1>3. \A byte : /\ ~OnUserWire(s, m, byte) /\ ~Crossing(s, m, byte) /\ ~ToPost(s, m, byte)
    BY <1>1, NothingQueued DEF OnUserWire, Crossing, ToPost
  <1> QED
    BY <1>2, <1>3 DEF Account, Held

LEMMA AllLanded ==
  ASSUME NEW s, NEW r, NEW m \in 1..Len(posted[s]), Pieces(s, r), LengthOf(s, m) \in Nat,
         \A byte \in Nat : InBuffer(r, m, byte) <=> byte < LengthOf(s, m)
  PROVE  UNION {p.pos .. p.pos + p.len - 1 : p \in {q \in placed[r] : q.buf = m}}
           = 0 .. LengthOf(s, m) - 1
  <1> DEFINE L == UNION {p.pos .. p.pos + p.len - 1 : p \in {q \in placed[r] : q.buf = m}}
  <1>1. \A p \in placed[r] : p.pos \in Nat /\ p.len \in Nat
    BY DEF Pieces
  <1>2. ASSUME NEW byte \in L PROVE byte \in 0 .. LengthOf(s, m) - 1
    <2>1. PICK p \in placed[r] : p.buf = m /\ byte \in p.pos .. p.pos + p.len - 1
      OBVIOUS
    <2>2. byte \in Nat /\ p.pos <= byte /\ byte < p.pos + p.len
      BY <1>1, <2>1
    <2>3. InBuffer(r, m, byte)
      BY <2>1, <2>2 DEF InBuffer
    <2>4. byte < LengthOf(s, m)
      BY <2>2, <2>3
    <2> QED
      BY <2>2, <2>4
  <1>3. ASSUME NEW byte \in 0 .. LengthOf(s, m) - 1 PROVE byte \in L
    <2>1. byte \in Nat /\ byte < LengthOf(s, m)
      OBVIOUS
    <2>2. PICK p \in placed[r] : p.buf = m /\ p.pos <= byte /\ byte < p.pos + p.len
      BY <2>1 DEF InBuffer
    <2>3. byte \in p.pos .. p.pos + p.len - 1
      BY <1>1, <2>1, <2>2
    <2> QED
      BY <2>2, <2>3
  <1> QED
    BY <1>2, <1>3

LEMMA WholeDelivered ==
  ASSUME TypeOK, SplitInv, PlaceInv, WholeInv
  PROVE  DeliveredWhole
  <1>1. PICK f \in Sides, g \in Sides :
          turn = f /\ g = Peer(f) /\ Sending(f, g) /\ Resting(g, f)
    BY DEF PlaceInv
  <1>2. Ends(f, g)
    BY <1>1, BothEnds
  <1>3. Running(f, g)
    BY <1>1, <1>2 DEF Running, Sending, Order
  <1>4. ASSUME NEW s \in Sides, NEW r \in Sides, r = Peer(s),
               NEW m \in Msgs(delivered[r]) \cup completed[s]
        PROVE  /\ m \in 1..Len(posted[s])
               /\ \A byte \in Nat : InBuffer(r, m, byte) <=> byte < LengthOf(s, m)
    <2>1. Bytes(s, r)
      BY <1>4 DEF WholeInv
    <2>2. CASE s = f
      <3>1. r = g
        BY <1>1, <1>4, <2>2
      <3> QED
        BY <1>3, <2>1, <2>2, <3>1, NoneLeft
    <2>3. CASE s = g
      <3>1. r = f
        BY <1>2, <1>4, <2>3 DEF Ends
      <3> QED
        BY <1>1, <2>1, <2>3, <3>1, NoneLeftAtRest DEF Bytes
    <2> QED
      BY <1>2, <2>2, <2>3 DEF Ends
  <1>5. ASSUME NEW s \in Sides, NEW m \in Msgs(delivered[Peer(s)]) \cup completed[s]
        PROVE  UNION {p.pos .. p.pos + p.len - 1 : p \in {q \in placed[Peer(s)] : q.buf = m}}
                 = 0 .. posted[s][m].len - 1
    <2>1. PICK r \in Sides : r = Peer(s)
      BY PeerInSides
    <2>2. /\ m \in 1..Len(posted[s])
          /\ \A byte \in Nat : InBuffer(r, m, byte) <=> byte < LengthOf(s, m)
      BY <1>4, <2>1
    <2>3. LengthOf(s, m) \in Nat
      <3>1. posted[s] \in Seq([verb : Verbs, len : Lengths])
        BY OrderTypes
      <3>2. posted[s][m] \in [verb : Verbs, len : Lengths]
        BY <2>2, <3>1, ElementOfSeq
      <3> QED
        BY <3>2, SizesAssumption DEF LengthOf
    <2>4. Pieces(s, r)
      BY <2>1 DEF WholeInv, Bytes
    <2>5. UNION {p.pos .. p.pos + p.len - 1 : p \in {q \in placed[r] : q.buf = m}}
            = 0 .. LengthOf(s, m) - 1
      BY <2>2, <2>3, <2>4, AllLanded
    <2> QED
      BY <2>1, <2>5 DEF LengthOf
  <1>6. ASSUME NEW s \in Sides, NEW i \in DOMAIN delivered[Peer(s)]
        PROVE  /\ delivered[Peer(s)][i].msg \in Msgs(delivered[Peer(s)])
               /\ posted[s][delivered[Peer(s)][i].msg].verb = "SEND"
                    => delivered[Peer(s)][i].len = posted[s][delivered[Peer(s)][i].msg].len
    <2>1. HandedWhole(s, Peer(s))
      BY DEF WholeInv, Told
    <2> QED
      BY <2>1 DEF HandedWhole, VerbOf, LengthOf, Msgs
  <1> QED
    BY <1>5, <1>6 DEF DeliveredWhole

(* Whatever lengths the messages have and however many they are: if the ends *)
(* take turns, no chunk is smaller than what a receiver recognises as the    *)
(* first of a message and the application polls for one completion at a     *)
(* time, then it is told of a message only when every byte of it is in      *)
(* place, though the chunks and what the completion is for travel on        *)
(* different queue pairs, and of a SEND it is told the whole length          *)
(* (qp.c:1756-1971 and cq.c:1096-1319 of libmlx4).                          *)
THEOREM WholeWhenHanded ==
  ASSUME HalfDuplex, LargeChunks, Batch = 1
  PROVE  SafeSpec => []DeliveredWhole
  <1> DEFINE Inv == TypeOK /\ SplitInv /\ PlaceInv /\ InPlace /\ WholeInv
  <1>1. Init => Inv
    BY SplitInit, PlaceInit, WholeInit
  <1>2. Inv /\ [Next]_vars => Inv'
    BY SplitStep, PlaceStep, WholeStep
  <1>3. Inv => DeliveredWhole
    BY WholeDelivered
  <1> QED
    BY <1>1, <1>2, <1>3, PTL DEF SafeSpec

=============================================================================
