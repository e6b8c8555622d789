------------------------- MODULE SplitTwoSidedProofs -------------------------
(***************************************************************************)
(* Proofs about SplitTwoSided, for every chunk size the pacer may ask for, *)
(* every message length, batch and number of messages: first that what is  *)
(* cut and put together has its type, then that the chunks land in their   *)
(* places.  The second needs the ends to take turns, and no chunk to be    *)
(* smaller than what the receiver recognises as the first of a message.    *)
(***************************************************************************)
EXTENDS SplitTwoSided, SequenceTheorems, TLAPS

-----------------------------------------------------------------------------
(* Arithmetic: how many chunks a message makes.                            *)

LEMMA Divide ==
  ASSUME NEW x \in Nat, NEW y \in Nat \ {0}
  PROVE  /\ x \div y \in Nat
         /\ y * (x \div y) <= x /\ x < y * (x \div y) + y
  OBVIOUS

LEMMA Modulo ==
  ASSUME NEW x \in Nat, NEW y \in Nat \ {0}
  PROVE  x % y \in Nat
  OBVIOUS

LEMMA Positive ==
  ASSUME NEW x \in Nat \ {0}, NEW y \in Nat \ {0}
  PROVE  x * y \in Nat \ {0}
  OBVIOUS

LEMMA Distribute ==
  ASSUME NEW x \in Nat, NEW y \in Nat
  PROVE  y * (x - 1) = y * x - y
  OBVIOUS

LEMMA NumChunksBounds ==
  ASSUME NEW len \in Nat \ {0}, NEW chunk \in Nat \ {0}
  PROVE  /\ NumChunks(len, chunk) \in Nat \ {0}
         /\ chunk * (NumChunks(len, chunk) - 1) < len
         /\ len > chunk => NumChunks(len, chunk) > 1
  <1>1. len + chunk - 1 \in Nat
    OBVIOUS
  <1>2. PICK n \in Nat : n = NumChunks(len, chunk)
    BY <1>1, Divide DEF NumChunks
  <1>3. chunk * n <= len + chunk - 1 /\ len + chunk - 1 < chunk * n + chunk
    BY <1>1, <1>2, Divide DEF NumChunks
  <1>4. PICK p \in Nat : p = chunk * n
    OBVIOUS
  <1>5. n = 0 => p = 0
    BY <1>4
  <1>6. n = 1 => p = chunk
    BY <1>4
  <1>7. chunk * (n - 1) = p - chunk
    BY <1>4, Distribute
  <1> QED
    BY <1>2, <1>3, <1>4, <1>5, <1>6, <1>7

LEMMA BehindTheFirst ==
  ASSUME NEW len \in Nat \ {0}, NEW chunk \in Nat \ {0}
  PROVE  /\ ChunksBehind(len, chunk) \in Nat
         /\ ChunksBehind(len, chunk) = NumChunks(len, chunk) - 1
  <1>1. PICK n : n = NumChunks(len, chunk)
    OBVIOUS
  <1>2. n \in Nat \ {0}
    BY <1>1, NumChunksBounds
  <1>3. n - 1 \in Nat
    BY <1>2
  <1> QED
    BY <1>1, <1>3 DEF ChunksBehind

LEMMA MinOfTwo ==
  ASSUME NEW x \in Nat \ {0}, NEW y \in Nat \ {0}
  PROVE  Min({x, y}) \in Nat \ {0}
  <1>1. \E m \in {x, y} : \A z \in {x, y} : m =< z
    OBVIOUS
  <1>2. Min({x, y}) \in {x, y}
    BY <1>1 DEF Min
  <1> QED
    BY <1>2

LEMMA MaxOfTwo ==
  ASSUME NEW x \in Nat
  PROVE  Max({x, 1}) \in Nat \ {0} /\ (x = 0 => Max({x, 1}) = 1)
  <1>1. \E m \in {x, 1} : \A z \in {x, 1} : m >= z
    OBVIOUS
  <1>2. Max({x, 1}) \in {x, 1} /\ \A z \in {x, 1} : Max({x, 1}) >= z
    BY <1>1 DEF Max
  <1> QED
    BY <1>2

LEMMA PeerInSides ==
  ASSUME NEW s \in Sides
  PROVE  Peer(s) \in Sides /\ Peer(s) # s
  <1>1. \E p \in Sides : p # s
    BY SidesAssumption
  <1> QED
    BY <1>1 DEF Peer

-----------------------------------------------------------------------------
(* The inductive invariant.  A message being split has bytes left for every *)
(* chunk that is still to come, and for one more: so none is empty.         *)

JobInv(s) ==
  LET j == job[s]
  IN /\ spc[s] # "idle" =>
          j.msg \in Nat \ {0} /\ j.len \in Nat \ {0} /\ j.chunk \in Chunks
     /\ spc[s] \in {"info", "ack", "chunk", "sent", "put", "flush"} =>
          j.off + j.chunk * j.left < j.len
     /\ spc[s] \in {"ack", "chunk", "put", "write"} => j.left > 0
     /\ spc[s] \in {"write", "written"} => (NumChunks(j.len, j.chunk) = 1 => j.left <= 1)

RxInv(s) ==
  /\ rpc[s] \in {"info", "ack", "chunks", "wimm"} => rx[s].buf > 0
  /\ rpc[s] \in {"ack", "chunks"} => rx[s].left > 0

SplitInv == \A s \in Sides : JobInv(s) /\ RxInv(s)

-----------------------------------------------------------------------------
(* Type correctness of what is posted.                                     *)

LEMMA UserPost ==
  ASSUME userWire \in [Sides -> Seq(UserItems)], NEW s \in Sides, NEW verb \in Verbs,
         NEW msg \in Nat \ {0}, NEW off \in Nat, NEW len \in Nat \ {0},
         PostOnUserQP(s, verb, msg, off, len)
  PROVE  userWire' \in [Sides -> Seq(UserItems)]
  <1>1. PICK item \in UserItems :
          item = [verb |-> verb, msg |-> msg, off |-> off, len |-> len]
    BY DEF UserItems
  <1>2. Append(userWire[s], item) \in Seq(UserItems)
    BY AppendProperties
  <1> QED
    BY <1>1, <1>2 DEF PostOnUserQP

LEMMA SplitPost ==
  ASSUME splitWire \in [Sides -> Seq(Items)], NEW s \in Sides, NEW item \in Items,
         PostOnSplitQP(s, item)
  PROVE  splitWire' \in [Sides -> Seq(Items)]
  <1>1. Append(splitWire[s], item) \in Seq(Items)
    BY AppendProperties
  <1> QED
    BY <1>1 DEF PostOnSplitQP

LEMMA Accepted ==
  ASSUME TypeOK, NEW s \in Sides, NEW verb \in Verbs, NEW len \in Lengths,
         Accept(s, verb, len)
  PROVE  /\ posted' \in [Sides -> Seq([verb : Verbs, len : Lengths])]
         /\ UNCHANGED <<turn, delivered, completed>>
         /\ Len(posted[s]) + 1 \in Nat \ {0}
         /\ len \in Nat \ {0}
  <1>1. posted \in [Sides -> Seq([verb : Verbs, len : Lengths])]
    BY DEF TypeOK
  <1>2. PICK item \in [verb : Verbs, len : Lengths] : item = [verb |-> verb, len |-> len]
    OBVIOUS
  <1>3. Append(posted[s], item) \in Seq([verb : Verbs, len : Lengths])
    BY <1>1, AppendProperties
  <1>4. PICK n \in Nat : n = Len(posted[s])
    BY <1>1, LenProperties
  <1>8. n + 1 \in Nat \ {0}
    OBVIOUS
  <1>9. Len(posted[s]) + 1 \in Nat \ {0}
    BY <1>4, <1>8, Zenon
  <1>5. posted' = [posted EXCEPT ![s] = Append(@, item)] /\ UNCHANGED <<turn, delivered, completed>>
    BY <1>2 DEF Accept
  <1>6. posted' \in [Sides -> Seq([verb : Verbs, len : Lengths])]
    BY <1>1, <1>3, <1>5
  <1>7. len \in Nat \ {0}
    BY SizesAssumption
  <1> QED
    BY <1>5, <1>6, <1>7, <1>9

(* A completion more, an entry less.                                        *)
LEMMA QueueTail ==
  ASSUME NEW T, NEW q \in [Sides -> Seq(T)], NEW s \in Sides, q[s] # <<>>
  PROVE  /\ [q EXCEPT ![s] = Tail(@)] \in [Sides -> Seq(T)]
         /\ Head(q[s]) \in T
  <1>1. Tail(q[s]) \in Seq(T) /\ Head(q[s]) \in T
    BY HeadTailProperties
  <1> QED
    BY <1>1

LEMMA QueueAppend ==
  ASSUME NEW T, NEW q \in [Sides -> Seq(T)], NEW s \in Sides, NEW x \in T
  PROVE  [q EXCEPT ![s] = Append(@, x)] \in [Sides -> Seq(T)]
  <1>1. Append(q[s], x) \in Seq(T)
    BY AppendProperties
  <1> QED
    BY <1>1

LEMMA QueueConcat ==
  ASSUME NEW T, NEW q \in [Sides -> Seq(T)], NEW s \in Sides, NEW x \in Seq(T)
  PROVE  [q EXCEPT ![s] = @ \o x] \in [Sides -> Seq(T)]
  <1>1. q[s] \o x \in Seq(T)
    BY ConcatProperties
  <1> QED
    BY <1>1

(* Every action leaves most variables alone.                                *)
EventsOK ==
  /\ events \in [Sides -> SUBSET Channels]
  /\ awake \in [Sides -> SUBSET {"sender", "receiver"}]

SpcOK == spc \in [Sides -> {"idle", "info", "ack", "chunk", "sent", "write",
                            "written", "put", "flush"}]

LEMMA TypePolled ==
  ASSUME TypeOK, NEW s \in Sides, NEW thread \in {"sender", "receiver"}, Polled(s, thread)
  PROVE  EventsOK'
  BY DEF TypeOK, EventsOK, Polled

LEMMA TypeWake ==
  ASSUME TypeOK, NEW s \in Sides, SenderWakes(s) \/ ReceiverWakes(s)
  PROVE  TypeOK'
  <1>1. PICK ch \in Channels, thread \in {"sender", "receiver"} : Wake(s, thread, ch)
    BY DEF SenderWakes, ReceiverWakes, SenderWaitsFor, ReceiverWaitsFor, Channels
  <1>2. EventsOK'
    BY <1>1 DEF TypeOK, EventsOK, Wake, Rearm
  <1> QED
    BY <1>1, <1>2 DEF EventsOK, TypeOK, Wake, appVars, sendVars, recvVars, ackVars

LEMMA TypeRaise ==
  ASSUME TypeOK, NEW raised \in [Sides -> SUBSET Channels], Raise(raised)
  PROVE  EventsOK'
  BY DEF TypeOK, EventsOK, Raise

-----------------------------------------------------------------------------
(* Type correctness of the steps of a sender.                              *)

LEMMA TypeWhole ==
  ASSUME TypeOK, NEW s \in Sides, NEW verb \in Verbs, NEW len \in Lengths, NEW chunk \in Chunks,
         PostWhole(s, verb, len, chunk)
  PROVE  TypeOK'
  <1>1. /\ posted' \in [Sides -> Seq([verb : Verbs, len : Lengths])]
        /\ UNCHANGED <<turn, delivered, completed>>
        /\ Len(posted[s]) + 1 \in Nat \ {0} /\ len \in Nat \ {0}
    BY Accepted DEF PostWhole
  <1>2. userWire \in [Sides -> Seq(UserItems)]
    BY DEF TypeOK
  <1>3. PostOnUserQP(s, verb, Len(posted[s]) + 1, 0, len)
    BY DEF PostWhole
  <1>4. userWire' \in [Sides -> Seq(UserItems)]
    BY <1>1, <1>2, <1>3, UserPost
  <1> QED
    BY <1>1, <1>4 DEF TypeOK, PostWhole, sendVars, recvVars, ackVars, evVars

(* What starts a split message.                                             *)
LEMMA TypeStart ==
  ASSUME TypeOK, NEW s \in Sides, NEW pc, NEW j \in Jobs,
         spc' = [spc EXCEPT ![s] = pc], job' = [job EXCEPT ![s] = j],
         pc \in {"idle", "info", "ack", "chunk", "sent", "write", "written", "put", "flush"}
  PROVE  /\ SpcOK'
         /\ job' \in [Sides -> Jobs]
  <1>1. SpcOK /\ job \in [Sides -> Jobs]
    BY DEF TypeOK, SpcOK
  <1> QED
    BY <1>1 DEF SpcOK

LEMMA NoJobType == NoJob \in Jobs
  BY DEF NoJob, Jobs

LEMMA JobFields ==
  ASSUME TypeOK, NEW s \in Sides
  PROVE  /\ job[s] \in Jobs
         /\ job[s].msg \in Nat /\ job[s].len \in Nat /\ job[s].chunk \in Nat
         /\ job[s].left \in Nat /\ job[s].off \in Nat
  BY DEF TypeOK, Jobs

LEMMA TypeSplit ==
  ASSUME TypeOK, NEW s \in Sides, NEW len \in Lengths, NEW chunk \in Chunks,
         PostSplit(s, len, chunk)
  PROVE  TypeOK'
  <1>1. /\ posted' \in [Sides -> Seq([verb : Verbs, len : Lengths])]
        /\ UNCHANGED <<turn, delivered, completed>>
        /\ Len(posted[s]) + 1 \in Nat \ {0} /\ len \in Nat \ {0}
    BY Accepted DEF PostSplit, Verbs
  <1>2. PICK msg \in Nat \ {0} : msg = Len(posted[s]) + 1
    BY <1>1
  <1>3. chunk \in Nat \ {0}
    BY SizesAssumption
  <1>4. PICK left \in Nat : left = ChunksBehind(len, chunk)
    BY <1>1, <1>3, BehindTheFirst
  <1>5. PICK first \in Nat \ {0} : first = Min({len, chunk})
    BY <1>1, <1>3, MinOfTwo
  <1>6. /\ PostOnUserQP(s, "SEND", msg, 0, first)
        /\ PostOnSplitQP(s, [kind |-> "info", chunks |-> left, size |-> chunk])
        /\ spc' = [spc EXCEPT ![s] = "info"]
        /\ job' = [job EXCEPT ![s] = [msg |-> msg, len |-> len, chunk |-> chunk,
                                      left |-> left, off |-> 0]]
    BY <1>2, <1>4, <1>5 DEF PostSplit
  <1>7. /\ userWire \in [Sides -> Seq(UserItems)] /\ splitWire \in [Sides -> Seq(Items)]
    BY DEF TypeOK
  <1>8. userWire' \in [Sides -> Seq(UserItems)]
    BY <1>6, <1>7, UserPost DEF Verbs
  <1>9. PICK item \in Items : item = [kind |-> "info", chunks |-> left, size |-> chunk]
    BY DEF Items
  <1>10. splitWire' \in [Sides -> Seq(Items)]
    BY <1>6, <1>7, <1>9, SplitPost
  <1>11. PICK j \in Jobs : j = [msg |-> msg, len |-> len, chunk |-> chunk,
                                left |-> left, off |-> 0]
    BY <1>1, <1>3 DEF Jobs
  <1>12. /\ SpcOK'
         /\ job' \in [Sides -> Jobs]
    BY <1>6, <1>11, TypeStart
  <1> QED
    BY <1>1, <1>8, <1>10, <1>12
    DEF TypeOK, SpcOK, PostSplit, recvVars, ackVars, evVars

LEMMA TypeWriteStart ==
  ASSUME TypeOK, NEW s \in Sides, NEW len \in Lengths, NEW chunk \in Chunks,
         StartWimm(s, len, chunk) \/ StartPut(s, len, chunk)
  PROVE  TypeOK'
  <1>0. PICK verb \in Verbs : Accept(s, verb, len)
    BY DEF StartWimm, StartPut, Verbs
  <1>1. /\ posted' \in [Sides -> Seq([verb : Verbs, len : Lengths])]
        /\ UNCHANGED <<turn, delivered, completed>>
        /\ Len(posted[s]) + 1 \in Nat \ {0} /\ len \in Nat \ {0}
    BY <1>0, Accepted
  <1>2. PICK msg \in Nat \ {0} : msg = Len(posted[s]) + 1
    BY <1>1
  <1>3. chunk \in Nat \ {0}
    BY SizesAssumption
  <1>4. /\ ChunksBehind(len, chunk) \in Nat
        /\ Max({NumChunks(len, chunk) - 1, 1}) \in Nat
    <2>1. PICK n \in Nat : n = NumChunks(len, chunk) - 1 /\ n = ChunksBehind(len, chunk)
      BY <1>1, <1>3, BehindTheFirst
    <2> QED
      BY <2>1, MaxOfTwo
  <1>5. PICK left \in Nat, pc \in {"write", "put"} :
          /\ spc' = [spc EXCEPT ![s] = pc]
          /\ job' = [job EXCEPT ![s] = [msg |-> msg, len |-> len, chunk |-> chunk,
                                        left |-> left, off |-> 0]]
    BY <1>2, <1>4 DEF StartWimm, StartPut
  <1>6. PICK j \in Jobs : j = [msg |-> msg, len |-> len, chunk |-> chunk,
                               left |-> left, off |-> 0]
    BY <1>1, <1>3 DEF Jobs
  <1>7. /\ SpcOK'
        /\ job' \in [Sides -> Jobs]
    BY <1>5, <1>6, TypeStart
  <1>8. UNCHANGED <<recvVars, userWire, userCq, splitWire, splitRR, fc, sendCq,
                    recvCq, ackVars, placed, evVars>>
    BY DEF StartWimm, StartPut
  <1> QED
    BY <1>1, <1>7, <1>8 DEF TypeOK, SpcOK, recvVars, ackVars, evVars

LEMMA TypeSenderPoll ==
  ASSUME TypeOK, NEW s \in Sides, PollInfoSent(s) \/ PollAck(s) \/ PollChunkSent(s)
  PROVE  TypeOK'
  <1>0. Polled(s, "sender")
    BY DEF PollInfoSent, PollAck, PollChunkSent
  <1>1. EventsOK'
    BY <1>0, TypePolled
  <1>2. sendCq' \in [Sides -> Nat] /\ cq2' \in [Sides -> Nat]
    <2>1. sendCq \in [Sides -> Nat] /\ cq2 \in [Sides -> Nat]
      BY DEF TypeOK
    <2>2. \/ sendCq[s] > 0 /\ sendCq' = [sendCq EXCEPT ![s] = @ - 1] /\ cq2' = cq2
          \/ cq2[s] > 0 /\ cq2' = [cq2 EXCEPT ![s] = @ - 1] /\ sendCq' = sendCq
      BY DEF PollInfoSent, PollAck, PollChunkSent
    <2> QED
      BY <2>1, <2>2
  <1>3. /\ SpcOK'
        /\ job' \in [Sides -> Jobs] /\ ackRR' \in [Sides -> Nat]
    <2>1. /\ SpcOK
          /\ job \in [Sides -> Jobs] /\ ackRR \in [Sides -> Nat]
      BY DEF TypeOK, SpcOK
    <2>2. CASE Return(s)
      BY <2>1, <2>2, NoJobType DEF Return, RearmAck, SpcOK
    <2>3. ASSUME NEW pc \in {"ack", "chunk"}, spc' = [spc EXCEPT ![s] = pc],
                 UNCHANGED <<job, ackRR>>
          PROVE  SpcOK' /\ job' \in [Sides -> Jobs] /\ ackRR' \in [Sides -> Nat]
      BY <2>1, <2>3 DEF SpcOK
    <2> QED
      BY <2>2, <2>3 DEF PollInfoSent, PollAck, PollChunkSent
  <1>4. UNCHANGED <<appVars, recvVars, userWire, userCq, splitWire, splitRR, fc,
                    recvCq, ackWire, placed>>
    BY DEF PollInfoSent, PollAck, PollChunkSent
  <1> QED
    BY <1>1, <1>2, <1>3, <1>4 DEF TypeOK, SpcOK, EventsOK, appVars, recvVars

(* The next chunk has a length, and the rest of the message too.            *)
LEMMA NextChunk ==
  ASSUME NEW len \in Nat, NEW chunk \in Nat \ {0}, NEW left \in Nat \ {0}, NEW off \in Nat,
         off + chunk * left < len
  PROVE  /\ (off + chunk) + chunk * (left - 1) < len
         /\ off + chunk < len \/ left > 1
         /\ left = 1 => len - (off + chunk) \in Nat \ {0}
  <1>1. PICK p \in Nat : p = chunk * left
    OBVIOUS
  <1>2. chunk * (left - 1) = p - chunk
    BY <1>1, Distribute
  <1>3. left = 1 => p = chunk
    BY <1>1
  <1> QED
    BY <1>1, <1>2, <1>3

LEMMA TypeChunk ==
  ASSUME TypeOK, NEW s \in Sides, JobInv(s), PostChunk(s) \/ PostPut(s)
  PROVE  TypeOK'
  <1>1. /\ job[s].msg \in Nat \ {0} /\ job[s].len \in Nat \ {0} /\ job[s].chunk \in Nat \ {0}
        /\ job[s].left \in Nat \ {0} /\ job[s].off \in Nat
        /\ job[s].off + job[s].chunk * job[s].left < job[s].len
    BY JobFields, SizesAssumption DEF JobInv, PostChunk, PostPut
  <1>2. PICK off \in Nat : off = job[s].off + job[s].chunk
    BY <1>1
  <1>3. job[s].left = 1 => job[s].len - off \in Nat \ {0}
    BY <1>1, <1>2, NextChunk
  <1>4. PICK len \in Nat \ {0} :
          len = IF job[s].left = 1 THEN job[s].len - off ELSE job[s].chunk
    BY <1>1, <1>3
  <1>5. PICK item \in Items : PostOnSplitQP(s, item)
    <2>1. CASE PostChunk(s)
      <3>1. PICK item \in Items :
              item = [kind |-> "chunk", msg |-> job[s].msg, off |-> off, len |-> len]
        BY <1>1 DEF Items
      <3>2. PostOnSplitQP(s, [kind |-> "chunk", msg |-> job[s].msg, off |-> off, len |-> len])
        BY <1>2, <1>4, <2>1 DEF PostChunk
      <3> QED
        BY <3>1, <3>2
    <2>2. CASE PostPut(s)
      <3>0. PICK b \in BOOLEAN : b = Signaled(job[s])
        BY DEF Signaled
      <3>1. PICK item \in Items :
              item = [kind |-> "write", msg |-> job[s].msg, off |-> job[s].off,
                      len |-> job[s].chunk, signaled |-> b]
        BY <1>1 DEF Items
      <3> QED
        BY <2>2, <3>0, <3>1 DEF PostPut
    <2> QED
      BY <2>1, <2>2
  <1>6. splitWire' \in [Sides -> Seq(Items)]
    <2>1. splitWire \in [Sides -> Seq(Items)]
      BY DEF TypeOK
    <2> QED
      BY <1>5, <2>1, SplitPost
  <1>7. PICK left \in Nat : left = job[s].left - 1
    BY <1>1
  <1>8. job' = [job EXCEPT ![s].off = off, ![s].left = left]
    <2>1. CASE PostChunk(s)
      BY <1>2, <1>7, <2>1 DEF PostChunk
    <2>2. CASE PostPut(s)
      BY <1>2, <1>7, <2>2 DEF PostPut
    <2> QED
      BY <2>1, <2>2
  <1>9. job' \in [Sides -> Jobs]
    <2>1. job \in [Sides -> Jobs]
      BY DEF TypeOK
    <2>2. [job[s] EXCEPT !.off = off, !.left = left] \in Jobs
      BY <2>1 DEF Jobs
    <2> QED
      BY <1>8, <2>1, <2>2
  <1>10. SpcOK'
    <2>1. SpcOK
      BY DEF TypeOK, SpcOK
    <2>2. PICK pc \in {"sent", "flush", "put"} : spc' = [spc EXCEPT ![s] = pc]
      BY DEF PostChunk, PostPut
    <2> QED
      BY <2>1, <2>2 DEF SpcOK
  <1>11. UNCHANGED <<appVars, recvVars, userWire, userCq, splitRR, fc, sendCq,
                     recvCq, ackVars, placed, evVars>>
    BY DEF PostChunk, PostPut
  <1> QED
    BY <1>6, <1>9, <1>10, <1>11 DEF TypeOK, SpcOK, appVars, recvVars, ackVars, evVars

LEMMA FirstLast ==
  ASSUME NEW len \in Nat \ {0}, NEW chunk \in Nat \ {0}
  PROVE  FirstLength(len, chunk) \in Nat \ {0} /\ LastLength(len, chunk) \in Nat \ {0}
  BY Modulo DEF FirstLength, LastLength

LEMMA TypeWrite ==
  ASSUME TypeOK, NEW s \in Sides, JobInv(s), PostWrite(s)
  PROVE  TypeOK'
  <1>1. /\ job[s].msg \in Nat \ {0} /\ job[s].len \in Nat \ {0} /\ job[s].chunk \in Nat \ {0}
        /\ job[s].left \in Nat \ {0} /\ job[s].off \in Nat
        /\ NumChunks(job[s].len, job[s].chunk) = 1 => job[s].left <= 1
    BY JobFields, SizesAssumption DEF JobInv, PostWrite
  <1>0. FirstLength(job[s].len, job[s].chunk) \in Nat \ {0}
    BY <1>1, FirstLast
  <1>2. PICK len \in Nat : len = NextLength(job[s])
    BY <1>1, <1>0 DEF NextLength
  <1>3. len = 0 => job[s].left = 1
    BY <1>0, <1>1, <1>2 DEF NextLength
  <1>4. PICK item \in Items : PostOnSplitQP(s, item)
    <2>1. PostOnSplitQP(s, [kind |-> IF job[s].left = 1 THEN "wimm" ELSE "write",
                            msg |-> job[s].msg, off |-> job[s].off, len |-> len,
                            signaled |-> TRUE])
      BY <1>2 DEF PostWrite
    <2>2. CASE job[s].left = 1
      <3>1. PICK item \in Items :
              item = [kind |-> "wimm", msg |-> job[s].msg, off |-> job[s].off,
                      len |-> len, signaled |-> TRUE]
        BY <1>1 DEF Items
      <3> QED
        BY <2>1, <2>2, <3>1
    <2>3. CASE job[s].left # 1
      <3>1. PICK item \in Items :
              item = [kind |-> "write", msg |-> job[s].msg, off |-> job[s].off,
                      len |-> len, signaled |-> TRUE]
        BY <1>1, <1>3, <2>3 DEF Items
      <3> QED
        BY <2>1, <2>3, <3>1
    <2> QED
      BY <2>2, <2>3
  <1>5. splitWire' \in [Sides -> Seq(Items)]
    <2>1. splitWire \in [Sides -> Seq(Items)]
      BY DEF TypeOK
    <2> QED
      BY <1>4, <2>1, SplitPost
  <1>6. PICK left \in Nat, off \in Nat : left = job[s].left - 1 /\ off = job[s].off + len
    BY <1>1
  <1>7. job' = [job EXCEPT ![s].off = off, ![s].left = left]
    BY <1>2, <1>6 DEF PostWrite
  <1>8. job' \in [Sides -> Jobs]
    <2>1. job \in [Sides -> Jobs]
      BY DEF TypeOK
    <2>2. [job[s] EXCEPT !.off = off, !.left = left] \in Jobs
      BY <2>1 DEF Jobs
    <2> QED
      BY <1>7, <2>1, <2>2
  <1>9. SpcOK'
    BY DEF TypeOK, SpcOK, PostWrite
  <1> QED
    BY <1>5, <1>8, <1>9 DEF TypeOK, SpcOK, PostWrite, appVars, recvVars, ackVars, evVars

LEMMA TypeLast ==
  ASSUME TypeOK, NEW s \in Sides, JobInv(s), PollWritten(s) \/ PollPut(s)
  PROVE  TypeOK'
  <1>1. /\ job[s].msg \in Nat \ {0} /\ job[s].len \in Nat \ {0} /\ job[s].chunk \in Nat \ {0}
        /\ job[s].left \in Nat /\ job[s].off \in Nat
    BY JobFields, SizesAssumption DEF JobInv, PollWritten, PollPut
  <1>2. Polled(s, "sender")
    BY DEF PollWritten, PollPut
  <1>3. EventsOK'
    BY <1>2, TypePolled
  <1>4. sendCq' \in [Sides -> Nat]
    <2>1. sendCq \in [Sides -> Nat]
      BY DEF TypeOK
    <2>2. sendCq[s] > 0 /\ sendCq' = [sendCq EXCEPT ![s] = @ - 1]
      BY DEF PollWritten, PollPut
    <2> QED
      BY <2>1, <2>2
  <1>5. ASSUME NEW verb \in Verbs, NEW len \in Nat \ {0}, PostLast(s, verb, len)
        PROVE  SpcOK' /\ job' \in [Sides -> Jobs] /\ userWire' \in [Sides -> Seq(UserItems)]
    <2>1. userWire \in [Sides -> Seq(UserItems)]
      BY DEF TypeOK
    <2>2. userWire' \in [Sides -> Seq(UserItems)]
      BY <1>1, <1>5, <2>1, UserPost DEF PostLast
    <2> QED
      BY <1>5, <2>2, NoJobType, TypeStart DEF PostLast
  <1>6. SpcOK' /\ job' \in [Sides -> Jobs] /\ userWire' \in [Sides -> Seq(UserItems)]
    <2>1. CASE PollPut(s)
      <3>1. PICK p \in Nat : p = job[s].chunk * job[s].left
        BY <1>1
      <3>2. job[s].off + p < job[s].len
        BY <2>1, <3>1 DEF JobInv, PollPut
      <3>3. job[s].len - job[s].off \in Nat \ {0}
        BY <1>1, <3>2
      <3> QED
        BY <1>5, <2>1, <3>3 DEF PollPut, Verbs
    <2>2. CASE PollWritten(s)
      <3>1. LastLength(job[s].len, job[s].chunk) \in Nat \ {0}
        BY <1>1, FirstLast
      <3>2. CASE job[s].left = 0
        BY <1>5, <2>2, <3>1, <3>2 DEF PollWritten, Verbs
      <3>3. CASE job[s].left # 0
        BY <2>2, <3>3 DEF PollWritten, TypeOK, SpcOK
      <3> QED
        BY <3>2, <3>3
    <2> QED
      BY <2>1, <2>2
  <1>7. UNCHANGED <<appVars, recvVars, userCq, splitWire, splitRR, fc, recvCq, ackVars, placed>>
    BY DEF PollWritten, PollPut
  <1> QED
    BY <1>3, <1>4, <1>6, <1>7 DEF TypeOK, SpcOK, EventsOK, appVars, recvVars, ackVars

-----------------------------------------------------------------------------
(* Type correctness of what the queue pairs do.                            *)

LEMMA TypeLandUser ==
  ASSUME TypeOK, NEW s \in Sides, LandUser(s)
  PROVE  TypeOK'
  <1>1. Peer(s) \in Sides
    BY PeerInSides
  <1>2. /\ userWire \in [Sides -> Seq(UserItems)] /\ userCq \in [Sides -> Seq(UserItems)]
        /\ completed \in [Sides -> SUBSET (Nat \ {0})]
    BY DEF TypeOK
  <1>3. userWire' \in [Sides -> Seq(UserItems)] /\ Head(userWire[s]) \in UserItems
    BY <1>2, QueueTail DEF LandUser
  <1>4. PICK item \in UserItems : item = Head(userWire[s])
    BY <1>3
  <1>5. userCq' \in [Sides -> Seq(UserItems)]
    <2>1. PICK r \in Sides : r = Peer(s)
      BY <1>1
    <2>2. [userCq EXCEPT ![r] = Append(@, item)] \in [Sides -> Seq(UserItems)]
      BY <1>2, QueueAppend
    <2> QED
      BY <1>2, <1>4, <2>1, <2>2 DEF LandUser
  <1>6. completed' \in [Sides -> SUBSET (Nat \ {0})]
    <2>1. item.msg \in Nat \ {0}
      BY DEF UserItems
    <2> QED
      BY <1>2, <1>4, <2>1 DEF LandUser
  <1> QED
    BY <1>3, <1>5, <1>6 DEF TypeOK, LandUser, sendVars, recvVars, ackVars, evVars

(* What a landing on split_qp[0] does to the completion queues.             *)
LandingOK ==
  /\ splitRR \in [Sides -> Seq(Requests)] /\ recvCq \in [Sides -> Seq(Nat)]
  /\ sendCq \in [Sides -> Nat] /\ EventsOK

LEMMA TypeUseRequest ==
  ASSUME TypeOK, NEW s \in Sides, NEW len \in Nat, UseRequest(s, len)
  PROVE  LandingOK'
  <1>1. Peer(s) \in Sides
    BY PeerInSides
  <1>2. /\ splitRR \in [Sides -> Seq(Requests)] /\ recvCq \in [Sides -> Seq(Nat)]
        /\ sendCq \in [Sides -> Nat]
    BY DEF TypeOK
  <1>3. splitRR' \in [Sides -> Seq(Requests)]
    BY <1>1, <1>2, QueueTail DEF UseRequest
  <1>4. recvCq' \in [Sides -> Seq(Nat)]
    BY <1>1, <1>2, QueueAppend DEF UseRequest
  <1>5. sendCq' \in [Sides -> Nat]
    BY <1>2 DEF UseRequest
  <1>6. EventsOK'
    <2>1. PICK raised \in [Sides -> SUBSET Channels] : Raise(raised)
      BY DEF UseRequest, Channels
    <2> QED
      BY <2>1, TypeRaise
  <1> QED
    BY <1>3, <1>4, <1>5, <1>6 DEF LandingOK

LEMMA TypeLandSplit ==
  ASSUME TypeOK, NEW s \in Sides, LandOnSplit(s)
  PROVE  TypeOK'
  <1>1. Peer(s) \in Sides
    BY PeerInSides
  <1>2. splitWire[s] # <<>> /\ splitWire' = [splitWire EXCEPT ![s] = Tail(@)]
        /\ UNCHANGED <<appVars, sendVars, recvVars, userWire, userCq, ackVars>>
    BY DEF LandOnSplit, LandSplitSend, LandSplitWrite, LandSplit
  <1>3. splitWire \in [Sides -> Seq(Items)]
    BY DEF TypeOK
  <1>4. splitWire' \in [Sides -> Seq(Items)] /\ Head(splitWire[s]) \in Items
    BY <1>2, <1>3, QueueTail
  <1>5. PICK item \in Items : item = Head(splitWire[s])
    BY <1>4
  <1>6. fc' \in [Sides -> Items \cup {None}]
    BY <1>1, <1>5 DEF TypeOK, LandOnSplit, LandSplitSend, LandSplitWrite
  <1>7. LandingOK'
    <2>1. CASE LandSplitSend(s)
      <3>1. (IF item.kind = "chunk" THEN item.len ELSE 0) \in Nat
        BY DEF Items
      <3> QED
        BY <1>5, <2>1, <3>1, TypeUseRequest DEF LandSplitSend
    <2>2. CASE item.kind = "wimm" /\ UseRequest(s, item.len)
      <3>1. item.len \in Nat
        BY <2>2 DEF Items
      <3> QED
        BY <2>2, <3>1, TypeUseRequest
    <2>3. ASSUME sendCq' = [sendCq EXCEPT ![s] = @ + 1],
                 Raise([p \in Sides |-> IF p = s THEN {"send"} ELSE {}]),
                 UNCHANGED <<splitRR, recvCq>>
          PROVE  LandingOK'
      <3>1. EventsOK'
        <4>1. PICK raised \in [Sides -> SUBSET Channels] : Raise(raised)
          BY <2>3 DEF Channels
        <4> QED
          BY <4>1, TypeRaise
      <3>2. sendCq' \in [Sides -> Nat]
        <4>1. sendCq \in [Sides -> Nat]
          BY DEF TypeOK
        <4> QED
          BY <2>3, <4>1
      <3> QED
        BY <2>3, <3>1, <3>2 DEF LandingOK, TypeOK
    <2>4. CASE UNCHANGED <<sendCq, splitRR, recvCq, evVars>>
      BY <2>4 DEF TypeOK, LandingOK, EventsOK, evVars
    <2> QED
      BY <1>5, <2>1, <2>2, <2>3, <2>4 DEF LandOnSplit, LandSplitWrite
  <1> QED
    BY <1>2, <1>4, <1>6, <1>7
    DEF TypeOK, LandingOK, EventsOK, appVars, sendVars, recvVars, ackVars

LEMMA TypeLandAck ==
  ASSUME TypeOK, NEW s \in Sides, LandAck(s)
  PROVE  TypeOK'
  <1>1. Peer(s) \in Sides
    BY PeerInSides
  <1>2. /\ ackWire \in [Sides -> Nat] /\ ackRR \in [Sides -> Nat] /\ cq2 \in [Sides -> Nat]
    BY DEF TypeOK
  <1>3. /\ ackWire[s] > 0 /\ ackRR[Peer(s)] > 0
        /\ ackWire' = [ackWire EXCEPT ![s] = @ - 1]
        /\ ackRR' = [ackRR EXCEPT ![Peer(s)] = @ - 1]
        /\ cq2' = [cq2 EXCEPT ![Peer(s)] = @ + 1, ![s] = @ + 1]
    BY DEF LandAck
  <1>4. ackWire' \in [Sides -> Nat] /\ ackRR' \in [Sides -> Nat]
    BY <1>1, <1>2, <1>3
  <1>5. cq2' \in [Sides -> Nat]
    BY <1>1, <1>2, <1>3
  <1>6. EventsOK'
    <2>1. PICK raised \in [Sides -> SUBSET Channels] : Raise(raised)
      BY DEF LandAck, Channels
    <2> QED
      BY <2>1, TypeRaise
  <1> QED
    BY <1>4, <1>5, <1>6 DEF TypeOK, EventsOK, LandAck, appVars, sendVars, recvVars

-----------------------------------------------------------------------------
(* Type correctness of the steps of a receiver.                            *)

LEMMA MinBelow ==
  ASSUME NEW x \in Nat, NEW y \in Nat
  PROVE  Min({x, y}) \in Nat /\ Min({x, y}) <= x /\ Min({x, y}) <= y
  <1>1. \E m \in {x, y} : \A z \in {x, y} : m =< z
    OBVIOUS
  <1>2. Min({x, y}) \in {x, y} /\ \A z \in {x, y} : Min({x, y}) =< z
    BY <1>1 DEF Min
  <1> QED
    BY <1>2

LEMMA FunctionIsSeq ==
  ASSUME NEW T, NEW n \in Nat, NEW f \in [1..n -> T]
  PROVE  f \in Seq(T)
  <1>1. Seq(T) = UNION {[1..m -> T] : m \in Nat}
    BY SeqDef
  <1>2. f \in UNION {[1..m -> T] : m \in Nat}
    OBVIOUS
  <1> QED
    BY <1>1, <1>2

LEMMA WcType ==
  ASSUME NEW q \in Seq(UserItems)
  PROVE  Wc(q) \in Completions
  <1>1. Len(q) \in Nat /\ DOMAIN q = 1..Len(q) /\ \A i \in 1..Len(q) : q[i] \in UserItems
    BY LenProperties, ElementOfSeq
  <1>2. \A i \in 1..Len(q) : [msg |-> q[i].msg, len |-> q[i].len] \in [msg : Nat \ {0}, len : Nat]
    BY <1>1 DEF UserItems
  <1>3. Wc(q) \in [1..Len(q) -> [msg : Nat \ {0}, len : Nat]]
    BY <1>1, <1>2 DEF Wc
  <1> QED
    <2>1. PICK n \in Nat : n = Len(q)
      BY <1>1
    <2>2. PICK w \in [1..n -> [msg : Nat \ {0}, len : Nat]] : w = Wc(q)
      BY <1>3, <2>1
    <2>4. w \in Seq([msg : Nat \ {0}, len : Nat])
      BY FunctionIsSeq
    <2> QED
      BY <2>2, <2>4 DEF Completions

LEMMA TypeHandOut ==
  ASSUME TypeOK, NEW s \in Sides, NEW wc \in Completions, HandOut(s, wc)
  PROVE  delivered' \in [Sides -> Completions] /\ UNCHANGED <<turn, posted, completed>>
  <1>1. delivered \in [Sides -> Seq([msg : Nat \ {0}, len : Nat])]
    BY DEF TypeOK, Completions
  <1>2. [delivered EXCEPT ![s] = @ \o wc] \in [Sides -> Seq([msg : Nat \ {0}, len : Nat])]
    BY <1>1, QueueConcat DEF Completions
  <1> QED
    BY <1>2 DEF HandOut, Completions

RpcOK == rpc \in [Sides -> {"idle", "info", "ack", "chunks", "wimm", "failed"}]

LEMMA RxFields ==
  ASSUME TypeOK, NEW s \in Sides
  PROVE  /\ rx \in [Sides -> Receptions] /\ rx[s] \in Receptions /\ RpcOK
         /\ rx[s].batch \in Completions /\ rx[s].buf \in Nat
         /\ rx[s].left \in Nat /\ rx[s].total \in Nat
         /\ NoRx \in Receptions
  <1>1. rx \in [Sides -> Receptions] /\ RpcOK
    BY DEF TypeOK, RpcOK
  <1>2. <<>> \in Completions
    BY EmptySeq DEF Completions
  <1> QED
    BY <1>1, <1>2 DEF Receptions, NoRx

LEMMA TotalType ==
  ASSUME NEW q \in Completions, NEW total \in Nat
  PROVE  [q EXCEPT ![1].len = total] \in Completions
  <1>1. PICK b \in Seq([msg : Nat \ {0}, len : Nat]) : b = q
    BY DEF Completions
  <1>2. CASE 1 \in 1..Len(b)
    <2>1. b[1] \in [msg : Nat \ {0}, len : Nat]
      BY <1>2, ElementOfSeq
    <2>2. [b[1] EXCEPT !.len = total] \in [msg : Nat \ {0}, len : Nat]
      BY <2>1
    <2>3. [b EXCEPT ![1] = [b[1] EXCEPT !.len = total]] \in Seq([msg : Nat \ {0}, len : Nat])
      BY <1>2, <2>2, ExceptSeq
    <2> QED
      BY <1>1, <2>3 DEF Completions
  <1>3. CASE 1 \notin 1..Len(b)
    <2>1. b \in [1..Len(b) -> [msg : Nat \ {0}, len : Nat]] /\ DOMAIN b = 1..Len(b)
      BY LenProperties
    <2>2. [b EXCEPT ![1].len = total] = b
      BY <1>3, <2>1
    <2> QED
      BY <1>1, <2>2 DEF Completions
  <1> QED
    BY <1>2, <1>3

LEMMA TypeFinish ==
  ASSUME TypeOK, NEW s \in Sides, NEW total \in Nat, Finish(s, total)
  PROVE  /\ delivered' \in [Sides -> Completions] /\ UNCHANGED <<turn, posted, completed>>
         /\ RpcOK' /\ rx' \in [Sides -> Receptions]
  <1>1. rx[s].batch \in Completions
    BY RxFields
  <1>2. [rx[s].batch EXCEPT ![1].len = total] \in Completions
    BY <1>1, TotalType
  <1>3. delivered' \in [Sides -> Completions] /\ UNCHANGED <<turn, posted, completed>>
    BY <1>2, TypeHandOut DEF Finish
  <1>4. RpcOK' /\ rx' \in [Sides -> Receptions]
    BY RxFields DEF Finish, RpcOK
  <1> QED
    BY <1>3, <1>4

(* What is taken from the user's completion queue.                          *)
LEMMA Batches ==
  ASSUME TypeOK, NEW s \in Sides, NEW k \in 1..Batch, Taken(s, k)
  PROVE  /\ SubSeq(userCq[s], 1, k) \in Seq(UserItems)
         /\ SubSeq(userCq[s], 1, k)[k] \in UserItems
         /\ SubSeq(userCq[s], 1, k)[1] \in UserItems
         /\ SubSeq(userCq[s], k + 1, Len(userCq[s])) \in Seq(UserItems)
  <1>1. userCq[s] \in Seq(UserItems) /\ Batch \in Nat
    BY BoundsAssumption DEF TypeOK
  <1>2. PICK n \in Nat : n = Len(userCq[s])
    BY <1>1, LenProperties
  <1>3. k \in 1..n
    BY <1>1, <1>2, MinBelow DEF Taken
  <1>4. \A i \in 1..n : userCq[s][i] \in UserItems
    BY <1>1, <1>2, ElementOfSeq
  <1>5. \A i \in 1..k : userCq[s][i] \in UserItems
    BY <1>3, <1>4
  <1>6. /\ SubSeq(userCq[s], 1, k) \in Seq(UserItems)
        /\ \A i \in 1..k-1+1 : SubSeq(userCq[s], 1, k)[i] = userCq[s][1+i-1]
    BY <1>5, SubSeqProperties
  <1>7. \A i \in (k+1)..n : userCq[s][i] \in UserItems
    BY <1>3, <1>4
  <1>8. SubSeq(userCq[s], k + 1, n) \in Seq(UserItems)
    <2>1. PICK m \in Int : m = k + 1
      OBVIOUS
    <2>2. SubSeq(userCq[s], m, n) \in Seq(UserItems)
      BY <1>7, <2>1, SubSeqProperties
    <2> QED
      BY <2>1, <2>2
  <1>9. \A i \in 1..k : SubSeq(userCq[s], 1, k)[i] \in UserItems
    BY <1>3, <1>5, <1>6
  <1> QED
    BY <1>2, <1>3, <1>6, <1>8, <1>9

LEMMA RequestTypes ==
  ASSUME NEW buf \in Nat \ {0}, NEW size \in Chunks, NEW n \in Nat
  PROVE  /\ InfoRequest \in Requests
         /\ ReceiveRequests(buf, size, n) \in Seq(Requests)
  <1>1. InfoRequest \in Requests
    BY DEF Requests
  <1>2. \A i \in 1..n : ChunkRequest(buf, size, i) \in Requests
    <2>1. TAKE i \in 1..n
    <2>2. size * i \in Nat \ {0}
      BY SizesAssumption, Positive
    <2> QED
      BY <2>2 DEF ChunkRequest, Requests
  <1>3. [i \in 1..n |-> ChunkRequest(buf, size, i)] \in Seq(Requests)
    <2>1. PICK f \in [1..n -> Requests] : f = [i \in 1..n |-> ChunkRequest(buf, size, i)]
      BY <1>2
    <2> QED
      BY <2>1, FunctionIsSeq
  <1>4. <<InfoRequest>> \in Seq(Requests)
    <2>1. PICK r \in Requests : r = InfoRequest
      BY <1>1
    <2>2. <<r>> \in Seq(Requests)
      OBVIOUS
    <2> QED
      BY <2>1, <2>2
  <1>5. ReceiveRequests(buf, size, n) \in Seq(Requests)
    BY <1>3, <1>4, ConcatProperties DEF ReceiveRequests
  <1> QED
    BY <1>1, <1>5

(* The message a receiver begins to put together.                           *)
LEMMA TypePollUser ==
  ASSUME TypeOK, NEW s \in Sides, NEW k \in 1..Batch, PollUser(s, k)
  PROVE  TypeOK' /\ (RxInv(s) => RxInv(s)')
  <1>1. PICK batch \in Seq(UserItems) : batch = SubSeq(userCq[s], 1, k)
    BY Batches DEF PollUser
  <1>2. /\ batch[k] \in UserItems /\ batch[1] \in UserItems
        /\ SubSeq(userCq[s], k + 1, Len(userCq[s])) \in Seq(UserItems)
    BY <1>1, Batches DEF PollUser
  <1>3. userCq' \in [Sides -> Seq(UserItems)]
    <2>1. PICK rest \in Seq(UserItems) : rest = SubSeq(userCq[s], k + 1, Len(userCq[s]))
      BY <1>2
    <2>2. userCq' = [userCq EXCEPT ![s] = rest]
      BY <2>1 DEF PollUser
    <2>3. userCq \in [Sides -> Seq(UserItems)]
      BY DEF TypeOK
    <2> QED
      BY <2>2, <2>3
  <1>4. PICK wc \in Completions : wc = Wc(batch)
    BY WcType
  <1>5. rx \in [Sides -> Receptions] /\ RpcOK
    BY RxFields
  <1>6. CASE SeenAsSplit(batch[k].len)
    <2>1. PICK r \in Receptions : r = [batch |-> wc, buf |-> batch[k].msg, left |-> 0,
                                       total |-> batch[1].len]
      BY <1>2 DEF Receptions, UserItems
    <2>2. rx' = [rx EXCEPT ![s] = r] /\ UNCHANGED appVars
      BY <1>1, <1>4, <1>6, <2>1 DEF PollUser
    <2>3. PICK pc \in {"wimm", "info"} : rpc' = [rpc EXCEPT ![s] = pc]
      BY <1>1, <1>6 DEF PollUser, ExpectWimm
    <2>4. splitRR' \in [Sides -> Seq(Requests)]
      <3>1. splitRR \in [Sides -> Seq(Requests)]
        BY DEF TypeOK
      <3>2. PICK r0 \in Requests : r0 = InfoRequest
        BY DEF Requests
      <3>3. [splitRR EXCEPT ![s] = Append(@, r0)] \in [Sides -> Seq(Requests)]
        BY <3>1, QueueAppend
      <3> QED
        BY <1>1, <1>6, <3>1, <3>2, <3>3 DEF PollUser, ExpectWimm
    <2>5. rx' \in [Sides -> Receptions] /\ rx'[s] = r /\ RpcOK' /\ rpc'[s] = pc
      BY <1>5, <2>2, <2>3 DEF RpcOK
    <2>6. RxInv(s)'
      BY <1>2, <2>1, <2>5 DEF RxInv, UserItems
    <2>7. TypeOK'
      BY <1>3, <2>2, <2>4, <2>5
      DEF TypeOK, RpcOK, PollUser, appVars, sendVars, ackVars, evVars
    <2> QED
      BY <2>6, <2>7
  <1>7. CASE ~SeenAsSplit(batch[k].len)
    <2>1. HandOut(s, wc) /\ UNCHANGED <<recvVars, splitRR>>
      BY <1>1, <1>4, <1>7 DEF PollUser
    <2>2. delivered' \in [Sides -> Completions] /\ UNCHANGED <<turn, posted, completed>>
      BY <2>1, TypeHandOut
    <2>3. TypeOK'
      BY <1>3, <2>1, <2>2 DEF TypeOK, PollUser, sendVars, recvVars, ackVars, evVars
    <2> QED
      BY <2>1, <2>3 DEF RxInv, recvVars
  <1> QED
    BY <1>6, <1>7

LEMMA TypePollInfo ==
  ASSUME TypeOK, NEW s \in Sides, RxInv(s), PollInfo(s)
  PROVE  TypeOK' /\ RxInv(s)'
  <1>1. /\ Polled(s, "receiver") /\ rpc[s] = "info"
        /\ recvCq[s] # <<>> /\ recvCq' = [recvCq EXCEPT ![s] = Tail(@)]
        /\ UNCHANGED <<sendVars, userWire, userCq, splitWire, fc, sendCq, ackRR, cq2, placed>>
    BY DEF PollInfo
  <1>2. EventsOK'
    BY <1>1, TypePolled
  <1>3. recvCq' \in [Sides -> Seq(Nat)]
    <2>1. recvCq \in [Sides -> Seq(Nat)]
      BY DEF TypeOK
    <2> QED
      BY <1>1, <2>1, QueueTail
  <1>4. CASE fc[s] # None /\ fc[s].kind = "info"
    <2>1. fc[s].chunks \in Nat /\ fc[s].size \in Chunks
      BY <1>4 DEF TypeOK, Items
    <2>2. rx[s].buf \in Nat \ {0} /\ rx[s].total \in Nat
      BY <1>1, RxFields DEF RxInv
    <2>3. splitRR' \in [Sides -> Seq(Requests)]
      <3>1. PICK rr \in Seq(Requests) :
              rr = ReceiveRequests(rx[s].buf, fc[s].size, fc[s].chunks)
        BY <2>1, <2>2, RequestTypes
      <3>2. splitRR \in [Sides -> Seq(Requests)]
        BY DEF TypeOK
      <3>3. [splitRR EXCEPT ![s] = @ \o rr] \in [Sides -> Seq(Requests)]
        BY <3>2, QueueConcat
      <3> QED
        BY <1>4, <3>1, <3>3 DEF PollInfo, Answer
    <2>4. CASE fc[s].chunks = 0
      <3>1. Finish(s, rx[s].total) /\ UNCHANGED ackWire
        BY <1>4, <2>4 DEF PollInfo, Answer
      <3>2. /\ delivered' \in [Sides -> Completions] /\ UNCHANGED <<turn, posted, completed>>
            /\ RpcOK' /\ rx' \in [Sides -> Receptions]
        BY <2>2, <3>1, TypeFinish
      <3>3. rpc'[s] = "idle"
        BY <3>1, RxFields DEF Finish, RpcOK
      <3>4. TypeOK'
        BY <1>1, <1>2, <1>3, <2>3, <3>1, <3>2 DEF TypeOK, RpcOK, EventsOK, sendVars
      <3> QED
        BY <3>3, <3>4 DEF RxInv
    <2>5. CASE fc[s].chunks # 0
      <3>1. PICK n \in Nat \ {0} : n = fc[s].chunks
        BY <2>1, <2>5
      <3>2. /\ ackWire' = [ackWire EXCEPT ![s] = @ + 1] /\ UNCHANGED appVars
            /\ rpc' = [rpc EXCEPT ![s] = "ack"] /\ rx' = [rx EXCEPT ![s].left = n]
        BY <1>4, <2>5, <3>1 DEF PollInfo, Answer
      <3>3. ackWire' \in [Sides -> Nat]
        <4>1. ackWire \in [Sides -> Nat]
          BY DEF TypeOK
        <4> QED
          BY <3>2, <4>1
      <3>4. rx' \in [Sides -> Receptions] /\ rx'[s] = [rx[s] EXCEPT !.left = n]
        <4>1. rx \in [Sides -> Receptions]
          BY RxFields
        <4>2. [rx[s] EXCEPT !.left = n] \in Receptions
          BY <4>1 DEF Receptions
        <4> QED
          BY <3>2, <4>1, <4>2
      <3>5. RpcOK' /\ rpc'[s] = "ack"
        BY <3>2, RxFields DEF RpcOK
      <3>6. rx'[s].left = n /\ rx'[s].buf = rx[s].buf
        BY <3>4, RxFields DEF Receptions
      <3>7. RxInv(s)'
        BY <2>2, <3>5, <3>6 DEF RxInv
      <3>8. TypeOK'
        BY <1>1, <1>2, <1>3, <2>3, <3>2, <3>3, <3>4, <3>5
        DEF TypeOK, RpcOK, EventsOK, sendVars, appVars
      <3> QED
        BY <3>7, <3>8
    <2> QED
      BY <2>4, <2>5
  <1>5. CASE ~(fc[s] # None /\ fc[s].kind = "info")
    <2>1. /\ rpc' = [rpc EXCEPT ![s] = "failed"]
          /\ UNCHANGED <<appVars, rx, splitRR, ackWire>>
      BY <1>5 DEF PollInfo
    <2>2. RpcOK' /\ rpc'[s] = "failed"
      BY <2>1, RxFields DEF RpcOK
    <2>3. TypeOK'
      BY <1>1, <1>2, <1>3, <2>1, <2>2 DEF TypeOK, RpcOK, EventsOK, sendVars, appVars
    <2> QED
      BY <2>2, <2>3 DEF RxInv
  <1> QED
    BY <1>4, <1>5

LEMMA TypePollAckSent ==
  ASSUME TypeOK, NEW s \in Sides, RxInv(s), PollAckSent(s)
  PROVE  TypeOK' /\ RxInv(s)'
  <1>1. EventsOK'
    BY TypePolled DEF PollAckSent
  <1>2. cq2' \in [Sides -> Nat]
    <2>1. cq2 \in [Sides -> Nat]
      BY DEF TypeOK
    <2>2. cq2[s] > 0 /\ cq2' = [cq2 EXCEPT ![s] = @ - 1]
      BY DEF PollAckSent
    <2> QED
      BY <2>1, <2>2
  <1>3. RpcOK' /\ rpc'[s] = "chunks" /\ rx' = rx /\ rpc[s] = "ack"
    BY RxFields DEF PollAckSent, RpcOK
  <1>4. TypeOK'
    BY <1>1, <1>2, <1>3 DEF TypeOK, RpcOK, EventsOK, PollAckSent, appVars, sendVars
  <1> QED
    BY <1>3, <1>4 DEF RxInv

LEMMA TypePollChunk ==
  ASSUME TypeOK, NEW s \in Sides, RxInv(s), PollChunk(s)
  PROVE  TypeOK' /\ RxInv(s)'
  <1>1. /\ rpc[s] = "chunks" /\ recvCq[s] # <<>>
        /\ recvCq' = [recvCq EXCEPT ![s] = Tail(@)]
        /\ UNCHANGED <<sendVars, userWire, userCq, splitWire, splitRR, fc, sendCq,
                       ackVars, placed>>
    BY DEF PollChunk
  <1>2. recvCq' \in [Sides -> Seq(Nat)] /\ Head(recvCq[s]) \in Nat
    <2>1. recvCq \in [Sides -> Seq(Nat)]
      BY DEF TypeOK
    <2> QED
      BY <1>1, <2>1, QueueTail
  <1>3. PICK total \in Nat : total = rx[s].total + Head(recvCq[s])
    BY <1>2, RxFields
  <1>4. rx[s].left \in Nat \ {0} /\ rx[s].buf > 0
    BY <1>1, RxFields DEF RxInv
  <1>5. CASE rx[s].left = 1
    <2>1. Finish(s, total) /\ Polled(s, "receiver")
      BY <1>3, <1>5 DEF PollChunk
    <2>2. /\ delivered' \in [Sides -> Completions] /\ UNCHANGED <<turn, posted, completed>>
          /\ RpcOK' /\ rx' \in [Sides -> Receptions]
      BY <2>1, TypeFinish
    <2>3. EventsOK'
      BY <2>1, TypePolled
    <2>4. rpc'[s] = "idle"
      BY <2>1, RxFields DEF Finish, RpcOK
    <2>5. TypeOK'
      BY <1>1, <1>2, <2>2, <2>3 DEF TypeOK, RpcOK, EventsOK, sendVars, ackVars
    <2> QED
      BY <2>4, <2>5 DEF RxInv
  <1>6. CASE rx[s].left # 1
    <2>1. PICK left \in Nat \ {0} : left = rx[s].left - 1
      BY <1>4, <1>6
    <2>2. /\ rx' = [rx EXCEPT ![s].left = left, ![s].total = total]
          /\ UNCHANGED <<rpc, appVars, evVars>>
      BY <1>3, <1>6, <2>1 DEF PollChunk
    <2>3. rx' \in [Sides -> Receptions]
          /\ rx'[s] = [rx[s] EXCEPT !.left = left, !.total = total]
      <3>1. rx \in [Sides -> Receptions]
        BY RxFields
      <3>2. [rx[s] EXCEPT !.left = left, !.total = total] \in Receptions
        BY <3>1 DEF Receptions
      <3> QED
        BY <2>2, <3>1, <3>2
    <2>4. rx'[s].left = left /\ rx'[s].buf = rx[s].buf
      BY <2>3, RxFields DEF Receptions
    <2>5. RxInv(s)'
      BY <1>4, <2>1, <2>2, <2>4 DEF RxInv
    <2>6. TypeOK'
      BY <1>1, <1>2, <2>2, <2>3 DEF TypeOK, sendVars, ackVars, appVars, evVars
    <2> QED
      BY <2>5, <2>6
  <1> QED
    BY <1>5, <1>6

LEMMA TypePollWimm ==
  ASSUME TypeOK, NEW s \in Sides, PollWimm(s)
  PROVE  TypeOK' /\ RxInv(s)'
  <1>1. EventsOK'
    BY TypePolled DEF PollWimm
  <1>2. recvCq' \in [Sides -> Seq(Nat)]
    <2>1. recvCq \in [Sides -> Seq(Nat)]
      BY DEF TypeOK
    <2> QED
      BY <2>1, QueueTail DEF PollWimm
  <1>3. delivered' \in [Sides -> Completions] /\ UNCHANGED <<turn, posted, completed>>
    BY RxFields, TypeHandOut DEF PollWimm
  <1>4. RpcOK' /\ rpc'[s] = "idle" /\ rx' \in [Sides -> Receptions]
    BY RxFields DEF PollWimm, RpcOK
  <1>5. TypeOK'
    BY <1>1, <1>2, <1>3, <1>4 DEF TypeOK, RpcOK, EventsOK, PollWimm, sendVars, ackVars
  <1> QED
    BY <1>4, <1>5 DEF RxInv

-----------------------------------------------------------------------------
(* What the steps of a sender do to the message it is splitting.            *)

LEMMA JobIdle ==
  ASSUME TypeOK, NEW s \in Sides, spc' = [spc EXCEPT ![s] = "idle"]
  PROVE  JobInv(s)'
  <1>1. spc'[s] = "idle"
    BY DEF TypeOK
  <1> QED
    BY <1>1 DEF JobInv

LEMMA JobStart ==
  ASSUME TypeOK, NEW s \in Sides, NEW len \in Lengths, NEW chunk \in Chunks,
         PostSplit(s, len, chunk) \/ StartWimm(s, len, chunk) \/ StartPut(s, len, chunk)
  PROVE  JobInv(s)'
  <1>1. PICK verb \in Verbs : Accept(s, verb, len)
    BY DEF PostSplit, StartWimm, StartPut, Verbs
  <1>2. PICK msg \in Nat \ {0} : msg = Len(posted[s]) + 1
    BY <1>1, Accepted
  <1>3. len \in Nat \ {0} /\ chunk \in Nat \ {0}
    BY SizesAssumption
  <1>4. PICK n \in Nat \ {0} : n = NumChunks(len, chunk)
    BY <1>3, NumChunksBounds
  <1>5. chunk * (n - 1) < len /\ (len > chunk => n > 1)
    BY <1>3, <1>4, NumChunksBounds
  <1>6. Max({n - 1, 1}) \in Nat \ {0} /\ (n = 1 => Max({n - 1, 1}) = 1)
    <2>1. PICK x \in Nat : x = n - 1
      OBVIOUS
    <2>2. n = 1 => x = 0
      BY <2>1
    <2> QED
      BY <2>1, <2>2, MaxOfTwo
  <1>7. PICK left \in Nat, pc \in {"info", "put", "write"} :
          /\ spc' = [spc EXCEPT ![s] = pc]
          /\ job' = [job EXCEPT ![s] = [msg |-> msg, len |-> len, chunk |-> chunk,
                                        left |-> left, off |-> 0]]
          /\ pc \in {"info", "put"} => left = n - 1
          /\ pc = "put" => len > chunk
          /\ pc = "write" => left > 0 /\ (n = 1 => left = 1)
    <2>0. PICK k \in Nat, w \in Nat \ {0} :
            k = n - 1 /\ w = Max({n - 1, 1}) /\ (n = 1 => w = 1)
      BY <1>6
    <2>1. CASE PostSplit(s, len, chunk)
      <3>1. /\ spc' = [spc EXCEPT ![s] = "info"]
            /\ job' = [job EXCEPT ![s] = [msg |-> msg, len |-> len, chunk |-> chunk,
                                          left |-> k, off |-> 0]]
        BY <1>2, <1>4, <2>0, <2>1 DEF PostSplit, ChunksBehind
      <3> QED
        BY <2>0, <3>1
    <2>2. CASE StartPut(s, len, chunk)
      <3>1. /\ spc' = [spc EXCEPT ![s] = "put"] /\ len > chunk
            /\ job' = [job EXCEPT ![s] = [msg |-> msg, len |-> len, chunk |-> chunk,
                                          left |-> k, off |-> 0]]
        BY <1>2, <1>4, <2>0, <2>2 DEF StartPut, ChunksBehind, IsSplit, TwoSided
      <3> QED
        BY <2>0, <3>1
    <2>3. CASE StartWimm(s, len, chunk)
      <3>1. /\ spc' = [spc EXCEPT ![s] = "write"]
            /\ job' = [job EXCEPT ![s] = [msg |-> msg, len |-> len, chunk |-> chunk,
                                          left |-> w, off |-> 0]]
        <4>1. w = Max({NumChunks(len, chunk) - 1, 1})
          BY <1>4, <2>0, Zenon
        <4>2. /\ spc' = [spc EXCEPT ![s] = "write"]
              /\ job' = [job EXCEPT ![s] =
                   [msg |-> Len(posted[s]) + 1, len |-> len, chunk |-> chunk,
                    left |-> Max({NumChunks(len, chunk) - 1, 1}), off |-> 0]]
          BY <2>3 DEF StartWimm
        <4> QED
          BY <1>2, <4>1, <4>2
      <3>2. w \in Nat /\ w > 0 /\ (n = 1 => w = 1)
        BY <2>0
      <3> QED
        BY <3>1, <3>2
    <2> QED
      BY <2>1, <2>2, <2>3
  <1>8. /\ spc'[s] = pc
        /\ job'[s] = [msg |-> msg, len |-> len, chunk |-> chunk, left |-> left, off |-> 0]
    BY <1>7 DEF TypeOK
  <1>9. pc \in {"info", "put"} => 0 + chunk * left < len
    BY <1>3, <1>4, <1>5, <1>7
  <1>10. pc = "put" => left > 0
    BY <1>4, <1>5, <1>7
  <1> QED
    BY <1>3, <1>4, <1>7, <1>8, <1>9, <1>10 DEF JobInv

LEMMA JobPolled ==
  ASSUME TypeOK, NEW s \in Sides, JobInv(s),
         PollInfoSent(s) \/ PollAck(s) \/ PollChunkSent(s) \/ PollWritten(s) \/ PollPut(s)
  PROVE  JobInv(s)'
  <1>1. CASE spc' = [spc EXCEPT ![s] = "idle"]
    BY <1>1, JobIdle
  <1>2. CASE ~(spc' = [spc EXCEPT ![s] = "idle"])
    <2>1. /\ job' = job
          /\ \/ /\ spc[s] \in {"info", "sent"} /\ job[s].left # 0
                /\ \/ spc' = [spc EXCEPT ![s] = "ack"]
                   \/ spc' = [spc EXCEPT ![s] = "chunk"]
             \/ spc[s] = "ack" /\ spc' = [spc EXCEPT ![s] = "chunk"]
             \/ /\ spc[s] = "written" /\ job[s].left # 0
                /\ spc' = [spc EXCEPT ![s] = "write"]
      BY <1>2 DEF PollInfoSent, PollAck, PollChunkSent, PollWritten, PollPut, Return, PostLast
    <2>2. \/ spc[s] \in {"info", "sent"} /\ job[s].left # 0 /\ spc'[s] \in {"ack", "chunk"}
          \/ spc[s] = "ack" /\ spc'[s] = "chunk"
          \/ spc[s] = "written" /\ job[s].left # 0 /\ spc'[s] = "write"
      BY <2>1 DEF TypeOK
    <2> QED
      BY <2>1, <2>2, JobFields DEF JobInv
  <1> QED
    BY <1>1, <1>2

LEMMA JobChunk ==
  ASSUME TypeOK, NEW s \in Sides, JobInv(s), PostChunk(s) \/ PostPut(s)
  PROVE  JobInv(s)'
  <1>1. /\ job[s].msg \in Nat \ {0} /\ job[s].len \in Nat \ {0} /\ job[s].chunk \in Chunks
        /\ job[s].left \in Nat \ {0} /\ job[s].off \in Nat
        /\ job[s].off + job[s].chunk * job[s].left < job[s].len
    BY JobFields DEF JobInv, PostChunk, PostPut
  <1>0. PICK chunk \in Nat \ {0} : chunk = job[s].chunk
    BY <1>1, SizesAssumption
  <1>2. PICK off \in Nat, left \in Nat :
          off = job[s].off + job[s].chunk /\ left = job[s].left - 1
    BY <1>0, <1>1
  <1>3. off + chunk * left < job[s].len
    BY <1>0, <1>1, <1>2, NextChunk
  <1>4. job' = [job EXCEPT ![s].off = off, ![s].left = left]
    <2>1. CASE PostChunk(s)
      BY <1>2, <2>1 DEF PostChunk
    <2>2. CASE PostPut(s)
      BY <1>2, <2>2 DEF PostPut
    <2> QED
      BY <2>1, <2>2
  <1>5. job'[s] = [job[s] EXCEPT !.off = off, !.left = left]
    BY <1>4 DEF TypeOK
  <1>6. /\ job'[s].msg = job[s].msg /\ job'[s].len = job[s].len
        /\ job'[s].chunk = chunk /\ job'[s].off = off /\ job'[s].left = left
    BY <1>0, <1>2, <1>5, JobFields DEF Jobs
  <1>7. spc'[s] \in {"sent", "flush"} \/ (spc'[s] = "put" /\ left > 0)
    <2>1. CASE PostChunk(s)
      BY <2>1 DEF PostChunk, TypeOK
    <2>2. CASE PostPut(s)
      <3>1. spc' = [spc EXCEPT ![s] = IF job[s].left = 1 THEN "flush" ELSE "put"]
        BY <2>2 DEF PostPut
      <3>2. job[s].left # 1 => left > 0
        BY <1>1, <1>2
      <3> QED
        BY <3>1, <3>2 DEF TypeOK
    <2> QED
      BY <2>1, <2>2
  <1> QED
    BY <1>0, <1>1, <1>2, <1>3, <1>6, <1>7 DEF JobInv

LEMMA JobWrite ==
  ASSUME TypeOK, NEW s \in Sides, JobInv(s), PostWrite(s)
  PROVE  JobInv(s)'
  <1>1. /\ job[s].msg \in Nat \ {0} /\ job[s].len \in Nat \ {0} /\ job[s].chunk \in Chunks
        /\ job[s].left \in Nat \ {0}
        /\ NumChunks(job[s].len, job[s].chunk) = 1 => job[s].left <= 1
    BY JobFields DEF JobInv, PostWrite
  <1>2. /\ job' = [job EXCEPT ![s].off = @ + NextLength(job[s]), ![s].left = @ - 1]
        /\ spc' = [spc EXCEPT ![s] = "written"]
    BY DEF PostWrite
  <1>3. /\ job'[s] = [job[s] EXCEPT !.off = @ + NextLength(job[s]), !.left = @ - 1]
        /\ spc'[s] = "written"
    BY <1>2 DEF TypeOK
  <1>4. /\ job'[s].msg = job[s].msg /\ job'[s].len = job[s].len
        /\ job'[s].chunk = job[s].chunk /\ job'[s].left = job[s].left - 1
    BY <1>3, JobFields DEF Jobs
  <1> QED
    BY <1>1, <1>3, <1>4 DEF JobInv

-----------------------------------------------------------------------------
(* The invariant holds at the start, and every step preserves it.           *)

LEMMA SplitInit == Init => TypeOK /\ SplitInv
  <1> SUFFICES ASSUME Init PROVE TypeOK /\ SplitInv
    OBVIOUS
  <1>1. /\ <<>> \in Completions /\ <<>> \in Seq([verb : Verbs, len : Lengths])
        /\ <<>> \in Seq(UserItems) /\ <<>> \in Seq(Items) /\ <<>> \in Seq(Nat)
    BY EmptySeq DEF Completions
  <1>2. <<InfoRequest>> \in Seq(Requests)
    <2>1. PICK r \in Requests : r = InfoRequest
      BY DEF Requests
    <2>2. <<r>> \in Seq(Requests)
      OBVIOUS
    <2> QED
      BY <2>1, <2>2
  <1>3. NoRx \in Receptions
    BY <1>1 DEF NoRx, Receptions
  <1>4. TypeOK
    BY <1>1, <1>2, <1>3, NoJobType, DuplexAssumption DEF Init, TypeOK
  <1>5. SplitInv
    BY DEF Init, SplitInv, JobInv, RxInv
  <1> QED
    BY <1>4, <1>5

(* A step of one end leaves the other's message alone.                      *)
LEMMA OneSide ==
  ASSUME SplitInv, NEW s \in Sides,
         \A p \in Sides \ {s} : spc'[p] = spc[p] /\ job'[p] = job[p]
                                /\ rpc'[p] = rpc[p] /\ rx'[p] = rx[p],
         JobInv(s)', RxInv(s)'
  PROVE  SplitInv'
  BY DEF SplitInv, JobInv, RxInv

LEMMA SenderStep ==
  ASSUME TypeOK, SplitInv, NEW s \in Sides, Post(s) \/ SendStep(s)
  PROVE  TypeOK' /\ SplitInv'
  <1>1. JobInv(s) /\ RxInv(s)
    BY DEF SplitInv
  <1>2. CASE SenderWakes(s)
    BY <1>2, TypeWake
    DEF SenderWakes, Wake, SplitInv, JobInv, RxInv, sendVars, recvVars
  <1>3. CASE \E len \in Lengths, chunk \in Chunks, verb \in Verbs :
               PostWhole(s, verb, len, chunk)
    BY <1>3, TypeWhole DEF PostWhole, SplitInv, JobInv, RxInv, sendVars, recvVars
  <1>4. ASSUME TypeOK', JobInv(s)', UNCHANGED recvVars,
               \A p \in Sides \ {s} : spc'[p] = spc[p] /\ job'[p] = job[p]
        PROVE  TypeOK' /\ SplitInv'
    <2>1. RxInv(s)'
      BY <1>1, <1>4 DEF RxInv, recvVars
    <2> QED
      BY <1>4, <2>1, OneSide DEF recvVars
  <1>5. ASSUME NEW len \in Lengths, NEW chunk \in Chunks,
               PostSplit(s, len, chunk) \/ StartWimm(s, len, chunk) \/ StartPut(s, len, chunk)
        PROVE  TypeOK' /\ SplitInv'
    <2>1. TypeOK' /\ JobInv(s)'
      BY <1>5, TypeSplit, TypeWriteStart, JobStart
    <2>2. \A p \in Sides \ {s} : spc'[p] = spc[p] /\ job'[p] = job[p]
      BY <1>5 DEF PostSplit, StartWimm, StartPut, TypeOK
    <2>3. UNCHANGED recvVars
      BY <1>5 DEF PostSplit, StartWimm, StartPut
    <2> QED
      BY <1>4, <2>1, <2>2, <2>3
  <1>6. CASE \/ PollInfoSent(s) \/ PollAck(s) \/ PollChunkSent(s)
             \/ PollWritten(s) \/ PollPut(s)
    <2>1. TypeOK' /\ JobInv(s)'
      BY <1>1, <1>6, TypeSenderPoll, TypeLast, JobPolled
    <2>2. \A p \in Sides \ {s} : spc'[p] = spc[p] /\ job'[p] = job[p]
      BY <1>6
      DEF PollInfoSent, PollAck, PollChunkSent, PollWritten, PollPut, Return, PostLast, TypeOK
    <2>3. UNCHANGED recvVars
      BY <1>6 DEF PollInfoSent, PollAck, PollChunkSent, PollWritten, PollPut
    <2> QED
      BY <1>4, <2>1, <2>2, <2>3
  <1>7. CASE PostChunk(s) \/ PostPut(s) \/ PostWrite(s)
    <2>1. TypeOK' /\ JobInv(s)'
      BY <1>1, <1>7, TypeChunk, TypeWrite, JobChunk, JobWrite
    <2>2. \A p \in Sides \ {s} : spc'[p] = spc[p] /\ job'[p] = job[p]
      BY <1>7 DEF PostChunk, PostPut, PostWrite, TypeOK
    <2>3. UNCHANGED recvVars
      BY <1>7 DEF PostChunk, PostPut, PostWrite
    <2> QED
      BY <1>4, <2>1, <2>2, <2>3
  <1> QED
    BY <1>2, <1>3, <1>5, <1>6, <1>7 DEF Post, SendStep

LEMMA ReceiverStep ==
  ASSUME TypeOK, SplitInv, NEW s \in Sides, RecvStep(s)
  PROVE  TypeOK' /\ SplitInv'
  <1>1. JobInv(s) /\ RxInv(s)
    BY DEF SplitInv
  <1>2. CASE ReceiverWakes(s)
    BY <1>2, TypeWake
    DEF ReceiverWakes, Wake, SplitInv, JobInv, RxInv, sendVars, recvVars
  <1>3. ASSUME ~ReceiverWakes(s)
        PROVE  TypeOK' /\ RxInv(s)'
    BY <1>1, <1>3, TypePollUser, TypePollInfo, TypePollAckSent, TypePollChunk, TypePollWimm
    DEF RecvStep
  <1>4. ASSUME ~ReceiverWakes(s)
        PROVE  /\ \A p \in Sides \ {s} : rpc'[p] = rpc[p] /\ rx'[p] = rx[p]
               /\ UNCHANGED sendVars
    <2>1. CASE \E k \in 1..Batch : PollUser(s, k)
      <3>1. PICK k \in 1..Batch : PollUser(s, k)
        BY <2>1
      <3>2. UNCHANGED sendVars
        BY <3>1 DEF PollUser
      <3>3. \A p \in Sides \ {s} : rx'[p] = rx[p]
        BY <3>1 DEF PollUser, recvVars, TypeOK
      <3>4. \A p \in Sides \ {s} : rpc'[p] = rpc[p]
        BY <3>1 DEF PollUser, ExpectWimm, recvVars, TypeOK
      <3> QED
        BY <3>2, <3>3, <3>4
    <2>2. CASE PollInfo(s)
      <3>1. RpcOK /\ rx \in [Sides -> Receptions]
        BY DEF RpcOK, TypeOK
      <3>2. CASE Answer(s)
        BY <2>2, <3>1, <3>2 DEF PollInfo, Answer, Finish, RpcOK
      <3>3. CASE ~Answer(s)
        BY <2>2, <3>1, <3>3 DEF PollInfo, RpcOK
      <3> QED
        BY <3>2, <3>3
    <2>3. CASE PollAckSent(s)
      BY <2>3 DEF PollAckSent, TypeOK
    <2>4. CASE PollChunk(s)
      BY <2>4 DEF PollChunk, Finish, TypeOK
    <2>5. CASE PollWimm(s)
      BY <2>5 DEF PollWimm, TypeOK
    <2> QED
      BY <1>4, <2>1, <2>2, <2>3, <2>4, <2>5 DEF RecvStep
  <1>5. ASSUME ~ReceiverWakes(s)
        PROVE  SplitInv'
    <2>1. JobInv(s)'
      BY <1>1, <1>4, <1>5 DEF JobInv, sendVars
    <2> QED
      BY <1>3, <1>4, <1>5, <2>1, OneSide DEF sendVars
  <1> QED
    BY <1>2, <1>3, <1>5

LEMMA SplitStep ==
  ASSUME TypeOK, SplitInv, [Next]_vars
  PROVE  TypeOK' /\ SplitInv'
  <1>1. CASE UNCHANGED vars
    BY <1>1 DEF vars, appVars, sendVars, recvVars, ackVars, evVars, TypeOK, SplitInv,
         JobInv, RxInv
  <1>2. ASSUME NEW s \in Sides, LandUser(s) \/ LandOnSplit(s) \/ LandAck(s) \/ HandOver(s)
        PROVE  TypeOK' /\ SplitInv'
    <2>1. UNCHANGED <<sendVars, recvVars>>
      BY <1>2 DEF LandUser, LandOnSplit, LandSplitSend, LandSplitWrite, LandSplit,
           LandAck, HandOver
    <2>2. SplitInv'
      BY <2>1 DEF SplitInv, JobInv, RxInv, sendVars, recvVars
    <2>3. CASE HandOver(s)
      <3>1. turn' \in Sides
        BY <2>3, PeerInSides DEF HandOver
      <3>2. TypeOK'
        BY <2>3, <3>1 DEF TypeOK, HandOver, sendVars, recvVars, ackVars, evVars
      <3> QED
        BY <2>2, <3>2
    <2> QED
      BY <1>2, <2>2, <2>3, TypeLandUser, TypeLandSplit, TypeLandAck
  <1> QED
    BY <1>1, <1>2, SenderStep, ReceiverStep DEF Next

(* Whatever chunk sizes the pacer asks for and whatever lengths are sent,   *)
(* no chunk is empty, but the one that carries the immediate of a message   *)
(* of one chunk, and no counter of chunks or completions runs below zero    *)
(* (qp.c:1826-1971 of libmlx4 takes what is left of a message off its       *)
(* length).                                                                *)
THEOREM TypeCorrect == SafeSpec => []TypeOK
  <1>1. Init => TypeOK /\ SplitInv
    BY SplitInit
  <1>2. TypeOK /\ SplitInv /\ [Next]_vars => (TypeOK /\ SplitInv)'
    BY SplitStep
  <1> QED
    BY <1>1, <1>2, PTL DEF SafeSpec

-----------------------------------------------------------------------------
(* Chunks the receiver recognises as the first of a message.                *)
LargeChunks == \A chunk \in Chunks : chunk >= MinSplit

(* A direction goes from the end s, whose turn it is to send, to the end r. *)

Msgs(q) == {q[i].msg : i \in DOMAIN q}
Sorted(q) == \A i, j \in DOMAIN q : i < j => q[i].msg < q[j].msg

(* The latest message that is, with a part of it, on the user's queue pair. *)
Top(s) == IF spc[s] \in {"write", "written", "put", "flush"}
          THEN Len(posted[s]) - 1 ELSE Len(posted[s])

VerbOf(s, msg) == posted[s][msg].verb

(* What is on its way to the receiving application arrives in the order of *)
(* the messages, and each only once.                                       *)
QueuesInOrder(s, r) ==
  /\ \A x \in Range(userCq[r]) : x.msg \in 1..Top(s) /\ VerbOf(s, x.msg) = x.verb
                                   /\ TwoSided(x.verb)
  /\ \A y \in Range(userWire[s]) : y.msg \in 1..Top(s) /\ VerbOf(s, y.msg) = y.verb
  /\ Sorted(userCq[r]) /\ Sorted(userWire[s])
  /\ \A x \in Range(userCq[r]), y \in Range(userWire[s]) : x.msg < y.msg

OnTheWay(s, r) == Range(userCq[r]) \cup Range(userWire[s])

ReceptionInOrder(s, r) ==
  rpc[r] # "idle" =>
    /\ rx[r].buf \in 1..Top(s) /\ TwoSided(VerbOf(s, rx[r].buf))
    /\ rpc[r] = "info" => VerbOf(s, rx[r].buf) = "SEND"
    /\ \A x \in OnTheWay(s, r) : rx[r].buf < x.msg
    /\ \A m \in Msgs(rx[r].batch) : m <= rx[r].buf
    /\ \A m \in Msgs(delivered[r]) : m < rx[r].buf

HandedInOrder(s, r) ==
  /\ \A m \in Msgs(delivered[r]) : m <= Top(s) /\ \A x \in OnTheWay(s, r) : m < x.msg
  /\ \A m \in completed[s] : m \in 1..Top(s) /\ VerbOf(s, m) = "WRITE"
                             /\ \A y \in Range(userWire[s]) : m < y.msg

(* The message being split is the latest.                                   *)
JobLatest(s) ==
  LET j == job[s]
      n == Len(posted[s])
  IN /\ spc[s] # "idle" => n > 0 /\ j.msg = n
     /\ spc[s] \in {"info", "ack", "chunk", "sent"} =>
          VerbOf(s, n) = "SEND" /\ j.len <= j.off + j.chunk * j.left + j.chunk
     /\ spc[s] \in {"info", "ack"} => j.off = 0
     /\ spc[s] \in {"write", "written"} =>
          VerbOf(s, n) = "WRITE_WITH_IMM" /\ IsSplit("WRITE_WITH_IMM", j.len, j.chunk)
     /\ spc[s] \in {"put", "flush"} => VerbOf(s, n) = "WRITE"

(* On split_qp[0] there is what the sender waits for, and nothing else.     *)
Announcement(s) == [kind |-> "info", chunks |-> job[s].left, size |-> job[s].chunk]

IsChunk(s, item) ==
  item.kind = "chunk" /\ item.msg = job[s].msg /\ item.off = job[s].off
  /\ item.len <= job[s].chunk
IsWrite(s, item) ==
  item.kind = (IF job[s].left = 0 THEN "wimm" ELSE "write") /\ item.signaled

Puts(q, flush) ==
  \A i \in DOMAIN q : q[i].kind = "write" /\ (q[i].signaled <=> flush /\ i = Len(q))

OnSplitWire(s) ==
  LET q == splitWire[s]
      landed == q = <<>> /\ sendCq[s] = 1
      coming == sendCq[s] = 0
  IN /\ spc[s] \in {"idle", "ack", "chunk", "write"} => q = <<>> /\ sendCq[s] = 0
     /\ spc[s] = "info" => landed \/ (coming /\ q = <<Announcement(s)>>)
     /\ spc[s] = "sent" => landed \/ (coming /\ Len(q) = 1 /\ IsChunk(s, q[1]))
     /\ spc[s] = "written" => landed \/ (coming /\ Len(q) = 1 /\ IsWrite(s, q[1]))
     /\ spc[s] = "put" => coming /\ Puts(q, FALSE)
     /\ spc[s] = "flush" => landed \/ (coming /\ q # <<>> /\ Puts(q, TRUE))

-----------------------------------------------------------------------------
(* Which messages the receiver has still to answer or to take an immediate *)
(* of: those it will recognise, and the one whose INFO it waits for.       *)
Large(x) == TwoSided(x.verb) /\ x.len >= MinSplit
Announced(s, r) ==
  {x.msg : x \in {y \in OnTheWay(s, r) : Large(y)}}
    \cup (IF rpc[r] = "info" THEN {rx[r].buf} ELSE {})

(* Completions of split_qp[0] the message being put together takes.         *)
Expected(r) ==
  IF rpc[r] = "wimm" THEN 1 ELSE IF rpc[r] \in {"ack", "chunks"} THEN rx[r].left ELSE 0

(* Where the sender is: INFO under way, an ACK due, between the chunks, the *)
(* immediate landed and the last chunk not posted, or none of these.        *)
InFlight(s) == spc[s] = "info" /\ splitWire[s] # <<>>
Awaiting(s) ==
  \/ spc[s] = "info" /\ splitWire[s] = <<>> /\ job[s].left > 0
  \/ spc[s] = "ack"
Chunking(s) ==
  \/ Awaiting(s) \/ spc[s] = "chunk"
  \/ spc[s] = "sent" /\ (splitWire[s] # <<>> \/ job[s].left > 0)
ImmLanded(s) == spc[s] = "written" /\ splitWire[s] = <<>> /\ job[s].left = 0
Elsewhere(s) == ~InFlight(s) /\ ~Chunking(s) /\ ~ImmLanded(s)

NothingFollows(s, r, d) ==
  VerbOf(s, d) = "SEND" => fc[r] # None /\ fc[r].kind = "info" /\ fc[r].chunks = 0

(* The request for the next INFO or immediate is there.                     *)
Open(s, r) ==
  /\ splitRR[r] = <<InfoRequest>>
  /\ Len(recvCq[r]) = Expected(r)
  /\ \/ Announced(s, r) = {} /\ Elsewhere(s)
     \/ Announced(s, r) = {job[s].msg} /\ InFlight(s)

(* It is used up, and what used it has not been polled.                     *)
Used(s, r) ==
  /\ splitRR[r] = <<>>
  /\ Len(recvCq[r]) = Expected(r) + 1
  /\ \/ Announced(s, r) = {} /\ ImmLanded(s)
     \/ Announced(s, r) = {job[s].msg} /\ Awaiting(s) /\ fc[r] = Announcement(s)
     \/ \E d \in 1..Len(posted[s]) :
          /\ NothingFollows(s, r, d)
          /\ \/ Announced(s, r) = {d} /\ Elsewhere(s)
             \/ Announced(s, r) = {d, job[s].msg} /\ d < job[s].msg /\ InFlight(s)

(* A message's chunks are on their way: a request for each is posted.       *)
OneSent(s) == IF spc[s] = "sent" /\ splitWire[s] # <<>> THEN 1 ELSE 0
ToLand(s) == job[s].left + OneSent(s)
Exchange(s, r) ==
  LET j == job[s]
      n == ToLand(s)
  IN /\ rpc[r] \in {"ack", "chunks"} /\ rx[r].buf = j.msg
     /\ Chunking(s) /\ Announced(s, r) = {}
     /\ Len(recvCq[r]) + n = rx[r].left
     /\ Len(splitRR[r]) = n + 1
     /\ \A i \in 1..n :
          splitRR[r][i] = [kind |-> "buf", buf |-> j.msg, room |-> j.chunk,
                           pos |-> j.off - OneSent(s) * j.chunk + j.chunk * i]
     /\ splitRR[r][n + 1] = InfoRequest

Phase(s, r) == Open(s, r) \/ Used(s, r) \/ Exchange(s, r)

(* Of ACKs there is only the one the message being put together calls for,  *)
(* in completion queues that both threads of an end poll.                  *)
Acks(s, r) ==
  /\ ackWire[s] = 0
  /\ ackWire[r] + cq2[s] = (IF Awaiting(s) /\ Announced(s, r) = {} THEN 1 ELSE 0)
  /\ ackWire[r] + cq2[r] = (IF rpc[r] = "ack" THEN 1 ELSE 0)

(* In the other direction nothing is under way.                             *)
Resting(s, r) ==
  /\ spc[s] = "idle" /\ rpc[r] = "idle"
  /\ userWire[s] = <<>> /\ userCq[r] = <<>> /\ splitWire[s] = <<>> /\ sendCq[s] = 0
  /\ splitRR[r] = <<InfoRequest>> /\ recvCq[r] = <<>>
  /\ HandedInOrder(s, r)

Sending(s, r) ==
  /\ QueuesInOrder(s, r) /\ ReceptionInOrder(s, r) /\ HandedInOrder(s, r)
  /\ JobLatest(s) /\ OnSplitWire(s)
  /\ Phase(s, r) /\ Acks(s, r) /\ rpc[r] # "failed"

PlaceInv ==
  \E s, r \in Sides :
    /\ turn = s /\ r = Peer(s)
    /\ Sending(s, r) /\ Resting(r, s)

-----------------------------------------------------------------------------
(* Lemmas about queues of what is on the way.                               *)

LEMMA Indices ==
  ASSUME NEW T, NEW q \in Seq(T)
  PROVE  /\ Len(q) \in Nat /\ DOMAIN q = 1..Len(q)
         /\ \A i \in 1..Len(q) : q[i] \in T
         /\ \A x : x \in Range(q) <=> \E i \in 1..Len(q) : x = q[i]
         /\ q = <<>> <=> Len(q) = 0
  <1>1. Len(q) \in Nat /\ DOMAIN q = 1..Len(q) /\ \A i \in 1..Len(q) : q[i] \in T
    BY LenProperties, ElementOfSeq
  <1>2. \A x : x \in Range(q) <=> \E i \in 1..Len(q) : x = q[i]
    BY <1>1 DEF Range
  <1>3. q = <<>> <=> Len(q) = 0
    BY EmptySeq
  <1> QED
    BY <1>1, <1>2, <1>3

LEMMA NothingQueued ==
  Range(<<>>) = {} /\ Msgs(<<>>) = {} /\ Sorted(<<>>)
  BY DEF Range, Msgs, Sorted

LEMMA QueueItems ==
  ASSUME NEW q \in Seq(UserItems)
  PROVE  \A x \in Range(q) : x \in UserItems /\ x.msg \in Nat \ {0} /\ x.len \in Nat \ {0}
  <1>1. \A x \in Range(q) : x \in UserItems
    BY Indices
  <1> QED
    BY <1>1 DEF UserItems

LEMMA AppendInOrder ==
  ASSUME NEW q \in Seq(UserItems), NEW x \in UserItems
  PROVE  /\ Range(Append(q, x)) = Range(q) \cup {x}
         /\ Sorted(q) /\ (\A y \in Range(q) : y.msg < x.msg) => Sorted(Append(q, x))
  <1> DEFINE a == Append(q, x)
  <1>1. /\ a \in Seq(UserItems) /\ Len(a) = Len(q) + 1
        /\ \A i \in 1..Len(q) : a[i] = q[i]
        /\ a[Len(q) + 1] = x
    BY AppendProperties
  <1>2. /\ Len(q) \in Nat /\ DOMAIN q = 1..Len(q) /\ DOMAIN a = 1..Len(a)
        /\ \A y : y \in Range(q) <=> \E i \in 1..Len(q) : y = q[i]
        /\ \A y : y \in Range(a) <=> \E i \in 1..Len(a) : y = a[i]
    BY <1>1, Indices
  <1> HIDE DEF a
  <1>3. Range(a) = Range(q) \cup {x}
    <2>1. \A y \in Range(a) : y \in Range(q) \cup {x}
      BY <1>1, <1>2
    <2>2. \A y \in Range(q) : y \in Range(a)
      BY <1>1, <1>2
    <2>3. x \in Range(a)
      BY <1>1, <1>2
    <2> QED
      BY <2>1, <2>2, <2>3
  <1>4. ASSUME Sorted(q), \A y \in Range(q) : y.msg < x.msg, NEW i \in 1..Len(a),
               NEW j \in 1..Len(a), i < j
        PROVE  a[i].msg < a[j].msg
    <2>1. i \in 1..Len(q) /\ a[i] = q[i] /\ q[i] \in Range(q)
      BY <1>1, <1>2, <1>4
    <2>2. CASE j \in 1..Len(q)
      BY <1>1, <1>2, <1>4, <2>1, <2>2 DEF Sorted
    <2>3. CASE j = Len(q) + 1
      BY <1>1, <1>4, <2>1, <2>3
    <2> QED
      BY <1>1, <1>2, <2>2, <2>3
  <1> QED
    BY <1>2, <1>3, <1>4 DEF Sorted, a

LEMMA SplitInOrder ==
  ASSUME NEW q \in Seq(UserItems), NEW k \in 1..Len(q)
  PROVE  LET a == SubSeq(q, 1, k)
             b == SubSeq(q, k + 1, Len(q))
         IN /\ a \in Seq(UserItems) /\ b \in Seq(UserItems) /\ Len(a) = k
            /\ \A i \in 1..k : a[i] = q[i]
            /\ Range(q) = Range(a) \cup Range(b)
            /\ Sorted(q) =>
                 /\ Sorted(b)
                 /\ \A x \in Range(a), y \in Range(b) : x.msg < y.msg
                 /\ \A x \in Range(a) : x.msg <= q[k].msg
  <1> DEFINE a == SubSeq(q, 1, k)
             b == SubSeq(q, k + 1, Len(q))
  <1>1. /\ Len(q) \in Nat /\ DOMAIN q = 1..Len(q) /\ k \in Nat \ {0} /\ k <= Len(q)
        /\ \A i \in 1..Len(q) : q[i] \in UserItems
        /\ \A y : y \in Range(q) <=> \E i \in 1..Len(q) : y = q[i]
    BY Indices
  <1>2. /\ a \in Seq(UserItems) /\ Len(a) = k
        /\ \A i \in 1..k : a[i] = q[i]
    <2>1. \A i \in 1..k : q[i] \in UserItems
      BY <1>1
    <2>2. /\ a \in Seq(UserItems) /\ Len(a) = IF 1 <= k THEN k - 1 + 1 ELSE 0
          /\ \A i \in 1..k - 1 + 1 : a[i] = q[1 + i - 1]
      BY <1>1, <2>1, SubSeqProperties
    <2>3. k - 1 + 1 = k /\ \A i \in 1..k : 1 + i - 1 = i
      BY <1>1
    <2> QED
      BY <1>1, <2>2, <2>3
  <1>3. PICK n \in Nat : n = Len(q)
    BY <1>1
  <1>4. /\ b \in Seq(UserItems) /\ Len(b) = n - k
        /\ \A i \in 1..n - k : b[i] = q[k + i]
    <2>1. \A i \in k + 1..n : q[i] \in UserItems
      BY <1>1, <1>3
    <2>2. /\ b \in Seq(UserItems) /\ Len(b) = IF k + 1 <= n THEN n - (k + 1) + 1 ELSE 0
          /\ \A i \in 1..n - (k + 1) + 1 : b[i] = q[k + 1 + i - 1]
      BY <1>1, <1>3, <2>1, SubSeqProperties
    <2>3. n - (k + 1) + 1 = n - k /\ \A i \in 1..n - k : k + 1 + i - 1 = k + i
      BY <1>1, <1>3
    <2>0. n \in Nat /\ k \in Nat /\ k <= n
      BY <1>1, <1>3
    <2>4. k + 1 <= n => n - (k + 1) + 1 = n - k
      BY <2>0
    <2>5. ~(k + 1 <= n) => n - k = 0
      BY <2>0
    <2> HIDE DEF b
    <2>6. Len(b) = n - k
      BY <2>2, <2>4, <2>5
    <2> QED
      BY <2>2, <2>3, <2>6
  <1> HIDE DEF a, b
  <1>5. /\ \A y : y \in Range(a) <=> \E i \in 1..k : y = a[i]
        /\ \A y : y \in Range(b) <=> \E i \in 1..n - k : y = b[i]
        /\ DOMAIN b = 1..n - k
    <2>1. \A y : y \in Range(a) <=> \E i \in 1..Len(a) : y = a[i]
      BY <1>2, Indices
    <2>2. /\ \A y : y \in Range(b) <=> \E i \in 1..Len(b) : y = b[i]
          /\ DOMAIN b = 1..Len(b)
      BY <1>4, Indices
    <2>3. Len(a) = k /\ Len(b) = n - k
      BY <1>2, <1>4
    <2>4. \A y : y \in Range(a) <=> \E i \in 1..k : y = a[i]
      BY <2>1, <2>3, Zenon
    <2>5. \A y : y \in Range(b) <=> \E i \in 1..n - k : y = b[i]
      BY <2>2, <2>3, Zenon
    <2>6. DOMAIN b = 1..n - k
      BY <2>2, <2>3, Zenon
    <2> QED
      BY <2>4, <2>5, <2>6
  <1>10. /\ \A y \in Range(a) : \E i \in 1..k : y = q[i]
         /\ \A y \in Range(b) : \E i \in 1..n - k : y = q[k + i]
    <2>1. ASSUME NEW y \in Range(a) PROVE \E i \in 1..k : y = q[i]
      <3>1. PICK i \in 1..k : y = a[i]
        BY <1>5
      <3> QED
        BY <1>2, <3>1
    <2>2. ASSUME NEW y \in Range(b) PROVE \E i \in 1..n - k : y = q[k + i]
      <3>1. PICK i \in 1..n - k : y = b[i]
        BY <1>5
      <3> QED
        BY <1>4, <3>1
    <2> QED
      BY <2>1, <2>2
  <1>6. Range(q) = Range(a) \cup Range(b)
    <2>1. ASSUME NEW y \in Range(q) PROVE y \in Range(a) \cup Range(b)
      <3>1. PICK i \in 1..n : y = q[i]
        BY <1>1, <1>3
      <3>2. CASE i <= k
        BY <1>1, <1>2, <1>5, <3>1, <3>2
      <3>3. CASE i > k
        <4>1. i - k \in 1..n - k /\ k + (i - k) = i
          BY <1>1, <3>1, <3>3
        <4> QED
          BY <1>4, <1>5, <3>1, <4>1
      <3> QED
        BY <1>1, <3>1, <3>2, <3>3
    <2>2. ASSUME NEW y \in Range(a) PROVE y \in Range(q)
      BY <1>1, <1>2, <1>5
    <2>3. ASSUME NEW y \in Range(b) PROVE y \in Range(q)
      <3>1. PICK i \in 1..n - k : y = q[k + i]
        BY <1>10, Zenon
      <3>2. k + i \in 1..n
        BY <1>1, <1>3
      <3> QED
        BY <1>1, <1>3, <3>1, <3>2
    <2> QED
      BY <2>1, <2>2, <2>3
  <1>7. ASSUME Sorted(q), NEW i \in 1..n - k, NEW j \in 1..n - k, i < j
        PROVE  b[i].msg < b[j].msg
    <2>1. k + i \in 1..n /\ k + j \in 1..n /\ k + i < k + j
      BY <1>1, <1>3, <1>7
    <2>2. k + i \in DOMAIN q /\ k + j \in DOMAIN q
      BY <1>1, <1>3, <2>1, Zenon
    <2>3. q[k + i].msg < q[k + j].msg
      BY <1>7, <2>1, <2>2 DEF Sorted
    <2> QED
      BY <1>4, <1>7, <2>3, Zenon
  <1>8. ASSUME Sorted(q), NEW x \in Range(a), NEW y \in Range(b)
        PROVE  x.msg < y.msg
    <2>1. PICK i \in 1..k : x = q[i]
      BY <1>10, Zenon
    <2>2. PICK j \in 1..n - k : y = q[k + j]
      BY <1>10, Zenon
    <2>3. i \in 1..n /\ k + j \in 1..n /\ i < k + j
      BY <1>1, <1>3
    <2> QED
      BY <1>1, <1>3, <1>8, <2>1, <2>2, <2>3 DEF Sorted
  <1>9. ASSUME Sorted(q), NEW x \in Range(a)
        PROVE  x.msg <= q[k].msg
    <2>1. PICK i \in 1..k : x = q[i]
      BY <1>2, <1>5
    <2>2. i \in 1..n /\ k \in 1..n /\ (i < k \/ i = k)
      BY <1>1, <1>3
    <2>3. q[i].msg \in Nat /\ q[k].msg \in Nat
      BY <1>1, <1>3, <2>2 DEF UserItems
    <2>4. i < k => q[i].msg < q[k].msg
      BY <1>1, <1>3, <1>9, <2>2 DEF Sorted
    <2> QED
      BY <2>1, <2>2, <2>3, <2>4
  <1> QED
    BY <1>2, <1>4, <1>5, <1>6, <1>7, <1>8, <1>9 DEF a, b, Sorted

LEMMA TailInOrder ==
  ASSUME NEW q \in Seq(UserItems), q # <<>>
  PROVE  /\ Head(q) \in UserItems /\ Tail(q) \in Seq(UserItems)
         /\ Range(q) = {Head(q)} \cup Range(Tail(q))
         /\ Sorted(q) => Sorted(Tail(q)) /\ \A y \in Range(Tail(q)) : Head(q).msg < y.msg
  <1>1. Len(q) \in Nat \ {0}
    BY EmptySeq
  <1>2. 1 \in 1..Len(q)
    BY <1>1
  <1>3. Tail(q) = SubSeq(q, 2, Len(q)) /\ Head(q) \in UserItems /\ Head(q) = q[1]
    <2>1. Tail(q) = SubSeq(q, 2, Len(q))
      BY TailIsSubSeq
    <2>2. Head(q) \in UserItems
      BY HeadTailProperties
    <2>3. Head(q) = q[1]
      BY <1>1
    <2> QED
      BY <2>1, <2>2, <2>3
  <1>4. PICK a \in Seq(UserItems) : a = SubSeq(q, 1, 1)
    BY <1>2, SplitInOrder
  <1>5. PICK b \in Seq(UserItems) : b = SubSeq(q, 1 + 1, Len(q))
    BY <1>2, SplitInOrder
  <1>6. b = Tail(q)
    BY <1>3, <1>5
  <1>7. /\ Len(a) = 1 /\ a[1] = q[1]
        /\ Range(q) = Range(a) \cup Range(b)
        /\ Sorted(q) => Sorted(b) /\ \A x \in Range(a), y \in Range(b) : x.msg < y.msg
    BY <1>2, <1>4, <1>5, SplitInOrder
  <1>8. Range(a) = {q[1]}
    <2>1. \A y : y \in Range(a) <=> \E i \in 1..Len(a) : y = a[i]
      BY Indices
    <2>2. \A y : y \in Range(a) <=> y = a[1]
      BY <1>7, <2>1
    <2> QED
      BY <1>7, <2>2
  <1> QED
    BY <1>3, <1>6, <1>7, <1>8

LEMMA CompletionItems ==
  ASSUME NEW q \in Completions
  PROVE  \A i \in DOMAIN q : q[i] \in [msg : Nat \ {0}, len : Nat]
  <1> DEFINE T == [msg : Nat \ {0}, len : Nat]
  <1>1. q \in Seq(T)
    BY DEF Completions
  <1> HIDE DEF T
  <1>2. DOMAIN q = 1..Len(q) /\ \A i \in 1..Len(q) : q[i] \in T
    BY <1>1, Indices
  <1> QED
    BY <1>2 DEF T

LEMMA Handing ==
  ASSUME NEW p \in Completions, NEW q \in Completions
  PROVE  Msgs(p \o q) = Msgs(p) \cup Msgs(q)
  <1> DEFINE T == [msg : Nat \ {0}, len : Nat]
  <1>1. p \in Seq(T) /\ q \in Seq(T)
    BY DEF Completions
  <1>2. /\ Len(p) \in Nat /\ Len(q) \in Nat
        /\ DOMAIN p = 1..Len(p) /\ DOMAIN q = 1..Len(q)
    BY <1>1, Indices
  <1>3. /\ p \o q \in Seq(T) /\ Len(p \o q) = Len(p) + Len(q)
        /\ \A i \in 1..Len(p) + Len(q) :
             (p \o q)[i] = IF i <= Len(p) THEN p[i] ELSE q[i - Len(p)]
    BY <1>1, ConcatProperties
  <1>4. PICK c \in Seq(T) : c = p \o q
    BY <1>3
  <1>5. PICK n \in Nat : n = Len(p)
    BY <1>2
  <1>6. PICK m \in Nat : m = Len(q)
    BY <1>2
  <1>7. /\ DOMAIN p = 1..n /\ DOMAIN q = 1..m /\ DOMAIN c = 1..n + m
        /\ \A i \in 1..n + m : c[i] = IF i <= n THEN p[i] ELSE q[i - n]
    <2>1. DOMAIN c = 1..Len(c)
      BY Indices
    <2> QED
      BY <1>2, <1>3, <1>4, <1>5, <1>6, <2>1, Zenon
  <1> HIDE DEF T
  <1>8. ASSUME NEW i \in 1..n + m
        PROVE  c[i].msg \in Msgs(p) \cup Msgs(q)
    <2>1. CASE i <= n
      BY <1>7, <2>1 DEF Msgs
    <2>2. CASE i > n
      <3>1. i - n \in 1..m
        BY <2>2
      <3> QED
        BY <1>7, <2>2, <3>1 DEF Msgs
    <2> QED
      BY <2>1, <2>2
  <1>9. ASSUME NEW i \in 1..n
        PROVE  p[i].msg \in Msgs(c)
    BY <1>7 DEF Msgs
  <1>10. ASSUME NEW i \in 1..m
         PROVE  q[i].msg \in Msgs(c)
    <2>1. n + i \in 1..n + m /\ ~(n + i <= n) /\ n + i - n = i
      OBVIOUS
    <2>2. c[n + i] = q[i]
      BY <1>7, <2>1
    <2> QED
      BY <1>7, <2>1, <2>2 DEF Msgs
  <1> QED
    <2>1. Msgs(c) \subseteq Msgs(p) \cup Msgs(q)
      BY <1>7, <1>8 DEF Msgs
    <2>2. Msgs(p) \subseteq Msgs(c)
      BY <1>7, <1>9 DEF Msgs
    <2>3. Msgs(q) \subseteq Msgs(c)
      BY <1>7, <1>10 DEF Msgs
    <2> QED
      BY <1>4, <2>1, <2>2, <2>3

LEMMA Reported ==
  ASSUME NEW q \in Seq(UserItems)
  PROVE  Msgs(Wc(q)) = {x.msg : x \in Range(q)}
  BY DEF Wc, Msgs, Range

LEMMA TotalReported ==
  ASSUME NEW q \in Completions, NEW total
  PROVE  Msgs([q EXCEPT ![1].len = total]) = Msgs(q)
  <1>1. \A i \in DOMAIN q : q[i] \in [msg : Nat \ {0}, len : Nat]
    BY CompletionItems
  <1>2. PICK p : p = [q EXCEPT ![1].len = total]
    OBVIOUS
  <1>3. DOMAIN p = DOMAIN q
    BY <1>2
  <1>4. \A i \in DOMAIN q : p[i].msg = q[i].msg
    BY <1>1, <1>2
  <1> QED
    BY <1>2, <1>3, <1>4 DEF Msgs

LEMMA MsgsType ==
  ASSUME NEW q \in Completions
  PROVE  Msgs(q) \subseteq Nat \ {0}
  <1>1. \A i \in DOMAIN q : q[i] \in [msg : Nat \ {0}, len : Nat]
    BY CompletionItems
  <1> QED
    BY <1>1 DEF Msgs

-----------------------------------------------------------------------------
(* The order of the messages is kept.                                       *)

Order(s, r) == QueuesInOrder(s, r) /\ ReceptionInOrder(s, r) /\ HandedInOrder(s, r)

LEMMA OrderTypes ==
  ASSUME TypeOK, NEW s \in Sides, NEW r \in Sides
  PROVE  /\ userCq[r] \in Seq(UserItems) /\ userWire[s] \in Seq(UserItems)
         /\ posted[s] \in Seq([verb : Verbs, len : Lengths])
         /\ Len(posted[s]) \in Nat /\ Top(s) \in Int
         /\ delivered[r] \in Completions /\ rx[r].batch \in Completions
         /\ rx[r].buf \in Nat
         /\ Msgs(delivered[r]) \subseteq Nat /\ Msgs(rx[r].batch) \subseteq Nat
         /\ completed[s] \subseteq Nat
         /\ \A x \in OnTheWay(s, r) : x \in UserItems /\ x.msg \in Nat
  <1>1. /\ userCq[r] \in Seq(UserItems) /\ userWire[s] \in Seq(UserItems)
        /\ posted[s] \in Seq([verb : Verbs, len : Lengths])
        /\ delivered[r] \in Completions
        /\ completed[s] \subseteq Nat
    BY DEF TypeOK
  <1>2. rx[r].batch \in Completions /\ rx[r].buf \in Nat
    BY RxFields
  <1>3. Len(posted[s]) \in Nat
    BY <1>1, Indices
  <1>4. Top(s) \in Int
    BY <1>3 DEF Top
  <1>5. \A x \in OnTheWay(s, r) : x \in UserItems /\ x.msg \in Nat
    BY <1>1, QueueItems DEF OnTheWay
  <1>6. Msgs(delivered[r]) \subseteq Nat /\ Msgs(rx[r].batch) \subseteq Nat
    BY <1>1, <1>2, MsgsType
  <1> QED
    BY <1>1, <1>2, <1>3, <1>4, <1>5, <1>6

(* Nothing happens to the messages on the way.                              *)
LEMMA OrderFrame ==
  ASSUME NEW s \in Sides, NEW r \in Sides, Order(s, r),
         userCq'[r] = userCq[r], userWire'[s] = userWire[s], Top(s)' = Top(s),
         \A m \in 1..Top(s) : VerbOf(s, m)' = VerbOf(s, m),
         delivered'[r] = delivered[r], completed'[s] = completed[s],
         rpc'[r] # "idle" =>
           /\ rpc[r] # "idle" /\ (rpc'[r] = "info" => rpc[r] = "info")
           /\ rx'[r].buf = rx[r].buf /\ rx'[r].batch = rx[r].batch
  PROVE  Order(s, r)'
  <1>1. OnTheWay(s, r)' = OnTheWay(s, r)
    BY DEF OnTheWay
  <1>2. QueuesInOrder(s, r)'
    BY DEF Order, QueuesInOrder
  <1>3. HandedInOrder(s, r)'
    BY <1>1 DEF Order, HandedInOrder
  <1>4. ReceptionInOrder(s, r)'
    BY <1>1 DEF Order, ReceptionInOrder
  <1> QED
    BY <1>2, <1>3, <1>4 DEF Order

(* A message, or its first or last chunk, goes out on the user's queue pair.*)
LEMMA OrderPost ==
  ASSUME TypeOK, NEW s \in Sides, NEW r \in Sides, Order(s, r),
         NEW x \in UserItems, userWire'[s] = Append(userWire[s], x),
         x.msg = Top(s)', Top(s)' = Top(s) + 1, Top(s) \in Nat,
         VerbOf(s, x.msg)' = x.verb,
         \A m \in 1..Top(s) : VerbOf(s, m)' = VerbOf(s, m),
         userCq'[r] = userCq[r], delivered'[r] = delivered[r],
         completed'[s] = completed[s], rpc'[r] = rpc[r], rx'[r] = rx[r]
  PROVE  /\ Order(s, r)'
         /\ Announced(s, r)' = Announced(s, r) \cup (IF Large(x) THEN {x.msg} ELSE {})
  <1> DEFINE U == Range(userCq[r])
             V == Range(userWire[s])
  <1>1. /\ userCq[r] \in Seq(UserItems) /\ userWire[s] \in Seq(UserItems)
        /\ Msgs(delivered[r]) \subseteq Nat /\ completed[s] \subseteq Nat
        /\ rx[r].buf \in Nat
    BY OrderTypes
  <1>2. PICK n \in Nat : n = Top(s)
    OBVIOUS
  <1>3. Top(s)' = n + 1 /\ x.msg = n + 1
    BY <1>2
  <1>4. /\ \A y \in U : y.msg \in 1..n /\ VerbOf(s, y.msg) = y.verb /\ TwoSided(y.verb)
        /\ \A y \in V : y.msg \in 1..n /\ VerbOf(s, y.msg) = y.verb
        /\ Sorted(userCq[r]) /\ Sorted(userWire[s])
        /\ \A y \in U, z \in V : y.msg < z.msg
    BY <1>2 DEF Order, QueuesInOrder
  <1>5. /\ Range(userWire'[s]) = V \cup {x}
        /\ Sorted(userWire'[s])
    <2>1. \A y \in V : y.msg < x.msg
      BY <1>3, <1>4
    <2> QED
      BY <1>1, <1>4, <2>1, AppendInOrder
  <1>6. OnTheWay(s, r)' = OnTheWay(s, r) \cup {x}
    BY <1>5 DEF OnTheWay
  <1>7. QueuesInOrder(s, r)'
    <2>1. \A y \in U : y.msg < x.msg
      BY <1>3, <1>4
    <2>2. \A m \in 1..n : m \in 1..Top(s)' /\ VerbOf(s, m)' = VerbOf(s, m)
      BY <1>2, <1>3
    <2>3. x.msg \in 1..Top(s)'
      BY <1>3
    <2>4. Range(userCq[r])' = U
      OBVIOUS
    <2> HIDE DEF U, V
    <2> QED
      BY <1>4, <1>5, <2>1, <2>2, <2>3, <2>4 DEF QueuesInOrder
  <1>8. ReceptionInOrder(s, r)'
    <2>1. CASE rpc[r] = "idle"
      BY <2>1 DEF ReceptionInOrder
    <2>2. CASE rpc[r] # "idle"
      <3>1. /\ rx[r].buf \in 1..n /\ TwoSided(VerbOf(s, rx[r].buf))
            /\ rpc[r] = "info" => VerbOf(s, rx[r].buf) = "SEND"
            /\ \A y \in OnTheWay(s, r) : rx[r].buf < y.msg
            /\ \A m \in Msgs(rx[r].batch) : m <= rx[r].buf
            /\ \A m \in Msgs(delivered[r]) : m < rx[r].buf
        BY <1>2, <2>2 DEF Order, ReceptionInOrder
      <3>2. /\ rx[r].buf < x.msg /\ rx[r].buf \in 1..Top(s)'
            /\ VerbOf(s, rx[r].buf)' = VerbOf(s, rx[r].buf)
        BY <1>2, <1>3, <3>1
      <3> QED
        BY <1>6, <3>1, <3>2 DEF ReceptionInOrder
    <2> QED
      BY <2>1, <2>2
  <1>9. HandedInOrder(s, r)'
    <2>1. /\ \A m \in Msgs(delivered[r]) : m <= n /\ \A y \in OnTheWay(s, r) : m < y.msg
          /\ \A m \in completed[s] : m \in 1..n /\ VerbOf(s, m) = "WRITE"
                                     /\ \A y \in V : m < y.msg
      BY <1>2 DEF Order, HandedInOrder
    <2>2. \A m \in Msgs(delivered[r]) : m <= Top(s)' /\ m < x.msg
      BY <1>1, <1>3, <2>1
    <2>3. \A m \in completed[s] : m \in 1..Top(s)' /\ VerbOf(s, m)' = VerbOf(s, m) /\ m < x.msg
      BY <1>2, <1>3, <2>1
    <2> QED
      BY <1>5, <1>6, <2>1, <2>2, <2>3 DEF HandedInOrder
  <1>10. Announced(s, r)' = Announced(s, r) \cup (IF Large(x) THEN {x.msg} ELSE {})
    <2>1. {y.msg : y \in {z \in OnTheWay(s, r) \cup {x} : Large(z)}} =
            {y.msg : y \in {z \in OnTheWay(s, r) : Large(z)}}
              \cup (IF Large(x) THEN {x.msg} ELSE {})
      OBVIOUS
    <2> QED
      BY <1>6, <2>1 DEF Announced
  <1> QED
    BY <1>7, <1>8, <1>9, <1>10 DEF Order

(* What the user's queue pair delivers.                                     *)
LEMMA OrderLand ==
  ASSUME TypeOK, NEW s \in Sides, NEW r \in Sides, Order(s, r),
         userWire[s] # <<>>, userWire'[s] = Tail(userWire[s]),
         \/ /\ TwoSided(Head(userWire[s]).verb)
            /\ userCq'[r] = Append(userCq[r], Head(userWire[s]))
            /\ completed'[s] = completed[s]
         \/ /\ ~TwoSided(Head(userWire[s]).verb)
            /\ userCq'[r] = userCq[r]
            /\ completed'[s] = completed[s] \cup {Head(userWire[s]).msg},
         Top(s)' = Top(s), posted'[s] = posted[s], delivered'[r] = delivered[r],
         rpc'[r] = rpc[r], rx'[r] = rx[r]
  PROVE  Order(s, r)' /\ Announced(s, r)' = Announced(s, r)
  <1> DEFINE U == Range(userCq[r])
             V == Range(userWire[s])
             W == Range(Tail(userWire[s]))
  <1>1. /\ userCq[r] \in Seq(UserItems) /\ userWire[s] \in Seq(UserItems)
        /\ \A y \in OnTheWay(s, r) : y.msg \in Nat
    BY OrderTypes
  <1>2. PICK x \in UserItems : x = Head(userWire[s])
    BY <1>1, TailInOrder
  <1>3. /\ \A y \in U : y.msg \in 1..Top(s) /\ VerbOf(s, y.msg) = y.verb /\ TwoSided(y.verb)
        /\ \A y \in V : y.msg \in 1..Top(s) /\ VerbOf(s, y.msg) = y.verb
        /\ Sorted(userCq[r]) /\ Sorted(userWire[s])
        /\ \A y \in U, z \in V : y.msg < z.msg
    BY DEF Order, QueuesInOrder
  <1>4. /\ V = {x} \cup W /\ Sorted(Tail(userWire[s]))
        /\ \A y \in W : x.msg < y.msg
    BY <1>1, <1>2, <1>3, TailInOrder
  <1>5. Range(userWire'[s]) = W /\ Sorted(userWire'[s])
    BY <1>4
  <1>6. \A m : VerbOf(s, m)' = VerbOf(s, m)
    BY DEF VerbOf
  <1>7. /\ \A m \in Msgs(delivered[r]) : m <= Top(s) /\ \A y \in U \cup V : m < y.msg
        /\ \A m \in completed[s] : m \in 1..Top(s) /\ VerbOf(s, m) = "WRITE"
                                   /\ \A y \in V : m < y.msg
    BY DEF Order, HandedInOrder, OnTheWay
  <1>8. rpc[r] # "idle" =>
          /\ rx[r].buf \in 1..Top(s) /\ TwoSided(VerbOf(s, rx[r].buf))
          /\ rpc[r] = "info" => VerbOf(s, rx[r].buf) = "SEND"
          /\ \A y \in U \cup V : rx[r].buf < y.msg
          /\ \A m \in Msgs(rx[r].batch) : m <= rx[r].buf
          /\ \A m \in Msgs(delivered[r]) : m < rx[r].buf
    BY DEF Order, ReceptionInOrder, OnTheWay
  <1>9. CASE TwoSided(x.verb)
    <2>1. userCq'[r] = Append(userCq[r], x) /\ completed'[s] = completed[s]
      BY <1>2, <1>9
    <2>2. Range(userCq'[r]) = U \cup {x} /\ Sorted(userCq'[r])
      <3>1. \A y \in U : y.msg < x.msg
        BY <1>3, <1>4
      <3> QED
        BY <1>1, <1>3, <2>1, <3>1, AppendInOrder
    <2>3. OnTheWay(s, r)' = OnTheWay(s, r) /\ OnTheWay(s, r) = U \cup V
      BY <1>4, <1>5, <2>2 DEF OnTheWay
    <2> HIDE DEF U, V, W
    <2>4. QueuesInOrder(s, r)'
      BY <1>3, <1>4, <1>5, <1>6, <1>9, <2>2 DEF QueuesInOrder
    <2>5. ReceptionInOrder(s, r)'
      BY <1>6, <1>8, <2>3 DEF ReceptionInOrder
    <2>6. HandedInOrder(s, r)'
      BY <1>4, <1>5, <1>6, <1>7, <2>1, <2>3 DEF HandedInOrder
    <2>7. Announced(s, r)' = Announced(s, r)
      BY <2>3 DEF Announced
    <2> QED
      BY <2>4, <2>5, <2>6, <2>7 DEF Order
  <1>10. CASE ~TwoSided(x.verb)
    <2>1. userCq'[r] = userCq[r] /\ completed'[s] = completed[s] \cup {x.msg}
      BY <1>2, <1>10
    <2>2. x.verb = "WRITE" /\ ~Large(x)
      BY <1>10 DEF TwoSided, Large
    <2>3. Range(userCq'[r]) = U /\ Sorted(userCq'[r])
      BY <1>3, <2>1
    <2>4. OnTheWay(s, r) = OnTheWay(s, r)' \cup {x} /\ OnTheWay(s, r) = U \cup V
      BY <1>4, <1>5, <2>3 DEF OnTheWay
    <2> HIDE DEF U, V, W
    <2>5. QueuesInOrder(s, r)'
      BY <1>3, <1>4, <1>5, <1>6, <2>3 DEF QueuesInOrder
    <2>6. ReceptionInOrder(s, r)'
      BY <1>6, <1>8, <2>4 DEF ReceptionInOrder
    <2>7. HandedInOrder(s, r)'
      <3>1. \A m \in Msgs(delivered[r]) : m <= Top(s)' /\ \A y \in OnTheWay(s, r)' : m < y.msg
        BY <1>7, <2>4
      <3>2. \A m \in completed'[s] : m \in 1..Top(s)' /\ VerbOf(s, m)' = "WRITE"
                                    /\ \A y \in W : m < y.msg
        BY <1>3, <1>4, <1>6, <1>7, <2>1, <2>2
      <3> QED
        BY <1>5, <3>1, <3>2 DEF HandedInOrder
    <2>8. Announced(s, r)' = Announced(s, r)
      <3>1. {z \in OnTheWay(s, r) : Large(z)} = {z \in OnTheWay(s, r)' : Large(z)}
        BY <2>2, <2>4
      <3> QED
        BY <3>1 DEF Announced
    <2> QED
      BY <2>5, <2>6, <2>7, <2>8 DEF Order
  <1> QED
    BY <1>9, <1>10

(* What ibv_poll_cq takes from the queue of completions: k of them, and     *)
(* none behind one that is split.                                          *)
Taking(s, r, k, batch) ==
  /\ Order(s, r) /\ rpc[r] = "idle"
  /\ Taken(r, k) /\ batch = SubSeq(userCq[r], 1, k)
  /\ userCq'[r] = SubSeq(userCq[r], k + 1, Len(userCq[r]))
  /\ userWire'[s] = userWire[s] /\ Top(s)' = Top(s) /\ posted'[s] = posted[s]
  /\ completed'[s] = completed[s]

TakenFirst(s, r, k, batch) ==
  /\ QueuesInOrder(s, r)'
  /\ batch \in Seq(UserItems) /\ batch[k] \in Range(batch)
  /\ \A x \in Range(batch) :
       /\ x \in UserItems /\ x.msg \in 1..Top(s) /\ x.msg <= batch[k].msg
       /\ VerbOf(s, x.msg) = x.verb /\ TwoSided(x.verb)
       /\ Large(x) => x = batch[k]
  /\ OnTheWay(s, r) = OnTheWay(s, r)' \cup Range(batch)
  /\ \A x \in Range(batch), y \in OnTheWay(s, r)' : x.msg < y.msg

LEMMA TakenInOrder ==
  ASSUME TypeOK, NEW s \in Sides, NEW r \in Sides, NEW k \in 1..Batch,
         NEW batch, Taking(s, r, k, batch)
  PROVE  TakenFirst(s, r, k, batch)
  <1> USE DEF Taking
  <1>1. userCq[r] \in Seq(UserItems)
    BY OrderTypes
  <1>2. k \in 1..Len(userCq[r]) /\ \A i \in 1..k - 1 : ~SeenAsSplit(userCq[r][i].len)
    <2>1. PICK n \in Nat : n = Len(userCq[r])
      BY <1>1, Indices
    <2>2. Batch \in Nat
      BY BoundsAssumption
    <2>3. /\ k \in 1..Min({Batch, n})
          /\ \A i \in 1..k - 1 : ~SeenAsSplit(userCq[r][i].len)
      BY <2>1 DEF Taken
    <2>4. Min({Batch, n}) \in Nat /\ Min({Batch, n}) <= n
      BY <2>2, MinBelow
    <2>5. k \in 1..n
      BY <2>3, <2>4
    <2> QED
      BY <2>1, <2>3, <2>5
  <1> DEFINE U == Range(userCq[r])
             V == Range(userWire[s])
             B == Range(batch)
             R == Range(userCq'[r])
  <1>3. /\ \A y \in U : y.msg \in 1..Top(s) /\ VerbOf(s, y.msg) = y.verb /\ TwoSided(y.verb)
        /\ \A y \in V : y.msg \in 1..Top(s) /\ VerbOf(s, y.msg) = y.verb
        /\ Sorted(userCq[r]) /\ Sorted(userWire[s])
        /\ \A y \in U, z \in V : y.msg < z.msg
    BY DEF Order, QueuesInOrder
  <1>4. /\ batch \in Seq(UserItems) /\ Len(batch) = k
        /\ \A i \in 1..k : batch[i] = userCq[r][i]
        /\ U = B \cup R /\ Sorted(userCq'[r])
        /\ \A x \in B, y \in R : x.msg < y.msg
        /\ \A x \in B : x.msg <= userCq[r][k].msg
    BY <1>1, <1>2, <1>3, SplitInOrder
  <1>5. /\ \A x \in B : x \in UserItems
        /\ \A x \in B : \E i \in 1..k : x = batch[i]
        /\ \A i \in 1..k : batch[i] \in B
    <2>0. PICK b \in Seq(UserItems) : b = batch
      BY <1>4
    <2>1. /\ \A i \in 1..Len(b) : b[i] \in UserItems
          /\ \A x : x \in Range(b) <=> \E i \in 1..Len(b) : x = b[i]
      BY Indices
    <2>3. Len(b) = k
      BY <1>4, <2>0
    <2>2. /\ \A i \in 1..k : b[i] \in UserItems
          /\ \A x : x \in Range(b) <=> \E i \in 1..k : x = b[i]
      BY <2>1, <2>3, Zenon
    <2>4. B = Range(b)
      BY <2>0
    <2>5. \A x \in B : \E i \in 1..k : x = b[i]
      BY <2>2, <2>4, Zenon
    <2>6. \A i \in 1..k : b[i] \in B
      BY <2>2, <2>4, Zenon
    <2>7. \A x \in B : x \in UserItems
      BY <2>2, <2>5, Zenon
    <2> QED
      BY <2>0, <2>5, <2>6, <2>7, Zenon
  <1>6. k \in 1..k /\ batch[k] = userCq[r][k] /\ batch[k] \in B
    <2>1. k \in 1..k
      BY BoundsAssumption
    <2> QED
      BY <1>4, <1>5, <2>1
  <1>7. ASSUME NEW x \in B, Large(x)
        PROVE  x = batch[k]
    <2>1. PICK i \in 1..k : x = batch[i]
      BY <1>5
    <2>2. i = k \/ i \in 1..k - 1
      BY <1>2
    <2>3. i \in 1..k - 1 => ~SeenAsSplit(x.len)
      BY <1>2, <1>4, <2>1
    <2>4. SeenAsSplit(x.len)
      BY <1>7 DEF Large, SeenAsSplit
    <2> QED
      BY <2>1, <2>2, <2>3, <2>4
  <1>8. \A m : VerbOf(s, m)' = VerbOf(s, m)
    BY DEF VerbOf
  <1>9. OnTheWay(s, r)' = R \cup V /\ OnTheWay(s, r) = U \cup V
    BY DEF OnTheWay
  <1>10. Range(userCq[r])' = R
    OBVIOUS
  <1> HIDE DEF U, V, B, R
  <1>11. QueuesInOrder(s, r)'
    <2>1. Range(userWire[s])' = V
      BY DEF V
    <2> QED
      BY <1>3, <1>4, <1>8, <1>10, <2>1 DEF QueuesInOrder
  <1>12. \A x \in B, y \in OnTheWay(s, r)' : x.msg < y.msg
    BY <1>3, <1>4, <1>9
  <1>13. OnTheWay(s, r) = OnTheWay(s, r)' \cup B
    BY <1>4, <1>9
  <1>14. \A x \in B : /\ x \in UserItems /\ x.msg \in 1..Top(s) /\ x.msg <= batch[k].msg
                      /\ VerbOf(s, x.msg) = x.verb /\ TwoSided(x.verb)
                      /\ Large(x) => x = batch[k]
    BY <1>3, <1>4, <1>5, <1>6, <1>7
  <1> QED
    BY <1>4, <1>6, <1>11, <1>12, <1>13, <1>14 DEF B, TakenFirst

(* Nothing that was taken is split.                                         *)
LEMMA OrderHandOut ==
  ASSUME TypeOK, NEW s \in Sides, NEW r \in Sides, NEW k \in 1..Batch,
         NEW batch, Taking(s, r, k, batch), ~SeenAsSplit(batch[k].len),
         delivered'[r] = delivered[r] \o Wc(batch), rpc'[r] = rpc[r], rx'[r] = rx[r]
  PROVE  Order(s, r)' /\ Announced(s, r)' = Announced(s, r)
  <1>0. TakenFirst(s, r, k, batch)
    BY TakenInOrder
  <1>a. Order(s, r) /\ rpc[r] = "idle" /\ posted'[s] = posted[s] /\ Top(s)' = Top(s)
        /\ completed'[s] = completed[s] /\ userWire'[s] = userWire[s]
    BY DEF Taking
  <1>1. /\ QueuesInOrder(s, r)'
        /\ batch \in Seq(UserItems)
        /\ \A x \in Range(batch) : x.msg \in 1..Top(s) /\ (Large(x) => x = batch[k])
        /\ OnTheWay(s, r) = OnTheWay(s, r)' \cup Range(batch)
        /\ \A x \in Range(batch), y \in OnTheWay(s, r)' : x.msg < y.msg
    BY <1>0 DEF TakenFirst
  <1>2. \A x \in Range(batch) : ~Large(x)
    BY <1>1 DEF Large, SeenAsSplit
  <1>3. Announced(s, r)' = Announced(s, r)
    <2>1. {x \in OnTheWay(s, r) : Large(x)} = {x \in OnTheWay(s, r)' : Large(x)}
      BY <1>1, <1>2
    <2> QED
      BY <1>a, <2>1 DEF Announced
  <1>4. Msgs(delivered'[r]) = Msgs(delivered[r]) \cup {x.msg : x \in Range(batch)}
    BY <1>1, OrderTypes, WcType, Handing, Reported
  <1>5. HandedInOrder(s, r)'
    <2>1. Top(s) \in Int /\ \A m : VerbOf(s, m)' = VerbOf(s, m)
      BY <1>a, OrderTypes DEF VerbOf
    <2>2. \A x \in Range(batch) : x.msg <= Top(s)
      BY <1>1, <2>1
    <2>3. /\ \A m \in Msgs(delivered[r]) : m <= Top(s) /\ \A x \in OnTheWay(s, r) : m < x.msg
          /\ \A m \in completed[s] : m \in 1..Top(s) /\ VerbOf(s, m) = "WRITE"
                                     /\ \A y \in Range(userWire[s]) : m < y.msg
      BY <1>a DEF Order, HandedInOrder
    <2>4. \A m \in Msgs(delivered'[r]) : m <= Top(s) /\ \A x \in OnTheWay(s, r)' : m < x.msg
      BY <1>1, <1>4, <2>2, <2>3
    <2> QED
      BY <1>a, <2>1, <2>3, <2>4 DEF HandedInOrder
  <1> QED
    BY <1>a, <1>1, <1>3, <1>5 DEF Order, ReceptionInOrder

(* The last of what was taken is split.                                     *)
LEMMA OrderTake ==
  ASSUME TypeOK, NEW s \in Sides, NEW r \in Sides, NEW k \in 1..Batch,
         NEW batch, Taking(s, r, k, batch), SeenAsSplit(batch[k].len),
         rx'[r].batch = Wc(batch), rx'[r].buf = batch[k].msg,
         rpc'[r] = (IF batch[k].verb = "WRITE_WITH_IMM" THEN "wimm" ELSE "info"),
         delivered'[r] = delivered[r]
  PROVE  /\ Order(s, r)'
         /\ batch[k].msg \in Announced(s, r)
         /\ VerbOf(s, batch[k].msg) = batch[k].verb
         /\ Announced(s, r)' = IF batch[k].verb = "WRITE_WITH_IMM"
                               THEN Announced(s, r) \ {batch[k].msg} ELSE Announced(s, r)
  <1>0. TakenFirst(s, r, k, batch)
    BY TakenInOrder
  <1>a. Order(s, r) /\ rpc[r] = "idle" /\ posted'[s] = posted[s] /\ Top(s)' = Top(s)
        /\ completed'[s] = completed[s] /\ userWire'[s] = userWire[s]
    BY DEF Taking
  <1>1. /\ QueuesInOrder(s, r)'
        /\ batch \in Seq(UserItems) /\ batch[k] \in Range(batch)
        /\ \A x \in Range(batch) :
             /\ x \in UserItems /\ x.msg \in 1..Top(s) /\ x.msg <= batch[k].msg
             /\ VerbOf(s, x.msg) = x.verb /\ TwoSided(x.verb)
             /\ Large(x) => x = batch[k]
        /\ OnTheWay(s, r) = OnTheWay(s, r)' \cup Range(batch)
        /\ \A x \in Range(batch), y \in OnTheWay(s, r)' : x.msg < y.msg
    BY <1>0 DEF TakenFirst
  <1>2. PICK x \in UserItems : x = batch[k]
    BY <1>1
  <1>3. /\ Large(x) /\ x.msg \in 1..Top(s) /\ VerbOf(s, x.msg) = x.verb /\ TwoSided(x.verb)
        /\ x \in OnTheWay(s, r) /\ x.msg \in Nat
        /\ x.verb # "WRITE_WITH_IMM" => x.verb = "SEND"
    BY <1>1, <1>2 DEF Large, SeenAsSplit, UserItems, Verbs, TwoSided
  <1>4. \A m : VerbOf(s, m)' = VerbOf(s, m)
    BY <1>a DEF VerbOf
  <1>5. HandedInOrder(s, r)'
    BY <1>a, <1>1, <1>4 DEF Order, HandedInOrder
  <1>6. ReceptionInOrder(s, r)'
    <2>1. \A y \in OnTheWay(s, r)' : x.msg < y.msg
      BY <1>1, <1>2
    <2>2. Msgs(rx[r].batch)' = {y.msg : y \in Range(batch)}
      BY <1>1, Reported
    <2>3. \A m \in Msgs(rx[r].batch)' : m <= x.msg
      BY <1>1, <1>2, <2>2
    <2>4. \A m \in Msgs(delivered[r]) : m < x.msg
      BY <1>a, <1>3 DEF Order, HandedInOrder
    <2> QED
      BY <1>a, <1>2, <1>3, <1>4, <2>1, <2>3, <2>4 DEF ReceptionInOrder
  <1>7. /\ x.msg \in Announced(s, r)
        /\ Announced(s, r) = {x.msg} \cup {y.msg : y \in {z \in OnTheWay(s, r)' : Large(z)}}
    <2>1. {z \in OnTheWay(s, r) : Large(z)} = {x} \cup {z \in OnTheWay(s, r)' : Large(z)}
      BY <1>1, <1>2, <1>3
    <2>2. Announced(s, r) = {y.msg : y \in {z \in OnTheWay(s, r) : Large(z)}}
      BY <1>a DEF Announced
    <2> QED
      BY <2>1, <2>2
  <1>8. \A y \in OnTheWay(s, r)' : y.msg # x.msg
    BY <1>1, <1>2, <1>3
  <1>9. Announced(s, r)' = {y.msg : y \in {z \in OnTheWay(s, r)' : Large(z)}}
                             \cup (IF rpc'[r] = "info" THEN {x.msg} ELSE {})
    BY <1>2 DEF Announced
  <1>10. CASE x.verb = "WRITE_WITH_IMM"
    BY <1>1, <1>2, <1>3, <1>5, <1>6, <1>7, <1>8, <1>9, <1>10 DEF Order
  <1>11. CASE x.verb # "WRITE_WITH_IMM"
    BY <1>1, <1>2, <1>3, <1>5, <1>6, <1>7, <1>9, <1>11 DEF Order
  <1> QED
    BY <1>10, <1>11

(* The message that was put together is handed out.                         *)
LEMMA OrderFinish ==
  ASSUME TypeOK, NEW s \in Sides, NEW r \in Sides, Order(s, r), rpc[r] # "idle",
         NEW wc \in Completions, Msgs(wc) = Msgs(rx[r].batch),
         delivered'[r] = delivered[r] \o wc, rpc'[r] = "idle",
         userCq'[r] = userCq[r], userWire'[s] = userWire[s], Top(s)' = Top(s),
         posted'[s] = posted[s], completed'[s] = completed[s]
  PROVE  Order(s, r)'
  <1>1. OnTheWay(s, r)' = OnTheWay(s, r)
    BY DEF OnTheWay
  <1>2. Msgs(delivered'[r]) = Msgs(delivered[r]) \cup Msgs(rx[r].batch)
    BY OrderTypes, Handing
  <1>3. /\ rx[r].buf \in Nat /\ Top(s) \in Int
        /\ Msgs(rx[r].batch) \subseteq Nat
        /\ \A x \in OnTheWay(s, r) : x.msg \in Nat
    BY OrderTypes
  <1>4. /\ rx[r].buf \in 1..Top(s)
        /\ \A x \in OnTheWay(s, r) : rx[r].buf < x.msg
        /\ \A m \in Msgs(rx[r].batch) : m <= rx[r].buf
    BY DEF Order, ReceptionInOrder
  <1>5. \A m : VerbOf(s, m)' = VerbOf(s, m)
    BY DEF VerbOf
  <1>6. QueuesInOrder(s, r)'
    BY <1>5 DEF Order, QueuesInOrder
  <1>7. \A m \in Msgs(rx[r].batch) : m <= Top(s) /\ \A x \in OnTheWay(s, r) : m < x.msg
    BY <1>3, <1>4
  <1>8. HandedInOrder(s, r)'
    BY <1>1, <1>2, <1>5, <1>7 DEF Order, HandedInOrder
  <1> QED
    BY <1>6, <1>8 DEF Order, ReceptionInOrder

(* The INFO of the message at hand is taken: it is announced no more.       *)
LEMMA AnnouncedOnce ==
  ASSUME TypeOK, NEW s \in Sides, NEW r \in Sides, Order(s, r), rpc[r] # "idle",
         rpc'[r] # "info", OnTheWay(s, r)' = OnTheWay(s, r)
  PROVE  /\ rpc[r] = "info" => rx[r].buf \in Announced(s, r)
         /\ Announced(s, r)' = Announced(s, r) \ {rx[r].buf}
  <1>1. rx[r].buf \in Nat /\ \A x \in OnTheWay(s, r) : x.msg \in Nat
    BY OrderTypes
  <1>2. \A x \in OnTheWay(s, r) : rx[r].buf < x.msg
    BY DEF Order, ReceptionInOrder
  <1>3. \A x \in OnTheWay(s, r) : x.msg # rx[r].buf
    BY <1>1, <1>2
  <1> QED
    BY <1>3 DEF Announced

-----------------------------------------------------------------------------
(* What an action leaves alone.                                             *)
Ends(s, r) ==
  /\ s \in Sides /\ r \in Sides /\ s # r /\ Sides = {s, r}
  /\ Peer(s) = r /\ Peer(r) = s

LEMMA BothEnds ==
  ASSUME NEW s \in Sides
  PROVE  Ends(s, Peer(s))
  <1>1. Peer(s) \in Sides /\ Peer(s) # s
    BY PeerInSides
  <1>2. PICK x, y \in Sides : x # y /\ Sides = {x, y}
    BY SidesAssumption
  <1>3. Sides = {s, Peer(s)}
    BY <1>1, <1>2
  <1>4. Peer(Peer(s)) \in Sides /\ Peer(Peer(s)) # Peer(s)
    BY <1>1, PeerInSides
  <1> QED
    BY <1>1, <1>3, <1>4 DEF Ends

SameSender(s) ==
  spc'[s] = spc[s] /\ job'[s] = job[s] /\ splitWire'[s] = splitWire[s]
  /\ sendCq'[s] = sendCq[s]
SameApp(s, r) ==
  posted'[s] = posted[s] /\ completed'[s] = completed[s] /\ delivered'[r] = delivered[r]
SameUser(s, r) == userWire'[s] = userWire[s] /\ userCq'[r] = userCq[r]
SameReceiver(r) == rpc'[r] = rpc[r] /\ rx'[r] = rx[r]
SameRequests(r) == splitRR'[r] = splitRR[r] /\ recvCq'[r] = recvCq[r] /\ fc'[r] = fc[r]
SameAcks(s, r) ==
  ackWire'[s] = ackWire[s] /\ ackWire'[r] = ackWire[r] /\ cq2'[s] = cq2[s] /\ cq2'[r] = cq2[r]
SameTurn == turn' = turn

(* The direction whose turn it is not.                                      *)
SameRest(s, r) ==
  /\ spc'[r] = spc[r] /\ splitWire'[r] = splitWire[r] /\ sendCq'[r] = sendCq[r]
  /\ SameApp(r, s) /\ SameUser(r, s)
  /\ rpc'[s] = rpc[s] /\ splitRR'[s] = splitRR[s] /\ recvCq'[s] = recvCq[s]
  /\ SameTurn

LEMMA RestStays ==
  ASSUME NEW s \in Sides, NEW r \in Sides, Resting(r, s), SameRest(s, r)
  PROVE  Resting(r, s)'
  <1>1. HandedInOrder(r, s)'
    BY DEF Resting, SameRest, SameApp, SameUser, HandedInOrder, OnTheWay, Top, VerbOf
  <1> QED
    BY <1>1 DEF Resting, SameRest, SameApp, SameUser

LEMMA OrderStays ==
  ASSUME NEW s \in Sides, NEW r \in Sides, Order(s, r), SameApp(s, r), SameUser(s, r),
         SameReceiver(r), Top(s)' = Top(s)
  PROVE  Order(s, r)' /\ Announced(s, r)' = Announced(s, r)
  <1>1. \A m : VerbOf(s, m)' = VerbOf(s, m)
    BY DEF VerbOf, SameApp
  <1>2. Order(s, r)'
    BY <1>1, OrderFrame DEF SameApp, SameUser, SameReceiver
  <1>3. Announced(s, r)' = Announced(s, r)
    BY DEF SameUser, SameReceiver, Announced, OnTheWay
  <1> QED
    BY <1>2, <1>3

LEMMA JobStays ==
  ASSUME NEW s \in Sides, JobLatest(s), spc'[s] = spc[s], job'[s] = job[s],
         posted'[s] = posted[s]
  PROVE  JobLatest(s)'
  BY DEF JobLatest, VerbOf

LEMMA OnSplitStays ==
  ASSUME NEW s \in Sides, OnSplitWire(s), SameSender(s)
  PROVE  OnSplitWire(s)'
  BY DEF OnSplitWire, SameSender, Announcement, IsChunk, IsWrite, Puts

LEMMA AcksStay ==
  ASSUME NEW s \in Sides, NEW r \in Sides, Acks(s, r), SameAcks(s, r),
         Announced(s, r) = {} => (Awaiting(s)' <=> Awaiting(s)),
         Announced(s, r)' = {} <=> Announced(s, r) = {},
         rpc'[r] = "ack" <=> rpc[r] = "ack"
  PROVE  Acks(s, r)'
  BY DEF Acks, SameAcks

(* Where the sender is, as far as the receiver is concerned.                *)
SamePlace(s) ==
  /\ InFlight(s) => InFlight(s)' /\ job'[s].msg = job[s].msg
  /\ Elsewhere(s) => Elsewhere(s)'
  /\ ImmLanded(s) => ImmLanded(s)'
  /\ Awaiting(s) => Awaiting(s)' /\ job'[s].msg = job[s].msg
                   /\ Announcement(s)' = Announcement(s)

LEMMA SenderStays ==
  ASSUME NEW s \in Sides, SameSender(s)
  PROVE  /\ SamePlace(s) /\ (Awaiting(s)' <=> Awaiting(s)) /\ (Chunking(s)' <=> Chunking(s))
         /\ Elsewhere(s)' <=> Elsewhere(s)
         /\ OneSent(s)' = OneSent(s) /\ ToLand(s)' = ToLand(s)
  BY DEF SamePlace, SameSender, Awaiting, Chunking, InFlight, ImmLanded, Elsewhere,
         Announcement, OneSent, ToLand

LEMMA OpenStays ==
  ASSUME NEW s \in Sides, NEW r \in Sides, Open(s, r), SamePlace(s), SameRequests(r),
         Expected(r)' = Expected(r), Announced(s, r)' = Announced(s, r)
  PROVE  Open(s, r)'
  BY DEF Open, SamePlace, SameRequests

LEMMA UsedStays ==
  ASSUME NEW s \in Sides, NEW r \in Sides, Used(s, r), SamePlace(s), SameRequests(r),
         Expected(r)' = Expected(r), Announced(s, r)' = Announced(s, r),
         \A d \in 1..Len(posted[s]) :
           d \in 1..Len(posted'[s]) /\ VerbOf(s, d)' = VerbOf(s, d)
  PROVE  Used(s, r)'
  <1>1. CASE Announced(s, r) = {} /\ ImmLanded(s)
    BY <1>1 DEF Used, SamePlace, SameRequests
  <1>2. CASE Announced(s, r) = {job[s].msg} /\ Awaiting(s) /\ fc[r] = Announcement(s)
    BY <1>2 DEF Used, SamePlace, SameRequests
  <1>3. CASE \E d \in 1..Len(posted[s]) :
               /\ NothingFollows(s, r, d)
               /\ \/ Announced(s, r) = {d} /\ Elsewhere(s)
                  \/ Announced(s, r) = {d, job[s].msg} /\ d < job[s].msg /\ InFlight(s)
    <2>1. PICK d \in 1..Len(posted[s]) :
               /\ NothingFollows(s, r, d)
               /\ \/ Announced(s, r) = {d} /\ Elsewhere(s)
                  \/ Announced(s, r) = {d, job[s].msg} /\ d < job[s].msg /\ InFlight(s)
      BY <1>3
    <2>2. NothingFollows(s, r, d)'
      BY <2>1 DEF NothingFollows, SameRequests
    <2> QED
      BY <2>1, <2>2 DEF Used, SamePlace, SameRequests
  <1> QED
    BY <1>1, <1>2, <1>3 DEF Used

LEMMA ExchangeStays ==
  ASSUME NEW s \in Sides, NEW r \in Sides, Exchange(s, r), SameRequests(r),
         Chunking(s)', ToLand(s)' = ToLand(s), job'[s].msg = job[s].msg,
         job'[s].chunk = job[s].chunk,
         job'[s].off - OneSent(s)' * job'[s].chunk = job[s].off - OneSent(s) * job[s].chunk,
         rpc'[r] \in {"ack", "chunks"}, rx'[r].buf = rx[r].buf, rx'[r].left = rx[r].left,
         Announced(s, r)' = Announced(s, r)
  PROVE  Exchange(s, r)'
  BY DEF Exchange, SameRequests

-----------------------------------------------------------------------------
(* The sender's actions.                                                    *)

Running(s, r) ==
  /\ TypeOK /\ SplitInv /\ Ends(s, r) /\ turn = s
  /\ Order(s, r) /\ JobLatest(s) /\ OnSplitWire(s) /\ Phase(s, r) /\ Acks(s, r)
  /\ rpc[r] # "failed" /\ Resting(r, s)

Kept(s, r) ==
  /\ Order(s, r)' /\ JobLatest(s)' /\ OnSplitWire(s)' /\ Phase(s, r)' /\ Acks(s, r)'
  /\ rpc'[r] # "failed" /\ SameRest(s, r)

LEMMA Posting ==
  ASSUME TypeOK, NEW s \in Sides, NEW r \in Sides, s # r, NEW verb, NEW len,
         NEW n \in Nat, n = Len(posted[s]),
         Accept(s, verb, len)
  PROVE  /\ spc[s] = "idle" /\ Len(posted'[s]) = n + 1
         /\ \A m \in 1..n : VerbOf(s, m)' = VerbOf(s, m)
         /\ VerbOf(s, n + 1)' = verb
         /\ SameApp(r, s) /\ completed' = completed /\ delivered' = delivered /\ SameTurn
  <1> DEFINE item == [verb |-> verb, len |-> len]
  <1>1. posted \in [Sides -> Seq([verb : Verbs, len : Lengths])]
    BY DEF TypeOK
  <1>2. posted' = [posted EXCEPT ![s] = Append(@, item)]
    BY DEF Accept
  <1>3. posted'[s] = Append(posted[s], item) /\ posted'[r] = posted[r]
    BY <1>1, <1>2
  <1>4. PICK q \in Seq([verb : Verbs, len : Lengths]) : q = posted[s]
    BY <1>1
  <1>5. /\ Len(Append(q, item)) = Len(q) + 1
        /\ \A m \in 1..Len(q) : Append(q, item)[m] = q[m]
        /\ Append(q, item)[Len(q) + 1] = item
    BY <1>4
  <1>6. /\ Len(posted'[s]) = n + 1
        /\ \A m \in 1..n : posted'[s][m] = posted[s][m]
        /\ posted'[s][n + 1] = item
    BY <1>3, <1>4, <1>5, Zenon
  <1>7. spc[s] = "idle" /\ UNCHANGED <<turn, delivered, completed>>
    BY DEF Accept
  <1> QED
    BY <1>3, <1>6, <1>7 DEF VerbOf, SameApp, SameTurn

(* When a call begins, nothing is on split_qp[0].                           *)
LEMMA BeforeCall ==
  ASSUME NEW s, NEW r, Running(s, r), spc[s] = "idle"
  PROVE  /\ splitWire[s] = <<>> /\ sendCq[s] = 0 /\ Elsewhere(s) /\ ~Awaiting(s)
         /\ ~Chunking(s) /\ ~InFlight(s) /\ ~ImmLanded(s)
         /\ \/ Open(s, r) /\ Announced(s, r) = {}
            \/ /\ Used(s, r)
               /\ \E d \in 1..Len(posted[s]) : NothingFollows(s, r, d) /\ Announced(s, r) = {d}
  <1>1. OnSplitWire(s) /\ Phase(s, r)
    BY DEF Running
  <1>2. splitWire[s] = <<>> /\ sendCq[s] = 0
    BY <1>1 DEF OnSplitWire
  <1>3. ~Awaiting(s) /\ ~Chunking(s) /\ ~InFlight(s) /\ ~ImmLanded(s)
    BY DEF Awaiting, Chunking, InFlight, ImmLanded
  <1> QED
    BY <1>1, <1>2, <1>3 DEF Phase, Open, Used, Exchange, Elsewhere

LEMMA PlaceWhole ==
  ASSUME NEW s, NEW r, Running(s, r), NEW verb \in Verbs, NEW len \in Lengths,
         NEW chunk \in Chunks, PostWhole(s, verb, len, chunk)
  PROVE  Kept(s, r)
  <1>1. /\ TypeOK /\ s \in Sides /\ r \in Sides /\ s # r /\ Order(s, r) /\ Acks(s, r)
        /\ JobLatest(s) /\ OnSplitWire(s) /\ rpc[r] # "failed"
    BY DEF Running, Ends
  <1>2. PICK n \in Nat : n = Len(posted[s])
    BY <1>1, OrderTypes
  <1>3. Accept(s, verb, len)
    BY DEF PostWhole
  <1>4. /\ spc[s] = "idle" /\ Len(posted'[s]) = n + 1
        /\ \A m \in 1..n : VerbOf(s, m)' = VerbOf(s, m)
        /\ VerbOf(s, n + 1)' = verb
        /\ SameApp(r, s) /\ completed' = completed /\ delivered' = delivered /\ SameTurn
    BY <1>1, <1>2, <1>3, Posting
  <1>5. UNCHANGED <<sendVars, recvVars, userCq, splitWire, splitRR, fc, sendCq,
                    recvCq, ackVars, placed, evVars>>
    BY DEF PostWhole
  <1>6. len \in Nat \ {0} /\ n + 1 \in Nat \ {0}
    BY <1>2, SizesAssumption
  <1>7. PICK x \in UserItems : x = [verb |-> verb, msg |-> n + 1, off |-> 0, len |-> len]
    BY <1>6 DEF UserItems
  <1>8. userWire \in [Sides -> Seq(UserItems)]
    BY <1>1 DEF TypeOK
  <1>9. userWire'[s] = Append(userWire[s], x) /\ userWire'[r] = userWire[r]
    BY <1>1, <1>2, <1>7, <1>8 DEF PostWhole, PostOnUserQP
  <1>10. Top(s) = n /\ Top(s)' = n + 1
    BY <1>2, <1>4, <1>5 DEF Top, sendVars
  <1>11. ~Large(x)
    <2>1. len \in Nat /\ chunk \in Nat /\ MinSplit \in Nat
      BY SizesAssumption
    <2> QED
      BY <1>7, <2>1 DEF Large, PostWhole, IsSplit
  <1>12. Order(s, r)' /\ Announced(s, r)' = Announced(s, r)
    <2>1. x.msg = n + 1 /\ x.verb = verb
      BY <1>7
    <2> QED
      BY <1>1, <1>2, <1>4, <1>5, <1>9, <1>10, <1>11, <2>1, OrderPost DEF recvVars
  <1>13. SameSender(s) /\ SameReceiver(r) /\ SameRequests(r) /\ SameAcks(s, r)
    BY <1>5 DEF SameSender, SameReceiver, SameRequests, SameAcks, sendVars, recvVars, ackVars
  <1>14. SameRest(s, r)
    BY <1>4, <1>5, <1>9 DEF SameRest, SameUser, sendVars, recvVars
  <1>15. JobLatest(s)'
    BY <1>4, <1>5 DEF JobLatest, sendVars
  <1>16. OnSplitWire(s)'
    BY <1>1, <1>13, OnSplitStays
  <1>17. Acks(s, r)'
    BY <1>1, <1>12, <1>13, SenderStays, AcksStay DEF SameReceiver
  <1>18. Phase(s, r)'
    <2>1. SamePlace(s) /\ Expected(r)' = Expected(r)
      BY <1>1, <1>13, SenderStays DEF Expected, SameReceiver
    <2>2. \A d \in 1..Len(posted[s]) : d \in 1..Len(posted'[s]) /\ VerbOf(s, d)' = VerbOf(s, d)
      BY <1>2, <1>4
    <2> QED
      BY <1>1, <1>4, <1>12, <1>13, <2>1, <2>2, BeforeCall, OpenStays, UsedStays DEF Phase
  <1> QED
    BY <1>1, <1>12, <1>13, <1>14, <1>15, <1>16, <1>17, <1>18 DEF Kept, SameReceiver

LEMMA ChunksCover ==
  ASSUME NEW len \in Nat \ {0}, NEW chunk \in Nat \ {0}
  PROVE  len <= chunk * ChunksBehind(len, chunk) + chunk
  <1>1. len + chunk - 1 \in Nat
    OBVIOUS
  <1>2. PICK n \in Nat \ {0} : n = NumChunks(len, chunk)
    BY NumChunksBounds
  <1>3. len + chunk - 1 < chunk * n + chunk
    BY <1>1, <1>2, Divide DEF NumChunks
  <1>4. PICK p \in Nat : p = chunk * n
    BY <1>2, Positive
  <1>5. chunk * (n - 1) = p - chunk
    BY <1>4, Distribute
  <1>6. len <= p
    BY <1>3, <1>4
  <1> QED
    BY <1>2, <1>5, <1>6 DEF ChunksBehind

LEMMA FirstIsLarge ==
  ASSUME LargeChunks, NEW len \in Nat \ {0}, NEW chunk \in Chunks, IsSplit("SEND", len, chunk)
  PROVE  Min({len, chunk}) \in Nat \ {0} /\ Min({len, chunk}) >= MinSplit
  <1>1. chunk \in Nat \ {0} /\ MinSplit \in Nat /\ chunk >= MinSplit
    BY SizesAssumption DEF LargeChunks
  <1>2. Min({len, chunk}) \in Nat \ {0}
    BY <1>1, MinOfTwo
  <1>3. \E m \in {len, chunk} : \A z \in {len, chunk} : m =< z
    BY <1>1
  <1>4. Min({len, chunk}) \in {len, chunk} /\ \A z \in {len, chunk} : Min({len, chunk}) =< z
    BY <1>3 DEF Min
  <1>5. len > chunk \/ len >= MinSplit
    BY DEF IsSplit
  <1>6. len >= MinSplit
    BY <1>1, <1>5
  <1> QED
    BY <1>1, <1>2, <1>4, <1>6

LEMMA PlaceSplit ==
  ASSUME LargeChunks, NEW s, NEW r, Running(s, r), NEW len \in Lengths,
         NEW chunk \in Chunks, PostSplit(s, len, chunk)
  PROVE  Kept(s, r)
  <1>1. /\ TypeOK /\ s \in Sides /\ r \in Sides /\ s # r /\ Order(s, r) /\ Acks(s, r)
        /\ OnSplitWire(s) /\ Phase(s, r) /\ rpc[r] # "failed"
    BY DEF Running, Ends
  <1>2. PICK n \in Nat : n = Len(posted[s])
    BY <1>1, OrderTypes
  <1>3. Accept(s, "SEND", len) /\ IsSplit("SEND", len, chunk)
    BY DEF PostSplit
  <1>4. /\ spc[s] = "idle" /\ Len(posted'[s]) = n + 1
        /\ \A m \in 1..n : VerbOf(s, m)' = VerbOf(s, m)
        /\ VerbOf(s, n + 1)' = "SEND"
        /\ SameApp(r, s) /\ completed' = completed /\ delivered' = delivered /\ SameTurn
    BY <1>1, <1>2, <1>3, Posting
  <1>5. UNCHANGED <<recvVars, userCq, splitRR, fc, sendCq, recvCq, ackVars, placed, evVars>>
    BY DEF PostSplit
  <1>6. len \in Nat \ {0} /\ chunk \in Nat \ {0} /\ n + 1 \in Nat \ {0}
    BY <1>2, SizesAssumption
  <1>7. PICK first \in Nat \ {0} : first = Min({len, chunk}) /\ first >= MinSplit
    BY <1>3, <1>6, FirstIsLarge
  <1>8. PICK left \in Nat : left = ChunksBehind(len, chunk)
    BY <1>6, NumChunksBounds DEF ChunksBehind
  <1>9. PICK x \in UserItems : x = [verb |-> "SEND", msg |-> n + 1, off |-> 0, len |-> first]
    BY <1>6 DEF UserItems, Verbs
  <1>10. PICK info \in Items : info = [kind |-> "info", chunks |-> left, size |-> chunk]
    BY DEF Items
  <1>11. PICK j : j = [msg |-> n + 1, len |-> len, chunk |-> chunk, left |-> left, off |-> 0]
    OBVIOUS
  <1>12. /\ userWire \in [Sides -> Seq(UserItems)] /\ splitWire \in [Sides -> Seq(Items)]
         /\ SpcOK /\ job \in [Sides -> Jobs]
    BY <1>1 DEF TypeOK, SpcOK
  <1>13. userWire'[s] = Append(userWire[s], x) /\ userWire'[r] = userWire[r]
    BY <1>1, <1>2, <1>7, <1>9, <1>12 DEF PostSplit, PostOnUserQP
  <1>14. splitWire'[s] = Append(splitWire[s], info) /\ splitWire'[r] = splitWire[r]
    BY <1>1, <1>8, <1>10, <1>12 DEF PostSplit, PostOnSplitQP
  <1>15. spc'[s] = "info" /\ spc'[r] = spc[r] /\ job'[s] = j
    BY <1>1, <1>2, <1>8, <1>11, <1>12 DEF PostSplit, SpcOK
  <1>16. /\ splitWire[s] = <<>> /\ sendCq[s] = 0
         /\ \/ Open(s, r) /\ Announced(s, r) = {}
            \/ /\ Used(s, r)
               /\ \E d \in 1..Len(posted[s]) : NothingFollows(s, r, d) /\ Announced(s, r) = {d}
    BY <1>4, BeforeCall
  <1>17. splitWire'[s] = <<info>> /\ splitWire'[s] # <<>> /\ sendCq'[s] = 0
    BY <1>5, <1>14, <1>16
  <1>18. Top(s) = n /\ Top(s)' = n + 1
    BY <1>2, <1>4, <1>15 DEF Top
  <1>19. Order(s, r)' /\ Announced(s, r)' = Announced(s, r) \cup {n + 1}
    <2>1. x.msg = n + 1 /\ x.verb = "SEND" /\ Large(x)
      BY <1>7, <1>9 DEF Large, TwoSided
    <2> QED
      BY <1>1, <1>2, <1>4, <1>5, <1>13, <1>18, <2>1, OrderPost DEF recvVars
  <1>20. SameReceiver(r) /\ SameRequests(r) /\ SameAcks(s, r)
    BY <1>5 DEF SameReceiver, SameRequests, SameAcks, recvVars, ackVars
  <1>21. SameRest(s, r)
    BY <1>4, <1>5, <1>13, <1>14, <1>15 DEF SameRest, SameUser, recvVars
  <1>22. JobLatest(s)'
    <2>1. len <= chunk * left + chunk
      BY <1>6, <1>8, ChunksCover
    <2>2. PICK p \in Nat : p = chunk * left
      BY <1>6
    <2>3. len <= 0 + p + chunk
      BY <1>6, <2>1, <2>2
    <2>4. j.msg = n + 1 /\ j.len = len /\ j.chunk = chunk /\ j.left = left /\ j.off = 0
      BY <1>11
    <2>5. n + 1 > 0
      OBVIOUS
    <2> QED
      BY <1>4, <1>15, <2>2, <2>3, <2>4, <2>5 DEF JobLatest
  <1>23. Announcement(s)' = info
    BY <1>10, <1>11, <1>15 DEF Announcement
  <1>24. OnSplitWire(s)'
    BY <1>15, <1>17, <1>23 DEF OnSplitWire
  <1>25. InFlight(s)' /\ ~Awaiting(s)' /\ ~Awaiting(s)
    BY <1>4, <1>15, <1>17 DEF InFlight, Awaiting
  <1>26. Acks(s, r)'
    BY <1>1, <1>4, <1>5, <1>20, <1>25 DEF Acks, SameAcks, SameReceiver
  <1>27. Expected(r)' = Expected(r) /\ job'[s].msg = n + 1
    BY <1>11, <1>15, <1>20 DEF Expected, SameReceiver
  <1>28. CASE Open(s, r) /\ Announced(s, r) = {}
    <2>1. Open(s, r)'
      BY <1>19, <1>20, <1>25, <1>27, <1>28 DEF Open, SameRequests
    <2> QED
      BY <1>1, <1>19, <1>20, <1>21, <1>22, <1>24, <1>26, <2>1 DEF Kept, Phase, SameReceiver
  <1>29. ASSUME Used(s, r), NEW d \in 1..Len(posted[s]), NothingFollows(s, r, d),
                Announced(s, r) = {d}
         PROVE  Kept(s, r)
    <2>1. d \in 1..n /\ d \in 1..n + 1 /\ d < n + 1 /\ Len(posted[s])' = n + 1
      BY <1>2, <1>4, <1>29
    <2>2. NothingFollows(s, r, d)'
      BY <1>4, <1>20, <1>29, <2>1 DEF NothingFollows, SameRequests
    <2>3. Announced(s, r)' = {d, n + 1}
      BY <1>19, <1>29
    <2>4. splitRR'[r] = <<>> /\ Len(recvCq'[r]) = Expected(r)' + 1
      BY <1>20, <1>27, <1>29 DEF Used, SameRequests
    <2>5. Used(s, r)'
      BY <1>25, <1>27, <2>1, <2>2, <2>3, <2>4 DEF Used
    <2> QED
      BY <1>1, <1>19, <1>20, <1>21, <1>22, <1>24, <1>26, <2>5 DEF Kept, Phase, SameReceiver
  <1> QED
    BY <1>16, <1>28, <1>29

LEMMA PlaceStart ==
  ASSUME NEW s, NEW r, Running(s, r), NEW len \in Lengths, NEW chunk \in Chunks,
         StartWimm(s, len, chunk) \/ StartPut(s, len, chunk)
  PROVE  Kept(s, r)
  <1>1. /\ TypeOK /\ s \in Sides /\ r \in Sides /\ s # r /\ Order(s, r) /\ Acks(s, r)
        /\ OnSplitWire(s) /\ Phase(s, r) /\ rpc[r] # "failed"
    BY DEF Running, Ends
  <1>2. PICK n \in Nat : n = Len(posted[s])
    BY <1>1, OrderTypes
  <1>3. PICK verb, pc :
          /\ Accept(s, verb, len) /\ IsSplit(verb, len, chunk)
          /\ spc' = [spc EXCEPT ![s] = pc]
          /\ \/ verb = "WRITE_WITH_IMM" /\ pc = "write"
             \/ verb = "WRITE" /\ pc = "put"
    BY DEF StartWimm, StartPut
  <1>4. /\ spc[s] = "idle" /\ Len(posted'[s]) = n + 1
        /\ \A m \in 1..n : VerbOf(s, m)' = VerbOf(s, m)
        /\ VerbOf(s, n + 1)' = verb
        /\ SameApp(r, s) /\ completed' = completed /\ delivered' = delivered /\ SameTurn
    BY <1>1, <1>2, <1>3, Posting
  <1>5. UNCHANGED <<recvVars, userWire, userCq, splitWire, splitRR, fc, sendCq, recvCq,
                    ackVars, placed, evVars>>
    BY DEF StartWimm, StartPut
  <1>6. SpcOK /\ job \in [Sides -> Jobs]
    BY <1>1 DEF TypeOK, SpcOK
  <1>7. spc'[s] = pc /\ spc'[r] = spc[r]
    BY <1>1, <1>3, <1>6 DEF SpcOK
  <1>8. job'[s].msg = n + 1 /\ job'[s].len = len /\ job'[s].chunk = chunk
    BY <1>1, <1>2, <1>6 DEF StartWimm, StartPut
  <1>9. /\ splitWire[s] = <<>> /\ sendCq[s] = 0 /\ ~Awaiting(s)
        /\ ~Chunking(s) /\ ~InFlight(s) /\ ~ImmLanded(s)
    BY <1>4, BeforeCall
  <1>10. Top(s) = n /\ Top(s)' = n
    BY <1>2, <1>3, <1>4, <1>7 DEF Top
  <1>11. SameReceiver(r) /\ SameRequests(r) /\ SameAcks(s, r) /\ SameUser(s, r)
    BY <1>5 DEF SameReceiver, SameRequests, SameAcks, SameUser, recvVars, ackVars
  <1>12. Order(s, r)'
    BY <1>1, <1>4, <1>10, <1>11, OrderFrame DEF SameReceiver, SameUser
  <1>13. Announced(s, r)' = Announced(s, r)
    BY <1>11 DEF Announced, OnTheWay, SameReceiver, SameUser
  <1>14. SameRest(s, r)
    BY <1>4, <1>5, <1>7 DEF SameRest, SameUser, recvVars
  <1>15. JobLatest(s)'
    <2>1. n + 1 > 0
      OBVIOUS
    <2> QED
      BY <1>3, <1>4, <1>7, <1>8, <2>1 DEF JobLatest
  <1>16. OnSplitWire(s)'
    BY <1>3, <1>5, <1>7, <1>9 DEF OnSplitWire, Puts
  <1>17. Elsewhere(s)' /\ ~Awaiting(s)'
    BY <1>3, <1>7 DEF Elsewhere, Awaiting, Chunking, InFlight, ImmLanded
  <1>18. SamePlace(s) /\ Expected(r)' = Expected(r)
    BY <1>9, <1>11, <1>17 DEF SamePlace, Expected, SameReceiver
  <1>19. Acks(s, r)'
    BY <1>1, <1>9, <1>11, <1>13, <1>17, AcksStay DEF SameReceiver
  <1>20. Phase(s, r)'
    <2>1. \A d \in 1..Len(posted[s]) : d \in 1..Len(posted'[s]) /\ VerbOf(s, d)' = VerbOf(s, d)
      BY <1>2, <1>4
    <2> QED
      BY <1>1, <1>4, <1>11, <1>13, <1>18, <2>1, BeforeCall, OpenStays, UsedStays DEF Phase
  <1> QED
    BY <1>1, <1>11, <1>12, <1>14, <1>15, <1>16, <1>19, <1>20 DEF Kept, SameReceiver

(* Nothing but the sender moves, and the receiver does not notice.          *)
LEMMA SenderOnly ==
  ASSUME NEW s, NEW r, Ends(s, r), spc'[r] = spc[r], splitWire'[r] = splitWire[r],
         sendCq'[r] = sendCq[r],
         UNCHANGED <<appVars, recvVars, userWire, userCq, splitRR, fc, recvCq>>
  PROVE  /\ SameApp(s, r) /\ SameUser(s, r) /\ SameReceiver(r) /\ SameRequests(r)
         /\ SameRest(s, r)
  BY DEF SameApp, SameUser, SameReceiver, SameRequests, SameRest, SameTurn, appVars, recvVars

LEMMA SenderMoves ==
  ASSUME NEW s, NEW r, Running(s, r), SameApp(s, r), SameUser(s, r), SameReceiver(r),
         SameRequests(r), SameRest(s, r), Top(s)' = Top(s), SamePlace(s),
         SameAcks(s, r), Awaiting(s)' <=> Awaiting(s),
         JobLatest(s)', OnSplitWire(s)', Exchange(s, r) => Exchange(s, r)'
  PROVE  Kept(s, r)
  <1>1. /\ TypeOK /\ s \in Sides /\ r \in Sides /\ Order(s, r) /\ Acks(s, r)
        /\ Phase(s, r) /\ rpc[r] # "failed"
    BY DEF Running, Ends
  <1>2. Order(s, r)' /\ Announced(s, r)' = Announced(s, r)
    BY <1>1, OrderStays
  <1>3. Expected(r)' = Expected(r) /\ rpc'[r] # "failed"
    BY <1>1 DEF Expected, SameReceiver
  <1>4. Acks(s, r)'
    BY <1>1, <1>2, AcksStay DEF SameReceiver
  <1>5. \A d \in 1..Len(posted[s]) : d \in 1..Len(posted'[s]) /\ VerbOf(s, d)' = VerbOf(s, d)
    BY DEF SameApp, VerbOf
  <1>6. Phase(s, r)'
    BY <1>1, <1>2, <1>3, <1>5, OpenStays, UsedStays DEF Phase
  <1> QED
    BY <1>2, <1>3, <1>4, <1>6 DEF Kept

(* What the sender polls for has landed, and nothing else.                  *)
LEMMA SenderPolls ==
  ASSUME NEW s, NEW r, Running(s, r), sendCq[s] > 0,
         spc[s] \in {"info", "sent", "written", "flush"},
         sendCq' = [sendCq EXCEPT ![s] = @ - 1]
  PROVE  splitWire[s] = <<>> /\ sendCq'[s] = 0 /\ sendCq'[r] = sendCq[r]
  <1>0. OnSplitWire(s) /\ Ends(s, r) /\ TypeOK
    BY DEF Running
  <1>1. sendCq \in [Sides -> Nat]
    BY <1>0 DEF TypeOK
  <1>2. splitWire[s] = <<>> /\ sendCq[s] = 1
    <2>1. sendCq[s] # 0
      OBVIOUS
    <2> QED
      BY <1>0, <2>1, Zenon DEF OnSplitWire
  <1> QED
    BY <1>0, <1>1, <1>2 DEF Ends

LEMMA SenderFields ==
  ASSUME NEW s, NEW r, Running(s, r)
  PROVE  /\ TypeOK /\ s \in Sides /\ r \in Sides /\ s # r /\ Ends(s, r)
         /\ JobLatest(s) /\ OnSplitWire(s) /\ JobInv(s)
         /\ SpcOK /\ job \in [Sides -> Jobs]
         /\ splitWire \in [Sides -> Seq(Items)] /\ userWire \in [Sides -> Seq(UserItems)]
         /\ cq2 \in [Sides -> Nat]
         /\ job[s].msg \in Nat /\ job[s].len \in Nat /\ job[s].chunk \in Nat
         /\ job[s].left \in Nat /\ job[s].off \in Nat
         /\ Len(posted[s]) \in Nat /\ Top(s) \in Int
  <1>1. /\ TypeOK /\ s \in Sides /\ r \in Sides /\ s # r /\ Ends(s, r)
        /\ JobLatest(s) /\ OnSplitWire(s) /\ JobInv(s)
    BY DEF Running, Ends, SplitInv
  <1>2. /\ SpcOK /\ job \in [Sides -> Jobs] /\ splitWire \in [Sides -> Seq(Items)]
        /\ userWire \in [Sides -> Seq(UserItems)] /\ cq2 \in [Sides -> Nat]
    BY <1>1 DEF TypeOK, SpcOK
  <1>3. Len(posted[s]) \in Nat /\ Top(s) \in Int
    BY <1>1, OrderTypes
  <1> QED
    BY <1>1, <1>2, <1>3, JobFields

LEMMA PlaceInfoSent ==
  ASSUME NEW s, NEW r, Running(s, r), PollInfoSent(s)
  PROVE  Kept(s, r)
  <1>1. /\ s \in Sides /\ r \in Sides /\ s # r /\ Ends(s, r)
        /\ JobLatest(s) /\ SpcOK /\ job \in [Sides -> Jobs] /\ job[s].left \in Nat
    BY SenderFields
  <1>2. /\ spc[s] = "info" /\ UNCHANGED <<appVars, recvVars, userWire, userCq, splitRR, fc, recvCq>>
        /\ splitWire' = splitWire /\ ackWire' = ackWire /\ cq2' = cq2
        /\ sendCq[s] > 0 /\ sendCq' = [sendCq EXCEPT ![s] = @ - 1]
    BY DEF PollInfoSent
  <1>3. splitWire[s] = <<>> /\ sendCq'[s] = 0 /\ sendCq'[r] = sendCq[r] /\ splitWire'[s] = <<>>
    BY <1>2, SenderPolls
  <1>4. /\ spc'[r] = spc[r]
        /\ \/ job[s].left = 0 /\ spc'[s] = "idle"
           \/ job[s].left > 0 /\ spc'[s] = "ack" /\ job' = job
    BY <1>1 DEF PollInfoSent, Return, SpcOK
  <1>5. /\ SameApp(s, r) /\ SameUser(s, r) /\ SameReceiver(r) /\ SameRequests(r)
        /\ SameRest(s, r) /\ SameAcks(s, r)
    BY <1>1, <1>2, <1>3, <1>4, SenderOnly DEF SameAcks
  <1>6. Top(s)' = Top(s)
    BY <1>2, <1>4, <1>5 DEF Top, SameApp
  <1>7. JobLatest(s)'
    BY <1>1, <1>2, <1>4, <1>5 DEF JobLatest, SameApp, VerbOf
  <1>8. OnSplitWire(s)'
    BY <1>3, <1>4 DEF OnSplitWire
  <1>9. /\ SamePlace(s) /\ (Awaiting(s)' <=> Awaiting(s)) /\ (Chunking(s) => Chunking(s)')
    BY <1>2, <1>3, <1>4
    DEF SamePlace, Awaiting, Chunking, InFlight, Elsewhere, ImmLanded, Announcement
  <1>10. ASSUME Exchange(s, r) PROVE Exchange(s, r)'
    <2>1. Chunking(s) /\ job' = job
      BY <1>2, <1>3, <1>4, <1>10 DEF Exchange, Chunking, Awaiting
    <2>2. OneSent(s)' = OneSent(s) /\ ToLand(s)' = ToLand(s)
      BY <1>2, <1>4, <2>1 DEF OneSent, ToLand
    <2>3. Order(s, r)
      BY DEF Running
    <2>4. Announced(s, r)' = Announced(s, r)
      BY <1>1, <1>5, <1>6, <2>3, OrderStays
    <2> QED
      BY <1>1, <1>5, <1>9, <1>10, <2>1, <2>2, <2>4, ExchangeStays DEF SameReceiver, Exchange
  <1> QED
    BY <1>5, <1>6, <1>7, <1>8, <1>9, <1>10, SenderMoves

LEMMA PlaceAck ==
  ASSUME NEW s, NEW r, Running(s, r), PollAck(s)
  PROVE  Kept(s, r)
  <1>1. /\ TypeOK /\ s \in Sides /\ r \in Sides /\ s # r /\ Ends(s, r)
        /\ JobLatest(s) /\ OnSplitWire(s) /\ SpcOK /\ cq2 \in [Sides -> Nat]
    BY SenderFields
  <1>2. /\ Order(s, r) /\ Phase(s, r) /\ Acks(s, r) /\ rpc[r] # "failed"
    BY DEF Running
  <1>3. /\ spc[s] = "ack" /\ cq2[s] > 0
        /\ UNCHANGED <<appVars, recvVars, userWire, userCq, splitRR, fc, recvCq>>
        /\ splitWire' = splitWire /\ ackWire' = ackWire /\ sendCq' = sendCq /\ job' = job
    BY DEF PollAck
  <1>4. /\ spc'[r] = spc[r] /\ spc'[s] = "chunk"
        /\ cq2'[r] = cq2[r] /\ cq2'[s] = cq2[s] - 1
    BY <1>1 DEF PollAck, SpcOK
  <1>5. SameApp(s, r) /\ SameUser(s, r) /\ SameReceiver(r) /\ SameRequests(r) /\ SameRest(s, r)
    BY <1>1, <1>3, <1>4, SenderOnly
  <1>6. Top(s)' = Top(s)
    BY <1>3, <1>4, <1>5 DEF Top, SameApp
  <1>7. Order(s, r)' /\ Announced(s, r)' = Announced(s, r)
    BY <1>1, <1>2, <1>5, <1>6, OrderStays
  <1>8. JobLatest(s)'
    BY <1>1, <1>3, <1>4, <1>5 DEF JobLatest, SameApp, VerbOf
  <1>9. OnSplitWire(s)'
    BY <1>1, <1>3, <1>4 DEF OnSplitWire
  <1>10. Awaiting(s) /\ ~Elsewhere(s) /\ ~InFlight(s) /\ ~ImmLanded(s)
    BY <1>3 DEF Awaiting, Chunking, InFlight, Elsewhere, ImmLanded
  <1>11. ackWire[s] = 0 /\ ackWire[r] \in Nat /\ cq2[s] \in Nat
    BY <1>1, <1>2 DEF TypeOK, Acks
  <1>12. Announced(s, r) = {} /\ ackWire[r] + cq2[s] = 1
    BY <1>2, <1>3, <1>11 DEF Acks
  <1>13. Exchange(s, r)
    BY <1>2, <1>10, <1>12 DEF Phase, Open, Used
  <1>14. Exchange(s, r)'
    <2>1. Chunking(s)' /\ OneSent(s)' = OneSent(s) /\ ToLand(s)' = ToLand(s)
      BY <1>3, <1>4 DEF Chunking, OneSent, ToLand
    <2> QED
      BY <1>1, <1>3, <1>5, <1>7, <1>13, <2>1, ExchangeStays DEF SameReceiver, Exchange
  <1>15. Acks(s, r)'
    <2>1. ~Awaiting(s)' /\ ackWire'[r] + cq2'[s] = 0
      BY <1>3, <1>4, <1>11, <1>12 DEF Awaiting
    <2> QED
      BY <1>2, <1>3, <1>4, <1>5, <2>1 DEF Acks, SameReceiver
  <1> QED
    BY <1>2, <1>5, <1>7, <1>8, <1>9, <1>14, <1>15 DEF Kept, Phase, SameReceiver

LEMMA PlaceChunkSent ==
  ASSUME NEW s, NEW r, Running(s, r), PollChunkSent(s)
  PROVE  Kept(s, r)
  <1>1. /\ s \in Sides /\ r \in Sides /\ s # r /\ Ends(s, r)
        /\ JobLatest(s) /\ SpcOK /\ job \in [Sides -> Jobs] /\ job[s].left \in Nat
    BY SenderFields
  <1>2. /\ spc[s] = "sent" /\ UNCHANGED <<appVars, recvVars, userWire, userCq, splitRR, fc, recvCq>>
        /\ splitWire' = splitWire /\ ackWire' = ackWire /\ cq2' = cq2
        /\ sendCq[s] > 0 /\ sendCq' = [sendCq EXCEPT ![s] = @ - 1]
    BY DEF PollChunkSent
  <1>3. splitWire[s] = <<>> /\ sendCq'[s] = 0 /\ sendCq'[r] = sendCq[r] /\ splitWire'[s] = <<>>
    BY <1>2, SenderPolls
  <1>4. /\ spc'[r] = spc[r]
        /\ \/ job[s].left = 0 /\ spc'[s] = "idle"
           \/ job[s].left > 0 /\ spc'[s] = "chunk" /\ job' = job
    BY <1>1 DEF PollChunkSent, Return, SpcOK
  <1>5. /\ SameApp(s, r) /\ SameUser(s, r) /\ SameReceiver(r) /\ SameRequests(r)
        /\ SameRest(s, r) /\ SameAcks(s, r)
    BY <1>1, <1>2, <1>3, <1>4, SenderOnly DEF SameAcks
  <1>6. Top(s)' = Top(s)
    BY <1>2, <1>4, <1>5 DEF Top, SameApp
  <1>7. JobLatest(s)'
    BY <1>1, <1>2, <1>4, <1>5 DEF JobLatest, SameApp, VerbOf
  <1>8. OnSplitWire(s)'
    BY <1>3, <1>4 DEF OnSplitWire
  <1>9. /\ SamePlace(s) /\ (Awaiting(s)' <=> Awaiting(s)) /\ (Chunking(s) => Chunking(s)')
    BY <1>2, <1>3, <1>4
    DEF SamePlace, Awaiting, Chunking, InFlight, Elsewhere, ImmLanded, Announcement
  <1>10. ASSUME Exchange(s, r) PROVE Exchange(s, r)'
    <2>1. Chunking(s) /\ job' = job
      BY <1>2, <1>3, <1>4, <1>10 DEF Exchange, Chunking, Awaiting
    <2>2. OneSent(s)' = OneSent(s) /\ ToLand(s)' = ToLand(s)
      BY <1>3, <1>4, <2>1 DEF OneSent, ToLand
    <2>3. Order(s, r)
      BY DEF Running
    <2>4. Announced(s, r)' = Announced(s, r)
      BY <1>1, <1>5, <1>6, <2>3, OrderStays
    <2> QED
      BY <1>1, <1>5, <1>9, <1>10, <2>1, <2>2, <2>4, ExchangeStays DEF SameReceiver, Exchange
  <1> QED
    BY <1>5, <1>6, <1>7, <1>8, <1>9, <1>10, SenderMoves

LEMMA PlaceChunk ==
  ASSUME NEW s, NEW r, Running(s, r), PostChunk(s)
  PROVE  Kept(s, r)
  <1>1. /\ s \in Sides /\ r \in Sides /\ s # r /\ Ends(s, r) /\ OnSplitWire(s) /\ JobInv(s)
        /\ JobLatest(s) /\ SpcOK /\ job \in [Sides -> Jobs]
        /\ splitWire \in [Sides -> Seq(Items)]
    BY SenderFields
  <1>2. /\ spc[s] = "chunk" /\ UNCHANGED <<appVars, recvVars, userWire, userCq, splitRR, fc, recvCq>>
        /\ ackWire' = ackWire /\ cq2' = cq2 /\ sendCq' = sendCq
    BY DEF PostChunk, ackVars
  <1>3. PICK j \in Jobs : j = job[s]
    BY <1>1
  <1>4. /\ j.msg \in Nat \ {0} /\ j.len \in Nat /\ j.chunk \in Nat \ {0} /\ j.left \in Nat \ {0}
        /\ j.off \in Nat
    BY <1>1, <1>2, <1>3, SizesAssumption DEF JobInv, Jobs
  <1>5. PICK off \in Nat : off = j.off + j.chunk
    BY <1>4
  <1>6. PICK left \in Nat : left = j.left - 1
    BY <1>4
  <1>7. PICK item : item = [kind |-> "chunk", msg |-> j.msg, off |-> off,
                            len |-> IF j.left = 1 THEN j.len - off ELSE j.chunk]
    OBVIOUS
  <1>8. splitWire' = [splitWire EXCEPT ![s] = Append(@, item)]
    BY <1>3, <1>5, <1>7 DEF PostChunk, PostOnSplitQP
  <1>9. splitWire[s] = <<>> /\ sendCq[s] = 0
    BY <1>1, <1>2 DEF OnSplitWire
  <1>10. splitWire'[s] = <<item>> /\ splitWire'[r] = splitWire[r]
    BY <1>1, <1>8, <1>9
  <1>11. spc'[s] = "sent" /\ spc'[r] = spc[r]
    BY <1>1 DEF PostChunk, SpcOK
  <1>12. /\ job'[s].msg = j.msg /\ job'[s].len = j.len /\ job'[s].chunk = j.chunk
         /\ job'[s].off = off /\ job'[s].left = left
    <2>1. job'[s] = [j EXCEPT !.off = off, !.left = left]
      BY <1>1, <1>3, <1>5, <1>6 DEF PostChunk
    <2> QED
      BY <1>3, <2>1 DEF Jobs
  <1>13. /\ SameApp(s, r) /\ SameUser(s, r) /\ SameReceiver(r) /\ SameRequests(r)
         /\ SameRest(s, r) /\ SameAcks(s, r)
    BY <1>1, <1>2, <1>10, <1>11, SenderOnly DEF SameAcks
  <1>14. Top(s)' = Top(s)
    BY <1>2, <1>11, <1>13 DEF Top, SameApp
  <1>15. /\ VerbOf(s, Len(posted[s])) = "SEND" /\ Len(posted[s]) > 0 /\ j.msg = Len(posted[s])
         /\ j.len <= j.off + j.chunk * j.left + j.chunk
    BY <1>1, <1>2, <1>3 DEF JobLatest
  <1>16. PICK p \in Nat : p = j.chunk * j.left
    BY <1>4
  <1>17. j.chunk * left = p - j.chunk /\ (j.left = 1 => p = j.chunk)
    BY <1>4, <1>6, <1>16, Distribute
  <1>18. JobLatest(s)'
    <2>1. j.len <= off + (p - j.chunk) + j.chunk
      BY <1>4, <1>5, <1>15, <1>16
    <2>2. VerbOf(s, Len(posted[s]))' = "SEND" /\ Len(posted'[s]) = Len(posted[s])
      BY <1>13, <1>15 DEF SameApp, VerbOf
    <2> QED
      BY <1>11, <1>12, <1>15, <1>17, <2>1, <2>2 DEF JobLatest
  <1>19. OnSplitWire(s)'
    <2>1. j.left = 1 => j.len - off <= j.chunk
      BY <1>4, <1>5, <1>15, <1>16, <1>17
    <2>2. IsChunk(s, item)'
      BY <1>4, <1>7, <1>12, <2>1 DEF IsChunk
    <2>3. Len(<<item>>) = 1 /\ <<item>>[1] = item
      OBVIOUS
    <2> QED
      BY <1>2, <1>9, <1>10, <1>11, <2>2, <2>3 DEF OnSplitWire
  <1>20. SamePlace(s) /\ (Awaiting(s)' <=> Awaiting(s))
    BY <1>2, <1>11
    DEF SamePlace, Awaiting, Chunking, InFlight, Elsewhere, ImmLanded, Announcement
  <1>21. ASSUME Exchange(s, r) PROVE Exchange(s, r)'
    <2>1. Chunking(s)'
      BY <1>10, <1>11 DEF Chunking
    <2>2. OneSent(s) = 0 /\ OneSent(s)' = 1 /\ ToLand(s)' = ToLand(s)
      BY <1>2, <1>3, <1>4, <1>6, <1>10, <1>11, <1>12 DEF OneSent, ToLand
    <2>3. off - 1 * j.chunk = j.off - 0 * j.chunk
      BY <1>4, <1>5
    <2>4. Order(s, r)
      BY DEF Running
    <2>5. Announced(s, r)' = Announced(s, r)
      BY <1>1, <1>13, <1>14, <2>4, OrderStays
    <2>6. job'[s].off - OneSent(s)' * job'[s].chunk = job[s].off - OneSent(s) * job[s].chunk
      BY <1>3, <1>12, <2>2, <2>3, Zenon
    <2> QED
      BY <1>1, <1>3, <1>12, <1>13, <1>21, <2>1, <2>2, <2>5, <2>6, ExchangeStays
      DEF SameReceiver, Exchange
  <1> QED
    BY <1>13, <1>14, <1>18, <1>19, <1>20, <1>21, SenderMoves

LEMMA PlaceWrite ==
  ASSUME NEW s, NEW r, Running(s, r), PostWrite(s)
  PROVE  Kept(s, r)
  <1>1. /\ s \in Sides /\ r \in Sides /\ s # r /\ Ends(s, r) /\ OnSplitWire(s) /\ JobInv(s)
        /\ JobLatest(s) /\ SpcOK /\ job \in [Sides -> Jobs] /\ job[s].left \in Nat
        /\ splitWire \in [Sides -> Seq(Items)]
    BY SenderFields
  <1>2. /\ spc[s] = "write" /\ UNCHANGED <<appVars, recvVars, userWire, userCq, splitRR, fc, recvCq>>
        /\ ackWire' = ackWire /\ cq2' = cq2 /\ sendCq' = sendCq
    BY DEF PostWrite, ackVars
  <1>3. PICK item :
          /\ item = [kind |-> IF job[s].left = 1 THEN "wimm" ELSE "write",
                     msg |-> job[s].msg, off |-> job[s].off, len |-> NextLength(job[s]),
                     signaled |-> TRUE]
    OBVIOUS
  <1>4. splitWire' = [splitWire EXCEPT ![s] = Append(@, item)]
    BY <1>3 DEF PostWrite, PostOnSplitQP
  <1>5. splitWire[s] = <<>> /\ sendCq[s] = 0
    BY <1>1, <1>2 DEF OnSplitWire
  <1>6. splitWire'[s] = <<item>> /\ splitWire'[r] = splitWire[r]
    BY <1>1, <1>4, <1>5
  <1>7. spc'[s] = "written" /\ spc'[r] = spc[r]
    BY <1>1 DEF PostWrite, SpcOK
  <1>8. /\ job'[s].msg = job[s].msg /\ job'[s].len = job[s].len
        /\ job'[s].chunk = job[s].chunk /\ job'[s].left = job[s].left - 1
    BY <1>1 DEF PostWrite, Jobs
  <1>9. /\ SameApp(s, r) /\ SameUser(s, r) /\ SameReceiver(r) /\ SameRequests(r)
        /\ SameRest(s, r) /\ SameAcks(s, r)
    BY <1>1, <1>2, <1>6, <1>7, SenderOnly DEF SameAcks
  <1>10. Top(s)' = Top(s)
    BY <1>2, <1>7, <1>9 DEF Top, SameApp
  <1>11. JobLatest(s)'
    BY <1>1, <1>2, <1>7, <1>8, <1>9 DEF JobLatest, SameApp, VerbOf
  <1>12. OnSplitWire(s)'
    <2>1. job[s].left = 1 <=> job'[s].left = 0
      BY <1>1, <1>8
    <2>2. IsWrite(s, item)'
      BY <1>3, <2>1 DEF IsWrite
    <2>3. Len(<<item>>) = 1 /\ <<item>>[1] = item
      OBVIOUS
    <2> QED
      BY <1>2, <1>5, <1>6, <1>7, <2>2, <2>3 DEF OnSplitWire
  <1>13. /\ SamePlace(s) /\ (Awaiting(s)' <=> Awaiting(s)) /\ ~Chunking(s)
    BY <1>2, <1>6, <1>7
    DEF SamePlace, Awaiting, Chunking, InFlight, Elsewhere, ImmLanded, Announcement
  <1> QED
    BY <1>9, <1>10, <1>11, <1>12, <1>13, SenderMoves DEF Exchange

LEMMA PlacePut ==
  ASSUME NEW s, NEW r, Running(s, r), PostPut(s)
  PROVE  Kept(s, r)
  <1>1. /\ s \in Sides /\ r \in Sides /\ s # r /\ Ends(s, r) /\ OnSplitWire(s) /\ JobInv(s)
        /\ JobLatest(s) /\ SpcOK /\ job \in [Sides -> Jobs] /\ job[s].left \in Nat
        /\ splitWire \in [Sides -> Seq(Items)]
    BY SenderFields
  <1>2. /\ spc[s] = "put" /\ UNCHANGED <<appVars, recvVars, userWire, userCq, splitRR, fc, recvCq>>
        /\ ackWire' = ackWire /\ cq2' = cq2 /\ sendCq' = sendCq
    BY DEF PostPut, ackVars
  <1>3. PICK item :
          /\ item = [kind |-> "write", msg |-> job[s].msg, off |-> job[s].off,
                     len |-> job[s].chunk, signaled |-> Signaled(job[s])]
    OBVIOUS
  <1>4. splitWire' = [splitWire EXCEPT ![s] = Append(@, item)]
    BY <1>3 DEF PostPut, PostOnSplitQP
  <1>5. PICK q \in Seq(Items) : q = splitWire[s]
    BY <1>1
  <1>6. sendCq[s] = 0 /\ Puts(q, FALSE)
    BY <1>1, <1>2, <1>5 DEF OnSplitWire
  <1>7. splitWire'[s] = Append(q, item) /\ splitWire'[r] = splitWire[r]
    BY <1>1, <1>4, <1>5
  <1>8. PICK pc \in {"put", "flush"} : spc'[s] = pc /\ (pc = "flush" <=> job[s].left = 1)
    BY <1>1 DEF PostPut, SpcOK
  <1>9. spc'[r] = spc[r]
    BY <1>1 DEF PostPut, SpcOK
  <1>10. job'[s].msg = job[s].msg
    BY <1>1 DEF PostPut, Jobs
  <1>11. /\ SameApp(s, r) /\ SameUser(s, r) /\ SameReceiver(r) /\ SameRequests(r)
         /\ SameRest(s, r) /\ SameAcks(s, r)
    BY <1>1, <1>2, <1>7, <1>9, SenderOnly DEF SameAcks
  <1>12. Top(s)' = Top(s)
    BY <1>2, <1>8, <1>11 DEF Top, SameApp
  <1>13. JobLatest(s)'
    BY <1>1, <1>2, <1>8, <1>10, <1>11 DEF JobLatest, SameApp, VerbOf
  <1>14. OnSplitWire(s)'
    <2>1. PICK n \in Nat : n = Len(q) /\ DOMAIN q = 1..n
      BY Indices
    <2>2. PICK a : a = Append(q, item)
      OBVIOUS
    <2>3. /\ Len(a) = n + 1 /\ DOMAIN a = 1..n + 1
          /\ \A i \in 1..n : a[i] = q[i]
          /\ a[n + 1] = item
      BY <2>1, <2>2
    <2>4. \A i \in 1..n : q[i].kind = "write" /\ (q[i].signaled <=> FALSE)
      BY <1>6, <2>1 DEF Puts
    <2>5. item.kind = "write" /\ (item.signaled <=> pc = "flush")
      BY <1>3, <1>8 DEF Signaled
    <2>6. ASSUME NEW i \in 1..n + 1
          PROVE  a[i].kind = "write" /\ (a[i].signaled <=> pc = "flush" /\ i = n + 1)
      <3>1. CASE i \in 1..n
        <4>1. i # n + 1
          BY <3>1
        <4> QED
          BY <2>3, <2>4, <3>1, <4>1
      <3>2. CASE i = n + 1
        BY <2>3, <2>5, <3>2
      <3> QED
        BY <3>1, <3>2
    <2>7. a # <<>>
      BY <2>3
    <2>8. \A i \in DOMAIN a : a[i].kind = "write" /\ (a[i].signaled <=> pc = "flush" /\ i = Len(a))
      BY <2>3, <2>6
    <2>9. pc = "put" => Puts(a, FALSE)
      BY <2>8 DEF Puts
    <2>10. pc = "flush" => Puts(a, TRUE)
      BY <2>8 DEF Puts
    <2>11. splitWire'[s] = a /\ sendCq'[s] = 0
      BY <1>2, <1>6, <1>7, <2>2
    <2> QED
      BY <1>8, <2>7, <2>9, <2>10, <2>11 DEF OnSplitWire
  <1>15. /\ SamePlace(s) /\ (Awaiting(s)' <=> Awaiting(s)) /\ ~Chunking(s)
    BY <1>2, <1>8
    DEF SamePlace, Awaiting, Chunking, InFlight, Elsewhere, ImmLanded, Announcement
  <1> QED
    BY <1>11, <1>12, <1>13, <1>14, <1>15, SenderMoves DEF Exchange

LEMMA Remainder ==
  ASSUME NEW x \in Nat, NEW y \in Nat \ {0}, x <= y
  PROVE  x % y = (IF x = y THEN 0 ELSE x)
  OBVIOUS

LEMMA LastIsLarge ==
  ASSUME LargeChunks, NEW len \in Nat \ {0}, NEW chunk \in Chunks,
         IsSplit("WRITE_WITH_IMM", len, chunk)
  PROVE  LastLength(len, chunk) \in Nat \ {0} /\ LastLength(len, chunk) >= MinSplit
  <1>1. chunk \in Nat \ {0} /\ MinSplit \in Nat /\ chunk >= MinSplit
    BY SizesAssumption DEF LargeChunks
  <1>2. LastLength(len, chunk) \in Nat \ {0}
    BY <1>1, FirstLast
  <1>3. CASE NumChunks(len, chunk) # 1
    BY <1>1, <1>2, <1>3 DEF LastLength
  <1>4. CASE NumChunks(len, chunk) = 1
    <2>1. len <= chunk
      BY <1>1, <1>4, NumChunksBounds
    <2>2. len >= MinSplit
      BY <1>1, <2>1 DEF IsSplit
    <2>3. len % chunk = (IF len = chunk THEN 0 ELSE len)
      BY <1>1, <2>1, Remainder
    <2>4. LastLength(len, chunk) = FirstLength(len, chunk)
      BY <1>4 DEF LastLength
    <2>5. FirstLength(len, chunk) = chunk \/ FirstLength(len, chunk) = len
      BY <2>3 DEF FirstLength
    <2> QED
      BY <1>1, <1>2, <2>2, <2>4, <2>5
  <1> QED
    BY <1>3, <1>4

(* The last chunk of a message goes out on the user's queue pair.           *)
LEMMA LastPosted ==
  ASSUME NEW s, NEW r, Running(s, r), NEW verb \in Verbs, NEW len \in Nat \ {0},
         PostLast(s, verb, len), spc[s] \in {"written", "flush"},
         verb = VerbOf(s, job[s].msg),
         splitWire[s] = <<>>, sendCq'[s] = 0, sendCq'[r] = sendCq[r],
         UNCHANGED <<appVars, recvVars, userCq, splitWire, splitRR, fc, recvCq, ackVars>>
  PROVE  /\ Order(s, r)' /\ JobLatest(s)' /\ OnSplitWire(s)' /\ Acks(s, r)' /\ SameRest(s, r)
         /\ SameReceiver(r) /\ SameRequests(r) /\ SameApp(s, r) /\ Elsewhere(s)'
         /\ Announced(s, r)' = Announced(s, r) \cup
              (IF TwoSided(verb) /\ len >= MinSplit THEN {job[s].msg} ELSE {})
         /\ job[s].msg \in 1..Len(posted[s])
  <1>1. /\ TypeOK /\ s \in Sides /\ r \in Sides /\ s # r /\ Ends(s, r) /\ JobLatest(s)
        /\ SpcOK /\ userWire \in [Sides -> Seq(UserItems)]
        /\ job[s].off \in Nat /\ job[s].msg \in Nat
    BY SenderFields
  <1>2. Order(s, r) /\ Acks(s, r)
    BY DEF Running
  <1>3. PICK n \in Nat : n = Len(posted[s])
    BY <1>1, OrderTypes
  <1>4. job[s].msg = n /\ n > 0
    BY <1>1, <1>3 DEF JobLatest
  <1>0. PICK off \in Nat : off = job[s].off
    BY <1>1
  <1>a. n \in Nat \ {0}
    BY <1>4
  <1>5. PICK x \in UserItems : x = [verb |-> verb, msg |-> n, off |-> off, len |-> len]
    BY <1>a DEF UserItems
  <1>6. userWire'[s] = Append(userWire[s], x) /\ userWire'[r] = userWire[r]
    BY <1>0, <1>1, <1>4, <1>5 DEF PostLast, PostOnUserQP
  <1>7. spc'[s] = "idle" /\ spc'[r] = spc[r]
    BY <1>1 DEF PostLast, SpcOK
  <1>8. /\ SameApp(s, r) /\ SameReceiver(r) /\ SameRequests(r) /\ SameAcks(s, r)
        /\ SameRest(s, r)
    BY <1>1, <1>6, <1>7 DEF SameApp, SameReceiver, SameRequests, SameAcks, SameRest, SameUser,
         SameTurn, appVars, recvVars, ackVars
  <1>9. Top(s) = n - 1 /\ Top(s)' = n /\ n - 1 \in Nat /\ n = (n - 1) + 1
    BY <1>3, <1>4, <1>7, <1>8 DEF Top, SameApp
  <1>10. x.msg = n /\ x.verb = verb /\ x.len = len
    BY <1>5
  <1>11. \A m : VerbOf(s, m)' = VerbOf(s, m)
    BY <1>8 DEF VerbOf, SameApp
  <1>12. /\ Order(s, r)'
         /\ Announced(s, r)' = Announced(s, r) \cup (IF Large(x) THEN {x.msg} ELSE {})
    <2>1. VerbOf(s, x.msg)' = x.verb
      BY <1>4, <1>10, <1>11
    <2>2. x.msg = Top(s)' /\ Top(s)' = Top(s) + 1 /\ Top(s) \in Nat
      BY <1>9, <1>10
    <2>3. userCq'[r] = userCq[r] /\ completed'[s] = completed[s] /\ delivered'[r] = delivered[r]
      BY <1>8 DEF SameApp
    <2> QED
      BY <1>1, <1>2, <1>6, <1>8, <1>11, <2>1, <2>2, <2>3, OrderPost DEF SameReceiver
  <1>13. Announced(s, r)' = Announced(s, r) \cup
           (IF TwoSided(verb) /\ len >= MinSplit THEN {job[s].msg} ELSE {})
    BY <1>4, <1>10, <1>12 DEF Large
  <1>14. JobLatest(s)'
    BY <1>7 DEF JobLatest
  <1>15. OnSplitWire(s)'
    BY <1>7 DEF OnSplitWire
  <1>16. Elsewhere(s)' /\ ~Awaiting(s)' /\ ~Awaiting(s)
    BY <1>7 DEF Elsewhere, Awaiting, Chunking, InFlight, ImmLanded
  <1>17. Acks(s, r)'
    BY <1>2, <1>8, <1>16 DEF Acks, SameAcks, SameReceiver
  <1>18. job[s].msg \in 1..Len(posted[s])
    BY <1>3, <1>4
  <1> QED
    BY <1>8, <1>12, <1>13, <1>14, <1>15, <1>16, <1>17, <1>18

LEMMA PlaceWritten ==
  ASSUME LargeChunks, NEW s, NEW r, Running(s, r), PollWritten(s)
  PROVE  Kept(s, r)
  <1>1. /\ s \in Sides /\ r \in Sides /\ s # r /\ Ends(s, r) /\ JobInv(s)
        /\ JobLatest(s) /\ SpcOK /\ job[s].left \in Nat
    BY SenderFields
  <1>2. /\ spc[s] = "written" /\ UNCHANGED <<appVars, recvVars, userCq, splitWire, splitRR, fc, recvCq, ackVars>>
        /\ sendCq[s] > 0 /\ sendCq' = [sendCq EXCEPT ![s] = @ - 1]
    BY DEF PollWritten
  <1>3. splitWire[s] = <<>> /\ sendCq'[s] = 0 /\ sendCq'[r] = sendCq[r] /\ splitWire'[s] = <<>>
    BY <1>2, SenderPolls
  <1>4. CASE job[s].left # 0
    <2>1. spc'[s] = "write" /\ spc'[r] = spc[r] /\ job' = job /\ userWire' = userWire
      BY <1>1, <1>4 DEF PollWritten, SpcOK
    <2>2. UNCHANGED <<appVars, recvVars, userWire, userCq, splitRR, fc, recvCq>>
      BY <1>2, <2>1
    <2>3. splitWire'[r] = splitWire[r] /\ SameAcks(s, r)
      BY <1>2 DEF SameAcks, ackVars
    <2>4. /\ SameApp(s, r) /\ SameUser(s, r) /\ SameReceiver(r) /\ SameRequests(r)
          /\ SameRest(s, r)
      BY <1>1, <1>3, <2>1, <2>2, <2>3, SenderOnly
    <2>5. Top(s)' = Top(s)
      BY <1>2, <2>1, <2>4 DEF Top, SameApp
    <2>6. JobLatest(s)'
      BY <1>1, <1>2, <2>1, <2>4 DEF JobLatest, SameApp, VerbOf
    <2>7. OnSplitWire(s)'
      BY <1>3, <2>1 DEF OnSplitWire
    <2>8. /\ SamePlace(s) /\ (Awaiting(s)' <=> Awaiting(s)) /\ ~Chunking(s)
      BY <1>2, <1>4, <2>1
      DEF SamePlace, Awaiting, Chunking, InFlight, Elsewhere, ImmLanded, Announcement
    <2> QED
      BY <2>3, <2>4, <2>5, <2>6, <2>7, <2>8, SenderMoves DEF Exchange
  <1>5. CASE job[s].left = 0
    <2>1. PostLast(s, "WRITE_WITH_IMM", LastLength(job[s].len, job[s].chunk))
      BY <1>5 DEF PollWritten
    <2>2. /\ job[s].len \in Nat \ {0} /\ job[s].chunk \in Chunks
          /\ IsSplit("WRITE_WITH_IMM", job[s].len, job[s].chunk)
          /\ VerbOf(s, job[s].msg) = "WRITE_WITH_IMM"
      BY <1>1, <1>2 DEF JobInv, JobLatest
    <2>3. PICK len \in Nat \ {0} : len = LastLength(job[s].len, job[s].chunk) /\ len >= MinSplit
      BY <2>2, LastIsLarge
    <2>4. TwoSided("WRITE_WITH_IMM") /\ "WRITE_WITH_IMM" \in Verbs
      BY DEF TwoSided, Verbs
    <2>5. /\ Order(s, r)' /\ JobLatest(s)' /\ OnSplitWire(s)' /\ Acks(s, r)' /\ SameRest(s, r)
          /\ SameReceiver(r) /\ SameRequests(r) /\ SameApp(s, r) /\ Elsewhere(s)'
          /\ Announced(s, r)' = Announced(s, r) \cup
               (IF TwoSided("WRITE_WITH_IMM") /\ len >= MinSplit THEN {job[s].msg} ELSE {})
          /\ job[s].msg \in 1..Len(posted[s])
      BY <1>2, <1>3, <2>1, <2>2, <2>3, <2>4, LastPosted
    <2>6. Phase(s, r) /\ rpc[r] # "failed"
      BY DEF Running
    <2>7. ImmLanded(s) /\ ~Elsewhere(s) /\ ~InFlight(s) /\ ~Chunking(s) /\ ~Awaiting(s)
      BY <1>2, <1>3, <1>5 DEF ImmLanded, Elsewhere, InFlight, Chunking, Awaiting
    <2>8. Used(s, r) /\ Announced(s, r) = {}
      BY <2>6, <2>7 DEF Phase, Open, Used, Exchange
    <2>9. PICK d \in 1..Len(posted[s]) : d = job[s].msg
      BY <2>5
    <2>10. Announced(s, r)' = {d}
      BY <2>3, <2>4, <2>5, <2>8, <2>9
    <2>11. NothingFollows(s, r, d)' /\ d \in 1..Len(posted[s])'
      BY <2>2, <2>5, <2>9 DEF NothingFollows, VerbOf, SameApp
    <2>12. splitRR'[r] = <<>> /\ Len(recvCq'[r]) = Expected(r)' + 1
      BY <2>5, <2>8 DEF Used, SameRequests, Expected, SameReceiver
    <2>13. Used(s, r)'
      BY <2>5, <2>10, <2>11, <2>12 DEF Used
    <2> QED
      BY <2>5, <2>6, <2>13 DEF Kept, Phase, SameReceiver
  <1> QED
    BY <1>4, <1>5

LEMMA PlaceFlushed ==
  ASSUME NEW s, NEW r, Running(s, r), PollPut(s)
  PROVE  Kept(s, r)
  <1>1. /\ s \in Sides /\ r \in Sides /\ s # r /\ Ends(s, r) /\ JobInv(s) /\ JobLatest(s)
        /\ job[s].left \in Nat /\ job[s].off \in Nat /\ job[s].chunk \in Nat
    BY SenderFields
  <1>2. /\ spc[s] = "flush" /\ UNCHANGED <<appVars, recvVars, userCq, splitWire, splitRR, fc, recvCq, ackVars>>
        /\ sendCq[s] > 0 /\ sendCq' = [sendCq EXCEPT ![s] = @ - 1]
    BY DEF PollPut
  <1>3. splitWire[s] = <<>> /\ sendCq'[s] = 0 /\ sendCq'[r] = sendCq[r]
    BY <1>2, SenderPolls
  <1>4. /\ job[s].len \in Nat \ {0} /\ job[s].off + job[s].chunk * job[s].left < job[s].len
        /\ VerbOf(s, job[s].msg) = "WRITE"
    BY <1>1, <1>2 DEF JobInv, JobLatest
  <1>5. PICK p \in Nat : p = job[s].chunk * job[s].left
    BY <1>1
  <1>6. PICK len \in Nat \ {0} : len = job[s].len - job[s].off
    BY <1>1, <1>4, <1>5
  <1>7. PostLast(s, "WRITE", len)
    BY <1>6 DEF PollPut
  <1>8. ~TwoSided("WRITE") /\ "WRITE" \in Verbs
    BY DEF TwoSided, Verbs
  <1>9. /\ Order(s, r)' /\ JobLatest(s)' /\ OnSplitWire(s)' /\ Acks(s, r)' /\ SameRest(s, r)
        /\ SameReceiver(r) /\ SameRequests(r) /\ SameApp(s, r) /\ Elsewhere(s)'
        /\ Announced(s, r)' = Announced(s, r) \cup
             (IF TwoSided("WRITE") /\ len >= MinSplit THEN {job[s].msg} ELSE {})
    BY <1>2, <1>3, <1>4, <1>7, <1>8, LastPosted
  <1>10. Announced(s, r)' = Announced(s, r)
    BY <1>8, <1>9
  <1>11. Phase(s, r) /\ rpc[r] # "failed"
    BY DEF Running
  <1>12. ~ImmLanded(s) /\ ~InFlight(s) /\ ~Chunking(s) /\ ~Awaiting(s)
    BY <1>2 DEF ImmLanded, InFlight, Chunking, Awaiting
  <1>13. SamePlace(s) /\ Expected(r)' = Expected(r)
    BY <1>9, <1>12 DEF SamePlace, Expected, SameReceiver
  <1>14. Phase(s, r)'
    <2>1. \A d \in 1..Len(posted[s]) : d \in 1..Len(posted'[s]) /\ VerbOf(s, d)' = VerbOf(s, d)
      BY <1>9 DEF SameApp, VerbOf
    <2>2. ~Exchange(s, r)
      BY <1>12 DEF Exchange
    <2> QED
      BY <1>1, <1>9, <1>10, <1>11, <1>13, <2>1, <2>2, OpenStays, UsedStays DEF Phase
  <1> QED
    BY <1>9, <1>11, <1>14 DEF Kept, SameReceiver

-----------------------------------------------------------------------------
(* The queue pairs' actions.                                                *)

LEMMA NothingPlaced ==
  ASSUME InPlace, placed' = placed, fc' = fc
  PROVE  InPlace'
  BY DEF InPlace

LEMMA OnePlaced ==
  ASSUME InPlace, NEW r \in Sides, NEW p, p.buf = p.msg, p.pos = p.off, p.len <= p.room,
         placed' = [placed EXCEPT ![r] = @ \cup {p}], fc' = fc
  PROVE  InPlace'
  <1>1. ASSUME NEW s \in Sides, NEW q \in placed'[s]
        PROVE  q.buf = q.msg /\ q.pos = q.off /\ q.len <= q.room
    BY <1>1 DEF InPlace
  <1> QED
    BY <1>1 DEF InPlace

LEMMA PlaceLandUser ==
  ASSUME NEW s, NEW r, Running(s, r), InPlace, LandUser(s)
  PROVE  Kept(s, r) /\ InPlace'
  <1>1. /\ TypeOK /\ s \in Sides /\ r \in Sides /\ s # r /\ Ends(s, r) /\ JobLatest(s)
        /\ OnSplitWire(s) /\ userWire \in [Sides -> Seq(UserItems)]
    BY SenderFields
  <1>2. Order(s, r) /\ Acks(s, r) /\ Phase(s, r) /\ rpc[r] # "failed"
    BY DEF Running
  <1>3. /\ userCq \in [Sides -> Seq(UserItems)] /\ completed \in [Sides -> SUBSET (Nat \ {0})]
    BY <1>1 DEF TypeOK
  <1>4. Peer(s) = r
    BY <1>1 DEF Ends
  <1>5. userWire[s] # <<>>
    BY DEF LandUser
  <1>6. PICK x \in UserItems : x = Head(userWire[s])
    BY <1>1, <1>5, TailInOrder
  <1>7. /\ userWire' = [userWire EXCEPT ![s] = Tail(@)]
        /\ placed' = [placed EXCEPT ![r] = @ \cup {Fill(Written(x), x)}]
        /\ \/ /\ TwoSided(x.verb) /\ completed' = completed
              /\ userCq' = [userCq EXCEPT ![r] = Append(@, x)]
           \/ /\ ~TwoSided(x.verb) /\ userCq' = userCq
              /\ completed' = [completed EXCEPT ![s] = @ \cup {x.msg}]
        /\ UNCHANGED <<turn, posted, delivered, sendVars, recvVars, splitWire,
                       splitRR, fc, sendCq, recvCq, ackVars, evVars>>
    BY <1>4, <1>6 DEF LandUser
  <1>8. userWire'[s] = Tail(userWire[s]) /\ userWire'[r] = userWire[r]
    BY <1>1, <1>7
  <1>9. /\ userCq'[s] = userCq[s] /\ completed'[r] = completed[r]
        /\ \/ /\ TwoSided(x.verb)
              /\ userCq'[r] = Append(userCq[r], x) /\ completed'[s] = completed[s]
           \/ /\ ~TwoSided(x.verb)
              /\ userCq'[r] = userCq[r] /\ completed'[s] = completed[s] \cup {x.msg}
    BY <1>1, <1>3, <1>7
  <1>10. /\ SameSender(s) /\ SameReceiver(r) /\ SameRequests(r) /\ SameAcks(s, r)
         /\ posted'[s] = posted[s] /\ delivered'[r] = delivered[r]
    BY <1>7 DEF SameSender, SameReceiver, SameRequests, SameAcks, sendVars, recvVars, ackVars
  <1>11. SameRest(s, r)
    BY <1>7, <1>8, <1>9 DEF SameRest, SameApp, SameUser, SameTurn, sendVars, recvVars
  <1>12. Top(s)' = Top(s)
    BY <1>10 DEF Top, SameSender
  <1>13. Order(s, r)' /\ Announced(s, r)' = Announced(s, r)
    BY <1>1, <1>2, <1>5, <1>6, <1>8, <1>9, <1>10, <1>12, OrderLand DEF SameReceiver
  <1>14. JobLatest(s)' /\ OnSplitWire(s)'
    BY <1>1, <1>10, JobStays, OnSplitStays DEF SameSender
  <1>15. /\ SamePlace(s) /\ (Awaiting(s)' <=> Awaiting(s)) /\ (Chunking(s)' <=> Chunking(s))
         /\ OneSent(s)' = OneSent(s) /\ ToLand(s)' = ToLand(s)
    BY <1>1, <1>10, SenderStays
  <1>16. Acks(s, r)'
    BY <1>1, <1>2, <1>10, <1>13, <1>15, AcksStay DEF SameReceiver
  <1>17. Expected(r)' = Expected(r)
    BY <1>10 DEF Expected, SameReceiver
  <1>18. Phase(s, r)'
    <2>1. CASE Open(s, r)
      BY <1>1, <1>10, <1>13, <1>15, <1>17, <2>1, OpenStays DEF Phase
    <2>2. CASE Used(s, r)
      <3>1. \A d \in 1..Len(posted[s]) : d \in 1..Len(posted'[s]) /\ VerbOf(s, d)' = VerbOf(s, d)
        BY <1>10 DEF VerbOf
      <3> QED
        BY <1>1, <1>10, <1>13, <1>15, <1>17, <2>2, <3>1, UsedStays DEF Phase
    <2>3. CASE Exchange(s, r)
      BY <1>1, <1>10, <1>13, <1>15, <2>3, ExchangeStays
      DEF Phase, Exchange, SameSender, SameReceiver
    <2> QED
      BY <1>2, <2>1, <2>2, <2>3 DEF Phase
  <1>19. InPlace'
    <2>1. PICK p : p = Fill(Written(x), x)
      OBVIOUS
    <2>2. p.buf = p.msg /\ p.pos = p.off /\ p.len = p.room /\ p.len \in Nat
      BY <2>1 DEF Fill, Written, Piece, UserItems
    <2>3. p.len <= p.room
      BY <2>2
    <2> QED
      BY <1>1, <1>7, <2>1, <2>2, <2>3, OnePlaced
  <1> QED
    BY <1>2, <1>10, <1>11, <1>13, <1>14, <1>16, <1>18, <1>19 DEF Kept, SameReceiver

(* What may be on split_qp[0], and what is left when its first has landed.  *)
LEMMA NextToLand ==
  ASSUME NEW s, NEW r, Running(s, r), splitWire[s] # <<>>
  PROVE  LET q == splitWire[s]
             item == Head(q)
             rest == Tail(q)
         IN /\ sendCq[s] = 0 /\ item \in Items
            /\ \/ spc[s] = "info" /\ item = Announcement(s) /\ rest = <<>>
               \/ spc[s] = "sent" /\ IsChunk(s, item) /\ rest = <<>>
               \/ spc[s] = "written" /\ IsWrite(s, item) /\ rest = <<>>
               \/ spc[s] = "put" /\ item.kind = "write" /\ ~item.signaled /\ Puts(rest, FALSE)
               \/ spc[s] = "flush" /\ item.kind = "write" /\ item.signaled /\ rest = <<>>
               \/ /\ spc[s] = "flush" /\ item.kind = "write" /\ ~item.signaled
                  /\ rest # <<>> /\ Puts(rest, TRUE)
  <1>1. OnSplitWire(s) /\ SpcOK /\ s \in Sides /\ splitWire \in [Sides -> Seq(Items)]
    BY SenderFields
  <1>2. PICK q \in Seq(Items) : q = splitWire[s]
    BY <1>1
  <1>3. q # <<>> /\ Head(q) \in Items /\ Tail(q) \in Seq(Items)
    BY <1>2, HeadTailProperties
  <1>4. PICK n \in Nat : n = Len(q) /\ DOMAIN q = 1..n
    BY Indices
  <1>5. n > 0 /\ Head(q) = q[1] /\ Len(Tail(q)) = n - 1
    <2>1. n # 0
      BY <1>3, <1>4, EmptySeq
    <2>2. Len(Tail(q)) = Len(q) - 1
      BY <1>3, HeadTailProperties
    <2> QED
      BY <1>3, <1>4, <2>1, <2>2
  <1>6. \A i \in 1..n - 1 : Tail(q)[i] = q[i + 1]
    BY <1>3, <1>4, HeadTailProperties
  <1>7. PICK a \in Seq(Items) : a = Tail(q)
    BY <1>3
  <1>8. Len(a) = n - 1 /\ DOMAIN a = 1..n - 1 /\ (a = <<>> <=> n = 1)
    <2>1. Len(a) = n - 1
      BY <1>5, <1>7
    <2>2. DOMAIN a = 1..Len(a) /\ (a = <<>> <=> Len(a) = 0)
      BY Indices
    <2> QED
      BY <1>5, <2>1, <2>2
  <1>9. ASSUME NEW flush \in BOOLEAN, Puts(q, flush)
        PROVE  /\ q[1].kind = "write" /\ (q[1].signaled <=> flush /\ n = 1)
               /\ Puts(a, flush)
    <2>1. \A i \in 1..n : q[i].kind = "write" /\ (q[i].signaled <=> flush /\ i = n)
      BY <1>4, <1>9 DEF Puts
    <2>2. 1 \in 1..n
      BY <1>5
    <2>3. ASSUME NEW i \in 1..n - 1
          PROVE  a[i].kind = "write" /\ (a[i].signaled <=> flush /\ i = n - 1)
      <3>1. i + 1 \in 1..n /\ (i + 1 = n <=> i = n - 1)
        OBVIOUS
      <3>2. a[i] = q[i + 1]
        BY <1>6, <1>7
      <3> QED
        BY <2>1, <3>1, <3>2
    <2>4. \A i \in DOMAIN a : a[i].kind = "write" /\ (a[i].signaled <=> flush /\ i = Len(a))
      BY <1>8, <2>3
    <2> QED
      BY <2>1, <2>2, <2>4 DEF Puts
  <1>10. ~(q = <<>> /\ sendCq[s] = 1)
    BY <1>3
  <1>11. /\ spc[s] \notin {"idle", "ack", "chunk", "write"}
         /\ sendCq[s] = 0
         /\ spc[s] = "info" => q = <<Announcement(s)>>
         /\ spc[s] = "sent" => n = 1 /\ IsChunk(s, q[1])
         /\ spc[s] = "written" => n = 1 /\ IsWrite(s, q[1])
         /\ spc[s] = "put" => Puts(q, FALSE)
         /\ spc[s] = "flush" => Puts(q, TRUE)
    <2>1. spc[s] \in {"idle", "info", "ack", "chunk", "sent", "write", "written", "put", "flush"}
      BY <1>1 DEF SpcOK
    <2> QED
      BY <1>1, <1>2, <1>3, <1>4, <2>1, Zenon DEF OnSplitWire
  <1>12. spc[s] \in {"info", "sent", "written", "put", "flush"}
    BY <1>1, <1>11 DEF SpcOK
  <1>13. CASE spc[s] = "info"
    <2>1. q = <<Announcement(s)>>
      BY <1>11, <1>13
    <2>2. Head(q) = Announcement(s) /\ Tail(q) = <<>>
      BY <2>1
    <2> QED
      BY <1>2, <1>3, <1>11, <1>13, <2>2
  <1>14. CASE spc[s] = "sent"
    BY <1>2, <1>3, <1>5, <1>7, <1>8, <1>11, <1>14, Zenon
  <1>15. CASE spc[s] = "written"
    BY <1>2, <1>3, <1>5, <1>7, <1>8, <1>11, <1>15, Zenon
  <1>16. CASE spc[s] = "put"
    BY <1>2, <1>3, <1>5, <1>7, <1>9, <1>11, <1>16, Zenon
  <1>17. CASE spc[s] = "flush"
    BY <1>2, <1>3, <1>5, <1>7, <1>8, <1>9, <1>11, <1>17, Zenon
  <1> QED
    BY <1>12, <1>13, <1>14, <1>15, <1>16, <1>17

LEMMA SplitLanding ==
  ASSUME NEW s, NEW r, Running(s, r), LandSplit(s), sendCq'[r] = sendCq[r],
         splitRR'[s] = splitRR[s], recvCq'[s] = recvCq[s],
         Announced(s, r) = {} => (Awaiting(s)' <=> Awaiting(s))
  PROVE  /\ Order(s, r)' /\ Announced(s, r)' = Announced(s, r)
         /\ JobLatest(s)' /\ Acks(s, r)' /\ SameRest(s, r) /\ rpc'[r] # "failed"
         /\ spc' = spc /\ job' = job /\ rx' = rx /\ rpc' = rpc /\ posted' = posted
         /\ splitWire'[s] = Tail(splitWire[s]) /\ splitWire[s] # <<>>
         /\ Expected(r)' = Expected(r)
  <1>1. /\ TypeOK /\ s \in Sides /\ r \in Sides /\ s # r /\ Ends(s, r)
        /\ JobLatest(s) /\ splitWire \in [Sides -> Seq(Items)]
    BY SenderFields
  <1>2. Order(s, r) /\ Acks(s, r) /\ rpc[r] # "failed"
    BY DEF Running
  <1>3. /\ splitWire' = [splitWire EXCEPT ![s] = Tail(@)] /\ splitWire[s] # <<>>
        /\ UNCHANGED <<appVars, sendVars, recvVars, userWire, userCq, ackVars>>
    BY DEF LandSplit
  <1>4. splitWire'[s] = Tail(splitWire[s]) /\ splitWire'[r] = splitWire[r]
    BY <1>1, <1>3
  <1>5. /\ SameApp(s, r) /\ SameUser(s, r) /\ SameReceiver(r) /\ SameAcks(s, r)
        /\ SameRest(s, r)
    BY <1>3, <1>4 DEF SameApp, SameUser, SameReceiver, SameAcks, SameRest, SameTurn,
         appVars, sendVars, recvVars, ackVars
  <1>6. spc' = spc /\ job' = job /\ rx' = rx /\ rpc' = rpc /\ posted' = posted
    BY <1>3 DEF appVars, sendVars, recvVars
  <1>7. Top(s)' = Top(s)
    BY <1>6 DEF Top
  <1>8. Order(s, r)' /\ Announced(s, r)' = Announced(s, r)
    BY <1>1, <1>2, <1>5, <1>7, OrderStays
  <1>9. JobLatest(s)'
    BY <1>1, <1>6, JobStays
  <1>10. Acks(s, r)'
    BY <1>1, <1>2, <1>5, <1>6, <1>8, AcksStay
  <1>11. Expected(r)' = Expected(r)
    BY <1>6 DEF Expected
  <1> QED
    BY <1>2, <1>3, <1>4, <1>5, <1>6, <1>8, <1>9, <1>10, <1>11

LEMMA RequestUsed ==
  ASSUME TypeOK, NEW s, NEW r, Ends(s, r), NEW len, UseRequest(s, len)
  PROVE  /\ splitRR[r] # <<>> /\ splitRR'[r] = Tail(splitRR[r]) /\ splitRR'[s] = splitRR[s]
         /\ recvCq'[r] = Append(recvCq[r], len) /\ recvCq'[s] = recvCq[s]
         /\ sendCq'[s] = sendCq[s] + 1 /\ sendCq'[r] = sendCq[r]
         /\ Len(recvCq[r]) \in Nat /\ Len(recvCq'[r]) = Len(recvCq[r]) + 1
  <1>1. s \in Sides /\ r \in Sides /\ s # r /\ Peer(s) = r
    BY DEF Ends
  <1>2. splitRR \in [Sides -> Seq(Requests)] /\ recvCq \in [Sides -> Seq(Nat)]
    BY DEF TypeOK
  <1>3. sendCq \in [Sides -> Nat]
    BY DEF TypeOK
  <1>4. /\ splitRR[r] # <<>> /\ splitRR' = [splitRR EXCEPT ![r] = Tail(@)]
        /\ recvCq' = [recvCq EXCEPT ![r] = Append(@, len)]
        /\ sendCq' = [sendCq EXCEPT ![s] = @ + 1]
    BY <1>1 DEF UseRequest
  <1>5. /\ splitRR[r] # <<>> /\ splitRR'[r] = Tail(splitRR[r]) /\ splitRR'[s] = splitRR[s]
        /\ sendCq'[s] = sendCq[s] + 1 /\ sendCq'[r] = sendCq[r]
    BY <1>1, <1>2, <1>3, <1>4
  <1>6. recvCq'[r] = Append(recvCq[r], len) /\ recvCq'[s] = recvCq[s]
    BY <1>1, <1>2, <1>4
  <1>7. PICK q \in Seq(Nat) : q = recvCq[r]
    BY <1>1, <1>2
  <1>8. Len(q) \in Nat /\ Len(Append(q, len)) = Len(q) + 1
    BY <1>7
  <1> QED
    BY <1>5, <1>6, <1>7, <1>8

(* The INFO lands where it is expected.                                     *)
LEMMA PlaceInfoLands ==
  ASSUME NEW s, NEW r, Running(s, r), InPlace, LandSplitSend(s), spc[s] = "info"
  PROVE  Kept(s, r) /\ InPlace'
  <1>1. TypeOK /\ s \in Sides /\ r \in Sides /\ s # r /\ Ends(s, r) /\ job[s].left \in Nat
        /\ Peer(s) = r /\ Len(posted[s]) \in Nat /\ JobLatest(s)
    BY SenderFields DEF Ends
  <1>2. Phase(s, r) /\ rpc[r] # "failed"
    BY DEF Running
  <1>3. LandSplit(s) /\ splitWire[s] # <<>>
    BY DEF LandSplitSend, LandSplit
  <1>4. PICK item \in Items : item = Head(splitWire[s]) /\ item = Announcement(s)
    BY <1>3, NextToLand
  <1>5. sendCq[s] = 0 /\ Tail(splitWire[s]) = <<>>
    BY <1>3, NextToLand
  <1>6. item.kind = "info" /\ item.chunks = job[s].left
    BY <1>4 DEF Announcement
  <1>7. UseRequest(s, 0)
    BY <1>4, <1>6 DEF LandSplitSend
  <1>8. /\ splitRR[r] # <<>> /\ splitRR'[r] = Tail(splitRR[r]) /\ splitRR'[s] = splitRR[s]
        /\ recvCq'[s] = recvCq[s]
        /\ sendCq'[s] = sendCq[s] + 1 /\ sendCq'[r] = sendCq[r]
        /\ Len(recvCq[r]) \in Nat /\ Len(recvCq'[r]) = Len(recvCq[r]) + 1
    BY <1>1, <1>7, RequestUsed
  <1>9. InFlight(s) /\ ~Chunking(s) /\ ~Elsewhere(s)
    BY <1>3 DEF InFlight, Chunking, Awaiting, Elsewhere
  <1>10. Open(s, r) /\ Announced(s, r) = {job[s].msg}
    BY <1>2, <1>8, <1>9 DEF Phase, Open, Used, Exchange
  <1>11. splitRR[r] = <<InfoRequest>> /\ Len(recvCq[r]) = Expected(r)
    BY <1>10 DEF Open
  <1>12. Head(splitRR[r]).kind = "fc" /\ Tail(splitRR[r]) = <<>>
    BY <1>11 DEF InfoRequest
  <1>13. fc' = [fc EXCEPT ![r] = item] /\ placed' = placed
    BY <1>1, <1>4, <1>12 DEF LandSplitSend
  <1>14. fc \in [Sides -> Items \cup {None}]
    BY <1>1 DEF TypeOK
  <1>15. fc'[r] = item /\ fc'[s] = fc[s] /\ item # None
    BY <1>1, <1>13, <1>14, NoneAssumption
  <1>16. /\ Order(s, r)' /\ Announced(s, r)' = Announced(s, r)
         /\ JobLatest(s)' /\ Acks(s, r)' /\ SameRest(s, r) /\ rpc'[r] # "failed"
         /\ spc' = spc /\ job' = job /\ posted' = posted
         /\ splitWire'[s] = <<>> /\ Expected(r)' = Expected(r)
    BY <1>3, <1>5, <1>8, <1>10, SplitLanding
  <1>17. OnSplitWire(s)'
    BY <1>5, <1>8, <1>16 DEF OnSplitWire
  <1>18. splitRR'[r] = <<>> /\ Len(recvCq'[r]) = Expected(r)' + 1
    BY <1>8, <1>11, <1>12, <1>16
  <1>19. Used(s, r)'
    <2>1. CASE job[s].left > 0
      <3>1. Awaiting(s)'
        BY <1>16, <2>1 DEF Awaiting
      <3>2. fc'[r] = Announcement(s)'
        BY <1>4, <1>15, <1>16 DEF Announcement
      <3> QED
        BY <1>10, <1>16, <1>18, <3>1, <3>2 DEF Used
    <2>2. CASE job[s].left = 0
      <3>1. Elsewhere(s)'
        BY <1>16, <2>2 DEF Elsewhere, InFlight, Chunking, Awaiting, ImmLanded
      <3>2. PICK d \in 1..Len(posted[s]) : d = job[s].msg
        BY <1>1 DEF JobLatest
      <3>3. NothingFollows(s, r, d)' /\ d \in 1..Len(posted[s])'
        BY <1>6, <1>15, <1>16, <2>2 DEF NothingFollows
      <3>4. Announced(s, r)' = {d}
        BY <1>10, <1>16, <3>2
      <3> QED
        BY <1>18, <3>1, <3>3, <3>4 DEF Used
    <2> QED
      BY <1>1, <2>1, <2>2
  <1>20. InPlace'
    BY <1>1, <1>6, <1>13, <1>14 DEF InPlace
  <1> QED
    BY <1>16, <1>17, <1>19, <1>20 DEF Kept, Phase

(* A chunk lands in the request posted for it.                              *)
LEMMA PlaceChunkLands ==
  ASSUME NEW s, NEW r, Running(s, r), InPlace, LandSplitSend(s), spc[s] = "sent"
  PROVE  Kept(s, r) /\ InPlace'
  <1>1. TypeOK /\ s \in Sides /\ r \in Sides /\ s # r /\ Ends(s, r) /\ job[s].left \in Nat
        /\ Peer(s) = r /\ JobLatest(s) /\ job[s].chunk \in Nat /\ job[s].off \in Nat
    BY SenderFields DEF Ends
  <1>2. Phase(s, r) /\ rpc[r] # "failed"
    BY DEF Running
  <1>3. LandSplit(s) /\ splitWire[s] # <<>>
    BY DEF LandSplitSend, LandSplit
  <1>4. PICK item \in Items : item = Head(splitWire[s]) /\ IsChunk(s, item)
    BY <1>3, NextToLand
  <1>5. sendCq[s] = 0 /\ Tail(splitWire[s]) = <<>>
    BY <1>3, NextToLand
  <1>6. /\ item.kind = "chunk" /\ item.msg = job[s].msg /\ item.off = job[s].off
        /\ item.len <= job[s].chunk
    BY <1>4 DEF IsChunk
  <1>7. UseRequest(s, item.len)
    BY <1>4, <1>6 DEF LandSplitSend
  <1>8. /\ splitRR[r] # <<>> /\ splitRR'[r] = Tail(splitRR[r]) /\ splitRR'[s] = splitRR[s]
        /\ recvCq'[s] = recvCq[s]
        /\ sendCq'[s] = sendCq[s] + 1 /\ sendCq'[r] = sendCq[r]
        /\ Len(recvCq[r]) \in Nat /\ Len(recvCq'[r]) = Len(recvCq[r]) + 1
    BY <1>1, <1>7, RequestUsed
  <1>9. Chunking(s) /\ ~Elsewhere(s) /\ ~InFlight(s) /\ ~ImmLanded(s) /\ ~Awaiting(s)
    BY <1>3 DEF InFlight, Chunking, Awaiting, Elsewhere, ImmLanded
  <1>10. Exchange(s, r)
    BY <1>2, <1>9 DEF Phase, Open, Used
  <1>11. PICK n \in Nat : n = job[s].left
    BY <1>1
  <1>12. OneSent(s) = 1 /\ ToLand(s) = n + 1
    BY <1>3, <1>11 DEF OneSent, ToLand
  <1>13. PICK m \in Nat \ {0} : m = ToLand(s) /\ m = n + 1
    BY <1>11, <1>12
  <1>14. /\ rpc[r] \in {"ack", "chunks"} /\ rx[r].buf = job[s].msg /\ Announced(s, r) = {}
         /\ Len(recvCq[r]) + m = rx[r].left /\ Len(splitRR[r]) = m + 1
         /\ \A i \in 1..m :
              splitRR[r][i] = [kind |-> "buf", buf |-> job[s].msg, room |-> job[s].chunk,
                               pos |-> job[s].off - 1 * job[s].chunk + job[s].chunk * i]
         /\ splitRR[r][m + 1] = InfoRequest
    BY <1>10, <1>12, <1>13, Zenon DEF Exchange
  <1>15. PICK q \in Seq(Requests) : q = splitRR[r] /\ q # <<>>
    BY <1>1, <1>8 DEF TypeOK
  <1>16. PICK t \in Seq(Requests) : t = Tail(q)
    BY <1>15, HeadTailProperties
  <1>17. /\ Head(q) = q[1] /\ Len(t) = m
         /\ \A i \in 1..m : t[i] = q[i + 1]
    <2>1. Len(q) = m + 1 /\ Head(q) = q[1]
      BY <1>14, <1>15
    <2>2. Len(t) = Len(q) - 1 /\ \A i \in 1..Len(q) - 1 : Tail(q)[i] = q[i + 1]
      BY <1>15, <1>16, HeadTailProperties
    <2>3. m + 1 - 1 = m
      OBVIOUS
    <2> QED
      BY <1>16, <2>1, <2>2, <2>3
  <1>18. PICK request : /\ request = Head(splitRR[r]) /\ request.kind = "buf"
                        /\ request.buf = job[s].msg /\ request.room = job[s].chunk
                        /\ request.pos = job[s].off
    <2>1. 1 \in 1..m /\ job[s].off - 1 * job[s].chunk + job[s].chunk * 1 = job[s].off
      BY <1>1
    <2>2. splitRR[r][1] = [kind |-> "buf", buf |-> job[s].msg, room |-> job[s].chunk,
                           pos |-> job[s].off]
      BY <1>14, <2>1
    <2>3. Head(splitRR[r]) = splitRR[r][1]
      BY <1>15, <1>17
    <2> QED
      BY <2>2, <2>3
  <1>19. placed' = [placed EXCEPT ![r] = @ \cup {Fill(request, item)}] /\ fc' = fc
    <2>1. request.kind # "fc"
      BY <1>18
    <2> QED
      BY <1>1, <1>4, <1>6, <1>18, <2>1 DEF LandSplitSend
  <1>20. InPlace'
    <2>1. PICK p : p = Fill(request, item)
      OBVIOUS
    <2>2. p.buf = p.msg /\ p.pos = p.off /\ p.len <= p.room
      BY <1>6, <1>18, <2>1 DEF Fill, Piece
    <2> QED
      BY <1>1, <1>19, <2>1, <2>2, OnePlaced
  <1>21. spc' = spc /\ job' = job
    BY <1>3 DEF LandSplit, sendVars
  <1>22. ~Awaiting(s)'
    BY <1>21 DEF Awaiting
  <1>23. /\ Order(s, r)' /\ Announced(s, r)' = Announced(s, r)
         /\ JobLatest(s)' /\ Acks(s, r)' /\ SameRest(s, r) /\ rpc'[r] # "failed"
         /\ rx' = rx /\ rpc' = rpc /\ posted' = posted
         /\ splitWire'[s] = <<>> /\ Expected(r)' = Expected(r)
    BY <1>3, <1>5, <1>8, <1>9, <1>22, SplitLanding
  <1>24. OnSplitWire(s)'
    BY <1>5, <1>8, <1>21, <1>23 DEF OnSplitWire
  <1>25. PICK c \in Nat : c = Len(recvCq[r]) /\ Len(recvCq'[r]) = c + 1
    BY <1>8
  <1>26. splitRR'[r] = t
    BY <1>8, <1>15, <1>16
  <1>27. CASE n = 0
    <2>1. m = 1 /\ Len(t) = 1 /\ t[1] = InfoRequest
      BY <1>13, <1>14, <1>15, <1>17, <1>27
    <2>2. t = <<InfoRequest>>
      <3>1. Len(<<InfoRequest>>) = 1 /\ <<InfoRequest>>[1] = InfoRequest
        OBVIOUS
      <3>2. InfoRequest \in Requests
        BY DEF Requests
      <3>3. <<InfoRequest>> \in Seq(Requests)
        BY <3>2
      <3>4. PICK u \in Seq(Requests) : u = <<InfoRequest>>
        BY <3>3
      <3>5. Len(u) = 1 /\ u[1] = InfoRequest
        BY <3>1, <3>4
      <3>6. Len(t) = Len(u) /\ \A i \in 1..Len(t) : t[i] = u[i]
        BY <2>1, <3>5
      <3>7. t = u
        BY <3>6, SeqEqual
      <3> QED
        BY <3>4, <3>7
    <2>3. Elsewhere(s)'
      BY <1>11, <1>21, <1>23, <1>27 DEF Elsewhere, InFlight, Chunking, Awaiting, ImmLanded
    <2>4. Expected(r)' = rx[r].left /\ rx[r].left = c + 1
      BY <1>14, <1>23, <1>25, <2>1 DEF Expected
    <2>5. Open(s, r)'
      BY <1>14, <1>23, <1>25, <1>26, <2>2, <2>3, <2>4 DEF Open
    <2> QED
      BY <1>20, <1>23, <1>24, <2>5 DEF Kept, Phase
  <1>28. CASE n # 0
    <2>1. Chunking(s)' /\ OneSent(s)' = 0 /\ ToLand(s)' = n
      BY <1>11, <1>21, <1>23, <1>28 DEF Chunking, OneSent, ToLand
    <2>2. ASSUME NEW i \in 1..n
          PROVE  t[i] = [kind |-> "buf", buf |-> job[s].msg, room |-> job[s].chunk,
                         pos |-> job[s].off - 0 * job[s].chunk + job[s].chunk * i]
      <3>1. i \in 1..m /\ i + 1 \in 1..m
        BY <1>13
      <3>2. job[s].off - 1 * job[s].chunk + job[s].chunk * (i + 1) =
              job[s].off - 0 * job[s].chunk + job[s].chunk * i
        BY <1>1
      <3> QED
        BY <1>14, <1>15, <1>17, <3>1, <3>2
    <2>3. Len(t) = n + 1 /\ t[n + 1] = InfoRequest
      <3>1. n + 1 \in 1..m /\ n + 1 = m
        BY <1>13
      <3> QED
        BY <1>14, <1>15, <1>17, <3>1
    <2>4. (c + 1) + n = rx[r].left
      <3>1. c + m = rx[r].left
        BY <1>14, <1>25
      <3>2. (c + 1) + n = c + m
        BY <1>13
      <3> QED
        BY <3>1, <3>2
    <2>5. Exchange(s, r)'
      <3>1. rpc'[r] \in {"ack", "chunks"} /\ rx'[r].buf = job'[s].msg /\ Announced(s, r)' = {}
        BY <1>14, <1>21, <1>23
      <3>2. Len(recvCq'[r]) + ToLand(s)' = rx'[r].left /\ Len(splitRR'[r]) = ToLand(s)' + 1
        BY <1>23, <1>25, <1>26, <2>1, <2>3, <2>4
      <3>3. \A i \in 1..ToLand(s)' : splitRR'[r][i] =
              [kind |-> "buf", buf |-> job'[s].msg, room |-> job'[s].chunk,
               pos |-> job'[s].off - OneSent(s)' * job'[s].chunk + job'[s].chunk * i]
        BY <1>21, <1>26, <2>1, <2>2
      <3>4. splitRR'[r][ToLand(s)' + 1] = InfoRequest
        BY <1>26, <2>1, <2>3
      <3> QED
        BY <2>1, <3>1, <3>2, <3>3, <3>4, Zenon DEF Exchange
    <2> QED
      BY <1>20, <1>23, <1>24, <2>5 DEF Kept, Phase
  <1> QED
    BY <1>27, <1>28

LEMMA WritePlaced ==
  ASSUME NEW s, NEW r, Running(s, r), InPlace, LandSplitWrite(s)
  PROVE  InPlace'
  <1>1. r \in Sides /\ Peer(s) = r
    BY SenderFields DEF Ends
  <1>2. splitWire[s] # <<>>
    BY DEF LandSplitWrite, LandSplit
  <1>3. PICK item \in Items : item = Head(splitWire[s])
    BY <1>2, NextToLand
  <1>4. /\ item.kind \in {"write", "wimm"} /\ fc' = fc
        /\ placed' = [placed EXCEPT ![r] = @ \cup {Fill(Written(item), item)}]
    BY <1>1, <1>3 DEF LandSplitWrite
  <1>5. item.len \in Nat
    BY <1>3, <1>4 DEF Items
  <1>6. PICK p : p = Fill(Written(item), item)
    OBVIOUS
  <1>7. p.buf = p.msg /\ p.pos = p.off /\ p.len = p.room /\ p.len \in Nat
    BY <1>5, <1>6 DEF Fill, Written, Piece
  <1>8. p.len <= p.room
    BY <1>7
  <1> QED
    BY <1>1, <1>4, <1>6, <1>7, <1>8, OnePlaced

(* A chunk that is written uses no request.                                 *)
LEMMA PlaceWriteLands ==
  ASSUME NEW s, NEW r, Running(s, r), InPlace, LandSplitWrite(s),
         Head(splitWire[s]).kind = "write"
  PROVE  Kept(s, r) /\ InPlace'
  <1>1. /\ TypeOK /\ s \in Sides /\ r \in Sides /\ s # r /\ Ends(s, r)
    BY SenderFields
  <1>2. Phase(s, r)
    BY DEF Running
  <1>3. LandSplit(s) /\ splitWire[s] # <<>> /\ fc' = fc
    BY DEF LandSplitWrite, LandSplit
  <1>4. PICK item \in Items : item = Head(splitWire[s]) /\ item.kind = "write"
    BY <1>3, NextToLand
  <1>5. PICK rest : rest = Tail(splitWire[s])
    OBVIOUS
  <1>6. /\ sendCq[s] = 0
        /\ \/ spc[s] = "written" /\ IsWrite(s, item) /\ rest = <<>>
           \/ spc[s] = "put" /\ ~item.signaled /\ Puts(rest, FALSE)
           \/ spc[s] = "flush" /\ item.signaled /\ rest = <<>>
           \/ spc[s] = "flush" /\ ~item.signaled /\ rest # <<>> /\ Puts(rest, TRUE)
    <2>1. \/ spc[s] = "info" /\ item = Announcement(s) /\ rest = <<>>
          \/ spc[s] = "sent" /\ IsChunk(s, item) /\ rest = <<>>
          \/ spc[s] = "written" /\ IsWrite(s, item) /\ rest = <<>>
          \/ spc[s] = "put" /\ item.kind = "write" /\ ~item.signaled /\ Puts(rest, FALSE)
          \/ spc[s] = "flush" /\ item.kind = "write" /\ item.signaled /\ rest = <<>>
          \/ /\ spc[s] = "flush" /\ item.kind = "write" /\ ~item.signaled
             /\ rest # <<>> /\ Puts(rest, TRUE)
      BY <1>3, <1>4, <1>5, NextToLand
    <2>2. item # Announcement(s) /\ ~IsChunk(s, item)
      BY <1>4 DEF Announcement, IsChunk
    <2>3. sendCq[s] = 0
      BY <1>3, NextToLand
    <2> QED
      BY <2>1, <2>2, <2>3, Zenon
  <1>7. sendCq \in [Sides -> Nat]
    BY <1>1 DEF TypeOK
  <1>8. /\ sendCq'[r] = sendCq[r] /\ splitRR' = splitRR /\ recvCq' = recvCq
        /\ \/ item.signaled /\ sendCq'[s] = sendCq[s] + 1
           \/ ~item.signaled /\ sendCq'[s] = sendCq[s]
    BY <1>1, <1>4, <1>7 DEF LandSplitWrite
  <1>9. spc' = spc /\ job' = job
    BY <1>3 DEF LandSplit, sendVars
  <1>10. ~Awaiting(s) /\ ~Awaiting(s)' /\ ~Chunking(s)
    BY <1>6, <1>9 DEF Awaiting, Chunking
  <1>11. /\ Order(s, r)' /\ Announced(s, r)' = Announced(s, r)
         /\ JobLatest(s)' /\ Acks(s, r)' /\ SameRest(s, r) /\ rpc'[r] # "failed"
         /\ posted' = posted
         /\ splitWire'[s] = rest /\ Expected(r)' = Expected(r)
    BY <1>3, <1>5, <1>8, <1>10, SplitLanding
  <1>12. spc[s] = "written" => job[s].left # 0 /\ item.signaled
    <2>1. spc[s] = "written" => IsWrite(s, item)
      BY <1>6
    <2> QED
      BY <1>4, <2>1 DEF IsWrite
  <1>13. OnSplitWire(s)'
    <2>1. \/ spc'[s] \in {"written", "flush"} /\ splitWire'[s] = <<>> /\ sendCq'[s] = 1
          \/ spc'[s] = "put" /\ sendCq'[s] = 0 /\ Puts(splitWire'[s], FALSE)
          \/ /\ spc'[s] = "flush" /\ sendCq'[s] = 0 /\ splitWire'[s] # <<>>
             /\ Puts(splitWire'[s], TRUE)
      <3>1. item.signaled => sendCq'[s] = 1
        BY <1>6, <1>8
      <3>2. ~item.signaled => sendCq'[s] = 0
        BY <1>6, <1>8
      <3>3. spc'[s] = spc[s] /\ splitWire'[s] = rest
        BY <1>9, <1>11
      <3> QED
        BY <1>6, <1>12, <3>1, <3>2, <3>3
    <2> QED
      BY <2>1 DEF OnSplitWire
  <1>14. SamePlace(s)
    BY <1>6, <1>9, <1>10, <1>12 DEF SamePlace, Elsewhere, Chunking, Awaiting, InFlight, ImmLanded
  <1>15. SameRequests(r)
    BY <1>3, <1>8 DEF SameRequests
  <1>16. Phase(s, r)'
    <2>1. \A d \in 1..Len(posted[s]) : d \in 1..Len(posted'[s]) /\ VerbOf(s, d)' = VerbOf(s, d)
      BY <1>11 DEF VerbOf
    <2>2. ~Exchange(s, r)
      BY <1>10 DEF Exchange
    <2> QED
      BY <1>1, <1>2, <1>11, <1>14, <1>15, <2>1, <2>2, OpenStays, UsedStays DEF Phase
  <1>17. InPlace'
    BY WritePlaced
  <1> QED
    BY <1>11, <1>13, <1>16, <1>17 DEF Kept

(* The immediate uses up a request.                                         *)
LEMMA PlaceImmLands ==
  ASSUME NEW s, NEW r, Running(s, r), InPlace, LandSplitWrite(s),
         Head(splitWire[s]).kind = "wimm"
  PROVE  Kept(s, r) /\ InPlace'
  <1>1. /\ TypeOK /\ s \in Sides /\ r \in Sides /\ s # r /\ Ends(s, r)
    BY SenderFields
  <1>2. Phase(s, r)
    BY DEF Running
  <1>3. LandSplit(s) /\ splitWire[s] # <<>>
    BY DEF LandSplitWrite, LandSplit
  <1>4. PICK item \in Items : item = Head(splitWire[s]) /\ item.kind = "wimm"
    BY <1>3, NextToLand
  <1>5. PICK rest : rest = Tail(splitWire[s])
    OBVIOUS
  <1>6. sendCq[s] = 0 /\ spc[s] = "written" /\ IsWrite(s, item) /\ rest = <<>>
    <2>1. \/ spc[s] = "info" /\ item = Announcement(s) /\ rest = <<>>
          \/ spc[s] = "sent" /\ IsChunk(s, item) /\ rest = <<>>
          \/ spc[s] = "written" /\ IsWrite(s, item) /\ rest = <<>>
          \/ spc[s] = "put" /\ item.kind = "write" /\ ~item.signaled /\ Puts(rest, FALSE)
          \/ spc[s] = "flush" /\ item.kind = "write" /\ item.signaled /\ rest = <<>>
          \/ /\ spc[s] = "flush" /\ item.kind = "write" /\ ~item.signaled
             /\ rest # <<>> /\ Puts(rest, TRUE)
      BY <1>3, <1>4, <1>5, NextToLand
    <2>2. item # Announcement(s) /\ ~IsChunk(s, item)
      BY <1>4 DEF Announcement, IsChunk
    <2>3. sendCq[s] = 0
      BY <1>3, NextToLand
    <2> QED
      BY <1>4, <2>1, <2>2, <2>3
  <1>7. job[s].left = 0
    BY <1>4, <1>6 DEF IsWrite
  <1>8. UseRequest(s, item.len)
    BY <1>4 DEF LandSplitWrite
  <1>9. /\ splitRR[r] # <<>> /\ splitRR'[r] = Tail(splitRR[r]) /\ splitRR'[s] = splitRR[s]
        /\ recvCq'[s] = recvCq[s]
        /\ sendCq'[s] = sendCq[s] + 1 /\ sendCq'[r] = sendCq[r]
        /\ Len(recvCq[r]) \in Nat /\ Len(recvCq'[r]) = Len(recvCq[r]) + 1
    BY <1>1, <1>8, RequestUsed
  <1>10. spc' = spc /\ job' = job
    BY <1>3 DEF LandSplit, sendVars
  <1>11. ~Awaiting(s) /\ ~Awaiting(s)' /\ ~Chunking(s) /\ ~InFlight(s)
    BY <1>6, <1>10 DEF Awaiting, Chunking, InFlight
  <1>12. /\ Order(s, r)' /\ Announced(s, r)' = Announced(s, r)
         /\ JobLatest(s)' /\ Acks(s, r)' /\ SameRest(s, r) /\ rpc'[r] # "failed"
         /\ splitWire'[s] = <<>> /\ Expected(r)' = Expected(r)
    BY <1>3, <1>5, <1>6, <1>9, <1>11, SplitLanding
  <1>13. Open(s, r) /\ Announced(s, r) = {}
    BY <1>2, <1>9, <1>11 DEF Phase, Open, Used, Exchange
  <1>14. OnSplitWire(s)'
    BY <1>6, <1>9, <1>10, <1>12 DEF OnSplitWire
  <1>15. splitRR[r] = <<InfoRequest>> /\ Len(recvCq[r]) = Expected(r)
    BY <1>13 DEF Open
  <1>16. Tail(splitRR[r]) = <<>>
    BY <1>15
  <1>17. ImmLanded(s)'
    BY <1>6, <1>7, <1>10, <1>12 DEF ImmLanded
  <1>18. Used(s, r)'
    BY <1>9, <1>12, <1>13, <1>15, <1>16, <1>17 DEF Used
  <1>19. InPlace'
    BY WritePlaced
  <1> QED
    BY <1>12, <1>14, <1>18, <1>19 DEF Kept, Phase

LEMMA PlaceLandSplit ==
  ASSUME NEW s, NEW r, Running(s, r), InPlace, LandOnSplit(s)
  PROVE  Kept(s, r) /\ InPlace'
  <1>1. splitWire[s] # <<>>
    BY DEF LandOnSplit, LandSplitSend, LandSplitWrite, LandSplit
  <1>2. PICK item : item = Head(splitWire[s])
    OBVIOUS
  <1>3. \/ spc[s] \in {"info", "sent"}
        \/ spc[s] = "written" /\ IsWrite(s, item)
        \/ item.kind = "write"
    BY <1>1, <1>2, NextToLand
  <1>4. CASE LandSplitSend(s)
    <2>1. item.kind \in {"info", "chunk"}
      BY <1>2, <1>4 DEF LandSplitSend
    <2>2. spc[s] \in {"info", "sent"}
      BY <1>3, <2>1 DEF IsWrite
    <2> QED
      BY <1>4, <2>2, PlaceInfoLands, PlaceChunkLands
  <1>5. CASE LandSplitWrite(s)
    <2>1. item.kind \in {"write", "wimm"}
      BY <1>2, <1>5 DEF LandSplitWrite
    <2> QED
      BY <1>2, <1>5, <2>1, PlaceWriteLands, PlaceImmLands
  <1> QED
    BY <1>4, <1>5 DEF LandOnSplit

LEMMA PlaceLandAck ==
  ASSUME NEW s, NEW r, Running(s, r), LandAck(r)
  PROVE  Kept(s, r)
  <1>1. /\ TypeOK /\ s \in Sides /\ r \in Sides /\ s # r /\ Ends(s, r) /\ JobLatest(s)
        /\ OnSplitWire(s) /\ Peer(r) = s
    BY SenderFields DEF Ends
  <1>2. Order(s, r) /\ Phase(s, r) /\ Acks(s, r) /\ rpc[r] # "failed"
    BY DEF Running
  <1>3. ackWire \in [Sides -> Nat] /\ cq2 \in [Sides -> Nat]
    BY <1>1 DEF TypeOK
  <1>4. /\ UNCHANGED <<appVars, sendVars, recvVars, userWire, userCq, splitWire,
                       splitRR, fc, sendCq, recvCq>>
        /\ ackWire[r] > 0 /\ ackWire' = [ackWire EXCEPT ![r] = @ - 1]
        /\ cq2' = [cq2 EXCEPT ![s] = @ + 1, ![r] = @ + 1]
    BY <1>1 DEF LandAck
  <1>5. /\ ackWire'[r] = ackWire[r] - 1 /\ ackWire'[s] = ackWire[s]
        /\ cq2'[s] = cq2[s] + 1 /\ cq2'[r] = cq2[r] + 1
    BY <1>1, <1>3, <1>4
  <1>6. /\ SameSender(s) /\ SameApp(s, r) /\ SameUser(s, r) /\ SameReceiver(r)
        /\ SameRequests(r) /\ SameRest(s, r)
    BY <1>4 DEF SameSender, SameApp, SameUser, SameReceiver, SameRequests, SameRest, SameTurn,
         appVars, sendVars, recvVars
  <1>7. Top(s)' = Top(s)
    BY <1>6 DEF Top, SameSender, SameApp
  <1>8. Order(s, r)' /\ Announced(s, r)' = Announced(s, r)
    BY <1>1, <1>2, <1>6, <1>7, OrderStays
  <1>9. JobLatest(s)' /\ OnSplitWire(s)'
    BY <1>1, <1>6, JobStays, OnSplitStays DEF SameSender, SameApp
  <1>10. /\ SamePlace(s) /\ (Awaiting(s)' <=> Awaiting(s)) /\ (Chunking(s)' <=> Chunking(s))
         /\ OneSent(s)' = OneSent(s) /\ ToLand(s)' = ToLand(s)
    BY <1>1, <1>6, SenderStays
  <1>11. Acks(s, r)'
    <2>1. /\ ackWire'[r] + cq2'[s] = ackWire[r] + cq2[s]
          /\ ackWire'[r] + cq2'[r] = ackWire[r] + cq2[r]
      BY <1>1, <1>3, <1>4, <1>5
    <2> QED
      BY <1>2, <1>5, <1>6, <1>8, <1>10, <2>1 DEF Acks, SameReceiver
  <1>12. Expected(r)' = Expected(r)
    BY <1>6 DEF Expected, SameReceiver
  <1>13. Phase(s, r)'
    <2>1. CASE Open(s, r)
      BY <1>1, <1>6, <1>8, <1>10, <1>12, <2>1, OpenStays DEF Phase
    <2>2. CASE Used(s, r)
      <3>1. \A d \in 1..Len(posted[s]) : d \in 1..Len(posted'[s]) /\ VerbOf(s, d)' = VerbOf(s, d)
        BY <1>6 DEF VerbOf, SameApp
      <3> QED
        BY <1>1, <1>6, <1>8, <1>10, <1>12, <2>2, <3>1, UsedStays DEF Phase
    <2>3. CASE Exchange(s, r)
      BY <1>1, <1>6, <1>8, <1>10, <2>3, ExchangeStays
      DEF Phase, Exchange, SameSender, SameReceiver
    <2> QED
      BY <1>2, <2>1, <2>2, <2>3 DEF Phase
  <1> QED
    BY <1>2, <1>6, <1>8, <1>9, <1>11, <1>13 DEF Kept, SameReceiver

-----------------------------------------------------------------------------
(* The receiver's actions.                                                  *)

LEMMA ReceiverOnly ==
  ASSUME NEW s, NEW r, Running(s, r),
         UNCHANGED <<sendVars, userWire, splitWire, fc, sendCq, turn, posted, completed>>,
         userCq'[s] = userCq[s], delivered'[s] = delivered[s], rpc'[s] = rpc[s],
         splitRR'[s] = splitRR[s], recvCq'[s] = recvCq[s]
  PROVE  /\ SameRest(s, r) /\ SameSender(s) /\ SamePlace(s)
         /\ JobLatest(s)' /\ OnSplitWire(s)' /\ Top(s)' = Top(s)
         /\ posted'[s] = posted[s] /\ completed'[s] = completed[s]
         /\ userWire'[s] = userWire[s] /\ fc'[r] = fc[r] /\ job'[s] = job[s]
         /\ Awaiting(s)' <=> Awaiting(s)
         /\ Chunking(s)' <=> Chunking(s)
         /\ OneSent(s)' = OneSent(s) /\ ToLand(s)' = ToLand(s)
  <1>1. s \in Sides /\ JobLatest(s) /\ OnSplitWire(s)
    BY SenderFields
  <1>2. SameSender(s) /\ SameRest(s, r)
    BY DEF SameSender, SameRest, SameApp, SameUser, SameTurn, sendVars
  <1>3. JobLatest(s)' /\ OnSplitWire(s)' /\ Top(s)' = Top(s)
    BY <1>1, <1>2, JobStays, OnSplitStays DEF SameSender, Top
  <1>4. /\ SamePlace(s) /\ (Awaiting(s)' <=> Awaiting(s)) /\ (Chunking(s)' <=> Chunking(s))
        /\ OneSent(s)' = OneSent(s) /\ ToLand(s)' = ToLand(s)
    BY <1>1, <1>2, SenderStays
  <1> QED
    BY <1>2, <1>3, <1>4 DEF SameSender

LEMMA PhaseStays ==
  ASSUME NEW s, NEW r, Running(s, r), SamePlace(s), SameRequests(r),
         Expected(r)' = Expected(r), Announced(s, r)' = Announced(s, r),
         posted'[s] = posted[s],
         Exchange(s, r) => Exchange(s, r)'
  PROVE  Phase(s, r)'
  <1>1. s \in Sides /\ r \in Sides /\ Phase(s, r)
    BY DEF Running, Ends
  <1>2. \A d \in 1..Len(posted[s]) : d \in 1..Len(posted'[s]) /\ VerbOf(s, d)' = VerbOf(s, d)
    BY DEF VerbOf
  <1> QED
    BY <1>1, <1>2, OpenStays, UsedStays DEF Phase

(* What ibv_poll_cq takes from the queue of completions of the user.        *)
LEMMA PollTakes ==
  ASSUME NEW s, NEW r, Running(s, r), NEW k \in 1..Batch, PollUser(r, k),
         NEW batch, batch = SubSeq(userCq[r], 1, k)
  PROVE  /\ rpc[r] = "idle" /\ Expected(r) = 0 /\ ~Exchange(s, r)
         /\ batch \in Seq(UserItems) /\ batch[k] \in UserItems
         /\ userCq'[s] = userCq[s] /\ recvCq' = recvCq
         /\ UNCHANGED <<sendVars, userWire, splitWire, fc, sendCq, ackVars>>
         /\ UNCHANGED <<turn, posted, completed>> => Taking(s, r, k, batch)
  <1>1. /\ TypeOK /\ s \in Sides /\ r \in Sides /\ s # r
    BY SenderFields
  <1>2. Order(s, r)
    BY DEF Running
  <1>3. /\ rpc[r] = "idle" /\ Taken(r, k) /\ recvCq' = recvCq
        /\ userCq' = [userCq EXCEPT ![r] = SubSeq(@, k + 1, Len(@))]
        /\ UNCHANGED <<sendVars, userWire, splitWire, fc, sendCq, ackVars>>
    BY DEF PollUser
  <1>4. userCq \in [Sides -> Seq(UserItems)]
    BY <1>1 DEF TypeOK
  <1>5. userCq'[s] = userCq[s] /\ userCq'[r] = SubSeq(userCq[r], k + 1, Len(userCq[r]))
    BY <1>1, <1>3, <1>4
  <1>6. batch \in Seq(UserItems) /\ batch[k] \in UserItems
    BY <1>1, <1>3, Batches
  <1>7. Expected(r) = 0 /\ ~Exchange(s, r)
    BY <1>3 DEF Expected, Exchange
  <1>8. ASSUME UNCHANGED <<turn, posted, completed>> PROVE Taking(s, r, k, batch)
    <2>1. Top(s)' = Top(s)
      BY <1>3, <1>8 DEF Top, sendVars
    <2> QED
      BY <1>2, <1>3, <1>5, <1>8, <2>1 DEF Taking
  <1> QED
    BY <1>3, <1>5, <1>6, <1>7, <1>8

LEMMA PlaceHandOut ==
  ASSUME NEW s, NEW r, Running(s, r), NEW k \in 1..Batch, PollUser(r, k),
         ~SeenAsSplit(SubSeq(userCq[r], 1, k)[k].len)
  PROVE  Kept(s, r)
  <1>1. /\ TypeOK /\ s \in Sides /\ r \in Sides /\ s # r
    BY SenderFields
  <1>2. Acks(s, r) /\ rpc[r] # "failed"
    BY DEF Running
  <1>3. PICK batch : batch = SubSeq(userCq[r], 1, k)
    OBVIOUS
  <1>4. /\ rpc[r] = "idle" /\ Expected(r) = 0 /\ ~Exchange(s, r)
        /\ batch \in Seq(UserItems)
        /\ userCq'[s] = userCq[s] /\ recvCq' = recvCq
        /\ UNCHANGED <<sendVars, userWire, splitWire, fc, sendCq, ackVars>>
        /\ UNCHANGED <<turn, posted, completed>> => Taking(s, r, k, batch)
    BY <1>3, PollTakes
  <1>5. HandOut(r, Wc(batch)) /\ UNCHANGED <<recvVars, splitRR>>
    BY <1>3 DEF PollUser
  <1>6. UNCHANGED <<turn, posted, completed>> /\ rpc' = rpc /\ rx' = rx
    BY <1>5 DEF HandOut, recvVars
  <1>7. delivered'[r] = delivered[r] \o Wc(batch) /\ delivered'[s] = delivered[s]
    <2>1. delivered \in [Sides -> Completions]
      BY <1>1 DEF TypeOK
    <2> QED
      BY <1>1, <1>5, <2>1 DEF HandOut
  <1>8. Order(s, r)' /\ Announced(s, r)' = Announced(s, r)
    BY <1>1, <1>3, <1>4, <1>6, <1>7, OrderHandOut
  <1>9. /\ SameRest(s, r) /\ SamePlace(s) /\ JobLatest(s)' /\ OnSplitWire(s)'
        /\ posted'[s] = posted[s] /\ (Awaiting(s)' <=> Awaiting(s)) /\ fc'[r] = fc[r]
    BY <1>4, <1>5, <1>6, <1>7, ReceiverOnly
  <1>10. SameRequests(r) /\ Expected(r)' = Expected(r)
    BY <1>4, <1>5, <1>6, <1>9 DEF SameRequests, Expected
  <1>11. Phase(s, r)'
    BY <1>4, <1>8, <1>9, <1>10, PhaseStays
  <1>12. Acks(s, r)'
    <2>1. SameAcks(s, r)
      BY <1>4 DEF SameAcks, ackVars
    <2> QED
      BY <1>1, <1>2, <1>6, <1>8, <1>9, <2>1, AcksStay
  <1> QED
    BY <1>2, <1>6, <1>8, <1>9, <1>11, <1>12 DEF Kept

(* A message that is split: the receiver waits for its INFO, or, for one    *)
(* whose immediate has landed already, posts the request that was used up.  *)
LEMMA PlaceTake ==
  ASSUME NEW s, NEW r, Running(s, r), NEW k \in 1..Batch, PollUser(r, k),
         SeenAsSplit(SubSeq(userCq[r], 1, k)[k].len)
  PROVE  Kept(s, r)
  <1>1. /\ TypeOK /\ s \in Sides /\ r \in Sides /\ s # r /\ JobLatest(s) /\ SpcOK
        /\ Len(posted[s]) \in Nat /\ job[s].msg \in Nat
    BY SenderFields
  <1>2. Acks(s, r) /\ Phase(s, r)
    BY DEF Running
  <1>3. PICK batch : batch = SubSeq(userCq[r], 1, k)
    OBVIOUS
  <1>4. /\ rpc[r] = "idle" /\ Expected(r) = 0 /\ ~Exchange(s, r)
        /\ batch \in Seq(UserItems) /\ batch[k] \in UserItems
        /\ userCq'[s] = userCq[s] /\ recvCq' = recvCq
        /\ UNCHANGED <<sendVars, userWire, splitWire, fc, sendCq, ackVars>>
        /\ UNCHANGED <<turn, posted, completed>> => Taking(s, r, k, batch)
    BY <1>3, PollTakes
  <1>5. UNCHANGED appVars
    BY <1>3 DEF PollUser
  <1>6. PICK item \in UserItems : item = batch[k]
    BY <1>4
  <1>7. rx'[r].batch = Wc(batch) /\ rx'[r].buf = item.msg
    <2>1. PICK q \in Receptions : rx' = [rx EXCEPT ![r] = q]
                                  /\ q.batch = Wc(batch) /\ q.buf = item.msg
      <3>1. Wc(batch) \in Completions
        BY <1>4, WcType
      <3>2. batch[1] \in UserItems
        BY <1>1, <1>3, Batches DEF PollUser
      <3>3. PICK q \in Receptions : q = [batch |-> Wc(batch), buf |-> batch[k].msg, left |-> 0,
                                         total |-> batch[1].len]
        BY <1>4, <3>1, <3>2 DEF Receptions, UserItems
      <3>4. rx' = [rx EXCEPT ![r] = q]
        BY <1>3, <3>3 DEF PollUser
      <3> QED
        BY <1>6, <3>3, <3>4
    <2> QED
      BY <1>1, <2>1, RxFields
  <1>8. /\ rpc' = [rpc EXCEPT ![r] = IF item.verb = "WRITE_WITH_IMM" THEN "wimm" ELSE "info"]
        /\ splitRR' = IF item.verb = "WRITE_WITH_IMM"
                      THEN [splitRR EXCEPT ![r] = Append(@, InfoRequest)] ELSE splitRR
    BY <1>3, <1>6 DEF PollUser, ExpectWimm
  <1>9. /\ rpc'[r] = (IF item.verb = "WRITE_WITH_IMM" THEN "wimm" ELSE "info")
        /\ rpc'[s] = rpc[s] /\ rpc'[r] # "failed"
    BY <1>1, <1>8, RxFields DEF RpcOK
  <1>10. /\ splitRR'[s] = splitRR[s]
         /\ splitRR'[r] = IF item.verb = "WRITE_WITH_IMM"
                          THEN Append(splitRR[r], InfoRequest) ELSE splitRR[r]
    <2>1. splitRR \in [Sides -> Seq(Requests)]
      BY <1>1 DEF TypeOK
    <2> QED
      BY <1>1, <1>8, <2>1
  <1>11. delivered' = delivered /\ UNCHANGED <<turn, posted, completed>>
    BY <1>5 DEF appVars
  <1>12. /\ Order(s, r)' /\ item.msg \in Announced(s, r)
         /\ VerbOf(s, item.msg) = item.verb
         /\ Announced(s, r)' = IF item.verb = "WRITE_WITH_IMM"
                               THEN Announced(s, r) \ {item.msg} ELSE Announced(s, r)
    <2>1. Taking(s, r, k, batch) /\ SeenAsSplit(batch[k].len) /\ delivered'[r] = delivered[r]
      BY <1>3, <1>4, <1>11
    <2> QED
      BY <1>1, <1>6, <1>7, <1>9, <2>1, OrderTake
  <1>13. /\ SameRest(s, r) /\ SameSender(s) /\ SamePlace(s) /\ JobLatest(s)' /\ OnSplitWire(s)'
         /\ posted'[s] = posted[s] /\ (Awaiting(s)' <=> Awaiting(s)) /\ fc'[r] = fc[r]
         /\ job'[s] = job[s]
    BY <1>4, <1>9, <1>10, <1>11, ReceiverOnly
  <1>14. SameAcks(s, r)
    BY <1>4 DEF SameAcks, ackVars
  <1>15. CASE item.verb # "WRITE_WITH_IMM"
    <2>1. SameRequests(r) /\ Expected(r)' = Expected(r) /\ Announced(s, r)' = Announced(s, r)
      BY <1>4, <1>9, <1>10, <1>12, <1>13, <1>15 DEF SameRequests, Expected
    <2>2. Phase(s, r)'
      BY <1>4, <1>13, <2>1, PhaseStays
    <2>3. Acks(s, r)'
      BY <1>1, <1>2, <1>4, <1>9, <1>13, <1>14, <1>15, <2>1, AcksStay
    <2> QED
      BY <1>9, <1>12, <1>13, <2>2, <2>3 DEF Kept
  <1>16. CASE item.verb = "WRITE_WITH_IMM"
    <2>1. (InFlight(s) \/ Awaiting(s)) => item.msg # job[s].msg
      <3>1. (InFlight(s) \/ Awaiting(s)) => VerbOf(s, job[s].msg) = "SEND"
        BY <1>1 DEF JobLatest, InFlight, Awaiting
      <3> QED
        BY <1>12, <1>16, <3>1
    <2>2. /\ splitRR[r] = <<>> /\ Len(recvCq[r]) = 1
          /\ \E d \in 1..Len(posted[s]) :
               \/ Announced(s, r) = {d} /\ Elsewhere(s)
               \/ Announced(s, r) = {d, job[s].msg} /\ d < job[s].msg /\ InFlight(s)
      BY <1>2, <1>4, <1>12, <2>1 DEF Phase, Open, Used
    <2>3. PICK d \in 1..Len(posted[s]) :
               \/ Announced(s, r) = {d} /\ Elsewhere(s)
               \/ Announced(s, r) = {d, job[s].msg} /\ d < job[s].msg /\ InFlight(s)
      BY <2>2
    <2>4. item.msg = d
      BY <1>12, <2>1, <2>3
    <2>5. splitRR'[r] = <<InfoRequest>> /\ Len(recvCq'[r]) = 1 /\ Expected(r)' = 1
      BY <1>4, <1>9, <1>10, <1>16, <2>2 DEF Expected
    <2>6. \/ Announced(s, r)' = {} /\ Elsewhere(s)'
          \/ Announced(s, r)' = {job[s].msg}' /\ InFlight(s)'
      <3>1. CASE Announced(s, r) = {d} /\ Elsewhere(s)
        BY <1>12, <1>13, <1>16, <2>4, <3>1 DEF SamePlace
      <3>2. CASE Announced(s, r) = {d, job[s].msg} /\ d < job[s].msg /\ InFlight(s)
        <4>1. d # job[s].msg
          BY <1>1, <3>2
        <4>2. Announced(s, r)' = {job[s].msg}
          BY <1>12, <1>16, <2>4, <3>2, <4>1
        <4> QED
          BY <1>13, <3>2, <4>2 DEF SamePlace
      <3> QED
        BY <2>3, <3>1, <3>2
    <2>7. Phase(s, r)'
      BY <2>5, <2>6 DEF Phase, Open
    <2>8. Acks(s, r)'
      <3>1. ~Awaiting(s)
        BY <2>3 DEF Awaiting, InFlight, Elsewhere, Chunking
      <3> QED
        BY <1>2, <1>4, <1>9, <1>13, <1>14, <1>16, <3>1 DEF Acks, SameAcks
    <2> QED
      BY <1>9, <1>12, <1>13, <2>7, <2>8 DEF Kept
  <1> QED
    BY <1>15, <1>16

(* What was put together is handed to the application.                      *)
LEMMA HandsOver ==
  ASSUME NEW s, NEW r, Running(s, r), rpc[r] # "idle",
         NEW wc \in Completions, Msgs(wc) = Msgs(rx[r].batch), HandOut(r, wc),
         rpc' = [rpc EXCEPT ![r] = "idle"],
         UNCHANGED <<sendVars, userWire, userCq>>
  PROVE  /\ rpc'[r] = "idle" /\ rpc'[s] = rpc[s] /\ delivered'[s] = delivered[s]
         /\ UNCHANGED <<turn, posted, completed>>
         /\ Order(s, r)' /\ Expected(r)' = 0
         /\ Announced(s, r)' = Announced(s, r) \ {rx[r].buf}
         /\ rpc[r] = "info" => rx[r].buf \in Announced(s, r)
  <1>1. /\ TypeOK /\ s \in Sides /\ r \in Sides /\ s # r /\ Order(s, r)
    BY SenderFields DEF Running
  <1>2. rpc'[r] = "idle" /\ rpc'[s] = rpc[s]
    BY <1>1, RxFields DEF RpcOK
  <1>3. delivered'[r] = delivered[r] \o wc /\ delivered'[s] = delivered[s]
    <2>1. delivered \in [Sides -> Completions]
      BY <1>1 DEF TypeOK
    <2> QED
      BY <1>1, <2>1 DEF HandOut
  <1>4. UNCHANGED <<turn, posted, completed>>
    BY DEF HandOut
  <1>5. Top(s)' = Top(s) /\ OnTheWay(s, r)' = OnTheWay(s, r)
    BY <1>4 DEF Top, sendVars, OnTheWay
  <1>6. Order(s, r)'
    BY <1>1, <1>2, <1>3, <1>4, <1>5, OrderFinish
  <1>7. /\ Announced(s, r)' = Announced(s, r) \ {rx[r].buf}
        /\ rpc[r] = "info" => rx[r].buf \in Announced(s, r)
    BY <1>1, <1>2, <1>5, AnnouncedOnce
  <1> QED
    BY <1>2, <1>3, <1>4, <1>6, <1>7 DEF Expected

LEMMA Finishes ==
  ASSUME NEW s, NEW r, Running(s, r), rpc[r] # "idle", NEW total \in Nat, Finish(r, total),
         UNCHANGED <<sendVars, userWire, userCq>>
  PROVE  /\ rpc'[r] = "idle" /\ rpc'[s] = rpc[s] /\ delivered'[s] = delivered[s]
         /\ UNCHANGED <<turn, posted, completed>>
         /\ Order(s, r)' /\ Expected(r)' = 0
         /\ Announced(s, r)' = Announced(s, r) \ {rx[r].buf}
         /\ rpc[r] = "info" => rx[r].buf \in Announced(s, r)
  <1>1. TypeOK /\ r \in Sides
    BY SenderFields
  <1>2. rx[r].batch \in Completions
    BY <1>1, RxFields
  <1>3. PICK wc \in Completions : wc = [rx[r].batch EXCEPT ![1].len = total]
    BY <1>2, TotalType
  <1>4. Msgs(wc) = Msgs(rx[r].batch)
    BY <1>2, <1>3, TotalReported
  <1>5. HandOut(r, wc) /\ rpc' = [rpc EXCEPT ![r] = "idle"]
    BY <1>3 DEF Finish
  <1> QED
    BY <1>4, <1>5, HandsOver

(* The next of the completions of split_qp[0].                              *)
LEMMA OneTaken ==
  ASSUME NEW s, NEW r, Running(s, r), recvCq[r] # <<>>,
         recvCq' = [recvCq EXCEPT ![r] = Tail(@)]
  PROVE  /\ recvCq'[s] = recvCq[s] /\ Len(recvCq[r]) \in Nat \ {0}
         /\ Len(recvCq'[r]) = Len(recvCq[r]) - 1
         /\ Head(recvCq[r]) \in Nat
  <1>1. TypeOK /\ s \in Sides /\ r \in Sides /\ s # r
    BY SenderFields
  <1>2. recvCq \in [Sides -> Seq(Nat)]
    BY <1>1 DEF TypeOK
  <1>3. recvCq'[s] = recvCq[s] /\ recvCq'[r] = Tail(recvCq[r])
    BY <1>1, <1>2
  <1>4. PICK q \in Seq(Nat) : q = recvCq[r]
    BY <1>1, <1>2
  <1>5. Len(q) \in Nat \ {0} /\ Len(Tail(q)) = Len(q) - 1 /\ Head(q) \in Nat
    BY <1>4, EmptySeq, HeadTailProperties, LenProperties
  <1> QED
    BY <1>3, <1>4, <1>5

(* One completion less is there, and one less is expected.                  *)
LEMMA TakesOne ==
  ASSUME NEW s, NEW r, Running(s, r), SamePlace(s), job'[s] = job[s], posted'[s] = posted[s],
         splitRR'[r] = splitRR[r], fc'[r] = fc[r], Announced(s, r)' = Announced(s, r),
         Len(recvCq[r]) \in Nat, Expected(r) \in Nat,
         Len(recvCq'[r]) = Len(recvCq[r]) - 1, Expected(r)' = Expected(r) - 1
  PROVE  (Open(s, r) => Open(s, r)') /\ (Used(s, r) => Used(s, r)')
  <1>1. ASSUME Open(s, r) PROVE Open(s, r)'
    <2>1. Len(recvCq'[r]) = Expected(r)'
      BY <1>1 DEF Open
    <2> QED
      BY <1>1, <2>1 DEF Open, SamePlace
  <1>2. ASSUME Used(s, r) PROVE Used(s, r)'
    <2>1. splitRR'[r] = <<>> /\ Len(recvCq'[r]) = Expected(r)' + 1
      BY <1>2 DEF Used
    <2>2. CASE Announced(s, r) = {} /\ ImmLanded(s)
      BY <2>1, <2>2 DEF Used, SamePlace
    <2>3. CASE Announced(s, r) = {job[s].msg} /\ Awaiting(s) /\ fc[r] = Announcement(s)
      BY <2>1, <2>3 DEF Used, SamePlace
    <2>4. ASSUME NEW d \in 1..Len(posted[s]), NothingFollows(s, r, d),
                 \/ Announced(s, r) = {d} /\ Elsewhere(s)
                 \/ Announced(s, r) = {d, job[s].msg} /\ d < job[s].msg /\ InFlight(s)
          PROVE  Used(s, r)'
      <3>1. d \in 1..Len(posted'[s]) /\ NothingFollows(s, r, d)'
        BY <2>4 DEF NothingFollows, VerbOf
      <3>2. \/ Announced(s, r)' = {d} /\ Elsewhere(s)'
            \/ Announced(s, r)' = {d, job'[s].msg} /\ d < job'[s].msg /\ InFlight(s)'
        BY <2>4 DEF SamePlace
      <3> QED
        BY <2>1, <3>1, <3>2 DEF Used
    <2> QED
      BY <1>2, <2>2, <2>3, <2>4 DEF Used
  <1> QED
    BY <1>1, <1>2

LEMMA PlaceWimm ==
  ASSUME NEW s, NEW r, Running(s, r), PollWimm(r)
  PROVE  Kept(s, r)
  <1>1. /\ TypeOK /\ s \in Sides /\ r \in Sides /\ s # r
    BY SenderFields
  <1>2. Acks(s, r) /\ Phase(s, r) /\ Order(s, r)
    BY DEF Running
  <1>3. /\ rpc[r] = "wimm" /\ recvCq[r] # <<>> /\ recvCq' = [recvCq EXCEPT ![r] = Tail(@)]
        /\ HandOut(r, rx[r].batch) /\ rpc' = [rpc EXCEPT ![r] = "idle"]
        /\ UNCHANGED <<sendVars, userWire, userCq, splitWire, splitRR, fc, sendCq, ackVars>>
    BY DEF PollWimm
  <1>4. /\ rpc'[r] = "idle" /\ rpc'[s] = rpc[s] /\ delivered'[s] = delivered[s]
        /\ UNCHANGED <<turn, posted, completed>>
        /\ Order(s, r)' /\ Expected(r)' = 0
        /\ Announced(s, r)' = Announced(s, r) \ {rx[r].buf}
    <2>1. rx[r].batch \in Completions
      BY <1>1, RxFields
    <2> QED
      BY <1>3, <2>1, HandsOver
  <1>5. Announced(s, r)' = Announced(s, r)
    BY <1>3, <1>4 DEF Announced, OnTheWay
  <1>6. /\ recvCq'[s] = recvCq[s] /\ Len(recvCq[r]) \in Nat \ {0}
        /\ Len(recvCq'[r]) = Len(recvCq[r]) - 1
    BY <1>3, OneTaken
  <1>7. /\ SameRest(s, r) /\ SamePlace(s) /\ JobLatest(s)' /\ OnSplitWire(s)'
        /\ posted'[s] = posted[s] /\ (Awaiting(s)' <=> Awaiting(s)) /\ fc'[r] = fc[r]
        /\ job'[s] = job[s]
    BY <1>3, <1>4, <1>6, ReceiverOnly
  <1>8. Expected(r) = 1 /\ ~Exchange(s, r)
    BY <1>3 DEF Expected, Exchange
  <1>9. Acks(s, r)'
    <2>1. SameAcks(s, r)
      BY <1>3 DEF SameAcks, ackVars
    <2> QED
      BY <1>1, <1>2, <1>3, <1>4, <1>5, <1>7, <2>1, AcksStay
  <1>10. Phase(s, r)'
    <2>1. splitRR'[r] = splitRR[r] /\ Expected(r)' = Expected(r) - 1
          /\ Expected(r) \in Nat /\ Len(recvCq[r]) \in Nat
      BY <1>3, <1>4, <1>6, <1>8
    <2> QED
      BY <1>2, <1>5, <1>6, <1>7, <1>8, <2>1, TakesOne DEF Phase
  <1> QED
    BY <1>4, <1>7, <1>9, <1>10 DEF Kept

(* The ACK has been sent: the receiver waits for the chunks.                *)
LEMMA PlaceAckSent ==
  ASSUME NEW s, NEW r, Running(s, r), PollAckSent(r)
  PROVE  Kept(s, r)
  <1>1. /\ TypeOK /\ s \in Sides /\ r \in Sides /\ s # r
    BY SenderFields
  <1>2. Acks(s, r) /\ Order(s, r)
    BY DEF Running
  <1>3. /\ rpc[r] = "ack" /\ cq2[r] > 0 /\ cq2' = [cq2 EXCEPT ![r] = @ - 1]
        /\ rpc' = [rpc EXCEPT ![r] = "chunks"]
        /\ UNCHANGED <<appVars, sendVars, rx, userWire, userCq, splitWire, splitRR, fc,
                       sendCq, recvCq, ackWire>>
    BY DEF PollAckSent
  <1>4. rpc'[r] = "chunks" /\ rpc'[s] = rpc[s]
    BY <1>1, <1>3, RxFields DEF RpcOK
  <1>5. UNCHANGED <<turn, posted, completed, delivered>>
    BY <1>3 DEF appVars
  <1>6. /\ SameRest(s, r) /\ SamePlace(s) /\ JobLatest(s)' /\ OnSplitWire(s)' /\ Top(s)' = Top(s)
        /\ posted'[s] = posted[s] /\ (Awaiting(s)' <=> Awaiting(s)) /\ fc'[r] = fc[r]
        /\ job'[s] = job[s] /\ (Chunking(s)' <=> Chunking(s))
        /\ OneSent(s)' = OneSent(s) /\ ToLand(s)' = ToLand(s)
    BY <1>3, <1>4, <1>5, ReceiverOnly
  <1>7. Announced(s, r)' = Announced(s, r) /\ Expected(r)' = Expected(r)
    BY <1>3, <1>4 DEF Announced, OnTheWay, Expected
  <1>8. Order(s, r)'
    <2>1. \A m \in 1..Top(s) : VerbOf(s, m)' = VerbOf(s, m)
      BY <1>6 DEF VerbOf
    <2> QED
      BY <1>1, <1>2, <1>3, <1>4, <1>5, <1>6, <2>1, OrderFrame
  <1>9. Acks(s, r)'
    <2>1. cq2 \in [Sides -> Nat] /\ ackWire \in [Sides -> Nat]
      BY <1>1 DEF TypeOK
    <2>2. cq2'[r] = cq2[r] - 1 /\ cq2'[s] = cq2[s] /\ cq2[r] \in Nat /\ ackWire[r] \in Nat
      BY <1>1, <1>3, <2>1
    <2>3. ackWire[r] + cq2[r] = 1
      BY <1>2, <1>3 DEF Acks
    <2>4. ackWire'[r] + cq2'[r] = 0
      BY <1>3, <2>2, <2>3
    <2> QED
      BY <1>2, <1>3, <1>4, <1>6, <1>7, <2>2, <2>4 DEF Acks
  <1>10. Phase(s, r)'
    <2>1. SameRequests(r)
      BY <1>3 DEF SameRequests
    <2>2. Exchange(s, r) => Exchange(s, r)'
      BY <1>1, <1>3, <1>4, <1>6, <1>7, <2>1, ExchangeStays DEF Exchange
    <2> QED
      BY <1>6, <1>7, <2>1, <2>2, PhaseStays
  <1> QED
    BY <1>4, <1>6, <1>8, <1>9, <1>10 DEF Kept

(* The receive requests for n chunks, and behind them the one for INFO.     *)
LEMMA Requested ==
  ASSUME NEW buf \in Nat \ {0}, NEW size \in Chunks, NEW n \in Nat
  PROVE  LET rr == <<>> \o ReceiveRequests(buf, size, n)
         IN /\ Len(rr) = n + 1
            /\ \A i \in 1..n : rr[i] = ChunkRequest(buf, size, i)
            /\ rr[n + 1] = InfoRequest
            /\ n = 0 => rr = <<InfoRequest>>
  <1>1. PICK f : f = [i \in 1..n |-> ChunkRequest(buf, size, i)]
    OBVIOUS
  <1>2. \A i \in 1..n : f[i] \in Requests /\ f[i] = ChunkRequest(buf, size, i)
    <2>1. TAKE i \in 1..n
    <2>2. size * i \in Nat \ {0}
      BY SizesAssumption, Positive
    <2> QED
      BY <1>1, <2>2 DEF ChunkRequest, Requests
  <1>3. f \in [1..n -> Requests]
    BY <1>1, <1>2
  <1>4. f \in Seq(Requests) /\ Len(f) = n
    <2>1. f \in Seq(Requests)
      BY <1>3, FunctionIsSeq
    <2>2. PICK m \in Nat : m = Len(f)
      BY <2>1, LenProperties
    <2>3. 1..m = 1..n
      BY <1>3, <2>1, <2>2, LenProperties
    <2>4. m = n
      <3>1. CASE m > n
        <4>1. m \in 1..m /\ m \notin 1..n
          BY <3>1
        <4> QED
          BY <2>3, <4>1
      <3>2. CASE n > m
        <4>1. n \in 1..n /\ n \notin 1..m
          BY <3>2
        <4> QED
          BY <2>3, <4>1
      <3> QED
        BY <3>1, <3>2
    <2> QED
      BY <2>1, <2>2, <2>4
  <1>5. PICK q \in Requests : q = InfoRequest
    BY DEF Requests
  <1>6. <<q>> \in Seq(Requests) /\ Len(<<q>>) = 1 /\ <<q>>[1] = q
    OBVIOUS
  <1>7. PICK rr \in Seq(Requests) : rr = f \o <<q>>
    BY <1>4, <1>6, ConcatProperties
  <1>8. /\ Len(rr) = n + 1
        /\ \A i \in 1..n + 1 : rr[i] = IF i <= n THEN f[i] ELSE <<q>>[i - n]
    BY <1>4, <1>6, <1>7, ConcatProperties
  <1>9. n + 1 \in 1..n + 1 /\ ~(n + 1 <= n) /\ n + 1 - n = 1
    OBVIOUS
  <1>10. rr[n + 1] = q
    BY <1>6, <1>8, <1>9
  <1>11. \A i \in 1..n : rr[i] = ChunkRequest(buf, size, i)
    BY <1>2, <1>8
  <1>12. <<>> \o rr = rr
    BY ConcatEmptySeq
  <1>13. <<>> \o ReceiveRequests(buf, size, n) = rr
    BY <1>1, <1>5, <1>7, <1>12 DEF ReceiveRequests
  <1>14. n = 0 => rr = <<q>>
    <2>1. ASSUME n = 0 PROVE rr = <<q>>
      <3>1. Len(rr) = Len(<<q>>)
        BY <1>6, <1>8, <2>1
      <3>2. \A i \in 1..Len(rr) : rr[i] = <<q>>[i]
        BY <1>6, <1>8, <1>10, <2>1
      <3> QED
        BY <1>6, <3>1, <3>2, SeqEqual
    <2> QED
      BY <2>1
  <1> QED
    BY <1>5, <1>8, <1>10, <1>11, <1>13, <1>14

(* What the receiver that waits for INFO takes is INFO, and that of the     *)
(* message it has at hand.                                                 *)
LEMMA InfoAtHand ==
  ASSUME NEW s, NEW r, Running(s, r), rpc[r] = "info", recvCq[r] # <<>>
  PROVE  /\ splitRR[r] = <<>> /\ Len(recvCq[r]) = 1
         /\ fc[r] # None /\ fc[r].kind = "info" /\ fc[r].size \in Chunks
         /\ \/ /\ Announced(s, r) = {job[s].msg} /\ rx[r].buf = job[s].msg
               /\ Awaiting(s) /\ fc[r].chunks = job[s].left /\ fc[r].size = job[s].chunk
               /\ job[s].left \in Nat \ {0}
            \/ /\ fc[r].chunks = 0
               /\ \/ Announced(s, r) = {rx[r].buf} /\ Elsewhere(s)
                  \/ /\ Announced(s, r) = {rx[r].buf, job[s].msg} /\ InFlight(s)
                     /\ rx[r].buf # job[s].msg
  <1>1. /\ TypeOK /\ s \in Sides /\ r \in Sides /\ s # r /\ JobLatest(s) /\ JobInv(s)
        /\ job[s].msg \in Nat /\ job[s].left \in Nat /\ Len(posted[s]) \in Nat
    BY SenderFields
  <1>2. Phase(s, r) /\ Order(s, r)
    BY DEF Running
  <1>3. /\ rx[r].buf \in Nat /\ VerbOf(s, rx[r].buf) = "SEND"
        /\ \A x \in OnTheWay(s, r) : rx[r].buf < x.msg
    BY <1>1, <1>2, RxFields DEF Order, ReceptionInOrder
  <1>4. Announced(s, r) = {x.msg : x \in {y \in OnTheWay(s, r) : Large(y)}} \cup {rx[r].buf}
    BY DEF Announced
  <1>5. Len(recvCq[r]) # 0 /\ Expected(r) = 0
    <2>1. recvCq[r] \in Seq(Nat)
      BY <1>1 DEF TypeOK
    <2> QED
      BY <2>1, EmptySeq DEF Expected
  <1>6. Used(s, r)
    BY <1>2, <1>5 DEF Phase, Open, Exchange
  <1>7. splitRR[r] = <<>> /\ Len(recvCq[r]) = 1
    BY <1>5, <1>6 DEF Used
  <1>8. fc \in [Sides -> Items \cup {None}]
    BY <1>1 DEF TypeOK
  <1>9. fc[r] # None /\ fc[r].kind = "info" => fc[r].size \in Chunks
    BY <1>1, <1>8 DEF Items
  <1>10. CASE Announced(s, r) = {job[s].msg} /\ Awaiting(s) /\ fc[r] = Announcement(s)
    <2>1. rx[r].buf = job[s].msg
      BY <1>4, <1>10
    <2>2. job[s].left # 0 /\ job[s].chunk \in Chunks
      BY <1>1, <1>10 DEF Awaiting, JobInv
    <2>3. PICK item \in Items : item = Announcement(s) /\ item = fc[r]
      BY <1>1, <1>10, <2>2 DEF Announcement, Items
    <2>4. fc[r] # None /\ fc[r].kind = "info" /\ fc[r].chunks = job[s].left
          /\ fc[r].size = job[s].chunk
      BY <2>3, NoneAssumption DEF Announcement
    <2> QED
      BY <1>1, <1>7, <1>9, <1>10, <2>1, <2>2, <2>4
  <1>11. ASSUME NEW d \in 1..Len(posted[s]), NothingFollows(s, r, d),
                \/ Announced(s, r) = {d} /\ Elsewhere(s)
                \/ Announced(s, r) = {d, job[s].msg} /\ d < job[s].msg /\ InFlight(s)
         PROVE  /\ fc[r] # None /\ fc[r].kind = "info" /\ fc[r].chunks = 0
                /\ \/ Announced(s, r) = {rx[r].buf} /\ Elsewhere(s)
                   \/ /\ Announced(s, r) = {rx[r].buf, job[s].msg} /\ InFlight(s)
                      /\ rx[r].buf # job[s].msg
    <2>1. d \in Announced(s, r) /\ rx[r].buf \in Announced(s, r)
      BY <1>4, <1>11
    <2>2. rx[r].buf <= d
      BY <1>1, <1>3, <1>4, <2>1
    <2>3. rx[r].buf = d
      <3>1. CASE Announced(s, r) = {d}
        BY <2>1, <3>1
      <3>2. CASE Announced(s, r) = {d, job[s].msg} /\ d < job[s].msg
        BY <1>1, <1>3, <2>1, <2>2, <3>2
      <3> QED
        BY <1>11, <3>1, <3>2
    <2>4. d < job[s].msg => d # job[s].msg
      BY <1>1
    <2> QED
      BY <1>3, <1>11, <2>3, <2>4 DEF NothingFollows
  <1>12. Announced(s, r) # {}
    BY <1>4
  <1> QED
    BY <1>6, <1>7, <1>9, <1>10, <1>11, <1>12 DEF Used

LEMMA PlaceInfo ==
  ASSUME NEW s, NEW r, Running(s, r), PollInfo(r)
  PROVE  Kept(s, r)
  <1>1. /\ TypeOK /\ s \in Sides /\ r \in Sides /\ s # r /\ JobLatest(s)
    BY SenderFields
  <1>2. Acks(s, r) /\ Order(s, r)
    BY DEF Running
  <1>3. /\ rpc[r] = "info" /\ recvCq[r] # <<>> /\ recvCq' = [recvCq EXCEPT ![r] = Tail(@)]
        /\ UNCHANGED <<sendVars, userWire, userCq, splitWire, fc, sendCq, ackRR, cq2>>
    BY DEF PollInfo
  <1>4. /\ splitRR[r] = <<>> /\ Len(recvCq[r]) = 1
        /\ fc[r] # None /\ fc[r].kind = "info" /\ fc[r].size \in Chunks
    BY <1>3, InfoAtHand
  <1>5. Answer(r)
    BY <1>4 DEF PollInfo
  <1>6. recvCq'[s] = recvCq[s] /\ Len(recvCq'[r]) = 0
    <2>1. recvCq'[s] = recvCq[s] /\ Len(recvCq'[r]) = Len(recvCq[r]) - 1
      BY <1>3, OneTaken
    <2> QED
      BY <1>4, <2>1
  <1>7. ackWire[r] \in Nat /\ cq2[s] \in Nat /\ cq2[r] \in Nat
    BY <1>1 DEF TypeOK
  <1>8. rx[r].buf \in Nat \ {0} /\ rx[r].total \in Nat /\ rx[r].left \in Nat
    <2>1. RxInv(r)
      BY <1>1 DEF Running, SplitInv
    <2> QED
      BY <1>1, <1>3, <2>1, RxFields DEF RxInv
  <1>9. rx[r].buf \in Announced(s, r)
    BY <1>3 DEF Announced
  <1>10. ackWire[r] + cq2[s] = 0 /\ ackWire[r] + cq2[r] = 0 /\ ackWire[s] = 0
    BY <1>2, <1>3, <1>9 DEF Acks
  <1>11. CASE fc[r].chunks = 0
    <2>0. \/ Announced(s, r) = {rx[r].buf} /\ Elsewhere(s)
          \/ Announced(s, r) = {rx[r].buf, job[s].msg} /\ InFlight(s) /\ rx[r].buf # job[s].msg
      BY <1>3, <1>11, InfoAtHand
    <2>1. Finish(r, rx[r].total) /\ UNCHANGED ackWire
      BY <1>5, <1>11 DEF Answer
    <2>2. /\ rpc'[r] = "idle" /\ rpc'[s] = rpc[s] /\ delivered'[s] = delivered[s]
          /\ UNCHANGED <<turn, posted, completed>>
          /\ Order(s, r)' /\ Expected(r)' = 0
          /\ Announced(s, r)' = Announced(s, r) \ {rx[r].buf}
      BY <1>3, <1>8, <2>1, Finishes
    <2>3. splitRR'[s] = splitRR[s] /\ splitRR'[r] = <<InfoRequest>>
      <3>1. splitRR \in [Sides -> Seq(Requests)]
        BY <1>1 DEF TypeOK
      <3>2. /\ splitRR'[s] = splitRR[s]
            /\ splitRR'[r] = <<>> \o ReceiveRequests(rx[r].buf, fc[r].size, 0)
        BY <1>1, <1>4, <1>5, <1>11, <3>1 DEF Answer
      <3> QED
        BY <1>4, <1>8, <3>2, Requested
    <2>4. /\ SameRest(s, r) /\ SamePlace(s) /\ JobLatest(s)' /\ OnSplitWire(s)'
          /\ (Awaiting(s)' <=> Awaiting(s)) /\ job'[s] = job[s]
      BY <1>3, <1>6, <2>2, <2>3, ReceiverOnly
    <2>5. Open(s, r)'
      <3>1. \/ Announced(s, r)' = {} /\ Elsewhere(s)'
            \/ Announced(s, r)' = {job'[s].msg} /\ InFlight(s)'
        BY <2>0, <2>2, <2>4 DEF SamePlace
      <3> QED
        BY <1>6, <2>2, <2>3, <3>1 DEF Open
    <2>6. Acks(s, r)'
      <3>1. ~Awaiting(s)
        BY <2>0 DEF Awaiting, InFlight, Elsewhere, Chunking
      <3> QED
        BY <1>3, <1>10, <2>1, <2>2, <2>4, <3>1 DEF Acks
    <2> QED
      BY <2>2, <2>4, <2>5, <2>6 DEF Kept, Phase
  <1>12. CASE fc[r].chunks # 0
    <2>0. /\ Announced(s, r) = {job[s].msg} /\ rx[r].buf = job[s].msg
          /\ Awaiting(s) /\ fc[r].chunks = job[s].left /\ fc[r].size = job[s].chunk
          /\ job[s].left \in Nat \ {0}
      BY <1>3, <1>12, InfoAtHand
    <2>1. PICK n \in Nat \ {0} : n = job[s].left
      BY <2>0
    <2>2. /\ ackWire' = [ackWire EXCEPT ![r] = @ + 1] /\ rpc' = [rpc EXCEPT ![r] = "ack"]
          /\ rx' = [rx EXCEPT ![r].left = n] /\ UNCHANGED appVars
      BY <1>5, <1>12, <2>0, <2>1 DEF Answer
    <2>3. UNCHANGED <<turn, posted, completed, delivered>>
      BY <2>2 DEF appVars
    <2>4. rpc'[r] = "ack" /\ rpc'[s] = rpc[s]
      BY <1>1, <2>2, RxFields DEF RpcOK
    <2>5. rx'[r].left = n /\ rx'[r].buf = rx[r].buf /\ rx'[r].batch = rx[r].batch
      <3>1. rx \in [Sides -> Receptions]
        BY <1>1, RxFields
      <3>2. rx'[r] = [rx[r] EXCEPT !.left = n]
        BY <1>1, <2>2, <3>1
      <3> QED
        BY <1>1, <3>1, <3>2 DEF Receptions
    <2>6. ackWire'[r] = ackWire[r] + 1 /\ ackWire'[s] = ackWire[s]
      <3>1. ackWire \in [Sides -> Nat]
        BY <1>1 DEF TypeOK
      <3> QED
        BY <1>1, <2>2, <3>1
    <2>7. /\ splitRR'[s] = splitRR[s]
          /\ splitRR'[r] = <<>> \o ReceiveRequests(job[s].msg, job[s].chunk, n)
      <3>1. splitRR \in [Sides -> Seq(Requests)]
        BY <1>1 DEF TypeOK
      <3> QED
        BY <1>1, <1>4, <1>5, <2>0, <2>1, <3>1 DEF Answer
    <2>8. /\ Len(splitRR'[r]) = n + 1 /\ splitRR'[r][n + 1] = InfoRequest
          /\ \A i \in 1..n : splitRR'[r][i] = ChunkRequest(job[s].msg, job[s].chunk, i)
      <3>1. job[s].msg \in Nat \ {0} /\ job[s].chunk \in Chunks /\ n \in Nat
        BY <1>4, <1>8, <2>0
      <3>2. PICK rr : rr = <<>> \o ReceiveRequests(job[s].msg, job[s].chunk, n)
        OBVIOUS
      <3>3. /\ Len(rr) = n + 1 /\ rr[n + 1] = InfoRequest
            /\ \A i \in 1..n : rr[i] = ChunkRequest(job[s].msg, job[s].chunk, i)
        BY <3>1, <3>2, Requested
      <3> QED
        BY <2>7, <3>2, <3>3, Zenon
    <2>9. /\ SameRest(s, r) /\ SamePlace(s) /\ JobLatest(s)' /\ OnSplitWire(s)' /\ Top(s)' = Top(s)
          /\ (Awaiting(s)' <=> Awaiting(s)) /\ job'[s] = job[s]
          /\ (Chunking(s)' <=> Chunking(s))
          /\ OneSent(s)' = OneSent(s) /\ ToLand(s)' = ToLand(s)
      BY <1>3, <1>6, <2>3, <2>4, <2>7, ReceiverOnly
    <2>10. Announced(s, r)' = {}
      <3>1. OnTheWay(s, r)' = OnTheWay(s, r)
        BY <1>3 DEF OnTheWay
      <3>2. Announced(s, r)' = Announced(s, r) \ {rx[r].buf}
        BY <1>1, <1>2, <1>3, <2>4, <3>1, AnnouncedOnce
      <3> QED
        BY <2>0, <3>2
    <2>11. Order(s, r)'
      <3>1. \A m \in 1..Top(s) : VerbOf(s, m)' = VerbOf(s, m)
        BY <2>3 DEF VerbOf
      <3> QED
        BY <1>1, <1>2, <1>3, <2>3, <2>4, <2>5, <2>9, <3>1, OrderFrame
    <2>12. Acks(s, r)'
      BY <1>3, <1>7, <1>10, <2>0, <2>4, <2>6, <2>9, <2>10 DEF Acks
    <2>13. spc[s] \in {"info", "ack"} /\ job[s].off = 0 /\ OneSent(s) = 0 /\ ToLand(s) = n
           /\ job[s].chunk \in Nat
      <3>1. spc[s] \in {"info", "ack"} /\ job[s].off = 0 /\ OneSent(s) = 0
        BY <1>1, <2>0 DEF Awaiting, JobLatest, OneSent
      <3>2. job[s].chunk \in Nat
        BY SenderFields
      <3> QED
        BY <2>1, <3>1, <3>2 DEF ToLand
    <2>14. Exchange(s, r)'
      <3>1. \A i \in 1..n : splitRR'[r][i] =
              [kind |-> "buf", buf |-> job[s].msg, room |-> job[s].chunk,
               pos |-> job[s].off - OneSent(s) * job[s].chunk + job[s].chunk * i]
        <4>1. TAKE i \in 1..n
        <4>2. job[s].chunk * i \in Nat
          BY <2>13
        <4>3. job[s].off - OneSent(s) * job[s].chunk + job[s].chunk * i = job[s].chunk * i
          BY <2>13, <4>2
        <4> QED
          BY <2>8, <4>3 DEF ChunkRequest
      <3>2. Chunking(s)
        BY <2>0 DEF Chunking
      <3>3. Len(recvCq'[r]) + n = rx'[r].left
        BY <1>6, <2>5
      <3> QED
        BY <2>0, <2>4, <2>5, <2>8, <2>9, <2>10, <2>13, <3>1, <3>2, <3>3 DEF Exchange
    <2> QED
      BY <2>4, <2>9, <2>11, <2>12, <2>14 DEF Kept, Phase
  <1> QED
    BY <1>11, <1>12

(* A chunk is taken; after the last one the message is handed out.          *)
LEMMA PlaceChunkTaken ==
  ASSUME NEW s, NEW r, Running(s, r), PollChunk(r)
  PROVE  Kept(s, r)
  <1>1. /\ TypeOK /\ s \in Sides /\ r \in Sides /\ s # r /\ JobInv(s) /\ job[s].left \in Nat
    BY SenderFields
  <1>2. Acks(s, r) /\ Order(s, r) /\ Phase(s, r)
    BY DEF Running
  <1>3. /\ rpc[r] = "chunks" /\ recvCq[r] # <<>> /\ recvCq' = [recvCq EXCEPT ![r] = Tail(@)]
        /\ UNCHANGED <<sendVars, userWire, userCq, splitWire, splitRR, fc, sendCq, ackVars>>
    BY DEF PollChunk
  <1>4. /\ recvCq'[s] = recvCq[s] /\ Len(recvCq[r]) \in Nat \ {0}
        /\ Len(recvCq'[r]) = Len(recvCq[r]) - 1
        /\ Head(recvCq[r]) \in Nat
    BY <1>3, OneTaken
  <1>5. PICK total \in Nat : total = rx[r].total + Head(recvCq[r])
    BY <1>1, <1>4, RxFields
  <1>6. rx[r].left \in Nat \ {0} /\ Expected(r) = rx[r].left
    <2>1. RxInv(r)
      BY <1>1 DEF Running, SplitInv
    <2> QED
      BY <1>1, <1>3, <2>1, RxFields DEF RxInv, Expected
  <1>7. CASE rx[r].left = 1
    <2>1. Finish(r, total)
      BY <1>5, <1>7 DEF PollChunk
    <2>2. /\ rpc'[r] = "idle" /\ rpc'[s] = rpc[s] /\ delivered'[s] = delivered[s]
          /\ UNCHANGED <<turn, posted, completed>>
          /\ Order(s, r)' /\ Expected(r)' = 0
      BY <1>3, <2>1, Finishes
    <2>3. Announced(s, r)' = Announced(s, r)
      BY <1>3, <2>2 DEF Announced, OnTheWay
    <2>4. /\ SameRest(s, r) /\ SamePlace(s) /\ JobLatest(s)' /\ OnSplitWire(s)'
          /\ posted'[s] = posted[s] /\ (Awaiting(s)' <=> Awaiting(s)) /\ fc'[r] = fc[r]
          /\ job'[s] = job[s]
      BY <1>3, <1>4, <2>2, ReceiverOnly
    <2>5. Acks(s, r)'
      <3>1. SameAcks(s, r)
        BY <1>3 DEF SameAcks, ackVars
      <3> QED
        BY <1>1, <1>2, <1>3, <2>2, <2>3, <2>4, <3>1, AcksStay
    <2>6. ~Exchange(s, r)
      <3>1. Chunking(s) => ToLand(s) \in Nat \ {0}
        BY <1>1 DEF Chunking, Awaiting, JobInv, ToLand, OneSent
      <3>2. ToLand(s) \in Nat \ {0} => Len(recvCq[r]) + ToLand(s) # 1
        BY <1>4
      <3> QED
        BY <1>7, <3>1, <3>2 DEF Exchange
    <2>7. Phase(s, r)'
      <3>1. splitRR'[r] = splitRR[r] /\ Expected(r)' = Expected(r) - 1
            /\ Expected(r) \in Nat /\ Len(recvCq[r]) \in Nat
        BY <1>3, <1>4, <1>6, <1>7, <2>2
      <3> QED
        BY <1>2, <1>4, <2>3, <2>4, <2>6, <3>1, TakesOne DEF Phase
    <2> QED
      BY <2>2, <2>4, <2>5, <2>7 DEF Kept
  <1>8. CASE rx[r].left # 1
    <2>1. PICK left \in Nat : left = rx[r].left - 1
      BY <1>6
    <2>2. /\ rx' = [rx EXCEPT ![r].left = left, ![r].total = total]
          /\ UNCHANGED <<rpc, appVars>>
      BY <1>5, <1>8, <2>1 DEF PollChunk
    <2>3. UNCHANGED <<turn, posted, completed, delivered, rpc>>
      BY <2>2 DEF appVars
    <2>4. rx'[r].left = left /\ rx'[r].buf = rx[r].buf /\ rx'[r].batch = rx[r].batch
      <3>1. rx \in [Sides -> Receptions]
        BY <1>1, RxFields
      <3>2. rx'[r] = [rx[r] EXCEPT !.left = left, !.total = total]
        BY <1>1, <2>2, <3>1
      <3> QED
        BY <1>1, <3>1, <3>2 DEF Receptions
    <2>5. /\ SameRest(s, r) /\ SamePlace(s) /\ JobLatest(s)' /\ OnSplitWire(s)' /\ Top(s)' = Top(s)
          /\ posted'[s] = posted[s] /\ (Awaiting(s)' <=> Awaiting(s)) /\ fc'[r] = fc[r]
          /\ job'[s] = job[s] /\ (Chunking(s)' <=> Chunking(s))
          /\ OneSent(s)' = OneSent(s) /\ ToLand(s)' = ToLand(s)
      BY <1>3, <1>4, <2>3, ReceiverOnly
    <2>6. Announced(s, r)' = Announced(s, r)
      BY <1>3, <2>3 DEF Announced, OnTheWay
    <2>7. Expected(r)' = Expected(r) - 1
      BY <1>3, <1>6, <2>1, <2>3, <2>4 DEF Expected
    <2>8. Order(s, r)'
      <3>1. \A m \in 1..Top(s) : VerbOf(s, m)' = VerbOf(s, m)
        BY <2>3 DEF VerbOf
      <3> QED
        BY <1>1, <1>2, <1>3, <2>3, <2>4, <2>5, <3>1, OrderFrame
    <2>9. Acks(s, r)'
      <3>1. SameAcks(s, r)
        BY <1>3 DEF SameAcks, ackVars
      <3> QED
        BY <1>1, <1>2, <2>3, <2>5, <2>6, <3>1, AcksStay
    <2>10. ASSUME Exchange(s, r) PROVE Exchange(s, r)'
      <3>1. ToLand(s) \in Nat /\ Len(recvCq[r]) + ToLand(s) = rx[r].left
        BY <1>1, <2>10 DEF Exchange, ToLand, OneSent
      <3>2. Len(recvCq'[r]) + ToLand(s) = left
        BY <1>4, <1>6, <2>1, <3>1
      <3>3. splitRR'[r] = splitRR[r]
        BY <1>3
      <3> QED
        BY <1>3, <2>3, <2>4, <2>5, <2>6, <2>10, <3>2, <3>3 DEF Exchange
    <2>11. Phase(s, r)'
      <3>1. splitRR'[r] = splitRR[r] /\ Expected(r) \in Nat /\ Len(recvCq[r]) \in Nat
        BY <1>3, <1>4, <1>6
      <3> QED
        BY <1>2, <1>4, <2>5, <2>6, <2>7, <2>10, <3>1, TakesOne DEF Phase
    <2>12. rpc'[r] # "failed"
      BY <1>3, <2>3
    <2> QED
      BY <2>5, <2>8, <2>9, <2>11, <2>12 DEF Kept
  <1> QED
    BY <1>7, <1>8

-----------------------------------------------------------------------------
(* Every step.                                                              *)

LEMMA NothingMoves ==
  ASSUME NEW s, NEW r, Running(s, r), InPlace,
         UNCHANGED <<appVars, sendVars, recvVars, userWire, userCq, splitWire, splitRR,
                     fc, sendCq, recvCq, ackVars, placed>>
  PROVE  Kept(s, r) /\ InPlace'
  <1>1. s \in Sides /\ r \in Sides /\ JobLatest(s) /\ OnSplitWire(s)
    BY SenderFields
  <1>2. /\ SameSender(s) /\ SameApp(s, r) /\ SameUser(s, r) /\ SameReceiver(r)
        /\ SameRequests(r) /\ SameRest(s, r) /\ SameAcks(s, r)
    BY DEF SameSender, SameApp, SameUser, SameReceiver, SameRequests, SameRest, SameTurn,
         SameAcks, appVars, sendVars, recvVars, ackVars
  <1>3. Top(s)' = Top(s) /\ JobLatest(s)' /\ OnSplitWire(s)'
    BY <1>1, <1>2, JobStays, OnSplitStays DEF Top, SameSender, SameApp
  <1>4. /\ SamePlace(s) /\ (Awaiting(s)' <=> Awaiting(s)) /\ (Chunking(s)' <=> Chunking(s))
        /\ OneSent(s)' = OneSent(s) /\ ToLand(s)' = ToLand(s)
    BY <1>1, <1>2, SenderStays
  <1>5. ASSUME Exchange(s, r) PROVE Exchange(s, r)'
    <2>1. Announced(s, r)' = Announced(s, r)
      BY <1>1, <1>2, <1>3, OrderStays DEF Running
    <2> QED
      BY <1>1, <1>2, <1>4, <1>5, <2>1, ExchangeStays DEF Exchange, SameSender, SameReceiver
  <1>6. Kept(s, r)
    BY <1>2, <1>3, <1>4, <1>5, SenderMoves
  <1> QED
    BY <1>6, NothingPlaced

LEMMA SendKept ==
  ASSUME LargeChunks, NEW s, NEW r, Running(s, r), InPlace, Post(s) \/ SendStep(s)
  PROVE  Kept(s, r) /\ InPlace'
  <1>1. CASE SenderWakes(s)
    <2>1. PICK ch : Wake(s, "sender", ch)
      BY <1>1 DEF SenderWakes
    <2> QED
      BY <2>1, NothingMoves DEF Wake
  <1>2. ASSUME NEW len \in Lengths, NEW chunk \in Chunks,
               \/ \E verb \in Verbs : PostWhole(s, verb, len, chunk)
               \/ PostSplit(s, len, chunk)
               \/ StartWimm(s, len, chunk) \/ StartPut(s, len, chunk)
        PROVE  Kept(s, r) /\ InPlace'
    <2>1. Kept(s, r)
      BY <1>2, PlaceWhole, PlaceSplit, PlaceStart
    <2>2. placed' = placed /\ fc' = fc
      BY <1>2 DEF PostWhole, PostSplit, StartWimm, StartPut
    <2> QED
      BY <2>1, <2>2, NothingPlaced
  <1>3. CASE \/ PollInfoSent(s) \/ PollAck(s) \/ PostChunk(s) \/ PollChunkSent(s)
             \/ PostWrite(s) \/ PollWritten(s) \/ PostPut(s) \/ PollPut(s)
    <2>1. Kept(s, r)
      BY <1>3, PlaceInfoSent, PlaceAck, PlaceChunk, PlaceChunkSent, PlaceWrite, PlaceWritten,
         PlacePut, PlaceFlushed
    <2>2. placed' = placed /\ fc' = fc
      BY <1>3 DEF PollInfoSent, PollAck, PostChunk, PollChunkSent, PostWrite, PollWritten,
           PostPut, PollPut
    <2> QED
      BY <2>1, <2>2, NothingPlaced
  <1> QED
    BY <1>1, <1>2, <1>3 DEF Post, SendStep

LEMMA ReceiveKept ==
  ASSUME NEW s, NEW r, Running(s, r), InPlace, RecvStep(r)
  PROVE  Kept(s, r) /\ InPlace'
  <1>1. CASE ReceiverWakes(r)
    <2>1. PICK ch : Wake(r, "receiver", ch)
      BY <1>1 DEF ReceiverWakes
    <2> QED
      BY <2>1, NothingMoves DEF Wake
  <1>2. ASSUME NEW k \in 1..Batch, PollUser(r, k)
        PROVE  Kept(s, r) /\ InPlace'
    <2>1. Kept(s, r)
      BY <1>2, PlaceHandOut, PlaceTake
    <2>2. placed' = placed /\ fc' = fc
      BY <1>2 DEF PollUser
    <2> QED
      BY <2>1, <2>2, NothingPlaced
  <1>3. CASE PollInfo(r) \/ PollAckSent(r) \/ PollChunk(r) \/ PollWimm(r)
    <2>1. Kept(s, r)
      BY <1>3, PlaceInfo, PlaceAckSent, PlaceChunkTaken, PlaceWimm
    <2>2. placed' = placed /\ fc' = fc
      BY <1>3 DEF PollInfo, PollAckSent, PollChunk, PollWimm
    <2> QED
      BY <2>1, <2>2, NothingPlaced
  <1> QED
    BY <1>1, <1>2, <1>3 DEF RecvStep

(* In the other direction there is nothing to do.                           *)
LEMMA RestDisabled ==
  ASSUME HalfDuplex, NEW s, NEW r, Running(s, r)
  PROVE  /\ ~Post(r) /\ (SendStep(r) => SenderWakes(r))
         /\ RecvStep(s) => ReceiverWakes(s)
         /\ ~LandUser(r) /\ ~LandOnSplit(r) /\ ~LandAck(s) /\ ~HandOver(r)
  <1>1. /\ s # r /\ s \in Sides /\ turn = s /\ Resting(r, s) /\ Acks(s, r) /\ TypeOK
    BY SenderFields DEF Running
  <1>2. ~Post(r)
    BY <1>1 DEF Post, PostWhole, PostSplit, StartWimm, StartPut, Accept, MayPost
  <1>3. SendStep(r) => SenderWakes(r)
    BY <1>1
    DEF Resting, SendStep, PollInfoSent, PollAck, PostChunk, PollChunkSent, PostWrite,
        PollWritten, PostPut, PollPut
  <1>4. \A k \in 1..Batch : ~PollUser(s, k)
    <2>1. TAKE k \in 1..Batch
    <2>2. userCq[s] = <<>> /\ Len(<<>>) = 0
      BY <1>1 DEF Resting
    <2>3. Min({Batch, 0}) <= 0 /\ Min({Batch, 0}) \in Nat
      BY BoundsAssumption, MinBelow
    <2>4. ~Taken(s, k)
      BY <2>2, <2>3 DEF Taken
    <2> QED
      BY <2>4 DEF PollUser
  <1>5. RecvStep(s) => ReceiverWakes(s)
    BY <1>1, <1>4 DEF Resting, RecvStep, PollInfo, PollAckSent, PollChunk, PollWimm
  <1>6. ~LandUser(r) /\ ~LandOnSplit(r)
    BY <1>1 DEF Resting, LandUser, LandOnSplit, LandSplitSend, LandSplitWrite, LandSplit
  <1>7. ~LandAck(s)
    BY <1>1 DEF Acks, LandAck
  <1>8. ~HandOver(r)
    BY <1>1 DEF HandOver
  <1> QED
    BY <1>2, <1>3, <1>5, <1>6, <1>7, <1>8

(* When the ends change places everything has arrived.                      *)
LEMMA AllArrived ==
  ASSUME NEW s, NEW r, Running(s, r), HandOver(s)
  PROVE  Resting(s, r) /\ ackWire[r] = 0 /\ cq2[s] = 0 /\ cq2[r] = 0
  <1>1. /\ TypeOK /\ s \in Sides /\ r \in Sides /\ s # r /\ Peer(s) = r
        /\ Len(posted[s]) \in Nat
    BY SenderFields DEF Ends
  <1>2. Order(s, r) /\ Acks(s, r) /\ rpc[r] # "failed"
    BY DEF Running
  <1>3. spc[s] = "idle" /\ \A msg \in DOMAIN posted[s] : Through(s, msg)
    BY DEF HandOver
  <1>4. Top(s) = Len(posted[s]) /\ DOMAIN posted[s] = 1..Top(s)
    <2>1. posted[s] \in Seq([verb : Verbs, len : Lengths])
      BY <1>1 DEF TypeOK
    <2> QED
      BY <1>3, <2>1, LenProperties DEF Top
  <1>5. ASSUME NEW m \in 1..Top(s)
        PROVE  m \in completed[s] \/ m \in Msgs(delivered[r])
    <2>1. Through(s, m)
      BY <1>3, <1>4
    <2> QED
      BY <1>1, <2>1 DEF Through, Msgs
  <1>6. /\ \A x \in OnTheWay(s, r) : x.msg \in Nat
        /\ rx[r].buf \in Nat
    BY <1>1, OrderTypes
  <1>7. /\ \A m \in Msgs(delivered[r]) : \A x \in OnTheWay(s, r) : m < x.msg
        /\ \A m \in completed[s] : VerbOf(s, m) = "WRITE"
                                   /\ \A y \in Range(userWire[s]) : m < y.msg
        /\ \A x \in Range(userCq[r]) : x.msg \in 1..Top(s) /\ VerbOf(s, x.msg) = x.verb
                                       /\ TwoSided(x.verb)
        /\ \A y \in Range(userWire[s]) : y.msg \in 1..Top(s)
        /\ rpc[r] # "idle" => /\ rx[r].buf \in 1..Top(s) /\ TwoSided(VerbOf(s, rx[r].buf))
                              /\ \A m \in Msgs(delivered[r]) : m < rx[r].buf
    BY <1>2 DEF Order, QueuesInOrder, ReceptionInOrder, HandedInOrder
  <1>8. Range(userCq[r]) = {}
    <2>1. SUFFICES ASSUME NEW x \in Range(userCq[r]) PROVE FALSE
      OBVIOUS
    <2>2. x \in OnTheWay(s, r) /\ x.msg \in 1..Top(s) /\ VerbOf(s, x.msg) # "WRITE"
      BY <1>7, <2>1 DEF OnTheWay, TwoSided
    <2>3. x.msg \in Msgs(delivered[r])
      BY <1>5, <1>7, <2>2
    <2> QED
      BY <1>6, <1>7, <2>2, <2>3
  <1>9. Range(userWire[s]) = {}
    <2>1. SUFFICES ASSUME NEW x \in Range(userWire[s]) PROVE FALSE
      OBVIOUS
    <2>2. x \in OnTheWay(s, r) /\ x.msg \in 1..Top(s)
      BY <1>7, <2>1 DEF OnTheWay
    <2>3. x.msg < x.msg
      BY <1>5, <1>7, <2>1, <2>2
    <2> QED
      BY <1>6, <2>2, <2>3
  <1>10. rpc[r] = "idle"
    <2>1. SUFFICES ASSUME rpc[r] # "idle" PROVE FALSE
      OBVIOUS
    <2>2. rx[r].buf \in 1..Top(s) /\ VerbOf(s, rx[r].buf) # "WRITE"
      BY <1>7, <2>1 DEF TwoSided
    <2>3. rx[r].buf \in Msgs(delivered[r])
      BY <1>5, <1>7, <2>2
    <2> QED
      BY <1>6, <1>7, <2>1, <2>3
  <1>11. userCq[r] = <<>> /\ userWire[s] = <<>>
    <2>1. userCq[r] \in Seq(UserItems) /\ userWire[s] \in Seq(UserItems)
      BY <1>1, OrderTypes
    <2>2. ASSUME NEW q \in Seq(UserItems), Range(q) = {} PROVE q = <<>>
      <3>1. PICK n \in Nat : n = Len(q)
        BY LenProperties
      <3>2. n = 0
        <4>1. n # 0 => 1 \in 1..n
          BY <3>1
        <4>2. 1 \in 1..n => q[1] \in Range(q)
          BY <3>1, Indices
        <4> QED
          BY <2>2, <4>1, <4>2
      <3> QED
        BY <3>1, <3>2, EmptySeq
    <2> QED
      BY <1>8, <1>9, <2>1, <2>2
  <1>12. Announced(s, r) = {} /\ Expected(r) = 0
    BY <1>8, <1>9, <1>10 DEF Announced, OnTheWay, Expected
  <1>13. splitWire[s] = <<>> /\ sendCq[s] = 0 /\ Open(s, r) /\ ~Awaiting(s)
    BY <1>3, <1>12, BeforeCall
  <1>14. splitRR[r] = <<InfoRequest>> /\ recvCq[r] = <<>>
    <2>1. recvCq[r] \in Seq(Nat) /\ Len(recvCq[r]) = 0
      BY <1>1, <1>12, <1>13 DEF Open, TypeOK
    <2> QED
      BY <1>13, <2>1, EmptySeq DEF Open
  <1>15. ackWire[r] = 0 /\ cq2[s] = 0 /\ cq2[r] = 0
    <2>1. ackWire[r] \in Nat /\ cq2[s] \in Nat /\ cq2[r] \in Nat
      BY <1>1 DEF TypeOK
    <2>2. ackWire[r] + cq2[s] = 0 /\ ackWire[r] + cq2[r] = 0
      BY <1>2, <1>10, <1>13 DEF Acks
    <2> QED
      BY <2>1, <2>2
  <1> QED
    BY <1>2, <1>3, <1>10, <1>11, <1>13, <1>14, <1>15 DEF Resting, Order

(* An end whose direction rests may begin to send.                          *)
LEMMA MayBegin ==
  ASSUME NEW s \in Sides, NEW r \in Sides, Resting(s, r),
         ackWire[s] = 0 /\ ackWire[r] = 0 /\ cq2[s] = 0 /\ cq2[r] = 0
  PROVE  Sending(s, r)
  <1>1. /\ spc[s] = "idle" /\ rpc[r] = "idle"
        /\ userWire[s] = <<>> /\ userCq[r] = <<>> /\ splitWire[s] = <<>> /\ sendCq[s] = 0
        /\ splitRR[r] = <<InfoRequest>> /\ recvCq[r] = <<>>
        /\ HandedInOrder(s, r)
    BY DEF Resting
  <1>2. QueuesInOrder(s, r) /\ ReceptionInOrder(s, r)
    BY <1>1, NothingQueued DEF QueuesInOrder, ReceptionInOrder
  <1>3. JobLatest(s) /\ OnSplitWire(s)
    BY <1>1 DEF JobLatest, OnSplitWire
  <1>4. Announced(s, r) = {} /\ Expected(r) = 0
    BY <1>1, NothingQueued DEF Announced, OnTheWay, Expected
  <1>5. Elsewhere(s) /\ ~Awaiting(s)
    BY <1>1 DEF Elsewhere, InFlight, Chunking, Awaiting, ImmLanded
  <1>6. Phase(s, r)
    BY <1>1, <1>4, <1>5 DEF Phase, Open
  <1>7. Acks(s, r)
    BY <1>1, <1>5 DEF Acks
  <1> QED
    BY <1>1, <1>2, <1>3, <1>6, <1>7 DEF Sending

LEMMA TurnOnly ==
  ASSUME NEW s, NEW r,
         UNCHANGED <<posted, delivered, completed, sendVars, recvVars, userWire, userCq,
                     splitWire, splitRR, fc, sendCq, recvCq, ackVars>>
  PROVE  Sending(s, r)' = Sending(s, r) /\ Resting(s, r)' = Resting(s, r)
  <1>1. /\ posted' = posted /\ delivered' = delivered /\ completed' = completed
        /\ spc' = spc /\ job' = job /\ rpc' = rpc /\ rx' = rx
        /\ ackWire' = ackWire /\ cq2' = cq2
    BY DEF sendVars, recvVars, ackVars
  <1>2. Top(s)' = Top(s) /\ OnTheWay(s, r)' = OnTheWay(s, r)
        /\ \A m : VerbOf(s, m)' = VerbOf(s, m)
    BY <1>1 DEF Top, OnTheWay, VerbOf
  <1>3. HandedInOrder(s, r)' = HandedInOrder(s, r)
    BY <1>1, <1>2 DEF HandedInOrder
  <1>4. /\ QueuesInOrder(s, r)' = QueuesInOrder(s, r)
        /\ ReceptionInOrder(s, r)' = ReceptionInOrder(s, r)
    BY <1>1, <1>2 DEF QueuesInOrder, ReceptionInOrder
  <1>5. JobLatest(s)' = JobLatest(s)
    BY <1>1, <1>2 DEF JobLatest
  <1>6. OnSplitWire(s)' = OnSplitWire(s)
    BY <1>1 DEF OnSplitWire, Announcement, IsChunk, IsWrite, Puts
  <1>7. /\ Announced(s, r)' = Announced(s, r) /\ Expected(r)' = Expected(r)
        /\ Announcement(s)' = Announcement(s) /\ OneSent(s)' = OneSent(s)
        /\ ToLand(s)' = ToLand(s)
        /\ Awaiting(s)' = Awaiting(s) /\ InFlight(s)' = InFlight(s)
        /\ Chunking(s)' = Chunking(s) /\ ImmLanded(s)' = ImmLanded(s)
        /\ Elsewhere(s)' = Elsewhere(s)
    BY <1>1, <1>2 DEF Announced, Expected, Announcement, OneSent, ToLand, Awaiting, InFlight,
       Chunking, ImmLanded, Elsewhere
  <1>8. Phase(s, r)' = Phase(s, r)
    <2>1. Open(s, r)' = Open(s, r)
      BY <1>1, <1>7 DEF Open
    <2>2. \A d : NothingFollows(s, r, d)' = NothingFollows(s, r, d)
      BY <1>2 DEF NothingFollows
    <2>3. Used(s, r)' = Used(s, r)
      BY <1>1, <1>7, <2>2 DEF Used
    <2>4. Exchange(s, r)' = Exchange(s, r)
      BY <1>1, <1>7 DEF Exchange
    <2> QED
      BY <2>1, <2>3, <2>4 DEF Phase
  <1>9. Acks(s, r)' = Acks(s, r)
    BY <1>1, <1>7 DEF Acks
  <1> QED
    BY <1>1, <1>3, <1>4, <1>5, <1>6, <1>8, <1>9 DEF Sending, Resting

LEMMA TurnsChange ==
  ASSUME NEW s, NEW r, Running(s, r), InPlace, HandOver(s)
  PROVE  PlaceInv' /\ InPlace'
  <1>1. s \in Sides /\ r \in Sides /\ Peer(s) = r /\ Peer(r) = s
    BY SenderFields DEF Ends
  <1>2. Resting(r, s) /\ ackWire[s] = 0
    BY DEF Running, Acks
  <1>3. Resting(s, r) /\ ackWire[r] = 0 /\ cq2[s] = 0 /\ cq2[r] = 0
    BY AllArrived
  <1>4. Sending(r, s)
    BY <1>1, <1>2, <1>3, MayBegin
  <1>5. /\ UNCHANGED <<posted, delivered, completed, sendVars, recvVars, userWire, userCq,
                       splitWire, splitRR, fc, sendCq, recvCq, ackVars>>
        /\ placed' = placed /\ fc' = fc /\ turn' = r
    BY <1>1 DEF HandOver
  <1>6. Sending(r, s)' /\ Resting(s, r)'
    BY <1>3, <1>4, <1>5, TurnOnly
  <1> QED
    BY <1>1, <1>5, <1>6, NothingPlaced DEF PlaceInv

LEMMA PlaceStep ==
  ASSUME HalfDuplex, LargeChunks, TypeOK, SplitInv, PlaceInv, InPlace, [Next]_vars
  PROVE  PlaceInv' /\ InPlace'
  <1>1. PICK s \in Sides, r \in Sides :
          turn = s /\ r = Peer(s) /\ Sending(s, r) /\ Resting(r, s)
    BY DEF PlaceInv
  <1>2. Ends(s, r)
    BY <1>1, BothEnds
  <1>3. Running(s, r)
    BY <1>1, <1>2 DEF Running, Sending, Order
  <1>4. ASSUME Kept(s, r) PROVE PlaceInv'
    <2>1. Resting(r, s)'
      BY <1>1, <1>4, RestStays DEF Kept
    <2>2. Sending(s, r)'
      BY <1>4 DEF Kept, Sending, Order
    <2>3. turn' = s
      BY <1>1, <1>4 DEF Kept, SameRest, SameTurn
    <2> QED
      BY <1>1, <2>1, <2>2, <2>3 DEF PlaceInv
  <1>5. CASE UNCHANGED vars
    BY <1>3, <1>4, <1>5, NothingMoves DEF vars
  <1>6. ASSUME NEW p \in Sides, SenderWakes(p) \/ ReceiverWakes(p)
        PROVE  PlaceInv' /\ InPlace'
    <2>1. PICK thread, ch : Wake(p, thread, ch)
      BY <1>6 DEF SenderWakes, ReceiverWakes
    <2> QED
      BY <1>3, <1>4, <2>1, NothingMoves DEF Wake
  <1>7. CASE Post(s) \/ SendStep(s)
    BY <1>3, <1>4, <1>7, SendKept
  <1>8. CASE RecvStep(r)
    BY <1>3, <1>4, <1>8, ReceiveKept
  <1>9. CASE LandUser(s) \/ LandOnSplit(s)
    BY <1>3, <1>4, <1>9, PlaceLandUser, PlaceLandSplit
  <1>10. CASE LandAck(r)
    <2>1. placed' = placed /\ fc' = fc
      BY <1>10 DEF LandAck
    <2> QED
      BY <1>3, <1>4, <1>10, <2>1, PlaceLandAck, NothingPlaced
  <1>11. CASE HandOver(s)
    BY <1>3, <1>11, TurnsChange
  <1>12. \E p \in {s, r} : \/ Post(p) \/ SendStep(p) \/ RecvStep(p) \/ HandOver(p)
                           \/ LandUser(p) \/ LandOnSplit(p) \/ LandAck(p) \/ UNCHANGED vars
    BY <1>2 DEF Next, Ends
  <1> QED
    BY <1>1, <1>3, <1>5, <1>6, <1>7, <1>8, <1>9, <1>10, <1>11, <1>12, RestDisabled

LEMMA PlaceInit == Init => PlaceInv /\ InPlace
  <1>1. SUFFICES ASSUME Init PROVE PlaceInv /\ InPlace
    OBVIOUS
  <1>2. InPlace
    BY <1>1 DEF Init, InPlace
  <1>3. PICK s \in Sides, r \in Sides : s = First /\ r = Peer(s) /\ Ends(s, r)
    BY DuplexAssumption, BothEnds, PeerInSides
  <1>4. \A p, q \in Sides : Resting(p, q)
    <2>1. TAKE p, q \in Sides
    <2>2. /\ spc[p] = "idle" /\ rpc[q] = "idle"
          /\ userWire[p] = <<>> /\ userCq[q] = <<>> /\ splitWire[p] = <<>> /\ sendCq[p] = 0
          /\ splitRR[q] = <<InfoRequest>> /\ recvCq[q] = <<>>
      BY <1>1 DEF Init
    <2>3. delivered[q] = <<>> /\ completed[p] = {}
      BY <1>1 DEF Init
    <2>4. HandedInOrder(p, q)
      BY <2>3, NothingQueued DEF HandedInOrder
    <2> QED
      BY <2>2, <2>4 DEF Resting
  <1>5. Sending(s, r)
    <2>1. ackWire[s] = 0 /\ ackWire[r] = 0 /\ cq2[s] = 0 /\ cq2[r] = 0
      BY <1>1 DEF Init
    <2> QED
      BY <1>4, <2>1, MayBegin
  <1>6. turn = s
    BY <1>1, <1>3 DEF Init
  <1> QED
    BY <1>2, <1>3, <1>4, <1>5, <1>6 DEF PlaceInv

(* However long the messages are and however many, whatever chunk size each *)
(* is sent with and in whatever order the three queue pairs deliver: if the *)
(* ends take turns and no chunk is smaller than what a receiver recognises  *)
(* as the first of a message, every chunk lands in the receive request that *)
(* was posted for it, and INFO where INFO is expected (qp.c:1756-1971 and   *)
(* cq.c:1096-1319 of libmlx4).                                             *)
THEOREM ChunksInPlace ==
  ASSUME HalfDuplex, LargeChunks
  PROVE  SafeSpec => []InPlace
  <1>1. Init => TypeOK /\ SplitInv /\ PlaceInv /\ InPlace
    BY SplitInit, PlaceInit
  <1>2. TypeOK /\ SplitInv /\ PlaceInv /\ InPlace /\ [Next]_vars
          => (TypeOK /\ SplitInv /\ PlaceInv /\ InPlace)'
    BY SplitStep, PlaceStep
  <1> QED
    BY <1>1, <1>2, PTL DEF SafeSpec

=============================================================================
