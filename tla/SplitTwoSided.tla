--------------------------- MODULE SplitTwoSided ---------------------------
(***************************************************************************)
(* How large messages are cut into chunks and put together again (libmlx4).*)
(*                                                                         *)
(* Every queue pair of an application has companions that the application  *)
(* does not see.  ibv_post_send puts the first chunk on the user's own     *)
(* queue pair, announces how many chunks follow in an INFO message on      *)
(* split_qp[0], waits for the receiver's ACK on split_qp2, and sends the   *)
(* other chunks on split_qp[0], one at a time.  ibv_poll_cq on the other   *)
(* side sees the large first chunk, takes the INFO, posts one receive      *)
(* request per chunk right behind the first one's data, sends the ACK,     *)
(* waits for the chunks and hands the application a single completion.     *)
(*                                                                         *)
(* A WRITE with immediate goes the other way round: all but the last chunk  *)
(* are written on split_qp[0], the last of these with the immediate, and   *)
(* when they have landed the last chunk follows on the user's queue pair.  *)
(* A plain WRITE does the same, without immediate, and waits once, for the *)
(* last of the chunks on split_qp[0]; the other end takes no part.         *)
(*                                                                         *)
(* Each queue pair is an in-order channel of its own; what consumes a      *)
(* receive request waits for one for ever (rnr_retry = 7).  Every wait for *)
(* a completion takes an event from the channel first, re-arms it, and     *)
(* only then polls (SPLIT_USE_EVENT).  A message here is a single work     *)
(* request.  Lengths are in abstract units.                                *)
(***************************************************************************)
EXTENDS Integers, Sequences, FiniteSets, FiniteSetsExt

CONSTANTS
  Sides,        \* the two ends of the connection
  MinSplit,     \* MIN_SPLIT_CHUNK_SIZE
  Chunks,       \* the chunk sizes the pacer may ask for, active_chunk_size
  Lengths,      \* message lengths
  Batch,        \* the ne of the application's ibv_poll_cq
  MaxMsgs,      \* bound: how many messages each side sends
  HalfDuplex,   \* the application's ends take turns in sending
  First,        \* the end that starts if they do
  None          \* no message

ASSUME SidesAssumption == \E x, y \in Sides : x # y /\ Sides = {x, y}
ASSUME SizesAssumption ==
  /\ MinSplit \in Nat \ {0}
  /\ Chunks \subseteq Nat \ {0}
  /\ Lengths \subseteq Nat \ {0}
ASSUME BoundsAssumption == Batch \in Nat \ {0} /\ MaxMsgs \in [Sides -> Nat]
ASSUME DuplexAssumption == HalfDuplex \in BOOLEAN /\ First \in Sides

Peer(s) == CHOOSE p \in Sides : p # s

VARIABLES
  \* the application
  turn,         \* whose turn it is, if the ends take turns
  posted,       \* the messages posted so far: verb and length
  delivered,    \* completions handed to the receiving application so far
  completed,    \* the application's own WRITEs that have completed
  \* the thread in ibv_post_send
  spc,          \* "idle", "info", "ack", "chunk", "sent", "write", "written",
                \* "put", "flush"
  job,          \* the message being split
  \* the thread in ibv_poll_cq
  rpc,          \* "idle", "info", "ack", "chunks", "wimm", "failed"
  rx,           \* the message being put together
  \* queue pairs and completion queues
  userWire,     \* posted on the user's queue pair, not landed
  userCq,       \* landed, not polled by the application
  splitWire,    \* posted on split_qp[0], not landed, in order
  splitRR,      \* receive requests of split_qp[0]
  fc,           \* split_fc_msg[0], where the INFO lands
  sendCq,       \* completions in split_send_cq
  recvCq,       \* completions in split_recv_cq: their byte_len
  ackWire,      \* ACKs posted on split_qp2, not landed
  ackRR,        \* receive requests of split_qp2
  cq2,          \* how many completions are in split_cq2
  placed,       \* what has landed in the application's receive buffers
  events,       \* the channels with an event to take; the others are armed
  awake         \* the threads that took the event and now poll

appVars  == <<turn, posted, delivered, completed>>
sendVars == <<spc, job>>
recvVars == <<rpc, rx>>
ackVars  == <<ackWire, ackRR, cq2>>
evVars   == <<events, awake>>
vars == <<appVars, sendVars, recvVars, userWire, userCq, splitWire, splitRR,
          fc, sendCq, recvCq, ackVars, placed, evVars>>

NoJob == [msg |-> 0, len |-> 0, chunk |-> 0, left |-> 0, off |-> 0]
NoRx == [batch |-> <<>>, buf |-> 0, left |-> 0, total |-> 0]
Channels == {"send", "recv", "ack"}
Verbs == {"SEND", "WRITE_WITH_IMM", "WRITE"}
TwoSided(verb) == verb # "WRITE"

(* A receive request for INFO, and one for the i-th chunk behind the first  *)
(* in the application's buffer.                                            *)
InfoRequest == [kind |-> "fc"]
ChunkRequest(buf, size, i) ==
  [kind |-> "buf", buf |-> buf, pos |-> size * i, room |-> size]

(* What lands in a buffer of the application.  INFO is nobody's message.    *)
Piece(request, msg, off, len) ==
  [buf |-> request.buf, pos |-> request.pos, room |-> request.room,
   msg |-> msg, off |-> off, len |-> len]

(* mlx4_modify_qp posts one receive request on each companion in advance,   *)
(* and arms the three completion queues.                                   *)
Init ==
  /\ turn = First
  /\ posted = [s \in Sides |-> <<>>] /\ delivered = [s \in Sides |-> <<>>]
  /\ completed = [s \in Sides |-> {}]
  /\ spc = [s \in Sides |-> "idle"] /\ job = [s \in Sides |-> NoJob]
  /\ rpc = [s \in Sides |-> "idle"] /\ rx = [s \in Sides |-> NoRx]
  /\ userWire = [s \in Sides |-> <<>>] /\ userCq = [s \in Sides |-> <<>>]
  /\ splitWire = [s \in Sides |-> <<>>]
  /\ splitRR = [s \in Sides |-> <<InfoRequest>>]
  /\ fc = [s \in Sides |-> None]
  /\ sendCq = [s \in Sides |-> 0] /\ recvCq = [s \in Sides |-> <<>>]
  /\ ackWire = [s \in Sides |-> 0] /\ ackRR = [s \in Sides |-> 1]
  /\ cq2 = [s \in Sides |-> 0]
  /\ placed = [s \in Sides |-> {}]
  /\ events = [s \in Sides |-> {}] /\ awake = [s \in Sides |-> {}]

-----------------------------------------------------------------------------
(* Completion events.                                                      *)

(* The completion queue a channel belongs to has something to poll.         *)
Unpolled(s, ch) ==
  CASE ch = "send" -> sendCq[s] > 0
    [] ch = "recv" -> recvCq[s] # <<>>
    [] ch = "ack"  -> cq2[s] > 0

(* Faulty variant of Rearm: only what comes from now on raises an event.    *)
RearmForNew(s, ch) == events[s] \ {ch}

(* mlx4_arm_cq hands the consumer index to the adapter, which raises an     *)
(* event at once if there is a completion that was not polled.             *)
Rearm(s, ch) == IF Unpolled(s, ch) THEN events[s] ELSE events[s] \ {ch}

(* ibv_get_cq_event, ibv_ack_cq_events, ibv_req_notify_cq.                  *)
Wake(s, thread, ch) ==
  /\ thread \notin awake[s] /\ ch \in events[s]
  /\ awake' = [awake EXCEPT ![s] = @ \cup {thread}]
  /\ events' = [events EXCEPT ![s] = Rearm(s, ch)]
  /\ UNCHANGED <<appVars, sendVars, recvVars, userWire, userCq, splitWire,
                 splitRR, fc, sendCq, recvCq, ackVars, placed>>

SenderWaitsFor(s) ==
  CASE spc[s] \in {"info", "sent", "written", "flush"} -> {"send"}
    [] spc[s] = "ack" -> {"ack"}
    [] OTHER -> {}

ReceiverWaitsFor(s) ==
  CASE rpc[s] \in {"info", "chunks", "wimm"} -> {"recv"}
    [] rpc[s] = "ack" -> {"ack"}
    [] OTHER -> {}

SenderWakes(s) == \E ch \in SenderWaitsFor(s) : Wake(s, "sender", ch)
ReceiverWakes(s) == \E ch \in ReceiverWaitsFor(s) : Wake(s, "receiver", ch)

(* The thread has polled what it waited for.                                *)
Polled(s, thread) ==
  /\ thread \in awake[s]
  /\ awake' = [awake EXCEPT ![s] = @ \ {thread}]
  /\ UNCHANGED events

(* A completion raises an event if its queue is armed.                      *)
Raise(raised) ==
  /\ events' = [s \in Sides |-> events[s] \cup raised[s]]
  /\ UNCHANGED awake

-----------------------------------------------------------------------------
(* The sender: mlx4_post_send.                                             *)

IsSplit(verb, len, chunk) == len > chunk \/ (TwoSided(verb) /\ len >= MinSplit)

(* How many chunks a message makes; ceil_helper.                            *)
NumChunks(len, chunk) == (len + chunk - 1) \div chunk

(* Faulty variant of ChunksBehind: the first chunk is counted as well.      *)
ChunksWithTheFirst(len, chunk) == NumChunks(len, chunk)

(* num_chunks_to_send of a SEND: the chunks behind the first one.           *)
ChunksBehind(len, chunk) == NumChunks(len, chunk) - 1

MayPost(s) ==
  /\ HalfDuplex => turn = s
  /\ Len(posted[s]) < MaxMsgs[s]

Accept(s, verb, len) ==
  /\ spc[s] = "idle" /\ MayPost(s)
  /\ posted' = [posted EXCEPT ![s] = Append(@, [verb |-> verb, len |-> len])]
  /\ UNCHANGED <<turn, delivered, completed>>

(* On the user's own queue pair: the message, or its first or last chunk.   *)
PostOnUserQP(s, verb, msg, off, len) ==
  userWire' = [userWire EXCEPT ![s] =
                 Append(@, [verb |-> verb, msg |-> msg, off |-> off, len |-> len])]

PostOnSplitQP(s, item) == splitWire' = [splitWire EXCEPT ![s] = Append(@, item)]

(* ibv_post_send of a message that is not split.                            *)
PostWhole(s, verb, len, chunk) ==
  /\ Accept(s, verb, len)
  /\ ~IsSplit(verb, len, chunk)
  /\ PostOnUserQP(s, verb, Len(posted[s]) + 1, 0, len)
  /\ UNCHANGED <<sendVars, recvVars, userCq, splitWire, splitRR, fc, sendCq,
                 recvCq, ackVars, placed, evVars>>

(* <1> and <2>: the first chunk, then INFO with the number of the others.   *)
PostSplit(s, len, chunk) ==
  LET first == Min({len, chunk})
      left == ChunksBehind(len, chunk)
      msg == Len(posted[s]) + 1
  IN /\ Accept(s, "SEND", len)
     /\ IsSplit("SEND", len, chunk)
     /\ PostOnUserQP(s, "SEND", msg, 0, first)
     /\ PostOnSplitQP(s, [kind |-> "info", chunks |-> left, size |-> chunk])
     /\ spc' = [spc EXCEPT ![s] = "info"]
     /\ job' = [job EXCEPT ![s] = [msg |-> msg, len |-> len, chunk |-> chunk,
                                   left |-> left, off |-> 0]]
     /\ UNCHANGED <<recvVars, userCq, splitRR, fc, sendCq, recvCq, ackVars,
                    placed, evVars>>

(* Faulty variant of RearmAck: no new receive request.                      *)
RearmNever(n) == n

(* <6>: a receive request for the next ACK, posted after every split        *)
(* message, also when nothing was to be acknowledged; then the call returns.*)
RearmAck(n) == n + 1

Return(s) ==
  /\ ackRR' = [ackRR EXCEPT ![s] = RearmAck(@)]
  /\ spc' = [spc EXCEPT ![s] = "idle"]
  /\ job' = [job EXCEPT ![s] = NoJob]

(* The end of <2>: the INFO has landed.                                     *)
PollInfoSent(s) ==
  /\ spc[s] = "info" /\ sendCq[s] > 0 /\ Polled(s, "sender")
  /\ sendCq' = [sendCq EXCEPT ![s] = @ - 1]
  /\ IF job[s].left = 0
       THEN Return(s)
       ELSE spc' = [spc EXCEPT ![s] = "ack"] /\ UNCHANGED <<job, ackRR>>
  /\ UNCHANGED <<appVars, recvVars, userWire, userCq, splitWire, splitRR, fc,
                 recvCq, ackWire, cq2, placed>>

(* <3>: any completion of split_cq2 is taken for the ACK's.  The type that  *)
(* is checked next is in memory only an ACK ever lands in, and zeroed       *)
(* memory reads ACK as well.                                               *)
PollAck(s) ==
  /\ spc[s] = "ack" /\ cq2[s] > 0 /\ Polled(s, "sender")
  /\ cq2' = [cq2 EXCEPT ![s] = @ - 1]
  /\ spc' = [spc EXCEPT ![s] = "chunk"]
  /\ UNCHANGED <<appVars, job, recvVars, userWire, userCq, splitWire, splitRR,
                 fc, sendCq, recvCq, ackWire, ackRR, placed>>

(* <4>: the next chunk.  The last one has what is left of the message.      *)
PostChunk(s) ==
  LET off == job[s].off + job[s].chunk
      len == IF job[s].left = 1 THEN job[s].len - off ELSE job[s].chunk
  IN /\ spc[s] = "chunk"
     /\ PostOnSplitQP(s, [kind |-> "chunk", msg |-> job[s].msg, off |-> off,
                          len |-> len])
     /\ job' = [job EXCEPT ![s].off = off, ![s].left = @ - 1]
     /\ spc' = [spc EXCEPT ![s] = "sent"]
     /\ UNCHANGED <<appVars, recvVars, userWire, userCq, splitRR, fc, sendCq,
                    recvCq, ackVars, placed, evVars>>

(* Each chunk is polled before the next is posted                           *)
(* (SPLIT_USE_NO_BATCH_2SIDED).                                            *)
PollChunkSent(s) ==
  /\ spc[s] = "sent" /\ sendCq[s] > 0 /\ Polled(s, "sender")
  /\ sendCq' = [sendCq EXCEPT ![s] = @ - 1]
  /\ IF job[s].left = 0
       THEN Return(s)
       ELSE spc' = [spc EXCEPT ![s] = "chunk"] /\ UNCHANGED <<job, ackRR>>
  /\ UNCHANGED <<appVars, recvVars, userWire, userCq, splitWire, splitRR, fc,
                 recvCq, ackWire, cq2, placed>>

(* A WRITE with immediate.  Of its N chunks the first takes what a multiple *)
(* of the chunk size leaves over; N - 1 go out on split_qp[0], the last of  *)
(* them with the immediate and of length 0 if N = 1.                       *)
FirstLength(len, chunk) == IF len % chunk = 0 THEN chunk ELSE len % chunk
LastLength(len, chunk) ==
  IF NumChunks(len, chunk) = 1 THEN FirstLength(len, chunk) ELSE chunk

StartWimm(s, len, chunk) ==
  /\ Accept(s, "WRITE_WITH_IMM", len)
  /\ IsSplit("WRITE_WITH_IMM", len, chunk)
  /\ spc' = [spc EXCEPT ![s] = "write"]
  /\ job' = [job EXCEPT ![s] =
       [msg |-> Len(posted[s]) + 1, len |-> len, chunk |-> chunk,
        left |-> Max({NumChunks(len, chunk) - 1, 1}), off |-> 0]]
  /\ UNCHANGED <<recvVars, userWire, userCq, splitWire, splitRR, fc, sendCq,
                 recvCq, ackVars, placed, evVars>>

(* The chunk at the offset reached so far.                                  *)
NextLength(j) ==
  IF NumChunks(j.len, j.chunk) = 1 THEN 0
  ELSE IF j.off = 0 THEN FirstLength(j.len, j.chunk) ELSE j.chunk

PostWrite(s) ==
  LET len == NextLength(job[s])
  IN /\ spc[s] = "write"
     /\ PostOnSplitQP(s, [kind |-> IF job[s].left = 1 THEN "wimm" ELSE "write",
                          msg |-> job[s].msg, off |-> job[s].off, len |-> len,
                          signaled |-> TRUE])
     /\ job' = [job EXCEPT ![s].off = @ + len, ![s].left = @ - 1]
     /\ spc' = [spc EXCEPT ![s] = "written"]
     /\ UNCHANGED <<appVars, recvVars, userWire, userCq, splitRR, fc, sendCq,
                    recvCq, ackVars, placed, evVars>>

(* What is left of the message goes out on the user's queue pair, and the   *)
(* call returns.                                                           *)
PostLast(s, verb, len) ==
  /\ PostOnUserQP(s, verb, job[s].msg, job[s].off, len)
  /\ spc' = [spc EXCEPT ![s] = "idle"]
  /\ job' = [job EXCEPT ![s] = NoJob]

(* Each of them is polled before the next is posted.                        *)
PollWritten(s) ==
  /\ spc[s] = "written" /\ sendCq[s] > 0 /\ Polled(s, "sender")
  /\ sendCq' = [sendCq EXCEPT ![s] = @ - 1]
  /\ IF job[s].left = 0
       THEN PostLast(s, "WRITE_WITH_IMM", LastLength(job[s].len, job[s].chunk))
       ELSE spc' = [spc EXCEPT ![s] = "write"] /\ UNCHANGED <<userWire, job>>
  /\ UNCHANGED <<appVars, recvVars, userCq, splitWire, splitRR, fc, recvCq,
                 ackVars, placed>>

(* A WRITE.  N - 1 chunks go out on split_qp[0], one behind the other, and  *)
(* only the last of them is signaled (selective signaling).                 *)
StartPut(s, len, chunk) ==
  /\ Accept(s, "WRITE", len)
  /\ IsSplit("WRITE", len, chunk)
  /\ spc' = [spc EXCEPT ![s] = "put"]
  /\ job' = [job EXCEPT ![s] =
       [msg |-> Len(posted[s]) + 1, len |-> len, chunk |-> chunk,
        left |-> ChunksBehind(len, chunk), off |-> 0]]
  /\ UNCHANGED <<recvVars, userWire, userCq, splitWire, splitRR, fc, sendCq,
                 recvCq, ackVars, placed, evVars>>

(* Faulty variant of Signaled: the first one.                               *)
SignaledFirst(j) == j.off = 0

Signaled(j) == j.left = 1

PostPut(s) ==
  /\ spc[s] = "put"
  /\ PostOnSplitQP(s, [kind |-> "write", msg |-> job[s].msg, off |-> job[s].off,
                       len |-> job[s].chunk, signaled |-> Signaled(job[s])])
  /\ job' = [job EXCEPT ![s].off = @ + job[s].chunk, ![s].left = @ - 1]
  /\ spc' = [spc EXCEPT ![s] = IF job[s].left = 1 THEN "flush" ELSE "put"]
  /\ UNCHANGED <<appVars, recvVars, userWire, userCq, splitRR, fc, sendCq,
                 recvCq, ackVars, placed, evVars>>

PollPut(s) ==
  /\ spc[s] = "flush" /\ sendCq[s] > 0 /\ Polled(s, "sender")
  /\ sendCq' = [sendCq EXCEPT ![s] = @ - 1]
  /\ PostLast(s, "WRITE", job[s].len - job[s].off)
  /\ UNCHANGED <<appVars, recvVars, userCq, splitWire, splitRR, fc, recvCq,
                 ackVars, placed>>

-----------------------------------------------------------------------------
(* The queue pairs.                                                        *)

Fill(where, item) == Piece(where, item.msg, item.off, item.len)
Written(item) == [buf |-> item.msg, pos |-> item.off, room |-> item.len]

(* The user's queue pair.  A SEND fills a buffer of the application, what   *)
(* is written is laid out from the address the message names.  A plain      *)
(* WRITE is known only to the end that posted it.                           *)
LandUser(s) ==
  LET r == Peer(s)
      item == Head(userWire[s])
  IN /\ userWire[s] # <<>>
     /\ userWire' = [userWire EXCEPT ![s] = Tail(@)]
     /\ placed' = [placed EXCEPT ![r] = @ \cup {Fill(Written(item), item)}]
     /\ IF TwoSided(item.verb)
          THEN /\ userCq' = [userCq EXCEPT ![r] = Append(@, item)]
               /\ UNCHANGED completed
          ELSE /\ completed' = [completed EXCEPT ![s] = @ \cup {item.msg}]
               /\ UNCHANGED userCq
     /\ UNCHANGED <<turn, posted, delivered, sendVars, recvVars, splitWire,
                    splitRR, fc, sendCq, recvCq, ackVars, evVars>>

LandSplit(s) ==
  /\ splitWire[s] # <<>>
  /\ splitWire' = [splitWire EXCEPT ![s] = Tail(@)]
  /\ UNCHANGED <<appVars, sendVars, recvVars, userWire, userCq, ackVars>>

(* Something that uses up a receive request: both ends get a completion.    *)
UseRequest(s, len) ==
  LET r == Peer(s)
  IN /\ splitRR[r] # <<>>
     /\ splitRR' = [splitRR EXCEPT ![r] = Tail(@)]
     /\ recvCq' = [recvCq EXCEPT ![r] = Append(@, len)]
     /\ sendCq' = [sendCq EXCEPT ![s] = @ + 1]
     /\ Raise([p \in Sides |-> IF p = s THEN {"send"} ELSE {"recv"}])

(* A SEND on split_qp[0] lands where the oldest receive request says.       *)
LandSplitSend(s) ==
  LET r == Peer(s)
      item == Head(splitWire[s])
      request == Head(splitRR[r])
  IN /\ LandSplit(s)
     /\ item.kind \in {"info", "chunk"}
     /\ UseRequest(s, IF item.kind = "chunk" THEN item.len ELSE 0)
     /\ IF request.kind = "fc"
          THEN fc' = [fc EXCEPT ![r] = item] /\ UNCHANGED placed
          ELSE /\ placed' = [placed EXCEPT ![r] = @ \cup
                     {IF item.kind = "chunk"
                        THEN Fill(request, item) ELSE Piece(request, 0, 0, 0)}]
               /\ UNCHANGED fc

(* A WRITE needs no receive request; one with immediate uses one up, without *)
(* touching the buffer it names.                                           *)
LandSplitWrite(s) ==
  LET r == Peer(s)
      item == Head(splitWire[s])
  IN /\ LandSplit(s)
     /\ item.kind \in {"write", "wimm"}
     /\ placed' = [placed EXCEPT ![r] = @ \cup {Fill(Written(item), item)}]
     /\ \/ item.kind = "wimm" /\ UseRequest(s, item.len)
        \/ /\ item.kind = "write" /\ item.signaled
           /\ sendCq' = [sendCq EXCEPT ![s] = @ + 1]
           /\ Raise([p \in Sides |-> IF p = s THEN {"send"} ELSE {}])
           /\ UNCHANGED <<splitRR, recvCq>>
        \/ /\ item.kind = "write" /\ ~item.signaled
           /\ UNCHANGED <<sendCq, splitRR, recvCq, evVars>>
     /\ UNCHANGED fc

(* split_qp2 reports to one completion queue at each end, split_cq2, the    *)
(* ACKs that end sent as well as those it received.                        *)
LandAck(s) ==
  LET r == Peer(s)
  IN /\ ackWire[s] > 0 /\ ackRR[r] > 0
     /\ ackWire' = [ackWire EXCEPT ![s] = @ - 1]
     /\ ackRR' = [ackRR EXCEPT ![r] = @ - 1]
     /\ cq2' = [cq2 EXCEPT ![r] = @ + 1, ![s] = @ + 1]
     /\ Raise([p \in Sides |-> {"ack"}])
     /\ UNCHANGED <<appVars, sendVars, recvVars, userWire, userCq, splitWire,
                    splitRR, fc, sendCq, recvCq, placed>>

-----------------------------------------------------------------------------
(* The receiver: mlx4_poll_cq.                                             *)

(* split_flag of mlx4_poll_one.                                             *)
SeenAsSplit(len) == len >= MinSplit

Wc(completions) ==
  [i \in DOMAIN completions |->
     [msg |-> completions[i].msg, len |-> completions[i].len]]

HandOut(s, wc) ==
  /\ delivered' = [delivered EXCEPT ![s] = @ \o wc]
  /\ UNCHANGED <<turn, posted, completed>>

(* Up to ne completions are taken, and none behind one that is split.       *)
Taken(s, k) ==
  /\ k \in 1 .. Min({Batch, Len(userCq[s])})
  /\ \A i \in 1 .. k - 1 : ~SeenAsSplit(userCq[s][i].len)
  /\ \/ k = Min({Batch, Len(userCq[s])})
     \/ SeenAsSplit(userCq[s][k].len)

(* A WRITE with immediate: a receive request takes the place of the one its *)
(* next to last chunk uses up.                                             *)
ExpectWimm(s) ==
  /\ splitRR' = [splitRR EXCEPT ![s] = Append(@, InfoRequest)]
  /\ rpc' = [rpc EXCEPT ![s] = "wimm"]

PollUser(s, k) ==
  LET batch == SubSeq(userCq[s], 1, k)
  IN /\ rpc[s] = "idle" /\ Taken(s, k)
     /\ userCq' = [userCq EXCEPT ![s] = SubSeq(@, k + 1, Len(@))]
     /\ IF SeenAsSplit(batch[k].len)
          THEN /\ rx' = [rx EXCEPT ![s] = [batch |-> Wc(batch), buf |-> batch[k].msg,
                                           left |-> 0, total |-> batch[1].len]]
               /\ IF batch[k].verb = "WRITE_WITH_IMM"
                    THEN ExpectWimm(s)
                    ELSE rpc' = [rpc EXCEPT ![s] = "info"] /\ UNCHANGED splitRR
               /\ UNCHANGED appVars
          ELSE HandOut(s, Wc(batch)) /\ UNCHANGED <<recvVars, splitRR>>
     /\ UNCHANGED <<sendVars, userWire, splitWire, fc, sendCq, recvCq,
                    ackVars, placed, evVars>>

(* "make byte_len look real": the sum goes into the first entry of wc.      *)
Finish(s, total) ==
  /\ HandOut(s, [rx[s].batch EXCEPT ![1].len = total])
  /\ rpc' = [rpc EXCEPT ![s] = "idle"]
  /\ rx' = [rx EXCEPT ![s] = NoRx]

(* Faulty variant of ReceiveRequests: in the other order.                   *)
InfoRequestFirst(buf, size, n) ==
  <<InfoRequest>> \o [i \in 1 .. n |-> ChunkRequest(buf, size, i)]

(* <3> and <4>: the receive requests for the chunks, then one for the next  *)
(* INFO.                                                                   *)
ReceiveRequests(buf, size, n) ==
  [i \in 1 .. n |-> ChunkRequest(buf, size, i)] \o <<InfoRequest>>

(* <2> to <5>: the receive requests are posted, the ACK is sent unless      *)
(* nothing follows.                                                        *)
Answer(s) ==
  /\ splitRR' = [splitRR EXCEPT ![s] =
                   @ \o ReceiveRequests(rx[s].buf, fc[s].size, fc[s].chunks)]
  /\ IF fc[s].chunks = 0
       THEN Finish(s, rx[s].total) /\ UNCHANGED ackWire
       ELSE /\ ackWire' = [ackWire EXCEPT ![s] = @ + 1]
            /\ rpc' = [rpc EXCEPT ![s] = "ack"]
            /\ rx' = [rx EXCEPT ![s].left = fc[s].chunks]
            /\ UNCHANGED appVars

(* <1>: what has landed on split_qp[0] should be INFO; if it is not, the    *)
(* call returns -1 without unlocking the completion queue, and no other     *)
(* poll gets through.                                                      *)
PollInfo(s) ==
  /\ rpc[s] = "info" /\ recvCq[s] # <<>> /\ Polled(s, "receiver")
  /\ recvCq' = [recvCq EXCEPT ![s] = Tail(@)]
  /\ IF fc[s] # None /\ fc[s].kind = "info"
       THEN Answer(s)
       ELSE /\ rpc' = [rpc EXCEPT ![s] = "failed"]
            /\ UNCHANGED <<appVars, rx, splitRR, ackWire>>
  /\ UNCHANGED <<sendVars, userWire, userCq, splitWire, fc, sendCq,
                 ackRR, cq2, placed>>

(* The end of <5>: any completion of split_cq2 is taken for the sent ACK's. *)
PollAckSent(s) ==
  /\ rpc[s] = "ack" /\ cq2[s] > 0 /\ Polled(s, "receiver")
  /\ cq2' = [cq2 EXCEPT ![s] = @ - 1]
  /\ rpc' = [rpc EXCEPT ![s] = "chunks"]
  /\ UNCHANGED <<appVars, sendVars, rx, userWire, userCq, splitWire, splitRR, fc,
                 sendCq, recvCq, ackWire, ackRR, placed>>

(* <6>: one chunk after the other, and one event for all of them.           *)
PollChunk(s) ==
  LET total == rx[s].total + Head(recvCq[s])
  IN /\ rpc[s] = "chunks" /\ recvCq[s] # <<>> /\ "receiver" \in awake[s]
     /\ recvCq' = [recvCq EXCEPT ![s] = Tail(@)]
     /\ IF rx[s].left = 1
          THEN Finish(s, total) /\ Polled(s, "receiver")
          ELSE /\ rx' = [rx EXCEPT ![s].left = @ - 1, ![s].total = total]
               /\ UNCHANGED <<rpc, appVars, evVars>>
     /\ UNCHANGED <<sendVars, userWire, userCq, splitWire, splitRR,
                    fc, sendCq, ackVars, placed>>

(* CQ_SPLIT_WIMM: one completion is taken, and the application is told the  *)
(* length of the last chunk.                                               *)
PollWimm(s) ==
  /\ rpc[s] = "wimm" /\ recvCq[s] # <<>> /\ Polled(s, "receiver")
  /\ recvCq' = [recvCq EXCEPT ![s] = Tail(@)]
  /\ HandOut(s, rx[s].batch)
  /\ rpc' = [rpc EXCEPT ![s] = "idle"]
  /\ rx' = [rx EXCEPT ![s] = NoRx]
  /\ UNCHANGED <<sendVars, userWire, userCq, splitWire, splitRR, fc, sendCq,
                 ackVars, placed>>

(* The application at one of the two ends knows that a message is through.  *)
Through(s, msg) ==
  \/ msg \in completed[s]
  \/ \E i \in DOMAIN delivered[Peer(s)] : delivered[Peer(s)][i].msg = msg

(* An application that takes turns answers once it has everything.          *)
HandOver(s) ==
  /\ HalfDuplex /\ turn = s
  /\ spc[s] = "idle" /\ \A msg \in DOMAIN posted[s] : Through(s, msg)
  /\ turn' = Peer(s)
  /\ UNCHANGED <<posted, delivered, completed, sendVars, recvVars, userWire,
                 userCq, splitWire, splitRR, fc, sendCq, recvCq, ackVars, placed, evVars>>

-----------------------------------------------------------------------------
Post(s) ==
  \E len \in Lengths, chunk \in Chunks :
    \/ \E verb \in Verbs : PostWhole(s, verb, len, chunk)
    \/ PostSplit(s, len, chunk) \/ StartWimm(s, len, chunk)
    \/ StartPut(s, len, chunk)

SendStep(s) ==
  \/ SenderWakes(s)
  \/ PollInfoSent(s) \/ PollAck(s) \/ PostChunk(s) \/ PollChunkSent(s)
  \/ PostWrite(s) \/ PollWritten(s) \/ PostPut(s) \/ PollPut(s)
LandOnSplit(s) == LandSplitSend(s) \/ LandSplitWrite(s)
RecvStep(s) ==
  \/ ReceiverWakes(s)
  \/ \E k \in 1 .. Batch : PollUser(s, k)
  \/ PollInfo(s) \/ PollAckSent(s) \/ PollChunk(s) \/ PollWimm(s)

Next == \E s \in Sides :
          \/ Post(s) \/ SendStep(s) \/ RecvStep(s) \/ HandOver(s)
          \/ LandUser(s) \/ LandOnSplit(s) \/ LandAck(s)

SafeSpec == Init /\ [][Next]_vars

(* Threads inside a call go on, the network delivers what it can, and both  *)
(* applications keep polling.                                              *)
Spec ==
  /\ SafeSpec
  /\ \A s \in Sides :
       /\ WF_vars(SendStep(s)) /\ WF_vars(RecvStep(s))
       /\ WF_vars(LandUser(s)) /\ WF_vars(LandOnSplit(s)) /\ WF_vars(LandAck(s))

-----------------------------------------------------------------------------
(* Properties.                                                             *)

Items ==
  [kind : {"info"}, chunks : Nat, size : Chunks]
    \cup [kind : {"chunk"}, msg : Nat \ {0}, off : Nat, len : Nat \ {0}]
    \cup [kind : {"write"}, msg : Nat \ {0}, off : Nat, len : Nat \ {0},
          signaled : BOOLEAN]
    \cup [kind : {"wimm"}, msg : Nat \ {0}, off : Nat, len : Nat,
          signaled : {TRUE}]

ASSUME NoneAssumption == None \notin Items

UserItems == [verb : Verbs, msg : Nat \ {0}, off : Nat, len : Nat \ {0}]
Completions == Seq([msg : Nat \ {0}, len : Nat])
Jobs == [msg : Nat, len : Nat, chunk : Nat, left : Nat, off : Nat]
Receptions == [batch : Completions, buf : Nat, left : Nat, total : Nat]

Requests ==
  {InfoRequest}
    \cup [kind : {"buf"}, buf : Nat \ {0}, pos : Nat \ {0}, room : Chunks]

(* Every variable has its type; no chunk is empty but the one that carries  *)
(* the immediate of a WRITE that is a single chunk.                         *)
TypeOK ==
  /\ turn \in Sides
  /\ posted \in [Sides -> Seq([verb : Verbs, len : Lengths])]
  /\ delivered \in [Sides -> Completions]
  /\ completed \in [Sides -> SUBSET (Nat \ {0})]
  /\ spc \in [Sides -> {"idle", "info", "ack", "chunk", "sent", "write",
                        "written", "put", "flush"}]
  /\ job \in [Sides -> Jobs]
  /\ rpc \in [Sides -> {"idle", "info", "ack", "chunks", "wimm", "failed"}]
  /\ rx \in [Sides -> Receptions]
  /\ userWire \in [Sides -> Seq(UserItems)]
  /\ userCq \in [Sides -> Seq(UserItems)]
  /\ splitWire \in [Sides -> Seq(Items)]
  /\ splitRR \in [Sides -> Seq(Requests)]
  /\ fc \in [Sides -> Items \cup {None}]
  /\ sendCq \in [Sides -> Nat] /\ recvCq \in [Sides -> Seq(Nat)]
  /\ ackWire \in [Sides -> Nat] /\ ackRR \in [Sides -> Nat]
  /\ cq2 \in [Sides -> Nat]
  /\ events \in [Sides -> SUBSET Channels]
  /\ awake \in [Sides -> SUBSET {"sender", "receiver"}]

(* Whatever order the three queue pairs deliver in, and whatever chunk      *)
(* size the two ends last agreed on, a chunk lands in the receive request   *)
(* that was posted for it: in the buffer of its own message, at its own     *)
(* offset, in enough room, and never where the next INFO is expected.       *)
InPlace ==
  \A s \in Sides :
    /\ \A p \in placed[s] : p.buf = p.msg /\ p.pos = p.off /\ p.len <= p.room
    /\ fc[s] # None => fc[s].kind = "info"

(* When an application gets the completion of a message, the receiver's of  *)
(* a SEND or a WRITE with immediate, the sender's of a WRITE, every byte of *)
(* it has landed, although the chunks went over another queue pair than the *)
(* one the completion is for; and for a SEND it reports the whole length.   *)
DeliveredWhole ==
  \A s \in Sides :
    LET r == Peer(s)
        Landed(msg) ==
          UNION {p.pos .. p.pos + p.len - 1 : p \in {q \in placed[r] : q.buf = msg}}
        Whole(msg) == Landed(msg) = 0 .. posted[s][msg].len - 1
    IN /\ \A i \in DOMAIN delivered[r] :
            LET wc == delivered[r][i]
            IN /\ Whole(wc.msg)
               /\ posted[s][wc.msg].verb = "SEND" => wc.len = posted[s][wc.msg].len
       /\ \A msg \in completed[s] : Whole(msg)

(* ibv_post_send returns: none of its waits for INFO, ACK and chunks is for *)
(* ever, provided that the other end's application polls.                   *)
SenderReturns == \A s \in Sides : spc[s] # "idle" ~> spc[s] = "idle"

(* Every message gets through to applications that keep polling: no wait    *)
(* misses the event it sleeps for, although one event may stand for several *)
(* completions and is taken before they are polled.                        *)
EveryMessageArrives ==
  \A s \in Sides : \A msg \in 1 .. MaxMsgs[s] :
    msg \in DOMAIN posted[s] ~> Through(s, msg)
=============================================================================
