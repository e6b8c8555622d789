--------------------------- MODULE PacerHandshake ---------------------------
(***************************************************************************)
(* How the pacers of sending hosts meet the pacer of their receiver        *)
(* (rdma_pacer/pingpong.c): for each of its num_clients slots the server   *)
(* creates a queue pair, opens a listening socket, accepts one client and  *)
(* closes the socket again; client and server write each other the address *)
(* of their queue pairs over the connection, the client confirms with      *)
(* "done", and each moves its queue pair to RTR and RTS on its own.        *)
(* A client that finds no listening socket, or whose connection was still  *)
(* waiting when the socket was closed, ends.                               *)
(***************************************************************************)
EXTENDS Naturals, Sequences, FiniteSets

CONSTANTS
  Clients,      \* runs of pacers on sending hosts; one started again is another
  NumSlots,     \* params.num_clients of the server
  Backlog,      \* listen(sockfd, 1): the queue holds one connection more
  MaxKills,     \* bound: clients killed during the handshake
  None

Slots == 0..NumSlots-1

ASSUME HandshakeAssumption == NumSlots \in Nat \ {0} /\ Backlog \in Nat /\ MaxKills \in Nat
ASSUME NoneAssumption == None \notin Clients \cup Slots /\ None \notin Seq(Clients)

VARIABLES
  \* a client: main, then init_monitor_chan in monitor_latency
  cpc,       \* "off", "create", "connect", "write", "reply", "done", "qp", "up", "gone"
  cdest,     \* rem_dest: the server's queue pair, or None
  \* the server: init_monitor_chan in server_loop
  spc,       \* "create", "listen", "accept", "address", "reply", "done", "qp", "out", "loop"
  slot,      \* i, the slot it fills
  conn,      \* the accepted connection, or None
  rem,       \* rem_dest, or None
  sdest,     \* per slot: the client its queue pair is in RTS for, or None
  \* TCP: a connection is named after its client
  waiting,   \* connections queued at the listening socket; None when it is closed
  link,      \* "none", "open", "closed" (by the client) or "reset" (by the server)
  toServer, toClient,   \* what is under way
  kills

clientVars == <<cpc, cdest>>
serverVars == <<spc, slot, conn, rem, sdest>>
tcpVars == <<waiting, link, toServer, toClient>>
handshakeVars == <<clientVars, serverVars, tcpVars, kills>>

HandshakeInit ==
  /\ cpc = [c \in Clients |-> "off"] /\ cdest = [c \in Clients |-> None]
  /\ spc = "create" /\ slot = 0 /\ conn = None /\ rem = None
  /\ sdest = [i \in Slots |-> None]
  /\ waiting = None /\ link = [c \in Clients |-> "none"]
  /\ toServer = [c \in Clients |-> <<>>] /\ toClient = [c \in Clients |-> <<>>]
  /\ kills = 0

-----------------------------------------------------------------------------
(* The client.                                                             *)
Goto(c, pc) == cpc' = [cpc EXCEPT ![c] = pc]

(* The process ends: exit(1), a fault, or a kill.  The kernel closes its   *)
(* socket and destroys its queue pair.                                     *)
Gone(c) ==
  /\ Goto(c, "gone")
  /\ link' = [link EXCEPT ![c] = IF @ = "open" THEN "closed" ELSE @]
  /\ UNCHANGED <<cdest, serverVars, waiting, toServer, toClient>>

Start(c) ==
  /\ cpc[c] = "off" /\ Goto(c, "create")
  /\ UNCHANGED <<cdest, serverVars, tcpVars, kills>>

(* alloc_monitor_qp.                                                       *)
ClientCreate(c) ==
  /\ cpc[c] = "create" /\ Goto(c, "connect")
  /\ UNCHANGED <<cdest, serverVars, tcpVars, kills>>

(* connect: queued when the socket listens and has room.                   *)
ClientConnect(c) ==
  /\ cpc[c] = "connect" /\ waiting # None /\ Len(waiting) <= Backlog
  /\ waiting' = Append(waiting, c)
  /\ link' = [link EXCEPT ![c] = "open"]
  /\ Goto(c, "write")
  /\ UNCHANGED <<cdest, serverVars, toServer, toClient, kills>>

(* Nobody listens: "Couldn't connect", exit(1).                            *)
ClientRefused(c) ==
  /\ cpc[c] = "connect" /\ waiting = None
  /\ Gone(c) /\ UNCHANGED kills

(* The address goes out, also while the connection waits to be accepted.   *)
ClientWrite(c) ==
  /\ cpc[c] = "write" /\ link[c] = "open"
  /\ toServer' = [toServer EXCEPT ![c] = Append(@, "address")]
  /\ Goto(c, "reply")
  /\ UNCHANGED <<cdest, serverVars, waiting, link, toClient, kills>>

ClientRead(c) ==
  /\ cpc[c] = "reply" /\ toClient[c] # <<>>
  /\ cdest' = [cdest EXCEPT ![c] = Head(toClient[c])]
  /\ toClient' = [toClient EXCEPT ![c] = Tail(@)]
  /\ Goto(c, "done")
  /\ UNCHANGED <<serverVars, waiting, link, toServer, kills>>

(* The write or the read fails, rem_dest stays NULL and pp_connect_ctx     *)
(* reads through it.                                                       *)
ClientFails(c) ==
  /\ cpc[c] \in {"write", "reply"} /\ link[c] = "reset"
  /\ Gone(c) /\ UNCHANGED kills

(* Mutant: closes the connection without a "done".                         *)
ClientDoneQuietly(c) ==
  /\ cpc[c] = "done"
  /\ link' = [link EXCEPT ![c] = "closed"]
  /\ Goto(c, "qp")
  /\ UNCHANGED <<cdest, serverVars, waiting, toServer, toClient, kills>>

(* "done", and close.                                                      *)
ClientDone(c) ==
  /\ cpc[c] = "done"
  /\ toServer' = [toServer EXCEPT ![c] = Append(@, "done")]
  /\ link' = [link EXCEPT ![c] = "closed"]
  /\ Goto(c, "qp")
  /\ UNCHANGED <<cdest, serverVars, waiting, toClient, kills>>

(* pp_connect_ctx: RTR and RTS; the context is entered in the control      *)
(* block, and updates may be sent.                                         *)
ClientQp(c) ==
  /\ cpc[c] = "qp" /\ Goto(c, "up")
  /\ UNCHANGED <<cdest, serverVars, tcpVars, kills>>

KillClient(c) ==
  /\ cpc[c] \notin {"off", "up", "gone"} /\ kills < MaxKills
  /\ kills' = kills + 1
  /\ Gone(c)

Client(c) ==
  \/ ClientCreate(c) \/ ClientConnect(c) \/ ClientRefused(c) \/ ClientWrite(c)
  \/ ClientRead(c) \/ ClientFails(c) \/ ClientDone(c) \/ ClientQp(c)

-----------------------------------------------------------------------------
(* The server.                                                             *)
ServerCreate ==
  /\ spc = "create" /\ spc' = "listen"
  /\ UNCHANGED <<clientVars, slot, conn, rem, sdest, tcpVars, kills>>

ServerListen ==
  /\ spc = "listen" /\ spc' = "accept"
  /\ waiting' = <<>>
  /\ UNCHANGED <<clientVars, slot, conn, rem, sdest, link, toServer, toClient, kills>>

(* Mutant: those who wait behind the accepted client are not reset.        *)
ServerAcceptKeeping ==
  /\ spc = "accept" /\ waiting # <<>>
  /\ conn' = Head(waiting) /\ waiting' = None
  /\ spc' = "address"
  /\ UNCHANGED <<clientVars, slot, rem, sdest, link, toServer, toClient, kills>>

(* accept, and close of the listening socket: whoever waits behind is      *)
(* reset.                                                                  *)
ServerAccept ==
  /\ spc = "accept" /\ waiting # <<>>
  /\ conn' = Head(waiting) /\ waiting' = None
  /\ link' = [c \in Clients |->
       IF \E k \in 2..Len(waiting) : waiting[k] = c THEN "reset" ELSE link[c]]
  /\ spc' = "address"
  /\ UNCHANGED <<clientVars, slot, rem, sdest, toServer, toClient, kills>>

(* Mutant: the end of the connection is not noticed.                       *)
ReadsBytes(then) ==
  /\ toServer[conn] # <<>>
  /\ toServer' = [toServer EXCEPT ![conn] = Tail(@)]
  /\ rem' = conn /\ spc' = then

(* What the server reads next, or the end of the connection: "goto out"    *)
(* without a rem_dest.                                                     *)
Reads(then) ==
  \/ /\ toServer[conn] # <<>>
     /\ toServer' = [toServer EXCEPT ![conn] = Tail(@)]
     /\ rem' = conn /\ spc' = then
  \/ /\ toServer[conn] = <<>> /\ link[conn] = "closed"
     /\ rem' = None /\ spc' = "out" /\ UNCHANGED toServer

ServerAddress ==
  /\ spc = "address" /\ Reads("reply")
  /\ UNCHANGED <<clientVars, slot, conn, sdest, waiting, link, toClient, kills>>

(* Mutant: does not wait for "done".                                       *)
ServerReplyAndGo ==
  /\ spc = "reply" /\ spc' = "qp"
  /\ toClient' = [toClient EXCEPT ![conn] = Append(@, slot)]
  /\ UNCHANGED <<clientVars, slot, conn, rem, sdest, waiting, link, toServer, kills>>

(* The write succeeds also when the client has just gone.                  *)
ServerReply ==
  /\ spc = "reply" /\ spc' = "done"
  /\ toClient' = [toClient EXCEPT ![conn] = Append(@, slot)]
  /\ UNCHANGED <<clientVars, slot, conn, rem, sdest, waiting, link, toServer, kills>>

ServerDone ==
  /\ spc = "done" /\ Reads("qp")
  /\ UNCHANGED <<clientVars, slot, conn, sdest, waiting, link, toClient, kills>>

(* pp_connect_ctx.                                                         *)
ServerQp ==
  /\ spc = "qp" /\ spc' = "out"
  /\ sdest' = [sdest EXCEPT ![slot] = rem]
  /\ UNCHANGED <<clientVars, slot, conn, rem, tcpVars, kills>>

(* Mutant: counts on past the last slot.                                   *)
ServerOutPastTheEnd ==
  /\ spc = "out"
  /\ conn' = None /\ rem' = None /\ slot' = slot + 1
  /\ spc' = IF slot < NumSlots - 1 THEN "create" ELSE "loop"
  /\ UNCHANGED <<clientVars, sdest, tcpVars, kills>>

(* The context takes its slot, its first receive request is posted: also   *)
(* when the client was lost.                                               *)
ServerOut ==
  /\ spc = "out"
  /\ conn' = None /\ rem' = None
  /\ IF slot < NumSlots - 1
     THEN slot' = slot + 1 /\ spc' = "create"
     ELSE slot' = slot /\ spc' = "loop"
  /\ UNCHANGED <<clientVars, sdest, tcpVars, kills>>

Server ==
  \/ ServerCreate \/ ServerListen \/ ServerAccept \/ ServerAddress
  \/ ServerReply \/ ServerDone \/ ServerQp \/ ServerOut

HandshakeNext == Server \/ \E c \in Clients : Client(c) \/ Start(c) \/ KillClient(c)

(* Both ends run; nobody has to start or kill a client.                    *)
HandshakeFairness == WF_handshakeVars(Server) /\ \A c \in Clients : WF_handshakeVars(Client(c))

HandshakeSpec == HandshakeInit /\ [][HandshakeNext]_handshakeVars /\ HandshakeFairness

-----------------------------------------------------------------------------
(* Properties.                                                             *)

(* Every variable keeps the values its comment lists.                      *)
HandshakeTypeOK ==
  /\ cpc \in [Clients -> {"off", "create", "connect", "write", "reply", "done",
                          "qp", "up", "gone"}]
  /\ cdest \in [Clients -> Slots \cup {None}]
  /\ spc \in {"create", "listen", "accept", "address", "reply", "done", "qp",
              "out", "loop"}
  /\ slot \in Slots
  /\ conn \in Clients \cup {None} /\ rem \in {None, conn}
  /\ sdest \in [Slots -> Clients \cup {None}]
  /\ waiting # None => waiting \in Seq(Clients) /\ Len(waiting) <= Backlog + 1
  /\ link \in [Clients -> {"none", "open", "closed", "reset"}]
  /\ toServer \in [Clients -> Seq({"address", "done"})]
  /\ toClient \in [Clients -> Seq(Slots)]
  /\ kills \in 0..MaxKills

Passed(i) == i < slot \/ spc = "loop"

(* A queue pair of the server reaches RTS only for a client that had read  *)
(* its address: never for one that was lost before, and never for two      *)
(* slots (pingpong.c:422-430).                                             *)
AgreedBeforeReady ==
  \A i \in Slots : sdest[i] # None =>
    /\ cdest[sdest[i]] = i
    /\ cpc[sdest[i]] \in {"qp", "up", "gone"}
    /\ \A j \in Slots : sdest[j] = sdest[i] => j = i

(* The client moves to RTS and sends without knowing that the server has   *)
(* come that far; but the server is there or will be, whatever happens to  *)
(* the connection: its "done" was read or is on the way, and nothing can   *)
(* send the server to another client before (pingpong.c:51-54, 309, 430).  *)
ReadyOrComing ==
  \A c \in Clients : cpc[c] = "up" =>
    \/ sdest[cdest[c]] = c
    \/ /\ slot = cdest[c] /\ conn = c
       /\ \/ spc = "qp" /\ rem = c
          \/ spc = "done" /\ toServer[c] = <<"done">>

(* Unless a client was killed in the handshake, no slot is spent on one    *)
(* that does not come up: the clients turned away at the listening socket  *)
(* cost nothing, and server_loop broadcasts to queue pairs that all answer *)
(* (pingpong.c:377-384, monitor.c:527-537).                                *)
NoSlotWasted ==
  kills = 0 => \A i \in Slots : Passed(i) => sdest[i] # None

(* Whoever is started comes up or ends: a connection still queued when the *)
(* listening socket closes does not hang (pingpong.c:277-315, 377-379).    *)
HandshakeEnds ==
  \A c \in Clients : (cpc[c] = "create") ~> (cpc[c] \in {"up", "gone"})

(* The server waits for nobody but the next client: whatever the one it    *)
(* accepted does, it comes back to accept or enters its loop               *)
(* (pingpong.c:385-438, monitor.c:443).                                    *)
ServerMovesOn == (spc \notin {"accept", "loop"}) ~> (spc \in {"accept", "loop"})

=============================================================================
