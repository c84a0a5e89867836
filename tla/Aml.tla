-------------------------------- MODULE Aml ---------------------------------
(***************************************************************************)
(* The transport of graph500's active-message library, graph500/aml/aml.c. *)
(*                                                                         *)
(* The processes form Groups (nodes) of Locals (cores).  A message to      *)
(* another group crosses two layers: "inter", between the processes with   *)
(* the same local number (the communicator comm), then "intra", inside     *)
(* the destination's group (comm_intra).  On each layer a process collects *)
(* messages in one coalescing buffer per peer, sends a full buffer with a  *)
(* nonblocking MPI send, and acknowledges the packets it receives, either  *)
(* on the tag of its next packet to that peer or, inside aml_barrier, by a *)
(* packet of its own.                                                      *)
(*                                                                         *)
(* A buffer holds a sequence of messages with their headers; AGGR counts   *)
(* messages instead of bytes.  A number of acknowledgements in the code    *)
(* (acks, an MPI tag) is here the set of the packets acknowledged, named   *)
(* by their contents, and the number is its cardinality; the counters ack  *)
(* and ack_intra stay numbers.                                             *)
(***************************************************************************)
EXTENDS Integers, Sequences, FiniteSets

CONSTANTS
  G,          \* num_groups
  L,          \* group_size
  AGGR,       \* AGGR[ly]: messages that fit into a coalescing buffer (AGGR, AGGR_intra)
  NSEND,      \* nonblocking sends a process may have under way on a layer
  Epochs,     \* bound: barriers the program calls, aml_finalize's included
  Budget,     \* bound: p sends at most Budget[p] messages
  Targets     \* bound: the processes p sends to are in Targets[p]

Groups == 0..G-1
Locals == 0..L-1
Proc == Groups \X Locals
Layer == {"inter", "intra"}

ASSUME AmlAssumption ==
  /\ G \in Nat \ {0} /\ L \in Nat \ {0}
  /\ AGGR \in [Layer -> Nat \ {0}] /\ NSEND \in Nat \ {0} /\ Epochs \in Nat \ {0}
  /\ Budget \in [Proc -> Nat] /\ Targets \in [Proc -> SUBSET Proc]

(* The messages of the application: sender, destination, epoch, number. *)
Messages ==
  UNION {[src : {p}, dst : Targets[p], e : 0..Epochs-1, n : 1..Budget[p]] : p \in Proc}

GroupOf(p) == p[1]
LocalOf(p) == p[2]

(* Peers of a process on a layer are numbered by group or by local number. *)
Peers(ly) == IF ly = "inter" THEN Groups ELSE Locals
Index(p, ly) == IF ly = "inter" THEN GroupOf(p) ELSE LocalOf(p)
Peer(p, ly, x) ==
  IF ly = "inter" THEN <<x, LocalOf(p)>> ELSE <<GroupOf(p), x>>

VARIABLES
  pc,         \* where p is: application, aml_send or a step of aml_barrier
  cur,        \* the message aml_send must append once its flush is done
  idx,        \* loop index i of the flush loops of aml_barrier
  epoch,      \* barriers p has left
  nsent,      \* messages p has sent
  sendbuf,    \* sendbuf[p][ly][x]: p's coalescing buffer for peer x
  acks,       \* acks[p][ly][x]: packets of x received and not yet acknowledged
  ack,        \* ack[p][ly]: p's packets not yet acknowledged to p
  rqsend,     \* rqsend[p][ly]: packets whose nonblocking send is incomplete
  wire,       \* packets sent and not yet received
  rx,         \* rx[p][ly]: what is left of the packet p is processing
  sent,       \* history: messages sent
  handled     \* history: messages handled, with the sender the handler saw

vars == <<pc, cur, idx, epoch, nsent, sendbuf, acks, ack, rqsend, wire, rx,
          sent, handled>>

None == [ly |-> "none"]
Idle == [from |-> None, data |-> <<>>]

(* The steps at which aml_barrier waits, and where inbarrier is set. *)
BarrierSteps == {"step1", "step4", "step5", "step8"}
inbarrier(p) == pc[p] \in BarrierSteps

Init ==
  /\ pc = [p \in Proc |-> "run"]
  /\ cur = [p \in Proc |-> None]
  /\ idx = [p \in Proc |-> 0]
  /\ epoch = [p \in Proc |-> 0]
  /\ nsent = [p \in Proc |-> 0]
  /\ sendbuf = [p \in Proc |-> [ly \in Layer |-> [x \in Peers(ly) |-> <<>>]]]
  /\ acks = [p \in Proc |-> [ly \in Layer |-> [x \in Peers(ly) |-> {}]]]
  /\ ack = [p \in Proc |-> [ly \in Layer |-> 0]]
  /\ rqsend = [p \in Proc |-> [ly \in Layer |-> {}]]
  /\ wire = {}
  /\ rx = [p \in Proc |-> [ly \in Layer |-> Idle]]
  /\ sent = {}
  /\ handled = {}

-----------------------------------------------------------------------------
(* Sending packets.                                                        *)

Full(p, ly, x) == Len(sendbuf[p][ly][x]) = AGGR[ly]

(* aml_send_intra and the end of aml_send: the message joins its buffer. *)
Enqueue(p, ly, x, h) ==
  /\ sendbuf' = [sendbuf EXCEPT ![p][ly][x] = Append(@, h)]
  /\ UNCHANGED <<acks, ack, rqsend, wire>>

(* Mutant: delayed acknowledgements do not make a flush necessary. *)
NoData(p, ly, x) == sendbuf[p][ly][x] = <<>>

(* flush_buffer returns at once when there is nothing to send. *)
NothingToFlush(p, ly, x) == sendbuf[p][ly][x] = <<>> /\ acks[p][ly][x] = {}

Packet(p, ly, x, data, acked) ==
  [ly |-> ly, from |-> p, to |-> Peer(p, ly, x), data |-> data, acks |-> acked]

(* Mutant: sendsize is not reset. *)
flush_keeps(p, ly, x, rest) ==
  LET data == sendbuf[p][ly][x]
      pkt == Packet(p, ly, x, data, acks[p][ly][x])
  IN /\ ~NothingToFlush(p, ly, x)
     /\ Cardinality(rqsend[p][ly]) < NSEND
     /\ wire' = wire \cup {pkt}
     /\ rqsend' \in {rqsend, [rqsend EXCEPT ![p][ly] = @ \cup {pkt}]}
     /\ ack' = [ack EXCEPT ![p][ly] = IF data # <<>> THEN @ + 1 ELSE @]
     /\ sendbuf' = [sendbuf EXCEPT ![p][ly][x] = data \o rest]
     /\ acks' = [acks EXCEPT ![p][ly][x] = {}]

(* Mutant: packets without data are counted in ack too. *)
flush_counts_all(p, ly, x, rest) ==
  LET data == sendbuf[p][ly][x]
      pkt == Packet(p, ly, x, data, acks[p][ly][x])
  IN /\ ~NothingToFlush(p, ly, x)
     /\ Cardinality(rqsend[p][ly]) < NSEND
     /\ wire' = wire \cup {pkt}
     /\ rqsend' \in {rqsend, [rqsend EXCEPT ![p][ly] = @ \cup {pkt}]}
     /\ ack' = [ack EXCEPT ![p][ly] = @ + 1]
     /\ sendbuf' = [sendbuf EXCEPT ![p][ly][x] = rest]
     /\ acks' = [acks EXCEPT ![p][ly][x] = {}]

(* flush_buffer once a send request is free: the packet leaves with the    *)
(* delayed acknowledgements on its tag; the buffer then holds rest.  MPI   *)
(* may complete the send at once or only when the packet is received.      *)
flush_buffer(p, ly, x, rest) ==
  LET data == sendbuf[p][ly][x]
      pkt == Packet(p, ly, x, data, acks[p][ly][x])
  IN /\ ~NothingToFlush(p, ly, x)
     /\ Cardinality(rqsend[p][ly]) < NSEND
     /\ wire' = wire \cup {pkt}
     /\ rqsend' \in {rqsend, [rqsend EXCEPT ![p][ly] = @ \cup {pkt}]}
     /\ ack' = [ack EXCEPT ![p][ly] = IF data # <<>> THEN @ + 1 ELSE @]
     /\ sendbuf' = [sendbuf EXCEPT ![p][ly][x] = rest]
     /\ acks' = [acks EXCEPT ![p][ly][x] = {}]

-----------------------------------------------------------------------------
(* Receiving packets.                                                      *)

(* A message waits in process() for room in the buffer of its next hop. *)
Forwarding(p) ==
  /\ rx[p]["intra"] = Idle /\ rx[p]["inter"] # Idle
  /\ Head(rx[p]["inter"].data).routing # LocalOf(p)

ForwardBlocked(p) ==
  Forwarding(p) /\ Full(p, "intra", Head(rx[p]["inter"].data).routing)

Processing(p) == rx[p]["intra"] # Idle \/ rx[p]["inter"] # Idle

(* A flush loop of aml_barrier is at a peer that something must be sent to. *)
Unflushed(p, ly, size) ==
  idx[p] < size /\ ~NothingToFlush(p, ly, (Index(p, ly) + idx[p]) % size)

(* The loops that call aml_poll ... *)
PollsInter(p) ==
  /\ ~Processing(p)
  /\ \/ pc[p] = "send" /\ cur[p].ly = "inter"
     \/ pc[p] = "step1" /\ Unflushed(p, "inter", G)
     \/ pc[p] = "step1" /\ idx[p] >= G /\ ack[p]["inter"] # 0
     \/ pc[p] = "step4"

(* ... or aml_poll_intra, which aml_poll calls too. *)
PollsIntra(p) ==
  \/ PollsInter(p)
  \/ ForwardBlocked(p)
  \/ /\ ~Processing(p)
     /\ \/ pc[p] = "send" /\ cur[p].ly = "intra"
        \/ pc[p] = "step5" /\ Unflushed(p, "intra", L)
        \/ pc[p] = "step5" /\ idx[p] >= L /\ ack[p]["intra"] # 0
        \/ pc[p] = "step8"

(* A successful MPI_Testany in aml_poll or aml_poll_intra: the tag is      *)
(* taken off the counter; a packet with data is acknowledged at once       *)
(* inside the barrier and with the next flush outside, then processed.     *)
Receive(p, ly, pkt) ==
  LET x == Index(pkt.from, ly)
      hasData == pkt.data # <<>>
      now == hasData /\ inbarrier(p)
      ackNow == Packet(p, ly, x, <<>>, {pkt.data})
  IN /\ pkt.ly = ly /\ pkt.to = p
     /\ wire' = (wire \ {pkt}) \cup (IF now THEN {ackNow} ELSE {})
     /\ rqsend' = [rqsend EXCEPT ![pkt.from][ly] = @ \ {pkt}]
     /\ ack' = [ack EXCEPT ![p][ly] = @ - Cardinality(pkt.acks)]
     /\ acks' = IF hasData /\ ~now
                THEN [acks EXCEPT ![p][ly][x] = @ \cup {pkt.data}]
                ELSE acks
     /\ rx' = IF hasData
              THEN [rx EXCEPT ![p][ly] = [from |-> pkt.from, data |-> pkt.data]]
              ELSE rx
     /\ UNCHANGED <<pc, cur, idx, epoch, nsent, sendbuf, sent, handled>>

aml_poll(p) == PollsInter(p) /\ \E pkt \in wire : Receive(p, "inter", pkt)
aml_poll_intra(p) == PollsIntra(p) /\ \E pkt \in wire : Receive(p, "intra", pkt)

(* A loop of process or process_intra moves on to the next message. *)
Advance(p, ly) ==
  rx' = [rx EXCEPT ![p][ly] =
           IF Len(@.data) = 1 THEN Idle ELSE [@ EXCEPT !.data = Tail(@)]]

RunHandler(p, m, from) == handled' = handled \cup {[m |-> m, from |-> from, at |-> p]}

(* Mutant: the group of the sender is taken to be this process's own. *)
process_intra_mygroup(p) ==
  /\ rx[p]["intra"] # Idle
  /\ LET h == Head(rx[p]["intra"].data)
     IN RunHandler(p, h.m, <<GroupOf(p), LocalOf(rx[p]["intra"].from)>>)
  /\ Advance(p, "intra")
  /\ UNCHANGED <<pc, cur, idx, epoch, nsent, sendbuf, acks, ack, rqsend, wire, sent>>

(* process_intra: the sender is rebuilt from the group in the header and   *)
(* the local number of the process the packet came from.                   *)
process_intra(p) ==
  /\ rx[p]["intra"] # Idle
  /\ LET h == Head(rx[p]["intra"].data)
     IN RunHandler(p, h.m, <<h.routing, LocalOf(rx[p]["intra"].from)>>)
  /\ Advance(p, "intra")
  /\ UNCHANGED <<pc, cur, idx, epoch, nsent, sendbuf, acks, ack, rqsend, wire, sent>>

(* process: a message for this process is handled here ... *)
process_here(p) ==
  /\ rx[p]["intra"] = Idle /\ rx[p]["inter"] # Idle
  /\ LET h == Head(rx[p]["inter"].data)
     IN /\ h.routing = LocalOf(p)
        /\ RunHandler(p, h.m, <<GroupOf(rx[p]["inter"].from), LocalOf(p)>>)
  /\ Advance(p, "inter")
  /\ UNCHANGED <<pc, cur, idx, epoch, nsent, sendbuf, acks, ack, rqsend, wire, sent>>

(* ... another one is passed on by aml_send_intra, which flushes the       *)
(* buffer of the next hop first when it is full.                           *)
process_forward(p) ==
  /\ Forwarding(p)
  /\ LET h == Head(rx[p]["inter"].data)
         x == h.routing
         h2 == [routing |-> GroupOf(rx[p]["inter"].from), m |-> h.m]
     IN IF Full(p, "intra", x)
        THEN flush_buffer(p, "intra", x, <<h2>>)
        ELSE Enqueue(p, "intra", x, h2)
  /\ Advance(p, "inter")
  /\ UNCHANGED <<pc, cur, idx, epoch, nsent, sent, handled>>

process(p) == process_here(p) \/ process_forward(p)

-----------------------------------------------------------------------------
(* The calls of the application.                                           *)

(* The first hop of a message and its header there. *)
Hop(p, m) ==
  IF GroupOf(m.dst) = GroupOf(p)
  THEN [ly |-> "intra", x |-> LocalOf(m.dst), h |-> [routing |-> GroupOf(p), m |-> m]]
  ELSE [ly |-> "inter", x |-> GroupOf(m.dst), h |-> [routing |-> LocalOf(m.dst), m |-> m]]

(* aml_send: a message to oneself runs its handler; another one is         *)
(* appended, or waits for a flush of the full buffer.                      *)
aml_send(p, q) ==
  LET m == [src |-> p, dst |-> q, e |-> epoch[p], n |-> nsent[p] + 1]
      hop == Hop(p, m)
  IN /\ pc[p] = "run" /\ epoch[p] < Epochs /\ nsent[p] < Budget[p]
     /\ nsent' = [nsent EXCEPT ![p] = @ + 1]
     /\ sent' = sent \cup {m}
     /\ \/ /\ q = p
           /\ RunHandler(p, m, p)
           /\ UNCHANGED <<pc, cur, sendbuf, acks, ack, rqsend, wire>>
        \/ /\ q # p /\ ~Full(p, hop.ly, hop.x)
           /\ Enqueue(p, hop.ly, hop.x, hop.h)
           /\ UNCHANGED <<pc, cur, handled>>
        \/ /\ q # p /\ Full(p, hop.ly, hop.x)
           /\ pc' = [pc EXCEPT ![p] = "send"]
           /\ cur' = [cur EXCEPT ![p] = hop]
           /\ UNCHANGED <<sendbuf, acks, ack, rqsend, wire, handled>>
     /\ UNCHANGED <<idx, epoch, rx>>

(* The flush inside aml_send finds a free request; the message is appended. *)
aml_send_flushed(p) ==
  /\ pc[p] = "send" /\ ~Processing(p)
  /\ flush_buffer(p, cur[p].ly, cur[p].x, <<cur[p].h>>)
  /\ pc' = [pc EXCEPT ![p] = "run"]
  /\ cur' = [cur EXCEPT ![p] = None]
  /\ UNCHANGED <<idx, epoch, nsent, rx, sent, handled>>

Goto(p, from, to) == pc[p] = from /\ ~Processing(p) /\ pc' = [pc EXCEPT ![p] = to]

aml_barrier(p) ==
  /\ epoch[p] < Epochs
  /\ Goto(p, "run", "step1")
  /\ idx' = [idx EXCEPT ![p] = 1]
  /\ UNCHANGED <<cur, epoch, nsent, sendbuf, acks, ack, rqsend, wire, rx, sent, handled>>

(* Steps 1 and 5: flush the buffers of the other peers one by one. *)
FlushLoop(p, step, ly, size) ==
  LET x == (Index(p, ly) + idx[p]) % size
  IN /\ pc[p] = step /\ ~Processing(p) /\ idx[p] < size
     /\ \/ /\ NothingToFlush(p, ly, x)
           /\ UNCHANGED <<sendbuf, acks, ack, rqsend, wire>>
        \/ flush_buffer(p, ly, x, <<>>)
     /\ idx' = [idx EXCEPT ![p] = @ + 1]
     /\ UNCHANGED <<pc, cur, epoch, nsent, rx, sent, handled>>

NoComm == UNCHANGED <<cur, epoch, nsent, sendbuf, acks, ack, rqsend, wire, rx, sent, handled>>

(* Mutant: step 2 is left out. *)
step3_early(p) ==
  idx[p] >= G /\ Goto(p, "step1", "step4") /\ UNCHANGED idx /\ NoComm

(* Steps 2 and 3: once all internode packets are flushed and acknowledged, *)
(* MPI_Ibarrier(comm).                                                     *)
step3(p) ==
  /\ idx[p] >= G /\ ack[p]["inter"] = 0
  /\ Goto(p, "step1", "step4")
  /\ UNCHANGED idx
  /\ NoComm

(* q has called the nonblocking barrier that comes before one of steps. *)
Called(q, p, steps) == epoch[q] > epoch[p] \/ (epoch[q] = epoch[p] /\ pc[q] \in steps)

(* Step 4 ends when every process of comm has called MPI_Ibarrier. *)
step4_done(p) ==
  /\ \A g \in Groups :
       Called(<<g, LocalOf(p)>>, p, {"step4", "step5", "step8", "world"})
  /\ Goto(p, "step4", "step5")
  /\ idx' = [idx EXCEPT ![p] = 1]
  /\ NoComm

(* Mutant: step 6 is left out. *)
step7_early(p) ==
  idx[p] >= L /\ Goto(p, "step5", "step8") /\ UNCHANGED idx /\ NoComm

(* Steps 6 and 7: the same for the intranode layer, MPI_Ibarrier(comm_intra). *)
step7(p) ==
  /\ idx[p] >= L /\ ack[p]["intra"] = 0
  /\ Goto(p, "step5", "step8")
  /\ UNCHANGED idx
  /\ NoComm

step8_done(p) ==
  /\ \A l \in Locals : Called(<<GroupOf(p), l>>, p, {"step8", "world"})
  /\ Goto(p, "step8", "world")
  /\ UNCHANGED idx
  /\ NoComm

(* MPI_Barrier(MPI_COMM_WORLD) ends the call. *)
world_done(p) ==
  /\ \A q \in Proc : Called(q, p, {"world"})
  /\ Goto(p, "world", "run")
  /\ epoch' = [epoch EXCEPT ![p] = @ + 1]
  /\ idx' = [idx EXCEPT ![p] = 0]
  /\ UNCHANGED <<cur, nsent, sendbuf, acks, ack, rqsend, wire, rx, sent, handled>>

(* aml_finalize, after its barrier: cancel the receives and wait for the   *)
(* sends.                                                                  *)
aml_finalize(p) ==
  /\ epoch[p] = Epochs
  /\ rqsend[p] = [ly \in Layer |-> {}]
  /\ Goto(p, "run", "final")
  /\ UNCHANGED idx
  /\ NoComm

Step(p) ==
  \/ \E q \in Targets[p] : aml_send(p, q)
  \/ aml_send_flushed(p)
  \/ aml_poll(p)
  \/ aml_poll_intra(p)
  \/ process_intra(p)
  \/ process(p)
  \/ aml_barrier(p)
  \/ FlushLoop(p, "step1", "inter", G)
  \/ step3(p)
  \/ step4_done(p)
  \/ FlushLoop(p, "step5", "intra", L)
  \/ step7(p)
  \/ step8_done(p)
  \/ world_done(p)
  \/ aml_finalize(p)

(* MPI_Finalize is the end. *)
Finalized == (\A p \in Proc : pc[p] = "final") /\ UNCHANGED vars

Next == (\E p \in Proc : Step(p)) \/ Finalized

Spec == Init /\ [][Next]_vars

(* Some process moves as long as one can; an idle poll is no step. *)
FairSpec == Spec /\ WF_vars(\E p \in Proc : Step(p))
-----------------------------------------------------------------------------
(* Properties.                                                             *)

(* The places where a message is: waiting in aml_send, in a coalescing     *)
(* buffer, in a packet, in a received packet not yet processed, handled.   *)
Places(m) ==
  {<<"cur", p>> : p \in {p \in Proc : pc[p] = "send" /\ cur[p].h.m = m}}
  \cup {<<"buf", b>> : b \in {b \in UNION {{<<p, ly, x, i>> : x \in Peers(ly), i \in 1..AGGR[ly]} :
                                   p \in Proc, ly \in Layer} :
                       /\ b[4] <= Len(sendbuf[b[1]][b[2]][b[3]])
                       /\ sendbuf[b[1]][b[2]][b[3]][b[4]].m = m}}
  \cup UNION {{<<"wire", pkt, i>> : i \in {i \in DOMAIN pkt.data : pkt.data[i].m = m}} :
              pkt \in wire}
  \cup UNION {{<<"rx", p, ly, i>> : i \in {i \in DOMAIN rx[p][ly].data : rx[p][ly].data[i].m = m}} :
              p \in Proc, ly \in Layer}
  \cup {<<"handled", r>> : r \in {r \in handled : r.m = m}}

(* Coalescing, forwarding through the destination's group and the polls    *)
(* nested in a blocked flush neither lose nor duplicate a message: what    *)
(* aml_send took is at exactly one place until its handler runs, once.     *)
ExactlyOnce == \A m \in sent : Cardinality(Places(m)) = 1

(* process and process_intra call the handler at the destination, with     *)
(* the rank of the process that called aml_send, though the packet that    *)
(* brought the message may come from another one.                          *)
HandlerSeesSender == \A r \in handled : r.at = r.m.dst /\ r.from = r.m.src

(* The packets of p with data that have not been acknowledged to p: on     *)
(* the wire, waiting for the receiver's next flush, or on the tag of a     *)
(* packet on its way back.                                                 *)
Unacked(p, ly) ==
  {pkt.data : pkt \in {k \in wire : k.ly = ly /\ k.from = p /\ k.data # <<>>}}
  \cup UNION {acks[Peer(p, ly, x)][ly][Index(p, ly)] : x \in Peers(ly)}
  \cup UNION {pkt.acks : pkt \in {k \in wire : k.ly = ly /\ k.to = p}}

(* The counters ack and ack_intra count exactly the unacknowledged         *)
(* packets, so that the waits for ack = 0 in steps 2 and 6 of aml_barrier  *)
(* end neither early nor never.                                            *)
AckCounts == \A p \in Proc, ly \in Layer : ack[p][ly] = Cardinality(Unacked(p, ly))

(* A process that is through step 8, while nobody is ahead of it, leaves   *)
(* nothing behind, of its own or of others: no internode packet, no packet  *)
(* in its group, no buffered message and no delayed acknowledgement.  In   *)
(* aml_finalize this makes MPI_Cancel of the receives harmless.            *)
BarrierDrains ==
  \A p \in Proc :
    pc[p] \in {"world", "final"} /\ (\A q \in Proc : epoch[q] <= epoch[p]) =>
    /\ \A pkt \in wire : pkt.ly = "intra" /\ GroupOf(pkt.to) # GroupOf(p)
    /\ \A ly \in Layer : \A x \in Peers(ly) : NothingToFlush(p, ly, x)
    /\ ~Processing(p)

(* The transport implements the abstract service: aml_send, the handlers   *)
(* and aml_barrier behave as ActiveMessages says.                          *)
AM == INSTANCE ActiveMessages WITH
        inbar <- [p \in Proc |-> inbarrier(p) \/ pc[p] = "world"],
        net <- sent \ {r.m : r \in handled},
        handled <- {r.m : r \in handled}

AMService == AM!AMSpec

(* Every process gets through all its calls and aml_finalize: no cycle of  *)
(* flushes that wait for send requests, and no wait in aml_barrier, is     *)
(* for ever.                                                               *)
Terminates == <>(\A p \in Proc : pc[p] = "final")
=============================================================================
