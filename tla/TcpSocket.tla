----------------------------- MODULE TcpSocket ------------------------------
(***************************************************************************)
(* TCP in PlumOS: the socket table and its sockets (tcp_socket.cpp), the   *)
(* segment handler (TCP.cpp), which runs in the network card's interrupt,  *)
(* and the only program that uses them, the `http' command (programs.cpp). *)
(*                                                                         *)
(* The program runs in ring 3 with interrupts on, so a segment can arrive  *)
(* between any two of its steps; its system calls and the handler run with *)
(* interrupts off and are one step.  A connection's remote end is a peer:  *)
(* an ordinary TCP client.  Payloads are labelled by their place in the    *)
(* peer's stream and count one unit of sequence space.                     *)
(*                                                                         *)
(* Allocation is taken as atomic and never fails; what an interrupt inside *)
(* malloc or free does is not a subject of this module.                    *)
(***************************************************************************)
EXTENDS Integers, FiniteSets, SequencesExt

CONSTANTS
  Peers,       \* remote (address, port) pairs
  MaxSockets,  \* 128: numbers that socket() hands out
  QueueLen,    \* 127: what a Ring_Buffer<cdata, 128> holds
  MaxPayloads, \* bound: payloads a peer sends, while its network is `ordered'
  MaxObjects,  \* bound: sockets allocated
  MaxCopies    \* bound: deliveries of a segment that stays in the network

ASSUME TcpAssumption ==
  /\ {MaxSockets, QueueLen, MaxObjects} \subseteq Nat \ {0}
  /\ {MaxPayloads, MaxCopies} \subseteq Nat
  /\ -1 \notin Peers

Object == 0 .. MaxObjects - 1
None   == -1
Isn    == 1000  \* send_seq of a new connection
Unused == [state |-> "none"]

VARIABLES
  sock,     \* the tcp_socket objects ever allocated
  sockets,  \* tsock::sockets: what each unique_ptr points to
  deleted,  \* history: how often each object was deleted
  halted,   \* an exception stopped the machine
  pc, server, client, orphan, index, spare, \* the program and its locals
  peer,     \* peer[p]: [st, seen, sent]: its state, what it acknowledges and
            \* how many payloads it sent
  net,      \* net[p]: segments on their way from p
  ordered,  \* whether no segment is ever overtaken, delayed or repeated
  out,      \* out[p]: <<kind, send_seq>> of the segments sent to p
  copies,   \* number of deliveries of segments that stayed in the network
  raced     \* history: the handler grew a vector that the program was
            \* taking an element out of

program == <<pc, server, client, orphan, index, spare>>
table   == <<sock, sockets, deleted, halted>>
remote  == <<peer, net, ordered, copies>>
vars    == <<table, program, remote, out, raced>>

-----------------------------------------------------------------------------
\* A segment: its flags; ack = 0 without ACK, data = 0 without payload.
Seg(syn, fin, ack, data) == [syn |-> syn, fin |-> fin, ack |-> ack, data |-> data]

\* The definitions named Mut... are mutants of the code, for the runs' sensitivity.

\* find_socket_connection, find_socket_listner: the first that matches.
FirstOf(I) == IF I = {} THEN None ELSE sockets[CHOOSE i \in I : \A j \in I : i <= j]
MutConnection(p) ==  \* half-open connections are not looked at
  FirstOf({i \in DOMAIN sockets :
             sock[sockets[i]].peer = p /\ sock[sockets[i]].state # "SYN_RECEIVED"})
Connection(p) == FirstOf({i \in DOMAIN sockets : sock[sockets[i]].peer = p})
Listener == FirstOf({i \in DOMAIN sockets : sock[sockets[i]].state = "LISTEN"})

\* socket(): the lowest number that is free, and where the object lies.
Numbers == {n \in 0 .. MaxSockets - 1 :
              \A i \in DOMAIN sockets : sock[sockets[i]].num # n}
Number  == CHOOSE n \in Numbers : \A m \in Numbers : n <= m
Spares  == {o \in Object : sock[o] = Unused}
Fresh   == CHOOSE o \in Spares : \A q \in Spares : o <= q

NewSocket(state, p, sseq, rseq) ==
  [num |-> Number, state |-> state, peer |-> p, sseq |-> sseq, rseq |-> rseq,
   queue |-> <<>>, pending |-> <<>>,
   got |-> <<>>,       \* history: what recv returned
   accepts |-> 0,      \* history: how often accept returned it
   dropped |-> FALSE]  \* history: a payload came while rx_queue was full

-----------------------------------------------------------------------------
Init ==
  /\ sock = [o \in Object |-> Unused]
  /\ sockets = <<>>
  /\ deleted = [o \in Object |-> 0]
  /\ halted = FALSE
  /\ pc = "shell" /\ server = None /\ client = None
  /\ orphan = 0 /\ index = 0 /\ spare = None
  /\ peer = [p \in Peers |-> [st |-> "closed", seen |-> 0, sent |-> 0]]
  /\ net = [p \in Peers |-> <<>>] /\ ordered \in BOOLEAN
  /\ out = [p \in Peers |-> {}]
  /\ copies = 0
  /\ raced = FALSE

-----------------------------------------------------------------------------
MutAfterFin(s, g) ==  \* any state but the two of our own close is left
  IF s.state \in {"FIN_WAIT_1", "FIN_WAIT_2"} THEN "TIME_WAIT" ELSE "CLOSE_WAIT"

MutAfterAck(state, s, g) ==  \* the ACK of our FIN is taken for the end
  CASE g.ack # 0 /\ state = "FIN_WAIT_1"        -> "TIME_WAIT"
    [] state = "SYN_RECEIVED" /\ g.ack = s.sseq -> "ESTABLISHED"
    [] OTHER                                    -> state

MutRecv ==  \* Ring_Buffer::pop does not move the tail
  /\ pc = "serve" /\ ~ halted
  /\ IF sock[client].queue = <<>>
     THEN pc' = "close" /\ UNCHANGED sock
     ELSE /\ sock' = [sock EXCEPT ![client].got = Append(@, Head(sock[client].queue))]
          /\ pc' = "send"
  /\ UNCHANGED <<sockets, deleted, halted, server, client, orphan, index, spare,
                 remote, out, raced>>

MutAcceptPop ==  \* the connection stays on the pending list
  /\ pc = "pop" /\ ~ halted
  /\ sock' = [sock EXCEPT ![client].accepts = @ + 1]
  /\ pc' = "serve"
  /\ UNCHANGED <<sockets, deleted, halted, server, client, orphan, index, spare,
                 remote, out, raced>>

MutRemoveTail ==  \* the last element is popped whatever the index
  /\ pc = "tail" /\ ~ halted
  /\ pc' = "shrink"
  /\ UNCHANGED <<table, server, client, orphan, index, spare, remote, out, raced>>

(* receive_tcp, for a segment g of the connection s.  A payload ends the   *)
(* handling; otherwise FIN, ACK, SYN and ACK again are looked at in turn.  *)
AfterFin(s, g) ==
  CASE s.state = "FIN_WAIT_2"                   -> "TIME_WAIT"
    [] s.state = "FIN_WAIT_1" /\ g.ack = s.sseq -> "TIME_WAIT"
    [] s.state = "FIN_WAIT_1" /\ g.ack # s.sseq -> "CLOSING"
    [] s.state = "ESTABLISHED"                  -> "CLOSE_WAIT"
    [] OTHER                                    -> s.state

AfterAck(state, s, g) ==
  CASE g.ack # 0 /\ state = "FIN_WAIT_1"        -> "FIN_WAIT_2"
    [] state = "SYN_RECEIVED" /\ g.ack = s.sseq -> "ESTABLISHED"
    [] OTHER                                    -> state

Payload(s, g) ==
  [s EXCEPT !.rseq    = @ + 1,
            !.queue   = IF Len(@) < QueueLen THEN Append(@, g.data) ELSE @,
            !.dropped = @ \/ Len(s.queue) >= QueueLen]

Control(s, g) ==
  IF g.syn
  THEN IF s.state = "SYN_RECEIVED" THEN [s EXCEPT !.rseq = 1, !.sseq = Isn + 1] ELSE s
  ELSE [s EXCEPT !.rseq  = IF g.fin THEN @ + 1 ELSE @,
                 !.state = AfterAck(IF g.fin THEN AfterFin(s, g) ELSE @, s, g)]

Handled(s, g) == IF g.data # 0 THEN Payload(s, g) ELSE Control(s, g)

\* A segment of a known connection; a handshake that it completes puts the
\* connection on the listener's pending list.
ReceiveKnown(p, g) ==
  LET c == Connection(p)
      h == Handled(sock[c], g)
      l == IF sock[c].state = "SYN_RECEIVED" /\ h.state = "ESTABLISHED"
           THEN Listener ELSE None
  IN  /\ c # None
      /\ sock' = IF l = None THEN [sock EXCEPT ![c] = h]
                 ELSE [sock EXCEPT ![c] = h, ![l].pending = Append(@, c)]
      /\ out' = IF g.syn /\ sock[c].state = "SYN_RECEIVED"
                THEN [out EXCEPT ![p] = @ \cup {<<"synack", Isn>>}] ELSE out
      /\ raced' = (raced \/ (l # None /\ l = server /\ pc = "pop"))
      /\ UNCHANGED <<sockets, deleted, halted>>

\* The first SYN of a connection that a socket listens for.  With all numbers
\* taken, find_socket(-1) is null and the handler writes through it.
ReceiveSyn(p, g) ==
  /\ Connection(p) = None
  /\ g.syn /\ Listener # None
  /\ IF Numbers = {}
     THEN /\ halted' = TRUE
          /\ UNCHANGED <<sock, sockets, out, raced>>
     ELSE /\ Spares # {}
          /\ sock' = [sock EXCEPT ![Fresh] = NewSocket("SYN_RECEIVED", p, Isn + 1, 1)]
          /\ sockets' = Append(sockets, Fresh)
          /\ out' = [out EXCEPT ![p] = @ \cup {<<"synack", Isn>>}]
          /\ raced' = (raced \/ pc \in {"find", "tail", "shrink", "destroy"})
          /\ UNCHANGED halted
  /\ UNCHANGED deleted

ReceiveOther(p, g) ==
  /\ Connection(p) = None
  /\ ~ g.syn \/ Listener = None
  /\ UNCHANGED <<table, out, raced>>

(* The card's interrupt: a segment leaves the network, or stays in it to   *)
(* be delivered again (a duplicate, or the peer's retransmission).         *)
Deliver(p) ==
  /\ ~ halted /\ pc # "corrupt"
  /\ \E i \in DOMAIN net[p], stays \in BOOLEAN :
       /\ ordered => i = 1 /\ ~ stays
       /\ stays => copies < MaxCopies
       /\ net' = IF stays THEN net ELSE [net EXCEPT ![p] = RemoveAt(@, i)]
       /\ copies' = IF stays THEN copies + 1 ELSE copies
       /\ \/ ReceiveKnown(p, net[p][i])
          \/ ReceiveSyn(p, net[p][i])
          \/ ReceiveOther(p, net[p][i])
  /\ UNCHANGED <<program, peer, ordered>>

-----------------------------------------------------------------------------
(* The http command.                                                       *)
At(place) == pc = place /\ ~ halted

\* socket, bind and listen; nothing can arrive for the socket before listen.
Serve ==
  /\ At("shell")
  /\ IF Numbers = {}
     THEN /\ halted' = TRUE
          /\ UNCHANGED <<sock, sockets, pc, server>>
     ELSE /\ Spares # {}
          /\ sock' = [sock EXCEPT ![Fresh] = NewSocket("LISTEN", None, 0, 0)]
          /\ sockets' = Append(sockets, Fresh)
          /\ server' = Fresh
          /\ pc' = "wait"
          /\ UNCHANGED halted
  /\ UNCHANGED <<deleted, client, orphan, index, spare, remote, out, raced>>

\* accept: pending.back() ...
AcceptBack ==
  /\ At("wait")
  /\ sock[server].pending # <<>>
  /\ client' = Last(sock[server].pending)
  /\ pc' = "pop"
  /\ UNCHANGED <<table, server, orphan, index, spare, remote, out, raced>>

\* ... and pending.pop_back().
AcceptPop ==
  /\ At("pop")
  /\ sock' = [sock EXCEPT ![server].pending = Front(@), ![client].accepts = @ + 1]
  /\ pc' = "serve"
  /\ UNCHANGED <<sockets, deleted, halted, server, client, orphan, index, spare,
                 remote, out, raced>>

Recv ==
  /\ At("serve")
  /\ IF sock[client].queue = <<>>
     THEN pc' = "close" /\ UNCHANGED sock
     ELSE /\ sock' = [sock EXCEPT ![client].queue = Tail(@),
                                  ![client].got = Append(@, Head(sock[client].queue))]
          /\ pc' = "send"
  /\ UNCHANGED <<sockets, deleted, halted, server, client, orphan, index, spare,
                 remote, out, raced>>

\* send: the system call sends the payload, then send_seq moves on.
Send ==
  /\ At("send")
  /\ out' = [out EXCEPT ![sock[client].peer] = @ \cup {<<"data", sock[client].sseq>>}]
  /\ pc' = "advance"
  /\ UNCHANGED <<table, server, client, orphan, index, spare, remote, raced>>

SendAdvance ==
  /\ At("advance")
  /\ sock' = [sock EXCEPT ![client].sseq = @ + 1]
  /\ pc' = "close"
  /\ UNCHANGED <<sockets, deleted, halted, server, client, orphan, index, spare,
                 remote, out, raced>>

-----------------------------------------------------------------------------
(* tcp_socket::close of `client', and what it returns to.                  *)
Back == IF client = server THEN "shell"
        ELSE IF sock[server].state = "LISTEN" THEN "wait" ELSE "orphans"
Return == /\ pc' = Back
          /\ client' = None /\ index' = 0 /\ spare' = None
          /\ IF client = server THEN server' = None /\ orphan' = 0
             ELSE UNCHANGED <<server, orphan>>

\* ESC: server->close() stops listening and closes what is on pending.
Escape ==
  /\ At("wait")
  /\ sock' = [sock EXCEPT ![server].state = "CLOSED"]
  /\ orphan' = 1
  /\ pc' = "orphans"
  /\ UNCHANGED <<sockets, deleted, halted, server, client, index, spare, remote, out, raced>>

CloseOrphan ==
  /\ At("orphans")
  /\ IF orphan <= Len(sock[server].pending)
     THEN /\ client' = sock[server].pending[orphan]
          /\ orphan' = orphan + 1
          /\ pc' = "close"
     ELSE /\ client' = server
          /\ pc' = "find"
          /\ UNCHANGED orphan
  /\ UNCHANGED <<table, server, index, spare, remote, out, raced>>

Close ==
  /\ At("close")
  /\ IF sock[client].state = "CLOSED" THEN Return
     ELSE /\ pc' = IF sock[client].state = "ESTABLISHED" THEN "fin" ELSE "find"
          /\ UNCHANGED <<server, client, orphan, index, spare>>
  /\ UNCHANGED <<table, remote, out, raced>>

\* The system call that sends FIN, send_seq++, and the new state.
CloseFin ==
  /\ At("fin")
  /\ out' = [out EXCEPT ![sock[client].peer] = @ \cup {<<"fin", sock[client].sseq>>}]
  /\ pc' = "finseq"
  /\ UNCHANGED <<table, server, client, orphan, index, spare, remote, raced>>

CloseAdvance ==
  /\ At("finseq")
  /\ sock' = [sock EXCEPT ![client].sseq = @ + 1]
  /\ pc' = "finstate"
  /\ UNCHANGED <<sockets, deleted, halted, server, client, orphan, index, spare,
                 remote, out, raced>>

CloseState ==
  /\ At("finstate")
  /\ sock' = [sock EXCEPT ![client].state = "FIN_WAIT_1"]
  /\ Return
  /\ UNCHANGED <<sockets, deleted, halted, remote, out, raced>>

-----------------------------------------------------------------------------
(* remove_socket(client->num): the search ...                              *)
RemoveFind ==
  /\ At("find")
  /\ LET I == {i \in DOMAIN sockets : sock[sockets[i]].num = sock[client].num}
     IN  IF I = {}
         THEN Return
         ELSE /\ index' = CHOOSE i \in I : \A j \in I : i <= j
              /\ pc' = "tail"
              /\ UNCHANGED <<server, client, orphan, spare>>
  /\ UNCHANGED <<table, remote, out, raced>>

\* ... swap_remove: the last element is popped.  Any other is destroyed and
\* then assigned to, and both delete what it points to: the heap is corrupt and
\* nothing that follows is defined.
RemoveTail ==
  /\ At("tail")
  /\ IF index = Len(sockets)
     THEN pc' = "shrink" /\ UNCHANGED <<deleted, sockets>>
     ELSE /\ deleted' = [deleted EXCEPT ![sockets[index]] = @ + 2]
          /\ sockets' = Front([sockets EXCEPT ![index] = Last(sockets)])
          /\ pc' = "corrupt"
  /\ UNCHANGED <<sock, halted, server, client, orphan, index, spare, remote, out, raced>>

\* pop_back: m_size is decremented and what lies at m_size is destroyed.
RemoveShrink ==
  /\ At("shrink")
  /\ spare' = Last(sockets)
  /\ index' = Len(sockets)
  /\ sockets' = Front(sockets)
  /\ pc' = "destroy"
  /\ UNCHANGED <<sock, deleted, halted, server, client, orphan, remote, out, raced>>

RemoveDestroy ==
  /\ At("destroy")
  /\ LET o == IF index <= Len(sockets) THEN sockets[index] ELSE spare
     IN  deleted' = [deleted EXCEPT ![o] = @ + 1]
  /\ Return
  /\ UNCHANGED <<sock, sockets, halted, remote, out, raced>>

RemoveStep == RemoveFind \/ RemoveTail \/ RemoveShrink \/ RemoveDestroy
Program == \/ Serve \/ AcceptBack \/ AcceptPop \/ Recv \/ Send \/ SendAdvance
           \/ Escape \/ CloseOrphan \/ Close \/ CloseFin \/ CloseAdvance
           \/ CloseState \/ RemoveStep

-----------------------------------------------------------------------------
(* The peer p, a TCP client that accepts segments in order.                *)
Emit(p, st, seen, sent, g) ==
  /\ peer' = [peer EXCEPT ![p] = [st |-> st, seen |-> seen, sent |-> sent]]
  /\ net' = [net EXCEPT ![p] = Append(@, g)]
  /\ UNCHANGED <<table, program, ordered, copies, out, raced>>

PeerConnects(p) ==
  /\ peer[p].st = "closed"
  /\ Emit(p, "syn", 0, 0, Seg(TRUE, FALSE, 0, 0))

PeerAcknowledges(p) ==
  /\ \E x \in out[p] :
       /\ IF x[1] = "synack" THEN peer[p].st = "syn"
          ELSE peer[p].st \in {"open", "done"} /\ x[2] = peer[p].seen
       /\ Emit(p, IF x[1] = "synack" THEN "open" ELSE peer[p].st, x[2] + 1,
               peer[p].sent, Seg(FALSE, FALSE, x[2] + 1, 0))

PeerSends(p) ==
  /\ peer[p].st = "open" /\ ordered /\ peer[p].sent < MaxPayloads
  /\ \E last \in BOOLEAN :
       Emit(p, IF last THEN "done" ELSE "open", peer[p].seen, peer[p].sent + 1,
            Seg(FALSE, last, peer[p].seen, peer[p].sent + 1))

PeerCloses(p) ==
  /\ peer[p].st = "open"
  /\ Emit(p, "done", peer[p].seen, peer[p].sent, Seg(FALSE, TRUE, peer[p].seen, 0))

Peer(p) == PeerConnects(p) \/ PeerAcknowledges(p) \/ PeerSends(p) \/ PeerCloses(p)

Next == Program \/ \E p \in Peers : Deliver(p) \/ Peer(p)

Spec == Init /\ [][Next]_vars

-----------------------------------------------------------------------------
Sockets == {sockets[i] : i \in DOMAIN sockets}

\* A connection that completed its handshake is handed to the program once, and
\* waits for it on one pending list at most once -- unless another handshake
\* completed between accept's back() and its pop_back().
Waiting(o) ==  \* <<listener, position>> of o on pending lists
  {w \in Object \X (1 .. MaxObjects) :
     /\ sock[w[1]] # Unused /\ w[2] \in DOMAIN sock[w[1]].pending
     /\ sock[w[1]].pending[w[2]] = o /\ deleted[w[1]] = 0
     /\ ~ (pc = "pop" /\ w[1] = server /\ w[2] = Len(sock[server].pending))}
AcceptedOnce ==
  ~ raced => \A o \in Object : sock[o] # Unused =>
    Cardinality(Waiting(o)) + sock[o].accepts
      + (IF pc = "pop" /\ client = o THEN 1 ELSE 0) <= 1

\* There is one socket per remote end, whatever is repeated or delayed, so a
\* segment finds the connection it is for.
OnePerPeer ==
  ~ raced => \A i, j \in DOMAIN sockets :
    sock[sockets[i]].peer = sock[sockets[j]].peer => i = j

\* The table, the pending list of a listening socket and the program hold no
\* pointer to a deleted socket -- unless a connection came in while
\* remove_socket was at work.
Held == {o \in Object :
           \/ o \in Sockets
           \/ \E l \in Sockets : sock[l].state = "LISTEN" /\ o \in Range(sock[l].pending)
           \/ /\ pc \in {"pop", "serve", "send", "advance", "close", "fin", "finseq", "finstate"}
              /\ o = client}
NoDangling == ~ raced /\ pc # "corrupt" => \A o \in Held : deleted[o] = 0

\* Neither end's state runs ahead of the other's: the program sees a peer as
\* connected only after that peer saw the SYN+ACK, and TIME_WAIT is reached only
\* if both ends sent their FIN.
EndsAgree ==
  \A o \in Object : sock[o] # Unused /\ sock[o].peer \in Peers =>
    /\ sock[o].state # "SYN_RECEIVED" => peer[sock[o].peer].st \in {"open", "done"}
    /\ sock[o].state = "TIME_WAIT" =>
         peer[sock[o].peer].st = "done" /\ \E x \in out[sock[o].peer] : x[1] = "fin"

\* The states follow the diagram of RFC 793 with one exception: close() stores
\* FIN_WAIT_1 some time after it sent FIN, over whatever the handler stored.
Diagram ==
  {<<"LISTEN", "CLOSED">>, <<"SYN_RECEIVED", "ESTABLISHED">>,
   <<"ESTABLISHED", "FIN_WAIT_1">>, <<"ESTABLISHED", "CLOSE_WAIT">>,
   <<"FIN_WAIT_1", "FIN_WAIT_2">>, <<"FIN_WAIT_1", "CLOSING">>,
   <<"FIN_WAIT_1", "TIME_WAIT">>, <<"FIN_WAIT_2", "TIME_WAIT">>}
FollowsDiagram ==
  [][\A o \in Object :
       sock[o] # Unused /\ sock[o].state # sock'[o].state =>
         \/ <<sock[o].state, sock'[o].state>> \in Diagram
         \/ pc = "finstate" /\ o = client /\ sock[o].state = "CLOSE_WAIT"]_vars

\* Over a network that loses and repeats nothing, the program reads what the
\* peer sent, in order and without gaps, unless rx_queue overflowed; and no byte
\* is acknowledged that the peer has not sent.
IsPrefixTo(q, n) == Len(q) <= n /\ \A i \in DOMAIN q : q[i] = i
StreamIntact ==
  ordered => \A o \in Sockets : sock[o].peer \in Peers =>
    LET p == peer[sock[o].peer]
    IN  /\ ~ sock[o].dropped => IsPrefixTo(sock[o].got \o sock[o].queue, p.sent)
        /\ sock[o].rseq <= 1 + p.sent + (IF p.st = "done" THEN 1 ELSE 0)
=============================================================================
