-------------------------- MODULE TcpSocketProofs ---------------------------
(***************************************************************************)
(* Proofs about TcpSocket: for any number of peers, sockets and payloads.  *)
(*                                                                         *)
(* Four invariants carry the theorems.  Shape is the type of the state,    *)
(* with what the program's locals are at each of its places.  Ends says    *)
(* what each end of a connection knows of the other.  Begins and Flows are *)
(* about a network that keeps the order: a connection begins with its SYN, *)
(* and what arrived and what is on its way are one stream.  Owned says     *)
(* which sockets the table, the pending list and the program hold; it is   *)
(* kept only while the handler stays out of the table that the program is  *)
(* changing (raced), as the code does nothing to keep it out.              *)
(***************************************************************************)
EXTENDS TcpSocket, FiniteSetTheorems, SequenceTheorems, WellFoundedInduction, TLAPS

\* What the variables range over.
States == {"LISTEN", "SYN_RECEIVED", "ESTABLISHED", "FIN_WAIT_1", "FIN_WAIT_2",
           "CLOSING", "TIME_WAIT", "CLOSE_WAIT", "CLOSED"}
Places == {"shell", "wait", "pop", "serve", "send", "advance", "orphans", "close", "fin",
           "finseq", "finstate", "find", "tail", "shrink", "destroy", "corrupt"}
Socket == [num : 0 .. MaxSockets - 1, state : States, peer : Peers \cup {None},
           sseq : Nat, rseq : Nat, queue : Seq(Nat), pending : Seq(Object),
           got : Seq(Nat), accepts : Nat, dropped : BOOLEAN]
Segment == [syn : BOOLEAN, fin : BOOLEAN, ack : Nat, data : Nat]
Remote  == [st : {"closed", "syn", "open", "done"}, seen : Nat, sent : Nat]
Sent    == {"synack", "data", "fin"} \X Nat
Used    == {o \in Object : sock[o] # Unused}

TypeOK ==
  /\ sock \in [Object -> Socket \cup {Unused}]
  /\ sockets \in Seq(Object)
  /\ deleted \in [Object -> Nat]
  /\ halted \in BOOLEAN /\ raced \in BOOLEAN /\ ordered \in BOOLEAN
  /\ pc \in Places /\ server \in Object \cup {None} /\ client \in Object \cup {None}
  /\ orphan \in Nat /\ index \in Nat /\ spare \in Object \cup {None}
  /\ peer \in [Peers -> Remote] /\ net \in [Peers -> Seq(Segment)]
  /\ out \in [Peers -> SUBSET Sent] /\ copies \in Nat

\* A socket is used for listening or for a connection; only the former has a
\* pending list, and what is on it completed its handshake.
Kinds ==
  /\ \A i \in DOMAIN sockets : sockets[i] \in Used
  /\ \A o \in Used :
       /\ sock[o].peer = None <=> sock[o].state \in {"LISTEN", "CLOSED"}
       /\ sock[o].peer # None => sock[o].pending = <<>>
       /\ \A i \in DOMAIN sock[o].pending : sock[o].pending[i] \in Used

\* A connection that the program may hold.
Connected(o) == o \in Used /\ sock[o].peer # None /\ sock[o].state # "SYN_RECEIVED"

\* Where the program is, and what its locals then are.
Serving   == {"wait", "pop", "serve", "send", "advance"}
Working   == {"pop", "serve", "send", "advance", "close", "fin", "finseq", "finstate"}
Finishing == {"fin", "finseq", "finstate"}
Removing  == {"find", "tail", "shrink", "destroy"}
Finned(p) == \E x \in out[p] : x[1] = "fin"
Locals ==
  /\ pc = "shell" <=> server = None
  /\ server # None =>
       /\ server \in Used /\ sock[server].peer = None
       /\ sock[server].state = "CLOSED" => orphan \in Nat \ {0}
       /\ pc \in Serving => sock[server].state = "LISTEN"
       /\ pc = "orphans" => sock[server].state = "CLOSED"
       /\ pc = "pop" => sock[server].pending # <<>>
  /\ pc \in Working => Connected(client)
  /\ pc \in Removing /\ client # server => Connected(client)
  /\ pc \in Removing /\ client = server => sock[server].state = "CLOSED"
  /\ pc \in Removing => client # None
  /\ pc \in Finishing => sock[client].state \in {"ESTABLISHED", "CLOSE_WAIT"}
  /\ pc \in {"finseq", "finstate"} => Finned(sock[client].peer)
  /\ pc = "tail" => index \in DOMAIN sockets
  /\ pc = "shrink" => sockets # <<>>
  /\ pc = "destroy" => index \in Nat \ {0} /\ spare \in Used

PendingConnected ==
  \A o \in Used : \A i \in DOMAIN sock[o].pending : Connected(sock[o].pending[i])

\* What the two ends know of each other.
Ends ==
  /\ \A o \in Used : sock[o].peer # None =>
       LET s == sock[o] IN
       /\ s.state = "SYN_RECEIVED" => s.sseq = Isn + 1
       /\ s.state # "SYN_RECEIVED" => peer[s.peer].st \in {"open", "done"}
       /\ s.state \in {"FIN_WAIT_1", "FIN_WAIT_2", "CLOSING", "TIME_WAIT"} => Finned(s.peer)
       /\ s.state = "TIME_WAIT" => peer[s.peer].st = "done"
  /\ \A p \in Peers : \A i \in DOMAIN net[p] :
       /\ net[p][i].ack # 0 => peer[p].st \in {"open", "done"}
       /\ net[p][i].fin => peer[p].st = "done"

\* While nothing is overtaken or repeated: a peer's first segment finds nothing
\* of it, and it is its only connection request.
Unknown(p) == \A o \in Used : sock[o].peer # p
Fins(n) == {i \in DOMAIN n : n[i].fin /\ n[i].data = 0}
Begins ==
  ordered =>
    /\ \A o, q \in Used : sock[o].peer # None /\ sock[o].peer = sock[q].peer => o = q
    /\ \A p \in Peers :
         /\ peer[p].st = "closed" => net[p] = <<>> /\ out[p] = {} /\ Unknown(p)
         /\ peer[p].st \in {"closed", "syn"} => peer[p].sent = 0
         /\ \A i \in DOMAIN net[p] : net[p][i].syn =>
              /\ peer[p].st = "syn" /\ Len(net[p]) = 1 /\ out[p] = {} /\ Unknown(p)
              /\ net[p][i].data = 0 /\ ~ net[p][i].fin
         /\ \A i, j \in Fins(net[p]) : i = j

\* Of the payloads that the remote end r sent, the first k arrived at its socket
\* s and the others are in its network n, in order.
Under(n, k, m) ==
  /\ \A i \in DOMAIN n : n[i].data # 0 => n[i].data \in k + 1 .. m
  /\ \A i, j \in DOMAIN n : i < j /\ n[i].data # 0 /\ n[j].data # 0 => n[i].data < n[j].data
  /\ \A d \in k + 1 .. m : \E i \in DOMAIN n : n[i].data = d
Finished(n, r) == IF r.st = "done" /\ Fins(n) = {} THEN 1 ELSE 0
Arrived(s, n, r, k) ==
  /\ ~ s.dropped => /\ Len(s.got \o s.queue) = k
                    /\ \A i \in DOMAIN (s.got \o s.queue) : (s.got \o s.queue)[i] = i
  /\ s.rseq <= 1 + k + Finished(n, r)
  /\ Under(n, k, r.sent)
Flows ==
  ordered => \A o \in Sockets : sock[o].peer # None =>
    \E k \in 0 .. peer[sock[o].peer].sent :
      Arrived(sock[o], net[sock[o].peer], peer[sock[o].peer], k)

\* Who owns which socket, as long as the handler kept out of the table while
\* the program was changing it.  The sockets in the table differ in all by which
\* they are looked up, ...
TableDistinct ==
  \A i, j \in DOMAIN sockets :
    \/ i = j
    \/ /\ sock[sockets[i]].peer # sock[sockets[j]].peer
       /\ sock[sockets[i]].num # sock[sockets[j]].num
       /\ sockets[i] # sockets[j]

\* ... what is on the pending list was not accepted yet, ...
TakenOnce ==
  /\ \A o \in Used : /\ sock[o].accepts \in {0, 1}
                     /\ sock[o].accepts = 1 => sock[o].state # "SYN_RECEIVED"
  /\ server # None =>
       /\ \A i, j \in DOMAIN sock[server].pending :
            sock[server].pending[i] = sock[server].pending[j] => i = j
       /\ \A i \in DOMAIN sock[server].pending : sock[sock[server].pending[i]].accepts = 0

\* ... the program knows the only socket that may listen, ...
Buried ==
  /\ \A o \in Sockets : sock[o].peer = None => o = server
  /\ \A o \in Object : o \notin Used => deleted[o] = 0
  /\ \A o \in Used : sock[o].peer = None => o = server \/ deleted[o] > 0

\* ... and what it is at work on is in the table, until remove_socket took it
\* out.
AtPlace ==
  /\ pc # "corrupt" => \A o \in Sockets : deleted[o] = 0
  /\ pc \notin {"corrupt", "shell"} /\ (pc = "destroy" => client # server) =>
       server \in Sockets
  /\ pc \in Working \cup {"find", "tail", "shrink"} => client \in Sockets
  /\ pc \in {"tail", "shrink"} => index \in DOMAIN sockets /\ sockets[index] = client
  /\ pc = "shrink" => index = Len(sockets)
  /\ pc = "destroy" => spare = client /\ index = Len(sockets) + 1 /\ client \notin Sockets
  /\ pc \in {"serve", "send", "advance"} => sock[client].accepts = 1
  /\ pc \in Working \cup Removing /\ pc # "pop" /\ sock[server].state = "LISTEN" =>
       sock[client].accepts = 1
  /\ pc = "pop" => client = Last(sock[server].pending)
  /\ pc # "corrupt" /\ server # None => \A i \in DOMAIN sock[server].pending :
       sock[server].state = "LISTEN" \/ i >= orphan => sock[server].pending[i] \in Sockets
  /\ pc \in Working \cup Removing /\ sock[server].state = "CLOSED" =>
       \A i \in DOMAIN sock[server].pending : i >= orphan => sock[server].pending[i] # client
Owned == ~ raced => TableDistinct /\ TakenOnce /\ Buried /\ AtPlace

Shape == TypeOK /\ Kinds /\ PendingConnected /\ Locals
-----------------------------------------------------------------------------
(* Operators of the model.                                                 *)

\* Every non-empty set of naturals has a least element.
LEMMA Least ==
  ASSUME NEW T \in SUBSET Nat, T # {}
  PROVE  \E m \in T : \A k \in T : m <= k
  <1> DEFINE Order == StrictSubsetOrdering(Nat)
             Below == {0 .. x : x \in T}
  <1>1. IsWellFoundedOn(Order, FiniteSubsetsOf(Nat)) BY FS_StrictSubsetOrderingWellFounded
  <1>2. Below \subseteq FiniteSubsetsOf(Nat)
    <2>1. \A x \in T : IsFiniteSet(0 .. x) BY FS_Interval
    <2> QED BY <2>1 DEF FiniteSubsetsOf
  <1>3. Below # {} OBVIOUS
  <1> HIDE DEF Below, Order
  <1>4. PICK b \in Below : \A c \in Below : ~ (<<c, b>> \in Order) BY <1>1, <1>2, <1>3, WFMin
  <1>5. PICK m \in T : b = 0 .. m BY DEF Below
  <1>6. \A k \in T : m <= k
    <2> SUFFICES ASSUME NEW k \in T, k < m PROVE FALSE OBVIOUS
    <2>1. 0 .. k \in Below BY DEF Below
    <2>2. <<0 .. k, 0 .. m>> \in Order BY DEF Order, StrictSubsetOrdering
    <2> QED BY <2>1, <2>2, <1>4, <1>5
  <1> QED BY <1>6

\* Objects are numbers, and None is none of them and no peer.
LEMMA ObjectFacts ==
  Object \subseteq Nat /\ None \notin Object /\ None \notin Peers /\ Isn = 1000
  BY TcpAssumption DEF Object, None, Isn

\* An object is in use exactly if it has a state, and then it is a socket.
LEMMA UsedFacts ==
  ASSUME TypeOK
  PROVE  /\ Used \subseteq Object
         /\ \A o \in Object : o \in Used <=> sock[o] \in Socket
         /\ \A o \in Object : o \notin Used <=> sock[o] = Unused
         /\ Unused \notin Socket
  <1>1. Unused \notin Socket
    <2>1. \A s \in Socket : s.state \in States BY DEF Socket
    <2>2. Unused.state = "none" BY DEF Unused
    <2> QED BY <2>1, <2>2 DEF States
  <1> QED BY <1>1 DEF TypeOK, Used

\* find_socket_connection and find_socket_listner return an element of the
\* table, or null if there is none.
LEMMA FirstFacts ==
  ASSUME TypeOK, NEW I \in SUBSET DOMAIN sockets
  PROVE  /\ I = {} => FirstOf(I) = None
         /\ I # {} => \E i \in I : FirstOf(I) = sockets[i]
  <1>1. I \subseteq Nat BY DEF TypeOK
  <1>2. CASE I # {}
    <2>1. \E i \in I : \A j \in I : i <= j BY <1>1, <1>2, Least
    <2> QED BY <1>2, <2>1 DEF FirstOf
  <1> QED BY <1>2 DEF FirstOf

LEMMA ConnectionFacts ==
  ASSUME TypeOK, Kinds, NEW p \in Peers
  PROVE  /\ Connection(p) \in Object \cup {None}
         /\ Connection(p) # None =>
              /\ Connection(p) \in Used /\ Connection(p) \in Sockets
              /\ sock[Connection(p)].peer = p
         /\ Connection(p) = None => \A o \in Sockets : sock[o].peer # p
  <1> DEFINE I == {i \in DOMAIN sockets : sock[sockets[i]].peer = p}
  <1>1. Connection(p) = FirstOf(I) BY DEF Connection
  <1>2. \A i \in DOMAIN sockets : sockets[i] \in Object /\ sockets[i] \in Used
    BY DEF Kinds, TypeOK
  <1>3. I = {} => FirstOf(I) = None BY FirstFacts
  <1>4. I # {} => \E i \in I : FirstOf(I) = sockets[i] BY FirstFacts
  <1>5. CASE I = {} BY <1>1, <1>3, <1>5, ObjectFacts DEF Sockets
  <1>6. CASE I # {}
    <2>1. PICK i \in I : FirstOf(I) = sockets[i] BY <1>4, <1>6
    <2> QED BY <1>1, <1>2, <2>1, ObjectFacts DEF Sockets
  <1> QED BY <1>5, <1>6

LEMMA ListenerFacts ==
  ASSUME TypeOK, Kinds
  PROVE  /\ Listener \in Object \cup {None}
         /\ Listener # None =>
              /\ Listener \in Used /\ Listener \in Sockets
              /\ sock[Listener].state = "LISTEN" /\ sock[Listener].peer = None
         /\ Listener = None => \A o \in Sockets : sock[o].state # "LISTEN"
  <1> DEFINE I == {i \in DOMAIN sockets : sock[sockets[i]].state = "LISTEN"}
  <1>1. Listener = FirstOf(I) BY DEF Listener
  <1>2. \A i \in DOMAIN sockets : sockets[i] \in Object /\ sockets[i] \in Used
    BY DEF Kinds, TypeOK
  <1>3. I = {} => FirstOf(I) = None BY FirstFacts
  <1>4. I # {} => \E i \in I : FirstOf(I) = sockets[i] BY FirstFacts
  <1>5. CASE I = {} BY <1>1, <1>3, <1>5, ObjectFacts DEF Sockets
  <1>6. CASE I # {}
    <2>1. PICK i \in I : FirstOf(I) = sockets[i] BY <1>4, <1>6
    <2>2. sock[sockets[i]].peer = None BY <1>2, <2>1 DEF Kinds
    <2> QED BY <1>1, <1>2, <2>1, <2>2, ObjectFacts DEF Sockets
  <1> QED BY <1>5, <1>6

\* A new socket lies where none was, and its number is not taken.
LEMMA FreshFacts ==
  ASSUME Spares # {}
  PROVE  Fresh \in Object /\ sock[Fresh] = Unused
  <1>1. Spares \in SUBSET Nat BY ObjectFacts DEF Spares
  <1>2. \E o \in Spares : \A q \in Spares : o <= q BY <1>1, Least
  <1>3. Fresh \in Spares BY <1>2 DEF Fresh
  <1> QED BY <1>3 DEF Spares

LEMMA NumberFacts ==
  ASSUME Numbers # {}
  PROVE  /\ Number \in 0 .. MaxSockets - 1
         /\ \A i \in DOMAIN sockets : sock[sockets[i]].num # Number
  <1>1. Numbers \in SUBSET Nat BY TcpAssumption DEF Numbers
  <1>2. \E n \in Numbers : \A m \in Numbers : n <= m BY <1>1, Least
  <1>3. Number \in Numbers BY <1>2 DEF Number
  <1> QED BY <1>3 DEF Numbers

LEMMA NewSocketFacts ==
  ASSUME Numbers # {}, NEW st \in States, NEW p \in Peers \cup {None},
         NEW a \in Nat, NEW b \in Nat, NEW s, s = NewSocket(st, p, a, b)
  PROVE  /\ s \in Socket /\ s.num = Number /\ s.state = st /\ s.peer = p
         /\ s.sseq = a /\ s.rseq = b /\ s.queue = <<>> /\ s.pending = <<>>
         /\ s.got = <<>> /\ s.accepts = 0
  <1>1. Number \in 0 .. MaxSockets - 1 BY NumberFacts
  <1>2. <<>> \in Seq(Nat) /\ <<>> \in Seq(Object) OBVIOUS
  <1> QED BY <1>1, <1>2 DEF NewSocket, Socket

\* What is left of a sequence when an element is taken out.
LEMMA RemoveAtFacts ==
  ASSUME NEW S, NEW s \in Seq(S), NEW i \in DOMAIN s
  PROVE  /\ RemoveAt(s, i) \in Seq(S) /\ Len(RemoveAt(s, i)) = Len(s) - 1
         /\ \A j \in 1 .. Len(s) - 1 : RemoveAt(s, i)[j] = IF j < i THEN s[j] ELSE s[j + 1]
  <1>1. Len(s) \in Nat /\ i \in 1 .. Len(s) /\ DOMAIN s = 1 .. Len(s) OBVIOUS
  <1> DEFINE a == SubSeq(s, 1, i - 1)
             b == SubSeq(s, i + 1, Len(s))
  <1>2. a \in Seq(S) /\ Len(a) = i - 1 /\ \A j \in 1 .. i - 1 : a[j] = s[j]
    <2>1. \A j \in 1 .. i - 1 : s[j] \in S BY <1>1
    <2> QED BY <1>1, <2>1
  <1>3. b \in Seq(S) /\ Len(b) = Len(s) - i /\ \A j \in 1 .. Len(s) - i : b[j] = s[i + j]
    <2>1. \A j \in i + 1 .. Len(s) : s[j] \in S BY <1>1
    <2> QED BY <1>1, <2>1
  <1>4. RemoveAt(s, i) = a \o b BY DEF RemoveAt
  <1> HIDE DEF a, b
  <1>5. a \o b \in Seq(S) /\ Len(a \o b) = Len(s) - 1
    <2>1. a \o b \in Seq(S) /\ Len(a \o b) = Len(a) + Len(b) BY <1>2, <1>3, ConcatProperties
    <2> QED BY <2>1, <1>1, <1>2, <1>3
  <1>6. \A j \in 1 .. Len(s) - 1 : (a \o b)[j] = IF j < i THEN s[j] ELSE s[j + 1]
    <2> SUFFICES ASSUME NEW j \in 1 .. Len(s) - 1
                 PROVE  (a \o b)[j] = IF j < i THEN s[j] ELSE s[j + 1]
      OBVIOUS
    <2>1. CASE j < i BY <1>1, <1>2, <1>3, <2>1
    <2>2. CASE ~ (j < i)
      <3>1. (a \o b)[j] = b[j - (i - 1)] BY <1>1, <1>2, <1>3, <2>2
      <3>2. j - (i - 1) \in 1 .. Len(s) - i BY <1>1, <2>2
      <3>3. b[j - (i - 1)] = s[i + (j - (i - 1))] BY <1>3, <3>2
      <3> QED BY <3>1, <3>3, <2>2, <1>1
    <2> QED BY <2>1, <2>2
  <1> QED BY <1>4, <1>5, <1>6

\* What the handler does to a socket.
LEMMA HandledFacts ==
  ASSUME NEW s \in Socket, NEW g \in Segment
  PROVE  LET h == Handled(s, g)
         IN  /\ h \in Socket
             /\ h.num = s.num /\ h.peer = s.peer /\ h.pending = s.pending
             /\ h.got = s.got /\ h.accepts = s.accepts
             /\ h.state # s.state => <<s.state, h.state>> \in Diagram
             /\ s.state = "SYN_RECEIVED" /\ h.state # s.state =>
                  h.state = "ESTABLISHED" /\ g.ack = s.sseq
             /\ h.sseq = s.sseq \/ h.sseq = Isn + 1
             /\ h.state = "TIME_WAIT" => s.state = "TIME_WAIT" \/ g.fin
             /\ s.state # "SYN_RECEIVED" => h.sseq = s.sseq
             /\ h.state = "FIN_WAIT_1" => s.state = "FIN_WAIT_1"
  <1>1. s.state \in States /\ s.sseq \in Nat /\ s.rseq \in Nat /\ s.queue \in Seq(Nat)
        /\ s.dropped \in BOOLEAN
    BY DEF Socket
  <1>2. g.syn \in BOOLEAN /\ g.fin \in BOOLEAN /\ g.ack \in Nat /\ g.data \in Nat
    BY DEF Segment
  <1>3. CASE g.data # 0
    <2>1. Handled(s, g) = Payload(s, g) BY <1>3 DEF Handled
    <2>2. Append(s.queue, g.data) \in Seq(Nat) BY <1>1, <1>2
    <2>3. (s.dropped \/ Len(s.queue) >= QueueLen) \in BOOLEAN BY <1>1
    <2> DEFINE q == IF Len(s.queue) < QueueLen THEN Append(s.queue, g.data) ELSE s.queue
               d == s.dropped \/ Len(s.queue) >= QueueLen
    <2>6. Payload(s, g) = [s EXCEPT !.rseq = s.rseq + 1, !.queue = q, !.dropped = d]
      BY DEF Payload
    <2>7. q \in Seq(Nat) /\ d \in BOOLEAN /\ s.rseq + 1 \in Nat BY <1>1, <2>2, <2>3
    <2> HIDE DEF q, d
    <2>4. Payload(s, g) \in Socket BY <2>6, <2>7 DEF Socket
    <2>5. /\ Payload(s, g).num = s.num /\ Payload(s, g).peer = s.peer
          /\ Payload(s, g).pending = s.pending /\ Payload(s, g).got = s.got
          /\ Payload(s, g).accepts = s.accepts /\ Payload(s, g).state = s.state
          /\ Payload(s, g).sseq = s.sseq
      BY DEF Payload, Socket
    <2> QED BY <2>1, <2>4, <2>5
  <1>4. CASE g.data = 0 /\ g.syn
    <2>1. Handled(s, g) = IF s.state = "SYN_RECEIVED"
                          THEN [s EXCEPT !.rseq = 1, !.sseq = Isn + 1] ELSE s
      BY <1>4 DEF Handled, Control
    <2>2. CASE s.state = "SYN_RECEIVED"
      <3>1. Handled(s, g) = [s EXCEPT !.rseq = 1, !.sseq = Isn + 1] BY <2>1, <2>2
      <3>2. Isn + 1 \in Nat BY ObjectFacts
      <3>3. [s EXCEPT !.rseq = 1, !.sseq = Isn + 1] \in Socket BY <3>2 DEF Socket
      <3> HIDE DEF Socket
      <3>4. /\ Handled(s, g).num = s.num /\ Handled(s, g).peer = s.peer
            /\ Handled(s, g).pending = s.pending /\ Handled(s, g).got = s.got
            /\ Handled(s, g).accepts = s.accepts /\ Handled(s, g).state = s.state
            /\ Handled(s, g).sseq = Isn + 1
        BY <3>1 DEF Socket
      <3> QED BY <3>1, <3>3, <3>4, <2>2
    <2>3. CASE s.state # "SYN_RECEIVED"
      <3>1. Handled(s, g) = s BY <2>1, <2>3
      <3> QED BY <3>1, <2>3
    <2> QED BY <2>2, <2>3
  <1>5. CASE g.data = 0 /\ ~ g.syn
    <2> DEFINE m == IF g.fin THEN AfterFin(s, g) ELSE s.state
               n == AfterAck(m, s, g)
               r == IF g.fin THEN s.rseq + 1 ELSE s.rseq
    <2>1. Handled(s, g) = [s EXCEPT !.rseq = r, !.state = n]
      BY <1>5 DEF Handled, Control
    <2>2. m = s.state \/ (g.fin /\ <<s.state, m>> \in
            {<<"FIN_WAIT_2", "TIME_WAIT">>, <<"FIN_WAIT_1", "TIME_WAIT">>,
             <<"FIN_WAIT_1", "CLOSING">>, <<"ESTABLISHED", "CLOSE_WAIT">>})
      BY <1>1 DEF AfterFin
    <2>3. n = m \/ (m = "FIN_WAIT_1" /\ n = "FIN_WAIT_2")
          \/ (m = "SYN_RECEIVED" /\ n = "ESTABLISHED" /\ g.ack = s.sseq)
      BY DEF AfterAck
    <2>4. n \in States /\ r \in Nat BY <1>1, <2>2, <2>3 DEF States
    <2> HIDE DEF m, n, r
    <2>5. n # s.state => <<s.state, n>> \in Diagram BY <2>2, <2>3 DEF Diagram
    <2>6. s.state = "SYN_RECEIVED" /\ n # s.state => n = "ESTABLISHED" /\ g.ack = s.sseq
      BY <2>2, <2>3
    <2>7. n = "TIME_WAIT" => s.state = "TIME_WAIT" \/ g.fin BY <2>2, <2>3
    <2>9. n = "FIN_WAIT_1" => s.state = "FIN_WAIT_1" BY <2>2, <2>3
    <2>8. [s EXCEPT !.rseq = r, !.state = n] \in Socket BY <2>4 DEF Socket
    <2> QED BY <2>1, <2>5, <2>6, <2>7, <2>8, <2>9 DEF Socket
  <1> QED BY <1>2, <1>3, <1>4, <1>5

-----------------------------------------------------------------------------
(* The shape of the state.                                                 *)

\* A step that leaves the objects alone and adds nothing to the table.
LEMMA SocksSame ==
  ASSUME Shape, sock' = sock, \A i \in DOMAIN sockets' : sockets'[i] \in Sockets
  PROVE  /\ Kinds' /\ PendingConnected' /\ Used' = Used
         /\ \A q : Connected(q) => Connected(q)'
  <1>1. Used' = Used BY DEF Used
  <1>2. \A q : Connected(q)' <=> Connected(q) BY <1>1 DEF Connected
  <1>3. \A i \in DOMAIN sockets' : sockets'[i] \in Used BY DEF Sockets, Shape, Kinds
  <1>4. Kinds' BY <1>1, <1>3 DEF Shape, Kinds
  <1>5. PendingConnected'
    <2> SUFFICES ASSUME NEW o \in Used', NEW i \in DOMAIN sock'[o].pending
                 PROVE  Connected(sock[o].pending[i])
      BY <1>1 DEF PendingConnected, Connected
    <2> QED BY <1>1 DEF Shape, PendingConnected
  <1> QED BY <1>1, <1>2, <1>4, <1>5

\* A step that changes one object, but not what it is for.
LEMMA OneChanged ==
  ASSUME Shape, sockets' = sockets, NEW o \in Used, NEW r \in Socket,
         sock' = [sock EXCEPT ![o] = r],
         r.peer = sock[o].peer, r.peer = None <=> r.state \in {"LISTEN", "CLOSED"},
         r.state = "SYN_RECEIVED" => sock[o].state = "SYN_RECEIVED",
         \A i \in DOMAIN r.pending : \E j \in DOMAIN sock[o].pending :
           r.pending[i] = sock[o].pending[j]
  PROVE  /\ Kinds' /\ PendingConnected' /\ Used' = Used
         /\ sock' \in [Object -> Socket \cup {Unused}]
         /\ \A q : Connected(q) => Connected(q)'
         /\ \A q \in Used : q # o => sock'[q] = sock[q]
         /\ sock'[o] = r
  <1> USE DEF Shape
  <1>1. o \in Object /\ sock \in [Object -> Socket \cup {Unused}] BY UsedFacts DEF TypeOK
  <1>2. sock' \in [Object -> Socket \cup {Unused}] /\ sock'[o] = r
        /\ \A q \in Object : q # o => sock'[q] = sock[q]
    BY <1>1
  <1>3. Used' = Used
    <2>1. r # Unused BY UsedFacts
    <2> QED BY <1>1, <1>2, <2>1 DEF Used
  <1>4. \A q : Connected(q) => Connected(q)'
    BY <1>2, <1>3, UsedFacts DEF Connected
  <1>5. \A q \in Used : /\ sock'[q].peer = sock[q].peer
                        /\ sock'[q].peer = None <=> sock'[q].state \in {"LISTEN", "CLOSED"}
    BY <1>1, <1>2, UsedFacts DEF Kinds
  <1>6. \A q \in Used : \A i \in DOMAIN sock'[q].pending : \E j \in DOMAIN sock[q].pending :
          sock'[q].pending[i] = sock[q].pending[j]
    BY <1>1, <1>2, UsedFacts
  <1>7. \A q \in Used : sock'[q].peer # None => sock'[q].pending = <<>>
    <2>1. r.peer # None => r.pending = <<>>
      <3>1. SUFFICES ASSUME r.peer # None PROVE r.pending = <<>> OBVIOUS
      <3>2. sock[o].pending = <<>> BY <3>1 DEF Kinds
      <3>3. DOMAIN r.pending = {} BY <3>2
      <3>4. r.pending \in Seq(Object) BY DEF Socket
      <3>5. r.pending # <<>> => Len(r.pending) \in Nat \ {0} BY <3>4, EmptySeq
      <3>6. r.pending # <<>> => 1 \in DOMAIN r.pending BY <3>4, <3>5
      <3> QED BY <3>3, <3>6
    <2> QED BY <1>2, <2>1, UsedFacts DEF Kinds
  <1>8. Kinds'
    <2>1. \A q \in Used : \A i \in DOMAIN sock'[q].pending : sock'[q].pending[i] \in Used
      BY <1>6 DEF Kinds
    <2>2. \A i \in DOMAIN sockets' : sockets'[i] \in Used BY DEF Kinds
    <2> QED BY <1>3, <1>5, <1>7, <2>1, <2>2 DEF Kinds
  <1>9. PendingConnected'
    <2> SUFFICES ASSUME NEW q \in Used, NEW i \in DOMAIN sock'[q].pending
                 PROVE  Connected(sock[q].pending[i])'
      BY <1>3 DEF PendingConnected, Connected
    <2>1. PICK j \in DOMAIN sock[q].pending : sock'[q].pending[i] = sock[q].pending[j] BY <1>6
    <2>2. Connected(sock[q].pending[j]) BY DEF PendingConnected
    <2>3. PICK w : w = sock[q].pending[j] OBVIOUS
    <2>4. Connected(w)' BY <1>4, <2>2, <2>3
    <2> QED BY <2>1, <2>3, <2>4 DEF Connected
  <1> QED BY <1>2, <1>3, <1>4, <1>8, <1>9, UsedFacts

\* The return of close().
LEMMA ReturnLocals ==
  ASSUME Shape, Return, pc \in {"close", "finstate"} \cup Removing,
         Used \subseteq Used', UNCHANGED raced,
         sock'[server].peer = sock[server].peer, sock'[server].state = sock[server].state,
         sock'[server].pending = sock[server].pending
  PROVE  Locals' /\ server' \in Object \cup {None} /\ client' = None /\ pc' \in Places
         /\ orphan' \in Nat /\ index' = 0 /\ spare' = None
  <1> USE DEF Shape
  <1>1. server # None /\ server \in Used /\ sock[server].peer = None BY DEF Locals, Removing
  <1>2. sock[server].state \in {"LISTEN", "CLOSED"} BY <1>1 DEF Kinds
  <1>3. pc' \in {"shell", "wait", "orphans"} BY DEF Return, Back
  <1>4. pc' = "shell" <=> server' = None BY <1>1 DEF Return, Back
  <1>5. server' # None => server' = server /\ orphan' = orphan /\ pc' \in {"wait", "orphans"}
        /\ (pc' = "wait" <=> sock[server].state = "LISTEN")
    BY DEF Return, Back
  <1>6. server' # None =>
       /\ server' \in Used' /\ sock'[server'].peer = None
       /\ sock'[server'].state = "CLOSED" => orphan' \in Nat \ {0}
       /\ pc' \in Serving => sock'[server'].state = "LISTEN"
       /\ pc' = "orphans" => sock'[server'].state = "CLOSED"
       /\ pc' = "pop" => sock'[server'].pending # <<>>
    BY <1>1, <1>2, <1>5 DEF Serving, Locals
  <1>7. Locals' BY <1>3, <1>4, <1>6 DEF Locals, Working, Removing, Finishing
  <1>8. server' \in Object \cup {None} /\ orphan' \in Nat BY DEF Return, TypeOK
  <1> QED BY <1>3, <1>7, <1>8 DEF Return, Places

\* A new socket at the end of the table.
LEMMA OneMore ==
  ASSUME Shape, Spares # {}, Numbers # {}, NEW s \in Socket,
         sock' = [sock EXCEPT ![Fresh] = s], sockets' = Append(sockets, Fresh),
         s.peer = None <=> s.state \in {"LISTEN", "CLOSED"}, s.pending = <<>>
  PROVE  /\ Kinds' /\ PendingConnected' /\ Used' = Used \cup {Fresh} /\ Fresh \notin Used
         /\ Fresh \in Object /\ sock'[Fresh] = s
         /\ sock' \in [Object -> Socket \cup {Unused}] /\ sockets' \in Seq(Object)
         /\ \A q : Connected(q) => Connected(q)'
         /\ \A q \in Used : sock'[q] = sock[q]
  <1> USE DEF Shape
  <1>1. Fresh \in Object /\ Fresh \notin Used BY FreshFacts DEF Used
  <1>2. PICK f : f = Fresh OBVIOUS
  <1>3. sock \in [Object -> Socket \cup {Unused}] /\ sockets \in Seq(Object) BY DEF TypeOK
  <1>4. sock' \in [Object -> Socket \cup {Unused}] /\ sock'[f] = s
        /\ \A q \in Object : q # f => sock'[q] = sock[q]
    BY <1>1, <1>2, <1>3
  <1>5. sockets' \in Seq(Object) /\ \A i \in DOMAIN sockets' :
          sockets'[i] = f \/ (i \in DOMAIN sockets /\ sockets'[i] = sockets[i])
    BY <1>1, <1>2, <1>3
  <1>6. Used' = Used \cup {f}
    <2>1. s # Unused BY UsedFacts
    <2> QED BY <1>1, <1>2, <1>4, <2>1 DEF Used
  <1>7. \A q \in Used : sock'[q] = sock[q] BY <1>1, <1>2, <1>4, UsedFacts
  <1>8. \A q : Connected(q) => Connected(q)' BY <1>6, <1>7 DEF Connected
  <1>9. Kinds'
    <2>1. \A i \in DOMAIN sockets' : sockets'[i] \in Used' BY <1>5, <1>6 DEF Kinds
    <2>2. \A q \in Used' :
            /\ sock'[q].peer = None <=> sock'[q].state \in {"LISTEN", "CLOSED"}
            /\ sock'[q].peer # None => sock'[q].pending = <<>>
            /\ \A i \in DOMAIN sock'[q].pending : sock'[q].pending[i] \in Used'
      BY <1>4, <1>6, <1>7 DEF Kinds
    <2> QED BY <2>1, <2>2 DEF Kinds
  <1>10. PendingConnected'
    <2> SUFFICES ASSUME NEW q \in Used', NEW i \in DOMAIN sock'[q].pending
                 PROVE  Connected(sock[q].pending[i])'
      BY DEF PendingConnected
    <2>1. q \in Used BY <1>4, <1>6
    <2>2. PICK w : w = sock[q].pending[i] OBVIOUS
    <2>3. Connected(w) BY <2>1, <2>2, <1>7 DEF PendingConnected
    <2>4. Connected(w)' BY <1>8, <2>3
    <2> QED BY <2>1, <2>2, <2>4, <1>7 DEF Connected
  <1> QED BY <1>1, <1>2, <1>4, <1>5, <1>6, <1>7, <1>8, <1>9, <1>10

\* The steps of the program, one by one.
LEMMA ServeShape == ASSUME Shape, Serve PROVE Shape'
  <1> USE DEF Shape
  <1>1. CASE Numbers = {}
    <2>1. UNCHANGED <<sock, sockets, pc, server, deleted, client, orphan, index, spare, remote,
                      out, raced>> /\ halted' = TRUE
      BY <1>1 DEF Serve
    <2> QED BY <2>1 DEF TypeOK, Kinds, PendingConnected, Locals, Used, Connected, remote, Finned
  <1>2. CASE Numbers # {}
    <2> DEFINE s == NewSocket("LISTEN", None, 0, 0)
    <2>1. /\ Spares # {} /\ sock' = [sock EXCEPT ![Fresh] = s] /\ sockets' = Append(sockets, Fresh)
          /\ server' = Fresh /\ pc' = "wait"
          /\ UNCHANGED <<halted, deleted, client, orphan, index, spare, remote, out, raced>>
      BY <1>2 DEF Serve
    <2>2. s \in Socket /\ s.state = "LISTEN" /\ s.peer = None /\ s.pending = <<>>
      <3>1. "LISTEN" \in States /\ None \in Peers \cup {None} /\ 0 \in Nat BY DEF States
      <3>2. PICK n : n = s OBVIOUS
      <3>3. n = NewSocket("LISTEN", None, 0, 0) BY <3>2
      <3>4. n \in Socket /\ n.state = "LISTEN" /\ n.peer = None /\ n.pending = <<>>
        BY <1>2, <3>1, <3>3, NewSocketFacts
      <3> QED BY <3>2, <3>4
    <2> HIDE DEF s
    <2>3. /\ Kinds' /\ PendingConnected' /\ Used' = Used \cup {Fresh} /\ Fresh \in Object
          /\ sock'[Fresh] = s /\ sock' \in [Object -> Socket \cup {Unused}]
          /\ sockets' \in Seq(Object)
      BY <1>2, <2>1, <2>2, OneMore
    <2>4. TypeOK' BY <2>1, <2>3 DEF TypeOK, remote, Places
    <2>5. Locals'
      <3>1. server' # None BY <2>1, <2>3, ObjectFacts
      <3> QED BY <2>1, <2>2, <2>3, <3>1
           DEF Locals, Serving, Working, Removing, Finishing
    <2> QED BY <2>3, <2>4, <2>5
  <1> QED BY <1>1, <1>2

LEMMA AcceptBackShape == ASSUME Shape, AcceptBack PROVE Shape'
  <1> USE DEF Shape
  <1>1. /\ pc = "wait" /\ sock[server].pending # <<>> /\ client' = Last(sock[server].pending)
        /\ pc' = "pop"
        /\ UNCHANGED <<sock, sockets, deleted, halted, server, orphan, index, spare, remote, out,
                       raced>>
    BY DEF AcceptBack, At, table
  <1>2. Kinds' /\ PendingConnected' /\ Used' = Used /\ \A q : Connected(q) => Connected(q)'
    BY <1>1, SocksSame DEF Sockets
  <1>3. server \in Used /\ server # None BY <1>1 DEF Locals
  <1>4. Len(sock[server].pending) \in DOMAIN sock[server].pending
        /\ sock[server].pending \in Seq(Object)
    <2>1. sock[server].pending \in Seq(Object) BY <1>3, UsedFacts DEF Socket
    <2>2. Len(sock[server].pending) \in Nat \ {0} BY <1>1, <2>1, EmptySeq
    <2> QED BY <2>1, <2>2
  <1>5. client' \in Object BY <1>1, <1>4 DEF Last
  <1>6. Connected(client)'
    <2>1. PICK w : w = client' OBVIOUS
    <2>2. Connected(w) BY <1>1, <1>3, <1>4, <2>1 DEF PendingConnected, Last
    <2> QED BY <1>2, <2>1, <2>2 DEF Connected
  <1>7. TypeOK' BY <1>1, <1>5 DEF TypeOK, remote, Places
  <1>8. Locals'
    BY <1>1, <1>2, <1>3, <1>6 DEF Locals, Serving, Working, Removing, Finishing, Connected
  <1> QED BY <1>2, <1>7, <1>8

LEMMA AcceptPopShape == ASSUME Shape, AcceptPop PROVE Shape'
  <1> USE DEF Shape
  <1> DEFINE S == [sock EXCEPT ![server].pending = Front(@), ![client].accepts = @ + 1]
  <1>1. /\ pc = "pop" /\ sock' = S /\ pc' = "serve"
        /\ UNCHANGED <<sockets, deleted, halted, server, client, orphan, index, spare, remote,
                       out, raced>>
    BY DEF AcceptPop, At
  <1>2. server \in Used /\ server # None /\ sock[server].peer = None /\ Connected(client)
        /\ server \in Object /\ client \in Object /\ client # server
        /\ sock[server].pending # <<>>
    BY <1>1, UsedFacts DEF Locals, Connected, Working
  <1>3. sock[server] \in Socket /\ sock[client] \in Socket BY <1>2, UsedFacts DEF Connected
  <1> DEFINE r == [sock[server] EXCEPT !.pending = Front(@)]
             t == [sock[client] EXCEPT !.accepts = @ + 1]
  <1>4. /\ sock[server].pending \in Seq(Object) /\ Front(sock[server].pending) \in Seq(Object)
        /\ \A i \in DOMAIN Front(sock[server].pending) :
             i \in DOMAIN sock[server].pending
             /\ Front(sock[server].pending)[i] = sock[server].pending[i]
    <2>1. sock[server].pending \in Seq(Object) BY <1>3 DEF Socket
    <2>2. Len(sock[server].pending) \in Nat \ {0} BY <1>2, <2>1, EmptySeq
    <2> QED BY <2>1, <2>2 DEF Front
  <1>5. r \in Socket /\ t \in Socket
    <2>1. PICK f \in Seq(Object) : f = Front(sock[server].pending) BY <1>4
    <2>2. [sock[server] EXCEPT !.pending = f] \in Socket BY <1>3 DEF Socket
    <2>3. PICK n \in Nat : n = sock[client].accepts + 1 BY <1>3 DEF Socket
    <2>4. [sock[client] EXCEPT !.accepts = n] \in Socket BY <1>3 DEF Socket
    <2> QED BY <2>1, <2>2, <2>3, <2>4
  <1>6. /\ r.peer = sock[server].peer /\ r.state = sock[server].state
        /\ r.pending = Front(sock[server].pending)
        /\ t.peer = sock[client].peer /\ t.state = sock[client].state
        /\ t.pending = sock[client].pending
    BY <1>3 DEF Socket
  <1>7. /\ S[server] = r /\ S[client] = t /\ DOMAIN S = Object
        /\ \A q \in Object : q \notin {server, client} => S[q] = sock[q]
    BY <1>2 DEF TypeOK
  <1> HIDE DEF S, r, t
  <1>8. /\ \A q \in Object : S[q] \in Socket <=> sock[q] \in Socket
        /\ \A q \in Object : S[q] = Unused <=> sock[q] = Unused
    BY <1>2, <1>3, <1>5, <1>7, UsedFacts
  <1>9. Used' = Used /\ sock' \in [Object -> Socket \cup {Unused}]
    <2>1. Used' = Used BY <1>1, <1>8 DEF Used
    <2>2. \A q \in Object : S[q] \in Socket \cup {Unused} BY <1>8 DEF TypeOK
    <2>3. S = [q \in Object |-> S[q]]
      BY <1>1, <1>7 DEF S
    <2> QED BY <1>1, <2>1, <2>2, <2>3
  <1>10. \A q \in Used : /\ sock'[q].peer = sock[q].peer /\ sock'[q].state = sock[q].state
                         /\ \A i \in DOMAIN sock'[q].pending : i \in DOMAIN sock[q].pending
                              /\ sock'[q].pending[i] = sock[q].pending[i]
                         /\ q # server => sock'[q].pending = sock[q].pending
    BY <1>1, <1>4, <1>6, <1>7, UsedFacts
  <1>11. \A q : Connected(q) => Connected(q)' BY <1>9, <1>10 DEF Connected
  <1>12. Kinds' BY <1>1, <1>2, <1>9, <1>10 DEF Kinds
  <1>13. PendingConnected'
    <2> SUFFICES ASSUME NEW q \in Used', NEW i \in DOMAIN sock'[q].pending
                 PROVE  Connected(sock[q].pending[i])'
      BY DEF PendingConnected
    <2>1. PICK w : w = sock[q].pending[i] OBVIOUS
    <2>2. Connected(w) BY <1>9, <1>10, <2>1 DEF PendingConnected
    <2>3. Connected(w)' /\ w = sock'[q].pending[i] BY <1>9, <1>10, <1>11, <2>1, <2>2
    <2> QED BY <2>3 DEF Connected
  <1>14. TypeOK' BY <1>1, <1>9 DEF TypeOK, remote, Places
  <1>15. Locals'
    <2>1. Connected(client)' BY <1>1, <1>2, <1>11 DEF Connected
    <2>2. sock'[server].state = "LISTEN" /\ sock'[server].peer = None
      BY <1>1, <1>2, <1>10 DEF Locals, Serving
    <2> QED BY <1>1, <1>2, <1>9, <2>1, <2>2
         DEF Locals, Serving, Working, Removing, Finishing, Connected
  <1> QED BY <1>12, <1>13, <1>14, <1>15

\* The steps that change one field of the client, or nothing.
LEMMA RecvShape == ASSUME Shape, Recv PROVE Shape'
  <1> USE DEF Shape
  <1>1. /\ pc = "serve" /\ pc' \in {"close", "send"}
        /\ UNCHANGED <<sockets, deleted, halted, server, client, orphan, index, spare, remote,
                       out, raced>>
    BY DEF Recv, At
  <1>2. server # None /\ Connected(client) /\ client \in Used /\ sock[client] \in Socket
        /\ sock[client].peer # None
    BY <1>1, UsedFacts DEF Locals, Connected, Working
  <1>3. /\ Kinds' /\ PendingConnected' /\ Used' = Used
        /\ sock' \in [Object -> Socket \cup {Unused}]
        /\ \A q : Connected(q) => Connected(q)'
        /\ \A q \in Used : q # client => sock'[q] = sock[q]
    <2>1. CASE sock[client].queue = <<>>
      <3>1. sock' = sock BY <2>1 DEF Recv
      <3> QED BY <3>1, <1>1, SocksSame DEF TypeOK, Sockets
    <2>2. CASE sock[client].queue # <<>>
      <3> DEFINE q == Tail(sock[client].queue)
                 d == Append(sock[client].got, Head(sock[client].queue))
                 r == [sock[client] EXCEPT !.queue = q, !.got = d]
      <3>1. sock[client].queue \in Seq(Nat) /\ sock[client].got \in Seq(Nat)
        BY <1>2 DEF Socket
      <3>2. q \in Seq(Nat) /\ d \in Seq(Nat)
        BY <2>2, <3>1, HeadTailProperties
      <3>3. sock' = [sock EXCEPT ![client].queue = Tail(@),
                                 ![client].got = Append(@, Head(sock[client].queue))]
        BY <2>2 DEF Recv
      <3>4. client \in DOMAIN sock BY <1>2, UsedFacts DEF TypeOK
      <3>5. sock' = [sock EXCEPT ![client] = r] BY <3>3, <3>4
      <3> HIDE DEF q, d
      <3>6. r \in Socket /\ r.peer = sock[client].peer /\ r.state = sock[client].state
            /\ r.pending = sock[client].pending
        BY <1>2, <3>2 DEF Socket
      <3>7. r.peer = None <=> r.state \in {"LISTEN", "CLOSED"} BY <1>2, <3>6 DEF Kinds
      <3> HIDE DEF r
      <3> QED BY <1>1, <1>2, <3>5, <3>6, <3>7, OneChanged
    <2> QED BY <2>1, <2>2
  <1>4. TypeOK' BY <1>1, <1>3 DEF TypeOK, remote, Places
  <1>5. Locals'
    <2>1. Connected(client)' BY <1>1, <1>2, <1>3 DEF Connected
    <2>2. server \in Used /\ sock[server].peer = None /\ server # client
          /\ sock[server].state = "LISTEN"
      BY <1>1, <1>2 DEF Locals, Serving
    <2>3. sock'[server] = sock[server] BY <1>3, <2>2
    <2> QED BY <1>1, <1>3, <2>1, <2>2, <2>3 DEF Locals, Serving, Working, Removing, Finishing
  <1> QED BY <1>3, <1>4, <1>5

LEMMA SendShape == ASSUME Shape, Send PROVE Shape'
  <1> USE DEF Shape
  <1> DEFINE p == sock[client].peer
  <1>1. /\ pc = "send" /\ pc' = "advance"
        /\ out' = [out EXCEPT ![p] = @ \cup {<<"data", sock[client].sseq>>}]
        /\ UNCHANGED <<sock, sockets, deleted, halted, server, client, orphan, index, spare,
                       remote, raced>>
    BY DEF Send, At, table
  <1>2. Connected(client) /\ sock[client] \in Socket /\ p \in Peers
    BY <1>1, UsedFacts DEF Locals, Connected, Working, Socket
  <1>3. Kinds' /\ PendingConnected' /\ Used' = Used /\ \A q : Connected(q) => Connected(q)'
    BY <1>1, SocksSame DEF Sockets
  <1>4. out' \in [Peers -> SUBSET Sent]
    <2>1. <<"data", sock[client].sseq>> \in Sent BY <1>2 DEF Sent, Socket
    <2> QED BY <1>1, <1>2, <2>1 DEF TypeOK
  <1>5. TypeOK' BY <1>1, <1>4 DEF TypeOK, remote, Places
  <1>6. Connected(client)' BY <1>1, <1>2, <1>3 DEF Connected
  <1>7. Locals'
    BY <1>1, <1>3, <1>6 DEF Locals, Serving, Working, Removing, Finishing
  <1> QED BY <1>3, <1>5, <1>7

\* send_seq moves on.
Advances == sock' = [sock EXCEPT ![client].sseq = @ + 1] /\ sockets' = sockets

LEMMA AdvanceFacts ==
  ASSUME Shape, Connected(client), Advances
  PROVE  /\ Kinds' /\ PendingConnected' /\ Used' = Used
         /\ sock' \in [Object -> Socket \cup {Unused}]
         /\ \A q : Connected(q) => Connected(q)'
         /\ \A q \in Used : q # client => sock'[q] = sock[q]
         /\ client \in Used /\ sock'[client] = [sock[client] EXCEPT !.sseq = @ + 1]
         /\ sock'[client].peer = sock[client].peer /\ sock'[client].state = sock[client].state
  <1>1. client \in Used /\ sock[client] \in Socket /\ client \in DOMAIN sock
    BY UsedFacts DEF Shape, Connected, TypeOK
  <1> DEFINE r == [sock[client] EXCEPT !.sseq = @ + 1]
  <1>2. sock' = [sock EXCEPT ![client] = r] /\ sockets' = sockets BY <1>1 DEF Advances
  <1>3. r \in Socket /\ r.peer = sock[client].peer /\ r.state = sock[client].state
        /\ r.pending = sock[client].pending
    <2>1. PICK n \in Nat : n = sock[client].sseq + 1 BY <1>1 DEF Socket
    <2>2. r = [sock[client] EXCEPT !.sseq = n] BY <2>1
    <2> QED BY <1>1, <2>2 DEF Socket
  <1>4. r.peer = None <=> r.state \in {"LISTEN", "CLOSED"} BY <1>1, <1>3 DEF Shape, Kinds
  <1>5. sock'[client] = r BY <1>1, <1>2
  <1> HIDE DEF r
  <1>7. \A i \in DOMAIN r.pending : \E j \in DOMAIN sock[client].pending :
          r.pending[i] = sock[client].pending[j]
    BY <1>3
  <1>6. /\ Kinds' /\ PendingConnected' /\ Used' = Used
        /\ sock' \in [Object -> Socket \cup {Unused}]
        /\ \A q : Connected(q) => Connected(q)'
        /\ \A q \in Used : q # client => sock'[q] = sock[q]
    BY <1>1, <1>2, <1>3, <1>4, <1>7, OneChanged
  <1> QED BY <1>1, <1>3, <1>5, <1>6 DEF r

LEMMA SendAdvanceShape == ASSUME Shape, SendAdvance PROVE Shape'
  <1> USE DEF Shape
  <1>1. /\ pc = "advance" /\ pc' = "close" /\ sock' = [sock EXCEPT ![client].sseq = @ + 1]
        /\ UNCHANGED <<sockets, deleted, halted, server, client, orphan, index, spare, remote,
                       out, raced>>
    BY DEF SendAdvance, At
  <1>2. Connected(client) BY <1>1 DEF Locals, Working
  <1>3. /\ Kinds' /\ PendingConnected' /\ Used' = Used
        /\ sock' \in [Object -> Socket \cup {Unused}]
        /\ \A q : Connected(q) => Connected(q)'
        /\ \A q \in Used : q # client => sock'[q] = sock[q]
    BY <1>1, <1>2, AdvanceFacts DEF Advances
  <1>4. TypeOK' BY <1>1, <1>3 DEF TypeOK, remote, Places
  <1>5. Connected(client)' BY <1>1, <1>2, <1>3 DEF Connected
  <1>6. server \in Used /\ sock[server].peer = None /\ server # client /\ server # None
    BY <1>1, <1>2 DEF Locals, Connected
  <1>7. Locals' BY <1>1, <1>3, <1>5, <1>6 DEF Locals, Serving, Working, Removing, Finishing
  <1> QED BY <1>3, <1>4, <1>7

LEMMA EscapeShape == ASSUME Shape, Escape PROVE Shape'
  <1> USE DEF Shape
  <1> DEFINE r == [sock[server] EXCEPT !.state = "CLOSED"]
  <1>1. /\ pc = "wait" /\ pc' = "orphans" /\ sock' = [sock EXCEPT ![server].state = "CLOSED"]
        /\ orphan' = 1
        /\ UNCHANGED <<sockets, deleted, halted, server, client, index, spare, remote, out, raced>>
    BY DEF Escape, At
  <1>2. server \in Used /\ server # None /\ sock[server].peer = None /\ sock[server] \in Socket
        /\ server \in DOMAIN sock
    BY <1>1, UsedFacts DEF Locals, TypeOK
  <1>3. sock' = [sock EXCEPT ![server] = r] BY <1>1, <1>2
  <1>4. r \in Socket /\ r.peer = None /\ r.state = "CLOSED" /\ r.pending = sock[server].pending
    BY <1>2 DEF Socket, States
  <1> HIDE DEF r
  <1>5. /\ Kinds' /\ PendingConnected' /\ Used' = Used
        /\ sock' \in [Object -> Socket \cup {Unused}] /\ sock'[server] = r
    BY <1>1, <1>2, <1>3, <1>4, OneChanged
  <1>6. TypeOK' BY <1>1, <1>5 DEF TypeOK, remote, Places
  <1>7. Locals' BY <1>1, <1>2, <1>4, <1>5 DEF Locals, Serving, Working, Removing, Finishing
  <1> QED BY <1>5, <1>6, <1>7

LEMMA CloseOrphanShape == ASSUME Shape, CloseOrphan PROVE Shape'
  <1> USE DEF Shape
  <1>1. /\ pc = "orphans" /\ UNCHANGED <<sock, sockets, deleted, halted, server, index, spare,
                                        remote, out, raced>>
    BY DEF CloseOrphan, At, table
  <1>2. server \in Used /\ server # None /\ sock[server].state = "CLOSED" /\ orphan \in Nat \ {0}
        /\ sock[server].pending \in Seq(Object) /\ sock[server].peer = None /\ server \in Object
    BY <1>1, UsedFacts DEF Locals, Socket
  <1>3. Kinds' /\ PendingConnected' /\ Used' = Used /\ \A q : Connected(q) => Connected(q)'
    BY <1>1, SocksSame DEF Sockets
  <1>4. CASE orphan <= Len(sock[server].pending)
    <2>1. /\ orphan \in DOMAIN sock[server].pending
          /\ client' = sock[server].pending[orphan] /\ orphan' = orphan + 1 /\ pc' = "close"
      BY <1>2, <1>4 DEF CloseOrphan
    <2>2. PICK w : w = client' OBVIOUS
    <2>3. Connected(w) /\ w \in Object BY <1>2, <2>1, <2>2, UsedFacts DEF PendingConnected, Connected
    <2>4. Connected(client)' BY <1>3, <2>2, <2>3 DEF Connected
    <2>5. TypeOK'
      <3>1. client' \in Object \cup {None} BY <2>2, <2>3
      <3>2. orphan' \in Nat BY <1>2, <2>1
      <3>3. pc' \in Places BY <2>1 DEF Places
      <3> QED BY <1>1, <3>1, <3>2, <3>3 DEF TypeOK, remote
    <2>6. Locals' BY <1>1, <1>2, <1>3, <2>1, <2>4 DEF Locals, Serving, Working, Removing, Finishing
    <2> QED BY <1>3, <2>5, <2>6
  <1>5. CASE ~ (orphan <= Len(sock[server].pending))
    <2>1. client' = server /\ pc' = "find" /\ orphan' = orphan BY <1>5 DEF CloseOrphan
    <2>2. TypeOK' BY <1>1, <1>2, <2>1 DEF TypeOK, remote, Places
    <2>3. Locals' BY <1>1, <1>2, <1>3, <2>1 DEF Locals, Serving, Working, Removing, Finishing
    <2> QED BY <1>3, <2>2, <2>3
  <1> QED BY <1>4, <1>5

LEMMA CloseShape == ASSUME Shape, Close PROVE Shape'
  <1> USE DEF Shape
  <1>1. /\ pc = "close" /\ UNCHANGED <<sock, sockets, deleted, halted, remote, out, raced>>
    BY DEF Close, At, table
  <1>2. Connected(client) /\ server # None /\ server \in Used /\ sock[server].peer = None
    BY <1>1 DEF Locals, Working
  <1>3. Kinds' /\ PendingConnected' /\ Used' = Used /\ \A q : Connected(q) => Connected(q)'
    BY <1>1, SocksSame DEF Sockets
  <1>4. CASE sock[client].state = "CLOSED"
    <2>1. Return BY <1>4 DEF Close
    <2>2. Locals' /\ server' \in Object \cup {None} /\ client' = None /\ pc' \in Places
          /\ orphan' \in Nat /\ index' = 0 /\ spare' = None
      BY <2>1, <1>1, <1>3, ReturnLocals
    <2>3. TypeOK' BY <1>1, <2>2 DEF TypeOK, remote
    <2> QED BY <1>3, <2>2, <2>3
  <1>5. CASE sock[client].state # "CLOSED"
    <2>1. pc' = (IF sock[client].state = "ESTABLISHED" THEN "fin" ELSE "find")
          /\ UNCHANGED <<server, client, orphan, index, spare>>
      BY <1>5 DEF Close
    <2>2. TypeOK' BY <1>1, <2>1 DEF TypeOK, remote, Places
    <2>3. Connected(client)' BY <1>2, <1>3, <2>1 DEF Connected
    <2>4. client # None /\ client # server
      BY <1>2, ObjectFacts, UsedFacts DEF Connected
    <2>5. Locals'
      BY <1>1, <1>2, <1>3, <2>1, <2>3, <2>4 DEF Locals, Serving, Working, Removing, Finishing
    <2> QED BY <1>3, <2>2, <2>5
  <1> QED BY <1>4, <1>5

LEMMA CloseFinShape == ASSUME Shape, CloseFin PROVE Shape'
  <1> USE DEF Shape
  <1> DEFINE p == sock[client].peer
  <1>1. /\ pc = "fin" /\ pc' = "finseq"
        /\ out' = [out EXCEPT ![p] = @ \cup {<<"fin", sock[client].sseq>>}]
        /\ UNCHANGED <<sock, sockets, deleted, halted, server, client, orphan, index, spare,
                       remote, raced>>
    BY DEF CloseFin, At, table
  <1>2. Connected(client) /\ sock[client] \in Socket /\ p \in Peers
    BY <1>1, UsedFacts DEF Locals, Connected, Working, Socket
  <1>3. Kinds' /\ PendingConnected' /\ Used' = Used /\ \A q : Connected(q) => Connected(q)'
    BY <1>1, SocksSame DEF Sockets
  <1>4. out' \in [Peers -> SUBSET Sent] /\ <<"fin", sock[client].sseq>> \in out'[p]
    <2>1. <<"fin", sock[client].sseq>> \in Sent BY <1>2 DEF Sent, Socket
    <2> QED BY <1>1, <1>2, <2>1 DEF TypeOK
  <1>5. TypeOK' BY <1>1, <1>4 DEF TypeOK, remote, Places
  <1>6. Connected(client)' BY <1>1, <1>2, <1>3 DEF Connected
  <1>7. Finned(sock[client].peer)'
    <2>1. <<"fin", sock[client].sseq>>[1] = "fin" OBVIOUS
    <2> QED BY <1>1, <1>4, <2>1 DEF Finned
  <1>8. Locals'
    BY <1>1, <1>3, <1>6, <1>7 DEF Locals, Serving, Working, Removing, Finishing
  <1> QED BY <1>3, <1>5, <1>8

LEMMA CloseAdvanceShape == ASSUME Shape, CloseAdvance PROVE Shape'
  <1> USE DEF Shape
  <1>1. /\ pc = "finseq" /\ pc' = "finstate" /\ sock' = [sock EXCEPT ![client].sseq = @ + 1]
        /\ UNCHANGED <<sockets, deleted, halted, server, client, orphan, index, spare, remote,
                       out, raced>>
    BY DEF CloseAdvance, At
  <1>2. Connected(client) BY <1>1 DEF Locals, Working
  <1>3. /\ Kinds' /\ PendingConnected' /\ Used' = Used
        /\ sock' \in [Object -> Socket \cup {Unused}]
        /\ \A q : Connected(q) => Connected(q)'
        /\ \A q \in Used : q # client => sock'[q] = sock[q]
        /\ sock'[client].peer = sock[client].peer /\ sock'[client].state = sock[client].state
    BY <1>1, <1>2, AdvanceFacts DEF Advances
  <1>4. TypeOK' BY <1>1, <1>3 DEF TypeOK, remote, Places
  <1>5. Connected(client)' BY <1>1, <1>2, <1>3 DEF Connected
  <1>6. server \in Used /\ sock[server].peer = None /\ server # client /\ server # None
    BY <1>1, <1>2 DEF Locals, Connected
  <1>7. Finned(sock[client].peer)' BY <1>1, <1>3 DEF Locals, Finned
  <1>8. Locals'
    BY <1>1, <1>3, <1>5, <1>6, <1>7 DEF Locals, Serving, Working, Removing, Finishing
  <1> QED BY <1>3, <1>4, <1>8

LEMMA CloseStateFacts ==
  ASSUME Shape, CloseState
  PROVE  /\ Kinds' /\ PendingConnected' /\ Used' = Used
         /\ sock' \in [Object -> Socket \cup {Unused}]
         /\ \A q : Connected(q) => Connected(q)'
         /\ \A q \in Used : q # client => sock'[q] = sock[q]
         /\ Connected(client)
         /\ sock'[client] = [sock[client] EXCEPT !.state = "FIN_WAIT_1"]
         /\ sock[client].state \in {"ESTABLISHED", "CLOSE_WAIT"}
  <1> USE DEF Shape
  <1> DEFINE r == [sock[client] EXCEPT !.state = "FIN_WAIT_1"]
  <1>1. /\ pc = "finstate" /\ sock' = [sock EXCEPT ![client].state = "FIN_WAIT_1"]
        /\ Return /\ UNCHANGED <<sockets, deleted, halted, remote, out, raced>>
    BY DEF CloseState, At
  <1>2. Connected(client) /\ client \in Used /\ sock[client] \in Socket /\ client \in DOMAIN sock
        /\ sock[client].peer # None /\ sock[client].state \in {"ESTABLISHED", "CLOSE_WAIT"}
    BY <1>1, UsedFacts DEF Locals, Connected, Working, Finishing, TypeOK
  <1>3. sock' = [sock EXCEPT ![client] = r] BY <1>1, <1>2
  <1>4. r \in Socket /\ r.peer = sock[client].peer /\ r.state = "FIN_WAIT_1"
        /\ r.pending = sock[client].pending
    BY <1>2 DEF Socket, States
  <1>5. sock'[client] = r BY <1>2, <1>3
  <1> HIDE DEF r
  <1>6. /\ Kinds' /\ PendingConnected' /\ Used' = Used
        /\ sock' \in [Object -> Socket \cup {Unused}]
        /\ \A q : Connected(q) => Connected(q)'
        /\ \A q \in Used : q # client => sock'[q] = sock[q]
    BY <1>1, <1>2, <1>3, <1>4, OneChanged
  <1> QED BY <1>2, <1>5, <1>6 DEF r

LEMMA CloseStateShape == ASSUME Shape, CloseState PROVE Shape'
  <1> USE DEF Shape
  <1>1. /\ pc = "finstate" /\ Return /\ UNCHANGED <<sockets, deleted, halted, remote, out, raced>>
    BY DEF CloseState, At
  <1>2. /\ Kinds' /\ PendingConnected' /\ Used' = Used
        /\ sock' \in [Object -> Socket \cup {Unused}]
        /\ \A q \in Used : q # client => sock'[q] = sock[q]
        /\ Connected(client)
    BY CloseStateFacts
  <1>3. server \in Used /\ server # client BY <1>1, <1>2 DEF Locals, Connected
  <1>4. Locals' /\ server' \in Object \cup {None} /\ client' = None /\ pc' \in Places
        /\ orphan' \in Nat /\ index' = 0 /\ spare' = None
    BY <1>1, <1>2, <1>3, ReturnLocals
  <1>5. TypeOK' BY <1>1, <1>2, <1>4 DEF TypeOK, remote
  <1> QED BY <1>2, <1>4, <1>5

LEMMA RemoveFindShape == ASSUME Shape, RemoveFind PROVE Shape'
  <1> USE DEF Shape
  <1> DEFINE I == {i \in DOMAIN sockets : sock[sockets[i]].num = sock[client].num}
  <1>1. /\ pc = "find" /\ UNCHANGED <<sock, sockets, deleted, halted, remote, out, raced>>
    BY DEF RemoveFind, At, table
  <1>2. server # None /\ server \in Used /\ sock[server].peer = None BY <1>1 DEF Locals
  <1>3. Kinds' /\ PendingConnected' /\ Used' = Used /\ \A q : Connected(q) => Connected(q)'
    BY <1>1, SocksSame DEF Sockets
  <1>4. CASE I = {}
    <2>1. Return BY <1>4 DEF RemoveFind
    <2>2. Locals' /\ server' \in Object \cup {None} /\ client' = None /\ pc' \in Places
          /\ orphan' \in Nat /\ index' = 0 /\ spare' = None
      BY <2>1, <1>1, <1>3, ReturnLocals DEF Removing
    <2>3. TypeOK' BY <1>1, <2>2 DEF TypeOK, remote
    <2> QED BY <1>3, <2>2, <2>3
  <1>5. CASE I # {}
    <2>1. I \in SUBSET Nat BY DEF TypeOK
    <2>2. \E i \in I : \A j \in I : i <= j BY <2>1, <1>5, Least
    <2>3. /\ index' = (CHOOSE i \in I : \A j \in I : i <= j) /\ pc' = "tail"
          /\ UNCHANGED <<server, client, orphan, spare>>
      BY <1>5 DEF RemoveFind
    <2>4. index' \in I BY <2>2, <2>3
    <2>5. index' \in DOMAIN sockets /\ index' \in Nat BY <2>1, <2>4
    <2>6. TypeOK' BY <1>1, <2>3, <2>5 DEF TypeOK, remote, Places
    <2>7. client # server => Connected(client)'
      BY <1>1, <1>3, <2>3 DEF Locals, Removing, Connected
    <2>8. Locals'
      BY <1>1, <1>2, <1>3, <2>3, <2>5, <2>7 DEF Locals, Serving, Working, Removing, Finishing
    <2> QED BY <1>3, <2>6, <2>8
  <1> QED BY <1>4, <1>5

\* What is left of the table when its last element is taken out.
LEMMA FrontFacts ==
  ASSUME NEW S, NEW s \in Seq(S), s # <<>>
  PROVE  /\ Front(s) \in Seq(S) /\ Len(Front(s)) = Len(s) - 1 /\ Len(s) \in Nat \ {0}
         /\ \A i \in 1 .. Len(s) - 1 : Front(s)[i] = s[i]
         /\ Last(s) = s[Len(s)] /\ Last(s) \in S
  <1>1. Len(s) \in Nat \ {0} BY EmptySeq
  <1>2. \A i \in 1 .. Len(s) - 1 : s[i] \in S BY <1>1
  <1>3. /\ Front(s) \in Seq(S) /\ Len(Front(s)) = Len(s) - 1
        /\ \A i \in 1 .. Len(s) - 1 : Front(s)[i] = s[i]
    <2>1. PICK n \in Nat : n = Len(s) - 1 BY <1>1
    <2>2. SubSeq(s, 1, n) \in Seq(S) /\ Len(SubSeq(s, 1, n)) = n BY <1>1, <1>2, <2>1
    <2>3. \A i \in 1 .. n : SubSeq(s, 1, n)[i] = s[i] BY <1>1, <1>2, <2>1
    <2> QED BY <2>1, <2>2, <2>3 DEF Front
  <1>4. Last(s) = s[Len(s)] /\ Last(s) \in S BY <1>1 DEF Last
  <1> QED BY <1>1, <1>3, <1>4

\* swap_remove of an element that is not the last moves the last into its place.
LEMMA TailFacts ==
  ASSUME Shape, RemoveTail
  PROVE  /\ pc = "tail" /\ index \in DOMAIN sockets /\ sockets # <<>>
         /\ sockets' \in Seq(Object) /\ \A i \in DOMAIN sockets' : sockets'[i] \in Sockets
         /\ \/ index = Len(sockets) /\ pc' = "shrink" /\ UNCHANGED <<deleted, sockets>>
            \/ /\ index \in 1 .. Len(sockets) - 1 /\ pc' = "corrupt"
               /\ deleted' = [deleted EXCEPT ![sockets[index]] = @ + 2]
               /\ Len(sockets') = Len(sockets) - 1
               /\ \A i \in 1 .. Len(sockets) - 1 :
                    sockets'[i] = IF i = index THEN sockets[Len(sockets)] ELSE sockets[i]
  <1> USE DEF Shape
  <1>1. pc = "tail" BY DEF RemoveTail, At
  <1>2. index \in DOMAIN sockets /\ sockets \in Seq(Object)
        /\ index \in Nat /\ DOMAIN sockets = 1 .. Len(sockets) /\ Len(sockets) \in Nat
        /\ sockets # <<>>
    BY <1>1 DEF Locals, TypeOK
  <1>3. CASE index = Len(sockets)
    <2>1. pc' = "shrink" /\ UNCHANGED <<deleted, sockets>> BY <1>3 DEF RemoveTail
    <2> QED BY <1>1, <1>2, <1>3, <2>1 DEF Sockets
  <1>4. CASE index # Len(sockets)
    <2> DEFINE last == Last(sockets)
               s == [sockets EXCEPT ![index] = last]
    <2>1. /\ deleted' = [deleted EXCEPT ![sockets[index]] = @ + 2]
          /\ sockets' = Front(s) /\ pc' = "corrupt"
      BY <1>4 DEF RemoveTail
    <2>2. last \in Object /\ last = sockets[Len(sockets)] BY <1>2 DEF Last
    <2> HIDE DEF last
    <2>3. s \in Seq(Object) /\ Len(s) = Len(sockets) /\ \A i \in 1 .. Len(sockets) :
            s[i] = IF i = index THEN last ELSE sockets[i]
      BY <1>2, <2>2
    <2> HIDE DEF s
    <2>4. sockets' \in Seq(Object) /\ Len(sockets') = Len(sockets) - 1
          /\ \A i \in 1 .. Len(sockets) - 1 : sockets'[i] = s[i]
      <3>1. s # <<>> BY <1>2, <2>3
      <3> QED BY <2>1, <2>3, <3>1, FrontFacts
    <2>5. \A i \in DOMAIN sockets' : sockets'[i] \in Sockets
      <3> SUFFICES ASSUME NEW i \in DOMAIN sockets' PROVE sockets'[i] \in Sockets OBVIOUS
      <3>1. i \in 1 .. Len(sockets) - 1 BY <2>4, <1>2
      <3>2. sockets'[i] = last \/ sockets'[i] = sockets[i] BY <2>3, <2>4, <3>1, <1>2
      <3>3. Len(sockets) \in DOMAIN sockets /\ i \in DOMAIN sockets BY <1>2, <3>1
      <3> QED BY <2>2, <3>2, <3>3 DEF Sockets
    <2>6. \A i \in 1 .. Len(sockets) - 1 :
            sockets'[i] = IF i = index THEN sockets[Len(sockets)] ELSE sockets[i]
      BY <1>2, <2>2, <2>3, <2>4
    <2>7. index \in 1 .. Len(sockets) - 1 BY <1>2, <1>4
    <2> QED BY <1>1, <1>2, <2>1, <2>4, <2>5, <2>6, <2>7
  <1> QED BY <1>3, <1>4

LEMMA RemoveTailShape == ASSUME Shape, RemoveTail PROVE Shape'
  <1> USE DEF Shape
  <1>1. UNCHANGED <<sock, halted, server, client, orphan, index, spare, remote, out, raced>>
    BY DEF RemoveTail
  <1>2. /\ pc = "tail" /\ index \in DOMAIN sockets /\ sockets # <<>>
        /\ sockets' \in Seq(Object) /\ \A i \in DOMAIN sockets' : sockets'[i] \in Sockets
        /\ \/ pc' = "shrink" /\ UNCHANGED <<deleted, sockets>>
           \/ pc' = "corrupt" /\ deleted' = [deleted EXCEPT ![sockets[index]] = @ + 2]
    BY TailFacts
  <1>3. Kinds' /\ PendingConnected' /\ Used' = Used /\ \A q : Connected(q) => Connected(q)'
    BY <1>1, <1>2, SocksSame
  <1>4. sockets[index] \in Object BY <1>2 DEF TypeOK
  <1>5. deleted' \in [Object -> Nat]
    <2>1. PICK o \in Object : o = sockets[index] BY <1>4
    <2>2. [deleted EXCEPT ![o] = @ + 2] \in [Object -> Nat] BY DEF TypeOK
    <2> QED BY <1>2, <2>1, <2>2 DEF TypeOK
  <1>6. TypeOK' BY <1>1, <1>2, <1>5 DEF TypeOK, remote, Places
  <1>7. client # server => Connected(client)'
    BY <1>1, <1>2, <1>3 DEF Locals, Removing, Connected
  <1>8. Locals'
    BY <1>1, <1>2, <1>3, <1>7 DEF Locals, Serving, Working, Removing, Finishing
  <1> QED BY <1>3, <1>6, <1>8

LEMMA ShrinkFacts ==
  ASSUME Shape, RemoveShrink
  PROVE  /\ pc = "shrink" /\ sockets # <<>> /\ Len(sockets) \in Nat \ {0}
         /\ sockets' \in Seq(Object) /\ Len(sockets') = Len(sockets) - 1
         /\ \A i \in 1 .. Len(sockets) - 1 : sockets'[i] = sockets[i]
         /\ \A i \in DOMAIN sockets' : sockets'[i] \in Sockets
         /\ spare' = sockets[Len(sockets)] /\ spare' \in Sockets /\ index' = Len(sockets)
         /\ pc' = "destroy"
  <1> USE DEF Shape
  <1>1. /\ pc = "shrink" /\ spare' = Last(sockets) /\ index' = Len(sockets)
        /\ sockets' = Front(sockets) /\ pc' = "destroy"
    BY DEF RemoveShrink, At
  <1>2. sockets # <<>> /\ sockets \in Seq(Object) BY <1>1 DEF Locals, TypeOK
  <1>3. /\ Front(sockets) \in Seq(Object) /\ Len(Front(sockets)) = Len(sockets) - 1
        /\ Len(sockets) \in Nat \ {0}
        /\ \A i \in 1 .. Len(sockets) - 1 : Front(sockets)[i] = sockets[i]
        /\ Last(sockets) = sockets[Len(sockets)] /\ Last(sockets) \in Object
    BY <1>2, FrontFacts
  <1>4. \A i \in DOMAIN sockets' : sockets'[i] \in Sockets
    <2> SUFFICES ASSUME NEW i \in DOMAIN sockets' PROVE sockets'[i] \in Sockets OBVIOUS
    <2>1. i \in 1 .. Len(sockets) - 1 /\ i \in DOMAIN sockets BY <1>1, <1>2, <1>3
    <2> QED BY <1>1, <1>3, <2>1 DEF Sockets
  <1>5. Len(sockets) \in DOMAIN sockets BY <1>2, <1>3
  <1> QED BY <1>1, <1>2, <1>3, <1>4, <1>5 DEF Sockets

LEMMA RemoveShrinkShape == ASSUME Shape, RemoveShrink PROVE Shape'
  <1> USE DEF Shape
  <1>1. UNCHANGED <<sock, deleted, halted, server, client, orphan, remote, out, raced>>
    BY DEF RemoveShrink
  <1>2. /\ pc = "shrink" /\ Len(sockets) \in Nat \ {0} /\ sockets' \in Seq(Object)
        /\ \A i \in DOMAIN sockets' : sockets'[i] \in Sockets
        /\ spare' \in Sockets /\ index' = Len(sockets) /\ pc' = "destroy"
    BY ShrinkFacts
  <1>3. Kinds' /\ PendingConnected' /\ Used' = Used /\ \A q : Connected(q) => Connected(q)'
    BY <1>1, <1>2, SocksSame
  <1>4. spare' \in Used /\ spare' \in Object BY <1>2, UsedFacts DEF Kinds, Sockets
  <1>5. TypeOK' BY <1>1, <1>2, <1>4 DEF TypeOK, remote, Places
  <1>6. client # server => Connected(client)'
    BY <1>1, <1>2, <1>3 DEF Locals, Removing, Connected
  <1>7. Locals'
    BY <1>1, <1>2, <1>3, <1>4, <1>6 DEF Locals, Serving, Working, Removing, Finishing
  <1> QED BY <1>3, <1>5, <1>7

LEMMA RemoveDestroyShape == ASSUME Shape, RemoveDestroy PROVE Shape'
  <1> USE DEF Shape
  <1> DEFINE o == IF index <= Len(sockets) THEN sockets[index] ELSE spare
  <1>1. /\ pc = "destroy" /\ Return /\ deleted' = [deleted EXCEPT ![o] = @ + 1]
        /\ UNCHANGED <<sock, sockets, halted, remote, out, raced>>
    BY DEF RemoveDestroy, At
  <1>2. index \in Nat \ {0} /\ spare \in Object /\ sockets \in Seq(Object) /\ server # None
        /\ server \in Used
    BY <1>1, UsedFacts DEF Locals, TypeOK
  <1>3. o \in Object BY <1>2
  <1> HIDE DEF o
  <1>4. Kinds' /\ PendingConnected' /\ Used' = Used /\ \A q : Connected(q) => Connected(q)'
    BY <1>1, SocksSame DEF Sockets
  <1>5. Locals' /\ server' \in Object \cup {None} /\ client' = None /\ pc' \in Places
        /\ orphan' \in Nat /\ index' = 0 /\ spare' = None
    BY <1>1, <1>4, ReturnLocals DEF Removing
  <1>6. deleted' \in [Object -> Nat] BY <1>1, <1>3 DEF TypeOK
  <1>7. TypeOK' BY <1>1, <1>5, <1>6 DEF TypeOK, remote
  <1> QED BY <1>4, <1>5, <1>7

-----------------------------------------------------------------------------
(* What comes from the network.                                            *)

\* A segment of p leaves the network or stays in it.
Leaves(p, i) ==
  /\ net' \in [Peers -> Seq(Segment)] /\ copies' \in Nat
  /\ \A q \in Peers : q # p => net'[q] = net[q]
  /\ net'[p] = net[p] \/ net'[p] = RemoveAt(net[p], i)
  /\ ordered => i = 1 /\ net'[p] = RemoveAt(net[p], 1)

LEMMA DeliverFacts ==
  ASSUME Shape, NEW p \in Peers, Deliver(p)
  PROVE  \E i \in DOMAIN net[p] :
           /\ Leaves(p, i) /\ net[p][i] \in Segment
           /\ \/ ReceiveKnown(p, net[p][i])
              \/ ReceiveSyn(p, net[p][i])
              \/ ReceiveOther(p, net[p][i])
  <1> USE DEF Shape
  <1>1. PICK i \in DOMAIN net[p], stays \in BOOLEAN :
          /\ ordered => i = 1 /\ ~ stays
          /\ net' = IF stays THEN net ELSE [net EXCEPT ![p] = RemoveAt(@, i)]
          /\ copies' = IF stays THEN copies + 1 ELSE copies
          /\ \/ ReceiveKnown(p, net[p][i])
             \/ ReceiveSyn(p, net[p][i])
             \/ ReceiveOther(p, net[p][i])
    BY DEF Deliver
  <1>2. net \in [Peers -> Seq(Segment)] /\ net[p] \in Seq(Segment) /\ net[p][i] \in Segment
    BY DEF TypeOK
  <1>3. RemoveAt(net[p], i) \in Seq(Segment) BY <1>2, RemoveAtFacts
  <1>4. copies' \in Nat BY <1>1 DEF TypeOK
  <1>5. Leaves(p, i)
    <2> DEFINE rest == RemoveAt(net[p], i)
    <2>1. net' = IF stays THEN net ELSE [net EXCEPT ![p] = rest] BY <1>1
    <2>2. ordered => i = 1 /\ ~ stays BY <1>1
    <2>3. rest \in Seq(Segment) BY <1>3
    <2>4. ordered => rest = RemoveAt(net[p], 1) BY <2>2
    <2> HIDE DEF rest
    <2>5. net' \in [Peers -> Seq(Segment)] BY <1>2, <2>1, <2>3
    <2>6. \A q \in Peers : q # p => net'[q] = net[q] BY <1>2, <2>1
    <2>7. net'[p] = net[p] \/ net'[p] = rest BY <1>2, <2>1
    <2>8. ordered => i = 1 /\ net'[p] = rest BY <1>2, <2>1, <2>2
    <2> QED BY <1>4, <2>4, <2>5, <2>6, <2>7, <2>8 DEF Leaves, rest
  <1> QED BY <1>1, <1>2, <1>5

\* Every segment on its way was on its way before.
LEMMA LeavesFacts ==
  ASSUME Shape, NEW p \in Peers, NEW i \in DOMAIN net[p], Leaves(p, i)
  PROVE  \A q \in Peers : \A j \in DOMAIN net'[q] : \E k \in DOMAIN net[q] :
           net'[q][j] = net[q][k]
  <1>1. net[p] \in Seq(Segment) /\ Len(net[p]) \in Nat BY DEF Shape, TypeOK
  <1>2. /\ RemoveAt(net[p], i) \in Seq(Segment) /\ Len(RemoveAt(net[p], i)) = Len(net[p]) - 1
        /\ \A j \in 1 .. Len(net[p]) - 1 :
             RemoveAt(net[p], i)[j] = IF j < i THEN net[p][j] ELSE net[p][j + 1]
    BY <1>1, RemoveAtFacts
  <1>3. ASSUME NEW j \in DOMAIN RemoveAt(net[p], i)
        PROVE  \E k \in DOMAIN net[p] : RemoveAt(net[p], i)[j] = net[p][k]
    <2>1. j \in 1 .. Len(net[p]) - 1 BY <1>2
    <2>2. j \in DOMAIN net[p] /\ j + 1 \in DOMAIN net[p] BY <1>1, <2>1
    <2> QED BY <1>2, <2>1, <2>2
  <1> QED BY <1>3 DEF Leaves

\* A segment of a known connection changes it, and perhaps the pending list.
LEMMA KnownFacts ==
  ASSUME Shape, NEW p \in Peers, NEW g \in Segment, ReceiveKnown(p, g)
  PROVE  LET c == Connection(p) h == Handled(sock[c], g) IN
         /\ c \in Used /\ c \in Sockets /\ sock[c].peer = p /\ sock[c] \in Socket
         /\ sock'[c] = h /\ Kinds' /\ PendingConnected' /\ Used' = Used
         /\ sock' \in [Object -> Socket \cup {Unused}]
         /\ \A q : Connected(q) => Connected(q)'
         /\ \A q \in Used : q # c =>
              \/ sock'[q] = sock[q]
              \/ /\ q = Listener /\ sock[c].state = "SYN_RECEIVED" /\ h.state = "ESTABLISHED"
                 /\ sock'[q] = [sock[q] EXCEPT !.pending = Append(sock[q].pending, c)]
  <1> USE DEF Shape
  <1> DEFINE c == Connection(p)
             h == Handled(sock[c], g)
             l == IF sock[c].state = "SYN_RECEIVED" /\ h.state = "ESTABLISHED"
                  THEN Listener ELSE None
  <1>1. /\ c # None /\ sockets' = sockets
        /\ sock' = IF l = None THEN [sock EXCEPT ![c] = h]
                   ELSE [sock EXCEPT ![c] = h, ![l].pending = Append(@, c)]
    BY DEF ReceiveKnown
  <1>2. c \in Used /\ c \in Sockets /\ sock[c].peer = p /\ c \in Object
    BY <1>1, ConnectionFacts
  <1>3. sock[c] \in Socket BY <1>2, UsedFacts
  <1>4. p # None BY ObjectFacts
  <1>5. /\ h \in Socket /\ h.peer = p /\ h.pending = sock[c].pending
        /\ h.state # sock[c].state => <<sock[c].state, h.state>> \in Diagram
    BY <1>2, <1>3, HandledFacts
  <1>6. sock[c].state \notin {"LISTEN", "CLOSED"} BY <1>2, <1>4 DEF Kinds
  <1>7. h.state \notin {"LISTEN", "CLOSED"} BY <1>5, <1>6 DEF Diagram
  <1>8. h.state = "SYN_RECEIVED" => sock[c].state = "SYN_RECEIVED" BY <1>5 DEF Diagram
  <1>9. l = None \/ /\ l = Listener /\ l \in Used /\ l \in Object /\ sock[l].peer = None
                    /\ sock[l].state = "LISTEN" /\ sock[c].state = "SYN_RECEIVED"
                    /\ h.state = "ESTABLISHED"
    BY ListenerFacts, UsedFacts
  <1> HIDE DEF c, h, l
  <1>10. CASE l = None
    <2>1. sock' = [sock EXCEPT ![c] = h] BY <1>1, <1>10
    <2>2. h.peer = sock[c].peer /\ (h.peer = None <=> h.state \in {"LISTEN", "CLOSED"})
      BY <1>2, <1>4, <1>5, <1>7
    <2>3. \A i \in DOMAIN h.pending : \E j \in DOMAIN sock[c].pending :
            h.pending[i] = sock[c].pending[j]
      BY <1>5
    <2>4. /\ Kinds' /\ PendingConnected' /\ Used' = Used
          /\ sock' \in [Object -> Socket \cup {Unused}]
          /\ \A q : Connected(q) => Connected(q)'
          /\ \A q \in Used : q # c => sock'[q] = sock[q]
          /\ sock'[c] = h
      BY <1>1, <1>2, <1>5, <1>8, <2>1, <2>2, <2>3, OneChanged
    <2> QED BY <1>2, <1>3, <2>4 DEF c, h
  <1>11. CASE l # None
    <2>1. l # c BY <1>2, <1>4, <1>9, <1>11
    <2>2. sock[l] \in Socket /\ sock[l].pending \in Seq(Object)
      BY <1>9, <1>11, UsedFacts DEF Socket
    <2> DEFINE d == Append(sock[l].pending, c)
               r == [sock[l] EXCEPT !.pending = d]
    <2>3. d \in Seq(Object) /\ \A i \in DOMAIN d :
            d[i] = c \/ (i \in DOMAIN sock[l].pending /\ d[i] = sock[l].pending[i])
      BY <1>2, <2>2
    <2>4. sock' = [sock EXCEPT ![c] = h, ![l].pending = Append(@, c)] BY <1>1, <1>11
    <2>5. /\ sock'[l] = [sock[l] EXCEPT !.pending = Append(sock[l].pending, c)]
          /\ sock'[c] = h /\ DOMAIN sock' = Object
          /\ \A q \in Object : q \notin {c, l} => sock'[q] = sock[q]
      BY <1>2, <1>9, <1>11, <2>1, <2>4 DEF TypeOK
    <2>6. sock'[l] = r BY <2>5
    <2> HIDE DEF d
    <2>7. r \in Socket /\ r.peer = None /\ r.state = "LISTEN" /\ r.pending = d
      BY <1>9, <1>11, <2>2, <2>3 DEF Socket
    <2> HIDE DEF r
    <2>8. \A q \in Object : sock'[q] \in Socket <=> sock[q] \in Socket
      BY <1>3, <1>5, <2>2, <2>5, <2>6, <2>7
    <2>9. \A q \in Object : sock'[q] = Unused <=> sock[q] = Unused
      BY <1>3, <1>5, <2>2, <2>5, <2>6, <2>7, UsedFacts
    <2>10. Used' = Used BY <2>9 DEF Used
    <2>11. sock' \in [Object -> Socket \cup {Unused}]
      <3>1. \A q \in Object : sock'[q] \in Socket \cup {Unused} BY <2>8, <2>9 DEF TypeOK
      <3>2. sock' = [q \in Object |-> sock'[q]] BY <2>4 DEF TypeOK
      <3> QED BY <3>1, <3>2
    <2>12. \A q \in Used : /\ sock'[q].peer = sock[q].peer
                           /\ sock'[q].state = "SYN_RECEIVED" => sock[q].state = "SYN_RECEIVED"
                           /\ sock'[q].peer = None <=> sock'[q].state \in {"LISTEN", "CLOSED"}
                           /\ q # l => sock'[q].pending = sock[q].pending
      BY <1>2, <1>4, <1>5, <1>7, <1>8, <1>9, <1>11, <2>5, <2>6, <2>7, UsedFacts DEF Kinds
    <2>13. \A q : Connected(q) => Connected(q)' BY <2>10, <2>12 DEF Connected
    <2>19. PICK k : k = c OBVIOUS
    <2>14. Connected(k)'
      BY <2>19, <1>2, <1>4, <1>5, <1>9, <1>11, <2>5, <2>10 DEF Connected
    <2>15. \A q \in Used : \A i \in DOMAIN sock'[q].pending :
             \/ sock'[q].pending[i] = c
             \/ \E j \in DOMAIN sock[q].pending : sock'[q].pending[i] = sock[q].pending[j]
      BY <2>3, <2>6, <2>7, <2>12
    <2>16. Kinds'
      <3>1. \A i \in DOMAIN sockets' : sockets'[i] \in Used BY <1>1 DEF Kinds
      <3>2. \A q \in Used : \A i \in DOMAIN sock'[q].pending : sock'[q].pending[i] \in Used
        BY <1>2, <2>15 DEF Kinds
      <3>3. \A q \in Used : sock'[q].peer # None => sock'[q].pending = <<>>
        BY <1>9, <1>11, <2>12 DEF Kinds
      <3> QED BY <2>10, <2>12, <3>1, <3>2, <3>3 DEF Kinds
    <2>17. PendingConnected'
      <3> SUFFICES ASSUME NEW q \in Used, NEW i \in DOMAIN sock'[q].pending
                   PROVE  Connected(sock[q].pending[i])'
        BY <2>10 DEF PendingConnected
      <3>1. PICK w : w = sock'[q].pending[i] OBVIOUS
      <3>2. Connected(w)'
        <4>1. CASE w = c BY <4>1, <2>14, <2>19
        <4>2. CASE w # c
          <5>1. PICK j \in DOMAIN sock[q].pending : w = sock[q].pending[j] BY <2>15, <3>1, <4>2
          <5>2. Connected(w) BY <5>1 DEF PendingConnected
          <5> QED BY <5>2, <2>13
        <4> QED BY <4>1, <4>2
      <3> QED BY <3>1, <3>2 DEF Connected
    <2>18. \A q \in Used : q # c =>
              \/ sock'[q] = sock[q]
              \/ /\ q = Listener /\ sock[c].state = "SYN_RECEIVED" /\ h.state = "ESTABLISHED"
                 /\ sock'[q] = [sock[q] EXCEPT !.pending = Append(sock[q].pending, c)]
      BY <1>9, <1>11, <2>5, UsedFacts
    <2> QED BY <1>2, <1>3, <2>5, <2>10, <2>11, <2>13, <2>16, <2>17, <2>18 DEF c, h
  <1> QED BY <1>10, <1>11

\* The first segment of a connection makes a socket, unless there is no number.
Opens(p) ==
  LET s == NewSocket("SYN_RECEIVED", p, Isn + 1, 1) IN
  /\ Numbers # {} /\ Spares # {} /\ Listener # None /\ Connection(p) = None
  /\ sock' = [sock EXCEPT ![Fresh] = s] /\ sockets' = Append(sockets, Fresh)
  /\ out' = [out EXCEPT ![p] = @ \cup {<<"synack", Isn>>}]
  /\ raced' = (raced \/ pc \in {"find", "tail", "shrink", "destroy"})
  /\ UNCHANGED <<halted, deleted>>

LEMMA SynFacts ==
  ASSUME NEW p \in Peers, NEW g \in Segment, ReceiveSyn(p, g)
  PROVE  /\ g.syn
         /\ \/ halted' = TRUE /\ UNCHANGED <<sock, sockets, deleted, out, raced>>
            \/ Opens(p)
  BY DEF ReceiveSyn, Opens

LEMMA OpensFacts ==
  ASSUME Shape, NEW p \in Peers, Opens(p)
  PROVE  /\ Kinds' /\ PendingConnected' /\ Used' = Used \cup {Fresh} /\ Fresh \notin Used
         /\ Fresh \in Object
         /\ sock' \in [Object -> Socket \cup {Unused}] /\ sockets' \in Seq(Object)
         /\ \A q : Connected(q) => Connected(q)'
         /\ \A q \in Used : sock'[q] = sock[q]
         /\ \E s \in Socket :
              /\ sock'[Fresh] = s /\ s.num = Number /\ s.state = "SYN_RECEIVED" /\ s.peer = p
              /\ s.sseq = Isn + 1 /\ s.rseq = 1 /\ s.queue = <<>> /\ s.pending = <<>>
              /\ s.got = <<>> /\ s.accepts = 0
  <1>1. PICK s : s = NewSocket("SYN_RECEIVED", p, Isn + 1, 1) OBVIOUS
  <1>2. /\ Numbers # {} /\ Spares # {}
        /\ sock' = [sock EXCEPT ![Fresh] = s] /\ sockets' = Append(sockets, Fresh)
    BY <1>1 DEF Opens
  <1>3. "SYN_RECEIVED" \in States /\ p \in Peers \cup {None} /\ Isn + 1 \in Nat /\ 1 \in Nat
    BY ObjectFacts DEF States
  <1>4. /\ s \in Socket /\ s.num = Number /\ s.state = "SYN_RECEIVED" /\ s.peer = p
        /\ s.sseq = Isn + 1 /\ s.rseq = 1 /\ s.queue = <<>> /\ s.pending = <<>>
        /\ s.got = <<>> /\ s.accepts = 0
    BY <1>1, <1>2, <1>3, NewSocketFacts
  <1>5. s.peer = None <=> s.state \in {"LISTEN", "CLOSED"} BY <1>4, ObjectFacts
  <1>6. /\ Kinds' /\ PendingConnected' /\ Used' = Used \cup {Fresh} /\ Fresh \notin Used
        /\ Fresh \in Object /\ sock'[Fresh] = s
        /\ sock' \in [Object -> Socket \cup {Unused}] /\ sockets' \in Seq(Object)
        /\ \A q : Connected(q) => Connected(q)'
        /\ \A q \in Used : sock'[q] = sock[q]
    BY <1>2, <1>4, <1>5, OneMore
  <1> QED BY <1>4, <1>6

\* What the program holds stays as it is while a segment is handled.
LEMMA LocalsKept ==
  ASSUME Shape, UNCHANGED program, Used \subseteq Used',
         \A q : Connected(q) => Connected(q)',
         \A q \in Used : /\ sock'[q].peer = sock[q].peer
                         /\ sock[q].peer = None => /\ sock'[q].state = sock[q].state
                                                   /\ sock[q].pending # <<>> => sock'[q].pending # <<>>
                         /\ sock[q].state \in {"ESTABLISHED", "CLOSE_WAIT"} =>
                              sock'[q].state \in {"ESTABLISHED", "CLOSE_WAIT"},
         \A q \in Peers : Finned(q) => Finned(q)',
         \A i \in DOMAIN sockets : i \in DOMAIN sockets'
  PROVE  Locals'
  <1> USE DEF Shape
  <1>1. UNCHANGED <<pc, server, client, orphan, index, spare>> BY DEF program
  <1>2. server # None => server \in Used /\ sock[server].peer = None BY DEF Locals
  <1>3. pc \in Working => Connected(client) /\ Connected(client)' /\ client \in Used
    BY <1>1 DEF Locals, Connected
  <1>4. pc \in Removing /\ client # server => Connected(client)'
    BY <1>1 DEF Locals, Connected
  <1>5. pc \in {"finseq", "finstate"} => Finned(sock[client].peer)'
    <2> SUFFICES ASSUME pc \in {"finseq", "finstate"} PROVE Finned(sock[client].peer)' OBVIOUS
    <2>1. client \in Used /\ sock[client].peer # None /\ Finned(sock[client].peer)
      BY <1>3 DEF Locals, Working, Connected
    <2>2. PICK q : q = sock[client].peer OBVIOUS
    <2>3. q \in Peers BY <2>1, <2>2, UsedFacts DEF Socket
    <2>4. Finned(q)' BY <2>1, <2>2, <2>3
    <2> QED BY <1>1, <2>1, <2>2, <2>4 DEF Finned
  <1>6. pc \in Finishing => sock'[client].state \in {"ESTABLISHED", "CLOSE_WAIT"}
    BY <1>3 DEF Locals, Finishing, Working
  <1>7. server # None =>
       /\ server \in Used' /\ sock'[server].peer = None
       /\ sock'[server].state = sock[server].state
       /\ sock[server].pending # <<>> => sock'[server].pending # <<>>
    BY <1>2
  <1>8. pc = "shrink" => sockets' # <<>>
    <2> SUFFICES ASSUME pc = "shrink" PROVE sockets' # <<>> OBVIOUS
    <2>1. sockets # <<>> /\ sockets \in Seq(Object) BY DEF Locals, TypeOK
    <2>2. Len(sockets) \in Nat \ {0} BY <2>1, EmptySeq
    <2>3. 1 \in DOMAIN sockets BY <2>1, <2>2
    <2> QED BY <2>3
  <1>9. pc = "tail" => index \in DOMAIN sockets' BY DEF Locals
  <1>10. pc = "destroy" => index \in Nat \ {0} /\ spare \in Used' BY DEF Locals
  <1>11. pc \in Removing => client # None BY DEF Locals
  <1>12. pc \in Removing /\ client = server => sock'[server].state = "CLOSED"
    BY <1>7, <1>11 DEF Locals
  <1>13. pc = "shell" <=> server = None BY DEF Locals
  <1>14. server # None =>
       /\ sock'[server].state = "CLOSED" => orphan \in Nat \ {0}
       /\ pc \in Serving => sock'[server].state = "LISTEN"
       /\ pc = "orphans" => sock'[server].state = "CLOSED"
       /\ pc = "pop" => sock'[server].pending # <<>>
    BY <1>7 DEF Locals
  <1> QED
    BY <1>1, <1>3, <1>4, <1>5, <1>6, <1>7, <1>8, <1>9, <1>10, <1>11, <1>12, <1>13, <1>14
    DEF Locals

LEMMA DeliverShape == ASSUME Shape, NEW p \in Peers, Deliver(p) PROVE Shape'
  <1> USE DEF Shape
  <1>1. PICK i \in DOMAIN net[p] :
          /\ Leaves(p, i) /\ net[p][i] \in Segment
          /\ \/ ReceiveKnown(p, net[p][i])
             \/ ReceiveSyn(p, net[p][i])
             \/ ReceiveOther(p, net[p][i])
    BY DeliverFacts
  <1>2. UNCHANGED <<program, peer, ordered>> BY DEF Deliver
  <1>3. net' \in [Peers -> Seq(Segment)] /\ copies' \in Nat BY <1>1 DEF Leaves
  <1>4. PICK g \in Segment : g = net[p][i] BY <1>1
  <1>5. <<"synack", Isn>> \in Sent BY ObjectFacts DEF Sent
  <1>6. CASE ReceiveKnown(p, g)
    <2>1. PICK c : c = Connection(p) OBVIOUS
    <2>2. PICK h : h = Handled(sock[c], g) OBVIOUS
    <2>3. /\ c \in Used /\ sock[c].peer = p /\ sock[c] \in Socket /\ sock'[c] = h
          /\ Kinds' /\ PendingConnected' /\ Used' = Used
          /\ sock' \in [Object -> Socket \cup {Unused}]
          /\ \A q : Connected(q) => Connected(q)'
          /\ \A q \in Used : q # c =>
               \/ sock'[q] = sock[q]
               \/ sock'[q] = [sock[q] EXCEPT !.pending = Append(sock[q].pending, c)]
      BY <1>6, <2>1, <2>2, KnownFacts
    <2>4. /\ h.peer = p
          /\ h.state # sock[c].state => <<sock[c].state, h.state>> \in Diagram
          /\ h.state = "FIN_WAIT_1" => sock[c].state = "FIN_WAIT_1"
      BY <2>2, <2>3, HandledFacts
    <2>5. UNCHANGED <<sockets, deleted, halted>> /\ out' \in [Peers -> SUBSET Sent]
          /\ raced' \in BOOLEAN /\ \A q \in Peers : out[q] \subseteq out'[q]
      <3>1. UNCHANGED <<sockets, deleted, halted>> /\ raced' \in BOOLEAN
        BY <1>6 DEF ReceiveKnown, TypeOK
      <3>2. out' = [out EXCEPT ![p] = @ \cup {<<"synack", Isn>>}] \/ out' = out
        BY <1>6 DEF ReceiveKnown
      <3>3. out \in [Peers -> SUBSET Sent] BY DEF TypeOK
      <3>4. CASE out' = out BY <3>1, <3>3, <3>4
      <3>5. CASE out' = [out EXCEPT ![p] = @ \cup {<<"synack", Isn>>}]
        <4>1. out[p] \cup {<<"synack", Isn>>} \in SUBSET Sent BY <1>5, <3>3
        <4>2. out' \in [Peers -> SUBSET Sent] BY <3>3, <3>5, <4>1
        <4>3. \A q \in Peers : out[q] \subseteq out'[q] BY <3>3, <3>5
        <4> QED BY <3>1, <4>2, <4>3
      <3> QED BY <3>2, <3>4, <3>5
    <2>6. \A q \in Used :
             /\ sock'[q].peer = sock[q].peer
             /\ sock[q].peer = None =>
                  /\ sock'[q].state = sock[q].state
                  /\ sock[q].pending # <<>> => sock'[q].pending # <<>>
             /\ sock[q].state \in {"ESTABLISHED", "CLOSE_WAIT"} =>
                  sock'[q].state \in {"ESTABLISHED", "CLOSE_WAIT"}
      <3> SUFFICES ASSUME NEW q \in Used
                   PROVE  /\ sock'[q].peer = sock[q].peer
                          /\ sock[q].peer = None =>
                               /\ sock'[q].state = sock[q].state
                               /\ sock[q].pending # <<>> => sock'[q].pending # <<>>
                          /\ sock[q].state \in {"ESTABLISHED", "CLOSE_WAIT"} =>
                               sock'[q].state \in {"ESTABLISHED", "CLOSE_WAIT"}
        OBVIOUS
      <3>1. CASE q = c
        <4>1. p # None BY ObjectFacts
        <4>2. sock[c].state \in {"ESTABLISHED", "CLOSE_WAIT"} =>
                h.state \in {"ESTABLISHED", "CLOSE_WAIT"}
          BY <2>4 DEF Diagram
        <4> QED BY <2>3, <2>4, <3>1, <4>1, <4>2
      <3>2. CASE q # c
        <4>1. sock[q] \in Socket BY UsedFacts
        <4>2. PICK d : d = Append(sock[q].pending, c) OBVIOUS
        <4>3. d # <<>> BY <4>1, <4>2 DEF Socket
        <4> QED BY <2>3, <3>2, <4>1, <4>2, <4>3 DEF Socket
      <3> QED BY <3>1, <3>2
    <2>7. \A q \in Peers : Finned(q) => Finned(q)' BY <2>5 DEF Finned
    <2>8. Locals' BY <1>2, <2>3, <2>5, <2>6, <2>7, LocalsKept
    <2>9. TypeOK' BY <1>2, <1>3, <2>3, <2>5 DEF TypeOK, program
    <2> QED BY <2>3, <2>8, <2>9
  <1>7. CASE ReceiveSyn(p, g)
    <2>1. CASE halted' = TRUE /\ UNCHANGED <<sock, sockets, deleted, out, raced>>
      <3>1. TypeOK' BY <1>2, <1>3, <2>1 DEF TypeOK, program
      <3>2. Kinds' /\ PendingConnected' /\ Used' = Used /\ \A q : Connected(q) => Connected(q)'
        BY <2>1, SocksSame DEF Sockets
      <3>3. \A q \in Peers : Finned(q) => Finned(q)' BY <2>1 DEF Finned
      <3>4. Locals' BY <1>2, <2>1, <3>2, <3>3, LocalsKept
      <3> QED BY <3>1, <3>2, <3>4
    <2>2. CASE Opens(p)
      <3>1. /\ Kinds' /\ PendingConnected' /\ Used' = Used \cup {Fresh}
            /\ sock' \in [Object -> Socket \cup {Unused}] /\ sockets' \in Seq(Object)
            /\ \A q : Connected(q) => Connected(q)'
            /\ \A q \in Used : sock'[q] = sock[q]
        BY <2>2, OpensFacts
      <3>2. /\ out' = [out EXCEPT ![p] = @ \cup {<<"synack", Isn>>}]
            /\ raced' \in BOOLEAN /\ UNCHANGED <<halted, deleted>>
            /\ sockets' = Append(sockets, Fresh)
        BY <2>2 DEF Opens, TypeOK
      <3>3. out' \in [Peers -> SUBSET Sent] /\ \A q \in Peers : out[q] \subseteq out'[q]
        BY <3>2, <1>5 DEF TypeOK
      <3>4. TypeOK' BY <1>2, <1>3, <3>1, <3>2, <3>3 DEF TypeOK, program
      <3>5. \A q \in Peers : Finned(q) => Finned(q)' BY <3>3 DEF Finned
      <3>6. \A i1 \in DOMAIN sockets : i1 \in DOMAIN sockets'
        BY <3>1, <3>2 DEF TypeOK
      <3>7. Locals' BY <1>2, <3>1, <3>5, <3>6, LocalsKept
      <3> QED BY <3>1, <3>4, <3>7
    <2> QED BY <1>7, <2>1, <2>2, SynFacts
  <1>8. CASE ReceiveOther(p, g)
    <2>1. UNCHANGED <<sock, sockets, deleted, halted, out, raced>>
      BY <1>8 DEF ReceiveOther, table
    <2>2. TypeOK' BY <1>2, <1>3, <2>1 DEF TypeOK, program
    <2>3. Kinds' /\ PendingConnected' /\ Used' = Used /\ \A q : Connected(q) => Connected(q)'
      BY <2>1, SocksSame DEF Sockets
    <2>4. \A q \in Peers : Finned(q) => Finned(q)' BY <2>1 DEF Finned
    <2>5. Locals' BY <1>2, <2>1, <2>3, <2>4, LocalsKept
    <2> QED BY <2>2, <2>3, <2>5
  <1> QED BY <1>1, <1>4, <1>6, <1>7, <1>8

\* What a remote end sends, and how its state changes with it.
Talks(p, r, g) ==
  \/ /\ peer[p].st = "closed" /\ r.st = "syn" /\ r.sent = 0
     /\ g.syn /\ ~ g.fin /\ g.ack = 0 /\ g.data = 0
  \/ /\ \/ peer[p].st = "syn" /\ out[p] # {} /\ r.st = "open"
        \/ peer[p].st \in {"open", "done"} /\ r.st = peer[p].st
     /\ r.sent = peer[p].sent /\ ~ g.syn /\ ~ g.fin /\ g.data = 0
  \/ /\ peer[p].st = "open" /\ r.st \in {"open", "done"} /\ r.sent = peer[p].sent + 1
     /\ ~ g.syn /\ (g.fin => r.st = "done") /\ g.data = peer[p].sent + 1
  \/ /\ peer[p].st = "open" /\ r.st = "done" /\ r.sent = peer[p].sent
     /\ ~ g.syn /\ g.fin /\ g.data = 0

LEMMA PeerFacts ==
  ASSUME Shape, NEW p \in Peers, Peer(p)
  PROVE  \E r \in Remote, g \in Segment :
           /\ peer' = [peer EXCEPT ![p] = r] /\ net' = [net EXCEPT ![p] = Append(@, g)]
           /\ Talks(p, r, g)
           /\ UNCHANGED <<table, program, ordered, copies, out, raced>>
  <1> USE DEF Shape
  <1>1. peer[p] \in Remote /\ out[p] \subseteq Sent BY DEF TypeOK
  <1>2. peer[p].seen \in Nat /\ peer[p].sent \in Nat BY <1>1 DEF Remote
  <1>3. ASSUME NEW st \in {"closed", "syn", "open", "done"}, NEW seen \in Nat, NEW sent \in Nat,
               NEW sy \in BOOLEAN, NEW f \in BOOLEAN, NEW a \in Nat, NEW d \in Nat,
               Emit(p, st, seen, sent, Seg(sy, f, a, d)),
               Talks(p, [st |-> st, seen |-> seen, sent |-> sent], Seg(sy, f, a, d))
        PROVE  \E r \in Remote, g \in Segment :
                 /\ peer' = [peer EXCEPT ![p] = r] /\ net' = [net EXCEPT ![p] = Append(@, g)]
                 /\ Talks(p, r, g)
                 /\ UNCHANGED <<table, program, ordered, copies, out, raced>>
    <2>1. [st |-> st, seen |-> seen, sent |-> sent] \in Remote BY DEF Remote
    <2>2. Seg(sy, f, a, d) \in Segment BY DEF Seg, Segment
    <2> QED BY <1>3, <2>1, <2>2 DEF Emit
  <1>4. CASE PeerConnects(p)
    <2>1. Emit(p, "syn", 0, 0, Seg(TRUE, FALSE, 0, 0)) /\ peer[p].st = "closed"
      BY <1>4 DEF PeerConnects
    <2>2. Talks(p, [st |-> "syn", seen |-> 0, sent |-> 0], Seg(TRUE, FALSE, 0, 0))
      BY <2>1 DEF Talks, Seg
    <2> QED BY <2>1, <2>2, <1>3
  <1>5. CASE PeerAcknowledges(p)
    <2>1. PICK x \in out[p] :
            /\ IF x[1] = "synack" THEN peer[p].st = "syn"
               ELSE peer[p].st \in {"open", "done"} /\ x[2] = peer[p].seen
            /\ Emit(p, IF x[1] = "synack" THEN "open" ELSE peer[p].st, x[2] + 1,
                    peer[p].sent, Seg(FALSE, FALSE, x[2] + 1, 0))
      BY <1>5 DEF PeerAcknowledges
    <2>2. PICK n \in Nat : n = x[2] + 1 BY <1>1 DEF Sent
    <2>3. PICK st \in {"open", "done"} : st = IF x[1] = "synack" THEN "open" ELSE peer[p].st
      BY <2>1
    <2>4. PICK k \in Nat : k = peer[p].sent BY <1>2
    <2>5. Emit(p, st, n, k, Seg(FALSE, FALSE, n, 0)) BY <2>1, <2>2, <2>3, <2>4
    <2>6. \/ peer[p].st = "syn" /\ out[p] # {} /\ st = "open"
          \/ peer[p].st \in {"open", "done"} /\ st = peer[p].st
      BY <2>1, <2>3
    <2>7. Talks(p, [st |-> st, seen |-> n, sent |-> k], Seg(FALSE, FALSE, n, 0))
      BY <2>4, <2>6 DEF Talks, Seg
    <2> QED BY <2>5, <2>7, <1>3
  <1>6. CASE PeerSends(p)
    <2>1. PICK last \in BOOLEAN :
            /\ peer[p].st = "open"
            /\ Emit(p, IF last THEN "done" ELSE "open", peer[p].seen, peer[p].sent + 1,
                    Seg(FALSE, last, peer[p].seen, peer[p].sent + 1))
      BY <1>6 DEF PeerSends
    <2>2. PICK k \in Nat : k = peer[p].sent + 1 BY <1>2
    <2>3. PICK st \in {"open", "done"} : st = IF last THEN "done" ELSE "open" OBVIOUS
    <2>4. PICK n \in Nat : n = peer[p].seen BY <1>2
    <2>5. Emit(p, st, n, k, Seg(FALSE, last, n, k)) BY <2>1, <2>2, <2>3, <2>4
    <2>6. Talks(p, [st |-> st, seen |-> n, sent |-> k], Seg(FALSE, last, n, k))
      BY <2>1, <2>2, <2>3 DEF Talks, Seg
    <2> QED BY <2>5, <2>6, <1>3
  <1>7. CASE PeerCloses(p)
    <2>1. /\ peer[p].st = "open"
          /\ Emit(p, "done", peer[p].seen, peer[p].sent, Seg(FALSE, TRUE, peer[p].seen, 0))
      BY <1>7 DEF PeerCloses
    <2>2. PICK k \in Nat : k = peer[p].sent BY <1>2
    <2>3. PICK n \in Nat : n = peer[p].seen BY <1>2
    <2>4. Emit(p, "done", n, k, Seg(FALSE, TRUE, n, 0)) BY <2>1, <2>2, <2>3
    <2>5. Talks(p, [st |-> "done", seen |-> n, sent |-> k], Seg(FALSE, TRUE, n, 0))
      BY <2>1, <2>2 DEF Talks, Seg
    <2> QED BY <2>4, <2>5, <1>3
  <1> QED BY <1>4, <1>5, <1>6, <1>7 DEF Peer

LEMMA PeerShape == ASSUME Shape, NEW p \in Peers, Peer(p) PROVE Shape'
  <1> USE DEF Shape
  <1>1. PICK r \in Remote, g \in Segment :
           /\ peer' = [peer EXCEPT ![p] = r] /\ net' = [net EXCEPT ![p] = Append(@, g)]
           /\ UNCHANGED <<table, program, ordered, copies, out, raced>>
    BY PeerFacts
  <1>2. peer' \in [Peers -> Remote] /\ net' \in [Peers -> Seq(Segment)]
    BY <1>1 DEF TypeOK
  <1>3. TypeOK' BY <1>1, <1>2 DEF TypeOK, table, program
  <1>4. Kinds' /\ PendingConnected' /\ Used' = Used /\ \A q : Connected(q) => Connected(q)'
    BY <1>1, SocksSame DEF Sockets, table
  <1>5. \A q \in Peers : Finned(q) => Finned(q)' BY <1>1 DEF Finned
  <1>6. Locals' BY <1>1, <1>4, <1>5, LocalsKept DEF table
  <1> QED BY <1>3, <1>4, <1>6

LEMMA ShapeInit == Init => Shape
  <1> SUFFICES ASSUME Init PROVE Shape OBVIOUS
  <1>1. TypeOK
    BY EmptySeq DEF Init, TypeOK, Places, Unused, Remote
  <1>2. Used = {} BY DEF Init, Used
  <1> QED BY <1>1, <1>2
       DEF Init, Shape, Kinds, PendingConnected, Locals, Working, Removing, Finishing

LEMMA ShapeNext == ASSUME Shape, Next PROVE Shape'
  <1>1. CASE Program
    BY <1>1, ServeShape, AcceptBackShape, AcceptPopShape, RecvShape, SendShape,
       SendAdvanceShape, EscapeShape, CloseOrphanShape, CloseShape, CloseFinShape,
       CloseAdvanceShape, CloseStateShape, RemoveFindShape, RemoveTailShape,
       RemoveShrinkShape, RemoveDestroyShape
    DEF Program, RemoveStep
  <1> QED BY <1>1, DeliverShape, PeerShape DEF Next

LEMMA ShapeSame == Shape /\ UNCHANGED vars => Shape'
  BY DEF Shape, vars, table, program, remote, TypeOK, Kinds, PendingConnected, Locals, Used,
         Connected, Finned

-----------------------------------------------------------------------------
(* What the two ends know of each other.                                   *)

\* What the program does to a connection, as far as the ends and the stream are
\* concerned: nothing, or it stores FIN_WAIT_1 after its FIN was sent.
SameStream(q) ==
  /\ q \in Used /\ sock'[q].peer = sock[q].peer
  /\ sock'[q].rseq = sock[q].rseq /\ sock'[q].dropped = sock[q].dropped
  /\ sock'[q].got \o sock'[q].queue = sock[q].got \o sock[q].queue
SameEnd(q) ==
  \/ /\ sock'[q].state = sock[q].state
     /\ sock[q].state = "SYN_RECEIVED" => sock'[q].sseq = sock[q].sseq
  \/ Connected(q) /\ Finned(sock[q].peer) /\ sock'[q].state = "FIN_WAIT_1"
OldTable == \A q \in Sockets' : q \in Sockets \/ sock'[q].peer = None

\* Taking the first element of a queue and appending it to what was read.
LEMMA MoveHead ==
  ASSUME NEW S, NEW a \in Seq(S), NEW b \in Seq(S), b # <<>>
  PROVE  Append(a, Head(b)) \o Tail(b) = a \o b
  <1> DEFINE c == Append(a, Head(b))
             d == Tail(b)
  <1>1. Len(b) \in Nat \ {0} /\ Head(b) = b[1] /\ Head(b) \in S BY EmptySeq
  <1>2. d \in Seq(S) /\ Len(d) = Len(b) - 1 /\ \A i \in 1 .. Len(d) : d[i] = b[i + 1]
    BY <1>1, HeadTailProperties
  <1>3. c \in Seq(S) /\ Len(c) = Len(a) + 1 /\ \A i \in 1 .. Len(a) + 1 :
          c[i] = IF i <= Len(a) THEN a[i] ELSE b[1]
    BY <1>1, AppendProperties
  <1> HIDE DEF c, d
  <1>4. Len(a) \in Nat OBVIOUS
  <1>5. /\ c \o d \in Seq(S) /\ Len(c \o d) = Len(c) + Len(d)
        /\ \A i \in 1 .. Len(c) + Len(d) :
             (c \o d)[i] = IF i <= Len(c) THEN c[i] ELSE d[i - Len(c)]
    BY <1>2, <1>3, ConcatProperties
  <1>6. /\ a \o b \in Seq(S) /\ Len(a \o b) = Len(a) + Len(b)
        /\ \A i \in 1 .. Len(a) + Len(b) :
             (a \o b)[i] = IF i <= Len(a) THEN a[i] ELSE b[i - Len(a)]
    BY ConcatProperties
  <1>7. Len(c \o d) = Len(a \o b) BY <1>1, <1>2, <1>3, <1>4, <1>5, <1>6
  <1>8. \A i \in 1 .. Len(c \o d) : (c \o d)[i] = (a \o b)[i]
    <2> SUFFICES ASSUME NEW i \in 1 .. Len(c \o d) PROVE (c \o d)[i] = (a \o b)[i] OBVIOUS
    <2>1. i \in 1 .. Len(a) + Len(b) /\ i \in Nat BY <1>1, <1>4, <1>6, <1>7
    <2>2. CASE i <= Len(a)
      <3>1. (c \o d)[i] = c[i] BY <1>3, <1>4, <1>5, <2>1, <2>2
      <3>2. c[i] = a[i] BY <1>3, <1>4, <2>1, <2>2
      <3>3. (a \o b)[i] = a[i] BY <1>6, <2>1, <2>2
      <3> QED BY <3>1, <3>2, <3>3
    <2>3. CASE i = Len(a) + 1
      <3>1. (c \o d)[i] = b[1] BY <1>3, <1>4, <1>5, <2>1, <2>3
      <3>2. (a \o b)[i] = b[1] BY <1>4, <1>6, <2>1, <2>3
      <3> QED BY <3>1, <3>2
    <2>4. CASE i > Len(a) + 1
      <3>1. (c \o d)[i] = d[i - (Len(a) + 1)] BY <1>3, <1>4, <1>5, <2>1, <2>4
      <3>2. i - (Len(a) + 1) \in 1 .. Len(d) BY <1>1, <1>2, <1>4, <2>1, <2>4
      <3>3. d[i - (Len(a) + 1)] = b[i - (Len(a) + 1) + 1] BY <1>2, <3>2
      <3>4. i - (Len(a) + 1) + 1 = i - Len(a) BY <1>4, <2>1
      <3>5. (a \o b)[i] = b[i - Len(a)] BY <1>4, <1>6, <2>1, <2>4
      <3> QED BY <3>1, <3>3, <3>4, <3>5
    <2> QED BY <2>1, <2>2, <2>3, <2>4, <1>4
  <1>9. c \o d = a \o b BY <1>5, <1>6, <1>7, <1>8, SeqEqual
  <1> QED BY <1>9 DEF c, d

LEMMA ProgramFacts ==
  ASSUME Shape, Program
  PROVE  /\ UNCHANGED <<peer, net, ordered>> /\ Used \subseteq Used' /\ OldTable
         /\ \A p \in Peers : /\ out[p] \subseteq out'[p]
                             /\ out'[p] # {} => out[p] # {} \/ ~ Unknown(p)
         /\ \A q \in Used' : sock'[q].peer # None => SameStream(q) /\ SameEnd(q)
  <1> USE DEF Shape
  <1>1. UNCHANGED <<peer, net, ordered>>
    BY DEF Program, Serve, AcceptBack, AcceptPop, Recv, Send, SendAdvance, Escape, CloseOrphan,
           Close, CloseFin, CloseAdvance, CloseState, RemoveStep, RemoveFind, RemoveTail,
           RemoveShrink, RemoveDestroy, remote
  <1>2. CASE UNCHANGED <<sock, out>> /\ \A i \in DOMAIN sockets' : sockets'[i] \in Sockets
    <2>1. Used' = Used BY <1>2 DEF Used
    <2> QED BY <1>1, <1>2, <2>1 DEF OldTable, Sockets, SameStream, SameEnd
  <1>3. CASE Serve
    <2>1. CASE Numbers = {}
      BY <1>2, <1>3, <2>1 DEF Serve, Sockets
    <2>2. CASE Numbers # {}
      <3>1. PICK s : s = NewSocket("LISTEN", None, 0, 0) OBVIOUS
      <3>2. "LISTEN" \in States /\ None \in Peers \cup {None} /\ 0 \in Nat BY DEF States
      <3>3. s \in Socket /\ s.state = "LISTEN" /\ s.peer = None /\ s.pending = <<>>
        BY <2>2, <3>1, <3>2, NewSocketFacts
      <3>4. Spares # {} /\ sock' = [sock EXCEPT ![Fresh] = s]
            /\ sockets' = Append(sockets, Fresh) /\ UNCHANGED out
        BY <1>3, <2>2, <3>1 DEF Serve
      <3>5. /\ Used' = Used \cup {Fresh} /\ Fresh \in Object /\ sock'[Fresh] = s
            /\ \A q \in Used : sock'[q] = sock[q]
        BY <2>2, <3>3, <3>4, OneMore
      <3>6. OldTable BY <3>3, <3>4, <3>5 DEF OldTable, Sockets, TypeOK
      <3> QED BY <1>1, <3>3, <3>4, <3>5, <3>6 DEF SameStream, SameEnd
    <2> QED BY <2>1, <2>2
  <1>4. CASE AcceptBack BY <1>2, <1>4 DEF AcceptBack, table, Sockets
  <1>5. CASE Send \/ CloseFin
    <2>1. UNCHANGED <<sock, sockets>> BY <1>5 DEF Send, CloseFin, table
    <2>2. PICK p : p = sock[client].peer OBVIOUS
    <2>3. p \in Peers /\ client \in Used
      BY <1>5, <2>2, UsedFacts DEF Send, CloseFin, At, Locals, Working, Connected, Socket
    <2>4. \E x : out' = [out EXCEPT ![p] = @ \cup {x}] BY <1>5, <2>2 DEF Send, CloseFin
    <2>5. \A q \in Peers : out[q] \subseteq out'[q] /\ (q # p => out'[q] = out[q])
      BY <2>4 DEF TypeOK
    <2>6. ~ Unknown(p) BY <2>2, <2>3 DEF Unknown
    <2>7. Used' = Used BY <2>1 DEF Used
    <2> QED BY <1>1, <2>1, <2>5, <2>6, <2>7 DEF OldTable, Sockets, SameStream, SameEnd
  <1>6. CASE SendAdvance \/ CloseAdvance
    <2>1. Advances /\ UNCHANGED <<sockets, out>> /\ Connected(client)
      BY <1>6 DEF SendAdvance, CloseAdvance, Advances, At, Locals, Working
    <2>2. /\ Used' = Used /\ client \in Used
          /\ \A q \in Used : q # client => sock'[q] = sock[q]
          /\ sock'[client] = [sock[client] EXCEPT !.sseq = @ + 1]
      BY <2>1, AdvanceFacts
    <2>3. sock[client] \in Socket /\ sock[client].state # "SYN_RECEIVED"
      BY <2>1, <2>2, UsedFacts DEF Connected
    <2>4. SameStream(client) /\ SameEnd(client)
      BY <2>2, <2>3 DEF SameStream, SameEnd, Socket
    <2> QED BY <1>1, <2>1, <2>2, <2>4 DEF OldTable, Sockets, SameStream, SameEnd
  <1>7. CASE CloseState
    <2>1. /\ Used' = Used /\ \A q \in Used : q # client => sock'[q] = sock[q]
          /\ Connected(client) /\ sock'[client] = [sock[client] EXCEPT !.state = "FIN_WAIT_1"]
      BY <1>7, CloseStateFacts
    <2>2. UNCHANGED <<sockets, out>> /\ Finned(sock[client].peer)
      BY <1>7 DEF CloseState, At, Locals
    <2>3. sock[client] \in Socket /\ client \in Used BY <2>1, UsedFacts DEF Connected
    <2>4. SameStream(client) /\ SameEnd(client)
      BY <2>1, <2>2, <2>3 DEF SameStream, SameEnd, Socket
    <2> QED BY <1>1, <2>1, <2>2, <2>4 DEF OldTable, Sockets, SameStream, SameEnd
  <1>8. CASE Close BY <1>2, <1>8 DEF Close, table, Sockets
  <1>9. CASE CloseOrphan BY <1>2, <1>9 DEF CloseOrphan, table, Sockets
  <1>10. CASE RemoveFind BY <1>2, <1>10 DEF RemoveFind, table, Sockets
  <1>11. CASE RemoveTail
    BY <1>2, <1>11, TailFacts DEF RemoveTail
  <1>12. CASE RemoveShrink
    BY <1>2, <1>12, ShrinkFacts DEF RemoveShrink
  <1>13. CASE RemoveDestroy BY <1>2, <1>13 DEF RemoveDestroy, Sockets
  <1>14. CASE Escape
    <2>1. /\ pc = "wait" /\ sock' = [sock EXCEPT ![server].state = "CLOSED"]
          /\ UNCHANGED <<sockets, out>>
      BY <1>14 DEF Escape, At
    <2>2. server \in Used /\ sock[server].peer = None /\ sock[server] \in Socket
      BY <2>1, UsedFacts DEF Locals
    <2>3. /\ sock'[server].peer = None /\ \A q \in Object : q # server => sock'[q] = sock[q]
          /\ sock'[server].state = "CLOSED"
      BY <2>1, <2>2, UsedFacts DEF TypeOK, Socket
    <2>4. Used' = Used
      <3>1. sock'[server] # Unused BY <2>3 DEF Unused
      <3> QED BY <2>2, <2>3, <3>1 DEF Used
    <2>5. \A q \in Used : sock'[q].peer # None => sock'[q] = sock[q]
      BY <2>3, UsedFacts
    <2> QED BY <1>1, <2>1, <2>4, <2>5 DEF OldTable, Sockets, SameStream, SameEnd
  <1>15. CASE AcceptPop
    <2>1. /\ pc = "pop" /\ UNCHANGED <<sockets, out>>
          /\ sock' = [sock EXCEPT ![server].pending = Front(@), ![client].accepts = @ + 1]
      BY <1>15 DEF AcceptPop, At
    <2>2. server \in Used /\ sock[server].peer = None /\ sock[server] \in Socket
          /\ client \in Used /\ sock[client].peer # None /\ sock[client] \in Socket
      BY <2>1, UsedFacts DEF Locals, Working, Connected
    <2>3. /\ sock'[client] = [sock[client] EXCEPT !.accepts = sock[client].accepts + 1]
          /\ sock'[server] = [sock[server] EXCEPT !.pending = Front(sock[server].pending)]
          /\ \A q \in Object : q \notin {client, server} => sock'[q] = sock[q]
      BY <2>1, <2>2, UsedFacts DEF TypeOK
    <2>4. sock'[server].peer = None /\ sock'[server].state = sock[server].state
          /\ sock'[client].state = sock[client].state
      BY <2>2, <2>3 DEF Socket
    <2>5. Used' = Used
      <3>1. sock'[server].state # "none" /\ sock'[client].state # "none"
        BY <2>2, <2>4 DEF Socket, States
      <3>2. sock'[server] # Unused /\ sock'[client] # Unused BY <3>1 DEF Unused
      <3> QED BY <2>2, <2>3, <3>2 DEF Used
    <2>6. SameStream(client) /\ SameEnd(client)
      BY <2>2, <2>3 DEF SameStream, SameEnd, Socket
    <2>7. \A q \in Used : q \notin {client, server} => sock'[q] = sock[q] BY <2>3, UsedFacts
    <2> QED BY <1>1, <2>1, <2>4, <2>5, <2>6, <2>7 DEF OldTable, Sockets, SameStream, SameEnd
  <1>16. CASE Recv
    <2>1. CASE sock[client].queue = <<>>
      BY <1>2, <1>16, <2>1 DEF Recv, Sockets
    <2>2. CASE sock[client].queue # <<>>
      <3>1. /\ pc = "serve" /\ UNCHANGED <<sockets, out>>
            /\ sock' = [sock EXCEPT ![client].queue = Tail(@),
                                    ![client].got = Append(@, Head(sock[client].queue))]
        BY <1>16, <2>2 DEF Recv, At
      <3>2. client \in Used /\ sock[client] \in Socket /\ client \in DOMAIN sock
        BY <3>1, UsedFacts DEF Locals, Working, Connected, TypeOK
      <3>3. sock[client].queue \in Seq(Nat) /\ sock[client].got \in Seq(Nat)
        BY <3>2 DEF Socket
      <3> DEFINE a == Append(sock[client].got, Head(sock[client].queue))
                 b == Tail(sock[client].queue)
      <3>4. a \o b = sock[client].got \o sock[client].queue BY <2>2, <3>3, MoveHead
      <3>5. /\ sock'[client] = [sock[client] EXCEPT !.queue = b, !.got = a]
            /\ \A q \in Object : q # client => sock'[q] = sock[q]
        BY <3>1, <3>2 DEF TypeOK
      <3> HIDE DEF a, b
      <3>6. /\ sock'[client].peer = sock[client].peer /\ sock'[client].rseq = sock[client].rseq
            /\ sock'[client].dropped = sock[client].dropped
            /\ sock'[client].got = a /\ sock'[client].queue = b
            /\ sock'[client].state = sock[client].state
            /\ sock'[client].sseq = sock[client].sseq
        BY <3>2, <3>5 DEF Socket
      <3>7. SameStream(client) /\ SameEnd(client)
        BY <3>2, <3>4, <3>6 DEF SameStream, SameEnd
      <3>8. Used' = Used
        <4>1. sock'[client].state # "none" BY <3>2, <3>6 DEF Socket, States
        <4>2. sock'[client] # Unused BY <4>1 DEF Unused
        <4> QED BY <3>2, <3>5, <4>2 DEF Used
      <3>9. \A q \in Used : q # client => sock'[q] = sock[q] BY <3>5, UsedFacts
      <3> QED BY <1>1, <3>1, <3>7, <3>8, <3>9 DEF OldTable, Sockets, SameStream, SameEnd
    <2> QED BY <2>1, <2>2
  <1> QED BY <1>3, <1>4, <1>5, <1>6, <1>7, <1>8, <1>9, <1>10, <1>11, <1>12, <1>13, <1>14, <1>15,
             <1>16 DEF Program, RemoveStep

LEMMA EndsProgram == ASSUME Shape, Ends, Program PROVE Ends'
  <1>1. /\ UNCHANGED <<peer, net>> /\ \A p \in Peers : out[p] \subseteq out'[p]
        /\ \A q \in Used' : sock'[q].peer # None => SameStream(q) /\ SameEnd(q)
    BY ProgramFacts
  <1>2. \A p \in Peers : Finned(p) => Finned(p)' BY <1>1 DEF Finned
  <1>3. \A q \in Used : sock[q].peer # None => sock[q].peer \in Peers
    BY UsedFacts DEF Shape, Socket
  <1>4. ASSUME NEW q \in Used', sock'[q].peer # None
        PROVE  LET s == sock'[q] IN
               /\ s.state = "SYN_RECEIVED" => s.sseq = Isn + 1
               /\ s.state # "SYN_RECEIVED" => peer[s.peer].st \in {"open", "done"}
               /\ s.state \in {"FIN_WAIT_1", "FIN_WAIT_2", "CLOSING", "TIME_WAIT"} =>
                    Finned(s.peer)
               /\ s.state = "TIME_WAIT" => peer[s.peer].st = "done"
    <2>1. q \in Used /\ sock'[q].peer = sock[q].peer BY <1>1, <1>4 DEF SameStream
    <2>2. CASE sock'[q].state = sock[q].state
               /\ (sock[q].state = "SYN_RECEIVED" => sock'[q].sseq = sock[q].sseq)
      BY <1>4, <2>1, <2>2 DEF Ends
    <2>3. CASE Connected(q) /\ Finned(sock[q].peer) /\ sock'[q].state = "FIN_WAIT_1"
      BY <1>4, <2>1, <2>3 DEF Ends, Connected
    <2> QED BY <1>1, <1>4, <2>2, <2>3 DEF SameEnd
  <1>5. ASSUME NEW q \in Used', sock'[q].peer # None, Finned(sock'[q].peer)
        PROVE  Finned(sock[q].peer)'
    <2>1. q \in Used /\ sock'[q].peer = sock[q].peer BY <1>1, <1>5 DEF SameStream
    <2>2. PICK p : p = sock'[q].peer OBVIOUS
    <2>3. Finned(p)' BY <1>2, <1>3, <1>5, <2>1, <2>2
    <2> QED BY <2>2, <2>3 DEF Finned
  <1>6. \A p \in Peers : \A i \in DOMAIN net'[p] :
          /\ net'[p][i].ack # 0 => peer'[p].st \in {"open", "done"}
          /\ net'[p][i].fin => peer'[p].st = "done"
    BY <1>1 DEF Ends
  <1> QED BY <1>1, <1>4, <1>5, <1>6 DEF Ends

LEMMA EndsDeliver == ASSUME Shape, Ends, NEW p \in Peers, Deliver(p) PROVE Ends'
  <1>1. PICK i \in DOMAIN net[p] :
          /\ Leaves(p, i) /\ net[p][i] \in Segment
          /\ \/ ReceiveKnown(p, net[p][i])
             \/ ReceiveSyn(p, net[p][i])
             \/ ReceiveOther(p, net[p][i])
    BY DeliverFacts
  <1>2. peer' = peer BY DEF Deliver
  <1>3. PICK g \in Segment : g = net[p][i] BY <1>1
  <1>4. \A q \in Peers : \A j \in DOMAIN net'[q] : \E k \in DOMAIN net[q] : net'[q][j] = net[q][k]
    BY <1>1, LeavesFacts
  <1>5. \A q \in Peers : \A j \in DOMAIN net'[q] :
          /\ net'[q][j].ack # 0 => peer'[q].st \in {"open", "done"}
          /\ net'[q][j].fin => peer'[q].st = "done"
    BY <1>2, <1>4 DEF Ends
  <1>6. g.ack # 0 => peer[p].st \in {"open", "done"} BY <1>3 DEF Ends
  <1>7. g.fin => peer[p].st = "done" BY <1>3 DEF Ends
  <1>8. p # None BY ObjectFacts
  <1>9. CASE ReceiveKnown(p, g)
    <2>1. PICK c : c = Connection(p) OBVIOUS
    <2>2. PICK h : h = Handled(sock[c], g) OBVIOUS
    <2>3. /\ c \in Used /\ sock[c].peer = p /\ sock[c] \in Socket /\ sock'[c] = h /\ Used' = Used
          /\ \A q \in Used : q # c =>
               \/ sock'[q] = sock[q]
               \/ q = Listener /\ sock'[q] = [sock[q] EXCEPT !.pending = Append(sock[q].pending, c)]
      BY <1>9, <2>1, <2>2, KnownFacts
    <2>4. /\ h \in Socket /\ h.peer = p
          /\ h.state # sock[c].state => <<sock[c].state, h.state>> \in Diagram
          /\ sock[c].state = "SYN_RECEIVED" /\ h.state # sock[c].state => g.ack = sock[c].sseq
          /\ h.sseq = sock[c].sseq \/ h.sseq = Isn + 1
          /\ h.state = "TIME_WAIT" => sock[c].state = "TIME_WAIT" \/ g.fin
          /\ h.state = "FIN_WAIT_1" => sock[c].state = "FIN_WAIT_1"
      BY <2>2, <2>3, HandledFacts
    <2>5. \A q \in Peers : Finned(q) => Finned(q)'
      <3>1. out' = [out EXCEPT ![p] = @ \cup {<<"synack", Isn>>}] \/ out' = out
        BY <1>9 DEF ReceiveKnown
      <3>2. \A q \in Peers : out[q] \subseteq out'[q] BY <3>1 DEF Shape, TypeOK
      <3> QED BY <3>2 DEF Finned
    <2>6. /\ h.state = "SYN_RECEIVED" => h.sseq = Isn + 1
          /\ h.state # "SYN_RECEIVED" => peer[p].st \in {"open", "done"}
          /\ h.state \in {"FIN_WAIT_1", "FIN_WAIT_2", "CLOSING", "TIME_WAIT"} => Finned(p)
          /\ h.state = "TIME_WAIT" => peer[p].st = "done"
      <3>1. /\ sock[c].state = "SYN_RECEIVED" => sock[c].sseq = Isn + 1
            /\ sock[c].state # "SYN_RECEIVED" => peer[p].st \in {"open", "done"}
            /\ sock[c].state \in {"FIN_WAIT_1", "FIN_WAIT_2", "CLOSING", "TIME_WAIT"} => Finned(p)
            /\ sock[c].state = "TIME_WAIT" => peer[p].st = "done"
        BY <1>8, <2>3 DEF Ends
      <3>2. h.state = "SYN_RECEIVED" => sock[c].state = "SYN_RECEIVED" BY <2>4 DEF Diagram
      <3>3. Isn + 1 # 0 BY ObjectFacts
      <3>4. h.state \in {"FIN_WAIT_1", "FIN_WAIT_2", "CLOSING", "TIME_WAIT"} =>
              sock[c].state \in {"FIN_WAIT_1", "FIN_WAIT_2", "CLOSING", "TIME_WAIT"}
        BY <2>4 DEF Diagram
      <3> QED BY <1>6, <1>7, <2>4, <3>1, <3>2, <3>3, <3>4
    <2>7. Finned(p) => Finned(p)' BY <2>5
    <2>8. ASSUME NEW q \in Used', sock'[q].peer # None
          PROVE  /\ sock'[q].state = "SYN_RECEIVED" => sock'[q].sseq = Isn + 1
                 /\ sock'[q].state # "SYN_RECEIVED" => peer'[sock'[q].peer].st \in {"open", "done"}
                 /\ sock'[q].state \in {"FIN_WAIT_1", "FIN_WAIT_2", "CLOSING", "TIME_WAIT"} =>
                      Finned(sock[q].peer)'
                 /\ sock'[q].state = "TIME_WAIT" => peer'[sock'[q].peer].st = "done"
      <3>1. CASE q = c BY <1>2, <2>3, <2>4, <2>6, <2>7, <3>1 DEF Finned
      <3>2. CASE q # c
        <4>1. sock'[q] = sock[q]
          <5>1. sock[q] \in Socket BY <2>3, UsedFacts DEF Shape
          <5>2. SUFFICES ASSUME sock'[q] # sock[q] PROVE FALSE
            OBVIOUS
          <5>3. q = Listener /\ sock'[q] = [sock[q] EXCEPT !.pending = Append(sock[q].pending, c)]
            BY <2>3, <3>2, <5>2
          <5>4. sock[q].peer = None BY <2>3, <5>3, ListenerFacts, ObjectFacts, UsedFacts DEF Shape
          <5>5. sock'[q].peer = None BY <5>1, <5>3, <5>4 DEF Socket
          <5> QED BY <2>8, <5>5
        <4>2. sock[q].peer \in Peers /\ q \in Used
          BY <2>3, <2>8, <4>1, UsedFacts DEF Shape, Socket
        <4>3. PICK w \in Peers : w = sock[q].peer BY <4>2
        <4>4. Finned(w) => Finned(w)' BY <2>5
        <4> QED BY <1>2, <2>8, <4>1, <4>2, <4>3, <4>4 DEF Ends, Finned
      <3> QED BY <3>1, <3>2
    <2> QED BY <1>5, <2>8 DEF Ends
  <1>10. CASE ReceiveSyn(p, g)
    <2>1. CASE UNCHANGED <<sock, sockets, deleted, out, raced>>
      <3>1. Used' = Used BY <2>1 DEF Used
      <3> QED BY <1>2, <1>5, <2>1, <3>1 DEF Ends, Finned
    <2>2. CASE Opens(p)
      <3>1. PICK f : f = Fresh OBVIOUS
      <3>2. /\ Used' = Used \cup {f} /\ \A q \in Used : sock'[q] = sock[q]
            /\ sock'[f].state = "SYN_RECEIVED" /\ sock'[f].sseq = Isn + 1
        BY <2>2, <3>1, OpensFacts
      <3>3. out' = [out EXCEPT ![p] = @ \cup {<<"synack", Isn>>}] BY <2>2 DEF Opens
      <3>4. \A q \in Peers : Finned(q) => Finned(q)'
        <4>1. \A q \in Peers : out[q] \subseteq out'[q] BY <3>3 DEF Shape, TypeOK
        <4> QED BY <4>1 DEF Finned
      <3>5. ASSUME NEW q \in Used', sock'[q].peer # None
          PROVE  /\ sock'[q].state = "SYN_RECEIVED" => sock'[q].sseq = Isn + 1
                 /\ sock'[q].state # "SYN_RECEIVED" => peer'[sock'[q].peer].st \in {"open", "done"}
                 /\ sock'[q].state \in {"FIN_WAIT_1", "FIN_WAIT_2", "CLOSING", "TIME_WAIT"} =>
                      Finned(sock[q].peer)'
                 /\ sock'[q].state = "TIME_WAIT" => peer'[sock'[q].peer].st = "done"
        <4>1. CASE q = f BY <3>2, <4>1
        <4>2. CASE q # f
          <5>1. q \in Used /\ sock'[q] = sock[q] BY <3>2, <4>2
          <5>2. sock[q].peer \in Peers BY <3>5, <5>1, UsedFacts DEF Shape, Socket
          <5>3. PICK w \in Peers : w = sock[q].peer BY <5>2
          <5>4. Finned(w) => Finned(w)' BY <3>4
          <5> QED BY <1>2, <3>5, <5>1, <5>3, <5>4 DEF Ends, Finned
        <4> QED BY <4>1, <4>2
      <3> QED BY <1>5, <3>5 DEF Ends
    <2> QED BY <1>10, <2>1, <2>2, SynFacts
  <1>11. CASE ReceiveOther(p, g)
    <2>1. UNCHANGED <<sock, out>> BY <1>11 DEF ReceiveOther, table
    <2>2. Used' = Used BY <2>1 DEF Used
    <2> QED BY <1>2, <1>5, <2>1, <2>2 DEF Ends, Finned
  <1> QED BY <1>1, <1>3, <1>9, <1>10, <1>11

LEMMA EndsPeer == ASSUME Shape, Ends, NEW p \in Peers, Peer(p) PROVE Ends'
  <1>1. PICK r \in Remote, g \in Segment :
           /\ peer' = [peer EXCEPT ![p] = r] /\ net' = [net EXCEPT ![p] = Append(@, g)]
           /\ Talks(p, r, g)
           /\ UNCHANGED <<table, program, ordered, copies, out, raced>>
    BY PeerFacts
  <1>2. /\ peer[p].st \in {"open", "done"} => r.st \in {"open", "done"}
        /\ peer[p].st = "done" => r.st = "done"
        /\ g.ack # 0 => r.st \in {"open", "done"}
        /\ g.fin => r.st = "done"
    BY <1>1 DEF Talks
  <1>3. /\ peer'[p] = r /\ \A q \in Peers : q # p => peer'[q] = peer[q]
        /\ net'[p] = Append(net[p], g) /\ \A q \in Peers : q # p => net'[q] = net[q]
    BY <1>1 DEF Shape, TypeOK
  <1>4. \A j \in DOMAIN net'[p] : net'[p][j] = g \/ \E k \in DOMAIN net[p] : net'[p][j] = net[p][k]
    BY <1>3 DEF Shape, TypeOK
  <1>5. \A q \in Peers : \A j \in DOMAIN net'[q] :
          /\ net'[q][j].ack # 0 => peer'[q].st \in {"open", "done"}
          /\ net'[q][j].fin => peer'[q].st = "done"
    BY <1>2, <1>3, <1>4 DEF Ends
  <1>6. UNCHANGED <<sock, out>> BY <1>1 DEF table
  <1>7. Used' = Used BY <1>6 DEF Used
  <1>8. \A q \in Used : sock[q].peer # None => sock[q].peer \in Peers
    BY UsedFacts DEF Shape, Socket
  <1>9. \A q \in Used : sock[q].peer # None =>
       LET s == sock[q] IN
       /\ s.state = "SYN_RECEIVED" => s.sseq = Isn + 1
       /\ s.state # "SYN_RECEIVED" => peer'[s.peer].st \in {"open", "done"}
       /\ s.state \in {"FIN_WAIT_1", "FIN_WAIT_2", "CLOSING", "TIME_WAIT"} => Finned(s.peer)
       /\ s.state = "TIME_WAIT" => peer'[s.peer].st = "done"
    BY <1>2, <1>3, <1>8 DEF Ends
  <1> QED BY <1>5, <1>6, <1>7, <1>9 DEF Ends, Finned

-----------------------------------------------------------------------------
(* While nothing is overtaken or repeated, a connection begins with its SYN. *)

LEMMA BeginsProgram == ASSUME Shape, Begins, Program PROVE Begins'
  <1>1. /\ UNCHANGED <<peer, net, ordered>>
        /\ \A p \in Peers : out'[p] # {} => out[p] # {} \/ ~ Unknown(p)
        /\ \A q \in Used' : sock'[q].peer # None => q \in Used /\ sock'[q].peer = sock[q].peer
    BY ProgramFacts DEF SameStream
  <1> SUFFICES ASSUME ordered
               PROVE  Begins!2'
    BY <1>1 DEF Begins
  <1>2. \A o, q \in Used' : sock'[o].peer # None /\ sock'[o].peer = sock'[q].peer => o = q
    BY <1>1 DEF Begins
  <1>3. \A p \in Peers : Unknown(p) => Unknown(p)'
    <2> SUFFICES ASSUME NEW p \in Peers, Unknown(p), NEW q \in Used', sock'[q].peer = p
                 PROVE  FALSE
      BY DEF Unknown
    <2>1. q \in Used /\ sock[q].peer = p BY <1>1, ObjectFacts
    <2> QED BY <2>1 DEF Unknown
  <1>4. \A p \in Peers : out[p] = {} /\ Unknown(p) => out'[p] = {} BY <1>1
  <1> QED BY <1>1, <1>2, <1>3, <1>4 DEF Begins

\* The segment that is delivered first, and what is left.
LEMMA HeadFacts ==
  ASSUME Shape, ordered, NEW p \in Peers, Deliver(p)
  PROVE  /\ net[p] # <<>> /\ net[p] \in Seq(Segment) /\ 1 \in DOMAIN net[p]
         /\ net'[p] = RemoveAt(net[p], 1) /\ net'[p] \in Seq(Segment)
         /\ Len(net'[p]) = Len(net[p]) - 1
         /\ \A j \in 1 .. Len(net[p]) - 1 : net'[p][j] = net[p][j + 1]
         /\ \A q \in Peers : q # p => net'[q] = net[q]
         /\ UNCHANGED <<peer, ordered>>
         /\ \/ ReceiveKnown(p, net[p][1])
            \/ ReceiveSyn(p, net[p][1])
            \/ ReceiveOther(p, net[p][1])
  <1>1. PICK i \in DOMAIN net[p] :
          /\ Leaves(p, i)
          /\ \/ ReceiveKnown(p, net[p][i])
             \/ ReceiveSyn(p, net[p][i])
             \/ ReceiveOther(p, net[p][i])
    BY DeliverFacts
  <1>2. i = 1 /\ net'[p] = RemoveAt(net[p], 1) BY <1>1 DEF Leaves
  <1>3. net[p] \in Seq(Segment) BY DEF Shape, TypeOK
  <1>4. /\ Len(RemoveAt(net[p], 1)) = Len(net[p]) - 1
        /\ RemoveAt(net[p], 1) \in Seq(Segment)
        /\ \A j \in 1 .. Len(net[p]) - 1 :
             RemoveAt(net[p], 1)[j] = IF j < 1 THEN net[p][j] ELSE net[p][j + 1]
    BY <1>1, <1>2, <1>3, RemoveAtFacts
  <1>5. \A j \in 1 .. Len(net[p]) - 1 : net'[p][j] = net[p][j + 1]
    BY <1>2, <1>3, <1>4
  <1>6. net[p] # <<>> BY <1>1, <1>3
  <1>7. UNCHANGED <<peer, ordered>> BY DEF Deliver
  <1> QED BY <1>1, <1>2, <1>3, <1>4, <1>5, <1>6, <1>7 DEF Leaves

\* Which connections there are afterwards: those that there were, and the one
\* that a first segment opens.
LEMMA DeliverSockets ==
  ASSUME Shape, ordered, Begins, NEW p \in Peers, Deliver(p)
  PROVE  /\ \A o \in Used' :
              \/ o \in Used /\ sock'[o].peer = sock[o].peer
              \/ sock'[o].peer = p /\ Unknown(p) /\ o = Fresh
         /\ \A q \in Peers : q # p => out'[q] = out[q]
         /\ peer[p].st # "closed"
  <1>1. PICK g \in Segment :
          /\ g = net[p][1]
          /\ \/ ReceiveKnown(p, g)
             \/ ReceiveSyn(p, g)
             \/ ReceiveOther(p, g)
    <2>1. net[p] \in Seq(Segment) BY DEF Shape, TypeOK
    <2>2. 1 \in DOMAIN net[p] BY HeadFacts
    <2>3. net[p][1] \in Segment BY <2>1, <2>2
    <2> QED BY <2>3, HeadFacts
  <1>2. net[p] # <<>> /\ 1 \in DOMAIN net[p] BY HeadFacts
  <1>3. peer[p].st # "closed" /\ (g.syn => Unknown(p)) BY <1>1, <1>2 DEF Begins
  <1>4. CASE ReceiveKnown(p, g)
    <2>1. PICK c : c = Connection(p) OBVIOUS
    <2>2. PICK h : h = Handled(sock[c], g) OBVIOUS
    <2>3. /\ c \in Used /\ sock[c].peer = p /\ sock[c] \in Socket /\ sock'[c] = h /\ Used' = Used
          /\ \A q \in Used : q # c =>
               \/ sock'[q] = sock[q]
               \/ sock'[q] = [sock[q] EXCEPT !.pending = Append(sock[q].pending, c)]
      BY <1>4, <2>1, <2>2, KnownFacts
    <2>4. h.peer = p
      <3>1. PICK s \in Socket : s = sock[c] BY <2>3
      <3>2. h.peer = s.peer BY <2>2, <3>1, HandledFacts
      <3> QED BY <2>3, <3>1, <3>2
    <2>5. \A q \in Used : sock[q] \in Socket BY UsedFacts DEF Shape
    <2>6. \A q \in Used : sock'[q].peer = sock[q].peer BY <2>3, <2>4, <2>5 DEF Socket
    <2>7. \A q \in Peers : q # p => out'[q] = out[q]
      BY <1>4 DEF ReceiveKnown, Shape, TypeOK
    <2> QED BY <1>3, <2>3, <2>6, <2>7
  <1>5. CASE ReceiveSyn(p, g)
    <2>1. CASE UNCHANGED <<sock, sockets, deleted, out, raced>>
      BY <1>3, <2>1 DEF Used
    <2>2. CASE Opens(p)
      <3>1. PICK f : f = Fresh OBVIOUS
      <3>2. /\ Used' = Used \cup {f} /\ \A q \in Used : sock'[q] = sock[q]
            /\ sock'[f].peer = p
        BY <2>2, <3>1, OpensFacts
      <3>3. out' = [out EXCEPT ![p] = @ \cup {<<"synack", Isn>>}] BY <2>2 DEF Opens
      <3>4. \A q \in Peers : q # p => out'[q] = out[q] BY <3>3 DEF Shape, TypeOK
      <3>5. g.syn BY <1>5, SynFacts
      <3> QED BY <1>3, <3>1, <3>2, <3>4, <3>5
    <2> QED BY <1>5, <2>1, <2>2, SynFacts
  <1>6. CASE ReceiveOther(p, g)
    <2>1. UNCHANGED <<sock, out>> BY <1>6 DEF ReceiveOther, table
    <2> QED BY <1>3, <2>1 DEF Used
  <1> QED BY <1>1, <1>4, <1>5, <1>6

LEMMA BeginsDeliver == ASSUME Shape, Begins, NEW p \in Peers, Deliver(p) PROVE Begins'
  <1>1. ordered' = ordered BY DEF Deliver
  <1> SUFFICES ASSUME ordered
               PROVE  Begins!2'
    BY <1>1 DEF Begins
  <1>2. /\ net[p] # <<>> /\ net[p] \in Seq(Segment) /\ 1 \in DOMAIN net[p]
        /\ net'[p] \in Seq(Segment) /\ Len(net'[p]) = Len(net[p]) - 1
        /\ \A j \in 1 .. Len(net[p]) - 1 : net'[p][j] = net[p][j + 1]
        /\ \A q \in Peers : q # p => net'[q] = net[q]
        /\ peer' = peer
    BY HeadFacts
  <1>3. /\ \A o \in Used' :
             \/ o \in Used /\ sock'[o].peer = sock[o].peer
             \/ sock'[o].peer = p /\ Unknown(p) /\ o = Fresh
        /\ \A q \in Peers : q # p => out'[q] = out[q]
        /\ peer[p].st # "closed"
    BY DeliverSockets
  <1>4. \A o, q \in Used' : sock'[o].peer # None /\ sock'[o].peer = sock'[q].peer => o = q
    BY <1>3 DEF Begins, Unknown
  <1>5. \A q \in Peers : q # p /\ Unknown(q) => Unknown(q)'
    <2> SUFFICES ASSUME NEW q \in Peers, q # p, Unknown(q), NEW o \in Used', sock'[o].peer = q
                 PROVE  FALSE
      BY DEF Unknown
    <2>1. o \in Used /\ sock[o].peer = q BY <1>3
    <2> QED BY <2>1 DEF Unknown
  <1>6. \A j \in DOMAIN net'[p] : j \in 1 .. Len(net[p]) - 1 /\ j + 1 \in DOMAIN net[p] /\ j \in Nat
    BY <1>2
  <1>7. \A j \in DOMAIN net'[p] : ~ net'[p][j].syn
    <2> SUFFICES ASSUME NEW j \in DOMAIN net'[p], net'[p][j].syn PROVE FALSE OBVIOUS
    <2>1. net[p][j + 1].syn BY <1>2, <1>6
    <2>2. Len(net[p]) = 1 BY <1>6, <2>1 DEF Begins
    <2> QED BY <1>6, <2>2
  <1>8. \A i, j \in Fins(net'[p]) : i = j
    <2> SUFFICES ASSUME NEW i \in Fins(net'[p]), NEW j \in Fins(net'[p]) PROVE i = j OBVIOUS
    <2>1. i \in DOMAIN net'[p] /\ j \in DOMAIN net'[p] BY DEF Fins
    <2>2. i + 1 \in Fins(net[p]) /\ j + 1 \in Fins(net[p]) BY <1>2, <1>6, <2>1 DEF Fins
    <2>3. i + 1 = j + 1 BY <2>2 DEF Begins
    <2> QED BY <1>6, <2>1, <2>3
  <1>9. ASSUME NEW q \in Peers, q # p
        PROVE  /\ peer'[q].st = "closed" => net'[q] = <<>> /\ out'[q] = {} /\ Unknown(q)'
               /\ peer'[q].st \in {"closed", "syn"} => peer'[q].sent = 0
               /\ \A i \in DOMAIN net'[q] : net'[q][i].syn =>
                    /\ peer'[q].st = "syn" /\ Len(net'[q]) = 1 /\ out'[q] = {} /\ Unknown(q)'
                    /\ net'[q][i].data = 0 /\ ~ net'[q][i].fin
               /\ \A i, j \in Fins(net'[q]) : i = j
    <2>1. peer'[q] = peer[q] /\ net'[q] = net[q] /\ out'[q] = out[q] /\ (Unknown(q) => Unknown(q)')
      BY <1>2, <1>3, <1>5, <1>9
    <2>2. \A i, j \in Fins(net[q]) : i = j BY DEF Begins
    <2>3. Fins(net'[q]) = Fins(net[q]) BY <2>1
    <2> QED BY <2>1, <2>2, <2>3 DEF Begins
  <1>10. peer'[p].st # "closed" /\ (peer'[p].st \in {"closed", "syn"} => peer'[p].sent = 0)
    BY <1>2, <1>3 DEF Begins
  <1> QED BY <1>4, <1>7, <1>8, <1>9, <1>10 DEF Begins

\* A segment that is sent goes behind those on their way.
LEMMA FinsAppend ==
  ASSUME NEW n \in Seq(Segment), NEW g \in Segment, NEW m, m = Append(n, g)
  PROVE  /\ \A i \in DOMAIN m : (i \in DOMAIN n /\ m[i] = n[i]) \/ (i = Len(n) + 1 /\ m[i] = g)
         /\ \A i \in DOMAIN n : i \in DOMAIN m /\ m[i] = n[i] /\ i < Len(n) + 1
         /\ Len(n) + 1 \in DOMAIN m /\ m[Len(n) + 1] = g /\ Len(m) = Len(n) + 1
         /\ \A i \in Fins(m) : i \in Fins(n) \/ (i = Len(n) + 1 /\ g.fin /\ g.data = 0)
  <1>1. Len(n) \in Nat /\ DOMAIN n = 1 .. Len(n) OBVIOUS
  <1>2. m \in Seq(Segment) /\ Len(m) = Len(n) + 1 /\ DOMAIN m = 1 .. Len(n) + 1 BY <1>1
  <1>3. \A i \in 1 .. Len(n) + 1 : m[i] = IF i <= Len(n) THEN n[i] ELSE g BY <1>1
  <1>4. \A i \in DOMAIN m : (i \in DOMAIN n /\ m[i] = n[i]) \/ (i = Len(n) + 1 /\ m[i] = g)
    <2> SUFFICES ASSUME NEW i \in DOMAIN m
                 PROVE  (i \in DOMAIN n /\ m[i] = n[i]) \/ (i = Len(n) + 1 /\ m[i] = g)
      OBVIOUS
    <2>1. i \in 1 .. Len(n) + 1 BY <1>2
    <2>2. CASE i <= Len(n)
      <3>1. i \in 1 .. Len(n) BY <1>1, <2>1, <2>2
      <3>2. m[i] = n[i] BY <1>3, <2>1, <2>2
      <3>3. i \in DOMAIN n BY <3>1
      <3> QED BY <3>2, <3>3
    <2>3. CASE i = Len(n) + 1 BY <1>1, <1>3, <2>1, <2>3
    <2> QED BY <1>1, <2>1, <2>2, <2>3
  <1>5. \A i \in DOMAIN n : i \in DOMAIN m /\ m[i] = n[i] /\ i < Len(n) + 1
    <2> SUFFICES ASSUME NEW i \in DOMAIN n
                 PROVE  i \in DOMAIN m /\ m[i] = n[i] /\ i < Len(n) + 1
      OBVIOUS
    <2>1. i \in Nat /\ i <= Len(n) /\ i \in 1 .. Len(n) + 1 BY <1>1
    <2> QED BY <1>1, <1>2, <1>3, <2>1
  <1>6. Len(n) + 1 \in DOMAIN m /\ m[Len(n) + 1] = g BY <1>1, <1>2, <1>3
  <1>7. \A i \in Fins(m) : i \in Fins(n) \/ (i = Len(n) + 1 /\ g.fin /\ g.data = 0)
    BY <1>4 DEF Fins
  <1> QED BY <1>2, <1>4, <1>5, <1>6, <1>7

LEMMA BeginsPeer == ASSUME Shape, Ends, Begins, NEW p \in Peers, Peer(p) PROVE Begins'
  <1>1. PICK r \in Remote, g \in Segment :
           /\ peer' = [peer EXCEPT ![p] = r] /\ net' = [net EXCEPT ![p] = Append(@, g)]
           /\ Talks(p, r, g)
           /\ UNCHANGED <<table, program, ordered, copies, out, raced>>
    BY PeerFacts
  <1> SUFFICES ASSUME ordered
               PROVE  Begins!2'
    BY <1>1 DEF Begins
  <1>2. /\ peer'[p] = r /\ \A q \in Peers : q # p => peer'[q] = peer[q]
        /\ net'[p] = Append(net[p], g) /\ \A q \in Peers : q # p => net'[q] = net[q]
        /\ net[p] \in Seq(Segment)
    BY <1>1 DEF Shape, TypeOK
  <1>3. UNCHANGED <<sock, out>> BY <1>1 DEF table
  <1>4. Used' = Used /\ \A q \in Peers : Unknown(q)' <=> Unknown(q) BY <1>3 DEF Used, Unknown
  <1>5. /\ \A i \in DOMAIN net'[p] :
             \/ i \in DOMAIN net[p] /\ net'[p][i] = net[p][i]
             \/ i = Len(net[p]) + 1 /\ net'[p][i] = g
        /\ Len(net'[p]) = Len(net[p]) + 1
        /\ \A i \in Fins(net'[p]) : i \in Fins(net[p]) \/ (i = Len(net[p]) + 1 /\ g.fin /\ g.data = 0)
    <2>1. PICK m : m = net'[p] OBVIOUS
    <2>2. PICK n \in Seq(Segment) : n = net[p] BY <1>2
    <2>3. m = Append(n, g) BY <1>2, <2>1, <2>2
    <2>4. /\ \A i \in DOMAIN m : (i \in DOMAIN n /\ m[i] = n[i]) \/ (i = Len(n) + 1 /\ m[i] = g)
          /\ Len(m) = Len(n) + 1
          /\ \A i \in Fins(m) : i \in Fins(n) \/ (i = Len(n) + 1 /\ g.fin /\ g.data = 0)
      <3>1. \A i \in Fins(m) : i \in Fins(n) \/ (i = Len(n) + 1 /\ g.fin /\ g.data = 0)
        BY <2>3, FinsAppend
      <3>2. /\ \A i \in DOMAIN m : (i \in DOMAIN n /\ m[i] = n[i]) \/ (i = Len(n) + 1 /\ m[i] = g)
            /\ Len(m) = Len(n) + 1
        BY <2>3, FinsAppend
      <3> QED BY <3>1, <3>2
    <2> QED BY <2>1, <2>2, <2>4
  <1>8. ASSUME NEW q \in Peers, q # p
        PROVE  /\ peer'[q].st = "closed" => net'[q] = <<>> /\ out'[q] = {} /\ Unknown(q)'
               /\ peer'[q].st \in {"closed", "syn"} => peer'[q].sent = 0
               /\ \A i \in DOMAIN net'[q] : net'[q][i].syn =>
                    /\ peer'[q].st = "syn" /\ Len(net'[q]) = 1 /\ out'[q] = {} /\ Unknown(q)'
                    /\ net'[q][i].data = 0 /\ ~ net'[q][i].fin
               /\ \A i, j \in Fins(net'[q]) : i = j
    <2>1. peer'[q] = peer[q] /\ net'[q] = net[q] /\ out'[q] = out[q] /\ (Unknown(q) => Unknown(q)')
      BY <1>2, <1>3, <1>4, <1>8
    <2>2. \A i, j \in Fins(net[q]) : i = j BY DEF Begins
    <2>3. Fins(net'[q]) = Fins(net[q]) BY <2>1
    <2> QED BY <2>1, <2>2, <2>3 DEF Begins
  <1>9. \A o, q \in Used' : sock'[o].peer # None /\ sock'[o].peer = sock'[q].peer => o = q
    BY <1>3, <1>4 DEF Begins
  <1>6. CASE peer[p].st = "closed"
    <2>1. net[p] = <<>> /\ out[p] = {} /\ Unknown(p) BY <1>6 DEF Begins
    <2>2. r.st = "syn" /\ r.sent = 0 /\ ~ g.fin /\ g.data = 0 BY <1>1, <1>6 DEF Talks
    <2>3. Len(net'[p]) = 1 BY <1>5, <2>1
    <2>4. \A i \in DOMAIN net'[p] : net'[p][i] = g BY <1>5, <2>1, EmptySeq
    <2>5. Fins(net'[p]) = {} BY <2>2, <2>4 DEF Fins
    <2> QED BY <1>2, <1>3, <1>4, <1>8, <1>9, <2>1, <2>2, <2>3, <2>4, <2>5 DEF Begins
  <1>7. CASE peer[p].st # "closed"
    <2>1. r.st \in {"open", "done"} /\ ~ g.syn BY <1>1, <1>7 DEF Talks
    <2>2. \A i \in DOMAIN net[p] : ~ net[p][i].syn BY <1>1, <1>7 DEF Talks, Begins
    <2>3. \A i \in DOMAIN net'[p] : ~ net'[p][i].syn BY <1>5, <2>1, <2>2
    <2>4. g.fin /\ g.data = 0 => Fins(net[p]) = {}
      <3>1. g.fin /\ g.data = 0 => peer[p].st # "done" BY <1>1, <1>7 DEF Talks, Shape, TypeOK
      <3> QED BY <3>1 DEF Ends, Fins
    <2>5. \A i, j \in Fins(net[p]) : i = j BY DEF Begins
    <2>6. \A i, j \in Fins(net'[p]) : i = j BY <1>5, <2>4, <2>5
    <2> QED BY <1>2, <1>8, <1>9, <2>1, <2>3, <2>6 DEF Begins
  <1> QED BY <1>6, <1>7

-----------------------------------------------------------------------------
(* What arrives over such a network, and in what order.                    *)

\* The segment at the head has the next payload, or none.
LEMMA UnderHead ==
  ASSUME NEW n \in Seq(Segment), n # <<>>, NEW m \in Seq(Segment), Len(m) = Len(n) - 1,
         \A j \in 1 .. Len(n) - 1 : m[j] = n[j + 1],
         NEW k \in Nat, NEW t \in Nat, Under(n, k, t)
  PROVE  /\ n[1].data = 0 => Under(m, k, t)
         /\ n[1].data # 0 => n[1].data = k + 1 /\ k + 1 <= t /\ Under(m, k + 1, t)
  <1>1. Len(n) \in Nat \ {0} /\ 1 \in DOMAIN n BY EmptySeq
  <1>2. \A j \in DOMAIN m : j \in Nat /\ j >= 1 /\ j + 1 \in DOMAIN n /\ m[j] = n[j + 1]
    BY <1>1
  <1>3. \A i \in DOMAIN n : i = 1 \/ (i - 1 \in DOMAIN m /\ m[i - 1] = n[i])
    <2> SUFFICES ASSUME NEW i \in DOMAIN n, i # 1 PROVE i - 1 \in DOMAIN m /\ m[i - 1] = n[i]
      OBVIOUS
    <2>1. i - 1 \in 1 .. Len(n) - 1 /\ i - 1 + 1 = i BY <1>1
    <2> QED BY <1>1, <2>1
  <1>4. /\ \A i \in DOMAIN n : n[i].data # 0 => n[i].data \in k + 1 .. t
        /\ \A i, j \in DOMAIN n : i < j /\ n[i].data # 0 /\ n[j].data # 0 =>
             n[i].data < n[j].data
        /\ \A d \in k + 1 .. t : \E i \in DOMAIN n : n[i].data = d
    BY DEF Under
  <1>5. \A i, j \in DOMAIN m : i < j /\ m[i].data # 0 /\ m[j].data # 0 => m[i].data < m[j].data
    <2> SUFFICES ASSUME NEW i \in DOMAIN m, NEW j \in DOMAIN m,
                        i < j, m[i].data # 0, m[j].data # 0
                 PROVE  m[i].data < m[j].data
      OBVIOUS
    <2>1. i + 1 \in DOMAIN n /\ j + 1 \in DOMAIN n /\ i + 1 < j + 1 BY <1>2
    <2>2. m[i] = n[i + 1] /\ m[j] = n[j + 1] BY <1>2
    <2> QED BY <1>4, <2>1, <2>2
  <1>6. CASE n[1].data = 0
    <2>1. \A i \in DOMAIN m : m[i].data # 0 => m[i].data \in k + 1 .. t BY <1>2, <1>4
    <2>2. ASSUME NEW d \in k + 1 .. t PROVE \E i \in DOMAIN m : m[i].data = d
      <3>1. PICK i \in DOMAIN n : n[i].data = d BY <1>4
      <3>2. i # 1 BY <1>6, <3>1
      <3> QED BY <1>3, <3>1, <3>2
    <2> QED BY <1>5, <1>6, <2>1, <2>2 DEF Under
  <1>7. CASE n[1].data # 0
    <2>1. n[1].data \in k + 1 .. t BY <1>1, <1>4, <1>7
    <2>2. k + 1 \in k + 1 .. t /\ k + 1 # 0 BY <2>1
    <2>3. n[1].data = k + 1
      <3>1. PICK i \in DOMAIN n : n[i].data = k + 1 BY <1>4, <2>2
      <3>2. CASE i = 1 BY <3>1, <3>2
      <3>3. CASE i # 1
        <4>1. 1 < i BY <1>1, <3>3
        <4>2. n[1].data < n[i].data BY <1>1, <1>4, <1>7, <2>2, <3>1, <4>1
        <4> QED BY <2>1, <3>1, <4>2
      <3> QED BY <3>2, <3>3
    <2>4. \A i \in DOMAIN m : m[i].data # 0 => m[i].data \in k + 1 + 1 .. t
      <3> SUFFICES ASSUME NEW i \in DOMAIN m, m[i].data # 0
                   PROVE  m[i].data \in k + 1 + 1 .. t
        OBVIOUS
      <3>1. i + 1 \in DOMAIN n /\ 1 < i + 1 /\ m[i] = n[i + 1] BY <1>2
      <3>2. n[i + 1].data \in k + 1 .. t BY <1>4, <3>1
      <3>3. n[1].data < n[i + 1].data BY <1>1, <1>4, <1>7, <3>1
      <3> QED BY <2>3, <3>1, <3>2, <3>3
    <2>5. ASSUME NEW d \in k + 1 + 1 .. t PROVE \E i \in DOMAIN m : m[i].data = d
      <3>1. d \in k + 1 .. t /\ d # k + 1 OBVIOUS
      <3>2. PICK i \in DOMAIN n : n[i].data = d BY <1>4, <3>1
      <3>3. i # 1 BY <2>3, <3>1, <3>2
      <3> QED BY <1>3, <3>2, <3>3
    <2>6. Under(m, k + 1, t) BY <1>5, <2>4, <2>5 DEF Under
    <2> QED BY <1>7, <2>1, <2>3, <2>6
  <1> QED BY <1>6, <1>7

\* A remote end that sends its next payload, or none.
LEMMA UnderMore ==
  ASSUME NEW n \in Seq(Segment), NEW g \in Segment, NEW m, m = Append(n, g),
         NEW k \in Nat, NEW t \in Nat, k <= t, Under(n, k, t)
  PROVE  /\ g.data = 0 => Under(m, k, t)
         /\ g.data = t + 1 => Under(m, k, t + 1)
  <1>1. /\ \A i \in DOMAIN m : (i \in DOMAIN n /\ m[i] = n[i]) \/ (i = Len(n) + 1 /\ m[i] = g)
        /\ \A i \in DOMAIN n : i \in DOMAIN m /\ m[i] = n[i] /\ i < Len(n) + 1
        /\ Len(n) + 1 \in DOMAIN m /\ m[Len(n) + 1] = g
    BY FinsAppend
  <1>2. /\ \A i \in DOMAIN n : n[i].data # 0 => n[i].data \in k + 1 .. t
        /\ \A i, j \in DOMAIN n : i < j /\ n[i].data # 0 /\ n[j].data # 0 =>
             n[i].data < n[j].data
        /\ \A d \in k + 1 .. t : \E i \in DOMAIN n : n[i].data = d
    BY DEF Under
  <1>3. Len(n) \in Nat /\ \A i \in DOMAIN n : i \in Nat OBVIOUS
  <1>4. CASE g.data = 0
    <2>1. \A i \in DOMAIN m : m[i].data # 0 => i \in DOMAIN n /\ m[i] = n[i] BY <1>1, <1>4
    <2>2. \A i \in DOMAIN m : m[i].data # 0 => m[i].data \in k + 1 .. t BY <1>2, <2>1
    <2>3. \A i, j \in DOMAIN m : i < j /\ m[i].data # 0 /\ m[j].data # 0 => m[i].data < m[j].data
      BY <1>2, <2>1
    <2>4. \A d \in k + 1 .. t : \E i \in DOMAIN m : m[i].data = d BY <1>1, <1>2
    <2>5. Under(m, k, t) BY <2>2, <2>3, <2>4 DEF Under
    <2> QED BY <1>4, <2>5
  <1>5. CASE g.data = t + 1
    <2>1. \A i \in DOMAIN m : m[i].data # 0 => m[i].data \in k + 1 .. t + 1
      BY <1>1, <1>2, <1>5
    <2>2. ASSUME NEW i \in DOMAIN m, NEW j \in DOMAIN m, i < j, m[i].data # 0, m[j].data # 0
          PROVE  m[i].data < m[j].data
      <3>1. i \in DOMAIN n /\ m[i] = n[i]
        <4>1. SUFFICES ASSUME i = Len(n) + 1 PROVE FALSE BY <1>1
        <4>2. j \in DOMAIN n \/ j = Len(n) + 1 BY <1>1
        <4> QED BY <1>1, <1>3, <2>2, <4>1, <4>2
      <3>2. CASE j \in DOMAIN n
        <4>1. m[j] = n[j] BY <1>1, <3>2
        <4> QED BY <1>2, <2>2, <3>1, <3>2, <4>1
      <3>3. CASE j \notin DOMAIN n
        <4>1. m[j].data = t + 1 BY <1>1, <1>5, <3>3
        <4>2. m[i].data \in k + 1 .. t BY <1>2, <2>2, <3>1
        <4> QED BY <4>1, <4>2
      <3> QED BY <3>2, <3>3
    <2>3. ASSUME NEW d \in k + 1 .. t + 1 PROVE \E i \in DOMAIN m : m[i].data = d
      <3>1. CASE d = t + 1 BY <1>1, <1>5, <3>1
      <3>2. CASE d # t + 1
        <4>1. d \in k + 1 .. t BY <3>2
        <4> QED BY <1>1, <1>2, <4>1
      <3> QED BY <3>1, <3>2
    <2>4. Under(m, k, t + 1) BY <2>1, <2>2, <2>3 DEF Under
    <2> QED BY <1>5, <2>4
  <1> QED BY <1>4, <1>5

\* A segment without payload leaves the stream alone; a payload goes to its end,
\* unless rx_queue is full.
LEMMA HandledStream ==
  ASSUME NEW s \in Socket, NEW g \in Segment, NEW h, h = Handled(s, g)
  PROVE  /\ g.data = 0 => /\ h.got = s.got /\ h.queue = s.queue
                          /\ ~ h.dropped => ~ s.dropped
                          /\ h.rseq # s.rseq /\ h.rseq # 1 => g.fin /\ h.rseq = s.rseq + 1
         /\ g.data # 0 => /\ h.rseq = s.rseq + 1 /\ h.got = s.got
                          /\ ~ h.dropped => ~ s.dropped /\ h.queue = Append(s.queue, g.data)
  <1>1. CASE g.data = 0
    <2>1. h = Control(s, g) BY <1>1 DEF Handled
    <2>2. CASE g.syn BY <1>1, <2>1, <2>2 DEF Control, Socket
    <2>3. CASE ~ g.syn
      <3>1. PICK st : st = AfterAck(IF g.fin THEN AfterFin(s, g) ELSE s.state, s, g) OBVIOUS
      <3>2. h = [s EXCEPT !.rseq = IF g.fin THEN @ + 1 ELSE @, !.state = st]
        BY <2>1, <2>3, <3>1 DEF Control
      <3> QED BY <1>1, <3>2 DEF Socket
    <2> QED BY <2>2, <2>3
  <1>2. CASE g.data # 0
    <2>1. h = Payload(s, g) BY <1>2 DEF Handled
    <2>2. Len(s.queue) \in Nat /\ QueueLen \in Nat BY TcpAssumption DEF Socket
    <2>3. CASE Len(s.queue) < QueueLen BY <1>2, <2>1, <2>2, <2>3 DEF Payload, Socket
    <2>4. CASE ~ (Len(s.queue) < QueueLen)
      <3>1. Len(s.queue) >= QueueLen BY <2>2, <2>4
      <3>2. h.dropped BY <2>1, <3>1 DEF Payload, Socket
      <3> QED BY <1>2, <2>1, <2>4, <3>2 DEF Payload, Socket
    <2> QED BY <2>3, <2>4
  <1> QED BY <1>1, <1>2

LEMMA AppendStream ==
  ASSUME NEW a \in Seq(Nat), NEW b \in Seq(Nat), NEW k \in Nat, NEW c, c = Append(b, k + 1),
         Len(a \o b) = k, \A i \in DOMAIN (a \o b) : (a \o b)[i] = i
  PROVE  Len(a \o c) = k + 1 /\ \A i \in DOMAIN (a \o c) : (a \o c)[i] = i
  <1>1. c \in Seq(Nat) /\ Len(c) = Len(b) + 1 /\ c[Len(b) + 1] = k + 1
        /\ \A i \in 1 .. Len(b) : c[i] = b[i]
    BY AppendProperties
  <1>2. /\ a \o b \in Seq(Nat) /\ Len(a \o b) = Len(a) + Len(b)
        /\ \A i \in 1 .. Len(a) + Len(b) :
             (a \o b)[i] = IF i <= Len(a) THEN a[i] ELSE b[i - Len(a)]
    BY ConcatProperties
  <1>3. /\ a \o c \in Seq(Nat) /\ Len(a \o c) = Len(a) + Len(c)
        /\ \A i \in 1 .. Len(a) + Len(c) :
             (a \o c)[i] = IF i <= Len(a) THEN a[i] ELSE c[i - Len(a)]
    BY <1>1, ConcatProperties
  <1>4. Len(a) \in Nat /\ Len(b) \in Nat /\ Len(a) + Len(b) = k BY <1>2
  <1>5. Len(a \o c) = k + 1 BY <1>1, <1>3, <1>4
  <1>6. DOMAIN (a \o c) = 1 .. k + 1 BY <1>3, <1>5
  <1>7. \A i \in 1 .. k : (a \o b)[i] = i
    <2>1. DOMAIN (a \o b) = 1 .. k BY <1>2
    <2> QED BY <2>1
  <1>8. ASSUME NEW i \in 1 .. k + 1 PROVE (a \o c)[i] = i
    <2>1. CASE i = k + 1
      <3>1. i - Len(a) = Len(b) + 1 /\ ~ (i <= Len(a)) /\ i \in 1 .. Len(a) + Len(c)
        <4>1. i - Len(a) = Len(b) + 1 /\ ~ (i <= Len(a)) BY <1>4, <2>1
        <4>2. i = Len(a) + Len(c) /\ i >= 1 BY <1>3, <1>5, <1>4, <2>1
        <4> QED BY <4>1, <4>2
      <3> QED BY <1>1, <1>3, <2>1, <3>1
    <2>2. CASE i # k + 1
      <3>1. i \in 1 .. k /\ i \in 1 .. Len(a) + Len(b) /\ i \in 1 .. Len(a) + Len(c)
        BY <1>1, <1>4, <2>2
      <3>2. (a \o b)[i] = i BY <1>7, <3>1
      <3>3. CASE i <= Len(a)
        <4>1. (a \o c)[i] = a[i] BY <1>3, <3>1, <3>3
        <4>2. (a \o b)[i] = a[i] BY <1>2, <3>1, <3>3
        <4> QED BY <3>2, <4>1, <4>2
      <3>4. CASE ~ (i <= Len(a))
        <4>1. (a \o c)[i] = c[i - Len(a)] BY <1>3, <3>1, <3>4
        <4>2. (a \o b)[i] = b[i - Len(a)] BY <1>2, <3>1, <3>4
        <4>3. i - Len(a) \in 1 .. Len(b) BY <1>4, <3>1, <3>4
        <4> QED BY <1>1, <3>2, <4>1, <4>2, <4>3
      <3> QED BY <3>3, <3>4
    <2> QED BY <2>1, <2>2
  <1> QED BY <1>5, <1>6, <1>8

\* ... and so do a socket's, when its queue gets the next.
LEMMA LongerStream ==
  ASSUME NEW s \in Socket, NEW h, NEW k \in Nat,
         h.queue = Append(s.queue, k + 1), h.got = s.got,
         Len(s.got \o s.queue) = k,
         \A i \in DOMAIN (s.got \o s.queue) : (s.got \o s.queue)[i] = i
  PROVE  /\ Len(h.got \o h.queue) = k + 1
         /\ \A i \in DOMAIN (h.got \o h.queue) : (h.got \o h.queue)[i] = i
  <1>1. s.got \in Seq(Nat) /\ s.queue \in Seq(Nat) BY DEF Socket
  <1>2. PICK a \in Seq(Nat), b \in Seq(Nat), c \in {h.queue} : a = s.got /\ b = s.queue BY <1>1
  <1>3. c = h.queue /\ c = Append(b, k + 1) BY <1>2
  <1>4. Len(a \o b) = k /\ \A i \in DOMAIN (a \o b) : (a \o b)[i] = i BY <1>2
  <1>5. Len(a \o c) = k + 1 /\ \A i \in DOMAIN (a \o c) : (a \o c)[i] = i
    BY <1>3, <1>4, AppendStream
  <1> QED BY <1>2, <1>3, <1>5

\* The head of a network moves to the socket it is for.
LEMMA ArrivesHead ==
  ASSUME NEW s \in Socket, NEW r \in Remote, NEW k \in 0 .. r.sent,
         NEW n \in Seq(Segment), n # <<>>, NEW m \in Seq(Segment), Len(m) = Len(n) - 1,
         \A j \in 1 .. Len(n) - 1 : m[j] = n[j + 1],
         \A i, j \in Fins(n) : i = j, Fins(n) # {} => r.st = "done",
         Arrived(s, n, r, k), NEW h, h = Handled(s, n[1])
  PROVE  \E l \in 0 .. r.sent : Arrived(h, m, r, l)
  <1>1. Len(n) \in Nat \ {0} /\ 1 \in DOMAIN n BY EmptySeq
  <1>2. n[1] \in Segment BY <1>1
  <1>3. r.sent \in Nat /\ k \in Nat /\ k <= r.sent BY DEF Remote
  <1>4. Under(n, k, r.sent) BY DEF Arrived
  <1>5. /\ n[1].data = 0 => Under(m, k, r.sent)
        /\ n[1].data # 0 => /\ n[1].data = k + 1 /\ k + 1 <= r.sent
                            /\ Under(m, k + 1, r.sent)
    BY <1>3, <1>4, UnderHead
  <1>6. \A j \in Fins(m) : j + 1 \in Fins(n) /\ j + 1 # 1
    <2> SUFFICES ASSUME NEW j \in Fins(m) PROVE j + 1 \in Fins(n) /\ j + 1 # 1 OBVIOUS
    <2>1. j \in DOMAIN m /\ m[j].fin /\ m[j].data = 0 BY DEF Fins
    <2>2. j \in 1 .. Len(n) - 1 /\ j + 1 \in DOMAIN n /\ j + 1 # 1 BY <1>1, <2>1
    <2>3. m[j] = n[j + 1] BY <2>2
    <2> QED BY <2>1, <2>2, <2>3 DEF Fins
  <1>7. Finished(n, r) \in 0 .. 1 /\ Finished(m, r) \in 0 .. 1 BY DEF Finished
  <1>8. Finished(n, r) <= Finished(m, r) BY <1>6 DEF Finished
  <1>9. n[1].fin /\ n[1].data = 0 => Finished(n, r) = 0 /\ Finished(m, r) = 1
    <2> SUFFICES ASSUME n[1].fin, n[1].data = 0 PROVE Finished(n, r) = 0 /\ Finished(m, r) = 1
      OBVIOUS
    <2>1. 1 \in Fins(n) BY <1>1 DEF Fins
    <2>2. r.st = "done" BY <2>1
    <2>3. Fins(m) = {} BY <1>6, <2>1
    <2> QED BY <2>1, <2>2, <2>3 DEF Finished
  <1>10. /\ s.rseq <= 1 + k + Finished(n, r) /\ s.rseq \in Nat
         /\ ~ s.dropped => /\ Len(s.got \o s.queue) = k
                           /\ \A i \in DOMAIN (s.got \o s.queue) : (s.got \o s.queue)[i] = i
    BY DEF Arrived, Socket
  <1>11. CASE n[1].data = 0
    <2>1. /\ h.got = s.got /\ h.queue = s.queue
          /\ ~ h.dropped => ~ s.dropped
          /\ h.rseq # s.rseq /\ h.rseq # 1 => n[1].fin /\ h.rseq = s.rseq + 1
      BY <1>2, <1>11, HandledStream
    <2>2. h.rseq <= 1 + k + Finished(m, r)
      <3>1. CASE h.rseq = s.rseq BY <1>3, <1>7, <1>8, <1>10, <3>1
      <3>2. CASE h.rseq = 1 BY <1>3, <1>7, <3>2
      <3>3. CASE h.rseq # s.rseq /\ h.rseq # 1 BY <1>3, <1>9, <1>10, <1>11, <2>1, <3>3
      <3> QED BY <3>1, <3>2, <3>3
    <2>3. ~ h.dropped => /\ Len(h.got \o h.queue) = k
                         /\ \A i \in DOMAIN (h.got \o h.queue) : (h.got \o h.queue)[i] = i
      BY <1>10, <2>1
    <2> QED BY <1>5, <1>11, <2>2, <2>3 DEF Arrived
  <1>12. CASE n[1].data # 0
    <2>1. /\ h.rseq = s.rseq + 1 /\ h.got = s.got
          /\ ~ h.dropped => ~ s.dropped /\ h.queue = Append(s.queue, n[1].data)
      BY <1>2, <1>12, HandledStream
    <2>2. k + 1 \in 0 .. r.sent BY <1>3, <1>5, <1>12
    <2>3. h.rseq <= 1 + (k + 1) + Finished(m, r) BY <1>3, <1>7, <1>8, <1>10, <2>1
    <2>4. ASSUME ~ h.dropped
          PROVE  /\ Len(h.got \o h.queue) = k + 1
                 /\ \A i \in DOMAIN (h.got \o h.queue) : (h.got \o h.queue)[i] = i
      <3>1. h.queue = Append(s.queue, k + 1) /\ h.got = s.got /\ ~ s.dropped
        BY <1>5, <1>12, <2>1, <2>4
      <3>2. /\ Len(s.got \o s.queue) = k
            /\ \A i \in DOMAIN (s.got \o s.queue) : (s.got \o s.queue)[i] = i
        BY <1>10, <3>1
      <3> QED BY <1>3, <3>1, <3>2, LongerStream
    <2> QED BY <1>5, <1>12, <2>2, <2>3, <2>4 DEF Arrived
  <1> QED BY <1>11, <1>12

\* The remote end of a socket says something.
LEMMA ArrivesMore ==
  ASSUME NEW s \in Socket, NEW r \in Remote, NEW q \in Remote, NEW k \in 0 .. r.sent,
         NEW n \in Seq(Segment), NEW g \in Segment, NEW m, m = Append(n, g),
         Arrived(s, n, r, k), r.st = "done" => q.st = "done" /\ ~ g.fin,
         \/ g.data = 0 /\ q.sent = r.sent
         \/ g.data = r.sent + 1 /\ q.sent = r.sent + 1
  PROVE  k \in 0 .. q.sent /\ Arrived(s, m, q, k)
  <1>1. r.sent \in Nat /\ q.sent \in Nat /\ k \in Nat /\ k <= r.sent BY DEF Remote
  <1>2. Under(n, k, r.sent) /\ s.rseq <= 1 + k + Finished(n, r) /\ s.rseq \in Nat
    BY DEF Arrived, Socket
  <1>3. Under(m, k, q.sent) BY <1>1, <1>2, UnderMore
  <1>4. \A i \in Fins(m) : i \in Fins(n) \/ (i = Len(n) + 1 /\ g.fin /\ g.data = 0)
    BY FinsAppend
  <1>5. Finished(n, r) \in 0 .. 1 /\ Finished(m, q) \in 0 .. 1 BY DEF Finished
  <1>6. Finished(n, r) <= Finished(m, q) BY <1>4 DEF Finished
  <1>7. s.rseq <= 1 + k + Finished(m, q) BY <1>1, <1>2, <1>5, <1>6
  <1>8. k \in 0 .. q.sent BY <1>1
  <1> QED BY <1>3, <1>7, <1>8 DEF Arrived

LEMMA FlowsProgram == ASSUME Shape, Flows, Program PROVE Flows'
  <1>1. /\ UNCHANGED <<peer, net, ordered>> /\ OldTable /\ Used \subseteq Used'
        /\ \A q \in Used' : sock'[q].peer # None => SameStream(q)
    BY ProgramFacts
  <1>2. Sockets \subseteq Used BY DEF Shape, Kinds, Sockets
  <1> SUFFICES ASSUME ordered, NEW o \in Sockets', sock'[o].peer # None
               PROVE  \E k \in 0 .. peer'[sock'[o].peer].sent :
                        Arrived(sock'[o], net'[sock'[o].peer], peer'[sock'[o].peer], k)
    BY <1>1 DEF Flows
  <1>3. o \in Sockets /\ o \in Used' BY <1>1, <1>2 DEF OldTable
  <1>4. SameStream(o) BY <1>1, <1>3
  <1>5. PICK k \in 0 .. peer[sock[o].peer].sent :
          Arrived(sock[o], net[sock[o].peer], peer[sock[o].peer], k)
    BY <1>3, <1>4 DEF Flows, SameStream
  <1> QED BY <1>1, <1>4, <1>5 DEF SameStream, Arrived

LEMMA FlowsDeliver == ASSUME Shape, Ends, Begins, Flows, NEW p \in Peers, Deliver(p) PROVE Flows'
  <1>1. ordered' = ordered BY DEF Deliver
  <1> SUFFICES ASSUME ordered, NEW o \in Sockets', sock'[o].peer # None
               PROVE  \E k \in 0 .. peer'[sock'[o].peer].sent :
                        Arrived(sock'[o], net'[sock'[o].peer], peer'[sock'[o].peer], k)
    BY <1>1 DEF Flows
  <1>2. /\ net[p] # <<>> /\ net[p] \in Seq(Segment) /\ 1 \in DOMAIN net[p]
        /\ net'[p] \in Seq(Segment) /\ Len(net'[p]) = Len(net[p]) - 1
        /\ \A j \in 1 .. Len(net[p]) - 1 : net'[p][j] = net[p][j + 1]
        /\ \A q \in Peers : q # p => net'[q] = net[q]
        /\ peer' = peer
    BY HeadFacts
  <1>3. PICK g \in Segment :
          /\ g = net[p][1]
          /\ \/ ReceiveKnown(p, g)
             \/ ReceiveSyn(p, g)
             \/ ReceiveOther(p, g)
    <2>1. net[p][1] \in Segment BY <1>2
    <2> QED BY <2>1, HeadFacts
  <1>4. Sockets \subseteq Used BY DEF Shape, Kinds, Sockets
  <1>5. g.syn => /\ Unknown(p) /\ peer[p].sent = 0 /\ Len(net[p]) = 1
    BY <1>2, <1>3 DEF Begins
  <1>6. ASSUME o \in Sockets, sock'[o] = sock[o], sock[o].peer # p
        PROVE  \E k \in 0 .. peer'[sock'[o].peer].sent :
                 Arrived(sock'[o], net'[sock'[o].peer], peer'[sock'[o].peer], k)
    <2>1. sock[o].peer \in Peers BY <1>4, <1>6, UsedFacts DEF Shape, Socket
    <2>2. net'[sock[o].peer] = net[sock[o].peer] BY <1>2, <1>6, <2>1
    <2> QED BY <1>2, <1>6, <2>2 DEF Flows
  <1>7. CASE ReceiveKnown(p, g)
    <2>1. PICK c : c = Connection(p) OBVIOUS
    <2>2. PICK h : h = Handled(sock[c], g) OBVIOUS
    <2>3. /\ c \in Used /\ c \in Sockets /\ sock[c].peer = p /\ sock[c] \in Socket /\ sock'[c] = h
          /\ Used' = Used
          /\ \A q \in Used : q # c =>
               \/ sock'[q] = sock[q]
               \/ q = Listener /\ sock'[q] = [sock[q] EXCEPT !.pending = Append(sock[q].pending, c)]
      BY <1>7, <2>1, <2>2, KnownFacts
    <2>4. Sockets' = Sockets BY <1>7 DEF ReceiveKnown, Sockets
    <2>5. CASE o = c
      <3>1. PICK s \in Socket, r \in Remote : s = sock[c] /\ r = peer[p]
        BY <2>3 DEF Shape, TypeOK
      <3>2. p # None BY ObjectFacts
      <3>3. PICK k \in 0 .. r.sent : Arrived(s, net[p], r, k)
        BY <2>3, <3>1, <3>2 DEF Flows
      <3>4. /\ \A i, j \in Fins(net[p]) : i = j
            /\ Fins(net[p]) # {} => r.st = "done"
        BY <3>1 DEF Begins, Ends, Fins
      <3>5. PICK n \in Seq(Segment), m \in Seq(Segment) : n = net[p] /\ m = net'[p] BY <1>2
      <3>6. h = Handled(s, n[1]) BY <1>3, <2>2, <3>1, <3>5
      <3>7. n # <<>> /\ Len(m) = Len(n) - 1 /\ \A j \in 1 .. Len(n) - 1 : m[j] = n[j + 1]
        BY <1>2, <3>5
      <3>8. \E l \in 0 .. r.sent : Arrived(h, m, r, l)
        BY <3>3, <3>4, <3>5, <3>6, <3>7, ArrivesHead
      <3>9. h.peer = p
        <4>1. h.peer = s.peer BY <2>2, <3>1, HandledFacts
        <4> QED BY <2>3, <3>1, <4>1
      <3> QED BY <1>2, <2>3, <2>5, <3>1, <3>5, <3>8, <3>9
    <2>6. CASE o # c
      <3>1. o \in Used BY <1>4, <2>4
      <3>2. sock[o] \in Socket BY <3>1, UsedFacts DEF Shape
      <3>3. sock'[o] = sock[o]
        <4> SUFFICES ASSUME sock'[o] # sock[o] PROVE FALSE
          OBVIOUS
        <4>1. o = Listener /\ sock'[o] = [sock[o] EXCEPT !.pending = Append(sock[o].pending, c)]
          BY <2>3, <2>6, <3>1
        <4>2. sock[o].peer = None BY <3>1, <4>1, ListenerFacts, ObjectFacts, UsedFacts DEF Shape
        <4>3. sock'[o].peer = None BY <3>2, <4>1, <4>2 DEF Socket
        <4> QED BY <4>3
      <3>4. sock[o].peer # p BY <2>3, <2>6, <3>1, ObjectFacts DEF Begins
      <3> QED BY <1>6, <2>4, <3>3, <3>4
    <2> QED BY <2>5, <2>6
  <1>8. CASE ReceiveSyn(p, g)
    <2>1. Unknown(p) /\ peer[p].sent = 0 /\ Len(net[p]) = 1 BY <1>5, <1>8, SynFacts
    <2>2. CASE UNCHANGED <<sock, sockets, deleted, out, raced>>
      <3>1. o \in Sockets BY <2>2 DEF Sockets
      <3>2. sock[o].peer # p BY <1>4, <2>1, <3>1 DEF Unknown
      <3> QED BY <1>6, <2>2, <3>1, <3>2
    <2>3. CASE Opens(p)
      <3>1. PICK f : f = Fresh OBVIOUS
      <3>2. /\ Used' = Used \cup {f} /\ \A q \in Used : sock'[q] = sock[q]
            /\ \E s \in Socket : /\ sock'[f] = s /\ s.peer = p /\ s.rseq = 1
                                 /\ s.queue = <<>> /\ s.got = <<>>
        BY <2>3, <3>1, OpensFacts
      <3>3. sockets' = Append(sockets, f) /\ f \in Object BY <2>3, <3>1, OpensFacts DEF Opens
      <3>4. o \in Sockets \/ o = f BY <3>3 DEF Sockets, Shape, TypeOK
      <3>5. CASE o = f
        <4>1. PICK s \in Socket : /\ sock'[o] = s /\ s.peer = p /\ s.rseq = 1
                                  /\ s.queue = <<>> /\ s.got = <<>>
          BY <3>2, <3>5
        <4>2. PICK m : m = net'[p] OBVIOUS
        <4>3. m = <<>> BY <1>2, <2>1, <4>2, EmptySeq
        <4>4. DOMAIN m = {} BY <4>3
        <4>5. Under(m, 0, 0) BY <4>4 DEF Under
        <4>6. s.got \o s.queue = <<>> BY <4>1
        <4>7. Finished(m, peer[p]) \in 0 .. 1 BY DEF Finished
        <4>8. s.rseq <= 1 + 0 + Finished(m, peer[p]) BY <4>1, <4>7
        <4>9. Len(s.got \o s.queue) = 0 /\ DOMAIN (s.got \o s.queue) = {} BY <4>6
        <4>10. Arrived(s, m, peer[p], 0) BY <2>1, <4>5, <4>8, <4>9 DEF Arrived
        <4>11. 0 \in 0 .. peer[p].sent BY <2>1
        <4> QED BY <1>2, <4>1, <4>2, <4>10, <4>11
      <3>6. CASE o # f
        <4>1. o \in Sockets /\ sock'[o] = sock[o] BY <1>4, <3>2, <3>4, <3>6
        <4>2. sock[o].peer # p BY <1>4, <2>1, <4>1 DEF Unknown
        <4> QED BY <1>6, <4>1, <4>2
      <3> QED BY <3>5, <3>6
    <2> QED BY <1>8, <2>2, <2>3, SynFacts
  <1>9. CASE ReceiveOther(p, g)
    <2>1. UNCHANGED <<sock, sockets>> /\ Connection(p) = None BY <1>9 DEF ReceiveOther, table
    <2>2. o \in Sockets BY <2>1 DEF Sockets
    <2>3. sock[o].peer # p BY <2>1, <2>2, ConnectionFacts DEF Shape
    <2> QED BY <1>6, <2>1, <2>2, <2>3
  <1> QED BY <1>3, <1>7, <1>8, <1>9

LEMMA FlowsPeer == ASSUME Shape, Ends, Begins, Flows, NEW p \in Peers, Peer(p) PROVE Flows'
  <1>1. PICK r \in Remote, g \in Segment :
           /\ peer' = [peer EXCEPT ![p] = r] /\ net' = [net EXCEPT ![p] = Append(@, g)]
           /\ Talks(p, r, g)
           /\ UNCHANGED <<table, program, ordered, copies, out, raced>>
    BY PeerFacts
  <1> SUFFICES ASSUME ordered, NEW o \in Sockets', sock'[o].peer # None
               PROVE  \E k \in 0 .. peer'[sock'[o].peer].sent :
                        Arrived(sock'[o], net'[sock'[o].peer], peer'[sock'[o].peer], k)
    BY <1>1 DEF Flows
  <1>2. /\ peer'[p] = r /\ \A q \in Peers : q # p => peer'[q] = peer[q]
        /\ net'[p] = Append(net[p], g) /\ \A q \in Peers : q # p => net'[q] = net[q]
        /\ net[p] \in Seq(Segment) /\ peer[p] \in Remote
    BY <1>1 DEF Shape, TypeOK
  <1>3. sock' = sock /\ o \in Sockets BY <1>1 DEF table, Sockets
  <1>4. o \in Used /\ sock[o] \in Socket BY <1>3, UsedFacts DEF Shape, Kinds, Sockets
  <1>5. sock[o].peer \in Peers BY <1>3, <1>4 DEF Socket
  <1>6. PICK k \in 0 .. peer[sock[o].peer].sent :
          Arrived(sock[o], net[sock[o].peer], peer[sock[o].peer], k)
    BY <1>3 DEF Flows
  <1>7. CASE sock[o].peer # p BY <1>2, <1>3, <1>5, <1>6, <1>7
  <1>8. CASE sock[o].peer = p
    <2>1. peer[p].st # "closed" BY <1>4, <1>8 DEF Begins, Unknown
    <2>2. /\ peer[p].st = "done" => r.st = "done" /\ ~ g.fin
          /\ \/ g.data = 0 /\ r.sent = peer[p].sent
             \/ g.data = peer[p].sent + 1 /\ r.sent = peer[p].sent + 1
      BY <1>1, <2>1 DEF Talks
    <2>3. PICK s \in Socket, t \in Remote, n \in Seq(Segment) :
            s = sock[o] /\ t = peer[p] /\ n = net[p]
      BY <1>2, <1>4
    <2>4. PICK m : m = net'[p] OBVIOUS
    <2>5. m = Append(n, g) /\ Arrived(s, n, t, k) /\ k \in 0 .. t.sent
      BY <1>2, <1>6, <1>8, <2>3, <2>4
    <2>6. k \in 0 .. r.sent /\ Arrived(s, m, r, k)
      <3>1. /\ t.st = "done" => r.st = "done" /\ ~ g.fin
            /\ \/ g.data = 0 /\ r.sent = t.sent
               \/ g.data = t.sent + 1 /\ r.sent = t.sent + 1
        BY <2>2, <2>3
      <3>2. k \in 0 .. t.sent /\ m = Append(n, g) /\ Arrived(s, n, t, k) BY <2>5
      <3> QED BY <3>1, <3>2, ArrivesMore
    <2> QED BY <1>2, <1>3, <1>8, <2>3, <2>4, <2>6
  <1> QED BY <1>7, <1>8

-----------------------------------------------------------------------------
(* What holds whatever the network does, and over one that is in order.    *)

\* TypeOK, the kinds of sockets, and what the program's locals are at each of
\* its places: the client it works on is a connection that completed its
\* handshake, whatever segments come in between.
THEOREM ShapeTheorem == Spec => []Shape
  <1>1. Init => Shape BY ShapeInit
  <1>2. Shape /\ [Next]_vars => Shape' BY ShapeNext, ShapeSame
  <1> QED BY <1>1, <1>2, PTL DEF Spec

LEMMA EndsInit == Init => Ends
  BY EmptySeq DEF Init, Ends, Used

LEMMA EndsNext == ASSUME Shape, Ends, Next PROVE Ends'
  BY EndsProgram, EndsDeliver, EndsPeer DEF Next

LEMMA EndsSame == Ends /\ UNCHANGED vars => Ends'
  BY DEF Ends, vars, table, remote, Used, Finned

LEMMA EndsAgreed == ASSUME Shape, Ends PROVE EndsAgree
  <1> SUFFICES ASSUME NEW o \in Object, sock[o] # Unused, sock[o].peer \in Peers
               PROVE  /\ sock[o].state # "SYN_RECEIVED" => peer[sock[o].peer].st \in {"open", "done"}
                      /\ sock[o].state = "TIME_WAIT" =>
                           peer[sock[o].peer].st = "done" /\ \E x \in out[sock[o].peer] : x[1] = "fin"
    BY DEF EndsAgree
  <1>1. o \in Used /\ sock[o].peer # None BY ObjectFacts DEF Used
  <1> QED BY <1>1 DEF Ends, Finned

\* Neither end's state runs ahead of the other's, whatever is lost, repeated or
\* overtaken.
THEOREM EndsTheorem == Spec => []EndsAgree
  <1>1. Init => Shape /\ Ends BY ShapeInit, EndsInit
  <1>2. Shape /\ Ends /\ [Next]_vars => Shape' /\ Ends'
    BY ShapeNext, ShapeSame, EndsNext, EndsSame
  <1>3. Shape /\ Ends => EndsAgree BY EndsAgreed
  <1> QED BY <1>1, <1>2, <1>3, PTL DEF Spec

LEMMA BeginsInit == Init => Begins
  BY EmptySeq DEF Init, Begins, Used, Fins, Unknown

LEMMA FlowsInit == Init => Flows
  BY EmptySeq DEF Init, Flows, Sockets

LEMMA OrderNext ==
  ASSUME Shape, Ends, Begins, Flows, Next
  PROVE  Begins' /\ Flows'
  BY BeginsProgram, BeginsDeliver, BeginsPeer, FlowsProgram, FlowsDeliver, FlowsPeer DEF Next

LEMMA OrderSame == Begins /\ Flows /\ UNCHANGED vars => Begins' /\ Flows'
  <1> SUFFICES ASSUME Begins, Flows, UNCHANGED vars PROVE Begins' /\ Flows' OBVIOUS
  <1>1. UNCHANGED <<sock, sockets, peer, net, ordered, out>> BY DEF vars, table, remote
  <1>2. Begins' BY <1>1 DEF Begins, Used, Unknown
  <1>3. Flows' BY <1>1 DEF Flows, Sockets
  <1> QED BY <1>2, <1>3

LEMMA StreamIsIntact == ASSUME Shape, Flows PROVE StreamIntact
  <1> SUFFICES ASSUME ordered, NEW o \in Sockets, sock[o].peer \in Peers
               PROVE  LET p == peer[sock[o].peer]
                      IN  /\ ~ sock[o].dropped =>
                               IsPrefixTo(sock[o].got \o sock[o].queue, p.sent)
                          /\ sock[o].rseq <= 1 + p.sent + (IF p.st = "done" THEN 1 ELSE 0)
    BY DEF StreamIntact
  <1>1. PICK s \in Socket, r \in Remote, n \in Seq(Segment) :
          s = sock[o] /\ r = peer[sock[o].peer] /\ n = net[sock[o].peer]
    <2>1. sock[o] \in Socket BY UsedFacts DEF Shape, Kinds, Sockets
    <2>2. peer[sock[o].peer] \in Remote /\ net[sock[o].peer] \in Seq(Segment)
      BY DEF Shape, TypeOK
    <2> QED BY <2>1, <2>2
  <1>2. sock[o].peer # None BY ObjectFacts
  <1>3. PICK k \in 0 .. r.sent : Arrived(s, n, r, k) BY <1>1, <1>2 DEF Flows
  <1>4. k \in Nat /\ r.sent \in Nat /\ k <= r.sent /\ s.rseq \in Nat BY DEF Remote, Socket
  <1>5. Finished(n, r) <= (IF r.st = "done" THEN 1 ELSE 0) /\ Finished(n, r) \in 0 .. 1
    BY DEF Finished
  <1>6. s.rseq <= 1 + r.sent + (IF r.st = "done" THEN 1 ELSE 0)
    BY <1>3, <1>4, <1>5 DEF Arrived
  <1>7. ~ s.dropped => IsPrefixTo(s.got \o s.queue, r.sent)
    BY <1>3, <1>4 DEF Arrived, IsPrefixTo
  <1> QED BY <1>1, <1>6, <1>7

\* Over a network that is in order, the program reads what the peer sent, and
\* acknowledges no byte that the peer has not sent.
THEOREM StreamTheorem == Spec => []StreamIntact
  <1>1. Init => Shape /\ Ends /\ Begins /\ Flows
    BY ShapeInit, EndsInit, BeginsInit, FlowsInit
  <1>2. Shape /\ Ends /\ Begins /\ Flows /\ [Next]_vars => Shape' /\ Ends' /\ Begins' /\ Flows'
    BY ShapeNext, ShapeSame, EndsNext, EndsSame, OrderNext, OrderSame
  <1>3. Shape /\ Flows => StreamIntact BY StreamIsIntact
  <1> QED BY <1>1, <1>2, <1>3, PTL DEF Spec

\* What the program stores, as states.
LEMMA ProgramStates ==
  ASSUME Shape, Program, NEW o \in Used, sock[o].state # sock'[o].state
  PROVE  \/ <<sock[o].state, sock'[o].state>> \in Diagram
         \/ pc = "finstate" /\ o = client /\ sock[o].state = "CLOSE_WAIT"
  <1> USE DEF Shape
  <1>1. o \in Object /\ sock[o] \in Socket /\ sock[o] # Unused BY UsedFacts
  <1>2. CASE Serve
    <2>1. sock' # sock BY <1>2
    <2>2. sock' = [sock EXCEPT ![Fresh] = NewSocket("LISTEN", None, 0, 0)] /\ Spares # {}
      BY <1>2, <2>1 DEF Serve
    <2>3. o # Fresh BY <1>1, <2>2, FreshFacts
    <2> QED BY <1>1, <2>2, <2>3 DEF TypeOK
  <1>3. CASE AcceptPop
    <2>1. /\ pc = "pop"
          /\ sock' = [sock EXCEPT ![server].pending = Front(@), ![client].accepts = @ + 1]
      BY <1>3 DEF AcceptPop, At
    <2>2. /\ server \in Used /\ sock[server].peer = None
          /\ client \in Used /\ sock[client].peer # None
      BY <2>1 DEF Locals, Working, Connected
    <2>3. /\ server \in Object /\ client \in Object /\ server # client
          /\ sock[server] \in Socket /\ sock[client] \in Socket
      BY <2>2, UsedFacts
    <2>4. /\ sock'[client] = [sock[client] EXCEPT !.accepts = sock[client].accepts + 1]
          /\ sock'[server] = [sock[server] EXCEPT !.pending = Front(sock[server].pending)]
          /\ \A q \in Object : q \notin {client, server} => sock'[q] = sock[q]
      BY <2>1, <2>3 DEF TypeOK
    <2>5. sock'[server].state = sock[server].state /\ sock'[client].state = sock[client].state
      BY <2>3, <2>4 DEF Socket
    <2> QED BY <1>1, <2>4, <2>5
  <1>4. CASE Recv
    <2>1. /\ pc = "serve" /\ sock' # sock BY <1>4 DEF Recv, At
    <2>2. sock' = [sock EXCEPT ![client].queue = Tail(@),
                               ![client].got = Append(@, Head(sock[client].queue))]
      BY <1>4, <2>1 DEF Recv
    <2>3. client \in Object /\ sock[client] \in Socket
      BY <2>1, UsedFacts DEF Locals, Working, Connected
    <2>4. PICK a, b : sock'[client] = [sock[client] EXCEPT !.queue = a, !.got = b]
      BY <2>2, <2>3 DEF TypeOK
    <2>5. sock'[client].state = sock[client].state BY <2>3, <2>4 DEF Socket
    <2>6. \A q \in Object : q # client => sock'[q] = sock[q] BY <2>2, <2>3 DEF TypeOK
    <2> QED BY <1>1, <2>5, <2>6
  <1>5. CASE SendAdvance \/ CloseAdvance
    <2>1. Advances /\ Connected(client)
      BY <1>5 DEF SendAdvance, CloseAdvance, Advances, At, Locals, Working
    <2>2. /\ \A q \in Used : q # client => sock'[q] = sock[q]
          /\ sock'[client].state = sock[client].state
      BY <2>1, AdvanceFacts
    <2> QED BY <2>2
  <1>6. CASE Escape
    <2>1. pc = "wait" /\ sock' = [sock EXCEPT ![server].state = "CLOSED"] BY <1>6 DEF Escape, At
    <2>2. server \in Object /\ sock[server] \in Socket /\ sock[server].state = "LISTEN"
      BY <2>1, UsedFacts DEF Locals, Serving
    <2>3. sock'[server].state = "CLOSED" /\ \A q \in Object : q # server => sock'[q] = sock[q]
      BY <2>1, <2>2 DEF TypeOK, Socket
    <2> QED BY <1>1, <2>2, <2>3 DEF Diagram
  <1>7. CASE CloseState
    <2>1. /\ \A q \in Used : q # client => sock'[q] = sock[q]
          /\ sock'[client] = [sock[client] EXCEPT !.state = "FIN_WAIT_1"]
          /\ sock[client].state \in {"ESTABLISHED", "CLOSE_WAIT"}
      BY <1>7, CloseStateFacts
    <2>2. o = client BY <2>1
    <2>3. sock'[o].state = "FIN_WAIT_1" BY <1>1, <2>1, <2>2 DEF Socket
    <2>4. pc = "finstate" BY <1>7 DEF CloseState, At
    <2> QED BY <2>1, <2>2, <2>3, <2>4 DEF Diagram
  <1>8. sock' = sock \/ Serve \/ AcceptPop \/ Recv \/ SendAdvance \/ CloseAdvance \/ Escape
        \/ CloseState
    BY DEF Program, RemoveStep, AcceptBack, Send, CloseOrphan, Close, CloseFin, RemoveFind,
           RemoveTail, RemoveShrink, RemoveDestroy, table
  <1> QED BY <1>2, <1>3, <1>4, <1>5, <1>6, <1>7, <1>8

\* What a segment does to them.
LEMMA DeliverStates ==
  ASSUME Shape, NEW p \in Peers, Deliver(p), NEW o \in Used, sock[o].state # sock'[o].state
  PROVE  <<sock[o].state, sock'[o].state>> \in Diagram
  <1>1. PICK i \in DOMAIN net[p] :
          /\ net[p][i] \in Segment
          /\ \/ ReceiveKnown(p, net[p][i])
             \/ ReceiveSyn(p, net[p][i])
             \/ ReceiveOther(p, net[p][i])
    BY DeliverFacts
  <1>2. PICK g \in Segment : g = net[p][i] BY <1>1
  <1>3. sock[o] \in Socket BY UsedFacts DEF Shape
  <1>4. CASE ReceiveKnown(p, g)
    <2>1. PICK c : c = Connection(p) OBVIOUS
    <2>2. PICK h : h = Handled(sock[c], g) OBVIOUS
    <2>3. /\ sock[c] \in Socket /\ sock'[c] = h
          /\ \A q \in Used : q # c =>
               \/ sock'[q] = sock[q]
               \/ sock'[q] = [sock[q] EXCEPT !.pending = Append(sock[q].pending, c)]
      BY <1>4, <2>1, <2>2, KnownFacts
    <2>4. CASE o = c
      <3>1. PICK s \in Socket : s = sock[c] BY <2>3
      <3>2. h.state # s.state => <<s.state, h.state>> \in Diagram BY <2>2, <3>1, HandledFacts
      <3> QED BY <2>3, <2>4, <3>1, <3>2
    <2>5. CASE o # c BY <1>3, <2>3, <2>5 DEF Socket
    <2> QED BY <2>4, <2>5
  <1>5. CASE ReceiveSyn(p, g)
    <2>1. CASE UNCHANGED <<sock, sockets, deleted, out, raced>> BY <2>1
    <2>2. CASE Opens(p) BY <2>2, OpensFacts
    <2> QED BY <1>5, <2>1, <2>2, SynFacts
  <1>6. CASE ReceiveOther(p, g) BY <1>6 DEF ReceiveOther, table
  <1> QED BY <1>1, <1>2, <1>4, <1>5, <1>6

\* The states of a socket follow the diagram of RFC 793, except where close()
\* stores FIN_WAIT_1 over a state that the handler changed in between.
THEOREM DiagramTheorem == Spec => FollowsDiagram
  <1> DEFINE Edge == \A o \in Object :
                sock[o] # Unused /\ sock[o].state # sock'[o].state =>
                  \/ <<sock[o].state, sock'[o].state>> \in Diagram
                  \/ pc = "finstate" /\ o = client /\ sock[o].state = "CLOSE_WAIT"
  <1>1. ASSUME Shape, Next PROVE Edge
    <2> SUFFICES ASSUME NEW o \in Object, sock[o] # Unused, sock[o].state # sock'[o].state
                 PROVE  \/ <<sock[o].state, sock'[o].state>> \in Diagram
                        \/ pc = "finstate" /\ o = client /\ sock[o].state = "CLOSE_WAIT"
      OBVIOUS
    <2>1. o \in Used BY DEF Used
    <2>2. CASE Program BY <1>1, <2>1, <2>2, ProgramStates
    <2>3. ASSUME NEW p \in Peers, Deliver(p) PROVE <<sock[o].state, sock'[o].state>> \in Diagram
      BY <1>1, <2>1, <2>3, DeliverStates
    <2>4. ASSUME NEW p \in Peers, Peer(p) PROVE FALSE
      <3>1. sock' = sock BY <1>1, <2>4, PeerFacts DEF table
      <3> QED BY <3>1
    <2> QED BY <1>1, <2>2, <2>3, <2>4 DEF Next
  <1>2. Shape /\ [Next]_vars => [Edge]_vars BY <1>1
  <1>3. Spec => []Shape BY ShapeTheorem
  <1> QED BY <1>2, <1>3, PTL DEF Spec, FollowsDiagram

-----------------------------------------------------------------------------
(* Who owns which socket.                                                  *)

\* What most steps leave as it is.
Same(o) ==
  /\ sock'[o].num = sock[o].num /\ sock'[o].peer = sock[o].peer
  /\ sock'[o].pending = sock[o].pending /\ sock'[o].accepts = sock[o].accepts
  /\ sock'[o].state = "SYN_RECEIVED" => sock[o].state = "SYN_RECEIVED"
AllSame == Used' = Used /\ \A o \in Used : Same(o)
Owning == ~ raced /\ TableDistinct /\ TakenOnce /\ Buried /\ AtPlace

LEMMA SameFacts ==
  ASSUME Shape, Owning, AllSame, UNCHANGED <<sockets, deleted>>, server' \in {server, None}
  PROVE  /\ TableDistinct' /\ TakenOnce' /\ Sockets' = Sockets
         /\ server' = server => Buried'
  <1>1. Sockets' = Sockets /\ Sockets \subseteq Used
    BY DEF Shape, Kinds, Sockets
  <1>2. \A i \in DOMAIN sockets : sockets[i] \in Used BY DEF Shape, Kinds
  <1>3. TableDistinct' BY <1>2 DEF Owning, TableDistinct, AllSame, Same
  <1>4. TakenOnce'
    <2>1. \A o \in Used' : /\ sock'[o].accepts \in {0, 1}
                           /\ sock'[o].accepts = 1 => sock'[o].state # "SYN_RECEIVED"
      BY DEF Owning, TakenOnce, AllSame, Same
    <2>2. ASSUME server' # None
          PROVE  /\ \A i, j \in DOMAIN sock'[server'].pending :
                      sock'[server'].pending[i] = sock'[server'].pending[j] => i = j
                 /\ \A i \in DOMAIN sock'[server'].pending :
                      sock'[sock'[server'].pending[i]].accepts = 0
      <3>1. server' = server /\ server \in Used BY <2>2 DEF Shape, Locals
      <3>2. sock'[server].pending = sock[server].pending BY <3>1 DEF AllSame, Same
      <3>3. \A i \in DOMAIN sock[server].pending : sock[server].pending[i] \in Used
        BY <3>1 DEF Shape, Kinds
      <3> QED BY <2>2, <3>1, <3>2, <3>3 DEF Owning, TakenOnce, AllSame, Same
    <2> QED BY <2>1, <2>2 DEF TakenOnce
  <1>5. ASSUME server' = server PROVE Buried'
    BY <1>1, <1>5 DEF Owning, Buried, AllSame, Same
  <1> QED BY <1>1, <1>3, <1>4, <1>5

\* The parts of AtPlace that do not depend on where the program goes next.
LEMMA PlaceFacts ==
  ASSUME Shape, Owning, AllSame, UNCHANGED <<sockets, deleted, server>>,
         pc \notin {"corrupt", "shell", "destroy"}, pc' \notin {"corrupt", "shell", "destroy"},
         sock'[server].state = sock[server].state, orphan' >= orphan, orphan' \in Nat,
         pc' \in Working \cup {"find", "tail", "shrink"} =>
           /\ client' \in Sockets
           /\ pc' # "pop" /\ sock[server].state = "LISTEN" => sock[client'].accepts = 1
           /\ sock[server].state = "CLOSED" => \A i \in DOMAIN sock[server].pending :
                i >= orphan' => sock[server].pending[i] # client',
         pc' \in {"tail", "shrink"} => index' \in DOMAIN sockets /\ sockets[index'] = client',
         pc' = "shrink" => index' = Len(sockets),
         pc' = "pop" => client' = Last(sock[server].pending),
         pc' \in Serving => sock[server].state = "LISTEN"
  PROVE  AtPlace'
  <1>1. Sockets' = Sockets BY DEF Sockets
  <1>2. server # None /\ server \in Used BY DEF Shape, Locals
  <1>3. sock'[server].pending = sock[server].pending BY <1>2 DEF AllSame, Same
  <1>4. Sockets \subseteq Used BY DEF Shape, Kinds, Sockets
  <1>5. pc' \in Working \cup {"find", "tail", "shrink"} =>
          sock'[client'].accepts = sock[client'].accepts
    BY <1>4 DEF AllSame, Same
  <1>6. orphan \in Nat /\ \A i \in DOMAIN sock[server].pending : i \in Nat
    <2>1. sock[server] \in Socket BY <1>2, UsedFacts DEF Shape
    <2>2. PICK q \in Seq(Object) : q = sock[server].pending BY <2>1 DEF Socket
    <2>3. \A i \in DOMAIN q : i \in Nat OBVIOUS
    <2>4. orphan \in Nat BY DEF Shape, TypeOK
    <2> QED BY <2>2, <2>3, <2>4
  <1>7. \A i \in DOMAIN sock[server].pending : i >= orphan' => i >= orphan BY <1>6
  <1>8. /\ \A o \in Sockets : deleted[o] = 0
        /\ server \in Sockets
        /\ \A i \in DOMAIN sock[server].pending :
             sock[server].state = "LISTEN" \/ i >= orphan => sock[server].pending[i] \in Sockets
    BY <1>2 DEF Owning, AtPlace
  <1>9. pc' \in {"serve", "send", "advance"} => sock'[client'].accepts = 1
    BY <1>5 DEF Serving, Working
  <1>10. pc' \in Working \cup Removing => pc' \in Working \cup {"find", "tail", "shrink"}
    BY DEF Removing
  <1> QED BY <1>1, <1>3, <1>5, <1>7, <1>8, <1>9, <1>10 DEF AtPlace

\* What holds of a socket on the server's pending list.
LEMMA PendingFacts ==
  ASSUME Shape, Owning, server # None
  PROVE  /\ server \in Used /\ sock[server] \in Socket /\ sock[server].peer = None
         /\ sock[server].pending \in Seq(Object)
         /\ \A i \in DOMAIN sock[server].pending :
              /\ sock[server].pending[i] \in Used /\ sock[server].pending[i] # server
              /\ sock[sock[server].pending[i]].accepts = 0
  <1>1. server \in Used /\ sock[server] \in Socket /\ sock[server].peer = None
    BY UsedFacts DEF Shape, Locals
  <1>2. sock[server].pending \in Seq(Object) BY <1>1 DEF Socket
  <1>3. \A i \in DOMAIN sock[server].pending : Connected(sock[server].pending[i])
    BY <1>1 DEF Shape, PendingConnected
  <1> QED BY <1>1, <1>2, <1>3 DEF Connected, Owning, TakenOnce

LEMMA AcceptBackOwned == ASSUME Shape, Owning, AcceptBack PROVE Owned'
  <1>1. /\ pc = "wait" /\ sock[server].pending # <<>> /\ client' = Last(sock[server].pending)
        /\ pc' = "pop" /\ UNCHANGED <<sock, sockets, deleted, server, orphan>>
    BY DEF AcceptBack, At, table
  <1>2. AllSame BY <1>1 DEF AllSame, Same, Used
  <1>3. server # None /\ sock[server].state = "LISTEN" /\ orphan \in Nat
    BY <1>1 DEF Shape, Locals, Serving, TypeOK
  <1>4. sock[server].pending \in Seq(Object) BY <1>3, PendingFacts
  <1>5. client' = sock[server].pending[Len(sock[server].pending)]
        /\ Len(sock[server].pending) \in DOMAIN sock[server].pending
    <2>1. /\ Last(sock[server].pending) = sock[server].pending[Len(sock[server].pending)]
          /\ Len(sock[server].pending) \in Nat \ {0}
      BY <1>1, <1>4, FrontFacts
    <2> QED BY <1>1, <1>4, <2>1
  <1>6. client' \in Sockets BY <1>1, <1>3, <1>5 DEF Owning, AtPlace
  <1>7. AtPlace' BY <1>1, <1>2, <1>3, <1>6, PlaceFacts
  <1> QED BY <1>1, <1>2, <1>7, SameFacts DEF Owned

LEMMA KeptOwned ==
  ASSUME Shape, Owning, Recv \/ Send \/ SendAdvance \/ CloseFin \/ CloseAdvance
  PROVE  Owned'
  <1>1. /\ pc \in Working /\ pc # "pop" /\ pc' \in Working /\ pc' # "pop"
        /\ pc' \in Serving => pc \in Serving
        /\ UNCHANGED <<sockets, deleted, server, client, orphan, index>>
    BY DEF Recv, Send, SendAdvance, CloseFin, CloseAdvance, At, table, Working, Serving
  <1>2. client \in Used /\ sock[client] \in Socket /\ sock[client].peer # None
    BY <1>1, UsedFacts DEF Shape, Locals, Connected
  <1>3. AllSame
    <2>1. CASE sock' = sock BY <2>1 DEF AllSame, Same, Used
    <2>2. CASE SendAdvance \/ CloseAdvance
      <3>1. Advances /\ Connected(client)
        BY <1>1, <2>2 DEF SendAdvance, CloseAdvance, Advances, Shape, Locals
      <3>2. /\ Used' = Used /\ \A q \in Used : q # client => sock'[q] = sock[q]
            /\ sock'[client] = [sock[client] EXCEPT !.sseq = @ + 1]
        BY <3>1, AdvanceFacts
      <3>3. Same(client) BY <1>2, <3>2 DEF Same, Socket
      <3> QED BY <3>2, <3>3 DEF AllSame, Same
    <2>3. CASE Recv /\ sock' # sock
      <3>1. sock' = [sock EXCEPT ![client].queue = Tail(@),
                                 ![client].got = Append(@, Head(sock[client].queue))]
        BY <2>3 DEF Recv
      <3>2. PICK a, b : sock'[client] = [sock[client] EXCEPT !.queue = a, !.got = b]
        BY <1>2, <3>1, UsedFacts DEF Shape, TypeOK
      <3>3. \A q \in Object : q # client => sock'[q] = sock[q]
        BY <1>2, <3>1, UsedFacts DEF Shape, TypeOK
      <3>4. Same(client) /\ sock'[client].state = sock[client].state
        BY <1>2, <3>2 DEF Same, Socket
      <3>5. Used' = Used
        <4>1. sock'[client].state # "none" BY <1>2, <3>4 DEF Socket, States
        <4>2. sock'[client] # Unused BY <4>1 DEF Unused
        <4> QED BY <1>2, <3>3, <4>2 DEF Used
      <3> QED BY <3>3, <3>4, <3>5, UsedFacts DEF AllSame, Same, Shape
    <2>4. sock' = sock \/ SendAdvance \/ CloseAdvance \/ Recv BY DEF Send, CloseFin, table
    <2> QED BY <2>1, <2>2, <2>3, <2>4
  <1>4. server \in Used /\ sock[server].peer = None /\ orphan \in Nat
    BY <1>1 DEF Shape, Locals, Working, TypeOK
  <1>5. sock'[server].state = sock[server].state
    <2>1. CASE sock' = sock BY <2>1
    <2>2. CASE SendAdvance \/ CloseAdvance
      <3>1. Advances /\ Connected(client)
        BY <1>1, <2>2 DEF SendAdvance, CloseAdvance, Advances, Shape, Locals
      <3> QED BY <1>2, <1>4, <3>1, AdvanceFacts
    <2>3. CASE Recv /\ sock' # sock
      <3>1. sock' = [sock EXCEPT ![client].queue = Tail(@),
                                 ![client].got = Append(@, Head(sock[client].queue))]
        BY <2>3 DEF Recv
      <3>2. \A q \in Object : q # client => sock'[q] = sock[q]
        BY <1>2, <3>1, UsedFacts DEF Shape, TypeOK
      <3> QED BY <1>2, <1>4, <3>2, UsedFacts DEF Shape
    <2>4. sock' = sock \/ SendAdvance \/ CloseAdvance \/ Recv BY DEF Send, CloseFin, table
    <2> QED BY <2>1, <2>2, <2>3, <2>4
  <1>6. /\ client \in Sockets
        /\ sock[server].state = "LISTEN" => sock[client].accepts = 1
        /\ sock[server].state = "CLOSED" => \A i \in DOMAIN sock[server].pending :
             i >= orphan => sock[server].pending[i] # client
    BY <1>1 DEF Owning, AtPlace
  <1>7. pc \notin {"corrupt", "shell", "destroy"} /\ pc' \notin {"corrupt", "shell", "destroy"}
        /\ pc' \notin {"tail", "shrink"}
    BY <1>1 DEF Working
  <1>8. pc' \in Serving => sock[server].state = "LISTEN"
    BY <1>1, <1>4, ObjectFacts, UsedFacts DEF Shape, Locals
  <1>9. AtPlace' BY <1>1, <1>3, <1>4, <1>5, <1>6, <1>7, <1>8, PlaceFacts
  <1> QED BY <1>1, <1>3, <1>9, SameFacts DEF Owned

LEMMA CloseOrphanOwned == ASSUME Shape, Owning, CloseOrphan PROVE Owned'
  <1>1. /\ pc = "orphans" /\ UNCHANGED <<sock, sockets, deleted, server>>
    BY DEF CloseOrphan, At, table
  <1>2. AllSame BY <1>1 DEF AllSame, Same, Used
  <1>3. server # None /\ sock[server].state = "CLOSED" /\ orphan \in Nat \ {0}
    BY <1>1 DEF Shape, Locals
  <1>4. sock[server].pending \in Seq(Object) BY <1>3, PendingFacts
  <1>5. CASE orphan <= Len(sock[server].pending)
    <2>1. client' = sock[server].pending[orphan] /\ orphan' = orphan + 1 /\ pc' = "close"
      BY <1>5 DEF CloseOrphan
    <2>2. orphan \in DOMAIN sock[server].pending BY <1>3, <1>4, <1>5
    <2>3. client' \in Sockets BY <1>1, <1>3, <2>1, <2>2 DEF Owning, AtPlace
    <2>4. \A i \in DOMAIN sock[server].pending :
            i >= orphan' => sock[server].pending[i] # client'
      <3> SUFFICES ASSUME NEW i \in DOMAIN sock[server].pending, i >= orphan + 1
                   PROVE  sock[server].pending[i] # sock[server].pending[orphan]
        BY <2>1
      <3>1. i # orphan BY <1>3, <1>4
      <3> QED BY <1>3, <2>2, <3>1 DEF Owning, TakenOnce
    <2>5. orphan' \in Nat /\ orphan' >= orphan BY <1>3, <2>1
    <2>6. pc' \notin Serving BY <2>1 DEF Serving
    <2>7. AtPlace' BY <1>1, <1>2, <1>3, <2>1, <2>3, <2>4, <2>5, <2>6, PlaceFacts
    <2> QED BY <1>1, <1>2, <2>7, SameFacts DEF Owned, CloseOrphan
  <1>6. CASE ~ (orphan <= Len(sock[server].pending))
    <2>1. client' = server /\ orphan' = orphan /\ pc' = "find"
      BY <1>6 DEF CloseOrphan
    <2>2. server \in Sockets BY <1>1 DEF Owning, AtPlace
    <2>3. \A i \in DOMAIN sock[server].pending : ~ (i >= orphan)
      <3> SUFFICES ASSUME NEW i \in DOMAIN sock[server].pending, i >= orphan PROVE FALSE
        OBVIOUS
      <3>1. i \in Nat /\ i <= Len(sock[server].pending) /\ Len(sock[server].pending) \in Nat
        BY <1>4
      <3> QED BY <1>3, <1>6, <3>1
    <2>4. orphan' \in Nat /\ orphan' >= orphan /\ pc' \notin Serving BY <1>3, <2>1 DEF Serving
    <2>5. AtPlace' BY <1>1, <1>2, <1>3, <2>1, <2>2, <2>3, <2>4, PlaceFacts
    <2> QED BY <1>1, <1>2, <2>5, SameFacts DEF Owned, CloseOrphan
  <1> QED BY <1>5, <1>6

LEMMA CloseOwned == ASSUME Shape, Owning, Close PROVE Owned'
  <1>1. pc = "close" /\ UNCHANGED <<sock, sockets, deleted, raced>> BY DEF Close, At, table
  <1>2. AllSame BY <1>1 DEF AllSame, Same, Used
  <1>3. Connected(client) /\ server \in Used /\ orphan \in Nat
    BY <1>1 DEF Shape, Locals, Working, TypeOK
  <1>4. sock[client].state # "CLOSED" BY <1>3 DEF Connected, Shape, Kinds
  <1>5. pc' \in {"fin", "find"} /\ UNCHANGED <<server, client, orphan, index>>
    BY <1>4 DEF Close
  <1>6. /\ client \in Sockets
        /\ sock[server].state = "LISTEN" => sock[client].accepts = 1
        /\ sock[server].state = "CLOSED" => \A i \in DOMAIN sock[server].pending :
             i >= orphan => sock[server].pending[i] # client
    BY <1>1 DEF Owning, AtPlace, Working
  <1>7. pc' \notin {"corrupt", "shell", "destroy", "tail", "shrink", "pop"} /\ pc' \notin Serving
    BY <1>5 DEF Serving
  <1>8. AtPlace' BY <1>1, <1>2, <1>3, <1>5, <1>6, <1>7, PlaceFacts
  <1> QED BY <1>1, <1>2, <1>5, <1>8, SameFacts DEF Owned

LEMMA EscapeOwned == ASSUME Shape, Owning, Escape PROVE Owned'
  <1>1. /\ pc = "wait" /\ sock' = [sock EXCEPT ![server].state = "CLOSED"]
        /\ pc' = "orphans" /\ orphan' = 1 /\ UNCHANGED <<sockets, deleted, server, raced>>
    BY DEF Escape, At
  <1>2. server # None /\ sock[server].state = "LISTEN"
    BY <1>1 DEF Shape, Locals, Serving
  <1>3. /\ server \in Used /\ sock[server] \in Socket /\ server \in Object
        /\ sock[server].pending \in Seq(Object)
    BY <1>2, PendingFacts, UsedFacts DEF Shape
  <1>4. /\ \A q \in Object : q # server => sock'[q] = sock[q]
        /\ sock'[server] = [sock[server] EXCEPT !.state = "CLOSED"]
    BY <1>1, <1>3 DEF Shape, TypeOK
  <1>5. Same(server) /\ sock'[server].state = "CLOSED" BY <1>3, <1>4 DEF Same, Socket
  <1>6. AllSame
    <2>1. sock'[server] # Unused BY <1>5 DEF Unused
    <2>2. Used' = Used BY <1>3, <1>4, <2>1 DEF Used
    <2> QED BY <1>4, <1>5, <2>2, UsedFacts DEF AllSame, Same, Shape
  <1>7. Sockets' = Sockets BY <1>1 DEF Sockets
  <1>8. AtPlace'
    <2>1. sock'[server].pending = sock[server].pending BY <1>5 DEF Same
    <2>2. /\ server \in Sockets
          /\ \A o \in Sockets : deleted[o] = 0
          /\ \A i \in DOMAIN sock[server].pending : sock[server].pending[i] \in Sockets
      BY <1>1, <1>2 DEF Owning, AtPlace
    <2>3. \A i \in DOMAIN sock'[server].pending : sock'[server].pending[i] \in Sockets'
      BY <1>7, <2>1, <2>2
    <2>4. \A o \in Sockets' : deleted'[o] = 0 BY <1>1, <1>7, <2>2
    <2>5. server' \in Sockets'
      <3>1. server' = server BY <1>1
      <3> QED BY <1>7, <2>2, <3>1
    <2>6. /\ pc' \notin Working \cup Removing
          /\ pc' \notin {"serve", "send", "advance", "pop", "tail", "shrink", "destroy"}
      BY <1>1 DEF Working, Removing
    <2> QED BY <1>1, <2>3, <2>4, <2>5, <2>6 DEF AtPlace, Removing
  <1> QED BY <1>1, <1>6, <1>8, SameFacts DEF Owned

LEMMA CloseStateOwned == ASSUME Shape, Owning, CloseState PROVE Owned'
  <1>1. /\ pc = "finstate" /\ Return /\ UNCHANGED <<sockets, deleted, raced>>
    BY DEF CloseState, At
  <1>2. /\ Used' = Used /\ \A q \in Used : q # client => sock'[q] = sock[q]
        /\ Connected(client) /\ sock'[client] = [sock[client] EXCEPT !.state = "FIN_WAIT_1"]
    BY CloseStateFacts
  <1>3. server # None /\ orphan \in Nat BY <1>1 DEF Shape, Locals, TypeOK
  <1>4. server \in Used /\ sock[server].peer = None BY <1>3, PendingFacts
  <1>5. client \in Used /\ sock[client] \in Socket /\ client # server
    BY <1>2, <1>4, UsedFacts DEF Connected, Shape
  <1>6. Same(client) BY <1>2, <1>5 DEF Same, Socket
  <1>7. AllSame BY <1>2, <1>6 DEF AllSame, Same
  <1>8. /\ UNCHANGED <<server, orphan>>
        /\ pc' = IF sock[server].state = "LISTEN" THEN "wait" ELSE "orphans"
    BY <1>1, <1>5 DEF Return, Back
  <1>9. sock'[server].state = sock[server].state BY <1>2, <1>4, <1>5
  <1>10. /\ pc' \notin {"corrupt", "shell", "destroy", "tail", "shrink", "pop", "find"}
         /\ pc' \notin Working /\ (pc' \in Serving => sock[server].state = "LISTEN")
    BY <1>8 DEF Serving, Working
  <1>11. AtPlace' BY <1>1, <1>3, <1>7, <1>8, <1>9, <1>10, PlaceFacts
  <1> QED BY <1>1, <1>7, <1>8, <1>11, SameFacts DEF Owned

LEMMA RemoveFindOwned == ASSUME Shape, Owning, RemoveFind PROVE Owned'
  <1>1. pc = "find" /\ UNCHANGED <<sock, sockets, deleted, raced>> BY DEF RemoveFind, At, table
  <1>2. AllSame BY <1>1 DEF AllSame, Same, Used
  <1> DEFINE I == {i \in DOMAIN sockets : sock[sockets[i]].num = sock[client].num}
  <1>3. client \in Sockets BY <1>1 DEF Owning, AtPlace
  <1>4. PICK n \in DOMAIN sockets : sockets[n] = client BY <1>3 DEF Sockets
  <1>5. n \in I /\ I # {} BY <1>4
  <1>6. I \subseteq Nat BY DEF Shape, TypeOK
  <1>7. /\ index' = CHOOSE i \in I : \A j \in I : i <= j
        /\ pc' = "tail" /\ UNCHANGED <<server, client, orphan>>
    BY <1>5 DEF RemoveFind
  <1>8. index' \in I
    <2>1. \E m \in I : \A k \in I : m <= k BY <1>5, <1>6, Least
    <2> QED BY <1>7, <2>1
  <1>9. index' = n BY <1>4, <1>8 DEF Owning, TableDistinct
  <1>10. server # None /\ orphan \in Nat BY <1>1 DEF Shape, Locals, TypeOK
  <1>11. /\ sock[server].state = "LISTEN" => sock[client].accepts = 1
         /\ sock[server].state = "CLOSED" => \A i \in DOMAIN sock[server].pending :
              i >= orphan => sock[server].pending[i] # client
    BY <1>1 DEF Owning, AtPlace, Removing
  <1>12. /\ pc \notin {"corrupt", "shell", "destroy"}
         /\ pc' \notin {"corrupt", "shell", "destroy", "shrink", "pop"} /\ pc' \notin Serving
    BY <1>1, <1>7 DEF Serving
  <1>13. index' \in DOMAIN sockets /\ sockets[index'] = client' /\ client' \in Sockets
    BY <1>3, <1>4, <1>7, <1>9
  <1> HIDE DEF I
  <1>14. AtPlace' BY <1>1, <1>2, <1>7, <1>10, <1>11, <1>12, <1>13, PlaceFacts
  <1> QED BY <1>1, <1>2, <1>7, <1>14, SameFacts DEF Owned

LEMMA RemoveTailOwned == ASSUME Shape, Owning, RemoveTail PROVE Owned'
  <1>1. UNCHANGED <<sock, server, client, orphan, index, raced>> /\ pc = "tail"
    BY DEF RemoveTail, At
  <1>2. /\ index \in DOMAIN sockets /\ sockets # <<>> /\ sockets' \in Seq(Object)
        /\ \A i \in DOMAIN sockets' : sockets'[i] \in Sockets
        /\ \/ index = Len(sockets) /\ pc' = "shrink" /\ UNCHANGED <<deleted, sockets>>
           \/ /\ index \in 1 .. Len(sockets) - 1 /\ pc' = "corrupt"
              /\ deleted' = [deleted EXCEPT ![sockets[index]] = @ + 2]
              /\ Len(sockets') = Len(sockets) - 1
              /\ \A i \in 1 .. Len(sockets) - 1 :
                   sockets'[i] = IF i = index THEN sockets[Len(sockets)] ELSE sockets[i]
    BY TailFacts
  <1>3. AllSame BY <1>1 DEF AllSame, Same, Used
  <1>4. CASE UNCHANGED <<deleted, sockets>> /\ index = Len(sockets) /\ pc' = "shrink"
    <2>1. server # None /\ orphan \in Nat BY <1>1 DEF Shape, Locals, TypeOK
    <2>2. /\ client \in Sockets /\ sockets[index] = client
          /\ sock[server].state = "LISTEN" => sock[client].accepts = 1
          /\ sock[server].state = "CLOSED" => \A i \in DOMAIN sock[server].pending :
               i >= orphan => sock[server].pending[i] # client
      BY <1>1 DEF Owning, AtPlace, Removing
    <2>3. AtPlace' BY <1>1, <1>2, <1>3, <1>4, <2>1, <2>2, PlaceFacts DEF Serving
    <2> QED BY <1>1, <1>3, <1>4, <2>3, SameFacts DEF Owned
  <1>5. CASE /\ index \in 1 .. Len(sockets) - 1 /\ pc' = "corrupt"
             /\ deleted' = [deleted EXCEPT ![sockets[index]] = @ + 2]
             /\ Len(sockets') = Len(sockets) - 1
             /\ \A i \in 1 .. Len(sockets) - 1 :
                  sockets'[i] = IF i = index THEN sockets[Len(sockets)] ELSE sockets[i]
    <2>1. Sockets' \subseteq Sockets BY <1>2 DEF Sockets
    <2>2. sockets[index] \in Used BY <1>2 DEF Shape, Kinds
    <2>3. Len(sockets) \in Nat /\ DOMAIN sockets = 1 .. Len(sockets) BY DEF Shape, TypeOK
    <2>8. DOMAIN sockets' = 1 .. Len(sockets) - 1 BY <1>2, <1>5, <2>3
    <2>9. PICK n \in Nat : n = Len(sockets) BY <2>3
    <2>10. /\ index \in 1 .. n - 1
           /\ \A i \in 1 .. n - 1 : sockets'[i] = IF i = index THEN sockets[n] ELSE sockets[i]
      BY <1>5, <2>9
    <2>4. TableDistinct'
      <3> SUFFICES ASSUME NEW i \in 1 .. n - 1, NEW j \in 1 .. n - 1, i # j
                   PROVE  /\ sock[sockets'[i]].peer # sock[sockets'[j]].peer
                          /\ sock[sockets'[i]].num # sock[sockets'[j]].num
                          /\ sockets'[i] # sockets'[j]
        BY <1>1, <2>8, <2>9 DEF TableDistinct
      <3>1. PICK a, b : /\ a \in 1 .. n /\ b \in 1 .. n /\ a # b
                        /\ sockets'[i] = sockets[a] /\ sockets'[j] = sockets[b]
        <4>1. n # i /\ n # j /\ n \in 1 .. n /\ i \in 1 .. n /\ j \in 1 .. n OBVIOUS
        <4>2. CASE i = index BY <2>10, <4>1, <4>2
        <4>3. CASE j = index BY <2>10, <4>1, <4>3
        <4>4. CASE i # index /\ j # index BY <2>10, <4>1, <4>4
        <4> QED BY <4>2, <4>3, <4>4
      <3>2. a \in DOMAIN sockets /\ b \in DOMAIN sockets BY <2>3, <2>9, <3>1
      <3> QED BY <3>1, <3>2 DEF Owning, TableDistinct
    <2>5. TakenOnce' BY <1>1, <1>3 DEF Owning, TakenOnce, AllSame
    <2>6. Buried'
      <3>1. \A o \in Object : o # sockets[index] => deleted'[o] = deleted[o]
        BY <1>5 DEF Shape, TypeOK
      <3>2. deleted'[sockets[index]] > 0
        BY <1>5, <2>2, UsedFacts DEF Shape, TypeOK
      <3> QED BY <1>1, <1>3, <2>1, <2>2, <3>1, <3>2, UsedFacts
          DEF Owning, Buried, AllSame, Shape
    <2>7. AtPlace' BY <1>5 DEF AtPlace, Working, Removing
    <2> QED BY <2>4, <2>5, <2>6, <2>7 DEF Owned
  <1> QED BY <1>2, <1>4, <1>5

LEMMA RemoveShrinkOwned == ASSUME Shape, Owning, RemoveShrink PROVE Owned'
  <1>1. UNCHANGED <<sock, deleted, server, client, orphan, raced>> BY DEF RemoveShrink
  <1>2. /\ pc = "shrink" /\ sockets # <<>> /\ Len(sockets) \in Nat \ {0}
        /\ sockets' \in Seq(Object) /\ Len(sockets') = Len(sockets) - 1
        /\ \A i \in 1 .. Len(sockets) - 1 : sockets'[i] = sockets[i]
        /\ \A i \in DOMAIN sockets' : sockets'[i] \in Sockets
        /\ spare' = sockets[Len(sockets)] /\ index' = Len(sockets) /\ pc' = "destroy"
    BY ShrinkFacts
  <1>3. AllSame BY <1>1 DEF AllSame, Same, Used
  <1>4. PICK n \in Nat \ {0} : n = Len(sockets) BY <1>2
  <1>5. DOMAIN sockets = 1 .. n BY <1>4 DEF Shape, TypeOK
  <1>6. DOMAIN sockets' = 1 .. n - 1 /\ \A i \in 1 .. n - 1 : sockets'[i] = sockets[i]
    BY <1>2, <1>4
  <1>7. /\ client = sockets[n] /\ client \in Sockets
        /\ server \in Sockets /\ \A o \in Sockets : deleted[o] = 0
        /\ sock[server].state = "LISTEN" => sock[client].accepts = 1
        /\ sock[server].state = "CLOSED" => \A i \in DOMAIN sock[server].pending :
             i >= orphan => sock[server].pending[i] # client
        /\ \A i \in DOMAIN sock[server].pending :
             sock[server].state = "LISTEN" \/ i >= orphan => sock[server].pending[i] \in Sockets
    <2>1. server # None BY <1>2 DEF Shape, Locals
    <2> QED BY <1>2, <1>4, <2>1 DEF Owning, AtPlace, Removing
  <1>8. client \notin Sockets'
    <2> SUFFICES ASSUME NEW i \in 1 .. n - 1, sockets'[i] = client PROVE FALSE
      BY <1>6 DEF Sockets
    <2>1. i \in DOMAIN sockets /\ n \in DOMAIN sockets /\ i # n BY <1>5
    <2> QED BY <1>6, <1>7, <2>1 DEF Owning, TableDistinct
  <1>9. Sockets' \subseteq Sockets BY <1>2 DEF Sockets
  <1>10. \A o \in Sockets : o = client \/ o \in Sockets'
    <2> SUFFICES ASSUME NEW i \in 1 .. n, sockets[i] # client PROVE sockets[i] \in Sockets'
      BY <1>5 DEF Sockets
    <2>1. i \in 1 .. n - 1 BY <1>7
    <2> QED BY <1>6, <2>1 DEF Sockets
  <1>11. TableDistinct'
    <2> SUFFICES ASSUME NEW i \in 1 .. n - 1, NEW j \in 1 .. n - 1, i # j
                 PROVE  /\ sock[sockets'[i]].peer # sock[sockets'[j]].peer
                        /\ sock[sockets'[i]].num # sock[sockets'[j]].num
                        /\ sockets'[i] # sockets'[j]
      BY <1>1, <1>6 DEF TableDistinct
    <2>1. i \in DOMAIN sockets /\ j \in DOMAIN sockets BY <1>5
    <2> QED BY <1>6, <2>1 DEF Owning, TableDistinct
  <1>12. TakenOnce' BY <1>1, <1>3 DEF Owning, TakenOnce, AllSame
  <1>13. Buried' BY <1>1, <1>3, <1>9 DEF Owning, Buried, AllSame
  <1>14. sock[server].state \in {"LISTEN", "CLOSED"}
    <2>1. server \in Used /\ sock[server].peer = None BY <1>2 DEF Shape, Locals
    <2> QED BY <2>1 DEF Shape, Kinds
  <1>15. AtPlace'
    <2>1. \A i \in DOMAIN sock[server].pending :
            sock[server].state = "LISTEN" \/ i >= orphan => sock[server].pending[i] \in Sockets'
      <3> SUFFICES ASSUME NEW i \in DOMAIN sock[server].pending,
                          sock[server].state = "LISTEN" \/ i >= orphan
                   PROVE  sock[server].pending[i] # client
        BY <1>7, <1>10
      <3>1. server # None BY <1>2 DEF Shape, Locals
      <3>2. sock[sock[server].pending[i]].accepts = 0 BY <3>1, PendingFacts
      <3>3. CASE sock[server].state = "LISTEN" BY <1>7, <3>2, <3>3
      <3>4. CASE sock[server].state # "LISTEN" BY <1>7, <1>14, <3>4
      <3> QED BY <3>3, <3>4
    <2>2. client # server => server \in Sockets' BY <1>7, <1>10
    <2>3. \A o \in Sockets' : deleted[o] = 0 BY <1>7, <1>9
    <2>4. spare' = client /\ index' = Len(sockets') + 1 BY <1>2, <1>4, <1>7
    <2>5. /\ sock[server].state = "LISTEN" => sock[client].accepts = 1
          /\ sock[server].state = "CLOSED" => \A i \in DOMAIN sock[server].pending :
               i >= orphan => sock[server].pending[i] # client
      BY <1>7
    <2>6. pc' = "destroy" BY <1>2
    <2> QED BY <1>1, <1>8, <2>1, <2>2, <2>3, <2>4, <2>5, <2>6 DEF AtPlace, Working
  <1> QED BY <1>11, <1>12, <1>13, <1>15 DEF Owned

LEMMA RemoveDestroyOwned == ASSUME Shape, Owning, RemoveDestroy PROVE Owned'
  <1>1. pc = "destroy" /\ Return /\ UNCHANGED <<sock, sockets, raced>>
    BY DEF RemoveDestroy, At
  <1>2. /\ spare = client /\ index = Len(sockets) + 1 /\ client \notin Sockets
        /\ client # server => server \in Sockets
        /\ \A o \in Sockets : deleted[o] = 0
    BY <1>1 DEF Owning, AtPlace
  <1>3. Len(sockets) \in Nat BY DEF Shape, TypeOK
  <1>4. deleted' = [deleted EXCEPT ![client] = @ + 1]
    <2>1. PICK n \in Nat : n = Len(sockets) BY <1>3
    <2>2. ~ (index <= Len(sockets)) BY <1>2, <2>1
    <2>3. deleted' = [deleted EXCEPT ![spare] = @ + 1] BY <2>2 DEF RemoveDestroy
    <2> QED BY <1>2, <2>3
  <1>5. client \in Used /\ client \in Object
    <2>1. client = server \/ Connected(client) BY <1>1 DEF Shape, Locals, Removing
    <2>2. server \in Used BY <1>1 DEF Shape, Locals
    <2> QED BY <2>1, <2>2, UsedFacts DEF Connected, Shape
  <1>6. /\ \A o \in Object : o # client => deleted'[o] = deleted[o]
        /\ deleted'[client] > 0
    BY <1>4, <1>5 DEF Shape, TypeOK
  <1>7. AllSame /\ Sockets' = Sockets BY <1>1 DEF AllSame, Same, Used, Sockets
  <1>8. server # None /\ server \in Used /\ sock[server].peer = None /\ orphan \in Nat
    BY <1>1 DEF Shape, Locals, TypeOK
  <1>9. TableDistinct' BY <1>1 DEF Owning, TableDistinct
  <1>10. Sockets \subseteq Object BY DEF Shape, TypeOK, Sockets
  <1>11. \A o \in Sockets : deleted'[o] = 0 BY <1>2, <1>6, <1>10
  <1>12. CASE client = server
    <2>1. pc' = "shell" /\ server' = None /\ client' = None BY <1>1, <1>12 DEF Return, Back
    <2>2. TakenOnce' BY <1>1, <1>7, <2>1 DEF Owning, TakenOnce, AllSame
    <2>3. Buried'
      <3>1. \A o \in Sockets : sock[o].peer # None BY <1>2, <1>12 DEF Owning, Buried
      <3>2. \A o \in Object : o \notin Used => deleted'[o] = 0
        BY <1>5, <1>6 DEF Owning, Buried
      <3>3. \A o \in Used : sock[o].peer = None => deleted'[o] > 0
        BY <1>6, <1>12, UsedFacts DEF Owning, Buried, Shape
      <3> QED BY <1>1, <1>7, <3>1, <3>2, <3>3 DEF Buried, AllSame
    <2>4. AtPlace' BY <1>7, <1>11, <2>1 DEF AtPlace, Working, Removing
    <2> QED BY <1>9, <2>2, <2>3, <2>4 DEF Owned
  <1>13. CASE client # server
    <2>1. /\ pc' = IF sock[server].state = "LISTEN" THEN "wait" ELSE "orphans"
          /\ UNCHANGED <<server, orphan>>
      BY <1>1, <1>13 DEF Return, Back
    <2>2. TakenOnce' BY <1>1, <1>7, <2>1 DEF Owning, TakenOnce, AllSame
    <2>3. Buried'
      <3>1. \A o \in Object : o \notin Used => deleted'[o] = 0
        BY <1>5, <1>6 DEF Owning, Buried
      <3>2. \A o \in Used : sock[o].peer = None => o = server \/ deleted'[o] > 0
        BY <1>6, UsedFacts DEF Owning, Buried, Shape
      <3> QED BY <1>1, <1>7, <2>1, <3>1, <3>2 DEF Owning, Buried, AllSame
    <2>4. AtPlace'
      <3>1. /\ server \in Sockets
            /\ \A i \in DOMAIN sock[server].pending :
                 sock[server].state = "LISTEN" \/ i >= orphan => sock[server].pending[i] \in Sockets
        BY <1>1, <1>2, <1>8, <1>13 DEF Owning, AtPlace
      <3>2. pc' \in {"wait", "orphans"} BY <2>1
      <3> QED BY <1>1, <1>7, <1>11, <2>1, <3>1, <3>2 DEF AtPlace, Working, Removing
    <2> QED BY <1>9, <2>2, <2>3, <2>4 DEF Owned
  <1> QED BY <1>12, <1>13

LEMMA AcceptPopOwned == ASSUME Shape, Owning, AcceptPop PROVE Owned'
  <1>1. /\ pc = "pop" /\ pc' = "serve"
        /\ sock' = [sock EXCEPT ![server].pending = Front(@), ![client].accepts = @ + 1]
        /\ UNCHANGED <<sockets, deleted, server, client, orphan, raced>>
    BY DEF AcceptPop, At
  <1>2. /\ server # None /\ sock[server].state = "LISTEN" /\ sock[server].pending # <<>>
        /\ client \in Used /\ sock[client].peer # None /\ sock[client].state # "SYN_RECEIVED"
    BY <1>1 DEF Shape, Locals, Serving, Working, Connected
  <1>3. PICK q \in Seq(Object) : q = sock[server].pending BY <1>2, PendingFacts
  <1>4. PICK n \in Nat \ {0} : n = Len(q) BY <1>2, <1>3, FrontFacts
  <1>5. /\ q # <<>> /\ Front(q) \in Seq(Object) /\ Len(Front(q)) = n - 1
        /\ \A i \in 1 .. n - 1 : Front(q)[i] = q[i]
        /\ Last(q) = q[n]
    BY <1>2, <1>3, <1>4, FrontFacts
  <1>6. PICK f \in Seq(Object) : f = Front(q) BY <1>5
  <1>7. DOMAIN f = 1 .. n - 1 /\ DOMAIN q = 1 .. n /\ \A i \in 1 .. n - 1 : f[i] = q[i]
    BY <1>4, <1>5, <1>6
  <1>8. /\ client = q[n] /\ client \in Sockets /\ server \in Sockets
        /\ \A o \in Sockets : deleted[o] = 0
        /\ \A i \in 1 .. n : q[i] \in Sockets
    BY <1>1, <1>2, <1>3, <1>5, <1>7 DEF Owning, AtPlace, Working
  <1>9. /\ \A i, j \in 1 .. n : q[i] = q[j] => i = j
        /\ \A i \in 1 .. n : q[i] \in Used /\ q[i] # server /\ sock[q[i]].accepts = 0
    BY <1>2, <1>3, <1>7, PendingFacts DEF Owning, TakenOnce
  <1>10. sock[client].accepts = 0 BY <1>4, <1>8, <1>9
  <1>11. server \in Used /\ server \in Object /\ client \in Object /\ client # server
         /\ sock[server] \in Socket /\ sock[client] \in Socket
    BY <1>2, PendingFacts, UsedFacts DEF Shape
  <1>12. /\ sock'[client] = [sock[client] EXCEPT !.accepts = sock[client].accepts + 1]
         /\ sock'[server] = [sock[server] EXCEPT !.pending = f]
         /\ \A o \in Object : o \notin {client, server} => sock'[o] = sock[o]
    BY <1>1, <1>3, <1>6, <1>11 DEF Shape, TypeOK
  <1>13. /\ sock'[client].num = sock[client].num /\ sock'[client].peer = sock[client].peer
         /\ sock'[client].state = sock[client].state /\ sock'[client].accepts = 1
         /\ sock'[server].num = sock[server].num /\ sock'[server].peer = sock[server].peer
         /\ sock'[server].state = sock[server].state /\ sock'[server].accepts = sock[server].accepts
         /\ sock'[server].pending = f
    BY <1>10, <1>11, <1>12 DEF Socket
  <1>14. Used' = Used
    <2>1. sock'[client].state # "none" /\ sock'[server].state # "none"
      BY <1>11, <1>13 DEF Socket, States
    <2>2. sock'[client] # Unused /\ sock'[server] # Unused BY <2>1 DEF Unused
    <2> QED BY <1>2, <1>11, <1>12, <2>2 DEF Used
  <1>15. \A o \in Used : /\ sock'[o].num = sock[o].num /\ sock'[o].peer = sock[o].peer
                         /\ sock'[o].state = sock[o].state
                         /\ o # client => sock'[o].accepts = sock[o].accepts
    BY <1>12, <1>13, UsedFacts DEF Shape
  <1>16. Sockets' = Sockets /\ \A i \in DOMAIN sockets : sockets[i] \in Used
    BY <1>1 DEF Sockets, Shape, Kinds
  <1>21. UNCHANGED <<sockets, deleted, server, client, orphan, raced>> /\ pc' = "serve" BY <1>1
  <1>17. TableDistinct' BY <1>15, <1>16, <1>21 DEF Owning, TableDistinct
  <1>18. TakenOnce'
    <2>1. \A o \in Used : /\ sock'[o].accepts \in {0, 1}
                          /\ sock'[o].accepts = 1 => sock'[o].state # "SYN_RECEIVED"
      BY <1>2, <1>13, <1>15 DEF Owning, TakenOnce
    <2>2. \A i, j \in DOMAIN f : f[i] = f[j] => i = j
      <3> SUFFICES ASSUME NEW i \in 1 .. n - 1, NEW j \in 1 .. n - 1, f[i] = f[j] PROVE i = j
        BY <1>7
      <3>1. i \in 1 .. n /\ j \in 1 .. n OBVIOUS
      <3> QED BY <1>7, <1>9, <3>1
    <2>3. \A i \in DOMAIN f : sock'[f[i]].accepts = 0
      <3> SUFFICES ASSUME NEW i \in 1 .. n - 1 PROVE sock'[f[i]].accepts = 0
        BY <1>7
      <3>1. i \in 1 .. n /\ n \in 1 .. n /\ i # n OBVIOUS
      <3>2. f[i] = q[i] /\ q[i] # client BY <1>7, <1>8, <1>9, <3>1
      <3> QED BY <1>9, <1>15, <3>1, <3>2
    <2> QED BY <1>13, <1>14, <1>21, <2>1, <2>2, <2>3 DEF TakenOnce
  <1>22. Sockets \subseteq Used BY <1>16 DEF Sockets
  <1>19. Buried' BY <1>14, <1>15, <1>16, <1>21, <1>22 DEF Owning, Buried
  <1>20. AtPlace'
    <2>1. \A i \in DOMAIN sock'[server].pending : sock'[server].pending[i] \in Sockets
      <3> SUFFICES ASSUME NEW i \in 1 .. n - 1 PROVE f[i] \in Sockets
        BY <1>7, <1>13
      <3>1. i \in 1 .. n OBVIOUS
      <3> QED BY <1>7, <1>8, <3>1
    <2>2. sock'[server].state = "LISTEN" BY <1>2, <1>13
    <2> QED BY <1>8, <1>13, <1>16, <1>21, <2>1, <2>2 DEF AtPlace
  <1> QED BY <1>17, <1>18, <1>19, <1>20 DEF Owned

\* One more in the table, with a number that none has.
LEMMA MoreDistinct ==
  ASSUME Shape, Owning, Numbers # {}, Spares # {}, NEW s \in Socket,
         sockets' = Append(sockets, Fresh), s.num = Number,
         \A q \in Used : sock'[q] = sock[q], sock'[Fresh] = s,
         \A o \in Sockets : sock[o].peer # s.peer
  PROVE  TableDistinct' /\ Sockets' = Sockets \cup {Fresh}
  <1>1. PICK n \in Nat : n = Len(sockets) BY DEF Shape, TypeOK
  <1>2. sockets \in Seq(Object) /\ DOMAIN sockets = 1 .. n /\ Fresh \in Object
    BY <1>1, FreshFacts DEF Shape, TypeOK
  <1>3. /\ DOMAIN sockets' = 1 .. n + 1 /\ sockets'[n + 1] = Fresh
        /\ \A i \in 1 .. n : sockets'[i] = sockets[i]
    BY <1>1, <1>2, AppendProperties
  <1>4. \A i \in 1 .. n : sockets[i] \in Used /\ sockets[i] \in Sockets /\ sockets[i] # Fresh
    BY <1>2, FreshFacts DEF Shape, Kinds, Used, Sockets
  <1>5. \A i \in 1 .. n : sock[sockets[i]].num # s.num /\ sock[sockets[i]].peer # s.peer
    BY <1>2, <1>4, NumberFacts
  <1>6. \A i, j \in 1 .. n : \/ i = j
                             \/ /\ sock'[sockets'[i]].peer # sock'[sockets'[j]].peer
                                /\ sock'[sockets'[i]].num # sock'[sockets'[j]].num
                                /\ sockets'[i] # sockets'[j]
    BY <1>2, <1>3, <1>4 DEF Owning, TableDistinct
  <1>7. \A i \in 1 .. n : /\ sock'[sockets'[i]].peer # sock'[Fresh].peer
                          /\ sock'[sockets'[i]].num # sock'[Fresh].num
                          /\ sockets'[i] # Fresh
    BY <1>3, <1>4, <1>5
  <1>8. \A i \in 1 .. n + 1 : i = n + 1 \/ i \in 1 .. n OBVIOUS
  <1>9. TableDistinct' BY <1>3, <1>6, <1>7, <1>8 DEF TableDistinct
  <1>10. Sockets' = Sockets \cup {Fresh}
    <2>1. Sockets' = {sockets'[i] : i \in 1 .. n + 1} BY <1>3 DEF Sockets
    <2>2. Sockets = {sockets[i] : i \in 1 .. n} BY <1>2 DEF Sockets
    <2>3. n + 1 \in 1 .. n + 1 /\ \A i \in 1 .. n : i \in 1 .. n + 1 OBVIOUS
    <2> QED BY <1>3, <1>8, <2>1, <2>2, <2>3
  <1> QED BY <1>9, <1>10

LEMMA ServeOwned == ASSUME Shape, Owning, Serve PROVE Owned'
  <1>1. pc = "shell" /\ server = None /\ UNCHANGED <<deleted, client, orphan, raced>>
    BY DEF Serve, At, Shape, Locals
  <1>2. CASE Numbers = {}
    <2>1. UNCHANGED <<sock, sockets, pc, server>> BY <1>2 DEF Serve
    <2>2. AllSame /\ Sockets' = Sockets BY <2>1 DEF AllSame, Same, Used, Sockets
    <2>3. AtPlace' BY <1>1, <2>1, <2>2 DEF Owning, AtPlace, Working, Removing
    <2> QED BY <1>1, <2>1, <2>2, <2>3, SameFacts DEF Owned
  <1>3. CASE Numbers # {}
    <2>1. PICK s : s = NewSocket("LISTEN", None, 0, 0) OBVIOUS
    <2>2. "LISTEN" \in States /\ None \in Peers \cup {None} /\ 0 \in Nat BY DEF States
    <2>3. /\ s \in Socket /\ s.state = "LISTEN" /\ s.peer = None /\ s.pending = <<>>
          /\ s.num = Number /\ s.accepts = 0
      BY <1>3, <2>1, <2>2, NewSocketFacts
    <2>4. /\ Spares # {} /\ sock' = [sock EXCEPT ![Fresh] = s]
          /\ sockets' = Append(sockets, Fresh) /\ server' = Fresh /\ pc' = "wait"
      BY <1>3, <2>1 DEF Serve
    <2>5. /\ Used' = Used \cup {Fresh} /\ Fresh \in Object /\ sock'[Fresh] = s
          /\ \A q \in Used : sock'[q] = sock[q]
      BY <1>3, <2>3, <2>4, OneMore
    <2>6. Fresh \notin Used BY <2>4, FreshFacts DEF Used
    <2>7. Sockets \subseteq Used BY DEF Shape, Kinds, Sockets
    <2>8. \A o \in Sockets : sock[o].peer # None
      BY <1>1, <2>7, ObjectFacts, UsedFacts DEF Owning, Buried, Shape
    <2>9. TableDistinct' /\ Sockets' = Sockets \cup {Fresh}
      BY <1>3, <2>3, <2>4, <2>5, <2>8, MoreDistinct
    <2>10. DOMAIN s.pending = {} BY <2>3
    <2>11. TakenOnce'
      BY <2>3, <2>4, <2>5, <2>10 DEF Owning, TakenOnce
    <2>12. Buried'
      <3>1. \A o \in Used : sock[o].peer = None => deleted[o] > 0
        BY <1>1, ObjectFacts, UsedFacts DEF Owning, Buried, Shape
      <3> QED BY <1>1, <2>3, <2>4, <2>5, <2>7, <2>8, <2>9, <3>1 DEF Owning, Buried
    <2>13. deleted[Fresh] = 0 /\ \A o \in Sockets : deleted[o] = 0
      BY <1>1, <2>5, <2>6 DEF Owning, Buried, AtPlace
    <2>14. AtPlace'
      BY <1>1, <2>4, <2>5, <2>9, <2>10, <2>13 DEF AtPlace, Working, Removing
    <2> QED BY <2>9, <2>11, <2>12, <2>14 DEF Owned
  <1> QED BY <1>2, <1>3

\* The program stays where it is.
LEMMA PlaceKept ==
  ASSUME Shape, Owning, AllSame, UNCHANGED <<sockets, deleted, program>>,
         server # None => sock'[server].state = sock[server].state
  PROVE  TableDistinct' /\ TakenOnce' /\ Buried' /\ AtPlace'
  <1>1. UNCHANGED <<pc, server, client, orphan, index, spare>> BY DEF program
  <1>2. TableDistinct' /\ TakenOnce' /\ Buried' /\ Sockets' = Sockets BY <1>1, SameFacts
  <1>3. CASE server = None
    <2>1. pc = "shell" BY <1>3 DEF Shape, Locals
    <2> QED BY <1>1, <1>2, <1>3, <2>1 DEF AtPlace, Owning, Working, Removing
  <1>4. CASE server # None
    <2>1. server \in Used BY <1>4 DEF Shape, Locals
    <2>2. pc \in Working \cup Removing => client \in Used
      BY <2>1 DEF Shape, Locals, Connected
    <2>3. /\ sock'[server].pending = sock[server].pending
          /\ pc \in Working \cup Removing => sock'[client].accepts = sock[client].accepts
      BY <2>1, <2>2 DEF AllSame, Same
    <2>4. pc \in {"serve", "send", "advance"} => pc \in Working \cup Removing BY DEF Working
    <2> QED BY <1>1, <1>2, <1>4, <2>3, <2>4 DEF AtPlace, Owning
  <1> QED BY <1>2, <1>3, <1>4

LEMMA KnownOwned ==
  ASSUME Shape, Owning, NEW p \in Peers, NEW g \in Segment, ReceiveKnown(p, g),
         UNCHANGED program
  PROVE  Owned'
  <1>1. PICK c : c = Connection(p) OBVIOUS
  <1>2. PICK h : h = Handled(sock[c], g) OBVIOUS
  <1>3. /\ c \in Used /\ c \in Sockets /\ sock[c].peer = p /\ sock[c] \in Socket
        /\ sock'[c] = h /\ Used' = Used
        /\ \A q \in Used : q # c =>
             \/ sock'[q] = sock[q]
             \/ /\ q = Listener /\ sock[c].state = "SYN_RECEIVED" /\ h.state = "ESTABLISHED"
                /\ sock'[q] = [sock[q] EXCEPT !.pending = Append(sock[q].pending, c)]
    BY <1>1, <1>2, KnownFacts
  <1>4. /\ h.num = sock[c].num /\ h.peer = sock[c].peer /\ h.pending = sock[c].pending
        /\ h.accepts = sock[c].accepts
        /\ h.state = "SYN_RECEIVED" => sock[c].state = "SYN_RECEIVED"
    <2>1. PICK s \in Socket : s = sock[c] BY <1>3
    <2>2. /\ h.num = s.num /\ h.peer = s.peer /\ h.pending = s.pending /\ h.accepts = s.accepts
          /\ h.state # s.state => <<s.state, h.state>> \in Diagram
      BY <1>2, <2>1, HandledFacts
    <2> QED BY <2>1, <2>2 DEF Diagram
  <1>5. Same(c) BY <1>3, <1>4 DEF Same
  <1>6. UNCHANGED <<sockets, deleted>> BY DEF ReceiveKnown
  <1>7. c # server
    <2>1. c # None /\ p # None BY <1>3, ObjectFacts, UsedFacts DEF Shape
    <2> QED BY <1>3, <2>1 DEF Shape, Locals
  <1>8. CASE \A q \in Used : q # c => sock'[q] = sock[q]
    <2>1. AllSame BY <1>3, <1>5, <1>8 DEF AllSame, Same
    <2>2. server # None => sock'[server].state = sock[server].state
      BY <1>7, <1>8 DEF Shape, Locals
    <2> QED BY <1>6, <2>1, <2>2, PlaceKept DEF Owned
  <1>9. ASSUME NEW q \in Used, q # c, sock'[q] # sock[q], ~ raced' PROVE Owned'
    <2>1. /\ q = Listener /\ sock[c].state = "SYN_RECEIVED" /\ h.state = "ESTABLISHED"
          /\ sock'[q] = [sock[q] EXCEPT !.pending = Append(sock[q].pending, c)]
      BY <1>3, <1>9
    <2>2. q \in Object /\ q # None BY ObjectFacts, UsedFacts DEF Shape
    <2>3. q \in Sockets /\ sock[q].state = "LISTEN" /\ sock[q].peer = None
      BY <2>1, <2>2, ListenerFacts DEF Shape
    <2>4. q = server /\ server # None BY <2>2, <2>3 DEF Owning, Buried
    <2>5. pc # "pop"
      <3>1. raced' = (raced \/ (Listener # None /\ Listener = server /\ pc = "pop"))
        BY <1>1, <1>2, <2>1 DEF ReceiveKnown
      <3> QED BY <1>9, <2>1, <2>4, <3>1
    <2>6. PICK w \in Seq(Object) : w = sock[server].pending BY <2>4, PendingFacts
    <2>7. c \in Object BY <1>3, UsedFacts DEF Shape
    <2>8. PICK n \in Nat : n = Len(w) OBVIOUS
    <2>9. PICK v \in Seq(Object) : v = Append(w, c)
      BY <2>7, AppendProperties
    <2>10. /\ DOMAIN w = 1 .. n /\ DOMAIN v = 1 .. n + 1 /\ v[n + 1] = c
           /\ \A i \in 1 .. n : v[i] = w[i]
      <3>1. Len(v) = n + 1 BY <2>7, <2>8, <2>9, AppendProperties
      <3>2. v[n + 1] = c /\ \A i \in 1 .. n : v[i] = w[i]
        BY <2>7, <2>8, <2>9, AppendProperties
      <3> QED BY <2>8, <3>1, <3>2
    <2>11. /\ sock'[server].num = sock[server].num /\ sock'[server].peer = sock[server].peer
           /\ sock'[server].state = sock[server].state
           /\ sock'[server].accepts = sock[server].accepts /\ sock'[server].pending = v
      <3>1. sock[server] \in Socket BY <2>4, PendingFacts
      <3>2. sock'[server] = [sock[server] EXCEPT !.pending = v] BY <2>1, <2>4, <2>6, <2>9
      <3> QED BY <3>1, <3>2 DEF Socket
    <2>12. \A o \in Used : o \notin {c, server} => sock'[o] = sock[o] BY <1>3, <2>1, <2>4
    <2>13. \A o \in Used : /\ sock'[o].num = sock[o].num /\ sock'[o].peer = sock[o].peer
                           /\ sock'[o].accepts = sock[o].accepts
                           /\ sock'[o].state = "SYN_RECEIVED" => sock[o].state = "SYN_RECEIVED"
      BY <1>3, <1>4, <2>11, <2>12
    <2>14. Sockets' = Sockets /\ Sockets \subseteq Used
           /\ \A i \in DOMAIN sockets : sockets[i] \in Used
      BY <1>6 DEF Sockets, Shape, Kinds
    <2>15. UNCHANGED <<pc, server, client, orphan, index, spare>> BY DEF program
    <2>16. TableDistinct' BY <1>6, <2>13, <2>14 DEF Owning, TableDistinct
    <2>17. /\ \A i, j \in 1 .. n : w[i] = w[j] => i = j
           /\ \A i \in 1 .. n : w[i] \in Used /\ sock[w[i]].accepts = 0 /\ w[i] # c
      <3>1. \A i \in 1 .. n : Connected(w[i])
        BY <2>4, <2>6, <2>10, PendingFacts DEF Shape, PendingConnected
      <3> QED BY <2>1, <2>4, <2>6, <2>10, <3>1, PendingFacts
          DEF Owning, TakenOnce, Connected
    <2>18. TakenOnce'
      <3>1. \A o \in Used' : /\ sock'[o].accepts \in {0, 1}
                             /\ sock'[o].accepts = 1 => sock'[o].state # "SYN_RECEIVED"
        BY <1>3, <2>13 DEF Owning, TakenOnce
      <3>2. sock[c].accepts = 0 BY <1>3, <2>1 DEF Owning, TakenOnce
      <3>3. \A i \in 1 .. n + 1 : i = n + 1 \/ i \in 1 .. n OBVIOUS
      <3>4. \A i, j \in 1 .. n + 1 : v[i] = v[j] => i = j BY <2>10, <2>17, <3>3
      <3>5. \A i \in 1 .. n + 1 : sock'[v[i]].accepts = 0
        BY <1>3, <2>10, <2>13, <2>17, <3>2, <3>3
      <3> QED BY <2>10, <2>11, <2>15, <3>1, <3>4, <3>5 DEF TakenOnce
    <2>19. Buried' BY <1>3, <1>6, <2>13, <2>14, <2>15 DEF Owning, Buried
    <2>20. AtPlace'
      <3>1. pc \in Working \cup Removing => client \in Used
        BY <1>3, <2>4 DEF Shape, Locals, Connected
      <3>2. pc \in Working \cup Removing => sock'[client].accepts = sock[client].accepts
        BY <2>13, <3>1
      <3>3. pc \in {"serve", "send", "advance"} => pc \in Working \cup Removing BY DEF Working
      <3>4. pc # "corrupt" => \A i \in DOMAIN v : v[i] \in Sockets
        <4> SUFFICES ASSUME pc # "corrupt", NEW i \in 1 .. n + 1 PROVE v[i] \in Sockets
          BY <2>10
        <4>1. \A j \in 1 .. n : w[j] \in Sockets
          BY <2>3, <2>4, <2>6, <2>10 DEF Owning, AtPlace
        <4>2. i = n + 1 \/ i \in 1 .. n OBVIOUS
        <4> QED BY <1>3, <2>10, <4>1, <4>2
      <3>5. sock'[server].state = "LISTEN" BY <2>3, <2>4, <2>11
      <3> QED BY <1>6, <2>5, <2>11, <2>14, <2>15, <3>2, <3>3, <3>4, <3>5 DEF Owning, AtPlace
    <2> QED BY <2>16, <2>18, <2>19, <2>20 DEF Owned
  <1> QED BY <1>8, <1>9 DEF Owned

LEMMA OpensOwned ==
  ASSUME Shape, Owning, NEW p \in Peers, Opens(p), UNCHANGED program
  PROVE  Owned'
  <1> SUFFICES ASSUME ~ raced' PROVE Owned'
    BY DEF Owned
  <1>1. UNCHANGED <<pc, server, client, orphan, index, spare>> BY DEF program
  <1>2. PICK f : f = Fresh OBVIOUS
  <1>3. /\ Numbers # {} /\ Spares # {} /\ Connection(p) = None
        /\ sockets' = Append(sockets, f) /\ UNCHANGED deleted
        /\ pc \notin Removing
    BY <1>2 DEF Opens, Removing
  <1>4. /\ Used' = Used \cup {f} /\ f \notin Used /\ f \in Object
        /\ \A q \in Used : sock'[q] = sock[q]
    BY <1>2, OpensFacts
  <1>5. PICK s \in Socket : /\ sock'[f] = s /\ s.num = Number /\ s.state = "SYN_RECEIVED"
                            /\ s.peer = p /\ s.accepts = 0
    BY <1>2, OpensFacts
  <1>6. \A o \in Sockets : sock[o].peer # p BY <1>3, ConnectionFacts DEF Shape
  <1>7. TableDistinct' /\ Sockets' = Sockets \cup {f}
    BY <1>2, <1>3, <1>4, <1>5, <1>6, MoreDistinct
  <1>8. p # None BY ObjectFacts
  <1>9. Sockets \subseteq Used BY DEF Shape, Kinds, Sockets
  <1>10. Buried'
    BY <1>1, <1>3, <1>4, <1>5, <1>7, <1>8, <1>9 DEF Owning, Buried
  <1>11. server # None => server \in Used /\ sock'[server] = sock[server]
    BY <1>4 DEF Shape, Locals
  <1>12. TakenOnce'
    <2>1. \A o \in Used' : /\ sock'[o].accepts \in {0, 1}
                           /\ sock'[o].accepts = 1 => sock'[o].state # "SYN_RECEIVED"
      BY <1>4, <1>5 DEF Owning, TakenOnce
    <2>2. ASSUME server # None
          PROVE  \A i \in DOMAIN sock[server].pending :
                   sock'[sock[server].pending[i]] = sock[sock[server].pending[i]]
      BY <1>4, <2>2, PendingFacts
    <2> QED BY <1>1, <1>11, <2>1, <2>2 DEF Owning, TakenOnce
  <1>13. AtPlace'
    <2>1. pc \in Working => client \in Used /\ sock'[client] = sock[client]
      BY <1>4 DEF Shape, Locals, Connected
    <2>2. deleted[f] = 0 BY <1>4 DEF Owning, Buried
    <2>3. pc \in {"serve", "send", "advance"} => pc \in Working BY DEF Working
    <2>4. pc \notin {"find", "tail", "shrink", "destroy"} BY <1>3 DEF Removing
    <2>5. pc # "shell" => server # None BY DEF Shape, Locals
    <2>6. pc \in Working => server # None /\ pc # "shell" BY <2>5 DEF Working
    <2> QED BY <1>1, <1>3, <1>7, <1>11, <2>1, <2>2, <2>3, <2>4, <2>5, <2>6
        DEF Owning, AtPlace
  <1> QED BY <1>7, <1>10, <1>12, <1>13 DEF Owned

LEMMA DeliverOwned == ASSUME Shape, Owning, NEW p \in Peers, Deliver(p) PROVE Owned'
  <1>1. PICK i \in DOMAIN net[p] :
          /\ net[p][i] \in Segment
          /\ \/ ReceiveKnown(p, net[p][i])
             \/ ReceiveSyn(p, net[p][i])
             \/ ReceiveOther(p, net[p][i])
    BY DeliverFacts
  <1>2. PICK g \in Segment : g = net[p][i] BY <1>1
  <1>3. UNCHANGED program BY DEF Deliver
  <1>4. CASE ReceiveKnown(p, g) BY <1>3, <1>4, KnownOwned
  <1>5. CASE UNCHANGED <<sock, sockets, deleted>>
    <2>1. AllSame BY <1>5 DEF AllSame, Same, Used
    <2> QED BY <1>3, <1>5, <2>1, PlaceKept DEF Owned
  <1>6. CASE ReceiveSyn(p, g)
    <2>1. CASE UNCHANGED <<sock, sockets, deleted, out, raced>> BY <1>5, <2>1
    <2>2. CASE Opens(p) BY <1>3, <2>2, OpensOwned
    <2> QED BY <1>6, <2>1, <2>2, SynFacts
  <1>7. CASE ReceiveOther(p, g) BY <1>5, <1>7 DEF ReceiveOther, table
  <1> QED BY <1>1, <1>2, <1>4, <1>6, <1>7

LEMMA OwnedInit == Init => Owned
  BY EmptySeq, ObjectFacts
  DEF Init, Owned, TableDistinct, TakenOnce, Buried, AtPlace, Used, Sockets, Working, Removing

LEMMA OwnedNext == ASSUME Shape, Owned, Next PROVE Owned'
  <1>1. raced => raced'
    <2>1. CASE Program
      BY <2>1 DEF Program, Serve, AcceptBack, AcceptPop, Recv, Send, SendAdvance, Escape,
             CloseOrphan, Close, CloseFin, CloseAdvance, CloseState, RemoveStep, RemoveFind,
             RemoveTail, RemoveShrink, RemoveDestroy
    <2>2. ASSUME NEW p \in Peers, Deliver(p) PROVE raced => raced'
      BY <2>2 DEF Deliver, ReceiveKnown, ReceiveSyn, ReceiveOther
    <2>3. ASSUME NEW p \in Peers, Peer(p) PROVE raced => raced' BY <2>3, PeerFacts
    <2> QED BY <2>1, <2>2, <2>3 DEF Next
  <1> SUFFICES ASSUME Owning PROVE Owned'
    BY <1>1 DEF Owned, Owning
  <1>2. CASE Program
    BY <1>2, ServeOwned, AcceptBackOwned, AcceptPopOwned, KeptOwned, EscapeOwned,
       CloseOrphanOwned, CloseOwned, CloseStateOwned, RemoveFindOwned, RemoveTailOwned,
       RemoveShrinkOwned, RemoveDestroyOwned
    DEF Program, RemoveStep
  <1>3. ASSUME NEW p \in Peers, Deliver(p) PROVE Owned' BY <1>3, DeliverOwned
  <1>4. ASSUME NEW p \in Peers, Peer(p) PROVE Owned'
    <2>1. UNCHANGED <<sock, sockets, deleted, program>> BY <1>4, PeerFacts DEF table
    <2>2. AllSame BY <2>1 DEF AllSame, Same, Used
    <2> QED BY <2>1, <2>2, PlaceKept DEF Owned
  <1> QED BY <1>2, <1>3, <1>4 DEF Next

LEMMA OwnedSame == ASSUME Shape, Owned, UNCHANGED vars PROVE Owned'
  <1>1. UNCHANGED <<sock, sockets, deleted, program, raced>> BY DEF vars, table
  <1>2. CASE raced BY <1>1, <1>2 DEF Owned
  <1>3. CASE ~ raced
    <2>1. Owning BY <1>3 DEF Owned, Owning
    <2>2. AllSame BY <1>1 DEF AllSame, Same, Used
    <2> QED BY <1>1, <2>1, <2>2, PlaceKept DEF Owned
  <1> QED BY <1>2, <1>3

LEMMA OwnedAlways == Spec => [](Shape /\ Owned)
  <1>1. Init => Shape /\ Owned BY ShapeInit, OwnedInit
  <1>2. Shape /\ Owned /\ [Next]_vars => Shape' /\ Owned'
    BY ShapeNext, ShapeSame, OwnedNext, OwnedSame
  <1> QED BY <1>1, <1>2, PTL DEF Spec

\* As long as the handler keeps out of the table while the program changes it, a
\* remote end has one socket.
THEOREM OnePerPeerTheorem == Spec => []OnePerPeer
  <1>1. Shape /\ Owned => OnePerPeer BY DEF Owned, TableDistinct, OnePerPeer
  <1> QED BY <1>1, OwnedAlways, PTL

LEMMA NothingDangles == ASSUME Shape, Owned PROVE NoDangling
  <1> SUFFICES ASSUME Owning, pc # "corrupt", NEW o \in Held PROVE deleted[o] = 0
    BY DEF NoDangling, Owned, Owning
  <1>1. \A q \in Sockets : deleted[q] = 0 BY DEF Owning, AtPlace
  <1>2. CASE o \in Sockets BY <1>1, <1>2
  <1>3. ASSUME NEW l \in Sockets, sock[l].state = "LISTEN", o \in Range(sock[l].pending)
        PROVE  o \in Sockets
    <2>1. l \in Used BY DEF Shape, Kinds, Sockets
    <2>2. sock[l].peer = None BY <1>3, <2>1 DEF Shape, Kinds
    <2>3. l = server /\ server # None
      BY <2>1, <2>2, ObjectFacts, UsedFacts DEF Owning, Buried, Shape
    <2>4. PICK i \in DOMAIN sock[l].pending : o = sock[l].pending[i] BY <1>3 DEF Range
    <2> QED BY <1>3, <2>3, <2>4 DEF Owning, AtPlace
  <1>4. CASE pc \in Working /\ o = client BY <1>1, <1>4 DEF Owning, AtPlace
  <1>5. \/ o \in Sockets
        \/ \E l \in Sockets : sock[l].state = "LISTEN" /\ o \in Range(sock[l].pending)
        \/ pc \in Working /\ o = client
    BY DEF Held, Working
  <1> QED BY <1>1, <1>2, <1>3, <1>4, <1>5

\* As long as it does, neither the table nor the pending list of a listening
\* socket nor the program holds a socket that was deleted.
THEOREM NoDanglingTheorem == Spec => []NoDangling
  <1>1. Shape /\ Owned => NoDangling BY NothingDangles
  <1> QED BY <1>1, OwnedAlways, PTL

LEMMA AcceptsOnce == ASSUME Shape, Owned PROVE AcceptedOnce
  <1> SUFFICES ASSUME Owning, NEW o \in Object, sock[o] # Unused
               PROVE  Cardinality(Waiting(o)) + sock[o].accepts
                        + (IF pc = "pop" /\ client = o THEN 1 ELSE 0) <= 1
    BY DEF AcceptedOnce, Owned, Owning
  <1>1. o \in Used BY DEF Used
  <1>2. sock[o].accepts \in {0, 1} BY <1>1 DEF Owning, TakenOnce
  <1>3. ASSUME NEW w \in Waiting(o)
        PROVE  /\ server # None /\ w[1] = server /\ w[2] \in DOMAIN sock[server].pending
               /\ sock[server].pending[w[2]] = o /\ w = <<server, w[2]>>
               /\ ~ (pc = "pop" /\ w[2] = Len(sock[server].pending))
    <2>1. /\ w \in Object \X (1 .. MaxObjects) /\ w[1] \in Used /\ w[1] \in Object
          /\ w[2] \in DOMAIN sock[w[1]].pending /\ sock[w[1]].pending[w[2]] = o
          /\ deleted[w[1]] = 0
          /\ ~ (pc = "pop" /\ w[1] = server /\ w[2] = Len(sock[server].pending))
      BY DEF Waiting, Used
    <2>2. sock[w[1]].pending # <<>> BY <2>1
    <2>3. sock[w[1]].peer = None BY <2>1, <2>2 DEF Shape, Kinds
    <2>4. w[1] = server BY <2>1, <2>3 DEF Owning, Buried
    <2>5. w = <<w[1], w[2]>> BY <2>1
    <2> QED BY <2>1, <2>4, <2>5, ObjectFacts
  <1>4. \A v, w \in Waiting(o) : v = w
    <2> SUFFICES ASSUME NEW v \in Waiting(o), NEW w \in Waiting(o) PROVE v = w OBVIOUS
    <2>1. v[2] = w[2] BY <1>3 DEF Owning, TakenOnce
    <2> QED BY <1>3, <2>1
  <1>5. Waiting(o) # {} => /\ sock[o].accepts = 0
                           /\ ~ (pc = "pop" /\ client = o)
    <2> SUFFICES ASSUME NEW w \in Waiting(o)
                 PROVE  sock[o].accepts = 0 /\ ~ (pc = "pop" /\ client = o)
      OBVIOUS
    <2>1. sock[o].accepts = 0 BY <1>3 DEF Owning, TakenOnce
    <2>2. ASSUME pc = "pop", client = o PROVE FALSE
      <3>1. PICK q \in Seq(Object) : q = sock[server].pending BY <1>3, PendingFacts
      <3>2. q # <<>> BY <1>3, <3>1
      <3>3. Last(q) = q[Len(q)] /\ Len(q) \in DOMAIN q
        <4>1. Last(q) = q[Len(q)] /\ Len(q) \in Nat \ {0} BY <3>2, FrontFacts
        <4> QED BY <4>1
      <3>4. q[Len(q)] = o BY <2>2, <3>1, <3>3 DEF Owning, AtPlace
      <3>5. w[2] = Len(q) BY <1>3, <3>1, <3>3, <3>4 DEF Owning, TakenOnce
      <3> QED BY <1>3, <2>2, <3>1, <3>5
    <2> QED BY <2>1, <2>2
  <1>6. CASE Waiting(o) = {}
    <2>1. Cardinality(Waiting(o)) = 0 BY <1>6, FS_EmptySet
    <2>2. pc = "pop" /\ client = o => sock[o].accepts = 0
      <3> SUFFICES ASSUME pc = "pop", client = o PROVE sock[o].accepts = 0
        OBVIOUS
      <3>1. server # None /\ sock[server].pending # <<>> BY DEF Shape, Locals
      <3>2. PICK q \in Seq(Object) : q = sock[server].pending BY <3>1, PendingFacts
      <3>3. Last(q) = q[Len(q)] /\ Len(q) \in DOMAIN q
        <4>1. Last(q) = q[Len(q)] /\ Len(q) \in Nat \ {0} BY <3>1, <3>2, FrontFacts
        <4> QED BY <4>1
      <3>4. q[Len(q)] = o BY <3>2, <3>3 DEF Owning, AtPlace
      <3> QED BY <3>1, <3>2, <3>3, <3>4, PendingFacts
    <2> QED BY <1>2, <2>1, <2>2
  <1>7. CASE Waiting(o) # {}
    <2>1. PICK w : w \in Waiting(o) BY <1>7
    <2>2. Waiting(o) = {w} BY <1>4, <2>1
    <2>3. Cardinality(Waiting(o)) = 1 BY <2>2, FS_Singleton
    <2> QED BY <1>5, <1>7, <2>3
  <1> QED BY <1>6, <1>7

\* As long as it does, accept hands a connection to the program once: it is never
\* on a pending list twice, nor on one after it was accepted.
THEOREM AcceptedOnceTheorem == Spec => []AcceptedOnce
  <1>1. Shape /\ Owned => AcceptedOnce BY AcceptsOnce
  <1> QED BY <1>1, OwnedAlways, PTL

=============================================================================
