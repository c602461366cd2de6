------------------------------- MODULE Network -------------------------------
(***************************************************************************)
(* The network below TCP: the RTL8139 driver with its receive ring and     *)
(* four transmit slots, Ethernet, ARP, ICMP echo and UDP sockets, against  *)
(* the card and the peers on the wire.                                     *)
(*                                                                         *)
(* The receive handler runs with interrupts off, frame by frame; the card  *)
(* works on.  sendto is a system call that never turns interrupts on, so   *)
(* it is one step, arp_lookup's polling included: what it polls for only   *)
(* the handler could bring.  The program's calls into socket.cpp run in    *)
(* ring 3, where the handler may come between any two steps.               *)
(***************************************************************************)
EXTENDS Integers, SequencesExt, FiniteSetsExt

CONSTANTS
  Peers, Ports,
  Macs,       \* a peer's addresses on the wire, one after the other: 1 .. n
  RxSize,     \* 8192, in bytes
  Lengths,    \* lengths of frames
  TxSlots,    \* 4
  QueueSize,  \* 32: the ring of a socket
  MaxFrames, MaxSends, MaxSockets, MaxMissed  \* bounds

ASSUME NetworkAssumption ==
  /\ RxSize \in Nat \ {0} /\ RxSize % 4 = 0 /\ TxSlots \in Nat \ {0} /\ QueueSize \in Nat \ {0, 1}
  /\ \A l \in Lengths : l \in Nat /\ l + 8 < RxSize

VARIABLES
  rx,        \* the receive ring: the frame whose header is at each offset
  put,       \* card: where it stores next
  rx_offset, \* driver: where it reads next; CAPR says the same
  isr,       \* card: an interrupt is pending
  handler,   \* "idle" or "loop": RX_handler's while
  slot, own, \* the transmit slots, and those the card has yet to send
  tx_slot, tx_card,  \* where the driver and the card are in them
  cache,     \* ARP_cache
  sockets,   \* [num, local_port, data, head, tail]
  capacity,  \* of the vector
  pc,        \* the program: "idle", "grow" (in reserve), or in recv on a socket
  mac, owed, \* peers: their address; who has an ARP request to answer
  arrived, handed, sends,  \* frames put on the ring and given to send(); calls
  wire,      \* history: numbers of the frames sent
  waiting,   \* history: peers that a lookup failed to find
  got,       \* history: datagrams that recv returned
  buffers,   \* history: datagrams that got a buffer of their own
  refused,   \* history: those for which there was no socket or no room, or that
             \* recvfrom dropped: their buffers leak
  missed,    \* history: frames for which the receive ring had no room
  overrun,   \* history: a slot was filled before the card had sent it
  raced      \* history: a datagram came while reserve moved the sockets

card    == <<rx, put, isr>>
reader  == <<rx_offset, handler>>
sender  == <<slot, own, tx_slot, handed, overrun>>
program == <<pc, capacity, sends>>
udp     == <<sockets, got, buffers, refused>>
peers   == <<mac, owed, arrived>>
vars    == <<card, reader, sender, tx_card, wire, cache, udp, program, peers, waiting, missed, raced>>

Socket(n) == [num |-> n, local_port |-> 0, data |-> [i \in 0 .. QueueSize - 1 |-> 0],
              head |-> 0, tail |-> 0]

Init ==  \* Configure_Device
  /\ rx = [o \in 0 .. RxSize - 1 |-> [kind |-> "none"]]
  /\ put = 0 /\ rx_offset = 0 /\ isr = FALSE /\ handler = "idle"
  /\ slot = [i \in 0 .. TxSlots - 1 |-> [kind |-> "none"]] /\ own = {}
  /\ tx_slot = 0 /\ tx_card = 0 /\ cache = <<>>
  /\ sockets = <<>> /\ capacity = 0 /\ pc = "idle"
  /\ mac = [p \in Peers |-> 1] /\ owed = {}
  /\ arrived = 0 /\ handed = 0 /\ sends = 0 /\ wire = <<>> /\ waiting = {}
  /\ got = <<>> /\ buffers = {} /\ refused = {} /\ missed = 0
  /\ overrun = FALSE /\ raced = FALSE

-----------------------------------------------------------------------------
Unread == put # rx_offset

\* Mutants of the code, for the runs' sensitivity.
MutFill(s) == (s + 1) % (TxSlots - 1)  \* the last slot is left out
MutLearn(p, m) == cache' = Append(cache, [ip |-> p, mac |-> m])  \* no update
MutPush(s, n) ==  \* a full ring takes the datagram all the same
  sockets' = [sockets EXCEPT ![s].data[sockets[s].head] = n,
                             ![s].head = (@ + 1) % QueueSize]
MutAfter == "idle"  \* one frame for each interrupt

-----------------------------------------------------------------------------
(* The wire: frames come in, the card stores and sends.                    *)
NextHeader(o, l) == (((o + l + 4 + 3) \div 4) * 4) % RxSize
StoredSize(l)    == ((l + 4 + 3) \div 4) * 4

Arrive(frame) == \E l \in Lengths :
  /\ IF ((put - rx_offset) % RxSize) + StoredSize(l) < RxSize
     THEN /\ rx' = [rx EXCEPT ![put] = [frame |-> frame, length |-> l]]
          /\ put' = (put + StoredSize(l)) % RxSize
          /\ isr' = TRUE
          /\ UNCHANGED missed
     ELSE missed < MaxMissed /\ missed' = missed + 1 /\ UNCHANGED card
  /\ arrived' = arrived + 1
  /\ UNCHANGED <<reader, sender, tx_card, wire, cache, udp, program, waiting, raced>>

\* A peer asks for our address and tells us its own, perhaps a new one.
Ask(p) == \E m \in {mac[p], mac[p] + 1} \cap Macs :
  /\ arrived < MaxFrames
  /\ mac' = [mac EXCEPT ![p] = m]
  /\ Arrive([kind |-> "request", from |-> p, mac |-> m])
  /\ UNCHANGED owed
Answer(p) ==
  /\ p \in owed /\ owed' = owed \ {p}
  /\ Arrive([kind |-> "reply", from |-> p, mac |-> mac[p]])
  /\ UNCHANGED mac
Ping(p) ==
  /\ arrived < MaxFrames
  /\ Arrive([kind |-> "ping", from |-> p, mac |-> mac[p]])
  /\ UNCHANGED <<mac, owed>>
Datagram(p) == \E q \in Ports :
  /\ arrived < MaxFrames
  /\ Arrive([kind |-> "udp", from |-> p, port |-> q, n |-> arrived + 1])
  /\ UNCHANGED <<mac, owed>>

Transmit ==
  /\ tx_card \in own
  /\ own' = own \ {tx_card} /\ tx_card' = (tx_card + 1) % TxSlots
  /\ wire' = Append(wire, slot[tx_card].n)
  /\ owed' = IF slot[tx_card].kind = "ask" THEN owed \cup {slot[tx_card].to} ELSE owed
  /\ isr' = TRUE  \* the interrupt mask has the bit for sent frames, too
  /\ UNCHANGED <<rx, put, reader, slot, tx_slot, handed, overrun, cache, udp, program,
                 mac, arrived, waiting, missed, raced>>

-----------------------------------------------------------------------------
\* The searches of a vector: the first index that matches, or 0.
FirstOf(I) == IF I = {} THEN 0 ELSE Min(I)
Entry(p)   == FirstOf({i \in DOMAIN cache : cache[i].ip = p})

\* RTL8139::send, with send_ethernet before it.
Fill(s) == (s + 1) % TxSlots
Send(kind, p, m) ==
  /\ slot' = [slot EXCEPT ![tx_slot] = [kind |-> kind, to |-> p, mac |-> m, n |-> handed + 1]]
  /\ own' = own \cup {tx_slot}
  /\ overrun' = (overrun \/ tx_slot \in own)
  /\ tx_slot' = Fill(tx_slot)
  /\ handed' = handed + 1

(* RX_handler, and under it receive_ARP, receive_ICMP and receive_udp.     *)
Learn(p, m) ==
  IF Entry(p) # 0
  THEN cache' = [cache EXCEPT ![Entry(p)].mac = m]
  ELSE cache' = Append(cache, [ip |-> p, mac |-> m])

\* Ring_Buffer::push
Full(s) == (sockets[s].head + 1) % QueueSize = sockets[s].tail
Push(s, n) ==
  IF Full(s) THEN UNCHANGED sockets
  ELSE sockets' = [sockets EXCEPT ![s].data[sockets[s].head] = n,
                                  ![s].head = (@ + 1) % QueueSize]

ReceiveRequest(f) ==  \* answers, then falls through to the reply's case
  /\ f.kind = "request"
  /\ Send("answer", f.from, f.mac) /\ Learn(f.from, f.mac)
  /\ UNCHANGED <<udp, raced>>
ReceiveReply(f) ==
  /\ f.kind = "reply"
  /\ Learn(f.from, f.mac)
  /\ UNCHANGED <<sender, udp, raced>>
ReceiveEcho(f) ==
  /\ f.kind = "ping"
  /\ Send("echo", f.from, f.mac)
  /\ UNCHANGED <<cache, udp, raced>>
ReceiveUdp(f) ==
  /\ f.kind = "udp"
  /\ raced' = (pc = "grow" /\ sockets # <<>>)
  /\ LET s == FirstOf({k \in DOMAIN sockets : sockets[k].local_port = f.port})
     IN  IF s = 0
         THEN refused' = refused \cup {f.n} /\ UNCHANGED sockets
         ELSE Push(s, f.n) /\ refused' = IF Full(s) THEN refused \cup {f.n} ELSE refused
  /\ buffers' = buffers \cup {f.n}
  /\ UNCHANGED <<sender, cache, got>>

Interrupt ==
  /\ handler = "idle" /\ isr
  /\ handler' = "loop" /\ isr' = FALSE
  /\ UNCHANGED <<rx, put, rx_offset, sender, tx_card, wire, cache, udp, program, peers, waiting,
                 missed, raced>>

After == "loop"
Receive ==
  /\ handler = "loop" /\ Unread
  /\ handler' = After
  /\ LET f == rx[rx_offset].frame
     IN  ReceiveRequest(f) \/ ReceiveReply(f) \/ ReceiveEcho(f) \/ ReceiveUdp(f)
  /\ rx_offset' = NextHeader(rx_offset, rx[rx_offset].length)
  /\ UNCHANGED <<card, tx_card, wire, program, peers, waiting, missed>>

InterruptEnd ==
  /\ handler = "loop" /\ ~Unread
  /\ handler' = "idle"
  /\ UNCHANGED <<card, rx_offset, sender, tx_card, wire, cache, udp, program, peers, waiting,
                 missed, raced>>

-----------------------------------------------------------------------------
(* The program.                                                            *)
Runs == handler = "idle"

\* socket(): push_back calls reserve when the vector is full, which moves the
\* elements to new memory that it has installed already.
Create ==
  /\ Runs /\ pc = "idle" /\ Len(sockets) < MaxSockets
  /\ IF Len(sockets) = capacity
     THEN pc' = "grow" /\ UNCHANGED <<sockets, capacity>>
     ELSE sockets' = Append(sockets, Socket(Len(sockets))) /\ UNCHANGED <<pc, capacity>>
  /\ UNCHANGED <<card, reader, sender, tx_card, wire, cache, got, buffers, refused, sends, peers,
                 waiting, missed, raced>>

CreateGrown ==
  /\ Runs /\ pc = "grow"
  /\ pc' = "idle"
  /\ capacity' = IF capacity = 0 THEN 1 ELSE 2 * capacity
  /\ sockets' = Append(sockets, Socket(Len(sockets)))
  /\ UNCHANGED <<card, reader, sender, tx_card, wire, cache, got, buffers, refused, sends, peers,
                 waiting, missed, raced>>

Bind(s) ==
  /\ Runs /\ pc = "idle"
  /\ \E q \in Ports : sockets' = [sockets EXCEPT ![s].local_port = q]
  /\ UNCHANGED <<card, reader, sender, tx_card, wire, cache, got, buffers, refused, program, peers,
                 waiting, missed, raced>>

\* sendto, send_udp, send_IPv4 and arp_lookup
Sendto(p) ==
  /\ Runs /\ pc = "idle" /\ sockets # <<>> /\ sends < MaxSends
  /\ sends' = sends + 1
  /\ IF Entry(p) # 0 THEN Send("data", p, cache[Entry(p)].mac) /\ UNCHANGED waiting
                     ELSE Send("ask", p, 0) /\ waiting' = waiting \cup {p}
  /\ UNCHANGED <<card, reader, tx_card, wire, cache, udp, pc, capacity, peers, missed, raced>>

\* recv, and recvfrom with a sender that may not be the datagram's; without a
\* datagram they wait, and give up in the end.
Recv(s) ==
  /\ Runs /\ pc = "idle" /\ sockets[s].tail # sockets[s].head
  /\ sockets' = [sockets EXCEPT ![s].tail = (@ + 1) % QueueSize]
  /\ LET n == sockets[s].data[sockets[s].tail]
     IN  \/ got' = Append(got, [s |-> s, n |-> n]) /\ UNCHANGED refused
         \/ refused' = refused \cup {n} /\ UNCHANGED got
  /\ UNCHANGED <<buffers, card, reader, sender, tx_card, wire, cache, program, peers, waiting, missed, raced>>

Program == \/ Create \/ CreateGrown \/ \E p \in Peers : Sendto(p)
           \/ \E s \in DOMAIN sockets : Bind(s) \/ Recv(s)
Handler == Interrupt \/ Receive \/ InterruptEnd
Wire    == Transmit \/ \E p \in Peers : Ask(p) \/ Ping(p) \/ Answer(p) \/ Datagram(p)

Next == ~raced /\ (Handler \/ Program \/ Wire)
Spec == /\ Init /\ [][Next]_vars
        /\ WF_vars(~raced /\ Handler) /\ WF_vars(~raced /\ Transmit)
        /\ \A p \in Peers : WF_vars(~raced /\ Answer(p))

-----------------------------------------------------------------------------
\* The card sends the frames it was given, each once, all of them, and in their
\* order, unless send() filled a slot that the card had yet to send.
SentInOrder == ~overrun => /\ wire = [i \in 1 .. Len(wire) |-> i]
                           /\ Len(wire) + Cardinality(own) = handed
Sent == /\ []SentInOrder
        /\ own # {} ~> own = {} \/ overrun \/ raced

\* A peer's address in the cache is the one it uses, unless frames with which it
\* told us another are unread or were lost.
AddressesFresh ==
  missed = 0 /\ handler = "idle" /\ ~Unread =>
    \A i \in DOMAIN cache : cache[i].mac = mac[cache[i].ip]

\* The buffer of each datagram that came in is, once, in the queue of one socket
\* or returned from it in the order of arrival; else it was refused, and leaks.
Queued(s) == {sockets[s].data[(sockets[s].tail + i) % QueueSize] :
                i \in 0 .. ((sockets[s].head - sockets[s].tail) % QueueSize) - 1}
Got(s) == {e.n : e \in {d \in ToSet(got) : d.s = s}}
DatagramsOwned ==
  ~raced =>
    /\ \A s, t \in DOMAIN sockets : s # t => (Queued(s) \cup Got(s)) \cap (Queued(t) \cup Got(t)) = {}
    /\ \A s \in DOMAIN sockets : \A m \in Got(s), n \in Queued(s) : m < n
    /\ \A i, j \in DOMAIN got : i < j /\ got[i].s = got[j].s => got[i].n < got[j].n
    /\ buffers \ refused = UNION {Queued(s) \cup Got(s) : s \in DOMAIN sockets}

\* A peer that a lookup failed to find is known in the end, though the program
\* never waits: the request is sent, the answer stored, and its interrupt taken
\* even if it comes while the handler is about to leave.
Resolves == \A p \in Peers :
  p \in waiting ~> (\E i \in DOMAIN cache : cache[i].ip = p) \/ overrun \/ missed > 0 \/ raced
=============================================================================
