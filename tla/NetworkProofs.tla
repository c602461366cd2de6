--------------------------- MODULE NetworkProofs ----------------------------
(* Theorems about Network for every number of peers, ports and frames, and *)
(* every size of the receive ring, of the transmit slots and of a socket's *)
(* queue.                                                                  *)
(*                                                                         *)
(* All three are rings; Dist is how far one index is from another, in the  *)
(* order of use.  The receive ring is the set U of the offsets of its      *)
(* unread headers: each frame ends where the next one begins, the last one *)
(* where the card stores next (Ring).  Heard says what the unread frames   *)
(* will tell the cache, Datagrams how their numbers compare with those     *)
(* already received, Queues where those went, Sending what the transmit    *)
(* slots hold.                                                             *)
EXTENDS Network, FiniteSetTheorems, WellFoundedInduction, TLAPS

Dist(n, r, o) == IF o >= r THEN o - r ELSE o - r + n

Off   == 0 .. RxSize - 1
Far(o) == Dist(RxSize, rx_offset, o)
Span(o) == StoredSize(rx[o].length)
Ring(U) ==
  /\ DOMAIN rx = Off /\ U \subseteq Off
  /\ rx_offset \in Off /\ put \in Off
  /\ put % 4 = 0 /\ \A o \in U : o % 4 = 0
  /\ rx_offset # put <=> rx_offset \in U
  /\ \A o \in U : /\ rx[o].length \in Lengths
                  /\ NextHeader(o, rx[o].length) \in U \cup {put}
                  /\ Far(o) + Span(o) <= Far(put)
  /\ \A o, w \in U : Far(o) < Far(w) => Far(o) + Span(o) <= Far(w)

\* What the cache has is what the peer uses, or an unread frame will replace it;
\* and an unread frame that tells of a peer is right, or another one comes after it.
Tells(o, p) == rx[o].frame.kind \in {"request", "reply"} /\ rx[o].frame.from = p
Addresses == Macs \cup {1}
Entries   == [ip : Peers, mac : Addresses]
Heard(U) ==
  /\ mac \in [Peers -> Addresses]
  /\ cache \in Seq(Entries)
  /\ missed \in Nat
  /\ \A o \in U : rx[o].frame.kind \in {"request", "reply"} =>
       rx[o].frame.from \in Peers /\ rx[o].frame.mac \in Addresses
  /\ \A i, j \in DOMAIN cache : cache[i].ip = cache[j].ip => i = j
  /\ missed = 0 =>
       /\ \A o \in U, p \in Peers :
            Tells(o, p) => \/ rx[o].frame.mac = mac[p]
                           \/ \E w \in U : Tells(w, p) /\ Far(o) < Far(w)
       /\ \A i \in DOMAIN cache : \/ cache[i].mac = mac[cache[i].ip]
                                  \/ \E o \in U : Tells(o, cache[i].ip)

IsUdp(o) == rx[o].frame.kind = "udp"
Datagrams(U) ==
  /\ arrived \in Nat
  /\ buffers \subseteq 1 .. arrived /\ refused \subseteq buffers
  /\ \A o \in U : IsUdp(o) =>
       rx[o].frame.n \in 1 .. arrived /\ \A b \in buffers : b < rx[o].frame.n
  /\ \A o, w \in U : IsUdp(o) /\ IsUdp(w) /\ Far(o) < Far(w) => rx[o].frame.n < rx[w].frame.n

Index     == 0 .. QueueSize - 1
Queue     == [num : Nat, local_port : Ports \cup {0}, data : [Index -> Nat], head : Index, tail : Index]
Deep(k, j) == Dist(QueueSize, k.tail, j)
In(k)     == {j \in Index : Deep(k, j) < Deep(k, k.head)}
Owned     == buffers \ refused
Sorted(k) == \A i, j \in In(k) : Deep(k, i) < Deep(k, j) => k.data[i] < k.data[j]
Queues ==
  /\ sockets \in Seq(Queue)
  /\ got \in Seq([s : Nat, n : Nat])
  /\ \A s \in DOMAIN sockets :
       /\ Sorted(sockets[s])
       /\ \A j \in In(sockets[s]) : sockets[s].data[j] \in Owned
  /\ \A s, t \in DOMAIN sockets : s # t =>
       \A i \in In(sockets[s]), j \in In(sockets[t]) : sockets[s].data[i] # sockets[t].data[j]
  /\ \A g \in DOMAIN got : got[g].s \in DOMAIN sockets /\ got[g].n \in Owned
  /\ \A g, h \in DOMAIN got : g < h =>
       got[g].n # got[h].n /\ (got[g].s = got[h].s => got[g].n < got[h].n)
  /\ \A g \in DOMAIN got, s \in DOMAIN sockets : \A j \in In(sockets[s]) :
       got[g].n # sockets[s].data[j] /\ (got[g].s = s => got[g].n < sockets[s].data[j])
  /\ \A b \in Owned :
       \/ \E g \in DOMAIN got : got[g].n = b
       \/ \E s \in DOMAIN sockets : \E j \in In(sockets[s]) : sockets[s].data[j] = b

TxSlot    == 0 .. TxSlots - 1
Behind(i) == Dist(TxSlots, tx_card, i)
Unsent    == handed - Len(wire)
Sending ==
  /\ tx_slot \in TxSlot /\ tx_card \in TxSlot /\ own \subseteq TxSlot
  /\ handed \in Nat /\ wire \in Seq(Nat) /\ DOMAIN slot = TxSlot
  /\ overrun \in BOOLEAN
  /\ \A i \in own : slot[i].n \in Nat
  /\ ~ overrun =>
       /\ SentInOrder
       /\ Unsent \in 0 .. TxSlots
       /\ own = {i \in TxSlot : Behind(i) < Unsent}
       /\ tx_slot = IF tx_card + Unsent < TxSlots THEN tx_card + Unsent
                                                  ELSE tx_card + Unsent - TxSlots
       /\ \A i \in own : slot[i].n = Len(wire) + 1 + Behind(i)

Reading == \E U \in SUBSET Off : Ring(U) /\ Heard(U) /\ Datagrams(U)
IInv    == Reading /\ Queues /\ Sending

-----------------------------------------------------------------------------
(* Numbers.                                                                *)

\* A set of numbers that is not empty has a least element.  (The order of finite
\* sets by inclusion is well founded; x is least if 0 .. x is minimal in it.)
LEMMA LeastElement ==
  ASSUME NEW T \in SUBSET Nat, T # {}
  PROVE  \E m \in T : \A k \in T : m <= k
  <1> DEFINE Order == StrictSubsetOrdering(Nat)
             Below == {0 .. x : x \in T}
  <1>1. IsWellFoundedOn(Order, FiniteSubsetsOf(Nat)) BY FS_StrictSubsetOrderingWellFounded
  <1>2. Below \subseteq FiniteSubsetsOf(Nat)
    <2>1. \A x \in T : IsFiniteSet(0 .. x) BY FS_Interval
    <2> QED BY <2>1 DEF FiniteSubsetsOf
  <1>3. Below # {} OBVIOUS
  <1> HIDE DEF Below, Order
  <1>4. PICK b \in Below : \A c \in Below : ~ (<<c, b>> \in Order) BY <1>1, <1>2, <1>3, WFMin
  <1>5. PICK m \in T : b = 0 .. m BY DEF Below
  <1>6. \A k \in T : m <= k
    <2> SUFFICES ASSUME NEW k \in T, k < m PROVE FALSE OBVIOUS
    <2>1. 0 .. k \in Below BY DEF Below
    <2>2. <<0 .. k, 0 .. m>> \in Order BY DEF Order, StrictSubsetOrdering
    <2> QED BY <2>1, <2>2, <1>4, <1>5
  <1> QED BY <1>6

\* The search of a vector finds what is there.
LEMMA FirstOfFacts ==
  ASSUME NEW I \in SUBSET Nat
  PROVE  IF I = {} THEN FirstOf(I) = 0 ELSE FirstOf(I) \in I
  <1>1. CASE I # {}
    <2>1. \E i \in I : \A j \in I : i <= j BY <1>1, LeastElement
    <2> QED BY <1>1, <2>1 DEF FirstOf, Min
  <1> QED BY <1>1 DEF FirstOf

LEMMA Sizes ==
  /\ RxSize \in Nat /\ RxSize > 0 /\ RxSize % 4 = 0
  /\ TxSlots \in Nat /\ TxSlots > 0
  /\ QueueSize \in Nat /\ QueueSize > 1
  BY NetworkAssumption

LEMMA Wraps ==
  ASSUME NEW n \in Nat, n > 0, NEW x \in Nat, x < n + n
  PROVE  x % n = IF x < n THEN x ELSE x - n
  OBVIOUS

\* Dist is a remainder.
LEMMA DistFacts ==
  ASSUME NEW n \in Nat, n > 0, NEW r \in 0 .. n - 1, NEW o \in 0 .. n - 1
  PROVE  /\ Dist(n, r, o) \in 0 .. n - 1
         /\ (o - r) % n = Dist(n, r, o)
  <1> DEFINE d == o - r
             q == d \div n
             m == d % n
  <1>1. d \in Int /\ q \in Int /\ m \in 0 .. n - 1 /\ d = n * q + m OBVIOUS
  <1>2. d > - n /\ d < n OBVIOUS
  <1> HIDE DEF d, q, m
  <1>3. q \in {-1, 0}
    <2>1. CASE q >= 1 BY <2>1, <1>1, <1>2
    <2>2. CASE q <= -2 BY <2>2, <1>1, <1>2
    <2> QED BY <2>1, <2>2, <1>1
  <1>4. m = IF d >= 0 THEN d ELSE d + n BY <1>1, <1>2, <1>3
  <1> QED BY <1>1, <1>4 DEF Dist, d, m

\* A stored frame takes a multiple of four bytes and leaves the ring some room;
\* the next header is behind it.
LEMMA Stored ==
  ASSUME NEW o \in 0 .. RxSize - 1, o % 4 = 0, NEW l \in Lengths
  PROVE  /\ StoredSize(l) \in 1 .. RxSize - 1 /\ StoredSize(l) % 4 = 0
         /\ NextHeader(o, l) = (o + StoredSize(l)) % RxSize
         /\ NextHeader(o, l) = IF o + StoredSize(l) < RxSize THEN o + StoredSize(l)
                                                        ELSE o + StoredSize(l) - RxSize
         /\ NextHeader(o, l) \in Off /\ NextHeader(o, l) % 4 = 0
  <1>1. l \in Nat /\ l + 8 < RxSize BY NetworkAssumption
  <1>2. StoredSize(l) \in 1 .. RxSize - 1 /\ StoredSize(l) % 4 = 0 BY <1>1, Sizes DEF StoredSize
  <1>3. NextHeader(o, l) = (o + StoredSize(l)) % RxSize BY <1>1, Sizes DEF StoredSize, NextHeader, Off
  <1>4. PICK z \in Nat : z = StoredSize(l) /\ z \in 1 .. RxSize - 1 /\ z % 4 = 0 BY <1>2, Sizes
  <1>5. PICK x \in Nat : x = o + z /\ o \in 0 .. RxSize - 1 BY <1>4, Sizes DEF Off
  <1>6. x % RxSize = IF x < RxSize THEN x ELSE x - RxSize
    <2>1. x < RxSize + RxSize BY <1>4, <1>5, Sizes
    <2> QED BY <2>1, Wraps, Sizes
  <1>7. NextHeader(o, l) = x % RxSize BY <1>3, <1>4, <1>5
  <1>8. x % RxSize \in Off BY <1>5, <1>6, <1>4, Sizes DEF Off
  <1>9. (x % RxSize) % 4 = 0
    <2>1. \A a, b \in Int : a % 4 = 0 /\ b % 4 = 0 => (a + b) % 4 = 0 /\ (a - b) % 4 = 0 OBVIOUS
    <2>2. x % 4 = 0 BY <1>4, <1>5
    <2>3. (x - RxSize) % 4 = 0 BY <2>1, <2>2, Sizes
    <2> QED BY <1>6, <2>2, <2>3
  <1>10. NextHeader(o, l) = IF o + StoredSize(l) < RxSize THEN o + StoredSize(l)
                                                         ELSE o + StoredSize(l) - RxSize
    <2>1. z = StoredSize(l) /\ z \in Nat BY <1>4
    <2>2. NextHeader(o, l) = IF o + z < RxSize THEN o + z ELSE o + z - RxSize BY <1>5, <1>6, <1>7, Sizes
    <2> QED BY <2>1, <2>2
  <1>11. NextHeader(o, l) \in Off /\ NextHeader(o, l) % 4 = 0 BY <1>7, <1>8, <1>9
  <1> QED BY <1>2, <1>3, <1>10, <1>11

-----------------------------------------------------------------------------
(* The receive ring.                                                       *)

\* What is unread lies before put.
LEMMA UnreadBefore ==
  ASSUME NEW U, Ring(U), NEW o \in U
  PROVE  /\ o \in Off /\ o % 4 = 0 /\ Far(o) \in Nat /\ Far(put) \in 0 .. RxSize - 1
         /\ Far(o) < Far(put) /\ Span(o) \in 1 .. RxSize - 1 /\ rx[o].length \in Lengths
         /\ rx_offset \in U
  <1>1. o \in 0 .. RxSize - 1 /\ o % 4 = 0 /\ rx[o].length \in Lengths BY DEF Ring, Off
  <1>2. Span(o) \in 1 .. RxSize - 1 BY <1>1, Stored DEF Span
  <1>3. rx_offset \in 0 .. RxSize - 1 /\ put \in 0 .. RxSize - 1 BY DEF Ring, Off
  <1>4. Far(o) \in 0 .. RxSize - 1 /\ Far(put) \in 0 .. RxSize - 1 BY <1>1, <1>3, DistFacts, Sizes DEF Far
  <1>5. Far(o) + Span(o) <= Far(put) BY DEF Ring
  <1>6. Far(o) < Far(put) /\ Far(put) > 0 BY <1>2, <1>4, <1>5, Sizes
  <1>7. rx_offset # put BY <1>3, <1>6, Sizes DEF Far, Dist
  <1>8. rx_offset \in U BY <1>7 DEF Ring
  <1> QED BY <1>1, <1>2, <1>4, <1>6, <1>8, Sizes DEF Off

\* The card stores a frame behind the others.
LEMMA RingArrive ==
  ASSUME NEW U, Ring(U), NEW l \in Lengths, NEW f,
         ((put - rx_offset) % RxSize) + StoredSize(l) < RxSize,
         rx' = [rx EXCEPT ![put] = [frame |-> f, length |-> l]],
         put' = (put + StoredSize(l)) % RxSize,
         rx_offset' = rx_offset,
         NEW V, V = U \cup {put}
  PROVE  /\ Ring(V)' /\ put \notin U
         /\ \A o \in U : rx'[o] = rx[o] /\ Far(o) < Far(put)
         /\ rx'[put] = [frame |-> f, length |-> l]
         /\ \A o : Far(o)' = Far(o)
  <1>1. PICK r, q : r = rx_offset /\ q = put OBVIOUS
  <1>2. PICK z : z = StoredSize(l) OBVIOUS
  <1>3. r \in 0 .. RxSize - 1 /\ q \in 0 .. RxSize - 1 /\ q % 4 = 0 BY <1>1 DEF Ring, Off
  <1>4. z \in 1 .. RxSize - 1 /\ put' = NextHeader(q, l) BY <1>1, <1>2, <1>3, Stored
  <1>5. put' \in Off /\ put' % 4 = 0 /\ put' = IF q + z < RxSize THEN q + z ELSE q + z - RxSize
    BY <1>2, <1>3, <1>4, Stored
  <1>6. Far(put) \in 0 .. RxSize - 1 /\ Far(put) + z < RxSize
    BY <1>1, <1>2, <1>3, DistFacts, Sizes DEF Far
  <1>7. Far(put)' = Far(put) + z
    BY <1>1, <1>3, <1>4, <1>5, <1>6, Sizes DEF Far, Dist
  <1>8. \A o \in U : Far(o) < Far(put) BY UnreadBefore
  <1>9. put \notin U
    <2> SUFFICES ASSUME put \in U PROVE FALSE OBVIOUS
    <2> QED BY <1>8, <1>6, Sizes
  <1>10. \A o \in U : rx'[o] = rx[o] BY <1>9 DEF Ring
  <1>11. rx'[put] = [frame |-> f, length |-> l] /\ DOMAIN rx' = Off BY <1>1, <1>3 DEF Ring, Off
  <1>12. \A o : Far(o)' = Far(o) BY DEF Far
  <1>13. \A o \in U : Span(o)' = Span(o) BY <1>10 DEF Span
  <1>14. ASSUME NEW o \in V
         PROVE  /\ rx'[o].length \in Lengths /\ NextHeader(o, rx'[o].length) \in V \cup {put'}
                /\ Far(o)' + Span(o)' <= Far(put)'
    <2>1. CASE o \in U
      <3>1. rx'[o].length \in Lengths /\ NextHeader(o, rx'[o].length) \in V \cup {put'} BY <2>1, <1>10 DEF Ring
      <3>2. Far(o) + Span(o) <= Far(put) /\ Far(o) \in Nat /\ Span(o) \in Nat BY <2>1, UnreadBefore, Sizes DEF Ring
      <3> QED BY <2>1, <3>1, <3>2, <1>4, <1>6, <1>7, <1>12, <1>13, Sizes
    <2>2. CASE o = put
      <3>1. rx'[o].length = l BY <2>2, <1>11
      <3>2. Span(o)' = z BY <3>1, <1>2, <2>2, <1>10 DEF Span
      <3>3. Far(o)' = Far(put) BY <2>2, <1>12
      <3> QED BY <2>2, <3>1, <3>2, <3>3, <1>1, <1>4, <1>6, <1>7, Sizes
    <2> QED BY <2>1, <2>2
  <1>15. ASSUME NEW o \in V, NEW w \in V, Far(o)' < Far(w)' PROVE Far(o)' + Span(o)' <= Far(w)'
    <2>1. o # w /\ Far(o) < Far(w)
      <3>1. Far(w) \in Nat BY <1>6, UnreadBefore, Sizes
      <3> QED BY <3>1, <1>12, <1>15, Sizes
    <2>2. CASE o \in U /\ w \in U
      <3>1. Far(o) + Span(o) <= Far(w) BY <2>1, <2>2 DEF Ring
      <3> QED BY <3>1, <2>2, <1>12, <1>13
    <2>3. CASE o \in U /\ w = put
      <3>1. Far(o) + Span(o) <= Far(put) BY <2>3 DEF Ring
      <3> QED BY <3>1, <2>3, <1>12, <1>13
    <2>4. CASE o = put /\ w \in U
      <3>1. Far(w) < Far(put) /\ Far(w) \in Nat BY <2>4, <1>8, UnreadBefore
      <3> QED BY <3>1, <2>1, <2>4, <1>6, Sizes
    <2> QED BY <2>1, <2>2, <2>3, <2>4
  <1>16. rx_offset' # put' /\ rx_offset' \in V
    <2>1. rx_offset' # put' BY <1>1, <1>3, <1>5, <1>6, <1>7, <1>4, Sizes DEF Far, Dist
    <2>2. rx_offset \in U \/ rx_offset = put BY DEF Ring
    <2> QED BY <2>1, <2>2
  <1>17. V \subseteq Off /\ \A o \in V : o % 4 = 0 BY <1>1, <1>3 DEF Ring, Off
  <1>18. Ring(V)'
    <2>1. rx_offset' \in Off /\ V' = V BY DEF Ring
    <2> QED BY <2>1, <1>5, <1>11, <1>14, <1>15, <1>16, <1>17 DEF Ring
  <1> QED BY <1>8, <1>9, <1>10, <1>11, <1>12, <1>18

\* The handler goes on to the next header.
LEMMA RingReceive ==
  ASSUME NEW U, Ring(U), put # rx_offset,
         rx_offset' = NextHeader(rx_offset, rx[rx_offset].length),
         UNCHANGED <<rx, put>>,
         NEW V, V = U \ {rx_offset}
  PROVE  /\ Ring(V)' /\ rx_offset \in U
         /\ \A o \in V : Far(rx_offset) < Far(o)
         /\ \A o, w \in V : Far(o)' < Far(w)' <=> Far(o) < Far(w)
  <1>1. PICK r, l, z, n : /\ r = rx_offset /\ l = rx[r].length /\ z = StoredSize(l)
                          /\ n = NextHeader(r, l)
    OBVIOUS
  <1>2. r \in U BY <1>1 DEF Ring
  <1>3. /\ r \in 0 .. RxSize - 1 /\ put \in 0 .. RxSize - 1 /\ r % 4 = 0 /\ l \in Lengths
        /\ z = Span(r)
    BY <1>1, <1>2 DEF Ring, Off, Span
  <1>4. /\ z \in 1 .. RxSize - 1 /\ n \in Off /\ n % 4 = 0 /\ rx_offset' = n
        /\ n = IF r + z < RxSize THEN r + z ELSE r + z - RxSize
    BY <1>1, <1>3, Stored
  <1>5. Far(r) = 0 BY <1>1, <1>3 DEF Far, Dist
  <1>6. ASSUME NEW o \in V \cup {put}
        PROVE  o \in 0 .. RxSize - 1 /\ Far(o) \in 0 .. RxSize - 1 /\ z <= Far(o)
    <2>1. o \in 0 .. RxSize - 1 BY <1>3 DEF Ring, Off
    <2>2. Far(o) \in 0 .. RxSize - 1 BY <2>1, <1>1, <1>3, DistFacts, Sizes DEF Far
    <2>3. z <= Far(o)
      <3>1. CASE o = put BY <3>1, <1>2, <1>3, <1>4, <1>5, Sizes DEF Ring
      <3>2. CASE o \in V
        <4>1. o # r /\ o \in U BY <3>2, <1>1
        <4>2. Far(o) > 0 BY <4>1, <2>1, <1>1, <1>3, Sizes DEF Far, Dist
        <4>3. Far(r) + Span(r) <= Far(o) BY <4>1, <4>2, <1>2, <1>5 DEF Ring
        <4> QED BY <4>3, <2>2, <1>3, <1>4, <1>5, Sizes
      <3> QED BY <3>1, <3>2
    <2> QED BY <2>1, <2>2, <2>3
  <1>7. \A o \in V \cup {put} : Far(o)' = Far(o) - z
    <2> SUFFICES ASSUME NEW o \in V \cup {put} PROVE Far(o)' = Far(o) - z OBVIOUS
    <2>1. o \in 0 .. RxSize - 1 /\ Far(o) \in 0 .. RxSize - 1 /\ z <= Far(o) BY <1>6
    <2>2. Far(o) = IF o >= r THEN o - r ELSE o - r + RxSize BY <1>1 DEF Far, Dist
    <2>3. (Far(o))' = IF o >= n THEN o - n ELSE o - n + RxSize BY <1>4 DEF Far, Dist
    <2> QED BY <2>1, <2>2, <2>3, <1>3, <1>4, Sizes
  <1>8. put' = put /\ rx' = rx /\ \A o : Span(o)' = Span(o) BY DEF Span
  <1>9. Far(put)' = Far(put) - z
    <2>1. \A o : o = put => (Far(o))' = Far(o) - z BY <1>7
    <2> QED BY <2>1, <1>8
  <1>10. n \in V \cup {put}
    <2>1. n \in U \cup {put} BY <1>1, <1>2 DEF Ring
    <2>2. n # r BY <1>3, <1>4, Sizes
    <2> QED BY <2>1, <2>2, <1>1
  <1>11. rx_offset' # put' <=> rx_offset' \in V
    <2>1. put \notin V
      <3> SUFFICES ASSUME put \in V PROVE FALSE OBVIOUS
      <3>1. put \in U OBVIOUS
      <3>2. Far(put) < Far(put) BY <3>1, UnreadBefore
      <3> QED BY <3>2, <1>6, Sizes
    <2> QED BY <2>1, <1>4, <1>8, <1>10
  <1>12. ASSUME NEW o \in V
         PROVE  /\ o % 4 = 0 /\ o \in Off /\ rx'[o].length \in Lengths
                /\ NextHeader(o, rx'[o].length) \in V \cup {put'}
                /\ Far(o)' + Span(o)' <= Far(put)'
    <2>1. o \in U /\ Span(o) \in Nat BY UnreadBefore, Sizes
    <2>2. o % 4 = 0 /\ o \in Off /\ rx'[o].length \in Lengths BY <2>1, <1>8 DEF Ring
    <2>3. Far(o)' + Span(o)' <= Far(put)'
      <3>1. Far(o) + Span(o) <= Far(put) BY <2>1 DEF Ring
      <3> QED BY <2>1, <3>1, <1>6, <1>7, <1>8, <1>9, <1>4, Sizes
    <2>4. NextHeader(o, rx[o].length) \in U \cup {put} BY <2>1 DEF Ring
    <2>5. NextHeader(o, rx[o].length) # r \/ r = put
      <3> SUFFICES ASSUME NextHeader(o, rx[o].length) = r PROVE FALSE OBVIOUS
      <3>1. PICK y : y = Span(o) OBVIOUS
      <3>2. o \in 0 .. RxSize - 1 /\ o % 4 = 0 /\ rx[o].length \in Lengths BY <2>1 DEF Ring, Off
      <3>3. y \in 1 .. RxSize - 1 /\ r = IF o + y < RxSize THEN o + y ELSE o + y - RxSize
        BY <3>1, <3>2, Stored DEF Span
      <3>4. Far(o) + y <= Far(put) BY <3>1, <2>1 DEF Ring
      <3>5. Far(o) = IF o >= r THEN o - r ELSE o - r + RxSize BY <1>1 DEF Far, Dist
      <3>6. Far(put) \in 0 .. RxSize - 1 BY <1>6
      <3> QED BY <3>2, <3>3, <3>4, <3>5, <3>6, <1>3, Sizes
    <2> QED BY <2>2, <2>3, <2>4, <2>5, <1>1, <1>8
  <1>13. \A o, w \in V : Far(o)' < Far(w)' <=> Far(o) < Far(w)
    <2> SUFFICES ASSUME NEW o \in V, NEW w \in V PROVE Far(o)' < Far(w)' <=> Far(o) < Far(w) OBVIOUS
    <2>1. Far(o) \in Int /\ Far(w) \in Int /\ z \in Int BY <1>4, <1>6, Sizes
    <2> QED BY <2>1, <1>7
  <1>14. ASSUME NEW o \in V, NEW w \in V, Far(o)' < Far(w)' PROVE Far(o)' + Span(o)' <= Far(w)'
    <2>1. Far(o) + Span(o) <= Far(w) BY <1>13, <1>14 DEF Ring
    <2>2. Far(o) \in Int /\ Far(w) \in Int /\ z \in Int /\ Span(o) \in Int BY <1>4, <1>6, UnreadBefore, Sizes
    <2> QED BY <2>1, <2>2, <1>7, <1>8
  <1>15. Ring(V)'
    <2>1. DOMAIN rx' = Off /\ put' \in Off /\ put' % 4 = 0 /\ V' = V BY <1>8 DEF Ring
    <2> QED BY <2>1, <1>4, <1>11, <1>12, <1>14 DEF Ring
  <1>16. \A o \in V : Far(rx_offset) < Far(o) BY <1>1, <1>4, <1>5, <1>6, Sizes
  <1> QED BY <1>1, <1>2, <1>13, <1>15, <1>16

-----------------------------------------------------------------------------
(* What the unread frames say.                                             *)
IsTelling(f) == f.kind \in {"request", "reply"}

\* A frame arrives that tells the truth about its sender, if anything, or has the
\* next number; or there is no room for it.
LEMMA ArriveReading ==
  ASSUME NEW U \in SUBSET Off, Ring(U), Heard(U), Datagrams(U), NEW f, Arrive(f),
         mac' \in [Peers -> Addresses],
         \A p \in Peers : mac'[p] = mac[p] \/ (IsTelling(f) /\ f.from = p),
         IsTelling(f) => f.from \in Peers /\ f.mac = mac'[f.from],
         f.kind = "udp" => f.n = arrived + 1
  PROVE  Reading'
  <1>1. /\ arrived' = arrived + 1 /\ arrived \in Nat
        /\ UNCHANGED <<rx_offset, cache, buffers, refused>>
    BY DEF Arrive, reader, udp, Datagrams
  <1>2. PICK l \in Lengths :
          IF ((put - rx_offset) % RxSize) + StoredSize(l) < RxSize
          THEN /\ rx' = [rx EXCEPT ![put] = [frame |-> f, length |-> l]]
               /\ put' = (put + StoredSize(l)) % RxSize
               /\ UNCHANGED missed
          ELSE missed' = missed + 1 /\ UNCHANGED <<rx, put>>
    BY DEF Arrive, card
  <1>3. CASE ((put - rx_offset) % RxSize) + StoredSize(l) < RxSize
    <2>1. PICK V : V = U \cup {put} OBVIOUS
    <2>2. /\ Ring(V)' /\ put \notin U
          /\ \A o \in U : rx'[o] = rx[o] /\ Far(o) < Far(put)
          /\ rx'[put] = [frame |-> f, length |-> l]
          /\ \A o : Far(o)' = Far(o)
      BY <1>1, <1>2, <1>3, <2>1, RingArrive
    <2>3. rx'[put].frame = f /\ missed' = missed BY <1>2, <1>3, <2>2
    <2>4. V \in SUBSET Off BY <2>1 DEF Ring
    <2>5. \A p : \A o \in U : Tells(o, p)' <=> Tells(o, p) BY <2>2 DEF Tells
    <2>6. \A o, p : o = put => (Tells(o, p)' <=> IsTelling(f) /\ f.from = p)
      BY <2>3 DEF Tells, IsTelling
    <2>7. Heard(V)'
      <3>1. \A o \in V : rx'[o].frame.kind \in {"request", "reply"} =>
              rx'[o].frame.from \in Peers /\ rx'[o].frame.mac \in Addresses
        <4>1. \A o \in U : rx'[o].frame.kind \in {"request", "reply"} =>
                rx'[o].frame.from \in Peers /\ rx'[o].frame.mac \in Addresses
          BY <2>2 DEF Heard
        <4>2. IsTelling(f) => f.from \in Peers /\ f.mac \in Addresses OBVIOUS
        <4> QED BY <4>1, <4>2, <2>1, <2>3 DEF IsTelling
      <3>2. ASSUME missed' = 0, NEW o \in V, NEW p \in Peers, Tells(o, p)'
            PROVE  \/ rx'[o].frame.mac = mac'[p]
                   \/ \E w \in V : Tells(w, p)' /\ Far(o)' < Far(w)'
        <4>1. CASE o = put BY <4>1, <3>2, <2>3, <2>6
        <4>2. CASE o \in U /\ IsTelling(f) /\ f.from = p
          <5>1. \A w : w = put => Tells(w, p)' /\ Far(o)' < Far(w)' BY <4>2, <2>2, <2>6
          <5> QED BY <5>1, <2>1
        <4>3. CASE o \in U /\ ~ (IsTelling(f) /\ f.from = p)
          <5>1. mac'[p] = mac[p] /\ Tells(o, p) /\ rx'[o] = rx[o] BY <4>3, <3>2, <2>2, <2>5
          <5>2. \/ rx[o].frame.mac = mac[p]
                \/ \E w \in U : Tells(w, p) /\ Far(o) < Far(w)
            BY <5>1, <4>3, <2>3, <3>2 DEF Heard
          <5> QED BY <5>1, <5>2, <2>1, <2>2, <2>5
        <4> QED BY <4>1, <4>2, <4>3, <2>1
      <3>3. ASSUME missed' = 0, NEW i \in DOMAIN cache
            PROVE  \/ cache'[i].mac = mac'[cache'[i].ip]
                   \/ \E o \in V : Tells(o, cache[i].ip)'
        <4>1. PICK p : p = cache[i].ip OBVIOUS
        <4>2. p \in Peers /\ cache' = cache
          <5>1. cache[i] \in Entries BY DEF Heard
          <5> QED BY <5>1, <4>1, <1>1 DEF Entries
        <4>3. \/ cache[i].mac = mac[p] \/ \E o \in U : Tells(o, p)
          BY <4>1, <4>2, <3>3, <2>3 DEF Heard
        <4>4. CASE IsTelling(f) /\ f.from = p
          <5>1. \A o : o = put => Tells(o, p)' BY <4>4, <2>6
          <5>2. \E o \in V : Tells(o, p)' BY <5>1, <2>1
          <5> QED BY <5>2, <4>1, <4>2 DEF Tells
        <4>5. CASE ~ (IsTelling(f) /\ f.from = p)
          <5>1. mac'[p] = mac[p] BY <4>2, <4>5
          <5>2. \/ cache[i].mac = mac'[p] \/ \E o \in V : Tells(o, p)' BY <5>1, <4>3, <2>1, <2>5
          <5> QED BY <5>2, <4>1, <4>2 DEF Tells
        <4> QED BY <4>4, <4>5
      <3>4. /\ cache' \in Seq(Entries) /\ missed' \in Nat
            /\ \A i, j \in DOMAIN cache' : cache'[i].ip = cache'[j].ip => i = j
        BY <1>1, <2>3 DEF Heard
      <3>5. DOMAIN cache' = DOMAIN cache BY <1>1
      <3> QED BY <3>1, <3>2, <3>3, <3>4, <3>5 DEF Heard
    <2>8. Datagrams(V)'
      <3>1. \A o \in U : IsUdp(o)' <=> IsUdp(o) BY <2>2 DEF IsUdp
      <3>2. \A o : o = put /\ IsUdp(o)' => rx'[o].frame.n = arrived + 1 BY <2>3 DEF IsUdp
      <3>3. buffers \subseteq 1 .. arrived /\ refused \subseteq buffers BY DEF Datagrams
      <3>4. \A o \in V : IsUdp(o)' =>
              rx'[o].frame.n \in 1 .. arrived' /\ \A b \in buffers' : b < rx'[o].frame.n
        <4>1. \A o \in U : IsUdp(o)' => rx'[o].frame.n \in 1 .. arrived /\ \A b \in buffers : b < rx'[o].frame.n
          BY <2>2, <3>1 DEF Datagrams
        <4>2. \A o : o = put /\ IsUdp(o)' =>
                rx'[o].frame.n \in 1 .. arrived' /\ \A b \in buffers : b < rx'[o].frame.n
          BY <1>1, <3>2, <3>3
        <4>3. \A n \in 1 .. arrived : n \in 1 .. arrived' BY <1>1
        <4> QED BY <4>1, <4>2, <4>3, <2>1, <1>1
      <3>5. ASSUME NEW o \in V, NEW w \in V, IsUdp(o)', IsUdp(w)', Far(o)' < Far(w)'
            PROVE  rx'[o].frame.n < rx'[w].frame.n
        <4>1. Far(o) < Far(w) BY <2>2, <3>5
        <4>2. CASE o \in U /\ w \in U BY <4>1, <4>2, <2>2, <3>1, <3>5 DEF Datagrams
        <4>3. CASE o \in U /\ w = put
          <5>1. rx'[o].frame.n \in 1 .. arrived BY <4>3, <2>2, <3>1, <3>5 DEF Datagrams
          <5>2. rx'[w].frame.n = arrived + 1 BY <4>3, <3>2, <3>5
          <5> QED BY <5>1, <5>2, <1>1
        <4>4. CASE o = put
          <5>1. \A v \in V : ~ (Far(put) < Far(v))
            <6>1. Far(put) \in Int
              <7>1. put \in 0 .. RxSize - 1 /\ rx_offset \in 0 .. RxSize - 1 BY DEF Ring, Off
              <7> QED BY <7>1, DistFacts, Sizes DEF Far
            <6>2. \A v \in U : Far(v) \in Int /\ Far(v) < Far(put) BY UnreadBefore
            <6> QED BY <6>1, <6>2, <2>1
          <5> QED BY <5>1, <4>1, <4>4
        <4> QED BY <4>2, <4>3, <4>4, <2>1
      <3> QED BY <3>3, <3>4, <3>5, <1>1 DEF Datagrams
    <2> QED BY <2>2, <2>4, <2>7, <2>8 DEF Reading, Off
  <1>4. CASE ~ (((put - rx_offset) % RxSize) + StoredSize(l) < RxSize)
    <2>1. UNCHANGED <<rx, put>> /\ missed' = missed + 1 BY <1>2, <1>4
    <2>2. /\ \A o : Far(o)' = Far(o) /\ Span(o)' = Span(o) /\ (IsUdp(o)' <=> IsUdp(o))
      BY <2>1, <1>1 DEF Far, Span, IsUdp
    <2>3. Ring(U)' BY <2>1, <2>2, <1>1 DEF Ring, Far, Span
    <2>4. Heard(U)'
      <3>1. missed' \in Nat /\ missed' # 0 BY <2>1 DEF Heard
      <3> QED BY <3>1, <2>1, <1>1 DEF Heard
    <2>5. Datagrams(U)'
      <3>1. \A n \in 1 .. arrived : n \in 1 .. arrived' BY <1>1
      <3>2. arrived' \in Nat BY <1>1
      <3>3. /\ \A o \in U : IsUdp(o)' =>
                 rx'[o].frame.n \in 1 .. arrived' /\ \A b \in buffers' : b < rx'[o].frame.n
            /\ \A o, w \in U : IsUdp(o)' /\ IsUdp(w)' /\ Far(o)' < Far(w)' => rx'[o].frame.n < rx'[w].frame.n
        BY <2>1, <2>2, <1>1, <3>1 DEF Datagrams
      <3>4. buffers' \subseteq 1 .. arrived' /\ refused' \subseteq buffers' BY <3>1, <1>1 DEF Datagrams
      <3> QED BY <3>2, <3>3, <3>4 DEF Datagrams
    <2> QED BY <2>3, <2>4, <2>5 DEF Reading, Off
  <1> QED BY <1>3, <1>4

\* receive_ARP stores the sender's address, in the one entry it has.
LEMMA LearnFacts ==
  ASSUME cache \in Seq(Entries), NEW p \in Peers, NEW m \in Addresses, Learn(p, m),
         \A i, j \in DOMAIN cache : cache[i].ip = cache[j].ip => i = j
  PROVE  /\ cache' \in Seq(Entries)
         /\ \A i, j \in DOMAIN cache' : cache'[i].ip = cache'[j].ip => i = j
         /\ \A i \in DOMAIN cache' : IF cache'[i].ip = p THEN cache'[i].mac = m
                                     ELSE i \in DOMAIN cache /\ cache'[i] = cache[i]
  <1> DEFINE I == {i \in DOMAIN cache : cache[i].ip = p}
  <1>1. I \in SUBSET Nat BY DEF Entries
  <1>2. PICK e : e = Entry(p) OBVIOUS
  <1>3. IF I = {} THEN e = 0 ELSE e \in I BY <1>1, <1>2, FirstOfFacts DEF Entry
  <1>4. \A i \in DOMAIN cache : cache[i] \in Entries OBVIOUS
  <1>5. CASE I # {}
    <2>1. e \in DOMAIN cache /\ cache[e].ip = p /\ e # 0 BY <1>3, <1>5
    <2>2. cache' = [cache EXCEPT ![e].mac = m] BY <1>2, <2>1 DEF Learn
    <2>3. PICK c : c = [cache[e] EXCEPT !.mac = m] OBVIOUS
    <2>4. c \in Entries /\ c.ip = p /\ c.mac = m BY <1>4, <2>1, <2>3 DEF Entries
    <2>5. cache' = [cache EXCEPT ![e] = c] BY <2>2, <2>3
    <2>6. cache' \in Seq(Entries) /\ DOMAIN cache' = DOMAIN cache BY <2>1, <2>4, <2>5
    <2>7. \A i \in DOMAIN cache : cache'[i] = IF i = e THEN c ELSE cache[i] BY <2>5
    <2>8. \A i \in DOMAIN cache : cache'[i].ip = cache[i].ip BY <2>1, <2>4, <2>7
    <2> QED BY <2>1, <2>4, <2>6, <2>7, <2>8
  <1>6. CASE I = {}
    <2>1. PICK c : c = [ip |-> p, mac |-> m] OBVIOUS
    <2>2. c \in Entries /\ c.ip = p /\ c.mac = m BY <2>1 DEF Entries
    <2>3. cache' = Append(cache, c) BY <1>2, <1>3, <1>6, <2>1 DEF Learn
    <2>4. cache' \in Seq(Entries) BY <2>2, <2>3
    <2>5. DOMAIN cache' = DOMAIN cache \cup {Len(cache) + 1} BY <2>3
    <2>6. cache'[Len(cache) + 1] = c /\ \A i \in DOMAIN cache : cache'[i] = cache[i] BY <2>3
    <2>7. \A i \in DOMAIN cache : cache[i].ip # p BY <1>6
    <2>8. \A i \in DOMAIN cache' :
            \/ i = Len(cache) + 1 /\ cache'[i] = c
            \/ i \in DOMAIN cache /\ cache'[i] = cache[i]
      BY <2>5, <2>6
    <2>9. \A i \in DOMAIN cache' : cache'[i].ip = p => i = Len(cache) + 1 /\ cache'[i] = c
      BY <2>7, <2>8
    <2>10. ASSUME NEW i \in DOMAIN cache', NEW j \in DOMAIN cache', cache'[i].ip = cache'[j].ip
           PROVE  i = j
      <3>1. CASE cache'[i].ip = p BY <3>1, <2>9, <2>10
      <3>2. CASE cache'[i].ip # p BY <3>2, <2>2, <2>8, <2>10
      <3> QED BY <3>1, <3>2
    <2>11. \A i \in DOMAIN cache' : IF cache'[i].ip = p THEN cache'[i].mac = m
                                    ELSE i \in DOMAIN cache /\ cache'[i] = cache[i]
      BY <2>2, <2>8, <2>9
    <2> QED BY <2>4, <2>10, <2>11
  <1> QED BY <1>5, <1>6

\* The handler reads a frame.
LEMMA ReceiveReading ==
  ASSUME NEW U \in SUBSET Off, Ring(U), Heard(U), Datagrams(U), put # rx_offset,
         NEW f, f = rx[rx_offset].frame,
         rx_offset' = NextHeader(rx_offset, rx[rx_offset].length),
         UNCHANGED <<rx, put, mac, arrived, missed>>,
         IF IsTelling(f) THEN Learn(f.from, f.mac) ELSE cache' = cache,
         IF f.kind = "udp" THEN buffers' = buffers \cup {f.n} /\ refused' \in {refused, refused \cup {f.n}}
                           ELSE UNCHANGED <<buffers, refused>>
  PROVE  Reading'
  <1>1. PICK r, V : r = rx_offset /\ V = U \ {r} OBVIOUS
  <1>2. /\ Ring(V)' /\ r \in U
        /\ \A o \in V : Far(r) < Far(o)
        /\ \A o, w \in V : Far(o)' < Far(w)' <=> Far(o) < Far(w)
    BY <1>1, RingReceive
  <1>3. /\ \A o, p : (Tells(o, p)' <=> Tells(o, p)) /\ (IsUdp(o)' <=> IsUdp(o))
    BY DEF Tells, IsUdp
  <1>4. f = rx[r].frame /\ \A p : Tells(r, p) <=> IsTelling(f) /\ f.from = p
    BY <1>1 DEF Tells, IsTelling
  <1>5. Heard(V)'
    <2>1. \A i \in DOMAIN cache : cache[i] \in Entries BY DEF Heard
    <2>2. /\ cache' \in Seq(Entries)
          /\ \A i, j \in DOMAIN cache' : cache'[i].ip = cache'[j].ip => i = j
      <3>1. CASE IsTelling(f)
        <4>1. f.from \in Peers /\ f.mac \in Addresses BY <1>2, <1>4, <3>1 DEF Heard, IsTelling
        <4> QED BY <4>1, <3>1, LearnFacts DEF Heard
      <3>2. CASE ~ IsTelling(f) BY <3>2 DEF Heard
      <3> QED BY <3>1, <3>2
    <2>3. ASSUME missed' = 0, NEW i \in DOMAIN cache'
          PROVE  \/ cache'[i].mac = mac'[cache'[i].ip]
                 \/ \E o \in V : Tells(o, cache[i].ip)'
      <3>1. PICK p : p = cache'[i].ip OBVIOUS
      <3>2. CASE IsTelling(f) /\ f.from = p
        <4>1. f.from \in Peers /\ f.mac \in Addresses BY <1>2, <1>4, <3>2 DEF Heard, IsTelling
        <4>2. cache'[i].mac = f.mac BY <4>1, <3>1, <3>2, LearnFacts DEF Heard
        <4>3. \/ f.mac = mac[p] \/ \E w \in U : Tells(w, p) /\ Far(r) < Far(w)
          BY <1>2, <1>4, <4>1, <3>2, <2>3 DEF Heard
        <4>4. CASE f.mac = mac[p] BY <4>4, <4>2, <3>1
        <4>5. CASE \E w \in U : Tells(w, p) /\ Far(r) < Far(w)
          <5>1. PICK w \in U : Tells(w, p) /\ Far(r) < Far(w) BY <4>5
          <5>2. w # r
            <6>1. Far(r) \in Nat BY <1>2, UnreadBefore
            <6> QED BY <6>1, <5>1
          <5>3. Tells(w, p)' /\ w \in V BY <1>1, <1>3, <5>1, <5>2
          <5> QED BY <5>3, <3>1 DEF Tells
        <4> QED BY <4>3, <4>4, <4>5
      <3>3. CASE ~ (IsTelling(f) /\ f.from = p)
        <4>1. i \in DOMAIN cache /\ cache'[i] = cache[i]
          <5>1. CASE IsTelling(f)
            <6>1. f.from \in Peers /\ f.mac \in Addresses BY <1>2, <1>4, <5>1 DEF Heard, IsTelling
            <6> QED BY <6>1, <5>1, <3>1, <3>3, LearnFacts DEF Heard
          <5>2. CASE ~ IsTelling(f) BY <5>2
          <5> QED BY <5>1, <5>2
        <4>2. \/ cache[i].mac = mac[p] \/ \E o \in U : Tells(o, p)
          BY <4>1, <3>1, <2>3 DEF Heard
        <4>3. CASE cache[i].mac = mac[p] BY <4>1, <4>3, <3>1
        <4>4. CASE \E o \in U : Tells(o, p)
          <5>1. PICK o \in U : Tells(o, p) BY <4>4
          <5>2. o # r BY <5>1, <1>4, <3>3
          <5>3. o \in V /\ Tells(o, p)' BY <5>1, <5>2, <1>1, <1>3
          <5> QED BY <5>3, <3>1 DEF Tells
        <4> QED BY <4>2, <4>3, <4>4
      <3> QED BY <3>2, <3>3
    <2>4. ASSUME missed' = 0, NEW o \in V, NEW p \in Peers, Tells(o, p)'
          PROVE  \/ rx'[o].frame.mac = mac'[p]
                 \/ \E w \in V : Tells(w, p)' /\ Far(o)' < Far(w)'
      <3>1. Tells(o, p) /\ o \in U BY <1>1, <1>3, <2>4
      <3>2. \/ rx[o].frame.mac = mac[p] \/ \E w \in U : Tells(w, p) /\ Far(o) < Far(w)
        BY <3>1, <2>4 DEF Heard
      <3>3. CASE \E w \in U : Tells(w, p) /\ Far(o) < Far(w)
        <4>1. PICK w \in U : Tells(w, p) /\ Far(o) < Far(w) BY <3>3
        <4>2. w # r
          <5>1. Far(r) \in Nat /\ Far(o) \in Nat /\ Far(r) < Far(o) BY <1>2, <3>1, UnreadBefore
          <5> QED BY <5>1, <4>1
        <4>3. w \in V BY <4>1, <4>2, <1>1
        <4> QED BY <4>1, <4>3, <1>2, <1>3
      <3> QED BY <3>2, <3>3
    <2>5. /\ mac' \in [Peers -> Addresses] /\ missed' \in Nat
          /\ \A o \in V : rx'[o].frame.kind \in {"request", "reply"} =>
               rx'[o].frame.from \in Peers /\ rx'[o].frame.mac \in Addresses
      BY <1>1 DEF Heard
    <2> QED BY <2>2, <2>3, <2>4, <2>5 DEF Heard
  <1>6. Datagrams(V)'
    <2>1. \A o \in U : IsUdp(o) =>
            rx[o].frame.n \in 1 .. arrived /\ \A b \in buffers : b < rx[o].frame.n
      BY DEF Datagrams
    <2>2. buffers' \subseteq 1 .. arrived /\ refused' \subseteq buffers'
      <3>1. f.kind = "udp" => f.n \in 1 .. arrived BY <2>1, <1>2, <1>4 DEF IsUdp
      <3> QED BY <3>1 DEF Datagrams
    <2>3. ASSUME NEW o \in V, IsUdp(o)
          PROVE  rx[o].frame.n \in 1 .. arrived /\ \A b \in buffers' : b < rx[o].frame.n
      <3>1. o \in U BY <1>1
      <3>2. f.kind = "udp" => f.n < rx[o].frame.n
        <4>1. f.kind = "udp" => IsUdp(r) BY <1>4 DEF IsUdp
        <4> QED BY <4>1, <3>1, <2>3, <1>2, <1>4 DEF Datagrams
      <3> QED BY <3>1, <3>2, <2>1, <2>3
    <2>4. \A o, w \in V : IsUdp(o) /\ IsUdp(w) /\ Far(o)' < Far(w)' => rx[o].frame.n < rx[w].frame.n
      BY <1>1, <1>2 DEF Datagrams
    <2>5. arrived' = arrived /\ arrived \in Nat /\ rx' = rx BY DEF Datagrams
    <2> QED BY <2>2, <2>3, <2>4, <2>5, <1>3 DEF Datagrams
  <1>7. V \in SUBSET Off BY <1>1
  <1> QED BY <1>2, <1>5, <1>6, <1>7 DEF Reading, Off

LEMMA StableReading ==
  ASSUME Reading, UNCHANGED <<rx, put, rx_offset, cache, mac, arrived, missed, buffers>>,
         refused' \subseteq buffers
  PROVE  Reading'
  <1>1. PICK U \in SUBSET Off : Ring(U) /\ Heard(U) /\ Datagrams(U) BY DEF Reading
  <1>2. \A o, p : /\ Far(o)' = Far(o) /\ Span(o)' = Span(o) /\ (IsUdp(o)' <=> IsUdp(o))
                  /\ (Tells(o, p)' <=> Tells(o, p))
    BY DEF Far, Span, IsUdp, Tells
  <1>3. Ring(U)' BY <1>1 DEF Ring, Far, Span
  <1>4. Heard(U)' BY <1>1 DEF Heard, Far, Tells
  <1>5. Datagrams(U)' BY <1>1 DEF Datagrams, IsUdp, Far
  <1> QED BY <1>3, <1>4, <1>5 DEF Reading, Off

-----------------------------------------------------------------------------
(* The transmit slots.                                                     *)
LEMMA TxFacts ==
  ASSUME Sending
  PROVE  /\ tx_card \in 0 .. TxSlots - 1 /\ tx_slot \in 0 .. TxSlots - 1
         /\ IsFiniteSet(own) /\ Cardinality(own) \in Nat
         /\ \A i \in TxSlot : i \in 0 .. TxSlots - 1 /\ Behind(i) \in 0 .. TxSlots - 1
         /\ handed \in Nat /\ Len(wire) \in Nat /\ Unsent \in Int
  <1>1. tx_card \in 0 .. TxSlots - 1 /\ tx_slot \in 0 .. TxSlots - 1 BY DEF Sending, TxSlot
  <1>2. IsFiniteSet(0 .. TxSlots - 1) BY FS_Interval, Sizes
  <1>3. IsFiniteSet(own) /\ Cardinality(own) \in Nat
    BY <1>2, FS_Subset, FS_CardinalityType DEF Sending, TxSlot
  <1>4. \A i \in TxSlot : i \in 0 .. TxSlots - 1 /\ Behind(i) \in 0 .. TxSlots - 1
    BY <1>1, DistFacts, Sizes DEF Behind, TxSlot
  <1>5. handed \in Nat /\ Len(wire) \in Nat /\ Unsent \in Int BY DEF Sending, Unsent
  <1> QED BY <1>1, <1>3, <1>4, <1>5

\* send() fills the slot behind the others, or overruns.
LEMMA SendSending ==
  ASSUME Sending, NEW kind, NEW p, NEW m, Send(kind, p, m), UNCHANGED <<tx_card, wire>>
  PROVE  Sending'
  <1>1. PICK s, k, e : /\ s = tx_slot /\ k = Unsent
                       /\ e = [kind |-> kind, to |-> p, mac |-> m, n |-> handed + 1]
    OBVIOUS
  <1>2. /\ s \in 0 .. TxSlots - 1 /\ tx_card \in 0 .. TxSlots - 1 /\ handed \in Nat
        /\ Len(wire) \in Nat /\ k \in Int
        /\ \A i \in TxSlot : i \in 0 .. TxSlots - 1 /\ Behind(i) \in 0 .. TxSlots - 1
    BY <1>1, TxFacts
  <1>3. /\ slot' = [slot EXCEPT ![s] = e] /\ own' = own \cup {s}
        /\ overrun' = (overrun \/ s \in own)
        /\ tx_slot' = (s + 1) % TxSlots /\ handed' = handed + 1
    BY <1>1 DEF Send, Fill
  <1>4. tx_slot' = (IF s + 1 < TxSlots THEN s + 1 ELSE s + 1 - TxSlots)
    BY <1>2, <1>3, Wraps, Sizes
  <1>5. tx_slot' \in TxSlot BY <1>2, <1>4, Sizes DEF TxSlot
  <1>6. Unsent' = k + 1 /\ \A i : Behind(i)' = Behind(i)
    BY <1>1, <1>2, <1>3 DEF Unsent, Behind
  <1>7. e.n = handed + 1 BY <1>1
  <1>8. s \in TxSlot /\ DOMAIN slot' = TxSlot /\ own' \subseteq TxSlot BY <1>1, <1>3 DEF Sending
  <1>9. ASSUME ~ overrun'
        PROVE  /\ SentInOrder'
               /\ Unsent' \in 0 .. TxSlots
               /\ own' = {i \in TxSlot : Behind(i)' < Unsent'}
               /\ tx_slot' = IF tx_card + Unsent' < TxSlots THEN tx_card + Unsent'
                                                           ELSE tx_card + Unsent' - TxSlots
               /\ \A i \in own' : slot'[i].n = Len(wire) + 1 + Behind(i)'
    <2>1. /\ ~ overrun /\ s \notin own
          /\ k \in 0 .. TxSlots
          /\ own = {i \in TxSlot : Behind(i) < k}
          /\ s = IF tx_card + k < TxSlots THEN tx_card + k ELSE tx_card + k - TxSlots
          /\ \A i \in own : slot[i].n = Len(wire) + 1 + Behind(i)
      BY <1>1, <1>3, <1>9 DEF Sending
    <2>2. k < TxSlots /\ Behind(s) = k
      <3>1. ~ (Behind(s) < k) BY <2>1, <1>8
      <3> QED BY <3>1, <2>1, <1>2, Sizes DEF Behind, Dist
    <2>3. \A i \in TxSlot : Behind(i) = k => i = s
      BY <1>2, <2>1, <2>2, Sizes DEF Behind, Dist
    <2>4. own' = {i \in TxSlot : Behind(i)' < Unsent'}
      <3>1. \A i \in TxSlot : Behind(i) < k + 1 <=> Behind(i) < k \/ i = s
        BY <1>2, <2>2, <2>3, Sizes
      <3> QED BY <3>1, <1>3, <1>6, <1>8, <2>1
    <2>5. Cardinality(own') = Cardinality(own) + 1 BY <1>3, <2>1, TxFacts, FS_AddElement
    <2>6. SentInOrder'
      <3>1. wire = [i \in 1 .. Len(wire) |-> i] /\ Len(wire) + Cardinality(own) = handed
        BY <2>1 DEF Sending, SentInOrder
      <3>2. Len(wire) + Cardinality(own) = handed BY <3>1
      <3>3. Cardinality(own) \in Nat /\ handed' = handed + 1 BY <1>3, TxFacts
      <3>4. Len(wire') + Cardinality(own') = handed' BY <3>2, <3>3, <2>5, <1>2
      <3> QED BY <3>1, <3>4 DEF SentInOrder
    <2>7. tx_slot' = IF tx_card + Unsent' < TxSlots THEN tx_card + Unsent'
                                                    ELSE tx_card + Unsent' - TxSlots
      BY <1>2, <1>4, <1>6, <2>1, <2>2, Sizes
    <2>8. ASSUME NEW i \in own' PROVE slot'[i].n = Len(wire) + 1 + Behind(i)'
      <3>1. CASE i = s
        <4>1. slot'[i].n = handed + 1 BY <3>1, <1>3, <1>7, <1>8 DEF Sending
        <4>2. handed = Len(wire) + k BY <1>1, <1>2 DEF Unsent
        <4> QED BY <3>1, <4>1, <4>2, <1>2, <1>6, <2>2
      <3>2. CASE i # s
        <4>1. i \in own /\ i \in TxSlot BY <3>2, <1>3, <2>1
        <4>2. slot'[i] = slot[i] BY <3>2, <4>1, <1>3 DEF Sending
        <4> QED BY <4>1, <4>2, <2>1, <1>6
      <3> QED BY <3>1, <3>2
    <2>9. Unsent' \in 0 .. TxSlots BY <1>6, <2>1, <2>2, Sizes
    <2> QED BY <2>4, <2>6, <2>7, <2>8, <2>9
  <1>10. overrun' \in BOOLEAN /\ handed' \in Nat /\ wire' \in Seq(Nat) BY <1>2, <1>3 DEF Sending
  <1>11. \A i \in own' : slot'[i].n \in Nat
    <2>1. slot'[s].n \in Nat /\ \A i \in own : i # s => slot'[i].n \in Nat
      BY <1>1, <1>2, <1>3, <1>7, <1>8 DEF Sending
    <2> QED BY <2>1, <1>3
  <1> QED BY <1>5, <1>8, <1>9, <1>10, <1>11 DEF Sending

\* The card sends the frame of the oldest slot.
\* The slot that comes k after c is the one that comes k - 1 after the next one.
LEMMA NextSlot ==
  ASSUME NEW n \in Nat, NEW c \in 0 .. n - 1, NEW k \in 1 .. n, NEW t,
         t = IF c + 1 < n THEN c + 1 ELSE c + 1 - n
  PROVE  (IF c + k < n THEN c + k ELSE c + k - n)
           = (IF t + (k - 1) < n THEN t + (k - 1) ELSE t + (k - 1) - n)
  OBVIOUS

LEMMA TransmitSending ==
  ASSUME Sending, Transmit
  PROVE  Sending'
  <1>1. PICK c, k, t : c = tx_card /\ k = Unsent /\ t = (c + 1) % TxSlots OBVIOUS
  <1>2. /\ c \in 0 .. TxSlots - 1 /\ handed \in Nat /\ Len(wire) \in Nat /\ k \in Int
        /\ tx_slot \in 0 .. TxSlots - 1
        /\ \A i \in TxSlot : i \in 0 .. TxSlots - 1 /\ Behind(i) \in 0 .. TxSlots - 1
    BY <1>1, TxFacts
  <1>3. /\ c \in own /\ own' = own \ {c} /\ tx_card' = t /\ wire' = Append(wire, slot[c].n)
        /\ UNCHANGED <<slot, tx_slot, handed, overrun>>
    BY <1>1 DEF Transmit
  <1>4. t = (IF c + 1 < TxSlots THEN c + 1 ELSE c + 1 - TxSlots) BY <1>1, <1>2, Wraps, Sizes
  <1>5. tx_card' \in TxSlot BY <1>2, <1>3, <1>4, Sizes DEF TxSlot
  <1>6. Behind(c) = 0 BY <1>1, <1>2 DEF Behind, Dist
  <1>7. ASSUME ~ overrun'
        PROVE  /\ SentInOrder'
               /\ Unsent' \in 0 .. TxSlots
               /\ own' = {i \in TxSlot : Behind(i)' < Unsent'}
               /\ tx_slot' = IF t + Unsent' < TxSlots THEN t + Unsent' ELSE t + Unsent' - TxSlots
               /\ \A i \in own' : slot[i].n = Len(wire') + 1 + Behind(i)'
    <2>1. /\ ~ overrun
          /\ k \in 0 .. TxSlots
          /\ own = {i \in TxSlot : Behind(i) < k}
          /\ tx_slot = IF c + k < TxSlots THEN c + k ELSE c + k - TxSlots
          /\ \A i \in own : slot[i].n = Len(wire) + 1 + Behind(i)
      BY <1>1, <1>3, <1>7 DEF Sending
    <2>2. slot[c].n = Len(wire) + 1 /\ k > 0 /\ c \in TxSlot
      <3>1. c \in TxSlot /\ 0 < k BY <1>3, <1>6, <2>1
      <3> QED BY <3>1, <2>1, <1>3, <1>6, <1>2
    <2>3. Len(wire') = Len(wire) + 1 /\ Unsent' = k - 1
      <3>1. Len(wire') = Len(wire) + 1 BY <1>3 DEF Sending
      <3> QED BY <3>1, <1>1, <1>2, <1>3 DEF Unsent
    <2>4. \A i \in TxSlot : i # c => Behind(i)' = Behind(i) - 1 /\ Behind(i) > 0
      <3>1. \A i \in TxSlot : Behind(i)' = IF i >= t THEN i - t ELSE i - t + TxSlots
        BY <1>3 DEF Behind, Dist
      <3>2. \A i \in TxSlot : Behind(i) = IF i >= c THEN i - c ELSE i - c + TxSlots
        BY <1>1 DEF Behind, Dist
      <3> QED BY <3>1, <3>2, <1>2, <1>4, Sizes
    <2>5. Behind(c)' = TxSlots - 1
      <3>1. \A i : i = c => (Behind(i))' = IF i >= t THEN i - t ELSE i - t + TxSlots
        BY <1>3 DEF Behind, Dist
      <3>2. (IF c >= t THEN c - t ELSE c - t + TxSlots) = TxSlots - 1 BY <1>2, <1>4, Sizes
      <3> QED BY <3>1, <3>2
    <2>6. own' = {i \in TxSlot : Behind(i)' < Unsent'}
      <3>1. \A i \in TxSlot : Behind(i)' < k - 1 <=> Behind(i) < k /\ i # c
        <4> SUFFICES ASSUME NEW i \in TxSlot PROVE Behind(i)' < k - 1 <=> Behind(i) < k /\ i # c
          OBVIOUS
        <4>1. CASE i = c
          <5>1. Behind(i)' = TxSlots - 1 BY <4>1, <2>5
          <5> QED BY <5>1, <4>1, <2>1, Sizes
        <4>2. CASE i # c BY <4>2, <2>4, <1>2, <2>1
        <4> QED BY <4>1, <4>2
      <3>2. own' = {i \in TxSlot : Behind(i) < k /\ i # c} BY <1>3, <2>1
      <3> QED BY <3>1, <3>2, <2>3
    <2>7. Cardinality(own') = Cardinality(own) - 1 BY <1>3, TxFacts, FS_RemoveElement
    <2>8. SentInOrder'
      <3>1. wire = [i \in 1 .. Len(wire) |-> i] /\ Len(wire) + Cardinality(own) = handed
        BY <2>1 DEF Sending, SentInOrder
      <3>2. Len(wire') + Cardinality(own') = handed'
        <4>1. Len(wire) + Cardinality(own) = handed BY <3>1
        <4>2. Cardinality(own) \in Nat /\ handed' = handed BY <1>3, TxFacts
        <4> QED BY <4>1, <4>2, <2>3, <2>7, <1>2
      <3>3. wire' = [i \in 1 .. Len(wire') |-> i]
        <4>1. wire' = Append(wire, Len(wire) + 1) BY <1>3, <2>2
        <4>2. wire' = [i \in 1 .. Len(wire) + 1 |-> IF i = Len(wire) + 1 THEN i ELSE wire[i]]
          BY <4>1 DEF Sending
        <4>3. \A i \in 1 .. Len(wire) : wire[i] = i BY <3>1
        <4>4. \A i \in 1 .. Len(wire) + 1 : i # Len(wire) + 1 => i \in 1 .. Len(wire) BY <1>2
        <4> QED BY <4>2, <4>3, <4>4, <2>3
      <3> QED BY <3>2, <3>3 DEF SentInOrder
    <2>9. tx_slot' = IF t + Unsent' < TxSlots THEN t + Unsent' ELSE t + Unsent' - TxSlots
      <3>1. k \in 1 .. TxSlots BY <2>1, <2>2, Sizes
      <3>2. TxSlots \in Nat BY Sizes
      <3>3. (IF c + k < TxSlots THEN c + k ELSE c + k - TxSlots)
              = (IF t + (k - 1) < TxSlots THEN t + (k - 1) ELSE t + (k - 1) - TxSlots)
        BY <3>1, <3>2, <1>2, <1>4, NextSlot
      <3>4. tx_slot' = tx_slot BY <1>3
      <3> QED BY <3>3, <3>4, <2>1, <2>3
    <2>10. ASSUME NEW i \in own' PROVE slot[i].n = Len(wire') + 1 + Behind(i)'
      <3>1. i \in own /\ i # c /\ i \in TxSlot BY <1>3, <2>1
      <3>2. slot[i].n = Len(wire) + 1 + Behind(i) BY <3>1, <2>1
      <3> QED BY <3>1, <3>2, <2>3, <2>4, <1>2
    <2>11. Unsent' \in 0 .. TxSlots BY <2>1, <2>2, <2>3, Sizes
    <2> QED BY <2>6, <2>8, <2>9, <2>10, <2>11
  <1>8. /\ wire' \in Seq(Nat) /\ handed' \in Nat /\ overrun' \in BOOLEAN
        /\ tx_slot' \in TxSlot /\ own' \subseteq TxSlot /\ DOMAIN slot' = TxSlot
        /\ \A i \in own' : slot'[i].n \in Nat
    BY <1>3 DEF Sending
  <1> QED BY <1>3, <1>5, <1>7, <1>8 DEF Sending

-----------------------------------------------------------------------------
(* The queues of the sockets.                                              *)
LEMMA QueueFacts ==
  ASSUME NEW k \in Queue
  PROVE  /\ k.head \in 0 .. QueueSize - 1 /\ k.tail \in 0 .. QueueSize - 1
         /\ \A j \in Index : j \in 0 .. QueueSize - 1 /\ Deep(k, j) \in 0 .. QueueSize - 1
         /\ Deep(k, k.head) \in 0 .. QueueSize - 1
         /\ \A j \in In(k) : j \in Index /\ k.data[j] \in Nat
  <1>1. /\ k.head \in 0 .. QueueSize - 1 /\ k.tail \in 0 .. QueueSize - 1 /\ k.head \in Index
        /\ k.data \in [Index -> Nat]
    BY DEF Queue, Index
  <1>2. ASSUME NEW j \in Index PROVE j \in 0 .. QueueSize - 1 /\ Deep(k, j) \in 0 .. QueueSize - 1
    <2>1. j \in 0 .. QueueSize - 1 BY DEF Index
    <2>2. PICK t \in 0 .. QueueSize - 1 : t = k.tail BY <1>1
    <2>3. QueueSize \in Nat /\ QueueSize > 0 BY Sizes
    <2>4. Dist(QueueSize, t, j) \in 0 .. QueueSize - 1 BY <2>1, <2>3, DistFacts
    <2> QED BY <2>1, <2>2, <2>4 DEF Deep
  <1> QED BY <1>1, <1>2 DEF In

\* Ring_Buffer::push puts a value behind the others.
LEMMA PushFacts ==
  ASSUME NEW k \in Queue, NEW q \in Queue, NEW n \in Nat,
         NEW g, g = (k.head + 1) % QueueSize, g # k.tail,
         q.head = g, q.tail = k.tail, q.data[k.head] = n,
         \A j \in Index : j # k.head => q.data[j] = k.data[j]
  PROVE  /\ In(q) = In(k) \cup {k.head} /\ k.head \notin In(k)
         /\ \A j \in In(k) : q.data[j] = k.data[j] /\ Deep(k, j) < Deep(k, k.head)
         /\ \A j \in Index : Deep(q, j) = Deep(k, j)
  <1>1. PICK h, t : h = k.head /\ t = k.tail /\ g = (h + 1) % QueueSize OBVIOUS
  <1>2. /\ h \in 0 .. QueueSize - 1 /\ t \in 0 .. QueueSize - 1 /\ h \in Index /\ t \in Index
        /\ \A j \in Index : j \in 0 .. QueueSize - 1 /\ Deep(k, j) \in 0 .. QueueSize - 1
        /\ k.data \in [Index -> Nat]
    BY <1>1, QueueFacts DEF Queue
  <1>3. g = (IF h + 1 < QueueSize THEN h + 1 ELSE h + 1 - QueueSize)
    <2>1. h \in 0 .. QueueSize - 1 BY <1>2
    <2>2. h + 1 \in Nat /\ h + 1 < QueueSize + QueueSize BY <2>1, Sizes
    <2>3. (h + 1) % QueueSize = IF h + 1 < QueueSize THEN h + 1 ELSE h + 1 - QueueSize
      BY <2>1, <2>2, Wraps, Sizes
    <2> QED BY <2>3, <1>1
  <1>4. g \in Index BY <1>2, <1>3, Sizes DEF Index
  <1>9. \A j : Deep(q, j) = Deep(k, j) BY <1>1 DEF Deep
  <1>10. Deep(k, g) = Deep(k, h) + 1
    <2>1. g # t BY <1>1
    <2>2. /\ Deep(k, g) = IF g >= t THEN g - t ELSE g - t + QueueSize
          /\ Deep(k, h) = IF h >= t THEN h - t ELSE h - t + QueueSize
      BY <1>1 DEF Deep, Dist
    <2> QED BY <2>1, <2>2, <1>2, <1>3, Sizes
  <1>11. \A j \in Index : Deep(k, j) = Deep(k, h) => j = h
    <2>1. \A j \in Index : Deep(k, j) = IF j >= t THEN j - t ELSE j - t + QueueSize
      BY <1>1 DEF Deep, Dist
    <2> QED BY <2>1, <1>2, Sizes
  <1>12. In(q) = In(k) \cup {h} /\ h \notin In(k)
    <2>1. \A j \in Index : Deep(k, j) < Deep(k, h) + 1 <=> (Deep(k, j) < Deep(k, h) \/ j = h)
      BY <1>2, <1>11, Sizes
    <2>2. \A j \in Index : j \in In(q) <=> Deep(k, j) < Deep(k, h) + 1
      BY <1>9, <1>10 DEF In
    <2>3. \A j \in Index : j \in In(k) <=> Deep(k, j) < Deep(k, h) BY <1>1 DEF In
    <2>4. In(q) \subseteq Index /\ In(k) \subseteq Index BY DEF In
    <2>5. ~ (Deep(k, h) < Deep(k, h)) BY <1>2, Sizes
    <2> QED BY <2>1, <2>2, <2>3, <2>4, <2>5, <1>2
  <1>13. \A j \in In(k) : q.data[j] = k.data[j] /\ Deep(k, j) < Deep(k, h)
    <2>1. \A j \in In(k) : j \in Index /\ Deep(k, j) < Deep(k, h) BY <1>1 DEF In
    <2> QED BY <2>1, <1>1, <1>12
  <1> QED BY <1>1, <1>9, <1>12, <1>13

\* Ring_Buffer::pop takes the first value.
LEMMA PopFacts ==
  ASSUME NEW k \in Queue, k.tail # k.head, NEW q \in Queue,
         q.tail = (k.tail + 1) % QueueSize, q.head = k.head, q.data = k.data
  PROVE  /\ In(q) = In(k) \ {k.tail} /\ k.tail \in In(k)
         /\ \A j \in In(q) : Deep(k, k.tail) < Deep(k, j)
         /\ \A i, j \in In(q) : Deep(q, i) < Deep(q, j) <=> Deep(k, i) < Deep(k, j)
  <1>1. PICK h, t, u : h = k.head /\ t = k.tail /\ u = (t + 1) % QueueSize OBVIOUS
  <1>2. /\ h \in 0 .. QueueSize - 1 /\ t \in 0 .. QueueSize - 1 /\ h \in Index /\ t \in Index
        /\ \A j \in Index : j \in 0 .. QueueSize - 1 /\ Deep(k, j) \in 0 .. QueueSize - 1
    BY <1>1, QueueFacts DEF Queue
  <1>3. u = (IF t + 1 < QueueSize THEN t + 1 ELSE t + 1 - QueueSize)
    <2>1. t \in 0 .. QueueSize - 1 BY <1>2
    <2>2. t + 1 \in Nat /\ t + 1 < QueueSize + QueueSize BY <2>1, Sizes
    <2>3. (t + 1) % QueueSize = IF t + 1 < QueueSize THEN t + 1 ELSE t + 1 - QueueSize
      BY <2>1, <2>2, Wraps, Sizes
    <2> QED BY <2>3, <1>1
  <1>4. u \in Index BY <1>2, <1>3, Sizes DEF Index
  <1>6. q.head = h /\ q.tail = u BY <1>1
  <1>7. \A j \in Index : Deep(k, j) = IF j >= t THEN j - t ELSE j - t + QueueSize
    BY <1>1 DEF Deep, Dist
  <1>8. \A j \in Index : Deep(q, j) = IF j >= u THEN j - u ELSE j - u + QueueSize
    BY <1>6 DEF Deep, Dist
  <1>9. \A j \in Index : j # t => Deep(q, j) = Deep(k, j) - 1 /\ Deep(k, j) > 0
    BY <1>2, <1>3, <1>7, <1>8, Sizes
  <1>10. Deep(q, t) = QueueSize - 1 /\ Deep(k, t) = 0
    BY <1>2, <1>3, <1>7, <1>8, Sizes
  <1>11. h # t BY <1>1
  <1>12. In(q) = In(k) \ {t} /\ t \in In(k)
    <2>1. \A j \in Index : j \in In(q) <=> Deep(q, j) < Deep(q, h) BY <1>6 DEF In
    <2>2. \A j \in Index : j \in In(k) <=> Deep(k, j) < Deep(k, h) BY <1>1 DEF In
    <2>3. In(q) \subseteq Index /\ In(k) \subseteq Index BY DEF In
    <2>4. Deep(q, h) = Deep(k, h) - 1 /\ Deep(k, h) \in 1 .. QueueSize - 1 BY <1>2, <1>9, <1>11, Sizes
    <2>5. t \notin In(q) BY <2>1, <2>4, <1>2, <1>10, Sizes
    <2>6. t \in In(k) BY <2>2, <2>4, <1>2, <1>10, Sizes
    <2>7. \A j \in Index : j # t => (j \in In(q) <=> j \in In(k))
      BY <2>1, <2>2, <2>4, <1>2, <1>9, Sizes
    <2> QED BY <2>3, <2>5, <2>6, <2>7
  <1>13. \A j \in In(q) : j \in Index /\ j # t BY <1>12 DEF In
  <1>14. /\ \A j \in In(q) : Deep(k, t) < Deep(k, j)
         /\ \A i, j \in In(q) : Deep(q, i) < Deep(q, j) <=> Deep(k, i) < Deep(k, j)
    <2>1. ASSUME NEW j \in In(q)
          PROVE  Deep(k, j) \in Int /\ Deep(k, j) > 0 /\ Deep(q, j) = Deep(k, j) - 1
      <3>1. j \in Index /\ j # t BY <1>13
      <3>2. Deep(k, j) \in 0 .. QueueSize - 1 BY <3>1, <1>2
      <3>3. Deep(k, j) \in Int BY <3>2, Sizes
      <3> QED BY <3>1, <3>3, <1>9
    <2>2. ASSUME NEW i \in In(q), NEW j \in In(q)
          PROVE  Deep(k, t) < Deep(k, j) /\ (Deep(q, i) < Deep(q, j) <=> Deep(k, i) < Deep(k, j))
      <3>1. PICK x \in Int, y \in Int : x = Deep(k, i) /\ y = Deep(k, j) BY <2>1
      <3>2. y > 0 /\ Deep(q, i) = x - 1 /\ Deep(q, j) = y - 1 BY <2>1, <3>1
      <3>3. Deep(k, t) < Deep(k, j) BY <3>1, <3>2, <1>10
      <3>4. x - 1 < y - 1 <=> x < y BY <3>1
      <3> QED BY <3>1, <3>2, <3>3, <3>4
    <2> QED BY <2>2
  <1> QED BY <1>1, <1>12, <1>14

\* A datagram goes behind the others of one socket.
Pushed(k, q, n) ==
  /\ (k.head + 1) % QueueSize # k.tail
  /\ q.head = (k.head + 1) % QueueSize /\ q.tail = k.tail /\ q.data[k.head] = n
  /\ \A j \in Index : j # k.head => q.data[j] = k.data[j]

LEMMA PushQueues ==
  ASSUME Queues, NEW n \in Nat, n \notin refused, \A b \in buffers : b < n, buffers \subseteq Nat,
         NEW s \in DOMAIN sockets, NEW k, k = sockets[s],
         NEW q \in Queue, Pushed(k, q, n), sockets' = [sockets EXCEPT ![s] = q],
         got' = got, buffers' = buffers \cup {n}, refused' = refused
  PROVE  Queues'
  <1>1. sockets \in Seq(Queue) /\ k \in Queue BY DEF Queues
  <1>2. PICK h : h = k.head OBVIOUS
  <1>3. /\ In(q) = In(k) \cup {h} /\ h \notin In(k)
        /\ q.data[h] = n
        /\ \A j \in In(k) : q.data[j] = k.data[j] /\ Deep(k, j) < Deep(k, h)
        /\ \A j \in Index : Deep(q, j) = Deep(k, j)
    <2>1. /\ In(q) = In(k) \cup {k.head} /\ k.head \notin In(k)
          /\ \A j \in In(k) : q.data[j] = k.data[j] /\ Deep(k, j) < Deep(k, k.head)
          /\ \A j \in Index : Deep(q, j) = Deep(k, j)
      BY <1>1, PushFacts DEF Pushed
    <2> QED BY <2>1, <1>2 DEF Pushed
  <1>4. /\ sockets' \in Seq(Queue) /\ DOMAIN sockets' = DOMAIN sockets
        /\ sockets'[s] = q /\ \A t \in DOMAIN sockets : t # s => sockets'[t] = sockets[t]
    BY <1>1, <1>3
  <1>5. Owned' = Owned \cup {n} /\ \A b \in Owned : b \in Nat /\ b < n /\ b # n BY DEF Owned
  <1>6. ASSUME NEW t \in DOMAIN sockets, NEW j \in In(sockets'[t])
        PROVE  \/ t = s /\ j = h /\ sockets'[t].data[j] = n
               \/ j \in In(sockets[t]) /\ sockets'[t].data[j] = sockets[t].data[j]
    <2>1. CASE t = s
      <3>1. sockets'[t] = q /\ sockets[t] = k BY <2>1, <1>4
      <3> QED BY <2>1, <3>1, <1>3
    <2>2. CASE t # s BY <2>2, <1>4
    <2> QED BY <2>1, <2>2
  <1>7. ASSUME NEW t \in DOMAIN sockets, NEW j \in In(sockets[t])
        PROVE  j \in In(sockets'[t]) /\ sockets'[t].data[j] = sockets[t].data[j]
    <2>1. CASE t = s
      <3>1. sockets'[t] = q /\ sockets[t] = k BY <2>1, <1>4
      <3> QED BY <2>1, <3>1, <1>3
    <2>2. CASE t # s BY <2>2, <1>4
    <2> QED BY <2>1, <2>2
  <1>8. \A t \in DOMAIN sockets : \A j \in In(sockets[t]) : sockets[t].data[j] \in Owned BY DEF Queues
  <1>9. ASSUME NEW t \in DOMAIN sockets
        PROVE  Sorted(sockets'[t]) /\ \A j \in In(sockets'[t]) : sockets'[t].data[j] \in Owned'
    <2>1. \A j \in In(sockets'[t]) : sockets'[t].data[j] \in Owned' BY <1>5, <1>6, <1>8
    <2>2. Sorted(sockets[t]) BY DEF Queues
    <2>3. CASE t = s
      <3>1. Sorted(k) BY <2>2, <2>3
      <3>2. ASSUME NEW i \in In(q), NEW j \in In(q), Deep(q, i) < Deep(q, j)
            PROVE  q.data[i] < q.data[j]
        <4>1. i \in Index /\ j \in Index BY DEF In
        <4>2. Deep(k, i) < Deep(k, j) BY <4>1, <3>2, <1>3
        <4>3. CASE i \in In(k) /\ j \in In(k) BY <4>2, <4>3, <3>1, <1>3 DEF Sorted
        <4>4. CASE i \in In(k) /\ j = h
          <5>1. k.data[i] \in Owned BY <4>4, <1>8
          <5>2. q.data[i] = k.data[i] /\ q.data[j] = n BY <4>4, <1>3
          <5> QED BY <5>1, <5>2, <1>5
        <4>5. CASE i = h
          <5>1. /\ Deep(k, h) \in Int /\ Deep(k, j) \in Int
            BY <4>1, <4>5, <1>1, QueueFacts, Sizes
          <5>2. ~ (Deep(k, h) < Deep(k, j))
            <6>1. CASE j = h BY <6>1, <5>1
            <6>2. CASE j \in In(k) BY <6>2, <5>1, <1>3
            <6> QED BY <6>1, <6>2, <1>3
          <5> QED BY <5>2, <4>2, <4>5
        <4> QED BY <4>3, <4>4, <4>5, <1>3
      <3>3. Sorted(q) BY <3>2 DEF Sorted
      <3> QED BY <3>3, <2>1, <2>3, <1>4
    <2>4. CASE t # s BY <2>4, <2>1, <2>2, <1>4
    <2> QED BY <2>3, <2>4
  <1>10. ASSUME NEW t \in DOMAIN sockets, NEW u \in DOMAIN sockets, t # u,
                NEW i \in In(sockets'[t]), NEW j \in In(sockets'[u])
         PROVE  sockets'[t].data[i] # sockets'[u].data[j]
    <2>1. CASE i \in In(sockets[t]) /\ j \in In(sockets[u])
      <3>1. sockets[t].data[i] # sockets[u].data[j] BY <2>1, <1>10 DEF Queues
      <3> QED BY <3>1, <2>1, <1>7
    <2>2. CASE t = s /\ i = h /\ sockets'[t].data[i] = n
      <3>1. j \in In(sockets[u]) /\ sockets'[u].data[j] = sockets[u].data[j] BY <2>2, <1>6, <1>10
      <3> QED BY <3>1, <2>2, <1>5, <1>8
    <2>3. CASE u = s /\ j = h /\ sockets'[u].data[j] = n
      <3>1. i \in In(sockets[t]) /\ sockets'[t].data[i] = sockets[t].data[i] BY <2>3, <1>6, <1>10
      <3> QED BY <3>1, <2>3, <1>5, <1>8
    <2> QED BY <2>1, <2>2, <2>3, <1>6
  <1>11. \A g \in DOMAIN got' : got'[g].s \in DOMAIN sockets /\ got'[g].n \in Owned' /\ got'[g].n \in Owned
    BY <1>5 DEF Queues
  <1>12. ASSUME NEW g \in DOMAIN got, NEW t \in DOMAIN sockets, NEW j \in In(sockets'[t])
         PROVE  got[g].n # sockets'[t].data[j] /\ (got[g].s = t => got[g].n < sockets'[t].data[j])
    <2>1. CASE sockets'[t].data[j] = n BY <2>1, <1>5, <1>11
    <2>2. CASE j \in In(sockets[t]) /\ sockets'[t].data[j] = sockets[t].data[j] BY <2>2 DEF Queues
    <2> QED BY <2>1, <2>2, <1>6
  <1>13. ASSUME NEW b \in Owned'
         PROVE  \/ \E g \in DOMAIN got : got[g].n = b
                \/ \E t \in DOMAIN sockets : \E j \in In(sockets'[t]) : sockets'[t].data[j] = b
    <2>1. CASE b = n BY <2>1, <1>3, <1>4
    <2>2. CASE b \in Owned
      <3>1. \/ \E g \in DOMAIN got : got[g].n = b
            \/ \E t \in DOMAIN sockets : \E j \in In(sockets[t]) : sockets[t].data[j] = b
        BY <2>2 DEF Queues
      <3> QED BY <3>1, <1>7
    <2> QED BY <2>1, <2>2, <1>5
  <1>14. /\ got' \in Seq([s : Nat, n : Nat])
         /\ \A g, i \in DOMAIN got' : g < i =>
              got'[g].n # got'[i].n /\ (got'[g].s = got'[i].s => got'[g].n < got'[i].n)
    BY DEF Queues
  <1>15. /\ \A t \in DOMAIN sockets' :
              /\ Sorted(sockets'[t])
              /\ \A j \in In(sockets'[t]) : sockets'[t].data[j] \in Owned'
         /\ \A t, u \in DOMAIN sockets' : t # u =>
              \A i \in In(sockets'[t]), j \in In(sockets'[u]) :
                sockets'[t].data[i] # sockets'[u].data[j]
    BY <1>4, <1>9, <1>10
  <1>16. /\ \A g \in DOMAIN got' : got'[g].s \in DOMAIN sockets' /\ got'[g].n \in Owned'
         /\ \A g \in DOMAIN got', t \in DOMAIN sockets' : \A j \in In(sockets'[t]) :
              got'[g].n # sockets'[t].data[j] /\ (got'[g].s = t => got'[g].n < sockets'[t].data[j])
         /\ \A b \in Owned' :
              \/ \E g \in DOMAIN got' : got'[g].n = b
              \/ \E t \in DOMAIN sockets' : \E j \in In(sockets'[t]) : sockets'[t].data[j] = b
    BY <1>4, <1>11, <1>12, <1>13
  <1> QED BY <1>4, <1>14, <1>15, <1>16 DEF Queues

LEMMA AppendFacts ==
  ASSUME NEW S, NEW q \in Seq(S), NEW r \in S, NEW z, z = Len(q) + 1
  PROVE  /\ Append(q, r) \in Seq(S) /\ DOMAIN Append(q, r) = DOMAIN q \cup {z} /\ z \in Nat
         /\ Append(q, r)[z] = r
         /\ \A g \in DOMAIN q : Append(q, r)[g] = q[g] /\ g \in Nat /\ g < z
  <1>1. Len(q) \in Nat /\ DOMAIN q = 1 .. Len(q) OBVIOUS
  <1>2. DOMAIN Append(q, r) = 1 .. Len(q) + 1 OBVIOUS
  <1>3. Append(q, r)[Len(q) + 1] = r OBVIOUS
  <1>4. \A g \in 1 .. Len(q) : Append(q, r)[g] = q[g] OBVIOUS
  <1>5. 1 .. Len(q) + 1 = 1 .. Len(q) \cup {Len(q) + 1} BY <1>1
  <1>6. Append(q, r) \in Seq(S) OBVIOUS
  <1>7. \A g \in DOMAIN q : Append(q, r)[g] = q[g] /\ g \in Nat /\ g < Len(q) + 1 BY <1>1, <1>4
  <1> QED BY <1>1, <1>2, <1>3, <1>5, <1>6, <1>7

LEMMA StableQueues ==
  ASSUME Queues, UNCHANGED <<sockets, got>>, Owned' = Owned
  PROVE  Queues'
  BY DEF Queues

\* recv returns the first datagram of a socket, or recvfrom drops it.
LEMMA RecvQueues ==
  ASSUME Queues, NEW s \in DOMAIN sockets, NEW k, k = sockets[s], k.tail # k.head,
         NEW q \in Queue, q.tail = (k.tail + 1) % QueueSize, q.head = k.head, q.data = k.data,
         sockets' = [sockets EXCEPT ![s] = q], NEW n, n = k.data[k.tail], buffers' = buffers,
         \/ got' = Append(got, [s |-> s, n |-> n]) /\ refused' = refused
         \/ got' = got /\ refused' = refused \cup {n}
  PROVE  Queues'
  <1>1. sockets \in Seq(Queue) /\ k \in Queue BY DEF Queues
  <1>2. PICK h : h = k.tail OBVIOUS
  <1>3. /\ In(q) = In(k) \ {h} /\ h \in In(k) /\ n = k.data[h]
        /\ \A j \in In(q) : Deep(k, h) < Deep(k, j)
        /\ \A i, j \in In(q) : Deep(q, i) < Deep(q, j) <=> Deep(k, i) < Deep(k, j)
    <2>1. /\ In(q) = In(k) \ {k.tail} /\ k.tail \in In(k)
          /\ \A j \in In(q) : Deep(k, k.tail) < Deep(k, j)
          /\ \A i, j \in In(q) : Deep(q, i) < Deep(q, j) <=> Deep(k, i) < Deep(k, j)
      BY <1>1, PopFacts
    <2> QED BY <2>1, <1>2
  <1>4. /\ sockets' \in Seq(Queue) /\ DOMAIN sockets' = DOMAIN sockets
        /\ sockets'[s] = q /\ \A t \in DOMAIN sockets : t # s => sockets'[t] = sockets[t]
    BY <1>1
  <1>5. /\ \A t \in DOMAIN sockets : \A j \in In(sockets[t]) : sockets[t].data[j] \in Owned
        /\ \A t \in DOMAIN sockets : Sorted(sockets[t])
    BY DEF Queues
  <1>6. n \in Owned /\ s \in Nat /\ n \in Nat /\ n = sockets[s].data[h] /\ h \in In(sockets[s])
    <2>1. n \in Nat BY <1>1, <1>3, QueueFacts
    <2> QED BY <2>1, <1>1, <1>3, <1>5
  <1>7. ASSUME NEW t \in DOMAIN sockets, NEW j \in In(sockets'[t])
        PROVE  /\ j \in In(sockets[t]) /\ sockets'[t].data[j] = sockets[t].data[j]
               /\ sockets[t].data[j] # n
    <2>1. CASE t = s
      <3>1. sockets'[t] = q /\ sockets[t] = k BY <2>1, <1>4
      <3>2. j \in In(k) /\ Deep(k, h) < Deep(k, j) BY <3>1, <1>3
      <3>3. Sorted(k) BY <1>5, <3>1
      <3>4. n < k.data[j] BY <3>2, <3>3, <1>3 DEF Sorted
      <3>5. k.data[j] # n BY <3>4, <1>6
      <3> QED BY <3>1, <3>2, <3>5
    <2>2. CASE t # s
      <3>1. sockets'[t] = sockets[t] BY <2>2, <1>4
      <3>2. sockets[t].data[j] # sockets[s].data[h] BY <3>1, <2>2, <1>6 DEF Queues
      <3> QED BY <3>1, <3>2, <1>6
    <2> QED BY <2>1, <2>2
  <1>8. ASSUME NEW t \in DOMAIN sockets, NEW j \in In(sockets[t]), sockets[t].data[j] # n
        PROVE  j \in In(sockets'[t]) /\ sockets'[t].data[j] = sockets[t].data[j]
    <2>1. CASE t = s
      <3>1. sockets'[t] = q /\ sockets[t] = k BY <2>1, <1>4
      <3> QED BY <3>1, <1>3, <1>8
    <2>2. CASE t # s BY <2>2, <1>4
    <2> QED BY <2>1, <2>2
  <1>9. ASSUME NEW t \in DOMAIN sockets PROVE Sorted(sockets'[t])
    <2>1. CASE t = s
      <3>1. sockets'[t] = q /\ Sorted(k) BY <2>1, <1>4, <1>5
      <3>2. Sorted(q) BY <3>1, <1>3 DEF Sorted
      <3> QED BY <3>1, <3>2
    <2>2. CASE t # s BY <2>2, <1>4, <1>5
    <2> QED BY <2>1, <2>2
  <1>10. /\ got \in Seq([s : Nat, n : Nat])
         /\ \A g \in DOMAIN got : got[g].s \in DOMAIN sockets /\ got[g].n \in Owned
         /\ \A g \in DOMAIN got : got[g].n # n /\ (got[g].s = s => got[g].n < n)
    BY <1>6 DEF Queues
  <1>11. ASSUME NEW t \in DOMAIN sockets, NEW u \in DOMAIN sockets, t # u,
                NEW i \in In(sockets'[t]), NEW j \in In(sockets'[u])
         PROVE  sockets'[t].data[i] # sockets'[u].data[j]
    <2>1. /\ i \in In(sockets[t]) /\ sockets'[t].data[i] = sockets[t].data[i]
          /\ j \in In(sockets[u]) /\ sockets'[u].data[j] = sockets[u].data[j]
      BY <1>7
    <2>2. sockets[t].data[i] # sockets[u].data[j] BY <2>1, <1>11 DEF Queues
    <2> QED BY <2>1, <2>2
  <1>12. ASSUME NEW g \in DOMAIN got, NEW t \in DOMAIN sockets, NEW j \in In(sockets'[t])
         PROVE  got[g].n # sockets'[t].data[j] /\ (got[g].s = t => got[g].n < sockets'[t].data[j])
    <2>1. j \in In(sockets[t]) /\ sockets'[t].data[j] = sockets[t].data[j] BY <1>7
    <2>2. got[g].n # sockets[t].data[j] /\ (got[g].s = t => got[g].n < sockets[t].data[j])
      BY <2>1 DEF Queues
    <2> QED BY <2>1, <2>2
  <1>13. CASE got' = got /\ refused' = refused \cup {n}
    <2>1. Owned' = Owned \ {n} /\ got' = got BY <1>13 DEF Owned
    <2>2. /\ \A t \in DOMAIN sockets' :
               /\ Sorted(sockets'[t])
               /\ \A j \in In(sockets'[t]) : sockets'[t].data[j] \in Owned'
          /\ \A t, u \in DOMAIN sockets' : t # u =>
               \A i \in In(sockets'[t]), j \in In(sockets'[u]) :
                 sockets'[t].data[i] # sockets'[u].data[j]
      BY <2>1, <1>4, <1>5, <1>7, <1>9, <1>11
    <2>3. /\ \A g \in DOMAIN got' : got'[g].s \in DOMAIN sockets' /\ got'[g].n \in Owned'
          /\ \A g \in DOMAIN got', t \in DOMAIN sockets' : \A j \in In(sockets'[t]) :
               got'[g].n # sockets'[t].data[j] /\ (got'[g].s = t => got'[g].n < sockets'[t].data[j])
      BY <2>1, <1>4, <1>10, <1>12
    <2>4. ASSUME NEW b \in Owned'
          PROVE  \/ \E g \in DOMAIN got' : got'[g].n = b
                 \/ \E t \in DOMAIN sockets' : \E j \in In(sockets'[t]) : sockets'[t].data[j] = b
      <3>1. b \in Owned /\ b # n BY <2>1
      <3>2. \/ \E g \in DOMAIN got : got[g].n = b
            \/ \E t \in DOMAIN sockets : \E j \in In(sockets[t]) : sockets[t].data[j] = b
        BY <3>1 DEF Queues
      <3> QED BY <3>1, <3>2, <2>1, <1>4, <1>8
    <2>5. /\ got' \in Seq([s : Nat, n : Nat])
          /\ \A g, i \in DOMAIN got' : g < i =>
               got'[g].n # got'[i].n /\ (got'[g].s = got'[i].s => got'[g].n < got'[i].n)
      BY <2>1 DEF Queues
    <2> QED BY <2>2, <2>3, <2>4, <2>5, <1>4 DEF Queues
  <1>14. CASE got' = Append(got, [s |-> s, n |-> n]) /\ refused' = refused
    <2>1. Owned' = Owned BY <1>14 DEF Owned
    <2>2. PICK z : z = Len(got) + 1 OBVIOUS
    <2>3. PICK r : r = [s |-> s, n |-> n] OBVIOUS
    <2>4. r \in [s : Nat, n : Nat] /\ r.s = s /\ r.n = n BY <2>3, <1>6
    <2>5. /\ got' \in Seq([s : Nat, n : Nat]) /\ DOMAIN got' = DOMAIN got \cup {z} /\ z \in Nat
          /\ got'[z] = r /\ \A g \in DOMAIN got : got'[g] = got[g] /\ g < z /\ g \in Nat
      <3>1. got' = Append(got, r) BY <2>3, <1>14
      <3> QED BY <3>1, <2>2, <2>4, <1>10, AppendFacts
    <2>6. /\ \A t \in DOMAIN sockets' :
               /\ Sorted(sockets'[t])
               /\ \A j \in In(sockets'[t]) : sockets'[t].data[j] \in Owned'
          /\ \A t, u \in DOMAIN sockets' : t # u =>
               \A i \in In(sockets'[t]), j \in In(sockets'[u]) :
                 sockets'[t].data[i] # sockets'[u].data[j]
      BY <2>1, <1>4, <1>5, <1>7, <1>9, <1>11
    <2>7. \A g \in DOMAIN got' : got'[g].s \in DOMAIN sockets' /\ got'[g].n \in Owned'
      BY <2>1, <2>4, <2>5, <1>4, <1>6, <1>10
    <2>8. ASSUME NEW g \in DOMAIN got', NEW t \in DOMAIN sockets', NEW j \in In(sockets'[t])
          PROVE  got'[g].n # sockets'[t].data[j] /\ (got'[g].s = t => got'[g].n < sockets'[t].data[j])
      <3>1. CASE g \in DOMAIN got
        <4>1. got'[g] = got[g] BY <3>1, <2>5
        <4> QED BY <4>1, <3>1, <1>4, <1>12
      <3>2. CASE g = z
        <4>1. got'[g].n = n /\ got'[g].s = s BY <3>2, <2>4, <2>5
        <4>2. j \in In(sockets[t]) /\ sockets'[t].data[j] = sockets[t].data[j] /\ sockets[t].data[j] # n
          BY <1>4, <1>7
        <4>3. ASSUME t = s PROVE n < sockets'[t].data[j]
          <5>1. sockets'[t] = q /\ sockets[t] = k BY <4>3, <1>4
          <5>2. j \in In(k) /\ Deep(k, h) < Deep(k, j) BY <5>1, <1>3
          <5>3. Sorted(k) BY <1>5, <5>1, <4>3
          <5>4. n < k.data[j] BY <5>2, <5>3, <1>3 DEF Sorted
          <5> QED BY <5>1, <5>4
        <4> QED BY <4>1, <4>2, <4>3
      <3> QED BY <3>1, <3>2, <2>5
    <2>9. ASSUME NEW b \in Owned'
          PROVE  \/ \E g \in DOMAIN got' : got'[g].n = b
                 \/ \E t \in DOMAIN sockets' : \E j \in In(sockets'[t]) : sockets'[t].data[j] = b
      <3>1. \/ \E g \in DOMAIN got : got[g].n = b
            \/ \E t \in DOMAIN sockets : \E j \in In(sockets[t]) : sockets[t].data[j] = b
        BY <2>1 DEF Queues
      <3>2. CASE b = n BY <3>2, <2>4, <2>5
      <3>3. CASE b # n /\ \E g \in DOMAIN got : got[g].n = b BY <3>3, <2>5
      <3>4. CASE b # n /\ \E t \in DOMAIN sockets : \E j \in In(sockets[t]) : sockets[t].data[j] = b
        BY <3>4, <1>4, <1>8
      <3> QED BY <3>1, <3>2, <3>3, <3>4
    <2>10. ASSUME NEW g \in DOMAIN got', NEW i \in DOMAIN got', g < i
           PROVE  got'[g].n # got'[i].n /\ (got'[g].s = got'[i].s => got'[g].n < got'[i].n)
      <3>1. g \in DOMAIN got
        <4>1. g # z BY <2>5, <2>10
        <4> QED BY <4>1, <2>5
      <3>2. CASE i \in DOMAIN got
        <4>1. got'[g] = got[g] /\ got'[i] = got[i] BY <3>1, <3>2, <2>5
        <4>2. got[g].n # got[i].n /\ (got[g].s = got[i].s => got[g].n < got[i].n)
          BY <3>1, <3>2, <2>10 DEF Queues
        <4> QED BY <4>1, <4>2
      <3>3. CASE i = z
        <4>1. got'[g] = got[g] /\ got'[i].n = n /\ got'[i].s = s BY <3>1, <3>3, <2>4, <2>5
        <4> QED BY <4>1, <3>1, <1>10
      <3> QED BY <3>2, <3>3, <2>5
    <2> QED BY <2>5, <2>6, <2>7, <2>8, <2>9, <2>10, <1>4 DEF Queues
  <1> QED BY <1>13, <1>14

\* New or bound sockets: what is in the queues stays there.
LEMMA SameQueues ==
  ASSUME Queues, UNCHANGED <<got, buffers, refused>>, sockets' \in Seq(Queue),
         DOMAIN sockets \subseteq DOMAIN sockets',
         \A t \in DOMAIN sockets :
           /\ In(sockets'[t]) = In(sockets[t]) /\ Sorted(sockets'[t])
           /\ sockets'[t].data = sockets[t].data,
         \A t \in DOMAIN sockets' \ DOMAIN sockets : In(sockets'[t]) = {}
  PROVE  Queues'
  <1>1. Owned' = Owned /\ got' = got BY DEF Owned
  <1>2. ASSUME NEW t \in DOMAIN sockets', NEW j \in In(sockets'[t])
        PROVE  t \in DOMAIN sockets /\ j \in In(sockets[t]) /\ sockets'[t].data[j] = sockets[t].data[j]
    OBVIOUS
  <1>3. ASSUME NEW t \in DOMAIN sockets'
        PROVE  Sorted(sockets'[t]) /\ \A j \in In(sockets'[t]) : sockets'[t].data[j] \in Owned'
    <2>1. \A j \in In(sockets'[t]) : sockets'[t].data[j] \in Owned' BY <1>1, <1>2 DEF Queues
    <2>2. CASE t \in DOMAIN sockets BY <2>1, <2>2
    <2>3. CASE t \notin DOMAIN sockets
      <3>1. In(sockets'[t]) = {} BY <2>3
      <3>2. Sorted(sockets'[t]) BY <3>1 DEF Sorted
      <3> QED BY <3>1, <3>2
    <2> QED BY <2>2, <2>3
  <1>4. ASSUME NEW t \in DOMAIN sockets', NEW u \in DOMAIN sockets', t # u,
               NEW i \in In(sockets'[t]), NEW j \in In(sockets'[u])
        PROVE  sockets'[t].data[i] # sockets'[u].data[j]
    <2>1. /\ t \in DOMAIN sockets /\ i \in In(sockets[t]) /\ sockets'[t].data[i] = sockets[t].data[i]
          /\ u \in DOMAIN sockets /\ j \in In(sockets[u]) /\ sockets'[u].data[j] = sockets[u].data[j]
      BY <1>2
    <2>2. sockets[t].data[i] # sockets[u].data[j] BY <2>1, <1>4 DEF Queues
    <2> QED BY <2>1, <2>2
  <1>5. ASSUME NEW g \in DOMAIN got', NEW t \in DOMAIN sockets', NEW j \in In(sockets'[t])
        PROVE  got'[g].n # sockets'[t].data[j] /\ (got'[g].s = t => got'[g].n < sockets'[t].data[j])
    <2>1. t \in DOMAIN sockets /\ j \in In(sockets[t]) /\ sockets'[t].data[j] = sockets[t].data[j] BY <1>2
    <2>2. got[g].n # sockets[t].data[j] /\ (got[g].s = t => got[g].n < sockets[t].data[j])
      BY <2>1, <1>1 DEF Queues
    <2> QED BY <2>1, <2>2, <1>1
  <1>6. ASSUME NEW b \in Owned'
        PROVE  \/ \E g \in DOMAIN got' : got'[g].n = b
               \/ \E t \in DOMAIN sockets' : \E j \in In(sockets'[t]) : sockets'[t].data[j] = b
    <2>1. \/ \E g \in DOMAIN got : got[g].n = b
          \/ \E t \in DOMAIN sockets : \E j \in In(sockets[t]) : sockets[t].data[j] = b
      BY <1>1 DEF Queues
    <2>2. CASE \E g \in DOMAIN got : got[g].n = b BY <2>2, <1>1
    <2>3. CASE \E t \in DOMAIN sockets : \E j \in In(sockets[t]) : sockets[t].data[j] = b
      <3>1. PICK t \in DOMAIN sockets : \E j \in In(sockets[t]) : sockets[t].data[j] = b BY <2>3
      <3>2. PICK j \in In(sockets[t]) : sockets[t].data[j] = b BY <3>1
      <3>3. t \in DOMAIN sockets' /\ j \in In(sockets'[t]) /\ sockets'[t].data[j] = b BY <3>2
      <3> QED BY <3>3
    <2> QED BY <2>1, <2>2, <2>3
  <1>7. /\ got' \in Seq([s : Nat, n : Nat])
        /\ \A g, i \in DOMAIN got' : g < i =>
             got'[g].n # got'[i].n /\ (got'[g].s = got'[i].s => got'[g].n < got'[i].n)
        /\ \A g \in DOMAIN got' : got'[g].s \in DOMAIN sockets' /\ got'[g].n \in Owned'
    BY <1>1 DEF Queues
  <1> QED BY <1>3, <1>4, <1>5, <1>6, <1>7 DEF Queues

\* A new socket has nothing in its queue.
LEMMA CreateQueues ==
  ASSUME Queues, sockets' = Append(sockets, Socket(Len(sockets))), UNCHANGED <<got, buffers, refused>>
  PROVE  Queues'
  <1>1. sockets \in Seq(Queue) /\ \A t \in DOMAIN sockets : Sorted(sockets[t]) BY DEF Queues
  <1>2. PICK k, z : k = Socket(Len(sockets)) /\ z = Len(sockets) + 1 OBVIOUS
  <1>3. k \in Queue /\ k.head = 0 /\ k.tail = 0
    <2>1. Len(sockets) \in Nat /\ 0 \in Index BY <1>1, Sizes DEF Index
    <2>2. k = [num |-> Len(sockets), local_port |-> 0, data |-> [i \in Index |-> 0], head |-> 0, tail |-> 0]
      BY <1>2 DEF Socket, Index
    <2> QED BY <2>1, <2>2 DEF Queue
  <1>4. In(k) = {}
    <2> SUFFICES ASSUME NEW j \in In(k) PROVE FALSE OBVIOUS
    <2>1. j \in Index /\ Deep(k, j) < Deep(k, 0) BY <1>3 DEF In
    <2>2. Deep(k, j) \in 0 .. QueueSize - 1 BY <2>1, <1>3, QueueFacts
    <2>3. Deep(k, 0) = 0 BY <1>3 DEF Deep, Dist
    <2> QED BY <2>1, <2>2, <2>3, Sizes
  <1>5. /\ sockets' \in Seq(Queue) /\ DOMAIN sockets' = DOMAIN sockets \cup {z}
        /\ sockets'[z] = k /\ \A t \in DOMAIN sockets : sockets'[t] = sockets[t]
    <2>1. sockets' = Append(sockets, k) BY <1>2
    <2> QED BY <2>1, <1>1, <1>2, <1>3, AppendFacts
  <1>6. /\ \A t \in DOMAIN sockets :
             /\ In(sockets'[t]) = In(sockets[t]) /\ Sorted(sockets'[t])
             /\ sockets'[t].data = sockets[t].data
        /\ \A t \in DOMAIN sockets' \ DOMAIN sockets : In(sockets'[t]) = {}
    BY <1>1, <1>4, <1>5
  <1> QED BY <1>5, <1>6, SameQueues

LEMMA BindQueues ==
  ASSUME Queues, NEW s \in DOMAIN sockets, NEW p \in Ports,
         sockets' = [sockets EXCEPT ![s].local_port = p], UNCHANGED <<got, buffers, refused>>
  PROVE  Queues'
  <1>1. sockets \in Seq(Queue) /\ \A t \in DOMAIN sockets : Sorted(sockets[t]) BY DEF Queues
  <1>2. PICK q : q = [sockets[s] EXCEPT !.local_port = p] OBVIOUS
  <1>3. /\ q \in Queue /\ q.data = sockets[s].data /\ q.head = sockets[s].head
        /\ q.tail = sockets[s].tail
    <2>1. sockets[s] \in Queue BY <1>1
    <2> QED BY <2>1, <1>2 DEF Queue
  <1>4. /\ sockets' \in Seq(Queue) /\ DOMAIN sockets' = DOMAIN sockets
        /\ sockets'[s] = q /\ \A t \in DOMAIN sockets : t # s => sockets'[t] = sockets[t]
    <2>1. sockets' = [sockets EXCEPT ![s] = q] BY <1>2
    <2> QED BY <2>1, <1>1, <1>3
  <1>5. ASSUME NEW t \in DOMAIN sockets
        PROVE  /\ In(sockets'[t]) = In(sockets[t]) /\ Sorted(sockets'[t])
               /\ sockets'[t].data = sockets[t].data
    <2>1. CASE t = s
      <3>1. /\ sockets'[t].data = sockets[t].data /\ sockets'[t].head = sockets[t].head
            /\ sockets'[t].tail = sockets[t].tail
        BY <2>1, <1>3, <1>4
      <3>2. \A j : Deep(sockets'[t], j) = Deep(sockets[t], j) BY <3>1 DEF Deep
      <3>3. In(sockets'[t]) = In(sockets[t]) BY <3>1, <3>2 DEF In
      <3>4. Sorted(sockets[t]) BY <1>1
      <3> QED BY <3>1, <3>2, <3>3, <3>4 DEF Sorted
    <2>2. CASE t # s BY <2>2, <1>1, <1>4
    <2> QED BY <2>1, <2>2
  <1>6. DOMAIN sockets' \ DOMAIN sockets = {} BY <1>4
  <1> QED BY <1>4, <1>5, <1>6, SameQueues

LEMMA PushIs ==
  ASSUME sockets \in Seq(Queue), NEW s \in DOMAIN sockets, NEW n \in Nat, ~ Full(s), Push(s, n),
         NEW k, k = sockets[s]
  PROVE  \E q \in Queue : Pushed(k, q, n) /\ sockets' = [sockets EXCEPT ![s] = q]
  <1>1. PICK h, g, d : /\ h = k.head /\ g = (h + 1) % QueueSize
                       /\ d = [k.data EXCEPT ![h] = n]
    OBVIOUS
  <1>2. PICK p : p = [k EXCEPT !.data = d] OBVIOUS
  <1>3. PICK q : q = [p EXCEPT !.head = g] OBVIOUS
  <1>4. k \in Queue /\ h \in 0 .. QueueSize - 1 /\ h \in Index /\ k.data \in [Index -> Nat]
    <2>1. k \in Queue OBVIOUS
    <2>2. k.head \in Index /\ k.data \in [Index -> Nat] BY <2>1 DEF Queue
    <2>3. h \in 0 .. QueueSize - 1 BY <2>2, <1>1 DEF Index
    <2> QED BY <2>1, <2>2, <2>3, <1>1
  <1>5. g \in Index
    <2>1. (h + 1) % QueueSize \in 0 .. QueueSize - 1 BY <1>4, Sizes
    <2> QED BY <2>1, <1>1 DEF Index
  <1>6. d \in [Index -> Nat] /\ d[h] = n /\ \A j \in Index : j # h => d[j] = k.data[j]
    BY <1>1, <1>4
  <1>7. p \in Queue /\ p.data = d /\ p.tail = k.tail BY <1>2, <1>4, <1>6 DEF Queue
  <1>8. q \in Queue /\ q.data = d /\ q.tail = k.tail /\ q.head = g BY <1>3, <1>5, <1>7 DEF Queue
  <1>9. sockets' = [sockets EXCEPT ![s] = q]
    <2>1. sockets' = [sockets EXCEPT ![s].data[sockets[s].head] = n, ![s].head = (@ + 1) % QueueSize]
      BY DEF Push
    <2>2. sockets' = [sockets EXCEPT ![s].data[h] = n, ![s].head = g]
      BY <2>1, <1>1, <1>4
    <2> QED BY <2>2, <1>1, <1>2, <1>3, <1>4
  <1>10. g # k.tail BY <1>1 DEF Full
  <1>11. Pushed(k, q, n) BY <1>1, <1>6, <1>8, <1>10 DEF Pushed
  <1> QED BY <1>8, <1>9, <1>11

-----------------------------------------------------------------------------
(* The actions.                                                            *)
LEMMA InitInv == Init => IInv
  <1> SUFFICES ASSUME Init PROVE IInv OBVIOUS
  <1>1. Ring({}) /\ 0 \in 0 .. RxSize - 1 BY Sizes DEF Init, Ring, Off
  <1>2. Heard({})
    <2>1. mac \in [Peers -> Addresses] BY DEF Init, Addresses
    <2>2. cache \in Seq(Entries) /\ DOMAIN cache = {} /\ missed = 0 BY DEF Init
    <2> QED BY <2>1, <2>2 DEF Heard
  <1>3. Datagrams({}) BY DEF Init, Datagrams
  <1>4. Queues
    <2>1. /\ sockets \in Seq(Queue) /\ DOMAIN sockets = {} /\ Owned = {}
          /\ got \in Seq([s : Nat, n : Nat]) /\ DOMAIN got = {}
      BY DEF Init, Owned
    <2> QED BY <2>1 DEF Queues
  <1>5. Sending
    <2>1. /\ wire = <<>> /\ Len(wire) = 0 /\ handed = 0 /\ own = {} /\ tx_slot = 0 /\ tx_card = 0
          /\ DOMAIN slot = TxSlot /\ ~ overrun /\ overrun \in BOOLEAN
      BY DEF Init, TxSlot
    <2>2. 0 \in TxSlot /\ 0 \in 0 .. TxSlots BY Sizes DEF TxSlot
    <2>3. Cardinality(own) = 0 /\ Unsent = 0
      <3>1. Cardinality(own) = 0 BY <2>1, FS_EmptySet
      <3>2. PICK l, h : l = Len(wire) /\ h = handed /\ l = 0 /\ h = 0 BY <2>1
      <3>3. h - l = 0 BY <3>2
      <3>4. Unsent = h - l BY <3>2 DEF Unsent
      <3> QED BY <3>1, <3>3, <3>4
    <2>4. SentInOrder
      <3>1. wire = [i \in 1 .. Len(wire) |-> i] BY <2>1
      <3> QED BY <3>1, <2>1, <2>3 DEF SentInOrder
    <2>5. own = {i \in TxSlot : Behind(i) < Unsent}
      <3>1. \A i \in TxSlot : Behind(i) = i /\ ~ (i < 0) BY <2>1, Sizes DEF Behind, Dist, TxSlot
      <3> QED BY <3>1, <2>1, <2>3
    <2>6. wire \in Seq(Nat) BY <2>1
    <2> QED BY <2>1, <2>2, <2>3, <2>4, <2>5, <2>6, Sizes DEF Sending
  <1> QED BY <1>1, <1>2, <1>3, <1>4, <1>5 DEF IInv, Reading

LEMMA StableSending ==
  ASSUME Sending, UNCHANGED <<slot, own, tx_slot, handed, overrun, tx_card, wire>>
  PROVE  Sending'
  <1>1. SentInOrder' <=> SentInOrder BY DEF SentInOrder
  <1>2. Unsent' = Unsent /\ \A i : Behind(i)' = Behind(i) BY DEF Unsent, Behind
  <1> QED BY <1>1, <1>2 DEF Sending

LEMMA PeersInv ==
  ASSUME IInv, NEW p \in Peers, Ask(p) \/ Ping(p) \/ Answer(p) \/ Datagram(p)
  PROVE  IInv'
  <1>1. PICK U \in SUBSET Off : Ring(U) /\ Heard(U) /\ Datagrams(U) BY DEF IInv, Reading
  <1>2. mac \in [Peers -> Addresses] BY <1>1 DEF Heard
  <1>3. PICK f : /\ Arrive(f) /\ mac' \in [Peers -> Addresses]
                 /\ \A r \in Peers : mac'[r] = mac[r] \/ (IsTelling(f) /\ f.from = r)
                 /\ IsTelling(f) => f.from \in Peers /\ f.mac = mac'[f.from]
                 /\ f.kind = "udp" => f.n = arrived + 1
    <2>1. CASE Ask(p)
      <3>1. PICK m \in Macs : /\ mac' = [mac EXCEPT ![p] = m]
                              /\ Arrive([kind |-> "request", from |-> p, mac |-> m])
        BY <2>1 DEF Ask
      <3>2. PICK f : f = [kind |-> "request", from |-> p, mac |-> m] OBVIOUS
      <3>3. f.kind = "request" /\ f.from = p /\ f.mac = m /\ IsTelling(f) BY <3>2 DEF IsTelling
      <3>4. mac' \in [Peers -> Addresses] /\ mac'[p] = m /\ \A r \in Peers : r # p => mac'[r] = mac[r]
        BY <3>1, <1>2 DEF Addresses
      <3> QED BY <3>1, <3>2, <3>3, <3>4
    <2>2. CASE Answer(p)
      <3>1. PICK f : f = [kind |-> "reply", from |-> p, mac |-> mac[p]] OBVIOUS
      <3>2. f.kind = "reply" /\ f.from = p /\ f.mac = mac[p] BY <3>1
      <3>3. Arrive(f) /\ mac' = mac BY <2>2, <3>1 DEF Answer
      <3> QED BY <3>2, <3>3, <1>2
    <2>3. CASE Ping(p)
      <3>1. PICK f : f = [kind |-> "ping", from |-> p, mac |-> mac[p]] OBVIOUS
      <3>2. f.kind = "ping" /\ ~ IsTelling(f) BY <3>1 DEF IsTelling
      <3>3. Arrive(f) /\ mac' = mac BY <2>3, <3>1 DEF Ping
      <3> QED BY <3>2, <3>3, <1>2
    <2>4. CASE Datagram(p)
      <3>1. PICK q \in Ports : /\ Arrive([kind |-> "udp", from |-> p, port |-> q, n |-> arrived + 1])
                               /\ mac' = mac
        BY <2>4 DEF Datagram
      <3>2. PICK f : f = [kind |-> "udp", from |-> p, port |-> q, n |-> arrived + 1] OBVIOUS
      <3>3. f.kind = "udp" /\ f.n = arrived + 1 /\ ~ IsTelling(f) BY <3>2 DEF IsTelling
      <3> QED BY <3>1, <3>2, <3>3, <1>2
    <2> QED BY <2>1, <2>2, <2>3, <2>4
  <1>4. Reading' BY <1>1, <1>3, ArriveReading
  <1>5. UNCHANGED <<sockets, got, buffers, refused, slot, own, tx_slot, handed, overrun, tx_card, wire>>
    BY <1>3 DEF Arrive, sender, udp
  <1>6. Queues'
    <2>1. Owned' = Owned BY <1>5 DEF Owned
    <2> QED BY <2>1, <1>5, StableQueues DEF IInv
  <1>7. Sending' BY <1>5, StableSending DEF IInv
  <1> QED BY <1>4, <1>6, <1>7 DEF IInv

LEMMA ReceiveInv ==
  ASSUME IInv, Receive
  PROVE  IInv'
  <1>1. PICK U \in SUBSET Off : Ring(U) /\ Heard(U) /\ Datagrams(U) BY DEF IInv, Reading
  <1>2. PICK f : f = rx[rx_offset].frame OBVIOUS
  <1>3. /\ ReceiveRequest(f) \/ ReceiveReply(f) \/ ReceiveEcho(f) \/ ReceiveUdp(f)
        /\ rx_offset' = NextHeader(rx_offset, rx[rx_offset].length)
        /\ put # rx_offset /\ UNCHANGED <<rx, put, mac, arrived, missed, tx_card, wire>>
    BY <1>2 DEF Receive, Unread, card, peers
  <1>4. Queues /\ Sending BY DEF IInv
  <1>5. rx_offset \in U BY <1>1, <1>3 DEF Ring
  <1>6. CASE ReceiveRequest(f) \/ ReceiveReply(f) \/ ReceiveEcho(f)
    <2>1. /\ f.kind # "udp" /\ UNCHANGED <<sockets, got, buffers, refused>>
          /\ IF IsTelling(f) THEN Learn(f.from, f.mac) ELSE cache' = cache
      BY <1>6 DEF ReceiveRequest, ReceiveReply, ReceiveEcho, IsTelling, udp
    <2>2. Reading' BY <1>1, <1>2, <1>3, <2>1, ReceiveReading
    <2>3. Queues'
      <3>1. Owned' = Owned BY <2>1 DEF Owned
      <3> QED BY <3>1, <2>1, <1>4, StableQueues
    <2>4. Sending'
      <3>1. CASE ReceiveRequest(f) \/ ReceiveEcho(f)
        BY <3>1, <1>3, <1>4, SendSending DEF ReceiveRequest, ReceiveEcho
      <3>2. CASE ReceiveReply(f)
        BY <3>2, <1>3, <1>4, StableSending DEF ReceiveReply, sender
      <3> QED BY <3>1, <3>2, <1>6
    <2> QED BY <2>2, <2>3, <2>4 DEF IInv
  <1>7. CASE ReceiveUdp(f)
    <2>1. PICK n : n = f.n OBVIOUS
    <2>2. /\ n \in Nat /\ \A b \in buffers : b < n
          /\ buffers \subseteq Nat /\ refused \subseteq buffers
      <3>1. f.kind = "udp" BY <1>7 DEF ReceiveUdp
      <3>2. n \in 1 .. arrived /\ \A b \in buffers : b < n
        BY <3>1, <2>1, <1>1, <1>2, <1>5 DEF Datagrams, IsUdp
      <3> QED BY <3>2, <1>1 DEF Datagrams
    <2>3. n \notin buffers /\ n \notin refused
      <3>1. n \notin buffers
        <4> SUFFICES ASSUME n \in buffers PROVE FALSE OBVIOUS
        <4>1. n < n BY <2>2
        <4> QED BY <4>1, <2>2
      <3> QED BY <3>1, <2>2
    <2> DEFINE I == {j \in DOMAIN sockets : sockets[j].local_port = f.port}
    <2>4. PICK s : s = FirstOf(I) OBVIOUS
    <2>5. /\ IF s = 0 THEN refused' = refused \cup {n} /\ UNCHANGED sockets
             ELSE Push(s, n) /\ refused' = IF Full(s) THEN refused \cup {n} ELSE refused
          /\ buffers' = buffers \cup {n}
          /\ UNCHANGED <<slot, own, tx_slot, handed, overrun, cache, got>>
      BY <1>7, <2>1, <2>4 DEF ReceiveUdp, sender
    <2>6. sockets \in Seq(Queue) BY <1>4 DEF Queues
    <2>7. s # 0 => s \in DOMAIN sockets
      <3>1. I \in SUBSET Nat BY <2>6
      <3> QED BY <3>1, <2>4, FirstOfFacts
    <2>8. Reading'
      <3>1. f.kind = "udp" /\ ~ IsTelling(f) BY <1>7 DEF ReceiveUdp, IsTelling
      <3>2. refused' \in {refused, refused \cup {n}} BY <2>5
      <3> QED BY <3>1, <3>2, <2>1, <2>5, <1>1, <1>2, <1>3, ReceiveReading
    <2>9. Sending' BY <2>5, <1>3, <1>4, StableSending
    <2>10. Queues'
      <3>1. CASE refused' = refused \cup {n} /\ UNCHANGED sockets
        <4>1. Owned' = Owned BY <3>1, <2>3, <2>5 DEF Owned
        <4> QED BY <4>1, <3>1, <2>5, <1>4, StableQueues
      <3>2. CASE s # 0 /\ ~ Full(s)
        <4>1. PICK k : k = sockets[s] OBVIOUS
        <4>2. Push(s, n) /\ refused' = refused /\ s \in DOMAIN sockets BY <3>2, <2>5, <2>7
        <4>3. PICK q \in Queue : Pushed(k, q, n) /\ sockets' = [sockets EXCEPT ![s] = q]
          BY <4>1, <4>2, <3>2, <2>2, <2>6, PushIs
        <4>4. Queues /\ n \in Nat /\ n \notin refused /\ buffers \subseteq Nat /\ s \in DOMAIN sockets
          BY <1>4, <2>2, <2>3, <4>2
        <4>5. \A b \in buffers : b < n BY <2>2
        <4>6. got' = got /\ buffers' = buffers \cup {n} /\ refused' = refused BY <2>5, <4>2
        <4> QED BY <4>1, <4>3, <4>4, <4>5, <4>6, PushQueues
      <3>3. s # 0 /\ Full(s) => UNCHANGED sockets BY <2>5 DEF Push
      <3> QED BY <3>1, <3>2, <3>3, <2>5
    <2> QED BY <2>8, <2>9, <2>10 DEF IInv
  <1> QED BY <1>3, <1>6, <1>7

LEMMA ProgramInv ==
  ASSUME IInv, Program
  PROVE  IInv'
  <1>1. PICK U \in SUBSET Off : Ring(U) /\ Heard(U) /\ Datagrams(U) BY DEF IInv, Reading
  <1>2. Queues /\ Sending /\ Reading /\ sockets \in Seq(Queue) /\ refused \subseteq buffers
    BY <1>1 DEF IInv, Queues, Datagrams
  <1>3. CASE \E p \in Peers : Sendto(p)
    <2>1. PICK p \in Peers : Sendto(p) BY <1>3
    <2>2. /\ \E m : Send("data", p, m) \/ Send("ask", p, m)
          /\ UNCHANGED <<rx, put, rx_offset, cache, mac, arrived, missed, buffers, refused, sockets, got>>
          /\ UNCHANGED <<tx_card, wire>>
      BY <2>1 DEF Sendto, card, reader, udp, peers
    <2>3. Sending' BY <2>2, <1>2, SendSending
    <2>4. Reading' BY <2>2, <1>2, StableReading
    <2>5. Owned' = Owned BY <2>2 DEF Owned
    <2>6. Queues' BY <2>2, <2>5, <1>2, StableQueues
    <2> QED BY <2>3, <2>4, <2>6 DEF IInv
  <1>4. ASSUME Create \/ CreateGrown \/ \E s \in DOMAIN sockets : Bind(s) \/ Recv(s)
        PROVE  /\ UNCHANGED <<rx, put, rx_offset, cache, mac, arrived, missed, buffers>>
               /\ UNCHANGED <<slot, own, tx_slot, handed, overrun, tx_card, wire>>
    BY <1>4 DEF Create, CreateGrown, Bind, Recv, card, reader, sender, peers
  <1>5. CASE Create \/ CreateGrown
    <2>1. /\ UNCHANGED <<got, buffers, refused>>
          /\ \/ UNCHANGED sockets
             \/ sockets' = Append(sockets, Socket(Len(sockets)))
      BY <1>5 DEF Create, CreateGrown
    <2>2. Queues'
      <3>1. CASE UNCHANGED sockets
        <4>1. Owned' = Owned BY <2>1 DEF Owned
        <4> QED BY <4>1, <3>1, <2>1, <1>2, StableQueues
      <3>2. CASE sockets' = Append(sockets, Socket(Len(sockets)))
        BY <3>2, <2>1, <1>2, CreateQueues
      <3> QED BY <3>1, <3>2, <2>1
    <2>3. Reading' BY <1>4, <1>5, <2>1, <1>2, StableReading
    <2>4. Sending' BY <1>4, <1>5, <1>2, StableSending
    <2> QED BY <2>2, <2>3, <2>4 DEF IInv
  <1>6. ASSUME NEW s \in DOMAIN sockets, Bind(s) PROVE IInv'
    <2>1. PICK q \in Ports : sockets' = [sockets EXCEPT ![s].local_port = q] BY <1>6 DEF Bind
    <2>2. UNCHANGED <<got, buffers, refused>> BY <1>6 DEF Bind
    <2>3. Queues' BY <2>1, <2>2, <1>2, BindQueues
    <2>4. Reading' BY <1>4, <1>6, <2>2, <1>2, StableReading
    <2>5. Sending' BY <1>4, <1>6, <1>2, StableSending
    <2> QED BY <2>3, <2>4, <2>5 DEF IInv
  <1>7. ASSUME NEW s \in DOMAIN sockets, Recv(s) PROVE IInv'
    <2>1. PICK k, n : k = sockets[s] /\ n = k.data[k.tail] OBVIOUS
    <2>2. PICK q : q = [k EXCEPT !.tail = (k.tail + 1) % QueueSize] OBVIOUS
    <2>3. /\ k.tail # k.head /\ buffers' = buffers
          /\ sockets' = [sockets EXCEPT ![s].tail = (@ + 1) % QueueSize]
          /\ \/ got' = Append(got, [s |-> s, n |-> n]) /\ refused' = refused
             \/ got' = got /\ refused' = refused \cup {n}
      BY <1>7, <2>1 DEF Recv
    <2>4. k \in Queue BY <1>2, <2>1
    <2>5. q \in Queue /\ q.tail = (k.tail + 1) % QueueSize /\ q.head = k.head /\ q.data = k.data
      <3>1. PICK u : u = (k.tail + 1) % QueueSize OBVIOUS
      <3>2. u \in Index
        <4>1. k.tail \in 0 .. QueueSize - 1 BY <2>4, QueueFacts
        <4>2. (k.tail + 1) % QueueSize \in 0 .. QueueSize - 1 BY <4>1, Sizes
        <4> QED BY <4>2, <3>1 DEF Index
      <3>3. q = [k EXCEPT !.tail = u] BY <2>2, <3>1
      <3>4. q \in Queue /\ q.tail = u /\ q.head = k.head /\ q.data = k.data
        BY <3>2, <3>3, <2>4 DEF Queue
      <3> QED BY <3>1, <3>4
    <2>6. sockets' = [sockets EXCEPT ![s] = q] BY <2>1, <2>2, <2>3
    <2>7. Queues'
      <3>1. Queues /\ k = sockets[s] /\ n = k.data[k.tail] BY <1>2, <2>1
      <3>2. k.tail # k.head /\ buffers' = buffers BY <2>3
      <3>3. CASE got' = Append(got, [s |-> s, n |-> n]) /\ refused' = refused
        BY <3>1, <3>2, <3>3, <2>5, <2>6, RecvQueues
      <3>4. CASE got' = got /\ refused' = refused \cup {n}
        BY <3>1, <3>2, <3>4, <2>5, <2>6, RecvQueues
      <3> QED BY <3>3, <3>4, <2>3
    <2>8. n \in Owned
      <3>1. k.tail \in In(k) BY <2>3, <2>4, <2>5, PopFacts
      <3> QED BY <3>1, <2>1, <1>2 DEF Queues
    <2>9. refused' \subseteq buffers BY <2>3, <2>8, <1>2 DEF Owned
    <2>10. Reading' BY <1>4, <1>7, <2>9, <1>2, StableReading
    <2>11. Sending' BY <1>4, <1>7, <1>2, StableSending
    <2> QED BY <2>7, <2>10, <2>11 DEF IInv
  <1> QED BY <1>3, <1>5, <1>6, <1>7 DEF Program

LEMMA NextInv ==
  ASSUME IInv, [Next]_vars
  PROVE  IInv'
  <1>1. CASE Transmit
    <2>1. UNCHANGED <<rx, put, rx_offset, cache, mac, arrived, missed, buffers, refused, sockets, got>>
      BY <1>1 DEF Transmit, reader, udp
    <2>2. Reading'
      <3>1. refused \subseteq buffers BY DEF IInv, Reading, Datagrams
      <3> QED BY <3>1, <2>1, StableReading DEF IInv
    <2>3. Owned' = Owned BY <2>1 DEF Owned
    <2>4. Queues' BY <2>1, <2>3, StableQueues DEF IInv
    <2>5. Sending' BY <1>1, TransmitSending DEF IInv
    <2> QED BY <2>2, <2>4, <2>5 DEF IInv
  <1>2. CASE Interrupt \/ InterruptEnd \/ UNCHANGED vars
    <2>1. /\ UNCHANGED <<rx, put, rx_offset, cache, mac, arrived, missed, buffers, refused, sockets, got>>
          /\ UNCHANGED <<slot, own, tx_slot, handed, overrun, tx_card, wire>>
      BY <1>2 DEF Interrupt, InterruptEnd, vars, card, reader, sender, udp, peers
    <2>2. Reading'
      <3>1. refused \subseteq buffers BY DEF IInv, Reading, Datagrams
      <3> QED BY <3>1, <2>1, StableReading DEF IInv
    <2>3. Owned' = Owned BY <2>1 DEF Owned
    <2>4. Queues' BY <2>1, <2>3, StableQueues DEF IInv
    <2>5. Sending' BY <2>1, StableSending DEF IInv
    <2> QED BY <2>2, <2>4, <2>5 DEF IInv
  <1>3. CASE Receive BY <1>3, ReceiveInv
  <1>4. CASE Program BY <1>4, ProgramInv
  <1>5. CASE \E p \in Peers : Ask(p) \/ Ping(p) \/ Answer(p) \/ Datagram(p) BY <1>5, PeersInv
  <1> QED BY <1>1, <1>2, <1>3, <1>4, <1>5 DEF Next, Handler, Wire

\* The receive ring holds whole frames, one behind the other, from where RX_handler
\* reads next to where the card stores next; the cache, the sockets' queues and the
\* transmit slots are as Heard, Datagrams, Queues and Sending say.
THEOREM InvariantTheorem == Spec => []IInv
  <1>1. IInv /\ [Next]_vars => IInv' BY NextInv
  <1> QED BY InitInv, <1>1, PTL DEF Spec

-----------------------------------------------------------------------------
(* The properties of the runs.                                             *)
LEMMA Turns ==
  ASSUME NEW n \in Nat, n > 0, NEW t \in 0 .. n - 1, NEW i \in 0 .. n - 1
  PROVE  /\ (t + i) % n \in 0 .. n - 1 /\ Dist(n, t, (t + i) % n) = i
         /\ (t + Dist(n, t, i)) % n = i
  <1>1. (t + i) % n = IF t + i < n THEN t + i ELSE t + i - n
    <2>1. t + i \in Nat /\ t + i < n + n OBVIOUS
    <2> QED BY <2>1, Wraps
  <1>2. PICK j : j = (t + i) % n OBVIOUS
  <1>3. j = IF t + i < n THEN t + i ELSE t + i - n BY <1>1, <1>2
  <1>4. j \in 0 .. n - 1 /\ Dist(n, t, j) = i BY <1>3 DEF Dist
  <1>5. PICK d : d = Dist(n, t, i) OBVIOUS
  <1>6. d = (IF i >= t THEN i - t ELSE i - t + n) BY <1>5 DEF Dist
  <1>7. (t + d) % n = i
    <2>1. PICK x : x = t + d OBVIOUS
    <2>2. d \in 0 .. n - 1 BY <1>6
    <2>3. x \in Nat /\ x < n + n BY <2>1, <2>2
    <2>4. x % n = IF x < n THEN x ELSE x - n BY <2>3, Wraps
    <2>5. (IF x < n THEN x ELSE x - n) = i BY <2>1, <2>2, <1>6
    <2> QED BY <2>1, <2>4, <2>5
  <1> QED BY <1>2, <1>4, <1>5, <1>7

\* What is queued in a socket are the values between its tail and its head.
LEMMA QueuedIs ==
  ASSUME sockets \in Seq(Queue), NEW s \in DOMAIN sockets
  PROVE  Queued(s) = {sockets[s].data[j] : j \in In(sockets[s])}
  <1>1. PICK k \in Queue : k = sockets[s] OBVIOUS
  <1>2. PICK t, h : t = k.tail /\ h = k.head OBVIOUS
  <1>3. t \in 0 .. QueueSize - 1 /\ h \in 0 .. QueueSize - 1 BY <1>2, QueueFacts
  <1>4. PICK z : z = Dist(QueueSize, t, h) OBVIOUS
  <1>5. z \in 0 .. QueueSize - 1 /\ (h - t) % QueueSize = z BY <1>3, <1>4, DistFacts, Sizes
  <1>6. Queued(s) = {k.data[(t + i) % QueueSize] : i \in 0 .. z - 1} BY <1>1, <1>2, <1>5 DEF Queued
  <1>7. \A j : j \in In(k) <=> j \in 0 .. QueueSize - 1 /\ Dist(QueueSize, t, j) < z
    BY <1>2, <1>4 DEF In, Deep, Index
  <1>8. ASSUME NEW i \in 0 .. z - 1 PROVE (t + i) % QueueSize \in In(k)
    <2>1. i \in 0 .. QueueSize - 1 /\ i < z BY <1>5, Sizes
    <2>2. PICK j : j = (t + i) % QueueSize OBVIOUS
    <2>3. j \in 0 .. QueueSize - 1 /\ Dist(QueueSize, t, j) = i BY <1>3, <2>1, <2>2, Turns, Sizes
    <2> QED BY <2>1, <2>2, <2>3, <1>7
  <1>9. ASSUME NEW j \in In(k) PROVE \E i \in 0 .. z - 1 : (t + i) % QueueSize = j
    <2>1. PICK i : i = Dist(QueueSize, t, j) OBVIOUS
    <2>2. j \in 0 .. QueueSize - 1 /\ i < z BY <2>1, <1>7
    <2>3. i \in 0 .. QueueSize - 1 BY <2>1, <2>2, <1>3, DistFacts, Sizes
    <2>4. (t + i) % QueueSize = j BY <2>1, <2>2, <1>3, Turns, Sizes
    <2>5. i \in 0 .. z - 1 BY <2>2, <2>3, <1>5, Sizes
    <2> QED BY <2>4, <2>5
  <1>10. {k.data[(t + i) % QueueSize] : i \in 0 .. z - 1} = {k.data[j] : j \in In(k)} BY <1>8, <1>9
  <1> QED BY <1>1, <1>6, <1>10

LEMMA GotIs ==
  ASSUME NEW s, NEW n
  PROVE  n \in Got(s) <=> \E g \in DOMAIN got : got[g].s = s /\ got[g].n = n
  <1>1. ToSet(got) = {got[g] : g \in DOMAIN got} BY DEF ToSet
  <1> QED BY <1>1 DEF Got

\* While no request to a peer and no telling frame is unread, the ARP cache has
\* the address that each peer uses: receive_ARP stored the last one it told, if
\* the receive ring had room for every frame.
THEOREM AddressesFreshTheorem == Spec => []AddressesFresh
  <1>1. IInv => AddressesFresh
    <2> SUFFICES ASSUME IInv, missed = 0, put = rx_offset, NEW i \in DOMAIN cache
                 PROVE  cache[i].mac = mac[cache[i].ip]
      BY DEF AddressesFresh, Unread
    <2>1. PICK U \in SUBSET Off : Ring(U) /\ Heard(U) BY DEF IInv, Reading
    <2>2. U = {}
      <3> SUFFICES ASSUME NEW o \in U PROVE FALSE OBVIOUS
      <3>1. rx_offset \in U BY <2>1, UnreadBefore
      <3> QED BY <3>1, <2>1 DEF Ring
    <2> QED BY <2>1, <2>2 DEF Heard
  <1> QED BY <1>1, InvariantTheorem, PTL

\* Every datagram that got a buffer, and was not refused, is either in the queue
\* of one socket or was returned from that one, once and in the order of arrival.
THEOREM DatagramsOwnedTheorem == Spec => []DatagramsOwned
  <1>1. IInv => DatagramsOwned
    <2> SUFFICES ASSUME IInv PROVE DatagramsOwned OBVIOUS
    <2>1. Queues BY DEF IInv
    <2>2. \A s \in DOMAIN sockets : \A n :
            n \in Queued(s) <=> \E j \in In(sockets[s]) : sockets[s].data[j] = n
      <3>1. sockets \in Seq(Queue) BY <2>1 DEF Queues
      <3> QED BY <3>1, QueuedIs
    <2>3. \A s, n : n \in Got(s) <=> \E g \in DOMAIN got : got[g].s = s /\ got[g].n = n BY GotIs
    <2>4. ASSUME NEW s \in DOMAIN sockets, NEW t \in DOMAIN sockets, s # t,
                 NEW n \in Queued(s) \cup Got(s), n \in Queued(t) \cup Got(t)
          PROVE  FALSE
      <3>1. CASE n \in Queued(s) /\ n \in Queued(t)
        <4>1. PICK i \in In(sockets[s]) : sockets[s].data[i] = n BY <3>1, <2>2
        <4>2. PICK j \in In(sockets[t]) : sockets[t].data[j] = n BY <3>1, <2>2
        <4> QED BY <4>1, <4>2, <2>1, <2>4 DEF Queues
      <3>2. CASE n \in Queued(s) /\ n \in Got(t)
        <4>1. PICK g \in DOMAIN got : got[g].n = n BY <3>2, <2>3
        <4>2. PICK j \in In(sockets[s]) : sockets[s].data[j] = n BY <3>2, <2>2
        <4> QED BY <4>1, <4>2, <2>1 DEF Queues
      <3>3. CASE n \in Got(s) /\ n \in Queued(t)
        <4>1. PICK g \in DOMAIN got : got[g].n = n BY <3>3, <2>3
        <4>2. PICK j \in In(sockets[t]) : sockets[t].data[j] = n BY <3>3, <2>2
        <4> QED BY <4>1, <4>2, <2>1 DEF Queues
      <3>4. CASE n \in Got(s) /\ n \in Got(t)
        <4>1. PICK g, h \in DOMAIN got : got[g].s = s /\ got[g].n = n /\ got[h].s = t /\ got[h].n = n
          BY <3>4, <2>3
        <4>2. g \in Nat /\ h \in Nat
          <5>1. got \in Seq([s : Nat, n : Nat]) BY <2>1 DEF Queues
          <5>2. DOMAIN got = 1 .. Len(got) /\ Len(got) \in Nat BY <5>1
          <5> QED BY <5>2, <4>1
        <4>3. g < h \/ h < g BY <4>1, <4>2, <2>4
        <4> QED BY <4>1, <4>3, <2>1 DEF Queues
      <3> QED BY <3>1, <3>2, <3>3, <3>4, <2>4
    <2>5. ASSUME NEW s \in DOMAIN sockets, NEW m \in Got(s), NEW n \in Queued(s)
          PROVE  m < n
      <3>1. PICK g \in DOMAIN got : got[g].s = s /\ got[g].n = m BY <2>3
      <3>2. PICK j \in In(sockets[s]) : sockets[s].data[j] = n BY <2>2
      <3> QED BY <3>1, <3>2, <2>1 DEF Queues
    <2>6. \A i, j \in DOMAIN got : i < j /\ got[i].s = got[j].s => got[i].n < got[j].n
      BY <2>1 DEF Queues
    <2>7. buffers \ refused = UNION {Queued(s) \cup Got(s) : s \in DOMAIN sockets}
      <3>1. ASSUME NEW b \in buffers \ refused
            PROVE  \E s \in DOMAIN sockets : b \in Queued(s) \cup Got(s)
        <4>1. CASE \E g \in DOMAIN got : got[g].n = b
          <5>1. PICK g \in DOMAIN got : got[g].n = b BY <4>1
          <5>2. got[g].s \in DOMAIN sockets BY <5>1, <2>1 DEF Queues
          <5> QED BY <5>1, <5>2, <2>3
        <4>2. CASE \E s \in DOMAIN sockets : \E j \in In(sockets[s]) : sockets[s].data[j] = b
          BY <4>2, <2>2
        <4> QED BY <4>1, <4>2, <2>1 DEF Queues, Owned
      <3>2. ASSUME NEW s \in DOMAIN sockets, NEW b \in Queued(s) \cup Got(s)
            PROVE  b \in buffers \ refused
        <4>1. CASE b \in Queued(s)
          <5>1. PICK j \in In(sockets[s]) : sockets[s].data[j] = b BY <2>2, <4>1
          <5>2. b \in Owned BY <2>1, <5>1 DEF Queues
          <5> QED BY <5>2 DEF Owned
        <4>2. CASE b \in Got(s)
          <5>1. PICK g \in DOMAIN got : got[g].n = b BY <2>3, <4>2
          <5>2. b \in Owned BY <2>1, <5>1 DEF Queues
          <5> QED BY <5>2 DEF Owned
        <4> QED BY <4>1, <4>2
      <3> QED BY <3>1, <3>2
    <2> QED BY <2>4, <2>5, <2>6, <2>7 DEF DatagramsOwned
  <1> QED BY <1>1, InvariantTheorem, PTL

\* The card sends the frames that send() was given in their order, each once, and
\* has those that it owns still to send, unless a slot that it had yet to send was
\* filled.
THEOREM SentInOrderTheorem == Spec => []SentInOrder
  <1>1. IInv => SentInOrder BY DEF IInv, Sending, SentInOrder
  <1> QED BY <1>1, InvariantTheorem, PTL
=============================================================================
