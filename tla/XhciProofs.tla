----------------------------- MODULE XhciProofs -----------------------------
(***************************************************************************)
(* Proofs about the events of the xHCI driver, for rings of every size and *)
(* any number of events, commands and transfers.                           *)
(*                                                                         *)
(* Two facts about rings carry them.  The event ring: the slots in the     *)
(* order in which they were written, which only the controller's pointer   *)
(* decides (Before), so that what was read is before what is unread.  The  *)
(* rings of commands and transfers: the TRBs that the controller will take *)
(* (Ahead), which it takes in the order of writing, even when the driver,  *)
(* which never asks whether its ring is full, has overwritten some.        *)
(*                                                                         *)
(* The proofs about ports, slots and devices (XhciPorts) follow at the end.*)
(***************************************************************************)
EXTENDS XhciEvents, XhciPorts, SequenceTheorems, FiniteSetTheorems, TLAPS

Event   == [kind : {"none", "command", "control", "report"}, n : Nat, cycle : {0, 1}]
Storing == {"publish", "store", "load", "busy"}
Polling == {"read", "advance", "handle", "flush", "drop", "again"} \cup Storing
Context(places) == [at : places, evs : Seq(Slot), seen : {0, 1}, addr : Slot]
TRB     == [n : Nat, address : BOOLEAN, cycle : {0, 1}]
Queue   == [trb : [0 .. Link -> TRB], enq : 0 .. Link - 1, rcs : {0, 1},
            deq : 0 .. Link - 1, ccs : {0, 1}]

TypeOK ==
  /\ trb \in [Slot -> Event] /\ enq \in Slot /\ pcs \in {0, 1}
  /\ erdp \in Slot /\ ip \in BOOLEAN /\ ehb \in BOOLEAN /\ posted \in Nat
  /\ deq \in Slot /\ rcs \in {0, 1} /\ flag \in {0, 1} /\ list \in Seq(Slot)
  /\ irq \in Context({"idle", "handle", "acknowledge"})
  /\ thr \in Context({"idle", "wait", "clear"} \cup Polling)
  /\ commands \in Queue /\ transfers \in Queue /\ bell \in BOOLEAN
  /\ sent \in Nat /\ asked \in Nat /\ addressed \in BOOLEAN /\ dma \in Nat /\ again \in Nat
  /\ armed \in BOOLEAN /\ reported \in Nat /\ pushed \in Seq(Nat)
  /\ answer \in Nat \X Nat
  /\ raced \in BOOLEAN /\ lapped \in BOOLEAN /\ missed \in BOOLEAN /\ behind \in BOOLEAN
  /\ late \in BOOLEAN /\ slow \in Nat /\ flushed \subseteq Nat

-----------------------------------------------------------------------------
\* A command or transfer ring: the cycle bits tell what the driver wrote in this
\* round; the link has the bit of the TRB before it, but for the first round.
RingOK(r) ==
  /\ \A i \in 0 .. Link - 1 : r.trb[i].cycle = IF i < r.enq THEN r.rcs ELSE 1 - r.rcs
  /\ \/ r.trb[Link].cycle = r.trb[Link - 1].cycle
     \/ r.trb[Link - 1].cycle = 0 /\ r.rcs = 1 /\ r.ccs = 1

\* The TRBs that the controller will take from it.
Ahead(r) == {i \in 0 .. Link - 1 :
               r.trb[i].cycle = IF i >= r.deq THEN r.ccs ELSE 1 - r.ccs}

\* Slots in the order in which they were last written, when the next is e.
Before(e, i, j) == \/ i < j /\ (j < e \/ i >= e)
                   \/ i >= e /\ j < e

\* The event ring: the bits say which slots are unread, and unless the thread put
\* an old address back, the register is behind the reader, which is behind the
\* controller.
EventRing ==
  /\ \A i \in Slot : trb[i].cycle = IF i < enq THEN pcs ELSE 1 - pcs
  /\ rcs = IF deq <= enq THEN pcs ELSE 1 - pcs
  /\ \/ behind
     \/ erdp <= deq /\ deq <= enq
     \/ deq <= enq /\ enq < erdp
     \/ enq < erdp /\ erdp <= deq

New == IF deq <= enq THEN deq .. enq - 1 ELSE Slot \ (enq .. deq - 1)
\* A thread in the middle of dequeue_events has taken one already.
Rest == IF thr.at \in {"advance", "drop"} THEN New \ {deq} ELSE New

\* Who has which event: what was read is before what is not, and nobody has
\* an event of another's.
Once(s) == \A i, j \in DOMAIN s : s[i] = s[j] => i = j
Readers ==
  /\ \A i \in Held, j \in Rest : i # j /\ Before(enq, i, j)
  /\ thr.at \in {"advance", "drop"} => thr.evs # <<>> /\ deq # enq /\ Last(thr.evs) = deq
  /\ thr.at = "drop" => Len(thr.evs) = 1
  /\ thr.at \notin {"read", "advance", "handle", "drop"} \cup Storing => thr.evs = <<>>
  /\ irq.at # "handle" => irq.evs = <<>>
  /\ irq.at = "idle" => irq.seen = 0
  /\ thr.at \notin Polling => thr.seen = 0
  /\ Once(irq.evs) /\ Once(thr.evs)
  /\ ToSet(irq.evs) \cap ToSet(thr.evs) = {}
  /\ \A i \in ToSet(list) : trb[i].kind = "command"

\* Commands are answered in order.
IsCommand(i) == trb[i].kind = "command"
Answers ==
  /\ \A i, j \in Slot : IsCommand(i) /\ IsCommand(j) /\ Before(enq, i, j) => trb[i].n < trb[j].n
  /\ \A i \in Slot : IsCommand(i) => trb[i].n \in 1 .. sent
  /\ \A j \in Ahead(commands) :
       /\ commands.trb[j].n \in 1 .. sent
       /\ \A i \in Slot : IsCommand(i) => trb[i].n < commands.trb[j].n
       /\ answer[1] < commands.trb[j].n /\ answer[2] < commands.trb[j].n
  /\ \A i, j \in Ahead(commands) :
       Before(commands.enq, i, j) => commands.trb[i].n < commands.trb[j].n
  /\ \A i \in Rest : IsCommand(i) => answer[1] < trb[i].n /\ answer[2] < trb[i].n
  /\ thr.at # "clear" => \A i \in Held : IsCommand(i) => answer[1] < trb[i].n /\ answer[2] < trb[i].n
  /\ answer[1] # 0 => answer[2] < answer[1]
  /\ answer[1] <= sent /\ answer[2] <= sent

\* As long as none was given up, only the command in progress has one.
Places == Rest \cup ToSet(irq.evs) \cup ToSet(thr.evs)
Mine ==
  ~ late =>
    /\ \A i \in Places \cup ToSet(list) : IsCommand(i) => trb[i].n = sent
    /\ \A j \in Ahead(commands) : commands.trb[j].n = sent
    /\ thr.at \notin {"wait", "clear"} =>
         /\ \A i \in Places : ~ IsCommand(i)
         /\ list = <<>> /\ Ahead(commands) = {} /\ flag = 0 /\ irq.seen = 0 /\ thr.seen = 0
    /\ thr.at = "wait" => sent > 0 /\ (flag = 1 \/ irq.seen = 1 => list # <<>>)
    /\ thr.at = "clear" => /\ answer[1] = sent /\ Ahead(commands) = {}
                           /\ \A i \in Places : ~ IsCommand(i)

\* The ring is begun anew once, and by then a transfer was asked.
Addressed ==
  /\ again > 0 => addressed
  /\ addressed => asked > 0
  /\ \A i \in 0 .. Link : commands.trb[i].address => addressed
  /\ \A i, j \in Ahead(commands) :
       commands.trb[i].address /\ commands.trb[j].address => i = j
  /\ again > 0 => \A j \in Ahead(commands) : ~ commands.trb[j].address

\* The TRB that was written last.  What the controller has to serve ends with it.
LastSlot(r) == IF r.enq = 0 THEN Link - 1 ELSE r.enq - 1

\* As long as no transfer was given up, one is on the ring at a time; but for the
\* first transfer after the ring was begun anew, when old ones are there too.
Alone == again = 0 \/ asked > again + 1
Transfers ==
  /\ again <= asked /\ slow <= asked
  /\ asked > 0 => transfers.trb[LastSlot(transfers)].n = asked
  /\ thr.at \in Polling => slow < asked
  /\ again = asked /\ asked > 0 => ~ bell
  /\ thr.at \in Polling => dma \in {0, asked} \/ Pending(transfers) \/ again = asked
  /\ slow = 0 /\ (Alone \/ again = asked) => dma \in {0, asked}
  /\ slow = 0 /\ Alone /\ Pending(transfers) => transfers.deq = LastSlot(transfers)
  /\ slow = 0 /\ (again # asked \/ asked = 0) /\ thr.at \notin Polling => ~ Pending(transfers)

\* One report is underway at a time.
IsReport(i) == trb[i].kind = "report"
Reports ==
  /\ \A i \in Places : IsReport(i) => trb[i].n = reported /\ ~ armed /\ flushed = {}
  /\ \A i, j \in Places : IsReport(i) /\ IsReport(j) => i = j
  /\ flushed \in {{}, {reported}}
  /\ armed => flushed = {}
  /\ ~ armed => reported > 0
  /\ ~ armed /\ flushed = {} => \E i \in Places : IsReport(i)
  /\ ToSet(pushed) = 1 .. IF armed THEN reported ELSE reported - 1
  /\ \A i \in 2 .. Len(pushed) : pushed[i - 1] < pushed[i]

Rings == RingOK(commands) /\ RingOK(transfers)
Base  == TypeOK /\ Rings /\ EventRing
IInv  == /\ TypeOK /\ Rings /\ Addressed /\ Transfers
         /\ Sound => EventRing /\ Readers /\ Answers /\ Mine /\ Reports

-----------------------------------------------------------------------------
(* Numbers and sequences.                                                  *)
LEMMA Consts ==
  /\ RingSize \in Nat /\ RingSize > 1 /\ Slot = 0 .. RingSize - 1
  /\ TrbCount \in Nat /\ Link \in Nat /\ Link >= 1 /\ TrbCount = Link + 1
  BY XhciAssumption DEF Slot, Link

LEMMA Wrap ==
  ASSUME NEW x \in Nat, x < 2 * RingSize
  PROVE  x % RingSize = IF x < RingSize THEN x ELSE x - RingSize
  <1>1. RingSize \in Nat /\ RingSize > 0 BY Consts
  <1> DEFINE q == x \div RingSize
             r == x % RingSize
  <1>2. q \in Nat /\ r \in Nat /\ r < RingSize /\ x = RingSize * q + r BY <1>1
  <1> HIDE DEF q, r
  <1>3. CASE q = 0 BY <1>1, <1>2, <1>3 DEF r
  <1>4. CASE q = 1 BY <1>1, <1>2, <1>4 DEF r
  <1>5. CASE q > 1
    <2>1. PICK k \in Nat : q = 2 + k BY <1>2, <1>5
    <2>2. RingSize * q = 2 * RingSize + RingSize * k BY <1>1, <2>1
    <2>3. RingSize * k \in Nat BY <1>1
    <2> QED BY <1>1, <1>2, <2>2, <2>3
  <1> QED BY <1>2, <1>3, <1>4, <1>5

\* What the elements of a sequence are after one is added, or the first taken.
LEMMA AppendFacts ==
  ASSUME NEW S, NEW s \in Seq(S), NEW x \in S
  PROVE  /\ Append(s, x) \in Seq(S) /\ Append(s, x) # <<>>
         /\ ToSet(Append(s, x)) = ToSet(s) \cup {x}
         /\ Last(Append(s, x)) = x
         /\ Once(s) /\ x \notin ToSet(s) => Once(Append(s, x))
  <1>1. /\ Len(s) \in Nat /\ DOMAIN s = 1 .. Len(s)
        /\ DOMAIN Append(s, x) = 1 .. Len(s) + 1 /\ Len(Append(s, x)) = Len(s) + 1
        /\ \A i \in 1 .. Len(s) : Append(s, x)[i] = s[i]
        /\ Append(s, x)[Len(s) + 1] = x
    OBVIOUS
  <1>2. ToSet(Append(s, x)) = ToSet(s) \cup {x} BY <1>1 DEF ToSet
  <1>3. Last(Append(s, x)) = x BY <1>1 DEF Last
  <1>4. ASSUME Once(s), x \notin ToSet(s) PROVE Once(Append(s, x))
    BY <1>1, <1>4 DEF Once, ToSet
  <1> QED BY <1>2, <1>3, <1>4

LEMMA TailFacts ==
  ASSUME NEW S, NEW s \in Seq(S), s # <<>>
  PROVE  /\ Tail(s) \in Seq(S) /\ Head(s) \in S /\ Head(s) \in ToSet(s)
         /\ ToSet(s) = ToSet(Tail(s)) \cup {Head(s)}
         /\ Once(s) => Once(Tail(s)) /\ Head(s) \notin ToSet(Tail(s))
  <1>1. /\ Len(s) \in Nat /\ Len(s) > 0 /\ DOMAIN s = 1 .. Len(s)
        /\ Tail(s) \in Seq(S) /\ Len(Tail(s)) = Len(s) - 1 /\ DOMAIN Tail(s) = 1 .. Len(s) - 1
        /\ \A i \in 1 .. Len(s) - 1 : Tail(s)[i] = s[i + 1]
        /\ Head(s) = s[1] /\ Head(s) \in S
    OBVIOUS
  <1>2. ToSet(s) = ToSet(Tail(s)) \cup {Head(s)}
    <2>1. \A i \in 1 .. Len(s) : i = 1 \/ (i - 1 \in 1 .. Len(s) - 1 /\ s[i] = Tail(s)[i - 1])
      BY <1>1
    <2>2. ASSUME NEW i \in 1 .. Len(s) PROVE s[i] \in ToSet(Tail(s)) \cup {Head(s)}
      <3>1. CASE i = 1 BY <1>1, <3>1
      <3>2. CASE i - 1 \in 1 .. Len(s) - 1 /\ s[i] = Tail(s)[i - 1] BY <1>1, <3>2 DEF ToSet
      <3> QED BY <2>1, <3>1, <3>2
    <2>3. ToSet(Tail(s)) \subseteq ToSet(s) BY <1>1 DEF ToSet
    <2>4. Head(s) \in ToSet(s) BY <1>1 DEF ToSet
    <2>5. ToSet(s) \subseteq ToSet(Tail(s)) \cup {Head(s)} BY <1>1, <2>2 DEF ToSet
    <2> QED BY <2>3, <2>4, <2>5
  <1>3. ASSUME Once(s) PROVE Once(Tail(s)) /\ Head(s) \notin ToSet(Tail(s))
    BY <1>1, <1>3 DEF Once, ToSet
  <1> QED BY <1>1, <1>2, <1>3

LEMMA SetFacts ==
  /\ ToSet(<<>>) = {} /\ Once(<<>>)
  /\ \A S : \A s \in Seq(S) : ToSet(s) \subseteq S /\ (s # <<>> <=> ToSet(s) # {})
  <1>1. ToSet(<<>>) = {} /\ Once(<<>>) BY DEF ToSet, Once
  <1>2. ASSUME NEW S, NEW s \in Seq(S)
        PROVE ToSet(s) \subseteq S /\ (s # <<>> <=> ToSet(s) # {})
    <2>1. ToSet(s) \subseteq S BY DEF ToSet
    <2>2. CASE s = <<>> BY <1>1, <2>1, <2>2
    <2>3. CASE s # <<>> BY <2>1, <2>3, TailFacts
    <2> QED BY <2>2, <2>3
  <1> QED BY <1>1, <1>2

-----------------------------------------------------------------------------
(* Command and transfer rings.                                             *)
LEMMA NewRingFacts ==
  /\ NewRing \in Queue /\ RingOK(NewRing) /\ Ahead(NewRing) = {}
  /\ \A i \in 0 .. Link : NewRing.trb[i].n = 0 /\ NewRing.trb[i].address = FALSE
  <1>1. NewRing \in Queue BY Consts DEF NewRing, Queue, TRB
  <1>2. RingOK(NewRing) BY Consts DEF NewRing, RingOK
  <1>3. Ahead(NewRing) = {} BY Consts DEF NewRing, Ahead
  <1> QED BY <1>1, <1>2, <1>3, Consts DEF NewRing

\* A ring before the link is looked at.
Half == [trb : [0 .. Link -> TRB], enq : 0 .. Link, rcs : {0, 1},
         deq : 0 .. Link - 1, ccs : {0, 1}]
LEMMA PlacedFacts ==
  ASSUME NEW r \in Queue, NEW n \in Nat, NEW a \in BOOLEAN, NEW q, q = Placed(r, n, a)
  PROVE  /\ q.enq = r.enq + 1 /\ q.rcs = r.rcs /\ q.deq = r.deq /\ q.ccs = r.ccs
         /\ q.trb = [r.trb EXCEPT ![r.enq] = [n |-> n, address |-> a, cycle |-> r.rcs]]
         /\ q \in Half
         /\ q.enq # Link => q \in Queue
  <1> DEFINE x == [n |-> n, address |-> a, cycle |-> r.rcs]
  <1>1. x \in TRB BY DEF Queue, TRB
  <1>2. q = [r EXCEPT !.trb[r.enq] = x, !.enq = r.enq + 1] BY DEF Placed
  <1> HIDE DEF x
  <1>3. /\ q.enq = r.enq + 1 /\ q.rcs = r.rcs /\ q.deq = r.deq /\ q.ccs = r.ccs
        /\ q.trb = [r.trb EXCEPT ![r.enq] = x]
    BY <1>2 DEF Queue
  <1>4. r.trb \in [0 .. Link -> TRB] /\ r.enq \in 0 .. Link - 1 /\ Link \in Nat BY Consts DEF Queue
  <1>5. [r.trb EXCEPT ![r.enq] = x] \in [0 .. Link -> TRB] BY <1>1, <1>4
  <1>6. r.enq + 1 \in 0 .. Link BY <1>4
  <1>7. q \in Half BY <1>2, <1>3, <1>5, <1>6 DEF Half, Queue
  <1>8. q.enq # Link => q \in Queue BY <1>3, <1>4, <1>7 DEF Half, Queue
  <1> QED BY <1>3, <1>7, <1>8 DEF x

LEMMA LinkedFacts ==
  ASSUME NEW r \in Half, NEW q, q = Linked(r)
  PROVE  /\ q \in Queue /\ q.enq = 0 /\ q.rcs = 1 - r.rcs /\ q.deq = r.deq /\ q.ccs = r.ccs
         /\ q.trb = [r.trb EXCEPT ![Link].cycle = r.rcs]
  <1>1. Link \in Nat /\ Link >= 1 BY Consts
  <1>2. q = [r EXCEPT !.trb[Link].cycle = r.rcs, !.enq = 0, !.rcs = 1 - r.rcs] BY DEF Linked
  <1>3. /\ q.enq = 0 /\ q.rcs = 1 - r.rcs /\ q.deq = r.deq /\ q.ccs = r.ccs
        /\ q.trb = [r.trb EXCEPT ![Link].cycle = r.rcs]
    BY <1>2 DEF Half
  <1>4. [r.trb EXCEPT ![Link].cycle = r.rcs] \in [0 .. Link -> TRB] BY <1>1 DEF Half, TRB
  <1>5. r.deq \in 0 .. Link - 1 /\ r.ccs \in {0, 1} /\ 1 - r.rcs \in {0, 1} /\ 0 \in 0 .. Link - 1
    BY <1>1 DEF Half
  <1>6. q \in Queue BY <1>2, <1>3, <1>4, <1>5 DEF Half, Queue
  <1> QED BY <1>3, <1>6

\* A TRB that the driver writes is ahead of the controller, and nothing else new.
LEMMA EnqueuedFacts ==
  ASSUME NEW r \in Queue, RingOK(r), NEW n \in Nat, NEW a \in BOOLEAN,
         NEW q, q = Enqueued(r, n, a)
  PROVE  /\ q \in Queue /\ RingOK(q) /\ q.deq = r.deq /\ q.ccs = r.ccs
         /\ Ahead(q) \subseteq Ahead(r) \cup {r.enq}
         /\ Ahead(r) = {} => r.enq = r.deq
         /\ \A i \in 0 .. Link - 1 : i # r.enq => q.trb[i] = r.trb[i]
         /\ q.trb[r.enq].n = n /\ (q.trb[r.enq].address => a)
         /\ q.trb[Link].address = r.trb[Link].address
         /\ q.enq = (IF r.enq + 1 = Link THEN 0 ELSE r.enq + 1)
         /\ q.rcs = (IF r.enq + 1 = Link THEN 1 - r.rcs ELSE r.rcs)
  <1> DEFINE x == [n |-> n, address |-> a, cycle |-> r.rcs]
  <1>1. /\ r.enq \in 0 .. Link - 1 /\ r.deq \in 0 .. Link - 1 /\ r.rcs \in {0, 1} /\ r.ccs \in {0, 1}
        /\ r.trb \in [0 .. Link -> TRB] /\ Link \in Nat /\ Link >= 1
    BY Consts DEF Queue
  <1>2. PICK put : put = Placed(r, n, a) OBVIOUS
  <1>3. q = IF put.enq = Link THEN Linked(put) ELSE put BY <1>2 DEF Enqueued
  <1>4. /\ put.enq = r.enq + 1 /\ put.rcs = r.rcs /\ put.deq = r.deq /\ put.ccs = r.ccs
        /\ put.trb = [r.trb EXCEPT ![r.enq] = x]
        /\ put \in Half
        /\ put.enq # Link => put \in Queue
    BY <1>2, PlacedFacts
  <1>5. put.enq = Link =>
          /\ q \in Queue /\ q.enq = 0 /\ q.rcs = 1 - r.rcs /\ q.deq = r.deq /\ q.ccs = r.ccs
          /\ q.trb = [put.trb EXCEPT ![Link].cycle = r.rcs]
    BY <1>3, <1>4, LinkedFacts
  <1>6. put.enq # Link => q = put BY <1>3
  <1>7. put.trb[r.enq] = x /\ \A i \in 0 .. Link : i # r.enq => put.trb[i] = r.trb[i]
    BY <1>1, <1>4
  <1>8. /\ q \in Queue /\ q.deq = r.deq /\ q.ccs = r.ccs
        /\ q.enq = (IF r.enq + 1 = Link THEN 0 ELSE r.enq + 1)
        /\ q.rcs = (IF r.enq + 1 = Link THEN 1 - r.rcs ELSE r.rcs)
    BY <1>4, <1>5, <1>6
  <1>9. /\ \A i \in 0 .. Link - 1 : q.trb[i] = put.trb[i]
        /\ q.trb[Link].address = put.trb[Link].address
        /\ q.trb[Link].cycle = (IF r.enq + 1 = Link THEN r.rcs ELSE put.trb[Link].cycle)
    <2>1. CASE put.enq = Link
      <3>1. q.trb = [put.trb EXCEPT ![Link].cycle = r.rcs] BY <1>5, <2>1
      <3>2. put.trb \in [0 .. Link -> TRB] BY <1>4 DEF Half
      <3>3. r.enq + 1 = Link BY <1>4, <2>1
      <3> QED BY <1>1, <3>1, <3>2, <3>3 DEF TRB
    <2>2. CASE put.enq # Link BY <1>4, <1>6, <2>2
    <2> QED BY <2>1, <2>2
  <1>10. /\ \A i \in 0 .. Link - 1 : i # r.enq => q.trb[i] = r.trb[i]
         /\ q.trb[r.enq] = x
         /\ q.trb[Link].address = r.trb[Link].address
         /\ q.trb[Link].cycle = (IF r.enq + 1 = Link THEN r.rcs ELSE r.trb[Link].cycle)
    <2>1. r.enq # Link /\ Link \in 0 .. Link /\ r.enq \in 0 .. Link - 1
          /\ \A i \in 0 .. Link - 1 : i \in 0 .. Link
      BY <1>1
    <2> HIDE DEF x
    <2> QED BY <1>7, <1>9, <2>1
  <1>11. \A i \in 0 .. Link - 1 : r.trb[i].cycle = IF i < r.enq THEN r.rcs ELSE 1 - r.rcs
    BY DEF RingOK
  <1>12. RingOK(q)
    <2>0. q.trb[r.enq].cycle = r.rcs BY <1>10
    <2>1. ASSUME NEW i \in 0 .. Link - 1
          PROVE  q.trb[i].cycle = IF i < q.enq THEN q.rcs ELSE 1 - q.rcs
      <3>1. CASE i = r.enq BY <1>1, <1>8, <2>0, <3>1
      <3>2. CASE i # r.enq
        <4>1. q.trb[i] = r.trb[i] BY <1>10, <3>2
        <4> QED BY <1>1, <1>8, <1>11, <3>2, <4>1
      <3> QED BY <3>1, <3>2
    <2>2. CASE r.enq + 1 = Link
      <3>1. r.enq = Link - 1 /\ q.trb[Link].cycle = r.rcs BY <1>1, <1>10, <2>2
      <3> QED BY <2>0, <2>1, <3>1 DEF RingOK
    <2>3. CASE r.enq + 1 # Link
      <3>1. Link - 1 # r.enq /\ Link - 1 \in 0 .. Link - 1 BY <1>1, <2>3
      <3>2. q.trb[Link - 1] = r.trb[Link - 1] /\ q.trb[Link].cycle = r.trb[Link].cycle
        BY <1>10, <2>3, <3>1
      <3>3. q.rcs = r.rcs /\ q.ccs = r.ccs BY <1>8, <2>3
      <3> QED BY <2>1, <3>2, <3>3 DEF RingOK
    <2> QED BY <2>2, <2>3
  <1>13. Ahead(q) \subseteq Ahead(r) \cup {r.enq} BY <1>8, <1>10 DEF Ahead
  <1>14. Ahead(r) = {} => r.enq = r.deq
    <2> SUFFICES ASSUME r.enq # r.deq PROVE Ahead(r) # {} OBVIOUS
    <2>1. CASE r.ccs = r.rcs /\ r.deq < r.enq
      <3>1. r.deq \in Ahead(r) BY <1>1, <1>11, <2>1 DEF Ahead
      <3> QED BY <3>1
    <2>2. CASE r.ccs = r.rcs /\ r.enq < r.deq
      <3>1. r.enq \in Ahead(r) BY <1>1, <1>11, <2>2 DEF Ahead
      <3> QED BY <3>1
    <2>3. CASE r.ccs # r.rcs
      <3>1. Link - 1 \in Ahead(r)
        <4>1. r.trb[Link - 1].cycle = 1 - r.rcs BY <1>1, <1>11
        <4> QED BY <1>1, <2>3, <4>1 DEF Ahead
      <3> QED BY <3>1
    <2> QED BY <1>1, <2>1, <2>2, <2>3
  <1> HIDE DEF x
  <1>15. q.trb[r.enq].n = n /\ (q.trb[r.enq].address => a) BY <1>10 DEF x
  <1> QED BY <1>8, <1>10, <1>12, <1>13, <1>14, <1>15

Moved(r, d, c) == [r EXCEPT !.deq = d, !.ccs = c]
LEMMA MovedFacts ==
  ASSUME NEW r \in Queue, NEW d \in 0 .. Link - 1, NEW c \in {0, 1}, NEW q, q = Moved(r, d, c)
  PROVE  /\ q \in Queue /\ q.trb = r.trb /\ q.enq = r.enq /\ q.rcs = r.rcs
         /\ q.deq = d /\ q.ccs = c
  BY DEF Queue, Moved

\* The controller takes what is ahead of it in the order of writing.
LEMMA ConsumedFacts ==
  ASSUME NEW r \in Queue, RingOK(r), Pending(r)
  PROVE  /\ Consumed(r) \in Queue /\ RingOK(Consumed(r))
         /\ Consumed(r).trb = r.trb /\ Consumed(r).enq = r.enq /\ Consumed(r).rcs = r.rcs
         /\ Consumed(r).deq = (IF r.deq + 1 = Link THEN 0 ELSE r.deq + 1)
         /\ Consumed(r).ccs = (IF r.deq + 1 = Link THEN 1 - r.ccs ELSE r.ccs)
         /\ r.deq \in Ahead(r) /\ Ahead(Consumed(r)) = Ahead(r) \ {r.deq}
         /\ \A i \in Ahead(Consumed(r)) : Before(r.enq, r.deq, i)
  <1> DEFINE q == Consumed(r)
  <1>1. /\ r.enq \in 0 .. Link - 1 /\ r.deq \in 0 .. Link - 1 /\ r.rcs \in {0, 1} /\ r.ccs \in {0, 1}
        /\ r.trb \in [0 .. Link -> TRB] /\ Link \in Nat /\ Link >= 1
    BY Consts DEF Queue
  <1>2. r.trb[r.deq].cycle = r.ccs BY DEF Pending
  <1>3. \A i \in 0 .. Link - 1 : r.trb[i].cycle = IF i < r.enq THEN r.rcs ELSE 1 - r.rcs
    BY DEF RingOK
  <1>4. r.deq + 1 = Link => r.trb[Link].cycle = r.ccs
    <2> SUFFICES ASSUME r.deq + 1 = Link PROVE r.trb[Link].cycle = r.ccs OBVIOUS
    <2>1. r.deq = Link - 1 BY <1>1
    <2> QED BY <1>1, <1>2, <2>1 DEF RingOK
  <1>5. q = IF r.deq + 1 = Link THEN [r EXCEPT !.deq = 0, !.ccs = 1 - @]
                                ELSE [r EXCEPT !.deq = @ + 1]
    BY <1>4 DEF Consumed
  <1>6. /\ q \in Queue /\ q.trb = r.trb /\ q.enq = r.enq /\ q.rcs = r.rcs
        /\ q.deq = (IF r.deq + 1 = Link THEN 0 ELSE r.deq + 1)
        /\ q.ccs = (IF r.deq + 1 = Link THEN 1 - r.ccs ELSE r.ccs)
    <2>1. CASE r.deq + 1 = Link
      <3>1. q = Moved(r, 0, 1 - r.ccs) BY <1>5, <2>1 DEF Moved
      <3>2. 0 \in 0 .. Link - 1 /\ 1 - r.ccs \in {0, 1} BY <1>1
      <3> QED BY <2>1, <3>1, <3>2, MovedFacts
    <2>2. CASE r.deq + 1 # Link BY <1>1, <1>5, <2>2 DEF Queue
    <2> QED BY <2>1, <2>2
  <1> HIDE DEF q
  <1>7. RingOK(q)
    <2>1. Link - 1 \in 0 .. Link - 1 BY <1>1
    <2>2. CASE r.deq + 1 = Link
      <3>1. r.deq = Link - 1 BY <1>1, <2>2
      <3>2. r.trb[Link].cycle = r.trb[Link - 1].cycle BY <1>2, <1>4, <2>2, <3>1
      <3> QED BY <1>3, <1>6, <3>2 DEF RingOK
    <2>3. CASE r.deq + 1 # Link BY <1>6, <2>3 DEF RingOK
    <2> QED BY <2>2, <2>3
  <1>8. r.deq \in Ahead(r) BY <1>1, <1>2 DEF Ahead
  <1>9. ASSUME NEW i \in 0 .. Link - 1 PROVE i \in Ahead(q) <=> i \in Ahead(r) /\ i # r.deq
    <2>1. i \in Ahead(q) <=> r.trb[i].cycle = IF i >= q.deq THEN q.ccs ELSE 1 - q.ccs
      BY <1>6 DEF Ahead
    <2>2. i \in Ahead(r) <=> r.trb[i].cycle = IF i >= r.deq THEN r.ccs ELSE 1 - r.ccs
      BY DEF Ahead
    <2>3. r.trb[i].cycle \in {0, 1} BY <1>1 DEF TRB
    <2> QED BY <1>1, <1>2, <1>6, <2>1, <2>2, <2>3
  <1>10. Ahead(q) = Ahead(r) \ {r.deq} BY <1>9 DEF Ahead
  <1>11. ASSUME NEW i \in Ahead(q) PROVE Before(r.enq, r.deq, i)
    <2>1. i \in 0 .. Link - 1 /\ i # r.deq /\ i \in Ahead(r) BY <1>10 DEF Ahead
    <2>2. r.trb[i].cycle = IF i >= r.deq THEN r.ccs ELSE 1 - r.ccs BY <2>1 DEF Ahead
    <2>3. r.trb[i].cycle = IF i < r.enq THEN r.rcs ELSE 1 - r.rcs BY <1>3, <2>1
    <2>4. r.ccs = IF r.deq < r.enq THEN r.rcs ELSE 1 - r.rcs BY <1>1, <1>2, <1>3
    <2> QED BY <1>1, <2>1, <2>2, <2>3, <2>4 DEF Before
  <1>12. /\ q \in Queue /\ RingOK(q) /\ q.trb = r.trb /\ q.enq = r.enq /\ q.rcs = r.rcs
         /\ q.deq = (IF r.deq + 1 = Link THEN 0 ELSE r.deq + 1)
         /\ q.ccs = (IF r.deq + 1 = Link THEN 1 - r.ccs ELSE r.ccs)
         /\ r.deq \in Ahead(r) /\ Ahead(q) = Ahead(r) \ {r.deq}
         /\ \A i \in Ahead(q) : Before(r.enq, r.deq, i)
    BY <1>6, <1>7, <1>8, <1>10, <1>11
  <1> QED BY <1>12 DEF q

LEMMA RestartedFacts ==
  ASSUME NEW r \in Queue, RingOK(r)
  PROVE  /\ Restarted(r) \in Queue /\ RingOK(Restarted(r))
         /\ Restarted(r).trb = r.trb /\ Restarted(r).enq = r.enq
  <1>1. PICK q : q = Restarted(r) /\ q = Moved(r, 0, 1) BY DEF Restarted, Moved
  <1>2. 0 \in 0 .. Link - 1 /\ 1 \in {0, 1} BY Consts
  <1>3. q \in Queue /\ q.trb = r.trb /\ q.enq = r.enq /\ q.rcs = r.rcs /\ q.deq = 0 /\ q.ccs = 1
    BY <1>1, <1>2, MovedFacts
  <1>4. RingOK(q) BY <1>3 DEF RingOK
  <1> QED BY <1>1, <1>3, <1>4

\* There is a TRB for the controller unless it caught up with the driver.
LEMMA PendingFacts ==
  ASSUME NEW r \in Queue, RingOK(r)
  PROVE  Pending(r) <=> r.ccs = IF r.deq < r.enq THEN r.rcs ELSE 1 - r.rcs
  <1>1. r.deq \in 0 .. Link - 1 BY DEF Queue
  <1>2. r.trb[r.deq].cycle = IF r.deq < r.enq THEN r.rcs ELSE 1 - r.rcs BY <1>1 DEF RingOK
  <1> QED BY <1>2 DEF Pending

LEMMA ServedFacts ==
  ASSUME NEW r \in Queue, RingOK(r), Pending(r)
  PROVE  /\ LastSlot(Consumed(r)) = LastSlot(r)
         /\ Pending(Consumed(r)) <=> r.deq # LastSlot(r)
  <1>1. /\ r.enq \in 0 .. Link - 1 /\ r.deq \in 0 .. Link - 1 /\ r.rcs \in {0, 1} /\ r.ccs \in {0, 1}
        /\ Link \in Nat /\ Link >= 1
    BY Consts DEF Queue
  <1>2. PICK q : q = Consumed(r) OBVIOUS
  <1>3. /\ q \in Queue /\ RingOK(q) /\ q.enq = r.enq /\ q.rcs = r.rcs
        /\ q.deq = (IF r.deq + 1 = Link THEN 0 ELSE r.deq + 1)
        /\ q.ccs = (IF r.deq + 1 = Link THEN 1 - r.ccs ELSE r.ccs)
    BY <1>2, ConsumedFacts
  <1>4. r.ccs = IF r.deq < r.enq THEN r.rcs ELSE 1 - r.rcs BY PendingFacts
  <1>5. Pending(q) <=> q.ccs = IF q.deq < q.enq THEN q.rcs ELSE 1 - q.rcs
    BY <1>3, PendingFacts
  <1>6. LastSlot(q) = LastSlot(r) BY <1>3 DEF LastSlot
  <1>7. Pending(q) <=> r.deq # LastSlot(r)
    <2>1. LastSlot(r) = IF r.enq = 0 THEN Link - 1 ELSE r.enq - 1 BY DEF LastSlot
    <2>2. CASE r.deq + 1 = Link BY <1>1, <1>3, <1>4, <1>5, <2>1, <2>2
    <2>3. CASE r.deq + 1 # Link BY <1>1, <1>3, <1>4, <1>5, <2>1, <2>3
    <2> QED BY <2>2, <2>3
  <1> QED BY <1>2, <1>6, <1>7

\* Where nothing was left to serve, what the driver writes is all there is.
LEMMA AskedFacts ==
  ASSUME NEW r \in Queue, RingOK(r), NEW n \in Nat, NEW a \in BOOLEAN,
         NEW q, q = Enqueued(r, n, a)
  PROVE  /\ LastSlot(q) = r.enq /\ q.trb[LastSlot(q)].n = n
         /\ ~ Pending(r) => (Pending(q) => q.deq = LastSlot(q))
  <1>1. /\ r.enq \in 0 .. Link - 1 /\ r.deq \in 0 .. Link - 1 /\ r.rcs \in {0, 1} /\ r.ccs \in {0, 1}
        /\ Link \in Nat /\ Link >= 1
    BY Consts DEF Queue
  <1>2. /\ q \in Queue /\ RingOK(q) /\ q.deq = r.deq /\ q.ccs = r.ccs
        /\ q.trb[r.enq].n = n
        /\ q.enq = (IF r.enq + 1 = Link THEN 0 ELSE r.enq + 1)
        /\ q.rcs = (IF r.enq + 1 = Link THEN 1 - r.rcs ELSE r.rcs)
    BY EnqueuedFacts
  <1>3. LastSlot(q) = r.enq
    <2>1. LastSlot(q) = IF q.enq = 0 THEN Link - 1 ELSE q.enq - 1 BY DEF LastSlot
    <2> QED BY <1>1, <1>2, <2>1
  <1>4. Pending(q) <=> q.ccs = IF q.deq < q.enq THEN q.rcs ELSE 1 - q.rcs
    BY <1>2, PendingFacts
  <1>5. Pending(r) <=> r.ccs = IF r.deq < r.enq THEN r.rcs ELSE 1 - r.rcs BY PendingFacts
  <1>6. ~ Pending(r) => (Pending(q) => q.deq = r.enq)
    <2>1. CASE r.enq + 1 = Link BY <1>1, <1>2, <1>4, <1>5, <2>1
    <2>2. CASE r.enq + 1 # Link BY <1>1, <1>2, <1>4, <1>5, <2>2
    <2> QED BY <2>1, <2>2
  <1> QED BY <1>2, <1>3, <1>6

-----------------------------------------------------------------------------
(* The event ring.                                                         *)
LEMMA RingTypes ==
  ASSUME TypeOK
  PROVE  /\ trb \in [Slot -> Event] /\ enq \in 0 .. RingSize - 1 /\ deq \in 0 .. RingSize - 1
         /\ erdp \in 0 .. RingSize - 1 /\ pcs \in {0, 1} /\ rcs \in {0, 1}
         /\ RingSize \in Nat /\ RingSize > 1 /\ Slot = 0 .. RingSize - 1
  BY Consts DEF TypeOK

\* The number of unread slots.
Size == IF deq <= enq THEN enq - deq ELSE enq - deq + RingSize
LEMMA UnreadFacts ==
  ASSUME TypeOK, EventRing, NEW i \in 0 .. RingSize - 1
  PROVE  /\ Unread(i) <=> i < Size
         /\ (deq + i) % RingSize \in Slot
         /\ (deq + i) % RingSize = IF deq + i < RingSize THEN deq + i ELSE deq + i - RingSize
  <1> DEFINE s == (deq + i) % RingSize
  <1>0. deq + i \in Nat /\ deq + i < 2 * RingSize BY RingTypes
  <1>1. s = IF deq + i < RingSize THEN deq + i ELSE deq + i - RingSize BY <1>0, Wrap, RingTypes
  <1>2. Unread(i) <=> trb[s].cycle = IF deq + i < RingSize THEN rcs ELSE 1 - rcs BY DEF Unread
  <1> HIDE DEF s
  <1>3. s \in Slot BY <1>1, RingTypes
  <1>4. trb[s].cycle = IF s < enq THEN pcs ELSE 1 - pcs BY <1>3 DEF EventRing
  <1>5. rcs = IF deq <= enq THEN pcs ELSE 1 - pcs BY DEF EventRing
  <1>6. Unread(i) <=> i < Size
    <2>1. CASE deq + i < RingSize BY <1>1, <1>2, <1>4, <1>5, <2>1, RingTypes DEF Size
    <2>2. CASE ~ (deq + i < RingSize) BY <1>1, <1>2, <1>4, <1>5, <2>2, RingTypes DEF Size
    <2> QED BY <2>1, <2>2
  <1> QED BY <1>1, <1>3, <1>6 DEF s

LEMMA ReadyFacts ==
  ASSUME TypeOK, EventRing
  PROVE  Ready = Size /\ Size \in 0 .. RingSize - 1
  <1>1. Size \in 0 .. RingSize - 1 BY RingTypes DEF Size
  <1> DEFINE P(n) == /\ \A i \in 0 .. n - 1 : Unread(i)
                     /\ n = RingSize \/ ~ Unread(n)
  <1>2. \A i \in 0 .. RingSize - 1 : Unread(i) <=> i < Size BY UnreadFacts
  <1>3. Ready = CHOOSE n \in 0 .. RingSize : P(n) BY DEF Ready
  <1> HIDE DEF Size
  <1>4. P(Size) BY <1>1, <1>2, RingTypes
  <1>5. ASSUME NEW n \in 0 .. RingSize, P(n) PROVE n = Size
    <2>1. CASE n < Size BY <1>1, <1>2, <1>5, <2>1, RingTypes
    <2>2. CASE n > Size
      <3>1. Size \in 0 .. n - 1 BY <1>1, <2>2, RingTypes
      <3> QED BY <1>1, <1>2, <1>5, <3>1
    <2> QED BY <1>1, <2>1, <2>2, RingTypes
  <1>6. Size \in 0 .. RingSize BY <1>1, RingTypes
  <1> HIDE DEF P
  <1>7. Ready \in 0 .. RingSize /\ P(Ready) BY <1>3, <1>4, <1>6
  <1> QED BY <1>1, <1>5, <1>7

\* What dequeue_events takes at once is the new slots, each once.
LEMMA NewFacts ==
  ASSUME TypeOK, EventRing
  PROVE  /\ New \subseteq Slot /\ enq \notin New
         /\ deq # enq <=> deq \in New
         /\ deq # enq <=> Ready > 0
         /\ New = {(deq + i) % RingSize : i \in 0 .. Ready - 1}
         /\ LET s == [i \in 1 .. Ready |-> (deq + i - 1) % RingSize]
            IN  s \in Seq(Slot) /\ ToSet(s) = New /\ Once(s)
  <1>1. /\ Ready \in 0 .. RingSize - 1
        /\ Ready = IF deq <= enq THEN enq - deq ELSE enq - deq + RingSize
    BY ReadyFacts DEF Size
  <1> DEFINE at(i) == IF deq + i < RingSize THEN deq + i ELSE deq + i - RingSize
  <1>2. \A i \in 0 .. Ready - 1 : (deq + i) % RingSize = at(i)
    <2> SUFFICES ASSUME NEW i \in 0 .. Ready - 1 PROVE (deq + i) % RingSize = at(i) OBVIOUS
    <2>1. i \in 0 .. RingSize - 1 BY <1>1, RingTypes
    <2> QED BY <2>1, UnreadFacts
  <1>3. New \subseteq Slot /\ enq \notin New BY RingTypes DEF New
  <1>4. /\ deq # enq <=> deq \in New
        /\ deq # enq <=> Ready > 0
    BY <1>1, RingTypes DEF New
  <1>5. \A i \in 0 .. Ready - 1 : at(i) \in New
    <2> SUFFICES ASSUME NEW i \in 0 .. Ready - 1 PROVE at(i) \in New OBVIOUS
    <2>1. /\ RingSize \in Nat /\ RingSize > 1 /\ Slot = 0 .. RingSize - 1
          /\ deq \in 0 .. RingSize - 1 /\ enq \in 0 .. RingSize - 1
      BY RingTypes
    <2>2. CASE deq <= enq BY <1>1, <2>1, <2>2 DEF New
    <2>3. CASE ~ (deq <= enq) /\ deq + i < RingSize BY <1>1, <2>1, <2>3 DEF New
    <2>4. CASE ~ (deq <= enq) /\ ~ (deq + i < RingSize) BY <1>1, <2>1, <2>4 DEF New
    <2> QED BY <2>2, <2>3, <2>4
  <1>6. \A j \in New : \E i \in 0 .. Ready - 1 : at(i) = j
    <2> SUFFICES ASSUME NEW j \in New PROVE \E i \in 0 .. Ready - 1 : at(i) = j OBVIOUS
    <2>1. CASE j >= deq
      <3>1. j - deq \in 0 .. Ready - 1 /\ at(j - deq) = j BY <1>1, <2>1, RingTypes DEF New
      <3> QED BY <3>1
    <2>2. CASE j < deq
      <3>1. j - deq + RingSize \in 0 .. Ready - 1 /\ at(j - deq + RingSize) = j
        BY <1>1, <2>2, RingTypes DEF New
      <3> QED BY <3>1
    <2> QED BY <1>3, <2>1, <2>2, RingTypes
  <1>7. \A i, j \in 0 .. Ready - 1 : at(i) = at(j) => i = j
    <2> SUFFICES ASSUME NEW i \in 0 .. Ready - 1, NEW j \in 0 .. Ready - 1, at(i) = at(j)
                 PROVE  i = j
      OBVIOUS
    <2>1. i \in Nat /\ j \in Nat /\ i < RingSize /\ j < RingSize BY <1>1, RingTypes
    <2>2. deq + i \in Nat /\ deq + j \in Nat /\ deq \in Nat BY <2>1, RingTypes
    <2>3. CASE deq + i < RingSize BY <2>1, <2>2, <2>3, RingTypes
    <2>4. CASE ~ (deq + i < RingSize) BY <2>1, <2>2, <2>4, RingTypes
    <2> QED BY <2>3, <2>4
  <1> HIDE DEF at
  <1>8. New = {(deq + i) % RingSize : i \in 0 .. Ready - 1}
    <2>1. \A j \in New : j \in {(deq + i) % RingSize : i \in 0 .. Ready - 1} BY <1>2, <1>6
    <2>2. \A i \in 0 .. Ready - 1 : (deq + i) % RingSize \in New BY <1>2, <1>5
    <2> QED BY <2>1, <2>2
  <1> DEFINE s == [i \in 1 .. Ready |-> (deq + i - 1) % RingSize]
  <1>9. \A i \in 1 .. Ready : i - 1 \in 0 .. Ready - 1 /\ s[i] = at(i - 1)
    <2> SUFFICES ASSUME NEW i \in 1 .. Ready PROVE i - 1 \in 0 .. Ready - 1 /\ s[i] = at(i - 1)
      OBVIOUS
    <2>1. i - 1 \in 0 .. Ready - 1 /\ deq + i - 1 = deq + (i - 1) BY <1>1, RingTypes
    <2>2. s[i] = (deq + (i - 1)) % RingSize BY <2>1
    <2> QED BY <1>2, <2>1, <2>2
  <1>10. DOMAIN s = 1 .. Ready OBVIOUS
  <1>11. s \in [1 .. Ready -> Slot]
    <2>1. \A i \in 1 .. Ready : (deq + i - 1) % RingSize \in Slot BY <1>3, <1>5, <1>9
    <2> QED BY <2>1
  <1> HIDE DEF s
  <1>12. s \in Seq(Slot) BY <1>1, <1>11
  <1>13. ToSet(s) = New
    <2>1. \A i \in 1 .. Ready : s[i] \in New BY <1>5, <1>9
    <2>2. ASSUME NEW j \in New PROVE j \in ToSet(s)
      <3>1. PICK i \in 0 .. Ready - 1 : at(i) = j BY <1>6
      <3>2. i + 1 \in 1 .. Ready /\ (i + 1) - 1 = i BY <1>1, RingTypes
      <3>3. s[i + 1] = j BY <1>9, <3>1, <3>2
      <3> QED BY <1>10, <3>2, <3>3 DEF ToSet
    <2> QED BY <1>10, <2>1, <2>2 DEF ToSet
  <1>14. Once(s)
    <2> SUFFICES ASSUME NEW i \in 1 .. Ready, NEW j \in 1 .. Ready, s[i] = s[j] PROVE i = j
      BY <1>10 DEF Once
    <2>1. i - 1 = j - 1 BY <1>7, <1>9
    <2> QED BY <1>1, <2>1, RingTypes
  <1> QED BY <1>3, <1>4, <1>8, <1>12, <1>13, <1>14 DEF s

\* The slots in the order of writing.
\* The reader moves on by one slot.
LEMMA AdvancedFacts ==
  ASSUME TypeOK, EventRing, deq # enq, Advanced(1), UNCHANGED <<trb, enq, pcs, erdp, behind>>
  PROVE  EventRing' /\ New' = New \ {deq} /\ deq' \in Slot /\ rcs' \in {0, 1}
  <1>1. deq' = (IF deq + 1 = RingSize THEN 0 ELSE deq + 1)
    <2>1. deq + 1 \in Nat /\ deq + 1 < 2 * RingSize BY RingTypes
    <2> QED BY <2>1, Wrap, RingTypes DEF Advanced
  <1>2. rcs' = (IF deq + 1 = RingSize THEN 1 - rcs ELSE rcs) BY RingTypes DEF Advanced
  <1>3. EventRing' BY <1>1, <1>2, RingTypes DEF EventRing
  <1>4. \A i \in Slot : i \in New' <=> i \in New /\ i # deq
    BY <1>1, RingTypes DEF New
  <1>5. New' \subseteq Slot BY <1>1, RingTypes DEF New
  <1>6. New \subseteq Slot BY NewFacts
  <1>7. New' = New \ {deq} BY <1>4, <1>5, <1>6
  <1> QED BY <1>1, <1>2, <1>3, <1>7, RingTypes

\* The reader takes all that is there.
LEMMA DrainedFacts ==
  ASSUME TypeOK, EventRing, Advanced(Ready), UNCHANGED <<trb, enq, pcs, behind>>,
         erdp' \in {erdp, deq'}
  PROVE  EventRing' /\ New' = {} /\ deq' = enq /\ rcs' \in {0, 1}
  <1>1. /\ Ready \in 0 .. RingSize - 1
        /\ Ready = IF deq <= enq THEN enq - deq ELSE enq - deq + RingSize
    BY ReadyFacts DEF Size
  <1>2. deq + Ready \in Nat /\ deq + Ready < 2 * RingSize BY <1>1, RingTypes
  <1>3. deq' = enq
    <2>1. PICK x \in Nat : x = deq + Ready /\ x < 2 * RingSize BY <1>2
    <2>2. x % RingSize = IF x < RingSize THEN x ELSE x - RingSize BY <2>1, Wrap
    <2>3. deq' = x % RingSize BY <2>1 DEF Advanced
    <2>4. x = IF deq <= enq THEN enq ELSE enq + RingSize BY <1>1, <2>1, RingTypes
    <2>5. x % RingSize = enq
      <3>1. CASE deq <= enq BY <2>2, <2>4, <3>1, RingTypes
      <3>2. CASE ~ (deq <= enq) BY <2>2, <2>4, <3>2, RingTypes
      <3> QED BY <3>1, <3>2
    <2> QED BY <2>3, <2>5
  <1>4. rcs' = IF deq + Ready >= RingSize THEN 1 - rcs ELSE rcs BY DEF Advanced
  <1>5. rcs' = pcs BY <1>1, <1>4, RingTypes DEF EventRing
  <1>6. EventRing' BY <1>3, <1>5, RingTypes DEF EventRing
  <1>7. New' = {} BY <1>3, RingTypes DEF New
  <1> QED BY <1>3, <1>5, <1>6, <1>7, RingTypes

\* The register follows the reader, or the thread put an old address back.
LEMMA PublishedFacts ==
  ASSUME TypeOK, EventRing, UNCHANGED <<trb, enq, pcs, deq, rcs>>,
         behind' \/ (~ behind /\ erdp' \in {erdp, deq})
  PROVE  EventRing' /\ New' = New
  BY RingTypes DEF EventRing, New

\* The controller writes a slot that is not in use.
LEMMA PostFacts ==
  ASSUME TypeOK, EventRing, NEW k, NEW n, Post(k, n)
  PROVE  /\ enq' \in Slot /\ pcs' \in {0, 1}
         /\ trb'[enq].kind = k /\ trb'[enq].n = n /\ trb'[enq].cycle = pcs
         /\ \A i \in Slot : i # enq => trb'[i] = trb[i]
         /\ ~ lapped' => EventRing' /\ New' = New \cup {enq} /\ enq \notin New
         /\ \A i \in Slot : i # enq => Before(enq', i, enq)
         /\ \A i \in Slot : ~ Before(enq', enq, i)
         /\ \A i, j \in Slot : i # enq /\ j # enq => (Before(enq', i, j) <=> Before(enq, i, j))
         /\ lapped' = (lapped \/ enq \in Held \/ (behind /\ enq' = deq))
         /\ UNCHANGED <<erdp, reader, flag, list, irq, thr, calls, pushed, raced, missed, behind,
                        flushed>>
  <1>1. enq' = (IF enq + 1 = RingSize THEN 0 ELSE enq + 1)
    <2>1. enq + 1 \in Nat /\ enq + 1 < 2 * RingSize BY RingTypes
    <2> QED BY <2>1, Wrap, RingTypes DEF Post
  <1>2. pcs' = IF enq' = 0 THEN 1 - pcs ELSE pcs BY DEF Post
  <1>3. enq' # erdp BY DEF Post
  <1>4. /\ trb' = [trb EXCEPT ![enq] = [kind |-> k, n |-> n, cycle |-> pcs]]
        /\ UNCHANGED <<erdp, reader, flag, list, irq, thr, calls, pushed, raced, missed, behind,
                       flushed>>
        /\ lapped' = (lapped \/ enq \in Held \/ (behind /\ enq' = deq))
    BY DEF Post
  <1>5. /\ trb'[enq] = [kind |-> k, n |-> n, cycle |-> pcs]
        /\ \A i \in Slot : i # enq => trb'[i] = trb[i]
    BY <1>4, RingTypes
  <1>6. deq' = deq /\ rcs' = rcs /\ erdp' = erdp /\ behind' = behind BY <1>4 DEF reader
  <1>a. ~ lapped' => deq # enq'
    <2>1. CASE behind BY <1>4, <2>1
    <2>2. CASE ~ behind
      <3>1. \/ erdp <= deq /\ deq <= enq
            \/ deq <= enq /\ enq < erdp
            \/ enq < erdp /\ erdp <= deq
        BY <2>2 DEF EventRing
      <3> QED BY <1>1, <1>3, <3>1, RingTypes
    <2> QED BY <2>1, <2>2
  <1>7. ASSUME deq # enq' PROVE EventRing'
    <2>1. trb'[enq].cycle = pcs BY <1>5
    <2>2. \A i \in Slot : trb'[i].cycle = IF i < enq' THEN pcs' ELSE 1 - pcs'
      <3> SUFFICES ASSUME NEW i \in Slot PROVE trb'[i].cycle = IF i < enq' THEN pcs' ELSE 1 - pcs'
        OBVIOUS
      <3>1. CASE i = enq BY <1>1, <1>2, <2>1, <3>1, RingTypes
      <3>2. CASE i # enq
        <4>1. trb'[i].cycle = IF i < enq THEN pcs ELSE 1 - pcs BY <1>5, <3>2 DEF EventRing
        <4> QED BY <1>1, <1>2, <3>2, <4>1, RingTypes
      <3> QED BY <3>1, <3>2
    <2>3. rcs' = IF deq' <= enq' THEN pcs' ELSE 1 - pcs'
      <3>1. rcs = IF deq <= enq THEN pcs ELSE 1 - pcs BY DEF EventRing
      <3> QED BY <1>1, <1>2, <1>6, <1>7, <3>1, RingTypes
    <2>4. \/ behind'
          \/ erdp' <= deq' /\ deq' <= enq'
          \/ deq' <= enq' /\ enq' < erdp'
          \/ enq' < erdp' /\ erdp' <= deq'
      BY <1>1, <1>3, <1>6, RingTypes DEF EventRing
    <2> QED BY <2>2, <2>3, <2>4 DEF EventRing
  <1>8. ASSUME deq # enq' PROVE New' = New \cup {enq} /\ enq \notin New
    <2>1. \A i \in Slot : i \in New' <=> i \in New \/ i = enq
      BY <1>1, <1>6, <1>8, RingTypes DEF New
    <2>2. New' \subseteq Slot BY <1>1, <1>6, RingTypes DEF New
    <2>3. New \subseteq Slot /\ enq \notin New BY NewFacts
    <2> QED BY <2>1, <2>2, <2>3, RingTypes
  <1>9. /\ \A i \in Slot : i # enq => Before(enq', i, enq)
        /\ \A i, j \in Slot : i # enq /\ j # enq => (Before(enq', i, j) <=> Before(enq, i, j))
        /\ \A i \in Slot : ~ Before(enq', enq, i)
    <2>1. PICK m, e, f : m = RingSize /\ e = enq /\ f = enq' OBVIOUS
    <2>2. m \in Nat /\ e \in 0 .. m - 1 /\ Slot = 0 .. m - 1 BY <2>1, RingTypes
    <2>3. f = IF e + 1 = m THEN 0 ELSE e + 1 BY <1>1, <2>1
    <2>4. /\ \A i \in 0 .. m - 1 : i # e => Before(f, i, e)
          /\ \A i, j \in 0 .. m - 1 : i # e /\ j # e => (Before(f, i, j) <=> Before(e, i, j))
          /\ \A i \in 0 .. m - 1 : ~ Before(f, e, i)
      BY <2>2, <2>3 DEF Before
    <2> QED BY <2>1, <2>2, <2>4
  <1>10. enq' \in Slot /\ pcs' \in {0, 1} BY <1>1, <1>2, RingTypes
  <1>11. trb'[enq].kind = k /\ trb'[enq].n = n /\ trb'[enq].cycle = pcs BY <1>5
  <1> QED BY <1>a, <1>4, <1>5, <1>7, <1>8, <1>9, <1>10, <1>11

\* What the controller writes is an event, and its flags stay flags.
LEMMA PostTypes ==
  ASSUME TypeOK, NEW k \in {"command", "control", "report"}, NEW n \in Nat, Post(k, n)
  PROVE  /\ trb' \in [Slot -> Event] /\ ip' \in BOOLEAN /\ ehb' \in BOOLEAN
         /\ posted' \in Nat /\ lapped' \in BOOLEAN
  <1>1. PICK e \in Event : e = [kind |-> k, n |-> n, cycle |-> pcs]
    <2>1. pcs \in {0, 1} BY DEF TypeOK
    <2> QED BY <2>1 DEF Event
  <1>2. /\ trb' = [trb EXCEPT ![enq] = e] /\ ip' = (ip \/ ~ehb) /\ ehb' = TRUE
        /\ posted' = posted + 1
        /\ lapped' = (lapped \/ enq \in Held \/ (behind /\ (enq + 1) % RingSize = deq))
    BY <1>1 DEF Post
  <1>3. trb \in [Slot -> Event] /\ ip \in BOOLEAN /\ posted \in Nat /\ lapped \in BOOLEAN
    BY DEF TypeOK
  <1>4. trb' \in [Slot -> Event]
    <2>1. trb' = [trb EXCEPT ![enq] = e] /\ trb \in [Slot -> Event] BY <1>2, <1>3
    <2> QED BY <2>1
  <1>5. ip' \in BOOLEAN /\ ehb' \in BOOLEAN /\ lapped' \in BOOLEAN BY <1>2
  <1>6. posted' \in Nat BY <1>2, <1>3
  <1> QED BY <1>4, <1>5, <1>6

-----------------------------------------------------------------------------
(* Types, and the rings.                                                   *)
\* What an action makes of a process that reads events.
LEMMA ContextFacts ==
  ASSUME NEW P, NEW c \in Context(P)
  PROVE  c.at \in P /\ c.evs \in Seq(Slot) /\ c.seen \in {0, 1} /\ c.addr \in Slot
  BY DEF Context

LEMMA WentFacts ==
  ASSUME NEW P, NEW c \in Context(P), NEW a \in P, NEW q, q = [c EXCEPT !.at = a]
  PROVE  q \in Context(P) /\ q.at = a /\ q.evs = c.evs /\ q.seen = c.seen
  BY DEF Context

\* Its address for ERDP changes too.
IrqPlaces == {"idle", "handle", "acknowledge"}
ThrPlaces == {"idle", "wait", "clear"} \cup Polling
Aimed(c, a, d) == [c EXCEPT !.at = a, !.addr = d]
LEMMA AimedFacts ==
  ASSUME NEW c \in Context(ThrPlaces), NEW a \in ThrPlaces, NEW d \in Slot
  PROVE  /\ Aimed(c, a, d) \in Context(ThrPlaces) /\ Aimed(c, a, d).at = a
         /\ Aimed(c, a, d).evs = c.evs /\ Aimed(c, a, d).seen = c.seen
  <1> HIDE DEF ThrPlaces
  <1> QED BY DEF Context, Aimed


Took(c, a, e) == [c EXCEPT !.at = a, !.evs = e]
LEMMA TookFacts ==
  ASSUME NEW c \in Context(ThrPlaces), NEW a \in ThrPlaces, NEW e \in Seq(Slot)
  PROVE  /\ Took(c, a, e) \in Context(ThrPlaces) /\ Took(c, a, e).at = a
         /\ Took(c, a, e).evs = e /\ Took(c, a, e).seen = c.seen
  <1> HIDE DEF ThrPlaces
  <1> QED BY DEF Context, Took

LEMMA IdleFacts ==
  /\ Idle \in Context(IrqPlaces) /\ Idle \in Context(ThrPlaces)
  /\ Idle.at = "idle" /\ Idle.evs = <<>> /\ Idle.seen = 0
  /\ \A q : q = [Idle EXCEPT !.at = "read"] =>
       q \in Context(ThrPlaces) /\ q.at = "read" /\ q.evs = <<>> /\ q.seen = 0
  <1>1. /\ Idle \in Context(IrqPlaces) /\ Idle \in Context(ThrPlaces)
        /\ Idle.at = "idle" /\ Idle.evs = <<>> /\ Idle.seen = 0
    <2>1. 0 \in Slot BY Consts
    <2> QED BY <2>1 DEF Idle, Context, IrqPlaces, ThrPlaces
  <1>2. "read" \in ThrPlaces BY DEF ThrPlaces, Polling
  <1> QED BY <1>1, <1>2, WentFacts

\* One event of a process is handled.
LEMMA NextFacts ==
  ASSUME NEW P, NEW c \in Context(P), c.evs # <<>>, NEW q, q = Next1(c)
  PROVE  /\ q \in Context(P) /\ q.at = c.at /\ q.evs = Tail(c.evs)
         /\ q.seen = IF IsCommand(Head(c.evs)) THEN 1 ELSE c.seen
  <1>1. c.evs \in Seq(Slot) /\ c.seen \in {0, 1} BY ContextFacts
  <1>2. Tail(c.evs) \in Seq(Slot) BY <1>1, TailFacts
  <1>3. Seen(c) = (IF IsCommand(Head(c.evs)) THEN 1 ELSE c.seen) /\ Seen(c) \in {0, 1}
    BY <1>1 DEF Seen, IsCommand
  <1>4. q = [c EXCEPT !.evs = Tail(c.evs), !.seen = Seen(c)] BY DEF Next1
  <1> QED BY <1>2, <1>3, <1>4 DEF Context

LEMMA HandleFacts ==
  ASSUME TypeOK, NEW i \in Slot, Handle(i)
  PROVE  /\ IsCommand(i) => list' = Append(list, i) /\ UNCHANGED <<pushed, armed>>
         /\ IsReport(i) => list' = list /\ pushed' = Append(pushed, trb[i].n) /\ armed' = TRUE
         /\ ~ IsCommand(i) /\ ~ IsReport(i) => UNCHANGED <<list, pushed, armed>>
         /\ list' \in Seq(Slot) /\ pushed' \in Seq(Nat) /\ armed' \in BOOLEAN
         /\ UNCHANGED <<commands, transfers, bell, dma, reported, again>>
  <1>1. trb[i].n \in Nat /\ list \in Seq(Slot) /\ pushed \in Seq(Nat) /\ armed \in BOOLEAN
    BY DEF TypeOK, Event
  <1>2. Append(list, i) \in Seq(Slot) /\ Append(pushed, trb[i].n) \in Seq(Nat) BY <1>1
  <1>3. CASE HandleCommand(trb[i], i)
    BY <1>1, <1>2, <1>3 DEF HandleCommand, IsCommand, IsReport, device, queues
  <1>4. CASE HandleReport(trb[i])
    BY <1>1, <1>2, <1>4 DEF HandleReport, IsCommand, IsReport, queues
  <1>5. CASE HandleControl(trb[i])
    BY <1>1, <1>2, <1>5 DEF HandleControl, IsCommand, IsReport, device, queues
  <1> QED BY <1>3, <1>4, <1>5 DEF Handle

LEMMA BaseInit == ASSUME Init PROVE Base
  <1>1. TypeOK
    <2>1. trb \in [Slot -> Event] /\ enq \in Slot /\ deq \in Slot /\ erdp \in Slot
      BY Consts DEF Init, Event
    <2>2. list \in Seq(Slot) /\ pushed \in Seq(Nat) BY DEF Init
    <2>3. irq \in Context(IrqPlaces) /\ thr \in Context(ThrPlaces) BY IdleFacts DEF Init
    <2>4. commands \in Queue /\ transfers \in Queue BY NewRingFacts DEF Init
    <2>5. answer \in Nat \X Nat BY DEF Init
    <2> QED BY <2>1, <2>2, <2>3, <2>4, <2>5 DEF Init, TypeOK, IrqPlaces, ThrPlaces
  <1>2. Rings BY NewRingFacts DEF Init, Rings
  <1>3. EventRing BY Consts DEF Init, EventRing
  <1> QED BY <1>1, <1>2, <1>3 DEF Base

\* Where the controller reads a command or a transfer, there is a TRB.
LEMMA QueueTrb ==
  ASSUME NEW r \in Queue
  PROVE  r.trb[r.deq] \in TRB /\ r.trb[r.deq].n \in Nat
  <1>1. r.trb \in [0 .. Link -> TRB] /\ r.deq \in 0 .. Link - 1 BY DEF Queue
  <1>2. r.deq \in 0 .. Link BY <1>1, Consts
  <1>3. r.trb[r.deq] \in TRB BY <1>1, <1>2
  <1> QED BY <1>3 DEF TRB

\* The controller's three steps.
LEMMA AnswerCommandFacts ==
  ASSUME Base, AnswerCommand
  PROVE  /\ TypeOK' /\ Rings' /\ (~ lapped' => Base')
         /\ Pending(commands) /\ Post("command", commands.trb[commands.deq].n)
         /\ commands' = Consumed(commands)
         /\ \/ /\ commands.trb[commands.deq].address
               /\ transfers' = Restarted(transfers) /\ bell' = FALSE /\ again' = asked
            \/ /\ ~ commands.trb[commands.deq].address
               /\ UNCHANGED <<transfers, bell, again>>
         /\ UNCHANGED <<dma, armed, reported>>
  <1> DEFINE c == commands.trb[commands.deq]
  <1>0. TypeOK /\ EventRing /\ RingOK(commands) /\ RingOK(transfers)
        /\ commands \in Queue /\ transfers \in Queue BY DEF Base, Rings, TypeOK
  <1>1. /\ Pending(commands) /\ Post("command", c.n)
        /\ commands' = Consumed(commands)
        /\ UNCHANGED <<dma, armed, reported>>
        /\ \/ /\ c.address /\ transfers' = Restarted(transfers) /\ bell' = FALSE
              /\ again' = asked
           \/ ~ c.address /\ UNCHANGED <<transfers, bell, again>>
    BY DEF AnswerCommand
  <1>2. c.n \in Nat BY <1>0, QueueTrb
  <1>3. commands' \in Queue /\ RingOK(commands)' BY <1>0, <1>1, ConsumedFacts
  <1>4. transfers' \in Queue /\ RingOK(transfers)' BY <1>0, <1>1, RestartedFacts
  <1> HIDE DEF c
  <1>5. TypeOK' /\ (~ lapped' => EventRing')
    <2>1. /\ enq' \in Slot /\ pcs' \in {0, 1} /\ (~ lapped' => EventRing')
          /\ UNCHANGED <<erdp, reader, flag, list, irq, thr, calls, pushed, raced, missed, behind,
                         flushed>>
      BY <1>0, <1>1, PostFacts
    <2>2. trb' \in [Slot -> Event] /\ ip' \in BOOLEAN /\ ehb' \in BOOLEAN /\ posted' \in Nat
          /\ lapped' \in BOOLEAN
      BY <1>0, <1>1, <1>2, PostTypes
    <2>3. again' \in Nat /\ bell' \in BOOLEAN BY <1>0, <1>1 DEF TypeOK
    <2> QED BY <1>0, <1>1, <1>3, <1>4, <2>1, <2>2, <2>3 DEF TypeOK, reader, calls
  <1>6. TypeOK' /\ Rings' /\ (~ lapped' => Base') BY <1>3, <1>4, <1>5 DEF Base, Rings
  <1> QED BY <1>1, <1>6 DEF c

LEMMA ServeTransferFacts ==
  ASSUME Base, ServeTransfer
  PROVE  /\ TypeOK' /\ Rings' /\ (~ lapped' => Base')
         /\ Pending(transfers) /\ dma' = transfers.trb[transfers.deq].n
         /\ Post("control", dma')
         /\ transfers' = Consumed(transfers) /\ bell
         /\ UNCHANGED <<commands, armed, reported, again>>
  <1>0. TypeOK /\ EventRing /\ RingOK(commands) /\ RingOK(transfers)
        /\ commands \in Queue /\ transfers \in Queue BY DEF Base, Rings, TypeOK
  <1>1. /\ Pending(transfers) /\ dma' = transfers.trb[transfers.deq].n
        /\ Post("control", dma')
        /\ transfers' = Consumed(transfers) /\ bell /\ bell' = Pending(transfers')
        /\ UNCHANGED <<commands, armed, reported, again>>
    BY DEF ServeTransfer
  <1>2. dma' \in Nat BY <1>0, <1>1, QueueTrb
  <1>3. transfers' \in Queue /\ RingOK(transfers)' BY <1>0, <1>1, ConsumedFacts
  <1>4. RingOK(commands)' BY <1>0, <1>1
  <1>5. TypeOK' /\ (~ lapped' => EventRing')
    <2>1. /\ enq' \in Slot /\ pcs' \in {0, 1} /\ (~ lapped' => EventRing')
          /\ UNCHANGED <<erdp, reader, flag, list, irq, thr, calls, pushed, raced, missed, behind,
                         flushed>>
      BY <1>0, <1>1, PostFacts
    <2>2. trb' \in [Slot -> Event] /\ ip' \in BOOLEAN /\ ehb' \in BOOLEAN /\ posted' \in Nat
          /\ lapped' \in BOOLEAN
      BY <1>0, <1>1, <1>2, PostTypes
    <2>3. bell' \in BOOLEAN BY <1>1 DEF Pending
    <2> QED BY <1>0, <1>1, <1>2, <1>3, <2>1, <2>2, <2>3 DEF TypeOK, reader, calls
  <1>6. TypeOK' /\ Rings' /\ (~ lapped' => Base') BY <1>3, <1>4, <1>5 DEF Base, Rings
  <1> QED BY <1>1, <1>6

LEMMA ReportFacts ==
  ASSUME Base, Report
  PROVE  /\ TypeOK' /\ Rings' /\ (~ lapped' => Base')
         /\ armed /\ armed' = FALSE /\ reported' = reported + 1 /\ Post("report", reported')
         /\ UNCHANGED <<commands, transfers, bell, dma, again>>
  <1>0. TypeOK /\ EventRing /\ Rings BY DEF Base
  <1>1. /\ armed /\ armed' = FALSE /\ reported' = reported + 1 /\ Post("report", reported')
        /\ UNCHANGED <<commands, transfers, dma, again, bell>>
    BY DEF Report, queues
  <1>2. reported' \in Nat BY <1>0, <1>1 DEF TypeOK
  <1>3. /\ enq' \in Slot /\ pcs' \in {0, 1} /\ (~ lapped' => EventRing')
        /\ UNCHANGED <<erdp, reader, flag, list, irq, thr, calls, pushed, raced, missed, behind,
                       flushed>>
    BY <1>0, <1>1, PostFacts
  <1>4. trb' \in [Slot -> Event] /\ ip' \in BOOLEAN /\ ehb' \in BOOLEAN /\ posted' \in Nat
        /\ lapped' \in BOOLEAN
    BY <1>0, <1>1, <1>2, PostTypes
  <1>5. TypeOK' BY <1>0, <1>1, <1>2, <1>3, <1>4 DEF TypeOK, reader, calls
  <1>6. Rings' BY <1>0, <1>1 DEF Rings
  <1> QED BY <1>1, <1>3, <1>5, <1>6 DEF Base

\* The handler.
LEMMA IrqDequeueFacts ==
  ASSUME Base, IrqDequeue
  PROVE  /\ Base'
         /\ irq.at = "idle" /\ irq'.at = "handle" /\ irq'.seen = 0
         /\ ToSet(irq'.evs) = New /\ Once(irq'.evs) /\ New' = {}
         /\ raced' = (raced \/ (deq # enq /\ thr.at \in {"advance", "drop"}))
         /\ UNCHANGED <<trb, enq, flag, list, thr, calls, device, pushed, lapped, missed, behind,
                        flushed>>
  <1>0. TypeOK /\ EventRing /\ Rings BY DEF Base
  <1> DEFINE s == [i \in 1 .. Ready |-> (deq + i - 1) % RingSize]
  <1>1. /\ irq.at = "idle" /\ irq' = [at |-> "handle", seen |-> 0, evs |-> s, addr |-> 0]
        /\ Advanced(Ready)
        /\ IF Ready = 0 THEN UNCHANGED ring ELSE Publish(deq')
        /\ raced' = (raced \/ (Ready > 0 /\ thr.at \in {"advance", "drop"}))
        /\ UNCHANGED <<flag, list, thr, calls, device, pushed, lapped, missed, behind,
                        flushed>>
    BY DEF IrqDequeue, Idle
  <1>2. s \in Seq(Slot) /\ ToSet(s) = New /\ Once(s) /\ (deq # enq <=> Ready > 0)
    BY <1>0, NewFacts
  <1> HIDE DEF s
  <1>3. /\ UNCHANGED <<trb, enq, pcs, posted>> /\ erdp' \in {erdp, deq'}
        /\ ip' \in BOOLEAN /\ ehb' \in BOOLEAN
    BY <1>0, <1>1 DEF Publish, ring, TypeOK
  <1>4. EventRing' /\ New' = {} /\ deq' = enq /\ rcs' \in {0, 1}
    BY <1>0, <1>1, <1>3, DrainedFacts
  <1>5. irq' \in Context(IrqPlaces) BY <1>1, <1>2, Consts DEF Context, IrqPlaces
  <1>6. raced' \in BOOLEAN BY <1>0, <1>1 DEF TypeOK
  <1>7. erdp' \in Slot /\ deq' \in Slot /\ enq' \in Slot BY <1>0, <1>3, <1>4 DEF TypeOK
  <1>8. UNCHANGED <<flag, list, thr, calls, device, pushed, lapped, missed, behind,
                        flushed>> BY <1>1
  <1>9. TypeOK' BY <1>0, <1>3, <1>4, <1>5, <1>6, <1>7, <1>8
    DEF TypeOK, IrqPlaces, calls, device, queues
  <1>10. Rings' BY <1>0, <1>8 DEF Rings, device, queues
  <1> QED BY <1>1, <1>2, <1>3, <1>4, <1>9, <1>10 DEF Base

LEMMA IrqHandleFacts ==
  ASSUME Base, IrqHandle
  PROVE  /\ Base'
         /\ irq.at = "handle"
         /\ irq.evs # <<>> =>
              /\ Handle(Head(irq.evs)) /\ irq'.at = "handle" /\ irq'.evs = Tail(irq.evs)
              /\ irq'.seen = (IF IsCommand(Head(irq.evs)) THEN 1 ELSE irq.seen)
              /\ flag' = flag
         /\ irq.evs = <<>> =>
              /\ flag' = irq.seen /\ irq'.at = "acknowledge"
              /\ irq'.evs = <<>> /\ irq'.seen = irq.seen
              /\ UNCHANGED <<list, pushed, armed>>
         /\ UNCHANGED <<ring, reader, thr, calls, history, queues, reported, again>>
  <1>0. TypeOK /\ EventRing /\ Rings /\ irq \in Context(IrqPlaces) BY DEF Base, TypeOK, IrqPlaces
  <1>1. irq.at = "handle" /\ UNCHANGED <<ring, reader, thr, calls, history>> BY DEF IrqHandle
  <1>2. irq.evs \in Seq(Slot) /\ irq.seen \in {0, 1} BY <1>0, ContextFacts
  <1>3. CASE irq.evs # <<>>
    <2>1. Handle(Head(irq.evs)) /\ irq' = Next1(irq) /\ flag' = flag BY <1>3 DEF IrqHandle
    <2>2. Head(irq.evs) \in Slot BY <1>2, <1>3
    <2>3. /\ list' \in Seq(Slot) /\ pushed' \in Seq(Nat) /\ armed' \in BOOLEAN
          /\ UNCHANGED <<commands, transfers, bell, dma, reported, again>>
      BY <1>0, <2>1, <2>2, HandleFacts
    <2>4. /\ irq' \in Context(IrqPlaces) /\ irq'.at = irq.at /\ irq'.evs = Tail(irq.evs)
          /\ irq'.seen = IF IsCommand(Head(irq.evs)) THEN 1 ELSE irq.seen
      BY <1>0, <1>3, <2>1, NextFacts
    <2>5. TypeOK' BY <1>0, <1>1, <2>1, <2>3, <2>4
      DEF TypeOK, IrqPlaces, ring, reader, calls, history
    <2>6. Rings' /\ EventRing' BY <1>0, <1>1, <2>3 DEF Rings, EventRing, ring, reader, history
    <2> QED BY <1>1, <1>3, <2>1, <2>3, <2>4, <2>5, <2>6 DEF Base, queues
  <1>4. CASE irq.evs = <<>>
    <2>1. /\ flag' = irq.seen /\ irq' = [irq EXCEPT !.at = "acknowledge"]
          /\ UNCHANGED <<list, pushed, device>>
      BY <1>4 DEF IrqHandle
    <2>2. "acknowledge" \in IrqPlaces BY DEF IrqPlaces
    <2>3. /\ irq' \in Context(IrqPlaces) /\ irq'.at = "acknowledge" /\ irq'.evs = irq.evs
          /\ irq'.seen = irq.seen
      BY <1>0, <2>1, <2>2, WentFacts
    <2>4. UNCHANGED <<list, pushed, armed, queues, reported, again>> BY <2>1 DEF device
    <2>5. TypeOK' BY <1>0, <1>1, <1>2, <2>1, <2>3, <2>4
      DEF TypeOK, IrqPlaces, ring, reader, calls, history, queues
    <2>6. Rings' /\ EventRing' BY <1>0, <1>1, <2>4 DEF Rings, EventRing, ring, reader, queues, history
    <2> QED BY <1>1, <1>4, <2>1, <2>3, <2>4, <2>5, <2>6 DEF Base
  <1> QED BY <1>3, <1>4

LEMMA IrqAcknowledgeFacts ==
  ASSUME Base, IrqAcknowledge
  PROVE  /\ Base'
         /\ irq.at = "acknowledge" /\ irq'.at = "idle" /\ irq'.evs = <<>> /\ irq'.seen = 0
         /\ UNCHANGED <<trb, enq, deq, flag, list, thr, calls, device, pushed, raced, lapped, behind,
                        flushed>>
         /\ New' = New
  <1>0. TypeOK /\ EventRing /\ Rings BY DEF Base
  <1>1. /\ irq.at = "acknowledge" /\ irq' = Idle /\ ip' = FALSE
        /\ missed' = (missed \/ Ready > 0)
        /\ UNCHANGED <<trb, enq, pcs, erdp, ehb, posted, reader, flag, list, thr, calls, device,
                 pushed, raced, lapped, behind, flushed>>
    BY DEF IrqAcknowledge
  <1>2. irq' \in Context(IrqPlaces) /\ irq'.at = "idle" /\ irq'.evs = <<>> /\ irq'.seen = 0
    BY <1>1, IdleFacts
  <1>a. /\ UNCHANGED <<trb, enq, pcs, erdp, ehb, posted, deq, rcs, flag, list, thr>>
        /\ UNCHANGED <<sent, asked, addressed, answer, late, slow, commands, transfers, bell, dma,
                       armed, reported, again, pushed, raced, lapped, behind, flushed>>
    BY <1>1 DEF reader, calls, device, queues
  <1>b. ip' \in BOOLEAN /\ missed' \in BOOLEAN BY <1>0, <1>1 DEF TypeOK
  <1>3. TypeOK' BY <1>0, <1>2, <1>a, <1>b DEF TypeOK, IrqPlaces
  <1>4. EventRing' /\ Rings' BY <1>0, <1>1 DEF EventRing, Rings, reader, device, queues
  <1>5. New' = New BY <1>1 DEF New, reader
  <1> QED BY <1>1, <1>2, <1>3, <1>4, <1>5 DEF Base, reader

\* The thread, in a command ...
LEMMA SendCommandFacts ==
  ASSUME Base, SendCommand
  PROVE  /\ Base'
         /\ thr.at = "idle" /\ irq.at = "idle"
         /\ thr'.at = "wait" /\ thr'.evs = thr.evs /\ thr'.seen = thr.seen
         /\ sent' = sent + 1
         /\ \E a \in BOOLEAN : /\ a => asked = 1 /\ ~ addressed
                               /\ commands' = Enqueued(commands, sent', a)
                               /\ addressed' = (addressed \/ a)
         /\ UNCHANGED <<ring, reader, flag, list, irq, asked, answer, late, slow, transfers, bell,
                        dma, armed, reported, again, pushed, history>>
  <1>0. TypeOK /\ EventRing /\ Rings /\ thr \in Context(ThrPlaces) /\ commands \in Queue
        /\ RingOK(commands)
    BY DEF Base, TypeOK, ThrPlaces, Rings
  <1>1. /\ thr.at = "idle" /\ irq.at = "idle" /\ sent' = sent + 1
        /\ thr' = [thr EXCEPT !.at = "wait"]
        /\ UNCHANGED <<ring, reader, flag, list, irq, asked, answer, late, slow, transfers, bell,
                 dma, armed, reported, again, pushed, history>>
    BY DEF SendCommand, At, Go
  <1>2. PICK a \in BOOLEAN : /\ a => asked = 1 /\ ~ addressed
                             /\ commands' = Enqueued(commands, sent', a)
                             /\ addressed' = (addressed \/ a)
    <2>1. PICK a \in {FALSE, asked = 1 /\ ~ addressed} :
            /\ commands' = Enqueued(commands, sent', a)
            /\ addressed' = (addressed \/ a)
      BY DEF SendCommand
    <2>2. CASE a = FALSE BY <2>1, <2>2
    <2>3. CASE a # FALSE
      <3>1. a = (asked = 1 /\ ~ addressed) BY <2>1, <2>3
      <3>2. a = TRUE BY <2>3, <3>1
      <3>3. asked = 1 /\ ~ addressed BY <3>1, <3>2
      <3> QED BY <2>1, <3>2, <3>3
    <2> QED BY <2>2, <2>3
  <1>3. "wait" \in ThrPlaces BY DEF ThrPlaces
  <1>4. thr' \in Context(ThrPlaces) /\ thr'.at = "wait" /\ thr'.evs = thr.evs /\ thr'.seen = thr.seen
    BY <1>0, <1>1, <1>3, WentFacts
  <1>5. sent' \in Nat /\ addressed' \in BOOLEAN BY <1>0, <1>1, <1>2 DEF TypeOK
  <1>6. commands' \in Queue /\ RingOK(commands)' BY <1>0, <1>2, <1>5, EnqueuedFacts
  <1>7. TypeOK' BY <1>0, <1>1, <1>4, <1>5, <1>6 DEF TypeOK, ThrPlaces, ring, reader, history
  <1>8. EventRing' /\ Rings' BY <1>0, <1>1, <1>6 DEF EventRing, Rings, ring, reader, history
  <1> QED BY <1>1, <1>2, <1>4, <1>7, <1>8 DEF Base

LEMMA TakeAnswerFacts ==
  ASSUME Base, TakeAnswer
  PROVE  /\ Base'
         /\ thr.at = "wait" /\ irq.at = "idle"
         /\ thr'.at = "clear" /\ thr'.evs = thr.evs /\ thr'.seen = thr.seen
         /\ answer'[1] = Completion
         /\ answer'[2] = (IF answer[1] = 0 THEN answer[2] ELSE answer[1])
         /\ late' = (late \/ (flag = 0 /\ Completion # sent))
         /\ UNCHANGED <<ring, reader, flag, list, irq, sent, asked, addressed, slow, device, pushed, history>>
  <1>0. TypeOK /\ EventRing /\ Rings /\ thr \in Context(ThrPlaces)
    BY DEF Base, TypeOK, ThrPlaces
  <1>1. /\ thr.at = "wait" /\ irq.at = "idle" /\ thr' = [thr EXCEPT !.at = "clear"]
        /\ answer' = <<Completion, IF answer[1] = 0 THEN answer[2] ELSE answer[1]>>
        /\ late' = (late \/ (flag = 0 /\ Completion # sent))
        /\ UNCHANGED <<ring, reader, flag, list, irq, sent, asked, addressed, slow, device, pushed, history>>
    BY DEF TakeAnswer, At, Go
  <1>2. "clear" \in ThrPlaces BY DEF ThrPlaces
  <1>3. thr' \in Context(ThrPlaces) /\ thr'.at = "clear" /\ thr'.evs = thr.evs /\ thr'.seen = thr.seen
    BY <1>0, <1>1, <1>2, WentFacts
  <1>4. Completion \in Nat
    <2>1. CASE list = <<>> BY <2>1 DEF Completion
    <2>2. CASE list # <<>>
      <3>1. list[1] \in Slot BY <1>0, <2>2 DEF TypeOK
      <3> QED BY <1>0, <2>2, <3>1 DEF Completion, TypeOK, Event
    <2> QED BY <2>1, <2>2
  <1>5. answer' \in Nat \X Nat /\ late' \in BOOLEAN BY <1>0, <1>1, <1>4 DEF TypeOK
  <1>6. TypeOK' BY <1>0, <1>1, <1>3, <1>5 DEF TypeOK, ThrPlaces, ring, reader, device, queues, history
  <1>7. EventRing' /\ Rings' BY <1>0, <1>1 DEF EventRing, Rings, ring, reader, device, queues, history
  <1> QED BY <1>1, <1>3, <1>6, <1>7 DEF Base

LEMMA ClearFacts ==
  ASSUME Base, Clear
  PROVE  /\ Base'
         /\ thr.at = "clear" /\ irq.at = "idle" /\ list' = <<>> /\ flag' = 0
         /\ thr'.at = "idle" /\ thr'.evs = <<>> /\ thr'.seen = 0
         /\ UNCHANGED <<ring, reader, irq, calls, device, pushed, history>>
  <1>0. TypeOK /\ EventRing /\ Rings BY DEF Base
  <1>1. /\ thr.at = "clear" /\ irq.at = "idle" /\ list' = <<>> /\ flag' = 0 /\ thr' = Idle
        /\ UNCHANGED <<ring, reader, irq, calls, device, pushed, history>>
    BY DEF Clear, At
  <1>2. thr' \in Context(ThrPlaces) /\ thr'.at = "idle" /\ thr'.evs = <<>> /\ thr'.seen = 0
    BY <1>1, IdleFacts
  <1>3. list' \in Seq(Slot) BY <1>1
  <1>4. TypeOK' BY <1>0, <1>1, <1>2, <1>3
    DEF TypeOK, ThrPlaces, ring, reader, calls, device, queues, history
  <1>5. EventRing' /\ Rings' BY <1>0, <1>1 DEF EventRing, Rings, ring, reader, device, queues, history
  <1> QED BY <1>1, <1>2, <1>4, <1>5 DEF Base

\* ... and in a control transfer.
LEMMA TransferFacts ==
  ASSUME Base, Transfer
  PROVE  /\ Base'
         /\ thr.at = "idle" /\ irq.at = "idle" /\ asked' = asked + 1 /\ dma' = 0 /\ bell' = TRUE
         /\ transfers' = Enqueued(transfers, asked', FALSE)
         /\ thr'.at = "read" /\ thr'.evs = <<>> /\ thr'.seen = 0
         /\ UNCHANGED <<ring, reader, flag, list, irq, sent, addressed, answer, late, slow, commands,
                        armed, reported, again, pushed, history>>
  <1>0. TypeOK /\ EventRing /\ Rings /\ transfers \in Queue /\ RingOK(transfers)
    BY DEF Base, TypeOK, Rings
  <1>1. /\ thr.at = "idle" /\ irq.at = "idle" /\ asked' = asked + 1 /\ dma' = 0 /\ bell' = TRUE
        /\ transfers' = Enqueued(transfers, asked', FALSE)
        /\ thr' = [Idle EXCEPT !.at = "read"]
        /\ UNCHANGED <<ring, reader, flag, list, irq, sent, addressed, answer, late, slow, commands,
                        armed, reported, again, pushed, history>>
    BY DEF Transfer, At
  <1>2. thr' \in Context(ThrPlaces) /\ thr'.at = "read" /\ thr'.evs = <<>> /\ thr'.seen = 0
    BY <1>1, IdleFacts
  <1>3. asked' \in Nat /\ FALSE \in BOOLEAN BY <1>0, <1>1 DEF TypeOK
  <1>4. transfers' \in Queue /\ RingOK(transfers)' BY <1>0, <1>1, <1>3, EnqueuedFacts
  <1>5. TypeOK'
    <2>1. thr' \in Context({"idle", "wait", "clear"} \cup Polling) BY <1>2 DEF ThrPlaces
    <2>2. bell' \in BOOLEAN /\ dma' \in Nat BY <1>1
    <2>3. UNCHANGED <<ring, reader, flag, list, irq, sent, addressed, answer, late, slow, commands,
                      armed, reported, again, pushed, history>>
      BY <1>1
    <2>4. TypeOK BY <1>0
    <2> QED BY <1>3, <1>4, <2>1, <2>2, <2>3, <2>4 DEF TypeOK, ring, reader, history
  <1>6. EventRing' /\ Rings' BY <1>0, <1>1, <1>4 DEF EventRing, Rings, ring, reader, history
  <1> QED BY <1>1, <1>2, <1>5, <1>6 DEF Base

LEMMA ReadFacts ==
  ASSUME Base, Read
  PROVE  /\ Base'
         /\ thr.at \in {"read", "flush"} /\ irq.at = "idle"
         /\ deq # enq =>
              /\ thr'.at = (IF thr.at = "read" THEN "advance" ELSE "drop")
              /\ thr'.evs = Append(thr.evs, deq)
         /\ deq = enq =>
              /\ thr'.at = (IF thr.at = "flush" \/ thr.evs # <<>> THEN "publish" ELSE "handle")
              /\ thr'.evs = thr.evs
         /\ thr'.seen = thr.seen
         /\ UNCHANGED <<ring, reader, flag, list, irq, calls, device, pushed, history>>
  <1>0. TypeOK /\ EventRing /\ Rings /\ thr \in Context(ThrPlaces) BY DEF Base, TypeOK, ThrPlaces
  <1>1. /\ thr.at \in {"read", "flush"} /\ irq.at = "idle"
        /\ UNCHANGED <<ring, reader, flag, list, irq, calls, device, pushed, history>>
    BY DEF Read, At
  <1>2. Unread(0) <=> deq # enq
    <2>1. 0 \in 0 .. RingSize - 1 BY Consts
    <2>2. Unread(0) <=> 0 < Size BY <1>0, <2>1, UnreadFacts
    <2>3. 0 < Size <=> deq # enq BY <1>0, RingTypes DEF Size
    <2> QED BY <2>2, <2>3
  <1>3. thr.evs \in Seq(Slot) /\ deq \in Slot BY <1>0, ContextFacts DEF TypeOK
  <1>4. CASE deq # enq
    <2> DEFINE a == IF thr.at = "read" THEN "advance" ELSE "drop"
    <2>1. thr' = Took(thr, a, Append(thr.evs, deq)) BY <1>2, <1>4 DEF Read, Took
    <2>2. a \in ThrPlaces /\ Append(thr.evs, deq) \in Seq(Slot) BY <1>3 DEF ThrPlaces, Polling
    <2> HIDE DEF a
    <2>3. /\ thr' \in Context(ThrPlaces) /\ thr'.at = a /\ thr'.evs = Append(thr.evs, deq)
          /\ thr'.seen = thr.seen
      <3>1. PICK e : e = Append(thr.evs, deq) /\ e \in Seq(Slot) BY <2>2
      <3>2. thr' = Took(thr, a, e) BY <2>1, <3>1
      <3>3. thr' \in Context(ThrPlaces) /\ thr'.at = a /\ thr'.evs = e /\ thr'.seen = thr.seen
        <4>1. thr \in Context(ThrPlaces) /\ a \in ThrPlaces /\ e \in Seq(Slot) BY <1>0, <2>2, <3>1
        <4>2. /\ Took(thr, a, e) \in Context(ThrPlaces) /\ Took(thr, a, e).at = a
              /\ Took(thr, a, e).evs = e /\ Took(thr, a, e).seen = thr.seen
          BY <4>1, TookFacts
        <4> QED BY <3>2, <4>2
      <3> QED BY <3>1, <3>3
    <2>4. TypeOK' BY <1>0, <1>1, <2>3
      DEF TypeOK, ThrPlaces, ring, reader, calls, device, queues, history
    <2>5. EventRing' /\ Rings' BY <1>0, <1>1 DEF EventRing, Rings, ring, reader, device, queues, history
    <2> QED BY <1>1, <1>4, <2>3, <2>4, <2>5 DEF Base, a
  <1>5. CASE deq = enq
    <2> DEFINE a == IF thr.at = "flush" \/ thr.evs # <<>> THEN "publish" ELSE "handle"
    <2>1. thr' = [thr EXCEPT !.at = a] BY <1>2, <1>5 DEF Read, Go
    <2>2. a \in ThrPlaces BY DEF ThrPlaces, Polling, Storing
    <2> HIDE DEF a
    <2>3. thr' \in Context(ThrPlaces) /\ thr'.at = a /\ thr'.evs = thr.evs /\ thr'.seen = thr.seen
      BY <1>0, <2>1, <2>2, WentFacts
    <2>4. TypeOK' BY <1>0, <1>1, <2>3
      DEF TypeOK, ThrPlaces, ring, reader, calls, device, queues, history
    <2>5. EventRing' /\ Rings' BY <1>0, <1>1 DEF EventRing, Rings, ring, reader, device, queues, history
    <2> QED BY <1>1, <1>5, <2>3, <2>4, <2>5 DEF Base, a
  <1> QED BY <1>4, <1>5

LEMMA AdvanceFacts ==
  ASSUME Base, Advance, deq # enq, thr.evs # <<>>
  PROVE  /\ Base'
         /\ thr.at \in {"advance", "drop"} /\ irq.at = "idle" /\ New' = New \ {deq}
         /\ flushed' = (IF thr.at = "drop" /\ IsReport(Last(thr.evs))
                        THEN flushed \cup {trb[Last(thr.evs)].n} ELSE flushed)
         /\ thr.at = "drop" => thr'.at = "flush" /\ thr'.evs = <<>>
         /\ thr.at = "advance" => thr'.at = "read" /\ thr'.evs = thr.evs
         /\ thr'.seen = thr.seen
         /\ UNCHANGED <<ring, flag, list, irq, calls, device, pushed, raced, lapped, missed, behind>>
  <1>0. TypeOK /\ EventRing /\ Rings /\ thr \in Context(ThrPlaces) BY DEF Base, TypeOK, ThrPlaces
  <1>1. /\ thr.at \in {"advance", "drop"} /\ irq.at = "idle" /\ Advanced(1)
        /\ flushed' = (IF thr.at = "drop" /\ IsReport(Last(thr.evs))
                       THEN flushed \cup {trb[Last(thr.evs)].n} ELSE flushed)
        /\ UNCHANGED <<ring, flag, list, irq, calls, device, pushed, raced, lapped, missed, behind>>
    BY DEF Advance, At, IsReport
  <1>2. /\ thr.at = "drop" => thr' = Took(thr, "flush", <<>>)
        /\ thr.at = "advance" => thr' = [thr EXCEPT !.at = "read"]
    BY <1>1 DEF Advance, Go, Took
  <1>3. {"flush", "read"} \subseteq ThrPlaces /\ <<>> \in Seq(Slot) BY DEF ThrPlaces, Polling
  <1>4. /\ thr.at = "drop" => thr'.at = "flush" /\ thr'.evs = <<>>
        /\ thr.at = "advance" => thr'.at = "read" /\ thr'.evs = thr.evs
        /\ thr' \in Context(ThrPlaces) /\ thr'.seen = thr.seen
    <2>1. CASE thr.at = "drop"
      <3>1. PICK e : e = <<>> /\ e \in Seq(Slot) BY <1>3
      <3>2. thr' = Took(thr, "flush", e) /\ "flush" \in ThrPlaces BY <1>2, <1>3, <2>1, <3>1
      <3>3. thr' \in Context(ThrPlaces) /\ thr'.at = "flush" /\ thr'.evs = e /\ thr'.seen = thr.seen
        <4>1. thr \in Context(ThrPlaces) BY <1>0
        <4>2. /\ Took(thr, "flush", e) \in Context(ThrPlaces) /\ Took(thr, "flush", e).at = "flush"
              /\ Took(thr, "flush", e).evs = e /\ Took(thr, "flush", e).seen = thr.seen
          BY <3>1, <4>1 DEF Took, Context, ThrPlaces, Polling
        <4> QED BY <3>2, <4>2
      <3> QED BY <2>1, <3>1, <3>3
    <2>2. CASE thr.at = "advance"
      <3>1. thr' = [thr EXCEPT !.at = "read"] /\ "read" \in ThrPlaces BY <1>2, <1>3, <2>2
      <3> QED BY <1>0, <2>2, <3>1, WentFacts
    <2> QED BY <1>1, <2>1, <2>2
  <1>5. EventRing' /\ New' = New \ {deq} /\ deq' \in Slot /\ rcs' \in {0, 1}
    <2>1. UNCHANGED <<trb, enq, pcs, erdp, behind>> BY <1>1 DEF ring
    <2> QED BY <1>0, <1>1, <2>1, AdvancedFacts
  <1>6. flushed' \subseteq Nat
    <2>1. Last(thr.evs) \in Slot
      <3>1. thr.evs \in Seq(Slot) BY <1>0, ContextFacts
      <3> QED BY <3>1 DEF Last
    <2> QED BY <1>0, <1>1, <2>1 DEF TypeOK, Event
  <1>7. UNCHANGED <<ring, flag, list, irq, calls, device, pushed, raced, lapped, missed, behind>> BY <1>1
  <1>8. TypeOK' BY <1>0, <1>4, <1>5, <1>6, <1>7
    DEF TypeOK, ThrPlaces, ring, calls, device, queues
  <1>9. Rings' BY <1>0, <1>7 DEF Rings, device, queues
  <1> QED BY <1>1, <1>4, <1>5, <1>8, <1>9 DEF Base

\* The four steps that lead to ERDP.
Publishing == Address \/ Store \/ Load \/ StoreBusy
LEMMA PublishingFacts ==
  ASSUME Base, Publishing
  PROVE  /\ Base'
         /\ thr.at \in Storing /\ irq.at = "idle" /\ New' = New
         /\ thr'.at \in Storing \/ thr'.at = (IF thr.evs # <<>> THEN "handle" ELSE "again")
         /\ thr'.evs = thr.evs /\ thr'.seen = thr.seen
         /\ UNCHANGED <<trb, enq, deq, flag, list, irq, calls, device, pushed, raced, lapped, missed,
                        flushed>>
  <1>0. TypeOK /\ EventRing /\ Rings /\ thr \in Context(ThrPlaces) BY DEF Base, TypeOK, ThrPlaces
  <1>1. /\ thr.at \in Storing /\ irq.at = "idle"
        /\ UNCHANGED <<trb, enq, pcs, posted, deq, rcs, flag, list, irq, calls, device, pushed,
                       raced, lapped, missed, flushed>>
    BY DEF Publishing, Address, Store, Load, StoreBusy, Publish, At, Storing, ring, reader, history
  <1>2. deq \in Slot /\ erdp \in Slot /\ thr.addr \in Slot /\ 0 \in Slot
    BY <1>0, ContextFacts, Consts DEF TypeOK
  <1>3. /\ thr' \in Context(ThrPlaces) /\ thr'.evs = thr.evs /\ thr'.seen = thr.seen
        /\ thr'.at \in Storing \/ thr'.at = (IF thr.evs # <<>> THEN "handle" ELSE "again")
    <2>0. Storing \cup {"handle", "again"} \subseteq ThrPlaces BY DEF ThrPlaces, Polling
    <2>a. {"store", "load", "busy"} \subseteq Storing BY DEF Storing
    <2>1. CASE Address
      <3>1. thr' = Aimed(thr, "store", deq) BY <2>1 DEF Address, Aimed
      <3>2. "store" \in ThrPlaces /\ "store" \in Storing BY <2>0, <2>a
      <3> QED BY <1>0, <1>2, <3>1, <3>2, AimedFacts
    <2>2. CASE Store
      <3>1. thr' = [thr EXCEPT !.at = "load"] BY <2>2 DEF Store, Go
      <3> QED BY <1>0, <2>0, <2>a, <3>1, WentFacts
    <2>3. CASE Load
      <3>1. thr' = Aimed(thr, "busy", erdp) BY <2>3 DEF Load, Aimed
      <3>2. "busy" \in ThrPlaces /\ "busy" \in Storing BY <2>0, <2>a
      <3> QED BY <1>0, <1>2, <3>1, <3>2, AimedFacts
    <2>4. CASE StoreBusy
      <3> DEFINE a == IF thr.evs # <<>> THEN "handle" ELSE "again"
      <3>1. thr' = Aimed(thr, a, 0) BY <2>4 DEF StoreBusy, Aimed
      <3>2. a \in ThrPlaces BY <2>0
      <3> HIDE DEF a
      <3>3. thr' \in Context(ThrPlaces) /\ thr'.at = a /\ thr'.evs = thr.evs /\ thr'.seen = thr.seen
        BY <1>0, <1>2, <3>1, <3>2, AimedFacts
      <3> QED BY <3>3 DEF a
    <2> QED BY <2>1, <2>2, <2>3, <2>4 DEF Publishing
  <1>4. /\ erdp' \in Slot /\ ip' \in BOOLEAN /\ ehb' \in BOOLEAN /\ behind' \in BOOLEAN
        /\ EventRing' /\ New' = New
    <2>1. CASE Address \/ Load
      <3>1. UNCHANGED <<erdp, ip, ehb, behind>> BY <2>1 DEF Address, Load, ring, history
      <3>2. EventRing' /\ New' = New BY <1>0, <1>1, <3>1 DEF EventRing, New
      <3> QED BY <1>0, <3>1, <3>2 DEF TypeOK
    <2>2. CASE Store \/ StoreBusy
      <3>1. erdp' = thr.addr /\ behind' = (behind \/ thr.addr # deq)
        BY <2>2 DEF Store, StoreBusy, Publish
      <3>2. ip' \in BOOLEAN /\ ehb' \in BOOLEAN
        BY <1>0, <2>2 DEF Store, StoreBusy, Publish, TypeOK
      <3>3. behind' \/ (~ behind /\ erdp' \in {erdp, deq}) BY <3>1
      <3>4. EventRing' /\ New' = New BY <1>0, <1>1, <3>3, PublishedFacts
      <3>5. erdp' \in Slot /\ behind' \in BOOLEAN BY <1>0, <1>2, <3>1 DEF TypeOK
      <3> QED BY <3>2, <3>4, <3>5
    <2> QED BY <2>1, <2>2 DEF Publishing
  <1>5. TypeOK' BY <1>0, <1>1, <1>3, <1>4 DEF TypeOK, ThrPlaces, calls, device, queues
  <1>6. Rings' BY <1>0, <1>1 DEF Rings, device, queues
  <1> QED BY <1>1, <1>3, <1>4, <1>5, <1>6 DEF Base

LEMMA HandleReadFacts ==
  ASSUME Base, HandleRead
  PROVE  /\ Base'
         /\ thr.at = "handle" /\ irq.at = "idle"
         /\ thr.evs # <<>> =>
              /\ Handle(Head(thr.evs)) /\ thr'.at = "handle" /\ thr'.evs = Tail(thr.evs)
              /\ thr'.seen = (IF IsCommand(Head(thr.evs)) THEN 1 ELSE thr.seen)
              /\ flag' = flag
         /\ thr.evs = <<>> =>
              /\ flag' = thr.seen /\ thr'.at = "flush"
              /\ thr'.evs = <<>> /\ thr'.seen = thr.seen
              /\ UNCHANGED <<list, pushed, armed>>
         /\ UNCHANGED <<ring, reader, irq, calls, history, queues, reported, again>>
  <1>0. TypeOK /\ EventRing /\ Rings /\ thr \in Context(ThrPlaces) BY DEF Base, TypeOK, ThrPlaces
  <1>1. thr.at = "handle" /\ irq.at = "idle" /\ UNCHANGED <<ring, reader, irq, calls, history>>
    BY DEF HandleRead, At
  <1>2. thr.evs \in Seq(Slot) /\ thr.seen \in {0, 1} BY <1>0, ContextFacts
  <1>3. CASE thr.evs # <<>>
    <2>1. Handle(Head(thr.evs)) /\ thr' = Next1(thr) /\ flag' = flag BY <1>3 DEF HandleRead
    <2>2. Head(thr.evs) \in Slot BY <1>2, <1>3
    <2>3. /\ list' \in Seq(Slot) /\ pushed' \in Seq(Nat) /\ armed' \in BOOLEAN
          /\ UNCHANGED <<commands, transfers, bell, dma, reported, again>>
      BY <1>0, <2>1, <2>2, HandleFacts
    <2>4. /\ thr' \in Context(ThrPlaces) /\ thr'.at = thr.at /\ thr'.evs = Tail(thr.evs)
          /\ thr'.seen = IF IsCommand(Head(thr.evs)) THEN 1 ELSE thr.seen
      BY <1>0, <1>3, <2>1, NextFacts
    <2>5. TypeOK' BY <1>0, <1>1, <2>1, <2>3, <2>4
      DEF TypeOK, ThrPlaces, ring, reader, calls, history
    <2>6. Rings' /\ EventRing' BY <1>0, <1>1, <2>3 DEF Rings, EventRing, ring, reader, history
    <2> QED BY <1>1, <1>3, <2>1, <2>3, <2>4, <2>5, <2>6 DEF Base, queues
  <1>4. CASE thr.evs = <<>>
    <2>1. /\ flag' = thr.seen /\ thr' = [thr EXCEPT !.at = "flush"]
          /\ UNCHANGED <<list, pushed, device>>
      BY <1>4 DEF HandleRead, Go
    <2>2. "flush" \in ThrPlaces BY DEF ThrPlaces, Polling
    <2>3. /\ thr' \in Context(ThrPlaces) /\ thr'.at = "flush" /\ thr'.evs = thr.evs
          /\ thr'.seen = thr.seen
      BY <1>0, <2>1, <2>2, WentFacts
    <2>4. UNCHANGED <<list, pushed, armed, queues, reported, again>> BY <2>1 DEF device
    <2>5. TypeOK' BY <1>0, <1>1, <1>2, <2>1, <2>3, <2>4
      DEF TypeOK, ThrPlaces, ring, reader, calls, history, queues
    <2>6. Rings' /\ EventRing' BY <1>0, <1>1, <2>4 DEF Rings, EventRing, ring, reader, queues, history
    <2> QED BY <1>1, <1>4, <2>1, <2>3, <2>4, <2>5, <2>6 DEF Base
  <1> QED BY <1>3, <1>4

LEMMA AgainFacts ==
  ASSUME Base, Again
  PROVE  /\ Base'
         /\ thr.at = "again" /\ irq.at = "idle"
         /\ \/ thr'.at = "read" /\ UNCHANGED slow
            \/ /\ thr'.at = "idle"
               /\ slow' = IF slow = 0 /\ ~ AllServed THEN asked ELSE slow
         /\ thr'.evs = <<>> /\ thr'.seen = 0
         /\ UNCHANGED <<ring, reader, flag, list, irq, sent, asked, addressed, answer, late, device,
                        pushed, history>>
  <1>0. TypeOK /\ EventRing /\ Rings BY DEF Base
  <1>1. /\ thr.at = "again" /\ irq.at = "idle"
        /\ UNCHANGED <<ring, reader, flag, list, irq, sent, asked, addressed, answer, late, device,
                       pushed, history>>
        /\ \/ thr' = [Idle EXCEPT !.at = "read"] /\ UNCHANGED slow
           \/ /\ thr' = Idle
              /\ slow' = IF slow = 0 /\ ~ AllServed THEN asked ELSE slow
    BY DEF Again, At
  <1>2. /\ thr' \in Context(ThrPlaces) /\ thr'.evs = <<>> /\ thr'.seen = 0
        /\ \/ thr'.at = "read" /\ UNCHANGED slow
           \/ /\ thr'.at = "idle"
              /\ slow' = IF slow = 0 /\ ~ AllServed THEN asked ELSE slow
    BY <1>1, IdleFacts
  <1>3. slow' \in Nat BY <1>0, <1>2 DEF TypeOK
  <1>4. TypeOK' BY <1>0, <1>1, <1>2, <1>3
    DEF TypeOK, ThrPlaces, ring, reader, device, queues, history
  <1>5. EventRing' /\ Rings' BY <1>0, <1>1 DEF EventRing, Rings, ring, reader, device, queues, history
  <1> QED BY <1>1, <1>2, <1>4, <1>5 DEF Base

-----------------------------------------------------------------------------
(* Who has which event.                                                    *)
LEMMA PlacesTypes ==
  ASSUME TypeOK, EventRing
  PROVE  /\ Rest \subseteq New /\ New \subseteq Slot /\ Held \subseteq Slot /\ Places \subseteq Slot
         /\ irq.evs \in Seq(Slot) /\ thr.evs \in Seq(Slot) /\ list \in Seq(Slot)
         /\ ToSet(irq.evs) \subseteq Held /\ ToSet(thr.evs) \subseteq Held /\ ToSet(list) \subseteq Held
  <1>1. irq.evs \in Seq(Slot) /\ thr.evs \in Seq(Slot) /\ list \in Seq(Slot)
    BY ContextFacts DEF TypeOK
  <1>2. ToSet(irq.evs) \subseteq Slot /\ ToSet(thr.evs) \subseteq Slot /\ ToSet(list) \subseteq Slot
    BY <1>1, SetFacts
  <1>3. Rest \subseteq New /\ New \subseteq Slot BY NewFacts DEF Rest
  <1> QED BY <1>1, <1>2, <1>3 DEF Held, Places

\* A new event is the last of those that nobody has.
LEMMA PostReaders ==
  ASSUME TypeOK, EventRing, Readers, NEW k, NEW n, Post(k, n), ~ lapped'
  PROVE  /\ Readers'
         /\ enq \notin Held /\ enq \notin Places
         /\ Rest' = Rest \cup {enq} /\ Held' = Held /\ Places' = Places \cup {enq}
         /\ \A i \in Held \cup Places : i \in Slot /\ trb'[i] = trb[i]
  <1>1. /\ EventRing' /\ New' = New \cup {enq} /\ enq \notin New
        /\ \A i \in Slot : i # enq => trb'[i] = trb[i]
        /\ \A i \in Slot : i # enq => Before(enq', i, enq)
        /\ \A i, j \in Slot : i # enq /\ j # enq => (Before(enq', i, j) <=> Before(enq, i, j))
        /\ lapped' = (lapped \/ enq \in Held)
        /\ UNCHANGED <<reader, list, irq, thr>>
    BY PostFacts
  <1>2. enq \notin Held BY <1>1
  <1>3. deq' = deq /\ list' = list /\ irq' = irq /\ thr' = thr BY <1>1 DEF reader
  <1>4. Held' = Held BY <1>3 DEF Held
  <1>5. enq \notin Places BY <1>1, <1>2 DEF Places, Held, Rest
  <1>6. thr.at \in {"advance", "drop"} => deq # enq BY DEF Readers
  <1>7. Rest' = Rest \cup {enq} BY <1>1, <1>3, <1>6 DEF Rest
  <1>8. Places' = Places \cup {enq} BY <1>3, <1>7 DEF Places
  <1>9. \A i \in Held \cup Places : i \in Slot /\ i # enq /\ trb'[i] = trb[i]
    BY <1>1, <1>2, <1>5, PlacesTypes
  <1>10. \A i \in Held', j \in Rest' : i # j /\ Before(enq', i, j)
    <2> SUFFICES ASSUME NEW i \in Held, NEW j \in Rest \cup {enq} PROVE i # j /\ Before(enq', i, j)
      BY <1>4, <1>7
    <2>1. i \in Slot /\ i # enq BY <1>9
    <2>2. CASE j = enq BY <1>1, <2>1, <2>2
    <2>3. CASE j \in Rest
      <3>1. j \in Slot /\ j # enq BY <1>9, <2>3 DEF Places
      <3>2. i # j /\ Before(enq, i, j) BY <2>3 DEF Readers
      <3> QED BY <1>1, <2>1, <3>1, <3>2
    <2> QED BY <2>2, <2>3
  <1>11. thr.at \in {"advance", "drop"} => deq # enq'
    <2>1. \E i \in New' : TRUE BY <1>1
    <2>2. deq' # enq'
      <3> SUFFICES ASSUME deq' = enq' PROVE FALSE OBVIOUS
      <3>1. New' = deq' .. enq' - 1 BY <1>3, RingTypes DEF New
      <3>2. PICK d \in Int : d = deq' BY <1>3, RingTypes
      <3>3. \A i \in d .. d - 1 : FALSE OBVIOUS
      <3>4. New' = d .. d - 1 BY <3>1, <3>2
      <3> QED BY <2>1, <3>3, <3>4
    <2> QED BY <1>3, <2>2
  <1>12. \A i \in ToSet(list) : trb'[i].kind = "command" BY <1>9 DEF Readers, Held
  <1>13. Readers' BY <1>3, <1>10, <1>11, <1>12 DEF Readers
  <1> QED BY <1>2, <1>4, <1>5, <1>7, <1>8, <1>9, <1>13

LEMMA IrqDequeueReaders ==
  ASSUME Base, Readers, IrqDequeue, ~ raced'
  PROVE  Readers' /\ Rest' = {} /\ Places' = Places /\ Held' = Held \cup Rest
  <1>0. TypeOK /\ EventRing BY DEF Base
  <1>1. /\ irq.at = "idle" /\ irq'.at = "handle" /\ irq'.seen = 0
        /\ ToSet(irq'.evs) = New /\ Once(irq'.evs) /\ New' = {}
        /\ raced' = (raced \/ (deq # enq /\ thr.at \in {"advance", "drop"}))
        /\ trb' = trb /\ thr' = thr /\ list' = list
    BY IrqDequeueFacts
  <1>2. thr.at \notin {"advance", "drop"} BY <1>1 DEF Readers
  <1>3. Rest = New /\ Rest' = {} BY <1>1, <1>2 DEF Rest
  <1>4. ToSet(irq.evs) = {} BY <1>1, SetFacts DEF Readers
  <1>5. Places' = Places /\ Held' = Held \cup Rest BY <1>1, <1>3, <1>4 DEF Places, Held
  <1>6. New \cap ToSet(thr.evs) = {} BY <1>3 DEF Readers, Held
  <1>7. Readers' BY <1>1, <1>2, <1>3, <1>6 DEF Readers
  <1> QED BY <1>3, <1>5, <1>7

\* The lists of the handler and of the thread while one of them handles an event.
LEMMA IrqHandleReaders ==
  ASSUME Base, Readers, IrqHandle
  PROVE  /\ Readers' /\ Rest' = Rest /\ Held' \subseteq Held
         /\ irq.evs # <<>> => Head(irq.evs) \in Places /\ Places' = Places \ {Head(irq.evs)}
         /\ irq.evs = <<>> => Places' = Places
  <1>0. TypeOK /\ EventRing BY DEF Base
  <1>1. /\ irq.at = "handle" /\ UNCHANGED <<ring, reader, thr>>
        /\ irq.evs # <<>> =>
             /\ Handle(Head(irq.evs)) /\ irq'.at = "handle" /\ irq'.evs = Tail(irq.evs)
        /\ irq.evs = <<>> =>
             /\ irq'.at = "acknowledge" /\ irq'.evs = <<>>
             /\ UNCHANGED <<list, pushed, armed>>
    BY IrqHandleFacts
  <1>2. trb' = trb /\ enq' = enq /\ deq' = deq /\ thr' = thr BY <1>1 DEF ring, reader
  <1>3. Rest' = Rest BY <1>2 DEF Rest, New
  <1>4. CASE irq.evs # <<>>
    <2> DEFINE h == Head(irq.evs)
    <2>1. /\ h \in Slot /\ h \in ToSet(irq.evs) /\ ToSet(irq.evs) = ToSet(irq'.evs) \cup {h}
          /\ Once(irq'.evs) /\ h \notin ToSet(irq'.evs)
      BY <1>0, <1>1, <1>4, PlacesTypes, TailFacts DEF Readers
    <2> HIDE DEF h
    <2>2. list' \in {list, Append(list, h)} /\ (list' # list => IsCommand(h))
      <3>1. Handle(h) BY <1>1, <1>4 DEF h
      <3> QED BY <1>0, <2>1, <3>1, HandleFacts
    <2>3. ToSet(list') \subseteq ToSet(list) \cup {h}
          /\ \A i \in ToSet(list') : trb[i].kind = "command"
      <3>1. CASE list' = list BY <3>1 DEF Readers
      <3>2. CASE list' # list
        <4>1. list \in Seq(Slot) /\ list' = Append(list, h) BY <1>0, <2>2, <3>2, PlacesTypes
        <4>2. ToSet(Append(list, h)) = ToSet(list) \cup {h} BY <2>1, <4>1, AppendFacts
        <4>3. IsCommand(h) BY <2>2, <3>2
        <4> QED BY <4>1, <4>2, <4>3 DEF Readers, IsCommand
      <3> QED BY <3>1, <3>2
    <2>4. Held' \subseteq Held BY <1>2, <2>1, <2>3 DEF Held
    <2>5. h \notin Rest /\ h \notin ToSet(thr.evs) BY <2>1 DEF Readers, Held
    <2>6. h \in Places /\ Places' = Places \ {h} BY <1>2, <1>3, <2>1, <2>5 DEF Places
    <2>7. \A i \in Held', j \in Rest' : i # j /\ Before(enq', i, j)
      BY <1>2, <1>3, <2>4 DEF Readers
    <2>8. ToSet(irq'.evs) \cap ToSet(thr.evs) = {} BY <2>1 DEF Readers
    <2>9. Readers' BY <1>1, <1>2, <1>4, <2>1, <2>3, <2>7, <2>8 DEF Readers
    <2> QED BY <1>3, <1>4, <2>4, <2>6, <2>9 DEF h
  <1>5. CASE irq.evs = <<>>
    <2>1. irq'.evs = irq.evs /\ list' = list /\ irq'.at = "acknowledge" BY <1>1, <1>5
    <2>2. Held' = Held /\ Places' = Places BY <1>2, <1>3, <2>1 DEF Held, Places
    <2>3. Readers' BY <1>2, <1>3, <1>5, <2>1, <2>2 DEF Readers
    <2> QED BY <1>3, <1>5, <2>2, <2>3
  <1> QED BY <1>4, <1>5

\* Steps that leave the events where they are.
LEMMA SameReaders ==
  ASSUME Readers, New' = New, UNCHANGED <<trb, enq, deq>>, list' \in {list, <<>>},
         irq'.evs = irq.evs, thr'.evs = thr.evs,
         {thr.at, thr'.at} \cap {"advance", "drop"} = {},
         irq'.at # "handle" => irq.evs = <<>>, irq'.at = "idle" => irq'.seen = 0,
         thr'.at \notin {"read", "handle"} \cup Storing => thr.evs = <<>>,
         thr'.at \notin Polling => thr'.seen = 0
  PROVE  /\ Readers' /\ Rest' = Rest /\ Places' = Places
         /\ Held' \subseteq Held /\ (list' = list => Held' = Held)
  <1>1. Rest' = Rest BY DEF Rest
  <1>2. Places' = Places BY <1>1 DEF Places
  <1>3. ToSet(list') \subseteq ToSet(list) BY SetFacts
  <1>4. Held' \subseteq Held /\ (list' = list => Held' = Held) BY <1>3 DEF Held
  <1>5. Readers' BY <1>1, <1>3, <1>4 DEF Readers, Polling
  <1> QED BY <1>1, <1>2, <1>4, <1>5

LEMMA ReadReaders ==
  ASSUME Base, Readers, Read
  PROVE  Readers' /\ Rest' \subseteq Rest /\ Places' = Places /\ Held' \subseteq Held \cup Rest
  <1>0. TypeOK /\ EventRing BY DEF Base
  <1>1. /\ thr.at \in {"read", "flush"} /\ irq.at = "idle"
        /\ deq # enq =>
             /\ thr'.at = (IF thr.at = "read" THEN "advance" ELSE "drop")
             /\ thr'.evs = Append(thr.evs, deq)
        /\ deq = enq =>
             /\ thr'.at = (IF thr.at = "flush" \/ thr.evs # <<>> THEN "publish" ELSE "handle")
             /\ thr'.evs = thr.evs
        /\ UNCHANGED <<ring, reader, list, irq>>
    BY ReadFacts
  <1>2. trb' = trb /\ enq' = enq /\ deq' = deq /\ list' = list /\ irq' = irq BY <1>1 DEF ring, reader
  <1>3. New' = New BY <1>2 DEF New
  <1>4. CASE deq # enq
    <2>1. thr'.at \in {"advance", "drop"} /\ thr'.evs = Append(thr.evs, deq) BY <1>1, <1>4
    <2>2. Rest = New /\ deq \in New BY <1>0, <1>1, <1>4, NewFacts DEF Rest
    <2>3. Rest' = New \ {deq} BY <1>2, <1>3, <2>1 DEF Rest
    <2>4. deq \notin Held /\ deq \in Slot BY <2>2, RingTypes, <1>0 DEF Readers
    <2>5. /\ ToSet(thr'.evs) = ToSet(thr.evs) \cup {deq} /\ Last(thr'.evs) = deq
          /\ thr'.evs # <<>> /\ Once(thr'.evs)
      <3>1. thr.evs \in Seq(Slot) BY <1>0, PlacesTypes
      <3>2. Once(thr.evs) /\ deq \notin ToSet(thr.evs) BY <2>4 DEF Readers, Held
      <3> QED BY <2>1, <2>4, <3>1, <3>2, AppendFacts
    <2>6. Held' = Held \cup {deq} BY <1>2, <2>5 DEF Held
    <2>7. Places' = Places BY <1>2, <2>2, <2>3, <2>5 DEF Places
    <2>8. \A j \in New \ {deq} : Before(enq, deq, j) BY <1>0, RingTypes DEF New, Before
    <2>9. \A i \in Held', j \in Rest' : i # j /\ Before(enq', i, j)
      BY <1>2, <2>2, <2>3, <2>6, <2>8 DEF Readers
    <2>10. thr'.at = "drop" => Len(thr'.evs) = 1
      <3> SUFFICES ASSUME thr'.at = "drop" PROVE Len(thr'.evs) = 1 OBVIOUS
      <3>1. thr.at = "flush" BY <1>1, <1>4
      <3>2. thr.evs = <<>> BY <3>1 DEF Readers, Storing, Polling
      <3> QED BY <2>1, <3>2
    <2>11. ToSet(irq.evs) = {} BY <1>1, SetFacts DEF Readers
    <2>12. Readers' BY <1>1, <1>2, <1>4, <2>1, <2>5, <2>9, <2>10, <2>11 DEF Readers, Storing, Polling
    <2> QED BY <2>2, <2>3, <2>6, <2>7, <2>12
  <1>5. CASE deq = enq
    <2>1. /\ thr'.at \in {"publish", "handle"} /\ thr'.evs = thr.evs
          /\ thr'.at \notin {"read", "handle"} \cup Storing => thr.evs = <<>>
      BY <1>1, <1>5 DEF Storing
    <2>2. thr'.at \in Polling BY <2>1 DEF Polling, Storing
    <2>3. irq'.at # "handle" => irq.evs = <<>> BY <1>1 DEF Readers
    <2>4. irq'.at = "idle" => irq'.seen = 0 BY <1>2 DEF Readers
    <2>5. {thr.at, thr'.at} \cap {"advance", "drop"} = {} BY <1>1, <2>1
    <2> QED BY <1>2, <1>3, <2>1, <2>2, <2>3, <2>4, <2>5, SameReaders
  <1> QED BY <1>4, <1>5

LEMMA AdvanceReaders ==
  ASSUME Base, Readers, Advance
  PROVE  /\ Readers' /\ Rest' = Rest /\ Held' \subseteq Held
         /\ thr.at = "advance" => Places' = Places
         /\ thr.at = "drop" => Last(thr.evs) \in Places /\ Places' = Places \ {Last(thr.evs)}
  <1>0. TypeOK /\ EventRing BY DEF Base
  <1>1. thr.at \in {"advance", "drop"} BY DEF Advance, At
  <1>2. deq # enq /\ thr.evs # <<>> /\ Last(thr.evs) = deq BY <1>1 DEF Readers
  <1>3. /\ irq.at = "idle" /\ New' = New \ {deq}
        /\ thr.at = "drop" => thr'.at = "flush" /\ thr'.evs = <<>>
        /\ thr.at = "advance" => thr'.at = "read" /\ thr'.evs = thr.evs
        /\ thr'.seen = thr.seen
        /\ UNCHANGED <<ring, list, irq>>
    BY <1>2, AdvanceFacts
  <1>4. trb' = trb /\ enq' = enq /\ list' = list /\ irq' = irq BY <1>3 DEF ring
  <1>5. Rest' = Rest BY <1>1, <1>3 DEF Rest
  <1>6. CASE thr.at = "advance"
    <2>1. thr'.at = "read" /\ thr'.evs = thr.evs BY <1>3, <1>6
    <2>2. Held' = Held /\ Places' = Places BY <1>4, <1>5, <2>1 DEF Held, Places
    <2>3. Readers' BY <1>3, <1>4, <1>5, <2>1, <2>2 DEF Readers, Storing, Polling
    <2> QED BY <1>5, <1>6, <2>2, <2>3
  <1>7. CASE thr.at = "drop"
    <2>1. thr'.at = "flush" /\ thr'.evs = <<>> /\ ToSet(thr'.evs) = {} BY <1>3, <1>7, SetFacts
    <2>2. ToSet(thr.evs) = {deq}
      <3>1. Len(thr.evs) = 1 BY <1>7 DEF Readers
      <3>2. thr.evs \in Seq(Slot) BY <1>0, PlacesTypes
      <3>3. thr.evs[1] = deq BY <1>2, <3>1 DEF Last
      <3> QED BY <3>1, <3>2, <3>3 DEF ToSet
    <2>3. Held' \subseteq Held BY <1>4, <2>1 DEF Held
    <2>4. deq \notin Rest /\ deq \notin ToSet(irq.evs) BY <1>7, <2>2 DEF Rest, Readers
    <2>5. deq \in Places /\ Places' = Places \ {deq} BY <1>4, <1>5, <2>1, <2>2, <2>4 DEF Places
    <2>6. \A i \in Held', j \in Rest' : i # j /\ Before(enq', i, j)
      BY <1>4, <1>5, <2>3 DEF Readers
    <2>7. Once(thr'.evs) BY <2>1, SetFacts
    <2>8. Readers' BY <1>3, <1>4, <2>1, <2>6, <2>7 DEF Readers, Storing, Polling
    <2> QED BY <1>2, <1>5, <1>7, <2>3, <2>5, <2>8
  <1> QED BY <1>1, <1>6, <1>7

LEMMA HandleReadReaders ==
  ASSUME Base, Readers, HandleRead
  PROVE  /\ Readers' /\ Rest' = Rest /\ Held' \subseteq Held
         /\ thr.evs # <<>> => Head(thr.evs) \in Places /\ Places' = Places \ {Head(thr.evs)}
         /\ thr.evs = <<>> => Places' = Places
  <1>0. TypeOK /\ EventRing BY DEF Base
  <1>1. /\ thr.at = "handle" /\ irq.at = "idle" /\ UNCHANGED <<ring, reader, irq>>
        /\ thr.evs # <<>> =>
             /\ Handle(Head(thr.evs)) /\ thr'.at = "handle" /\ thr'.evs = Tail(thr.evs)
        /\ thr.evs = <<>> =>
             /\ thr'.at = "flush" /\ thr'.evs = <<>>
             /\ UNCHANGED <<list, pushed, armed>>
    BY HandleReadFacts
  <1>2. trb' = trb /\ enq' = enq /\ deq' = deq /\ irq' = irq BY <1>1 DEF ring, reader
  <1>3. New' = New BY <1>2 DEF New
  <1>4. CASE thr.evs # <<>>
    <2> DEFINE h == Head(thr.evs)
    <2>0. thr'.at = "handle" /\ thr'.evs = Tail(thr.evs) BY <1>1, <1>4
    <2>1. /\ h \in Slot /\ h \in ToSet(thr.evs) /\ ToSet(thr.evs) = ToSet(thr'.evs) \cup {h}
          /\ Once(thr'.evs) /\ h \notin ToSet(thr'.evs)
      <3>1. thr.evs \in Seq(Slot) /\ Once(thr.evs) BY <1>0, PlacesTypes DEF Readers
      <3> QED BY <1>4, <2>0, <3>1, TailFacts
    <2> HIDE DEF h
    <2>2. list' \in {list, Append(list, h)} /\ (list' # list => IsCommand(h))
      <3>1. Handle(h) BY <1>1, <1>4 DEF h
      <3> QED BY <1>0, <2>1, <3>1, HandleFacts
    <2>3. ToSet(list') \subseteq ToSet(list) \cup {h}
          /\ \A i \in ToSet(list') : trb[i].kind = "command"
      <3>1. CASE list' = list BY <3>1 DEF Readers
      <3>2. CASE list' # list
        <4>1. list \in Seq(Slot) /\ list' = Append(list, h) BY <1>0, <2>2, <3>2, PlacesTypes
        <4>2. ToSet(Append(list, h)) = ToSet(list) \cup {h} BY <2>1, <4>1, AppendFacts
        <4>3. IsCommand(h) BY <2>2, <3>2
        <4> QED BY <4>1, <4>2, <4>3 DEF Readers, IsCommand
      <3> QED BY <3>1, <3>2
    <2>4. Held' \subseteq Held BY <1>2, <2>1, <2>3 DEF Held
    <2>5. Rest' = Rest BY <1>1, <1>2, <1>3, <2>0 DEF Rest
    <2>6. h \notin Rest /\ h \notin ToSet(irq.evs) BY <2>1 DEF Readers, Held
    <2>7. h \in Places /\ Places' = Places \ {h} BY <1>2, <2>1, <2>5, <2>6 DEF Places
    <2>8. \A i \in Held', j \in Rest' : i # j /\ Before(enq', i, j)
      BY <1>2, <2>4, <2>5 DEF Readers
    <2>9. ToSet(irq.evs) \cap ToSet(thr'.evs) = {} BY <2>1 DEF Readers
    <2>10. Readers' BY <1>1, <1>2, <2>0, <2>1, <2>3, <2>8, <2>9 DEF Readers, Storing, Polling
    <2> QED BY <1>4, <2>4, <2>5, <2>7, <2>10 DEF h
  <1>5. CASE thr.evs = <<>>
    <2>1. thr'.evs = thr.evs /\ list' = list /\ thr'.at = "flush" BY <1>1, <1>5
    <2>2. irq'.at # "handle" => irq.evs = <<>> BY <1>1 DEF Readers
    <2>3. irq'.at = "idle" => irq'.seen = 0 BY <1>2 DEF Readers
    <2>4. thr'.at \in Polling BY <2>1 DEF Polling
    <2>5. {thr.at, thr'.at} \cap {"advance", "drop"} = {} BY <1>1, <2>1
    <2> QED BY <1>2, <1>3, <1>5, <2>1, <2>2, <2>3, <2>4, <2>5, SameReaders
  <1> QED BY <1>4, <1>5

\* The thread's other steps, and the handler's last.
Quiet == SendCommand \/ TakeAnswer \/ Clear \/ Transfer \/ Publishing \/ Again
LEMMA QuietReaders ==
  ASSUME Base, Readers, Quiet \/ IrqAcknowledge
  PROVE  /\ Readers' /\ Rest' = Rest /\ Places' = Places
         /\ Held' \subseteq Held /\ (list' = list => Held' = Held)
  <1>0. TypeOK /\ EventRing BY DEF Base
  <1>1. ASSUME irq' = irq, New' = New, UNCHANGED <<trb, enq, deq>>, list' \in {list, <<>>},
               thr'.evs = thr.evs, {thr.at, thr'.at} \cap {"advance", "drop"} = {},
               thr'.at \notin {"read", "handle"} \cup Storing => thr.evs = <<>>,
               thr'.at \notin Polling => thr'.seen = 0
        PROVE  /\ Readers' /\ Rest' = Rest /\ Places' = Places
               /\ Held' \subseteq Held /\ (list' = list => Held' = Held)
    <2>1. irq'.at # "handle" => irq.evs = <<>> BY <1>1 DEF Readers
    <2>2. irq'.at = "idle" => irq'.seen = 0 BY <1>1 DEF Readers
    <2> QED BY <1>1, <2>1, <2>2, SameReaders
  <1>2. CASE IrqAcknowledge
    <2>1. /\ irq'.at = "idle" /\ irq'.evs = <<>> /\ irq'.seen = 0 /\ irq.at = "acknowledge"
          /\ trb' = trb /\ enq' = enq /\ deq' = deq /\ list' = list /\ thr' = thr /\ New' = New
      BY <1>2, IrqAcknowledgeFacts
    <2>2. irq.evs = <<>> BY <2>1 DEF Readers
    <2>3. Rest' = Rest /\ Held' = Held BY <2>1, <2>2 DEF Rest, Held
    <2>4. Places' = Places BY <2>1, <2>2, <2>3 DEF Places
    <2>5. Readers' BY <2>1, <2>2, <2>3 DEF Readers
    <2> QED BY <2>3, <2>4, <2>5
  <1>3. CASE SendCommand
    <2>1. /\ thr.at = "idle" /\ thr'.at = "wait" /\ thr'.evs = thr.evs /\ thr'.seen = thr.seen
          /\ UNCHANGED <<ring, reader, list, irq>>
      BY <1>3, SendCommandFacts
    <2>2. /\ irq' = irq /\ list' = list /\ UNCHANGED <<trb, enq, deq>> /\ New' = New
      BY <2>1 DEF ring, reader, New
    <2>3. thr.evs = <<>> /\ thr.seen = 0 BY <2>1 DEF Readers, Storing, Polling
    <2> QED BY <1>1, <2>1, <2>2, <2>3
  <1>4. CASE TakeAnswer
    <2>1. /\ thr.at = "wait" /\ thr'.at = "clear" /\ thr'.evs = thr.evs /\ thr'.seen = thr.seen
          /\ UNCHANGED <<ring, reader, list, irq>>
      BY <1>4, TakeAnswerFacts
    <2>2. /\ irq' = irq /\ list' = list /\ UNCHANGED <<trb, enq, deq>> /\ New' = New
      BY <2>1 DEF ring, reader, New
    <2>3. thr.evs = <<>> /\ thr.seen = 0 BY <2>1 DEF Readers, Storing, Polling
    <2> QED BY <1>1, <2>1, <2>2, <2>3
  <1>5. CASE Clear
    <2>1. /\ thr.at = "clear" /\ thr'.at = "idle" /\ thr'.evs = <<>> /\ thr'.seen = 0
          /\ list' = <<>> /\ UNCHANGED <<ring, reader, irq>>
      BY <1>5, ClearFacts
    <2>2. /\ irq' = irq /\ UNCHANGED <<trb, enq, deq>> /\ New' = New BY <2>1 DEF ring, reader, New
    <2>3. thr.evs = <<>> BY <2>1 DEF Readers, Storing, Polling
    <2> QED BY <1>1, <2>1, <2>2, <2>3
  <1>6. CASE Transfer
    <2>1. /\ thr.at = "idle" /\ thr'.at = "read" /\ thr'.evs = <<>> /\ thr'.seen = 0
          /\ UNCHANGED <<ring, reader, list, irq>>
      BY <1>6, TransferFacts
    <2>2. /\ irq' = irq /\ list' = list /\ UNCHANGED <<trb, enq, deq>> /\ New' = New
      BY <2>1 DEF ring, reader, New
    <2>3. thr.evs = <<>> BY <2>1 DEF Readers, Storing, Polling
    <2> QED BY <1>1, <2>1, <2>2, <2>3
  <1>7. CASE Publishing
    <2>1. /\ thr.at \in Storing /\ New' = New
          /\ thr'.at \in Storing \/ thr'.at = (IF thr.evs # <<>> THEN "handle" ELSE "again")
          /\ thr'.evs = thr.evs
          /\ UNCHANGED <<trb, enq, deq, list, irq>>
      BY <1>7, PublishingFacts
    <2>2. thr'.at \in Polling /\ {thr.at, thr'.at} \cap {"advance", "drop"} = {}
      BY <2>1 DEF Polling, Storing
    <2>3. thr'.at \notin {"read", "handle"} \cup Storing => thr.evs = <<>> BY <2>1
    <2> QED BY <1>1, <2>1, <2>2, <2>3
  <1>8. CASE Again
    <2>1. /\ thr.at = "again" /\ thr'.at \in {"read", "idle"} /\ thr'.evs = <<>> /\ thr'.seen = 0
          /\ UNCHANGED <<ring, reader, list, irq>>
      BY <1>8, AgainFacts
    <2>2. /\ irq' = irq /\ list' = list /\ UNCHANGED <<trb, enq, deq>> /\ New' = New
      BY <2>1 DEF ring, reader, New
    <2>3. thr.evs = <<>> BY <2>1 DEF Readers, Storing, Polling
    <2>4. {thr.at, thr'.at} \cap {"advance", "drop"} = {} BY <2>1
    <2> QED BY <1>1, <2>1, <2>2, <2>3, <2>4
  <1> QED BY <1>2, <1>3, <1>4, <1>5, <1>6, <1>7, <1>8 DEF Quiet

\* A command is written behind all that the controller will take.
LEMMA SentFacts ==
  ASSUME Base, SendCommand
  PROVE  /\ Ahead(commands)' \subseteq Ahead(commands) \cup {commands.enq}
         /\ \A i \in 0 .. Link - 1 : i # commands.enq => commands'.trb[i] = commands.trb[i]
         /\ commands'.trb[commands.enq].n = sent + 1
         /\ commands'.trb[commands.enq].address =>
              asked = 1 /\ ~ addressed /\ addressed' = TRUE
         /\ addressed' = addressed \/ (addressed' = TRUE /\ asked = 1)
         /\ commands'.trb[Link].address = commands.trb[Link].address
         /\ commands'.enq = (IF commands.enq + 1 = Link THEN 0 ELSE commands.enq + 1)
  <1>0. commands \in Queue /\ RingOK(commands) /\ sent \in Nat /\ addressed \in BOOLEAN
    BY DEF Base, Rings, TypeOK
  <1>1. PICK a \in BOOLEAN : /\ a => asked = 1 /\ ~ addressed
                             /\ commands' = Enqueued(commands, sent', a)
                             /\ addressed' = (addressed \/ a)
    BY SendCommandFacts
  <1>2. PICK n \in Nat : n = sent + 1 /\ n = sent' BY <1>0, SendCommandFacts
  <1>3. PICK q : q = commands' OBVIOUS
  <1>4. a \in BOOLEAN /\ q = Enqueued(commands, n, a) BY <1>1, <1>2, <1>3
  <1>5. commands \in Queue /\ RingOK(commands) BY <1>0
  <1>6. /\ Ahead(q) \subseteq Ahead(commands) \cup {commands.enq}
        /\ \A i \in 0 .. Link - 1 : i # commands.enq => q.trb[i] = commands.trb[i]
        /\ q.trb[commands.enq].n = n /\ (q.trb[commands.enq].address => a)
        /\ q.trb[Link].address = commands.trb[Link].address
        /\ q.enq = (IF commands.enq + 1 = Link THEN 0 ELSE commands.enq + 1)
    BY <1>2, <1>4, <1>5, EnqueuedFacts
  <1>7. q.trb[commands.enq].address => asked = 1 /\ ~ addressed /\ addressed' = TRUE
    BY <1>1, <1>6
  <1>8. addressed' = addressed \/ (addressed' = TRUE /\ asked = 1) BY <1>0, <1>1
  <1> QED BY <1>2, <1>3, <1>6, <1>7, <1>8

-----------------------------------------------------------------------------
(* The control transfers.                                                  *)
LEMMA SameAddressed ==
  ASSUME Addressed, UNCHANGED <<again, addressed, asked, commands>>
  PROVE  Addressed'
  BY DEF Addressed, Ahead

LEMMA SameTransfers ==
  ASSUME Transfers, thr'.at \in Polling <=> thr.at \in Polling,
         UNCHANGED <<again, slow, asked, transfers, bell, dma>>
  PROVE  Transfers'
  BY DEF Transfers, Alone

\* The second Address Device is carried out once.
LEMMA ControllerAddressed ==
  ASSUME Base, Addressed, Controller
  PROVE  Addressed'
  <1>0. commands \in Queue /\ RingOK(commands) /\ asked \in Nat /\ again \in Nat
    BY DEF Base, Rings, TypeOK
  <1>1. ASSUME NEW k, NEW n, Post(k, n) PROVE UNCHANGED <<asked, addressed>>
    BY <1>1 DEF Post, calls
  <1>2. CASE AnswerCommand
    <2>1. /\ Pending(commands) /\ Post("command", commands.trb[commands.deq].n)
          /\ commands' = Consumed(commands)
          /\ \/ /\ commands.trb[commands.deq].address /\ again' = asked
             \/ /\ ~ commands.trb[commands.deq].address
                /\ UNCHANGED again
      BY <1>2, AnswerCommandFacts
    <2>2. UNCHANGED <<asked, addressed>> BY <1>1, <2>1
    <2>3. PICK q : q = Consumed(commands) OBVIOUS
    <2>4. /\ q.trb = commands.trb /\ commands.deq \in Ahead(commands)
          /\ Ahead(q) = Ahead(commands) \ {commands.deq}
      BY <1>0, <2>1, <2>3, ConsumedFacts
    <2>5. commands'.trb = commands.trb /\ Ahead(commands)' = Ahead(commands) \ {commands.deq}
      BY <2>1, <2>3, <2>4
    <2>6. /\ commands.deq \in 0 .. Link BY <1>0, Consts DEF Queue
    <2>7. CASE commands.trb[commands.deq].address /\ again' = asked
      <3>1. addressed /\ asked > 0 BY <2>6, <2>7 DEF Addressed
      <3>2. \A j \in Ahead(commands)' : ~ commands.trb[j].address
        BY <2>4, <2>5, <2>7 DEF Addressed
      <3> QED BY <2>2, <2>5, <3>1, <3>2 DEF Addressed
    <2>8. CASE ~ commands.trb[commands.deq].address /\ UNCHANGED again
      BY <2>2, <2>5, <2>8 DEF Addressed
    <2> QED BY <2>1, <2>7, <2>8
  <1>3. CASE ServeTransfer
    <2>1. Post("control", dma') /\ UNCHANGED <<commands, again>> BY <1>3, ServeTransferFacts
    <2>2. UNCHANGED <<asked, addressed>> BY <1>1, <2>1
    <2> QED BY <2>1, <2>2, SameAddressed
  <1>4. CASE Report
    <2>1. Post("report", reported') /\ UNCHANGED <<commands, again>> BY <1>4, ReportFacts
    <2>2. UNCHANGED <<asked, addressed>> BY <1>1, <2>1
    <2> QED BY <2>1, <2>2, SameAddressed
  <1> QED BY <1>2, <1>3, <1>4 DEF Controller

\* It is sent once, after the first transfer.
LEMMA OthersAddressed ==
  ASSUME Base, Addressed, Handler \/ Thread
  PROVE  Addressed'
  <1>0. asked \in Nat /\ again \in Nat /\ addressed \in BOOLEAN /\ commands \in Queue
        /\ commands.enq \in 0 .. Link - 1
    BY DEF Base, TypeOK, Queue
  <1>1. CASE SendCommand
    <2>1. UNCHANGED <<asked, again>> BY <1>1, SendCommandFacts
    <2>2. /\ Ahead(commands)' \subseteq Ahead(commands) \cup {commands.enq}
          /\ \A i \in 0 .. Link - 1 : i # commands.enq => commands'.trb[i] = commands.trb[i]
          /\ commands'.trb[commands.enq].address =>
               asked = 1 /\ ~ addressed /\ addressed' = TRUE
          /\ addressed' = addressed \/ (addressed' = TRUE /\ asked = 1)
          /\ commands'.trb[Link].address = commands.trb[Link].address
      BY <1>1, SentFacts
    <2>3. ASSUME NEW i \in 0 .. Link, commands'.trb[i].address
          PROVE  \/ i = commands.enq /\ ~ addressed
                 \/ i # commands.enq /\ addressed /\ commands.trb[i].address
      <3>0. i \in 0 .. Link - 1 \/ i = Link BY Consts
      <3>1. CASE i = commands.enq BY <2>2, <2>3, <3>1
      <3>2. CASE i # commands.enq
        <4>1. commands.trb[i].address BY <2>2, <2>3, <3>0, <3>2
        <4> QED BY <3>2, <4>1 DEF Addressed
      <3> QED BY <3>1, <3>2
    <2>4. \A i \in 0 .. Link : commands'.trb[i].address => addressed' = TRUE
      BY <1>0, <2>2, <2>3
    <2>5. \A i \in Ahead(commands)' : i \in 0 .. Link /\ (i # commands.enq => i \in Ahead(commands))
      <3>1. \A i \in Ahead(commands)' : i \in 0 .. Link - 1 BY DEF Ahead
      <3>2. \A i \in 0 .. Link - 1 : i \in 0 .. Link BY Consts
      <3> QED BY <2>2, <3>1, <3>2
    <2>6. \A i, j \in Ahead(commands)' :
            commands'.trb[i].address /\ commands'.trb[j].address => i = j
      <3> SUFFICES ASSUME NEW i \in Ahead(commands)', NEW j \in Ahead(commands)',
                          commands'.trb[i].address, commands'.trb[j].address
                   PROVE  i = j
        OBVIOUS
      <3>1. i \in 0 .. Link /\ j \in 0 .. Link BY <2>5
      <3>2. CASE addressed
        <4>1. /\ i # commands.enq /\ commands.trb[i].address
              /\ j # commands.enq /\ commands.trb[j].address
          BY <2>3, <3>1, <3>2
        <4> QED BY <2>5, <4>1 DEF Addressed
      <3>3. CASE ~ addressed BY <2>3, <3>1, <3>3
      <3> QED BY <3>2, <3>3
    <2>7. again > 0 => \A j \in Ahead(commands)' : ~ commands'.trb[j].address
      <3> SUFFICES ASSUME again > 0, NEW j \in Ahead(commands)', commands'.trb[j].address
                   PROVE  FALSE
        OBVIOUS
      <3>1. addressed BY DEF Addressed
      <3>2. j # commands.enq /\ commands.trb[j].address BY <2>3, <2>5, <3>1
      <3> QED BY <2>5, <3>2 DEF Addressed
    <2>8. (again > 0 => addressed') /\ (addressed' => asked > 0)
      BY <1>0, <2>2 DEF Addressed
    <2> QED BY <2>1, <2>4, <2>6, <2>7, <2>8 DEF Addressed
  <1>2. CASE ~ SendCommand
    <2>1. CASE Transfer
      <3>1. asked' = asked + 1 /\ UNCHANGED <<again, addressed, commands>>
        BY <2>1, TransferFacts
      <3>2. addressed => asked' > 0 BY <1>0, <3>1
      <3> QED BY <3>1, <3>2 DEF Addressed, Ahead
    <2>2. CASE ~ Transfer
      <3>1. UNCHANGED <<again, addressed, asked, commands>>
        <4>1. CASE Handler
          BY <4>1 DEF Handler, IrqDequeue, IrqHandle, IrqAcknowledge, Handle, HandleCommand,
                      HandleReport, HandleControl, calls, device, queues
        <4>2. CASE TakeAnswer \/ Clear \/ Read \/ Advance \/ Again
          BY <4>2 DEF TakeAnswer, Clear, Read, Advance, Again, calls, device, queues
        <4>3. CASE Publishing BY <4>3, PublishingFacts DEF calls, device, queues
        <4>4. CASE HandleRead
          BY <4>4 DEF HandleRead, Handle, HandleCommand, HandleReport, HandleControl,
                      calls, device, queues
        <4> QED BY <1>2, <2>2, <4>1, <4>2, <4>3, <4>4 DEF Thread, Publishing
      <3> QED BY <3>1, SameAddressed
    <2> QED BY <2>1, <2>2
  <1> QED BY <1>1, <1>2

LEMMA ControllerTransfers ==
  ASSUME Base, Addressed, Transfers, Controller
  PROVE  Transfers'
  <1>0. TypeOK /\ EventRing /\ RingOK(commands) /\ RingOK(transfers)
        /\ commands \in Queue /\ transfers \in Queue
        /\ asked \in Nat /\ again \in Nat /\ slow \in Nat
    BY DEF Base, Rings, TypeOK
  <1>1. ASSUME NEW k, NEW n, Post(k, n)
        PROVE  UNCHANGED <<thr, asked, slow>>
    BY <1>1 DEF Post, calls
  <1>2. CASE AnswerCommand
    <2>1. /\ Pending(commands) /\ Post("command", commands.trb[commands.deq].n)
          /\ \/ /\ commands.trb[commands.deq].address
                /\ transfers' = Restarted(transfers) /\ bell' = FALSE /\ again' = asked
             \/ UNCHANGED <<transfers, bell, again>>
          /\ dma' = dma
      BY <1>2, AnswerCommandFacts
    <2>2. UNCHANGED <<thr, asked, slow>> BY <1>1, <2>1
    <2>3. CASE /\ commands.trb[commands.deq].address
               /\ transfers' = Restarted(transfers) /\ bell' = FALSE /\ again' = asked
      <3>1. commands.deq \in 0 .. Link /\ commands.deq \in Ahead(commands)
        BY <1>0, <2>1, Consts, ConsumedFacts DEF Queue
      <3>2. asked > 0 /\ again = 0 BY <1>0, <2>3, <3>1 DEF Addressed
      <3>3. transfers'.trb = transfers.trb /\ LastSlot(transfers)' = LastSlot(transfers)
        BY <1>0, <2>3, RestartedFacts DEF LastSlot
      <3>4. slow = 0 => dma' \in {0, asked} BY <2>1, <3>2 DEF Transfers, Alone
      <3>5. ~ Alone' BY <1>0, <2>2, <2>3, <3>2 DEF Alone
      <3>6. again' = asked' /\ again' <= asked' /\ asked' > 0 BY <1>0, <2>2, <2>3, <3>2
      <3>7. /\ slow' <= asked' /\ (thr'.at \in Polling => slow' < asked')
            /\ transfers'.trb[LastSlot(transfers)'] = transfers.trb[LastSlot(transfers)]
            /\ asked > 0 => transfers.trb[LastSlot(transfers)].n = asked
        BY <2>2, <3>3 DEF Transfers
      <3> QED BY <1>0, <2>2, <2>3, <3>2, <3>4, <3>5, <3>6, <3>7 DEF Transfers
    <2>4. CASE UNCHANGED <<transfers, bell, again>>
      BY <2>1, <2>2, <2>4, SameTransfers
    <2> QED BY <2>1, <2>3, <2>4
  <1>3. CASE ServeTransfer
    <2>1. /\ Pending(transfers) /\ dma' = transfers.trb[transfers.deq].n
          /\ Post("control", dma') /\ bell
          /\ transfers' = Consumed(transfers)
          /\ UNCHANGED again
      BY <1>3, ServeTransferFacts
    <2>2. UNCHANGED <<thr, asked, slow>> BY <1>1, <2>1
    <2>3. /\ LastSlot(transfers)' = LastSlot(transfers) /\ transfers'.trb = transfers.trb
          /\ Pending(transfers)' <=> transfers.deq # LastSlot(transfers)
      <3>1. PICK q : q = Consumed(transfers) OBVIOUS
      <3>2. q.trb = transfers.trb BY <1>0, <2>1, <3>1, ConsumedFacts
      <3>3. /\ LastSlot(q) = LastSlot(transfers)
            /\ Pending(q) <=> transfers.deq # LastSlot(transfers)
        BY <1>0, <2>1, <3>1, ServedFacts
      <3>4. LastSlot(transfers)' = LastSlot(q) /\ (Pending(transfers)' <=> Pending(q))
        BY <2>1, <3>1 DEF LastSlot, Pending
      <3> QED BY <2>1, <3>1, <3>2, <3>3, <3>4
    <2>4. asked > 0 => again # asked BY <2>1 DEF Transfers
    <2>5. asked = 0 => slow = 0 /\ again = 0 BY <1>0 DEF Transfers
    <2>6. thr.at \in Polling => asked > 0 BY <1>0 DEF Transfers
    <2>7. asked > 0 /\ ~ Pending(transfers)' => dma' = asked BY <2>1, <2>3 DEF Transfers
    <2>8. slow = 0 => thr.at \in Polling /\ asked > 0
      BY <1>0, <2>1, <2>4, <2>5, <2>6 DEF Transfers
    <2>9. slow = 0 /\ Alone => dma' = asked /\ ~ Pending(transfers)'
      BY <2>1, <2>3, <2>7, <2>8 DEF Transfers
    <2>10. Alone' <=> Alone BY <2>1, <2>2 DEF Alone
    <2>11. /\ again' <= asked' /\ slow' <= asked'
           /\ asked' > 0 => transfers'.trb[LastSlot(transfers)'].n = asked'
           /\ thr'.at \in Polling => slow' < asked'
           /\ ~ (again' = asked' /\ asked' > 0)
      BY <2>1, <2>2, <2>3, <2>4 DEF Transfers
    <2>12. thr'.at \in Polling => dma' \in {0, asked'} \/ Pending(transfers)'
      BY <2>2, <2>6, <2>7
    <2>13. slow' = 0 => thr'.at \in Polling /\ asked' > 0 BY <2>2, <2>8
    <2>14. slow' = 0 /\ Alone' => dma' \in {0, asked'} /\ ~ Pending(transfers)'
      BY <2>2, <2>9, <2>10
    <2> QED BY <2>11, <2>12, <2>13, <2>14 DEF Transfers
  <1>4. CASE Report
    <2>1. Post("report", reported') /\ UNCHANGED <<transfers, bell, dma, again>>
      BY <1>4, ReportFacts
    <2>2. UNCHANGED <<thr, asked, slow>> BY <1>1, <2>1
    <2> QED BY <2>1, <2>2, SameTransfers
  <1> QED BY <1>2, <1>3, <1>4 DEF Controller

LEMMA HandlerTransfers ==
  ASSUME Base, Transfers, Handler
  PROVE  Transfers'
  <1>1. CASE IrqDequeue
    <2>1. UNCHANGED <<thr, calls, device>> BY <1>1, IrqDequeueFacts
    <2> QED BY <2>1, SameTransfers DEF calls, device, queues
  <1>2. CASE IrqHandle
    <2>1. UNCHANGED <<thr, calls, queues, again>> BY <1>2, IrqHandleFacts
    <2> QED BY <2>1, SameTransfers DEF calls, queues
  <1>3. CASE IrqAcknowledge
    <2>1. UNCHANGED <<thr, calls, device>> BY <1>3, IrqAcknowledgeFacts
    <2> QED BY <2>1, SameTransfers DEF calls, device, queues
  <1> QED BY <1>1, <1>2, <1>3 DEF Handler

LEMMA ThreadTransfers ==
  ASSUME Base, Transfers, Readers, Thread
  PROVE  Transfers'
  <1>0. TypeOK /\ RingOK(transfers) /\ transfers \in Queue
        /\ asked \in Nat /\ again \in Nat /\ slow \in Nat
    BY DEF Base, Rings, TypeOK
  <1>1. CASE SendCommand
    <2>1. /\ thr.at = "idle" /\ thr'.at = "wait"
          /\ UNCHANGED <<asked, slow, transfers, bell, dma, again>>
      BY <1>1, SendCommandFacts
    <2>2. thr.at \notin Polling /\ thr'.at \notin Polling BY <2>1 DEF Polling, Storing
    <2> QED BY <2>1, <2>2, SameTransfers
  <1>2. CASE Transfer
    <2>1. /\ thr.at = "idle" /\ thr'.at = "read" /\ asked' = asked + 1 /\ dma' = 0
          /\ transfers' = Enqueued(transfers, asked', FALSE)
          /\ UNCHANGED <<slow, again>>
      BY <1>2, TransferFacts
    <2>2. /\ transfers'.trb[LastSlot(transfers)'].n = asked'
          /\ ~ Pending(transfers) => (Pending(transfers)' => transfers'.deq = LastSlot(transfers)')
      <3>1. PICK n \in Nat : n = asked' BY <1>0, <2>1
      <3>2. PICK q : q = transfers' OBVIOUS
      <3>3. PICK a \in BOOLEAN : q = Enqueued(transfers, n, a)
        <4>1. q = Enqueued(transfers, n, FALSE) BY <2>1, <3>1, <3>2
        <4> QED BY <4>1
      <3>4. /\ q.trb[LastSlot(q)].n = n
            /\ ~ Pending(transfers) => (Pending(q) => q.deq = LastSlot(q))
        BY <1>0, <3>1, <3>3, AskedFacts
      <3>5. LastSlot(transfers)' = LastSlot(q) /\ (Pending(transfers)' <=> Pending(q))
        BY <3>2 DEF LastSlot, Pending
      <3> QED BY <3>1, <3>2, <3>4, <3>5
    <2>3. thr.at \notin Polling /\ thr'.at \in Polling BY <2>1 DEF Polling, Storing
    <2>4. again <= asked /\ slow <= asked BY DEF Transfers
    <2>5. again' <= asked' /\ slow' < asked' /\ slow' <= asked' /\ again' # asked'
      BY <1>0, <2>1, <2>4
    <2>6. slow' = 0 /\ Alone' => ~ Pending(transfers)
      <3> SUFFICES ASSUME slow = 0, Alone' PROVE ~ Pending(transfers) BY <2>1
      <3>1. again = 0 \/ asked + 1 > again + 1 BY <2>1 DEF Alone
      <3>2. again # asked \/ asked = 0 BY <1>0, <3>1
      <3> QED BY <2>3, <3>2 DEF Transfers
    <2> QED BY <2>1, <2>2, <2>3, <2>5, <2>6 DEF Transfers
  <1>3. CASE Again
    <2>1. /\ thr.at = "again"
          /\ \/ thr'.at = "read" /\ UNCHANGED slow
             \/ /\ thr'.at = "idle"
                /\ slow' = IF slow = 0 /\ ~ AllServed THEN asked ELSE slow
          /\ UNCHANGED <<asked, device>>
      BY <1>3, AgainFacts
    <2>2. UNCHANGED <<asked, transfers, bell, dma, again>> BY <2>1 DEF device, queues
    <2>3. CASE thr'.at = "read" /\ UNCHANGED slow
      <3>1. thr'.at \in Polling /\ thr.at \in Polling BY <2>1, <2>3 DEF Polling
      <3> QED BY <2>2, <2>3, <3>1, SameTransfers
    <2>4. CASE /\ thr'.at = "idle"
               /\ slow' = IF slow = 0 /\ ~ AllServed THEN asked ELSE slow
      <3>1. thr'.at \notin Polling /\ thr.at \in Polling BY <2>1, <2>4 DEF Polling, Storing
      <3>2. slow < asked BY <3>1 DEF Transfers
      <3>3. slow' <= asked /\ asked > 0 BY <1>0, <2>4, <3>2
      <3>4. slow' = 0 => slow = 0 /\ ~ Pending(transfers)
        BY <1>0, <2>4, <3>3 DEF AllServed
      <3>5. (Pending(transfers)' <=> Pending(transfers)) /\ (Alone' <=> Alone)
            /\ LastSlot(transfers)' = LastSlot(transfers)
        BY <2>2 DEF Pending, Alone, LastSlot
      <3> QED BY <2>2, <3>1, <3>3, <3>4, <3>5 DEF Transfers
    <2> QED BY <2>1, <2>3, <2>4
  <1>4. CASE TakeAnswer
    <2>1. thr.at = "wait" /\ thr'.at = "clear" /\ UNCHANGED <<asked, slow, device>>
      BY <1>4, TakeAnswerFacts
    <2>2. thr.at \notin Polling /\ thr'.at \notin Polling BY <2>1 DEF Polling, Storing
    <2> QED BY <2>1, <2>2, SameTransfers DEF device, queues
  <1>5. CASE Clear
    <2>1. thr.at = "clear" /\ thr'.at = "idle" /\ UNCHANGED <<calls, device>> BY <1>5, ClearFacts
    <2>2. thr.at \notin Polling /\ thr'.at \notin Polling BY <2>1 DEF Polling, Storing
    <2> QED BY <2>1, <2>2, SameTransfers DEF calls, device, queues
  <1>6. CASE Read
    <2>1. /\ thr.at \in {"read", "flush"} /\ UNCHANGED <<calls, device>>
          /\ thr'.at \in {"advance", "drop", "publish", "handle"}
      BY <1>6, ReadFacts
    <2>2. thr.at \in Polling /\ thr'.at \in Polling BY <2>1 DEF Polling, Storing
    <2> QED BY <2>1, <2>2, SameTransfers DEF calls, device, queues
  <1>7. CASE Advance
    <2>0. thr.at \in {"advance", "drop"} BY <1>7 DEF Advance, At
    <2>1. thr.at \in {"advance", "drop"} /\ thr'.at \in {"read", "flush"}
          /\ UNCHANGED <<calls, device>>
      BY <1>7, <2>0, AdvanceFacts DEF Readers
    <2>2. thr.at \in Polling /\ thr'.at \in Polling BY <2>1 DEF Polling
    <2> QED BY <2>1, <2>2, SameTransfers DEF calls, device, queues
  <1>8. CASE Publishing
    <2>1. thr.at \in Storing /\ thr'.at \in Storing \cup {"handle", "again"}
          /\ UNCHANGED <<calls, device>>
      BY <1>8, PublishingFacts
    <2>2. thr.at \in Polling /\ thr'.at \in Polling BY <2>1 DEF Polling
    <2> QED BY <2>1, <2>2, SameTransfers DEF calls, device, queues
  <1>9. CASE HandleRead
    <2>1. thr.at = "handle" /\ thr'.at \in {"handle", "flush"} /\ UNCHANGED <<calls, queues, again>>
      BY <1>9, HandleReadFacts
    <2>2. thr.at \in Polling /\ thr'.at \in Polling BY <2>1 DEF Polling
    <2> QED BY <2>1, <2>2, SameTransfers DEF calls, queues
  <1> QED BY <1>1, <1>2, <1>3, <1>4, <1>5, <1>6, <1>7, <1>8, <1>9 DEF Thread, Publishing

-----------------------------------------------------------------------------
(* The commands.                                                           *)
LEMMA SameAnswers ==
  ASSUME Answers, UNCHANGED <<trb, enq, sent, commands, answer>>, Rest' \subseteq Rest,
         thr'.at # "clear" =>
           \A i \in Held' : IsCommand(i) => answer[1] < trb[i].n /\ answer[2] < trb[i].n
  PROVE  Answers'
  <1>1. Ahead(commands)' = Ahead(commands) BY DEF Ahead
  <1>2. \A i : IsCommand(i)' <=> IsCommand(i) BY DEF IsCommand
  <1> QED BY <1>1, <1>2 DEF Answers

\* The event of a command comes after those of the commands before it.
LEMMA PostAnswers ==
  ASSUME Base, Readers, Answers, NEW k, NEW n, Post(k, n), ~ lapped',
         commands'.trb = commands.trb, commands'.enq = commands.enq,
         Ahead(commands)' \subseteq Ahead(commands),
         k = "command" =>
           /\ n \in 1 .. sent
           /\ \A i \in Slot : IsCommand(i) => trb[i].n < n
           /\ \A j \in Ahead(commands)' : n < commands.trb[j].n
           /\ answer[1] < n /\ answer[2] < n
  PROVE  Answers'
  <1>0. TypeOK /\ EventRing /\ enq \in Slot BY DEF Base, TypeOK
  <1>1. /\ trb'[enq].kind = k /\ trb'[enq].n = n
        /\ \A i \in Slot : i # enq => trb'[i] = trb[i]
        /\ \A i \in Slot : ~ Before(enq', enq, i)
        /\ \A i, j \in Slot : i # enq /\ j # enq => (Before(enq', i, j) <=> Before(enq, i, j))
        /\ UNCHANGED <<thr, calls>>
    BY <1>0, PostFacts
  <1>2. /\ enq \notin Held /\ Rest' = Rest \cup {enq} /\ Held' = Held
        /\ \A i \in Held \cup Places : i \in Slot
    BY <1>0, PostReaders
  <1>3. UNCHANGED <<thr, sent, answer>> BY <1>1 DEF calls
  <1>4. \A i \in Slot : i = enq => (IsCommand(i)' <=> k = "command") BY <1>1 DEF IsCommand
  <1>5. \A i \in Slot : i # enq => (IsCommand(i)' <=> IsCommand(i)) /\ trb'[i].n = trb[i].n
    BY <1>1 DEF IsCommand
  <1>6. \A i, j \in Slot : IsCommand(i)' /\ IsCommand(j)' /\ Before(enq', i, j) => trb'[i].n < trb'[j].n
    <2> SUFFICES ASSUME NEW i \in Slot, NEW j \in Slot, IsCommand(i)', IsCommand(j)', Before(enq', i, j)
                 PROVE  trb'[i].n < trb'[j].n
      OBVIOUS
    <2>1. i # enq BY <1>1
    <2>2. IsCommand(i) /\ trb'[i].n = trb[i].n BY <1>5, <2>1
    <2>3. CASE j = enq BY <1>1, <1>4, <2>2, <2>3
    <2>4. CASE j # enq
      <3>1. IsCommand(j) /\ trb'[j].n = trb[j].n /\ Before(enq, i, j) BY <1>1, <1>5, <2>1, <2>4
      <3> QED BY <2>2, <3>1 DEF Answers
    <2> QED BY <2>3, <2>4
  <1>7. \A i \in Slot : IsCommand(i)' => trb'[i].n \in 1 .. sent
    <2> SUFFICES ASSUME NEW i \in Slot, IsCommand(i)' PROVE trb'[i].n \in 1 .. sent OBVIOUS
    <2>1. CASE i = enq BY <1>1, <1>4, <2>1
    <2>2. CASE i # enq BY <1>5, <2>2 DEF Answers
    <2> QED BY <2>1, <2>2
  <1>8. ASSUME NEW j \in Ahead(commands)'
        PROVE  /\ commands.trb[j].n \in 1 .. sent
               /\ \A i \in Slot : IsCommand(i)' => trb'[i].n < commands.trb[j].n
               /\ answer[1] < commands.trb[j].n /\ answer[2] < commands.trb[j].n
    <2>1. j \in Ahead(commands) OBVIOUS
    <2>2. ASSUME NEW i \in Slot, IsCommand(i)' PROVE trb'[i].n < commands.trb[j].n
      <3>1. CASE i = enq BY <1>1, <1>4, <2>2, <3>1
      <3>2. CASE i # enq BY <1>5, <2>1, <2>2, <3>2 DEF Answers
      <3> QED BY <3>1, <3>2
    <2> QED BY <2>1, <2>2 DEF Answers
  <1>9. \A i, j \in Ahead(commands)' :
          Before(commands'.enq, i, j) => commands'.trb[i].n < commands'.trb[j].n
    BY DEF Answers
  <1>10. \A i \in Rest' : IsCommand(i)' => answer[1] < trb'[i].n /\ answer[2] < trb'[i].n
    <2> SUFFICES ASSUME NEW i \in Rest \cup {enq}, IsCommand(i)'
                 PROVE  answer[1] < trb'[i].n /\ answer[2] < trb'[i].n
      BY <1>2
    <2>1. CASE i = enq BY <1>0, <1>1, <1>4, <2>1
    <2>2. CASE i # enq
      <3>1. i \in Rest /\ i \in Slot BY <1>2, <2>2 DEF Places
      <3> QED BY <1>5, <2>2, <3>1 DEF Answers
    <2> QED BY <2>1, <2>2
  <1>11. thr.at # "clear" =>
           \A i \in Held : IsCommand(i)' => answer[1] < trb'[i].n /\ answer[2] < trb'[i].n
    <2> SUFFICES ASSUME thr.at # "clear", NEW i \in Held, IsCommand(i)'
                 PROVE  answer[1] < trb'[i].n /\ answer[2] < trb'[i].n
      OBVIOUS
    <2>1. i \in Slot /\ i # enq BY <1>2
    <2> QED BY <1>5, <2>1 DEF Answers
  <1>12. (answer[1] # 0 => answer[2] < answer[1]) /\ answer[1] <= sent /\ answer[2] <= sent
    BY DEF Answers
  <1> QED BY <1>2, <1>3, <1>6, <1>7, <1>8, <1>9, <1>10, <1>11, <1>12 DEF Answers

LEMMA ControllerAnswers ==
  ASSUME Base, Readers, Answers, Controller, ~ lapped'
  PROVE  Answers'
  <1>0. TypeOK /\ EventRing /\ commands \in Queue /\ RingOK(commands) BY DEF Base, Rings, TypeOK
  <1>1. CASE AnswerCommand
    <2>1. /\ Pending(commands) /\ Post("command", commands.trb[commands.deq].n)
          /\ commands' = Consumed(commands)
      BY <1>1, AnswerCommandFacts
    <2>2. PICK q : q = Consumed(commands) OBVIOUS
    <2>3. /\ q.trb = commands.trb /\ q.enq = commands.enq
          /\ commands.deq \in Ahead(commands) /\ Ahead(q) = Ahead(commands) \ {commands.deq}
          /\ \A i \in Ahead(q) : Before(commands.enq, commands.deq, i)
      BY <1>0, <2>1, <2>2, ConsumedFacts
    <2>4. commands' = q /\ Ahead(commands)' = Ahead(q) BY <2>1, <2>2
    <2> DEFINE n == commands.trb[commands.deq].n
    <2>5. /\ n \in 1 .. sent
          /\ \A i \in Slot : IsCommand(i) => trb[i].n < n
          /\ answer[1] < n /\ answer[2] < n
      BY <2>3 DEF Answers
    <2>6. \A j \in Ahead(commands)' : n < commands.trb[j].n
      BY <2>3, <2>4 DEF Answers
    <2>7. Ahead(commands)' \subseteq Ahead(commands) BY <2>3, <2>4
    <2>8. Post("command", n) BY <2>1
    <2> HIDE DEF n
    <2>9. commands'.trb = commands.trb /\ commands'.enq = commands.enq BY <2>3, <2>4
    <2> QED BY <2>5, <2>6, <2>7, <2>8, <2>9, PostAnswers
  <1>2. CASE ServeTransfer
    <2>1. Post("control", dma') /\ commands' = commands BY <1>2, ServeTransferFacts
    <2>2. Ahead(commands)' = Ahead(commands) BY <2>1 DEF Ahead
    <2> QED BY <2>1, <2>2, PostAnswers
  <1>3. CASE Report
    <2>1. Post("report", reported') /\ commands' = commands BY <1>3, ReportFacts
    <2>2. Ahead(commands)' = Ahead(commands) BY <2>1 DEF Ahead
    <2> QED BY <2>1, <2>2, PostAnswers
  <1> QED BY <1>1, <1>2, <1>3 DEF Controller

LEMMA HandlerAnswers ==
  ASSUME Base, Readers, Answers, Handler, ~ raced'
  PROVE  Answers'
  <1>1. CASE IrqDequeue
    <2>1. Rest' = {} /\ Held' = Held \cup Rest BY <1>1, IrqDequeueReaders
    <2>2. UNCHANGED <<trb, enq, thr, calls, device>> BY <1>1, IrqDequeueFacts
    <2>3. UNCHANGED <<trb, enq, thr, sent, answer, commands>> BY <2>2 DEF calls, device, queues
    <2>4. thr.at # "clear" =>
            \A i \in Held \cup Rest : IsCommand(i) => answer[1] < trb[i].n /\ answer[2] < trb[i].n
      BY DEF Answers
    <2> QED BY <2>1, <2>3, <2>4, SameAnswers
  <1>2. CASE IrqHandle
    <2>1. Rest' = Rest /\ Held' \subseteq Held BY <1>2, IrqHandleReaders
    <2>2. UNCHANGED <<ring, thr, calls, queues>> BY <1>2, IrqHandleFacts
    <2>3. UNCHANGED <<trb, enq, thr, sent, answer, commands>> BY <2>2 DEF ring, calls, queues
    <2>4. thr.at # "clear" =>
            \A i \in Held : IsCommand(i) => answer[1] < trb[i].n /\ answer[2] < trb[i].n
      BY DEF Answers
    <2> QED BY <2>1, <2>3, <2>4, SameAnswers
  <1>3. CASE IrqAcknowledge
    <2>1. Rest' = Rest /\ Held' \subseteq Held BY <1>3, QuietReaders
    <2>2. UNCHANGED <<trb, enq, thr, calls, device>> BY <1>3, IrqAcknowledgeFacts
    <2>3. UNCHANGED <<trb, enq, thr, sent, answer, commands>> BY <2>2 DEF calls, device, queues
    <2>4. thr.at # "clear" =>
            \A i \in Held : IsCommand(i) => answer[1] < trb[i].n /\ answer[2] < trb[i].n
      BY DEF Answers
    <2> QED BY <2>1, <2>3, <2>4, SameAnswers
  <1> QED BY <1>1, <1>2, <1>3 DEF Handler

\* A new command is after all that there are.
LEMMA SendAnswers ==
  ASSUME Base, Readers, Answers, SendCommand
  PROVE  Answers'
  <1>0. TypeOK /\ EventRing /\ commands \in Queue /\ RingOK(commands) /\ sent \in Nat
        /\ answer \in Nat \X Nat
    BY DEF Base, Rings, TypeOK
  <1>1. /\ thr.at = "idle" /\ thr'.at = "wait" /\ sent' = sent + 1
        /\ \E a \in BOOLEAN : commands' = Enqueued(commands, sent', a)
        /\ UNCHANGED <<ring, answer>>
    BY SendCommandFacts
  <1>2. Rest' = Rest /\ Held' \subseteq Held BY QuietReaders DEF Quiet
  <1>3. /\ Ahead(commands)' \subseteq Ahead(commands) \cup {commands.enq}
        /\ \A i \in 0 .. Link - 1 : i # commands.enq => commands'.trb[i] = commands.trb[i]
        /\ commands'.trb[commands.enq].n = sent + 1
        /\ commands'.enq = (IF commands.enq + 1 = Link THEN 0 ELSE commands.enq + 1)
    BY SentFacts
  <1>4. /\ trb' = trb /\ enq' = enq /\ answer' = answer
        /\ \A i : IsCommand(i)' <=> IsCommand(i)
    BY <1>1 DEF ring, IsCommand
  <1>5. \A i \in Slot : IsCommand(i) => trb[i].n \in 1 .. sent BY DEF Answers
  <1>6. answer[1] <= sent /\ answer[2] <= sent BY DEF Answers
  <1>7. ASSUME NEW j \in Ahead(commands)'
        PROVE  /\ j \in 0 .. Link - 1
               /\ \/ j = commands.enq /\ commands'.trb[j].n = sent + 1
                  \/ j # commands.enq /\ j \in Ahead(commands) /\ commands'.trb[j] = commands.trb[j]
    <2>1. j \in 0 .. Link - 1 BY DEF Ahead
    <2> QED BY <1>3, <2>1
  <1>8. ASSUME NEW j \in Ahead(commands)'
        PROVE  /\ commands'.trb[j].n \in 1 .. sent + 1
               /\ \A i \in Slot : IsCommand(i) => trb[i].n < commands'.trb[j].n
               /\ answer[1] < commands'.trb[j].n /\ answer[2] < commands'.trb[j].n
    <2>1. CASE commands'.trb[j].n = sent + 1 BY <1>0, <1>5, <1>6, <2>1
    <2>2. CASE j \in Ahead(commands) /\ commands'.trb[j] = commands.trb[j] BY <1>0, <2>2 DEF Answers
    <2> QED BY <1>7, <2>1, <2>2
  <1>9. ASSUME NEW i \in Ahead(commands)', NEW j \in Ahead(commands)', Before(commands'.enq, i, j)
        PROVE  commands'.trb[i].n < commands'.trb[j].n
    <2>1. i \in 0 .. Link - 1 /\ j \in 0 .. Link - 1 BY <1>7
    <2>2. commands.enq \in 0 .. Link - 1 /\ Link \in Nat BY <1>0, Consts DEF Queue
    <2>3. PICK f : f = commands'.enq OBVIOUS
    <2>4. f = IF commands.enq + 1 = Link THEN 0 ELSE commands.enq + 1 BY <1>3, <2>3
    <2>5. /\ ~ Before(f, commands.enq, j)
          /\ i # commands.enq /\ j # commands.enq => (Before(f, i, j) <=> Before(commands.enq, i, j))
      <3>1. PICK m \in Nat : m = Link BY <2>2
      <3>2. PICK e \in 0 .. m - 1 : e = commands.enq BY <2>2, <3>1
      <3>3. f = (IF e + 1 = m THEN 0 ELSE e + 1) /\ i \in 0 .. m - 1 /\ j \in 0 .. m - 1
        BY <2>1, <2>4, <3>1, <3>2
      <3>4. ~ Before(f, e, j) /\ (i # e /\ j # e => (Before(f, i, j) <=> Before(e, i, j)))
        BY <3>1, <3>2, <3>3, <2>3 DEF Before
      <3> QED BY <3>2, <3>4
    <2>6. i # commands.enq BY <1>9, <2>3, <2>5
    <2>7. i \in Ahead(commands) /\ commands'.trb[i] = commands.trb[i] BY <1>7, <2>6
    <2>8. commands.trb[i].n \in 1 .. sent BY <2>7 DEF Answers
    <2>9. CASE j = commands.enq
      <3>1. commands'.trb[j].n = sent + 1 BY <1>3, <2>9
      <3> QED BY <1>0, <2>7, <2>8, <3>1
    <2>10. CASE j # commands.enq
      <3>1. j \in Ahead(commands) /\ commands'.trb[j] = commands.trb[j] BY <1>7, <2>10
      <3>2. Before(commands.enq, i, j) BY <1>9, <2>3, <2>5, <2>6, <2>10
      <3> QED BY <2>7, <3>1, <3>2 DEF Answers
    <2> QED BY <2>9, <2>10
  <1>10. \A i \in Held' : IsCommand(i) => answer[1] < trb[i].n /\ answer[2] < trb[i].n
    BY <1>1, <1>2 DEF Answers
  <1>11. /\ \A i, j \in Slot : IsCommand(i)' /\ IsCommand(j)' /\ Before(enq', i, j) => trb'[i].n < trb'[j].n
         /\ \A i \in Slot : IsCommand(i)' => trb'[i].n \in 1 .. sent'
         /\ \A i \in Rest' : IsCommand(i)' => answer'[1] < trb'[i].n /\ answer'[2] < trb'[i].n
         /\ answer'[1] # 0 => answer'[2] < answer'[1]
         /\ answer'[1] <= sent' /\ answer'[2] <= sent'
    <2>1. \A i \in Slot : IsCommand(i) => trb[i].n \in 1 .. sent + 1 BY <1>0, <1>5
    <2>2. answer[1] <= sent + 1 /\ answer[2] <= sent + 1 BY <1>0, <1>6
    <2> QED BY <1>1, <1>2, <1>4, <2>1, <2>2 DEF Answers
  <1> QED BY <1>1, <1>4, <1>8, <1>9, <1>10, <1>11 DEF Answers

\* The first completion in the list is of a command that none answered yet.
LEMMA TakenAnswers ==
  ASSUME Base, Readers, Answers, TakeAnswer
  PROVE  /\ Answers'
         /\ Completion # 0 <=> list # <<>>
         /\ list # <<>> => list[1] \in ToSet(list) /\ list[1] \in Slot /\ IsCommand(list[1])
  <1>0. TypeOK /\ EventRing /\ sent \in Nat /\ answer \in Nat \X Nat /\ list \in Seq(Slot)
    BY DEF Base, TypeOK
  <1>1. /\ thr.at = "wait" /\ thr'.at = "clear"
        /\ answer'[1] = Completion
        /\ answer'[2] = (IF answer[1] = 0 THEN answer[2] ELSE answer[1])
        /\ UNCHANGED <<ring, sent, device>>
    BY TakeAnswerFacts
  <1>2. Rest' = Rest /\ Held' \subseteq Held BY QuietReaders DEF Quiet
  <1>3. UNCHANGED <<trb, enq, sent, commands>> /\ \A i : IsCommand(i)' <=> IsCommand(i)
    BY <1>1 DEF ring, device, queues, IsCommand
  <1>4. Ahead(commands)' = Ahead(commands) BY <1>3 DEF Ahead
  <1>5. list # <<>> => /\ list[1] \in ToSet(list) /\ list[1] \in Held /\ list[1] \in Slot
                       /\ IsCommand(list[1])
    <2> SUFFICES ASSUME list # <<>> PROVE list[1] \in ToSet(list) /\ list[1] \in Held
                   /\ list[1] \in Slot /\ IsCommand(list[1])
      OBVIOUS
    <2>1. list[1] = Head(list) /\ Head(list) \in ToSet(list) BY <1>0, TailFacts
    <2>2. ToSet(list) \subseteq Held /\ ToSet(list) \subseteq Slot BY <1>0, PlacesTypes
    <2> QED BY <2>1, <2>2 DEF Readers, IsCommand
  <1>6. CASE list = <<>>
    <2>1. Completion = 0 BY <1>6 DEF Completion
    <2>2. \A j \in Ahead(commands) : commands.trb[j].n \in 1 .. sent /\ 0 < commands.trb[j].n
      BY <1>0 DEF Answers
    <2>3. \A i \in Slot : IsCommand(i) => 0 < trb[i].n BY <1>0 DEF Answers
    <2>4. Rest \subseteq Slot BY <1>0, PlacesTypes
    <2>5. answer'[1] = 0 /\ answer'[2] \in {answer[1], answer[2]} BY <1>1, <2>1
    <2>6. /\ \A j \in Ahead(commands) : answer'[1] < commands.trb[j].n /\ answer'[2] < commands.trb[j].n
          /\ \A i \in Rest : IsCommand(i) => answer'[1] < trb[i].n /\ answer'[2] < trb[i].n
          /\ answer'[1] <= sent /\ answer'[2] <= sent
      BY <1>0, <2>2, <2>3, <2>4, <2>5 DEF Answers
    <2>7. Answers' BY <1>1, <1>2, <1>3, <1>4, <2>5, <2>6 DEF Answers
    <2> QED BY <1>6, <2>1, <2>7
  <1>7. CASE list # <<>>
    <2> DEFINE c == list[1]
    <2>1. Completion = trb[c].n BY <1>7 DEF Completion
    <2>2. c \in Held /\ c \in Slot /\ IsCommand(c) BY <1>5, <1>7
    <2> HIDE DEF c
    <2>3. /\ trb[c].n \in 1 .. sent /\ answer[1] < trb[c].n /\ answer[2] < trb[c].n
          /\ \A j \in Ahead(commands) : trb[c].n < commands.trb[j].n
      BY <1>1, <2>2 DEF Answers
    <2>4. \A i \in Rest : IsCommand(i) => trb[c].n < trb[i].n
      <3>1. \A i \in Rest : i \in Slot /\ Before(enq, c, i) BY <1>0, <2>2, PlacesTypes DEF Readers
      <3> QED BY <2>2, <3>1 DEF Answers
    <2>5. answer'[1] = trb[c].n /\ answer'[2] \in {answer[1], answer[2]} BY <1>1, <2>1
    <2>6. /\ \A j \in Ahead(commands) : answer'[1] < commands.trb[j].n /\ answer'[2] < commands.trb[j].n
          /\ \A i \in Rest : IsCommand(i) => answer'[1] < trb[i].n /\ answer'[2] < trb[i].n
          /\ answer'[1] <= sent /\ answer'[2] <= sent /\ answer'[2] < answer'[1]
      BY <1>0, <2>3, <2>4, <2>5 DEF Answers
    <2>7. Answers' BY <1>1, <1>2, <1>3, <1>4, <2>6 DEF Answers
    <2>8. Completion # 0 BY <2>1, <2>3
    <2> QED BY <1>5, <1>7, <2>7, <2>8
  <1> QED BY <1>6, <1>7

LEMMA ThreadAnswers ==
  ASSUME Base, Readers, Answers, Thread
  PROVE  Answers'
  <1>0. thr.at # "clear" =>
          \A i \in Held \cup Rest : IsCommand(i) => answer[1] < trb[i].n /\ answer[2] < trb[i].n
    BY DEF Answers
  <1>1. CASE SendCommand BY <1>1, SendAnswers
  <1>2. CASE TakeAnswer BY <1>2, TakenAnswers
  <1>3. CASE Clear
    <2>1. Rest' = Rest BY <1>3, QuietReaders DEF Quiet
    <2>2. thr.at = "clear" /\ irq.at = "idle" /\ list' = <<>> /\ thr'.evs = <<>>
          /\ UNCHANGED <<ring, irq, calls, device>>
      BY <1>3, ClearFacts
    <2>3. UNCHANGED <<trb, enq, sent, commands, answer>> /\ irq' = irq
      BY <2>2 DEF ring, calls, device, queues
    <2>4. irq.evs = <<>> BY <2>2 DEF Readers
    <2>5. Held' = {} BY <2>2, <2>3, <2>4, SetFacts DEF Held
    <2> QED BY <2>1, <2>3, <2>5, SameAnswers
  <1>4. CASE Transfer
    <2>1. Rest' = Rest /\ Held' \subseteq Held BY <1>4, QuietReaders DEF Quiet
    <2>2. thr.at = "idle" /\ UNCHANGED <<ring, sent, commands, answer>> BY <1>4, TransferFacts
    <2> QED BY <1>0, <2>1, <2>2, SameAnswers DEF ring
  <1>5. CASE Read
    <2>1. Rest' \subseteq Rest /\ Held' \subseteq Held \cup Rest BY <1>5, ReadReaders
    <2>2. thr.at # "clear" /\ UNCHANGED <<ring, calls, device>> BY <1>5, ReadFacts
    <2>3. UNCHANGED <<trb, enq, sent, commands, answer>> BY <2>2 DEF ring, calls, device, queues
    <2> QED BY <1>0, <2>1, <2>2, <2>3, SameAnswers
  <1>6. CASE Advance
    <2>1. Rest' = Rest /\ Held' \subseteq Held BY <1>6, AdvanceReaders
    <2>2. thr.at \in {"advance", "drop"} BY <1>6 DEF Advance, At
    <2>3. deq # enq /\ thr.evs # <<>> BY <2>2 DEF Readers
    <2>4. UNCHANGED <<ring, calls, device>> BY <1>6, <2>3, AdvanceFacts
    <2>5. UNCHANGED <<trb, enq, sent, commands, answer>> BY <2>4 DEF ring, calls, device, queues
    <2> QED BY <1>0, <2>1, <2>2, <2>5, SameAnswers
  <1>7. CASE Publishing
    <2>1. Rest' = Rest /\ Held' \subseteq Held BY <1>7, QuietReaders DEF Quiet
    <2>2. thr.at # "clear" /\ UNCHANGED <<trb, enq, calls, device>>
      BY <1>7, PublishingFacts DEF Storing
    <2>3. UNCHANGED <<trb, enq, sent, commands, answer>> BY <2>2 DEF calls, device, queues
    <2> QED BY <1>0, <2>1, <2>2, <2>3, SameAnswers
  <1>8. CASE HandleRead
    <2>1. Rest' = Rest /\ Held' \subseteq Held BY <1>8, HandleReadReaders
    <2>2. thr.at # "clear" /\ UNCHANGED <<ring, calls, queues>> BY <1>8, HandleReadFacts
    <2>3. UNCHANGED <<trb, enq, sent, commands, answer>> BY <2>2 DEF ring, calls, queues
    <2> QED BY <1>0, <2>1, <2>2, <2>3, SameAnswers
  <1>9. CASE Again
    <2>1. Rest' = Rest /\ Held' \subseteq Held BY <1>9, QuietReaders DEF Quiet
    <2>2. thr.at # "clear" /\ UNCHANGED <<ring, sent, answer, device>> BY <1>9, AgainFacts
    <2>3. UNCHANGED <<trb, enq, sent, commands, answer>> BY <2>2 DEF ring, device, queues
    <2> QED BY <1>0, <2>1, <2>2, <2>3, SameAnswers
  <1> QED BY <1>1, <1>2, <1>3, <1>4, <1>5, <1>6, <1>7, <1>8, <1>9 DEF Thread, Publishing

\* As long as none was given up, only the command in progress is answered.
LEMMA SameMine ==
  ASSUME Mine, UNCHANGED <<trb, sent, commands, answer, late, thr>>,
         Places' \cup ToSet(list') \subseteq Places \cup ToSet(list), Places' \subseteq Places,
         ~ late /\ thr.at \notin {"wait", "clear"} =>
           list' = <<>> /\ flag' = 0 /\ irq'.seen = 0,
         ~ late /\ thr.at = "wait" => (flag' = 1 \/ irq'.seen = 1 => list' # <<>>)
  PROVE  Mine'
  <1>1. Ahead(commands)' = Ahead(commands) BY DEF Ahead
  <1>2. \A i : IsCommand(i)' <=> IsCommand(i) BY DEF IsCommand
  <1> QED BY <1>1, <1>2 DEF Mine

LEMMA ControllerMine ==
  ASSUME Base, Readers, Mine, Controller, ~ lapped'
  PROVE  Mine'
  <1>0. TypeOK /\ EventRing /\ commands \in Queue /\ RingOK(commands) BY DEF Base, Rings, TypeOK
  <1>1. ASSUME NEW k, NEW n, Post(k, n),
               commands'.trb = commands.trb, Ahead(commands)' \subseteq Ahead(commands),
               ~ late /\ k = "command" => n = sent /\ thr.at = "wait"
        PROVE  Mine'
    <2>1. /\ trb'[enq].kind = k /\ trb'[enq].n = n
          /\ UNCHANGED <<flag, list, irq, thr, calls>>
      BY <1>0, <1>1, PostFacts
    <2>2. UNCHANGED <<flag, list, irq, thr, sent, answer, late>> BY <2>1 DEF calls
    <2>3. /\ enq \notin Held /\ Places' = Places \cup {enq}
          /\ \A i \in Held \cup Places : i \in Slot /\ trb'[i] = trb[i]
          /\ enq \notin Places
      BY <1>0, <1>1, PostReaders
    <2>4. ToSet(list) \subseteq Held BY <1>0, PlacesTypes
    <2>5. \A i \in Places \cup ToSet(list) : trb'[i] = trb[i] /\ (IsCommand(i)' <=> IsCommand(i))
      BY <2>3, <2>4 DEF IsCommand
    <2>6. \A i : i = enq => (IsCommand(i)' <=> k = "command") /\ trb'[i].n = n
      BY <2>1 DEF IsCommand
    <2> SUFFICES ASSUME ~ late PROVE Mine' BY <2>2 DEF Mine
    <2>7. \A i \in Places' \cup ToSet(list) : IsCommand(i)' => trb'[i].n = sent
      <3> SUFFICES ASSUME NEW i \in Places' \cup ToSet(list), IsCommand(i)' PROVE trb'[i].n = sent
        OBVIOUS
      <3>1. CASE i = enq BY <1>1, <2>6, <3>1
      <3>2. CASE i # enq
        <4>1. i \in Places \cup ToSet(list) BY <2>3, <3>2
        <4> QED BY <2>5, <4>1 DEF Mine
      <3> QED BY <3>1, <3>2
    <2>8. thr.at # "wait" => \A i \in Places' : IsCommand(i)' <=> i # enq /\ IsCommand(i)
      <3> SUFFICES ASSUME thr.at # "wait", NEW i \in Places'
                   PROVE  IsCommand(i)' <=> i # enq /\ IsCommand(i)
        OBVIOUS
      <3>1. CASE i = enq BY <1>1, <2>6, <3>1
      <3>2. CASE i # enq BY <2>3, <2>5, <3>2
      <3> QED BY <3>1, <3>2
    <2>9. \A j \in Ahead(commands)' : commands'.trb[j].n = sent BY <1>1 DEF Mine
    <2>10. thr.at \notin {"wait", "clear"} =>
             /\ \A i \in Places' : ~ IsCommand(i)'
             /\ list = <<>> /\ Ahead(commands)' = {} /\ flag = 0 /\ irq.seen = 0 /\ thr.seen = 0
      BY <1>1, <2>3, <2>8 DEF Mine
    <2>11. thr.at = "clear" =>
             /\ answer[1] = sent /\ Ahead(commands)' = {}
             /\ \A i \in Places' : ~ IsCommand(i)'
      BY <1>1, <2>3, <2>8 DEF Mine
    <2>12. thr.at = "wait" => sent > 0 /\ (flag = 1 \/ irq.seen = 1 => list # <<>>) BY DEF Mine
    <2> QED BY <2>2, <2>7, <2>9, <2>10, <2>11, <2>12 DEF Mine
  <1>2. CASE AnswerCommand
    <2>1. /\ Pending(commands) /\ Post("command", commands.trb[commands.deq].n)
          /\ commands' = Consumed(commands)
      BY <1>2, AnswerCommandFacts
    <2>2. PICK q : q = Consumed(commands) OBVIOUS
    <2>3. /\ q.trb = commands.trb
          /\ commands.deq \in Ahead(commands) /\ Ahead(q) = Ahead(commands) \ {commands.deq}
      BY <1>0, <2>1, <2>2, ConsumedFacts
    <2>4. commands' = q /\ Ahead(commands)' = Ahead(q) BY <2>1, <2>2
    <2> DEFINE n == commands.trb[commands.deq].n
    <2>5. ~ late => n = sent /\ thr.at = "wait" BY <2>3 DEF Mine
    <2>6. Post("command", n) BY <2>1
    <2> HIDE DEF n
    <2>7. commands'.trb = commands.trb /\ Ahead(commands)' \subseteq Ahead(commands) BY <2>3, <2>4
    <2> QED BY <1>1, <2>5, <2>6, <2>7
  <1>3. CASE ServeTransfer
    <2>1. Post("control", dma') /\ commands' = commands BY <1>3, ServeTransferFacts
    <2>2. Ahead(commands)' = Ahead(commands) BY <2>1 DEF Ahead
    <2> QED BY <1>1, <2>1, <2>2
  <1>4. CASE Report
    <2>1. Post("report", reported') /\ commands' = commands BY <1>4, ReportFacts
    <2>2. Ahead(commands)' = Ahead(commands) BY <2>1 DEF Ahead
    <2> QED BY <1>1, <2>1, <2>2
  <1> QED BY <1>2, <1>3, <1>4 DEF Controller

LEMMA HandlerMine ==
  ASSUME Base, Readers, Mine, Handler, ~ raced'
  PROVE  Mine'
  <1>0. TypeOK /\ EventRing BY DEF Base
  <1>1. CASE IrqDequeue
    <2>1. Places' = Places BY <1>1, IrqDequeueReaders
    <2>2. irq.at = "idle" /\ irq'.seen = 0 /\ UNCHANGED <<trb, flag, list, thr, calls, device>>
      BY <1>1, IrqDequeueFacts
    <2>3. irq.seen = 0 BY <2>2 DEF Readers
    <2>4. UNCHANGED <<trb, flag, list, thr, sent, answer, late, commands>>
      BY <2>2 DEF calls, device, queues
    <2>5. ~ late /\ thr.at \notin {"wait", "clear"} => list' = <<>> /\ flag' = 0 BY <2>4 DEF Mine
    <2>6. ~ late /\ thr.at = "wait" => (flag' = 1 => list' # <<>>) BY <2>4 DEF Mine
    <2> QED BY <2>1, <2>2, <2>4, <2>5, <2>6, SameMine
  <1>2. CASE IrqHandle
    <2>1. UNCHANGED <<ring, thr, calls, queues>> BY <1>2, IrqHandleFacts
    <2>2. UNCHANGED <<trb, thr, sent, answer, late, commands>> BY <2>1 DEF ring, calls, queues
    <2>3. CASE irq.evs # <<>>
      <3> DEFINE h == Head(irq.evs)
      <3>1. /\ Handle(h) /\ irq'.seen = (IF IsCommand(h) THEN 1 ELSE irq.seen)
            /\ flag' = flag
        BY <1>2, <2>3, IrqHandleFacts
      <3>2. h \in Places /\ Places' = Places \ {h} BY <1>2, <2>3, IrqHandleReaders
      <3> HIDE DEF h
      <3>3. h \in Slot BY <1>0, <3>2, PlacesTypes
      <3>4. (IsCommand(h) => list' = Append(list, h)) /\ (~ IsCommand(h) => list' = list)
        BY <1>0, <3>1, <3>3, HandleFacts
      <3>5. list \in Seq(Slot) BY <1>0, PlacesTypes
      <3>6. ToSet(list') \subseteq ToSet(list) \cup {h} /\ (IsCommand(h) => list' # <<>>)
        <4>1. CASE IsCommand(h)
          <5>1. ToSet(Append(list, h)) = ToSet(list) \cup {h} /\ Append(list, h) # <<>>
            BY <3>3, <3>5, AppendFacts
          <5> QED BY <3>4, <4>1, <5>1
        <4>2. CASE ~ IsCommand(h) BY <3>4, <4>2
        <4> QED BY <4>1, <4>2
      <3>7. Places' \cup ToSet(list') \subseteq Places \cup ToSet(list) /\ Places' \subseteq Places
        BY <3>2, <3>6
      <3>8. ~ late /\ thr.at \notin {"wait", "clear"} => list' = <<>> /\ flag' = 0 /\ irq'.seen = 0
        BY <3>1, <3>2, <3>4 DEF Mine
      <3>9. ~ late /\ thr.at = "wait" => (flag' = 1 \/ irq'.seen = 1 => list' # <<>>)
        BY <3>1, <3>4, <3>6 DEF Mine
      <3> QED BY <2>2, <3>7, <3>8, <3>9, SameMine
    <2>4. CASE irq.evs = <<>>
      <3>1. flag' = irq.seen /\ irq'.seen = irq.seen /\ list' = list BY <1>2, <2>4, IrqHandleFacts
      <3>2. Places' = Places BY <1>2, <2>4, IrqHandleReaders
      <3>3. ~ late /\ thr.at \notin {"wait", "clear"} => list' = <<>> /\ flag' = 0 /\ irq'.seen = 0
        BY <3>1 DEF Mine
      <3>4. ~ late /\ thr.at = "wait" => (flag' = 1 \/ irq'.seen = 1 => list' # <<>>)
        BY <3>1 DEF Mine
      <3> QED BY <2>2, <3>1, <3>2, <3>3, <3>4, SameMine
    <2> QED BY <2>3, <2>4
  <1>3. CASE IrqAcknowledge
    <2>1. Places' = Places BY <1>3, QuietReaders
    <2>2. irq'.seen = 0 /\ UNCHANGED <<trb, flag, list, thr, calls, device>>
      BY <1>3, IrqAcknowledgeFacts
    <2>3. UNCHANGED <<trb, flag, list, thr, sent, answer, late, commands>>
      BY <2>2 DEF calls, device, queues
    <2>4. ~ late /\ thr.at \notin {"wait", "clear"} => list' = <<>> /\ flag' = 0 BY <2>3 DEF Mine
    <2>5. ~ late /\ thr.at = "wait" => (flag' = 1 => list' # <<>>) BY <2>3 DEF Mine
    <2> QED BY <2>1, <2>2, <2>3, <2>4, <2>5, SameMine
  <1> QED BY <1>1, <1>2, <1>3 DEF Handler

\* The thread while it has no command in progress.
LEMMA PollingMine ==
  ASSUME Mine, thr.at \notin {"wait", "clear"}, thr'.at \notin {"wait", "clear"},
         UNCHANGED <<trb, sent, commands, answer, late, irq>>, Places' \subseteq Places,
         ~ late => list' = <<>> /\ flag' = 0 /\ thr'.seen = 0
  PROVE  Mine'
  <1>1. Ahead(commands)' = Ahead(commands) BY DEF Ahead
  <1>2. \A i : IsCommand(i)' <=> IsCommand(i) BY DEF IsCommand
  <1> SUFFICES ASSUME ~ late PROVE Mine' BY DEF Mine
  <1>3. ToSet(list') = {} BY SetFacts
  <1> QED BY <1>1, <1>2, <1>3 DEF Mine

LEMMA ThreadMine ==
  ASSUME Base, Readers, Answers, Mine, Thread
  PROVE  Mine'
  <1>0. TypeOK /\ EventRing /\ commands \in Queue /\ RingOK(commands) /\ sent \in Nat
    BY DEF Base, Rings, TypeOK
  <1>a. ~ late /\ thr.at \notin {"wait", "clear"} => list = <<>> /\ flag = 0 /\ thr.seen = 0
    BY DEF Mine
  <1>1. CASE SendCommand
    <2>1. /\ thr.at = "idle" /\ thr'.at = "wait" /\ sent' = sent + 1
          /\ UNCHANGED <<ring, flag, list, irq, answer, late>>
      BY <1>1, SendCommandFacts
    <2>2. Places' = Places BY <1>1, QuietReaders DEF Quiet
    <2>3. /\ Ahead(commands)' \subseteq Ahead(commands) \cup {commands.enq}
          /\ commands'.trb[commands.enq].n = sent'
      BY <1>1, <2>1, SentFacts
    <2>4. \A i : IsCommand(i)' <=> IsCommand(i) BY <2>1 DEF ring, IsCommand
    <2> SUFFICES ASSUME ~ late PROVE Mine' BY <2>1 DEF Mine
    <2>5. /\ \A i \in Places : ~ IsCommand(i)
          /\ list = <<>> /\ Ahead(commands) = {} /\ flag = 0 /\ irq.seen = 0
      BY <2>1 DEF Mine
    <2>6. \A j \in Ahead(commands)' : commands'.trb[j].n = sent' BY <2>3, <2>5
    <2>7. ToSet(list') = {} BY <2>1, <2>5, SetFacts
    <2>8. \A i \in Places' \cup ToSet(list') : ~ IsCommand(i)' BY <2>2, <2>4, <2>5, <2>7
    <2>9. sent' > 0 /\ flag' = 0 /\ irq'.seen = 0 BY <1>0, <2>1, <2>5
    <2> QED BY <2>1, <2>6, <2>8, <2>9 DEF Mine
  <1>2. CASE TakeAnswer
    <2>1. /\ thr.at = "wait" /\ irq.at = "idle" /\ thr'.at = "clear"
          /\ answer'[1] = Completion
          /\ late' = (late \/ (flag = 0 /\ Completion # sent))
          /\ UNCHANGED <<ring, flag, list, irq, sent, device>>
      BY <1>2, TakeAnswerFacts
    <2>2. Places' = Places BY <1>2, QuietReaders DEF Quiet
    <2>3. UNCHANGED <<trb, commands>> /\ \A i : IsCommand(i)' <=> IsCommand(i)
      BY <2>1 DEF ring, device, queues, IsCommand
    <2>4. Ahead(commands)' = Ahead(commands) BY <2>3 DEF Ahead
    <2> SUFFICES ASSUME ~ late' PROVE Mine' BY DEF Mine
    <2>5. ~ late /\ (flag = 0 => Completion = sent) BY <2>1
    <2>6. sent > 0 /\ (flag = 1 => list # <<>>) BY <2>1, <2>5 DEF Mine
    <2>7. /\ Completion # 0 <=> list # <<>>
          /\ list # <<>> => list[1] \in ToSet(list) /\ list[1] \in Slot /\ IsCommand(list[1])
      BY <1>2, TakenAnswers
    <2>8. list # <<>>
      <3>1. flag \in {0, 1} BY <1>0 DEF TypeOK
      <3> QED BY <1>0, <2>5, <2>6, <2>7, <3>1
    <2> DEFINE c == list[1]
    <2>9. c \in ToSet(list) /\ c \in Slot /\ IsCommand(c) /\ Completion = trb[c].n
      BY <2>7, <2>8 DEF Completion
    <2> HIDE DEF c
    <2>10. trb[c].n = sent BY <2>5, <2>9 DEF Mine
    <2>11. Ahead(commands) = {}
      <3> SUFFICES ASSUME NEW j \in Ahead(commands) PROVE FALSE OBVIOUS
      <3>1. trb[c].n < commands.trb[j].n BY <2>9 DEF Answers
      <3>2. commands.trb[j].n = sent BY <2>5 DEF Mine
      <3> QED BY <1>0, <2>10, <3>1, <3>2
    <2>12. \A i \in Places : ~ IsCommand(i)
      <3> SUFFICES ASSUME NEW i \in Places, IsCommand(i) PROVE FALSE OBVIOUS
      <3>1. irq.evs = <<>> /\ thr.evs = <<>> BY <2>1 DEF Readers, Storing, Polling
      <3>2. i \in Rest BY <3>1, SetFacts DEF Places
      <3>3. c \in Held BY <1>0, <2>9, PlacesTypes
      <3>4. Before(enq, c, i) /\ i \in Slot BY <1>0, <3>2, <3>3, PlacesTypes DEF Readers
      <3>5. trb[c].n < trb[i].n BY <2>9, <3>4 DEF Answers
      <3>6. trb[i].n = sent BY <2>5 DEF Mine
      <3> QED BY <1>0, <2>10, <3>5, <3>6
    <2>13. \A i \in Places' \cup ToSet(list') : IsCommand(i)' => trb'[i].n = sent'
      BY <2>1, <2>2, <2>3, <2>5 DEF Mine
    <2>14. answer'[1] = sent' /\ Ahead(commands)' = {} /\ \A i \in Places' : ~ IsCommand(i)'
      BY <2>1, <2>2, <2>3, <2>4, <2>9, <2>10, <2>11, <2>12
    <2> QED BY <2>1, <2>13, <2>14 DEF Mine
  <1>3. CASE Clear
    <2>1. /\ thr.at = "clear" /\ irq.at = "idle" /\ thr'.at = "idle" /\ thr'.seen = 0
          /\ list' = <<>> /\ flag' = 0
          /\ UNCHANGED <<ring, irq, calls, device>>
      BY <1>3, ClearFacts
    <2>2. Places' = Places BY <1>3, QuietReaders DEF Quiet
    <2>3. UNCHANGED <<trb, sent, commands, answer, late>> /\ \A i : IsCommand(i)' <=> IsCommand(i)
      BY <2>1 DEF ring, calls, device, queues, IsCommand
    <2>4. Ahead(commands)' = Ahead(commands) BY <2>3 DEF Ahead
    <2> SUFFICES ASSUME ~ late PROVE Mine' BY <2>3 DEF Mine
    <2>5. Ahead(commands) = {} /\ \A i \in Places : ~ IsCommand(i) BY <2>1 DEF Mine
    <2>6. irq'.seen = 0 BY <2>1 DEF Readers
    <2>7. ToSet(list') = {} BY <2>1, SetFacts
    <2> QED BY <2>1, <2>2, <2>3, <2>4, <2>5, <2>6, <2>7 DEF Mine
  <1>4. CASE Transfer
    <2>1. /\ thr.at = "idle" /\ thr'.at = "read" /\ thr'.seen = 0
          /\ UNCHANGED <<ring, flag, list, irq, sent, answer, late, commands>>
      BY <1>4, TransferFacts
    <2>2. Places' = Places BY <1>4, QuietReaders DEF Quiet
    <2> QED BY <1>a, <2>1, <2>2, PollingMine DEF ring
  <1>5. CASE Read
    <2>1. /\ thr.at \in {"read", "flush"}
          /\ thr'.at \in {"advance", "drop", "publish", "handle"} /\ thr'.seen = thr.seen
          /\ UNCHANGED <<ring, flag, list, irq, calls, device>>
      BY <1>5, ReadFacts
    <2>2. Places' = Places BY <1>5, ReadReaders
    <2> QED BY <1>a, <2>1, <2>2, PollingMine DEF ring, calls, device, queues
  <1>6. CASE Advance
    <2>0. thr.at \in {"advance", "drop"} BY <1>6 DEF Advance, At
    <2>1. deq # enq /\ thr.evs # <<>> BY <2>0 DEF Readers
    <2>2. /\ thr'.at \in {"read", "flush"} /\ thr'.seen = thr.seen
          /\ UNCHANGED <<ring, flag, list, irq, calls, device>>
      BY <1>6, <2>0, <2>1, AdvanceFacts
    <2>3. Places' \subseteq Places BY <1>6, <2>0, AdvanceReaders
    <2> QED BY <1>a, <2>0, <2>2, <2>3, PollingMine DEF ring, calls, device, queues
  <1>7. CASE Publishing
    <2>1. /\ thr.at \notin {"wait", "clear"} /\ thr'.at \notin {"wait", "clear"}
          /\ thr'.seen = thr.seen
          /\ UNCHANGED <<trb, flag, list, irq, calls, device>>
      BY <1>7, PublishingFacts DEF Storing
    <2>2. Places' = Places BY <1>7, QuietReaders DEF Quiet
    <2> QED BY <1>a, <2>1, <2>2, PollingMine DEF calls, device, queues
  <1>8. CASE HandleRead
    <2>1. thr.at = "handle" /\ UNCHANGED <<ring, irq, calls, queues>> BY <1>8, HandleReadFacts
    <2>2. UNCHANGED <<trb, irq, sent, answer, late, commands>> BY <2>1 DEF ring, calls, queues
    <2>3. CASE thr.evs # <<>>
      <3> DEFINE h == Head(thr.evs)
      <3>1. /\ Handle(h) /\ thr'.at = "handle" /\ flag' = flag
            /\ thr'.seen = (IF IsCommand(h) THEN 1 ELSE thr.seen)
        BY <1>8, <2>3, HandleReadFacts
      <3>2. h \in Places /\ Places' = Places \ {h} BY <1>8, <2>3, HandleReadReaders
      <3> HIDE DEF h
      <3>3. h \in Slot BY <1>0, <3>2, PlacesTypes
      <3>4. ~ IsCommand(h) => list' = list BY <1>0, <3>1, <3>3, HandleFacts
      <3>5. ~ late => ~ IsCommand(h) BY <2>1, <3>2 DEF Mine
      <3> QED BY <1>a, <2>1, <2>2, <3>1, <3>2, <3>4, <3>5, PollingMine
    <2>4. CASE thr.evs = <<>>
      <3>1. flag' = thr.seen /\ thr'.at = "flush" /\ thr'.seen = thr.seen /\ list' = list
        BY <1>8, <2>4, HandleReadFacts
      <3>2. Places' = Places BY <1>8, <2>4, HandleReadReaders
      <3> QED BY <1>a, <2>1, <2>2, <3>1, <3>2, PollingMine
    <2> QED BY <2>3, <2>4
  <1>9. CASE Again
    <2>1. /\ thr.at = "again" /\ thr'.at \in {"read", "idle"} /\ thr'.seen = 0
          /\ UNCHANGED <<ring, flag, list, irq, sent, answer, late, device>>
      BY <1>9, AgainFacts
    <2>2. Places' = Places BY <1>9, QuietReaders DEF Quiet
    <2> QED BY <1>a, <2>1, <2>2, PollingMine DEF ring, device, queues
  <1> QED BY <1>1, <1>2, <1>3, <1>4, <1>5, <1>6, <1>7, <1>8, <1>9 DEF Thread, Publishing

-----------------------------------------------------------------------------
(* The reports.                                                            *)
LEMMA SameReports ==
  ASSUME Reports, trb' = trb, Places' = Places, UNCHANGED <<armed, reported, flushed, pushed>>
  PROVE  Reports'
  <1>1. \A i : IsReport(i)' <=> IsReport(i) BY DEF IsReport
  <1> QED BY <1>1 DEF Reports

\* Of a report nothing is left but what was pushed, when it is handled.
LEMMA HandleReports ==
  ASSUME Base, Reports, NEW h \in Places, Handle(h), trb' = trb, flushed' = flushed,
         Places' = Places \ {h}
  PROVE  Reports'
  <1>0. TypeOK /\ EventRing /\ reported \in Nat /\ pushed \in Seq(Nat) /\ trb \in [Slot -> Event]
    BY DEF Base, TypeOK
  <1>1. h \in Slot BY <1>0, PlacesTypes
  <1>2. /\ IsReport(h) => pushed' = Append(pushed, trb[h].n) /\ armed' = TRUE
        /\ ~ IsReport(h) => UNCHANGED <<pushed, armed>>
        /\ reported' = reported
    BY <1>0, <1>1, HandleFacts
  <1>3. \A i : IsReport(i)' <=> IsReport(i) BY DEF IsReport
  <1>4. CASE IsReport(h)
    <2>1. trb[h].n = reported /\ ~ armed /\ flushed = {} /\ reported > 0 BY <1>4 DEF Reports
    <2>2. \A i \in Places' : ~ IsReport(i) BY <1>4 DEF Reports
    <2>3. ToSet(pushed) = 1 .. reported - 1 /\ \A i \in 2 .. Len(pushed) : pushed[i - 1] < pushed[i]
      BY <2>1 DEF Reports
    <2>4. pushed' = Append(pushed, reported) BY <1>2, <1>4, <2>1
    <2>5. ToSet(pushed') = 1 .. reported
      <3>1. ToSet(Append(pushed, reported)) = ToSet(pushed) \cup {reported} BY <1>0, AppendFacts
      <3>2. 1 .. reported = (1 .. reported - 1) \cup {reported} BY <1>0, <2>1
      <3> QED BY <2>3, <2>4, <3>1, <3>2
    <2>6. \A i \in 2 .. Len(pushed') : pushed'[i - 1] < pushed'[i]
      <3>1. /\ Len(pushed) \in Nat /\ DOMAIN pushed = 1 .. Len(pushed)
            /\ Len(pushed') = Len(pushed) + 1 /\ pushed'[Len(pushed) + 1] = reported
            /\ \A i \in 1 .. Len(pushed) : pushed'[i] = pushed[i]
        BY <1>0, <2>4
      <3>2. \A i \in 1 .. Len(pushed) : pushed[i] < reported
        <4> SUFFICES ASSUME NEW i \in 1 .. Len(pushed) PROVE pushed[i] < reported OBVIOUS
        <4>1. pushed[i] \in ToSet(pushed) BY <3>1 DEF ToSet
        <4> QED BY <1>0, <2>3, <4>1
      <3> SUFFICES ASSUME NEW i \in 2 .. Len(pushed') PROVE pushed'[i - 1] < pushed'[i] OBVIOUS
      <3>3. CASE i = Len(pushed) + 1
        <4>1. i - 1 \in 1 .. Len(pushed) BY <3>1, <3>3
        <4> QED BY <3>1, <3>2, <3>3, <4>1
      <3>4. CASE i # Len(pushed) + 1
        <4>1. i \in 2 .. Len(pushed) /\ i \in 1 .. Len(pushed) /\ i - 1 \in 1 .. Len(pushed)
          BY <3>1, <3>4
        <4> QED BY <2>3, <3>1, <4>1
      <3> QED BY <3>3, <3>4
    <2> QED BY <1>2, <1>3, <1>4, <2>1, <2>2, <2>5, <2>6 DEF Reports
  <1>5. CASE ~ IsReport(h)
    <2>1. UNCHANGED <<pushed, armed, reported>> BY <1>2, <1>5
    <2>2. \A i \in Places : IsReport(i) <=> i \in Places' /\ IsReport(i) BY <1>5
    <2> QED BY <1>3, <2>1, <2>2 DEF Reports
  <1> QED BY <1>4, <1>5

LEMMA ControllerReports ==
  ASSUME Base, Readers, Reports, Controller, ~ lapped'
  PROVE  Reports'
  <1>0. TypeOK /\ EventRing /\ reported \in Nat BY DEF Base, TypeOK
  <1>1. ASSUME NEW k, NEW n, Post(k, n), k # "report", UNCHANGED <<armed, reported>>
        PROVE  Reports'
    <2>1. trb'[enq].kind = k /\ UNCHANGED <<pushed, flushed>> BY <1>0, <1>1, PostFacts
    <2>2. /\ Places' = Places \cup {enq} /\ enq \notin Places
          /\ \A i \in Held \cup Places : trb'[i] = trb[i]
      BY <1>0, <1>1, PostReaders
    <2>3. \A i \in Places : (IsReport(i)' <=> IsReport(i)) /\ trb'[i].n = trb[i].n
      BY <2>2 DEF IsReport
    <2>4. \A i : i = enq => ~ IsReport(i)' BY <1>1, <2>1 DEF IsReport
    <2>5. \A i \in Places' : IsReport(i)' => i \in Places /\ IsReport(i) /\ trb'[i].n = trb[i].n
      BY <2>2, <2>3, <2>4
    <2>6. \A i \in Places : IsReport(i) => i \in Places' /\ IsReport(i)' BY <2>2, <2>3
    <2> QED BY <1>1, <2>1, <2>5, <2>6 DEF Reports
  <1>2. CASE AnswerCommand
    <2>1. Post("command", commands.trb[commands.deq].n) /\ UNCHANGED <<armed, reported>>
      BY <1>2, AnswerCommandFacts DEF AnswerCommand
    <2> DEFINE n == commands.trb[commands.deq].n
    <2> HIDE DEF n
    <2>2. Post("command", n) BY <2>1 DEF n
    <2> QED BY <1>1, <2>1, <2>2
  <1>3. CASE ServeTransfer
    <2>1. Post("control", dma') /\ UNCHANGED <<armed, reported>> BY <1>3 DEF ServeTransfer
    <2> QED BY <1>1, <2>1
  <1>4. CASE Report
    <2>1. armed /\ armed' = FALSE /\ reported' = reported + 1 /\ Post("report", reported')
      BY <1>4, ReportFacts
    <2>2. /\ trb'[enq].kind = "report" /\ trb'[enq].n = reported' /\ UNCHANGED <<pushed, flushed>>
      BY <1>0, <2>1, PostFacts
    <2>3. /\ Places' = Places \cup {enq}
          /\ \A i \in Held \cup Places : trb'[i] = trb[i]
          /\ enq \notin Places
      BY <1>0, <2>1, PostReaders
    <2>4. flushed = {} /\ \A i \in Places : ~ IsReport(i) BY <2>1 DEF Reports
    <2>5. \A i \in Places' : IsReport(i)' => i = enq BY <2>3, <2>4 DEF IsReport
    <2>6. \A i : i = enq => IsReport(i)' /\ trb'[i].n = reported' BY <2>2 DEF IsReport
    <2>7. \E i \in Places' : IsReport(i)'
      <3>1. PICK i : i = enq OBVIOUS
      <3> QED BY <2>3, <2>6, <3>1
    <2>8. ToSet(pushed) = 1 .. reported' - 1 /\ reported' > 0
      <3>1. ToSet(pushed) = 1 .. reported BY <2>1 DEF Reports
      <3>2. reported' - 1 = reported /\ reported' > 0 BY <1>0, <2>1
      <3> QED BY <3>1, <3>2
    <2>9. \A i \in Places' : IsReport(i)' => trb'[i].n = reported' BY <2>5, <2>6
    <2>10. \A i, j \in Places' : IsReport(i)' /\ IsReport(j)' => i = j BY <2>5
    <2>11. \A i \in 2 .. Len(pushed) : pushed[i - 1] < pushed[i] BY DEF Reports
    <2> QED BY <2>1, <2>2, <2>4, <2>7, <2>8, <2>9, <2>10, <2>11 DEF Reports
  <1> QED BY <1>2, <1>3, <1>4 DEF Controller

LEMMA HandlerReports ==
  ASSUME Base, Readers, Reports, Handler, ~ raced'
  PROVE  Reports'
  <1>1. CASE IrqDequeue
    <2>1. Places' = Places BY <1>1, IrqDequeueReaders
    <2>2. UNCHANGED <<trb, device, pushed, flushed>> BY <1>1, IrqDequeueFacts
    <2> QED BY <2>1, <2>2, SameReports DEF device
  <1>2. CASE IrqHandle
    <2>1. UNCHANGED <<ring, history, reported>> BY <1>2, IrqHandleFacts
    <2>2. trb' = trb /\ flushed' = flushed /\ reported' = reported BY <2>1 DEF ring, history
    <2>3. CASE irq.evs # <<>>
      <3> DEFINE h == Head(irq.evs)
      <3>1. Handle(h) BY <1>2, <2>3, IrqHandleFacts
      <3>2. h \in Places /\ Places' = Places \ {h} BY <1>2, <2>3, IrqHandleReaders
      <3> HIDE DEF h
      <3> QED BY <2>2, <3>1, <3>2, HandleReports
    <2>4. CASE irq.evs = <<>>
      <3>1. UNCHANGED <<pushed, armed>> BY <1>2, <2>4, IrqHandleFacts
      <3>2. Places' = Places BY <1>2, <2>4, IrqHandleReaders
      <3> QED BY <2>2, <3>1, <3>2, SameReports
    <2> QED BY <2>3, <2>4
  <1>3. CASE IrqAcknowledge
    <2>1. Places' = Places BY <1>3, QuietReaders
    <2>2. UNCHANGED <<trb, device, pushed, flushed>> BY <1>3, IrqAcknowledgeFacts
    <2> QED BY <2>1, <2>2, SameReports DEF device
  <1> QED BY <1>1, <1>2, <1>3 DEF Handler

LEMMA ThreadReports ==
  ASSUME Base, Readers, Reports, Thread
  PROVE  Reports'
  <1>0. TypeOK /\ EventRing BY DEF Base
  <1>1. CASE SendCommand
    <2>1. Places' = Places BY <1>1, QuietReaders DEF Quiet
    <2>2. UNCHANGED <<ring, armed, reported, pushed, history>> BY <1>1, SendCommandFacts
    <2> QED BY <2>1, <2>2, SameReports DEF ring, history
  <1>2. CASE TakeAnswer
    <2>1. Places' = Places BY <1>2, QuietReaders DEF Quiet
    <2>2. UNCHANGED <<ring, device, pushed, history>> BY <1>2, TakeAnswerFacts
    <2> QED BY <2>1, <2>2, SameReports DEF ring, device, history
  <1>3. CASE Clear
    <2>1. Places' = Places BY <1>3, QuietReaders DEF Quiet
    <2>2. UNCHANGED <<ring, device, pushed, history>> BY <1>3, ClearFacts
    <2> QED BY <2>1, <2>2, SameReports DEF ring, device, history
  <1>4. CASE Transfer
    <2>1. Places' = Places BY <1>4, QuietReaders DEF Quiet
    <2>2. UNCHANGED <<ring, armed, reported, pushed, history>> BY <1>4, TransferFacts
    <2> QED BY <2>1, <2>2, SameReports DEF ring, history
  <1>5. CASE Read
    <2>1. Places' = Places BY <1>5, ReadReaders
    <2>2. UNCHANGED <<ring, device, pushed, history>> BY <1>5, ReadFacts
    <2> QED BY <2>1, <2>2, SameReports DEF ring, device, history
  <1>6. CASE Advance
    <2>0. thr.at \in {"advance", "drop"} BY <1>6 DEF Advance, At
    <2>1. deq # enq /\ thr.evs # <<>> BY <2>0 DEF Readers
    <2>2. /\ flushed' = (IF thr.at = "drop" /\ IsReport(Last(thr.evs))
                         THEN flushed \cup {trb[Last(thr.evs)].n} ELSE flushed)
          /\ UNCHANGED <<ring, device, pushed>>
      BY <1>6, <2>1, AdvanceFacts
    <2>3. UNCHANGED <<trb, armed, reported, pushed>> BY <2>2 DEF ring, device
    <2>4. CASE thr.at = "advance"
      <3>1. Places' = Places BY <1>6, <2>4, AdvanceReaders
      <3> QED BY <2>2, <2>3, <2>4, <3>1, SameReports
    <2>5. CASE thr.at = "drop"
      <3> DEFINE h == Last(thr.evs)
      <3>1. h \in Places /\ Places' = Places \ {h} BY <1>6, <2>5, AdvanceReaders
      <3>2. flushed' = (IF IsReport(h) THEN flushed \cup {trb[h].n} ELSE flushed) BY <2>2, <2>5
      <3> HIDE DEF h
      <3>3. \A i : IsReport(i)' <=> IsReport(i) BY <2>3 DEF IsReport
      <3>4. CASE IsReport(h)
        <4>1. trb[h].n = reported /\ ~ armed /\ flushed = {} BY <3>1, <3>4 DEF Reports
        <4>2. flushed' = {reported} BY <3>2, <3>4, <4>1
        <4>3. \A i \in Places' : ~ IsReport(i) BY <3>1, <3>4 DEF Reports
        <4> QED BY <2>3, <3>3, <4>1, <4>2, <4>3 DEF Reports
      <3>5. CASE ~ IsReport(h)
        <4>1. flushed' = flushed BY <3>2, <3>5
        <4>2. \A i \in Places : IsReport(i) <=> i \in Places' /\ IsReport(i) BY <3>1, <3>5
        <4> QED BY <2>3, <3>1, <3>3, <4>1, <4>2 DEF Reports
      <3> QED BY <3>4, <3>5
    <2> QED BY <2>0, <2>4, <2>5
  <1>7. CASE Publishing
    <2>1. Places' = Places BY <1>7, QuietReaders DEF Quiet
    <2>2. UNCHANGED <<trb, device, pushed, flushed>> BY <1>7, PublishingFacts
    <2> QED BY <2>1, <2>2, SameReports DEF device
  <1>8. CASE HandleRead
    <2>1. UNCHANGED <<ring, history, reported>> BY <1>8, HandleReadFacts
    <2>2. trb' = trb /\ flushed' = flushed /\ reported' = reported BY <2>1 DEF ring, history
    <2>3. CASE thr.evs # <<>>
      <3> DEFINE h == Head(thr.evs)
      <3>1. Handle(h) BY <1>8, <2>3, HandleReadFacts
      <3>2. h \in Places /\ Places' = Places \ {h} BY <1>8, <2>3, HandleReadReaders
      <3> HIDE DEF h
      <3> QED BY <2>2, <3>1, <3>2, HandleReports
    <2>4. CASE thr.evs = <<>>
      <3>1. UNCHANGED <<pushed, armed>> BY <1>8, <2>4, HandleReadFacts
      <3>2. Places' = Places BY <1>8, <2>4, HandleReadReaders
      <3> QED BY <2>2, <3>1, <3>2, SameReports
    <2> QED BY <2>3, <2>4
  <1>9. CASE Again
    <2>1. Places' = Places BY <1>9, QuietReaders DEF Quiet
    <2>2. UNCHANGED <<ring, device, pushed, history>> BY <1>9, AgainFacts
    <2> QED BY <2>1, <2>2, SameReports DEF ring, device, history
  <1> QED BY <1>1, <1>2, <1>3, <1>4, <1>5, <1>6, <1>7, <1>8, <1>9 DEF Thread, Publishing

-----------------------------------------------------------------------------
(* The theorems.                                                           *)
LEMMA InitIInv == ASSUME Init PROVE IInv
  <1>1. Base BY BaseInit
  <1>2. Ahead(commands) = {} /\ Ahead(transfers) = {}
        /\ \A i \in 0 .. Link : commands.trb[i].address = FALSE
    BY NewRingFacts DEF Init
  <1>3. /\ irq = Idle /\ thr = Idle /\ list = <<>> /\ deq = 0 /\ enq = 0
        /\ trb = [i \in Slot |-> [kind |-> "none", n |-> 0, cycle |-> 0]]
    BY DEF Init
  <1>4. /\ thr.at = "idle" /\ thr.evs = <<>> /\ thr.seen = 0
        /\ irq.at = "idle" /\ irq.evs = <<>> /\ irq.seen = 0
    BY <1>3, IdleFacts
  <1>5. /\ ToSet(irq.evs) = {} /\ ToSet(thr.evs) = {} /\ ToSet(list) = {}
        /\ Once(irq.evs) /\ Once(thr.evs)
    BY <1>3, <1>4, SetFacts
  <1>6. Rest = {}
    <2>1. New = {} BY <1>3 DEF New
    <2> QED BY <2>1 DEF Rest
  <1>7. Held = {} /\ Places = {} BY <1>5, <1>6 DEF Held, Places
  <1>8. \A i \in Slot : ~ IsCommand(i) BY <1>3 DEF IsCommand
  <1>9. Addressed /\ Transfers
    <2>1. thr.at \notin Polling BY <1>4 DEF Polling, Storing
    <2>2. ~ Pending(transfers)
      <3>1. /\ NewRing \in Queue /\ RingOK(NewRing)
            /\ NewRing.deq = 0 /\ NewRing.enq = 0 /\ NewRing.rcs = 1 /\ NewRing.ccs = 1
        BY NewRingFacts DEF NewRing
      <3>2. ~ Pending(NewRing) BY <3>1, PendingFacts
      <3> QED BY <3>2 DEF Init
    <2>3. again = 0 /\ asked = 0 /\ slow = 0 /\ dma = 0 /\ addressed = FALSE BY DEF Init
    <2>4. Transfers BY <2>1, <2>2, <2>3 DEF Transfers
    <2> QED BY <1>2, <2>3, <2>4 DEF Addressed
  <1>10. Readers BY <1>3, <1>4, <1>5, <1>7 DEF Readers
  <1>11. Answers BY <1>2, <1>6, <1>7, <1>8 DEF Init, Answers
  <1>12. Mine BY <1>2, <1>3, <1>4, <1>5, <1>7 DEF Init, Mine
  <1>13. Reports
    <2>1. pushed = <<>> /\ armed = TRUE /\ reported = 0 /\ flushed = {} BY DEF Init
    <2>2. ToSet(pushed) = {} /\ Len(pushed) = 0 BY <2>1, SetFacts
    <2>3. \A i \in 2 .. Len(pushed) : FALSE BY <2>2
    <2>4. 1 .. 0 = {} OBVIOUS
    <2> QED BY <1>7, <2>1, <2>2, <2>3, <2>4 DEF Reports
  <1> QED BY <1>1, <1>9, <1>10, <1>11, <1>12, <1>13 DEF IInv, Base

LEMMA SameIInv == ASSUME IInv, UNCHANGED vars PROVE IInv'
  <1>1. UNCHANGED <<trb, enq, pcs, erdp, ip, ehb, posted, deq, rcs, flag, list, irq, thr,
                    commands, transfers, bell, dma, sent, asked, addressed, answer, late,
                    slow, armed, reported, again, pushed, raced, lapped, missed, behind, flushed>>
    BY DEF vars, ring, reader, calls, device, queues, history
  <1>2. TypeOK' /\ Rings' BY <1>1 DEF IInv, TypeOK, Rings
  <1>3. Addressed' /\ Transfers' BY <1>1, SameTransfers, SameAddressed DEF IInv
  <1>4. New' = New /\ Rest' = Rest /\ Held' = Held BY <1>1 DEF New, Rest, Held
  <1>5. Places' = Places BY <1>1, <1>4 DEF Places
  <1>6. Ahead(commands)' = Ahead(commands) BY <1>1 DEF Ahead
  <1>7. \A i : IsCommand(i)' <=> IsCommand(i) BY <1>1 DEF IsCommand
  <1> SUFFICES ASSUME Sound' PROVE EventRing' /\ Readers' /\ Answers' /\ Mine' /\ Reports'
    BY <1>2, <1>3 DEF IInv
  <1>8. EventRing /\ Readers /\ Answers /\ Mine /\ Reports BY <1>1 DEF IInv, Sound
  <1>a. EventRing' BY <1>1, <1>8 DEF EventRing
  <1>9. Readers' BY <1>1, <1>4, <1>8 DEF Readers
  <1>10. Answers' BY <1>1, <1>4, <1>6, <1>7, <1>8 DEF Answers
  <1>11. Mine' BY <1>1, <1>5, <1>6, <1>7, <1>8 DEF Mine
  <1>12. Reports' BY <1>1, <1>5, <1>8, SameReports
  <1> QED BY <1>a, <1>9, <1>10, <1>11, <1>12

LEMMA NextBase ==
  ASSUME Base, Readers, Next
  PROVE  TypeOK' /\ Rings' /\ (~ lapped' => EventRing')
  <1>a. Base' => TypeOK' /\ Rings' /\ EventRing' BY DEF Base
  <1>1. CASE Controller
    BY <1>a, <1>1, AnswerCommandFacts, ServeTransferFacts, ReportFacts DEF Controller
  <1>2. CASE Handler
    BY <1>a, <1>2, IrqDequeueFacts, IrqHandleFacts, IrqAcknowledgeFacts DEF Handler
  <1>3. CASE Advance
    <2>1. thr.at \in {"advance", "drop"} BY <1>3 DEF Advance, At
    <2>2. deq # enq /\ thr.evs # <<>> BY <2>1 DEF Readers
    <2> QED BY <1>a, <1>3, <2>2, AdvanceFacts
  <1>4. CASE Thread /\ ~ Advance
    BY <1>a, <1>4, SendCommandFacts, TakeAnswerFacts, ClearFacts, TransferFacts, ReadFacts,
       PublishingFacts, HandleReadFacts, AgainFacts DEF Thread, Publishing
  <1> QED BY <1>1, <1>2, <1>3, <1>4 DEF Next

LEMMA NextIInv == ASSUME IInv, Next PROVE IInv'
  <1>1. Sound /\ (Controller \/ Handler \/ Thread) BY DEF Next
  <1>2. Base /\ Addressed /\ Transfers /\ Readers /\ Answers /\ Mine /\ Reports
    BY <1>1 DEF IInv, Base
  <1>3. TypeOK' /\ Rings' /\ (~ lapped' => EventRing') BY <1>2, NextBase
  <1>4. Addressed' /\ Transfers'
    BY <1>1, <1>2, ControllerTransfers, HandlerTransfers, ThreadTransfers,
       ControllerAddressed, OthersAddressed
  <1> SUFFICES ASSUME ~ raced', ~ lapped' PROVE Readers' /\ Answers' /\ Mine' /\ Reports'
    BY <1>3, <1>4 DEF IInv, Sound
  <1>5. CASE Controller
    <2>1. Readers'
      <3>0. TypeOK /\ EventRing BY <1>2 DEF Base
      <3>1. CASE AnswerCommand
        <4> DEFINE n == commands.trb[commands.deq].n
        <4>1. Post("command", n) BY <1>2, <3>1, AnswerCommandFacts
        <4> HIDE DEF n
        <4> QED BY <1>2, <3>0, <4>1, PostReaders
      <3>2. CASE ServeTransfer
        <4>1. Post("control", dma') BY <1>2, <3>2, ServeTransferFacts
        <4> QED BY <1>2, <3>0, <4>1, PostReaders
      <3>3. CASE Report
        <4>1. Post("report", reported') BY <1>2, <3>3, ReportFacts
        <4> QED BY <1>2, <3>0, <4>1, PostReaders
      <3> QED BY <1>5, <3>1, <3>2, <3>3 DEF Controller
    <2> QED BY <1>2, <1>5, <2>1, ControllerAnswers, ControllerMine, ControllerReports
  <1>6. CASE Handler
    <2>1. Readers' BY <1>2, <1>6, IrqDequeueReaders, IrqHandleReaders, QuietReaders DEF Handler
    <2> QED BY <1>2, <1>6, <2>1, HandlerAnswers, HandlerMine, HandlerReports
  <1>7. CASE Thread
    <2>1. Readers'
      BY <1>2, <1>7, ReadReaders, AdvanceReaders, HandleReadReaders, QuietReaders
      DEF Thread, Quiet, Publishing
    <2> QED BY <1>2, <1>7, <2>1, ThreadAnswers, ThreadMine, ThreadReports
  <1> QED BY <1>1, <1>5, <1>6, <1>7

\* The invariant of _xhci_irq_handler, of the thread that polls, and of the
\* controller: from Init on, through every step that is explored.
THEOREM InvariantTheorem == Spec => []IInv
  <1>1. Init => IInv BY InitIInv
  <1>2. IInv /\ [Next]_vars => IInv'
    <2> SUFFICES ASSUME IInv, [Next]_vars PROVE IInv' OBVIOUS
    <2>1. CASE Next BY <2>1, NextIInv
    <2>2. CASE UNCHANGED vars BY <2>2, SameIInv
    <2> QED BY <2>1, <2>2
  <1> QED BY <1>1, <1>2, PTL DEF Spec

\* The rings' pointers, lists and registers keep their ranges: the driver's
\* m_dequeue_ptr and m_enqueue_ptr stay in their rings, also where they wrap.
THEOREM TypeTheorem == Spec => []TypeOK
  <1>1. IInv => TypeOK BY DEF IInv
  <1> QED BY <1>1, InvariantTheorem, PTL

\* _send_command_trb: a command that ends without a timeout gets its own completion.
THEOREM AnswerIsMineTheorem == Spec => []AnswerIsMine
  <1>1. IInv => AnswerIsMine BY DEF IInv, Mine, AnswerIsMine
  <1> QED BY <1>1, InvariantTheorem, PTL

\* Also after timeouts, a completion answers one command at most, in order.
THEOREM AnswersOnceTheorem == Spec => []AnswersOnce
  <1>1. IInv => AnswersOnce
    <2> SUFFICES ASSUME IInv, Sound, answer[1] # 0 PROVE answer[1] \in answer[2] + 1 .. sent
      BY DEF AnswersOnce
    <2>1. answer \in Nat \X Nat /\ sent \in Nat BY DEF IInv, TypeOK
    <2>2. answer[2] < answer[1] /\ answer[1] <= sent BY DEF IInv, Answers
    <2> QED BY <2>1, <2>2
  <1> QED BY <1>1, InvariantTheorem, PTL

\* _send_control_transfer copies the device's answer to the transfer, or zeros,
\* unless the controller has not served all that is on the ring; and then too,
\* unless an earlier one was given up or the device was just addressed again.
THEOREM OwnDataTheorem == Spec => []OwnData
  <1>1. IInv => OwnData
    <2> SUFFICES ASSUME IInv, thr.at = "again", dma \notin {0, asked}
                 PROVE  ~ AllServed /\ (slow \in 1 .. asked - 1 \/ (again > 0 /\ asked = again + 1))
      BY DEF OwnData
    <2>1. asked \in Nat /\ slow \in Nat /\ again \in Nat BY DEF IInv, TypeOK
    <2>2. thr.at \in Polling BY DEF Polling
    <2>3. slow < asked /\ (Pending(transfers) \/ again = asked) BY <2>2 DEF IInv, Transfers
    <2>4. ~ AllServed BY <2>3 DEF AllServed
    <2>5. CASE slow = 0
      <3>1. ~ Alone /\ again # asked /\ again <= asked BY <2>5 DEF IInv, Transfers
      <3>2. again > 0 /\ asked = again + 1 BY <2>1, <3>1 DEF Alone
      <3> QED BY <2>4, <3>2
    <2>6. CASE slow # 0 BY <2>1, <2>3, <2>4, <2>6
    <2> QED BY <2>5, <2>6
  <1> QED BY <1>1, InvariantTheorem, PTL

\* Each report reaches kb_push_key once and in order unless the flush dropped it,
\* and while none was dropped the endpoint is armed or a report is underway.
THEOREM ReportsKeptTheorem == Spec => []ReportsKept
  <1>1. IInv => ReportsKept
    <2> SUFFICES ASSUME IInv, Sound
                 PROVE  /\ \A i \in 2 .. Len(pushed) : pushed[i - 1] < pushed[i]
                        /\ ToSet(pushed) \cup flushed \cup Underway = 1 .. reported
                        /\ flushed = {} => armed \/ Underway # {}
      BY DEF ReportsKept
    <2>0. TypeOK /\ EventRing /\ Readers /\ Reports /\ reported \in Nat
      BY DEF IInv, TypeOK
    <2>1. \A x : x \in Underway <=> \E i \in Places : IsReport(i) /\ x = trb[i].n
      <3>1. New = {(deq + i) % RingSize : i \in 0 .. Ready - 1} BY <2>0, NewFacts
      <3>2. Places = New \cup ToSet(irq.evs) \cup ToSet(thr.evs)
        <4>1. CASE thr.at \in {"advance", "drop"}
          <5>1. thr.evs # <<>> /\ Last(thr.evs) = deq /\ deq # enq BY <2>0, <4>1 DEF Readers
          <5>2. deq \in ToSet(thr.evs)
            <6>1. thr.evs \in Seq(Slot) BY <2>0, PlacesTypes
            <6>2. Len(thr.evs) \in 1 .. Len(thr.evs) /\ DOMAIN thr.evs = 1 .. Len(thr.evs)
              BY <5>1, <6>1
            <6> QED BY <5>1, <6>2 DEF Last, ToSet
          <5>3. Rest = New \ {deq} /\ deq \in New BY <2>0, <4>1, <5>1, NewFacts DEF Rest
          <5> QED BY <5>2, <5>3 DEF Places
        <4>2. CASE thr.at \notin {"advance", "drop"} BY <4>2 DEF Rest, Places
        <4> QED BY <4>1, <4>2
      <3>3. ASSUME NEW x, x \in Underway PROVE \E i \in Places : IsReport(i) /\ x = trb[i].n
        <4>1. \/ \E j \in 0 .. Ready - 1 : /\ trb[(deq + j) % RingSize].kind = "report"
                                           /\ x = trb[(deq + j) % RingSize].n
              \/ \E i \in ToSet(irq.evs) \cup ToSet(thr.evs) : trb[i].kind = "report" /\ x = trb[i].n
          BY <3>3 DEF Underway
        <4>2. CASE \E j \in 0 .. Ready - 1 : /\ trb[(deq + j) % RingSize].kind = "report"
                                             /\ x = trb[(deq + j) % RingSize].n
          <5>1. PICK j \in 0 .. Ready - 1 : /\ trb[(deq + j) % RingSize].kind = "report"
                                            /\ x = trb[(deq + j) % RingSize].n
            BY <4>2
          <5>2. (deq + j) % RingSize \in New BY <3>1
          <5> QED BY <3>2, <5>1, <5>2 DEF IsReport
        <4>3. CASE \E i \in ToSet(irq.evs) \cup ToSet(thr.evs) : trb[i].kind = "report" /\ x = trb[i].n
          BY <3>2, <4>3 DEF IsReport
        <4> QED BY <4>1, <4>2, <4>3
      <3>4. ASSUME NEW i \in Places, IsReport(i) PROVE trb[i].n \in Underway
        <4>1. CASE i \in New
          <5>1. PICK j \in 0 .. Ready - 1 : i = (deq + j) % RingSize BY <3>1, <4>1
          <5> QED BY <3>4, <5>1 DEF Underway, IsReport
        <4>2. CASE i \in ToSet(irq.evs) \cup ToSet(thr.evs) BY <3>4, <4>2 DEF Underway, IsReport
        <4> QED BY <3>2, <4>1, <4>2
      <3> QED BY <3>3, <3>4
    <2>2. \A x \in Underway : x = reported /\ ~ armed /\ flushed = {} BY <2>0, <2>1 DEF Reports
    <2>3. flushed = {} /\ ~ armed => reported \in Underway
      <3> SUFFICES ASSUME flushed = {}, ~ armed PROVE reported \in Underway OBVIOUS
      <3>1. PICK i \in Places : IsReport(i) BY <2>0 DEF Reports
      <3>2. trb[i].n = reported BY <2>0, <3>1 DEF Reports
      <3> QED BY <2>1, <3>1, <3>2
    <2>4. ToSet(pushed) \cup flushed \cup Underway = 1 .. reported
      <3>1. CASE armed
        <4>1. flushed = {} /\ Underway = {} BY <2>0, <2>2, <3>1 DEF Reports
        <4>2. ToSet(pushed) = 1 .. reported BY <2>0, <3>1 DEF Reports
        <4> QED BY <4>1, <4>2
      <3>2. CASE ~ armed
        <4>1. reported > 0 /\ ToSet(pushed) = 1 .. reported - 1 /\ flushed \in {{}, {reported}}
          BY <2>0, <3>2 DEF Reports
        <4>2. flushed \cup Underway = {reported} BY <2>2, <2>3, <3>2, <4>1
        <4>3. 1 .. reported = (1 .. reported - 1) \cup {reported} BY <2>0, <4>1
        <4> QED BY <4>1, <4>2, <4>3
      <3> QED BY <3>1, <3>2
    <2>5. \A i \in 2 .. Len(pushed) : pushed[i - 1] < pushed[i] BY <2>0 DEF Reports
    <2> QED BY <2>3, <2>4, <2>5
  <1> QED BY <1>1, InvariantTheorem, PTL

-----------------------------------------------------------------------------
(* The ports.  How the change bit of a port relates to the device that the *)
(* driver has entered for it: as long as no exchange went unnoticed, the   *)
(* bit is set if and only if the device is gone.                           *)
PortsPlaces == {"idle", "read", "clear", "scan", "reset", "resetting", "check", "slot",
                "address", "enumerate", "delete", "stop", "disable", "deleted"}

PortsTypeOK ==
  /\ ccs \subseteq Ports /\ csc \subseteq Ports /\ ped \subseteq ccs
  /\ events \subseteq Ports /\ bitmap \subseteq Ports /\ seen \subseteq Ports
  /\ table \in [Slots -> Ports \cup {None}]
  /\ enabled \subseteq Slots /\ stray \subseteq Slots
  /\ owed \in Seq(Slots \cup {0}) /\ slot \in Slots \cup {0}
  /\ pc \in PortsPlaces /\ port \in Ports
  /\ boot \in BOOLEAN /\ faults \in Nat /\ mixups \in Nat

\* The slots that the driver has a device in.
Known == {s \in Slots : table[s] # None}

\* Whether the driver has a device on port p.
Has(p) == \E s \in Slots : table[s] = p

Single == \A p \in Ports \ replugged : \A s, t \in Slots :
            table[s] = p /\ table[t] = p => s = t

\* The change bit says that the device is gone; ports are set up without one.
Tracked ==
  /\ \A p \in Ports \ replugged : Has(p) =>
       /\ p \in ccs <=> p \notin csc
       /\ port = p => pc \notin {"reset", "resetting", "check", "slot", "deleted"}
  /\ pc = "check" /\ port \in ped => port \notin csc
  /\ pc = "slot" /\ port \notin replugged => (port \in ccs <=> port \notin csc)
  /\ pc \in {"delete", "stop", "disable"} /\ port \notin replugged => port \notin ccs
  /\ pc \in {"stop", "disable"} => slot \in Slots /\ table[slot] = port
  /\ pc \in {"reset", "delete"} /\ port \notin replugged => port \in csc

\* The driver will look at each port whose change bit is set.
Noticed ==
  /\ pc \in {"idle", "read"} => seen = {}
  /\ boot => pc \notin {"idle", "read", "clear"}
  /\ \A p \in csc \ lost :
       \/ p \in events \cup bitmap
       \/ ~boot /\ p \in seen /\ (port = p => pc \notin {"resetting", "check", "slot", "address", "enumerate"})

\* A port with something plugged in has a device, will have one, or failed.
Followed ==
  \A p \in ccs \ (lost \cup replugged) :
    \/ p \in csc \/ p \in failed \cup ousted \/ Has(p)
    \/ port = p /\ pc \in {"resetting", "check", "slot"}

PortsIInv == PortsTypeOK /\ SlotsMatch /\ Single /\ Tracked /\ Noticed /\ Followed

-----------------------------------------------------------------------------
(* The slots.                                                              *)

\* What SlotsMatch says, with a name for the slots of the driver.
LEMMA SlotFacts ==
  ASSUME PortsTypeOK
  PROVE  /\ SlotsMatch <=> /\ Known \ stray \subseteq enabled
                          /\ Cardinality(enabled \ Known) <= faults + mixups
         /\ IsFiniteSet(enabled \ Known) /\ Cardinality(enabled \ Known) \in Nat
  <1>1. IsFiniteSet(Slots) BY FS_Interval, PortsAssumption DEF Slots
  <1>2. IsFiniteSet(enabled \ Known)
    BY <1>1, FS_Subset, enabled \ Known \subseteq Slots DEF PortsTypeOK
  <1> QED BY <1>2, FS_CardinalityType DEF SlotsMatch, Known

\* What is counted: commands that failed or got another's completion.
Blame == faults + mixups
LEMMA BlameType ==
  /\ PortsTypeOK => Blame \in Nat
  /\ PortsTypeOK' => Blame' \in Nat
  <1>1. \A m, n \in Nat : m + n \in Nat OBVIOUS
  <1>2. ASSUME PortsTypeOK' PROVE Blame' \in Nat
    <2>1. faults' \in Nat /\ mixups' \in Nat BY <1>2 DEF PortsTypeOK
    <2> QED BY <1>1, <2>1 DEF Blame
  <1> QED BY <1>1, <1>2 DEF PortsTypeOK, Blame

\* Such a step may leave one more slot to the controller.
LEMMA SlotsKept ==
  ASSUME PortsTypeOK, PortsTypeOK', SlotsMatch,
         Known' \ stray' \subseteq enabled',
         \/ Blame' >= Blame /\ enabled' \ Known' \subseteq enabled \ Known
         \/ /\ Blame' > Blame
            /\ \E r \in Slots : enabled' \ Known' \subseteq (enabled \ Known) \cup {r}
  PROVE  SlotsMatch'
  <1> DEFINE old == enabled \ Known
             new == enabled' \ Known'
  <1>0. Blame \in Nat /\ Blame' \in Nat BY BlameType
  <1>1. IsFiniteSet(old) /\ Cardinality(old) \in Nat /\ Cardinality(old) <= Blame
    BY SlotFacts DEF Blame
  <1>2. Cardinality(new) <= Blame'
    <2>1. CASE Blame' >= Blame /\ new \subseteq old
      <3>1. Cardinality(new) <= Cardinality(old) BY <1>1, <2>1, FS_Subset
      <3>2. Cardinality(new) \in Nat BY <1>1, <2>1, FS_Subset, FS_CardinalityType
      <3> HIDE DEF old, new
      <3> QED BY <1>0, <1>1, <2>1, <3>1, <3>2
    <2>2. ASSUME Blame' > Blame, NEW s \in Slots, new \subseteq old \cup {s}
          PROVE  Cardinality(new) <= Blame'
      <3>1. /\ IsFiniteSet(old \cup {s})
            /\ \/ s \in old /\ Cardinality(old \cup {s}) = Cardinality(old)
               \/ Cardinality(old \cup {s}) = Cardinality(old) + 1
        <4>1. IsFiniteSet(old) BY <1>1
        <4> HIDE DEF old
        <4> QED BY <4>1, FS_AddElement
      <3>2. Cardinality(new) <= Cardinality(old \cup {s}) /\ Cardinality(new) \in Nat
        BY <2>2, <3>1, FS_Subset, FS_CardinalityType
      <3> HIDE DEF old, new
      <3> QED BY <1>0, <1>1, <2>2, <3>1, <3>2
    <2>3. CASE Blame' > Blame /\ \E s \in Slots : new \subseteq old \cup {s}
      <3>1. PICK s \in Slots : new \subseteq old \cup {s} BY <2>3
      <3> QED BY <2>2, <2>3, <3>1
    <2> QED BY <2>1, <2>3
  <1>3. (Known \ stray \subseteq enabled /\ Cardinality(enabled \ Known) <= faults + mixups)'
    BY <1>2 DEF Blame
  <1> QED BY <1>3 DEF SlotsMatch, Known

\* A command leaves completions to come, and its answer is a slot or an error.
LEMMA CommandFacts ==
  ASSUME PortsTypeOK, NEW own \in Slots \cup {0}, NEW n \in 0 .. Len(owed) + 1, Command(own, n)
  PROVE  /\ owed' \in Seq(Slots \cup {0})
         /\ Answer(own, n) \in Slots \cup {0}
         /\ n = 0 => Answer(own, n) = 0
  <1> DEFINE all == Append(owed, own)
  <1>1. all \in Seq(Slots \cup {0}) /\ Len(all) = Len(owed) + 1 /\ Len(owed) \in Nat
    BY DEF PortsTypeOK
  <1>2. owed' = SubSeq(all, n + 1, Len(owed) + 1) BY DEF Command
  <1> HIDE DEF all
  <1>3. \A i \in n + 1 .. Len(owed) + 1 : all[i] \in Slots \cup {0}
    BY <1>1, ElementOfSeq
  <1>4. owed' \in Seq(Slots \cup {0}) BY <1>1, <1>2, <1>3, SubSeqProperties
  <1>5. Head(all) \in Slots \cup {0} BY <1>1
  <1> QED BY <1>4, <1>5 DEF Answer, all

-----------------------------------------------------------------------------
(* The steps.                                                              *)

LEMMA PlugKeeps ==
  ASSUME PortsIInv, NEW p \in Ports, Plug(p)
  PROVE  PortsIInv'
  <1> USE DEF PortsIInv, PortsTypeOK, slots, Plug, Change
  <1>1. PortsTypeOK' BY DEF PortsPlaces
  <1>2. SlotsMatch' BY DEF SlotsMatch
  <1>3. Single' BY DEF Single
  <1>4. Tracked' BY DEF Tracked, Has
  <1>5. Noticed' BY DEF Noticed
  <1>6. Followed' BY DEF Followed, Has
  <1> QED BY <1>1, <1>2, <1>3, <1>4, <1>5, <1>6

LEMMA UnplugKeeps ==
  ASSUME PortsIInv, NEW p \in Ports, Unplug(p)
  PROVE  PortsIInv'
  <1> USE DEF PortsIInv, PortsTypeOK, slots, Unplug, Change, portHistory
  <1>1. PortsTypeOK' BY DEF PortsPlaces
  <1>2. SlotsMatch' BY DEF SlotsMatch
  <1>3. Single' BY DEF Single
  <1>4. Tracked' BY DEF Tracked, Has
  <1>5. Noticed' BY DEF Noticed
  <1>6. Followed' BY DEF Followed, Has
  <1> QED BY <1>1, <1>2, <1>3, <1>4, <1>5, <1>6

LEMMA PortEventKeeps ==
  ASSUME PortsIInv, NEW p \in Ports, PortEvent(p)
  PROVE  PortsIInv'
  <1> USE DEF PortsIInv, PortsTypeOK, slots, PortEvent, bounds, portHistory
  <1>1. PortsTypeOK' BY DEF PortsPlaces
  <1>2. SlotsMatch' BY DEF SlotsMatch
  <1>3. Single' BY DEF Single
  <1>4. Tracked' BY DEF Tracked, Has
  <1>5. Noticed' BY DEF Noticed
  <1>6. Followed' BY DEF Followed, Has
  <1> QED BY <1>1, <1>2, <1>3, <1>4, <1>5, <1>6

LEMMA CallKeeps ==
  ASSUME PortsIInv, Call
  PROVE  PortsIInv'
  <1> USE DEF PortsIInv, PortsTypeOK, slots, Call, GoTo, register, portHistory
  <1>1. PortsTypeOK' BY DEF PortsPlaces
  <1>2. SlotsMatch' BY DEF SlotsMatch
  <1>3. Single' BY DEF Single
  <1>4. Tracked' BY DEF Tracked, Has
  <1>5. Noticed' BY DEF Noticed
  <1>6. Followed' BY DEF Followed, Has
  <1> QED BY <1>1, <1>2, <1>3, <1>4, <1>5, <1>6

LEMMA ReadBitmapKeeps ==
  ASSUME PortsIInv, ReadBitmap
  PROVE  PortsIInv'
  <1> USE DEF PortsIInv, PortsTypeOK, slots, ReadBitmap, GoTo, register,
              bounds, portHistory
  <1>1. PortsTypeOK' BY DEF PortsPlaces
  <1>2. SlotsMatch' BY DEF SlotsMatch
  <1>3. Single' BY DEF Single
  <1>4. Tracked' BY DEF Tracked, Has
  <1>5. Noticed' BY DEF Noticed
  <1>6. Followed' BY DEF Followed, Has
  <1> QED BY <1>1, <1>2, <1>3, <1>4, <1>5, <1>6

LEMMA ClearBitmapKeeps ==
  ASSUME PortsIInv, ClearBitmap
  PROVE  PortsIInv'
  <1> USE DEF PortsIInv, PortsTypeOK, slots, ClearBitmap, GoTo, register, bounds
  <1>1. PortsTypeOK' BY DEF PortsPlaces
  <1>2. SlotsMatch' BY DEF SlotsMatch
  <1>3. Single' BY DEF Single
  <1>4. Tracked' BY DEF Tracked, Has
  <1>5. Noticed' BY DEF Noticed
  <1>6. Followed' BY DEF Followed, Has
  <1> QED BY <1>1, <1>2, <1>3, <1>4, <1>5, <1>6

LEMMA ScanKeeps ==
  ASSUME PortsIInv, NEW p \in Ports, Scan(p)
  PROVE  PortsIInv'
  <1> USE DEF PortsIInv, PortsTypeOK, slots, Scan, GoTo, Served, register,
              bounds, portHistory
  <1>1. PortsTypeOK' BY DEF PortsPlaces
  <1>2. SlotsMatch' BY DEF SlotsMatch
  <1>3. Single' BY DEF Single
  <1>4. Tracked' BY DEF Tracked, Has
  <1>5. Noticed' BY DEF Noticed
  <1>6. Followed' BY DEF Followed, Has
  <1> QED BY <1>1, <1>2, <1>3, <1>4, <1>5, <1>6

LEMMA ScanEndKeeps ==
  ASSUME PortsIInv, ScanEnd
  PROVE  PortsIInv'
  <1> USE DEF PortsIInv, PortsTypeOK, slots, ScanEnd, GoTo, register, bounds,
              portHistory
  <1>1. PortsTypeOK' BY DEF PortsPlaces
  <1>2. SlotsMatch' BY DEF SlotsMatch
  <1>3. Single' BY DEF Single
  <1>4. Tracked' BY DEF Tracked, Has
  <1>5. Noticed' BY DEF Noticed
  <1>6. Followed' BY DEF Followed, Has
  <1> QED BY <1>1, <1>2, <1>3, <1>4, <1>5, <1>6

LEMMA ResetStartKeeps ==
  ASSUME PortsIInv, ResetStart
  PROVE  PortsIInv'
  <1> USE DEF PortsIInv, PortsTypeOK, slots, ResetStart, GoTo, bounds
  <1>1. PortsTypeOK' BY DEF PortsPlaces
  <1>2. SlotsMatch' BY DEF SlotsMatch
  <1>3. Single' BY DEF Single
  <1>4. Tracked' BY DEF Tracked, Has
  <1>5. Noticed' BY DEF Noticed
  <1>6. Followed' BY DEF Followed, Has
  <1> QED BY <1>1, <1>2, <1>3, <1>4, <1>5, <1>6

LEMMA ResetDoneKeeps ==
  ASSUME PortsIInv, ResetDone
  PROVE  PortsIInv'
  <1> USE DEF PortsIInv, PortsTypeOK, slots, ResetDone, GoTo, Now, Lose,
              bounds
  <1>1. PortsTypeOK' BY DEF PortsPlaces
  <1>2. SlotsMatch' BY DEF SlotsMatch
  <1>3. Single' BY DEF Single
  <1>4. Tracked' BY DEF Tracked, Has
  <1>5. Noticed' BY DEF Noticed
  <1>6. Followed' BY DEF Followed, Has
  <1> QED BY <1>1, <1>2, <1>3, <1>4, <1>5, <1>6

LEMMA ResetFailsKeeps ==
  ASSUME PortsIInv, ResetFails
  PROVE  PortsIInv'
  <1> USE DEF PortsIInv, PortsTypeOK, slots, ResetFails, GoTo, Served, register
  <1>1. PortsTypeOK' BY DEF PortsPlaces
  <1>2. SlotsMatch'
    <2>1. Known' \ stray' \subseteq enabled' /\ enabled' \ Known' \subseteq enabled \ Known
      BY SlotFacts DEF Known
    <2>2. Blame' >= Blame BY DEF Blame
    <2> QED BY <1>1, <2>1, <2>2, SlotsKept DEF PortsIInv
  <1>3. Single' BY DEF Single
  <1>4. Tracked' BY DEF Tracked, Has
  <1>5. Noticed' BY DEF Noticed
  <1>6. Followed' BY DEF Followed, Has
  <1> QED BY <1>1, <1>2, <1>3, <1>4, <1>5, <1>6

LEMMA CheckKeeps ==
  ASSUME PortsIInv, Check
  PROVE  PortsIInv'
  <1> USE DEF PortsIInv, PortsTypeOK, slots, Check, GoTo, Served, register,
              bounds
  <1>1. PortsTypeOK' BY DEF PortsPlaces
  <1>2. SlotsMatch' BY DEF SlotsMatch
  <1>3. Single' BY DEF Single
  <1>4. Tracked' BY DEF Tracked, Has
  <1>5. Noticed' BY DEF Noticed
  <1>6. Followed' BY DEF Followed, Has
  <1> QED BY <1>1, <1>2, <1>3, <1>4, <1>5, <1>6

\* What the controller and the answer make of Enable Slot.
LEMMA EnableFacts ==
  ASSUME PortsTypeOK, NEW own \in Slots \cup {0}, NEW n \in 0 .. Len(owed) + 1, Enable(own, n)
  PROVE  /\ owed' \in Seq(Slots \cup {0}) /\ Answer(own, n) \in Slots \cup {0}
         /\ faults' \in Nat /\ mixups' \in Nat /\ Blame' >= Blame
         /\ enabled' \subseteq Slots /\ enabled' = enabled \cup ({own} \ {0})
         /\ own # 0 /\ Answer(own, n) # own => Blame' > Blame
  <1>1. Command(own, n) BY DEF Enable
  <1>2. owed' \in Seq(Slots \cup {0}) /\ Answer(own, n) \in Slots \cup {0} BY <1>1, CommandFacts
  <1>3. /\ faults' = IF n = 0 \/ (own = 0 /\ enabled # Slots) THEN faults + 1 ELSE faults
        /\ mixups' = IF n > 0 /\ Answer(own, n) # own THEN mixups + 1 ELSE mixups
    BY DEF Enable, Fault
  <1>4. faults \in Nat /\ mixups \in Nat /\ n \in Nat BY DEF PortsTypeOK
  <1>5. /\ faults' \in Nat /\ mixups' \in Nat /\ Blame' >= Blame
        /\ Answer(own, n) # own => Blame' > Blame
    BY <1>3, <1>4 DEF Blame
  <1>6. enabled' = enabled \cup ({own} \ {0}) /\ enabled' \subseteq Slots
    BY DEF Enable, PortsTypeOK
  <1> QED BY <1>2, <1>5, <1>6

LEMMA EnableSlotKeeps ==
  ASSUME PortsIInv, NEW own \in Slots \cup {0}, NEW n \in 0 .. Len(owed) + 1, EnableSlot(own, n)
  PROVE  PortsIInv'
  <1> DEFINE s == Answer(own, n)
  <1>1. /\ Enable(own, n) /\ s # 0 /\ pc = "slot" /\ pc' = "address"
        /\ UNCHANGED <<register, bitmap, port, seen, boot, failed, lost, replugged>>
        /\ table' = [table EXCEPT ![s] = port] /\ slot' = s
        /\ ousted' = ousted \cup ({table[s]} \ {None, port})
        /\ stray' = IF s = own THEN stray \ {s} ELSE stray \cup {s}
    BY DEF EnableSlot, Enable, Enter, GoTo
  <1>2. PortsTypeOK BY DEF PortsIInv
  <1>3. /\ owed' \in Seq(Slots \cup {0}) /\ s \in Slots
        /\ faults' \in Nat /\ mixups' \in Nat /\ Blame' >= Blame
        /\ enabled' \subseteq Slots /\ enabled' = enabled \cup ({own} \ {0})
        /\ own # 0 /\ s # own => Blame' > Blame
    BY <1>1, <1>2, EnableFacts
  <1> HIDE DEF s
  <1>4. PortsTypeOK' BY <1>1, <1>2, <1>3 DEF PortsTypeOK, PortsPlaces, register
  <1>5. table'[s] = port /\ \A r \in Slots \ {s} : table'[r] = table[r]
    BY <1>1, <1>2, <1>3 DEF PortsTypeOK
  <1>6. port \in Ports /\ \A p \in Ports : p # None
    BY <1>2, PortsAssumption DEF PortsTypeOK, Ports, None
  <1>7. SlotsMatch'
    <2>1. Known' = Known \cup {s} BY <1>3, <1>5, <1>6 DEF Known
    <2>2. Known \ stray \subseteq enabled BY <1>2, SlotFacts DEF PortsIInv
    <2>3. 0 \notin Slots BY DEF Slots
    <2>4. Known' \ stray' \subseteq enabled' BY <1>1, <1>3, <2>1, <2>2, <2>3
    <2>5. CASE own = 0 \/ s = own
      <3>1. enabled' \ Known' \subseteq enabled \ Known BY <1>3, <2>1, <2>5
      <3> QED BY <1>2, <1>3, <1>4, <2>4, <3>1, SlotsKept DEF PortsIInv
    <2>6. CASE own # 0 /\ s # own
      <3>1. own \in Slots BY <2>6
      <3>2. enabled' \ Known' \subseteq (enabled \ Known) \cup {own} BY <1>3, <2>1
      <3> QED BY <1>2, <1>3, <1>4, <2>4, <2>6, <3>1, <3>2, SlotsKept DEF PortsIInv
    <2> QED BY <2>5, <2>6
  <1>8. Has(port) => port \in replugged BY <1>1, <1>6 DEF PortsIInv, Tracked
  <1>9. \A p \in Ports : p = port => Has(p)' BY <1>3, <1>5 DEF Has
  <1>10. \A p \in Ports : p # port /\ Has(p)' => Has(p) BY <1>3, <1>5, <1>1 DEF Has
  <1>11. \A p \in Ports : Has(p) => Has(p)' \/ p \in ousted'
    <2> SUFFICES ASSUME NEW p \in Ports, NEW r \in Slots, table[r] = p, ~Has(p)'
                 PROVE  p \in ousted'
      BY DEF Has
    <2>1. r = s /\ p # port BY <1>5, <1>9 DEF Has
    <2> QED BY <1>1, <1>6, <2>1
  <1>12. Single'
    <2> SUFFICES ASSUME NEW p \in Ports \ replugged, NEW r \in Slots, NEW q \in Slots,
                        table'[r] = p, table'[q] = p
                 PROVE  r = q
      BY <1>1 DEF Single
    <2>1. CASE p = port
      <3>1. ~ Has(port) BY <1>8, <2>1
      <3>2. \A i \in Slots : table[i] # port BY <3>1 DEF Has
      <3> QED BY <1>5, <2>1, <3>2
    <2>2. CASE p # port
      <3>1. r # s /\ q # s BY <1>5, <2>2
      <3>2. table[r] = p /\ table[q] = p BY <1>5, <3>1
      <3> QED BY <3>2 DEF PortsIInv, Single
    <2> QED BY <2>1, <2>2
  <1>13. Tracked'
    <2>1. UNCHANGED <<ccs, csc, port, replugged>> BY <1>1 DEF register
    <2>2. \A p \in Ports \ replugged : p # port /\ Has(p)' => (p \in ccs <=> p \notin csc)
      BY <1>10 DEF PortsIInv, Tracked
    <2>3. port \notin replugged => (port \in ccs <=> port \notin csc)
      BY <1>1 DEF PortsIInv, Tracked
    <2> QED BY <1>1, <2>1, <2>2, <2>3 DEF Tracked
  <1>14. Noticed' BY <1>1 DEF PortsIInv, Noticed, register
  <1>15. Followed'
    <2>1. UNCHANGED <<ccs, csc, port, failed, lost, replugged>> /\ ousted \subseteq ousted'
      BY <1>1 DEF register
    <2>2. ccs \subseteq Ports BY <1>2 DEF PortsTypeOK
    <2> SUFFICES ASSUME NEW p \in ccs \ (lost \cup replugged), p \notin csc, p \notin failed
                 PROVE  p \in ousted' \/ Has(p)'
      BY <2>1 DEF Followed
    <2>3. p \in ousted \/ Has(p) \/ p = port BY DEF PortsIInv, Followed
    <2> QED BY <1>9, <1>11, <2>1, <2>2, <2>3
  <1> QED BY <1>4, <1>7, <1>12, <1>13, <1>14, <1>15 DEF PortsIInv

LEMMA EnableSlotFailsKeeps ==
  ASSUME PortsIInv, NEW own \in Slots \cup {0}, NEW n \in 0 .. Len(owed) + 1,
         EnableSlotFails(own, n)
  PROVE  PortsIInv'
  <1>1. /\ Enable(own, n) /\ Answer(own, n) = 0 /\ pc = "slot" /\ pc' = "scan"
        /\ failed' = failed \cup {port} /\ seen' = seen \ {port}
        /\ UNCHANGED <<register, bitmap, table, slot, stray, port, boot, ousted, lost, replugged>>
    BY DEF EnableSlotFails, Enable, GoTo, Served
  <1>2. PortsTypeOK BY DEF PortsIInv
  <1>3. /\ owed' \in Seq(Slots \cup {0})
        /\ faults' \in Nat /\ mixups' \in Nat /\ Blame' >= Blame
        /\ enabled' \subseteq Slots /\ enabled' = enabled \cup ({own} \ {0})
        /\ own # 0 => Blame' > Blame
    BY <1>1, <1>2, EnableFacts
  <1>4. PortsTypeOK' BY <1>1, <1>2, <1>3 DEF PortsTypeOK, PortsPlaces, register
  <1>5. SlotsMatch'
    <2>1. Known' = Known BY <1>1 DEF Known
    <2>2. Known \ stray \subseteq enabled BY <1>2, SlotFacts DEF PortsIInv
    <2>3. Known' \ stray' \subseteq enabled' BY <1>1, <1>3, <2>1, <2>2
    <2>4. CASE own = 0
      <3>1. enabled' \ Known' \subseteq enabled \ Known BY <1>3, <2>1, <2>4
      <3> QED BY <1>2, <1>3, <1>4, <2>3, <3>1, SlotsKept DEF PortsIInv
    <2>5. CASE own # 0
      <3>1. own \in Slots BY <2>5
      <3>2. enabled' \ Known' \subseteq (enabled \ Known) \cup {own} BY <1>3, <2>1
      <3> QED BY <1>2, <1>3, <1>4, <2>3, <2>5, <3>1, <3>2, SlotsKept DEF PortsIInv
    <2> QED BY <2>4, <2>5
  <1> USE <1>1 DEF PortsIInv, PortsTypeOK, register
  <1>6. Single' BY DEF Single
  <1>7. Tracked' BY DEF Tracked, Has
  <1>8. Noticed' BY DEF Noticed
  <1>9. Followed' BY DEF Followed, Has
  <1> QED BY <1>4, <1>5, <1>6, <1>7, <1>8, <1>9

LEMMA DeviceCommandKeeps ==
  ASSUME PortsIInv, NEW own \in Slots \cup {0}, NEW n \in 0 .. Len(owed) + 1,
         DeviceCommand(own, n)
  PROVE  PortsIInv'
  <1>1. /\ Command(own, n) /\ pc \in {"address", "enumerate", "stop", "disable"}
        /\ pc' = IF pc \in {"address", "enumerate"} THEN "enumerate" ELSE "disable"
        /\ faults' = (IF n = 0 THEN faults + 1 ELSE faults)
        /\ UNCHANGED <<register, bitmap, table, enabled, slot, stray, mixups, port, seen, boot,
                       portHistory>>
    BY DEF DeviceCommand, GoTo, Fault
  <1>2. PortsTypeOK /\ owed' \in Seq(Slots \cup {0}) BY <1>1, CommandFacts DEF PortsIInv
  <1>3. faults' \in Nat /\ Blame' >= Blame BY <1>1, <1>2 DEF Blame, PortsTypeOK
  <1>4. PortsTypeOK' BY <1>1, <1>2, <1>3 DEF PortsTypeOK, PortsPlaces, register
  <1>5. SlotsMatch'
    <2>1. Known' \ stray' \subseteq enabled' /\ enabled' \ Known' \subseteq enabled \ Known
      BY <1>1, <1>2, SlotFacts DEF Known, PortsIInv
    <2> QED BY <1>2, <1>3, <1>4, <2>1, SlotsKept DEF PortsIInv
  <1> USE <1>1 DEF PortsIInv, PortsTypeOK, register, portHistory
  <1>6. Single' BY DEF Single
  <1>7. Tracked' BY DEF Tracked, Has
  <1>8. Noticed' BY DEF Noticed
  <1>9. Followed' BY DEF Followed, Has
  <1> QED BY <1>4, <1>5, <1>6, <1>7, <1>8, <1>9

LEMMA EnumerateKeeps ==
  ASSUME PortsIInv, Enumerate
  PROVE  PortsIInv'
  <1> USE DEF PortsIInv, PortsTypeOK, slots, Enumerate, GoTo, Served, register,
              bounds, portHistory
  <1>1. PortsTypeOK' BY DEF PortsPlaces
  <1>2. SlotsMatch' BY DEF SlotsMatch
  <1>3. Single' BY DEF Single
  <1>4. Tracked' BY DEF Tracked, Has
  <1>5. Noticed' BY DEF Noticed
  <1>6. Followed' BY DEF Followed, Has
  <1> QED BY <1>1, <1>2, <1>3, <1>4, <1>5, <1>6

LEMMA FlushKeeps ==
  ASSUME PortsIInv, Flush
  PROVE  PortsIInv'
  <1>1. /\ pc = "enumerate" /\ events' = {} /\ lost' = lost \cup events
        /\ UNCHANGED <<ccs, csc, ped, bitmap, table, enabled, slot, stray, mixups, pc, port, seen, boot,
                       bounds, failed, ousted, replugged>>
    BY DEF Flush
  <1>2. owed' \in Seq(Slots \cup {0})
    <2>1. PICK i \in 0 .. Len(owed) : \E j \in i .. Len(owed) :
            owed' = SubSeq(owed, 1, i) \o SubSeq(owed, j + 1, Len(owed))
      BY DEF Flush
    <2>2. PICK j \in i .. Len(owed) :
            owed' = SubSeq(owed, 1, i) \o SubSeq(owed, j + 1, Len(owed))
      BY <2>1
    <2>3. owed \in Seq(Slots \cup {0}) /\ Len(owed) \in Nat BY DEF PortsIInv, PortsTypeOK
    <2>4. \A k \in 1 .. Len(owed) : owed[k] \in Slots \cup {0} BY <2>3, ElementOfSeq
    <2>5. SubSeq(owed, 1, i) \in Seq(Slots \cup {0}) BY <2>3, <2>4, SubSeqProperties
    <2>6. SubSeq(owed, j + 1, Len(owed)) \in Seq(Slots \cup {0})
      BY <2>3, <2>4, SubSeqProperties
    <2> QED BY <2>2, <2>5, <2>6
  <1> USE <1>1, <1>2 DEF PortsIInv, PortsTypeOK, bounds
  <1>3. PortsTypeOK' BY DEF PortsPlaces
  <1>4. SlotsMatch' BY DEF SlotsMatch
  <1>5. Single' BY DEF Single
  <1>6. Tracked' BY DEF Tracked, Has
  <1>7. Noticed' BY DEF Noticed
  <1>8. Followed' BY DEF Followed, Has
  <1> QED BY <1>3, <1>4, <1>5, <1>6, <1>7, <1>8

LEMMA DeleteKeeps ==
  ASSUME PortsIInv, Delete
  PROVE  PortsIInv'
  <1>1. /\ pc = "delete"
        /\ \/ Devices(port) = {} /\ pc' = "deleted" /\ slot' = slot
           \/ \E s \in Slots : table[s] = port /\ slot' = s /\ pc' = "stop"
        /\ UNCHANGED <<register, bitmap, table, enabled, owed, stray, mixups, port, seen, boot, bounds,
                       portHistory>>
    BY DEF Delete, GoTo, First, Devices
  <1> USE <1>1 DEF PortsIInv, PortsTypeOK, register, bounds, portHistory
  <1>2. PortsTypeOK' BY DEF PortsPlaces
  <1>3. SlotsMatch' BY DEF SlotsMatch
  <1>4. Single' BY DEF Single
  <1>5. Tracked'
    <2>1. CASE Devices(port) = {} /\ pc' = "deleted"
      <3>1. ~ Has(port) BY <2>1 DEF Devices, Has
      <3> QED BY <2>1, <3>1 DEF Tracked, Has
    <2>2. CASE slot' \in Slots /\ table[slot'] = port /\ pc' = "stop"
      BY <2>2 DEF Tracked, Has
    <2> QED BY <2>1, <2>2
  <1>6. Noticed' BY DEF Noticed
  <1>7. Followed' BY DEF Followed, Has
  <1> QED BY <1>2, <1>3, <1>4, <1>5, <1>6, <1>7

LEMMA DisableSlotKeeps ==
  ASSUME PortsIInv, NEW own \in Slots \cup {0}, NEW n \in 0 .. Len(owed) + 1,
         DisableSlot(own, n)
  PROVE  PortsIInv'
  <1>1. /\ pc = "disable" /\ pc' = "deleted" /\ own \in {0} \cup ({slot} \cap enabled)
        /\ Command(own, n) /\ enabled' = enabled \ {own}
        /\ faults' = IF n = 0 \/ (own = 0 /\ slot \in enabled) THEN faults + 1 ELSE faults
        /\ table' = [table EXCEPT ![slot] = None] /\ stray' = stray \ {slot} /\ slot' = 0
        /\ UNCHANGED <<register, bitmap, mixups, port, seen, boot, portHistory>>
    BY DEF DisableSlot, GoTo, Fault
  <1>2. PortsTypeOK /\ owed' \in Seq(Slots \cup {0}) BY <1>1, CommandFacts DEF PortsIInv
  <1>3. slot \in Slots /\ table[slot] = port BY <1>1 DEF PortsIInv, Tracked
  <1>4. /\ faults' \in Nat /\ Blame' >= Blame
        /\ own = 0 /\ slot \in enabled => Blame' > Blame
    BY <1>1, <1>2 DEF PortsTypeOK, Blame
  <1>5. PortsTypeOK' BY <1>1, <1>2, <1>4 DEF PortsTypeOK, PortsPlaces, register
  <1>6. table'[slot] = None /\ \A t \in Slots \ {slot} : table'[t] = table[t]
    BY <1>1, <1>2, <1>3 DEF PortsTypeOK
  <1>7. port \in Ports /\ \A p \in Ports : p # None
    BY <1>2, PortsAssumption DEF PortsTypeOK, Ports, None
  <1>8. SlotsMatch'
    <2>1. Known' = Known \ {slot} BY <1>3, <1>6 DEF Known
    <2>2. Known \ stray \subseteq enabled BY <1>2, SlotFacts DEF PortsIInv
    <2>3. 0 \notin Slots BY DEF Slots
    <2>4. Known' \ stray' \subseteq enabled' BY <1>1, <2>1, <2>2, <2>3, <1>2 DEF PortsTypeOK
    <2>5. CASE own = 0 /\ slot \in enabled
      <3>1. enabled' \ Known' \subseteq (enabled \ Known) \cup {slot} BY <1>1, <2>1
      <3> QED BY <1>2, <1>3, <1>4, <1>5, <2>4, <2>5, <3>1, SlotsKept DEF PortsIInv
    <2>6. CASE ~ (own = 0 /\ slot \in enabled)
      <3>1. slot \notin enabled' BY <1>1, <2>6, <1>3, <2>3
      <3>2. enabled' \ Known' \subseteq enabled \ Known BY <1>1, <2>1, <3>1
      <3> QED BY <1>2, <1>4, <1>5, <2>4, <3>2, SlotsKept DEF PortsIInv
    <2> QED BY <2>5, <2>6
  <1>9. \A p \in Ports : Has(p)' => Has(p) BY <1>6, <1>7 DEF Has
  <1>10. \A p \in Ports : p # port => (Has(p)' <=> Has(p)) BY <1>3, <1>6, <1>7 DEF Has
  <1>11. Single'
    <2>1. replugged' = replugged BY <1>1 DEF portHistory
    <2>2. \A r \in Slots, p \in Ports : table'[r] = p => table[r] = p BY <1>6, <1>7
    <2> QED BY <2>1, <2>2 DEF PortsIInv, Single
  <1>12. \A p \in Ports \ replugged : Has(p)' => p # port
    <2> SUFFICES ASSUME NEW r \in Slots, table'[r] = port, port \notin replugged PROVE FALSE
      BY DEF Has
    <2>1. r # slot /\ table[r] = port BY <1>6, <1>7
    <2> QED BY <1>3, <1>7, <2>1 DEF PortsIInv, Single
  <1>13. Tracked'
    <2>1. UNCHANGED <<ccs, csc, port, replugged>> BY <1>1 DEF register, portHistory
    <2>2. \A p \in Ports \ replugged : Has(p)' => p # port /\ (p \in ccs <=> p \notin csc)
      BY <1>9, <1>12 DEF PortsIInv, Tracked
    <2> QED BY <1>1, <2>1, <2>2 DEF Tracked
  <1>14. Noticed' BY <1>1 DEF PortsIInv, Noticed, register, portHistory
  <1>15. Followed'
    <2>1. UNCHANGED <<ccs, csc, port, failed, ousted, lost, replugged>>
      BY <1>1 DEF register, portHistory
    <2>2. port \in ccs => port \in replugged BY <1>1 DEF PortsIInv, Tracked
    <2> QED BY <1>1, <1>2, <1>10, <2>1, <2>2 DEF PortsIInv, PortsTypeOK, Followed
  <1> QED BY <1>5, <1>8, <1>11, <1>13, <1>14, <1>15 DEF PortsIInv

LEMMA DeletedKeeps ==
  ASSUME PortsIInv, Deleted
  PROVE  PortsIInv'
  <1> USE DEF PortsIInv, PortsTypeOK, slots, Deleted, GoTo, Served, bounds
  <1>1. PortsTypeOK' BY DEF PortsPlaces
  <1>2. SlotsMatch' BY DEF SlotsMatch
  <1>3. Single' BY DEF Single
  <1>4. Tracked' BY DEF Tracked, Has
  <1>5. Noticed' BY DEF Noticed
  <1>6. Followed' BY DEF Followed, Has
  <1> QED BY <1>1, <1>2, <1>3, <1>4, <1>5, <1>6

-----------------------------------------------------------------------------
(* The specification.                                                      *)

LEMMA PortsInitInv ==
  ASSUME PortsInit
  PROVE  PortsIInv
  <1>1. PortsTypeOK
    BY PortsAssumption DEF PortsInit, PortsTypeOK, PortsPlaces, Ports
  <1>2. SlotsMatch
    <2>1. enabled \ Known = {} BY DEF PortsInit
    <2>2. Known \ stray \subseteq enabled BY DEF PortsInit, Known
    <2> QED BY <1>1, <2>1, <2>2, SlotFacts, FS_EmptySet DEF PortsInit
  <1>3. \A p \in Ports : ~Has(p) BY DEF PortsInit, Has, Ports, None
  <1>4. Single BY <1>3 DEF Single, Has
  <1>5. Tracked BY <1>3 DEF PortsInit, Tracked
  <1>6. Noticed BY DEF PortsInit, Noticed
  <1>7. Followed BY DEF PortsInit, Followed
  <1> QED BY <1>1, <1>2, <1>4, <1>5, <1>6, <1>7 DEF PortsIInv

LEMMA PortsNextInv ==
  ASSUME PortsIInv, [PortsNext]_portVars
  PROVE  PortsIInv'
  <1>1. ASSUME NEW p \in Ports, Plug(p) \/ Unplug(p) \/ PortEvent(p)
        PROVE  PortsIInv'
    BY <1>1, PlugKeeps, UnplugKeeps, PortEventKeeps
  <1>2. CASE \/ Call \/ ReadBitmap \/ ClearBitmap \/ ScanEnd
             \/ \E p \in Ports : Scan(p)
    BY <1>2, CallKeeps, ReadBitmapKeeps, ClearBitmapKeeps, ScanEndKeeps, ScanKeeps
  <1>3. CASE ResetStart \/ ResetDone \/ ResetFails \/ Check
    BY <1>3, ResetStartKeeps, ResetDoneKeeps, ResetFailsKeeps, CheckKeeps
  <1>4. CASE Enumerate \/ Flush \/ Delete \/ Deleted
    BY <1>4, EnumerateKeeps, FlushKeeps, DeleteKeeps, DeletedKeeps
  <1>5. ASSUME NEW own \in Slots \cup {0}, NEW n \in 0 .. Len(owed) + 1,
               \/ EnableSlot(own, n) \/ EnableSlotFails(own, n)
               \/ DeviceCommand(own, n) \/ DisableSlot(own, n)
        PROVE  PortsIInv'
    BY <1>5, EnableSlotKeeps, EnableSlotFailsKeeps, DeviceCommandKeeps, DisableSlotKeeps
  <1>6. CASE UNCHANGED portVars
    BY <1>6 DEF PortsIInv, PortsTypeOK, SlotsMatch, Single, Tracked, Noticed, Followed, Has,
                portVars, register, slots, bounds, portHistory
  <1> QED BY <1>1, <1>2, <1>3, <1>4, <1>5, <1>6 DEF PortsNext, Driver

LEMMA PortsInvariant == PortsSpec => []PortsIInv
  <1>1. PortsInit => PortsIInv BY PortsInitInv
  <1>2. PortsIInv /\ [PortsNext]_portVars => PortsIInv' BY PortsNextInv
  <1> QED BY <1>1, <1>2, PTL DEF PortsSpec

\* Each slot that the driver has a device in is in use by the controller, unless a
\* completion of another command named it, and the controller has no more slots in
\* use beside those than commands failed or got another's completion.
THEOREM SlotsTheorem == PortsSpec => []SlotsMatch
  <1>1. PortsIInv => SlotsMatch BY DEF PortsIInv
  <1> QED BY <1>1, PortsInvariant, PTL

\* The driver enters a second device for a port only when one was taken out and
\* another put in before it had looked.
THEOREM OneDeviceTheorem == PortsSpec => []OneDevice
  <1>1. PortsIInv => OneDevice
    <2> SUFFICES ASSUME PortsIInv, NEW p \in Ports \ replugged
                 PROVE  Cardinality(Devices(p)) <= 1
      BY DEF OneDevice
    <2>1. CASE Devices(p) = {} BY <2>1, FS_EmptySet
    <2>2. ASSUME NEW s \in Devices(p) PROVE Cardinality(Devices(p)) = 1
      <3>1. Devices(p) = {s} BY <2>2 DEF PortsIInv, Single, Devices
      <3> QED BY <3>1, FS_Singleton
    <2> QED BY <2>1, <2>2
  <1> QED BY <1>1, PortsInvariant, PTL

\* When every change is served, the driver has a device for a port just when
\* something is plugged into it, but for the ports where setting it up failed and
\* those whose entry went to a device that was given another command's completion;
\* unless a change was lost or an exchange went unnoticed.
THEOREM PortsFollowedTheorem == PortsSpec => []PortsFollowed
  <1>1. PortsIInv => PortsFollowed
    <2> SUFFICES ASSUME PortsIInv, pc = "idle", events = {}, bitmap = {},
                        NEW p \in Ports \ (lost \cup replugged)
                 PROVE  (Devices(p) # {} => p \in ccs)
                        /\ (p \in ccs => Devices(p) # {} \/ p \in failed \cup ousted)
      BY DEF PortsFollowed
    <2>1. p \notin csc BY DEF PortsIInv, Noticed
    <2>2. Has(p) <=> Devices(p) # {} BY DEF Has, Devices
    <2> QED BY <2>1, <2>2 DEF PortsIInv, Tracked, Followed
  <1> QED BY <1>1, PortsInvariant, PTL
=============================================================================
