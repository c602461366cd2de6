----------------------------- MODULE XhciEvents -----------------------------
(***************************************************************************)
(* The xHCI driver and its controller (xHCI.cpp, xHCI_rings.cpp): the      *)
(* event ring, its interrupt, and the three things that events answer:     *)
(* commands, control transfers and the reports of one HID device.          *)
(*                                                                         *)
(* A thread sends commands and control transfers one after the other and   *)
(* polls the event ring while a transfer runs; the interrupt handler reads *)
(* the same ring between any two of its steps.  The handler runs with      *)
(* interrupts off: the thread stands still, the controller does not.       *)
(* The controller is the xHCI specification's, as the driver relies on it. *)
(***************************************************************************)
EXTENDS Integers, SequencesExt

CONSTANTS
  RingSize,   \* 256: XHCI_EVENT_RING_TRB_COUNT
  TrbCount,   \* 256: XHCI_COMMAND_RING_TRB_COUNT, XHCI_TRANSFER_RING_TRB_COUNT
  MaxEvents,    \* bound: events that the controller posts
  MaxCommands,  \* bound: commands that the thread sends
  MaxTransfers  \* bound: control transfers that it starts

ASSUME XhciAssumption ==
  /\ {RingSize, TrbCount} \subseteq Nat \ {0, 1}
  /\ {MaxEvents, MaxCommands, MaxTransfers} \subseteq Nat

Slot == 0 .. RingSize - 1

VARIABLES
  trb,      \* the event ring: trb[i] = [kind, n, cycle]
  enq, pcs, \* controller: where it posts next, with which cycle bit
  erdp,     \* register: the slot up to which the driver has read
  ip, ehb,  \* register bits: interrupt pending, event handler busy
  posted,   \* events posted so far
  deq, rcs, \* m_dequeue_ptr and m_rcs_bit of the event ring
  flag,     \* m_command_irq_completion
  list,     \* m_command_completion_events: slots of the ring
  irq, thr, \* where the handler and the thread are, and their locals `events',
            \* `command_completion_status' and the address for ERDP
  commands, transfers, \* the command ring, and the transfer ring of endpoint 0
  bell,     \* controller: endpoint 0 was told to look at its ring
  sent, asked, \* commands and control transfers started
  addressed,   \* the second Address Device was sent
  dma,      \* whose answer the device's control buffer holds
  armed, reported,    \* the HID endpoint: a TRB waits; reports posted
  pushed,             \* reports that reached kb_push_key
  answer,   \* the answer to the last command (0: none), and the last before
  raced,    \* history: the handler dequeued while the thread was dequeuing
  lapped,   \* history: the controller wrote a slot that the driver had yet to read,
            \* or the last one that was free
  missed,   \* history: the handler cleared an interrupt it had not served
  behind,   \* history: the thread stored an ERDP that the handler had moved past
  late,     \* history: a command was given up unanswered
  slow,     \* history: the first transfer that was given up unanswered, or 0
  again,    \* history: the transfers asked when the ring was begun anew, or 0
  flushed   \* history: reports that flush_unprocessed_events dropped

ring    == <<trb, enq, pcs, erdp, ip, ehb, posted>>
reader  == <<deq, rcs>>
queues  == <<commands, transfers, bell, dma>>
calls   == <<sent, asked, addressed, answer, late, slow>>
device  == <<queues, armed, reported, again>>
history == <<raced, lapped, missed, behind, flushed>>
vars    == <<ring, reader, flag, list, irq, thr, calls, device, pushed, history>>

Idle  == [at |-> "idle", evs |-> <<>>, seen |-> 0, addr |-> 0]
Sound == ~raced /\ ~lapped

-----------------------------------------------------------------------------
(* The command ring and the transfer rings: the driver writes TRBs with    *)
(* its cycle bit, and a link in the last slot leads back to the first.  A  *)
(* control transfer is one TRB here, where the code has two or three.      *)
Link == TrbCount - 1
NewRing == [trb |-> [i \in 0 .. Link |-> [n |-> 0, address |-> FALSE, cycle |-> IF i = Link THEN 1 ELSE 0]],
            enq |-> 0, rcs |-> 1, deq |-> 0, ccs |-> 1]

Placed(r, n, address) ==
  [r EXCEPT !.trb[r.enq] = [n |-> n, address |-> address, cycle |-> r.rcs], !.enq = @ + 1]
Linked(r) == [r EXCEPT !.trb[Link].cycle = r.rcs, !.enq = 0, !.rcs = 1 - @]
Enqueued(r, n, address) ==
  LET put == Placed(r, n, address) IN IF put.enq = Link THEN Linked(put) ELSE put

\* The controller's side: a TRB is there if it has the consumer's cycle bit.
Pending(r)  == r.trb[r.deq].cycle = r.ccs
Consumed(r) == IF r.deq + 1 = Link /\ r.trb[Link].cycle = r.ccs
               THEN [r EXCEPT !.deq = 0, !.ccs = 1 - @]
               ELSE [r EXCEPT !.deq = @ + 1]
\* Address Device takes the dequeue pointer from the input context, where
\* _configure_ctrl_ep_input_context put the ring's base and its first cycle bit.
Restarted(r) == [r EXCEPT !.deq = 0, !.ccs = 1]

-----------------------------------------------------------------------------
(* The controller.                                                         *)
Held == ToSet(irq.evs) \cup ToSet(thr.evs) \cup ToSet(list)

\* An event is posted unless the ring is full, as far as ERDP tells; the
\* interrupt is raised unless the driver is busy with an earlier one.
Post(kind, n) ==
  /\ posted < MaxEvents
  /\ (enq + 1) % RingSize # erdp
  /\ trb' = [trb EXCEPT ![enq] = [kind |-> kind, n |-> n, cycle |-> pcs]]
  /\ enq' = (enq + 1) % RingSize
  /\ pcs' = IF enq' = 0 THEN 1 - pcs ELSE pcs
  /\ posted' = posted + 1
  /\ ip' = (ip \/ ~ehb) /\ ehb' = TRUE
  /\ lapped' = (lapped \/ enq \in Held \/ (behind /\ (enq + 1) % RingSize = deq))
  /\ UNCHANGED <<erdp, reader, flag, list, irq, thr, calls, pushed, raced, missed, behind, flushed>>

AnswerCommand ==
  /\ Pending(commands)
  /\ LET c == commands.trb[commands.deq] IN
       /\ Post("command", c.n)
       /\ IF c.address
          THEN /\ transfers' = Restarted(transfers) /\ bell' = FALSE
               /\ again' = asked
          ELSE UNCHANGED <<transfers, bell, again>>
  /\ commands' = Consumed(commands)
  /\ UNCHANGED <<dma, armed, reported>>

\* IN data goes to the device's one control buffer.
ServeTransfer ==
  /\ bell /\ Pending(transfers)
  /\ dma' = transfers.trb[transfers.deq].n
  /\ Post("control", dma')
  /\ transfers' = Consumed(transfers)
  /\ bell' = Pending(transfers')
  /\ UNCHANGED <<commands, armed, reported, again>>

Report ==
  /\ armed
  /\ armed' = FALSE /\ reported' = reported + 1
  /\ Post("report", reported')
  /\ UNCHANGED <<queues, again>>

Controller == AnswerCommand \/ ServeTransfer \/ Report

-----------------------------------------------------------------------------
\* Mutants of the code, for the runs' sensitivity.
MutAdvanced(n) ==  \* the cycle state does not change at the end of the ring
  /\ deq' = (deq + n) % RingSize
  /\ UNCHANGED rcs
MutPublish(d) ==   \* the busy bit is not written back
  /\ erdp' = d
  /\ UNCHANGED <<trb, enq, pcs, posted, ip, ehb>>
MutHandleReport(e) ==  \* the endpoint is not armed again
  /\ e.kind = "report"
  /\ pushed' = Append(pushed, e.n)
  /\ UNCHANGED <<list, queues, armed, reported, again>>
MutClear ==  \* the completions are kept
  /\ thr.at = "clear"
  /\ flag' = 0
  /\ thr' = Idle
  /\ UNCHANGED <<ring, reader, list, irq, calls, device, pushed, history>>
MutTransfer ==  \* the buffer is not cleared before the transfer
  /\ thr.at = "idle" /\ asked < MaxTransfers /\ (asked = 1 => addressed)
  /\ asked' = asked + 1
  /\ transfers' = Enqueued(transfers, asked', FALSE) /\ bell' = TRUE
  /\ thr' = [Idle EXCEPT !.at = "read"]
  /\ UNCHANGED <<ring, reader, flag, list, irq, sent, addressed, answer, late, slow,
                 commands, dma, armed, reported, again, pushed, history>>

\* has_unprocessed_events, and how many events dequeue_events would take.
Unread(i) == trb[(deq + i) % RingSize].cycle = IF deq + i < RingSize THEN rcs ELSE 1 - rcs
Ready == CHOOSE n \in 0 .. RingSize : /\ \A i \in 0 .. n - 1 : Unread(i)
                                      /\ n = RingSize \/ ~Unread(n)
Advanced(n) ==
  /\ deq' = (deq + n) % RingSize
  /\ rcs' = IF deq + n >= RingSize THEN 1 - rcs ELSE rcs

\* ERDP is stored with the busy bit, which clears it; the controller raises the
\* next interrupt if events are left.
Publish(d) ==
  /\ erdp' = d
  /\ ehb' = (d # enq) /\ ip' = (ip \/ d # enq)
  /\ UNCHANGED <<trb, enq, pcs, posted>>

\* One round of the loop in _process_events.
HandleCommand(e, i) ==
  /\ e.kind = "command"
  /\ list' = Append(list, i)
  /\ UNCHANGED <<pushed, device>>
HandleReport(e) ==  \* kb_push_key and _arm_interrupt_in
  /\ e.kind = "report"
  /\ pushed' = Append(pushed, e.n) /\ armed' = TRUE
  /\ UNCHANGED <<list, queues, reported, again>>
HandleControl(e) ==  \* m_pending_transfers, which nobody reads
  /\ e.kind = "control"
  /\ UNCHANGED <<list, pushed, device>>
Handle(i) == HandleCommand(trb[i], i) \/ HandleReport(trb[i]) \/ HandleControl(trb[i])

Seen(c) == IF trb[Head(c.evs)].kind = "command" THEN 1 ELSE c.seen
Next1(c) == [c EXCEPT !.evs = Tail(@), !.seen = Seen(c)]

-----------------------------------------------------------------------------
(* _xhci_irq_handler.                                                      *)
IrqDequeue ==
  /\ irq.at = "idle" /\ ip
  /\ irq' = [Idle EXCEPT !.at = "handle",
                         !.evs = [i \in 1 .. Ready |-> (deq + i - 1) % RingSize]]
  /\ Advanced(Ready)
  /\ IF Ready = 0 THEN UNCHANGED ring ELSE Publish(deq')
  /\ raced' = (raced \/ (Ready > 0 /\ thr.at \in {"advance", "drop"}))
  /\ UNCHANGED <<flag, list, thr, calls, device, pushed, lapped, missed, behind, flushed>>

IrqHandle ==
  /\ irq.at = "handle"
  /\ IF irq.evs # <<>>
     THEN /\ Handle(Head(irq.evs))
          /\ irq' = Next1(irq)
          /\ UNCHANGED flag
     ELSE /\ flag' = irq.seen
          /\ irq' = [irq EXCEPT !.at = "acknowledge"]
          /\ UNCHANGED <<list, pushed, device>>
  /\ UNCHANGED <<ring, reader, thr, calls, history>>

\* _acknowledge_irq
IrqAcknowledge ==
  /\ irq.at = "acknowledge"
  /\ ip' = FALSE
  /\ missed' = (missed \/ Ready > 0)
  /\ irq' = Idle
  /\ UNCHANGED <<trb, enq, pcs, erdp, ehb, posted, reader, flag, list, thr, calls, device,
                 pushed, raced, lapped, behind, flushed>>

Handler == IrqDequeue \/ IrqHandle \/ IrqAcknowledge

-----------------------------------------------------------------------------
(* The thread: _send_command_trb ...                                       *)
At(place) == thr.at = place /\ irq.at = "idle"
Go(place) == thr' = [thr EXCEPT !.at = place]

\* The Address Device that matters is the second: _enumerate_device reads eight
\* bytes of the descriptor, addresses the device again and goes on reading.
SendCommand ==
  /\ At("idle") /\ sent < MaxCommands
  /\ sent' = sent + 1
  /\ \E address \in {FALSE, asked = 1 /\ ~addressed} :
       /\ commands' = Enqueued(commands, sent', address)
       /\ addressed' = (addressed \/ address)
  /\ Go("wait")
  /\ UNCHANGED <<ring, reader, flag, list, irq, asked, answer, late, slow, transfers, bell,
                 dma, armed, reported, again, pushed, history>>

\* The loop ends with the flag, or after 50 rounds without it.
Completion == IF list = <<>> THEN 0 ELSE trb[list[1]].n
TakeAnswer ==
  /\ At("wait")
  /\ answer' = <<Completion, IF answer[1] = 0 THEN answer[2] ELSE answer[1]>>
  /\ late' = (late \/ (flag = 0 /\ Completion # sent))
  /\ Go("clear")
  /\ UNCHANGED <<ring, reader, flag, list, irq, sent, asked, addressed, slow, device,
                 pushed, history>>

Clear ==
  /\ At("clear")
  /\ list' = <<>> /\ flag' = 0
  /\ thr' = Idle
  /\ UNCHANGED <<ring, reader, irq, calls, device, pushed, history>>

(* ... and _send_control_transfer: _process_events and then                *)
(* flush_unprocessed_events, again and again until the time is over.       *)
Transfer ==
  /\ At("idle") /\ asked < MaxTransfers /\ (asked = 1 => addressed)
  /\ asked' = asked + 1
  /\ dma' = 0
  /\ transfers' = Enqueued(transfers, asked', FALSE) /\ bell' = TRUE
  /\ thr' = [Idle EXCEPT !.at = "read"]
  /\ UNCHANGED <<ring, reader, flag, list, irq, sent, addressed, answer, late, slow,
                 commands, armed, reported, again, pushed, history>>

\* dequeue_events: a slot with the reader's cycle bit is taken, ...
Read ==
  /\ At("read") \/ At("flush")
  /\ IF Unread(0)
     THEN thr' = [thr EXCEPT !.at = IF @ = "read" THEN "advance" ELSE "drop",
                             !.evs = Append(@, deq)]
     ELSE Go(IF thr.at = "flush" \/ thr.evs # <<>> THEN "publish" ELSE "handle")
  /\ UNCHANGED <<ring, reader, flag, list, irq, calls, device, pushed, history>>

\* ... and then the pointer moves on.
Advance ==
  /\ At("advance") \/ At("drop")
  /\ Advanced(1)
  /\ flushed' = IF thr.at = "drop" /\ trb[Last(thr.evs)].kind = "report"
                THEN flushed \cup {trb[Last(thr.evs)].n} ELSE flushed
  /\ IF thr.at = "drop" THEN thr' = [thr EXCEPT !.at = "flush", !.evs = <<>>]
                        ELSE Go("read")
  /\ UNCHANGED <<ring, flag, list, irq, calls, device, pushed, raced, lapped, missed, behind>>

\* Then _update_erdp computes an address and stores it, without the busy bit, and
\* dequeue_events loads it and stores it with the bit.
Address ==
  /\ At("publish")
  /\ thr' = [thr EXCEPT !.at = "store", !.addr = deq]
  /\ UNCHANGED <<ring, reader, flag, list, irq, calls, device, pushed, history>>

Store ==
  /\ At("store")
  /\ erdp' = thr.addr
  /\ behind' = (behind \/ thr.addr # deq)
  /\ Go("load")
  /\ UNCHANGED <<trb, enq, pcs, ip, ehb, posted, reader, flag, list, irq, calls, device, pushed,
                 raced, lapped, missed, flushed>>

Load ==
  /\ At("load")
  /\ thr' = [thr EXCEPT !.at = "busy", !.addr = erdp]
  /\ UNCHANGED <<ring, reader, flag, list, irq, calls, device, pushed, history>>

StoreBusy ==
  /\ At("busy")
  /\ Publish(thr.addr)
  /\ behind' = (behind \/ thr.addr # deq)
  /\ thr' = [thr EXCEPT !.at = IF thr.evs # <<>> THEN "handle" ELSE "again", !.addr = 0]
  /\ UNCHANGED <<reader, flag, list, irq, calls, device, pushed, raced, lapped, missed, flushed>>

HandleRead ==
  /\ At("handle")
  /\ IF thr.evs # <<>>
     THEN /\ Handle(Head(thr.evs))
          /\ thr' = Next1(thr)
          /\ UNCHANGED flag
     ELSE /\ flag' = thr.seen
          /\ Go("flush")
          /\ UNCHANGED <<list, pushed, device>>
  /\ UNCHANGED <<ring, reader, irq, calls, history>>

\* Another round, or the time is over and the control buffer is copied, whether
\* the controller has served all that is on the ring or not.
AllServed == ~Pending(transfers) /\ again # asked
Again ==
  /\ At("again")
  /\ \/ thr' = [Idle EXCEPT !.at = "read"] /\ UNCHANGED slow
     \/ /\ thr' = Idle
        /\ slow' = IF slow = 0 /\ ~AllServed THEN asked ELSE slow
  /\ UNCHANGED <<ring, reader, flag, list, irq, sent, asked, addressed, answer, late, device,
                 pushed, history>>

Thread == \/ SendCommand \/ TakeAnswer \/ Clear
          \/ Transfer \/ Read \/ Advance \/ Address \/ Store \/ Load \/ StoreBusy
          \/ HandleRead \/ Again

-----------------------------------------------------------------------------
Init ==
  /\ trb = [i \in Slot |-> [kind |-> "none", n |-> 0, cycle |-> 0]]
  /\ enq = 0 /\ pcs = 1 /\ erdp = 0 /\ ip = FALSE /\ ehb = FALSE /\ posted = 0
  /\ deq = 0 /\ rcs = 1 /\ flag = 0 /\ list = <<>>
  /\ irq = Idle /\ thr = Idle
  /\ commands = NewRing /\ transfers = NewRing /\ bell = FALSE
  /\ sent = 0 /\ asked = 0 /\ addressed = FALSE /\ dma = 0 /\ again = 0
  /\ armed = TRUE /\ reported = 0 /\ pushed = <<>>
  /\ answer = <<0, 0>>
  /\ raced = FALSE /\ lapped = FALSE /\ missed = FALSE /\ behind = FALSE
  /\ late = FALSE /\ slow = 0 /\ flushed = {}

\* After a race or an overrun nothing is claimed, and nothing explored.
Next == Sound /\ (Controller \/ Handler \/ Thread)
Spec == Init /\ [][Next]_vars /\ WF_vars(Sound /\ Handler) /\ WF_vars(Sound /\ Thread)

-----------------------------------------------------------------------------
\* A command that ends without a timeout, or whose completion had come by then,
\* gets the completion that the controller posted for it.
AnswerIsMine == Sound /\ ~late /\ thr.at = "clear" => answer[1] = sent

\* Also after timeouts a completion answers one command at most, and none that
\* was sent after it was posted answers out of turn.
AnswersOnce == Sound /\ thr.at = "clear" /\ answer[1] # 0 => answer[1] \in answer[2] + 1 .. sent

\* A control transfer, which always says that it succeeded, copies the device's
\* answer to it or zeros if the controller has served all that is on the ring,
\* whatever earlier transfers were given up and although old requests are served
\* once more when the device was addressed again.  If the controller has not, the
\* answer may be another request's, but only after an earlier transfer was given
\* up, or in the first transfer after the ring was begun anew.
OwnData ==
  thr.at = "again" =>
    \/ dma \in {0, asked}
    \/ ~AllServed /\ (slow \in 1 .. asked - 1 \/ (again > 0 /\ asked = again + 1))

\* Reports on their way: unread in the ring, or taken but not handled.
Underway == {trb[(deq + i) % RingSize].n : i \in {j \in 0 .. Ready - 1 :
                 trb[(deq + j) % RingSize].kind = "report"}}
            \cup {trb[i].n : i \in {j \in ToSet(irq.evs) \cup ToSet(thr.evs) : trb[j].kind = "report"}}

\* Each report reaches kb_push_key once and in order, over the end of the ring
\* too, unless the flush dropped it, and as long as none was dropped the
\* endpoint is armed or a report is underway: the keyboard stays alive.
ReportsKept ==
  Sound => /\ \A i \in 2 .. Len(pushed) : pushed[i - 1] < pushed[i]
           /\ ToSet(pushed) \cup flushed \cup Underway = 1 .. reported
           /\ flushed = {} => armed \/ Underway # {}

\* Again and again every posted event has been read, also when nothing polls;
\* unless the handler cleared the pending bit of an event that came after its last
\* look, or the thread stored an ERDP that the handler had moved past: then the
\* next interrupt finds nothing to read, and the busy bit stays set.
EventsRead == []<>(Ready = 0 \/ missed \/ behind \/ ~Sound)
=============================================================================
