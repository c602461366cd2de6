-------------------------------- MODULE Ahci --------------------------------
(***************************************************************************)
(* One port of the AHCI driver (ahci_port.cpp): threads that read and      *)
(* write through command slots, the disk, and the port's interrupt with    *)
(* its error recovery.                                                     *)
(*                                                                         *)
(* read(), write() and identify() differ only in the data they move, so a  *)
(* command is its number.  The first command of a system call runs with    *)
(* interrupts off until issue_command turns them on; the later ones of the *)
(* same call run with interrupts on, and another thread may run in between.*)
(* The port is the AHCI specification's: an error halts it, clearing ST    *)
(* forgets the issued commands.                                            *)
(***************************************************************************)
EXTENDS Integers, FiniteSets

CONSTANTS
  Threads,
  NumSlots,     \* num_command_slots: the register's value, one less than it has
  MaxCommands, MaxErrors, MaxTimeouts  \* bounds

ASSUME AhciAssumption == NumSlots \in 1 .. 31 /\ IsFiniteSet(Threads)

None  == -1
Slots == 0 .. NumSlots - 1

VARIABLES
  ci,      \* register: the slots whose commands are issued
  is,      \* register: interrupts pending, "done" and "error"
  busy,    \* register tfd: the slot that the disk works on, or None
  ccs,     \* register: the slot last worked on
  halted,  \* an error stopped the port until software restarts it
  cmd,     \* cmd[s]: the command in the table of slot s
  error,   \* command_slots[s].error
  thr,     \* where each thread is, its command and its slot
  off,     \* who runs with interrupts off: a thread, "irq", or "none"
  count, errors, timeouts,
  ran, stray,  \* history: commands the disk carried out; those after their call
  done, gone,  \* history: commands reported done; commands given up
  raced,   \* history: a recovery came between the two looks of the polling loop,
           \* or after the loop, and left a flag for the slot's next command
  clash,   \* history: two threads took one slot
  lost,    \* history: an error interrupt was cleared unserved
  wild     \* history: no slot was free and slot 255 was used

hba     == <<ci, is, busy, ccs, halted>>
bounds  == <<errors, timeouts>>
reports == <<ran, stray, done, gone>>
history == <<raced, clash, lost, wild>>
vars    == <<hba, cmd, error, thr, off, count, bounds, reports, history>>

Sound == ~raced /\ ~clash /\ ~wild

Init ==  \* configure
  /\ ci = {} /\ is = {} /\ busy = None /\ ccs = 0 /\ halted = FALSE
  /\ cmd = [s \in Slots |-> 0] /\ error = {}
  /\ thr = [t \in Threads |-> [at |-> "idle", n |-> 0, slot |-> None]]
  /\ off = "none" /\ count = 0 /\ errors = 0 /\ timeouts = 0
  /\ ran = {} /\ stray = {} /\ done = {} /\ gone = {}
  /\ raced = FALSE /\ clash = FALSE /\ lost = FALSE /\ wild = FALSE

-----------------------------------------------------------------------------
(* The disk.                                                               *)
Start(s) ==
  /\ s \in ci /\ busy = None /\ ~halted
  /\ busy' = s /\ ccs' = s
  /\ UNCHANGED <<ci, is, halted, cmd, error, thr, off, count, bounds, reports, history>>

Active(n) == \E t \in Threads : thr[t].at \in {"poll", "look"} /\ thr[t].n = n

Finish ==
  /\ busy # None
  /\ ran' = ran \cup {cmd[busy]}
  /\ stray' = IF Active(cmd[busy]) THEN stray ELSE stray \cup {cmd[busy]}
  /\ busy' = None /\ ci' = ci \ {busy} /\ is' = is \cup {"done"}
  /\ UNCHANGED <<ccs, halted, cmd, error, thr, off, count, bounds, done, gone, history>>

Fail ==
  /\ busy # None /\ ~halted /\ errors < MaxErrors
  /\ errors' = errors + 1
  /\ halted' = TRUE /\ is' = is \cup {"error"}
  /\ busy' = None
  /\ UNCHANGED <<ci, ccs, cmd, error, thr, off, count, timeouts, reports, history>>

Disk == Finish \/ Fail \/ \E s \in Slots : Start(s)

-----------------------------------------------------------------------------
\* Mutants of the code, for the runs' sensitivity.
MutReissued == {}      \* the other commands are not issued again
MutReissuedAll == ci   \* the failed command is issued again
MutRestarted == halted \* the port is not started again

(* on_interrupt, up to the recovery; the clearing at its end is a step of  *)
(* its own, for the disk works on meanwhile.  The code issues the other    *)
(* commands again one by one, reading command_issue and writing it back    *)
(* with one bit more, on a port that is started; here they are issued at   *)
(* once, so none can complete in between and be issued a third time.       *)
Reissued  == ci \ {ccs}
Restarted == FALSE
Interrupt ==
  /\ off = "none" /\ is # {}
  /\ off' = "irq"
  /\ IF "error" \in is
     THEN /\ error' = error \cup {ccs}
          /\ ci' = Reissued /\ halted' = Restarted
          /\ busy' = None /\ is' = {}
          /\ raced' = (raced \/ ~\E t \in Threads : thr[t].at = "poll" /\ thr[t].n = cmd[ccs])
     ELSE UNCHANGED <<error, ci, halted, busy, is, raced>>
  /\ UNCHANGED <<ccs, cmd, thr, count, bounds, reports, clash, lost, wild>>

\* clear_interrupt_errors
Clear ==
  /\ is' = {}
  /\ lost' = (lost \/ "error" \in is)

InterruptEnd ==
  /\ off = "irq"
  /\ off' = "none"
  /\ Clear
  /\ UNCHANGED <<ci, busy, ccs, halted, cmd, error, thr, count, bounds, reports, raced, clash, wild>>

-----------------------------------------------------------------------------
(* read, write, identify and issue_command.                                *)
Runs(t, place) == thr[t].at = place /\ off \in {t, "none"}
Go(t, place)   == thr' = [thr EXCEPT ![t].at = place]
Return(t, ok)  ==
  /\ Go(t, "idle")
  /\ off' = "none"
  /\ done' = IF ok THEN done \cup {thr[t].n} ELSE done

Call(t) ==
  /\ Runs(t, "idle") /\ count < MaxCommands
  /\ count' = count + 1
  /\ thr' = [thr EXCEPT ![t] = [at |-> "slot", n |-> count', slot |-> None]]
  /\ off' \in {t, "none"}
  /\ Clear
  /\ UNCHANGED <<ci, busy, ccs, halted, cmd, error, bounds, reports, raced, clash, wild>>

\* get_command_slot, and the header and table of the slot it found.
Free(s) == s \in Slots \ ci /\ \A i \in 0 .. s - 1 : i \in ci
Prepare(t) ==
  /\ Runs(t, "slot")
  /\ \/ \E s \in Slots :
          /\ Free(s)
          /\ cmd' = [cmd EXCEPT ![s] = thr[t].n]
          /\ thr' = [thr EXCEPT ![t].at = "issue", ![t].slot = s]
          /\ clash' = \E u \in Threads \ {t} : thr[u].at # "idle" /\ thr[u].slot = s
          /\ UNCHANGED wild
     \/ /\ Slots \subseteq ci
        /\ wild' = TRUE
        /\ UNCHANGED <<cmd, thr, clash>>
  /\ UNCHANGED <<hba, error, off, count, bounds, reports, raced, lost>>

\* More pieces than the table has room for.
TooLong(t) ==
  /\ Runs(t, "slot") /\ \E s \in Slots : Free(s)
  /\ Return(t, FALSE)
  /\ UNCHANGED <<hba, cmd, error, count, bounds, ran, stray, gone, history>>

\* wait_for_port, and the doorbell.
Issue(t) ==
  /\ Runs(t, "issue") /\ busy = None
  /\ ci' = ci \cup {thr[t].slot}
  /\ Go(t, "poll")
  /\ off' = "none"
  /\ UNCHANGED <<is, busy, ccs, halted, cmd, error, count, bounds, reports, history>>

\* wait_for_port_completion: the error flag first ...
Poll(t) ==
  /\ Runs(t, "poll")
  /\ IF thr[t].slot \in error
     THEN /\ error' = error \ {thr[t].slot}
          /\ Return(t, FALSE)
     ELSE Go(t, "look") /\ UNCHANGED <<error, off, done>>
  /\ UNCHANGED <<hba, cmd, count, bounds, ran, stray, gone, history>>

\* ... then the register.
Look(t) ==
  /\ Runs(t, "look")
  /\ IF thr[t].slot \in ci THEN Go(t, "poll") /\ UNCHANGED <<off, done>>
                           ELSE Return(t, TRUE)
  /\ UNCHANGED <<hba, cmd, error, count, bounds, ran, stray, gone, history>>

\* Either loop ends after so many rounds.
GiveUp(t) ==
  /\ \/ Runs(t, "issue") /\ busy # None /\ UNCHANGED <<error, gone>>
     \/ /\ Runs(t, "look") /\ thr[t].slot \in ci
        /\ error' = error \ {thr[t].slot}
        /\ gone' = gone \cup {thr[t].n}
  /\ timeouts < MaxTimeouts /\ timeouts' = timeouts + 1
  /\ Return(t, FALSE)
  /\ UNCHANGED <<hba, cmd, count, errors, ran, stray, history>>

Thread(t) == Call(t) \/ Prepare(t) \/ TooLong(t) \/ Issue(t) \/ Poll(t) \/ Look(t) \/ GiveUp(t)

-----------------------------------------------------------------------------
Next == Sound /\ (Disk \/ Interrupt \/ InterruptEnd \/ \E t \in Threads : Thread(t))

\* Interrupts come when they are on, and a thread with interrupts off goes on.
Spec == /\ Init /\ [][Next]_vars
        /\ WF_vars(Sound /\ (Interrupt \/ InterruptEnd))
        /\ \A t \in Threads : WF_vars(Sound /\ off = t /\ Thread(t))

-----------------------------------------------------------------------------
\* A call that returns true had its command carried out, also when the other
\* thread's command failed and the recovery threw both out of the port.
DoneIsDone == Sound => done \subseteq ran

\* The disk carries out no command whose call has already returned, and writes
\* into no buffer that was given back, but for commands that were given up; and
\* slots run out (and slot 255 is used) only when so many were given up.
NoStray == /\ Sound => stray \subseteq gone
           /\ wild /\ ~clash /\ ~raced => Cardinality(gone) + Cardinality(Threads) > NumSlots

\* After an error the port works again, unless the error's interrupt was cleared
\* unserved: by another call's clear_interrupt_errors, or by the handler's own.
Recovers == halted ~> ~halted \/ lost \/ ~Sound
=============================================================================
