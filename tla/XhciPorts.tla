------------------------------ MODULE XhciPorts ------------------------------
(***************************************************************************)
(* The xHCI driver's ports, slots and devices: what start_device and       *)
(* process_pending_port_changes make of devices that are plugged in and    *)
(* out while they work.                                                    *)
(*                                                                         *)
(* A port raises an event when its change bit (csc) goes from 0 to 1, and  *)
(* the interrupt handler notes the port in m_psc_pending_bitmap.  The      *)
(* bitmap is looked at by a system call, which has interrupts off until    *)
(* its first Sleep, or at boot.                                            *)
(*                                                                         *)
(* The controller carries out commands in the order in which they were     *)
(* sent, perhaps after the driver gave one up: its completion is then      *)
(* still to come, and will be taken for the answer to a later command.     *)
(* Ports beyond the bitmap's 32 are not modelled.                          *)
(*                                                                         *)
(* The driver's two modules can be extended together: no name is in both.  *)
(***************************************************************************)
EXTENDS Integers, FiniteSets, Sequences

CONSTANTS
  NumPorts,  \* m_max_ports
  NumSlots,  \* m_max_device_slots
  MaxPlugs, MaxFaults, MaxPasses  \* bounds

ASSUME PortsAssumption == NumPorts \in 1 .. 32 /\ NumSlots \in 1 .. 255

Ports == 0 .. NumPorts - 1
Slots == 1 .. NumSlots

VARIABLES
  ccs, csc, ped,  \* PORTSC: the ports connected, changed, enabled
  events,   \* ports whose event is on the ring, unread
  bitmap,   \* m_psc_pending_bitmap
  table,    \* m_slot_devices: the port of the device in each slot, or -1
  enabled,  \* controller: the slots in use
  owed,     \* completions to come of commands given up: the slot, or 0 for an error
  pc, port, \* the thread: where it is, and the port that it works on
  slot,     \* and the slot of the device that it sets up or deletes
  seen,     \* its copy of the bitmap: ports still to look at
  boot, on, \* whether start_device runs; whether interrupts are on
  plugs, faults, made,
  failed,   \* history: ports whose last device could not be reset or given a slot
  ousted,   \* history: ports whose last device lost its entry to another's
  stray,    \* history: slots with a device that the controller enabled no slot for,
            \* or another one
  mixups,   \* history: how often Enable Slot got the completion of another command
  lost,     \* history: ports of which a change was cleared or dropped unserved
  replugged \* history: ports unplugged and plugged in before either was served

register    == <<ccs, csc, ped, events>>
bounds      == <<plugs, faults, made>>
slots       == <<enabled, owed, slot, stray, mixups>>
portHistory == <<failed, ousted, lost, replugged>>
portVars    == <<register, bitmap, table, slots, pc, port, seen, boot, on, bounds, portHistory>>

None == -1
PortsInit ==
  /\ ccs \in SUBSET Ports /\ csc = ccs /\ ped = {} /\ events = ccs /\ bitmap = {}
  /\ table = [s \in Slots |-> None] /\ enabled = {} /\ owed = <<>> /\ slot = 0
  /\ pc = "scan" /\ port = 0 /\ seen = Ports /\ boot = TRUE /\ on = TRUE
  /\ plugs = 0 /\ faults = 0 /\ made = 0
  /\ failed = {} /\ ousted = {} /\ stray = {} /\ mixups = 0 /\ lost = {} /\ replugged = {}

-----------------------------------------------------------------------------
(* The user and the controller.                                            *)
Change(p) ==
  /\ plugs < MaxPlugs /\ plugs' = plugs + 1
  /\ csc' = csc \cup {p}
  /\ events' = IF p \in csc THEN events ELSE events \cup {p}
  /\ UNCHANGED <<bitmap, table, slots, pc, port, seen, boot, on, faults, made>>

Plug(p) ==
  /\ p \notin ccs /\ ccs' = ccs \cup {p}
  /\ Change(p)
  /\ replugged' = IF p \in csc THEN replugged \cup {p} ELSE replugged
  /\ failed' = failed \ {p} /\ ousted' = ousted \ {p}
  /\ UNCHANGED <<ped, lost>>

Unplug(p) ==
  /\ p \in ccs /\ ccs' = ccs \ {p}
  /\ ped' = ped \ {p}
  /\ Change(p)
  /\ UNCHANGED portHistory

\* The interrupt: PORT_STATUS_CHANGE_EVENT in _process_events.
PortEvent(p) ==
  /\ p \in events /\ (on \/ pc = "idle")
  /\ events' = events \ {p} /\ bitmap' = bitmap \cup {p}
  /\ UNCHANGED <<ccs, csc, ped, table, slots, pc, port, seen, boot, on, bounds, portHistory>>

-----------------------------------------------------------------------------
\* Mutants of the code, for the runs' sensitivity.
MutServed(p) == seen' = {}   \* the loop ends with the first port
MutNow == {}  \* the last write of the reset clears no change bit
MutEnter(s, own) ==   \* the device is entered under slot 1, whatever the answer
  /\ table' = [table EXCEPT ![1] = port] /\ slot' = s
  /\ ousted' = ousted \cup ({table[1]} \ {None, port})
  /\ stray' = IF s = own THEN stray \ {s} ELSE stray \cup {s}

GoTo(place) == pc' = place
Served(p)   == seen' = seen \ {p}
Devices(p)  == {s \in Slots : table[s] = p}
First(p, s) == s \in Devices(p) /\ \A t \in Devices(p) : s <= t
Lose(p)     == lost' = IF p \in csc THEN lost \cup {p} ELSE lost

(* The loop of process_pending_port_changes.                               *)
Call ==
  /\ pc = "idle" /\ made < MaxPasses /\ made' = made + 1
  /\ GoTo("read") /\ on' = FALSE
  /\ UNCHANGED <<register, bitmap, table, slots, port, seen, boot, plugs, faults, portHistory>>

ReadBitmap ==
  /\ pc = "read"
  /\ seen' = bitmap
  /\ GoTo(IF bitmap = {} THEN "idle" ELSE "clear")
  /\ UNCHANGED <<register, bitmap, table, slots, port, boot, on, bounds, portHistory>>

ClearBitmap ==
  /\ pc = "clear"
  /\ bitmap' = {}
  /\ lost' = lost \cup (bitmap \ seen)
  /\ GoTo("scan")
  /\ UNCHANGED <<register, table, slots, port, seen, boot, on, bounds, failed, ousted, replugged>>

Scan(p) ==
  /\ pc = "scan" /\ p \in seen /\ \A q \in seen : p <= q
  /\ port' = p
  /\ IF p \notin csc \/ (boot /\ p \notin ccs)
     THEN Served(p) /\ UNCHANGED pc
     ELSE GoTo(IF p \in ccs THEN "reset" ELSE "delete") /\ UNCHANGED seen
  /\ UNCHANGED <<register, bitmap, table, slots, boot, on, bounds, portHistory>>

ScanEnd ==
  /\ pc = "scan" /\ seen = {}
  /\ GoTo(IF boot THEN "idle" ELSE "read")
  /\ boot' = FALSE
  /\ UNCHANGED <<register, bitmap, table, slots, port, seen, on, bounds, portHistory>>

-----------------------------------------------------------------------------
(* _reset_port: the change bit is cleared when the reset starts ...        *)
ResetStart ==
  /\ pc = "reset"
  /\ csc' = csc \ {port} /\ ped' = ped \ {port}
  /\ lost' = IF port \in csc /\ port \notin ccs THEN lost \cup {port} ELSE lost
  /\ GoTo("resetting") /\ on' = TRUE
  /\ UNCHANGED <<ccs, events, bitmap, table, slots, port, seen, boot, bounds, failed, ousted, replugged>>

\* ... and again when it is over, whatever has happened since.
Now == {port}
ResetDone ==
  /\ pc = "resetting"
  /\ csc' = csc \ Now
  /\ ped' = ped \cup ({port} \cap ccs)
  /\ Lose(port)
  /\ GoTo("check")
  /\ UNCHANGED <<ccs, events, bitmap, table, slots, port, seen, boot, on, bounds, failed, ousted, replugged>>

ResetFails ==
  /\ pc = "resetting" /\ faults < MaxFaults /\ faults' = faults + 1
  /\ failed' = failed \cup {port}
  /\ Served(port) /\ GoTo("scan")
  /\ UNCHANGED <<register, bitmap, table, slots, port, boot, on, plugs, made, ousted, lost, replugged>>

Check ==
  /\ pc = "check"
  /\ IF port \in ped THEN GoTo("slot") /\ UNCHANGED <<seen, failed>>
     ELSE GoTo("scan") /\ Served(port) /\ failed' = IF port \in ccs THEN failed \cup {port} ELSE failed
  /\ UNCHANGED <<register, bitmap, table, slots, port, boot, on, bounds, ousted, lost, replugged>>

(* _send_command_trb: the answer to a command is the first completion that *)
(* came since the last command ended, and the others are dropped; own is   *)
(* its own, n of them come in time, and none may be a timeout.             *)
Command(own, n) ==
  /\ n \in 0 .. Len(owed) + 1
  /\ owed' = SubSeq(Append(owed, own), n + 1, Len(owed) + 1)
Answer(own, n) == IF n = 0 THEN 0 ELSE Head(Append(owed, own))
Fault(bad) ==
  /\ faults' = IF bad THEN faults + 1 ELSE faults
  /\ faults' <= MaxFaults

(* _setup_device.  The controller enables the slot own, or none: it is out *)
(* of slots or the command fails.                                          *)
Enable(own, n) ==
  /\ pc = "slot"
  /\ own \notin enabled /\ enabled' = enabled \cup ({own} \ {0})
  /\ Command(own, n)
  /\ Fault(n = 0 \/ (own = 0 /\ enabled # Slots))
  /\ mixups' = IF n > 0 /\ Answer(own, n) # own THEN mixups + 1 ELSE mixups

\* The device is entered under the slot that the answer names.
Enter(s, own) ==
  /\ table' = [table EXCEPT ![s] = port] /\ slot' = s
  /\ ousted' = ousted \cup ({table[s]} \ {None, port})
  /\ stray' = IF s = own THEN stray \ {s} ELSE stray \cup {s}

EnableSlot(own, n) ==
  /\ Enable(own, n)
  /\ Answer(own, n) # 0
  /\ Enter(Answer(own, n), own)
  /\ GoTo("address")
  /\ UNCHANGED <<register, bitmap, port, seen, boot, on, plugs, made, failed, lost, replugged>>

EnableSlotFails(own, n) ==
  /\ Enable(own, n)
  /\ Answer(own, n) = 0
  /\ failed' = failed \cup {port}
  /\ Served(port) /\ GoTo("scan")
  /\ UNCHANGED <<register, bitmap, table, slot, stray, port, boot, on, plugs, made, ousted, lost,
                 replugged>>

\* Address Device, Evaluate Context, Configure Endpoint and, for the deletion,
\* Stop Endpoint: the driver goes on whatever the answer is.
DeviceCommand(own, n) ==
  /\ pc \in {"address", "enumerate", "stop", "disable"} /\ own \in {0, slot}
  /\ Command(own, n)
  /\ Fault(n = 0)
  /\ GoTo(IF pc \in {"address", "enumerate"} THEN "enumerate" ELSE "disable")
  /\ UNCHANGED <<register, bitmap, table, enabled, slot, stray, mixups, port, seen, boot, on, plugs,
                 made, portHistory>>

\* Whether the descriptors can be read or not, the device keeps its slot.  Each
\* control transfer ends with flush_unprocessed_events.
Enumerate ==
  /\ pc = "enumerate"
  /\ slot' = 0
  /\ Served(port) /\ GoTo("scan")
  /\ UNCHANGED <<register, bitmap, table, enabled, owed, stray, mixups, port, boot, on, bounds,
                 portHistory>>

Flush ==
  /\ pc = "enumerate"
  /\ events' = {} /\ lost' = lost \cup events
  /\ \E i \in 0 .. Len(owed) : \E j \in i .. Len(owed) :
       owed' = SubSeq(owed, 1, i) \o SubSeq(owed, j + 1, Len(owed))
  /\ UNCHANGED <<ccs, csc, ped, bitmap, table, enabled, slot, stray, mixups, pc, port, seen, boot, on,
                 bounds, failed, ousted, replugged>>

-----------------------------------------------------------------------------
(* _delete_device, of the first device found on the port, ...              *)
Delete ==
  /\ pc = "delete"
  /\ \/ Devices(port) = {} /\ GoTo("deleted") /\ UNCHANGED <<slot, on>>
     \/ \E s \in Slots : First(port, s) /\ slot' = s /\ GoTo("stop") /\ on' = TRUE
  /\ UNCHANGED <<register, bitmap, table, enabled, owed, stray, mixups, port, seen, boot, bounds,
                 portHistory>>

\* The controller disables the slot, or fails to, or has it not in use.
DisableSlot(own, n) ==
  /\ pc = "disable" /\ own \in {0} \cup ({slot} \cap enabled)
  /\ enabled' = enabled \ {own}
  /\ Command(own, n)
  /\ Fault(n = 0 \/ (own = 0 /\ slot \in enabled))
  /\ table' = [table EXCEPT ![slot] = None] /\ stray' = stray \ {slot} /\ slot' = 0
  /\ GoTo("deleted")
  /\ UNCHANGED <<register, bitmap, mixups, port, seen, boot, on, plugs, made, portHistory>>

\* ... and then the change bit, which may by now mean a new device.
Deleted ==
  /\ pc = "deleted"
  /\ csc' = csc \ {port}
  /\ lost' = IF port \in ccs THEN lost \cup {port} ELSE lost
  /\ Served(port) /\ GoTo("scan")
  /\ UNCHANGED <<ccs, ped, events, bitmap, table, slots, port, boot, on, bounds, failed, ousted, replugged>>

-----------------------------------------------------------------------------
Driver == \/ Call \/ ReadBitmap \/ ClearBitmap \/ ScanEnd \/ \E p \in Ports : Scan(p)
          \/ ResetStart \/ ResetDone \/ ResetFails \/ Check
          \/ Enumerate \/ Flush \/ Delete \/ Deleted
          \/ \E own \in Slots \cup {0}, n \in 0 .. Len(owed) + 1 :
               \/ EnableSlot(own, n) \/ EnableSlotFails(own, n)
               \/ DeviceCommand(own, n) \/ DisableSlot(own, n)
PortsNext == Driver \/ \E p \in Ports : Plug(p) \/ Unplug(p) \/ PortEvent(p)
PortsSpec == PortsInit /\ [][PortsNext]_portVars

-----------------------------------------------------------------------------
\* Once every change is served, the ports with devices are the ports that
\* something is plugged into, but for those where the reset or the slot failed and
\* those whose entry a device got that was given another command's completion;
\* unless a change was lost, or a device was exchanged unnoticed.
PortsFollowed ==
  pc = "idle" /\ events = {} /\ bitmap = {} =>
    \A p \in Ports \ (lost \cup replugged) :
      /\ Devices(p) # {} => p \in ccs
      /\ p \in ccs => Devices(p) # {} \/ p \in failed \cup ousted

\* A port has two devices only after an exchange that was not noticed, ...
OneDevice == \A p \in Ports \ replugged : Cardinality(Devices(p)) <= 1

\* ... and the controller keeps at most one slot in use that the driver has no
\* device in for each command that failed or got another's completion; all the
\* driver's slots are in use but those that such a completion named.
SlotsMatch ==
  LET known == {s \in Slots : table[s] # None}
  IN  known \ stray \subseteq enabled /\ Cardinality(enabled \ known) <= faults + mixups
=============================================================================
