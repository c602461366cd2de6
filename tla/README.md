# A TLA+ model of Plum-OS

Plum-OS (`src/`) is a small x86-64 operating system in C++ and assembly: one
processor, one address space, a heap, threads that a timer preempts, system
calls, drivers for disks, network and USB, a FAT32 filesystem, and a shell.
This directory holds TLA+ modules translated from its source, the
configurations TLC checks them with, and proofs for TLAPS. `PROJECT.json` says
which lines each definition stands for, which runs and mutants there are, and
which hazards of the code the properties are for. Paths below are relative to
`src/src/` unless they start with `src/`.

## 1. The system

| Component | State it keeps | Operations | What makes it correct |
|---|---|---|---|
| Kernel heap (`kernel/Memory/heap.cpp`) | block headers in the heap memory: size, free, next, prev | `malloc`, `malloc_align`, `malloc_boundry`, the three frees | blocks tile the region; objects are disjoint, aligned, inside their block; nothing leaks; free memory coalesces |
| Threads (`kernel/Process`, `IDT/handlers.*`, `syscall.asm`, `Sleep.cpp`) | `Threads`, `current_thread`, `current_kernel_stack`, `tss.rsp0`, the kernel stacks, work counts | `create_thread`, the timer's `schedule`, `exit_current`, system call entry and exit | contexts and stacks never mixed up, exited threads stay dead, bounded quanta, no starvation |
| TCP (`IPv4/TCP.cpp`, `Sockets/tcp_socket.cpp`, `programs.cpp`) | table of sockets, state and numbers of each, pending lists, receive queues | `receive_tcp` (interrupt), `socket`, `listen`, `accept`, `send`, `recv`, `close` | one socket per connection, accepted once; states follow the protocol; streams in order; no dangling or doubly deleted socket |
| RTL8139, Ethernet, ARP, ICMP, UDP (`Drivers/Network`) | receive ring, transmit slots, ARP cache, UDP sockets and their queues | the receive interrupt, `send`, `arp_lookup`, `socket`, `bind`, `sendto`, `recv`, `recvfrom` | frames sent once and in order; addresses up to date; a datagram's buffer has one owner; lookups succeed in the end |
| Files (`ksyscall.cpp`, `FileDescriptor.cpp`, `Process_manager.cpp`, `DeviceFS`) | descriptor table per thread, open files with counts, file objects, mounts, devices | open, close, read, write, seek, stat, truncate, mount | every open file has one owner and is closed once; no object leaks or is used after its deletion; a path opens what it names |
| FAT32 (`fs/FAT32`), partitions (`fs/partition`) | open files with a position and a copy of their directory entry; FAT, directory and data on the disk; partitions and file systems | probing, open by name, chain walk, read, write, seek, truncate | an open file behaves as a sequence of bytes; sizes fit the chain and agree with the disk; other clusters stay as they are |
| AHCI (`achi`) | command slots, error flags, the port's registers | issue, poll, time out, interrupt, error recovery | a reported success was one; no command runs behind its caller's back; the port recovers |
| xHCI (`USB/xHCI`) | command, transfer and event rings, slots, devices, pending port changes | commands, control transfers, interrupt, port changes, reset, enumeration, deletion | answers match questions, events are not lost, devices follow the ports, slots are given back |
| USB keyboard and mouse, PS/2, keyboard buffer | previous report, prefixes, a ring of 256 keys | two interrupts push, one reader pops | no key lost or doubled below the limit |
| Interrupt table (`IDT`) | up to four handlers per vector | install, dispatch | no handler lost |
| Paging (`kernel/Paging.cpp`) | four levels of tables | map | a page maps to what was asked last |
| Containers (`libs/std`) | vector, hash map, ring buffer, unique_ptr | | elements destroyed once |
| Boot, ACPI glue, PCI, clocks, display, text and mathematics, shell, MyCraft | | | see section 6 |

How they interact: interrupts call drivers, drivers call the protocol handlers
on the interrupt's stack; programs call the same objects directly in ring 3
(there is one address space) or through system calls, which run with interrupts
off until one of them waits. Nothing is locked. All components allocate from the
one heap. So the hard behaviours are the interrupts: between any two
instructions of a ring-3 program, or of a system call that turned interrupts on,
every handler and every other thread may run. On top of that come segments that
are lost, late or repeated, devices that fail or answer late or are pulled out
while the driver sets them up, and tables of fixed size that fill up.

## 2. Modules

| Module | Models | Checked by | Proofs |
|---|---|---|---|
| `Allocator` | what callers of the heap rely on, without blocks | refined by `Heap` | |
| `Heap` | `heap.cpp` | `MCHeap` | `HeapProofs` |
| `Scheduler` | threads, interrupts, system calls, exit | `MCScheduler` | `SchedulerProofs` |
| `TcpSocket` | TCP sockets, segment handler, the `http` command, remote ends | `MCTcpSocket` | `TcpSocketProofs` |
| `Network` | card, Ethernet, ARP, ICMP echo, UDP sockets | `Network` | `NetworkProofs` |
| `FileTable` | descriptors, open files, ownership of file objects | `MCFileTable` | `FileTableProofs` |
| `ByteFile` | what a program expects of one open file | refined by `FatFile` | |
| `FatFile` | the operations of an open FAT32 file and the disk | `MCFatFile` | `FatFileProofs` |
| `Mount` | partition table, FAT32 probing, mount table, open by name | `MCMount` | `FileTableProofs` |
| `Ahci` | one port of the AHCI driver, the disk behind it | `Ahci` | `AhciProofs` |
| `XhciEvents` | xHCI rings, interrupt, commands, transfers, reports | `XhciEvents` | `XhciProofs` |
| `XhciPorts` | xHCI ports, slots and devices | `XhciPorts` | `XhciProofs` |

`XhciPorts` and `Mount` share no name with `XhciEvents` and `FileTable`, their
neighbours in the same driver and in the same file layer, so that one module of proofs
extends both; hence names such as `PortsInit` and `MountSpec`.

In every module, `history` variables exist for the properties only: nothing that
the code does depends on them. Several of them name a moment after which the code
promises nothing, such as an element taken out of a vector that an interrupt is
growing. The properties then say: it holds, unless this happened; and where the
moment leaves no defined state behind, the model stops there.

### Heap and Allocator

`size`, `free`, `next` and `prev` are the four fields of `Block`, as functions
over every 16-byte aligned address of the region, because headers are written
into the memory they describe. `blocks` is the set of headers reachable from
`heap_head`; `live` is what clients hold, with the raw pointer that `AlignHeader`
stores. `Malloc`, `MallocAligned` and `MallocMisplaced` are one call each.
`Free` marks the block; then `MergeRight`, `RightDone`, `MergeLeft` and
`FreeReturn` are the iterations of its two loops, so the invariants also hold
halfway through. What holds of callers is an assumption with a name: no size
within 16 bytes of 2^64 (`malloc` would wrap) and no alignment stricter than its
boundary; both are true of every call in the source.

`Allocator` has one variable, the pieces handed out. `Heap` implements it by
forgetting everything but `ptr` and `want` (property `Allocates`).

### Scheduler

A context is what an interrupt frame holds. `Irq`, `TickStay`, `TickSwitch` and
`TickNobody` are interrupts: the stub pushes a frame at `tss.rsp0` (from ring 3)
or below the running system call (from ring 0), and `isr_common` and `schedule`
run with interrupts off. `Syscall`, `SyscallEnables` and `SyscallReturn` are
`syscall.asm` with `Time::Sleep` inside; `Exit` and the `Exit...` steps are
`exit_current` write by write, because `thread_wrapper` calls it in ring 3 where
interrupts are on.

`exposed` is a history variable: an interrupt came while `exit_current` ran in
ring 3 under the identity of the thread it is about to start. From then on
contexts are lost for good (this is the finding of run `scheduler_boot`), and the
properties that carry the proviso `~ exposed` say that this is the only way.

### TcpSocket

`sock` are the `tcp_socket` objects, `sockets` the table of unique pointers.
`Deliver` is the interrupt with one segment: `receive_tcp` in one step.
The `http` command is a program counter over the steps between which an
interrupt makes a difference: `accept` reads and pops in two steps, `send` and
`close` store after their system call returned, `swap_remove` and `pop_back` are
split where the table is inconsistent. A remote end (`Peer`) is an ordinary TCP
client: it connects, acknowledges in order, sends and closes. Payloads count one
unit of sequence space. `ordered` says whether the network keeps the order, or
delays, reorders and repeats. `raced` records that the handler appended to a vector
in the moment the program took an element out of it; `pc = "corrupt"` is the
state after an object was deleted twice, from which nothing is defined and no
step is taken.

### Network

`rx` is the receive ring, indexed by byte offset: `put` is where the card stores
the next header, `rx_offset` where `RX_handler` reads. `Receive` is one round of
its loop, with `receive_ethernet` and the handler below it; the card stores
frames between the rounds. `slot`, `tx_slot` and `tx_card` are the transmit
slots and where driver and card are in them. `sockets` is the vector of UDP
sockets: `Create` and `CreateGrown` are split where `reserve` has installed the
new memory and still copies. `sendto` is a system call that never turns
interrupts on, so `Sendto` is one step, including the hundred rounds in which
`arp_lookup` looks for an answer that cannot come. A peer changes its hardware
address and says so in its next request.

### FileTable

One thread runs all programs (`system.cpp:136-137` creates two, the other one
returns at once), so the calls are sequential; their steps are actions of their own because
each takes or gives back something that the next step, or the failing one, has to
account for. `fd_table` holds addresses of open files, `open` the open files,
`files` the pointers of `FAT32FileSystem::files`, `alive` the objects that exist.
`KopenFull` is the path on which no descriptor is left. `Erase` is `vector::erase`
of a `unique_ptr`; `twice` records that it deleted an object a second time. `free()`
reports that and merges the block once more (`heap.cpp:55-75`), which may spoil the
heap's list; here the calls go on as if it had only reported, so `FilesOwned` and
`ObjectsOwned` after such a deletion hold as far as the heap survives it. The
objects of `DeviceFileSystem` are shared and never deleted. Allocation does not
fail here; `kread`, `kwrite`, `klseek` and `kftruncate` touch none of this state.
There is no `dup`, so a count other than 1 cannot come about, and `TypeOK` says so.

### FatFile and ByteFile

`obj[h]` is a `FAT32File`: the file it was opened for, its copy of the size and its
position. `data` is the disk by clusters, `entry` the sizes in the directory. The
FAT is a constant, because nothing calls `set_next_cluster`: a file never gets
another cluster. The operators `At`, `Place`, `Starts` and `Chunk` say which byte of
which cluster a transfer reaches and where its loop starts anew. Unless the disk is
`calm`, every access may fail: `WriteCut` stops a write after any chunk or, inside one,
after any sector, and the directory entry may stay unwritten. `Boot`
is the cluster-sized piece of the disk at LBA 0; `calculate_lba` sends clusters
below 2 there, and the first cluster of an empty file is 0. `Reach` is where a transfer
is stopped, with that piece counted; `Capacity` is what a file's own clusters hold, which
is nothing for a file without one. `write` and `truncate` store a size for such a file
all the same, and `SizeFitsChain` states it as its exception. `stale` and `past` are
history variables that name the only ways in which an object's size may differ
from the disk's and a position may be behind the end.

`ByteFile` is a sequence of bytes with a position. `FatFile` implements it for
the file `Watched` on a calm disk, if it is opened once at a time and has
a cluster: `bytes` is what the chain holds up to the size in the directory.
Chains are taken to be acyclic and to lead to their end or to a bad link, and the
sizes that the disk starts with to fit them: both are so on a sound disk, and no
call of the driver changes it. `Chain` is a constant with an assumption that ties it to
the FAT link by link (`ChainAssumption`), in place of a recursive walk.

### Mount

The boot reads the GPT header and its entries, tries FAT32 on each partition in
use, mounts what it finds, registers the devices and mounts `/dev`. After that
`Open` resolves a path by the longest mount point that matches and asks the file
system behind it. A vector's memory moves when it grows, so a pointer into
`systems` is a block and an index: `capacity` names the block, since each is larger
than the one before (`Grown`, `Alive`). The scan of a directory is a
fold over its entries: a long name is collected piece by piece in one buffer, and
`After` says what is in the buffer when an entry has been looked at. Names are
sequences of pieces, full or ended by a NUL; what the characters are does not
matter, since `open` compares whole names.

### Ahci

The port's registers are `ci`, `is`, `ccs` and the disk's `busy`; `Start`,
`Finish` and `Fail` are the disk. A thread goes from `Call`
(`clear_interrupt_errors`) over `Free` (a free slot, or -1 cast to 255), `Prepare`
and `Issue` to the polling loop, whose two looks are two steps, and ends in
`Return` or `GiveUp`. `Interrupt` is `on_interrupt` with its recovery: stop, forget
what was issued, start, and issue the others again; `InterruptEnd` clears the
registers at its end. The code issues them again one by one, reading the register and
writing it back with one bit more while the port already runs; here that is one step, so a
command that completes in between and is issued a third time is not modelled. The first command of a system call runs with interrupts
off until it polls; the later ones of a call may be preempted. The model stops when
two threads took one slot, when slot 255 is used and when a flag is left for the
slot's next command: the three `Sound` excludes.

### XhciEvents

`trb`, `enq`, `pcs` are the event ring as the controller writes it, `deq` and
`rcs` the driver's side, `erdp`, `ip` and `ehb` the registers between the two. The
handler (`IrqDequeue`, `IrqHandle`, `IrqAcknowledge`) and a polling thread
(`Read`, `Advance`, `PublishRead`, `HandleRead`) take events from the same ring
through the same pointer. The thread ends `dequeue_events` with interrupts on and in four
steps: the address for ERDP is computed (`Address`), stored without the busy bit
(`Store`), loaded (`Load`) and stored with the bit (`StoreBusy`). If the handler moves ERDP on
in between, the thread puts the older address back, and `behind` records it: the
controller then raises one more interrupt, which finds nothing to read and so leaves
ERDP and the busy bit as they are. `_send_command_trb` waits for a flag and takes the
first of a list of pointers into the ring; `_send_control_transfer` polls and
flushes until its time is over and reports success whatever came.
`commands` and `transfers` are the command ring and the ring of endpoint 0, with
producer and consumer, cycle bits and the link in the last slot. Address Device
gives endpoint 0 the dequeue pointer of the input context (`Restarted`); the
driver sends it twice for each device, and the second time, after the first transfer
(`addressed`), the context still names the ring's base. `AllServed` says that the
controller has served all that the driver put on the ring since. `armed` is a HID endpoint, whose
reports the handler passes on before it arms the endpoint again.

### XhciPorts

`ccs`, `csc` and `ped` are bits of each port's register, `events` the port status
changes on the event ring, `bitmap` the driver's own. The thread looks at
ports at boot (`start_device`) and in a system call
(`process_pending_port_changes`); its program counter follows the loop through
`_reset_port`, `_setup_device`, `_enumerate_device` and `_delete_device`. A user
plugs and unplugs at any moment.

The controller carries out commands in the order they were sent, but may answer after
the driver stopped waiting: `owed` are the completions still to come. `_send_command_trb` takes
the first completion that came since the last command ended, whosever it is, and drops the
others that came with it (`Command`, `Answer`). `Enable` is Enable Slot, `Enter` enters the
device under the slot that the answer names; `DeviceCommand` stands for the commands whose
answers the driver ignores (Address Device, Evaluate Context, Configure Endpoint, Stop
Endpoint) and `DisableSlot` for the one that ends a deletion. That a device context cannot be
allocated is left out: `alloc_xhci_memory` logs it and then clears memory through the
null pointer.

`lost` and `replugged` record the changes that the driver clears without having served
them and the exchanges it cannot notice; `failed` the ports that a failing reset or command left
without a device. `mixups` counts the times that Enable Slot got another command's
completion; `stray` are the slots that were entered through one, and `ousted` the ports whose
device lost its entry to the one that came that way.

## 3. Runs

Times are of two workers.

| Run | Bounds | States, time | What it shows |
|---|---|---|---|
| `heap` | 320 bytes (four or five blocks), two plain and three aligned or bounded requests | 30 000, 14 s | all orders of calls and merge iterations keep the block list exact, waste nothing, and implement `Allocator` |
| `scheduler` | three threads of priorities 0, 2, 1, two of which make system calls; `work` wraps at 3 | 560 000, 57 s | contexts, call frames and kernel stacks stay with their thread; the machine stops early in one known way; every thread keeps running |
| `scheduler_boot` | the two threads that `system.cpp` creates | | a violation: see section 5 |
| `tcp` | two clients, an ordered network and one that reorders with two repeated deliveries, three numbers and objects, a queue of one, two payloads | 3.5 million, 90 s | one socket per connection, accepted once; states that agree with the peer's and follow RFC 793's diagram; streams in order; no dangling pointer |
| `network` | one peer with two hardware addresses, two ports, a ring of 32 bytes (two frames and a half), two transmit slots, queues of one, two frames that peers start, two sends, two sockets, one frame missed | 474 000, 57 s | frames go out once and in order; the cache is fresh; datagrams have one owner; a failed lookup succeeds later |
| `files` | four descriptors, two devices | 61 000, 2 s | open files and objects have one owner on every path, beyond the last free descriptor too |
| `files_close` | two descriptors | | a violation: see section 5 |
| `fat` | a file with two clusters, one with none, clusters of two bytes, sectors of one, transfers up to two bytes, two objects, a calm disk and one that fails | 216 000, 96 s | `FatFile` implements `ByteFile`; sizes fit chains (or belong to the file without one) and agree with the disk, positions stay in the file, other clusters are not touched |
| `mount` | every table of up to three partitions; every directory of up to three files with names of up to two pieces, labels without one | 104 000, 60 s | `open` finds the file of that name, but for the directories in `Misread`; pointers of the mount table are alive with at most one FAT32 partition |
| `ahci` | two threads, two slots, four commands, two errors, two timeouts | 505 000, 16 s | no false success, nothing runs behind its caller's back, the port recovers |
| `xhci_events` | rings of three slots (two TRBs and the link), four events, two commands and two transfers | 3.5 million, 150 s | who gets which answer, what is dropped, the keyboard stays alive, everything is read |
| `xhci_ports` | two ports, three slots, three times plugged in or out, one command or reset that fails or is answered late, two calls | 5.6 million, 47 s | devices follow the ports and slots match the controller's, but for what a late completion mixes up |

The bounds are small but reach the cases that matter. Five blocks are enough for
a free with free neighbours on both sides, in-use blocks beyond them, and every
outcome of the split and of the alignment. Three threads are enough for one that runs, one that waits in a system
call and one that has exited; `WorkWrap` is 256 in the code and only has to
exceed the largest priority. Two clients make the last and the non-last socket of
the table, two pending connections and a race between the two; `MaxSockets` is
128 in the code, `QueueLen` is 127 and at 1 it is also exceeded. `MaxFds` is 64 in the
code; the first free of four, and none, are the same cases. With two clusters of two
bytes, a transfer starts before, at and after a cluster's edge, crosses it, ends
at it and runs off the chain; sectors of one byte let an access fail within a chunk.
The network's ring wraps in the middle of a frame, is full, and is missed once.
In `Mount`, two pieces make a name with a full last piece, one with a short one
and two that share a piece; three partitions make the vector move twice.
Two threads and two AHCI slots leave none free after one timeout. A ring of three
events wraps with the fourth, so both cycle bits occur, and
the second transfer is the first after the ring was begun anew; that later ones depend only on
transfers given up is proved for any number. Both ports may have a device when the machine
starts, so three plugs exchange one and pull out another, or bring a device back
while the other port's is set up, around one late answer; the third slot is the one that an answer can name
wrongly while both devices have theirs. The theorems of section 4
hold without any of these bounds. The runs `tcp` and `fat` use symmetry
(of peers and of objects); they check no liveness.

`CHECK_DEADLOCK FALSE` is set where the system may really stop: the processor
halts when every thread has exited; a TCP run ends when the peers have
finished and the program is back in the shell, or at one of the two places the code
breaks down; nothing is left to do when the bounded numbers of frames, sends, events,
plugs and commands are used up, or a run of the empty file is over; and the drivers'
models stop where their state is no longer defined. The heap and the descriptor table
never stop and their runs check deadlock.

**Fairness.** The timer ticks for ever and a tick that finds interrupts off stays
pending in the APIC, so `Tick` in `Scheduler` is strongly fair. Everything else is
weak fairness of the processor executing instructions and of hardware doing what it
was told: a system call returns and `exit_current` goes on (`Scheduler`); an interrupt
that is pending is taken, and its handler, or the thread that runs with interrupts
off, goes on (`XhciEvents`, `Ahci`, `Network`); the card sends what is in its slots, and a
peer answers an ARP request (`Network`). Nothing is assumed of what threads choose to
do, of the disk, of the USB controller, or of users.

## 4. Proofs

`HeapProofs` proves for every region, set of requests and word size that the
assumptions allow:

- `TilingTheorem`, `CoalescedTheorem`, `OwnedTheorem`, `InsideTheorem`: the
  invariants of run `heap`; `TypeTheorem` and `PristineTheorem`: types, and that a
  heap whose clients returned everything is one free block again;
- `HeapImplementsAllocator`: every step of `Heap` is a step of `Allocator` or a
  stutter, and the initial states agree.

The argument. `Tiling` alone is not inductive: that the new header of a split is
not one of the others needs that blocks are disjoint, that a merge of `cur` is
with its neighbour needs that `cur` is a free block of the list, and that a split
leaves a header inside the region needs types and granularity. The inductive
invariant `IInv` is the conjunction of the type invariant, `Tiling` in the form of
its local part and its order, the granularity of sizes, `Owned`, `Inside` and
`Coalesced`; one lemma per action shows that each conjunct survives. Both places
that rewrite links are one lemma each (`Take` splits or not, `Absorb` joins two
neighbours), used for malloc's three variants and for both merge loops.
`Pristine` follows: with no client every block is free, `Coalesced` allows no two
free neighbours, so there is one block, and it ends where the region ends.

`FileTableProofs` proves of `FileTable` for every number of descriptors and every set of devices
that are not addresses of files:

- `TypeTheorem`, `FilesTheorem`, `ObjectsTheorem`: the types and the invariants of
  run `files`.

The three invariants together are inductive. That a call finds an address for a new
open file or object is not assumed: there is one address more than there are
descriptors, every open file has a descriptor of its own, every object an open
file of its own, and so the pigeonhole principle leaves one free
(`RoomForOpen`, `RoomForObject`). `Closes` says what deleting an object does to the
list of files and serves the two ways an object is closed; `ReleaseInv` is
`release_open_file`, used for the end of `kclose` and for the failing `kopen`.
`ObjectsOwned` has a part on what the call in progress holds, without which the end
of `kstat` could delete an object that an open file uses.

`XhciProofs` proves of `XhciPorts` for every number of ports and slots, of changes,
failures and calls:

- `SlotsTheorem`, `OneDeviceTheorem`, `PortsFollowedTheorem`: the three invariants of
  run `xhci_ports`.

That the devices follow the ports at rest is the end of a story that the inductive
invariant tells step by step. `Tracked`: while a port has a device and no exchange
went unnoticed, its change bit is set exactly if the device is gone, and the driver
is not about to set the port up. `Noticed`: a set change bit is on the event ring, in
the bitmap, or among the ports that the loop still has to look at, unless it is one
of the lost. `Followed`: a port with something plugged in has a device, a set change
bit, a failure, has lost its entry (`ousted`) or is being set up. `OneDevice` counts, so it is derived from
`Single`, which compares slots. `SlotsMatch` is its own invariant: the number of slots that the
controller has in use and the driver does not know grows by one only with a fault or with
a completion taken for another's (`SlotsKept`), and a slot that the driver knows and the controller
does not is `stray` from the moment it is entered until its device is deleted
(`EnableSlotKeeps`, `DisableSlotKeeps`). Which slot an answer names is left open: any
completion that is still owed, so nothing is assumed of when late ones come.

`AhciProofs` proves for every number of threads, slots, commands, errors and timeouts:

- `DoneIsDoneTheorem`, `NoStrayTheorem`: the two invariants of run `ahci`.

`Core` holds as long as the state is `Sound`: commands are numbered apart, the slot
of a thread holds its command (`Held`), a slot that left `ci` was carried out or its
error flag is up for a thread that polls (`Answered`, `Flagged`), and what is
issued is waited for or was given up (`Issued`). The end of soundness is not
covered by `Core`, so the claim about slot 255 is carried by `Exhausted`, which a
step into an unsound state proves from `Core` before it: all slots are in `ci`, each
holds a command of its own, and those that were not given up belong to other threads.

`SchedulerProofs` proves for every number of threads, every priority and every set of
threads that make system calls or end:

- `ContextsTheorem`, `NoResurrectionTheorem`, `StopsTheorem`, `QuantumTheorem`: the
  properties `ContextsKept`, `NoResurrection`, `StopsKnown` and `QuantumBound` of run
  `scheduler`.

`IInv` says at each place the processor can be at whose identity is set (`Running`,
`Leaving`, `Stopped`), and of each thread that waits what it will be resumed with
(`Parked`): its own context on its own stack, or else `exit_current` of another
thread, interrupted after it had taken over this one's identity. The second case is
what makes the proof. Such a frame lies on one of two stacks, one exited thread is
the context of one waiting thread at most, and `exposed` was set when it was
pushed. `Quantum` adds the ticks that are left before the count of work meets the
priority again, over the wrap of `work`.

`FatFileProofs` proves for every disk with sound chains, every set of files and objects,
and sizes of clusters, sectors and transfers:

- `SizesTheorem`, `PositionsTheorem`, `DirectoryTheorem`, `OthersTheorem`: the
  properties of run `fat`;
- `FatImplementsByteFile`: every step is a step of `ByteFile` or a stutter, if the
  watched file has a first cluster, a chain that comes to its end mark, and no cluster
  of another file (`Good`). Without these the code itself does not keep the promise.

The loops of `read` and `write` look at the chain only where a cluster starts; the
lemma `RoomFacts` shows that they are stopped where the chain stops and nowhere
else. `SizesTheorem` alone is not inductive, since that stop knows nothing of the exception
for files without clusters; `SizeInReach`, the bound that the loops keep, is, together with
the types, `PositionInFile` and `SizeOnDisk`, and gives it, because `Reach` and `Capacity`
differ for such files only (`ReachFacts`). The refinement also
needs that each byte has a place of its own: a chain that leads to its end has no cluster
twice (`ChainDistinct`), since the FAT gives each cluster one successor, so that a
repeated one would come back for ever. `RInv` adds that on a calm disk one object is
open, with the directory's size.

`TcpSocketProofs` proves for every number of peers, sockets and payloads, and every
length of the queue:

- `ShapeTheorem`: types, and what the program's locals are at each of its places;
- `EndsTheorem`, `StreamTheorem`, `OnePerPeerTheorem`, `NoDanglingTheorem`,
  `AcceptedOnceTheorem`, `DiagramTheorem`: the properties of run `tcp`.

`Shape` stands alone. `Ends` adds what a segment on its way says about its sender, in
every network; `EndsAgree` and `FollowsDiagram` follow. On a network that keeps order,
`Begins` says that a peer's connection request finds no trace of it, and `Flows`
that the payloads are one stream: for some `k` the first `k` arrived, those after
it are in the network in order, and a FIN counts once it arrived. What a program
reads is a prefix of that. `Owned` has the ownership of sockets:
the table is without duplicates by peer, by number and by object (`TableDistinct`); who
is on the pending list was not accepted (`TakenOnce`); the program knows the one
listening socket (`Buried`); and what the program is at work on is in the table, up to
the step of `remove_socket` that takes it out (`AtPlace`). All of it
is claimed only until the handler appends to a vector that the program is shrinking
(`raced`), because the code does nothing to prevent that and the run shows what
follows. Each part rests on the others: a deleted socket is not found because it is not
in the table, it is not in the table because the program deletes only what it
accepted, and it accepts each socket once because the table has one for each peer.

`XhciProofs` proves of `XhciEvents` for rings of every size and any number of commands,
transfers, reports and port changes:

- `TypeTheorem`; `AnswerIsMineTheorem`, `AnswersOnceTheorem`, `OwnDataTheorem`,
  `ReportsKeptTheorem`: the invariants of run `xhci_events`.

`TypeOK`, `Rings`, `Addressed` and `Transfers` hold always. `Rings` says of the rings of
commands and of transfers, through their cycle bits, which slots are still to be taken.
`Addressed`: the ring of transfers is begun anew once. `Transfers` carries `OwnData`: the
TRB written last is that of the transfer asked last (`LastSlot`); the controller takes
what is on the ring in order, whatever was overwritten, so when nothing is pending that
one was served last, and the buffer holds its answer. That there is more on the
ring than that one TRB needs a transfer given up before (`slow`) or the ring begun anew, and
only while the first transfer after that is in progress (`Alone`). `EventRing`,
`Readers`, `Answers`, `Mine` and `Reports` hold as long as the state is `Sound`.
`EventRing` says which slots of the event ring are unread, and where ERDP is, except
once the thread has put an old one back (`behind`): then the controller may take unread
slots for free ones only where `lapped` is set. The rings are compared by the order in which
their slots were written: `Before` puts the events that were read before those that
were not, and `Ahead` lists the TRBs that the controller has yet to take, even where
the driver wrote over some of them, since it never asks whether a ring is full.
`Readers` says who holds which event, and that nobody holds another's; `Answers`
that completions come in the order of the ring and before everything that is ahead;
`Mine` that until a command is given up only the one in progress has an event or a
TRB; `Reports` that of a report that was posted there is one event, in one place, or a
flush dropped it. What made them inductive is a bound on the answers by what was
sent.

`NetworkProofs` proves for every number of peers, ports and frames, and every size of the
receive ring, of the transmit slots and of a socket's queue:

- `InvariantTheorem`; `AddressesFreshTheorem`, `DatagramsOwnedTheorem`: the invariants of
  run `network`;
- `SentInOrderTheorem`: the half of `Sent` that is safety.

All three are rings whose indices are compared by their distance from where the reader
is (`Dist`, the remainder that the code takes). For the receive ring the invariant names
the set `U` of the offsets of unread headers: each frame ends where the next begins,
the last one where the card stores next, and no two overlap (`Ring`). The frames have
different lengths, so `U` cannot be computed from the two pointers; it is a witness, to
which the card adds and the driver takes away. Over `U`, `Heard` says that what is
wrong in the cache will be put right by an unread frame, and an unread frame that is
out of date by a later one; `Datagrams` that the unread datagrams are numbered in order and
above those received. `Queues` has where those are: in one socket's queue, in order,
or returned, before everything that the queue still holds. `Sending` has the
number of each unsent frame by its distance from the card's slot. The modulus of
the definitions is replaced by a comparison once, in `Turns` and `Wraps`, because the
provers do not reason about remainders with a variable divisor.

`FileTableProofs` proves of `Mount` for every disk, any number of partitions and
whichever reads fail:

- `MountsLiveTheorem`: the invariant `MountsLive` of run `mount`;
- `OpensNamedTheorem`: its invariant `OpensNamed`, for directories and names of any length.

The root is mounted with the first file system in a block for one; the vector has room
for its elements and no more than one for one (`Room`), so the block is the present one
just as long as there is no second file system. No assumption about the disk is
used for this one.

`OpensNamed` compares a fold over what is stored with the directory it was stored from, so
its proof is an induction over the directory. The library's induction takes a predicate,
which none of the provers can instantiate; lemma `UpTo` says the same of a set of numbers,
and each induction defines its set: of the prefixes of the stored records that are the
records of the first files (`StoredFacts`), of the pieces of a name that have been written
(`WrittenFacts`), of the files before which the buffer is as described (`LeftFacts`).
That a recursive function exists at all is one more (`RecursionExists`), for the library's
`FlattenSeq` and for `LongName`. The description of the buffer is `Left`: its first
piece is used only if a directory with a long name came before and nothing but
directories since, and a later piece only if a file before had a name as long. So a
file's name is read back unless the file is one of those that `Misread` names
(`ReadFacts`), and these are all: the scan finds the first file of that name, or a misread
one before it (`LookupFacts`). The rest is the mount table: `OpenInv` adds to
`MountsInv` that `/dev` is mounted once the machine has booted and refers to the device file
system (`BestFacts`, `OpenKeeps`). The assumption used is `DiskAssumption`: names are full
pieces and a last one, and a NUL is not one of the pieces.

Four of the modules need a least element of a set of numbers, for which the library
offers induction over a predicate. Lemma `Least` (`LeastElement`) takes it from the
well-founded order of finite sets by inclusion instead, which is a plain fact.

Only model-checked: liveness. `RunsAgain`, `Recovers`, `EventsRead`, `Resolves` and the
second half of `Sent` need fairness and `ENABLED`, and stay with TLC.

## 5. Findings

- **`scheduler_boot`**: a thread that returns from its function runs
  `exit_current` in ring 3. After `tss.rsp0` is set to the next thread's stack, an
  interrupt pushes its frame over the registers that the next thread's suspended
  system call saved there, against the comment in `syscall.asm:25-26`.
- **`files_close`**: `vector::erase` destroys an element and then assigns to it; with
  `unique_ptr` this deletes twice. Closing a file that is not the last one opened
  deletes its `FAT32File` twice, which `heap.cpp:55-57` reports, and goes on.

The models also show things for which there is no document to hold against the code.
They are the provisos of the properties.

- Threads: a thread exiting from ring 3 to one that waits in a system call halts the
  machine (`StopsKnown`); the first quantum after an exit may last 256 ticks
  (`QuantumBound`).
- TCP: `swap_remove` deletes twice as `erase` does, when `server->close()` follows a
  connection; the handler writes through a null pointer when the socket numbers run out
  (`ReceiveSyn`); a payload that finds the queue full is acknowledged and lost
  (`StreamIntact`); a connection that arrives inside `accept` may be popped and
  forgotten (`AcceptedOnce`).
- Network: the first datagram to an unknown address is dropped (`Sendto`); the buffers
  of datagrams without a socket or room leak (`DatagramsOwned`); a fifth frame
  overwrites an unsent one (`Sent`).
- Files: a write to an empty file goes to LBA 0, where the partition table is
  (`OthersUntouched` excuses it through `Boot`); it and `truncate` give a file without
  clusters a size that nothing holds (`SizeFitsChain`); two objects of one file overwrite
  each other's size (`SizeOnDisk`); after `truncate` or a
  write that was cut the position may be behind the end (`PositionInFile`).
- Mount: a directory's long name, or a full last piece, stays in the buffer and gives
  the next file a wrong name (`OpensNamed`, through `Misread`); a file without a
  long name cannot be opened by name, and `/` opens the first of them; entries beyond the
  root directory's first cluster are not seen; with a second FAT32 partition the
  mount table points to memory that was given back (`MountsLive`).
- AHCI: -1 for "no slot" is never recognised (`NoStray`); clearing the interrupt
  registers can lose an error and leave the port halted (`Recovers`).
- xHCI: control transfers succeed whatever happened, so after one that was given up a
  later one may copy another's answer while its own is still to come (`OwnData`, through
  `slow`); the second Address Device of an enumeration lets the controller serve the first
  requests again, and the next transfer may copy those answers (`OwnData`, through `again`);
  a late completion is taken for the next command's, and may give a device the slot of
  another (`PortsFollowed` and `SlotsMatch`, through `ousted`, `stray` and `mixups`);
  the thread can put an older ERDP back over the handler's, after which the busy bit stays
  set and no event raises an interrupt until the thread reads the ring again (`EventsRead`,
  through `behind`); the flush drops reports, after which the keyboard is silent, and port changes (`ReportsKept`,
  `PortsFollowed`); the handler can clear an interrupt it has not served
  (`EventsRead`); a change that comes during a reset or a deletion is lost
  (`PortsFollowed`).

## 6. Not modelled

- USB keyboard and mouse, PS/2 and the keyboard buffer: the translation of reports and
  scan codes is tables; the ring behind them is one reader and pushes that interrupts
  cannot interrupt.
- The interrupt table, paging, segments, boot, PCI, ACPI glue, clocks: filled in by one
  straight path at boot, or register I/O without state of interest.
- Display, fonts, OpenPL, MyCraft, text and mathematics: pixels, floating point and
  formatting. The vendored boot header.
- `memcpy` and the like, and `hash_map`, which only the game uses.

`PROJECT.json` lists every component with its reason. More than a third of the source
lines are data and declarations: glyphs, constants, layouts of registers, TRBs and
headers, and conversion tables; they have no behaviour to model.

Abstracted in what is modelled: the bytes of objects, frames, segments, descriptors and
registers; ports, checksums and windows of TCP; failing allocations outside the heap. An
interrupt inside `malloc` or `free` breaks the block list within a few steps, since
neither is written for it; every module takes allocation as one step, and there is
nothing left to state if it is not. Payloads of 1473 to 1500 bytes, which `send` drops,
frames that the card marks as bad, enumeration's reading of descriptors, short names,
`stat` and `list` of directories are left out, and `connect` and `send` of UDP sockets,
which nothing calls.

## 7. Plan

Done: all modules of section 2, with theorems about each; every safety property of the
passing runs is proved. Next:

1. Bounds: which of the history variables in provisos (`raced`, `exposed`, `stale`) can be
   replaced by conditions on the state alone, so that the theorems say more.
