----------------------------- MODULE FileTable ------------------------------
(***************************************************************************)
(* Descriptors, open files and file objects: the file calls (ksyscall.cpp),*)
(* the descriptor half of Process_manager.cpp, and who owns a FAT32File    *)
(* (FAT32FileSystem.cpp).  What reading and writing do is the subject of   *)
(* FatFile.                                                                *)
(*                                                                         *)
(* The calls are those of the one thread that runs programs, in the steps  *)
(* in which they take and give back things.  Memory does not run out; an   *)
(* address is used again once it is free.                                  *)
(***************************************************************************)
EXTENDS Integers, FiniteSets, SequencesExt

CONSTANTS
  Devices,  \* the objects under /dev: one each, for all who open it
  MaxFds    \* 64: descriptors of a thread

ASSUME MaxFdsAssumption == MaxFds \in Nat \ {0}

Fds     == 0 .. MaxFds - 1
Address == 1 .. MaxFds + 1  \* one more than descriptors can name
None    == 0

ASSUME DevicesAssumption == Devices \cap Address = {}

Idle    == [at |-> "idle"]
Free    == [ref_count |-> 0]

VARIABLES
  fd_table, \* fd_table[d]: address of the OpenFile of descriptor d, or None
  open,     \* open[a]: the OpenFile at address a, or Free
  files,    \* FAT32FileSystem::files: what each unique_ptr points to
  alive,    \* addresses of the FAT32Files that exist
  call,     \* the call in progress and what it holds
  twice     \* history: an object was deleted a second time

objects == <<files, alive, twice>>
vars    == <<fd_table, open, objects, call>>

\* The definitions named Mut... are mutants of the code, for the runs' sensitivity.

-----------------------------------------------------------------------------
FreshObject == CHOOSE a \in Address : a \notin alive
FreshOpen   == CHOOSE a \in Address : open[a] = Free
FreeFds     == {d \in Fds : fd_table[d] = None}

\* VFS::open, to a device or to the FAT's open, which makes a new object.
OpenDevice(o) == o \in Devices /\ UNCHANGED objects
OpenFile(o) ==
  /\ o = FreshObject
  /\ files' = Append(files, o)
  /\ alive' = alive \cup {o}
  /\ UNCHANGED twice

\* vector::erase of a unique_ptr: its destructor deletes the object and keeps
\* the pointer, so that moving the next element there deletes it again.  free()
\* reports this and merges the block once more, which may spoil the heap's list;
\* here the calls go on as if it had only reported.
Erase(i) == /\ files' = RemoveAt(files, i)
            /\ alive' = alive \ {files[i]}
            /\ twice' = (twice \/ i < Len(files))

\* FileObject::close: devices have none of their own.
CloseObject(o) ==
  \/ o \in Devices /\ UNCHANGED objects
  \/ \E i \in DOMAIN files : files[i] = o /\ Erase(i)

\* release_open_file
Release(a) ==
  /\ open' = [open EXCEPT ![a] = IF @.ref_count > 1
                                   THEN [@ EXCEPT !.ref_count = @ - 1] ELSE Free]
  /\ IF open[a].ref_count > 1 THEN UNCHANGED objects
                              ELSE CloseObject(open[a].object)

-----------------------------------------------------------------------------
\* kopen, kstat, klstat: the object first.
Begin(step) ==
  /\ call = Idle
  /\ \E o \in Devices \cup Address :
       /\ OpenDevice(o) \/ OpenFile(o)
       /\ call' = [at |-> step, object |-> o]
  /\ UNCHANGED <<fd_table, open>>
KopenObject == Begin("create")
KstatObject == Begin("stat")

\* create_open_file
KopenCreate ==
  /\ call.at = "create"
  /\ open' = [open EXCEPT ![FreshOpen] = [object |-> call.object, ref_count |-> 1]]
  /\ call' = [at |-> "fd", file |-> FreshOpen]
  /\ UNCHANGED <<fd_table, objects>>

\* alloc_fd
KopenFd ==
  /\ call.at = "fd"
  /\ \E d \in FreeFds :
       /\ \A e \in FreeFds : d <= e
       /\ fd_table' = [fd_table EXCEPT ![d] = call.file]
  /\ call' = Idle
  /\ UNCHANGED <<open, objects>>

MutKopenFull ==  \* the object is left behind
  /\ call.at = "fd" /\ FreeFds = {}
  /\ open' = [open EXCEPT ![call.file] = Free]
  /\ call' = Idle
  /\ UNCHANGED <<fd_table, objects>>
KopenFull ==
  /\ call.at = "fd" /\ FreeFds = {}
  /\ Release(call.file)
  /\ call' = Idle
  /\ UNCHANGED fd_table

KstatClose ==
  /\ call.at = "stat"
  /\ CloseObject(call.object)
  /\ call' = Idle
  /\ UNCHANGED <<fd_table, open>>

\* kclose: release_fd, then release_open_file.
MutKclose(d) ==  \* the descriptor keeps its entry
  /\ call = Idle /\ fd_table[d] # None
  /\ call' = [at |-> "release", file |-> fd_table[d]]
  /\ UNCHANGED <<fd_table, open, objects>>
Kclose(d) ==
  /\ call = Idle /\ fd_table[d] # None
  /\ fd_table' = [fd_table EXCEPT ![d] = None]
  /\ call' = [at |-> "release", file |-> fd_table[d]]
  /\ UNCHANGED <<open, objects>>

KcloseFile ==
  /\ call.at = "release"
  /\ Release(call.file)
  /\ call' = Idle
  /\ UNCHANGED fd_table

Init ==
  /\ fd_table = [d \in Fds |-> None]
  /\ open = [a \in Address |-> Free]
  /\ files = <<>> /\ alive = {} /\ twice = FALSE
  /\ call = Idle

Next == \/ KopenObject \/ KopenCreate \/ KopenFd \/ KopenFull
        \/ KstatObject \/ KstatClose
        \/ \E d \in Fds : Kclose(d)
        \/ KcloseFile

Spec == Init /\ [][Next]_vars

-----------------------------------------------------------------------------
TypeOK ==
  /\ fd_table \in [Fds -> Address \cup {None}]
  /\ open \in [Address -> {Free} \cup [object : Devices \cup Address, ref_count : {1}]]
  /\ files \in Seq(Address)
  /\ alive \subseteq Address
  /\ \/ call = Idle
     \/ \E o \in Devices \cup Address, step \in {"create", "stat"} :
          call = [at |-> step, object |-> o]
     \/ \E a \in Address, step \in {"fd", "release"} : call = [at |-> step, file |-> a]
  /\ twice \in BOOLEAN

InUse    == {a \in Address : open[a] # Free}
HeldFile == IF call.at \in {"fd", "release"} THEN {call.file} ELSE {}
HeldObject == IF call.at \in {"create", "stat"} THEN {call.object} ELSE {}

\* Every open file has exactly one owner, a descriptor or the call that is
\* working on it, on all paths through the calls; nothing refers to one that
\* was released.
FilesOwned ==
  /\ \A d, e \in Fds : fd_table[d] = fd_table[e] /\ d # e => fd_table[d] = None
  /\ InUse = ({fd_table[d] : d \in Fds} \ {None}) \cup HeldFile
  /\ \A d \in Fds : fd_table[d] \notin HeldFile

\* The file system keeps exactly the objects that an open file or a call
\* refers to, each once, and they exist: none leaks, none is used after its
\* deletion, and no two open files, or an open file and a call, share one.
ObjectsOwned ==
  /\ ToSet(files) = alive
  /\ IsInjective(files)
  /\ alive = ({open[a].object : a \in InUse} \cup HeldObject) \ Devices
  /\ \A a, b \in InUse : open[a].object = open[b].object /\ a # b =>
                           open[a].object \in Devices
  /\ \A a \in InUse : open[a].object \in HeldObject => open[a].object \in Devices

\* A block of memory is freed once (heap.cpp:55).
NoDoubleFree == ~twice
=============================================================================
