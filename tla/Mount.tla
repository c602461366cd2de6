------------------------------- MODULE Mount --------------------------------
(***************************************************************************)
(* From the disk to an open file: the partition table                      *)
(* (partition_manager.cpp), the FAT32 file systems on it (fat32.cpp), the  *)
(* mount table (FileDescriptor.cpp) and the scan of the root directory for *)
(* a long name (FAT32FileSystem.cpp).                                      *)
(*                                                                         *)
(* A long name is stored in pieces of 13 characters, one per directory     *)
(* entry, the last one first.  A piece is full or ends with a NUL, and     *)
(* nothing else about it matters: open compares whole names.  All file     *)
(* systems of a disk have the same directory.                              *)
(*                                                                         *)
(* No name is also in FileTable, the table of what is open, so that a      *)
(* module can extend both.                                                 *)
(***************************************************************************)
EXTENDS Integers, SequencesExt

CONSTANTS
  Full, Short, \* pieces of 13 characters, and those that end with a NUL
  MaxPieces,   \* the most pieces of a name
  Entries,     \* directory entries in the cluster that open reads
  DeviceNames, \* names of devices: system.cpp registers "stdout", "stdin"
  Disks        \* disks: is its GPT valid, its partition table, a directory

Nul == "nul"
Names == UNION {{Append(front, piece) : front \in [1 .. n - 1 -> Full],
                                        piece \in Full \cup Short}
                  : n \in 1 .. MaxPieces}
Dev == <<"dev">>

\* Paths as sequences of components.
Paths == {<<>>, <<Dev>>}
           \cup {<<n>> : n \in Names}
           \cup {<<Dev, n>> : n \in Names \cup DeviceNames}

\* A file of a directory, by its long name, <<>> if it has none.
File == [name : Names \cup {<<>>}, kind : {"file", "dir", "label", "deleted"}]
Partition == {"fat", "other", "blank"}

ASSUME DiskAssumption ==
  /\ MaxPieces \in Nat \ {0} /\ Entries \in Nat
  /\ Nul \notin Full \cup Short
  /\ \A d \in Disks : /\ d.gpt \in BOOLEAN
                      /\ d.table \in Seq(Partition)
                      /\ d.dir \in Seq(File)

\* A pointer to a file system: the block of memory and the index in it.
DevFs == [block |-> 0, index |-> 0]
\* Answers of open: a file of a partition, a device, or
Nothing == <<>>
Error == <<"error">>

VARIABLES
  disk,       \* what the machine boots from
  at,         \* the step of the boot, or "ready"
  partitions, \* partition_manager::partitions
  systems,    \* fat32_manager::fatfile_systems: partitions, by number
  capacity,   \* of that vector, and so the name of the block its elements are in
  mounts,     \* VFS::mounts: paths and pointers to file systems
  last        \* history: the last open and its answer

mountVars == <<disk, at, partitions, systems, capacity, mounts, last>>

\* The definitions named Mut... are mutants of the code, for the runs' sensitivity.

\* vector::push_back moves the elements to a new block when there is no room.
Grown == IF Len(systems) = capacity THEN (IF capacity = 0 THEN 1 ELSE 2 * capacity) ELSE capacity
Back(s, c) == [block |-> c, index |-> Len(s)]
Alive(p)   == p.block = capacity

-----------------------------------------------------------------------------
(* The boot.  partition_manager::init reads the header and the entries.    *)
MountInit ==
  /\ disk \in Disks
  /\ at = "header"
  /\ partitions = <<>> /\ systems = <<>> /\ capacity = 0 /\ mounts = <<>>
  /\ last = [path |-> <<>>, to |-> Nothing]

Usable(entry) == entry # "blank"

ReadHeader ==
  /\ at = "header"
  /\ \/ disk.gpt /\ at' = "entries"
     \/ at' = "devices"                           \* not a GPT, or the read failed
  /\ UNCHANGED <<disk, partitions, systems, capacity, mounts, last>>

ReadEntries ==
  /\ at = "entries"
  /\ \/ partitions' = SelectSeq(disk.table, Usable) /\ at' = "probe"
     \/ UNCHANGED partitions /\ at' = "devices"   \* the read failed
  /\ UNCHANGED <<disk, systems, capacity, mounts, last>>

\* VFS::mount.
MutMounted(path, fs) == Append(mounts, [path |-> path, fs |-> fs])
Mounted(path, fs) ==
  IF \E i \in DOMAIN mounts : mounts[i].path = path THEN mounts
  ELSE Append(mounts, [path |-> path, fs |-> fs])

\* fat32_manager::init: the next partition is FAT32, or it is not, or its first
\* sector cannot be read.
Probe ==
  /\ at = "probe" /\ partitions # <<>>
  /\ partitions' = Tail(partitions)
  /\ \/ /\ Head(partitions) = "fat"
        /\ systems' = Append(systems, Len(disk.table) - Len(partitions) + 1)
        /\ capacity' = Grown
        /\ mounts' = Mounted(<<>>, Back(systems', capacity'))
     \/ UNCHANGED <<systems, capacity, mounts>>
  /\ UNCHANGED <<disk, at, last>>

Probed ==
  /\ at = "probe" /\ partitions = <<>>
  /\ at' = "devices"
  /\ UNCHANGED <<disk, partitions, systems, capacity, mounts, last>>

RegisterDevices ==
  /\ at = "devices"
  /\ mounts' = Mounted(<<Dev>>, DevFs)
  /\ at' = "ready"
  /\ UNCHANGED <<disk, partitions, systems, capacity, last>>

-----------------------------------------------------------------------------
(* The directory as it is stored, one record for each 32 bytes.            *)
Records(i) ==
  LET f == disk.dir[i]
      n == Len(f.name)
      long(k) == [kind |-> "long", order |-> n + 1 - k, piece |-> f.name[n + 1 - k]]
      all == [k \in 1 .. n |-> long(k)] \o <<[kind |-> f.kind, file |-> i]>>
  IN  IF f.kind = "deleted" THEN [k \in DOMAIN all |-> [kind |-> "deleted"]] ELSE all

Stored == FlattenSeq([i \in DOMAIN disk.dir |-> Records(i)])
Cluster == SubSeq(Stored, 1, IF Len(Stored) < Entries THEN Len(Stored) ELSE Entries)

\* long_name as a string, up to its first NUL.
Text(buffer) ==
  LET ends == {k \in 1 .. MaxPieces : buffer[k] \notin Full}
      k == IF ends = {} THEN MaxPieces
           ELSE CHOOSE e \in ends : \A f \in ends : e <= f
  IN  [i \in 1 .. IF buffer[k] = Nul THEN k - 1 ELSE k |-> buffer[i]]

MutAfter(buffer, r) ==                            \* never cleared
  IF r.kind = "long" THEN [buffer EXCEPT ![r.order] = r.piece] ELSE buffer
\* long_name after a record that is not the one looked for.
After(buffer, r) ==
  CASE r.kind = "long"              -> [buffer EXCEPT ![r.order] = r.piece]
    [] r.kind \in {"deleted", "dir"} -> buffer
    [] OTHER                        -> [buffer EXCEPT ![1] = Nul]

\* long_name before each record.
LongName ==
  LET long[i \in 1 .. Len(Cluster) + 1] ==
        IF i = 1 THEN [k \in 1 .. MaxPieces |-> Nul] ELSE After(long[i - 1], Cluster[i - 1])
  IN  long

\* FAT32FileSystem::open: the file of the first record that matches, if any.
Lookup(name) ==
  LET hits == {i \in DOMAIN Cluster :
                 Cluster[i].kind = "file" /\ Text(LongName[i]) = name}
  IN  IF hits = {} THEN {}
      ELSE {Cluster[CHOOSE i \in hits : \A j \in hits : i <= j].file}

-----------------------------------------------------------------------------
(* VFS::open: the longest mounted path that is a prefix, in whole          *)
(* components, gets what follows it.                                       *)
Matching(path) == {i \in DOMAIN mounts : IsPrefix(mounts[i].path, path)}
Best(path) ==
  CHOOSE i \in Matching(path) :
    \A j \in Matching(path) : Len(mounts[j].path) <= Len(mounts[i].path)
Rest(path) == SubSeq(path, Len(mounts[Best(path)].path) + 1, Len(path))

Answer(path, to) == last' = [path |-> path, to |-> to]

OpenNowhere(path) == Matching(path) = {} /\ Answer(path, Nothing) /\ UNCHANGED at

LookupDevice(path) ==
  /\ Matching(path) # {} /\ mounts[Best(path)].fs = DevFs
  /\ Answer(path, IF Len(Rest(path)) = 1 /\ Rest(path)[1] \in DeviceNames
                  THEN Rest(path)[1] ELSE Nothing)
  /\ UNCHANGED at

LookupFile(path) ==
  /\ Matching(path) # {} /\ mounts[Best(path)].fs # DevFs
  /\ LET fs == mounts[Best(path)].fs
         name == IF Rest(path) = <<>> THEN <<>> ELSE Rest(path)[1]
         files == IF Len(Rest(path)) <= 1 THEN Lookup(name) ELSE {}
     IN  IF ~ Alive(fs) THEN Answer(path, Nothing) /\ at' = "wild"
         ELSE /\ \/ \E i \in files : Answer(path, <<systems[fs.index], i>>)
                 \/ files = {} /\ Answer(path, Nothing)
                 \/ Answer(path, Error)         \* the cluster cannot be read
              /\ UNCHANGED at

Open ==
  /\ at = "ready"
  /\ \E path \in Paths : OpenNowhere(path) \/ LookupDevice(path) \/ LookupFile(path)
  /\ UNCHANGED <<disk, partitions, systems, capacity, mounts>>

MountNext == ReadHeader \/ ReadEntries \/ Probe \/ Probed \/ RegisterDevices \/ Open

MountSpec == MountInit /\ [][MountNext]_mountVars

-----------------------------------------------------------------------------
Visible(i) == Len(FlattenSeq([k \in 1 .. i |-> Records(k)])) <= Entries

\* The scan takes a file for another one in two ways: a directory leaves its
\* name in the buffer for a file without a long name, and a name whose last
\* piece is full (13, 26, ... characters) is not terminated, so that what an
\* earlier, longer name left behind it is read as its end.
Before(i) == {j \in 1 .. i - 1 : disk.dir[j].kind # "deleted"}
Misread(i) ==
  LET name == disk.dir[i].name
  IN  \/ name = <<>> /\ \E j \in Before(i) :
           /\ disk.dir[j].kind = "dir" /\ disk.dir[j].name # <<>>
           /\ \A k \in Before(i) : k > j => disk.dir[k].kind = "dir"
      \/ /\ name # <<>> /\ Last(name) \in Full
         /\ \E j \in Before(i) : Len(disk.dir[j].name) > Len(name)

\* What an open answers is what was asked for: a device whatever the disk
\* holds; the file of that name, in the first FAT32 file system found, or
\* nothing when the part of the directory that is read has none.  Files that
\* are misread are excused, and only those.  A file without a long name has no
\* name to open it by; "/", which opens the first such file, is left out.
IsFile(i, name) == disk.dir[i].kind = "file" /\ disk.dir[i].name = name
OpensNamed ==
  at = "ready" /\ last.path # <<>> =>
    IF last.path[1] = Dev
    THEN last.to = IF Len(last.path) = 2 /\ last.path[2] \in DeviceNames
                   THEN last.path[2] ELSE Nothing
    ELSE IF systems = <<>> THEN last.to = Nothing
    ELSE \/ last.to = Error
         \/ /\ last.to = Nothing
            /\ \A i \in DOMAIN disk.dir : IsFile(i, last.path[1]) /\ Visible(i) => Misread(i)
         \/ \E i \in DOMAIN disk.dir :
              last.to = <<systems[1], i>> /\ (IsFile(i, last.path[1]) \/ Misread(i))

\* Each mounted file system exists, the first FAT32 partition that could be
\* read is mounted as "/", and paths differ; but with a second FAT32 partition
\* fatfile_systems moves, and "/" refers to where it was.
MountsLive ==
  /\ \A i, j \in DOMAIN mounts : mounts[i].path = mounts[j].path => i = j
  /\ at = "ready" => (systems # <<>> <=> \E i \in DOMAIN mounts : mounts[i].path = <<>>)
  /\ \A i \in DOMAIN mounts :
       mounts[i].path = <<>> =>
         mounts[i].fs.index = 1 /\ (Alive(mounts[i].fs) <=> Len(systems) = 1)
=============================================================================
