------------------------------- MODULE FatFile ------------------------------
(***************************************************************************)
(* Open files of the FAT32 driver (FAT32File.cpp) and the disk under them. *)
(*                                                                         *)
(* A program's calls run one after the other: there is one user thread.    *)
(* Each is one action; on a disk with errors it may stop at any access.    *)
(* The file allocation table does not change, since nothing calls          *)
(* find_free_cluster or set_next_cluster: a file keeps the clusters it     *)
(* has.  Clusters are named by their number; the cluster-sized piece of    *)
(* the disk at LBA 0, which holds the partition table, goes by number 0:   *)
(* calculate_lba puts all clusters below 2 there.                          *)
(***************************************************************************)
EXTENDS Integers, FiniteSetsExt, Sequences

CONSTANTS
  Handles,      \* FAT32File objects
  Files,        \* directory entries
  First,        \* First[f]: first cluster of f, 0 if it has none
  Fat,          \* Fat[c]: the cluster after c, End or Bad
  Chain,        \* Chain[f]: f's clusters, as the links give them from the first on
  ClusterBytes, SectorBytes,
  Byte,         \* values of a byte
  Zero,         \* what the files hold at first
  Watched,      \* the file whose calls' results are kept, if any
  MaxIo         \* bound: bytes per call

Boot == 0   \* the piece of the disk at LBA 0
End  == -1  \* after the last cluster
Bad  == -2  \* get_next_cluster fails
Clusters == DOMAIN Fat
Link(c)  == IF c = Boot THEN Bad ELSE Fat[c]  \* no cluster below 2 has a link

ASSUME FatAssumption ==
  /\ Clusters \subseteq Nat \ {0, 1}
  /\ Fat \in [Clusters -> Clusters \cup {End, Bad}]
  /\ First \in [Files -> Clusters \cup {Boot}]
  /\ ClusterBytes \in Nat \ {0} /\ SectorBytes \in Nat \ {0}
  /\ ClusterBytes % SectorBytes = 0
  /\ MaxIo \in Nat /\ Zero \in Byte

\* Every chain comes to an end: the links of the disk make no circle.
ASSUME ChainAssumption ==
  /\ Chain \in [Files -> Seq(Clusters \cup {Boot})]
  /\ \A f \in Files :
       /\ Chain[f] # <<>> /\ Chain[f][1] = First[f]
       /\ \A i \in 1 .. Len(Chain[f]) - 1 : Chain[f][i + 1] = Link(Chain[f][i])
       /\ Link(Chain[f][Len(Chain[f])]) \in {End, Bad}

VARIABLES
  data,   \* data[c][o]: byte o of cluster c
  entry,  \* entry[f]: file_size in f's directory entry on the disk
  obj,    \* obj[h]: a FAT32File, or Closed
  calm,   \* whether the disk never fails and one object at a time is open
  result, \* when calm, the last call on Watched: <<what it returned, bytes it read>>
  stale,  \* history: handles whose size is not the one on the disk, by a
          \* failed write of the entry or another handle's
  past    \* history: handles that were truncated, or whose write was cut

disk == <<data, entry>>
hist == <<calm, stale, past>>
vars == <<disk, obj, result, hist>>

\* The cluster that i links lead to from f's first; End and Bad are final.
Walk(f, i) == IF i < Len(Chain[f]) THEN Chain[f][i + 1] ELSE Link(Chain[f][Len(Chain[f])])

\* How far write gets in f: to the end of the chain, or of the piece at LBA 0.
Reach == [f \in Files |-> ClusterBytes * Len(Chain[f])]
\* The bytes that f's clusters hold; a file that has none holds none.
Capacity == [f \in Files |-> IF First[f] = Boot THEN 0 ELSE Reach[f]]

Closed   == [file |-> "none"]
IsOpen(h) == obj[h] # Closed
Offsets  == 0 .. ClusterBytes - 1
Failures == IF calm THEN {FALSE} ELSE BOOLEAN
\* Which bytes are written matters to the properties of a calm disk only.
Strings  == UNION {[1 .. n -> IF calm THEN Byte ELSE {Zero}] : n \in 0 .. MaxIo}

-----------------------------------------------------------------------------
MutAt(h, n) ==  \* the loop does not notice the end of the chain: cluster 0
  LET c == Walk(obj[h].file, (obj[h].pos + n) \div ClusterBytes)
  IN IF c = End THEN Boot ELSE c
At(h, n)  == Walk(obj[h].file, (obj[h].pos + n) \div ClusterBytes)
Place(h, n) == (obj[h].pos + n) % ClusterBytes

\* The definitions named Mut... are mutants of the code, for the runs' sensitivity.

\* Both loops go from chunk to chunk: a new one starts at every cluster.
Starts(h, n) == {0} \cup {w \in 1 .. n - 1 : Place(h, w) = 0}
\* How far a transfer of n bytes gets before the chain stops it.
Room(h, n) == Min({n} \cup {w \in Starts(h, n) : At(h, w) \in {End, Bad}})
\* The chunk that starts after w bytes.
Chunk(h, n, w) == Min({n - w, ClusterBytes - Place(h, w)})
\* After a failing access: <<bytes of whole chunks, bytes on the disk>>.
Cuts(h, n) ==
  {cut \in Starts(h, n) \X (0 .. n) :
     LET w == cut[1] k == cut[2]
     IN /\ w <= Room(h, n)
        /\ \/ k = w
           \/ /\ w < Room(h, n)
              /\ w < k /\ k < w + Chunk(h, n, w)
              /\ (obj[h].pos + k) % SectorBytes = 0}

\* The disk after the first k bytes of s were written.
Stored(h, s, k) ==
  [c \in DOMAIN data |-> [o \in Offsets |->
     LET here == {w \in 0 .. k - 1 : At(h, w) = c /\ Place(h, w) = o}
     IN IF here = {} THEN data[c][o] ELSE s[(CHOOSE w \in here : TRUE) + 1]]]

Answer(h, r)   == result' = IF calm /\ obj[h].file = Watched THEN r ELSE result
Return(h, n)   == Answer(h, <<n, <<>>>>)
Deliver(h, s)  == Answer(h, <<Len(s), s>>)
Move(h, n)   == obj' = [obj EXCEPT ![h].pos = @ + n]

\* update_file_entry, of the object o that h is to become.
Others(h) == {g \in Handles \ {h} : IsOpen(g) /\ obj[g].file = obj[h].file}
EntryWritten(h, size) ==
  /\ entry' = [entry EXCEPT ![obj[h].file] = size]
  /\ calm' = calm
  /\ stale' = (stale \ {h}) \cup Others(h)

-----------------------------------------------------------------------------
Open(h, f) ==
  /\ ~IsOpen(h)
  /\ \A g \in Handles : IsOpen(g) => obj[g].file = f /\ ~calm
  /\ obj' = [obj EXCEPT ![h] = [file |-> f, size |-> entry[f], pos |-> 0]]
  /\ UNCHANGED <<disk, result, hist>>

Close(h) ==
  /\ IsOpen(h)
  /\ obj' = [obj EXCEPT ![h] = Closed]
  /\ stale' = stale \ {h}
  /\ past' = past \ {h}
  /\ UNCHANGED <<disk, calm, result>>

\* A call that returns -1 and changes nothing.
Fail(h) == Return(h, -1) /\ UNCHANGED <<disk, obj, hist>>

\* The walk to the position's cluster meets the end, a bad link or an error.
WalkFails(h) ==
  /\ obj[h].pos >= ClusterBytes
  /\ ~calm \/ At(h, 0) \in {End, Bad}

WriteNone(h) == Return(h, 0) /\ UNCHANGED <<disk, obj, hist>>

MutWriteAll(h, s) ==  \* the directory entry is not written
  LET end == obj[h].pos + Len(s)
  IN /\ Room(h, Len(s)) = Len(s)
     /\ data' = Stored(h, s, Len(s))
     /\ Return(h, Len(s))
     /\ obj' = [obj EXCEPT ![h].pos = end, ![h].size = Max({@, end})]
     /\ UNCHANGED <<entry, hist>>
WriteAll(h, s) ==
  LET end == obj[h].pos + Len(s)
  IN /\ Room(h, Len(s)) = Len(s)
     /\ data' = Stored(h, s, Len(s))
     /\ Return(h, Len(s))
     /\ obj' = [obj EXCEPT ![h].pos = end, ![h].size = Max({@, end})]
     /\ IF end <= obj[h].size THEN UNCHANGED <<entry, stale>>
        ELSE \E failed \in Failures :
               IF failed THEN stale' = stale \cup {h} /\ UNCHANGED entry
                         ELSE EntryWritten(h, end)
     /\ UNCHANGED <<calm, past>>

\* The chain ends before the bytes do: those that fit have been written, but
\* neither the position nor the size says so.  A bad link ends it otherwise.
WriteOff(h, s) ==
  LET n == Room(h, Len(s))
  IN /\ n < Len(s)
     /\ data' = Stored(h, s, n)
     /\ IF At(h, n) = End THEN Return(h, -1) /\ UNCHANGED <<obj, past>>
        ELSE Return(h, n) /\ Move(h, n) /\ past' = past \cup {h}
     /\ UNCHANGED <<calm, entry, stale>>

WriteCut(h, s) ==
  /\ ~calm
  /\ \E cut \in Cuts(h, Len(s)) :
       /\ data' = Stored(h, s, cut[2])
       /\ Move(h, cut[1])
       /\ Return(h, IF cut[1] > 0 THEN cut[1] ELSE -1)
  /\ past' = past \cup {h}
  /\ UNCHANGED <<calm, entry, stale>>

Write(h, s) ==
  /\ IsOpen(h)
  /\ \/ s = <<>> /\ WriteNone(h)
     \/ s # <<>> /\ WalkFails(h) /\ Fail(h)
     \/ /\ s # <<>>
        /\ At(h, 0) \notin {End, Bad}
        /\ WriteAll(h, s) \/ WriteOff(h, s) \/ WriteCut(h, s)

-----------------------------------------------------------------------------
BytesAt(h, n) == [i \in 1 .. n |-> data[At(h, i - 1)][Place(h, i - 1)]]

ReadSome(h, n) ==  \* n > 0 bytes before the end of the file
  \E w \in Starts(h, n) \cup {n}, failed \in Failures :
    /\ IF failed THEN w < n /\ w <= Room(h, n) ELSE w = Room(h, n)
    /\ IF ~failed /\ w < n /\ At(h, w) = End
         THEN Return(h, -1) /\ UNCHANGED obj
         ELSE /\ Move(h, w)
              /\ IF w > 0 THEN Deliver(h, BytesAt(h, w)) ELSE Return(h, -1)
    /\ UNCHANGED <<disk, hist>>

Read(h, n) ==
  /\ IsOpen(h)
  /\ LET o == obj[h]
     IN IF First[o.file] = Boot THEN Fail(h)   \* start_lba < 2
        ELSE IF n = 0 \/ o.pos >= o.size
               THEN Return(h, 0) /\ UNCHANGED <<disk, obj, hist>>
        ELSE \/ WalkFails(h) /\ Fail(h)
             \/ At(h, 0) \notin {End, Bad} /\ ReadSome(h, Min({n, o.size - o.pos}))

MutSeekHigh(h, offset, whence) ==  \* or behind the end
  /\ IsOpen(h)
  /\ LET o  == obj[h]
         to == offset + CASE whence = "SET" -> 0
                          [] whence = "CUR" -> o.pos
                          [] whence = "END" -> o.size
     IN IF to >= 0
          THEN Return(h, to) /\ Move(h, to - o.pos) /\ UNCHANGED <<disk, hist>>
          ELSE Fail(h)
Seek(h, offset, whence) ==
  /\ IsOpen(h)
  /\ LET o  == obj[h]
         to == offset + CASE whence = "SET" -> 0
                          [] whence = "CUR" -> o.pos
                          [] whence = "END" -> o.size
     IN IF to \in 0 .. o.size
          THEN Return(h, to) /\ Move(h, to - o.pos) /\ UNCHANGED <<disk, hist>>
          ELSE Fail(h)

MutTruncate(h, n) ==  \* any length is taken
  /\ IsOpen(h)
  /\ obj' = [obj EXCEPT ![h].size = n]
  /\ EntryWritten(h, n)
  /\ past' = past \cup {h}
  /\ Return(h, 0)
  /\ UNCHANGED data
Truncate(h, n) ==
  /\ IsOpen(h)
  /\ \/ (n > ClusterBytes \/ ~calm) /\ Fail(h)
     \/ /\ n <= ClusterBytes
        /\ obj' = [obj EXCEPT ![h].size = n]
        /\ EntryWritten(h, n)
        /\ past' = past \cup {h}
        /\ Return(h, 0)
        /\ UNCHANGED data

-----------------------------------------------------------------------------
Init ==
  /\ data = [c \in Clusters \cup {Boot} |-> [o \in Offsets |->
               IF c # Boot /\ \E f \in Files : c \in Range(Chain[f]) THEN Zero ELSE "other"]]
  /\ entry \in [Files -> UNION {0 .. Capacity[f] : f \in Files}]
  /\ \A f \in Files : entry[f] <= Capacity[f]
  /\ obj = [h \in Handles |-> Closed]
  /\ calm \in BOOLEAN /\ result = <<0, <<>>>>
  /\ stale = {} /\ past = {}

Call(h) ==
  \/ \E f \in Files : Open(h, f)
  \/ Close(h)
  \/ \E s \in Strings : Write(h, s)
  \/ \E n \in 0 .. MaxIo : Read(h, n)
  \/ \E n \in 0 .. ClusterBytes + 1 : Truncate(h, n)
  \/ \E n \in -MaxIo .. MaxIo, whence \in {"SET", "CUR", "END"} : Seek(h, n, whence)

Next == \E h \in Handles : Call(h)
Spec == Init /\ [][Next]_vars

-----------------------------------------------------------------------------
\* A size, in an object or in the directory, is never more than the file's
\* clusters can hold.  read relies on it: where the chain ends before the size
\* does, it returns without giving its buffer back (FAT32File.cpp:143).  The
\* exception is a file that has no clusters: write, which does not look for a
\* first cluster, and truncate give it a size that nothing holds, up to that of
\* one cluster; read refuses such a file whatever its size.
Fits(f, size) == size <= Capacity[f] \/ (First[f] = Boot /\ size <= ClusterBytes)
SizeFitsChain ==
  /\ \A f \in Files : Fits(f, entry[f])
  /\ \A h \in Handles : IsOpen(h) => Fits(obj[h].file, obj[h].size)

\* A position never goes farther than write can get, and is behind the end of
\* the file only after this object was truncated or a write through it was cut
\* short, by an error of the disk or a bad link.
PositionInFile ==
  \A h \in Handles : IsOpen(h) =>
    /\ obj[h].pos <= Reach[obj[h].file]
    /\ obj[h].pos > obj[h].size => h \in past

\* An open file's size is the one on the disk, unless writing the directory
\* entry failed or another object of the same file wrote it.
SizeOnDisk ==
  \A h \in Handles : IsOpen(h) /\ h \notin stale => obj[h].size = entry[obj[h].file]

\* A call changes no cluster but those of a file that is open; for a file
\* without any that is the piece of the disk at LBA 0, where the partition
\* table is: write does not look at the first cluster, as read does.
OthersUntouched ==
  [][\A c \in DOMAIN data : data'[c] # data[c] =>
       \E h \in Handles : IsOpen(h) /\ c \in Range(Chain[obj[h].file])]_vars

\* On a disk without errors, for a file that has clusters and is open once,
\* the driver does what ByteFile promises.
Contents(f) ==
  [i \in 1 .. entry[f] |->
     data[Walk(f, (i - 1) \div ClusterBytes)][(i - 1) % ClusterBytes]]
Position(f) ==
  LET H == {h \in Handles : IsOpen(h) /\ obj[h].file = f}
  IN IF H = {} THEN -1 ELSE obj[CHOOSE h \in H : TRUE].pos
AbsBytes == IF calm THEN Contents(Watched) ELSE <<>>
AbsPos   == IF calm THEN Position(Watched) ELSE -1
Abs == INSTANCE ByteFile WITH
  MaxLength <- Capacity[Watched], bytes <- AbsBytes, pos <- AbsPos
RefinesByteFile == Abs!Spec
=============================================================================
