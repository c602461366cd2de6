--------------------------- MODULE FatFileProofs ----------------------------
(***************************************************************************)
(* Proofs about files of the FAT32 driver, for every disk whose chains end, *)
(* every set of files and objects, and sizes of clusters and transfers.     *)
(*                                                                         *)
(* IInv is inductive.  What carries it is RoomFacts: the loops of read and  *)
(* write, which look at the chain only where a cluster starts, are stopped  *)
(* at the end of the chain and nowhere else.  The refinement needs besides   *)
(* that a chain which ends has no cluster twice (ChainDistinct), so that    *)
(* each byte of a file has a place of its own, and RInv: on a calm disk one *)
(* object is open, its size is the directory's, and the file holds bytes.   *)
(***************************************************************************)
EXTENDS FatFile, FiniteSetTheorems, SequenceTheorems, WellFoundedInduction, TLAPS

Object   == [file : Files, size : Nat, pos : Nat]
Contains == [Clusters \cup {Boot} -> [Offsets -> Byte \cup {"other"}]]

TypeOK ==
  /\ data \in Contains
  /\ entry \in [Files -> Nat]
  /\ obj \in [Handles -> Object \cup {Closed}]
  /\ calm \in BOOLEAN /\ stale \subseteq Handles /\ past \subseteq Handles

\* A size is never more than write can reach.
SizeInReach ==
  /\ \A f \in Files : entry[f] <= Reach[f]
  /\ \A h \in Handles : IsOpen(h) => obj[h].size <= Reach[obj[h].file]

\* The inductive invariant.
IInv == TypeOK /\ SizeInReach /\ PositionInFile /\ SizeOnDisk

-----------------------------------------------------------------------------
(* Numbers.                                                                *)

\* Every non-empty set of naturals has a least element.
LEMMA Least ==
  ASSUME NEW T \in SUBSET Nat, T # {}
  PROVE  \E m \in T : \A k \in T : m <= k
  <1> DEFINE Order == StrictSubsetOrdering(Nat)
             Below == {0 .. x : x \in T}
  <1>1. IsWellFoundedOn(Order, FiniteSubsetsOf(Nat)) BY FS_StrictSubsetOrderingWellFounded
  <1>2. Below \subseteq FiniteSubsetsOf(Nat)
    <2>1. \A x \in T : IsFiniteSet(0 .. x) BY FS_Interval
    <2> QED BY <2>1 DEF FiniteSubsetsOf
  <1>3. Below # {} OBVIOUS
  <1> HIDE DEF Below, Order
  <1>4. PICK b \in Below : \A c \in Below : ~ (<<c, b>> \in Order) BY <1>1, <1>2, <1>3, WFMin
  <1>5. PICK m \in T : b = 0 .. m BY DEF Below
  <1>6. \A k \in T : m <= k
    <2> SUFFICES ASSUME NEW k \in T, k < m PROVE FALSE OBVIOUS
    <2>1. 0 .. k \in Below BY DEF Below
    <2>2. <<0 .. k, 0 .. m>> \in Order BY DEF Order, StrictSubsetOrdering
    <2> QED BY <2>1, <2>2, <1>4, <1>5
  <1> QED BY <1>6

\* Min, on which the loops of read and write hang, is the least element.
LEMMA MinLeast ==
  ASSUME NEW T \in SUBSET Nat, T # {}
  PROVE  Min(T) \in T /\ \A k \in T : Min(T) <= k
  BY Least DEF Min

\* The smaller and the larger of two numbers.
LEMMA MinMaxOfTwo ==
  ASSUME NEW a \in Nat, NEW b \in Nat
  PROVE  /\ Min({a, b}) = IF a <= b THEN a ELSE b
         /\ Max({a, b}) = IF a >= b THEN a ELSE b
  <1>1. Min({a, b}) = IF a <= b THEN a ELSE b BY DEF Min
  <1>2. Max({a, b}) = IF a >= b THEN a ELSE b BY DEF Max
  <1> QED BY <1>1, <1>2

\* The quotient and the remainder of a position by the size of a cluster.
LEMMA Division ==
  ASSUME NEW d \in Nat \ {0}, NEW p \in Nat
  PROVE  /\ p \div d \in Nat /\ p % d \in 0 .. d - 1
         /\ p = d * (p \div d) + (p % d)
         /\ \A m \in Nat : p \div d < m <=> p < d * m
         /\ \A m \in Nat : p = d * m => p \div d = m /\ p % d = 0
  <1>1. p \div d \in Nat /\ p % d \in 0 .. d - 1 /\ p = d * (p \div d) + (p % d) OBVIOUS
  <1> DEFINE q == p \div d
             r == p % d
  <1>2. q \in Nat /\ r \in Nat /\ r < d /\ p = d * q + r BY <1>1
  <1> HIDE DEF q, r
  <1>3. ASSUME NEW m \in Nat PROVE q < m <=> p < d * m
    <2>1. CASE q < m
      <3>1. PICK k \in Nat : m = q + 1 + k BY <1>2, <2>1
      <3>2. d * m = d * q + d + d * k BY <1>2, <3>1
      <3>3. d * k \in Nat /\ d * q \in Nat BY <1>2
      <3> QED BY <1>2, <3>2, <3>3, <2>1
    <2>2. CASE ~ (q < m)
      <3>1. PICK k \in Nat : q = m + k BY <1>2, <2>2
      <3>2. d * q = d * m + d * k BY <1>2, <3>1
      <3>3. d * k \in Nat /\ d * m \in Nat BY <1>2
      <3> QED BY <1>2, <3>2, <3>3, <2>2
    <2> QED BY <2>1, <2>2
  <1>4. ASSUME NEW m \in Nat, p = d * m PROVE q = m /\ r = 0
    <2>1. ~ (q < m) BY <1>3, <1>4
    <2>2. q < m + 1
      <3>1. d * (m + 1) = d * m + d OBVIOUS
      <3>2. d * m \in Nat OBVIOUS
      <3> QED BY <1>3, <1>4, <3>1, <3>2
    <2>3. q = m BY <2>1, <2>2, <1>2
    <2> QED BY <2>3, <1>2, <1>4
  <1> QED BY <1>2, <1>3, <1>4 DEF q, r

-----------------------------------------------------------------------------
(* The walk along a chain.                                                 *)

\* A chain has a first cluster, is on the disk, and ends at its end or a bad link.
LEMMA ChainFacts ==
  ASSUME NEW f \in Files
  PROVE  /\ Len(Chain[f]) \in Nat \ {0}
         /\ \A i \in 1 .. Len(Chain[f]) : Chain[f][i] \in Clusters \cup {Boot}
         /\ Link(Chain[f][Len(Chain[f])]) \in {End, Bad}
         /\ End \notin Clusters \cup {Boot} /\ Bad \notin Clusters \cup {Boot}
         /\ Range(Chain[f]) = {Chain[f][i] : i \in 1 .. Len(Chain[f])}
         /\ Reach[f] = ClusterBytes * Len(Chain[f]) /\ Reach[f] \in Nat
  <1>1. Chain[f] \in Seq(Clusters \cup {Boot}) /\ Chain[f] # <<>> BY ChainAssumption
  <1>2. Len(Chain[f]) \in Nat \ {0} /\ DOMAIN Chain[f] = 1 .. Len(Chain[f]) BY <1>1
  <1>3. \A i \in 1 .. Len(Chain[f]) : Chain[f][i] \in Clusters \cup {Boot} BY <1>1
  <1>4. Link(Chain[f][Len(Chain[f])]) \in {End, Bad} BY ChainAssumption
  <1>5. End \notin Clusters \cup {Boot} /\ Bad \notin Clusters \cup {Boot}
    BY FatAssumption DEF End, Bad, Boot
  <1>6. Range(Chain[f]) = {Chain[f][i] : i \in 1 .. Len(Chain[f])} BY <1>2 DEF Range
  <1>7. Reach[f] = ClusterBytes * Len(Chain[f]) /\ Reach[f] \in Nat
    BY <1>2, FatAssumption DEF Reach
  <1> QED BY <1>2, <1>3, <1>4, <1>5, <1>6, <1>7

\* The piece at LBA 0 is one cluster long, and a file that has clusters holds all
\* that write can reach.
LEMMA ReachFacts ==
  ASSUME NEW f \in Files
  PROVE  /\ First[f] = Boot => Reach[f] = ClusterBytes /\ Capacity[f] = 0
         /\ First[f] # Boot => Reach[f] = Capacity[f]
         /\ Capacity[f] \in 0 .. Reach[f]
         /\ \A n \in Nat : Fits(f, n) <=> n <= Reach[f]
  <1>0. ClusterBytes \in Nat /\ Reach[f] \in Nat BY FatAssumption, ChainFacts
  <1>1. Capacity[f] = IF First[f] = Boot THEN 0 ELSE Reach[f] BY DEF Capacity
  <1>2. ASSUME First[f] = Boot PROVE Reach[f] = ClusterBytes
    <2>1. Len(Chain[f]) = 1
      <3> SUFFICES ASSUME Len(Chain[f]) # 1 PROVE FALSE OBVIOUS
      <3>0. Len(Chain[f]) \in Nat \ {0} BY ChainFacts
      <3> DEFINE l == Len(Chain[f])
      <3>1. 1 \in 1 .. l - 1 /\ 2 \in 1 .. l
        <4>1. l \in Nat \ {0} /\ l # 1 BY <3>0
        <4> HIDE DEF l
        <4> QED BY <4>1
      <3>2. Chain[f][1] = Boot /\ Chain[f][1 + 1] = Link(Chain[f][1])
        BY <1>2, <3>1, ChainAssumption
      <3>3. Chain[f][2] = Bad BY <3>2 DEF Link
      <3> QED BY <3>1, <3>3, ChainFacts
    <2>2. ClusterBytes * 1 = ClusterBytes BY <1>0
    <2> QED BY <2>1, <2>2, ChainFacts
  <1>3. ASSUME NEW n \in Nat PROVE Fits(f, n) <=> n <= Reach[f]
    <2>1. Fits(f, n) <=> n <= Capacity[f] \/ (First[f] = Boot /\ n <= ClusterBytes) BY DEF Fits
    <2> QED BY <1>0, <1>1, <1>2, <2>1
  <1> QED BY <1>0, <1>1, <1>2, <1>3

\* The walk is on the chain as long as it has clusters.
LEMMA WalkFacts ==
  ASSUME NEW f \in Files, NEW i \in Nat
  PROVE  /\ i < Len(Chain[f]) => /\ Walk(f, i) = Chain[f][i + 1]
                                 /\ Walk(f, i) \in Range(Chain[f])
                                 /\ Walk(f, i) \in Clusters \cup {Boot}
         /\ Walk(f, i) \in {End, Bad} <=> i >= Len(Chain[f])
  <1>1. CASE i < Len(Chain[f])
    <2>0. /\ Len(Chain[f]) \in Nat
          /\ \A j \in 1 .. Len(Chain[f]) : /\ Chain[f][j] \in Clusters \cup {Boot}
                                           /\ Chain[f][j] \in Range(Chain[f])
          /\ End \notin Clusters \cup {Boot} /\ Bad \notin Clusters \cup {Boot}
      BY ChainFacts
    <2>1. i + 1 \in 1 .. Len(Chain[f]) BY <1>1, <2>0
    <2>2. Walk(f, i) = Chain[f][i + 1] BY <1>1 DEF Walk
    <2> HIDE DEF Walk
    <2> QED BY <1>1, <2>0, <2>1, <2>2
  <1>2. CASE ~ (i < Len(Chain[f]))
    BY <1>2, ChainFacts DEF Walk
  <1> QED BY <1>1, <1>2

\* Byte n of a transfer is on the chain exactly if the chain has room for it.
LEMMA AtFacts ==
  ASSUME TypeOK, NEW h \in Handles, IsOpen(h), NEW n \in Nat
  PROVE  LET f == obj[h].file p == obj[h].pos + n
         IN  /\ p < Reach[f] => /\ At(h, n) = Chain[f][p \div ClusterBytes + 1]
                                   /\ p \div ClusterBytes + 1 \in 1 .. Len(Chain[f])
                                   /\ At(h, n) \in Range(Chain[f])
                                   /\ At(h, n) \in Clusters \cup {Boot}
             /\ At(h, n) \in {End, Bad} <=> p >= Reach[f]
             /\ Place(h, n) \in Offsets
             /\ p = Reach[f] => Place(h, n) = 0
  <1> DEFINE f == obj[h].file
             p == obj[h].pos + n
             i == p \div ClusterBytes
  <1>1. f \in Files /\ p \in Nat BY DEF TypeOK, IsOpen, Object
  <1>2. /\ i \in Nat /\ p % ClusterBytes \in 0 .. ClusterBytes - 1
        /\ i < Len(Chain[f]) <=> p < Reach[f]
        /\ p = Reach[f] => p % ClusterBytes = 0
    <2>0. ClusterBytes \in Nat \ {0} BY FatAssumption
    <2>1. Len(Chain[f]) \in Nat /\ Reach[f] = ClusterBytes * Len(Chain[f]) BY <1>1, ChainFacts
    <2> HIDE DEF f, p
    <2>2. /\ p \div ClusterBytes \in Nat /\ p % ClusterBytes \in 0 .. ClusterBytes - 1
          /\ \A m \in Nat : p \div ClusterBytes < m <=> p < ClusterBytes * m
          /\ \A m \in Nat : p = ClusterBytes * m => p \div ClusterBytes = m /\ p % ClusterBytes = 0
      BY <1>1, <2>0, Division
    <2> QED BY <2>1, <2>2
  <1>3. At(h, n) = Walk(f, i) BY DEF At
  <1>4. Place(h, n) = p % ClusterBytes BY DEF Place
  <1>5. Len(Chain[f]) \in Nat /\ Reach[f] \in Nat BY <1>1, ChainFacts
  <1> HIDE DEF i, f, p
  <1>6. /\ p < Reach[f] => /\ At(h, n) = Chain[f][i + 1]
                              /\ i + 1 \in 1 .. Len(Chain[f])
                              /\ At(h, n) \in Range(Chain[f])
                              /\ At(h, n) \in Clusters \cup {Boot}
        /\ At(h, n) \in {End, Bad} <=> p >= Reach[f]
        /\ Place(h, n) \in Offsets
        /\ p = Reach[f] => Place(h, n) = 0
    BY <1>1, <1>2, <1>3, <1>4, <1>5, WalkFacts DEF Offsets
  <1> QED BY <1>6 DEF i, f, p

\* A transfer is stopped where the chain ends, and nowhere else.
LEMMA RoomFacts ==
  ASSUME TypeOK, NEW h \in Handles, IsOpen(h), NEW n \in Nat \ {0}, At(h, 0) \notin {End, Bad}
  PROVE  LET p == obj[h].pos  c == Reach[obj[h].file]
         IN  /\ p < c
             /\ Room(h, n) = IF p + n <= c THEN n ELSE c - p
  <1> DEFINE p == obj[h].pos
             c == Reach[obj[h].file]
             Stops == {w \in Starts(h, n) : At(h, w) \in {End, Bad}}
  <1>1. p \in Nat /\ c \in Nat /\ obj[h].file \in Files
    BY ChainFacts DEF TypeOK, IsOpen, Object
  <1>2. p < c BY <1>1, AtFacts
  <1>3. Stops \subseteq 1 .. n - 1 BY DEF Starts
  <1>4. ASSUME NEW w \in Stops PROVE w >= c - p
    <2>1. w \in Nat /\ At(h, w) \in {End, Bad} BY <1>3
    <2>2. At(h, w) \in {End, Bad} <=> p + w >= c BY <2>1, AtFacts
    <2> QED BY <1>1, <2>1, <2>2
  <1>5. p + n > c => c - p \in Stops
    <2> SUFFICES ASSUME p + n > c PROVE c - p \in Stops OBVIOUS
    <2>1. c - p \in 1 .. n - 1 BY <1>1, <1>2
    <2>2. c - p \in Nat /\ p + (c - p) = c BY <1>1, <2>1
    <2>3. At(h, c - p) \in {End, Bad} /\ Place(h, c - p) = 0 BY <1>1, <2>2, AtFacts
    <2> QED BY <2>1, <2>3 DEF Starts
  <1>6. {n} \cup Stops \in SUBSET Nat /\ {n} \cup Stops # {} BY <1>3
  <1>7. /\ Room(h, n) \in {n} \cup Stops
        /\ \A k \in {n} \cup Stops : Room(h, n) <= k
    BY <1>6, MinLeast DEF Room
  <1> HIDE DEF Stops, p, c
  <1>8. Room(h, n) = IF p + n <= c THEN n ELSE c - p
    <2>0. \A w \in Stops : w \in Nat /\ w < n /\ w >= c - p BY <1>3, <1>4
    <2>1. CASE p + n <= c BY <1>1, <1>7, <2>0, <2>1
    <2>2. CASE p + n > c BY <1>1, <1>2, <1>5, <1>7, <2>0, <2>2
    <2> QED BY <1>1, <2>1, <2>2
  <1> QED BY <1>2, <1>8 DEF p, c

-----------------------------------------------------------------------------
(* The bytes on the disk.                                                  *)

\* A transfer of k bytes that stays on the chain of h's file writes only there.
LEMMA StoredFacts ==
  ASSUME TypeOK, NEW h \in Handles, IsOpen(h), NEW s \in Seq(Byte), NEW k \in 0 .. Len(s)
  PROVE  /\ Stored(h, s, k) \in Contains
         /\ \A c \in Clusters \cup {Boot} :
              Stored(h, s, k)[c] # data[c] => c \in Range(Chain[obj[h].file])
  <1> DEFINE here(c, o) == {w \in 0 .. k - 1 : At(h, w) = c /\ Place(h, w) = o}
             new(c, o) == IF here(c, o) = {} THEN data[c][o]
                          ELSE s[(CHOOSE w \in here(c, o) : TRUE) + 1]
  <1>1. DOMAIN data = Clusters \cup {Boot} BY DEF TypeOK, Contains
  <1>2. Stored(h, s, k) = [c \in Clusters \cup {Boot} |-> [o \in Offsets |-> new(c, o)]]
    BY <1>1 DEF Stored
  <1>3. ASSUME NEW c \in Clusters \cup {Boot}, NEW o \in Offsets
        PROVE  /\ new(c, o) \in Byte \cup {"other"}
               /\ new(c, o) # data[c][o] => here(c, o) # {}
    <2>1. CASE here(c, o) = {} BY <2>1 DEF TypeOK, Contains
    <2>2. CASE here(c, o) # {}
      <3>1. PICK w \in here(c, o) : w = CHOOSE v \in here(c, o) : TRUE BY <2>2
      <3>2. w + 1 \in 1 .. Len(s) BY <3>1
      <3> HIDE DEF here
      <3>3. new(c, o) = s[w + 1] BY <2>2, <3>1
      <3> QED BY <2>2, <3>2, <3>3
    <2> QED BY <2>1, <2>2
  <1>4. ASSUME NEW c \in Clusters \cup {Boot}, Stored(h, s, k)[c] # data[c]
        PROVE  c \in Range(Chain[obj[h].file])
    <2>1. Stored(h, s, k)[c] = [o \in Offsets |-> new(c, o)] BY <1>2
    <2>2. data[c] \in [Offsets -> Byte \cup {"other"}] BY DEF TypeOK, Contains
    <2>3. PICK o \in Offsets : new(c, o) # data[c][o] BY <1>4, <2>1, <2>2
    <2>4. PICK w \in here(c, o) : TRUE BY <1>3, <2>3
    <2>5. w \in Nat /\ At(h, w) = c BY <2>4
    <2>6. obj[h].file \in Files BY DEF TypeOK, IsOpen, Object
    <2>7. At(h, w) \notin {End, Bad} BY <2>5, <2>6, ChainFacts
    <2>8. At(h, w) \in Range(Chain[obj[h].file])
      <3>1. obj[h].pos + w < Reach[obj[h].file]
        <4>1. At(h, w) \in {End, Bad} <=> obj[h].pos + w >= Reach[obj[h].file] BY <2>5, AtFacts
        <4>2. obj[h].pos \in Nat /\ Reach[obj[h].file] \in Nat
          <5>1. obj[h] \in Object BY DEF TypeOK, IsOpen
          <5> QED BY <2>6, <5>1, ChainFacts DEF Object
        <4> QED BY <2>5, <2>7, <4>1, <4>2
      <3> QED BY <2>5, <3>1, AtFacts
    <2> QED BY <2>5, <2>8
  <1> HIDE DEF new
  <1>5. Stored(h, s, k) \in Contains BY <1>2, <1>3 DEF Contains
  <1> QED BY <1>4, <1>5

\* What a program may pass to write is a sequence of bytes.
LEMMA StringsFacts ==
  ASSUME NEW s \in Strings
  PROVE  s \in Seq(Byte) /\ Len(s) \in Nat /\ (s # <<>> => Len(s) \in Nat \ {0})
  <1>1. PICK n \in 0 .. MaxIo : s \in [1 .. n -> IF calm THEN Byte ELSE {Zero}] BY DEF Strings
  <1>2. s \in [1 .. n -> Byte] BY <1>1, FatAssumption
  <1> QED BY <1>1, <1>2

-----------------------------------------------------------------------------
(* The two ways an object changes: its position, and its size.             *)

\* An open object is a FAT32File with a file, a size and a position.
LEMMA OpenFacts ==
  ASSUME TypeOK, NEW h \in Handles, IsOpen(h)
  PROVE  /\ obj[h] \in Object /\ obj[h].file \in Files /\ obj[h].size \in Nat /\ obj[h].pos \in Nat
         /\ Reach[obj[h].file] \in Nat
  BY ChainFacts DEF TypeOK, IsOpen, Object

\* A new position within the chain; beyond the size only if `past' says so.
LEMMA MovedKeeps ==
  ASSUME IInv, NEW h \in Handles, IsOpen(h), NEW p \in Nat, p <= Reach[obj[h].file],
         obj' = [obj EXCEPT ![h].pos = p], data' \in Contains, UNCHANGED <<entry, calm, stale>>,
         past' \subseteq Handles, past \subseteq past', p > obj[h].size => h \in past'
  PROVE  IInv'
  <1>1. /\ obj' \in [Handles -> Object \cup {Closed}]
        /\ \A g \in Handles : IsOpen(g)' => /\ IsOpen(g) /\ obj'[g].file = obj[g].file
                                            /\ obj'[g].size = obj[g].size
                                            /\ obj'[g].pos = IF g = h THEN p ELSE obj[g].pos
    BY OpenFacts DEF IInv, TypeOK, IsOpen, Object
  <1>2. TypeOK' BY <1>1 DEF IInv, TypeOK
  <1>3. SizeInReach' BY <1>1 DEF IInv, SizeInReach
  <1>4. PositionInFile' BY <1>1 DEF IInv, PositionInFile
  <1>5. SizeOnDisk' BY <1>1 DEF IInv, SizeOnDisk
  <1> QED BY <1>2, <1>3, <1>4, <1>5 DEF IInv

\* A new size n within the chain, and its directory entry written.
LEMMA ResizedKeeps ==
  ASSUME IInv, NEW h \in Handles, IsOpen(h), NEW n \in Nat, n <= Reach[obj[h].file],
         NEW p \in Nat, p <= Reach[obj[h].file],
         obj' = [obj EXCEPT ![h].size = n, ![h].pos = p], data' \in Contains, EntryWritten(h, n),
         past' \subseteq Handles, past \subseteq past', p > n => h \in past'
  PROVE  IInv'
  <1>0. /\ entry' = [entry EXCEPT ![obj[h].file] = n]
        /\ calm' = calm
        /\ stale' = (stale \ {h}) \cup Others(h)
    BY DEF EntryWritten
  <1>1. /\ obj' \in [Handles -> Object \cup {Closed}]
        /\ \A g \in Handles : IsOpen(g)' => /\ IsOpen(g) /\ obj'[g].file = obj[g].file
                                            /\ obj'[g].size = IF g = h THEN n ELSE obj[g].size
                                            /\ obj'[g].pos = IF g = h THEN p ELSE obj[g].pos
    BY OpenFacts DEF IInv, TypeOK, IsOpen, Object
  <1>2. obj[h].file \in Files BY OpenFacts DEF IInv
  <1>3. TypeOK' BY <1>0, <1>1 DEF IInv, TypeOK, Others
  <1>4. SizeInReach' BY <1>0, <1>1, <1>2 DEF IInv, SizeInReach, TypeOK
  <1>5. PositionInFile' BY <1>1 DEF IInv, PositionInFile
  <1>6. SizeOnDisk'
    <2> SUFFICES ASSUME NEW g \in Handles, IsOpen(g)', g \notin stale'
                 PROVE  obj'[g].size = entry'[obj'[g].file]
      BY DEF SizeOnDisk
    <2>1. CASE g = h BY <1>0, <1>1, <1>2, <2>1 DEF IInv, TypeOK
    <2>2. CASE g # h
      <3>1. g \notin stale /\ g \notin Others(h) BY <1>0, <2>2
      <3>2. obj[g].file # obj[h].file BY <1>1, <2>2, <3>1 DEF Others
      <3>3. obj[g].file \in Files BY <1>1, OpenFacts DEF IInv
      <3> QED BY <1>0, <1>1, <1>2, <2>2, <3>1, <3>2, <3>3 DEF IInv, TypeOK, SizeOnDisk
    <2> QED BY <2>1, <2>2
  <1> QED BY <1>3, <1>4, <1>5, <1>6 DEF IInv

\* A new size that did not get to the directory.
LEMMA UnwrittenKeeps ==
  ASSUME IInv, NEW h \in Handles, IsOpen(h), NEW n \in Nat, n <= Reach[obj[h].file],
         NEW p \in Nat, p <= n,
         obj' = [obj EXCEPT ![h].size = n, ![h].pos = p], data' \in Contains,
         stale' = stale \cup {h}, UNCHANGED <<entry, calm, past>>
  PROVE  IInv'
  <1>1. /\ obj' \in [Handles -> Object \cup {Closed}]
        /\ \A g \in Handles : IsOpen(g)' => /\ IsOpen(g) /\ obj'[g].file = obj[g].file
                                            /\ obj'[g].size = IF g = h THEN n ELSE obj[g].size
                                            /\ obj'[g].pos = IF g = h THEN p ELSE obj[g].pos
    BY OpenFacts DEF IInv, TypeOK, IsOpen, Object
  <1>2. Reach[obj[h].file] \in Nat BY OpenFacts DEF IInv
  <1>3. TypeOK' BY <1>1 DEF IInv, TypeOK
  <1>4. SizeInReach' BY <1>1 DEF IInv, SizeInReach
  <1>5. PositionInFile' BY <1>1, <1>2 DEF IInv, PositionInFile
  <1>6. SizeOnDisk' BY <1>1 DEF IInv, SizeOnDisk
  <1> QED BY <1>3, <1>4, <1>5, <1>6 DEF IInv

\* A call that changes nothing but the result.
LEMMA SameKeeps ==
  ASSUME IInv, UNCHANGED <<disk, obj, hist>>
  PROVE  IInv'
  <1>1. UNCHANGED <<data, entry, obj, calm, stale, past>> BY DEF disk, hist
  <1> QED BY <1>1 DEF IInv, TypeOK, SizeInReach, PositionInFile, SizeOnDisk, IsOpen

-----------------------------------------------------------------------------
(* The calls.                                                              *)

\* A sound disk, nothing open.
LEMMA InitInv == Init => IInv
  <1> SUFFICES ASSUME Init PROVE IInv OBVIOUS
  <1>1. \A h \in Handles : ~ IsOpen(h) BY DEF Init, IsOpen
  <1>2. entry \in [Files -> Nat]
    <2>1. \A f \in Files : Capacity[f] \in Nat BY ChainFacts, ReachFacts
    <2>2. UNION {0 .. Capacity[f] : f \in Files} \subseteq Nat BY <2>1
    <2> QED BY <2>2 DEF Init
  <1>3. data \in Contains BY FatAssumption DEF Init, Contains
  <1>4. TypeOK BY <1>2, <1>3 DEF Init, TypeOK
  <1>5. SizeInReach
    <2>1. ASSUME NEW f \in Files PROVE entry[f] <= Reach[f]
      <3>1. entry[f] \in Nat /\ entry[f] <= Capacity[f] BY <1>2 DEF Init
      <3> QED BY <3>1, ReachFacts, ChainFacts
    <2> QED BY <1>1, <2>1 DEF SizeInReach
  <1> QED BY <1>1, <1>4, <1>5 DEF IInv, PositionInFile, SizeOnDisk

\* The constructor takes the size from the directory entry.
LEMMA OpenKeeps ==
  ASSUME IInv, NEW h \in Handles, NEW f \in Files, Open(h, f)
  PROVE  IInv'
  <1> DEFINE o == [file |-> f, size |-> entry[f], pos |-> 0]
  <1>0. UNCHANGED <<data, entry, calm, stale, past>> BY DEF Open, disk, hist
  <1>1. o \in Object BY DEF IInv, TypeOK, Object
  <1>2. /\ obj' \in [Handles -> Object \cup {Closed}]
        /\ \A g \in Handles : obj'[g] = IF g = h THEN o ELSE obj[g]
    BY <1>1 DEF IInv, TypeOK, Open
  <1>3. TypeOK' BY <1>0, <1>2 DEF IInv, TypeOK
  <1>4. SizeInReach' BY <1>0, <1>2 DEF IInv, SizeInReach, IsOpen
  <1>5. PositionInFile'
    <2>1. Reach[f] \in Nat BY ChainFacts
    <2> QED BY <1>0, <1>1, <1>2, <2>1 DEF IInv, PositionInFile, IsOpen, TypeOK
  <1>6. SizeOnDisk' BY <1>0, <1>2 DEF IInv, SizeOnDisk, IsOpen
  <1> QED BY <1>3, <1>4, <1>5, <1>6 DEF IInv

\* close forgets the object.
LEMMA CloseKeeps ==
  ASSUME IInv, NEW h \in Handles, Close(h)
  PROVE  IInv'
  <1>0. /\ UNCHANGED <<data, entry, calm>> /\ stale' = stale \ {h} /\ past' = past \ {h}
        /\ obj' = [obj EXCEPT ![h] = Closed]
    BY DEF Close, disk
  <1>1. /\ obj' \in [Handles -> Object \cup {Closed}]
        /\ \A g \in Handles : IsOpen(g)' => g # h /\ IsOpen(g) /\ obj'[g] = obj[g]
    BY <1>0 DEF IInv, TypeOK, IsOpen
  <1>2. TypeOK' BY <1>0, <1>1 DEF IInv, TypeOK
  <1>3. SizeInReach' BY <1>0, <1>1 DEF IInv, SizeInReach
  <1>4. PositionInFile' BY <1>0, <1>1 DEF IInv, PositionInFile
  <1>5. SizeOnDisk' BY <1>0, <1>1 DEF IInv, SizeOnDisk
  <1> QED BY <1>2, <1>3, <1>4, <1>5 DEF IInv

\* A write that the chain has room for ends within it, and grows the size to its end.
LEMMA WriteAllKeeps ==
  ASSUME IInv, NEW h \in Handles, IsOpen(h), NEW s \in Strings, s # <<>>,
         At(h, 0) \notin {End, Bad}, WriteAll(h, s)
  PROVE  IInv'
  <1> DEFINE n == Len(s)
             p == obj[h].pos
             end == p + n
             cap == Reach[obj[h].file]
             size == obj[h].size
  <1>1. s \in Seq(Byte) /\ n \in Nat \ {0} BY StringsFacts
  <1>2. size \in Nat /\ p \in Nat /\ cap \in Nat /\ obj[h] \in Object BY OpenFacts DEF IInv
  <1>3. end <= cap BY <1>1, <1>2, RoomFacts DEF WriteAll, IInv
  <1>4. data' \in Contains BY <1>1, StoredFacts DEF WriteAll, IInv
  <1>5. Max({size, end}) = IF size >= end THEN size ELSE end
    <2>1. end \in Nat BY <1>1, <1>2
    <2> HIDE DEF end, size
    <2> QED BY <1>2, <2>1, MinMaxOfTwo
  <1>6. /\ obj' = [obj EXCEPT ![h].size = IF size >= end THEN size ELSE end, ![h].pos = end]
        /\ calm' = calm /\ past' = past
    BY <1>5 DEF WriteAll, IInv, TypeOK
  <1>7. CASE end <= size
    <2>1. obj' = [obj EXCEPT ![h].pos = end]
      BY <1>1, <1>2, <1>6, <1>7 DEF Object, IInv, TypeOK
    <2>2. UNCHANGED <<entry, stale>> BY <1>7 DEF WriteAll
    <2>3. end \in Nat BY <1>1, <1>2
    <2>4. past' \subseteq Handles /\ past \subseteq past' BY <1>6 DEF IInv, TypeOK
    <2>5. end > size => h \in past' BY <1>2, <1>7, <2>3
    <2> HIDE DEF end
    <2> QED BY <1>3, <1>4, <1>6, <2>1, <2>2, <2>3, <2>4, <2>5, MovedKeeps
  <1>8. CASE ~ (end <= size)
    <2>0. end \in Nat BY <1>1, <1>2
    <2>1. obj' = [obj EXCEPT ![h].size = end, ![h].pos = end] BY <1>2, <1>6, <1>8, <2>0
    <2>2. \/ stale' = stale \cup {h} /\ UNCHANGED entry
          \/ EntryWritten(h, end)
      BY <1>8 DEF WriteAll
    <2>5. end <= end /\ ~ (end > end) /\ past' \subseteq Handles /\ past \subseteq past'
      BY <1>6, <2>0 DEF IInv, TypeOK
    <2> HIDE DEF end
    <2>3. CASE stale' = stale \cup {h} /\ UNCHANGED entry
      BY <1>3, <1>4, <1>6, <2>0, <2>1, <2>3, <2>5, UnwrittenKeeps
    <2>4. CASE EntryWritten(h, end)
      BY <1>3, <1>4, <1>6, <2>0, <2>1, <2>4, <2>5, ResizedKeeps
    <2> QED BY <2>2, <2>3, <2>4
  <1> QED BY <1>7, <1>8

\* A write that runs off the chain moves the position at most to the chain's end.
LEMMA WriteOffKeeps ==
  ASSUME IInv, NEW h \in Handles, IsOpen(h), NEW s \in Strings, s # <<>>,
         At(h, 0) \notin {End, Bad}, WriteOff(h, s)
  PROVE  IInv'
  <1> DEFINE n == Room(h, Len(s))
             p == obj[h].pos
             cap == Reach[obj[h].file]
  <1>1. s \in Seq(Byte) /\ Len(s) \in Nat \ {0} BY StringsFacts
  <1>2. p \in Nat /\ cap \in Nat BY OpenFacts DEF IInv
  <1>3. n \in 0 .. Len(s) /\ p + n <= cap
    <2>1. TypeOK BY DEF IInv
    <2>2. p < cap /\ n = IF p + Len(s) <= cap THEN Len(s) ELSE cap - p BY <1>1, <2>1, RoomFacts
    <2> HIDE DEF n, p, cap
    <2> QED BY <1>1, <1>2, <2>2
  <1>4. data' \in Contains BY <1>1, <1>3, StoredFacts DEF WriteOff, IInv
  <1>5. UNCHANGED <<calm, entry, stale>> BY DEF WriteOff
  <1>6. CASE obj' = obj /\ past' = past
    BY <1>4, <1>5, <1>6 DEF IInv, TypeOK, SizeInReach, PositionInFile, SizeOnDisk, IsOpen
  <1>7. CASE obj' = [obj EXCEPT ![h].pos = @ + n] /\ past' = past \cup {h}
    <2>1. p + n \in Nat /\ obj' = [obj EXCEPT ![h].pos = p + n] BY <1>2, <1>3, <1>7 DEF IInv, TypeOK
    <2> HIDE DEF n
    <2> QED BY <1>3, <1>4, <1>5, <1>7, <2>1, MovedKeeps DEF IInv, TypeOK
  <1> QED BY <1>6, <1>7 DEF WriteOff, Move

\* Where an access may fail is within the chain.
LEMMA CutFacts ==
  ASSUME IInv, NEW h \in Handles, IsOpen(h), NEW n \in Nat \ {0}, At(h, 0) \notin {End, Bad},
         NEW cut \in Cuts(h, n)
  PROVE  cut[1] \in Nat /\ cut[2] \in 0 .. n /\ obj[h].pos + cut[1] <= Reach[obj[h].file]
  <1>1. PICK w \in Starts(h, n), k \in 0 .. n : cut = <<w, k>> /\ w <= Room(h, n) BY DEF Cuts
  <1>2. w \in 0 .. n BY <1>1 DEF Starts
  <1>3. obj[h].pos \in Nat /\ Reach[obj[h].file] \in Nat BY OpenFacts DEF IInv
  <1>4. obj[h].pos + w <= Reach[obj[h].file] BY <1>1, <1>2, <1>3, RoomFacts DEF IInv
  <1> QED BY <1>1, <1>2, <1>4

\* A write cut short by the disk moves the position, not the size.
LEMMA WriteCutKeeps ==
  ASSUME IInv, NEW h \in Handles, IsOpen(h), NEW s \in Strings, s # <<>>,
         At(h, 0) \notin {End, Bad}, WriteCut(h, s)
  PROVE  IInv'
  <1> DEFINE p == obj[h].pos
  <1>1. s \in Seq(Byte) /\ Len(s) \in Nat \ {0} BY StringsFacts
  <1>2. p \in Nat BY OpenFacts DEF IInv
  <1>3. PICK cut \in Cuts(h, Len(s)) :
          data' = Stored(h, s, cut[2]) /\ obj' = [obj EXCEPT ![h].pos = @ + cut[1]]
    BY DEF WriteCut, Move
  <1>4. cut[1] \in Nat /\ cut[2] \in 0 .. Len(s) /\ p + cut[1] <= Reach[obj[h].file]
    BY <1>1, CutFacts
  <1>5. data' \in Contains BY <1>1, <1>3, <1>4, StoredFacts DEF IInv
  <1>6. UNCHANGED <<calm, entry, stale>> /\ past' = past \cup {h} BY DEF WriteCut
  <1>7. p + cut[1] \in Nat /\ obj' = [obj EXCEPT ![h].pos = p + cut[1]]
    BY <1>2, <1>3, <1>4 DEF IInv, TypeOK
  <1> QED BY <1>4, <1>5, <1>6, <1>7, MovedKeeps DEF IInv, TypeOK

\* FAT32File::write keeps the invariant.
LEMMA WriteKeeps ==
  ASSUME IInv, NEW h \in Handles, NEW s \in Strings, Write(h, s)
  PROVE  IInv'
  <1>1. CASE WriteNone(h) BY <1>1, SameKeeps DEF WriteNone
  <1>2. CASE Fail(h) BY <1>2, SameKeeps DEF Fail
  <1>3. CASE /\ s # <<>> /\ At(h, 0) \notin {End, Bad}
             /\ WriteAll(h, s) \/ WriteOff(h, s) \/ WriteCut(h, s)
    BY <1>3, WriteAllKeeps, WriteOffKeeps, WriteCutKeeps DEF Write
  <1> QED BY <1>1, <1>2, <1>3 DEF Write

\* The loop of read moves the position no further than the size.
LEMMA ReadSomeKeeps ==
  ASSUME IInv, NEW h \in Handles, IsOpen(h), NEW n \in Nat \ {0},
         obj[h].pos + n <= obj[h].size, At(h, 0) \notin {End, Bad}, ReadSome(h, n)
  PROVE  IInv'
  <1> DEFINE p == obj[h].pos
             cap == Reach[obj[h].file]
  <1>1. p \in Nat /\ cap \in Nat /\ obj[h].size \in Nat BY OpenFacts DEF IInv
  <1>2. UNCHANGED <<disk, hist>> BY DEF ReadSome
  <1>3. CASE UNCHANGED obj BY <1>2, <1>3, SameKeeps
  <1>4. CASE \E w \in Starts(h, n) \cup {n} : w <= Room(h, n) /\ Move(h, w)
    <2>1. PICK w \in Starts(h, n) \cup {n} : w <= Room(h, n) /\ obj' = [obj EXCEPT ![h].pos = @ + w]
      BY <1>4 DEF Move
    <2>2. w \in 0 .. n BY <2>1 DEF Starts
    <2>3. p + w <= cap BY <1>1, <2>1, <2>2, RoomFacts DEF IInv
    <2>4. p + w \in Nat /\ obj' = [obj EXCEPT ![h].pos = p + w] BY <1>1, <2>1, <2>2 DEF IInv, TypeOK
    <2>5. p + w <= obj[h].size BY <1>1, <2>2
    <2>6. UNCHANGED <<data, entry, calm, stale, past>> BY <1>2 DEF disk, hist
    <2>7. ~ (p + w > obj[h].size) BY <1>1, <2>4, <2>5
    <2>8. past' \subseteq Handles /\ data' \in Contains BY <2>6 DEF IInv, TypeOK
    <2> QED BY <2>3, <2>4, <2>6, <2>7, <2>8, MovedKeeps
  <1>5. \A w \in Starts(h, n) \cup {n} : w = Room(h, n) => w <= Room(h, n) BY DEF Starts
  <1> QED BY <1>3, <1>4, <1>5 DEF ReadSome

\* FAT32File::read keeps the invariant.
LEMMA ReadKeeps ==
  ASSUME IInv, NEW h \in Handles, NEW n \in 0 .. MaxIo, Read(h, n)
  PROVE  IInv'
  <1>1. CASE Fail(h) BY <1>1, SameKeeps DEF Fail
  <1>2. CASE UNCHANGED <<disk, obj, hist>> BY <1>2, SameKeeps
  <1>3. CASE /\ n # 0 /\ obj[h].pos < obj[h].size /\ At(h, 0) \notin {End, Bad}
             /\ ReadSome(h, Min({n, obj[h].size - obj[h].pos}))
    <2> DEFINE m == Min({n, obj[h].size - obj[h].pos})
    <2>0. IsOpen(h) BY DEF Read
    <2>1. obj[h].pos \in Nat /\ obj[h].size \in Nat BY <2>0, OpenFacts DEF IInv
    <2>2. n \in Nat \ {0} /\ obj[h].size - obj[h].pos \in Nat \ {0}
      BY <1>3, <2>1, FatAssumption
    <2>3. m \in Nat \ {0} /\ m <= obj[h].size - obj[h].pos BY <2>2, MinMaxOfTwo
    <2>4. obj[h].pos + m <= obj[h].size BY <2>1, <2>3
    <2> HIDE DEF m
    <2>5. ReadSome(h, m) BY <1>3 DEF m
    <2> QED BY <1>3, <2>0, <2>3, <2>4, <2>5, ReadSomeKeeps
  <1>4. n # 0 /\ ~ (obj[h].pos >= obj[h].size) => obj[h].pos < obj[h].size
    <2>1. obj[h].pos \in Nat /\ obj[h].size \in Nat BY OpenFacts DEF IInv, Read
    <2> QED BY <2>1
  <1> QED BY <1>1, <1>2, <1>3, <1>4 DEF Read

\* FAT32File::seek keeps the invariant: it goes nowhere behind the size.
LEMMA SeekKeeps ==
  ASSUME IInv, NEW h \in Handles, NEW n \in -MaxIo .. MaxIo, NEW whence \in {"SET", "CUR", "END"},
         Seek(h, n, whence)
  PROVE  IInv'
  <1>0. IsOpen(h) BY DEF Seek
  <1>1. obj[h].pos \in Nat /\ obj[h].size \in Nat BY <1>0, OpenFacts DEF IInv
  <1>2. CASE Fail(h) BY <1>2, SameKeeps DEF Fail
  <1>3. CASE \E to \in 0 .. obj[h].size : Move(h, to - obj[h].pos) /\ UNCHANGED <<disk, hist>>
    <2>1. PICK to \in 0 .. obj[h].size :
            obj' = [obj EXCEPT ![h].pos = @ + (to - obj[h].pos)] /\ UNCHANGED <<disk, hist>>
      BY <1>3 DEF Move
    <2>0. obj[h].pos + (to - obj[h].pos) = to BY <1>1
    <2>2. obj' = [obj EXCEPT ![h].pos = to] BY <2>0, <2>1 DEF IInv, TypeOK
    <2>3. to \in Nat /\ to <= obj[h].size /\ obj[h].size <= Reach[obj[h].file]
      BY <1>0, <1>1 DEF IInv, SizeInReach
    <2>4. to <= Reach[obj[h].file] BY <1>0, <1>1, <2>3, OpenFacts DEF IInv
    <2>5. UNCHANGED <<data, entry, calm, stale, past>> BY <2>1 DEF disk, hist
    <2>6. ~ (to > obj[h].size) BY <1>1, <2>3
    <2>7. past' \subseteq Handles /\ data' \in Contains BY <2>5 DEF IInv, TypeOK
    <2> QED BY <1>0, <2>2, <2>3, <2>4, <2>5, <2>6, <2>7, MovedKeeps
  <1> QED BY <1>2, <1>3 DEF Seek

\* FAT32File::truncate keeps the invariant: it takes no length above one cluster,
\* and every chain has one.
LEMMA TruncateKeeps ==
  ASSUME IInv, NEW h \in Handles, NEW n \in 0 .. ClusterBytes + 1, Truncate(h, n)
  PROVE  IInv'
  <1>0. IsOpen(h) BY DEF Truncate
  <1>1. CASE Fail(h) BY <1>1, SameKeeps DEF Fail
  <1>2. CASE /\ n <= ClusterBytes /\ obj' = [obj EXCEPT ![h].size = n]
             /\ EntryWritten(h, n) /\ past' = past \cup {h} /\ UNCHANGED data
    <2> DEFINE p == obj[h].pos
    <2>1. obj[h] \in Object /\ p \in Nat /\ obj[h].file \in Files BY <1>0, OpenFacts DEF IInv
    <2>2. n \in Nat /\ n <= Reach[obj[h].file]
      <3>1. \A l \in Nat \ {0} : ClusterBytes <= ClusterBytes * l
        <4> SUFFICES ASSUME NEW l \in Nat \ {0} PROVE ClusterBytes <= ClusterBytes * l OBVIOUS
        <4>1. ClusterBytes * l = ClusterBytes + ClusterBytes * (l - 1) /\ ClusterBytes * (l - 1) \in Nat
          BY FatAssumption
        <4> QED BY <4>1, FatAssumption
      <3>2. ClusterBytes <= Reach[obj[h].file] BY <2>1, <3>1, ChainFacts
      <3> QED BY <1>2, <2>1, <3>2, ChainFacts, FatAssumption
    <2>3. p <= Reach[obj[h].file] BY <1>0 DEF IInv, PositionInFile
    <2>4. obj' = [obj EXCEPT ![h].size = n, ![h].pos = p] BY <1>2, <2>1 DEF IInv, TypeOK, Object
    <2> QED BY <1>0, <1>2, <2>1, <2>2, <2>3, <2>4, ResizedKeeps DEF IInv, TypeOK
  <1> QED BY <1>1, <1>2 DEF Truncate

-----------------------------------------------------------------------------
\* IInv is an invariant of every FAT32File, on a disk that works and on one that fails
\* at any access.
THEOREM FatInvariant == Spec => []IInv
  <1>1. IInv /\ [Next]_vars => IInv'
    <2> SUFFICES ASSUME IInv, [Next]_vars PROVE IInv' OBVIOUS
    <2>1. CASE UNCHANGED vars BY <2>1, SameKeeps DEF vars
    <2>2. CASE Next
      BY <2>2, OpenKeeps, CloseKeeps, WriteKeeps, ReadKeeps, SeekKeeps, TruncateKeeps DEF Next, Call
    <2> QED BY <2>1, <2>2
  <1> QED BY <1>1, InitInv, PTL DEF Spec

\* No size of a file that has clusters, in an object or in the directory entry, is more
\* than they can hold, so that read never gets to the end of the chain before the end of
\* the file.  A file that has none may be given a size, up to that of one cluster, by
\* write or truncate.
THEOREM SizesTheorem == Spec => []SizeFitsChain
  <1>1. IInv => SizeFitsChain
    <2> SUFFICES ASSUME IInv PROVE SizeFitsChain OBVIOUS
    <2>1. ASSUME NEW f \in Files PROVE Fits(f, entry[f])
      <3>1. entry[f] \in Nat /\ entry[f] <= Reach[f] BY DEF IInv, TypeOK, SizeInReach
      <3> QED BY <3>1, ReachFacts
    <2>2. ASSUME NEW h \in Handles, IsOpen(h) PROVE Fits(obj[h].file, obj[h].size)
      <3>1. /\ obj[h].file \in Files /\ obj[h].size \in Nat
            /\ obj[h].size <= Reach[obj[h].file]
        BY <2>2, OpenFacts DEF IInv, SizeInReach
      <3> QED BY <3>1, ReachFacts
    <2> QED BY <2>1, <2>2 DEF SizeFitsChain
  <1> QED BY <1>1, FatInvariant, PTL

\* A position never goes farther than write can get, and is behind the end of the file
\* only after this object was truncated, or a write through it was cut short by an error
\* of the disk or a bad link.
THEOREM PositionsTheorem == Spec => []PositionInFile
  <1>1. IInv => PositionInFile BY DEF IInv
  <1> QED BY <1>1, FatInvariant, PTL

\* An open file's size is the one in its directory entry, unless writing that failed or
\* another object of the file wrote it.
THEOREM DirectoryTheorem == Spec => []SizeOnDisk
  <1>1. IInv => SizeOnDisk BY DEF IInv
  <1> QED BY <1>1, FatInvariant, PTL

-----------------------------------------------------------------------------
(* Which clusters a call may write.                                        *)

\* The only thing that any call does to the disk is to store bytes of a write.
LEMMA OnlyStores ==
  ASSUME IInv, [Next]_vars
  PROVE  \/ data' = data
         \/ \E h \in Handles, s \in Strings : \E k \in 0 .. Len(s) :
              IsOpen(h) /\ data' = Stored(h, s, k)
  <1> DEFINE Stores == \/ data' = data
                       \/ \E h \in Handles, s \in Strings : \E k \in 0 .. Len(s) :
                            IsOpen(h) /\ data' = Stored(h, s, k)
  <1>1. ASSUME NEW h \in Handles, NEW s \in Strings, Write(h, s)
        PROVE  Stores
    <2>1. CASE WriteNone(h) \/ Fail(h) BY <2>1 DEF WriteNone, Fail, disk
    <2>2. CASE /\ s # <<>> /\ At(h, 0) \notin {End, Bad}
               /\ WriteAll(h, s) \/ WriteOff(h, s) \/ WriteCut(h, s)
      <3>0. IsOpen(h) /\ Len(s) \in Nat \ {0} BY <1>1, <2>2, StringsFacts DEF Write
      <3>1. obj[h].pos \in Nat /\ Reach[obj[h].file] \in Nat BY <3>0, OpenFacts DEF IInv
      <3>2. Room(h, Len(s)) \in 0 .. Len(s) BY <2>2, <3>0, <3>1, RoomFacts DEF IInv
      <3>3. Len(s) \in 0 .. Len(s) BY <3>0
      <3>4. CASE WriteAll(h, s) BY <3>0, <3>3, <3>4 DEF WriteAll
      <3>5. CASE WriteOff(h, s) BY <3>0, <3>2, <3>5 DEF WriteOff
      <3>6. CASE WriteCut(h, s)
        <4>1. PICK cut \in Cuts(h, Len(s)) : data' = Stored(h, s, cut[2]) BY <3>6 DEF WriteCut
        <4>2. cut[2] \in 0 .. Len(s) BY <2>2, <3>0, <4>1, CutFacts
        <4> QED BY <3>0, <4>1, <4>2
      <3> QED BY <2>2, <3>4, <3>5, <3>6
    <2> QED BY <1>1, <2>1, <2>2 DEF Write
  <1>2. CASE UNCHANGED vars BY <1>2 DEF vars, disk
  <1>3. CASE Next
    <2>1. PICK h \in Handles : Call(h) BY <1>3 DEF Next
    <2>2. ASSUME NEW f \in Files, Open(h, f) PROVE data' = data BY <2>2 DEF Open, disk
    <2>3. ASSUME Close(h) PROVE data' = data BY <2>3 DEF Close, disk
    <2>4. ASSUME NEW n \in 0 .. MaxIo, Read(h, n) PROVE data' = data
      BY <2>4 DEF Read, ReadSome, Fail, disk
    <2>5. ASSUME NEW n \in 0 .. ClusterBytes + 1, Truncate(h, n) PROVE data' = data
      BY <2>5 DEF Truncate, Fail, disk
    <2>6. ASSUME NEW n \in -MaxIo .. MaxIo, NEW whence \in {"SET", "CUR", "END"}, Seek(h, n, whence)
          PROVE  data' = data
      BY <2>6 DEF Seek, Fail, disk
    <2> QED BY <1>1, <2>1, <2>2, <2>3, <2>4, <2>5, <2>6 DEF Call
  <1> QED BY <1>2, <1>3

\* What a call stores is on the chain of an open file.
LEMMA OnlyOpenFiles ==
  ASSUME IInv, [Next]_vars
  PROVE  \A c \in DOMAIN data : data'[c] # data[c] =>
           \E h \in Handles : IsOpen(h) /\ c \in Range(Chain[obj[h].file])
  <1>1. DOMAIN data = Clusters \cup {Boot} BY DEF IInv, TypeOK, Contains
  <1>2. CASE data' = data BY <1>2
  <1>3. CASE \E h \in Handles, s \in Strings : \E k \in 0 .. Len(s) :
               IsOpen(h) /\ data' = Stored(h, s, k)
    <2>1. PICK h \in Handles, s \in Strings : \E k \in 0 .. Len(s) :
               IsOpen(h) /\ data' = Stored(h, s, k)
      BY <1>3
    <2>2. s \in Seq(Byte) BY StringsFacts
    <2> QED BY <1>1, <2>1, <2>2, StoredFacts DEF IInv
  <1> QED BY <1>2, <1>3, OnlyStores

\* A call of the driver changes no cluster but those of an open file.
THEOREM OthersTheorem == Spec => OthersUntouched
  <1>1. IInv /\ [Next]_vars =>
          [\A c \in DOMAIN data : data'[c] # data[c] =>
             \E h \in Handles : IsOpen(h) /\ c \in Range(Chain[obj[h].file])]_vars
    BY OnlyOpenFiles
  <1> QED BY <1>1, FatInvariant, PTL DEF Spec, OthersUntouched

-----------------------------------------------------------------------------
(* The refinement.                                                         *)

\* The byte that Contents takes for index j, and the bytes of a sound file.
ByteAt(j) == data[Walk(Watched, (j - 1) \div ClusterBytes)][(j - 1) % ClusterBytes]
Whole == \A c \in Range(Chain[Watched]) : data[c] \in [Offsets -> Byte]

\* Nothing fails on a calm disk, and one object at a time is open.
Alone == calm => /\ stale = {}
                 /\ \A g, h \in Handles : IsOpen(g) /\ IsOpen(h) => g = h

\* A file that a program can expect something of: it has clusters, they are no
\* other file's, and its chain comes to its proper end.
Good ==
  /\ Watched \in Files /\ First[Watched] # Boot
  /\ Link(Chain[Watched][Len(Chain[Watched])]) = End
  /\ \A f \in Files \ {Watched} : Range(Chain[f]) \cap Range(Chain[Watched]) = {}

LEMMA GoodCapacity == Good => Capacity[Watched] = Reach[Watched]
  BY ReachFacts DEF Good

RInv == IInv /\ Alone /\ Whole

\* A chain that comes to an end has no cluster twice.
LEMMA ChainDistinct ==
  ASSUME NEW f \in Files
  PROVE  \A i, j \in 1 .. Len(Chain[f]) : Chain[f][i] = Chain[f][j] => i = j
  <1> DEFINE c == Chain[f]
             l == Len(c)
  <1>0. /\ l \in Nat \ {0}
        /\ \A i \in 1 .. l : c[i] \in Clusters \cup {Boot}
        /\ \A i \in 1 .. l - 1 : c[i + 1] = Link(c[i])
        /\ Link(c[l]) \notin Clusters \cup {Boot}
    BY ChainFacts, ChainAssumption
  <1> HIDE DEF c
  <1>1. ASSUME NEW i \in 1 .. l, NEW j \in 1 .. l, c[i] = c[j], i < j PROVE FALSE
    <2> DEFINE T == {k \in 0 .. l - j : c[i + k] # c[j + k]}
    <2>1. T = {}
      <3> SUFFICES ASSUME T # {} PROVE FALSE OBVIOUS
      <3>1. T \in SUBSET Nat OBVIOUS
      <3>2. PICK m \in T : \A k \in T : m <= k
        <4> HIDE DEF T
        <4> QED BY <3>1, Least
      <3>3. m \in 0 .. l - j /\ c[i + m] # c[j + m] BY <3>2
      <3>4. m # 0 BY <1>0, <1>1, <3>3
      <3>5. m - 1 \in 0 .. l - j /\ m - 1 \notin T
        <4>1. m \in Nat /\ m - 1 \in 0 .. l - j BY <1>0, <3>3, <3>4
        <4> HIDE DEF T
        <4>2. m - 1 \in T => m <= m - 1 BY <3>2
        <4> QED BY <4>1, <4>2
      <3>6. c[i + (m - 1)] = c[j + (m - 1)] BY <3>5
      <3>7. /\ i + (m - 1) \in 1 .. l - 1 /\ (i + (m - 1)) + 1 = i + m
            /\ j + (m - 1) \in 1 .. l - 1 /\ (j + (m - 1)) + 1 = j + m
        BY <1>0, <1>1, <3>3, <3>4
      <3>8. c[i + m] = Link(c[i + (m - 1)]) /\ c[j + m] = Link(c[j + (m - 1)]) BY <1>0, <3>7
      <3> QED BY <3>3, <3>6, <3>8
    <2>2. l - j \in 0 .. l - j /\ j + (l - j) = l BY <1>0
    <2>3. c[i + (l - j)] = c[l] BY <2>1, <2>2
    <2>4. i + (l - j) \in 1 .. l - 1 /\ (i + (l - j)) + 1 \in 1 .. l BY <1>0, <1>1
    <2>5. c[(i + (l - j)) + 1] = Link(c[l]) BY <1>0, <2>3, <2>4
    <2> QED BY <1>0, <2>4, <2>5
  <1>2. \A i, j \in 1 .. l : c[i] = c[j] => i = j
    <2> SUFFICES ASSUME NEW i \in 1 .. l, NEW j \in 1 .. l, c[i] = c[j] PROVE i = j OBVIOUS
    <2>1. ~ (i < j) BY <1>1
    <2>2. ~ (j < i) BY <1>1
    <2> QED BY <1>0, <2>1, <2>2
  <1> QED BY <1>2 DEF c

\* Different bytes of a file are at different places.
LEMMA PlacesDistinct ==
  ASSUME NEW f \in Files, NEW a \in Nat, NEW b \in Nat, a < Reach[f], b < Reach[f],
         Walk(f, a \div ClusterBytes) = Walk(f, b \div ClusterBytes),
         a % ClusterBytes = b % ClusterBytes
  PROVE  a = b
  <1>0. ClusterBytes \in Nat \ {0} BY FatAssumption
  <1> DEFINE i == a \div ClusterBytes
             j == b \div ClusterBytes
  <1>1. /\ i \in Nat /\ j \in Nat
        /\ a = ClusterBytes * i + (a % ClusterBytes)
        /\ b = ClusterBytes * j + (b % ClusterBytes)
    BY <1>0, Division
  <1>2. i < Len(Chain[f]) /\ j < Len(Chain[f])
    <2>1. Len(Chain[f]) \in Nat /\ Reach[f] = ClusterBytes * Len(Chain[f]) BY ChainFacts
    <2>2. \A m \in Nat : a \div ClusterBytes < m <=> a < ClusterBytes * m BY <1>0, Division
    <2>3. \A m \in Nat : b \div ClusterBytes < m <=> b < ClusterBytes * m BY <1>0, Division
    <2> QED BY <2>1, <2>2, <2>3
  <1> HIDE DEF i, j
  <1>3. Walk(f, i) = Chain[f][i + 1] /\ Walk(f, j) = Chain[f][j + 1] BY <1>1, <1>2, WalkFacts
  <1>4. Chain[f][i + 1] = Chain[f][j + 1] BY <1>3 DEF i, j
  <1>5. i + 1 \in 1 .. Len(Chain[f]) /\ j + 1 \in 1 .. Len(Chain[f]) BY <1>1, <1>2, ChainFacts
  <1>6. i + 1 = j + 1 BY <1>4, <1>5, ChainDistinct
  <1>7. i = j BY <1>1, <1>6
  <1> QED BY <1>1, <1>7

\* A file with a first cluster has no piece at LBA 0.
LEMMA GoodHasNoBoot ==
  ASSUME Good
  PROVE  Boot \notin Range(Chain[Watched])
  <1> DEFINE c == Chain[Watched]
  <1>0. Watched \in Files /\ c[1] # Boot BY ChainAssumption DEF Good
  <1>1. /\ Len(c) \in Nat \ {0}
        /\ \A i \in 1 .. Len(c) : c[i] \in Clusters \cup {Boot}
        /\ \A i \in 1 .. Len(c) - 1 : c[i + 1] = Link(c[i])
        /\ Range(c) = {c[i] : i \in 1 .. Len(c)}
    BY <1>0, ChainFacts, ChainAssumption
  <1> HIDE DEF c
  <1>2. ASSUME NEW i \in 1 .. Len(c), c[i] = Boot PROVE FALSE
    <2>1. i # 1 BY <1>0, <1>2
    <2>2. i - 1 \in 1 .. Len(c) - 1 /\ (i - 1) + 1 = i BY <1>1, <2>1
    <2>3. Link(c[i - 1]) = Boot BY <1>1, <1>2, <2>2
    <2>4. c[i - 1] \in Clusters \cup {Boot} BY <1>1, <2>2
    <2>5. Boot \notin Clusters \cup {End, Bad} BY FatAssumption DEF Boot, End, Bad
    <2> QED BY <2>3, <2>4, <2>5, FatAssumption DEF Link, Bad, Boot
  <1>3. Boot \notin Range(c) BY <1>1, <1>2
  <1> QED BY <1>3 DEF c

\* A write stores bytes.
LEMMA WholeKept ==
  ASSUME IInv, Whole, Good, NEW h \in Handles, IsOpen(h), NEW s \in Strings,
         NEW k \in 0 .. Len(s), data' = Stored(h, s, k)
  PROVE  Whole'
  <1> DEFINE here(c, o) == {w \in 0 .. k - 1 : At(h, w) = c /\ Place(h, w) = o}
  <1>0. Watched \in Files /\ s \in Seq(Byte) /\ Len(s) \in Nat BY StringsFacts DEF Good
  <1>1. \A c \in Clusters \cup {Boot}, o \in Offsets :
          data'[c][o] = IF here(c, o) = {} THEN data[c][o]
                        ELSE s[(CHOOSE w \in here(c, o) : TRUE) + 1]
    <2>1. DOMAIN data = Clusters \cup {Boot} BY DEF IInv, TypeOK, Contains
    <2> QED BY <2>1 DEF Stored
  <1>2. Whole'
    <2> SUFFICES ASSUME NEW c \in Range(Chain[Watched]) PROVE data'[c] \in [Offsets -> Byte]
      BY DEF Whole
    <2>0. PICK i \in 1 .. Len(Chain[Watched]) : c = Chain[Watched][i]
      <3>1. Range(Chain[Watched]) = {Chain[Watched][i] : i \in 1 .. Len(Chain[Watched])}
        BY <1>0, ChainFacts
      <3> QED BY <3>1
    <2>1. c \in Clusters \cup {Boot} BY <1>0, <2>0, ChainFacts
    <2>2. data' \in Contains BY <1>0, StoredFacts DEF IInv
    <2>3. DOMAIN data'[c] = Offsets /\ data'[c] = [o \in Offsets |-> data'[c][o]]
      BY <2>1, <2>2 DEF Contains
    <2>4. ASSUME NEW o \in Offsets PROVE data'[c][o] \in Byte
      <3>1. data[c][o] \in Byte BY DEF Whole
      <3>2. CASE here(c, o) = {} BY <1>1, <2>1, <3>1, <3>2
      <3>3. CASE here(c, o) # {}
        <4>1. PICK w \in here(c, o) : w = CHOOSE v \in here(c, o) : TRUE BY <3>3
        <4>2. w + 1 \in 1 .. Len(s) BY <1>0, <4>1
        <4> HIDE DEF here
        <4>3. data'[c][o] = s[w + 1] BY <1>1, <2>1, <3>3, <4>1
        <4> QED BY <1>0, <4>2, <4>3
      <3> QED BY <3>2, <3>3
    <2> QED BY <2>3, <2>4
  <1> QED BY <1>2

\* What the watched file holds after k bytes of s were written from p on.
LEMMA StoredBytes ==
  ASSUME IInv, Whole, Good, NEW h \in Handles, IsOpen(h), obj[h].file = Watched,
         NEW s \in Seq(Byte), NEW k \in 0 .. Len(s), obj[h].pos + k <= Reach[Watched],
         data' = Stored(h, s, k)
  PROVE  \A j \in 1 .. Reach[Watched] :
           ByteAt(j)' = IF j - obj[h].pos \in 1 .. k THEN s[j - obj[h].pos] ELSE ByteAt(j)
  <1> DEFINE p == obj[h].pos
             here(c, o) == {w \in 0 .. k - 1 : At(h, w) = c /\ Place(h, w) = o}
  <1>0. Watched \in Files /\ p \in Nat /\ Reach[Watched] \in Nat /\ k \in Nat /\ Len(s) \in Nat
    BY OpenFacts DEF IInv, Good
  <1>1. \A c \in Clusters \cup {Boot}, o \in Offsets :
          data'[c][o] = IF here(c, o) = {} THEN data[c][o]
                        ELSE s[(CHOOSE w \in here(c, o) : TRUE) + 1]
    <2>1. DOMAIN data = Clusters \cup {Boot} BY DEF IInv, TypeOK, Contains
    <2> QED BY <2>1 DEF Stored
  <1>2. ASSUME NEW j \in 1 .. Reach[Watched]
        PROVE  ByteAt(j)' = IF j - p \in 1 .. k THEN s[j - p] ELSE ByteAt(j)
    <2> DEFINE a == j - 1
               c == Walk(Watched, a \div ClusterBytes)
               o == a % ClusterBytes
    <2>1. a \in Nat /\ a < Reach[Watched] BY <1>0
    <2>2. c \in Clusters \cup {Boot} /\ o \in Offsets
      <3>1. /\ a \div ClusterBytes \in Nat /\ a % ClusterBytes \in 0 .. ClusterBytes - 1
            /\ a \div ClusterBytes < Len(Chain[Watched])
        <4>1. Len(Chain[Watched]) \in Nat /\ Reach[Watched] = ClusterBytes * Len(Chain[Watched])
          BY <1>0, ChainFacts
        <4> HIDE DEF a
        <4>2. /\ a \div ClusterBytes \in Nat /\ a % ClusterBytes \in 0 .. ClusterBytes - 1
              /\ \A m \in Nat : a \div ClusterBytes < m <=> a < ClusterBytes * m
          BY <2>1, Division, FatAssumption
        <4> QED BY <2>1, <4>1, <4>2
      <3> QED BY <1>0, <3>1, WalkFacts DEF Offsets
    <2>3. ASSUME NEW w \in 0 .. k - 1 PROVE (At(h, w) = c /\ Place(h, w) = o) <=> w = a - p
      <3>1. p + w \in Nat /\ p + w < Reach[Watched] BY <1>0
      <3>2. At(h, w) = Walk(Watched, (p + w) \div ClusterBytes) /\ Place(h, w) = (p + w) % ClusterBytes
        BY DEF At, Place
      <3>3. At(h, w) = c /\ Place(h, w) = o => p + w = a
        BY <1>0, <2>1, <3>1, <3>2, PlacesDistinct
      <3>4. p + w = a => At(h, w) = c /\ Place(h, w) = o BY <3>2
      <3>5. p + w = a <=> w = a - p BY <1>0, <2>1
      <3> QED BY <3>3, <3>4, <3>5
    <2>4. here(c, o) = {w \in 0 .. k - 1 : w = a - p} BY <2>3
    <2>5. ByteAt(j) = data[c][o] /\ ByteAt(j)' = data'[c][o] BY DEF ByteAt
    <2> HIDE DEF here, c, o
    <2>6. CASE j - p \in 1 .. k
      <3>1. a - p \in 0 .. k - 1 /\ (a - p) + 1 = j - p
        <4>1. p \in Nat /\ k \in Nat BY <1>0
        <4> HIDE DEF p
        <4> QED BY <2>6, <4>1
      <3>2. here(c, o) = {a - p} BY <2>4, <3>1
      <3>3. (CHOOSE w \in here(c, o) : TRUE) = a - p BY <3>2
      <3>4. data'[c][o] = s[(CHOOSE w \in here(c, o) : TRUE) + 1] BY <1>1, <2>2, <3>2
      <3>5. data'[c][o] = s[j - p] BY <3>1, <3>3, <3>4
      <3> QED BY <2>5, <2>6, <3>5
    <2>7. CASE ~ (j - p \in 1 .. k)
      <3>1. ~ (a - p \in 0 .. k - 1) BY <1>0, <2>7
      <3>2. here(c, o) = {} BY <2>4, <3>1
      <3> QED BY <1>1, <2>2, <2>5, <2>7, <3>2
    <2> QED BY <2>6, <2>7
  <1> QED BY <1>2

\* Nothing but Open opens a file, and a calm disk fails no call.
LEMMA AloneKeeps ==
  ASSUME IInv, Alone, NEW h \in Handles, Call(h)
  PROVE  Alone'
  <1>1. ASSUME calm' = calm, \A g \in Handles : IsOpen(g)' => IsOpen(g),
               calm => stale' \subseteq stale \cup Others(h), IsOpen(h)
        PROVE  Alone'
    <2> SUFFICES ASSUME calm
                 PROVE  stale' = {} /\ \A a, b \in Handles : IsOpen(a)' /\ IsOpen(b)' => a = b
      BY <1>1 DEF Alone
    <2>1. Others(h) = {} BY <1>1 DEF Alone, Others
    <2> QED BY <1>1, <2>1 DEF Alone
  <1>2. CASE UNCHANGED <<obj, hist>> BY <1>2 DEF hist, Alone, IsOpen
  <1>3. ASSUME NEW f \in Files, Open(h, f) PROVE Alone'
    <2>1. UNCHANGED <<calm, stale>> BY <1>3 DEF Open, hist
    <2>2. calm => \A g \in Handles : ~ IsOpen(g) BY <1>3 DEF Open
    <2>3. \A g \in Handles : g # h => (IsOpen(g)' <=> IsOpen(g))
      BY <1>3 DEF Open, IsOpen, IInv, TypeOK
    <2> QED BY <2>1, <2>2, <2>3 DEF Alone
  <1>4. CASE Close(h)
    <2>1. /\ calm' = calm /\ stale' = stale \ {h}
          /\ \A g \in Handles : IsOpen(g)' => IsOpen(g)
      BY <1>4 DEF Close, IsOpen, IInv, TypeOK
    <2> QED BY <1>1, <1>4, <2>1 DEF Close
  <1>5. ASSUME IsOpen(h), calm' = calm, calm => stale' \subseteq stale \cup Others(h),
               NEW n, NEW p, obj' = [obj EXCEPT ![h].size = n, ![h].pos = p]
               \/ obj' = [obj EXCEPT ![h].pos = p] \/ obj' = [obj EXCEPT ![h].size = n]
        PROVE  Alone'
    <2>1. \A g \in Handles : IsOpen(g)' => IsOpen(g) BY <1>5 DEF IsOpen, IInv, TypeOK
    <2> QED BY <1>1, <1>5, <2>1
  <1>6. ASSUME NEW s \in Strings, Write(h, s) PROVE Alone'
    <2>1. IsOpen(h) BY <1>6 DEF Write
    <2>2. CASE WriteNone(h) \/ Fail(h) BY <1>2, <2>2 DEF WriteNone, Fail
    <2>3. CASE WriteAll(h, s)
      <3>1. obj' = [obj EXCEPT ![h].pos = obj[h].pos + Len(s), ![h].size = Max({@, obj[h].pos + Len(s)})]
        BY <2>3 DEF WriteAll
      <3>2. obj' = [obj EXCEPT ![h].size = Max({obj[h].size, obj[h].pos + Len(s)}),
                               ![h].pos = obj[h].pos + Len(s)]
        BY <2>1, <3>1, OpenFacts DEF IInv, TypeOK, Object
      <3>3. calm' = calm BY <2>3 DEF WriteAll
      <3>4. calm => stale' \subseteq stale \cup Others(h)
        BY <2>3 DEF WriteAll, Failures, EntryWritten
      <3> QED BY <1>5, <2>1, <3>2, <3>3, <3>4
    <2>4. CASE WriteOff(h, s)
      <3>1. UNCHANGED <<calm, stale>> BY <2>4 DEF WriteOff
      <3>2. CASE UNCHANGED obj BY <3>1, <3>2 DEF Alone, IsOpen
      <3>3. CASE Move(h, Room(h, Len(s)))
        <4>1. obj' = [obj EXCEPT ![h].pos = obj[h].pos + Room(h, Len(s))]
          BY <3>3 DEF Move, IInv, TypeOK
        <4> QED BY <1>5, <2>1, <3>1, <4>1
      <3> QED BY <2>4, <3>2, <3>3 DEF WriteOff
    <2>5. CASE WriteCut(h, s) BY <2>5 DEF WriteCut, Alone
    <2> QED BY <1>6, <2>2, <2>3, <2>4, <2>5 DEF Write
  <1>7. ASSUME NEW n \in Nat, ReadSome(h, n), IsOpen(h) PROVE Alone'
    <2>1. UNCHANGED <<calm, stale>> BY <1>7 DEF ReadSome, hist
    <2>2. CASE UNCHANGED obj BY <2>1, <2>2 DEF Alone, IsOpen
    <2>3. ASSUME NEW w, Move(h, w) PROVE Alone'
      <3>1. obj' = [obj EXCEPT ![h].pos = obj[h].pos + w] BY <2>3 DEF Move, IInv, TypeOK
      <3> QED BY <1>5, <1>7, <2>1, <3>1
    <2> QED BY <1>7, <2>2, <2>3 DEF ReadSome
  <1>8. ASSUME NEW n \in 0 .. MaxIo, Read(h, n) PROVE Alone'
    <2>0. IsOpen(h) BY <1>8 DEF Read
    <2>1. CASE Fail(h) BY <1>2, <2>1 DEF Fail
    <2>2. CASE UNCHANGED <<disk, obj, hist>> BY <1>2, <2>2
    <2>3. CASE /\ ~ (n = 0 \/ obj[h].pos >= obj[h].size)
               /\ ReadSome(h, Min({n, obj[h].size - obj[h].pos}))
      <3>1. obj[h].pos \in Nat /\ obj[h].size \in Nat BY <2>0, OpenFacts DEF IInv
      <3>2. n \in Nat /\ obj[h].size - obj[h].pos \in Nat BY <2>3, <3>1, FatAssumption
      <3>3. Min({n, obj[h].size - obj[h].pos}) \in Nat BY <3>2, MinMaxOfTwo
      <3> QED BY <1>7, <2>0, <2>3, <3>3
    <2> QED BY <1>8, <2>1, <2>2, <2>3 DEF Read
  <1>9. ASSUME NEW n \in 0 .. ClusterBytes + 1, Truncate(h, n) PROVE Alone'
    <2>1. CASE Fail(h) BY <1>2, <2>1 DEF Fail
    <2>2. CASE obj' = [obj EXCEPT ![h].size = n] /\ EntryWritten(h, n)
      BY <1>5, <1>9, <2>2 DEF Truncate, EntryWritten
    <2> QED BY <1>9, <2>1, <2>2 DEF Truncate
  <1>10. ASSUME NEW n \in -MaxIo .. MaxIo, NEW whence \in {"SET", "CUR", "END"}, Seek(h, n, whence)
         PROVE  Alone'
    <2>1. CASE Fail(h) BY <1>2, <2>1 DEF Fail
    <2>2. ASSUME NEW w, Move(h, w), UNCHANGED hist PROVE Alone'
      <3>1. obj' = [obj EXCEPT ![h].pos = obj[h].pos + w] BY <2>2 DEF Move, IInv, TypeOK
      <3> QED BY <1>5, <1>10, <2>2, <3>1 DEF Seek, hist
    <2> QED BY <1>10, <2>1, <2>2 DEF Seek
  <1> QED BY <1>3, <1>4, <1>6, <1>8, <1>9, <1>10 DEF Call

-----------------------------------------------------------------------------
(* What ByteFile sees.                                                     *)

\* The watched file is a sequence of as many bytes as its directory entry says.
LEMMA ContentsFacts ==
  RInv /\ Good =>
    /\ entry[Watched] \in 0 .. Reach[Watched] /\ Reach[Watched] \in Nat
    /\ \A j \in 1 .. Reach[Watched] : ByteAt(j) \in Byte
    /\ Contents(Watched) \in Seq(Byte)
    /\ Len(Contents(Watched)) = entry[Watched]
    /\ \A j \in 1 .. entry[Watched] : Contents(Watched)[j] = ByteAt(j)
  <1> SUFFICES ASSUME RInv, Good
               PROVE  /\ entry[Watched] \in 0 .. Reach[Watched] /\ Reach[Watched] \in Nat
                      /\ \A j \in 1 .. Reach[Watched] : ByteAt(j) \in Byte
                      /\ Contents(Watched) \in Seq(Byte)
                      /\ Len(Contents(Watched)) = entry[Watched]
                      /\ \A j \in 1 .. entry[Watched] : Contents(Watched)[j] = ByteAt(j)
    OBVIOUS
  <1>1. Watched \in Files /\ Reach[Watched] \in Nat BY ChainFacts DEF Good
  <1>2. entry[Watched] \in 0 .. Reach[Watched]
    BY <1>1 DEF RInv, IInv, TypeOK, SizeInReach
  <1>3. ASSUME NEW j \in 1 .. Reach[Watched] PROVE ByteAt(j) \in Byte
    <2> DEFINE a == j - 1
    <2>1. a \in Nat /\ a < Reach[Watched] BY <1>1
    <2>2. /\ a \div ClusterBytes \in Nat /\ a % ClusterBytes \in Offsets
          /\ a \div ClusterBytes < Len(Chain[Watched])
      <3>1. Len(Chain[Watched]) \in Nat /\ Reach[Watched] = ClusterBytes * Len(Chain[Watched])
        BY <1>1, ChainFacts
      <3> HIDE DEF a
      <3>2. /\ a \div ClusterBytes \in Nat /\ a % ClusterBytes \in 0 .. ClusterBytes - 1
            /\ \A m \in Nat : a \div ClusterBytes < m <=> a < ClusterBytes * m
        BY <2>1, Division, FatAssumption
      <3> QED BY <2>1, <3>1, <3>2 DEF Offsets
    <2>3. Walk(Watched, a \div ClusterBytes) \in Range(Chain[Watched]) BY <1>1, <2>2, WalkFacts
    <2>4. data[Walk(Watched, a \div ClusterBytes)] \in [Offsets -> Byte] BY <2>3 DEF RInv, Whole
    <2> QED BY <2>2, <2>4 DEF ByteAt
  <1>4. Contents(Watched) = [j \in 1 .. entry[Watched] |-> ByteAt(j)] BY DEF Contents, ByteAt
  <1>5. \A j \in 1 .. entry[Watched] : ByteAt(j) \in Byte BY <1>1, <1>2, <1>3
  <1>6. Contents(Watched) \in [1 .. entry[Watched] -> Byte] BY <1>4, <1>5
  <1>7. entry[Watched] \in Nat BY <1>1, <1>2
  <1>8. Contents(Watched) \in Seq(Byte) /\ Len(Contents(Watched)) = entry[Watched] BY <1>6, <1>7
  <1> HIDE DEF RInv
  <1> QED BY <1>1, <1>2, <1>3, <1>4, <1>8

\* On a calm disk ByteFile's position is that of the only open object.
LEMMA PositionFacts ==
  RInv /\ Good /\ calm =>
    \A h \in Handles :
      IsOpen(h) => Position(Watched) = IF obj[h].file = Watched THEN obj[h].pos ELSE -1
  <1> SUFFICES ASSUME RInv, Good, calm, NEW h \in Handles, IsOpen(h)
               PROVE  Position(Watched) = IF obj[h].file = Watched THEN obj[h].pos ELSE -1
    OBVIOUS
  <1> DEFINE H == {g \in Handles : IsOpen(g) /\ obj[g].file = Watched}
  <1>1. H = IF obj[h].file = Watched THEN {h} ELSE {} BY DEF RInv, Alone
  <1>2. Position(Watched) = IF H = {} THEN -1 ELSE obj[CHOOSE g \in H : TRUE].pos BY DEF Position
  <1> HIDE DEF H
  <1>3. CASE obj[h].file = Watched
    <2>1. (CHOOSE g \in H : TRUE) = h BY <1>1, <1>3
    <2> QED BY <1>1, <1>2, <1>3, <2>1
  <1>4. CASE obj[h].file # Watched BY <1>1, <1>2, <1>4
  <1> QED BY <1>3, <1>4

\* With nothing open, ByteFile's file is closed.
LEMMA NoneOpen ==
  (\A h \in Handles : ~ IsOpen(h)) => Position(Watched) = -1
  BY DEF Position

\* The step of an object on the watched file, on a calm disk.
LEMMA Situation ==
  ASSUME RInv, Good, calm, NEW h \in Handles, IsOpen(h), obj[h].file = Watched
  PROVE  /\ AbsBytes = Contents(Watched) /\ AbsPos = obj[h].pos
         /\ obj[h].pos \in 0 .. Reach[Watched] /\ Reach[Watched] \in Nat
         /\ obj[h].size = entry[Watched] /\ entry[Watched] \in 0 .. Reach[Watched]
         /\ obj[h] \in Object
  <1>1. obj[h] \in Object /\ obj[h].pos \in Nat /\ Reach[Watched] \in Nat
    BY OpenFacts DEF RInv, IInv
  <1>2. obj[h].pos <= Reach[Watched] BY DEF RInv, IInv, PositionInFile
  <1>3. obj[h].size = entry[Watched] BY DEF RInv, IInv, SizeOnDisk, Alone
  <1>4. AbsBytes = Contents(Watched) /\ AbsPos = obj[h].pos
    BY PositionFacts DEF AbsBytes, AbsPos
  <1>5. entry[Watched] \in 0 .. Reach[Watched] BY ContentsFacts
  <1> QED BY <1>1, <1>2, <1>3, <1>4, <1>5

\* The same of ByteFile's variables alone, for use after a step.
LEMMA SituationAfter ==
  RInv /\ Good /\ calm =>
    /\ AbsBytes = Contents(Watched)
    /\ \A h \in Handles : IsOpen(h) /\ obj[h].file = Watched => AbsPos = obj[h].pos
  BY PositionFacts DEF AbsBytes, AbsPos

\* ContentsFacts after a step.
LEMMA ContentsAfter ==
  RInv' /\ Good =>
    /\ \A j \in 1 .. Reach[Watched] : ByteAt(j)' \in Byte
    /\ Contents(Watched)' \in Seq(Byte)
    /\ Len(Contents(Watched)') = entry'[Watched]
    /\ \A j \in 1 .. entry'[Watched] : Contents(Watched)'[j] = ByteAt(j)'
  <1>1. Good' = Good BY DEF Good
  <1>2. (RInv /\ Good =>
           /\ \A j \in 1 .. Reach[Watched] : ByteAt(j) \in Byte
           /\ Contents(Watched) \in Seq(Byte)
           /\ Len(Contents(Watched)) = entry[Watched]
           /\ \A j \in 1 .. entry[Watched] : Contents(Watched)[j] = ByteAt(j))'
    BY ContentsFacts, PTL
  <1> QED BY <1>1, <1>2

\* SituationAfter after a step.
LEMMA PositionAfter ==
  RInv' /\ Good /\ calm' =>
    /\ AbsBytes' = Contents(Watched)'
    /\ \A h \in Handles : IsOpen(h)' /\ obj'[h].file = Watched => AbsPos' = obj'[h].pos
  <1>1. Good' = Good BY DEF Good
  <1>2. (RInv /\ Good /\ calm =>
           /\ AbsBytes = Contents(Watched)
           /\ \A h \in Handles : IsOpen(h) /\ obj[h].file = Watched => AbsPos = obj[h].pos)'
    BY SituationAfter, PTL
  <1> QED BY <1>1, <1>2

\* What a call leaves alone, ByteFile sees unchanged.
LEMMA SameAbs ==
  ASSUME UNCHANGED <<data, entry, obj, calm>>
  PROVE  AbsBytes' = AbsBytes /\ AbsPos' = AbsPos
  BY DEF AbsBytes, AbsPos, Contents, Position, IsOpen

\* A call on the watched file that moves its position, and changes no byte.
LEMMA MovedAbs ==
  ASSUME RInv, RInv', Good, calm, NEW h \in Handles, IsOpen(h), obj[h].file = Watched,
         UNCHANGED <<data, entry, calm>>, NEW q \in Nat, obj' = [obj EXCEPT ![h].pos = q]
  PROVE  AbsBytes' = AbsBytes /\ AbsPos' = q
  <1>1. AbsBytes' = AbsBytes BY DEF AbsBytes, Contents
  <1>2. obj[h] \in Object BY Situation
  <1>3. IsOpen(h)' /\ obj'[h].file = Watched /\ obj'[h].pos = q
    BY <1>2 DEF IsOpen, RInv, IInv, TypeOK, Object, Closed
  <1> QED BY <1>1, <1>3, PositionAfter

\* A call that returns -1 and changes nothing is refused.
LEMMA FailRefines ==
  ASSUME RInv, Good, calm, NEW h \in Handles, IsOpen(h), obj[h].file = Watched, Fail(h)
  PROVE  Abs!Refuse
  <1>1. AbsBytes' = AbsBytes /\ AbsPos' = AbsPos BY SameAbs DEF Fail, disk, hist
  <1>2. result' = <<-1, <<>>>> BY DEF Fail, Return, Answer
  <1>3. AbsPos # -1 BY Situation
  <1> QED BY <1>1, <1>2, <1>3 DEF Abs!Refuse

\* A transfer of no bytes reads none.
LEMMA NothingRefines ==
  ASSUME RInv, Good, calm, NEW h \in Handles, IsOpen(h), obj[h].file = Watched,
         Return(h, 0), UNCHANGED <<disk, obj, hist>>
  PROVE  Abs!Read(0)
  <1>1. AbsBytes' = AbsBytes /\ AbsPos' = AbsPos BY SameAbs DEF disk, hist
  <1>2. result' = <<0, <<>>>> BY DEF Return, Answer
  <1>3. AbsPos \in Nat /\ AbsBytes \in Seq(Byte) /\ Len(AbsBytes) \in Nat
    BY Situation, ContentsFacts
  <1>4. Abs!Smaller(AbsPos + 0, Len(AbsBytes)) <= AbsPos
        /\ Abs!Smaller(AbsPos + 0, Len(AbsBytes)) \in Nat
    BY <1>3 DEF Abs!Smaller
  <1>5. SubSeq(AbsBytes, AbsPos + 1, Abs!Smaller(AbsPos + 0, Len(AbsBytes))) = <<>>
    BY <1>3, <1>4
  <1> DEFINE g == SubSeq(AbsBytes, AbsPos + 1, Abs!Smaller(AbsPos + 0, Len(AbsBytes)))
  <1>6. /\ g = <<>> /\ AbsPos # -1 /\ result' = <<Len(g), g>> /\ AbsPos' = AbsPos + Len(g)
        /\ AbsBytes' = AbsBytes
    <2>1. g = <<>> BY <1>5
    <2> HIDE DEF g
    <2>2. Len(g) = 0 BY <2>1
    <2> QED BY <1>1, <1>2, <1>3, <2>1, <2>2
  <1> HIDE DEF g
  <1>7. Abs!Read(0) <=> /\ AbsPos # -1
                        /\ result' = <<Len(g), g>> /\ AbsPos' = AbsPos + Len(g)
                        /\ UNCHANGED AbsBytes
    BY DEF Abs!Read, g
  <1> QED BY <1>6, <1>7

\* The loop of read on a calm disk delivers the bytes from the position on.
LEMMA ReadSomeRefines ==
  ASSUME RInv, RInv', Good, calm, NEW h \in Handles, IsOpen(h), obj[h].file = Watched,
         NEW m \in Nat \ {0}, obj[h].pos + m <= obj[h].size, At(h, 0) \notin {End, Bad},
         ReadSome(h, m)
  PROVE  Abs!Read(m)
  <1> DEFINE p == obj[h].pos
             cap == Reach[Watched]
  <1>1. /\ p \in Nat /\ cap \in Nat /\ obj[h].size = entry[Watched] /\ entry[Watched] \in 0 .. cap
        /\ AbsBytes = Contents(Watched) /\ AbsPos = p
    BY Situation
  <1>2. Room(h, m) = m BY <1>1, RoomFacts DEF RInv, IInv
  <1>3. Move(h, m) /\ Deliver(h, BytesAt(h, m)) /\ UNCHANGED <<disk, hist>>
    <2>1. UNCHANGED <<disk, hist>> BY DEF ReadSome
    <2>2. PICK w \in Starts(h, m) \cup {m} :
            /\ w = Room(h, m)
            /\ ~ (w < m /\ At(h, w) = End) => Move(h, w) /\ (w > 0 => Deliver(h, BytesAt(h, w)))
      BY DEF ReadSome, Failures
    <2> QED BY <1>2, <2>1, <2>2
  <1>4. /\ Len(BytesAt(h, m)) = m /\ DOMAIN BytesAt(h, m) = 1 .. m
        /\ \A i \in 1 .. m : BytesAt(h, m)[i] = ByteAt(p + i)
    <2>1. BytesAt(h, m) = [i \in 1 .. m |-> data[At(h, i - 1)][Place(h, i - 1)]] BY DEF BytesAt
    <2>2. \A i \in 1 .. m : data[At(h, i - 1)][Place(h, i - 1)] = ByteAt(p + i)
      <3> SUFFICES ASSUME NEW i \in 1 .. m
                   PROVE  data[At(h, i - 1)][Place(h, i - 1)] = ByteAt(p + i)
        OBVIOUS
      <3>1. p + (i - 1) = (p + i) - 1 BY <1>1
      <3> QED BY <3>1 DEF At, Place, ByteAt
    <2> QED BY <2>1, <2>2
  <1>5. AbsBytes' = AbsBytes /\ AbsPos' = p + m
    <2>1. p + m \in Nat /\ obj' = [obj EXCEPT ![h].pos = p + m]
      BY <1>1, <1>3 DEF Move, RInv, IInv, TypeOK
    <2>2. UNCHANGED <<data, entry, calm>> BY <1>3 DEF disk, hist
    <2> HIDE DEF p
    <2> QED BY <2>1, <2>2, MovedAbs
  <1>6. BytesAt(h, m) = SubSeq(AbsBytes, p + 1, Abs!Smaller(p + m, Len(AbsBytes)))
    <2>1. AbsBytes \in Seq(Byte) /\ Len(AbsBytes) = entry[Watched] BY <1>1, ContentsFacts
    <2>2. p + m <= entry[Watched] BY <1>1
    <2>3. Abs!Smaller(p + m, Len(AbsBytes)) = p + m BY <1>1, <2>1, <2>2 DEF Abs!Smaller
    <2>4. SubSeq(AbsBytes, p + 1, p + m) = [i \in 1 .. m |-> AbsBytes[p + i]]
      <3>1. /\ Len(SubSeq(AbsBytes, p + 1, p + m)) = m
            /\ \A i \in 1 .. m : SubSeq(AbsBytes, p + 1, p + m)[i] = AbsBytes[p + i]
            /\ SubSeq(AbsBytes, p + 1, p + m) \in Seq(Byte)
        <4>1. p + 1 \in 1 .. Len(AbsBytes) + 1 /\ p + m \in (p + 1) - 1 .. Len(AbsBytes)
          <5>1. p \in Nat /\ Len(AbsBytes) \in Nat /\ p + m <= Len(AbsBytes) BY <1>1, <2>1, <2>2
          <5> HIDE DEF p
          <5> QED BY <5>1
        <4>2. (p + m) - (p + 1) + 1 = m /\ \A i \in 1 .. m : (p + 1) + i - 1 = p + i BY <1>1
        <4> HIDE DEF p
        <4> QED BY <2>1, <4>1, <4>2, SubSeqProperties
      <3> DEFINE u == SubSeq(AbsBytes, p + 1, p + m)
      <3>2. u = [i \in 1 .. Len(u) |-> u[i]]
        <4>1. u \in Seq(Byte) BY <3>1
        <4> HIDE DEF u
        <4> QED BY <4>1
      <3> HIDE DEF u
      <3>3. u = [i \in 1 .. m |-> AbsBytes[p + i]] BY <3>1, <3>2 DEF u
      <3> QED BY <3>3 DEF u
    <2>5. \A i \in 1 .. m : AbsBytes[p + i] = ByteAt(p + i)
      BY <1>1, <2>2, ContentsFacts
    <2>6. BytesAt(h, m) = [i \in 1 .. m |-> BytesAt(h, m)[i]] BY DEF BytesAt
    <2> QED BY <1>4, <2>3, <2>4, <2>5, <2>6
  <1>7. result' = <<m, BytesAt(h, m)>> BY <1>3, <1>4 DEF Deliver, Answer
  <1>8. AbsPos # -1 BY <1>1
  <1> HIDE DEF p
  <1> QED BY <1>1, <1>4, <1>5, <1>6, <1>7, <1>8 DEF Abs!Read

\* read does what ByteFile promises.
LEMMA ReadRefines ==
  ASSUME RInv, RInv', Good, calm, NEW h \in Handles, obj[h].file = Watched,
         NEW n \in 0 .. MaxIo, Read(h, n)
  PROVE  Abs!Next
  <1>0. IsOpen(h) BY DEF Read
  <1>1. /\ obj[h].pos \in Nat /\ obj[h].size \in 0 .. Reach[Watched] /\ Reach[Watched] \in Nat
    BY <1>0, Situation
  <1>2. CASE Fail(h) BY <1>0, <1>2, FailRefines DEF Abs!Next
  <1>3. CASE Return(h, 0) /\ UNCHANGED <<disk, obj, hist>>
    <2>1. 0 \in 0 .. Reach[Watched] BY <1>1
    <2> QED BY <1>0, <1>3, <2>1, NothingRefines, GoodCapacity DEF Abs!Next
  <1>4. CASE /\ ~ (n = 0 \/ obj[h].pos >= obj[h].size) /\ At(h, 0) \notin {End, Bad}
             /\ ReadSome(h, Min({n, obj[h].size - obj[h].pos}))
    <2> DEFINE m == Min({n, obj[h].size - obj[h].pos})
    <2>1. n \in Nat \ {0} /\ obj[h].size - obj[h].pos \in Nat \ {0}
      BY <1>1, <1>4, FatAssumption
    <2>2. m \in Nat \ {0} /\ m <= obj[h].size - obj[h].pos BY <2>1, MinMaxOfTwo
    <2>3. ReadSome(h, m) BY <1>4
    <2> HIDE DEF m
    <2>4. obj[h].pos + m <= obj[h].size /\ m \in 0 .. Reach[Watched] BY <1>1, <2>2
    <2>5. Abs!Read(m) BY <1>0, <1>4, <2>2, <2>3, <2>4, ReadSomeRefines
    <2> QED BY <2>4, <2>5, GoodCapacity DEF Abs!Next
  <1> QED BY <1>2, <1>3, <1>4 DEF Read

\* seek does what ByteFile promises.
LEMMA SeekRefines ==
  ASSUME RInv, RInv', Good, calm, NEW h \in Handles, obj[h].file = Watched,
         NEW n \in -MaxIo .. MaxIo, NEW whence \in {"SET", "CUR", "END"}, Seek(h, n, whence)
  PROVE  Abs!Next
  <1>0. IsOpen(h) BY DEF Seek
  <1>1. /\ obj[h].pos \in Nat /\ obj[h].size \in 0 .. Reach[Watched] /\ Reach[Watched] \in Nat
        /\ obj[h].size = entry[Watched] /\ AbsPos = obj[h].pos /\ AbsBytes = Contents(Watched)
    BY <1>0, Situation
  <1>2. CASE Fail(h) BY <1>0, <1>2, FailRefines DEF Abs!Next
  <1>3. CASE \E to \in 0 .. obj[h].size :
               Return(h, to) /\ Move(h, to - obj[h].pos) /\ UNCHANGED <<disk, hist>>
    <2>1. PICK to \in 0 .. obj[h].size :
            Return(h, to) /\ Move(h, to - obj[h].pos) /\ UNCHANGED <<disk, hist>>
      BY <1>3
    <2>2. obj[h].pos + (to - obj[h].pos) = to /\ to \in Nat BY <1>1
    <2>3. obj' = [obj EXCEPT ![h].pos = to] BY <2>1, <2>2 DEF Move, RInv, IInv, TypeOK
    <2>4. UNCHANGED <<data, entry, calm>> BY <2>1 DEF disk, hist
    <2>5. AbsBytes' = AbsBytes /\ AbsPos' = to BY <1>0, <2>2, <2>3, <2>4, MovedAbs
    <2>6. to \in 0 .. Len(AbsBytes) BY <1>1, ContentsFacts
    <2>7. result' = <<to, <<>>>> BY <2>1 DEF Return, Answer
    <2>8. Abs!Seek(to) BY <1>1, <2>5, <2>6, <2>7 DEF Abs!Seek
    <2>9. to \in 0 .. Reach[Watched] BY <1>1
    <2> QED BY <2>8, <2>9, GoodCapacity DEF Abs!Next
  <1> QED BY <1>2, <1>3 DEF Seek

\* The bytes of a sequence that a file may hold.
LEMMA AbsStrings ==
  ASSUME NEW n \in Nat, NEW t \in Seq(Byte), Len(t) = n
  PROVE  t \in Abs!Strings(n)
  <1>1. t \in [1 .. n -> Byte] OBVIOUS
  <1> QED BY <1>1 DEF Abs!Strings

\* What a write that stores k bytes of s does to what ByteFile sees.
LEMMA StoredAbs ==
  ASSUME RInv, RInv', Good, calm, calm', NEW h \in Handles, IsOpen(h), obj[h].file = Watched,
         NEW s \in Seq(Byte), NEW k \in 0 .. Len(s), obj[h].pos + k <= Reach[Watched],
         data' = Stored(h, s, k), entry'[Watched] \in Nat
  PROVE  /\ AbsBytes' \in Abs!Strings(entry'[Watched])
         /\ Len(AbsBytes') = entry'[Watched]
         /\ \A j \in 1 .. entry'[Watched] :
              /\ j - obj[h].pos \in 1 .. k => AbsBytes'[j] = s[j - obj[h].pos]
              /\ j - obj[h].pos \notin 1 .. k /\ j <= entry[Watched] => AbsBytes'[j] = AbsBytes[j]
  <1>1. /\ AbsBytes = Contents(Watched) /\ obj[h].pos \in Nat
        /\ entry[Watched] \in 0 .. Reach[Watched] /\ Reach[Watched] \in Nat
    BY Situation
  <1>2. \A j \in 1 .. Reach[Watched] :
             ByteAt(j)' = IF j - obj[h].pos \in 1 .. k THEN s[j - obj[h].pos] ELSE ByteAt(j)
    BY StoredBytes DEF RInv
  <1>3. /\ AbsBytes' = Contents(Watched)'
        /\ Contents(Watched)' \in Seq(Byte)
        /\ Len(Contents(Watched)') = entry'[Watched]
        /\ \A j \in 1 .. entry'[Watched] : Contents(Watched)'[j] = ByteAt(j)'
    BY ContentsAfter, PositionAfter
  <1>4. \A j \in 1 .. entry[Watched] : AbsBytes[j] = ByteAt(j) BY <1>1, ContentsFacts
  <1>5. entry'[Watched] <= Reach[Watched] BY DEF Good, RInv, IInv, SizeInReach
  <1>6. AbsBytes' \in Abs!Strings(entry'[Watched])
    <2>1. AbsBytes' \in Seq(Byte) BY <1>3
    <2> QED BY <1>3, <2>1, AbsStrings
  <1>7. ASSUME NEW j \in 1 .. entry'[Watched]
        PROVE  /\ j - obj[h].pos \in 1 .. k => AbsBytes'[j] = s[j - obj[h].pos]
               /\ j - obj[h].pos \notin 1 .. k /\ j <= entry[Watched] => AbsBytes'[j] = AbsBytes[j]
    <2>1. j \in 1 .. Reach[Watched] BY <1>1, <1>5
    <2>2. AbsBytes'[j] = ByteAt(j)' BY <1>3
    <2>3. j <= entry[Watched] => AbsBytes[j] = ByteAt(j) BY <1>1, <1>4
    <2> QED BY <1>2, <2>1, <2>2, <2>3
  <1> QED BY <1>3, <1>6, <1>7

\* A write with room in the chain stores all its bytes, keeps the others and grows
\* the file as needed.
LEMMA WriteAllRefines ==
  ASSUME RInv, RInv', Good, calm, NEW h \in Handles, IsOpen(h), obj[h].file = Watched,
         NEW s \in Strings, s # <<>>, At(h, 0) \notin {End, Bad}, WriteAll(h, s)
  PROVE  Abs!Next
  <1> DEFINE p == obj[h].pos
             n == Len(s)
             size == obj[h].size
             len == entry[Watched]
             cap == Reach[Watched]
             new == entry'[Watched]
  <1>0. s \in Seq(Byte) /\ n \in Nat \ {0} BY StringsFacts
  <1>1. /\ p \in Nat /\ cap \in Nat /\ size = len /\ len \in 0 .. cap /\ obj[h] \in Object
        /\ AbsBytes = Contents(Watched) /\ AbsPos = p /\ Watched \in Files
    BY Situation DEF Good
  <1>2. p + n <= cap BY <1>0, <1>1, RoomFacts DEF WriteAll, RInv, IInv
  <1>3. calm' /\ data' = Stored(h, s, n) /\ result' = <<n, <<>>>>
    BY DEF WriteAll, Return, Answer
  <1>4. new = (IF p + n <= len THEN len ELSE p + n) /\ new \in Nat
    <2>1. CASE p + n <= len BY <1>1, <2>1 DEF WriteAll
    <2>2. CASE ~ (p + n <= len)
      <3>1. EntryWritten(h, p + n) BY <1>1, <2>2 DEF WriteAll, Failures
      <3> QED BY <1>0, <1>1, <2>2, <3>1 DEF EntryWritten, RInv, IInv, TypeOK
    <2> QED BY <2>1, <2>2
  <1>5. AbsPos' = p + n
    <2>1. obj'[h].file = Watched /\ obj'[h].pos = p + n /\ IsOpen(h)'
      <3>1. obj' = [obj EXCEPT ![h].pos = p + n, ![h].size = Max({@, p + n})] BY DEF WriteAll
      <3>2. obj'[h] = [file |-> Watched, size |-> Max({size, p + n}), pos |-> p + n]
        BY <1>1, <3>1 DEF RInv, IInv, TypeOK, Object
      <3> QED BY <3>2 DEF IsOpen, Closed
    <2> QED BY <1>3, <2>1, PositionAfter
  <1>6. /\ AbsBytes' \in Abs!Strings(new) /\ Len(AbsBytes') = new
        /\ \A j \in 1 .. new :
              /\ j - p \in 1 .. n => AbsBytes'[j] = s[j - p]
              /\ j - p \notin 1 .. n /\ j <= len => AbsBytes'[j] = AbsBytes[j]
    <2>1. n \in 0 .. Len(s) BY <1>0
    <2> QED BY <1>0, <1>2, <1>3, <1>4, <2>1, StoredAbs
  <1>7. Len(AbsBytes) = len /\ AbsBytes \in Seq(Byte) BY <1>1, ContentsFacts
  <1>8. new \in {len, p + n} /\ new >= len /\ new >= p + n BY <1>0, <1>1, <1>4
  <1>9. Abs!AgreeOn(AbsBytes', AbsBytes, (1 .. len) \ (p + 1 .. p + n))
    <2>1. \A j \in (1 .. len) \ (p + 1 .. p + n) :
            j \in 1 .. new /\ j - p \notin 1 .. n /\ j <= len
      BY <1>0, <1>1, <1>4, <1>8
    <2> QED BY <1>6, <2>1 DEF Abs!AgreeOn
  <1>10. \A i \in 1 .. n : AbsBytes'[p + i] = s[i]
    <2>1. \A i \in 1 .. n : p + i \in 1 .. new /\ (p + i) - p = i BY <1>0, <1>1, <1>4, <1>8
    <2>2. \A i \in 1 .. n : (p + i) - p \in 1 .. n BY <2>1
    <2>3. \A i \in 1 .. n : AbsBytes'[p + i] = s[(p + i) - p] BY <1>6, <2>1, <2>2
    <2> QED BY <2>1, <2>3
  <1> HIDE DEF n, p, size, len, cap, new
  <1>11. Abs!Write(s)
    <2>1. AbsBytes' \in UNION {Abs!Strings(m) : m \in {len, p + n}} BY <1>6, <1>8
    <2>2. AbsPos # -1 BY <1>1
    <2>3. \E t \in UNION {Abs!Strings(m) : m \in {Len(AbsBytes), AbsPos + Len(s)}} :
             /\ Len(t) >= Len(AbsBytes)
             /\ Len(t) >= AbsPos + Len(s)
             /\ Abs!AgreeOn(t, AbsBytes, (1 .. Len(AbsBytes)) \ (AbsPos + 1 .. AbsPos + Len(s)))
             /\ \A i \in 1 .. Len(s) : t[AbsPos + i] = s[i]
             /\ AbsBytes' = t
      BY <1>1, <1>6, <1>7, <1>8, <1>9, <1>10, <2>1 DEF n
    <2> QED BY <1>1, <1>3, <1>5, <2>2, <2>3 DEF Abs!Write, n
  <1>12. s \in UNION {Abs!Strings(m) : m \in 0 .. cap}
    <2>1. n \in 0 .. cap BY <1>0, <1>1, <1>2
    <2>2. s \in Abs!Strings(n) BY <1>0, AbsStrings DEF n
    <2> QED BY <2>1, <2>2
  <1> QED BY <1>11, <1>12, GoodCapacity DEF Abs!Next, cap

\* A write that does not fit fails, having overwritten what there was room for.
LEMMA WriteOffRefines ==
  ASSUME RInv, RInv', Good, calm, NEW h \in Handles, IsOpen(h), obj[h].file = Watched,
         NEW s \in Strings, s # <<>>, At(h, 0) \notin {End, Bad}, WriteOff(h, s)
  PROVE  Abs!Next
  <1> DEFINE p == obj[h].pos
             n == Room(h, Len(s))
             len == entry[Watched]
             cap == Reach[Watched]
             t == SubSeq(s, 1, n)
  <1>0. s \in Seq(Byte) /\ Len(s) \in Nat \ {0} BY StringsFacts
  <1>1. /\ p \in Nat /\ cap \in Nat /\ len \in 0 .. cap /\ obj[h] \in Object
        /\ AbsBytes = Contents(Watched) /\ AbsPos = p /\ Watched \in Files
    BY Situation DEF Good
  <1>2. p < cap /\ n \in 0 .. Len(s) /\ n = cap - p /\ n < Len(s)
    <2>1. p < cap /\ n = IF p + Len(s) <= cap THEN Len(s) ELSE cap - p
      BY <1>0, <1>1, RoomFacts DEF RInv, IInv
    <2>2. n < Len(s) BY DEF WriteOff
    <2> QED BY <1>0, <1>1, <2>1, <2>2
  <1>3. At(h, n) = End
    <2>1. p + n = cap /\ n \in Nat BY <1>1, <1>2
    <2>2. At(h, n) = Walk(Watched, (p + n) \div ClusterBytes) BY DEF At
    <2>3. (p + n) \div ClusterBytes = Len(Chain[Watched])
      <3>1. Len(Chain[Watched]) \in Nat /\ cap = ClusterBytes * Len(Chain[Watched])
        BY <1>1, ChainFacts
      <3> HIDE DEF cap, p, n
      <3>2. cap \div ClusterBytes = Len(Chain[Watched]) BY <1>1, <3>1, Division, FatAssumption
      <3> QED BY <2>1, <3>2
    <2>4. Walk(Watched, Len(Chain[Watched])) = Link(Chain[Watched][Len(Chain[Watched])])
      BY <1>1, ChainFacts DEF Walk
    <2> QED BY <2>2, <2>3, <2>4 DEF Good
  <1>4. /\ calm' /\ data' = Stored(h, s, n) /\ result' = <<-1, <<>>>> /\ obj' = obj
        /\ entry' = entry
    BY <1>3 DEF WriteOff, Return, Answer
  <1>5. /\ AbsBytes' \in Abs!Strings(len) /\ Len(AbsBytes') = len
        /\ \A j \in 1 .. len :
              /\ j - p \in 1 .. n => AbsBytes'[j] = s[j - p]
              /\ j - p \notin 1 .. n /\ j <= len => AbsBytes'[j] = AbsBytes[j]
    <2>1. p + n <= cap /\ len \in Nat BY <1>1, <1>2
    <2> HIDE DEF n
    <2> QED BY <1>0, <1>2, <1>4, <2>1, StoredAbs
  <1>6. AbsPos' = AbsPos
    <2>1. IsOpen(h)' /\ obj'[h].file = Watched /\ obj'[h].pos = p BY <1>4 DEF IsOpen
    <2> QED BY <1>1, <1>4, <2>1, PositionAfter
  <1>7. Len(AbsBytes) = len BY <1>1, ContentsFacts
  <1>8. t \in Seq(Byte) /\ Len(t) = n /\ \A i \in 1 .. n : t[i] = s[i]
    <2>1. \A i \in 1 .. n : s[i] \in Byte BY <1>0, <1>2
    <2>2. n \in Nat BY <1>0, <1>2
    <2> HIDE DEF n
    <2>3. /\ t \in Seq(Byte) /\ Len(t) = IF 1 <= n THEN n - 1 + 1 ELSE 0
          /\ \A i \in 1 .. n - 1 + 1 : t[i] = s[1 + i - 1]
      BY <2>1, <2>2, SubSeqProperties
    <2>4. n - 1 + 1 = n /\ (n < 1 => n = 0) BY <2>2
    <2> QED BY <2>2, <2>3, <2>4
  <1> HIDE DEF t, n
  <1>9. Abs!WriteTooLong(t)
    <2>1. \A i \in 1 .. Len(AbsBytes) :
             AbsBytes'[i] = AbsBytes[i]
             \/ (i - AbsPos \in 1 .. Len(t) /\ AbsBytes'[i] = t[i - AbsPos])
      BY <1>1, <1>5, <1>7, <1>8
    <2>2. AbsPos # -1 BY <1>1
    <2> QED BY <1>4, <1>5, <1>6, <1>7, <2>1, <2>2 DEF Abs!WriteTooLong
  <1>10. t \in UNION {Abs!Strings(m) : m \in 0 .. cap}
    <2>1. n \in 0 .. cap BY <1>1, <1>2
    <2>2. t \in Abs!Strings(n) BY <1>0, <1>2, <1>8, AbsStrings
    <2> QED BY <2>1, <2>2
  <1> QED BY <1>9, <1>10, GoodCapacity DEF Abs!Next

\* write does what ByteFile promises.
LEMMA WriteRefines ==
  ASSUME RInv, RInv', Good, calm, NEW h \in Handles, obj[h].file = Watched,
         NEW s \in Strings, Write(h, s)
  PROVE  Abs!Next
  <1>0. IsOpen(h) BY DEF Write
  <1>1. CASE WriteNone(h)
    <2>1. Abs!Read(0) BY <1>0, <1>1, NothingRefines DEF WriteNone
    <2>2. 0 \in 0 .. Reach[Watched] BY <1>0, Situation
    <2> QED BY <2>1, <2>2, GoodCapacity DEF Abs!Next
  <1>2. CASE Fail(h) BY <1>0, <1>2, FailRefines DEF Abs!Next
  <1>3. CASE /\ s # <<>> /\ At(h, 0) \notin {End, Bad}
             /\ WriteAll(h, s) \/ WriteOff(h, s) \/ WriteCut(h, s)
    BY <1>0, <1>3, WriteAllRefines, WriteOffRefines DEF WriteCut
  <1> QED BY <1>1, <1>2, <1>3 DEF Write

\* truncate does what ByteFile promises.
LEMMA TruncateRefines ==
  ASSUME RInv, RInv', Good, calm, NEW h \in Handles, obj[h].file = Watched,
         NEW n \in 0 .. ClusterBytes + 1, Truncate(h, n)
  PROVE  Abs!Next
  <1>0. IsOpen(h) BY DEF Truncate
  <1>1. CASE Fail(h) BY <1>0, <1>1, FailRefines DEF Abs!Next
  <1>2. CASE /\ obj' = [obj EXCEPT ![h].size = n] /\ EntryWritten(h, n) /\ Return(h, 0)
             /\ UNCHANGED data
    <2> DEFINE p == obj[h].pos
               len == entry[Watched]
               cap == Reach[Watched]
    <2>1. /\ p \in Nat /\ cap \in Nat /\ len \in 0 .. cap /\ obj[h] \in Object
          /\ AbsBytes = Contents(Watched) /\ AbsPos = p /\ Watched \in Files
      BY <1>0, Situation DEF Good
    <2>2. /\ calm' = calm /\ entry'[Watched] = n /\ n \in Nat /\ result' = <<0, <<>>>>
      BY <1>2, <2>1, FatAssumption DEF EntryWritten, Return, Answer, RInv, IInv, TypeOK
    <2>3. AbsPos' = AbsPos
      <3>1. obj'[h].file = Watched /\ obj'[h].pos = p /\ IsOpen(h)'
        BY <1>2, <2>1 DEF IsOpen, Closed, RInv, IInv, TypeOK, Object
      <3> QED BY <2>1, <2>2, <3>1, PositionAfter
    <2>4. /\ AbsBytes' = Contents(Watched)' /\ Contents(Watched)' \in Seq(Byte)
          /\ Len(Contents(Watched)') = n
          /\ \A j \in 1 .. n : Contents(Watched)'[j] = ByteAt(j)'
      BY <2>2, ContentsAfter, PositionAfter
    <2>5. \A j : ByteAt(j)' = ByteAt(j) BY <1>2 DEF ByteAt
    <2>6. /\ Len(AbsBytes) = len /\ \A j \in 1 .. len : AbsBytes[j] = ByteAt(j)
      BY <2>1, ContentsFacts
    <2>7. AbsBytes' \in Abs!Strings(n)
      <3>1. AbsBytes' \in Seq(Byte) /\ Len(AbsBytes') = n BY <2>4
      <3> QED BY <2>2, <3>1, AbsStrings
    <2>8. Abs!AgreeOn(AbsBytes', AbsBytes, 1 .. Abs!Smaller(n, Len(AbsBytes)))
      <3>1. \A j \in 1 .. Abs!Smaller(n, Len(AbsBytes)) : j \in 1 .. n /\ j \in 1 .. len
        BY <2>1, <2>2, <2>6 DEF Abs!Smaller
      <3> QED BY <2>4, <2>5, <2>6, <3>1 DEF Abs!AgreeOn
    <2>9. Abs!Truncate(n) BY <2>1, <2>2, <2>3, <2>7, <2>8 DEF Abs!Truncate
    <2>10. n \in 0 .. cap
      <3>1. n <= Reach[Watched]
        BY <2>1, <2>2 DEF RInv, IInv, SizeInReach
      <3> QED BY <2>1, <2>2, <3>1
    <2> QED BY <2>9, <2>10, GoodCapacity DEF Abs!Next
  <1> QED BY <1>1, <1>2 DEF Truncate

\* Opening and closing the watched file.
LEMMA OpenRefines ==
  ASSUME RInv, RInv', Good, calm, NEW h \in Handles, Open(h, Watched)
  PROVE  Abs!Open
  <1>1. \A g \in Handles : ~ IsOpen(g) BY DEF Open
  <1>2. UNCHANGED <<data, entry, calm, result>> BY DEF Open, disk, hist
  <1>3. AbsPos = -1 BY <1>1, NoneOpen DEF AbsPos
  <1>4. AbsPos' = 0
    <2>1. obj'[h] = [file |-> Watched, size |-> entry[Watched], pos |-> 0]
      BY DEF Open, RInv, IInv, TypeOK
    <2>2. IsOpen(h)' /\ obj'[h].file = Watched /\ obj'[h].pos = 0
      BY <2>1 DEF IsOpen, Closed
    <2> QED BY <1>2, <2>2, PositionAfter
  <1>5. AbsBytes' = AbsBytes BY <1>2 DEF AbsBytes, Contents
  <1> QED BY <1>2, <1>3, <1>4, <1>5 DEF Abs!Open

LEMMA CloseRefines ==
  ASSUME RInv, Good, calm, NEW h \in Handles, obj[h].file = Watched, Close(h)
  PROVE  Abs!Close
  <1>0. IsOpen(h) BY DEF Close
  <1>1. UNCHANGED <<data, entry, calm, result>> BY DEF Close, disk
  <1>2. AbsPos # -1 BY <1>0, Situation
  <1>3. AbsPos' = -1
    <2>1. \A g \in Handles : ~ IsOpen(g)'
      BY <1>0 DEF Close, RInv, Alone, IInv, TypeOK, IsOpen
    <2>2. Position(Watched)' = -1 BY <2>1 DEF Position
    <2> QED BY <1>1, <2>2 DEF AbsPos
  <1>4. AbsBytes' = AbsBytes BY <1>1 DEF AbsBytes, Contents
  <1> QED BY <1>1, <1>2, <1>3, <1>4 DEF Abs!Close

\* What every call leaves alone: the other objects, the other files' entries,
\* and, unless the watched file is used on a calm disk, the result.
LEMMA CallFacts ==
  ASSUME IInv, NEW h \in Handles, Call(h), ~ \E f \in Files : Open(h, f)
  PROVE  /\ IsOpen(h) /\ calm' = calm
         /\ \A g \in Handles : g # h => obj'[g] = obj[g]
         /\ IsOpen(h)' => obj'[h].file = obj[h].file
         /\ \A f \in Files : f # obj[h].file => entry'[f] = entry[f]
         /\ ~ (calm /\ obj[h].file = Watched) => result' = result
  <1> DEFINE Facts == /\ IsOpen(h) /\ calm' = calm
                      /\ \A g \in Handles : g # h => obj'[g] = obj[g]
                      /\ IsOpen(h)' => obj'[h].file = obj[h].file
                      /\ \A f \in Files : f # obj[h].file => entry'[f] = entry[f]
                      /\ ~ (calm /\ obj[h].file = Watched) => result' = result
  <1>1. CASE IsOpen(h) /\ Fail(h)
    BY <1>1 DEF Fail, Return, Answer, disk, hist, IsOpen
  <1>2. CASE Close(h) BY <1>2 DEF Close, IsOpen, disk, IInv, TypeOK
  <1>3. ASSUME NEW s \in Strings, Write(h, s) PROVE Facts
    <2>0. IsOpen(h) BY <1>3 DEF Write
    <2>1. CASE WriteNone(h) BY <2>0, <2>1 DEF WriteNone, Return, Answer, disk, hist, IsOpen
    <2>2. CASE WriteAll(h, s)
      <3>1. /\ calm' = calm
            /\ \A f \in Files : f # obj[h].file => entry'[f] = entry[f]
        BY <2>2 DEF WriteAll, EntryWritten, IInv, TypeOK
      <3>2. /\ \A g \in Handles : g # h => obj'[g] = obj[g]
            /\ obj'[h].file = obj[h].file
        BY <2>0, <2>2, OpenFacts DEF WriteAll, IInv, TypeOK, Object
      <3>3. ~ (calm /\ obj[h].file = Watched) => result' = result
        BY <2>2 DEF WriteAll, Return, Answer
      <3> QED BY <2>0, <3>1, <3>2, <3>3
    <2>3. CASE WriteOff(h, s)
      <3>1. calm' = calm /\ entry' = entry BY <2>3 DEF WriteOff
      <3>2. /\ \A g \in Handles : g # h => obj'[g] = obj[g]
            /\ obj'[h].file = obj[h].file
        BY <2>0, <2>3, OpenFacts DEF WriteOff, Move, IInv, TypeOK, Object
      <3>3. ~ (calm /\ obj[h].file = Watched) => result' = result
        BY <2>3 DEF WriteOff, Return, Answer
      <3> QED BY <2>0, <3>1, <3>2, <3>3
    <2>4. CASE WriteCut(h, s)
      <3>1. calm' = calm /\ entry' = entry BY <2>4 DEF WriteCut
      <3>2. /\ \A g \in Handles : g # h => obj'[g] = obj[g]
            /\ obj'[h].file = obj[h].file
        BY <2>0, <2>4, OpenFacts DEF WriteCut, Move, IInv, TypeOK, Object
      <3>3. ~ (calm /\ obj[h].file = Watched) => result' = result
        BY <2>4 DEF WriteCut, Return, Answer
      <3> QED BY <2>0, <3>1, <3>2, <3>3
    <2> QED BY <1>1, <1>3, <2>0, <2>1, <2>2, <2>3, <2>4 DEF Write
  <1>4. ASSUME NEW n, ReadSome(h, n), IsOpen(h) PROVE Facts
    <2>1. UNCHANGED <<entry, calm>> BY <1>4 DEF ReadSome, disk, hist
    <2>2. /\ \A g \in Handles : g # h => obj'[g] = obj[g]
          /\ obj'[h].file = obj[h].file
      <3>1. CASE UNCHANGED obj BY <3>1
      <3>2. ASSUME NEW w, Move(h, w)
            PROVE  /\ \A g \in Handles : g # h => obj'[g] = obj[g]
                   /\ obj'[h].file = obj[h].file
        BY <1>4, <3>2, OpenFacts DEF Move, IInv, TypeOK, Object
      <3> QED BY <1>4, <3>1, <3>2 DEF ReadSome
    <2>3. ~ (calm /\ obj[h].file = Watched) => result' = result
      BY <1>4 DEF ReadSome, Return, Deliver, Answer
    <2> QED BY <1>4, <2>1, <2>2, <2>3
  <1>5. ASSUME NEW n \in 0 .. MaxIo, Read(h, n) PROVE Facts
    <2>0. IsOpen(h) BY <1>5 DEF Read
    <2>1. CASE Return(h, 0) /\ UNCHANGED <<disk, obj, hist>>
      BY <2>0, <2>1 DEF Return, Answer, disk, hist, IsOpen
    <2> QED BY <1>1, <1>4, <1>5, <2>0, <2>1 DEF Read
  <1>6. ASSUME NEW n \in 0 .. ClusterBytes + 1, Truncate(h, n) PROVE Facts
    <2>0. IsOpen(h) BY <1>6 DEF Truncate
    <2>1. CASE obj' = [obj EXCEPT ![h].size = n] /\ EntryWritten(h, n) /\ Return(h, 0)
      BY <2>0, <2>1, OpenFacts DEF EntryWritten, Return, Answer, IInv, TypeOK, Object
    <2> QED BY <1>1, <1>6, <2>0, <2>1 DEF Truncate
  <1>7. ASSUME NEW n \in -MaxIo .. MaxIo, NEW whence \in {"SET", "CUR", "END"}, Seek(h, n, whence)
        PROVE  Facts
    <2>0. IsOpen(h) BY <1>7 DEF Seek
    <2>1. ASSUME NEW w, NEW r, Move(h, w), Return(h, r), UNCHANGED <<disk, hist>> PROVE Facts
      BY <2>0, <2>1, OpenFacts DEF Move, Return, Answer, disk, hist, IInv, TypeOK, Object
    <2> QED BY <1>1, <1>7, <2>0, <2>1 DEF Seek
  <1> QED BY <1>2, <1>3, <1>5, <1>6, <1>7 DEF Call

\* A call on another file is nothing to ByteFile.
LEMMA OtherRefines ==
  ASSUME RInv, RInv', Good, calm, [Next]_vars, NEW h \in Handles, Call(h),
         ~ \E f \in Files : Open(h, f), obj[h].file # Watched
  PROVE  UNCHANGED <<AbsBytes, AbsPos, result>>
  <1>1. /\ IsOpen(h) /\ calm' = calm /\ result' = result /\ entry'[Watched] = entry[Watched]
        /\ \A g \in Handles : g # h => obj'[g] = obj[g]
        /\ IsOpen(h)' => obj'[h].file = obj[h].file
    BY CallFacts DEF RInv, IInv, Good
  <1>2. \A c \in Range(Chain[Watched]) : data'[c] = data[c]
    <2> SUFFICES ASSUME NEW c \in Range(Chain[Watched]), data'[c] # data[c] PROVE FALSE OBVIOUS
    <2>1. c \in DOMAIN data
      <3>1. Watched \in Files BY DEF Good
      <3>2. Range(Chain[Watched]) = {Chain[Watched][i] : i \in 1 .. Len(Chain[Watched])}
        BY <3>1, ChainFacts
      <3>3. PICK i \in 1 .. Len(Chain[Watched]) : c = Chain[Watched][i] BY <3>2
      <3>4. c \in Clusters \cup {Boot} BY <3>1, <3>3, ChainFacts
      <3> QED BY <3>4 DEF RInv, IInv, TypeOK, Contains
    <2>2. PICK g \in Handles : IsOpen(g) /\ c \in Range(Chain[obj[g].file])
      BY <2>1, OnlyOpenFiles DEF RInv
    <2>3. g = h BY <1>1, <2>2 DEF RInv, Alone
    <2>4. obj[h].file \in Files BY <1>1, OpenFacts DEF RInv, IInv
    <2> QED BY <2>2, <2>3, <2>4 DEF Good
  <1>3. AbsBytes' = AbsBytes
    <2>1. \A j \in 1 .. Reach[Watched] : ByteAt(j)' = ByteAt(j)
      <3> SUFFICES ASSUME NEW j \in 1 .. Reach[Watched] PROVE ByteAt(j)' = ByteAt(j) OBVIOUS
      <3> DEFINE a == j - 1
      <3>1. Watched \in Files BY DEF Good
      <3>2. a \in Nat /\ a < Reach[Watched] BY <3>1, ChainFacts
      <3>3. a \div ClusterBytes \in Nat /\ a \div ClusterBytes < Len(Chain[Watched])
        <4>1. Len(Chain[Watched]) \in Nat /\ Reach[Watched] = ClusterBytes * Len(Chain[Watched])
          BY <3>1, ChainFacts
        <4> HIDE DEF a
        <4>2. /\ a \div ClusterBytes \in Nat
              /\ \A m \in Nat : a \div ClusterBytes < m <=> a < ClusterBytes * m
          BY <3>2, Division, FatAssumption
        <4> QED BY <3>2, <4>1, <4>2
      <3>4. Walk(Watched, a \div ClusterBytes) \in Range(Chain[Watched]) BY <3>1, <3>3, WalkFacts
      <3> QED BY <1>2, <3>4 DEF ByteAt
    <2>2. Contents(Watched) = [j \in 1 .. entry[Watched] |-> ByteAt(j)] BY DEF Contents, ByteAt
    <2>3. Contents(Watched)' = [j \in 1 .. entry'[Watched] |-> ByteAt(j)'] BY DEF Contents, ByteAt
    <2>4. \A j \in 1 .. entry[Watched] : j \in 1 .. Reach[Watched] BY ContentsFacts
    <2>5. Contents(Watched)' = Contents(Watched) BY <1>1, <2>1, <2>2, <2>3, <2>4
    <2> QED BY <1>1, <2>5 DEF AbsBytes
  <1>4. AbsPos' = AbsPos
    <2>1. \A g \in Handles : IsOpen(g) => obj[g].file # Watched
      BY <1>1 DEF RInv, Alone
    <2>2. \A g \in Handles : IsOpen(g)' => obj'[g].file # Watched
      BY <1>1, <2>1 DEF IsOpen
    <2>3. Position(Watched) = -1 BY <2>1 DEF Position
    <2>4. Position(Watched)' = -1 BY <2>2 DEF Position
    <2> QED BY <1>1, <2>3, <2>4 DEF AbsPos
  <1> QED BY <1>1, <1>3, <1>4

\* Opening another file.
LEMMA OpenOther ==
  ASSUME RInv, Good, calm, NEW h \in Handles, NEW f \in Files \ {Watched}, Open(h, f)
  PROVE  UNCHANGED <<AbsBytes, AbsPos, result>>
  <1>1. UNCHANGED <<data, entry, calm, result>> BY DEF Open, disk, hist
  <1>2. AbsBytes' = AbsBytes BY <1>1 DEF AbsBytes, Contents
  <1>3. \A g \in Handles : ~ IsOpen(g) BY DEF Open
  <1>4. \A g \in Handles : IsOpen(g)' => obj'[g].file # Watched
    <2>1. \A g \in Handles : obj'[g] = IF g = h THEN [file |-> f, size |-> entry[f], pos |-> 0] ELSE obj[g]
      BY DEF Open, RInv, IInv, TypeOK
    <2> QED BY <1>3, <2>1 DEF IsOpen
  <1>5. Position(Watched) = -1 BY <1>3, NoneOpen
  <1>6. Position(Watched)' = -1 BY <1>4 DEF Position
  <1> QED BY <1>1, <1>2, <1>5, <1>6 DEF AbsPos

\* Every call is a step of ByteFile or none.
LEMMA StepRefines ==
  ASSUME RInv, RInv', Good, [Next]_vars
  PROVE  Abs!Next \/ UNCHANGED <<AbsBytes, AbsPos, result>>
  <1>1. CASE UNCHANGED vars
    <2>1. UNCHANGED <<data, entry, obj, calm, result>> BY <1>1 DEF vars, disk, hist
    <2> QED BY <2>1, SameAbs
  <1>2. ASSUME NEW h \in Handles, Call(h), ~ calm
        PROVE  UNCHANGED <<AbsBytes, AbsPos, result>>
    <2>1. calm' = calm /\ result' = result
      <3>1. CASE \E f \in Files : Open(h, f) BY <3>1 DEF Open, hist
      <3>2. CASE ~ \E f \in Files : Open(h, f) BY <1>2, <3>2, CallFacts DEF RInv
      <3> QED BY <3>1, <3>2
    <2> QED BY <1>2, <2>1 DEF AbsBytes, AbsPos
  <1>3. ASSUME NEW h \in Handles, Call(h), calm
        PROVE  Abs!Next \/ UNCHANGED <<AbsBytes, AbsPos, result>>
    <2>1. ASSUME NEW f \in Files, Open(h, f)
          PROVE  Abs!Next \/ UNCHANGED <<AbsBytes, AbsPos, result>>
      <3>1. CASE f = Watched BY <1>3, <2>1, <3>1, OpenRefines DEF Abs!Next
      <3>2. CASE f # Watched BY <1>3, <2>1, <3>2, OpenOther
      <3> QED BY <3>1, <3>2
    <2>2. CASE (~ \E f \in Files : Open(h, f)) /\ obj[h].file # Watched
      BY <1>3, <2>2, OtherRefines
    <2>3. CASE (~ \E f \in Files : Open(h, f)) /\ obj[h].file = Watched
      <3>1. CASE Close(h) BY <1>3, <2>3, <3>1, CloseRefines DEF Abs!Next
      <3>2. ASSUME NEW s \in Strings, Write(h, s) PROVE Abs!Next
        BY <1>3, <2>3, <3>2, WriteRefines
      <3>3. ASSUME NEW n \in 0 .. MaxIo, Read(h, n) PROVE Abs!Next
        BY <1>3, <2>3, <3>3, ReadRefines
      <3>4. ASSUME NEW n \in 0 .. ClusterBytes + 1, Truncate(h, n) PROVE Abs!Next
        BY <1>3, <2>3, <3>4, TruncateRefines
      <3>5. ASSUME NEW n \in -MaxIo .. MaxIo, NEW whence \in {"SET", "CUR", "END"}, Seek(h, n, whence)
            PROVE  Abs!Next
        BY <1>3, <2>3, <3>5, SeekRefines
      <3> QED BY <1>3, <2>3, <3>1, <3>2, <3>3, <3>4, <3>5 DEF Call
    <2> QED BY <2>1, <2>2, <2>3
  <1> QED BY <1>1, <1>2, <1>3 DEF Next

\* The initial states agree.
LEMMA InitRefines ==
  ASSUME Good, Init
  PROVE  RInv /\ Abs!Init
  <1>1. IInv BY InitInv
  <1>2. \A h \in Handles : ~ IsOpen(h) BY DEF Init, IsOpen
  <1>3. Alone BY <1>2 DEF Alone, Init
  <1>4. Whole
    <2> SUFFICES ASSUME NEW c \in Range(Chain[Watched]) PROVE data[c] \in [Offsets -> Byte]
      BY DEF Whole
    <2>1. Watched \in Files BY DEF Good
    <2>2. Range(Chain[Watched]) = {Chain[Watched][i] : i \in 1 .. Len(Chain[Watched])}
      BY <2>1, ChainFacts
    <2>3. PICK i \in 1 .. Len(Chain[Watched]) : c = Chain[Watched][i] BY <2>2
    <2>4. c \in Clusters \cup {Boot} BY <2>1, <2>3, ChainFacts
    <2>5. c # Boot BY GoodHasNoBoot
    <2>6. data[c] = [o \in Offsets |-> Zero] BY <2>1, <2>4, <2>5 DEF Init
    <2> QED BY <2>6, FatAssumption
  <1>5. RInv BY <1>1, <1>3, <1>4 DEF RInv
  <1>6. AbsPos = -1 BY <1>2, NoneOpen DEF AbsPos
  <1>7. AbsBytes \in UNION {Abs!Strings(n) : n \in 0 .. Reach[Watched]}
    <2>1. CASE calm
      <3>1. /\ Contents(Watched) \in Seq(Byte) /\ Len(Contents(Watched)) = entry[Watched]
            /\ entry[Watched] \in 0 .. Reach[Watched] /\ Reach[Watched] \in Nat
        BY <1>5, ContentsFacts
      <3>2. Contents(Watched) \in Abs!Strings(entry[Watched]) BY <3>1, AbsStrings
      <3> QED BY <2>1, <3>1, <3>2 DEF AbsBytes
    <2>2. CASE ~ calm
      <3>1. Reach[Watched] \in Nat BY ChainFacts DEF Good
      <3>2. <<>> \in Abs!Strings(0) /\ 0 \in 0 .. Reach[Watched]
        <4>1. <<>> \in [1 .. 0 -> Byte] OBVIOUS
        <4> QED BY <3>1, <4>1 DEF Abs!Strings
      <3> QED BY <2>2, <3>2 DEF AbsBytes
    <2> QED BY <2>1, <2>2
  <1>8. Abs!Init BY <1>6, <1>7, GoodCapacity DEF Abs!Init, Init
  <1> QED BY <1>5, <1>8

\* The invariant that the refinement needs.
LEMMA RInvKeeps ==
  ASSUME RInv, Good, IInv', [Next]_vars
  PROVE  RInv'
  <1>1. Alone'
    <2>1. CASE UNCHANGED vars BY <2>1 DEF vars, hist, RInv, Alone, IsOpen
    <2>2. CASE Next BY <2>2, AloneKeeps DEF Next, RInv
    <2> QED BY <2>1, <2>2
  <1>2. Whole'
    <2>1. CASE data' = data BY <2>1 DEF RInv, Whole
    <2>2. ASSUME NEW h \in Handles, IsOpen(h), NEW s \in Strings, NEW k \in 0 .. Len(s),
                 data' = Stored(h, s, k)
          PROVE  Whole'
      BY <2>2, WholeKept DEF RInv
    <2>3. \/ data' = data
          \/ \E h \in Handles, s \in Strings : \E k \in 0 .. Len(s) :
               IsOpen(h) /\ data' = Stored(h, s, k)
      BY OnlyStores DEF RInv
    <2> QED BY <2>1, <2>2, <2>3
  <1> QED BY <1>1, <1>2 DEF RInv

\* On a disk without errors a file that is open once is a sequence of bytes with a
\* position: each call of FAT32File is the step of ByteFile it stands for.
THEOREM FatImplementsByteFile ==
  ASSUME Good
  PROVE  Spec => RefinesByteFile
  <1>1. Init => RInv /\ Abs!Init BY InitRefines
  <1>2. RInv /\ IInv' /\ [Next]_vars => RInv' BY RInvKeeps
  <1>3. RInv /\ RInv' /\ [Next]_vars => [Abs!Next]_<<AbsBytes, AbsPos, result>>
    BY StepRefines
  <1>4. Abs!absvars = <<AbsBytes, AbsPos, result>> BY DEF Abs!absvars
  <1> QED BY <1>1, <1>2, <1>3, FatInvariant, PTL
          DEF Spec, RefinesByteFile, Abs!Spec, Abs!absvars

=============================================================================
