-------------------------- MODULE FileTableProofs ---------------------------
(***************************************************************************)
(* Proofs about descriptors and open files, for every number of            *)
(* descriptors and every set of devices.  IInv is inductive: who owns the  *)
(* objects follows from who owns the open files, and that there is always  *)
(* an address for a new one from both, by counting.                        *)
(*                                                                         *)
(* The table of mounts, through which a path reaches an open file, comes   *)
(* at the end.                                                             *)
(***************************************************************************)
EXTENDS FileTable, Mount, FiniteSetTheorems, SequenceTheorems, WellFoundedInduction, TLAPS

IInv == TypeOK /\ FilesOwned /\ ObjectsOwned

-----------------------------------------------------------------------------
(* Sequences without repetitions.                                          *)

\* Appending a new element.
LEMMA AppendFacts ==
  ASSUME NEW S, NEW s \in Seq(S), NEW e \in S, IsInjective(s), e \notin ToSet(s)
  PROVE  /\ Append(s, e) \in Seq(S)
         /\ IsInjective(Append(s, e))
         /\ ToSet(Append(s, e)) = ToSet(s) \cup {e}
  <1> DEFINE t == Append(s, e)
  <1>1. /\ t \in Seq(S) /\ DOMAIN t = 1 .. Len(s) + 1 /\ DOMAIN s = 1 .. Len(s)
        /\ Len(s) \in Nat
        /\ \A k \in 1 .. Len(s) + 1 : t[k] = IF k = Len(s) + 1 THEN e ELSE s[k]
    OBVIOUS
  <1> HIDE DEF t
  <1>2. IsInjective(t) BY <1>1 DEF IsInjective, ToSet
  <1>3. ToSet(t) = ToSet(s) \cup {e}
    <2>1. \A x \in ToSet(t) : x \in ToSet(s) \cup {e} BY <1>1 DEF ToSet
    <2>2. \A k \in 1 .. Len(s) : s[k] \in ToSet(t)
      <3> TAKE k \in 1 .. Len(s)
      <3> QED BY <1>1, k \in DOMAIN t, t[k] = s[k] DEF ToSet
    <2>3. e \in ToSet(t) BY <1>1, Len(s) + 1 \in DOMAIN t, t[Len(s) + 1] = e DEF ToSet
    <2> QED BY <1>1, <2>1, <2>2, <2>3 DEF ToSet
  <1> QED BY <1>1, <1>2, <1>3 DEF t

\* Removing one.
LEMMA RemoveAtFacts ==
  ASSUME NEW S, NEW s \in Seq(S), NEW i \in DOMAIN s, IsInjective(s)
  PROVE  /\ RemoveAt(s, i) \in Seq(S)
         /\ IsInjective(RemoveAt(s, i))
         /\ ToSet(RemoveAt(s, i)) = ToSet(s) \ {s[i]}
  <1> DEFINE t == RemoveAt(s, i)
  <1>1. /\ Len(s) \in Nat /\ DOMAIN s = 1 .. Len(s) /\ i \in 1 .. Len(s)
    OBVIOUS
  <1>2. /\ t \in Seq(S) /\ DOMAIN t = 1 .. Len(s) - 1
        /\ \A k \in 1 .. Len(s) - 1 : t[k] = IF k < i THEN s[k] ELSE s[k + 1]
    <2> DEFINE u == SubSeq(s, 1, i - 1)
               v == SubSeq(s, i + 1, Len(s))
    <2>1. u \in Seq(S) /\ Len(u) = i - 1 /\ \A k \in 1 .. i - 1 : u[k] = s[k]
      BY <1>1
    <2>2. /\ v \in Seq(S) /\ Len(v) = Len(s) - i
          /\ \A k \in 1 .. Len(s) - i : v[k] = s[k + i]
      BY <1>1
    <2>3. t = u \o v BY DEF RemoveAt
    <2> HIDE DEF u, v, t
    <2>4. /\ t \in Seq(S) /\ Len(t) = Len(s) - 1 /\ DOMAIN t = 1 .. Len(s) - 1
          /\ \A k \in 1 .. Len(s) - 1 :
               t[k] = IF k <= i - 1 THEN u[k] ELSE v[k - (i - 1)]
      <3>1. /\ u \o v \in Seq(S) /\ Len(u \o v) = Len(u) + Len(v)
            /\ \A k \in 1 .. Len(u) + Len(v) :
                 (u \o v)[k] = IF k <= Len(u) THEN u[k] ELSE v[k - Len(u)]
        BY <2>1, <2>2, ConcatProperties
      <3>2. Len(u) + Len(v) = Len(s) - 1 BY <1>1, <2>1, <2>2
      <3>3. DOMAIN t = 1 .. Len(t) BY <2>3, <3>1
      <3> QED BY <2>1, <2>3, <3>1, <3>2, <3>3
    <2>5. ASSUME NEW k \in 1 .. Len(s) - 1, k < i PROVE t[k] = s[k]
      BY <1>1, <2>1, <2>4, <2>5
    <2>6. ASSUME NEW k \in 1 .. Len(s) - 1, ~ (k < i) PROVE t[k] = s[k + 1]
      <3>1. k - (i - 1) \in 1 .. Len(s) - i /\ k - (i - 1) + i = k + 1 BY <1>1, <2>6
      <3>2. v[k - (i - 1)] = s[k + 1] BY <2>2, <3>1
      <3> QED BY <1>1, <2>4, <2>6, <3>2
    <2> QED BY <2>4, <2>5, <2>6
  <1> HIDE DEF t
  <1>3. IsInjective(t)
    <2> SUFFICES ASSUME NEW a \in 1 .. Len(s) - 1, NEW b \in 1 .. Len(s) - 1, t[a] = t[b]
                 PROVE  a = b
      BY <1>2 DEF IsInjective
    <2>1. \A c, d \in 1 .. Len(s) : s[c] = s[d] => c = d BY <1>1 DEF IsInjective
    <2>2. PICK c \in 1 .. Len(s) : s[c] = t[a] /\ c = IF a < i THEN a ELSE a + 1
      <3>1. a \in 1 .. Len(s) /\ a + 1 \in 1 .. Len(s) BY <1>1
      <3> QED BY <1>2, <3>1
    <2>3. PICK d \in 1 .. Len(s) : s[d] = t[b] /\ d = IF b < i THEN b ELSE b + 1
      <3>1. b \in 1 .. Len(s) /\ b + 1 \in 1 .. Len(s) BY <1>1
      <3> QED BY <1>2, <3>1
    <2>4. c = d BY <2>1, <2>2, <2>3
    <2> QED BY <1>1, <2>2, <2>3, <2>4
  <1>4. \A k \in 1 .. Len(s) - 1 : t[k] \in ToSet(s) \ {s[i]}
    BY <1>1, <1>2 DEF ToSet, IsInjective
  <1>5. \A k \in 1 .. Len(s) : k # i => s[k] \in ToSet(t)
    <2> TAKE k \in 1 .. Len(s)
    <2>1. CASE k < i
      BY <1>1, <1>2, <2>1, k \in DOMAIN t, t[k] = s[k] DEF ToSet
    <2>2. CASE k > i
      BY <1>1, <1>2, <2>2, k - 1 \in DOMAIN t, t[k - 1] = s[k] DEF ToSet
    <2> QED BY <1>1, <2>1, <2>2
  <1>6. ToSet(t) = ToSet(s) \ {s[i]} BY <1>1, <1>2, <1>4, <1>5 DEF ToSet
  <1> QED BY <1>2, <1>3, <1>6 DEF t

-----------------------------------------------------------------------------
(* Counting.                                                               *)

\* Descriptors cannot name all addresses.
LEMMA MoreAddresses ==
  ASSUME NEW f \in [Address -> Fds]
  PROVE  \E a, b \in Address : a # b /\ f[a] = f[b]
  <1>1. /\ IsFiniteSet(Address) /\ Cardinality(Address) = MaxFds + 1
        /\ IsFiniteSet(Fds) /\ Cardinality(Fds) = MaxFds
    BY FS_Interval, MaxFdsAssumption DEF Address, Fds
  <1>2. Cardinality(Fds) < Cardinality(Address) BY <1>1, MaxFdsAssumption
  <1> QED BY <1>1, <1>2, FS_PigeonHole

\* No call needs an address for an open file or an object that there is not.
LEMMA RoomForOpen ==
  ASSUME TypeOK, FilesOwned, HeldFile = {}
  PROVE  FreshOpen \in Address /\ open[FreshOpen] = Free
  <1>1. SUFFICES ASSUME \A a \in Address : open[a] # Free PROVE FALSE
    BY DEF FreshOpen
  <1>2. \A a \in Address : \E d \in Fds : fd_table[d] = a
    BY <1>1 DEF FilesOwned, InUse
  <1> DEFINE f == [a \in Address |-> CHOOSE d \in Fds : fd_table[d] = a]
  <1>3. f \in [Address -> Fds] /\ \A a \in Address : fd_table[f[a]] = a BY <1>2
  <1> HIDE DEF f
  <1>4. PICK a, b \in Address : a # b /\ f[a] = f[b] BY <1>3, MoreAddresses
  <1> QED BY <1>3, <1>4

LEMMA RoomForObject ==
  ASSUME TypeOK, FilesOwned, ObjectsOwned, HeldFile = {}, HeldObject = {}
  PROVE  FreshObject \in Address /\ FreshObject \notin alive
  <1>1. SUFFICES ASSUME \A o \in Address : o \in alive PROVE FALSE
    BY DEF FreshObject
  <1>2. \A o \in Address : \E d \in Fds : open[fd_table[d]].object = o
    <2> TAKE o \in Address
    <2>1. PICK a \in InUse : open[a].object = o BY <1>1 DEF ObjectsOwned
    <2>2. PICK d \in Fds : fd_table[d] = a BY <2>1 DEF FilesOwned
    <2> QED BY <2>1, <2>2
  <1> DEFINE f == [o \in Address |-> CHOOSE d \in Fds : open[fd_table[d]].object = o]
  <1>3. f \in [Address -> Fds] /\ \A o \in Address : open[fd_table[f[o]]].object = o BY <1>2
  <1> HIDE DEF f
  <1>4. PICK a, b \in Address : a # b /\ f[a] = f[b] BY <1>3, MoreAddresses
  <1> QED BY <1>3, <1>4

-----------------------------------------------------------------------------
(* The steps.                                                              *)

\* An address never means no file, and a file in use is not a free one.
LEMMA Distinct ==
  /\ None \notin Address
  /\ \A o, n : n # 0 => [object |-> o, ref_count |-> n] # Free
  <1>1. None \notin Address BY DEF None, Address
  <1>2. ASSUME NEW o, NEW n, n # 0, [object |-> o, ref_count |-> n] = Free PROVE FALSE
    <2>1. [object |-> o, ref_count |-> n].ref_count = Free.ref_count BY <1>2
    <2> QED BY <1>2, <2>1 DEF Free
  <1> QED BY <1>1, <1>2

\* Closing an object that one open file or call used.
LEMMA Closes ==
  ASSUME IInv, NEW o \in Devices \cup alive, CloseObject(o)
  PROVE  /\ files' \in Seq(Address) /\ IsInjective(files')
         /\ ToSet(files') = alive'
         /\ alive' = IF o \in Devices THEN alive ELSE alive \ {o}
         /\ twice' \in BOOLEAN
  <1>1. /\ files \in Seq(Address) /\ IsInjective(files) /\ ToSet(files) = alive
        /\ twice \in BOOLEAN /\ alive \subseteq Address
    BY DEF IInv, TypeOK, ObjectsOwned
  <1>2. CASE o \in Devices /\ UNCHANGED objects BY <1>1, <1>2 DEF objects
  <1>3. ASSUME NEW i \in DOMAIN files, files[i] = o, Erase(i)
        PROVE  /\ files' \in Seq(Address) /\ IsInjective(files')
               /\ ToSet(files') = alive \ {o} /\ alive' = alive \ {o}
               /\ twice' \in BOOLEAN /\ o \notin Devices
    <2>1. o \in Address BY <1>1, <1>3 DEF ToSet
    <2> QED BY <1>1, <1>3, <2>1, RemoveAtFacts, DevicesAssumption DEF Erase
  <1> QED BY <1>2, <1>3 DEF CloseObject

\* What a call holds, by its next step.
LEMMA Held ==
  /\ call = Idle => HeldFile = {} /\ HeldObject = {}
  /\ \A o, step : step \in {"create", "stat"} /\ call = [at |-> step, object |-> o] =>
       HeldFile = {} /\ HeldObject = {o} /\ call.at = step /\ call.object = o
  /\ \A a, step : step \in {"fd", "release"} /\ call = [at |-> step, file |-> a] =>
       HeldFile = {a} /\ HeldObject = {} /\ call.at = step /\ call.file = a
  BY DEF HeldFile, HeldObject, Idle

LEMMA HeldNext ==
  /\ call' = Idle => HeldFile' = {} /\ HeldObject' = {}
  /\ \A o, step : step \in {"create", "stat"} /\ call' = [at |-> step, object |-> o] =>
       HeldFile' = {} /\ HeldObject' = {o}
  /\ \A a, step : step \in {"fd", "release"} /\ call' = [at |-> step, file |-> a] =>
       HeldFile' = {a} /\ HeldObject' = {}
  BY DEF HeldFile, HeldObject, Idle

LEMMA CallShape ==
  ASSUME TypeOK
  PROVE  /\ call.at \in {"create", "stat"} =>
              \E o \in Devices \cup Address : call = [at |-> call.at, object |-> o]
         /\ call.at \in {"fd", "release"} =>
              \E a \in Address : call = [at |-> call.at, file |-> a]
  BY DEF TypeOK, Idle

\* kopen, kstat and klstat get an object.
LEMMA BeginInv ==
  ASSUME IInv, NEW step \in {"create", "stat"}, Begin(step)
  PROVE  IInv'
  <1>1. call = Idle /\ HeldFile = {} /\ HeldObject = {} /\ fd_table' = fd_table /\ open' = open
    BY Held DEF Begin
  <1>2. PICK o \in Devices \cup Address :
          (OpenDevice(o) \/ OpenFile(o)) /\ call' = [at |-> step, object |-> o]
    BY DEF Begin
  <1>3. HeldFile' = {} /\ HeldObject' = {o} BY <1>2, HeldNext
  <1>4. InUse' = InUse BY <1>1 DEF InUse
  <1>5. TypeOK /\ FilesOwned /\ ObjectsOwned BY DEF IInv
  <1>6. FreshObject \in Address /\ FreshObject \notin alive BY <1>1, <1>5, RoomForObject
  <1>7. /\ files' \in Seq(Address) /\ IsInjective(files') /\ ToSet(files') = alive'
        /\ alive' = IF o \in Devices THEN alive ELSE alive \cup {o}
        /\ o \notin alive /\ twice' \in BOOLEAN /\ alive' \subseteq Address
    <2>1. /\ files \in Seq(Address) /\ IsInjective(files) /\ ToSet(files) = alive
          /\ twice \in BOOLEAN /\ alive \subseteq Address
      BY <1>5 DEF TypeOK, ObjectsOwned
    <2>2. CASE OpenDevice(o)
      BY <2>1, <2>2, DevicesAssumption DEF OpenDevice, objects
    <2>3. CASE OpenFile(o)
      BY <1>6, <2>1, <2>3, AppendFacts, DevicesAssumption DEF OpenFile
    <2> QED BY <1>2, <2>2, <2>3
  <1>8. TypeOK' BY <1>1, <1>2, <1>5, <1>7 DEF TypeOK
  <1>9. FilesOwned' BY <1>1, <1>3, <1>4, <1>5 DEF FilesOwned
  <1>10. ObjectsOwned'
    <2>1. \A a \in InUse : open[a].object \in Devices \cup alive
      BY <1>5 DEF ObjectsOwned
    <2> QED BY <1>1, <1>3, <1>4, <1>5, <1>7, <2>1 DEF ObjectsOwned
  <1> QED BY <1>8, <1>9, <1>10 DEF IInv

\* create_open_file: the call now holds the open file that holds the object.
LEMMA CreateInv ==
  ASSUME IInv, KopenCreate
  PROVE  IInv'
  <1> DEFINE a == FreshOpen
  <1>1. TypeOK /\ FilesOwned /\ ObjectsOwned BY DEF IInv
  <1>2. PICK o \in Devices \cup Address : call = [at |-> "create", object |-> o]
    BY <1>1, CallShape DEF KopenCreate
  <1>3. HeldFile = {} /\ HeldObject = {o} /\ call.object = o BY <1>2, Held
  <1>4. a \in Address /\ open[a] = Free BY <1>1, <1>3, RoomForOpen
  <1> HIDE DEF a
  <1>5. /\ open' = [open EXCEPT ![a] = [object |-> o, ref_count |-> 1]]
        /\ call' = [at |-> "fd", file |-> a]
        /\ UNCHANGED <<fd_table, objects>>
    BY <1>3 DEF KopenCreate, a
  <1>6. HeldFile' = {a} /\ HeldObject' = {} BY <1>5, HeldNext
  <1>7. a \notin InUse BY <1>4 DEF InUse
  <1>8. DOMAIN open = Address
    BY <1>1 DEF TypeOK
  <1>9. /\ open'[a] = [object |-> o, ref_count |-> 1] /\ open'[a] # Free
        /\ \A b \in Address : b # a => open'[b] = open[b]
    BY <1>4, <1>5, <1>8, Distinct
  <1>10. InUse' = InUse \cup {a} BY <1>4, <1>9 DEF InUse
  <1>11. TypeOK' BY <1>1, <1>4, <1>5, <1>9 DEF TypeOK, objects
  <1>12. FilesOwned'
    BY <1>1, <1>3, <1>5, <1>6, <1>7, <1>10, <1>4, Distinct DEF FilesOwned
  <1>13. ObjectsOwned'
    <2>1. \A b \in InUse : open'[b] = open[b] BY <1>7, <1>9 DEF InUse
    <2>2. {open'[b].object : b \in InUse'} = {open[b].object : b \in InUse} \cup {o}
      BY <1>9, <1>10, <2>1
    <2>3. \A b \in InUse : open[b].object = o => o \in Devices
      BY <1>1, <1>3 DEF ObjectsOwned
    <2>4. \A b, c \in InUse' : open'[b].object = open'[c].object /\ b # c =>
                                  open'[b].object \in Devices
      BY <1>1, <1>9, <1>10, <2>1, <2>3 DEF ObjectsOwned
    <2>5. ToSet(files') = alive' /\ IsInjective(files')
      BY <1>1, <1>5 DEF ObjectsOwned, objects
    <2>6. alive' = ({open'[b].object : b \in InUse'} \cup HeldObject') \ Devices
      BY <1>1, <1>3, <1>5, <1>6, <2>2 DEF ObjectsOwned, objects
    <2>7. \A b \in InUse' : open'[b].object \in HeldObject' => open'[b].object \in Devices
      BY <1>6
    <2> QED BY <2>4, <2>5, <2>6, <2>7 DEF ObjectsOwned
  <1> QED BY <1>11, <1>12, <1>13 DEF IInv

\* alloc_fd: the descriptor takes over the open file.
LEMMA FdInv ==
  ASSUME IInv, KopenFd
  PROVE  IInv'
  <1>1. TypeOK /\ FilesOwned /\ ObjectsOwned BY DEF IInv
  <1>2. PICK a \in Address : call = [at |-> "fd", file |-> a]
    BY <1>1, CallShape DEF KopenFd
  <1>3. HeldFile = {a} /\ HeldObject = {} /\ call.file = a BY <1>2, Held
  <1>4. PICK d \in FreeFds : fd_table' = [fd_table EXCEPT ![d] = a]
    BY <1>3 DEF KopenFd
  <1>5. d \in Fds /\ fd_table[d] = None BY <1>4 DEF FreeFds
  <1>6. /\ call' = Idle /\ open' = open /\ files' = files /\ alive' = alive /\ twice' = twice
        /\ InUse' = InUse
    BY DEF KopenFd, InUse, objects
  <1>7. HeldFile' = {} /\ HeldObject' = {} BY <1>6, HeldNext
  <1>8. TypeOK' BY <1>1, <1>4, <1>5, <1>6 DEF TypeOK
  <1>9. fd_table'[d] = a /\ \A e \in Fds : e # d => fd_table'[e] = fd_table[e]
    BY <1>1, <1>4, <1>5 DEF TypeOK
  <1>10. FilesOwned'
    <2>1. \A e \in Fds : fd_table[e] # a BY <1>1, <1>3 DEF FilesOwned
    <2>2. \A e, g \in Fds : fd_table'[e] = fd_table'[g] /\ e # g => fd_table'[e] = None
      BY <1>1, <1>9, <2>1 DEF FilesOwned
    <2>3. {fd_table'[e] : e \in Fds} \ {None} = ({fd_table[e] : e \in Fds} \ {None}) \cup {a}
      BY <1>5, <1>9, Distinct
    <2>4. InUse' = ({fd_table'[e] : e \in Fds} \ {None}) \cup HeldFile'
      BY <1>1, <1>3, <1>6, <1>7, <2>3 DEF FilesOwned
    <2> QED BY <1>7, <2>2, <2>4 DEF FilesOwned
  <1>11. ObjectsOwned' BY <1>1, <1>3, <1>6, <1>7 DEF ObjectsOwned
  <1> QED BY <1>8, <1>10, <1>11 DEF IInv

\* release_fd: the call takes the open file from the descriptor.
LEMMA KcloseInv ==
  ASSUME IInv, NEW d \in Fds, Kclose(d)
  PROVE  IInv'
  <1> DEFINE a == fd_table[d]
  <1>1. TypeOK /\ FilesOwned /\ ObjectsOwned BY DEF IInv
  <1>2. call = Idle /\ HeldFile = {} /\ HeldObject = {} BY Held DEF Kclose
  <1>3. /\ a \in Address /\ a # None
        /\ fd_table' = [fd_table EXCEPT ![d] = None]
        /\ call' = [at |-> "release", file |-> a]
    BY <1>1 DEF Kclose, TypeOK
  <1>4. /\ open' = open /\ files' = files /\ alive' = alive /\ twice' = twice
        /\ InUse' = InUse
    BY DEF Kclose, InUse, objects
  <1>5. HeldFile' = {a} /\ HeldObject' = {} BY <1>3, HeldNext
  <1>6. fd_table'[d] = None /\ \A e \in Fds : e # d => fd_table'[e] = fd_table[e]
    BY <1>1, <1>3 DEF TypeOK
  <1>7. TypeOK' BY <1>1, <1>3, <1>4 DEF TypeOK
  <1>8. FilesOwned'
    <2>1. \A e \in Fds : e # d => fd_table[e] # a BY <1>1, <1>3 DEF FilesOwned
    <2>2. \A e, g \in Fds : fd_table'[e] = fd_table'[g] /\ e # g => fd_table'[e] = None
      BY <1>1, <1>6 DEF FilesOwned
    <2>3. {fd_table[e] : e \in Fds} \ {None} = ({fd_table'[e] : e \in Fds} \ {None}) \cup {a}
      BY <1>3, <1>6
    <2>4. \A e \in Fds : fd_table'[e] # a BY <1>3, <1>6, <2>1
    <2> QED BY <1>1, <1>2, <1>4, <1>5, <2>2, <2>3, <2>4 DEF FilesOwned
  <1>9. ObjectsOwned' BY <1>1, <1>2, <1>4, <1>5 DEF ObjectsOwned
  <1> QED BY <1>7, <1>8, <1>9 DEF IInv

\* The end of kstat and klstat.
LEMMA StatCloseInv ==
  ASSUME IInv, KstatClose
  PROVE  IInv'
  <1>1. TypeOK /\ FilesOwned /\ ObjectsOwned BY DEF IInv
  <1>2. PICK o \in Devices \cup Address : call = [at |-> "stat", object |-> o]
    BY <1>1, CallShape DEF KstatClose
  <1>3. HeldFile = {} /\ HeldObject = {o} /\ call.object = o BY <1>2, Held
  <1>4. /\ CloseObject(o) /\ call' = Idle /\ open' = open /\ fd_table' = fd_table
        /\ InUse' = InUse
    BY <1>3 DEF KstatClose, InUse
  <1>5. HeldFile' = {} /\ HeldObject' = {} BY <1>4, HeldNext
  <1>6. o \in Devices \cup alive BY <1>1, <1>3 DEF ObjectsOwned
  <1>7. /\ files' \in Seq(Address) /\ IsInjective(files') /\ ToSet(files') = alive'
        /\ alive' = IF o \in Devices THEN alive ELSE alive \ {o}
        /\ twice' \in BOOLEAN
    BY <1>4, <1>6, Closes
  <1>8. TypeOK' BY <1>1, <1>4, <1>7 DEF TypeOK
  <1>9. FilesOwned' BY <1>1, <1>3, <1>4, <1>5 DEF FilesOwned
  <1>10. ObjectsOwned'
    <2>1. \A a \in InUse : open[a].object = o => o \in Devices
      BY <1>1, <1>3 DEF ObjectsOwned
    <2>2. alive' = {open[a].object : a \in InUse} \ Devices
      BY <1>1, <1>3, <1>7, <2>1 DEF ObjectsOwned
    <2> QED BY <1>1, <1>4, <1>5, <1>7, <2>2 DEF ObjectsOwned
  <1> QED BY <1>8, <1>9, <1>10 DEF IInv

\* release_open_file of the open file that the call holds: the end of kclose
\* and of a kopen that found no descriptor.
LEMMA ReleaseInv ==
  ASSUME IInv, NEW step \in {"fd", "release"}, NEW a \in Address,
         call = [at |-> step, file |-> a], Release(a), call' = Idle, UNCHANGED fd_table
  PROVE  IInv'
  <1> DEFINE o == open[a].object
  <1>1. TypeOK /\ FilesOwned /\ ObjectsOwned BY DEF IInv
  <1>2. HeldFile = {a} /\ HeldObject = {} BY Held
  <1>3. HeldFile' = {} /\ HeldObject' = {} BY HeldNext
  <1>4. a \in InUse BY <1>1, <1>2 DEF FilesOwned
  <1>5. open[a].ref_count = 1 /\ o \in Devices \cup Address
    BY <1>1, <1>4 DEF TypeOK, InUse
  <1>6. open' = [open EXCEPT ![a] = Free] /\ CloseObject(o)
    BY <1>5 DEF Release
  <1>7. open'[a] = Free /\ \A b \in Address : b # a => open'[b] = open[b]
    BY <1>1, <1>6 DEF TypeOK
  <1>8. InUse' = InUse \ {a} BY <1>7 DEF InUse
  <1>9. o \in Devices \cup alive BY <1>1, <1>4 DEF ObjectsOwned
  <1>10. /\ files' \in Seq(Address) /\ IsInjective(files') /\ ToSet(files') = alive'
         /\ alive' = IF o \in Devices THEN alive ELSE alive \ {o}
         /\ twice' \in BOOLEAN
    BY <1>6, <1>9, Closes
  <1>11. TypeOK' BY <1>1, <1>6, <1>10 DEF TypeOK
  <1>12. FilesOwned'
    BY <1>1, <1>2, <1>3, <1>8 DEF FilesOwned
  <1>13. ObjectsOwned'
    <2>1. \A b \in InUse \ {a} : open[b].object = o => o \in Devices
      BY <1>1, <1>4 DEF ObjectsOwned
    <2>2. \A b \in InUse' : b \in InUse /\ b # a /\ open'[b] = open[b]
      BY <1>7, <1>8 DEF InUse
    <2>3. {open'[b].object : b \in InUse'} = {open[b].object : b \in InUse \ {a}}
      BY <1>8, <2>2
    <2>4. alive' = {open[b].object : b \in InUse \ {a}} \ Devices
      BY <1>1, <1>2, <1>4, <1>10, <2>1 DEF ObjectsOwned
    <2>5. alive' = ({open'[b].object : b \in InUse'} \cup HeldObject') \ Devices
      BY <1>3, <2>3, <2>4
    <2>6. \A b, c \in InUse' : open'[b].object = open'[c].object /\ b # c =>
                                  open'[b].object \in Devices
      BY <1>1, <2>2 DEF ObjectsOwned
    <2> QED BY <1>3, <1>10, <2>5, <2>6 DEF ObjectsOwned
  <1> QED BY <1>11, <1>12, <1>13 DEF IInv

-----------------------------------------------------------------------------
LEMMA InitInv == Init => IInv
  <1> SUFFICES ASSUME Init PROVE IInv OBVIOUS
  <1>1. HeldFile = {} /\ HeldObject = {} BY Held DEF Init
  <1>2. InUse = {} /\ \A d \in Fds : fd_table[d] = None BY DEF Init, InUse
  <1>3. TypeOK
    <2>1. fd_table \in [Fds -> Address \cup {None}] BY DEF Init
    <2>2. open \in [Address -> {Free} \cup [object : Devices \cup Address, ref_count : {1}]]
      BY DEF Init
    <2>3. files \in Seq(Address) /\ alive \subseteq Address BY DEF Init
    <2>4. call = Idle /\ twice \in BOOLEAN BY DEF Init
    <2> QED BY <2>1, <2>2, <2>3, <2>4 DEF TypeOK
  <1>4. FilesOwned BY <1>1, <1>2 DEF FilesOwned
  <1>5. ObjectsOwned BY <1>1, <1>2 DEF ObjectsOwned, Init, ToSet, IsInjective
  <1> QED BY <1>3, <1>4, <1>5 DEF IInv

LEMMA NextInv == IInv /\ [Next]_vars => IInv'
  <1> SUFFICES ASSUME IInv, [Next]_vars PROVE IInv' OBVIOUS
  <1>1. CASE KopenObject BY <1>1, BeginInv DEF KopenObject
  <1>2. CASE KopenCreate BY <1>2, CreateInv
  <1>3. CASE KopenFd BY <1>3, FdInv
  <1>4. CASE KopenFull
    <2>1. PICK a \in Address : call = [at |-> "fd", file |-> a]
      BY <1>4, CallShape DEF KopenFull, IInv
    <2> QED BY <1>4, <2>1, Held, ReleaseInv DEF KopenFull
  <1>5. CASE KstatObject BY <1>5, BeginInv DEF KstatObject
  <1>6. CASE KstatClose BY <1>6, StatCloseInv
  <1>7. ASSUME NEW d \in Fds, Kclose(d) PROVE IInv' BY <1>7, KcloseInv
  <1>8. CASE KcloseFile
    <2>1. PICK a \in Address : call = [at |-> "release", file |-> a]
      BY <1>8, CallShape DEF KcloseFile, IInv
    <2> QED BY <1>8, <2>1, Held, ReleaseInv DEF KcloseFile
  <1>9. CASE UNCHANGED vars
    BY <1>9 DEF IInv, TypeOK, FilesOwned, ObjectsOwned, InUse, HeldFile, HeldObject, vars, objects
  <1> QED BY <1>1, <1>2, <1>3, <1>4, <1>5, <1>6, <1>7, <1>8, <1>9 DEF Next

LEMMA Invariance == Spec => []IInv
  BY InitInv, NextInv, PTL DEF Spec

\* Descriptors, open files and objects keep their shape: a count is never
\* anything but 1, so the decrement in release_open_file never goes below 0.
THEOREM TypeTheorem == Spec => []TypeOK
  <1>1. IInv => TypeOK BY DEF IInv
  <1> QED BY <1>1, Invariance, PTL

\* Whatever sequence of opens, closes and failures comes, every open file has
\* one owner: no leak and no use after release.
THEOREM FilesTheorem == Spec => []FilesOwned
  <1>1. IInv => FilesOwned BY DEF IInv
  <1> QED BY <1>1, Invariance, PTL

\* The file system's list holds the objects that somebody uses and no others.
THEOREM ObjectsTheorem == Spec => []ObjectsOwned
  <1>1. IInv => ObjectsOwned BY DEF IInv
  <1> QED BY <1>1, Invariance, PTL

-----------------------------------------------------------------------------
(* The mount table, for every disk: how the vector of file systems and the *)
(* pointer that is mounted as "/" relate.                                  *)
Mounts == [path : {<<>>, <<Dev>>}, fs : [block : Nat, index : Nat]]
IsRoot(i) == mounts[i].path = <<>>

\* A vector has room for its elements, and just that for one.
Room ==
  /\ \E S : systems \in Seq(S)
  /\ capacity \in Nat /\ Len(systems) <= capacity
  /\ Len(systems) = 0 <=> capacity = 0
  /\ Len(systems) = 1 <=> capacity = 1

MountsInv ==
  /\ Room
  /\ mounts \in Seq(Mounts)
  /\ \A i, j \in DOMAIN mounts : mounts[i].path = mounts[j].path => i = j
  /\ Len(systems) # 0 <=> \E i \in DOMAIN mounts : IsRoot(i)
  /\ \A i \in DOMAIN mounts : IsRoot(i) => mounts[i].fs = [block |-> 1, index |-> 1]

\* VFS::mount keeps what is mounted.
LEMMA MountedFacts ==
  ASSUME NEW fs \in [block : Nat, index : Nat], NEW path \in {<<>>, <<Dev>>},
         mounts \in Seq(Mounts),
         \A i, j \in DOMAIN mounts : mounts[i].path = mounts[j].path => i = j,
         mounts' = Mounted(path, fs)
  PROVE  /\ mounts' \in Seq(Mounts)
         /\ \A i, j \in DOMAIN mounts' : mounts'[i].path = mounts'[j].path => i = j
         /\ \E i \in DOMAIN mounts' : mounts'[i].path = path
         /\ \A i \in DOMAIN mounts : i \in DOMAIN mounts' /\ mounts'[i] = mounts[i]
         /\ \A i \in DOMAIN mounts' :
              \/ i \in DOMAIN mounts
              \/ /\ mounts'[i] = [path |-> path, fs |-> fs]
                 /\ \A j \in DOMAIN mounts : mounts[j].path # path
  <1>1. CASE \E i \in DOMAIN mounts : mounts[i].path = path
    BY <1>1 DEF Mounted
  <1>2. CASE ~ \E i \in DOMAIN mounts : mounts[i].path = path
    <2>1. PICK e : e = [path |-> path, fs |-> fs] OBVIOUS
    <2>2. e \in Mounts /\ e.path = path BY <2>1 DEF Mounts
    <2>3. mounts' = Append(mounts, e) BY <1>2, <2>1 DEF Mounted
    <2>4. /\ mounts' \in Seq(Mounts) /\ Len(mounts) \in Nat
          /\ DOMAIN mounts = 1 .. Len(mounts) /\ DOMAIN mounts' = 1 .. Len(mounts) + 1
          /\ mounts'[Len(mounts) + 1] = e /\ \A i \in DOMAIN mounts : mounts'[i] = mounts[i]
      BY <2>2, <2>3
    <2>5. \A i \in DOMAIN mounts' : i \in DOMAIN mounts \/ (i = Len(mounts) + 1 /\ mounts'[i] = e)
      BY <2>4
    <2>6. \A i, j \in DOMAIN mounts' : mounts'[i].path = mounts'[j].path => i = j
      BY <1>2, <2>2, <2>4, <2>5
    <2>7. Len(mounts) + 1 \in DOMAIN mounts' BY <2>4
    <2> QED BY <1>2, <2>1, <2>2, <2>4, <2>5, <2>6, <2>7
  <1> QED BY <1>1, <1>2

LEMMA MountsInit == MountInit => MountsInv
  <1> SUFFICES ASSUME MountInit PROVE MountsInv OBVIOUS
  <1>1. systems = <<>> /\ systems \in Seq({}) /\ Len(systems) = 0 /\ capacity = 0 BY DEF MountInit
  <1>2. Room BY <1>1 DEF Room
  <1>3. mounts \in Seq(Mounts) /\ DOMAIN mounts = {} BY DEF MountInit
  <1> QED BY <1>1, <1>2, <1>3 DEF MountsInv

LEMMA MountsSame ==
  ASSUME MountsInv, UNCHANGED <<systems, capacity, mounts>>
  PROVE  MountsInv'
  BY DEF MountsInv, Room, IsRoot

LEMMA MountsProbe ==
  ASSUME MountsInv, systems' = Append(systems, Len(disk.table) - Len(partitions) + 1),
         capacity' = Grown, mounts' = Mounted(<<>>, Back(systems', capacity'))
  PROVE  MountsInv'
  <1>1. PICK e : e = Len(disk.table) - Len(partitions) + 1 OBVIOUS
  <1>2. PICK S : systems \in Seq(S) BY DEF MountsInv, Room
  <1>3. PICK n \in Nat : n = Len(systems) BY <1>2
  <1>4. systems' \in Seq(S \cup {e}) /\ Len(systems') = n + 1
    <2>1. systems \in Seq(S \cup {e}) BY <1>2
    <2> QED BY <1>1, <1>3, <2>1
  <1>5. capacity \in Nat /\ n <= capacity /\ (n = 0 <=> capacity = 0) /\ (n = 1 <=> capacity = 1)
    BY <1>3 DEF MountsInv, Room
  <1>6. capacity' = IF n = capacity THEN (IF capacity = 0 THEN 1 ELSE 2 * capacity) ELSE capacity
    BY <1>3 DEF Grown
  <1>7. /\ capacity' \in Nat /\ n + 1 <= capacity' /\ capacity' # 0
        /\ n + 1 = 1 <=> capacity' = 1
    BY <1>5, <1>6
  <1>8. Room'
    <2>1. n + 1 # 0 BY <1>3
    <2> QED BY <1>4, <1>7, <2>1 DEF Room
  <1>9. PICK fs : fs = [block |-> capacity', index |-> n + 1] OBVIOUS
  <1>10. fs \in [block : Nat, index : Nat] /\ mounts' = Mounted(<<>>, fs)
    BY <1>3, <1>4, <1>7, <1>9 DEF Back
  <1>11. /\ mounts' \in Seq(Mounts)
         /\ \A i, j \in DOMAIN mounts' : mounts'[i].path = mounts'[j].path => i = j
         /\ \E i \in DOMAIN mounts' : mounts'[i].path = <<>>
         /\ \A i \in DOMAIN mounts : i \in DOMAIN mounts' /\ mounts'[i] = mounts[i]
         /\ \A i \in DOMAIN mounts' :
              \/ i \in DOMAIN mounts
              \/ /\ mounts'[i] = [path |-> <<>>, fs |-> fs]
                 /\ \A j \in DOMAIN mounts : mounts[j].path # <<>>
    BY <1>10, MountedFacts DEF MountsInv
  <1>12. ASSUME NEW i \in DOMAIN mounts', mounts'[i].path = <<>>
         PROVE  mounts'[i].fs = [block |-> 1, index |-> 1]
    <2>1. CASE i \in DOMAIN mounts BY <2>1, <1>11, <1>12 DEF MountsInv, IsRoot
    <2>2. CASE mounts'[i].fs = fs /\ \A j \in DOMAIN mounts : mounts[j].path # <<>>
      <3>1. n = 0 BY <2>2, <1>3 DEF MountsInv, IsRoot
      <3>2. capacity' = 1 BY <3>1, <1>7
      <3> QED BY <2>2, <3>1, <3>2, <1>9
    <2> QED BY <2>1, <2>2, <1>11
  <1>13. Len(systems') # 0 BY <1>3, <1>4
  <1> QED BY <1>8, <1>11, <1>12, <1>13 DEF MountsInv, IsRoot

LEMMA MountsDevices ==
  ASSUME MountsInv, UNCHANGED <<systems, capacity>>, mounts' = Mounted(<<Dev>>, DevFs)
  PROVE  MountsInv'
  <1>1. Room' BY DEF MountsInv, Room
  <1>2. DevFs \in [block : Nat, index : Nat] BY DEF DevFs
  <1>3. <<Dev>> # <<>> OBVIOUS
  <1>4. /\ mounts' \in Seq(Mounts)
        /\ \A i, j \in DOMAIN mounts' : mounts'[i].path = mounts'[j].path => i = j
        /\ \A i \in DOMAIN mounts : i \in DOMAIN mounts' /\ mounts'[i] = mounts[i]
        /\ \A i \in DOMAIN mounts' :
             i \in DOMAIN mounts \/ mounts'[i] = [path |-> <<Dev>>, fs |-> DevFs]
    BY <1>2, MountedFacts DEF MountsInv
  <1>5. \A i \in DOMAIN mounts' : mounts'[i].path = <<>> => i \in DOMAIN mounts BY <1>3, <1>4
  <1> QED BY <1>1, <1>4, <1>5 DEF MountsInv, IsRoot

LEMMA MountsNext == MountsInv /\ [MountNext]_mountVars => MountsInv'
  <1> SUFFICES ASSUME MountsInv, [MountNext]_mountVars PROVE MountsInv' OBVIOUS
  <1>1. CASE \/ ReadHeader \/ ReadEntries \/ Probed \/ Open \/ UNCHANGED mountVars
    BY <1>1, MountsSame DEF ReadHeader, ReadEntries, Probed, Open, mountVars
  <1>2. CASE Probe BY <1>2, MountsSame, MountsProbe DEF Probe
  <1>3. CASE RegisterDevices BY <1>3, MountsDevices DEF RegisterDevices
  <1> QED BY <1>1, <1>2, <1>3 DEF MountNext

\* Whatever the disk holds and whichever reads fail: no path is mounted twice; "/"
\* is mounted if a FAT32 partition could be read, and is the first one; and its
\* pointer is good as long as there is no second one.
THEOREM MountsLiveTheorem == MountSpec => []MountsLive
  <1>1. MountsInv => MountsLive
    <2> SUFFICES ASSUME MountsInv PROVE MountsLive OBVIOUS
    <2>1. systems # <<>> <=> Len(systems) # 0
      <3>1. PICK S : systems \in Seq(S) BY DEF MountsInv, Room
      <3> QED BY <3>1
    <2>2. \A i \in DOMAIN mounts : IsRoot(i) =>
            /\ mounts[i].fs.index = 1 /\ mounts[i].fs.block = 1
      BY DEF MountsInv
    <2>3. capacity = 1 <=> Len(systems) = 1 BY DEF MountsInv, Room
    <2> QED BY <2>1, <2>2, <2>3 DEF MountsInv, IsRoot, MountsLive, Alive
  <1> QED BY <1>1, MountsInit, MountsNext, PTL DEF MountSpec

-----------------------------------------------------------------------------
(* Recursion, for the scan of the directory.                               *)
\* A set of numbers that is not empty has a least element.  (The order of finite
\* sets by inclusion is well founded; x is least if 0 .. x is minimal in it.)
LEMMA LeastElement ==
  ASSUME NEW T \in SUBSET Nat, T # {}
  PROVE  \E m \in T : \A k \in T : m <= k
  <1> DEFINE Order == StrictSubsetOrdering(Nat)
             Below == {0 .. x : x \in T}
  <1>1. IsWellFoundedOn(Order, FiniteSubsetsOf(Nat)) BY FS_StrictSubsetOrderingWellFounded
  <1>2. Below \subseteq FiniteSubsetsOf(Nat)
    <2>1. \A x \in T : IsFiniteSet(0 .. x) BY FS_Interval
    <2> QED BY <2>1 DEF FiniteSubsetsOf
  <1>3. Below # {} OBVIOUS
  <1> HIDE DEF Below, Order
  <1>4. PICK b \in Below : \A c \in Below : ~ (<<c, b>> \in Order) BY <1>1, <1>2, <1>3, WFMin
  <1>5. PICK m \in T : b = 0 .. m BY DEF Below
  <1>6. \A k \in T : m <= k
    <2> SUFFICES ASSUME NEW k \in T, k < m PROVE FALSE OBVIOUS
    <2>1. 0 .. k \in Below BY DEF Below
    <2>2. <<0 .. k, 0 .. m>> \in Order BY DEF Order, StrictSubsetOrdering
    <2> QED BY <2>1, <2>2, <1>4, <1>5
  <1> QED BY <1>6

\* What holds of 0, and of m if it holds of m - 1, holds up to n: H is the set of
\* the numbers that it holds of.
LEMMA UpTo ==
  ASSUME NEW H, NEW n \in Nat, 0 \in H, \A m \in 1 .. n : m - 1 \in H => m \in H
  PROVE  \A m \in 0 .. n : m \in H
  <1> DEFINE T == {m \in 0 .. n : m \notin H}
  <1> SUFFICES ASSUME T # {} PROVE FALSE OBVIOUS
  <1>1. T \in SUBSET Nat OBVIOUS
  <1>2. PICK m \in T : \A k \in T : m <= k BY <1>1, LeastElement
  <1>3. m \in 0 .. n /\ m \notin H BY <1>2
  <1>4. m # 0 BY <1>3
  <1>5. m \in 1 .. n /\ m - 1 \in 0 .. n /\ ~ (m <= m - 1) BY <1>3, <1>4
  <1>6. m - 1 \notin H BY <1>3, <1>5
  <1>7. m - 1 \in T BY <1>5, <1>6
  <1> QED BY <1>2, <1>5, <1>7

\* The function that a recursion from a by step defines on 1 .. n; there is one.
Follows(g, n, a, step) ==
  \A i \in 1 .. n : g[i] = IF i = 1 THEN a ELSE step[<<i, g[i - 1]>>]
Runs(n, S, a, step) == \E g \in [1 .. n -> S] : Follows(g, n, a, step)
LEMMA RecursionExists ==
  ASSUME NEW n \in Nat, NEW S, NEW a \in S, NEW step \in [(2 .. n) \X S -> S]
  PROVE  Runs(n, S, a, step)
  <1> DEFINE H == {m \in 0 .. n : Runs(m, S, a, step)}
  <1>1. 0 \in H
    <2>1. PICK g \in [1 .. 0 -> S] : g = [i \in 1 .. 0 |-> a] OBVIOUS
    <2>2. Follows(g, 0, a, step) BY DEF Follows
    <2>3. Runs(0, S, a, step) BY <2>2 DEF Runs
    <2> QED BY <2>3
  <1>2. ASSUME NEW m \in 1 .. n, m - 1 \in H PROVE m \in H
    <2>1. PICK g \in [1 .. m - 1 -> S] : Follows(g, m - 1, a, step) BY <1>2 DEF Runs
    <2> DEFINE e == IF m = 1 THEN a ELSE step[<<m, g[m - 1]>>]
               h == [i \in 1 .. m |-> IF i = m THEN e ELSE g[i]]
    <2>2. e \in S
      <3>1. CASE m = 1 BY <3>1
      <3>2. CASE m # 1
        <4>1. m \in 2 .. n /\ m - 1 \in 1 .. m - 1 BY <3>2
        <4>2. g[m - 1] \in S BY <4>1
        <4>3. <<m, g[m - 1]>> \in (2 .. n) \X S BY <4>1, <4>2
        <4> QED BY <3>2, <4>3
      <3> QED BY <3>1, <3>2
    <2> HIDE DEF e
    <2>3. \A i \in 1 .. m : i # m => i \in 1 .. m - 1 OBVIOUS
    <2>4. h \in [1 .. m -> S] BY <2>2, <2>3
    <2>5. ASSUME NEW i \in 1 .. m PROVE h[i] = IF i = 1 THEN a ELSE step[<<i, h[i - 1]>>]
      <3>1. CASE i = m
        <4>1. h[i] = e BY <3>1
        <4>2. m # 1 => m - 1 \in 1 .. m /\ m - 1 # m OBVIOUS
        <4>3. m # 1 => h[m - 1] = g[m - 1] BY <4>2
        <4> HIDE DEF h
        <4> QED BY <3>1, <4>1, <4>3 DEF e
      <3>2. CASE i # m
        <4>1. i \in 1 .. m - 1 BY <3>2, <2>3
        <4>2. h[i] = g[i] BY <3>2
        <4>3. i # 1 => i - 1 \in 1 .. m /\ i - 1 # m BY <4>1
        <4>4. i # 1 => h[i - 1] = g[i - 1] BY <4>3
        <4> HIDE DEF h
        <4>5. g[i] = IF i = 1 THEN a ELSE step[<<i, g[i - 1]>>] BY <2>1, <4>1 DEF Follows
        <4> QED BY <4>2, <4>4, <4>5
      <3> QED BY <3>1, <3>2
    <2>6. Follows(h, m, a, step) BY <2>5 DEF Follows
    <2>7. m \in 0 .. n OBVIOUS
    <2>8. Runs(m, S, a, step) BY <2>4, <2>6 DEF Runs
    <2> QED BY <2>7, <2>8
  <1> HIDE DEF H
  <1>3. n \in H BY <1>1, <1>2, UpTo
  <1> QED BY <1>3 DEF H

\* The recursion of FlattenSeq.
LEMMA FlattenRuns ==
  ASSUME NEW X, NEW s \in Seq(Seq(X)), Len(s) # 0
  PROVE  \E g \in [1 .. Len(s) -> Seq(X)] :
           /\ \A i \in 1 .. Len(s) : g[i] = IF i = 1 THEN s[i] ELSE g[i - 1] \o s[i]
           /\ FlattenSeq(s) = g[Len(s)]
  <1> DEFINE n == Len(s)
             f == CHOOSE g : g = [i \in 1 .. n |-> IF i = 1 THEN s[i] ELSE g[i - 1] \o s[i]]
             step == [x \in (2 .. n) \X Seq(X) |-> x[2] \o s[x[1]]]
  <1>1. n \in Nat /\ \A i \in 1 .. n : s[i] \in Seq(X) OBVIOUS
  <1>2. FlattenSeq(s) = f[n] BY DEF FlattenSeq
  <1>3. step \in [(2 .. n) \X Seq(X) -> Seq(X)]
    <2>1. \A x \in (2 .. n) \X Seq(X) : x[2] \in Seq(X) /\ s[x[1]] \in Seq(X) OBVIOUS
    <2>2. \A u, v \in Seq(X) : u \o v \in Seq(X) OBVIOUS
    <2> QED BY <2>1, <2>2
  <1>4. 1 \in 1 .. n /\ s[1] \in Seq(X) BY <1>1
  <1> HIDE DEF step
  <1>5. PICK g \in [1 .. n -> Seq(X)] : Follows(g, n, s[1], step)
    BY <1>1, <1>3, <1>4, RecursionExists DEF Runs
  <1>6. \A i \in 1 .. n : g[i] = IF i = 1 THEN s[i] ELSE g[i - 1] \o s[i]
    <2> SUFFICES ASSUME NEW i \in 1 .. n PROVE g[i] = IF i = 1 THEN s[i] ELSE g[i - 1] \o s[i]
      OBVIOUS
    <2>1. g[i] = IF i = 1 THEN s[1] ELSE step[<<i, g[i - 1]>>] BY <1>5 DEF Follows
    <2>2. i # 1 => step[<<i, g[i - 1]>>] = g[i - 1] \o s[i]
      <3> SUFFICES ASSUME i # 1 PROVE step[<<i, g[i - 1]>>] = g[i - 1] \o s[i] OBVIOUS
      <3>1. i \in 2 .. n /\ i - 1 \in 1 .. n BY <1>1
      <3>2. g[i - 1] \in Seq(X) BY <3>1
      <3> QED BY <3>1, <3>2 DEF step
    <2> QED BY <2>1, <2>2
  <1>7. g = [i \in 1 .. n |-> g[i]] OBVIOUS
  <1>8. g = [i \in 1 .. n |-> IF i = 1 THEN s[i] ELSE g[i - 1] \o s[i]] BY <1>6, <1>7
  <1>9. f = [i \in 1 .. n |-> IF i = 1 THEN s[i] ELSE f[i - 1] \o s[i]] BY <1>8
  <1> HIDE DEF f
  <1>10. \A i \in 1 .. n : f[i] = IF i = 1 THEN s[i] ELSE f[i - 1] \o s[i] BY <1>9
  <1>11. \A i \in 0 .. n : i \in 1 .. n => f[i] = g[i]
    <2> DEFINE H == {i \in 0 .. n : i \in 1 .. n => f[i] = g[i]}
    <2>1. 0 \in H BY <1>1
    <2>2. ASSUME NEW i \in 1 .. n, i - 1 \in H PROVE i \in H
      <3>1. i \in 0 .. n OBVIOUS
      <3>2. i # 1 => i - 1 \in 1 .. n /\ f[i - 1] = g[i - 1] BY <2>2
      <3>3. f[i] = IF i = 1 THEN s[i] ELSE f[i - 1] \o s[i] BY <1>10
      <3>4. g[i] = IF i = 1 THEN s[i] ELSE g[i - 1] \o s[i] BY <1>6
      <3>5. f[i] = g[i] BY <3>2, <3>3, <3>4
      <3> QED BY <3>1, <3>5
    <2> HIDE DEF H
    <2>3. \A i \in 0 .. n : i \in H BY <1>1, <2>1, <2>2, UpTo
    <2> QED BY <2>3 DEF H
  <1>12. n \in 1 .. n BY <1>1
  <1>13. FlattenSeq(s) = g[n] BY <1>2, <1>11, <1>12
  <1> QED BY <1>6, <1>13

\* Flattening a sequence is flattening all but its last element, and that.
LEMMA FlattenStep ==
  ASSUME NEW X, NEW s \in Seq(Seq(X)), NEW t \in Seq(Seq(X)),
         Len(s) = Len(t) + 1, \A k \in 1 .. Len(t) : t[k] = s[k]
  PROVE  /\ FlattenSeq(s) \in Seq(X)
         /\ FlattenSeq(s) = IF Len(t) = 0 THEN s[1] ELSE FlattenSeq(t) \o s[Len(s)]
  <1>1. PICK n \in Nat : n = Len(t) OBVIOUS
  <1>2. Len(s) = n + 1 /\ n + 1 \in 1 .. n + 1 BY <1>1
  <1>3. PICK g \in [1 .. n + 1 -> Seq(X)] :
          /\ \A i \in 1 .. n + 1 : g[i] = IF i = 1 THEN s[i] ELSE g[i - 1] \o s[i]
          /\ FlattenSeq(s) = g[n + 1]
    <2>1. Len(s) # 0 BY <1>2
    <2>2. \E g \in [1 .. Len(s) -> Seq(X)] :
            /\ \A i \in 1 .. Len(s) : g[i] = IF i = 1 THEN s[i] ELSE g[i - 1] \o s[i]
            /\ FlattenSeq(s) = g[Len(s)]
      BY <2>1, FlattenRuns
    <2> QED BY <1>2, <2>2
  <1>4. FlattenSeq(s) \in Seq(X) BY <1>2, <1>3
  <1>5. CASE n = 0
    <2>1. g[1] = s[1] BY <1>2, <1>3, <1>5
    <2> QED BY <1>1, <1>3, <1>4, <1>5, <2>1
  <1>6. CASE n # 0
    <2>1. PICK h \in [1 .. n -> Seq(X)] :
            /\ \A i \in 1 .. n : h[i] = IF i = 1 THEN t[i] ELSE h[i - 1] \o t[i]
            /\ FlattenSeq(t) = h[n]
      BY <1>1, <1>6, FlattenRuns
    <2> DEFINE H == {i \in 0 .. n : i \in 1 .. n => g[i] = h[i]}
    <2>2. 0 \in H BY <1>1
    <2>3. ASSUME NEW i \in 1 .. n, i - 1 \in H PROVE i \in H
      <3>1. i \in 0 .. n /\ i \in 1 .. n + 1 BY <1>1
      <3>2. i # 1 => i - 1 \in 1 .. n /\ g[i - 1] = h[i - 1] BY <2>3
      <3>3. t[i] = s[i] BY <1>1
      <3>4. h[i] = IF i = 1 THEN t[i] ELSE h[i - 1] \o t[i] BY <2>1
      <3>5. g[i] = IF i = 1 THEN s[i] ELSE g[i - 1] \o s[i] BY <1>3, <3>1
      <3>6. g[i] = h[i] BY <3>2, <3>3, <3>4, <3>5
      <3> QED BY <3>1, <3>6
    <2> HIDE DEF H
    <2>4. \A i \in 0 .. n : i \in H BY <1>1, <2>2, <2>3, UpTo
    <2>5. g[n] = h[n]
      <3>1. n \in 0 .. n /\ n \in 1 .. n BY <1>1, <1>6
      <3> QED BY <2>4, <3>1 DEF H
    <2>6. g[n + 1] = g[n] \o s[n + 1]
      <3>1. n + 1 # 1 /\ (n + 1) - 1 = n BY <1>1, <1>6
      <3> QED BY <1>2, <1>3, <3>1
    <2> QED BY <1>1, <1>2, <1>3, <1>4, <1>6, <2>1, <2>5, <2>6
  <1> QED BY <1>5, <1>6

-----------------------------------------------------------------------------
(* The directory as it is stored.                                          *)
Pieces == Full \cup Short
Record ==
  [kind : {"long"}, order : 1 .. MaxPieces, piece : Pieces]
    \cup [kind : {"file", "dir", "label", "deleted"}, file : Nat]
    \cup [kind : {"deleted"}]
Size(i) == Len(disk.dir[i].name)
Flat(i) == FlattenSeq([k \in 1 .. i |-> Records(k)])
End(i)  == Len(Flat(i))

\* A name consists of pieces, all but the last one full.
LEMMA NameFacts ==
  ASSUME NEW name \in Names \cup {<<>>}
  PROVE  /\ name \in Seq(Pieces) /\ Len(name) \in 0 .. MaxPieces
         /\ Len(name) = 0 <=> name = <<>>
         /\ \A q \in 1 .. Len(name) - 1 : name[q] \in Full
  <1>1. MaxPieces \in Nat \ {0} BY DiskAssumption
  <1>2. CASE name = <<>> BY <1>1, <1>2
  <1>3. CASE name # <<>>
    <2>0. PICK n \in 1 .. MaxPieces :
            name \in {Append(front, piece) : front \in [1 .. n - 1 -> Full], piece \in Full \cup Short}
      BY <1>3 DEF Names
    <2>1. PICK f \in [1 .. n - 1 -> Full], p \in Pieces : name = Append(f, p)
      BY <2>0 DEF Pieces
    <2>2. f \in Seq(Full) /\ Len(f) = n - 1 BY <1>1, <2>1
    <2>3. f \in Seq(Pieces) BY <2>2 DEF Pieces
    <2>4. name \in Seq(Pieces) /\ Len(name) = n /\ \A q \in 1 .. n - 1 : name[q] = f[q]
      BY <1>1, <2>1, <2>2, <2>3
    <2>5. \A q \in 1 .. n - 1 : f[q] \in Full BY <2>1
    <2> QED BY <1>1, <1>3, <2>1, <2>4, <2>5
  <1> QED BY <1>2, <1>3

\* What DiskAssumption says of the files of the directory.
LEMMA DirFacts ==
  ASSUME disk \in Disks
  PROVE  /\ Len(disk.dir) \in Nat /\ DOMAIN disk.dir = 1 .. Len(disk.dir)
         /\ \A i \in DOMAIN disk.dir :
              /\ disk.dir[i].name \in Names \cup {<<>>}
              /\ disk.dir[i].kind \in {"file", "dir", "label", "deleted"}
              /\ Size(i) \in 0 .. MaxPieces /\ MaxPieces \in Nat \ {0}
  <1>1. disk.dir \in Seq(File) /\ MaxPieces \in Nat \ {0} BY DiskAssumption
  <1>2. \A i \in DOMAIN disk.dir : disk.dir[i] \in File BY <1>1
  <1>3. ASSUME NEW i \in DOMAIN disk.dir PROVE disk.dir[i].name \in Names \cup {<<>>}
    BY <1>2 DEF File
  <1>4. ASSUME NEW i \in DOMAIN disk.dir
        PROVE disk.dir[i].kind \in {"file", "dir", "label", "deleted"}
    BY <1>2 DEF File
  <1>5. \A i \in DOMAIN disk.dir : Size(i) \in 0 .. MaxPieces BY <1>3, NameFacts DEF Size
  <1> QED BY <1>1, <1>3, <1>4, <1>5

\* A file has one record for each piece of its name, the last piece first, and
\* one of its own.
LEMMA RecordsFacts ==
  ASSUME disk \in Disks, NEW i \in DOMAIN disk.dir
  PROVE  /\ Records(i) \in Seq(Record) /\ Len(Records(i)) = Size(i) + 1
         /\ disk.dir[i].kind = "deleted" =>
              \A k \in 1 .. Size(i) + 1 : Records(i)[k].kind = "deleted"
         /\ disk.dir[i].kind # "deleted" =>
              /\ \A k \in 1 .. Size(i) :
                   Records(i)[k] = [kind |-> "long", order |-> Size(i) + 1 - k,
                                    piece |-> disk.dir[i].name[Size(i) + 1 - k]]
              /\ Records(i)[Size(i) + 1] = [kind |-> disk.dir[i].kind, file |-> i]
  <1> DEFINE n == Size(i)
             name == disk.dir[i].name
             long == [k \in 1 .. n |-> [kind |-> "long", order |-> n + 1 - k, piece |-> name[n + 1 - k]]]
             own == [kind |-> disk.dir[i].kind, file |-> i]
             all == long \o <<own>>
  <1>1. n \in 0 .. MaxPieces /\ MaxPieces \in Nat /\ i \in Nat BY DirFacts
  <1>2. name \in Seq(Pieces) /\ n = Len(name) BY DirFacts, NameFacts DEF Size
  <1>3. own \in Record BY <1>1, DirFacts DEF Record
  <1>4. \A k \in 1 .. n : [kind |-> "long", order |-> n + 1 - k, piece |-> name[n + 1 - k]] \in Record
    <2> SUFFICES ASSUME NEW k \in 1 .. n
                 PROVE  [kind |-> "long", order |-> n + 1 - k, piece |-> name[n + 1 - k]] \in Record
      OBVIOUS
    <2>1. n + 1 - k \in 1 .. n /\ n + 1 - k \in 1 .. MaxPieces BY <1>1
    <2>2. name[n + 1 - k] \in Pieces BY <1>2, <2>1
    <2> QED BY <2>1, <2>2 DEF Record
  <1>5. long \in Seq(Record) /\ Len(long) = n BY <1>1, <1>4
  <1>6. Records(i) = IF disk.dir[i].kind = "deleted" THEN [k \in DOMAIN all |-> [kind |-> "deleted"]]
                     ELSE all
    BY DEF Records, Size
  <1>7. /\ \A k \in 1 .. n : long[k] = [kind |-> "long", order |-> n + 1 - k, piece |-> name[n + 1 - k]]
    OBVIOUS
  <1> HIDE DEF long, own
  <1>8. /\ all \in Seq(Record) /\ Len(all) = n + 1 /\ DOMAIN all = 1 .. n + 1
        /\ \A k \in 1 .. n : all[k] = long[k]
        /\ all[n + 1] = own
    <2>1. <<own>> \in Seq(Record) /\ Len(<<own>>) = 1 /\ <<own>>[1] = own BY <1>3
    <2> HIDE DEF n
    <2> QED BY <1>1, <1>5, <2>1, ConcatProperties
  <1> HIDE DEF all
  <1>9. CASE disk.dir[i].kind = "deleted"
    <2>1. [kind |-> "deleted"] \in Record BY DEF Record
    <2>2. Records(i) = [k \in 1 .. n + 1 |-> [kind |-> "deleted"]] BY <1>6, <1>8, <1>9
    <2>3. n + 1 \in Nat BY <1>1
    <2>4. Records(i) \in Seq(Record) /\ Len(Records(i)) = n + 1 BY <2>1, <2>2, <2>3
    <2>5. \A k \in 1 .. n + 1 : Records(i)[k].kind = "deleted" BY <2>2
    <2> QED BY <1>9, <2>4, <2>5
  <1>10. CASE disk.dir[i].kind # "deleted"
    <2>1. Records(i) = all BY <1>6, <1>10
    <2> QED BY <1>7, <1>8, <1>10, <2>1 DEF own
  <1> QED BY <1>9, <1>10

\* What is stored of the first i files, in terms of the first i - 1.
LEMMA FlatFacts ==
  ASSUME disk \in Disks
  PROVE  /\ Flat(0) = <<>>
         /\ \A i \in 1 .. Len(disk.dir) : Flat(i) = Flat(i - 1) \o Records(i)
         /\ \A i \in 0 .. Len(disk.dir) : Flat(i) \in Seq(Record)
         /\ Stored = Flat(Len(disk.dir))
  <1> DEFINE L == Len(disk.dir)
             s(i) == [k \in 1 .. i |-> Records(k)]
  <1>1. L \in Nat /\ DOMAIN disk.dir = 1 .. L BY DirFacts
  <1>2. \A i \in 1 .. L : Records(i) \in Seq(Record) BY <1>1, RecordsFacts
  <1>3. ASSUME NEW i \in 0 .. L
        PROVE  s(i) \in Seq(Seq(Record)) /\ Len(s(i)) = i
    <2>1. i \in Nat /\ \A k \in 1 .. i : k \in 1 .. L BY <1>1
    <2> QED BY <1>2, <2>1
  <1>4. Flat(0) = <<>>
    <2>1. s(0) = <<>> OBVIOUS
    <2>2. FlattenSeq(<<>>) = <<>> BY DEF FlattenSeq
    <2> QED BY <2>1, <2>2 DEF Flat
  <1>5. ASSUME NEW i \in 1 .. L
        PROVE  Flat(i) \in Seq(Record) /\ Flat(i) = Flat(i - 1) \o Records(i)
    <2>1. i \in 0 .. L /\ i - 1 \in 0 .. L /\ i \in Nat BY <1>1
    <2>2. PICK u, v : u = s(i) /\ v = s(i - 1) OBVIOUS
    <2>3. /\ u \in Seq(Seq(Record)) /\ v \in Seq(Seq(Record)) /\ Len(u) = i /\ Len(v) = i - 1
      BY <1>3, <2>1, <2>2
    <2>4. u[i] = Records(i) /\ \A k \in 1 .. i - 1 : v[k] = u[k] BY <2>1, <2>2
    <2>5. Len(u) = Len(v) + 1 /\ \A k \in 1 .. Len(v) : v[k] = u[k] BY <2>1, <2>3, <2>4
    <2>6. /\ FlattenSeq(u) \in Seq(Record)
          /\ FlattenSeq(u) = IF Len(v) = 0 THEN u[1] ELSE FlattenSeq(v) \o u[Len(u)]
      BY <2>3, <2>5, FlattenStep
    <2>7. Flat(i) = FlattenSeq(u) /\ Flat(i - 1) = FlattenSeq(v) BY <2>2 DEF Flat
    <2>8. CASE i = 1
      <3>1. Flat(1) = Records(1) /\ Flat(0) = <<>> BY <1>4, <2>3, <2>4, <2>6, <2>7, <2>8
      <3>2. Records(1) \in Seq(Record) BY <1>2, <2>8
      <3>3. <<>> \o Records(1) = Records(1) BY <3>2, ConcatEmptySeq
      <3>4. i - 1 = 0 BY <2>8
      <3> QED BY <2>8, <3>1, <3>2, <3>3, <3>4
    <2>9. CASE i # 1
      <3>1. Len(v) # 0 BY <2>1, <2>3, <2>9
      <3> QED BY <2>3, <2>4, <2>6, <2>7, <3>1
    <2> QED BY <2>8, <2>9
  <1>6. \A i \in 0 .. L : Flat(i) \in Seq(Record)
    <2>1. Flat(0) \in Seq(Record)
      <3>1. <<>> \in Seq(Record) OBVIOUS
      <3> QED BY <1>4, <3>1
    <2>2. \A i \in 0 .. L : i = 0 \/ i \in 1 .. L BY <1>1
    <2> QED BY <1>5, <2>1, <2>2
  <1>7. Stored = Flat(L) BY <1>1 DEF Stored, Flat
  <1> QED BY <1>4, <1>5, <1>6, <1>7

\* Where the records of a file end: after those before it.
LEMMA EndFacts ==
  ASSUME disk \in Disks
  PROVE  /\ End(0) = 0 /\ \A i \in 0 .. Len(disk.dir) : End(i) \in Nat
         /\ \A i \in 1 .. Len(disk.dir) : End(i) = End(i - 1) + Size(i) + 1
         /\ \A i \in 0 .. Len(disk.dir) : \A j \in 0 .. i : End(j) <= End(i)
  <1> DEFINE L == Len(disk.dir)
  <1>1. L \in Nat /\ DOMAIN disk.dir = 1 .. L /\ \A i \in 1 .. L : Size(i) \in Nat BY DirFacts
  <1>2. End(0) = 0 BY FlatFacts DEF End
  <1>3. \A i \in 0 .. L : End(i) \in Nat BY FlatFacts DEF End
  <1>4. ASSUME NEW i \in 1 .. L PROVE End(i) = End(i - 1) + Size(i) + 1
    <2>1. i - 1 \in 0 .. L BY <1>1
    <2>2. Flat(i - 1) \in Seq(Record) /\ Flat(i) = Flat(i - 1) \o Records(i) BY <2>1, FlatFacts
    <2>3. Records(i) \in Seq(Record) /\ Len(Records(i)) = Size(i) + 1 BY <1>1, RecordsFacts
    <2>4. Len(Flat(i)) = Len(Flat(i - 1)) + Len(Records(i))
      <3>1. \A u, v \in Seq(Record) : Len(u \o v) = Len(u) + Len(v) OBVIOUS
      <3> QED BY <2>2, <2>3, <3>1
    <2> QED BY <1>1, <1>3, <2>1, <2>3, <2>4 DEF End
  <1>5. \A i \in 0 .. L : \A j \in 0 .. i : End(j) <= End(i)
    <2> DEFINE H == {i \in 0 .. L : \A j \in 0 .. i : End(j) <= End(i)}
    <2>1. 0 \in H BY <1>1, <1>2
    <2>2. ASSUME NEW i \in 1 .. L, i - 1 \in H PROVE i \in H
      <3>1. i \in 0 .. L /\ i - 1 \in 0 .. L BY <1>1
      <3>2. \A j \in 0 .. i - 1 : End(j) <= End(i - 1) BY <2>2
      <3>3. ASSUME NEW j \in 0 .. i PROVE End(j) <= End(i)
        <4>1. End(i) = End(i - 1) + Size(i) + 1 /\ End(i) \in Nat /\ End(i - 1) \in Nat /\ Size(i) \in Nat
          BY <1>1, <1>3, <1>4, <3>1
        <4>2. CASE j = i BY <4>1, <4>2
        <4>3. CASE j # i
          <5>1. j \in 0 .. i - 1 /\ j \in 0 .. L BY <3>1, <4>3
          <5>2. End(j) <= End(i - 1) /\ End(j) \in Nat BY <1>3, <3>2, <5>1
          <5> QED BY <4>1, <5>2
        <4> QED BY <4>2, <4>3
      <3> QED BY <3>1, <3>3
    <2> HIDE DEF H
    <2>3. \A i \in 0 .. L : i \in H BY <1>1, <2>1, <2>2, UpTo
    <2> QED BY <2>3 DEF H
  <1> QED BY <1>2, <1>3, <1>4, <1>5

\* The records of file i are stored from End(i - 1) on.
LEMMA StoredFacts ==
  ASSUME disk \in Disks
  PROVE  /\ Stored \in Seq(Record) /\ Len(Stored) = End(Len(disk.dir))
         /\ \A i \in DOMAIN disk.dir : \A k \in 1 .. Size(i) + 1 :
              Stored[End(i - 1) + k] = Records(i)[k]
         /\ \A p \in 1 .. Len(Stored) :
              \E i \in DOMAIN disk.dir : \E k \in 1 .. Size(i) + 1 : p = End(i - 1) + k
  <1> DEFINE L == Len(disk.dir)
             There(m) == \A i \in 1 .. m : \A k \in 1 .. Size(i) + 1 :
                           Flat(m)[End(i - 1) + k] = Records(i)[k]
             Whose(m) == \A p \in 1 .. End(m) : \E i \in 1 .. m : \E k \in 1 .. Size(i) + 1 :
                           p = End(i - 1) + k
             H == {m \in 0 .. L : There(m) /\ Whose(m)}
  <1>1. L \in Nat /\ DOMAIN disk.dir = 1 .. L /\ \A i \in 1 .. L : Size(i) \in Nat BY DirFacts
  <1>2. ASSUME NEW x \in Nat, NEW y \in Nat, NEW z \in Nat, NEW n \in Nat, NEW k \in 1 .. n + 1,
               x + n + 1 <= y, y <= z
        PROVE  x + k \in 1 .. z /\ x + k <= y
    BY <1>2
  <1>3. 0 \in H
    <2>1. There(0) OBVIOUS
    <2>2. Whose(0) BY EndFacts
    <2>3. 0 \in 0 .. L BY <1>1
    <2> QED BY <2>1, <2>2, <2>3
  <1>4. ASSUME NEW m \in 1 .. L, m - 1 \in H PROVE m \in H
    <2>1. m \in 0 .. L /\ m - 1 \in 0 .. L BY <1>1
    <2>2. There(m - 1) /\ Whose(m - 1) BY <1>4
    <2>3. /\ End(m) = End(m - 1) + Size(m) + 1 /\ End(m) \in Nat /\ End(m - 1) \in Nat
          /\ Size(m) \in Nat
      BY <1>1, <2>1, EndFacts
    <2>4. /\ Flat(m - 1) \in Seq(Record) /\ Flat(m) = Flat(m - 1) \o Records(m)
          /\ Records(m) \in Seq(Record) /\ Len(Records(m)) = Size(m) + 1
          /\ Len(Flat(m - 1)) = End(m - 1)
      BY <1>1, <2>1, FlatFacts, RecordsFacts DEF End
    <2>5. \A p \in 1 .. End(m) : Flat(m)[p] = IF p <= End(m - 1) THEN Flat(m - 1)[p]
                                              ELSE Records(m)[p - End(m - 1)]
      <3>1. PICK u \in Seq(Record), v \in Seq(Record) : u = Flat(m - 1) /\ v = Records(m) BY <2>4
      <3>2. \A p \in 1 .. Len(u) + Len(v) : (u \o v)[p] = IF p <= Len(u) THEN u[p] ELSE v[p - Len(u)]
        BY ConcatProperties
      <3>3. Len(u) = End(m - 1) /\ Len(v) = Size(m) + 1 BY <2>4, <3>1
      <3>4. Len(u) + Len(v) = End(m) BY <2>3, <3>3
      <3> QED BY <2>4, <3>1, <3>2, <3>3, <3>4
    <2>6. There(m)
      <3> SUFFICES ASSUME NEW i \in 1 .. m, NEW k \in 1 .. Size(i) + 1
                   PROVE  Flat(m)[End(i - 1) + k] = Records(i)[k]
        OBVIOUS
      <3>1. CASE i = m
        <4>1. /\ End(m - 1) + k \in 1 .. End(m) /\ ~ (End(m - 1) + k <= End(m - 1))
              /\ (End(m - 1) + k) - End(m - 1) = k
          BY <2>3, <3>1
        <4> QED BY <2>5, <3>1, <4>1
      <3>2. CASE i # m
        <4>1. i \in 1 .. m - 1 /\ i \in 1 .. L /\ i - 1 \in 0 .. L /\ i \in 0 .. m - 1
          BY <2>1, <3>2
        <4>2. End(i) = End(i - 1) + Size(i) + 1 BY <4>1, EndFacts
        <4>3. End(i - 1) \in Nat BY <4>1, EndFacts
        <4>4. Size(i) \in Nat BY <1>1, <4>1
        <4>5. End(i) <= End(m - 1) BY <2>1, <4>1, EndFacts
        <4>6. /\ End(i - 1) + Size(i) + 1 <= End(m - 1) /\ End(m - 1) <= End(m)
              /\ End(m) \in Nat /\ End(m - 1) \in Nat
          BY <2>3, <4>2, <4>5
        <4>7. End(i - 1) + k \in 1 .. End(m) /\ End(i - 1) + k <= End(m - 1)
          BY <1>2, <4>3, <4>4, <4>6
        <4>8. Flat(m - 1)[End(i - 1) + k] = Records(i)[k] BY <2>2, <4>1
        <4> QED BY <2>5, <4>7, <4>8
      <3> QED BY <3>1, <3>2
    <2>7. Whose(m)
      <3> SUFFICES ASSUME NEW p \in 1 .. End(m)
                   PROVE  \E i \in 1 .. m : \E k \in 1 .. Size(i) + 1 : p = End(i - 1) + k
        OBVIOUS
      <3>1. CASE p <= End(m - 1)
        <4>1. p \in 1 .. End(m - 1) BY <2>3, <3>1
        <4>2. PICK i \in 1 .. m - 1 : \E k \in 1 .. Size(i) + 1 : p = End(i - 1) + k
          BY <2>2, <4>1
        <4>3. i \in 1 .. m BY <2>1
        <4> QED BY <4>2, <4>3
      <3>2. CASE ~ (p <= End(m - 1))
        <4>1. p - End(m - 1) \in 1 .. Size(m) + 1 /\ p = End(m - 1) + (p - End(m - 1))
          BY <2>3, <3>2
        <4>2. m \in 1 .. m BY <2>1
        <4> QED BY <4>1, <4>2
      <3> QED BY <3>1, <3>2
    <2> HIDE DEF There, Whose
    <2> QED BY <2>1, <2>6, <2>7
  <1> HIDE DEF H
  <1>5. L \in H
    <2>1. \A m \in 0 .. L : m \in H BY <1>1, <1>3, <1>4, UpTo
    <2>2. L \in 0 .. L BY <1>1
    <2> QED BY <2>1, <2>2
  <1>6. There(L) /\ Whose(L) BY <1>5 DEF H
  <1>7. Stored = Flat(L) /\ Stored \in Seq(Record) /\ Len(Stored) = End(L)
    <2>1. L \in 0 .. L BY <1>1
    <2>2. Flat(L) \in Seq(Record) BY <2>1, FlatFacts
    <2>3. Stored = Flat(L) BY FlatFacts
    <2> QED BY <2>2, <2>3 DEF End
  <1>8. There(L) <=> \A i \in 1 .. L : \A k \in 1 .. Size(i) + 1 :
                       Stored[End(i - 1) + k] = Records(i)[k]
    BY <1>7
  <1>9. Whose(L) <=> \A p \in 1 .. End(L) : \E i \in 1 .. L : \E k \in 1 .. Size(i) + 1 :
                       p = End(i - 1) + k
    OBVIOUS
  <1> HIDE DEF There, Whose
  <1> QED BY <1>1, <1>6, <1>7, <1>8, <1>9

-----------------------------------------------------------------------------
(* The buffer of the long name.                                            *)
Buffers == [1 .. MaxPieces -> Pieces \cup {Nul}]

\* What one record does to it.
LEMMA AfterFacts ==
  ASSUME NEW b \in Buffers, NEW r \in Record
  PROVE  /\ After(b, r) \in Buffers
         /\ r.kind = "long" =>
              \A q \in 1 .. MaxPieces : After(b, r)[q] = IF q = r.order THEN r.piece ELSE b[q]
         /\ r.kind \in {"deleted", "dir"} => After(b, r) = b
         /\ r.kind \in {"file", "label"} =>
              \A q \in 1 .. MaxPieces : After(b, r)[q] = IF q = 1 THEN Nul ELSE b[q]
  <1>1. CASE r.kind = "long"
    <2>1. r.piece \in Pieces BY <1>1 DEF Record
    <2>2. After(b, r) = [b EXCEPT ![r.order] = r.piece] BY <1>1 DEF After
    <2>3. /\ [b EXCEPT ![r.order] = r.piece] \in Buffers
          /\ \A q \in 1 .. MaxPieces :
               [b EXCEPT ![r.order] = r.piece][q] = IF q = r.order THEN r.piece ELSE b[q]
      BY <2>1 DEF Buffers
    <2> QED BY <1>1, <2>2, <2>3
  <1>2. CASE r.kind \in {"deleted", "dir"}
    <2>1. After(b, r) = b BY <1>2 DEF After
    <2> QED BY <1>2, <2>1
  <1>3. CASE r.kind \in {"file", "label"}
    <2>1. After(b, r) = [b EXCEPT ![1] = Nul] BY <1>3 DEF After
    <2>2. /\ [b EXCEPT ![1] = Nul] \in Buffers
          /\ \A q \in 1 .. MaxPieces : [b EXCEPT ![1] = Nul][q] = IF q = 1 THEN Nul ELSE b[q]
      BY DEF Buffers
    <2> QED BY <1>3, <2>1, <2>2
  <1>4. r.kind \in {"long", "file", "dir", "label", "deleted"} BY DEF Record
  <1> QED BY <1>1, <1>2, <1>3, <1>4

\* open reads the first Entries records.
LEMMA ClusterFacts ==
  ASSUME disk \in Disks
  PROVE  /\ Cluster \in Seq(Record) /\ Len(Cluster) \in Nat /\ DOMAIN Cluster = 1 .. Len(Cluster)
         /\ Len(Cluster) <= Len(Stored) /\ Entries \in Nat /\ Len(Stored) \in Nat
         /\ Len(Cluster) = IF Len(Stored) < Entries THEN Len(Stored) ELSE Entries
         /\ \A p \in 1 .. Len(Cluster) : Cluster[p] = Stored[p]
  <1>1. PICK s \in Seq(Record) : s = Stored BY StoredFacts
  <1>2. PICK n : n = IF Len(s) < Entries THEN Len(s) ELSE Entries OBVIOUS
  <1>3. Entries \in Nat /\ Len(s) \in Nat BY DiskAssumption
  <1>4. n \in Nat /\ n <= Len(s) BY <1>2, <1>3
  <1>5. Cluster = SubSeq(s, 1, n) BY <1>1, <1>2 DEF Cluster
  <1>6. /\ SubSeq(s, 1, n) \in Seq(Record) /\ Len(SubSeq(s, 1, n)) = n
        /\ \A p \in 1 .. n : SubSeq(s, 1, n)[p] = s[p]
    BY <1>3, <1>4
  <1>7. PICK c \in Seq(Record) : c = Cluster BY <1>5, <1>6
  <1>8. Len(c) \in Nat /\ DOMAIN c = 1 .. Len(c) OBVIOUS
  <1>9. Len(Cluster) = n /\ \A p \in 1 .. n : Cluster[p] = s[p] BY <1>5, <1>6
  <1> QED BY <1>1, <1>2, <1>3, <1>4, <1>7, <1>8, <1>9

\* The buffer before each record is what the record before it made of it.
LEMMA LongNameFacts ==
  ASSUME disk \in Disks
  PROVE  /\ \A p \in 1 .. Len(Cluster) + 1 : LongName[p] \in Buffers
         /\ LongName[1] = [k \in 1 .. MaxPieces |-> Nul]
         /\ \A p \in 1 .. Len(Cluster) : LongName[p + 1] = After(LongName[p], Cluster[p])
  <1> DEFINE n == Len(Cluster) + 1
             a == [k \in 1 .. MaxPieces |-> Nul]
             f == CHOOSE g : g = [i \in 1 .. n |-> IF i = 1 THEN a ELSE After(g[i - 1], Cluster[i - 1])]
             step == [x \in (2 .. n) \X Buffers |-> After(x[2], Cluster[x[1] - 1])]
  <1>1. n \in Nat /\ 1 \in 1 .. n /\ Len(Cluster) \in Nat BY ClusterFacts
  <1>2. LongName = f BY DEF LongName
  <1>3. a \in Buffers BY DEF Buffers
  <1>4. \A i \in 2 .. n : Cluster[i - 1] \in Record BY <1>1, ClusterFacts
  <1>5. step \in [(2 .. n) \X Buffers -> Buffers]
    <2>1. \A x \in (2 .. n) \X Buffers : x[1] \in 2 .. n /\ x[2] \in Buffers OBVIOUS
    <2>2. ASSUME NEW x \in (2 .. n) \X Buffers PROVE After(x[2], Cluster[x[1] - 1]) \in Buffers
      <3>1. x[2] \in Buffers /\ Cluster[x[1] - 1] \in Record BY <1>4, <2>1
      <3> QED BY <3>1, AfterFacts
    <2> QED BY <2>2
  <1> HIDE DEF step, a
  <1>6. PICK g \in [1 .. n -> Buffers] : Follows(g, n, a, step)
    BY <1>1, <1>3, <1>5, RecursionExists DEF Runs
  <1>7. \A i \in 1 .. n : g[i] = IF i = 1 THEN a ELSE After(g[i - 1], Cluster[i - 1])
    <2> SUFFICES ASSUME NEW i \in 1 .. n
                 PROVE  g[i] = IF i = 1 THEN a ELSE After(g[i - 1], Cluster[i - 1])
      OBVIOUS
    <2>1. g[i] = IF i = 1 THEN a ELSE step[<<i, g[i - 1]>>] BY <1>6 DEF Follows
    <2>2. i # 1 => step[<<i, g[i - 1]>>] = After(g[i - 1], Cluster[i - 1])
      <3> SUFFICES ASSUME i # 1 PROVE step[<<i, g[i - 1]>>] = After(g[i - 1], Cluster[i - 1])
        OBVIOUS
      <3>1. i \in 2 .. n /\ i - 1 \in 1 .. n BY <1>1
      <3>2. g[i - 1] \in Buffers BY <3>1
      <3> QED BY <3>1, <3>2 DEF step
    <2> QED BY <2>1, <2>2
  <1>8. g = [i \in 1 .. n |-> g[i]] OBVIOUS
  <1>9. g = [i \in 1 .. n |-> IF i = 1 THEN a ELSE After(g[i - 1], Cluster[i - 1])] BY <1>7, <1>8
  <1>10. f = [i \in 1 .. n |-> IF i = 1 THEN a ELSE After(f[i - 1], Cluster[i - 1])] BY <1>9
  <1> HIDE DEF f
  <1>11. \A i \in 1 .. n : f[i] = IF i = 1 THEN a ELSE After(f[i - 1], Cluster[i - 1]) BY <1>10
  <1>12. ASSUME NEW p \in 1 .. Len(Cluster) PROVE f[p + 1] = After(f[p], Cluster[p])
    <2>1. p + 1 \in 1 .. n /\ p + 1 # 1 /\ (p + 1) - 1 = p BY <1>1
    <2> QED BY <1>11, <2>1
  <1>13. f[1] = a BY <1>1, <1>11
  <1>14. \A i \in 1 .. n : f[i] \in Buffers
    <2> DEFINE H == {i \in 0 .. n : i \in 1 .. n => f[i] \in Buffers}
    <2>1. 0 \in H BY <1>1
    <2>2. ASSUME NEW i \in 1 .. n, i - 1 \in H PROVE i \in H
      <3>1. i \in 0 .. n BY <1>1
      <3>2. CASE i = 1 BY <1>3, <1>13, <3>1, <3>2
      <3>3. CASE i # 1
        <4>1. i - 1 \in 1 .. n /\ i \in 2 .. n BY <1>1, <3>3
        <4>2. f[i - 1] \in Buffers /\ Cluster[i - 1] \in Record BY <1>4, <2>2, <4>1
        <4>3. After(f[i - 1], Cluster[i - 1]) \in Buffers BY <4>2, AfterFacts
        <4>4. f[i] = After(f[i - 1], Cluster[i - 1]) BY <1>11, <3>3
        <4> QED BY <3>1, <4>3, <4>4
      <3> QED BY <3>2, <3>3
    <2> HIDE DEF H
    <2>3. \A i \in 0 .. n : i \in H BY <1>1, <2>1, <2>2, UpTo
    <2>4. \A i \in 1 .. n : i \in 0 .. n BY <1>1
    <2> QED BY <2>3, <2>4 DEF H
  <1> QED BY <1>2, <1>12, <1>13, <1>14 DEF a

\* The records of a deleted file leave the buffer as it is.
LEMMA DeletedFacts ==
  ASSUME disk \in Disks, NEW i \in DOMAIN disk.dir, disk.dir[i].kind = "deleted",
         End(i) <= Len(Cluster)
  PROVE  LongName[End(i) + 1] = LongName[End(i - 1) + 1]
  <1> DEFINE n == Size(i)
             s == End(i - 1)
             H == {k \in 0 .. n + 1 : LongName[s + k + 1] = LongName[s + 1]}
  <1>1. n \in Nat /\ s \in Nat /\ End(i) = s + n + 1 /\ Len(Cluster) \in Nat
    <2>1. i \in 1 .. Len(disk.dir) /\ i - 1 \in 0 .. Len(disk.dir) BY DirFacts
    <2> QED BY <2>1, DirFacts, EndFacts, ClusterFacts
  <1>2. 0 \in H BY <1>1
  <1>3. ASSUME NEW k \in 1 .. n + 1, k - 1 \in H PROVE k \in H
    <2>1. /\ s + k \in 1 .. Len(Cluster) /\ s + k = s + (k - 1) + 1
          /\ s + k + 1 = (s + k) + 1 /\ k \in 0 .. n + 1
      BY <1>1
    <2>2. LongName[s + k] = LongName[s + 1] BY <1>3, <2>1
    <2>3. Cluster[s + k].kind = "deleted"
      <3>1. Cluster[s + k] = Stored[s + k] BY <2>1, ClusterFacts
      <3>2. Stored[s + k] = Records(i)[k] BY StoredFacts
      <3>3. Records(i)[k].kind = "deleted" BY RecordsFacts
      <3> QED BY <3>1, <3>2, <3>3
    <2>4. LongName[s + k] \in Buffers /\ Cluster[s + k] \in Record
      <3>1. s + k \in 1 .. Len(Cluster) + 1 BY <1>1, <2>1
      <3> QED BY <2>1, <3>1, LongNameFacts, ClusterFacts
    <2>5. LongName[(s + k) + 1] = After(LongName[s + k], Cluster[s + k]) BY <2>1, LongNameFacts
    <2>6. After(LongName[s + k], Cluster[s + k]) = LongName[s + k] BY <2>3, <2>4, AfterFacts
    <2> QED BY <2>1, <2>2, <2>5, <2>6
  <1> HIDE DEF H
  <1>4. \A k \in 0 .. n + 1 : k \in H
    <2>1. n + 1 \in Nat BY <1>1
    <2> QED BY <1>2, <1>3, <2>1, UpTo
  <1>5. n + 1 \in 0 .. n + 1 /\ s + (n + 1) + 1 = End(i) + 1 BY <1>1
  <1>6. LongName[s + (n + 1) + 1] = LongName[s + 1] BY <1>4, <1>5 DEF H
  <1> QED BY <1>5, <1>6

\* After k of the records of file i the last k pieces of its name are there.
Written(i, k, b) ==
  \A q \in 1 .. MaxPieces :
    b[q] = IF q \in Size(i) + 1 - k .. Size(i) THEN disk.dir[i].name[q] ELSE LongName[End(i - 1) + 1][q]

\* Those of another one write its name over it, from the end.
LEMMA WrittenFacts ==
  ASSUME disk \in Disks, NEW i \in DOMAIN disk.dir, disk.dir[i].kind # "deleted",
         End(i) <= Len(Cluster)
  PROVE  \A q \in 1 .. MaxPieces :
           LongName[End(i)][q] = IF q <= Size(i) THEN disk.dir[i].name[q] ELSE LongName[End(i - 1) + 1][q]
  <1> DEFINE n == Size(i)
             s == End(i - 1)
             name == disk.dir[i].name
             H == {k \in 0 .. n : Written(i, k, LongName[s + k + 1])}
  <1>1. /\ n \in Nat /\ s \in Nat /\ End(i) = s + n + 1 /\ Len(Cluster) \in Nat
        /\ n <= MaxPieces /\ MaxPieces \in Nat
    <2>1. i \in 1 .. Len(disk.dir) /\ i - 1 \in 0 .. Len(disk.dir) BY DirFacts
    <2> QED BY <2>1, DirFacts, EndFacts, ClusterFacts
  <1>2. 0 \in H
    <2>1. Written(i, 0, LongName[s + 0 + 1])
      <3>1. s + 0 + 1 = s + 1 /\ \A q \in 1 .. MaxPieces : q \notin n + 1 - 0 .. n BY <1>1
      <3> QED BY <3>1 DEF Written
    <2> QED BY <1>1, <2>1
  <1>3. ASSUME NEW k \in 1 .. n, k - 1 \in H PROVE k \in H
    <2>1. /\ s + k \in 1 .. Len(Cluster) /\ s + k = s + (k - 1) + 1
          /\ s + k + 1 = (s + k) + 1 /\ k \in 0 .. n /\ k \in 1 .. n + 1
      BY <1>1
    <2>2. Written(i, k - 1, LongName[s + k]) BY <1>3, <2>1
    <2>3. Cluster[s + k] = [kind |-> "long", order |-> n + 1 - k, piece |-> name[n + 1 - k]]
      <3>1. Cluster[s + k] = Stored[s + k] BY <2>1, ClusterFacts
      <3>2. Stored[s + k] = Records(i)[k] BY <2>1, StoredFacts
      <3> QED BY <3>1, <3>2, RecordsFacts
    <2>4. LongName[s + k] \in Buffers /\ Cluster[s + k] \in Record
      <3>1. s + k \in 1 .. Len(Cluster) + 1 BY <1>1, <2>1
      <3> QED BY <2>1, <3>1, LongNameFacts, ClusterFacts
    <2>5. LongName[(s + k) + 1] = After(LongName[s + k], Cluster[s + k]) BY <2>1, LongNameFacts
    <2>6. PICK b, r, c : b = LongName[s + k] /\ r = Cluster[s + k] /\ c = LongName[s + k + 1]
      OBVIOUS
    <2>7. \A q \in 1 .. MaxPieces : c[q] = IF q = r.order THEN r.piece ELSE b[q]
      <3>1. c = After(b, r) BY <2>1, <2>5, <2>6
      <3>2. b \in Buffers /\ r \in Record /\ r.kind = "long" BY <2>3, <2>4, <2>6
      <3> QED BY <3>1, <3>2, AfterFacts
    <2>8. r.order = n + 1 - k /\ r.piece = name[n + 1 - k] BY <2>3, <2>6
    <2>9. Written(i, k, c)
      <3> SUFFICES ASSUME NEW q \in 1 .. MaxPieces
                   PROVE  c[q] = IF q \in n + 1 - k .. n THEN name[q] ELSE LongName[s + 1][q]
        BY DEF Written
      <3>1. b[q] = IF q \in n + 1 - (k - 1) .. n THEN name[q] ELSE LongName[s + 1][q]
        BY <2>2, <2>6 DEF Written
      <3>2. CASE q = n + 1 - k
        <4>1. c[q] = name[q] BY <2>7, <2>8, <3>2
        <4>2. q \in n + 1 - k .. n BY <1>1, <3>2
        <4> QED BY <4>1, <4>2
      <3>3. CASE q # n + 1 - k
        <4>1. c[q] = b[q] BY <2>7, <2>8, <3>3
        <4>2. q \in n + 1 - k .. n <=> q \in n + 1 - (k - 1) .. n BY <1>1, <3>3
        <4> QED BY <3>1, <4>1, <4>2
      <3> QED BY <3>2, <3>3
    <2>10. Written(i, k, LongName[s + k + 1]) BY <2>6, <2>9
    <2> QED BY <2>1, <2>10
  <1> HIDE DEF H
  <1>4. \A k \in 0 .. n : k \in H BY <1>1, <1>2, <1>3, UpTo
  <1>5. n \in 0 .. n /\ s + n + 1 = End(i) BY <1>1
  <1>6. Written(i, n, LongName[End(i)]) BY <1>4, <1>5 DEF H
  <1>7. \A q \in 1 .. MaxPieces : q \in n + 1 - n .. n <=> q <= n BY <1>1
  <1> QED BY <1>6, <1>7 DEF Written

\* What may be left in the buffer where the records of file i begin.
LeftFirst(i) ==
  \E j \in Before(i) :
    /\ disk.dir[j].kind = "dir" /\ disk.dir[j].name # <<>>
    /\ \A k \in Before(i) : k > j => disk.dir[k].kind = "dir"
LeftBehind(i, q) == \E j \in Before(i) : Size(j) >= q
Left(i, b) ==
  /\ b[1] # Nul => LeftFirst(i)
  /\ \A q \in 2 .. MaxPieces : b[q] # Nul => LeftBehind(i, q)

\* A file that is not deleted leaves its name, without its first piece if it is
\* not a directory.
LEMMA LeftNext ==
  ASSUME disk \in Disks, NEW i \in DOMAIN disk.dir, disk.dir[i].kind # "deleted",
         End(i) <= Len(Cluster), Left(i, LongName[End(i - 1) + 1])
  PROVE  Left(i + 1, LongName[End(i) + 1])
  <1> DEFINE n == Size(i)
  <1>1. /\ i \in Nat \ {0} /\ n \in Nat /\ n <= MaxPieces /\ MaxPieces \in Nat \ {0}
        /\ End(i) \in 1 .. Len(Cluster) /\ Len(Cluster) \in Nat
        /\ disk.dir[i].name = <<>> <=> n = 0
    <2>1. i \in 1 .. Len(disk.dir) /\ i - 1 \in 0 .. Len(disk.dir) /\ i \in 0 .. Len(disk.dir)
      BY DirFacts
    <2>2. End(i) = End(i - 1) + n + 1 /\ End(i - 1) \in Nat /\ n \in Nat BY <2>1, DirFacts, EndFacts
    <2>3. disk.dir[i].name = <<>> <=> n = 0 BY DirFacts, NameFacts DEF Size
    <2>4. n <= MaxPieces /\ MaxPieces \in Nat \ {0} BY DirFacts
    <2>5. Len(Cluster) \in Nat BY ClusterFacts
    <2>6. i \in Nat \ {0} BY <2>1
    <2>7. End(i) \in 1 .. Len(Cluster) BY <2>2, <2>5
    <2> QED BY <2>2, <2>3, <2>4, <2>5, <2>6, <2>7
  <1>2. Before(i + 1) = Before(i) \cup {i} /\ \A j \in Before(i) : j \in Nat /\ j < i
    <2>1. \A j : j \in 1 .. (i + 1) - 1 <=> j \in 1 .. i - 1 \/ j = i BY <1>1
    <2>2. \A j \in 1 .. i - 1 : j \in Nat /\ j < i BY <1>1
    <2>3. \A j : j \in Before(i + 1) <=> j \in Before(i) \/ j = i
      <3>1. \A m, j : j \in Before(m) <=> j \in 1 .. m - 1 /\ disk.dir[j].kind # "deleted" BY DEF Before
      <3> QED BY <2>1, <3>1
    <2>4. \A j \in Before(i) : j \in 1 .. i - 1 BY DEF Before
    <2> QED BY <2>2, <2>3, <2>4
  <1> HIDE DEF n
  <1>3. PICK a, b, c, r : /\ a = LongName[End(i - 1) + 1] /\ b = LongName[End(i)]
                          /\ c = LongName[End(i) + 1] /\ r = Cluster[End(i)]
    OBVIOUS
  <1>4. \A q \in 1 .. MaxPieces : b[q] = IF q <= n THEN disk.dir[i].name[q] ELSE a[q]
    BY <1>3, WrittenFacts DEF n
  <1>5. r.kind = disk.dir[i].kind /\ r \in Record
    <2>1. r = Stored[End(i)] /\ r \in Record BY <1>1, <1>3, ClusterFacts
    <2>2. End(i) = End(i - 1) + (n + 1) /\ n + 1 \in 1 .. n + 1
      <3>1. i \in 1 .. Len(disk.dir) /\ i - 1 \in 0 .. Len(disk.dir) BY DirFacts
      <3>2. End(i) = End(i - 1) + n + 1 /\ End(i - 1) \in Nat BY <3>1, EndFacts DEF n
      <3> QED BY <1>1, <3>2
    <2>3. Stored[End(i - 1) + (n + 1)] = Records(i)[n + 1] BY <2>2, StoredFacts DEF n
    <2>4. Records(i)[n + 1] = [kind |-> disk.dir[i].kind, file |-> i] BY RecordsFacts DEF n
    <2> QED BY <2>1, <2>2, <2>3, <2>4
  <1>6. b \in Buffers /\ c = After(b, r)
    <2>1. End(i) \in 1 .. Len(Cluster) + 1 BY <1>1
    <2> QED BY <1>1, <1>3, <2>1, LongNameFacts
  <1>7. \A q \in 1 .. MaxPieces : c[q] = b[q] \/ (q = 1 /\ c[q] = Nul)
    <2>1. r.kind \in {"file", "dir", "label"} BY <1>5, DirFacts
    <2>2. CASE r.kind = "dir" BY <1>5, <1>6, <2>2, AfterFacts
    <2>3. CASE r.kind \in {"file", "label"} BY <1>5, <1>6, <2>3, AfterFacts
    <2> QED BY <2>1, <2>2, <2>3
  <1>8. disk.dir[i].kind # "dir" => c[1] = Nul
    <2>1. disk.dir[i].kind # "dir" => r.kind \in {"file", "label"} BY <1>5, DirFacts
    <2>2. 1 \in 1 .. MaxPieces BY <1>1
    <2> QED BY <1>5, <1>6, <2>1, <2>2, AfterFacts
  <1>9. ASSUME c[1] # Nul PROVE LeftFirst(i + 1)
    <2>1. disk.dir[i].kind = "dir" /\ c[1] = b[1] /\ 1 \in 1 .. MaxPieces BY <1>1, <1>7, <1>8, <1>9
    <2>2. CASE n # 0
      <3>1. disk.dir[i].name # <<>> BY <1>1, <2>2
      <3>2. \A k \in Before(i + 1) : ~ (k > i) BY <1>1, <1>2
      <3>3. i \in Before(i + 1) BY <1>2
      <3> QED BY <2>1, <3>1, <3>2, <3>3 DEF LeftFirst
    <2>3. CASE n = 0
      <3>1. a[1] # Nul BY <1>4, <1>9, <2>1, <2>3
      <3>2. LeftFirst(i) BY <1>3, <3>1 DEF Left
      <3>3. PICK j \in Before(i) :
              /\ disk.dir[j].kind = "dir" /\ disk.dir[j].name # <<>>
              /\ \A k \in Before(i) : k > j => disk.dir[k].kind = "dir"
        BY <3>2 DEF LeftFirst
      <3>4. j \in Before(i + 1) /\ \A k \in Before(i + 1) : k > j => disk.dir[k].kind = "dir"
        BY <1>2, <2>1, <3>3
      <3> QED BY <3>3, <3>4 DEF LeftFirst
    <2> QED BY <2>2, <2>3
  <1>10. ASSUME NEW q \in 2 .. MaxPieces, c[q] # Nul PROVE LeftBehind(i + 1, q)
    <2>1. q \in 1 .. MaxPieces /\ q # 1 BY <1>1
    <2>2. c[q] = b[q] BY <1>7, <2>1
    <2>3. CASE q <= n
      <3>1. n >= q BY <1>1, <2>1, <2>3
      <3>2. i \in Before(i + 1) BY <1>2
      <3> QED BY <3>1, <3>2 DEF LeftBehind, n
    <2>4. CASE ~ (q <= n)
      <3>1. a[q] # Nul BY <1>4, <1>10, <2>1, <2>2, <2>4
      <3>2. LeftBehind(i, q) BY <1>3, <3>1 DEF Left
      <3> QED BY <1>2, <3>2 DEF LeftBehind
    <2> QED BY <2>3, <2>4
  <1> QED BY <1>3, <1>9, <1>10 DEF Left

\* It holds of every file that the scan gets to.
LEMMA LeftFacts ==
  ASSUME disk \in Disks, NEW i \in DOMAIN disk.dir, End(i - 1) <= Len(Cluster)
  PROVE  Left(i, LongName[End(i - 1) + 1])
  <1> DEFINE L == Len(disk.dir)
             Fine(m) == End(m) <= Len(Cluster) => Left(m + 1, LongName[End(m) + 1])
             H == {m \in 0 .. L : Fine(m)}
  <1>1. L \in Nat /\ DOMAIN disk.dir = 1 .. L /\ MaxPieces \in Nat \ {0} BY DirFacts
  <1>2. 0 \in H
    <2>1. End(0) + 1 = 1 BY EndFacts
    <2>2. \A q \in 1 .. MaxPieces : LongName[1][q] = Nul BY LongNameFacts
    <2>3. 1 \in 1 .. MaxPieces /\ \A q \in 2 .. MaxPieces : q \in 1 .. MaxPieces BY <1>1
    <2>4. Left(0 + 1, LongName[1]) BY <2>2, <2>3 DEF Left
    <2>5. Fine(0) BY <2>1, <2>4
    <2> QED BY <1>1, <2>5
  <1>3. ASSUME NEW m \in 1 .. L, m - 1 \in H PROVE m \in H
    <2>1. m \in 0 .. L /\ m - 1 \in 0 .. L /\ m \in DOMAIN disk.dir /\ (m - 1) + 1 = m BY <1>1
    <2>2. ASSUME End(m) <= Len(Cluster) PROVE Left(m + 1, LongName[End(m) + 1])
      <3>1. End(m - 1) <= Len(Cluster)
        <4>1. m - 1 \in 0 .. m BY <1>1
        <4>2. End(m - 1) <= End(m) /\ End(m) \in Nat /\ End(m - 1) \in Nat BY <2>1, <4>1, EndFacts
        <4> QED BY <2>2, <4>2, ClusterFacts
      <3>2. Left(m, LongName[End(m - 1) + 1]) BY <1>3, <2>1, <3>1
      <3>3. CASE disk.dir[m].kind = "deleted"
        <4>1. LongName[End(m) + 1] = LongName[End(m - 1) + 1] BY <2>1, <2>2, <3>3, DeletedFacts
        <4>2. Before(m + 1) = Before(m)
          <5>1. \A j : j \in 1 .. (m + 1) - 1 <=> j \in 1 .. m - 1 \/ j = m BY <1>1
          <5> QED BY <3>3, <5>1 DEF Before
        <4> QED BY <3>2, <4>1, <4>2 DEF Left, LeftFirst, LeftBehind
      <3>4. CASE disk.dir[m].kind # "deleted" BY <2>1, <2>2, <3>2, <3>4, LeftNext
      <3> QED BY <3>3, <3>4
    <2> QED BY <2>1, <2>2
  <1> HIDE DEF H
  <1>4. \A m \in 0 .. L : m \in H BY <1>1, <1>2, <1>3, UpTo
  <1>5. i \in 1 .. L /\ i - 1 \in 0 .. L /\ (i - 1) + 1 = i BY <1>1
  <1>6. Fine(i - 1) BY <1>4, <1>5 DEF H
  <1> QED BY <1>5, <1>6

-----------------------------------------------------------------------------
(* The names that the scan reads.                                          *)

\* The text ends with the first piece that is not full, before it if it is a NUL.
LEMMA TextEnd ==
  ASSUME NEW b \in Buffers, NEW e \in 1 .. MaxPieces, \A q \in 1 .. e - 1 : b[q] \in Full,
         e = MaxPieces \/ b[e] \notin Full
  PROVE  Text(b) = [q \in 1 .. IF b[e] = Nul THEN e - 1 ELSE e |-> b[q]]
  <1> DEFINE ends == {k \in 1 .. MaxPieces : b[k] \notin Full}
             k == IF ends = {} THEN MaxPieces
                  ELSE CHOOSE x \in ends : \A f \in ends : x <= f
  <1>1. MaxPieces \in Nat \ {0} /\ e \in Nat BY DiskAssumption
  <1>2. Text(b) = [i \in 1 .. IF b[k] = Nul THEN k - 1 ELSE k |-> b[i]] BY DEF Text
  <1>3. \A x \in ends : e <= x
    <2> SUFFICES ASSUME NEW x \in ends, ~ (e <= x) PROVE FALSE OBVIOUS
    <2>1. x \in 1 .. e - 1 BY <1>1
    <2> QED BY <2>1
  <1>4. CASE ends = {}
    <2>1. e = MaxPieces BY <1>4
    <2>2. k = MaxPieces BY <1>4
    <2> QED BY <1>2, <2>1, <2>2
  <1>5. CASE ends # {}
    <2>1. e \in ends
      <3>1. CASE b[e] \notin Full BY <3>1
      <3>2. CASE e = MaxPieces
        <4>1. PICK x \in ends : TRUE BY <1>5
        <4>2. x = e BY <1>1, <1>3, <3>2, <4>1
        <4> QED BY <4>1, <4>2
      <3> QED BY <3>1, <3>2
    <2>2. \A x \in ends : (\A f \in ends : x <= f) => x = e BY <1>1, <1>3, <2>1
    <2>3. k \in ends /\ \A f \in ends : k <= f BY <1>3, <1>5, <2>1
    <2> HIDE DEF k, ends
    <2>4. k = e BY <2>2, <2>3
    <2> QED BY <1>2, <2>4
  <1> QED BY <1>4, <1>5

\* A name is read as itself if what follows it in the buffer ends it.
LEMMA TextFacts ==
  ASSUME NEW name \in Names \cup {<<>>}, NEW b \in Buffers,
         \A q \in 1 .. Len(name) : b[q] = name[q],
         name = <<>> => b[1] = Nul,
         name # <<>> /\ name[Len(name)] \in Full /\ Len(name) < MaxPieces => b[Len(name) + 1] = Nul
  PROVE  Text(b) = name
  <1>1. PICK n : n = Len(name) OBVIOUS
  <1>2. /\ name \in Seq(Pieces) /\ n \in 0 .. MaxPieces /\ (n = 0 <=> name = <<>>)
        /\ \A q \in 1 .. n - 1 : name[q] \in Full
    BY <1>1, NameFacts
  <1>3. MaxPieces \in Nat \ {0} /\ Nul \notin Pieces /\ Nul \notin Full BY DiskAssumption DEF Pieces
  <1>4. name = [q \in 1 .. n |-> b[q]]
    <2>1. name = [q \in 1 .. n |-> name[q]] BY <1>1, <1>2
    <2> QED BY <1>1, <2>1
  <1>5. \A q \in 1 .. n : b[q] \in Pieces
    <2>1. \A q \in 1 .. n : name[q] \in Pieces BY <1>1, <1>2
    <2> QED BY <1>1, <2>1
  <1>6. \A q \in 1 .. n - 1 : b[q] \in Full
    <2>1. \A q \in 1 .. n - 1 : q \in 1 .. n BY <1>2, <1>3
    <2> QED BY <1>1, <1>2, <2>1
  <1>7. CASE n # 0 /\ (b[n] \notin Full \/ n = MaxPieces)
    <2>1. n \in 1 .. MaxPieces /\ n \in 1 .. n BY <1>2, <1>3, <1>7
    <2>2. b[n] # Nul BY <1>3, <1>5, <2>1
    <2>3. Text(b) = [q \in 1 .. IF b[n] = Nul THEN n - 1 ELSE n |-> b[q]]
      BY <1>6, <1>7, <2>1, TextEnd
    <2> QED BY <1>4, <2>2, <2>3
  <1>8. CASE n = 0 \/ (b[n] \in Full /\ n # MaxPieces)
    <2>1. n + 1 \in 1 .. MaxPieces /\ n < MaxPieces /\ (n + 1) - 1 = n BY <1>2, <1>3, <1>8
    <2>2. b[n + 1] = Nul
      <3>1. CASE n = 0
        <4>1. n + 1 = 1 BY <3>1
        <4> QED BY <1>2, <3>1, <4>1
      <3>2. CASE n # 0
        <4>1. n \in 1 .. n BY <1>2, <3>2
        <4>2. name[n] \in Full BY <1>1, <1>8, <3>2, <4>1
        <4> QED BY <1>1, <1>2, <2>1, <3>2, <4>2
      <3> QED BY <3>1, <3>2
    <2>3. \A q \in 1 .. (n + 1) - 1 : b[q] \in Full
      <3>1. \A q \in 1 .. n : q = n \/ q \in 1 .. n - 1 BY <1>2, <1>3
      <3>2. n # 0 => b[n] \in Full BY <1>8
      <3>3. n = 0 => 1 .. n = {} OBVIOUS
      <3> QED BY <1>6, <2>1, <3>1, <3>2, <3>3
    <2>4. b[n + 1] \notin Full BY <1>3, <2>2
    <2>5. Text(b) = [q \in 1 .. IF b[n + 1] = Nul THEN (n + 1) - 1 ELSE n + 1 |-> b[q]]
      BY <2>1, <2>3, <2>4, TextEnd
    <2> QED BY <1>4, <2>1, <2>2, <2>5
  <1> QED BY <1>7, <1>8

\* The scan reads the name of a file, or misreads it in one of two ways.
LEMMA ReadFacts ==
  ASSUME disk \in Disks, NEW i \in DOMAIN disk.dir, disk.dir[i].kind = "file",
         End(i) <= Len(Cluster), ~ Misread(i)
  PROVE  Text(LongName[End(i)]) = disk.dir[i].name
  <1>1. PICK a, b, name, n : /\ a = LongName[End(i - 1) + 1] /\ b = LongName[End(i)]
                             /\ name = disk.dir[i].name /\ n = Size(i)
    OBVIOUS
  <1>2. /\ i \in 1 .. Len(disk.dir) /\ i - 1 \in 0 .. Len(disk.dir) /\ i \in 0 .. Len(disk.dir)
        /\ n \in 0 .. MaxPieces /\ MaxPieces \in Nat \ {0} /\ name \in Names \cup {<<>>}
    BY <1>1, DirFacts
  <1>3. End(i) = End(i - 1) + n + 1 /\ End(i - 1) \in Nat /\ End(i) \in Nat
    BY <1>1, <1>2, EndFacts
  <1>4. Len(Cluster) \in Nat BY ClusterFacts
  <1>5. b \in Buffers
    <2>1. End(i) \in 1 .. Len(Cluster) + 1 BY <1>2, <1>3, <1>4
    <2> QED BY <1>1, <2>1, LongNameFacts
  <1>6. \A q \in 1 .. MaxPieces : b[q] = IF q <= n THEN name[q] ELSE a[q]
    BY <1>1, WrittenFacts
  <1>7. Left(i, a)
    <2>1. End(i - 1) <= Len(Cluster) BY <1>2, <1>3, <1>4
    <2> QED BY <1>1, <2>1, LeftFacts
  <1>8. n = Len(name) /\ (n = 0 <=> name = <<>>) BY <1>1, <1>2, NameFacts DEF Size
  <1>9. \A q \in 1 .. Len(name) : b[q] = name[q]
    <2>1. \A q \in 1 .. n : q \in 1 .. MaxPieces /\ q <= n BY <1>2
    <2> QED BY <1>6, <1>8, <2>1
  <1>10. name = <<>> => b[1] = Nul
    <2> SUFFICES ASSUME name = <<>>, b[1] # Nul PROVE FALSE OBVIOUS
    <2>1. 1 \in 1 .. MaxPieces /\ ~ (1 <= n) BY <1>2, <1>8
    <2>2. a[1] # Nul BY <1>6, <2>1
    <2>3. LeftFirst(i) BY <1>7, <2>2 DEF Left
    <2> QED BY <1>1, <2>3 DEF LeftFirst, Misread
  <1>11. name # <<>> /\ name[Len(name)] \in Full /\ Len(name) < MaxPieces => b[Len(name) + 1] = Nul
    <2> SUFFICES ASSUME name # <<>>, name[n] \in Full, n < MaxPieces, b[n + 1] # Nul PROVE FALSE
      BY <1>8
    <2>1. n + 1 \in 2 .. MaxPieces /\ n + 1 \in 1 .. MaxPieces /\ ~ (n + 1 <= n) BY <1>2, <1>8
    <2>2. a[n + 1] # Nul BY <1>6, <2>1
    <2>3. PICK j \in Before(i) : Size(j) >= n + 1 BY <1>7, <2>1, <2>2 DEF Left, LeftBehind
    <2>4. Len(disk.dir[j].name) > Len(name)
      <3>1. j \in DOMAIN disk.dir
        <4>1. j \in 1 .. i - 1 BY DEF Before
        <4> QED BY <1>2, <4>1, DirFacts
      <3>2. Size(j) \in Nat BY <3>1, DirFacts
      <3>3. Len(disk.dir[j].name) = Size(j) BY DEF Size
      <3> QED BY <1>2, <1>8, <2>3, <3>2, <3>3
    <2>5. Last(name) \in Full BY <1>8 DEF Last
    <2> QED BY <1>1, <2>4, <2>5 DEF Misread
  <1>12. Text(b) = name BY <1>2, <1>5, <1>9, <1>10, <1>11, TextFacts
  <1> QED BY <1>1, <1>12

\* The records of kind "file" are the last ones of the files.
LEMMA OwnRecord ==
  ASSUME disk \in Disks, NEW i \in DOMAIN disk.dir, disk.dir[i].kind = "file", End(i) <= Entries
  PROVE  /\ End(i) \in DOMAIN Cluster
         /\ Cluster[End(i)] = [kind |-> "file", file |-> i]
  <1>1. PICK n : n = Size(i) OBVIOUS
  <1>2. /\ i \in 1 .. Len(disk.dir) /\ i - 1 \in 0 .. Len(disk.dir) /\ i \in 0 .. Len(disk.dir)
        /\ Len(disk.dir) \in 0 .. Len(disk.dir) /\ n \in Nat
    BY <1>1, DirFacts
  <1>3. /\ End(i) = End(i - 1) + n + 1 /\ End(i - 1) \in Nat /\ End(i) \in Nat
        /\ End(i) <= End(Len(disk.dir))
    <2>1. /\ End(i) = End(i - 1) + n + 1 /\ End(i - 1) \in Nat /\ End(i) \in Nat
      BY <1>1, <1>2, EndFacts
    <2> QED BY <1>2, <2>1, EndFacts
  <1>4. Len(Stored) = End(Len(disk.dir)) BY StoredFacts
  <1>5. End(i) \in 1 .. Len(Cluster)
    <2>1. /\ Len(Cluster) \in Nat /\ Len(Stored) \in Nat /\ Entries \in Nat
          /\ Len(Cluster) = IF Len(Stored) < Entries THEN Len(Stored) ELSE Entries
      BY ClusterFacts
    <2> QED BY <1>2, <1>3, <1>4, <2>1
  <1>6. Cluster[End(i)] = Stored[End(i)] BY <1>5, ClusterFacts
  <1>7. End(i) = End(i - 1) + (n + 1) /\ n + 1 \in 1 .. n + 1 BY <1>2, <1>3
  <1>8. Stored[End(i)] = Records(i)[n + 1] BY <1>1, <1>7, StoredFacts
  <1>9. Records(i)[n + 1] = [kind |-> "file", file |-> i] BY <1>1, RecordsFacts
  <1> QED BY <1>5, <1>6, <1>8, <1>9, ClusterFacts

\* The other records of a file are of other kinds.
LEMMA PieceRecord ==
  ASSUME disk \in Disks, NEW i \in DOMAIN disk.dir, NEW k \in 1 .. Size(i)
  PROVE  Records(i)[k].kind # "file"
  <1>1. CASE disk.dir[i].kind = "deleted"
    <2>1. \A q \in 1 .. Size(i) + 1 : Records(i)[q].kind = "deleted" BY <1>1, RecordsFacts
    <2>2. Size(i) \in Nat BY DirFacts
    <2>3. k \in 1 .. Size(i) + 1 BY <2>2
    <2>4. Records(i)[k].kind = "deleted" BY <2>1, <2>3
    <2> QED BY <2>4
  <1>2. CASE disk.dir[i].kind # "deleted"
    <2>1. \A q \in 1 .. Size(i) :
            Records(i)[q] = [kind |-> "long", order |-> Size(i) + 1 - q,
                             piece |-> disk.dir[i].name[Size(i) + 1 - q]]
      BY <1>2, RecordsFacts
    <2>2. PICK r, o, p : /\ r = Records(i)[k] /\ o = Size(i) + 1 - k
                         /\ p = disk.dir[i].name[Size(i) + 1 - k]
      OBVIOUS
    <2>3. r = [kind |-> "long", order |-> o, piece |-> p] BY <2>1, <2>2
    <2>4. r.kind = "long" BY <2>3
    <2> QED BY <2>2, <2>4
  <1> QED BY <1>1, <1>2

\* There is one record of kind "file" for each file, and no other.
LEMMA WhoseRecord ==
  ASSUME disk \in Disks, NEW p \in DOMAIN Cluster, Cluster[p].kind = "file"
  PROVE  \E i \in DOMAIN disk.dir : p = End(i) /\ disk.dir[i].kind = "file" /\ Cluster[p].file = i
  <1>1. /\ p \in 1 .. Len(Stored) /\ Cluster[p] = Stored[p]
    <2>1. /\ p \in 1 .. Len(Cluster) /\ Len(Cluster) <= Len(Stored) /\ Len(Cluster) \in Nat
          /\ Len(Stored) \in Nat /\ Cluster[p] = Stored[p]
      BY ClusterFacts
    <2> QED BY <2>1
  <1>2. PICK i \in DOMAIN disk.dir : \E k \in 1 .. Size(i) + 1 : p = End(i - 1) + k
    BY <1>1, StoredFacts
  <1>3. PICK k \in 1 .. Size(i) + 1 : p = End(i - 1) + k BY <1>2
  <1>4. Cluster[p] = Records(i)[k] BY <1>1, <1>3, StoredFacts
  <1>5. Size(i) \in Nat /\ i \in 1 .. Len(disk.dir) /\ i - 1 \in 0 .. Len(disk.dir)
    <2>1. Size(i) \in Nat BY DirFacts
    <2>2. i \in 1 .. Len(disk.dir) /\ Len(disk.dir) \in Nat BY DirFacts
    <2> QED BY <2>1, <2>2
  <1>6. disk.dir[i].kind # "deleted"
    <2> SUFFICES ASSUME disk.dir[i].kind = "deleted" PROVE FALSE OBVIOUS
    <2>1. Records(i)[k].kind = "deleted" BY RecordsFacts
    <2> QED BY <1>4, <2>1
  <1>7. k = Size(i) + 1
    <2> SUFFICES ASSUME k # Size(i) + 1 PROVE FALSE OBVIOUS
    <2>1. k \in 1 .. Size(i) BY <1>5
    <2>2. Records(i)[k].kind # "file" BY <2>1, PieceRecord
    <2> QED BY <1>4, <2>2
  <1>8. Records(i)[Size(i) + 1] = [kind |-> disk.dir[i].kind, file |-> i] BY <1>6, RecordsFacts
  <1>9. Cluster[p] = [kind |-> disk.dir[i].kind, file |-> i] BY <1>4, <1>7, <1>8
  <1>10. disk.dir[i].kind = "file" /\ Cluster[p].file = i BY <1>9
  <1>11. p = End(i)
    <2>1. End(i) = End(i - 1) + Size(i) + 1 /\ End(i - 1) \in Nat BY <1>5, EndFacts
    <2> QED BY <1>3, <1>5, <1>7, <2>1
  <1> QED BY <1>10, <1>11

\* What the scan finds is a file of that name or a misread one, and what it does
\* not find is misread or out of its reach.
LEMMA LookupFacts ==
  ASSUME disk \in Disks, NEW name
  PROVE  /\ \A x \in Lookup(name) : x \in DOMAIN disk.dir /\ (IsFile(x, name) \/ Misread(x))
         /\ Lookup(name) = {} =>
              \A i \in DOMAIN disk.dir : IsFile(i, name) /\ Visible(i) => Misread(i)
  <1> DEFINE hits == {p \in DOMAIN Cluster : Cluster[p].kind = "file" /\ Text(LongName[p]) = name}
             first == CHOOSE p \in hits : \A j \in hits : p <= j
  <1>1. Lookup(name) = IF hits = {} THEN {} ELSE {Cluster[first].file} BY DEF Lookup
  <1>2. hits \in SUBSET Nat
    <2>1. \A p \in DOMAIN Cluster : p \in Nat
      <3>1. DOMAIN Cluster = 1 .. Len(Cluster) /\ Len(Cluster) \in Nat BY ClusterFacts
      <3> QED BY <3>1
    <2> QED BY <2>1
  <1>3. ASSUME hits # {} PROVE first \in hits BY <1>2, <1>3, LeastElement
  <1>4. ASSUME NEW x \in Lookup(name) PROVE x \in DOMAIN disk.dir /\ (IsFile(x, name) \/ Misread(x))
    <2>1. hits # {} /\ x = Cluster[first].file BY <1>1, <1>4
    <2>2. first \in hits BY <1>3, <2>1
    <2> HIDE DEF first
    <2>3. first \in DOMAIN Cluster /\ Cluster[first].kind = "file" /\ Text(LongName[first]) = name
      BY <2>2
    <2>4. PICK i \in DOMAIN disk.dir :
            first = End(i) /\ disk.dir[i].kind = "file" /\ Cluster[first].file = i
      BY <2>3, WhoseRecord
    <2>5. End(i) <= Len(Cluster)
      <3>1. DOMAIN Cluster = 1 .. Len(Cluster) /\ Len(Cluster) \in Nat BY ClusterFacts
      <3> QED BY <2>3, <2>4, <3>1
    <2>6. ~ Misread(i) => disk.dir[i].name = name BY <2>3, <2>4, <2>5, ReadFacts
    <2> QED BY <2>1, <2>4, <2>6 DEF IsFile
  <1>5. ASSUME Lookup(name) = {}, NEW i \in DOMAIN disk.dir, IsFile(i, name), Visible(i), ~ Misread(i)
        PROVE  FALSE
    <2>1. hits = {} BY <1>1, <1>5
    <2>2. End(i) <= Entries BY <1>5 DEF Visible, End, Flat
    <2>3. disk.dir[i].kind = "file" /\ disk.dir[i].name = name BY <1>5 DEF IsFile
    <2>4. End(i) \in DOMAIN Cluster /\ Cluster[End(i)] = [kind |-> "file", file |-> i]
      BY <2>2, <2>3, OwnRecord
    <2>5. End(i) <= Len(Cluster)
      <3>1. DOMAIN Cluster = 1 .. Len(Cluster) /\ Len(Cluster) \in Nat BY ClusterFacts
      <3> QED BY <2>4, <3>1
    <2>6. Text(LongName[End(i)]) = name BY <1>5, <2>3, <2>5, ReadFacts
    <2>7. Cluster[End(i)].kind = "file" BY <2>4
    <2>8. End(i) \in hits BY <2>4, <2>6, <2>7
    <2> QED BY <2>1, <2>8
  <1> QED BY <1>4, <1>5

-----------------------------------------------------------------------------
(* Opening a path.                                                         *)
\* A subsequence of one element.
LEMMA SubSeqOne ==
  ASSUME NEW S, NEW s \in Seq(S), NEW m \in 1 .. Len(s)
  PROVE  SubSeq(s, m, m) = <<s[m]>>
  <1>1. m \in Int /\ \A i \in m .. m : i = m OBVIOUS
  <1>2. s[m] \in S OBVIOUS
  <1>3. PICK t : t = SubSeq(s, m, m) OBVIOUS
  <1>4. t \in Seq(S) /\ Len(t) = 1 /\ t[1] = s[m]
    <2>1. \A i \in m .. m : s[i] \in S BY <1>1, <1>2
    <2>2. /\ t \in Seq(S) /\ Len(t) = IF m <= m THEN m - m + 1 ELSE 0
          /\ \A i \in 1 .. m - m + 1 : t[i] = s[m + i - 1]
      BY <1>1, <1>3, <2>1, SubSeqProperties
    <2>3. m <= m /\ m - m + 1 = 1 /\ 1 \in 1 .. 1 /\ m + 1 - 1 = m BY <1>1
    <2> QED BY <2>2, <2>3
  <1>5. PICK u : u = <<s[m]>> OBVIOUS
  <1>6. u \in Seq(S) /\ Len(u) = 1 /\ u[1] = s[m] BY <1>2, <1>5
  <1>7. t = u
    <2>1. \A i \in 1 .. Len(t) : t[i] = u[i] BY <1>4, <1>6
    <2> QED BY <1>4, <1>6, <2>1, SeqEqual
  <1> QED BY <1>3, <1>5, <1>7

\* Which mounted paths a path begins with, and what follows them.
LEMMA PathFacts ==
  ASSUME NEW path \in Paths, path # <<>>
  PROVE  /\ Len(path) \in {1, 2}
         /\ path[1] # Dev => Len(path) = 1
         /\ IsPrefix(<<>>, path)
         /\ IsPrefix(<<Dev>>, path) <=> path[1] = Dev
         /\ SubSeq(path, 1, Len(path)) = path
         /\ Len(SubSeq(path, 2, Len(path))) = Len(path) - 1
         /\ Len(path) = 2 => SubSeq(path, 2, Len(path))[1] = path[2]
  <1>1. path = <<Dev>> \/ (\E n : path = <<n>>) \/ (\E n : path = <<Dev, n>>) BY DEF Paths
  <1>2. ASSUME NEW S, NEW s \in Seq(S), Len(s) >= 1
        PROVE  /\ IsPrefix(<<>>, s)
               /\ IsPrefix(<<Dev>>, s) <=> s[1] = Dev
    <2>1. Len(<<>>) = 0 /\ Len(<<Dev>>) = 1 /\ <<Dev>>[1] = Dev /\ <<Dev>> \in Seq({Dev}) OBVIOUS
    <2>2. SubSeq(<<>>, 1, 0) = <<>> /\ SubSeq(s, 1, 0) = <<>> BY SubSeqEmpty
    <2>3. IsPrefix(<<>>, s) BY <1>2, <2>1, <2>2 DEF IsPrefix
    <2>4. SubSeq(s, 1, 1) = <<s[1]>>
      <3>1. 1 \in 1 .. Len(s) BY <1>2
      <3> QED BY <3>1, SubSeqOne
    <2>5. SubSeq(<<Dev>>, 1, 1) = <<Dev>>
      <3>1. 1 \in 1 .. Len(<<Dev>>) BY <2>1
      <3> QED BY <2>1, <3>1, SubSeqOne
    <2>6. IsPrefix(<<Dev>>, s) <=> <<Dev>> = <<s[1]>>
      BY <1>2, <2>1, <2>4, <2>5 DEF IsPrefix
    <2>7. <<Dev>> = <<s[1]>> <=> s[1] = Dev OBVIOUS
    <2> QED BY <2>3, <2>6, <2>7
  <1>3. CASE \E n : path = <<n>>
    <2>1. PICK n : path = <<n>> BY <1>3
    <2>2. path \in Seq({n}) /\ Len(path) = 1 BY <2>1
    <2>3. SubSeq(path, 2, 1) = <<>> BY SubSeqEmpty
    <2>4. Len(SubSeq(path, 2, 1)) = 0 BY <2>3
    <2>5. SubSeq(path, 1, Len(path)) = path BY <2>2, SubSeqFull
    <2> QED BY <1>2, <2>2, <2>4, <2>5
  <1>4. CASE \E n : path = <<Dev, n>>
    <2>1. PICK n : path = <<Dev, n>> BY <1>4
    <2>2. path \in Seq({Dev, n}) /\ Len(path) = 2 /\ path[1] = Dev BY <2>1
    <2>3. SubSeq(path, 2, 2) = <<path[2]>>
      <3>1. 2 \in 1 .. Len(path) BY <2>2
      <3> QED BY <2>2, <3>1, SubSeqOne
    <2>4. Len(SubSeq(path, 2, 2)) = 1 /\ SubSeq(path, 2, 2)[1] = path[2] BY <2>3
    <2>5. SubSeq(path, 1, Len(path)) = path BY <2>2, SubSeqFull
    <2> QED BY <1>2, <2>2, <2>4, <2>5
  <1> QED BY <1>1, <1>3, <1>4

\* A good answer to an open of a name in the first file system.
Named(name, to) ==
  \/ to = Error
  \/ /\ to = Nothing
     /\ \A i \in DOMAIN disk.dir : IsFile(i, name) /\ Visible(i) => Misread(i)
  \/ \E i \in DOMAIN disk.dir : to = <<systems[1], i>> /\ (IsFile(i, name) \/ Misread(i))
\* It is one as long as the disk is the same.
LEMMA NamedSame ==
  ASSUME UNCHANGED <<disk, systems>>, NEW name, NEW to
  PROVE  Named(name, to)' <=> Named(name, to)
  <1>1. \A i : IsFile(i, name)' <=> IsFile(i, name) BY DEF IsFile
  <1>2. \A i : Misread(i)' <=> Misread(i) BY DEF Misread, Before
  <1>3. \A i : Visible(i)' <=> Visible(i) BY DEF Visible, Records
  <1>4. DOMAIN disk'.dir = DOMAIN disk.dir /\ systems' = systems OBVIOUS
  <1> QED BY <1>1, <1>2, <1>3, <1>4 DEF Named

\* The devices are mounted once the machine has booted, and nothing has been
\* opened before.
OpenInv ==
  /\ disk \in Disks
  /\ MountsInv
  /\ \A i \in DOMAIN mounts : mounts[i].path = <<Dev>> => mounts[i].fs = DevFs
  /\ at \in {"ready", "wild"} => \E i \in DOMAIN mounts : mounts[i].path = <<Dev>>
  /\ at \notin {"ready", "wild"} => last.path = <<>>
  /\ OpensNamed

\* The mounted path that is looked in.
LEMMA BestFacts ==
  ASSUME OpenInv, at = "ready", NEW path \in Paths, path # <<>>
  PROVE  /\ path[1] = Dev => /\ Matching(path) # {} /\ mounts[Best(path)].fs = DevFs
                             /\ Rest(path) = SubSeq(path, 2, Len(path))
         /\ path[1] # Dev /\ systems = <<>> => Matching(path) = {}
         /\ path[1] # Dev /\ systems # <<>> =>
              /\ Matching(path) # {} /\ mounts[Best(path)].fs = [block |-> 1, index |-> 1]
              /\ Rest(path) = path
  <1>1. /\ \A i \in DOMAIN mounts : mounts[i].path \in {<<>>, <<Dev>>}
        /\ \A i, j \in DOMAIN mounts : mounts[i].path = mounts[j].path => i = j
        /\ \A i \in DOMAIN mounts : mounts[i].path = <<>> => mounts[i].fs = [block |-> 1, index |-> 1]
        /\ \A i \in DOMAIN mounts : mounts[i].path = <<Dev>> => mounts[i].fs = DevFs
        /\ \E i \in DOMAIN mounts : mounts[i].path = <<Dev>>
    <2>1. \A i \in DOMAIN mounts : mounts[i] \in Mounts BY DEF OpenInv, MountsInv
    <2>2. \A m \in Mounts : m.path \in {<<>>, <<Dev>>} BY DEF Mounts
    <2> QED BY <2>1, <2>2 DEF OpenInv, MountsInv, IsRoot
  <1>2. systems # <<>> <=> \E i \in DOMAIN mounts : mounts[i].path = <<>>
    <2>1. systems # <<>> <=> Len(systems) # 0
      <3>1. PICK S : systems \in Seq(S) BY DEF OpenInv, MountsInv, Room
      <3> QED BY <3>1
    <2> QED BY <2>1 DEF OpenInv, MountsInv, IsRoot
  <1>3. Len(<<>>) = 0 /\ Len(<<Dev>>) = 1 /\ <<>> # <<Dev>> OBVIOUS
  <1>4. \A i : i \in Matching(path) <=> i \in DOMAIN mounts /\ IsPrefix(mounts[i].path, path)
    BY DEF Matching
  <1>5. CASE path[1] = Dev
    <2>1. PICK d \in DOMAIN mounts : mounts[d].path = <<Dev>> BY <1>1
    <2>2. d \in Matching(path) BY <1>4, <1>5, <2>1, PathFacts
    <2>3. \A j \in Matching(path) : Len(mounts[j].path) <= Len(mounts[d].path)
      <3> SUFFICES ASSUME NEW j \in Matching(path)
                   PROVE  Len(mounts[j].path) <= Len(mounts[d].path)
        OBVIOUS
      <3>1. mounts[j].path = <<>> \/ mounts[j].path = <<Dev>> BY <1>1, <1>4
      <3>2. Len(mounts[j].path) = 0 \/ Len(mounts[j].path) = 1 BY <1>3, <3>1
      <3>3. Len(mounts[d].path) = 1 BY <1>3, <2>1
      <3>4. \A x, y : (x = 0 \/ x = 1) /\ y = 1 => x <= y OBVIOUS
      <3> QED BY <3>2, <3>3, <3>4
    <2>4. Best(path) \in Matching(path) /\ Len(mounts[d].path) <= Len(mounts[Best(path)].path)
      BY <2>2, <2>3 DEF Best
    <2>5. mounts[Best(path)].path = <<Dev>> /\ Best(path) \in DOMAIN mounts
      <3>1. mounts[Best(path)].path = <<>> \/ mounts[Best(path)].path = <<Dev>> BY <1>1, <1>4, <2>4
      <3>2. Len(<<Dev>>) <= Len(mounts[Best(path)].path) BY <2>1, <2>4
      <3> QED BY <1>3, <1>4, <2>4, <3>1, <3>2
    <2>6. Rest(path) = SubSeq(path, 2, Len(path))
      <3>1. Len(mounts[Best(path)].path) + 1 = 2 BY <1>3, <2>5
      <3> QED BY <3>1 DEF Rest
    <2> QED BY <1>1, <1>5, <2>2, <2>5, <2>6
  <1>6. CASE path[1] # Dev
    <2>1. \A i \in Matching(path) : i \in DOMAIN mounts /\ mounts[i].path = <<>>
      BY <1>1, <1>4, <1>6, PathFacts
    <2>2. systems = <<>> => Matching(path) = {} BY <1>2, <2>1
    <2>3. ASSUME systems # <<>>
          PROVE  /\ Matching(path) # {} /\ mounts[Best(path)].fs = [block |-> 1, index |-> 1]
                 /\ Rest(path) = path
      <3>1. PICK r \in DOMAIN mounts : mounts[r].path = <<>> BY <1>2, <2>3
      <3>2. r \in Matching(path) BY <1>4, <3>1, PathFacts
      <3>3. \A j \in Matching(path) : Len(mounts[j].path) <= Len(mounts[r].path)
        BY <1>3, <2>1, <3>1
      <3>4. Best(path) \in Matching(path) BY <3>2, <3>3 DEF Best
      <3>5. mounts[Best(path)].path = <<>> /\ Best(path) \in DOMAIN mounts BY <2>1, <3>4
      <3>6. Rest(path) = path
        <4>1. Len(mounts[Best(path)].path) + 1 = 1 BY <1>3, <3>5
        <4>2. Rest(path) = SubSeq(path, 1, Len(path)) BY <4>1 DEF Rest
        <4> QED BY <4>2, PathFacts
      <3> QED BY <1>1, <3>2, <3>5, <3>6
    <2> QED BY <1>6, <2>2, <2>3
  <1> QED BY <1>5, <1>6

\* What an open answers.
LEMMA OpenKeeps ==
  ASSUME OpenInv, Open
  PROVE  OpenInv'
  <1>1. /\ at = "ready" /\ UNCHANGED <<disk, partitions, systems, capacity, mounts>>
        /\ at' \in {"ready", "wild"}
    BY DEF Open, OpenNowhere, LookupDevice, LookupFile
  <1>2. PICK path \in Paths : OpenNowhere(path) \/ LookupDevice(path) \/ LookupFile(path)
    BY DEF Open
  <1>3. last'.path = path BY <1>2 DEF OpenNowhere, LookupDevice, LookupFile, Answer
  <1>4. MountsInv' BY <1>1, MountsSame DEF OpenInv
  <1>5. ASSUME at' = "ready", path # <<>>, path[1] = Dev
        PROVE  last'.to = IF Len(path) = 2 /\ path[2] \in DeviceNames THEN path[2] ELSE Nothing
    <2>1. /\ Matching(path) # {} /\ mounts[Best(path)].fs = DevFs
          /\ Rest(path) = SubSeq(path, 2, Len(path))
      BY <1>1, <1>5, BestFacts
    <2>2. LookupDevice(path) BY <1>2, <2>1 DEF OpenNowhere, LookupFile
    <2>3. last'.to = IF Len(Rest(path)) = 1 /\ Rest(path)[1] \in DeviceNames
                     THEN Rest(path)[1] ELSE Nothing
      BY <2>2 DEF LookupDevice, Answer
    <2>4. /\ Len(path) \in {1, 2} /\ Len(Rest(path)) = Len(path) - 1
          /\ Len(path) = 2 => Rest(path)[1] = path[2]
      BY <1>5, <2>1, PathFacts
    <2>5. Len(Rest(path)) = 1 <=> Len(path) = 2 BY <2>4
    <2> QED BY <2>3, <2>4, <2>5
  <1>6. ASSUME at' = "ready", path # <<>>, path[1] # Dev, systems = <<>> PROVE last'.to = Nothing
    <2>1. Matching(path) = {} BY <1>1, <1>6, BestFacts
    <2>2. OpenNowhere(path) BY <1>2, <2>1 DEF LookupDevice, LookupFile
    <2> QED BY <2>2 DEF OpenNowhere, Answer
  <1>7. ASSUME at' = "ready", path # <<>>, path[1] # Dev, systems # <<>>
        PROVE  Named(path[1], last'.to)
    <2>1. /\ Matching(path) # {} /\ mounts[Best(path)].fs = [block |-> 1, index |-> 1]
          /\ Rest(path) = path
      BY <1>1, <1>7, BestFacts
    <2>2. mounts[Best(path)].fs # DevFs /\ mounts[Best(path)].fs.index = 1 BY <2>1 DEF DevFs
    <2>3. LookupFile(path) BY <1>2, <2>1, <2>2 DEF OpenNowhere, LookupDevice
    <2>4. Len(Rest(path)) <= 1 /\ Rest(path) # <<>>
      <3>1. Len(path) = 1 BY <1>7, PathFacts
      <3> QED BY <1>7, <2>1, <3>1
    <2>5. \/ \E x \in Lookup(path[1]) : last'.to = <<systems[1], x>>
          \/ Lookup(path[1]) = {} /\ last'.to = Nothing
          \/ last'.to = Error
      BY <1>7, <2>1, <2>2, <2>3, <2>4 DEF LookupFile, Answer
    <2>6. disk \in Disks BY DEF OpenInv
    <2> QED BY <2>5, <2>6, LookupFacts DEF Named
  <1>8. OpensNamed'
    <2> SUFFICES ASSUME at' = "ready", path # <<>> PROVE OpensNamed'
      BY <1>3 DEF OpensNamed
    <2>1. CASE path[1] = Dev BY <1>3, <1>5, <2>1 DEF OpensNamed
    <2>2. CASE path[1] # Dev /\ systems = <<>> BY <1>1, <1>3, <1>6, <2>2 DEF OpensNamed
    <2>3. CASE path[1] # Dev /\ systems # <<>>
      <3>1. PICK to : to = last'.to OBVIOUS
      <3>2. Named(path[1], to)' BY <1>1, <1>7, <2>3, <3>1, NamedSame
      <3> QED BY <1>1, <1>3, <2>3, <3>1, <3>2 DEF OpensNamed, Named
    <2> QED BY <2>1, <2>2, <2>3
  <1> QED BY <1>1, <1>4, <1>8 DEF OpenInv

\* The steps of the boot: nothing has been opened.
LEMMA BootKeeps ==
  ASSUME OpenInv, ReadHeader \/ ReadEntries \/ Probe \/ Probed \/ RegisterDevices
  PROVE  OpenInv'
  <1>1. at \notin {"ready", "wild"} /\ UNCHANGED <<disk, last>>
    BY DEF ReadHeader, ReadEntries, Probe, Probed, RegisterDevices
  <1>2. last'.path = <<>> BY <1>1 DEF OpenInv
  <1>3. OpensNamed' BY <1>2 DEF OpensNamed
  <1>4. MountsInv' BY MountsNext DEF MountNext, OpenInv
  <1>5. CASE ReadHeader \/ ReadEntries \/ Probed
    <2>1. at' \notin {"ready", "wild"} /\ UNCHANGED mounts BY <1>5 DEF ReadHeader, ReadEntries, Probed
    <2> QED BY <1>1, <1>2, <1>3, <1>4, <2>1 DEF OpenInv
  <1>6. CASE Probe
    <2>1. at' \notin {"ready", "wild"} BY <1>6 DEF Probe
    <2>2. \A i \in DOMAIN mounts' : mounts'[i].path = <<Dev>> => mounts'[i].fs = DevFs
      <3>1. CASE UNCHANGED mounts BY <3>1 DEF OpenInv
      <3>2. CASE mounts' = Mounted(<<>>, Back(systems', capacity'))
        <4>1. PICK e : e = [path |-> <<>>, fs |-> Back(systems', capacity')] OBVIOUS
        <4>2. e.path # <<Dev>> BY <4>1
        <4>3. mounts' = mounts \/ mounts' = Append(mounts, e) BY <3>2, <4>1 DEF Mounted
        <4>4. mounts \in Seq(Mounts) BY DEF OpenInv, MountsInv
        <4>5. CASE mounts' = Append(mounts, e)
          <5>1. \A i \in DOMAIN mounts' :
                  (i \in DOMAIN mounts /\ mounts'[i] = mounts[i]) \/ mounts'[i] = e
            BY <4>4, <4>5
          <5> QED BY <4>2, <5>1 DEF OpenInv
        <4> QED BY <3>1, <4>3, <4>5
      <3> QED BY <1>6, <3>1, <3>2 DEF Probe
    <2> QED BY <1>1, <1>2, <1>3, <1>4, <2>1, <2>2 DEF OpenInv
  <1>7. CASE RegisterDevices
    <2>1. DevFs \in [block : Nat, index : Nat] BY DEF DevFs
    <2>2. /\ \E i \in DOMAIN mounts' : mounts'[i].path = <<Dev>>
          /\ \A i \in DOMAIN mounts' :
               \/ i \in DOMAIN mounts /\ mounts'[i] = mounts[i]
               \/ mounts'[i] = [path |-> <<Dev>>, fs |-> DevFs]
      BY <1>7, <2>1, MountedFacts DEF RegisterDevices, OpenInv, MountsInv
    <2>3. \A i \in DOMAIN mounts' : mounts'[i].path = <<Dev>> => mounts'[i].fs = DevFs
      BY <2>2 DEF OpenInv
    <2>4. at' = "ready" BY <1>7 DEF RegisterDevices
    <2> QED BY <1>1, <1>3, <1>4, <2>2, <2>3, <2>4 DEF OpenInv
  <1> QED BY <1>5, <1>6, <1>7

LEMMA OpenInvariance == MountSpec => []OpenInv
  <1>1. MountInit => OpenInv
    <2> SUFFICES ASSUME MountInit PROVE OpenInv OBVIOUS
    <2>1. /\ disk \in Disks /\ at = "header" /\ mounts = <<>>
          /\ last = [path |-> <<>>, to |-> Nothing]
      BY DEF MountInit
    <2>2. DOMAIN mounts = {} /\ at \notin {"ready", "wild"} /\ last.path = <<>> BY <2>1
    <2> QED BY <2>1, <2>2, MountsInit DEF OpenInv, OpensNamed
  <1>2. OpenInv /\ [MountNext]_mountVars => OpenInv'
    <2> SUFFICES ASSUME OpenInv, [MountNext]_mountVars PROVE OpenInv' OBVIOUS
    <2>1. CASE UNCHANGED mountVars
      <3>1. UNCHANGED <<disk, at, systems, capacity, mounts, last>> BY <2>1 DEF mountVars
      <3>2. MountsInv' BY <3>1, MountsSame DEF OpenInv
      <3>3. PICK path, to : path = last.path /\ to = last.to OBVIOUS
      <3>4. Named(path[1], to)' <=> Named(path[1], to) BY <3>1, NamedSame
      <3>5. OpensNamed BY DEF OpenInv
      <3>6. at = "ready" /\ path # <<>> /\ path[1] # Dev /\ systems # <<>> => Named(path[1], to)'
        BY <3>3, <3>4, <3>5 DEF OpensNamed, Named
      <3>7. at = "ready" /\ path # <<>> /\ path[1] # Dev /\ systems = <<>> => to = Nothing
        BY <3>3, <3>5 DEF OpensNamed
      <3>8. at = "ready" /\ path # <<>> /\ path[1] = Dev =>
              to = IF Len(path) = 2 /\ path[2] \in DeviceNames THEN path[2] ELSE Nothing
        BY <3>3, <3>5 DEF OpensNamed
      <3>9. OpensNamed' BY <3>1, <3>3, <3>6, <3>7, <3>8 DEF OpensNamed, Named
      <3> QED BY <3>1, <3>2, <3>9 DEF OpenInv
    <2>2. CASE Open BY <2>2, OpenKeeps
    <2>3. CASE ReadHeader \/ ReadEntries \/ Probe \/ Probed \/ RegisterDevices BY <2>3, BootKeeps
    <2> QED BY <2>1, <2>2, <2>3 DEF MountNext
  <1> QED BY <1>1, <1>2, PTL DEF MountSpec

\* Whatever is on the disk, and however long the names: an open answers what was
\* asked for, but for the files that the scan misreads.
THEOREM OpensNamedTheorem == MountSpec => []OpensNamed
  <1>1. OpenInv => OpensNamed BY DEF OpenInv
  <1> QED BY <1>1, OpenInvariance, PTL
=============================================================================
