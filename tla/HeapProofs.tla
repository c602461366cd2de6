----------------------------- MODULE HeapProofs -----------------------------
(***************************************************************************)
(* Proofs about the kernel heap, for every region, every set of request    *)
(* sizes and every order of calls.  IInv is inductive: the tiling of the   *)
(* region needs the types, what clients own needs the tiling.              *)
(***************************************************************************)
EXTENDS Heap, TLAPS

IInv == TypeOK /\ Tiling /\ Coalesced /\ Owned /\ Inside

-----------------------------------------------------------------------------
(* Arithmetic of the allocator.                                            *)

\* Rounding a request up to the granularity loses nothing and adds less than
\* one granule.
LEMMA RoundUpFacts ==
  ASSUME NEW n \in 0 .. Word - Gran
  PROVE  /\ RoundUp(n) \in Nat
         /\ RoundUp(n) >= n
         /\ RoundUp(n) % Gran = 0
  BY RegionAssumption DEF RoundUp, Gran, HeapEnd, HeaderSize

\* AlignUp yields the first multiple of a from x on.
LEMMA AlignUpFacts ==
  ASSUME NEW x \in Nat, NEW a \in Nat \ {0}
  PROVE  /\ AlignUp(x, a) \in Nat
         /\ AlignUp(x, a) >= x
         /\ AlignUp(x, a) < x + a
         /\ AlignUp(x, a) % a = 0
  <1> DEFINE y == x + a - 1
  <1>1. y \in Nat OBVIOUS
  <1>2. PICK q, r \in Nat : y = a * q + r /\ r < a /\ q = y \div a
    BY <1>1
  <1>3. AlignUp(x, a) = q * a BY <1>2 DEF AlignUp
  <1>4. (q * a) % a = 0 OBVIOUS
  <1> QED BY <1>2, <1>3, <1>4

-----------------------------------------------------------------------------
(* The blocks.                                                             *)

\* Two blocks are one another's successor, the same, or apart.
LEMMA BlockFacts ==
  ASSUME TypeOK, Tiling, NEW b \in blocks
  PROVE  /\ b \in Nat /\ b % Gran = 0 /\ b >= HeapStart /\ b < HeapEnd
         /\ size[b] \in Nat /\ End(b) \in Nat
         /\ End(b) <= HeapEnd
         /\ next[b] # Null =>
              /\ next[b] \in blocks /\ next[b] = End(b) /\ prev[next[b]] = b
              /\ next[b] > b
         /\ prev[b] # Null =>
              /\ prev[b] \in blocks /\ next[prev[b]] = b /\ End(prev[b]) = b
         /\ prev[b] = Null <=> b = HeapStart
  <1>1. b \in Addr /\ b \in Nat /\ b % Gran = 0 /\ b >= HeapStart /\ b < HeapEnd
    BY RegionAssumption DEF TypeOK, Addr, HeapEnd
  <1>2. size[b] \in Nat /\ End(b) \in Nat /\ End(b) >= b + HeaderSize
    BY <1>1 DEF TypeOK, End, HeaderSize
  <1>3. Linked(b)
    BY DEF Tiling
  <1>4. \A c \in blocks : c # Null
    BY RegionAssumption DEF TypeOK, Addr, Null, HeapEnd
  <1>5. next[b] # Null =>
          /\ next[b] \in blocks /\ next[b] = End(b) /\ prev[next[b]] = b
          /\ next[b] > b
    BY <1>1, <1>2, <1>3 DEF Linked, HeaderSize
  <1>6. End(b) <= HeapEnd
    <2>1. CASE next[b] = Null
      BY <1>3, <2>1, RegionAssumption DEF Linked, HeapEnd
    <2>2. CASE next[b] # Null
      BY <1>5, <2>2, RegionAssumption DEF TypeOK, Addr, HeapEnd
    <2> QED BY <2>1, <2>2
  <1>7. prev[b] # Null =>
          /\ prev[b] \in blocks /\ next[prev[b]] = b /\ End(prev[b]) = b
    <2> SUFFICES ASSUME prev[b] # Null
                 PROVE  prev[b] \in blocks /\ next[prev[b]] = b /\ End(prev[b]) = b
      OBVIOUS
    <2>1. prev[b] \in blocks /\ next[prev[b]] = b
      BY <1>3 DEF Linked
    <2>2. Linked(prev[b]) BY <2>1 DEF Tiling
    <2>3. b # Null BY <1>4
    <2> QED BY <2>1, <2>2, <2>3 DEF Linked
  <1>8. prev[b] = Null <=> b = HeapStart
    BY <1>3, <1>4 DEF Linked
  <1> QED BY <1>1, <1>2, <1>5, <1>6, <1>7, <1>8

\* What TypeOK says of the headers.
MemTypes ==
  /\ size \in [Addr -> Nat]
  /\ free \in [Addr -> BOOLEAN]
  /\ next \in [Addr -> Addr \cup {Null}]
  /\ prev \in [Addr -> Addr \cup {Null}]
  /\ blocks \subseteq Addr

\* One iteration of a merge loop keeps the tiling: the successor's bytes,
\* header included, become the block's.
LEMMA AbsorbSound ==
  ASSUME TypeOK, Tiling, NEW b \in blocks, next[b] # Null, Absorb(b, next[b])
  PROVE  /\ MemTypes' /\ Tiling'
         /\ \A c \in blocks' : c # b => End(c)' = End(c)
         /\ End(b)' = End(next[b])
  <1> DEFINE n == next[b]
             m == next[n]
  <1>0. \A c \in blocks : c # Null /\ c >= HeapStart /\ c \in Nat
    BY RegionAssumption DEF TypeOK, Addr, Null, HeapEnd
  <1>1. /\ n \in blocks /\ n = End(b) /\ prev[n] = b /\ n > b /\ n # Null
        /\ b \in Nat /\ n \in Nat /\ size[b] \in Nat /\ size[n] \in Nat
        /\ b \in Addr /\ n \in Addr
    BY BlockFacts DEF TypeOK
  <1>2. m # Null => m \in blocks /\ m = End(n) /\ prev[m] = n /\ m > n /\ m \in Addr
    BY <1>1, BlockFacts DEF TypeOK
  <1>3. /\ size' = [size EXCEPT ![b] = size[b] + size[n] + HeaderSize, ![n] = 0]
        /\ free' = [free EXCEPT ![n] = FALSE]
        /\ next' = [next EXCEPT ![b] = m, ![n] = Null]
        /\ prev' = [a \in Addr |-> IF a = m THEN b
                                   ELSE IF a = n THEN Null ELSE prev[a]]
        /\ blocks' = blocks \ {n}
    BY DEF Absorb
  <1>4. MemTypes'
    <2>1. m \in Addr \cup {Null} BY <1>1 DEF TypeOK
    <2>2. size[b] + size[n] + HeaderSize \in Nat BY <1>1 DEF HeaderSize
    <2> QED BY <1>1, <1>3, <2>1, <2>2 DEF TypeOK, MemTypes
  <1>5. \A c \in blocks' : c # b => size'[c] = size[c] /\ next'[c] = next[c]
    BY <1>3 DEF TypeOK
  <1>6. size'[b] = size[b] + size[n] + HeaderSize /\ next'[b] = m
    BY <1>1, <1>3 DEF TypeOK
  <1>7. \A c \in blocks' : c # b => End(c)' = End(c)
    BY <1>5 DEF End
  <1>8. End(b)' = End(n)
    BY <1>1, <1>6 DEF End, HeaderSize
  <1>9. \A c \in blocks' : prev'[c] = IF c = m THEN b ELSE prev[c]
    BY <1>3 DEF TypeOK
  <1>10. b \in blocks' /\ HeapStart \in blocks'
    BY <1>1, <1>3, BlockFacts DEF Tiling
  <1>11. ASSUME NEW c \in blocks' PROVE Linked(c)'
    <2>1. c \in blocks /\ c # n BY <1>3
    <2>2. CASE c = b
      <3>1. next'[c] = m /\ End(c)' = End(n) /\ prev'[c] = prev[c]
        <4>1. b # m BY <1>0, <1>1, <1>2
        <4> QED BY <4>1, <1>6, <1>8, <1>9, <1>10, <2>2
      <3>2. IF m = Null THEN End(n) = HeapEnd ELSE m = End(n)
        BY <1>1 DEF Tiling, Linked
      <3>3. m # Null => m \in blocks' /\ prev'[m] = b
        BY <1>1, <1>2, <1>3, <1>9
      <3>4. IF b = HeapStart THEN prev[b] = Null
                             ELSE prev[b] \in blocks /\ next[prev[b]] = b /\ prev[b] # b /\ prev[b] # n
        <4>1. Linked(b) BY DEF Tiling
        <4>2. b # HeapStart => next[prev[b]] # Null /\ prev[b] \in blocks
          BY <4>1, <1>0 DEF Linked
        <4>3. b # HeapStart => prev[b] < b
          BY <4>1, <4>2, BlockFacts DEF Linked
        <4> QED BY <4>1, <4>2, <4>3, <1>1 DEF Linked
      <3>5. b # HeapStart => prev[b] \in blocks' /\ next'[prev[b]] = b
        BY <3>4, <1>3, <1>5
      <3> QED BY <2>2, <3>1, <3>2, <3>3, <3>4, <3>5 DEF Linked
    <2>3. CASE c # b
      <3>1. next'[c] = next[c] /\ End(c)' = End(c)
        BY <1>5, <1>7, <2>3
      <3>2. Linked(c) BY <2>1 DEF Tiling
      <3>3. next[c] # Null =>
              /\ next[c] \in blocks' /\ next[c] = End(c) /\ prev'[next[c]] = c
        <4> SUFFICES ASSUME next[c] # Null
                     PROVE next[c] \in blocks' /\ next[c] = End(c) /\ prev'[next[c]] = c
          OBVIOUS
        <4>1. next[c] \in blocks /\ next[c] = End(c) /\ prev[next[c]] = c
          BY <3>2 DEF Linked
        <4>2. next[c] # n BY <4>1, <1>1, <2>3
        <4>3. next[c] # m BY <4>1, <1>2, <2>1
        <4> QED BY <4>1, <4>2, <4>3, <1>3, <1>9
      <3>4. c # HeapStart => prev'[c] \in blocks' /\ next'[prev'[c]] = c
        <4> SUFFICES ASSUME c # HeapStart
                     PROVE  prev'[c] \in blocks' /\ next'[prev'[c]] = c
          OBVIOUS
        <4>1. prev[c] \in blocks /\ next[prev[c]] = c
          BY <3>2 DEF Linked
        <4>2. CASE c = m
          BY <4>2, <1>9, <1>10, <1>6
        <4>3. CASE c # m
          <5>1. prev'[c] = prev[c] BY <4>3, <1>9
          <5>2. prev[c] # n BY <4>1, <4>3
          <5>3. prev[c] # b BY <4>1, <2>1
          <5>4. prev[c] \in blocks' BY <4>1, <5>2, <1>3
          <5>5. next'[prev[c]] = next[prev[c]] BY <5>3, <5>4, <1>5
          <5> QED BY <4>1, <5>1, <5>4, <5>5
        <4> QED BY <4>2, <4>3
      <3>5. c = HeapStart => prev'[c] = Null
        <4>1. c = HeapStart => prev[c] = Null /\ c # m
          <5>1. c = HeapStart => prev[c] = Null BY <3>2 DEF Linked
          <5>2. m = HeapStart => m # Null /\ m > n /\ n >= HeapStart
            BY <1>0, <1>1, <1>2, RegionAssumption DEF Null
          <5> QED BY <5>1, <5>2, <1>0, <1>1, <2>1
        <4> QED BY <4>1, <1>9
      <3> QED BY <3>1, <3>2, <3>3, <3>4, <3>5 DEF Linked
    <2> QED BY <2>2, <2>3
  <1>12. ASSUME NEW c \in blocks', NEW d \in blocks', c < d PROVE End(c)' <= d
    <2>1. c \in blocks /\ d \in blocks /\ d # n /\ c \in Nat /\ d \in Nat
      BY <1>3, BlockFacts
    <2>2. CASE c # b
      BY <2>1, <2>2, <1>7, <1>12 DEF Tiling
    <2>3. CASE c = b
      <3>1. n <= d BY <1>12, <2>1, <2>3, <1>1 DEF Tiling
      <3>2. n < d BY <3>1, <2>1, <1>1
      <3> QED BY <2>1, <2>3, <3>2, <1>1, <1>8 DEF Tiling
    <2> QED BY <2>2, <2>3
  <1> QED BY <1>4, <1>7, <1>8, <1>10, <1>11, <1>12 DEF Tiling

\* What taking block b for n bytes does to the headers: b keeps at least n
\* bytes, and if b is split the rest becomes a new free block between b and its
\* old successor.
TakeResult(b, n, leaveFree) ==
  /\ MemTypes' /\ Tiling'
  /\ b \in blocks' /\ size'[b] >= RoundUp(n) /\ free'[b] = leaveFree
  /\ \A c \in blocks \ {b} : /\ c \in blocks' /\ free'[c] = free[c]
                             /\ next'[c] = next[c] /\ End(c)' = End(c)
  /\ \/ blocks' = blocks /\ next'[b] = next[b]
     \/ \E new : /\ new \notin blocks /\ blocks' = blocks \cup {new}
                 /\ free'[new] /\ next'[b] = new /\ next'[new] = next[b]

LEMMA SplitSound ==
  ASSUME TypeOK, Tiling, NEW b \in blocks, NEW n \in 0 .. Word - Gran,
         NEW leaveFree \in BOOLEAN, Splits(b, n), Take(b, n, leaveFree)
  PROVE  TakeResult(b, n, leaveFree)
  <1> DEFINE s == RoundUp(n)
             new == b + HeaderSize + s
             m == next[b]
  <1>0. \A c \in blocks : c # Null /\ c >= HeapStart /\ c \in Nat /\ c \in Addr
    BY RegionAssumption DEF TypeOK, Addr, Null, HeapEnd
  <1>1. /\ b \in Nat /\ b \in Addr /\ size[b] \in Nat /\ b % Gran = 0
        /\ b >= HeapStart /\ End(b) \in Nat /\ End(b) <= HeapEnd
        /\ m # Null => m \in blocks /\ m = End(b) /\ prev[m] = b /\ m > b
    BY <1>0, BlockFacts
  <1>2. s \in Nat /\ s >= n /\ s % Gran = 0
    BY RoundUpFacts
  <1>3. size[b] >= s + HeaderSize + Gran
    BY DEF Splits
  <1>4. /\ new \in Nat /\ new > b /\ new # Null /\ new % Gran = 0
        /\ new + HeaderSize <= End(b) /\ new < End(b)
    BY <1>1, <1>2, <1>3 DEF HeaderSize, Gran, End, Null
  <1>5. new \in Addr
    BY <1>1, <1>4, RegionAssumption DEF Addr, HeapEnd, HeaderSize
  <1>6. \A c \in blocks : c <= b \/ c >= End(b)
    BY <1>0, <1>1 DEF Tiling
  <1>7. new \notin blocks /\ new # m /\ new # HeapStart
    BY <1>0, <1>1, <1>4, <1>6, RegionAssumption
  <1>8. /\ size' = [size EXCEPT ![b] = s, ![new] = size[b] - s - HeaderSize]
        /\ free' = [free EXCEPT ![b] = leaveFree, ![new] = TRUE]
        /\ next' = [next EXCEPT ![b] = new, ![new] = m]
        /\ prev' = [a \in Addr |-> IF a = new THEN b ELSE IF a = m THEN new ELSE prev[a]]
        /\ blocks' = blocks \cup {new}
    BY DEF Take, Splits
  <1>9. /\ size[b] - s - HeaderSize \in Nat /\ m \in Addr \cup {Null}
    BY <1>0, <1>1, <1>2, <1>3 DEF HeaderSize, Gran
  <1>10. MemTypes'
    BY <1>1, <1>2, <1>5, <1>8, <1>9 DEF TypeOK, MemTypes
  <1>11. /\ size'[b] = s /\ size'[new] = size[b] - s - HeaderSize
         /\ free'[b] = leaveFree /\ free'[new] = TRUE
         /\ next'[b] = new /\ next'[new] = m
    <2>1. b # new /\ b \in Addr /\ new \in Addr BY <1>1, <1>4, <1>5
    <2> QED BY <2>1, <1>8 DEF TypeOK
  <1>12. /\ prev'[new] = b
         /\ \A c \in blocks : prev'[c] = IF c = m THEN new ELSE prev[c]
    BY <1>0, <1>5, <1>7, <1>8
  <1>13. \A c \in blocks \ {b} : /\ c \in blocks' /\ size'[c] = size[c]
                                 /\ free'[c] = free[c] /\ next'[c] = next[c]
    BY <1>0, <1>7, <1>8 DEF TypeOK
  <1>14. \A c \in blocks \ {b} : End(c)' = End(c)
    BY <1>13 DEF End
  <1>15. End(b)' = new /\ End(new)' = End(b)
    BY <1>1, <1>2, <1>4, <1>11 DEF End, HeaderSize
  <1>16. b \in blocks' /\ new \in blocks' /\ HeapStart \in blocks'
    BY <1>8 DEF Tiling
  <1>17. Linked(b)'
    <2>1. IF b = HeapStart THEN prev[b] = Null
                           ELSE prev[b] \in blocks \ {b} /\ next[prev[b]] = b
      <3>1. Linked(b) BY DEF Tiling
      <3>2. m # b BY <1>0, <1>1
      <3> QED BY <3>1, <3>2 DEF Linked
    <2>2. b # m /\ prev'[b] = prev[b]
      BY <1>0, <1>1, <1>12
    <2>3. b # HeapStart => prev'[b] \in blocks' /\ next'[prev'[b]] = b
      BY <2>1, <2>2, <1>13
    <2> QED BY <1>4, <1>11, <1>12, <1>15, <1>16, <2>1, <2>2, <2>3 DEF Linked
  <1>18. Linked(new)'
    <2>1. IF m = Null THEN End(b) = HeapEnd ELSE m = End(b) /\ m \in blocks'
      BY <1>1, <1>8 DEF Tiling, Linked
    <2>2. m # Null => prev'[m] = new
      BY <1>1, <1>12
    <2> QED BY <2>1, <2>2, <1>7, <1>11, <1>12, <1>15, <1>16 DEF Linked
  <1>19. ASSUME NEW c \in blocks \ {b} PROVE Linked(c)'
    <2>1. Linked(c) /\ next'[c] = next[c] /\ End(c)' = End(c)
      BY <1>13, <1>14 DEF Tiling
    <2>2. next[c] # Null => next[c] \in blocks' /\ next[c] = End(c) /\ prev'[next[c]] = c
      <3>1. next[c] # Null => /\ next[c] \in blocks /\ next[c] = End(c)
                              /\ prev[next[c]] = c
        BY <2>1 DEF Linked
      <3>2. next[c] # Null => next[c] # m BY <3>1, <1>1
      <3> QED BY <3>1, <3>2, <1>8, <1>12
    <2>3. c = HeapStart => prev'[c] = Null
      <3>1. c = HeapStart => c # m
        BY <1>0, <1>1, RegionAssumption
      <3> QED BY <3>1, <2>1, <1>12 DEF Linked
    <2>4. c # HeapStart => prev'[c] \in blocks' /\ next'[prev'[c]] = c
      <3>1. CASE c = m
        BY <3>1, <1>11, <1>12, <1>16
      <3>2. CASE c # m /\ c # HeapStart
        <4>1. prev'[c] = prev[c] BY <3>2, <1>12
        <4>2. prev[c] \in blocks /\ next[prev[c]] = c BY <2>1, <3>2 DEF Linked
        <4>3. prev[c] # b BY <4>2, <3>2
        <4>4. prev[c] \in blocks' /\ next'[prev[c]] = next[prev[c]]
          BY <4>2, <4>3, <1>13
        <4> QED BY <4>1, <4>2, <4>4
      <3> QED BY <3>1, <3>2
    <2> QED BY <2>1, <2>2, <2>3, <2>4 DEF Linked
  <1>20. \A c \in blocks' : Linked(c)'
    BY <1>8, <1>17, <1>18, <1>19
  <1>21. ASSUME NEW c \in blocks', NEW d \in blocks', c < d PROVE End(c)' <= d
    <2>1. CASE c = b
      BY <2>1, <1>0, <1>1, <1>4, <1>6, <1>8, <1>15, <1>21
    <2>2. CASE c = new
      BY <2>2, <1>0, <1>1, <1>4, <1>6, <1>8, <1>15, <1>21
    <2>3. CASE c \in blocks \ {b}
      <3>1. End(c)' = End(c) /\ c \in Nat /\ End(c) \in Nat
        BY <2>3, <1>0, <1>14, BlockFacts
      <3>2. CASE d \in blocks
        BY <2>3, <3>1, <3>2, <1>21 DEF Tiling
      <3>3. CASE d = new
        <4>1. c < b BY <2>3, <3>1, <3>3, <1>0, <1>1, <1>4, <1>6, <1>21
        <4>2. End(c) <= b BY <2>3, <4>1 DEF Tiling
        <4> QED BY <3>1, <3>3, <4>2, <1>1, <1>4
      <3> QED BY <3>2, <3>3, <1>8
    <2> QED BY <2>1, <2>2, <2>3, <1>8
  <1>22. Tiling'
    BY <1>16, <1>20, <1>21 DEF Tiling
  <1>23. size'[b] >= RoundUp(n)
    BY <1>2, <1>11
  <1>24. \E x : /\ x \notin blocks /\ blocks' = blocks \cup {x}
               /\ free'[x] /\ next'[b] = x /\ next'[x] = next[b]
    BY <1>7, <1>8, <1>11
  <1> QED BY <1>10, <1>11, <1>13, <1>14, <1>16, <1>22, <1>23, <1>24 DEF TakeResult

LEMMA TakeSound ==
  ASSUME TypeOK, Tiling, NEW n \in 0 .. Word - Gran, NEW b, FirstFit(b, n),
         NEW leaveFree \in BOOLEAN, Take(b, n, leaveFree)
  PROVE  TakeResult(b, n, leaveFree)
  <1>1. b \in blocks /\ b \in Addr /\ size[b] >= RoundUp(n)
    BY DEF FirstFit, Fits, TypeOK
  <1>2. CASE Splits(b, n)
    BY <1>1, <1>2, SplitSound
  <1>3. CASE ~ Splits(b, n)
    <2>1. /\ free' = [free EXCEPT ![b] = leaveFree]
          /\ UNCHANGED <<size, next, prev, blocks>>
      BY <1>3 DEF Take
    <2>2. MemTypes'
      BY <2>1 DEF TypeOK, MemTypes
    <2>3. \A c : Linked(c)' <=> Linked(c)
      BY <2>1 DEF Linked, End
    <2>4. Tiling'
      BY <2>1, <2>3 DEF Tiling, End
    <2>5. free'[b] = leaveFree /\ \A c \in blocks \ {b} : free'[c] = free[c]
      BY <1>1, <2>1 DEF TypeOK
    <2> QED BY <1>1, <2>1, <2>2, <2>4, <2>5 DEF TakeResult, End
  <1> QED BY <1>2, <1>3

\* A product is a multiple of every divisor of its factors.
LEMMA MultipleFacts ==
  ASSUME NEW k \in Nat, NEW b \in Nat, NEW a \in Nat \ {0}, b % a = 0
  PROVE  (k * b) % a = 0
  <1>1. PICK j \in Nat : b = a * j
    <2>1. b = a * (b \div a) /\ b \div a \in Nat
      OBVIOUS
    <2> QED BY <2>1
  <1>2. k * b = a * (k * j) BY <1>1
  <1>3. k * j \in Nat BY <1>1
  <1>4. \A z \in Nat : (a * z) % a = 0 OBVIOUS
  <1> QED BY <1>2, <1>3, <1>4

\* Division with remainder.
LEMMA DivFacts ==
  ASSUME NEW x \in Nat, NEW b \in Nat \ {0}
  PROVE  \E d, r \in Nat : x = b * d + r /\ r < b /\ d = x \div b
  OBVIOUS

\* Where malloc_align and malloc_boundry put an object when they succeed.
LEMMA PlaceFacts ==
  ASSUME NEW q \in AlignedRequests, NEW raw \in Nat, ~ Misplaced(raw, q)
  PROVE  /\ Place(raw, q) \in Nat
         /\ Place(raw, q) >= raw + RawSize
         /\ Place(raw, q) + q.len <= raw + Total(q)
         /\ Place(raw, q) % q.align = 0
         /\ q.boundary # 0 => ~ Crosses(Place(raw, q), q)
  <1> DEFINE a == AlignUp(raw + RawSize, q.align)
  <1>1. /\ q.len \in Nat /\ q.align \in Nat \ {0} /\ q.boundary \in Nat
        /\ q.boundary # 0 => q.boundary % q.align = 0
    BY AlignedRequestAssumption
  <1>2. /\ a \in Nat /\ a >= raw + RawSize /\ a % q.align = 0
        /\ a < raw + RawSize + q.align
    <2>1. raw + RawSize \in Nat BY DEF RawSize
    <2> HIDE DEF RawSize
    <2> QED BY <1>1, <2>1, AlignUpFacts
  <1>3. CASE q.boundary # 0 /\ Crosses(a, q)
    <2>1. Place(raw, q) = NextBoundary(a, q)
      BY <1>3 DEF Place
    <2>2. /\ NextBoundary(a, q) \in Nat /\ NextBoundary(a, q) >= a
          /\ (a + q.boundary) \div q.boundary \in Nat
      <3>1. PICK d, r \in Nat : /\ a + q.boundary = q.boundary * d + r
                               /\ r < q.boundary
                               /\ d = (a + q.boundary) \div q.boundary
        <4>1. q.boundary \in Nat \ {0} /\ a + q.boundary \in Nat
          BY <1>1, <1>2, <1>3
        <4> HIDE DEF a
        <4> QED BY <4>1, DivFacts
      <3>2. NextBoundary(a, q) = q.boundary * d
        BY <3>1, <1>1 DEF NextBoundary
      <3>3. q.boundary * d \in Nat /\ q.boundary * d >= a
        <4> HIDE DEF a
        <4> QED BY <3>1, <1>1, <1>2
      <3> QED BY <3>1, <3>2, <3>3
    <2>3. NextBoundary(a, q) % q.align = 0
      BY <1>1, <1>3, <2>2, MultipleFacts DEF NextBoundary
    <2> QED BY <1>1, <1>2, <1>3, <2>1, <2>2, <2>3 DEF Misplaced, Total, RawSize
  <1>4. CASE ~ (q.boundary # 0 /\ Crosses(a, q))
    <2>1. Place(raw, q) = a BY <1>4 DEF Place
    <2> QED BY <1>1, <1>2, <1>4, <2>1 DEF Total, RawSize
  <1> QED BY <1>3, <1>4

-----------------------------------------------------------------------------
(* The operations.                                                         *)

\* The client of a used block: its header is b, and no other record has it.
LEMMA OwnerFacts ==
  ASSUME IInv, NEW r \in live
  PROVE  /\ r.raw - HeaderSize \in blocks /\ ~ free[r.raw - HeaderSize]
         /\ r.raw \in Nat /\ r.ptr \in Nat /\ r.want \in Wants /\ r.want.len \in Nat
  <1>1. r \in [ptr : Nat, raw : Nat, want : Wants]
    BY DEF IInv, TypeOK
  <1>2. PICK b \in blocks : ~ free[b] /\ r.raw = b + HeaderSize
    BY DEF IInv, Owned
  <1>3. b \in Nat BY BlockFacts DEF IInv
  <1>4. b = r.raw - HeaderSize BY <1>2, <1>3 DEF HeaderSize
  <1>5. \A w \in Wants : w.len \in Nat
    BY AlignedRequestAssumption, RequestAssumption, RegionAssumption DEF Wants, Plain, Gran
  <1> QED BY <1>1, <1>2, <1>4, <1>5

\* A malloc of either kind that returns a pointer into block b.
LEMMA NewObject ==
  ASSUME IInv, pc = "idle", NEW n \in 0 .. Word - Gran, NEW b, FirstFit(b, n),
         Take(b, n, FALSE), NEW p \in Nat, NEW w \in Wants,
         p = b + HeaderSize \/ p >= b + HeaderSize + RawSize,
         p + w.len <= b + HeaderSize + n,
         live' = live \cup {[ptr |-> p, raw |-> b + HeaderSize, want |-> w]},
         UNCHANGED <<pc, cur>>
  PROVE  IInv'
  <1> DEFINE new == [ptr |-> p, raw |-> b + HeaderSize, want |-> w]
  <1>1. /\ b \in blocks /\ free[b] = TRUE /\ b \in Nat /\ size[b] \in Nat
        /\ cur = Null
    <2>1. b \in blocks /\ free[b] BY DEF FirstFit, Fits
    <2> QED BY <2>1, BlockFacts DEF IInv, Owned, TypeOK
  <1>2. TakeResult(b, n, FALSE)
    BY TakeSound DEF IInv
  <1>3. /\ MemTypes' /\ Tiling' /\ b \in blocks' /\ size'[b] >= RoundUp(n)
        /\ free'[b] = FALSE
        /\ \A c \in blocks \ {b} : /\ c \in blocks' /\ free'[c] = free[c]
                                   /\ next'[c] = next[c] /\ End(c)' = End(c)
    BY <1>2 DEF TakeResult
  <1>4. RoundUp(n) \in Nat /\ RoundUp(n) >= n
    BY RoundUpFacts
  <1>5. w.len \in Nat /\ size'[b] \in Nat
    BY <1>1, <1>3, AlignedRequestAssumption, RequestAssumption, RegionAssumption
       DEF Wants, Plain, Gran, MemTypes, TypeOK, IInv
  <1>6. TypeOK'
    <2>1. new \in [ptr : Nat, raw : Nat, want : Wants]
      BY <1>1 DEF HeaderSize
    <2> QED BY <2>1, <1>1, <1>3 DEF IInv, TypeOK, MemTypes
  <1>7. Coalesced'
    <2> SUFFICES ASSUME NEW c \in blocks', next'[c] # Null, free'[c], free'[next'[c]]
                 PROVE  FALSE
      BY DEF Coalesced
    <2>1. c # b /\ next'[c] # b
      BY <1>3
    <2>2. \A x \in blocks : next[x] # Null => next[x] \in blocks /\ ~ (free[x] /\ free[next[x]])
      BY BlockFacts DEF IInv, Coalesced
    <2>3. CASE c \in blocks
      BY <2>1, <2>2, <2>3, <1>3
    <2>4. CASE c \notin blocks
      <3>1. next'[c] = next[b]
        BY <2>4, <1>2 DEF TakeResult
      <3>2. next[b] # b /\ next[b] \in blocks
        BY <3>1, <2>1, <2>2, <1>1
      <3> QED BY <3>1, <3>2, <2>2, <1>1, <1>3
    <2> QED BY <2>3, <2>4
  <1>8. {c \in blocks' : ~ free'[c]} = {c \in blocks : ~ free[c]} \cup {b}
    BY <1>1, <1>3, <1>2 DEF TakeResult
  <1>9. \A r \in live : r.raw # b + HeaderSize
    <2>1. \A r \in live : r.raw - HeaderSize # b /\ r.raw \in Nat
      BY OwnerFacts, <1>1
    <2> QED BY <2>1, <1>1 DEF HeaderSize
  <1>10. Owned'
    <2>1. {r.raw : r \in live'} = {r.raw : r \in live} \cup {b + HeaderSize}
      <3>1. live' = live \cup {new} /\ new.raw = b + HeaderSize
        OBVIOUS
      <3> HIDE DEF new
      <3> QED BY <3>1
    <2>2. {c + HeaderSize : c \in {d \in blocks' : ~ free'[d]}}
            = {c + HeaderSize : c \in {d \in blocks : ~ free[d]}} \cup {b + HeaderSize}
      BY <1>8
    <2>3. \A r, s \in live' : r.raw = s.raw => r = s
      BY <1>9 DEF IInv, Owned
    <2> QED BY <2>1, <2>2, <2>3, <1>1 DEF IInv, Owned
  <1>11. Inside'
    <2>1. ASSUME NEW r \in live
          PROVE  r.ptr + r.want.len <= End(r.raw - HeaderSize)'
      <3>1. End(r.raw - HeaderSize)' = End(r.raw - HeaderSize)
        BY OwnerFacts, <1>1, <1>3
      <3> QED BY <3>1 DEF IInv, Inside
    <2>2. b + HeaderSize - HeaderSize = b
      BY <1>1 DEF HeaderSize
    <2>3. End(b)' = b + HeaderSize + size'[b]
      BY DEF End
    <2>4. p + w.len <= End(b)'
      BY <2>3, <1>1, <1>3, <1>4, <1>5 DEF HeaderSize
    <2>5. new.ptr + new.want.len <= End(new.raw - HeaderSize)'
      <3>1. new.ptr = p /\ new.want = w /\ new.raw = b + HeaderSize
        OBVIOUS
      <3> HIDE DEF new
      <3>2. new.raw - HeaderSize = b BY <1>1, <3>1 DEF HeaderSize
      <3>3. End(new.raw - HeaderSize)' = End(b)' BY <3>2
      <3> QED BY <2>4, <3>1, <3>3
    <2>6. new.ptr = new.raw \/ new.ptr >= new.raw + RawSize
      OBVIOUS
    <2> QED BY <2>1, <2>5, <2>6 DEF IInv, Inside
  <1> QED BY <1>3, <1>6, <1>7, <1>10, <1>11 DEF IInv

\* A malloc_boundry that gives its raw block back: the block is taken and free
\* again, and free() goes on to merge it.
LEMMA MisplacedSound ==
  ASSUME IInv, NEW q \in AlignedRequests, MallocMisplaced(q)
  PROVE  IInv'
  <1>1. PICK b \in blocks : /\ FirstFit(b, Total(q)) /\ Take(b, Total(q), TRUE)
                            /\ cur' = b
    BY DEF MallocMisplaced
  <1>2. pc = "idle" /\ pc' = "right" /\ live' = live
    BY DEF MallocMisplaced
  <1>3. Total(q) \in 0 .. Word - Gran
    BY AlignedRequestAssumption DEF Total
  <1>4. TakeResult(b, Total(q), TRUE)
    BY <1>1, <1>3, TakeSound DEF IInv
  <1>5. /\ MemTypes' /\ Tiling' /\ b \in blocks' /\ free'[b]
        /\ \A c \in blocks \ {b} : /\ c \in blocks' /\ free'[c] = free[c]
                                   /\ next'[c] = next[c] /\ End(c)' = End(c)
    BY <1>4 DEF TakeResult
  <1>6. free[b] BY <1>1 DEF FirstFit, Fits
  <1>7. TypeOK'
    BY <1>1, <1>2, <1>5 DEF IInv, TypeOK, MemTypes
  <1>8. Coalesced'
    <2> SUFFICES ASSUME NEW c \in blocks', next'[c] # Null, free'[c], free'[next'[c]],
                        b # c, b # next'[c]
                 PROVE  FALSE
      BY <1>1, <1>2 DEF Coalesced
    <2>1. \A x \in blocks : next[x] # Null => next[x] \in blocks /\ ~ (free[x] /\ free[next[x]])
      BY BlockFacts, <1>2 DEF IInv, Coalesced
    <2>2. CASE c \in blocks
      BY <2>1, <2>2, <1>5
    <2>3. CASE c \notin blocks
      <3>1. next'[c] = next[b]
        BY <2>3, <1>4 DEF TakeResult
      <3> QED BY <3>1, <2>1, <1>1, <1>5, <1>6
    <2> QED BY <2>2, <2>3
  <1>9. {c \in blocks' : ~ free'[c]} = {c \in blocks : ~ free[c]}
    BY <1>4, <1>5, <1>6 DEF TakeResult
  <1>10. Owned'
    BY <1>1, <1>2, <1>5, <1>9 DEF IInv, Owned
  <1>11. Inside'
    <2>1. ASSUME NEW r \in live
          PROVE  End(r.raw - HeaderSize)' = End(r.raw - HeaderSize)
      BY OwnerFacts, <1>5, <1>6
    <2> QED BY <2>1, <1>2 DEF IInv, Inside
  <1> QED BY <1>5, <1>7, <1>8, <1>10, <1>11 DEF IInv

\* free marks the block of a client free; nothing moves yet.
LEMMA FreeSound ==
  ASSUME IInv, NEW r \in live, Free(r)
  PROVE  IInv'
  <1> DEFINE b == r.raw - HeaderSize
  <1>1. /\ pc = "idle" /\ pc' = "right" /\ cur' = b /\ live' = live \ {r}
        /\ free' = [free EXCEPT ![b] = TRUE]
        /\ UNCHANGED <<size, next, prev, blocks>>
    BY DEF Free
  <1>2. b \in blocks /\ b \in Addr /\ ~ free[b] /\ r.raw = b + HeaderSize
    BY OwnerFacts DEF IInv, TypeOK, HeaderSize
  <1>3. free'[b] /\ \A c \in blocks \ {b} : free'[c] = free[c]
    BY <1>1, <1>2 DEF IInv, TypeOK
  <1>4. TypeOK'
    BY <1>1, <1>2 DEF IInv, TypeOK
  <1>5. \A c : (Linked(c)' <=> Linked(c)) /\ End(c)' = End(c)
    BY <1>1 DEF Linked, End
  <1>6. Tiling'
    BY <1>1, <1>5 DEF IInv, Tiling
  <1>7. Coalesced'
    <2> SUFFICES ASSUME NEW c \in blocks, next[c] # Null, free'[c], free'[next[c]],
                        b # c, b # next[c]
                 PROVE  FALSE
      BY <1>1 DEF Coalesced
    <2> QED BY <1>1, <1>3, BlockFacts DEF IInv, Coalesced
  <1>8. \A s \in live' : s \in live /\ s.raw # r.raw
    BY <1>1 DEF IInv, Owned
  <1>9. {c \in blocks' : ~ free'[c]} = {c \in blocks : ~ free[c]} \ {b}
    BY <1>1, <1>2, <1>3
  <1>10. Owned'
    <2>1. {s.raw : s \in live'} = {s.raw : s \in live} \ {r.raw}
      BY <1>1, <1>8
    <2>2. {c + HeaderSize : c \in {d \in blocks' : ~ free'[d]}}
            = {c + HeaderSize : c \in {d \in blocks : ~ free[d]}} \ {b + HeaderSize}
      <3>1. \A c \in blocks : c \in Nat BY BlockFacts DEF IInv
      <3>2. \A c \in blocks : c + HeaderSize = b + HeaderSize => c = b
        <4> HIDE DEF b
        <4> QED BY <3>1, <1>2 DEF HeaderSize
      <3> HIDE DEF b
      <3> QED BY <1>9, <1>2, <3>2
    <2> QED BY <2>1, <2>2, <1>1, <1>2, <1>3, <1>8 DEF IInv, Owned
  <1>11. Inside'
    BY <1>5, <1>8 DEF IInv, Inside
  <1> QED BY <1>4, <1>6, <1>7, <1>10, <1>11 DEF IInv

\* A merge loop absorbs free blocks only, so no client's block moves.
LEMMA AbsorbFree ==
  ASSUME IInv, NEW b \in blocks, next[b] # Null, free[b], free[next[b]],
         Absorb(b, next[b]), live' = live
  PROVE  /\ MemTypes' /\ Tiling' /\ Inside'
         /\ blocks' = blocks \ {next[b]} /\ next[b] \in blocks /\ b # next[b]
         /\ \A c \in blocks' : free'[c] = free[c]
         /\ next'[b] = next[next[b]]
         /\ \A c \in blocks' : c # b => next'[c] = next[c]
         /\ {c \in blocks' : ~ free'[c]} = {c \in blocks : ~ free[c]}
  <1> DEFINE n == next[b]
  <1>1. n \in blocks /\ n # b /\ b \in Addr /\ n \in Addr
    BY BlockFacts DEF IInv, TypeOK
  <1>2. /\ MemTypes' /\ Tiling'
        /\ \A c \in blocks' : c # b => End(c)' = End(c)
    BY AbsorbSound DEF IInv
  <1>3. /\ blocks' = blocks \ {n}
        /\ free' = [free EXCEPT ![n] = FALSE]
        /\ next' = [next EXCEPT ![b] = next[n], ![n] = Null]
    BY DEF Absorb
  <1>4. \A c \in blocks' : free'[c] = free[c]
    BY <1>3 DEF IInv, TypeOK
  <1>5. \A c \in blocks' : c # b => next'[c] = next[c]
    BY <1>3 DEF IInv, TypeOK
  <1>6. next'[b] = next[n]
    BY <1>1, <1>3 DEF IInv, TypeOK
  <1>7. {c \in blocks' : ~ free'[c]} = {c \in blocks : ~ free[c]}
    BY <1>3, <1>4
  <1>8. Inside'
    <2>1. ASSUME NEW r \in live
          PROVE  End(r.raw - HeaderSize)' = End(r.raw - HeaderSize)
      BY OwnerFacts, <1>2, <1>3
    <2> QED BY <2>1 DEF IInv, Inside
  <1> QED BY <1>1, <1>2, <1>3, <1>4, <1>5, <1>6, <1>7, <1>8

LEMMA MergeRightSound ==
  ASSUME IInv, MergeRight
  PROVE  IInv'
  <1>1. /\ pc = "right" /\ pc' = pc /\ cur' = cur /\ live' = live
        /\ next[cur] # Null /\ free[next[cur]] /\ Absorb(cur, next[cur])
    BY DEF MergeRight, RightFree
  <1>2. cur \in blocks /\ free[cur]
    BY <1>1 DEF IInv, Owned
  <1>3. /\ MemTypes' /\ Tiling' /\ Inside'
        /\ blocks' = blocks \ {next[cur]} /\ cur # next[cur]
        /\ \A c \in blocks' : free'[c] = free[c]
        /\ \A c \in blocks' : c # cur => next'[c] = next[c]
        /\ {c \in blocks' : ~ free'[c]} = {c \in blocks : ~ free[c]}
    BY <1>1, <1>2, AbsorbFree
  <1>4. TypeOK'
    BY <1>1, <1>2, <1>3 DEF IInv, TypeOK, MemTypes
  <1>5. Owned'
    BY <1>1, <1>2, <1>3 DEF IInv, Owned
  <1>6. Coalesced'
    <2> SUFFICES ASSUME NEW c \in blocks', next'[c] # Null, free'[c], free'[next'[c]],
                        cur # c, cur # next'[c]
                 PROVE  FALSE
      BY <1>1 DEF Coalesced
    <2>1. next'[c] = next[c] /\ next[c] \in blocks'
      BY <1>3 DEF Tiling, Linked
    <2> QED BY <2>1, <1>1, <1>3 DEF IInv, Coalesced
  <1> QED BY <1>3, <1>4, <1>5, <1>6 DEF IInv

LEMMA MergeLeftSound ==
  ASSUME IInv, MergeLeft
  PROVE  IInv'
  <1> DEFINE b == prev[cur]
  <1>1. /\ pc = "left" /\ pc' = pc /\ cur' = b /\ live' = live
        /\ b # Null /\ free[b] /\ Absorb(b, cur)
    BY DEF MergeLeft, LeftFree
  <1>2. cur \in blocks /\ free[cur] /\ cur # Null
    BY <1>1, RegionAssumption DEF IInv, Owned, TypeOK, Addr, Null, HeapEnd
  <1>3. b \in blocks /\ next[b] = cur
    BY <1>1, <1>2, BlockFacts DEF IInv
  <1>4. /\ MemTypes' /\ Tiling' /\ Inside'
        /\ blocks' = blocks \ {cur} /\ b # cur
        /\ \A c \in blocks' : free'[c] = free[c]
        /\ next'[b] = next[cur]
        /\ \A c \in blocks' : c # b => next'[c] = next[c]
        /\ {c \in blocks' : ~ free'[c]} = {c \in blocks : ~ free[c]}
    BY <1>1, <1>2, <1>3, AbsorbFree
  <1>5. TypeOK'
    BY <1>1, <1>3, <1>4 DEF IInv, TypeOK, MemTypes
  <1>6. Owned'
    BY <1>1, <1>3, <1>4 DEF IInv, Owned
  <1>7. Coalesced'
    <2> SUFFICES ASSUME NEW c \in blocks', next'[c] # Null, free'[c], free'[next'[c]],
                        next'[c] # b
                 PROVE  FALSE
      BY <1>1 DEF Coalesced
    <2>1. next'[c] \in blocks'
      BY <1>4 DEF Tiling, Linked
    <2>2. CASE c = b
      <3>1. free[next[cur]] /\ next[cur] # Null /\ next[cur] \in blocks
        BY <2>1, <2>2, <1>4
      <3>2. next[cur] # cur BY <3>1, BlockFacts, <1>2 DEF IInv
      <3> QED BY <3>1, <3>2, <1>1, <1>2 DEF IInv, Coalesced
    <2>3. CASE c # b
      <3>1. next'[c] = next[c] /\ next[c] # cur
        BY <2>1, <2>3, <1>4
      <3> QED BY <2>1, <3>1, <1>1, <1>4 DEF IInv, Coalesced
    <2> QED BY <2>2, <2>3
  <1> QED BY <1>4, <1>5, <1>6, <1>7 DEF IInv

\* The ends of the loops change no header; what they know is that the
\* neighbour is not free.
LEMMA LoopExitSound ==
  ASSUME IInv, RightDone \/ FreeReturn
  PROVE  IInv'
  <1>1. UNCHANGED <<size, free, next, prev, blocks, live>>
    BY DEF RightDone, FreeReturn, mem
  <1>2. cur \in blocks /\ free[cur]
    BY DEF IInv, Owned, RightDone, FreeReturn
  <1>3. \A c : (Linked(c)' <=> Linked(c)) /\ End(c)' = End(c)
    BY <1>1 DEF Linked, End
  <1>4. Tiling' /\ Inside'
    BY <1>1, <1>3 DEF IInv, Tiling, Inside
  <1>5. CASE RightDone
    <2>1. pc = "right" /\ pc' = "left" /\ cur' = cur /\ ~ RightFree
      BY <1>5 DEF RightDone
    <2> QED BY <1>1, <1>2, <1>4, <2>1
            DEF IInv, TypeOK, Owned, Coalesced, RightFree
  <1>6. CASE FreeReturn
    <2>1. pc = "left" /\ pc' = "idle" /\ cur' = Null /\ ~ LeftFree
      BY <1>6 DEF FreeReturn
    <2>2. Coalesced'
      <3> SUFFICES ASSUME NEW c \in blocks, next[c] # Null, free[c], free[next[c]]
                   PROVE  FALSE
        BY <1>1 DEF Coalesced
      <3>1. cur = next[c] BY <2>1 DEF IInv, Coalesced
      <3>2. prev[cur] = c BY <3>1, BlockFacts DEF IInv
      <3>3. c # Null BY RegionAssumption DEF IInv, TypeOK, Addr, Null, HeapEnd
      <3> QED BY <2>1, <3>2, <3>3 DEF LeftFree
    <2> QED BY <1>1, <1>4, <2>1, <2>2 DEF IInv, TypeOK, Owned
  <1> QED BY <1>5, <1>6

LEMMA InitSound == Init => IInv
  <1> SUFFICES ASSUME Init PROVE IInv
    OBVIOUS
  <1>1. HeapStart \in Addr /\ Null \notin Addr
    BY RegionAssumption DEF Addr, Null, HeapEnd, HeaderSize
  <1>2. HeapSize - HeaderSize \in Nat
    BY RegionAssumption DEF HeaderSize
  <1>3. TypeOK
    BY <1>1, <1>2 DEF Init, TypeOK
  <1>4. /\ next[HeapStart] = Null /\ prev[HeapStart] = Null
        /\ free[HeapStart] = TRUE /\ size[HeapStart] = HeapSize - HeaderSize
        /\ blocks = {HeapStart} /\ live = {}
    BY <1>1 DEF Init
  <1>5. End(HeapStart) = HeapEnd
    BY <1>4, RegionAssumption DEF End, HeapEnd, HeaderSize
  <1>6. Tiling
    <2>1. ~ (HeapStart < HeapStart) BY RegionAssumption
    <2> QED BY <1>4, <1>5, <2>1 DEF Tiling, Linked
  <1>7. Coalesced /\ Inside
    BY <1>4 DEF Coalesced, Inside
  <1>8. Owned
    BY <1>4 DEF Owned, Init
  <1> QED BY <1>3, <1>6, <1>7, <1>8 DEF IInv

LEMMA StepSound == IInv /\ [Next]_vars => IInv'
  <1> SUFFICES ASSUME IInv, [Next]_vars PROVE IInv'
    OBVIOUS
  <1>1. ASSUME NEW n \in Requests, Malloc(n) PROVE IInv'
    <2>1. PICK b \in blocks :
            /\ FirstFit(b, n) /\ Take(b, n, FALSE)
            /\ live' = live \cup {[ptr |-> b + HeaderSize, raw |-> b + HeaderSize,
                                   want |-> Plain(n)]}
      BY <1>1 DEF Malloc
    <2>2. n \in 0 .. Word - Gran /\ Plain(n) \in Wants /\ Plain(n).len = n
      BY RequestAssumption DEF Wants, Plain
    <2>3. b \in Nat /\ b + HeaderSize \in Nat
      BY BlockFacts DEF IInv, HeaderSize
    <2>4. b + HeaderSize + Plain(n).len <= b + HeaderSize + n
      BY <2>2, <2>3 DEF HeaderSize
    <2>5. pc = "idle" /\ UNCHANGED <<pc, cur>>
      BY <1>1 DEF Malloc
    <2> QED BY <2>1, <2>2, <2>3, <2>4, <2>5, NewObject
  <1>2. ASSUME NEW q \in AlignedRequests, MallocAligned(q) PROVE IInv'
    <2>1. PICK b \in blocks :
            /\ FirstFit(b, Total(q)) /\ Take(b, Total(q), FALSE)
            /\ ~ Misplaced(b + HeaderSize, q)
            /\ live' = live \cup {[ptr |-> Place(b + HeaderSize, q),
                                   raw |-> b + HeaderSize, want |-> q]}
      BY <1>2 DEF MallocAligned
    <2>2. Total(q) \in 0 .. Word - Gran /\ q \in Wants
      BY AlignedRequestAssumption DEF Total, Wants
    <2>3. b + HeaderSize \in Nat
      BY BlockFacts DEF IInv, HeaderSize
    <2>4. /\ Place(b + HeaderSize, q) \in Nat
          /\ Place(b + HeaderSize, q) >= b + HeaderSize + RawSize
          /\ Place(b + HeaderSize, q) + q.len <= b + HeaderSize + Total(q)
      BY <2>1, <2>3, PlaceFacts
    <2>5. pc = "idle" /\ UNCHANGED <<pc, cur>>
      BY <1>2 DEF MallocAligned
    <2> QED BY <2>1, <2>2, <2>3, <2>4, <2>5, NewObject
  <1>3. ASSUME NEW q \in AlignedRequests, MallocMisplaced(q) PROVE IInv'
    BY <1>3, MisplacedSound
  <1>4. ASSUME NEW r \in live, Free(r) PROVE IInv'
    BY <1>4, FreeSound
  <1>5. CASE Merging
    BY <1>5, MergeRightSound, MergeLeftSound, LoopExitSound DEF Merging
  <1>6. CASE UNCHANGED vars
    BY <1>6 DEF vars, IInv, TypeOK, Tiling, Linked, End, Coalesced, Owned, Inside
  <1> QED BY <1>1, <1>2, <1>3, <1>4, <1>5, <1>6 DEF Next

-----------------------------------------------------------------------------
(* The theorems.                                                           *)

\* The inductive invariant: the headers of heap.cpp have their types, tile the
\* region, are coalesced and are owned as the code intends, in every state.
THEOREM HeapInvariant == Spec => []IInv
  BY InitSound, StepSound, PTL DEF Spec

\* The fields of the headers and the progress of free() keep their types.
THEOREM TypeTheorem == Spec => []TypeOK
  BY HeapInvariant, PTL DEF IInv

\* In every state the blocks tile the heap: no byte is lost, none is in two
\* blocks, whatever the clients ask for and in whatever order they free it.
THEOREM TilingTheorem == Spec => []Tiling
  BY HeapInvariant, PTL DEF IInv

\* Whenever free() has returned no two neighbouring blocks are both free.
THEOREM CoalescedTheorem == Spec => []Coalesced
  BY HeapInvariant, PTL DEF IInv

\* Every used block belongs to exactly one pointer a client holds.
THEOREM OwnedTheorem == Spec => []Owned
  BY HeapInvariant, PTL DEF IInv

\* Every object lies in the payload of its own block.
THEOREM InsideTheorem == Spec => []Inside
  BY HeapInvariant, PTL DEF IInv

\* A heap whose clients have given everything back is the one block that
\* heap_init made.
THEOREM PristineTheorem == Spec => []Pristine
  <1>1. IInv => Pristine
    <2> SUFFICES ASSUME IInv, pc = "idle", live = {}
                 PROVE  blocks = {HeapStart} /\ size[HeapStart] = HeapSize - HeaderSize
      BY DEF Pristine
    <2>1. \A b \in blocks : free[b]
      BY DEF IInv, Owned
    <2>2. \A b \in blocks : next[b] = Null
      BY <2>1, BlockFacts DEF IInv, Coalesced
    <2>3. \A b \in blocks : b # Null
      BY RegionAssumption DEF IInv, TypeOK, Addr, Null, HeapEnd
    <2>4. \A b \in blocks : b = HeapStart
      BY <2>2, <2>3, BlockFacts DEF IInv
    <2>5. HeapStart \in blocks /\ End(HeapStart) = HeapEnd /\ size[HeapStart] \in Nat
      BY <2>2, BlockFacts DEF IInv, Tiling, Linked
    <2>6. size[HeapStart] = HeapSize - HeaderSize
      BY <2>5, RegionAssumption DEF End, HeapEnd, HeaderSize
    <2>7. blocks = {HeapStart}
      BY <2>4, <2>5
    <2> QED BY <2>6, <2>7
  <1> QED BY <1>1, HeapInvariant, PTL

-----------------------------------------------------------------------------
(* The heap implements the allocator.                                      *)

\* The objects of two clients are apart, by at least the header between them.
LEMMA LiveApart ==
  ASSUME IInv, NEW r \in live, NEW s \in live, r # s
  PROVE  r.ptr + r.want.len < s.ptr \/ s.ptr + s.want.len < r.ptr
  <1> DEFINE a == r.raw - HeaderSize
             b == s.raw - HeaderSize
  <1>1. /\ a \in blocks /\ b \in blocks /\ a \in Nat /\ b \in Nat
        /\ r.ptr \in Nat /\ r.want.len \in Nat /\ r.raw \in Nat
        /\ s.ptr \in Nat /\ s.want.len \in Nat /\ s.raw \in Nat
    BY OwnerFacts, BlockFacts DEF IInv
  <1>2. /\ r.ptr + r.want.len <= End(a) /\ r.ptr >= r.raw
        /\ s.ptr + s.want.len <= End(b) /\ s.ptr >= s.raw
    BY <1>1 DEF IInv, Inside, RawSize
  <1>3. r.raw = a + HeaderSize /\ s.raw = b + HeaderSize /\ r.raw # s.raw
    BY <1>1 DEF IInv, Owned, HeaderSize
  <1>4. End(a) \in Nat /\ End(b) \in Nat
    BY <1>1, BlockFacts DEF IInv
  <1>5. a < b \/ b < a
    BY <1>1, <1>3 DEF HeaderSize
  <1>6. End(a) <= b \/ End(b) <= a
    BY <1>1, <1>5 DEF IInv, Tiling
  <1> HIDE DEF a, b
  <1> QED BY <1>1, <1>2, <1>3, <1>4, <1>6 DEF HeaderSize

Apart ==
  /\ \A r, s \in live :
       r # s => r.ptr + r.want.len < s.ptr \/ s.ptr + s.want.len < r.ptr
  /\ \A r \in live : /\ r.raw - HeaderSize \in blocks
                     /\ r.raw \in Nat /\ r.ptr \in Nat /\ r.want.len \in Nat
  /\ \A b \in blocks : b >= HeapStart /\ End(b) \in Nat /\ End(b) <= HeapEnd

\* The above for the state after a step, too.
LEMMA ApartFacts == IInv => Apart
  <1> SUFFICES ASSUME IInv PROVE Apart
    OBVIOUS
  <1> QED BY LiveApart, OwnerFacts, BlockFacts DEF Apart, IInv

Held == {[ptr |-> r.ptr, want |-> r.want] : r \in live}

\* A malloc that returns a pointer is an Alloc: the object lies in the region
\* and apart from the objects that were there before.
LEMMA ObjectAllocated ==
  ASSUME IInv, IInv', NEW p \in Nat, NEW raw \in Nat, NEW w \in Wants,
         p % w.align = 0,
         w.boundary # 0 /\ w.len # 0 =>
           p \div w.boundary = (p + w.len - 1) \div w.boundary,
         live' = live \cup {[ptr |-> p, raw |-> raw, want |-> w]},
         \A r \in live : r.raw # raw
  PROVE  A!AllocNext
  <1> DEFINE new == [ptr |-> p, raw |-> raw, want |-> w]
  <1>0. Apart'
    BY ApartFacts, PTL
  <1>1. new \in live' /\ new \notin live
    OBVIOUS
  <1>2. /\ raw - HeaderSize \in blocks' /\ w.len \in Nat
        /\ p + w.len <= End(raw - HeaderSize)' /\ p >= raw
    <2>1. new.raw - HeaderSize \in blocks' /\ new.want.len \in Nat
      BY <1>0, <1>1 DEF Apart
    <2>2. /\ new.ptr + new.want.len <= End(new.raw - HeaderSize)'
          /\ new.ptr = new.raw \/ new.ptr >= new.raw + RawSize
      BY <1>1 DEF IInv, Inside
    <2>3. new.raw = raw /\ new.ptr = p /\ new.want = w
      OBVIOUS
    <2> HIDE DEF new
    <2> QED BY <2>1, <2>2, <2>3 DEF RawSize
  <1>3. /\ End(raw - HeaderSize)' <= HeapEnd /\ raw - HeaderSize >= HeapStart
        /\ End(raw - HeaderSize)' \in Nat
    BY <1>0, <1>2 DEF Apart
  <1>4. HeapStart <= p /\ p + w.len <= HeapEnd /\ p \in HeapStart .. HeapEnd
    BY <1>2, <1>3, RegionAssumption DEF HeaderSize, HeapEnd
  <1>5. A!Serves(p, w)
    BY <1>4 DEF A!Serves
  <1>6. \A r \in live : r.ptr # p /\ (p + w.len <= r.ptr \/ r.ptr + r.want.len <= p)
    <2> SUFFICES ASSUME NEW r \in live
                 PROVE  r.ptr # p /\ (p + w.len <= r.ptr \/ r.ptr + r.want.len <= p)
      OBVIOUS
    <2>1. r \in live' /\ r # new
      BY <1>1
    <2>2. r.ptr + r.want.len < new.ptr \/ new.ptr + new.want.len < r.ptr
      BY <1>0, <2>1, <1>1 DEF Apart
    <2>3. new.ptr = p /\ new.want = w
      OBVIOUS
    <2>4. r.ptr \in Nat /\ r.want.len \in Nat
      BY OwnerFacts
    <2> HIDE DEF new
    <2> QED BY <2>2, <2>3, <2>4, <1>2
  <1>7. Held' = Held \cup {[ptr |-> p, want |-> w]}
    <2>1. live' = live \cup {new} /\ new.ptr = p /\ new.want = w
      OBVIOUS
    <2> HIDE DEF new
    <2> QED BY <2>1 DEF Held
  <1>8. A!Alloc(w, p)
    BY <1>5, <1>6, <1>7 DEF A!Alloc, A!Disjoint, Held
  <1> QED BY <1>4, <1>8 DEF A!AllocNext

LEMMA FreeReleases ==
  ASSUME IInv, NEW r \in live, Free(r)
  PROVE  A!AllocNext
  <1> DEFINE h == [ptr |-> r.ptr, want |-> r.want]
  <1>1. live' = live \ {r}
    BY DEF Free
  <1>2. h \in Held /\ h.ptr = r.ptr
    BY DEF Held
  <1>3. ASSUME NEW s \in live, s # r PROVE s.ptr # r.ptr
    <2>1. Apart BY ApartFacts
    <2> QED BY <2>1, <1>3 DEF Apart
  <1>4. Held' = Held \ {h}
    <2>1. \A x : x \in Held' => x \in Held /\ x # h
      BY <1>1, <1>3 DEF Held
    <2>2. \A x : x \in Held /\ x # h => x \in Held'
      BY <1>1 DEF Held
    <2> QED BY <2>1, <2>2
  <1> HIDE DEF h
  <1>5. A!Release(h)
    BY <1>4 DEF A!Release, Held
  <1> QED BY <1>2, <1>5 DEF A!AllocNext, Held

LEMMA StepAllocates == IInv /\ IInv' /\ [Next]_vars => [A!AllocNext]_Held
  <1> SUFFICES ASSUME IInv, IInv', [Next]_vars PROVE A!AllocNext \/ Held' = Held
    OBVIOUS
  <1>0. live' = live => Held' = Held
    BY DEF Held
  <1>1. ASSUME NEW n, NEW b \in blocks, FirstFit(b, n), NEW r \in live
        PROVE  r.raw # b + HeaderSize
    <2>1. free[b] /\ b \in Nat
      BY <1>1, BlockFacts DEF FirstFit, Fits, IInv
    <2>2. ~ free[r.raw - HeaderSize] /\ r.raw \in Nat
      BY OwnerFacts
    <2> QED BY <2>1, <2>2 DEF HeaderSize
  <1>2. ASSUME NEW n \in Requests, Malloc(n) PROVE A!AllocNext
    <2>1. PICK b \in blocks :
            /\ FirstFit(b, n)
            /\ live' = live \cup {[ptr |-> b + HeaderSize, raw |-> b + HeaderSize,
                                   want |-> Plain(n)]}
      BY <1>2 DEF Malloc
    <2>2. b \in Nat /\ b % Gran = 0
      BY BlockFacts DEF IInv
    <2>3. b + HeaderSize \in Nat /\ (b + HeaderSize) % Gran = 0
      BY <2>2 DEF HeaderSize, Gran
    <2>4. Plain(n) \in Wants /\ Plain(n).align = Gran /\ Plain(n).boundary = 0
      BY DEF Wants, Plain
    <2> QED BY <2>1, <2>3, <2>4, <1>1, ObjectAllocated
  <1>3. ASSUME NEW q \in AlignedRequests, MallocAligned(q) PROVE A!AllocNext
    <2>1. PICK b \in blocks :
            /\ FirstFit(b, Total(q)) /\ ~ Misplaced(b + HeaderSize, q)
            /\ live' = live \cup {[ptr |-> Place(b + HeaderSize, q),
                                   raw |-> b + HeaderSize, want |-> q]}
      BY <1>3 DEF MallocAligned
    <2>2. b + HeaderSize \in Nat
      BY BlockFacts DEF IInv, HeaderSize
    <2>3. /\ Place(b + HeaderSize, q) \in Nat
          /\ Place(b + HeaderSize, q) % q.align = 0
          /\ q.boundary # 0 => ~ Crosses(Place(b + HeaderSize, q), q)
      BY <2>1, <2>2, PlaceFacts
    <2>4. q \in Wants BY DEF Wants
    <2> DEFINE p == Place(b + HeaderSize, q)
    <2>5. q.boundary # 0 => p \div q.boundary = (p + q.len - 1) \div q.boundary
      BY <2>3 DEF Crosses
    <2> HIDE DEF p
    <2> QED BY <2>1, <2>2, <2>3, <2>4, <2>5, <1>1, ObjectAllocated DEF p
  <1>4. ASSUME NEW q \in AlignedRequests, MallocMisplaced(q) PROVE Held' = Held
    BY <1>0, <1>4 DEF MallocMisplaced
  <1>5. ASSUME NEW r \in live, Free(r) PROVE A!AllocNext
    BY <1>5, FreeReleases
  <1>6. CASE Merging
    BY <1>0, <1>6 DEF Merging, MergeRight, RightDone, MergeLeft, FreeReturn
  <1>7. CASE UNCHANGED vars
    BY <1>0, <1>7 DEF vars
  <1> QED BY <1>2, <1>3, <1>4, <1>5, <1>6, <1>7 DEF Next

\* The block allocator of heap.cpp implements the abstract allocator: what
\* callers hold is aligned, inside the region and never shared.
THEOREM HeapImplementsAllocator == Spec => Allocates
  <1>1. Init => A!AllocInit
    BY DEF Init, A!AllocInit
  <1>2. IInv /\ IInv' /\ [Next]_vars => [A!AllocNext]_Held
    BY StepAllocates
  <1> QED BY <1>1, <1>2, HeapInvariant, PTL DEF Spec, Allocates, A!AllocSpec, Held
=============================================================================
