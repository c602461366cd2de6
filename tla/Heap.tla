-------------------------------- MODULE Heap --------------------------------
(***************************************************************************)
(* The kernel heap (src/src/kernel/Memory/heap.cpp): a first-fit block     *)
(* allocator.  Every block starts with a header (size, free, next, prev)   *)
(* that lives in the heap memory itself; malloc splits a free block, free  *)
(* coalesces with the right and then the left neighbours in two loops.     *)
(*                                                                         *)
(* Addresses are bytes.  The four fields of Block are functions over every *)
(* place a header can lie.  A header that is merged away is payload from   *)
(* then on: its bytes are dead, and 0 in the model.                        *)
(***************************************************************************)
EXTENDS Integers, FiniteSets

CONSTANTS
  HeapStart, HeapSize, \* the region handed to heap_init
  Word,                \* 2^64: one more than the largest size_t
  Requests,            \* sizes clients pass to malloc
  AlignedRequests      \* [len, align, boundary] passed to malloc_align
                       \* (boundary 0) or to malloc_boundry (boundary # 0)

HeaderSize == 32  \* sizeof(Block), alignas(16)
Gran       == 16  \* granularity of payload sizes
RawSize    == 8   \* sizeof(AlignHeader)
Null       == 0   \* nullptr

HeapEnd == HeapStart + HeapSize

\* Where a Block, which is alignas(16), can lie.
Addr == {a \in HeapStart .. HeapEnd - 1 : a % Gran = 0}

ASSUME RegionAssumption ==
  /\ HeapStart \in Nat \ {0} /\ HeapStart % Gran = 0
  /\ HeapSize \in Nat /\ HeapSize >= HeaderSize
  /\ Word \in Nat /\ HeapEnd < Word
\* No caller passes a size within 16 bytes of 2^64 to malloc.
ASSUME RequestAssumption == Requests \subseteq 0 .. Word - Gran
\* Nor does one ask for an alignment that is stricter than its boundary.
ASSUME AlignedRequestAssumption ==
  \A q \in AlignedRequests :
    /\ q \in [len : Nat, align : Nat \ {0}, boundary : Nat]
    /\ q.len + q.align + q.boundary + RawSize \in 0 .. Word - Gran
    /\ q.boundary # 0 => q.boundary % q.align = 0

VARIABLES
  size, free, next, prev,  \* the fields of Block, by header address
  blocks,                  \* the headers on the list that starts at heap_head
  live,                    \* what the clients hold: [ptr, raw, want], where
                           \* raw is what malloc returned
  pc, cur                  \* progress of free(): its loop and its old_block

mem  == <<size, free, next, prev, blocks>>
vars == <<size, free, next, prev, blocks, live, pc, cur>>

-----------------------------------------------------------------------------
\* The definitions named Mut... are mutants of the code, for the runs' sensitivity.

(* The size computation of malloc: (size + 15) & ~15 in 64 bits.           *)
RoundUp(n) ==
  LET s == n + (Gran - 1)
  IN  ((IF s < Word THEN s ELSE s - Word) \div Gran) * Gran

(* (x + a - 1) & ~(a - 1) for a power of two a.                            *)
AlignUp(x, a) == ((x + a - 1) \div a) * a

\* malloc promises its callers the 16 bytes of alignment of Block.
Plain(n) == [len |-> n, align |-> Gran, boundary |-> 0]
Wants == AlignedRequests \cup {Plain(n) : n \in Requests}

End(b) == b + HeaderSize + size[b]

(* Where the scan of malloc stops: the first block on the list, which      *)
(* Tiling orders by address, that is free and large enough.                *)
Fits(n) == {b \in blocks : free[b] /\ size[b] >= RoundUp(n)}
FirstFit(b, n) == b \in Fits(n) /\ \A c \in Fits(n) : b <= c

Splits(b, n) == size[b] >= RoundUp(n) + HeaderSize + Gran

(* Taking block b for n bytes.  leaveFree is what b.free holds when the    *)
(* call returns: FALSE, except where the caller frees the block at once.   *)
Take(b, n, leaveFree) ==
  LET s == RoundUp(n)
      new == b + HeaderSize + s
  IN  IF Splits(b, n)
      THEN /\ size' = [size EXCEPT ![b] = s, ![new] = size[b] - s - HeaderSize]
           /\ free' = [free EXCEPT ![b] = leaveFree, ![new] = TRUE]
           /\ next' = [next EXCEPT ![b] = new, ![new] = next[b]]
           /\ prev' = [a \in Addr |-> IF a = new THEN b
                                      ELSE IF a = next[b] THEN new
                                      ELSE prev[a]]
           /\ blocks' = blocks \cup {new}
      ELSE /\ free' = [free EXCEPT ![b] = leaveFree]
           /\ UNCHANGED <<size, next, prev, blocks>>
-----------------------------------------------------------------------------
(* heap_init: one free block over the whole region.                        *)
Init ==
  /\ size = [a \in Addr |-> IF a = HeapStart THEN HeapSize - HeaderSize ELSE 0]
  /\ free = [a \in Addr |-> a = HeapStart]
  /\ next = [a \in Addr |-> Null]
  /\ prev = [a \in Addr |-> Null]
  /\ blocks = {HeapStart}
  /\ live = {}
  /\ pc = "idle"
  /\ cur = Null

(* malloc(n) that finds a block; without one it returns nullptr and the    *)
(* heap is unchanged.                                                      *)
Malloc(n) ==
  /\ pc = "idle"
  /\ \E b \in blocks :
       /\ FirstFit(b, n)
       /\ Take(b, n, FALSE)
       /\ live' = live \cup {[ptr |-> b + HeaderSize, raw |-> b + HeaderSize,
                              want |-> Plain(n)]}
  /\ UNCHANGED <<pc, cur>>

\* No room for the bytes skipped by the alignment.
MutTotal(q) == q.len + q.boundary + RawSize

(* Where malloc_align / malloc_boundry place the object in its raw block.  *)
Total(q) == q.len + q.align + q.boundary + RawSize
Crosses(a, q) == a \div q.boundary # (a + q.len - 1) \div q.boundary
NextBoundary(a, q) == ((a + q.boundary) \div q.boundary) * q.boundary
Place(raw, q) ==
  LET a == AlignUp(raw + RawSize, q.align)
  IN  IF q.boundary # 0 /\ Crosses(a, q) THEN NextBoundary(a, q) ELSE a

\* Without error #4: the second look at the boundary.
MutMisplaced(raw, q) ==
  q.boundary # 0 /\ Place(raw, q) + q.len > raw + Total(q)

(* Errors #4 and #5 of malloc_boundry: the object still crosses a boundary *)
(* or does not fit its raw block, and raw is freed again.                  *)
Misplaced(raw, q) ==
  /\ q.boundary # 0
  /\ \/ Crosses(Place(raw, q), q)
     \/ Place(raw, q) + q.len > raw + Total(q)

(* malloc_align and malloc_boundry that return a pointer.                  *)
MallocAligned(q) ==
  /\ pc = "idle"
  /\ \E b \in blocks :
       /\ FirstFit(b, Total(q))
       /\ ~ Misplaced(b + HeaderSize, q)
       /\ Take(b, Total(q), FALSE)
       /\ live' = live \cup {[ptr |-> Place(b + HeaderSize, q),
                              raw |-> b + HeaderSize, want |-> q]}
  /\ UNCHANGED <<pc, cur>>

(* malloc_boundry that gives up: it runs free(raw) and returns nullptr.    *)
MallocMisplaced(q) ==
  /\ pc = "idle"
  /\ \E b \in blocks :
       /\ FirstFit(b, Total(q))
       /\ Misplaced(b + HeaderSize, q)
       /\ Take(b, Total(q), TRUE)
       /\ cur' = b
  /\ pc' = "right"
  /\ UNCHANGED live

\* free(ptr) where free_align(ptr) was due.
MutFree(r) ==
  /\ pc = "idle"
  /\ cur' = r.ptr - HeaderSize
  /\ free' = [free EXCEPT ![r.ptr - HeaderSize] = TRUE]
  /\ live' = live \ {r}
  /\ pc' = "right"
  /\ UNCHANGED <<size, next, prev, blocks>>

(* free, free_align and free_boundry: the header is found from the pointer *)
(* (through AlignHeader for the last two) and marked free ...              *)
Free(r) ==
  /\ pc = "idle"
  /\ cur' = r.raw - HeaderSize
  /\ free' = [free EXCEPT ![r.raw - HeaderSize] = TRUE]
  /\ live' = live \ {r}
  /\ pc' = "right"
  /\ UNCHANGED <<size, next, prev, blocks>>

RightFree == next[cur] # Null /\ free[next[cur]]
LeftFree  == prev[cur] # Null /\ free[prev[cur]]

\* The successor's successor keeps its old back link.
MutAbsorbLink(b, n) ==
  /\ size' = [size EXCEPT ![b] = size[b] + size[n] + HeaderSize, ![n] = 0]
  /\ free' = [free EXCEPT ![n] = FALSE]
  /\ next' = [next EXCEPT ![b] = next[n], ![n] = Null]
  /\ prev' = [prev EXCEPT ![n] = Null]
  /\ blocks' = blocks \ {n}

(* Block b absorbs its successor n: both loops do this.                    *)
Absorb(b, n) ==
  /\ size' = [size EXCEPT ![b] = size[b] + size[n] + HeaderSize, ![n] = 0]
  /\ free' = [free EXCEPT ![n] = FALSE]
  /\ next' = [next EXCEPT ![b] = next[n], ![n] = Null]
  /\ prev' = [a \in Addr |-> IF a = next[n] THEN b
                             ELSE IF a = n THEN Null ELSE prev[a]]
  /\ blocks' = blocks \ {n}

(* ... one iteration of the loop that merges to the right ...              *)
MergeRight ==
  /\ pc = "right" /\ RightFree
  /\ Absorb(cur, next[cur])
  /\ UNCHANGED <<live, pc, cur>>

\* free returns without looking to the left.
MutRightDone ==
  /\ pc = "right" /\ ~ RightFree
  /\ pc' = "idle" /\ cur' = Null
  /\ UNCHANGED <<mem, live>>

RightDone ==
  /\ pc = "right" /\ ~ RightFree
  /\ pc' = "left"
  /\ UNCHANGED <<mem, live, cur>>

(* ... one iteration of the loop that merges into the left neighbour ...   *)
MergeLeft ==
  /\ pc = "left" /\ LeftFree
  /\ Absorb(prev[cur], cur)
  /\ cur' = prev[cur]
  /\ UNCHANGED <<live, pc>>

(* ... and the return.                                                     *)
FreeReturn ==
  /\ pc = "left" /\ ~ LeftFree
  /\ pc' = "idle"
  /\ cur' = Null
  /\ UNCHANGED <<mem, live>>

Merging == MergeRight \/ RightDone \/ MergeLeft \/ FreeReturn

Next ==
  \/ \E n \in Requests : Malloc(n)
  \/ \E q \in AlignedRequests : MallocAligned(q) \/ MallocMisplaced(q)
  \/ \E r \in live : Free(r)
  \/ Merging

Spec == Init /\ [][Next]_vars

-----------------------------------------------------------------------------
TypeOK ==
  /\ size \in [Addr -> Nat]
  /\ free \in [Addr -> BOOLEAN]
  /\ next \in [Addr -> Addr \cup {Null}]
  /\ prev \in [Addr -> Addr \cup {Null}]
  /\ blocks \subseteq Addr
  /\ live \subseteq [ptr : Nat, raw : Nat, want : Wants]
  /\ pc \in {"idle", "right", "left"}
  /\ cur \in blocks \cup {Null}

\* Header b is where it should be: it ends where its successor starts (the
\* last one at the end of the region) and the two links agree.
Linked(b) ==
  /\ IF next[b] = Null
     THEN End(b) = HeapEnd
     ELSE next[b] \in blocks /\ next[b] = End(b) /\ prev[next[b]] = b
  /\ IF b = HeapStart
     THEN prev[b] = Null
     ELSE prev[b] \in blocks /\ next[prev[b]] = b

\* The blocks tile the region at every moment, also between two iterations of
\* a merge loop: no byte is lost and no two blocks overlap, which is what
\* check_heap() of heap.cpp relies on when it adds up the sizes.
Tiling ==
  /\ HeapStart \in blocks
  /\ \A b \in blocks : Linked(b)
  /\ \A a, b \in blocks : a < b => End(a) <= b

\* When free() has returned no two neighbours are both free, so malloc finds a
\* block whenever enough contiguous memory is free.  While it runs, the only
\* exceptions touch the block that it is working on.
Coalesced ==
  \A b \in blocks :
    next[b] # Null /\ free[b] /\ free[next[b]] =>
      \/ pc = "right" /\ cur \in {b, next[b]}
      \/ pc = "left" /\ cur = next[b]

\* Exactly one client pointer keeps each block in use, and a block that is
\* being released belongs to nobody: nothing leaks, nothing is used twice.
Owned ==
  /\ {r.raw : r \in live} = {b + HeaderSize : b \in {c \in blocks : ~ free[c]}}
  /\ \A r, s \in live : r.raw = s.raw => r = s
  /\ IF pc = "idle" THEN cur = Null ELSE cur \in blocks /\ free[cur]

\* A client's bytes, and the AlignHeader in front of an aligned object, lie in
\* the payload of the client's own block.
Inside ==
  \A r \in live :
    /\ r.ptr + r.want.len <= End(r.raw - HeaderSize)
    /\ r.ptr = r.raw \/ r.ptr >= r.raw + RawSize

\* With every pointer given back, the heap is again the one block heap_init
\* made, whatever the order of the calls: it does not fragment for good.
Pristine ==
  pc = "idle" /\ live = {} =>
    blocks = {HeapStart} /\ size[HeapStart] = HeapSize - HeaderSize

\* The heap implements the allocator its callers rely on: an object is in the
\* region, aligned, within its boundary and disjoint from every other object.
A == INSTANCE Allocator
       WITH Start <- HeapStart, Limit <- HeapEnd,
            held <- {[ptr |-> r.ptr, want |-> r.want] : r \in live}
Allocates == A!AllocSpec
=============================================================================
