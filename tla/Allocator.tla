----------------------------- MODULE Allocator ------------------------------
(***************************************************************************)
(* What the kernel heap promises its callers, without blocks or headers: a *)
(* region [Start, Limit) of which it hands out pieces.  A piece lies in    *)
(* the region, honours the alignment and the boundary that were asked for, *)
(* shares no byte with another piece that is still held, and stays the     *)
(* caller's until the caller gives it back.                                *)
(***************************************************************************)
EXTENDS Integers

CONSTANTS Start, Limit, \* the region
          Wants         \* requests, [len, align, boundary] (boundary 0: none)

VARIABLE held           \* pieces: [ptr, want]

Disjoint(p, n, h) == p + n <= h.ptr \/ h.ptr + h.want.len <= p

Serves(p, w) ==
  /\ Start <= p /\ p + w.len <= Limit
  /\ p % w.align = 0
  /\ w.boundary # 0 /\ w.len # 0 =>
       p \div w.boundary = (p + w.len - 1) \div w.boundary

AllocInit == held = {}

Alloc(w, p) ==
  /\ Serves(p, w)
  /\ \A h \in held : h.ptr # p /\ Disjoint(p, w.len, h)
  /\ held' = held \cup {[ptr |-> p, want |-> w]}

Release(h) == held' = held \ {h}

AllocNext ==
  \/ \E w \in Wants, p \in Start .. Limit : Alloc(w, p)
  \/ \E h \in held : Release(h)

AllocSpec == AllocInit /\ [][AllocNext]_held
=============================================================================
