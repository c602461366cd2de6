----------------------------- MODULE MCFatFile ------------------------------
(* A FAT of three clusters, 2 -> 4 -> end and 3 -> end, and two files: one *)
(* of the first two clusters, one without any.                             *)
EXTENDS FatFile, TLC
CONSTANTS h1, h2, long, empty, x, y
MCHandles == {h1, h2}
MCFiles   == {long, empty}
MCBytes   == {x, y}
MCFirst   == [f \in Files |-> IF f = long THEN 2 ELSE Boot]
MCFat     == (2 :> 4 @@ 3 :> End @@ 4 :> End)
MCChain   == [f \in Files |-> IF f = long THEN <<2, 4>> ELSE <<Boot>>]
MCSymmetry == Permutations(MCHandles)
=============================================================================
