--------------------------- MODULE MCMallocBonus ---------------------------
(***************************************************************************)
(* MallocBonus with two threads, or two and the one of perror's calls,     *)
(* three addresses and zones of two blocks.                                *)
(***************************************************************************)
EXTENDS MallocBonus, TLC

CONSTANTS a1, a2, a3, t1, t2, t3

Addr3    == {a1, a2, a3}
Threads2 == {t1, t2}
Threads3 == {t1, t2, t3}

TwoBlocks == [k \in ZoneType |-> 2]

(* Any two addresses and any two threads are alike.                        *)
Symmetry == Permutations(Addr) \cup Permutations(Thread)
=============================================================================
