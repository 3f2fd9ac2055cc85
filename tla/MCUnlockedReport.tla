-------------------------- MODULE MCUnlockedReport --------------------------
(***************************************************************************)
(* A report beside one or two allocating threads.                          *)
(***************************************************************************)
EXTENDS UnlockedReport, TLC

CONSTANTS a1, a2, a3, a4, t1, t2

Addr3    == {a1, a2, a3}
Addr4    == {a1, a2, a3, a4}
Threads1 == {t1}
Threads2 == {t1, t2}

TwoBlocks == [k \in ZoneType |-> 2]

Symmetry == Permutations(Addr) \cup Permutations(Thread)
=============================================================================
