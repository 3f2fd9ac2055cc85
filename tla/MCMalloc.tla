----------------------------- MODULE MCMalloc -----------------------------
(***************************************************************************)
(* Malloc on a small machine: zones of two or three blocks, tiny blocks of *)
(* one byte, small blocks of two, large blocks cached up to four bytes and *)
(* no request above five.                                                  *)
(***************************************************************************)
EXTENDS Malloc, TLC

CONSTANTS a1, a2, a3, a4, a5

Addr3 == {a1, a2, a3}
Addr4 == {a1, a2, a3, a4}
Addr5 == {a1, a2, a3, a4, a5}

TwoBlocks   == [k \in ZoneType |-> 2]
ThreeBlocks == [k \in ZoneType |-> 3]

(* Any two addresses are alike: nothing compares them.                     *)
Symmetry == Permutations(Addr)
=============================================================================
