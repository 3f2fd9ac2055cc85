--------------------------- MODULE MCShowAllocMem ---------------------------
(* Heaps of up to two zones in each tiny list, one in each small list and  *)
(* one large block, every zone at an address of its own.  Zones of two     *)
(* tiny blocks of 6 bytes and one small block of 20, rows of 4 bytes.      *)
EXTENDS ShowAllocMem

Zone(address, block_size, sizes) ==
  [address |-> address, memory |-> address + 40, block_size |-> block_size,
   requested_sizes |-> sizes]

Lists(address, block_size, contents, max) ==
  UNION {{[k \in 1 .. n |-> Zone(address + 100 * k, block_size, c[k])] :
            c \in [1 .. n -> contents]} : n \in 0 .. max}

Contents(n, sizes, full) ==
  {c \in [1 .. n -> sizes \cup {0}] : full <=> \A k \in 1 .. n : c[k] # 0}

MCHeaps ==
  [free_tiny  : Lists(1000, 6, Contents(2, {1, 6}, FALSE), 2),
   full_tiny  : Lists(2000, 6, Contents(2, {4, 5}, TRUE), 2),
   free_small : Lists(3000, 20, Contents(1, {}, FALSE), 1),
   full_small : Lists(3500, 20, Contents(1, {7, 20}, TRUE), 1),
   large      : {<<>>, <<[address |-> 3900, size |-> 21]>>}]
=============================================================================
