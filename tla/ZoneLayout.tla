----------------------------- MODULE ZoneLayout -----------------------------
(***************************************************************************)
(* The bytes of one zone: how create_zone of src/src/malloc.c divides its  *)
(* mapping into header, bitmap, requested_sizes and blocks, and the words  *)
(* in front of the blocks by which free finds a pointer's zone and index.  *)
(*                                                                         *)
(* Offsets are in bytes from the zone's base.  words holds the words       *)
(* META_PACK wrote and nothing has overwritten since; the allocator's and  *)
(* the program's other stores into the zone destroy the words they touch.  *)
(***************************************************************************)
EXTENDS Integers, FiniteSets

CONSTANTS
  Machines,         \* the getpagesize() of a machine and a page-aligned address
  BlockSizes,       \* TINY_BLOCK_SIZE and SMALL_BLOCK_SIZE
  BLOCKS_PER_ZONE,
  MAX_BLOCKS,       \* the cap on n_blocks
  HEADER,           \* sizeof(zone_t)
  WORD              \* sizeof(void *), sizeof(size_t)

ASSUME LayoutAssumption ==
  /\ \A m \in Machines : /\ m.page_size \in Nat \ {0}
                         /\ m.base \in Nat /\ m.base % 4096 = 0
  /\ BlockSizes \subseteq Nat \ {0}
  /\ BLOCKS_PER_ZONE \in Nat \ {0}
  /\ MAX_BLOCKS \in BLOCKS_PER_ZONE .. 2047
  /\ HEADER \in Nat \ {0}
  /\ WORD \in Nat \ {0}

VARIABLES
  page_size,
  base,             \* what mmap returned
  block_size,
  i,                \* the loop counter of create_zone
  words             \* the intact meta words: [at |-> offset, word |-> value]

vars == <<page_size, base, block_size, i, words>>

-----------------------------------------------------------------------------
(* create_zone's arithmetic *)

per_block == WORD + block_size + WORD

min_size == HEADER + (BLOCKS_PER_ZONE + 7) \div 8 + BLOCKS_PER_ZONE * per_block

(* Mutant: the size is rounded down to full pages.                         *)
total_size_down == (min_size \div page_size) * page_size

total_size == ((min_size + page_size - 1) \div page_size) * page_size

(* Mutant: the bits of the bitmap are not counted.                         *)
fitting_no_bitmap == (8 * (total_size - HEADER)) \div (8 * per_block)

fitting == (8 * (total_size - HEADER)) \div (8 * per_block + 1)

n_blocks == IF fitting > MAX_BLOCKS THEN MAX_BLOCKS ELSE fitting

bitmap_bytes == (n_blocks + 7) \div 8

data_offset == HEADER + bitmap_bytes + n_blocks * WORD

(* Where the word in front of block j is.                                  *)
meta(j) == data_offset + j * (WORD + block_size)

(* Mutant: the stride leaves out the word in front of each block.          *)
block_address_packed(j) == data_offset + WORD + j * block_size

(* calculate_zone_block_address, from zone->memory.                        *)
block_address(j) == data_offset + WORD + j * (WORD + block_size)

-----------------------------------------------------------------------------
(* The words.  A zone is page-aligned and n below 4096, so the bitwise or  *)
(* of META_PACK sets bit 11 and the eleven bits below it.                  *)

META_PACK(zone, n) == zone + 2048 + (n % 2048)

META_IS_ZONE(w)   == (w \div 2048) % 2 = 1
META_ZONE(w)      == w - (w % 4096)
META_BLOCK_NUM(w) == w % 2048

Init ==
  /\ \E m \in Machines : page_size = m.page_size /\ base = m.base
  /\ block_size \in BlockSizes
  /\ i = 0
  /\ words = {}

(* One turn of create_zone's loop over the blocks.                         *)
write_meta ==
  /\ i < n_blocks
  /\ words' = words \cup {[at |-> meta(i), word |-> META_PACK(base, i)]}
  /\ i' = i + 1
  /\ UNCHANGED <<page_size, base, block_size>>

(* A store of len bytes at offset at.                                      *)
store(at, len) ==
  /\ i = n_blocks
  /\ words' = {w \in words : w.at + WORD <= at \/ at + len <= w.at}
  /\ UNCHANGED <<page_size, base, block_size, i>>

(* bitmap[j / 8] &= ... in find_free_block, |= ... in free                 *)
mark_bit(j) == store(HEADER + j \div 8, 1)

(* requested_sizes[j] = size                                               *)
set_requested(j) == store(HEADER + bitmap_bytes + j * WORD, WORD)

(* The program fills the block it was given.                               *)
fill_block(j) == store(block_address(j), block_size)

Next ==
  \/ write_meta
  \/ \E j \in 0 .. n_blocks - 1 : mark_bit(j) \/ set_requested(j) \/ fill_block(j)

Spec == Init /\ [][Next]_vars

-----------------------------------------------------------------------------
(* The blocks do not reach past the mapping: the equation create_zone      *)
(* solves for n_blocks accounts for header, bitmap and sizes.              *)
LayoutFits == data_offset + n_blocks * (WORD + block_size) <= total_size

(* "guaranteeing at least BLOCKS_PER_ZONE blocks fit" (malloc.c:20): the   *)
(* rounding up to pages and the division for n_blocks never lose a block.  *)
EnoughBlocks == n_blocks >= BLOCKS_PER_ZONE

(* free finds the zone and the index of every block in the word in front   *)
(* of it, whatever the program stored in its blocks and the allocator in   *)
(* its bitmap and sizes.                                                   *)
MetaIntact ==
  i = n_blocks =>
    \A j \in 0 .. n_blocks - 1 :
      \E w \in words :
        /\ w.at = block_address(j) - WORD
        /\ META_IS_ZONE(w.word)
        /\ META_ZONE(w.word) = base
        /\ META_BLOCK_NUM(w.word) = j
=============================================================================
