------------------------------- MODULE Heap -------------------------------
(***************************************************************************)
(* The heap of src/src/malloc.c: global_heap, the mapped zones and large   *)
(* blocks, and the operations that change them.  The module has no Next of *)
(* its own: Malloc.tla drives these operations as malloc, free and realloc *)
(* do, one call at a time.                                                 *)
(*                                                                         *)
(* A mapping is named by the page-aligned address mmap returned for it.    *)
(* Inside a zone a pointer is the pair <<zone, block index>> (the word in  *)
(* front of every block, META_PACK(zone, i), is exactly that pair); a      *)
(* large block's pointer is <<block, 0>>.                                  *)
(*                                                                         *)
(* The doubly linked lists of list.c are sequences here.                   *)
(***************************************************************************)
EXTENDS Integers, Sequences, FiniteSets, SequencesExt

CONSTANTS
  Addr,             \* page-aligned addresses mmap can return
  NULL,             \* the null pointer
  NBlocks,          \* zone->number_of_blocks, for each zone type
  MAX_BLOCKS,       \* the cap create_zone puts on n_blocks
  TINY_BLOCK_SIZE,
  SMALL_BLOCK_SIZE,
  BLOCKS_PER_ZONE

ZoneType == {"TINY", "SMALL"}
Type     == ZoneType \cup {"LARGE"}
UNMAPPED == "UNMAPPED"

BlockIndex == 0 .. MAX_BLOCKS - 1
Ptr        == Addr \X BlockIndex

(* create_zone makes zones of at least BLOCKS_PER_ZONE blocks; all that is *)
(* used here is that no zone has a single block.                           *)
ASSUME HeapAssumption ==
  /\ NULL \notin Ptr
  /\ MAX_BLOCKS \in Nat
  /\ NBlocks \in [ZoneType -> 2 .. MAX_BLOCKS]
  /\ TINY_BLOCK_SIZE \in Nat
  /\ SMALL_BLOCK_SIZE \in Nat
  /\ BLOCKS_PER_ZONE \in Nat
  /\ TINY_BLOCK_SIZE < SMALL_BLOCK_SIZE

VARIABLES
  initialized,      \* global_heap.initialized
  type,             \* Addr -> what is mapped there: a zone, a large block, nothing
  bitmap,           \* Addr -> the set bits (free blocks) of the zone's bitmap
  free_count,       \* Addr -> zone->free_count
  requested_sizes,  \* Ptr  -> zone->requested_sizes[i]
  block_size,       \* Addr -> block->size of a large block
  free_list,        \* Type -> free_tiny_zones, free_small_zones, free_large_blocks
  full_list         \* Type -> full_tiny_zones, full_small_zones, full_large_blocks

heapVars == <<initialized, type, bitmap, free_count, requested_sizes,
              block_size, free_list, full_list>>

HeapTypeOK ==
  /\ initialized \in BOOLEAN
  /\ type \in [Addr -> Type \cup {UNMAPPED}]
  /\ bitmap \in [Addr -> SUBSET BlockIndex]
  /\ free_count \in [Addr -> Int]
  /\ requested_sizes \in [Ptr -> Nat]
  /\ block_size \in [Addr -> Nat]
  /\ free_list \in [Type -> Seq(Addr)]
  /\ full_list \in [Type -> Seq(Addr)]

HeapInit ==
  /\ initialized = FALSE
  /\ type = [a \in Addr |-> UNMAPPED]
  /\ bitmap = [a \in Addr |-> {}]
  /\ free_count = [a \in Addr |-> 0]
  /\ requested_sizes = [p \in Ptr |-> 0]
  /\ block_size = [a \in Addr |-> 0]
  /\ free_list = [k \in Type |-> <<>>]
  /\ full_list = [k \in Type |-> <<>>]

-----------------------------------------------------------------------------
(* list.c, on sequences                                                    *)

lst_add_back(l, z)   == Append(l, z)
block_add_back(l, b) == Append(l, b)
lst_detach(l, z)     == RemoveFirst(l, z)
block_detach(l, b)   == RemoveFirst(l, b)

(* Mutant: an empty zone is reclaimed even when it is the last of its list. *)
linked_unchecked(z) == TRUE

(* zone->prev != NULL || zone->next != NULL                                *)
linked(z) ==
  \E l \in {free_list[type[z]], full_list[type[z]]} : Contains(l, z) /\ Len(l) > 1

-----------------------------------------------------------------------------
(* mmap and munmap *)

(* The addresses the kernel may choose: anything not mapped.               *)
Unmapped == {a \in Addr : type[a] = UNMAPPED}

(* What a mapping held is gone with it.                                    *)
munmap(a) ==
  /\ type' = [type EXCEPT ![a] = UNMAPPED]
  /\ bitmap' = [bitmap EXCEPT ![a] = {}]
  /\ free_count' = [free_count EXCEPT ![a] = 0]
  /\ requested_sizes' = [p \in Ptr |-> IF p[1] = a THEN 0 ELSE requested_sizes[p]]
  /\ block_size' = [block_size EXCEPT ![a] = 0]

-----------------------------------------------------------------------------
(* Zones *)

(* Mutant: the unused bits of the last byte stay set.                      *)
initial_bitmap_unmasked(n) == 0 .. 8 * ((n + 7) \div 8) - 1

(* memset(bitmap, 0xFF), then the unused bits of the last byte masked off.  *)
initial_bitmap(n) ==
  LET bitmap_bytes == (n + 7) \div 8
      full         == 0 .. 8 * bitmap_bytes - 1
  IN IF n % 8 = 0
     THEN full
     ELSE {b \in full : b \div 8 = bitmap_bytes - 1 => b % 8 < n % 8}

(* create_zone when its mmap returned z.                                    *)
create_zone(k, z) ==
  /\ z \in Unmapped
  /\ type' = [type EXCEPT ![z] = k]
  /\ bitmap' = [bitmap EXCEPT ![z] = initial_bitmap(NBlocks[k])]
  /\ free_count' = [free_count EXCEPT ![z] = NBlocks[k]]
  /\ free_list' = [free_list EXCEPT ![k] = lst_add_back(@, z)]
  /\ UNCHANGED <<requested_sizes, block_size, full_list>>

find_set_bit(z) == IF bitmap[z] = {} THEN -1 ELSE Min(bitmap[z])

(* Mutant: the size is recorded at the index of the bitmap's byte.         *)
take_block_byte(z, i, n) ==
  LET k == type[z] IN
  /\ bitmap' = [bitmap EXCEPT ![z] = @ \ {i}]
  /\ requested_sizes' = [requested_sizes EXCEPT ![<<z, i \div 8>>] = n]
  /\ free_count' = [free_count EXCEPT ![z] = @ - 1]
  /\ IF free_count[z] - 1 = 0
     THEN /\ free_list' = [free_list EXCEPT ![k] = lst_detach(@, z)]
          /\ full_list' = [full_list EXCEPT ![k] = lst_add_back(@, z)]
     ELSE UNCHANGED <<free_list, full_list>>
  /\ UNCHANGED <<initialized, type, block_size>>

(* find_free_block up to the call of create_zone: block i of zone z is     *)
(* handed out for a request of n bytes.                                    *)
take_block(z, i, n) ==
  LET k == type[z] IN
  /\ bitmap' = [bitmap EXCEPT ![z] = @ \ {i}]
  /\ requested_sizes' = [requested_sizes EXCEPT ![<<z, i>>] = n]
  /\ free_count' = [free_count EXCEPT ![z] = @ - 1]
  /\ IF free_count[z] - 1 = 0
     THEN /\ free_list' = [free_list EXCEPT ![k] = lst_detach(@, z)]
          /\ full_list' = [full_list EXCEPT ![k] = lst_add_back(@, z)]
     ELSE UNCHANGED <<free_list, full_list>>
  /\ UNCHANGED <<initialized, type, block_size>>

(* Mutant: a zone is reclaimed while one of its blocks is still in use.    *)
reclaimable_early(z) == free_count[z] + 2 >= NBlocks[type[z]] /\ linked(z)

(* A zone whose last block comes back goes, unless it is alone in its list. *)
reclaimable(z) == free_count[z] + 1 = NBlocks[type[z]] /\ linked(z)

(* Mutant: a zone is unmapped while it is still in its list.               *)
reclaim_zone_linked(z) ==
  /\ reclaimable(z)
  /\ munmap(z)
  /\ UNCHANGED <<initialized, free_list, full_list>>

reclaim_zone(z) ==
  /\ reclaimable(z)
  /\ free_list' = [free_list EXCEPT ![type[z]] = lst_detach(@, z)]
  /\ munmap(z)
  /\ UNCHANGED <<initialized, full_list>>

(* Mutant: a full zone that gets a block back stays in the full list.      *)
return_block_unmoved(z, i) ==
  /\ ~reclaimable(z)
  /\ bitmap' = [bitmap EXCEPT ![z] = @ \cup {i}]
  /\ free_count' = [free_count EXCEPT ![z] = @ + 1]
  /\ UNCHANGED <<initialized, type, requested_sizes, block_size, free_list, full_list>>

return_block(z, i) ==
  LET k == type[z] IN
  /\ ~reclaimable(z)
  /\ bitmap' = [bitmap EXCEPT ![z] = @ \cup {i}]
  /\ free_count' = [free_count EXCEPT ![z] = @ + 1]
  /\ IF free_count[z] + 1 # NBlocks[k] /\ free_count[z] + 1 = 1
     THEN /\ full_list' = [full_list EXCEPT ![k] = lst_detach(@, z)]
          /\ free_list' = [free_list EXCEPT ![k] = lst_add_back(@, z)]
     ELSE UNCHANGED <<free_list, full_list>>
  /\ UNCHANGED <<initialized, type, requested_sizes, block_size>>

-----------------------------------------------------------------------------
(* Large blocks *)

(* Mutant: the first cached block is reused whatever its size.             *)
first_fit_any(n) == IF free_list["LARGE"] = <<>> THEN 0 ELSE 1

(* The first block of free_large_blocks that is big enough, or 0.          *)
first_fit(n) == SelectInSeq(free_list["LARGE"], LAMBDA b : block_size[b] >= n)

reuse_block(b) ==
  /\ free_list' = [free_list EXCEPT !["LARGE"] = block_detach(@, b)]
  /\ full_list' = [full_list EXCEPT !["LARGE"] = block_add_back(@, b)]
  /\ UNCHANGED <<initialized, type, bitmap, free_count, requested_sizes, block_size>>

(* create_block when its mmap returned b, and the insertion that follows.  *)
create_block(b, n) ==
  /\ b \in Unmapped
  /\ type' = [type EXCEPT ![b] = "LARGE"]
  /\ block_size' = [block_size EXCEPT ![b] = n]
  /\ full_list' = [full_list EXCEPT !["LARGE"] = block_add_back(@, b)]
  /\ UNCHANGED <<initialized, bitmap, free_count, requested_sizes, free_list>>

(* Mutant: every freed block is kept for reuse.                            *)
free_large_block_kept(b) ==
  /\ full_list' = [full_list EXCEPT !["LARGE"] = block_detach(@, b)]
  /\ free_list' = [free_list EXCEPT !["LARGE"] = block_add_back(@, b)]
  /\ UNCHANGED <<initialized, type, bitmap, free_count, requested_sizes, block_size>>

free_large_block(b) ==
  /\ full_list' = [full_list EXCEPT !["LARGE"] = block_detach(@, b)]
  /\ IF block_size[b] > SMALL_BLOCK_SIZE * BLOCKS_PER_ZONE
     THEN /\ munmap(b)
          /\ UNCHANGED <<initialized, free_list>>
     ELSE /\ free_list' = [free_list EXCEPT !["LARGE"] = block_add_back(@, b)]
          /\ UNCHANGED <<initialized, type, bitmap, free_count, requested_sizes, block_size>>

-----------------------------------------------------------------------------
(* META_IS_ZONE of the word in front of p picks the branch.                *)
free_ptr(p) ==
  IF type[p[1]] \in ZoneType
  THEN reclaim_zone(p[1]) \/ return_block(p[1], p[2])
  ELSE free_large_block(p[1])

(* ZONE_BLOCK_SIZE, or block->size: what realloc compares a request with.  *)
current_size(p) ==
  CASE type[p[1]] = "TINY"  -> TINY_BLOCK_SIZE
    [] type[p[1]] = "SMALL" -> SMALL_BLOCK_SIZE
    [] OTHER                -> block_size[p[1]]

(* The list a request of n bytes is served from.                           *)
size_class(n) ==
  CASE n <= TINY_BLOCK_SIZE -> "TINY"
    [] n > TINY_BLOCK_SIZE /\ n <= SMALL_BLOCK_SIZE -> "SMALL"
    [] n > SMALL_BLOCK_SIZE -> "LARGE"

-----------------------------------------------------------------------------
(* What the operations maintain *)

(* The blocks that are marked allocated: cleared bits of the zones, and    *)
(* the blocks of full_large_blocks.                                        *)
InUse ==
  {p \in Ptr :
     \/ /\ type[p[1]] \in ZoneType
        /\ p[2] < NBlocks[type[p[1]]]
        /\ p[2] \notin bitmap[p[1]]
     \/ /\ type[p[1]] = "LARGE"
        /\ p[2] = 0
        /\ p[1] \in Range(full_list["LARGE"])}

(* A zone is in the free list of its type exactly while it has a free      *)
(* block and in the full list otherwise, a large block is in one of the    *)
(* two large lists, and no list holds anything twice or anything of        *)
(* another type (the list moves of find_free_block and free).              *)
ListsConsistent ==
  /\ \A k \in Type :
       /\ IsInjective(free_list[k])
       /\ IsInjective(full_list[k])
       /\ Range(free_list[k]) \cap Range(full_list[k]) = {}
       /\ \A a \in Addr :
            type[a] = k <=> a \in Range(free_list[k]) \cup Range(full_list[k])
  /\ \A a \in Addr :
       type[a] \in ZoneType =>
         (free_count[a] > 0 <=> a \in Range(free_list[type[a]]))

(* free_count is the number of set bits of the bitmap, and no bit is set   *)
(* behind the last block: free_count alone decides when a zone is full and *)
(* when it is unmapped.                                                    *)
CountsMatchBitmap ==
  \A a \in Addr : type[a] \in ZoneType =>
    /\ bitmap[a] \subseteq 0 .. NBlocks[type[a]] - 1
    /\ free_count[a] = Cardinality(bitmap[a])
=============================================================================
