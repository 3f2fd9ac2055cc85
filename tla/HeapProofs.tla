----------------------------- MODULE HeapProofs -----------------------------
(***************************************************************************)
(* Every operation of Heap.tla keeps the heap consistent and changes the   *)
(* set of blocks in use by exactly the block it is about.  These facts     *)
(* serve the proofs about whoever drives the operations.                   *)
(***************************************************************************)
EXTENDS Heap, ListLemmas, FiniteSetTheorems

HeapInv == HeapTypeOK /\ ListsConsistent /\ CountsMatchBitmap

(* After memset and the mask the set bits are those of the n blocks.       *)
LEMMA InitialBitmap ==
  ASSUME NEW n \in Nat
  PROVE  initial_bitmap(n) = 0 .. n - 1
<1> DEFINE q == (n + 7) \div 8
<1>1. q \in Nat /\ 8 * q <= n + 7 /\ n + 7 < 8 * q + 8
  OBVIOUS
<1>2. CASE n % 8 = 0
  <2>1. 8 * q = n
    BY <1>1, <1>2
  <2> QED BY <1>2, <2>1 DEF initial_bitmap
<1>3. CASE n % 8 # 0
  <2>1. n = 8 * (q - 1) + (n % 8) /\ n % 8 \in 1 .. 7
    BY <1>1, <1>3
  <2>2. ASSUME NEW b \in 0 .. 8 * q - 1
        PROVE  (b \div 8 = q - 1 => b % 8 < n % 8) <=> b < n
    BY <1>1, <2>1
  <2> QED BY <1>1, <1>3, <2>1, <2>2 DEF initial_bitmap
<1> QED BY <1>2, <1>3

(* Before the first call the heap is consistent and nothing is in use.     *)
LEMMA HeapInitInv ==
  ASSUME HeapInit
  PROVE  HeapInv /\ InUse = {}
<1> USE HeapAssumption
<1>1. HeapTypeOK
  <2>1. <<>> \in Seq(Addr)
    OBVIOUS
  <2>2. /\ initialized \in BOOLEAN
        /\ type \in [Addr -> Type \cup {UNMAPPED}]
        /\ bitmap \in [Addr -> SUBSET BlockIndex]
    BY DEF HeapInit
  <2>3. /\ free_count \in [Addr -> Int]
        /\ requested_sizes \in [Ptr -> Nat]
        /\ block_size \in [Addr -> Nat]
    BY DEF HeapInit
  <2>4. free_list \in [Type -> Seq(Addr)] /\ full_list \in [Type -> Seq(Addr)]
    BY <2>1 DEF HeapInit
  <2> QED BY <2>2, <2>3, <2>4 DEF HeapTypeOK
<1>2. ListsConsistent
  BY EmptyRange DEF HeapInit, ListsConsistent, Type, ZoneType, UNMAPPED
<1>3. CountsMatchBitmap
  BY DEF HeapInit, CountsMatchBitmap, ZoneType, UNMAPPED
<1>4. InUse = {}
  BY DEF HeapInit, InUse, ZoneType, UNMAPPED, Ptr
<1> QED BY <1>1, <1>2, <1>3, <1>4 DEF HeapInv

(* A bitmap is a finite set.                                               *)
LEMMA BitmapFinite ==
  ASSUME HeapTypeOK, NEW a \in Addr
  PROVE  IsFiniteSet(bitmap[a])
<1>1. IsFiniteSet(BlockIndex)
  BY HeapAssumption, FS_Interval DEF BlockIndex
<1> QED BY <1>1, FS_Subset DEF HeapTypeOK

(* An operation on class k keeps the lists consistent if it leaves the     *)
(* other classes alone and the lists of k are right afterwards.            *)
LEMMA ListsStep ==
  ASSUME ListsConsistent, NEW k \in Type,
         \A l \in Type \ {k} :
           /\ free_list'[l] = free_list[l]
           /\ full_list'[l] = full_list[l]
           /\ \A a \in Addr : type'[a] = l <=> type[a] = l,
         \A a \in Addr : type'[a] \in ZoneType \ {k} => free_count'[a] = free_count[a],
         IsInjective(free_list'[k]),
         IsInjective(full_list'[k]),
         Range(free_list'[k]) \cap Range(full_list'[k]) = {},
         \A a \in Addr :
           type'[a] = k <=> a \in Range(free_list'[k]) \cup Range(full_list'[k]),
         \A a \in Addr : k \in ZoneType /\ type'[a] = k =>
           (free_count'[a] > 0 <=> a \in Range(free_list'[k]))
  PROVE  ListsConsistent'
<1>1. ASSUME NEW l \in Type
      PROVE  /\ IsInjective(free_list'[l])
             /\ IsInjective(full_list'[l])
             /\ Range(free_list'[l]) \cap Range(full_list'[l]) = {}
             /\ \A a \in Addr :
                  type'[a] = l <=> a \in Range(free_list'[l]) \cup Range(full_list'[l])
  <2>1. CASE l = k
    BY <2>1
  <2>2. CASE l # k
    BY <2>2 DEF ListsConsistent
  <2> QED BY <2>1, <2>2
<1>2. ASSUME NEW a \in Addr, type'[a] \in ZoneType
      PROVE  free_count'[a] > 0 <=> a \in Range(free_list'[type'[a]])
  <2>1. CASE type'[a] = k
    BY <1>2, <2>1
  <2>2. CASE type'[a] # k
    <3>1. type[a] = type'[a] /\ free_list'[type'[a]] = free_list[type'[a]]
      BY <1>2, <2>2 DEF Type
    <3> QED BY <1>2, <2>2, <3>1 DEF ListsConsistent
  <2> QED BY <2>1, <2>2
<1> QED BY <1>1, <1>2 DEF ListsConsistent

(* create_zone puts a zone of free blocks in the free list of its type and *)
(* takes no block into use.                                                *)
LEMMA CreateZone ==
  ASSUME HeapInv, NEW k \in ZoneType, NEW z \in Addr, create_zone(k, z),
         initialized' \in BOOLEAN
  PROVE  HeapInv' /\ InUse' = InUse
<1> USE HeapAssumption DEF HeapInv
<1> DEFINE n == NBlocks[k]
<1>1. n \in 2 .. MAX_BLOCKS /\ initial_bitmap(n) = 0 .. n - 1
  BY InitialBitmap
<1>2. z \notin Range(free_list[k]) \cup Range(full_list[k]) /\ type[z] = UNMAPPED
  BY DEF create_zone, ListsConsistent, Unmapped, UNMAPPED, Type, ZoneType
<1>3. /\ free_list'[k] \in Seq(Addr)
      /\ Range(free_list'[k]) = Range(free_list[k]) \cup {z}
      /\ IsInjective(free_list'[k])
  BY <1>2, AppendRange DEF create_zone, lst_add_back, HeapTypeOK, ListsConsistent, Type
<1>4. HeapTypeOK'
  <2>1. type' \in [Addr -> Type \cup {UNMAPPED}] /\ free_count' \in [Addr -> Int]
    BY <1>1 DEF create_zone, HeapTypeOK, Type
  <2>2. bitmap' \in [Addr -> SUBSET BlockIndex]
    BY <1>1 DEF create_zone, HeapTypeOK, BlockIndex
  <2>3. free_list' \in [Type -> Seq(Addr)]
    BY <1>3 DEF create_zone, HeapTypeOK, Type
  <2> QED BY <2>1, <2>2, <2>3 DEF create_zone, HeapTypeOK
<1>5. \A a \in Addr :
        /\ type'[a] = IF a = z THEN k ELSE type[a]
        /\ bitmap'[a] = IF a = z THEN 0 .. n - 1 ELSE bitmap[a]
        /\ free_count'[a] = IF a = z THEN n ELSE free_count[a]
  BY <1>1 DEF create_zone, HeapTypeOK
<1>6. /\ \A l \in Type \ {k} : free_list'[l] = free_list[l]
      /\ full_list' = full_list
  BY DEF create_zone, HeapTypeOK
<1> HIDE DEF n
<1>7. ListsConsistent'
  <2>1. \A a \in Addr : type'[a] = k =>
          (free_count'[a] > 0 <=> a \in Range(free_list'[k]))
    BY <1>1, <1>3, <1>5 DEF ListsConsistent
  <2>2. \A a \in Addr :
          type'[a] = k <=> a \in Range(free_list'[k]) \cup Range(full_list'[k])
    BY <1>3, <1>5, <1>6 DEF ListsConsistent, Type
  <2>3. \A l \in Type \ {k} : \A a \in Addr : type'[a] = l <=> type[a] = l
    BY <1>2, <1>5 DEF Type, ZoneType, UNMAPPED
  <2>4. Range(free_list'[k]) \cap Range(full_list'[k]) = {} /\ IsInjective(full_list'[k])
    BY <1>2, <1>3, <1>6 DEF ListsConsistent, Type
  <2>5. \A a \in Addr : type'[a] \in ZoneType \ {k} => free_count'[a] = free_count[a]
    BY <1>5
  <2>6. k \in Type
    BY DEF Type
  <2> QED BY <1>3, <1>6, <2>1, <2>2, <2>3, <2>4, <2>5, <2>6, ListsStep
<1>8. CountsMatchBitmap'
  <2>1. Cardinality(0 .. n - 1) = n
    BY <1>1, FS_Interval
  <2> QED BY <1>1, <1>5, <2>1 DEF CountsMatchBitmap, HeapTypeOK, n
<1>9. InUse' = InUse
  <2>1. ASSUME NEW a \in Addr, NEW j \in BlockIndex
        PROVE  <<a, j>> \in InUse' <=> <<a, j>> \in InUse
    BY <1>1, <1>2, <1>5, <1>6 DEF InUse, Ptr, ZoneType, UNMAPPED, BlockIndex, n
  <2> QED BY <2>1 DEF InUse, Ptr
<1> QED BY <1>4, <1>7, <1>8, <1>9

(* What is in a list of class k is mapped and of type k.                   *)
LEMMA InList ==
  ASSUME HeapInv, NEW k \in Type, NEW z \in Range(free_list[k]) \cup Range(full_list[k])
  PROVE  z \in Addr /\ type[z] = k
<1>1. z \in Addr
  BY DEF HeapInv, HeapTypeOK, Range
<1> QED BY <1>1 DEF HeapInv, ListsConsistent

(* find_free_block hands out a block that was not in use: a set bit of a   *)
(* zone of the free list becomes the one block more that is in use, and    *)
(* the zone changes lists if it was the last.                              *)
LEMMA TakeBlock ==
  ASSUME HeapInv, NEW k \in ZoneType, NEW z \in Range(free_list[k]),
         NEW i \in bitmap[z], NEW n \in Nat, take_block(z, i, n)
  PROVE  /\ HeapInv'
         /\ <<z, i>> \in Ptr
         /\ <<z, i>> \notin InUse
         /\ InUse' = InUse \cup {<<z, i>>}
<1> USE HeapAssumption DEF HeapInv
<1>1. k \in Type
  BY DEF Type
<1>2. z \in Addr /\ type[z] = k
  BY <1>1, InList
<1>3. /\ i \in BlockIndex /\ i < NBlocks[k]
      /\ free_count[z] = Cardinality(bitmap[z])
      /\ free_count[z] \in Nat
      /\ Cardinality(bitmap[z] \ {i}) = free_count[z] - 1
  <2>1. i \in BlockIndex /\ i \in 0 .. NBlocks[k] - 1 /\ free_count[z] = Cardinality(bitmap[z])
    BY <1>2 DEF CountsMatchBitmap, HeapTypeOK
  <2>2. IsFiniteSet(bitmap[z])
    BY <1>2, BitmapFinite
  <2>3. Cardinality(bitmap[z]) \in Nat /\ Cardinality(bitmap[z] \ {i}) = Cardinality(bitmap[z]) - 1
    BY <2>2, FS_RemoveElement, FS_CardinalityType
  <2> QED BY <2>1, <2>3
<1>4. \A a \in Addr :
        /\ type'[a] = type[a]
        /\ bitmap'[a] = IF a = z THEN bitmap[z] \ {i} ELSE bitmap[a]
        /\ free_count'[a] = IF a = z THEN free_count[z] - 1 ELSE free_count[a]
  BY <1>2 DEF take_block, HeapTypeOK
<1>5. /\ free_list[k] \in Seq(Addr) /\ IsInjective(free_list[k])
      /\ full_list[k] \in Seq(Addr) /\ IsInjective(full_list[k])
      /\ Range(free_list[k]) \cap Range(full_list[k]) = {}
  BY <1>1 DEF HeapTypeOK, ListsConsistent
<1>6. /\ free_list'[k] \in Seq(Addr) /\ IsInjective(free_list'[k])
      /\ full_list'[k] \in Seq(Addr) /\ IsInjective(full_list'[k])
      /\ Range(free_list'[k]) =
           IF free_count[z] - 1 = 0 THEN Range(free_list[k]) \ {z} ELSE Range(free_list[k])
      /\ Range(full_list'[k]) =
           IF free_count[z] - 1 = 0 THEN Range(full_list[k]) \cup {z} ELSE Range(full_list[k])
  <2>1. CASE free_count[z] - 1 = 0
    <3>1. free_list'[k] = RemoveFirst(free_list[k], z) /\ full_list'[k] = Append(full_list[k], z)
      BY <1>1, <1>2, <2>1 DEF take_block, HeapTypeOK, lst_detach, lst_add_back
    <3> QED BY <1>2, <1>5, <2>1, <3>1, RemoveFirstRange, AppendRange
  <2>2. CASE free_count[z] - 1 # 0
    BY <1>5, <2>2 DEF take_block
  <2> QED BY <2>1, <2>2
<1>7. \A l \in Type \ {k} : free_list'[l] = free_list[l] /\ full_list'[l] = full_list[l]
  BY <1>2 DEF take_block, HeapTypeOK
<1>8. HeapTypeOK'
  <2>1. /\ bitmap' \in [Addr -> SUBSET BlockIndex]
        /\ free_count' \in [Addr -> Int]
    BY <1>2, <1>3 DEF take_block, HeapTypeOK
  <2>2. requested_sizes' \in [Ptr -> Nat]
    BY DEF take_block, HeapTypeOK
  <2>3. free_list' \in [Type -> Seq(Addr)] /\ full_list' \in [Type -> Seq(Addr)]
    BY <1>2, <1>6 DEF take_block, HeapTypeOK
  <2> QED BY <2>1, <2>2, <2>3 DEF take_block, HeapTypeOK
<1>9. ListsConsistent'
  <2>1. \A a \in Addr :
          type'[a] = k => (free_count'[a] > 0 <=> a \in Range(free_list'[k]))
    BY <1>1, <1>3, <1>4, <1>6 DEF ListsConsistent
  <2>2. \A a \in Addr :
          type'[a] = k <=> a \in Range(free_list'[k]) \cup Range(full_list'[k])
    BY <1>1, <1>4, <1>6 DEF ListsConsistent
  <2>3. Range(free_list'[k]) \cap Range(full_list'[k]) = {}
    BY <1>5, <1>6
  <2>4. \A a \in Addr : type'[a] \in ZoneType \ {k} => free_count'[a] = free_count[a]
    BY <1>2, <1>4
  <2> QED BY <1>1, <1>4, <1>6, <1>7, <2>1, <2>2, <2>3, <2>4, ListsStep
<1>10. CountsMatchBitmap'
  BY <1>3, <1>4 DEF CountsMatchBitmap
<1>11. full_list'["LARGE"] = full_list["LARGE"]
  BY <1>7 DEF Type, ZoneType
<1>12. /\ <<z, i>> \in Ptr
       /\ <<z, i>> \notin InUse
       /\ InUse' = InUse \cup {<<z, i>>}
  <2>1. <<z, i>> \in Ptr /\ <<z, i>> \notin InUse
    BY <1>2, <1>3 DEF InUse, Ptr, ZoneType
  <2>2. ASSUME NEW a \in Addr, NEW j \in BlockIndex
        PROVE  <<a, j>> \in InUse' <=> <<a, j>> \in InUse \/ (a = z /\ j = i)
    BY <1>2, <1>3, <1>4, <1>11 DEF InUse, Ptr, ZoneType
  <2> QED BY <2>1, <2>2 DEF InUse, Ptr
<1> QED BY <1>8, <1>9, <1>10, <1>12

(* What is known of a block of a zone that is in use.                      *)
LEMMA ZoneBlockInUse ==
  ASSUME HeapInv, NEW z \in Addr, NEW i \in BlockIndex, type[z] \in ZoneType,
         <<z, i>> \in InUse
  PROVE  LET k == type[z] IN
         /\ NBlocks[k] \in Nat /\ NBlocks[k] >= 2
         /\ bitmap[z] \subseteq 0 .. NBlocks[k] - 1
         /\ i \in (0 .. NBlocks[k] - 1) \ bitmap[z]
         /\ free_count[z] \in Nat
         /\ free_count[z] = Cardinality(bitmap[z])
         /\ Cardinality(bitmap[z] \cup {i}) = free_count[z] + 1
         /\ free_count[z] > 0 => z \in Range(free_list[k]) \ Range(full_list[k])
         /\ free_count[z] = 0 => z \in Range(full_list[k]) \ Range(free_list[k])
<1> DEFINE k == type[z]
<1>1. k \in Type /\ NBlocks[k] \in Nat /\ NBlocks[k] >= 2
  BY HeapAssumption DEF Type
<1>2. i < NBlocks[k] /\ i \notin bitmap[z] /\ i \in Nat
  BY HeapAssumption DEF InUse, ZoneType, BlockIndex
<1>3. bitmap[z] \subseteq 0 .. NBlocks[k] - 1 /\ free_count[z] = Cardinality(bitmap[z])
  BY DEF HeapInv, CountsMatchBitmap
<1>4. IsFiniteSet(bitmap[z])
  BY BitmapFinite DEF HeapInv
<1>5. Cardinality(bitmap[z]) \in Nat /\ Cardinality(bitmap[z] \cup {i}) = Cardinality(bitmap[z]) + 1
  BY <1>2, <1>4, FS_AddElement, FS_CardinalityType
<1>6. /\ free_count[z] > 0 <=> z \in Range(free_list[k])
      /\ z \in Range(free_list[k]) \cup Range(full_list[k])
      /\ Range(free_list[k]) \cap Range(full_list[k]) = {}
  BY <1>1 DEF HeapInv, ListsConsistent
<1> HIDE DEF k
<1>7. i \in (0 .. NBlocks[k] - 1) \ bitmap[z]
  BY <1>1, <1>2
<1> QED BY <1>1, <1>3, <1>5, <1>6, <1>7 DEF k

(* free unmaps a zone only when the block it returns was the last in use,  *)
(* and another zone of the class stays in the free list.                   *)
LEMMA ReclaimZone ==
  ASSUME HeapInv, NEW z \in Addr, NEW i \in BlockIndex, type[z] \in ZoneType,
         <<z, i>> \in InUse, reclaim_zone(z)
  PROVE  /\ HeapInv'
         /\ InUse' = InUse \ {<<z, i>>}
         /\ \A l \in ZoneType : free_list[l] # <<>> => free_list'[l] # <<>>
<1> USE DEF HeapInv
<1> DEFINE k == type[z]
<1>1. /\ NBlocks[k] \in Nat /\ NBlocks[k] >= 2
      /\ bitmap[z] \subseteq 0 .. NBlocks[k] - 1
      /\ i \in (0 .. NBlocks[k] - 1) \ bitmap[z]
      /\ Cardinality(bitmap[z] \cup {i}) = NBlocks[k]
      /\ z \in Range(free_list[k]) \ Range(full_list[k])
      /\ k \in Type
  BY ZoneBlockInUse DEF reclaim_zone, reclaimable, Type
<1>2. bitmap[z] \cup {i} = 0 .. NBlocks[k] - 1
  <2> HIDE DEF k
  <2>1. IsFiniteSet(0 .. NBlocks[k] - 1) /\ Cardinality(0 .. NBlocks[k] - 1) = NBlocks[k]
    <3> SUFFICES ASSUME NEW m \in Nat, m >= 2
                 PROVE  IsFiniteSet(0 .. m - 1) /\ Cardinality(0 .. m - 1) = m
      BY <1>1
    <3> QED BY FS_Interval
  <2>2. bitmap[z] \cup {i} \in SUBSET (0 .. NBlocks[k] - 1)
    BY <1>1
  <2> QED BY <1>1, <2>1, <2>2, FS_Subset
<1>3. /\ free_list[k] \in Seq(Addr) /\ IsInjective(free_list[k])
      /\ full_list[k] \in Seq(Addr) /\ IsInjective(full_list[k])
      /\ Range(free_list[k]) \cap Range(full_list[k]) = {}
  BY <1>1 DEF HeapTypeOK, ListsConsistent
<1>4. Len(free_list[k]) > 1
  BY <1>1, <1>3, ContainsRange DEF reclaim_zone, reclaimable, linked
<1>5. free_list'[k] = RemoveFirst(free_list[k], z)
  BY <1>1 DEF reclaim_zone, lst_detach, HeapTypeOK
<1>6. /\ free_list'[k] \in Seq(Addr) /\ IsInjective(free_list'[k])
      /\ Range(free_list'[k]) = Range(free_list[k]) \ {z}
      /\ Len(free_list'[k]) > 0
  BY <1>1, <1>3, <1>4, <1>5, RemoveFirstRange
<1>7. /\ \A l \in Type \ {k} : free_list'[l] = free_list[l]
      /\ full_list' = full_list
  BY DEF reclaim_zone, HeapTypeOK
<1>8. \A a \in Addr :
        /\ type'[a] = IF a = z THEN UNMAPPED ELSE type[a]
        /\ a # z => bitmap'[a] = bitmap[a] /\ free_count'[a] = free_count[a]
  BY DEF reclaim_zone, munmap, HeapTypeOK
<1>9. HeapTypeOK'
  <2>1. type' \in [Addr -> Type \cup {UNMAPPED}] /\ free_count' \in [Addr -> Int]
    BY DEF reclaim_zone, munmap, HeapTypeOK
  <2>2. bitmap' \in [Addr -> SUBSET BlockIndex]
    BY DEF reclaim_zone, munmap, HeapTypeOK
  <2>3. requested_sizes' \in [Ptr -> Nat] /\ block_size' \in [Addr -> Nat]
    BY DEF reclaim_zone, munmap, HeapTypeOK
  <2>4. free_list' \in [Type -> Seq(Addr)]
    BY <1>6 DEF reclaim_zone, HeapTypeOK
  <2> QED BY <2>1, <2>2, <2>3, <2>4 DEF reclaim_zone, HeapTypeOK
<1> HIDE DEF k
<1>10. ListsConsistent'
  <2>1. \A a \in Addr :
          type'[a] = k => (free_count'[a] > 0 <=> a \in Range(free_list'[k]))
    BY <1>1, <1>6, <1>8 DEF ListsConsistent, k, UNMAPPED, ZoneType
  <2>2. \A a \in Addr :
          type'[a] = k <=> a \in Range(free_list'[k]) \cup Range(full_list'[k])
    BY <1>1, <1>6, <1>7, <1>8 DEF ListsConsistent, k, UNMAPPED, ZoneType
  <2>3. Range(free_list'[k]) \cap Range(full_list'[k]) = {} /\ IsInjective(full_list'[k])
    BY <1>3, <1>6, <1>7
  <2>4. \A l \in Type \ {k} : \A a \in Addr : type'[a] = l <=> type[a] = l
    BY <1>8 DEF k, UNMAPPED, Type, ZoneType
  <2>5. \A a \in Addr : type'[a] \in ZoneType \ {k} => free_count'[a] = free_count[a]
    BY <1>8 DEF UNMAPPED, ZoneType
  <2> QED BY <1>1, <1>6, <1>7, <2>1, <2>2, <2>3, <2>4, <2>5, ListsStep
<1>11. CountsMatchBitmap'
  BY <1>8 DEF CountsMatchBitmap, UNMAPPED, ZoneType
<1>12. InUse' = InUse \ {<<z, i>>}
  <2>1. ASSUME NEW a \in Addr, NEW j \in BlockIndex
        PROVE  <<a, j>> \in InUse' <=> <<a, j>> \in InUse /\ ~(a = z /\ j = i)
    <3>1. CASE a = z
      <4>1. <<a, j>> \notin InUse'
        BY <1>8, <3>1 DEF InUse, UNMAPPED, ZoneType
      <4>2. <<a, j>> \in InUse => j = i
        BY <1>1, <1>2, <3>1, HeapAssumption DEF InUse, BlockIndex, ZoneType, k
      <4> QED BY <3>1, <4>1, <4>2
    <3>2. CASE a # z
      BY <1>7, <1>8, <3>2 DEF InUse, Ptr
    <3> QED BY <3>1, <3>2
  <2> QED BY <2>1 DEF InUse, Ptr
<1>13. \A l \in ZoneType : free_list[l] # <<>> => free_list'[l] # <<>>
  BY <1>6, <1>7 DEF Type
<1> QED BY <1>9, <1>10, <1>11, <1>12, <1>13

(* free sets the bit of the block it returns, and a full zone goes back to *)
(* the free list.                                                          *)
LEMMA ReturnBlock ==
  ASSUME HeapInv, NEW z \in Addr, NEW i \in BlockIndex, type[z] \in ZoneType,
         <<z, i>> \in InUse, return_block(z, i)
  PROVE  /\ HeapInv'
         /\ InUse' = InUse \ {<<z, i>>}
         /\ \A l \in ZoneType : free_list[l] # <<>> => free_list'[l] # <<>>
<1> USE DEF HeapInv
<1> DEFINE k == type[z]
<1>1. /\ NBlocks[k] \in Nat /\ NBlocks[k] >= 2
      /\ bitmap[z] \subseteq 0 .. NBlocks[k] - 1
      /\ i \in (0 .. NBlocks[k] - 1) \ bitmap[z]
      /\ free_count[z] \in Nat
      /\ Cardinality(bitmap[z] \cup {i}) = free_count[z] + 1
      /\ free_count[z] > 0 => z \in Range(free_list[k]) \ Range(full_list[k])
      /\ free_count[z] = 0 => z \in Range(full_list[k]) \ Range(free_list[k])
      /\ k \in Type
  BY ZoneBlockInUse DEF Type
<1>2. /\ free_list[k] \in Seq(Addr) /\ IsInjective(free_list[k])
      /\ full_list[k] \in Seq(Addr) /\ IsInjective(full_list[k])
      /\ Range(free_list[k]) \cap Range(full_list[k]) = {}
  BY <1>1 DEF HeapTypeOK, ListsConsistent
<1>3. /\ free_list'[k] \in Seq(Addr) /\ IsInjective(free_list'[k])
      /\ full_list'[k] \in Seq(Addr) /\ IsInjective(full_list'[k])
      /\ Range(free_list'[k]) = Range(free_list[k]) \cup {z}
      /\ Range(full_list'[k]) = Range(full_list[k]) \ {z}
      /\ free_list'[k] # <<>>
  <2>1. CASE free_count[z] = 0
    <3>1. free_list'[k] = Append(free_list[k], z) /\ full_list'[k] = RemoveFirst(full_list[k], z)
      BY <1>1, <2>1 DEF return_block, HeapTypeOK, lst_detach, lst_add_back
    <3>2. free_list'[k] # <<>>
      BY <1>2, <3>1, AppendProperties
    <3> QED BY <1>1, <1>2, <2>1, <3>1, <3>2, RemoveFirstRange, AppendRange
  <2>2. CASE free_count[z] # 0
    <3>1. free_list' = free_list /\ full_list' = full_list
      BY <1>1, <2>2 DEF return_block
    <3>2. z \in Range(free_list[k]) \ Range(full_list[k])
      BY <1>1, <2>2
    <3> QED BY <1>2, <3>1, <3>2, EmptyRange
  <2> QED BY <2>1, <2>2
<1>4. \A l \in Type \ {k} : free_list'[l] = free_list[l] /\ full_list'[l] = full_list[l]
  BY DEF return_block, HeapTypeOK
<1>5. \A a \in Addr :
        /\ type'[a] = type[a]
        /\ bitmap'[a] = IF a = z THEN bitmap[z] \cup {i} ELSE bitmap[a]
        /\ free_count'[a] = IF a = z THEN free_count[z] + 1 ELSE free_count[a]
  BY DEF return_block, HeapTypeOK
<1>6. HeapTypeOK'
  <2>1. free_count' \in [Addr -> Int]
    BY <1>1 DEF return_block, HeapTypeOK
  <2>2. bitmap' \in [Addr -> SUBSET BlockIndex]
    BY DEF return_block, HeapTypeOK
  <2>3. free_list' \in [Type -> Seq(Addr)] /\ full_list' \in [Type -> Seq(Addr)]
    BY <1>3 DEF return_block, HeapTypeOK
  <2> QED BY <2>1, <2>2, <2>3 DEF return_block, HeapTypeOK
<1> HIDE DEF k
<1>7. ListsConsistent'
  <2>1. \A a \in Addr :
          type'[a] = k => (free_count'[a] > 0 <=> a \in Range(free_list'[k]))
    BY <1>1, <1>3, <1>5 DEF ListsConsistent, k
  <2>2. \A a \in Addr :
          type'[a] = k <=> a \in Range(free_list'[k]) \cup Range(full_list'[k])
    BY <1>1, <1>3, <1>5 DEF ListsConsistent, k
  <2>3. Range(free_list'[k]) \cap Range(full_list'[k]) = {}
    BY <1>2, <1>3
  <2>4. \A a \in Addr : type'[a] \in ZoneType \ {k} => free_count'[a] = free_count[a]
    BY <1>5 DEF k
  <2> QED BY <1>1, <1>3, <1>4, <1>5, <2>1, <2>2, <2>3, <2>4, ListsStep
<1>8. CountsMatchBitmap'
  <2>1. bitmap[z] \cup {i} \subseteq 0 .. NBlocks[k] - 1
    BY <1>1
  <2> QED BY <1>1, <1>5, <2>1 DEF CountsMatchBitmap, k
<1>9. InUse' = InUse \ {<<z, i>>}
  <2>1. full_list'["LARGE"] = full_list["LARGE"]
    BY <1>4 DEF k, Type, ZoneType
  <2>2. ASSUME NEW a \in Addr, NEW j \in BlockIndex
        PROVE  <<a, j>> \in InUse' <=> <<a, j>> \in InUse /\ ~(a = z /\ j = i)
    BY <1>1, <1>5, <2>1 DEF InUse, Ptr, ZoneType, k
  <2> QED BY <2>2 DEF InUse, Ptr
<1>10. \A l \in ZoneType : free_list[l] # <<>> => free_list'[l] # <<>>
  BY <1>3, <1>4 DEF Type
<1> QED BY <1>6, <1>7, <1>8, <1>9, <1>10

(* Every mapping has a block 0.                                            *)
LEMMA ZeroIndex == 0 \in BlockIndex
<1>1. NBlocks["TINY"] \in 2 .. MAX_BLOCKS /\ MAX_BLOCKS \in Nat
  BY HeapAssumption DEF ZoneType
<1> QED BY <1>1 DEF BlockIndex

(* The large lists are right, and so are the others if they are untouched. *)
LEMMA LargeStep ==
  ASSUME HeapInv,
         free_list'["LARGE"] \in Seq(Addr), full_list'["LARGE"] \in Seq(Addr),
         IsInjective(free_list'["LARGE"]), IsInjective(full_list'["LARGE"]),
         Range(free_list'["LARGE"]) \cap Range(full_list'["LARGE"]) = {},
         \A a \in Addr : type'[a] = "LARGE" <=>
           a \in Range(free_list'["LARGE"]) \cup Range(full_list'["LARGE"]),
         \A l \in ZoneType :
           /\ free_list'[l] = free_list[l]
           /\ full_list'[l] = full_list[l]
           /\ \A a \in Addr : type'[a] = l <=> type[a] = l,
         \A a \in Addr : type'[a] \in ZoneType =>
           free_count'[a] = free_count[a] /\ bitmap'[a] = bitmap[a]
  PROVE  ListsConsistent' /\ CountsMatchBitmap'
<1>1. "LARGE" \in Type /\ Type \ {"LARGE"} = ZoneType /\ ZoneType \ {"LARGE"} = ZoneType
      /\ "LARGE" \notin ZoneType
  BY DEF Type, ZoneType
<1>2. ListsConsistent'
  BY <1>1, ListsStep DEF HeapInv
<1>3. ASSUME NEW a \in Addr, type'[a] \in ZoneType
      PROVE  type[a] = type'[a]
  BY <1>3
<1>4. CountsMatchBitmap'
  BY <1>3 DEF HeapInv, CountsMatchBitmap
<1> QED BY <1>2, <1>4

(* find_free_large_block takes a cached block into use.                    *)
LEMMA ReuseBlock ==
  ASSUME HeapInv, NEW b \in Range(free_list["LARGE"]), reuse_block(b)
  PROVE  /\ HeapInv'
         /\ <<b, 0>> \in Ptr
         /\ <<b, 0>> \notin InUse
         /\ InUse' = InUse \cup {<<b, 0>>}
<1> USE DEF HeapInv
<1>1. "LARGE" \in Type /\ "LARGE" \notin ZoneType
  BY DEF Type, ZoneType
<1>2. b \in Addr /\ type[b] = "LARGE"
  BY <1>1, InList
<1> DEFINE F == free_list["LARGE"]
           U == full_list["LARGE"]
<1>3. /\ F \in Seq(Addr) /\ IsInjective(F)
      /\ U \in Seq(Addr) /\ IsInjective(U)
      /\ Range(F) \cap Range(U) = {}
      /\ \A a \in Addr : type[a] = "LARGE" <=> a \in Range(F) \cup Range(U)
  BY <1>1 DEF HeapTypeOK, ListsConsistent
<1>4. free_list'["LARGE"] = RemoveFirst(F, b) /\ full_list'["LARGE"] = Append(U, b)
  BY <1>1 DEF reuse_block, block_detach, block_add_back, HeapTypeOK
<1>5. \A l \in ZoneType : free_list'[l] = free_list[l] /\ full_list'[l] = full_list[l]
  BY <1>1 DEF reuse_block, HeapTypeOK, Type
<1>6. type' = type /\ bitmap' = bitmap /\ free_count' = free_count
  BY DEF reuse_block
<1>7. /\ free_list'["LARGE"] \in Seq(Addr) /\ IsInjective(free_list'["LARGE"])
      /\ full_list'["LARGE"] \in Seq(Addr) /\ IsInjective(full_list'["LARGE"])
      /\ Range(free_list'["LARGE"]) = Range(F) \ {b}
      /\ Range(full_list'["LARGE"]) = Range(U) \cup {b}
  BY <1>2, <1>3, <1>4, RemoveFirstRange, AppendRange
<1>8. HeapTypeOK'
  <2>1. free_list' \in [Type -> Seq(Addr)] /\ full_list' \in [Type -> Seq(Addr)]
    BY <1>7 DEF reuse_block, HeapTypeOK
  <2> QED BY <2>1 DEF reuse_block, HeapTypeOK
<1> HIDE DEF F, U
<1>9. ListsConsistent' /\ CountsMatchBitmap'
  <2>1. Range(free_list'["LARGE"]) \cap Range(full_list'["LARGE"]) = {}
    BY <1>3, <1>7
  <2>2. \A a \in Addr : type'[a] = "LARGE" <=>
          a \in Range(free_list'["LARGE"]) \cup Range(full_list'["LARGE"])
    BY <1>2, <1>3, <1>6, <1>7
  <2> HIDE DEF HeapInv
  <2> QED BY <1>5, <1>6, <1>7, <2>1, <2>2, LargeStep
<1>10. <<b, 0>> \in Ptr /\ <<b, 0>> \notin InUse
  BY <1>1, <1>2, <1>3, ZeroIndex DEF InUse, Ptr, F, U
<1>11. ASSUME NEW a \in Addr, NEW j \in BlockIndex
       PROVE  <<a, j>> \in InUse' <=> <<a, j>> \in InUse \/ (a = b /\ j = 0)
  BY <1>1, <1>2, <1>6, <1>7, ZeroIndex DEF InUse, Ptr, U
<1>12. InUse' = InUse \cup {<<b, 0>>}
  BY <1>10, <1>11 DEF InUse, Ptr
<1> QED BY <1>8, <1>9, <1>10, <1>12

(* create_block takes a fresh mapping into use.                            *)
LEMMA CreateBlock ==
  ASSUME HeapInv, NEW b \in Addr, NEW n \in Nat, create_block(b, n)
  PROVE  /\ HeapInv'
         /\ <<b, 0>> \in Ptr
         /\ <<b, 0>> \notin InUse
         /\ InUse' = InUse \cup {<<b, 0>>}
<1> USE DEF HeapInv
<1>1. "LARGE" \in Type /\ "LARGE" \notin ZoneType
  BY DEF Type, ZoneType
<1>2. type[b] = UNMAPPED /\ UNMAPPED \notin Type
  BY DEF create_block, Unmapped, Type, ZoneType, UNMAPPED
<1> DEFINE F == free_list["LARGE"]
           U == full_list["LARGE"]
<1>3. /\ F \in Seq(Addr) /\ IsInjective(F)
      /\ U \in Seq(Addr) /\ IsInjective(U)
      /\ Range(F) \cap Range(U) = {}
      /\ \A a \in Addr : type[a] = "LARGE" <=> a \in Range(F) \cup Range(U)
  BY <1>1 DEF HeapTypeOK, ListsConsistent
<1>4. full_list'["LARGE"] = Append(U, b) /\ free_list' = free_list
  BY <1>1 DEF create_block, block_add_back, HeapTypeOK
<1>5. \A l \in ZoneType : full_list'[l] = full_list[l]
  BY <1>1 DEF create_block, HeapTypeOK, Type
<1>6. /\ \A a \in Addr : type'[a] = IF a = b THEN "LARGE" ELSE type[a]
      /\ bitmap' = bitmap /\ free_count' = free_count
  BY DEF create_block, HeapTypeOK
<1>7. b \notin Range(F) \cup Range(U)
  BY <1>1, <1>2, <1>3
<1>8. /\ full_list'["LARGE"] \in Seq(Addr) /\ IsInjective(full_list'["LARGE"])
      /\ Range(full_list'["LARGE"]) = Range(U) \cup {b}
  BY <1>3, <1>4, <1>7, AppendRange
<1>9. HeapTypeOK'
  <2>1. full_list' \in [Type -> Seq(Addr)]
    BY <1>8 DEF create_block, HeapTypeOK
  <2>2. type' \in [Addr -> Type \cup {UNMAPPED}] /\ block_size' \in [Addr -> Nat]
    BY <1>1 DEF create_block, HeapTypeOK
  <2> QED BY <2>1, <2>2 DEF create_block, HeapTypeOK
<1>10. ListsConsistent' /\ CountsMatchBitmap'
  <2>1. /\ Range(free_list'["LARGE"]) \cap Range(full_list'["LARGE"]) = {}
        /\ free_list'["LARGE"] \in Seq(Addr) /\ IsInjective(free_list'["LARGE"])
    BY <1>3, <1>4, <1>7, <1>8
  <2>2. \A a \in Addr : type'[a] = "LARGE" <=>
          a \in Range(free_list'["LARGE"]) \cup Range(full_list'["LARGE"])
    BY <1>3, <1>4, <1>6, <1>8
  <2>3. \A l \in ZoneType : \A a \in Addr : type'[a] = l <=> type[a] = l
    BY <1>1, <1>2, <1>6 DEF Type
  <2> HIDE DEF HeapInv, F, U
  <2> QED BY <1>4, <1>5, <1>6, <1>8, <2>1, <2>2, <2>3, LargeStep
<1> HIDE DEF F, U
<1>11. <<b, 0>> \in Ptr /\ <<b, 0>> \notin InUse
  BY <1>1, <1>2, ZeroIndex DEF InUse, Ptr, Type
<1>12. ASSUME NEW a \in Addr, NEW j \in BlockIndex
       PROVE  <<a, j>> \in InUse' <=> <<a, j>> \in InUse \/ (a = b /\ j = 0)
  <2>1. CASE a = b
    BY <1>1, <1>2, <1>6, <1>8, <2>1, ZeroIndex DEF InUse, Ptr, Type
  <2>2. CASE a # b
    BY <1>6, <1>8, <2>2 DEF InUse, Ptr, U
  <2> QED BY <2>1, <2>2
<1>13. InUse' = InUse \cup {<<b, 0>>}
  BY <1>11, <1>12 DEF InUse, Ptr
<1> QED BY <1>9, <1>10, <1>11, <1>13

(* free takes a large block out of use, whether it unmaps or caches it,    *)
(* and leaves the lists of zones alone.                                    *)
LEMMA FreeLargeBlock ==
  ASSUME HeapInv, NEW b \in Addr, NEW i \in BlockIndex, type[b] = "LARGE",
         <<b, i>> \in InUse, free_large_block(b)
  PROVE  /\ HeapInv'
         /\ InUse' = InUse \ {<<b, i>>}
         /\ \A l \in ZoneType : free_list'[l] = free_list[l]
<1> USE DEF HeapInv
<1>1. "LARGE" \in Type /\ "LARGE" \notin ZoneType /\ UNMAPPED \notin Type
  BY DEF Type, ZoneType, UNMAPPED
<1> DEFINE F == free_list["LARGE"]
           U == full_list["LARGE"]
           gone == block_size[b] > SMALL_BLOCK_SIZE * BLOCKS_PER_ZONE
<1>2. i = 0 /\ b \in Range(U)
  BY <1>1 DEF InUse
<1>3. /\ F \in Seq(Addr) /\ IsInjective(F)
      /\ U \in Seq(Addr) /\ IsInjective(U)
      /\ Range(F) \cap Range(U) = {}
      /\ \A a \in Addr : type[a] = "LARGE" <=> a \in Range(F) \cup Range(U)
  BY <1>1 DEF HeapTypeOK, ListsConsistent
<1>4. full_list'["LARGE"] = RemoveFirst(U, b)
  BY <1>1 DEF free_large_block, block_detach, HeapTypeOK
<1>5. free_list'["LARGE"] = IF gone THEN F ELSE Append(F, b)
  BY <1>1 DEF free_large_block, block_add_back, HeapTypeOK
<1>6. /\ \A l \in ZoneType : free_list'[l] = free_list[l]
      /\ \A l \in ZoneType : full_list'[l] = full_list[l]
  BY <1>1 DEF free_large_block, HeapTypeOK, Type
<1>7. \A a \in Addr :
        /\ type'[a] = IF a = b /\ gone THEN UNMAPPED ELSE type[a]
        /\ a # b => bitmap'[a] = bitmap[a] /\ free_count'[a] = free_count[a]
  BY DEF free_large_block, munmap, HeapTypeOK
<1> HIDE DEF gone
<1>8. /\ free_list'["LARGE"] \in Seq(Addr) /\ IsInjective(free_list'["LARGE"])
      /\ Range(free_list'["LARGE"]) = IF gone THEN Range(F) ELSE Range(F) \cup {b}
  <2>1. b \notin Range(F)
    BY <1>2, <1>3
  <2>2. CASE gone
    BY <1>3, <1>5, <2>2
  <2>3. CASE ~gone
    <3>1. free_list'["LARGE"] = Append(F, b)
      BY <1>5, <2>3
    <3> QED BY <1>3, <2>1, <2>3, <3>1, AppendRange
  <2> QED BY <2>2, <2>3
<1>9. /\ full_list'["LARGE"] \in Seq(Addr) /\ IsInjective(full_list'["LARGE"])
      /\ Range(full_list'["LARGE"]) = Range(U) \ {b}
  BY <1>2, <1>3, <1>4, RemoveFirstRange
<1>10. HeapTypeOK'
  <2>1. free_list' \in [Type -> Seq(Addr)] /\ full_list' \in [Type -> Seq(Addr)]
    BY <1>8, <1>9 DEF free_large_block, HeapTypeOK
  <2>2. initialized' \in BOOLEAN
    BY DEF free_large_block, HeapTypeOK
  <2>3. CASE gone
    <3>1. munmap(b)
      BY <2>3 DEF free_large_block, gone
    <3>2. type' \in [Addr -> Type \cup {UNMAPPED}] /\ free_count' \in [Addr -> Int]
      BY <3>1 DEF munmap, HeapTypeOK
    <3>3. bitmap' \in [Addr -> SUBSET BlockIndex]
      BY <3>1 DEF munmap, HeapTypeOK
    <3>4. requested_sizes' \in [Ptr -> Nat] /\ block_size' \in [Addr -> Nat]
      BY <3>1 DEF munmap, HeapTypeOK
    <3> QED BY <2>1, <2>2, <3>2, <3>3, <3>4 DEF HeapTypeOK
  <2>4. CASE ~gone
    BY <2>1, <2>2, <2>4 DEF free_large_block, HeapTypeOK, gone
  <2> QED BY <2>3, <2>4
<1>11. ListsConsistent' /\ CountsMatchBitmap'
  <2>1. Range(free_list'["LARGE"]) \cap Range(full_list'["LARGE"]) = {}
    BY <1>3, <1>8, <1>9
  <2>2. \A a \in Addr : type'[a] = "LARGE" <=>
          a \in Range(free_list'["LARGE"]) \cup Range(full_list'["LARGE"])
    BY <1>1, <1>2, <1>3, <1>7, <1>8, <1>9
  <2>3. \A l \in ZoneType : \A a \in Addr : type'[a] = l <=> type[a] = l
    BY <1>1, <1>7 DEF Type
  <2>4. \A a \in Addr : type'[a] \in ZoneType =>
          free_count'[a] = free_count[a] /\ bitmap'[a] = bitmap[a]
    BY <1>1, <1>7 DEF Type
  <2> HIDE DEF HeapInv, F, U
  <2> QED BY <1>6, <1>8, <1>9, <2>1, <2>2, <2>3, <2>4, LargeStep
<1>12. ASSUME NEW a \in Addr, NEW j \in BlockIndex
       PROVE  <<a, j>> \in InUse' <=> <<a, j>> \in InUse /\ ~(a = b /\ j = i)
  <2>1. CASE a = b
    BY <1>1, <1>2, <1>7, <1>9, <2>1 DEF InUse, Ptr, Type
  <2>2. CASE a # b
    BY <1>7, <1>9, <2>2 DEF InUse, Ptr
  <2> QED BY <2>1, <2>2
<1>13. InUse' = InUse \ {<<b, i>>}
  BY <1>12 DEF InUse, Ptr
<1> QED BY <1>6, <1>10, <1>11, <1>13

(* free takes exactly the block it is given out of use, keeps the heap     *)
(* consistent, and never empties the free list of a zone class.            *)
LEMMA FreePtr ==
  ASSUME HeapInv, NEW p \in InUse, free_ptr(p)
  PROVE  /\ HeapInv'
         /\ InUse' = InUse \ {p}
         /\ \A l \in ZoneType : free_list[l] # <<>> => free_list'[l] # <<>>
         /\ initialized' = initialized
<1>1. p[1] \in Addr /\ p[2] \in BlockIndex /\ p = <<p[1], p[2]>>
  BY DEF InUse, Ptr
<1>2. type[p[1]] \in ZoneType \/ type[p[1]] = "LARGE"
  BY DEF InUse
<1>3. initialized' = initialized
  BY DEF free_ptr, reclaim_zone, return_block, free_large_block
<1>4. CASE type[p[1]] \in ZoneType
  BY <1>1, <1>3, <1>4, ReclaimZone, ReturnBlock DEF free_ptr
<1>5. CASE type[p[1]] = "LARGE"
  <2>1. free_large_block(p[1])
    BY <1>5 DEF free_ptr, ZoneType
  <2> QED BY <1>1, <1>3, <1>5, <2>1, FreeLargeBlock
<1> QED BY <1>2, <1>4, <1>5

(* A step that leaves the heap alone keeps all that is known of it.        *)
LEMMA HeapUnchanged ==
  ASSUME HeapInv, UNCHANGED heapVars
  PROVE  HeapInv' /\ InUse' = InUse
BY DEF HeapInv, heapVars, HeapTypeOK, ListsConsistent, CountsMatchBitmap, InUse

(* The bit find_set_bit finds is a set bit of the bitmap.                  *)
LEMMA FindSetBit ==
  ASSUME HeapTypeOK, NEW z \in Addr, find_set_bit(z) # -1
  PROVE  find_set_bit(z) \in bitmap[z]
<1>1. bitmap[z] \in SUBSET Nat
  BY HeapAssumption DEF HeapTypeOK, BlockIndex
<1> QED BY <1>1, MinElement DEF find_set_bit

(* A zone of a free list has a set bit, and find_set_bit finds one.        *)
LEMMA FreeZoneHasBit ==
  ASSUME HeapInv, NEW k \in ZoneType, NEW z \in Range(free_list[k])
  PROVE  find_set_bit(z) # -1
<1>1. z \in Addr /\ type[z] = k
  BY InList DEF Type
<1>2. free_count[z] > 0 /\ free_count[z] = Cardinality(bitmap[z])
  BY <1>1 DEF HeapInv, ListsConsistent, CountsMatchBitmap
<1>3. bitmap[z] # {}
  BY <1>2, FS_EmptySet
<1>4. bitmap[z] \in SUBSET Nat
  BY <1>1, HeapAssumption DEF HeapInv, HeapTypeOK, BlockIndex
<1> QED BY <1>3, <1>4, MinElement DEF find_set_bit

(* The block the first-fit search finds is in the list of cached blocks    *)
(* and large enough.                                                       *)
LEMMA FirstFit ==
  ASSUME HeapTypeOK, NEW n \in Nat, first_fit(n) # 0
  PROVE  LET b == free_list["LARGE"][first_fit(n)] IN
         b \in Range(free_list["LARGE"]) /\ block_size[b] >= n
<1> DEFINE F == free_list["LARGE"]
           I == {i \in 1 .. Len(F) : block_size[F[i]] >= n}
<1>1. F \in Seq(Addr)
  BY DEF HeapTypeOK, Type
<1>2. first_fit(n) = IF I # {} THEN Min(I) ELSE 0
  BY DEF first_fit, SelectInSeq
<1>3. I # {} /\ I \in SUBSET Nat
  BY <1>1, <1>2
<1>4. first_fit(n) \in I
  BY <1>2, <1>3, MinElement
<1> QED BY <1>1, <1>4 DEF Range

-----------------------------------------------------------------------------
(* What an operation leaves alone.                                         *)

(* A large block is larger than SMALL_BLOCK_SIZE, and a cached one is not  *)
(* above the bound free unmaps at.                                         *)
LargeSizes ==
  /\ \A a \in Addr : type[a] = "LARGE" => block_size[a] > SMALL_BLOCK_SIZE
  /\ \A b \in Range(free_list["LARGE"]) :
       block_size[b] <= SMALL_BLOCK_SIZE * BLOCKS_PER_ZONE

(* An operation of the heap changes the type and the size of nothing that  *)
(* stays mapped, and puts nothing large in the cache.                      *)
SizesKept ==
  /\ \A a \in Addr : type[a] # UNMAPPED /\ type'[a] # UNMAPPED =>
       type'[a] = type[a] /\ block_size'[a] = block_size[a]
  /\ \A a \in Addr : type[a] = UNMAPPED /\ type'[a] = "LARGE" =>
       block_size'[a] > SMALL_BLOCK_SIZE
  /\ \A b \in Range(free_list'["LARGE"]) : b \in Addr /\ type[b] # UNMAPPED
  /\ \A b \in Range(free_list'["LARGE"]) : b \notin Range(free_list["LARGE"]) =>
       block_size[b] <= SMALL_BLOCK_SIZE * BLOCKS_PER_ZONE

(* The size realloc compares with is a number.                             *)
LEMMA CurrentSizeNat ==
  ASSUME HeapTypeOK, NEW p \in Ptr
  PROVE  current_size(p) \in Nat
BY HeapAssumption DEF HeapTypeOK, current_size, Ptr

(* What is in use is mapped.                                               *)
LEMMA InUseMapped ==
  ASSUME NEW p \in InUse
  PROVE  p \in Ptr /\ p[1] \in Addr /\ type[p[1]] # UNMAPPED
BY DEF InUse, Ptr, ZoneType, UNMAPPED

(* A block in use before and after such an operation keeps its size, and   *)
(* the large blocks keep theirs within the bounds.                         *)
LEMMA KeepsSizes ==
  ASSUME LargeSizes, SizesKept, HeapInv, HeapInv'
  PROVE  /\ \A p \in InUse \cap InUse' : current_size(p)' = current_size(p)
         /\ LargeSizes'
<1>1. ASSUME NEW p \in InUse \cap InUse'
      PROVE  current_size(p)' = current_size(p)
  <2>1. p[1] \in Addr /\ type[p[1]] # UNMAPPED /\ type'[p[1]] # UNMAPPED
    BY DEF InUse, Ptr, ZoneType, UNMAPPED
  <2> QED BY <2>1 DEF SizesKept, current_size
<1>2. ASSUME NEW a \in Addr, type'[a] = "LARGE"
      PROVE  block_size'[a] > SMALL_BLOCK_SIZE
  BY <1>2 DEF LargeSizes, SizesKept, UNMAPPED
<1>3. ASSUME NEW b \in Range(free_list'["LARGE"])
      PROVE  block_size'[b] <= SMALL_BLOCK_SIZE * BLOCKS_PER_ZONE
  <2>1. b \in Addr /\ type[b] # UNMAPPED
    BY DEF SizesKept
  <2>2. type'[b] = "LARGE"
    BY <2>1 DEF HeapInv, ListsConsistent, Type
  <2>3. block_size'[b] = block_size[b]
    BY <2>1, <2>2 DEF SizesKept, UNMAPPED
  <2> QED BY <2>3 DEF LargeSizes, SizesKept
<1> QED BY <1>1, <1>2, <1>3 DEF LargeSizes

(* The operations of the heap keep sizes.                                  *)
LEMMA CreateZoneSizes ==
  ASSUME HeapInv, NEW k \in ZoneType, NEW z \in Addr, create_zone(k, z)
  PROVE  SizesKept
<1>1. free_list'["LARGE"] = free_list["LARGE"]
  BY DEF create_zone, HeapInv, HeapTypeOK, Type, ZoneType
<1>2. \A b \in Range(free_list["LARGE"]) : b \in Addr /\ type[b] = "LARGE"
  BY InList DEF Type
<1>3. /\ block_size' = block_size
      /\ \A a \in Addr : type'[a] = IF a = z THEN k ELSE type[a]
      /\ type[z] = UNMAPPED
  BY DEF create_zone, HeapInv, HeapTypeOK, Unmapped
<1> QED BY <1>1, <1>2, <1>3 DEF SizesKept, UNMAPPED, ZoneType

(* free unmaps the large blocks that are too large to be cached.           *)
LEMMA FreePtrSizes ==
  ASSUME HeapInv, NEW p \in InUse, free_ptr(p)
  PROVE  SizesKept
<1> DEFINE a == p[1]
<1>1. a \in Addr /\ p[2] \in BlockIndex
  BY DEF InUse, Ptr
<1>2. /\ \A b \in Range(free_list["LARGE"]) : b \in Addr /\ type[b] = "LARGE"
      /\ \A b \in Range(full_list["LARGE"]) : b \in Addr /\ type[b] = "LARGE"
  BY InList DEF Type
<1>3. CASE type[a] \in ZoneType
  <2>1. free_list'["LARGE"] = free_list["LARGE"]
    BY <1>3 DEF free_ptr, reclaim_zone, return_block, HeapInv, HeapTypeOK, Type, ZoneType
  <2>2. \A c \in Addr : type'[c] # UNMAPPED =>
          type'[c] = type[c] /\ block_size'[c] = block_size[c]
    BY <1>3 DEF free_ptr, reclaim_zone, return_block, munmap, HeapInv, HeapTypeOK
  <2> QED BY <1>2, <2>1, <2>2 DEF SizesKept, UNMAPPED
<1>4. CASE type[a] \notin ZoneType
  <2>1. free_large_block(a) /\ type[a] = "LARGE"
    BY <1>4 DEF free_ptr, InUse
  <2> DEFINE gone == block_size[a] > SMALL_BLOCK_SIZE * BLOCKS_PER_ZONE
  <2>2. CASE gone
    <3>1. free_list' = free_list /\ munmap(a)
      BY <2>1, <2>2 DEF free_large_block
    <3>2. \A c \in Addr : type'[c] # UNMAPPED =>
            type'[c] = type[c] /\ block_size'[c] = block_size[c]
      BY <3>1 DEF munmap, HeapInv, HeapTypeOK
    <3> QED BY <1>2, <3>1, <3>2 DEF SizesKept, UNMAPPED
  <2>3. CASE ~gone
    <3>1. /\ free_list'["LARGE"] = Append(free_list["LARGE"], a)
          /\ type' = type /\ block_size' = block_size
      BY <2>1, <2>3 DEF free_large_block, block_add_back, HeapInv, HeapTypeOK, Type
    <3>2. free_list["LARGE"] \in Seq(Addr)
      BY DEF HeapInv, HeapTypeOK, Type
    <3>3. Range(free_list'["LARGE"]) = Range(free_list["LARGE"]) \cup {a}
      BY <1>1, <3>1, <3>2, AppendRange
    <3>4. block_size[a] <= SMALL_BLOCK_SIZE * BLOCKS_PER_ZONE
      <4>1. block_size[a] \in Nat /\ SMALL_BLOCK_SIZE * BLOCKS_PER_ZONE \in Nat
        BY <1>1, HeapAssumption DEF HeapInv, HeapTypeOK
      <4> QED BY <2>3, <4>1
    <3> QED BY <1>1, <1>2, <2>1, <3>1, <3>3, <3>4 DEF SizesKept, UNMAPPED
  <2> QED BY <2>2, <2>3
<1> QED BY <1>3, <1>4

(* A step that leaves the heap alone keeps sizes.                          *)
LEMMA HeapUnchangedSizes ==
  ASSUME HeapInv, UNCHANGED heapVars
  PROVE  SizesKept
<1>1. \A b \in Range(free_list["LARGE"]) : b \in Addr /\ type[b] = "LARGE"
  BY InList DEF Type
<1> QED BY <1>1 DEF SizesKept, heapVars, UNMAPPED

(* find_free_block keeps sizes, and so does the reuse of a cached block.   *)
LEMMA TakeBlockSizes ==
  ASSUME HeapInv, NEW k \in ZoneType, NEW z \in Range(free_list[k]), NEW i, NEW n,
         take_block(z, i, n)
  PROVE  SizesKept
<1>1. type[z] = k
  BY InList DEF Type
<1>2. \A b \in Range(free_list["LARGE"]) : b \in Addr /\ type[b] = "LARGE"
  BY InList DEF Type
<1>3. free_list'["LARGE"] = free_list["LARGE"] /\ type' = type /\ block_size' = block_size
  BY <1>1 DEF take_block, HeapInv, HeapTypeOK, Type, ZoneType
<1> QED BY <1>2, <1>3 DEF SizesKept, UNMAPPED

(* A reused block keeps the size it was created with.                      *)
LEMMA ReuseBlockSizes ==
  ASSUME HeapInv, NEW b \in Range(free_list["LARGE"]), reuse_block(b)
  PROVE  SizesKept
<1>1. \A c \in Range(free_list["LARGE"]) : c \in Addr /\ type[c] = "LARGE"
  BY InList DEF Type
<1>2. /\ free_list["LARGE"] \in Seq(Addr) /\ IsInjective(free_list["LARGE"])
      /\ free_list'["LARGE"] = RemoveFirst(free_list["LARGE"], b)
  BY DEF reuse_block, block_detach, HeapInv, HeapTypeOK, ListsConsistent, Type
<1>3. Range(free_list'["LARGE"]) = Range(free_list["LARGE"]) \ {b}
  BY <1>2, RemoveFirstRange
<1>4. type' = type /\ block_size' = block_size
  BY DEF reuse_block
<1> QED BY <1>1, <1>3, <1>4 DEF SizesKept, UNMAPPED

(* create_block makes large blocks only.                                   *)
LEMMA CreateBlockSizes ==
  ASSUME HeapInv, NEW b \in Addr, NEW n \in Nat, n > SMALL_BLOCK_SIZE, create_block(b, n)
  PROVE  SizesKept
<1>1. \A c \in Range(free_list["LARGE"]) : c \in Addr /\ type[c] = "LARGE"
  BY InList DEF Type
<1>2. /\ type[b] = UNMAPPED /\ free_list' = free_list
      /\ \A a \in Addr : type'[a] = IF a = b THEN "LARGE" ELSE type[a]
      /\ \A a \in Addr : block_size'[a] = IF a = b THEN n ELSE block_size[a]
  BY DEF create_block, Unmapped, HeapInv, HeapTypeOK
<1> QED BY <1>1, <1>2 DEF SizesKept, UNMAPPED

(* The free list of class l, and what is mapped for it, are as they were.  *)
Untouched(l) ==
  /\ free_list'[l] = free_list[l]
  /\ \A a \in Addr : type[a] = l => type'[a] = l /\ bitmap'[a] = bitmap[a]

(* An operation on class k leaves the others as they are.                  *)
OnlyClass(k) == \A l \in Type \ {k} : Untouched(l)

(* Every operation of the heap stays within the class it is for.           *)
LEMMA CreateZoneOnly ==
  ASSUME HeapTypeOK, NEW k \in ZoneType, NEW z \in Addr, create_zone(k, z)
  PROVE  OnlyClass(k)
<1>1. type[z] \notin Type
  BY DEF create_zone, Unmapped, UNMAPPED, Type, ZoneType
<1> QED BY <1>1 DEF create_zone, HeapTypeOK, OnlyClass, Untouched

(* find_free_block stays within the class of its zone.                     *)
LEMMA TakeBlockOnly ==
  ASSUME HeapTypeOK, NEW z \in Addr, NEW i, NEW n, take_block(z, i, n)
  PROVE  OnlyClass(type[z])
BY DEF take_block, HeapTypeOK, OnlyClass, Untouched

(* find_free_large_block and create_block stay within the large class.     *)
LEMMA LargeOnly ==
  ASSUME HeapTypeOK, NEW b \in Addr, NEW n, reuse_block(b) \/ create_block(b, n)
  PROVE  OnlyClass("LARGE")
<1>1. CASE reuse_block(b)
  BY <1>1 DEF reuse_block, HeapTypeOK, OnlyClass, Untouched
<1>2. CASE create_block(b, n)
  <2>1. type[b] \notin Type
    BY <1>2 DEF create_block, Unmapped, UNMAPPED, Type, ZoneType
  <2> QED BY <1>2, <2>1 DEF create_block, HeapTypeOK, OnlyClass, Untouched
<1> QED BY <1>1, <1>2

(* free stays within the class of the block it is given.                   *)
LEMMA FreePtrOnly ==
  ASSUME HeapTypeOK, NEW p \in InUse, free_ptr(p)
  PROVE  OnlyClass(type[p[1]])
<1> DEFINE a == p[1]
<1>1. a \in Addr
  BY DEF InUse, Ptr
<1>2. CASE type[a] \in ZoneType
  BY <1>1, <1>2 DEF free_ptr, reclaim_zone, return_block, munmap, HeapTypeOK, OnlyClass, Untouched
<1>3. CASE type[a] \notin ZoneType
  <2>1. type[a] = "LARGE" /\ free_large_block(a)
    BY <1>3 DEF free_ptr, InUse
  <2> QED BY <1>1, <2>1 DEF free_large_block, munmap, HeapTypeOK, OnlyClass, Untouched
<1> QED BY <1>2, <1>3

(* A set bit of a listed zone, and a cached block, stand for free blocks.  *)
LEMMA ListedFree ==
  ASSUME HeapInv, NEW k \in Type, NEW p \in Ptr, p[1] \in Range(free_list[k]),
         k = "LARGE" \/ p[2] \in bitmap[p[1]]
  PROVE  p \notin InUse
<1>1. type[p[1]] = k
  BY InList
<1>2. CASE k = "LARGE"
  <2>1. p[1] \notin Range(full_list["LARGE"])
    BY <1>2 DEF HeapInv, ListsConsistent
  <2> QED BY <1>1, <1>2, <2>1 DEF InUse, ZoneType
<1>3. CASE k # "LARGE"
  BY <1>1, <1>3 DEF InUse
<1> QED BY <1>2, <1>3

(* A zone that is created is one to allocate from.                         *)
LEMMA CreateZoneReserve ==
  ASSUME HeapInv, NEW k \in ZoneType, NEW z \in Addr, create_zone(k, z)
  PROVE  /\ free_list'[k] # <<>>
         /\ \A l \in ZoneType : free_list[l] # <<>> => free_list'[l] # <<>>
<1>1. free_list[k] \in Seq(Addr) /\ free_list'[k] = Append(free_list[k], z)
  BY DEF HeapInv, HeapTypeOK, create_zone, lst_add_back, Type
<1>2. free_list'[k] # <<>>
  BY <1>1, AppendProperties
<1>3. \A l \in ZoneType \ {k} : free_list'[l] = free_list[l]
  BY DEF HeapInv, HeapTypeOK, create_zone, Type
<1> QED BY <1>2, <1>3

(* A block of a zone is large enough for the requests of its class.        *)
LEMMA ClassFits ==
  ASSUME HeapTypeOK, NEW n \in Nat, NEW p \in Ptr, size_class(n) \in ZoneType,
         type[p[1]] = size_class(n)
  PROVE  n <= current_size(p)
<1>1. TINY_BLOCK_SIZE \in Nat /\ SMALL_BLOCK_SIZE \in Nat
  BY HeapAssumption
<1> QED BY <1>1 DEF size_class, current_size, ZoneType

-----------------------------------------------------------------------------
(* What is recorded of a block for show_alloc_mem.                         *)

(* The requested size of a block of a zone that is in use is positive and  *)
(* no larger than the block.                                               *)
RecordsFit ==
  \A p \in InUse : type[p[1]] \in ZoneType =>
    0 < requested_sizes[p] /\ requested_sizes[p] <= current_size(p)

(* The record of p, and what p is part of, are as they were.               *)
SameRecord(p) ==
  type'[p[1]] = type[p[1]] /\ requested_sizes'[p] = requested_sizes[p]

(* The blocks of zones that are in use after a step were in use before it, *)
(* with the same record.                                                   *)
RecordsKept ==
  \A p \in InUse' : type'[p[1]] \in ZoneType => p \in InUse /\ SameRecord(p)

(* Such a step keeps the records right: the size of a block of a zone is   *)
(* that of its class.                                                      *)
LEMMA RecordsStep ==
  ASSUME RecordsFit, RecordsKept
  PROVE  RecordsFit'
<1> SUFFICES ASSUME NEW p \in InUse', type'[p[1]] \in ZoneType
             PROVE  0 < requested_sizes'[p] /\ requested_sizes'[p] <= current_size(p)'
  BY DEF RecordsFit
<1>1. p \in InUse /\ type'[p[1]] = type[p[1]] /\ requested_sizes'[p] = requested_sizes[p]
  BY DEF RecordsKept, SameRecord
<1>2. current_size(p)' = current_size(p)
  BY <1>1 DEF current_size, ZoneType
<1> QED BY <1>1, <1>2 DEF RecordsFit

(* A new zone has no block in use.                                         *)
LEMMA CreateZoneRecords ==
  ASSUME HeapInv, NEW k \in ZoneType, NEW z \in Addr, create_zone(k, z),
         initialized' \in BOOLEAN
  PROVE  RecordsKept
<1>1. InUse' = InUse
  BY CreateZone
<1>2. \A p \in InUse : p[1] # z
  BY InUseMapped DEF create_zone, Unmapped
<1>3. \A p \in InUse : type'[p[1]] = type[p[1]]
  BY <1>2, InUseMapped DEF create_zone, HeapInv, HeapTypeOK
<1>4. requested_sizes' = requested_sizes
  BY DEF create_zone
<1> QED BY <1>1, <1>3, <1>4 DEF RecordsKept, SameRecord

(* find_free_block records the size that was asked for.                    *)
LEMMA TakeBlockRecords ==
  ASSUME HeapInv, RecordsFit, NEW n \in Nat, n > 0, size_class(n) \in ZoneType,
         NEW z \in Range(free_list[size_class(n)]), NEW i \in bitmap[z], take_block(z, i, n)
  PROVE  RecordsFit'
<1> DEFINE k == size_class(n)
<1>1. <<z, i>> \in Ptr /\ InUse' = InUse \cup {<<z, i>>} /\ HeapTypeOK
  BY TakeBlock DEF HeapInv
<1>2. z \in Addr /\ type[z] = k
  BY InList DEF Type
<1>3. type' = type /\ requested_sizes' = [requested_sizes EXCEPT ![<<z, i>>] = n]
  BY DEF take_block
<1>4. block_size' = block_size
  BY DEF take_block
<1>5. \A p : current_size(p)' = current_size(p)
  BY <1>3, <1>4 DEF current_size
<1>6. n <= current_size(<<z, i>>)
  BY <1>1, <1>2, ClassFits
<1>7. \A p \in InUse : p \in Ptr
  BY InUseMapped
<1>8. requested_sizes \in [Ptr -> Nat]
  BY <1>1 DEF HeapTypeOK
<1>9. \A p \in Ptr : requested_sizes'[p] = IF p = <<z, i>> THEN n ELSE requested_sizes[p]
  BY <1>3, <1>8
<1>10. \A p \in InUse' : type'[p[1]] \in ZoneType =>
         0 < requested_sizes'[p] /\ requested_sizes'[p] <= current_size(p)
  BY <1>1, <1>3, <1>6, <1>7, <1>9 DEF RecordsFit
<1> QED BY <1>5, <1>10 DEF RecordsFit

(* Large blocks have no record.                                            *)
LEMMA LargeRecords ==
  ASSUME HeapInv, NEW b \in Addr, NEW n \in Nat,
         \/ b \in Range(free_list["LARGE"]) /\ reuse_block(b)
         \/ create_block(b, n)
  PROVE  RecordsKept
<1>1. InUse' = InUse \cup {<<b, 0>>} /\ requested_sizes' = requested_sizes
  BY ReuseBlock, CreateBlock DEF reuse_block, create_block
<1>2. type'[b] = "LARGE"
  BY InList DEF reuse_block, create_block, HeapInv, HeapTypeOK, Type
<1>3. \A a \in Addr : a # b => type'[a] = type[a]
  BY DEF reuse_block, create_block, HeapInv, HeapTypeOK
<1>4. \A p \in InUse' : type'[p[1]] \in ZoneType =>
        p[1] # b
  BY <1>2 DEF ZoneType
<1> QED BY <1>1, <1>3, <1>4, InUseMapped DEF RecordsKept, SameRecord

(* free leaves the records of what stays mapped alone.                     *)
LEMMA FreePtrRecords ==
  ASSUME HeapInv, NEW p \in InUse, free_ptr(p)
  PROVE  RecordsKept
<1>1. InUse' = InUse \ {p} /\ HeapTypeOK /\ p[1] \in Addr
  BY FreePtr, InUseMapped DEF HeapInv
<1>2. munmap(p[1]) \/ UNCHANGED <<type, requested_sizes>>
  BY DEF free_ptr, reclaim_zone, return_block, free_large_block
<1>3. CASE munmap(p[1])
  <2>1. \A a \in Addr : type'[a] = IF a = p[1] THEN UNMAPPED ELSE type[a]
    BY <1>1, <1>3 DEF munmap, HeapTypeOK
  <2>2. \A q \in Ptr : requested_sizes'[q] = IF q[1] = p[1] THEN 0 ELSE requested_sizes[q]
    BY <1>3 DEF munmap
  <2>3. UNMAPPED \notin ZoneType
    BY DEF UNMAPPED, ZoneType
  <2> QED BY <1>1, <2>1, <2>2, <2>3, InUseMapped DEF RecordsKept, SameRecord
<1>4. CASE UNCHANGED <<type, requested_sizes>>
  BY <1>1, <1>4 DEF RecordsKept, SameRecord
<1> QED BY <1>2, <1>3, <1>4

(* A step that leaves the heap alone leaves the records alone.             *)
LEMMA HeapUnchangedRecords ==
  ASSUME HeapInv, UNCHANGED heapVars
  PROVE  RecordsKept
BY HeapUnchanged DEF heapVars, RecordsKept, SameRecord
=============================================================================
