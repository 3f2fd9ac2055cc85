---------------------------- MODULE MallocProofs ----------------------------
(***************************************************************************)
(* Theorems about Malloc.tla, for every number of addresses, every zone    *)
(* geometry of at least two blocks and every set of requests.              *)
(*                                                                         *)
(* BlocksAccounted is not inductive by itself: which block an operation    *)
(* takes or returns depends on lists, counters and bitmaps that agree, and *)
(* on where the call in progress is.  IInv adds both.                      *)
(***************************************************************************)
EXTENDS Malloc, HeapProofs

(* What is known of the call in progress from where it is.                 *)
CallConsistent ==
  /\ pc = "idle" => ptr = NULL /\ new = NULL
  /\ pc \in {"setup_tiny", "setup_small", "alloc_block"} => new = NULL
  /\ pc = "refill" => new # NULL /\ type[new[1]] \in ZoneType
  /\ pc = "realloc_free" => ptr # NULL /\ new # NULL
  /\ ptr # NULL => ptr \in live

IInv ==
  /\ TypeOK
  /\ ListsConsistent
  /\ CountsMatchBitmap
  /\ BlocksAccounted
  /\ CallConsistent

(* The part of TypeOK that is not about the heap.                          *)
CallTypeOK ==
  /\ pc \in PC
  /\ size \in Nat
  /\ ptr \in Ptr \cup {NULL}
  /\ new \in Ptr \cup {NULL}
  /\ live \in SUBSET Ptr
  /\ asked \in [Ptr -> Nat]
  /\ mem \in [Ptr -> Nat]
  /\ leaked \in SUBSET Ptr
  /\ mmap_failed \in BOOLEAN

(* IInv is what is known of the heap and what is known of the call.        *)
LEMMA IInvParts ==
  IInv <=> HeapInv /\ CallTypeOK /\ BlocksAccounted /\ CallConsistent
BY DEF IInv, TypeOK, HeapInv, CallTypeOK

(* Before the first call nothing is allocated and nothing is held.         *)
LEMMA InitIInv == Init => IInv
<1> SUFFICES ASSUME Init PROVE IInv
  OBVIOUS
<1>1. HeapInv /\ InUse = {}
  BY HeapInitInv DEF Init
<1>2. CallTypeOK
  BY DEF Init, CallTypeOK, PC
<1>3. BlocksAccounted
  BY <1>1 DEF Init, BlocksAccounted, Held
<1>4. CallConsistent
  BY DEF Init, CallConsistent
<1> QED BY <1>1, <1>2, <1>3, <1>4 DEF IInv, TypeOK, HeapInv, CallTypeOK

(* A call that begins takes nothing into use.                              *)
LEMMA EnterMalloc ==
  ASSUME IInv, pc = "idle", NEW p \in live \cup {NULL}, NEW n \in Requests, enter_malloc(p, n)
  PROVE  IInv'
<1>1. HeapInv' /\ InUse' = InUse
  BY IInvParts, HeapUnchanged DEF enter_malloc
<1>2. CallTypeOK'
  BY IInvParts, RequestsAssumption DEF enter_malloc, CallTypeOK, PC, clientVars, ghostVars
<1>3. new = NULL
  BY DEF IInv, CallConsistent
<1>4. BlocksAccounted'
  BY <1>1, <1>3 DEF IInv, BlocksAccounted, Held, enter_malloc, clientVars, ghostVars
<1>5. CallConsistent'
  BY DEF enter_malloc, clientVars, CallConsistent
<1> QED BY <1>1, <1>2, <1>4, <1>5 DEF IInv, TypeOK, HeapInv, CallTypeOK

(* setup_global_heap maps zones and takes nothing into use, however far it *)
(* gets.                                                                   *)
LEMMA Setup ==
  ASSUME IInv, setup_tiny \/ setup_small
  PROVE  IInv'
<1>1. /\ pc' \in {"setup_small", "alloc_block", "return"}
      /\ mmap_failed' \in BOOLEAN
      /\ UNCHANGED <<size, ptr, new, clientVars, leaked>>
  BY DEF setup_tiny, setup_small, mmap_fails, IInv, TypeOK
<1>2. new = NULL
  BY DEF setup_tiny, setup_small, IInv, CallConsistent
<1>3. HeapInv' /\ InUse' = InUse
  <2>1. HeapInv /\ initialized \in BOOLEAN
    BY IInvParts DEF HeapInv, HeapTypeOK
  <2>2. CASE UNCHANGED heapVars
    BY <2>1, <2>2, HeapUnchanged
  <2>3. CASE ~UNCHANGED heapVars
    <3>1. PICK k \in ZoneType, z \in Addr : create_zone(k, z) /\ initialized' \in BOOLEAN
      BY <2>1, <2>3 DEF setup_tiny, setup_small, ZoneType
    <3> QED BY <2>1, <3>1, CreateZone
  <2> QED BY <2>2, <2>3
<1>4. CallTypeOK'
  BY <1>1, IInvParts DEF CallTypeOK, PC, clientVars
<1>5. BlocksAccounted'
  BY <1>1, <1>3 DEF IInv, BlocksAccounted, Held, clientVars
<1>6. CallConsistent'
  BY <1>1, <1>2 DEF IInv, CallConsistent, clientVars
<1> QED BY <1>3, <1>4, <1>5, <1>6 DEF IInv, TypeOK, HeapInv, CallTypeOK

(* A block is taken into use for the malloc that asked for it.             *)
LEMMA Taken ==
  ASSUME IInv, pc = "alloc_block", NEW p \in Ptr \ InUse,
         HeapInv', InUse' = InUse \cup {p}, new' = p,
         pc' \in {"refill", "return"}, pc' = "refill" => type'[p[1]] \in ZoneType,
         mmap_failed' = mmap_failed,
         UNCHANGED <<size, ptr, clientVars, leaked>>
  PROVE  IInv'
<1>1. new = NULL /\ NULL \notin Ptr
  BY HeapAssumption DEF IInv, CallConsistent
<1>2. CallTypeOK'
  BY IInvParts DEF CallTypeOK, PC, clientVars
<1>3. BlocksAccounted'
  BY <1>1 DEF IInv, BlocksAccounted, Held, clientVars
<1>4. CallConsistent'
  BY <1>1 DEF IInv, CallConsistent, clientVars
<1> QED BY <1>2, <1>3, <1>4 DEF IInv, TypeOK, HeapInv, CallTypeOK

(* A malloc that finds nothing changes nothing.                            *)
LEMMA NotTaken ==
  ASSUME IInv, pc = "alloc_block", UNCHANGED <<heapVars, new>>, pc' = "return",
         mmap_failed' \in BOOLEAN, UNCHANGED <<size, ptr, clientVars, leaked>>
  PROVE  IInv'
<1>1. HeapInv' /\ InUse' = InUse
  BY IInvParts, HeapUnchanged
<1>2. CallTypeOK'
  BY IInvParts DEF CallTypeOK, PC, clientVars
<1>3. BlocksAccounted'
  BY <1>1 DEF IInv, BlocksAccounted, Held, clientVars
<1>4. CallConsistent'
  BY DEF IInv, CallConsistent, clientVars
<1> QED BY <1>1, <1>2, <1>3, <1>4 DEF IInv, TypeOK, HeapInv, CallTypeOK

(* alloc_block hands out a free block of the class of the request, a       *)
(* cached large block or a fresh one, or nothing.                          *)
LEMMA AllocBlock ==
  ASSUME IInv, alloc_block
  PROVE  IInv'
<1>1. /\ pc = "alloc_block"
      /\ UNCHANGED <<size, ptr, clientVars, leaked>>
      /\ HeapInv /\ HeapTypeOK /\ size \in Nat /\ mmap_failed \in BOOLEAN
  BY IInvParts DEF alloc_block, HeapInv, CallTypeOK
<1>2. CASE size_class(size) \in ZoneType /\ find_free_block(size_class(size))
           /\ UNCHANGED mmap_failed
  <2> DEFINE k == size_class(size)
             z == Head(free_list[k])
             i == find_set_bit(z)
  <2>1. CASE free_list[k] = <<>> \/ i = -1
    <3>1. pc' = "return" /\ UNCHANGED <<heapVars, new>>
      BY <1>2, <2>1 DEF find_free_block
    <3> QED BY <1>1, <1>2, <3>1, NotTaken
  <2>2. CASE ~(free_list[k] = <<>> \/ i = -1)
    <3>1. /\ take_block(z, i, size)
          /\ new' = <<z, i>>
          /\ pc' \in {"refill", "return"}
      BY <1>2, <2>2 DEF find_free_block
    <3>2. z \in Range(free_list[k]) /\ z \in Addr /\ type[z] = k
      BY <1>1, <1>2, <2>2, HeadRange, InList DEF HeapTypeOK, Type
    <3>3. i \in bitmap[z]
      BY <1>1, <2>2, <3>2, FindSetBit
    <3> HIDE DEF z, i, k
    <3>4. /\ HeapInv'
          /\ <<z, i>> \in Ptr \ InUse
          /\ InUse' = InUse \cup {<<z, i>>}
      BY <1>1, <1>2, <3>1, <3>2, <3>3, TakeBlock DEF k
    <3>5. type'[z] \in ZoneType
      BY <1>2, <3>1, <3>2 DEF take_block, k
    <3> QED BY <1>1, <1>2, <3>1, <3>4, <3>5, Taken
  <2> QED BY <2>1, <2>2
<1>3. CASE size_class(size) = "LARGE" /\ find_free_large_block
  <2> DEFINE j == first_fit(size)
             c == free_list["LARGE"][j]
  <2>1. CASE j # 0
    <3>1. /\ reuse_block(c) /\ new' = <<c, 0>>
          /\ pc' = "return" /\ mmap_failed' = mmap_failed
      BY <1>3, <2>1 DEF find_free_large_block
    <3>2. c \in Range(free_list["LARGE"])
      BY <1>1, <2>1, FirstFit
    <3> HIDE DEF c
    <3>3. HeapInv' /\ <<c, 0>> \in Ptr \ InUse /\ InUse' = InUse \cup {<<c, 0>>}
      BY <1>1, <3>1, <3>2, ReuseBlock
    <3> QED BY <1>1, <3>1, <3>3, Taken
  <2>2. CASE j = 0 /\ mmap_fails /\ UNCHANGED <<heapVars, new>>
    BY <1>1, <2>2, NotTaken DEF mmap_fails
  <2>3. CASE j = 0 /\ ~(mmap_fails /\ UNCHANGED <<heapVars, new>>)
    <3>1. PICK b \in Addr : create_block(b, size) /\ new' = <<b, 0>>
      BY <1>3, <2>3 DEF find_free_large_block
    <3>2. pc' = "return" /\ mmap_failed' = mmap_failed
      BY <1>3, <2>3 DEF find_free_large_block
    <3>3. HeapInv' /\ <<b, 0>> \in Ptr \ InUse /\ InUse' = InUse \cup {<<b, 0>>}
      BY <1>1, <3>1, CreateBlock
    <3> QED BY <1>1, <3>1, <3>2, <3>3, Taken
  <2> QED BY <2>1, <2>2, <2>3
<1> QED BY <1>2, <1>3 DEF alloc_block

(* The create_zone at the end of find_free_block takes nothing more into   *)
(* use; when it fails the block that was taken is nobody's but is still    *)
(* accounted for.                                                          *)
LEMMA Refill ==
  ASSUME IInv, refill
  PROVE  IInv'
<1>1. /\ pc = "refill"
      /\ pc' = "return"
      /\ new \in Ptr /\ NULL \notin Ptr
      /\ type[new[1]] \in ZoneType
      /\ UNCHANGED <<size, ptr, clientVars>>
  BY HeapAssumption DEF refill, mmap_fails, IInv, TypeOK, CallConsistent
<1>2. HeapInv /\ initialized \in BOOLEAN
  BY IInvParts DEF HeapInv, HeapTypeOK
<1>3. CASE \E z \in Addr : create_zone(type[new[1]], z) /\ UNCHANGED <<initialized, new, ghostVars>>
  <2>1. HeapInv' /\ InUse' = InUse
    BY <1>1, <1>2, <1>3, CreateZone
  <2>2. CallTypeOK'
    BY <1>1, <1>3, IInvParts DEF CallTypeOK, PC, clientVars, ghostVars
  <2>3. BlocksAccounted'
    BY <1>1, <1>3, <2>1 DEF IInv, BlocksAccounted, Held, clientVars, ghostVars
  <2>4. CallConsistent'
    BY <1>1, <1>3 DEF IInv, CallConsistent, clientVars
  <2> QED BY <2>1, <2>2, <2>3, <2>4 DEF IInv, TypeOK, HeapInv, CallTypeOK
<1>4. CASE mmap_fails /\ new' = NULL /\ leaked' = leaked \cup {new} /\ UNCHANGED heapVars
  <2>1. HeapInv' /\ InUse' = InUse
    BY <1>2, <1>4, HeapUnchanged
  <2>2. CallTypeOK'
    BY <1>1, <1>4, IInvParts DEF CallTypeOK, PC, clientVars, mmap_fails
  <2>3. BlocksAccounted'
    BY <1>1, <1>4, <2>1 DEF IInv, TypeOK, BlocksAccounted, Held, clientVars
  <2>4. CallConsistent'
    BY <1>1, <1>4 DEF IInv, CallConsistent, clientVars
  <2> QED BY <2>1, <2>2, <2>3, <2>4 DEF IInv, TypeOK, HeapInv, CallTypeOK
<1> QED BY <1>3, <1>4 DEF refill

(* The block malloc took is in the program's hands when malloc returns.    *)
LEMMA MallocReturn ==
  ASSUME IInv, malloc_return
  PROVE  IInv'
<1>1. HeapInv' /\ InUse' = InUse
  BY IInvParts, HeapUnchanged DEF malloc_return
<1>2. CallTypeOK'
  <2>1. CASE new = NULL
    BY <2>1, IInvParts DEF malloc_return, CallTypeOK, PC, clientVars, ghostVars
  <2>2. CASE new # NULL
    BY <2>2, IInvParts DEF malloc_return, CallTypeOK, PC, ghostVars
  <2> QED BY <2>1, <2>2
<1>3. BlocksAccounted'
  <2>1. NULL \notin live' \cup leaked'
    BY <1>2, HeapAssumption DEF CallTypeOK
  <2>2. CASE new = NULL
    BY <1>1, <2>1, <2>2 DEF IInv, BlocksAccounted, Held, malloc_return, clientVars, ghostVars
  <2>3. CASE new # NULL
    BY <1>1, <2>1, <2>3 DEF IInv, BlocksAccounted, Held, malloc_return, ghostVars
  <2> QED BY <2>2, <2>3
<1>4. CallConsistent'
  BY DEF CallConsistent, malloc_return
<1> QED BY <1>1, <1>2, <1>3, <1>4 DEF IInv, TypeOK, HeapInv, CallTypeOK

(* free takes the block out of use and out of the program's hands.         *)
LEMMA Free ==
  ASSUME IInv, NEW p \in Ptr, free(p)
  PROVE  IInv'
<1>1. p \in InUse
  BY DEF free, IInv, BlocksAccounted, Held
<1>2. HeapInv' /\ InUse' = InUse \ {p}
  BY <1>1, IInvParts, FreePtr DEF free
<1>3. CallTypeOK'
  BY IInvParts DEF free, CallTypeOK, callVars, ghostVars
<1>4. pc = "idle" /\ new = NULL /\ ptr = NULL
  BY DEF free, IInv, CallConsistent
<1>5. BlocksAccounted'
  BY <1>2, <1>4 DEF free, IInv, BlocksAccounted, Held, callVars, ghostVars
<1>6. CallConsistent'
  BY <1>4 DEF free, CallConsistent, callVars
<1> QED BY <1>2, <1>3, <1>5, <1>6 DEF IInv, TypeOK, HeapInv, CallTypeOK

(* Resizing in place and storing change neither the heap nor who holds     *)
(* what.                                                                   *)
LEMMA InPlace ==
  ASSUME IInv, NEW p \in Ptr,
         (\E n \in Requests : realloc_in_place(p, n)) \/ Write(p)
  PROVE  IInv'
<1>1. UNCHANGED <<heapVars, callVars, live, ghostVars>>
  BY DEF realloc_in_place, Write
<1>2. HeapInv' /\ InUse' = InUse
  BY <1>1, IInvParts, HeapUnchanged
<1>3. asked' \in [Ptr -> Nat] /\ mem' \in [Ptr -> Nat]
  BY RequestsAssumption DEF realloc_in_place, Write, IInv, TypeOK
<1>4. CallTypeOK'
  BY <1>1, <1>3, IInvParts DEF CallTypeOK, callVars, ghostVars
<1>5. BlocksAccounted'
  BY <1>1, <1>2 DEF IInv, BlocksAccounted, Held, callVars, ghostVars
<1>6. CallConsistent'
  BY <1>1 DEF IInv, CallConsistent, callVars, heapVars
<1> QED BY <1>2, <1>4, <1>5, <1>6 DEF IInv, TypeOK, HeapInv, CallTypeOK

(* realloc gives up without touching anything, or copies into the block it *)
(* was given.                                                              *)
LEMMA ReallocFailsOrCopies ==
  ASSUME IInv, realloc_fails \/ realloc_copy
  PROVE  IInv'
<1>1. HeapInv' /\ InUse' = InUse
  BY IInvParts, HeapUnchanged DEF realloc_fails, realloc_copy
<1>2. mem' \in [Ptr -> Nat]
  <2>1. CASE realloc_fails
    BY <2>1 DEF realloc_fails, clientVars, IInv, TypeOK
  <2>2. CASE realloc_copy
    <3>1. ptr \in Ptr /\ new \in Ptr /\ HeapTypeOK /\ size \in Nat /\ mem \in [Ptr -> Nat]
      BY <2>2 DEF realloc_copy, IInv, TypeOK
    <3>2. mem[ptr] \in Nat /\ copy_size \in Nat
      BY <3>1, CurrentSizeNat DEF copy_size
    <3>3. Min({mem[ptr], copy_size}) \in Nat
      BY <3>2, MinElement
    <3> QED BY <2>2, <3>1, <3>3 DEF realloc_copy
  <2> QED BY <2>1, <2>2
<1>3. CallTypeOK'
  BY <1>2, IInvParts DEF realloc_fails, realloc_copy, CallTypeOK, PC, clientVars, ghostVars
<1>4. BlocksAccounted'
  BY <1>1 DEF IInv, BlocksAccounted, Held, realloc_fails, realloc_copy, clientVars, ghostVars
<1>5. CallConsistent'
  BY DEF IInv, CallConsistent, realloc_fails, realloc_copy, clientVars
<1> QED BY <1>1, <1>3, <1>4, <1>5 DEF IInv, TypeOK, HeapInv, CallTypeOK

(* The old block leaves the program's hands and the new one enters them.   *)
LEMMA ReallocFree ==
  ASSUME IInv, realloc_free
  PROVE  IInv'
<1>1. /\ ptr \in live /\ ptr \in Ptr /\ new \in Ptr /\ NULL \notin Ptr
      /\ HeapInv
  BY IInvParts, HeapAssumption DEF realloc_free, IInv, TypeOK, CallConsistent
<1>2. ptr \in InUse
  BY <1>1 DEF IInv, BlocksAccounted, Held
<1>3. HeapInv' /\ InUse' = InUse \ {ptr}
  BY <1>1, <1>2, FreePtr DEF realloc_free
<1>4. CallTypeOK'
  BY <1>1, IInvParts DEF realloc_free, CallTypeOK, PC, ghostVars
<1>5. BlocksAccounted'
  BY <1>1, <1>3 DEF IInv, TypeOK, BlocksAccounted, Held, realloc_free, ghostVars
<1>6. CallConsistent'
  BY DEF CallConsistent, realloc_free
<1> QED BY <1>3, <1>4, <1>5, <1>6 DEF IInv, TypeOK, HeapInv, CallTypeOK

(* Every step of the library and of the program keeps IInv.                *)
LEMMA NextIInv == IInv /\ [Next]_vars => IInv'
<1> SUFFICES ASSUME IInv, [Next]_vars PROVE IInv'
  OBVIOUS
<1>1. CASE \E n \in Requests : malloc(n)
  BY <1>1, EnterMalloc DEF malloc
<1>2. CASE \E p \in Ptr : free(p)
  BY <1>2, Free
<1>3. CASE \E p \in Ptr, n \in Requests : realloc_in_place(p, n)
  BY <1>3, InPlace
<1>4. CASE \E p \in Ptr, n \in Requests : realloc_grow(p, n)
  BY <1>4, EnterMalloc DEF realloc_grow
<1>5. CASE setup_tiny \/ setup_small
  BY <1>5, Setup
<1>6. CASE alloc_block
  BY <1>6, AllocBlock
<1>7. CASE refill
  BY <1>7, Refill
<1>8. CASE malloc_return
  BY <1>8, MallocReturn
<1>9. CASE realloc_fails \/ realloc_copy
  BY <1>9, ReallocFailsOrCopies
<1>10. CASE realloc_free
  BY <1>10, ReallocFree
<1>11. CASE UNCHANGED vars
  <2>1. UNCHANGED <<heapVars, callVars, clientVars, ghostVars>>
    BY <1>11 DEF vars
  <2>2. HeapInv' /\ InUse' = InUse
    BY <2>1, IInvParts, HeapUnchanged
  <2>3. CallTypeOK' /\ BlocksAccounted' /\ CallConsistent'
    BY <2>1, <2>2, IInvParts
       DEF CallTypeOK, BlocksAccounted, Held, CallConsistent,
           heapVars, callVars, clientVars, ghostVars
  <2> QED BY <2>2, <2>3 DEF IInv, TypeOK, HeapInv, CallTypeOK
<1>12. CASE \E p \in Ptr : Write(p)
  BY <1>12, InPlace
<1> QED BY <1>1, <1>2, <1>3, <1>4, <1>5, <1>6, <1>7, <1>8, <1>9, <1>10, <1>11, <1>12
        DEF Next, Call, Step

(* IInv holds in every state of every execution.                           *)
THEOREM Inductive == Spec => []IInv
BY InitIInv, NextIInv, PTL DEF Spec

(* Every variable always has its type: in particular the bitmaps never     *)
(* name a block past the last (create_zone, find_set_bit).                 *)
THEOREM TypeCorrect == Spec => []TypeOK
BY Inductive, PTL DEF IInv

(* A zone is always in the list that its number of free blocks calls for,  *)
(* and no list of global_heap holds anything twice, or anything unmapped.  *)
THEOREM ListsAreConsistent == Spec => []ListsConsistent
BY Inductive, PTL DEF IInv

(* free_count always counts the set bits of the zone's bitmap.             *)
THEOREM CountsAreBitmaps == Spec => []CountsMatchBitmap
BY Inductive, PTL DEF IInv

(* malloc never hands out a block that is in somebody's hands, and free    *)
(* and the failure paths never lose track of one.                          *)
THEOREM EveryBlockAccounted == Spec => []BlocksAccounted
BY Inductive, PTL DEF IInv

-----------------------------------------------------------------------------
(* A malloc that returns NULL.  As long as no mmap has failed a zone with  *)
(* a free block is kept for each class, except while find_free_block is    *)
(* about to map the next one.                                              *)

Reserve ==
  /\ pc = "alloc_block" => initialized
  /\ ~mmap_failed =>
       /\ initialized => \A k \in ZoneType :
            free_list[k] # <<>> \/ (pc = "refill" /\ type[new[1]] = k)
       /\ pc = "setup_small" => free_list["TINY"] # <<>>

NullInv == Reserve /\ NullNeedsMmapFailure

(* alloc_block fails on a class of zones only if the class has no reserve. *)
LEMMA AllocBlockNull ==
  ASSUME IInv, NullInv, alloc_block
  PROVE  NullInv'
<1>1. /\ pc = "alloc_block" /\ initialized /\ size' = size
      /\ HeapInv /\ HeapTypeOK /\ size \in Nat /\ NULL \notin Ptr
  BY IInvParts, HeapAssumption DEF alloc_block, HeapInv, CallTypeOK, NullInv, Reserve
<1>2. CASE size_class(size) \in ZoneType /\ find_free_block(size_class(size))
           /\ UNCHANGED mmap_failed
  <2> DEFINE k == size_class(size)
             z == Head(free_list[k])
             i == find_set_bit(z)
  <2>1. free_list[k] # <<>> => z \in Range(free_list[k]) /\ z \in Addr /\ type[z] = k
    BY <1>1, <1>2, HeadRange, InList DEF HeapTypeOK, Type
  <2>2. ~mmap_failed => \A l \in ZoneType : free_list[l] # <<>>
    BY <1>1 DEF NullInv, Reserve
  <2>3. free_list[k] # <<>> => i # -1
    BY <1>1, <1>2, <2>1, FreeZoneHasBit
  <2>4. CASE free_list[k] = <<>> \/ i = -1
    <3>1. mmap_failed
      BY <1>2, <2>2, <2>3, <2>4
    <3>2. mmap_failed' /\ pc' = "return"
      BY <1>2, <2>4, <3>1 DEF find_free_block
    <3> QED BY <3>2 DEF NullInv, Reserve, NullNeedsMmapFailure
  <2>5. CASE ~(free_list[k] = <<>> \/ i = -1)
    <3>1. /\ take_block(z, i, size)
          /\ new' = <<z, i>>
          /\ pc' = IF free_count[z] - 1 = 0 THEN "refill" ELSE "return"
      BY <1>2, <2>5 DEF find_free_block
    <3>2. type'[z] = k /\ \A l \in ZoneType \ {k} : free_list'[l] = free_list[l]
      BY <1>1, <2>1, <2>5, <3>1 DEF take_block, HeapTypeOK, Type
    <3>3. free_count[z] - 1 # 0 => free_list' = free_list
      BY <3>1 DEF take_block
    <3>4. i \in BlockIndex
      BY <1>1, <2>1, <2>5, FindSetBit DEF HeapTypeOK
    <3> HIDE DEF k, z, i
    <3>5. new' # NULL
      BY <1>1, <2>1, <2>5, <3>1, <3>4 DEF Ptr
    <3>6. ASSUME ~mmap_failed', NEW l \in ZoneType
          PROVE  free_list'[l] # <<>> \/ (pc' = "refill" /\ type'[new'[1]] = l)
      BY <1>2, <2>2, <3>1, <3>2, <3>3, <3>6
    <3>7. pc' \in {"refill", "return"}
      BY <3>1
    <3> QED BY <3>5, <3>6, <3>7 DEF NullInv, Reserve, NullNeedsMmapFailure
  <2> QED BY <2>4, <2>5
<1>3. CASE size_class(size) = "LARGE" /\ find_free_large_block
  <2>1. pc' = "return" /\ (new' = NULL => mmap_failed') /\ (mmap_failed => mmap_failed')
    <3>1. mmap_failed' \/ new' # NULL
      <4>1. CASE first_fit(size) # 0
        <5>1. free_list["LARGE"][first_fit(size)] \in Addr
          BY <1>1, <4>1, FirstFit, InList DEF Type
        <5> QED BY <1>1, <1>3, <4>1, <5>1, ZeroIndex DEF find_free_large_block, Ptr
      <4>2. CASE first_fit(size) = 0
        BY <1>1, <1>3, <4>2, ZeroIndex DEF find_free_large_block, Ptr, mmap_fails
      <4> QED BY <4>1, <4>2
    <3> QED BY <1>3, <3>1 DEF find_free_large_block, mmap_fails
  <2>2. \A l \in ZoneType : free_list'[l] = free_list[l]
    BY <1>1, <1>3 DEF find_free_large_block, reuse_block, create_block, heapVars,
                      HeapTypeOK, Type, ZoneType
  <2>3. initialized' = initialized
    BY <1>3 DEF find_free_large_block, reuse_block, create_block, heapVars
  <2> QED BY <1>1, <2>1, <2>2, <2>3 DEF NullInv, Reserve, NullNeedsMmapFailure
<1> QED BY <1>2, <1>3 DEF alloc_block

(* Every step keeps the reserve, or follows a failed mmap.                 *)
LEMMA NextNullInv == IInv /\ NullInv /\ [Next]_vars => NullInv'
<1> SUFFICES ASSUME IInv, NullInv, [Next]_vars PROVE NullInv'
  OBVIOUS
<1> USE DEF NullInv, Reserve, NullNeedsMmapFailure
<1>0. HeapInv /\ NULL \notin Ptr
  BY IInvParts, HeapAssumption
<1>1. ASSUME NEW p, NEW n \in Requests, pc = "idle", enter_malloc(p, n)
      PROVE  NullInv'
  BY <1>1 DEF enter_malloc, heapVars, ghostVars, rejected
<1>2. ASSUME NEW p \in InUse, free_ptr(p), pc \in {"idle", "realloc_free"}, pc' = "idle",
             UNCHANGED mmap_failed
      PROVE  NullInv'
  BY <1>0, <1>2, FreePtr
<1>3. CASE \E p \in Ptr : free(p)
  BY <1>2, <1>3 DEF free, IInv, BlocksAccounted, Held, callVars, ghostVars
<1>4. CASE \E p \in Ptr, n \in Requests : realloc_in_place(p, n) \/ Write(p)
  BY <1>4 DEF realloc_in_place, Write, heapVars, callVars, ghostVars
<1>5. CASE setup_tiny
  <2>1. CASE \E z \in Addr : create_zone("TINY", z) /\ pc' = "setup_small"
                             /\ UNCHANGED <<initialized, mmap_failed>>
    BY <1>0, <1>5, <2>1, CreateZoneReserve DEF setup_tiny, ZoneType
  <2>2. CASE mmap_fails
    BY <2>2 DEF mmap_fails
  <2> QED BY <1>5, <2>1, <2>2 DEF setup_tiny
<1>6. CASE setup_small
  <2>1. CASE \E z \in Addr : create_zone("SMALL", z) /\ pc' = "alloc_block" /\ initialized'
                             /\ UNCHANGED mmap_failed
    BY <1>0, <1>6, <2>1, CreateZoneReserve DEF setup_small, ZoneType
  <2>2. CASE mmap_fails
    BY <2>2 DEF mmap_fails
  <2> QED BY <1>6, <2>1, <2>2 DEF setup_small
<1>7. CASE refill
  <2>1. type[new[1]] \in ZoneType /\ new # NULL
    BY <1>7 DEF refill, IInv, CallConsistent
  <2>2. CASE \E z \in Addr : create_zone(type[new[1]], z) /\ pc' = "return"
                             /\ UNCHANGED <<initialized, new, ghostVars>>
    BY <1>0, <1>7, <2>1, <2>2, CreateZoneReserve DEF ghostVars
  <2>3. CASE mmap_fails
    BY <2>3 DEF mmap_fails
  <2> QED BY <1>7, <2>2, <2>3 DEF refill
<1>8. CASE alloc_block
  BY <1>8, AllocBlockNull
<1>9. CASE malloc_return \/ realloc_fails \/ realloc_copy
  BY <1>9 DEF malloc_return, realloc_fails, realloc_copy, heapVars, ghostVars
<1>10. CASE realloc_free
  BY <1>2, <1>10 DEF realloc_free, IInv, CallConsistent, BlocksAccounted, Held, ghostVars
<1>11. CASE UNCHANGED vars
  BY <1>11 DEF vars, heapVars, callVars, ghostVars
<1>12. CASE \E p \in Ptr, n \in Requests : realloc_grow(p, n)
  BY <1>1, <1>12 DEF realloc_grow
<1>13. CASE \E n \in Requests : malloc(n)
  BY <1>1, <1>13 DEF malloc
<1>14. CASE \E p \in Ptr : Write(p)
  BY <1>14 DEF Write, heapVars, callVars, ghostVars
<1> QED BY <1>3, <1>4, <1>5, <1>6, <1>7, <1>8, <1>9, <1>10, <1>11, <1>12, <1>13, <1>14
        DEF Next, Call, Step

(* malloc refuses a legal request only after an mmap has failed: the zone  *)
(* that find_free_block maps in advance and the zone that free keeps are   *)
(* enough.                                                                 *)
THEOREM RefusedOnlyAfterMmapFailure == Spec => []NullNeedsMmapFailure
<1>1. Init => NullInv
  BY DEF Init, HeapInit, NullInv, Reserve, NullNeedsMmapFailure
<1> QED BY <1>1, NextNullInv, Inductive, PTL DEF Spec, NullInv

-----------------------------------------------------------------------------
(* The sizes of blocks.                                                    *)

SizeInv ==
  /\ LargeSizes
  /\ RequestsFit
  /\ new # NULL => size <= current_size(new)

(* A step keeps SizeInv if the heap keeps sizes and what the program holds *)
(* afterwards was in use and large enough before.                          *)
LEMMA SizeStep ==
  ASSUME IInv, IInv', SizeInv, SizesKept,
         \A p \in live' : p \in InUse /\ asked'[p] <= current_size(p),
         new' # NULL => size' <= current_size(new)'
  PROVE  SizeInv'
<1>1. HeapInv /\ HeapInv' /\ LargeSizes /\ live' \subseteq InUse'
  BY DEF IInv, TypeOK, HeapInv, BlocksAccounted, Held, SizeInv
<1>2. \A p \in live' : asked'[p] <= current_size(p)'
  BY <1>1, KeepsSizes
<1> QED BY <1>1, <1>2, KeepsSizes DEF SizeInv, RequestsFit

(* alloc_block hands out blocks that are large enough.                     *)
LEMMA AllocBlockSizes ==
  ASSUME IInv, IInv', SizeInv, alloc_block
  PROVE  SizesKept /\ (new' # NULL => size' <= current_size(new)')
<1>1. /\ pc = "alloc_block" /\ new = NULL /\ size' = size /\ size \in Nat
      /\ HeapInv /\ HeapTypeOK /\ HeapTypeOK' /\ new' \in Ptr \cup {NULL}
  BY DEF alloc_block, IInv, TypeOK, HeapInv, CallConsistent
<1>2. \A b \in Range(free_list["LARGE"]) : b \in Addr /\ type[b] = "LARGE"
  BY <1>1, InList DEF Type
<1>3. CASE size_class(size) \in ZoneType /\ find_free_block(size_class(size))
  <2> DEFINE k == size_class(size)
             z == Head(free_list[k])
             i == find_set_bit(z)
  <2>1. CASE free_list[k] = <<>> \/ i = -1
    <3>1. UNCHANGED <<heapVars, new>>
      BY <1>3, <2>1 DEF find_free_block
    <3> QED BY <1>1, <3>1, HeapUnchangedSizes
  <2>2. CASE ~(free_list[k] = <<>> \/ i = -1)
    <3>1. take_block(z, i, size) /\ new' = <<z, i>>
      BY <1>3, <2>2 DEF find_free_block
    <3>2. z \in Range(free_list[k]) /\ type[z] = k
      BY <1>1, <1>3, <2>2, HeadRange, InList DEF HeapTypeOK, Type
    <3>3. free_list'["LARGE"] = free_list["LARGE"] /\ type' = type /\ block_size' = block_size
      BY <1>1, <1>3, <3>1, <3>2 DEF take_block, HeapTypeOK, Type, ZoneType
    <3>4. SizesKept
      BY <1>2, <3>3 DEF SizesKept, UNMAPPED
    <3>5. new' # NULL => size <= current_size(new')
      BY <1>1, <1>3, <3>1, <3>2, ClassFits
    <3>6. current_size(new)' = current_size(new')
      BY <3>3 DEF current_size
    <3> QED BY <1>1, <3>4, <3>5, <3>6
  <2> QED BY <2>1, <2>2
<1>4. CASE size_class(size) = "LARGE" /\ find_free_large_block
  <2>1. size > SMALL_BLOCK_SIZE
    <3>1. TINY_BLOCK_SIZE \in Nat /\ SMALL_BLOCK_SIZE \in Nat
      BY HeapAssumption
    <3> QED BY <1>1, <1>4, <3>1 DEF size_class
  <2> DEFINE j == first_fit(size)
             c == free_list["LARGE"][j]
  <2>2. CASE j # 0
    <3>1. reuse_block(c) /\ new' = <<c, 0>>
      BY <1>4, <2>2 DEF find_free_large_block
    <3>2. c \in Range(free_list["LARGE"]) /\ block_size[c] >= size
      BY <1>1, <2>2, FirstFit
    <3> HIDE DEF c
    <3>3. c \in Addr /\ type[c] = "LARGE" /\ type' = type /\ block_size' = block_size
      BY <1>2, <3>1, <3>2 DEF reuse_block
    <3>4. Range(free_list'["LARGE"]) = Range(free_list["LARGE"]) \ {c}
      <4>1. /\ free_list["LARGE"] \in Seq(Addr) /\ IsInjective(free_list["LARGE"])
            /\ free_list'["LARGE"] = RemoveFirst(free_list["LARGE"], c)
        BY <1>1, <3>1 DEF reuse_block, block_detach, HeapInv, HeapTypeOK, ListsConsistent, Type
      <4> QED BY <3>2, <4>1, RemoveFirstRange
    <3>5. SizesKept
      BY <1>2, <3>3, <3>4 DEF SizesKept, UNMAPPED
    <3>6. current_size(new)' = block_size[c] /\ block_size[c] \in Nat
      BY <1>1, <3>1, <3>3 DEF current_size, HeapTypeOK
    <3> QED BY <1>1, <3>2, <3>5, <3>6
  <2>3. CASE UNCHANGED <<heapVars, new>>
    BY <1>1, <2>3, HeapUnchangedSizes
  <2>4. CASE j = 0 /\ ~UNCHANGED <<heapVars, new>>
    <3>1. PICK b \in Addr : create_block(b, size) /\ new' = <<b, 0>>
      BY <1>4, <2>4 DEF find_free_large_block
    <3>2. /\ type[b] = UNMAPPED /\ free_list' = free_list
          /\ \A a \in Addr : type'[a] = IF a = b THEN "LARGE" ELSE type[a]
          /\ \A a \in Addr : block_size'[a] = IF a = b THEN size ELSE block_size[a]
      BY <1>1, <3>1 DEF create_block, Unmapped, HeapTypeOK
    <3>3. SizesKept
      BY <1>2, <2>1, <3>2 DEF SizesKept, UNMAPPED
    <3>4. current_size(new)' = size
      BY <3>1, <3>2 DEF current_size
    <3> QED BY <1>1, <3>3, <3>4
  <2> QED BY <2>2, <2>3, <2>4
<1> QED BY <1>3, <1>4 DEF alloc_block

(* Every step keeps what is known of the sizes.                            *)
LEMMA NextSizeInv == IInv /\ IInv' /\ SizeInv /\ [Next]_vars => SizeInv'
<1> SUFFICES ASSUME IInv, IInv', SizeInv, [Next]_vars PROVE SizeInv'
  OBVIOUS
<1>1. /\ HeapInv /\ HeapInv' /\ NULL \notin Ptr
      /\ asked \in [Ptr -> Nat] /\ live \subseteq Ptr /\ size \in Nat
      /\ new \in Ptr \cup {NULL} /\ ptr \in Ptr \cup {NULL}
      /\ InUse = live \cup leaked \cup (IF new = NULL THEN {} ELSE {new})
      /\ InUse' = live' \cup leaked' \cup (IF new' = NULL THEN {} ELSE {new'})
      /\ new \notin live
  BY HeapAssumption DEF IInv, TypeOK, HeapInv, BlocksAccounted, Held
<1>2. /\ \A p \in live : p \in InUse /\ asked[p] <= current_size(p)
      /\ new # NULL => size <= current_size(new)
      /\ LargeSizes
  BY <1>1 DEF SizeInv, RequestsFit
<1>3. UNCHANGED heapVars => SizesKept /\ \A p : current_size(p)' = current_size(p)
  BY <1>1, HeapUnchangedSizes DEF current_size, heapVars
<1>4. ASSUME NEW p, NEW n, enter_malloc(p, n)
      PROVE  SizeInv'
  BY <1>2, <1>3, <1>4, SizeStep DEF enter_malloc, clientVars
<1>5. CASE \E p \in Ptr : free(p)
  <2>1. PICK p \in Ptr : free(p)
    BY <1>5
  <2>2. SizesKept
    BY <1>1, <2>1, FreePtrSizes DEF free
  <2>3. new = NULL /\ new' = NULL
    BY <2>1 DEF free, callVars, IInv, CallConsistent
  <2>4. \A q \in live' : q \in InUse /\ asked'[q] <= current_size(q)
    BY <1>1, <1>2, <2>1 DEF free
  <2> QED BY <2>2, <2>3, <2>4, SizeStep
<1>6. CASE \E p \in Ptr, n \in Requests : realloc_in_place(p, n)
  <2>1. PICK p \in Ptr, n \in Requests : realloc_in_place(p, n)
    BY <1>6
  <2>2. new = NULL /\ new' = NULL /\ UNCHANGED heapVars
    BY <2>1 DEF realloc_in_place, callVars, IInv, CallConsistent
  <2>3. \A q \in live' : q \in InUse /\ asked'[q] <= current_size(q)
    BY <1>1, <1>2, <2>1 DEF realloc_in_place
  <2> QED BY <1>3, <2>2, <2>3, SizeStep
<1>7. CASE (\E p \in Ptr : Write(p)) \/ UNCHANGED vars
  <2>1. UNCHANGED <<heapVars, callVars, live, asked>>
    BY <1>7 DEF Write, vars, clientVars
  <2>2. UNCHANGED heapVars /\ new' = new /\ size' = size /\ live' = live /\ asked' = asked
    BY <2>1 DEF callVars
  <2> QED BY <1>2, <1>3, <2>2, SizeStep
<1>8. CASE setup_tiny \/ setup_small
  <2>1. new = NULL /\ new' = NULL /\ UNCHANGED <<live, asked>>
    BY <1>8 DEF setup_tiny, setup_small, IInv, CallConsistent, clientVars
  <2>2. SizesKept
    BY <1>1, <1>3, <1>8, CreateZoneSizes DEF setup_tiny, setup_small, ZoneType
  <2> QED BY <1>2, <2>1, <2>2, SizeStep
<1>9. CASE alloc_block
  <2>1. UNCHANGED <<live, asked>>
    BY <1>9 DEF alloc_block, clientVars
  <2> QED BY <1>2, <1>9, <2>1, AllocBlockSizes, SizeStep
<1>10. CASE refill
  <2>1. /\ UNCHANGED <<live, asked>> /\ size' = size
        /\ new' \in {new, NULL} /\ new # NULL /\ type[new[1]] \in ZoneType
    BY <1>10 DEF refill, clientVars, IInv, CallConsistent
  <2>2. SizesKept
    BY <1>1, <1>3, <1>10, <2>1, CreateZoneSizes DEF refill
  <2>3. new' = new => current_size(new)' = current_size(new)
    BY <1>1, <1>2, <2>1, <2>2, KeepsSizes
  <2> QED BY <1>2, <2>1, <2>2, <2>3, SizeStep
<1>11. CASE malloc_return
  <2>1. UNCHANGED heapVars /\ new' = NULL
    BY <1>11 DEF malloc_return
  <2>2. \A q \in live' : q \in InUse /\ asked'[q] <= current_size(q)
    BY <1>1, <1>2, <1>11 DEF malloc_return, clientVars
  <2> QED BY <1>3, <2>1, <2>2, SizeStep
<1>12. CASE realloc_fails \/ realloc_copy
  <2>1. UNCHANGED heapVars /\ (new' # NULL => size' = size) /\ new' = new
        /\ UNCHANGED <<live, asked>>
    BY <1>12 DEF realloc_fails, realloc_copy, clientVars
  <2> QED BY <1>2, <1>3, <2>1, SizeStep
<1>13. CASE realloc_free
  <2>1. ptr \in live /\ ptr # NULL /\ new # NULL
    BY <1>13 DEF realloc_free, IInv, CallConsistent
  <2>2. SizesKept
    BY <1>1, <1>13, <2>1, FreePtrSizes DEF realloc_free
  <2>3. \A q \in live' : q \in InUse /\ asked'[q] <= current_size(q)
    BY <1>1, <1>2, <1>13, <2>1 DEF realloc_free
  <2>4. new' = NULL
    BY <1>13 DEF realloc_free
  <2> QED BY <2>2, <2>3, <2>4, SizeStep
<1> QED BY <1>4, <1>5, <1>6, <1>7, <1>8, <1>9, <1>10, <1>11, <1>12, <1>13
        DEF Next, Call, Step, malloc, realloc_grow

(* SizeInv holds in every state of every execution.                        *)
THEOREM SizesInductive == Spec => []SizeInv
<1>1. Init => SizeInv
  BY EmptyRange DEF Init, HeapInit, SizeInv, LargeSizes, RequestsFit, UNMAPPED, Type, ZoneType
<1> QED BY <1>1, NextSizeInv, Inductive, PTL DEF Spec

(* What malloc and realloc return is as large as what was asked for.       *)
THEOREM EveryRequestFits == Spec => []RequestsFit
BY SizesInductive, PTL DEF SizeInv

(* The cache of large blocks holds large blocks only, none above the bound *)
(* free unmaps at.                                                         *)
THEOREM CacheIsBounded == Spec => []CacheBounded
<1>1. IInv /\ SizeInv => CacheBounded
  BY IInvParts, InList DEF SizeInv, LargeSizes, CacheBounded, Type
<1> QED BY <1>1, Inductive, SizesInductive, PTL

-----------------------------------------------------------------------------
(* AbstractMalloc is implemented.                                          *)

(* A call that has or may get a block asked for a positive number of       *)
(* bytes, realloc asks for more than the old block has, and has copied all *)
(* of it before it frees it.                                               *)
CallInv ==
  /\ pc # "idle" /\ ~(pc = "return" /\ new = NULL) => size \in Requests /\ size > 0
  /\ ptr # NULL => size > current_size(ptr)
  /\ pc = "realloc_free" => mem[new] = Min({mem[ptr], copy_size})

(* A step of malloc's leaves the sizes of what the program holds alone.    *)
LEMMA StepKeepsSizes ==
  ASSUME IInv, IInv', SizeInv, setup_tiny \/ setup_small \/ alloc_block \/ refill
  PROVE  \A p \in live \cap live' : current_size(p)' = current_size(p)
<1>1. HeapInv /\ HeapInv' /\ LargeSizes /\ live \subseteq InUse /\ live' \subseteq InUse'
  BY DEF IInv, TypeOK, HeapInv, BlocksAccounted, Held, SizeInv
<1>2. SizesKept
  <2>1. CASE setup_tiny \/ setup_small
    BY <1>1, <2>1, CreateZoneSizes, HeapUnchangedSizes DEF setup_tiny, setup_small, ZoneType
  <2>2. CASE alloc_block
    BY <2>2, AllocBlockSizes
  <2>3. CASE refill
    BY <1>1, <2>3, CreateZoneSizes, HeapUnchangedSizes DEF refill, IInv, CallConsistent
  <2> QED BY <2>1, <2>2, <2>3
<1> QED BY <1>1, <1>2, KeepsSizes

(* Every step keeps what is known of the call.                             *)
LEMMA NextCallInv == IInv /\ IInv' /\ SizeInv /\ CallInv /\ [Next]_vars => CallInv'
<1> SUFFICES ASSUME IInv, IInv', SizeInv, CallInv, [Next]_vars PROVE CallInv'
  OBVIOUS
<1>1. /\ CallConsistent /\ pc \in PC /\ new \in Ptr \cup {NULL} /\ NULL \notin Ptr
      /\ ptr \in Ptr \cup {NULL} /\ mem \in [Ptr -> Nat] /\ size \in Nat
  BY HeapAssumption DEF IInv, TypeOK
<1>2. CASE \/ \E n \in Requests : malloc(n)
           \/ \E p \in Ptr, n \in Requests : realloc_grow(p, n)
  <2>1. PICK p \in Ptr \cup {NULL}, n \in Requests :
          /\ pc = "idle" /\ enter_malloc(p, n)
          /\ p # NULL => n > current_size(p)
    BY <1>1, <1>2 DEF malloc, realloc_grow
  <2>2. /\ size' = n /\ ptr' = p /\ new' = NULL /\ n \in Nat
        /\ pc' \in {"return", "setup_tiny", "alloc_block"}
        /\ pc' # "return" => n # 0
        /\ UNCHANGED heapVars
    BY <2>1, RequestsAssumption DEF enter_malloc, rejected
  <2>3. current_size(p)' = current_size(p)
    BY <2>2 DEF heapVars, current_size
  <2> QED BY <2>1, <2>2, <2>3 DEF CallInv, current_size
<1>3. CASE \/ \E p \in Ptr : free(p) \/ Write(p)
           \/ \E p \in Ptr, n \in Requests : realloc_in_place(p, n)
  <2>1. UNCHANGED <<pc, size, ptr, new>> /\ pc = "idle"
    BY <1>3 DEF free, Write, realloc_in_place, callVars
  <2> QED BY <1>1, <2>1 DEF CallInv, CallConsistent
<1>4. CASE setup_tiny \/ setup_small \/ alloc_block \/ refill
  <2>1. /\ UNCHANGED <<size, ptr, live>> /\ pc' # "realloc_free"
        /\ pc \in {"setup_tiny", "setup_small", "alloc_block", "refill"}
    BY <1>4 DEF setup_tiny, setup_small, alloc_block, find_free_block, find_free_large_block,
                refill, mmap_fails, clientVars
  <2>2. ptr # NULL => current_size(ptr)' = current_size(ptr)
    BY <1>1, <1>4, <2>1, StepKeepsSizes DEF CallConsistent, current_size
  <2> QED BY <2>1, <2>2 DEF CallInv, current_size
<1>5. CASE realloc_copy
  <2>1. /\ UNCHANGED <<size, ptr, new, heapVars>> /\ ptr # NULL /\ new # NULL /\ pc = "return"
        /\ mem' = [mem EXCEPT ![new] = Min({mem[ptr], copy_size})]
    BY <1>5 DEF realloc_copy
  <2>2. ptr # new
    BY <1>1, <2>1 DEF CallConsistent, IInv, BlocksAccounted
  <2>3. copy_size' = copy_size /\ current_size(ptr)' = current_size(ptr)
    BY <2>1 DEF heapVars, copy_size, current_size
  <2> QED BY <1>1, <2>1, <2>2, <2>3 DEF CallInv, current_size
<1>6. CASE malloc_return \/ realloc_fails \/ realloc_free
  BY <1>6 DEF malloc_return, realloc_fails, realloc_free, CallInv
<1>7. CASE UNCHANGED vars
  BY <1>7 DEF vars, heapVars, callVars, clientVars, CallInv, current_size, copy_size
<1> QED BY <1>2, <1>3, <1>4, <1>5, <1>6, <1>7 DEF Next, Call, Step

(* The bytes the program may rely on at p: the refinement mapping.         *)
Contents(p) == IF p \in live THEN Min({mem[p], asked[p]}) ELSE 0

(* Before the first call the program holds nothing.                        *)
LEMMA InitMapped == Init => Abs!AbsInit
BY DEF Init, Abs!AbsInit

(* A step that is of no concern to the program.                            *)
LEMMA Stutters ==
  ASSUME UNCHANGED <<live, asked>>, \A p \in live : mem'[p] = mem[p]
  PROVE  UNCHANGED Abs!absVars
BY DEF Abs!absVars

(* Every step is a step of AbstractMalloc or is of no concern to the       *)
(* program.                                                                *)
LEMMA NextMapped ==
  IInv /\ SizeInv /\ CallInv /\ [Next]_vars => [Abs!AbsNext]_(Abs!absVars)
<1> SUFFICES ASSUME IInv, SizeInv, CallInv, [Next]_vars
             PROVE  Abs!AbsNext \/ UNCHANGED Abs!absVars
  OBVIOUS
<1>1. /\ CallConsistent /\ BlocksAccounted /\ NULL \notin Ptr
      /\ new \in Ptr \cup {NULL} /\ ptr \in Ptr \cup {NULL} /\ size \in Nat /\ live \subseteq Ptr
      /\ mem \in [Ptr -> Nat] /\ asked \in [Ptr -> Nat]
  BY HeapAssumption DEF IInv, TypeOK
<1>2. \A a, b \in Nat : Min({a, b}) = IF a <= b THEN a ELSE b
  BY MinOfTwo
<1>3. CASE malloc_return
  <2>1. CASE new = NULL
    BY <1>3, <2>1, Stutters DEF malloc_return, clientVars
  <2>2. CASE new # NULL
    <3>1. PICK p \in Ptr, n \in Requests : p = new /\ n = size /\ n > 0 /\ p \notin live
      BY <1>1, <1>3, <2>2 DEF malloc_return, CallInv, BlocksAccounted
    <3>2. /\ live' = live \cup {p} /\ asked' = [asked EXCEPT ![p] = n]
          /\ mem' = [mem EXCEPT ![p] = 0]
      BY <1>3, <2>2, <3>1 DEF malloc_return
    <3>3. Min({0, n}) = 0
      BY <1>1, <1>2, <3>1
    <3>4. \A q \in Ptr : Contents(q)' = IF q = p THEN 0 ELSE Contents(q)
      BY <1>1, <3>1, <3>2, <3>3 DEF Contents
    <3>5. Abs!AbsMalloc(p, n)
      BY <3>1, <3>2, <3>4 DEF Abs!AbsMalloc, Contents
    <3> QED BY <3>5 DEF Abs!AbsNext
  <2> QED BY <2>1, <2>2
<1>4. CASE \E p \in Ptr : free(p)
  <2>1. PICK p \in Ptr : free(p)
    BY <1>4
  <2>2. Abs!AbsFree(p)
    BY <1>1, <2>1 DEF free, Abs!AbsFree
  <2> QED BY <2>2 DEF Abs!AbsNext
<1>5. CASE \E p \in Ptr : Write(p)
  <2>1. PICK p \in Ptr : Write(p)
    BY <1>5
  <2>2. /\ p \in live /\ asked[p] \in Nat /\ mem' = [mem EXCEPT ![p] = asked[p]]
        /\ UNCHANGED <<live, asked>>
    BY <1>1, <2>1 DEF Write
  <2>3. Min({asked[p], asked[p]}) = asked[p]
    BY <1>2, <2>2
  <2>4. \A q \in Ptr : Contents(q)' = IF q = p THEN asked[p] ELSE Contents(q)
    BY <1>1, <2>2, <2>3 DEF Contents
  <2>5. Abs!AbsWrite(p)
    BY <2>2, <2>4 DEF Abs!AbsWrite, Contents
  <2> QED BY <2>5 DEF Abs!AbsNext
<1>6. CASE \E p \in Ptr, n \in Requests : realloc_in_place(p, n)
  <2>1. PICK p \in Ptr, n \in Requests : realloc_in_place(p, n)
    BY <1>6
  <2>2. /\ p \in live /\ n \in Nat /\ asked' = [asked EXCEPT ![p] = n]
        /\ UNCHANGED <<live, mem>>
    BY <2>1, RequestsAssumption DEF realloc_in_place
  <2>3. Abs!AbsReallocInPlace(p, n)
    <3> DEFINE c == Min({mem[p], n})
    <3>1. c \in 0 .. n /\ (c >= Min({mem[p], asked[p]}) \/ c = n)
      BY <1>1, <1>2, <2>2
    <3> QED BY <1>1, <2>2, <3>1 DEF Abs!AbsReallocInPlace
  <2> QED BY <2>3 DEF Abs!AbsNext
<1>7. CASE realloc_free
  <2>1. PICK p \in Ptr, q \in Ptr, n \in Requests :
          p = ptr /\ q = new /\ n = size /\ p \in live /\ q \notin live
    BY <1>1, <1>7 DEF realloc_free, CallConsistent, CallInv, BlocksAccounted
  <2>2. /\ live' = (live \ {p}) \cup {q}
        /\ asked' = [asked EXCEPT ![p] = 0, ![q] = n]
        /\ mem' = [mem EXCEPT ![p] = 0]
    BY <1>7, <2>1 DEF realloc_free
  <2> DEFINE c == Min({mem[q], n})
  <2>3. c \in 0 .. n /\ c >= Min({mem[p], asked[p]})
    <3>1. /\ current_size(p) \in Nat /\ n > current_size(p) /\ asked[p] <= current_size(p)
          /\ mem[q] = Min({mem[p], current_size(p)}) /\ n \in Nat
      <4>1. current_size(p) \in Nat
        BY CurrentSizeNat DEF IInv, TypeOK
      <4>2. n > current_size(p)
        BY <1>1, <2>1 DEF CallInv
      <4>3. copy_size = current_size(p)
        BY <1>1, <2>1, <4>1, <4>2 DEF copy_size
      <4>4. mem[q] = Min({mem[p], current_size(p)})
        BY <1>7, <2>1, <4>3 DEF CallInv, realloc_free
      <4> QED BY <1>1, <2>1, <4>1, <4>2, <4>4 DEF SizeInv, RequestsFit
    <3> QED BY <1>1, <1>2, <2>1, <3>1
  <2> HIDE DEF c
  <2>4. \A r \in Ptr : Contents(r)' = IF r = q THEN c ELSE IF r = p THEN 0 ELSE Contents(r)
    BY <1>1, <2>1, <2>2 DEF Contents, c
  <2>5. c >= Contents(p)
    BY <2>1, <2>3 DEF Contents
  <2>6. Abs!AbsReallocMove(p, q, n)
    BY <2>1, <2>2, <2>3, <2>4, <2>5 DEF Abs!AbsReallocMove, Contents
  <2> QED BY <2>6 DEF Abs!AbsNext
<1>8. CASE realloc_copy
  <2>1. \A p \in live : p # new
    BY <1>1 DEF BlocksAccounted
  <2>2. UNCHANGED <<live, asked>> /\ mem' = [mem EXCEPT ![new] = Min({mem[ptr], copy_size})]
    BY <1>8 DEF realloc_copy
  <2> QED BY <1>1, <2>1, <2>2, Stutters
<1>9. CASE UNCHANGED clientVars
  BY <1>9, Stutters DEF clientVars
<1>10. CASE \/ \E n \in Requests : malloc(n)
            \/ \E p \in Ptr, n \in Requests : realloc_grow(p, n)
            \/ setup_tiny \/ setup_small \/ alloc_block \/ refill \/ realloc_fails
            \/ UNCHANGED vars
  BY <1>9, <1>10 DEF malloc, realloc_grow, enter_malloc, setup_tiny, setup_small, alloc_block,
                     refill, realloc_fails, vars
<1> QED BY <1>3, <1>4, <1>5, <1>6, <1>7, <1>8, <1>10 DEF Next, Call, Step

(* malloc, free and realloc implement AbstractMalloc: what the program     *)
(* holds is never handed out again, and what it stored stays until it      *)
(* frees it, through every realloc and every failed mmap.                  *)
THEOREM ImplementsAbstractMalloc == Spec => Refinement
<1>1. Init => CallInv
  BY DEF Init, CallInv
<1>2. Spec => []CallInv
  BY <1>1, NextCallInv, Inductive, SizesInductive, PTL DEF Spec
<1> QED BY <1>2, InitMapped, NextMapped, Inductive, SizesInductive, PTL
        DEF Spec, Refinement, Abs!AbsSpec

-----------------------------------------------------------------------------
(* What show_alloc_mem prints.                                             *)

(* alloc_block records a positive size no larger than the block.           *)
LEMMA AllocBlockRecords ==
  ASSUME IInv, CallInv, RecordsFit, alloc_block
  PROVE  RecordsFit'
<1>1. HeapInv /\ HeapTypeOK /\ size \in Nat /\ size > 0
  BY DEF alloc_block, IInv, TypeOK, HeapInv, CallInv
<1>2. CASE UNCHANGED heapVars
  BY <1>1, <1>2, HeapUnchangedRecords, RecordsStep
<1>3. CASE size_class(size) \in ZoneType /\ find_free_block(size_class(size)) /\ ~UNCHANGED heapVars
  <2> DEFINE k == size_class(size)
             z == Head(free_list[k])
             i == find_set_bit(z)
  <2>1. free_list[k] # <<>> /\ i # -1 /\ take_block(z, i, size)
    BY <1>3 DEF find_free_block
  <2>2. z \in Range(free_list[k]) /\ z \in Addr
    BY <1>1, <1>3, <2>1, HeadRange, InList DEF HeapTypeOK, Type
  <2>3. i \in bitmap[z]
    BY <1>1, <2>1, <2>2, FindSetBit
  <2> QED BY <1>1, <1>3, <2>1, <2>2, <2>3, TakeBlockRecords
<1>4. CASE size_class(size) = "LARGE" /\ find_free_large_block /\ ~UNCHANGED heapVars
  <2>1. PICK b : \/ b \in Range(free_list["LARGE"]) /\ reuse_block(b)
                 \/ b \in Addr /\ create_block(b, size)
    BY <1>1, <1>4, FirstFit DEF find_free_large_block
  <2>2. b \in Addr
    BY <1>1, <2>1, InList DEF Type
  <2> QED BY <1>1, <2>1, <2>2, LargeRecords, RecordsStep
<1> QED BY <1>2, <1>3, <1>4 DEF alloc_block

(* What a step may do to the heap.                                         *)
LEMMA HeapSteps ==
  ASSUME IInv, [Next]_vars
  PROVE  \/ UNCHANGED heapVars
         \/ \E k \in ZoneType, z \in Addr : create_zone(k, z)
         \/ \E p \in InUse : free_ptr(p)
         \/ alloc_block
<1>1. CallConsistent /\ live \subseteq InUse /\ NULL \notin Ptr
  BY HeapAssumption DEF IInv, BlocksAccounted, Held
<1>2. CASE setup_tiny \/ setup_small \/ refill
  BY <1>1, <1>2 DEF setup_tiny, setup_small, refill, CallConsistent, ZoneType
<1>3. CASE (\E p \in Ptr : free(p)) \/ realloc_free
  BY <1>1, <1>3 DEF free, realloc_free, CallConsistent
<1>4. CASE \/ \E n \in Requests : malloc(n)
           \/ \E p \in Ptr : Write(p)
           \/ \E p \in Ptr, n \in Requests : realloc_in_place(p, n) \/ realloc_grow(p, n)
           \/ malloc_return \/ realloc_fails \/ realloc_copy \/ UNCHANGED vars
  BY <1>4 DEF malloc, realloc_grow, enter_malloc, Write, realloc_in_place, malloc_return,
              realloc_fails, realloc_copy, vars
<1> QED BY <1>2, <1>3, <1>4 DEF Next, Call, Step

(* Every step keeps the records right.                                     *)
LEMMA NextRecordsFit == IInv /\ IInv' /\ CallInv /\ RecordsFit /\ [Next]_vars => RecordsFit'
<1> SUFFICES ASSUME IInv, IInv', CallInv, RecordsFit, [Next]_vars PROVE RecordsFit'
  OBVIOUS
<1>1. HeapInv /\ initialized' \in BOOLEAN
  BY DEF IInv, TypeOK, HeapTypeOK, HeapInv
<1>2. RecordsKept \/ alloc_block
  BY <1>1, HeapSteps, HeapUnchangedRecords, CreateZoneRecords, FreePtrRecords
<1> QED BY <1>2, RecordsStep, AllocBlockRecords

(* What show_alloc_mem prints for a block in use.                          *)
recorded(p) == IF type[p[1]] \in ZoneType THEN requested_sizes[p] ELSE block_size[p[1]]

(* The loops of show_alloc_mem, and the list each of them walks.           *)
Loop == {"free_tiny", "full_tiny", "free_small", "full_small", "large"}
listed(loop) ==
  CASE loop = "free_tiny"  -> free_list["TINY"]
    [] loop = "full_tiny"  -> full_list["TINY"]
    [] loop = "free_small" -> free_list["SMALL"]
    [] loop = "full_small" -> full_list["SMALL"]
    [] loop = "large"      -> full_list["LARGE"]

(* The line of a block in use, written in turn n of a loop.                *)
IsLine(l, loop, n) ==
  /\ loop \in Loop
  /\ n \in DOMAIN listed(loop)
  /\ \E p \in InUse : /\ p[1] = listed(loop)[n]
                      /\ l = [turn |-> <<loop, n>>, at |-> p, bytes |-> recorded(p)]

(* The lines of a zone are about its blocks that are in use.               *)
LEMMA ZoneLines ==
  ASSUME HeapInv, NEW loop \in Loop \ {"large"}, NEW l \in show_zones(loop, listed(loop))
  PROVE  \E n : IsLine(l, loop, n)
<1>1. PICK n \in DOMAIN listed(loop) : l \in show_zone(<<loop, n>>, listed(loop)[n])
  BY DEF show_zones
<1> DEFINE z == listed(loop)[n]
<1>2. z \in Addr /\ type[z] \in ZoneType
  <2>1. z \in Range(listed(loop))
    BY <1>1 DEF Range
  <2>2. \E k \in ZoneType : z \in Range(free_list[k]) \cup Range(full_list[k])
    BY <2>1 DEF listed, Loop, ZoneType
  <2> HIDE DEF z
  <2> QED BY <2>2, InList DEF Type
<1>3. NBlocks[type[z]] \in 2 .. MAX_BLOCKS /\ MAX_BLOCKS \in Nat
  BY <1>2, HeapAssumption
<1>4. PICK b \in (0 .. NBlocks[type[z]] - 1) \ bitmap[z] :
        l = [turn |-> <<loop, n>>, at |-> <<z, b>>, bytes |-> requested_sizes[<<z, b>>]]
  BY <1>1 DEF show_zone
<1>5. <<z, b>> \in Ptr /\ b < NBlocks[type[z]]
  BY <1>2, <1>3 DEF Ptr, BlockIndex
<1>6. <<z, b>> \in InUse /\ requested_sizes[<<z, b>>] = recorded(<<z, b>>)
  BY <1>2, <1>5 DEF InUse, recorded
<1> QED BY <1>1, <1>4, <1>6 DEF IsLine

(* So is every line that is printed.                                       *)
LEMMA EveryLine ==
  ASSUME HeapInv, NEW l \in show_alloc_mem
  PROVE  \E loop, n : IsLine(l, loop, n)
<1>1. CASE l \in show_large("large", full_list["LARGE"])
  <2>1. PICK n \in DOMAIN full_list["LARGE"] :
          l = [turn |-> <<"large", n>>, at |-> <<full_list["LARGE"][n], 0>>,
               bytes |-> block_size[full_list["LARGE"][n]]]
    BY <1>1 DEF show_large
  <2> DEFINE b == full_list["LARGE"][n]
  <2>2. b \in Range(full_list["LARGE"])
    BY <2>1 DEF Range
  <2>3. b \in Addr /\ type[b] = "LARGE"
    BY <2>2, InList DEF Type
  <2>4. <<b, 0>> \in InUse /\ recorded(<<b, 0>>) = block_size[b]
    BY <2>2, <2>3, ZeroIndex DEF InUse, Ptr, recorded, ZoneType
  <2>5. listed("large") = full_list["LARGE"] /\ "large" \in Loop
    BY DEF Loop, listed
  <2>6. IsLine(l, "large", n)
    BY <2>1, <2>4, <2>5 DEF IsLine
  <2> QED BY <2>6
<1>2. CASE \E loop \in Loop \ {"large"} : l \in show_zones(loop, listed(loop))
  BY <1>2, ZoneLines
<1>3. \/ l \in show_large("large", full_list["LARGE"])
      \/ \E loop \in Loop \ {"large"} : l \in show_zones(loop, listed(loop))
  BY DEF show_alloc_mem, Loop, listed
<1> QED BY <1>1, <1>2, <1>3

(* Every block in use has a line.                                          *)
LEMMA EveryBlockHasALine ==
  ASSUME HeapInv, NEW p \in InUse
  PROVE  \E l \in show_alloc_mem : l.at = p
<1>1. PICK a \in Addr, b \in BlockIndex : p = <<a, b>>
  BY InUseMapped DEF Ptr
<1>2. CASE type[a] \in ZoneType
  <2>1. a \in Range(free_list[type[a]]) \cup Range(full_list[type[a]])
    BY <1>2 DEF HeapInv, ListsConsistent, Type
  <2>2. \E loop \in Loop \ {"large"} : a \in Range(listed(loop))
    BY <1>2, <2>1 DEF Loop, listed, ZoneType
  <2>3. PICK loop \in Loop \ {"large"} : a \in Range(listed(loop))
    BY <2>2
  <2>4. PICK n \in DOMAIN listed(loop) : listed(loop)[n] = a
    BY <2>3 DEF Range
  <2>5. NBlocks[type[a]] \in 2 .. MAX_BLOCKS /\ MAX_BLOCKS \in Nat
    BY <1>2, HeapAssumption
  <2>6. b < NBlocks[type[a]] /\ b \notin bitmap[a]
    BY <1>1, <1>2 DEF InUse, ZoneType
  <2>7. b \in (0 .. NBlocks[type[a]] - 1) \ bitmap[a]
    BY <2>5, <2>6 DEF BlockIndex
  <2>8. [turn |-> <<loop, n>>, at |-> <<a, b>>, bytes |-> requested_sizes[<<a, b>>]]
          \in show_zone(<<loop, n>>, listed(loop)[n])
    BY <2>4, <2>7 DEF show_zone
  <2>9. [turn |-> <<loop, n>>, at |-> <<a, b>>, bytes |-> requested_sizes[<<a, b>>]]
          \in show_zones(loop, listed(loop))
    BY <2>4, <2>8 DEF show_zones
  <2>10. show_zones(loop, listed(loop)) \subseteq show_alloc_mem
    BY <2>3 DEF show_alloc_mem, Loop, listed
  <2> QED BY <1>1, <2>9, <2>10
<1>3. CASE type[a] \notin ZoneType
  <2>1. b = 0 /\ a \in Range(full_list["LARGE"])
    BY <1>1, <1>3 DEF InUse
  <2>2. PICK n \in DOMAIN full_list["LARGE"] : full_list["LARGE"][n] = a
    BY <2>1 DEF Range
  <2>3. [turn |-> <<"large", n>>, at |-> <<a, 0>>, bytes |-> block_size[a]] \in show_alloc_mem
    BY <2>2 DEF show_alloc_mem, show_large
  <2> QED BY <1>1, <2>1, <2>3
<1> QED BY <1>2, <1>3

(* No mapping is met in two turns.                                         *)
LEMMA MetOnce ==
  ASSUME HeapInv, NEW x \in Loop, NEW y \in Loop, NEW m \in DOMAIN listed(x),
         NEW n \in DOMAIN listed(y), listed(x)[m] = listed(y)[n]
  PROVE  x = y /\ m = n
<1> DEFINE kind(w) == IF w = "large" THEN "LARGE"
                      ELSE IF w \in {"free_tiny", "full_tiny"} THEN "TINY" ELSE "SMALL"
           a == listed(x)[m]
<1>1. \A w \in Loop : /\ kind(w) \in Type
                      /\ \/ listed(w) = free_list[kind(w)] /\ w \in {"free_tiny", "free_small"}
                         \/ listed(w) = full_list[kind(w)] /\ w \notin {"free_tiny", "free_small"}
  BY DEF Loop, listed, Type, ZoneType
<1>2. a \in Range(listed(x)) /\ a \in Range(listed(y))
  BY DEF Range
<1>3. kind(x) = kind(y)
  <2>1. type[a] = kind(x) /\ type[a] = kind(y)
    <3> HIDE DEF a, kind
    <3> QED BY <1>1, <1>2, InList
  <2> QED BY <2>1
<1>4. x \in {"free_tiny", "free_small"} <=> y \in {"free_tiny", "free_small"}
  <2>1. Range(free_list[kind(x)]) \cap Range(full_list[kind(x)]) = {}
    <3> HIDE DEF kind
    <3> QED BY <1>1 DEF HeapInv, ListsConsistent
  <2> HIDE DEF kind, a
  <2> QED BY <1>1, <1>2, <1>3, <2>1
<1>5. x = y
  <2>1. x = "large" <=> y = "large"
    BY <1>3
  <2>2. x \in {"free_tiny", "full_tiny"} <=> y \in {"free_tiny", "full_tiny"}
    BY <1>3
  <2> HIDE DEF kind, a
  <2> QED BY <1>4, <2>1, <2>2 DEF Loop
<1>6. IsInjective(listed(x))
  <2> HIDE DEF kind
  <2> QED BY <1>1 DEF HeapInv, ListsConsistent
<1>7. m = n
  BY <1>5, <1>6 DEF IsInjective
<1> QED BY <1>5, <1>7

(* The lines are those of the blocks in use, one each.                     *)
LEMMA LinesOfBlocks ==
  ASSUME HeapInv
  PROVE  /\ {l.at : l \in show_alloc_mem} = InUse
         /\ \A l, m \in show_alloc_mem : l.at = m.at => l = m
         /\ \A l \in show_alloc_mem : l.at \in InUse /\ l.bytes = recorded(l.at)
<1>1. \A l \in show_alloc_mem : l.at \in InUse /\ l.bytes = recorded(l.at)
  <2> SUFFICES ASSUME NEW l \in show_alloc_mem
               PROVE  l.at \in InUse /\ l.bytes = recorded(l.at)
    OBVIOUS
  <2>1. PICK loop, n : IsLine(l, loop, n)
    BY EveryLine
  <2> QED BY <2>1 DEF IsLine
<1>2. ASSUME NEW l \in show_alloc_mem, NEW m \in show_alloc_mem, l.at = m.at
      PROVE  l = m
  <2>1. PICK x, u : IsLine(l, x, u)
    BY EveryLine
  <2>2. PICK y, v : IsLine(m, y, v)
    BY EveryLine
  <2>3. PICK p \in InUse : /\ p[1] = listed(x)[u]
                           /\ l = [turn |-> <<x, u>>, at |-> p, bytes |-> recorded(p)]
    BY <2>1 DEF IsLine
  <2>4. PICK q \in InUse : /\ q[1] = listed(y)[v]
                           /\ m = [turn |-> <<y, v>>, at |-> q, bytes |-> recorded(q)]
    BY <2>2 DEF IsLine
  <2>5. p = q
    BY <1>2, <2>3, <2>4
  <2>6. x = y /\ u = v
    BY <2>1, <2>2, <2>3, <2>4, <2>5, MetOnce DEF IsLine
  <2> QED BY <2>3, <2>4, <2>5, <2>6
<1> QED BY <1>1, <1>2, EveryBlockHasALine

(* The bytes of a line are inside its block.                               *)
LEMMA LinesFit ==
  ASSUME HeapInv, LargeSizes, RecordsFit, NEW p \in InUse
  PROVE  0 < recorded(p) /\ recorded(p) <= current_size(p)
<1>1. CASE type[p[1]] \in ZoneType
  BY <1>1 DEF RecordsFit, recorded
<1>2. CASE type[p[1]] \notin ZoneType
  <2>1. type[p[1]] = "LARGE" /\ p[1] \in Addr
    BY <1>2, InUseMapped DEF InUse
  <2>2. /\ block_size[p[1]] > SMALL_BLOCK_SIZE /\ block_size[p[1]] \in Nat
        /\ SMALL_BLOCK_SIZE \in Nat
    BY <2>1, HeapAssumption DEF LargeSizes, HeapInv, HeapTypeOK
  <2> QED BY <2>1, <2>2 DEF recorded, current_size, ZoneType
<1> QED BY <1>1, <1>2

(* Between calls show_alloc_mem prints the blocks in use, each once, and   *)
(* no byte beyond them.                                                    *)
THEOREM ShowsEveryBlock == Spec => []ShowsBlocksInUse
<1>1. Init => RecordsFit /\ CallInv
  BY HeapInitInv DEF Init, RecordsFit, CallInv
<1>2. IInv /\ SizeInv /\ RecordsFit => ShowsBlocksInUse
  <2> SUFFICES ASSUME IInv, SizeInv, RecordsFit, pc = "idle"
               PROVE  /\ {l.at : l \in show_alloc_mem} = live \cup leaked
                      /\ \A l, m \in show_alloc_mem : l.at = m.at => l = m
                      /\ \A l \in show_alloc_mem : 0 < l.bytes /\ l.bytes <= current_size(l.at)
    BY DEF ShowsBlocksInUse
  <2>1. HeapInv /\ LargeSizes
    BY DEF IInv, TypeOK, HeapInv, SizeInv
  <2>2. live \cup leaked = InUse
    BY DEF IInv, BlocksAccounted, CallConsistent, Held
  <2>3. \A l \in show_alloc_mem : 0 < l.bytes /\ l.bytes <= current_size(l.at)
    BY <2>1, LinesOfBlocks, LinesFit
  <2> QED BY <2>1, <2>2, <2>3, LinesOfBlocks
<1> QED BY <1>1, <1>2, NextRecordsFit, NextCallInv, Inductive, SizesInductive, PTL DEF Spec

(* The blocks alloc_block leaves in use keep their records.                *)
LEMMA AllocBlockKeeps ==
  ASSUME IInv, CallInv, alloc_block, NEW p \in InUse
  PROVE  requested_sizes'[p] = requested_sizes[p]
<1>1. HeapInv /\ HeapTypeOK /\ size \in Nat /\ p \in Ptr
  BY InUseMapped DEF IInv, TypeOK, HeapInv
<1>2. CASE requested_sizes' = requested_sizes
  BY <1>2
<1>3. CASE size_class(size) \in ZoneType /\ find_free_block(size_class(size)) /\ ~UNCHANGED heapVars
  <2> DEFINE k == size_class(size)
             z == Head(free_list[k])
             b == find_set_bit(z)
  <2>1. free_list[k] # <<>> /\ b # -1 /\ take_block(z, b, size)
    BY <1>3 DEF find_free_block
  <2>2. z \in Range(free_list[k]) /\ z \in Addr /\ type[z] \in ZoneType
    BY <1>1, <1>3, <2>1, HeadRange, InList DEF HeapTypeOK, Type
  <2>3. b \in bitmap[z]
    BY <1>1, <2>1, <2>2, FindSetBit
  <2>4. <<z, b>> # p
    BY <2>2, <2>3 DEF InUse, ZoneType
  <2> HIDE DEF z, b
  <2> QED BY <1>1, <2>1, <2>4 DEF take_block, HeapTypeOK
<1>4. \/ requested_sizes' = requested_sizes
      \/ size_class(size) \in ZoneType /\ find_free_block(size_class(size)) /\ ~UNCHANGED heapVars
  BY DEF alloc_block, find_free_large_block, reuse_block, create_block, heapVars
<1> QED BY <1>2, <1>3, <1>4

(* A step changes nothing that is recorded of a block it leaves in use.    *)
LEMMA StepKeepsRecords ==
  ASSUME IInv, IInv', SizeInv, CallInv, [Next]_vars, NEW p \in InUse, p \in InUse'
  PROVE  type'[p[1]] = type[p[1]] /\ recorded(p)' = recorded(p)
<1>1. HeapInv /\ HeapInv' /\ initialized' \in BOOLEAN
  BY DEF IInv, TypeOK, HeapTypeOK, HeapInv
<1>2. SizesKept
  BY <1>1, HeapSteps, HeapUnchangedSizes, CreateZoneSizes, FreePtrSizes, AllocBlockSizes
<1>3. p[1] \in Addr /\ type[p[1]] # UNMAPPED /\ type'[p[1]] # UNMAPPED
  BY DEF InUse, Ptr, ZoneType, UNMAPPED
<1>4. type'[p[1]] = type[p[1]] /\ block_size'[p[1]] = block_size[p[1]]
  BY <1>2, <1>3 DEF SizesKept
<1>5. RecordsKept \/ alloc_block
  BY <1>1, HeapSteps, HeapUnchangedRecords, CreateZoneRecords, FreePtrRecords
<1>6. type'[p[1]] \in ZoneType => requested_sizes'[p] = requested_sizes[p]
  BY <1>5, AllocBlockKeeps DEF RecordsKept, SameRecord
<1> QED BY <1>4, <1>6 DEF recorded

(* The block a call is about to return is recorded with the call's size,   *)
(* or is a large one that size fits in.                                    *)
NewRecorded ==
  new # NULL => IF type[new[1]] \in ZoneType THEN recorded(new) = size ELSE recorded(new) >= size

(* alloc_block records the size it was asked for.                          *)
LEMMA AllocBlockRecordsSize ==
  ASSUME IInv, IInv', SizeInv, alloc_block
  PROVE  NewRecorded'
<1>1. /\ pc = "alloc_block" /\ new = NULL /\ size' = size /\ size \in Nat
      /\ HeapInv /\ HeapTypeOK /\ HeapTypeOK' /\ new' \in Ptr \cup {NULL}
  BY DEF alloc_block, IInv, TypeOK, HeapInv, CallConsistent
<1>2. CASE new' = NULL
  BY <1>2 DEF NewRecorded
<1>3. CASE new' # NULL /\ size_class(size) \in ZoneType /\ find_free_block(size_class(size))
  <2> DEFINE z == Head(free_list[size_class(size)])
             b == find_set_bit(z)
  <2>1. take_block(z, b, size) /\ new' = <<z, b>>
    BY <1>1, <1>3 DEF find_free_block
  <2>2. new' \in Ptr /\ type[z] \in ZoneType /\ type' = type
    <3>1. free_list[size_class(size)] # <<>>
      BY <1>1, <1>3 DEF find_free_block
    <3>2. z \in Range(free_list[size_class(size)])
      BY <1>1, <1>3, <3>1, HeadRange DEF HeapTypeOK, Type
    <3> QED BY <1>1, <1>3, <2>1, <3>2, InList DEF take_block, Type
  <2>3. requested_sizes'[new'] = size
    BY <1>1, <2>1, <2>2 DEF take_block, HeapTypeOK
  <2> HIDE DEF z, b
  <2>4. recorded(new)' = size /\ type'[new'[1]] \in ZoneType
    BY <2>1, <2>2, <2>3 DEF recorded
  <2> QED BY <1>1, <2>4 DEF NewRecorded
<1>4. CASE new' # NULL /\ size_class(size) = "LARGE" /\ find_free_large_block
  <2>1. size' <= current_size(new)'
    BY <1>4, AllocBlockSizes
  <2>2. type'[new'[1]] = "LARGE"
    <3>1. PICK b : new' = <<b, 0>> /\ (\/ b \in Range(free_list["LARGE"]) /\ reuse_block(b)
                                       \/ b \in Addr /\ create_block(b, size))
      BY <1>1, <1>4, FirstFit DEF find_free_large_block
    <3>2. b \in Addr
      BY <1>1, <3>1, InList DEF Type
    <3> QED BY <1>1, <3>1, <3>2, InList DEF reuse_block, create_block, HeapTypeOK, Type
  <2>3. recorded(new)' = current_size(new)' /\ current_size(new)' \in Nat
    BY <1>1, <1>4, <2>2, CurrentSizeNat DEF recorded, current_size, ZoneType, HeapTypeOK, Ptr
  <2> QED BY <1>1, <2>1, <2>2, <2>3 DEF NewRecorded, ZoneType
<1> QED BY <1>2, <1>3, <1>4 DEF alloc_block

(* Until the call returns, that stays so.                                  *)
LEMMA NextNewRecorded ==
  IInv /\ IInv' /\ SizeInv /\ CallInv /\ NewRecorded /\ [Next]_vars => NewRecorded'
<1> SUFFICES ASSUME IInv, IInv', SizeInv, CallInv, NewRecorded, [Next]_vars, new' # NULL
             PROVE  NewRecorded'
  BY DEF NewRecorded
<1>1. new # NULL => new \in InUse
  BY DEF IInv, BlocksAccounted, Held
<1>2. new' \in InUse'
  BY DEF IInv, BlocksAccounted, Held
<1>3. CASE alloc_block
  BY <1>3, AllocBlockRecordsSize
<1>4. CASE ~alloc_block
  <2>1. new' = new /\ size' = size
    BY <1>4 DEF Next, Call, Step, malloc, realloc_grow, enter_malloc, free, Write,
                realloc_in_place, setup_tiny, setup_small, refill, malloc_return,
                realloc_fails, realloc_copy, realloc_free, callVars, vars, IInv, CallConsistent
  <2>2. type'[new[1]] = type[new[1]] /\ recorded(new)' = recorded(new)
    BY <1>1, <1>2, <2>1, StepKeepsRecords DEF recorded
  <2> QED BY <2>1, <2>2 DEF NewRecorded
<1> QED BY <1>3, <1>4

(* What is recorded of a block in use is what show_alloc_mem prints.       *)
RecordsShown == \A p \in InUse : bytes_shown(p) = {recorded(p)}

LEMMA BytesShown == HeapInv => RecordsShown
<1> SUFFICES ASSUME HeapInv, NEW p \in InUse PROVE bytes_shown(p) = {recorded(p)}
  BY DEF RecordsShown
<1>1. \A l \in show_alloc_mem : l.bytes = recorded(l.at)
  BY LinesOfBlocks
<1>2. \E l \in show_alloc_mem : l.at = p
  BY EveryBlockHasALine
<1> QED BY <1>1, <1>2 DEF bytes_shown

(* show_alloc_mem prints of a block the request that got it, from the step *)
(* that hands it to the program until the step that takes it back.         *)
THEOREM ShowsTheFirstRequest == Spec => ShowsFirstRequest
<1>1. Init => CallInv /\ NewRecorded
  BY DEF Init, CallInv, NewRecorded
<1>2. IInv => RecordsShown
  BY BytesShown DEF IInv, TypeOK, HeapInv
<1>3. (IInv /\ IInv' /\ SizeInv /\ CallInv /\ NewRecorded /\ RecordsShown /\ RecordsShown'
         /\ [Next]_vars)
        => [\A p \in live' :
              IF p \in live THEN bytes_shown(p)' = bytes_shown(p)
              ELSE IF type[p[1]] \in ZoneType THEN bytes_shown(p)' = {size}
              ELSE \E n \in bytes_shown(p)' : bytes_shown(p)' = {n} /\ n >= size]_vars
  <2> SUFFICES ASSUME IInv, IInv', SizeInv, CallInv, NewRecorded, RecordsShown, RecordsShown',
                      [Next]_vars, NEW p \in live'
               PROVE  IF p \in live THEN bytes_shown(p)' = bytes_shown(p)
                      ELSE IF type[p[1]] \in ZoneType THEN bytes_shown(p)' = {size}
                      ELSE \E n \in bytes_shown(p)' : bytes_shown(p)' = {n} /\ n >= size
    OBVIOUS
  <2>1. /\ HeapInv /\ HeapInv' /\ live \subseteq InUse /\ live' \subseteq InUse'
        /\ new # NULL => new \in InUse
    BY DEF IInv, TypeOK, HeapInv, BlocksAccounted, Held
  <2>2. bytes_shown(p)' = {recorded(p)'}
    BY <2>1 DEF RecordsShown
  <2>3. CASE p \in live
    BY <2>1, <2>2, <2>3, StepKeepsRecords DEF RecordsShown
  <2>4. CASE p \notin live
    <3>1. p = new /\ new # NULL
      BY <2>4 DEF Next, Call, Step, malloc, realloc_grow, enter_malloc, free, Write,
                  realloc_in_place, setup_tiny, setup_small, alloc_block, refill, malloc_return,
                  realloc_fails, realloc_copy, realloc_free, clientVars, vars, IInv, CallConsistent
    <3>2. recorded(p)' = recorded(p)
      BY <2>1, <3>1, StepKeepsRecords
    <3> QED BY <2>2, <2>4, <3>1, <3>2 DEF NewRecorded
  <2> QED BY <2>3, <2>4
<1> QED BY <1>1, <1>2, <1>3, NextCallInv, NextNewRecorded, Inductive, SizesInductive, PTL
        DEF Spec, ShowsFirstRequest
=============================================================================
