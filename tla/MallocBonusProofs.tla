------------------------- MODULE MallocBonusProofs -------------------------
(***************************************************************************)
(* Theorems about MallocBonus.tla and UnlockedReport.tla, for every number *)
(* of threads.                                                             *)
(*                                                                         *)
(* BlocksAccounted and NoDataRace are not inductive by themselves: that    *)
(* the block a thread has chosen is still free when it takes it, or that   *)
(* the type it read is still the type of its block, depends on who holds   *)
(* which mutex where.  IInv says what is known of every thread from where  *)
(* it is: the mutexes it holds, the blocks its call has, the free block it *)
(* has chosen and the type it has read; and of all threads together while  *)
(* the heap is not set up.  ClientInv says how the program and its calls   *)
(* fit together, which is why the library implements AbstractMalloc.  The  *)
(* last part adds the report that takes no lock.                           *)
(***************************************************************************)
EXTENDS UnlockedReport, HeapProofs

(* Where a thread holds heap_mutex, the lock of its request's class, and   *)
(* the lock of the block it frees.                                         *)
HoldsHeap  == {"recheck", "setup_tiny", "setup_small", "publish", "unlock_heap",
               "abort_setup"}
HoldsClass == {"alloc_block", "take_block", "reuse_block", "create_block", "perror",
               "refill", "unlock_list"}
HoldsOld   == {"free_ptr", "unlock_free"}

Locked(t) ==
  /\ pc[t] \in HoldsHeap => heap_mutex = t
  /\ pc[t] \in HoldsClass => list_lock[size_class(size[t])] = t
  /\ pc[t] \in HoldsOld => old_type[t] \in Type /\ list_lock[old_type[t]] = t

(* Which of its two blocks a thread has.                                   *)
HasNone == {"idle", "lock_heap", "unlock_free"} \cup HoldsHeap

Blocks(t) ==
  /\ pc[t] \in HasNone => ptr[t] = NULL /\ new[t] = NULL
  /\ pc[t] \in {"lock_list", "alloc_block", "create_block", "perror", "read_type"} =>
       new[t] = NULL
  /\ pc[t] \in {"take_block", "reuse_block", "refill", "copy"} => new[t] # NULL
  /\ pc[t] \in {"copy", "read_type", "lock_free", "free_ptr"} => ptr[t] # NULL
  /\ pc[t] = "return" => ptr[t] = NULL \/ new[t] = NULL

(* The block a thread has chosen is free as long as its lock is held, and  *)
(* the zone it refills for is of its class.                                *)
Choice(t) ==
  LET k == size_class(size[t]) IN
  /\ pc[t] = "take_block" =>
       k \in ZoneType /\ new[t][1] \in Range(free_list[k]) /\ new[t][2] \in bitmap[new[t][1]]
  /\ pc[t] = "reuse_block" =>
       k = "LARGE" /\ new[t][1] \in Range(free_list[k]) /\ new[t][2] = 0
  /\ pc[t] \in {"create_block", "perror"} => k = "LARGE"
  /\ pc[t] = "refill" => k \in ZoneType /\ type[new[t][1]] = k

(* What a thread has read of its block's type is still so.                 *)
TypeRead(t) ==
  ptr[t] # NULL /\ pc[t] # "read_type" => old_type[t] = type[ptr[t][1]]

ThreadInv(t) == Locked(t) /\ Blocks(t) /\ Choice(t) /\ TypeRead(t)

(* Until the heap is set up no thread is past malloc's double check, and   *)
(* nobody has a block.                                                     *)
BeforeSetup == {"idle", "lock_heap", "return"} \cup (HoldsHeap \ {"unlock_heap"})

NothingBeforeSetup ==
  ~initialized =>
    /\ live = {}
    /\ \A t \in Thread : pc[t] \in BeforeSetup /\ ptr[t] = NULL /\ new[t] = NULL

IInv ==
  /\ TypeOK
  /\ ListsConsistent
  /\ CountsMatchBitmap
  /\ BlocksAccounted
  /\ SetupOnce
  /\ NothingBeforeSetup
  /\ \A t \in Thread : ThreadInv(t)

-----------------------------------------------------------------------------
(* What a step of one thread leaves to the others.                         *)

(* The part of TypeOK that is not about the heap.                          *)
CallTypeOK ==
  /\ heap_mutex \in Thread \cup {NULL}
  /\ list_lock \in [Type -> Thread \cup {NULL}]
  /\ pc \in [Thread -> PC]
  /\ size \in [Thread -> Nat]
  /\ ptr \in [Thread -> Ptr \cup {NULL}]
  /\ new \in [Thread -> Ptr \cup {NULL}]
  /\ old_type \in [Thread -> Type \cup {UNMAPPED}]
  /\ live \in SUBSET Ptr
  /\ asked \in [Ptr -> Nat]
  /\ mem \in [Ptr -> Nat]
  /\ leaked \in SUBSET Ptr
  /\ mmap_failed \in BOOLEAN

(* IInv is what is known of the heap, of the blocks and of the threads.    *)
LEMMA IInvParts ==
  IInv <=> /\ HeapInv /\ CallTypeOK /\ BlocksAccounted
           /\ SetupOnce /\ NothingBeforeSetup
           /\ \A t \in Thread : ThreadInv(t)
BY DEF IInv, TypeOK, HeapInv, CallTypeOK

(* The class of a request.                                                 *)
LEMMA SizeClass ==
  ASSUME NEW n \in Nat
  PROVE  /\ size_class(n) \in Type
         /\ size_class(n) = "LARGE" <=> n > SMALL_BLOCK_SIZE
         /\ size_class(n) \in ZoneType <=> size_class(n) # "LARGE"
<1>1. TINY_BLOCK_SIZE \in Nat /\ SMALL_BLOCK_SIZE \in Nat /\ TINY_BLOCK_SIZE < SMALL_BLOCK_SIZE
  BY HeapAssumption
<1> QED BY <1>1 DEF size_class, Type, ZoneType

(* A step of thread t changes nothing of another's call and takes no mutex *)
(* from it.                                                                *)
StepOf(t) ==
  \A s \in Thread \ {t} :
    /\ pc'[s] = pc[s] /\ size'[s] = size[s] /\ ptr'[s] = ptr[s] /\ new'[s] = new[s]
    /\ old_type'[s] = old_type[s]
    /\ heap_mutex = s => heap_mutex' = s
    /\ \A k \in Type : list_lock[k] = s => list_lock'[k] = s

(* What is known of a thread stays so under a step of another, if the      *)
(* class of a block it has chosen is left alone and its blocks stay in     *)
(* use.                                                                    *)
LEMMA OtherThread ==
  ASSUME HeapInv, CallTypeOK, NEW t \in Thread, NEW s \in Thread \ {t}, ThreadInv(s), StepOf(t),
         SizesKept, Mine(s) \subseteq InUse, Mine(s) \subseteq InUse',
         pc[s] \in {"take_block", "reuse_block"} => Untouched(size_class(size[s]))
  PROVE  ThreadInv(s)'
<1> DEFINE k == size_class(size[s])
<1>1. /\ pc'[s] = pc[s] /\ size'[s] = size[s] /\ ptr'[s] = ptr[s] /\ new'[s] = new[s]
      /\ old_type'[s] = old_type[s]
      /\ heap_mutex = s => heap_mutex' = s
      /\ \A l \in Type : list_lock[l] = s => list_lock'[l] = s
  BY DEF StepOf
<1>2. k \in Type /\ k' = k
  BY <1>1, SizeClass DEF CallTypeOK
<1> HIDE DEF k
<1>3. Locked(s)'
  BY <1>1, <1>2 DEF ThreadInv, Locked, k
<1>4. Blocks(s)'
  BY <1>1 DEF ThreadInv, Blocks
<1>5. \A p \in Mine(s) : p[1] \in Addr /\ type'[p[1]] = type[p[1]]
  BY DEF SizesKept, InUse, Ptr, ZoneType, UNMAPPED
<1>6. Choice(s)'
  <2>1. pc[s] = "take_block" =>
          k \in ZoneType /\ new[s][1] \in Range(free_list'[k]) /\ new[s][2] \in bitmap'[new[s][1]]
    BY <1>2, InList DEF ThreadInv, Choice, k, Untouched
  <2>2. pc[s] = "reuse_block" =>
          k = "LARGE" /\ new[s][1] \in Range(free_list'[k]) /\ new[s][2] = 0
    BY DEF ThreadInv, Choice, k, Untouched
  <2>3. pc[s] = "refill" => new[s] \in Mine(s)
    BY DEF ThreadInv, Blocks, CallTypeOK, Mine
  <2>4. pc[s] = "refill" => k \in ZoneType /\ type'[new[s][1]] = k
    BY <1>5, <2>3 DEF ThreadInv, Choice, k
  <2>5. pc[s] \in {"create_block", "perror"} => k = "LARGE"
    BY DEF ThreadInv, Choice, k
  <2> QED BY <1>1, <1>2, <2>1, <2>2, <2>4, <2>5 DEF Choice, k
<1>7. TypeRead(s)'
  <2>1. ptr[s] # NULL => ptr[s] \in Mine(s)
    BY DEF CallTypeOK, Mine
  <2> QED BY <1>1, <1>5, <2>1 DEF ThreadInv, TypeRead
<1> QED BY <1>3, <1>4, <1>6, <1>7 DEF ThreadInv

(* What thread t or the program or nobody any more has: all that a step of *)
(* t can change hands of.                                                  *)
Reach(t) == Mine(t) \cup live \cup leaked

(* A step that marks as allocated exactly what it takes, and as free       *)
(* exactly what it gives back, keeps account of the blocks.                *)
LEMMA Accounted ==
  ASSUME BlocksAccounted, NEW t \in Thread, StepOf(t),
         live' \cap leaked' = {},
         Mine(t)' \cap (live' \cup leaked') = {},
         ptr'[t] = new'[t] => ptr'[t] = NULL,
         InUse' = (InUse \ Reach(t)) \cup Reach(t)',
         Reach(t)' \cap (InUse \ Reach(t)) = {}
  PROVE  /\ BlocksAccounted'
         /\ \A s \in Thread \ {t} : Mine(s) \subseteq InUse'
<1>1. ASSUME NEW s \in Thread \ {t}
      PROVE  /\ Mine(s)' = Mine(s)
             /\ Mine(s) \subseteq InUse \ Reach(t)
             /\ ptr'[s] = new'[s] => ptr'[s] = NULL
  <2>1. Mine(s)' = Mine(s)
    BY DEF StepOf, Mine
  <2>2. Mine(s) \subseteq InUse \ Reach(t)
    BY DEF BlocksAccounted, Held, Reach
  <2> QED BY <2>1, <2>2 DEF StepOf, BlocksAccounted
<1>2. InUse \ Reach(t) = UNION {Mine(s) : s \in Thread \ {t}}
  BY <1>1 DEF BlocksAccounted, Held, Reach
<1>3. \A s \in Thread : Mine(s)' \cap (live' \cup leaked') = {}
  BY <1>1 DEF Reach
<1>4. \A r, s \in Thread : r # s => Mine(r)' \cap Mine(s)' = {}
  <2> SUFFICES ASSUME NEW r \in Thread, NEW s \in Thread, r # s
               PROVE  Mine(r)' \cap Mine(s)' = {}
    OBVIOUS
  <2>1. CASE r # t /\ s # t
    BY <1>1, <2>1 DEF BlocksAccounted
  <2>2. CASE r = t \/ s = t
    BY <1>1, <2>2 DEF Reach
  <2> QED BY <2>1, <2>2
<1>5. \A s \in Thread : ptr'[s] = new'[s] => ptr'[s] = NULL
  BY <1>1
<1>6. Held' = InUse'
  <2> DEFINE others == UNION {Mine(s) : s \in Thread \ {t}}
  <2>1. Held' = others \cup Reach(t)'
    BY <1>1 DEF Held, Reach
  <2> QED BY <1>2, <2>1
<1> QED BY <1>1, <1>3, <1>4, <1>5, <1>6 DEF BlocksAccounted

(* The same for set-up: only publish changes initialized.                  *)
LEMMA SetupKept ==
  ASSUME SetupOnce, NothingBeforeSetup, NEW t \in Thread, StepOf(t), initialized' = initialized,
         pc'[t] \in {"setup_tiny", "setup_small", "publish"} => ~initialized,
         ~initialized =>
           live' = {} /\ pc'[t] \in BeforeSetup /\ ptr'[t] = NULL /\ new'[t] = NULL
  PROVE  SetupOnce' /\ NothingBeforeSetup'
<1>1. SetupOnce'
  BY DEF SetupOnce, StepOf
<1>2. NothingBeforeSetup'
  BY DEF NothingBeforeSetup, StepOf
<1> QED BY <1>1, <1>2

(* A step of thread t keeps IInv if it keeps account of the blocks, leaves *)
(* the chosen blocks of others alone and t is where IInv says.             *)
LEMMA StepInv ==
  ASSUME IInv, NEW t \in Thread, StepOf(t), HeapInv', CallTypeOK', SizesKept,
         live' \cap leaked' = {},
         Mine(t)' \cap (live' \cup leaked') = {},
         ptr'[t] = new'[t] => ptr'[t] = NULL,
         InUse' = (InUse \ Reach(t)) \cup Reach(t)',
         Reach(t)' \cap (InUse \ Reach(t)) = {},
         \A s \in Thread \ {t} :
           pc[s] \in {"take_block", "reuse_block"} => Untouched(size_class(size[s])),
         SetupOnce', NothingBeforeSetup', ThreadInv(t)'
  PROVE  IInv'
<1>1. HeapInv /\ CallTypeOK /\ BlocksAccounted /\ \A s \in Thread : ThreadInv(s)
  BY IInvParts
<1>2. BlocksAccounted' /\ \A s \in Thread \ {t} : Mine(s) \subseteq InUse'
  BY <1>1, Accounted
<1>3. ASSUME NEW s \in Thread \ {t}
      PROVE  ThreadInv(s)'
  <2>1. Mine(s) \subseteq InUse
    BY <1>1 DEF BlocksAccounted, Held
  <2> QED BY <1>1, <1>2, <2>1, OtherThread
<1>4. \A s \in Thread : ThreadInv(s)'
  BY <1>3
<1> QED BY <1>2, <1>4 DEF IInv, TypeOK, HeapInv, CallTypeOK

(* A step that leaves the heap alone keeps IInv if no block changes hands  *)
(* but between thread t, the program and nobody.                           *)
LEMMA QuietInv ==
  ASSUME IInv, NEW t \in Thread, StepOf(t), UNCHANGED heapVars, CallTypeOK',
         live' \cap leaked' = {},
         Mine(t)' \cap (live' \cup leaked') = {},
         ptr'[t] = new'[t] => ptr'[t] = NULL,
         Reach(t)' = Reach(t),
         pc'[t] \in {"setup_tiny", "setup_small", "publish"} => ~initialized,
         ~initialized =>
           live' = {} /\ pc'[t] \in BeforeSetup /\ ptr'[t] = NULL /\ new'[t] = NULL,
         ThreadInv(t)'
  PROVE  IInv'
<1>1. HeapInv /\ BlocksAccounted /\ SetupOnce /\ NothingBeforeSetup
  BY IInvParts
<1>2. HeapInv' /\ InUse' = InUse /\ SizesKept
  BY <1>1, HeapUnchanged, HeapUnchangedSizes
<1>3. \A k \in Type : Untouched(k)
  BY DEF Untouched, heapVars
<1>4. initialized' = initialized
  BY DEF heapVars
<1>5. SetupOnce' /\ NothingBeforeSetup'
  BY <1>1, <1>4, SetupKept
<1>6. Reach(t) \subseteq InUse
  BY <1>1 DEF BlocksAccounted, Held, Reach
<1>7. \A s \in Thread : size_class(size[s]) \in Type
  BY IInvParts, SizeClass DEF CallTypeOK
<1> QED BY <1>2, <1>3, <1>5, <1>6, <1>7, StepInv

(* A step that only takes or gives back mutexes, or moves on, keeps IInv.  *)
LEMMA MoveInv ==
  ASSUME IInv, NEW t \in Thread, StepOf(t), UNCHANGED <<heapVars, live, leaked>>, CallTypeOK',
         Mine(t)' = Mine(t),
         ptr'[t] = new'[t] => ptr'[t] = NULL,
         pc'[t] \in {"setup_tiny", "setup_small", "publish"} => ~initialized,
         ~initialized => pc'[t] \in BeforeSetup /\ ptr'[t] = NULL /\ new'[t] = NULL,
         ThreadInv(t)'
  PROVE  IInv'
<1>1. BlocksAccounted /\ (~initialized => live = {})
  BY DEF IInv, NothingBeforeSetup
<1>2. /\ live' \cap leaked' = {}
      /\ Mine(t)' \cap (live' \cup leaked') = {}
      /\ Reach(t)' = Reach(t)
  BY <1>1 DEF BlocksAccounted, Reach
<1> QED BY <1>1, <1>2, QuietInv

-----------------------------------------------------------------------------
(* The actions of malloc. *)

(* malloc begins a call that has no block and no mutex.                    *)
LEMMA EnterMalloc ==
  ASSUME IInv, NEW t \in Thread, NEW n \in Sizes(t), malloc(t, n)
  PROVE  IInv' /\ StepOf(t)
<1>1. CallTypeOK /\ ThreadInv(t) /\ NothingBeforeSetup /\ pc[t] = "idle"
  BY IInvParts DEF malloc, Calling
<1>2. n \in Nat
  BY BonusAssumption DEF Sizes
<1>3. StepOf(t)
  BY <1>1 DEF malloc, Goto, StepOf, CallTypeOK, lockVars
<1>4. CallTypeOK'
  BY <1>1, <1>2 DEF malloc, Goto, CallTypeOK, lockVars, clientVars, ghostVars, PC
<1>5. /\ pc'[t] = IF initialized THEN "lock_list" ELSE "lock_heap"
      /\ ptr'[t] = NULL /\ new'[t] = NULL
      /\ Mine(t)' = Mine(t)
  BY <1>1 DEF malloc, Goto, CallTypeOK, Mine, ThreadInv, Blocks, HasNone
<1>6. ThreadInv(t)'
  BY <1>5 DEF ThreadInv, Locked, Blocks, Choice, TypeRead, HoldsHeap, HoldsClass, HoldsOld, HasNone
<1> QED BY <1>1, <1>3, <1>4, <1>5, <1>6, MoveInv
        DEF malloc, clientVars, ghostVars, BeforeSetup

(* The thread that sets the heap up takes heap_mutex.                      *)
LEMMA LockHeap ==
  ASSUME IInv, NEW t \in Thread, lock_heap(t)
  PROVE  IInv' /\ StepOf(t)
<1>1. CallTypeOK /\ ThreadInv(t) /\ NothingBeforeSetup /\ pc[t] = "lock_heap"
  BY IInvParts DEF lock_heap
<1>2. StepOf(t)
  BY <1>1, BonusAssumption DEF lock_heap, acquire_heap, Goto, StepOf, CallTypeOK, argVars
<1>3. CallTypeOK'
  BY <1>1 DEF lock_heap, acquire_heap, Goto, CallTypeOK, argVars, clientVars, ghostVars, PC
<1>4. /\ pc'[t] = "recheck" /\ heap_mutex' = t
      /\ ptr'[t] = NULL /\ new'[t] = NULL
      /\ Mine(t)' = Mine(t)
  BY <1>1 DEF lock_heap, acquire_heap, Goto, CallTypeOK, Mine, ThreadInv, Blocks, HasNone, argVars
<1>5. ThreadInv(t)'
  BY <1>4 DEF ThreadInv, Locked, Blocks, Choice, TypeRead, HoldsHeap, HoldsClass, HoldsOld, HasNone
<1> QED BY <1>1, <1>2, <1>3, <1>4, <1>5, MoveInv
        DEF lock_heap, clientVars, ghostVars, BeforeSetup, HoldsHeap

(* The second check of initialized finds out who sets the heap up, under   *)
(* heap_mutex.                                                             *)
LEMMA Recheck ==
  ASSUME IInv, NEW t \in Thread, recheck(t)
  PROVE  IInv' /\ StepOf(t)
<1>1. CallTypeOK /\ ThreadInv(t) /\ NothingBeforeSetup /\ pc[t] = "recheck"
  BY IInvParts DEF recheck
<1>2. StepOf(t)
  BY <1>1 DEF recheck, lockVars, Goto, StepOf, CallTypeOK, argVars
<1>3. CallTypeOK'
  BY <1>1 DEF recheck, lockVars, Goto, CallTypeOK, argVars, clientVars, ghostVars, PC
<1>4. /\ pc'[t] = IF initialized THEN "unlock_heap" ELSE "setup_tiny"
      /\ heap_mutex' = t
      /\ ptr'[t] = NULL /\ new'[t] = NULL
      /\ Mine(t)' = Mine(t)
  BY <1>1 DEF recheck, lockVars, Goto, CallTypeOK, Mine, ThreadInv, Locked, Blocks, HasNone,
              HoldsHeap, argVars
<1>5. ThreadInv(t)'
  BY <1>4 DEF ThreadInv, Locked, Blocks, Choice, TypeRead, HoldsHeap, HoldsClass, HoldsOld, HasNone
<1> QED BY <1>1, <1>2, <1>3, <1>4, <1>5, MoveInv
        DEF recheck, clientVars, ghostVars, BeforeSetup, HoldsHeap

(* The first zones are made while no other thread has chosen a block.      *)
LEMMA SetupZone ==
  ASSUME IInv, NEW t \in Thread, setup_tiny(t) \/ setup_small(t)
  PROVE  IInv' /\ StepOf(t)
<1>1. /\ HeapInv /\ CallTypeOK /\ BlocksAccounted /\ SetupOnce /\ NothingBeforeSetup
      /\ ThreadInv(t) /\ pc[t] \in {"setup_tiny", "setup_small"}
  BY IInvParts DEF setup_tiny, setup_small
<1>2. PICK k \in ZoneType, next \in {"setup_small", "publish"} : setup_zone(t, k, next)
  BY DEF setup_tiny, setup_small, ZoneType
<1>3. ~initialized
  BY <1>1 DEF SetupOnce
<1>4. /\ pc' = [pc EXCEPT ![t] = next] \/ pc' = [pc EXCEPT ![t] = "abort_setup"]
      /\ UNCHANGED <<initialized, lockVars, argVars, new, clientVars, leaked>>
      /\ mmap_failed' \in BOOLEAN
  BY <1>1, <1>2 DEF setup_zone, Goto, heapVars, CallTypeOK
<1>5. StepOf(t)
  BY <1>1, <1>4 DEF StepOf, CallTypeOK, argVars, lockVars
<1>6. CallTypeOK'
  BY <1>1, <1>4 DEF CallTypeOK, argVars, lockVars, clientVars, PC
<1>7. /\ pc'[t] \in {"setup_small", "publish", "abort_setup"} /\ heap_mutex' = t
      /\ ptr'[t] = NULL /\ new'[t] = NULL
      /\ Mine(t)' = Mine(t)
  BY <1>1, <1>4 DEF CallTypeOK, Mine, ThreadInv, Locked, Blocks, HasNone, HoldsHeap, argVars, lockVars
<1>8. ThreadInv(t)'
  BY <1>7 DEF ThreadInv, Locked, Blocks, Choice, TypeRead, HoldsHeap, HoldsClass, HoldsOld, HasNone
<1>9. CASE UNCHANGED heapVars
  BY <1>1, <1>3, <1>4, <1>5, <1>6, <1>7, <1>8, <1>9, MoveInv
     DEF clientVars, BeforeSetup, HoldsHeap
<1>10. CASE \E z \in Addr : create_zone(k, z)
  <2>1. HeapInv' /\ InUse' = InUse /\ SizesKept
    <3>1. initialized' \in BOOLEAN
      BY <1>1, <1>4 DEF HeapInv, HeapTypeOK
    <3> QED BY <1>1, <1>10, <3>1, CreateZone, CreateZoneSizes
  <2>2. SetupOnce' /\ NothingBeforeSetup'
    BY <1>1, <1>3, <1>4, <1>5, <1>7, SetupKept DEF NothingBeforeSetup, BeforeSetup, HoldsHeap, clientVars
  <2>3. \A s \in Thread \ {t} : pc[s] \notin {"take_block", "reuse_block"}
    BY <1>1, <1>3 DEF NothingBeforeSetup, BeforeSetup, HoldsHeap
  <2>4. /\ live' \cap leaked' = {}
        /\ Mine(t)' \cap (live' \cup leaked') = {}
        /\ Reach(t)' = Reach(t) /\ Reach(t) \subseteq InUse
    BY <1>1, <1>4, <1>7 DEF BlocksAccounted, Reach, Held, clientVars
  <2> QED BY <1>5, <1>6, <1>7, <1>8, <2>1, <2>2, <2>3, <2>4, StepInv
<1> QED BY <1>2, <1>5, <1>9, <1>10 DEF setup_zone

(* initialized is set when both first zones exist and no other thread is   *)
(* making them: none but the holder of heap_mutex is past the second       *)
(* check.                                                                  *)
LEMMA Publish ==
  ASSUME IInv, NEW t \in Thread, publish(t)
  PROVE  IInv' /\ StepOf(t)
<1>1. /\ HeapInv /\ CallTypeOK /\ BlocksAccounted /\ NothingBeforeSetup
      /\ \A s \in Thread : ThreadInv(s)
      /\ pc[t] = "publish"
  BY IInvParts DEF publish
<1>2. StepOf(t)
  BY <1>1 DEF publish, lockVars, Goto, StepOf, CallTypeOK, argVars
<1>3. CallTypeOK'
  BY <1>1 DEF publish, lockVars, Goto, CallTypeOK, argVars, clientVars, ghostVars, PC
<1>4. /\ pc'[t] = "unlock_heap" /\ heap_mutex' = t
      /\ ptr'[t] = NULL /\ new'[t] = NULL
      /\ Mine(t)' = Mine(t)
  BY <1>1 DEF publish, lockVars, Goto, CallTypeOK, Mine, ThreadInv, Locked, Blocks, HasNone,
              HoldsHeap, argVars
<1>5. ThreadInv(t)'
  BY <1>4 DEF ThreadInv, Locked, Blocks, Choice, TypeRead, HoldsHeap, HoldsClass, HoldsOld, HasNone
<1>6. UNCHANGED <<type, bitmap, free_count, requested_sizes, block_size, free_list, full_list>>
      /\ initialized'
  BY DEF publish
<1>7. HeapInv' /\ InUse' = InUse /\ SizesKept
  <2>1. HeapInv' /\ InUse' = InUse
    BY <1>1, <1>6 DEF HeapInv, HeapTypeOK, ListsConsistent, CountsMatchBitmap, InUse
  <2>2. \A b \in Range(free_list["LARGE"]) : b \in Addr /\ type[b] = "LARGE"
    BY <1>1, InList DEF Type
  <2> QED BY <1>6, <2>1, <2>2 DEF SizesKept, UNMAPPED
<1>8. SetupOnce' /\ NothingBeforeSetup'
  <2>1. \A s \in Thread \ {t} : pc'[s] \notin {"setup_tiny", "setup_small", "publish"}
    BY <1>1, <1>2 DEF ThreadInv, Locked, HoldsHeap, StepOf
  <2> QED BY <1>4, <1>6, <2>1 DEF SetupOnce, NothingBeforeSetup
<1>9. \A k : Untouched(k)
  BY <1>6 DEF Untouched
<1>10. /\ live' \cap leaked' = {}
       /\ Mine(t)' \cap (live' \cup leaked') = {}
       /\ Reach(t)' = Reach(t) /\ Reach(t) \subseteq InUse
  BY <1>1, <1>4 DEF publish, BlocksAccounted, Reach, Held, clientVars, ghostVars
<1> QED BY <1>2, <1>3, <1>4, <1>5, <1>7, <1>8, <1>9, <1>10, StepInv

(* heap_mutex is given back with no block taken.                           *)
LEMMA UnlockHeap ==
  ASSUME IInv, NEW t \in Thread, unlock_heap(t)
  PROVE  IInv' /\ StepOf(t)
<1>1. /\ CallTypeOK /\ ThreadInv(t) /\ NothingBeforeSetup
      /\ pc[t] \in {"unlock_heap", "abort_setup"}
  BY IInvParts DEF unlock_heap
<1>2. heap_mutex = t
  BY <1>1 DEF ThreadInv, Locked, HoldsHeap
<1>3. StepOf(t)
  BY <1>1, <1>2 DEF unlock_heap, release_heap, Goto, StepOf, CallTypeOK, argVars
<1>4. CallTypeOK'
  BY <1>1 DEF unlock_heap, release_heap, Goto, CallTypeOK, argVars, clientVars, ghostVars, PC
<1>5. /\ pc'[t] = IF pc[t] = "unlock_heap" THEN "lock_list" ELSE "return"
      /\ ptr'[t] = NULL /\ new'[t] = NULL
      /\ Mine(t)' = Mine(t)
  BY <1>1 DEF unlock_heap, Goto, CallTypeOK, Mine, ThreadInv, Blocks, HasNone, HoldsHeap, argVars
<1>6. ThreadInv(t)'
  BY <1>5 DEF ThreadInv, Locked, Blocks, Choice, TypeRead, HoldsHeap, HoldsClass, HoldsOld, HasNone
<1>7. ~initialized => pc'[t] \in BeforeSetup
  BY <1>1, <1>5 DEF NothingBeforeSetup, BeforeSetup
<1> QED BY <1>3, <1>4, <1>5, <1>6, <1>7, MoveInv DEF unlock_heap, clientVars, ghostVars

-----------------------------------------------------------------------------
(* alloc_block. *)

(* A thread that takes a list lock has not lost its place.                 *)
LEMMA EnterList ==
  ASSUME IInv, NEW t \in Thread, enter_list(t)
  PROVE  IInv' /\ StepOf(t)
<1> DEFINE k == size_class(size[t])
<1>1. /\ CallTypeOK /\ ThreadInv(t) /\ NothingBeforeSetup /\ pc[t] = "lock_list"
      /\ k \in Type /\ list_lock[k] = NULL
  BY IInvParts, SizeClass DEF enter_list, lock_list, CallTypeOK
<1>2. initialized
  BY <1>1 DEF NothingBeforeSetup, BeforeSetup, HoldsHeap
<1> HIDE DEF k
<1>3. /\ list_lock' = [list_lock EXCEPT ![k] = t] /\ heap_mutex' = heap_mutex
      /\ pc' = [pc EXCEPT ![t] = "alloc_block"]
      /\ UNCHANGED <<heapVars, argVars, new, clientVars, ghostVars>>
  BY DEF enter_list, lock_list, Goto, k
<1>4. StepOf(t)
  BY <1>1, <1>3, BonusAssumption DEF StepOf, CallTypeOK, argVars
<1>5. CallTypeOK'
  BY <1>1, <1>3 DEF CallTypeOK, argVars, clientVars, ghostVars, PC
<1>6. /\ pc'[t] = "alloc_block" /\ size'[t] = size[t] /\ list_lock'[k] = t
      /\ old_type'[t] = old_type[t] /\ type' = type
      /\ ptr'[t] = ptr[t] /\ new[t] = NULL /\ new'[t] = NULL
      /\ Mine(t)' = Mine(t)
  BY <1>1, <1>3 DEF CallTypeOK, Mine, ThreadInv, Blocks, argVars, heapVars
<1>7. ThreadInv(t)'
  <2>1. Locked(t)'
    BY <1>6 DEF Locked, k, HoldsHeap, HoldsOld
  <2>2. Blocks(t)' /\ Choice(t)'
    BY <1>6 DEF Blocks, Choice, HasNone, HoldsHeap
  <2>3. TypeRead(t)'
    BY <1>1, <1>6 DEF ThreadInv, TypeRead
  <2> QED BY <2>1, <2>2, <2>3 DEF ThreadInv
<1> QED BY <1>2, <1>3, <1>4, <1>5, <1>6, <1>7, MoveInv DEF clientVars, ghostVars

(* alloc_block finds a free zone, a cached block, or nothing.              *)
LEMMA AllocBlock ==
  ASSUME IInv, NEW t \in Thread, alloc_block(t)
  PROVE  IInv' /\ StepOf(t)
<1> DEFINE k == size_class(size[t])
<1>1. /\ HeapInv /\ HeapTypeOK /\ CallTypeOK /\ ThreadInv(t) /\ NothingBeforeSetup
      /\ pc[t] = "alloc_block"
      /\ size[t] \in Nat /\ k \in Type /\ (k \in ZoneType <=> k # "LARGE")
  BY IInvParts, SizeClass DEF alloc_block, CallTypeOK, HeapInv
<1>2. initialized
  BY <1>1 DEF NothingBeforeSetup, BeforeSetup, HoldsHeap
<1>3. UNCHANGED <<heapVars, lockVars, argVars, clientVars, ghostVars>>
  BY DEF alloc_block
<1>4. \/ /\ pc' = [pc EXCEPT ![t] = "unlock_list"]
         /\ UNCHANGED new
      \/ /\ pc' = [pc EXCEPT ![t] = "create_block"]
         /\ UNCHANGED new
         /\ k = "LARGE"
      \/ /\ pc' = [pc EXCEPT ![t] = "take_block"]
         /\ \E p \in Ptr : /\ new' = [new EXCEPT ![t] = p]
                           /\ p[1] \in Range(free_list[k]) /\ p[2] \in bitmap[p[1]]
         /\ k \in ZoneType
      \/ /\ pc' = [pc EXCEPT ![t] = "reuse_block"]
         /\ \E p \in Ptr : /\ new' = [new EXCEPT ![t] = p]
                           /\ p[1] \in Range(free_list[k]) /\ p[2] = 0
         /\ k = "LARGE"
  <2>1. CASE k = "LARGE"
    <3> DEFINE j == first_fit(size[t])
               b == free_list["LARGE"][j]
    <3>1. find_free_large_block(t)
      BY <2>1 DEF alloc_block
    <3>2. CASE j # 0
      <4>1. b \in Range(free_list["LARGE"])
        BY <1>1, <3>2, FirstFit
      <4>2. b \in Addr
        BY <1>1, <4>1, InList DEF Type
      <4>3. new' = [new EXCEPT ![t] = <<b, 0>>] /\ pc' = [pc EXCEPT ![t] = "reuse_block"]
        BY <3>1, <3>2 DEF find_free_large_block, Goto
      <4> HIDE DEF b
      <4>4. <<b, 0>> \in Ptr /\ <<b, 0>>[1] = b /\ <<b, 0>>[2] = 0
        BY <4>2, ZeroIndex DEF Ptr
      <4> QED BY <2>1, <4>1, <4>3, <4>4
    <3>3. CASE j = 0
      BY <2>1, <3>1, <3>3 DEF find_free_large_block, Goto
    <3> QED BY <3>2, <3>3
  <2>2. CASE k # "LARGE"
    <3> DEFINE z == Head(free_list[k])
               m == find_set_bit_bounded(z)
    <3>1. find_free_block(t, k)
      BY <2>2 DEF alloc_block
    <3>2. CASE free_list[k] = <<>> \/ m = -1
      BY <3>1, <3>2 DEF find_free_block, Goto
    <3>3. CASE ~(free_list[k] = <<>> \/ m = -1)
      <4>1. z \in Range(free_list[k]) /\ z \in Addr
        BY <1>1, <3>3, HeadRange DEF HeapTypeOK
      <4>2. m = find_set_bit(z) /\ m # -1
        BY <3>3 DEF find_set_bit_bounded
      <4>3. m \in bitmap[z] /\ m \in BlockIndex
        BY <1>1, <4>1, <4>2, FindSetBit DEF HeapTypeOK
      <4>4. new' = [new EXCEPT ![t] = <<z, m>>] /\ pc' = [pc EXCEPT ![t] = "take_block"]
        BY <3>1, <3>3 DEF find_free_block, Goto
      <4> HIDE DEF z, m
      <4>5. <<z, m>> \in Ptr /\ <<z, m>>[1] = z /\ <<z, m>>[2] = m
        BY <4>1, <4>3 DEF Ptr
      <4> QED BY <1>1, <2>2, <4>1, <4>3, <4>4, <4>5
    <3> QED BY <3>2, <3>3
  <2> QED BY <2>1, <2>2
<1> HIDE DEF k
<1>5. StepOf(t)
  BY <1>1, <1>3, <1>4 DEF StepOf, CallTypeOK, argVars, lockVars
<1>6. CallTypeOK'
  BY <1>1, <1>3, <1>4 DEF CallTypeOK, argVars, lockVars, clientVars, ghostVars, PC
<1>7. /\ pc'[t] \in {"unlock_list", "create_block", "take_block", "reuse_block"}
      /\ size'[t] = size[t] /\ list_lock' = list_lock /\ old_type'[t] = old_type[t]
      /\ ptr'[t] = ptr[t] /\ new[t] = NULL
      /\ pc'[t] \in {"unlock_list", "create_block"} => new'[t] = NULL
      /\ pc'[t] \in {"take_block", "reuse_block"} => new'[t] \in Ptr
  BY <1>1, <1>3, <1>4 DEF CallTypeOK, ThreadInv, Blocks, argVars, lockVars
<1>8. ThreadInv(t)'
  <2>1. Locked(t)'
    BY <1>1, <1>7 DEF ThreadInv, Locked, HoldsHeap, HoldsOld, HoldsClass
  <2>2. Blocks(t)'
    BY <1>7, HeapAssumption DEF Blocks, HasNone, HoldsHeap
  <2>3. Choice(t)'
    BY <1>1, <1>3, <1>4, <1>7 DEF Choice, k, heapVars, CallTypeOK
  <2>4. TypeRead(t)'
    BY <1>1, <1>3, <1>7 DEF ThreadInv, TypeRead, heapVars
  <2> QED BY <2>1, <2>2, <2>3, <2>4 DEF ThreadInv
<1>9. Mine(t)' = Mine(t)
  BY <1>1, <1>7, HeapAssumption DEF Mine
<1>10. ptr'[t] = new'[t] => ptr'[t] = NULL
  <2>1. ptr[t] # NULL => ptr[t] \in InUse
    BY <1>1, IInvParts DEF BlocksAccounted, Held, Mine, CallTypeOK
  <2>2. \A p \in Ptr : p[1] \in Range(free_list[k]) /\ (k = "LARGE" \/ p[2] \in bitmap[p[1]]) =>
          p \notin InUse
    BY <1>1, ListedFree
  <2> QED BY <1>1, <1>4, <1>7, <2>1, <2>2 DEF CallTypeOK
<1> QED BY <1>2, <1>3, <1>5, <1>6, <1>7, <1>8, <1>9, <1>10, MoveInv DEF clientVars, ghostVars

(* While a thread holds the lock of a class no other has chosen a block of *)
(* that class.                                                             *)
LEMMA LockExcludes ==
  ASSUME IInv, NEW t \in Thread, NEW k \in Type, list_lock[k] = t, OnlyClass(k),
         NEW s \in Thread \ {t}, pc[s] \in {"take_block", "reuse_block"}
  PROVE  Untouched(size_class(size[s]))
<1>1. size_class(size[s]) \in Type /\ list_lock[size_class(size[s])] = s
  BY SizeClass DEF IInv, TypeOK, ThreadInv, Locked, HoldsClass
<1> QED BY <1>1 DEF OnlyClass

(* A block that was free goes to thread t, which holds the lock of its     *)
(* class.                                                                  *)
LEMMA TakenInv ==
  ASSUME IInv, NEW t \in Thread, pc[t] \in {"take_block", "reuse_block", "create_block"},
         StepOf(t), HeapInv', CallTypeOK', SizesKept, OnlyClass(size_class(size[t])),
         NEW p \in Ptr \ InUse, InUse' = InUse \cup {p}, new'[t] = p, new[t] \in {p, NULL},
         pc'[t] \in {"refill", "unlock_list"},
         pc'[t] = "refill" =>
           size_class(size[t]) \in ZoneType /\ type'[p[1]] = size_class(size[t]),
         size'[t] = size[t], ptr'[t] = ptr[t], old_type'[t] = old_type[t],
         UNCHANGED <<initialized, list_lock, live, leaked>>
  PROVE  IInv'
<1> DEFINE k == size_class(size[t])
<1>1. /\ CallTypeOK /\ BlocksAccounted /\ SetupOnce /\ NothingBeforeSetup /\ ThreadInv(t)
      /\ k \in Type /\ list_lock[k] = t /\ NULL \notin Ptr
  BY IInvParts, SizeClass, HeapAssumption DEF ThreadInv, Locked, HoldsClass, CallTypeOK
<1> HIDE DEF k
<1>2. initialized
  BY <1>1 DEF NothingBeforeSetup, BeforeSetup, HoldsHeap
<1>3. Mine(t) \subseteq InUse /\ ptr[t] # p /\ p \notin live \cup leaked
  BY <1>1 DEF BlocksAccounted, Held, Mine, CallTypeOK
<1>4. Mine(t)' = Mine(t) \cup {p}
  BY <1>1, <1>3 DEF Mine
<1>5. /\ live' \cap leaked' = {}
      /\ Mine(t)' \cap (live' \cup leaked') = {}
      /\ Reach(t)' = Reach(t) \cup {p} /\ Reach(t) \subseteq InUse
  BY <1>1, <1>3, <1>4 DEF BlocksAccounted, Reach, Held
<1>6. SetupOnce' /\ NothingBeforeSetup'
  BY <1>1, <1>2, SetupKept
<1>7. ThreadInv(t)'
  <2>1. Locked(t)'
    BY <1>1 DEF Locked, k, HoldsHeap, HoldsOld
  <2>2. Blocks(t)'
    BY <1>1 DEF Blocks, HasNone, HoldsHeap
  <2>3. Choice(t)'
    BY DEF Choice
  <2>4. TypeRead(t)'
    <3>1. ptr[t] # NULL => ptr[t] \in InUse /\ ptr[t] \in InUse' /\ ptr[t][1] \in Addr
      BY <1>1, <1>3 DEF Mine, CallTypeOK, Ptr
    <3>2. ptr[t] # NULL => type'[ptr[t][1]] = type[ptr[t][1]]
      BY <3>1 DEF SizesKept, InUse, Ptr, ZoneType, UNMAPPED
    <3> QED BY <1>1, <3>2 DEF ThreadInv, TypeRead
  <2> QED BY <2>1, <2>2, <2>3, <2>4 DEF ThreadInv
<1>8. \A s \in Thread \ {t} :
        pc[s] \in {"take_block", "reuse_block"} => Untouched(size_class(size[s]))
  BY <1>1, LockExcludes DEF k
<1> QED BY <1>3, <1>5, <1>6, <1>7, <1>8, StepInv

(* The block a thread has chosen was free until now, and becomes its own.  *)
LEMMA Take ==
  ASSUME IInv, NEW t \in Thread, take(t)
  PROVE  IInv' /\ StepOf(t)
<1> DEFINE k == size_class(size[t])
           z == new[t][1]
           m == new[t][2]
<1>1. /\ HeapInv /\ HeapTypeOK /\ CallTypeOK /\ ThreadInv(t) /\ pc[t] = "take_block"
      /\ size[t] \in Nat /\ new[t] \in Ptr /\ new[t] = <<z, m>>
  BY IInvParts DEF take, CallTypeOK, HeapInv, ThreadInv, Blocks, Ptr
<1>2. k \in ZoneType /\ z \in Range(free_list[k]) /\ m \in bitmap[z]
  BY <1>1 DEF ThreadInv, Choice
<1>3. z \in Addr /\ type[z] = k
  BY <1>1, <1>2, InList DEF Type
<1> HIDE DEF k, z, m
<1>4. /\ take_block(z, m, size[t])
      /\ pc' = [pc EXCEPT ![t] = IF free_count[z] - 1 = 0 THEN "refill" ELSE "unlock_list"]
      /\ UNCHANGED <<lockVars, argVars, new, clientVars, ghostVars>>
  BY DEF take, Goto, z, m
<1>5. /\ HeapInv' /\ new[t] \notin InUse /\ InUse' = InUse \cup {new[t]}
      /\ SizesKept /\ OnlyClass(k)
  BY <1>1, <1>2, <1>3, <1>4, TakeBlock, TakeBlockSizes, TakeBlockOnly
<1>6. type' = type /\ initialized' = initialized
  BY <1>4 DEF take_block
<1>7. StepOf(t)
  BY <1>1, <1>4 DEF StepOf, CallTypeOK, argVars, lockVars
<1>8. CallTypeOK'
  BY <1>1, <1>4 DEF CallTypeOK, argVars, lockVars, clientVars, ghostVars, PC
<1>9. /\ new'[t] = new[t]
      /\ pc'[t] \in {"refill", "unlock_list"}
      /\ size'[t] = size[t] /\ ptr'[t] = ptr[t] /\ old_type'[t] = old_type[t]
      /\ UNCHANGED <<list_lock, live, leaked>>
  BY <1>1, <1>4 DEF CallTypeOK, argVars, lockVars, clientVars, ghostVars
<1> QED BY <1>1, <1>2, <1>3, <1>5, <1>6, <1>7, <1>8, <1>9, TakenInv DEF k, z

(* The cached block a thread has chosen was free until now, and becomes    *)
(* its own.                                                                *)
LEMMA Reuse ==
  ASSUME IInv, NEW t \in Thread, reuse(t)
  PROVE  IInv' /\ StepOf(t)
<1> DEFINE k == size_class(size[t])
           b == new[t][1]
<1>1. /\ HeapInv /\ HeapTypeOK /\ CallTypeOK /\ ThreadInv(t) /\ pc[t] = "reuse_block"
      /\ new[t] \in Ptr /\ b \in Addr
  BY IInvParts DEF reuse, CallTypeOK, HeapInv, ThreadInv, Blocks, Ptr
<1>2. k = "LARGE" /\ b \in Range(free_list["LARGE"]) /\ new[t] = <<b, 0>>
  BY <1>1 DEF ThreadInv, Choice, Ptr
<1> HIDE DEF k, b
<1>3. /\ reuse_block(b)
      /\ pc' = [pc EXCEPT ![t] = "unlock_list"]
      /\ UNCHANGED <<lockVars, argVars, new, clientVars, ghostVars>>
  BY DEF reuse, Goto, b
<1>4. /\ HeapInv' /\ new[t] \notin InUse /\ InUse' = InUse \cup {new[t]}
      /\ SizesKept /\ OnlyClass(k)
  BY <1>1, <1>2, <1>3, ReuseBlock, ReuseBlockSizes, LargeOnly
<1>5. initialized' = initialized
  BY <1>3 DEF reuse_block
<1>6. StepOf(t)
  BY <1>1, <1>3 DEF StepOf, CallTypeOK, argVars, lockVars
<1>7. CallTypeOK'
  BY <1>1, <1>3 DEF CallTypeOK, argVars, lockVars, clientVars, ghostVars, PC
<1>8. /\ new'[t] = new[t] /\ pc'[t] = "unlock_list"
      /\ size'[t] = size[t] /\ ptr'[t] = ptr[t] /\ old_type'[t] = old_type[t]
      /\ UNCHANGED <<list_lock, live, leaked>>
  BY <1>1, <1>3 DEF CallTypeOK, argVars, lockVars, clientVars, ghostVars
<1> QED BY <1>1, <1>4, <1>5, <1>6, <1>7, <1>8, TakenInv DEF k

(* create_block's mmap grants a fresh block, or perror is called.          *)
LEMMA Create ==
  ASSUME IInv, NEW t \in Thread, create(t)
  PROVE  IInv' /\ StepOf(t)
<1> DEFINE k == size_class(size[t])
<1>1. /\ HeapInv /\ HeapTypeOK /\ CallTypeOK /\ ThreadInv(t) /\ NothingBeforeSetup
      /\ pc[t] = "create_block" /\ new[t] = NULL /\ k = "LARGE"
  BY IInvParts DEF create, HeapInv, ThreadInv, Blocks, Choice
<1>2. size[t] \in Nat /\ size[t] > SMALL_BLOCK_SIZE
  BY <1>1, SizeClass DEF CallTypeOK
<1> HIDE DEF k
<1>3. UNCHANGED <<lockVars, argVars, clientVars, leaked>>
  BY DEF create
<1>4. CASE \E b \in Addr : /\ create_block(b, size[t]) /\ new' = [new EXCEPT ![t] = <<b, 0>>]
                           /\ Goto(t, "unlock_list") /\ UNCHANGED mmap_failed
  <2>1. PICK b \in Addr : /\ create_block(b, size[t]) /\ new' = [new EXCEPT ![t] = <<b, 0>>]
                          /\ pc' = [pc EXCEPT ![t] = "unlock_list"] /\ UNCHANGED mmap_failed
    BY <1>4 DEF Goto
  <2> DEFINE p == <<b, 0>>
  <2>2. /\ HeapInv' /\ p \in Ptr /\ p \notin InUse /\ InUse' = InUse \cup {p}
        /\ SizesKept /\ OnlyClass(k)
    BY <1>1, <1>2, <2>1, CreateBlock, CreateBlockSizes, LargeOnly
  <2>3. initialized' = initialized
    BY <2>1 DEF create_block
  <2> HIDE DEF p
  <2>4. StepOf(t)
    BY <1>1, <1>3, <2>1 DEF StepOf, CallTypeOK, argVars, lockVars
  <2>5. CallTypeOK'
    BY <1>1, <1>3, <2>1, <2>2 DEF CallTypeOK, argVars, lockVars, clientVars, PC, p
  <2>6. /\ new'[t] = p /\ pc'[t] = "unlock_list"
        /\ size'[t] = size[t] /\ ptr'[t] = ptr[t] /\ old_type'[t] = old_type[t]
        /\ UNCHANGED <<list_lock, live, leaked>>
    BY <1>1, <1>3, <2>1 DEF CallTypeOK, argVars, lockVars, clientVars, p
  <2> QED BY <1>1, <2>2, <2>3, <2>4, <2>5, <2>6, TakenInv DEF k
<1>5. CASE mmap_failed' = TRUE /\ Goto(t, "perror") /\ UNCHANGED <<heapVars, new>>
  <2>1. StepOf(t)
    BY <1>1, <1>3, <1>5 DEF StepOf, CallTypeOK, argVars, lockVars, Goto
  <2>2. CallTypeOK'
    BY <1>1, <1>3, <1>5 DEF CallTypeOK, argVars, lockVars, clientVars, PC, Goto
  <2>3. /\ pc'[t] = "perror" /\ size'[t] = size[t] /\ ptr'[t] = ptr[t] /\ new'[t] = NULL
        /\ old_type'[t] = old_type[t] /\ list_lock' = list_lock /\ Mine(t)' = Mine(t)
    BY <1>1, <1>3, <1>5 DEF CallTypeOK, argVars, lockVars, Goto, Mine
  <2>4. ThreadInv(t)'
    BY <1>1, <1>5, <2>3 DEF ThreadInv, Locked, Blocks, Choice, TypeRead, HoldsHeap, HoldsClass,
                            HoldsOld, HasNone, heapVars, k
  <2>5. initialized
    BY <1>1 DEF NothingBeforeSetup, BeforeSetup, HoldsHeap
  <2> QED BY <1>3, <1>5, <2>1, <2>2, <2>3, <2>4, <2>5, MoveInv DEF clientVars
<1> QED BY <1>4, <1>5 DEF create

(* find_free_block maps the next zone of the class, or gives up and leaves *)
(* the block it has taken marked.                                          *)
LEMMA Refill ==
  ASSUME IInv, NEW t \in Thread, refill(t)
  PROVE  IInv' /\ StepOf(t)
<1> DEFINE k == size_class(size[t])
<1>1. /\ HeapInv /\ HeapTypeOK /\ CallTypeOK /\ BlocksAccounted /\ ThreadInv(t)
      /\ SetupOnce /\ NothingBeforeSetup
      /\ pc[t] = "refill" /\ new[t] \in Ptr /\ new[t] # NULL
      /\ k \in ZoneType /\ type[new[t][1]] = k /\ list_lock[k] = t
  BY IInvParts DEF refill, HeapInv, CallTypeOK, ThreadInv, Locked, Blocks, Choice, HoldsClass
<1>2. initialized
  BY <1>1 DEF NothingBeforeSetup, BeforeSetup, HoldsHeap
<1>3. k \in Type
  BY <1>1 DEF Type
<1> HIDE DEF k
<1>4. /\ pc' = [pc EXCEPT ![t] = "unlock_list"]
      /\ UNCHANGED <<lockVars, argVars, clientVars>>
  BY DEF refill, Goto
<1>5. CASE \E z \in Addr : create_zone(k, z) /\ UNCHANGED <<initialized, new, ghostVars>>
  <2>1. PICK z \in Addr : create_zone(k, z) /\ UNCHANGED <<initialized, new, ghostVars>>
    BY <1>5
  <2>2. HeapInv' /\ InUse' = InUse /\ SizesKept /\ OnlyClass(k)
    BY <1>1, <2>1, CreateZone, CreateZoneSizes, CreateZoneOnly DEF HeapTypeOK
  <2>3. StepOf(t)
    BY <1>1, <1>4, <2>1 DEF StepOf, CallTypeOK, argVars, lockVars
  <2>4. CallTypeOK'
    BY <1>1, <1>4, <2>1 DEF CallTypeOK, argVars, lockVars, clientVars, ghostVars, PC
  <2>5. /\ pc'[t] = "unlock_list" /\ size'[t] = size[t] /\ ptr'[t] = ptr[t] /\ new'[t] = new[t]
        /\ old_type'[t] = old_type[t] /\ list_lock' = list_lock /\ Mine(t)' = Mine(t)
    BY <1>1, <1>4, <2>1 DEF CallTypeOK, argVars, lockVars, Mine
  <2>6. ThreadInv(t)'
    <3>1. Locked(t)' /\ Blocks(t)' /\ Choice(t)'
      BY <1>1, <2>5 DEF Locked, Blocks, Choice, HoldsHeap, HoldsOld, HasNone, k
    <3>2. ptr[t] # NULL => ptr[t] \in InUse /\ ptr[t] \in InUse' /\ ptr[t][1] \in Addr
      BY <1>1, <2>2 DEF BlocksAccounted, Held, Mine, CallTypeOK, Ptr
    <3>3. ptr[t] # NULL => type'[ptr[t][1]] = type[ptr[t][1]]
      BY <2>2, <3>2 DEF SizesKept, InUse, Ptr, ZoneType, UNMAPPED
    <3>4. TypeRead(t)'
      BY <1>1, <2>5, <3>3 DEF ThreadInv, TypeRead
    <3> QED BY <3>1, <3>4 DEF ThreadInv
  <2>7. SetupOnce' /\ NothingBeforeSetup'
    BY <1>1, <1>2, <2>1, <2>3, <2>5, SetupKept
  <2>8. /\ live' \cap leaked' = {}
        /\ Mine(t)' \cap (live' \cup leaked') = {}
        /\ ptr'[t] = new'[t] => ptr'[t] = NULL
        /\ Reach(t)' = Reach(t) /\ Reach(t) \subseteq InUse
    BY <1>1, <1>4, <2>1, <2>5 DEF BlocksAccounted, Reach, Held, clientVars, ghostVars
  <2>9. \A s \in Thread \ {t} :
          pc[s] \in {"take_block", "reuse_block"} => Untouched(size_class(size[s]))
    BY <1>1, <1>3, <2>2, LockExcludes
  <2> QED BY <2>2, <2>3, <2>4, <2>6, <2>7, <2>8, <2>9, StepInv
<1>6. CASE /\ mmap_failed' = TRUE /\ new' = [new EXCEPT ![t] = NULL]
           /\ leaked' = leaked \cup {new[t]} /\ UNCHANGED heapVars
  <2>1. StepOf(t)
    BY <1>1, <1>4, <1>6 DEF StepOf, CallTypeOK, argVars, lockVars
  <2>2. CallTypeOK'
    BY <1>1, <1>4, <1>6 DEF CallTypeOK, argVars, lockVars, clientVars, PC
  <2>3. /\ pc'[t] = "unlock_list" /\ size'[t] = size[t] /\ ptr'[t] = ptr[t] /\ new'[t] = NULL
        /\ old_type'[t] = old_type[t] /\ list_lock' = list_lock /\ live' = live
    BY <1>1, <1>4, <1>6 DEF CallTypeOK, argVars, lockVars, clientVars
  <2>4. ThreadInv(t)'
    BY <1>1, <1>6, <2>3 DEF ThreadInv, Locked, Blocks, Choice, TypeRead, HoldsHeap, HoldsClass,
                            HoldsOld, HasNone, heapVars, k
  <2>5. /\ Mine(t) = Mine(t)' \cup {new[t]} /\ new[t] \notin Mine(t)'
        /\ new[t] \notin live /\ ptr[t] # new[t]
    BY <1>1, <2>3, HeapAssumption DEF Mine, BlocksAccounted, CallTypeOK
  <2>6. /\ live' \cap leaked' = {}
        /\ Mine(t)' \cap (live' \cup leaked') = {}
        /\ Reach(t)' = Reach(t)
    BY <1>1, <1>6, <2>3, <2>5 DEF BlocksAccounted, Reach
  <2>7. ptr'[t] = new'[t] => ptr'[t] = NULL
    BY <2>3
  <2> QED BY <1>2, <1>6, <2>1, <2>2, <2>3, <2>4, <2>6, <2>7, QuietInv
<1> QED BY <1>1, <1>5, <1>6 DEF refill

(* perror keeps the mutex of the large class and changes nothing else.     *)
LEMMA Perror ==
  ASSUME IInv, NEW t \in Thread, perror(t)
  PROVE  IInv' /\ StepOf(t)
<1>1. CallTypeOK /\ ThreadInv(t) /\ NothingBeforeSetup /\ pc[t] = "perror"
  BY IInvParts DEF perror
<1>2. /\ pc' = [pc EXCEPT ![t] = "unlock_list"]
      /\ UNCHANGED <<heapVars, lockVars, argVars, new, clientVars, ghostVars>>
  BY DEF perror, Goto
<1>3. StepOf(t)
  BY <1>1, <1>2 DEF StepOf, CallTypeOK, argVars, lockVars
<1>4. CallTypeOK'
  BY <1>1, <1>2 DEF CallTypeOK, argVars, lockVars, clientVars, ghostVars, PC
<1>5. /\ pc'[t] = "unlock_list" /\ size'[t] = size[t] /\ ptr'[t] = ptr[t] /\ new'[t] = NULL
      /\ old_type'[t] = old_type[t] /\ list_lock' = list_lock /\ Mine(t)' = Mine(t)
  BY <1>1, <1>2 DEF CallTypeOK, ThreadInv, Blocks, argVars, lockVars, Mine
<1>6. ThreadInv(t)'
  BY <1>1, <1>2, <1>5 DEF ThreadInv, Locked, Blocks, Choice, TypeRead, HoldsHeap, HoldsClass,
                          HoldsOld, HasNone, heapVars
<1>7. initialized
  BY <1>1 DEF NothingBeforeSetup, BeforeSetup, HoldsHeap
<1> QED BY <1>2, <1>3, <1>4, <1>5, <1>6, <1>7, MoveInv DEF clientVars, ghostVars

(* A malloc or realloc gives back the mutex of its class, with its block.  *)
LEMMA LeaveList ==
  ASSUME IInv, NEW t \in Thread, leave_list(t)
  PROVE  IInv' /\ StepOf(t)
<1> DEFINE k == size_class(size[t])
<1>1. /\ CallTypeOK /\ BlocksAccounted /\ ThreadInv(t) /\ NothingBeforeSetup
      /\ pc[t] = "unlock_list"
      /\ k \in Type /\ list_lock[k] = t
  BY IInvParts, SizeClass DEF leave_list, CallTypeOK, ThreadInv, Locked, HoldsClass
<1> HIDE DEF k
<1>2. /\ list_lock' = [list_lock EXCEPT ![k] = NULL] /\ heap_mutex' = heap_mutex
      /\ pc' = [pc EXCEPT ![t] = IF ptr[t] # NULL /\ new[t] # NULL THEN "copy" ELSE "return"]
      /\ UNCHANGED <<heapVars, argVars, new, clientVars, ghostVars>>
  BY DEF leave_list, unlock_list, Goto, k
<1>3. StepOf(t)
  BY <1>1, <1>2 DEF StepOf, CallTypeOK, argVars
<1>4. CallTypeOK'
  BY <1>1, <1>2 DEF CallTypeOK, argVars, clientVars, ghostVars, PC
<1>5. /\ pc'[t] = IF ptr[t] # NULL /\ new[t] # NULL THEN "copy" ELSE "return"
      /\ ptr'[t] = ptr[t] /\ new'[t] = new[t] /\ old_type'[t] = old_type[t]
      /\ Mine(t)' = Mine(t)
  BY <1>1, <1>2 DEF CallTypeOK, argVars, Mine
<1>6. ThreadInv(t)'
  BY <1>1, <1>2, <1>5 DEF ThreadInv, Locked, Blocks, Choice, TypeRead, HoldsHeap, HoldsClass,
                          HoldsOld, HasNone, heapVars
<1>7. initialized
  BY <1>1 DEF NothingBeforeSetup, BeforeSetup, HoldsHeap
<1>8. ptr'[t] = new'[t] => ptr'[t] = NULL
  BY <1>1, <1>5 DEF BlocksAccounted
<1> QED BY <1>2, <1>3, <1>4, <1>5, <1>6, <1>7, <1>8, MoveInv DEF clientVars, ghostVars

(* A call that returns gives the program what it had.                      *)
LEMMA Return ==
  ASSUME IInv, NEW t \in Thread, return(t)
  PROVE  IInv' /\ StepOf(t)
<1>1. /\ CallTypeOK /\ BlocksAccounted /\ ThreadInv(t) /\ NothingBeforeSetup
      /\ pc[t] = "return" /\ NULL \notin Ptr /\ (ptr[t] = NULL \/ new[t] = NULL)
  BY IInvParts, HeapAssumption DEF return, ThreadInv, Blocks
<1>2. /\ pc' = [pc EXCEPT ![t] = "idle"]
      /\ size' = [size EXCEPT ![t] = 0] /\ ptr' = [ptr EXCEPT ![t] = NULL]
      /\ new' = [new EXCEPT ![t] = NULL] /\ old_type' = [old_type EXCEPT ![t] = UNMAPPED]
      /\ UNCHANGED <<heapVars, lockVars, ghostVars>>
  BY DEF return, finish, Goto
<1>3. StepOf(t)
  BY <1>1, <1>2 DEF StepOf, CallTypeOK, lockVars
<1>4. live' = live \cup ({new[t], ptr[t]} \ {NULL})
  BY <1>1 DEF return
<1>5. asked' \in [Ptr -> Nat] /\ mem' \in [Ptr -> Nat]
  BY <1>1 DEF return, CallTypeOK
<1>6. CallTypeOK'
  BY <1>1, <1>2, <1>4, <1>5 DEF CallTypeOK, lockVars, ghostVars, PC
<1>7. pc'[t] = "idle" /\ ptr'[t] = NULL /\ new'[t] = NULL
  BY <1>1, <1>2 DEF CallTypeOK
<1>8. ThreadInv(t)'
  BY <1>7 DEF ThreadInv, Locked, Blocks, Choice, TypeRead, HoldsHeap, HoldsClass, HoldsOld, HasNone
<1>9. Mine(t) = {new[t], ptr[t]} \ {NULL} /\ Mine(t)' = {}
  BY <1>1, <1>7 DEF Mine, CallTypeOK
<1>10. /\ live' \cap leaked' = {}
       /\ Mine(t)' \cap (live' \cup leaked') = {}
       /\ Reach(t)' = Reach(t)
  BY <1>1, <1>2, <1>4, <1>9 DEF BlocksAccounted, Reach, ghostVars
<1>11. ~initialized => live' = {} /\ pc'[t] \in BeforeSetup
  BY <1>1, <1>4, <1>7 DEF NothingBeforeSetup, BeforeSetup
<1> QED BY <1>2, <1>3, <1>6, <1>7, <1>8, <1>10, <1>11, QuietInv

-----------------------------------------------------------------------------
(* The actions of free. *)

(* The program hands a pointer to free.                                    *)
LEMMA EnterFree ==
  ASSUME IInv, NEW t \in Thread, NEW p \in Ptr, free(t, p)
  PROVE  IInv' /\ StepOf(t)
<1>1. /\ CallTypeOK /\ BlocksAccounted /\ ThreadInv(t) /\ NothingBeforeSetup
      /\ pc[t] = "idle" /\ NULL \notin Ptr /\ p \in live
      /\ ptr[t] = NULL /\ new[t] = NULL
  BY IInvParts, HeapAssumption DEF free, Calling, ThreadInv, Blocks, HasNone
<1>2. /\ pc' = [pc EXCEPT ![t] = "read_type"] /\ ptr' = [ptr EXCEPT ![t] = p]
      /\ live' = live \ {p}
      /\ asked' = [asked EXCEPT ![p] = 0] /\ mem' = [mem EXCEPT ![p] = 0]
      /\ UNCHANGED <<heapVars, lockVars, size, old_type, new, ghostVars>>
  BY DEF free, Goto
<1>3. StepOf(t)
  BY <1>1, <1>2 DEF StepOf, CallTypeOK, lockVars
<1>4. CallTypeOK'
  BY <1>1, <1>2 DEF CallTypeOK, lockVars, ghostVars, PC
<1>5. pc'[t] = "read_type" /\ ptr'[t] = p /\ new'[t] = NULL
  BY <1>1, <1>2 DEF CallTypeOK
<1>6. ThreadInv(t)'
  BY <1>1, <1>5 DEF ThreadInv, Locked, Blocks, Choice, TypeRead, HoldsHeap, HoldsClass, HoldsOld, HasNone
<1>7. Mine(t) = {} /\ Mine(t)' = {p}
  BY <1>1, <1>5 DEF Mine
<1>8. /\ live' \cap leaked' = {}
      /\ Mine(t)' \cap (live' \cup leaked') = {}
      /\ Reach(t)' = Reach(t)
      /\ initialized
  BY <1>1, <1>2, <1>7 DEF BlocksAccounted, Reach, ghostVars, NothingBeforeSetup
<1>9. p # NULL
  BY <1>1
<1> QED BY <1>2, <1>3, <1>4, <1>5, <1>6, <1>8, <1>9, QuietInv

(* The type that free reads is that of a block of its own.                 *)
LEMMA ReadType ==
  ASSUME IInv, NEW t \in Thread, read_type(t)
  PROVE  IInv' /\ StepOf(t)
<1>1. /\ HeapTypeOK /\ CallTypeOK /\ ThreadInv(t) /\ NothingBeforeSetup /\ pc[t] = "read_type"
      /\ ptr[t] \in Ptr /\ ptr[t] # NULL /\ ptr[t][1] \in Addr /\ new[t] = NULL
  BY IInvParts DEF read_type, HeapInv, CallTypeOK, ThreadInv, Blocks, Ptr
<1>2. /\ old_type' = [old_type EXCEPT ![t] = type[ptr[t][1]]]
      /\ pc' = [pc EXCEPT ![t] = "lock_free"]
      /\ UNCHANGED <<heapVars, lockVars, size, ptr, new, clientVars, ghostVars>>
  BY DEF read_type, Goto
<1>3. StepOf(t)
  BY <1>1, <1>2 DEF StepOf, CallTypeOK, lockVars
<1>4. CallTypeOK'
  <2>1. type[ptr[t][1]] \in Type \cup {UNMAPPED}
    BY <1>1 DEF HeapTypeOK
  <2> QED BY <1>1, <1>2, <2>1 DEF CallTypeOK, lockVars, clientVars, ghostVars, PC
<1>5. /\ pc'[t] = "lock_free" /\ ptr'[t] = ptr[t] /\ new'[t] = NULL
      /\ old_type'[t] = type[ptr[t][1]] /\ Mine(t)' = Mine(t)
  BY <1>1, <1>2 DEF CallTypeOK, Mine
<1>6. ThreadInv(t)'
  BY <1>1, <1>2, <1>5 DEF ThreadInv, Locked, Blocks, Choice, TypeRead, HoldsHeap, HoldsClass,
                          HoldsOld, HasNone, heapVars
<1>7. initialized
  BY <1>1 DEF NothingBeforeSetup, BeforeSetup, HoldsHeap
<1> QED BY <1>1, <1>2, <1>3, <1>4, <1>5, <1>6, <1>7, MoveInv DEF clientVars, ghostVars

(* The mutex free takes, by the type it has read, is that of its block.    *)
LEMMA LockFree ==
  ASSUME IInv, NEW t \in Thread, lock_free(t)
  PROVE  IInv' /\ StepOf(t)
<1> DEFINE k == old_type[t]
<1>1. /\ CallTypeOK /\ BlocksAccounted /\ ThreadInv(t) /\ NothingBeforeSetup
      /\ pc[t] = "lock_free"
      /\ ptr[t] \in Ptr /\ ptr[t] # NULL
  BY IInvParts DEF lock_free, CallTypeOK, ThreadInv, Blocks
<1>2. k = type[ptr[t][1]] /\ k \in Type
  <2>1. ptr[t] \in InUse
    BY <1>1 DEF BlocksAccounted, Held, Mine
  <2> QED BY <1>1, <2>1 DEF ThreadInv, TypeRead, InUse, Type
<1>3. list_lock[k] = NULL
  BY DEF lock_free, lock_list
<1> HIDE DEF k
<1>4. /\ list_lock' = [list_lock EXCEPT ![k] = t] /\ heap_mutex' = heap_mutex
      /\ pc' = [pc EXCEPT ![t] = "free_ptr"]
      /\ UNCHANGED <<heapVars, argVars, new, clientVars, ghostVars>>
  BY DEF lock_free, lock_list, Goto, k
<1>5. StepOf(t)
  BY <1>1, <1>2, <1>3, <1>4, BonusAssumption DEF StepOf, CallTypeOK, argVars
<1>6. CallTypeOK'
  BY <1>1, <1>4 DEF CallTypeOK, argVars, clientVars, ghostVars, PC
<1>7. /\ pc'[t] = "free_ptr" /\ ptr'[t] = ptr[t] /\ new'[t] = new[t]
      /\ old_type'[t] = k /\ list_lock'[k] = t /\ Mine(t)' = Mine(t)
  BY <1>1, <1>2, <1>4 DEF CallTypeOK, argVars, Mine, k
<1>8. ThreadInv(t)'
  BY <1>1, <1>2, <1>4, <1>7 DEF ThreadInv, Locked, Blocks, Choice, TypeRead, HoldsHeap,
                                HoldsClass, HoldsOld, HasNone, heapVars
<1>9. initialized
  BY <1>1 DEF NothingBeforeSetup, BeforeSetup, HoldsHeap
<1>10. ptr'[t] = new'[t] => ptr'[t] = NULL
  BY <1>1, <1>7 DEF BlocksAccounted
<1> QED BY <1>4, <1>5, <1>6, <1>7, <1>8, <1>9, <1>10, MoveInv DEF clientVars, ghostVars

(* The block is given back under the lock of its class; in a realloc the   *)
(* program gets the new one.                                               *)
LEMMA Release ==
  ASSUME IInv, NEW t \in Thread, release(t)
  PROVE  IInv' /\ StepOf(t)
<1> DEFINE p == ptr[t]
           k == old_type[t]
<1>1. /\ HeapInv /\ HeapTypeOK /\ CallTypeOK /\ BlocksAccounted /\ ThreadInv(t)
      /\ SetupOnce /\ NothingBeforeSetup /\ pc[t] = "free_ptr"
      /\ p \in Ptr /\ p # NULL /\ NULL \notin Ptr
      /\ k \in Type /\ list_lock[k] = t /\ k = type[p[1]]
  BY IInvParts, HeapAssumption
     DEF release, HeapInv, CallTypeOK, ThreadInv, Locked, Blocks, TypeRead, HoldsOld
<1>2. initialized
  BY <1>1 DEF NothingBeforeSetup, BeforeSetup, HoldsHeap
<1> HIDE DEF k
<1>3. /\ free_ptr(p)
      /\ pc' = [pc EXCEPT ![t] = "unlock_free"]
      /\ new' = [new EXCEPT ![t] = NULL] /\ ptr' = [ptr EXCEPT ![t] = NULL]
      /\ UNCHANGED <<lockVars, size, old_type, ghostVars>>
  BY DEF release, Goto
<1>4. p \in Mine(t) /\ p \in InUse
  BY <1>1 DEF BlocksAccounted, Held, Mine
<1>5. HeapInv' /\ InUse' = InUse \ {p} /\ initialized' = initialized /\ SizesKept /\ OnlyClass(k)
  BY <1>1, <1>3, <1>4, FreePtr, FreePtrSizes, FreePtrOnly
<1>6. live' = live \cup ({new[t]} \ {NULL})
  BY <1>1 DEF release, clientVars
<1>7. asked' \in [Ptr -> Nat] /\ mem' \in [Ptr -> Nat]
  BY <1>1 DEF release, CallTypeOK, clientVars
<1>8. StepOf(t)
  BY <1>1, <1>3 DEF StepOf, CallTypeOK, lockVars
<1>9. CallTypeOK'
  BY <1>1, <1>3, <1>6, <1>7 DEF CallTypeOK, lockVars, ghostVars, PC
<1>10. /\ pc'[t] = "unlock_free" /\ ptr'[t] = NULL /\ new'[t] = NULL
       /\ old_type'[t] = k /\ list_lock' = list_lock
  BY <1>1, <1>3 DEF CallTypeOK, lockVars, k
<1>11. ThreadInv(t)'
  BY <1>1, <1>10 DEF ThreadInv, Locked, Blocks, Choice, TypeRead, HoldsHeap, HoldsClass, HoldsOld, HasNone
<1>12. /\ Mine(t) = {p} \cup ({new[t]} \ {NULL}) /\ Mine(t)' = {}
       /\ new[t] # p /\ p \notin live \cup leaked
  BY <1>1, <1>10 DEF Mine, CallTypeOK, BlocksAccounted
<1>13. /\ live' \cap leaked' = {}
       /\ Mine(t)' \cap (live' \cup leaked') = {}
       /\ Reach(t)' = Reach(t) \ {p} /\ Reach(t) \subseteq InUse /\ p \in Reach(t)
  BY <1>1, <1>3, <1>6, <1>12 DEF BlocksAccounted, Reach, Held, ghostVars
<1>14. SetupOnce' /\ NothingBeforeSetup'
  BY <1>1, <1>2, <1>5, <1>8, <1>10, SetupKept
<1>15. \A s \in Thread \ {t} :
         pc[s] \in {"take_block", "reuse_block"} => Untouched(size_class(size[s]))
  BY <1>1, <1>5, LockExcludes
<1>16. /\ InUse' = (InUse \ Reach(t)) \cup Reach(t)'
       /\ Reach(t)' \cap (InUse \ Reach(t)) = {}
  BY <1>5, <1>13
<1> QED BY <1>5, <1>8, <1>9, <1>10, <1>11, <1>13, <1>14, <1>15, <1>16, StepInv

(* free gives back the mutex it took and has no block any more.            *)
LEMMA UnlockFree ==
  ASSUME IInv, NEW t \in Thread, unlock_free(t)
  PROVE  IInv' /\ StepOf(t)
<1> DEFINE k == old_type[t]
<1>1. /\ CallTypeOK /\ ThreadInv(t) /\ NothingBeforeSetup /\ pc[t] = "unlock_free"
      /\ k \in Type /\ list_lock[k] = t /\ ptr[t] = NULL /\ new[t] = NULL
  BY IInvParts DEF unlock_free, ThreadInv, Locked, Blocks, HoldsOld, HasNone
<1> HIDE DEF k
<1>2. /\ list_lock' = [list_lock EXCEPT ![k] = NULL] /\ heap_mutex' = heap_mutex
      /\ pc' = [pc EXCEPT ![t] = "idle"]
      /\ size' = [size EXCEPT ![t] = 0] /\ ptr' = [ptr EXCEPT ![t] = NULL]
      /\ new' = [new EXCEPT ![t] = NULL] /\ old_type' = [old_type EXCEPT ![t] = UNMAPPED]
      /\ UNCHANGED <<heapVars, clientVars, ghostVars>>
  BY DEF unlock_free, unlock_list, finish, Goto, k
<1>3. StepOf(t)
  BY <1>1, <1>2 DEF StepOf, CallTypeOK
<1>4. CallTypeOK'
  BY <1>1, <1>2 DEF CallTypeOK, clientVars, ghostVars, PC
<1>5. pc'[t] = "idle" /\ ptr'[t] = NULL /\ new'[t] = NULL /\ Mine(t)' = Mine(t)
  BY <1>1, <1>2, HeapAssumption DEF CallTypeOK, Mine
<1>6. ThreadInv(t)'
  BY <1>5 DEF ThreadInv, Locked, Blocks, Choice, TypeRead, HoldsHeap, HoldsClass, HoldsOld, HasNone
<1>7. initialized
  BY <1>1 DEF NothingBeforeSetup, BeforeSetup, HoldsHeap
<1> QED BY <1>2, <1>3, <1>4, <1>5, <1>6, <1>7, MoveInv DEF clientVars, ghostVars

-----------------------------------------------------------------------------
(* The actions of realloc, and the program's stores. *)

(* A realloc that moves takes its block from the program and knows its     *)
(* type.                                                                   *)
LEMMA ReallocMove ==
  ASSUME IInv, NEW t \in Thread, NEW p \in Ptr, NEW n \in Requests, realloc_move(t, p, n)
  PROVE  IInv' /\ StepOf(t)
<1>1. /\ HeapInv /\ HeapTypeOK /\ CallTypeOK /\ BlocksAccounted /\ ThreadInv(t)
      /\ NothingBeforeSetup /\ pc[t] = "idle" /\ NULL \notin Ptr /\ p \in live
      /\ ptr[t] = NULL /\ new[t] = NULL /\ p[1] \in Addr
  BY IInvParts, HeapAssumption DEF realloc_move, ThreadInv, Blocks, HasNone, HeapInv, Ptr
<1>2. /\ pc' = [pc EXCEPT ![t] = "lock_list"] /\ ptr' = [ptr EXCEPT ![t] = p]
      /\ size' = [size EXCEPT ![t] = n] /\ old_type' = [old_type EXCEPT ![t] = type[p[1]]]
      /\ live' = live \ {p}
      /\ UNCHANGED <<heapVars, lockVars, new, asked, mem, ghostVars>>
  BY DEF realloc_move, Goto
<1>3. StepOf(t)
  BY <1>1, <1>2 DEF StepOf, CallTypeOK, lockVars
<1>4. CallTypeOK'
  <2>1. n \in Nat /\ type[p[1]] \in Type \cup {UNMAPPED}
    BY <1>1, BonusAssumption DEF HeapTypeOK
  <2> QED BY <1>1, <1>2, <2>1 DEF CallTypeOK, lockVars, ghostVars, PC
<1>5. pc'[t] = "lock_list" /\ ptr'[t] = p /\ new'[t] = NULL /\ old_type'[t] = type[p[1]]
  BY <1>1, <1>2 DEF CallTypeOK
<1>6. ThreadInv(t)'
  BY <1>1, <1>2, <1>5 DEF ThreadInv, Locked, Blocks, Choice, TypeRead, HoldsHeap, HoldsClass,
                          HoldsOld, HasNone, heapVars
<1>7. Mine(t) = {} /\ Mine(t)' = {p}
  BY <1>1, <1>5 DEF Mine
<1>8. /\ live' \cap leaked' = {}
      /\ Mine(t)' \cap (live' \cup leaked') = {}
      /\ Reach(t)' = Reach(t)
      /\ initialized /\ p # NULL
  BY <1>1, <1>2, <1>7 DEF BlocksAccounted, Reach, ghostVars, NothingBeforeSetup
<1> QED BY <1>2, <1>3, <1>4, <1>5, <1>6, <1>8, QuietInv

(* Resizing in place, copying and storing move no block.                   *)
LEMMA Bytes ==
  ASSUME IInv, NEW t \in Thread,
         \/ \E p \in Ptr, n \in Requests : realloc_in_place(t, p, n)
         \/ copy(t)
         \/ \E p \in Ptr : Write(t, p)
  PROVE  IInv' /\ StepOf(t)
<1>1. /\ CallTypeOK /\ BlocksAccounted /\ ThreadInv(t) /\ NothingBeforeSetup
      /\ pc[t] \in {"idle", "copy"}
  BY IInvParts DEF realloc_in_place, copy, Write
<1>2. /\ UNCHANGED <<heapVars, lockVars, argVars, new, live, ghostVars>>
      /\ \/ pc' = pc
         \/ pc[t] = "copy" /\ pc' = [pc EXCEPT ![t] = "lock_free"]
         \/ pc' = [pc EXCEPT ![t] = "killed"]
  BY DEF realloc_in_place, copy, Write, Goto
<1>3. asked' \in [Ptr -> Nat]
  BY <1>1, BonusAssumption DEF realloc_in_place, copy, Write, CallTypeOK
<1>4. mem' \in [Ptr -> Nat]
  <2>1. CASE copy(t)
    <3>1. /\ ptr[t] \in Ptr /\ new[t] \in Ptr
      BY <1>1, <2>1 DEF copy, ThreadInv, Blocks, CallTypeOK
    <3>2. mem[ptr[t]] \in Nat /\ current_size(ptr[t]) \in Nat
      <4>1. ptr[t][1] \in Addr
        BY <3>1 DEF Ptr
      <4> QED BY <1>1, <3>1, <4>1, HeapAssumption DEF current_size, CallTypeOK, IInv, TypeOK, HeapTypeOK
    <3>3. Min({mem[ptr[t]], current_size(ptr[t])}) \in Nat
      BY <3>2, MinElement
    <3> QED BY <1>1, <2>1, <3>3 DEF copy, CallTypeOK
  <2>2. CASE ~copy(t)
    BY <1>1, <2>2 DEF realloc_in_place, Write, CallTypeOK
  <2> QED BY <2>1, <2>2
<1>5. StepOf(t)
  BY <1>1, <1>2 DEF StepOf, CallTypeOK, lockVars, argVars
<1>6. CallTypeOK'
  BY <1>1, <1>2, <1>3, <1>4 DEF CallTypeOK, lockVars, argVars, ghostVars, PC
<1>7. /\ pc'[t] \in {pc[t], "killed"} \cup (IF pc[t] = "copy" THEN {"lock_free"} ELSE {})
      /\ ptr'[t] = ptr[t] /\ new'[t] = new[t] /\ old_type'[t] = old_type[t] /\ type' = type
      /\ Mine(t)' = Mine(t)
  BY <1>1, <1>2 DEF CallTypeOK, argVars, Mine, heapVars
<1>8. ThreadInv(t)'
  BY <1>1, <1>7 DEF ThreadInv, Locked, Blocks, Choice, TypeRead, HoldsHeap, HoldsClass,
                    HoldsOld, HasNone
<1>9. initialized
  BY <1>1, <1>2 DEF NothingBeforeSetup, BeforeSetup, HoldsHeap, realloc_in_place, copy, Write
<1>10. ptr'[t] = new'[t] => ptr'[t] = NULL
  BY <1>1, <1>7 DEF BlocksAccounted
<1> QED BY <1>1, <1>2, <1>5, <1>6, <1>7, <1>8, <1>9, <1>10, MoveInv DEF ghostVars

-----------------------------------------------------------------------------
(* Before the first call nothing is allocated and no mutex is held.        *)
LEMMA InitIInv == Init => IInv
<1> SUFFICES ASSUME Init PROVE IInv
  OBVIOUS
<1>1. HeapInv /\ InUse = {}
  BY HeapInitInv DEF Init
<1>2. CallTypeOK
  BY DEF Init, CallTypeOK, PC
<1>3. \A t \in Thread : Mine(t) = {}
  BY HeapAssumption DEF Init, Mine
<1>4. BlocksAccounted
  BY <1>1, <1>3 DEF Init, BlocksAccounted, Held
<1>5. SetupOnce /\ NothingBeforeSetup
  BY DEF Init, SetupOnce, NothingBeforeSetup, BeforeSetup
<1>6. \A t \in Thread : ThreadInv(t)
  BY DEF Init, ThreadInv, Locked, Blocks, Choice, TypeRead, HoldsHeap, HoldsClass, HoldsOld, HasNone
<1> QED BY <1>1, <1>2, <1>4, <1>5, <1>6, IInvParts

(* Every step of a thread keeps IInv and is its own.                       *)
LEMMA ThreadStep ==
  ASSUME IInv, NEW t \in Thread, Call(t) \/ Step(t) \/ \E p \in Ptr : Write(t, p)
  PROVE  IInv' /\ StepOf(t)
<1>1. CASE Call(t)
  BY <1>1, EnterMalloc, EnterFree, ReallocMove, Bytes DEF Call
<1>2. CASE Step(t)
  BY <1>2, LockHeap, Recheck, SetupZone, Publish, UnlockHeap, EnterList, AllocBlock, Take,
     Refill, Reuse, Create, Perror, LeaveList, Return, ReadType, LockFree, Release, UnlockFree,
     Bytes DEF Step
<1>3. CASE \E p \in Ptr : Write(t, p)
  BY <1>3, Bytes
<1> QED BY <1>1, <1>2, <1>3

(* Every step keeps IInv.                                                  *)
LEMMA NextIInv == IInv /\ [Next]_vars => IInv'
<1> SUFFICES ASSUME IInv, [Next]_vars PROVE IInv'
  OBVIOUS
<1>1. CASE UNCHANGED vars
  BY <1>1 DEF vars, lockVars, argVars, clientVars, ghostVars, heapVars,
     IInv, TypeOK, HeapTypeOK, ListsConsistent, CountsMatchBitmap, BlocksAccounted, SetupOnce,
     NothingBeforeSetup, ThreadInv, Locked, Blocks, Choice, TypeRead, Held, Mine, InUse
<1> QED BY <1>1, ThreadStep DEF Next

(* IInv holds in every state of every execution.                           *)
THEOREM Inductive == Spec => []IInv
BY InitIInv, NextIInv, PTL DEF Spec

(* The variables keep their types.                                         *)
THEOREM TypeCorrect == Spec => []TypeOK
BY Inductive, PTL DEF IInv

(* No two threads work on the lists of a class at once, however many there *)
(* are: set-up ends before any list is used, and the type free reads       *)
(* without a lock names the right one.                                     *)
THEOREM NoRace == Spec => []NoDataRace
<1>1. ASSUME IInv
      PROVE  NoDataRace
  <2> SUFFICES ASSUME NEW s \in Thread, NEW t \in Thread, s # t
               PROVE  Touches(s) \cap Touches(t) = {}
    BY DEF NoDataRace
  <2> DEFINE Setup == {"setup_tiny", "setup_small"}
             Listed == {"alloc_block", "take_block", "reuse_block", "create_block", "refill"}
  <2>1. ASSUME NEW r \in Thread
        PROVE  /\ pc[r] \in Setup => heap_mutex = r /\ ~initialized
               /\ pc[r] \in Listed =>
                    /\ initialized
                    /\ Touches(r) = {size_class(size[r])} /\ list_lock[size_class(size[r])] = r
               /\ pc[r] = "free_ptr" =>
                    /\ initialized
                    /\ Touches(r) = {old_type[r]} /\ list_lock[old_type[r]] = r
               /\ pc[r] \notin Setup \cup Listed \cup {"free_ptr"} => Touches(r) = {}
    <3>1. ThreadInv(r) /\ NothingBeforeSetup /\ SetupOnce
      BY <1>1 DEF IInv
    <3>2. pc[r] \in Setup => heap_mutex = r /\ ~initialized
      BY <3>1 DEF ThreadInv, Locked, HoldsHeap, SetupOnce
    <3>3. pc[r] \in Listed \cup {"free_ptr"} => initialized
      BY <3>1 DEF NothingBeforeSetup, BeforeSetup, HoldsHeap
    <3>4. pc[r] \in Listed =>
            Touches(r) = {size_class(size[r])} /\ list_lock[size_class(size[r])] = r
      BY <3>1 DEF ThreadInv, Locked, HoldsClass, Touches
    <3>5. pc[r] = "free_ptr" => Touches(r) = {old_type[r]} /\ list_lock[old_type[r]] = r
      BY <3>1 DEF ThreadInv, Locked, Blocks, TypeRead, HoldsOld, Touches
    <3>6. pc[r] \notin Setup \cup Listed \cup {"free_ptr"} => Touches(r) = {}
      BY DEF Touches
    <3> QED BY <3>2, <3>3, <3>4, <3>5, <3>6
  <2> QED BY <2>1
<1> QED BY <1>1, Inductive, PTL

(* The heap is set up once, whatever the double-checked initialisation     *)
(* lets other threads see meanwhile.                                       *)
THEOREM SetUpOnce == Spec => []SetupOnce
BY Inductive, PTL DEF IInv

(* No block is handed out twice or unmapped while a thread or the program  *)
(* has it, for any number of threads.                                      *)
THEOREM EveryBlockAccounted == Spec => []BlocksAccounted
BY Inductive, PTL DEF IInv

(* The lists, counters and bitmaps agree in every state any thread sees.   *)
THEOREM ListsAreConsistent == Spec => []ListsConsistent
BY Inductive, PTL DEF IInv

(* free and realloc lock the right list: nobody changes the type of a      *)
(* block that is in use.                                                   *)
THEOREM OldTypeIsCurrent == Spec => []OldTypeCurrent
<1>1. IInv => OldTypeCurrent
  BY DEF IInv, ThreadInv, Blocks, TypeRead, OldTypeCurrent
<1> QED BY <1>1, Inductive, PTL

-----------------------------------------------------------------------------
(* Refused requests. *)

(* While every mmap has succeeded no thread has given up, and the zones    *)
(* that set-up has made so far have free blocks.                           *)
Supplied(t) ==
  /\ pc[t] \in {"setup_small", "publish"} => free_list["TINY"] # <<>>
  /\ pc[t] = "publish" => free_list["SMALL"] # <<>>
  /\ pc[t] \notin {"abort_setup", "perror"}
  /\ pc[t] \in {"unlock_list", "return"} => new[t] # NULL

(* A class without a free block is one that a thread is mapping a zone for. *)
Stocked ==
  initialized => \A k \in ZoneType :
    \/ free_list[k] # <<>>
    \/ \E t \in Thread : pc[t] = "refill" /\ size_class(size[t]) = k

Reserve == ~mmap_failed => Stocked /\ \A t \in Thread : Supplied(t)

(* A step of thread t keeps the reserve if it empties no free list but to  *)
(* refill it.                                                              *)
LEMMA ReserveStep ==
  ASSUME IInv, Reserve, NEW t \in Thread, StepOf(t), mmap_failed => mmap_failed',
         ~mmap_failed' => Supplied(t)',
         \A k \in ZoneType : free_list[k] # <<>> =>
           \/ free_list'[k] # <<>>
           \/ initialized /\ pc'[t] = "refill" /\ size_class(size'[t]) = k,
         \A k \in ZoneType : pc[t] = "refill" /\ size_class(size[t]) = k /\ ~mmap_failed' =>
           free_list'[k] # <<>>,
         initialized' /\ ~mmap_failed' => initialized \/ \A k \in ZoneType : free_list'[k] # <<>>
  PROVE  Reserve'
<1> SUFFICES ASSUME ~mmap_failed', ~mmap_failed
             PROVE  Stocked' /\ \A s \in Thread : Supplied(s)'
  BY DEF Reserve
<1>1. Stocked /\ SetupOnce /\ \A s \in Thread : Supplied(s)
  BY DEF IInv, Reserve
<1>2. \A s \in Thread \ {t} : pc'[s] = pc[s] /\ size'[s] = size[s] /\ new'[s] = new[s]
  BY DEF StepOf
<1>3. Stocked'
  <2> SUFFICES ASSUME NEW k \in ZoneType, initialized', free_list'[k] = <<>>
               PROVE  \E s \in Thread : pc'[s] = "refill" /\ size_class(size'[s]) = k
    BY DEF Stocked, size_class
  <2>1. CASE free_list[k] # <<>>
    BY <2>1
  <2>2. CASE free_list[k] = <<>>
    <3>1. PICK s \in Thread : pc[s] = "refill" /\ size_class(size[s]) = k
      BY <1>1, <2>2 DEF Stocked
    <3>2. s # t
      BY <3>1
    <3> QED BY <1>2, <3>1, <3>2
  <2> QED BY <2>1, <2>2
<1>4. ASSUME NEW s \in Thread \ {t}
      PROVE  Supplied(s)'
  <2>1. pc[s] \in {"setup_small", "publish"} =>
          \A k \in ZoneType : free_list[k] # <<>> => free_list'[k] # <<>>
    BY <1>1 DEF SetupOnce
  <2> QED BY <1>1, <1>2, <2>1 DEF Supplied, ZoneType
<1> QED BY <1>3, <1>4

(* A step that changes no free list.                                       *)
LEMMA ReserveQuiet ==
  ASSUME IInv, Reserve, NEW t \in Thread, StepOf(t), UNCHANGED <<free_list, initialized>>,
         mmap_failed => mmap_failed',
         ~mmap_failed' => Supplied(t)' /\ pc[t] # "refill"
  PROVE  Reserve'
BY ReserveStep

(* While a thread holds the lock of a class and refills no zone, the class *)
(* has a free block, and alloc_block finds it.                             *)
LEMMA AllocBlockFinds ==
  ASSUME IInv, Reserve, ~mmap_failed, NEW t \in Thread, alloc_block(t)
  PROVE  pc'[t] \in {"take_block", "reuse_block", "create_block"}
<1> DEFINE k == size_class(size[t])
<1>1. /\ HeapInv /\ HeapTypeOK /\ CallTypeOK /\ CountsMatchBitmap /\ pc[t] = "alloc_block"
      /\ \A s \in Thread : ThreadInv(s)
      /\ initialized /\ size[t] \in Nat /\ k \in Type /\ (k \in ZoneType <=> k # "LARGE")
  BY IInvParts, SizeClass
     DEF alloc_block, CallTypeOK, HeapInv, NothingBeforeSetup, BeforeSetup, HoldsHeap
<1>2. CASE k = "LARGE"
  BY <1>1, <1>2 DEF alloc_block, find_free_large_block, Goto, CallTypeOK
<1>3. CASE k \in ZoneType
  <2> DEFINE z == Head(free_list[k])
  <2>1. \A s \in Thread : pc[s] = "refill" => size_class(size[s]) # k
    BY <1>1 DEF ThreadInv, Locked, HoldsClass
  <2>2. free_list[k] # <<>>
    BY <1>1, <1>3, <2>1 DEF Reserve, Stocked
  <2>3. z \in Range(free_list[k]) /\ z \in Addr /\ type[z] = k
    BY <1>1, <2>2, HeadRange, InList DEF HeapTypeOK
  <2>4. find_set_bit(z) # -1 /\ find_set_bit(z) \in 0 .. NBlocks[k] - 1
    BY <1>1, <1>3, <2>3, FreeZoneHasBit, FindSetBit DEF CountsMatchBitmap
  <2>5. NBlocks[k] \in Nat
    BY <1>3, HeapAssumption
  <2>6. find_set_bit_bounded(z) # -1
    BY <2>3, <2>4, <2>5 DEF find_set_bit_bounded
  <2>7. k # "LARGE" /\ find_free_block(t, k)
    BY <1>1, <1>3 DEF alloc_block
  <2> QED BY <1>1, <2>2, <2>6, <2>7 DEF find_free_block, Goto, CallTypeOK
<1> QED BY <1>1, <1>2, <1>3

(* Every step keeps the reserve, or follows a failed mmap.                 *)
LEMMA ThreadReserve ==
  ASSUME IInv, Reserve, NEW t \in Thread, Call(t) \/ Step(t) \/ \E p \in Ptr : Write(t, p)
  PROVE  Reserve'
<1>1. /\ HeapInv /\ HeapTypeOK /\ CallTypeOK /\ ThreadInv(t) /\ StepOf(t) /\ NULL \notin Ptr
      /\ SetupOnce /\ NothingBeforeSetup
  BY IInvParts, ThreadStep, HeapAssumption DEF HeapInv
<1> USE DEF Supplied
<1>2. ~mmap_failed => Supplied(t)
  BY DEF Reserve
<1>3. CASE Call(t) \/ \E p \in Ptr : Write(t, p)
  <2>1. /\ UNCHANGED <<heapVars, ghostVars>> /\ pc[t] = "idle"
        /\ pc'[t] \in {"idle", "lock_list", "lock_heap", "read_type", "killed"}
    BY <1>1, <1>3 DEF Call, malloc, free, realloc_in_place, realloc_move, Write, Calling, Goto, CallTypeOK
  <2> QED BY <1>1, <2>1, ReserveQuiet DEF heapVars, ghostVars
<1>4. CASE \/ lock_heap(t) \/ recheck(t) \/ enter_list(t) \/ read_type(t) \/ lock_free(t)
           \/ unlock_free(t) \/ copy(t)
  <2>1. /\ UNCHANGED <<heapVars, ghostVars>> /\ pc[t] # "refill"
        /\ pc'[t] \in {"recheck", "unlock_heap", "setup_tiny", "alloc_block", "lock_free", "free_ptr",
                       "idle", "killed"}
    BY <1>1, <1>4 DEF lock_heap, recheck, enter_list, read_type, lock_free, unlock_free, copy,
                      finish, Goto, CallTypeOK
  <2> QED BY <1>1, <2>1, ReserveQuiet DEF heapVars, ghostVars
<1>5. CASE unlock_heap(t) \/ perror(t) \/ leave_list(t) \/ return(t)
  <2>1. /\ UNCHANGED <<heapVars, ghostVars>> /\ pc[t] # "refill"
        /\ pc'[t] \in {"lock_list", "unlock_list", "return", "copy", "idle"}
        /\ pc'[t] = "unlock_list" => pc[t] = "perror"
        /\ pc'[t] = "return" =>
             pc[t] = "abort_setup" \/ (pc[t] = "unlock_list" /\ new'[t] = new[t])
    BY <1>1, <1>5 DEF unlock_heap, perror, leave_list, return, finish, Goto, CallTypeOK
  <2> QED BY <1>1, <1>2, <2>1, ReserveQuiet DEF heapVars, ghostVars
<1>6. CASE alloc_block(t)
  <2>1. UNCHANGED <<heapVars, ghostVars>> /\ pc[t] = "alloc_block"
    BY <1>6 DEF alloc_block
  <2> QED BY <1>1, <1>6, <2>1, AllocBlockFinds, ReserveQuiet DEF heapVars, ghostVars
<1>7. CASE setup_tiny(t) \/ setup_small(t)
  <2>1. PICK k \in ZoneType, next \in {"setup_small", "publish"} :
          /\ setup_zone(t, k, next)
          /\ k = IF pc[t] = "setup_tiny" THEN "TINY" ELSE "SMALL"
          /\ next = IF pc[t] = "setup_tiny" THEN "setup_small" ELSE "publish"
          /\ pc[t] \in {"setup_tiny", "setup_small"}
    BY <1>7 DEF setup_tiny, setup_small, ZoneType
  <2>2. CASE /\ \E z \in Addr : create_zone(k, z)
             /\ pc' = [pc EXCEPT ![t] = next] /\ UNCHANGED <<initialized, mmap_failed>>
    <3>1. /\ free_list'[k] # <<>> /\ pc'[t] = next
          /\ \A l \in ZoneType : free_list[l] # <<>> => free_list'[l] # <<>>
      BY <1>1, <2>2, CreateZoneReserve DEF CallTypeOK
    <3>2. ~mmap_failed' => Supplied(t)'
      BY <1>2, <2>1, <2>2, <3>1 DEF ZoneType
    <3> QED BY <1>1, <2>1, <2>2, <3>1, <3>2, ReserveStep
  <2>3. CASE mmap_failed' /\ UNCHANGED heapVars
    BY <2>3 DEF Reserve
  <2> QED BY <2>1, <2>2, <2>3 DEF setup_zone, Goto
<1>8. CASE publish(t)
  <2>1. /\ UNCHANGED <<free_list, mmap_failed>> /\ pc[t] = "publish" /\ pc'[t] = "unlock_heap"
    BY <1>1, <1>8 DEF publish, Goto, CallTypeOK, ghostVars
  <2> QED BY <1>1, <1>2, <2>1, ReserveStep DEF ZoneType
<1>9. CASE take(t)
  <2> DEFINE k == size_class(size[t])
             z == new[t][1]
  <2>1. /\ pc[t] = "take_block" /\ k \in ZoneType /\ new[t] # NULL /\ new[t] \in Ptr /\ initialized
        /\ z \in Addr /\ type[z] = k
    <3>1. /\ pc[t] = "take_block" /\ k \in ZoneType /\ z \in Range(free_list[k]) /\ new[t] # NULL
      BY <1>1, <1>9 DEF take, ThreadInv, Choice, Blocks
    <3> QED BY <1>1, <3>1, InList DEF Type, CallTypeOK, NothingBeforeSetup
  <2> HIDE DEF k, z
  <2>2. /\ take_block(z, new[t][2], size[t])
        /\ pc' = [pc EXCEPT ![t] = IF free_count[z] - 1 = 0 THEN "refill" ELSE "unlock_list"]
        /\ UNCHANGED <<argVars, new, ghostVars>>
    BY <1>9 DEF take, Goto, z
  <2>3. /\ initialized' = initialized
        /\ \A l \in ZoneType \ {k} : free_list'[l] = free_list[l]
        /\ free_count[z] - 1 # 0 => free_list' = free_list
    BY <1>1, <2>1, <2>2 DEF take_block, HeapTypeOK, Type
  <2>4. /\ pc'[t] = IF free_count[z] - 1 = 0 THEN "refill" ELSE "unlock_list"
        /\ size'[t] = size[t] /\ new'[t] = new[t] /\ mmap_failed' = mmap_failed
    BY <1>1, <2>2 DEF CallTypeOK, argVars, ghostVars
  <2> QED BY <1>1, <2>1, <2>3, <2>4, ReserveStep DEF k
<1>10. CASE refill(t)
  <2> DEFINE k == size_class(size[t])
  <2>1. /\ pc[t] = "refill" /\ pc'[t] = "unlock_list" /\ new[t] # NULL
        /\ k \in ZoneType /\ type[new[t][1]] = k /\ initialized
    BY <1>1, <1>10 DEF refill, Goto, CallTypeOK, ThreadInv, Blocks, Choice, NothingBeforeSetup, BeforeSetup, HoldsHeap
  <2> HIDE DEF k
  <2>2. CASE \E z \in Addr : create_zone(k, z) /\ UNCHANGED <<initialized, new, ghostVars>>
    BY <1>1, <2>1, <2>2, CreateZoneReserve, ReserveStep DEF ghostVars, k
  <2>3. CASE mmap_failed'
    BY <2>3 DEF Reserve
  <2> QED BY <1>10, <2>1, <2>2, <2>3 DEF refill
<1>11. CASE reuse(t)
  <2>1. /\ pc[t] = "reuse_block" /\ pc'[t] = "unlock_list" /\ new[t] # NULL /\ new'[t] = new[t]
        /\ mmap_failed' = mmap_failed /\ initialized' = initialized
        /\ \A l \in ZoneType : free_list'[l] = free_list[l]
    BY <1>1, <1>11 DEF reuse, reuse_block, Goto, CallTypeOK, HeapTypeOK, ThreadInv, Blocks, ghostVars,
       Type, ZoneType
  <2> QED BY <1>1, <2>1, ReserveStep
<1>12. CASE create(t)
  <2>1. CASE mmap_failed'
    BY <2>1 DEF Reserve
  <2>2. CASE ~mmap_failed'
    <3>1. PICK b \in Addr : /\ create_block(b, size[t]) /\ new' = [new EXCEPT ![t] = <<b, 0>>]
                            /\ pc' = [pc EXCEPT ![t] = "unlock_list"] /\ UNCHANGED mmap_failed
      BY <1>12, <2>2 DEF create, Goto
    <3>2. <<b, 0>> \in Ptr
      BY ZeroIndex DEF Ptr
    <3>3. /\ pc[t] = "create_block" /\ pc'[t] = "unlock_list" /\ new'[t] # NULL
      BY <1>1, <1>12, <3>1, <3>2 DEF create, CallTypeOK
    <3> QED BY <1>1, <3>1, <3>3, ReserveQuiet DEF create_block
  <2> QED BY <2>1, <2>2
<1>13. CASE release(t)
  <2>1. /\ ptr[t] \in InUse /\ free_ptr(ptr[t])
    BY <1>1, <1>13 DEF release, ThreadInv, Blocks, CallTypeOK, IInv, BlocksAccounted, Held, Mine
  <2>2. /\ pc[t] = "free_ptr" /\ pc'[t] = "unlock_free" /\ mmap_failed' = mmap_failed
    BY <1>1, <1>13 DEF release, Goto, CallTypeOK, ghostVars
  <2> QED BY <1>1, <2>1, <2>2, FreePtr, ReserveStep
<1> QED BY <1>3, <1>4, <1>5, <1>6, <1>7, <1>8, <1>9, <1>10, <1>11, <1>12, <1>13 DEF Step

(* malloc and realloc refuse a request only after an mmap has failed, even *)
(* while other threads set the heap up or fill the last zone of a class.   *)
THEOREM RefusedOnlyAfterMmapFailure == Spec => []NullNeedsMmapFailure
<1>1. Init => Reserve
  BY DEF Init, HeapInit, Reserve, Stocked, Supplied
<1>2. IInv /\ Reserve /\ [Next]_vars => Reserve'
  <2> SUFFICES ASSUME IInv, Reserve, [Next]_vars PROVE Reserve'
    OBVIOUS
  <2>1. CASE UNCHANGED vars
    BY <2>1 DEF vars, heapVars, argVars, ghostVars, Reserve, Stocked, Supplied
  <2> QED BY <2>1, ThreadReserve DEF Next
<1>3. Reserve => NullNeedsMmapFailure
  BY DEF Reserve, Supplied, NullNeedsMmapFailure
<1> QED BY <1>1, <1>2, <1>3, Inductive, PTL DEF Spec

-----------------------------------------------------------------------------
(* The sizes of blocks. *)

(* Block p is large enough for n bytes; a large block was made for n bytes *)
(* or comes from the cache.                                                *)
LargeEnough(p, n) ==
  IF type[p[1]] \in ZoneType
  THEN n <= current_size(p)
  ELSE /\ n <= block_size[p[1]]
       /\ block_size[p[1]] = n \/ block_size[p[1]] <= SMALL_BLOCK_SIZE * BLOCKS_PER_ZONE

(* Only realloc asks for more than PTRDIFF_MAX, and what a thread has      *)
(* chosen or taken is large enough.                                        *)
Sized(t) ==
  /\ size[t] <= SIZE_MAX
  /\ ptr[t] = NULL /\ pc[t] # "unlock_free" => size[t] <= PTRDIFF_MAX
  /\ pc[t] = "reuse_block" => size[t] <= block_size[new[t][1]]
  /\ new[t] # NULL /\ pc[t] \notin {"take_block", "reuse_block"} => LargeEnough(new[t], size[t])

SizeInv == LargeSizes /\ \A t \in Thread : Sized(t)

(* Every step keeps the sizes of what stays mapped.                        *)
LEMMA ThreadSizes ==
  ASSUME IInv, NEW t \in Thread, Call(t) \/ Step(t) \/ \E p \in Ptr : Write(t, p)
  PROVE  SizesKept
<1>1. HeapInv /\ HeapTypeOK /\ CallTypeOK /\ BlocksAccounted /\ ThreadInv(t)
  BY IInvParts DEF HeapInv
<1>2. UNCHANGED heapVars => SizesKept
  BY <1>1, HeapUnchangedSizes
<1>3. CASE Call(t) \/ \E p \in Ptr : Write(t, p)
  BY <1>2, <1>3 DEF Call, malloc, free, realloc_in_place, realloc_move, Write
<1>4. CASE setup_tiny(t) \/ setup_small(t)
  BY <1>1, <1>2, <1>4, CreateZoneSizes DEF setup_tiny, setup_small, setup_zone, ZoneType
<1>5. CASE publish(t)
  <2>1. \A b \in Range(free_list["LARGE"]) : b \in Addr /\ type[b] = "LARGE"
    BY <1>1, InList DEF Type
  <2> QED BY <1>5, <2>1 DEF publish, SizesKept, UNMAPPED
<1>6. CASE take(t)
  <2>1. size_class(size[t]) \in ZoneType /\ new[t][1] \in Range(free_list[size_class(size[t])])
    BY <1>1, <1>6 DEF take, ThreadInv, Choice
  <2> QED BY <1>1, <1>6, <2>1, TakeBlockSizes DEF take
<1>7. CASE refill(t)
  BY <1>1, <1>2, <1>7, CreateZoneSizes DEF refill, ThreadInv, Choice
<1>8. CASE reuse(t)
  BY <1>1, <1>8, ReuseBlockSizes DEF reuse, ThreadInv, Choice
<1>9. CASE create(t)
  <2>1. size[t] \in Nat /\ size[t] > SMALL_BLOCK_SIZE
    BY <1>1, <1>9, SizeClass DEF create, CallTypeOK, ThreadInv, Choice
  <2> QED BY <1>1, <1>2, <1>9, <2>1, CreateBlockSizes DEF create
<1>10. CASE release(t)
  <2>1. ptr[t] \in InUse
    BY <1>1, <1>10 DEF release, ThreadInv, Blocks, CallTypeOK, BlocksAccounted, Held, Mine
  <2> QED BY <1>1, <1>10, <2>1, FreePtrSizes DEF release
<1>11. CASE \/ lock_heap(t) \/ recheck(t) \/ unlock_heap(t) \/ enter_list(t) \/ alloc_block(t)
            \/ perror(t) \/ leave_list(t) \/ return(t) \/ read_type(t) \/ lock_free(t)
            \/ unlock_free(t) \/ copy(t)
  BY <1>2, <1>11 DEF lock_heap, recheck, unlock_heap, enter_list, alloc_block, perror, leave_list,
                     return, read_type, lock_free, unlock_free, copy
<1> QED BY <1>3, <1>4, <1>5, <1>6, <1>7, <1>8, <1>9, <1>10, <1>11 DEF Step

(* A block that is in use before and after a step stays large enough.      *)
LEMMA LargeEnoughKept ==
  ASSUME SizesKept, NEW p \in InUse, p \in InUse', NEW n, LargeEnough(p, n)
  PROVE  LargeEnough(p, n)'
<1>1. p[1] \in Addr /\ type[p[1]] # UNMAPPED /\ type'[p[1]] # UNMAPPED
  BY DEF InUse, Ptr, ZoneType, UNMAPPED
<1>2. type'[p[1]] = type[p[1]] /\ block_size'[p[1]] = block_size[p[1]]
  BY <1>1 DEF SizesKept
<1> QED BY <1>2 DEF LargeEnough, current_size

(* What a thread has chosen or taken keeps its size, whoever takes a step. *)
LEMMA SizedKept ==
  ASSUME IInv, IInv', SizesKept, NEW s \in Thread, Sized(s),
         pc'[s] = pc[s], size'[s] = size[s], ptr'[s] = ptr[s], new'[s] = new[s]
  PROVE  Sized(s)'
<1>1. /\ HeapInv /\ HeapInv' /\ BlocksAccounted /\ BlocksAccounted' /\ CallTypeOK
      /\ ThreadInv(s) /\ ThreadInv(s)'
  BY IInvParts DEF IInv, TypeOK, HeapInv
<1>2. pc[s] = "reuse_block" => block_size'[new[s][1]] = block_size[new[s][1]]
  <2> SUFFICES ASSUME pc[s] = "reuse_block" PROVE block_size'[new[s][1]] = block_size[new[s][1]]
    OBVIOUS
  <2>1. new[s][1] \in Range(free_list["LARGE"]) /\ new[s][1] \in Range(free_list'["LARGE"])
    BY <1>1 DEF ThreadInv, Choice
  <2>2. new[s][1] \in Addr /\ type[new[s][1]] = "LARGE"
    BY <1>1, <2>1, InList DEF Type
  <2>3. type'[new[s][1]] = "LARGE"
    BY <1>1, <2>1, <2>2 DEF HeapInv, ListsConsistent, Type
  <2> QED BY <2>2, <2>3 DEF SizesKept, UNMAPPED
<1>3. new[s] # NULL /\ pc[s] \notin {"take_block", "reuse_block"} => LargeEnough(new[s], size[s])'
  <2> SUFFICES ASSUME new[s] # NULL, pc[s] \notin {"take_block", "reuse_block"}
               PROVE  LargeEnough(new[s], size[s])'
    OBVIOUS
  <2>1. new[s] \in InUse /\ new[s] \in InUse'
    BY <1>1 DEF BlocksAccounted, Held, Mine, CallTypeOK
  <2>2. LargeEnough(new[s], size[s])
    BY DEF Sized
  <2> QED BY <2>1, <2>2, LargeEnoughKept DEF LargeEnough, current_size
<1> QED BY <1>2, <1>3 DEF Sized

(* A thread that moves on with the same request and no new block.          *)
LEMMA SizedMove ==
  ASSUME IInv, IInv', SizesKept, NEW t \in Thread, Sized(t),
         size'[t] = size[t], new'[t] \in {new[t], NULL}, ptr'[t] = NULL => ptr[t] = NULL,
         pc[t] \notin {"take_block", "reuse_block", "unlock_free"}, pc'[t] # "reuse_block"
  PROVE  Sized(t)'
<1>1. /\ BlocksAccounted /\ BlocksAccounted' /\ CallTypeOK /\ ThreadInv(t)'
  BY IInvParts DEF IInv
<1>2. new'[t] # NULL /\ pc'[t] \notin {"take_block", "reuse_block"} => LargeEnough(new[t], size[t])'
  <2> SUFFICES ASSUME new'[t] # NULL, pc'[t] \notin {"take_block", "reuse_block"}
               PROVE  LargeEnough(new[t], size[t])'
    OBVIOUS
  <2>1. new[t] \in InUse /\ new[t] \in InUse'
    BY <1>1 DEF BlocksAccounted, Held, Mine, CallTypeOK
  <2>2. LargeEnough(new[t], size[t])
    BY DEF Sized
  <2> QED BY <2>1, <2>2, LargeEnoughKept DEF LargeEnough, current_size
<1> QED BY <1>2 DEF Sized

(* alloc_block chooses, takes and makes blocks that are large enough.      *)
LEMMA AllocSized ==
  ASSUME IInv, IInv', SizesKept, LargeSizes, NEW t \in Thread, Sized(t),
         alloc_block(t) \/ take(t) \/ reuse(t) \/ create(t)
  PROVE  Sized(t)'
<1>1. /\ HeapInv /\ HeapTypeOK /\ CallTypeOK /\ ThreadInv(t) /\ ThreadInv(t)'
      /\ size[t] \in Nat /\ NULL \notin Ptr
      /\ \A b \in Range(free_list["LARGE"]) : b \in Addr /\ type[b] = "LARGE"
  BY IInvParts, HeapAssumption, InList DEF HeapInv, CallTypeOK, IInv, Type
<1>2. UNCHANGED argVars /\ size'[t] = size[t] /\ ptr'[t] = ptr[t]
  BY DEF alloc_block, take, reuse, create, argVars
<1>3. CASE alloc_block(t)
  <2>1. pc[t] = "alloc_block" /\ new[t] = NULL /\ UNCHANGED heapVars
    BY <1>1, <1>3 DEF alloc_block, ThreadInv, Blocks
  <2>2. \/ /\ pc'[t] = "reuse_block" /\ first_fit(size[t]) # 0
           /\ new'[t] = <<free_list["LARGE"][first_fit(size[t])], 0>>
        \/ pc'[t] = "take_block"
        \/ pc'[t] \in {"create_block", "unlock_list"} /\ new'[t] = NULL
    <3>1. CASE find_free_large_block(t)
      BY <1>1, <2>1, <3>1 DEF find_free_large_block, Goto, CallTypeOK
    <3>2. CASE \E k \in Type : find_free_block(t, k)
      BY <1>1, <2>1, <3>2 DEF find_free_block, Goto, CallTypeOK
    <3>3. size_class(size[t]) \in Type
      BY <1>1, SizeClass
    <3> QED BY <1>3, <3>1, <3>2, <3>3 DEF alloc_block
  <2>3. pc'[t] = "reuse_block" => size[t] <= block_size[new'[t][1]]
    BY <1>1, <2>1, <2>2, FirstFit DEF heapVars
  <2> QED BY <1>2, <2>1, <2>2, <2>3 DEF Sized, heapVars
<1>4. CASE take(t)
  <2> DEFINE k == size_class(size[t])
  <2>1. /\ pc[t] = "take_block" /\ k \in ZoneType /\ new[t] \in Ptr /\ new'[t] = new[t]
        /\ new[t][1] \in Range(free_list[k]) /\ pc'[t] \in {"refill", "unlock_list"}
        /\ UNCHANGED <<type, block_size>>
    BY <1>1, <1>4 DEF take, take_block, Goto, CallTypeOK, ThreadInv, Choice, Blocks
  <2>2. type[new[t][1]] = k
    BY <1>1, <2>1, InList DEF Type
  <2>3. size[t] <= current_size(new[t])
    BY <1>1, <2>1, <2>2, ClassFits
  <2>4. LargeEnough(new[t], size[t])'
    BY <1>2, <2>1, <2>2, <2>3 DEF LargeEnough, current_size
  <2> QED BY <1>2, <2>1, <2>4 DEF Sized, LargeEnough, current_size
<1>5. CASE reuse(t)
  <2>1. /\ pc[t] = "reuse_block" /\ new'[t] = new[t] /\ pc'[t] = "unlock_list"
        /\ new[t][1] \in Range(free_list["LARGE"]) /\ UNCHANGED <<type, block_size>>
    BY <1>1, <1>5 DEF reuse, reuse_block, Goto, CallTypeOK, ThreadInv, Choice
  <2>2. /\ type[new[t][1]] = "LARGE" /\ size[t] <= block_size[new[t][1]]
        /\ block_size[new[t][1]] <= SMALL_BLOCK_SIZE * BLOCKS_PER_ZONE
    BY <1>1, <2>1 DEF Sized, LargeSizes
  <2> QED BY <1>2, <2>1, <2>2 DEF Sized, LargeEnough, current_size, ZoneType
<1>6. CASE create(t)
  <2>1. pc[t] = "create_block" /\ new[t] = NULL
    BY <1>1, <1>6 DEF create, ThreadInv, Blocks
  <2>2. CASE pc' = [pc EXCEPT ![t] = "perror"] /\ UNCHANGED new
    <3>1. pc'[t] = "perror" /\ new'[t] = NULL
      BY <1>1, <2>1, <2>2 DEF CallTypeOK
    <3> QED BY <1>2, <2>1, <3>1, SizedMove
  <2>3. CASE ~(pc' = [pc EXCEPT ![t] = "perror"] /\ UNCHANGED new)
    <3>1. PICK b \in Addr : /\ create_block(b, size[t]) /\ new' = [new EXCEPT ![t] = <<b, 0>>]
                            /\ pc' = [pc EXCEPT ![t] = "unlock_list"]
      BY <1>6, <2>3 DEF create, Goto
    <3>2. /\ pc'[t] = "unlock_list" /\ new'[t] = <<b, 0>>
          /\ type'[b] = "LARGE" /\ block_size'[b] = size[t]
      BY <1>1, <3>1 DEF create_block, CallTypeOK, HeapTypeOK
    <3> QED BY <1>1, <1>2, <2>1, <3>2 DEF Sized, LargeEnough, ZoneType
  <2> QED BY <2>2, <2>3
<1> QED BY <1>3, <1>4, <1>5, <1>6

(* Every step of a thread keeps its own sizes.                             *)
LEMMA ThreadSized ==
  ASSUME IInv, IInv', SizesKept, LargeSizes, NEW t \in Thread, Sized(t),
         Call(t) \/ Step(t) \/ \E p \in Ptr : Write(t, p)
  PROVE  Sized(t)'
<1>1. /\ CallTypeOK /\ ThreadInv(t) /\ NULL \notin Ptr
      /\ size[t] \in Nat /\ SIZE_MAX \in Nat /\ PTRDIFF_MAX \in Nat /\ HEADER \in Nat
      /\ PTRDIFF_MAX + HEADER <= SIZE_MAX
  BY IInvParts, HeapAssumption, BonusAssumption DEF CallTypeOK
<1>2. CASE \E n \in Sizes(t) : malloc(t, n)
  <2>1. PICK n \in Sizes(t) : malloc(t, n)
    BY <1>2
  <2>2. n \in Nat /\ n <= PTRDIFF_MAX
    BY <2>1, BonusAssumption DEF malloc, Sizes
  <2>3. size'[t] = n /\ new'[t] = NULL /\ pc'[t] \in {"lock_list", "lock_heap"}
    BY <1>1, <2>1 DEF malloc, Calling, Goto, CallTypeOK, ThreadInv, Blocks, HasNone
  <2> QED BY <1>1, <2>2, <2>3 DEF Sized
<1>3. CASE \E p \in Ptr : free(t, p)
  BY <1>1, <1>3, SizedMove DEF free, Calling, Goto, CallTypeOK
<1>4. CASE \E p \in Ptr, n \in Requests : realloc_move(t, p, n)
  <2>1. PICK p \in Ptr, n \in Requests : realloc_move(t, p, n)
    BY <1>4
  <2>2. size'[t] = n /\ new'[t] = NULL /\ pc'[t] = "lock_list" /\ ptr'[t] = p /\ n <= SIZE_MAX
    BY <1>1, <2>1, BonusAssumption DEF realloc_move, Goto, CallTypeOK, ThreadInv, Blocks, HasNone
  <2> QED BY <1>1, <2>2 DEF Sized
<1>5. CASE \/ \E p \in Ptr, n \in Requests : realloc_in_place(t, p, n)
           \/ \E p \in Ptr : Write(t, p)
  <2>1. UNCHANGED <<argVars, new>> /\ pc[t] = "idle" /\ pc'[t] \in {"idle", "killed"}
    BY <1>1, <1>5 DEF realloc_in_place, Write, Goto, CallTypeOK
  <2> QED BY <2>1, SizedMove DEF argVars
<1>6. CASE \/ lock_heap(t) \/ recheck(t) \/ setup_tiny(t) \/ setup_small(t) \/ publish(t)
           \/ unlock_heap(t) \/ enter_list(t) \/ perror(t) \/ leave_list(t) \/ read_type(t)
           \/ lock_free(t) \/ copy(t)
  <2>1. /\ UNCHANGED <<size, ptr, new>>
        /\ pc[t] \notin {"take_block", "reuse_block", "unlock_free"} /\ pc'[t] # "reuse_block"
    BY <1>1, <1>6 DEF lock_heap, recheck, setup_tiny, setup_small, setup_zone, publish, unlock_heap,
                      enter_list, perror, leave_list, read_type, lock_free, copy, Goto, CallTypeOK, argVars
  <2> QED BY <2>1, SizedMove
<1>7. CASE refill(t)
  <2>1. /\ UNCHANGED <<size, ptr>> /\ new'[t] \in {new[t], NULL}
        /\ pc[t] = "refill" /\ pc'[t] = "unlock_list"
    BY <1>1, <1>7 DEF refill, Goto, CallTypeOK, argVars
  <2> QED BY <2>1, SizedMove
<1>8. CASE return(t) \/ unlock_free(t)
  <2>1. size'[t] = 0 /\ new'[t] = NULL /\ pc'[t] = "idle"
    BY <1>1, <1>8 DEF return, unlock_free, finish, Goto, CallTypeOK
  <2> QED BY <1>1, <2>1 DEF Sized
<1>9. CASE release(t)
  <2>1. size'[t] = size[t] /\ new'[t] = NULL /\ pc'[t] = "unlock_free"
    BY <1>1, <1>9 DEF release, Goto, CallTypeOK
  <2> QED BY <2>1 DEF Sized
<1>10. CASE alloc_block(t) \/ take(t) \/ reuse(t) \/ create(t)
  BY <1>10, AllocSized
<1> QED BY <1>2, <1>3, <1>4, <1>5, <1>6, <1>7, <1>8, <1>9, <1>10 DEF Call, Step

(* SizeInv holds in every state of every execution.                        *)
THEOREM SizesInductive == Spec => []SizeInv
<1>1. Init => SizeInv
  BY EmptyRange, BonusAssumption
     DEF Init, HeapInit, SizeInv, LargeSizes, Sized, UNMAPPED, Type, ZoneType
<1>2. IInv /\ SizeInv /\ [Next]_vars => SizeInv'
  <2> SUFFICES ASSUME IInv, SizeInv, [Next]_vars PROVE SizeInv'
    OBVIOUS
  <2>1. CASE UNCHANGED vars
    BY <2>1 DEF vars, heapVars, argVars, SizeInv, LargeSizes, Sized, LargeEnough, current_size
  <2>2. CASE \E t \in Thread : Call(t) \/ Step(t) \/ \E p \in Ptr : Write(t, p)
    <3>1. PICK t \in Thread : Call(t) \/ Step(t) \/ \E p \in Ptr : Write(t, p)
      BY <2>2
    <3>2. IInv' /\ StepOf(t) /\ SizesKept
      BY <3>1, ThreadStep, ThreadSizes
    <3>3. HeapInv /\ HeapInv'
      BY <3>2 DEF IInv, TypeOK, HeapInv
    <3>4. LargeSizes'
      BY <3>2, <3>3, KeepsSizes DEF SizeInv
    <3>5. Sized(t)'
      BY <3>1, <3>2, ThreadSized DEF SizeInv
    <3>6. \A s \in Thread \ {t} : Sized(s)'
      BY <3>2, SizedKept DEF SizeInv, StepOf
    <3> QED BY <3>4, <3>5, <3>6 DEF SizeInv
  <2> QED BY <2>1, <2>2 DEF Next
<1> QED BY <1>1, <1>2, Inductive, PTL DEF Spec

(* A number of bytes rounded up to whole pages is not less.                *)
LEMMA RoundUp ==
  ASSUME NEW n \in Nat
  PROVE  ((n + PAGE - 1) \div PAGE) * PAGE >= n
<1> DEFINE pages == (n + PAGE - 1) \div PAGE
<1>1. PAGE \in Nat \ {0}
  BY BonusAssumption
<1>2. pages \in Int /\ PAGE * pages <= n + PAGE - 1 /\ n + PAGE - 1 < PAGE * pages + PAGE
  BY <1>1
<1> HIDE DEF pages
<1>3. pages * PAGE = PAGE * pages /\ PAGE * pages \in Int
  BY <1>1, <1>2
<1> QED BY <1>1, <1>2, <1>3 DEF pages

(* What malloc and realloc return is backed by memory for the whole size,  *)
(* but for a realloc whose sum in create_block wraps.                      *)
THEOREM EveryRequestBacked == Spec => []RequestsBacked
<1>1. ASSUME IInv, SizeInv
      PROVE  RequestsBacked
  <2> SUFFICES ASSUME NEW t \in Thread, new[t] # NULL,
                      pc[t] \in {"unlock_list", "return", "copy", "lock_free", "free_ptr"},
                      ~(ptr[t] # NULL /\ size[t] > SIZE_MAX - HEADER)
               PROVE  size[t] <= backing(new[t])
    BY DEF RequestsBacked
  <2> DEFINE b == new[t][1]
  <2>1. /\ size[t] \in Nat /\ size[t] + HEADER <= SIZE_MAX /\ LargeEnough(new[t], size[t])
        /\ HEADER \in Nat /\ SIZE_MAX \in Nat /\ b \in Addr /\ block_size[b] \in Nat
    <3>1. /\ HEADER \in Nat /\ SIZE_MAX \in Nat /\ PTRDIFF_MAX \in Nat
          /\ PTRDIFF_MAX + HEADER <= SIZE_MAX
      BY BonusAssumption
    <3>2. size[t] \in Nat /\ new[t] \in Ptr /\ block_size \in [Addr -> Nat]
      BY <1>1 DEF IInv, TypeOK, HeapTypeOK
    <3>3. Sized(t)
      BY <1>1 DEF SizeInv
    <3>4. LargeEnough(new[t], size[t])
      BY <3>3 DEF Sized
    <3>5. size[t] <= PTRDIFF_MAX \/ size[t] <= SIZE_MAX - HEADER
      BY <3>1, <3>2, <3>3 DEF Sized
    <3>6. b \in Addr
      BY <3>2 DEF Ptr
    <3>7. size[t] + HEADER <= SIZE_MAX
      BY <3>1, <3>2, <3>5
    <3> QED BY <3>1, <3>2, <3>4, <3>6, <3>7
  <2>2. CASE type[b] \in ZoneType
    BY <2>1, <2>2 DEF LargeEnough, backing
  <2>3. CASE type[b] \notin ZoneType
    <3> DEFINE length == mmap_length(block_size[b])
    <3>1. size[t] <= block_size[b] /\ HEADER + block_size[b] <= SIZE_MAX
      <4>1. SMALL_BLOCK_SIZE * BLOCKS_PER_ZONE \in Nat
        BY HeapAssumption
      <4> QED BY <2>1, <2>3, <4>1, BonusAssumption DEF LargeEnough
    <3>2. length = HEADER + block_size[b]
      BY <2>1, <3>1 DEF mmap_length
    <3>3. length \in Nat
      BY <2>1, <3>2
    <3> HIDE DEF length
    <3> DEFINE mapped == ((length + PAGE - 1) \div PAGE) * PAGE
    <3>4. mapped >= length /\ backing(new[t]) = mapped - HEADER
      BY <2>3, <3>3, RoundUp DEF backing, length
    <3>5. mapped \in Int
      BY <3>3, BonusAssumption
    <3> HIDE DEF mapped
    <3> QED BY <2>1, <3>1, <3>2, <3>4, <3>5
  <2> QED BY <2>2, <2>3
<1> QED BY <1>1, Inductive, SizesInductive, PTL

-----------------------------------------------------------------------------
(* Refinement.  What IInv and SizeInv say of the blocks is joined by what  *)
(* is known of the sizes the program asked for and of the bytes a realloc  *)
(* has copied.                                                             *)

(* What is known of a call's size argument, and of realloc's copy.         *)
CallInv(t) ==
  /\ size[t] \in Requests \cup PerrorSizes \cup {0}
  /\ pc[t] \in {"idle", "read_type"} => size[t] = 0
  /\ pc[t] \notin {"idle", "read_type", "lock_free", "free_ptr", "unlock_free", "killed"} =>
       size[t] # 0
  /\ pc[t] \in {"lock_free", "free_ptr"} => (new[t] = NULL <=> size[t] = 0)
  /\ ptr[t] # NULL /\ size[t] # 0 => size[t] > current_size(ptr[t])
  /\ pc[t] \in {"lock_free", "free_ptr"} /\ new[t] # NULL =>
       mem[new[t]] = Min({mem[ptr[t]], current_size(ptr[t])})

(* What the program has is as large as it last asked for.                  *)
ProgramFits == \A p \in Program : asked[p] <= current_size(p)

ClientInv == ProgramFits /\ \A t \in Thread : CallInv(t)

(* Between free's lock and its end, and in a malloc, thread t holds no     *)
(* block of the program's; in a realloc it holds the old one.              *)
Resizing(t) == {p \in Ptr : p = ptr[t] /\ size[t] # 0}
Rest(t)     == {p \in Ptr : \E s \in Thread \ {t} : p = ptr[s] /\ size[s] # 0}

(* A step of thread t changes what is live and what t resizes, and nothing *)
(* of what the program has otherwise.                                      *)
LEMMA ProgramParts ==
  ASSUME IInv, NEW t \in Thread, StepOf(t)
  PROVE  /\ Program = live \cup Resizing(t) \cup Rest(t)
         /\ Program' = live' \cup Resizing(t)' \cup Rest(t)
         /\ Rest(t) \cap (live \cup Mine(t)) = {}
         /\ Program \subseteq InUse
<1>1. CallTypeOK /\ BlocksAccounted
  BY IInvParts
<1>2. Program = live \cup Resizing(t) \cup Rest(t)
  BY DEF Program, Resizing, Rest
<1>3. Program' = live' \cup Resizing(t)' \cup Rest(t)'
  BY DEF Program, Resizing, Rest
<1>4. Rest(t)' = Rest(t)
  BY DEF Rest, StepOf
<1>5. \A p \in Rest(t) : \E s \in Thread \ {t} : p \in Mine(s)
  BY DEF Rest, Mine
<1>6. Resizing(t) \subseteq Mine(t)
  BY DEF Resizing, Mine
<1>7. Rest(t) \cap (live \cup Mine(t)) = {}
  BY <1>1, <1>5 DEF BlocksAccounted
<1>8. Program \subseteq InUse
  BY <1>1, <1>2, <1>5, <1>6 DEF BlocksAccounted, Held
<1> QED BY <1>2, <1>3, <1>4, <1>7, <1>8

(* A step of thread t touches the data of its own blocks and of those the  *)
(* program holds.                                                          *)
OwnData(t) ==
  \A p \in Ptr \ (live \cup Mine(t)) : mem'[p] = mem[p] /\ asked'[p] = asked[p]

(* Such a step keeps what is known, if it does so for what it changes.     *)
LEMMA ClientStep ==
  ASSUME IInv, IInv', LargeSizes, SizesKept, ClientInv, NEW t \in Thread, StepOf(t), OwnData(t),
         \A p \in live' \cup Resizing(t)' :
           asked'[p] <= current_size(p)' \/ (p \in Program /\ asked'[p] = asked[p]),
         CallInv(t)'
  PROVE  ClientInv'
<1>1. /\ HeapInv /\ HeapInv' /\ BlocksAccounted /\ BlocksAccounted' /\ CallTypeOK
      /\ NULL \notin Ptr
  BY IInvParts, HeapAssumption DEF IInv, TypeOK, HeapInv
<1>2. \A p \in InUse \cap InUse' : current_size(p)' = current_size(p)
  BY <1>1, KeepsSizes
<1>3. Program \subseteq InUse /\ Program' \subseteq InUse'
  <2>1. ASSUME IInv PROVE Program \subseteq InUse
    BY <2>1 DEF IInv, BlocksAccounted, Held, Program, Mine
  <2>2. (IInv => Program \subseteq InUse)'
    <3>1. Program' \subseteq live' \cup UNION {Mine(s)' : s \in Thread}
      BY DEF Program, Mine
    <3> QED BY <1>1, <3>1 DEF BlocksAccounted, Held
  <2> QED BY <2>1, <2>2
<1>4. ProgramFits'
  <2> SUFFICES ASSUME NEW p \in Program' PROVE asked'[p] <= current_size(p)'
    BY DEF ProgramFits
  <2>1. p \in live' \cup Resizing(t)' \/ p \in Rest(t)
    BY ProgramParts
  <2>2. p \in Rest(t) => p \in Program /\ asked'[p] = asked[p]
    BY ProgramParts DEF OwnData, Rest
  <2>3. p \in Program => asked[p] <= current_size(p) /\ current_size(p)' = current_size(p)
    BY <1>2, <1>3 DEF ClientInv, ProgramFits
  <2> QED BY <2>1, <2>2, <2>3
<1>5. ASSUME NEW s \in Thread \ {t}
      PROVE  CallInv(s)'
  <2>1. /\ pc'[s] = pc[s] /\ size'[s] = size[s] /\ ptr'[s] = ptr[s] /\ new'[s] = new[s]
        /\ CallInv(s) /\ ThreadInv(s)
    BY IInvParts DEF StepOf, ClientInv
  <2>2. Mine(s)' = Mine(s) /\ Mine(s) \subseteq InUse \cap InUse'
    <3>1. Mine(s)' = Mine(s)
      BY <2>1 DEF Mine
    <3> QED BY <1>1, <3>1 DEF BlocksAccounted, Held
  <2>3. Mine(s) \subseteq Ptr \ (live \cup Mine(t))
    BY <1>1 DEF BlocksAccounted, Mine
  <2>4. ptr[s] # NULL => ptr[s] \in Mine(s) /\ current_size(ptr[s])' = current_size(ptr[s])
    <3>1. ptr[s] # NULL => ptr[s] \in Mine(s)
      BY <1>1 DEF CallTypeOK, Mine
    <3> QED BY <1>2, <2>1, <2>2, <3>1 DEF current_size
  <2>5. pc[s] \in {"lock_free", "free_ptr"} /\ new[s] # NULL =>
          new[s] \in Mine(s) /\ ptr[s] # NULL
    BY <1>1, <2>1 DEF CallTypeOK, Mine, ThreadInv, Blocks
  <2>6. \A p \in Mine(s) : mem'[p] = mem[p]
    BY <2>3 DEF OwnData
  <2> QED BY <2>1, <2>4, <2>5, <2>6 DEF CallInv, current_size
<1> QED BY <1>4, <1>5 DEF ClientInv

-----------------------------------------------------------------------------
(* What the steps do to the program's blocks, and what AbstractMalloc says *)
(* of it.                                                                  *)

(* The bytes the program may rely on at p: the refinement mapping.         *)
Contents(p) == IF p \in Program THEN Min({mem[p], asked[p]}) ELSE 0

(* A step that is of no concern to the program.                            *)
LEMMA Stutters ==
  ASSUME Program' = Program, asked' = asked, \A p \in Program : mem'[p] = mem[p]
  PROVE  UNCHANGED Abs!absVars
BY DEF Abs!absVars

(* A block in use before and after a step keeps its size.                  *)
LEMMA KeptSize ==
  ASSUME IInv, IInv', LargeSizes, SizesKept, NEW t \in Thread,
         ptr'[t] = ptr[t], ptr[t] # NULL
  PROVE  current_size(ptr[t])' = current_size(ptr[t])
<1>1. HeapInv /\ HeapInv' /\ BlocksAccounted /\ BlocksAccounted' /\ CallTypeOK
  BY IInvParts DEF IInv, TypeOK, HeapInv
<1>2. ptr[t] \in Mine(t) /\ ptr[t] \in Mine(t)'
  BY <1>1 DEF CallTypeOK, Mine
<1>3. ptr[t] \in InUse /\ ptr[t] \in InUse'
  BY <1>1, <1>2 DEF BlocksAccounted, Held
<1> QED BY <1>1, <1>3, KeepsSizes DEF current_size

(* Between the call and its end a thread looks for a block, locks and      *)
(* unlocks: nothing the program can see.                                   *)
LEMMA QuietStep ==
  ASSUME IInv, IInv', LargeSizes, SizesKept, ClientInv, NEW t \in Thread, StepOf(t),
         UNCHANGED <<live, asked, mem>>, size'[t] = size[t], ptr'[t] = ptr[t],
         pc[t] \notin {"idle", "free_ptr", "unlock_free", "killed", "copy"},
         pc'[t] \notin {"idle", "read_type"},
         pc'[t] \in {"lock_free", "free_ptr"} <=> pc[t] \in {"read_type", "lock_free"},
         pc[t] \in {"read_type", "lock_free"} => new'[t] = new[t]
  PROVE  ClientInv' /\ UNCHANGED Abs!absVars
<1>1. /\ Program = live \cup Resizing(t) \cup Rest(t)
      /\ Program' = live' \cup Resizing(t)' \cup Rest(t)
  BY ProgramParts
<1>2. Resizing(t)' = Resizing(t) /\ live' = live
  BY DEF Resizing
<1>3. OwnData(t)
  BY DEF OwnData
<1>4. CallInv(t)'
  <2>1. CallInv(t) /\ ThreadInv(t)
    BY IInvParts DEF ClientInv
  <2>2. ptr[t] # NULL => current_size(ptr[t])' = current_size(ptr[t])
    BY KeptSize
  <2>3. pc[t] = "read_type" => new[t] = NULL /\ size[t] = 0
    BY <2>1 DEF CallInv, ThreadInv, Blocks
  <2>4. /\ size[t]' \in Requests \cup PerrorSizes \cup {0}
        /\ pc[t]' \in {"idle", "read_type"} => size[t]' = 0
        /\ pc[t]' \notin {"idle", "read_type", "lock_free", "free_ptr", "unlock_free", "killed"} =>
             size[t]' # 0
        /\ pc[t]' \in {"lock_free", "free_ptr"} => (new[t]' = NULL <=> size[t]' = 0)
    BY <2>1, <2>3 DEF CallInv
  <2>5. ptr[t]' # NULL /\ size[t]' # 0 => size[t]' > current_size(ptr[t])'
    BY <2>1, <2>2 DEF CallInv
  <2>6. ASSUME pc[t]' \in {"lock_free", "free_ptr"}, new[t]' # NULL
        PROVE  mem[new[t]]' = Min({mem[ptr[t]]', current_size(ptr[t])'})
    <3>1. pc[t] = "lock_free" /\ new[t] # NULL /\ new[t]' = new[t]
      BY <2>3, <2>6
    <3>2. ptr[t] # NULL
      BY <2>1, <3>1 DEF ThreadInv, Blocks
    <3>3. mem[new[t]] = Min({mem[ptr[t]], current_size(ptr[t])})
      BY <2>1, <3>1 DEF CallInv
    <3> QED BY <2>2, <3>1, <3>2, <3>3
  <2> QED BY <2>4, <2>5, <2>6 DEF CallInv
<1>5. ClientInv'
  BY <1>1, <1>2, <1>3, <1>4, ClientStep
<1>6. UNCHANGED Abs!absVars
  BY <1>1, <1>2, Stutters
<1> QED BY <1>5, <1>6

(* All steps of a call but copy, release and those that end it.            *)
LEMMA InsideCall ==
  ASSUME IInv, IInv', LargeSizes, SizesKept, ClientInv, NEW t \in Thread, StepOf(t),
         \/ lock_heap(t) \/ recheck(t) \/ setup_tiny(t) \/ setup_small(t) \/ publish(t)
         \/ unlock_heap(t) \/ enter_list(t) \/ alloc_block(t) \/ take(t) \/ refill(t)
         \/ reuse(t) \/ create(t) \/ perror(t) \/ leave_list(t) \/ read_type(t) \/ lock_free(t)
  PROVE  ClientInv' /\ UNCHANGED Abs!absVars
<1>1. pc \in [Thread -> PC]
  BY DEF IInv, TypeOK
<1>2. UNCHANGED <<live, asked, mem, size, ptr>>
  BY DEF lock_heap, recheck, setup_tiny, setup_small, setup_zone, publish, unlock_heap,
         enter_list, alloc_block, take, refill, reuse, create, perror, leave_list, read_type,
         lock_free, clientVars, argVars
<1>3. CASE \/ lock_heap(t) \/ recheck(t) \/ setup_tiny(t) \/ setup_small(t) \/ publish(t)
           \/ unlock_heap(t) \/ enter_list(t) \/ alloc_block(t) \/ take(t) \/ refill(t)
           \/ reuse(t) \/ create(t) \/ perror(t) \/ leave_list(t)
  <2>1. /\ pc[t] \in {"lock_heap", "recheck", "setup_tiny", "setup_small", "publish",
                      "unlock_heap", "abort_setup", "lock_list", "alloc_block", "take_block",
                      "refill", "reuse_block", "create_block", "perror", "unlock_list"}
        /\ pc'[t] \notin {"idle", "read_type", "lock_free", "free_ptr"}
    BY <1>1, <1>3 DEF lock_heap, recheck, setup_tiny, setup_small, setup_zone, publish,
          unlock_heap, enter_list, alloc_block, find_free_block, find_free_large_block, take,
          refill, reuse, create, perror, leave_list, Goto
  <2> QED BY <1>2, <2>1, QuietStep
<1>4. CASE read_type(t) \/ lock_free(t)
  <2>1. /\ pc[t] \in {"read_type", "lock_free"} /\ pc'[t] \in {"lock_free", "free_ptr"}
        /\ new' = new
    BY <1>1, <1>4 DEF read_type, lock_free, Goto
  <2> QED BY <1>2, <2>1, QuietStep
<1> QED BY <1>3, <1>4

(* malloc begins with nothing, and realloc keeps the old block for the     *)
(* program.                                                                *)
LEMMA CallBegins ==
  ASSUME IInv, IInv', LargeSizes, SizesKept, ClientInv, NEW t \in Thread, StepOf(t),
         \/ \E n \in Sizes(t) : malloc(t, n)
         \/ \E p \in Ptr, n \in Requests : realloc_move(t, p, n)
  PROVE  ClientInv' /\ UNCHANGED Abs!absVars
<1>1. /\ pc[t] = "idle" /\ ptr[t] = NULL /\ new[t] = NULL /\ size[t] = 0
      /\ CallTypeOK /\ HeapTypeOK /\ live \subseteq Ptr /\ NULL \notin Ptr
  BY IInvParts, HeapAssumption DEF malloc, realloc_move, Calling, ClientInv, CallInv, ThreadInv,
     Blocks, HasNone, CallTypeOK, HeapInv
<1>2. /\ Program = live \cup Resizing(t) \cup Rest(t)
      /\ Program' = live' \cup Resizing(t)' \cup Rest(t)
  BY ProgramParts
<1>3. Resizing(t) = {}
  BY <1>1 DEF Resizing
<1>4. OwnData(t) /\ UNCHANGED <<asked, mem>>
  BY DEF OwnData, malloc, realloc_move, clientVars
<1>5. CASE \E n \in Sizes(t) : malloc(t, n)
  <2>1. PICK n \in Sizes(t) : malloc(t, n)
    BY <1>5
  <2>2. /\ n # 0 /\ size'[t] = n /\ ptr'[t] = NULL /\ live' = live
        /\ pc'[t] \in {"lock_list", "lock_heap"}
        /\ n \in Requests \cup PerrorSizes
    BY <1>1, <2>1 DEF malloc, Goto, CallTypeOK, Sizes, clientVars
  <2>3. Resizing(t)' = {}
    BY <1>1, <2>2 DEF Resizing
  <2>4. CallInv(t)'
    BY <2>2 DEF CallInv
  <2>5. ClientInv'
    BY <1>2, <1>4, <2>2, <2>3, <2>4, ClientStep
  <2> QED BY <1>2, <1>3, <1>4, <2>2, <2>3, <2>5, Stutters
<1>6. CASE \E p \in Ptr, n \in Requests : realloc_move(t, p, n)
  <2>1. PICK p \in Ptr, n \in Requests : realloc_move(t, p, n)
    BY <1>6
  <2>2. /\ n \in Nat /\ n > current_size(p) /\ size'[t] = n /\ ptr'[t] = p
        /\ p \in live /\ live' = live \ {p} /\ pc'[t] = "lock_list" /\ UNCHANGED heapVars
    BY <1>1, <2>1, BonusAssumption DEF realloc_move, Goto, CallTypeOK
  <2>3. current_size(p) \in Nat /\ current_size(p)' = current_size(p) /\ n # 0
    BY <1>1, <2>2, CurrentSizeNat DEF current_size, heapVars
  <2>4. Resizing(t)' = {p}
    BY <2>2, <2>3 DEF Resizing
  <2>5. ptr[t]' # NULL => size[t]' > current_size(ptr[t])'
    BY <2>2, <2>3 DEF current_size
  <2>6. CallInv(t)'
    BY <2>2, <2>3, <2>5 DEF CallInv
  <2>7. ClientInv'
    BY <1>2, <1>4, <2>2, <2>4, <2>6, ClientStep
  <2> QED BY <1>2, <1>3, <1>4, <2>2, <2>4, <2>7, Stutters
<1> QED BY <1>5, <1>6

(* copy fills a block the program has not got yet.                         *)
LEMMA CopyStep ==
  ASSUME IInv, IInv', LargeSizes, SizesKept, ClientInv, NEW t \in Thread, StepOf(t), copy(t)
  PROVE  ClientInv' /\ UNCHANGED Abs!absVars
<1>1. /\ pc[t] = "copy" /\ ptr[t] \in Ptr /\ new[t] \in Ptr /\ ptr[t] # new[t] /\ NULL \notin Ptr
      /\ CallTypeOK /\ CallInv(t) /\ BlocksAccounted
  BY IInvParts, HeapAssumption DEF copy, ThreadInv, Blocks, CallTypeOK, ClientInv, BlocksAccounted
<1>2. /\ Program = live \cup Resizing(t) \cup Rest(t)
      /\ Program' = live' \cup Resizing(t)' \cup Rest(t)
      /\ Rest(t) \cap Mine(t) = {}
  BY ProgramParts
<1>3. UNCHANGED <<live, asked, size, ptr, new, heapVars>>
  BY DEF copy, argVars
<1>4. Resizing(t)' = Resizing(t)
  BY <1>3 DEF Resizing
<1>5. new[t] \in Mine(t) /\ new[t] \notin live /\ new[t] \notin Resizing(t)
  BY <1>1 DEF Mine, BlocksAccounted, Resizing
<1>6. \A p \in Ptr \ {new[t]} : mem'[p] = mem[p]
  BY <1>1 DEF copy, CallTypeOK
<1>7. OwnData(t)
  BY <1>3, <1>5, <1>6 DEF OwnData
<1>8. CallInv(t)'
  <2>1. current_size(ptr[t])' = current_size(ptr[t])
    BY <1>3 DEF current_size, heapVars
  <2>2. pc'[t] \in {"lock_free", "killed"}
    BY <1>1 DEF copy, Goto, CallTypeOK
  <2>3. size[t] # 0
    BY <1>1 DEF CallInv
  <2>4. ASSUME pc'[t] = "lock_free"
        PROVE  mem[new[t]]' = Min({mem[ptr[t]]', current_size(ptr[t])'})
    <3>1. mem' = [mem EXCEPT ![new[t]] = Min({mem[ptr[t]], current_size(ptr[t])})]
      BY <1>1, <2>4 DEF copy, Goto, CallTypeOK
    <3> QED BY <1>1, <1>3, <2>1, <3>1 DEF CallTypeOK
  <2>5. size[t]' \in Requests \cup PerrorSizes \cup {0} /\ size[t]' > current_size(ptr[t])'
    BY <1>1, <1>3, <2>1, <2>3 DEF CallInv
  <2> QED BY <1>1, <1>3, <2>2, <2>3, <2>4, <2>5 DEF CallInv
<1>9. ClientInv'
  BY <1>2, <1>3, <1>4, <1>7, <1>8, ClientStep
<1>10. \A p \in Program : mem'[p] = mem[p]
  <2>1. \A p \in Program : p # new[t] /\ p \in Ptr
    BY <1>1, <1>2, <1>5 DEF Program, CallTypeOK
  <2> QED BY <1>6, <2>1
<1> QED BY <1>2, <1>3, <1>4, <1>9, <1>10, Stutters

(* A block that is large enough for a request is no smaller than it.       *)
LEMMA LargeEnoughSize ==
  ASSUME NEW p, NEW n, LargeEnough(p, n)
  PROVE  n <= current_size(p)
BY DEF LargeEnough, current_size, ZoneType

(* The end of a call that has nothing to give.                             *)
LEMMA CallEnds ==
  ASSUME IInv, IInv', LargeSizes, SizesKept, ClientInv, NEW t \in Thread, StepOf(t),
         \/ unlock_free(t)
         \/ return(t) /\ new[t] = NULL
         \/ release(t) /\ new[t] = NULL
  PROVE  ClientInv' /\ UNCHANGED Abs!absVars
<1>1. CallTypeOK /\ CallInv(t) /\ ThreadInv(t) /\ NULL \notin Ptr
  BY IInvParts, HeapAssumption DEF ClientInv
<1>2. /\ Program = live \cup Resizing(t) \cup Rest(t)
      /\ Program' = live' \cup Resizing(t)' \cup Rest(t)
  BY ProgramParts
<1>3. /\ UNCHANGED <<asked, mem>>
      /\ ptr'[t] = NULL
      /\ \/ pc'[t] = "idle" /\ size'[t] = 0
         \/ pc'[t] = "unlock_free" /\ size'[t] = size[t]
  BY <1>1 DEF unlock_free, return, release, finish, Goto, clientVars, CallTypeOK
<1>4. Resizing(t)' = {} /\ OwnData(t)
  BY <1>1, <1>3 DEF Resizing, OwnData
<1>5. CallInv(t)'
  BY <1>1, <1>3 DEF CallInv
<1>6. live' = live \cup Resizing(t)
  <2>1. CASE unlock_free(t)
    BY <1>1, <2>1 DEF unlock_free, clientVars, Resizing, ThreadInv, Blocks, HasNone
  <2>2. CASE return(t) /\ new[t] = NULL
    BY <1>1, <2>2 DEF return, Resizing, CallInv, CallTypeOK
  <2>3. CASE release(t) /\ new[t] = NULL
    BY <1>1, <2>3 DEF release, clientVars, Resizing, CallInv
  <2> QED BY <2>1, <2>2, <2>3
<1>7. Program' = Program
  BY <1>2, <1>4, <1>6
<1>8. ClientInv'
  BY <1>2, <1>3, <1>4, <1>5, <1>6, ClientStep
<1> QED BY <1>3, <1>7, <1>8, Stutters

(* malloc gives the program a block it does not hold, large enough for     *)
(* what it asked for.                                                      *)
LEMMA MallocReturns ==
  ASSUME IInv, IInv', SizeInv, SizesKept, ClientInv, NEW t \in Thread, StepOf(t),
         return(t), new[t] # NULL
  PROVE  ClientInv' /\ Abs!AbsNext
<1>1. CallTypeOK /\ CallInv(t) /\ ThreadInv(t) /\ BlocksAccounted /\ NULL \notin Ptr
  BY IInvParts, HeapAssumption DEF ClientInv
<1>2. /\ Program = live \cup Resizing(t) \cup Rest(t)
      /\ Program' = live' \cup Resizing(t)' \cup Rest(t)
      /\ Rest(t) \cap Mine(t) = {}
  BY ProgramParts
<1>3. PICK p \in Ptr, n \in Requests \cup PerrorSizes : p = new[t] /\ n = size[t] /\ n # 0
  BY <1>1 DEF return, CallTypeOK, CallInv
<1>4. /\ pc[t] = "return" /\ ptr[t] = NULL
      /\ live' = live \cup {p} /\ asked' = [asked EXCEPT ![p] = n] /\ mem' = [mem EXCEPT ![p] = 0]
      /\ pc'[t] = "idle" /\ size'[t] = 0 /\ ptr'[t] = NULL /\ UNCHANGED heapVars
  BY <1>1, <1>3 DEF return, finish, Goto, CallTypeOK, ThreadInv, Blocks
<1>5. p \in Mine(t) /\ p \notin Program /\ Resizing(t) = {}
  BY <1>1, <1>2, <1>3, <1>4 DEF Mine, BlocksAccounted, Resizing
<1>6. Resizing(t)' = {} /\ Program' = Program \cup {p}
  BY <1>1, <1>2, <1>4, <1>5 DEF Resizing
<1>7. OwnData(t) /\ CallInv(t)'
  BY <1>1, <1>4, <1>5 DEF OwnData, CallInv, CallTypeOK
<1>8. n <= current_size(p) /\ current_size(p)' = current_size(p)
  <2>1. LargeEnough(p, n)
    BY <1>3, <1>4 DEF SizeInv, Sized
  <2> QED BY <1>4, <2>1, LargeEnoughSize DEF current_size, heapVars
<1>9. \A q \in live' \cup Resizing(t)' :
        asked'[q] <= current_size(q)' \/ (q \in Program /\ asked'[q] = asked[q])
  BY <1>1, <1>2, <1>4, <1>6, <1>8 DEF CallTypeOK
<1>10. ClientInv'
  BY <1>7, <1>9, ClientStep DEF SizeInv
<1>11. Abs!AbsMalloc(p, n)
  <2>1. n \in Nat /\ n > 0 /\ Min({0, n}) = 0
    BY <1>1, <1>3, MinOfTwo DEF CallTypeOK
  <2>2. \A q \in Ptr : Contents(q)' = IF q = p THEN 0 ELSE Contents(q)
    BY <1>1, <1>4, <1>5, <1>6, <2>1 DEF Contents, CallTypeOK
  <2> QED BY <1>4, <1>5, <1>6, <2>1, <2>2 DEF Abs!AbsMalloc, Contents
<1> QED BY <1>10, <1>11 DEF Abs!AbsNext

(* free takes a block from the program.                                    *)
LEMMA FreeBegins ==
  ASSUME IInv, IInv', LargeSizes, SizesKept, ClientInv, NEW t \in Thread, StepOf(t),
         NEW p \in Ptr, free(t, p)
  PROVE  ClientInv' /\ Abs!AbsNext
<1>1. /\ pc[t] = "idle" /\ ptr[t] = NULL /\ new[t] = NULL /\ size[t] = 0
      /\ CallTypeOK /\ BlocksAccounted /\ NULL \notin Ptr
  BY IInvParts, HeapAssumption DEF free, Calling, ClientInv, CallInv, ThreadInv, Blocks, HasNone
<1>2. /\ Program = live \cup Resizing(t) \cup Rest(t)
      /\ Program' = live' \cup Resizing(t)' \cup Rest(t)
      /\ Rest(t) \cap live = {}
  BY ProgramParts
<1>3. /\ p \in live /\ live' = live \ {p} /\ asked' = [asked EXCEPT ![p] = 0]
      /\ mem' = [mem EXCEPT ![p] = 0]
      /\ pc'[t] = "read_type" /\ size'[t] = 0
  BY <1>1 DEF free, Goto, CallTypeOK
<1>4. Resizing(t) = {} /\ Resizing(t)' = {}
  BY <1>1, <1>3 DEF Resizing
<1>5. OwnData(t) /\ CallInv(t)'
  BY <1>1, <1>3 DEF OwnData, CallInv, CallTypeOK
<1>6. \A q \in live' \cup Resizing(t)' : q \in Program /\ asked'[q] = asked[q]
  BY <1>1, <1>2, <1>3, <1>4 DEF CallTypeOK
<1>7. ClientInv'
  BY <1>5, <1>6, ClientStep
<1>8. Program' = Program \ {p} /\ p \in Program
  BY <1>2, <1>3, <1>4
<1>9. Abs!AbsFree(p)
  <2>1. \A q \in Ptr : Contents(q)' = IF q = p THEN 0 ELSE Contents(q)
    BY <1>1, <1>3, <1>8 DEF Contents, CallTypeOK
  <2> QED BY <1>3, <1>8, <2>1 DEF Abs!AbsFree, Contents
<1> QED BY <1>7, <1>9 DEF Abs!AbsNext

(* The program resizes a block where it is, or stores in it.               *)
LEMMA InPlace ==
  ASSUME IInv, IInv', LargeSizes, SizesKept, ClientInv, NEW t \in Thread, StepOf(t), NEW p \in Ptr,
         (\E n \in Requests : realloc_in_place(t, p, n)) \/ Write(t, p)
  PROVE  ClientInv' /\ (Abs!AbsNext \/ UNCHANGED Abs!absVars)
<1>1. /\ pc[t] = "idle" /\ ptr[t] = NULL /\ new[t] = NULL /\ size[t] = 0
      /\ CallTypeOK /\ BlocksAccounted /\ NULL \notin Ptr /\ p \in live
      /\ UNCHANGED <<heapVars, size, ptr, new, live>>
  BY IInvParts, HeapAssumption
     DEF realloc_in_place, Write, argVars, ClientInv, CallInv, ThreadInv, Blocks, HasNone
<1>2. /\ Program = live \cup Resizing(t) \cup Rest(t)
      /\ Program' = live' \cup Resizing(t)' \cup Rest(t)
  BY ProgramParts
<1>3. Resizing(t) = {} /\ Resizing(t)' = {} /\ Program' = Program /\ p \in Program
  BY <1>1, <1>2 DEF Resizing
<1>4. pc'[t] \in {"idle", "killed"}
  BY <1>1 DEF realloc_in_place, Write, Goto, CallTypeOK
<1>5. CallInv(t)'
  BY <1>1, <1>4 DEF CallInv
<1>6. CASE \E n \in Requests : realloc_in_place(t, p, n)
  <2>1. PICK n \in Requests : realloc_in_place(t, p, n)
    BY <1>6
  <2>2. n \in Nat /\ n <= current_size(p) /\ asked' = [asked EXCEPT ![p] = n] /\ mem' = mem
    BY <2>1, BonusAssumption DEF realloc_in_place
  <2>3. current_size(p)' = current_size(p)
    BY <1>1 DEF current_size, heapVars
  <2>4. OwnData(t)
    BY <1>1, <2>2 DEF OwnData, CallTypeOK
  <2>5. \A q \in live' \cup Resizing(t)' :
          asked'[q] <= current_size(q)' \/ (q \in Program /\ asked'[q] = asked[q])
    BY <1>1, <1>2, <1>3, <2>2, <2>3 DEF CallTypeOK
  <2>6. ClientInv'
    BY <1>5, <2>4, <2>5, ClientStep
  <2>7. Abs!AbsReallocInPlace(p, n)
    <3> DEFINE c == Min({mem[p], n})
    <3>1. c \in 0 .. n /\ (c >= Min({mem[p], asked[p]}) \/ c = n)
      <4>1. mem[p] \in Nat /\ asked[p] \in Nat
        BY <1>1 DEF CallTypeOK
      <4>2. /\ Min({mem[p], n}) = IF mem[p] <= n THEN mem[p] ELSE n
            /\ Min({mem[p], asked[p]}) = IF mem[p] <= asked[p] THEN mem[p] ELSE asked[p]
        BY <2>2, <4>1, MinOfTwo
      <4> QED BY <2>2, <4>1, <4>2
    <3>2. c >= Contents(p) \/ c = n
      BY <1>3, <3>1 DEF Contents
    <3> HIDE DEF c
    <3>3. \A q \in Ptr : Contents(q)' = IF q = p THEN c ELSE Contents(q)
      BY <1>1, <1>3, <2>2 DEF Contents, CallTypeOK, c
    <3> QED BY <1>3, <2>2, <3>1, <3>2, <3>3 DEF Abs!AbsReallocInPlace, Contents
  <2> QED BY <2>6, <2>7 DEF Abs!AbsNext
<1>7. CASE Write(t, p)
  <2>1. asked' = asked /\ OwnData(t)
    BY <1>1, <1>7 DEF Write, OwnData, CallTypeOK
  <2>2. \A q \in live' \cup Resizing(t)' : q \in Program /\ asked'[q] = asked[q]
    BY <1>1, <1>2, <1>3, <2>1
  <2>3. ClientInv'
    BY <1>5, <2>1, <2>2, ClientStep
  <2>4. CASE mem' = mem
    BY <1>3, <2>1, <2>3, <2>4, Stutters
  <2>5. CASE mem' = [mem EXCEPT ![p] = asked[p]]
    <3>1. Min({asked[p], asked[p]}) = asked[p]
      BY <1>1, MinOfTwo DEF CallTypeOK
    <3>2. \A q \in Ptr : Contents(q)' = IF q = p THEN asked[p] ELSE Contents(q)
      BY <1>1, <1>3, <2>1, <2>5, <3>1 DEF Contents, CallTypeOK
    <3>3. Abs!AbsWrite(p)
      BY <1>3, <2>1, <3>2 DEF Abs!AbsWrite, Contents
    <3> QED BY <2>3, <3>3 DEF Abs!AbsNext
  <2> QED BY <1>7, <2>4, <2>5 DEF Write
<1> QED BY <1>6, <1>7

(* realloc gives the new block for the old one, with all that was stored.  *)
LEMMA ReallocEnds ==
  ASSUME IInv, IInv', SizeInv, SizesKept, ClientInv, NEW t \in Thread, StepOf(t),
         release(t), new[t] # NULL
  PROVE  ClientInv' /\ Abs!AbsNext
<1>1. /\ CallTypeOK /\ CallInv(t) /\ ThreadInv(t) /\ BlocksAccounted /\ BlocksAccounted'
      /\ HeapTypeOK /\ HeapInv /\ HeapInv' /\ NULL \notin Ptr
  BY IInvParts, HeapAssumption DEF ClientInv, IInv, TypeOK, HeapInv
<1>2. /\ Program = live \cup Resizing(t) \cup Rest(t)
      /\ Program' = live' \cup Resizing(t)' \cup Rest(t)
      /\ Rest(t) \cap Mine(t) = {}
  BY ProgramParts
<1>3. PICK p \in Ptr, q \in Ptr, n \in Requests \cup PerrorSizes :
        p = ptr[t] /\ q = new[t] /\ n = size[t] /\ n # 0
  BY <1>1 DEF release, ThreadInv, Blocks, CallTypeOK, CallInv
<1>4. /\ pc[t] = "free_ptr"
      /\ live' = live \cup {q} /\ asked' = [asked EXCEPT ![p] = 0, ![q] = n]
      /\ mem' = [mem EXCEPT ![p] = 0]
      /\ pc'[t] = "unlock_free" /\ size'[t] = n /\ ptr'[t] = NULL
  BY <1>1, <1>3 DEF release, Goto, CallTypeOK
<1>5. p \in Mine(t) /\ q \in Mine(t) /\ p # q /\ p \notin live /\ q \notin live
  BY <1>1, <1>3, <1>4 DEF Mine, BlocksAccounted
<1>6. Resizing(t) = {p} /\ Resizing(t)' = {}
  BY <1>1, <1>3, <1>4 DEF Resizing
<1>7. p \in Program /\ q \notin Program /\ Program' = (Program \ {p}) \cup {q}
  BY <1>2, <1>4, <1>5, <1>6
<1>8. OwnData(t) /\ CallInv(t)'
  BY <1>1, <1>3, <1>4, <1>5 DEF OwnData, CallInv, CallTypeOK
<1>9. n <= current_size(q) /\ current_size(q)' = current_size(q)
  <2>1. LargeEnough(q, n)
    BY <1>1, <1>3, <1>4 DEF SizeInv, Sized
  <2>2. q \in InUse /\ q \in InUse'
    BY <1>1, <1>4, <1>5 DEF BlocksAccounted, Held
  <2> QED BY <1>1, <2>1, <2>2, LargeEnoughSize, KeepsSizes DEF SizeInv
<1>10. \A r \in live' \cup Resizing(t)' :
         asked'[r] <= current_size(r)' \/ (r \in Program /\ asked'[r] = asked[r])
  BY <1>1, <1>2, <1>4, <1>5, <1>6, <1>9 DEF CallTypeOK
<1>11. ClientInv'
  BY <1>8, <1>10, ClientStep DEF SizeInv
<1> DEFINE c == Min({mem[q], n})
<1>12. c \in 0 .. n /\ c >= Min({mem[p], asked[p]})
  <2>1. /\ current_size(p) \in Nat /\ n \in Nat /\ mem[p] \in Nat /\ asked[p] \in Nat
    BY <1>1, <1>3, CurrentSizeNat DEF CallTypeOK
  <2>2. n > current_size(p) /\ mem[q] = Min({mem[p], current_size(p)})
    BY <1>1, <1>3, <1>4 DEF CallInv
  <2>3. asked[p] <= current_size(p)
    BY <1>7 DEF ClientInv, ProgramFits
  <2>4. /\ mem[q] = IF mem[p] <= current_size(p) THEN mem[p] ELSE current_size(p)
        /\ Min({mem[p], asked[p]}) = IF mem[p] <= asked[p] THEN mem[p] ELSE asked[p]
    BY <2>1, <2>2, MinOfTwo
  <2>5. mem[q] \in Nat /\ mem[q] < n
    BY <2>1, <2>2, <2>4
  <2>6. c = mem[q]
    BY <2>1, <2>5, MinOfTwo
  <2> HIDE DEF c
  <2> QED BY <2>1, <2>2, <2>3, <2>4, <2>5, <2>6
<1> HIDE DEF c
<1>13. \A r \in Ptr : Contents(r)' = IF r = q THEN c ELSE IF r = p THEN 0 ELSE Contents(r)
  BY <1>1, <1>4, <1>5, <1>7 DEF Contents, CallTypeOK, c
<1>14. c >= Contents(p)
  BY <1>7, <1>12 DEF Contents
<1>15. Abs!AbsReallocMove(p, q, n)
  BY <1>4, <1>7, <1>12, <1>13, <1>14 DEF Abs!AbsReallocMove, Contents
<1> QED BY <1>11, <1>15 DEF Abs!AbsNext

(* Every step keeps what is known, and is a step of AbstractMalloc or of   *)
(* no concern to the program.                                              *)
LEMMA NextClient ==
  IInv /\ SizeInv /\ ClientInv /\ [Next]_vars => ClientInv' /\ [Abs!AbsNext]_(Abs!absVars)
<1> SUFFICES ASSUME IInv, SizeInv, ClientInv, [Next]_vars
             PROVE  ClientInv' /\ (Abs!AbsNext \/ UNCHANGED Abs!absVars)
  OBVIOUS
<1>1. CASE UNCHANGED vars
  <2>1. ClientInv'
    BY <1>1 DEF vars, heapVars, argVars, clientVars, ClientInv, ProgramFits, Program, CallInv,
       current_size
  <2>2. UNCHANGED Abs!absVars
    BY <1>1, Stutters DEF vars, argVars, clientVars, Program
  <2> QED BY <2>1, <2>2
<1>2. ASSUME NEW t \in Thread, Call(t) \/ Step(t) \/ \E p \in Ptr : Write(t, p)
      PROVE  ClientInv' /\ (Abs!AbsNext \/ UNCHANGED Abs!absVars)
  <2>1. IInv' /\ StepOf(t) /\ SizesKept /\ LargeSizes
    BY <1>2, ThreadStep, ThreadSizes DEF SizeInv
  <2>2. CASE Call(t)
    BY <2>1, <2>2, CallBegins, FreeBegins, InPlace DEF Call
  <2>3. CASE Step(t)
    BY <2>1, <2>3, InsideCall, CopyStep, CallEnds, MallocReturns, ReallocEnds DEF Step
  <2>4. CASE \E p \in Ptr : Write(t, p)
    BY <2>1, <2>4, InPlace
  <2> QED BY <1>2, <2>2, <2>3, <2>4
<1> QED BY <1>1, <1>2 DEF Next

(* Called by any number of threads, malloc, free and realloc implement     *)
(* AbstractMalloc: what the program holds is never handed out again, and   *)
(* what it stored stays until it frees it, whatever the interleaving.      *)
THEOREM ImplementsAbstractMalloc == Spec => Refinement
<1>1. Init => ClientInv
  BY DEF Init, ClientInv, ProgramFits, Program, CallInv
<1>2. Init => Abs!AbsInit
  BY DEF Init, Abs!AbsInit, Program
<1>3. Spec => []ClientInv
  BY <1>1, NextClient, Inductive, SizesInductive, PTL DEF Spec
<1> QED BY <1>2, <1>3, NextClient, Inductive, SizesInductive, PTL
        DEF Spec, Refinement, Abs!AbsSpec

-----------------------------------------------------------------------------
(***************************************************************************)
(* The report that takes no lock (UnlockedReport.tla): what it can still   *)
(* rely on, however many threads allocate beside it.                       *)
(*                                                                         *)
(* The allocating threads keep IInv.  To it WalkInv adds which blocks the  *)
(* walk has passed, by its place in the list it stands in: a list that     *)
(* nothing leaves only grows, at its end, by what was not of the class     *)
(* before, so the place and what lies behind it stay.                      *)
(***************************************************************************)

(* Places in a list.                                                       *)

(* What precedes a in l.                                                   *)
Before(l, a) ==
  {b \in Range(l) : \E m, n \in DOMAIN l : m < n /\ l[m] = b /\ l[n] = a}

(* Nothing precedes the head.                                              *)
LEMMA BeforeHead ==
  ASSUME NEW S, NEW l \in Seq(S), IsInjective(l), l # <<>>
  PROVE  Before(l, Head(l)) = {}
BY DEF Before, IsInjective, Range

(* No element precedes itself.                                             *)
LEMMA NotBefore ==
  ASSUME NEW S, NEW l \in Seq(S), IsInjective(l), NEW a
  PROVE  a \notin Before(l, a)
BY DEF Before, IsInjective, Range

(* One step on, the element that is left lies behind.                      *)
LEMMA BeforeNext ==
  ASSUME NEW S, NEW l \in Seq(S), IsInjective(l), NEW n \in 1 .. Len(l), n # Len(l)
  PROVE  Before(l, l[n + 1]) = Before(l, l[n]) \cup {l[n]}
<1>1. ASSUME NEW k \in 1 .. Len(l), NEW m \in 1 .. Len(l), l[k] = l[m]
      PROVE  k = m
  BY <1>1 DEF IsInjective
<1>2. \A k \in 1 .. Len(l) : l[k] \in Before(l, l[n + 1]) <=> k <= n
  <2> SUFFICES ASSUME NEW k \in 1 .. Len(l)
               PROVE  l[k] \in Before(l, l[n + 1]) <=> k < n + 1
    OBVIOUS
  <2> QED BY <1>1 DEF Before, Range
<1>3. \A k \in 1 .. Len(l) : l[k] \in Before(l, l[n]) <=> k < n
  BY <1>1 DEF Before, Range
<1>4. \A b \in Before(l, l[n + 1]) \cup Before(l, l[n]) \cup {l[n]} :
        \E k \in 1 .. Len(l) : b = l[k]
  BY DEF Before, Range
<1> QED BY <1>1, <1>2, <1>3, <1>4

(* Behind the last element lies the rest of the list.                      *)
LEMMA BeforeLast ==
  ASSUME NEW S, NEW l \in Seq(S), l # <<>>
  PROVE  Range(l) = Before(l, l[Len(l)]) \cup {l[Len(l)]}
<1>1. Len(l) \in 1 .. Len(l) /\ DOMAIN l = 1 .. Len(l)
  OBVIOUS
<1>2. ASSUME NEW k \in 1 .. Len(l), k # Len(l)
      PROVE  l[k] \in Before(l, l[Len(l)])
  <2>1. k < Len(l)
    <3>1. Len(l) \in Nat
      OBVIOUS
    <3> QED BY <1>2, <3>1
  <2>2. l[k] \in Range(l)
    BY <1>1 DEF Range
  <2> QED BY <1>1, <2>1, <2>2 DEF Before
<1> QED BY <1>1, <1>2 DEF Before, Range

(* What comes to the end of a list lies behind nothing that was in it.     *)
LEMMA BeforeAppend ==
  ASSUME NEW S, NEW l \in Seq(S), NEW b \in S, b \notin Range(l), NEW a \in Range(l)
  PROVE  Before(Append(l, b), a) = Before(l, a)
<1> DEFINE r == Append(l, b)
<1>1. /\ DOMAIN l = 1 .. Len(l) /\ DOMAIN r = 1 .. Len(l) + 1
      /\ \A k \in 1 .. Len(l) : r[k] = l[k] /\ l[k] # b
      /\ r[Len(l) + 1] = b
  BY DEF Range
<1>2. Range(r) = Range(l) \cup {b}
  BY AppendRange
<1> HIDE DEF r
<1>3. ASSUME NEW c \in Before(r, a)
      PROVE  c \in Before(l, a)
  <2>1. PICK m, n \in 1 .. Len(l) + 1 : m < n /\ r[m] = c /\ r[n] = a
    BY <1>1 DEF Before
  <2>2. n # Len(l) + 1
    BY <1>1, <2>1
  <2> QED BY <1>1, <2>1, <2>2 DEF Before, Range
<1>4. ASSUME NEW c \in Before(l, a)
      PROVE  c \in Before(r, a)
  <2>1. PICK m, n \in 1 .. Len(l) : m < n /\ l[m] = c /\ l[n] = a
    BY <1>1 DEF Before
  <2> QED BY <1>1, <1>2, <2>1 DEF Before
<1> QED BY <1>3, <1>4 DEF r

(* The search for an element of a list finds its index.                    *)
LEMMA SelectElement ==
  ASSUME NEW S, NEW l \in Seq(S), NEW a \in Range(l)
  PROVE  LET n == SelectInSeq(l, LAMBDA b : b = a) IN n \in 1 .. Len(l) /\ l[n] = a
<1> DEFINE I == {k \in 1 .. Len(l) : l[k] = a}
           n == SelectInSeq(l, LAMBDA b : b = a)
<1>1. I # {} /\ I \in SUBSET Nat
  BY DEF Range
<1>2. n = Min(I)
  BY <1>1 DEF SelectInSeq
<1>3. n \in I
  BY <1>1, <1>2, MinElement
<1> QED BY <1>3

-----------------------------------------------------------------------------
(* The lists the walk goes through.                                        *)

(* List j of the walk is one of the two of its class.                      *)
LEMMA ListOf ==
  ASSUME NEW j \in 1 .. 5
  PROVE  /\ class[j] \in Type
         /\ class[j] = "LARGE" <=> j = 5
         /\ lists[j] = (IF j \in {1, 3} THEN free_list[class[j]] ELSE full_list[class[j]])
         /\ lists'[j] = (IF j \in {1, 3} THEN free_list'[class[j]] ELSE full_list'[class[j]])
         /\ j \in {2, 4} => class[j - 1] = class[j] /\ lists[j - 1] = free_list[class[j]]
                              /\ lists'[j - 1] = free_list'[class[j]]
<1>1. j \in {1, 2, 3, 4, 5}
  OBVIOUS
<1> QED BY <1>1 DEF lists, class, Type, ZoneType

(* What the heap promises of them.                                         *)
LEMMA ListKnown ==
  ASSUME HeapInv, NEW j \in 1 .. 5
  PROVE  /\ lists[j] \in Seq(Addr) /\ IsInjective(lists[j])
         /\ \A a \in Range(lists[j]) : a \in Addr /\ type[a] = class[j]
         /\ j \in {2, 4} => Range(lists[j - 1]) \cap Range(lists[j]) = {}
<1>1. class[j] \in Type /\ (lists[j] = free_list[class[j]] \/ lists[j] = full_list[class[j]])
  BY ListOf
<1>2. \A a \in Range(lists[j]) : a \in Addr /\ type[a] = class[j]
  BY <1>1, InList
<1>3. lists[j] \in Seq(Addr) /\ IsInjective(lists[j])
  BY <1>1 DEF HeapInv, HeapTypeOK, ListsConsistent
<1>4. j \in {2, 4} => Range(lists[j - 1]) \cap Range(lists[j]) = {}
  BY ListOf DEF HeapInv, ListsConsistent
<1> QED BY <1>2, <1>3, <1>4

(* A list of class k has grown, at its end, by what was not of class k, if *)
(* at all.                                                                 *)
Grown(old, now, k) ==
  now = old \/ \E a \in Addr : type[a] # k /\ now = Append(old, a)

(* The lists of a class that nobody takes a node from only grow.           *)
LEMMA OnlyGrow ==
  ASSUME IInv, NEW t \in Thread, Call(t) \/ Step(t), NEW k \in Type, ~Detaching(k)
  PROVE  /\ Grown(free_list[k], free_list'[k], k)
         /\ Grown(full_list[k], full_list'[k], k)
<1>1. /\ HeapInv /\ HeapTypeOK
      /\ new[t] \in Ptr \cup {NULL} /\ ptr[t] \in Ptr \cup {NULL}
      /\ NULL \notin Ptr /\ ThreadInv(t)
  BY HeapAssumption DEF IInv, TypeOK, HeapInv
<1>2. CASE UNCHANGED <<free_list, full_list>>
  BY <1>2 DEF Grown
<1>3. ASSUME NEW j \in Type, NEW z \in Addr, create_zone(j, z)
      PROVE  /\ Grown(free_list[k], free_list'[k], k)
             /\ Grown(full_list[k], full_list'[k], k)
  <2>1. type[z] # k
    BY <1>3 DEF create_zone, Unmapped, UNMAPPED, Type, ZoneType
  <2>2. /\ full_list' = full_list
        /\ free_list'[k] = IF k = j THEN Append(free_list[k], z) ELSE free_list[k]
    BY <1>1, <1>3 DEF create_zone, lst_add_back, HeapTypeOK
  <2> QED BY <2>1, <2>2 DEF Grown
<1>4. CASE setup_tiny(t) \/ setup_small(t) \/ refill(t)
  <2>1. UNCHANGED heapVars \/ \E j \in Type, z \in Addr : create_zone(j, z)
    BY <1>1, <1>4
       DEF setup_tiny, setup_small, setup_zone, refill, ThreadInv, Choice, Type, ZoneType
  <2> QED BY <1>2, <1>3, <2>1 DEF heapVars
<1>5. CASE take(t)
  <2> DEFINE z == new[t][1]
  <2>1. /\ pc[t] = "take_block" /\ take_block(z, new[t][2], size[t])
        /\ z \in Addr /\ free_count[z] \in Int
    BY <1>1, <1>5 DEF take, ThreadInv, Blocks, Ptr, HeapTypeOK
  <2> HIDE DEF z
  <2>2. CASE free_count[z] = 1
    <3>1. type[z] # k
      BY <2>1, <2>2 DEF Detaching, z
    <3> QED BY <1>1, <2>1, <3>1 DEF take_block, HeapTypeOK, Grown
  <2>3. CASE free_count[z] # 1
    BY <1>2, <2>1, <2>3 DEF take_block
  <2> QED BY <2>2, <2>3
<1>6. CASE reuse(t)
  <2>1. k # "LARGE" /\ reuse_block(new[t][1])
    BY <1>6 DEF reuse, Detaching
  <2> QED BY <1>1, <2>1 DEF reuse_block, HeapTypeOK, Grown
<1>7. CASE create(t)
  <2>1. CASE UNCHANGED heapVars
    BY <1>2, <2>1 DEF heapVars
  <2>2. CASE ~UNCHANGED heapVars
    <3>1. PICK b \in Addr : create_block(b, size[t])
      BY <1>7, <2>2 DEF create
    <3>2. type[b] # k
      BY <3>1 DEF create_block, Unmapped, UNMAPPED, Type, ZoneType
    <3>3. /\ free_list' = free_list
          /\ full_list'[k] = IF k = "LARGE" THEN Append(full_list[k], b) ELSE full_list[k]
      BY <1>1, <3>1 DEF create_block, block_add_back, HeapTypeOK
    <3> QED BY <3>2, <3>3 DEF Grown
  <2> QED BY <2>1, <2>2
<1>8. CASE release(t)
  <2> DEFINE p == ptr[t]
             z == ptr[t][1]
  <2>1. pc[t] = "free_ptr" /\ free_ptr(p) /\ p # NULL
    BY <1>1, <1>8 DEF release, ThreadInv, Blocks
  <2>2. p \in Ptr /\ p \in InUse
    BY <1>1, <2>1 DEF IInv, BlocksAccounted, Held, Mine
  <2>3. z \in Addr /\ type[z] \in Type /\ free_count[z] \in Int
    BY <1>1, <2>2, InUseMapped DEF HeapTypeOK
  <2>4. CASE type[z] = k
    <3>1. k # "LARGE" /\ free_count[z] # 0 /\ ~reclaimable(z)
      BY <2>1, <2>4 DEF Detaching
    <3>2. return_block(z, p[2])
      BY <2>1, <2>3, <2>4, <3>1 DEF free_ptr, reclaim_zone, Type
    <3>3. UNCHANGED <<free_list, full_list>>
      BY <2>3, <3>1, <3>2 DEF return_block
    <3> QED BY <1>2, <3>3
  <2>5. CASE type[z] # k
    <3>1. free_list'[k] = free_list[k] /\ full_list'[k] = full_list[k]
      <4>1. CASE type[z] \in ZoneType
        BY <1>1, <2>1, <2>3, <2>5, <4>1 DEF free_ptr, reclaim_zone, return_block, HeapTypeOK
      <4>2. CASE type[z] = "LARGE"
        BY <1>1, <2>1, <2>3, <2>5, <4>2 DEF free_ptr, free_large_block, HeapTypeOK, ZoneType
      <4> QED BY <2>3, <4>1, <4>2 DEF Type
    <3> QED BY <3>1 DEF Grown
  <2> QED BY <2>4, <2>5
<1>9. CASE Call(t)
  <2>1. UNCHANGED heapVars
    BY <1>9 DEF Call, malloc, free, realloc_in_place, realloc_move
  <2> QED BY <1>2, <2>1 DEF heapVars
<1>10. CASE \/ lock_heap(t) \/ recheck(t) \/ publish(t) \/ unlock_heap(t) \/ enter_list(t)
            \/ alloc_block(t) \/ perror(t) \/ leave_list(t) \/ return(t) \/ read_type(t)
            \/ lock_free(t) \/ unlock_free(t) \/ copy(t)
  <2>1. UNCHANGED <<free_list, full_list>>
    BY <1>10 DEF heapVars, lock_heap, recheck, publish, unlock_heap, enter_list, alloc_block,
       perror, leave_list, return, read_type, lock_free, unlock_free, copy
  <2> QED BY <1>2, <2>1
<1> QED BY <1>4, <1>5, <1>6, <1>7, <1>8, <1>9, <1>10 DEF Step

(* Such a list keeps what is in it and where.                              *)
LEMMA GrownPlaces ==
  ASSUME NEW old \in Seq(Addr), NEW now, NEW k, Grown(old, now, k),
         \A b \in Range(old) : type[b] = k
  PROVE  /\ Range(old) \subseteq Range(now)
         /\ \A b \in Range(now) : type[b] = k => b \in Range(old)
         /\ \A a \in Range(old) : Before(now, a) = Before(old, a)
<1>1. CASE now = old
  BY <1>1
<1>2. CASE \E a \in Addr : type[a] # k /\ now = Append(old, a)
  <2>1. PICK b \in Addr : type[b] # k /\ now = Append(old, b)
    BY <1>2
  <2>2. Range(now) = Range(old) \cup {b}
    BY <2>1, AppendRange
  <2> QED BY <2>1, <2>2, BeforeAppend
<1> QED BY <1>1, <1>2 DEF Grown

(* What is mapped for a class that nobody takes a node from stays mapped.  *)
LEMMA StaysMapped ==
  ASSUME IInv, IInv', NEW t \in Thread, Call(t) \/ Step(t), NEW k \in Type, ~Detaching(k),
         NEW a \in Addr, type[a] = k
  PROVE  type'[a] = k
<1>1. HeapInv /\ HeapInv' /\ free_list[k] \in Seq(Addr) /\ full_list[k] \in Seq(Addr)
  BY DEF IInv, TypeOK, HeapInv, HeapTypeOK
<1>2. a \in Range(free_list[k]) \cup Range(full_list[k])
  BY <1>1 DEF HeapInv, ListsConsistent
<1>3. \A b \in Range(free_list[k]) \cup Range(full_list[k]) : type[b] = k
  BY <1>1, InList
<1>4. a \in Range(free_list'[k]) \cup Range(full_list'[k])
  BY <1>1, <1>2, <1>3, OnlyGrow, GrownPlaces
<1> QED BY <1>1, <1>4 DEF HeapInv, ListsConsistent

(* The node that follows a in its list, of the same class.                 *)
LEMMA NextOf ==
  ASSUME HeapInv, NEW a \in Addr, type[a] \in Type
  PROVE  /\ next_of(a) \in Addr \cup {NULL}
         /\ next_of(a) # NULL => type[next_of(a)] = type[a]
         /\ \A l \in {free_list[type[a]], full_list[type[a]]} : a \in Range(l) =>
              \E n \in 1 .. Len(l) :
                l[n] = a /\ next_of(a) = IF n = Len(l) THEN NULL ELSE l[n + 1]
<1> DEFINE k == type[a]
           F == free_list[k]
           U == full_list[k]
           l == IF Contains(F, a) THEN F ELSE U
           n == SelectInSeq(l, LAMBDA b : b = a)
<1>1. F \in Seq(Addr) /\ U \in Seq(Addr)
  BY DEF HeapInv, HeapTypeOK
<1>2. a \in Range(F) \cup Range(U) /\ Range(F) \cap Range(U) = {}
  BY DEF HeapInv, ListsConsistent
<1>3. \A b \in Range(F) \cup Range(U) : b \in Addr /\ type[b] = k
  BY InList
<1>4. next_of(a) = IF n = Len(l) THEN NULL ELSE l[n + 1]
  BY DEF next_of
<1> HIDE DEF F, U
<1>5. l \in Seq(Addr) /\ a \in Range(l) /\ (l = F \/ l = U)
  BY <1>1, <1>2, ContainsRange
<1>6. \A m \in {F, U} : a \in Range(m) => m = l
  BY <1>1, <1>2, ContainsRange
<1> HIDE DEF l
<1>7. n \in 1 .. Len(l) /\ l[n] = a
  BY <1>5, SelectElement
<1> HIDE DEF n
<1>8. n # Len(l) => l[n + 1] \in Range(l)
  BY <1>5, <1>7 DEF Range
<1>9. next_of(a) # NULL => next_of(a) \in Range(F) \cup Range(U)
  BY <1>4, <1>5, <1>8
<1> QED BY <1>3, <1>4, <1>6, <1>7, <1>9 DEF F, U

(* The walk begins a list at its head.                                     *)
LEMMA First ==
  ASSUME HeapInv, NEW j \in 1 .. 5
  PROVE  /\ first(j) = NULL => lists[j] = <<>>
         /\ first(j) # NULL => lists[j] # <<>> /\ first(j) = Head(lists[j])
                                 /\ first(j) \in Range(lists[j])
<1>1. lists[j] \in Seq(Addr)
  BY ListKnown
<1>2. lists[j] # <<>> => Head(lists[j]) \in Range(lists[j]) /\ Head(lists[j]) \in Addr
  BY <1>1, HeadRange
<1> QED BY <1>2, ReportAssumption DEF first

-----------------------------------------------------------------------------
(* The walk touches only what is mapped for its class.                     *)

ReportInv == ReportTypeOK /\ ReadsMappedMemory

(* The allocating threads keep IInv, the walk leaves the heap alone.       *)
LEMMA HeapBeside ==
  ReportSpec => []IInv
<1>1. ReportInit => IInv
  BY InitIInv DEF ReportInit
<1>2. [ReportNext]_allVars => [Next]_vars
  BY DEF ReportNext, Alongside, Next, Report, show_alloc_mem, next_list, enter, report_returns,
     show_block, skip_block, show_large, print, next_node, allVars
<1> QED BY <1>1, <1>2, NextIInv, PTL DEF ReportSpec

(* A node of the walk's class has an index left for each block to show.    *)
LEMMA IndexBound ==
  ASSUME NEW j \in 1 .. 5
  PROVE  /\ MAX_BLOCKS \in Nat /\ MAX_BLOCKS >= 2
         /\ class[j] # "LARGE" => class[j] \in ZoneType /\ NBlocks[class[j]] \in 2 .. MAX_BLOCKS
<1>1. "TINY" \in ZoneType /\ NBlocks["TINY"] \in 2 .. MAX_BLOCKS /\ MAX_BLOCKS \in Nat
  BY HeapAssumption DEF ZoneType
<1>2. class[j] # "LARGE" => class[j] \in ZoneType
  BY ListOf DEF Type
<1> QED BY <1>1, <1>2, HeapAssumption

(* Every step keeps the walk on nodes of its class while none is unmapped. *)
LEMMA NextReportInv ==
  IInv /\ IInv' /\ ReportInv /\ [ReportNext]_allVars => ReportInv'
<1> SUFFICES ASSUME IInv, IInv', ReportInv, [ReportNext]_allVars PROVE ReportInv'
  OBVIOUS
<1>1. /\ HeapInv /\ live \subseteq Ptr /\ leaked \subseteq Ptr /\ live' \subseteq Ptr
      /\ leaked' \subseteq Ptr /\ type \in [Addr -> Type \cup {UNMAPPED}]
  BY DEF IInv, TypeOK, HeapInv, HeapTypeOK
<1>2. /\ list \in 0 .. 5 /\ at \in Addr \cup {NULL} /\ i \in 0 .. MAX_BLOCKS
      /\ shown \subseteq Ptr /\ always \subseteq Ptr
      /\ repeated \in BOOLEAN /\ moved \in BOOLEAN /\ unmapped \in BOOLEAN
      /\ list # 0 /\ ~unmapped /\ at # NULL => type[at] = class[list]
  BY DEF ReportInv, ReportTypeOK, ReadsMappedMemory, Walking, Sound
<1>3. CASE Alongside
  <2>1. /\ UNCHANGED <<list, at, i, shown, repeated>>
        /\ list # 0 =>
             /\ always' \subseteq always /\ moved' \in BOOLEAN /\ unmapped' \in BOOLEAN
             /\ unmapped' = (\/ unmapped
                             \/ \E a \in Addr : type[a] = class[list] /\ type'[a] # class[list])
        /\ list = 0 => UNCHANGED <<always, moved, unmapped>>
    BY <1>2, <1>3 DEF Alongside, Walking, walkVars
  <2>2. ReportTypeOK'
    BY <1>2, <2>1 DEF ReportTypeOK
  <2>3. list # 0 /\ ~unmapped' /\ at # NULL => type'[at] = class[list]
    BY <1>2, <2>1
  <2>4. class' = class
    BY DEF class
  <2> QED BY <2>1, <2>2, <2>3, <2>4 DEF ReportInv, ReadsMappedMemory, Walking, Sound
<1>4. ASSUME NEW j \in 1 .. 5, enter(j)
      PROVE  ReportInv'
  <2>1. /\ list' = j /\ at' = first(j) /\ i' = 0 /\ type' = type
        /\ \/ UNCHANGED historyVars
           \/ /\ shown' = {} /\ repeated' = FALSE /\ always' \subseteq live \cup leaked
              /\ moved' \in BOOLEAN /\ unmapped' = FALSE
    BY <1>4 DEF enter, vars, heapVars, Detaching
  <2>2. at' # NULL => at' \in Addr /\ type[at'] = class[j]
    BY <1>1, <2>1, First, ListKnown
  <2>3. repeated' \in BOOLEAN /\ moved' \in BOOLEAN /\ unmapped' \in BOOLEAN
    BY <1>2, <2>1, Zenon DEF historyVars
  <2>4. shown' \subseteq Ptr /\ always' \subseteq Ptr
    BY <1>1, <1>2, <2>1 DEF historyVars
  <2>5. list' \in 0 .. 5 /\ at' \in Addr \cup {NULL} /\ i' \in 0 .. MAX_BLOCKS
    BY <2>1, <2>2, IndexBound
  <2>6. ReportTypeOK'
    BY <2>3, <2>4, <2>5 DEF ReportTypeOK
  <2> QED BY <2>1, <2>2, <2>6 DEF ReportInv, ReadsMappedMemory, Walking, Sound, class
<1>5. CASE show_alloc_mem \/ next_list
  <2>1. \E j \in 1 .. 5 : enter(j)
    BY <1>2, <1>5 DEF show_alloc_mem, next_list, Walking
  <2> QED BY <1>4, <2>1
<1>6. CASE report_returns
  <2>1. repeated' \in BOOLEAN /\ moved' \in BOOLEAN /\ unmapped' \in BOOLEAN
    BY <1>6, Zenon DEF report_returns
  <2>2. list' = 0 /\ at' = at /\ i' = i /\ shown' = {} /\ always' = {}
    BY <1>6 DEF report_returns
  <2> QED BY <1>2, <2>1, <2>2 DEF ReportInv, ReportTypeOK, ReadsMappedMemory, Walking
<1>7. CASE show_block \/ skip_block \/ show_large
  <2>1. PICK j \in 1 .. 5 : j = list
    BY <1>2, <1>7 DEF show_block, skip_block, show_large, Walking
  <2>2. /\ at \in Addr /\ i \in 0 .. MAX_BLOCKS - 1 /\ i' = i + 1
        /\ UNCHANGED <<type, list, at, always, moved, unmapped>>
        /\ \/ UNCHANGED <<shown, repeated>>
           \/ /\ shown' = shown \cup {<<at, i>>}
              /\ repeated' = (repeated \/ <<at, i>> \in shown)
    BY <1>2, <1>7, <2>1, IndexBound
       DEF show_block, skip_block, show_large, print, vars, heapVars, historyVars
  <2>3. <<at, i>> \in Ptr
    BY <2>2 DEF Ptr, BlockIndex
  <2>4. i' \in 0 .. MAX_BLOCKS
    BY <2>2, IndexBound, <2>1
  <2>5. ReportTypeOK'
    BY <1>2, <2>2, <2>3, <2>4 DEF ReportTypeOK
  <2> QED BY <1>2, <2>2, <2>5 DEF ReportInv, ReadsMappedMemory, Walking, Sound, class
<1>8. CASE next_node
  <2>1. PICK j \in 1 .. 5 : j = list
    BY <1>2, <1>8 DEF next_node, Walking
  <2>2. PICK a \in Addr : a = at /\ type[a] = class[j]
    BY <1>2, <1>8, <2>1 DEF next_node, Sound
  <2>3. /\ at' = next_of(a) /\ i' = 0 /\ UNCHANGED <<type, list>>
        /\ UNCHANGED historyVars
    BY <1>8, <2>2 DEF next_node, vars, heapVars
  <2>4. at' \in Addr \cup {NULL} /\ (at' # NULL => type[at'] = class[j])
    BY <1>1, <2>2, <2>3, NextOf, ListOf
  <2>5. ReportTypeOK'
    BY <1>2, <2>1, <2>3, <2>4, IndexBound DEF ReportTypeOK, historyVars
  <2> QED BY <2>1, <2>3, <2>4, <2>5 DEF ReportInv, ReadsMappedMemory, Walking, Sound, class
<1>9. CASE UNCHANGED allVars
  BY <1>9 DEF allVars, vars, heapVars, walkVars, historyVars, ReportInv, ReportTypeOK,
     ReadsMappedMemory, Walking, Sound, class
<1> QED BY <1>3, <1>5, <1>6, <1>7, <1>8, <1>9 DEF ReportNext, Report

(* ReportInv holds in every state of every execution.                      *)
THEOREM ReportInductive == ReportSpec => []ReportInv
<1>1. ReportInit => ReportInv
  <2> SUFFICES ASSUME ReportInit PROVE ReportInv
    OBVIOUS
  <2>1. repeated \in BOOLEAN /\ moved \in BOOLEAN /\ unmapped \in BOOLEAN
    BY Zenon DEF ReportInit
  <2>2. list = 0 /\ at = NULL /\ i = 0 /\ shown = {} /\ always = {}
    BY DEF ReportInit
  <2> QED BY <2>1, <2>2, HeapAssumption DEF ReportInv, ReportTypeOK, ReadsMappedMemory, Walking
<1> QED BY <1>1, NextReportInv, HeapBeside, PTL DEF ReportSpec

(* The report never reads memory that is gone unless a zone or block of    *)
(* the class it is printing is unmapped under it.                          *)
THEOREM ReadsWhatIsMapped == ReportSpec => []ReadsMappedMemory
BY ReportInductive, PTL DEF ReportInv

-----------------------------------------------------------------------------
(* What the walk has passed, it has shown.                                 *)

(* The nodes of the class that lie behind a walk that stands at a in list  *)
(* j, or at its end: those of the class's other list, if that came before, *)
(* and those before a.                                                     *)
Walked(j, a) ==
  (IF j \in {2, 4} THEN Range(lists[j - 1]) ELSE {})
  \cup (IF a = NULL THEN Range(lists[j]) ELSE Before(lists[j], a))

Passed(p) == p[1] \in Walked(list, at) \/ (p[1] = at /\ p[2] < i)

(* As long as nothing has left the lists of the class or is about to, the  *)
(* walk stands in its list, has shown what it has passed, as far as that   *)
(* has stayed allocated, and nothing else.                                 *)
WalkInv ==
  Walking /\ ~moved =>
    /\ ~Detaching(class[list])
    /\ at # NULL => at \in Range(lists[list])
    /\ always \subseteq live \cup leaked
    /\ \A p \in always : type[p[1]] = class[list]
    /\ \A p \in shown : Passed(p)
    /\ \A p \in always : Passed(p) => p \in shown
    /\ ~repeated

(* What lies behind the walk is of its class, and the walk is not there.   *)
LEMMA WalkedKnown ==
  ASSUME HeapInv, NEW j \in 1 .. 5, NEW a \in Range(lists[j]) \cup {NULL}
  PROVE  /\ \A b \in Walked(j, a) : b \in Addr /\ type[b] = class[j]
         /\ a \notin Walked(j, a)
<1>1. /\ \A b \in Range(lists[j]) : b \in Addr /\ type[b] = class[j]
      /\ lists[j] \in Seq(Addr) /\ IsInjective(lists[j])
      /\ j \in {2, 4} => Range(lists[j - 1]) \cap Range(lists[j]) = {}
  BY ListKnown
<1>2. j \in {2, 4} => \A b \in Range(lists[j - 1]) : b \in Addr /\ type[b] = class[j]
  BY ListOf, ListKnown
<1>3. a \notin Before(lists[j], a) /\ Before(lists[j], a) \subseteq Range(lists[j])
  BY <1>1, NotBefore DEF Before
<1> QED BY <1>1, <1>2, <1>3, ReportAssumption DEF Walked

(* A step of an allocating thread that takes no node of the class from a   *)
(* list leaves what lies behind the walk there, and puts nothing of the    *)
(* class there.                                                            *)
LEMMA WalkedStays ==
  ASSUME IInv, NEW t \in Thread, Call(t) \/ Step(t), NEW j \in 1 .. 5,
         ~Detaching(class[j]), NEW a \in Range(lists[j]) \cup {NULL}
  PROVE  /\ Walked(j, a) \subseteq Walked(j, a)'
         /\ \A b \in Walked(j, a)' : type[b] = class[j] => b \in Walked(j, a)
         /\ a # NULL => a \in Range(lists'[j])
<1> DEFINE k == class[j]
<1>1. /\ k \in Type /\ HeapInv /\ lists[j] \in Seq(Addr)
      /\ \A b \in Range(lists[j]) : type[b] = k
  BY ListOf, ListKnown DEF IInv, TypeOK, HeapInv
<1>2. Grown(lists[j], lists'[j], k)
  BY <1>1, ListOf, OnlyGrow
<1>3. j \in {2, 4} =>
        /\ lists[j - 1] \in Seq(Addr) /\ \A b \in Range(lists[j - 1]) : type[b] = k
        /\ Grown(lists[j - 1], lists'[j - 1], k)
  BY <1>1, ListOf, ListKnown, OnlyGrow
<1>4. /\ Range(lists[j]) \subseteq Range(lists'[j])
      /\ \A b \in Range(lists'[j]) : type[b] = k => b \in Range(lists[j])
      /\ a # NULL => Before(lists'[j], a) = Before(lists[j], a)
  BY <1>1, <1>2, GrownPlaces
<1>5. j \in {2, 4} =>
        /\ Range(lists[j - 1]) \subseteq Range(lists'[j - 1])
        /\ \A b \in Range(lists'[j - 1]) : type[b] = k => b \in Range(lists[j - 1])
  BY <1>3, GrownPlaces
<1>6. Walked(j, a)' = (IF j \in {2, 4} THEN Range(lists'[j - 1]) ELSE {})
                        \cup (IF a = NULL THEN Range(lists'[j]) ELSE Before(lists'[j], a))
  BY DEF Walked, Before
<1> QED BY <1>4, <1>5, <1>6 DEF Walked

(* The walk enters a list: nothing of it lies behind.                      *)
LEMMA WalkedEnter ==
  ASSUME HeapInv, NEW j \in 1 .. 5
  PROVE  Walked(j, first(j)) = IF j \in {2, 4} THEN Range(lists[j - 1]) ELSE {}
<1>1. lists[j] \in Seq(Addr) /\ IsInjective(lists[j])
  BY ListKnown
<1>2. CASE first(j) = NULL
  BY <1>2, First, EmptyRange DEF Walked
<1>3. CASE first(j) # NULL
  <2>1. Before(lists[j], first(j)) = {}
    BY <1>1, <1>3, First, BeforeHead
  <2> QED BY <1>3, <2>1 DEF Walked
<1> QED BY <1>2, <1>3

(* The walk goes on to the next node: the one it leaves lies behind.       *)
LEMMA WalkedNext ==
  ASSUME HeapInv, NEW j \in 1 .. 5, NEW a \in Range(lists[j])
  PROVE  /\ Walked(j, next_of(a)) = Walked(j, a) \cup {a}
         /\ next_of(a) # NULL => next_of(a) \in Range(lists[j])
<1>1. /\ lists[j] \in Seq(Addr) /\ IsInjective(lists[j])
      /\ a \in Addr /\ type[a] = class[j] /\ a # NULL
      /\ \A b \in Range(lists[j]) : b # NULL
  BY ListKnown, ReportAssumption
<1>2. class[j] \in Type /\ lists[j] \in {free_list[class[j]], full_list[class[j]]}
  BY ListOf
<1>3. PICK n \in 1 .. Len(lists[j]) :
        lists[j][n] = a /\ next_of(a) = IF n = Len(lists[j]) THEN NULL ELSE lists[j][n + 1]
  BY <1>1, <1>2, NextOf
<1>4. CASE n = Len(lists[j])
  <2>1. lists[j] # <<>>
    BY <1>1, <1>3
  <2>2. Range(lists[j]) = Before(lists[j], a) \cup {a}
    BY <1>1, <1>3, <1>4, <2>1, BeforeLast
  <2> QED BY <1>1, <1>3, <1>4, <2>2 DEF Walked
<1>5. CASE n # Len(lists[j])
  <2>1. Before(lists[j], next_of(a)) = Before(lists[j], a) \cup {a}
    BY <1>1, <1>3, <1>5, BeforeNext
  <2>2. next_of(a) \in Range(lists[j])
    BY <1>1, <1>3, <1>5 DEF Range
  <2> QED BY <1>1, <2>1, <2>2 DEF Walked
<1> QED BY <1>4, <1>5

(* The allocating threads leave what the walk has passed as it is.         *)
LEMMA AlongsideWalk ==
  ASSUME IInv, IInv', ReportInv, WalkInv, Alongside
  PROVE  WalkInv'
<1> SUFFICES ASSUME list' # 0, ~moved' PROVE WalkInv'
  BY DEF WalkInv, Walking
<1>1. /\ UNCHANGED <<list, at, i, shown, repeated>>
      /\ always' = always \cap (live' \cup leaked')
      /\ moved' = (moved \/ Detaching(class[list])')
      /\ \E t \in Thread : Call(t) \/ Step(t)
  BY DEF Alongside, Walking, walkVars
<1>2. PICK j \in 1 .. 5 : j = list
  BY <1>1 DEF ReportInv, ReportTypeOK
<1>3. PICK a \in Addr \cup {NULL} : a = at
  BY DEF ReportInv, ReportTypeOK
<1>4. /\ class' = class /\ class[j] \in Type /\ HeapInv
      /\ live \subseteq Ptr /\ leaked \subseteq Ptr
  BY ListOf DEF class, IInv, TypeOK, HeapInv
<1>5. /\ ~Detaching(class[j])
      /\ a # NULL => a \in Range(lists[j])
      /\ \A p \in always : p \in live \cup leaked /\ type[p[1]] = class[j]
      /\ \A p \in shown : Passed(p)
      /\ \A p \in always : Passed(p) => p \in shown
      /\ ~repeated
  BY <1>1, <1>2, <1>3 DEF WalkInv, Walking
<1>6. ~Detaching(class[list])'
  BY <1>1
<1>7. /\ Walked(j, a) \subseteq Walked(j, a)'
      /\ \A b \in Walked(j, a)' : type[b] = class[j] => b \in Walked(j, a)
      /\ a # NULL => a \in Range(lists'[j])
  BY <1>1, <1>4, <1>5, WalkedStays
<1>8. \A p \in always : type'[p[1]] = class[j]
  <2> SUFFICES ASSUME NEW p \in always PROVE type'[p[1]] = class[j]
    OBVIOUS
  <2>1. p \in Ptr /\ type[p[1]] = class[j]
    BY <1>4, <1>5
  <2> QED BY <1>1, <1>4, <1>5, <2>1, StaysMapped DEF Ptr
<1>9. \A p : Passed(p) <=> p[1] \in Walked(j, a) \/ (p[1] = a /\ p[2] < i)
  BY <1>2, <1>3 DEF Passed
<1>10. \A p : Passed(p)' <=> p[1] \in Walked(j, a)' \/ (p[1] = a /\ p[2] < i)
  BY <1>1, <1>2, <1>3 DEF Passed, Walked, Before, lists
<1>11. \A p \in shown' : Passed(p)'
  BY <1>1, <1>5, <1>7, <1>9, <1>10
<1>12. \A p \in always' : Passed(p)' => p \in shown'
  BY <1>1, <1>5, <1>7, <1>9, <1>10
<1>13. \A p \in always' : p \in live' \cup leaked' /\ type'[p[1]] = class'[list']
  BY <1>1, <1>2, <1>4, <1>8
<1>14. at' # NULL => at' \in Range(lists'[list'])
  BY <1>1, <1>2, <1>3, <1>7
<1> QED BY <1>1, <1>5, <1>6, <1>11, <1>12, <1>13, <1>14 DEF WalkInv

(* The walk begins the lists of a class, or goes on to the second.         *)
LEMMA EnterWalk ==
  ASSUME IInv, ReportInv, WalkInv, NEW j \in 1 .. 5, enter(j),
         \/ list = 0 /\ j = 1
         \/ list = j - 1 /\ list # 0 /\ at = NULL
  PROVE  WalkInv'
<1> SUFFICES ASSUME ~moved' PROVE WalkInv'
  BY DEF WalkInv
<1>1. /\ HeapInv /\ live \subseteq Ptr /\ leaked \subseteq Ptr /\ list \in 0 .. 5
  BY DEF IInv, TypeOK, HeapInv, ReportInv, ReportTypeOK
<1>2. /\ list' = j /\ at' = first(j) /\ i' = 0 /\ lists' = lists /\ class' = class
      /\ UNCHANGED <<type, live, leaked>>
      /\ \A k : Detaching(k)' <=> Detaching(k)
  BY DEF enter, vars, heapVars, argVars, clientVars, ghostVars, lists, class, Detaching,
     reclaimable, linked
<1>3. PICK a \in Addr \cup {NULL} : a = first(j)
  BY <1>1, First, ListKnown
<1>4. at' # NULL => at' \in Range(lists'[j])
  BY <1>1, <1>2, First
<1>5. Walked(j, a)' = IF j \in {2, 4} THEN Range(lists[j - 1]) ELSE {}
  <2>1. Walked(j, a)' = Walked(j, a)
    BY <1>2 DEF Walked, Before
  <2> QED BY <1>1, <1>3, <2>1, WalkedEnter
<1>6. \A p \in Ptr : Passed(p)' <=> j \in {2, 4} /\ p[1] \in Range(lists[j - 1])
  <2>1. \A p \in Ptr : Passed(p)' <=> p[1] \in Walked(j, a)' \/ (p[1] = a /\ p[2] < 0)
    BY <1>2, <1>3 DEF Passed, Walked, Before
  <2>2. \A p \in Ptr : ~(p[2] < 0)
    BY HeapAssumption DEF Ptr, BlockIndex
  <2> QED BY <1>5, <2>1, <2>2
<1>7. CASE Walking /\ class[list] = class[j]
  <2>1. UNCHANGED historyVars
    BY <1>7 DEF enter
  <2>2. j \in {2, 4} /\ list = j - 1 /\ at = NULL
    BY <1>1, <1>7 DEF Walking, class
  <2>3. Walked(list, at) = Range(lists[j - 1])
    BY <2>2 DEF Walked
  <2>4. \A p \in Ptr : p[1] # NULL
    BY ReportAssumption DEF Ptr
  <2>5. \A p \in Ptr : Passed(p) <=> p[1] \in Range(lists[j - 1])
    BY <2>2, <2>3, <2>4 DEF Passed
  <2>6. shown \subseteq Ptr /\ always \subseteq Ptr
    BY DEF ReportInv, ReportTypeOK
  <2> QED BY <1>2, <1>4, <1>6, <1>7, <2>1, <2>2, <2>5, <2>6 DEF WalkInv, historyVars
<1>8. CASE ~(Walking /\ class[list] = class[j])
  <2>1. /\ shown' = {} /\ repeated' = FALSE /\ moved' = Detaching(class[j])
        /\ always' = {p \in live \cup leaked : type[p[1]] = class[j]}
    BY <1>8 DEF enter
  <2>2. j \notin {2, 4}
    BY <1>1, <1>8 DEF Walking, class
  <2>3. \A p \in always' : p \in Ptr /\ ~Passed(p)'
    BY <1>1, <1>6, <2>1, <2>2
  <2> QED BY <1>2, <1>4, <2>1, <2>3 DEF WalkInv
<1> QED BY <1>7, <1>8

(* A block that stays allocated is in use and nobody is about to free it.  *)
LEMMA AllocatedInUse ==
  ASSUME IInv, NEW p \in live \cup leaked
  PROVE  p \in InUse /\ p \notin Freeing
<1>1. p \in InUse
  BY DEF IInv, BlocksAccounted, Held
<1>2. p \in Ptr
  BY <1>1, InUseMapped
<1>3. \A t \in Thread : p # ptr[t]
  BY <1>2 DEF IInv, BlocksAccounted, Mine
<1> QED BY <1>1, <1>3 DEF Freeing

(* A turn of the walk's loops passes one block, and shows it if it stays   *)
(* allocated.                                                              *)
LEMMA BlockWalk ==
  ASSUME IInv, ReportInv, WalkInv, show_block \/ skip_block \/ show_large
  PROVE  WalkInv'
<1> SUFFICES ASSUME ~moved' PROVE WalkInv'
  BY DEF WalkInv
<1>1. /\ list # 0 /\ at # NULL /\ list \in 0 .. 5 /\ at \in Addr \cup {NULL}
      /\ i \in 0 .. MAX_BLOCKS /\ shown \subseteq Ptr /\ always \subseteq Ptr
  BY DEF show_block, skip_block, show_large, Walking, ReportInv, ReportTypeOK
<1>2. PICK j \in 1 .. 5 : j = list
  BY <1>1
<1>3. PICK a \in Addr : a = at
  BY <1>1
<1>4. PICK n \in Nat : n = i
  BY <1>1, HeapAssumption
<1>5. /\ list' = j /\ at' = a /\ i' = n + 1
      /\ UNCHANGED <<always, moved>>
      /\ \/ /\ UNCHANGED <<shown, repeated>>
            /\ <<a, n>> \notin InUse \/ <<a, n>> \in Freeing
         \/ /\ shown' = shown \cup {<<a, n>>}
            /\ repeated' = (repeated \/ <<a, n>> \in shown)
  BY <1>2, <1>3, <1>4 DEF show_block, skip_block, show_large, print, historyVars
<1>6. /\ lists' = lists /\ class' = class /\ UNCHANGED <<type, live, leaked>>
      /\ \A k : Detaching(k)' <=> Detaching(k)
      /\ Walked(j, a)' = Walked(j, a)
  <2>1. UNCHANGED vars
    BY DEF show_block, skip_block, show_large, print
  <2> QED BY <2>1 DEF vars, heapVars, argVars, clientVars, ghostVars, lists, class, Detaching,
                      reclaimable, linked, Walked, Before
<1>7. /\ ~Detaching(class[j])
      /\ a \in Range(lists[j])
      /\ \A p \in always : p \in live \cup leaked /\ type[p[1]] = class[j]
      /\ \A p \in shown : Passed(p)
      /\ \A p \in always : Passed(p) => p \in shown
      /\ ~repeated
  BY <1>1, <1>2, <1>3, <1>5 DEF WalkInv, Walking
<1>8. a \notin Walked(j, a)
  BY <1>7, WalkedKnown DEF IInv, TypeOK, HeapInv
<1>9. \A p : Passed(p) <=> p[1] \in Walked(j, a) \/ (p[1] = a /\ p[2] < n)
  BY <1>2, <1>3, <1>4 DEF Passed
<1>10. \A p : Passed(p)' <=> p[1] \in Walked(j, a) \/ (p[1] = a /\ p[2] < n + 1)
  BY <1>5, <1>6 DEF Passed, Walked, Before
<1>11. ~Passed(<<a, n>>) /\ <<a, n>> \notin always \cap shown
  BY <1>7, <1>8, <1>9
<1>12. \A p \in Ptr : Passed(p)' <=> Passed(p) \/ p = <<a, n>>
  BY <1>4, <1>9, <1>10, HeapAssumption DEF Ptr, BlockIndex
<1>13. ~repeated' /\ (\A p \in shown' : Passed(p)')
  <2>1. <<a, n>> \notin shown
    BY <1>7, <1>11
  <2>2. Passed(<<a, n>>)'
    BY <1>4, <1>10
  <2>3. ~repeated'
    BY <1>5, <1>7, <2>1, Zenon
  <2>4. \A p \in shown' : Passed(p)'
    <3>1. \A p \in shown : Passed(p)'
      BY <1>1, <1>7, <1>12
    <3> QED BY <1>5, <2>2, <3>1
  <2> QED BY <2>3, <2>4
<1>14. \A p \in always : Passed(p)' => p \in shown'
  <2>1. <<a, n>> \in always => <<a, n>> \in shown'
    BY <1>5, <1>7, AllocatedInUse
  <2> QED BY <1>1, <1>5, <1>7, <1>12, <2>1
<1> QED BY <1>2, <1>3, <1>5, <1>6, <1>7, <1>13, <1>14 DEF WalkInv

(* After the last block of a node the walk has passed all of it.           *)
LEMMA NodeWalk ==
  ASSUME IInv, ReportInv, WalkInv, next_node
  PROVE  WalkInv'
<1> SUFFICES ASSUME ~moved' PROVE WalkInv'
  BY DEF WalkInv
<1>1. /\ list # 0 /\ at # NULL /\ list \in 0 .. 5 /\ at \in Addr \cup {NULL}
      /\ shown \subseteq Ptr /\ always \subseteq Ptr /\ HeapInv
  BY DEF next_node, Walking, ReportInv, ReportTypeOK, IInv, TypeOK, HeapInv
<1>2. PICK j \in 1 .. 5 : j = list
  BY <1>1
<1>3. PICK a \in Addr : a = at
  BY <1>1
<1>4. /\ list' = j /\ at' = next_of(a) /\ i' = 0
      /\ UNCHANGED <<shown, repeated, always, moved>>
      /\ i = IF class[j] = "LARGE" THEN 1 ELSE NBlocks[class[j]]
  BY <1>2, <1>3 DEF next_node, historyVars
<1>5. PICK b \in Addr \cup {NULL} : b = next_of(a)
  BY <1>1, <1>2, <1>3, NextOf, ListOf DEF next_node, Sound
<1>6. /\ lists' = lists /\ class' = class /\ UNCHANGED <<type, live, leaked>>
      /\ \A k : Detaching(k)' <=> Detaching(k)
      /\ Walked(j, b)' = Walked(j, b)
  <2>1. UNCHANGED vars
    BY DEF next_node
  <2> QED BY <2>1 DEF vars, heapVars, argVars, clientVars, ghostVars, lists, class, Detaching,
                      reclaimable, linked, Walked, Before
<1>7. /\ ~Detaching(class[j])
      /\ a \in Range(lists[j])
      /\ \A p \in always : p \in live \cup leaked /\ type[p[1]] = class[j]
      /\ \A p \in shown : Passed(p)
      /\ \A p \in always : Passed(p) => p \in shown
      /\ ~repeated
  BY <1>1, <1>2, <1>3, <1>4 DEF WalkInv, Walking
<1>8. Walked(j, b) = Walked(j, a) \cup {a} /\ (b # NULL => b \in Range(lists[j]))
  BY <1>1, <1>5, <1>7, WalkedNext
<1>9. \A p : Passed(p) <=> p[1] \in Walked(j, a) \/ (p[1] = a /\ p[2] < i)
  BY <1>2, <1>3 DEF Passed
<1>10. \A p \in Ptr : Passed(p)' <=> p[1] \in Walked(j, b)
  <2>1. \A p : Passed(p)' <=> p[1] \in Walked(j, b) \/ (p[1] = b /\ p[2] < 0)
    BY <1>4, <1>5, <1>6 DEF Passed, Walked, Before
  <2>2. \A p \in Ptr : ~(p[2] < 0)
    BY HeapAssumption DEF Ptr, BlockIndex
  <2> QED BY <2>1, <2>2
<1>11. \A p \in always : p[1] = a => p[2] < i
  <2> SUFFICES ASSUME NEW p \in always, p[1] = a PROVE p[2] < i
    OBVIOUS
  <2>1. p \in InUse /\ type[a] = class[j]
    BY <1>7, AllocatedInUse
  <2>2. class[j] # "LARGE" => class[j] \in ZoneType
    BY ListOf DEF Type
  <2> QED BY <1>4, <2>1, <2>2 DEF InUse, ZoneType
<1>12. \A p \in shown : Passed(p)'
  BY <1>1, <1>7, <1>8, <1>9, <1>10
<1>13. \A p \in always : Passed(p)' => p \in shown
  BY <1>1, <1>7, <1>8, <1>9, <1>10, <1>11
<1> QED BY <1>2, <1>4, <1>5, <1>6, <1>7, <1>8, <1>12, <1>13 DEF WalkInv

(* Every step keeps WalkInv.                                               *)
LEMMA NextWalkInv ==
  IInv /\ IInv' /\ ReportInv /\ WalkInv /\ [ReportNext]_allVars => WalkInv'
<1> SUFFICES ASSUME IInv, IInv', ReportInv, WalkInv, [ReportNext]_allVars PROVE WalkInv'
  OBVIOUS
<1>1. CASE show_alloc_mem \/ next_list
  <2>1. list \in 0 .. 5
    BY DEF ReportInv, ReportTypeOK
  <2>2. PICK j \in 1 .. 5 :
          /\ enter(j)
          /\ \/ list = 0 /\ j = 1
             \/ list = j - 1 /\ list # 0 /\ at = NULL
    BY <1>1, <2>1 DEF show_alloc_mem, next_list, Walking
  <2> QED BY <2>2, EnterWalk
<1>2. CASE report_returns
  BY <1>2 DEF report_returns, WalkInv, Walking
<1>3. CASE UNCHANGED allVars
  <2>1. /\ UNCHANGED <<heapVars, pc, argVars, new, clientVars, ghostVars>>
        /\ UNCHANGED <<walkVars, historyVars>>
    BY <1>3 DEF allVars, vars
  <2>2. Detaching(class[list])' <=> Detaching(class[list])
    BY <2>1 DEF heapVars, argVars, walkVars, class, Detaching, reclaimable, linked
  <2>3. \A p : Passed(p)' <=> Passed(p)
    BY <2>1 DEF heapVars, walkVars, Passed, Walked, Before, lists
  <2>4. lists' = lists /\ class' = class
    BY <2>1 DEF heapVars, lists, class
  <2> QED BY <2>1, <2>2, <2>3, <2>4
          DEF heapVars, clientVars, ghostVars, walkVars, historyVars, WalkInv, Walking
<1> QED BY <1>1, <1>2, <1>3, AlongsideWalk, BlockWalk, NodeWalk DEF ReportNext, Report

(* A report shows every block that stays allocated, and none twice, as     *)
(* long as no zone or block of the class it is printing leaves its list,   *)
(* whatever else the other threads do.                                     *)
THEOREM ShowsWhatStaysAllocated == ReportSpec => []ShowsWhatStays
<1>1. ReportInit => WalkInv
  BY DEF ReportInit, WalkInv, Walking
<1>2. IInv /\ ReportInv /\ WalkInv => ShowsWhatStays
  <2> SUFFICES ASSUME IInv, ReportInv, WalkInv, Walking, ~moved, list \in {2, 4, 5}, at = NULL,
                      NEW p \in always
               PROVE  p \in shown
    BY DEF ShowsWhatStays, WalkInv
  <2>1. p \in InUse /\ type[p[1]] = class[list]
    BY AllocatedInUse DEF WalkInv
  <2>2. HeapInv /\ p[1] \in Addr
    BY <2>1, InUseMapped DEF IInv, TypeOK, HeapInv
  <2>3. PICK j \in {2, 4, 5} : j = list
    OBVIOUS
  <2>4. /\ class[j] \in Type /\ lists[j] = full_list[class[j]]
        /\ class[j] = "LARGE" <=> j = 5
        /\ j \in {2, 4} => lists[j - 1] = free_list[class[j]]
    BY ListOf
  <2>5. p[1] \in Walked(j, NULL)
    <3>1. CASE j = 5
      <4>1. p[1] \in Range(full_list["LARGE"])
        BY <2>1, <2>3, <2>4, <3>1 DEF InUse, ZoneType
      <4> QED BY <2>4, <3>1, <4>1 DEF Walked
    <3>2. CASE j \in {2, 4}
      <4>1. p[1] \in Range(free_list[class[j]]) \cup Range(full_list[class[j]])
        BY <2>1, <2>2, <2>3, <2>4 DEF HeapInv, ListsConsistent
      <4> QED BY <2>4, <3>2, <4>1 DEF Walked
    <3> QED BY <3>1, <3>2
  <2> QED BY <2>3, <2>5 DEF WalkInv, Passed
<1> QED BY <1>1, <1>2, NextWalkInv, HeapBeside, ReportInductive, PTL DEF ReportSpec
=============================================================================
