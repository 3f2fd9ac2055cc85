---------------------------- MODULE MallocBonus ----------------------------
(***************************************************************************)
(* The thread-safe allocator of src/bonus/src: malloc, free and realloc    *)
(* called by any number of threads, with one mutex per size class and      *)
(* heap_mutex around the first set-up.                                     *)
(*                                                                         *)
(* A thread's step is a lock operation, an unlocked read, or a part of a   *)
(* critical section that ends where another thread could see a difference  *)
(* if the mutexes did not exclude it; NoDataRace is what makes larger      *)
(* steps unnecessary to split.                                             *)
(*                                                                         *)
(* The calling program is legal: a pointer is passed to free or realloc by *)
(* one thread at a time, and not used by others meanwhile.  A pointer may  *)
(* be freed by another thread than the one that got it.                    *)
(*                                                                         *)
(* create_block reports a failed mmap with perror, which may allocate      *)
(* through this library while the caller holds large_lock.  The calls made *)
(* inside perror are those of the thread PERROR: one is enough, since only *)
(* the holder of large_lock is in perror, and a mutex of the default kind  *)
(* blocks its own holder as it blocks any other thread.                    *)
(***************************************************************************)
EXTENDS Heap

CONSTANTS
  Thread,
  Requests,      \* the sizes the program asks for
  PERROR,        \* the thread of perror's calls, or NULL if it makes none
  PerrorSizes,   \* the sizes perror asks for
  HEADER,        \* sizeof(block_t) + sizeof(void *)
  PAGE,          \* mmap maps whole pages
  PTRDIFF_MAX,
  SIZE_MAX

(* The last two hold for the constants of malloc_bonus.h and of any machine *)
(* whose ptrdiff_t is a bit narrower than its size_t.                      *)
ASSUME BonusAssumption ==
  /\ NULL \notin Thread
  /\ PERROR \in Thread \cup {NULL}
  /\ PTRDIFF_MAX \in Nat
  /\ SIZE_MAX \in Nat
  /\ Requests \subseteq 0 .. SIZE_MAX
  /\ PerrorSizes \subseteq 0 .. SIZE_MAX
  /\ HEADER \in Nat
  /\ PAGE \in Nat \ {0}
  /\ PTRDIFF_MAX + HEADER <= SIZE_MAX
  /\ SMALL_BLOCK_SIZE * BLOCKS_PER_ZONE + HEADER <= SIZE_MAX

VARIABLES
  heap_mutex,    \* the thread that holds it, or NULL
  list_lock,     \* Type -> the holder of tiny_lock, small_lock, large_lock
  pc,            \* Thread -> where its call is; "idle" outside the library
  size,          \* Thread -> the size argument
  ptr,           \* Thread -> the pointer argument, NULL in a malloc
  new,           \* Thread -> the block found for it
  old_type,      \* Thread -> the type read from the block before locking
  live,          \* the pointers the program holds and is not freeing
  asked,         \* Ptr -> the size the program last asked for
  mem,           \* Ptr -> leading bytes of the holder's data present at p
  leaked,        \* blocks marked allocated whose malloc returned NULL
  mmap_failed    \* some mmap has failed

lockVars   == <<heap_mutex, list_lock>>
argVars    == <<size, ptr, old_type>>
clientVars == <<live, asked, mem>>
ghostVars  == <<leaked, mmap_failed>>
vars == <<heapVars, lockVars, pc, argVars, new, clientVars, ghostVars>>

PC == {"idle", "lock_heap", "recheck", "setup_tiny", "setup_small", "publish",
       "unlock_heap", "abort_setup", "lock_list", "alloc_block", "take_block",
       "reuse_block", "create_block", "perror", "refill", "unlock_list", "return",
       "copy", "read_type", "lock_free", "free_ptr", "unlock_free", "killed"}

TypeOK ==
  /\ HeapTypeOK
  /\ heap_mutex \in Thread \cup {NULL}
  /\ list_lock \in [Type -> Thread \cup {NULL}]
  /\ pc \in [Thread -> PC]
  /\ size \in [Thread -> Nat]
  /\ ptr \in [Thread -> Ptr \cup {NULL}]
  /\ new \in [Thread -> Ptr \cup {NULL}]
  /\ old_type \in [Thread -> Type \cup {UNMAPPED}]
  /\ live \in SUBSET Ptr
  /\ asked \in [Ptr -> Nat]
  /\ mem \in [Ptr -> Nat]
  /\ leaked \in SUBSET Ptr
  /\ mmap_failed \in BOOLEAN

Init ==
  /\ HeapInit
  /\ heap_mutex = NULL
  /\ list_lock = [k \in Type |-> NULL]
  /\ pc = [t \in Thread |-> "idle"]
  /\ size = [t \in Thread |-> 0]
  /\ ptr = [t \in Thread |-> NULL]
  /\ new = [t \in Thread |-> NULL]
  /\ old_type = [t \in Thread |-> UNMAPPED]
  /\ live = {}
  /\ asked = [p \in Ptr |-> 0]
  /\ mem = [p \in Ptr |-> 0]
  /\ leaked = {}
  /\ mmap_failed = FALSE

Goto(t, l) == pc' = [pc EXCEPT ![t] = l]

(* Outside perror the thread PERROR does not exist.                        *)
Calling(t) == pc[t] = "idle" /\ (t = PERROR => \E s \in Thread : pc[s] = "perror")
Sizes(t)   == IF t = PERROR THEN PerrorSizes ELSE Requests

-----------------------------------------------------------------------------
(* The size of a large block's mapping, a sum of size_t that wraps.        *)

mmap_length(n) == (HEADER + n) % (SIZE_MAX + 1)

(* What mmap can grant: not nothing, and not more than an address space.   *)
mappable(n) == mmap_length(n) \in 1 .. PTRDIFF_MAX

(* How many bytes there are from p to the end of its block or mapping.     *)
backing(p) ==
  IF type[p[1]] \in ZoneType
  THEN current_size(p)
  ELSE LET length == mmap_length(block_size[p[1]])
       IN ((length + PAGE - 1) \div PAGE) * PAGE - HEADER

-----------------------------------------------------------------------------
(* The mutexes *)

acquire_heap(t) == heap_mutex = NULL /\ heap_mutex' = t /\ UNCHANGED list_lock
release_heap    == heap_mutex' = NULL /\ UNCHANGED list_lock

(* Mutant: the lock is taken whether or not another thread holds it.       *)
lock_list_shared(t, k) ==
  list_lock' = [list_lock EXCEPT ![k] = t] /\ UNCHANGED heap_mutex

lock_list(t, k) ==
  /\ list_lock[k] = NULL
  /\ list_lock' = [list_lock EXCEPT ![k] = t]
  /\ UNCHANGED heap_mutex

unlock_list(k) == list_lock' = [list_lock EXCEPT ![k] = NULL] /\ UNCHANGED heap_mutex

-----------------------------------------------------------------------------
(* malloc: the first set-up *)

(* Mutant: a size is not compared with PTRDIFF_MAX.                        *)
malloc_unlimited(t, n) ==
  /\ Calling(t)
  /\ n # 0
  /\ size' = [size EXCEPT ![t] = n]
  /\ Goto(t, IF initialized THEN "lock_list" ELSE "lock_heap")
  /\ UNCHANGED <<heapVars, lockVars, ptr, old_type, new, clientVars, ghostVars>>

(* A rejected request returns NULL and changes nothing.  initialized is    *)
(* read without a lock.                                                    *)
malloc(t, n) ==
  /\ Calling(t)
  /\ n # 0 /\ n <= PTRDIFF_MAX
  /\ size' = [size EXCEPT ![t] = n]
  /\ Goto(t, IF initialized THEN "lock_list" ELSE "lock_heap")
  /\ UNCHANGED <<heapVars, lockVars, ptr, old_type, new, clientVars, ghostVars>>

lock_heap(t) ==
  /\ pc[t] = "lock_heap"
  /\ acquire_heap(t)
  /\ Goto(t, "recheck")
  /\ UNCHANGED <<heapVars, argVars, new, clientVars, ghostVars>>

(* Mutant: initialized is not checked again under the lock.                *)
recheck_skipped(t) ==
  /\ pc[t] = "recheck"
  /\ Goto(t, "setup_tiny")
  /\ UNCHANGED <<heapVars, lockVars, argVars, new, clientVars, ghostVars>>

recheck(t) ==
  /\ pc[t] = "recheck"
  /\ Goto(t, IF initialized THEN "unlock_heap" ELSE "setup_tiny")
  /\ UNCHANGED <<heapVars, lockVars, argVars, new, clientVars, ghostVars>>

(* create_zone for the first zone of type k, inserted without list lock.   *)
setup_zone(t, k, next) ==
  /\ \/ /\ \E z \in Addr : create_zone(k, z)
        /\ Goto(t, next)
        /\ UNCHANGED <<initialized, mmap_failed>>
     \/ /\ mmap_failed' = TRUE
        /\ Goto(t, "abort_setup")
        /\ UNCHANGED heapVars
  /\ UNCHANGED <<lockVars, argVars, new, clientVars, leaked>>

(* Mutant: initialized is set before the small zone exists.                *)
setup_tiny_publishing(t) ==
  /\ pc[t] = "setup_tiny"
  /\ \E z \in Addr : create_zone("TINY", z)
  /\ initialized' = TRUE
  /\ Goto(t, "setup_small")
  /\ UNCHANGED <<lockVars, argVars, new, clientVars, ghostVars>>

setup_tiny(t)  == pc[t] = "setup_tiny" /\ setup_zone(t, "TINY", "setup_small")
setup_small(t) == pc[t] = "setup_small" /\ setup_zone(t, "SMALL", "publish")

publish(t) ==
  /\ pc[t] = "publish"
  /\ initialized' = TRUE
  /\ Goto(t, "unlock_heap")
  /\ UNCHANGED <<type, bitmap, free_count, requested_sizes, block_size, free_list,
                 full_list, lockVars, argVars, new, clientVars, ghostVars>>

unlock_heap(t) ==
  /\ \/ pc[t] = "unlock_heap" /\ Goto(t, "lock_list")
     \/ pc[t] = "abort_setup" /\ Goto(t, "return")
  /\ release_heap
  /\ UNCHANGED <<heapVars, argVars, new, clientVars, ghostVars>>

-----------------------------------------------------------------------------
(* malloc and realloc: alloc_block under the lock of the request's class *)

(* Mutant: alloc_block runs without the lock of its class.                 *)
enter_list_unlocked(t) ==
  /\ pc[t] = "lock_list"
  /\ Goto(t, "alloc_block")
  /\ UNCHANGED <<heapVars, lockVars, argVars, new, clientVars, ghostVars>>

enter_list(t) ==
  /\ pc[t] = "lock_list"
  /\ lock_list(t, size_class(size[t]))
  /\ Goto(t, "alloc_block")
  /\ UNCHANGED <<heapVars, argVars, new, clientVars, ghostVars>>

(* The block index find_set_bit returns: never one past the zone's blocks. *)
find_set_bit_bounded(z) ==
  IF find_set_bit(z) >= NBlocks[type[z]] THEN -1 ELSE find_set_bit(z)

(* find_free_block's look at the head of the list.                         *)
find_free_block(t, k) ==
  IF free_list[k] = <<>> \/ find_set_bit_bounded(Head(free_list[k])) = -1
  THEN Goto(t, "unlock_list") /\ UNCHANGED new
  ELSE LET z == Head(free_list[k]) IN
       /\ new' = [new EXCEPT ![t] = <<z, find_set_bit_bounded(z)>>]
       /\ Goto(t, "take_block")

(* find_free_large_block's walk over the cached blocks.                    *)
find_free_large_block(t) ==
  LET j == first_fit(size[t]) IN
  IF j # 0
  THEN /\ new' = [new EXCEPT ![t] = <<free_list["LARGE"][j], 0>>]
       /\ Goto(t, "reuse_block")
  ELSE Goto(t, "create_block") /\ UNCHANGED new

alloc_block(t) ==
  /\ pc[t] = "alloc_block"
  /\ LET k == size_class(size[t]) IN
     IF k = "LARGE" THEN find_free_large_block(t) ELSE find_free_block(t, k)
  /\ UNCHANGED <<heapVars, lockVars, argVars, clientVars, ghostVars>>

take(t) ==
  /\ pc[t] = "take_block"
  /\ take_block(new[t][1], new[t][2], size[t])
  /\ Goto(t, IF free_count[new[t][1]] - 1 = 0 THEN "refill" ELSE "unlock_list")
  /\ UNCHANGED <<lockVars, argVars, new, clientVars, ghostVars>>

(* Mutant: create_zone is called again until it succeeds, under the lock.  *)
refill_retried(t) ==
  /\ pc[t] = "refill"
  /\ \/ /\ \E z \in Addr : create_zone(type[new[t][1]], z)
        /\ Goto(t, "unlock_list")
        /\ UNCHANGED <<initialized, mmap_failed>>
     \/ mmap_failed' = TRUE /\ UNCHANGED <<heapVars, pc>>
  /\ UNCHANGED <<lockVars, argVars, new, clientVars, leaked>>

(* When create_zone fails the block stays marked and NULL is returned.     *)
refill(t) ==
  /\ pc[t] = "refill"
  /\ \/ /\ \E z \in Addr : create_zone(type[new[t][1]], z)
        /\ UNCHANGED <<initialized, new, ghostVars>>
     \/ /\ mmap_failed' = TRUE
        /\ new' = [new EXCEPT ![t] = NULL]
        /\ leaked' = leaked \cup {new[t]}
        /\ UNCHANGED heapVars
  /\ Goto(t, "unlock_list")
  /\ UNCHANGED <<lockVars, argVars, clientVars>>

reuse(t) ==
  /\ pc[t] = "reuse_block"
  /\ reuse_block(new[t][1])
  /\ Goto(t, "unlock_list")
  /\ UNCHANGED <<lockVars, argVars, new, clientVars, ghostVars>>

create(t) ==
  /\ pc[t] = "create_block"
  /\ \/ /\ mappable(size[t])
        /\ \E b \in Addr : /\ create_block(b, size[t])
                           /\ new' = [new EXCEPT ![t] = <<b, 0>>]
        /\ Goto(t, "unlock_list")
        /\ UNCHANGED mmap_failed
     \/ /\ mmap_failed' = TRUE
        /\ Goto(t, "perror")
        /\ UNCHANGED <<heapVars, new>>
  /\ UNCHANGED <<lockVars, argVars, clientVars, leaked>>

(* perror returns when the calls it made have returned.                    *)
perror(t) ==
  /\ pc[t] = "perror"
  /\ PERROR # NULL => pc[PERROR] = "idle"
  /\ Goto(t, "unlock_list")
  /\ UNCHANGED <<heapVars, lockVars, argVars, new, clientVars, ghostVars>>

leave_list(t) ==
  /\ pc[t] = "unlock_list"
  /\ unlock_list(size_class(size[t]))
  /\ Goto(t, IF ptr[t] # NULL /\ new[t] # NULL THEN "copy" ELSE "return")
  /\ UNCHANGED <<heapVars, argVars, new, clientVars, ghostVars>>

(* The thread is done with its call.                                       *)
finish(t) ==
  /\ Goto(t, "idle")
  /\ size' = [size EXCEPT ![t] = 0]
  /\ ptr' = [ptr EXCEPT ![t] = NULL]
  /\ new' = [new EXCEPT ![t] = NULL]
  /\ old_type' = [old_type EXCEPT ![t] = UNMAPPED]

(* malloc returns, or a realloc whose alloc_block found nothing: then the  *)
(* program still holds the old block.                                      *)
return(t) ==
  /\ pc[t] = "return"
  /\ IF new[t] # NULL
     THEN /\ live' = live \cup {new[t]}
          /\ asked' = [asked EXCEPT ![new[t]] = size[t]]
          /\ mem' = [mem EXCEPT ![new[t]] = 0]
     ELSE /\ live' = live \cup ({ptr[t]} \ {NULL})
          /\ UNCHANGED <<asked, mem>>
  /\ finish(t)
  /\ UNCHANGED <<heapVars, lockVars, ghostVars>>

-----------------------------------------------------------------------------
(* free, and realloc(p, 0) *)

free(t, p) ==
  /\ Calling(t)
  /\ p \in live
  /\ t = PERROR => asked[p] \in PerrorSizes
  /\ live' = live \ {p}
  /\ asked' = [asked EXCEPT ![p] = 0]
  /\ mem' = [mem EXCEPT ![p] = 0]
  /\ ptr' = [ptr EXCEPT ![t] = p]
  /\ Goto(t, "read_type")
  /\ UNCHANGED <<heapVars, lockVars, size, old_type, new, ghostVars>>

(* The zone's or block's type is read before its lock is taken.            *)
read_type(t) ==
  /\ pc[t] = "read_type"
  /\ old_type' = [old_type EXCEPT ![t] = type[ptr[t][1]]]
  /\ Goto(t, "lock_free")
  /\ UNCHANGED <<heapVars, lockVars, size, ptr, new, clientVars, ghostVars>>

lock_free(t) ==
  /\ pc[t] = "lock_free"
  /\ lock_list(t, old_type[t])
  /\ Goto(t, "free_ptr")
  /\ UNCHANGED <<heapVars, argVars, new, clientVars, ghostVars>>

(* In a realloc the new block takes the place of the old one.              *)
release(t) ==
  /\ pc[t] = "free_ptr"
  /\ free_ptr(ptr[t])
  /\ IF new[t] = NULL
     THEN UNCHANGED clientVars
     ELSE /\ live' = live \cup {new[t]}
          /\ asked' = [asked EXCEPT ![ptr[t]] = 0, ![new[t]] = size[t]]
          /\ mem' = [mem EXCEPT ![ptr[t]] = 0]
  /\ new' = [new EXCEPT ![t] = NULL]
  /\ ptr' = [ptr EXCEPT ![t] = NULL]
  /\ Goto(t, "unlock_free")
  /\ UNCHANGED <<lockVars, size, old_type, ghostVars>>

unlock_free(t) ==
  /\ pc[t] = "unlock_free"
  /\ unlock_list(old_type[t])
  /\ finish(t)
  /\ UNCHANGED <<heapVars, clientVars, ghostVars>>

-----------------------------------------------------------------------------
(* realloc *)

realloc_in_place(t, p, n) ==
  /\ pc[t] = "idle"
  /\ p \in live
  /\ n # 0 /\ n <= current_size(p)
  /\ asked' = [asked EXCEPT ![p] = n]
  /\ UNCHANGED <<heapVars, lockVars, pc, argVars, new, live, mem, ghostVars>>

(* The old block's type and size are read unlocked; n is not compared with *)
(* PTRDIFF_MAX.                                                            *)
realloc_move(t, p, n) ==
  /\ pc[t] = "idle"
  /\ p \in live
  /\ n > current_size(p)
  /\ live' = live \ {p}
  /\ ptr' = [ptr EXCEPT ![t] = p]
  /\ size' = [size EXCEPT ![t] = n]
  /\ old_type' = [old_type EXCEPT ![t] = type[p[1]]]
  /\ Goto(t, "lock_list")
  /\ UNCHANGED <<heapVars, lockVars, new, asked, mem, ghostVars>>

(* Mutant: the last byte of the old block is not copied.                   *)
copy_short(t) ==
  /\ pc[t] = "copy"
  /\ mem' = [mem EXCEPT ![new[t]] = Min({mem[ptr[t]], current_size(ptr[t]) - 1})]
  /\ Goto(t, "lock_free")
  /\ UNCHANGED <<heapVars, lockVars, argVars, new, live, asked, ghostVars>>

(* ft_memcpy(new_ptr, ptr, current_size); an access behind a mapping ends  *)
(* the process.                                                            *)
copy(t) ==
  /\ pc[t] = "copy"
  /\ IF current_size(ptr[t]) <= Min({backing(ptr[t]), backing(new[t])})
     THEN /\ mem' = [mem EXCEPT ![new[t]] = Min({mem[ptr[t]], current_size(ptr[t])})]
          /\ Goto(t, "lock_free")
     ELSE /\ Goto(t, "killed")
          /\ UNCHANGED mem
  /\ UNCHANGED <<heapVars, lockVars, argVars, new, live, asked, ghostVars>>

-----------------------------------------------------------------------------
Write(t, p) ==
  /\ pc[t] = "idle" /\ t # PERROR
  /\ p \in live
  /\ mem[p] < asked[p]
  /\ IF asked[p] <= backing(p)
     THEN mem' = [mem EXCEPT ![p] = asked[p]] /\ UNCHANGED pc
     ELSE Goto(t, "killed") /\ UNCHANGED mem
  /\ UNCHANGED <<heapVars, lockVars, argVars, new, live, asked, ghostVars>>

Step(t) ==
  \/ lock_heap(t) \/ recheck(t) \/ setup_tiny(t) \/ setup_small(t) \/ publish(t)
  \/ unlock_heap(t) \/ enter_list(t) \/ alloc_block(t) \/ take(t) \/ refill(t)
  \/ reuse(t) \/ create(t) \/ perror(t) \/ leave_list(t) \/ return(t) \/ read_type(t)
  \/ lock_free(t) \/ release(t) \/ unlock_free(t) \/ copy(t)

Call(t) ==
  \/ \E n \in Sizes(t) : malloc(t, n)
  \/ \E p \in Ptr : free(t, p)
  \/ /\ t # PERROR
     /\ \E p \in Ptr, n \in Requests : realloc_in_place(t, p, n) \/ realloc_move(t, p, n)

Killed == \E t \in Thread : pc[t] = "killed"

Next ==
  \/ ~Killed /\ \E t \in Thread : Call(t) \/ Step(t) \/ \E p \in Ptr : Write(t, p)
  \/ Killed /\ UNCHANGED vars

Spec == Init /\ [][Next]_vars

(* A runnable thread runs, and a mutex nobody holds is given to somebody   *)
(* who waits for it; pthread mutexes promise no more.                      *)
FairSpec == Spec /\ \A t \in Thread : WF_vars(Step(t))
-----------------------------------------------------------------------------
(* Safety *)

(* What thread t keeps for itself during a call: the block it is freeing   *)
(* or resizing, and the block it has taken.                                *)
Mine(t) ==
  {p \in Ptr : p = ptr[t] \/ (p = new[t] /\ pc[t] \notin {"take_block", "reuse_block"})}

Held == live \cup leaked \cup UNION {Mine(t) : t \in Thread}

(* The classes whose lists and zones thread t reads or writes in its next  *)
(* step.                                                                   *)
Touches(t) ==
  CASE pc[t] = "setup_tiny"  -> {"TINY"}
    [] pc[t] = "setup_small" -> {"SMALL"}
    [] pc[t] \in {"alloc_block", "take_block", "reuse_block", "create_block", "refill"}
                             -> {size_class(size[t])}
    [] pc[t] = "free_ptr"    -> {type[ptr[t][1]]}
    [] OTHER                 -> {}

(* No two threads work on the lists of a class at once, although the first *)
(* zones are inserted under heap_mutex and not under the class's lock, and *)
(* free chooses its lock from a type it read before locking.               *)
NoDataRace == \A s, t \in Thread : s # t => Touches(s) \cap Touches(t) = {}

(* The double-checked initialisation sets the heap up once: no thread is   *)
(* still making first zones when initialized has been set.                 *)
SetupOnce ==
  \A t \in Thread : pc[t] \in {"setup_tiny", "setup_small", "publish"} => ~initialized

(* A block is free, or in use by the program or by one thread's call: no   *)
(* block is handed out twice, and none is unmapped while somebody has it.  *)
BlocksAccounted ==
  /\ live \cap leaked = {}
  /\ \A t \in Thread : Mine(t) \cap (live \cup leaked) = {}
  /\ \A s, t \in Thread : s # t => Mine(s) \cap Mine(t) = {}
  /\ \A t \in Thread : ptr[t] = new[t] => ptr[t] = NULL
  /\ Held = InUse

(* The type that free and realloc read before they lock is still the type  *)
(* of the block when the lock is theirs.                                   *)
OldTypeCurrent ==
  \A t \in Thread :
    pc[t] \in {"lock_free", "free_ptr"} => old_type[t] = type[ptr[t][1]]

(* A request malloc accepts is refused only if an mmap has failed, even    *)
(* while another thread is setting the heap up or filling the last zone.   *)
NullNeedsMmapFailure ==
  \A t \in Thread :
    pc[t] = "return" /\ new[t] = NULL => mmap_failed \/ size[t] > PTRDIFF_MAX

(* A block that malloc or realloc is about to return is backed by memory   *)
(* for its whole size, unless that size is within HEADER of 2^64: the sum  *)
(* in create_block wraps only for realloc, since malloc stops at           *)
(* PTRDIFF_MAX, and such a block, far larger on paper than its mapping, is *)
(* never cached and so never serves another request.                       *)
RequestsBacked ==
  \A t \in Thread :
    /\ new[t] # NULL
    /\ pc[t] \in {"unlock_list", "return", "copy", "lock_free", "free_ptr"}
    => size[t] <= backing(new[t]) \/ (ptr[t] # NULL /\ size[t] > SIZE_MAX - HEADER)

(* Under concurrency too, the library keeps the promises of AbstractMalloc; *)
(* a block that is being resized still belongs to the program.             *)
Program == live \cup {p \in Ptr : \E t \in Thread : p = ptr[t] /\ size[t] # 0}

Abs == INSTANCE AbstractMalloc WITH
         Pointers <- Ptr,
         Requests <- Requests \cup PerrorSizes,
         live <- Program,
         contents <- [p \in Ptr |-> IF p \in Program THEN Min({mem[p], asked[p]}) ELSE 0]

Refinement == Abs!AbsSpec

-----------------------------------------------------------------------------
(* Liveness *)

(* No lock is left behind and no two threads wait for each other: once the *)
(* program makes no further calls, the pending ones all return.  It holds  *)
(* only while perror asks for no LARGE block: one of those would wait for  *)
(* the large_lock that its own caller holds.                               *)
CallsFinish ==
  <>[][\E t \in Thread : Step(t)]_vars =>
    <>[](Killed \/ \A t \in Thread : pc[t] = "idle")
=============================================================================
