------------------------------ MODULE Malloc ------------------------------
(***************************************************************************)
(* malloc, free and realloc of src/src/malloc.c, called by one thread.     *)
(*                                                                         *)
(* A call runs in steps, at most one mmap in each, so that every mmap of a *)
(* call can fail on its own: a first malloc maps two zones, a malloc that  *)
(* takes the last block of a zone maps another, and realloc is a malloc, a *)
(* copy and a free.  free maps nothing and is one step.                    *)
(*                                                                         *)
(* The calling program is legal C: it frees and resizes only pointers it   *)
(* holds.  mem, asked, leaked and mmap_failed are history variables.       *)
(***************************************************************************)
EXTENDS Heap

CONSTANTS
  Requests,      \* the sizes the program asks for
  PTRDIFF_MAX

ASSUME RequestsAssumption ==
  /\ Requests \subseteq Nat
  /\ PTRDIFF_MAX \in Nat

VARIABLES
  pc,            \* where the call in progress is; "idle" between calls
  size,          \* its size argument
  ptr,           \* realloc's pointer argument, NULL in a malloc
  new,           \* the pointer the (inner) malloc is about to return
  live,          \* the pointers the program holds
  asked,         \* Ptr -> the size the program last asked for
  mem,           \* Ptr -> leading bytes of the holder's data present at p
  leaked,        \* blocks marked allocated whose malloc returned NULL
  mmap_failed    \* some mmap has failed

callVars   == <<pc, size, ptr, new>>
clientVars == <<live, asked, mem>>
ghostVars  == <<leaked, mmap_failed>>
vars == <<heapVars, callVars, clientVars, ghostVars>>

PC == {"idle", "setup_tiny", "setup_small", "alloc_block", "refill",
       "return", "realloc_free"}

TypeOK ==
  /\ HeapTypeOK
  /\ pc \in PC
  /\ size \in Nat
  /\ ptr \in Ptr \cup {NULL}
  /\ new \in Ptr \cup {NULL}
  /\ live \in SUBSET Ptr
  /\ asked \in [Ptr -> Nat]
  /\ mem \in [Ptr -> Nat]
  /\ leaked \in SUBSET Ptr
  /\ mmap_failed \in BOOLEAN

Init ==
  /\ HeapInit
  /\ pc = "idle"
  /\ size = 0
  /\ ptr = NULL
  /\ new = NULL
  /\ live = {}
  /\ asked = [p \in Ptr |-> 0]
  /\ mem = [p \in Ptr |-> 0]
  /\ leaked = {}
  /\ mmap_failed = FALSE

-----------------------------------------------------------------------------
(* malloc *)

rejected(n) == n = 0 \/ n > PTRDIFF_MAX

(* malloc's entry, for a call of the program (p = NULL) and for the call   *)
(* realloc(p, n) makes.                                                    *)
enter_malloc(p, n) ==
  /\ size' = n
  /\ ptr' = p
  /\ new' = NULL
  /\ pc' = IF rejected(n) THEN "return"
           ELSE IF ~initialized THEN "setup_tiny" ELSE "alloc_block"
  /\ UNCHANGED <<heapVars, clientVars, ghostVars>>

malloc(n) == pc = "idle" /\ enter_malloc(NULL, n)

(* An mmap fails and the call gives up: new is what it then returns.       *)
mmap_fails == mmap_failed' = TRUE /\ pc' = "return"

setup_tiny ==
  /\ pc = "setup_tiny"
  /\ \/ /\ \E z \in Addr : create_zone("TINY", z)
        /\ pc' = "setup_small"
        /\ UNCHANGED <<initialized, mmap_failed>>
     \/ mmap_fails /\ UNCHANGED heapVars
  /\ UNCHANGED <<size, ptr, new, clientVars, leaked>>

setup_small ==
  /\ pc = "setup_small"
  /\ \/ /\ \E z \in Addr : create_zone("SMALL", z)
        /\ initialized' = TRUE
        /\ pc' = "alloc_block"
        /\ UNCHANGED mmap_failed
     \/ mmap_fails /\ UNCHANGED heapVars
  /\ UNCHANGED <<size, ptr, new, clientVars, leaked>>

(* find_free_block on the head of the list, up to the call of create_zone. *)
find_free_block(k) ==
  IF free_list[k] = <<>> \/ find_set_bit(Head(free_list[k])) = -1
  THEN pc' = "return" /\ UNCHANGED <<heapVars, new>>
  ELSE LET z == Head(free_list[k])
           i == find_set_bit(z)
       IN /\ take_block(z, i, size)
          /\ new' = <<z, i>>
          /\ pc' = IF free_count[z] - 1 = 0 THEN "refill" ELSE "return"

find_free_large_block ==
  LET j == first_fit(size) IN
  IF j # 0
  THEN LET b == free_list["LARGE"][j] IN
       /\ reuse_block(b)
       /\ new' = <<b, 0>>
       /\ pc' = "return"
       /\ UNCHANGED mmap_failed
  ELSE \/ /\ \E b \in Addr : create_block(b, size) /\ new' = <<b, 0>>
          /\ pc' = "return"
          /\ UNCHANGED mmap_failed
       \/ mmap_fails /\ UNCHANGED <<heapVars, new>>

alloc_block ==
  /\ pc = "alloc_block"
  /\ \/ size_class(size) \in ZoneType /\ find_free_block(size_class(size))
        /\ UNCHANGED mmap_failed
     \/ size_class(size) = "LARGE" /\ find_free_large_block
  /\ UNCHANGED <<size, ptr, clientVars, leaked>>

(* find_free_block's create_zone, once its zone moved to the full list.    *)
(* When it fails the block stays marked and NULL is returned.              *)
refill ==
  /\ pc = "refill"
  /\ \/ /\ \E z \in Addr : create_zone(type[new[1]], z)
        /\ pc' = "return"
        /\ UNCHANGED <<initialized, new, ghostVars>>
     \/ /\ mmap_fails
        /\ new' = NULL
        /\ leaked' = leaked \cup {new}
        /\ UNCHANGED heapVars
  /\ UNCHANGED <<size, ptr, clientVars>>

malloc_return ==
  /\ pc = "return"
  /\ ptr = NULL
  /\ pc' = "idle"
  /\ IF new = NULL
     THEN UNCHANGED clientVars
     ELSE /\ live' = live \cup {new}
          /\ asked' = [asked EXCEPT ![new] = size]
          /\ mem' = [mem EXCEPT ![new] = 0]
  /\ new' = NULL /\ size' = 0
  /\ UNCHANGED <<heapVars, ptr, ghostVars>>

-----------------------------------------------------------------------------
(* free *)

free(p) ==
  /\ pc = "idle"
  /\ p \in live
  /\ free_ptr(p)
  /\ live' = live \ {p}
  /\ asked' = [asked EXCEPT ![p] = 0]
  /\ mem' = [mem EXCEPT ![p] = 0]
  /\ UNCHANGED <<callVars, ghostVars>>

-----------------------------------------------------------------------------
(* realloc *)

realloc_in_place(p, n) ==
  /\ pc = "idle"
  /\ p \in live
  /\ n <= current_size(p)
  /\ asked' = [asked EXCEPT ![p] = n]
  /\ UNCHANGED <<heapVars, callVars, live, mem, ghostVars>>

realloc_grow(p, n) ==
  /\ pc = "idle"
  /\ p \in live
  /\ n > current_size(p)
  /\ enter_malloc(p, n)

(* Mutant: a realloc that fails frees the block the program still holds.   *)
realloc_fails_freeing ==
  /\ pc = "return"
  /\ ptr # NULL
  /\ new = NULL
  /\ free_ptr(ptr)
  /\ pc' = "idle" /\ ptr' = NULL /\ size' = 0
  /\ UNCHANGED <<new, clientVars, ghostVars>>

(* malloc returned NULL inside realloc: so does realloc.                   *)
realloc_fails ==
  /\ pc = "return"
  /\ ptr # NULL
  /\ new = NULL
  /\ pc' = "idle" /\ ptr' = NULL /\ size' = 0
  /\ UNCHANGED <<heapVars, new, clientVars, ghostVars>>

copy_size == IF size < current_size(ptr) THEN size ELSE current_size(ptr)

(* ft_memcpy(new_ptr, ptr, copy_size)                                      *)
realloc_copy ==
  /\ pc = "return"
  /\ ptr # NULL
  /\ new # NULL
  /\ mem' = [mem EXCEPT ![new] = Min({mem[ptr], copy_size})]
  /\ pc' = "realloc_free"
  /\ UNCHANGED <<heapVars, size, ptr, new, live, asked, ghostVars>>

realloc_free ==
  /\ pc = "realloc_free"
  /\ free_ptr(ptr)
  /\ live' = (live \ {ptr}) \cup {new}
  /\ asked' = [asked EXCEPT ![ptr] = 0, ![new] = size]
  /\ mem' = [mem EXCEPT ![ptr] = 0]
  /\ pc' = "idle" /\ ptr' = NULL /\ new' = NULL /\ size' = 0
  /\ UNCHANGED ghostVars

-----------------------------------------------------------------------------
(* show_alloc_mem *)

(* Mutant: the loop over the blocks starts at one.                         *)
show_zone_from_one(turn, z) ==
  {[turn |-> turn, at |-> <<z, i>>, bytes |-> requested_sizes[<<z, i>>]] :
     i \in (1 .. NBlocks[type[z]] - 1) \ bitmap[z]}

(* The lines of one zone: in which turn of which loop over a list a line   *)
(* is written, its block and the number of bytes printed for it.           *)
show_zone(turn, z) ==
  {[turn |-> turn, at |-> <<z, i>>, bytes |-> requested_sizes[<<z, i>>]] :
     i \in (0 .. NBlocks[type[z]] - 1) \ bitmap[z]}

show_zones(loop, l) == UNION {show_zone(<<loop, n>>, l[n]) : n \in DOMAIN l}

show_large(loop, l) ==
  {[turn |-> <<loop, n>>, at |-> <<l[n], 0>>, bytes |-> block_size[l[n]]] : n \in DOMAIN l}

show_alloc_mem ==
  UNION {show_zones("free_tiny", free_list["TINY"]),
         show_zones("full_tiny", full_list["TINY"]),
         show_zones("free_small", free_list["SMALL"]),
         show_zones("full_small", full_list["SMALL"]),
         show_large("large", full_list["LARGE"])}

(* The number, or numbers, printed for block p.                            *)
bytes_shown(p) == {l.bytes : l \in {m \in show_alloc_mem : m.at = p}}

-----------------------------------------------------------------------------
(* The program stores through a pointer it holds.                          *)
Write(p) ==
  /\ pc = "idle"
  /\ p \in live
  /\ mem[p] < asked[p]
  /\ mem' = [mem EXCEPT ![p] = asked[p]]
  /\ UNCHANGED <<heapVars, callVars, live, asked, ghostVars>>

Step ==
  \/ setup_tiny \/ setup_small \/ alloc_block \/ refill \/ malloc_return
  \/ realloc_fails \/ realloc_copy \/ realloc_free

Call ==
  \/ \E n \in Requests : malloc(n)
  \/ \E p \in Ptr : free(p) \/ Write(p)
  \/ \E p \in Ptr, n \in Requests : realloc_in_place(p, n) \/ realloc_grow(p, n)

Next == Call \/ Step

Spec == Init /\ [][Next]_vars

-----------------------------------------------------------------------------
(* Safety *)

(* The blocks that are in use: held by the program, lost by a malloc whose *)
(* last mmap failed, or about to be returned.                              *)
Held == live \cup leaked \cup (IF new = NULL THEN {} ELSE {new})

(* Every block is free or in use, never both, and nobody else has it: the  *)
(* blocks marked allocated are exactly the blocks in somebody's hands.     *)
BlocksAccounted ==
  /\ new \notin live \cup leaked
  /\ live \cap leaked = {}
  /\ Held = InUse

(* A block is at least as large as what the program asked for: the class   *)
(* alloc_block picks, the first fit among cached blocks, realloc in place. *)
RequestsFit == \A p \in live : asked[p] <= current_size(p)

(* What free keeps for reuse is within the bound above which it unmaps.    *)
CacheBounded ==
  \A b \in Range(free_list["LARGE"]) :
    /\ block_size[b] > SMALL_BLOCK_SIZE
    /\ block_size[b] <= SMALL_BLOCK_SIZE * BLOCKS_PER_ZONE

(* A legal request is refused only if an mmap has failed: find_free_block  *)
(* refills the list before it is empty, and free never empties it.         *)
NullNeedsMmapFailure ==
  pc = "return" /\ new = NULL => rejected(size) \/ mmap_failed

(* Between calls show_alloc_mem prints one line for each block the program *)
(* holds or a failed malloc lost, never two, and none for a free block;    *)
(* the bytes of a line are all inside its block.                           *)
ShowsBlocksInUse ==
  pc = "idle" =>
    /\ {l.at : l \in show_alloc_mem} = live \cup leaked
    /\ \A l, m \in show_alloc_mem : l.at = m.at => l = m
    /\ \A l \in show_alloc_mem : 0 < l.bytes /\ l.bytes <= current_size(l.at)

(* What show_alloc_mem prints for a block of a zone is the size of the     *)
(* request that got the block, a malloc or a realloc that moved to it;     *)
(* for a large block it is the block's own, at least the request.  As long *)
(* as the program holds the block this does not change: a realloc in place *)
(* is not recorded, and no other call touches the record.                  *)
ShowsFirstRequest ==
  [][\A p \in live' :
       IF p \in live THEN bytes_shown(p)' = bytes_shown(p)
       ELSE IF type[p[1]] \in ZoneType THEN bytes_shown(p)' = {size}
       ELSE \E n \in bytes_shown(p)' : bytes_shown(p)' = {n} /\ n >= size]_vars

(* The library keeps the promises of AbstractMalloc: the bytes a program   *)
(* may rely on are those it stored and that are still within the size it   *)
(* last asked for.                                                         *)
Abs == INSTANCE AbstractMalloc WITH
         Pointers <- Ptr,
         contents <- [p \in Ptr |-> IF p \in live THEN Min({mem[p], asked[p]}) ELSE 0]

Refinement == Abs!AbsSpec
=============================================================================
