--------------------------- MODULE UnlockedReport ---------------------------
(***************************************************************************)
(* show_alloc_mem of src/bonus/src/show_alloc_mem.c running beside the     *)
(* calls of MallocBonus.  It takes no lock: it walks five lists by the     *)
(* next pointers it finds and reads the bitmap of each zone bit by bit,    *)
(* while other threads move, fill and unmap what it is reading.            *)
(*                                                                         *)
(* A critical section of MallocBonus is one step, but the walk may see the *)
(* first of its stores before the last.  Two cases matter: a bit of the    *)
(* bitmap may already be changed while its thread is about to take or free *)
(* the block (Taking, Freeing), and a node may already have left its list  *)
(* while its thread is about to move it (Detaching).  The stores of a list *)
(* operation itself are LinkedList's subject.                              *)
(*                                                                         *)
(* The variables after i are history: what happened since the walk of the  *)
(* present class began.  What show_alloc_mem writes about a heap at rest   *)
(* is ShowAllocMem's subject.                                              *)
(***************************************************************************)
EXTENDS MallocBonus

(* NULL is no zone's or block's address: it ends every list.               *)
ASSUME ReportAssumption == NULL \notin Addr

VARIABLES
  list,       \* 0: not called; 1 to 5: the list being walked
  at,         \* the zone or block the walk stands at
  i,          \* the counter of show_zone
  shown,      \* blocks printed
  repeated,   \* a block was printed twice
  always,     \* blocks that have been allocated all the time
  moved,      \* a zone or block has left its list
  unmapped    \* a mapping has gone

walkVars    == <<list, at, i>>
historyVars == <<shown, repeated, always, moved, unmapped>>
allVars     == <<vars, walkVars, historyVars>>

ReportTypeOK ==
  /\ list \in 0 .. 5
  /\ at \in Addr \cup {NULL}
  /\ i \in 0 .. MAX_BLOCKS
  /\ shown \in SUBSET Ptr
  /\ always \in SUBSET Ptr
  /\ repeated \in BOOLEAN
  /\ moved \in BOOLEAN
  /\ unmapped \in BOOLEAN

ReportInit ==
  /\ Init
  /\ list = 0 /\ at = NULL /\ i = 0
  /\ shown = {} /\ always = {}
  /\ repeated = FALSE /\ moved = FALSE /\ unmapped = FALSE

lists == <<free_list["TINY"], full_list["TINY"], free_list["SMALL"], full_list["SMALL"],
           full_list["LARGE"]>>

class == <<"TINY", "TINY", "SMALL", "SMALL", "LARGE">>

Walking == list # 0

-----------------------------------------------------------------------------
(* What the other threads do meanwhile *)

(* A thread is in the critical section of a call that will take a node of  *)
(* class k out of a list.                                                  *)
Detaching(k) ==
  \E t \in Thread :
    \/ /\ pc[t] = "take_block"
       /\ type[new[t][1]] = k
       /\ free_count[new[t][1]] = 1
    \/ pc[t] = "reuse_block" /\ k = "LARGE"
    \/ /\ pc[t] = "free_ptr"
       /\ type[ptr[t][1]] = k
       /\ k = "LARGE" \/ free_count[ptr[t][1]] = 0 \/ reclaimable(ptr[t][1])

(* The blocks whose bit a thread is about to clear, and to set: a reader   *)
(* may see the bit already changed.                                        *)
Taking  == {new[t] : t \in {u \in Thread : pc[u] = "take_block"}}
Freeing == {ptr[t] : t \in {u \in Thread : pc[u] = "free_ptr"}}

(* A step of an allocating thread.                                         *)
Alongside ==
  /\ ~Killed
  /\ \E t \in Thread : Call(t) \/ Step(t)
  /\ UNCHANGED <<walkVars, shown, repeated>>
  /\ IF Walking
     THEN LET k == class[list] IN
          /\ always' = always \cap (live \cup leaked)'
          /\ moved' = (moved \/ Detaching(k)')
          /\ unmapped' = (unmapped \/ \E a \in Addr : type[a] = k /\ type'[a] # k)
     ELSE UNCHANGED <<always, moved, unmapped>>

-----------------------------------------------------------------------------
(* The walk *)

(* Mutant: an empty free list is replaced by the full list, as in the      *)
(* address that is printed for the class.                                  *)
first_of_class(j) ==
  IF lists[j] # <<>> THEN Head(lists[j])
  ELSE IF j \in {1, 3} /\ lists[j + 1] # <<>> THEN Head(lists[j + 1])
  ELSE NULL

first(j) == IF lists[j] = <<>> THEN NULL ELSE Head(lists[j])

(* a->next, in whichever list a is by now.                                 *)
next_of(a) ==
  LET l == IF Contains(free_list[type[a]], a) THEN free_list[type[a]] ELSE full_list[type[a]]
      n == SelectInSeq(l, LAMBDA b : b = a)
  IN IF n = Len(l) THEN NULL ELSE l[n + 1]

(* The walk stands on a mapping of the class it expects.  When it does not *)
(* it reads memory that is gone, and nothing can be said of what it does.  *)
Sound == at # NULL => type[at] = class[list]

(* The walk goes on to the head of list j, which may be the first of its   *)
(* class.                                                                  *)
enter(j) ==
  /\ list' = j /\ at' = first(j) /\ i' = 0
  /\ IF Walking /\ class[list] = class[j]
     THEN UNCHANGED historyVars
     ELSE /\ shown' = {} /\ repeated' = FALSE
          /\ always' = {p \in live \cup leaked : type[p[1]] = class[j]}
          /\ moved' = Detaching(class[j])
          /\ unmapped' = FALSE
  /\ UNCHANGED vars

show_alloc_mem == ~Walking /\ enter(1)

next_list == Walking /\ at = NULL /\ list # 5 /\ enter(list + 1)

report_returns ==
  /\ at = NULL /\ list = 5
  /\ list' = 0 /\ UNCHANGED <<at, i>>
  /\ shown' = {} /\ always' = {}
  /\ repeated' = FALSE /\ moved' = FALSE /\ unmapped' = FALSE
  /\ UNCHANGED vars

print(p) ==
  /\ shown' = shown \cup {p}
  /\ repeated' = (repeated \/ p \in shown)
  /\ i' = i + 1
  /\ UNCHANGED <<vars, list, at, always, moved, unmapped>>

(* One turn of the loop of show_zone: the bit says that block i is in use. *)
show_block ==
  /\ Walking /\ at # NULL /\ Sound
  /\ class[list] # "LARGE" /\ i < NBlocks[class[list]]
  /\ <<at, i>> \in InUse \cup Taking
  /\ print(<<at, i>>)

skip_block ==
  /\ Walking /\ at # NULL /\ Sound
  /\ class[list] # "LARGE" /\ i < NBlocks[class[list]]
  /\ <<at, i>> \notin InUse \/ <<at, i>> \in Freeing
  /\ i' = i + 1
  /\ UNCHANGED <<vars, list, at, historyVars>>

(* A large block is printed without a test.                                *)
show_large ==
  /\ Walking /\ at # NULL /\ Sound
  /\ class[list] = "LARGE" /\ i = 0
  /\ print(<<at, 0>>)

next_node ==
  /\ Walking /\ at # NULL /\ Sound
  /\ i = IF class[list] = "LARGE" THEN 1 ELSE NBlocks[class[list]]
  /\ at' = next_of(at)
  /\ i' = 0
  /\ UNCHANGED <<vars, list, historyVars>>

Report ==
  \/ show_alloc_mem \/ next_list \/ report_returns
  \/ show_block \/ skip_block \/ show_large \/ next_node

ReportNext == Alongside \/ (~Killed /\ Report)

ReportSpec == ReportInit /\ [][ReportNext]_allVars
-----------------------------------------------------------------------------
(* The walk touches only zones and blocks of the class it is printing, as  *)
(* long as no mapping of that class is unmapped meanwhile: moves between   *)
(* the free and the full list, new zones and new large blocks may cut it   *)
(* short or send it through another list, but never astray.                *)
ReadsMappedMemory == Walking /\ ~unmapped => Sound

(* If besides no zone or block of the class leaves its list during the     *)
(* walk, all blocks of the class that stay allocated are printed, and no   *)
(* block is printed twice.  New zones, blocks taken and blocks freed do no *)
(* harm as long as no zone gets full, stops being full or is reclaimed.    *)
ShowsWhatStays ==
  Walking /\ ~moved =>
    /\ list \in {2, 4, 5} /\ at = NULL => always \subseteq shown
    /\ ~repeated
=============================================================================
