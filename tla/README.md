# A TLA+ development for the malloc library

This directory specifies, model-checks and proves properties of the memory
allocator of this repository: a replacement for `malloc`, `free` and `realloc`
in two versions, `src/malloc.c` for one thread and `bonus/src/malloc_bonus.c`
for many.

## 1. The system

| Part | Source | State | Operations |
|---|---|---|---|
| Heap | `src/malloc.c`, `src/malloc.h` | `global_heap`: six lists, `initialized`; per zone a bitmap of free blocks, `free_count`, `requested_sizes`; per large block its `size` | `create_zone`, `create_block`, `find_set_bit`, taking a block, returning one, reclaiming a zone, caching or unmapping a large block |
| Calls | `src/malloc.c` | the call in progress | `malloc` (first call sets the heap up), `free`, `realloc` |
| Zone layout | `src/malloc.c` (`create_zone`), `src/malloc.h` (`META_*`) | the bytes of a zone | size arithmetic, the word in front of each block |
| Lists | `src/list.c`, `bonus/src/list_bonus.c` | `next`, `prev`, heads | `lst_add_back`, `lst_detach`, and the same for large blocks |
| Report | `src/show_alloc_mem.c` | none | `show_alloc_mem` |
| Calls, multithreaded | `bonus/src/malloc_bonus.c`, `bonus/src/mutex_bonus.c` | the heap, one mutex per size class, `heap_mutex` for the set-up | the same calls, `lock_list`, `unlock_list` |
| Report, multithreaded | `bonus/src/show_alloc_mem.c` | none | `show_alloc_mem`, `show_alloc_mem_ex` |
| Debug output | `printf/` | none | `ft_printf` and its conversions |
| Support | `libft/` | none | functions on buffers, strings, numbers and lists |

How they interact. A request of at most 64 bytes is TINY, of at most 1024 SMALL,
anything else LARGE. TINY and SMALL requests are served from *zones*: mappings
of at least 100 equal blocks, listed in `free_*_zones` while they have a free
block and in `full_*_zones` otherwise. `find_free_block` always takes the first
set bit of the first zone; when that was the zone's last block it moves the zone
and maps the next one at once, *before* it is needed. No other code maps a zone
after the set-up, so a class whose free list is empty stays without memory until
a `free`. `free` unmaps a zone whose last block comes back unless it is alone in
its list. LARGE blocks are mapped one by one; freed ones of at most 102400 bytes
are kept in `free_large_blocks` and reused first fit. The word in front of every
block tells `free` and `realloc` what the pointer is. In the multithreaded
library each class has its mutex; `initialized`, the type and the size of a
block are read without one.

What is hard here, and what makes each part correct:

- *Failure half-way.* Every mmap can fail: the first or second of the set-up,
  the refill after a block has been marked, the one inside `realloc`. Nobody's
  block may be lost or changed, and the heap must stay consistent.
- *Long sequences.* Lists, counters and bitmaps are three views of the same
  state, kept in step by moves that happen only at exact counter values.
- *Boundaries.* The masked last byte of the bitmap, the number of blocks that
  fit, the eleven bits of index in a packed word, the bound of the cache.
- *Interleavings.* The double-checked set-up, the unlocked reads before the
  lock, a `realloc` that holds two blocks and no lock, lock order, the calls
  `perror` may make under `large_lock`, and a report that takes no lock at all.

`PROJECT.json` lists each hazard at its line with the properties that cover it.

## 2. The modules

| Module | Models | Extends |
|---|---|---|
| `Heap` | `global_heap` and the operations on it; no `Next` of its own | |
| `AbstractMalloc` | what the library promises a program | |
| `Malloc` | the single-threaded calls and `show_alloc_mem` | `Heap` |
| `MallocBonus` | the multithreaded calls and the mutexes | `Heap` |
| `UnlockedReport` | the multithreaded `show_alloc_mem` beside other threads | `MallocBonus` |
| `LinkedList` | `list_bonus.c` (and `list.c`), store by store, and an unlocked reader | |
| `ZoneLayout` | the bytes of a zone | |
| `ShowAllocMem` | what the reports of `bonus/src/show_alloc_mem.c` write | |
| `Powers` | powers as a recursive function | |
| `Printf` | one call of `ft_printf` | `Powers` |
| `Libft` | functions of `libft` as operators | `Powers` |
| `LibftLists` | the linked lists of `libft` and a program that uses them | |
| `LibftCalls` | the programs that call both | `Libft`, `LibftLists` |
| `ListLemmas` | lemmas about sequences, induction, recursive functions and folds | |
| `HeapProofs` | lemmas about the operations of the heap | `Heap`, `ListLemmas` |
| `MallocProofs` | theorems about the single-threaded calls | `Malloc`, `HeapProofs` |
| `MallocBonusProofs` | theorems about the multithreaded calls and the report without locks | `UnlockedReport`, `HeapProofs` |
| `LinkedListProofs` | theorems about the list code and its reader | `LinkedList`, `ListLemmas` |
| `ZoneLayoutProofs` | theorems about the bytes of a zone | `ZoneLayout` |
| `ShowAllocMemProofs` | theorems about what the reports write | `ShowAllocMem`, `ListLemmas` |
| `SupportProofs` | theorems about `libft` and `ft_printf` | `LibftCalls`, `Printf`, `ListLemmas` |
| `MC*` | the small instances the runs check | |

### Heap

A mapping is named by its address, a model value; a pointer is the pair of the
mapping and a block index, which is what the packed word holds (that it really
does is `ZoneLayout`'s `MetaIntact`). Lists are sequences (that `list.c`
implements sequences is `LinkedList`'s `Represents`); `linked(z)`, free's test
of `prev` and `next`, becomes "the list has another element" (`SoleTest`). A
bitmap is the set of its set bits. `type[a] = "UNMAPPED"` says that nothing is
mapped at `a`; `munmap` clears everything known about an address, and mmap may
return any unmapped address. A munmap that fails is covered: the address is then
simply never returned again. `block->free` and `zone->memory` are left out
(written, never read, and derived).

Each operation is an operator with the source's name; `take_block`,
`reclaim_zone`, `return_block`, `free_large_block` and `reuse_block` are the
parts of `find_free_block`, `free` and `find_free_large_block` that change the
heap. The two libraries have the same code for them, so both modules use these.

### Malloc

A call is a sequence of steps with at most one mmap in each; `pc` says where it
is, `new` what the malloc in progress will return, `ptr` the argument of a
`realloc`. `setup_tiny`, `setup_small`, `alloc_block` and `refill` are the four
places that map memory, and each may fail. `free` maps nothing and is one step.
`live`, `asked`, `mem`, `leaked` and `mmap_failed` are history variables: the
pointers the program holds, what it asked for, how many leading bytes of its
data are at a pointer, the blocks lost by a failed refill, and whether an mmap
has failed. The program is legal: it frees and resizes only what it holds.
`free(NULL)` does nothing, `realloc(NULL, n)` is `malloc(n)`.

`show_alloc_mem` is the set of lines the report writes between two calls. A line
carries the turn of the loop that wrote it, so that a block met twice, in one
list or in two, is two lines.

### MallocBonus

The same for a set of threads. A step is one lock operation, one unlocked read
or one part of a critical section; finding a block and taking it are separate
steps, so that a missing lock would show. A pointer that a thread passes to
`free` or `realloc` belongs to that thread's call until it returns; it may be
freed by another thread than the one that allocated it. Words are read and
written atomically and in order, which holds for aligned `int` and pointer
accesses on the x86-64 the library is written for: `initialized` is set after
opaque calls, and nothing read through it is cached across a mutex call.

`malloc` refuses sizes above `PTRDIFF_MAX`, `realloc` does not. `mmap_length` is
`create_block`'s sum at the width of `size_t`: mmap refuses lengths of 0 or
above `PTRDIFF_MAX`, but a size within `HEADER` (48 bytes) of 2^64 wraps to a
small one. `backing(p)` is how many bytes there are behind a pointer, the rest
of the last page included; a store or a copy beyond it ends the process
(`killed`). `RequestsBacked` says that this can happen only to the program that
passed such a size to `realloc`, and to nobody else's block.

When mmap fails `create_block` calls `perror`, still holding `large_lock`, and
`perror` may allocate. `pc[t] = "perror"` lasts until the calls of the thread
`PERROR` have returned. They are made by the same thread as the one in `perror`;
as a mutex blocks its own holder like any other thread, a second name for it
changes nothing. Only one thread at a time can be in `perror`.

### UnlockedReport

`show_alloc_mem` follows the lists while other threads change them. A step of
the report is one turn of the loop of `show_zone`, one `zone->next` or the head
of the next list; between any two of them the other threads may do anything
`MallocBonus` allows. Their critical sections are single steps here. Where the
report could see the middle of one, the model adds what it would see: a bit that
is already changed (`Taking`, `Freeing`), or a node that is already out of its
list (`Detaching`, which counts from the moment the thread is bound to detach).
The stores of a list operation are in `LinkedList`, whose reader has the same
loop. The counters of a zone and the sizes are not looked at: what a report
prints as the size of a block that is being allocated may be an old one.

`ReadsMappedMemory` and `ShowsWhatStays` say exactly as much as the code
provides: without an unmapping of the class the walk stays on zones and blocks
of that class; without a move it shows all that stays, once.

### AbstractMalloc

The promise: a pointer handed out is not one the program still holds; what was
stored through a pointer stays until it is freed; `realloc` keeps the bytes that
fit; a failing call changes nothing. `Malloc` and `MallocBonus` implement it
under the mapping in `Abs`, with `contents[p]` the bytes that are stored and
within the size last asked for.

### LinkedList and ZoneLayout

`LinkedList` has the loop of `lst_add_back` as steps of its own, ends a step
after each store that a reader of `head` and `next` could tell from the next
one, and keeps the sequence a list stands for as a history variable. Writers are
one at a time (`NoDataRace`); the reader takes its steps in between. `ZoneLayout` keeps the real
constants: `create_zone`'s arithmetic, the loop that writes the packed words,
and every kind of store that can follow (a bit, a recorded size, a program
filling its block), which destroys the words it overlaps.

### ShowAllocMem, Printf, Libft

These are sequential. `ShowAllocMem` walks a heap chosen at the start, list by
list as the code does; numbers are written by the code's digit loops and read
back by the properties, and a dump records the addresses whose bytes it shows.
`src/show_alloc_mem.c` has the same code without the dump. `Printf` has the
format as characters, because its parser is what can go wrong, and a directive
as a record the properties interpret without parsing. Its words are scaled: the
literals the code writes for the extreme values of a 64-bit word are those of
the scaled word. The width of a directive and the return value are ints
(`as_int`), narrower than a `long`. In `Libft` a buffer is a function on the indices that were
allocated, so that a store outside shows in its domain; loops that only
search are set comprehensions, loops whose order matters (`ft_memcpy`,
`ft_memmove`, the walks of `ft_split`) are recursive functions. An operator that
stands for a function with a `malloc` has a parameter that says whether it is
refused, `refused`, or for `ft_split`, which has many, which of them are, `fails`.
`int` has 8
bits there: 2^7 ends in the digit 8, as 2^31 does, which `ft_itoa` relies on.
`LibftLists` is a program that keeps one list and its calls: the operators take
the nodes as they are before a call and give them as they are after it, and
`ft_lstmap` is a step per node, because any of its mallocs may fail. The
function that `ft_strmapi` and `ft_striteri` are passed, `f` in the code, is
`callback` here; the initial states and steps of one call of `ft_printf` are
`PrintfInit` and `PrintfNext`.

## 3. The runs

| Run | Instance | Shows |
|---|---|---|
| `malloc_zones` | 4 addresses, zones of 3 blocks, TINY requests | `ListsConsistent`, `CountsMatchBitmap`, `NullNeedsMmapFailure` |
| `malloc_large` | 5 addresses, large requests of 3 to 6 bytes, cache bound 4, `PTRDIFF_MAX` 5 | `RequestsFit`, `CacheBounded` |
| `malloc_mixed` | 3 addresses, zones of 2 blocks, one size per class | `TypeOK`, `BlocksAccounted`, `Refinement` |
| `malloc_report` | 3 addresses, zones of 2 blocks, two TINY sizes, a SMALL and a LARGE one, and 0 | `ShowsBlocksInUse`, `ShowsFirstRequest` |
| `bonus_safety` | 2 threads, 3 addresses, a SMALL size, a LARGE one and `SIZE_MAX`; header 2, pages of 4, `PTRDIFF_MAX` 7, `SIZE_MAX` 15 | `BlocksAccounted`, `RequestsBacked`, `ListsConsistent`, `OldTypeCurrent`, `NoDataRace`, `SetupOnce`, `NullNeedsMmapFailure`, `Refinement` |
| `bonus_liveness` | 2 threads with LARGE requests and the thread of `perror`'s TINY ones, 3 addresses | `CallsFinish` |
| `bonus_report` | a report beside 1 thread, 3 addresses, zones of 2 blocks, TINY and LARGE requests | `ReadsMappedMemory`, `ShowsWhatStays` |
| `linked_list` | 3 nodes, 2 lists, a writer and a reader | `Represents`, `ReaderSeesWhatStays`, `WalkEnds`, `ReaderReturns` |
| `zone_layout` | the real sizes, pages of 4, 16, 64 and 256 KiB | `LayoutFits`, `EnoughBlocks`, `MetaIntact` |
| `show_alloc_mem` | up to two zones in a tiny list, one in a small one, one large block; rows of 4 bytes | `ShowsTheHeap`, `DumpsEveryByte`, `HexFitsBuffer` |
| `printf` | formats of up to two pieces, `int` of 6 and `long` of 8 bits, values at the ends and at changes of length | `StaysInFormat`, `ReturnCountsOutput`, `WritesWhatWasMeant` |
| `libft` | a buffer of 3 bytes, sources of up to 4 characters; strings of up to 6 characters, one of them above 127; every `int`; each malloc refused or not; lists of up to 4 nodes | `CopiesRight`, `NewStringsRight`, `SearchesRight`, `NumbersComeBack`, `ListsInOrder`, `ContentsAccounted` |

What the properties say is written above each of them in its module. `SoleTest` is
a part of `Represents`; `CopiesRight` is `StaysInBuffer`, `CutsAtSize` and
`MovesAsIfCopied`, `NewStringsRight` is `SplitsIntoFields`, `TrimsToTheMiddle`
and `AllocatesExactly`, `SearchesRight` is `FindsTheMatch`,
`OrdersByFirstDifference` and `ClassesFitTogether`. The type invariants of
`MallocBonus`, `UnlockedReport` and `LinkedList` hold in their runs and are left
out of the configurations to keep those short. In short:
no block is handed out twice or lost track of (`BlocksAccounted`); the three
views of a zone agree (`ListsConsistent`, `CountsMatchBitmap`); NULL is the
answer to a legal request only if an mmap has failed, now or earlier
(`NullNeedsMmapFailure`); after a failed refill the block is lost for good, and
`leaked` keeps account of it.

*Why the bounds are enough.* Three blocks in a zone make a zone pass through
full, partly used with one and with two free blocks, and empty; with two zones
of a class and one of the other there is a zone to reclaim and one to keep, a
fourth mapping gives the list an order and lets reclaiming pick the first, middle
or last zone. Zones of two blocks keep the runs with all classes small. Two
sizes in one class let a realloc in place ask for another size than the block
was taken for, which is what `malloc_report` is about. Five
addresses leave three large blocks beside the two first zones, enough for a
first fit that skips one. mmap fails by choice in every state, and must fail when
every address is mapped. Zones of 100 blocks and more are in `zone_layout` and,
for the heap, in the theorems. With two threads every pair of steps of two calls
interleaves; in `bonus_liveness` the thread of `perror` is a third one. The
sizes of `bonus_safety` take both paths of `size_class` that differ (a zone, a
mapping of its own), and with a header of 2 the size 15 is the one that wraps; TINY and
SMALL have the same code, and SMALL is the class that is set up last. The report
needs zones of two blocks to meet a partly used one, two zones of a class to meet
a move and a reclaimed zone, and large blocks besides; one thread makes all
changes there are to a class, since its lock admits one at a time. Three nodes
are the fewest with one to detach between two others. Two pieces of a format are
enough to show what the first leaves to the second: the index and the next
argument. The widths go from none to `INT_MAX`, below and above the digits of
the number; two of them together are more than the return value can say.
A source of four characters for a buffer of three is longer than every
size passed; strings of six characters have a run that reaches past the middle
and up to three fields. In the reports every list is empty or not, and
the tiny ones also have a second zone. The symmetry of addresses and threads is sound because nothing compares
them; the runs of liveness properties do not use it.

*Deadlock* is checked in every run but `show_alloc_mem` and `printf`, whose
single call returns: in the multithreaded ones a deadlock would be threads that
all wait for mutexes.

*Fairness.* `linked_list` assumes that the one writer keeps running once it is
inside a list operation, and the same of the reader, which may be led from list to list as long as nodes move:
`ReaderReturns` speaks of what happens once the writers pause. `bonus_liveness`
assumes weak fairness for each thread's steps. A mutex that is released and taken again forever may
starve a waiting thread, since pthread mutexes are not fair; `CallsFinish`
therefore speaks of what happens once no new calls are made. No fairness is
assumed of mmap: it may fail for ever.

## 4. Faithfulness

`PROJECT.json` maps every definition to the lines it models. An operation keeps
all effects of its handler; `create_zone` includes the insertion into the list.
Every property has a mutant of the code that violates it in its run: the mutants
stand before the definitions they change. No statement in the repository's
comments or tests was found to be contradicted by the code: `create_zone`'s
"guaranteeing at least BLOCKS_PER_ZONE blocks fit" is `EnoughBlocks`, the
packed word's layout in `malloc.h` is `MetaIntact`, and the tests' expectations
are `Refinement` and `NullNeedsMmapFailure`.

Where a function of `libft` or `printf` does something narrower or other than
its name suggests, the property says what it does do, and no comment or test of
the repository says otherwise:

- `ft_strtrim` gives up in the middle of the string: `ft_strtrim("aaaab", "a")`
  is `"ab"` (`TrimsToTheMiddle`).
- `ft_strchr` and `ft_strrchr` compare a signed with an unsigned character and
  never find one from 128 on; `ft_strtrim` never trims one (`FindsTheMatch`).
- `ft_printf` writes sizes above `LONG_MAX` as negative numbers
  (`WritesWhatWasMeant` excepts them), `-9223372036854775807` for 2^63; it
  ignores a width without the flag 0 and ends a width at a 0.
- The width of a directive and the return value of `ft_printf` are ints. A
  width above `INT_MAX` overflows while it is read, so `Directive` has none;
  `ReturnCountsOutput` speaks of outputs an int can count.
- `ft_substr` with a `start` beyond the end of the string sets `len` to 0 but
  still calls `ft_strlen(s + start)`, and `ft_strlcpy` reads from `s + start` to
  the next 0: both read behind the string. The program of `LibftCalls` starts
  inside it; no caller in the repository does otherwise.
- `write_hex` has a buffer one byte short of a word whose first digit is not 0.
- `ft_lstmap` whose `ft_lstnew` fails loses the content `f` has just made, and
  without a `del` also the nodes made so far (`ContentsAccounted`).
- `ft_split` ignores the failure of a word's allocation and leaves a NULL in the
  middle of its array: `free_memory`, which it calls after each word, frees only
  an array that is NULL.
- `show_alloc_mem` prints for a block of a zone the size it was taken for. A
  `realloc` in place does not record its size, so after `realloc(malloc(10), 20)`
  the report says 10 bytes; a LARGE block is shown with its own size
  (`ShowsFirstRequest`).

The multithreaded library leaves some things to its caller, and no comment or
test says otherwise:

- `realloc(p, n)` with `n` within 48 of 2^64 returns a mapping of one page
  instead of NULL (`RequestsBacked`).
- `CallsFinish` needs `perror` to ask for no LARGE block while `large_lock` is
  held. With `PerrorSizes = {3}` in `BonusLiveness.cfg` the checker shows the
  calling thread waiting for itself. What `perror` asks for is the C library's
  affair; a stream buffer of more than 1024 bytes is LARGE.
- `show_alloc_mem` beside other threads is only as good as `ReadsMappedMemory`
  and `ShowsWhatStays` say: a `free` that unmaps the zone or large block the
  report stands on pulls the memory from under it.
- The payloads of a zone are not aligned: 101 TINY blocks have a bitmap of 13
  bytes, and everything behind it starts at an odd address.

## 5. The theorems

| Module | Theorem | Property |
|---|---|---|
| `MallocProofs` | `TypeCorrect` | `TypeOK` |
| | `ListsAreConsistent` | `ListsConsistent` |
| | `CountsAreBitmaps` | `CountsMatchBitmap` |
| | `EveryBlockAccounted` | `BlocksAccounted` |
| | `RefusedOnlyAfterMmapFailure` | `NullNeedsMmapFailure` |
| | `EveryRequestFits` | `RequestsFit` |
| | `CacheIsBounded` | `CacheBounded` |
| | `ShowsEveryBlock` | `ShowsBlocksInUse` |
| | `ShowsTheFirstRequest` | `ShowsFirstRequest` |
| | `ImplementsAbstractMalloc` | `Refinement` |
| `MallocBonusProofs` | `TypeCorrect` | `TypeOK` |
| | `NoRace` | `NoDataRace` |
| | `SetUpOnce` | `SetupOnce` |
| | `EveryBlockAccounted` | `BlocksAccounted` |
| | `ListsAreConsistent` | `ListsConsistent` |
| | `OldTypeIsCurrent` | `OldTypeCurrent` |
| | `RefusedOnlyAfterMmapFailure` | `NullNeedsMmapFailure` |
| | `EveryRequestBacked` | `RequestsBacked` |
| | `ImplementsAbstractMalloc` | `Refinement` |
| | `ReadsWhatIsMapped` | `ReadsMappedMemory` |
| | `ShowsWhatStaysAllocated` | `ShowsWhatStays` |
| `LinkedListProofs` | `PointersSpellLists` | `Represents` |
| | `ReaderSees` | `ReaderSeesWhatStays` |
| `ZoneLayoutProofs` | `ZoneFitsMapping` | `LayoutFits` |
| | `ZoneHasEnoughBlocks` | `EnoughBlocks` |
| | `WordsStayIntact` | `MetaIntact` |
| `ShowAllocMemProofs` | `TheHeapIsShown` | `ShowsTheHeap` |
| | `EveryByteIsDumped` | `DumpsEveryByte` |
| | `HexAlwaysFits` | `HexFitsBuffer` |
| `SupportProofs` | `ListsStayInOrder` | `ListsInOrder` |
| | `EveryContentAccounted` | `ContentsAccounted` |
| | `BufferKeepsContracts` | `CopiesRight` |
| | `SearchesFind` | `SearchesRight` |
| | `NewStringsAreRight` | `NewStringsRight` |
| | `NumbersReturn` | `NumbersComeBack` |
| | `StaysInside` | `StaysInFormat` |
| | `CountsOutput` | `ReturnCountsOutput` |
| | `WritesMeaning` | `WritesWhatWasMeant` |

`ListLemmas` and `HeapProofs` have the lemmas these share: facts about `Append`,
`RemoveFirst`, `Min`; induction, recursive functions and folds (see *Loops*
below); and one lemma per operation of the heap and kind of fact.

### What is assumed

The theorems hold for every value of the constants that meets the assumptions
stated with them. TLC evaluates all of them in the runs.

- `HeapAssumption`: block sizes are naturals, TINY below SMALL, zones have
  between 2 and `MAX_BLOCKS` blocks, NULL is no pointer. That zones have at
  least two blocks is needed: `free` moves a zone back from the full list only
  in the branch for a zone that is *not* empty again. The code justifies it by
  `EnoughBlocks`, which is itself a theorem.
- `RequestsAssumption`: requests and `PTRDIFF_MAX` are naturals.
- `BonusAssumption`: requests fit a `size_t`, NULL is no thread, pages are not
  empty. Its last two conjuncts, `PTRDIFF_MAX + HEADER <= SIZE_MAX` and
  `SMALL_BLOCK_SIZE * BLOCKS_PER_ZONE + HEADER <= SIZE_MAX`, say that the sum in
  `create_block` wraps neither for a size that `malloc` accepts nor for one
  that is cached. They hold for the constants of `malloc_bonus.h` wherever
  `ptrdiff_t` is a bit narrower than `size_t`.
- `ListAssumption`: the set of nodes is finite, and NULL is no node and no
  list. The model records what a reader shows up to as many nodes as there are;
  a list without repetitions is never longer, so nothing of an undisturbed walk
  is cut off (`ShortEnough`).
- `LayoutAssumption`: mmap returns multiples of 4096 and the cap on `n_blocks`
  is at most 2047, since the word has eleven bits for the index and one for
  `is_zone`.
- `ReportAssumption`: NULL is no address.
- `ShowAssumption`, `HeapsAssumption`: the heap a report walks is one the
  allocator can have left. A recorded size is at most its block's size
  (`RequestsFit`), a zone's first block lies behind its header and no two blocks
  overlap (`LayoutFits`, and mmap returns what is not mapped), and everything
  lies below `USER_TOP`, the addresses whose highest hex digit is 0: user
  addresses of x86-64 have at most 47 bits. `HexFitsBuffer` needs the last:
  `write_hex` has no room for a word with all its digits.
- `LibftAssumption`, `CallsAssumption`, `ListsAssumption`: the null pointers
  are no numbers and no nodes, and what an unwritten byte holds is no number;
  characters of strings are 1 to 255, 2^(`IntBits` - 1) ends in 8 as 2^31
  does, and the bounds on the inputs are naturals; strings and lists are no
  longer than an int can count, because `ft_countchr`, `ft_strtrim` and
  `ft_lstsize` count in one.
- `PrintfAssumption`, `PiecesAssumption`: a word has a positive multiple of 4
  bits, and an unsigned int fits a `long`. A piece is a literal character other than `%` and NUL, or a complete
  directive with an argument of its type: an int, an unsigned int, or for a
  pointer or a size a whole word. The width is any int whose numeral has no digit
  0, since `parse_format` takes that digit for the type.

### Malloc

Four layers, each an invariant of its own.

1. `IInv` is the conjunction of `TypeOK`, `ListsConsistent`,
   `CountsMatchBitmap` and `BlocksAccounted` with `CallConsistent`, which says
   what each `pc` implies about `ptr` and `new`. None of the parts is inductive
   alone: which block `free` gives back depends on the bitmap, when a zone moves
   depends on the counter, and both agree with what is held only if the lists
   do. `HeapProofs` has one lemma per operation (`CreateZone`, `TakeBlock`,
   `ReclaimZone`, `ReturnBlock`, `ReuseBlock`, `CreateBlock`, `FreeLargeBlock`,
   `FreePtr`): it keeps `HeapInv` and changes `InUse`, the set of blocks marked
   allocated, by exactly the block it is about. `InitialBitmap` proves the
   masking of the last byte. `ReclaimZone` is the one place that counts: a
   bitmap with `free_count + 1` elements among `n` has them all.
2. `NullInv` adds `Reserve`: while no mmap has failed, each class has a zone in
   its free list, except the one that `refill` is about to map.
3. `SizeInv` adds that large blocks are larger than SMALL, cached ones within
   the bound, and the block about to be returned as large as requested.
4. `RecordsFit` says that a block of a zone that is in use has a recorded size
   above 0 and within its class. For `ShowsBlocksInUse` the proof goes from lines
   to blocks and back: the lines of a loop are those of the mappings in its list
   (`ZoneLines`, `LinesOfBlocks`), every block in use has one
   (`EveryBlockHasALine`), and as a mapping stands in one list and there once,
   it has no other (`MetOnce`). For `ShowsFirstRequest`, `StepKeepsRecords` shows
   that no step changes the record of a block that stays in use, and
   `NewRecorded`, an invariant, that the block a call is about to return has the
   size of the call recorded.

The refinement needs, besides the first three layers, `CallInv`: a call in
progress asked for a positive number of bytes, a `realloc` that moves asks for
more than its old block has, and when it comes to free that block it has copied
all of it. Then `alloc_block` and `refill` implement the abstract allocation or
its failure, freeing the old block is the abstract `realloc`, and everything
else stutters.

### MallocBonus

`IInv` adds to the heap's invariants and `BlocksAccounted` what each thread
knows, `ThreadInv(t)`: the locks it holds where (`Locked`), which of its two
blocks it has (`Blocks`), that the block it has chosen but not yet taken is
still free (`Choice`), and that the type it read is current (`TypeRead`).
`NothingBeforeSetup` says that until `initialized` is set nobody has a block and
no call gets past the set-up; so the first zones, which are inserted without the
class's lock, meet nobody. The proof
that a step of one thread keeps what another one knows rests on footprints:
each operation of the heap touches the lists of one class only, and of the
blocks in use only the one it is about (`OnlyClass` and `Untouched` in
`HeapProofs`). `Locked` then says that no other thread is choosing in that class, and
`BlocksAccounted` that the block is nobody else's. `NoDataRace`, `SetupOnce` and
`OldTypeCurrent` follow from `IInv`.

`Reserve` is as above, but a class without free blocks is one that *some* thread
is refilling, under the class's lock. `SizeInv` bounds the size of each thread's
call; a block whose length wrapped is larger than the bound of the cache, on
paper, so it is unmapped when freed and serves no other request.
`ClientInv` is `CallInv` for each thread and, as another
thread may be resizing or writing at any time, that everything the program has
is as large as it last asked for (`ProgramFits`).

### UnlockedReport

The other threads keep `IInv` whatever the report does. `ReadsMappedMemory` is
then inductive: as long as nothing of the class is unmapped, what the walk has
reached stays mapped and of the class. For `ShowsWhatStays` the lists must not
only stay consistent but grow in one direction. As long as nothing leaves the
lists of the class, a step of the others appends nodes at their end
(`OnlyGrow`, `GrownPlaces`), and `WalkInv` says what that
leaves true of a walk in progress: of the blocks that were allocated
throughout, those in front of the walk's place (`Walked`, `Passed`) are shown,
and nothing else is, so none is shown twice.

### LinkedList and ZoneLayout

`IInv` of `LinkedList` says that the pointers spell the sequences (`AllSpell`,
`Apart`) also in the middle of `lst_add_back`, with the writer's node in no list
and its cursor in the list it walks (`WriterInv`), and where the reader stands:
what it has shown is the beginning of its list, and its cursor is the next
element (`ReaderInv`). `SoleTest` follows because a list of two or more nodes
gives each a neighbour.

`ZoneLayout` is arithmetic: the rounding to pages yields a multiple that is no
smaller (`RoundedUp`), the size that `n` blocks need grows with `n`
(`Monotonic`), and the division for `n_blocks` is exact enough (`Quotient`) for
both bounds. For `MetaIntact`, `IInv` says that every word written so far is at
its place; a store destroys a word only where the two overlap, and the layout
keeps bitmap, sizes, words and blocks apart.

### Loops

What a loop computes is a recursive function or a fold in the models, and saying
it for every input takes induction over the data. The library's induction
theorems take a predicate as parameter, which the installed provers cannot
instantiate. `ListLemmas` states them about sets instead: a set of naturals with
0 and all successors is `Nat` (`Induction`), and one that has each natural
whose predecessors it has (`CompleteInduction`); both follow from the least element
of what is missing. A recursive function is a CHOOSE, so a proof first has to
show that one exists: `RecursiveFunction` does so for any recursion whose
measure decreases, and `FoldSteps` and `FlattenParts` unfold `FoldLeft` and
`FlattenSeq` one element at a time.

### ShowAllocMem

`IInv` says that the output so far shows the blocks of the items the walk has
passed, each in one line, and that `total` is the sum of those lines. A step adds
the blocks of one item (`ZoneShown`), and `HeapsAssumption` is why they were not
shown before: the memory of two items does not overlap (`ItemsDisjoint`). That a
line reads back as its block is `WrittenReadBack`: the digit loops write every
digit of a number, so reading them gives the number. `DumpRows` says the same of
the rows of a dump, the last one included, and `DigitCount` bounds the digits of
an address, which is `HexFitsBuffer`.

### Libft

- *Lists.* `Chain(h, l, ns)` says that the next pointers from `l` spell the nodes
  `ns`, and `WalkChain` that the loop over them comes to exactly `ns`. `ListsInv`
  says it of the program's list and of the one `ft_lstmap` is building: they have
  no node in common, their contents are `items` and `images`, and every content
  is in one node or was lost (`Accounted`). `ListsInOrder` and
  `ContentsAccounted` follow. The accounts of the middle of `ft_lstmap`, with a
  content that has no node yet, are what makes the invariant longer than both.
- *The buffer.* `BufferInv` says that every byte is a number, and that the last
  call kept its contract (`CutRight`, or the closed form `Moved` of the loops of
  `ft_memmove` and `ft_memcpy`, which run up or down: by induction over the bytes
  moved so far).
- *Searches.* They keep no state, so the theorem needs no invariant beyond the
  call just made: `NeedleFound` for `ft_strnstr`, `SearchFinds` for the three
  searches for a character, `DifferenceCompares` for the two comparisons, and
  `ClassesRight` for the character classes.
- *New strings.* `FillsBuffer` says when bytes that `malloc` left undefined hold
  a string; from it follow `SubstrRight`, `StrdupRight`, `StrjoinRight` and
  `StrmapiRight`, for every string an int can count; a refused malloc leaves them
  with nothing but NULL to return. `ft_split` relies on `ft_countchr`
  finding as many words as it will copy: `CountStep` and `SplitStep` show, from
  the end of the string backwards, that both go through an ascending list of the
  places where fields begin (`Lists`), and by `ListsOnce` there is only one.
  `LoopsEnclose` says where the two loops of `ft_strtrim` stop: never inside what
  is kept, and at its ends if these are not beyond the middle.
- *Numbers.* `ft_itoa` fills its array from the last digit on, `ft_putnbr_fd`
  recurses over the quotients and `ft_atoi` adds up from the first digit.
  `SameRecursion` (two recursive functions that agree wherever they agree below
  are the same) carries each to `IntText`, the sign and the digits of the number
  (`ItoaWrites`, `PutNbrWrites`, `AtoiReads`). `NumLenCounts` is why the array is
  just long enough. `SumWraps` says that the int `ft_atoi` adds up in leaves its
  range only at the last digit of `INT_MIN`: there it wraps to `INT_MIN`, which
  the final negation leaves alone.

### Printf

`PrintfInv` says that the call is between two pieces: `i` stands behind the texts
of the first `m`, `va_arg` has taken their arguments, and `out` and `j` are their
outputs joined and, up to `INT_MAX`, the length of that. Three facts make it inductive.

- *Reading.* `ParsesDirective`: at the text of a directive, `parse_format` finds
  the flag, the width and the type the caller wrote and stops one character
  before its end. The loop over the width inverts the numeral it reads
  (`WidthReads`), by induction over its digits; no number on the way is larger
  than the last, so the int that holds it does not overflow (`IntsFit`).
- *Counting and writing.* `DirectiveWrites`: every conversion counts what it
  writes and, sizes above `LONG_MAX` excepted, writes what the caller meant.
  `DigitCounts` says that the loop of `ft_numlen_base` counts the digits the
  recursion of `ft_putnbr_base` and `ft_puthex` writes, and `DigitsAreNumeral`
  that these are the numeral by powers of the base, by strong induction over
  the number. `PointerDigits` is why the two literals of `ft_putpointer` may
  stand for what the recursion would have written.
- *Placing.* `FlattenPlaces`: the text and the argument of piece `m + 1` stand in
  the format and among the arguments where the first `m` end.

### What is only model-checked

- `CallsFinish`, `WalkEnds` and `ReaderReturns`: liveness under
  fairness is out of the proof system's reach.
- The type invariants of `UnlockedReport` and `LinkedList` are parts of proved
  invariants (`ReportInv`, `IInv`) and have no theorem of their own.

## 6. What is not modelled

- Formats that end inside a directive: `ft_printf` reads past the terminator.
  Widths and formats that an int cannot count.
- `ft_substr` from behind the end of its string, which reads past it.
- `ft_numlen_bonus.c`: nobody calls its `ft_numlen`, and no header declares it.
  Its loop stops at once for a positive number (`n && count++` is false at 0).
- `ft_putchar_fd`, `ft_putstr_fd` and `ft_putendl_fd` have no module of their
  own: they pass their argument to `write`. Also left out: `ft_atoi` of a string
  of spaces, which reads past its end, NULL arguments, and a `size * count` of
  `ft_calloc` that wraps: its only caller passes a count of 1.
- `free` of a foreign pointer in the multithreaded library (the test against
  4 GB, the type test) changes no state and is no action.
- What a report prints beside other threads, except which blocks: a size or a
  dumped byte may be read while it is being written.
- `print_pointer_in_binary` and the `DBG` output.
- Zones are never unmapped before their first block was used, so refills can
  leave empty zones behind; memory use is not a property here.
- Tests and build files.

## 7. What is left

All parts of section 1 are modelled and checked, and every safety property and
both refinements are proved. What stays with TLC is liveness, on the bounds of
section 3: that the calls of several threads finish and that walks over a list
come to an end. A call of the library for one thread is straight-line code with
neither a wait nor a retry, and has no liveness property of its own.
