---------------------------- MODULE ShowAllocMem ----------------------------
(***************************************************************************)
(* show_alloc_mem and show_alloc_mem_ex of src/bonus/src/show_alloc_mem.c, *)
(* called while no other thread allocates: what they write for a heap.     *)
(* Each list of the heap is a sequence; a zone records the address of its  *)
(* first block, block_size and what requested_sizes holds for each block   *)
(* in use, 0 for a block whose bit is set.                                 *)
(*                                                                         *)
(* Words have WordBits bits and write_hex's buffer two bytes more than a   *)
(* word has hex digits, as buf[18] has for 64 bits.  A row of hex_dump has *)
(* ROW bytes and its offset column shows OFFSETS different values (16 and  *)
(* 65536 in the code).                                                     *)
(***************************************************************************)
EXTENDS Integers, Sequences, SequencesExt, FiniteSetsExt

CONSTANTS
  Heaps,            \* [free_tiny, full_tiny, free_small, full_small, large]
  WORD,             \* sizeof(void *)
  BLOCK_HEADER,     \* sizeof(block_t)
  WordBits, ROW, OFFSETS

ASSUME ShowAssumption ==
  /\ WORD \in Nat \ {0} /\ BLOCK_HEADER \in Nat
  /\ WordBits \in Nat \ {0} /\ WordBits % 4 = 0
  /\ ROW \in Nat \ {0} /\ OFFSETS % ROW = 0

VARIABLES
  heap,
  ex,               \* is this show_alloc_mem_ex
  pc,               \* the next item of the walk
  out,              \* what was written
  total

vars == <<heap, ex, pc, out, total>>

-----------------------------------------------------------------------------
(* Numbers.  digits are the digits written, low the lowest index of buf    *)
(* that was stored to. *)

(* Mutant: no room for the x.                                             *)
HEXBUF_short == WordBits \div 4 + 1

HEXBUF == WordBits \div 4 + 2

reversed_digits(val, base) ==
  LET put[v \in Nat] == IF v = 0 THEN <<>> ELSE <<v % base>> \o put[v \div base] IN put[val]

(* The digits from the end of buf, then x, then 0.                         *)
write_hex(val) ==
  LET digits == Reverse(reversed_digits(val, 16)) IN
  IF val = 0 THEN [digits |-> <<0>>, low |-> HEXBUF - 1]
  ELSE [digits |-> digits, low |-> HEXBUF - 1 - Len(digits) - 2]

write_dec(val) == IF val = 0 THEN <<0>> ELSE Reverse(reversed_digits(val, 10))

(* Mutant: the last row is written only when it is full.                   *)
hex_dump_full_rows(addr, size) ==
  [r \in 1 .. size \div ROW |->
     [offset |-> ((r - 1) * ROW) % OFFSETS,
      cells  |-> [k \in 1 .. ROW |-> addr + (r - 1) * ROW + k - 1]]]

(* The rows of a dump: the offset column and the addresses whose bytes are *)
(* shown, both in hex and as characters.                                   *)
hex_dump(addr, size) ==
  [r \in 1 .. (size + ROW - 1) \div ROW |->
     [offset |-> ((r - 1) * ROW) % OFFSETS,
      cells  |-> [k \in 1 .. Min({ROW, size - (r - 1) * ROW}) |-> addr + (r - 1) * ROW + k - 1]]]

-----------------------------------------------------------------------------
(* The walk *)

calculate_zone_block_address(zone, i) == zone.memory + i * (zone.block_size + WORD)

line(start, bytes) ==
  [kind |-> "line", start |-> write_hex(start), end |-> write_hex(start + bytes),
   bytes |-> write_dec(bytes), rows |-> IF ex THEN hex_dump(start, bytes) ELSE <<>>]

(* show_zone and show_zone_ex, the lines they write                        *)
zone_lines(zone) ==
  FlattenSeq([k \in DOMAIN zone.requested_sizes |->
    IF zone.requested_sizes[k] = 0 THEN <<>>
    ELSE <<line(calculate_zone_block_address(zone, k - 1), zone.requested_sizes[k])>>])

(* and the sum they return                                                 *)
zone_total(zone) == FoldLeft(+, 0, zone.requested_sizes)

first_address(free, full) ==
  IF free # <<>> THEN free[1].address ELSE IF full # <<>> THEN full[1].address ELSE 0

items(kind, list) == [k \in DOMAIN list |-> [kind |-> kind, what |-> list[k]]]

heading(free, full) == <<[kind |-> "heading", what |-> first_address(free, full)]>>

(* Mutant: the full zones of one class are left out.                       *)
walk_no_full_small(h) ==
  heading(h.free_tiny, h.full_tiny)
    \o items("zone", h.free_tiny) \o items("zone", h.full_tiny)
    \o heading(h.free_small, h.full_small) \o items("zone", h.free_small)
    \o heading(h.large, <<>>) \o items("block", h.large)

walk(h) ==
  heading(h.free_tiny, h.full_tiny)
    \o items("zone", h.free_tiny) \o items("zone", h.full_tiny)
    \o heading(h.free_small, h.full_small)
    \o items("zone", h.free_small) \o items("zone", h.full_small)
    \o heading(h.large, <<>>) \o items("block", h.large)

(* The heaps the allocator makes: the memory of two items, from first_byte *)
(* to the byte before after_byte, does not overlap, a block in use is not  *)
(* longer than its block, and all of it lies in user space, below the     *)
(* addresses whose first hex digit is not 0.                               *)
Zones == [address : Nat, memory : Nat, block_size : Nat \ {0}, requested_sizes : Seq(Nat)]

LargeBlocks == [address : Nat, size : Nat \ {0}]

first_byte(item) == IF item.kind = "zone" THEN item.what.memory ELSE item.what.address

after_byte(item) ==
  IF item.kind = "zone"
  THEN item.what.memory + Len(item.what.requested_sizes) * (item.what.block_size + WORD)
  ELSE item.what.address + BLOCK_HEADER + WORD + item.what.size

hex_values[digits \in Nat] == IF digits = 0 THEN 1 ELSE 16 * hex_values[digits - 1]

USER_TOP == hex_values[WordBits \div 4 - 1]

ASSUME HeapsAssumption ==
  \A h \in Heaps :
    /\ h \in [free_tiny : Seq(Zones), full_tiny : Seq(Zones),
             free_small : Seq(Zones), full_small : Seq(Zones), large : Seq(LargeBlocks)]
    /\ \A i \in DOMAIN walk(h) : walk(h)[i].kind = "zone" =>
         LET z == walk(h)[i].what IN
         z.address <= z.memory /\ \A k \in DOMAIN z.requested_sizes : z.requested_sizes[k] <= z.block_size
    /\ \A i \in DOMAIN walk(h) : walk(h)[i].kind # "heading" => after_byte(walk(h)[i]) < USER_TOP
    /\ \A i, j \in DOMAIN walk(h) :
         i < j /\ walk(h)[i].kind # "heading" /\ walk(h)[j].kind # "heading" =>
           \/ after_byte(walk(h)[i]) <= first_byte(walk(h)[j])
           \/ after_byte(walk(h)[j]) <= first_byte(walk(h)[i])

Init ==
  /\ heap \in Heaps
  /\ ex \in BOOLEAN
  /\ pc = 1
  /\ out = <<>>
  /\ total = 0

at(kind) == pc <= Len(walk(heap)) /\ walk(heap)[pc].kind = kind

write_heading ==
  /\ at("heading")
  /\ out' = Append(out, [kind |-> "heading", address |-> write_hex(walk(heap)[pc].what)])
  /\ pc' = pc + 1
  /\ UNCHANGED <<heap, ex, total>>

show_zone ==
  /\ at("zone")
  /\ out' = out \o zone_lines(walk(heap)[pc].what)
  /\ total' = total + zone_total(walk(heap)[pc].what)
  /\ pc' = pc + 1
  /\ UNCHANGED <<heap, ex>>

show_block ==
  /\ at("block")
  /\ LET block == walk(heap)[pc].what
         start == block.address + BLOCK_HEADER + WORD
     IN  /\ out' = Append(out, line(start, block.size))
         /\ total' = total + block.size
  /\ pc' = pc + 1
  /\ UNCHANGED <<heap, ex>>

write_total ==
  /\ pc = Len(walk(heap)) + 1
  /\ out' = Append(out, [kind |-> "total", bytes |-> write_dec(total)])
  /\ pc' = pc + 1
  /\ UNCHANGED <<heap, ex, total>>

Next == write_heading \/ show_zone \/ show_block \/ write_total

Spec == Init /\ [][Next]_vars

-----------------------------------------------------------------------------
Number(digits, base) == FoldLeft(LAMBDA n, d : n * base + d, 0, digits)

Returned == pc > Len(walk(heap)) + 1

Lines == {k \in DOMAIN out : out[k].kind = "line"}

(* The blocks in use with their sizes, from the heap itself.               *)
InUse ==
  LET zones == UNION {ToSet(heap.free_tiny), ToSet(heap.full_tiny),
                      ToSet(heap.free_small), ToSet(heap.full_small)}
      in_zone(z) == {<<z.memory + (k - 1) * (z.block_size + WORD), z.requested_sizes[k]>> :
                       k \in {n \in DOMAIN z.requested_sizes : z.requested_sizes[n] > 0}}
      large == {<<b.address + BLOCK_HEADER + WORD, b.size>> : b \in ToSet(heap.large)}
  IN  (UNION {in_zone(z) : z \in zones}) \cup large

(* The bytes the lines of an output show.                                  *)
LineSum(o) ==
  FoldLeft(+, 0, [k \in DOMAIN o |-> IF o[k].kind = "line" THEN Number(o[k].bytes, 10) ELSE 0])

(* When it returns, every block in use has one line with its start, end    *)
(* and size, nothing else has one, and the total is the sum of the lines.  *)
ShowsTheHeap ==
  Returned =>
    LET shown(k) == <<Number(out[k].start.digits, 16), Number(out[k].bytes, 10)>>
    IN  /\ {shown(k) : k \in Lines} = InUse
        /\ \A k, m \in Lines : shown(k) = shown(m) => k = m
        /\ \A k \in Lines : Number(out[k].end.digits, 16) = shown(k)[1] + shown(k)[2]
        /\ Number(Last(out).bytes, 10) = LineSum(out)

(* The dump of a block shows each of its bytes once, in order, and no byte *)
(* behind it: the rows of show_alloc_mem_ex end where the block ends.  The *)
(* offset column counts from 0 and repeats only after OFFSETS bytes.       *)
DumpsEveryByte ==
  ex => \A k \in Lines :
    LET rows == out[k].rows
        start == Number(out[k].start.digits, 16)
    IN  /\ FlattenSeq([r \in DOMAIN rows |-> rows[r].cells])
             = [n \in 1 .. Number(out[k].bytes, 10) |-> start + n - 1]
        /\ \A r \in DOMAIN rows :
             (rows[r].cells[1] - start) % OFFSETS = rows[r].offset

(* write_hex stores inside its buffer.  The buffer is one byte short of    *)
(* the digits of a word, 0x and the ending 0 together: the addresses of    *)
(* Heaps are those of user space, whose first digit is 0.                  *)
HexFitsBuffer ==
  LET numbers == {out[k].start : k \in Lines} \cup {out[k].end : k \in Lines}
                   \cup {out[k].address : k \in {n \in DOMAIN out : out[n].kind = "heading"}}
  IN  \A n \in numbers : n.low >= 0
=============================================================================
