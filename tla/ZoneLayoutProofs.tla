-------------------------- MODULE ZoneLayoutProofs --------------------------
(***************************************************************************)
(* Theorems about ZoneLayout.tla, for every page size, every block size,   *)
(* every number of blocks a zone is asked to hold and every size of header *)
(* and word.                                                               *)
(***************************************************************************)
EXTENDS ZoneLayout, TLAPS

-----------------------------------------------------------------------------
(* Arithmetic *)

(* Products are monotonic.                                                 *)
LEMMA Monotonic ==
  ASSUME NEW a \in Nat, NEW b \in Nat, NEW c \in Nat, a <= b
  PROVE  a * c <= b * c
<1>1. b * c = a * c + (b - a) * c /\ (b - a) * c \in Nat
  OBVIOUS
<1> QED BY <1>1

(* A number rounded up to a multiple of d is not less than it was.         *)
LEMMA RoundedUp ==
  ASSUME NEW n \in Nat, NEW d \in Nat \ {0}
  PROVE  /\ ((n + d - 1) \div d) * d \in Nat
         /\ ((n + d - 1) \div d) * d >= n
<1> DEFINE q == (n + d - 1) \div d
<1>1. q \in Nat /\ d * q <= n + d - 1 /\ n + d - 1 < d * q + d
  OBVIOUS
<1> HIDE DEF q
<1>2. q * d = d * q /\ q * d \in Nat
  BY <1>1
<1> QED BY <1>1, <1>2 DEF q

(* What a quotient is good for.                                            *)
LEMMA Quotient ==
  ASSUME NEW r \in Nat, NEW d \in Nat \ {0}
  PROVE  /\ r \div d \in Nat
         /\ d * (r \div d) <= r
         /\ \A n \in Nat : d * n <= r => n <= r \div d
<1> DEFINE q == r \div d
<1>1. q \in Nat /\ d * q <= r /\ r < d * q + d
  OBVIOUS
<1>2. ASSUME NEW n \in Nat, d * n <= r, n > q
      PROVE  FALSE
  <2> HIDE DEF q
  <2>1. (q + 1) * d <= n * d
    BY <1>1, <1>2, Monotonic
  <2>2. (q + 1) * d = d * q + d /\ n * d = d * n
    BY <1>1
  <2>3. d * q \in Nat /\ d * n \in Nat
    BY <1>1
  <2> QED BY <1>1, <1>2, <2>1, <2>2, <2>3
<1> QED BY <1>1, <1>2

-----------------------------------------------------------------------------
(* The layout *)

Parameters ==
  /\ page_size \in Nat \ {0}
  /\ block_size \in Nat \ {0}
  /\ base \in Nat /\ base % 4096 = 0

(* All numbers of the layout are natural, and the mapping is as large as   *)
(* the zone needs to be.                                                   *)
LEMMA Sizes ==
  ASSUME Parameters
  PROVE  /\ HEADER \in Nat /\ WORD \in Nat \ {0} /\ BLOCKS_PER_ZONE \in Nat \ {0}
         /\ MAX_BLOCKS \in Nat /\ MAX_BLOCKS <= 2047 /\ BLOCKS_PER_ZONE <= MAX_BLOCKS
         /\ per_block \in Nat /\ per_block = 2 * WORD + block_size
         /\ min_size \in Nat /\ total_size \in Nat /\ total_size >= min_size
         /\ total_size - HEADER \in Nat
<1>1. /\ HEADER \in Nat /\ WORD \in Nat \ {0} /\ BLOCKS_PER_ZONE \in Nat \ {0}
      /\ MAX_BLOCKS \in Nat /\ MAX_BLOCKS <= 2047 /\ BLOCKS_PER_ZONE <= MAX_BLOCKS
  BY LayoutAssumption
<1>2. per_block \in Nat /\ per_block = 2 * WORD + block_size
  BY <1>1 DEF Parameters, per_block
<1>3. min_size \in Nat /\ min_size >= HEADER
  <2>1. BLOCKS_PER_ZONE * per_block \in Nat /\ (BLOCKS_PER_ZONE + 7) \div 8 \in Nat
    BY <1>1, <1>2
  <2> QED BY <1>1, <2>1 DEF min_size
<1>4. total_size \in Nat /\ total_size >= min_size
  BY <1>3, RoundedUp DEF Parameters, total_size
<1> QED BY <1>1, <1>2, <1>3, <1>4

(* The blocks that fit are as many as are needed, no more than fit, and    *)
(* few enough for the eleven bits of META_PACK.                            *)
LEMMA BlocksFit ==
  ASSUME Parameters
  PROVE  /\ n_blocks \in Nat /\ n_blocks <= 2047
         /\ n_blocks >= BLOCKS_PER_ZONE
         /\ bitmap_bytes + n_blocks * per_block <= total_size - HEADER
<1> DEFINE room == total_size - HEADER
           d == 8 * per_block + 1
<1>1. room \in Nat /\ per_block \in Nat /\ 8 * room \in Nat /\ d \in Nat \ {0}
  BY Sizes
<1>2. fitting = (8 * room) \div d
  BY DEF fitting
<1>3. /\ fitting \in Nat /\ d * fitting <= 8 * room
      /\ \A n \in Nat : d * n <= 8 * room => n <= fitting
  <2> HIDE DEF d, room
  <2> QED BY <1>1, <1>2, Quotient
<1>4. n_blocks \in Nat /\ n_blocks <= fitting /\ n_blocks <= MAX_BLOCKS
  BY <1>3, Sizes DEF n_blocks
<1>5. d * n_blocks <= 8 * room
  <2>1. n_blocks * d <= fitting * d
    BY <1>1, <1>3, <1>4, Monotonic
  <2>2. n_blocks * d = d * n_blocks /\ fitting * d = d * fitting
    BY <1>1, <1>3, <1>4
  <2>3. d * n_blocks \in Nat /\ d * fitting \in Nat
    BY <1>1, <1>3, <1>4
  <2> HIDE DEF d, room
  <2> QED BY <1>1, <1>3, <2>1, <2>2, <2>3
<1>6. d * n_blocks = 8 * (n_blocks * per_block) + n_blocks /\ n_blocks * per_block \in Nat
  BY <1>1, <1>4
<1>7. bitmap_bytes + n_blocks * per_block <= room
  <2> DEFINE m == n_blocks * per_block
  <2>1. m \in Nat /\ 8 * m + n_blocks <= 8 * room
    BY <1>5, <1>6
  <2> HIDE DEF m, room, d
  <2>2. (n_blocks + 7) \div 8 + m <= room
    BY <1>1, <1>4, <2>1
  <2> QED BY <2>2 DEF bitmap_bytes, m
<1>8. n_blocks >= BLOCKS_PER_ZONE
  <2> DEFINE m == BLOCKS_PER_ZONE * per_block
  <2>1. m \in Nat /\ room >= (BLOCKS_PER_ZONE + 7) \div 8 + m
    <3>1. m \in Nat /\ (BLOCKS_PER_ZONE + 7) \div 8 \in Nat
      BY Sizes
    <3>2. min_size = HEADER + (BLOCKS_PER_ZONE + 7) \div 8 + m
      BY DEF min_size
    <3> HIDE DEF m
    <3> QED BY <3>1, <3>2, Sizes
  <2>2. d * BLOCKS_PER_ZONE = 8 * m + BLOCKS_PER_ZONE
    BY Sizes
  <2> HIDE DEF m, room, d
  <2>3. 8 * m + BLOCKS_PER_ZONE <= 8 * room
    BY <1>1, <2>1, Sizes
  <2>4. BLOCKS_PER_ZONE <= fitting
    BY <1>3, <2>2, <2>3, Sizes
  <2> QED BY <1>3, <2>4, Sizes DEF n_blocks
<1> QED BY <1>4, <1>7, <1>8, Sizes

(* The parts of a zone lie one behind the other: bitmap, sizes, words and  *)
(* blocks.                                                                 *)
LEMMA PartsApart ==
  ASSUME Parameters, NEW j \in 0 .. n_blocks - 1, NEW k \in 0 .. n_blocks - 1
  PROVE  /\ data_offset \in Nat /\ meta(j) \in Nat
         /\ HEADER + k \div 8 + 1 <= meta(j)
         /\ HEADER + bitmap_bytes + k * WORD + WORD <= meta(j)
         /\ meta(j) + WORD <= block_address(k) \/ block_address(k) + block_size <= meta(j)
<1> DEFINE c == WORD + block_size
<1>1. /\ n_blocks \in Nat /\ HEADER \in Nat /\ WORD \in Nat /\ block_size \in Nat
      /\ j \in Nat /\ k \in Nat /\ j < n_blocks /\ k < n_blocks /\ c \in Nat
  BY Sizes, BlocksFit DEF Parameters
<1>2. bitmap_bytes \in Nat /\ k \div 8 + 1 <= bitmap_bytes
  BY <1>1 DEF bitmap_bytes
<1>3. /\ n_blocks * WORD \in Nat /\ j * c \in Nat /\ k * c \in Nat
      /\ k * WORD \in Nat /\ (k + 1) * WORD = k * WORD + WORD
      /\ (k + 1) * WORD <= n_blocks * WORD
  BY <1>1, Monotonic
<1>4. meta(j) = data_offset + j * c /\ block_address(k) = data_offset + WORD + k * c
  BY DEF meta, block_address
<1>5. data_offset = HEADER + bitmap_bytes + n_blocks * WORD
  BY DEF data_offset
<1>6. j <= k => j * c <= k * c
  BY <1>1, Monotonic
<1>7. k < j => (k + 1) * c <= j * c
  BY <1>1, Monotonic
<1>8. (k + 1) * c = k * c + WORD + block_size
  BY <1>1
<1>9. data_offset \in Nat
  BY <1>1, <1>2, <1>3, <1>5
<1> HIDE DEF c
<1>10. HEADER + k \div 8 + 1 <= meta(j)
  BY <1>1, <1>2, <1>3, <1>4, <1>5
<1>11. HEADER + bitmap_bytes + k * WORD + WORD <= meta(j)
  BY <1>1, <1>2, <1>3, <1>4, <1>5
<1>12. meta(j) + WORD <= block_address(k) \/ block_address(k) + block_size <= meta(j)
  BY <1>1, <1>3, <1>4, <1>6, <1>7, <1>8, <1>9
<1> QED BY <1>3, <1>4, <1>9, <1>10, <1>11, <1>12

-----------------------------------------------------------------------------
(* The words *)

(* Every word written so far is where free looks for it.                   *)
IInv ==
  /\ Parameters
  /\ i \in 0 .. n_blocks
  /\ \A j \in 0 .. i - 1 : [at |-> meta(j), word |-> META_PACK(base, j)] \in words

(* The layout of a zone does not change.                                   *)
LEMMA LayoutKept ==
  ASSUME UNCHANGED <<page_size, base, block_size>>
  PROVE  /\ Parameters => Parameters'
         /\ n_blocks' = n_blocks
         /\ \A j : meta(j)' = meta(j)
BY DEF Parameters, n_blocks, fitting, total_size, min_size, per_block, meta, data_offset,
       bitmap_bytes

(* A store that touches no word leaves them all.                           *)
LEMMA StoreKeeps ==
  ASSUME IInv, NEW at, NEW len, store(at, len),
         \A j \in 0 .. n_blocks - 1 : meta(j) + WORD <= at \/ at + len <= meta(j)
  PROVE  IInv'
<1>1. /\ i = n_blocks /\ i' = i /\ UNCHANGED <<page_size, base, block_size>>
      /\ words' = {w \in words : w.at + WORD <= at \/ at + len <= w.at}
  BY DEF store
<1>2. /\ Parameters' /\ n_blocks' = n_blocks /\ \A j : meta(j)' = meta(j)
  BY <1>1, LayoutKept DEF IInv
<1>3. ASSUME NEW j \in 0 .. i - 1
      PROVE  [at |-> meta(j), word |-> META_PACK(base, j)] \in words'
  BY <1>1 DEF IInv
<1>4. \A j \in 0 .. i' - 1 : [at |-> meta(j)', word |-> META_PACK(base, j)'] \in words'
  BY <1>1, <1>2, <1>3 DEF META_PACK
<1> QED BY <1>1, <1>2, <1>4 DEF IInv

(* IInv holds in every state of every execution.                           *)
THEOREM Inductive == Spec => []IInv
<1>1. Init => IInv
  <2> SUFFICES ASSUME Init PROVE IInv
    OBVIOUS
  <2>1. Parameters
    BY LayoutAssumption DEF Init, Parameters
  <2>2. n_blocks \in Nat /\ i = 0
    BY <2>1, BlocksFit DEF Init
  <2> QED BY <2>1, <2>2 DEF IInv
<1>2. IInv /\ [Next]_vars => IInv'
  <2> SUFFICES ASSUME IInv, [Next]_vars PROVE IInv'
    OBVIOUS
  <2>1. Parameters /\ n_blocks \in Nat /\ i \in 0 .. n_blocks
    BY BlocksFit DEF IInv
  <2>2. CASE write_meta
    <3>1. /\ i < n_blocks /\ i' = i + 1 /\ UNCHANGED <<page_size, base, block_size>>
          /\ words' = words \cup {[at |-> meta(i), word |-> META_PACK(base, i)]}
      BY <2>2 DEF write_meta
    <3>2. /\ Parameters' /\ n_blocks' = n_blocks /\ \A j : meta(j)' = meta(j)
      BY <2>1, <3>1, LayoutKept
    <3>3. ASSUME NEW j \in 0 .. i' - 1
          PROVE  [at |-> meta(j), word |-> META_PACK(base, j)] \in words'
      <4>1. j = i \/ j \in 0 .. i - 1
        BY <2>1, <3>1
      <4> QED BY <3>1, <4>1 DEF IInv
    <3>4. \A j \in 0 .. i' - 1 : [at |-> meta(j)', word |-> META_PACK(base, j)'] \in words'
      BY <3>1, <3>2, <3>3 DEF META_PACK
    <3>5. i' \in 0 .. n_blocks'
      BY <2>1, <3>1, <3>2
    <3> QED BY <3>2, <3>4, <3>5 DEF IInv
  <2>3. ASSUME NEW k \in 0 .. n_blocks - 1, mark_bit(k)
        PROVE  IInv'
    BY <2>1, <2>3, PartsApart, StoreKeeps DEF mark_bit
  <2>4. ASSUME NEW k \in 0 .. n_blocks - 1, set_requested(k)
        PROVE  IInv'
    BY <2>1, <2>4, PartsApart, StoreKeeps DEF set_requested
  <2>5. ASSUME NEW k \in 0 .. n_blocks - 1, fill_block(k)
        PROVE  IInv'
    BY <2>1, <2>5, PartsApart, StoreKeeps DEF fill_block
  <2>6. CASE UNCHANGED vars
    <3>1. i' = i /\ words' = words /\ UNCHANGED <<page_size, base, block_size>>
      BY <2>6 DEF vars
    <3>2. /\ Parameters' /\ n_blocks' = n_blocks /\ \A j : meta(j)' = meta(j)
      BY <2>1, <3>1, LayoutKept
    <3>3. \A j \in 0 .. i' - 1 : [at |-> meta(j)', word |-> META_PACK(base, j)'] \in words'
      BY <3>1, <3>2 DEF IInv, META_PACK
    <3> QED BY <2>1, <3>1, <3>2, <3>3 DEF IInv
  <2> QED BY <2>2, <2>3, <2>4, <2>5, <2>6 DEF Next
<1> QED BY <1>1, <1>2, PTL DEF Spec

(* Header, bitmap, sizes and blocks of a zone fit in its mapping.          *)
THEOREM ZoneFitsMapping == Spec => []LayoutFits
<1>1. ASSUME IInv
      PROVE  LayoutFits
  <2>1. /\ n_blocks \in Nat /\ WORD \in Nat /\ block_size \in Nat /\ HEADER \in Nat
        /\ per_block = 2 * WORD + block_size /\ total_size \in Nat
        /\ bitmap_bytes + n_blocks * per_block <= total_size - HEADER
    BY <1>1, Sizes, BlocksFit DEF IInv, Parameters
  <2>2. n_blocks * per_block = n_blocks * WORD + n_blocks * (WORD + block_size)
    BY <2>1
  <2>3. n_blocks * WORD \in Nat /\ n_blocks * (WORD + block_size) \in Nat /\ bitmap_bytes \in Nat
    BY <2>1 DEF bitmap_bytes
  <2> QED BY <2>1, <2>2, <2>3 DEF LayoutFits, data_offset
<1> QED BY <1>1, Inductive, PTL

(* A zone has the BLOCKS_PER_ZONE blocks the comment of malloc.c promises. *)
THEOREM ZoneHasEnoughBlocks == Spec => []EnoughBlocks
<1>1. IInv => EnoughBlocks
  BY BlocksFit DEF IInv, EnoughBlocks
<1> QED BY <1>1, Inductive, PTL

(* What META_PACK packs, with a zone at a page boundary, can be unpacked.  *)
LEMMA Unpacked ==
  ASSUME NEW q \in Nat, NEW n \in Nat, n <= 2047
  PROVE  LET w == META_PACK(4096 * q, n) IN
         META_IS_ZONE(w) /\ META_ZONE(w) = 4096 * q /\ META_BLOCK_NUM(w) = n
<1> DEFINE w == 4096 * q + 2048 + n
<1>1. META_PACK(4096 * q, n) = w
  BY DEF META_PACK
<1>2. w % 4096 = 2048 + n /\ w % 2048 = n /\ w \div 2048 = 2 * q + 1
  OBVIOUS
<1>3. (2 * q + 1) % 2 = 1
  OBVIOUS
<1> QED BY <1>1, <1>2, <1>3 DEF META_IS_ZONE, META_ZONE, META_BLOCK_NUM

(* Once a zone is set up, free finds zone and index of each of its blocks  *)
(* in the word in front of it, whatever has been stored since.             *)
THEOREM WordsStayIntact == Spec => []MetaIntact
<1>1. ASSUME IInv
      PROVE  MetaIntact
  <2> SUFFICES ASSUME i = n_blocks, NEW j \in 0 .. n_blocks - 1
               PROVE  \E w \in words : /\ w.at = block_address(j) - WORD
                                       /\ META_IS_ZONE(w.word)
                                       /\ META_ZONE(w.word) = base
                                       /\ META_BLOCK_NUM(w.word) = j
    BY DEF MetaIntact
  <2>1. n_blocks \in Nat /\ j \in 0 .. 2047 /\ base \in Nat /\ base % 4096 = 0
    BY <1>1, BlocksFit DEF IInv, Parameters
  <2>2. [at |-> meta(j), word |-> META_PACK(base, j)] \in words
    BY <1>1 DEF IInv
  <2>3. meta(j) = block_address(j) - WORD
    <3>1. data_offset \in Nat /\ j * (WORD + block_size) \in Int /\ WORD \in Nat
      BY <1>1, PartsApart, Sizes DEF IInv, Parameters
    <3> QED BY <3>1 DEF meta, block_address
  <2> DEFINE w == [at |-> meta(j), word |-> META_PACK(base, j)]
  <2>4. w.at = meta(j) /\ w.word = META_PACK(base, j)
    OBVIOUS
  <2>5. /\ META_IS_ZONE(META_PACK(base, j))
        /\ META_ZONE(META_PACK(base, j)) = base
        /\ META_BLOCK_NUM(META_PACK(base, j)) = j
    <3>1. base = 4096 * (base \div 4096) + (base % 4096) /\ base \div 4096 \in Nat
      BY <2>1
    <3>2. PICK q \in Nat : base = 4096 * q
      BY <2>1, <3>1
    <3> QED BY <2>1, <3>2, Unpacked
  <2> HIDE DEF w
  <2> QED BY <2>2, <2>3, <2>4, <2>5 DEF w
<1> QED BY <1>1, Inductive, PTL
=============================================================================
