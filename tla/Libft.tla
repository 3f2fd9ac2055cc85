------------------------------- MODULE Libft --------------------------------
(***************************************************************************)
(* Functions of src/libft as operators.                                    *)
(*                                                                         *)
(* A character is its byte, 0 to 255, and 0 ends a C string; a string is   *)
(* the sequence of the bytes in front of its 0, C index k at k + 1.  A     *)
(* buffer is a function from indices to bytes whose domain is what was     *)
(* allocated, until a store outside makes it larger.  UNINIT is the        *)
(* content of memory malloc returned and nobody wrote.                     *)
(***************************************************************************)
EXTENDS Powers, Sequences, SequencesExt, FiniteSetsExt

CONSTANTS
  IntBits,          \* the width of int; 2^(IntBits - 1) ends in 8, as 2^31 does
  NULL, UNINIT

ASSUME LibftAssumption ==
  /\ IntBits \in Nat \ {0}
  /\ power(2, IntBits - 1) % 10 = 8 /\ power(2, IntBits - 1) > 10
  /\ NULL \notin Int /\ UNINIT \notin Int

INT_MIN == - power(2, IntBits - 1)

(* Signed overflow, as the build leaves it: two's complement.              *)
to_int(n) == ((n - INT_MIN) % power(2, IntBits)) + INT_MIN

(* The value of a plain char, signed on the build's machines.              *)
char(b) == IF b < 128 THEN b ELSE b - 256

(* s[k] of a C string *)
byte(s, k) == IF k < Len(s) THEN s[k + 1] ELSE 0

(* What malloc returns when it does not fail.                              *)
malloc(n) == [k \in 0 .. n - 1 |-> UNINIT]

(* Stores of text from index at; one outside the allocation also leaves    *)
(* the index OVERRUN in the domain.                                        *)
OVERRUN == -1

Store(mem, at, text) ==
  LET stored == at .. at + Len(text) - 1
      overrun == IF stored \subseteq DOMAIN mem THEN {} ELSE {OVERRUN}
  IN  [k \in DOMAIN mem \cup stored \cup overrun |->
         IF k \in stored THEN text[k - at + 1]
         ELSE IF k \in DOMAIN mem THEN mem[k] ELSE UNINIT]

-----------------------------------------------------------------------------
(* Buffers *)

ft_strlen(mem) == Min({k \in DOMAIN mem : mem[k] = 0})

string_in(mem) == [k \in 1 .. ft_strlen(mem) |-> mem[k - 1]]

ft_memset(mem, at, c, len) == Store(mem, at, [k \in 1 .. len |-> c % 256])

ft_bzero(mem, len) == ft_memset(mem, 0, 0, len)

(* The bytes go one by one from the first: a byte read may be one written. *)
ft_memcpy(mem, dst, src, n) ==
  LET copied[k \in 0 .. n] ==
        IF k = 0 THEN mem
        ELSE [copied[k - 1] EXCEPT ![dst + k - 1] = copied[k - 1][src + k - 1]]
  IN  copied[n]

ft_memmove(mem, dst, src, len) ==
  LET from[k \in 0 .. len] ==
        IF k = len THEN mem
        ELSE [from[k + 1] EXCEPT ![dst + k] = from[k + 1][src + k]]
  IN  IF dst < src THEN ft_memcpy(mem, dst, src, len) ELSE from[0]

ft_strlcpy(mem, src, dstsize) ==
  IF dstsize = 0 THEN [mem |-> mem, ret |-> Len(src)]
  ELSE [mem |-> Store(mem, 0, SubSeq(src, 1, Min({dstsize - 1, Len(src)})) \o <<0>>),
        ret |-> Len(src)]

(* Mutant: the space left is computed without what dest holds.             *)
ft_strlcat_full_size(mem, src, dstsize) ==
  LET i == ft_strlen(mem)
      copied == Min({Len(src), Max({0, dstsize - 1})})
  IN  [mem |-> Store(mem, i, SubSeq(src, 1, copied) \o <<0>>),
       ret |-> Len(src) + Min({dstsize, i})]

ft_strlcat(mem, src, dstsize) ==
  LET i == ft_strlen(mem)
      copied == Min({Len(src), Max({0, dstsize - 1 - i})})
  IN  [mem |-> Store(mem, i, SubSeq(src, 1, copied) \o <<0>>),
       ret |-> Len(src) + Min({dstsize, i})]

-----------------------------------------------------------------------------
(* Strings from malloc.  Each calls malloc once and returns the buffer, or *)
(* NULL when that malloc is refused.                                       *)

(* For a start up to Len(s): beyond it, s + start is outside the string    *)
(* that ft_strlen and ft_strlcpy are then given.                           *)
ft_substr(s, start, len, refused) ==
  LET rest == SubSeq(s, start + 1, Len(s))
      fits == Min({len, Len(rest)})
  IN  IF refused THEN NULL ELSE ft_strlcpy(malloc(fits + 1), rest, fits + 1).mem

ft_calloc(count, size, refused) ==
  IF refused THEN NULL ELSE ft_bzero(malloc(count * size), count * size)

ft_strdup(s, refused) ==
  LET p == ft_calloc(1, Len(s) + 1, refused) IN
  IF s = <<>> \/ refused THEN p ELSE ft_strlcpy(p, s, Len(s) + 1).mem

ft_strjoin(s1, s2, refused) ==
  LET len == Len(s1) + Len(s2) IN
  IF refused THEN NULL
  ELSE ft_strlcat(ft_strlcpy(malloc(len + 1), s1, len + 1).mem, s2, len + 1).mem

(* f is called with the index and the character.                           *)
ft_strmapi(s, f, refused) ==
  IF refused THEN NULL
  ELSE Store(malloc(Len(s) + 1), 0, [k \in DOMAIN s |-> f[k - 1][s[k]]] \o <<0>>)

(* f may store through its pointer; the loop looks at a character before f *)
(* does.                                                                   *)
ft_striteri(mem, f) ==
  LET from[k \in 0 .. ft_strlen(mem)] ==
        IF mem[k] = 0 THEN mem ELSE Store(from[k + 1], k, <<f[k][mem[k]]>>)
  IN  from[0]

(* ft_strchr compares the plain char with an unsigned one, so no byte from *)
(* 128 on is ever found.                                                   *)
ft_strchr(s, c) ==
  LET found == {k \in 0 .. Len(s) : char(byte(s, k)) = c % 256} IN
  IF found = {} THEN NULL ELSE Min(found)

ft_strrchr(s, c) ==
  LET found == {k \in 0 .. Len(s) - 1 : char(s[k + 1]) = c % 256} IN
  IF c = 0 THEN Len(s) ELSE IF found = {} THEN NULL ELSE Max(found)

(* The loops give up in the middle of s1: from the left after len / 2,     *)
(* from the right before it.                                               *)
ft_strtrim(s1, set, refused) ==
  LET len == Len(s1)
      keep(k) == ft_strchr(set, byte(s1, k)) = NULL
      i == Min({k \in 0 .. len \div 2 : keep(k)} \cup {len \div 2 + 1})
      j == Max({k \in len \div 2 .. len - 1 : keep(k)} \cup {len \div 2 - 1})
  IN  IF i > j THEN ft_strdup(<<>>, refused) ELSE ft_substr(s1, i, j - i + 1, refused)

(* Mutant: a separator at the end starts another word.                     *)
ft_countchr_trailing(s, c) ==
  1 + Cardinality({k \in DOMAIN s : s[k] = c})

(* Where a loop from p over the characters that are not c, or that are c,  *)
(* comes to its end.                                                       *)
word_end(s, c, p)      == Min({k \in p .. Len(s) : k = Len(s) \/ s[k + 1] = c})
separator_end(s, c, p) == Min({k \in p .. Len(s) : k = Len(s) \/ s[k + 1] # c})

(* Skip separators, count a word unless the string ended, skip the word.   *)
ft_countchr(s, c) ==
  LET count[p \in 0 .. Len(s)] ==
        LET word == separator_end(s, c, p) IN
        IF word = Len(s) THEN 0 ELSE 1 + count[word_end(s, c, word)]
  IN  count[0]

(* The pointers stored in ret, up to the final 0.  fails has the mallocs   *)
(* that are refused: the first, 0, is for ret itself, and a word's leaves  *)
(* NULL in its place.  free_memory frees nothing: it is guarded by         *)
(* array == NULL.                                                          *)
ft_split(s, c, fails) ==
  LET from[p \in 0 .. Len(s)] ==
        IF p = Len(s) THEN <<>>
        ELSE IF s[p + 1] = c THEN from[p + 1]
        ELSE LET len == word_end(s, c, p) - p
             IN  <<string_in(ft_substr(s, p, len, FALSE))>> \o from[p + len]
      words == from[0]
  IN  IF 0 \in fails THEN NULL
      ELSE [k \in DOMAIN words |-> IF k \in fails THEN NULL ELSE words[k]]

-----------------------------------------------------------------------------
(* Numbers.  C's division rounds towards 0. *)

quotient(n, base) == IF n < 0 THEN -((-n) \div base) ELSE n \div base

ft_numlen(n, base) ==
  LET count[m \in INT_MIN .. - INT_MIN] ==
        IF m = 0 THEN 0 ELSE 1 + count[quotient(m, base)]
  IN  (IF n <= 0 THEN 1 ELSE 0) + count[n]

(* Digits from index len - 1 downwards, until nothing is left of num.      *)
ft_numstorage(len, num, array) ==
  LET digits[m \in Nat] ==
        IF m = 0 THEN <<>> ELSE digits[m \div 10] \o <<(m % 10) + 48>>
  IN  Store(array, len - Len(digits[num]), digits[num])

(* Mutant: INT_MIN is negated like every other number.                     *)
ft_itoa_no_min(n, refused) ==
  LET len_n == ft_numlen(n, 10)
      array == Store(malloc(len_n + 1), len_n, <<0>>)
      signed == IF n < 0 THEN Store(array, 0, <<45>>) ELSE array
      m == IF n < 0 THEN to_int(-n) ELSE n
  IN  IF refused THEN NULL ELSE IF m < 0 THEN signed ELSE
      ft_numstorage(len_n, m, IF m = 0 THEN Store(signed, 0, <<48>>) ELSE signed)

ft_itoa(n, refused) ==
  LET len_n == ft_numlen(n, 10)
      array == Store(malloc(len_n + 1), len_n, <<0>>)
      signed == IF n < 0 THEN Store(array, 0, <<45>>) ELSE array
      last == IF n = INT_MIN THEN Store(signed, len_n - 1, <<56>>) ELSE signed
      len == IF n = INT_MIN THEN len_n - 1 ELSE len_n
      rest == IF n = INT_MIN THEN quotient(n, 10) ELSE n
      m == IF n < 0 THEN - rest ELSE rest
  IN  IF refused THEN NULL
      ELSE ft_numstorage(len, m, IF m = 0 THEN Store(last, 0, <<48>>) ELSE last)

(* Any one character in front of the digits is skipped, not only a sign;   *)
(* for a string of spaces alone that is the 0, and what follows is not     *)
(* known: such strings are outside this operator.                          *)
ft_atoi(s) ==
  LET space == {9, 10, 11, 12, 13, 32}
      letter == 65 .. 90 \cup 97 .. 122 \cup {27}
      digit == 48 .. 57
      p == Min({k \in 0 .. Len(s) : byte(s, k) \notin space})
      q == IF byte(s, p) \in digit THEN p ELSE p + 1
      stop == Min({k \in q .. Len(s) + 1 : byte(s, k) \notin digit})
      temp[k \in q .. stop] ==
        IF k = q THEN 0 ELSE to_int(to_int(temp[k - 1] * 10) + byte(s, k - 1) - 48)
  IN  IF byte(s, p) \in letter THEN 0
      ELSE IF byte(s, p) = 45 THEN to_int(- temp[stop]) ELSE temp[stop]

(* What ft_putnbr_fd writes: the digits in front of the last one by a call *)
(* of itself.                                                              *)
ft_putnbr_fd(n) ==
  LET put[m \in INT_MIN .. - INT_MIN - 1] ==
        LET sign  == IF m < 0 THEN -1 ELSE 1
            front == quotient(m, 10)
        IN  (IF m < 0 THEN <<45>> ELSE <<>>)
            \o (IF front # 0 THEN put[to_int(front * sign)] ELSE <<>>)
            \o <<48 + (m - 10 * front) * sign>>
  IN  put[n]

-----------------------------------------------------------------------------
(* Characters.  An int becomes an unsigned char before it is classified,   *)
(* except by ft_isascii.                                                   *)

ft_isalpha(chr) == chr % 256 \in 65 .. 90 \cup 97 .. 122

ft_isdigit(chr) == chr % 256 \in 48 .. 57

ft_isalnum(chr) == ft_isalpha(chr % 256) \/ ft_isdigit(chr % 256)

ft_isprint(chr) == chr % 256 \in 32 .. 126

ft_isascii(c) == c \in 0 .. 127

ft_toupper(c) == IF c \in 97 .. 122 THEN c - 32 ELSE c

ft_tolower(c) == IF c \in 65 .. 90 THEN c + 32 ELSE c

-----------------------------------------------------------------------------
(* Searching and comparing.  A pointer into s is its index. *)

ft_memchr(s, c, n) ==
  LET found == {k \in 0 .. n - 1 : s[k + 1] = c % 256} IN
  IF found = {} THEN NULL ELSE Min(found)

(* Mutant: the match may end past len.                                     *)
ft_strnstr_past_len(haystack, needle, len) ==
  LET matches(i) == \A j \in 0 .. Len(needle) - 1 : byte(haystack, i + j) = byte(needle, j)
      found == {i \in 0 .. Min({len, Len(haystack)}) - 1 : matches(i)}
  IN  IF needle = <<>> THEN 0 ELSE IF found = {} THEN NULL ELSE Min(found)

(* From each i the inner loop runs to the first j at which it must stop;   *)
(* i matches when that is the end of needle.                               *)
ft_strnstr(haystack, needle, len) ==
  LET stops(i, j) == \/ j = Len(needle)
                     \/ i + j >= Min({len, Len(haystack)})
                     \/ byte(haystack, i + j) # byte(needle, j)
      reached(i) == Min({j \in 0 .. Len(needle) : stops(i, j)})
      found == {i \in 0 .. Min({len, Len(haystack)}) - 1 : reached(i) = Len(needle)}
  IN  IF needle = <<>> THEN 0 ELSE IF found = {} THEN NULL ELSE Min(found)

ft_strncmp(s1, s2, n) ==
  LET end == Min({n, Max({Len(s1), Len(s2)})})
      differ == {k \in 0 .. end - 1 : byte(s1, k) # byte(s2, k)}
  IN  IF differ = {} THEN 0 ELSE byte(s1, Min(differ)) - byte(s2, Min(differ))

ft_memcmp(s1, s2, n) ==
  LET differ == {k \in 1 .. n : s1[k] # s2[k]} IN
  IF differ = {} THEN 0 ELSE s1[Min(differ)] - s2[Min(differ)]
=============================================================================
