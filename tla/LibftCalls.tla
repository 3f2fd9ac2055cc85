----------------------------- MODULE LibftCalls -----------------------------
(***************************************************************************)
(* Three programs that use src/libft.  The buffer program keeps a string   *)
(* in one buffer of Cap bytes and works on it with the copying functions,  *)
(* passing sizes up to Cap, in any order.  The strings program calls the   *)
(* string, character and number functions with every argument of a small   *)
(* set.  The lists program is that of LibftLists.                          *)
(***************************************************************************)
EXTENDS Libft, LibftLists

CONSTANTS
  Cap,
  BufferBytes, MaxSrc,  \* the characters and length of what is copied to the buffer
  Bytes, MaxLen,        \* the characters and length of the other strings
  MaxFails              \* the mallocs of a ft_split that may fail: 0 to MaxFails

ASSUME CallsAssumption ==
  /\ Cap \in Nat \ {0} /\ MaxSrc \in Nat /\ MaxLen \in Nat /\ MaxFails \in Nat
  /\ BufferBytes \subseteq 1 .. 255 /\ Bytes \subseteq 1 .. 255
  /\ {MaxLen, MaxNodes} \subseteq 0 .. - INT_MIN - 1   \* counted in an int

VARIABLES
  program,          \* "buffer", "strings" or "lists"
  mem,              \* the buffer
  last              \* the call that has just returned, if any, and its result

callVars == <<program, mem, last>>
vars == <<callVars, listVars>>

Seqs(S, n) == UNION {[1 .. k -> S] : k \in 0 .. n}

Strings(n) == Seqs(Bytes, n)

Ints == INT_MIN .. - INT_MIN - 1

Init ==
  /\ program \in {"buffer", "strings", "lists"}
  /\ mem = ft_calloc(1, Cap, FALSE)
  /\ last = [op |-> "none"]
  /\ ListsInit

-----------------------------------------------------------------------------
(* The buffer program.  It passes a string to a function that expects one. *)

is_string == \E k \in DOMAIN mem : mem[k] = 0

strlcpy(src, size) ==
  LET r == ft_strlcpy(mem, src, size) IN
  /\ program = "buffer"
  /\ mem' = r.mem
  /\ last' = [op |-> "strlcpy", before |-> mem, src |-> src, size |-> size, ret |-> r.ret]
  /\ UNCHANGED program

strlcat(src, size) ==
  LET r == ft_strlcat(mem, src, size) IN
  /\ program = "buffer"
  /\ is_string
  /\ mem' = r.mem
  /\ last' = [op |-> "strlcat", before |-> mem, src |-> src, size |-> size, ret |-> r.ret]
  /\ UNCHANGED program

memmove(dst, src, len) ==
  /\ program = "buffer"
  /\ mem' = ft_memmove(mem, dst, src, len)
  /\ last' = [op |-> "memmove", before |-> mem, dst |-> dst, src |-> src, len |-> len]
  /\ UNCHANGED program

memset(at, c, len) ==
  /\ program = "buffer"
  /\ mem' = ft_memset(mem, at, c, len)
  /\ last' = [op |-> "memset"]
  /\ UNCHANGED program

-----------------------------------------------------------------------------
(* The strings program.  Every malloc may be refused.                      *)

idle == program = "strings" /\ last.op = "none"

split ==
  /\ idle
  /\ \E s \in Strings(MaxLen), c \in Bytes, fails \in SUBSET (0 .. MaxFails) :
       last' = [op |-> "split", s |-> s, c |-> c, fails |-> fails,
                space |-> ft_countchr(s, c) + 1, result |-> ft_split(s, c, fails)]
  /\ UNCHANGED <<program, mem>>

strtrim ==
  /\ idle
  /\ \E s \in Strings(MaxLen), set \in Strings(1), refused \in BOOLEAN :
       last' = [op |-> "strtrim", s |-> s, set |-> set, refused |-> refused,
                result |-> ft_strtrim(s, set, refused)]
  /\ UNCHANGED <<program, mem>>

(* The program starts inside the string, or at its end.                    *)
substr ==
  /\ idle
  /\ \E s \in Strings(3), start \in 0 .. 3, len \in 0 .. 4, refused \in BOOLEAN :
       /\ start <= Len(s)
       /\ last' = [op |-> "substr", wanted |-> SubSeq(s, start + 1, Min({start + len, Len(s)})),
                   refused |-> refused, result |-> ft_substr(s, start, len, refused)]
  /\ UNCHANGED <<program, mem>>

strdup ==
  /\ idle
  /\ \E s \in Strings(3), refused \in BOOLEAN :
       last' = [op |-> "strdup", wanted |-> s, refused |-> refused,
                result |-> ft_strdup(s, refused)]
  /\ UNCHANGED <<program, mem>>

strjoin ==
  /\ idle
  /\ \E s1, s2 \in Strings(3), refused \in BOOLEAN :
       last' = [op |-> "strjoin", wanted |-> s1 \o s2, refused |-> refused,
                result |-> ft_strjoin(s1, s2, refused)]
  /\ UNCHANGED <<program, mem>>

(* A function that tells positions and characters apart.                   *)
callback == [k \in 0 .. 2 |-> [c \in Bytes |-> ((c + k) % 128) + 1]]

strmapi ==
  /\ idle
  /\ \E s \in Strings(3), refused \in BOOLEAN :
       last' = [op |-> "strmapi", wanted |-> [k \in DOMAIN s |-> callback[k - 1][s[k]]],
                refused |-> refused, result |-> ft_strmapi(s, callback, refused)]
  /\ UNCHANGED <<program, mem>>

(* On a copy the program has got.                                          *)
striteri ==
  /\ idle
  /\ \E s \in Strings(3) :
       last' = [op |-> "striteri", wanted |-> [k \in DOMAIN s |-> callback[k - 1][s[k]]],
                refused |-> FALSE, result |-> ft_striteri(ft_strdup(s, FALSE), callback)]
  /\ UNCHANGED <<program, mem>>

(* Any int a program may pass: a plain char, an unsigned one or EOF.       *)
classify ==
  /\ idle
  /\ \E c \in -128 .. 255 : last' = [op |-> "classify", c |-> c]
  /\ UNCHANGED <<program, mem>>

(* Numbers written and, if there is a text, read back behind spaces.       *)
itoa ==
  /\ idle
  /\ \E n \in Ints, spaces \in {<<>>, <<32>>, <<9, 10>>}, refused \in BOOLEAN :
       LET text == ft_itoa(n, refused) IN
       last' = [op |-> "itoa", n |-> n, refused |-> refused, text |-> text,
                put |-> ft_putnbr_fd(n),
                back |-> IF refused THEN NULL ELSE ft_atoi(spaces \o string_in(text))]
  /\ UNCHANGED <<program, mem>>

strnstr ==
  /\ idle
  /\ \E s \in Strings(4), needle \in Strings(3), len \in 0 .. 5 :
       last' = [op |-> "strnstr", s |-> s, needle |-> needle, len |-> len,
                result |-> ft_strnstr(s, needle, len)]
  /\ UNCHANGED <<program, mem>>

strncmp ==
  /\ idle
  /\ \E s1, s2 \in Strings(3), n \in 0 .. 4 :
       last' = [op |-> "strncmp", s1 |-> s1, s2 |-> s2, n |-> n,
                result |-> ft_strncmp(s1, s2, n)]
  /\ UNCHANGED <<program, mem>>

memcmp ==
  /\ idle
  /\ \E s1, s2 \in Strings(3) :
       \E n \in 0 .. Min({Len(s1), Len(s2)}) :
         last' = [op |-> "memcmp", s1 |-> s1, s2 |-> s2, n |-> n,
                  result |-> ft_memcmp(s1, s2, n)]
  /\ UNCHANGED <<program, mem>>

search ==
  /\ idle
  /\ \E s \in Strings(MaxLen), c \in Bytes \cup {0} :
       last' = [op |-> "search", s |-> s, c |-> c,
                first |-> ft_strchr(s, c), final |-> ft_strrchr(s, c),
                mem |-> ft_memchr(s, c, Len(s))]
  /\ UNCHANGED <<program, mem>>

(* The program is done with the result.                                    *)
proceed ==
  /\ program = "strings" /\ ~idle
  /\ last' = [op |-> "none"]
  /\ UNCHANGED <<program, mem>>

buffer_call ==
  \/ \E src \in Seqs(BufferBytes, MaxSrc), size \in 0 .. Cap :
       strlcpy(src, size) \/ strlcat(src, size)
  \/ \E dst, src \in 0 .. Cap - 1 :
       \E len \in 0 .. Cap - Max({dst, src}) : memmove(dst, src, len)
  \/ \E at \in 0 .. Cap - 1, c \in BufferBytes \cup {256} :
       \E len \in 0 .. Cap - at : memset(at, c, len)

strings_call ==
  \/ strmapi \/ striteri \/ classify \/ split \/ strtrim \/ substr \/ strdup \/ strjoin \/ itoa
  \/ strnstr \/ strncmp \/ memcmp \/ search

Next ==
  \/ (buffer_call \/ strings_call \/ proceed) /\ UNCHANGED listVars
  \/ program = "lists" /\ ListsNext /\ UNCHANGED callVars

Spec == Init /\ [][Next]_vars

-----------------------------------------------------------------------------
(* No function stores past the buffer when it is told at most its size,    *)
(* not even the 0 it ends with.                                            *)
StaysInBuffer == DOMAIN mem = 0 .. Cap - 1

(* Together ft_strlcpy and ft_strlcat keep their contract: the buffer      *)
(* holds as much of what the caller wanted as dstsize allows, ends in a 0, *)
(* is untouched from dstsize on, and a return value of dstsize or more     *)
(* says that something was cut off.                                        *)
CutsAtSize ==
  last.op \in {"strlcpy", "strlcat"} =>
    LET old == IF last.op = "strlcat" THEN string_in(last.before) ELSE <<>>
        wanted == old \o last.src
        skipped == last.size = 0 \/ last.size <= Len(old)
    IN  /\ \A k \in last.size .. Cap - 1 : mem[k] = last.before[k]
        /\ skipped => mem = last.before
        /\ ~skipped => /\ is_string
                       /\ string_in(mem) = SubSeq(wanted, 1, Min({last.size - 1, Len(wanted)}))
                       /\ last.ret >= last.size <=> string_in(mem) # wanted

(* ft_memmove moves as if through a copy, however the two areas overlap.   *)
MovesAsIfCopied ==
  last.op = "memmove" =>
    mem = Store(last.before, last.dst,
                [k \in 1 .. last.len |-> last.before[last.src + k - 1]])

(* The longest stretches of s without c, from left to right.               *)
Fields(s, c) ==
  LET begins == {k \in DOMAIN s : s[k] # c /\ (k > 1 => s[k - 1] = c)}
      end(k) == Min({e \in k .. Len(s) : e = Len(s) \/ s[e + 1] = c})
      order == CHOOSE o \in [1 .. Cardinality(begins) -> begins] :
                 \A m, n \in DOMAIN o : m < n => o[m] < o[n]
  IN  [n \in DOMAIN order |-> SubSeq(s, order[n], end(order[n]))]

(* ft_split returns the fields of the string in order, with NULL for each  *)
(* field whose malloc was refused, unless the array itself was refused;    *)
(* what it stores in the array and the 0 behind it fill exactly what       *)
(* ft_countchr asked for.                                                  *)
SplitsIntoFields ==
  last.op = "split" =>
    IF 0 \in last.fails THEN last.result = NULL
    ELSE LET fields == Fields(last.s, last.c) IN
         /\ last.result = [k \in DOMAIN fields |-> IF k \in last.fails THEN NULL ELSE fields[k]]
         /\ Len(last.result) + 1 = last.space

(* ft_strtrim returns the string without the characters of set at either   *)
(* end, provided neither run reaches past the middle: its loops stop       *)
(* there.  It never cuts off anything else, nor a character from 128 on,   *)
(* which ft_strchr cannot find in set.  It returns NULL if its malloc was  *)
(* refused.                                                                *)
TrimsToTheMiddle ==
  last.op = "strtrim" =>
    IF last.refused THEN last.result = NULL ELSE
    LET s == last.s
        kept == {k \in DOMAIN s : s[k] \notin ToSet(last.set) \/ s[k] >= 128}
        core == IF kept = {} THEN <<>> ELSE SubSeq(s, Min(kept), Max(kept))
        to_middle == \/ kept = {}
                     \/ /\ Min(kept) - 1 <= Len(s) \div 2 + 1
                        /\ Max(kept) >= Len(s) \div 2
        result == string_in(last.result)
    IN  /\ to_middle => result = core
        /\ \E k, n \in 0 .. Len(s) : result = SubSeq(s, k + 1, Len(s) - n)
        /\ \E k, n \in 0 .. Len(result) : core = SubSeq(result, k + 1, Len(result) - n)

(* The buffers of ft_substr, ft_strdup, ft_strjoin and ft_strmapi hold the *)
(* string, its 0 and nothing else: malloc is asked for enough and not for  *)
(* more.  If it is refused they return NULL and store nothing.             *)
(* ft_striteri changes a string in place and leaves its 0 alone.           *)
AllocatesExactly ==
  last.op \in {"substr", "strdup", "strjoin", "strmapi", "striteri"} =>
    IF last.refused THEN last.result = NULL
    ELSE /\ DOMAIN last.result = 0 .. Len(last.wanted)
         /\ string_in(last.result) = last.wanted

(* Every int, INT_MIN too, is written by ft_itoa into exactly the bytes    *)
(* ft_numlen counted, none left uninitialised, written to a descriptor by  *)
(* ft_putnbr_fd with the same characters, and read back by ft_atoi, whose  *)
(* sum overflows on the way to INT_MIN.  If its malloc is refused, ft_itoa *)
(* returns NULL.                                                           *)
NumbersComeBack ==
  last.op = "itoa" =>
    IF last.refused THEN last.text = NULL
    ELSE /\ last.back = last.n
         /\ last.put = string_in(last.text)
         /\ \A k \in DOMAIN last.text : last.text[k] # UNINIT
         /\ DOMAIN last.text = 0 .. ft_strlen(last.text)

(* ft_strnstr finds the first place where needle lies in haystack and      *)
(* ends within its first len characters; ft_strchr, ft_strrchr and         *)
(* ft_memchr find the first, last and first character c, ft_strchr and     *)
(* ft_strrchr only below 128 and with the 0 as part of the string.         *)
FindsTheMatch ==
  /\ last.op = "strnstr" =>
       LET places == {k \in 0 .. Len(last.s) :
                        /\ k + Len(last.needle) <= Min({last.len, Len(last.s)})
                        /\ SubSeq(last.s, k + 1, k + Len(last.needle)) = last.needle}
       IN  last.result = IF last.needle = <<>> THEN 0
                         ELSE IF places = {} THEN NULL ELSE Min(places)
  /\ last.op = "search" =>
       LET text == last.s \o <<0>>
           places == {k \in 0 .. Len(last.s) : text[k + 1] = last.c}
           within == places \ {Len(last.s)}
       IN  /\ last.c < 128 => /\ last.first = IF places = {} THEN NULL ELSE Min(places)
                              /\ last.final = IF places = {} THEN NULL ELSE Max(places)
           /\ last.mem = IF within = {} THEN NULL ELSE Min(within)

(* ft_strncmp orders strings, and ft_memcmp memory, by the first byte in   *)
(* which they differ among the first n, a string that ends first the       *)
(* smaller.                                                                *)
OrdersByFirstDifference ==
  last.op \in {"strncmp", "memcmp"} =>
    LET a == SubSeq(last.s1, 1, Min({last.n, Len(last.s1)}))
        b == SubSeq(last.s2, 1, Min({last.n, Len(last.s2)}))
        common == Len(LongestCommonPrefix({a, b}))
        less(x, y) == x # y /\ (common = Len(x) \/ (common < Len(y) /\ x[common + 1] < y[common + 1]))
    IN  /\ (last.result = 0) <=> (a = b)
        /\ (last.result < 0) <=> less(a, b)

(* The character classes fit together for every int a program passes, also *)
(* for a plain char below 0, which is classified by its byte: what has two *)
(* cases is exactly what ft_isalpha finds among the ASCII characters, the  *)
(* changes of case undo each other and stay in the class, and every letter *)
(* and digit is printable, the space is, and nothing from 127 on.          *)
ClassesFitTogether ==
  last.op = "classify" =>
    LET c == last.c IN
    /\ ft_toupper(c) # ft_tolower(c) <=> ft_isascii(c) /\ ft_isalpha(c)
    /\ c \in {ft_toupper(ft_tolower(c)), ft_tolower(ft_toupper(c))}
    /\ ft_isalpha(c) <=> ft_isalpha(ft_toupper(c)) /\ ~ft_isdigit(c)
    /\ ft_isalnum(c) \/ c = 32 => ft_isprint(c)
    /\ ft_isprint(c) /\ c >= 0 => ft_isascii(c) /\ c # 127

(* The copying functions on one buffer keep their contracts, in any order  *)
(* of calls: StaysInBuffer, CutsAtSize, MovesAsIfCopied.                   *)
CopiesRight == StaysInBuffer /\ CutsAtSize /\ MovesAsIfCopied

(* The functions that return new strings return the right ones, in as much *)
(* memory as they need: SplitsIntoFields, TrimsToTheMiddle,                *)
(* AllocatesExactly.                                                       *)
NewStringsRight == SplitsIntoFields /\ TrimsToTheMiddle /\ AllocatesExactly

(* The functions that only look find, order and classify characters as C's *)
(* do, apart from what is said at FindsTheMatch, OrdersByFirstDifference   *)
(* and ClassesFitTogether.                                                 *)
SearchesRight == FindsTheMatch /\ OrdersByFirstDifference /\ ClassesFitTogether
=============================================================================
