------------------------------- MODULE Printf -------------------------------
(***************************************************************************)
(* One call of ft_printf of src/printf, the writer behind the allocator's  *)
(* DBG lines.  A character is a string of length one, a text a sequence of *)
(* them; NUL ends every C string.                                          *)
(*                                                                         *)
(* A call is a sequence of pieces: literal characters and directives with  *)
(* the argument each is given.  ft_printf sees only the concatenated       *)
(* format and the arguments in order.                                      *)
(***************************************************************************)
EXTENDS Powers, Sequences, SequencesExt, FiniteSetsExt

CONSTANTS
  LongBits,         \* the width of long
  INT_MAX,          \* an int is narrower: INT_MAX = 2^31 - 1 for 64 bits of long
  Pieces,           \* [text, type, zero, width, arg]; type "" for a literal
  MaxPieces,
  NUL

ASSUME PrintfAssumption ==
  /\ LongBits \in Nat \ {0} /\ LongBits % 4 = 0
  /\ INT_MAX \in Nat /\ 2 * INT_MAX + 1 < power(2, LongBits - 1)
  /\ MaxPieces \in Nat

VARIABLES
  call,             \* what the caller wrote, never changed
  i,                \* the index into the format
  va,               \* the arguments va_arg has taken
  out,              \* the characters written to descriptor 1
  j                 \* the return value so far

printfVars == <<call, i, va, out, j>>

LONG_MAX == power(2, LongBits - 1) - 1
LONG_MIN == - LONG_MAX - 1

(* Signed overflow, as the build leaves it: two's complement.              *)
as_int(n) == ((n + INT_MAX + 1) % (2 * INT_MAX + 2)) - INT_MAX - 1

argument(p) == IF p.type \in {"", "%"} THEN <<>> ELSE <<p.arg>>

s == FlattenSeq([k \in DOMAIN call |-> call[k].text])

arguments == FlattenSeq([k \in DOMAIN call |-> argument(call[k])])

at(k) == IF k <= Len(s) THEN s[k] ELSE NUL

-----------------------------------------------------------------------------
(* Conversions: the text written and the value returned *)

decimal   == <<"0", "1", "2", "3", "4", "5", "6", "7", "8", "9">>
hex_lower == decimal \o <<"a", "b", "c", "d", "e", "f">>
hex_upper == decimal \o <<"A", "B", "C", "D", "E", "F">>

written(text, ret) == [text |-> text, ret |-> ret]

(* Mutant: a number equal to the base is taken to have one digit.          *)
ft_numlen_base_strict(n, base) ==
  LET len[m \in Nat] == IF m > base THEN 1 + len[m \div base] ELSE 1 IN len[n]

ft_numlen_base(n, base) ==
  LET len[m \in Nat] == IF m >= base THEN 1 + len[m \div base] ELSE 1 IN len[n]

(* The digits ft_putnbr_base and ft_puthex write for a number that is not  *)
(* negative: those of n / base first, then base[n % base].                 *)
digits_of(n, base) ==
  LET put[m \in Nat] ==
        (IF m >= Len(base) THEN put[m \div Len(base)] ELSE <<>>)
          \o <<base[(m % Len(base)) + 1]>>
  IN  put[n]

(* The literal for LLONG_MIN is the text of -LLONG_MAX.                    *)
ft_putnbr_base(n, base) ==
  IF n = LONG_MIN
  THEN LET text == <<"-">> \o digits_of(LONG_MAX, decimal) IN written(text, Len(text))
  ELSE LET m == IF n < 0 THEN -n ELSE n
           sign == IF n < 0 THEN <<"-">> ELSE <<>>
       IN  written(sign \o digits_of(m, base), Len(sign) + ft_numlen_base(m, Len(base)))

ft_puthex(n, base) == written(digits_of(n, base), ft_numlen_base(n, 16))

(* The two literals are those of the word's extreme values.                *)
ft_putpointer(n) ==
  LET literal(first, rest) ==
        <<"0", "x", first>> \o [k \in 1 .. LongBits \div 4 - 1 |-> rest]
      hex == ft_puthex(n, hex_lower)
  IN  CASE n = LONG_MAX + 1 -> written(literal("8", "0"), 2 + LongBits \div 4)
        [] n = LONG_MAX     -> written(literal("7", "f"), 2 + LongBits \div 4)
        [] OTHER            -> written(<<"0", "x">> \o hex.text, hex.ret + 2)

ft_putstr(str) ==
  IF str = NUL THEN written(<<"(", "n", "u", "l", "l", ")">>, 6)
  ELSE written(str, Len(str))

ft_putchar(c) == written(<<c>>, 1)

put_padded_hex(f, n) ==
  LET base == IF f.type = "x" THEN hex_lower ELSE hex_upper
      len == ft_numlen_base(n, 16)
      pad == IF f.zero /\ len < f.width THEN f.width - len ELSE 0
  IN  written([k \in 1 .. pad |-> "0"] \o ft_puthex(n, base).text, len + pad)

(* A size_t becomes the long int parameter of ft_putnbr_base.              *)
to_long(n) == IF n > LONG_MAX THEN n - power(2, LongBits) ELSE n

ft_flagcheck(f, arg) ==
  CASE f.type \in {"d", "i", "u"} -> ft_putnbr_base(arg, decimal)
    [] f.type = "c"               -> ft_putchar(arg)
    [] f.type = "s"               -> ft_putstr(arg)
    [] f.type \in {"x", "X"}      -> put_padded_hex(f, arg)
    [] f.type = "p"               -> ft_putpointer(arg)
    [] f.type = "z"               -> ft_putnbr_base(to_long(arg), decimal)
    [] f.type = "%"               -> ft_putchar("%")
    [] OTHER                      -> written(<<>>, 0)

-----------------------------------------------------------------------------
(* parse_format, from the % at index k.  The loop over the width stops at  *)
(* every character that is not 1 to 9, at a 0 too; width is an int.  next  *)
(* is the index parse_format leaves behind.                                *)

width_digit(c) == \E n \in 1 .. 9 : c = decimal[n + 1]

digit_value(c) == CHOOSE n \in 0 .. 9 : decimal[n + 1] = c

width_of(first, stop) ==
  LET width[m \in 0 .. stop - first] ==
        IF m = 0 THEN 0 ELSE as_int(width[m - 1] * 10 + digit_value(at(first + m - 1)))
  IN  width[stop - first]

format_from(k) ==
  LET zero == at(k + 1) = "0"
      first == IF zero THEN k + 2 ELSE k + 1
      stop == Min({m \in first .. Len(s) + 1 : ~width_digit(at(m))})
  IN  [zero |-> zero, width |-> width_of(first, stop), type |-> at(stop), next |-> stop]

(* Mutant: the character after z is not skipped.                           *)
parse_format_z_alone(k) == format_from(k)

(* Mutant: a character is skipped after every type.                        *)
parse_format_skips(k) == [format_from(k) EXCEPT !.next = @ + 1]

parse_format(k) ==
  LET f == format_from(k) IN
  IF f.type = "z" THEN [f EXCEPT !.next = @ + 1] ELSE f

-----------------------------------------------------------------------------
(* ft_printf.  Its index is an int: a format is no longer than INT_MAX.    *)

PrintfInit ==
  /\ call \in UNION {[1 .. n -> Pieces] : n \in 0 .. MaxPieces}
  /\ Len(s) <= INT_MAX
  /\ i = 1
  /\ va = 0
  /\ out = <<>>
  /\ j = 0

(* j is an int, and so is each w.ret: wrapping the sum covers both.        *)
write(w) ==
  /\ out' = out \o w.text
  /\ j' = as_int(j + w.ret)

directive ==
  /\ at(i) = "%"
  /\ LET f == parse_format(i)
         takes == f.type \in {"d", "i", "c", "s", "u", "x", "X", "p", "z"}
     IN  /\ write(ft_flagcheck(f, IF takes THEN arguments[va + 1] ELSE NUL))
         /\ va' = IF takes THEN va + 1 ELSE va
         /\ i' = f.next + 1
  /\ UNCHANGED call

plain ==
  /\ at(i) \notin {"%", NUL}
  /\ write(ft_putchar(at(i)))
  /\ i' = i + 1
  /\ UNCHANGED <<call, va>>

PrintfNext == directive \/ plain

PrintfSpec == PrintfInit /\ [][PrintfNext]_printfVars

-----------------------------------------------------------------------------
(* What the caller means, said without the format: a number is written in  *)
(* as few digits as it needs, each given by its power of the base.         *)

Numeral(n, base) ==
  LET len == CHOOSE k \in 1 .. LongBits :
               n < power(Len(base), k) /\ (k > 1 => n >= power(Len(base), k - 1)) IN
  [k \in 1 .. len |-> base[((n \div power(Len(base), len - k)) % Len(base)) + 1]]

(* The directives a caller writes: a width is an int and has no digit 0,   *)
(* since parse_format ends it there; an argument fills its type.           *)
Directive(p) ==
  /\ p.type \in {"d", "i", "u", "c", "s", "x", "X", "p", "z", "%"}
  /\ p.zero \in BOOLEAN /\ p.width \in 0 .. INT_MAX
  /\ LET width == IF p.width = 0 THEN <<>> ELSE Numeral(p.width, decimal)
     IN  /\ \A k \in DOMAIN width : width[k] # "0"
         /\ p.text = <<"%">> \o (IF p.zero THEN <<"0">> ELSE <<>>) \o width
                       \o (IF p.type = "z" THEN <<"z", "u">> ELSE <<p.type>>)
  /\ p.type \in {"d", "i"} => p.arg \in - INT_MAX - 1 .. INT_MAX
  /\ p.type \in {"u", "x", "X"} => p.arg \in 0 .. 2 * INT_MAX + 1
  /\ p.type \in {"p", "z"} => p.arg \in 0 .. 2 * LONG_MAX + 1
  /\ p.type = "c" => p.arg \in STRING
  /\ p.type = "s" => p.arg = NUL \/ p.arg \in Seq(STRING)

Literal(p) ==
  p.type = "" /\ p.text \in Seq(STRING) /\ Len(p.text) = 1 /\ p.text[1] \notin {"%", NUL}

ASSUME PiecesAssumption ==
  NUL # "%" /\ \A p \in Pieces : Literal(p) \/ Directive(p)

Padded(text, width) ==
  [k \in 1 .. Max({0, width - Len(text)}) |-> "0"] \o text

Meaning(p) ==
  CASE p.type = ""           -> p.text
    [] p.type = "%"          -> <<"%">>
    [] p.type = "c"          -> <<p.arg>>
    [] p.type = "s"          -> IF p.arg = NUL THEN <<"(", "n", "u", "l", "l", ")">> ELSE p.arg
    [] p.type = "p"          -> <<"0", "x">> \o Numeral(p.arg, hex_lower)
    [] p.type \in {"x", "X"} ->
         Padded(Numeral(p.arg, IF p.type = "x" THEN hex_lower ELSE hex_upper),
                IF p.zero THEN p.width ELSE 0)
    [] OTHER                 ->
         IF p.arg < 0 THEN <<"-">> \o Numeral(- p.arg, decimal) ELSE Numeral(p.arg, decimal)

(* The loop over a format of complete directives ends on its terminator:   *)
(* parse_format and the increments of ft_printf never step over it, and    *)
(* no directive takes an argument the caller did not pass.                 *)
StaysInFormat ==
  /\ i <= Len(s) + 1
  /\ va <= Len(arguments)

(* ft_printf returns the number of characters it wrote, as far as an int   *)
(* can say it, whatever the conversions: each of them counts with          *)
(* ft_numlen_base what it writes with ft_putnbr_base.                      *)
ReturnCountsOutput == Len(out) <= INT_MAX => j = Len(out)

(* When the call returns, it has written the meaning of each of its pieces *)
(* in order.  Sizes above LONG_MAX, which ft_putnbr_base takes for         *)
(* negative numbers, are excepted.                                         *)
WritesWhatWasMeant ==
  (at(i) = NUL /\ \A k \in DOMAIN call : call[k].type = "z" => call[k].arg <= LONG_MAX) =>
    out = FlattenSeq([k \in DOMAIN call |-> Meaning(call[k])])
=============================================================================
