------------------------------ MODULE MCPrintf ------------------------------
(* Words of 6 and 8 bits, with the values at the ends of their ranges and  *)
(* on either side of a change in the number of digits.                     *)
EXTENDS Printf

Ints      == {-32, -10, -9, -1, 0, 9, 10, 31}
Unsigned  == {0, 9, 10, 15, 16, 32, 63}
Words     == {0, 9, 10, 15, 16, 99, 100, 127, 128, 255}

Given(text, zero, width, type, args) ==
  {[text |-> text, zero |-> zero, width |-> width, type |-> type, arg |-> a] : a \in args}

MCPieces ==
  UNION {
    Given(<<"a">>, FALSE, 0, "", {NUL}),
    Given(<<"0">>, FALSE, 0, "", {NUL}),
    Given(<<"z">>, FALSE, 0, "", {NUL}),
    Given(<<"%", "%">>, FALSE, 0, "%", {NUL}),
    Given(<<"%", "c">>, FALSE, 0, "c", {"%"}),
    Given(<<"%", "s">>, FALSE, 0, "s", {NUL, <<>>, <<"%", "d">>}),
    Given(<<"%", "d">>, FALSE, 0, "d", Ints),
    Given(<<"%", "i">>, FALSE, 0, "i", {-32, 31}),
    Given(<<"%", "u">>, FALSE, 0, "u", Unsigned),
    Given(<<"%", "x">>, FALSE, 0, "x", {10, 16}),
    Given(<<"%", "3", "X">>, FALSE, 3, "X", {10, 63}),
    Given(<<"%", "0", "2", "x">>, TRUE, 2, "x", Unsigned),
    Given(<<"%", "0", "1", "2", "X">>, TRUE, 12, "X", {0, 63}),
    Given(<<"%", "0", "3", "1", "X">>, TRUE, 31, "X", {63}),
    Given(<<"%", "p">>, FALSE, 0, "p", Words),
    Given(<<"%", "z", "u">>, FALSE, 0, "z", Words)}
=============================================================================
