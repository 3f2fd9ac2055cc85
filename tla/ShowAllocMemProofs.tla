-------------------------- MODULE ShowAllocMemProofs --------------------------
(***************************************************************************)
(* Theorems about ShowAllocMem.tla, for all heaps HeapsAssumption allows.  *)
(*                                                                         *)
(* IInv says that the output so far shows the blocks of the items the walk *)
(* has passed, each block in one line, and that total is the sum of those  *)
(* lines.  A step adds the blocks of one item, and HeapsAssumption is why  *)
(* they were not shown before: the memory of two items does not overlap.   *)
(* A line is known to read back as its block because the loops of          *)
(* write_hex and write_dec write all digits of a number: the recursive     *)
(* function reversed_digits is unfolded by ListLemmas' RecursiveFunction,  *)
(* and FoldLeft and FlattenSeq by its FoldSteps and FlattenParts.          *)
(***************************************************************************)
EXTENDS ShowAllocMem, ListLemmas

-----------------------------------------------------------------------------
(* Numbers: what is written reads back as the number.                      *)

(* Reading a number written in base b, digit by digit.                     *)
NumberStep(d, b) == [k \in 1 .. Len(d) |-> [v \in Nat |-> v * b + d[k]]]

(* Number reads the digits one after the other.                            *)
LEMMA NumberSteps ==
  ASSUME NEW d \in Seq(Nat), NEW b \in Nat
  PROVE  \E p : Steps(Len(d), Nat, 0, NumberStep(d, b), p) /\ Number(d, b) = p[Len(d)]
<1> DEFINE n == Len(d)
           D == NumberStep(d, b)
           IsFold(f) == f = [T \in SUBSET DOMAIN d |->
                             IF T = {} THEN 0 ELSE f[T \ {Max(T)}] * b + d[Max(T)]]
<1>1. n \in Nat /\ DOMAIN d = 1 .. n /\ \A k \in 1 .. n : d[k] \in Nat
  OBVIOUS
<1>2. Folds(n, Nat, 0, D)
  BY <1>1 DEF NumberStep, Folds
<1>3. \A k \in 1 .. n, v \in Nat : D[k][v] = v * b + d[k]
  BY DEF NumberStep
<1>4. \A T \in SUBSET (1 .. n) : T # {} => Max(T) \in 1 .. n
  <2> TAKE T \in SUBSET (1 .. n)
  <2>1. T \in SUBSET (0 .. n)
    OBVIOUS
  <2> QED BY <1>1, <2>1, MaxElement
<1>5. PICK iter : Fold(n, Nat, 0, D, iter)
  <2> HIDE DEF D, n
  <2> QED BY <1>2, FoldExists
<1> HIDE DEF D
<1>6. ASSUME NEW T \in SUBSET (1 .. n)
      PROVE  iter[T] = IF T = {} THEN 0 ELSE iter[T \ {Max(T)}] * b + d[Max(T)]
  <2>1. T # {} => Max(T) \in 1 .. n /\ iter[T \ {Max(T)}] \in Nat
    BY <1>4, <1>5 DEF Fold
  <2> QED BY <1>3, <1>5, <2>1 DEF Fold
<1>7. IsFold(iter)
  <2>1. iter = [T \in SUBSET (1 .. n) |-> iter[T]]
    BY <1>5 DEF Fold
  <2> QED BY <1>1, <1>6, <2>1
<1> DEFINE g == CHOOSE f : IsFold(f)
<1>8. IsFold(g)
  <2> HIDE DEF IsFold
  <2> QED BY <1>7, Zenon
<1>9. Number(d, b) = g[DOMAIN d]
  BY Zenon DEF Number, FoldLeft, MapThenFoldSet
<1> HIDE DEF g
<1>10. g[{}] = 0
  BY <1>8
<1>11. ASSUME NEW T \in SUBSET (1 .. n), T # {}, g[T \ {Max(T)}] \in Nat
       PROVE  g[T] = D[Max(T)][g[T \ {Max(T)}]]
  <2>1. g[T] = g[T \ {Max(T)}] * b + d[Max(T)]
    BY <1>1, <1>8, <1>11
  <2> QED BY <1>3, <1>4, <1>11, <2>1
<1>12. PICK p : Steps(n, Nat, 0, D, p) /\ p[n] = g[1 .. n]
  <2> HIDE DEF n, IsFold
  <2>1. Unfolds(n, Nat, 0, D, g)
    BY <1>10, <1>11 DEF Unfolds
  <2> QED BY <1>2, <2>1, FoldSteps
<1> QED BY <1>1, <1>9, <1>12 DEF D

(* One digit more multiplies by the base and adds the digit.               *)
LEMMA NumberAppend ==
  ASSUME NEW d \in Seq(Nat), NEW x \in Nat, NEW b \in Nat
  PROVE  /\ Number(<<>>, b) = 0
         /\ Number(d, b) \in Nat
         /\ Number(Append(d, x), b) = Number(d, b) * b + x
<1> DEFINE e == Append(d, x)
<1>1. e \in Seq(Nat) /\ Len(e) = Len(d) + 1 /\ e[Len(d) + 1] = x /\ \A k \in 1 .. Len(d) : e[k] = d[k]
  OBVIOUS
<1>2. PICK p : Steps(Len(d), Nat, 0, NumberStep(d, b), p) /\ Number(d, b) = p[Len(d)]
  BY NumberSteps
<1> HIDE DEF e
<1>3. PICK q : Steps(Len(e), Nat, 0, NumberStep(e, b), q) /\ Number(e, b) = q[Len(e)]
  BY <1>1, NumberSteps
<1>4. Len(d) \in Nat /\ Len(d) <= Len(e)
  BY <1>1
<1>5. \A k \in 1 .. Len(d) : NumberStep(e, b)[k] = NumberStep(d, b)[k]
  BY <1>1, <1>4 DEF NumberStep
<1>6. \A k \in 0 .. Len(d) : q[k] = p[k]
  <2>1. Continues(Len(e), NumberStep(e, b), Len(d), NumberStep(d, b))
    BY <1>4, <1>5 DEF Continues
  <2> QED BY <1>2, <1>3, <2>1, SameSteps
<1>7. q[Len(e)] = NumberStep(e, b)[Len(e)][q[Len(d)]] /\ q[Len(d)] \in Nat
  <2>1. Len(e) \in 1 .. Len(e) /\ Len(e) - 1 = Len(d) /\ Len(d) \in 0 .. Len(e)
    BY <1>1, <1>4
  <2> QED BY <1>3, <2>1 DEF Steps
<1>8. NumberStep(e, b)[Len(e)][q[Len(d)]] = q[Len(d)] * b + x
  <2>1. Len(e) \in 1 .. Len(e)
    BY <1>1, <1>4
  <2> QED BY <1>1, <1>7, <2>1 DEF NumberStep
<1>9. Number(<<>>, b) = 0
  <2>1. PICK r : Steps(Len(<<>>), Nat, 0, NumberStep(<<>>, b), r) /\ Number(<<>>, b) = r[Len(<<>>)]
    <3>1. <<>> \in Seq(Nat)
      OBVIOUS
    <3> QED BY <3>1, NumberSteps
  <2>2. Len(<<>>) = 0
    OBVIOUS
  <2> QED BY <2>1, <2>2 DEF Steps
<1>10. q[Len(d)] = p[Len(d)]
  BY <1>4, <1>6
<1> QED BY <1>2, <1>3, <1>7, <1>8, <1>9, <1>10 DEF e

(* The digits written from the last to the first.                          *)
Bases == {10, 16}

(* The last decimal digit of a number and the number without it.           *)
LEMMA DecimalDivision ==
  ASSUME NEW v \in Nat
  PROVE  /\ v \div 10 \in Nat /\ v % 10 \in 0 .. 9
         /\ v = (v \div 10) * 10 + (v % 10)
         /\ v > 0 => v \div 10 < v
<1> DEFINE q == v \div 10
           r == v % 10
<1>1. q \in Nat
  OBVIOUS
<1>2. r \in 0 .. 9
  OBVIOUS
<1>3. r = v - q * 10
  OBVIOUS
<1> HIDE DEF q, r
<1>4. v = q * 10 + r /\ (v > 0 => q < v)
  BY <1>1, <1>2, <1>3
<1> QED BY <1>1, <1>2, <1>4 DEF q, r

(* The same of hex digits; the provers need the base itself, not a name.   *)
LEMMA HexDivision ==
  ASSUME NEW v \in Nat
  PROVE  /\ v \div 16 \in Nat /\ v % 16 \in 0 .. 15
         /\ v = (v \div 16) * 16 + (v % 16)
         /\ v > 0 => v \div 16 < v
<1> DEFINE q == v \div 16
           r == v % 16
<1>1. q \in Nat
  OBVIOUS
<1>2. r \in 0 .. 15
  OBVIOUS
<1>3. r = v - q * 16
  OBVIOUS
<1> HIDE DEF q, r
<1>4. v = q * 16 + r /\ (v > 0 => q < v)
  BY <1>1, <1>2, <1>3
<1> QED BY <1>1, <1>2, <1>4 DEF q, r

(* Both together, for a number other than 0.                               *)
LEMMA DigitDivision ==
  ASSUME NEW b \in Bases, NEW v \in Nat \ {0}
  PROVE  /\ v \div b \in Nat /\ v \div b < v /\ v % b \in 0 .. b - 1
         /\ v = (v \div b) * b + (v % b)
<1>1. b = 10 \/ b = 16
  BY DEF Bases
<1>2. 10 - 1 = 9 /\ 16 - 1 = 15 /\ v > 0
  OBVIOUS
<1>3. CASE b = 10
  <2>1. /\ v \div 10 \in Nat /\ v \div 10 < v /\ v % 10 \in 0 .. 9
        /\ v = (v \div 10) * 10 + (v % 10)
    BY <1>2, DecimalDivision
  <2> QED BY <1>2, <1>3, <2>1
<1>4. CASE b = 16
  <2>1. /\ v \div 16 \in Nat /\ v \div 16 < v /\ v % 16 \in 0 .. 15
        /\ v = (v \div 16) * 16 + (v % 16)
    BY <1>2, HexDivision
  <2> QED BY <1>2, <1>4, <2>1
<1> QED BY <1>1, <1>3, <1>4

(* reversed_digits is the recursion of the loops in write_hex and          *)
(* write_dec, and every digit is less than the base.                       *)
LEMMA ReversedDigits ==
  ASSUME NEW b \in Bases
  PROVE  /\ reversed_digits(0, b) = <<>>
         /\ \A v \in Nat \ {0} :
              reversed_digits(v, b) = <<v % b>> \o reversed_digits(v \div b, b)
         /\ \A v \in Nat : reversed_digits(v, b) \in Seq(0 .. b - 1)
<1> DEFINE S == Seq(0 .. b - 1)
           A == Nat
           B == Nat \ {0}
           M == [v \in A |-> v]
           P == [v \in B |-> v \div b]
           D == [v \in B |-> [t \in S |-> <<v % b>> \o t]]
           C == [v \in A \ B |-> <<>>]
           Put(f) == f = [v \in Nat |-> IF v = 0 THEN <<>> ELSE <<v % b>> \o f[v \div b]]
<1>1. \A v \in B : v \div b \in Nat /\ v \div b < v /\ v % b \in 0 .. b - 1
  BY DigitDivision
<1>2. B \in SUBSET A /\ M \in [A -> Nat] /\ \A v \in B : M[P[v]] < M[v]
  BY <1>1
<1>3. P \in [B -> A]
  BY <1>1
<1>4. \A v \in B, t \in S : <<v % b>> \o t \in S
  <2>1. ASSUME NEW v \in B, NEW t \in S
        PROVE  <<v % b>> \o t \in S
    <3>1. <<v % b>> \in Seq(0 .. b - 1)
      BY <1>1
    <3> QED BY <3>1, ConcatProperties
  <2> QED BY <2>1
<1>5. D \in [B -> [S -> S]]
  <2> HIDE DEF S, B
  <2> QED BY <1>4
<1>6. C \in [A \ B -> S]
  OBVIOUS
<1>7. PICK f \in [A -> S] : \A v \in A : f[v] = IF v \in B THEN D[v][f[P[v]]] ELSE C[v]
  <2> HIDE DEF A, S, B, M, P, C, D
  <2>1. Recursion(A, S, B, M, P, C, D)
    BY <1>2, <1>3, <1>5, <1>6 DEF Recursion
  <2> QED BY <2>1, RecursiveFunction
<1>8. ASSUME NEW v \in Nat
      PROVE  f[v] = IF v = 0 THEN <<>> ELSE <<v % b>> \o f[v \div b]
  <2>1. CASE v = 0
    BY <1>7, <2>1
  <2>2. CASE v # 0
    <3>1. v \in B /\ P[v] = v \div b /\ v \div b \in A
      BY <1>1, <2>2
    <3>2. D[v] = [t \in S |-> <<v % b>> \o t] /\ f[v \div b] \in S
      <4> HIDE DEF S
      <4> QED BY <1>7, <3>1
    <3>3. f[v] = D[v][f[v \div b]]
      <4> HIDE DEF B, D, P, C, S
      <4> QED BY <1>7, <3>1
    <3> QED BY <2>2, <3>2, <3>3
  <2> QED BY <2>1, <2>2
<1>9. Put(f)
  <2>1. f = [v \in Nat |-> f[v]]
    BY <1>7
  <2> QED BY <1>8, <2>1
<1> DEFINE g == CHOOSE h : Put(h)
<1>10. Put(g)
  <2> HIDE DEF Put
  <2> QED BY <1>9, Zenon
<1>11. \A v : reversed_digits(v, b) = g[v]
  BY Zenon DEF reversed_digits
<1> HIDE DEF g
<1>12. \A v \in Nat : g[v] = IF v = 0 THEN <<>> ELSE <<v % b>> \o g[v \div b]
  BY <1>10
<1> HIDE DEF Put
<1> DEFINE T == {v \in Nat : g[v] \in S}
<1>13. ASSUME NEW v \in Nat, \A x \in 0 .. v - 1 : x \in T
       PROVE  v \in T
  <2>1. CASE v = 0
    <3>1. g[v] = <<>>
      BY <1>12, <2>1
    <3>2. <<>> \in S
      OBVIOUS
    <3> QED BY <3>1, <3>2
  <2>2. CASE v # 0
    <3>1. v \in B /\ v \div b \in Nat /\ v \div b < v
      BY <1>1, <2>2
    <3>2. v \div b \in T
      <4> DEFINE q == v \div b
      <4>1. q \in 0 .. v - 1
        BY <3>1
      <4> HIDE DEF q
      <4>2. q \in T
        BY <1>13, <4>1
      <4> QED BY <4>2 DEF q
    <3>3. g[v] = <<v % b>> \o g[v \div b] /\ g[v \div b] \in S
      BY <1>12, <2>2, <3>2
    <3>4. g[v] \in S
      <4> HIDE DEF S, B
      <4> QED BY <1>4, <3>1, <3>3
    <3> QED BY <3>4
  <2> QED BY <2>1, <2>2
<1>14. T = Nat
  <2>1. T \in SUBSET Nat
    OBVIOUS
  <2> HIDE DEF T
  <2>2. Progressive(T)
    BY <1>13, <2>1 DEF Progressive
  <2> QED BY <2>2, CompleteInduction
<1>15. \A v \in Nat : g[v] \in S
  BY <1>14
<1>16. \A v \in Nat \ {0} : g[v] = <<v % b>> \o g[v \div b]
  BY <1>12
<1>17. g[0] = <<>>
  BY <1>12
<1> QED BY <1>11, <1>15, <1>16, <1>17

(* Turning a sequence round puts its first element last.                   *)
LEMMA ReverseFirst ==
  ASSUME NEW S, NEW t \in Seq(S), NEW x \in S
  PROVE  /\ Reverse(t) \in Seq(S) /\ Len(Reverse(t)) = Len(t)
         /\ Reverse(<<x>> \o t) = Append(Reverse(t), x)
<1> DEFINE u == <<x>> \o t
           r == Reverse(t)
<1>1. u \in Seq(S) /\ Len(u) = Len(t) + 1 /\ u[1] = x /\ \A k \in 1 .. Len(t) : u[k + 1] = t[k]
  <2>1. <<x>> \in Seq(S) /\ Len(<<x>>) = 1 /\ <<x>>[1] = x
    OBVIOUS
  <2>2. /\ u \in Seq(S) /\ Len(u) = 1 + Len(t)
        /\ \A k \in 1 .. 1 + Len(t) : u[k] = IF k <= 1 THEN <<x>>[k] ELSE t[k - 1]
    BY <2>1, ConcatProperties
  <2> QED BY <2>1, <2>2
<1>2. /\ r = [k \in 1 .. Len(t) |-> t[(Len(t) - k) + 1]]
      /\ r \in Seq(S) /\ Len(r) = Len(t)
      /\ \A k \in 1 .. Len(t) : r[k] = t[(Len(t) - k) + 1]
  BY DEF Reverse
<1> HIDE DEF u, r
<1>3. /\ Append(r, x) \in Seq(S) /\ Len(Append(r, x)) = Len(t) + 1
      /\ \A k \in 1 .. Len(t) + 1 : Append(r, x)[k] = IF k <= Len(t) THEN r[k] ELSE x
  BY <1>2, AppendProperties
<1>4. Reverse(u) = [k \in 1 .. Len(u) |-> u[(Len(u) - k) + 1]]
  BY DEF Reverse
<1>5. ASSUME NEW k \in 1 .. Len(u)
      PROVE  u[(Len(u) - k) + 1] = Append(r, x)[k]
  <2>1. CASE k = Len(u)
    BY <1>1, <1>3, <2>1
  <2>2. CASE k # Len(u)
    <3>1. k \in 1 .. Len(t) /\ (Len(t) - k) + 1 \in 1 .. Len(t)
      BY <1>1, <2>2
    <3>2. (Len(u) - k) + 1 = ((Len(t) - k) + 1) + 1
      BY <1>1
    <3> QED BY <1>1, <1>2, <1>3, <3>1, <3>2
  <2> QED BY <2>1, <2>2
<1>6. Append(r, x) = [k \in 1 .. Len(u) |-> Append(r, x)[k]]
  <2> DEFINE a == Append(r, x)
  <2>1. a \in Seq(S) /\ Len(a) = Len(u)
    BY <1>1, <1>3
  <2> HIDE DEF a
  <2>2. a = [k \in 1 .. Len(u) |-> a[k]]
    BY <2>1
  <2> QED BY <2>2 DEF a
<1>7. Reverse(u) = Append(r, x)
  BY <1>4, <1>5, <1>6
<1> QED BY <1>2, <1>7 DEF u, r

(* What was written reads as the number.                                   *)
LEMMA DigitsReadBack ==
  ASSUME NEW b \in Bases, NEW w \in Nat
  PROVE  Number(Reverse(reversed_digits(w, b)), b) = w
<1> DEFINE T == {v \in Nat : Number(Reverse(reversed_digits(v, b)), b) = v}
<1>1. ASSUME NEW v \in Nat, \A x \in 0 .. v - 1 : x \in T
      PROVE  v \in T
  <2>1. CASE v = 0
    <3>1. Reverse(<<>>) = <<>>
      BY DEF Reverse
    <3>2. b \in Nat /\ <<>> \in Seq(Nat) /\ 0 \in Nat
      BY DEF Bases
    <3>3. Number(<<>>, b) = 0
      BY <3>2, NumberAppend
    <3> QED BY <2>1, <3>1, <3>3, ReversedDigits
  <2>2. CASE v # 0
    <3> DEFINE t == reversed_digits(v \div b, b)
    <3>1. /\ v \div b \in Nat /\ v \div b < v /\ v % b \in 0 .. b - 1
          /\ v = (v \div b) * b + (v % b)
      BY <2>2, DigitDivision
    <3>2. reversed_digits(v, b) = <<v % b>> \o t /\ t \in Seq(0 .. b - 1)
      BY <2>2, <3>1, ReversedDigits
    <3> HIDE DEF t
    <3>3. Reverse(t) \in Seq(0 .. b - 1) /\ Reverse(<<v % b>> \o t) = Append(Reverse(t), v % b)
      BY <3>1, <3>2, ReverseFirst
    <3>4. Reverse(t) \in Seq(Nat) /\ v % b \in Nat /\ b \in Nat
      BY <3>1, <3>3 DEF Bases
    <3>5. Number(Append(Reverse(t), v % b), b) = Number(Reverse(t), b) * b + (v % b)
      <4> DEFINE r == Reverse(t)
                 y == v % b
      <4>1. r \in Seq(Nat) /\ y \in Nat
        BY <3>4
      <4> HIDE DEF r, y
      <4>2. Number(Append(r, y), b) = Number(r, b) * b + y
        <5> HIDE DEF t
        <5> QED BY <3>4, <4>1, NumberAppend
      <4> QED BY <4>2 DEF r, y
    <3>6. Number(Reverse(t), b) = v \div b
      <4>1. v \div b \in T
        BY <1>1, <3>1
      <4> QED BY <4>1 DEF t
    <3> QED BY <3>1, <3>2, <3>3, <3>5, <3>6
  <2> QED BY <2>1, <2>2
<1>2. T = Nat
  <2>1. T \in SUBSET Nat
    OBVIOUS
  <2> HIDE DEF T
  <2>2. Progressive(T)
    BY <1>1, <2>1 DEF Progressive
  <2> QED BY <2>2, CompleteInduction
<1> QED BY <1>2

(* write_hex and write_dec write the number they are given.                *)
LEMMA WrittenReadBack ==
  ASSUME NEW v \in Nat
  PROVE  Number(write_hex(v).digits, 16) = v /\ Number(write_dec(v), 10) = v
<1>1. 10 \in Bases /\ 16 \in Bases
  BY DEF Bases
<1>2. Number(<<0>>, 10) = 0 /\ Number(<<0>>, 16) = 0
  <2>1. <<>> \in Seq(Nat) /\ <<0>> = Append(<<>>, 0)
    OBVIOUS
  <2>2. Number(<<>>, 10) = 0 /\ Number(<<>>, 16) = 0
    BY <2>1, NumberAppend
  <2> DEFINE e == <<>>
  <2>3. Number(e, 10) = 0 /\ Number(e, 16) = 0 /\ e \in Seq(Nat) /\ <<0>> = Append(e, 0)
    BY <2>1, <2>2
  <2> HIDE DEF e
  <2>4. Number(Append(e, 0), 10) = Number(e, 10) * 10 + 0
    <3>1. 10 \in Nat /\ 0 \in Nat
      OBVIOUS
    <3> QED BY <2>3, <3>1, NumberAppend
  <2>5. Number(Append(e, 0), 16) = Number(e, 16) * 16 + 0
    <3>1. 16 \in Nat /\ 0 \in Nat
      OBVIOUS
    <3> QED BY <2>3, <3>1, NumberAppend
  <2>6. Number(Append(e, 0), 10) = 0 /\ Number(Append(e, 0), 16) = 0
    BY <2>3, <2>4, <2>5
  <2> QED BY <2>3, <2>6, Zenon
<1>3. CASE v = 0
  BY <1>2, <1>3 DEF write_hex, write_dec
<1>4. CASE v # 0
  BY <1>1, <1>4, DigitsReadBack DEF write_hex, write_dec
<1> QED BY <1>3, <1>4

(* hex_values are the powers of 16.                                        *)
LEMMA HexValues ==
  /\ hex_values[0] = 1
  /\ \A q \in Nat : hex_values[q] \in Nat \ {0} /\ hex_values[q + 1] = 16 * hex_values[q]
<1> DEFINE A == Nat
           B == Nat \ {0}
           M == [v \in A |-> v]
           P == [v \in B |-> v - 1]
           D == [v \in B |-> [t \in B |-> 16 * t]]
           C == [v \in A \ B |-> 1]
           Values(f) == f = [q \in Nat |-> IF q = 0 THEN 1 ELSE 16 * f[q - 1]]
<1>1. Recursion(A, B, B, M, P, C, D)
  <2>1. B \in SUBSET A /\ M \in [A -> Nat] /\ \A v \in B : M[P[v]] < M[v]
    OBVIOUS
  <2>2. P \in [B -> A]
    OBVIOUS
  <2>3. C \in [A \ B -> B] /\ D \in [B -> [B -> B]]
    OBVIOUS
  <2> HIDE DEF A, B, M, P, C, D
  <2> QED BY <2>1, <2>2, <2>3 DEF Recursion
<1>2. PICK f \in [A -> B] : \A v \in A : f[v] = IF v \in B THEN D[v][f[P[v]]] ELSE C[v]
  <2> HIDE DEF A, B, M, P, C, D
  <2> QED BY <1>1, RecursiveFunction
<1>3. ASSUME NEW q \in Nat
      PROVE  f[q] = IF q = 0 THEN 1 ELSE 16 * f[q - 1]
  <2>1. CASE q = 0
    BY <1>2, <2>1
  <2>2. CASE q # 0
    <3>1. q \in B /\ q - 1 \in A /\ P[q] = q - 1
      BY <2>2
    <3>2. f[q - 1] \in B /\ f[q] = D[q][f[q - 1]]
      <4> HIDE DEF B, D, P, C
      <4> QED BY <1>2, <3>1
    <3> QED BY <2>2, <3>2
  <2> QED BY <2>1, <2>2
<1>4. Values(f)
  <2>1. f = [v \in Nat |-> f[v]]
    BY <1>2
  <2> QED BY <1>3, <2>1
<1>5. Values(hex_values)
  <2>1. hex_values = CHOOSE h : Values(h)
    BY Zenon DEF hex_values
  <2> HIDE DEF Values
  <2> QED BY <1>4, <2>1, Zenon
<1>6. \A q \in Nat : hex_values[q] = IF q = 0 THEN 1 ELSE 16 * hex_values[q - 1]
  <2> DEFINE h == hex_values
  <2>1. Values(h)
    BY <1>5
  <2> HIDE DEF h
  <2>2. \A q \in Nat : h[q] = IF q = 0 THEN 1 ELSE 16 * h[q - 1]
    BY <2>1
  <2> QED BY <2>2 DEF h
<1>7. \A q \in Nat : hex_values[q + 1] = 16 * hex_values[q]
  <2> TAKE q \in Nat
  <2>1. q + 1 \in Nat /\ q + 1 # 0 /\ (q + 1) - 1 = q
    OBVIOUS
  <2> QED BY <1>6, <2>1
<1> DEFINE T == {q \in Nat : hex_values[q] \in Nat \ {0}}
<1>8. T = Nat
  <2>1. T \in SUBSET Nat /\ 0 \in T
    BY <1>6
  <2>2. \A q \in T : q + 1 \in T
    BY <1>7
  <2> HIDE DEF T
  <2> QED BY <2>1, <2>2, Induction
<1>9. hex_values[0] = 1
  BY <1>6
<1>10. \A q \in Nat : hex_values[q] \in Nat \ {0}
  BY <1>8
<1> QED BY <1>7, <1>9, <1>10

(* A number below the r-th power of 16 has at most r digits.               *)
LEMMA DigitCount ==
  ASSUME NEW r \in Nat, NEW w \in Nat, w < hex_values[r]
  PROVE  Len(reversed_digits(w, 16)) <= r
<1> DEFINE T == {q \in Nat : \A v \in Nat : v < hex_values[q] => Len(reversed_digits(v, 16)) <= q}
<1>0. 16 \in Bases
  BY DEF Bases
<1>1. 0 \in T
  <2>1. ASSUME NEW v \in Nat, v < hex_values[0]
        PROVE  Len(reversed_digits(v, 16)) <= 0
    <3>1. v = 0
      BY <2>1, HexValues
    <3>2. reversed_digits(0, 16) = <<>>
      BY <1>0, ReversedDigits
    <3> QED BY <3>1, <3>2
  <2> QED BY <2>1
<1>2. ASSUME NEW q \in T
      PROVE  q + 1 \in T
  <2>1. ASSUME NEW v \in Nat, v < hex_values[q + 1]
        PROVE  Len(reversed_digits(v, 16)) <= q + 1
    <3>1. CASE v = 0
      <4>1. reversed_digits(0, 16) = <<>>
        BY <1>0, ReversedDigits
      <4> QED BY <3>1, <4>1
    <3>2. CASE v # 0
      <4>1. /\ v \div 16 \in Nat /\ v % 16 \in 0 .. 15
            /\ v = (v \div 16) * 16 + (v % 16)
        BY HexDivision
      <4>2. v \div 16 < hex_values[q]
        <5>1. hex_values[q] \in Nat /\ v < 16 * hex_values[q]
          BY <2>1, HexValues
        <5> QED BY <4>1, <5>1
      <4>3. Len(reversed_digits(v \div 16, 16)) <= q
        BY <4>1, <4>2
      <4>4. reversed_digits(v, 16) = <<v % 16>> \o reversed_digits(v \div 16, 16)
        BY <1>0, <3>2, ReversedDigits
      <4>5. reversed_digits(v \div 16, 16) \in Seq(0 .. 15) /\ <<v % 16>> \in Seq(0 .. 15)
        <5>1. reversed_digits(v \div 16, 16) \in Seq(0 .. 16 - 1)
          BY <1>0, <4>1, ReversedDigits
        <5>2. 0 .. 16 - 1 = 0 .. 15
          OBVIOUS
        <5> QED BY <4>1, <5>1, <5>2
      <4>6. Len(<<v % 16>> \o reversed_digits(v \div 16, 16))
              = 1 + Len(reversed_digits(v \div 16, 16))
        BY <4>5, ConcatProperties
      <4> QED BY <4>3, <4>4, <4>5, <4>6
    <3> QED BY <3>1, <3>2
  <2> QED BY <2>1
<1>3. T = Nat
  <2>1. T \in SUBSET Nat
    OBVIOUS
  <2> HIDE DEF T
  <2> QED BY <1>1, <1>2, <2>1, Induction
<1> QED BY <1>3

-----------------------------------------------------------------------------
(* Sums of sequences.                                                      *)

(* Adding up, number by number.                                             *)
SumStep(d) == [k \in 1 .. Len(d) |-> [v \in Nat |-> v + d[k]]]

Sum(d) == FoldLeft(+, 0, d)

(* FoldLeft adds one number after the other.                               *)
LEMMA SumSteps ==
  ASSUME NEW d \in Seq(Nat)
  PROVE  \E p : Steps(Len(d), Nat, 0, SumStep(d), p) /\ Sum(d) = p[Len(d)]
<1> DEFINE n == Len(d)
           D == SumStep(d)
           IsFold(f) == f = [T \in SUBSET DOMAIN d |->
                             IF T = {} THEN 0 ELSE f[T \ {Max(T)}] + d[Max(T)]]
<1>1. n \in Nat /\ DOMAIN d = 1 .. n /\ \A k \in 1 .. n : d[k] \in Nat
  OBVIOUS
<1>2. Folds(n, Nat, 0, D)
  BY <1>1 DEF SumStep, Folds
<1>3. \A k \in 1 .. n, v \in Nat : D[k][v] = v + d[k]
  BY DEF SumStep
<1>4. \A T \in SUBSET (1 .. n) : T # {} => Max(T) \in 1 .. n
  <2> TAKE T \in SUBSET (1 .. n)
  <2>1. T \in SUBSET (0 .. n)
    OBVIOUS
  <2> QED BY <1>1, <2>1, MaxElement
<1>5. PICK iter : Fold(n, Nat, 0, D, iter)
  <2> HIDE DEF D, n
  <2> QED BY <1>2, FoldExists
<1> HIDE DEF D
<1>6. ASSUME NEW T \in SUBSET (1 .. n)
      PROVE  iter[T] = IF T = {} THEN 0 ELSE iter[T \ {Max(T)}] + d[Max(T)]
  <2>1. T # {} => Max(T) \in 1 .. n /\ iter[T \ {Max(T)}] \in Nat
    BY <1>4, <1>5 DEF Fold
  <2> QED BY <1>3, <1>5, <2>1 DEF Fold
<1>7. IsFold(iter)
  <2>1. iter = [T \in SUBSET (1 .. n) |-> iter[T]]
    BY <1>5 DEF Fold
  <2> QED BY <1>1, <1>6, <2>1
<1> DEFINE g == CHOOSE f : IsFold(f)
<1>8. IsFold(g)
  <2> HIDE DEF IsFold
  <2> QED BY <1>7, Zenon
<1>9. Sum(d) = g[DOMAIN d]
  BY Zenon DEF Sum, FoldLeft, MapThenFoldSet
<1> HIDE DEF g
<1>10. g[{}] = 0
  BY <1>8
<1>11. ASSUME NEW T \in SUBSET (1 .. n), T # {}, g[T \ {Max(T)}] \in Nat
       PROVE  g[T] = D[Max(T)][g[T \ {Max(T)}]]
  <2>1. g[T] = g[T \ {Max(T)}] + d[Max(T)]
    BY <1>1, <1>8, <1>11
  <2> QED BY <1>3, <1>4, <1>11, <2>1
<1>12. PICK p : Steps(n, Nat, 0, D, p) /\ p[n] = g[1 .. n]
  <2> HIDE DEF n, IsFold
  <2>1. Unfolds(n, Nat, 0, D, g)
    BY <1>10, <1>11 DEF Unfolds
  <2> QED BY <1>2, <2>1, FoldSteps
<1> QED BY <1>1, <1>9, <1>12 DEF D

(* One number more adds it.                                                *)
LEMMA SumAppend ==
  ASSUME NEW d \in Seq(Nat), NEW x \in Nat
  PROVE  /\ Sum(<<>>) = 0
         /\ Sum(d) \in Nat
         /\ Sum(Append(d, x)) = Sum(d) + x
<1> DEFINE e == Append(d, x)
<1>1. e \in Seq(Nat) /\ Len(e) = Len(d) + 1 /\ e[Len(d) + 1] = x /\ \A k \in 1 .. Len(d) : e[k] = d[k]
  OBVIOUS
<1>2. PICK p : Steps(Len(d), Nat, 0, SumStep(d), p) /\ Sum(d) = p[Len(d)]
  BY SumSteps
<1> HIDE DEF e
<1>3. PICK q : Steps(Len(e), Nat, 0, SumStep(e), q) /\ Sum(e) = q[Len(e)]
  BY <1>1, SumSteps
<1>4. Len(d) \in Nat /\ Len(d) <= Len(e)
  BY <1>1
<1>5. ASSUME NEW k \in 1 .. Len(d)
      PROVE  SumStep(e)[k] = SumStep(d)[k]
  <2>1. SumStep(e)[k] = [v \in Nat |-> v + e[k]] /\ SumStep(d)[k] = [v \in Nat |-> v + d[k]]
    BY <1>4 DEF SumStep
  <2>2. e[k] = d[k]
    BY <1>1
  <2> QED BY <2>1, <2>2, Zenon
<1>6. \A k \in 0 .. Len(d) : q[k] = p[k]
  <2>1. Continues(Len(e), SumStep(e), Len(d), SumStep(d))
    BY <1>4, <1>5 DEF Continues
  <2> QED BY <1>2, <1>3, <2>1, SameSteps
<1>7. q[Len(e)] = SumStep(e)[Len(e)][q[Len(d)]] /\ q[Len(d)] \in Nat
  <2>1. Len(e) \in 1 .. Len(e) /\ Len(e) - 1 = Len(d) /\ Len(d) \in 0 .. Len(e)
    BY <1>1, <1>4
  <2> QED BY <1>3, <2>1 DEF Steps
<1>8. SumStep(e)[Len(e)][q[Len(d)]] = q[Len(d)] + x
  <2>1. Len(e) \in 1 .. Len(e)
    BY <1>1, <1>4
  <2> QED BY <1>1, <1>7, <2>1 DEF SumStep
<1>9. Sum(<<>>) = 0
  <2>1. PICK r : Steps(Len(<<>>), Nat, 0, SumStep(<<>>), r) /\ Sum(<<>>) = r[Len(<<>>)]
    <3>1. <<>> \in Seq(Nat)
      OBVIOUS
    <3> QED BY <3>1, SumSteps
  <2>2. Len(<<>>) = 0
    OBVIOUS
  <2> QED BY <2>1, <2>2 DEF Steps
<1>10. q[Len(d)] = p[Len(d)]
  BY <1>4, <1>6
<1> QED BY <1>2, <1>3, <1>7, <1>8, <1>9, <1>10 DEF e

-----------------------------------------------------------------------------
(* The entries of the output.                                              *)

(* What is written, entry by entry, of a heap in user space.               *)
LineOf(e, a, b) ==
  [kind |-> "line", start |-> write_hex(a), end |-> write_hex(a + b),
   bytes |-> write_dec(b), rows |-> IF e THEN hex_dump(a, b) ELSE <<>>]

Blocks == {p \in Nat \X Nat : p[1] + p[2] < USER_TOP}

LineEntries(e) == {LineOf(e, p[1], p[2]) : p \in Blocks}

HeadingEntries == {[kind |-> "heading", address |-> write_hex(a)] : a \in 0 .. USER_TOP - 1}

TotalEntries == {[kind |-> "total", bytes |-> write_dec(n)] : n \in Nat}

Entries(e) == LineEntries(e) \cup HeadingEntries \cup TotalEntries

LinesOf(o) == {k \in DOMAIN o : o[k].kind = "line"}

Shown(x) == <<Number(x.start.digits, 16), Number(x.bytes, 10)>>

Bytes(o) == [k \in DOMAIN o |-> IF o[k].kind = "line" THEN Number(o[k].bytes, 10) ELSE 0]

(* o shows the blocks of S, each in one line, and they have t bytes.       *)
Output(e, o, S, t) ==
  /\ o \in Seq(Entries(e))
  /\ {Shown(o[k]) : k \in LinesOf(o)} = S
  /\ \A k, m \in LinesOf(o) : Shown(o[k]) = Shown(o[m]) => k = m
  /\ Sum(Bytes(o)) = t

(* User space has an end.                                                  *)
LEMMA UserTop == USER_TOP \in Nat \ {0}
<1>1. WordBits \div 4 - 1 \in Nat
  BY ShowAssumption
<1> QED BY <1>1, HexValues DEF USER_TOP

(* A line reads back as the block it was written for.                      *)
LEMMA LineShown ==
  ASSUME NEW e, NEW a \in Nat, NEW b \in Nat
  PROVE  /\ LineOf(e, a, b).kind = "line"
         /\ Shown(LineOf(e, a, b)) = <<a, b>>
         /\ Number(LineOf(e, a, b).bytes, 10) = b
         /\ Number(LineOf(e, a, b).end.digits, 16) = a + b
<1>1. a + b \in Nat
  OBVIOUS
<1> QED BY <1>1, WrittenReadBack DEF LineOf, Shown

(* The lines are the entries of that kind.                                 *)
LEMMA EntryKinds ==
  ASSUME NEW e, NEW x \in Entries(e)
  PROVE  /\ x.kind = "line" <=> x \in LineEntries(e)
         /\ x.kind = "line" => \E p \in Blocks : x = LineOf(e, p[1], p[2])
         /\ x.kind = "line" => Number(x.bytes, 10) \in Nat
<1>1. ASSUME NEW y \in LineEntries(e)
      PROVE  y.kind = "line" /\ Number(y.bytes, 10) \in Nat
  <2>1. PICK p \in Blocks : y = LineOf(e, p[1], p[2])
    BY DEF LineEntries
  <2>2. p[1] \in Nat /\ p[2] \in Nat
    BY DEF Blocks
  <2> QED BY <2>1, <2>2, LineShown
<1>2. \A y \in HeadingEntries \cup TotalEntries : y.kind # "line"
  BY DEF HeadingEntries, TotalEntries
<1> QED BY <1>1, <1>2 DEF Entries, LineEntries

(* The bytes of the lines are numbers, one for each entry.                 *)
LEMMA BytesType ==
  ASSUME NEW e, NEW o \in Seq(Entries(e))
  PROVE  Bytes(o) \in Seq(Nat) /\ Len(Bytes(o)) = Len(o)
<1>1. ASSUME NEW k \in DOMAIN o
      PROVE  (IF o[k].kind = "line" THEN Number(o[k].bytes, 10) ELSE 0) \in Nat
  <2>1. o[k] \in Entries(e)
    OBVIOUS
  <2> QED BY <2>1, EntryKinds
<1>2. DOMAIN o = 1 .. Len(o) /\ Len(o) \in Nat
  OBVIOUS
<1>3. Bytes(o) \in [1 .. Len(o) -> Nat]
  BY <1>1, <1>2 DEF Bytes
<1> QED BY <1>2, <1>3

(* One entry more.                                                         *)
LEMMA BytesAppend ==
  ASSUME NEW e, NEW o \in Seq(Entries(e)), NEW x \in Entries(e)
  PROVE  /\ Append(o, x) \in Seq(Entries(e))
         /\ Len(Append(o, x)) = Len(o) + 1
         /\ \A k \in 1 .. Len(o) : Append(o, x)[k] = o[k]
         /\ Append(o, x)[Len(o) + 1] = x
         /\ Sum(Bytes(o)) \in Nat
         /\ Sum(Bytes(Append(o, x))) = Sum(Bytes(o)) + (IF x.kind = "line" THEN Number(x.bytes, 10) ELSE 0)
<1> DEFINE u == Append(o, x)
           y == IF x.kind = "line" THEN Number(x.bytes, 10) ELSE 0
           c == Bytes(o)
           d == Append(c, y)
<1>1. /\ u \in Seq(Entries(e)) /\ Len(u) = Len(o) + 1
      /\ \A k \in 1 .. Len(o) : u[k] = o[k]
      /\ u[Len(o) + 1] = x
  OBVIOUS
<1>2. y \in Nat /\ c \in Seq(Nat) /\ Len(c) = Len(o)
  BY BytesType, EntryKinds
<1>3. /\ Len(d) = Len(o) + 1
      /\ \A k \in 1 .. Len(o) : d[k] = c[k]
      /\ d[Len(o) + 1] = y
      /\ d \in Seq(Nat)
  <2> HIDE DEF y, c
  <2> QED BY <1>2
<1>4. Bytes(u) \in Seq(Nat) /\ Len(Bytes(u)) = Len(o) + 1
  <2> HIDE DEF u
  <2> QED BY <1>1, BytesType
<1>5. ASSUME NEW k \in 1 .. Len(o) + 1
      PROVE  Bytes(u)[k] = d[k]
  <2>1. Bytes(u)[k] = IF u[k].kind = "line" THEN Number(u[k].bytes, 10) ELSE 0
    <3> HIDE DEF u
    <3> QED BY <1>1 DEF Bytes
  <2>2. CASE k = Len(o) + 1
    <3> HIDE DEF u, d
    <3> QED BY <1>1, <1>3, <2>1, <2>2
  <2>3. CASE k # Len(o) + 1
    <3>1. k \in 1 .. Len(o)
      BY <2>3
    <3>2. c[k] = IF o[k].kind = "line" THEN Number(o[k].bytes, 10) ELSE 0
      BY <3>1 DEF Bytes
    <3> HIDE DEF u, d, c
    <3> QED BY <1>1, <1>3, <2>1, <3>1, <3>2
  <2> QED BY <2>2, <2>3
<1>6. Bytes(u) = d
  <2> HIDE DEF u, d
  <2> DEFINE v == Bytes(u)
  <2> HIDE DEF v
  <2>1. v \in Seq(Nat) /\ Len(v) = Len(o) + 1 /\ d \in Seq(Nat) /\ Len(d) = Len(v)
    BY <1>3, <1>4 DEF v
  <2>2. \A k \in 1 .. Len(v) : v[k] = d[k]
    BY <1>5, <2>1 DEF v
  <2>3. v = d
    BY <2>1, <2>2, SeqEqual
  <2> QED BY <2>3 DEF v
<1>7. Sum(d) = Sum(c) + y /\ Sum(c) \in Nat
  <2> HIDE DEF c, y
  <2> QED BY <1>2, SumAppend
<1> QED BY <1>1, <1>6, <1>7

(* A block that is not shown yet gets a line.                              *)
LEMMA OutputLine ==
  ASSUME NEW e, NEW o, NEW S, NEW t, Output(e, o, S, t),
         NEW a \in Nat, NEW b \in Nat, <<a, b>> \in Blocks, <<a, b>> \notin S
  PROVE  Output(e, Append(o, LineOf(e, a, b)), S \cup {<<a, b>>}, t + b)
<1> DEFINE x == LineOf(e, a, b)
           u == Append(o, x)
<1>1. x \in Entries(e) /\ o \in Seq(Entries(e))
  <2>1. LineOf(e, <<a, b>>[1], <<a, b>>[2]) \in LineEntries(e)
    BY DEF LineEntries
  <2> QED BY <2>1 DEF Entries, Output
<1>2. x.kind = "line" /\ Shown(x) = <<a, b>> /\ Number(x.bytes, 10) = b
  BY LineShown
<1> HIDE DEF x
<1>3. /\ u \in Seq(Entries(e)) /\ Len(u) = Len(o) + 1
      /\ \A k \in 1 .. Len(o) : u[k] = o[k]
      /\ u[Len(o) + 1] = x
      /\ Sum(Bytes(u)) = Sum(Bytes(o)) + b
  BY <1>1, <1>2, BytesAppend
<1>4. DOMAIN o = 1 .. Len(o) /\ Len(o) \in Nat /\ DOMAIN u = 1 .. Len(o) + 1
  BY <1>1, <1>3
<1> HIDE DEF u
<1>5. LinesOf(u) = LinesOf(o) \cup {Len(o) + 1} /\ Len(o) + 1 \notin LinesOf(o)
  BY <1>2, <1>3, <1>4 DEF LinesOf
<1>6. \A k \in LinesOf(o) : Shown(u[k]) = Shown(o[k]) /\ k \in LinesOf(u)
  BY <1>3, <1>4, <1>5 DEF LinesOf
<1>7. Shown(u[Len(o) + 1]) = <<a, b>>
  BY <1>2, <1>3
<1>8. {Shown(u[k]) : k \in LinesOf(u)} = S \cup {<<a, b>>}
  <2>1. {Shown(o[k]) : k \in LinesOf(o)} = S
    BY DEF Output
  <2>2. {Shown(u[k]) : k \in LinesOf(u)} = {Shown(u[k]) : k \in LinesOf(o)} \cup {Shown(u[Len(o) + 1])}
    BY <1>5
  <2>3. {Shown(u[k]) : k \in LinesOf(o)} = {Shown(o[k]) : k \in LinesOf(o)}
    BY <1>6
  <2> QED BY <1>7, <2>1, <2>2, <2>3
<1>9. ASSUME NEW k \in LinesOf(u), NEW m \in LinesOf(u), Shown(u[k]) = Shown(u[m])
      PROVE  k = m
  <2>1. \A j \in LinesOf(o) : Shown(u[j]) \in S
    BY <1>6 DEF Output
  <2>2. CASE k \in LinesOf(o) /\ m \in LinesOf(o)
    BY <1>6, <1>9, <2>2 DEF Output
  <2>3. CASE k \notin LinesOf(o) \/ m \notin LinesOf(o)
    BY <1>5, <1>7, <1>9, <2>1, <2>3
  <2> QED BY <2>2, <2>3
<1>10. Output(e, u, S \cup {<<a, b>>}, t + b)
  BY <1>3, <1>8, <1>9 DEF Output
<1> QED BY <1>10 DEF u, x

(* Any other entry shows nothing.                                          *)
LEMMA OutputOther ==
  ASSUME NEW e, NEW o, NEW S, NEW t, Output(e, o, S, t),
         NEW x \in HeadingEntries \cup TotalEntries
  PROVE  Output(e, Append(o, x), S, t)
<1> DEFINE u == Append(o, x)
<1>1. x \in Entries(e) /\ o \in Seq(Entries(e)) /\ x.kind # "line"
  BY DEF Entries, Output, HeadingEntries, TotalEntries
<1>2. /\ u \in Seq(Entries(e)) /\ Len(u) = Len(o) + 1
      /\ \A k \in 1 .. Len(o) : u[k] = o[k]
      /\ u[Len(o) + 1] = x
      /\ Sum(Bytes(o)) \in Nat
      /\ Sum(Bytes(u)) = Sum(Bytes(o)) + 0
  BY <1>1, BytesAppend
<1>3. DOMAIN o = 1 .. Len(o) /\ Len(o) \in Nat /\ DOMAIN u = 1 .. Len(o) + 1
  BY <1>1, <1>2
<1> HIDE DEF u
<1>4. LinesOf(u) = LinesOf(o)
  BY <1>1, <1>2, <1>3 DEF LinesOf
<1>5. \A k \in LinesOf(o) : Shown(u[k]) = Shown(o[k])
  BY <1>2, <1>3 DEF LinesOf
<1>6. {Shown(u[k]) : k \in LinesOf(u)} = {Shown(o[k]) : k \in LinesOf(o)}
  BY <1>4, <1>5
<1>7. Sum(Bytes(u)) = Sum(Bytes(o))
  BY <1>2
<1>8. \A k, m \in LinesOf(u) : Shown(u[k]) = Shown(u[m]) => k = m
  BY <1>4, <1>5 DEF Output
<1>9. Output(e, u, S, t)
  BY <1>2, <1>6, <1>7, <1>8 DEF Output
<1> QED BY <1>9 DEF u

(* Nothing is written at first.                                            *)
LEMMA OutputEmpty ==
  ASSUME NEW e
  PROVE  Output(e, <<>>, {}, 0)
<1>1. LinesOf(<<>>) = {} /\ <<>> \in Seq(Entries(e)) /\ Bytes(<<>>) = <<>>
  BY DEF LinesOf, Bytes
<1>2. Sum(<<>>) = 0
  <2>1. <<>> \in Seq(Nat) /\ 0 \in Nat
    OBVIOUS
  <2> QED BY <2>1, SumAppend
<1> QED BY <1>1, <1>2 DEF Output

-----------------------------------------------------------------------------
(* The lines of a zone.                                                    *)

(* The blocks in use among the first n blocks of a zone.                   *)
BlockAddress(z, k) == z.memory + (k - 1) * (z.block_size + WORD)

BlocksIn(z, n) ==
  {<<BlockAddress(z, k), z.requested_sizes[k]>> : k \in {i \in 1 .. n : z.requested_sizes[i] > 0}}

(* A zone that may be shown: its blocks are as long as they have to be and *)
(* it ends in user space.                                                  *)
Showable(z) ==
  /\ z \in Zones
  /\ \A k \in DOMAIN z.requested_sizes : z.requested_sizes[k] <= z.block_size
  /\ z.memory + Len(z.requested_sizes) * (z.block_size + WORD) < USER_TOP

(* The blocks of a zone lie in the zone, and no two at the same address.   *)
LEMMA BlockPlaces ==
  ASSUME NEW z, Showable(z), NEW k \in 1 .. Len(z.requested_sizes)
  PROVE  /\ BlockAddress(z, k) \in Nat /\ z.requested_sizes[k] \in Nat
         /\ <<BlockAddress(z, k), z.requested_sizes[k]>> \in Blocks
         /\ z.memory <= BlockAddress(z, k)
         /\ BlockAddress(z, k) < z.memory + Len(z.requested_sizes) * (z.block_size + WORD)
         /\ \A j \in 1 .. Len(z.requested_sizes) :
              BlockAddress(z, j) = BlockAddress(z, k) => j = k
<1> DEFINE L == Len(z.requested_sizes)
           d == z.block_size + WORD
           r == z.requested_sizes[k]
           m == z.memory
<1>1. /\ L \in Nat /\ m \in Nat /\ d \in Nat /\ d > 0 /\ r \in Nat /\ r <= d
      /\ k \in 1 .. L /\ m + L * d < USER_TOP
  BY ShowAssumption DEF Showable, Zones
<1>2. BlockAddress(z, k) = m + (k - 1) * d
  BY DEF BlockAddress
<1>3. \A j \in 1 .. L : BlockAddress(z, j) = m + (j - 1) * d
  BY DEF BlockAddress
<1> HIDE DEF L, d, r, m
<1>4. (k - 1) * d \in Nat /\ (k - 1) * d + d <= L * d /\ L * d \in Nat
  BY <1>1
<1>5. USER_TOP \in Nat
  BY UserTop
<1> DEFINE q == (k - 1) * d
           w == L * d
<1>6. q \in Nat /\ w \in Nat /\ q + d <= w /\ m + w < USER_TOP
  BY <1>1, <1>4
<1> HIDE DEF q, w
<1>7. m + q \in Nat /\ m <= m + q /\ m + q < m + w /\ (m + q) + r < USER_TOP
  BY <1>1, <1>5, <1>6
<1>8. ASSUME NEW j \in 1 .. L, m + (j - 1) * d = m + (k - 1) * d
      PROVE  j = k
  <2>1. (j - 1) * d = (k - 1) * d
    <3> DEFINE x == (j - 1) * d
               y == (k - 1) * d
    <3>1. x \in Int /\ y \in Int /\ m + x = m + y
      BY <1>1, <1>8
    <3> HIDE DEF x, y
    <3>2. x = y
      BY <1>1, <3>1
    <3> QED BY <3>2 DEF x, y
  <2>2. CASE j < k
    <3>1. (k - 1) * d > (j - 1) * d
      BY <1>1, <2>2
    <3> QED BY <1>1, <2>1, <3>1
  <2>3. CASE k < j
    <3>1. (j - 1) * d > (k - 1) * d
      BY <1>1, <2>3
    <3> QED BY <1>1, <2>1, <3>1
  <2> QED BY <1>1, <2>2, <2>3
<1>9. <<m + q, r>> \in Blocks
  BY <1>1, <1>7 DEF Blocks
<1>10. BlockAddress(z, k) = m + q
  BY <1>2 DEF q
<1>11. \A j \in 1 .. L : BlockAddress(z, j) = BlockAddress(z, k) => j = k
  BY <1>2, <1>3, <1>8
<1>12. m + w = m + L * d
  BY DEF w
<1>13. /\ m + q \in Nat /\ r \in Nat /\ <<m + q, r>> \in Blocks /\ m <= m + q /\ m + q < m + w
  BY <1>1, <1>7, <1>9
<1> QED BY <1>10, <1>11, <1>12, <1>13 DEF L, d, r, m

(* One block more of a zone.                                               *)
LEMMA BlocksInNext ==
  ASSUME NEW z, Showable(z), NEW k \in Nat, k + 1 <= Len(z.requested_sizes)
  PROVE  /\ z.requested_sizes[k + 1] = 0 => BlocksIn(z, k + 1) = BlocksIn(z, k)
         /\ z.requested_sizes[k + 1] # 0 =>
              /\ BlocksIn(z, k + 1)
                   = BlocksIn(z, k) \cup {<<BlockAddress(z, k + 1), z.requested_sizes[k + 1]>>}
              /\ <<BlockAddress(z, k + 1), z.requested_sizes[k + 1]>> \notin BlocksIn(z, k)
<1> DEFINE L == Len(z.requested_sizes)
           U(n) == {i \in 1 .. n : z.requested_sizes[i] > 0}
           pair(i) == <<BlockAddress(z, i), z.requested_sizes[i]>>
<1>1. L \in Nat /\ k + 1 \in 1 .. L /\ z.requested_sizes[k + 1] \in Nat
  <2>1. L \in Nat
    BY DEF Showable, Zones
  <2>2. k + 1 \in 1 .. L
    BY <2>1
  <2> QED BY <2>1, <2>2, BlockPlaces
<1>2. \A n : BlocksIn(z, n) = {pair(i) : i \in U(n)}
  BY DEF BlocksIn
<1>3. CASE z.requested_sizes[k + 1] = 0
  <2>1. U(k + 1) = U(k)
    BY <1>1, <1>3
  <2> QED BY <1>2, <1>3, <2>1
<1>4. CASE z.requested_sizes[k + 1] # 0
  <2>1. U(k + 1) = U(k) \cup {k + 1}
    BY <1>1, <1>4
  <2>2. {pair(i) : i \in U(k + 1)} = {pair(i) : i \in U(k)} \cup {pair(k + 1)}
    <3> HIDE DEF U, pair
    <3> QED BY <2>1
  <2>3. ASSUME NEW i \in U(k)
        PROVE  BlockAddress(z, i) # BlockAddress(z, k + 1)
    <3>1. i \in 1 .. L /\ i # k + 1
      BY <1>1
    <3> QED BY <1>1, <3>1, BlockPlaces
  <2>4. pair(k + 1) \notin {pair(i) : i \in U(k)}
    BY <2>3
  <2> QED BY <1>2, <1>4, <2>2, <2>4
<1> QED BY <1>3, <1>4

(* show_zone writes a line for every block in use of the zone and returns  *)
(* the sum of their bytes.                                                 *)
LEMMA ZoneShown ==
  ASSUME NEW z, Showable(z), NEW o, NEW S, NEW t \in Nat, Output(ex, o, S, t),
         S \cap BlocksIn(z, Len(z.requested_sizes)) = {}
  PROVE  Output(ex, o \o zone_lines(z), S \cup BlocksIn(z, Len(z.requested_sizes)),
                t + zone_total(z))
<1> DEFINE rs == z.requested_sizes
           L == Len(rs)
           E == Entries(ex)
           ss == [k \in 1 .. L |-> IF rs[k] = 0 THEN <<>> ELSE <<LineOf(ex, BlockAddress(z, k), rs[k])>>]
<1>1. rs \in Seq(Nat) /\ L \in Nat /\ DOMAIN rs = 1 .. L /\ o \in Seq(E)
  BY DEF Showable, Zones, Output
<1>2. \A k \in 1 .. L : LineOf(ex, BlockAddress(z, k), rs[k]) \in E
  <2> TAKE k \in 1 .. L
  <2>1. <<BlockAddress(z, k), rs[k]>> \in Blocks
    BY BlockPlaces
  <2> DEFINE p == <<BlockAddress(z, k), rs[k]>>
  <2>2. LineOf(ex, p[1], p[2]) \in LineEntries(ex)
    <3> HIDE DEF p
    <3>1. p \in Blocks
      BY <2>1 DEF p
    <3> QED BY <3>1 DEF LineEntries
  <2> QED BY <2>2 DEF Entries
<1>3. zone_lines(z) = FlattenSeq(ss)
  <2>1. \A k \in 1 .. L : calculate_zone_block_address(z, k - 1) = BlockAddress(z, k)
    BY DEF calculate_zone_block_address, BlockAddress
  <2>2. \A a, b : line(a, b) = LineOf(ex, a, b)
    BY DEF line, LineOf
  <2>3. ss = [k \in DOMAIN z.requested_sizes |->
                IF z.requested_sizes[k] = 0 THEN <<>>
                ELSE <<line(calculate_zone_block_address(z, k - 1), z.requested_sizes[k])>>]
    BY <1>1, <2>1, <2>2
  <2> QED BY <2>3 DEF zone_lines
<1>4. ss \in Seq(Seq(E)) /\ Len(ss) = L
  <2>1. \A k \in 1 .. L : ss[k] \in Seq(E)
    <3> HIDE DEF E
    <3> QED BY <1>2
  <2>2. ss \in [1 .. L -> Seq(E)]
    BY <2>1
  <2> QED BY <1>1, <2>2
<1>5. PICK f : Flattens(E, ss, f)
  <2> HIDE DEF ss, E
  <2> QED BY <1>4, FlattenParts
<1>6. f[0] = <<>> /\ FlattenSeq(ss) = f[L]
  <2> HIDE DEF ss, E
  <2> QED BY <1>4, <1>5 DEF Flattens
<1>7. ASSUME NEW k \in 1 .. L
       PROVE  f[k] = f[k - 1] \o ss[k] /\ f[k - 1] \in Seq(E)
  <2> HIDE DEF ss, E
  <2>1. k - 1 \in 0 .. Len(ss) /\ k \in 1 .. Len(ss)
    BY <1>1, <1>4
  <2> QED BY <1>5, <2>1 DEF Flattens
<1>8. PICK p : Steps(L, Nat, 0, SumStep(rs), p) /\ Sum(rs) = p[L]
  BY <1>1, SumSteps
<1>9. \A k \in 1 .. L : p[k] = p[k - 1] + rs[k] /\ p[k - 1] \in Nat
  <2> TAKE k \in 1 .. L
  <2>1. p[k] = SumStep(rs)[k][p[k - 1]] /\ p[k - 1] \in Nat
    BY <1>8 DEF Steps
  <2> QED BY <2>1 DEF SumStep
<1> DEFINE T == {k \in Nat : k <= L => Output(ex, o \o f[k], S \cup BlocksIn(z, k), t + p[k])}
<1>10. 0 \in T
  <2>1. BlocksIn(z, 0) = {}
    BY DEF BlocksIn
  <2>2. p[0] = 0
    BY <1>8 DEF Steps
  <2>3. o \o <<>> = o
    BY <1>1, ConcatEmptySeq
  <2>4. S \cup {} = S /\ t + 0 = t
    OBVIOUS
  <2> QED BY <1>6, <2>1, <2>2, <2>3, <2>4
<1>11. ASSUME NEW k \in T
      PROVE  k + 1 \in T
  <2>1. ASSUME k + 1 <= L
        PROVE  Output(ex, o \o f[k + 1], S \cup BlocksIn(z, k + 1), t + p[k + 1])
    <3> DEFINE a == BlockAddress(z, k + 1)
               b == rs[k + 1]
               u == o \o f[k]
    <3>1. k \in Nat /\ k + 1 \in 1 .. L /\ (k + 1) - 1 = k /\ k <= L
      BY <1>1, <2>1
    <3>2. Output(ex, u, S \cup BlocksIn(z, k), t + p[k]) /\ p[k] \in Nat /\ p[k + 1] = p[k] + b
      BY <1>9, <3>1
    <3>3. f[k + 1] = f[k] \o ss[k + 1] /\ f[k] \in Seq(E)
      <4> HIDE DEF ss, E
      <4> QED BY <1>7, <3>1
    <3>4. CASE b = 0
      <4>1. ss[k + 1] = <<>>
        BY <3>1, <3>4
      <4>2. f[k + 1] = f[k]
        <5> HIDE DEF ss, E
        <5> QED BY <3>3, <4>1, ConcatEmptySeq
      <4>3. BlocksIn(z, k + 1) = BlocksIn(z, k)
        BY <3>1, <3>4, <2>1, BlocksInNext
      <4>4. t + p[k + 1] = t + p[k]
        BY <3>2, <3>4
      <4> QED BY <3>2, <4>2, <4>3, <4>4
    <3>5. CASE b # 0
      <4> DEFINE l == LineOf(ex, a, b)
      <4>1. ss[k + 1] = <<l>> /\ l \in E
        BY <1>2, <3>1, <3>5
      <4>2. o \o f[k + 1] = Append(u, l)
        <5>1. o \o (f[k] \o <<l>>) = Append(o \o f[k], l)
          <6>1. o \in Seq(E) /\ f[k] \in Seq(E) /\ l \in E
            BY <1>1, <3>3, <4>1
          <6> HIDE DEF E, l
          <6> QED BY <6>1, ConcatAppend
        <5> HIDE DEF ss, E, l, u
        <5> QED BY <3>3, <4>1, <5>1 DEF u
      <4>3. /\ BlocksIn(z, k + 1) = BlocksIn(z, k) \cup {<<a, b>>}
            /\ <<a, b>> \notin BlocksIn(z, k)
        BY <2>1, <3>1, <3>5, BlocksInNext
      <4>4. <<a, b>> \in Blocks /\ a \in Nat /\ b \in Nat
        BY <3>1, BlockPlaces
      <4>5. <<a, b>> \in BlocksIn(z, L)
        <5>1. k + 1 \in {i \in 1 .. L : z.requested_sizes[i] > 0}
          BY <3>1, <3>5, <4>4
        <5> QED BY <5>1 DEF BlocksIn
      <4>6. <<a, b>> \notin S \cup BlocksIn(z, k)
        BY <4>3, <4>5
      <4> DEFINE V == S \cup BlocksIn(z, k)
                 w == t + p[k]
      <4>7. Output(ex, Append(u, l), V \cup {<<a, b>>}, w + b)
        <5>1. Output(ex, u, V, w) /\ <<a, b>> \notin V
          BY <3>2, <4>6
        <5> HIDE DEF u, V, w, a, b
        <5> QED BY <4>4, <5>1, OutputLine
      <4>8. V \cup {<<a, b>>} = S \cup BlocksIn(z, k + 1)
        BY <4>3
      <4>9. w + b = t + p[k + 1]
        BY <3>2, <4>4
      <4> QED BY <4>2, <4>7, <4>8, <4>9
    <3> QED BY <3>4, <3>5
  <2> QED BY <2>1
<1>12. T = Nat
  <2>1. T \in SUBSET Nat
    OBVIOUS
  <2> HIDE DEF T
  <2> QED BY <1>10, <1>11, <2>1, Induction
<1>13. L \in T
  BY <1>1, <1>12
<1>14. Output(ex, o \o f[L], S \cup BlocksIn(z, L), t + p[L])
  <2>1. L <= L
    BY <1>1
  <2> QED BY <1>13, <2>1, Zenon
<1>15. zone_total(z) = p[L]
  BY <1>8 DEF zone_total, Sum
<1> QED BY <1>3, <1>6, <1>14, <1>15

-----------------------------------------------------------------------------
(* The rows of a dump.                                                     *)

(* The m addresses from a on.                                              *)
From(a, m) == [n \in 1 .. m |-> a + n - 1]

(* Two ranges of addresses, one right behind the other.                    *)
LEMMA FromJoined ==
  ASSUME NEW a \in Nat, NEW m \in Nat, NEW c \in Nat
  PROVE  /\ From(a, m) \in Seq(Nat) /\ Len(From(a, m)) = m
         /\ From(a, m) \o From(a + m, c) = From(a, m + c)
<1>1. \A x, y \in Nat : From(x, y) \in Seq(Nat) /\ Len(From(x, y)) = y
  BY DEF From
<1>2. \A x, y \in Nat : \A n \in 1 .. y : From(x, y)[n] = x + n - 1
  BY DEF From
<1> DEFINE s == From(a, m)
           t == From(a + m, c)
           u == From(a, m + c)
<1>3. /\ s \in Seq(Nat) /\ Len(s) = m /\ t \in Seq(Nat) /\ Len(t) = c
      /\ u \in Seq(Nat) /\ Len(u) = m + c
  <2>1. a + m \in Nat /\ m + c \in Nat
    OBVIOUS
  <2> HIDE DEF From
  <2> QED BY <1>1, <2>1
<1>4. /\ \A n \in 1 .. m : s[n] = a + n - 1
      /\ \A n \in 1 .. c : t[n] = a + m + n - 1
      /\ \A n \in 1 .. m + c : u[n] = a + n - 1
  <2>1. a + m \in Nat /\ m + c \in Nat
    OBVIOUS
  <2> QED BY <1>2, <2>1
<1> HIDE DEF s, t, u
<1>5. /\ s \o t \in Seq(Nat) /\ Len(s \o t) = m + c
      /\ \A n \in 1 .. m + c : (s \o t)[n] = IF n <= m THEN s[n] ELSE t[n - m]
  BY <1>3, ConcatProperties
<1>6. ASSUME NEW n \in 1 .. Len(u)
      PROVE  (s \o t)[n] = u[n]
  <2>1. CASE n <= m
    BY <1>3, <1>4, <1>5, <2>1
  <2>2. CASE n > m
    BY <1>3, <1>4, <1>5, <2>2
  <2> QED BY <1>3, <2>1, <2>2
<1>7. s \o t = u
  <2> DEFINE v == s \o t
  <2>1. v \in Seq(Nat) /\ Len(v) = Len(u) /\ \A n \in 1 .. Len(v) : v[n] = u[n]
    BY <1>3, <1>5, <1>6
  <2> HIDE DEF v
  <2>2. v = u
    BY <1>3, <2>1, SeqEqual
  <2> QED BY <2>2 DEF v
<1> QED BY <1>3, <1>7 DEF s, t, u

(* hex_dump shows every byte once.                                         *)
LEMMA DumpRows ==
  ASSUME NEW a \in Nat, NEW b \in Nat
  PROVE  /\ FlattenSeq([r \in DOMAIN hex_dump(a, b) |-> hex_dump(a, b)[r].cells]) = From(a, b)
         /\ \A r \in DOMAIN hex_dump(a, b) :
              (hex_dump(a, b)[r].cells[1] - a) % OFFSETS = hex_dump(a, b)[r].offset
<1> DEFINE R == (b + ROW - 1) \div ROW
           at0(r) == (r - 1) * ROW
           width(r) == Min({ROW, b - at0(r)})
           ss == [r \in 1 .. R |-> From(a + at0(r), width(r))]
<1>1. /\ ROW \in Nat /\ ROW > 0 /\ R \in Nat
      /\ ROW * R <= b + ROW - 1 /\ b <= ROW * R
  <2>1. ROW \in Nat /\ ROW > 0
    BY ShowAssumption
  <2> DEFINE x == b + ROW - 1
  <2>2. x \in Nat
    BY <2>1
  <2> HIDE DEF x
  <2>3. x \div ROW \in Nat /\ ROW * (x \div ROW) <= x /\ x - ROW < ROW * (x \div ROW)
    BY <2>1, <2>2
  <2> DEFINE q == x \div ROW
             w == ROW * q
  <2>4. q \in Nat /\ w \in Nat /\ w <= x /\ x - ROW < w
    BY <2>1, <2>3
  <2> HIDE DEF q, w
  <2>5. x = b + ROW - 1
    BY DEF x
  <2>6. w <= b + ROW - 1 /\ b <= w
    BY <2>1, <2>4, <2>5
  <2> QED BY <2>1, <2>4, <2>6 DEF w, q, x
<1> HIDE DEF R
<1>2. ASSUME NEW r \in 1 .. R
      PROVE  /\ at0(r) \in Nat /\ at0(r) < b
             /\ width(r) = IF at0(r) + ROW <= b THEN ROW ELSE b - at0(r)
             /\ width(r) \in Nat \ {0}
  <2>1. (r - 1) * ROW \in Nat /\ (r - 1) * ROW + ROW <= R * ROW
    BY <1>1
  <2>2. R * ROW = ROW * R
    BY <1>1
  <2> DEFINE x == (r - 1) * ROW
             y == ROW * R
  <2>3. x \in Nat /\ x + ROW <= y /\ y \in Nat /\ y <= b + ROW - 1
    BY <1>1, <2>1, <2>2
  <2>4. at0(r) = x
    OBVIOUS
  <2> HIDE DEF x, y
  <2>5. x < b
    BY <1>1, <2>3
  <2>6. Min({ROW, b - x}) = IF ROW <= b - x THEN ROW ELSE b - x
    <3>1. b - x \in Nat
      BY <2>3, <2>5
    <3> QED BY <1>1, <3>1, MinOfTwo
  <2>7. width(r) = Min({ROW, b - x})
    BY <2>4
  <2> HIDE DEF at0, width
  <2> QED BY <1>1, <2>3, <2>4, <2>5, <2>6, <2>7
<1>3. /\ DOMAIN hex_dump(a, b) = 1 .. R
      /\ \A r \in 1 .. R : /\ hex_dump(a, b)[r].cells = From(a + at0(r), width(r))
                           /\ hex_dump(a, b)[r].offset = at0(r) % OFFSETS
  BY DEF hex_dump, From, R
<1> HIDE DEF at0, width
<1>4. [r \in DOMAIN hex_dump(a, b) |-> hex_dump(a, b)[r].cells] = ss
  BY <1>3
<1>5. ss \in Seq(Seq(Nat)) /\ Len(ss) = R
  <2>1. \A r \in 1 .. R : From(a + at0(r), width(r)) \in Seq(Nat)
    <3> TAKE r \in 1 .. R
    <3>1. a + at0(r) \in Nat /\ width(r) \in Nat
      BY <1>2
    <3> QED BY <3>1, FromJoined
  <2>2. ss \in [1 .. R -> Seq(Nat)]
    BY <2>1
  <2> QED BY <1>1, <2>2
<1>6. \A r \in 1 .. R : ss[r] = From(a + at0(r), width(r))
  OBVIOUS
<1> HIDE DEF ss
<1>7. PICK f : Flattens(Nat, ss, f)
  BY <1>5, FlattenParts
<1>8. f[0] = <<>> /\ FlattenSeq(ss) = f[R] /\ \A r \in 1 .. R : f[r] = f[r - 1] \o ss[r]
  BY <1>5, <1>7 DEF Flattens
<1> DEFINE upto(r) == IF r * ROW <= b THEN r * ROW ELSE b
           T == {r \in Nat : r <= R => f[r] = From(a, upto(r))}
<1>9. 0 \in T
  <2>1. From(a, 0) = <<>>
    <3>1. From(a, 0) \in Seq(Nat) /\ Len(From(a, 0)) = 0
      BY FromJoined
    <3> QED BY <3>1
  <2>2. upto(0) = 0
    BY <1>1
  <2> QED BY <1>8, <2>1, <2>2
<1>10. ASSUME NEW r \in T
       PROVE  r + 1 \in T
  <2>1. ASSUME r + 1 <= R
        PROVE  f[r + 1] = From(a, upto(r + 1))
    <3>1. r \in Nat /\ r + 1 \in 1 .. R /\ (r + 1) - 1 = r /\ r <= R
      BY <1>1, <2>1
    <3> DEFINE m == at0(r + 1)
               c == width(r + 1)
    <3>2. m = r * ROW
      BY <3>1 DEF at0
    <3>3. /\ m \in Nat /\ m < b /\ c \in Nat
          /\ c = IF m + ROW <= b THEN ROW ELSE b - m
      BY <1>2, <3>1
    <3>4. upto(r) = m
      BY <3>2, <3>3
    <3>5. upto(r + 1) = m + c
      <4>1. (r + 1) * ROW = m + ROW
        BY <1>1, <3>1, <3>2
      <4> HIDE DEF m, c
      <4> QED BY <1>1, <3>3, <4>1
    <3>6. f[r] = From(a, m) /\ f[r + 1] = f[r] \o From(a + m, c)
      <4>1. f[r] = From(a, upto(r))
        BY <3>1
      <4>2. f[r + 1] = f[r] \o ss[r + 1]
        BY <1>8, <3>1
      <4> QED BY <1>6, <3>1, <3>4, <4>1, <4>2
    <3>7. From(a, m) \o From(a + m, c) = From(a, m + c)
      BY <3>3, FromJoined
    <3> HIDE DEF m, c, upto
    <3> QED BY <3>5, <3>6, <3>7
  <2> QED BY <2>1
<1>11. T = Nat
  <2>1. T \in SUBSET Nat
    OBVIOUS
  <2> HIDE DEF T
  <2> QED BY <1>9, <1>10, <2>1, Induction
<1>12. f[R] = From(a, upto(R))
  <2>1. R \in T /\ R <= R
    BY <1>1, <1>11
  <2> HIDE DEF upto
  <2> QED BY <2>1, Zenon
<1>13. upto(R) = b
  <2>1. R * ROW = ROW * R
    BY <1>1
  <2> DEFINE y == ROW * R
  <2>2. y \in Nat /\ b <= y
    BY <1>1
  <2> HIDE DEF y
  <2>3. (IF y <= b THEN y ELSE b) = b
    BY <2>2
  <2> QED BY <2>1, <2>3 DEF y
<1>14. ASSUME NEW r \in DOMAIN hex_dump(a, b)
       PROVE  (hex_dump(a, b)[r].cells[1] - a) % OFFSETS = hex_dump(a, b)[r].offset
  <2>1. r \in 1 .. R
    BY <1>3
  <2>2. 1 \in 1 .. width(r) /\ at0(r) \in Nat
    BY <1>2, <2>1
  <2>3. From(a + at0(r), width(r))[1] = a + at0(r) + 1 - 1
    BY <2>2 DEF From
  <2>4. From(a + at0(r), width(r))[1] - a = at0(r)
    BY <2>2, <2>3
  <2> QED BY <1>3, <2>1, <2>4
<1> QED BY <1>4, <1>8, <1>12, <1>13, <1>14

-----------------------------------------------------------------------------
(* The items of the walk.                                                  *)

(* The items of a walk.                                                    *)
ZoneItems == {[kind |-> "zone", what |-> z] : z \in Zones}

BlockItems == {[kind |-> "block", what |-> b] : b \in LargeBlocks}

HeadingItems == {[kind |-> "heading", what |-> a] : a \in Nat}

Items == ZoneItems \cup BlockItems \cup HeadingItems

(* The elements of two sequences joined.                                   *)
LEMMA ConcatRange ==
  ASSUME NEW S, NEW s \in Seq(S), NEW t \in Seq(S)
  PROVE  s \o t \in Seq(S) /\ Range(s \o t) = Range(s) \cup Range(t)
<1> DEFINE u == s \o t
<1>1. /\ u \in Seq(S) /\ Len(u) = Len(s) + Len(t) /\ Len(s) \in Nat /\ Len(t) \in Nat
      /\ \A k \in 1 .. Len(s) + Len(t) : u[k] = IF k <= Len(s) THEN s[k] ELSE t[k - Len(s)]
  BY ConcatProperties
<1> HIDE DEF u
<1>2. DOMAIN u = 1 .. Len(s) + Len(t) /\ DOMAIN s = 1 .. Len(s) /\ DOMAIN t = 1 .. Len(t)
  BY <1>1
<1>3. ASSUME NEW x \in Range(u)
      PROVE  x \in Range(s) \cup Range(t)
  <2>1. PICK k \in 1 .. Len(s) + Len(t) : x = u[k]
    BY <1>2 DEF Range
  <2>2. CASE k <= Len(s)
    BY <1>1, <1>2, <2>1, <2>2 DEF Range
  <2>3. CASE k > Len(s)
    <3>1. k - Len(s) \in 1 .. Len(t) /\ x = t[k - Len(s)]
      BY <1>1, <2>1, <2>3
    <3> QED BY <1>2, <3>1 DEF Range
  <2> QED BY <1>1, <2>2, <2>3
<1>4. ASSUME NEW x \in Range(s)
      PROVE  x \in Range(u)
  <2>1. PICK k \in 1 .. Len(s) : x = s[k]
    BY <1>2 DEF Range
  <2>2. k \in DOMAIN u /\ u[k] = x
    BY <1>1, <1>2, <2>1
  <2> QED BY <2>2 DEF Range
<1>5. ASSUME NEW x \in Range(t)
      PROVE  x \in Range(u)
  <2>1. PICK k \in 1 .. Len(t) : x = t[k]
    BY <1>2 DEF Range
  <2>2. k + Len(s) \in DOMAIN u /\ (k + Len(s)) - Len(s) = k /\ ~(k + Len(s) <= Len(s))
    BY <1>1, <1>2
  <2>3. u[k + Len(s)] = x
    BY <1>1, <1>2, <2>1, <2>2
  <2> QED BY <2>2, <2>3 DEF Range
<1> QED BY <1>1, <1>3, <1>4, <1>5 DEF u

(* items makes an item of every element of a list.                         *)
LEMMA ItemsRange ==
  ASSUME NEW S, NEW list \in Seq(S), NEW kind
  PROVE  /\ items(kind, list) \in Seq({[kind |-> kind, what |-> x] : x \in S})
         /\ Range(items(kind, list)) = {[kind |-> kind, what |-> x] : x \in Range(list)}
<1>1. DOMAIN list = 1 .. Len(list) /\ Len(list) \in Nat /\ \A k \in 1 .. Len(list) : list[k] \in S
  OBVIOUS
<1> DEFINE u == items(kind, list)
<1>2. u = [k \in 1 .. Len(list) |-> [kind |-> kind, what |-> list[k]]]
  BY <1>1 DEF items
<1>3. u \in Seq({[kind |-> kind, what |-> x] : x \in S})
  BY <1>1, <1>2
<1>4. Range(u) = {[kind |-> kind, what |-> x] : x \in Range(list)}
  BY <1>1, <1>2 DEF Range
<1> QED BY <1>3, <1>4

ZonesOf(h) ==
  Range(h.free_tiny) \cup Range(h.full_tiny) \cup Range(h.free_small) \cup Range(h.full_small)

(* The walk visits every zone and large block and nothing else.            *)
LEMMA WalkRange ==
  ASSUME NEW h \in Heaps
  PROVE  /\ walk(h) \in Seq(Items)
         /\ ZonesOf(h) \subseteq Zones /\ Range(h.large) \subseteq LargeBlocks
         /\ \A z : [kind |-> "zone", what |-> z] \in Range(walk(h)) <=> z \in ZonesOf(h)
         /\ \A b : [kind |-> "block", what |-> b] \in Range(walk(h)) <=> b \in Range(h.large)
         /\ \A x \in Range(walk(h)) \cap HeadingItems :
              x.what = 0 \/ (\E z \in ZonesOf(h) : x.what = z.address)
                         \/ (\E b \in Range(h.large) : x.what = b.address)
<1> DEFINE A1 == heading(h.free_tiny, h.full_tiny)
           A2 == items("zone", h.free_tiny)
           A3 == items("zone", h.full_tiny)
           A4 == heading(h.free_small, h.full_small)
           A5 == items("zone", h.free_small)
           A6 == items("zone", h.full_small)
           A7 == heading(h.large, <<>>)
           A8 == items("block", h.large)
           Z(list) == {[kind |-> "zone", what |-> x] : x \in Range(list)}
           H(a) == {[kind |-> "heading", what |-> a]}
           a1 == first_address(h.free_tiny, h.full_tiny)
           a2 == first_address(h.free_small, h.full_small)
           a3 == first_address(h.large, <<>>)
<1>1. /\ h.free_tiny \in Seq(Zones) /\ h.full_tiny \in Seq(Zones)
      /\ h.free_small \in Seq(Zones) /\ h.full_small \in Seq(Zones)
      /\ h.large \in Seq(LargeBlocks)
  BY HeapsAssumption
<1>2. /\ A2 \in Seq(Items) /\ Range(A2) = Z(h.free_tiny)
      /\ A3 \in Seq(Items) /\ Range(A3) = Z(h.full_tiny)
      /\ A5 \in Seq(Items) /\ Range(A5) = Z(h.free_small)
      /\ A6 \in Seq(Items) /\ Range(A6) = Z(h.full_small)
  <2>1. ASSUME NEW list \in Seq(Zones)
        PROVE  items("zone", list) \in Seq(Items) /\ Range(items("zone", list)) = Z(list)
    <3>1. items("zone", list) \in Seq(ZoneItems)
      BY ItemsRange DEF ZoneItems
    <3>2. items("zone", list) \in Seq(Items)
      BY <3>1 DEF Items
    <3> QED BY <3>2, ItemsRange
  <2> HIDE DEF Z
  <2> QED BY <1>1, <2>1
<1>3. A8 \in Seq(Items) /\ Range(A8) = {[kind |-> "block", what |-> x] : x \in Range(h.large)}
  <2>1. A8 \in Seq(BlockItems)
    BY <1>1, ItemsRange DEF BlockItems
  <2>2. A8 \in Seq(Items)
    BY <2>1 DEF Items
  <2> QED BY <1>1, <2>2, ItemsRange
<1>4. ASSUME NEW S, NEW free \in Seq(S), NEW full \in Seq(S), \A x \in S : x.address \in Nat
      PROVE  /\ first_address(free, full) \in Nat
             /\ first_address(free, full) = 0
                  \/ \E x \in Range(free) \cup Range(full) : first_address(free, full) = x.address
  <2>1. \A s \in Seq(S) : s # <<>> => s[1] \in Range(s) /\ s[1] \in S
    BY DEF Range
  <2> QED BY <1>4, <2>1 DEF first_address
<1>5. /\ a1 \in Nat /\ (a1 = 0 \/ \E z \in ZonesOf(h) : a1 = z.address)
      /\ a2 \in Nat /\ (a2 = 0 \/ \E z \in ZonesOf(h) : a2 = z.address)
      /\ a3 \in Nat /\ (a3 = 0 \/ \E b \in Range(h.large) : a3 = b.address)
  <2>1. (\A x \in Zones : x.address \in Nat) /\ (\A x \in LargeBlocks : x.address \in Nat)
    BY DEF Zones, LargeBlocks
  <2>2. /\ a1 \in Nat
        /\ a1 = 0 \/ \E x \in Range(h.free_tiny) \cup Range(h.full_tiny) : a1 = x.address
    BY <1>1, <1>4, <2>1
  <2>3. /\ a2 \in Nat
        /\ a2 = 0 \/ \E x \in Range(h.free_small) \cup Range(h.full_small) : a2 = x.address
    BY <1>1, <1>4, <2>1
  <2>4. /\ a3 \in Nat
        /\ a3 = 0 \/ \E x \in Range(h.large) \cup Range(<<>>) : a3 = x.address
    <3>1. <<>> \in Seq(LargeBlocks)
      OBVIOUS
    <3> QED BY <1>1, <1>4, <2>1, <3>1
  <2>5. Range(<<>>) = {}
    BY DEF Range
  <2> HIDE DEF a1, a2, a3
  <2> QED BY <2>2, <2>3, <2>4, <2>5 DEF ZonesOf
<1>6. /\ A1 \in Seq(Items) /\ Range(A1) = H(a1)
      /\ A4 \in Seq(Items) /\ Range(A4) = H(a2)
      /\ A7 \in Seq(Items) /\ Range(A7) = H(a3)
  <2>1. /\ A1 = <<[kind |-> "heading", what |-> a1]>>
        /\ A4 = <<[kind |-> "heading", what |-> a2]>>
        /\ A7 = <<[kind |-> "heading", what |-> a3]>>
    BY DEF heading
  <2>2. ASSUME NEW a \in Nat
        PROVE  /\ <<[kind |-> "heading", what |-> a]>> \in Seq(Items)
               /\ Range(<<[kind |-> "heading", what |-> a]>>) = H(a)
    <3> DEFINE x == [kind |-> "heading", what |-> a]
    <3>1. x \in Items
      BY DEF Items, HeadingItems
    <3> HIDE DEF x
    <3>2. <<x>> \in Seq(Items) /\ Range(<<x>>) = {x}
      BY <3>1 DEF Range
    <3> QED BY <3>2 DEF x
  <2> HIDE DEF a1, a2, a3, H
  <2> QED BY <1>5, <2>1, <2>2
<1> HIDE DEF A1, A2, A3, A4, A5, A6, A7, A8
<1>7. /\ walk(h) \in Seq(Items)
      /\ Range(walk(h)) = Range(A1) \cup Range(A2) \cup Range(A3) \cup Range(A4)
                            \cup Range(A5) \cup Range(A6) \cup Range(A7) \cup Range(A8)
  <2>1. walk(h) = A1 \o A2 \o A3 \o A4 \o A5 \o A6 \o A7 \o A8
    BY DEF walk, A1, A2, A3, A4, A5, A6, A7, A8
  <2> DEFINE B2 == A1 \o A2
             B3 == B2 \o A3
             B4 == B3 \o A4
             B5 == B4 \o A5
             B6 == B5 \o A6
             B7 == B6 \o A7
             B8 == B7 \o A8
  <2>2. B2 \in Seq(Items) /\ Range(B2) = Range(A1) \cup Range(A2)
    BY <1>2, <1>6, ConcatRange
  <2> HIDE DEF B2
  <2>3. B3 \in Seq(Items) /\ Range(B3) = Range(B2) \cup Range(A3)
    BY <1>2, <2>2, ConcatRange
  <2> HIDE DEF B3
  <2>4. B4 \in Seq(Items) /\ Range(B4) = Range(B3) \cup Range(A4)
    BY <1>6, <2>3, ConcatRange
  <2> HIDE DEF B4
  <2>5. B5 \in Seq(Items) /\ Range(B5) = Range(B4) \cup Range(A5)
    BY <1>2, <2>4, ConcatRange
  <2> HIDE DEF B5
  <2>6. B6 \in Seq(Items) /\ Range(B6) = Range(B5) \cup Range(A6)
    BY <1>2, <2>5, ConcatRange
  <2> HIDE DEF B6
  <2>7. B7 \in Seq(Items) /\ Range(B7) = Range(B6) \cup Range(A7)
    BY <1>6, <2>6, ConcatRange
  <2> HIDE DEF B7
  <2>8. B8 \in Seq(Items) /\ Range(B8) = Range(B7) \cup Range(A8)
    BY <1>3, <2>7, ConcatRange
  <2> HIDE DEF B8
  <2>9. walk(h) = B8
    BY <2>1 DEF B2, B3, B4, B5, B6, B7, B8
  <2> QED BY <2>2, <2>3, <2>4, <2>5, <2>6, <2>7, <2>8, <2>9
<1>8. Range(walk(h)) = {[kind |-> "zone", what |-> z] : z \in ZonesOf(h)}
                         \cup {[kind |-> "block", what |-> b] : b \in Range(h.large)}
                         \cup H(a1) \cup H(a2) \cup H(a3)
  <2> HIDE DEF H, a1, a2, a3
  <2> QED BY <1>2, <1>3, <1>6, <1>7 DEF ZonesOf
<1>9. ZonesOf(h) \subseteq Zones /\ Range(h.large) \subseteq LargeBlocks
  BY <1>1 DEF ZonesOf, Range
<1> HIDE DEF a1, a2, a3
<1>10. \A z : [kind |-> "zone", what |-> z] \in Range(walk(h)) <=> z \in ZonesOf(h)
  BY <1>8
<1>11. \A b : [kind |-> "block", what |-> b] \in Range(walk(h)) <=> b \in Range(h.large)
  BY <1>8
<1>12. \A x \in Range(walk(h)) \cap HeadingItems : x \in H(a1) \cup H(a2) \cup H(a3)
  BY <1>8 DEF HeadingItems
<1>13. \A x \in Range(walk(h)) \cap HeadingItems : x.what = a1 \/ x.what = a2 \/ x.what = a3
  BY <1>12
<1> QED BY <1>5, <1>7, <1>9, <1>10, <1>11, <1>13

-----------------------------------------------------------------------------
(* The blocks of the items, and that no two items share one.               *)

(* The blocks an item shows.                                               *)
LargeStart(b) == b.address + BLOCK_HEADER + WORD

BlocksOf(item) ==
  CASE item.kind = "zone" -> BlocksIn(item.what, Len(item.what.requested_sizes))
    [] item.kind = "block" -> {<<LargeStart(item.what), item.what.size>>}
    [] OTHER -> {}

(* Each item is of one kind, fits user space, and shows blocks in its own  *)
(* memory.                                                                 *)
LEMMA ItemKinds ==
  ASSUME NEW x \in Items
  PROVE  /\ x.kind = "zone" \/ x.kind = "block" \/ x.kind = "heading"
         /\ x.kind = "zone" => x.what \in Zones /\ x = [kind |-> "zone", what |-> x.what]
         /\ x.kind = "block" => x.what \in LargeBlocks /\ x = [kind |-> "block", what |-> x.what]
         /\ x.kind = "heading" <=> x \in HeadingItems
BY DEF Items, ZoneItems, BlockItems, HeadingItems

(* What HeapsAssumption says of one item of the walk.                      *)
LEMMA ItemFits ==
  ASSUME NEW h \in Heaps, NEW i \in 1 .. Len(walk(h))
  PROVE  /\ walk(h)[i] \in Items
         /\ walk(h)[i].kind = "zone" => Showable(walk(h)[i].what)
         /\ walk(h)[i].kind = "block" =>
              /\ LargeStart(walk(h)[i].what) \in Nat /\ walk(h)[i].what.size \in Nat
              /\ <<LargeStart(walk(h)[i].what), walk(h)[i].what.size>> \in Blocks
         /\ walk(h)[i].kind = "heading" => walk(h)[i].what \in 0 .. USER_TOP - 1
<1> DEFINE w == walk(h)
<1>1. /\ w \in Seq(Items) /\ DOMAIN w = 1 .. Len(w) /\ Len(w) \in Nat
      /\ \A j \in 1 .. Len(w) : w[j] \in Items
  BY WalkRange
<1>2. \A x \in Range(w) : \E j \in 1 .. Len(w) : x = w[j]
  BY <1>1 DEF Range
<1>3. ASSUME NEW j \in 1 .. Len(w), w[j].kind = "zone"
      PROVE  Showable(w[j].what) /\ w[j].what.address < USER_TOP
  <2> DEFINE z == w[j].what
  <2>1. z \in Zones
    BY <1>1, <1>3, ItemKinds
  <2>2. z.address <= z.memory /\ \A k \in DOMAIN z.requested_sizes : z.requested_sizes[k] <= z.block_size
    BY <1>1, <1>3, HeapsAssumption
  <2>3. after_byte(w[j]) < USER_TOP
    BY <1>1, <1>3, HeapsAssumption
  <2>4. after_byte(w[j]) = z.memory + Len(z.requested_sizes) * (z.block_size + WORD)
    BY <1>3 DEF after_byte
  <2>5. Showable(z)
    BY <2>1, <2>2, <2>3, <2>4 DEF Showable
  <2>6. z.address < USER_TOP
    <3> DEFINE n == Len(z.requested_sizes) * (z.block_size + WORD)
    <3>1. n \in Nat
      BY <2>1, ShowAssumption DEF Zones
    <3>2. z.address \in Nat /\ z.memory \in Nat /\ USER_TOP \in Nat
      BY <2>1, UserTop DEF Zones
    <3>3. z.memory + n < USER_TOP
      BY <2>3, <2>4
    <3> HIDE DEF n, z
    <3> QED BY <2>2, <3>1, <3>2, <3>3
  <2> QED BY <2>5, <2>6
<1>4. ASSUME NEW j \in 1 .. Len(w), w[j].kind = "block"
      PROVE  /\ w[j].what.address < USER_TOP
             /\ LargeStart(w[j].what) \in Nat /\ w[j].what.size \in Nat
             /\ <<LargeStart(w[j].what), w[j].what.size>> \in Blocks
  <2> DEFINE b == w[j].what
  <2>1. b \in LargeBlocks
    BY <1>1, <1>4, ItemKinds
  <2>2. after_byte(w[j]) < USER_TOP
    BY <1>1, <1>4, HeapsAssumption
  <2>3. after_byte(w[j]) = b.address + BLOCK_HEADER + WORD + b.size
    BY <1>4 DEF after_byte
  <2>4. b.address \in Nat /\ b.size \in Nat /\ BLOCK_HEADER \in Nat /\ WORD \in Nat /\ USER_TOP \in Nat
    BY <2>1, UserTop, ShowAssumption DEF LargeBlocks
  <2>5. LargeStart(b) = b.address + BLOCK_HEADER + WORD
    BY DEF LargeStart
  <2> HIDE DEF b
  <2>6. LargeStart(b) \in Nat /\ LargeStart(b) + b.size < USER_TOP /\ b.address < USER_TOP
    BY <2>2, <2>3, <2>4, <2>5
  <2>7. <<LargeStart(b), b.size>> \in Blocks
    BY <2>4, <2>6 DEF Blocks
  <2> QED BY <2>4, <2>6, <2>7 DEF b
<1>5. ASSUME w[i].kind = "heading"
      PROVE  w[i].what \in 0 .. USER_TOP - 1
  <2>1. USER_TOP \in Nat /\ 0 < USER_TOP
    BY UserTop
  <2>2. w[i] \in HeadingItems /\ w[i] \in Range(w)
    BY <1>1, <1>5, ItemKinds DEF Range
  <2>3. w[i].what \in Nat
    BY <2>2 DEF HeadingItems
  <2>4. \/ w[i].what = 0
        \/ \E z \in ZonesOf(h) : w[i].what = z.address
        \/ \E b \in Range(h.large) : w[i].what = b.address
    BY <2>2, WalkRange
  <2>5. CASE w[i].what = 0
    BY <2>1, <2>5
  <2>6. ASSUME NEW z \in ZonesOf(h), w[i].what = z.address
        PROVE  w[i].what < USER_TOP
    <3>1. [kind |-> "zone", what |-> z] \in Range(w)
      BY WalkRange
    <3>2. PICK j \in 1 .. Len(w) : w[j] = [kind |-> "zone", what |-> z]
      BY <1>2, <3>1
    <3> QED BY <1>3, <2>6, <3>2
  <2>7. ASSUME NEW b \in Range(h.large), w[i].what = b.address
        PROVE  w[i].what < USER_TOP
    <3>1. [kind |-> "block", what |-> b] \in Range(w)
      BY WalkRange
    <3>2. PICK j \in 1 .. Len(w) : w[j] = [kind |-> "block", what |-> b]
      BY <1>2, <3>1
    <3>3. w[j].kind = "block" /\ w[j].what = b
      BY <3>2
    <3>4. w[j].what.address < USER_TOP
      BY <1>4, <3>3
    <3> QED BY <2>7, <3>3, <3>4
  <2> QED BY <2>1, <2>3, <2>4, <2>5, <2>6, <2>7
<1> QED BY <1>1, <1>3, <1>4, <1>5

(* The blocks of an item start in its memory.                              *)
LEMMA ItemBlocks ==
  ASSUME NEW h \in Heaps, NEW i \in 1 .. Len(walk(h)), NEW p \in BlocksOf(walk(h)[i])
  PROVE  /\ walk(h)[i].kind # "heading"
         /\ p[1] \in Nat
         /\ first_byte(walk(h)[i]) <= p[1] /\ p[1] < after_byte(walk(h)[i])
         /\ first_byte(walk(h)[i]) \in Nat /\ after_byte(walk(h)[i]) \in Nat
<1> DEFINE x == walk(h)[i]
<1>1. x \in Items
  BY ItemFits
<1>2. CASE x.kind = "zone"
  <2> DEFINE z == x.what
  <2>1. Showable(z) /\ p \in BlocksIn(z, Len(z.requested_sizes))
    BY <1>2, ItemFits DEF BlocksOf
  <2>2. PICK k \in 1 .. Len(z.requested_sizes) : p = <<BlockAddress(z, k), z.requested_sizes[k]>>
    BY <2>1 DEF BlocksIn
  <2>3. /\ BlockAddress(z, k) \in Nat /\ z.memory <= BlockAddress(z, k)
        /\ BlockAddress(z, k) < z.memory + Len(z.requested_sizes) * (z.block_size + WORD)
    BY <2>1, BlockPlaces
  <2>4. /\ first_byte(x) = z.memory
        /\ after_byte(x) = z.memory + Len(z.requested_sizes) * (z.block_size + WORD)
    BY <1>2 DEF first_byte, after_byte
  <2>5. z.memory \in Nat /\ Len(z.requested_sizes) * (z.block_size + WORD) \in Nat
    <3>1. z \in Zones
      BY <2>1 DEF Showable
    <3>2. z.memory \in Nat /\ Len(z.requested_sizes) \in Nat /\ z.block_size \in Nat /\ WORD \in Nat
      BY <3>1, ShowAssumption DEF Zones
    <3> HIDE DEF z
    <3> QED BY <3>2
  <2>6. z.memory + Len(z.requested_sizes) * (z.block_size + WORD) \in Nat
    BY <2>5
  <2> QED BY <1>2, <2>2, <2>3, <2>4, <2>5, <2>6
<1>3. CASE x.kind = "block"
  <2> DEFINE b == x.what
  <2>1. b \in LargeBlocks /\ p = <<LargeStart(b), b.size>>
    BY <1>1, <1>3, ItemKinds DEF BlocksOf
  <2>2. b.address \in Nat /\ b.size \in Nat /\ b.size > 0 /\ BLOCK_HEADER \in Nat /\ WORD \in Nat
    BY <2>1, ShowAssumption DEF LargeBlocks
  <2>3. first_byte(x) = b.address /\ after_byte(x) = b.address + BLOCK_HEADER + WORD + b.size
    BY <1>3 DEF first_byte, after_byte
  <2>4. p[1] = b.address + BLOCK_HEADER + WORD
    BY <2>1 DEF LargeStart
  <2> HIDE DEF b, x
  <2>5. x.kind # "heading"
    BY <1>3
  <2> QED BY <2>2, <2>3, <2>4, <2>5 DEF x
<1>4. CASE x.kind = "heading"
  BY <1>4 DEF BlocksOf
<1> QED BY <1>1, <1>2, <1>3, <1>4, ItemKinds

(* Two items show no block in common.                                      *)
LEMMA ItemsDisjoint ==
  ASSUME NEW h \in Heaps, NEW i \in 1 .. Len(walk(h)), NEW j \in 1 .. Len(walk(h)), i < j
  PROVE  BlocksOf(walk(h)[i]) \cap BlocksOf(walk(h)[j]) = {}
<1> SUFFICES ASSUME NEW p \in BlocksOf(walk(h)[i]), p \in BlocksOf(walk(h)[j])
             PROVE  FALSE
  OBVIOUS
<1>1. /\ walk(h)[i].kind # "heading" /\ p[1] \in Nat
      /\ first_byte(walk(h)[i]) <= p[1] /\ p[1] < after_byte(walk(h)[i])
      /\ first_byte(walk(h)[i]) \in Nat /\ after_byte(walk(h)[i]) \in Nat
  BY ItemBlocks
<1>2. /\ walk(h)[j].kind # "heading"
      /\ first_byte(walk(h)[j]) <= p[1] /\ p[1] < after_byte(walk(h)[j])
      /\ first_byte(walk(h)[j]) \in Nat /\ after_byte(walk(h)[j]) \in Nat
  BY ItemBlocks
<1>3. DOMAIN walk(h) = 1 .. Len(walk(h))
  BY WalkRange
<1>4. \/ after_byte(walk(h)[i]) <= first_byte(walk(h)[j])
      \/ after_byte(walk(h)[j]) <= first_byte(walk(h)[i])
  BY <1>1, <1>2, <1>3, HeapsAssumption
<1> DEFINE f1 == first_byte(walk(h)[i])
           f2 == first_byte(walk(h)[j])
           e1 == after_byte(walk(h)[i])
           e2 == after_byte(walk(h)[j])
           q == p[1]
<1>5. /\ f1 \in Nat /\ f2 \in Nat /\ e1 \in Nat /\ e2 \in Nat /\ q \in Nat
      /\ f1 <= q /\ q < e1 /\ f2 <= q /\ q < e2 /\ (e1 <= f2 \/ e2 <= f1)
  BY <1>1, <1>2, <1>4
<1> HIDE DEF f1, f2, e1, e2, q
<1> QED BY <1>5

(* The blocks the first n items show; all of them show the blocks in use.  *)
Seen(h, n) == UNION {BlocksOf(walk(h)[i]) : i \in 1 .. n}

(* The next item shows blocks that were not shown before.                  *)
LEMMA SeenNext ==
  ASSUME NEW h \in Heaps, NEW n \in 1 .. Len(walk(h))
  PROVE  /\ Seen(h, n) = Seen(h, n - 1) \cup BlocksOf(walk(h)[n])
         /\ Seen(h, n - 1) \cap BlocksOf(walk(h)[n]) = {}
<1>1. 1 .. n = (1 .. n - 1) \cup {n}
  OBVIOUS
<1>2. Len(walk(h)) \in Nat
  BY WalkRange
<1>3. ASSUME NEW i \in 1 .. n - 1
      PROVE  BlocksOf(walk(h)[i]) \cap BlocksOf(walk(h)[n]) = {}
  <2>1. i \in 1 .. Len(walk(h)) /\ i < n
    BY <1>2
  <2> QED BY <2>1, ItemsDisjoint
<1> HIDE DEF BlocksOf
<1>4. Seen(h, n) = Seen(h, n - 1) \cup BlocksOf(walk(h)[n])
  BY <1>1 DEF Seen
<1>5. Seen(h, n - 1) \cap BlocksOf(walk(h)[n]) = {}
  BY <1>3 DEF Seen
<1> QED BY <1>4, <1>5

(* The items of a walk show the blocks in use, all of them.                *)
LEMMA SeenAll ==
  ASSUME heap \in Heaps
  PROVE  Seen(heap, Len(walk(heap))) = InUse
<1> DEFINE w == walk(heap)
           inz(z) == BlocksIn(z, Len(z.requested_sizes))
           inl(b) == {<<LargeStart(b), b.size>>}
<1>1. /\ w \in Seq(Items) /\ DOMAIN w = 1 .. Len(w)
      /\ \A j \in 1 .. Len(w) : w[j] \in Items
      /\ ZonesOf(heap) \subseteq Zones
      /\ \A z : [kind |-> "zone", what |-> z] \in Range(w) <=> z \in ZonesOf(heap)
      /\ \A b : [kind |-> "block", what |-> b] \in Range(w) <=> b \in Range(heap.large)
  BY WalkRange
<1>2. InUse = (UNION {inz(z) : z \in ZonesOf(heap)}) \cup (UNION {inl(b) : b \in Range(heap.large)})
  <2>1. /\ ToSet(heap.free_tiny) = Range(heap.free_tiny) /\ ToSet(heap.full_tiny) = Range(heap.full_tiny)
        /\ ToSet(heap.free_small) = Range(heap.free_small) /\ ToSet(heap.full_small) = Range(heap.full_small)
        /\ ToSet(heap.large) = Range(heap.large)
    BY DEF ToSet, Range
  <2>2. UNION {ToSet(heap.free_tiny), ToSet(heap.full_tiny),
               ToSet(heap.free_small), ToSet(heap.full_small)} = ZonesOf(heap)
    BY <2>1 DEF ZonesOf
  <2>3. ASSUME NEW z \in ZonesOf(heap)
        PROVE  {<<z.memory + (k - 1) * (z.block_size + WORD), z.requested_sizes[k]>> :
                  k \in {n \in DOMAIN z.requested_sizes : z.requested_sizes[n] > 0}} = inz(z)
    <3>1. DOMAIN z.requested_sizes = 1 .. Len(z.requested_sizes)
      BY <1>1 DEF Zones
    <3> QED BY <3>1 DEF BlocksIn, BlockAddress
  <2>4. {<<b.address + BLOCK_HEADER + WORD, b.size>> : b \in ToSet(heap.large)}
          = UNION {inl(b) : b \in Range(heap.large)}
    BY <2>1 DEF LargeStart
  <2> DEFINE inu(z) == {<<z.memory + (k - 1) * (z.block_size + WORD), z.requested_sizes[k]>> :
                           k \in {n \in DOMAIN z.requested_sizes : z.requested_sizes[n] > 0}}
  <2>5. {inu(z) : z \in ZonesOf(heap)} = {inz(z) : z \in ZonesOf(heap)}
    <3>1. \A z \in ZonesOf(heap) : inu(z) = inz(z)
      BY <2>3
    <3> HIDE DEF inu, inz
    <3> QED BY <3>1
  <2>6. InUse = (UNION {inu(z) : z \in UNION {ToSet(heap.free_tiny), ToSet(heap.full_tiny),
                                              ToSet(heap.free_small), ToSet(heap.full_small)}})
                  \cup {<<b.address + BLOCK_HEADER + WORD, b.size>> : b \in ToSet(heap.large)}
    BY Zenon DEF InUse
  <2> HIDE DEF inu, inz, inl
  <2> QED BY <2>2, <2>4, <2>5, <2>6
<1>3. ASSUME NEW p \in Seen(heap, Len(w))
      PROVE  p \in InUse
  <2>1. PICK i \in 1 .. Len(w) : p \in BlocksOf(w[i])
    BY DEF Seen
  <2>2. w[i] \in Range(w) /\ w[i] \in Items
    BY <1>1 DEF Range
  <2> DEFINE x == w[i]
  <2>3. CASE x.kind = "zone"
    <3>1. x.what \in ZonesOf(heap) /\ p \in inz(x.what)
      BY <1>1, <2>1, <2>2, <2>3, ItemKinds DEF BlocksOf
    <3> QED BY <1>2, <3>1
  <2>4. CASE x.kind = "block"
    <3>1. x.what \in Range(heap.large) /\ p \in inl(x.what)
      BY <1>1, <2>1, <2>2, <2>4, ItemKinds DEF BlocksOf
    <3> HIDE DEF inl, x
    <3> QED BY <1>2, <3>1
  <2>5. CASE x.kind = "heading"
    BY <2>1, <2>5 DEF BlocksOf
  <2> QED BY <2>2, <2>3, <2>4, <2>5, ItemKinds
<1>4. ASSUME NEW x \in Range(w), NEW p \in BlocksOf(x)
      PROVE  p \in Seen(heap, Len(w))
  <2>1. PICK i \in 1 .. Len(w) : x = w[i]
    BY <1>1 DEF Range
  <2> HIDE DEF BlocksOf
  <2> QED BY <1>4, <2>1 DEF Seen
<1>5. ASSUME NEW p \in InUse
      PROVE  p \in Seen(heap, Len(w))
  <2>1. (\E z \in ZonesOf(heap) : p \in inz(z)) \/ (\E b \in Range(heap.large) : p \in inl(b))
    <3> HIDE DEF inz, inl
    <3> QED BY <1>2
  <2>2. ASSUME NEW z \in ZonesOf(heap), p \in inz(z)
        PROVE  p \in Seen(heap, Len(w))
    <3> DEFINE x == [kind |-> "zone", what |-> z]
    <3>1. x \in Range(w) /\ p \in BlocksOf(x)
      BY <1>1, <2>2 DEF BlocksOf
    <3> HIDE DEF x
    <3> QED BY <1>4, <3>1
  <2>3. ASSUME NEW b \in Range(heap.large), p \in inl(b)
        PROVE  p \in Seen(heap, Len(w))
    <3> DEFINE x == [kind |-> "block", what |-> b]
    <3>1. x \in Range(w) /\ p \in BlocksOf(x)
      BY <1>1, <2>3 DEF BlocksOf
    <3> HIDE DEF x
    <3> QED BY <1>4, <3>1
  <2> QED BY <2>1, <2>2, <2>3
<1> QED BY <1>3, <1>5

-----------------------------------------------------------------------------
(* The walk itself.                                                        *)

(* The items before pc have been shown, and at the end the total as well.  *)
Shows == IF pc <= Len(walk(heap)) THEN pc - 1 ELSE Len(walk(heap))

IInv ==
  /\ heap \in Heaps /\ total \in Nat
  /\ pc \in 1 .. Len(walk(heap)) + 2
  /\ Output(ex, out, Seen(heap, Shows), total)
  /\ Returned => out # <<>> /\ Last(out) = [kind |-> "total", bytes |-> write_dec(total)]

(* Nothing has been shown before the first item.                           *)
LEMMA InitInv == Init => IInv
<1> SUFFICES ASSUME Init
             PROVE  IInv
  OBVIOUS
<1>1. heap \in Heaps /\ pc = 1 /\ out = <<>> /\ total = 0
  BY DEF Init
<1>2. Len(walk(heap)) \in Nat
  BY <1>1, WalkRange
<1>3. Shows = 0
  BY <1>1, <1>2 DEF Shows
<1>4. Seen(heap, 0) = {}
  BY DEF Seen
<1>5. Output(ex, out, Seen(heap, Shows), total)
  BY <1>1, <1>3, <1>4, OutputEmpty
<1>6. ~Returned
  BY <1>1, <1>2 DEF Returned
<1> QED BY <1>1, <1>2, <1>5, <1>6 DEF IInv

(* An item has been shown and its blocks are in the output.                *)
LEMMA ItemStep ==
  ASSUME IInv, pc <= Len(walk(heap)), heap' = heap, ex' = ex, pc' = pc + 1, total' \in Nat,
         Output(ex, out', Seen(heap, pc - 1) \cup BlocksOf(walk(heap)[pc]), total')
  PROVE  IInv'
<1>1. heap \in Heaps /\ pc \in 1 .. Len(walk(heap)) /\ Len(walk(heap)) \in Nat
  BY WalkRange DEF IInv
<1>2. walk(heap)' = walk(heap) /\ pc' \in 1 .. Len(walk(heap)) + 1
  BY <1>1
<1>3. Shows' = pc
  BY <1>1, <1>2 DEF Shows
<1>4. Seen(heap, pc) = Seen(heap, pc - 1) \cup BlocksOf(walk(heap)[pc])
  BY <1>1, SeenNext
<1>5. ~Returned'
  BY <1>1, <1>2 DEF Returned
<1>6. Output(ex, out, Seen(heap, Shows), total)' <=> Output(ex, out', Seen(heap, pc), total')
  BY <1>3, Zenon
<1> QED BY <1>1, <1>2, <1>4, <1>5, <1>6 DEF IInv

(* Every step keeps the invariant: each action shows one item of the walk. *)
LEMMA StepInv == IInv /\ [Next]_vars => IInv'
<1> SUFFICES ASSUME IInv, [Next]_vars
             PROVE  IInv'
  OBVIOUS
<1> DEFINE w == walk(heap)
<1>1. /\ heap \in Heaps /\ total \in Nat /\ Len(w) \in Nat /\ pc \in 1 .. Len(w) + 2
      /\ Output(ex, out, Seen(heap, Shows), total)
  BY WalkRange DEF IInv
<1>2. ASSUME pc <= Len(w)
      PROVE  /\ pc \in 1 .. Len(w) /\ Output(ex, out, Seen(heap, pc - 1), total)
             /\ Seen(heap, pc - 1) \cap BlocksOf(w[pc]) = {}
  <2>1. pc \in 1 .. Len(w) /\ Shows = pc - 1
    BY <1>1, <1>2 DEF Shows
  <2> QED BY <1>1, <2>1, SeenNext
<1>3. CASE write_heading
  <2>1. /\ pc <= Len(w) /\ w[pc].kind = "heading"
        /\ out' = Append(out, [kind |-> "heading", address |-> write_hex(w[pc].what)])
        /\ pc' = pc + 1 /\ heap' = heap /\ ex' = ex /\ total' = total
    BY <1>3 DEF write_heading, at
  <2>2. w[pc].what \in 0 .. USER_TOP - 1
    BY <1>1, <1>2, <2>1, ItemFits
  <2>3. [kind |-> "heading", address |-> write_hex(w[pc].what)] \in HeadingEntries
    BY <2>2 DEF HeadingEntries
  <2>4. Output(ex, out', Seen(heap, pc - 1), total')
    BY <1>2, <2>1, <2>3, OutputOther
  <2>5. Seen(heap, pc - 1) \cup BlocksOf(w[pc]) = Seen(heap, pc - 1)
    BY <2>1 DEF BlocksOf
  <2> QED BY <1>1, <2>1, <2>4, <2>5, ItemStep
<1>4. CASE show_zone
  <2> DEFINE z == w[pc].what
  <2>1. /\ pc <= Len(w) /\ w[pc].kind = "zone"
        /\ out' = out \o zone_lines(z) /\ total' = total + zone_total(z)
        /\ pc' = pc + 1 /\ heap' = heap /\ ex' = ex
    BY <1>4 DEF show_zone, at
  <2>2. Showable(z)
    BY <1>1, <1>2, <2>1, ItemFits
  <2>3. BlocksOf(w[pc]) = BlocksIn(z, Len(z.requested_sizes))
    BY <2>1 DEF BlocksOf
  <2>4. Output(ex, out \o zone_lines(z), Seen(heap, pc - 1) \cup BlocksIn(z, Len(z.requested_sizes)),
               total + zone_total(z))
    BY <1>1, <1>2, <2>1, <2>2, <2>3, ZoneShown
  <2>5. total' \in Nat
    <3>1. Sum(z.requested_sizes) \in Nat
      BY <2>2, SumAppend DEF Showable, Zones
    <3>2. zone_total(z) = Sum(z.requested_sizes)
      BY Zenon DEF Sum, zone_total
    <3> QED BY <1>1, <2>1, <3>1, <3>2
  <2> QED BY <2>1, <2>3, <2>4, <2>5, ItemStep
<1>5. CASE show_block
  <2> DEFINE b == w[pc].what
             a == LargeStart(b)
  <2>1. /\ pc <= Len(w) /\ w[pc].kind = "block"
        /\ out' = Append(out, line(b.address + BLOCK_HEADER + WORD, b.size))
        /\ total' = total + b.size
        /\ pc' = pc + 1 /\ heap' = heap /\ ex' = ex
    BY <1>5 DEF show_block, at
  <2>2. line(b.address + BLOCK_HEADER + WORD, b.size) = LineOf(ex, a, b.size)
    BY DEF line, LineOf, LargeStart
  <2>3. a \in Nat /\ b.size \in Nat /\ <<a, b.size>> \in Blocks
    BY <1>1, <1>2, <2>1, ItemFits
  <2>4. BlocksOf(w[pc]) = {<<a, b.size>>}
    BY <2>1 DEF BlocksOf
  <2>5. <<a, b.size>> \notin Seen(heap, pc - 1)
    BY <1>2, <2>1, <2>4
  <2>6. Output(ex, Append(out, LineOf(ex, a, b.size)), Seen(heap, pc - 1) \cup {<<a, b.size>>},
               total + b.size)
    <3> DEFINE c == b.size
    <3> HIDE DEF a, c
    <3> QED BY <1>2, <2>1, <2>3, <2>5, OutputLine DEF c
  <2>7. total' \in Nat
    BY <1>1, <2>1, <2>3
  <2> QED BY <2>1, <2>2, <2>4, <2>6, <2>7, ItemStep
<1>6. CASE write_total
  <2> DEFINE x == [kind |-> "total", bytes |-> write_dec(total)]
  <2>1. /\ pc = Len(w) + 1 /\ out' = Append(out, x)
        /\ pc' = pc + 1 /\ heap' = heap /\ ex' = ex /\ total' = total
    BY <1>6 DEF write_total
  <2>2. Shows = Len(w) /\ Shows' = Len(w) /\ pc' \in 1 .. Len(w) + 2
    BY <1>1, <2>1 DEF Shows
  <2>3. x \in TotalEntries
    BY <1>1 DEF TotalEntries
  <2> HIDE DEF x
  <2>4. Output(ex, Append(out, x), Seen(heap, Len(w)), total)
    BY <1>1, <2>2, <2>3, OutputOther
  <2>5. out' # <<>> /\ Last(out') = x
    <3>1. out \in Seq(Entries(ex))
      BY <1>1 DEF Output
    <3>2. x \in Entries(ex)
      BY <2>3 DEF Entries
    <3>3. /\ Append(out, x) \in Seq(Entries(ex)) /\ Len(Append(out, x)) = Len(out) + 1
          /\ Append(out, x)[Len(out) + 1] = x /\ Len(out) \in Nat
      BY <3>1, <3>2
    <3> QED BY <2>1, <3>3 DEF Last
  <2>6. x = [kind |-> "total", bytes |-> write_dec(total')]
    BY <2>1 DEF x
  <2>7. Output(ex, out, Seen(heap, Shows), total)' <=> Output(ex, out', Seen(heap, Len(w)), total)
    BY <2>1, <2>2, Zenon
  <2> QED BY <1>1, <2>1, <2>2, <2>4, <2>5, <2>6, <2>7 DEF IInv
<1>7. CASE UNCHANGED vars
  BY <1>7 DEF vars, IInv, Shows, Returned
<1> QED BY <1>3, <1>4, <1>5, <1>6, <1>7 DEF Next

(* IInv holds always.                                                      *)
LEMMA AlwaysInv == Spec => []IInv
BY InitInv, StepInv, PTL DEF Spec

(* The entries of an output that is as the invariant says.                 *)
LEMMA OutputEntries ==
  ASSUME NEW e, NEW o, NEW S, NEW t, Output(e, o, S, t), NEW k \in LinesOf(o)
  PROVE  \E p \in Blocks : p[1] \in Nat /\ p[2] \in Nat /\ p[1] + p[2] < USER_TOP
                             /\ o[k] = LineOf(e, p[1], p[2])
<1>1. o[k] \in Entries(e) /\ o[k].kind = "line"
  BY DEF Output, LinesOf
<1>2. PICK p \in Blocks : o[k] = LineOf(e, p[1], p[2])
  BY <1>1, EntryKinds
<1>3. p[1] \in Nat /\ p[2] \in Nat /\ p[1] + p[2] < USER_TOP
  BY DEF Blocks
<1> QED BY <1>2, <1>3

(* When show_alloc_mem or show_alloc_mem_ex returns, every block in use    *)
(* has one line, with its start, end and size, nothing else has one, and   *)
(* the total is the sum of the lines: for any lists of zones and blocks.   *)
THEOREM TheHeapIsShown == Spec => []ShowsTheHeap
<1>1. IInv => ShowsTheHeap
  <2> SUFFICES ASSUME IInv, Returned
               PROVE  ShowsTheHeap
    BY DEF ShowsTheHeap
  <2> DEFINE shown(k) == <<Number(out[k].start.digits, 16), Number(out[k].bytes, 10)>>
  <2>1. /\ heap \in Heaps /\ total \in Nat /\ Shows = Len(walk(heap))
        /\ Output(ex, out, Seen(heap, Shows), total)
        /\ Last(out) = [kind |-> "total", bytes |-> write_dec(total)]
    <3>1. Len(walk(heap)) \in Nat
      BY WalkRange DEF IInv
    <3> QED BY <3>1 DEF IInv, Shows, Returned
  <2>2. Lines = LinesOf(out) /\ \A k : shown(k) = Shown(out[k])
    BY DEF Lines, LinesOf, Shown
  <2>3. {shown(k) : k \in Lines} = InUse
    <3>1. {shown(k) : k \in Lines} = {Shown(out[k]) : k \in LinesOf(out)}
      BY <2>2
    <3> QED BY <2>1, <3>1, SeenAll DEF Output
  <2>4. \A k, m \in Lines : shown(k) = shown(m) => k = m
    BY <2>1, <2>2 DEF Output
  <2>5. ASSUME NEW k \in Lines
        PROVE  Number(out[k].end.digits, 16) = shown(k)[1] + shown(k)[2]
    <3>1. PICK p \in Blocks : p[1] \in Nat /\ p[2] \in Nat /\ out[k] = LineOf(ex, p[1], p[2])
      BY <2>1, <2>2, OutputEntries
    <3>2. /\ Shown(out[k]) = <<p[1], p[2]>>
          /\ Number(out[k].end.digits, 16) = p[1] + p[2]
      BY <3>1, LineShown
    <3> QED BY <2>2, <3>2
  <2>6. Number(Last(out).bytes, 10) = LineSum(out)
    <3>1. LineSum(out) = Sum(Bytes(out))
      BY Zenon DEF LineSum, Sum, Bytes
    <3>2. Number(write_dec(total), 10) = total
      BY <2>1, WrittenReadBack
    <3>3. Sum(Bytes(out)) = total
      BY <2>1 DEF Output
    <3> QED BY <2>1, <3>1, <3>2, <3>3
  <2> QED BY <2>3, <2>4, <2>5, <2>6 DEF ShowsTheHeap
<1> QED BY <1>1, AlwaysInv, PTL

(* A line of the output is the line of a block in user space.              *)
LEMMA LineEntry ==
  ASSUME IInv, NEW k \in Lines
  PROVE  \E p \in Blocks : p[1] \in Nat /\ p[2] \in Nat /\ p[1] + p[2] < USER_TOP
                             /\ out[k] = LineOf(ex, p[1], p[2])
<1>1. k \in LinesOf(out)
  BY DEF Lines, LinesOf
<1>2. Output(ex, out, Seen(heap, Shows), total)
  BY DEF IInv
<1> QED BY <1>1, <1>2, OutputEntries

(* show_alloc_mem_ex dumps each byte of a block once and no byte behind    *)
(* it, whatever the size of the block and of a row.                        *)
THEOREM EveryByteIsDumped == Spec => []DumpsEveryByte
<1>1. ASSUME IInv, NEW k \in Lines
      PROVE  /\ ex => FlattenSeq([r \in DOMAIN out[k].rows |-> out[k].rows[r].cells])
                         = From(Number(out[k].start.digits, 16), Number(out[k].bytes, 10))
             /\ ex => \A r \in DOMAIN out[k].rows :
                        (out[k].rows[r].cells[1] - Number(out[k].start.digits, 16)) % OFFSETS
                          = out[k].rows[r].offset
  <2>1. PICK p \in Blocks : p[1] \in Nat /\ p[2] \in Nat /\ out[k] = LineOf(ex, p[1], p[2])
    BY <1>1, LineEntry
  <2> DEFINE a == p[1]
             b == p[2]
  <2>2. a \in Nat /\ b \in Nat /\ out[k] = LineOf(ex, a, b)
    BY <2>1
  <2> HIDE DEF a, b
  <2>3. ex => out[k].rows = hex_dump(a, b)
    BY <2>2 DEF LineOf
  <2>4. Shown(out[k]) = <<a, b>>
    BY <2>2, LineShown
  <2>5. Number(out[k].start.digits, 16) = a /\ Number(out[k].bytes, 10) = b
    BY <2>4 DEF Shown
  <2>6. /\ FlattenSeq([r \in DOMAIN hex_dump(a, b) |-> hex_dump(a, b)[r].cells]) = From(a, b)
        /\ \A r \in DOMAIN hex_dump(a, b) :
             (hex_dump(a, b)[r].cells[1] - a) % OFFSETS = hex_dump(a, b)[r].offset
    BY <2>2, DumpRows
  <2> QED BY <2>3, <2>5, <2>6, Zenon
<1>2. IInv => DumpsEveryByte
  BY <1>1, Zenon DEF DumpsEveryByte, From
<1> QED BY <1>2, AlwaysInv, PTL

(* A number below USER_TOP fits the buffer.                                *)
LEMMA FitsBuffer ==
  ASSUME NEW v \in Nat, v < USER_TOP
  PROVE  write_hex(v).low >= 0
<1> DEFINE q == WordBits \div 4
           d == Len(reversed_digits(v, 16))
<1>1. q \in Nat /\ q - 1 \in Nat
  BY ShowAssumption
<1>2. d <= q - 1
  BY <1>1, DigitCount DEF USER_TOP
<1>3. reversed_digits(v, 16) \in Seq(0 .. 16 - 1)
  <2>1. 16 \in Bases
    BY DEF Bases
  <2> QED BY <2>1, ReversedDigits
<1>4. d \in Nat /\ Len(Reverse(reversed_digits(v, 16))) = d
  <2> DEFINE s == reversed_digits(v, 16)
             D == 0 .. 16 - 1
  <2>1. s \in Seq(D) /\ 0 \in D
    BY <1>3
  <2> HIDE DEF s, D
  <2>2. Len(s) \in Nat /\ Len(Reverse(s)) = Len(s)
    BY <2>1 DEF Reverse
  <2> QED BY <2>2 DEF s
<1>5. HEXBUF = q + 2
  BY DEF HEXBUF
<1>6. write_hex(v).low = IF v = 0 THEN HEXBUF - 1 ELSE HEXBUF - 1 - d - 2
  BY <1>4 DEF write_hex
<1> HIDE DEF q, d
<1> QED BY <1>1, <1>2, <1>4, <1>5, <1>6

(* write_hex stores inside its buffer for every address of user space.     *)
THEOREM HexAlwaysFits == Spec => []HexFitsBuffer
<1>1. IInv => HexFitsBuffer
  <2> SUFFICES ASSUME IInv
               PROVE  HexFitsBuffer
    OBVIOUS
  <2>1. Lines = LinesOf(out)
    BY DEF Lines, LinesOf
  <2>2. ASSUME NEW k \in Lines
        PROVE  out[k].start.low >= 0 /\ out[k].end.low >= 0
    <3>1. PICK p \in Blocks : /\ p[1] \in Nat /\ p[2] \in Nat /\ p[1] + p[2] < USER_TOP
                              /\ out[k] = LineOf(ex, p[1], p[2])
      BY <2>1, OutputEntries DEF IInv
    <3>2. p[1] < USER_TOP /\ p[1] + p[2] \in Nat
      BY <3>1, UserTop
    <3>3. out[k].start = write_hex(p[1]) /\ out[k].end = write_hex(p[1] + p[2])
      BY <3>1 DEF LineOf
    <3> QED BY <3>1, <3>2, <3>3, FitsBuffer
  <2>3. ASSUME NEW k \in DOMAIN out, out[k].kind = "heading"
        PROVE  out[k].address.low >= 0
    <3>1. out[k] \in Entries(ex)
      BY DEF IInv, Output
    <3>2. out[k] \notin LineEntries(ex)
      BY <2>3, <3>1, EntryKinds
    <3>3. PICK a \in 0 .. USER_TOP - 1 : out[k] = [kind |-> "heading", address |-> write_hex(a)]
      BY <2>3, <3>1, <3>2 DEF Entries, HeadingEntries, TotalEntries
    <3>4. a \in Nat /\ a < USER_TOP
      BY UserTop
    <3> QED BY <3>3, <3>4, FitsBuffer
  <2> QED BY <2>2, <2>3 DEF HexFitsBuffer
<1> QED BY <1>1, AlwaysInv, PTL
=============================================================================
