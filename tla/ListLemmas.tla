----------------------------- MODULE ListLemmas -----------------------------
(***************************************************************************)
(* What the proofs about sequences and loops rest on: what Append and      *)
(* RemoveFirst do to a sequence without repetitions, that Min and Max are  *)
(* what they should be, induction, the existence of recursive functions,   *)
(* and what a fold over a sequence computes.  Induction is over a set, not *)
(* a predicate: a set of naturals with 0 and all successors is Nat.        *)
(***************************************************************************)
EXTENDS Integers, Sequences, SequencesExt, FiniteSetsExt, SequenceTheorems, FiniteSetTheorems,
        WellFoundedInduction, TLAPS

(* Contains says that an element is in the range.                          *)
LEMMA ContainsRange ==
  ASSUME NEW S, NEW s \in Seq(S), NEW x
  PROVE  Contains(s, x) <=> x \in Range(s)
BY DEF Contains, Range

(* The elements of RemoveAt(s, k), one by one.                             *)
LEMMA RemoveAtElements ==
  ASSUME NEW S, NEW s \in Seq(S), NEW k \in 1 .. Len(s)
  PROVE  /\ RemoveAt(s, k) \in Seq(S)
         /\ Len(RemoveAt(s, k)) = Len(s) - 1
         /\ \A i \in 1 .. Len(s) - 1 :
              RemoveAt(s, k)[i] = IF i < k THEN s[i] ELSE s[i + 1]
<1> DEFINE a == SubSeq(s, 1, k - 1)
           b == SubSeq(s, k + 1, Len(s))
<1>1. Len(s) \in Nat
  OBVIOUS
<1>2. a \in Seq(S) /\ Len(a) = k - 1 /\ \A i \in 1 .. k - 1 : a[i] = s[i]
  BY <1>1, SubSeqProperties
<1>3. b \in Seq(S) /\ Len(b) = Len(s) - k /\ \A i \in 1 .. Len(s) - k : b[i] = s[k + i]
  BY <1>1, SubSeqProperties
<1>4. RemoveAt(s, k) = a \o b
  BY DEF RemoveAt
<1> HIDE DEF a, b
<1>5. /\ a \o b \in Seq(S)
      /\ Len(a \o b) = Len(a) + Len(b)
      /\ \A i \in 1 .. Len(a) + Len(b) :
           (a \o b)[i] = IF i <= Len(a) THEN a[i] ELSE b[i - Len(a)]
  BY <1>2, <1>3, ConcatProperties
<1> QED BY <1>1, <1>2, <1>3, <1>4, <1>5

(* Without repetitions the first occurrence of s[k] is at k.               *)
LEMMA RemoveFirstAt ==
  ASSUME NEW S, NEW s \in Seq(S), IsInjective(s), NEW k \in 1 .. Len(s)
  PROVE  RemoveFirst(s, s[k]) = RemoveAt(s, k)
<1>1. {i \in 1 .. Len(s) : s[i] = s[k]} = {k}
  BY DEF IsInjective
<1>2. Min({k}) = k
  BY DEF Min
<1> QED BY <1>1, <1>2 DEF RemoveFirst, SelectInSeq

(* RemoveFirst takes an element out of a list and leaves the others, once  *)
(* each.                                                                   *)
LEMMA RemoveFirstRange ==
  ASSUME NEW S, NEW s \in Seq(S), IsInjective(s), NEW x \in Range(s)
  PROVE  /\ RemoveFirst(s, x) \in Seq(S)
         /\ Len(RemoveFirst(s, x)) = Len(s) - 1
         /\ IsInjective(RemoveFirst(s, x))
         /\ Range(RemoveFirst(s, x)) = Range(s) \ {x}
<1>1. PICK k \in 1 .. Len(s) : x = s[k]
  BY DEF Range
<1> DEFINE r == RemoveFirst(s, x)
<1>2. r = RemoveAt(s, k)
  BY <1>1, RemoveFirstAt
<1>3. /\ r \in Seq(S)
      /\ Len(r) = Len(s) - 1
      /\ \A i \in 1 .. Len(s) - 1 : r[i] = IF i < k THEN s[i] ELSE s[i + 1]
  BY <1>2, RemoveAtElements
<1> HIDE DEF r
<1>4. \A i, j \in 1 .. Len(s) : s[i] = s[j] => i = j
  BY DEF IsInjective
<1>5. IsInjective(r)
  BY <1>3, <1>4 DEF IsInjective
<1>6. ASSUME NEW y \in Range(r) PROVE y \in Range(s) \ {x}
  BY <1>1, <1>3, <1>4 DEF Range
<1>7. ASSUME NEW y \in Range(s) \ {x} PROVE y \in Range(r)
  <2>1. PICK j \in 1 .. Len(s) : y = s[j]
    BY DEF Range
  <2>2. j # k
    BY <1>1, <2>1
  <2>3. CASE j < k
    <3>1. r[j] = y /\ j \in 1 .. Len(r)
      BY <1>3, <2>1, <2>3
    <3> QED BY <1>3, <3>1 DEF Range
  <2>4. CASE j > k
    <3>1. r[j - 1] = y /\ j - 1 \in 1 .. Len(r)
      BY <1>3, <2>1, <2>4
    <3> QED BY <1>3, <3>1 DEF Range
  <2> QED BY <2>2, <2>3, <2>4
<1>8. Range(r) = Range(s) \ {x}
  BY <1>6, <1>7, Zenon
<1> QED BY <1>3, <1>5, <1>8 DEF r

(* Append adds an element that is not yet there to a list.                 *)
LEMMA AppendRange ==
  ASSUME NEW S, NEW s \in Seq(S), NEW x \in S
  PROVE  /\ Append(s, x) \in Seq(S)
         /\ Range(Append(s, x)) = Range(s) \cup {x}
         /\ IsInjective(s) /\ x \notin Range(s) => IsInjective(Append(s, x))
<1> DEFINE r == Append(s, x)
<1>1. /\ r \in Seq(S)
      /\ Len(r) = Len(s) + 1
      /\ \A i \in 1 .. Len(s) : r[i] = s[i]
      /\ r[Len(s) + 1] = x
      /\ Len(s) \in Nat
  BY AppendProperties
<1> HIDE DEF r
<1>2. ASSUME NEW y \in Range(r) PROVE y \in Range(s) \cup {x}
  BY <1>1 DEF Range
<1>3. ASSUME NEW y \in Range(s) PROVE y \in Range(r)
  <2>1. PICK j \in 1 .. Len(s) : y = s[j]
    BY DEF Range
  <2>2. r[j] = y /\ j \in 1 .. Len(r)
    BY <1>1, <2>1
  <2> QED BY <1>1, <2>2 DEF Range
<1>4. x \in Range(r)
  BY <1>1 DEF Range
<1>5. Range(r) = Range(s) \cup {x}
  BY <1>2, <1>3, <1>4, Zenon
<1>6. ASSUME IsInjective(s), x \notin Range(s) PROVE IsInjective(r)
  BY <1>1, <1>6 DEF IsInjective, Range
<1> QED BY <1>1, <1>5, <1>6 DEF r

(* The head of a list is in it.                                            *)
LEMMA HeadRange ==
  ASSUME NEW S, NEW s \in Seq(S), s # <<>>
  PROVE  Head(s) \in Range(s) /\ Head(s) \in S
BY DEF Range

(* The empty list has no elements.                                         *)
LEMMA EmptyRange == Range(<<>>) = {} /\ IsInjective(<<>>)
BY DEF Range, IsInjective

(* A list of one element has no other.                                     *)
LEMMA SoleElement ==
  ASSUME NEW S, NEW s \in Seq(S), NEW x \in Range(s), Len(s) <= 1
  PROVE  Range(s) = {x}
BY DEF Range

(* A list of several has another.                                          *)
LEMMA OtherElement ==
  ASSUME NEW S, NEW s \in Seq(S), IsInjective(s), Len(s) > 1, NEW x
  PROVE  \E y \in Range(s) : y # x
<1>1. s[1] # s[2] /\ s[1] \in Range(s) /\ s[2] \in Range(s)
  BY DEF IsInjective, Range
<1> QED BY <1>1

(* A nonempty set of naturals has a least element, and Min is it.          *)
LEMMA MinElement ==
  ASSUME NEW T \in SUBSET Nat, T # {}
  PROVE  Min(T) \in T /\ \A y \in T : Min(T) <= y
<1> DEFINE R == {ss \in Nat \X Nat : ss[1] < ss[2]}
<1>1. IsWellFoundedOn(R, Nat)
  BY NatLessThanWellFounded, Zenon DEF OpToRel
<1>2. PICK x \in T : \A y \in T : ~(<<y, x>> \in R)
  BY <1>1, WFMin
<1>3. ASSUME NEW y \in T
      PROVE  x <= y
  <2>1. x \in Nat /\ y \in Nat /\ <<y, x>> \notin R
    BY <1>2
  <2>2. y < x => <<y, x>> \in R
    BY <2>1, Zenon
  <2> QED BY <2>1, <2>2
<1> QED BY <1>3 DEF Min

(* The lesser of two numbers.                                              *)
LEMMA MinOfTwo ==
  ASSUME NEW a \in Nat, NEW b \in Nat
  PROVE  Min({a, b}) = IF a <= b THEN a ELSE b
<1>1. Min({a, b}) \in {a, b} /\ Min({a, b}) <= a /\ Min({a, b}) <= b
  <2>1. {a, b} \in SUBSET Nat /\ {a, b} # {}
    OBVIOUS
  <2> QED BY <2>1, MinElement
<1> QED BY <1>1

-----------------------------------------------------------------------------
(* Induction and recursion.  The library's theorems on them take operators  *)
(* as parameters; here a predicate is the set of the numbers it holds for,  *)
(* and a recursive definition a relation between sets.                      *)

(* A set of naturals that has 0, and with each number the next one, is Nat. *)
LEMMA Induction ==
  ASSUME NEW T \in SUBSET Nat, 0 \in T, \A n \in T : n + 1 \in T
  PROVE  T = Nat
<1> DEFINE U == Nat \ T
<1>1. ASSUME U # {}
      PROVE  FALSE
  <2>1. Min(U) \in U /\ \A y \in U : Min(U) <= y
    BY <1>1, MinElement
  <2>2. Min(U) - 1 \in Nat /\ Min(U) - 1 \notin U
    BY <2>1
  <2>3. Min(U) - 1 \in T /\ (Min(U) - 1) + 1 = Min(U)
    BY <2>1, <2>2
  <2> QED BY <2>1, <2>3
<1> QED BY <1>1

(* A set with a measure has all of a set if it has every element whose     *)
(* elements of lesser measure it has.                                      *)
LEMMA StrongInduction ==
  ASSUME NEW A, NEW M \in [A -> Nat], NEW T \in SUBSET A,
         \A a \in A : (\A x \in A : M[x] < M[a] => x \in T) => a \in T
  PROVE  T = A
<1> DEFINE U == A \ T
           V == {M[a] : a \in U}
<1>1. ASSUME U # {}
      PROVE  FALSE
  <2>1. V \in SUBSET Nat /\ V # {}
    BY <1>1
  <2>2. Min(V) \in V /\ \A y \in V : Min(V) <= y
    BY <2>1, MinElement
  <2>3. PICK a \in U : M[a] = Min(V)
    BY <2>2
  <2>4. ASSUME NEW x \in A, M[x] < M[a], x \notin T
        PROVE  FALSE
    <3>1. M[x] \in V /\ M[x] \in Nat /\ M[a] \in Nat
      BY <2>4
    <3>2. Min(V) \in Nat
      BY <2>1, <2>2
    <3> HIDE DEF V
    <3> QED BY <2>2, <2>3, <2>4, <3>1, <3>2
  <2> QED BY <2>3, <2>4
<1> QED BY <1>1

(* A set of naturals that has every number whose predecessors it has.      *)
Progressive(T) == T \in SUBSET Nat /\ \A n \in Nat : (\A x \in 0 .. n - 1 : x \in T) => n \in T

LEMMA CompleteInduction ==
  ASSUME NEW T, Progressive(T)
  PROVE  T = Nat
<1> DEFINE U == Nat \ T
<1>1. ASSUME U # {}
      PROVE  FALSE
  <2> DEFINE m == Min(U)
  <2>1. m \in U /\ \A y \in U : m <= y
    BY <1>1, MinElement
  <2> HIDE DEF m
  <2>2. ASSUME NEW x \in 0 .. m - 1
        PROVE  x \in T
    BY <2>1
  <2>3. m \in Nat /\ m \notin T
    BY <2>1
  <2> QED BY <2>2, <2>3 DEF Progressive
<1> QED BY <1>1 DEF Progressive

(* A recursion over A: the arguments in B call the one argument P gives,   *)
(* which has a lesser measure, and make their value of its value with D;   *)
(* C gives the other arguments' values outright.                           *)
Recursion(A, S, B, M, P, C, D) ==
  /\ B \in SUBSET A /\ M \in [A -> Nat]
  /\ P \in [B -> A] /\ \A a \in B : M[P[a]] < M[a]
  /\ C \in [A \ B -> S] /\ D \in [B -> [S -> S]]

(* There is a function with these values.                                  *)
LEMMA RecursiveFunction ==
  ASSUME NEW A, NEW S, NEW B, NEW M, NEW P, NEW C, NEW D, Recursion(A, S, B, M, P, C, D)
  PROVE  \E f \in [A -> S] : \A a \in A : f[a] = IF a \in B THEN D[a][f[P[a]]] ELSE C[a]
<1> USE DEF Recursion
<1> DEFINE Partial(X, g) ==
             /\ X \subseteq A
             /\ g \in [X -> S]
             /\ \A a \in X \cap B : P[a] \in X
             /\ \A a \in X : g[a] = IF a \in B THEN D[a][g[P[a]]] ELSE C[a]
<1>1. ASSUME NEW X, NEW Y, NEW g, NEW h, Partial(X, g), Partial(Y, h)
      PROVE  \A a \in X \cap Y : g[a] = h[a]
  <2> DEFINE Z == X \cap Y
             N == [a \in Z |-> M[a]]
             T == {a \in Z : g[a] = h[a]}
  <2>1. N \in [Z -> Nat] /\ T \in SUBSET Z
    BY <1>1
  <2>2. ASSUME NEW a \in Z, \A x \in Z : N[x] < N[a] => x \in T
        PROVE  a \in T
    <3>1. CASE a \in B
      <4>1. P[a] \in Z /\ N[P[a]] < N[a]
        BY <1>1, <3>1
      <4>2. g[P[a]] = h[P[a]]
        BY <2>2, <4>1
      <4> QED BY <1>1, <3>1, <4>2
    <3>2. CASE a \notin B
      BY <1>1, <3>2
    <3> QED BY <3>1, <3>2
  <2>3. T = Z
    <3> HIDE DEF T, N, Z
    <3> QED BY <2>1, <2>2, StrongInduction
  <2> QED BY <2>3
<1> DEFINE T == {a \in A : \E X, g : a \in X /\ Partial(X, g)}
<1>2. ASSUME NEW a \in A, \A x \in A : M[x] < M[a] => x \in T
      PROVE  a \in T
  <2>1. CASE a \notin B
    <3> DEFINE g == [x \in {a} |-> C[a]]
    <3>1. Partial({a}, g)
      BY <2>1
    <3> QED BY <3>1
  <2>2. CASE a \in B
    <3>0. P[a] \in T
      BY <1>2, <2>2
    <3>1. PICK X, h : P[a] \in X /\ Partial(X, h)
      <4> HIDE DEF Partial
      <4> QED BY <3>0
    <3> DEFINE v == D[a][h[P[a]]]
               Y == X \cup {a}
               g == [x \in Y |-> IF x \in X THEN h[x] ELSE v]
    <3>2. h[P[a]] \in S /\ v \in S
      BY <2>2, <3>1
    <3>3. Y \subseteq A /\ g \in [Y -> S] /\ \A b \in Y \cap B : P[b] \in Y
      BY <3>1, <3>2
    <3>4. ASSUME NEW b \in Y
          PROVE  g[b] = IF b \in B THEN D[b][g[P[b]]] ELSE C[b]
      <4>1. CASE b \in X
        BY <3>1, <4>1
      <4>2. CASE b \notin X
        <5>1. b = a /\ g[b] = v /\ g[P[a]] = h[P[a]]
          BY <3>1, <4>2
        <5> QED BY <2>2, <5>1
      <4> QED BY <4>1, <4>2
    <3>5. Partial(Y, g)
      <4> HIDE DEF g
      <4> QED BY <3>3, <3>4
    <3>6. a \in Y
      OBVIOUS
    <3> HIDE DEF Partial, g, Y
    <3> QED BY <3>5, <3>6
  <2> QED BY <2>1, <2>2
<1>3. T = A
  <2> HIDE DEF T
  <2>1. T \in SUBSET A
    BY DEF T
  <2> QED BY <1>2, <2>1, StrongInduction
<1> DEFINE Value(a) == CHOOSE s : \E X, g : a \in X /\ Partial(X, g) /\ s = g[a]
           f == [a \in A |-> Value(a)]
<1>4. ASSUME NEW X, NEW g, Partial(X, g)
      PROVE  \A a \in X : f[a] = g[a]
  <2> TAKE a \in X
  <2>1. \E s : \E Y, h : a \in Y /\ Partial(Y, h) /\ s = h[a]
    BY <1>4
  <2>2. PICK Y, h : a \in Y /\ Partial(Y, h) /\ Value(a) = h[a]
    <3> HIDE DEF Partial
    <3> QED BY <2>1
  <2>3. h[a] = g[a]
    <3> HIDE DEF Partial
    <3> QED BY <1>1, <1>4, <2>2
  <2> QED BY <1>4, <2>2, <2>3
<1>5. ASSUME NEW a \in A
      PROVE  f[a] \in S /\ f[a] = IF a \in B THEN D[a][f[P[a]]] ELSE C[a]
  <2>1. PICK X, g : a \in X /\ Partial(X, g)
    <3> HIDE DEF Partial
    <3> QED BY <1>3
  <2>2. a \in B => P[a] \in X
    BY <2>1
  <2>3. \A b \in X : f[b] = g[b]
    <3> HIDE DEF f, Partial
    <3> QED BY <1>4, <2>1
  <2>4. f[a] = g[a] /\ (a \in B => f[P[a]] = g[P[a]])
    <3> HIDE DEF f, Partial
    <3> QED BY <2>1, <2>2, <2>3
  <2> HIDE DEF f
  <2> QED BY <2>1, <2>4
<1>6. f \in [A -> S]
  BY <1>5
<1> QED BY <1>5, <1>6

-----------------------------------------------------------------------------
(* Folds.  FoldLeft and FlattenSeq of the community modules, step by step. *)

(* A nonempty set of naturals with a bound has a greatest element: Max.    *)
LEMMA MaxElement ==
  ASSUME NEW n \in Nat, NEW T \in SUBSET (0 .. n), T # {}
  PROVE  Max(T) \in T /\ \A y \in T : y <= Max(T)
<1> DEFINE U == {n - x : x \in T}
<1>1. U \in SUBSET Nat /\ U # {}
  <2>1. \A u \in U : u \in Nat
    OBVIOUS
  <2>2. \E u : u \in U
    OBVIOUS
  <2> QED BY <2>1, <2>2
<1>2. Min(U) \in U /\ \A y \in U : Min(U) <= y
  BY <1>1, MinElement
<1>3. PICK x \in T : Min(U) = n - x
  BY <1>2
<1>4. ASSUME NEW y \in T
      PROVE  y <= x
  <2>1. n - y \in U /\ y \in Nat /\ x \in Nat
    OBVIOUS
  <2>2. n - x <= n - y
    BY <1>2, <1>3, <2>1
  <2> QED BY <2>1, <2>2
<1>5. \E m \in T : \A y \in T : y <= m
  BY <1>4
<1>6. Max(T) = CHOOSE m \in T : \A y \in T : y <= m
  BY DEF Max
<1> QED BY <1>5, <1>6, Zenon

(* The greatest number of an interval that starts at 1.                    *)
LEMMA MaxOfInterval ==
  ASSUME NEW n \in Nat, n > 0
  PROVE  Max(1 .. n) = n
<1>1. Max(1 .. n) \in 1 .. n /\ \A y \in 1 .. n : y <= Max(1 .. n)
  <2>1. 1 .. n \in SUBSET (0 .. n) /\ 1 .. n # {}
    OBVIOUS
  <2> QED BY <2>1, MaxElement
<1> QED BY <1>1

(* n steps, the k-th one D[k], from c.                                     *)
Folds(n, S, c, D) == n \in Nat /\ c \in S /\ D \in [1 .. n -> [S -> S]]

(* iter takes these steps along every set of their numbers, the greatest   *)
(* number last.                                                            *)
Fold(n, S, c, D, iter) ==
  /\ iter \in [SUBSET (1 .. n) -> S]
  /\ \A T \in SUBSET (1 .. n) :
       iter[T] = IF T = {} THEN c ELSE D[Max(T)][iter[T \ {Max(T)}]]

(* A function that folds along every set of indices exists.                *)
LEMMA FoldExists ==
  ASSUME NEW n, NEW S, NEW c, NEW D, Folds(n, S, c, D)
  PROVE  \E iter : Fold(n, S, c, D, iter)
<1> USE DEF Folds
<1> DEFINE A == SUBSET (1 .. n)
           B == A \ {{}}
           M == [T \in A |-> Cardinality(T)]
           P == [T \in B |-> T \ {Max(T)}]
           E == [T \in B |-> D[Max(T)]]
           C == [T \in A \ B |-> c]
<1>1. \A T \in B : Max(T) \in T
  <2> TAKE T \in B
  <2>1. T \in SUBSET (0 .. n) /\ T # {}
    OBVIOUS
  <2> QED BY <2>1, MaxElement
<1>2. \A T \in A : IsFiniteSet(T) /\ Cardinality(T) \in Nat
  <2>1. IsFiniteSet(1 .. n)
    BY FS_Interval
  <2> QED BY <2>1, FS_Subset, FS_CardinalityType
<1>3. \A T \in B : Cardinality(T \ {Max(T)}) = Cardinality(T) - 1
  BY <1>1, <1>2, FS_RemoveElement
<1>4. \A T \in B : T \in A /\ T \ {Max(T)} \in A
  OBVIOUS
<1>5. B \in SUBSET A
  OBVIOUS
<1>6. M \in [A -> Nat]
  BY <1>2
<1>7. P \in [B -> A]
  <2> HIDE DEF A, B
  <2> QED BY <1>4
<1>8. \A T \in B : M[P[T]] < M[T]
  BY <1>2, <1>3, <1>4
<1>9. C \in [A \ B -> S]
  OBVIOUS
<1>10. E \in [B -> [S -> S]]
  <2>1. \A T \in B : Max(T) \in 1 .. n
    BY <1>1
  <2> HIDE DEF B
  <2> QED BY <2>1
<1>11. PICK f \in [A -> S] : \A T \in A : f[T] = IF T \in B THEN E[T][f[P[T]]] ELSE C[T]
  <2> HIDE DEF A, B, M, P, E, C
  <2>1. Recursion(A, S, B, M, P, C, E)
    BY <1>5, <1>6, <1>7, <1>8, <1>9, <1>10 DEF Recursion
  <2> QED BY <2>1, RecursiveFunction
<1>12. ASSUME NEW T \in A
       PROVE  f[T] = IF T = {} THEN c ELSE D[Max(T)][f[T \ {Max(T)}]]
  <2>1. CASE T = {}
    BY <1>11, <2>1
  <2>2. CASE T # {}
    BY <1>11, <2>2
  <2> QED BY <2>1, <2>2
<1>13. Fold(n, S, c, D, f)
  BY <1>12 DEF Fold
<1> QED BY <1>13

(* p takes n steps from c, the k-th one with D[k].                          *)
Steps(n, S, c, D, p) ==
  /\ Folds(n, S, c, D)
  /\ p \in [0 .. n -> S] /\ p[0] = c
  /\ \A k \in 1 .. n : p[k] = D[k][p[k - 1]]

(* As Fold, of an iter whose values are not known to be in S.              *)
Unfolds(n, S, c, D, iter) ==
  /\ iter[{}] = c
  /\ \A T \in SUBSET (1 .. n) :
       T # {} /\ iter[T \ {Max(T)}] \in S => iter[T] = D[Max(T)][iter[T \ {Max(T)}]]

(* What a fold has made of the first elements, one after the other.        *)
LEMMA FoldSteps ==
  ASSUME NEW n, NEW S, NEW c, NEW D, Folds(n, S, c, D), NEW iter,
         Unfolds(n, S, c, D, iter)
  PROVE  \E p : Steps(n, S, c, D, p) /\ p[n] = iter[1 .. n]
<1> USE DEF Folds, Unfolds
<1> DEFINE T == {k \in Nat : k <= n => iter[1 .. k] \in S}
<1>1. 1 .. 0 = {}
  OBVIOUS
<1>2. ASSUME NEW k \in 1 .. n, iter[1 .. k - 1] \in S
      PROVE  iter[1 .. k] = D[k][iter[1 .. k - 1]] /\ iter[1 .. k] \in S
  <2>1. Max(1 .. k) = k
    BY MaxOfInterval
  <2>2. 1 .. k \in SUBSET (1 .. n)
    OBVIOUS
  <2>3. k \in 1 .. k
    OBVIOUS
  <2>4. \A x : x \in (1 .. k) \ {k} <=> x \in 1 .. k - 1
    OBVIOUS
  <2>5. (1 .. k) \ {k} = 1 .. k - 1
    BY <2>4
  <2>6. iter[1 .. k] = D[k][iter[1 .. k - 1]]
    BY <1>2, <2>1, <2>2, <2>3, <2>5
  <2> QED BY <1>2, <2>6
<1>3. 0 \in T
  BY <1>1
<1>4. ASSUME NEW k \in T
      PROVE  k + 1 \in T
  <2>1. ASSUME k + 1 <= n
        PROVE  iter[1 .. k + 1] \in S
    <3>1. k + 1 \in 1 .. n /\ (k + 1) - 1 = k /\ iter[1 .. k] \in S
      BY <2>1
    <3> QED BY <1>2, <3>1
  <2> QED BY <2>1
<1>5. T = Nat
  <2>1. T \in SUBSET Nat
    OBVIOUS
  <2> HIDE DEF T
  <2> QED BY <1>3, <1>4, <2>1, Induction
<1>6. \A k \in 0 .. n : iter[1 .. k] \in S
  <2>1. ASSUME NEW k \in 0 .. n
        PROVE  k \in T
    BY <1>5
  <2> QED BY <2>1
<1> DEFINE p == [k \in 0 .. n |-> iter[1 .. k]]
<1>7. p \in [0 .. n -> S]
  BY <1>6
<1>8. p[0] = c
  BY <1>1
<1>9. ASSUME NEW k \in 1 .. n
      PROVE  p[k] = D[k][p[k - 1]]
  <2>1. k - 1 \in 0 .. n
    OBVIOUS
  <2> QED BY <1>2, <1>6, <2>1
<1> HIDE DEF p
<1>10. Steps(n, S, c, D, p)
  BY <1>7, <1>8, <1>9 DEF Steps
<1>11. p[n] = iter[1 .. n]
  BY DEF p
<1> QED BY <1>10, <1>11

(* The first m of the n steps D are the m steps E.                         *)
Continues(n, D, m, E) == m <= n /\ \A k \in 1 .. m : D[k] = E[k]

(* The same steps from the same place lead to the same values.             *)
LEMMA SameSteps ==
  ASSUME NEW n, NEW m, NEW S, NEW c, NEW D, NEW E, NEW p, NEW q,
         Steps(n, S, c, D, p), Steps(m, S, c, E, q), Continues(n, D, m, E)
  PROVE  \A k \in 0 .. m : p[k] = q[k]
<1> USE DEF Continues
<1> DEFINE T == {k \in Nat : k <= m => p[k] = q[k]}
<1>1. n \in Nat /\ m \in Nat
  BY DEF Steps, Folds
<1>2. 0 \in T
  BY DEF Steps
<1>3. ASSUME NEW k \in T
      PROVE  k + 1 \in T
  <2>1. ASSUME k + 1 <= m
        PROVE  p[k + 1] = q[k + 1]
    <3>1. k + 1 \in 1 .. m /\ k + 1 \in 1 .. n /\ (k + 1) - 1 = k /\ p[k] = q[k]
      BY <1>1, <2>1
    <3>2. p[k + 1] = D[k + 1][p[k]] /\ q[k + 1] = E[k + 1][q[k]]
      BY <3>1 DEF Steps
    <3> QED BY <3>1, <3>2
  <2> QED BY <2>1
<1>4. T = Nat
  <2>1. T \in SUBSET Nat
    OBVIOUS
  <2> HIDE DEF T
  <2> QED BY <1>2, <1>3, <2>1, Induction
<1>5. ASSUME NEW k \in 0 .. m
      PROVE  p[k] = q[k]
  <2>1. k \in T /\ k <= m
    BY <1>1, <1>4
  <2> QED BY <2>1
<1> QED BY <1>5

(* f joins the first sequences of ss.                                       *)
Flattens(S, ss, f) ==
  /\ f \in [0 .. Len(ss) -> Seq(S)] /\ f[0] = <<>>
  /\ \A k \in 1 .. Len(ss) : f[k] = f[k - 1] \o ss[k]
  /\ FlattenSeq(ss) = f[Len(ss)]

(* FlattenSeq puts the sequences it is given one behind the other.         *)
LEMMA FlattenParts ==
  ASSUME NEW S, NEW ss \in Seq(Seq(S))
  PROVE  \E f : Flattens(S, ss, f)
<1> USE DEF Flattens
<1>1. Len(ss) \in Nat /\ \A k \in 1 .. Len(ss) : ss[k] \in Seq(S)
  OBVIOUS
<1>2. CASE Len(ss) = 0
  <2>1. ss = <<>>
    BY <1>2
  <2>2. FlattenSeq(ss) = ss
    BY <1>2, Zenon DEF FlattenSeq
  <2> DEFINE f == [k \in 0 .. Len(ss) |-> <<>>]
  <2>3. f \in [0 .. Len(ss) -> Seq(S)] /\ f[0] = <<>> /\ f[Len(ss)] = <<>>
    BY <1>2
  <2>4. \A k \in 1 .. Len(ss) : f[k] = f[k - 1] \o ss[k]
    BY <1>2
  <2> HIDE DEF f
  <2> QED BY <2>1, <2>2, <2>3, <2>4
<1>3. CASE Len(ss) > 0
  <2> DEFINE A == 1 .. Len(ss)
             B == 2 .. Len(ss)
             M == [k \in A |-> k]
             P == [k \in B |-> k - 1]
             D == [k \in B |-> [t \in Seq(S) |-> t \o ss[k]]]
             C == [k \in A \ B |-> ss[k]]
             Flatten(f) == f = [i \in 1 .. Len(ss) |-> IF i = 1 THEN ss[i] ELSE f[i - 1] \o ss[i]]
  <2>1. B \in SUBSET A /\ M \in [A -> Nat] /\ P \in [B -> A] /\ \A k \in B : M[P[k]] < M[k]
    BY <1>1
  <2>2. C \in [A \ B -> Seq(S)]
    BY <1>1
  <2>3. D \in [B -> [Seq(S) -> Seq(S)]]
    BY <1>1, ConcatProperties
  <2>4. PICK f \in [A -> Seq(S)] : \A k \in A : f[k] = IF k \in B THEN D[k][f[P[k]]] ELSE C[k]
    <3> HIDE DEF A, B, M, P, D, C
    <3>1. Recursion(A, Seq(S), B, M, P, C, D)
      BY <2>1, <2>2, <2>3 DEF Recursion
    <3> QED BY <3>1, RecursiveFunction
  <2>5. ASSUME NEW k \in 1 .. Len(ss)
        PROVE  f[k] = IF k = 1 THEN ss[k] ELSE f[k - 1] \o ss[k]
    <3>1. CASE k = 1
      <4>1. k \in A /\ k \notin B /\ C[k] = ss[k]
        BY <3>1
      <4> HIDE DEF A, B, C, D, P
      <4> QED BY <2>4, <3>1, <4>1
    <3>2. CASE k # 1
      <4>1. k \in B /\ k \in A /\ k - 1 \in A /\ P[k] = k - 1
        BY <1>1, <3>2
      <4>2. D[k] = [t \in Seq(S) |-> t \o ss[k]]
        BY <4>1
      <4>3. f[k] = D[k][f[k - 1]]
        <5> HIDE DEF A, B, C, D, P
        <5> QED BY <2>4, <4>1
      <4>4. f[k - 1] \in Seq(S)
        BY <4>1
      <4> QED BY <3>2, <4>2, <4>3, <4>4
    <3> QED BY <3>1, <3>2
  <2>6. Flatten(f)
    BY <2>5
  <2> DEFINE g == CHOOSE h : Flatten(h)
  <2>7. Flatten(g)
    <3> HIDE DEF Flatten
    <3> QED BY <2>6, Zenon
  <2>8. FlattenSeq(ss) = g[Len(ss)]
    <3>1. FlattenSeq(ss) = IF Len(ss) = 0 THEN ss ELSE (CHOOSE h : Flatten(h))[Len(ss)]
      BY Zenon DEF FlattenSeq
    <3> QED BY <1>3, <3>1
  <2> HIDE DEF g
  <2>9. \A k \in 1 .. Len(ss) : g[k] = IF k = 1 THEN ss[k] ELSE g[k - 1] \o ss[k]
    BY <2>7
  <2> HIDE DEF Flatten, A, B, M, P, D, C
  <2> DEFINE T == {k \in Nat : k + 1 \in 1 .. Len(ss) => g[k + 1] \in Seq(S)}
  <2>10. 0 \in T
    BY <1>1, <2>9
  <2>11. ASSUME NEW k \in T
         PROVE  k + 1 \in T
    <3>1. ASSUME k + 2 \in 1 .. Len(ss)
          PROVE  g[k + 2] \in Seq(S)
      <4>1. k + 1 \in 1 .. Len(ss) /\ (k + 2) - 1 = k + 1 /\ k + 2 # 1
        BY <3>1
      <4>2. g[k + 2] = g[k + 1] \o ss[k + 2] /\ g[k + 1] \in Seq(S)
        BY <2>9, <3>1, <4>1
      <4>3. ss[k + 2] \in Seq(S)
        BY <1>1, <3>1
      <4> QED BY <4>2, <4>3, ConcatProperties
    <3>2. (k + 1) + 1 = k + 2 /\ k + 1 \in Nat
      OBVIOUS
    <3> QED BY <3>1, <3>2
  <2>12. T \in SUBSET Nat
    OBVIOUS
  <2>13. T = Nat
    <3> HIDE DEF T
    <3> QED BY <2>10, <2>11, <2>12, Induction
  <2> DEFINE p == [k \in 0 .. Len(ss) |-> IF k = 0 THEN <<>> ELSE g[k]]
  <2>14. ASSUME NEW k \in 1 .. Len(ss)
         PROVE  g[k] \in Seq(S)
    <3>1. k - 1 \in Nat /\ (k - 1) + 1 = k
      OBVIOUS
    <3>2. k - 1 \in T
      BY <2>13, <3>1, Zenon
    <3> QED BY <3>1, <3>2
  <2>15. p \in [0 .. Len(ss) -> Seq(S)]
    BY <2>14
  <2>16. ASSUME NEW k \in 1 .. Len(ss)
         PROVE  p[k] = p[k - 1] \o ss[k]
    <3>1. CASE k = 1
      <4>1. p[1] = ss[1] /\ p[0] = <<>>
        BY <1>3, <2>9
      <4> QED BY <1>1, <3>1, <4>1, ConcatEmptySeq
    <3>2. CASE k # 1
      <4>1. p[k] = g[k] /\ p[k - 1] = g[k - 1]
        BY <3>2
      <4> QED BY <2>9, <3>2, <4>1
    <3> QED BY <3>1, <3>2
  <2>17. p[0] = <<>> /\ FlattenSeq(ss) = p[Len(ss)]
    BY <1>3, <2>8
  <2> HIDE DEF p
  <2> QED BY <2>15, <2>16, <2>17
<1>4. Len(ss) = 0 \/ Len(ss) > 0
  BY <1>1
<1> QED BY <1>2, <1>3, <1>4, Zenon

(* Joining a sequence and one element more.                                *)
LEMMA ConcatAppend ==
  ASSUME NEW S, NEW s \in Seq(S), NEW t \in Seq(S), NEW x \in S
  PROVE  s \o (t \o <<x>>) = Append(s \o t, x)
<1>1. <<x>> \in Seq(S)
  OBVIOUS
<1>2. s \o (t \o <<x>>) = (s \o t) \o <<x>>
  BY <1>1, ConcatAssociative
<1>3. s \o t \in Seq(S)
  BY ConcatProperties
<1>4. Append(s \o t, x) = (s \o t) \o <<x>>
  BY <1>3, AppendIsConcat
<1> QED BY <1>2, <1>4

(* The first n elements of a sequence.                                     *)
LEMMA PrefixElements ==
  ASSUME NEW S, NEW s \in Seq(S), NEW n \in 0 .. Len(s)
  PROVE  /\ SubSeq(s, 1, n) \in Seq(S) /\ Len(SubSeq(s, 1, n)) = n
         /\ \A k \in 1 .. n : SubSeq(s, 1, n)[k] = s[k]
<1>1. Len(s) \in Nat /\ \A k \in 1 .. Len(s) : s[k] \in S
  OBVIOUS
<1>2. n \in Int /\ 1 \in Int /\ \A k \in 1 .. n : s[k] \in S
  BY <1>1
<1>3. /\ SubSeq(s, 1, n) \in Seq(S) /\ Len(SubSeq(s, 1, n)) = IF 1 <= n THEN n - 1 + 1 ELSE 0
      /\ \A k \in 1 .. n - 1 + 1 : SubSeq(s, 1, n)[k] = s[1 + k - 1]
  BY <1>2, SubSeqProperties
<1> DEFINE m == SubSeq(s, 1, n)
<1> HIDE DEF m
<1>4. n \in Nat /\ n - 1 + 1 = n /\ (1 <= n \/ n = 0)
  BY <1>1
<1>5. Len(m) = n
  BY <1>3, <1>4 DEF m
<1>6. ASSUME NEW k \in 1 .. n
      PROVE  m[k] = s[k]
  <2>1. 1 + k - 1 = k
    BY <1>4
  <2> QED BY <1>3, <1>4, <2>1 DEF m
<1> QED BY <1>3, <1>5, <1>6 DEF m

(* Sequences are the same when their elements are.                         *)
LEMMA SameElements ==
  ASSUME NEW S, NEW s \in Seq(S), NEW u \in Seq(S), Len(s) = Len(u),
         \A k \in 1 .. Len(s) : s[k] = u[k]
  PROVE  s = u
<1>1. s = [k \in 1 .. Len(s) |-> s[k]] /\ u = [k \in 1 .. Len(u) |-> u[k]]
  OBVIOUS
<1>2. [k \in 1 .. Len(s) |-> s[k]] = [k \in 1 .. Len(u) |-> u[k]]
  OBVIOUS
<1> QED BY <1>1, <1>2

(* The elements of s \o u: those of s, then those of u.                    *)
LEMMA ConcatElements ==
  ASSUME NEW S, NEW s \in Seq(S), NEW u \in Seq(S)
  PROVE  /\ s \o u \in Seq(S) /\ Len(s \o u) = Len(s) + Len(u)
         /\ \A k \in 1 .. Len(s) : (s \o u)[k] = s[k]
         /\ \A k \in 1 .. Len(u) : (s \o u)[Len(s) + k] = u[k]
<1> DEFINE w == s \o u
           o == Len(s)
           n == Len(u)
<1>1. /\ w \in Seq(S) /\ Len(w) = o + n
      /\ \A k \in 1 .. o + n : w[k] = IF k <= o THEN s[k] ELSE u[k - o]
  BY ConcatProperties
<1>2. o \in Nat /\ n \in Nat
  OBVIOUS
<1> HIDE DEF w, o, n
<1>3. ASSUME NEW k \in 1 .. o
      PROVE  w[k] = s[k]
  BY <1>1, <1>2
<1>4. ASSUME NEW k \in 1 .. n
      PROVE  w[o + k] = u[k]
  <2>1. o + k \in 1 .. o + n /\ ~(o + k <= o) /\ (o + k) - o = k
    BY <1>2
  <2> QED BY <1>1, <2>1
<1> QED BY <1>1, <1>3, <1>4 DEF w, o, n

(* What is cut off s \o u within u.                                        *)
IsCut(s, u, n) ==
  /\ s \o SubSeq(u, 1, n) = SubSeq(s \o u, 1, Len(s) + n)
  /\ s \o SubSeq(u, 1, n) = s \o u <=> n = Len(u)

LEMMA CutConcat ==
  ASSUME NEW S, NEW s \in Seq(S), NEW u \in Seq(S), NEW n \in 0 .. Len(u)
  PROVE  IsCut(s, u, n)
<1> DEFINE m == SubSeq(u, 1, n)
           all == s \o u
           new == s \o m
           o == Len(s)
           cut == SubSeq(all, 1, o + n)
<1>1. o \in Nat /\ Len(u) \in Nat /\ n \in Nat /\ n <= Len(u)
  OBVIOUS
<1>2. m \in Seq(S) /\ Len(m) = n /\ \A k \in 1 .. n : m[k] = u[k]
  BY PrefixElements
<1>3. /\ all \in Seq(S) /\ Len(all) = o + Len(u)
      /\ \A k \in 1 .. o : all[k] = s[k]
      /\ \A k \in 1 .. Len(u) : all[o + k] = u[k]
  BY ConcatElements
<1> HIDE DEF m
<1>4. /\ new \in Seq(S) /\ Len(new) = o + Len(m)
      /\ \A k \in 1 .. o : new[k] = s[k]
      /\ \A k \in 1 .. Len(m) : new[o + k] = m[k]
  <2> HIDE DEF all, cut, o
  <2>1. m \in Seq(S)
    BY <1>2
  <2>2. /\ new \in Seq(S) /\ Len(new) = Len(s) + Len(m)
        /\ \A k \in 1 .. Len(s) : new[k] = s[k]
        /\ \A k \in 1 .. Len(m) : new[Len(s) + k] = m[k]
    BY <2>1, ConcatElements
  <2> HIDE DEF new
  <2> QED BY <2>2 DEF o
<1> HIDE DEF all, new, o, cut
<1>5. o + n \in 0 .. Len(all)
  BY <1>1, <1>3
<1>6. /\ cut \in Seq(S) /\ Len(cut) = o + n
      /\ \A k \in 1 .. o + n : cut[k] = all[k]
  BY <1>3, <1>5, PrefixElements DEF cut
<1>7. ASSUME NEW k \in 1 .. o + n
      PROVE  new[k] = all[k]
  <2>1. CASE k <= o
    <3>1. k \in 1 .. o
      BY <1>1, <2>1
    <3> QED BY <1>3, <1>4, <3>1
  <2>2. CASE ~(k <= o)
    <3>1. k - o \in 1 .. n /\ k - o \in 1 .. Len(u) /\ o + (k - o) = k
      BY <1>1, <2>2
    <3>2. new[o + (k - o)] = m[k - o] /\ all[o + (k - o)] = u[k - o] /\ m[k - o] = u[k - o]
      BY <1>2, <1>3, <1>4, <3>1
    <3> QED BY <3>1, <3>2
  <2> QED BY <2>1, <2>2
<1>8. new = cut
  <2>1. Len(new) = o + n
    BY <1>2, <1>4
  <2>2. \A k \in 1 .. Len(new) : new[k] = cut[k]
    BY <1>6, <1>7, <2>1
  <2> QED BY <1>4, <1>6, <2>1, <2>2, SameElements
<1>9. new = all <=> n = Len(u)
  <2>1. ASSUME n = Len(u)
        PROVE  new = all
    <3>1. Len(new) = Len(all) /\ Len(new) = o + n
      BY <1>2, <1>3, <1>4, <2>1
    <3>2. \A k \in 1 .. Len(new) : new[k] = all[k]
      BY <1>7, <3>1
    <3> QED BY <1>3, <1>4, <3>1, <3>2, SameElements
  <2>2. ASSUME new = all
        PROVE  n = Len(u)
    <3>1. o + n = o + Len(u)
      BY <1>2, <1>3, <1>4, <2>2
    <3> QED BY <1>1, <3>1
  <2> QED BY <2>1, <2>2
<1> QED BY <1>8, <1>9 DEF IsCut, new, cut, m, all, o

(* Of two numbers the greater; with 0, the number cut off below.           *)
LEMMA MaxWithZero ==
  ASSUME NEW x \in Int
  PROVE  Max({0, x}) = IF x > 0 THEN x ELSE 0
<1>1. \E w \in {0, x} : \A y \in {0, x} : w >= y
  BY x >= 0 \/ 0 >= x
<1>2. Max({0, x}) \in {0, x} /\ \A y \in {0, x} : Max({0, x}) >= y
  BY <1>1, Zenon DEF Max
<1> DEFINE w == Max({0, x})
<1>3. w \in {0, x} /\ w >= 0 /\ w >= x
  BY <1>2
<1> HIDE DEF w
<1>4. w = IF x > 0 THEN x ELSE 0
  BY <1>3
<1> QED BY <1>4 DEF w
=============================================================================
