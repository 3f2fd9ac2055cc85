---------------------------- MODULE SupportProofs ----------------------------
(***************************************************************************)
(* Theorems about LibftCalls.tla and Printf.tla.                           *)
(*                                                                         *)
(* Lists: the lists of a program are sequences of nodes.  Chain says that  *)
(* the next pointers spell one, and Walk, the loop over them, comes to     *)
(* exactly it; ListsInv says what the program and ft_lstmap have in their  *)
(* two sequences, and that every content is in one node or was lost.       *)
(*                                                                         *)
(* The buffer: BufferInv says that its bytes are numbers and that the last *)
(* call kept its contract.  A copy or concatenation is CutRight for what   *)
(* fits and what does not; Moved says in closed form what the loops of     *)
(* ft_memmove have done after some of the bytes, going up or down.         *)
(*                                                                         *)
(* Searches and comparisons change nothing, and their answers are right by *)
(* what the loops look at: NeedleFound, SearchFinds, DifferenceCompares    *)
(* and ClassesRight.                                                       *)
(*                                                                         *)
(* ft_printf: PrintfInv says that the call is between two pieces, its      *)
(* index behind the texts of the first of them, with their arguments taken *)
(* and their outputs written.  ParsesDirective reads a directive back from *)
(* its text, DirectiveWrites says that its conversion is counted and means *)
(* what the caller meant, and DigitsAreNumeral that the recursion over     *)
(* n / base spells the numeral of n.                                       *)
(*                                                                         *)
(* Numbers: ft_itoa, ft_putnbr_fd and ft_atoi each go through the digits   *)
(* in an order of their own, and SameRecursion carries each to the text    *)
(* IntText of the number.  SumWraps says that the int that ft_atoi adds up *)
(* in leaves its range only on the last digit of INT_MIN, and comes back.  *)
(*                                                                         *)
(* New strings: FillsBuffer says when the bytes malloc left undefined hold *)
(* a string.  Lists(o, A) says that o lists the numbers of A from the      *)
(* least on, which nothing but o does (ListsOnce).  CountStep and          *)
(* SplitStep show from the end of the string backwards that ft_countchr    *)
(* counts and ft_split copies the fields at the places of such a list, so  *)
(* both lists, and the one Fields chooses, are the same.  LoopsEnclose     *)
(* says where the two loops of ft_strtrim stop.                            *)
(***************************************************************************)
EXTENDS LibftCalls, Printf, ListLemmas

(* The nodes of s are those of the list that starts at l, in order.        *)
Chain(h, l, ns) ==
  /\ NONE \notin DOMAIN h
  /\ ns \in Seq(DOMAIN h) /\ Len(ns) <= MaxNodes
  /\ l = IF ns = <<>> THEN NONE ELSE ns[1]
  /\ \A k \in 1 .. Len(ns) : h[ns[k]].next = IF k = Len(ns) THEN NONE ELSE ns[k + 1]

(* The loop lst = lst->next comes to exactly the nodes of the list.        *)
LEMMA WalkChain ==
  ASSUME NEW h, NEW l, NEW ns, Chain(h, l, ns)
  PROVE  Walk(h, l) = ns
<1> DEFINE V(f) == f = [k \in 0 .. MaxNodes |->
                          IF k = 0 THEN l ELSE IF f[k - 1] = NONE THEN NONE ELSE h[f[k - 1]].next]
           e == [k \in 0 .. MaxNodes |-> IF k < Len(ns) THEN ns[k + 1] ELSE NONE]
           g == CHOOSE f : V(f)
           stop(f) == Min({k \in 0 .. MaxNodes : f[k] = NONE} \cup {MaxNodes})
<1>1. /\ MaxNodes \in Nat /\ Len(ns) \in Nat /\ Len(ns) <= MaxNodes
      /\ \A k \in 1 .. Len(ns) : ns[k] \in DOMAIN h /\ ns[k] # NONE
      /\ l = IF Len(ns) = 0 THEN NONE ELSE ns[1]
      /\ \A k \in 1 .. Len(ns) : h[ns[k]].next = IF k = Len(ns) THEN NONE ELSE ns[k + 1]
  BY ListsAssumption DEF Chain
<1>2. ASSUME NEW k \in 0 .. MaxNodes
      PROVE  e[k] = IF k = 0 THEN l ELSE IF e[k - 1] = NONE THEN NONE ELSE h[e[k - 1]].next
  <2>1. CASE k = 0
    BY <1>1, <2>1
  <2>2. CASE k # 0
    <3>1. k - 1 \in 0 .. MaxNodes /\ (k - 1) + 1 = k
      BY <1>1, <2>2
    <3>2. e[k - 1] = IF k - 1 < Len(ns) THEN ns[k] ELSE NONE
      BY <3>1
    <3>3. e[k] = IF k < Len(ns) THEN ns[k + 1] ELSE NONE
      OBVIOUS
    <3>4. CASE k - 1 < Len(ns)
      <4>1. k \in 1 .. Len(ns)
        BY <1>1, <2>2, <3>4
      <4> QED BY <1>1, <2>2, <3>2, <3>3, <4>1
    <3>5. CASE ~(k - 1 < Len(ns))
      <4>1. ~(k < Len(ns))
        BY <1>1, <3>5
      <4> QED BY <2>2, <3>2, <3>3, <3>5, <4>1
    <3> QED BY <3>4, <3>5
  <2> QED BY <2>1, <2>2
<1>3. V(e)
  <2>1. e = [k \in 0 .. MaxNodes |-> e[k]]
    OBVIOUS
  <2> HIDE DEF e
  <2> QED BY <1>2, <2>1
<1>4. V(g)
  <2> HIDE DEF V
  <2> QED BY <1>3, Zenon
<1>5. Walk(h, l) = [k \in 1 .. stop(g) |-> g[k - 1]]
  BY Zenon DEF Walk
<1> HIDE DEF g
<1> DEFINE T == {k \in Nat : k <= MaxNodes => g[k] = e[k]}
<1>6. 0 \in T
  BY <1>1, <1>2, <1>4
<1>7. ASSUME NEW k \in T
      PROVE  k + 1 \in T
  <2>1. ASSUME k + 1 <= MaxNodes
        PROVE  g[k + 1] = e[k + 1]
    <3>1. k + 1 \in 0 .. MaxNodes /\ (k + 1) - 1 = k /\ k + 1 # 0 /\ k <= MaxNodes
      BY <1>1, <2>1
    <3>2. g[k] = e[k]
      BY <3>1
    <3>3. g[k + 1] = IF g[k] = NONE THEN NONE ELSE h[g[k]].next
      BY <1>4, <3>1
    <3>4. e[k + 1] = IF e[k] = NONE THEN NONE ELSE h[e[k]].next
      <4> HIDE DEF e
      <4> QED BY <1>2, <3>1
    <3> QED BY <3>2, <3>3, <3>4, Zenon
  <2> QED BY <2>1
<1>8. T = Nat
  <2>1. T \in SUBSET Nat
    OBVIOUS
  <2> HIDE DEF T
  <2> QED BY <1>6, <1>7, <2>1, Induction
<1>9. \A k \in 0 .. MaxNodes : g[k] = e[k]
  <2> TAKE k \in 0 .. MaxNodes
  <2> HIDE DEF e
  <2>1. k \in T /\ k <= MaxNodes
    <3> HIDE DEF T
    <3> QED BY <1>1, <1>8
  <2> QED BY <2>1
<1>10. stop(g) = Len(ns)
  <2> DEFINE U == {k \in 0 .. MaxNodes : g[k] = NONE} \cup {MaxNodes}
  <2>1. U \in SUBSET Nat /\ U # {}
    BY <1>1
  <2>2. Min(U) \in U /\ \A y \in U : Min(U) <= y
    <3> HIDE DEF U
    <3> QED BY <2>1, MinElement
  <2>3. Len(ns) \in U
    <3>1. Len(ns) \in 0 .. MaxNodes /\ e[Len(ns)] = NONE
      BY <1>1
    <3> HIDE DEF e
    <3> QED BY <1>9, <3>1
  <2>4. \A y \in U : Len(ns) <= y
    <3>1. ASSUME NEW y \in 0 .. MaxNodes, y < Len(ns)
          PROVE  g[y] # NONE
      <4>1. e[y] = ns[y + 1] /\ y + 1 \in 1 .. Len(ns)
        BY <1>1, <3>1
      <4> HIDE DEF e
      <4> QED BY <1>1, <1>9, <4>1
    <3> QED BY <1>1, <3>1
  <2> HIDE DEF U
  <2>5. Min(U) <= Len(ns) /\ Len(ns) <= Min(U) /\ Min(U) \in Nat
    BY <2>1, <2>2, <2>3, <2>4
  <2>6. Min(U) = Len(ns)
    BY <1>1, <2>5
  <2> QED BY <2>6 DEF U
<1>11. \A k \in 1 .. Len(ns) : g[k - 1] = ns[k]
  <2> TAKE k \in 1 .. Len(ns)
  <2>1. k - 1 \in 0 .. MaxNodes /\ e[k - 1] = ns[k]
    BY <1>1
  <2> HIDE DEF e
  <2> QED BY <1>9, <2>1
<1>12. ns = [k \in 1 .. Len(ns) |-> ns[k]]
  BY DEF Chain
<1> QED BY <1>5, <1>10, <1>11, <1>12, Zenon

(* Min finds an address that is not used: there are more candidates.       *)
LEMMA FreeAddress ==
  ASSUME NEW used, IsFiniteSet(used)
  PROVE  Free(used) \in Nat \ {0} /\ Free(used) \notin used
<1> DEFINE n == Cardinality(used)
           U == {a \in 1 .. n + 1 : a \notin used}
<1>1. n \in Nat
  BY FS_CardinalityType
<1> HIDE DEF n
<1>2. U # {}
  <2> SUFFICES ASSUME U = {}
               PROVE  FALSE
    OBVIOUS
  <2>1. 1 .. n + 1 \subseteq used
    OBVIOUS
  <2>2. Cardinality(1 .. n + 1) <= n
    BY <2>1, FS_Subset DEF n
  <2>3. Cardinality(1 .. n + 1) = n + 1
    <3>1. 1 \in Int /\ n + 1 \in Int
      BY <1>1
    <3>2. Cardinality(1 .. n + 1) = IF 1 > n + 1 THEN 0 ELSE (n + 1) - 1 + 1
      BY <3>1, FS_Interval
    <3> QED BY <1>1, <3>2
  <2> QED BY <1>1, <2>2, <2>3
<1>3. U \in SUBSET Nat
  BY <1>1
<1>4. Min(U) \in U
  <2> HIDE DEF U
  <2> QED BY <1>2, <1>3, MinElement
<1>5. Free(used) = Min(U)
  BY DEF Free, n
<1>6. Free(used) \in U
  BY <1>4, <1>5, Zenon
<1> QED BY <1>1, <1>6

(* The loop to the last node ends there.                                   *)
LEMMA LastNode ==
  ASSUME NEW h, NEW l, NEW ns, Chain(h, l, ns), ns # <<>>
  PROVE  ft_lstlast(h, l) = ns[Len(ns)]
<1> DEFINE n == Len(ns) - 1
           V(f) == f = [k \in 0 .. n |-> IF k = 0 THEN l ELSE h[f[k - 1]].next]
           e == [k \in 0 .. n |-> ns[k + 1]]
           g == CHOOSE f : V(f)
<1>1. /\ Len(ns) \in Nat /\ n \in Nat /\ l = ns[1] /\ n + 1 = Len(ns)
      /\ \A k \in 1 .. Len(ns) : h[ns[k]].next = IF k = Len(ns) THEN NONE ELSE ns[k + 1]
  BY DEF Chain
<1>2. Max({0, ft_lstsize(h, l) - 1}) = n
  <2>1. ft_lstsize(h, l) = Len(ns)
    BY WalkChain DEF ft_lstsize
  <2> HIDE DEF n
  <2>2. {0, n} \in SUBSET (0 .. n) /\ {0, n} # {}
    BY <1>1
  <2>3. Max({0, n}) \in {0, n} /\ \A y \in {0, n} : y <= Max({0, n})
    BY <1>1, <2>2, MaxElement
  <2>4. Max({0, n}) = n
    BY <1>1, <2>3
  <2> QED BY <2>1, <2>4 DEF n
<1>3. ft_lstlast(h, l) = g[n]
  <2> DEFINE G(N) ==
        (CHOOSE steps : steps = [k \in 0 .. N |-> IF k = 0 THEN l ELSE h[steps[k - 1]].next])[N]
  <2>1. ft_lstlast(h, l) = G(Max({0, ft_lstsize(h, l) - 1}))
    BY Zenon DEF ft_lstlast
  <2>2. g[n] = G(n)
    BY Zenon
  <2> HIDE DEF G, g, n
  <2> QED BY <1>2, <2>1, <2>2, Zenon
<1> HIDE DEF n
<1>4. V(e)
  <2>1. ASSUME NEW k \in 0 .. n
        PROVE  e[k] = IF k = 0 THEN l ELSE h[e[k - 1]].next
    <3>1. CASE k = 0
      BY <1>1, <3>1
    <3>2. CASE k # 0
      <4>1. k - 1 \in 0 .. n /\ (k - 1) + 1 = k /\ k \in 1 .. Len(ns) /\ k # Len(ns)
        BY <1>1, <3>2
      <4>2. e[k - 1] = ns[k] /\ e[k] = ns[k + 1]
        BY <4>1
      <4> HIDE DEF e
      <4> QED BY <1>1, <3>2, <4>1, <4>2
    <3> QED BY <3>1, <3>2
  <2>2. e = [k \in 0 .. n |-> e[k]]
    OBVIOUS
  <2> HIDE DEF e
  <2> QED BY <2>1, <2>2
<1>5. V(g)
  <2> HIDE DEF V
  <2> QED BY <1>4, Zenon
<1> HIDE DEF g
<1> DEFINE T == {k \in Nat : k <= n => g[k] = ns[k + 1]}
<1>6. 0 \in T
  BY <1>1, <1>5
<1>7. ASSUME NEW k \in T
      PROVE  k + 1 \in T
  <2>1. ASSUME k + 1 <= n
        PROVE  g[k + 1] = ns[k + 2]
    <3>1. /\ k + 1 \in 0 .. n /\ (k + 1) - 1 = k /\ k + 1 # 0 /\ k <= n
          /\ k + 1 \in 1 .. Len(ns) /\ k + 1 # Len(ns) /\ (k + 1) + 1 = k + 2
      BY <1>1, <2>1
    <3>2. g[k] = ns[k + 1]
      BY <3>1
    <3>3. g[k + 1] = h[g[k]].next
      BY <1>5, <3>1
    <3> QED BY <1>1, <3>1, <3>2, <3>3
  <2>2. (k + 1) + 1 = k + 2
    OBVIOUS
  <2> QED BY <2>1, <2>2
<1>8. n \in T
  <2>1. T \in SUBSET Nat
    OBVIOUS
  <2> HIDE DEF T
  <2> QED BY <1>1, <1>6, <1>7, <2>1, Induction
<1>9. g[n] = ns[n + 1]
  BY <1>1, <1>8
<1> QED BY <1>1, <1>3, <1>9

(* ft_lstclear frees the nodes of the list, all of them and no others.     *)
Without(h, D) == [m \in DOMAIN h \ D |-> h[m]]

LEMMA ClearFrees ==
  ASSUME NEW h, NEW l, NEW ns, Chain(h, l, ns), h = [m \in DOMAIN h |-> h[m]]
  PROVE  ft_lstclear(h, l, TRUE) = Without(h, Range(ns))
<1> DEFINE D == DOMAIN ns
           A == SUBSET D
           nodes(S) == {ns[k] : k \in S}
           pick(S) == CHOOSE x \in S : TRUE
           V(f) == f = [S \in A |-> IF S = {} THEN h
                                     ELSE [m \in DOMAIN f[S \ {pick(S)}] \ {ns[pick(S)]} |->
                                             f[S \ {pick(S)}][m]]]
           e == [S \in A |-> Without(h, nodes(S))]
           g == CHOOSE f : V(f)
<1>1. D = 1 .. Len(ns) /\ Len(ns) \in Nat
  BY DEF Chain
<1>2. ft_lstclear(h, l, TRUE) = g[D]
  <2>1. Walk(h, l) = ns
    BY WalkChain
  <2>2. ft_lstclear(h, l, TRUE) = FoldSeq(LAMBDA m, f : ft_lstdelone(f, m), h, Walk(h, l))
    BY Zenon DEF ft_lstclear
  <2>3. FoldSeq(LAMBDA m, f : ft_lstdelone(f, m), h, ns) = g[D]
    BY Zenon DEF FoldSeq, FoldFunction, FoldFunctionOnSet, MapThenFoldSet, ft_lstdelone
  <2> QED BY <2>1, <2>2, <2>3, Zenon
<1> HIDE DEF D
<1>3. ASSUME NEW S \in A, S # {}
      PROVE  pick(S) \in S /\ S \ {pick(S)} \in A /\ S = (S \ {pick(S)}) \cup {pick(S)}
  BY <1>3
<1> HIDE DEF pick
<1>4. \A S \in A : S # {} =>
        Without(h, nodes(S))
          = [m \in DOMAIN Without(h, nodes(S \ {pick(S)})) \ {ns[pick(S)]} |->
               Without(h, nodes(S \ {pick(S)}))[m]]
  <2> TAKE S \in A
  <2> HAVE S # {}
  <2>1. nodes(S) = nodes(S \ {pick(S)}) \cup {ns[pick(S)]}
    BY <1>3
  <2> DEFINE N == nodes(S \ {pick(S)})
  <2> HIDE DEF nodes, N
  <2>2. nodes(S) = N \cup {ns[pick(S)]}
    BY <2>1 DEF N
  <2>3. DOMAIN Without(h, N) \ {ns[pick(S)]} = DOMAIN h \ nodes(S)
    BY <2>2 DEF Without
  <2>4. \A m \in DOMAIN h \ nodes(S) : Without(h, N)[m] = h[m]
    BY <2>2 DEF Without
  <2>5. [m \in DOMAIN Without(h, N) \ {ns[pick(S)]} |-> Without(h, N)[m]] = Without(h, nodes(S))
    BY <2>3, <2>4 DEF Without
  <2> QED BY <2>5 DEF N
<1>5. nodes({}) = {} /\ Without(h, {}) = h
  BY DEF Without
<1>6. V(e)
  <2> HIDE DEF nodes
  <2>1. \A S \in A : e[S] = Without(h, nodes(S))
    OBVIOUS
  <2>2. ASSUME NEW S \in A
        PROVE  e[S] = IF S = {} THEN h
                      ELSE [m \in DOMAIN e[S \ {pick(S)}] \ {ns[pick(S)]} |-> e[S \ {pick(S)}][m]]
    <3>1. CASE S = {}
      BY <1>5, <2>1, <3>1
    <3>2. CASE S # {}
      <4>1. e[S \ {pick(S)}] = Without(h, nodes(S \ {pick(S)}))
        BY <1>3, <2>1, <3>2
      <4>2. e[S] = Without(h, nodes(S))
        BY <2>1
      <4> HIDE DEF e
      <4> QED BY <1>4, <3>2, <4>1, <4>2
    <3> QED BY <3>1, <3>2
  <2>3. e = [S \in A |-> e[S]]
    OBVIOUS
  <2> HIDE DEF e
  <2> QED BY <2>2, <2>3
<1>7. V(g)
  <2> HIDE DEF V
  <2> QED BY <1>6, Zenon
<1> HIDE DEF g
<1> DEFINE M == [S \in A |-> Cardinality(S)]
           T == {S \in A : g[S] = Without(h, nodes(S))}
<1>8. M \in [A -> Nat]
  <2>1. IsFiniteSet(D)
    BY <1>1, FS_Interval
  <2> QED BY <2>1, FS_Subset, FS_CardinalityType
<1>9. ASSUME NEW S \in A, \A x \in A : M[x] < M[S] => x \in T
      PROVE  S \in T
  <2> HIDE DEF nodes
  <2>1. CASE S = {}
    BY <1>5, <1>7, <2>1
  <2>2. CASE S # {}
    <3> DEFINE R == S \ {pick(S)}
    <3>1. pick(S) \in S /\ R \in A
      BY <1>3, <2>2
    <3>2. M[R] < M[S]
      <4>1. IsFiniteSet(S)
        <5>1. IsFiniteSet(D)
          BY <1>1, FS_Interval
        <5> QED BY <5>1, FS_Subset
      <4>2. Cardinality(R) = Cardinality(S) - 1 /\ Cardinality(S) \in Nat
        BY <3>1, <4>1, FS_RemoveElement, FS_CardinalityType
      <4> HIDE DEF R
      <4> QED BY <3>1, <4>2
    <3>3. g[R] = Without(h, nodes(R))
      <4> HIDE DEF R, M
      <4> QED BY <1>9, <3>1, <3>2
    <3>4. g[S] = [m \in DOMAIN g[R] \ {ns[pick(S)]} |-> g[R][m]]
      BY <1>7, <2>2
    <3>5. Without(h, nodes(S))
            = [m \in DOMAIN Without(h, nodes(R)) \ {ns[pick(S)]} |-> Without(h, nodes(R))[m]]
      BY <1>4, <2>2
    <3>6. g[S] = Without(h, nodes(S))
      <4> HIDE DEF R, A
      <4> QED BY <3>3, <3>4, <3>5, Zenon
    <3> QED BY <3>6
  <2> QED BY <2>1, <2>2
<1>10. T = A
  <2>1. T \in SUBSET A
    OBVIOUS
  <2> HIDE DEF T, A, M
  <2> QED BY <1>8, <1>9, <2>1, StrongInduction
<1>11. g[D] = Without(h, nodes(D))
  <2>1. D \in T
    <3> HIDE DEF T
    <3> QED BY <1>10
  <2> QED BY <2>1
<1>12. nodes(D) = Range(ns)
  BY DEF D, Range
<1> QED BY <1>2, <1>11, <1>12

(* A heap of nodes that the program can have.                              *)
Nodes == [content : Nat, next : Nat \cup {NONE}]

HeapOK(h) ==
  /\ IsFiniteSet(DOMAIN h) /\ DOMAIN h \subseteq Nat \ {0}
  /\ Cardinality(DOMAIN h) <= MaxNodes
  /\ h \in [DOMAIN h -> Nodes]

(* There are no more nodes in a list than in memory.                       *)
LEMMA ListLength ==
  ASSUME NEW h, HeapOK(h), NEW ns \in Seq(DOMAIN h), IsInjective(ns)
  PROVE  Len(ns) <= Cardinality(DOMAIN h)
<1>1. Len(ns) \in Nat
  OBVIOUS
<1>2. ns \in Injection(1 .. Len(ns), DOMAIN h)
  BY DEF IsInjective, Injection
<1>3. Cardinality(1 .. Len(ns)) <= Cardinality(DOMAIN h)
  BY <1>2, FS_Injection DEF HeapOK
<1>4. Cardinality(1 .. Len(ns)) = Len(ns)
  <2>1. 1 \in Int /\ Len(ns) \in Int
    OBVIOUS
  <2>2. Cardinality(1 .. Len(ns)) = IF 1 > Len(ns) THEN 0 ELSE Len(ns) - 1 + 1
    BY <2>1, FS_Interval
  <2> QED BY <1>1, <2>2
<1> QED BY <1>3, <1>4

(* Stores that leave the pointers of a list alone leave the list alone.    *)
Keeps(h, g, R) ==
  /\ NONE \notin DOMAIN g
  /\ \A m \in R : m \in DOMAIN g /\ g[m].next = h[m].next

LEMMA ChainKept ==
  ASSUME NEW h, NEW g, NEW l, NEW ns, Chain(h, l, ns), Keeps(h, g, Range(ns))
  PROVE  Chain(g, l, ns)
<1>1. \A k \in 1 .. Len(ns) : ns[k] \in Range(ns)
  BY DEF Chain, Range
<1>2. ns \in Seq(DOMAIN g)
  <2>1. \A k \in 1 .. Len(ns) : ns[k] \in DOMAIN g
    BY <1>1 DEF Keeps
  <2> QED BY <2>1 DEF Chain
<1>3. \A k \in 1 .. Len(ns) : g[ns[k]].next = h[ns[k]].next
  BY <1>1 DEF Keeps
<1> QED BY <1>2, <1>3 DEF Chain, Keeps

(* The beginning of the list is one node longer.                           *)
LEMMA ChainFront ==
  ASSUME NEW h, HeapOK(h), NEW l, NEW ns, Chain(h, l, ns), NEW x \in DOMAIN h,
         x \notin Range(ns), Len(ns) < MaxNodes
  PROVE  Chain(ft_lstadd_front(h, l, x), x, <<x>> \o ns)
<1> DEFINE g == ft_lstadd_front(h, l, x)
           t == <<x>> \o ns
<1>1. ns \in Seq(DOMAIN h) /\ Len(ns) \in Nat /\ MaxNodes \in Nat
  BY ListsAssumption DEF Chain
<1>2. DOMAIN g = DOMAIN h /\ g[x].next = l
  BY DEF ft_lstadd_front, HeapOK, Nodes
<1>3. \A m \in DOMAIN h \ {x} : g[m] = h[m]
  BY DEF ft_lstadd_front
<1>4. t \in Seq(DOMAIN h) /\ Len(t) = Len(ns) + 1 /\ t[1] = x
      /\ \A k \in 1 .. Len(ns) : t[k + 1] = ns[k]
  BY <1>1
<1> HIDE DEF g, t
<1>5. ASSUME NEW k \in 1 .. Len(t)
      PROVE  g[t[k]].next = IF k = Len(t) THEN NONE ELSE t[k + 1]
  <2>1. CASE k = 1
    <3>1. g[t[k]].next = l
      BY <1>2, <1>4, <2>1
    <3>2. CASE Len(ns) = 0
      <4>1. l = NONE /\ k = Len(t)
        BY <1>1, <1>4, <2>1, <3>2 DEF Chain
      <4> QED BY <3>1, <4>1
    <3>3. CASE Len(ns) > 0
      <4>1. l = ns[1] /\ k # Len(t) /\ t[k + 1] = ns[1]
        BY <1>1, <1>4, <2>1, <3>3 DEF Chain
      <4> QED BY <3>1, <4>1
    <3> QED BY <1>1, <3>2, <3>3
  <2>2. CASE k # 1
    <3>1. k - 1 \in 1 .. Len(ns) /\ (k - 1) + 1 = k
      BY <1>1, <1>4, <2>2
    <3>2. t[k] = ns[k - 1] /\ ns[k - 1] \in DOMAIN h \ {x}
      BY <1>1, <1>4, <3>1 DEF Range
    <3>3. g[t[k]].next = h[ns[k - 1]].next
      BY <1>3, <3>2
    <3>4. h[ns[k - 1]].next = IF k - 1 = Len(ns) THEN NONE ELSE ns[(k - 1) + 1]
      BY <3>1 DEF Chain
    <3>5. CASE k = Len(t)
      BY <1>1, <1>4, <3>3, <3>4, <3>5
    <3>6. CASE k # Len(t)
      <4>1. k \in 1 .. Len(ns) /\ k - 1 # Len(ns)
        BY <1>1, <1>4, <3>1, <3>6
      <4>2. t[k + 1] = ns[k]
        BY <1>4, <4>1
      <4> QED BY <3>1, <3>3, <3>4, <3>6, <4>1, <4>2
    <3> QED BY <3>5, <3>6
  <2> QED BY <2>1, <2>2
<1>6. t \in Seq(DOMAIN g) /\ Len(t) <= MaxNodes /\ x = (IF t = <<>> THEN NONE ELSE t[1])
  BY <1>1, <1>2, <1>4
<1>7. NONE \notin DOMAIN g
  BY <1>2 DEF Chain
<1>8. Chain(g, x, t)
  BY <1>5, <1>6, <1>7 DEF Chain
<1> QED BY <1>8 DEF g, t

(* g is h with other pointers in nodes of R.                               *)
Relinks(h, g, R) ==
  /\ HeapOK(g) /\ DOMAIN g = DOMAIN h
  /\ \A m \in DOMAIN h : g[m].content = h[m].content
  /\ \A m \in DOMAIN h \ R : g[m] = h[m]

(* The end of the list is one node longer, and nothing else has changed.   *)
LEMMA ChainBack ==
  ASSUME NEW h, HeapOK(h), NEW l, NEW ns, Chain(h, l, ns), IsInjective(ns),
         NEW x \in DOMAIN h, x \notin Range(ns), h[x].next = NONE, Len(ns) < MaxNodes
  PROVE  /\ Chain(ft_lstadd_back(h, l, x), IF l = NONE THEN x ELSE l, Append(ns, x))
         /\ Relinks(h, ft_lstadd_back(h, l, x), Range(ns))
<1> DEFINE g == ft_lstadd_back(h, l, x)
           t == Append(ns, x)
           n == Len(ns)
<1>1. ns \in Seq(DOMAIN h) /\ n \in Nat /\ MaxNodes \in Nat /\ n < MaxNodes
  BY ListsAssumption DEF Chain
<1>2. \A k \in 1 .. n : ns[k] \in DOMAIN h /\ ns[k] # NONE
  BY <1>1 DEF Chain
<1>3. t \in Seq(DOMAIN h) /\ Len(t) = n + 1 /\ t[n + 1] = x /\ \A k \in 1 .. n : t[k] = ns[k]
  BY <1>1
<1>4. \A m \in DOMAIN h : h[m] \in Nodes
  BY DEF HeapOK
<1>5. x \in Nat
  BY DEF HeapOK
<1>6. CASE n = 0
  <2>1. ns = <<>> /\ l = NONE
    BY <1>1, <1>6 DEF Chain
  <2>2. g = h
    BY <2>1 DEF ft_lstadd_back
  <2>3. t = <<x>>
    BY <2>1
  <2>4. Chain(h, x, t)
    <3>1. t \in Seq(DOMAIN h) /\ Len(t) = 1 /\ t[1] = x /\ t # <<>>
      BY <2>3
    <3>2. Len(t) <= MaxNodes
      BY <1>1, <3>1
    <3>3. NONE \notin DOMAIN h
      BY DEF Chain
    <3> HIDE DEF t
    <3> QED BY <3>1, <3>2, <3>3 DEF Chain
  <2> HIDE DEF g, t
  <2>5. Chain(g, IF l = NONE THEN x ELSE l, t)
    BY <2>1, <2>2, <2>4
  <2> QED BY <2>2, <2>5 DEF g, t, Relinks
<1>7. CASE n > 0
  <2>1. ns # <<>> /\ l = ns[1] /\ n \in 1 .. n /\ l # NONE
    BY <1>1, <1>2, <1>7 DEF Chain
  <2>2. g = [h EXCEPT ![ns[n]].next = x]
    BY <2>1, LastNode DEF ft_lstadd_back
  <2>3. ns[n] \in DOMAIN h /\ ns[n] \in Range(ns)
    BY <1>2, <2>1 DEF Range
  <2>4. g = [h EXCEPT ![ns[n]] = [h[ns[n]] EXCEPT !.next = x]]
    BY <2>2
  <2>5. DOMAIN g = DOMAIN h /\ \A m \in DOMAIN h \ {ns[n]} : g[m] = h[m]
    BY <2>4
  <2>6. g[ns[n]] = [h[ns[n]] EXCEPT !.next = x]
    BY <2>3, <2>4
  <2>7. g[ns[n]].next = x /\ g[ns[n]].content = h[ns[n]].content /\ g[ns[n]] \in Nodes
    BY <1>4, <1>5, <2>3, <2>6 DEF Nodes
  <2> HIDE DEF g, t
  <2>8. ASSUME NEW k \in 1 .. n + 1
        PROVE  g[t[k]].next = IF k = n + 1 THEN NONE ELSE t[k + 1]
    <3>1. CASE k = n + 1
      <4>1. x # ns[n]
        BY <2>3
      <4> QED BY <1>3, <2>5, <3>1, <4>1
    <3>2. CASE k = n
      BY <1>1, <1>3, <2>1, <2>7, <3>2
    <3>3. CASE k < n
      <4>1. k \in 1 .. n /\ k + 1 \in 1 .. n /\ k # n
        BY <1>1, <3>3
      <4>2. ns[k] # ns[n]
        BY <1>1, <2>1, <4>1 DEF IsInjective
      <4>3. g[ns[k]] = h[ns[k]]
        BY <1>2, <2>5, <4>1, <4>2
      <4>4. h[ns[k]].next = ns[k + 1]
        BY <4>1 DEF Chain
      <4>5. t[k] = ns[k] /\ t[k + 1] = ns[k + 1] /\ k # n + 1
        BY <1>1, <1>3, <4>1
      <4> QED BY <4>3, <4>4, <4>5
    <3> QED BY <1>1, <3>1, <3>2, <3>3
  <2>9. t \in Seq(DOMAIN g) /\ Len(t) = n + 1 /\ n + 1 <= MaxNodes /\ t # <<>> /\ t[1] = l
    BY <1>1, <1>3, <2>1, <2>5
  <2>10. NONE \notin DOMAIN g
    BY <2>5 DEF Chain
  <2>11. Chain(g, l, t)
    BY <2>8, <2>9, <2>10 DEF Chain
  <2>12. HeapOK(g)
    <3>1. \A m \in DOMAIN g : g[m] \in Nodes
      BY <1>4, <2>5, <2>7
    <3>2. g = [m \in DOMAIN g |-> g[m]]
      BY <2>4
    <3>3. g \in [DOMAIN g -> Nodes]
      BY <3>1, <3>2
    <3> QED BY <2>5, <3>3 DEF HeapOK
  <2>13. \A m \in DOMAIN h : g[m].content = h[m].content
    BY <2>5, <2>7
  <2>14. \A m \in DOMAIN h \ Range(ns) : g[m] = h[m]
    BY <2>3, <2>5
  <2> QED BY <2>1, <2>5, <2>11, <2>12, <2>13, <2>14 DEF g, t, Relinks
<1> QED BY <1>1, <1>6, <1>7

(* The rest of the list without its first node.                            *)
LEMMA ChainTail ==
  ASSUME NEW h, NEW l, NEW ns, Chain(h, l, ns), IsInjective(ns), ns # <<>>
  PROVE  /\ Chain(Without(h, {l}), h[l].next, Tail(ns))
         /\ IsInjective(Tail(ns)) /\ Range(Tail(ns)) = Range(ns) \ {l}
         /\ l \in Range(ns) /\ l \in DOMAIN h
<1> DEFINE t == Tail(ns)
           n == Len(ns)
           g == Without(h, {l})
<1>1. ns \in Seq(DOMAIN h) /\ n \in Nat /\ n > 0 /\ n <= MaxNodes /\ l = ns[1]
      /\ \A k \in 1 .. n : ns[k] \in DOMAIN h
  BY DEF Chain
<1>2. t \in Seq(DOMAIN h) /\ Len(t) = n - 1 /\ \A k \in 1 .. n - 1 : t[k] = ns[k + 1]
  BY <1>1
<1>3. \A k \in 1 .. n - 1 : k + 1 \in 1 .. n /\ t[k] # l
  BY <1>1, <1>2 DEF IsInjective
<1>4. DOMAIN g = DOMAIN h \ {l} /\ \A m \in DOMAIN h \ {l} : g[m] = h[m]
  BY DEF Without
<1> HIDE DEF g, t
<1>5. t \in Seq(DOMAIN g)
  <2>1. \A k \in 1 .. Len(t) : t[k] \in DOMAIN g
    BY <1>1, <1>2, <1>3, <1>4
  <2> QED BY <1>2, <2>1
<1>6. ASSUME NEW k \in 1 .. n - 1
      PROVE  g[t[k]].next = IF k = n - 1 THEN NONE ELSE t[k + 1]
  <2>1. k + 1 \in 1 .. n /\ t[k] = ns[k + 1] /\ t[k] \in DOMAIN h \ {l}
    BY <1>1, <1>2, <1>3
  <2>2. g[t[k]].next = h[ns[k + 1]].next
    BY <1>4, <2>1
  <2>3. h[ns[k + 1]].next = IF k + 1 = n THEN NONE ELSE ns[(k + 1) + 1]
    BY <2>1 DEF Chain
  <2>4. CASE k = n - 1
    BY <1>1, <2>2, <2>3, <2>4
  <2>5. CASE k # n - 1
    <3>1. k + 1 \in 1 .. n - 1 /\ k + 1 # n
      BY <1>1, <2>5
    <3>2. t[k + 1] = ns[(k + 1) + 1]
      BY <1>2, <3>1
    <3> QED BY <2>2, <2>3, <2>5, <3>1, <3>2
  <2> QED BY <2>4, <2>5
<1>7. h[l].next = IF t = <<>> THEN NONE ELSE t[1]
  <2>0. 1 \in 1 .. n /\ (n = 1 \/ n > 1)
    <3>1. n \in Nat /\ n > 0
      BY <1>1
    <3> HIDE DEF n
    <3> QED BY <3>1
  <2>1. h[l].next = IF 1 = n THEN NONE ELSE ns[1 + 1]
    <3>1. \A k \in 1 .. n : h[ns[k]].next = IF k = n THEN NONE ELSE ns[k + 1]
      BY DEF Chain
    <3>2. h[ns[1]].next = IF 1 = n THEN NONE ELSE ns[1 + 1]
      BY <2>0, <3>1
    <3> QED BY <1>1, <3>2
  <2>2. CASE n = 1
    <3>1. t = <<>>
      BY <1>2, <2>2
    <3> QED BY <2>1, <2>2, <3>1
  <2>3. CASE n > 1
    <3>1. t # <<>> /\ t[1] = ns[1 + 1]
      BY <1>1, <1>2, <2>3
    <3> QED BY <1>1, <2>1, <2>3, <3>1
  <2> QED BY <2>0, <2>2, <2>3
<1>8. NONE \notin DOMAIN g
  BY <1>4 DEF Chain
<1>9. Len(t) <= MaxNodes
  BY <1>1, <1>2, ListsAssumption
<1>10. Chain(g, h[l].next, t)
  BY <1>2, <1>5, <1>6, <1>7, <1>8, <1>9 DEF Chain
<1>11. IsInjective(t)
  <2>1. DOMAIN t = 1 .. n - 1 /\ DOMAIN ns = 1 .. n
    BY <1>1, <1>2
  <2> SUFFICES ASSUME NEW a \in 1 .. n - 1, NEW b \in 1 .. n - 1, t[a] = t[b]
               PROVE  a = b
    BY <2>1 DEF IsInjective
  <2>2. a + 1 \in 1 .. n /\ b + 1 \in 1 .. n /\ ns[a + 1] = ns[b + 1]
    BY <1>1, <1>2
  <2>3. a + 1 = b + 1
    BY <2>1, <2>2 DEF IsInjective
  <2> QED BY <2>3
<1>12. Range(t) = Range(ns) \ {l}
  <2>1. DOMAIN t = 1 .. n - 1 /\ DOMAIN ns = 1 .. n
    BY <1>1, <1>2
  <2>2. ASSUME NEW m \in Range(t)
        PROVE  m \in Range(ns) \ {l}
    BY <1>2, <1>3, <2>1 DEF Range
  <2>3. ASSUME NEW m \in Range(ns) \ {l}
        PROVE  m \in Range(t)
    <3>1. PICK k \in 1 .. n : m = ns[k]
      BY <2>1 DEF Range
    <3>2. k # 1
      BY <1>1, <3>1
    <3>3. k - 1 \in 1 .. n - 1 /\ (k - 1) + 1 = k
      BY <1>1, <3>2
    <3>4. t[k - 1] = m
      BY <1>2, <3>1, <3>3
    <3> QED BY <2>1, <3>3, <3>4 DEF Range
  <2> QED BY <2>2, <2>3
<1>13. l \in Range(ns) /\ l \in DOMAIN h
  BY <1>1 DEF Range
<1> QED BY <1>10, <1>11, <1>12, <1>13 DEF g, t

(* The contents of some nodes.                                             *)
ContentsOf(h, R) == {h[m].content : m \in R}

(* The nodes of R hold the contents that are allocated and not lost, one   *)
(* each.                                                                   *)
Accounted(h, contents, lo, R) ==
  /\ IsFiniteSet(contents) /\ contents \subseteq Nat
  /\ R \subseteq DOMAIN h
  /\ contents = ContentsOf(h, R) \cup lo /\ ContentsOf(h, R) \cap lo = {}
  /\ \A m, n \in R : h[m].content = h[n].content => m = n
  /\ \A m \in DOMAIN h \ R : h[m].content \in lo

(* A new node, with a new content.                                         *)
LEMMA NewNode ==
  ASSUME NEW h, HeapOK(h), Cardinality(DOMAIN h) < MaxNodes, NEW c \in Nat
  PROVE  /\ Free(DOMAIN h) \in Nat \ {0} /\ Free(DOMAIN h) \notin DOMAIN h
         /\ Free(DOMAIN h) # NONE
         /\ HeapOK(ft_lstnew(h, c))
         /\ DOMAIN ft_lstnew(h, c) = DOMAIN h \cup {Free(DOMAIN h)}
         /\ ft_lstnew(h, c)[Free(DOMAIN h)] = [content |-> c, next |-> NONE]
         /\ \A m \in DOMAIN h : ft_lstnew(h, c)[m] = h[m]
<1> DEFINE a == Free(DOMAIN h)
           g == ft_lstnew(h, c)
<1>1. a \in Nat \ {0} /\ a \notin DOMAIN h
  BY FreeAddress DEF HeapOK
<1>2. a # NONE
  BY <1>1, ListsAssumption
<1>3. g = [m \in DOMAIN h \cup {a} |-> IF m = a THEN [content |-> c, next |-> NONE] ELSE h[m]]
  BY DEF ft_lstnew
<1> HIDE DEF a, g
<1>4. /\ DOMAIN g = DOMAIN h \cup {a} /\ g[a] = [content |-> c, next |-> NONE]
      /\ \A m \in DOMAIN h : g[m] = h[m]
  BY <1>1, <1>3
<1>5. g \in [DOMAIN g -> Nodes]
  BY <1>3 DEF HeapOK, Nodes
<1>6. IsFiniteSet(DOMAIN g) /\ Cardinality(DOMAIN g) = Cardinality(DOMAIN h) + 1
  BY <1>1, <1>4, FS_AddElement DEF HeapOK
<1>7. Cardinality(DOMAIN h) \in Nat /\ MaxNodes \in Nat
  BY FS_CardinalityType, ListsAssumption DEF HeapOK
<1>8. HeapOK(g)
  BY <1>1, <1>4, <1>5, <1>6, <1>7 DEF HeapOK
<1> QED BY <1>1, <1>2, <1>4, <1>8 DEF a, g

LEMMA AccountNew ==
  ASSUME NEW h, NEW contents, NEW lo, NEW R, Accounted(h, contents, lo, R),
         NEW g, NEW a, a \notin DOMAIN h, DOMAIN g = DOMAIN h \cup {a},
         g[a].content = Free(contents), \A m \in DOMAIN h : g[m].content = h[m].content
  PROVE  Accounted(g, contents \cup {Free(contents)}, lo, R \cup {a})
<1> DEFINE c == Free(contents)
<1>1. c \in Nat /\ c \notin contents
  BY FreeAddress DEF Accounted
<1> HIDE DEF c
<1>2. IsFiniteSet(contents \cup {c}) /\ contents \cup {c} \subseteq Nat
  BY <1>1, FS_AddElement DEF Accounted
<1>3. R \cup {a} \subseteq DOMAIN g
  BY DEF Accounted
<1>4. \A m \in R : m # a /\ m \in DOMAIN h /\ g[m].content = h[m].content
  BY DEF Accounted
<1>5. g[a].content = c
  BY DEF c
<1>6. ContentsOf(g, R \cup {a}) = ContentsOf(h, R) \cup {c}
  BY <1>4, <1>5 DEF ContentsOf
<1>7. contents \cup {c} = ContentsOf(g, R \cup {a}) \cup lo
  BY <1>6 DEF Accounted
<1>8. ContentsOf(g, R \cup {a}) \cap lo = {}
  BY <1>1, <1>6 DEF Accounted
<1>9. \A m \in R : h[m].content \in contents
  BY DEF Accounted, ContentsOf
<1>10. ASSUME NEW m \in R \cup {a}, NEW n \in R \cup {a}, g[m].content = g[n].content
       PROVE  m = n
  <2>1. CASE m = a /\ n = a
    BY <2>1
  <2>2. CASE m = a /\ n # a
    BY <1>1, <1>4, <1>5, <1>9, <1>10, <2>2
  <2>3. CASE m # a /\ n = a
    BY <1>1, <1>4, <1>5, <1>9, <1>10, <2>3
  <2>4. CASE m # a /\ n # a
    BY <1>4, <1>10, <2>4 DEF Accounted
  <2> QED BY <2>1, <2>2, <2>3, <2>4
<1>11. \A m \in DOMAIN g \ (R \cup {a}) : g[m].content \in lo
  BY DEF Accounted
<1>12. Accounted(g, contents \cup {c}, lo, R \cup {a})
  BY <1>2, <1>3, <1>7, <1>8, <1>10, <1>11 DEF Accounted
<1> QED BY <1>12 DEF c

(* Nodes are freed with their contents.                                    *)
LEMMA AccountFreed ==
  ASSUME NEW h, HeapOK(h), NEW contents, NEW lo, NEW R, Accounted(h, contents, lo, R), NEW D \in SUBSET R
  PROVE  /\ Accounted(Without(h, D), contents \ ContentsOf(h, D), lo, R \ D)
         /\ HeapOK(Without(h, D))
<1> DEFINE g == Without(h, D)
           freed == ContentsOf(h, D)
<1>1. DOMAIN g = DOMAIN h \ D /\ \A m \in DOMAIN h \ D : g[m] = h[m]
  BY DEF Without
<1>2. g \in [DOMAIN g -> Nodes]
  BY DEF HeapOK, Without
<1> HIDE DEF g
<1>3. R \ D \subseteq DOMAIN g
  BY <1>1 DEF Accounted
<1>4. \A m \in R \ D : g[m] = h[m]
  BY <1>1, <1>3
<1>5. ContentsOf(g, R \ D) = ContentsOf(h, R) \ freed
  BY <1>4 DEF ContentsOf, Accounted
<1>6. freed \cap lo = {}
  BY DEF ContentsOf, Accounted
<1> HIDE DEF freed
<1>7. contents \ freed = ContentsOf(g, R \ D) \cup lo
  BY <1>5, <1>6 DEF Accounted
<1>8. ContentsOf(g, R \ D) \cap lo = {}
  BY <1>5 DEF Accounted
<1>9. IsFiniteSet(contents \ freed) /\ contents \ freed \subseteq Nat
  BY FS_Subset DEF Accounted
<1>10. \A m, n \in R \ D : g[m].content = g[n].content => m = n
  BY <1>4 DEF Accounted
<1>11. \A m \in DOMAIN g \ (R \ D) : g[m].content \in lo
  BY <1>1 DEF Accounted
<1>12. Accounted(g, contents \ freed, lo, R \ D)
  BY <1>3, <1>7, <1>8, <1>9, <1>10, <1>11 DEF Accounted
<1>13. HeapOK(g)
  <2>1. IsFiniteSet(DOMAIN g) /\ Cardinality(DOMAIN g) <= Cardinality(DOMAIN h)
    BY <1>1, FS_Subset DEF HeapOK
  <2>2. /\ Cardinality(DOMAIN g) \in Nat /\ Cardinality(DOMAIN h) \in Nat
        /\ MaxNodes \in Nat /\ Cardinality(DOMAIN h) <= MaxNodes
    BY <2>1, FS_CardinalityType, ListsAssumption DEF HeapOK
  <2>3. Cardinality(DOMAIN g) <= MaxNodes
    BY <2>1, <2>2
  <2> QED BY <1>1, <1>2, <2>1, <2>3 DEF HeapOK
<1> QED BY <1>12, <1>13 DEF g, freed

(* Nodes are forgotten with their contents.                                *)
LEMMA AccountLost ==
  ASSUME NEW h, NEW contents, NEW lo, NEW R, Accounted(h, contents, lo, R), NEW D \in SUBSET R
  PROVE  Accounted(h, contents, lo \cup ContentsOf(h, D), R \ D)
<1>1. ContentsOf(h, R) = ContentsOf(h, R \ D) \cup ContentsOf(h, D)
  BY DEF ContentsOf
<1>2. ContentsOf(h, R \ D) \cap ContentsOf(h, D) = {}
  BY DEF ContentsOf, Accounted
<1>3. \A m \in DOMAIN h \ (R \ D) : h[m].content \in lo \cup ContentsOf(h, D)
  BY DEF ContentsOf, Accounted
<1> QED BY <1>1, <1>2, <1>3 DEF Accounted

(* A content is allocated and lost.                                        *)
LEMMA AccountLeak ==
  ASSUME NEW h, NEW contents, NEW lo, NEW R, Accounted(h, contents, lo, R),
         NEW c \in Nat, c \notin contents
  PROVE  Accounted(h, contents \cup {c}, lo \cup {c}, R)
<1>1. IsFiniteSet(contents \cup {c}) /\ contents \cup {c} \subseteq Nat
  BY FS_AddElement DEF Accounted
<1> QED BY <1>1 DEF Accounted

(* Stores into the pointers of nodes leave the accounts alone.             *)
LEMMA AccountKept ==
  ASSUME NEW h, NEW contents, NEW lo, NEW R, Accounted(h, contents, lo, R),
         NEW g, DOMAIN g = DOMAIN h, \A m \in DOMAIN h : g[m].content = h[m].content
  PROVE  Accounted(g, contents, lo, R)
<1>1. ContentsOf(g, R) = ContentsOf(h, R)
  BY DEF ContentsOf, Accounted
<1> QED BY <1>1 DEF Accounted

(* As many contents as nodes.                                              *)
LEMMA AccountCounts ==
  ASSUME NEW h, HeapOK(h), NEW contents, NEW lo, NEW R, Accounted(h, contents, lo, R)
  PROVE  Cardinality(ContentsOf(h, R)) = Cardinality(R)
<1> DEFINE f == [m \in R |-> h[m].content]
<1>1. f \in [R -> ContentsOf(h, R)] /\ \A m \in R : f[m] = h[m].content
  BY DEF ContentsOf
<1>2. \A m, n \in R : f[m] = f[n] => m = n
  BY <1>1 DEF Accounted
<1>3. \A c \in ContentsOf(h, R) : \E m \in R : f[m] = c
  BY <1>1 DEF ContentsOf
<1> HIDE DEF f
<1>4. f \in Bijection(R, ContentsOf(h, R))
  BY <1>1, <1>2, <1>3 DEF Bijection, Injection, Surjection, IsInjective
<1>5. R \subseteq DOMAIN h /\ IsFiniteSet(DOMAIN h)
  BY DEF Accounted, HeapOK
<1>6. IsFiniteSet(R)
  BY <1>5, FS_Subset
<1> QED BY <1>4, <1>6, FS_Bijection DEF ExistsBijection

LEMMA RoomForOneMore ==
  ASSUME NEW h, HeapOK(h), NEW ns \in Seq(DOMAIN h), IsInjective(ns),
         NEW x \in DOMAIN h, x \notin Range(ns)
  PROVE  Len(ns) < MaxNodes
<1>1. Append(ns, x) \in Seq(DOMAIN h) /\ IsInjective(Append(ns, x))
  BY AppendRange
<1>2. Len(Append(ns, x)) <= Cardinality(DOMAIN h)
  BY <1>1, ListLength
<1>3. Len(Append(ns, x)) = Len(ns) + 1 /\ Len(ns) \in Nat
  OBVIOUS
<1>4. Cardinality(DOMAIN h) \in Nat /\ Cardinality(DOMAIN h) <= MaxNodes /\ MaxNodes \in Nat
  BY FS_CardinalityType, ListsAssumption DEF HeapOK
<1> QED BY <1>2, <1>3, <1>4

(* Only the pointer of the new node changes.                               *)
LEMMA FrontFrame ==
  ASSUME NEW h, HeapOK(h), NEW l \in Nat \cup {NONE}, NEW x \in DOMAIN h
  PROVE  Relinks(h, ft_lstadd_front(h, l, x), {x})
<1> DEFINE g == ft_lstadd_front(h, l, x)
<1>1. g = [h EXCEPT ![x] = [h[x] EXCEPT !.next = l]]
  BY DEF ft_lstadd_front
<1>2. \A m \in DOMAIN h : h[m] \in Nodes
  BY DEF HeapOK
<1>3. DOMAIN g = DOMAIN h /\ \A m \in DOMAIN h \ {x} : g[m] = h[m]
  BY <1>1
<1>4. g[x] = [h[x] EXCEPT !.next = l]
  BY <1>1
<1>5. g[x].content = h[x].content /\ g[x] \in Nodes
  BY <1>2, <1>4 DEF Nodes
<1>6. g = [m \in DOMAIN g |-> g[m]]
  BY <1>1
<1> HIDE DEF g
<1>7. \A m \in DOMAIN g : g[m] \in Nodes
  BY <1>2, <1>3, <1>5
<1>8. g \in [DOMAIN g -> Nodes]
  BY <1>6, <1>7
<1>9. HeapOK(g)
  BY <1>3, <1>8 DEF HeapOK
<1> QED BY <1>3, <1>5, <1>9 DEF g, Relinks

LEMMA FrontRange ==
  ASSUME NEW S, NEW ns \in Seq(S), NEW x \in S, x \notin Range(ns), IsInjective(ns)
  PROVE  /\ <<x>> \o ns \in Seq(S) /\ IsInjective(<<x>> \o ns)
         /\ Range(<<x>> \o ns) = Range(ns) \cup {x}
<1> DEFINE t == <<x>> \o ns
           n == Len(ns)
<1>1. n \in Nat /\ DOMAIN ns = 1 .. n
  OBVIOUS
<1>2. t \in Seq(S) /\ DOMAIN t = 1 .. n + 1 /\ t[1] = x /\ \A k \in 1 .. n : t[k + 1] = ns[k]
  OBVIOUS
<1> HIDE DEF t, n
<1>3. \A k \in 2 .. n + 1 : k - 1 \in 1 .. n /\ t[k] = ns[k - 1]
  <2> TAKE k \in 2 .. n + 1
  <2>1. k - 1 \in 1 .. n /\ (k - 1) + 1 = k
    BY <1>1
  <2> QED BY <1>2, <2>1
<1>4. \A k \in 1 .. n : ns[k] # x
  BY <1>1 DEF Range
<1>5. ASSUME NEW a \in 1 .. n + 1, NEW b \in 1 .. n + 1, t[a] = t[b]
      PROVE  a = b
  <2>1. CASE a = 1 /\ b = 1
    BY <2>1
  <2>2. CASE a = 1 /\ b # 1
    <3>1. b \in 2 .. n + 1
      BY <1>1, <2>2
    <3> QED BY <1>2, <1>3, <1>4, <1>5, <2>2, <3>1
  <2>3. CASE a # 1 /\ b = 1
    <3>1. a \in 2 .. n + 1
      BY <1>1, <2>3
    <3> QED BY <1>2, <1>3, <1>4, <1>5, <2>3, <3>1
  <2>4. CASE a # 1 /\ b # 1
    <3>1. a \in 2 .. n + 1 /\ b \in 2 .. n + 1
      BY <1>1, <2>4
    <3>2. ns[a - 1] = ns[b - 1] /\ a - 1 \in 1 .. n /\ b - 1 \in 1 .. n
      BY <1>3, <1>5, <3>1
    <3>3. a - 1 = b - 1
      BY <1>1, <3>2 DEF IsInjective
    <3> QED BY <3>1, <3>3
  <2> QED BY <2>1, <2>2, <2>3, <2>4
<1>6. IsInjective(t)
  BY <1>2, <1>5 DEF IsInjective
<1>7. Range(t) = Range(ns) \cup {x}
  <2>1. ASSUME NEW y \in Range(t)
        PROVE  y \in Range(ns) \cup {x}
    <3>1. PICK k \in 1 .. n + 1 : y = t[k]
      BY <1>2 DEF Range
    <3>2. k = 1 \/ k \in 2 .. n + 1
      BY <1>1
    <3> QED BY <1>1, <1>2, <1>3, <3>1, <3>2 DEF Range
  <2>2. ASSUME NEW y \in Range(ns)
        PROVE  y \in Range(t)
    <3>1. PICK k \in 1 .. n : y = ns[k]
      BY <1>1 DEF Range
    <3>2. k + 1 \in 1 .. n + 1 /\ t[k + 1] = y
      BY <1>1, <1>2, <3>1
    <3> QED BY <1>2, <3>2 DEF Range
  <2>3. x \in Range(t)
    <3>1. 1 \in 1 .. n + 1
      BY <1>1
    <3> QED BY <1>2, <3>1 DEF Range
  <2> QED BY <2>1, <2>2, <2>3
<1> QED BY <1>2, <1>6, <1>7 DEF t

(* The contents along a list.                                              *)
Contents(h, ns) == [k \in DOMAIN ns |-> h[ns[k]].content]

LEMMA ContentsKept ==
  ASSUME NEW h, NEW g, NEW ns, \A m \in Range(ns) : g[m].content = h[m].content
  PROVE  Contents(g, ns) = Contents(h, ns)
BY DEF Contents, Range

LEMMA ContentsRange ==
  ASSUME NEW h, NEW ns
  PROVE  Range(Contents(h, ns)) = ContentsOf(h, Range(ns))
BY DEF Contents, Range, ContentsOf

LEMMA ContentsAppend ==
  ASSUME NEW h, NEW S, NEW ns \in Seq(S), NEW x \in S
  PROVE  Contents(h, Append(ns, x)) = Append(Contents(h, ns), h[x].content)
<1> DEFINE n == Len(ns)
           c == Contents(h, ns)
           y == h[x].content
           t == Append(ns, x)
           b == Append(c, y)
           a == Contents(h, t)
<1>1. n \in Nat /\ DOMAIN ns = 1 .. n
  OBVIOUS
<1>2. DOMAIN c = 1 .. n /\ \A k \in 1 .. n : c[k] = h[ns[k]].content
  BY <1>1 DEF Contents
<1>3. c \in Seq(Range(c) \cup {y}) /\ Len(c) = n
  <2>1. c \in [1 .. n -> Range(c) \cup {y}]
    BY <1>2 DEF Contents, Range
  <2> HIDE DEF c, n, y
  <2> QED BY <1>1, <2>1
<1>4. DOMAIN t = 1 .. n + 1 /\ t[n + 1] = x /\ \A k \in 1 .. n : t[k] = ns[k]
  <2>1. t \in Seq(S) /\ Len(t) = n + 1
    OBVIOUS
  <2> QED BY <2>1
<1>5. /\ DOMAIN b = 1 .. n + 1 /\ b = [k \in 1 .. n + 1 |-> b[k]]
      /\ b[n + 1] = y /\ \A k \in 1 .. n : b[k] = c[k]
  <2> HIDE DEF c, n, y
  <2>1. b \in Seq(Range(c) \cup {y}) /\ Len(b) = n + 1
    BY <1>3
  <2>2. b[n + 1] = y /\ \A k \in 1 .. n : b[k] = c[k]
    BY <1>3
  <2> HIDE DEF b
  <2> QED BY <2>1, <2>2
<1>6. a = [k \in 1 .. n + 1 |-> h[t[k]].content]
  <2> HIDE DEF t, n
  <2> QED BY <1>4 DEF Contents
<1>7. h[x].content = y
  OBVIOUS
<1> HIDE DEF a, b, c, n, t, y
<1>8. \A k \in 1 .. n + 1 : a[k] = b[k]
  <2> TAKE k \in 1 .. n + 1
  <2>1. CASE k = n + 1
    BY <1>4, <1>5, <1>6, <1>7, <2>1
  <2>2. CASE k # n + 1
    <3>1. k \in 1 .. n
      BY <1>1, <2>2
    <3> QED BY <1>2, <1>4, <1>5, <1>6, <2>2, <3>1
  <2> QED BY <2>1, <2>2
<1>9. a = [k \in 1 .. n + 1 |-> a[k]]
  BY <1>6
<1>10. a = b
  BY <1>5, <1>8, <1>9
<1> QED BY <1>10 DEF a, b, c, t, y

LEMMA ContentsFront ==
  ASSUME NEW h, NEW S, NEW ns \in Seq(S), NEW x
  PROVE  Contents(h, <<x>> \o ns) = <<h[x].content>> \o Contents(h, ns)
<1> DEFINE n == Len(ns)
           c == Contents(h, ns)
           t == <<x>> \o ns
           b == <<h[x].content>> \o c
           a == Contents(h, t)
<1>1. n \in Nat /\ DOMAIN ns = 1 .. n
  OBVIOUS
<1>2. DOMAIN c = 1 .. n /\ \A k \in 1 .. n : c[k] = h[ns[k]].content
  BY <1>1 DEF Contents
<1>3. c \in Seq(Range(c)) /\ Len(c) = n
  <2>1. c \in [1 .. n -> Range(c)]
    BY <1>2 DEF Contents, Range
  <2> HIDE DEF c, n
  <2> QED BY <1>1, <2>1
<1>4. DOMAIN t = 1 .. n + 1 /\ \A k \in 1 .. n + 1 : t[k] = IF k = 1 THEN x ELSE ns[k - 1]
  OBVIOUS
<1>5. /\ DOMAIN b = 1 .. n + 1 /\ b = [k \in DOMAIN b |-> b[k]]
      /\ \A k \in 1 .. n + 1 : b[k] = IF k = 1 THEN h[x].content ELSE c[k - 1]
  <2> HIDE DEF c, n
  <2> QED BY <1>1, <1>3
<1>6. DOMAIN a = 1 .. n + 1 /\ a = [k \in 1 .. n + 1 |-> h[t[k]].content]
  <2> HIDE DEF t, n
  <2> QED BY <1>4 DEF Contents
<1> HIDE DEF a, b, c, n, t
<1>7. \A k \in 1 .. n + 1 : a[k] = b[k]
  <2> TAKE k \in 1 .. n + 1
  <2>1. CASE k = 1
    BY <1>4, <1>5, <1>6, <2>1
  <2>2. CASE k # 1
    <3>1. k - 1 \in 1 .. n
      BY <1>1, <2>2
    <3> QED BY <1>2, <1>4, <1>5, <1>6, <2>2, <3>1
  <2> QED BY <2>1, <2>2
<1>8. DOMAIN b = 1 .. n + 1 /\ DOMAIN a = 1 .. n + 1
  BY <1>5, <1>6
<1>9. a = [k \in 1 .. n + 1 |-> a[k]]
  BY <1>6
<1>10. a = b
  BY <1>5, <1>7, <1>8, <1>9
<1> QED BY <1>10 DEF a, b, c, t

LEMMA ContentsTail ==
  ASSUME NEW h, NEW S, NEW ns \in Seq(S), ns # <<>>
  PROVE  Contents(h, Tail(ns)) = Tail(Contents(h, ns))
<1> DEFINE n == Len(ns)
           c == Contents(h, ns)
           t == Tail(ns)
           b == Tail(c)
           a == Contents(h, t)
<1>1. n \in Nat /\ DOMAIN ns = 1 .. n /\ n # 0
  OBVIOUS
<1>2. DOMAIN c = 1 .. n /\ \A k \in 1 .. n : c[k] = h[ns[k]].content
  BY <1>1 DEF Contents
<1>3. c \in Seq(Range(c)) /\ Len(c) = n
  <2>1. c \in [1 .. n -> Range(c)]
    BY <1>2 DEF Contents, Range
  <2> HIDE DEF c, n
  <2> QED BY <1>1, <2>1
<1>4. DOMAIN t = 1 .. n - 1 /\ \A k \in 1 .. n - 1 : t[k] = ns[k + 1]
  <2>1. t \in Seq(S) /\ Len(t) = n - 1
    OBVIOUS
  <2>2. \A k \in 1 .. n - 1 : t[k] = ns[k + 1]
    OBVIOUS
  <2> HIDE DEF t, n
  <2> QED BY <2>1, <2>2
<1>5. /\ DOMAIN b = 1 .. n - 1 /\ b = [k \in 1 .. n - 1 |-> b[k]]
      /\ \A k \in 1 .. n - 1 : b[k] = c[k + 1]
  <2> HIDE DEF c, n
  <2>1. c # <<>>
    BY <1>1, <1>3
  <2>2. b \in Seq(Range(c)) /\ Len(b) = n - 1
    BY <1>3, <2>1
  <2>3. \A k \in 1 .. n - 1 : b[k] = c[k + 1]
    BY <1>3, <2>1
  <2> HIDE DEF b
  <2> QED BY <2>2, <2>3
<1>6. a = [k \in 1 .. n - 1 |-> h[t[k]].content]
  <2> HIDE DEF t, n
  <2> QED BY <1>4 DEF Contents
<1> HIDE DEF a, b, c, n, t
<1>7. \A k \in 1 .. n - 1 : k + 1 \in 1 .. n
  BY <1>1
<1>8. \A k \in 1 .. n - 1 : a[k] = b[k]
  BY <1>2, <1>4, <1>5, <1>6, <1>7
<1>9. a = [k \in 1 .. n - 1 |-> a[k]]
  BY <1>6
<1>10. a = b
  BY <1>5, <1>8, <1>9
<1> QED BY <1>10 DEF a, b, c, t

(* The nodes the program and ft_lstmap can reach by two lists.             *)
Reachable(ns, t) == Range(ns) \cup Range(t) \cup ({loose} \ {NONE})

(* The two lists and the loose node have no node in common, items and      *)
(* images are their contents, and every content is accounted for.          *)
Spelled(ns, t) ==
  /\ HeapOK(heap)
  /\ Chain(heap, lst, ns) /\ IsInjective(ns)
  /\ Chain(heap, mapped, t) /\ IsInjective(t)
  /\ Range(ns) \cap Range(t) = {}
  /\ loose # NONE =>
       loose \in Node \ (Range(ns) \cup Range(t)) /\ heap[loose].next = NONE
  /\ items = Contents(heap, ns) /\ images = Contents(heap, t)
  /\ ~mapping => mapped = NONE
  /\ Accounted(heap, made, lost, Reachable(ns, t))

ListsInv == Spelled(Walk(heap, lst), Walk(heap, mapped))

LEMMA Walks ==
  ASSUME NEW ns, NEW t, Spelled(ns, t)
  PROVE  Walk(heap, lst) = ns /\ Walk(heap, mapped) = t /\ ListsInv
<1>1. Walk(heap, lst) = ns /\ Walk(heap, mapped) = t
  BY WalkChain DEF Spelled
<1> QED BY <1>1, Zenon DEF ListsInv

LEMMA WalksNext ==
  ASSUME NEW ns, NEW t, Spelled(ns, t)'
  PROVE  ListsInv'
<1>1. Walk(heap', lst') = ns /\ Walk(heap', mapped') = t
  BY WalkChain DEF Spelled
<1> QED BY <1>1, Zenon DEF ListsInv, Spelled

(* What the parts of the invariant say of the nodes.                       *)
LEMMA Facts ==
  ASSUME NEW ns, NEW t, Spelled(ns, t)
  PROVE  /\ ns \in Seq(Node) /\ t \in Seq(Node) /\ NONE \notin Node
         /\ Range(ns) \subseteq Node /\ Range(t) \subseteq Node
         /\ Node \subseteq Nat \ {0}
         /\ lst \in Nat \cup {NONE} /\ mapped \in Nat \cup {NONE}
         /\ (lst = NONE <=> ns = <<>>) /\ (mapped = NONE <=> t = <<>>)
         /\ heap = [m \in Node |-> heap[m]]
         /\ \A m \in Node : heap[m].content \in Nat /\ heap[m].next \in Nat \cup {NONE}
<1>1. ns \in Seq(Node) /\ t \in Seq(Node) /\ NONE \notin Node
  BY DEF Spelled, Chain, Node
<1>2. Range(ns) \subseteq Node /\ Range(t) \subseteq Node
  BY <1>1 DEF Range
<1>3. Node \subseteq Nat \ {0} /\ heap = [m \in Node |-> heap[m]]
  BY DEF Spelled, HeapOK, Node
<1>4. \A m \in Node : heap[m].content \in Nat /\ heap[m].next \in Nat \cup {NONE}
  BY DEF Spelled, HeapOK, Node, Nodes
<1>5. lst = IF ns = <<>> THEN NONE ELSE ns[1]
  BY DEF Spelled, Chain
<1>6. mapped = IF t = <<>> THEN NONE ELSE t[1]
  BY DEF Spelled, Chain
<1>7. ns # <<>> => ns[1] \in Node
  BY <1>1
<1>8. t # <<>> => t[1] \in Node
  BY <1>1
<1>9. lst \in Nat \cup {NONE} /\ mapped \in Nat \cup {NONE}
  BY <1>3, <1>5, <1>6, <1>7, <1>8
<1>10. (lst = NONE <=> ns = <<>>) /\ (mapped = NONE <=> t = <<>>)
  BY <1>1, <1>5, <1>6, <1>7, <1>8
<1> QED BY <1>1, <1>2, <1>3, <1>4, <1>9, <1>10

(* No list is being mapped, so there is no second list.                    *)
LEMMA NotMapping ==
  ASSUME NEW ns, NEW t, Spelled(ns, t), ~mapping
  PROVE  t = <<>> /\ mapped = NONE /\ images = <<>> /\ Range(t) = {}
<1>1. mapped = NONE /\ t = <<>>
  BY Facts DEF Spelled
<1>2. images = <<>>
  BY <1>1 DEF Spelled, Contents
<1> QED BY <1>1, <1>2 DEF Range

LEMMA EmptyChain ==
  ASSUME NEW h, HeapOK(h)
  PROVE  Chain(h, NONE, <<>>) /\ IsInjective(<<>>) /\ Range(<<>>) = {} /\ Contents(h, <<>>) = <<>>
<1>1. NONE \notin DOMAIN h
  BY ListsAssumption DEF HeapOK
<1>2. Len(<<>>) <= MaxNodes
  BY ListsAssumption
<1> QED BY <1>1, <1>2, EmptyRange DEF Chain, Contents

LEMMA InitSpelled == ListsInit => ListsInv
<1> SUFFICES ASSUME ListsInit
             PROVE  ListsInv
  OBVIOUS
<1>1. HeapOK(heap)
  <2>1. DOMAIN heap = {} /\ heap \in [{} -> Nodes]
    BY DEF ListsInit
  <2>2. IsFiniteSet({}) /\ Cardinality({}) = 0
    BY FS_EmptySet
  <2> QED BY <2>1, <2>2, ListsAssumption DEF HeapOK
<1>2. Chain(heap, NONE, <<>>) /\ IsInjective(<<>>) /\ Range(<<>>) = {} /\ Contents(heap, <<>>) = <<>>
  BY <1>1, EmptyChain
<1>3. Reachable(<<>>, <<>>) = {}
  BY <1>2 DEF Reachable, ListsInit
<1>4. Accounted(heap, made, lost, {})
  <2>1. IsFiniteSet({})
    BY FS_EmptySet
  <2>2. DOMAIN heap = {}
    BY DEF ListsInit
  <2> QED BY <2>1, <2>2 DEF Accounted, ContentsOf, ListsInit
<1>5. Spelled(<<>>, <<>>)
  BY <1>1, <1>2, <1>3, <1>4 DEF Spelled, ListsInit
<1> QED BY <1>5, Walks

LEMMA NewNodeStep ==
  ASSUME NEW ns, NEW t, Spelled(ns, t), new_node
  PROVE  Spelled(ns, t)'
<1>1. CASE UNCHANGED <<heap, made, loose>>
  BY <1>1 DEF Spelled, new_node, mapVars, Reachable, Node
<1>2. CASE HasRoom /\ heap' = ft_lstnew(heap, Free(made)) /\ made' = made \cup {Free(made)}
           /\ loose' = Free(Node)
  <2> DEFINE a == Free(Node)
             c == Free(made)
             g == ft_lstnew(heap, c)
  <2>1. loose = NONE /\ UNCHANGED <<lst, items, mapping, mapped, images, lost>>
    BY DEF new_node, mapVars
  <2>2. c \in Nat /\ c \notin made
    BY FreeAddress DEF Spelled, Accounted
  <2>3. HeapOK(heap) /\ Cardinality(DOMAIN heap) < MaxNodes
    BY <1>2 DEF Spelled, HasRoom, Node
  <2>4. /\ a \in Nat \ {0} /\ a \notin Node /\ a # NONE /\ HeapOK(g)
        /\ DOMAIN g = Node \cup {a} /\ g[a] = [content |-> c, next |-> NONE]
        /\ \A m \in Node : g[m] = heap[m]
    BY <2>2, <2>3, NewNode DEF Node
  <2> HIDE DEF a, c, g
  <2>5. heap' = g /\ made' = made \cup {c} /\ loose' = a
    BY <1>2 DEF a, c, g
  <2>6. NONE \notin DOMAIN g
    BY <2>4, Facts
  <2>7. Chain(g, lst, ns)
    <3>1. Keeps(heap, g, Range(ns))
      BY <2>4, <2>6, Facts DEF Keeps
    <3> QED BY <3>1, ChainKept DEF Spelled
  <2>8. Chain(g, mapped, t)
    <3>1. Keeps(heap, g, Range(t))
      BY <2>4, <2>6, Facts DEF Keeps
    <3> QED BY <3>1, ChainKept DEF Spelled
  <2>9. Contents(g, ns) = Contents(heap, ns) /\ Contents(g, t) = Contents(heap, t)
    <3>1. \A m \in Range(ns) : g[m].content = heap[m].content
      BY <2>4, Facts
    <3>2. \A m \in Range(t) : g[m].content = heap[m].content
      BY <2>4, Facts
    <3> QED BY <3>1, <3>2, ContentsKept
  <2>10. Accounted(g, made \cup {c}, lost, Reachable(ns, t) \cup {a})
    <3>1. g[a].content = c /\ \A m \in Node : g[m].content = heap[m].content
      BY <2>4
    <3>2. Accounted(heap, made, lost, Reachable(ns, t))
      BY DEF Spelled
    <3> QED BY <2>4, <3>1, <3>2, AccountNew DEF c, Node
  <2>11. Reachable(ns, t)' = Reachable(ns, t) \cup {a}
    BY <2>1, <2>4, <2>5 DEF Reachable
  <2>12. a \in DOMAIN g \ (Range(ns) \cup Range(t)) /\ g[a].next = NONE
    BY <2>4, Facts
  <2> QED BY <2>1, <2>4, <2>5, <2>7, <2>8, <2>9, <2>10, <2>11, <2>12 DEF Spelled, Node
<1> QED BY <1>1, <1>2 DEF new_node

LEMMA AddFrontStep ==
  ASSUME NEW ns, NEW t, Spelled(ns, t), add_front
  PROVE  \E a, b : Spelled(a, b)'
<1> PICK x : x = loose
  OBVIOUS
<1> DEFINE g == ft_lstadd_front(heap, lst, x)
           a == <<x>> \o ns
<1>1. /\ x # NONE /\ lst' = x /\ loose' = NONE /\ heap' = g
      /\ items' = <<heap[x].content>> \o items
      /\ UNCHANGED <<made, mapping, mapped, images, lost>>
  BY DEF add_front, mapVars
<1>2. x \in Node \ (Range(ns) \cup Range(t)) /\ heap[x].next = NONE
  BY <1>1 DEF Spelled
<1>3. HeapOK(heap) /\ ns \in Seq(Node) /\ IsInjective(ns) /\ lst \in Nat \cup {NONE}
  BY Facts DEF Spelled
<1>4. Len(ns) < MaxNodes
  BY <1>2, <1>3, RoomForOneMore DEF Node
<1>5. Chain(g, x, a)
  BY <1>2, <1>3, <1>4, ChainFront DEF Spelled, Node
<1>6. /\ DOMAIN g = Node /\ HeapOK(g)
      /\ \A m \in Node : g[m].content = heap[m].content
      /\ \A m \in Node \ {x} : g[m] = heap[m]
  <2>1. Relinks(heap, g, {x})
    BY <1>2, <1>3, FrontFrame DEF Node
  <2> HIDE DEF g
  <2> QED BY <2>1 DEF Relinks, Node
<1>7. IsInjective(a) /\ Range(a) = Range(ns) \cup {x}
  BY <1>2, <1>3, FrontRange
<1>8. Contents(g, a) = <<heap[x].content>> \o items
  <2>1. Contents(heap, a) = <<heap[x].content>> \o Contents(heap, ns)
    BY <1>3, ContentsFront
  <2>2. \A m \in Range(a) : g[m].content = heap[m].content
    BY <1>2, <1>6, <1>7, Facts
  <2> HIDE DEF g, a
  <2>3. Contents(g, a) = Contents(heap, a)
    BY <2>2, ContentsKept
  <2> QED BY <2>1, <2>3 DEF Spelled
<1> HIDE DEF g, a
<1>9. Chain(g, mapped, t) /\ Contents(g, t) = images
  <2>1. Keeps(heap, g, Range(t))
    BY <1>2, <1>6, Facts DEF Keeps
  <2>2. \A m \in Range(t) : g[m].content = heap[m].content
    BY <1>6, Facts
  <2>3. Contents(g, t) = Contents(heap, t)
    BY <2>2, ContentsKept
  <2> QED BY <2>1, <2>3, ChainKept DEF Spelled
<1>10. Reachable(a, t)' = Reachable(ns, t)
  BY <1>1, <1>7 DEF Reachable
<1>11. Accounted(g, made, lost, Reachable(ns, t))
  <2>1. Accounted(heap, made, lost, Reachable(ns, t))
    BY DEF Spelled
  <2> QED BY <1>6, <2>1, AccountKept DEF Node
<1>12. Range(a) \cap Range(t) = {}
  BY <1>2, <1>7 DEF Spelled
<1>13. Spelled(a, t)'
  <2>1. IsInjective(t) /\ (~mapping => mapped = NONE)
    BY DEF Spelled
  <2> QED BY <1>1, <1>5, <1>6, <1>7, <1>8, <1>9, <1>10, <1>11, <1>12, <2>1 DEF Spelled
<1> QED BY <1>13

LEMMA AddBackStep ==
  ASSUME NEW ns, NEW t, Spelled(ns, t), add_back
  PROVE  \E a, b : Spelled(a, b)'
<1> PICK x : x = loose
  OBVIOUS
<1> DEFINE g == ft_lstadd_back(heap, lst, x)
           a == Append(ns, x)
<1>1. /\ x # NONE /\ lst' = (IF lst = NONE THEN x ELSE lst) /\ loose' = NONE /\ heap' = g
      /\ items' = Append(items, heap[x].content)
      /\ UNCHANGED <<made, mapping, mapped, images, lost>>
  BY DEF add_back, mapVars
<1>2. x \in Node \ (Range(ns) \cup Range(t)) /\ heap[x].next = NONE
  BY <1>1 DEF Spelled
<1>3. HeapOK(heap) /\ ns \in Seq(Node) /\ IsInjective(ns) /\ Chain(heap, lst, ns)
  BY Facts DEF Spelled
<1>4. Len(ns) < MaxNodes
  BY <1>2, <1>3, RoomForOneMore DEF Node
<1>5. /\ Chain(g, IF lst = NONE THEN x ELSE lst, a)
      /\ DOMAIN g = Node /\ HeapOK(g)
      /\ \A m \in Node : g[m].content = heap[m].content
      /\ \A m \in Node \ Range(ns) : g[m] = heap[m]
  <2>1. Chain(g, IF lst = NONE THEN x ELSE lst, a) /\ Relinks(heap, g, Range(ns))
    BY <1>2, <1>3, <1>4, ChainBack DEF Node
  <2> HIDE DEF g, a
  <2> QED BY <2>1 DEF Relinks, Node
<1>7. IsInjective(a) /\ Range(a) = Range(ns) \cup {x}
  BY <1>2, <1>3, AppendRange
<1>8. Contents(g, a) = Append(items, heap[x].content)
  <2>1. Contents(heap, a) = Append(Contents(heap, ns), heap[x].content)
    BY <1>2, <1>3, ContentsAppend
  <2>2. \A m \in Range(a) : g[m].content = heap[m].content
    BY <1>2, <1>5, <1>7, Facts
  <2> HIDE DEF g, a
  <2>3. Contents(g, a) = Contents(heap, a)
    BY <2>2, ContentsKept
  <2> QED BY <2>1, <2>3 DEF Spelled
<1> HIDE DEF g, a
<1>9. Chain(g, mapped, t) /\ Contents(g, t) = images
  <2>1. \A m \in Range(t) : m \in Node \ Range(ns)
    BY Facts DEF Spelled
  <2>2. Keeps(heap, g, Range(t))
    BY <1>5, <2>1, Facts DEF Keeps
  <2>3. \A m \in Range(t) : g[m].content = heap[m].content
    BY <1>5, Facts
  <2>4. Contents(g, t) = Contents(heap, t)
    BY <2>3, ContentsKept
  <2> QED BY <2>2, <2>4, ChainKept DEF Spelled
<1>10. Reachable(a, t)' = Reachable(ns, t)
  BY <1>1, <1>7 DEF Reachable
<1>11. Accounted(g, made, lost, Reachable(ns, t))
  <2>1. Accounted(heap, made, lost, Reachable(ns, t))
    BY DEF Spelled
  <2> QED BY <1>5, <2>1, AccountKept DEF Node
<1>12. Range(a) \cap Range(t) = {}
  BY <1>2, <1>7 DEF Spelled
<1>13. Spelled(a, t)'
  <2>1. IsInjective(t) /\ (~mapping => mapped = NONE)
    BY DEF Spelled
  <2> QED BY <1>1, <1>5, <1>7, <1>8, <1>9, <1>10, <1>11, <1>12, <2>1 DEF Spelled
<1> QED BY <1>13

(* Clearing a list frees its nodes and contents; the other nodes and the   *)
(* accounts of theirs stay.                                                *)
LEMMA Cleared ==
  ASSUME NEW h, HeapOK(h), NEW l, NEW ns, Chain(h, l, ns)
  PROVE  /\ ft_lstclear(h, l, TRUE) = Without(h, Range(ns))
         /\ Range(ft_lstiter(h, l)) = ContentsOf(h, Range(ns))
<1>1. h = [m \in DOMAIN h |-> h[m]]
  BY DEF HeapOK
<1>2. ft_lstclear(h, l, TRUE) = Without(h, Range(ns))
  BY <1>1, ClearFrees
<1>3. ft_lstiter(h, l) = Contents(h, ns)
  <2>1. Walk(h, l) = ns
    BY WalkChain
  <2>2. ft_lstiter(h, l) = [k \in DOMAIN Walk(h, l) |-> h[Walk(h, l)[k]].content]
    BY Zenon DEF ft_lstiter
  <2> QED BY <2>1, <2>2, Zenon DEF Contents
<1> QED BY <1>2, <1>3, ContentsRange

(* A list none of whose nodes is freed stays as it is.                     *)
LEMMA WithoutKeeps ==
  ASSUME NEW h, NEW l, NEW ns, Chain(h, l, ns), NEW D, Range(ns) \cap D = {}
  PROVE  Chain(Without(h, D), l, ns) /\ Contents(Without(h, D), ns) = Contents(h, ns)
<1>1. NONE \notin DOMAIN h /\ Range(ns) \subseteq DOMAIN h
  BY DEF Chain, Range
<1>2. \A m \in Range(ns) : m \in DOMAIN Without(h, D) /\ Without(h, D)[m] = h[m]
  BY <1>1 DEF Without
<1>3. Keeps(h, Without(h, D), Range(ns))
  BY <1>1, <1>2 DEF Keeps, Without
<1>4. \A m \in Range(ns) : Without(h, D)[m].content = h[m].content
  BY <1>2
<1> QED BY <1>3, <1>4, ChainKept, ContentsKept

LEMMA DeleteFirstStep ==
  ASSUME NEW ns, NEW t, Spelled(ns, t), delete_first
  PROVE  \E a, b : Spelled(a, b)'
<1> PICK l : l = lst
  OBVIOUS
<1> DEFINE g == Without(heap, {l})
           a == Tail(ns)
           R == Reachable(ns, t)
<1>1. /\ ~mapping /\ l # NONE /\ heap' = g /\ made' = made \ {heap[l].content}
      /\ lst' = heap[l].next /\ items' = Tail(items)
      /\ UNCHANGED <<loose, mapping, mapped, images, lost>>
  BY DEF delete_first, mapVars, ft_lstdelone, Without
<1>2. HeapOK(heap) /\ ns \in Seq(Node) /\ IsInjective(ns) /\ Chain(heap, l, ns) /\ ns # <<>>
  BY <1>1, Facts DEF Spelled
<1>3. t = <<>> /\ mapped = NONE /\ images = <<>> /\ Range(t) = {}
  BY <1>1, NotMapping
<1>4. /\ Chain(g, heap[l].next, a) /\ IsInjective(a) /\ Range(a) = Range(ns) \ {l}
      /\ l \in Range(ns) /\ l \in Node
  BY <1>2, ChainTail DEF Node
<1>5. {l} \in SUBSET R /\ ContentsOf(heap, {l}) = {heap[l].content}
  BY <1>4 DEF Reachable, ContentsOf
<1>6. Accounted(heap, made, lost, R)
  BY DEF Spelled
<1>7. HeapOK(g) /\ Accounted(g, made \ {heap[l].content}, lost, R \ {l})
  <2> HIDE DEF R
  <2> QED BY <1>2, <1>5, <1>6, AccountFreed
<1>8. loose # NONE => loose \in Node \ (Range(ns) \cup Range(t)) /\ heap[loose].next = NONE
  BY DEF Spelled
<1>9. Reachable(a, t)' = R \ {l}
  BY <1>1, <1>3, <1>4, <1>8 DEF Reachable
<1>10. loose # NONE =>
         loose \in DOMAIN g \ (Range(a) \cup Range(t)) /\ g[loose].next = NONE
  BY <1>4, <1>8 DEF Without, Node
<1>11. Contents(g, a) = Tail(items)
  <2>1. Contents(heap, a) = Tail(items)
    BY <1>2, ContentsTail DEF Spelled
  <2>2. \A m \in Range(a) : g[m].content = heap[m].content
    BY <1>2, <1>4, Facts DEF Without, Node
  <2> HIDE DEF g, a
  <2> QED BY <2>1, <2>2, ContentsKept
<1>12. Chain(g, NONE, <<>>) /\ IsInjective(<<>>) /\ Contents(g, <<>>) = <<>>
  BY <1>7, EmptyChain
<1> HIDE DEF g, a, R
<1>13. Spelled(a, t)'
  BY <1>1, <1>3, <1>4, <1>7, <1>9, <1>10, <1>11, <1>12 DEF Spelled, Node
<1> QED BY <1>13

LEMMA ClearListStep ==
  ASSUME NEW ns, NEW t, Spelled(ns, t), NEW del \in BOOLEAN, clear_list(del)
  PROVE  \E a, b : Spelled(a, b)'
<1>1. CASE ~del
  <2>1. UNCHANGED <<heap, made, lst, items, loose, mapping, mapped, images, lost>>
    BY <1>1 DEF clear_list, ft_lstclear, mapVars
  <2>2. Spelled(ns, t)'
    BY <2>1 DEF Spelled, Reachable, Node
  <2> QED BY <2>2
<1>2. CASE del
  <2> DEFINE g == Without(heap, Range(ns))
             R == Reachable(ns, t)
  <2>1. HeapOK(heap) /\ Chain(heap, lst, ns) /\ Accounted(heap, made, lost, R) /\ ~mapping
    BY DEF Spelled, clear_list
  <2>2. /\ ft_lstclear(heap, lst, TRUE) = g
        /\ Range(ft_lstiter(heap, lst)) = ContentsOf(heap, Range(ns))
    BY <2>1, Cleared
  <2>3. del = TRUE
    BY <1>2
  <2>4. /\ heap' = g /\ made' = made \ ContentsOf(heap, Range(ns)) /\ lst' = NONE /\ items' = <<>>
        /\ UNCHANGED <<loose, mapping, mapped, images, lost>>
    BY <2>2, <2>3 DEF clear_list, mapVars
  <2>5. t = <<>> /\ mapped = NONE /\ images = <<>> /\ Range(t) = {}
    BY <2>1, NotMapping
  <2>6. Range(ns) \in SUBSET R
    BY DEF Reachable
  <2>7. HeapOK(g) /\ Accounted(g, made \ ContentsOf(heap, Range(ns)), lost, R \ Range(ns))
    <3> HIDE DEF R
    <3> QED BY <2>1, <2>6, AccountFreed
  <2>8. loose # NONE => loose \in Node \ (Range(ns) \cup Range(t)) /\ heap[loose].next = NONE
    BY DEF Spelled
  <2>9. Chain(g, NONE, <<>>) /\ IsInjective(<<>>) /\ Range(<<>>) = {} /\ Contents(g, <<>>) = <<>>
    BY <2>7, EmptyChain
  <2>10. Reachable(<<>>, t)' = R \ Range(ns)
    BY <2>4, <2>5, <2>8, <2>9 DEF Reachable
  <2>11. loose # NONE => loose \in DOMAIN g /\ g[loose].next = NONE
    BY <2>8 DEF Without, Node
  <2> HIDE DEF g, R
  <2>12. Spelled(<<>>, t)'
    BY <2>4, <2>5, <2>7, <2>9, <2>10, <2>11 DEF Spelled, Node
  <2> QED BY <2>12
<1> QED BY <1>1, <1>2

LEMMA MapStep ==
  ASSUME NEW ns, NEW t, Spelled(ns, t), ft_lstmap
  PROVE  \E a, b : Spelled(a, b)'
<1>1. /\ ~mapping /\ mapping' = TRUE /\ mapped' = NONE /\ images' = <<>>
      /\ UNCHANGED <<heap, made, lst, items, loose, lost>>
  BY DEF ft_lstmap
<1>2. t = <<>> /\ mapped = NONE /\ images = <<>>
  BY <1>1, NotMapping
<1>3. Spelled(ns, t)'
  BY <1>1, <1>2 DEF Spelled, Reachable, Node
<1> QED BY <1>3

LEMMA MapNodeStep ==
  ASSUME NEW ns, NEW t, Spelled(ns, t), map_node
  PROVE  \E a, b : Spelled(a, b)'
<1> PICK x, c, m : x = Free(Node) /\ c = Free(made) /\ m = mapped
  OBVIOUS
<1> DEFINE h == ft_lstnew(heap, c)
           g == ft_lstadd_back(h, m, x)
           b == Append(t, x)
<1>1. /\ mapping /\ HasRoom /\ heap' = g /\ mapped' = (IF m = NONE THEN x ELSE m)
      /\ made' = made \cup {c} /\ images' = Append(images, c)
      /\ UNCHANGED <<lst, items, loose, mapping, lost>>
  BY DEF map_node
<1>2. c \in Nat /\ c \notin made
  BY FreeAddress DEF Spelled, Accounted
<1>3. HeapOK(heap) /\ Cardinality(DOMAIN heap) < MaxNodes
  BY <1>1 DEF Spelled, HasRoom, Node
<1>4. /\ x \in Nat \ {0} /\ x \notin Node /\ x # NONE /\ HeapOK(h)
      /\ DOMAIN h = Node \cup {x} /\ h[x] = [content |-> c, next |-> NONE]
      /\ \A n \in Node : h[n] = heap[n]
  BY <1>2, <1>3, NewNode DEF Node
<1> HIDE DEF h
<1>5. NONE \notin DOMAIN h
  BY <1>4, Facts
<1>6. Chain(h, lst, ns) /\ Contents(h, ns) = items
  <2>1. Keeps(heap, h, Range(ns)) /\ \A n \in Range(ns) : h[n].content = heap[n].content
    BY <1>4, <1>5, Facts DEF Keeps
  <2> QED BY <2>1, ChainKept, ContentsKept DEF Spelled
<1>7. Chain(h, m, t) /\ Contents(h, t) = images
  <2>1. Keeps(heap, h, Range(t)) /\ \A n \in Range(t) : h[n].content = heap[n].content
    BY <1>4, <1>5, Facts DEF Keeps
  <2>2. Chain(heap, m, t)
    BY DEF Spelled
  <2> QED BY <2>1, <2>2, ChainKept, ContentsKept DEF Spelled
<1>8. /\ t \in Seq(DOMAIN h) /\ IsInjective(t) /\ IsInjective(ns)
      /\ Range(ns) \subseteq Node /\ Range(t) \subseteq Node
      /\ x \in DOMAIN h /\ x \notin Range(t) /\ h[x].next = NONE
  BY <1>4, <1>7, Facts DEF Spelled, Chain
<1>9. Len(t) < MaxNodes
  BY <1>4, <1>8, RoomForOneMore
<1>10. Chain(g, IF m = NONE THEN x ELSE m, b) /\ Relinks(h, g, Range(t))
  BY <1>4, <1>7, <1>8, <1>9, ChainBack
<1>11. IsInjective(b) /\ Range(b) = Range(t) \cup {x}
  BY <1>8, AppendRange
<1>12. Contents(h, b) = Append(images, c)
  <2>1. Contents(h, b) = Append(Contents(h, t), h[x].content)
    BY <1>8, ContentsAppend
  <2> QED BY <1>4, <1>7, <2>1
<1> HIDE DEF g, b
<1>13. /\ HeapOK(g) /\ DOMAIN g = Node \cup {x}
       /\ \A n \in DOMAIN h : g[n].content = h[n].content
       /\ \A n \in DOMAIN h \ Range(t) : g[n] = h[n]
  BY <1>4, <1>10 DEF Relinks
<1>14. Contents(g, b) = Append(images, c)
  <2>1. \A n \in Range(b) : g[n].content = h[n].content
    BY <1>4, <1>8, <1>11, <1>13
  <2> QED BY <1>12, <2>1, ContentsKept
<1>15. Chain(g, lst, ns) /\ Contents(g, ns) = items
  <2>1. \A n \in Range(ns) : n \in DOMAIN h \ Range(t)
    BY <1>4, <1>8 DEF Spelled
  <2>2. Keeps(h, g, Range(ns)) /\ \A n \in Range(ns) : g[n].content = h[n].content
    BY <1>4, <1>5, <1>13, <2>1 DEF Keeps
  <2> QED BY <1>6, <2>2, ChainKept, ContentsKept
<1>16. Accounted(g, made \cup {c}, lost, Reachable(ns, t) \cup {x})
  <2>1. h[x].content = c /\ \A n \in Node : h[n].content = heap[n].content
    BY <1>4
  <2>2. Accounted(heap, made, lost, Reachable(ns, t))
    BY DEF Spelled
  <2>3. c = Free(made)
    OBVIOUS
  <2>4. Accounted(h, made \cup {c}, lost, Reachable(ns, t) \cup {x})
    BY <1>4, <2>1, <2>2, <2>3, AccountNew DEF Node
  <2> QED BY <1>4, <1>13, <2>4, AccountKept
<1>17. loose # NONE => loose \in Node \ (Range(ns) \cup Range(t)) /\ heap[loose].next = NONE
  BY DEF Spelled
<1>18. Reachable(ns, b)' = Reachable(ns, t) \cup {x}
  BY <1>1, <1>11 DEF Reachable
<1>19. loose # NONE =>
         loose \in DOMAIN g \ (Range(ns) \cup Range(b)) /\ g[loose].next = NONE
  BY <1>4, <1>11, <1>13, <1>17
<1>20. Range(ns) \cap Range(b) = {}
  BY <1>4, <1>8, <1>11 DEF Spelled
<1>21. Spelled(ns, b)'
  BY <1>1, <1>8, <1>10, <1>11, <1>13, <1>14, <1>15, <1>16, <1>18, <1>19, <1>20 DEF Spelled, Node
<1> QED BY <1>21

LEMMA MapFailsStep ==
  ASSUME NEW ns, NEW t, Spelled(ns, t), NEW del \in BOOLEAN, map_fails(del)
  PROVE  \E a, b : Spelled(a, b)'
<1> PICK c : c = Free(made)
  OBVIOUS
<1> DEFINE R == Reachable(ns, t)
           D == Range(t)
<1>1. /\ mapped' = NONE /\ images' = <<>> /\ mapping' = FALSE
      /\ UNCHANGED <<lst, items, loose>>
  BY DEF map_fails, EndMap
<1>2. c \in Nat /\ c \notin made
  BY FreeAddress DEF Spelled, Accounted
<1>3. /\ HeapOK(heap) /\ Chain(heap, mapped, t) /\ Chain(heap, lst, ns)
      /\ Accounted(heap, made, lost, R)
      /\ D \in SUBSET R /\ Range(ns) \cap D = {}
  BY DEF Spelled, Reachable
<1>4. Range(images) = ContentsOf(heap, D)
  BY ContentsRange DEF Spelled
<1>5. loose # NONE => loose \in Node \ (Range(ns) \cup D) /\ heap[loose].next = NONE
  BY DEF Spelled
<1>6. Reachable(ns, <<>>)' = R \ D
  BY <1>1, <1>3, <1>5, EmptyRange DEF Reachable
<1> HIDE DEF R
<1>7. CASE ~del
  <2>1. /\ heap' = heap /\ made' = made \cup {c}
        /\ lost' = (lost \cup ContentsOf(heap, D)) \cup {c}
    BY <1>4, <1>7 DEF map_fails, ft_lstclear
  <2>2. Accounted(heap, made, lost \cup ContentsOf(heap, D), R \ D)
    BY <1>3, AccountLost
  <2>3. Accounted(heap, made \cup {c}, (lost \cup ContentsOf(heap, D)) \cup {c}, R \ D)
    BY <1>2, <2>2, AccountLeak
  <2>4. Chain(heap, NONE, <<>>) /\ IsInjective(<<>>) /\ Contents(heap, <<>>) = <<>>
    BY <1>3, EmptyChain
  <2>5. Spelled(ns, <<>>)'
    BY <1>1, <1>3, <1>5, <1>6, <2>1, <2>3, <2>4, EmptyRange DEF Spelled, Node
  <2> QED BY <2>5
<1>8. CASE del
  <2> DEFINE g == Without(heap, D)
  <2>1. del = TRUE
    BY <1>8
  <2>2. ft_lstclear(heap, mapped, TRUE) = g /\ Range(ft_lstiter(heap, mapped)) = ContentsOf(heap, D)
    BY <1>3, Cleared
  <2>3. /\ heap' = g /\ made' = (made \ ContentsOf(heap, D)) \cup {c}
        /\ lost' = lost \cup {c}
    <3>1. /\ heap' = g /\ made' = (made \ ContentsOf(heap, D)) \cup {Free(made)}
          /\ lost' = lost \cup (Range(images) \ ContentsOf(heap, D)) \cup {Free(made)}
      BY <2>1, <2>2 DEF map_fails
    <3> QED BY <1>4, <3>1
  <2>4. HeapOK(g) /\ Accounted(g, made \ ContentsOf(heap, D), lost, R \ D)
    BY <1>3, AccountFreed
  <2>5. Chain(g, lst, ns) /\ Contents(g, ns) = items
    BY <1>3, WithoutKeeps DEF Spelled
  <2>6. Chain(g, NONE, <<>>) /\ IsInjective(<<>>) /\ Contents(g, <<>>) = <<>>
    BY <2>4, EmptyChain
  <2>7. loose # NONE => loose \in DOMAIN g \ Range(ns) /\ g[loose].next = NONE
    BY <1>5 DEF Without, Node
  <2> HIDE DEF g
  <2>8. Accounted(g, (made \ ContentsOf(heap, D)) \cup {c}, lost \cup {c}, R \ D)
    BY <1>2, <2>4, AccountLeak
  <2>9. IsInjective(ns)
    BY DEF Spelled
  <2>10. Spelled(ns, <<>>)'
    BY <1>1, <1>6, <2>3, <2>4, <2>5, <2>6, <2>7, <2>8, <2>9, EmptyRange DEF Spelled, Node
  <2> QED BY <2>10
<1> QED BY <1>7, <1>8

LEMMA MapReturnsStep ==
  ASSUME NEW ns, NEW t, Spelled(ns, t), map_returns
  PROVE  \E a, b : Spelled(a, b)'
<1> DEFINE R == Reachable(ns, t)
           D == Range(ns)
           g == Without(heap, D)
<1>1. /\ heap' = ft_lstclear(heap, lst, TRUE) /\ made' = made \ Range(ft_lstiter(heap, lst))
      /\ lst' = mapped /\ items' = images
      /\ mapped' = NONE /\ images' = <<>> /\ mapping' = FALSE
      /\ UNCHANGED <<loose, lost>>
  BY DEF map_returns, EndMap
<1>2. /\ HeapOK(heap) /\ Chain(heap, mapped, t) /\ Chain(heap, lst, ns)
      /\ Accounted(heap, made, lost, R) /\ D \in SUBSET R /\ Range(t) \cap D = {}
      /\ IsInjective(t)
  BY DEF Spelled, Reachable
<1>3. ft_lstclear(heap, lst, TRUE) = g /\ Range(ft_lstiter(heap, lst)) = ContentsOf(heap, D)
  BY <1>2, Cleared
<1>4. loose # NONE => loose \in Node \ (D \cup Range(t)) /\ heap[loose].next = NONE
  BY DEF Spelled
<1>5. Reachable(t, <<>>)' = R \ D
  BY <1>1, <1>2, <1>4, EmptyRange DEF Reachable
<1> HIDE DEF R
<1>6. HeapOK(g) /\ Accounted(g, made \ ContentsOf(heap, D), lost, R \ D)
  BY <1>2, AccountFreed
<1>7. Chain(g, mapped, t) /\ Contents(g, t) = images
  BY <1>2, WithoutKeeps DEF Spelled
<1>8. Chain(g, NONE, <<>>) /\ IsInjective(<<>>) /\ Contents(g, <<>>) = <<>>
  BY <1>6, EmptyChain
<1>9. loose # NONE => loose \in DOMAIN g \ Range(t) /\ g[loose].next = NONE
  BY <1>4 DEF Without, Node
<1> HIDE DEF g
<1>10. Spelled(t, <<>>)'
  BY <1>1, <1>2, <1>3, <1>5, <1>6, <1>7, <1>8, <1>9, EmptyRange DEF Spelled, Node
<1> QED BY <1>10

LEMMA Inductive ==
  ASSUME ListsInv, [ListsNext]_listVars
  PROVE  ListsInv'
<1>1. PICK ns, t : Spelled(ns, t)
  BY DEF ListsInv
<1>2. CASE UNCHANGED listVars
  <2>1. Spelled(ns, t)'
    BY <1>1, <1>2 DEF Spelled, Reachable, Node, listVars, mapVars
  <2> QED BY <2>1, WalksNext
<1>3. CASE new_node
  BY <1>1, <1>3, NewNodeStep, WalksNext
<1>4. CASE add_front
  BY <1>1, <1>4, AddFrontStep, WalksNext
<1>5. CASE add_back
  BY <1>1, <1>5, AddBackStep, WalksNext
<1>6. CASE delete_first
  BY <1>1, <1>6, DeleteFirstStep, WalksNext
<1>7. CASE ft_lstmap
  BY <1>1, <1>7, MapStep, WalksNext
<1>8. CASE map_node
  BY <1>1, <1>8, MapNodeStep, WalksNext
<1>9. CASE map_returns
  BY <1>1, <1>9, MapReturnsStep, WalksNext
<1>10. ASSUME NEW del \in BOOLEAN, clear_list(del) \/ map_fails(del)
       PROVE  ListsInv'
  BY <1>1, <1>10, ClearListStep, MapFailsStep, WalksNext
<1> QED BY <1>2, <1>3, <1>4, <1>5, <1>6, <1>7, <1>8, <1>9, <1>10 DEF ListsNext

LEMMA InOrder ==
  ASSUME ListsInv
  PROVE  ListsInOrder
<1>1. PICK ns, t : Spelled(ns, t)
  BY DEF ListsInv
<1>2. Walk(heap, lst) = ns /\ Walk(heap, mapped) = t
  BY <1>1, Walks
<1>3. ft_lstiter(heap, lst) = items /\ ft_lstiter(heap, mapped) = images
  BY <1>1, <1>2 DEF ft_lstiter, Spelled, Contents
<1>4. ft_lstsize(heap, lst) = Len(items)
  <2>1. DOMAIN items = DOMAIN ns /\ items = [k \in DOMAIN ns |-> heap[ns[k]].content]
    BY <1>1 DEF Spelled, Contents
  <2>2. ns \in Seq(Node)
    BY <1>1, Facts
  <2>3. DOMAIN ns = 1 .. Len(ns) /\ Len(ns) \in Nat
    BY <2>2
  <2>4. Len(items) = Len(ns)
    <3>1. items \in [1 .. Len(ns) -> Range(items)]
      BY <2>1, <2>3 DEF Range
    <3> QED BY <2>3, <3>1
  <2> QED BY <1>2, <2>4 DEF ft_lstsize
<1> QED BY <1>3, <1>4 DEF ListsInOrder

LEMMA AllAccounted ==
  ASSUME ListsInv
  PROVE  ContentsAccounted
<1>1. PICK ns, t : Spelled(ns, t)
  BY DEF ListsInv
<1> DEFINE reachable == Range(Walk(heap, lst)) \cup Range(Walk(heap, mapped)) \cup ({loose} \ {NONE})
           holding == {heap[m].content : m \in reachable}
<1>2. reachable = Reachable(ns, t)
  BY <1>1, Walks DEF Reachable
<1>3. holding = ContentsOf(heap, reachable)
  BY DEF ContentsOf
<1> HIDE DEF reachable, holding
<1>4. HeapOK(heap) /\ Accounted(heap, made, lost, reachable)
  BY <1>1, <1>2 DEF Spelled
<1>5. Cardinality(holding) = Cardinality(reachable)
  BY <1>3, <1>4, AccountCounts
<1>6. /\ made = holding \cup lost /\ holding \cap lost = {}
      /\ \A m \in Node \ reachable : heap[m].content \in lost
  BY <1>3, <1>4 DEF Accounted, Node
<1> QED BY <1>5, <1>6 DEF ContentsAccounted, reachable, holding

(* The other programs leave the lists alone.                               *)
LEMMA ListsInvariant == Spec => []ListsInv
<1>1. Init => ListsInv
  BY InitSpelled DEF Init
<1>2. ListsInv /\ [Next]_vars => ListsInv'
  <2>1. [Next]_vars => [ListsNext]_listVars
    BY DEF Next, vars
  <2> QED BY <2>1, Inductive
<1> QED BY <1>1, <1>2, PTL DEF Spec

(* Whatever the order of the calls and whichever mallocs fail, a list      *)
(* holds the contents that were added and not removed, in order, and       *)
(* ft_lstmap's holds what f returned: for any number of nodes.             *)
THEOREM ListsStayInOrder == Spec => []ListsInOrder
BY ListsInvariant, InOrder, PTL

(* Every allocated content is in one node that can be reached, or lost in  *)
(* a call of ft_lstmap that failed: none is freed twice or too soon.       *)
THEOREM EveryContentAccounted == Spec => []ContentsAccounted
BY ListsInvariant, AllAccounted, PTL

-----------------------------------------------------------------------------
(* The buffer program                                                      *)

(* c is b with text stored at p.                                           *)
Stored(b, n, p, text, c, S) ==
  /\ c \in [0 .. n - 1 -> S]
  /\ \A k \in 0 .. n - 1 :
       c[k] = IF p <= k /\ k < p + Len(text) THEN text[k - p + 1] ELSE b[k]

(* A store inside a buffer of n bytes changes the bytes of the text.       *)
LEMMA StoreInside ==
  ASSUME NEW S, NEW n \in Nat, NEW b \in [0 .. n - 1 -> S], NEW p \in Nat,
         NEW text \in Seq(S), p + Len(text) <= n
  PROVE  Stored(b, n, p, text, Store(b, p, text), S)
<1> DEFINE stored == p .. p + Len(text) - 1
<1>1. Len(text) \in Nat /\ \A k \in 1 .. Len(text) : text[k] \in S
  OBVIOUS
<1>2. DOMAIN b = 0 .. n - 1 /\ stored \subseteq DOMAIN b
  BY <1>1
<1>3. Store(b, p, text) = [k \in DOMAIN b \cup stored \cup {} |->
         IF k \in stored THEN text[k - p + 1]
         ELSE IF k \in DOMAIN b THEN b[k] ELSE UNINIT]
  BY <1>2 DEF Store
<1>4. DOMAIN b \cup stored \cup {} = 0 .. n - 1
  BY <1>2
<1>5. \A k \in 0 .. n - 1 : k \in stored <=> p <= k /\ k < p + Len(text)
  BY <1>1
<1> HIDE DEF stored
<1>6. Store(b, p, text) = [k \in 0 .. n - 1 |->
         IF p <= k /\ k < p + Len(text) THEN text[k - p + 1] ELSE b[k]]
  BY <1>2, <1>3, <1>4, <1>5
<1>7. ASSUME NEW k \in 0 .. n - 1
      PROVE  (IF p <= k /\ k < p + Len(text) THEN text[k - p + 1] ELSE b[k]) \in S
  <2>1. CASE p <= k /\ k < p + Len(text)
    <3>1. k - p + 1 \in 1 .. Len(text)
      BY <1>1, <2>1
    <3> QED BY <1>1, <2>1, <3>1
  <2>2. CASE ~(p <= k /\ k < p + Len(text))
    BY <2>2
  <2> QED BY <2>1, <2>2
<1> QED BY <1>6, <1>7 DEF Stored

(* The string in a buffer, when these are its bytes up to a 0.             *)
Holds(b, n, text) ==
  /\ b \in [0 .. n - 1 -> Nat]
  /\ text \in Seq(Nat \ {0}) /\ Len(text) < n
  /\ \A k \in 1 .. Len(text) : b[k - 1] = text[k]
  /\ b[Len(text)] = 0

LEMMA StringIn ==
  ASSUME NEW n \in Nat, NEW b, NEW text, Holds(b, n, text)
  PROVE  ft_strlen(b) = Len(text) /\ string_in(b) = text
<1> DEFINE Z == {k \in DOMAIN b : b[k] = 0}
<1>1. Len(text) \in Nat /\ Len(text) \in Z /\ Z \subseteq Nat
  BY DEF Holds
<1>2. ASSUME NEW k \in Z
      PROVE  Len(text) <= k
  <2> SUFFICES ASSUME k < Len(text)
               PROVE  FALSE
    BY <1>1
  <2>1. k + 1 \in 1 .. Len(text) /\ (k + 1) - 1 = k
    BY <1>1
  <2>2. text[k + 1] \in Nat \ {0} /\ b[k] = text[k + 1]
    BY <2>1 DEF Holds
  <2> QED BY <2>2
<1>3. Min(Z) \in Z /\ \A k \in Z : Min(Z) <= k
  <2> HIDE DEF Z
  <2> QED BY <1>1, MinElement
<1>4. Min(Z) <= Len(text) /\ Len(text) <= Min(Z) /\ Min(Z) \in Nat
  BY <1>1, <1>2, <1>3
<1>5. ft_strlen(b) = Len(text)
  <2>1. ft_strlen(b) = Min(Z)
    BY DEF ft_strlen
  <2> HIDE DEF Z
  <2> QED BY <1>1, <1>4, <2>1
<1>6. text = [k \in 1 .. Len(text) |-> text[k]]
  BY DEF Holds
<1>7. string_in(b) = [k \in 1 .. Len(text) |-> b[k - 1]]
  BY <1>5, Zenon DEF string_in
<1> QED BY <1>5, <1>6, <1>7 DEF Holds

(* A buffer with a 0 holds a string.                                       *)
LEMMA SomeString ==
  ASSUME NEW n \in Nat, NEW b \in [0 .. n - 1 -> Nat], \E k \in DOMAIN b : b[k] = 0
  PROVE  Holds(b, n, string_in(b))
<1> DEFINE Z == {k \in DOMAIN b : b[k] = 0}
           z == ft_strlen(b)
           text == string_in(b)
<1>1. Z \subseteq Nat /\ Z # {}
  OBVIOUS
<1>2. Min(Z) \in Z /\ \A k \in Z : Min(Z) <= k
  <2> HIDE DEF Z
  <2> QED BY <1>1, MinElement
<1>3. z \in Z /\ \A k \in Z : z <= k
  <2>1. z = Min(Z)
    BY DEF ft_strlen
  <2> HIDE DEF Z, z
  <2> QED BY <1>2, <2>1
<1>4. text = [k \in 1 .. z |-> b[k - 1]]
  BY DEF string_in
<1> HIDE DEF text, z
<1>5. z \in 0 .. n - 1 /\ b[z] = 0
  BY <1>3
<1>6. \A k \in 1 .. z : k - 1 \in 0 .. n - 1 /\ b[k - 1] \in Nat \ {0}
  <2> TAKE k \in 1 .. z
  <2>1. k - 1 \in 0 .. n - 1 /\ k - 1 < z
    BY <1>5
  <2>2. b[k - 1] # 0
    BY <1>3, <1>5, <2>1
  <2> QED BY <2>1, <2>2
<1>7. text \in Seq(Nat \ {0}) /\ Len(text) = z
  <2>1. text \in [1 .. z -> Nat \ {0}]
    BY <1>4, <1>6
  <2> QED BY <1>5, <2>1
<1>8. \A k \in 1 .. z : b[k - 1] = text[k]
  BY <1>4
<1>9. Holds(b, n, text)
  BY <1>5, <1>7, <1>8 DEF Holds
<1> QED BY <1>9 DEF text

(* Storing the first q characters of src and a 0 behind the string of the  *)
(* buffer, where there is room for them.                                   *)
StringStored(b, n, old, src, q, c) ==
  /\ Holds(c, n, old \o SubSeq(src, 1, q))
  /\ \A k \in Len(old) + q + 1 .. n - 1 : c[k] = b[k]

(* w is s1 and then s2.                                                    *)
Joins(w, s1, s2) ==
  /\ Len(w) = Len(s1) + Len(s2)
  /\ \A k \in 1 .. Len(s1) : w[k] = s1[k]
  /\ \A k \in 1 .. Len(s2) : w[Len(s1) + k] = s2[k]

LEMMA ConcatJoins ==
  ASSUME NEW S, NEW s1 \in Seq(S), NEW s2 \in Seq(S)
  PROVE  s1 \o s2 \in Seq(S) /\ Joins(s1 \o s2, s1, s2)
BY ConcatElements DEF Joins

LEMMA StoreString ==
  ASSUME NEW n \in Nat, NEW b \in [0 .. n - 1 -> Nat],
         NEW old \in Seq(Nat \ {0}), \A k \in 1 .. Len(old) : b[k - 1] = old[k],
         NEW src \in Seq(Nat \ {0}), NEW q \in 0 .. Len(src), Len(old) + q < n
  PROVE  StringStored(b, n, old, src, q, Store(b, Len(old), SubSeq(src, 1, q) \o <<0>>))
<1> DEFINE o == Len(old)
           m == SubSeq(src, 1, q)
           text == m \o <<0>>
           c == Store(b, o, text)
           new == old \o m
<1>1. o \in Nat /\ q \in Nat /\ q <= Len(src) /\ Len(src) \in Nat
  OBVIOUS
<1>2. m \in Seq(Nat \ {0}) /\ Len(m) = q
  BY <1>1, SubSeqProperties
<1> HIDE DEF m
<1>3. /\ text \in Seq(Nat) /\ Len(text) = q + 1 /\ text[q + 1] = 0
      /\ \A k \in 1 .. q : text[k] = m[k]
  <2>1. m \in Seq(Nat) /\ <<0>> \in Seq(Nat)
    <3>1. \A k \in 1 .. Len(m) : m[k] \in Nat
      BY <1>2
    <3> QED BY <1>2, <3>1
  <2> DEFINE z == <<0>>
  <2>2. z \in Seq(Nat) /\ Len(z) = 1 /\ z[1] = 0 /\ m \in Seq(Nat) /\ text = m \o z
    BY <2>1
  <2> HIDE DEF z, text
  <2>3. text \in Seq(Nat) /\ Joins(text, m, z)
    BY <2>2, ConcatJoins
  <2>4. Len(text) = q + 1 /\ \A k \in 1 .. q : text[k] = m[k]
    BY <1>1, <1>2, <2>2, <2>3 DEF Joins
  <2>5. text[Len(m) + 1] = z[1]
    BY <2>2, <2>3 DEF Joins
  <2> QED BY <1>2, <2>2, <2>3, <2>4, <2>5
<1>4. /\ new \in Seq(Nat \ {0}) /\ Len(new) = o + q
      /\ \A k \in 1 .. o : new[k] = old[k]
      /\ \A k \in 1 .. q : new[o + k] = m[k]
  <2>1. /\ new \in Seq(Nat \ {0}) /\ Len(new) = o + q
        /\ \A k \in 1 .. o + q : new[k] = IF k <= o THEN old[k] ELSE m[k - o]
    BY <1>2, ConcatProperties
  <2> HIDE DEF new, o
  <2>2. \A k \in 1 .. o : new[k] = old[k]
    BY <1>1, <2>1
  <2>3. \A k \in 1 .. q : new[o + k] = m[k]
    <3> TAKE k \in 1 .. q
    <3>1. o + k \in 1 .. o + q /\ ~(o + k <= o) /\ (o + k) - o = k
      BY <1>1
    <3> QED BY <2>1, <3>1
  <2> QED BY <2>1, <2>2, <2>3
<1> HIDE DEF o, text, new
<1>5. o + Len(text) <= n /\ o + q < n
  BY <1>1, <1>3 DEF o
<1>6. /\ c \in [0 .. n - 1 -> Nat]
      /\ \A k \in 0 .. n - 1 :
           c[k] = IF o <= k /\ k < o + Len(text) THEN text[k - o + 1] ELSE b[k]
  <2>1. Stored(b, n, o, text, c, Nat)
    BY <1>1, <1>3, <1>5, StoreInside
  <2> QED BY <2>1 DEF Stored
<1> HIDE DEF c
<1>7. ASSUME NEW k \in 1 .. o + q
      PROVE  c[k - 1] = new[k]
  <2>1. k - 1 \in 0 .. n - 1
    BY <1>1, <1>5
  <2>2. CASE k <= o
    <3>1. k \in 1 .. o /\ ~(o <= k - 1)
      BY <1>1, <2>2
    <3> QED BY <1>4, <1>6, <2>1, <3>1 DEF o
  <2>3. CASE o < k
    <3>1. k - o \in 1 .. q /\ o + (k - o) = k /\ (k - 1) - o + 1 = k - o
          /\ o <= k - 1 /\ k - 1 < o + Len(text)
      BY <1>1, <1>3, <2>3
    <3>2. c[k - 1] = text[k - o]
      BY <1>6, <2>1, <3>1
    <3>3. text[k - o] = m[k - o] /\ new[o + (k - o)] = m[k - o]
      BY <1>3, <1>4, <3>1
    <3> QED BY <3>1, <3>2, <3>3
  <2> QED BY <1>1, <2>2, <2>3
<1>8. c[o + q] = 0
  <2>1. o + q \in 0 .. n - 1 /\ o <= o + q /\ o + q < o + Len(text) /\ (o + q) - o + 1 = q + 1
    BY <1>1, <1>3, <1>5
  <2> QED BY <1>3, <1>6, <2>1
<1>9. \A k \in o + q + 1 .. n - 1 : c[k] = b[k]
  <2> TAKE k \in o + q + 1 .. n - 1
  <2>1. k \in 0 .. n - 1 /\ ~(k < o + Len(text))
    BY <1>1, <1>3
  <2> QED BY <1>6, <2>1
<1>10. Holds(c, n, new)
  BY <1>4, <1>5, <1>6, <1>7, <1>8 DEF Holds
<1> QED BY <1>9, <1>10 DEF StringStored, c, new, o, m, text

(* How many characters of a string of n characters fit behind o in a       *)
(* buffer of size bytes with a 0 at its end.                               *)
Fitting(o, n, size) == IF n <= size - 1 - o THEN n ELSE size - 1 - o

LEMMA FittingNumbers ==
  ASSUME NEW o \in Nat, NEW n \in Nat, NEW size \in Nat, o < size
  PROVE  /\ Fitting(o, n, size) \in 0 .. n /\ o + Fitting(o, n, size) < size
         /\ o + Fitting(o, n, size) = Min({size - 1, o + n})
         /\ n + o >= size <=> Fitting(o, n, size) # n
<1>1. Min({size - 1, o + n}) = IF size - 1 <= o + n THEN size - 1 ELSE o + n
  BY size - 1 \in Nat, o + n \in Nat, MinOfTwo
<1> QED BY <1>1 DEF Fitting

(* The longest beginning of src that fits behind old in size bytes.        *)
Longest(old, src, size, q) ==
  /\ q \in 0 .. Len(src) /\ Len(old) + q < size
  /\ old \o SubSeq(src, 1, q)
       = SubSeq(old \o src, 1, Min({size - 1, Len(old \o src)}))
  /\ Len(src) + Len(old) >= size <=> old \o SubSeq(src, 1, q) # old \o src

LEMMA CutString ==
  ASSUME NEW old \in Seq(Nat \ {0}), NEW src \in Seq(Nat \ {0}),
         NEW size \in Nat, Len(old) < size,
         NEW q, q = Fitting(Len(old), Len(src), size)
  PROVE  Longest(old, src, size, q)
<1>1. Len(old) \in Nat /\ Len(src) \in Nat
  OBVIOUS
<1>2. /\ q \in 0 .. Len(src) /\ Len(old) + q < size
      /\ Len(old) + q = Min({size - 1, Len(old) + Len(src)})
      /\ Len(src) + Len(old) >= size <=> q # Len(src)
  BY <1>1, FittingNumbers
<1>3. Len(old \o src) = Len(old) + Len(src)
  BY ConcatElements
<1>4. /\ old \o SubSeq(src, 1, q) = SubSeq(old \o src, 1, Len(old) + q)
      /\ old \o SubSeq(src, 1, q) = old \o src <=> q = Len(src)
  <2>1. IsCut(old, src, q)
    BY <1>2, CutConcat
  <2> QED BY <2>1 DEF IsCut
<1>5. Min({size - 1, Len(old \o src)}) = Len(old) + q
  BY <1>2, <1>3, Zenon
<1>6. SubSeq(old \o src, 1, Min({size - 1, Len(old \o src)})) = SubSeq(old \o src, 1, Len(old) + q)
  BY <1>5, Zenon
<1>7. Len(src) + Len(old) >= size <=> old \o SubSeq(src, 1, q) # old \o src
  BY <1>2, <1>4, Zenon
<1>8. old \o SubSeq(src, 1, q) = SubSeq(old \o src, 1, Min({size - 1, Len(old \o src)}))
  BY <1>4, <1>6, Zenon
<1> QED BY <1>2, <1>7, <1>8, Zenon DEF Longest

(* CutsAtSize of a call that has turned the buffer b into c.               *)
CutRight(cat, b, c, src, size, ret) ==
  LET old == IF cat THEN string_in(b) ELSE <<>>
      wanted == old \o src
      skipped == size = 0 \/ size <= Len(old)
  IN  /\ \A k \in size .. Cap - 1 : c[k] = b[k]
      /\ skipped => c = b
      /\ ~skipped => /\ \E k \in DOMAIN c : c[k] = 0
                     /\ string_in(c) = SubSeq(wanted, 1, Min({size - 1, Len(wanted)}))
                     /\ ret >= size <=> string_in(c) # wanted

(* A store of as much of src as fits behind old is right.                  *)
StoresString(b, old, src, size, q, c) ==
  /\ b \in [0 .. Cap - 1 -> Nat]
  /\ old \in Seq(Nat \ {0}) /\ src \in Seq(Nat \ {0}) /\ size \in 0 .. Cap
  /\ \A k \in 1 .. Len(old) : b[k - 1] = old[k]
  /\ Len(old) < size /\ q = Fitting(Len(old), Len(src), size)
  /\ c = Store(b, Len(old), SubSeq(src, 1, q) \o <<0>>)

LEMMA StoresRight ==
  ASSUME NEW b, NEW old, NEW src, NEW size, NEW q, NEW c,
         StoresString(b, old, src, size, q, c),
         NEW cat \in BOOLEAN, old = IF cat THEN string_in(b) ELSE <<>>
  PROVE  c \in [0 .. Cap - 1 -> Nat] /\ CutRight(cat, b, c, src, size, Len(src) + Len(old))
<1>1. /\ Len(old) \in Nat /\ Len(src) \in Nat /\ Cap \in Nat /\ size \in Nat /\ size <= Cap
      /\ old \in Seq(Nat \ {0}) /\ src \in Seq(Nat \ {0}) /\ Len(old) < size
      /\ q = Fitting(Len(old), Len(src), size)
  BY CallsAssumption DEF StoresString
<1> DEFINE new == old \o SubSeq(src, 1, q)
           wanted == old \o src
           o == Len(old)
           e == Min({size - 1, Len(wanted)})
           n == Len(src)
<1>2. /\ q \in 0 .. n /\ o + q < size
      /\ new = SubSeq(wanted, 1, e)
      /\ n + o >= size <=> new # wanted
  <2>1. Longest(old, src, size, q)
    <3> HIDE DEF new, wanted, e, o, n
    <3> QED BY <1>1, CutString
  <2> QED BY <2>1, Zenon DEF Longest
<1>3. Len(old) + q < Cap /\ q \in 0 .. Len(src)
  BY <1>1, <1>2
<1>4. Holds(c, Cap, new) /\ \A k \in o + q + 1 .. Cap - 1 : c[k] = b[k]
  <2> DEFINE c1 == Store(b, Len(old), SubSeq(src, 1, q) \o <<0>>)
  <2>1. b \in [0 .. Cap - 1 -> Nat] /\ \A k \in 1 .. Len(old) : b[k - 1] = old[k]
    BY DEF StoresString
  <2>2. Holds(c1, Cap, new) /\ \A k \in Len(old) + q + 1 .. Cap - 1 : c1[k] = b[k]
    <3>1. StringStored(b, Cap, old, src, q, c1)
      <4> HIDE DEF new, o, n, e, wanted
      <4> QED BY <1>1, <1>3, <2>1, StoreString
    <3> QED BY <3>1, Zenon DEF StringStored
  <2>3. c = c1
    BY DEF StoresString
  <2> QED BY <2>2, <2>3, Zenon
<1> HIDE DEF new, wanted, e
<1>5. string_in(c) = new
  BY <1>1, <1>4, StringIn
<1>6. c \in [0 .. Cap - 1 -> Nat] /\ c[Len(new)] = 0 /\ Len(new) \in 0 .. Cap - 1
  <2>1. Len(new) \in Nat /\ Len(new) < Cap
    BY <1>4 DEF Holds
  <2> QED BY <1>1, <1>4, <2>1 DEF Holds
<1> HIDE DEF o, n
<1>7. \A k \in size .. Cap - 1 : c[k] = b[k]
  <2> TAKE k \in size .. Cap - 1
  <2>1. k \in o + q + 1 .. Cap - 1
    BY <1>1, <1>2 DEF o, n
  <2> QED BY <1>4, <2>1
<1>8. ~(size = 0 \/ size <= o)
  BY <1>1 DEF o
<1>9. \E k \in DOMAIN c : c[k] = 0
  BY <1>6
<1>10. CutRight(cat, b, c, src, size, n + o)
  BY <1>2, <1>5, <1>7, <1>8, <1>9, Zenon DEF CutRight, o, e, wanted
<1> QED BY <1>6, <1>10 DEF n, o

LEMMA CopyRight ==
  ASSUME NEW b \in [0 .. Cap - 1 -> Nat], NEW src \in Seq(Nat \ {0}), NEW size \in 0 .. Cap,
         NEW r, r = ft_strlcpy(b, src, size)
  PROVE  r.mem \in [0 .. Cap - 1 -> Nat] /\ CutRight(FALSE, b, r.mem, src, size, r.ret)
<1>1. Len(src) \in Nat /\ Cap \in Nat /\ size \in Nat
  BY CallsAssumption
<1>2. CASE size = 0
  <2>1. r.mem = b
    BY <1>2 DEF ft_strlcpy
  <2> QED BY <1>2, <2>1 DEF CutRight
<1>3. CASE size # 0
  <2> DEFINE q == Min({size - 1, Len(src)})
  <2>1. r.mem = Store(b, 0, SubSeq(src, 1, q) \o <<0>>) /\ r.ret = Len(src)
    BY <1>3 DEF ft_strlcpy
  <2>2. q = IF Len(src) <= size - 1 THEN Len(src) ELSE size - 1
    <3>1. size - 1 \in Nat
      BY <1>1, <1>3
    <3>2. q = IF size - 1 <= Len(src) THEN size - 1 ELSE Len(src)
      BY <1>1, <3>1, MinOfTwo
    <3> HIDE DEF q
    <3> QED BY <1>1, <3>1, <3>2
  <2> DEFINE old == <<>>
  <2>3. old \in Seq(Nat \ {0}) /\ Len(old) = 0 /\ \A k \in 1 .. Len(old) : b[k - 1] = old[k]
    OBVIOUS
  <2>4. old = IF FALSE THEN string_in(b) ELSE <<>>
    OBVIOUS
  <2>5. q = Fitting(0, Len(src), size)
    <3> HIDE DEF q
    <3> QED BY <1>1, <2>2 DEF Fitting
  <2> HIDE DEF q, old
  <2>6. StoresString(b, old, src, size, q, r.mem)
    <3>1. Len(old) < size
      BY <1>1, <1>3, <2>3
    <3>2. r.mem = Store(b, Len(old), SubSeq(src, 1, q) \o <<0>>)
      BY <2>1, <2>3
    <3>3. q = Fitting(Len(old), Len(src), size)
      BY <2>3, <2>5
    <3> QED BY <2>3, <3>1, <3>2, <3>3 DEF StoresString
  <2>7. r.mem \in [0 .. Cap - 1 -> Nat] /\ CutRight(FALSE, b, r.mem, src, size, Len(src) + Len(old))
    BY <2>4, <2>6, StoresRight
  <2>8. r.ret = Len(src) + Len(old)
    BY <1>1, <2>1, <2>3
  <2> QED BY <2>7, <2>8
<1> QED BY <1>2, <1>3

LEMMA CatRight ==
  ASSUME NEW b \in [0 .. Cap - 1 -> Nat], \E k \in DOMAIN b : b[k] = 0,
         NEW src \in Seq(Nat \ {0}), NEW size \in 0 .. Cap,
         NEW r, r = ft_strlcat(b, src, size)
  PROVE  r.mem \in [0 .. Cap - 1 -> Nat] /\ CutRight(TRUE, b, r.mem, src, size, r.ret)
<1> DEFINE old == string_in(b)
           o == ft_strlen(b)
           q == Min({Len(src), Max({0, size - 1 - o})})
<1>1. Len(src) \in Nat /\ Cap \in Nat /\ size \in Nat
  BY CallsAssumption
<1>2. Holds(b, Cap, old)
  BY <1>1, SomeString
<1>3. o = Len(old)
  BY <1>1, <1>2, StringIn
<1>4. r.mem = Store(b, o, SubSeq(src, 1, q) \o <<0>>) /\ r.ret = Len(src) + Min({size, o})
  BY DEF ft_strlcat
<1> HIDE DEF old, o
<1>5. /\ old \in Seq(Nat \ {0}) /\ o \in Nat /\ o < Cap /\ b[o] = 0
      /\ \A k \in 1 .. Len(old) : b[k - 1] = old[k]
  BY <1>2, <1>3 DEF Holds
<1>6. q = IF size - 1 - o > 0
          THEN IF Len(src) <= size - 1 - o THEN Len(src) ELSE size - 1 - o
          ELSE 0
  <2> DEFINE x == Max({0, size - 1 - o})
  <2>1. x = IF size - 1 - o > 0 THEN size - 1 - o ELSE 0
    BY <1>1, <1>5, MaxWithZero
  <2>2. q = Min({Len(src), x})
    OBVIOUS
  <2> HIDE DEF x, q
  <2>3. x \in Nat
    BY <1>1, <1>5, <2>1
  <2>4. q = IF Len(src) <= x THEN Len(src) ELSE x
    BY <1>1, <2>2, <2>3, MinOfTwo
  <2> QED BY <1>1, <1>5, <2>1, <2>4
<1> HIDE DEF q
<1>7. Min({size, o}) = IF size <= o THEN size ELSE o
  BY <1>1, <1>5, MinOfTwo
<1>8. CASE size <= o
  <2>1. q = 0
    BY <1>1, <1>5, <1>6, <1>8
  <2>2. SubSeq(src, 1, q) \o <<0>> = <<0>>
    <3>1. SubSeq(src, 1, 0) = <<>>
      BY SubSeqEmpty
    <3>2. <<>> \o <<0>> = <<0>>
      OBVIOUS
    <3> QED BY <2>1, <3>1, <3>2
  <2>3. Stored(b, Cap, o, <<0>>, r.mem, Nat)
    <3>1. <<0>> \in Seq(Nat) /\ Len(<<0>>) = 1 /\ o + Len(<<0>>) <= Cap
      BY <1>1, <1>5
    <3>2. Stored(b, Cap, o, <<0>>, Store(b, o, <<0>>), Nat)
      BY <1>1, <1>5, <3>1, StoreInside
    <3> QED BY <1>4, <2>2, <3>2
  <2>4. r.mem \in [0 .. Cap - 1 -> Nat] /\ \A k \in 0 .. Cap - 1 : r.mem[k] = b[k]
    <3>1. r.mem \in [0 .. Cap - 1 -> Nat]
      BY <2>3 DEF Stored
    <3>2. ASSUME NEW k \in 0 .. Cap - 1
          PROVE  r.mem[k] = b[k]
      <4>1. r.mem[k] = IF o <= k /\ k < o + Len(<<0>>) THEN <<0>>[k - o + 1] ELSE b[k]
        BY <2>3 DEF Stored
      <4>2. CASE k = o
        <5>1. k - o + 1 = 1 /\ Len(<<0>>) = 1 /\ <<0>>[1] = 0
          BY <1>5, <4>2
        <5> QED BY <1>5, <4>1, <4>2, <5>1
      <4>3. CASE k # o
        <5>1. Len(<<0>>) = 1 /\ ~(o <= k /\ k < o + 1)
          BY <1>5, <4>3
        <5> QED BY <4>1, <5>1
      <4> QED BY <4>2, <4>3
    <3> QED BY <3>1, <3>2
  <2>5. r.mem = b
    <3>1. b = [k \in 0 .. Cap - 1 |-> b[k]] /\ r.mem = [k \in 0 .. Cap - 1 |-> r.mem[k]]
      BY <2>4
    <3>2. [k \in 0 .. Cap - 1 |-> b[k]] = [k \in 0 .. Cap - 1 |-> r.mem[k]]
      BY <2>4
    <3> QED BY <3>1, <3>2
  <2> QED BY <1>3, <1>8, <2>4, <2>5 DEF CutRight, old
<1>9. CASE ~(size <= o)
  <2>1. o < size /\ q = Fitting(o, Len(src), size) /\ r.ret = Len(src) + o
    BY <1>1, <1>4, <1>5, <1>6, <1>7, <1>9 DEF Fitting
  <2>2. StoresString(b, old, src, size, q, r.mem)
    BY <1>3, <1>4, <1>5, <2>1 DEF StoresString
  <2>3. old = IF TRUE THEN string_in(b) ELSE <<>>
    BY DEF old
  <2>4. r.mem \in [0 .. Cap - 1 -> Nat] /\ CutRight(TRUE, b, r.mem, src, size, Len(src) + Len(old))
    BY <2>2, <2>3, StoresRight
  <2> QED BY <1>3, <2>1, <2>4
<1> QED BY <1>8, <1>9

(* b after its bytes from index src on have been moved to dst: those from  *)
(* index lo to hi of the moved ones.                                       *)
Moved(b, dst, src, lo, hi) ==
  [x \in DOMAIN b |-> IF dst + lo <= x /\ x < dst + hi THEN b[src + (x - dst)] ELSE b[x]]

Areas(n, b, dst, src, len) ==
  /\ n \in Nat /\ b \in [0 .. n - 1 -> Nat]
  /\ dst \in Nat /\ src \in Nat /\ len \in Nat
  /\ dst + len <= n /\ src + len <= n

(* Moving one more byte up, or down, when the areas overlap only ahead.    *)
LEMMA MoveUp ==
  ASSUME NEW n, NEW b, NEW dst, NEW src, NEW len, Areas(n, b, dst, src, len),
         dst < src, NEW k \in 1 .. len,
         NEW d, d = Moved(b, dst, src, 0, k - 1)
  PROVE  Moved(b, dst, src, 0, k) = [d EXCEPT ![dst + k - 1] = d[src + k - 1]]
<1> USE DEF Areas
<1>1. DOMAIN b = 0 .. n - 1 /\ dst + k - 1 \in 0 .. n - 1 /\ src + k - 1 \in 0 .. n - 1
  OBVIOUS
<1>2. d[src + k - 1] = b[src + k - 1]
  <2>1. ~(src + k - 1 < dst + (k - 1))
    OBVIOUS
  <2> QED BY <1>1, <2>1 DEF Moved
<1>3. [d EXCEPT ![dst + k - 1] = d[src + k - 1]]
        = [x \in 0 .. n - 1 |-> IF x = dst + k - 1 THEN b[src + k - 1] ELSE d[x]]
  BY <1>1, <1>2 DEF Moved
<1>4. Moved(b, dst, src, 0, k)
        = [x \in 0 .. n - 1 |-> IF dst + 0 <= x /\ x < dst + k THEN b[src + (x - dst)] ELSE b[x]]
  BY <1>1 DEF Moved
<1>5. ASSUME NEW x \in 0 .. n - 1
      PROVE  (IF x = dst + k - 1 THEN b[src + k - 1] ELSE d[x])
               = IF dst + 0 <= x /\ x < dst + k THEN b[src + (x - dst)] ELSE b[x]
  <2>1. d[x] = IF dst + 0 <= x /\ x < dst + (k - 1) THEN b[src + (x - dst)] ELSE b[x]
    BY <1>1 DEF Moved
  <2>2. CASE x = dst + k - 1
    <3>1. src + (x - dst) = src + k - 1 /\ dst + 0 <= x /\ x < dst + k
      BY <2>2
    <3> QED BY <2>2, <3>1
  <2>3. CASE x # dst + k - 1
    <3>1. x < dst + k <=> x < dst + (k - 1)
      BY <2>3
    <3> QED BY <2>1, <2>3, <3>1
  <2> QED BY <2>2, <2>3
<1> QED BY <1>3, <1>4, <1>5

LEMMA MoveDown ==
  ASSUME NEW n, NEW b, NEW dst, NEW src, NEW len, Areas(n, b, dst, src, len),
         ~(dst < src), NEW k \in 0 .. len - 1,
         NEW d, d = Moved(b, dst, src, k + 1, len)
  PROVE  Moved(b, dst, src, k, len) = [d EXCEPT ![dst + k] = d[src + k]]
<1> USE DEF Areas
<1>1. DOMAIN b = 0 .. n - 1 /\ dst + k \in 0 .. n - 1 /\ src + k \in 0 .. n - 1
  OBVIOUS
<1>2. d[src + k] = b[src + k]
  <2>1. ~(dst + (k + 1) <= src + k)
    OBVIOUS
  <2> QED BY <1>1, <2>1 DEF Moved
<1>3. [d EXCEPT ![dst + k] = d[src + k]]
        = [x \in 0 .. n - 1 |-> IF x = dst + k THEN b[src + k] ELSE d[x]]
  BY <1>1, <1>2 DEF Moved
<1>4. Moved(b, dst, src, k, len)
        = [x \in 0 .. n - 1 |-> IF dst + k <= x /\ x < dst + len THEN b[src + (x - dst)] ELSE b[x]]
  BY <1>1 DEF Moved
<1>5. ASSUME NEW x \in 0 .. n - 1
      PROVE  (IF x = dst + k THEN b[src + k] ELSE d[x])
               = IF dst + k <= x /\ x < dst + len THEN b[src + (x - dst)] ELSE b[x]
  <2>1. d[x] = IF dst + (k + 1) <= x /\ x < dst + len THEN b[src + (x - dst)] ELSE b[x]
    BY <1>1 DEF Moved
  <2>2. CASE x = dst + k
    <3>1. src + (x - dst) = src + k /\ dst + k <= x /\ x < dst + len
      BY <2>2
    <3> QED BY <2>2, <3>1
  <2>3. CASE x # dst + k
    <3>1. dst + k <= x <=> dst + (k + 1) <= x
      BY <2>3
    <3> QED BY <2>1, <2>3, <3>1
  <2> QED BY <2>2, <2>3
<1> QED BY <1>3, <1>4, <1>5

(* The loop of ft_memcpy, when dst lies below src.                         *)
LEMMA CopiesUp ==
  ASSUME NEW n, NEW b, NEW dst, NEW src, NEW len, Areas(n, b, dst, src, len), dst < src
  PROVE  ft_memcpy(b, dst, src, len) = Moved(b, dst, src, 0, len)
<1> DEFINE V(g) == g = [k \in 0 .. len |->
                          IF k = 0 THEN b
                          ELSE [g[k - 1] EXCEPT ![dst + k - 1] = g[k - 1][src + k - 1]]]
           e == [k \in 0 .. len |-> Moved(b, dst, src, 0, k)]
           h == CHOOSE g : V(g)
<1>1. len \in Nat
  BY DEF Areas
<1>2. Moved(b, dst, src, 0, 0) = b
  <2>1. DOMAIN b = 0 .. n - 1 /\ n \in Nat /\ dst \in Nat
    BY DEF Areas
  <2>2. \A x \in 0 .. n - 1 : ~(dst + 0 <= x /\ x < dst + 0)
    BY <2>1
  <2>3. Moved(b, dst, src, 0, 0) = [x \in 0 .. n - 1 |-> b[x]]
    BY <2>1, <2>2 DEF Moved
  <2> QED BY <2>3 DEF Areas
<1>3. ASSUME NEW k \in 0 .. len
      PROVE  e[k] = IF k = 0 THEN b ELSE [e[k - 1] EXCEPT ![dst + k - 1] = e[k - 1][src + k - 1]]
  <2>1. CASE k = 0
    BY <1>2, <2>1
  <2>2. CASE k # 0
    <3>1. k \in 1 .. len /\ k - 1 \in 0 .. len
      BY <1>1, <2>2
    <3>2. e[k - 1] = Moved(b, dst, src, 0, k - 1) /\ e[k] = Moved(b, dst, src, 0, k)
      BY <3>1
    <3> HIDE DEF e
    <3>3. e[k] = [e[k - 1] EXCEPT ![dst + k - 1] = e[k - 1][src + k - 1]]
      BY <3>1, <3>2, MoveUp
    <3> QED BY <2>2, <3>3
  <2> QED BY <2>1, <2>2
<1>4. V(e)
  <2>1. e = [k \in 0 .. len |-> e[k]]
    OBVIOUS
  <2> HIDE DEF e
  <2> QED BY <1>3, <2>1
<1>5. V(h)
  <2> HIDE DEF V
  <2> QED BY <1>4, Zenon
<1>6. ft_memcpy(b, dst, src, len) = h[len]
  BY Zenon DEF ft_memcpy
<1> HIDE DEF h
<1> DEFINE T == {k \in Nat : k <= len => h[k] = e[k]}
<1>7. 0 \in T
  BY <1>1, <1>2, <1>5
<1>8. ASSUME NEW k \in T
      PROVE  k + 1 \in T
  <2>1. ASSUME k + 1 <= len
        PROVE  h[k + 1] = e[k + 1]
    <3>1. k + 1 \in 0 .. len /\ (k + 1) - 1 = k /\ k + 1 # 0 /\ k <= len
      BY <1>1, <2>1
    <3>2. h[k] = e[k]
      BY <3>1
    <3> HIDE DEF e
    <3>3. e[k + 1] = [e[k] EXCEPT ![dst + (k + 1) - 1] = e[k][src + (k + 1) - 1]]
      BY <1>3, <3>1
    <3>4. h[k + 1] = [h[k] EXCEPT ![dst + (k + 1) - 1] = h[k][src + (k + 1) - 1]]
      BY <1>5, <3>1
    <3> QED BY <3>2, <3>3, <3>4, Zenon
  <2> QED BY <2>1
<1>9. T = Nat
  <2>1. T \in SUBSET Nat
    OBVIOUS
  <2> HIDE DEF T
  <2> QED BY <1>7, <1>8, <2>1, Induction
<1>10. h[len] = e[len]
  <2>1. len \in T
    <3> HIDE DEF T
    <3> QED BY <1>1, <1>9
  <2> HIDE DEF e
  <2> QED BY <1>1, <2>1
<1> QED BY <1>1, <1>6, <1>10

(* The other loop of ft_memmove.                                           *)
LEMMA CopiesDown ==
  ASSUME NEW n, NEW b, NEW dst, NEW src, NEW len, Areas(n, b, dst, src, len), ~(dst < src)
  PROVE  ft_memmove(b, dst, src, len) = Moved(b, dst, src, 0, len)
<1> DEFINE V(g) == g = [k \in 0 .. len |->
                          IF k = len THEN b
                          ELSE [g[k + 1] EXCEPT ![dst + k] = g[k + 1][src + k]]]
           e == [k \in 0 .. len |-> Moved(b, dst, src, k, len)]
           h == CHOOSE g : V(g)
<1>1. len \in Nat
  BY DEF Areas
<1>2. Moved(b, dst, src, len, len) = b
  <2>1. DOMAIN b = 0 .. n - 1 /\ n \in Nat /\ dst \in Nat
    BY DEF Areas
  <2>2. \A x \in 0 .. n - 1 : ~(dst + len <= x /\ x < dst + len)
    BY <1>1, <2>1
  <2>3. Moved(b, dst, src, len, len) = [x \in 0 .. n - 1 |-> b[x]]
    BY <2>1, <2>2 DEF Moved
  <2> QED BY <2>3 DEF Areas
<1>3. ASSUME NEW k \in 0 .. len
      PROVE  e[k] = IF k = len THEN b ELSE [e[k + 1] EXCEPT ![dst + k] = e[k + 1][src + k]]
  <2>1. CASE k = len
    BY <1>2, <2>1
  <2>2. CASE k # len
    <3>1. k \in 0 .. len - 1 /\ k + 1 \in 0 .. len
      BY <1>1, <2>2
    <3>2. e[k + 1] = Moved(b, dst, src, k + 1, len) /\ e[k] = Moved(b, dst, src, k, len)
      BY <3>1
    <3> HIDE DEF e
    <3>3. e[k] = [e[k + 1] EXCEPT ![dst + k] = e[k + 1][src + k]]
      BY <3>1, <3>2, MoveDown
    <3> QED BY <2>2, <3>3
  <2> QED BY <2>1, <2>2
<1>4. V(e)
  <2>1. e = [k \in 0 .. len |-> e[k]]
    OBVIOUS
  <2> HIDE DEF e
  <2> QED BY <1>3, <2>1
<1>5. V(h)
  <2> HIDE DEF V
  <2> QED BY <1>4, Zenon
<1>6. ft_memmove(b, dst, src, len) = h[0]
  BY Zenon DEF ft_memmove
<1> HIDE DEF h
<1> DEFINE T == {m \in Nat : m <= len => h[len - m] = e[len - m]}
<1>7. 0 \in T
  <2>1. len - 0 = len /\ len \in 0 .. len
    BY <1>1
  <2>2. h[len] = b /\ e[len] = b
    BY <1>2, <1>5, <2>1
  <2> HIDE DEF e, V
  <2> QED BY <2>1, <2>2
<1>8. ASSUME NEW m \in T
      PROVE  m + 1 \in T
  <2>1. ASSUME m + 1 <= len
        PROVE  h[len - (m + 1)] = e[len - (m + 1)]
    <3> DEFINE k == len - (m + 1)
    <3>1. k \in 0 .. len /\ k + 1 = len - m /\ k # len /\ m <= len
      BY <1>1, <2>1
    <3>2. h[k + 1] = e[k + 1]
      BY <3>1
    <3> HIDE DEF e, k
    <3>3. e[k] = [e[k + 1] EXCEPT ![dst + k] = e[k + 1][src + k]]
      BY <1>3, <3>1
    <3>4. h[k] = [h[k + 1] EXCEPT ![dst + k] = h[k + 1][src + k]]
      BY <1>5, <3>1
    <3>5. h[k] = e[k]
      BY <3>2, <3>3, <3>4, Zenon
    <3> QED BY <3>5 DEF k
  <2> QED BY <2>1
<1>9. T = Nat
  <2>1. T \in SUBSET Nat
    OBVIOUS
  <2> HIDE DEF T
  <2> QED BY <1>7, <1>8, <2>1, Induction
<1>10. h[0] = e[0]
  <2>1. len \in T
    <3> HIDE DEF T
    <3> QED BY <1>1, <1>9
  <2> HIDE DEF e
  <2>2. h[len - len] = e[len - len] /\ len - len = 0
    BY <1>1, <2>1
  <2> QED BY <2>2
<1> QED BY <1>1, <1>6, <1>10

(* So ft_memmove moves as if through a copy.                               *)
LEMMA MemmoveStores ==
  ASSUME NEW n, NEW b, NEW dst, NEW src, NEW len, Areas(n, b, dst, src, len)
  PROVE  /\ ft_memmove(b, dst, src, len) = Store(b, dst, [k \in 1 .. len |-> b[src + k - 1]])
         /\ ft_memmove(b, dst, src, len) \in [0 .. n - 1 -> Nat]
<1> DEFINE text == [k \in 1 .. len |-> b[src + k - 1]]
           c == Store(b, dst, text)
<1>1. /\ n \in Nat /\ b \in [0 .. n - 1 -> Nat] /\ dst \in Nat /\ src \in Nat /\ len \in Nat
      /\ dst + len <= n /\ src + len <= n
  BY DEF Areas
<1>2. text \in Seq(Nat) /\ Len(text) = len
  <2>1. \A k \in 1 .. len : src + k - 1 \in 0 .. n - 1
    BY <1>1
  <2>2. text \in [1 .. len -> Nat]
    BY <1>1, <2>1
  <2> QED BY <1>1, <2>2
<1>3. \A k \in 1 .. len : text[k] = b[src + k - 1]
  OBVIOUS
<1> HIDE DEF text
<1>4. Stored(b, n, dst, text, c, Nat)
  <2> HIDE DEF c
  <2>1. Stored(b, n, dst, text, Store(b, dst, text), Nat)
    BY <1>1, <1>2, StoreInside
  <2> QED BY <2>1 DEF c
<1> HIDE DEF c
<1>5. ft_memmove(b, dst, src, len) = Moved(b, dst, src, 0, len)
  <2>1. CASE dst < src
    <3>1. ft_memmove(b, dst, src, len) = ft_memcpy(b, dst, src, len)
      BY <2>1 DEF ft_memmove
    <3> QED BY <2>1, <3>1, CopiesUp
  <2>2. CASE ~(dst < src)
    BY <2>2, CopiesDown
  <2> QED BY <2>1, <2>2
<1>6. Moved(b, dst, src, 0, len)
        = [x \in 0 .. n - 1 |-> IF dst + 0 <= x /\ x < dst + len THEN b[src + (x - dst)] ELSE b[x]]
  BY <1>1 DEF Moved
<1>7. ASSUME NEW x \in 0 .. n - 1
      PROVE  c[x] = IF dst + 0 <= x /\ x < dst + len THEN b[src + (x - dst)] ELSE b[x]
  <2>1. c[x] = IF dst <= x /\ x < dst + Len(text) THEN text[x - dst + 1] ELSE b[x]
    BY <1>4 DEF Stored
  <2>2. CASE dst <= x /\ x < dst + len
    <3>1. x - dst + 1 \in 1 .. len /\ src + (x - dst + 1) - 1 = src + (x - dst)
          /\ dst + 0 <= x
      BY <1>1, <2>2
    <3>2. text[x - dst + 1] = b[src + (x - dst)]
      BY <1>3, <3>1
    <3> QED BY <1>2, <2>1, <2>2, <3>1, <3>2
  <2>3. CASE ~(dst <= x /\ x < dst + len)
    <3>1. dst + 0 = dst
      BY <1>1
    <3> QED BY <1>2, <2>1, <2>3, <3>1
  <2> QED BY <2>2, <2>3
<1>8. c \in [0 .. n - 1 -> Nat]
  BY <1>4 DEF Stored
<1>9. c = Moved(b, dst, src, 0, len)
  <2>1. c = [x \in 0 .. n - 1 |-> c[x]]
    BY <1>8
  <2> QED BY <1>6, <1>7, <2>1
<1>10. c = Store(b, dst, [k \in 1 .. len |-> b[src + k - 1]])
  BY DEF c, text
<1> QED BY <1>5, <1>8, <1>9, <1>10, Zenon

(* What is known of the buffer between two calls: the last call has kept   *)
(* its contract.  It says more than CopiesRight only in that every byte is *)
(* a number: the buffer never takes over memory nobody wrote.              *)
BufferInv ==
  /\ mem \in [0 .. Cap - 1 -> Nat]
  /\ CutsAtSize
  /\ MovesAsIfCopied

LEMMA BufferStrings ==
  ASSUME NEW src \in Seqs(BufferBytes, MaxSrc)
  PROVE  src \in Seq(Nat \ {0})
<1>1. PICK n \in 0 .. MaxSrc : src \in [1 .. n -> BufferBytes]
  BY DEF Seqs
<1>2. n \in Nat /\ BufferBytes \subseteq Nat \ {0}
  BY CallsAssumption
<1>3. src \in [1 .. n -> Nat \ {0}]
  BY <1>1, <1>2
<1> QED BY <1>2, <1>3

(* ft_calloc leaves no byte uninitialised.                                 *)
LEMMA CallocZeroes ==
  ASSUME NEW n \in Nat
  PROVE  ft_calloc(1, n, FALSE) \in [0 .. n - 1 -> Nat]
<1> DEFINE zeroes == [k \in 1 .. n |-> 0 % 256]
           all == Nat \cup {UNINIT}
           b == malloc(n)
           c == Store(b, 0, zeroes)
<1>1. 1 * n = n /\ 0 % 256 = 0
  OBVIOUS
<1>2. ft_calloc(1, n, FALSE) = c
  BY <1>1 DEF ft_calloc, ft_bzero, ft_memset
<1>3. b \in [0 .. n - 1 -> all]
  BY DEF malloc
<1>4. zeroes \in Seq(all) /\ Len(zeroes) = n /\ \A k \in 1 .. n : zeroes[k] = 0
  BY <1>1
<1> HIDE DEF zeroes, b, all
<1>5. Stored(b, n, 0, zeroes, c, all)
  <2>1. 0 \in Nat /\ 0 + Len(zeroes) <= n
    BY <1>1, <1>4
  <2> QED BY <1>1, <1>3, <1>4, <2>1, StoreInside
<1> HIDE DEF c
<1>6. ASSUME NEW k \in 0 .. n - 1
      PROVE  c[k] \in Nat
  <2>1. c[k] = IF 0 <= k /\ k < 0 + Len(zeroes) THEN zeroes[k - 0 + 1] ELSE b[k]
    BY <1>5 DEF Stored
  <2>2. 0 <= k /\ k < 0 + Len(zeroes) /\ k - 0 + 1 \in 1 .. n
    BY <1>1, <1>4
  <2> QED BY <1>4, <2>1, <2>2
<1>7. c \in [0 .. n - 1 -> all]
  BY <1>5 DEF Stored
<1> QED BY <1>2, <1>6, <1>7

LEMMA BufferInit == Init => BufferInv
<1> SUFFICES ASSUME Init
             PROVE  BufferInv
  OBVIOUS
<1>1. mem = ft_calloc(1, Cap, FALSE) /\ last.op = "none"
  BY DEF Init
<1>2. ft_calloc(1, Cap, FALSE) \in [0 .. Cap - 1 -> Nat]
  BY CallocZeroes, CallsAssumption
<1>3. CutsAtSize /\ MovesAsIfCopied
  BY <1>1 DEF CutsAtSize, MovesAsIfCopied
<1> QED BY <1>1, <1>2, <1>3 DEF BufferInv

LEMMA StrlcpyStep ==
  ASSUME BufferInv, NEW src \in Seqs(BufferBytes, MaxSrc), NEW size \in 0 .. Cap,
         strlcpy(src, size)
  PROVE  BufferInv'
<1> DEFINE r == ft_strlcpy(mem, src, size)
<1>1. r.mem \in [0 .. Cap - 1 -> Nat] /\ CutRight(FALSE, mem, r.mem, src, size, r.ret)
  BY BufferStrings, CopyRight DEF BufferInv
<1>2. /\ mem' = r.mem
      /\ last' = [op |-> "strlcpy", before |-> mem, src |-> src, size |-> size, ret |-> r.ret]
  BY DEF strlcpy
<1> HIDE DEF r
<1>3. /\ last'.op = "strlcpy" /\ last'.before = mem /\ last'.src = src /\ last'.size = size
      /\ last'.ret = r.ret
  BY <1>2
<1>4. MovesAsIfCopied'
  BY <1>3 DEF MovesAsIfCopied
<1>5. CutsAtSize'
  <2>1. CutRight(FALSE, mem, mem', src, size, r.ret)
    BY <1>1, <1>2
  <2>2. ~(last'.op = "strlcat")
    BY <1>3
  <2> QED BY <1>3, <2>1, <2>2 DEF CutRight, CutsAtSize, is_string
<1> QED BY <1>1, <1>2, <1>4, <1>5 DEF BufferInv

LEMMA StrlcatStep ==
  ASSUME BufferInv, NEW src \in Seqs(BufferBytes, MaxSrc), NEW size \in 0 .. Cap,
         strlcat(src, size)
  PROVE  BufferInv'
<1> DEFINE r == ft_strlcat(mem, src, size)
<1>1. r.mem \in [0 .. Cap - 1 -> Nat] /\ CutRight(TRUE, mem, r.mem, src, size, r.ret)
  BY BufferStrings, CatRight DEF BufferInv, strlcat, is_string
<1>2. /\ mem' = r.mem
      /\ last' = [op |-> "strlcat", before |-> mem, src |-> src, size |-> size, ret |-> r.ret]
  BY DEF strlcat
<1> HIDE DEF r
<1>3. /\ last'.op = "strlcat" /\ last'.before = mem /\ last'.src = src /\ last'.size = size
      /\ last'.ret = r.ret
  BY <1>2
<1>4. MovesAsIfCopied'
  BY <1>3 DEF MovesAsIfCopied
<1>5. CutsAtSize'
  <2>1. CutRight(TRUE, mem, mem', src, size, r.ret)
    BY <1>1, <1>2
  <2> QED BY <1>3, <2>1 DEF CutRight, CutsAtSize, is_string
<1> QED BY <1>1, <1>2, <1>4, <1>5 DEF BufferInv

LEMMA MemmoveStep ==
  ASSUME BufferInv, NEW dst \in 0 .. Cap - 1, NEW src \in 0 .. Cap - 1,
         NEW len \in 0 .. Cap - Max({dst, src}), memmove(dst, src, len)
  PROVE  BufferInv'
<1>1. dst <= Max({dst, src}) /\ src <= Max({dst, src}) /\ Max({dst, src}) \in Nat
  <2>1. Cap \in Nat /\ {dst, src} \in SUBSET (0 .. Cap) /\ {dst, src} # {}
    BY CallsAssumption
  <2>2. Max({dst, src}) \in {dst, src} /\ \A y \in {dst, src} : y <= Max({dst, src})
    BY <2>1, MaxElement
  <2> QED BY <2>1, <2>2
<1> DEFINE w == Max({dst, src})
<1> HIDE DEF w
<1>2. len \in Nat /\ dst + len <= Cap /\ src + len <= Cap /\ Cap \in Nat
  <2>1. len \in 0 .. Cap - w /\ w \in Nat /\ dst <= w /\ src <= w /\ Cap \in Nat
    BY <1>1, CallsAssumption DEF w
  <2> QED BY <2>1
<1>3. Areas(Cap, mem, dst, src, len)
  BY <1>2 DEF Areas, BufferInv
<1>4. /\ ft_memmove(mem, dst, src, len) = Store(mem, dst, [k \in 1 .. len |-> mem[src + k - 1]])
      /\ ft_memmove(mem, dst, src, len) \in [0 .. Cap - 1 -> Nat]
  BY <1>3, MemmoveStores
<1>5. /\ mem' = ft_memmove(mem, dst, src, len)
      /\ last' = [op |-> "memmove", before |-> mem, dst |-> dst, src |-> src, len |-> len]
  BY DEF memmove
<1>6. /\ last'.op = "memmove" /\ last'.before = mem /\ last'.dst = dst /\ last'.src = src
      /\ last'.len = len
  BY <1>5
<1>7. CutsAtSize'
  BY <1>6 DEF CutsAtSize
<1>8. MovesAsIfCopied'
  BY <1>4, <1>5, <1>6, Zenon DEF MovesAsIfCopied
<1> QED BY <1>4, <1>5, <1>7, <1>8 DEF BufferInv

LEMMA MemsetStep ==
  ASSUME BufferInv, NEW p \in 0 .. Cap - 1, NEW c \in BufferBytes \cup {256},
         NEW len \in 0 .. Cap - p, memset(p, c, len)
  PROVE  BufferInv'
<1> DEFINE text == [k \in 1 .. len |-> c % 256]
<1>1. Cap \in Nat /\ p \in Nat /\ len \in Nat /\ p + len <= Cap /\ c % 256 \in Nat
  BY CallsAssumption
<1>2. text \in Seq(Nat) /\ Len(text) = len
  <2>1. text \in [1 .. len -> Nat]
    BY <1>1
  <2> QED BY <1>1, <2>1
<1>3. mem' = Store(mem, p, text) /\ last' = [op |-> "memset"]
  BY DEF memset, ft_memset
<1> HIDE DEF text
<1>4. Stored(mem, Cap, p, text, Store(mem, p, text), Nat)
  BY <1>1, <1>2, StoreInside DEF BufferInv
<1>5. mem' \in [0 .. Cap - 1 -> Nat]
  BY <1>3, <1>4 DEF Stored
<1>6. last'.op = "memset"
  BY <1>3
<1> QED BY <1>5, <1>6 DEF BufferInv, CutsAtSize, MovesAsIfCopied

(* The operations whose result CopiesRight, and SearchesRight, describe.   *)
BufferOps == {"strlcpy", "strlcat", "memmove"}
SearchOps == {"strnstr", "search", "strncmp", "memcmp", "classify"}

searches == strnstr \/ search \/ strncmp \/ memcmp \/ classify

(* A call of the strings program leaves the buffer alone.                  *)
LEMMA OtherCalls ==
  ASSUME strings_call \/ proceed
  PROVE  /\ mem' = mem
         /\ last'.op \notin BufferOps
         /\ last'.op \in SearchOps => searches
         /\ last'.op = "itoa" => itoa
<1> USE DEF BufferOps, SearchOps, searches
<1>1. CASE strings_call
  <2>1. CASE strmapi \/ striteri
    <3>1. CASE strmapi
      <4>1. mem' = mem /\ \E w, y, r :
             last' = [op |-> "strmapi", wanted |-> w, refused |-> y, result |-> r]
        BY <3>1, Zenon DEF strmapi
      <4> QED BY <4>1
    <3>2. CASE striteri
      <4>1. mem' = mem /\ \E w, y, r :
             last' = [op |-> "striteri", wanted |-> w, refused |-> y, result |-> r]
        BY <3>2, Zenon DEF striteri
      <4> QED BY <4>1
    <3> QED BY <2>1, <3>1, <3>2
  <2>2. classify => mem' = mem /\ last'.op = "classify"
    BY DEF classify
  <2>3. split => mem' = mem /\ last'.op = "split"
    BY DEF split
  <2>4. strtrim => mem' = mem /\ last'.op = "strtrim"
    BY DEF strtrim
  <2>5. substr => mem' = mem /\ last'.op = "substr"
    BY DEF substr
  <2>6. strdup => mem' = mem /\ last'.op = "strdup"
    BY DEF strdup
  <2>7. strjoin => mem' = mem /\ last'.op = "strjoin"
    BY DEF strjoin
  <2>8. itoa => mem' = mem /\ last'.op = "itoa"
    BY DEF itoa
  <2>9. strnstr => mem' = mem /\ last'.op = "strnstr"
    BY DEF strnstr
  <2>10. strncmp => mem' = mem /\ last'.op = "strncmp"
    BY DEF strncmp
  <2>11. memcmp => mem' = mem /\ last'.op = "memcmp"
    BY DEF memcmp
  <2>12. search => mem' = mem /\ last'.op = "search"
    BY DEF search
  <2> QED BY <1>1, <2>1, <2>2, <2>3, <2>4, <2>5, <2>6, <2>7, <2>8,
             <2>9, <2>10, <2>11, <2>12 DEF strings_call
<1>2. CASE proceed
  BY <1>2 DEF proceed
<1> QED BY <1>1, <1>2

LEMMA NextBuffer == BufferInv /\ [Next]_vars => BufferInv'
<1> SUFFICES ASSUME BufferInv, [Next]_vars
             PROVE  BufferInv'
  OBVIOUS
<1>1. ASSUME NEW src \in Seqs(BufferBytes, MaxSrc), NEW size \in 0 .. Cap,
             strlcpy(src, size) \/ strlcat(src, size)
      PROVE  BufferInv'
  BY <1>1, StrlcpyStep, StrlcatStep
<1>2. ASSUME NEW dst \in 0 .. Cap - 1, NEW src \in 0 .. Cap - 1,
             NEW len \in 0 .. Cap - Max({dst, src}), memmove(dst, src, len)
      PROVE  BufferInv'
  BY <1>2, MemmoveStep
<1>3. ASSUME NEW p \in 0 .. Cap - 1, NEW c \in BufferBytes \cup {256},
             NEW len \in 0 .. Cap - p, memset(p, c, len)
      PROVE  BufferInv'
  BY <1>3, MemsetStep
<1>4. CASE buffer_call
  BY <1>1, <1>2, <1>3, <1>4, Zenon DEF buffer_call
<1>5. CASE strings_call \/ proceed
  BY <1>5, OtherCalls DEF BufferOps, BufferInv, CutsAtSize, MovesAsIfCopied
<1>6. CASE UNCHANGED callVars
  BY <1>6 DEF callVars, BufferInv, CutsAtSize, MovesAsIfCopied, is_string
<1> QED BY <1>4, <1>5, <1>6 DEF Next, vars

(* However the copying functions follow one another on a buffer, and       *)
(* whatever its size: none stores behind it, ft_strlcpy and ft_strlcat cut *)
(* where the size they are told ends and say so, and ft_memmove moves as   *)
(* if through a copy.                                                      *)
THEOREM BufferKeepsContracts == Spec => []CopiesRight
<1>1. BufferInv => CopiesRight
  BY DEF BufferInv, CopiesRight, StaysInBuffer
<1> QED BY <1>1, BufferInit, NextBuffer, PTL DEF Spec

-----------------------------------------------------------------------------
(* The functions that only look                                            *)

Chars == 1 .. 255

(* The argument strings of the strings program.                            *)
LEMMA StringArguments ==
  ASSUME NEW n, NEW t \in Strings(n)
  PROVE  t \in Seq(Chars)
<1>1. PICK m \in 0 .. n : t \in [1 .. m -> Bytes]
  BY DEF Strings, Seqs
<1>2. m \in Nat /\ Bytes \subseteq Chars
  BY CallsAssumption DEF Chars
<1>3. t \in [1 .. m -> Chars]
  BY <1>1, <1>2
<1> QED BY <1>2, <1>3

-----------------------------------------------------------------------------
(* ft_strnstr *)

(* needle lies in t at k.                                                  *)
LEMMA LiesAt ==
  ASSUME NEW t \in Seq(Chars), NEW needle \in Seq(Chars), NEW k \in Nat,
         k + Len(needle) <= Len(t)
  PROVE  SubSeq(t, k + 1, k + Len(needle)) = needle
           <=> \A x \in 0 .. Len(needle) - 1 : byte(t, k + x) = byte(needle, x)
<1> DEFINE m == Len(needle)
           part == SubSeq(t, k + 1, k + m)
<1>1. m \in Nat /\ Len(t) \in Nat /\ k + m <= Len(t)
  OBVIOUS
<1>2. \A y \in k + 1 .. k + m : t[y] \in Chars
  BY <1>1
<1>3. /\ part \in Seq(Chars) /\ Len(part) = IF k + 1 <= k + m THEN (k + m) - (k + 1) + 1 ELSE 0
      /\ \A y \in 1 .. (k + m) - (k + 1) + 1 : part[y] = t[(k + 1) + y - 1]
  <2>1. k + 1 \in Int /\ k + m \in Int
    BY <1>1
  <2> HIDE DEF m
  <2> QED BY <1>2, <2>1, SubSeqProperties
<1>4. needle \in Seq(Chars) /\ m = Len(needle)
  OBVIOUS
<1> HIDE DEF m, part
<1>5. Len(part) = m /\ (k + m) - (k + 1) + 1 = m
  BY <1>1, <1>3
<1>6. \A x \in 0 .. m - 1 : byte(t, k + x) = part[x + 1] /\ byte(needle, x) = needle[x + 1]
  <2> TAKE x \in 0 .. m - 1
  <2>1. x + 1 \in 1 .. m /\ (k + 1) + (x + 1) - 1 = (k + x) + 1 /\ k + x < Len(t) /\ x < m
    BY <1>1
  <2>2. part[x + 1] = t[(k + x) + 1]
    BY <1>3, <1>5, <2>1
  <2> QED BY <1>4, <2>1, <2>2 DEF byte
<1>7. ASSUME \A x \in 0 .. m - 1 : byte(t, k + x) = byte(needle, x)
      PROVE  part = needle
  <2>1. ASSUME NEW y \in 1 .. m
        PROVE  part[y] = needle[y]
    <3>1. y - 1 \in 0 .. m - 1 /\ (y - 1) + 1 = y
      BY <1>1
    <3>2. byte(t, k + (y - 1)) = part[(y - 1) + 1] /\ byte(needle, y - 1) = needle[(y - 1) + 1]
          /\ byte(t, k + (y - 1)) = byte(needle, y - 1)
      BY <1>6, <1>7, <3>1
    <3> QED BY <3>1, <3>2
  <2> QED BY <1>3, <1>4, <1>5, <2>1, SameElements
<1>8. ASSUME part = needle
      PROVE  \A x \in 0 .. m - 1 : byte(t, k + x) = byte(needle, x)
  BY <1>6, <1>8
<1> QED BY <1>7, <1>8 DEF m, part

Places(t, needle, len) ==
  {k \in 0 .. Len(t) : /\ k + Len(needle) <= Min({len, Len(t)})
                       /\ SubSeq(t, k + 1, k + Len(needle)) = needle}

LEMMA NeedleFound ==
  ASSUME NEW t \in Seq(Chars), NEW needle \in Seq(Chars), NEW len \in Nat
  PROVE  ft_strnstr(t, needle, len)
           = IF needle = <<>> THEN 0
             ELSE IF Places(t, needle, len) = {} THEN NULL ELSE Min(Places(t, needle, len))
<1> DEFINE e == Min({len, Len(t)})
           m == Len(needle)
           stops(x, y) == \/ y = Len(needle)
                          \/ x + y >= Min({len, Len(t)})
                          \/ byte(t, x + y) # byte(needle, y)
           S(x) == {y \in 0 .. Len(needle) : stops(x, y)}
           found == {x \in 0 .. Min({len, Len(t)}) - 1 : Min(S(x)) = Len(needle)}
<1>1. /\ e \in Nat /\ e <= Len(t) /\ m \in Nat /\ Len(t) \in Nat
  BY MinOfTwo
<1>2. CASE needle = <<>>
  BY <1>2 DEF ft_strnstr
<1>3. CASE needle # <<>>
  <2>1. m > 0
    BY <1>3
  <2>2. ft_strnstr(t, needle, len) = IF found = {} THEN NULL ELSE Min(found)
    BY <1>3, Zenon DEF ft_strnstr
  <2>3. ASSUME NEW x \in 0 .. e - 1
        PROVE  Min(S(x)) = m
                 <=> x + m <= e /\ \A y \in 0 .. m - 1 : byte(t, x + y) = byte(needle, y)
    <3>1. S(x) \in SUBSET Nat /\ S(x) # {} /\ m \in S(x)
      BY <1>1
    <3>2. Min(S(x)) \in S(x) /\ \A y \in S(x) : Min(S(x)) <= y
      <4> HIDE DEF S
      <4> QED BY <3>1, MinElement
    <3> DEFINE a == Min(S(x))
    <3>3. a \in 0 .. m /\ \A y \in 0 .. m - 1 : y < a => ~stops(x, y)
      <4>1. a \in 0 .. m
        BY <3>2
      <4>2. ASSUME NEW y \in 0 .. m - 1, y < a, stops(x, y)
            PROVE  FALSE
        <5>1. y \in S(x)
          BY <1>1, <4>2
        <5> HIDE DEF S
        <5>2. a <= y
          BY <3>2, <5>1
        <5> QED BY <1>1, <4>1, <4>2, <5>2
      <4> HIDE DEF a, stops
      <4> QED BY <4>1, <4>2
    <3>4. a < m => x + a >= e \/ byte(t, x + a) # byte(needle, a)
      <4>1. a \in S(x)
        BY <3>2
      <4>2. a < m => a # m
        BY <1>1, <3>3
      <4> HIDE DEF a
      <4> QED BY <4>1, <4>2
    <3>5. \A y \in 0 .. m - 1 : ~stops(x, y) => x + y < e /\ byte(t, x + y) = byte(needle, y)
      BY <1>1
    <3> HIDE DEF a, stops, S, e, m
    <3>6. ASSUME a = m
          PROVE  x + m <= e /\ \A y \in 0 .. m - 1 : byte(t, x + y) = byte(needle, y)
      <4>1. \A y \in 0 .. m - 1 : x + y < e /\ byte(t, x + y) = byte(needle, y)
        <5> TAKE y \in 0 .. m - 1
        <5>1. y < a
          BY <1>1, <3>6
        <5> QED BY <3>3, <3>5, <5>1
      <4>2. m - 1 \in 0 .. m - 1
        BY <1>1, <2>1 DEF m
      <4>3. x + (m - 1) < e
        BY <4>1, <4>2
      <4> QED BY <1>1, <4>1, <4>3
    <3>7. ASSUME x + m <= e, \A y \in 0 .. m - 1 : byte(t, x + y) = byte(needle, y)
          PROVE  a = m
      <4>1. CASE a < m
        <5>1. a \in 0 .. m - 1 /\ ~(x + a >= e)
          BY <1>1, <3>3, <3>7, <4>1
        <5> QED BY <3>4, <3>7, <4>1, <5>1
      <4> QED BY <1>1, <3>3, <4>1
    <3> QED BY <3>6, <3>7 DEF a
  <2>4. found \subseteq Places(t, needle, len)
    <3> SUFFICES ASSUME NEW x \in found
                 PROVE  x \in Places(t, needle, len)
      OBVIOUS
    <3>1. x \in 0 .. e - 1 /\ Min(S(x)) = m
      OBVIOUS
    <3> HIDE DEF S, e, m, found
    <3>2. x + m <= e /\ \A y \in 0 .. m - 1 : byte(t, x + y) = byte(needle, y)
      BY <2>3, <3>1
    <3>3. x \in Nat /\ x \in 0 .. Len(t) /\ x + m <= Len(t)
      BY <1>1, <3>1, <3>2
    <3>4. SubSeq(t, x + 1, x + Len(needle)) = needle
      BY <3>2, <3>3, LiesAt DEF m
    <3> QED BY <3>2, <3>3, <3>4 DEF Places, e, m
  <2>5. Places(t, needle, len) \subseteq found
    <3> SUFFICES ASSUME NEW x \in Places(t, needle, len)
                 PROVE  x \in found
      OBVIOUS
    <3>1. x \in 0 .. Len(t) /\ x + m <= e /\ SubSeq(t, x + 1, x + Len(needle)) = needle
      BY DEF Places
    <3> HIDE DEF S, e, m
    <3>2. x \in 0 .. e - 1 /\ x \in Nat /\ x + m <= Len(t)
      BY <1>1, <2>1, <3>1
    <3>3. \A y \in 0 .. m - 1 : byte(t, x + y) = byte(needle, y)
      BY <3>1, <3>2, LiesAt DEF m
    <3>4. Min(S(x)) = m
      BY <2>3, <3>1, <3>2, <3>3
    <3> QED BY <3>2, <3>4 DEF e, m
  <2> HIDE DEF found, e, m, S, stops
  <2>6. found = Places(t, needle, len)
    BY <2>4, <2>5
  <2> QED BY <1>3, <2>2, <2>6, Zenon
<1> QED BY <1>2, <1>3

-----------------------------------------------------------------------------
(* ft_strchr, ft_strrchr and ft_memchr *)

(* Where c is in t and its 0, and where in t.                              *)
CharPlaces(t, c) == {k \in 0 .. Len(t) : (t \o <<0>>)[k + 1] = c}

Within(t, c) == {k \in 0 .. Len(t) - 1 : t[k + 1] = c}

LEMMA TextBytes ==
  ASSUME NEW t \in Seq(Chars), NEW c \in 0 .. 255
  PROVE  /\ CharPlaces(t, c) = {k \in 0 .. Len(t) : byte(t, k) = c}
         /\ Within(t, c) = CharPlaces(t, c) \ {Len(t)}
         /\ c = 0 => CharPlaces(t, c) = {Len(t)}
         /\ c # 0 => CharPlaces(t, c) = Within(t, c)
<1> DEFINE text == t \o <<0>>
<1>1. Len(t) \in Nat /\ \A k \in 1 .. Len(t) : t[k] \in Chars
  OBVIOUS
<1>2. t \in Seq(0 .. 255) /\ <<0>> \in Seq(0 .. 255) /\ Len(<<0>>) = 1 /\ <<0>>[1] = 0
  <2>1. \A k \in 1 .. Len(t) : t[k] \in 0 .. 255
    BY <1>1 DEF Chars
  <2>2. t \in Seq(0 .. 255)
    <3> DEFINE B == 0 .. 255
    <3>1. t = [k \in 1 .. Len(t) |-> t[k]] /\ \A k \in 1 .. Len(t) : t[k] \in B
      BY <2>1
    <3> HIDE DEF B
    <3>2. t \in [1 .. Len(t) -> B]
      BY <3>1
    <3>3. t \in Seq(B)
      BY <1>1, <3>2
    <3> QED BY <3>3 DEF B
  <2>3. <<0>> \in Seq(0 .. 255)
    OBVIOUS
  <2>4. Len(<<0>>) = 1 /\ <<0>>[1] = 0
    OBVIOUS
  <2> QED BY <2>2, <2>3, <2>4, Zenon
<1>3. /\ \A k \in 1 .. Len(t) : text[k] = t[k]
      /\ \A k \in 1 .. Len(<<0>>) : text[Len(t) + k] = <<0>>[k]
  BY <1>2, ConcatElements
<1> HIDE DEF text
<1>4. text[Len(t) + 1] = 0
  <2>1. 1 \in 1 .. Len(<<0>>)
    BY <1>2
  <2>2. text[Len(t) + 1] = <<0>>[1]
    BY <1>3, <2>1
  <2> QED BY <1>2, <2>2, Zenon
<1>5. ASSUME NEW k \in 0 .. Len(t)
      PROVE  /\ text[k + 1] = byte(t, k)
             /\ k < Len(t) => byte(t, k) = t[k + 1] /\ t[k + 1] # 0
             /\ k = Len(t) => byte(t, k) = 0
  <2>1. CASE k < Len(t)
    <3>1. k + 1 \in 1 .. Len(t) /\ k # Len(t)
      BY <1>1, <2>1
    <3>2. text[k + 1] = t[k + 1] /\ t[k + 1] \in Chars
      BY <1>1, <1>3, <3>1
    <3>3. byte(t, k) = t[k + 1]
      BY <2>1 DEF byte
    <3>4. t[k + 1] # 0
      <4> DEFINE x == t[k + 1]
      <4>1. x \in 1 .. 255
        BY <3>2 DEF Chars
      <4> HIDE DEF x
      <4>2. x # 0
        BY <4>1
      <4> QED BY <4>2 DEF x
    <3> QED BY <3>1, <3>2, <3>3, <3>4, Zenon
  <2>2. CASE k = Len(t)
    <3>1. ~(k < Len(t))
      BY <1>1, <2>2
    <3> QED BY <1>4, <2>2, <3>1 DEF byte
  <2> QED BY <1>1, <2>1, <2>2
<1>6. CharPlaces(t, c) = {k \in 0 .. Len(t) : text[k + 1] = c}
  BY DEF CharPlaces, text
<1>7. CharPlaces(t, c) = {k \in 0 .. Len(t) : byte(t, k) = c}
  BY <1>5, <1>6
<1>8. Within(t, c) = {k \in 0 .. Len(t) : k < Len(t) /\ byte(t, k) = c}
  <2>1. \A k : k \in 0 .. Len(t) - 1 <=> k \in 0 .. Len(t) /\ k < Len(t)
    BY <1>1
  <2> QED BY <1>5, <2>1 DEF Within
<1>9. Len(t) \in 0 .. Len(t) /\ \A k \in 0 .. Len(t) : k < Len(t) <=> k # Len(t)
  BY <1>1
<1> QED BY <1>5, <1>7, <1>8, <1>9

(* ft_strchr and ft_strrchr compare plain chars: below 128 as they should. *)
LEMMA SearchFinds ==
  ASSUME NEW t \in Seq(Chars), NEW c \in 0 .. 255
  PROVE  /\ c < 128 =>
              /\ ft_strchr(t, c) = IF CharPlaces(t, c) = {} THEN NULL ELSE Min(CharPlaces(t, c))
              /\ ft_strrchr(t, c) = IF CharPlaces(t, c) = {} THEN NULL ELSE Max(CharPlaces(t, c))
         /\ ft_memchr(t, c, Len(t)) = IF Within(t, c) = {} THEN NULL ELSE Min(Within(t, c))
<1> DEFINE found == {k \in 0 .. Len(t) : char(byte(t, k)) = c % 256}
           final == {k \in 0 .. Len(t) - 1 : char(t[k + 1]) = c % 256}
           plain_found == {k \in 0 .. Len(t) - 1 : t[k + 1] = c % 256}
<1>1. c % 256 = c /\ Len(t) \in Nat /\ \A k \in 1 .. Len(t) : t[k] \in Chars
  OBVIOUS
<1>2. \A b \in 0 .. 255 : c < 128 => (char(b) = c <=> b = c)
  BY DEF char
<1>3. \A k \in 0 .. Len(t) : byte(t, k) \in 0 .. 255
  <2> TAKE k \in 0 .. Len(t)
  <2>1. k < Len(t) => k + 1 \in 1 .. Len(t)
    BY <1>1
  <2> QED BY <1>1, <2>1 DEF byte, Chars
<1>4. \A k \in 0 .. Len(t) - 1 : t[k + 1] \in 0 .. 255
  <2> TAKE k \in 0 .. Len(t) - 1
  <2>1. k + 1 \in 1 .. Len(t)
    BY <1>1
  <2> QED BY <1>1, <2>1 DEF Chars
<1>5. ASSUME c < 128
      PROVE  found = CharPlaces(t, c) /\ final = Within(t, c)
  <2>1. found = {k \in 0 .. Len(t) : byte(t, k) = c}
    BY <1>1, <1>2, <1>3, <1>5
  <2>2. final = Within(t, c)
    BY <1>1, <1>2, <1>4, <1>5 DEF Within
  <2> HIDE DEF found, final
  <2> QED BY <2>1, <2>2, TextBytes
<1>6. plain_found = Within(t, c)
  BY <1>1 DEF Within
<1>7. /\ ft_strchr(t, c) = IF found = {} THEN NULL ELSE Min(found)
      /\ ft_strrchr(t, c) = IF c = 0 THEN Len(t) ELSE IF final = {} THEN NULL ELSE Max(final)
      /\ ft_memchr(t, c, Len(t)) = IF plain_found = {} THEN NULL ELSE Min(plain_found)
  BY Zenon DEF ft_strchr, ft_strrchr, ft_memchr
<1> HIDE DEF found, final, plain_found
<1>8. ASSUME c < 128
      PROVE  ft_strrchr(t, c) = IF CharPlaces(t, c) = {} THEN NULL ELSE Max(CharPlaces(t, c))
  <2>1. CASE c = 0
    <3>1. CharPlaces(t, c) = {Len(t)}
      BY <2>1, TextBytes
    <3>2. Max({Len(t)}) = Len(t)
      <4>1. {Len(t)} \in SUBSET (0 .. Len(t)) /\ {Len(t)} # {}
        BY <1>1
      <4>2. Max({Len(t)}) \in {Len(t)}
        BY <1>1, <4>1, MaxElement
      <4> QED BY <4>2
    <3> QED BY <1>7, <2>1, <3>1, <3>2
  <2>2. CASE c # 0
    <3>1. final = CharPlaces(t, c)
      BY <1>5, <1>8, <2>2, TextBytes
    <3> QED BY <1>7, <2>2, <3>1, Zenon
  <2> QED BY <2>1, <2>2
<1> QED BY <1>5, <1>6, <1>7, <1>8, Zenon

-----------------------------------------------------------------------------
(* ft_strncmp and ft_memcmp *)

(* a and b agree in their first d elements and in no further.              *)
AgreeUpTo(a, b, d) ==
  /\ d \in Nat /\ d <= Len(a) /\ d <= Len(b)
  /\ \A k \in 1 .. d : a[k] = b[k]
  /\ d = Len(a) \/ d = Len(b) \/ a[d + 1] # b[d + 1]

LEMMA CommonLength ==
  ASSUME NEW S, NEW a \in Seq(S), NEW b \in Seq(S), NEW d, AgreeUpTo(a, b, d)
  PROVE  Len(LongestCommonPrefix({a, b})) = d
<1> DEFINE CP == CommonPrefixes({a, b})
           p == SubSeq(a, 1, d)
           L == LongestCommonPrefix({a, b})
<1>1. /\ d \in Nat /\ d \in 0 .. Len(a) /\ d \in 0 .. Len(b) /\ Len(a) \in Nat /\ Len(b) \in Nat
      /\ \A k \in 1 .. d : a[k] = b[k]
      /\ d = Len(a) \/ d = Len(b) \/ a[d + 1] # b[d + 1]
  BY DEF AgreeUpTo
<1>2. \A x : x \in CP <=> (x \in Prefixes(a) \/ x \in Prefixes(b)) /\ IsPrefix(x, a) /\ IsPrefix(x, b)
  BY DEF CommonPrefixes
<1>3. p \in Seq(S) /\ Len(p) = d /\ \A k \in 1 .. d : p[k] = a[k]
  BY <1>1, PrefixElements
<1>4. p \in CP
  <2> DEFINE q == SubSeq(b, 1, d)
             pp == SubSeq(p, 1, d)
  <2>1. q \in Seq(S) /\ Len(q) = d /\ \A k \in 1 .. d : q[k] = b[k]
    BY <1>1, PrefixElements
  <2>2. pp \in Seq(S) /\ Len(pp) = d /\ \A k \in 1 .. d : pp[k] = p[k]
    <3> HIDE DEF p
    <3>1. d \in 0 .. Len(p)
      BY <1>1, <1>3
    <3> QED BY <1>3, <3>1, PrefixElements
  <2>3. p \in Prefixes(a)
    BY <1>1 DEF Prefixes
  <2>4. SubSeq(p, 1, Len(p)) = pp /\ SubSeq(a, 1, Len(p)) = p /\ SubSeq(b, 1, Len(p)) = q
    <3>1. Len(p) = d
      BY <1>3
    <3> QED BY <3>1, Zenon
  <2> HIDE DEF p, q, pp
  <2>5. pp = p
    BY <1>3, <2>2, SameElements
  <2>6. p = q
    BY <1>1, <1>3, <2>1, SameElements
  <2>7. IsPrefix(p, a) /\ IsPrefix(p, b)
    BY <1>1, <1>3, <2>4, <2>5, <2>6 DEF IsPrefix
  <2> QED BY <1>2, <2>3, <2>7
<1>5. ASSUME NEW x \in CP
      PROVE  Len(x) \in Nat /\ Len(x) <= d
  <2> DEFINE l == Len(x)
  <2>1. x \in Seq(S) /\ IsPrefix(x, a) /\ IsPrefix(x, b)
    <3>1. ASSUME NEW s1 \in Seq(S), x \in Prefixes(s1)
          PROVE  x \in Seq(S)
      <4>1. PICK m \in 0 .. Len(s1) : x = SubSeq(s1, 1, m)
        BY <3>1 DEF Prefixes
      <4> QED BY <4>1, PrefixElements
    <3> HIDE DEF CP
    <3> QED BY <1>2, <3>1
  <2>2. l \in Nat /\ l <= Len(a) /\ l <= Len(b)
    BY <2>1 DEF IsPrefix
  <2>3. SubSeq(a, 1, l) = SubSeq(b, 1, l)
    BY <2>1, Zenon DEF IsPrefix
  <2> HIDE DEF l
  <2>4. \A k \in 1 .. l : a[k] = b[k]
    <3> TAKE k \in 1 .. l
    <3>1. l \in 0 .. Len(a) /\ l \in 0 .. Len(b)
      BY <1>1, <2>2
    <3>2. SubSeq(a, 1, l)[k] = a[k] /\ SubSeq(b, 1, l)[k] = b[k]
      BY <3>1, PrefixElements
    <3> QED BY <2>3, <3>2
  <2>5. ~(d < l)
    <3> SUFFICES ASSUME d < l
                 PROVE  FALSE
      OBVIOUS
    <3>1. d + 1 \in 1 .. l /\ d # Len(a) /\ d # Len(b)
      BY <1>1, <2>2
    <3> QED BY <1>1, <2>4, <3>1
  <2> QED BY <1>1, <2>2, <2>5 DEF l
<1>6. L \in CP /\ \A x \in CP : Len(x) <= Len(L)
  <2> HIDE DEF CP, p
  <2>1. \A x \in CP : Len(x) <= Len(p)
    BY <1>3, <1>5
  <2>2. L = CHOOSE x \in CP : \A y \in CP : Len(y) <= Len(x)
    BY Zenon DEF LongestCommonPrefix, CP
  <2> HIDE DEF L
  <2> QED BY <1>4, <2>1, <2>2
<1> HIDE DEF CP, p, L
<1>7. Len(L) \in Nat /\ Len(L) <= d /\ d <= Len(L)
  <2>1. Len(p) <= Len(L)
    BY <1>4, <1>6
  <2> QED BY <1>3, <1>5, <1>6, <2>1
<1> QED BY <1>1, <1>7 DEF L

Less(a, b) ==
  LET common == Len(LongestCommonPrefix({a, b}))
      less(x, y) == x # y /\ (common = Len(x) \/ (common < Len(y) /\ x[common + 1] < y[common + 1]))
  IN  less(a, b)

(* What a comparison returns that comes to the first d bytes and finds     *)
(* them equal.                                                             *)
Compares(a, b, d, r) ==
  \/ d = Len(a) /\ d = Len(b) /\ r = 0
  \/ byte(a, d) # byte(b, d) /\ r = byte(a, d) - byte(b, d)

LEMMA ComparesRight ==
  ASSUME NEW a \in Seq(Chars), NEW b \in Seq(Chars), NEW d, AgreeUpTo(a, b, d),
         NEW r, Compares(a, b, d, r)
  PROVE  (r = 0 <=> a = b) /\ (r < 0 <=> Less(a, b))
<1> DEFINE c == Len(LongestCommonPrefix({a, b}))
<1>1. c = d
  BY CommonLength
<1> HIDE DEF c
<1>2. /\ d \in Nat /\ d <= Len(a) /\ d <= Len(b) /\ Len(a) \in Nat /\ Len(b) \in Nat
      /\ \A k \in 1 .. d : a[k] = b[k]
  BY DEF AgreeUpTo
<1>3. Less(a, b) <=> a # b /\ (d = Len(a) \/ (d < Len(b) /\ a[d + 1] < b[d + 1]))
  BY <1>1, Zenon DEF Less, c
<1>4. \A x \in Seq(Chars) : d < Len(x) => byte(x, d) = x[d + 1] /\ x[d + 1] \in Nat /\ x[d + 1] > 0
  <2> SUFFICES ASSUME NEW x \in Seq(Chars), d < Len(x)
               PROVE  byte(x, d) = x[d + 1] /\ x[d + 1] \in Nat /\ x[d + 1] > 0
    OBVIOUS
  <2>1. Len(x) \in Nat /\ \A k \in 1 .. Len(x) : x[k] \in Chars
    OBVIOUS
  <2>2. d + 1 \in 1 .. Len(x)
    BY <1>2, <2>1
  <2>3. x[d + 1] \in Chars
    BY <2>1, <2>2
  <2>4. x[d + 1] \in Nat /\ x[d + 1] > 0
    <3> DEFINE y == x[d + 1]
    <3>1. y \in 1 .. 255
      BY <2>3 DEF Chars
    <3> HIDE DEF y
    <3>2. y \in Nat /\ y > 0
      BY <3>1
    <3> QED BY <3>2 DEF y
  <2> QED BY <2>4 DEF byte
<1>5. \A x \in Seq(Chars) : d = Len(x) => byte(x, d) = 0
  BY DEF byte
<1>6. CASE d = Len(a) /\ d = Len(b) /\ r = 0
  <2>1. a = b
    BY <1>2, <1>6, SameElements
  <2> QED BY <1>3, <1>6, <2>1
<1>7. CASE byte(a, d) # byte(b, d) /\ r = byte(a, d) - byte(b, d)
  <2> DEFINE x == byte(a, d)
             y == byte(b, d)
  <2>1. a # b
    BY <1>7
  <2>2. /\ x \in Nat /\ y \in Nat
        /\ d = Len(a) => x = 0
        /\ d = Len(b) => y = 0
        /\ d < Len(a) => x = a[d + 1] /\ x > 0
        /\ d < Len(b) => y = b[d + 1] /\ y > 0
    <3>1. d = Len(a) \/ d < Len(a)
      BY <1>2
    <3>2. d = Len(b) \/ d < Len(b)
      BY <1>2
    <3>3. /\ d = Len(a) => x = 0
          /\ d < Len(a) => x = a[d + 1] /\ x \in Nat /\ x > 0
      BY <1>4, <1>5, Zenon
    <3>4. /\ d = Len(b) => y = 0
          /\ d < Len(b) => y = b[d + 1] /\ y \in Nat /\ y > 0
      BY <1>4, <1>5, Zenon
    <3> HIDE DEF x, y
    <3> QED BY <3>1, <3>2, <3>3, <3>4
  <2>3. x # y /\ r = x - y
    BY <1>7
  <2> HIDE DEF x, y
  <2>4. r # 0 /\ (r < 0 <=> x < y)
    BY <2>2, <2>3
  <2>5. x < y <=> d = Len(a) \/ (d < Len(b) /\ a[d + 1] < b[d + 1])
    <3>1. CASE d = Len(a)
      BY <2>2, <2>3, <3>1
    <3>2. CASE d < Len(a) /\ d = Len(b)
      BY <1>2, <2>2, <2>3, <3>2
    <3>3. CASE d < Len(a) /\ d < Len(b)
      BY <1>2, <2>2, <2>3, <3>3
    <3> QED BY <1>2, <3>1, <3>2, <3>3
  <2> QED BY <1>3, <2>1, <2>4, <2>5
<1> QED BY <1>6, <1>7 DEF Compares

Cut(t, n) == SubSeq(t, 1, Min({n, Len(t)}))

(* The first n characters of t, and its bytes below n.                     *)
LEMMA CutBytes ==
  ASSUME NEW t \in Seq(Chars), NEW n \in Nat
  PROVE  /\ Cut(t, n) \in Seq(Chars) /\ Len(Cut(t, n)) = IF n <= Len(t) THEN n ELSE Len(t)
         /\ \A k \in 0 .. n - 1 : byte(Cut(t, n), k) = byte(t, k)
         /\ \A k \in 1 .. Len(Cut(t, n)) : Cut(t, n)[k] = t[k] /\ Cut(t, n)[k] = byte(t, k - 1)
<1> DEFINE e == Min({n, Len(t)})
           u == SubSeq(t, 1, e)
<1>1. Len(t) \in Nat /\ e = IF n <= Len(t) THEN n ELSE Len(t)
  BY MinOfTwo
<1> HIDE DEF e
<1>2. e \in 0 .. Len(t) /\ e <= n
  BY <1>1
<1>3. u \in Seq(Chars) /\ Len(u) = e /\ \A k \in 1 .. e : u[k] = t[k]
  BY <1>2, PrefixElements
<1>4. Cut(t, n) = u
  BY DEF Cut, e
<1> HIDE DEF u
<1>5. ASSUME NEW k \in 0 .. n - 1
      PROVE  byte(u, k) = byte(t, k)
  <2>1. CASE k < e
    <3>1. k + 1 \in 1 .. e /\ k < Len(t)
      BY <1>2, <2>1
    <3> QED BY <1>3, <2>1, <3>1 DEF byte
  <2>2. CASE ~(k < e)
    <3>1. ~(k < Len(t))
      BY <1>1, <1>2, <2>2
    <3> QED BY <1>3, <2>2, <3>1 DEF byte
  <2> QED BY <2>1, <2>2
<1>6. ASSUME NEW k \in 1 .. e
      PROVE  u[k] = t[k] /\ u[k] = byte(t, k - 1)
  <2>1. k - 1 < Len(t) /\ (k - 1) + 1 = k
    BY <1>2
  <2> QED BY <1>3, <2>1 DEF byte
<1> QED BY <1>1, <1>3, <1>4, <1>5, <1>6

(* A byte is 0 just behind the end.                                        *)
LEMMA ByteZero ==
  ASSUME NEW t \in Seq(Chars), NEW k \in Nat
  PROVE  byte(t, k) \in Nat /\ (byte(t, k) = 0 <=> k >= Len(t))
<1>1. Len(t) \in Nat /\ \A x \in 1 .. Len(t) : t[x] \in Chars
  OBVIOUS
<1>2. CASE k < Len(t)
  <2> DEFINE y == t[k + 1]
  <2>1. k + 1 \in 1 .. Len(t)
    BY <1>1, <1>2
  <2>2. y \in 1 .. 255
    BY <1>1, <2>1 DEF Chars
  <2>3. byte(t, k) = y
    BY <1>2 DEF byte
  <2> HIDE DEF y
  <2> QED BY <1>1, <1>2, <2>2, <2>3
<1>3. CASE ~(k < Len(t))
  <2>1. byte(t, k) = 0
    BY <1>3 DEF byte
  <2> QED BY <1>1, <1>3, <2>1
<1> QED BY <1>2, <1>3

(* Where two strings differ first among their first n bytes, if they do.   *)
FirstDifference(s1, s2, n, end, d) ==
  /\ d \in 0 .. end /\ \A k \in 0 .. d - 1 : byte(s1, k) = byte(s2, k)
  /\ d < end => byte(s1, d) # byte(s2, d)
  /\ end <= n
  /\ end < n => byte(s1, end) = 0 /\ byte(s2, end) = 0

LEMMA DifferenceCompares ==
  ASSUME NEW s1 \in Seq(Chars), NEW s2 \in Seq(Chars), NEW n \in Nat, NEW end \in Nat, NEW d,
         FirstDifference(s1, s2, n, end, d), NEW r,
         r = IF d < end THEN byte(s1, d) - byte(s2, d) ELSE 0
  PROVE  (r = 0 <=> Cut(s1, n) = Cut(s2, n)) /\ (r < 0 <=> Less(Cut(s1, n), Cut(s2, n)))
<1> DEFINE a == Cut(s1, n)
           b == Cut(s2, n)
<1>1. /\ a \in Seq(Chars) /\ Len(a) = IF n <= Len(s1) THEN n ELSE Len(s1)
      /\ \A k \in 0 .. n - 1 : byte(a, k) = byte(s1, k)
      /\ \A k \in 1 .. Len(a) : a[k] = byte(s1, k - 1)
  BY CutBytes
<1>2. /\ b \in Seq(Chars) /\ Len(b) = IF n <= Len(s2) THEN n ELSE Len(s2)
      /\ \A k \in 0 .. n - 1 : byte(b, k) = byte(s2, k)
      /\ \A k \in 1 .. Len(b) : b[k] = byte(s2, k - 1)
  BY CutBytes
<1>3. Len(s1) \in Nat /\ Len(s2) \in Nat /\ Len(a) \in Nat /\ Len(b) \in Nat
  BY <1>1, <1>2
<1> HIDE DEF a, b
<1>4. /\ d \in Nat /\ d <= end /\ end <= n
      /\ \A k \in 0 .. d - 1 : byte(s1, k) = byte(s2, k)
      /\ d < end => byte(s1, d) # byte(s2, d)
      /\ end < n => byte(s1, end) = 0 /\ byte(s2, end) = 0
  BY DEF FirstDifference
<1>5. \A k \in Nat : (byte(s1, k) = 0 <=> k >= Len(s1)) /\ (byte(s2, k) = 0 <=> k >= Len(s2))
  BY ByteZero
<1>6. CASE d < end
  <2>1. d \in 0 .. n - 1 /\ byte(a, d) = byte(s1, d) /\ byte(b, d) = byte(s2, d)
    BY <1>1, <1>2, <1>4, <1>6
  <2>2. d <= Len(s1) /\ d <= Len(s2)
    <3>1. ASSUME Len(s1) < d
          PROVE  FALSE
      <4>1. Len(s1) \in 0 .. d - 1
        BY <1>3, <1>4, <3>1
      <4>2. byte(s1, Len(s1)) = 0 /\ byte(s1, Len(s1)) = byte(s2, Len(s1))
        BY <1>3, <1>4, <1>5, <4>1
      <4>3. Len(s1) >= Len(s2)
        BY <1>3, <1>5, <4>2
      <4>4. byte(s1, d) = 0 /\ byte(s2, d) = 0
        BY <1>3, <1>4, <1>5, <3>1, <4>3
      <4> QED BY <1>4, <1>6, <4>4
    <3>2. ASSUME Len(s2) < d
          PROVE  FALSE
      <4>1. Len(s2) \in 0 .. d - 1
        BY <1>3, <1>4, <3>2
      <4>2. byte(s2, Len(s2)) = 0 /\ byte(s1, Len(s2)) = byte(s2, Len(s2))
        BY <1>3, <1>4, <1>5, <4>1
      <4>3. Len(s2) >= Len(s1)
        BY <1>3, <1>5, <4>2
      <4>4. byte(s1, d) = 0 /\ byte(s2, d) = 0
        BY <1>3, <1>4, <1>5, <3>2, <4>3
      <4> QED BY <1>4, <1>6, <4>4
    <3> QED BY <1>3, <1>4, <3>1, <3>2
  <2>3. d <= Len(a) /\ d <= Len(b)
    BY <1>1, <1>2, <1>3, <1>4, <1>6, <2>2
  <2>4. \A k \in 1 .. d : a[k] = b[k]
    <3> TAKE k \in 1 .. d
    <3>1. k - 1 \in 0 .. d - 1 /\ k \in 1 .. Len(a) /\ k \in 1 .. Len(b)
      BY <1>3, <1>4, <2>3
    <3> QED BY <1>1, <1>2, <1>4, <3>1
  <2>5. d = Len(a) \/ d = Len(b) \/ a[d + 1] # b[d + 1]
    <3>1. CASE d < Len(a) /\ d < Len(b)
      <4>1. d + 1 \in 1 .. Len(a) /\ d + 1 \in 1 .. Len(b) /\ (d + 1) - 1 = d
        BY <1>3, <1>4, <3>1
      <4>2. a[d + 1] = byte(s1, d) /\ b[d + 1] = byte(s2, d)
        BY <1>1, <1>2, <4>1
      <4> QED BY <1>4, <1>6, <4>2
    <3> QED BY <1>3, <1>4, <2>3, <3>1
  <2>6. AgreeUpTo(a, b, d)
    BY <1>4, <2>3, <2>4, <2>5 DEF AgreeUpTo
  <2>7. Compares(a, b, d, r)
    BY <1>4, <1>6, <2>1 DEF Compares
  <2>8. (r = 0 <=> a = b) /\ (r < 0 <=> Less(a, b))
    BY <1>1, <1>2, <2>6, <2>7, ComparesRight
  <2> QED BY <2>8 DEF a, b
<1>7. CASE d = end
  <2>1. Len(a) = Len(b)
    <3>1. CASE end = n
      <4>1. \A k \in 0 .. n - 1 : byte(s1, k) = byte(s2, k)
        BY <1>4, <1>7, <3>1
      <4>2. ASSUME Len(s1) < n
            PROVE  Len(s1) >= Len(s2)
        <5>1. Len(s1) \in 0 .. n - 1 /\ byte(s1, Len(s1)) = 0
          BY <1>3, <1>5, <4>2
        <5> QED BY <1>3, <1>5, <4>1, <5>1
      <4>3. ASSUME Len(s2) < n
            PROVE  Len(s2) >= Len(s1)
        <5>1. Len(s2) \in 0 .. n - 1 /\ byte(s2, Len(s2)) = 0
          BY <1>3, <1>5, <4>3
        <5> QED BY <1>3, <1>5, <4>1, <5>1
      <4> QED BY <1>1, <1>2, <1>3, <4>2, <4>3
    <3>2. CASE end < n
      <4>1. end >= Len(s1) /\ end >= Len(s2)
        BY <1>4, <1>5, <3>2
      <4>2. ASSUME Len(s1) < end
            PROVE  Len(s1) >= Len(s2)
        <5>1. Len(s1) \in 0 .. d - 1 /\ byte(s1, Len(s1)) = 0
          BY <1>3, <1>5, <1>7, <4>2
        <5> QED BY <1>3, <1>4, <1>5, <5>1
      <4>3. ASSUME Len(s2) < end
            PROVE  Len(s2) >= Len(s1)
        <5>1. Len(s2) \in 0 .. d - 1 /\ byte(s2, Len(s2)) = 0
          BY <1>3, <1>5, <1>7, <4>3
        <5> QED BY <1>3, <1>4, <1>5, <5>1
      <4> QED BY <1>1, <1>2, <1>3, <3>2, <4>1, <4>2, <4>3
    <3> QED BY <1>4, <3>1, <3>2
  <2>2. ASSUME NEW k \in 1 .. Len(a)
        PROVE  a[k] = b[k]
    <3>1. a[k] = byte(s1, k - 1) /\ b[k] = byte(s2, k - 1) /\ k - 1 \in Nat
      BY <1>1, <1>2, <1>3, <2>1
    <3>2. k - 1 < end
      <4>1. k - 1 < n /\ k - 1 < Len(s1)
        BY <1>1, <1>3
      <4>2. end < n => end >= Len(s1)
        BY <1>4, <1>5
      <4> QED BY <1>3, <1>4, <4>1, <4>2
    <3>3. byte(s1, k - 1) = byte(s2, k - 1)
      BY <1>4, <1>7, <3>1, <3>2
    <3> QED BY <3>1, <3>3
  <2>3. a = b
    BY <1>1, <1>2, <2>1, <2>2, SameElements
  <2>4. r = 0
    BY <1>4, <1>7
  <2>5. ~Less(a, b)
    BY <2>3 DEF Less
  <2>6. (r = 0 <=> a = b) /\ (r < 0 <=> Less(a, b))
    BY <2>3, <2>4, <2>5
  <2> QED BY <2>6 DEF a, b
<1> QED BY <1>4, <1>6, <1>7

(* The indices from 0 to end - 1 at which the bytes differ, and the least  *)
(* of them.                                                                *)
Differ(s1, s2, end) == {k \in 0 .. end - 1 : byte(s1, k) # byte(s2, k)}

FirstDiffer(s1, s2, end) ==
  IF Differ(s1, s2, end) = {} THEN end ELSE Min(Differ(s1, s2, end))

LEMMA LeastDifference ==
  ASSUME NEW s1, NEW s2, NEW end \in Nat,
         NEW differ, differ = Differ(s1, s2, end), NEW d, d = FirstDiffer(s1, s2, end)
  PROVE  /\ d \in 0 .. end /\ \A k \in 0 .. d - 1 : byte(s1, k) = byte(s2, k)
         /\ d < end <=> differ # {}
         /\ d < end => byte(s1, d) # byte(s2, d)
<1> USE DEF Differ, FirstDiffer
<1>1. CASE differ = {}
  BY <1>1
<1>2. CASE differ # {}
  <2>1. differ \in SUBSET Nat
    OBVIOUS
  <2>2. d \in differ /\ \A k \in differ : d <= k
    BY <1>2, <2>1, MinElement
  <2>3. d \in 0 .. end - 1 /\ byte(s1, d) # byte(s2, d)
    BY <2>2
  <2>4. ASSUME NEW k \in 0 .. d - 1
        PROVE  byte(s1, k) = byte(s2, k)
    <3>1. k \in 0 .. end - 1 /\ ~(d <= k)
      BY <2>3
    <3> QED BY <2>2, <3>1
  <2> QED BY <1>2, <2>3, <2>4
<1> QED BY <1>1, <1>2

LEMMA StrncmpRight ==
  ASSUME NEW s1 \in Seq(Chars), NEW s2 \in Seq(Chars), NEW n \in Nat,
         NEW r, r = ft_strncmp(s1, s2, n)
  PROVE  (r = 0 <=> Cut(s1, n) = Cut(s2, n)) /\ (r < 0 <=> Less(Cut(s1, n), Cut(s2, n)))
<1> DEFINE w == Max({Len(s1), Len(s2)})
           end == Min({n, w})
           differ == Differ(s1, s2, end)
           d == FirstDiffer(s1, s2, end)
<1>1. r = IF differ = {} THEN 0 ELSE byte(s1, Min(differ)) - byte(s2, Min(differ))
  BY Zenon DEF ft_strncmp, Differ
<1>2. w \in Nat /\ Len(s1) <= w /\ Len(s2) <= w
  <2> DEFINE o == Len(s1)
             m == Len(s2)
  <2>1. o \in Nat /\ m \in Nat
    OBVIOUS
  <2> HIDE DEF o, m
  <2>2. {o, m} \in SUBSET (0 .. o + m) /\ {o, m} # {} /\ o + m \in Nat
    BY <2>1
  <2>3. Max({o, m}) \in {o, m} /\ \A y \in {o, m} : y <= Max({o, m})
    BY <2>2, MaxElement
  <2>4. Max({o, m}) \in Nat /\ o <= Max({o, m}) /\ m <= Max({o, m})
    BY <2>1, <2>3
  <2> QED BY <2>4 DEF o, m
<1> HIDE DEF w
<1>3. end = IF n <= w THEN n ELSE w
  BY <1>2, MinOfTwo
<1> HIDE DEF end
<1>4. end \in Nat /\ end <= n /\ (end < n => end >= Len(s1) /\ end >= Len(s2))
  BY <1>2, <1>3
<1>5. /\ d \in 0 .. end /\ \A k \in 0 .. d - 1 : byte(s1, k) = byte(s2, k)
      /\ d < end <=> differ # {}
      /\ d < end => byte(s1, d) # byte(s2, d)
  <2> HIDE DEF d, differ
  <2>1. d = FirstDiffer(s1, s2, end) /\ differ = Differ(s1, s2, end)
    BY DEF d, differ
  <2> QED BY <1>4, <2>1, LeastDifference
<1>6. differ # {} => d = Min(differ)
  BY DEF FirstDiffer
<1> HIDE DEF d, differ
<1>7. end < n => byte(s1, end) = 0 /\ byte(s2, end) = 0
  BY <1>4, ByteZero
<1>8. FirstDifference(s1, s2, n, end, d)
  BY <1>4, <1>5, <1>7 DEF FirstDifference
<1>9. r = IF d < end THEN byte(s1, d) - byte(s2, d) ELSE 0
  BY <1>1, <1>5, <1>6
<1> QED BY <1>4, <1>8, <1>9, DifferenceCompares

LEMMA MemcmpRight ==
  ASSUME NEW s1 \in Seq(Chars), NEW s2 \in Seq(Chars), NEW n \in Nat,
         n <= Len(s1), n <= Len(s2), NEW r, r = ft_memcmp(s1, s2, n)
  PROVE  (r = 0 <=> Cut(s1, n) = Cut(s2, n)) /\ (r < 0 <=> Less(Cut(s1, n), Cut(s2, n)))
<1> DEFINE differ == {k \in 1 .. n : s1[k] # s2[k]}
           d == IF differ = {} THEN n ELSE Min(differ) - 1
<1>1. r = IF differ = {} THEN 0 ELSE s1[Min(differ)] - s2[Min(differ)]
  BY Zenon DEF ft_memcmp
<1>2. ASSUME NEW k \in 0 .. n - 1
      PROVE  byte(s1, k) = s1[k + 1] /\ byte(s2, k) = s2[k + 1]
  <2>1. Len(s1) \in Nat /\ Len(s2) \in Nat
    OBVIOUS
  <2>2. k < Len(s1) /\ k < Len(s2)
    BY <2>1
  <2> QED BY <2>2 DEF byte
<1>3. CASE differ = {}
  <2>1. \A k \in 0 .. n - 1 : byte(s1, k) = byte(s2, k)
    <3> TAKE k \in 0 .. n - 1
    <3>1. k + 1 \in 1 .. n
      OBVIOUS
    <3> QED BY <1>2, <1>3, <3>1
  <2>2. FirstDifference(s1, s2, n, n, n)
    BY <2>1 DEF FirstDifference
  <2>3. r = IF n < n THEN byte(s1, n) - byte(s2, n) ELSE 0
    BY <1>1, <1>3
  <2> QED BY <2>2, <2>3, DifferenceCompares
<1>4. CASE differ # {}
  <2> DEFINE m == Min(differ)
  <2>1. differ \in SUBSET Nat
    OBVIOUS
  <2>2. m \in differ /\ \A k \in differ : m <= k
    <3> HIDE DEF differ
    <3> QED BY <1>4, <2>1, MinElement
  <2> HIDE DEF m
  <2>3. m \in 1 .. n /\ m - 1 \in 0 .. n - 1 /\ (m - 1) + 1 = m /\ s1[m] # s2[m]
    BY <2>2
  <2>4. ASSUME NEW k \in 0 .. (m - 1) - 1
        PROVE  byte(s1, k) = byte(s2, k)
    <3>1. k \in 0 .. n - 1 /\ k + 1 \in 1 .. n /\ ~(m <= k + 1)
      BY <2>3
    <3>2. s1[k + 1] = s2[k + 1]
      BY <2>2, <3>1
    <3> QED BY <1>2, <3>1, <3>2
  <2>5. byte(s1, m - 1) = s1[m] /\ byte(s2, m - 1) = s2[m]
    BY <1>2, <2>3
  <2>6. FirstDifference(s1, s2, n, n, m - 1)
    BY <2>3, <2>4, <2>5 DEF FirstDifference
  <2>7. r = IF m - 1 < n THEN byte(s1, m - 1) - byte(s2, m - 1) ELSE 0
    <3>1. m - 1 < n
      BY <2>3
    <3> QED BY <1>1, <1>4, <2>5, <3>1 DEF m
  <2>8. m - 1 \in Int
    BY <2>3
  <2> HIDE DEF differ
  <2> QED BY <2>6, <2>7, DifferenceCompares
<1> QED BY <1>3, <1>4

-----------------------------------------------------------------------------
(* The character classes, for every plain char, unsigned char and EOF.     *)
LEMMA ClassesRight ==
  ASSUME NEW c \in -128 .. 255
  PROVE  /\ ft_toupper(c) # ft_tolower(c) <=> ft_isascii(c) /\ ft_isalpha(c)
         /\ c \in {ft_toupper(ft_tolower(c)), ft_tolower(ft_toupper(c))}
         /\ ft_isalpha(c) <=> ft_isalpha(ft_toupper(c)) /\ ~ft_isdigit(c)
         /\ ft_isalnum(c) \/ c = 32 => ft_isprint(c)
         /\ ft_isprint(c) /\ c >= 0 => ft_isascii(c) /\ c # 127
<1>1. CASE c < 0
  <2>1. c % 256 = c + 256 /\ (c + 256) % 256 = c + 256
    BY <1>1
  <2> QED BY <1>1, <2>1 DEF ft_toupper, ft_tolower, ft_isascii, ft_isalpha, ft_isdigit, ft_isalnum, ft_isprint
<1>2. CASE c >= 0
  <2>1. c % 256 = c
    BY <1>2
  <2>2. c \in 97 .. 122 => (c - 32) % 256 = c - 32
    OBVIOUS
  <2> QED BY <1>2, <2>1, <2>2 DEF ft_toupper, ft_tolower, ft_isascii, ft_isalpha, ft_isdigit, ft_isalnum, ft_isprint
<1> QED BY <1>1, <1>2

-----------------------------------------------------------------------------
LEMMA StrnstrStep == strnstr => SearchesRight'
<1> SUFFICES ASSUME strnstr
             PROVE  SearchesRight'
  OBVIOUS
<1>1. PICK t \in Strings(4), needle \in Strings(3), len \in 0 .. 5 :
        last' = [op |-> "strnstr", s |-> t, needle |-> needle, len |-> len,
                 result |-> ft_strnstr(t, needle, len)]
  BY DEF strnstr
<1>2. /\ last'.op = "strnstr" /\ last'.s = t /\ last'.needle = needle /\ last'.len = len
      /\ last'.result = ft_strnstr(t, needle, len)
  BY <1>1
<1>3. t \in Seq(Chars) /\ needle \in Seq(Chars) /\ len \in Nat
  BY StringArguments
<1>4. ft_strnstr(t, needle, len)
        = IF needle = <<>> THEN 0
          ELSE IF Places(t, needle, len) = {} THEN NULL ELSE Min(Places(t, needle, len))
  BY <1>3, NeedleFound
<1>5. FindsTheMatch'
  BY <1>2, <1>4, Zenon DEF FindsTheMatch, Places
<1> QED BY <1>2, <1>5 DEF SearchesRight, OrdersByFirstDifference, ClassesFitTogether

LEMMA SearchStep == search => SearchesRight'
<1> SUFFICES ASSUME search
             PROVE  SearchesRight'
  OBVIOUS
<1>1. PICK t \in Strings(MaxLen), c \in Bytes \cup {0} :
        last' = [op |-> "search", s |-> t, c |-> c, first |-> ft_strchr(t, c),
                 final |-> ft_strrchr(t, c), mem |-> ft_memchr(t, c, Len(t))]
  BY DEF search
<1>2. /\ last'.op = "search" /\ last'.s = t /\ last'.c = c /\ last'.first = ft_strchr(t, c)
      /\ last'.final = ft_strrchr(t, c) /\ last'.mem = ft_memchr(t, c, Len(t))
  BY <1>1
<1>3. t \in Seq(Chars) /\ c \in 0 .. 255
  BY StringArguments, CallsAssumption
<1>4. /\ c < 128 =>
           /\ ft_strchr(t, c) = IF CharPlaces(t, c) = {} THEN NULL ELSE Min(CharPlaces(t, c))
           /\ ft_strrchr(t, c) = IF CharPlaces(t, c) = {} THEN NULL ELSE Max(CharPlaces(t, c))
      /\ ft_memchr(t, c, Len(t)) = IF Within(t, c) = {} THEN NULL ELSE Min(Within(t, c))
      /\ Within(t, c) = CharPlaces(t, c) \ {Len(t)}
  BY <1>3, SearchFinds, TextBytes
<1>5. FindsTheMatch'
  BY <1>2, <1>4, Zenon DEF FindsTheMatch, CharPlaces
<1> QED BY <1>2, <1>5 DEF SearchesRight, OrdersByFirstDifference, ClassesFitTogether

LEMMA CompareStep == strncmp \/ memcmp => SearchesRight'
<1> SUFFICES ASSUME strncmp \/ memcmp
             PROVE  SearchesRight'
  OBVIOUS
<1>1. \E s1, s2, n, r :
        /\ \E op \in {"strncmp", "memcmp"} :
             last' = [op |-> op, s1 |-> s1, s2 |-> s2, n |-> n, result |-> r]
        /\ r = 0 <=> Cut(s1, n) = Cut(s2, n)
        /\ r < 0 <=> Less(Cut(s1, n), Cut(s2, n))
  <2>1. CASE strncmp
    <3>1. PICK s1 \in Strings(3), s2 \in Strings(3), n \in 0 .. 4 :
            last' = [op |-> "strncmp", s1 |-> s1, s2 |-> s2, n |-> n,
                     result |-> ft_strncmp(s1, s2, n)]
      BY <2>1 DEF strncmp
    <3> DEFINE r == ft_strncmp(s1, s2, n)
    <3>2. (r = 0 <=> Cut(s1, n) = Cut(s2, n)) /\ (r < 0 <=> Less(Cut(s1, n), Cut(s2, n)))
      BY StringArguments, StrncmpRight
    <3> HIDE DEF r
    <3> QED BY <3>1, <3>2 DEF r
  <2>2. CASE memcmp
    <3>1. PICK s1 \in Strings(3), s2 \in Strings(3) :
            \E n \in 0 .. Min({Len(s1), Len(s2)}) :
              last' = [op |-> "memcmp", s1 |-> s1, s2 |-> s2, n |-> n,
                       result |-> ft_memcmp(s1, s2, n)]
      BY <2>2 DEF memcmp
    <3>2. PICK n \in 0 .. Min({Len(s1), Len(s2)}) :
            last' = [op |-> "memcmp", s1 |-> s1, s2 |-> s2, n |-> n,
                     result |-> ft_memcmp(s1, s2, n)]
      BY <3>1
    <3> DEFINE r == ft_memcmp(s1, s2, n)
    <3>3. n \in Nat /\ n <= Len(s1) /\ n <= Len(s2) /\ s1 \in Seq(Chars) /\ s2 \in Seq(Chars)
      <4>1. s1 \in Seq(Chars) /\ s2 \in Seq(Chars)
        BY StringArguments
      <4>2. Len(s1) \in Nat /\ Len(s2) \in Nat
        BY <4>1
      <4>3. Min({Len(s1), Len(s2)}) = IF Len(s1) <= Len(s2) THEN Len(s1) ELSE Len(s2)
        BY <4>2, MinOfTwo
      <4> DEFINE e == Min({Len(s1), Len(s2)})
      <4>4. n \in 0 .. e
        OBVIOUS
      <4> HIDE DEF e
      <4> QED BY <4>1, <4>2, <4>3, <4>4 DEF e
    <3>4. (r = 0 <=> Cut(s1, n) = Cut(s2, n)) /\ (r < 0 <=> Less(Cut(s1, n), Cut(s2, n)))
      BY <3>3, MemcmpRight
    <3> HIDE DEF r
    <3> QED BY <3>2, <3>4 DEF r
  <2> QED BY <2>1, <2>2
<1>2. PICK s1, s2, n, r :
        /\ \E op \in {"strncmp", "memcmp"} :
             last' = [op |-> op, s1 |-> s1, s2 |-> s2, n |-> n, result |-> r]
        /\ r = 0 <=> Cut(s1, n) = Cut(s2, n)
        /\ r < 0 <=> Less(Cut(s1, n), Cut(s2, n))
  BY <1>1
<1>3. /\ last'.op \in {"strncmp", "memcmp"} /\ last'.s1 = s1 /\ last'.s2 = s2 /\ last'.n = n
      /\ last'.result = r
  BY <1>2
<1>4. OrdersByFirstDifference'
  BY <1>2, <1>3, Zenon DEF OrdersByFirstDifference, Cut, Less
<1> QED BY <1>3, <1>4 DEF SearchesRight, FindsTheMatch, ClassesFitTogether

LEMMA ClassifyStep == classify => SearchesRight'
<1> SUFFICES ASSUME classify
             PROVE  SearchesRight'
  OBVIOUS
<1>1. PICK c \in -128 .. 255 : last' = [op |-> "classify", c |-> c]
  BY DEF classify
<1>2. last'.op = "classify" /\ last'.c = c
  BY <1>1
<1>3. ClassesFitTogether'
  BY <1>2, ClassesRight DEF ClassesFitTogether
<1> QED BY <1>2, <1>3 DEF SearchesRight, FindsTheMatch, OrdersByFirstDifference

(* A call of the buffer program is one of its four.                        *)
LEMMA BufferCalls ==
  ASSUME buffer_call
  PROVE  last'.op \in BufferOps \cup {"memset"}
<1> DEFINE named == last'.op \in BufferOps \cup {"memset"}
<1>1. ASSUME NEW src, NEW size, strlcpy(src, size) \/ strlcat(src, size)
      PROVE  named
  BY <1>1 DEF strlcpy, strlcat, BufferOps
<1>2. ASSUME NEW dst, NEW src, NEW len, memmove(dst, src, len)
      PROVE  named
  BY <1>2 DEF memmove, BufferOps
<1>3. ASSUME NEW p, NEW c, NEW len, memset(p, c, len)
      PROVE  named
  BY <1>3 DEF memset, BufferOps
<1>4. named
  <2> HIDE DEF named
  <2> QED BY <1>1, <1>2, <1>3, Zenon DEF buffer_call
<1> QED BY <1>4

(* The calls that SearchesRight says nothing about.                        *)
LEMMA NoSearch ==
  ASSUME buffer_call \/ strings_call \/ proceed, ~searches
  PROVE  last'.op \notin SearchOps
<1>1. CASE buffer_call
  BY <1>1, BufferCalls DEF BufferOps, SearchOps
<1>2. CASE strings_call \/ proceed
  BY <1>2, OtherCalls
<1> QED BY <1>1, <1>2

LEMMA NextSearches == SearchesRight /\ [Next]_vars => SearchesRight'
<1> SUFFICES ASSUME SearchesRight, [Next]_vars
             PROVE  SearchesRight'
  OBVIOUS
<1>1. CASE searches
  BY <1>1, StrnstrStep, SearchStep, CompareStep, ClassifyStep DEF searches
<1>2. CASE (buffer_call \/ strings_call \/ proceed) /\ ~searches
  BY <1>2, NoSearch DEF SearchOps, SearchesRight, FindsTheMatch, OrdersByFirstDifference, ClassesFitTogether
<1>3. CASE UNCHANGED callVars
  <2>1. last' = last
    BY <1>3 DEF callVars
  <2>2. FindsTheMatch' = FindsTheMatch
    BY <2>1, Zenon DEF FindsTheMatch
  <2>3. OrdersByFirstDifference' = OrdersByFirstDifference
    BY <2>1, Zenon DEF OrdersByFirstDifference
  <2>4. ClassesFitTogether' = ClassesFitTogether
    BY <2>1, Zenon DEF ClassesFitTogether
  <2> QED BY <2>2, <2>3, <2>4 DEF SearchesRight
<1> QED BY <1>1, <1>2, <1>3 DEF Next, vars

(* For strings of any length over any characters: ft_strnstr, ft_strchr,   *)
(* ft_strrchr and ft_memchr find what they are asked for, ft_strncmp and   *)
(* ft_memcmp order by the first byte that differs, and the character       *)
(* classes fit together for every plain char, unsigned char and EOF.       *)
THEOREM SearchesFind == Spec => []SearchesRight
<1>1. Init => SearchesRight
  BY DEF Init, SearchesRight, FindsTheMatch, OrdersByFirstDifference, ClassesFitTogether
<1> QED BY <1>1, NextSearches, PTL DEF Spec

-----------------------------------------------------------------------------
(* ft_printf *)

(* The powers of a number, one from the one before.                        *)
LEMMA PowerSteps ==
  ASSUME NEW b \in Nat
  PROVE  /\ power(b, 0) = 1
         /\ \A n \in Nat : power(b, n) \in Nat /\ power(b, n + 1) = b * power(b, n)
<1> DEFINE A == Nat
           B == Nat \ {0}
           M == [v \in A |-> v]
           P == [v \in B |-> v - 1]
           D == [v \in B |-> [t \in Nat |-> b * t]]
           C == [v \in A \ B |-> 1]
           Power(f) == f = [k \in Nat |-> IF k = 0 THEN 1 ELSE b * f[k - 1]]
<1>1. \A v \in B : v - 1 \in Nat /\ v - 1 < v
  OBVIOUS
<1>2. \A t \in Nat : b * t \in Nat
  OBVIOUS
<1>3. PICK f \in [A -> Nat] : \A v \in A : f[v] = IF v \in B THEN D[v][f[P[v]]] ELSE C[v]
  <2>1. B \in SUBSET A /\ M \in [A -> Nat] /\ P \in [B -> A] /\ \A v \in B : M[P[v]] < M[v]
    BY <1>1
  <2>2. D \in [B -> [Nat -> Nat]]
    <3> HIDE DEF B
    <3> QED BY <1>2
  <2>3. C \in [A \ B -> Nat]
    OBVIOUS
  <2> HIDE DEF A, B, M, P, C, D
  <2>4. Recursion(A, Nat, B, M, P, C, D)
    BY <2>1, <2>2, <2>3 DEF Recursion
  <2> QED BY <2>4, RecursiveFunction
<1>4. ASSUME NEW k \in Nat
      PROVE  f[k] = IF k = 0 THEN 1 ELSE b * f[k - 1]
  <2>1. CASE k = 0
    BY <1>3, <2>1
  <2>2. CASE k # 0
    <3>1. k \in B /\ P[k] = k - 1 /\ k - 1 \in A
      BY <2>2
    <3>2. D[k] = [t \in Nat |-> b * t] /\ f[k - 1] \in Nat
      BY <1>3, <3>1
    <3>3. f[k] = D[k][f[k - 1]]
      <4> HIDE DEF B, D, P, C
      <4> QED BY <1>3, <3>1
    <3> QED BY <2>2, <3>2, <3>3
  <2> QED BY <2>1, <2>2
<1>5. Power(f)
  <2>1. f = [k \in Nat |-> f[k]]
    BY <1>3
  <2> QED BY <1>4, <2>1
<1> DEFINE g == CHOOSE h : Power(h)
<1>6. Power(g)
  <2> HIDE DEF Power
  <2> QED BY <1>5, Zenon
<1>7. \A n : power(b, n) = g[n]
  BY Zenon DEF power
<1> HIDE DEF g
<1>8. \A k \in Nat : g[k] = IF k = 0 THEN 1 ELSE b * g[k - 1]
  BY <1>6
<1> HIDE DEF Power
<1> DEFINE T == {k \in Nat : g[k] \in Nat}
<1>9. T = Nat
  <2>1. 0 \in T
    BY <1>8
  <2>2. ASSUME NEW k \in T
        PROVE  k + 1 \in T
    <3>1. g[k + 1] = b * g[k] /\ g[k] \in Nat
      BY <1>8
    <3> QED BY <1>2, <3>1
  <2> HIDE DEF T
  <2> QED BY <2>1, <2>2, Induction DEF T
<1>10. ASSUME NEW n \in Nat
       PROVE  g[n] \in Nat /\ g[n + 1] = b * g[n]
  BY <1>8, <1>9
<1> QED BY <1>7, <1>8, <1>10


Bases == {10, 16}

(* Division by a base; the provers need the number itself, not a name.     *)
LEMMA BaseDivision ==
  ASSUME NEW b \in Bases, NEW n \in Nat
  PROVE  /\ n \div b \in Nat /\ n % b \in 0 .. b - 1 /\ n = b * (n \div b) + (n % b)
         /\ n >= b => n \div b < n /\ n \div b >= 1
         /\ n < b => n \div b = 0 /\ n % b = n
<1>1. CASE b = 10
  <2> DEFINE q == n \div 10
             r == n % 10
  <2>1. q \in Nat /\ r \in 0 .. 9 /\ n = 10 * q + r
    OBVIOUS
  <2> HIDE DEF q, r
  <2>2. (n >= 10 => q < n /\ q >= 1) /\ (n < 10 => q = 0 /\ r = n)
    BY <2>1
  <2> QED BY <1>1, <2>1, <2>2 DEF q, r
<1>2. CASE b = 16
  <2> DEFINE q == n \div 16
             r == n % 16
  <2>1. q \in Nat /\ r \in 0 .. 15 /\ n = 16 * q + r
    OBVIOUS
  <2> HIDE DEF q, r
  <2>2. (n >= 16 => q < n /\ q >= 1) /\ (n < 16 => q = 0 /\ r = n)
    BY <2>1
  <2> QED BY <1>2, <2>1, <2>2 DEF q, r
<1> QED BY <1>1, <1>2 DEF Bases

(* ft_numlen_base counts one digit at a time.                              *)
LEMMA NumLenSteps ==
  ASSUME NEW b \in Bases
  PROVE  \A n \in Nat : /\ ft_numlen_base(n, b) \in Nat
                        /\ ft_numlen_base(n, b) =
                             IF n >= b THEN 1 + ft_numlen_base(n \div b, b) ELSE 1
<1> DEFINE A == Nat
           B == {n \in Nat : n >= b}
           M == [v \in A |-> v]
           P == [v \in B |-> v \div b]
           D == [v \in B |-> [t \in Nat |-> 1 + t]]
           C == [v \in A \ B |-> 1]
           Length(f) == f = [m \in Nat |-> IF m >= b THEN 1 + f[m \div b] ELSE 1]
<1>1. \A v \in B : v \div b \in Nat /\ v \div b < v
  BY BaseDivision
<1>2. PICK f \in [A -> Nat] : \A v \in A : f[v] = IF v \in B THEN D[v][f[P[v]]] ELSE C[v]
  <2>1. B \in SUBSET A /\ M \in [A -> Nat] /\ P \in [B -> A] /\ \A v \in B : M[P[v]] < M[v]
    BY <1>1
  <2>2. D \in [B -> [Nat -> Nat]]
    <3> HIDE DEF B
    <3> QED OBVIOUS
  <2>3. C \in [A \ B -> Nat]
    OBVIOUS
  <2> HIDE DEF A, B, M, P, C, D
  <2>4. Recursion(A, Nat, B, M, P, C, D)
    BY <2>1, <2>2, <2>3 DEF Recursion
  <2> QED BY <2>4, RecursiveFunction
<1>3. ASSUME NEW m \in Nat
      PROVE  f[m] = IF m >= b THEN 1 + f[m \div b] ELSE 1
  <2>1. CASE ~(m >= b)
    BY <1>2, <2>1
  <2>2. CASE m >= b
    <3>1. m \in B /\ P[m] = m \div b /\ m \div b \in A
      BY <1>1, <2>2
    <3>2. D[m] = [t \in Nat |-> 1 + t] /\ f[m \div b] \in Nat
      <4> HIDE DEF P, C
      <4> QED BY <1>2, <3>1
    <3>3. f[m] = D[m][f[m \div b]]
      <4> HIDE DEF B, D, P, C
      <4> QED BY <1>2, <3>1
    <3> QED BY <2>2, <3>2, <3>3
  <2> QED BY <2>1, <2>2
<1>4. Length(f)
  <2>1. f = [m \in Nat |-> f[m]]
    BY <1>2
  <2> QED BY <1>3, <2>1
<1> DEFINE g == CHOOSE h : Length(h)
<1>5. Length(g)
  <2> HIDE DEF Length
  <2> QED BY <1>4, Zenon
<1>6. \A n : ft_numlen_base(n, b) = g[n]
  BY Zenon DEF ft_numlen_base
<1> HIDE DEF g
<1>7. \A m \in Nat : g[m] = IF m >= b THEN 1 + g[m \div b] ELSE 1
  BY <1>5
<1> HIDE DEF Length
<1> DEFINE T == {m \in Nat : g[m] \in Nat}
<1>8. ASSUME NEW v \in Nat, \A x \in 0 .. v - 1 : x \in T
      PROVE  v \in T
  <2>1. CASE ~(v >= b)
    BY <1>7, <2>1
  <2>2. CASE v >= b
    <3> DEFINE q == v \div b
    <3>1. q \in 0 .. v - 1
      BY <1>1, <2>2
    <3>2. g[v] = 1 + g[q]
      BY <1>7, <2>2
    <3> HIDE DEF q
    <3>3. g[q] \in Nat
      BY <1>8, <3>1
    <3> QED BY <3>2, <3>3
  <2> QED BY <2>1, <2>2
<1>9. T = Nat
  <2>1. T \in SUBSET Nat
    OBVIOUS
  <2> HIDE DEF T
  <2>2. Progressive(T)
    BY <1>8, <2>1 DEF Progressive
  <2> QED BY <2>2, CompleteInduction
<1> QED BY <1>6, <1>7, <1>9

IsBase(base, S) == base \in Seq(S) /\ Len(base) \in Bases

(* digits_of puts the last digit behind the others.                        *)
LEMMA DigitSteps ==
  ASSUME NEW S, NEW base, IsBase(base, S)
  PROVE  \A n \in Nat :
           /\ digits_of(n, base) \in Seq(S)
           /\ base[(n % Len(base)) + 1] \in S
           /\ digits_of(n, base) =
                IF n >= Len(base)
                THEN digits_of(n \div Len(base), base) \o <<base[(n % Len(base)) + 1]>>
                ELSE <<base[n + 1]>>
<1> DEFINE b == Len(base)
           A == Nat
           B == {n \in Nat : n >= b}
           digit(n) == <<base[(n % b) + 1]>>
           M == [v \in A |-> v]
           P == [v \in B |-> v \div b]
           D == [v \in B |-> [t \in Seq(S) |-> t \o digit(v)]]
           C == [v \in A \ B |-> <<>> \o digit(v)]
           Put(f) == f = [m \in Nat |-> (IF m >= b THEN f[m \div b] ELSE <<>>) \o digit(m)]
<1>1. \A v \in Nat : /\ v \div b \in Nat /\ v % b \in 0 .. b - 1
                     /\ v >= b => v \div b < v
                     /\ v < b => v % b = v
  BY BaseDivision DEF IsBase
<1>2. b \in Nat /\ b > 0 /\ \A k \in 1 .. b : base[k] \in S
  BY DEF IsBase, Bases
<1>3. \A v \in Nat : base[(v % b) + 1] \in S /\ digit(v) \in Seq(S)
  <2>1. ASSUME NEW v \in Nat
        PROVE  base[(v % b) + 1] \in S
    <3> DEFINE d == v % b
    <3>1. d \in 0 .. b - 1
      BY <1>1
    <3> HIDE DEF d, b
    <3>2. d + 1 \in 1 .. b
      BY <1>2, <3>1
    <3> QED BY <1>2, <3>2 DEF d
  <2> QED BY <2>1
<1> HIDE DEF b, digit
<1>4. \A t \in Seq(S), v \in Nat : t \o digit(v) \in Seq(S)
  BY <1>3, ConcatProperties
<1>5. <<>> \in Seq(S)
  OBVIOUS
<1>6. PICK f \in [A -> Seq(S)] : \A v \in A : f[v] = IF v \in B THEN D[v][f[P[v]]] ELSE C[v]
  <2>1. B \in SUBSET A /\ M \in [A -> Nat] /\ P \in [B -> A] /\ \A v \in B : M[P[v]] < M[v]
    BY <1>1
  <2>2. D \in [B -> [Seq(S) -> Seq(S)]]
    <3>1. B \subseteq Nat
      OBVIOUS
    <3> HIDE DEF B
    <3> QED BY <1>4, <3>1
  <2>3. C \in [A \ B -> Seq(S)]
    <3>1. \A v \in A \ B : <<>> \o digit(v) \in Seq(S)
      BY <1>4, <1>5
    <3> HIDE DEF A, B
    <3> QED BY <3>1
  <2> HIDE DEF A, B, M, P, C, D
  <2>4. Recursion(A, Seq(S), B, M, P, C, D)
    BY <2>1, <2>2, <2>3 DEF Recursion
  <2> QED BY <2>4, RecursiveFunction
<1>7. ASSUME NEW m \in Nat
      PROVE  f[m] = (IF m >= b THEN f[m \div b] ELSE <<>>) \o digit(m)
  <2>1. CASE ~(m >= b)
    <3>1. m \in A \ B
      BY <2>1
    <3>2. f[m] = C[m]
      <4> HIDE DEF B, D, P, C
      <4> QED BY <1>6, <3>1
    <3>3. C[m] = <<>> \o digit(m)
      <4> HIDE DEF A, B
      <4> QED BY <3>1
    <3> QED BY <2>1, <3>2, <3>3
  <2>2. CASE m >= b
    <3>1. m \in B /\ P[m] = m \div b /\ m \div b \in A
      BY <1>1, <2>2
    <3>2. D[m] = [t \in Seq(S) |-> t \o digit(m)] /\ f[m \div b] \in Seq(S)
      <4> HIDE DEF P, C, B
      <4> QED BY <1>6, <3>1
    <3>3. f[m] = D[m][f[m \div b]]
      <4> HIDE DEF B, D, P, C
      <4> QED BY <1>6, <3>1
    <3> QED BY <2>2, <3>2, <3>3
  <2> QED BY <2>1, <2>2
<1>8. Put(f)
  <2>1. f = [m \in Nat |-> f[m]]
    BY <1>6
  <2> QED BY <1>7, <2>1
<1> DEFINE g == CHOOSE h : Put(h)
<1>9. Put(g)
  <2> HIDE DEF Put
  <2> QED BY <1>8, Zenon
<1>10. \A n : digits_of(n, base) = g[n]
  BY Zenon DEF digits_of, b, digit
<1> HIDE DEF g
<1>11. \A m \in Nat : g[m] = (IF m >= b THEN g[m \div b] ELSE <<>>) \o digit(m)
  BY <1>9
<1> HIDE DEF Put
<1> DEFINE T == {m \in Nat : g[m] \in Seq(S)}
<1>12. ASSUME NEW v \in Nat, \A x \in 0 .. v - 1 : x \in T
       PROVE  v \in T
  <2>1. CASE ~(v >= b)
    BY <1>4, <1>5, <1>11, <2>1
  <2>2. CASE v >= b
    <3> DEFINE q == v \div b
    <3>1. q \in 0 .. v - 1
      BY <1>1, <2>2
    <3>2. g[v] = g[q] \o digit(v)
      BY <1>11, <2>2
    <3> HIDE DEF q
    <3>3. g[q] \in Seq(S)
      BY <1>12, <3>1
    <3> QED BY <1>4, <3>2, <3>3
  <2> QED BY <2>1, <2>2
<1>13. T = Nat
  <2>1. T \in SUBSET Nat
    OBVIOUS
  <2> HIDE DEF T
  <2>2. Progressive(T)
    BY <1>12, <2>1 DEF Progressive
  <2> QED BY <2>2, CompleteInduction
<1>14. ASSUME NEW n \in Nat
       PROVE  g[n] = IF n >= b THEN g[n \div b] \o digit(n) ELSE <<base[n + 1]>>
  <2>1. CASE ~(n >= b)
    <3>1. n % b = n
      BY <1>1, <1>2, <2>1
    <3>2. <<>> \o digit(n) = digit(n)
      BY <1>3
    <3> QED BY <1>11, <2>1, <3>1, <3>2 DEF digit
  <2> QED BY <1>11, <2>1
<1> QED BY <1>3, <1>10, <1>13, <1>14 DEF b, digit

(* A division by a product is two divisions.                               *)
LEMMA QuotientOf ==
  ASSUME NEW n \in Nat, NEW a \in Nat, NEW p \in Nat \ {0}, a * p <= n, n < a * p + p
  PROVE  n \div p = a
OBVIOUS

LEMMA DivideTwice ==
  ASSUME NEW b \in Bases, NEW p \in Nat \ {0}, NEW n \in Nat
  PROVE  n \div (b * p) = (n \div b) \div p
<1> DEFINE q == n \div b
           r == n % b
           a == q \div p
           t == q % p
           c == a * p
<1>1. q \in Nat /\ r \in 0 .. b - 1 /\ n = b * q + r /\ b \in Nat /\ b > 0
  BY BaseDivision DEF Bases
<1> HIDE DEF q, r
<1>2. a \in Nat /\ t \in 0 .. p - 1 /\ q = p * a + t
  BY <1>1
<1> HIDE DEF a, t
<1>3. c \in Nat /\ q = c + t
  BY <1>2
<1>4. a * (b * p) = b * c /\ b * p \in Nat \ {0}
  BY <1>1, <1>2
<1> HIDE DEF c
<1>5. b * c <= n /\ n < b * c + b * p
  BY <1>1, <1>2, <1>3 DEF Bases
<1>6. n \div (b * p) = a
  <2> DEFINE m == b * p
  <2>1. a * m <= n /\ n < a * m + m /\ m \in Nat \ {0}
    BY <1>4, <1>5
  <2> HIDE DEF m
  <2> QED BY <1>2, <2>1, QuotientOf DEF m
<1> QED BY <1>6 DEF q, a

(* ft_numlen_base counts what digits_of puts.                              *)
LEMMA DigitCounts ==
  ASSUME NEW S, NEW base, IsBase(base, S)
  PROVE  \A n \in Nat : Len(digits_of(n, base)) = ft_numlen_base(n, Len(base))
<1> DEFINE b == Len(base)
           T == {n \in Nat : Len(digits_of(n, base)) = ft_numlen_base(n, b)}
<1>1. \A n \in Nat : /\ ft_numlen_base(n, b) \in Nat
                     /\ ft_numlen_base(n, b) =
                          IF n >= b THEN 1 + ft_numlen_base(n \div b, b) ELSE 1
  BY NumLenSteps DEF IsBase
<1>2. \A n \in Nat : n >= b => n \div b \in 0 .. n - 1
  <2>1. \A n \in Nat : /\ n \div b \in Nat
                       /\ n >= b => n \div b < n
    BY BaseDivision DEF IsBase
  <2> QED BY <2>1
<1>0. b \in Nat
  BY DEF IsBase, Bases
<1>3. \A n \in Nat :
           /\ digits_of(n, base) \in Seq(S)
           /\ base[(n % b) + 1] \in S
           /\ digits_of(n, base) =
                IF n >= b THEN digits_of(n \div b, base) \o <<base[(n % b) + 1]>>
                ELSE <<base[n + 1]>>
  BY DigitSteps
<1> HIDE DEF b
<1>4. ASSUME NEW v \in Nat, \A x \in 0 .. v - 1 : x \in T
      PROVE  v \in T
  <2>1. CASE ~(v >= b)
    <3>1. digits_of(v, base) = <<base[v + 1]>> /\ ft_numlen_base(v, b) = 1
      BY <1>1, <1>3, <2>1
    <3>2. Len(<<base[v + 1]>>) = 1
      OBVIOUS
    <3> QED BY <3>1, <3>2
  <2>2. CASE v >= b
    <3> DEFINE q == v \div b
               e == <<base[(v % b) + 1]>>
    <3>1. q \in 0 .. v - 1 /\ q \in Nat
      BY <1>2, <2>2
    <3>2. digits_of(v, base) = digits_of(q, base) \o e /\ e \in Seq(S) /\ Len(e) = 1
      BY <1>3, <2>2
    <3>3. ft_numlen_base(v, b) = 1 + ft_numlen_base(q, b)
      BY <1>1, <2>2
    <3> HIDE DEF q, e
    <3>4. Len(digits_of(q, base)) = ft_numlen_base(q, b)
      BY <1>4, <3>1
    <3>5. Len(digits_of(v, base)) = Len(digits_of(q, base)) + 1
      <4>1. digits_of(q, base) \in Seq(S)
        BY <1>3, <3>1
      <4>2. Len(digits_of(q, base) \o e) = Len(digits_of(q, base)) + Len(e)
        BY <3>2, <4>1, ConcatProperties
      <4> QED BY <3>2, <4>2
    <3> QED BY <1>1, <3>1, <3>3, <3>4, <3>5
  <2> QED BY <2>1, <2>2
<1>5. T = Nat
  <2>1. T \in SUBSET Nat
    OBVIOUS
  <2> HIDE DEF T
  <2>2. Progressive(T)
    BY <1>4, <2>1 DEF Progressive
  <2> QED BY <2>2, CompleteInduction
<1> QED BY <1>5 DEF b

(* The digits d of n: as few as it needs, each given by its power.         *)
IsNumeral(d, n, base) ==
  /\ Len(d) \in Nat \ {0} /\ n < power(Len(base), Len(d))
  /\ Len(d) > 1 => n >= power(Len(base), Len(d) - 1)
  /\ \A k \in 1 .. Len(d) :
       d[k] = base[((n \div power(Len(base), Len(d) - k)) % Len(base)) + 1]

LEMMA DigitsAreNumeral ==
  ASSUME NEW S, NEW base, IsBase(base, S)
  PROVE  \A n \in Nat : IsNumeral(digits_of(n, base), n, base)
<1> DEFINE b == Len(base)
           T == {n \in Nat : IsNumeral(digits_of(n, base), n, base)}
<1>1. b \in Bases /\ b \in Nat /\ b > 1
  <2>1. b \in Bases
    BY DEF IsBase
  <2> HIDE DEF b
  <2> QED BY <2>1 DEF Bases
<1>2. \A n \in Nat : /\ n \div b \in Nat /\ n % b \in 0 .. b - 1 /\ n = b * (n \div b) + (n % b)
                     /\ n >= b => n \div b < n /\ n \div b >= 1
                     /\ n < b => n \div b = 0 /\ n % b = n
  BY <1>1, BaseDivision
<1>3. \A n \in Nat :
           /\ digits_of(n, base) \in Seq(S)
           /\ base[(n % b) + 1] \in S
           /\ digits_of(n, base) =
                IF n >= b THEN digits_of(n \div b, base) \o <<base[(n % b) + 1]>>
                ELSE <<base[n + 1]>>
  BY DigitSteps
<1>4. power(b, 0) = 1 /\ \A n \in Nat : power(b, n) \in Nat /\ power(b, n + 1) = b * power(b, n)
  BY <1>1, PowerSteps
<1>5. \A n \in Nat : power(b, n) > 0
  <2> DEFINE U == {n \in Nat : power(b, n) > 0}
  <2>1. 0 \in U
    BY <1>4
  <2>2. ASSUME NEW n \in U
        PROVE  n + 1 \in U
    <3> DEFINE p == power(b, n)
    <3>1. power(b, n + 1) = b * p /\ p \in Nat /\ p > 0
      BY <1>4
    <3> HIDE DEF p, b
    <3>2. b * p > 0
      BY <1>1, <3>1
    <3> QED BY <3>1, <3>2
  <2> HIDE DEF U
  <2> QED BY <2>1, <2>2, Induction DEF U
<1>6. \A n \in Nat : n \div 1 = n
  OBVIOUS
<1> HIDE DEF b
<1>7. ASSUME NEW v \in Nat, \A x \in 0 .. v - 1 : x \in T
      PROVE  v \in T
  <2> DEFINE d == digits_of(v, base)
  <2>1. CASE ~(v >= b)
    <3>1. d = <<base[v + 1]>> /\ Len(d) = 1 /\ d[1] = base[v + 1]
      <4>1. d = <<base[v + 1]>>
        BY <1>3, <2>1
      <4> HIDE DEF d
      <4> QED BY <4>1
    <3>2. power(b, 1) = b /\ power(b, 0) = 1
      <4>1. power(b, 0 + 1) = b * power(b, 0)
        BY <1>4
      <4> QED BY <1>1, <1>4, <4>1
    <3>3. v < b /\ v % b = v /\ v \div 1 = v
      BY <1>1, <1>2, <1>6, <2>1
    <3>4. /\ Len(d) \in Nat \ {0} /\ v < power(b, Len(d)) /\ ~(Len(d) > 1)
      BY <3>1, <3>2, <3>3
    <3>5. ASSUME NEW k \in 1 .. Len(d)
          PROVE  d[k] = base[((v \div power(b, Len(d) - k)) % b) + 1]
      <4>1. k = 1 /\ Len(d) - k = 0
        BY <3>1
      <4> HIDE DEF d
      <4> QED BY <3>1, <3>2, <3>3, <4>1
    <3> HIDE DEF d
    <3>6. IsNumeral(d, v, base)
      BY <3>4, <3>5 DEF IsNumeral, b
    <3> QED BY <3>6 DEF d
  <2>2. CASE v >= b
    <3> DEFINE q == v \div b
               last_digit == base[(v % b) + 1]
               h == digits_of(q, base)
               l == Len(h)
    <3>1. q \in 0 .. v - 1 /\ q \in Nat /\ q >= 1 /\ v = b * q + (v % b) /\ v % b \in 0 .. b - 1
      BY <1>2, <2>2
    <3>2. d = h \o <<last_digit>> /\ last_digit \in S /\ h \in Seq(S)
      BY <1>3, <2>2, <3>1
    <3>3. q \in T
      BY <1>7, <3>1
    <3>4. /\ l \in Nat \ {0}
          /\ q < power(b, l)
          /\ l > 1 => q >= power(b, l - 1)
          /\ \A k \in 1 .. l : h[k] = base[((q \div power(b, l - k)) % b) + 1]
      BY <3>3 DEF IsNumeral, b
    <3> HIDE DEF h, last_digit
    <3>5. Len(d) = l + 1 /\ (\A k \in 1 .. l : d[k] = h[k]) /\ d[l + 1] = last_digit
      <4>1. <<last_digit>> \in Seq(S) /\ Len(<<last_digit>>) = 1 /\ <<last_digit>>[1] = last_digit
        BY <3>2
      <4>2. /\ Len(h \o <<last_digit>>) = l + 1
            /\ \A k \in 1 .. l : (h \o <<last_digit>>)[k] = h[k]
            /\ (h \o <<last_digit>>)[l + 1] = last_digit
        BY <3>2, <4>1, ConcatElements
      <4> QED BY <3>2, <4>2
    <3> HIDE DEF d, l, q
    <3>6. v < power(b, l + 1)
      <4> DEFINE p == power(b, l)
      <4>1. p \in Nat /\ power(b, l + 1) = b * p /\ q < p
        BY <1>4, <3>4
      <4> HIDE DEF p
      <4>2. v < b * p
        BY <1>1, <3>1, <4>1 DEF Bases
      <4> QED BY <4>1, <4>2
    <3>7. v >= power(b, l)
      <4>1. CASE l = 1
        <5>1. power(b, 0 + 1) = b * power(b, 0)
          BY <1>4
        <5> QED BY <1>1, <1>4, <2>2, <4>1, <5>1
      <4>2. CASE l > 1
        <5> DEFINE p == power(b, l - 1)
        <5>1. l - 1 \in Nat /\ (l - 1) + 1 = l
          BY <3>4, <4>2
        <5>2. p \in Nat /\ power(b, l) = b * p /\ q >= p
          BY <1>4, <3>4, <4>2, <5>1
        <5> HIDE DEF p
        <5>3. v >= b * p
          BY <1>1, <3>1, <5>2 DEF Bases
        <5> QED BY <5>2, <5>3
      <4> QED BY <3>4, <4>1, <4>2
    <3>8. ASSUME NEW k \in 1 .. l + 1
          PROVE  d[k] = base[((v \div power(b, l + 1 - k)) % b) + 1]
      <4>1. CASE k = l + 1
        <5>1. l + 1 - k = 0
          BY <3>4, <4>1
        <5> QED BY <1>4, <1>6, <3>5, <4>1, <5>1 DEF last_digit
      <4>2. CASE k # l + 1
        <5> DEFINE p == power(b, l - k)
        <5>1. k \in 1 .. l /\ l - k \in Nat /\ (l - k) + 1 = l + 1 - k
          BY <3>4, <4>2
        <5>2. p \in Nat \ {0} /\ power(b, l + 1 - k) = b * p
          BY <1>4, <1>5, <5>1
        <5>3. d[k] = base[((q \div p) % b) + 1]
          BY <3>4, <3>5, <5>1
        <5> HIDE DEF p
        <5>4. v \div (b * p) = q \div p
          BY <1>1, <5>2, DivideTwice DEF q
        <5> QED BY <5>2, <5>3, <5>4
      <4> QED BY <4>1, <4>2
    <3>9. (l + 1) \in Nat \ {0} /\ (l + 1) - 1 = l
      BY <3>4
    <3>10. IsNumeral(d, v, base)
      BY <3>5, <3>6, <3>7, <3>8, <3>9 DEF IsNumeral, b
    <3> QED BY <3>10 DEF d
  <2> QED BY <2>1, <2>2
<1>8. T = Nat
  <2>1. T \in SUBSET Nat
    OBVIOUS
  <2> HIDE DEF T
  <2>2. Progressive(T)
    BY <1>7, <2>1 DEF Progressive
  <2> QED BY <2>2, CompleteInduction
<1> QED BY <1>8

(* The characters; the provers do not know by themselves that those the    *)
(* code writes are strings.                                                *)
Written ==
  {"0", "1", "2", "3", "4", "5", "6", "7", "8", "9", "a", "b", "c", "d", "e", "f",
   "A", "B", "C", "D", "E", "F", "x", "-", "%", "(", "n", "u", "l", ")", "i", "s", "X", "p", "z"}

Characters == STRING \cup Written

LEMMA DecimalBase == IsBase(decimal, Characters) /\ Len(decimal) = 10
<1>1. decimal \in Seq(Written) /\ Len(decimal) = 10
  BY DEF decimal, Written
<1>2. decimal \in Seq(Characters)
  BY <1>1 DEF Characters
<1> QED BY <1>1, <1>2 DEF IsBase, Bases

LEMMA HexLower ==
  /\ IsBase(hex_lower, Characters) /\ Len(hex_lower) = 16
  /\ hex_lower[1] = "0" /\ hex_lower[8] = "7" /\ hex_lower[9] = "8" /\ hex_lower[16] = "f"
<1>1. PICK first : /\ first \in Seq(Characters) /\ Len(first) = 10 /\ first = decimal
                   /\ first[1] = "0" /\ first[8] = "7" /\ first[9] = "8"
  <2>1. decimal \in Seq(Characters) /\ Len(decimal) = 10
    BY DecimalBase DEF IsBase
  <2>2. decimal[1] = "0" /\ decimal[8] = "7" /\ decimal[9] = "8"
    BY DEF decimal
  <2> QED BY <2>1, <2>2
<1>2. PICK rest : /\ rest \in Seq(Characters) /\ Len(rest) = 6 /\ rest[6] = "f"
                  /\ rest = <<"a", "b", "c", "d", "e", "f">>
  <2> DEFINE r == <<"a", "b", "c", "d", "e", "f">>
  <2>1. r \in Seq(Written) /\ Len(r) = 6 /\ r[6] = "f"
    BY DEF Written
  <2>2. r \in Seq(Characters)
    BY <2>1 DEF Characters
  <2> QED BY <2>1, <2>2
<1>3. hex_lower = first \o rest
  BY <1>1, <1>2 DEF hex_lower
<1>4. first \in Seq(Characters) /\ Len(first) = 10 /\ rest \in Seq(Characters) /\ Len(rest) = 6
  BY <1>1, <1>2
<1> DEFINE w == first \o rest
<1>5. w \in Seq(Characters) /\ Joins(w, first, rest)
  BY <1>4, ConcatJoins
<1> HIDE DEF w
<1>6. Len(w) = 16 /\ w[16] = rest[6] /\ \A k \in 1 .. 10 : w[k] = first[k]
  BY <1>4, <1>5 DEF Joins
<1>7. rest[6] = "f"
  BY <1>2
<1>8. hex_lower = w
  BY <1>3 DEF w
<1> QED BY <1>1, <1>5, <1>6, <1>7, <1>8 DEF IsBase, Bases

LEMMA HexUpper == IsBase(hex_upper, Characters) /\ Len(hex_upper) = 16
<1> DEFINE rest == <<"A", "B", "C", "D", "E", "F">>
<1>1. decimal \in Seq(Characters) /\ Len(decimal) = 10
  BY DecimalBase DEF IsBase
<1>2. rest \in Seq(Written) /\ Len(rest) = 6
  BY DEF Written
<1>3. rest \in Seq(Characters)
  BY <1>2 DEF Characters
<1> HIDE DEF rest
<1>4. hex_upper \in Seq(Characters) /\ Len(hex_upper) = 10 + 6
  <2>1. hex_upper = decimal \o rest
    BY DEF hex_upper, rest
  <2>2. decimal \o rest \in Seq(Characters) /\ Len(decimal \o rest) = Len(decimal) + Len(rest)
    BY <1>1, <1>3, ConcatElements
  <2> QED BY <1>1, <1>2, <2>1, <2>2
<1> QED BY <1>4 DEF IsBase, Bases

(* The powers of a greater number, and the greater powers, are greater.    *)
LEMMA PowersGrow ==
  ASSUME NEW b \in Nat, b >= 2
  PROVE  /\ \A n \in Nat : power(b, n) \in Nat \ {0} /\ power(2, n) <= power(b, n)
         /\ \A m, n \in Nat : m <= n => power(b, m) <= power(b, n)
<1>1. power(b, 0) = 1 /\ \A n \in Nat : power(b, n) \in Nat /\ power(b, n + 1) = b * power(b, n)
  BY PowerSteps
<1>2. power(2, 0) = 1 /\ \A n \in Nat : power(2, n) \in Nat /\ power(2, n + 1) = 2 * power(2, n)
  BY PowerSteps
<1>3. \A p \in Nat : b * p >= 2 * p
  OBVIOUS
<1> DEFINE T == {n \in Nat : power(b, n) > 0 /\ power(2, n) <= power(b, n)}
<1>4. T = Nat
  <2>1. 0 \in T
    BY <1>1, <1>2
  <2>2. ASSUME NEW n \in T
        PROVE  n + 1 \in T
    <3> DEFINE p == power(b, n)
               q == power(2, n)
    <3>1. power(b, n + 1) = b * p /\ p \in Nat /\ p > 0
      BY <1>1
    <3>2. power(2, n + 1) = 2 * q /\ q \in Nat /\ q <= p
      BY <1>2
    <3> HIDE DEF p, q
    <3>3. b * p >= 2 * p /\ b * p \in Nat
      BY <1>3, <3>1
    <3> HIDE DEF T
    <3>4. power(b, n + 1) > 0 /\ power(2, n + 1) <= power(b, n + 1) /\ n + 1 \in Nat
      BY <3>1, <3>2, <3>3 DEF T
    <3> QED BY <3>4 DEF T
  <2> HIDE DEF T
  <2> QED BY <2>1, <2>2, Induction DEF T
<1>5. ASSUME NEW m \in Nat
      PROVE  \A n \in Nat : m <= n => power(b, m) <= power(b, n)
  <2> DEFINE U == {d \in Nat : power(b, m) <= power(b, m + d)}
  <2>1. 0 \in U
    BY <1>1
  <2>2. ASSUME NEW d \in U
        PROVE  d + 1 \in U
    <3> DEFINE p == power(b, m + d)
               r == power(b, m)
    <3>1. power(b, (m + d) + 1) = b * p /\ p \in Nat /\ r <= p /\ r \in Nat
      BY <1>1
    <3>2. (m + d) + 1 = m + (d + 1)
      OBVIOUS
    <3> HIDE DEF p, r
    <3>3. b * p >= p /\ b * p \in Nat
      BY <1>3, <3>1
    <3>4. r <= power(b, m + (d + 1))
      BY <3>1, <3>2, <3>3
    <3> QED BY <3>4 DEF r
  <2>3. U = Nat
    <3> HIDE DEF U
    <3> QED BY <2>1, <2>2, Induction DEF U
  <2>4. ASSUME NEW n \in Nat, m <= n
        PROVE  power(b, m) <= power(b, n)
    <3>1. n - m \in Nat /\ m + (n - m) = n
      BY <2>4
    <3>2. n - m \in U
      BY <2>3, <3>1
    <3> QED BY <3>1, <3>2
  <2> QED BY <2>4
<1>6. ASSUME NEW n \in Nat
      PROVE  power(b, n) \in Nat \ {0} /\ power(2, n) <= power(b, n)
  <2>1. n \in T
    BY <1>4
  <2> QED BY <1>1, <2>1
<1> HIDE DEF T
<1> QED BY <1>5, <1>6

(* The word: half of its values are 8 times a power of 16.                 *)
LEMMA WordValues ==
  /\ LONG_MAX \in Nat /\ LONG_MAX >= 7 /\ power(2, LongBits) = 2 * LONG_MAX + 2
  /\ LongBits \div 4 - 1 \in Nat /\ LONG_MAX + 1 = 8 * power(16, LongBits \div 4 - 1)
<1>1. /\ power(2, 0) = 1
      /\ \A n \in Nat : power(2, n) \in Nat /\ power(2, n + 1) = 2 * power(2, n)
  BY PowerSteps
<1>2. /\ power(16, 0) = 1
      /\ \A n \in Nat : power(16, n) \in Nat /\ power(16, n + 1) = 16 * power(16, n)
  BY PowerSteps
<1> DEFINE T == {n \in Nat : power(2, 4 * n + 3) = 8 * power(16, n)}
<1>3. T = Nat
  <2>1. 0 \in T
    <3>1. power(2, 0 + 1) = 2 /\ power(2, 1 + 1) = 2 * power(2, 1) /\ power(2, 2 + 1) = 2 * power(2, 2)
      BY <1>1
    <3>2. 4 * 0 + 3 = 3 /\ 0 + 1 = 1 /\ 1 + 1 = 2 /\ 2 + 1 = 3
      OBVIOUS
    <3>3. power(2, 3) = 8
      BY <1>1, <3>1, <3>2
    <3> QED BY <1>2, <3>2, <3>3
  <2>2. ASSUME NEW n \in T
        PROVE  n + 1 \in T
    <3> DEFINE m == 4 * n + 3
    <3>1. m \in Nat /\ power(2, m) = 8 * power(16, n) /\ 4 * (n + 1) + 3 = m + 4
      OBVIOUS
    <3> HIDE DEF m
    <3>2. power(2, m + 1) = 2 * power(2, m)
      BY <1>1, <3>1
    <3>3. power(2, (m + 1) + 1) = 2 * power(2, m + 1)
      BY <1>1, <3>1
    <3>4. power(2, (m + 2) + 1) = 2 * power(2, m + 2)
      BY <1>1, <3>1
    <3>5. power(2, (m + 3) + 1) = 2 * power(2, m + 3)
      BY <1>1, <3>1
    <3>6. (m + 1) + 1 = m + 2 /\ (m + 2) + 1 = m + 3 /\ (m + 3) + 1 = m + 4
      BY <3>1
    <3>7. power(16, n + 1) = 16 * power(16, n) /\ power(16, n) \in Nat /\ power(2, m) \in Nat
      BY <1>1, <1>2, <3>1
    <3>8. power(2, m + 4) = 16 * power(2, m)
      <4> DEFINE p == power(2, m)
      <4>1. /\ power(2, m + 1) = 2 * p /\ power(2, m + 2) = 2 * power(2, m + 1)
            /\ power(2, m + 3) = 2 * power(2, m + 2) /\ power(2, m + 4) = 2 * power(2, m + 3)
            /\ p \in Nat
        BY <3>2, <3>3, <3>4, <3>5, <3>6, <3>7
      <4> HIDE DEF p
      <4>2. power(2, m + 4) = 16 * p
        BY <4>1
      <4> QED BY <4>2 DEF p
    <3>9. power(2, 4 * (n + 1) + 3) = 8 * power(16, n + 1)
      BY <3>1, <3>7, <3>8
    <3> QED BY <3>9
  <2> HIDE DEF T
  <2> QED BY <2>1, <2>2, Induction DEF T
<1> DEFINE w == LongBits \div 4 - 1
<1>4. w \in Nat /\ 4 * w + 3 = LongBits - 1 /\ LongBits - 1 \in Nat /\ LongBits = (LongBits - 1) + 1
  BY PrintfAssumption
<1>5. power(2, LongBits - 1) = 8 * power(16, w)
  <2> HIDE DEF w
  <2>1. w \in T
    BY <1>3, <1>4
  <2> QED BY <1>4, <2>1
<1>6. power(2, LongBits) = 2 * power(2, LongBits - 1)
  BY <1>1, <1>4
<1>7. power(16, w) \in Nat \ {0}
  <2>1. \A n \in Nat : power(16, n) \in Nat \ {0}
    BY PowersGrow
  <2> QED BY <1>4, <2>1
<1> HIDE DEF w
<1>8. LONG_MAX + 1 = 8 * power(16, w) /\ LONG_MAX \in Nat /\ LONG_MAX >= 7
  BY <1>5, <1>7 DEF LONG_MAX
<1>9. power(2, LongBits) = 2 * LONG_MAX + 2
  BY <1>1, <1>4, <1>6 DEF LONG_MAX
<1> QED BY <1>4, <1>8, <1>9 DEF w

(* An unsigned int fits a long, and wrapping leaves an int alone.          *)
LEMMA IntsFit ==
  /\ INT_MAX \in Nat /\ 2 * INT_MAX + 1 <= LONG_MAX
  /\ \A n \in 0 .. INT_MAX : as_int(n) = n
<1>1. INT_MAX \in Nat /\ 2 * INT_MAX + 1 < power(2, LongBits - 1)
  BY PrintfAssumption
<1>2. LONG_MAX \in Nat
  BY WordValues
<1>3. power(2, LongBits - 1) \in Nat
  <2>1. LongBits - 1 \in Nat
    BY PrintfAssumption
  <2> QED BY <2>1, PowersGrow
<1>4. 2 * INT_MAX + 1 <= LONG_MAX
  BY <1>1, <1>3 DEF LONG_MAX
<1>5. ASSUME NEW n \in 0 .. INT_MAX
      PROVE  as_int(n) = n
  <2> DEFINE W == 2 * INT_MAX + 2
             x == n + INT_MAX + 1
  <2>1. W \in Nat \ {0} /\ x \in 0 .. W - 1
    BY <1>1
  <2>2. as_int(n) = (x % W) - INT_MAX - 1
    BY DEF as_int
  <2>3. x - INT_MAX - 1 = n
    BY <1>1
  <2> HIDE DEF W, x
  <2>4. x % W = x
    BY <2>1
  <2> QED BY <2>2, <2>3, <2>4
<1> QED BY <1>1, <1>4, <1>5

(* The digits written are those of the reference.                          *)
LEMMA NumeralDigits ==
  ASSUME NEW base, IsBase(base, Characters), NEW n \in 0 .. 2 * LONG_MAX + 1
  PROVE  Numeral(n, base) = digits_of(n, base) /\ digits_of(n, base) \in Seq(Characters)
<1> DEFINE b == Len(base)
           d == digits_of(n, base)
           Fits(k) == n < power(b, k) /\ (k > 1 => n >= power(b, k - 1))
           len == CHOOSE k \in 1 .. LongBits : Fits(k)
<1>1. n \in Nat /\ n < power(2, LongBits) /\ LongBits \in Nat \ {0}
  BY WordValues, PrintfAssumption
<1>2. b \in Nat /\ b >= 2
  <2>1. b \in Bases
    BY DEF IsBase
  <2> HIDE DEF b
  <2> QED BY <2>1 DEF Bases
<1>3. /\ d \in Seq(Characters) /\ IsNumeral(d, n, base)
  BY <1>1, DigitSteps, DigitsAreNumeral
<1>4. /\ \A k \in Nat : power(b, k) \in Nat /\ power(2, k) <= power(b, k)
      /\ \A k, m \in Nat : k <= m => power(b, k) <= power(b, m)
  BY <1>2, PowersGrow
<1>5. power(2, LongBits) \in Nat
  BY <1>1, PowerSteps
<1>6. Len(d) \in Nat \ {0} /\ Fits(Len(d))
  BY <1>3 DEF IsNumeral
<1> HIDE DEF d, b
<1>7. Len(d) \in 1 .. LongBits
  <2>1. ASSUME Len(d) > LongBits
        PROVE  FALSE
    <3>1. n >= power(b, Len(d) - 1) /\ LongBits <= Len(d) - 1 /\ Len(d) - 1 \in Nat
      BY <1>1, <1>6, <2>1
    <3>2. power(b, LongBits) <= power(b, Len(d) - 1)
      BY <1>1, <1>4, <3>1
    <3> QED BY <1>1, <1>4, <1>5, <3>1, <3>2
  <2> QED BY <1>1, <1>6, <2>1
<1>8. \A k, m \in 1 .. LongBits : Fits(k) /\ Fits(m) => k <= m
  <2>1. ASSUME NEW k \in 1 .. LongBits, NEW m \in 1 .. LongBits, Fits(k), Fits(m), k > m
        PROVE  FALSE
    <3>1. k - 1 \in Nat /\ m \in Nat /\ m <= k - 1 /\ k > 1
      BY <1>1, <2>1
    <3>2. power(b, m) <= power(b, k - 1) /\ n < power(b, m) /\ n >= power(b, k - 1)
      BY <1>4, <2>1, <3>1
    <3> QED BY <1>1, <1>4, <3>1, <3>2
  <2> QED BY <1>1, <2>1
<1>9. len \in 1 .. LongBits /\ Fits(len)
  <2> HIDE DEF Fits
  <2>1. \E k \in 1 .. LongBits : Fits(k)
    BY <1>6, <1>7
  <2> QED BY <2>1, Zenon
<1>10. len = Len(d)
  <2> HIDE DEF Fits, len
  <2>1. len <= Len(d) /\ Len(d) <= len
    BY <1>6, <1>7, <1>8, <1>9
  <2> QED BY <1>6, <1>9, <1>7, <2>1
<1>11. Numeral(n, base) = [k \in 1 .. len |-> base[((n \div power(b, len - k)) % b) + 1]]
  BY Zenon DEF Numeral, b
<1> HIDE DEF len
<1>12. \A k \in 1 .. Len(d) : d[k] = base[((n \div power(b, Len(d) - k)) % b) + 1]
  BY <1>3 DEF IsNumeral, b
<1>13. d = [k \in 1 .. Len(d) |-> d[k]]
  BY <1>3
<1>14. Numeral(n, base) = d
  BY <1>10, <1>11, <1>12, <1>13
<1> QED BY <1>3, <1>14 DEF d

(* The digit first, and then m times the digit rest.                       *)
Literally(d, first, rest, m) ==
  /\ d \in Seq(Characters) /\ Len(d) = m + 1 /\ d[1] = first
  /\ \A k \in 2 .. m + 1 : d[k] = rest

(* The numerals the literals of ft_putpointer stand for.                   *)
LEMMA PointerDigits ==
  ASSUME NEW m \in Nat
  PROVE  /\ Literally(digits_of(8 * power(16, m), hex_lower), "8", "0", m)
         /\ Literally(digits_of(8 * power(16, m) - 1, hex_lower), "7", "f", m)
<1>1. \A n \in Nat : power(16, n) \in Nat \ {0}
  BY PowersGrow
<1>2. power(16, 0) = 1 /\ \A n \in Nat : power(16, n + 1) = 16 * power(16, n)
  BY PowerSteps
<1>3. \A n \in Nat :
           /\ digits_of(n, hex_lower) \in Seq(Characters)
           /\ digits_of(n, hex_lower) =
                IF n >= 16
                THEN digits_of(n \div 16, hex_lower) \o <<hex_lower[(n % 16) + 1]>>
                ELSE <<hex_lower[n + 1]>>
  BY DigitSteps, HexLower
<1>4. /\ hex_lower[1] = "0" /\ hex_lower[8] = "7" /\ hex_lower[9] = "8" /\ hex_lower[16] = "f"
      /\ "0" \in Characters /\ "f" \in Characters
  BY HexLower DEF Characters, Written
<1>5. ASSUME NEW n \in Nat, NEW d, NEW first, NEW c \in Characters, Literally(d, first, c, n)
      PROVE  Literally(d \o <<c>>, first, c, n + 1)
  <2> DEFINE w == d \o <<c>>
  <2>1. d \in Seq(Characters) /\ Len(d) = n + 1 /\ d[1] = first /\ \A k \in 2 .. n + 1 : d[k] = c
    BY <1>5 DEF Literally
  <2>2. <<c>> \in Seq(Characters) /\ Len(<<c>>) = 1 /\ <<c>>[1] = c
    OBVIOUS
  <2>3. w \in Seq(Characters) /\ Joins(w, d, <<c>>)
    BY <2>1, <2>2, ConcatJoins
  <2> DEFINE e == <<c>>
  <2>4. Joins(w, d, e) /\ Len(e) = 1 /\ e[1] = c
    BY <2>2, <2>3
  <2> HIDE DEF w, e
  <2>5. Len(w) = (n + 1) + 1 /\ w[1] = first
    BY <2>1, <2>4 DEF Joins
  <2>6. \A k \in 2 .. (n + 1) + 1 : w[k] = c
    <3>1. ASSUME NEW k \in 2 .. (n + 1) + 1
          PROVE  w[k] = c
      <4>1. CASE k = (n + 1) + 1
        <5>1. w[Len(d) + 1] = e[1]
          BY <2>4 DEF Joins
        <5> QED BY <2>1, <2>4, <4>1, <5>1
      <4>2. CASE k # (n + 1) + 1
        <5>1. k \in 1 .. Len(d) /\ k \in 2 .. n + 1
          BY <2>1, <4>2
        <5> QED BY <2>1, <2>4, <5>1 DEF Joins
      <4> QED BY <4>1, <4>2
    <3> QED BY <3>1
  <2> QED BY <2>3, <2>5, <2>6 DEF Literally, w
<1> DEFINE T == {n \in Nat : /\ Literally(digits_of(8 * power(16, n), hex_lower), "8", "0", n)
                             /\ Literally(digits_of(8 * power(16, n) - 1, hex_lower), "7", "f", n)}
<1>6. 0 \in T
  <2>1. /\ digits_of(8, hex_lower) = <<"8">> /\ digits_of(8, hex_lower) \in Seq(Characters)
        /\ digits_of(7, hex_lower) = <<"7">> /\ digits_of(7, hex_lower) \in Seq(Characters)
    <3>1. ASSUME NEW n \in Nat, n < 16
          PROVE  digits_of(n, hex_lower) = <<hex_lower[n + 1]>> /\ digits_of(n, hex_lower) \in Seq(Characters)
      <4>1. ~(n >= 16)
        BY <3>1
      <4> QED BY <1>3, <4>1, Zenon
    <3>4. 8 + 1 = 9 /\ 7 + 1 = 8 /\ 8 \in Nat /\ 7 \in Nat /\ 8 < 16 /\ 7 < 16
      OBVIOUS
    <3>2. digits_of(8, hex_lower) = <<hex_lower[8 + 1]>> /\ digits_of(8, hex_lower) \in Seq(Characters)
      BY <3>1, <3>4, Zenon
    <3>3. digits_of(7, hex_lower) = <<hex_lower[7 + 1]>> /\ digits_of(7, hex_lower) \in Seq(Characters)
      BY <3>1, <3>4, Zenon
    <3> QED BY <1>4, <3>2, <3>3, <3>4
  <2>2. Literally(<<"8">>, "8", "0", 0) /\ Literally(<<"7">>, "7", "f", 0)
    <3>1. <<"8">> \in Seq(Characters) /\ <<"7">> \in Seq(Characters)
      BY <2>1
    <3> QED BY <3>1 DEF Literally
  <2>3. 8 * power(16, 0) = 8 /\ 8 * power(16, 0) - 1 = 7
    BY <1>2
  <2> QED BY <2>1, <2>2, <2>3
<1>7. ASSUME NEW n \in T
      PROVE  n + 1 \in T
  <2> DEFINE p == 8 * power(16, n)
  <2>1. p \in Nat /\ p >= 8 /\ 8 * power(16, n + 1) = 16 * p
    BY <1>1, <1>2
  <2>2. Literally(digits_of(p, hex_lower), "8", "0", n) /\ Literally(digits_of(p - 1, hex_lower), "7", "f", n)
    OBVIOUS
  <2> HIDE DEF p
  <2>3. 16 * p \in Nat /\ 16 * p >= 16 /\ (16 * p) \div 16 = p /\ (16 * p) % 16 = 0
    BY <2>1
  <2>4. 16 * p - 1 \in Nat /\ 16 * p - 1 >= 16 /\ (16 * p - 1) \div 16 = p - 1 /\ (16 * p - 1) % 16 = 15
    BY <2>1
  <2>5. digits_of(16 * p, hex_lower) = digits_of(p, hex_lower) \o <<"0">>
    <3> DEFINE q == 16 * p
    <3>1. q \in Nat /\ q >= 16 /\ q \div 16 = p /\ (q % 16) + 1 = 1
      BY <2>3
    <3> HIDE DEF q
    <3>2. digits_of(q, hex_lower) = digits_of(q \div 16, hex_lower) \o <<hex_lower[(q % 16) + 1]>>
      BY <1>3, <3>1
    <3> QED BY <1>4, <3>1, <3>2 DEF q
  <2>6. digits_of(16 * p - 1, hex_lower) = digits_of(p - 1, hex_lower) \o <<"f">>
    <3> DEFINE q == 16 * p - 1
    <3>1. q \in Nat /\ q >= 16 /\ q \div 16 = p - 1 /\ (q % 16) + 1 = 16
      BY <2>4
    <3> HIDE DEF q
    <3>2. digits_of(q, hex_lower) = digits_of(q \div 16, hex_lower) \o <<hex_lower[(q % 16) + 1]>>
      BY <1>3, <3>1
    <3> QED BY <1>4, <3>1, <3>2 DEF q
  <2>7. /\ Literally(digits_of(16 * p, hex_lower), "8", "0", n + 1)
        /\ Literally(digits_of(16 * p - 1, hex_lower), "7", "f", n + 1)
    BY <1>4, <1>5, <2>2, <2>5, <2>6
  <2> QED BY <2>1, <2>7
<1>8. T = Nat
  <2> HIDE DEF T
  <2> QED BY <1>6, <1>7, Induction DEF T
<1>9. m \in T
  BY <1>8
<1> QED BY <1>9

(* a is the beginning of b.                                                *)
Begins(b, a) == Len(a) <= Len(b) /\ \A k \in 1 .. Len(a) : b[k] = a[k]

(* Where FlattenSeq puts the sequences it joins.                           *)
Placed(ss, f, m) ==
  /\ Len(f[m + 1]) = Len(f[m]) + Len(ss[m + 1]) /\ Len(f[m + 1]) <= Len(f[Len(ss)])
  /\ \A x \in 1 .. Len(ss[m + 1]) : f[Len(ss)][Len(f[m]) + x] = ss[m + 1][x]

LEMMA FlattenPlaces ==
  ASSUME NEW S, NEW ss \in Seq(Seq(S)), NEW f, Flattens(S, ss, f), NEW m \in 0 .. Len(ss) - 1
  PROVE  Placed(ss, f, m)
<1> DEFINE n == Len(ss)
           t == ss[m + 1]
           T == {d \in Nat : m + 1 + d <= n => Begins(f[m + 1 + d], f[m + 1])}
<1>1. /\ n \in Nat /\ \A k \in 1 .. n : ss[k] \in Seq(S)
      /\ \A k \in 0 .. n : f[k] \in Seq(S)
      /\ \A k \in 1 .. n : f[k] = f[k - 1] \o ss[k]
  <2>1. n \in Nat /\ \A k \in 1 .. n : ss[k] \in Seq(S)
    OBVIOUS
  <2>2. f \in [0 .. n -> Seq(S)] /\ \A k \in 1 .. n : f[k] = f[k - 1] \o ss[k]
    BY Zenon DEF Flattens
  <2> HIDE DEF n
  <2> QED BY <2>1, <2>2
<1>2. \A k \in 1 .. n : Joins(f[k], f[k - 1], ss[k])
  <2>1. ASSUME NEW k \in 1 .. n
        PROVE  Joins(f[k], f[k - 1], ss[k])
    <3>1. f[k - 1] \in Seq(S) /\ ss[k] \in Seq(S)
      BY <1>1
    <3>2. Joins(f[k - 1] \o ss[k], f[k - 1], ss[k])
      BY <3>1, ConcatJoins
    <3> QED BY <1>1, <3>2
  <2> QED BY <2>1
<1>3. \A k \in 0 .. n : Len(f[k]) \in Nat
  BY <1>1
<1>4. \A k \in 1 .. n : Len(ss[k]) \in Nat
  BY <1>1
<1> HIDE DEF n
<1>5. 0 \in T
  <2>1. m + 1 + 0 = m + 1 /\ m + 1 \in 0 .. n
    BY <1>1 DEF n
  <2>2. Begins(f[m + 1], f[m + 1])
    BY <1>3, <2>1 DEF Begins
  <2> QED BY <2>1, <2>2
<1>6. ASSUME NEW d \in T
      PROVE  d + 1 \in T
  <2>1. CASE m + 1 + (d + 1) <= n
    <3> DEFINE k == m + 1 + (d + 1)
    <3>1. k \in 1 .. n /\ k - 1 \in 0 .. n /\ m + 1 + d = k - 1 /\ m + 1 + d <= n /\ d \in Nat
          /\ m + 1 \in 0 .. n
      BY <1>1, <2>1
    <3>2. Begins(f[k - 1], f[m + 1])
      BY <3>1
    <3>3. Joins(f[k], f[k - 1], ss[k])
      BY <1>2, <3>1
    <3> HIDE DEF k, T
    <3>4. Begins(f[k], f[m + 1])
      <4> DEFINE a == f[k]
                 b == f[k - 1]
                 c == ss[k]
                 e == f[m + 1]
      <4>1. Begins(b, e) /\ Joins(a, b, c) /\ Len(b) \in Nat /\ Len(c) \in Nat /\ Len(e) \in Nat
        BY <1>3, <1>4, <3>1, <3>2, <3>3
      <4> HIDE DEF a, b, c, e
      <4>2. Begins(a, e)
        BY <4>1 DEF Begins, Joins
      <4> QED BY <4>2 DEF a, e
    <3> QED BY <3>1, <3>4 DEF T, k
  <2> QED BY <2>1
<1>7. T = Nat
  <2> HIDE DEF T
  <2> QED BY <1>5, <1>6, Induction DEF T
<1>8. Begins(f[n], f[m + 1])
  <2>1. n - (m + 1) \in Nat /\ m + 1 + (n - (m + 1)) = n
    BY <1>1 DEF n
  <2>2. n - (m + 1) \in T
    BY <1>7, <2>1
  <2> QED BY <1>1, <2>1, <2>2
<1>9. Joins(f[m + 1], f[m], t)
  <2>1. m + 1 \in 1 .. n /\ (m + 1) - 1 = m
    BY <1>1 DEF n
  <2> QED BY <1>2, <2>1
<1>10. Len(f[m]) \in Nat /\ Len(t) \in Nat
  <2>1. m + 1 \in 1 .. n /\ m \in 0 .. n
    BY <1>1 DEF n
  <2> QED BY <1>3, <1>4, <2>1
<1> DEFINE a == f[n]
           b == f[m + 1]
           c == f[m]
<1>11. Begins(a, b) /\ Joins(b, c, t) /\ Len(c) \in Nat /\ Len(t) \in Nat
  BY <1>8, <1>9, <1>10
<1> HIDE DEF a, b, c, t
<1>12. Len(b) = Len(c) + Len(t) /\ Len(b) <= Len(a) /\ \A x \in 1 .. Len(t) : a[Len(c) + x] = t[x]
  <2>1. Len(b) = Len(c) + Len(t) /\ Len(b) <= Len(a)
    BY <1>11 DEF Begins, Joins
  <2>2. ASSUME NEW x \in 1 .. Len(t)
        PROVE  a[Len(c) + x] = t[x]
    <3> DEFINE y == Len(c) + x
    <3>1. y \in 1 .. Len(b) /\ b[y] = t[x]
      BY <1>11, <2>1 DEF Joins
    <3> HIDE DEF y
    <3>2. a[y] = b[y]
      BY <1>11, <3>1 DEF Begins
    <3> QED BY <3>1, <3>2 DEF y
  <2> QED BY <2>1, <2>2
<1> QED BY <1>12 DEF Placed, a, b, c, t, n

(* What a conversion writes is as long as it says.                         *)
Counted(w) == w.text \in Seq(Characters) /\ w.ret = Len(w.text)

LEMMA CountedText ==
  ASSUME NEW t \in Seq(Characters), NEW n, n = Len(t)
  PROVE  Counted(written(t, n)) /\ written(t, n).text = t
BY DEF Counted, written

Word == 0 .. 2 * LONG_MAX + 1

(* The digits of a word in one of the two bases.                           *)
LEMMA WordDigits ==
  ASSUME NEW base, IsBase(base, Characters), NEW n \in Word
  PROVE  /\ digits_of(n, base) \in Seq(Characters) /\ Numeral(n, base) = digits_of(n, base)
         /\ ft_numlen_base(n, Len(base)) = Len(digits_of(n, base))
         /\ Len(digits_of(n, base)) \in Nat
<1>1. n \in Nat
  BY WordValues DEF Word
<1>2. digits_of(n, base) \in Seq(Characters) /\ Numeral(n, base) = digits_of(n, base)
  BY NumeralDigits DEF Word
<1>3. ft_numlen_base(n, Len(base)) = Len(digits_of(n, base))
  BY <1>1, DigitCounts
<1> QED BY <1>2, <1>3

LEMMA PutNbrRight ==
  ASSUME NEW n \in LONG_MIN .. LONG_MAX
  PROVE  /\ Counted(ft_putnbr_base(n, decimal))
         /\ n # LONG_MIN =>
              ft_putnbr_base(n, decimal).text =
                IF n < 0 THEN <<"-">> \o Numeral(- n, decimal) ELSE Numeral(n, decimal)
<1> DEFINE minus == <<"-">>
<1>1. LONG_MAX \in Nat /\ LONG_MIN = - LONG_MAX - 1
  BY WordValues DEF LONG_MIN
<1>2. IsBase(decimal, Characters)
  BY DecimalBase
<1>3. minus \in Seq(Characters) /\ Len(minus) = 1
  <2>1. "-" \in Characters
    BY DEF Characters, Written
  <2> QED BY <2>1
<1> HIDE DEF minus
<1>4. \A d \in Seq(Characters) : /\ minus \o d \in Seq(Characters) /\ Len(minus \o d) = 1 + Len(d)
                            /\ <<>> \o d = d
  <2>1. ASSUME NEW d \in Seq(Characters)
        PROVE  minus \o d \in Seq(Characters) /\ Len(minus \o d) = 1 + Len(d)
    BY <1>3, ConcatProperties
  <2>2. ASSUME NEW d \in Seq(Characters)
        PROVE  <<>> \o d = d
    BY ConcatEmptySeq
  <2> QED BY <2>1, <2>2
<1>5. CASE n = LONG_MIN
  <2> DEFINE d == digits_of(LONG_MAX, decimal)
  <2>1. LONG_MAX \in Word
    BY <1>1 DEF Word
  <2>2. d \in Seq(Characters)
    BY <1>2, <2>1, WordDigits
  <2> HIDE DEF d
  <2>3. ft_putnbr_base(n, decimal) = written(minus \o d, Len(minus \o d))
    BY <1>5 DEF ft_putnbr_base, d, minus
  <2> DEFINE t == minus \o d
  <2>4. t \in Seq(Characters)
    BY <1>4, <2>2
  <2> HIDE DEF t
  <2>5. Counted(ft_putnbr_base(n, decimal))
    BY <2>3, <2>4, CountedText DEF t
  <2> QED BY <1>5, <2>5
<1>6. CASE n # LONG_MIN /\ n < 0
  <2> DEFINE d == digits_of(- n, decimal)
  <2>1. - n \in Word
    BY <1>1, <1>6 DEF Word
  <2>2. /\ d \in Seq(Characters) /\ Numeral(- n, decimal) = d
        /\ ft_numlen_base(- n, Len(decimal)) = Len(d)
    BY <1>2, <2>1, WordDigits
  <2> HIDE DEF d
  <2>3. ft_putnbr_base(n, decimal) = written(minus \o d, 1 + Len(d))
    BY <1>3, <1>6, <2>2 DEF ft_putnbr_base, d, minus
  <2>4. /\ Counted(ft_putnbr_base(n, decimal))
        /\ ft_putnbr_base(n, decimal).text = minus \o Numeral(- n, decimal)
    <3> DEFINE t == minus \o d
    <3>1. t \in Seq(Characters) /\ Len(t) = 1 + Len(d)
      BY <1>4, <2>2
    <3> HIDE DEF t
    <3>2. ft_putnbr_base(n, decimal) = written(t, 1 + Len(d))
      BY <2>3 DEF t
    <3>3. Counted(ft_putnbr_base(n, decimal)) /\ ft_putnbr_base(n, decimal).text = t
      BY <3>1, <3>2, CountedText
    <3> QED BY <2>2, <3>3 DEF t
  <2> QED BY <1>6, <2>4 DEF minus
<1>7. CASE n # LONG_MIN /\ ~(n < 0)
  <2> DEFINE d == digits_of(n, decimal)
  <2>1. n \in Word
    BY <1>1, <1>7 DEF Word
  <2>2. /\ d \in Seq(Characters) /\ Numeral(n, decimal) = d
        /\ ft_numlen_base(n, Len(decimal)) = Len(d)
    BY <1>2, <2>1, WordDigits
  <2> HIDE DEF d
  <2>3. ft_putnbr_base(n, decimal) = written(<<>> \o d, Len(<<>>) + Len(d))
    BY <1>7, <2>2 DEF ft_putnbr_base, d
  <2>4. <<>> \o d = d /\ Len(<<>>) + Len(d) = Len(d)
    BY <1>4, <2>2
  <2> QED BY <1>7, <2>2, <2>3, <2>4, CountedText
<1> QED BY <1>5, <1>6, <1>7

LEMMA PutHexRight ==
  ASSUME NEW base, IsBase(base, Characters), Len(base) = 16, NEW n \in Word
  PROVE  /\ ft_puthex(n, base).text = Numeral(n, base)
         /\ ft_puthex(n, base).ret = Len(Numeral(n, base))
         /\ ft_numlen_base(n, 16) = Len(Numeral(n, base))
         /\ Numeral(n, base) \in Seq(Characters) /\ Len(Numeral(n, base)) \in Nat
BY WordDigits DEF ft_puthex, written

(* n zeros.                                                                *)
LEMMA Zeros ==
  ASSUME NEW n \in Nat
  PROVE  [k \in 1 .. n |-> "0"] \in Seq(Characters) /\ Len([k \in 1 .. n |-> "0"]) = n
<1>1. "0" \in Characters
  BY DEF Characters, Written
<1> QED BY <1>1

LEMMA PaddedHexRight ==
  ASSUME NEW f, f.type \in {"x", "X"}, f.zero \in BOOLEAN, f.width \in Nat, NEW n \in Word
  PROVE  /\ Counted(put_padded_hex(f, n))
         /\ put_padded_hex(f, n).text =
              Padded(Numeral(n, IF f.type = "x" THEN hex_lower ELSE hex_upper),
                     IF f.zero THEN f.width ELSE 0)
<1> DEFINE base == IF f.type = "x" THEN hex_lower ELSE hex_upper
           t == Numeral(n, base)
           width == IF f.zero THEN f.width ELSE 0
           pad == IF f.zero /\ Len(t) < f.width THEN f.width - Len(t) ELSE 0
           zeros == [k \in 1 .. pad |-> "0"]
<1>1. IsBase(base, Characters) /\ Len(base) = 16
  BY HexLower, HexUpper
<1> HIDE DEF base
<1>2. /\ ft_puthex(n, base).text = t /\ ft_numlen_base(n, 16) = Len(t)
      /\ t \in Seq(Characters) /\ Len(t) \in Nat
  BY <1>1, PutHexRight
<1> HIDE DEF t
<1>3. pad \in Nat /\ pad = Max({0, width - Len(t)})
  <2>1. width - Len(t) \in Int
    BY <1>2
  <2>2. Max({0, width - Len(t)}) = IF width - Len(t) > 0 THEN width - Len(t) ELSE 0
    BY <2>1, MaxWithZero
  <2> QED BY <1>2, <2>2
<1>4. put_padded_hex(f, n) = written(zeros \o t, Len(t) + pad)
  BY <1>2 DEF put_padded_hex, base
<1>5. Padded(t, width) = zeros \o t
  BY <1>3 DEF Padded
<1> HIDE DEF pad, width
<1>6. zeros \in Seq(Characters) /\ Len(zeros) = pad
  BY <1>3, Zeros
<1> HIDE DEF zeros
<1>7. zeros \o t \in Seq(Characters) /\ Len(t) + pad = Len(zeros \o t)
  BY <1>2, <1>3, <1>6, ConcatProperties
<1> QED BY <1>4, <1>5, <1>7, CountedText DEF t, base, width

Repeat(c, m) == [k \in 1 .. m |-> c]

(* Behind 0x, a literal of ft_putpointer.                                  *)
LEMMA PointerLiteral ==
  ASSUME NEW first \in Characters, NEW rest \in Characters, NEW m \in Nat,
         NEW d, Literally(d, first, rest, m)
  PROVE  /\ <<"0", "x", first>> \o Repeat(rest, m) = <<"0", "x">> \o d
         /\ <<"0", "x">> \o d \in Seq(Characters) /\ Len(<<"0", "x">> \o d) = 3 + m
<1> DEFINE a == <<"0", "x", first>>
           b == <<"0", "x">>
           c == [k \in 1 .. m |-> rest]
<1>1. "0" \in Characters /\ "x" \in Characters
  BY DEF Characters, Written
<1>2. a \in Seq(Characters) /\ b \in Seq(Characters)
  BY <1>1
<1>3. /\ Len(a) = 3 /\ a[1] = "0" /\ a[2] = "x" /\ a[3] = first
      /\ Len(b) = 2 /\ b[1] = "0" /\ b[2] = "x"
  OBVIOUS
<1>10. c \in Seq(Characters) /\ Len(c) = m
  OBVIOUS
<1>11. \A k \in 1 .. m : c[k] = rest
  OBVIOUS
<1> HIDE DEF a, b, c
<1>4. /\ a \in Seq(Characters) /\ Len(a) = 3 /\ a[1] = "0" /\ a[2] = "x" /\ a[3] = first
      /\ b \in Seq(Characters) /\ Len(b) = 2 /\ b[1] = "0" /\ b[2] = "x"
      /\ c \in Seq(Characters) /\ Len(c) = m
  BY <1>2, <1>3, <1>10
<1>5. \A k \in 1 .. m : c[k] = rest
  BY <1>11
<1>6. /\ d \in Seq(Characters) /\ Len(d) = m + 1 /\ d[1] = first
      /\ \A k \in 2 .. m + 1 : d[k] = rest
  BY DEF Literally
<1> DEFINE u == a \o c
           w == b \o d
<1>7. u \in Seq(Characters) /\ Joins(u, a, c) /\ w \in Seq(Characters) /\ Joins(w, b, d)
  BY <1>4, <1>6, ConcatJoins
<1> HIDE DEF u, w
<1>8. Len(u) = 3 + m /\ Len(w) = 3 + m
  BY <1>4, <1>6, <1>7 DEF Joins
<1>9. ASSUME NEW k \in 1 .. Len(u)
      PROVE  u[k] = w[k]
  <2>1. CASE k \in 1 .. 2
    <3>1. u[k] = a[k] /\ w[k] = b[k]
      BY <1>4, <1>7, <2>1 DEF Joins
    <3> QED BY <1>4, <2>1, <3>1
  <2>2. CASE k = 3
    <3>1. u[3] = a[3]
      BY <1>4, <1>7 DEF Joins
    <3>2. w[2 + 1] = d[1]
      BY <1>4, <1>6, <1>7 DEF Joins
    <3> QED BY <1>4, <1>6, <2>2, <3>1, <3>2
  <2>3. CASE k > 3
    <3>1. k - 3 \in 1 .. m /\ k - 2 \in 2 .. m + 1 /\ k = 3 + (k - 3) /\ k = 2 + (k - 2)
          /\ k - 2 \in 1 .. m + 1
      BY <1>8, <2>3
    <3>2. u[3 + (k - 3)] = c[k - 3]
      BY <1>4, <1>7, <3>1 DEF Joins
    <3>3. w[2 + (k - 2)] = d[k - 2]
      BY <1>4, <1>6, <1>7, <3>1 DEF Joins
    <3> QED BY <1>5, <1>6, <3>1, <3>2, <3>3
  <2> QED BY <1>8, <2>1, <2>2, <2>3
<1>12. u = w
  BY <1>7, <1>8, <1>9, SameElements
<1> QED BY <1>7, <1>8, <1>12 DEF u, w, a, b, c, Repeat

LEMMA PutPointerRight ==
  ASSUME NEW n \in Word
  PROVE  /\ Counted(ft_putpointer(n))
         /\ ft_putpointer(n).text = <<"0", "x">> \o Numeral(n, hex_lower)
<1> DEFINE m == LongBits \div 4 - 1
           d == Numeral(n, hex_lower)
           t == <<"0", "x">> \o d
<1>1. IsBase(hex_lower, Characters) /\ Len(hex_lower) = 16
  BY HexLower
<1>2. /\ ft_puthex(n, hex_lower).text = d /\ ft_puthex(n, hex_lower).ret = Len(d)
      /\ d \in Seq(Characters) /\ Len(d) \in Nat /\ d = digits_of(n, hex_lower)
  BY <1>1, PutHexRight, WordDigits
<1>3. LONG_MAX \in Nat /\ m \in Nat /\ LONG_MAX + 1 = 8 * power(16, m) /\ 2 + LongBits \div 4 = 3 + m
  BY WordValues, PrintfAssumption
<1>4. "0" \in Characters /\ "f" \in Characters /\ "7" \in Characters /\ "8" \in Characters /\ "x" \in Characters
  BY DEF Characters, Written
<1>5. t \in Seq(Characters) /\ Len(t) = Len(d) + 2
  <2>1. <<"0", "x">> \in Seq(Characters) /\ Len(<<"0", "x">>) = 2
    BY <1>4
  <2> DEFINE e == <<"0", "x">>
  <2> HIDE DEF e, d
  <2>2. e \in Seq(Characters) /\ Len(e) = 2 /\ d \in Seq(Characters)
    BY <1>2, <2>1 DEF e
  <2>3. e \o d \in Seq(Characters) /\ Len(e \o d) = Len(e) + Len(d)
    BY <2>2, ConcatProperties
  <2>4. Len(e) + Len(d) = Len(d) + 2
    BY <1>2, <2>2
  <2> QED BY <2>3, <2>4 DEF e
<1>6. CASE n = LONG_MAX + 1
  <2>1. Literally(d, "8", "0", m)
    BY <1>2, <1>3, <1>6, PointerDigits
  <2> HIDE DEF d, m
  <2>2. <<"0", "x", "8">> \o Repeat("0", m) = t /\ Len(t) = 3 + m
    BY <1>3, <1>4, <2>1, PointerLiteral
  <2>3. ft_putpointer(n) = written(<<"0", "x", "8">> \o Repeat("0", m), 2 + LongBits \div 4)
    <3>1. n # LONG_MAX
      BY <1>3, <1>6
    <3> QED BY <1>6, <3>1 DEF ft_putpointer, Repeat, m
  <2> HIDE DEF t
  <2>4. Counted(ft_putpointer(n)) /\ ft_putpointer(n).text = t
    BY <1>3, <1>5, <2>2, <2>3, CountedText
  <2> QED BY <2>4 DEF t, d
<1>7. CASE n = LONG_MAX
  <2>1. Literally(d, "7", "f", m)
    <3>1. n = 8 * power(16, m) - 1
      <4> DEFINE p == 8 * power(16, m)
      <4>1. LONG_MAX \in Nat /\ LONG_MAX + 1 = p
        BY <1>3
      <4> HIDE DEF p
      <4>2. p = LONG_MAX + 1 /\ (LONG_MAX + 1) - 1 = LONG_MAX
        BY <4>1
      <4> QED BY <1>7, <4>2 DEF p
    <3> QED BY <1>2, <1>3, <3>1, PointerDigits
  <2> HIDE DEF d, m
  <2>2. <<"0", "x", "7">> \o Repeat("f", m) = t /\ Len(t) = 3 + m
    BY <1>3, <1>4, <2>1, PointerLiteral
  <2>3. ft_putpointer(n) = written(<<"0", "x", "7">> \o Repeat("f", m), 2 + LongBits \div 4)
    <3>1. n # LONG_MAX + 1
      BY <1>3, <1>7
    <3> QED BY <1>7, <3>1 DEF ft_putpointer, Repeat, m
  <2> HIDE DEF t
  <2>4. Counted(ft_putpointer(n)) /\ ft_putpointer(n).text = t
    BY <1>3, <1>5, <2>2, <2>3, CountedText
  <2> QED BY <2>4 DEF t, d
<1>8. CASE n # LONG_MAX + 1 /\ n # LONG_MAX
  <2> HIDE DEF d
  <2>1. ft_putpointer(n) = written(t, Len(d) + 2)
    BY <1>2, <1>8 DEF ft_putpointer
  <2> HIDE DEF t
  <2>2. Counted(ft_putpointer(n)) /\ ft_putpointer(n).text = t
    BY <1>5, <2>1, CountedText
  <2> QED BY <2>2 DEF t, d
<1> QED BY <1>6, <1>7, <1>8

(* What a directive writes is counted, and it is what the caller meant.    *)
Given(p) == IF p.type = "%" THEN NUL ELSE p.arg

LEMMA DirectiveWrites ==
  ASSUME NEW p, Directive(p), NEW f, f.type = p.type, f.zero = p.zero, f.width = p.width
  PROVE  /\ Counted(ft_flagcheck(f, Given(p)))
         /\ (p.type = "z" => p.arg <= LONG_MAX) => ft_flagcheck(f, Given(p)).text = Meaning(p)
<1> DEFINE w == ft_flagcheck(f, Given(p))
<1>1. /\ p.type \in {"d", "i", "u", "c", "s", "x", "X", "p", "z", "%"}
      /\ p.zero \in BOOLEAN /\ p.width \in 0 .. INT_MAX
      /\ p.type \in {"d", "i"} => p.arg \in - INT_MAX - 1 .. INT_MAX
      /\ p.type \in {"u", "x", "X"} => p.arg \in 0 .. 2 * INT_MAX + 1
      /\ p.type \in {"p", "z"} => p.arg \in 0 .. 2 * LONG_MAX + 1
      /\ p.type = "c" => p.arg \in STRING
      /\ p.type = "s" => p.arg = NUL \/ p.arg \in Seq(STRING)
  BY DEF Directive
<1>2. /\ LONG_MAX \in Nat /\ LONG_MIN = - LONG_MAX - 1 /\ power(2, LongBits) = 2 * LONG_MAX + 2
      /\ LONG_MAX >= 7 /\ INT_MAX \in Nat /\ 2 * INT_MAX + 1 <= LONG_MAX
  BY WordValues, IntsFit DEF LONG_MIN
<1>3. CASE p.type \in {"d", "i", "u"}
  <2>1. w = ft_putnbr_base(p.arg, decimal)
    BY <1>3 DEF ft_flagcheck, Given
  <2>2. p.arg \in LONG_MIN .. LONG_MAX /\ p.arg # LONG_MIN
    BY <1>1, <1>2, <1>3
  <2>3. Meaning(p) =
          IF p.arg < 0 THEN <<"-">> \o Numeral(- p.arg, decimal) ELSE Numeral(p.arg, decimal)
    BY <1>3 DEF Meaning
  <2> QED BY <2>1, <2>2, <2>3, PutNbrRight
<1>4. CASE p.type = "z"
  <2>1. w = ft_putnbr_base(to_long(p.arg), decimal)
    BY <1>4 DEF ft_flagcheck, Given
  <2>2. /\ to_long(p.arg) \in LONG_MIN .. LONG_MAX
        /\ p.arg <= LONG_MAX => to_long(p.arg) = p.arg /\ p.arg # LONG_MIN
    BY <1>1, <1>2, <1>4 DEF to_long
  <2>3. Meaning(p) =
          IF p.arg < 0 THEN <<"-">> \o Numeral(- p.arg, decimal) ELSE Numeral(p.arg, decimal)
    BY <1>4 DEF Meaning
  <2>4. Counted(w)
    BY <2>1, <2>2, PutNbrRight
  <2>5. p.arg <= LONG_MAX => w.text = Meaning(p)
    BY <2>1, <2>2, <2>3, PutNbrRight
  <2> QED BY <1>4, <2>4, <2>5
<1>5. CASE p.type = "c"
  <2>1. w = written(<<p.arg>>, 1) /\ Meaning(p) = <<p.arg>>
    BY <1>5 DEF ft_flagcheck, Given, ft_putchar, Meaning
  <2>2. p.arg \in Characters
    BY <1>1, <1>5 DEF Characters
  <2>3. <<p.arg>> \in Seq(Characters) /\ Len(<<p.arg>>) = 1
    BY <2>2
  <2> QED BY <2>1, <2>3, CountedText
<1>6. CASE p.type = "s" /\ p.arg = NUL
  <2> DEFINE t == <<"(", "n", "u", "l", "l", ")">>
  <2>1. w = written(t, 6) /\ Meaning(p) = t
    BY <1>6 DEF ft_flagcheck, Given, ft_putstr, Meaning
  <2>2. t \in Seq(Characters) /\ Len(t) = 6
    <3>1. "(" \in Characters /\ "n" \in Characters /\ "u" \in Characters /\ "l" \in Characters /\ ")" \in Characters
      BY DEF Characters, Written
    <3> QED BY <3>1
  <2> HIDE DEF t
  <2> QED BY <2>1, <2>2, CountedText
<1>7. CASE p.type = "s" /\ p.arg # NUL
  <2>1. w = written(p.arg, Len(p.arg)) /\ Meaning(p) = p.arg
    BY <1>7 DEF ft_flagcheck, Given, ft_putstr, Meaning
  <2>2. p.arg \in Seq(Characters)
    BY <1>1, <1>7 DEF Characters
  <2> QED BY <2>1, <2>2, CountedText
<1>8. CASE p.type \in {"x", "X"}
  <2>1. w = put_padded_hex(f, p.arg)
    BY <1>8 DEF ft_flagcheck, Given
  <2>2. p.arg \in Word /\ f.type \in {"x", "X"} /\ f.zero \in BOOLEAN /\ f.width \in Nat
    BY <1>1, <1>2, <1>8 DEF Word
  <2>3. Meaning(p) = Padded(Numeral(p.arg, IF f.type = "x" THEN hex_lower ELSE hex_upper),
                            IF f.zero THEN f.width ELSE 0)
    BY <1>8 DEF Meaning
  <2> QED BY <2>1, <2>2, <2>3, PaddedHexRight
<1>9. CASE p.type = "p"
  <2>1. w = ft_putpointer(p.arg) /\ Meaning(p) = <<"0", "x">> \o Numeral(p.arg, hex_lower)
    BY <1>9 DEF ft_flagcheck, Given, Meaning
  <2>2. p.arg \in Word
    BY <1>1, <1>9 DEF Word
  <2> QED BY <2>1, <2>2, PutPointerRight
<1>10. CASE p.type = "%"
  <2>1. w = written(<<"%">>, 1) /\ Meaning(p) = <<"%">>
    BY <1>10 DEF ft_flagcheck, ft_putchar, Meaning
  <2>2. <<"%">> \in Seq(Characters) /\ Len(<<"%">>) = 1
    <3>1. "%" \in Characters
      BY DEF Characters, Written
    <3> QED BY <3>1
  <2> QED BY <2>1, <2>2, CountedText
<1> QED BY <1>1, <1>3, <1>4, <1>5, <1>6, <1>7, <1>8, <1>9, <1>10

(* The characters of a number are the digits of its value.                 *)
DecimalDigit(c) == \E v \in 0 .. 9 : c = decimal[v + 1] /\ digit_value(c) = v

LEMMA DigitValue ==
  ASSUME NEW v \in 0 .. 9
  PROVE  DecimalDigit(decimal[v + 1]) /\ digit_value(decimal[v + 1]) = v
<1>1. \A x, y \in 0 .. 9 : decimal[x + 1] = decimal[y + 1] => x = y
  BY DEF decimal
<1> DEFINE c == decimal[v + 1]
           u == CHOOSE x \in 0 .. 9 : decimal[x + 1] = c
<1>2. u \in 0 .. 9 /\ decimal[u + 1] = c
  BY Zenon
<1>3. digit_value(c) = u
  BY Zenon DEF digit_value
<1> HIDE DEF u
<1>4. u = v
  BY <1>1, <1>2
<1> QED BY <1>3, <1>4 DEF DecimalDigit

(* r reads the digits d one after the other.                               *)
Reads(r, d) == r[0] = 0 /\ \A m \in 1 .. Len(d) : r[m] = r[m - 1] * 10 + digit_value(d[m])

LEMMA ReadsBack ==
  ASSUME NEW n \in Nat, NEW r, Reads(r, digits_of(n, decimal))
  PROVE  r[Len(digits_of(n, decimal))] = n
<1> DEFINE T == {x \in Nat : \A q : Reads(q, digits_of(x, decimal)) => q[Len(digits_of(x, decimal))] = x}
<1>1. IsBase(decimal, Characters) /\ Len(decimal) = 10
  BY DecimalBase
<1>2. \A x \in Nat :
           /\ digits_of(x, decimal) \in Seq(Characters) /\ decimal[(x % 10) + 1] \in Characters
           /\ digits_of(x, decimal) =
                IF x >= 10 THEN digits_of(x \div 10, decimal) \o <<decimal[(x % 10) + 1]>>
                ELSE <<decimal[x + 1]>>
  BY <1>1, DigitSteps
<1>3. ASSUME NEW x \in Nat, \A y \in 0 .. x - 1 : y \in T
      PROVE  x \in T
  <2> SUFFICES ASSUME NEW q, Reads(q, digits_of(x, decimal))
               PROVE  q[Len(digits_of(x, decimal))] = x
    OBVIOUS
  <2> DEFINE d == digits_of(x, decimal)
  <2>1. CASE ~(x >= 10)
    <3>1. d = <<decimal[x + 1]>>
      BY <1>2, <2>1
    <3>2. x \in 0 .. 9
      BY <2>1
    <3>3. digit_value(decimal[x + 1]) = x
      BY <3>2, DigitValue
    <3> HIDE DEF d
    <3>4. Len(d) = 1 /\ d[1] = decimal[x + 1]
      BY <3>1
    <3>5. q[0] = 0 /\ q[1] = q[1 - 1] * 10 + digit_value(d[1])
      BY <3>4 DEF Reads, d
    <3>6. q[1] = 0 * 10 + x
      <4>1. 1 - 1 = 0
        OBVIOUS
      <4> QED BY <3>3, <3>4, <3>5, <4>1
    <3> QED BY <3>4, <3>6 DEF d
  <2>2. CASE x >= 10
    <3> DEFINE y == x \div 10
               z == x % 10
               e == digits_of(y, decimal)
               c == decimal[z + 1]
    <3>1. y \in 0 .. x - 1 /\ y \in Nat /\ z \in 0 .. 9 /\ x = y * 10 + z
      <4>1. /\ y \in Nat /\ z \in 0 .. 10 - 1 /\ x = 10 * y + z
            /\ y < x
        BY <2>2, BaseDivision DEF Bases
      <4> HIDE DEF y, z
      <4> QED BY <4>1
    <3>2. d = e \o <<c>> /\ c \in Characters /\ e \in Seq(Characters)
      BY <1>2, <2>2, <3>1
    <3>3. y \in T
      BY <1>3, <3>1
    <3>4. digit_value(c) = z
      BY <3>1, DigitValue
    <3> HIDE DEF y, z, c, d
    <3>5. Joins(d, e, <<c>>)
      <4>1. <<c>> \in Seq(Characters)
        BY <3>2
      <4> QED BY <3>2, <4>1, ConcatJoins
    <3> DEFINE l == Len(e)
    <3>6. l \in Nat /\ Len(d) = l + 1 /\ (\A k \in 1 .. l : d[k] = e[k]) /\ d[l + 1] = c
      <4> DEFINE o == <<c>>
      <4>1. Len(o) = 1 /\ o[1] = c /\ Joins(d, e, o) /\ e \in Seq(Characters)
        BY <3>2, <3>5
      <4> HIDE DEF o, e
      <4> QED BY <4>1 DEF Joins
    <3>7. q[0] = 0 /\ \A m \in 1 .. Len(d) : q[m] = q[m - 1] * 10 + digit_value(d[m])
      BY DEF Reads, d
    <3> HIDE DEF e, l
    <3>8. Reads(q, e)
      <4>1. \A m \in 1 .. l : q[m] = q[m - 1] * 10 + digit_value(e[m])
        BY <3>6, <3>7
      <4> QED BY <3>7, <4>1 DEF Reads, l
    <3>9. q[l] = y
      BY <3>3, <3>8 DEF e, l
    <3>10. q[l + 1] = q[(l + 1) - 1] * 10 + digit_value(d[l + 1]) /\ (l + 1) - 1 = l
      BY <3>6, <3>7
    <3>11. q[l + 1] = y * 10 + z
      BY <3>4, <3>6, <3>9, <3>10
    <3> QED BY <3>1, <3>6, <3>11 DEF d
  <2> QED BY <2>1, <2>2
<1>4. T = Nat
  <2>1. T \in SUBSET Nat
    OBVIOUS
  <2> HIDE DEF T
  <2>2. Progressive(T)
    BY <1>3, <2>1 DEF Progressive
  <2> QED BY <2>2, CompleteInduction
<1>5. n \in T
  BY <1>4
<1> QED BY <1>5

Spells(d, value) == \A r : Reads(r, d) => r[Len(d)] = value

(* The loop over the width computes the number its digits stand for, if an *)
(* int can hold it: then it holds every number on the way, and nothing is  *)
(* wrapped.                                                                *)
LEMMA WidthReads ==
  ASSUME NEW first \in Nat, NEW d \in Seq(Characters),
         \A k \in 1 .. Len(d) : at(first + k - 1) = d[k] /\ DecimalDigit(d[k]),
         NEW value \in 0 .. INT_MAX, Spells(d, value)
  PROVE  width_of(first, first + Len(d)) = value
<1> DEFINE n == Len(d)
           A == 0 .. n
           B == 1 .. n
           M == [a \in A |-> a]
           P == [a \in B |-> a - 1]
           D == [a \in B |-> [v \in Nat |-> v * 10 + digit_value(d[a])]]
           C == [a \in A \ B |-> 0]
           stop == first + n
           Width(g) == g = [m \in 0 .. stop - first |->
                              IF m = 0 THEN 0
                              ELSE as_int(g[m - 1] * 10 + digit_value(at(first + m - 1)))]
<1>1. n \in Nat /\ stop - first = n
  OBVIOUS
<1>2. \A a \in B : digit_value(d[a]) \in Nat /\ at(first + a - 1) = d[a]
  BY DEF DecimalDigit
<1> HIDE DEF n
<1>3. PICK r \in [A -> Nat] : \A a \in A : r[a] = IF a \in B THEN D[a][r[P[a]]] ELSE C[a]
  <2>1. B \in SUBSET A /\ M \in [A -> Nat] /\ P \in [B -> A] /\ \A a \in B : M[P[a]] < M[a]
    BY <1>1
  <2>2. D \in [B -> [Nat -> Nat]]
    <3>1. \A a \in B, v \in Nat : v * 10 + digit_value(d[a]) \in Nat
      BY <1>2
    <3> HIDE DEF B
    <3> QED BY <3>1
  <2>3. C \in [A \ B -> Nat]
    OBVIOUS
  <2> HIDE DEF A, B, M, P, C, D
  <2>4. Recursion(A, Nat, B, M, P, C, D)
    BY <2>1, <2>2, <2>3 DEF Recursion
  <2> QED BY <2>4, RecursiveFunction
<1>4. r[0] = 0
  <2>1. 0 \in A /\ 0 \notin B /\ C[0] = 0
    BY <1>1
  <2> HIDE DEF A, B, C, D, P
  <2> QED BY <1>3, <2>1
<1>5. ASSUME NEW m \in B
      PROVE  r[m] = r[m - 1] * 10 + digit_value(d[m])
  <2>1. m \in A /\ P[m] = m - 1 /\ m - 1 \in A
    BY <1>1
  <2>2. D[m] = [v \in Nat |-> v * 10 + digit_value(d[m])] /\ r[m - 1] \in Nat
    <3> HIDE DEF A, B
    <3> QED BY <1>3, <2>1
  <2>3. r[m] = D[m][r[m - 1]]
    <3> HIDE DEF A, B, D, P, C
    <3> QED BY <1>3, <2>1
  <2> QED BY <2>2, <2>3
<1>6. r[n] = value
  <2>1. \A m \in 1 .. Len(d) : r[m] = r[m - 1] * 10 + digit_value(d[m])
    BY <1>5 DEF n
  <2>2. Reads(r, d)
    BY <1>4, <2>1 DEF Reads
  <2> QED BY <2>2 DEF n, Spells
<1>7. \A m \in A : r[m] \in 0 .. INT_MAX
  <2>1. \A m \in A : r[m] \in Nat
    BY <1>3
  <2>2. INT_MAX \in Nat
    BY IntsFit
  <2> DEFINE T == {k \in Nat : k <= n => r[n - k] <= INT_MAX}
  <2>3. 0 \in T
    BY <1>1, <1>6
  <2>4. ASSUME NEW k \in T
        PROVE  k + 1 \in T
    <3>1. CASE k + 1 <= n
      <4> DEFINE m == n - k
                 v == r[m - 1]
                 c == digit_value(d[m])
      <4>1. m \in B /\ m \in A /\ m - 1 \in A /\ m - 1 = n - (k + 1)
        BY <1>1, <3>1
      <4>2. r[m] <= INT_MAX
        BY <1>1, <3>1
      <4> HIDE DEF m, A, B
      <4>3. r[m] = v * 10 + c /\ c \in Nat /\ v \in Nat /\ r[m] \in Nat
        BY <1>2, <1>5, <2>1, <4>1
      <4> HIDE DEF v, c
      <4>4. v <= INT_MAX
        BY <2>2, <4>2, <4>3
      <4> QED BY <4>1, <4>4 DEF v
    <3> QED BY <3>1
  <2>5. T = Nat
    <3> HIDE DEF T
    <3> QED BY <2>3, <2>4, Induction DEF T
  <2>6. ASSUME NEW m \in A
        PROVE  r[m] \in 0 .. INT_MAX
    <3>1. n - m \in Nat /\ n - m <= n /\ n - (n - m) = m
      BY <1>1
    <3>2. n - m \in T
      BY <2>5, <3>1
    <3>3. r[n - (n - m)] <= INT_MAX
      BY <3>1, <3>2
    <3> QED BY <2>1, <2>2, <3>1, <3>3
  <2> QED BY <2>6
<1>8. ASSUME NEW m \in B
      PROVE  r[m] = as_int(r[m - 1] * 10 + digit_value(d[m]))
  <2>1. m \in A
    BY <1>1
  <2>2. r[m] \in 0 .. INT_MAX
    BY <1>7, <2>1
  <2> QED BY <1>5, <2>2, IntsFit
<1>9. Width(r)
  <2>1. ASSUME NEW m \in 0 .. n
        PROVE  r[m] = IF m = 0 THEN 0 ELSE as_int(r[m - 1] * 10 + digit_value(at(first + m - 1)))
    <3>1. CASE m = 0
      BY <1>4, <3>1
    <3>2. CASE m # 0
      <4>1. m \in B
        BY <1>1, <3>2
      <4> QED BY <1>2, <1>8, <3>2, <4>1
    <3> QED BY <3>1, <3>2
  <2>2. r = [m \in 0 .. n |-> r[m]]
    BY <1>3
  <2>3. r = [m \in 0 .. n |-> IF m = 0 THEN 0
                             ELSE as_int(r[m - 1] * 10 + digit_value(at(first + m - 1)))]
    BY <2>1, <2>2
  <2> QED BY <1>1, <2>3
<1> DEFINE g == CHOOSE h : Width(h)
<1>10. Width(g)
  <2> HIDE DEF Width
  <2> QED BY <1>9, Zenon
<1>11. width_of(first, stop) = g[stop - first]
  BY Zenon DEF width_of
<1> HIDE DEF g
<1>12. g[0] = 0 /\ \A m \in B : g[m] = as_int(g[m - 1] * 10 + digit_value(d[m]))
  <2>1. ASSUME NEW m \in 0 .. n
        PROVE  g[m] = IF m = 0 THEN 0 ELSE as_int(g[m - 1] * 10 + digit_value(at(first + m - 1)))
    BY <1>1, <1>10
  <2> HIDE DEF Width
  <2>2. g[0] = 0
    BY <1>1, <2>1
  <2>3. ASSUME NEW m \in B
        PROVE  g[m] = as_int(g[m - 1] * 10 + digit_value(d[m]))
    <3>1. m \in 0 .. n /\ m # 0
      BY <1>1
    <3> QED BY <1>2, <2>1, <3>1
  <2> QED BY <2>2, <2>3
<1> HIDE DEF Width
<1>13. g[n] = r[n]
  <2> DEFINE T == {m \in Nat : m <= n => g[m] = r[m]}
  <2>1. 0 \in T
    BY <1>4, <1>12
  <2>2. ASSUME NEW m \in T
        PROVE  m + 1 \in T
    <3>1. CASE m + 1 <= n
      <4> DEFINE y == m + 1
      <4>1. y \in B /\ y - 1 = m /\ g[m] = r[m]
        BY <1>1, <3>1
      <4> HIDE DEF y, B
      <4>2. g[y] = as_int(g[y - 1] * 10 + digit_value(d[y]))
        BY <1>12, <4>1
      <4>3. r[y] = as_int(r[y - 1] * 10 + digit_value(d[y]))
        BY <1>8, <4>1
      <4>4. g[y] = r[y]
        BY <4>1, <4>2, <4>3
      <4> QED BY <4>4 DEF y
    <3> QED BY <3>1
  <2>3. T = Nat
    <3> HIDE DEF T
    <3> QED BY <2>1, <2>2, Induction DEF T
  <2>4. n \in T
    BY <1>1, <2>3
  <2> QED BY <1>1, <2>4
<1> QED BY <1>1, <1>6, <1>11, <1>13 DEF n

(* Where the parts of a directive are.                                     *)
WidthDigits(p) == IF p.width = 0 THEN <<>> ELSE Numeral(p.width, decimal)

Parts(p, z, d) ==
  /\ p.text \in Seq(Characters)
  /\ Len(p.text) = 2 + z + Len(d) + (IF p.type = "z" THEN 1 ELSE 0)
  /\ p.text[1] = "%" /\ (p.zero => p.text[2] = "0")
  /\ \A k \in 1 .. Len(d) : p.text[1 + z + k] = d[k]
  /\ p.text[2 + z + Len(d)] = p.type

LEMMA DirectiveText ==
  ASSUME NEW p, Directive(p)
  PROVE  /\ WidthDigits(p) \in Seq(Characters)
         /\ Parts(p, IF p.zero THEN 1 ELSE 0, WidthDigits(p))
<1> DEFINE z == IF p.zero THEN 1 ELSE 0
           a == <<"%">>
           b == IF p.zero THEN <<"0">> ELSE <<>>
           d == WidthDigits(p)
           c == IF p.type = "z" THEN <<"z", "u">> ELSE <<p.type>>
<1>1. /\ p.type \in {"d", "i", "u", "c", "s", "x", "X", "p", "z", "%"}
      /\ p.zero \in BOOLEAN /\ p.width \in 0 .. INT_MAX
      /\ p.text = a \o b \o d \o c
  BY DEF Directive, WidthDigits
<1>2. p.type \in Characters /\ "%" \in Characters /\ "0" \in Characters /\ "z" \in Characters /\ "u" \in Characters
  BY <1>1 DEF Characters, Written
<1>3. d \in Seq(Characters)
  <2>1. p.width \in Word
    BY <1>1, WordValues, IntsFit DEF Word
  <2> QED BY <2>1, DecimalBase, WordDigits DEF WidthDigits
<1>4. a \in Seq(Characters) /\ Len(a) = 1 /\ a[1] = "%"
  BY <1>2
<1>5. b \in Seq(Characters) /\ Len(b) = z /\ (p.zero => b[1] = "0")
  BY <1>2
<1>6. c \in Seq(Characters) /\ Len(c) = 1 + (IF p.type = "z" THEN 1 ELSE 0) /\ c[1] = p.type
  BY <1>2
<1> HIDE DEF a, b, c, d
<1> DEFINE ab == a \o b
           abd == ab \o d
           all == abd \o c
<1>7. ab \in Seq(Characters) /\ Joins(ab, a, b)
  BY <1>4, <1>5, ConcatJoins
<1> HIDE DEF ab
<1>8. abd \in Seq(Characters) /\ Joins(abd, ab, d)
  BY <1>3, <1>7, ConcatJoins
<1> HIDE DEF abd
<1>9. all \in Seq(Characters) /\ Joins(all, abd, c)
  BY <1>6, <1>8, ConcatJoins
<1>10. p.text = all
  BY <1>1 DEF ab, abd
<1> HIDE DEF all
<1> DEFINE n == Len(d)
<1>11. n \in Nat /\ z \in 0 .. 1
  BY <1>3
<1> HIDE DEF n, z
<1>12. Len(ab) = 1 + z /\ ab[1] = "%" /\ (p.zero => ab[2] = "0")
  <2>1. Len(ab) = 1 + z /\ ab[1] = "%"
    BY <1>4, <1>5, <1>7, <1>11 DEF Joins
  <2>2. ASSUME p.zero
        PROVE  ab[2] = "0"
    <3>1. z = 1
      BY <2>2 DEF z
    <3>2. ab[1 + 1] = b[1]
      BY <1>4, <1>5, <1>7, <3>1 DEF Joins
    <3> QED BY <1>5, <2>2, <3>2
  <2> QED BY <2>1, <2>2
<1>13. /\ Len(abd) = 1 + z + n /\ \A k \in 1 .. 1 + z : abd[k] = ab[k]
       /\ \A k \in 1 .. n : abd[1 + z + k] = d[k]
  BY <1>8, <1>11, <1>12 DEF Joins, n
<1>14. /\ Len(all) = 1 + z + n + Len(c) /\ \A k \in 1 .. 1 + z + n : all[k] = abd[k]
       /\ \A k \in 1 .. Len(c) : all[1 + z + n + k] = c[k]
  BY <1>9, <1>11, <1>13 DEF Joins
<1>15. Len(all) = 2 + z + n + (IF p.type = "z" THEN 1 ELSE 0)
  BY <1>6, <1>11, <1>14
<1>16. all[1] = "%" /\ (p.zero => all[2] = "0")
  <2>1. all[1] = "%"
    BY <1>11, <1>12, <1>13, <1>14
  <2>2. ASSUME p.zero
        PROVE  all[2] = "0"
    <3>1. z = 1
      BY <2>2 DEF z
    <3> QED BY <1>11, <1>12, <1>13, <1>14, <2>2, <3>1
  <2> QED BY <2>1, <2>2
<1>17. ASSUME NEW k \in 1 .. n
       PROVE  all[1 + z + k] = d[k]
  <2>1. 1 + z + k \in 1 .. 1 + z + n
    BY <1>11
  <2> QED BY <1>13, <1>14, <2>1
<1>18. all[2 + z + n] = p.type
  <2>1. 1 \in 1 .. Len(c)
    BY <1>6
  <2>2. all[1 + z + n + 1] = c[1] /\ 1 + z + n + 1 = 2 + z + n
    BY <1>11, <1>14, <2>1
  <2> QED BY <1>6, <2>2
<1> QED BY <1>3, <1>9, <1>10, <1>15, <1>16, <1>17, <1>18 DEF Parts, n, z, d

(* The digits of a width are those the loop goes on for, and they read     *)
(* back as the width.                                                      *)
LEMMA WidthOfDirective ==
  ASSUME NEW p, Directive(p)
  PROVE  /\ \A k \in 1 .. Len(WidthDigits(p)) :
              DecimalDigit(WidthDigits(p)[k]) /\ width_digit(WidthDigits(p)[k])
         /\ \A r : Reads(r, WidthDigits(p)) => r[Len(WidthDigits(p))] = p.width
<1> DEFINE d == WidthDigits(p)
<1>1. p.width \in 0 .. INT_MAX /\ \A k \in DOMAIN d : d[k] # "0"
  BY DEF Directive, WidthDigits
<1>2. CASE p.width = 0
  <2>1. d = <<>>
    BY <1>2 DEF WidthDigits
  <2> HIDE DEF d
  <2>2. Len(d) = 0
    BY <2>1
  <2>3. \A r : Reads(r, d) => r[Len(d)] = p.width
    BY <1>2, <2>2 DEF Reads
  <2> QED BY <2>2, <2>3 DEF d
<1>3. CASE p.width # 0
  <2> DEFINE n == p.width
  <2>1. n \in Nat /\ n \in Word
    BY <1>1, WordValues, IntsFit DEF Word
  <2>2. IsBase(decimal, Characters) /\ Len(decimal) = 10
    BY DecimalBase
  <2>3. d = digits_of(n, decimal) /\ d \in Seq(Characters)
    BY <1>3, <2>1, <2>2, WordDigits DEF WidthDigits
  <2>4. IsNumeral(d, n, decimal)
    BY <2>1, <2>2, <2>3, DigitsAreNumeral
  <2>5. \A r : Reads(r, d) => r[Len(d)] = n
    BY <2>1, <2>3, ReadsBack
  <2>6. \A k \in 1 .. Len(d) : d[k] = decimal[((n \div power(10, Len(d) - k)) % 10) + 1]
    BY <2>2, <2>4 DEF IsNumeral
  <2>7. DOMAIN d = 1 .. Len(d)
    BY <2>3
  <2> HIDE DEF d, n
  <2>8. Len(d) \in Nat
    BY <2>3
  <2>9. \A k \in Nat : power(10, k) \in Nat \ {0}
    BY PowersGrow
  <2>10. ASSUME NEW k \in 1 .. Len(d)
         PROVE  DecimalDigit(d[k]) /\ width_digit(d[k])
    <3> DEFINE q == power(10, Len(d) - k)
               a == n \div q
               v == a % 10
    <3>1. q \in Nat \ {0}
      <4>1. Len(d) - k \in Nat
        BY <2>8
      <4> QED BY <2>9, <4>1
    <3>2. d[k] = decimal[v + 1]
      BY <2>6
    <3> HIDE DEF q
    <3>3. a \in Nat
      BY <2>1, <3>1
    <3> HIDE DEF a
    <3>4. v \in 0 .. 9
      BY <3>3
    <3> HIDE DEF v
    <3>5. d[k] # "0"
      BY <1>1, <2>7
    <3>6. decimal[0 + 1] = "0"
      BY DEF decimal
    <3>7. v # 0
      BY <3>2, <3>5, <3>6
    <3>8. v \in 1 .. 9
      BY <3>4, <3>7
    <3> QED BY <3>2, <3>4, <3>8, DigitValue DEF width_digit
  <2> QED BY <2>5, <2>10 DEF d, n
<1> QED BY <1>2, <1>3

LEMMA TypeEnds ==
  ASSUME NEW c \in {"d", "i", "u", "c", "s", "x", "X", "p", "z", "%"}
  PROVE  ~width_digit(c) /\ c # "0"
BY DEF width_digit, decimal

(* The format has t from index k on.                                       *)
TextAt(k, t) ==
  /\ Len(s) \in Nat /\ k + Len(t) - 1 <= Len(s)
  /\ \A x \in 1 .. Len(t) : at(k + x - 1) = t[x]

(* parse_format finds what the caller wrote, and the end of it.            *)
Parsed(f, k, p) ==
  /\ f.type = p.type /\ f.zero = p.zero /\ f.width = p.width
  /\ f.next + 1 = k + Len(p.text)

LEMMA ParsesDirective ==
  ASSUME NEW p, Directive(p), NEW k \in Nat \ {0}, TextAt(k, p.text)
  PROVE  Parsed(parse_format(k), k, p)
<1> DEFINE z == IF p.zero THEN 1 ELSE 0
           d == WidthDigits(p)
           n == Len(d)
           zero == at(k + 1) = "0"
           first == IF zero THEN k + 2 ELSE k + 1
           U == {m \in first .. Len(s) + 1 : ~width_digit(at(m))}
           stop == Min(U)
           f == format_from(k)
           rest == IF p.type = "z" THEN 1 ELSE 0
<1>1. /\ p.type \in {"d", "i", "u", "c", "s", "x", "X", "p", "z", "%"}
      /\ p.zero \in BOOLEAN /\ p.width \in 0 .. INT_MAX
  BY DEF Directive
<1>2. d \in Seq(Characters) /\ Parts(p, z, d)
  BY DirectiveText
<1>3. \A x \in 1 .. n : DecimalDigit(d[x]) /\ width_digit(d[x])
  BY WidthOfDirective
<1>4. \A r : Reads(r, d) => r[n] = p.width
  BY WidthOfDirective
<1> HIDE DEF d
<1>5. n \in Nat /\ z \in 0 .. 1 /\ rest \in 0 .. 1
  BY <1>2
<1> HIDE DEF n
<1>6. f = [zero |-> zero, width |-> width_of(first, stop), type |-> at(stop), next |-> stop]
  BY Zenon DEF format_from
<1> HIDE DEF f, stop
<1>7. /\ p.text \in Seq(Characters)
      /\ Len(p.text) = 2 + z + n + rest
      /\ p.zero => p.text[2] = "0"
      /\ \A x \in 1 .. n : p.text[1 + z + x] = d[x]
      /\ p.text[2 + z + n] = p.type
  BY <1>2 DEF Parts, n
<1> HIDE DEF z, rest
<1>8. /\ Len(s) \in Nat /\ k + (2 + z + n + rest) - 1 <= Len(s)
      /\ \A x \in 1 .. 2 + z + n : at(k + x - 1) = p.text[x]
  BY <1>5, <1>7 DEF TextAt
<1>9. zero <=> p.zero
  <2>1. at(k + 1) = p.text[2]
    <3>1. 2 \in 1 .. 2 + z + n /\ k + 2 - 1 = k + 1
      BY <1>5
    <3> QED BY <1>8, <3>1
  <2>2. ASSUME ~p.zero
        PROVE  at(k + 1) # "0"
    <3>1. z = 0
      BY <2>2 DEF z
    <3>2. CASE n = 0
      <4>1. p.text[2] = p.type
        BY <1>7, <3>1, <3>2
      <4> QED BY <1>1, <2>1, <4>1, TypeEnds
    <3>3. CASE n # 0
      <4>1. 1 \in 1 .. n /\ 1 + z + 1 = 2
        BY <1>5, <3>1, <3>3
      <4>2. p.text[2] = d[1] /\ width_digit(d[1])
        BY <1>3, <1>7, <4>1
      <4>3. ~width_digit("0")
        BY DEF width_digit, decimal
      <4> QED BY <2>1, <4>2, <4>3
    <3> QED BY <3>2, <3>3
  <2> QED BY <1>7, <2>1, <2>2
<1>10. first = k + 1 + z
  <2>1. CASE p.zero
    BY <1>9, <2>1 DEF z
  <2>2. CASE ~p.zero
    BY <1>9, <2>2 DEF z
  <2> QED BY <2>1, <2>2
<1> HIDE DEF zero, first
<1> DEFINE e == first + n
<1>11. first \in Nat /\ e = k + 1 + z + n /\ e \in first .. Len(s) + 1
  BY <1>5, <1>8, <1>10
<1>12. at(e) = p.type
  <2>1. 2 + z + n \in 1 .. 2 + z + n /\ k + (2 + z + n) - 1 = k + 1 + z + n
    BY <1>5
  <2>2. at(k + (2 + z + n) - 1) = p.text[2 + z + n]
    BY <1>8, <2>1
  <2> QED BY <1>7, <1>11, <2>1, <2>2
<1>13. \A x \in 1 .. n : at(first + x - 1) = d[x]
  <2>1. ASSUME NEW x \in 1 .. n
        PROVE  at(first + x - 1) = d[x]
    <3>1. 1 + z + x \in 1 .. 2 + z + n /\ k + (1 + z + x) - 1 = first + x - 1
      BY <1>5, <1>10
    <3>2. at(k + (1 + z + x) - 1) = p.text[1 + z + x]
      BY <1>8, <3>1
    <3> QED BY <1>7, <3>1, <3>2
  <2> QED BY <2>1
<1> HIDE DEF e
<1>14. stop = e
  <2>1. e \in U
    BY <1>1, <1>11, <1>12, TypeEnds
  <2>2. ASSUME NEW m \in U
        PROVE  e <= m
    <3>1. m \in first .. Len(s) + 1 /\ ~width_digit(at(m))
      OBVIOUS
    <3>2. CASE m < e
      <4>1. (m - first) + 1 \in 1 .. n /\ first + ((m - first) + 1) - 1 = m
        BY <1>5, <1>8, <1>10, <1>11, <3>1, <3>2 DEF e
      <4>2. at(m) = d[(m - first) + 1]
        BY <1>13, <4>1
      <4>3. width_digit(d[(m - first) + 1])
        BY <1>3, <4>1
      <4> QED BY <3>1, <4>2, <4>3
    <3> QED BY <1>8, <1>11, <3>1, <3>2
  <2>3. U \subseteq Nat
    BY <1>8, <1>11
  <2> HIDE DEF U
  <2>4. stop \in U /\ \A y \in U : stop <= y
    BY <2>1, <2>3, MinElement DEF stop
  <2> QED BY <2>1, <2>2, <2>3, <2>4
<1>15. width_of(first, e) = p.width
  <2>1. Spells(d, p.width)
    BY <1>4 DEF n, Spells
  <2>2. \A x \in 1 .. Len(d) : at(first + x - 1) = d[x] /\ DecimalDigit(d[x])
    BY <1>3, <1>13 DEF n
  <2>3. width_of(first, first + Len(d)) = p.width
    BY <1>1, <1>2, <1>11, <2>1, <2>2, WidthReads
  <2> QED BY <2>3 DEF e, n
<1>16. zero = p.zero
  BY <1>1, <1>9 DEF zero
<1>17. f.zero = p.zero /\ f.width = p.width /\ f.type = p.type /\ f.next = e
  BY <1>6, <1>12, <1>14, <1>15, <1>16
<1>18. CASE p.type = "z"
  <2>1. parse_format(k) = [f EXCEPT !.next = @ + 1]
    BY <1>17, <1>18 DEF parse_format, f
  <2>2. /\ parse_format(k).zero = f.zero /\ parse_format(k).width = f.width
        /\ parse_format(k).type = f.type /\ parse_format(k).next = f.next + 1
    BY <1>6, <2>1
  <2>3. Len(p.text) = 2 + z + n + 1
    BY <1>7, <1>18 DEF rest
  <2>4. (e + 1) + 1 = k + Len(p.text)
    BY <1>5, <1>11, <2>3
  <2> QED BY <1>17, <2>2, <2>4 DEF Parsed
<1>19. CASE p.type # "z"
  <2>1. parse_format(k) = f
    BY <1>17, <1>19 DEF parse_format, f
  <2>2. Len(p.text) = 2 + z + n + 0
    BY <1>7, <1>19 DEF rest
  <2>3. e + 1 = k + Len(p.text)
    BY <1>5, <1>11, <2>2
  <2> QED BY <1>17, <2>1, <2>3 DEF Parsed
<1> QED BY <1>18, <1>19

(* What a piece of the call writes, of the arguments it takes one.         *)
Output(p) == IF p.type = "" THEN p.text ELSE ft_flagcheck(p, Given(p)).text

Texts     == [k \in DOMAIN call |-> call[k].text]
Arguments == [k \in DOMAIN call |-> argument(call[k])]
Outputs   == [k \in DOMAIN call |-> Output(call[k])]
Args      == {p.arg : p \in Pieces}

LEMMA PieceTexts ==
  ASSUME NEW p \in Pieces
  PROVE  /\ p.text \in Seq(Characters) /\ argument(p) \in Seq(Args) /\ Output(p) \in Seq(Characters)
         /\ Literal(p) => p.type = "" /\ Len(p.text) = 1 /\ p.text[1] \notin {"%", NUL}
         /\ Directive(p) => p.type # "" /\ Len(p.text) \in Nat \ {0} /\ p.text[1] = "%"
<1>1. argument(p) \in Seq(Args)
  <2>1. p.arg \in Args
    BY DEF Args
  <2>2. CASE p.type \in {"", "%"}
    <3>1. argument(p) = <<>>
      BY <2>2 DEF argument
    <3> QED BY <3>1
  <2>3. CASE p.type \notin {"", "%"}
    <3>1. argument(p) = <<p.arg>>
      BY <2>3 DEF argument
    <3> QED BY <2>1, <3>1
  <2> QED BY <2>2, <2>3
<1>2. CASE Literal(p)
  <2>0. p.type = "" /\ p.text \in Seq(STRING) /\ Len(p.text) = 1 /\ p.text[1] \notin {"%", NUL}
    BY <1>2 DEF Literal
  <2>3. STRING \subseteq Characters
    BY DEF Characters
  <2>4. p.text \in Seq(Characters)
    <3> DEFINE S == STRING
    <3>1. p.text \in Seq(S) /\ S \subseteq Characters
      BY <2>0, <2>3
    <3> HIDE DEF S
    <3> QED BY <3>1
  <2>1. p.type = "" /\ p.text \in Seq(Characters) /\ Len(p.text) = 1 /\ p.text[1] \notin {"%", NUL}
    BY <2>0, <2>4
  <2>2. ~Directive(p)
    BY <2>1 DEF Directive
  <2> QED BY <1>1, <2>1, <2>2 DEF Output
<1>3. CASE Directive(p)
  <2>1. p.type # ""
    BY <1>3 DEF Directive
  <2>2. ~Literal(p)
    BY <2>1 DEF Literal
  <2>3. Parts(p, IF p.zero THEN 1 ELSE 0, WidthDigits(p)) /\ WidthDigits(p) \in Seq(Characters)
    BY <1>3, DirectiveText
  <2>4. p.text \in Seq(Characters) /\ p.text[1] = "%" /\ Len(p.text) \in Nat \ {0}
    <3> DEFINE n == Len(WidthDigits(p))
    <3>1. n \in Nat
      BY <2>3
    <3>2. /\ p.text \in Seq(Characters) /\ p.text[1] = "%"
          /\ Len(p.text) = 2 + (IF p.zero THEN 1 ELSE 0) + n + (IF p.type = "z" THEN 1 ELSE 0)
      BY <2>3 DEF Parts
    <3> HIDE DEF n
    <3> QED BY <3>1, <3>2
  <2>5. Counted(ft_flagcheck(p, Given(p)))
    BY <1>3, DirectiveWrites
  <2>6. Output(p) \in Seq(Characters)
    BY <2>1, <2>5 DEF Output, Counted
  <2> QED BY <1>1, <2>1, <2>2, <2>4, <2>6
<1> QED BY <1>2, <1>3, PiecesAssumption

(* The call is between two pieces: it has read the first m, taken their    *)
(* arguments and written their outputs.                                    *)
Between(m, f, g, w) ==
  /\ Flattens(Characters, Texts, f) /\ i = Len(f[m]) + 1
  /\ Flattens(Args, Arguments, g) /\ va = Len(g[m])
  /\ Flattens(Characters, Outputs, w) /\ out = w[m] /\ (Len(w[m]) <= INT_MAX => j = Len(w[m]))

PrintfInv ==
  /\ call \in Seq(Pieces)
  /\ \E m \in 0 .. Len(call) : \E f, g, w : Between(m, f, g, w)

LEMMA CallSequences ==
  ASSUME call \in Seq(Pieces)
  PROVE  /\ Texts \in Seq(Seq(Characters)) /\ Arguments \in Seq(Seq(Args)) /\ Outputs \in Seq(Seq(Characters))
         /\ Len(Texts) = Len(call) /\ Len(Arguments) = Len(call) /\ Len(Outputs) = Len(call)
         /\ \A k \in 1 .. Len(call) :
              /\ call[k] \in Pieces /\ Texts[k] = call[k].text
              /\ Arguments[k] = argument(call[k]) /\ Outputs[k] = Output(call[k])
<1> DEFINE n == Len(call)
<1>1. n \in Nat /\ DOMAIN call = 1 .. n /\ \A k \in 1 .. n : call[k] \in Pieces
  OBVIOUS
<1> HIDE DEF n
<1>2. \A k \in 1 .. n : /\ call[k].text \in Seq(Characters) /\ argument(call[k]) \in Seq(Args)
                        /\ Output(call[k]) \in Seq(Characters)
  BY <1>1, PieceTexts
<1>3. Texts \in Seq(Seq(Characters)) /\ Len(Texts) = n /\ \A k \in 1 .. n : Texts[k] = call[k].text
  BY <1>1, <1>2 DEF Texts
<1>4. /\ Arguments \in Seq(Seq(Args)) /\ Len(Arguments) = n
      /\ \A k \in 1 .. n : Arguments[k] = argument(call[k])
  BY <1>1, <1>2 DEF Arguments
<1>5. /\ Outputs \in Seq(Seq(Characters)) /\ Len(Outputs) = n
      /\ \A k \in 1 .. n : Outputs[k] = Output(call[k])
  BY <1>1, <1>2 DEF Outputs
<1> QED BY <1>1, <1>3, <1>4, <1>5 DEF n

LEMMA PrintfInitInv == PrintfInit => PrintfInv
<1> SUFFICES ASSUME PrintfInit
             PROVE  PrintfInv
  OBVIOUS
<1>1. call \in Seq(Pieces)
  BY PrintfAssumption DEF PrintfInit
<1>2. PICK f : Flattens(Characters, Texts, f)
  BY <1>1, CallSequences, FlattenParts
<1>3. PICK g : Flattens(Args, Arguments, g)
  BY <1>1, CallSequences, FlattenParts
<1>4. PICK w : Flattens(Characters, Outputs, w)
  BY <1>1, CallSequences, FlattenParts
<1>5. f[0] = <<>> /\ g[0] = <<>> /\ w[0] = <<>>
  BY <1>2, <1>3, <1>4 DEF Flattens
<1>6. Between(0, f, g, w)
  BY <1>2, <1>3, <1>4, <1>5 DEF Between, PrintfInit
<1>7. 0 \in 0 .. Len(call)
  BY <1>1
<1> QED BY <1>1, <1>6, <1>7 DEF PrintfInv

(* Where the format and the arguments go on.                               *)
Ahead(m, f, g) ==
  /\ Len(s) \in Nat /\ i \in Nat \ {0} /\ va \in Nat
  /\ i <= Len(s) + 1 /\ va <= Len(arguments)
  /\ m = Len(call) => at(i) = NUL
  /\ m < Len(call) =>
       /\ TextAt(i, call[m + 1].text)
       /\ i + Len(call[m + 1].text) = Len(f[m + 1]) + 1
       /\ va + Len(argument(call[m + 1])) = Len(g[m + 1])
       /\ Len(argument(call[m + 1])) = 1 => arguments[va + 1] = argument(call[m + 1])[1]

LEMMA WhatIsAhead ==
  ASSUME call \in Seq(Pieces), NEW m \in 0 .. Len(call), NEW f, NEW g, NEW w, Between(m, f, g, w)
  PROVE  Ahead(m, f, g)
<1> DEFINE n == Len(call)
<1>1. /\ Texts \in Seq(Seq(Characters)) /\ Arguments \in Seq(Seq(Args))
      /\ Len(Texts) = n /\ Len(Arguments) = n
  BY CallSequences
<1>2. \A k \in 1 .. n : Texts[k] = call[k].text /\ Arguments[k] = argument(call[k])
  BY CallSequences
<1>3. n \in Nat /\ m \in 0 .. n
  OBVIOUS
<1> HIDE DEF n
<1>4. /\ Flattens(Characters, Texts, f) /\ i = Len(f[m]) + 1
      /\ Flattens(Args, Arguments, g) /\ va = Len(g[m])
  BY DEF Between
<1>5. /\ f \in [0 .. n -> Seq(Characters)] /\ FlattenSeq(Texts) = f[n]
      /\ g \in [0 .. n -> Seq(Args)] /\ FlattenSeq(Arguments) = g[n]
  BY <1>1, <1>4, Zenon DEF Flattens
<1>6. s = f[n] /\ arguments = g[n]
  BY <1>5 DEF s, arguments, Texts, Arguments
<1>7. Len(f[n]) \in Nat /\ Len(f[m]) \in Nat /\ Len(g[n]) \in Nat /\ Len(g[m]) \in Nat
  <2>1. n \in 0 .. n
    BY <1>3
  <2> QED BY <1>3, <1>5, <2>1
<1>8. CASE m = n
  <2>1. at(i) = NUL
    BY <1>4, <1>6, <1>7, <1>8 DEF at
  <2>2. Len(s) = Len(f[m]) /\ Len(arguments) = Len(g[m])
    BY <1>6, <1>8
  <2>3. /\ Len(s) \in Nat /\ i \in Nat \ {0} /\ va \in Nat
        /\ i <= Len(s) + 1 /\ va <= Len(arguments) /\ ~(m < n)
    BY <1>3, <1>4, <1>7, <1>8, <2>2
  <2> QED BY <2>1, <2>3 DEF Ahead, n
<1>9. CASE m < n
  <2> DEFINE t == call[m + 1].text
             a == argument(call[m + 1])
  <2>1. m \in 0 .. n - 1 /\ m + 1 \in 1 .. n
    BY <1>3, <1>9
  <2>2. Placed(Texts, f, m)
    BY <1>1, <1>4, <2>1, FlattenPlaces
  <2>3. Placed(Arguments, g, m)
    BY <1>1, <1>4, <2>1, FlattenPlaces
  <2>4. Texts[m + 1] = t /\ Arguments[m + 1] = a
    BY <1>2, <2>1
  <2>5. t \in Seq(Characters) /\ a \in Seq(Args)
    BY <1>1, <2>1, <2>4
  <2> HIDE DEF t, a
  <2>6. Len(t) \in Nat /\ Len(a) \in Nat
    BY <2>5
  <2>7. /\ Len(f[m + 1]) = Len(f[m]) + Len(t) /\ Len(f[m + 1]) <= Len(s)
        /\ \A x \in 1 .. Len(t) : s[Len(f[m]) + x] = t[x]
    BY <1>1, <1>6, <2>2, <2>4 DEF Placed
  <2>8. /\ Len(g[m + 1]) = Len(g[m]) + Len(a) /\ Len(g[m + 1]) <= Len(arguments)
        /\ \A x \in 1 .. Len(a) : arguments[Len(g[m]) + x] = a[x]
    BY <1>1, <1>6, <2>3, <2>4 DEF Placed
  <2>9. Len(s) \in Nat /\ Len(arguments) \in Nat
    BY <1>6, <1>7
  <2>10. TextAt(i, t)
    <3>1. i + Len(t) - 1 <= Len(s)
      BY <1>4, <1>7, <2>6, <2>7, <2>9
    <3>2. ASSUME NEW x \in 1 .. Len(t)
          PROVE  at(i + x - 1) = t[x]
      <4>1. i + x - 1 = Len(f[m]) + x /\ i + x - 1 <= Len(s)
        BY <1>4, <1>7, <2>6, <2>9, <3>1
      <4> QED BY <2>7, <4>1 DEF at
    <3> QED BY <2>9, <3>1, <3>2 DEF TextAt
  <2>11. i + Len(t) = Len(f[m + 1]) + 1 /\ va + Len(a) = Len(g[m + 1])
    BY <1>4, <1>7, <2>6, <2>7, <2>8
  <2>12. Len(a) = 1 => arguments[va + 1] = a[1]
    BY <1>4, <2>8
  <2>13. i \in Nat \ {0} /\ i <= Len(s) + 1
    <3> DEFINE x == Len(f[m]) y == Len(s) z == Len(t) v == Len(f[m + 1])
    <3>1. x \in Nat /\ y \in Nat /\ z \in Nat
      BY <1>7, <2>6, <2>9
    <3>2. v = x + z /\ v <= y
      BY <2>7
    <3>3. i = x + 1
      BY <1>4
    <3> HIDE DEF x, y, z, v
    <3>4. i \in Nat \ {0} /\ i <= y + 1
      BY <3>1, <3>2, <3>3
    <3> QED BY <3>4 DEF y
  <2>14. va \in Nat /\ va <= Len(arguments)
    <3> DEFINE x == Len(g[m]) y == Len(arguments) z == Len(a) v == Len(g[m + 1])
    <3>1. x \in Nat /\ y \in Nat /\ z \in Nat
      BY <1>7, <2>6, <2>9
    <3>2. v = x + z /\ v <= y
      BY <2>8
    <3>3. va = x
      BY <1>4
    <3> HIDE DEF x, y, z, v
    <3>4. va \in Nat /\ va <= y
      BY <3>1, <3>2, <3>3
    <3> QED BY <3>4 DEF y
  <2>15. m # n
    BY <1>3, <1>9
  <2> QED BY <2>9, <2>10, <2>11, <2>12, <2>13, <2>14, <2>15 DEF Ahead, t, a, n
<1> QED BY <1>3, <1>8, <1>9

(* The call handles piece p: it steps over its text, takes its argument    *)
(* and writes its output.                                                  *)
StepsOver(p) ==
  /\ call' = call
  /\ i' = i + Len(p.text) /\ va' = va + Len(argument(p))
  /\ out' = out \o Output(p) /\ j' = as_int(j + Len(Output(p)))

LEMMA NextPiece ==
  ASSUME call \in Seq(Pieces), NEW m \in 0 .. Len(call), NEW f, NEW g, NEW w,
         Between(m, f, g, w), m < Len(call), StepsOver(call[m + 1])
  PROVE  PrintfInv'
<1> DEFINE n == Len(call)
           o == Output(call[m + 1])
<1>1. n \in Nat /\ m + 1 \in 0 .. n /\ m + 1 \in 1 .. n /\ m \in 0 .. n
  OBVIOUS
<1>2. Ahead(m, f, g)
  BY WhatIsAhead
<1>3. /\ i + Len(call[m + 1].text) = Len(f[m + 1]) + 1
      /\ va + Len(argument(call[m + 1])) = Len(g[m + 1])
  BY <1>2 DEF Ahead
<1>4. /\ Flattens(Characters, Texts, f) /\ Flattens(Args, Arguments, g)
      /\ Flattens(Characters, Outputs, w) /\ out = w[m]
      /\ Len(w[m]) <= INT_MAX => j = Len(w[m])
  BY DEF Between
<1>5. /\ Outputs \in Seq(Seq(Characters)) /\ Len(Outputs) = n /\ Outputs[m + 1] = o
      /\ o \in Seq(Characters)
  <2>1. Outputs \in Seq(Seq(Characters)) /\ Len(Outputs) = n /\ Outputs[m + 1] = o
    BY <1>1, CallSequences
  <2> HIDE DEF o, n
  <2>2. Outputs[m + 1] \in Seq(Characters)
    BY <1>1, <2>1
  <2> QED BY <2>1, <2>2
<1> HIDE DEF o, n
<1>6. w[m] \in Seq(Characters) /\ w[m + 1] = w[m] \o o
  <2>1. w \in [0 .. n -> Seq(Characters)] /\ \A k \in 1 .. n : w[k] = w[k - 1] \o Outputs[k]
    BY <1>4, <1>5, Zenon DEF Flattens
  <2>2. m + 1 - 1 = m
    BY <1>1
  <2>3. w[m] \in Seq(Characters)
    BY <1>1, <2>1
  <2>4. w[m + 1] = w[m] \o Outputs[m + 1]
    <3> DEFINE q == m + 1
    <3>1. q \in 1 .. n /\ q - 1 = m
      BY <1>1, <2>2
    <3> HIDE DEF q
    <3>2. w[q] = w[q - 1] \o Outputs[q]
      BY <2>1, <3>1, Zenon
    <3>3. w[q] = w[m] \o Outputs[q]
      BY <3>1, <3>2, Zenon
    <3> QED BY <3>3 DEF q
  <2> QED BY <1>5, <2>3, <2>4
<1>7. ASSUME Len(w[m + 1]) <= INT_MAX
      PROVE  j' = Len(w[m + 1])
  <2> DEFINE x == Len(w[m])
             y == Len(o)
             z == Len(w[m + 1])
  <2>1. x \in Nat /\ y \in Nat /\ z = x + y
    BY <1>5, <1>6
  <2>2. z <= INT_MAX /\ (x <= INT_MAX => j = x) /\ j' = as_int(j + y)
    BY <1>4, <1>7 DEF StepsOver, o
  <2> HIDE DEF x, y, z
  <2>3. INT_MAX \in Nat
    BY IntsFit
  <2>4. j = x /\ z \in 0 .. INT_MAX
    BY <2>1, <2>2, <2>3
  <2>5. j' = as_int(z)
    BY <2>1, <2>2, <2>4
  <2> QED BY <2>4, <2>5, IntsFit DEF z
<1>8. /\ call' = call /\ i' = Len(f[m + 1]) + 1 /\ va' = Len(g[m + 1])
      /\ out' = w[m + 1]
  BY <1>3, <1>4, <1>6 DEF StepsOver, o
<1>9. Texts' = Texts /\ Arguments' = Arguments /\ Outputs' = Outputs
  BY <1>8 DEF Texts, Arguments, Outputs
<1>10. Between(m + 1, f, g, w)'
  BY <1>4, <1>7, <1>8, <1>9 DEF Between
<1>11. (call \in Seq(Pieces))' /\ m + 1 \in 0 .. Len(call')
  BY <1>1, <1>8 DEF n
<1> QED BY <1>10, <1>11 DEF PrintfInv

LEMMA PieceKinds ==
  ASSUME NEW p \in Pieces
  PROVE  /\ Literal(p) \/ Directive(p)
         /\ p.text \in Seq(Characters) /\ Len(p.text) \in Nat \ {0} /\ p.text[1] # NUL
<1>1. Literal(p) \/ Directive(p)
  BY PiecesAssumption
<1>2. p.text \in Seq(Characters)
  BY PieceTexts
<1>3. CASE Literal(p)
  <2>1. Len(p.text) = 1 /\ p.text[1] \notin {"%", NUL}
    BY <1>3, PieceTexts, Zenon
  <2>2. p.text[1] # NUL /\ Len(p.text) \in Nat \ {0}
    BY <2>1
  <2> QED BY <1>2, <1>3, <2>2
<1>4. CASE Directive(p)
  <2>1. Len(p.text) \in Nat \ {0} /\ p.text[1] = "%"
    BY <1>4, PieceTexts, Zenon
  <2>2. p.text[1] # NUL
    BY <2>1, PiecesAssumption
  <2> QED BY <1>2, <1>4, <2>1, <2>2
<1> QED BY <1>1, <1>3, <1>4

LEMMA PlainSteps ==
  ASSUME NEW p \in Pieces, TextAt(i, p.text), i \in Nat \ {0}, va \in Nat, plain
  PROVE  StepsOver(p)
<1>1. p.text \in Seq(Characters) /\ Len(p.text) \in Nat \ {0} /\ at(i) = p.text[1]
  <2>1. p.text \in Seq(Characters) /\ Len(p.text) \in Nat \ {0}
    BY PieceKinds
  <2>2. 1 \in 1 .. Len(p.text) /\ i + 1 - 1 = i
    BY <2>1
  <2>3. at(i + 1 - 1) = p.text[1]
    BY <2>2 DEF TextAt
  <2> QED BY <2>1, <2>2, <2>3
<1>2. at(i) # "%"
  BY DEF plain
<1>3. Literal(p)
  <2>1. ~Directive(p)
    BY <1>1, <1>2, PieceTexts
  <2> QED BY <2>1, PiecesAssumption
<1>4. p.type = "" /\ Len(p.text) = 1
  BY <1>3, PieceTexts
<1>5. argument(p) = <<>> /\ Output(p) = p.text
  BY <1>4 DEF argument, Output
<1>6. p.text = <<at(i)>>
  <2> DEFINE t == p.text
             u == <<at(i)>>
  <2>1. t \in Seq(Characters) /\ Len(t) = 1 /\ t[1] = at(i) /\ at(i) \in Characters
    <3>1. t \in Seq(Characters) /\ Len(t) = 1 /\ t[1] = at(i)
      BY <1>1, <1>4
    <3> HIDE DEF t
    <3>2. t[1] \in Characters
      BY <3>1
    <3> QED BY <3>1, <3>2
  <2>2. u \in Seq(Characters) /\ Len(u) = 1 /\ u[1] = at(i)
    BY <2>1
  <2> HIDE DEF t, u
  <2>3. t = u
    BY <2>1, <2>2, SameElements
  <2> QED BY <2>3 DEF t, u
<1>7. out' = out \o <<at(i)>> /\ j' = as_int(j + 1) /\ i' = i + 1 /\ call' = call /\ va' = va
  BY DEF plain, write, ft_putchar, written
<1>8. i' = i + Len(p.text) /\ j' = as_int(j + Len(Output(p))) /\ out' = out \o Output(p)
  BY <1>4, <1>5, <1>6, <1>7
<1>9. Len(argument(p)) = 0 /\ va \in Nat
  BY <1>5
<1>10. va' = va + Len(argument(p))
  BY <1>7, <1>9
<1> QED BY <1>7, <1>8, <1>10 DEF StepsOver

LEMMA DirectiveSteps ==
  ASSUME NEW p \in Pieces, TextAt(i, p.text), i \in Nat \ {0}, va \in Nat,
         Len(argument(p)) = 1 => arguments[va + 1] = argument(p)[1], directive
  PROVE  StepsOver(p)
<1>1. at(i) = "%"
  BY DEF directive
<1>2. Directive(p)
  <2>1. ASSUME Literal(p)
        PROVE  FALSE
    <3>1. Len(p.text) = 1 /\ p.text[1] # "%"
      BY <2>1, PieceTexts
    <3>2. at(i + 1 - 1) = p.text[1] /\ i + 1 - 1 = i
      BY <3>1 DEF TextAt
    <3> QED BY <1>1, <3>1, <3>2
  <2> QED BY <2>1, PiecesAssumption
<1> DEFINE f == parse_format(i)
           takes == f.type \in {"d", "i", "c", "s", "u", "x", "X", "p", "z"}
           a == IF takes THEN arguments[va + 1] ELSE NUL
<1>3. Parsed(f, i, p)
  BY <1>2, ParsesDirective
<1>4. /\ out' = out \o ft_flagcheck(f, a).text /\ j' = as_int(j + ft_flagcheck(f, a).ret)
      /\ va' = (IF takes THEN va + 1 ELSE va) /\ i' = f.next + 1 /\ call' = call
  BY DEF directive, write
<1> HIDE DEF f
<1>5. f.type = p.type /\ f.zero = p.zero /\ f.width = p.width /\ f.next + 1 = i + Len(p.text)
  BY <1>3 DEF Parsed
<1>6. p.type \in {"d", "i", "u", "c", "s", "x", "X", "p", "z", "%"}
  BY <1>2 DEF Directive
<1>7. a = Given(p) /\ va' = va + Len(argument(p))
  <2>1. CASE p.type = "%"
    <3>1. ~takes /\ argument(p) = <<>>
      BY <1>5, <2>1 DEF argument
    <3>2. Len(argument(p)) = 0
      BY <3>1
    <3> QED BY <1>4, <2>1, <3>1, <3>2 DEF Given
  <2>2. CASE p.type # "%"
    <3>1. takes /\ argument(p) = <<p.arg>>
      BY <1>5, <1>6, <2>2 DEF argument
    <3>2. Len(argument(p)) = 1 /\ argument(p)[1] = p.arg
      BY <3>1
    <3> QED BY <1>4, <2>2, <3>1, <3>2 DEF Given
  <2> QED BY <2>1, <2>2
<1>8. Output(p) = ft_flagcheck(p, Given(p)).text
  BY <1>6 DEF Output
<1>9. ft_flagcheck(f, a) = ft_flagcheck(p, Given(p))
  BY <1>5, <1>7 DEF ft_flagcheck, put_padded_hex
<1>10. Counted(ft_flagcheck(p, Given(p)))
  BY <1>2, DirectiveWrites
<1>11. out' = out \o Output(p) /\ j' = as_int(j + Len(Output(p)))
  BY <1>4, <1>8, <1>9, <1>10 DEF Counted
<1>12. i' = i + Len(p.text) /\ call' = call
  BY <1>4, <1>5
<1> QED BY <1>7, <1>11, <1>12 DEF StepsOver

LEMMA PrintfStepInv == PrintfInv /\ [PrintfNext]_printfVars => PrintfInv'
<1> SUFFICES ASSUME PrintfInv, [PrintfNext]_printfVars
             PROVE  PrintfInv'
  OBVIOUS
<1>1. call \in Seq(Pieces)
  BY DEF PrintfInv
<1>2. PICK m \in 0 .. Len(call) : \E f, g, w : Between(m, f, g, w)
  BY DEF PrintfInv
<1>3. PICK f, g, w : Between(m, f, g, w)
  BY <1>2
<1>4. Ahead(m, f, g)
  BY <1>1, <1>3, WhatIsAhead
<1> DEFINE p == call[m + 1]
<1>5. ASSUME PrintfNext
      PROVE  m < Len(call) /\ p \in Pieces
  <2>1. at(i) # NUL
    BY <1>5, PiecesAssumption DEF PrintfNext, directive, plain
  <2>2. m # Len(call)
    BY <1>4, <2>1 DEF Ahead
  <2> QED BY <1>1, <2>2
<1>6. ASSUME PrintfNext, StepsOver(p)
      PROVE  PrintfInv'
  BY <1>1, <1>3, <1>5, <1>6, NextPiece
<1>7. ASSUME PrintfNext
      PROVE  /\ i \in Nat \ {0} /\ va \in Nat /\ TextAt(i, p.text)
             /\ Len(argument(p)) = 1 => arguments[va + 1] = argument(p)[1]
  BY <1>4, <1>5, <1>7 DEF Ahead
<1>8. CASE directive
  <2>1. PrintfNext
    BY <1>8 DEF PrintfNext
  <2> QED BY <1>5, <1>6, <1>7, <1>8, <2>1, DirectiveSteps
<1>9. CASE plain
  <2>1. PrintfNext
    BY <1>9 DEF PrintfNext
  <2> QED BY <1>5, <1>6, <1>7, <1>9, <2>1, PlainSteps
<1>10. CASE UNCHANGED printfVars
  <2>1. /\ call' = call /\ i' = i /\ va' = va /\ out' = out /\ j' = j
        /\ Texts' = Texts /\ Arguments' = Arguments /\ Outputs' = Outputs
    BY <1>10 DEF printfVars, Texts, Arguments, Outputs
  <2>2. Between(m, f, g, w)'
    BY <1>3, <2>1 DEF Between
  <2> QED BY <1>1, <2>1, <2>2 DEF PrintfInv
<1> QED BY <1>8, <1>9, <1>10 DEF PrintfNext

LEMMA PrintfInvHolds == PrintfSpec => []PrintfInv
BY PrintfInitInv, PrintfStepInv, PTL DEF PrintfSpec

(* When the call is at the terminator it has handled every piece.          *)
LEMMA AtTheEnd ==
  ASSUME call \in Seq(Pieces), NEW m \in 0 .. Len(call), NEW f, NEW g, NEW w,
         Between(m, f, g, w), at(i) = NUL
  PROVE  out = FlattenSeq(Outputs)
<1>1. Ahead(m, f, g)
  BY WhatIsAhead
<1>2. ASSUME m < Len(call)
      PROVE  FALSE
  <2> DEFINE p == call[m + 1]
  <2>1. p \in Pieces /\ TextAt(i, p.text) /\ i \in Nat \ {0}
    BY <1>1, <1>2 DEF Ahead
  <2> HIDE DEF p
  <2>2. Len(p.text) \in Nat \ {0} /\ p.text[1] # NUL
    BY <2>1, PieceKinds
  <2>3. 1 \in 1 .. Len(p.text) /\ i + 1 - 1 = i
    BY <2>1, <2>2
  <2>4. at(i + 1 - 1) = p.text[1]
    BY <2>1, <2>3 DEF TextAt
  <2> QED BY <2>2, <2>3, <2>4
<1>3. m = Len(call)
  BY <1>2
<1>4. Len(Outputs) = Len(call)
  BY CallSequences
<1>5. Flattens(Characters, Outputs, w) /\ out = w[m]
  BY DEF Between
<1> QED BY <1>3, <1>4, <1>5 DEF Flattens

LEMMA OutputsMeant ==
  ASSUME call \in Seq(Pieces),
         \A k \in DOMAIN call : call[k].type = "z" => call[k].arg <= LONG_MAX
  PROVE  Outputs = [k \in DOMAIN call |-> Meaning(call[k])]
<1>1. ASSUME NEW k \in DOMAIN call
      PROVE  Output(call[k]) = Meaning(call[k])
  <2> DEFINE p == call[k]
  <2>1. p \in Pieces /\ (p.type = "z" => p.arg <= LONG_MAX)
    BY <1>1
  <2> HIDE DEF p
  <2>2. ASSUME Literal(p)
        PROVE  Output(p) = Meaning(p)
    <3>1. p.type = ""
      BY <2>1, <2>2, PieceTexts, Zenon
    <3>2. Output(p) = p.text /\ Meaning(p) = p.text
      BY <3>1 DEF Output, Meaning
    <3> QED BY <3>2
  <2>3. ASSUME Directive(p)
        PROVE  Output(p) = Meaning(p)
    <3>1. p.type # ""
      BY <2>1, <2>3, PieceTexts, Zenon
    <3>2. ft_flagcheck(p, Given(p)).text = Meaning(p)
      BY <2>1, <2>3, DirectiveWrites
    <3> QED BY <3>1, <3>2 DEF Output
  <2>4. Output(p) = Meaning(p)
    BY <2>1, <2>2, <2>3, PieceKinds
  <2> QED BY <2>4 DEF p
<1> QED BY <1>1 DEF Outputs

(* The loop over any format of complete directives stops at its            *)
(* terminator and never reads behind it, and no directive takes an         *)
(* argument the caller did not pass.                                       *)
THEOREM StaysInside == PrintfSpec => []StaysInFormat
<1>1. PrintfInv => StaysInFormat
  <2> SUFFICES ASSUME PrintfInv
               PROVE  StaysInFormat
    OBVIOUS
  <2>1. PICK m \in 0 .. Len(call) : \E f, g, w : Between(m, f, g, w)
    BY DEF PrintfInv
  <2>2. PICK f, g, w : Between(m, f, g, w)
    BY <2>1
  <2>3. Ahead(m, f, g)
    BY <2>2, WhatIsAhead DEF PrintfInv
  <2> QED BY <2>3 DEF Ahead, StaysInFormat
<1> QED BY <1>1, PrintfInvHolds, PTL

(* For words of any width, what ft_printf returns is the number of         *)
(* characters it has written, as long as an int can say it: ft_numlen_base *)
(* counts what ft_putnbr_base and ft_puthex write.                         *)
THEOREM CountsOutput == PrintfSpec => []ReturnCountsOutput
<1>1. PrintfInv => ReturnCountsOutput
  BY DEF PrintfInv, Between, ReturnCountsOutput
<1> QED BY <1>1, PrintfInvHolds, PTL

(* A call that returns has written the meaning of its pieces in order:     *)
(* every number in as few digits as it needs, each the one its power of    *)
(* the base gives, padded to the width the format spells, which is an int  *)
(* as f->width is; a wider one is outside what the theorem says.           *)
THEOREM WritesMeaning == PrintfSpec => []WritesWhatWasMeant
<1>1. PrintfInv => WritesWhatWasMeant
  <2> SUFFICES ASSUME PrintfInv, at(i) = NUL,
                      \A k \in DOMAIN call : call[k].type = "z" => call[k].arg <= LONG_MAX
               PROVE  out = FlattenSeq([k \in DOMAIN call |-> Meaning(call[k])])
    BY DEF WritesWhatWasMeant
  <2>1. PICK m \in 0 .. Len(call) : \E f, g, w : Between(m, f, g, w)
    BY DEF PrintfInv
  <2>2. PICK f, g, w : Between(m, f, g, w)
    BY <2>1
  <2>3. out = FlattenSeq(Outputs)
    BY <2>2, AtTheEnd DEF PrintfInv
  <2>4. Outputs = [k \in DOMAIN call |-> Meaning(call[k])]
    BY OutputsMeant DEF PrintfInv
  <2> QED BY <2>3, <2>4
<1> QED BY <1>1, PrintfInvHolds, PTL

-----------------------------------------------------------------------------
(* ft_itoa, ft_putnbr_fd and ft_atoi *)

(* The digits 0 to 9 as bytes, and those of a number.                      *)
byte_digits == [k \in 1 .. 10 |-> k + 47]
DigitBytes  == 48 .. 57
ByteNumeral(n)  == digits_of(n, byte_digits)

LEMMA ByteDigits ==
  /\ IsBase(byte_digits, DigitBytes) /\ Len(byte_digits) = 10
  /\ \A v \in 0 .. 9 : byte_digits[v + 1] = v + 48
<1>1. byte_digits \in Seq(DigitBytes) /\ Len(byte_digits) = 10
  BY DEF byte_digits, DigitBytes
<1>2. \A v \in 0 .. 9 : byte_digits[v + 1] = v + 48
  BY DEF byte_digits
<1> QED BY <1>1, <1>2 DEF IsBase, Bases

LEMMA SpelledSteps ==
  ASSUME NEW n \in Nat
  PROVE  /\ ByteNumeral(n) \in Seq(DigitBytes) /\ Len(ByteNumeral(n)) \in Nat \ {0}
         /\ n % 10 \in 0 .. 9 /\ (n % 10) + 48 \in DigitBytes /\ n \div 10 \in Nat
         /\ n >= 10 => ByteNumeral(n) = ByteNumeral(n \div 10) \o <<(n % 10) + 48>>
         /\ n < 10 => ByteNumeral(n) = <<n + 48>>
<1> DEFINE q == n \div 10
           r == n % 10
<1>1. q \in Nat /\ r \in 0 .. 9 /\ (n < 10 => r = n)
  BY BaseDivision DEF Bases
<1>2. /\ ByteNumeral(n) \in Seq(DigitBytes) /\ ByteNumeral(q) \in Seq(DigitBytes)
      /\ n >= 10 => ByteNumeral(n) = ByteNumeral(q) \o <<byte_digits[r + 1]>>
      /\ ~(n >= 10) => ByteNumeral(n) = <<byte_digits[n + 1]>>
  <2>1. \A m \in Nat :
          /\ digits_of(m, byte_digits) \in Seq(DigitBytes)
          /\ digits_of(m, byte_digits) =
                IF m >= 10
                THEN digits_of(m \div 10, byte_digits) \o <<byte_digits[(m % 10) + 1]>>
                ELSE <<byte_digits[m + 1]>>
    BY ByteDigits, DigitSteps
  <2> QED BY <1>1, <2>1 DEF ByteNumeral
<1>3. byte_digits[r + 1] = r + 48 /\ r + 48 \in DigitBytes
  BY <1>1, ByteDigits DEF DigitBytes
<1> HIDE DEF q, r
<1>4. CASE n >= 10
  <2>1. Len(ByteNumeral(n)) = Len(ByteNumeral(q)) + 1
    BY <1>2, <1>4
  <2>2. Len(ByteNumeral(q)) \in Nat
    BY <1>2
  <2>3. Len(ByteNumeral(n)) \in Nat \ {0}
    BY <2>1, <2>2
  <2> QED BY <1>1, <1>2, <1>3, <1>4, <2>3 DEF q, r
<1>5. CASE ~(n >= 10)
  <2>1. n + 1 \in 1 .. 10 /\ byte_digits[n + 1] = n + 48
    BY <1>5, ByteDigits
  <2>2. ByteNumeral(n) = <<n + 48>>
    BY <1>2, <1>5, <2>1
  <2>3. Len(ByteNumeral(n)) \in Nat \ {0}
    BY <2>2
  <2> QED BY <1>1, <1>2, <1>3, <1>5, <2>2, <2>3 DEF q, r
<1> QED BY <1>4, <1>5

(* INT_MIN and the ints.                                                   *)
LEMMA IntValues ==
  /\ - INT_MIN \in Nat /\ INT_MIN \in Int /\ (- INT_MIN) % 10 = 8 /\ - INT_MIN > 10
  /\ power(2, IntBits) = 2 * (- INT_MIN)
  /\ Ints = INT_MIN .. - INT_MIN - 1
<1> DEFINE M == power(2, IntBits - 1)
<1>1. IntBits - 1 \in Nat /\ IntBits = (IntBits - 1) + 1
  BY LibftAssumption
<1>2. M \in Nat /\ power(2, (IntBits - 1) + 1) = 2 * M
  BY <1>1, PowerSteps
<1>3. M % 10 = 8 /\ M > 10 /\ INT_MIN = - M
  BY LibftAssumption DEF INT_MIN
<1> HIDE DEF M
<1>4. - INT_MIN = M
  BY <1>2, <1>3
<1> QED BY <1>1, <1>2, <1>3, <1>4 DEF Ints

LEMMA ToInt ==
  /\ \A n \in Ints : to_int(n) = n
  /\ to_int(- INT_MIN) = INT_MIN
<1> DEFINE M == - INT_MIN
           W == 2 * M
<1>1. M \in Nat /\ M > 10 /\ INT_MIN = - M /\ power(2, IntBits) = W /\ Ints = - M .. M - 1
  BY IntValues
<1>2. \A n : to_int(n) = ((n - INT_MIN) % power(2, IntBits)) + INT_MIN
  BY DEF to_int
<1> HIDE DEF M
<1>3. ASSUME NEW x \in 0 .. W - 1
      PROVE  x % W = x
  BY <1>1
<1>4. W % W = 0
  BY <1>1
<1>5. ASSUME NEW n \in Ints
      PROVE  to_int(n) = n
  <2>1. n + M \in 0 .. W - 1 /\ n - INT_MIN = n + M /\ n \in Int
    BY <1>1
  <2>2. (n + M) % W = n + M
    BY <1>3, <2>1
  <2>3. to_int(n) = ((n + M) % W) + INT_MIN
    <3> HIDE DEF W
    <3> QED BY <1>1, <1>2, <2>1, Zenon
  <2>4. to_int(n) = (n + M) + INT_MIN
    BY <2>2, <2>3, Zenon
  <2> QED BY <1>1, <2>1, <2>4
<1>6. to_int(M) = - M
  <2>1. M - INT_MIN = W
    BY <1>1
  <2> QED BY <1>1, <1>2, <1>4, <2>1
<1> QED BY <1>1, <1>5, <1>6 DEF M

(* Two recursive functions agree where they agree below; M measures.       *)
AgreeUpwards(A, M, f, g) ==
  \A a \in A : (\A b \in A : M[b] < M[a] => f[b] = g[b]) => f[a] = g[a]

LEMMA SameRecursion ==
  ASSUME NEW A, NEW M \in [A -> Nat], NEW f, NEW g, AgreeUpwards(A, M, f, g)
  PROVE  \A a \in A : f[a] = g[a]
<1> DEFINE T == {v \in Nat : \A a \in A : M[a] = v => f[a] = g[a]}
<1>1. T \in SUBSET Nat
  OBVIOUS
<1>2. ASSUME NEW v \in Nat, \A x \in 0 .. v - 1 : x \in T
      PROVE  v \in T
  <2> SUFFICES ASSUME NEW a \in A, M[a] = v
               PROVE  f[a] = g[a]
    OBVIOUS
  <2>1. ASSUME NEW b \in A, M[b] < M[a]
        PROVE  f[b] = g[b]
    <3>1. M[b] \in 0 .. v - 1
      BY <2>1
    <3> QED BY <1>2, <3>1
  <2> QED BY <2>1 DEF AgreeUpwards
<1>3. T = Nat
  <2> HIDE DEF T
  <2>1. Progressive(T)
    BY <1>1, <1>2 DEF Progressive
  <2> QED BY <2>1, CompleteInduction
<1> QED BY <1>3

Magnitude(n) == IF n < 0 THEN - n ELSE n

LEMMA Quotients ==
  ASSUME NEW n \in Int, n # 0
  PROVE  /\ quotient(n, 10) \in Int /\ Magnitude(n) \in Nat /\ Magnitude(n) # 0
         /\ Magnitude(quotient(n, 10)) = Magnitude(n) \div 10
         /\ Magnitude(quotient(n, 10)) \in Nat /\ Magnitude(quotient(n, 10)) < Magnitude(n)
         /\ (quotient(n, 10) < 0 => n < 0) /\ (n < 0 => quotient(n, 10) <= 0)
         /\ quotient(n, 10) = 0 <=> Magnitude(n) < 10
<1> DEFINE v == Magnitude(n)
           w == v \div 10
<1>1. v \in Nat /\ v # 0 /\ v = (IF n < 0 THEN - n ELSE n)
  BY DEF Magnitude
<1> HIDE DEF v
<1>2. w \in Nat /\ w < v /\ (w = 0 <=> v < 10)
  BY <1>1
<1>3. quotient(n, 10) = IF n < 0 THEN - w ELSE w
  BY <1>1 DEF quotient
<1> HIDE DEF w
<1>4. Magnitude(quotient(n, 10)) = w
  BY <1>2, <1>3 DEF Magnitude
<1> QED BY <1>1, <1>2, <1>3, <1>4 DEF v, w

LEMMA SpelledLength ==
  ASSUME NEW n \in Nat
  PROVE  Len(ByteNumeral(n)) = IF n >= 10 THEN 1 + Len(ByteNumeral(n \div 10)) ELSE 1
<1> DEFINE q == n \div 10
           c == (n % 10) + 48
<1>1. CASE n >= 10
  <2>1. ByteNumeral(n) = ByteNumeral(q) \o <<c>> /\ c \in DigitBytes /\ q \in Nat
    BY <1>1, SpelledSteps
  <2> HIDE DEF q, c
  <2>2. ByteNumeral(q) \in Seq(DigitBytes)
    BY <2>1, SpelledSteps
  <2>3. Len(ByteNumeral(n)) = Len(ByteNumeral(q)) + 1 /\ Len(ByteNumeral(q)) \in Nat
    BY <2>1, <2>2
  <2> QED BY <1>1, <2>3 DEF q
<1>2. CASE ~(n >= 10)
  <2>1. ByteNumeral(n) = <<n + 48>>
    <3>1. n < 10
      BY <1>2
    <3> QED BY <3>1, SpelledSteps, Zenon
  <2>2. Len(<<n + 48>>) = 1
    OBVIOUS
  <2> QED BY <1>2, <2>1, <2>2
<1> QED BY <1>1, <1>2

(* ft_numlen counts the digits and the sign.                               *)
LEMMA NumLenCounts ==
  ASSUME NEW n \in Ints
  PROVE  ft_numlen(n, 10) = (IF n < 0 THEN 1 ELSE 0) + Len(ByteNumeral(Magnitude(n)))
<1> DEFINE A == INT_MIN .. - INT_MIN
           M == [m \in A |-> Magnitude(m)]
           C(f) == f = [m \in INT_MIN .. - INT_MIN |-> IF m = 0 THEN 0 ELSE 1 + f[quotient(m, 10)]]
           e == [m \in A |-> IF m = 0 THEN 0 ELSE Len(ByteNumeral(Magnitude(m)))]
           g == CHOOSE f : C(f)
<1>1. INT_MIN \in Int /\ - INT_MIN \in Nat /\ n \in A /\ n \in Int
  BY IntValues
<1>2. ASSUME NEW m \in A, m # 0
      PROVE  /\ quotient(m, 10) \in A /\ Magnitude(quotient(m, 10)) < Magnitude(m)
             /\ Magnitude(m) \in Nat \ {0}
             /\ Magnitude(quotient(m, 10)) = Magnitude(m) \div 10
             /\ quotient(m, 10) = 0 <=> Magnitude(m) < 10
  <2>1. m \in Int
    BY <1>1
  <2>2. /\ quotient(m, 10) \in Int /\ Magnitude(m) \in Nat /\ Magnitude(m) # 0
        /\ Magnitude(quotient(m, 10)) = Magnitude(m) \div 10
        /\ Magnitude(quotient(m, 10)) \in Nat /\ Magnitude(quotient(m, 10)) < Magnitude(m)
        /\ (quotient(m, 10) < 0 => m < 0) /\ (m < 0 => quotient(m, 10) <= 0)
        /\ quotient(m, 10) = 0 <=> Magnitude(m) < 10
    BY <1>2, <2>1, Quotients
  <2>3. quotient(m, 10) \in A
    BY <1>1, <2>1, <2>2 DEF Magnitude
  <2> QED BY <2>2, <2>3
<1>3. M \in [A -> Nat] /\ \A m \in A : M[m] = Magnitude(m)
  BY <1>1 DEF Magnitude
<1>4. ASSUME NEW m \in A
      PROVE  e[m] = IF m = 0 THEN 0 ELSE 1 + e[quotient(m, 10)]
  <2>1. CASE m = 0
    BY <2>1
  <2>2. CASE m # 0
    <3> DEFINE q == quotient(m, 10)
               v == Magnitude(m)
               w == Magnitude(q)
    <3>1. q \in A /\ v \in Nat /\ w = v \div 10 /\ (q = 0 <=> v < 10)
      BY <1>2, <2>2
    <3>2. e[m] = Len(ByteNumeral(v)) /\ e[q] = (IF q = 0 THEN 0 ELSE Len(ByteNumeral(w)))
      BY <2>2, <3>1
    <3> HIDE DEF A, e, q, v, w
    <3>3. Len(ByteNumeral(v)) = IF v >= 10 THEN 1 + Len(ByteNumeral(w)) ELSE 1
      BY <3>1, SpelledLength
    <3>4. e[m] = 1 + e[q]
      BY <3>1, <3>2, <3>3
    <3> QED BY <2>2, <3>4 DEF q
  <2> QED BY <2>1, <2>2
<1>5. C(e)
  <2>1. e = [m \in A |-> e[m]]
    OBVIOUS
  <2> HIDE DEF e
  <2> QED BY <1>4, <2>1
<1>6. C(g)
  <2> HIDE DEF C, e
  <2> QED BY <1>5, Zenon
<1>7. ft_numlen(n, 10) = (IF n <= 0 THEN 1 ELSE 0) + g[n]
  BY Zenon DEF ft_numlen
<1> HIDE DEF g, e
<1>8. \A m \in A : g[m] = IF m = 0 THEN 0 ELSE 1 + g[quotient(m, 10)]
  BY <1>6
<1> HIDE DEF C, A, M
<1>9. AgreeUpwards(A, M, g, e)
  <2> SUFFICES ASSUME NEW a \in A, \A b \in A : M[b] < M[a] => g[b] = e[b]
               PROVE  g[a] = e[a]
    BY DEF AgreeUpwards
  <2>1. CASE a = 0
    BY <1>4, <1>8, <2>1
  <2>2. CASE a # 0
    <3>1. quotient(a, 10) \in A /\ M[quotient(a, 10)] < M[a]
      BY <1>2, <1>3, <2>2
    <3>2. g[quotient(a, 10)] = e[quotient(a, 10)]
      BY <3>1
    <3> QED BY <1>4, <1>8, <2>2, <3>2
  <2> QED BY <2>1, <2>2
<1>10. g[n] = e[n]
  <2>1. \A a \in A : g[a] = e[a]
    BY <1>3, <1>9, SameRecursion
  <2>2. n \in A
    BY <1>1
  <2> QED BY <2>1, <2>2
<1>11. CASE n = 0
  <2>1. Magnitude(n) = 0 /\ e[n] = 0
    BY <1>1, <1>11 DEF e, Magnitude
  <2>2. Len(ByteNumeral(0)) = 1
    BY SpelledLength
  <2>3. (IF n < 0 THEN 1 ELSE 0) = 0 /\ (IF n <= 0 THEN 1 ELSE 0) = 1
    BY <1>11
  <2>4. ft_numlen(n, 10) = 1 + 0
    BY <1>7, <1>10, <2>1, <2>3, Zenon
  <2>5. Len(ByteNumeral(Magnitude(n))) = 1
    BY <2>1, <2>2, Zenon
  <2> QED BY <2>3, <2>4, <2>5
<1>12. CASE n # 0
  <2>1. e[n] = Len(ByteNumeral(Magnitude(n)))
    BY <1>1, <1>12 DEF e
  <2> QED BY <1>1, <1>7, <1>10, <1>12, <2>1
<1> QED BY <1>11, <1>12

(* ft_numstorage stores the digits in front of index len.                  *)
LEMMA NumStored ==
  ASSUME NEW num \in Nat, NEW len, NEW array
  PROVE  ft_numstorage(len, num, array) =
           LET ds == IF num = 0 THEN <<>> ELSE ByteNumeral(num)
           IN  Store(array, len - Len(ds), ds)
<1> DEFINE M == [m \in Nat |-> m]
           C(f) == f = [m \in Nat |-> IF m = 0 THEN <<>> ELSE f[m \div 10] \o <<(m % 10) + 48>>]
           e == [m \in Nat |-> IF m = 0 THEN <<>> ELSE ByteNumeral(m)]
           g == CHOOSE f : C(f)
<1>1. ASSUME NEW m \in Nat, m # 0
      PROVE  m \div 10 \in Nat /\ m \div 10 < m /\ (m \div 10 = 0 <=> m < 10) /\ (m < 10 => m % 10 = m)
  BY <1>1
<1>2. ASSUME NEW m \in Nat
      PROVE  e[m] = IF m = 0 THEN <<>> ELSE e[m \div 10] \o <<(m % 10) + 48>>
  <2>1. CASE m = 0
    BY <2>1
  <2>2. CASE m # 0 /\ ~(m >= 10)
    <3>1. m \div 10 = 0 /\ m % 10 = m
      BY <1>1, <2>2
    <3>2. e[m] = <<m + 48>> /\ e[0] = <<>>
      <4>1. m < 10
        BY <2>2
      <4>2. ByteNumeral(m) = <<m + 48>>
        BY <4>1, SpelledSteps, Zenon
      <4> QED BY <2>2, <4>2
    <3> HIDE DEF e
    <3>3. e[m \div 10] \o <<(m % 10) + 48>> = <<>> \o <<m + 48>>
      BY <3>1, <3>2, Zenon
    <3>4. <<>> \o <<m + 48>> = <<m + 48>>
      OBVIOUS
    <3> QED BY <2>2, <3>2, <3>3, <3>4
  <2>3. CASE m >= 10
    <3> DEFINE q == m \div 10
               c == (m % 10) + 48
    <3>1. m # 0 /\ q \in Nat /\ q # 0
      BY <1>1, <2>3
    <3>2. ByteNumeral(m) = ByteNumeral(q) \o <<c>>
      BY <2>3, SpelledSteps
    <3>3. e[m] = ByteNumeral(m) /\ e[q] = ByteNumeral(q)
      BY <3>1
    <3> HIDE DEF e, q, c
    <3>4. e[m] = e[q] \o <<c>>
      BY <3>2, <3>3
    <3> QED BY <3>1, <3>4 DEF q, c
  <2> QED BY <2>1, <2>2, <2>3
<1>3. C(e)
  <2>1. e = [m \in Nat |-> e[m]]
    OBVIOUS
  <2> HIDE DEF e
  <2> QED BY <1>2, <2>1
<1>4. C(g)
  <2> HIDE DEF C, e
  <2> QED BY <1>3, Zenon
<1>5. ft_numstorage(len, num, array) = Store(array, len - Len(g[num]), g[num])
  BY Zenon DEF ft_numstorage
<1> HIDE DEF g
<1>6. \A m \in Nat : g[m] = IF m = 0 THEN <<>> ELSE g[m \div 10] \o <<(m % 10) + 48>>
  BY <1>4
<1>7. M \in [Nat -> Nat] /\ \A m \in Nat : M[m] = m
  OBVIOUS
<1> HIDE DEF C, M, e
<1>8. AgreeUpwards(Nat, M, g, e)
  <2> SUFFICES ASSUME NEW a \in Nat, \A b \in Nat : M[b] < M[a] => g[b] = e[b]
               PROVE  g[a] = e[a]
    BY DEF AgreeUpwards
  <2>1. CASE a = 0
    BY <1>2, <1>6, <2>1
  <2>2. CASE a # 0
    <3> DEFINE q == a \div 10
               c == <<(a % 10) + 48>>
    <3>1. q \in Nat /\ q < a
      BY <1>1, <2>2
    <3>2. g[a] = g[q] \o c /\ e[a] = e[q] \o c
      BY <1>2, <1>6, <2>2
    <3> HIDE DEF q, c
    <3>3. g[q] = e[q]
      BY <1>7, <3>1
    <3> QED BY <3>2, <3>3
  <2> QED BY <2>1, <2>2
<1>9. g[num] = e[num]
  BY <1>7, <1>8, SameRecursion
<1>10. e[num] = IF num = 0 THEN <<>> ELSE ByteNumeral(num)
  BY DEF e
<1> QED BY <1>5, <1>9, <1>10, Zenon

(* The text of an int, and its characters one by one.                      *)
Sign(n)   == IF n < 0 THEN <<45>> ELSE <<>>
IntText(n) == Sign(n) \o ByteNumeral(Magnitude(n))

LEMMA IntTextParts ==
  ASSUME NEW n \in Int
  PROVE  /\ IntText(n) \in Seq(Nat \ {0}) /\ Magnitude(n) \in Nat /\ Len(Sign(n)) \in Nat
         /\ Sign(n) \in Seq(Nat \ {0}) /\ ByteNumeral(Magnitude(n)) \in Seq(Nat \ {0})
         /\ Len(Sign(n)) = (IF n < 0 THEN 1 ELSE 0) /\ (n < 0 => Sign(n)[1] = 45)
         /\ Joins(IntText(n), Sign(n), ByteNumeral(Magnitude(n)))
<1>1. Magnitude(n) \in Nat
  BY DEF Magnitude
<1> DEFINE d == ByteNumeral(Magnitude(n))
           g == Sign(n)
<1>2. d \in Seq(Nat \ {0})
  <2>1. d \in Seq(DigitBytes)
    BY <1>1, SpelledSteps
  <2>2. DigitBytes \subseteq Nat \ {0}
    BY DEF DigitBytes
  <2> DEFINE P == Nat \ {0}
  <2>3. DigitBytes \subseteq P
    BY <2>2
  <2> HIDE DEF d, P
  <2>4. d \in Seq(P)
    BY <2>1, <2>3
  <2> QED BY <2>4 DEF P
<1>3. /\ g \in Seq(Nat \ {0}) /\ Len(g) \in Nat
      /\ Len(g) = (IF n < 0 THEN 1 ELSE 0) /\ (n < 0 => g[1] = 45)
  <2>1. CASE n < 0
    <3>1. g = <<45>>
      BY <2>1 DEF Sign
    <3> QED BY <2>1, <3>1
  <2>2. CASE ~(n < 0)
    <3>1. g = <<>>
      BY <2>2 DEF Sign
    <3> QED BY <2>2, <3>1
  <2> QED BY <2>1, <2>2
<1> HIDE DEF d, g
<1>4. g \o d \in Seq(Nat \ {0}) /\ Joins(g \o d, g, d)
  BY <1>2, <1>3, ConcatJoins
<1> QED BY <1>1, <1>2, <1>3, <1>4 DEF IntText, d, g

(* ft_putnbr_fd writes the text of its argument.                           *)
LEMMA PutNbrWrites ==
  ASSUME NEW n \in Ints
  PROVE  ft_putnbr_fd(n) = IntText(n)
<1> DEFINE M == [m \in Ints |-> Magnitude(m)]
           step(f, m) ==
             LET sign  == IF m < 0 THEN -1 ELSE 1
                 front == quotient(m, 10)
             IN  (IF m < 0 THEN <<45>> ELSE <<>>)
                 \o (IF front # 0 THEN f[to_int(front * sign)] ELSE <<>>)
                 \o <<48 + (m - 10 * front) * sign>>
           C(f) == f = [m \in INT_MIN .. - INT_MIN - 1 |-> step(f, m)]
           e == [m \in Ints |-> IntText(m)]
           g == CHOOSE f : C(f)
<1>1. INT_MIN \in Int /\ - INT_MIN \in Nat /\ - INT_MIN > 10 /\ Ints = INT_MIN .. - INT_MIN - 1
  BY IntValues
<1>2. M \in [Ints -> Nat] /\ \A m \in Ints : M[m] = Magnitude(m)
  BY <1>1 DEF Magnitude
<1>3. ASSUME NEW f, NEW m \in Ints
      PROVE  /\ Magnitude(m) \div 10 \in Ints /\ Magnitude(m) \in Nat
             /\ Magnitude(m) >= 10 => M[Magnitude(m) \div 10] < M[m]
             /\ step(f, m) =
                  Sign(m) \o (IF Magnitude(m) >= 10 THEN f[Magnitude(m) \div 10] ELSE <<>>)
                          \o <<(Magnitude(m) % 10) + 48>>
  <2> DEFINE v == Magnitude(m)
             w == v \div 10
             sign == IF m < 0 THEN -1 ELSE 1
             front == quotient(m, 10)
  <2>1. m \in Int /\ v \in Nat /\ v = (IF m < 0 THEN - m ELSE m) /\ v <= - INT_MIN
    BY <1>1 DEF Magnitude
  <2> HIDE DEF v
  <2>2. /\ w \in Nat /\ v % 10 = v - 10 * w /\ v % 10 \in Nat /\ w <= v /\ (w # 0 <=> v >= 10)
        /\ v >= 10 => w < v
    BY <2>1
  <2>3. front = (IF m < 0 THEN - w ELSE w)
    BY <2>1 DEF quotient
  <2> HIDE DEF w, front
  <2>4. w \in Ints
    <3>1. w < - INT_MIN
      BY <1>1, <2>1, <2>2
    <3> QED BY <1>1, <2>2, <3>1
  <2>5. front * sign = w /\ (front # 0 <=> v >= 10) /\ 48 + (m - 10 * front) * sign = (v % 10) + 48
    <3>1. CASE m < 0
      BY <2>1, <2>2, <2>3, <3>1
    <3>2. CASE ~(m < 0)
      BY <2>1, <2>2, <2>3, <3>2
    <3> QED BY <3>1, <3>2
  <2>6. to_int(front * sign) = w
    BY <2>4, <2>5, ToInt
  <2>7. step(f, m) = Sign(m) \o (IF v >= 10 THEN f[w] ELSE <<>>) \o <<(v % 10) + 48>>
    <3>1. step(f, m) = Sign(m) \o (IF front # 0 THEN f[to_int(front * sign)] ELSE <<>>)
                               \o <<48 + (m - 10 * front) * sign>>
      BY Zenon DEF Sign, front
    <3>2. (IF front # 0 THEN f[to_int(front * sign)] ELSE <<>>) = (IF v >= 10 THEN f[w] ELSE <<>>)
      BY <2>5, <2>6
    <3> HIDE DEF step
    <3> QED BY <2>5, <3>1, <3>2, Zenon
  <2>8. v >= 10 => M[w] < M[m]
    <3>1. Magnitude(w) = w /\ M[w] = Magnitude(w) /\ M[m] = v
      BY <1>2, <2>2, <2>4 DEF Magnitude, v
    <3> QED BY <2>2, <3>1
  <2> HIDE DEF step
  <2> QED BY <2>1, <2>4, <2>7, <2>8 DEF v, w
<1>4. ASSUME NEW m \in Ints
      PROVE  e[m] = step(e, m)
  <2> DEFINE v == Magnitude(m)
             w == v \div 10
             c == <<(v % 10) + 48>>
  <2>1. v \in Nat /\ w \in Ints /\ w \in Nat
    <3>1. v \in Nat /\ w \in Ints
      BY <1>3
    <3> HIDE DEF v
    <3> QED BY <3>1
  <2>2. step(e, m) = Sign(m) \o (IF v >= 10 THEN e[w] ELSE <<>>) \o c
    BY <1>3
  <2> HIDE DEF step
  <2>3. e[m] = Sign(m) \o ByteNumeral(v) /\ m \in Int
    BY <1>1 DEF IntText
  <2>4. e[w] = ByteNumeral(w)
    <3>1. e[w] = IntText(w) /\ Magnitude(w) = w /\ Sign(w) = <<>>
      BY <2>1 DEF Magnitude, Sign
    <3>2. ByteNumeral(w) \in Seq(DigitBytes)
      BY <2>1, SpelledSteps
    <3> HIDE DEF e
    <3>3. <<>> \o ByteNumeral(w) = ByteNumeral(w)
      BY <3>2
    <3> QED BY <3>1, <3>3 DEF IntText
  <2>5. Sign(m) \in Seq(Nat \ {0})
    BY <2>3, IntTextParts
  <2>6. ByteNumeral(w) \in Seq(Nat \ {0}) /\ c \in Seq(Nat \ {0})
    <3>1. ByteNumeral(w) \in Seq(DigitBytes) /\ (v % 10) + 48 \in DigitBytes
      BY <2>1, SpelledSteps
    <3>2. DigitBytes \subseteq Nat \ {0}
      BY DEF DigitBytes
    <3> DEFINE z == (v % 10) + 48
    <3> DEFINE P == Nat \ {0}
               u == ByteNumeral(w)
    <3>3. u \in Seq(DigitBytes) /\ z \in DigitBytes /\ DigitBytes \subseteq P
      BY <3>1, <3>2
    <3> HIDE DEF w, v, z, u, P
    <3>4. u \in Seq(P) /\ <<z>> \in Seq(P)
      BY <3>3
    <3> QED BY <3>4 DEF z, u, P
  <2> HIDE DEF e
  <2>7. CASE v >= 10
    <3>1. ByteNumeral(v) = ByteNumeral(w) \o c
      BY <2>1, <2>7, SpelledSteps
    <3> HIDE DEF c, v, w
    <3>2. (Sign(m) \o ByteNumeral(w)) \o c = Sign(m) \o (ByteNumeral(w) \o c)
      <4> DEFINE P == Nat \ {0}
                 g1 == Sign(m)
                 u == ByteNumeral(w)
      <4>1. g1 \in Seq(P) /\ u \in Seq(P) /\ c \in Seq(P)
        BY <2>5, <2>6
      <4> HIDE DEF P, g1, u
      <4>2. (g1 \o u) \o c = g1 \o (u \o c)
        BY <4>1, ConcatAssociative
      <4> QED BY <4>2 DEF g1, u
    <3> QED BY <2>2, <2>3, <2>4, <2>7, <3>1, <3>2
  <2>8. CASE ~(v >= 10)
    <3>1. v < 10 /\ v % 10 = v
      <4> HIDE DEF v
      <4> QED BY <2>1, <2>8
    <3>2. ByteNumeral(v) = c
      <4>1. ByteNumeral(v) = <<v + 48>>
        BY <2>1, <3>1, SpelledSteps, Zenon
      <4> HIDE DEF v
      <4> QED BY <3>1, <4>1
    <3> HIDE DEF c, v, w
    <3>3. Sign(m) \o <<>> = Sign(m)
      BY <2>5
    <3>4. step(e, m) = Sign(m) \o <<>> \o c
      BY <2>2, <2>8
    <3> QED BY <2>3, <3>2, <3>3, <3>4
  <2> QED BY <2>7, <2>8
<1>5. C(e)
  <2>1. e = [m \in Ints |-> e[m]]
    OBVIOUS
  <2> HIDE DEF e, step
  <2> QED BY <1>1, <1>4, <2>1
<1>6. C(g)
  <2> HIDE DEF C, e
  <2> QED BY <1>5, Zenon
<1>7. ft_putnbr_fd(n) = g[n]
  BY Zenon DEF ft_putnbr_fd
<1> HIDE DEF g
<1>8. \A m \in Ints : g[m] = step(g, m)
  <2> HIDE DEF step
  <2> QED BY <1>1, <1>6
<1> HIDE DEF C, M, e, step
<1>9. AgreeUpwards(Ints, M, g, e)
  <2> SUFFICES ASSUME NEW a \in Ints, \A b \in Ints : M[b] < M[a] => g[b] = e[b]
               PROVE  g[a] = e[a]
    BY DEF AgreeUpwards
  <2> DEFINE v == Magnitude(a)
             w == v \div 10
             front(f) == IF v >= 10 THEN f[w] ELSE <<>>
             c == <<(v % 10) + 48>>
  <2>1. /\ g[a] = Sign(a) \o front(g) \o c
        /\ e[a] = Sign(a) \o front(e) \o c
    BY <1>3, <1>4, <1>8
  <2>2. w \in Ints /\ (v >= 10 => M[w] < M[a])
    BY <1>3
  <2> HIDE DEF v, w, c
  <2>3. front(g) = front(e)
    BY <2>2
  <2> QED BY <2>1, <2>3
<1>10. g[n] = e[n]
  <2>1. \A a \in Ints : g[a] = e[a]
    BY <1>2, <1>9, SameRecursion
  <2> QED BY <2>1
<1> QED BY <1>7, <1>10 DEF e

(* A byte stored when it should be.                                        *)
MaybeStored(b, n, p, x, c, r, S) ==
  /\ r \in [0 .. n - 1 -> S]
  /\ \A k \in 0 .. n - 1 : r[k] = IF c /\ k = p THEN x ELSE b[k]

LEMMA MaybeStore ==
  ASSUME NEW S, NEW n \in Nat, NEW b \in [0 .. n - 1 -> S], NEW p \in Nat, p < n,
         NEW x \in S, NEW c \in BOOLEAN, NEW r, r = IF c THEN Store(b, p, <<x>>) ELSE b
  PROVE  MaybeStored(b, n, p, x, c, r, S)
<1>1. CASE c
  <2> DEFINE text == <<x>>
  <2>1. text \in Seq(S) /\ Len(text) = 1 /\ text[1] = x
    OBVIOUS
  <2>2. r = Store(b, p, text)
    BY <1>1
  <2> HIDE DEF text
  <2>3. p + Len(text) <= n
    BY <2>1
  <2>4. Stored(b, n, p, text, r, S)
    BY <2>1, <2>2, <2>3, StoreInside
  <2>5. ASSUME NEW k \in 0 .. n - 1
        PROVE  r[k] = IF k = p THEN x ELSE b[k]
    <3>1. r[k] = IF p <= k /\ k < p + Len(text) THEN text[k - p + 1] ELSE b[k]
      BY <2>4 DEF Stored
    <3>2. CASE k = p
      <4>1. p <= k /\ k < p + Len(text) /\ k - p + 1 = 1
        BY <2>1, <3>2
      <4> QED BY <2>1, <3>1, <3>2, <4>1
    <3>3. CASE k # p
      <4>1. ~(p <= k /\ k < p + Len(text))
        BY <2>1, <3>3
      <4> QED BY <3>1, <3>3, <4>1
    <3> QED BY <3>2, <3>3
  <2> QED BY <1>1, <2>4, <2>5 DEF MaybeStored, Stored
<1>2. CASE ~c
  BY <1>2 DEF MaybeStored
<1> QED BY <1>1, <1>2

(* What ft_itoa works with: num is the number it gives to ft_numstorage,   *)
(* and ds the digits of that.                                              *)
ItoaArguments(n, L, num, p, ds) ==
  /\ ft_numlen(n, 10) = L
  /\ num = Magnitude(IF n = INT_MIN THEN quotient(n, 10) ELSE n)
  /\ ds = (IF num = 0 THEN <<>> ELSE ByteNumeral(num))
  /\ p + Len(ds) = IF n = INT_MIN THEN L - 1 ELSE L

(* What ft_itoa leaves in its array of n bytes: 0 at the end, then the     *)
(* sign, the last digit of INT_MIN and the digit of 0 where they are due,  *)
(* and the digits ds from p on.                                            *)
Filled(b, L, n, num, p, ds) ==
  /\ p \in Nat /\ p + Len(ds) <= L /\ b = [k \in 0 .. L |-> b[k]]
  /\ \A k \in 0 .. L :
       b[k] = IF p <= k /\ k < p + Len(ds) THEN ds[k - p + 1]
              ELSE IF num = 0 /\ k = 0 THEN 48
              ELSE IF n = INT_MIN /\ k = L - 1 THEN 56
              ELSE IF n < 0 /\ k = 0 THEN 45
              ELSE IF k = L THEN 0
              ELSE UNINIT

LEMMA ItoaFills ==
  ASSUME NEW n \in Ints, NEW L \in Nat \ {0}, NEW num \in Nat, NEW p \in Nat, NEW ds,
         ItoaArguments(n, L, num, p, ds)
  PROVE  Filled(ft_itoa(n, FALSE), L, n, num, p, ds)
<1> SUFFICES ASSUME ft_numlen(n, 10) = L,
                    num = Magnitude(IF n = INT_MIN THEN quotient(n, 10) ELSE n),
                    ds = (IF num = 0 THEN <<>> ELSE ByteNumeral(num)),
                    p + Len(ds) = IF n = INT_MIN THEN L - 1 ELSE L
             PROVE  Filled(ft_itoa(n, FALSE), L, n, num, p, ds)
  BY DEF ItoaArguments
<1> DEFINE S == Nat \cup {UNINIT}
           N == L + 1
           a0 == malloc(L + 1)
           a1 == Store(a0, L, <<0>>)
           a2 == IF n < 0 THEN Store(a1, 0, <<45>>) ELSE a1
           a3 == IF n = INT_MIN THEN Store(a2, L - 1, <<56>>) ELSE a2
           a4 == IF num = 0 THEN Store(a3, 0, <<48>>) ELSE a3
           len == IF n = INT_MIN THEN L - 1 ELSE L
           rest == IF n = INT_MIN THEN quotient(n, 10) ELSE n
<1>1. n \in Int /\ INT_MIN \in Int /\ INT_MIN < 0
  BY IntValues
<1>2. num = IF n < 0 THEN - rest ELSE rest
  <2>1. CASE n = INT_MIN
    <3>1. rest = - ((- n) \div 10) /\ (- n) \in Nat /\ - n > 10 /\ n < 0
      BY <1>1, <2>1, IntValues DEF quotient
    <3>2. rest < 0 /\ num = Magnitude(rest)
      <4>1. (- n) \div 10 > 0 /\ (- n) \div 10 \in Nat
        BY <3>1
      <4> QED BY <3>1, <4>1
    <3> HIDE DEF rest
    <3> QED BY <3>1, <3>2 DEF Magnitude
  <2>2. CASE n # INT_MIN
    <3>1. rest = n /\ num = Magnitude(rest)
      BY <2>2
    <3> HIDE DEF rest
    <3> QED BY <3>1 DEF Magnitude
  <2> QED BY <2>1, <2>2
<1>3. ft_itoa(n, FALSE) = ft_numstorage(len, num, a4)
  <2>1. ft_itoa(n, FALSE) =
          LET l == ft_numlen(n, 10)
              array == Store(malloc(l + 1), l, <<0>>)
              signed == IF n < 0 THEN Store(array, 0, <<45>>) ELSE array
              lastb == IF n = INT_MIN THEN Store(signed, l - 1, <<56>>) ELSE signed
              ll == IF n = INT_MIN THEN l - 1 ELSE l
              rr == IF n = INT_MIN THEN quotient(n, 10) ELSE n
              m == IF n < 0 THEN - rr ELSE rr
          IN  ft_numstorage(ll, m, IF m = 0 THEN Store(lastb, 0, <<48>>) ELSE lastb)
    BY DEF ft_itoa
  <2> QED BY <1>2, <2>1, Zenon
<1>4. ft_itoa(n, FALSE) = Store(a4, p, ds)
  <2>1. ft_numstorage(len, num, a4) =
           LET dd == IF num = 0 THEN <<>> ELSE ByteNumeral(num)
           IN  Store(a4, len - Len(dd), dd)
    <3> HIDE DEF a4, len
    <3> QED BY NumStored, Zenon
  <2>2. ft_numstorage(len, num, a4) = Store(a4, len - Len(ds), ds)
    <3> HIDE DEF a4, len
    <3> QED BY <2>1, Zenon
  <2>3. Len(ds) \in Nat
    <3>1. CASE num = 0
      BY <3>1
    <3>2. CASE num # 0
      <4>1. Len(ByteNumeral(num)) \in Nat
        BY SpelledSteps
      <4> QED BY <3>2, <4>1
    <3> QED BY <3>1, <3>2
  <2> DEFINE x == Len(ds)
  <2>4. x \in Nat /\ p + x = len /\ len \in Nat
    BY <2>3
  <2> HIDE DEF x, len
  <2>5. len - x = p
    BY <2>4
  <2> HIDE DEF a4
  <2> QED BY <1>3, <2>2, <2>5, Zenon DEF x
<1>5. N \in Nat /\ L < N /\ N - 1 = L /\ 0 < N /\ L - 1 \in Nat /\ L - 1 < N /\ 0 \in Nat
  OBVIOUS
<1>6. 0 \in S /\ 45 \in S /\ 48 \in S /\ 56 \in S
  OBVIOUS
<1>7. a0 \in [0 .. N - 1 -> S] /\ \A k \in 0 .. L : a0[k] = UNINIT
  BY DEF malloc
<1>8. ds \in Seq(S) /\ Len(ds) \in Nat /\ p + Len(ds) <= L
  <2>0. p + Len(ds) <= L
    OBVIOUS
  <2>1. CASE num = 0
    <3>1. ds = <<>>
      BY <2>1
    <3>2. <<>> \in Seq(S) /\ Len(<<>>) = 0
      OBVIOUS
    <3> QED BY <2>0, <3>1, <3>2
  <2>2. CASE num # 0
    <3>1. ByteNumeral(num) \in Seq(DigitBytes) /\ ds = ByteNumeral(num)
      BY <2>2, SpelledSteps
    <3>2. DigitBytes \subseteq S
      BY DEF DigitBytes
    <3> HIDE DEF S
    <3>3. ds \in Seq(S) /\ Len(ds) \in Nat
      BY <3>1, <3>2
    <3> QED BY <2>0, <3>3
  <2> QED BY <2>1, <2>2
<1> HIDE DEF S, N
<1>9. MaybeStored(a0, N, L, 0, TRUE, a1, S)
  <2>1. a1 = IF TRUE THEN Store(a0, L, <<0>>) ELSE a0
    OBVIOUS
  <2> HIDE DEF a0, a1
  <2> QED BY <1>5, <1>6, <1>7, <2>1, MaybeStore
<1>10. MaybeStored(a1, N, 0, 45, n < 0, a2, S)
  <2>1. a1 \in [0 .. N - 1 -> S]
    BY <1>9 DEF MaybeStored
  <2> DEFINE neg == n < 0
  <2>2. neg \in BOOLEAN
    OBVIOUS
  <2>3. a2 = IF neg THEN Store(a1, 0, <<45>>) ELSE a1
    OBVIOUS
  <2> HIDE DEF a1, a2, neg
  <2>4. ASSUME NEW x \in S, NEW q \in Nat, q < N, NEW c \in BOOLEAN,
               NEW r, r = IF c THEN Store(a1, q, <<x>>) ELSE a1
        PROVE  MaybeStored(a1, N, q, x, c, r, S)
    BY <1>5, <2>1, <2>4, MaybeStore
  <2>5. MaybeStored(a1, N, 0, 45, neg, a2, S)
    BY <1>5, <1>6, <2>2, <2>3, <2>4, Zenon
  <2> QED BY <2>5 DEF neg
<1>11. MaybeStored(a2, N, L - 1, 56, n = INT_MIN, a3, S)
  <2>1. a2 \in [0 .. N - 1 -> S]
    BY <1>10 DEF MaybeStored
  <2>2. (n = INT_MIN) \in BOOLEAN
    OBVIOUS
  <2>3. a3 = IF n = INT_MIN THEN Store(a2, L - 1, <<56>>) ELSE a2
    OBVIOUS
  <2> DEFINE y == L - 1
  <2>4. y \in Nat /\ y < N /\ a3 = IF n = INT_MIN THEN Store(a2, y, <<56>>) ELSE a2
    BY <1>5, <2>3
  <2> HIDE DEF a2, a3, y
  <2>5. MaybeStored(a2, N, y, 56, n = INT_MIN, a3, S)
    BY <1>5, <1>6, <2>1, <2>2, <2>4, MaybeStore
  <2> QED BY <2>5 DEF y
<1>12. MaybeStored(a3, N, 0, 48, num = 0, a4, S)
  <2>1. a3 \in [0 .. N - 1 -> S]
    BY <1>11 DEF MaybeStored
  <2>2. (num = 0) \in BOOLEAN
    OBVIOUS
  <2>3. a4 = IF num = 0 THEN Store(a3, 0, <<48>>) ELSE a3
    OBVIOUS
  <2> HIDE DEF a3, a4
  <2> QED BY <1>5, <1>6, <2>1, <2>2, <2>3, MaybeStore
<1> HIDE DEF a0, a1, a2, a3, a4
<1>13. Stored(a4, N, p, ds, ft_itoa(n, FALSE), S)
  <2>1. a4 \in [0 .. N - 1 -> S] /\ p + Len(ds) <= N
    BY <1>5, <1>8, <1>12 DEF MaybeStored
  <2>2. Stored(a4, N, p, ds, Store(a4, p, ds), S)
    BY <1>5, <1>8, <2>1, StoreInside
  <2> QED BY <1>4, <2>2, Zenon
<1>14. ASSUME NEW k \in 0 .. L
       PROVE  ft_itoa(n, FALSE)[k] =
                IF p <= k /\ k < p + Len(ds) THEN ds[k - p + 1]
                ELSE IF num = 0 /\ k = 0 THEN 48
                ELSE IF n = INT_MIN /\ k = L - 1 THEN 56
                ELSE IF n < 0 /\ k = 0 THEN 45
                ELSE IF k = L THEN 0
                ELSE UNINIT
  <2>1. k \in 0 .. N - 1
    BY <1>5
  <2>2. ft_itoa(n, FALSE)[k] = IF p <= k /\ k < p + Len(ds) THEN ds[k - p + 1] ELSE a4[k]
    BY <1>13, <2>1 DEF Stored
  <2>3. a4[k] = IF num = 0 /\ k = 0 THEN 48 ELSE a3[k]
    BY <1>12, <2>1, Zenon DEF MaybeStored
  <2>4. a3[k] = IF n = INT_MIN /\ k = L - 1 THEN 56 ELSE a2[k]
    BY <1>11, <2>1, Zenon DEF MaybeStored
  <2>5. a2[k] = IF n < 0 /\ k = 0 THEN 45 ELSE a1[k]
    BY <1>10, <2>1, Zenon DEF MaybeStored
  <2>6. a1[k] = IF TRUE /\ k = L THEN 0 ELSE a0[k]
    BY <1>9, <2>1, Zenon DEF MaybeStored
  <2>7. a0[k] = UNINIT
    BY <1>7
  <2> QED BY <2>2, <2>3, <2>4, <2>5, <2>6, <2>7
<1>15. ft_itoa(n, FALSE) = [k \in 0 .. L |-> ft_itoa(n, FALSE)[k]]
  BY <1>5, <1>13 DEF Stored
<1> QED BY <1>8, <1>14, <1>15 DEF Filled

LEMMA SpelledLast ==
  ASSUME NEW n \in Nat, n >= 10
  PROVE  /\ Len(ByteNumeral(n)) = Len(ByteNumeral(n \div 10)) + 1
         /\ \A k \in 1 .. Len(ByteNumeral(n \div 10)) : ByteNumeral(n)[k] = ByteNumeral(n \div 10)[k]
         /\ ByteNumeral(n)[Len(ByteNumeral(n \div 10)) + 1] = (n % 10) + 48
<1> DEFINE q == n \div 10
           c == (n % 10) + 48
           e == ByteNumeral(q)
           o == <<c>>
           d == ByteNumeral(n)
<1>1. d = e \o o /\ c \in DigitBytes /\ q \in Nat
  BY SpelledSteps
<1>2. e \in Seq(DigitBytes)
  <2> HIDE DEF q
  <2> QED BY <1>1, SpelledSteps
<1>3. o \in Seq(DigitBytes) /\ Len(o) = 1 /\ o[1] = c
  <2> HIDE DEF c
  <2> QED BY <1>1
<1> HIDE DEF q, c, e, o, d
<1>4. Joins(d, e, o)
  BY <1>1, <1>2, <1>3, ConcatJoins
<1>5. 1 \in 1 .. Len(o)
  BY <1>3
<1>6. Len(d) = Len(e) + 1 /\ (\A k \in 1 .. Len(e) : d[k] = e[k]) /\ d[Len(e) + 1] = c
  BY <1>3, <1>4, <1>5 DEF Joins
<1> QED BY <1>6 DEF q, c, e, d

(* ft_itoa writes the text of its argument and the 0 into exactly the      *)
(* bytes it asked for.                                                     *)
LEMMA ItoaWrites ==
  ASSUME NEW n \in Ints
  PROVE  Holds(ft_itoa(n, FALSE), Len(IntText(n)) + 1, IntText(n))
<1> DEFINE t == IntText(n)
           L == Len(t)
           v == Magnitude(n)
           d == ByteNumeral(v)
           l == Len(d)
           g == Sign(n)
           b == ft_itoa(n, FALSE)
<1>1. n \in Int /\ INT_MIN \in Int /\ INT_MIN < 0 /\ (n < 0 => v = - n) /\ (~(n < 0) => v = n)
  BY IntValues DEF Magnitude
<1>2. /\ t \in Seq(Nat \ {0}) /\ v \in Nat /\ Joins(t, g, d)
      /\ Len(g) = (IF n < 0 THEN 1 ELSE 0) /\ (n < 0 => g[1] = 45)
  BY <1>1, IntTextParts
<1>3. l \in Nat \ {0}
  BY <1>2, SpelledSteps
<1>4. ft_numlen(n, 10) = (IF n < 0 THEN 1 ELSE 0) + l
  BY NumLenCounts
<1> HIDE DEF t, v, d, l, g, b
<1>5. /\ L = (IF n < 0 THEN 1 ELSE 0) + l /\ L \in Nat \ {0} /\ ft_numlen(n, 10) = L
      /\ \A k \in 1 .. l : t[(IF n < 0 THEN 1 ELSE 0) + k] = d[k]
      /\ n < 0 => t[1] = 45
  <2>1. /\ L = Len(g) + l /\ (\A k \in 1 .. Len(g) : t[k] = g[k])
        /\ \A k \in 1 .. l : t[Len(g) + k] = d[k]
    BY <1>2 DEF Joins, l
  <2>2. n < 0 => 1 \in 1 .. Len(g)
    BY <1>2
  <2> HIDE DEF L
  <2> QED BY <1>2, <1>3, <1>4, <2>1, <2>2
<1> HIDE DEF L
<1> SUFFICES /\ b = [k \in 0 .. L |-> b[k]] /\ b[L] = 0
             /\ \A k \in 1 .. L : b[k - 1] = t[k]
  <2> DEFINE N == L + 1
             P == Nat \ {0}
  <2>1. ASSUME NEW k \in 0 .. L, \A x \in 1 .. L : b[x - 1] = t[x], b[L] = 0
        PROVE  b[k] \in Nat
    <3>1. CASE k = L
      BY <2>1, <3>1
    <3>2. CASE k # L
      <4>1. k + 1 \in 1 .. L /\ (k + 1) - 1 = k
        BY <1>5, <3>2
      <4>2. t[k + 1] \in Nat
        <5>1. t[k + 1] \in P
          <6> HIDE DEF P
          <6> QED BY <1>2, <4>1 DEF L, P
        <5> QED BY <5>1
      <4> QED BY <2>1, <4>1, <4>2
    <3> QED BY <3>1, <3>2
  <2>2. N - 1 = L /\ N = L + 1 /\ L < N
    BY <1>5
  <2>3. b \in [0 .. N - 1 -> Nat]
    BY <2>1, <2>2
  <2>4. Len(t) < N /\ \A k \in 1 .. Len(t) : b[k - 1] = t[k]
    BY <2>2 DEF L
  <2> HIDE DEF N
  <2>5. Holds(b, N, t)
    BY <1>2, <2>3, <2>4 DEF Holds, L
  <2> QED BY <2>2, <2>5 DEF L, t, b
<1>6. CASE n # INT_MIN /\ v # 0
  <2> DEFINE p == L - l
  <2>1. p = (IF n < 0 THEN 1 ELSE 0) /\ p \in Nat /\ p + l = L
    BY <1>3, <1>5
  <2> HIDE DEF p
  <2>2. Filled(b, L, n, v, p, d)
    <3>1. /\ v = Magnitude(IF n = INT_MIN THEN quotient(n, 10) ELSE n)
          /\ d = (IF v = 0 THEN <<>> ELSE ByteNumeral(v))
          /\ p + Len(d) = (IF n = INT_MIN THEN L - 1 ELSE L)
      BY <1>6, <2>1 DEF v, d, l
    <3>2. ItoaArguments(n, L, v, p, d)
      BY <1>5, <3>1 DEF ItoaArguments
    <3> QED BY <1>2, <1>5, <2>1, <3>2, ItoaFills DEF b
  <2>3. \A k \in 0 .. L :
          b[k] = IF p <= k /\ k < p + l THEN d[k - p + 1]
                 ELSE IF n < 0 /\ k = 0 THEN 45 ELSE IF k = L THEN 0 ELSE UNINIT
    BY <1>6, <2>2 DEF Filled, l
  <2>4. b[L] = 0
    <3>1. L \in 0 .. L /\ ~(L < p + l) /\ ~(L = 0)
      BY <1>3, <1>5, <2>1
    <3> QED BY <2>3, <3>1
  <2>5. ASSUME NEW k \in 1 .. L
        PROVE  b[k - 1] = t[k]
    <3>1. k - 1 \in 0 .. L /\ k - 1 < p + l
      BY <1>5, <2>1
    <3>2. CASE k - 1 < p
      <4>1. n < 0 /\ k = 1 /\ k - 1 = 0 /\ ~(p <= k - 1)
        BY <1>5, <2>1, <3>2
      <4>2. b[k - 1] = 45
        BY <2>3, <3>1, <4>1
      <4> QED BY <1>5, <4>1, <4>2
    <3>3. CASE ~(k - 1 < p)
      <4>1. p <= k - 1 /\ (k - 1) - p + 1 = k - p /\ k - p \in 1 .. l /\ p + (k - p) = k
        BY <1>3, <1>5, <2>1, <3>1, <3>3
      <4>2. b[k - 1] = d[k - p]
        BY <2>3, <3>1, <4>1
      <4>3. t[p + (k - p)] = d[k - p]
        BY <1>5, <2>1, <4>1
      <4> QED BY <4>1, <4>2, <4>3
    <3> QED BY <3>2, <3>3
  <2>6. b = [k \in 0 .. L |-> b[k]]
    BY <2>2 DEF Filled
  <2> QED BY <2>4, <2>5, <2>6
<1>7. CASE n # INT_MIN /\ v = 0
  <2>1. n = 0 /\ ~(n < 0) /\ l = 1 /\ d[1] = 48 /\ L = 1
    <3>1. ByteNumeral(0) = <<0 + 48>>
      <4> DEFINE z == 0
      <4>1. z \in Nat /\ z < 10
        OBVIOUS
      <4> HIDE DEF z
      <4>2. ByteNumeral(z) = <<z + 48>>
        BY <4>1, SpelledSteps, Zenon
      <4> QED BY <4>2 DEF z
    <3>2. d = <<48>>
      BY <1>7, <3>1 DEF d
    <3>3. l = 1 /\ d[1] = 48
      BY <3>2 DEF l
    <3> QED BY <1>1, <1>5, <1>7, <3>3
  <2> DEFINE ds == <<>>
  <2>2. Filled(b, L, n, v, 1, ds)
    <3>1. /\ v = Magnitude(IF n = INT_MIN THEN quotient(n, 10) ELSE n)
          /\ ds = (IF v = 0 THEN <<>> ELSE ByteNumeral(v))
          /\ 1 + Len(ds) = (IF n = INT_MIN THEN L - 1 ELSE L)
      BY <1>7, <2>1 DEF v
    <3> HIDE DEF ds
    <3>2. ItoaArguments(n, L, v, 1, ds) /\ 1 \in Nat
      BY <1>5, <3>1 DEF ItoaArguments
    <3> QED BY <1>2, <1>5, <3>2, ItoaFills DEF b
  <2>3. b[0] = 48 /\ b[1] = 0
    <3>1. Len(ds) = 0
      OBVIOUS
    <3> HIDE DEF ds
    <3> QED BY <1>7, <2>1, <2>2, <3>1 DEF Filled
  <2>4. t[0 + 1] = d[1]
    BY <1>5, <2>1
  <2>5. b = [k \in 0 .. L |-> b[k]]
    BY <2>2 DEF Filled
  <2> QED BY <2>1, <2>3, <2>4, <2>5
<1>8. CASE n = INT_MIN
  <2> DEFINE w == v \div 10
             ds == ByteNumeral(w)
             x == Len(ds)
  <2>1. v >= 10 /\ v % 10 = 8 /\ n < 0
    BY <1>1, <1>8, IntValues
  <2>2. w \in Nat /\ w # 0
    BY <1>2, <2>1
  <2>3. /\ l = x + 1 /\ (\A k \in 1 .. x : d[k] = ds[k]) /\ d[x + 1] = 56
    <3>1. (v % 10) + 48 = 56
      BY <2>1
    <3> QED BY <1>2, <2>1, <3>1, SpelledLast DEF l, d
  <2>4. w = Magnitude(quotient(n, 10))
    <3>1. n \in Int /\ n # 0
      BY <1>1, <2>1
    <3>2. Magnitude(quotient(n, 10)) = Magnitude(n) \div 10
      BY <3>1, Quotients, Zenon
    <3> QED BY <3>2 DEF v
  <2> HIDE DEF w
  <2>5. x \in Nat \ {0}
    BY <2>2, SpelledSteps
  <2>6. Filled(b, L, n, w, 1, ds)
    <3>1. /\ w = Magnitude(IF n = INT_MIN THEN quotient(n, 10) ELSE n)
          /\ ds = (IF w = 0 THEN <<>> ELSE ByteNumeral(w))
      BY <1>8, <2>2, <2>4
    <3> HIDE DEF x
    <3>2. 1 + x = (IF n = INT_MIN THEN L - 1 ELSE L)
      BY <1>5, <1>8, <2>1, <2>3, <2>5
    <3>3. 1 + Len(ds) = (IF n = INT_MIN THEN L - 1 ELSE L)
      BY <3>2 DEF x
    <3> HIDE DEF ds
    <3>4. ItoaArguments(n, L, w, 1, ds) /\ 1 \in Nat
      BY <1>5, <3>1, <3>3 DEF ItoaArguments
    <3> QED BY <1>5, <2>2, <3>4, ItoaFills DEF b
  <2>7. \A k \in 0 .. L :
          b[k] = IF 1 <= k /\ k < 1 + x THEN ds[k - 1 + 1]
                 ELSE IF k = L - 1 THEN 56
                 ELSE IF k = 0 THEN 45 ELSE IF k = L THEN 0 ELSE UNINIT
    BY <1>8, <2>1, <2>2, <2>6 DEF Filled
  <2> HIDE DEF ds, x
  <2>8. L = x + 2
    BY <1>3, <1>5, <2>1, <2>3, <2>5
  <2>9. b[L] = 0
    <3>1. L \in 0 .. L /\ ~(L < 1 + x) /\ L # 0 /\ L # L - 1
      BY <2>5, <2>8
    <3> QED BY <2>7, <3>1
  <2>10. ASSUME NEW k \in 1 .. L
         PROVE  b[k - 1] = t[k]
    <3>1. k - 1 \in 0 .. L
      BY <2>5, <2>8
    <3>2. CASE k = 1
      <4>1. k - 1 = 0 /\ 0 # L - 1
        BY <2>5, <2>8, <3>2
      <4>2. ~(1 <= k - 1)
        BY <3>2
      <4>3. b[k - 1] = 45
        <5> DEFINE y == k - 1
        <5>1. y = 0 /\ y \in 0 .. L /\ ~(1 <= y) /\ y # L - 1
          BY <3>1, <4>1, <4>2
        <5> HIDE DEF y
        <5>2. b[y] = 45
          BY <2>7, <5>1
        <5> QED BY <5>2 DEF y
      <4> QED BY <1>5, <2>1, <3>2, <4>3
    <3>3. CASE k = L
      <4>1. ~(k - 1 < 1 + x) /\ k - 1 = L - 1 /\ x + 1 \in 1 .. l /\ 1 + (x + 1) = k
        BY <2>3, <2>5, <2>8, <3>3
      <4>2. b[k - 1] = 56
        BY <2>7, <3>1, <4>1
      <4>3. t[1 + (x + 1)] = d[x + 1]
        BY <1>5, <2>1, <4>1
      <4> QED BY <2>3, <4>1, <4>2, <4>3
    <3>4. CASE k # 1 /\ k # L
      <4>1. 1 <= k - 1 /\ k - 1 < 1 + x /\ (k - 1) - 1 + 1 = k - 1
        BY <2>5, <2>8, <3>4
      <4>2. k - 1 \in 1 .. x /\ k - 1 \in 1 .. l /\ 1 + (k - 1) = k
        BY <2>3, <2>5, <4>1
      <4>3. b[k - 1] = ds[k - 1]
        BY <2>7, <3>1, <4>1
      <4>4. t[1 + (k - 1)] = d[k - 1]
        BY <1>5, <2>1, <4>2
      <4> QED BY <2>3, <4>2, <4>3, <4>4
    <3> QED BY <3>2, <3>3, <3>4
  <2>11. b = [k \in 0 .. L |-> b[k]]
    BY <2>6 DEF Filled
  <2> QED BY <2>9, <2>10, <2>11
<1> QED BY <1>6, <1>7, <1>8

(* r has the values of the beginnings of the text of n, up to n itself.    *)
ValuesOf(r, n) ==
  /\ r[0] = 0 /\ r[Len(ByteNumeral(n))] = n
  /\ \A k \in 0 .. Len(ByteNumeral(n)) : r[k] \in 0 .. n
  /\ \A k \in 1 .. Len(ByteNumeral(n)) : r[k] = r[k - 1] * 10 + ByteNumeral(n)[k] - 48

LEMMA DigitsRead ==
  ASSUME NEW n \in Nat
  PROVE  \E r : ValuesOf(r, n)
<1> DEFINE T == {x \in Nat : \E r : ValuesOf(r, x)}
<1>1. ASSUME NEW x \in Nat, \A y \in 0 .. x - 1 : y \in T
      PROVE  x \in T
  <2> SUFFICES \E r : ValuesOf(r, x)
    OBVIOUS
  <2>1. CASE x < 10
    <3> DEFINE r == [k \in 0 .. 1 |-> IF k = 0 THEN 0 ELSE x]
               d == ByteNumeral(x)
    <3>1. d = <<x + 48>>
      BY <2>1, SpelledSteps
    <3>2. r[0] = 0 /\ r[1] = x
      OBVIOUS
    <3> HIDE DEF d, r
    <3>3. Len(d) = 1 /\ d[1] = x + 48
      BY <3>1
    <3>4. \A k \in 0 .. 1 : r[k] \in 0 .. x
      <4>1. \A k \in 0 .. 1 : k = 0 \/ k = 1
        OBVIOUS
      <4> QED BY <3>2, <4>1
    <3>5. \A k \in 1 .. 1 : r[k] = r[k - 1] * 10 + d[k] - 48
      <4>1. r[1] = r[0] * 10 + d[1] - 48
        BY <3>2, <3>3
      <4>2. 1 - 1 = 0 /\ \A k \in 1 .. 1 : k = 1
        OBVIOUS
      <4> QED BY <4>1, <4>2
    <3>6. ValuesOf(r, x)
      BY <3>2, <3>3, <3>4, <3>5 DEF ValuesOf, d
    <3> QED BY <3>6
  <2>2. CASE x >= 10
    <3> DEFINE q == x \div 10
               e == ByteNumeral(q)
               l == Len(e)
               d == ByteNumeral(x)
    <3>1. q \in 0 .. x - 1 /\ q \in Nat /\ x = q * 10 + (x % 10) /\ x % 10 \in 0 .. 9
      BY <2>2
    <3>2. PICK f : ValuesOf(f, q)
      BY <1>1, <3>1
    <3>3. /\ Len(d) = l + 1 /\ (\A k \in 1 .. l : d[k] = e[k])
          /\ d[l + 1] = (x % 10) + 48
      BY <2>2, SpelledLast
    <3> HIDE DEF q, d
    <3>4. l \in Nat
      BY <3>1, SpelledSteps
    <3>5. /\ f[0] = 0 /\ f[l] = q /\ (\A k \in 0 .. l : f[k] \in 0 .. q)
          /\ \A k \in 1 .. l : f[k] = f[k - 1] * 10 + e[k] - 48
      BY <3>2 DEF ValuesOf
    <3> HIDE DEF e, l
    <3> DEFINE r == [k \in 0 .. l + 1 |-> IF k <= l THEN f[k] ELSE x]
    <3>6. (\A k \in 0 .. l : r[k] = f[k]) /\ r[l + 1] = x
      BY <3>4
    <3> HIDE DEF r
    <3>7. r[0] = 0
      BY <3>4, <3>5, <3>6
    <3>8. ASSUME NEW k \in 0 .. l + 1
          PROVE  r[k] \in 0 .. x
      <4>1. CASE k = l + 1
        BY <3>6, <4>1
      <4>2. CASE k # l + 1
        <5>1. k \in 0 .. l
          BY <3>4, <4>2
        <5>2. r[k] \in 0 .. q
          BY <3>5, <3>6, <5>1
        <5> QED BY <3>1, <5>2
      <4> QED BY <4>1, <4>2
    <3>9. ASSUME NEW k \in 1 .. l + 1
          PROVE  r[k] = r[k - 1] * 10 + d[k] - 48
      <4>1. CASE k = l + 1
        <5>1. k - 1 = l /\ r[l] = q
          BY <3>4, <3>5, <3>6, <4>1
        <5>2. x = q * 10 + ((x % 10) + 48) - 48
          BY <3>1
        <5> QED BY <3>3, <3>6, <4>1, <5>1, <5>2
      <4>2. CASE k # l + 1
        <5>1. k \in 1 .. l /\ k \in 0 .. l /\ k - 1 \in 0 .. l
          BY <3>4, <4>2
        <5>2. r[k] = f[k] /\ r[k - 1] = f[k - 1] /\ d[k] = e[k]
          BY <3>3, <3>6, <5>1
        <5>3. f[k] = f[k - 1] * 10 + e[k] - 48
          BY <3>5, <5>1
        <5> QED BY <5>2, <5>3
      <4> QED BY <4>1, <4>2
    <3>10. ValuesOf(r, x)
      BY <3>3, <3>6, <3>7, <3>8, <3>9 DEF ValuesOf, d
    <3> QED BY <3>10
  <2> QED BY <2>1, <2>2
<1>2. T = Nat
  <2>1. T \in SUBSET Nat
    OBVIOUS
  <2> HIDE DEF T
  <2>2. Progressive(T)
    BY <1>1, <2>1 DEF Progressive
  <2> QED BY <2>2, CompleteInduction
<1> QED BY <1>2

(* The string str is x spaces, y signs and the digits d.                   *)
Spaces == {9, 10, 11, 12, 13, 32}

Reads10(str, x, y, d) ==
  /\ x \in Nat /\ y \in {0, 1} /\ Len(d) \in Nat \ {0} /\ Len(str) = x + y + Len(d)
  /\ \A k \in 0 .. x - 1 : byte(str, k) \in Spaces
  /\ y = 1 => byte(str, x) = 45
  /\ \A k \in 1 .. Len(d) : d[k] \in 48 .. 57 /\ byte(str, x + y + k - 1) = d[k]
  /\ byte(str, Len(str)) = 0

LEMMA TextReads ==
  ASSUME NEW sp \in Seq(Spaces), NEW n \in Int
  PROVE  Reads10(sp \o IntText(n), Len(sp), IF n < 0 THEN 1 ELSE 0, ByteNumeral(Magnitude(n)))
<1> DEFINE t == IntText(n)
           str == sp \o t
           x == Len(sp)
           y == IF n < 0 THEN 1 ELSE 0
           d == ByteNumeral(Magnitude(n))
           g == Sign(n)
           l == Len(d)
<1>1. /\ t \in Seq(Nat \ {0}) /\ Magnitude(n) \in Nat /\ Joins(t, g, d)
      /\ Len(g) = y /\ (n < 0 => g[1] = 45)
  BY IntTextParts
<1>2. d \in Seq(DigitBytes) /\ l \in Nat \ {0}
  BY <1>1, SpelledSteps
<1>3. x \in Nat /\ y \in {0, 1} /\ sp \in Seq(Spaces)
  OBVIOUS
<1>4. Joins(str, sp, t)
  <2> DEFINE P == Nat
  <2>1. Spaces \subseteq P
    BY DEF Spaces
  <2>2. t \in Seq(P)
    <3> DEFINE Q == Nat \ {0}
    <3>1. Q \subseteq P /\ t \in Seq(Q)
      BY <1>1
    <3> HIDE DEF P, Q, t
    <3> QED BY <3>1
  <2> HIDE DEF P, t
  <2>3. sp \in Seq(P)
    BY <2>1
  <2> QED BY <2>2, <2>3, ConcatJoins
<1> HIDE DEF t, str, x, y, d, g, l
<1>5. /\ Len(t) = y + l /\ (\A k \in 1 .. y : t[k] = g[k])
      /\ \A k \in 1 .. l : t[y + k] = d[k]
  BY <1>1 DEF Joins, l
<1>6. /\ Len(str) = x + (y + l) /\ (\A k \in 1 .. x : str[k] = sp[k])
      /\ \A k \in 1 .. y + l : str[x + k] = t[k]
  BY <1>4, <1>5 DEF Joins, x
<1>7. ASSUME NEW k \in 0 .. x - 1
      PROVE  byte(str, k) \in Spaces
  <2>1. k + 1 \in 1 .. x /\ k < Len(str)
    BY <1>2, <1>3, <1>6
  <2>2. sp[k + 1] \in Spaces
    BY <1>3, <2>1 DEF x
  <2> QED BY <1>6, <2>1, <2>2 DEF byte
<1>8. ASSUME y = 1
      PROVE  byte(str, x) = 45
  <2>1. x < Len(str) /\ 1 \in 1 .. y + l /\ 1 \in 1 .. y
    BY <1>2, <1>3, <1>6, <1>8
  <2>2. n < 0
    BY <1>8 DEF y
  <2> QED BY <1>1, <1>5, <1>6, <2>1, <2>2 DEF byte
<1>9. ASSUME NEW k \in 1 .. l
      PROVE  d[k] \in 48 .. 57 /\ byte(str, x + y + k - 1) = d[k]
  <2>1. d[k] \in 48 .. 57
    BY <1>2 DEF l, DigitBytes
  <2>2. /\ x + y + k - 1 < Len(str) /\ (x + y + k - 1) + 1 = x + (y + k)
        /\ y + k \in 1 .. y + l
    BY <1>2, <1>3, <1>6
  <2>3. str[x + (y + k)] = d[k]
    BY <1>5, <1>6, <2>2
  <2> QED BY <2>1, <2>2, <2>3 DEF byte
<1>10. byte(str, Len(str)) = 0
  BY <1>2, <1>3, <1>6 DEF byte
<1>11. Len(str) = x + y + l
  BY <1>2, <1>3, <1>6
<1> QED BY <1>2, <1>3, <1>7, <1>8, <1>9, <1>10, <1>11 DEF Reads10, str, x, y, d, l, t

(* The sum of ft_atoi is the value read so far, and wraps only at INT_MIN. *)
LEMMA SumWraps ==
  ASSUME NEW v \in 0 .. - INT_MIN, NEW u \in 0 .. v, NEW c \in 0 .. 9, NEW a \in 0 .. v,
         u = a * 10 + c
  PROVE  to_int(to_int(to_int(a) * 10) + c) = to_int(u)
<1> DEFINE M == - INT_MIN
<1>1. M \in Nat /\ M > 10 /\ M % 10 = 8 /\ Ints = - M .. M - 1
  BY IntValues
<1>2. v \in 0 .. M
  OBVIOUS
<1> HIDE DEF M
<1>3. a * 10 # M
  BY <1>1
<1>4. a * 10 \in Ints /\ a \in Ints /\ a * 10 + c = u
  BY <1>1, <1>2, <1>3
<1>5. to_int(a) = a /\ to_int(a * 10) = a * 10
  BY <1>4, ToInt
<1>6. to_int(to_int(a) * 10) = a * 10
  BY <1>5, Zenon
<1> QED BY <1>4, <1>6, Zenon

LEMMA AtoiReads ==
  ASSUME NEW n \in Ints, NEW str, NEW x,
         Reads10(str, x, IF n < 0 THEN 1 ELSE 0, ByteNumeral(Magnitude(n)))
  PROVE  ft_atoi(str) = n
<1> DEFINE space == {9, 10, 11, 12, 13, 32}
           letter == 65 .. 90 \cup 97 .. 122 \cup {27}
           digit == 48 .. 57
           p == Min({k \in 0 .. Len(str) : byte(str, k) \notin space})
           q == IF byte(str, p) \in digit THEN p ELSE p + 1
           stop == Min({k \in q .. Len(str) + 1 : byte(str, k) \notin digit})
           C(f) == f = [k \in q .. stop |->
                          IF k = q THEN 0
                          ELSE to_int(to_int(f[k - 1] * 10) + byte(str, k - 1) - 48)]
           g == CHOOSE f : C(f)
           v == Magnitude(n)
           d == ByteNumeral(v)
           l == Len(d)
           y == IF n < 0 THEN 1 ELSE 0
<1>1. ft_atoi(str) = IF byte(str, p) \in letter THEN 0
                     ELSE IF byte(str, p) = 45 THEN to_int(- g[stop]) ELSE g[stop]
  BY Zenon DEF ft_atoi
<1>2. /\ x \in Nat /\ y \in {0, 1} /\ l \in Nat \ {0} /\ Len(str) = x + y + l
      /\ \A k \in 0 .. x - 1 : byte(str, k) \in Spaces
      /\ y = 1 => byte(str, x) = 45
      /\ \A k \in 1 .. l : d[k] \in 48 .. 57 /\ byte(str, x + y + k - 1) = d[k]
      /\ byte(str, Len(str)) = 0
  BY DEF Reads10
<1>3. /\ n \in Int /\ INT_MIN \in Int /\ - INT_MIN \in Nat /\ v \in 0 .. - INT_MIN
      /\ n = (IF y = 1 THEN - v ELSE v) /\ (y = 1 <=> n < 0)
  BY IntValues DEF Magnitude
<1> HIDE DEF g, v, d, l, y
<1>4. byte(str, x) \in {45} \cup (48 .. 57) /\ (byte(str, x) = 45 <=> y = 1)
  <2>1. CASE y = 1
    BY <1>2, <2>1
  <2>2. CASE y = 0
    <3>1. 1 \in 1 .. l /\ x + y + 1 - 1 = x
      BY <1>2, <2>2
    <3>2. d[1] \in 48 .. 57 /\ byte(str, x + y + 1 - 1) = d[1]
      BY <1>2, <3>1
    <3>3. byte(str, x) \in 48 .. 57
      BY <3>1, <3>2
    <3> QED BY <2>2, <3>3
  <2> QED BY <1>2, <2>1, <2>2
<1>5. p = x
  <2> DEFINE Z == {k \in 0 .. Len(str) : byte(str, k) \notin space}
  <2>1. x \in 0 .. Len(str)
    BY <1>2
  <2>2. x \in Z /\ Z \in SUBSET Nat
    <3>1. byte(str, x) \notin space
      BY <1>4
    <3>2. Len(str) \in Nat
      BY <1>2
    <3> HIDE DEF space
    <3>3. x \in Z
      BY <2>1, <3>1
    <3>4. Z \in SUBSET Nat
      BY <3>2
    <3> QED BY <3>3, <3>4
  <2>3. \A k \in Z : k \in Nat /\ ~(k \in 0 .. x - 1)
    BY <1>2 DEF Spaces
  <2> HIDE DEF Z
  <2>4. Min(Z) \in Z /\ \A k \in Z : Min(Z) <= k
    BY <2>2, MinElement
  <2>5. Min(Z) <= x /\ Min(Z) \in Nat /\ ~(Min(Z) \in 0 .. x - 1)
    BY <2>2, <2>3, <2>4
  <2>6. Min(Z) = x
    BY <1>2, <2>5
  <2> QED BY <2>6 DEF Z
<1>6. byte(str, p) \notin letter /\ (byte(str, p) = 45 <=> y = 1)
  <2> HIDE DEF p
  <2> QED BY <1>4, <1>5
<1>7. q = x + y
  <2> HIDE DEF p
  <2>1. byte(str, p) \in digit <=> y # 1
    BY <1>4, <1>5
  <2> QED BY <1>2, <1>5, <2>1
<1> HIDE DEF p, q
<1>8. stop = Len(str)
  <2> DEFINE Z == {k \in q .. Len(str) + 1 : byte(str, k) \notin digit}
             L == Len(str)
  <2>1. L \in Z /\ Z \in SUBSET Nat
    BY <1>2, <1>7
  <2>2. ASSUME NEW k \in Z, k < L
        PROVE  FALSE
    <3> DEFINE m == k - q + 1
    <3>1. m \in 1 .. l /\ x + y + m - 1 = k
      BY <1>2, <1>7, <2>2
    <3>2. byte(str, k) \notin digit
      OBVIOUS
    <3> HIDE DEF m, Z
    <3>3. d[m] \in 48 .. 57 /\ byte(str, x + y + m - 1) = d[m]
      BY <1>2, <3>1
    <3> QED BY <3>1, <3>2, <3>3
  <2> HIDE DEF Z, L
  <2>3. Min(Z) \in Z /\ \A k \in Z : Min(Z) <= k
    BY <2>1, MinElement
  <2>4. Min(Z) <= L /\ Min(Z) \in Nat /\ L \in Nat /\ ~(Min(Z) < L)
    BY <2>1, <2>2, <2>3
  <2>5. Min(Z) = L
    BY <2>4
  <2> QED BY <2>5 DEF Z, L
<1> HIDE DEF stop
<1>9. PICK r : ValuesOf(r, v)
  <2>1. v \in Nat
    BY <1>3
  <2> HIDE DEF C, stop
  <2>2. \E r : ValuesOf(r, v)
    BY <2>1, DigitsRead
  <2> QED BY <2>2
<1>10. /\ r[0] = 0 /\ r[l] = v /\ (\A k \in 0 .. l : r[k] \in 0 .. v)
       /\ \A k \in 1 .. l : r[k] = r[k - 1] * 10 + d[k] - 48
  BY <1>9 DEF ValuesOf, d, l
<1> DEFINE A == q .. stop
           M == [k \in A |-> k - q]
           e == [k \in A |-> to_int(r[k - q])]
<1>11. q \in Nat /\ stop = q + l /\ l \in Nat
  BY <1>2, <1>7, <1>8
<1>12. M \in [A -> Nat] /\ \A k \in A : M[k] = k - q
  BY <1>11
<1>13. ASSUME NEW k \in A
       PROVE  e[k] = IF k = q THEN 0
                     ELSE to_int(to_int(e[k - 1] * 10) + byte(str, k - 1) - 48)
  <2>1. CASE k = q
    <3>1. k - q = 0
      BY <1>11, <2>1
    <3>2. 0 \in Ints
      BY IntValues
    <3>3. e[k] = to_int(0)
      BY <1>10, <3>1
    <3> HIDE DEF e
    <3> QED BY <2>1, <3>2, <3>3, ToInt
  <2>2. CASE k # q
    <3> DEFINE m == k - q
               a == r[m - 1]
               u == r[m]
               c == d[m] - 48
    <3>1. m \in 1 .. l /\ m - 1 \in 0 .. l /\ m \in 0 .. l /\ k - 1 \in A /\ (k - 1) - q = m - 1
      BY <1>11, <2>2
    <3>2. e[k] = to_int(u) /\ e[k - 1] = to_int(a)
      BY <3>1
    <3>3. byte(str, k - 1) = d[m] /\ d[m] \in 48 .. 57
      <4>1. x + y + m - 1 = k - 1
        BY <1>2, <1>7, <1>11
      <4>2. byte(str, x + y + m - 1) = d[m] /\ d[m] \in 48 .. 57
        <5> HIDE DEF m
        <5> QED BY <1>2, <3>1
      <4> QED BY <4>1, <4>2
    <3>4. a \in 0 .. v /\ u \in 0 .. v /\ u = a * 10 + d[m] - 48
      <4> HIDE DEF m
      <4> QED BY <1>10, <3>1
    <3> HIDE DEF e, m, a, u
    <3>5. c \in 0 .. 9 /\ u = a * 10 + c
      BY <1>3, <3>3, <3>4
    <3> HIDE DEF c
    <3>6. to_int(to_int(to_int(a) * 10) + c) = to_int(u)
      BY <1>3, <3>4, <3>5, SumWraps
    <3>7. to_int(to_int(a) * 10) + d[m] - 48 = to_int(to_int(a) * 10) + c
      <4> DEFINE z == to_int(to_int(a) * 10)
      <4>1. z \in Int
        <5>1. \A w \in Int : to_int(w) \in Int
          <6>1. INT_MIN \in Int /\ power(2, IntBits) \in Nat /\ power(2, IntBits) > 0
            BY IntValues
          <6> QED BY <6>1 DEF to_int
        <5>2. a \in Int
          BY <1>3, <3>4
        <5>3. to_int(a) * 10 \in Int
          BY <5>1, <5>2
        <5> QED BY <5>1, <5>3
      <4> HIDE DEF z
      <4>2. z + d[m] - 48 = z + c
        BY <3>3, <4>1 DEF c
      <4> QED BY <4>2 DEF z
    <3>8. to_int(to_int(e[k - 1] * 10) + byte(str, k - 1) - 48) = to_int(u)
      BY <3>2, <3>3, <3>6, <3>7, Zenon
    <3> QED BY <2>2, <3>2, <3>8
  <2> QED BY <2>1, <2>2
<1>14. C(e)
  <2>1. e = [k \in A |-> e[k]]
    OBVIOUS
  <2> HIDE DEF e
  <2> QED BY <1>13, <2>1
<1>15. C(g)
  <2> HIDE DEF C, e
  <2> QED BY <1>14, Zenon DEF g
<1>16. \A k \in A : g[k] = IF k = q THEN 0
                           ELSE to_int(to_int(g[k - 1] * 10) + byte(str, k - 1) - 48)
  BY <1>15
<1> HIDE DEF C, M, e, A
<1>17. AgreeUpwards(A, M, g, e)
  <2> SUFFICES ASSUME NEW a \in A, \A b \in A : M[b] < M[a] => g[b] = e[b]
               PROVE  g[a] = e[a]
    BY DEF AgreeUpwards
  <2>1. CASE a = q
    BY <1>13, <1>16, <2>1
  <2>2. CASE a # q
    <3>1. a - 1 \in A /\ M[a - 1] < M[a]
      <4>1. a - 1 \in A
        BY <1>11, <2>2 DEF A
      <4>2. M[a - 1] = (a - 1) - q /\ M[a] = a - q /\ a \in Int
        BY <1>11, <1>12, <4>1 DEF A
      <4> QED BY <1>11, <4>1, <4>2
    <3>2. g[a - 1] = e[a - 1]
      BY <3>1
    <3>3. g[a] = to_int(to_int(g[a - 1] * 10) + byte(str, a - 1) - 48)
      BY <1>16, <2>2
    <3>4. e[a] = to_int(to_int(e[a - 1] * 10) + byte(str, a - 1) - 48)
      BY <1>13, <2>2
    <3> QED BY <3>2, <3>3, <3>4, Zenon
  <2> QED BY <2>1, <2>2
<1>18. g[stop] = to_int(v)
  <2>1. stop \in A /\ stop - q = l
    BY <1>11 DEF A
  <2>2. \A a \in A : g[a] = e[a]
    BY <1>12, <1>17, SameRecursion
  <2>3. e[stop] = to_int(r[stop - q])
    BY <2>1 DEF e
  <2> QED BY <1>10, <2>1, <2>2, <2>3
<1>19. CASE y = 1
  <2>1. ft_atoi(str) = to_int(- to_int(v))
    BY <1>1, <1>6, <1>18, <1>19
  <2>2. CASE v = - INT_MIN
    <3>1. to_int(v) = INT_MIN /\ - to_int(v) = v /\ n = INT_MIN
      BY <1>3, <1>19, <2>2, ToInt
    <3> QED BY <2>1, <3>1
  <2>3. CASE v # - INT_MIN
    <3>1. v \in Ints /\ - v = n
      BY <1>3, <1>19, <2>3, IntValues
    <3>2. to_int(v) = v /\ to_int(n) = n
      BY <3>1, ToInt
    <3> QED BY <2>1, <3>1, <3>2
  <2> QED BY <2>2, <2>3
<1>20. CASE y # 1
  <2>1. ft_atoi(str) = to_int(v) /\ v = n
    BY <1>1, <1>3, <1>6, <1>18, <1>20
  <2> QED BY <2>1, ToInt
<1> QED BY <1>19, <1>20

(* Every int an int program writes comes back.                             *)
ItoaRight(n, sp) ==
  LET text == ft_itoa(n, FALSE) IN
  /\ ft_atoi(sp \o string_in(text)) = n
  /\ ft_putnbr_fd(n) = string_in(text)
  /\ \A k \in DOMAIN text : text[k] # UNINIT
  /\ DOMAIN text = 0 .. ft_strlen(text)

LEMMA ItoaIsRight ==
  ASSUME NEW n \in Ints, NEW sp \in {<<>>, << 32 >>, <<9, 10>>}
  PROVE  ItoaRight(n, sp)
<1> DEFINE text == ft_itoa(n, FALSE)
           t == IntText(n)
<1>1. n \in Int
  BY IntValues
<1>2. Holds(text, Len(t) + 1, t)
  BY ItoaWrites
<1>3. t \in Seq(Nat \ {0})
  BY <1>1, IntTextParts
<1> HIDE DEF text
<1>4. Len(t) \in Nat
  <2> HIDE DEF t
  <2> QED BY <1>3
<1>5. ft_strlen(text) = Len(t) /\ string_in(text) = t
  BY <1>2, <1>4, StringIn
<1>6. sp \in Seq(Spaces)
  <2>1. <<>> \in Seq(Spaces)
    OBVIOUS
  <2>2. 32 \in Spaces /\ 9 \in Spaces /\ 10 \in Spaces
    BY DEF Spaces
  <2>3. <<32>> \in Seq(Spaces) /\ <<9, 10>> \in Seq(Spaces)
    BY <2>2
  <2> QED BY <2>1, <2>3
<1>7. ft_atoi(sp \o t) = n
  BY <1>1, <1>6, TextReads, AtoiReads
<1>8. ft_putnbr_fd(n) = t
  BY PutNbrWrites
<1> HIDE DEF t
<1>9. text \in [0 .. (Len(t) + 1) - 1 -> Nat] /\ (Len(t) + 1) - 1 = Len(t)
  BY <1>2, <1>4 DEF Holds
<1>10. DOMAIN text = 0 .. Len(t) /\ \A k \in DOMAIN text : text[k] # UNINIT
  BY <1>9, LibftAssumption
<1> QED BY <1>5, <1>7, <1>8, <1>10 DEF ItoaRight, text

(* A program that reads a number back after ft_itoa gets the same number,  *)
(* INT_MIN included, and ft_itoa has filled exactly the bytes it asked     *)
(* for, or returns NULL if they were refused; ft_putnbr_fd writes the same *)
(* characters.                                                             *)
THEOREM NumbersReturn == Spec => []NumbersComeBack
<1>1. Init => NumbersComeBack
  BY DEF Init, NumbersComeBack
<1>2. NumbersComeBack /\ [Next]_vars => NumbersComeBack'
  <2> SUFFICES ASSUME NumbersComeBack, [Next]_vars
               PROVE  NumbersComeBack'
    OBVIOUS
  <2>1. CASE itoa
    <3>1. PICK n \in Ints, sp \in {<<>>, <<32>>, <<9, 10>>}, refused \in BOOLEAN :
            last' = [op |-> "itoa", n |-> n, refused |-> refused, text |-> ft_itoa(n, refused),
                     put |-> ft_putnbr_fd(n),
                     back |-> IF refused THEN NULL
                              ELSE ft_atoi(sp \o string_in(ft_itoa(n, refused)))]
      BY <2>1 DEF itoa
    <3>2. /\ last'.n = n /\ last'.refused = refused /\ last'.text = ft_itoa(n, refused)
          /\ last'.put = ft_putnbr_fd(n)
          /\ last'.back = IF refused THEN NULL ELSE ft_atoi(sp \o string_in(ft_itoa(n, refused)))
      BY <3>1
    <3>3. CASE refused
      BY <3>2, <3>3 DEF ft_itoa, NumbersComeBack
    <3>4. CASE ~refused
      <4>1. ItoaRight(n, sp)
        BY ItoaIsRight
      <4>2. refused = FALSE
        BY <3>4
      <4> QED BY <3>2, <4>1, <4>2, Zenon DEF ItoaRight, NumbersComeBack
    <3> QED BY <3>3, <3>4
  <2>2. CASE last' = last
    BY <2>2 DEF NumbersComeBack
  <2>3. CASE last'.op # "itoa"
    BY <2>3 DEF NumbersComeBack
  <2>4. itoa \/ last' = last \/ last'.op # "itoa"
    <3>1. CASE buffer_call
      BY <3>1, BufferCalls DEF BufferOps
    <3>2. CASE strings_call \/ proceed
      BY <3>2, OtherCalls
    <3>3. CASE UNCHANGED callVars
      BY <3>3 DEF callVars
    <3>4. buffer_call \/ strings_call \/ proceed \/ UNCHANGED callVars
      BY DEF Next, vars
    <3> QED BY <3>1, <3>2, <3>3, <3>4
  <2> QED BY <2>1, <2>2, <2>3, <2>4
<1> QED BY <1>1, <1>2, PTL DEF Spec

-----------------------------------------------------------------------------
(* New strings *)

(* What a byte of a buffer may hold before anyone has written it.          *)
Unwritten == Nat \cup {UNINIT}

LEMMA MallocBytes ==
  ASSUME NEW n \in Nat
  PROVE  malloc(n) \in [0 .. n - 1 -> Unwritten]
BY DEF malloc, Unwritten

(* Storing a string and its 0 behind another fills the rest of a buffer.   *)
LEMMA FillsBuffer ==
  ASSUME NEW n \in Nat, NEW b \in [0 .. n - 1 -> Unwritten],
         NEW old \in Seq(Nat \ {0}), \A k \in 1 .. Len(old) : b[k - 1] = old[k],
         NEW src \in Seq(Nat \ {0}), Len(old) + Len(src) + 1 = n
  PROVE  Holds(Store(b, Len(old), src \o <<0>>), n, old \o src)
<1> DEFINE o == Len(old)
           q == Len(src)
           text == src \o <<0>>
           c == Store(b, o, text)
           new == old \o src
<1>1. o \in Nat /\ q \in Nat /\ o + q + 1 = n
  OBVIOUS
<1>2. /\ text \in Seq(Nat) /\ Len(text) = q + 1 /\ text[q + 1] = 0
      /\ \A k \in 1 .. q : text[k] = src[k]
  <2>1. src \in Seq(Nat) /\ <<0>> \in Seq(Nat) /\ Len(<<0>>) = 1 /\ <<0>>[1] = 0
    OBVIOUS
  <2>2. /\ text \in Seq(Nat) /\ Len(text) = Len(src) + 1
        /\ \A k \in 1 .. Len(src) : text[k] = src[k]
        /\ \A k \in 1 .. 1 : text[Len(src) + k] = <<0>>[k]
    <3> HIDE DEF text
    <3> QED BY <2>1, ConcatElements DEF text
  <2>3. text[Len(src) + 1] = 0
    BY <2>1, <2>2
  <2> QED BY <2>2, <2>3
<1>3. /\ new \in Seq(Nat \ {0}) /\ Len(new) = o + q
      /\ \A k \in 1 .. o : new[k] = old[k]
      /\ \A k \in 1 .. q : new[o + k] = src[k]
  BY ConcatElements
<1> HIDE DEF new, text
<1>4. Stored(b, n, o, text, c, Unwritten)
  <2>1. text \in Seq(Unwritten)
    <3>1. \A k \in 1 .. Len(text) : text[k] \in Unwritten
      BY <1>2 DEF Unwritten
    <3> QED BY <1>2, <3>1
  <2>2. o + Len(text) <= n
    BY <1>1, <1>2
  <2> HIDE DEF o
  <2> QED BY <1>1, <2>1, <2>2, StoreInside
<1> HIDE DEF c, o, q
<1>5. \A k \in 0 .. n - 1 : c[k] = IF o <= k /\ k < o + (q + 1) THEN text[k - o + 1] ELSE b[k]
  BY <1>2, <1>4 DEF Stored
<1>6. \A k \in 1 .. o : c[k - 1] = old[k] /\ old[k] \in Nat \ {0}
  <2> TAKE k \in 1 .. o
  <2>1. k - 1 \in 0 .. n - 1 /\ ~(o <= k - 1)
    BY <1>1
  <2>2. c[k - 1] = b[k - 1]
    BY <1>5, <2>1
  <2> QED BY <2>2 DEF o
<1>7. \A k \in 1 .. q : c[o + k - 1] = src[k] /\ src[k] \in Nat \ {0}
  <2> TAKE k \in 1 .. q
  <2> DEFINE p == o + k - 1
  <2>1. p \in 0 .. n - 1 /\ o <= p /\ p < o + (q + 1) /\ p - o + 1 = k
    BY <1>1
  <2> HIDE DEF p
  <2>2. c[p] = text[k]
    BY <1>5, <2>1
  <2>3. src[k] \in Nat \ {0}
    BY DEF q
  <2> QED BY <1>2, <2>2, <2>3 DEF p
<1>8. c[o + q] = 0
  <2>1. o + q \in 0 .. n - 1 /\ o <= o + q /\ o + q < o + (q + 1) /\ (o + q) - o + 1 = q + 1
    BY <1>1
  <2>2. c[o + q] = text[q + 1]
    BY <1>5, <2>1
  <2> QED BY <1>2, <2>2
<1>9. \A k \in 1 .. o + q : c[k - 1] = new[k]
  <2> TAKE k \in 1 .. o + q
  <2>1. CASE k <= o
    <3>1. k \in 1 .. o
      BY <1>1, <2>1
    <3> QED BY <1>3, <1>6, <3>1
  <2>2. CASE ~(k <= o)
    <3> DEFINE m == k - o
    <3>1. m \in 1 .. q /\ o + m - 1 = k - 1 /\ o + m = k
      BY <1>1, <2>2
    <3> HIDE DEF m
    <3>2. c[o + m - 1] = src[m] /\ new[o + m] = src[m]
      BY <1>3, <1>7, <3>1
    <3> QED BY <3>1, <3>2
  <2> QED BY <2>1, <2>2
<1>10. c \in [0 .. n - 1 -> Nat]
  <2>1. ASSUME NEW k \in 0 .. n - 1
        PROVE  c[k] \in Nat
    <3>1. CASE k = o + q
      BY <1>8, <3>1
    <3>2. CASE k # o + q
      <4>1. k + 1 \in 1 .. o + q /\ (k + 1) - 1 = k /\ o + q \in Nat
        BY <1>1, <3>2
      <4>2. new[k + 1] \in Nat
        BY <1>3, <4>1
      <4> QED BY <1>9, <4>1, <4>2
    <3> QED BY <3>1, <3>2
  <2>2. c \in [0 .. n - 1 -> Unwritten]
    BY <1>4 DEF Stored
  <2> QED BY <2>1, <2>2
<1>11. Holds(c, n, new)
  <2>1. o + q < n
    BY <1>1
  <2> QED BY <1>3, <1>8, <1>9, <1>10, <2>1 DEF Holds
<1> QED BY <1>11 DEF c, new, text, o

(* A copy cut at q characters into a new buffer of exactly that size.      *)
LEMMA CopiesIntoNew ==
  ASSUME NEW t \in Seq(Nat \ {0}), NEW q \in 0 .. Len(t), NEW b \in [0 .. q -> Unwritten]
  PROVE  Holds(ft_strlcpy(b, t, q + 1).mem, q + 1, SubSeq(t, 1, q))
<1>1. q \in Nat /\ Len(t) \in Nat /\ q <= Len(t) /\ (q + 1) - 1 = q /\ q + 1 # 0
  OBVIOUS
<1>2. Min({(q + 1) - 1, Len(t)}) = q
  BY <1>1, MinOfTwo
<1> DEFINE u == SubSeq(t, 1, q)
<1>3. ft_strlcpy(b, t, q + 1).mem = Store(b, 0, u \o <<0>>)
  BY <1>1, <1>2 DEF ft_strlcpy
<1>4. u \in Seq(Nat \ {0}) /\ Len(u) = q
  BY PrefixElements
<1> HIDE DEF u
<1> DEFINE none == <<>>
<1>5. none \in Seq(Nat \ {0}) /\ Len(none) = 0 /\ none \o u = u /\ \A k \in 1 .. Len(none) : FALSE
  BY <1>4
<1> HIDE DEF none
<1>6. b \in [0 .. (q + 1) - 1 -> Unwritten] /\ Len(none) + Len(u) + 1 = q + 1 /\ q + 1 \in Nat
  BY <1>1, <1>4, <1>5
<1>7. Holds(Store(b, Len(none), u \o <<0>>), q + 1, none \o u)
  BY <1>4, <1>5, <1>6, FillsBuffer
<1> QED BY <1>3, <1>5, <1>7 DEF u

(* A buffer holds the string t, its 0 and nothing else.                    *)
IsCopyOf(t, b) == DOMAIN b = 0 .. Len(t) /\ string_in(b) = t

LEMMA HoldsExactly ==
  ASSUME NEW t \in Seq(Nat \ {0}), NEW b, Holds(b, Len(t) + 1, t)
  PROVE  IsCopyOf(t, b)
<1>1. Len(t) + 1 \in Nat /\ (Len(t) + 1) - 1 = Len(t)
  OBVIOUS
<1>2. string_in(b) = t
  BY <1>1, StringIn
<1>3. DOMAIN b = 0 .. (Len(t) + 1) - 1
  BY DEF Holds
<1> QED BY <1>1, <1>2, <1>3 DEF IsCopyOf

LEMMA WholeString ==
  ASSUME NEW S, NEW t \in Seq(S)
  PROVE  SubSeq(t, 1, Len(t)) = t /\ Len(t) \in 0 .. Len(t)
<1>1. Len(t) \in 0 .. Len(t)
  OBVIOUS
<1>2. /\ SubSeq(t, 1, Len(t)) \in Seq(S) /\ Len(SubSeq(t, 1, Len(t))) = Len(t)
      /\ \A k \in 1 .. Len(t) : SubSeq(t, 1, Len(t))[k] = t[k]
  BY <1>1, PrefixElements
<1> QED BY <1>1, <1>2, SameElements

LEMMA StrdupRight ==
  ASSUME NEW t \in Seq(Nat \ {0})
  PROVE  Holds(ft_strdup(t, FALSE), Len(t) + 1, t)
<1> DEFINE l == Len(t)
<1>1. l \in Nat /\ (l + 1) - 1 = l /\ l \in 0 .. Len(t) /\ l + 1 \in Nat
  OBVIOUS
<1>2. SubSeq(t, 1, l) = t
  BY WholeString
<1> HIDE DEF l
<1>3. CASE t = <<>>
  <2>1. ft_strdup(t, FALSE) = ft_calloc(1, 1, FALSE)
    BY <1>3 DEF ft_strdup
  <2> DEFINE b == malloc(1)
             none == <<>>
  <2>2. ft_calloc(1, 1, FALSE) = Store(b, 0, [k \in 1 .. 1 |-> 0])
    <3>1. 1 * 1 = 1 /\ 0 % 256 = 0
      OBVIOUS
    <3>2. [k \in 1 .. 1 |-> 0 % 256] = [k \in 1 .. 1 |-> 0]
      BY <3>1
    <3> QED BY <3>1, <3>2 DEF ft_calloc, ft_bzero, ft_memset
  <2>3. [k \in 1 .. 1 |-> 0] = none \o <<0>>
    OBVIOUS
  <2>4. b \in [0 .. 1 - 1 -> Unwritten]
    BY MallocBytes
  <2>5. none \in Seq(Nat \ {0}) /\ Len(none) = 0 /\ Len(none) + Len(none) + 1 = 1
        /\ none \o none = none /\ \A k \in 1 .. Len(none) : FALSE
    OBVIOUS
  <2> HIDE DEF b, none
  <2>6. Holds(Store(b, Len(none), none \o <<0>>), 1, none \o none)
    BY <2>4, <2>5, FillsBuffer
  <2>7. Len(t) + 1 = 1 /\ t = none
    BY <1>3, <2>5 DEF none
  <2> QED BY <2>1, <2>2, <2>3, <2>5, <2>6, <2>7
<1>4. CASE t # <<>>
  <2> DEFINE b == ft_calloc(1, l + 1, FALSE)
  <2>1. ft_strdup(t, FALSE) = ft_strlcpy(b, t, l + 1).mem
    BY <1>4, Zenon DEF ft_strdup, l
  <2>2. b \in [0 .. (l + 1) - 1 -> Nat]
    BY <1>1, CallocZeroes
  <2> HIDE DEF b
  <2>3. b \in [0 .. l -> Unwritten]
    BY <1>1, <2>2 DEF Unwritten
  <2>4. Holds(ft_strlcpy(b, t, l + 1).mem, l + 1, SubSeq(t, 1, l))
    BY <1>1, <2>3, CopiesIntoNew
  <2> QED BY <1>2, <2>1, <2>4 DEF l
<1> QED BY <1>3, <1>4

(* ft_substr returns the part of the string, cut at its end.               *)
Part(t, start, len) == SubSeq(t, start + 1, Min({start + len, Len(t)}))

LEMMA SubstrRight ==
  ASSUME NEW t \in Seq(Nat \ {0}), NEW start \in 0 .. Len(t), NEW len \in Nat
  PROVE  /\ Part(t, start, len) \in Seq(Nat \ {0})
         /\ Holds(ft_substr(t, start, len, FALSE), Len(Part(t, start, len)) + 1, Part(t, start, len))
<1> DEFINE L == Len(t)
           rest == SubSeq(t, start + 1, L)
           fits == Min({len, Len(rest)})
           stop == Min({start + len, L})
           part == SubSeq(t, start + 1, stop)
           cut == SubSeq(rest, 1, fits)
<1>1. L \in Nat /\ start \in Nat /\ start <= L
  OBVIOUS
<1>2. /\ rest \in Seq(Nat \ {0})
      /\ Len(rest) = IF start + 1 <= L THEN L - start ELSE 0
      /\ \A k \in 1 .. L - start : rest[k] = t[start + k]
  OBVIOUS
<1>3. fits \in 0 .. Len(rest) /\ stop \in Nat /\ stop <= L /\ stop = start + fits
  <2>1. stop = IF start + len <= L THEN start + len ELSE L
    BY <1>1, MinOfTwo
  <2>2. Len(rest) = L - start /\ Len(rest) \in Nat
    BY <1>1, <1>2
  <2>3. fits = IF len <= Len(rest) THEN len ELSE Len(rest)
    <3> HIDE DEF rest
    <3> QED BY <2>2, MinOfTwo
  <2> HIDE DEF fits, stop, rest, L
  <2> QED BY <1>1, <2>1, <2>2, <2>3
<1>4. part \in Seq(Nat \ {0}) /\ Len(part) = fits /\ \A k \in 1 .. fits : part[k] = t[start + k]
  <2> HIDE DEF fits, stop, rest
  <2>1. stop = start + fits /\ fits \in Nat /\ stop <= L /\ stop - (start + 1) + 1 = fits
    BY <1>1, <1>2, <1>3
  <2>2. part \in Seq(Nat \ {0}) /\ Len(part) = fits
    BY <1>1, <2>1, SMTT(60)
  <2>3. ASSUME NEW k \in 1 .. fits
        PROVE  part[k] = t[start + k]
    <3>1. /\ k \in 1 .. stop - (start + 1) + 1 /\ (start + 1) + k - 1 = start + k
          /\ start + 1 \in Int /\ stop \in Int
      BY <1>1, <2>1
    <3>2. \A m \in start + 1 .. stop : t[m] \in Nat \ {0}
      BY <1>1, <2>1
    <3> HIDE DEF stop
    <3>3. part[k] = t[(start + 1) + k - 1]
      BY <3>1, <3>2, SubSeqProperties
    <3> QED BY <3>1, <3>3
  <2> HIDE DEF part
  <2> QED BY <2>2, <2>3
<1>5. cut = part
  <2> HIDE DEF fits, rest, part
  <2>1. cut \in Seq(Nat \ {0}) /\ Len(cut) = fits /\ \A k \in 1 .. fits : cut[k] = rest[k]
    BY <1>2, <1>3, PrefixElements
  <2> HIDE DEF cut
  <2>2. \A k \in 1 .. fits : k \in 1 .. L - start
    BY <1>1, <1>2, <1>3
  <2>3. \A k \in 1 .. fits : cut[k] = part[k]
    BY <1>2, <1>4, <2>1, <2>2
  <2> QED BY <1>4, <2>1, <2>3, SameElements
<1>6. ft_substr(t, start, len, FALSE) = ft_strlcpy(malloc(fits + 1), rest, fits + 1).mem
  BY Zenon DEF ft_substr
<1> HIDE DEF fits, rest, part, cut
<1>7. fits \in Nat /\ fits + 1 \in Nat /\ (fits + 1) - 1 = fits
  BY <1>2, <1>3
<1>8. malloc(fits + 1) \in [0 .. fits -> Unwritten]
  <2>1. malloc(fits + 1) \in [0 .. (fits + 1) - 1 -> Unwritten]
    BY <1>7, MallocBytes
  <2> QED BY <1>7, <2>1
<1>9. Holds(ft_substr(t, start, len, FALSE), fits + 1, cut)
  BY <1>2, <1>3, <1>6, <1>8, CopiesIntoNew DEF cut
<1>10. part = Part(t, start, len)
  BY DEF part, Part
<1> QED BY <1>4, <1>5, <1>9, <1>10

(* ft_strlen stops at the first 0, whatever lies behind it.                *)
LEMMA StrlenAt ==
  ASSUME NEW n \in Nat, NEW b, DOMAIN b = 0 .. n - 1, NEW l \in 0 .. n - 1, b[l] = 0,
         \A k \in 0 .. l - 1 : b[k] # 0
  PROVE  ft_strlen(b) = l
<1> DEFINE Z == {k \in DOMAIN b : b[k] = 0}
<1>1. l \in Z /\ Z \in SUBSET Nat /\ \A k \in Z : ~(k < l)
  OBVIOUS
<1>2. ft_strlen(b) = Min(Z)
  BY DEF ft_strlen
<1> HIDE DEF Z
<1>3. Min(Z) \in Z /\ \A k \in Z : Min(Z) <= k
  BY <1>1, MinElement
<1>4. Min(Z) \in Nat /\ Min(Z) <= l /\ ~(Min(Z) < l)
  BY <1>1, <1>3
<1> QED BY <1>2, <1>4

LEMMA StrjoinRight ==
  ASSUME NEW s1 \in Seq(Nat \ {0}), NEW s2 \in Seq(Nat \ {0})
  PROVE  /\ s1 \o s2 \in Seq(Nat \ {0})
         /\ Holds(ft_strjoin(s1, s2, FALSE), Len(s1 \o s2) + 1, s1 \o s2)
<1> DEFINE l1 == Len(s1)
           l2 == Len(s2)
           len == l1 + l2
           b == malloc(len + 1)
           c == ft_strlcpy(b, s1, len + 1).mem
           text == s1 \o <<0>>
<1>1. l1 \in Nat /\ l2 \in Nat /\ len \in Nat /\ len + 1 \in Nat /\ (len + 1) - 1 = len /\ len + 1 # 0
  OBVIOUS
<1>2. s1 \o s2 \in Seq(Nat \ {0}) /\ Len(s1 \o s2) = len
  BY ConcatElements
<1>3. c = Store(b, 0, text)
  <2>1. Min({(len + 1) - 1, Len(s1)}) = Len(s1)
    <3>1. Min({len, l1}) = IF len <= l1 THEN len ELSE l1
      <4> HIDE DEF len, l1
      <4> QED BY <1>1, MinOfTwo
    <3>2. len <= l1 => len = l1
      OBVIOUS
    <3> HIDE DEF len
    <3> QED BY <1>1, <3>1, <3>2
  <2>2. SubSeq(s1, 1, Len(s1)) = s1
    BY WholeString
  <2> HIDE DEF len, b
  <2> QED BY <1>1, <2>1, <2>2 DEF ft_strlcpy
<1>4. /\ text \in Seq(Nat) /\ Len(text) = l1 + 1 /\ text[l1 + 1] = 0
      /\ \A k \in 1 .. l1 : text[k] = s1[k]
  <2>1. s1 \in Seq(Nat) /\ <<0>> \in Seq(Nat) /\ Len(<<0>>) = 1 /\ <<0>>[1] = 0
    OBVIOUS
  <2>2. /\ text \in Seq(Nat) /\ Len(text) = Len(s1) + 1
        /\ \A k \in 1 .. Len(s1) : text[k] = s1[k]
        /\ \A k \in 1 .. 1 : text[Len(s1) + k] = <<0>>[k]
    <3> HIDE DEF text
    <3> QED BY <2>1, ConcatElements DEF text
  <2>3. text[Len(s1) + 1] = 0
    BY <2>1, <2>2
  <2> QED BY <2>2, <2>3
<1> HIDE DEF text
<1>5. Stored(b, len + 1, 0, text, c, Unwritten)
  <2>1. b \in [0 .. (len + 1) - 1 -> Unwritten]
    <3> HIDE DEF len
    <3> QED BY <1>1, MallocBytes
  <2>2. text \in Seq(Unwritten)
    <3>1. \A k \in 1 .. Len(text) : text[k] \in Unwritten
      BY <1>4 DEF Unwritten
    <3> QED BY <1>4, <3>1
  <2>3. 0 \in Nat /\ 0 + Len(text) <= len + 1
    BY <1>1, <1>4
  <2> HIDE DEF len, b, c
  <2> QED BY <1>1, <1>3, <2>1, <2>2, <2>3, StoreInside
<1>6. ft_strjoin(s1, s2, FALSE) = ft_strlcat(c, s2, len + 1).mem
  BY Zenon DEF ft_strjoin
<1>7. l1 <= len /\ l1 \in 0 .. (len + 1) - 1 /\ (len + 1) - 1 - l1 = l2
  OBVIOUS
<1> HIDE DEF b, c, len
<1>8. c \in [0 .. (len + 1) - 1 -> Unwritten]
  BY <1>5 DEF Stored
<1>9. \A k \in 0 .. l1 : c[k] = text[k + 1]
  <2> TAKE k \in 0 .. l1
  <2>1. k \in 0 .. (len + 1) - 1 /\ 0 <= k /\ k < 0 + (l1 + 1) /\ k - 0 + 1 = k + 1
    BY <1>1, <1>7
  <2>2. c[k] = IF 0 <= k /\ k < 0 + Len(text) THEN text[k - 0 + 1] ELSE b[k]
    BY <1>5, <2>1 DEF Stored
  <2> QED BY <1>4, <2>1, <2>2
<1>10. \A k \in 1 .. l1 : c[k - 1] = s1[k] /\ s1[k] \in Nat \ {0}
  <2> TAKE k \in 1 .. l1
  <2>1. k - 1 \in 0 .. l1 /\ (k - 1) + 1 = k
    BY <1>1
  <2>2. c[k - 1] = text[k]
    BY <1>9, <2>1
  <2> QED BY <1>4, <2>2
<1>11. ft_strlen(c) = l1
  <2>1. c[l1] = 0
    BY <1>1, <1>4, <1>9
  <2>2. \A k \in 0 .. l1 - 1 : c[k] # 0
    <3> TAKE k \in 0 .. l1 - 1
    <3>1. k + 1 \in 1 .. l1 /\ (k + 1) - 1 = k
      BY <1>1
    <3> QED BY <1>10, <3>1
  <2>3. DOMAIN c = 0 .. (len + 1) - 1
    BY <1>8
  <2> HIDE DEF l1
  <2> QED BY <1>1, <1>7, <2>1, <2>2, <2>3, StrlenAt
<1>12. ft_strlcat(c, s2, len + 1).mem = Store(c, l1, s2 \o <<0>>)
  <2>1. Max({0, (len + 1) - 1 - l1}) = l2
    <3>1. Max({0, l2}) = IF l2 > 0 THEN l2 ELSE 0
      <4>1. l2 \in Int
        BY <1>1
      <4> HIDE DEF l2
      <4> QED BY <4>1, MaxWithZero
    <3> HIDE DEF l1, l2
    <3> QED BY <1>1, <1>7, <3>1
  <2>2. Min({Len(s2), l2}) = l2
    <3>1. Min({l2, l2}) = IF l2 <= l2 THEN l2 ELSE l2
      <4> HIDE DEF l2
      <4> QED BY <1>1, MinOfTwo
    <3> QED BY <3>1
  <2>3. SubSeq(s2, 1, l2) = s2
    BY WholeString
  <2> HIDE DEF l1, l2
  <2> QED BY <1>11, <2>1, <2>2, <2>3 DEF ft_strlcat
<1>13. Holds(Store(c, Len(s1), s2 \o <<0>>), len + 1, s1 \o s2)
  <2>1. Len(s1) + Len(s2) + 1 = len + 1
    BY DEF len
  <2>2. \A k \in 1 .. Len(s1) : c[k - 1] = s1[k]
    BY <1>10
  <2> HIDE DEF l1, l2
  <2> QED BY <1>1, <1>8, <2>1, <2>2, FillsBuffer
<1> QED BY <1>2, <1>6, <1>12, <1>13

(* The string with f applied at each of its places.                        *)
Mapped(t, f) == [k \in DOMAIN t |-> f[k - 1][t[k]]]

LEMMA StrmapiRight ==
  ASSUME NEW t \in Seq(Nat \ {0}), NEW f, \A k \in 1 .. Len(t) : f[k - 1][t[k]] \in Nat \ {0}
  PROVE  /\ Mapped(t, f) \in Seq(Nat \ {0}) /\ Len(Mapped(t, f)) = Len(t)
         /\ Holds(ft_strmapi(t, f, FALSE), Len(t) + 1, Mapped(t, f))
<1> DEFINE m == Mapped(t, f)
           l == Len(t)
           none == <<>>
           b == malloc(l + 1)
<1>1. l \in Nat /\ l + 1 \in Nat
  OBVIOUS
<1>2. m \in Seq(Nat \ {0}) /\ Len(m) = l
  <2>1. DOMAIN t = 1 .. l
    OBVIOUS
  <2>2. m \in [1 .. l -> Nat \ {0}]
    BY <2>1 DEF Mapped
  <2> HIDE DEF m, l
  <2> QED BY <1>1, <2>2
<1>3. ft_strmapi(t, f, FALSE) = Store(b, 0, m \o <<0>>)
  BY DEF ft_strmapi, Mapped
<1>4. b \in [0 .. (l + 1) - 1 -> Unwritten]
  BY <1>1, MallocBytes
<1> HIDE DEF m, l, b
<1>5. none \in Seq(Nat \ {0}) /\ Len(none) = 0 /\ none \o m = m /\ \A k \in 1 .. Len(none) : FALSE
  BY <1>2
<1> HIDE DEF none
<1>6. Len(none) + Len(m) + 1 = l + 1
  BY <1>1, <1>2, <1>5
<1>7. Holds(Store(b, Len(none), m \o <<0>>), l + 1, none \o m)
  BY <1>1, <1>2, <1>4, <1>5, <1>6, FillsBuffer
<1> QED BY <1>2, <1>3, <1>5, <1>7 DEF m, l

(* The buffer b, its string mapped from place k on.                        *)
MappedFrom(b, l, f, k) ==
  [x \in 0 .. l |-> IF k <= x /\ x < l THEN f[x][b[x]] ELSE b[x]]

(* f gives characters for those of the string in b.                        *)
GivesCharacters(b, l, f) ==
  l \in Nat /\ b \in [0 .. l -> Nat] /\ \A x \in 0 .. l - 1 : f[x][b[x]] \in Nat \ {0}

LEMMA MapsOneMore ==
  ASSUME NEW l, NEW b, NEW f, GivesCharacters(b, l, f), NEW k \in 0 .. l - 1
  PROVE  MappedFrom(b, l, f, k) = Store(MappedFrom(b, l, f, k + 1), k, <<f[k][b[k]]>>)
<1> DEFINE n == l + 1
           d == MappedFrom(b, l, f, k + 1)
           v == f[k][b[k]]
           c == Store(d, k, <<v>>)
<1>1. l \in Nat /\ b \in [0 .. l -> Nat] /\ \A x \in 0 .. l - 1 : f[x][b[x]] \in Nat \ {0}
  BY DEF GivesCharacters
<1>2. k \in Nat /\ n \in Nat /\ n - 1 = l /\ k + 1 <= n
  BY <1>1
<1>3. v \in Nat
  BY <1>1
<1>4. d \in [0 .. l -> Nat] /\ \A x \in 0 .. l : d[x] = IF k + 1 <= x /\ x < l THEN f[x][b[x]] ELSE b[x]
  <2>1. ASSUME NEW x \in 0 .. l
        PROVE  (IF k + 1 <= x /\ x < l THEN f[x][b[x]] ELSE b[x]) \in Nat
    <3>1. CASE k + 1 <= x /\ x < l
      BY <1>1, <1>2, <3>1
    <3>2. CASE ~(k + 1 <= x /\ x < l)
      BY <1>1, <3>2
    <3> QED BY <3>1, <3>2
  <2> QED BY <2>1 DEF MappedFrom
<1> HIDE DEF d, v
<1>5. Stored(d, n, k, <<v>>, c, Nat)
  <2>1. d \in [0 .. n - 1 -> Nat] /\ <<v>> \in Seq(Nat) /\ k + Len(<<v>>) <= n
    BY <1>2, <1>3, <1>4
  <2> HIDE DEF n, c
  <2> QED BY <1>2, <2>1, StoreInside DEF c
<1> HIDE DEF c
<1>6. c \in [0 .. l -> Nat] /\ \A x \in 0 .. l : c[x] = IF x = k THEN v ELSE d[x]
  <2>1. c \in [0 .. l -> Nat]
    BY <1>2, <1>5 DEF Stored
  <2>2. ASSUME NEW x \in 0 .. l
        PROVE  c[x] = IF x = k THEN v ELSE d[x]
    <3>1. Len(<<v>>) = 1 /\ <<v>>[1] = v /\ x \in 0 .. n - 1
      BY <1>2
    <3>2. c[x] = IF k <= x /\ x < k + Len(<<v>>) THEN <<v>>[x - k + 1] ELSE d[x]
      BY <1>5, <3>1 DEF Stored
    <3>3. k <= x /\ x < k + 1 <=> x = k
      BY <1>2
    <3>4. x = k => x - k + 1 = 1
      BY <1>2
    <3> QED BY <3>1, <3>2, <3>3, <3>4
  <2> QED BY <2>1, <2>2
<1>7. ASSUME NEW x \in 0 .. l
      PROVE  c[x] = IF k <= x /\ x < l THEN f[x][b[x]] ELSE b[x]
  <2>1. CASE x = k
    BY <1>2, <1>6, <2>1 DEF v
  <2>2. CASE x # k
    <3>1. k + 1 <= x <=> k <= x
      BY <1>2, <2>2
    <3> QED BY <1>4, <1>6, <2>2, <3>1
  <2> QED BY <2>1, <2>2
<1>8. c = MappedFrom(b, l, f, k)
  <2>1. c = [x \in 0 .. l |-> c[x]]
    BY <1>6
  <2> QED BY <1>7, <2>1 DEF MappedFrom
<1> QED BY <1>8 DEF c, d, v

LEMMA StriteriRight ==
  ASSUME NEW t \in Seq(Nat \ {0}), NEW f, \A k \in 1 .. Len(t) : f[k - 1][t[k]] \in Nat \ {0},
         NEW b, Holds(b, Len(t) + 1, t)
  PROVE  Holds(ft_striteri(b, f), Len(t) + 1, Mapped(t, f))
<1> DEFINE l == Len(t)
           V(g) == g = [k \in 0 .. ft_strlen(b) |->
                          IF b[k] = 0 THEN b ELSE Store(g[k + 1], k, <<f[k][b[k]]>>)]
           e == [k \in 0 .. l |-> MappedFrom(b, l, f, k)]
           M == [k \in 0 .. l |-> l - k]
           h == CHOOSE g : V(g)
<1>1. /\ l \in Nat /\ l + 1 \in Nat /\ (l + 1) - 1 = l
      /\ b \in [0 .. l -> Nat] /\ b[l] = 0
      /\ \A k \in 1 .. l : b[k - 1] = t[k] /\ t[k] \in Nat \ {0}
  <2>1. l \in Nat /\ l + 1 \in Nat /\ (l + 1) - 1 = l
    OBVIOUS
  <2> QED BY <2>1 DEF Holds
<1>2. ft_strlen(b) = l
  BY <1>1, StringIn
<1>3. ASSUME NEW k \in 0 .. l - 1
      PROVE  /\ k + 1 \in 1 .. l /\ (k + 1) - 1 = k /\ b[k] = t[k + 1] /\ b[k] # 0
             /\ f[k][b[k]] = f[(k + 1) - 1][t[k + 1]] /\ f[k][b[k]] \in Nat \ {0}
  <2>1. k + 1 \in 1 .. l /\ (k + 1) - 1 = k
    BY <1>1
  <2>2. b[k] = t[k + 1] /\ b[k] # 0
    BY <1>1, <2>1
  <2>3. f[(k + 1) - 1][t[k + 1]] \in Nat \ {0}
    BY <2>1
  <2> QED BY <2>1, <2>2, <2>3
<1> HIDE DEF l
<1>4. MappedFrom(b, l, f, l) = b
  <2>1. \A x \in 0 .. l : ~(l <= x /\ x < l)
    BY <1>1
  <2>2. MappedFrom(b, l, f, l) = [x \in 0 .. l |-> b[x]]
    BY <2>1 DEF MappedFrom
  <2> QED BY <1>1, <2>2
<1>5. ASSUME NEW k \in 0 .. l
      PROVE  e[k] = IF b[k] = 0 THEN b ELSE Store(e[k + 1], k, <<f[k][b[k]]>>)
  <2>1. CASE k = l
    BY <1>1, <1>4, <2>1
  <2>2. CASE k # l
    <3>1. k \in 0 .. l - 1 /\ k + 1 \in 0 .. l
      BY <1>1, <2>2
    <3>2. e[k] = MappedFrom(b, l, f, k) /\ e[k + 1] = MappedFrom(b, l, f, k + 1)
      BY <3>1
    <3>3. GivesCharacters(b, l, f)
      BY <1>1, <1>3 DEF GivesCharacters
    <3>4. MappedFrom(b, l, f, k) = Store(MappedFrom(b, l, f, k + 1), k, <<f[k][b[k]]>>)
      <4> HIDE DEF e, V, M, h
      <4> QED BY <3>1, <3>3, MapsOneMore, Zenon
    <3>5. b[k] # 0
      BY <1>3, <3>1
    <3> HIDE DEF e
    <3> QED BY <3>2, <3>4, <3>5
  <2> QED BY <2>1, <2>2
<1>6. V(e)
  <2>1. e = [k \in 0 .. l |-> e[k]]
    OBVIOUS
  <2> HIDE DEF e
  <2>2. e = [k \in 0 .. l |-> IF b[k] = 0 THEN b ELSE Store(e[k + 1], k, <<f[k][b[k]]>>)]
    BY <1>5, <2>1
  <2> QED BY <1>2, <2>2
<1>7. V(h)
  <2> HIDE DEF V
  <2> QED BY <1>6, Zenon
<1>8. ft_striteri(b, f) = h[0]
  BY Zenon DEF ft_striteri
<1> HIDE DEF h
<1>9. \A k \in 0 .. l : h[k] = IF b[k] = 0 THEN b ELSE Store(h[k + 1], k, <<f[k][b[k]]>>)
  BY <1>2, <1>7
<1>10. M \in [0 .. l -> Nat] /\ \A k \in 0 .. l : M[k] = l - k
  BY <1>1
<1> HIDE DEF V, M, e
<1>11. AgreeUpwards(0 .. l, M, h, e)
  <2> SUFFICES ASSUME NEW k \in 0 .. l, \A x \in 0 .. l : M[x] < M[k] => h[x] = e[x]
               PROVE  h[k] = e[k]
    BY DEF AgreeUpwards
  <2>1. CASE b[k] = 0
    BY <1>5, <1>9, <2>1
  <2>2. CASE b[k] # 0
    <3>1. k # l
      BY <1>1, <2>2
    <3>2. k + 1 \in 0 .. l /\ k \in Nat
      BY <1>1, <3>1
    <3>3. M[k + 1] = l - (k + 1) /\ M[k] = l - k
      BY <1>10, <3>2
    <3>4. M[k + 1] < M[k]
      BY <1>1, <3>2, <3>3
    <3>5. h[k + 1] = e[k + 1]
      BY <3>2, <3>4
    <3>6. h[k] = Store(h[k + 1], k, <<f[k][b[k]]>>)
      BY <1>9, <2>2, Zenon
    <3>7. e[k] = Store(e[k + 1], k, <<f[k][b[k]]>>)
      BY <1>5, <2>2, Zenon
    <3> QED BY <3>5, <3>6, <3>7
  <2> QED BY <2>1, <2>2
<1>12. h[0] = MappedFrom(b, l, f, 0)
  <2>1. 0 \in 0 .. l
    BY <1>1
  <2>2. h[0] = e[0]
    <3> DEFINE A == 0 .. l
    <3>1. M \in [A -> Nat] /\ AgreeUpwards(A, M, h, e) /\ 0 \in A
      BY <1>10, <1>11, <2>1
    <3> HIDE DEF A
    <3>2. \A k \in A : h[k] = e[k]
      BY <3>1, SameRecursion
    <3> QED BY <3>1, <3>2
  <2> QED BY <2>1, <2>2 DEF e
<1> DEFINE m == Mapped(t, f)
           c == MappedFrom(b, l, f, 0)
<1>13. m \in Seq(Nat \ {0}) /\ Len(m) = l /\ \A k \in 1 .. l : m[k] = f[k - 1][t[k]]
  <2>1. DOMAIN t = 1 .. l
    BY DEF l
  <2>2. \A k \in 1 .. l : m[k] = f[k - 1][t[k]]
    BY <2>1 DEF Mapped
  <2>3. m \in Seq(Nat \ {0}) /\ Len(m) = l
    <3> HIDE DEF m
    <3> QED BY StrmapiRight DEF m, l
  <2> QED BY <2>2, <2>3
<1>14. \A x \in 0 .. l : c[x] = IF 0 <= x /\ x < l THEN f[x][b[x]] ELSE b[x]
  BY DEF MappedFrom
<1>15. c = [x \in 0 .. l |-> c[x]]
  BY DEF MappedFrom
<1> HIDE DEF m, c
<1>16. \A k \in 1 .. l : c[k - 1] = m[k]
  <2> TAKE k \in 1 .. l
  <2>1. k - 1 \in 0 .. l - 1 /\ k - 1 \in 0 .. l /\ 0 <= k - 1 /\ k - 1 < l /\ (k - 1) + 1 = k
    BY <1>1
  <2>2. c[k - 1] = f[k - 1][b[k - 1]]
    BY <1>14, <2>1
  <2>3. b[k - 1] = t[k]
    BY <1>1
  <2> QED BY <1>13, <2>2, <2>3
<1>17. c[l] = 0
  BY <1>1, <1>14
<1>18. c \in [0 .. l -> Nat]
  <2>1. ASSUME NEW x \in 0 .. l
        PROVE  c[x] \in Nat
    <3>1. CASE x = l
      BY <1>17, <3>1
    <3>2. CASE x # l
      <4>1. x + 1 \in 1 .. l /\ (x + 1) - 1 = x
        BY <1>1, <3>2
      <4> QED BY <1>13, <1>16, <4>1
    <3> QED BY <3>1, <3>2
  <2> QED BY <1>15, <2>1
<1>19. Holds(c, l + 1, m)
  <2>1. l < l + 1
    BY <1>1
  <2> QED BY <1>1, <1>13, <1>16, <1>17, <1>18, <2>1 DEF Holds
<1> QED BY <1>8, <1>12, <1>19 DEF c, m, l

(* o lists the numbers of A, each once, from the least on.                 *)
Ascends(o) == \A m, n \in 1 .. Len(o) : m < n => o[m] < o[n]

Lists(o, A) ==
  /\ A \subseteq Nat /\ o \in Seq(A) /\ Ascends(o)
  /\ \A x \in A : \E k \in 1 .. Len(o) : o[k] = x

LEMMA AscendsOrder ==
  ASSUME NEW A, NEW o, Lists(o, A), NEW m \in 1 .. Len(o), NEW n \in 1 .. Len(o)
  PROVE  o[m] \in A /\ o[m] \in Nat /\ (o[m] < o[n] <=> m < n) /\ (o[m] = o[n] <=> m = n)
<1>1. Len(o) \in Nat /\ o[m] \in A /\ o[n] \in A /\ o[m] \in Nat /\ o[n] \in Nat
  <2>1. o \in Seq(A) /\ A \subseteq Nat
    BY DEF Lists
  <2>2. Len(o) \in Nat /\ o[m] \in A /\ o[n] \in A
    BY <2>1
  <2> QED BY <2>1, <2>2
<1>2. (m < n => o[m] < o[n]) /\ (n < m => o[n] < o[m])
  BY DEF Lists, Ascends
<1>3. m \in Nat /\ n \in Nat
  OBVIOUS
<1>4. m < n \/ n < m \/ m = n
  BY <1>3
<1> QED BY <1>1, <1>2, <1>3, <1>4

LEMMA ListsBeginAlike ==
  ASSUME NEW A, NEW o, NEW q, Lists(o, A), Lists(q, A)
  PROVE  Len(o) <= Len(q) /\ \A k \in 1 .. Len(o) : q[k] = o[k]
<1> DEFINE T == {v \in Nat : v \in 1 .. Len(o) => v \in 1 .. Len(q) /\ q[v] = o[v]}
<1>1. Len(o) \in Nat /\ Len(q) \in Nat
  BY DEF Lists
<1>2. ASSUME NEW v \in Nat, \A x \in 0 .. v - 1 : x \in T
      PROVE  v \in T
  <2> SUFFICES ASSUME v \in 1 .. Len(o)
               PROVE  v \in 1 .. Len(q) /\ q[v] = o[v]
    OBVIOUS
  <2>1. o[v] \in A
    BY AscendsOrder
  <2>2. PICK m \in 1 .. Len(q) : q[m] = o[v]
    BY <2>1 DEF Lists
  <2>3. ASSUME NEW x \in 1 .. Len(o), x < v
        PROVE  x \in 1 .. Len(q) /\ q[x] = o[x]
    <3>1. x \in 0 .. v - 1
      BY <1>1, <2>3
    <3> QED BY <1>2, <3>1
  <2> HIDE DEF T
  <2>4. ~(m < v)
    <3> SUFFICES ASSUME m < v
                 PROVE  FALSE
      OBVIOUS
    <3>1. m \in 1 .. Len(o)
      BY <1>1
    <3>2. q[m] = o[m]
      BY <2>3, <3>1
    <3>3. o[m] = o[v] <=> m = v
      BY <3>1, AscendsOrder
    <3> QED BY <2>2, <3>2, <3>3
  <2>5. ~(v < m)
    <3> SUFFICES ASSUME v < m
                 PROVE  FALSE
      OBVIOUS
    <3>1. v \in 1 .. Len(q)
      BY <1>1
    <3>2. q[v] \in A /\ (q[v] < q[m] <=> v < m)
      BY <3>1, AscendsOrder
    <3>3. PICK n \in 1 .. Len(o) : o[n] = q[v]
      BY <3>2 DEF Lists
    <3>4. o[n] < o[v]
      BY <2>2, <3>2, <3>3
    <3>5. n < v
      BY <3>4, AscendsOrder
    <3>6. n \in 1 .. Len(q) /\ q[n] = o[n]
      BY <2>3, <3>5
    <3>7. q[n] = q[v] <=> n = v
      BY <3>1, <3>6, AscendsOrder
    <3> QED BY <3>3, <3>5, <3>6, <3>7
  <2>6. m = v
    BY <2>4, <2>5
  <2> QED BY <2>2, <2>6
<1>3. T = Nat
  <2>1. T \in SUBSET Nat
    OBVIOUS
  <2> HIDE DEF T
  <2>2. Progressive(T)
    BY <1>2, <2>1 DEF Progressive
  <2> QED BY <2>2, CompleteInduction
<1>4. \A k \in 1 .. Len(o) : k \in 1 .. Len(q) /\ q[k] = o[k]
  BY <1>3
<1>5. Len(o) <= Len(q)
  <2>1. CASE Len(o) = 0
    BY <1>1, <2>1
  <2>2. CASE Len(o) # 0
    <3>1. Len(o) \in 1 .. Len(o)
      BY <1>1, <2>2
    <3> QED BY <1>1, <1>4, <3>1
  <2> QED BY <2>1, <2>2
<1> QED BY <1>4, <1>5

LEMMA ListsOnce ==
  ASSUME NEW A, NEW o, NEW q, Lists(o, A), Lists(q, A)
  PROVE  o = q
<1>1. Len(o) <= Len(q) /\ Len(q) <= Len(o) /\ \A k \in 1 .. Len(o) : q[k] = o[k]
  BY ListsBeginAlike
<1>2. o \in Seq(A) /\ q \in Seq(A)
  BY DEF Lists
<1>3. Len(o) = Len(q)
  BY <1>1, <1>2
<1> QED BY <1>1, <1>2, <1>3, SameElements

LEMMA ListsCounted ==
  ASSUME NEW A, NEW o, Lists(o, A)
  PROVE  IsFiniteSet(A) /\ Cardinality(A) = Len(o)
<1> DEFINE D == 1 .. Len(o)
<1>1. Len(o) \in Nat /\ o \in [D -> A]
  BY DEF Lists
<1>2. IsFiniteSet(D) /\ Cardinality(D) = Len(o)
  <2>1. 1 \in Int /\ Len(o) \in Int
    BY <1>1
  <2>2. IsFiniteSet(1 .. Len(o)) /\ Cardinality(1 .. Len(o)) = IF 1 > Len(o) THEN 0 ELSE Len(o) - 1 + 1
    BY <2>1, FS_Interval
  <2>3. 1 > Len(o) => Len(o) = 0
    BY <1>1
  <2> QED BY <1>1, <2>2, <2>3
<1>3. o \in Surjection(D, A)
  BY <1>1 DEF Surjection, Lists
<1>4. o \in Injection(D, A)
  <2>1. ASSUME NEW m \in D, NEW n \in D, o[m] = o[n]
        PROVE  m = n
    BY <2>1, AscendsOrder
  <2>2. o \in [D -> A]
    BY <1>1
  <2> HIDE DEF D
  <2> QED BY <2>1, <2>2 DEF Injection, IsInjective
<1> HIDE DEF D
<1>5. IsFiniteSet(A) /\ Cardinality(A) = Cardinality(D)
  BY <1>2, <1>3, <1>4, FS_Surjection
<1> QED BY <1>2, <1>5

(* The order the reference definition chooses is the only one there is.    *)
OrderOf(A) ==
  CHOOSE o \in [1 .. Cardinality(A) -> A] : \A m, n \in DOMAIN o : m < n => o[m] < o[n]

LEMMA OrderLists ==
  ASSUME NEW A, NEW o, Lists(o, A)
  PROVE  OrderOf(A) = o
<1> DEFINE N == Cardinality(A)
           D == 1 .. N
           Up(f) == \A m, n \in DOMAIN f : m < n => f[m] < f[n]
           q == OrderOf(A)
<1>1. IsFiniteSet(A) /\ N = Len(o) /\ N \in Nat
  <2>1. Len(o) \in Nat
    BY DEF Lists
  <2> QED BY <2>1, ListsCounted
<1>2. o \in [D -> A] /\ Up(o)
  BY <1>1 DEF Lists, Ascends
<1>3. q \in [D -> A] /\ Up(q)
  <2>1. \E f \in [D -> A] : Up(f)
    <3> HIDE DEF D, Up
    <3> QED BY <1>2
  <2>2. q = CHOOSE f \in [D -> A] : Up(f)
    BY DEF OrderOf
  <2> HIDE DEF D, Up, q
  <2> QED BY <2>1, <2>2
<1> HIDE DEF N, q
<1>4. q \in Seq(A) /\ Len(q) = N
  BY <1>1, <1>3
<1>5. Ascends(q)
  <2>1. DOMAIN q = 1 .. Len(q)
    BY <1>3, <1>4
  <2> QED BY <1>3, <2>1 DEF Ascends
<1>6. A \subseteq Nat
  BY DEF Lists
<1>7. q \in Injection(D, A)
  <2>1. ASSUME NEW m \in D, NEW n \in D, q[m] = q[n]
        PROVE  m = n
    <3>1. q[m] \in A /\ q[n] \in A /\ DOMAIN q = D
      BY <1>3
    <3>2. m \in Nat /\ n \in Nat /\ q[m] \in Nat /\ q[n] \in Nat
      <4>1. m \in Nat /\ n \in Nat
        BY <1>1
      <4>2. q[m] \in Nat /\ q[n] \in Nat
        BY <1>6, <3>1, Zenon
      <4> QED BY <4>1, <4>2
    <3>3. ~(m < n) /\ ~(n < m)
      BY <1>3, <2>1, <3>1, <3>2
    <3> QED BY <3>2, <3>3
  <2>2. q \in [D -> A]
    BY <1>3
  <2> HIDE DEF D
  <2> QED BY <2>1, <2>2 DEF Injection, IsInjective
<1>8. Cardinality(D) = N
  <2>1. 1 \in Int /\ N \in Int
    BY <1>1
  <2>2. Cardinality(1 .. N) = IF 1 > N THEN 0 ELSE N - 1 + 1
    BY <2>1, FS_Interval
  <2>3. 1 > N => N = 0
    BY <1>1
  <2> QED BY <1>1, <2>2, <2>3
<1>9. q \in Surjection(D, A)
  <2> HIDE DEF D
  <2>1. Cardinality(D) = Cardinality(A)
    BY <1>8 DEF N
  <2> QED BY <1>1, <1>7, <2>1, FS_Injection
<1>10. \A x \in A : \E k \in 1 .. Len(q) : q[k] = x
  BY <1>4, <1>9 DEF Surjection
<1>11. Lists(q, A)
  BY <1>4, <1>5, <1>6, <1>10 DEF Lists
<1>12. q = o
  BY <1>11, ListsOnce
<1> QED BY <1>12 DEF q

(* One number in front of greater ones.                                    *)
LEMMA ListsFront ==
  ASSUME NEW A, NEW o, Lists(o, A), NEW x \in Nat, \A y \in A : x < y
  PROVE  Lists(<<x>> \o o, A \cup {x})
<1> DEFINE B == A \cup {x}
           r == <<x>> \o o
<1>1. o \in Seq(B) /\ <<x>> \in Seq(B) /\ Len(<<x>>) = 1 /\ <<x>>[1] = x /\ Len(o) \in Nat
  <2>1. o \in Seq(A)
    BY DEF Lists
  <2>2. \A k \in 1 .. Len(o) : o[k] \in B
    BY <2>1
  <2>3. o \in Seq(B)
    BY <2>1, <2>2
  <2> QED BY <2>1, <2>3
<1> HIDE DEF B
<1>2. /\ r \in Seq(B) /\ Len(r) = 1 + Len(o)
      /\ \A k \in 1 .. 1 : r[k] = <<x>>[k]
      /\ \A k \in 1 .. Len(o) : r[1 + k] = o[k]
  <2>1. /\ r \in Seq(B) /\ Len(r) = Len(<<x>>) + Len(o)
        /\ \A k \in 1 .. Len(<<x>>) : r[k] = <<x>>[k]
        /\ \A k \in 1 .. Len(o) : r[Len(<<x>>) + k] = o[k]
    BY <1>1, ConcatElements
  <2> HIDE DEF r
  <2> QED BY <1>1, <2>1
<1> HIDE DEF r
<1>3. r[1] = x
  BY <1>1, <1>2
<1>4. \A k \in 2 .. Len(r) : k - 1 \in 1 .. Len(o) /\ r[k] = o[k - 1] /\ r[k] \in A
  <2> TAKE k \in 2 .. Len(r)
  <2>1. k - 1 \in 1 .. Len(o) /\ 1 + (k - 1) = k
    BY <1>1, <1>2
  <2>2. o[k - 1] \in A
    BY <2>1, AscendsOrder
  <2> QED BY <1>2, <2>1, <2>2
<1>5. Ascends(r)
  <2> SUFFICES ASSUME NEW m \in 1 .. Len(r), NEW n \in 1 .. Len(r), m < n
               PROVE  r[m] < r[n]
    BY DEF Ascends
  <2>1. n \in 2 .. Len(r) /\ (m = 1 \/ m \in 2 .. Len(r)) /\ m - 1 < n - 1
    BY <1>1, <1>2
  <2>2. CASE m = 1
    BY <1>3, <1>4, <2>1, <2>2
  <2>3. CASE m \in 2 .. Len(r)
    <3>1. o[m - 1] < o[n - 1] <=> m - 1 < n - 1
      BY <1>4, <2>1, <2>3, AscendsOrder
    <3> QED BY <1>4, <2>1, <2>3, <3>1
  <2> QED BY <2>1, <2>2, <2>3
<1>6. \A y \in B : \E k \in 1 .. Len(r) : r[k] = y
  <2> TAKE y \in B
  <2>1. CASE y = x
    <3>1. 1 \in 1 .. Len(r)
      BY <1>1, <1>2
    <3> QED BY <1>3, <2>1, <3>1
  <2>2. CASE y # x
    <3>1. PICK k \in 1 .. Len(o) : o[k] = y
      BY <2>2 DEF B, Lists
    <3>2. 1 + k \in 1 .. Len(r) /\ r[1 + k] = y
      BY <1>1, <1>2, <3>1
    <3> QED BY <3>2
  <2> QED BY <2>1, <2>2
<1>7. B \subseteq Nat
  BY DEF B, Lists
<1> QED BY <1>2, <1>5, <1>6, <1>7 DEF Lists, B, r

LEMMA ListsNothing == Lists(<<>>, {})
BY DEF Lists, Ascends

-----------------------------------------------------------------------------
(* ft_split *)

(* The places, from 1, where a field begins, and those behind p.           *)
FieldBegins(t, c) == {k \in DOMAIN t : t[k] # c /\ (k > 1 => t[k - 1] = c)}
After(t, c, p) == {k \in FieldBegins(t, c) : k > p}

(* No field goes on from the p-th character to the next.                   *)
Outside(t, c, p) == p = 0 \/ p = Len(t) \/ t[p] = c \/ t[p + 1] = c

(* The place, from 1, of the last character of a field that begins at k.   *)
FieldEnd(t, c, k) == Min({e \in k .. Len(t) : e = Len(t) \/ t[e + 1] = c})

LEMMA BeginsAt ==
  ASSUME NEW S, NEW t \in Seq(S), NEW c, NEW k
  PROVE  k \in FieldBegins(t, c) <=> k \in 1 .. Len(t) /\ t[k] # c /\ (k > 1 => t[k - 1] = c)
BY DEF FieldBegins

(* Where the loops over a word and over separators stop.                   *)
LEMMA LoopEnds ==
  ASSUME NEW S, NEW t \in Seq(S), NEW c, NEW p \in 0 .. Len(t)
  PROVE  /\ word_end(t, c, p) \in p .. Len(t)
         /\ word_end(t, c, p) = Len(t) \/ t[word_end(t, c, p) + 1] = c
         /\ \A k \in p .. Len(t) : k < word_end(t, c, p) => k # Len(t) /\ t[k + 1] # c
         /\ separator_end(t, c, p) \in p .. Len(t)
         /\ separator_end(t, c, p) = Len(t) \/ t[separator_end(t, c, p) + 1] # c
         /\ \A k \in p .. Len(t) : k < separator_end(t, c, p) => k # Len(t) /\ t[k + 1] = c
<1> DEFINE W == {k \in p .. Len(t) : k = Len(t) \/ t[k + 1] = c}
           Z == {k \in p .. Len(t) : k = Len(t) \/ t[k + 1] # c}
<1>1. Len(t) \in Nat /\ p \in Nat
  OBVIOUS
<1>2. Len(t) \in W /\ Len(t) \in Z /\ W \in SUBSET Nat /\ Z \in SUBSET Nat
  BY <1>1
<1>3. word_end(t, c, p) = Min(W) /\ separator_end(t, c, p) = Min(Z)
  BY DEF word_end, separator_end
<1>4. /\ Min(W) \in W /\ \A k \in W : Min(W) <= k
      /\ Min(Z) \in Z /\ \A k \in Z : Min(Z) <= k
  <2> HIDE DEF W, Z
  <2> QED BY <1>2, MinElement
<1> DEFINE w == word_end(t, c, p)
           z == separator_end(t, c, p)
<1>5. w \in W /\ (\A k \in W : w <= k) /\ z \in Z /\ (\A k \in Z : z <= k)
  <2> HIDE DEF W, Z, w, z
  <2> QED BY <1>3, <1>4 DEF w, z
<1> HIDE DEF w, z
<1>6. w \in p .. Len(t) /\ (w = Len(t) \/ t[w + 1] = c)
  BY <1>5
<1>7. z \in p .. Len(t) /\ (z = Len(t) \/ t[z + 1] # c)
  BY <1>5
<1>8. ASSUME NEW k \in p .. Len(t), k < w
      PROVE  k # Len(t) /\ t[k + 1] # c
  <2>1. k \in Nat /\ w \in Nat
    BY <1>1, <1>6
  <2>2. k \notin W
    BY <1>5, <1>8, <2>1
  <2> QED BY <2>2
<1>9. ASSUME NEW k \in p .. Len(t), k < z
      PROVE  k # Len(t) /\ t[k + 1] = c
  <2>1. k \in Nat /\ z \in Nat
    BY <1>1, <1>7
  <2>2. k \notin Z
    BY <1>5, <1>9, <2>1
  <2> QED BY <2>2
<1> QED BY <1>6, <1>7, <1>8, <1>9 DEF w, z

(* Behind a separator the same fields begin as in front of it.             *)
SkipsTo(t, c, p, z) ==
  /\ z \in p .. Len(t) /\ z \in 0 .. Len(t)
  /\ After(t, c, p) = After(t, c, z)
  /\ Outside(t, c, p) => Outside(t, c, z)

LEMMA SeparatorsSkipped ==
  ASSUME NEW S, NEW t \in Seq(S), NEW c, NEW p \in 0 .. Len(t)
  PROVE  /\ SkipsTo(t, c, p, separator_end(t, c, p))
         /\ p # Len(t) /\ t[p + 1] = c => SkipsTo(t, c, p, p + 1)
         /\ After(t, c, Len(t)) = {}
<1>1. Len(t) \in Nat /\ p \in Nat
  OBVIOUS
<1>2. ASSUME NEW z \in p .. Len(t), \A k \in p .. Len(t) : k < z => t[k + 1] = c
      PROVE  SkipsTo(t, c, p, z)
  <2>1. z \in 0 .. Len(t) /\ z \in Nat
    BY <1>1
  <2>2. ASSUME NEW k \in FieldBegins(t, c)
        PROVE  k > p <=> k > z
    <3>1. k \in 1 .. Len(t) /\ t[k] # c
      BY BeginsAt
    <3>2. k - 1 \in Nat /\ (k - 1) + 1 = k /\ k \in Nat
      BY <3>1
    <3>3. k - 1 \in p .. Len(t) /\ k - 1 < z => t[k] = c
      BY <1>2, <3>2
    <3> QED BY <1>1, <2>1, <3>1, <3>2, <3>3
  <2>3. After(t, c, p) = After(t, c, z)
    BY <2>2 DEF After
  <2>4. ASSUME Outside(t, c, p)
        PROVE  Outside(t, c, z)
    <3>1. CASE z = p
      BY <2>4, <3>1
    <3>2. CASE z # p
      <4>1. z - 1 \in p .. Len(t) /\ z - 1 < z /\ (z - 1) + 1 = z
        BY <1>1, <2>1, <3>2
      <4>2. t[z] = c
        BY <1>2, <4>1
      <4> QED BY <4>2 DEF Outside
    <3> QED BY <3>1, <3>2
  <2> QED BY <2>1, <2>3, <2>4 DEF SkipsTo
<1>3. SkipsTo(t, c, p, separator_end(t, c, p))
  BY <1>2, LoopEnds
<1>4. ASSUME p # Len(t), t[p + 1] = c
      PROVE  SkipsTo(t, c, p, p + 1)
  <2>1. p + 1 \in p .. Len(t)
    BY <1>1, <1>4
  <2>2. \A k \in p .. Len(t) : k < p + 1 => k = p
    BY <1>1
  <2> QED BY <1>2, <1>4, <2>1, <2>2
<1>5. After(t, c, Len(t)) = {}
  <2>1. \A k \in FieldBegins(t, c) : ~(k > Len(t))
    BY <1>1, BeginsAt
  <2> QED BY <2>1 DEF After
<1> QED BY <1>3, <1>4, <1>5

(* At the beginning of a word, what is behind it and where it ends.        *)
WordTo(t, c, p, w) ==
  /\ w \in p + 1 .. Len(t) /\ w \in 0 .. Len(t) /\ Outside(t, c, w)
  /\ FieldEnd(t, c, p + 1) = w
  /\ After(t, c, p) = After(t, c, w) \cup {p + 1}
  /\ \A y \in After(t, c, w) : p + 1 < y

LEMMA WordSkipped ==
  ASSUME NEW S, NEW t \in Seq(S), NEW c, NEW p \in 0 .. Len(t),
         Outside(t, c, p), p # Len(t), t[p + 1] # c
  PROVE  WordTo(t, c, p, word_end(t, c, p))
<1> DEFINE w == word_end(t, c, p)
           E == {e \in p + 1 .. Len(t) : e = Len(t) \/ t[e + 1] = c}
<1>1. Len(t) \in Nat /\ p \in Nat /\ p + 1 \in 1 .. Len(t)
  OBVIOUS
<1>2. /\ w \in p .. Len(t) /\ (w = Len(t) \/ t[w + 1] = c)
      /\ \A k \in p .. Len(t) : k < w => k # Len(t) /\ t[k + 1] # c
  BY LoopEnds
<1> HIDE DEF w
<1>3. w \in Nat /\ w # p
  BY <1>1, <1>2
<1>4. w \in p + 1 .. Len(t) /\ w \in 0 .. Len(t) /\ Outside(t, c, w)
  BY <1>1, <1>2, <1>3 DEF Outside
<1>5. FieldEnd(t, c, p + 1) = w
  <2>1. w \in E /\ E \in SUBSET Nat
    BY <1>1, <1>2, <1>4
  <2>2. ASSUME NEW e \in E
        PROVE  ~(e < w)
    <3>1. e \in p .. Len(t) /\ (e = Len(t) \/ t[e + 1] = c)
      BY <1>1
    <3> QED BY <1>2, <3>1
  <2>3. FieldEnd(t, c, p + 1) = Min(E)
    BY DEF FieldEnd
  <2> HIDE DEF E
  <2>4. Min(E) \in E /\ \A e \in E : Min(E) <= e
    BY <2>1, MinElement
  <2>5. Min(E) <= w /\ Min(E) \in Nat /\ ~(Min(E) < w)
    BY <2>1, <2>2, <2>4
  <2> QED BY <1>3, <2>3, <2>5
<1>6. p + 1 \in FieldBegins(t, c)
  <2>1. p + 1 > 1 => t[(p + 1) - 1] = c
    <3>1. (p + 1) - 1 = p /\ (p + 1 > 1 => p # 0)
      BY <1>1
    <3>2. p # 0 => t[p] = c
      BY DEF Outside
    <3> QED BY <3>1, <3>2
  <2> QED BY <1>1, <2>1, BeginsAt
<1>7. ASSUME NEW k \in FieldBegins(t, c)
      PROVE  k > p <=> k > w \/ k = p + 1
  <2>1. k \in 1 .. Len(t) /\ (k > 1 => t[k - 1] = c)
    BY BeginsAt
  <2>2. ASSUME k > p + 1
        PROVE  k > w
    <3>1. k - 2 \in p .. Len(t) /\ (k - 2) + 1 = k - 1 /\ t[k - 1] = c /\ k \in Nat
      BY <1>1, <2>1, <2>2
    <3>2. k - 2 < w => t[k - 1] # c
      BY <1>2, <3>1
    <3>3. ~(k - 2 < w)
      BY <3>1, <3>2
    <3>4. k > w \/ k - 2 < w
      BY <1>3, <3>1
    <3> QED BY <3>3, <3>4
  <2>3. w > p /\ k \in Nat
    BY <1>1, <1>4, <2>1
  <2> QED BY <1>1, <1>3, <2>2, <2>3
<1>8. After(t, c, p) = After(t, c, w) \cup {p + 1}
  <2>1. p + 1 > p
    BY <1>1
  <2> QED BY <1>6, <1>7, <2>1 DEF After
<1>9. ASSUME NEW y \in After(t, c, w)
      PROVE  p + 1 < y
  <2>1. y > w /\ y \in FieldBegins(t, c)
    BY DEF After
  <2>2. y \in 1 .. Len(t)
    BY <2>1, BeginsAt
  <2>3. y \in Nat /\ p + 1 <= w
    BY <1>1, <1>4, <2>2
  <2> QED BY <1>1, <1>3, <2>1, <2>3
<1>10. WordTo(t, c, p, w)
  BY <1>4, <1>5, <1>8, <1>9 DEF WordTo
<1> QED BY <1>10 DEF w

(* g has the words ft_countchr counts from each place on.                  *)
CountsFrom(t, c, g) ==
  \A p \in 0 .. Len(t) :
    g[p] = IF separator_end(t, c, p) = Len(t) THEN 0
           ELSE 1 + g[word_end(t, c, separator_end(t, c, p))]

LEMMA LaterWord ==
  ASSUME NEW S, NEW t \in Seq(S), NEW c, NEW p \in 0 .. Len(t),
         separator_end(t, c, p) # Len(t)
  PROVE  /\ separator_end(t, c, p) \in 0 .. Len(t)
         /\ word_end(t, c, separator_end(t, c, p)) \in p + 1 .. Len(t)
         /\ word_end(t, c, separator_end(t, c, p)) \in 0 .. Len(t)
<1> DEFINE z == separator_end(t, c, p)
           w == word_end(t, c, z)
<1>1. Len(t) \in Nat /\ p \in Nat
  OBVIOUS
<1>2. z \in p .. Len(t) /\ t[z + 1] # c
  BY LoopEnds
<1>3. z \in 0 .. Len(t) /\ z # Len(t)
  BY <1>1, <1>2
<1> HIDE DEF z
<1>4. w \in z .. Len(t) /\ (w = Len(t) \/ t[w + 1] = c)
  BY <1>3, LoopEnds
<1> HIDE DEF w
<1>5. w # z
  BY <1>2, <1>3, <1>4
<1>6. w \in p + 1 .. Len(t) /\ w \in 0 .. Len(t)
  BY <1>1, <1>2, <1>3, <1>4, <1>5
<1> QED BY <1>3, <1>6 DEF w, z

LEMMA CountSteps ==
  ASSUME NEW S, NEW t \in Seq(S), NEW c
  PROVE  \E g : CountsFrom(t, c, g) /\ g[0] = ft_countchr(t, c)
<1> DEFINE L == Len(t)
           z(p) == separator_end(t, c, p)
           w(p) == word_end(t, c, z(p))
           A == 0 .. L
           B == {p \in A : z(p) # L}
           M == [p \in A |-> L - p]
           P == [p \in B |-> w(p)]
           C == [p \in A \ B |-> 0]
           D == [p \in B |-> [r \in Nat |-> 1 + r]]
           V(f) == f = [p \in 0 .. Len(t) |->
                          IF z(p) = Len(t) THEN 0 ELSE 1 + f[w(p)]]
           h == CHOOSE f : V(f)
<1>1. L \in Nat /\ \A p \in B : p \in A /\ p \in Nat /\ w(p) \in p + 1 .. L /\ w(p) \in A
  BY LaterWord
<1> HIDE DEF z, w
<1>2. PICK f \in [A -> Nat] : \A p \in A : f[p] = IF p \in B THEN D[p][f[P[p]]] ELSE C[p]
  <2>1. B \in SUBSET A /\ M \in [A -> Nat]
    BY <1>1
  <2>2. P \in [B -> A]
    <3> HIDE DEF A, B
    <3> QED BY <1>1
  <2>3. ASSUME NEW p \in B
        PROVE  M[P[p]] < M[p]
    <3>1. P[p] = w(p) /\ M[p] = L - p /\ M[w(p)] = L - w(p)
      BY <1>1
    <3>2. w(p) \in Int /\ w(p) > p /\ p \in Int
      BY <1>1
    <3> HIDE DEF M, P, L, B
    <3> QED BY <1>1, <3>1, <3>2
  <2>4. D \in [B -> [Nat -> Nat]] /\ C \in [A \ B -> Nat]
    <3> HIDE DEF A, B
    <3> QED OBVIOUS
  <2> HIDE DEF A, B, M, P, C, D
  <2>5. Recursion(A, Nat, B, M, P, C, D)
    BY <2>1, <2>2, <2>3, <2>4 DEF Recursion
  <2> QED BY <2>5, RecursiveFunction
<1>3. ASSUME NEW p \in A
      PROVE  f[p] = IF z(p) = L THEN 0 ELSE 1 + f[w(p)]
  <2>1. CASE z(p) = L
    <3>1. p \in A \ B
      BY <2>1
    <3>2. f[p] = C[p]
      <4> HIDE DEF B, D, P, C
      <4> QED BY <1>2, <3>1
    <3> QED BY <2>1, <3>1, <3>2
  <2>2. CASE z(p) # L
    <3>1. p \in B /\ P[p] = w(p) /\ w(p) \in A
      BY <1>1, <2>2
    <3>2. f[w(p)] \in Nat
      BY <1>2, <3>1
    <3>3. f[p] = D[p][f[w(p)]]
      <4> HIDE DEF A, B, D, P, C
      <4> QED BY <1>2, <3>1
    <3>4. D[p] = [r \in Nat |-> 1 + r]
      <4> HIDE DEF B
      <4> QED BY <3>1
    <3> HIDE DEF D
    <3> QED BY <2>2, <3>2, <3>3, <3>4
  <2> QED BY <2>1, <2>2
<1>4. V(f)
  <2>1. f = [p \in A |-> f[p]]
    BY <1>2
  <2> QED BY <1>3, <2>1
<1>5. V(h)
  <2> HIDE DEF V
  <2> QED BY <1>4, Zenon
<1>6. ft_countchr(t, c) = h[0]
  BY Zenon DEF ft_countchr, z, w
<1> HIDE DEF h
<1>7. CountsFrom(t, c, h)
  BY <1>5 DEF CountsFrom, z, w
<1> QED BY <1>6, <1>7

(* The word ft_split copies from p on.                                     *)
WordFrom(t, c, p) == string_in(ft_substr(t, p, word_end(t, c, p) - p, FALSE))

(* g has the words ft_split stores from each place on.                     *)
SplitsFrom(t, c, g) ==
  \A p \in 0 .. Len(t) :
    g[p] = IF p = Len(t) THEN <<>>
           ELSE IF t[p + 1] = c THEN g[p + 1]
           ELSE <<WordFrom(t, c, p)>> \o g[word_end(t, c, p)]

(* What ft_split returns, g[0] the words it copies and fails the mallocs   *)
(* that are refused.                                                       *)
SplitResult(t, c, g, fails) ==
  ft_split(t, c, fails) =
    IF 0 \in fails THEN NULL
    ELSE [k \in DOMAIN g[0] |-> IF k \in fails THEN NULL ELSE g[0][k]]

LEMMA SplitSteps ==
  ASSUME NEW S, NEW t \in Seq(S), NEW c
  PROVE  \E g : SplitsFrom(t, c, g) /\ \A fails : SplitResult(t, c, g, fails)
<1> DEFINE L == Len(t)
           w(p) == word_end(t, c, p)
           len(p) == w(p) - p
           U(p) == string_in(ft_substr(t, p, len(p), FALSE))
           A == 0 .. L
           X == {U(p) : p \in A}
           B == {p \in A : p # L}
           M == [p \in A |-> L - p]
           P == [p \in B |-> IF t[p + 1] = c THEN p + 1 ELSE p + len(p)]
           C == [p \in A \ B |-> <<>>]
           D == [p \in B |-> [r \in Seq(X) |-> IF t[p + 1] = c THEN r ELSE <<U(p)>> \o r]]
           V(f) == f = [p \in 0 .. Len(t) |->
                          IF p = Len(t) THEN <<>>
                          ELSE IF t[p + 1] = c THEN f[p + 1]
                          ELSE <<U(p)>> \o f[p + len(p)]]
           h == CHOOSE f : V(f)
<1>1. L \in Nat
  OBVIOUS
<1>2. ASSUME NEW p \in B
      PROVE  /\ p \in A /\ p \in Nat /\ p + 1 \in A /\ L - (p + 1) < L - p
             /\ t[p + 1] # c => p + len(p) = w(p) /\ w(p) \in A /\ L - w(p) < L - p
  <2>1. p \in A /\ p \in Nat /\ p + 1 \in A /\ L - (p + 1) < L - p
    BY <1>1
  <2>2. ASSUME t[p + 1] # c
        PROVE  p + len(p) = w(p) /\ w(p) \in A /\ L - w(p) < L - p
    <3>1. w(p) \in p .. L /\ (w(p) = L \/ t[w(p) + 1] = c)
      BY <2>1, LoopEnds
    <3> HIDE DEF w
    <3>2. w(p) # p /\ w(p) \in Nat
      BY <1>1, <2>1, <2>2, <3>1, SMTT(60)
    <3>3. w(p) \in A /\ L - w(p) < L - p
      BY <1>1, <2>1, <3>1, <3>2
    <3>4. p + len(p) = w(p)
      BY <2>1, <3>2
    <3> QED BY <3>3, <3>4
  <2> QED BY <2>1, <2>2
<1>3. \A p \in A : <<U(p)>> \in Seq(X)
  <2> HIDE DEF U
  <2> QED OBVIOUS
<1> HIDE DEF U, w, len
<1>4. \A r \in Seq(X), p \in A : <<U(p)>> \o r \in Seq(X)
  <2> HIDE DEF X, A
  <2> QED BY <1>3, ConcatProperties
<1>5. \A p \in B : P[p] \in A /\ M[P[p]] < M[p]
  <2> TAKE p \in B
  <2>1. CASE t[p + 1] = c
    <3>1. P[p] = p + 1 /\ M[p] = L - p /\ M[p + 1] = L - (p + 1) /\ p + 1 \in A
      BY <1>2, <2>1
    <3> QED BY <1>2, <3>1
  <2>2. CASE t[p + 1] # c
    <3>1. P[p] = w(p) /\ M[p] = L - p /\ M[w(p)] = L - w(p) /\ w(p) \in A
      BY <1>2, <2>2
    <3> QED BY <1>2, <2>2, <3>1
  <2> QED BY <2>1, <2>2
<1>6. PICK f \in [A -> Seq(X)] : \A p \in A : f[p] = IF p \in B THEN D[p][f[P[p]]] ELSE C[p]
  <2>1. B \in SUBSET A /\ M \in [A -> Nat]
    BY <1>1
  <2>2. P \in [B -> A]
    <3>1. P = [p \in B |-> P[p]]
      OBVIOUS
    <3> HIDE DEF A, B, P
    <3> QED BY <1>5, <3>1
  <2>3. D \in [B -> [Seq(X) -> Seq(X)]]
    <3>1. B \subseteq A
      OBVIOUS
    <3> HIDE DEF A, B, X
    <3> QED BY <1>4, <3>1
  <2>4. C \in [A \ B -> Seq(X)]
    <3>1. <<>> \in Seq(X)
      OBVIOUS
    <3> HIDE DEF A, B, X
    <3> QED BY <3>1
  <2> HIDE DEF A, B, M, P, C, D, X
  <2>5. Recursion(A, Seq(X), B, M, P, C, D)
    BY <1>5, <2>1, <2>2, <2>3, <2>4 DEF Recursion
  <2> QED BY <2>5, RecursiveFunction
<1>7. ASSUME NEW p \in A
      PROVE  f[p] = IF p = L THEN <<>>
                    ELSE IF t[p + 1] = c THEN f[p + 1] ELSE <<U(p)>> \o f[p + len(p)]
  <2>1. CASE p = L
    <3>1. p \in A \ B
      BY <2>1
    <3>2. f[p] = C[p]
      <4> HIDE DEF B, D, P, C
      <4> QED BY <1>6, <3>1
    <3>3. C[p] = <<>>
      <4> HIDE DEF A, B
      <4> QED BY <3>1
    <3> QED BY <2>1, <3>2, <3>3
  <2>2. CASE p # L
    <3>1. p \in B /\ P[p] \in A /\ P[p] = IF t[p + 1] = c THEN p + 1 ELSE p + len(p)
      BY <1>5, <2>2
    <3>2. f[P[p]] \in Seq(X)
      <4> HIDE DEF A, B, P, X
      <4> QED BY <1>6, <3>1
    <3>3. f[p] = D[p][f[P[p]]]
      <4> HIDE DEF A, B, D, P, C
      <4> QED BY <1>6, <3>1
    <3>4. D[p] = [r \in Seq(X) |-> IF t[p + 1] = c THEN r ELSE <<U(p)>> \o r]
      <4> HIDE DEF B, X
      <4> QED BY <3>1
    <3> HIDE DEF D, P, X
    <3>5. f[p] = IF t[p + 1] = c THEN f[P[p]] ELSE <<U(p)>> \o f[P[p]]
      BY <3>2, <3>3, <3>4
    <3> QED BY <2>2, <3>1, <3>5
  <2> QED BY <2>1, <2>2
<1>8. V(f)
  <2>1. f = [p \in A |-> f[p]]
    BY <1>6
  <2> QED BY <1>7, <2>1
<1>9. V(h)
  <2> HIDE DEF V
  <2> QED BY <1>8, Zenon
<1>10. \A fails : SplitResult(t, c, h, fails)
  BY Zenon DEF ft_split, SplitResult, U, len, w
<1> HIDE DEF h
<1>11. \A p \in A : h[p] = IF p = L THEN <<>>
                           ELSE IF t[p + 1] = c THEN h[p + 1] ELSE <<U(p)>> \o h[p + len(p)]
  BY <1>9
<1> HIDE DEF V
<1>12. SplitsFrom(t, c, h)
  <2> SUFFICES ASSUME NEW p \in A
               PROVE  h[p] = IF p = Len(t) THEN <<>>
                             ELSE IF t[p + 1] = c THEN h[p + 1]
                             ELSE <<WordFrom(t, c, p)>> \o h[word_end(t, c, p)]
    BY DEF SplitsFrom
  <2>1. p # L /\ t[p + 1] # c => p + len(p) = word_end(t, c, p)
    BY <1>2 DEF w
  <2>2. U(p) = WordFrom(t, c, p)
    BY DEF U, WordFrom, len, w
  <2> HIDE DEF A
  <2> QED BY <1>11, <2>1, <2>2
<1> QED BY <1>10, <1>12

(* What holds of a place if it holds of all behind it, holds of them all.  *)
Backwards(l, T) ==
  /\ T \subseteq 0 .. l
  /\ \A p \in 0 .. l : (\A x \in p + 1 .. l : x \in T) => p \in T

LEMMA FromTheEnd ==
  ASSUME NEW l \in Nat, NEW T, Backwards(l, T)
  PROVE  T = 0 .. l
<1> DEFINE A == 0 .. l
           M == [p \in A |-> l - p]
<1>1. M \in [A -> Nat] /\ T \in SUBSET A
  BY DEF Backwards
<1>2. ASSUME NEW p \in A, \A x \in A : M[x] < M[p] => x \in T
      PROVE  p \in T
  <2>1. ASSUME NEW x \in p + 1 .. l
        PROVE  x \in T
    <3>1. x \in A /\ M[x] < M[p]
      OBVIOUS
    <3> QED BY <1>2, <3>1
  <2> QED BY <2>1 DEF Backwards
<1> HIDE DEF A, M
<1>3. T = A
  BY <1>1, <1>2, StrongInduction, SMTT(60)
<1> QED BY <1>3 DEF A

(* Where the count is outside of every field, it counts those behind.      *)
FieldsCounted(t, c, g, p) ==
  Outside(t, c, p) => \E o : Lists(o, After(t, c, p)) /\ g[p] = Len(o)

LEMMA CountStep ==
  ASSUME NEW S, NEW t \in Seq(S), NEW c, NEW g, CountsFrom(t, c, g), NEW p \in 0 .. Len(t),
         \A x \in p + 1 .. Len(t) : FieldsCounted(t, c, g, x)
  PROVE  FieldsCounted(t, c, g, p)
<1> SUFFICES ASSUME Outside(t, c, p)
             PROVE  \E o : Lists(o, After(t, c, p)) /\ g[p] = Len(o)
  BY DEF FieldsCounted
<1> DEFINE z == separator_end(t, c, p)
           w == word_end(t, c, z)
<1>1. Len(t) \in Nat /\ p \in Nat
  OBVIOUS
<1>2. g[p] = IF z = Len(t) THEN 0 ELSE 1 + g[w]
  BY Zenon DEF CountsFrom
<1>3. SkipsTo(t, c, p, z)
  BY SeparatorsSkipped
<1>4. z \in p .. Len(t) /\ z \in 0 .. Len(t) /\ Outside(t, c, z)
      /\ After(t, c, p) = After(t, c, z)
  BY <1>3 DEF SkipsTo
<1>5. z = Len(t) \/ t[z + 1] # c
  BY LoopEnds
<1> HIDE DEF z
<1>6. CASE z = Len(t)
  <2>1. After(t, c, z) = {}
    BY <1>6, SeparatorsSkipped
  <2>2. Len(<<>>) = 0
    OBVIOUS
  <2> QED BY <1>2, <1>4, <1>6, <2>1, <2>2, ListsNothing
<1>7. CASE z # Len(t)
  <2>1. WordTo(t, c, z, w)
    BY <1>4, <1>5, <1>7, WordSkipped
  <2> HIDE DEF w
  <2>2. /\ w \in z + 1 .. Len(t) /\ Outside(t, c, w)
        /\ After(t, c, z) = After(t, c, w) \cup {z + 1}
        /\ \A y \in After(t, c, w) : z + 1 < y
    BY <2>1 DEF WordTo
  <2>3. w \in p + 1 .. Len(t) /\ z + 1 \in Nat
    BY <1>1, <1>4, <2>2
  <2>4. PICK o : Lists(o, After(t, c, w)) /\ g[w] = Len(o)
    BY <2>2, <2>3 DEF FieldsCounted
  <2>5. Lists(<<z + 1>> \o o, After(t, c, p))
    BY <1>4, <2>2, <2>3, <2>4, ListsFront
  <2>6. Len(<<z + 1>> \o o) = 1 + Len(o)
    <3>1. o \in Seq(After(t, c, w))
      BY <2>4 DEF Lists
    <3> QED BY <3>1
  <2> QED BY <1>2, <1>7, <2>4, <2>5, <2>6
<1> QED BY <1>6, <1>7

LEMMA CountsFields ==
  ASSUME NEW S, NEW t \in Seq(S), NEW c, NEW g, CountsFrom(t, c, g)
  PROVE  \A p \in 0 .. Len(t) : FieldsCounted(t, c, g, p)
<1> DEFINE l == Len(t)
           T == {p \in 0 .. l : FieldsCounted(t, c, g, p)}
<1>1. l \in Nat
  OBVIOUS
<1> HIDE DEF l
<1>2. ASSUME NEW p \in 0 .. l, \A x \in p + 1 .. l : x \in T
      PROVE  p \in T
  <2>1. \A x \in p + 1 .. l : FieldsCounted(t, c, g, x)
    BY <1>2
  <2>2. FieldsCounted(t, c, g, p)
    BY <2>1, CountStep DEF l
  <2> QED BY <2>2
<1>3. T \subseteq 0 .. l
  OBVIOUS
<1> HIDE DEF T
<1>4. T = 0 .. l
  <2>1. Backwards(l, T)
    BY <1>2, <1>3 DEF Backwards
  <2> QED BY <1>1, <2>1, FromTheEnd
<1> QED BY <1>4 DEF T, l

-----------------------------------------------------------------------------
(* The fields that begin at the places of o.                               *)
FieldsOf(t, c, o) == [n \in 1 .. Len(o) |-> SubSeq(t, o[n], FieldEnd(t, c, o[n]))]

(* Where ft_split is outside of every field, it stores those behind.       *)
FieldsStored(t, c, g, p) ==
  Outside(t, c, p) => \E o : Lists(o, After(t, c, p)) /\ g[p] = FieldsOf(t, c, o)

(* The word ft_split copies is the field that begins there.                *)
LEMMA CopiesField ==
  ASSUME NEW t \in Seq(Nat \ {0}), NEW c, NEW p \in 0 .. Len(t),
         WordTo(t, c, p, word_end(t, c, p))
  PROVE  WordFrom(t, c, p) = SubSeq(t, p + 1, FieldEnd(t, c, p + 1))
<1> DEFINE w == word_end(t, c, p)
           len == w - p
           b == ft_substr(t, p, len, FALSE)
           part == Part(t, p, len)
<1>1. Len(t) \in Nat /\ p \in Nat
  OBVIOUS
<1>2. w \in p + 1 .. Len(t) /\ FieldEnd(t, c, p + 1) = w
  BY DEF WordTo
<1>3. WordFrom(t, c, p) = string_in(b)
  BY DEF WordFrom
<1> HIDE DEF w
<1>4. w \in Nat /\ len \in Nat /\ p + len = w /\ w <= Len(t)
  BY <1>1, <1>2
<1> HIDE DEF len
<1>5. /\ part \in Seq(Nat \ {0}) /\ Holds(b, Len(part) + 1, part)
  BY <1>1, <1>4, SubstrRight
<1>6. part = SubSeq(t, p + 1, Min({w, Len(t)}))
  BY <1>4 DEF Part
<1>7. Min({w, Len(t)}) = w
  BY <1>1, <1>4, MinOfTwo
<1> HIDE DEF b, part
<1>8. string_in(b) = part
  <2>1. Len(part) + 1 \in Nat
    BY <1>5
  <2> QED BY <1>5, <2>1, StringIn
<1> QED BY <1>2, <1>3, <1>6, <1>7, <1>8

(* A field in front of others.                                             *)
FrontField(t, c, x, o) ==
  FieldsOf(t, c, <<x>> \o o) = <<SubSeq(t, x, FieldEnd(t, c, x))>> \o FieldsOf(t, c, o)

LEMMA FieldsFront ==
  ASSUME NEW t, NEW c, NEW A, NEW o, Lists(o, A), NEW x
  PROVE  FrontField(t, c, x, o)
<1> DEFINE F(y) == SubSeq(t, y, FieldEnd(t, c, y))
           f == FieldsOf(t, c, o)
           l == Len(o)
           q == <<x>> \o o
           r == <<F(x)>> \o f
<1>1. l \in Nat /\ o \in Seq(A)
  BY DEF Lists
<1>2. f = [n \in 1 .. l |-> F(o[n])]
  BY DEF FieldsOf
<1>3. FieldsOf(t, c, q) = [n \in 1 .. Len(q) |-> F(q[n])]
  BY DEF FieldsOf
<1>4. Len(q) = l + 1 /\ q[1] = x /\ \A n \in 2 .. l + 1 : q[n] = o[n - 1]
  <2>1. Len(q) = l + 1 /\ q[1] = x
    BY <1>1
  <2>2. ASSUME NEW n \in 2 .. l + 1
        PROVE  q[n] = o[n - 1]
    BY <1>1
  <2> QED BY <2>1, <2>2
<1> HIDE DEF F, f
<1>5. f \in Seq({F(o[n]) : n \in 1 .. l}) /\ Len(f) = l
  <2> HIDE DEF l
  <2> QED BY <1>1, <1>2, SMTT(60)
<1> HIDE DEF l
<1>6. /\ r = [n \in 1 .. l + 1 |-> r[n]] /\ r[1] = F(x)
      /\ \A n \in 2 .. l + 1 : r[n] = f[n - 1]
  BY <1>1, <1>5
<1> HIDE DEF q, r
<1>7. \A n \in 1 .. l + 1 : F(q[n]) = r[n]
  <2> TAKE n \in 1 .. l + 1
  <2>1. CASE n = 1
    BY <1>4, <1>6, <2>1
  <2>2. CASE n # 1
    <3>1. n \in 2 .. l + 1 /\ n - 1 \in 1 .. l
      BY <1>1, <2>2
    <3> QED BY <1>2, <1>4, <1>6, <3>1
  <2> QED BY <2>1, <2>2
<1>8. FieldsOf(t, c, q) = r
  BY <1>3, <1>4, <1>6, <1>7
<1> QED BY <1>8 DEF FrontField, q, r, f, F

LEMMA SplitStep ==
  ASSUME NEW t \in Seq(Nat \ {0}), NEW c, NEW g, SplitsFrom(t, c, g), NEW p \in 0 .. Len(t),
         \A x \in p + 1 .. Len(t) : FieldsStored(t, c, g, x)
  PROVE  FieldsStored(t, c, g, p)
<1> SUFFICES ASSUME Outside(t, c, p)
             PROVE  \E o : Lists(o, After(t, c, p)) /\ g[p] = FieldsOf(t, c, o)
  BY DEF FieldsStored
<1> DEFINE w == word_end(t, c, p)
<1>1. Len(t) \in Nat /\ p \in Nat
  OBVIOUS
<1>2. g[p] = IF p = Len(t) THEN <<>>
             ELSE IF t[p + 1] = c THEN g[p + 1] ELSE <<WordFrom(t, c, p)>> \o g[w]
  BY Zenon DEF SplitsFrom
<1>3. CASE p = Len(t)
  <2>1. After(t, c, p) = {}
    BY <1>3, SeparatorsSkipped
  <2>2. FieldsOf(t, c, <<>>) = <<>>
    BY DEF FieldsOf
  <2> QED BY <1>2, <1>3, <2>1, <2>2, ListsNothing
<1>4. CASE p # Len(t) /\ t[p + 1] = c
  <2>1. SkipsTo(t, c, p, p + 1)
    BY <1>4, SeparatorsSkipped
  <2>2. After(t, c, p) = After(t, c, p + 1) /\ Outside(t, c, p + 1)
    BY <2>1 DEF SkipsTo
  <2>3. p + 1 \in p + 1 .. Len(t)
    BY <1>1, <1>4
  <2> QED BY <1>2, <1>4, <2>2, <2>3 DEF FieldsStored
<1>5. CASE p # Len(t) /\ t[p + 1] # c
  <2>1. WordTo(t, c, p, w)
    BY <1>5, WordSkipped
  <2>2. WordFrom(t, c, p) = SubSeq(t, p + 1, FieldEnd(t, c, p + 1))
    BY <2>1, CopiesField
  <2> HIDE DEF w
  <2>3. /\ w \in p + 1 .. Len(t) /\ Outside(t, c, w)
        /\ After(t, c, p) = After(t, c, w) \cup {p + 1}
        /\ \A y \in After(t, c, w) : p + 1 < y
    BY <2>1 DEF WordTo
  <2>4. PICK o : Lists(o, After(t, c, w)) /\ g[w] = FieldsOf(t, c, o)
    BY <2>3 DEF FieldsStored
  <2>5. p + 1 \in Nat
    BY <1>1
  <2>6. Lists(<<p + 1>> \o o, After(t, c, p))
    <3> DEFINE B == After(t, c, w)
               x == p + 1
    <3>1. x \in Nat /\ Lists(o, B) /\ After(t, c, p) = B \cup {x} /\ \A y \in B : x < y
      BY <2>3, <2>4, <2>5
    <3> HIDE DEF B, x
    <3>2. Lists(<<x>> \o o, B \cup {x})
      BY <3>1, ListsFront
    <3> QED BY <3>1, <3>2 DEF x
  <2>7. FrontField(t, c, p + 1, o)
    BY <2>4, FieldsFront
  <2>8. FieldsOf(t, c, <<p + 1>> \o o) = <<WordFrom(t, c, p)>> \o FieldsOf(t, c, o)
    BY <2>2, <2>7, Zenon DEF FrontField
  <2>9. g[p] = FieldsOf(t, c, <<p + 1>> \o o)
    BY <1>2, <1>5, <2>4, <2>8
  <2> QED BY <2>6, <2>9
<1> QED BY <1>3, <1>4, <1>5

LEMMA SplitsFields ==
  ASSUME NEW t \in Seq(Nat \ {0}), NEW c, NEW g, SplitsFrom(t, c, g)
  PROVE  \A p \in 0 .. Len(t) : FieldsStored(t, c, g, p)
<1> DEFINE l == Len(t)
           T == {p \in 0 .. l : FieldsStored(t, c, g, p)}
<1>1. l \in Nat
  OBVIOUS
<1> HIDE DEF l
<1>2. ASSUME NEW p \in 0 .. l, \A x \in p + 1 .. l : x \in T
      PROVE  p \in T
  <2>1. \A x \in p + 1 .. l : FieldsStored(t, c, g, x)
    BY <1>2
  <2>2. FieldsStored(t, c, g, p)
    BY <2>1, SplitStep DEF l
  <2> QED BY <2>2
<1>3. T \subseteq 0 .. l
  OBVIOUS
<1> HIDE DEF T
<1>4. T = 0 .. l
  <2>1. Backwards(l, T)
    BY <1>2, <1>3 DEF Backwards
  <2> QED BY <1>1, <2>1, FromTheEnd
<1> QED BY <1>4 DEF T, l

-----------------------------------------------------------------------------
(* What SplitsIntoFields says of one call.                                 *)
SplitRight(t, c, fails) ==
  IF 0 \in fails THEN ft_split(t, c, fails) = NULL
  ELSE /\ ft_split(t, c, fails)
            = [k \in DOMAIN Fields(t, c) |-> IF k \in fails THEN NULL ELSE Fields(t, c)[k]]
       /\ Len(ft_split(t, c, fails)) + 1 = ft_countchr(t, c) + 1

LEMMA SplitIsRight ==
  ASSUME NEW t \in Seq(Nat \ {0}), NEW c, NEW fails
  PROVE  SplitRight(t, c, fails)
<1> DEFINE A == FieldBegins(t, c)
<1>1. PICK g : CountsFrom(t, c, g) /\ g[0] = ft_countchr(t, c)
  BY CountSteps
<1>0. CASE 0 \in fails
  BY <1>0 DEF SplitRight, ft_split
<1> SUFFICES ASSUME 0 \notin fails
             PROVE  SplitRight(t, c, fails)
  BY <1>0
<1>2. PICK h : /\ SplitsFrom(t, c, h)
               /\ ft_split(t, c, fails) = [k \in DOMAIN h[0] |-> IF k \in fails THEN NULL ELSE h[0][k]]
  <2>1. PICK h : SplitsFrom(t, c, h) /\ \A y : SplitResult(t, c, h, y)
    BY SplitSteps, Zenon
  <2> QED BY <2>1 DEF SplitResult
<1>3. 0 \in 0 .. Len(t) /\ Outside(t, c, 0) /\ After(t, c, 0) = A
  <2>1. \A k \in A : k > 0
    BY BeginsAt
  <2> QED BY <2>1 DEF Outside, After
<1>4. PICK o : Lists(o, A) /\ ft_countchr(t, c) = Len(o)
  BY <1>1, <1>3, CountsFields DEF FieldsCounted
<1>5. PICK q : Lists(q, A) /\ h[0] = FieldsOf(t, c, q)
  BY <1>2, <1>3, SplitsFields DEF FieldsStored
<1>6. o = q
  <2> HIDE DEF A
  <2> QED BY <1>4, <1>5, ListsOnce
<1>7. Len(q) \in Nat
  BY <1>5 DEF Lists
<1>8. DOMAIN h[0] = 1 .. Len(q)
  BY <1>5 DEF FieldsOf
<1>9. Len(ft_split(t, c, fails)) = Len(q)
  <2>1. DOMAIN ft_split(t, c, fails) = 1 .. Len(q)
    BY <1>2, <1>8
  <2> DEFINE v == ft_split(t, c, fails)
  <2>2. v = [k \in 1 .. Len(q) |-> v[k]]
    BY <1>2, <1>8
  <2> HIDE DEF v
  <2>3. v \in Seq({v[k] : k \in 1 .. Len(q)})
    BY <1>7, <2>2
  <2>4. Len(v) = Len(q)
    BY <1>7, <2>2, <2>3
  <2> QED BY <2>4 DEF v
<1>10. h[0] = Fields(t, c)
  <2>1. h[0] = [k \in 1 .. Len(q) |-> SubSeq(t, q[k], FieldEnd(t, c, q[k]))]
    BY <1>5 DEF FieldsOf
  <2>2. OrderOf(A) = q
    <3> HIDE DEF A
    <3> QED BY <1>5, OrderLists
  <2>3. Fields(t, c) = [n \in DOMAIN OrderOf(A) |->
                          SubSeq(t, OrderOf(A)[n], FieldEnd(t, c, OrderOf(A)[n]))]
    BY Zenon DEF Fields, OrderOf, FieldEnd, FieldBegins
  <2>4. DOMAIN q = 1 .. Len(q)
    BY <1>5 DEF Lists
  <2> QED BY <2>1, <2>2, <2>3, <2>4
<1>11. Len(ft_split(t, c, fails)) + 1 = ft_countchr(t, c) + 1
  BY <1>4, <1>6, <1>9
<1> QED BY <1>2, <1>10, <1>11, Zenon DEF SplitRight

-----------------------------------------------------------------------------
(* ft_strtrim *)

Kept(t, set) == {k \in DOMAIN t : t[k] \notin ToSet(set) \/ t[k] >= 128}

KeepsByte(t, set, k) == ft_strchr(set, byte(t, k)) = NULL

(* The bytes of a string and its 0.                                        *)
LEMMA StringBytes ==
  ASSUME NEW t \in Seq(Chars), NEW k \in 0 .. Len(t)
  PROVE  /\ byte(t, k) \in 0 .. 255 /\ (byte(t, k) = 0 <=> k = Len(t))
         /\ k # Len(t) => k + 1 \in DOMAIN t /\ byte(t, k) = t[k + 1]
<1>1. Len(t) \in Nat /\ k \in Nat
  OBVIOUS
<1>2. byte(t, k) = 0 <=> k = Len(t)
  BY <1>1, ByteZero, SMTT(60)
<1>3. CASE k < Len(t)
  <2>1. k + 1 \in DOMAIN t /\ k # Len(t)
    BY <1>1, <1>3
  <2>2. t[k + 1] \in Chars
    BY <2>1
  <2>3. byte(t, k) = t[k + 1]
    BY <1>3 DEF byte
  <2>4. Chars \subseteq 0 .. 255
    BY DEF Chars
  <2>5. byte(t, k) \in 0 .. 255
    BY <2>2, <2>3, <2>4, Zenon
  <2> QED BY <1>2, <2>1, <2>3, <2>5, Zenon
<1>4. CASE k = Len(t)
  <2>1. byte(t, k) = 0
    BY <1>2, <1>4
  <2> QED BY <1>4, <2>1
<1> QED BY <1>1, <1>3, <1>4

(* ft_strchr does not find a character that stays.                         *)
LEMMA KeepsKept ==
  ASSUME NEW t \in Seq(Chars), NEW set \in Seq(Chars), NEW k \in 0 .. Len(t)
  PROVE  KeepsByte(t, set, k) <=> k + 1 \in Kept(t, set)
<1> DEFINE c == byte(t, k)
           found == {n \in 0 .. Len(set) : char(byte(set, n)) = c % 256}
<1>1. Len(t) \in Nat /\ Len(set) \in Nat /\ k \in Nat
  OBVIOUS
<1>2. /\ c \in 0 .. 255 /\ (c = 0 <=> k = Len(t))
      /\ k # Len(t) => k + 1 \in DOMAIN t /\ c = t[k + 1]
  BY StringBytes
<1> HIDE DEF c
<1>3. ft_strchr(set, c) = IF found = {} THEN NULL ELSE Min(found)
  BY Zenon DEF ft_strchr
<1>4. KeepsByte(t, set, k) <=> found = {}
  <2>1. found # {} => Min(found) \in Nat
    <3>1. found \in SUBSET Nat
      BY <1>1
    <3> HIDE DEF found
    <3>2. found # {} => Min(found) \in found
      BY <3>1, MinElement
    <3> QED BY <3>1, <3>2
  <2>2. \A y \in Nat : y # NULL
    BY LibftAssumption
  <2>3. KeepsByte(t, set, k) <=> ft_strchr(set, c) = NULL
    BY DEF KeepsByte, c
  <2> HIDE DEF found
  <2> QED BY <1>3, <2>1, <2>2, <2>3
<1>5. \A n \in 0 .. Len(set) : /\ byte(set, n) \in 0 .. 255
                               /\ byte(set, n) = 0 <=> n = Len(set)
                               /\ n # Len(set) => n + 1 \in DOMAIN set /\ byte(set, n) = set[n + 1]
  BY StringBytes
<1>6. \A b \in 0 .. 255 : char(b) = c % 256 <=> b = c /\ b < 128
  <2>1. c \in 0 .. 255
    BY <1>2
  <2>2. c % 256 = c
    BY <2>1
  <2> QED BY <2>1, <2>2 DEF char
<1>7. \A n \in 0 .. Len(set) : n \in found <=> byte(set, n) = c /\ c < 128
  <2> TAKE n \in 0 .. Len(set)
  <2> DEFINE b == byte(set, n)
  <2>1. b \in 0 .. 255
    BY <1>5
  <2>2. n \in found <=> char(b) = c % 256
    BY Zenon
  <2> HIDE DEF b, found
  <2>3. n \in found <=> b = c /\ b < 128
    BY <1>6, <2>1, <2>2
  <2> QED BY <2>3 DEF b
<1>8. CASE k = Len(t)
  <2>1. Len(set) \in found
    BY <1>1, <1>2, <1>5, <1>7, <1>8
  <2>2. k + 1 \notin Kept(t, set)
    BY <1>1, <1>8 DEF Kept
  <2> QED BY <1>4, <2>1, <2>2
<1>9. CASE k # Len(t)
  <2>1. k + 1 \in Kept(t, set) <=> c \notin ToSet(set) \/ c >= 128
    BY <1>2, <1>9 DEF Kept
  <2>2. c \in ToSet(set) <=> \E m \in DOMAIN set : set[m] = c
    BY DEF ToSet
  <2>3. ASSUME NEW m \in DOMAIN set, set[m] = c, ~(c >= 128)
        PROVE  m - 1 \in found
    <3>1. m - 1 \in 0 .. Len(set) /\ m - 1 # Len(set) /\ (m - 1) + 1 = m
      BY <1>1
    <3>2. byte(set, m - 1) = c
      BY <1>5, <2>3, <3>1
    <3>3. c < 128
      BY <1>2, <2>3
    <3> QED BY <1>7, <3>1, <3>2, <3>3
  <2>4. ASSUME NEW n \in found
        PROVE  c \in ToSet(set) /\ ~(c >= 128)
    <3>1. n \in 0 .. Len(set)
      OBVIOUS
    <3>2. byte(set, n) = c /\ c < 128
      BY <1>7, <2>4, <3>1
    <3>3. n # Len(set)
      BY <1>2, <1>5, <1>9, <3>1, <3>2
    <3>4. n + 1 \in DOMAIN set /\ set[n + 1] = c
      BY <1>5, <3>1, <3>2, <3>3
    <3>5. c \in ToSet(set)
      BY <2>2, <3>4
    <3> QED BY <1>2, <3>2, <3>5
  <2> HIDE DEF found
  <2>5. found = {} <=> c \notin ToSet(set) \/ c >= 128
    BY <2>2, <2>3, <2>4
  <2> QED BY <1>4, <2>1, <2>5
<1> QED BY <1>8, <1>9

(* The least and the greatest with another number on the far side.         *)
LEMMA MinWith ==
  ASSUME NEW A \in SUBSET Nat, NEW e \in Nat, \A a \in A : a <= e
  PROVE  Min(A \cup {e}) = IF A = {} THEN e ELSE Min(A)
<1> DEFINE B == A \cup {e}
<1>1. B \in SUBSET Nat /\ B # {}
  OBVIOUS
<1>2. A # {} => Min(A) \in A /\ \A y \in A : Min(A) <= y
  BY MinElement
<1>3. e \in B /\ \A y \in B : y = e \/ y \in A
  OBVIOUS
<1> HIDE DEF B
<1>4. Min(B) \in B /\ \A y \in B : Min(B) <= y
  BY <1>1, MinElement
<1>5. CASE A = {}
  BY <1>3, <1>4, <1>5 DEF B
<1>6. CASE A # {}
  <2>1. Min(A) \in B
    BY <1>2, <1>6 DEF B
  <2>2. Min(A) \in Nat /\ Min(B) \in Nat /\ Min(B) <= Min(A)
    BY <1>1, <1>4, <2>1
  <2>3. Min(A) <= Min(B)
    BY <1>2, <1>3, <1>4, <1>6
  <2>4. Min(B) = Min(A)
    BY <2>2, <2>3
  <2> QED BY <1>6, <2>4 DEF B
<1> QED BY <1>5, <1>6 DEF B

LEMMA MaxWith ==
  ASSUME NEW n \in Nat, NEW A \in SUBSET (0 .. n), NEW e \in Int, \A a \in A : e <= a
  PROVE  Max(A \cup {e}) = IF A = {} THEN e ELSE Max(A)
<1> DEFINE B == A \cup {e}
           v == IF A = {} THEN e ELSE Max(A)
<1>1. A # {} => Max(A) \in A /\ \A y \in A : y <= Max(A)
  BY MaxElement
<1>2. \A y \in A : y \in Int
  OBVIOUS
<1>3. v \in Int /\ v \in B /\ \A y \in B : v >= y
  <2>1. CASE A = {}
    BY <2>1
  <2>2. CASE A # {}
    <3>1. v = Max(A) /\ v \in A /\ v \in Int
      BY <1>1, <1>2, <2>2
    <3> HIDE DEF v
    <3>2. \A y \in A : y <= v
      BY <1>1, <2>2, <3>1
    <3>3. e <= v
      BY <3>1
    <3> QED BY <1>2, <3>1, <3>2, <3>3
  <2> QED BY <2>1, <2>2
<1>4. \A y \in B : y \in Int
  BY <1>2
<1>5. Max(B) = CHOOSE x \in B : \A y \in B : x >= y
  BY DEF Max
<1> HIDE DEF B, v
<1>6. Max(B) \in B /\ \A y \in B : Max(B) >= y
  BY <1>3, <1>5, Zenon
<1>7. Max(B) = v
  <2> DEFINE z == Max(B)
  <2>1. z \in B /\ z >= v
    BY <1>3, <1>6
  <2>2. v >= z
    BY <1>3, <2>1
  <2>3. z \in Int
    BY <1>4, <2>1
  <2> HIDE DEF z
  <2> QED BY <1>3, <2>1, <2>2, <2>3 DEF z
<1> QED BY <1>7 DEF B, v

-----------------------------------------------------------------------------
(* Where the two loops of ft_strtrim stop, Q what is kept.                 *)
LoopLeft(l, Q)  == Min({k \in 0 .. l \div 2 : k + 1 \in Q} \cup {l \div 2 + 1})
LoopRight(l, Q) == Max({k \in l \div 2 .. l - 1 : k + 1 \in Q} \cup {l \div 2 - 1})

(* They enclose it, and come to its ends unless the middle is in between.  *)
Encloses(l, Q, lo, hi) ==
  /\ lo \in 0 .. l /\ hi + 1 \in 0 .. l /\ lo <= hi
  /\ lo + 1 <= Min(Q) /\ Max(Q) <= hi + 1
  /\ Min(Q) \in 1 .. l /\ Max(Q) \in 1 .. l /\ Min(Q) <= Max(Q)
  /\ Min(Q) - 1 <= l \div 2 + 1 => lo + 1 = Min(Q)
  /\ Max(Q) >= l \div 2 => hi + 1 = Max(Q)

LEMMA LoopsEnclose ==
  ASSUME NEW l \in Nat, NEW Q \in SUBSET (1 .. l)
  PROVE  /\ LoopLeft(l, Q) \in Int /\ LoopRight(l, Q) \in Int
         /\ Q = {} => LoopLeft(l, Q) > LoopRight(l, Q)
         /\ Q # {} => Encloses(l, Q, LoopLeft(l, Q), LoopRight(l, Q))
<1> DEFINE h == l \div 2
           I == {k \in 0 .. h : k + 1 \in Q}
           J == {k \in h .. l - 1 : k + 1 \in Q}
           lo == LoopLeft(l, Q)
           hi == LoopRight(l, Q)
           m == Min(Q)
           x == Max(Q)
<1>1. h \in Nat /\ h <= l /\ (l # 0 => h < l)
  OBVIOUS
<1> HIDE DEF h
<1>2. lo = IF I = {} THEN h + 1 ELSE Min(I)
  <2>1. I \in SUBSET Nat /\ h + 1 \in Nat /\ \A a \in I : a <= h + 1
    BY <1>1
  <2>2. lo = Min(I \cup {h + 1})
    BY DEF LoopLeft, h
  <2> HIDE DEF I, lo
  <2> QED BY <2>1, <2>2, MinWith
<1>3. hi = IF J = {} THEN h - 1 ELSE Max(J)
  <2>1. J \in SUBSET (0 .. l) /\ h - 1 \in Int /\ \A a \in J : h - 1 <= a
    BY <1>1
  <2>2. hi = Max(J \cup {h - 1})
    BY DEF LoopRight, h
  <2> HIDE DEF J, hi
  <2> QED BY <2>1, <2>2, MaxWith
<1>4. I # {} => Min(I) \in I /\ \A a \in I : Min(I) <= a
  <2>1. I \in SUBSET Nat
    BY <1>1
  <2> HIDE DEF I
  <2> QED BY <2>1, MinElement
<1>5. J # {} => Max(J) \in J /\ \A a \in J : a <= Max(J)
  <2>1. J \in SUBSET (0 .. l)
    BY <1>1
  <2> HIDE DEF J
  <2> QED BY <2>1, MaxElement
<1> HIDE DEF lo, hi
<1>6. CASE Q = {}
  <2>1. I = {} /\ J = {}
    BY <1>6
  <2> QED BY <1>1, <1>2, <1>3, <1>6, <2>1 DEF lo, hi
<1>7. CASE Q # {}
  <2>1. m \in Q /\ x \in Q /\ \A y \in Q : m <= y /\ y <= x
    <3>1. Q \in SUBSET Nat /\ Q \in SUBSET (0 .. l)
      OBVIOUS
    <3> QED BY <1>7, <3>1, MinElement, MaxElement
  <2>2. m \in 1 .. l /\ x \in 1 .. l /\ m <= x
    BY <2>1
  <2> HIDE DEF m, x
  <2>3. lo = IF m - 1 <= h THEN m - 1 ELSE h + 1
    <3>1. CASE m - 1 <= h
      <4>1. m - 1 \in I
        BY <1>1, <2>1, <2>2, <3>1
      <4>2. Min(I) \in I /\ Min(I) <= m - 1
        BY <1>4, <4>1
      <4>3. Min(I) \in Nat /\ Min(I) + 1 \in Q
        BY <1>1, <4>2
      <4>4. m <= Min(I) + 1
        BY <2>1, <4>3
      <4> QED BY <1>2, <2>2, <3>1, <4>1, <4>2, <4>3, <4>4
    <3>2. CASE ~(m - 1 <= h)
      <4>1. ASSUME NEW k \in I
            PROVE  FALSE
        <5>1. k + 1 \in Q /\ k \in Nat /\ k <= h
          BY <1>1
        <5> QED BY <1>1, <2>1, <2>2, <3>2, <5>1
      <4> QED BY <1>2, <3>2, <4>1
    <3> QED BY <3>1, <3>2
  <2>4. hi = IF x - 1 >= h THEN x - 1 ELSE h - 1
    <3>1. CASE x - 1 >= h
      <4>1. x - 1 \in J
        BY <1>1, <2>1, <2>2, <3>1
      <4>2. Max(J) \in J /\ x - 1 <= Max(J)
        BY <1>5, <4>1
      <4>3. Max(J) \in Nat /\ Max(J) + 1 \in Q
        BY <1>1, <4>2
      <4>4. Max(J) + 1 <= x
        BY <2>1, <4>3
      <4> QED BY <1>3, <2>2, <3>1, <4>1, <4>2, <4>3, <4>4
    <3>2. CASE ~(x - 1 >= h)
      <4>1. ASSUME NEW k \in J
            PROVE  FALSE
        <5>1. k + 1 \in Q /\ k \in Nat /\ k >= h
          BY <1>1
        <5> QED BY <1>1, <2>1, <2>2, <3>2, <5>1
      <4> QED BY <1>3, <3>2, <4>1
    <3> QED BY <3>1, <3>2
  <2>5. lo \in Int /\ hi \in Int /\ Encloses(l, Q, lo, hi)
    <3>1. lo \in 0 .. l /\ hi + 1 \in 0 .. l /\ lo <= hi /\ lo \in Int /\ hi \in Int
      BY <1>1, <2>2, <2>3, <2>4
    <3>2. lo + 1 <= m /\ x <= hi + 1
      BY <1>1, <2>2, <2>3, <2>4
    <3>3. (m - 1 <= h + 1 => lo + 1 = m) /\ (x >= h => hi + 1 = x)
      BY <1>1, <2>2, <2>3, <2>4
    <3> QED BY <2>2, <3>1, <3>2, <3>3 DEF Encloses, m, x, h
  <2> QED BY <1>7, <2>5 DEF lo, hi
<1> QED BY <1>6, <1>7

(* A part of a part.                                                       *)
LEMMA PartOfPart ==
  ASSUME NEW S, NEW t \in Seq(S), NEW x \in 1 .. Len(t) + 1, NEW y \in x - 1 .. Len(t),
         NEW v \in x .. y + 1, NEW w \in v - 1 .. y
  PROVE  SubSeq(SubSeq(t, x, y), v - x + 1, w - x + 1) = SubSeq(t, v, w)
<1> DEFINE u == SubSeq(t, x, y)
           a == v - x + 1
           b == w - x + 1
           p == SubSeq(u, a, b)
           q == SubSeq(t, v, w)
           n == w - v + 1
<1>1. /\ Len(t) \in Nat /\ x \in Nat \ {0} /\ y \in Nat /\ v \in Nat \ {0} /\ w \in Nat
      /\ a \in Nat \ {0} /\ b \in Nat /\ n \in Nat /\ b <= y - x + 1 /\ y - x + 1 \in Nat
      /\ y <= Len(t) /\ w <= y /\ x <= v /\ b - a + 1 = n
  OBVIOUS
<1>2. /\ u \in Seq(S) /\ Len(u) = y - x + 1
      /\ \A k \in 1 .. y - x + 1 : u[k] = t[x + k - 1]
  <2>1. u \in Seq(S) /\ Len(u) = y - x + 1
    BY <1>1
  <2>2. ASSUME NEW k \in 1 .. y - x + 1
        PROVE  u[k] = t[x + k - 1]
    BY <1>1
  <2> QED BY <2>1, <2>2
<1>3. q \in Seq(S) /\ Len(q) = n /\ \A k \in 1 .. n : q[k] = t[v + k - 1]
  <2>1. q \in Seq(S) /\ Len(q) = n
    BY <1>1
  <2>2. ASSUME NEW k \in 1 .. n
        PROVE  q[k] = t[v + k - 1]
    BY <1>1
  <2> QED BY <2>1, <2>2
<1> HIDE DEF u, a, b, q, n
<1>4. p \in Seq(S) /\ Len(p) = n /\ \A k \in 1 .. n : p[k] = u[a + k - 1]
  BY <1>1, <1>2
<1> HIDE DEF p
<1>5. \A k \in 1 .. n : p[k] = q[k]
  <2> TAKE k \in 1 .. n
  <2>1. a + k - 1 \in 1 .. y - x + 1 /\ x + (a + k - 1) - 1 = v + k - 1
    BY <1>1 DEF a, b, n
  <2>2. u[a + k - 1] = t[v + k - 1]
    BY <1>2, <2>1
  <2> QED BY <1>3, <1>4, <2>2
<1>6. p = q
  BY <1>3, <1>4, <1>5, SameElements
<1> QED BY <1>6 DEF p, q, u, a, b

(* What TrimsToTheMiddle says of one call.                                 *)
Core(t, set) ==
  IF Kept(t, set) = {} THEN <<>> ELSE SubSeq(t, Min(Kept(t, set)), Max(Kept(t, set)))

ToMiddle(t, set) ==
  \/ Kept(t, set) = {}
  \/ /\ Min(Kept(t, set)) - 1 <= Len(t) \div 2 + 1
     /\ Max(Kept(t, set)) >= Len(t) \div 2

TrimRight(t, set, r) ==
  /\ ToMiddle(t, set) => r = Core(t, set)
  /\ \E k, n \in 0 .. Len(t) : r = SubSeq(t, k + 1, Len(t) - n)
  /\ \E k, n \in 0 .. Len(r) : Core(t, set) = SubSeq(r, k + 1, Len(r) - n)

(* An empty string, where nothing is kept.                                 *)
LEMMA TrimsAll ==
  ASSUME NEW t \in Seq(Chars), NEW set, Kept(t, set) = {}
  PROVE  TrimRight(t, set, <<>>)
<1>1. Core(t, set) = <<>>
  BY DEF Core
<1>2. Len(t) \in 0 .. Len(t) /\ 0 \in 0 .. Len(t) /\ SubSeq(t, 0 + 1, Len(t) - Len(t)) = <<>>
  OBVIOUS
<1>3. /\ 0 \in 0 .. Len(<<>>)
      /\ SubSeq(<<>>, 0 + 1, Len(<<>>) - 0) = <<>>
  <2>1. Len(<<>>) = 0
    OBVIOUS
  <2> QED BY <2>1
<1>4. \E k, n \in 0 .. Len(t) : <<>> = SubSeq(t, k + 1, Len(t) - n)
  BY <1>2
<1>5. \E k, n \in 0 .. Len(<<>>) : Core(t, set) = SubSeq(<<>>, k + 1, Len(<<>>) - n)
  BY <1>1, <1>3
<1> QED BY <1>1, <1>4, <1>5 DEF TrimRight

(* The part between the two places where the loops stop.                   *)
LEMMA TrimsEnds ==
  ASSUME NEW t \in Seq(Chars), NEW set, NEW lo, NEW hi, Kept(t, set) # {},
         Encloses(Len(t), Kept(t, set), lo, hi)
  PROVE  TrimRight(t, set, SubSeq(t, lo + 1, hi + 1))
<1> DEFINE l == Len(t)
           Q == Kept(t, set)
           m == Min(Q)
           x == Max(Q)
           r == SubSeq(t, lo + 1, hi + 1)
<1>1. /\ lo \in 0 .. l /\ hi + 1 \in 0 .. l /\ lo <= hi
      /\ lo + 1 <= m /\ x <= hi + 1 /\ m \in 1 .. l /\ x \in 1 .. l /\ m <= x
      /\ m - 1 <= l \div 2 + 1 => lo + 1 = m
      /\ x >= l \div 2 => hi + 1 = x
  BY DEF Encloses
<1>2. ToMiddle(t, set) => m - 1 <= l \div 2 + 1 /\ x >= l \div 2
  BY DEF ToMiddle
<1>3. Core(t, set) = SubSeq(t, m, x)
  BY DEF Core
<1>4. l \in Nat
  OBVIOUS
<1> HIDE DEF Q, m, x
<1>5. ToMiddle(t, set) => r = Core(t, set)
  BY <1>1, <1>2, <1>3
<1>6. \E k, n \in 0 .. l : r = SubSeq(t, k + 1, l - n)
  <2> DEFINE n == l - (hi + 1)
             e == hi + 1
  <2>1. e \in 0 .. l /\ n = l - e
    BY <1>1
  <2> HIDE DEF e, n
  <2>2. n \in 0 .. l /\ l - n = e
    BY <1>4, <2>1
  <2>3. r = SubSeq(t, lo + 1, l - n)
    BY <2>2 DEF e
  <2> QED BY <1>1, <2>2, <2>3
<1>7. \E k, n \in 0 .. Len(r) : Core(t, set) = SubSeq(r, k + 1, Len(r) - n)
  <2> DEFINE y == lo + 1
             e == hi + 1
  <2>1. /\ y \in 1 .. l + 1 /\ e \in y .. l /\ m \in y .. e /\ x \in m .. e
        /\ y \in Nat /\ e \in Nat /\ m \in Nat /\ x \in Nat
    BY <1>1, <1>4
  <2>2. r = SubSeq(t, y, e)
    OBVIOUS
  <2> HIDE DEF y, e, r, l
  <2>3. Len(r) = e - y + 1
    <3>1. Len(SubSeq(t, y, e)) = e - y + 1
      BY <2>1 DEF l
    <3> QED BY <2>2, <3>1
  <2>4. SubSeq(r, m - y + 1, x - y + 1) = SubSeq(t, m, x)
    <3>1. e \in y - 1 .. Len(t) /\ m \in y .. e + 1 /\ x \in m - 1 .. e /\ y \in 1 .. Len(t) + 1
      BY <2>1 DEF l
    <3> QED BY <2>2, <3>1, PartOfPart
  <2>5. /\ m - y \in 0 .. Len(r) /\ e - x \in 0 .. Len(r)
        /\ Len(r) - (e - x) = x - y + 1
    BY <2>1, <2>3
  <2>6. Core(t, set) = SubSeq(r, (m - y) + 1, Len(r) - (e - x))
    BY <1>3, <2>4, <2>5
  <2> QED BY <2>5, <2>6
<1>8. TrimRight(t, set, r)
  <2> HIDE DEF r
  <2> QED BY <1>5, <1>6, <1>7 DEF TrimRight
<1> QED BY <1>8

LEMMA CharsAreNonzero ==
  ASSUME NEW t \in Seq(Chars)
  PROVE  t \in Seq(Nat \ {0})
<1>1. Chars \subseteq Nat \ {0}
  BY DEF Chars
<1>2. /\ Len(t) \in Nat /\ t = [k \in 1 .. Len(t) |-> t[k]]
      /\ \A k \in 1 .. Len(t) : t[k] \in Chars
  OBVIOUS
<1>3. \A k \in 1 .. Len(t) : t[k] \in Nat \ {0}
  BY <1>1, <1>2
<1> QED BY <1>2, <1>3

LEMMA StrtrimIsRight ==
  ASSUME NEW t \in Seq(Chars), NEW set \in Seq(Chars)
  PROVE  TrimRight(t, set, string_in(ft_strtrim(t, set, FALSE)))
<1> DEFINE l == Len(t)
           Q == Kept(t, set)
           lo == LoopLeft(l, Q)
           hi == LoopRight(l, Q)
           I == {k \in 0 .. l \div 2 : k + 1 \in Q}
           J == {k \in l \div 2 .. l - 1 : k + 1 \in Q}
           IK == {k \in 0 .. l \div 2 : KeepsByte(t, set, k)}
           JK == {k \in l \div 2 .. l - 1 : KeepsByte(t, set, k)}
           b == ft_strtrim(t, set, FALSE)
<1>1. l \in Nat /\ Q \in SUBSET (1 .. l) /\ t \in Seq(Nat \ {0})
  BY CharsAreNonzero DEF Kept
<1>2. IK = I /\ JK = J
  <2>1. \A k \in 0 .. l \div 2 : k \in 0 .. l
    BY <1>1
  <2>2. \A k \in l \div 2 .. l - 1 : k \in 0 .. l
    BY <1>1
  <2>3. \A k \in 0 .. l : KeepsByte(t, set, k) <=> k + 1 \in Q
    BY KeepsKept
  <2> HIDE DEF l, Q
  <2> QED BY <2>1, <2>2, <2>3
<1>3. b = IF Min(IK \cup {l \div 2 + 1}) > Max(JK \cup {l \div 2 - 1})
          THEN ft_strdup(<<>>, FALSE)
          ELSE ft_substr(t, Min(IK \cup {l \div 2 + 1}),
                         Max(JK \cup {l \div 2 - 1}) - Min(IK \cup {l \div 2 + 1}) + 1, FALSE)
  BY Zenon DEF ft_strtrim, KeepsByte
<1>4. lo = Min(I \cup {l \div 2 + 1}) /\ hi = Max(J \cup {l \div 2 - 1})
  BY Zenon DEF LoopLeft, LoopRight
<1> HIDE DEF IK, JK, I, J, b
<1>5. b = IF lo > hi THEN ft_strdup(<<>>, FALSE) ELSE ft_substr(t, lo, hi - lo + 1, FALSE)
  <2> HIDE DEF lo, hi, l
  <2> QED BY <1>2, <1>3, <1>4
<1>6. /\ lo \in Int /\ hi \in Int
      /\ Q = {} => lo > hi
      /\ Q # {} => Encloses(l, Q, lo, hi)
  <2> HIDE DEF l, Q
  <2> QED BY <1>1, LoopsEnclose
<1> HIDE DEF lo, hi
<1>7. CASE Q = {}
  <2>1. <<>> \in Seq(Nat \ {0})
    OBVIOUS
  <2>2. string_in(ft_strdup(<<>>, FALSE)) = <<>>
    BY <2>1, StrdupRight, HoldsExactly DEF IsCopyOf
  <2>3. TrimRight(t, set, <<>>)
    BY <1>7, TrimsAll
  <2> QED BY <1>5, <1>6, <1>7, <2>2, <2>3 DEF b
<1>8. CASE Q # {}
  <2> DEFINE len == hi - lo + 1
             part == Part(t, lo, len)
  <2>1. Encloses(l, Q, lo, hi)
    BY <1>6, <1>8
  <2>2. lo \in 0 .. l /\ hi + 1 \in 0 .. l /\ lo <= hi
    BY <2>1 DEF Encloses
  <2>3. /\ lo \in Nat /\ len \in Nat /\ hi + 1 \in Nat /\ lo + len = hi + 1 /\ ~(lo > hi)
        /\ hi + 1 <= l
    BY <1>1, <1>6, <2>2
  <2>4. b = ft_substr(t, lo, len, FALSE)
    BY <1>5, <2>3
  <2> HIDE DEF len
  <2>5. part \in Seq(Nat \ {0}) /\ Holds(ft_substr(t, lo, len, FALSE), Len(part) + 1, part)
    BY <1>1, <2>2, <2>3, SubstrRight
  <2>6. part = SubSeq(t, lo + 1, hi + 1)
    <3>1. Min({hi + 1, l}) = hi + 1
      BY <1>1, <2>3, MinOfTwo
    <3> QED BY <2>3, <3>1 DEF Part
  <2> HIDE DEF part
  <2>7. string_in(b) = part
    BY <2>4, <2>5, HoldsExactly DEF IsCopyOf
  <2>8. TrimRight(t, set, SubSeq(t, lo + 1, hi + 1))
    BY <1>8, <2>1, TrimsEnds
  <2> QED BY <2>6, <2>7, <2>8 DEF b
<1> QED BY <1>7, <1>8

-----------------------------------------------------------------------------
(* The calls that return new strings *)

NewOps == {"split", "strtrim", "substr", "strdup", "strjoin", "strmapi", "striteri"}

makes == split \/ strtrim \/ substr \/ strdup \/ strjoin \/ strmapi \/ striteri

(* What AllocatesExactly says of one call.                                 *)
Allocated(op, wanted, refused, r) ==
  /\ last'.op = op /\ last'.wanted = wanted /\ last'.refused = refused /\ last'.result = r
  /\ IF refused THEN r = NULL ELSE IsCopyOf(wanted, r)

LEMMA AllocatedRight ==
  ASSUME NEW op \in {"substr", "strdup", "strjoin", "strmapi", "striteri"},
         NEW wanted, NEW refused \in BOOLEAN, NEW r, Allocated(op, wanted, refused, r)
  PROVE  NewStringsRight'
<1>1. AllocatesExactly'
  BY DEF Allocated, IsCopyOf, AllocatesExactly
<1>2. last'.op # "split" /\ last'.op # "strtrim"
  BY DEF Allocated
<1> QED BY <1>1, <1>2 DEF NewStringsRight, SplitsIntoFields, TrimsToTheMiddle

LEMMA SplitCall == split => NewStringsRight'
<1> SUFFICES ASSUME split
             PROVE  NewStringsRight'
  OBVIOUS
<1>1. PICK t \in Strings(MaxLen), c \in Bytes, fails \in SUBSET (0 .. MaxFails) :
        last' = [op |-> "split", s |-> t, c |-> c, fails |-> fails,
                 space |-> ft_countchr(t, c) + 1, result |-> ft_split(t, c, fails)]
  BY DEF split
<1>2. SplitRight(t, c, fails)
  BY StringArguments, CharsAreNonzero, SplitIsRight
<1>3. /\ last'.op = "split" /\ last'.s = t /\ last'.c = c /\ last'.fails = fails
      /\ last'.space = ft_countchr(t, c) + 1 /\ last'.result = ft_split(t, c, fails)
  BY <1>1
<1>4. SplitsIntoFields'
  BY <1>2, <1>3, Zenon DEF SplitRight, SplitsIntoFields
<1>5. last'.op # "strtrim" /\ last'.op \notin {"substr", "strdup", "strjoin", "strmapi", "striteri"}
  BY <1>3
<1> QED BY <1>4, <1>5 DEF NewStringsRight, TrimsToTheMiddle, AllocatesExactly

(* What TrimsToTheMiddle says of one call, and of a state.                 *)
Trimmed(t, set, refused, r) == IF refused THEN r = NULL ELSE TrimRight(t, set, string_in(r))

LEMMA TrimForm ==
  /\ TrimsToTheMiddle <=>
       (last.op = "strtrim" => Trimmed(last.s, last.set, last.refused, last.result))
  /\ TrimsToTheMiddle' <=>
       (last'.op = "strtrim" => Trimmed(last'.s, last'.set, last'.refused, last'.result))
BY DEF Trimmed, TrimRight, ToMiddle, Core, Kept, TrimsToTheMiddle

LEMMA TrimCall == strtrim => NewStringsRight'
<1> SUFFICES ASSUME strtrim
             PROVE  NewStringsRight'
  OBVIOUS
<1>1. PICK t \in Strings(MaxLen), set \in Strings(1), refused \in BOOLEAN :
        last' = [op |-> "strtrim", s |-> t, set |-> set, refused |-> refused,
                 result |-> ft_strtrim(t, set, refused)]
  BY DEF strtrim
<1> DEFINE r == ft_strtrim(t, set, refused)
<1>2. Trimmed(t, set, refused, r)
  <2>1. CASE refused
    <3>1. ft_strtrim(t, set, TRUE) = NULL
      BY DEF ft_strtrim, ft_strdup, ft_calloc, ft_substr
    <3> QED BY <2>1, <3>1 DEF Trimmed
  <2>2. CASE ~refused
    <3>1. TrimRight(t, set, string_in(ft_strtrim(t, set, FALSE)))
      BY StringArguments, StrtrimIsRight
    <3>2. refused = FALSE
      BY <2>2
    <3> QED BY <3>1, <3>2, Zenon DEF Trimmed
  <2> QED BY <2>1, <2>2
<1> HIDE DEF r
<1>3. /\ last'.op = "strtrim" /\ last'.s = t /\ last'.set = set /\ last'.refused = refused
      /\ last'.result = r
  BY <1>1 DEF r
<1>4. TrimsToTheMiddle'
  <2>1. Trimmed(last'.s, last'.set, last'.refused, last'.result)
    BY <1>2, <1>3, Zenon
  <2> QED BY <2>1, TrimForm
<1>5. last'.op # "split" /\ last'.op \notin {"substr", "strdup", "strjoin", "strmapi", "striteri"}
  BY <1>3
<1> QED BY <1>4, <1>5 DEF NewStringsRight, SplitsIntoFields, AllocatesExactly

(* What the callback of the strings program returns.                       *)
LEMMA CallbackGivesCharacters ==
  ASSUME NEW t \in Strings(3)
  PROVE  \A k \in 1 .. Len(t) : callback[k - 1][t[k]] \in Nat \ {0}
<1>1. PICK m \in 0 .. 3 : t \in [1 .. m -> Bytes]
  BY DEF Strings, Seqs
<1>2. Len(t) = m /\ m \in Nat /\ m <= 3
  BY <1>1
<1> TAKE k \in 1 .. Len(t)
<1> DEFINE c == t[k]
           n == k - 1
<1>3. c \in Bytes /\ n \in 0 .. 2
  BY <1>1, <1>2
<1> HIDE DEF c, n
<1>4. callback[n][c] = ((c + n) % 128) + 1
  BY <1>3 DEF callback
<1>5. c \in Nat /\ n \in Nat
  BY <1>3, CallsAssumption
<1>6. ((c + n) % 128) + 1 \in Nat \ {0}
  BY <1>5
<1> QED BY <1>4, <1>6 DEF c, n

LEMMA SubstrCall == substr => NewStringsRight'
<1> SUFFICES ASSUME substr
             PROVE  NewStringsRight'
  OBVIOUS
<1>1. PICK t \in Strings(3), start \in 0 .. 3, len \in 0 .. 4, refused \in BOOLEAN :
        /\ start <= Len(t)
        /\ last' = [op |-> "substr", wanted |-> SubSeq(t, start + 1, Min({start + len, Len(t)})),
                    refused |-> refused, result |-> ft_substr(t, start, len, refused)]
  BY DEF substr
<1> DEFINE w == Part(t, start, len)
           r == ft_substr(t, start, len, refused)
<1>2. CASE refused
  <2>1. r = NULL
    BY <1>2 DEF ft_substr
  <2>2. last'.op = "substr" /\ last'.wanted = w /\ last'.refused = refused /\ last'.result = r
    BY <1>1 DEF Part
  <2> HIDE DEF w, r
  <2> QED BY <1>2, <2>1, <2>2, AllocatedRight DEF Allocated
<1>3. CASE refused = FALSE
  <2>1. w \in Seq(Nat \ {0}) /\ Holds(r, Len(w) + 1, w)
    <3>1. t \in Seq(Nat \ {0})
      BY StringArguments, CharsAreNonzero
    <3>2. start \in 0 .. Len(t) /\ len \in Nat
      BY <1>1, <3>1
    <3>3. /\ Part(t, start, len) \in Seq(Nat \ {0})
          /\ Holds(ft_substr(t, start, len, FALSE), Len(Part(t, start, len)) + 1, Part(t, start, len))
      BY <3>1, <3>2, SubstrRight
    <3> QED BY <1>3, <3>3, Zenon
  <2>2. last'.op = "substr" /\ last'.wanted = w /\ last'.refused = refused /\ last'.result = r
    BY <1>1 DEF Part
  <2> HIDE DEF w, r
  <2>3. IsCopyOf(w, r)
    BY <2>1, HoldsExactly
  <2> QED BY <1>3, <2>2, <2>3, AllocatedRight DEF Allocated
<1> QED BY <1>2, <1>3

LEMMA StrdupCall == strdup => NewStringsRight'
<1> SUFFICES ASSUME strdup
             PROVE  NewStringsRight'
  OBVIOUS
<1>1. PICK t \in Strings(3), refused \in BOOLEAN :
        last' = [op |-> "strdup", wanted |-> t, refused |-> refused,
                 result |-> ft_strdup(t, refused)]
  BY DEF strdup
<1> DEFINE w == t
           r == ft_strdup(t, refused)
<1>2. CASE refused
  <2>1. r = NULL
    BY <1>2 DEF ft_strdup, ft_calloc
  <2>2. last'.op = "strdup" /\ last'.wanted = w /\ last'.refused = refused /\ last'.result = r
    BY <1>1
  <2> HIDE DEF w, r
  <2> QED BY <1>2, <2>1, <2>2, AllocatedRight DEF Allocated
<1>3. CASE refused = FALSE
  <2>1. w \in Seq(Nat \ {0}) /\ Holds(r, Len(w) + 1, w)
    <3>1. t \in Seq(Nat \ {0}) /\ Holds(ft_strdup(t, FALSE), Len(t) + 1, t)
      BY StringArguments, CharsAreNonzero, StrdupRight
    <3> QED BY <1>3, <3>1, Zenon
  <2>2. last'.op = "strdup" /\ last'.wanted = w /\ last'.refused = refused /\ last'.result = r
    BY <1>1
  <2> HIDE DEF w, r
  <2>3. IsCopyOf(w, r)
    BY <2>1, HoldsExactly
  <2> QED BY <1>3, <2>2, <2>3, AllocatedRight DEF Allocated
<1> QED BY <1>2, <1>3

LEMMA StrjoinCall == strjoin => NewStringsRight'
<1> SUFFICES ASSUME strjoin
             PROVE  NewStringsRight'
  OBVIOUS
<1>1. PICK t \in Strings(3), u \in Strings(3), refused \in BOOLEAN :
        last' = [op |-> "strjoin", wanted |-> t \o u, refused |-> refused,
                 result |-> ft_strjoin(t, u, refused)]
  BY DEF strjoin
<1> DEFINE w == t \o u
           r == ft_strjoin(t, u, refused)
<1>2. CASE refused
  <2>1. r = NULL
    BY <1>2 DEF ft_strjoin
  <2>2. last'.op = "strjoin" /\ last'.wanted = w /\ last'.refused = refused /\ last'.result = r
    BY <1>1
  <2> HIDE DEF w, r
  <2> QED BY <1>2, <2>1, <2>2, AllocatedRight DEF Allocated
<1>3. CASE refused = FALSE
  <2>1. w \in Seq(Nat \ {0}) /\ Holds(r, Len(w) + 1, w)
    <3>1. t \in Seq(Nat \ {0}) /\ u \in Seq(Nat \ {0})
      BY StringArguments, CharsAreNonzero
    <3>2. t \o u \in Seq(Nat \ {0}) /\ Holds(ft_strjoin(t, u, FALSE), Len(t \o u) + 1, t \o u)
      BY <3>1, StrjoinRight
    <3> QED BY <1>3, <3>2, Zenon
  <2>2. last'.op = "strjoin" /\ last'.wanted = w /\ last'.refused = refused /\ last'.result = r
    BY <1>1
  <2> HIDE DEF w, r
  <2>3. IsCopyOf(w, r)
    BY <2>1, HoldsExactly
  <2> QED BY <1>3, <2>2, <2>3, AllocatedRight DEF Allocated
<1> QED BY <1>2, <1>3

LEMMA StrmapiCall == strmapi => NewStringsRight'
<1> SUFFICES ASSUME strmapi
             PROVE  NewStringsRight'
  OBVIOUS
<1>1. PICK t \in Strings(3), refused \in BOOLEAN :
        last' = [op |-> "strmapi", wanted |-> [k \in DOMAIN t |-> callback[k - 1][t[k]]],
                 refused |-> refused, result |-> ft_strmapi(t, callback, refused)]
  BY DEF strmapi
<1> DEFINE w == Mapped(t, callback)
           r == ft_strmapi(t, callback, refused)
<1>2. CASE refused
  <2>1. r = NULL
    BY <1>2 DEF ft_strmapi
  <2>2. last'.op = "strmapi" /\ last'.wanted = w /\ last'.refused = refused /\ last'.result = r
    BY <1>1 DEF Mapped
  <2> HIDE DEF w, r
  <2> QED BY <1>2, <2>1, <2>2, AllocatedRight DEF Allocated
<1>3. CASE refused = FALSE
  <2>1. w \in Seq(Nat \ {0}) /\ Holds(r, Len(w) + 1, w)
    <3> DEFINE y == ft_strmapi(t, callback, FALSE)
    <3>1. w \in Seq(Nat \ {0}) /\ Len(w) = Len(t) /\ Holds(y, Len(t) + 1, w)
      BY StringArguments, CharsAreNonzero, CallbackGivesCharacters, StrmapiRight
    <3>2. y = r
      BY <1>3
    <3> HIDE DEF y, r, w
    <3> QED BY <3>1, <3>2
  <2>2. last'.op = "strmapi" /\ last'.wanted = w /\ last'.refused = refused /\ last'.result = r
    BY <1>1 DEF Mapped
  <2> HIDE DEF w, r
  <2>3. IsCopyOf(w, r)
    BY <2>1, HoldsExactly
  <2> QED BY <1>3, <2>2, <2>3, AllocatedRight DEF Allocated
<1> QED BY <1>2, <1>3

LEMMA StriteriCall == striteri => NewStringsRight'
<1> SUFFICES ASSUME striteri
             PROVE  NewStringsRight'
  OBVIOUS
<1>1. PICK t \in Strings(3) :
        last' = [op |-> "striteri", wanted |-> [k \in DOMAIN t |-> callback[k - 1][t[k]]],
                 refused |-> FALSE, result |-> ft_striteri(ft_strdup(t, FALSE), callback)]
  BY DEF striteri
<1> DEFINE w == Mapped(t, callback)
           b == ft_strdup(t, FALSE)
           r == ft_striteri(b, callback)
<1>2. t \in Seq(Nat \ {0}) /\ Holds(b, Len(t) + 1, t)
  BY StringArguments, CharsAreNonzero, StrdupRight
<1>3. last'.op = "striteri" /\ last'.wanted = w /\ last'.refused = FALSE /\ last'.result = r
  BY <1>1 DEF Mapped
<1> HIDE DEF b
<1>4. w \in Seq(Nat \ {0}) /\ Len(w) = Len(t)
  BY <1>2, CallbackGivesCharacters, StrmapiRight
<1>5. Holds(r, Len(t) + 1, w)
  BY <1>2, CallbackGivesCharacters, StriteriRight
<1> HIDE DEF w, r
<1>6. IsCopyOf(w, r)
  BY <1>4, <1>5, HoldsExactly
<1> QED BY <1>3, <1>6, AllocatedRight DEF Allocated

(* The other calls say nothing about new strings.                          *)
LEMMA MakesNothing ==
  ASSUME buffer_call \/ strings_call \/ proceed, ~makes
  PROVE  last'.op \notin NewOps
<1> USE DEF NewOps
<1>1. CASE buffer_call
  BY <1>1, BufferCalls DEF BufferOps
<1>2. CASE proceed
  BY <1>2 DEF proceed
<1>3. classify => last'.op = "classify"
  BY DEF classify
<1>4. itoa => last'.op = "itoa"
  BY DEF itoa
<1>5. strnstr => last'.op = "strnstr"
  BY DEF strnstr
<1>6. strncmp => last'.op = "strncmp"
  BY DEF strncmp
<1>7. memcmp => last'.op = "memcmp"
  BY DEF memcmp
<1>8. search => last'.op = "search"
  BY DEF search
<1>9. CASE strings_call
  <2>1. classify \/ itoa \/ strnstr \/ strncmp \/ memcmp \/ search
    BY <1>9, Zenon DEF strings_call, makes
  <2> QED BY <1>3, <1>4, <1>5, <1>6, <1>7, <1>8, <2>1
<1> QED BY <1>1, <1>2, <1>9

(* Over any characters, and for every string an int can count: ft_split    *)
(* returns the fields of the string, NULL in the place of each whose       *)
(* malloc is refused, in exactly the array ft_countchr asked for, or NULL  *)
(* if that is refused; ft_strtrim cuts off what it should up to the middle *)
(* and never more.  In every call the strings program makes of them, with  *)
(* a start inside the string for ft_substr, ft_substr, ft_strdup,          *)
(* ft_strjoin and ft_strmapi return NULL if their malloc is refused, and   *)
(* otherwise they and ft_striteri leave the wanted string and its 0 in     *)
(* exactly the bytes of the buffer.                                        *)
THEOREM NewStringsAreRight == Spec => []NewStringsRight
<1>1. Init => NewStringsRight
  BY DEF Init, NewStringsRight, SplitsIntoFields, TrimsToTheMiddle, AllocatesExactly
<1>2. NewStringsRight /\ [Next]_vars => NewStringsRight'
  <2> SUFFICES ASSUME NewStringsRight, [Next]_vars
               PROVE  NewStringsRight'
    OBVIOUS
  <2>1. CASE makes
    BY <2>1, SplitCall, TrimCall, SubstrCall, StrdupCall, StrjoinCall, StrmapiCall,
       StriteriCall DEF makes
  <2>2. CASE last'.op \notin NewOps
    BY <2>2 DEF NewOps, NewStringsRight, SplitsIntoFields, TrimsToTheMiddle, AllocatesExactly
  <2>3. CASE last' = last
    <3>1. SplitsIntoFields' = SplitsIntoFields
      BY <2>3, Zenon DEF SplitsIntoFields
    <3>2. TrimsToTheMiddle => TrimsToTheMiddle'
      BY <2>3, TrimForm
    <3>3. AllocatesExactly' = AllocatesExactly
      BY <2>3, Zenon DEF AllocatesExactly
    <3> QED BY <3>1, <3>2, <3>3 DEF NewStringsRight
  <2>4. makes \/ last'.op \notin NewOps \/ last' = last
    <3>1. CASE buffer_call \/ strings_call \/ proceed
      BY <3>1, MakesNothing
    <3>2. CASE UNCHANGED callVars
      BY <3>2 DEF callVars
    <3>3. buffer_call \/ strings_call \/ proceed \/ UNCHANGED callVars
      BY DEF Next, vars
    <3> QED BY <3>1, <3>2, <3>3
  <2> QED BY <2>1, <2>2, <2>3, <2>4
<1> QED BY <1>1, <1>2, PTL DEF Spec
=============================================================================
