-------------------------- MODULE LinkedListProofs --------------------------
(***************************************************************************)
(* Theorems about LinkedList.tla, for every set of nodes and of lists.     *)
(*                                                                         *)
(* Represents is not inductive by itself: that the cursor of lst_add_back  *)
(* is in the list it links to, and the new node in none, is what makes     *)
(* link safe.  ReaderSeesWhatStays needs to know where in the sequence the *)
(* reader stands.  IInv adds both.                                         *)
(***************************************************************************)
EXTENDS LinkedList, ListLemmas, FiniteSetTheorems

(* The lists are what the sequences say, without repetitions and apart.    *)
AllSpell == \A l \in List : Spells(l) /\ IsInjective(order[l])
Apart    == \A l, m \in List : l # m => Range(order[l]) \cap Range(order[m]) = {}

(* The writer's node is in no list, and its cursor is in the list it works *)
(* on.                                                                     *)
WriterInv ==
  /\ pc = "walk" => /\ lst \in List /\ new \in Node /\ ~InSomeList(new) /\ next[new] = NULL
                    /\ last \in Range(order[lst])
  /\ pc = "clear" => new \in Node /\ ~InSomeList(new)

(* Unless a node was detached, the reader has shown the first nodes of the *)
(* list and stands at the next one; when it is through, all nodes that     *)
(* were there when it began are behind it.                                 *)
ReaderInv ==
  reading # NULL /\ ~disturbed =>
    LET s == order[reading] IN
    /\ Len(shown) <= Len(s)
    /\ \A i \in 1 .. Len(shown) : shown[i] = s[i]
    /\ zone # NULL => /\ Len(shown) < Len(s) /\ zone = s[Len(shown) + 1]
                      /\ present \subseteq Range(s)
    /\ zone = NULL => present \subseteq Range(shown)

IInv == TypeOK /\ AllSpell /\ Apart /\ WriterInv /\ ReaderInv

-----------------------------------------------------------------------------
(* What a change of one list leaves to the others and to the reader.       *)

(* The nodes of a list.                                                    *)
LEMMA Members ==
  ASSUME TypeOK, NEW l \in List
  PROVE  /\ order[l] \in Seq(Node) /\ Range(order[l]) \subseteq Node
         /\ \A n : Contains(order[l], n) <=> n \in Range(order[l])
         /\ \A i \in 1 .. Len(order[l]) : order[l][i] \in Range(order[l])
<1>1. order[l] \in Seq(Node)
  BY DEF TypeOK
<1>2. /\ Range(order[l]) \subseteq Node
      /\ \A i \in 1 .. Len(order[l]) : order[l][i] \in Range(order[l])
  BY <1>1 DEF Range
<1> QED BY <1>1, <1>2, ContainsRange

(* A list none of whose pointers is written still spells its sequence.     *)
LEMMA SpellsKept ==
  ASSUME TypeOK, NEW m \in List, Spells(m), order'[m] = order[m], head'[m] = head[m],
         \A n \in Range(order[m]) : next'[n] = next[n] /\ prev'[n] = prev[n]
  PROVE  Spells(m)'
BY Members DEF Spells

(* A node that was in no list has been added to l.                         *)
LEMMA Added ==
  ASSUME TypeOK, AllSpell, Apart, ReaderInv, NEW l \in List, NEW n \in Node, ~InSomeList(n),
         order' = [order EXCEPT ![l] = Append(order[l], n)],
         Spells(l)',
         \A m \in List \ {l} : head'[m] = head[m],
         \A m \in List \ {l} : \A x \in Range(order[m]) :
           next'[x] = next[x] /\ prev'[x] = prev[x],
         UNCHANGED readerVars
  PROVE  AllSpell' /\ Apart' /\ ReaderInv' /\ order' \in [List -> Seq(Node)]
<1>1. /\ order \in [List -> Seq(Node)] /\ order[l] \in Seq(Node)
      /\ \A m \in List \ {l} : order'[m] = order[m]
      /\ order'[l] = Append(order[l], n)
  BY DEF TypeOK
<1>2. \A m \in List : n \notin Range(order[m])
  BY Members DEF InSomeList
<1>3. /\ order'[l] \in Seq(Node) /\ IsInjective(order'[l])
      /\ Range(order'[l]) = Range(order[l]) \cup {n}
  BY <1>1, <1>2, AppendRange DEF AllSpell
<1>4. AllSpell'
  BY <1>1, <1>3, SpellsKept DEF AllSpell
<1>5. Apart'
  BY <1>1, <1>2, <1>3 DEF Apart
<1>6. ReaderInv'
  <2>1. CASE reading = l
    <3>1. /\ Len(order'[l]) = Len(order[l]) + 1 /\ Len(order[l]) \in Nat
          /\ \A i \in 1 .. Len(order[l]) : order'[l][i] = order[l][i]
      BY <1>1, AppendProperties
    <3>2. Len(shown) \in Nat
      BY DEF TypeOK
    <3>3. /\ reading' = l /\ zone' = zone /\ shown' = shown /\ present' = present
          /\ disturbed' = disturbed
      BY <2>1 DEF readerVars
    <3>4. CASE disturbed \/ l = NULL
      BY <3>3, <3>4 DEF ReaderInv
    <3>5. CASE ~disturbed /\ l # NULL
      <4>1. /\ Len(shown) <= Len(order[l])
            /\ \A i \in 1 .. Len(shown) : shown[i] = order[l][i]
            /\ zone # NULL => Len(shown) < Len(order[l]) /\ zone = order[l][Len(shown) + 1]
            /\ zone # NULL => present \subseteq Range(order[l])
            /\ zone = NULL => present \subseteq Range(shown)
        BY <2>1, <3>5 DEF ReaderInv
      <4>2. /\ Len(shown) <= Len(order'[l])
            /\ \A i \in 1 .. Len(shown) : shown[i] = order'[l][i]
            /\ zone # NULL => Len(shown) < Len(order'[l]) /\ zone = order'[l][Len(shown) + 1]
        BY <3>1, <3>2, <4>1
      <4>3. zone # NULL => present \subseteq Range(order'[l])
        BY <1>3, <4>1
      <4> QED BY <3>3, <4>1, <4>2, <4>3 DEF ReaderInv
    <3> QED BY <3>4, <3>5
  <2>2. CASE reading # l
    BY <1>1, <2>2 DEF ReaderInv, readerVars, TypeOK
  <2> QED BY <2>1, <2>2
<1> QED BY <1>1, <1>3, <1>4, <1>5, <1>6

(* A node has been taken out of l.                                         *)
LEMMA Removed ==
  ASSUME TypeOK, AllSpell, Apart, ReaderInv, NEW l \in List, NEW n \in Range(order[l]),
         Detached(l, n), Spells(l)',
         \A m \in List \ {l} : head'[m] = head[m],
         \A m \in List \ {l} : \A x \in Range(order[m]) :
           next'[x] = next[x] /\ prev'[x] = prev[x]
  PROVE  AllSpell' /\ Apart' /\ ReaderInv' /\ order' \in [List -> Seq(Node)] /\ ~InSomeList(n)'
<1>1. /\ order \in [List -> Seq(Node)] /\ order[l] \in Seq(Node)
      /\ \A m \in List \ {l} : order'[m] = order[m]
      /\ order'[l] = RemoveFirst(order[l], n)
      /\ order' \in [List -> {order[m] : m \in List} \cup {order'[l]}]
  BY DEF TypeOK, Detached
<1>2. /\ order'[l] \in Seq(Node) /\ IsInjective(order'[l])
      /\ Range(order'[l]) = Range(order[l]) \ {n}
  BY <1>1, RemoveFirstRange DEF AllSpell
<1>3. AllSpell'
  BY <1>1, <1>2, SpellsKept DEF AllSpell
<1>4. Apart'
  BY <1>1, <1>2 DEF Apart
<1>5. ReaderInv'
  BY <1>1 DEF ReaderInv, Detached, TypeOK
<1>6. \A m \in List : order'[m] \in Seq(Node) /\ n \notin Range(order'[m])
  BY <1>1, <1>2 DEF Apart
<1>7. \A m \in List : ~Contains(order'[m], n)
  BY <1>6, ContainsRange
<1>8. order' \in [List -> Seq(Node)]
  BY <1>1, <1>6
<1> QED BY <1>3, <1>4, <1>5, <1>7, <1>8 DEF InSomeList

-----------------------------------------------------------------------------
(* One step of the writer or the reader.                                   *)

(* lst_add_back begins: an empty list has its first node, or the walk is   *)
(* at the head.                                                            *)
LEMMA AddBack ==
  ASSUME IInv, NEW l \in List, NEW n \in Node, add_back(l, n)
  PROVE  IInv'
<1>1. /\ pc = "idle" /\ ~InSomeList(n) /\ next' = [next EXCEPT ![n] = NULL]
      /\ UNCHANGED readerVars /\ TypeOK /\ AllSpell /\ Apart /\ ReaderInv /\ NULL \notin Node
  BY ListAssumption DEF add_back, IInv
<1>2. \A m \in List : n \notin Range(order[m]) /\ order[m] \in Seq(Node)
  BY <1>1, Members DEF InSomeList
<1>3. next' \in [Node -> Node \cup {NULL}] /\ next'[n] = NULL
  BY <1>1 DEF TypeOK
<1>4. \A m \in List : \A x \in Range(order[m]) : next'[x] = next[x]
  BY <1>1, <1>2, Members DEF TypeOK
<1>5. CASE head[l] = NULL
  <2>1. /\ prev' = [prev EXCEPT ![n] = NULL] /\ head' = [head EXCEPT ![l] = n]
        /\ order' = [order EXCEPT ![l] = Append(order[l], n)] /\ UNCHANGED writerVars
    BY <1>5 DEF add_back
  <2>2. order[l] = <<>>
    <3>1. order[l] # <<>> => head[l] = order[l][1] /\ order[l][1] \in Node
      BY <1>1, <1>2 DEF AllSpell, Spells
    <3> QED BY <1>1, <1>5, <3>1
  <2>3. order'[l] = <<n>> /\ head'[l] = n /\ next'[n] = NULL /\ prev'[n] = NULL
    BY <1>1, <2>1, <2>2 DEF TypeOK
  <2>4. Spells(l)'
    BY <2>3 DEF Spells
  <2>5. \A m \in List : \A x \in Range(order[m]) : prev'[x] = prev[x]
    BY <1>1, <1>2, <2>1, Members DEF TypeOK
  <2>6. \A m \in List \ {l} : head'[m] = head[m]
    BY <1>1, <2>1 DEF TypeOK
  <2>7. AllSpell' /\ Apart' /\ ReaderInv' /\ order' \in [List -> Seq(Node)]
    BY <1>1, <1>4, <2>1, <2>4, <2>5, <2>6, Added
  <2>8. TypeOK'
    BY <1>1, <1>3, <2>1, <2>7 DEF TypeOK, writerVars, readerVars
  <2>9. WriterInv'
    BY <1>1, <2>1 DEF WriterInv, writerVars
  <2> QED BY <2>7, <2>8, <2>9 DEF IInv
<1>6. CASE head[l] # NULL
  <2>1. /\ UNCHANGED <<head, prev, order>>
        /\ pc' = "walk" /\ lst' = l /\ new' = n /\ last' = head[l]
    BY <1>6 DEF add_back, Call
  <2>2. AllSpell' /\ Apart' /\ ReaderInv'
    <3>1. AllSpell'
      BY <1>1, <1>4, <2>1, SpellsKept DEF AllSpell
    <3> QED BY <1>1, <2>1, <3>1 DEF Apart, ReaderInv, readerVars
  <2>3. head[l] \in Range(order[l])
    <3>1. order[l] # <<>> /\ head[l] = order[l][1]
      BY <1>1, <1>6 DEF AllSpell, Spells
    <3> QED BY <1>2, <3>1 DEF Range
  <2>4. WriterInv'
    BY <1>1, <1>3, <2>1, <2>3 DEF WriterInv, InSomeList
  <2>5. TypeOK'
    BY <1>1, <1>3, <2>1 DEF TypeOK, readerVars
  <2> QED BY <2>2, <2>4, <2>5 DEF IInv
<1> QED BY <1>5, <1>6

(* The cursor stays in the list.                                           *)
LEMMA Walk ==
  ASSUME IInv, walk
  PROVE  IInv'
<1>1. /\ pc = "walk" /\ next[last] # NULL /\ last' = next[last]
      /\ UNCHANGED <<heapVars, pc, lst, new, readerVars>>
      /\ TypeOK /\ AllSpell /\ Apart /\ WriterInv /\ ReaderInv /\ lst \in List
  BY DEF walk, IInv, WriterInv
<1>2. PICK k \in 1 .. Len(order[lst]) : last = order[lst][k]
  BY <1>1 DEF WriterInv, Range
<1>3. order[lst] \in Seq(Node) /\ Spells(lst)
  BY <1>1 DEF TypeOK, AllSpell
<1>4. next[last] \in Range(order[lst])
  <2>1. k # Len(order[lst]) /\ next[last] = order[lst][k + 1]
    BY <1>1, <1>2, <1>3 DEF Spells
  <2>2. k + 1 \in 1 .. Len(order[lst])
    BY <1>3, <2>1
  <2> QED BY <2>1, <2>2 DEF Range
<1>5. next[last] \in Node
  BY <1>1, <1>4, Members
<1>6. WriterInv'
  BY <1>1, <1>4 DEF WriterInv, InSomeList, heapVars
<1>7. TypeOK'
  BY <1>1, <1>5 DEF TypeOK, heapVars, readerVars
<1>8. AllSpell'
  BY <1>1, SpellsKept DEF AllSpell, heapVars
<1>9. Apart' /\ ReaderInv'
  BY <1>1 DEF Apart, ReaderInv, heapVars, readerVars
<1> QED BY <1>6, <1>7, <1>8, <1>9 DEF IInv

(* The new node is linked behind the last one.                             *)
LEMMA Link ==
  ASSUME IInv, link
  PROVE  IInv'
<1>0. PICK l \in List, n \in Node, c \in Node :
        l = lst /\ n = new /\ c = last /\ c \in Range(order[l])
  BY Members DEF link, IInv, WriterInv
<1> DEFINE s == order[l]
           r == Append(s, n)
<1>1. /\ next[c] = NULL
      /\ next' = [next EXCEPT ![c] = n] /\ prev' = [prev EXCEPT ![n] = c]
      /\ order' = [order EXCEPT ![l] = r] /\ UNCHANGED <<head, readerVars>>
      /\ pc' = "idle" /\ lst' = NULL /\ new' = NULL /\ last' = NULL
      /\ TypeOK /\ AllSpell /\ Apart /\ ReaderInv /\ NULL \notin Node
      /\ ~InSomeList(n) /\ next[n] = NULL /\ c \in Range(s)
  BY <1>0, ListAssumption DEF link, Return, Call, IInv, WriterInv
<1>2. s \in Seq(Node) /\ Spells(l) /\ IsInjective(s)
  BY <1>1 DEF TypeOK, AllSpell
<1>3. \A m \in List : n \notin Range(order[m])
  BY <1>1, Members DEF InSomeList
<1>4. c \in Node /\ c # n
  BY <1>1, <1>3, Members
<1>5. /\ next' \in [Node -> Node \cup {NULL}] /\ prev' \in [Node -> Node \cup {NULL}]
      /\ \A x \in Node : next'[x] = IF x = c THEN n ELSE next[x]
      /\ \A x \in Node : prev'[x] = IF x = n THEN c ELSE prev[x]
  BY <1>1, <1>4 DEF TypeOK
<1>6. Spells(l)'
  <2>1. Len(s) \in Nat /\ \A i \in 1 .. Len(s) : s[i] \in Range(s) /\ s[i] \in Node
    BY <1>2 DEF Range
  <2>2. PICK k \in 1 .. Len(s) : c = s[k]
    <3>1. DOMAIN s = 1 .. Len(s) /\ c \in Range(s)
      BY <1>1, <1>2
    <3> HIDE DEF s
    <3> QED BY <3>1 DEF Range
  <2>3. k = Len(s)
    BY <1>1, <1>2, <2>1, <2>2 DEF Spells
  <2>4. \A i \in 1 .. Len(s) - 1 : s[i] # c
    BY <1>2, <2>1, <2>2, <2>3 DEF IsInjective
  <2>5. /\ r \in Seq(Node) /\ Len(r) = Len(s) + 1 /\ r[Len(s) + 1] = n
        /\ \A i \in 1 .. Len(s) : r[i] = s[i]
    BY <1>1, <1>2, AppendProperties
  <2>6. order'[l] = r /\ head'[l] = head[l]
    BY <1>1 DEF TypeOK
  <2> HIDE DEF r, s
  <2>7. head[l] = r[1] /\ r # <<>>
    <3>1. 1 \in 1 .. Len(s) /\ s # <<>> /\ r # <<>>
      BY <2>1, <2>2, <2>5
    <3>2. head[l] = s[1]
      BY <1>2, <3>1 DEF Spells, s
    <3> QED BY <2>5, <3>1, <3>2
  <2>8. ASSUME NEW i \in 1 .. Len(r)
        PROVE  /\ next'[r[i]] = IF i = Len(r) THEN NULL ELSE r[i + 1]
               /\ prev'[r[i]] = IF i = 1 THEN NULL ELSE r[i - 1]
    <3>1. CASE i = Len(r)
      BY <1>1, <1>4, <1>5, <2>1, <2>2, <2>3, <2>5, <3>1
    <3>2. CASE i # Len(r)
      <4>1. i \in 1 .. Len(s) /\ r[i] = s[i] /\ s[i] \in Node /\ s[i] # n
        BY <1>1, <1>3, <2>1, <2>5, <3>2 DEF s
      <4>2. /\ next[s[i]] = IF i = Len(s) THEN NULL ELSE s[i + 1]
            /\ prev[s[i]] = IF i = 1 THEN NULL ELSE s[i - 1]
        BY <1>2, <4>1 DEF Spells, s
      <4> QED BY <1>5, <2>1, <2>2, <2>3, <2>4, <2>5, <3>2, <4>1, <4>2
    <3> QED BY <3>1, <3>2
  <2> QED BY <2>6, <2>7, <2>8 DEF Spells
<1>7. \A m \in List \ {l} : \A x \in Range(order[m]) : next'[x] = next[x] /\ prev'[x] = prev[x]
  <2>1. ASSUME NEW m \in List \ {l}, NEW x \in Range(order[m])
        PROVE  x \in Node /\ x # c /\ x # n
    <3>1. x \in Node /\ x # n
      BY <1>1, <1>3, Members
    <3>2. Range(order[m]) \cap Range(order[l]) = {}
      BY <1>1 DEF Apart
    <3> QED BY <1>1, <3>1, <3>2
  <2> QED BY <1>5, <2>1
<1>8. AllSpell' /\ Apart' /\ ReaderInv' /\ order' \in [List -> Seq(Node)]
  BY <1>1, <1>6, <1>7, Added
<1>9. TypeOK'
  BY <1>1, <1>5, <1>8 DEF TypeOK, readerVars
<1>10. WriterInv'
  BY <1>1 DEF WriterInv
<1> QED BY <1>8, <1>9, <1>10 DEF IInv

(* A node is taken out, and its neighbours are linked to each other.       *)
LEMMA Detach ==
  ASSUME IInv, NEW l \in List, NEW n \in Node, lst_detach(l, n)
  PROVE  IInv'
<1> DEFINE s == order[l]
           r == RemoveFirst(s, n)
<1>1. /\ TypeOK /\ AllSpell /\ Apart /\ ReaderInv /\ NULL \notin Node
      /\ n \in Range(s) /\ s \in Seq(Node) /\ Spells(l) /\ IsInjective(s)
      /\ pc' = "clear" /\ lst' = l /\ new' = n /\ last' = NULL /\ Detached(l, n)
  BY Members, ListAssumption DEF lst_detach, Call, IInv, AllSpell
<1>2. PICK k \in 1 .. Len(s) : n = s[k]
  BY <1>1 DEF Range
<1>3. Len(s) \in Nat /\ \A i \in 1 .. Len(s) : s[i] \in Range(s) /\ s[i] \in Node
  BY <1>1 DEF Range
<1>4. /\ next[n] = IF k = Len(s) THEN NULL ELSE s[k + 1]
      /\ prev[n] = IF k = 1 THEN NULL ELSE s[k - 1]
      /\ next[n] # NULL <=> k # Len(s)
      /\ prev[n] # NULL <=> k # 1
  <2>1. /\ next[s[k]] = IF k = Len(s) THEN NULL ELSE s[k + 1]
        /\ prev[s[k]] = IF k = 1 THEN NULL ELSE s[k - 1]
    BY <1>1 DEF Spells
  <2>2. (k # Len(s) => s[k + 1] \in Node) /\ (k # 1 => s[k - 1] \in Node)
    BY <1>3
  <2> QED BY <1>1, <1>2, <2>1, <2>2
<1>5. /\ next' \in [Node -> Node \cup {NULL}] /\ prev' \in [Node -> Node \cup {NULL}]
      /\ head' \in [List -> Node \cup {NULL}]
      /\ head'[l] = IF k = 1 THEN next[n] ELSE head[l]
      /\ \A m \in List \ {l} : head'[m] = head[m]
      /\ \A x \in Node : next'[x] = IF k # 1 /\ x = s[k - 1] THEN next[n] ELSE next[x]
      /\ \A x \in Node : prev'[x] = IF k # Len(s) /\ x = s[k + 1] THEN prev[n] ELSE prev[x]
  <2>1. /\ next' = IF k # 1 THEN [next EXCEPT ![s[k - 1]] = next[n]] ELSE next
        /\ prev' = IF k # Len(s) THEN [prev EXCEPT ![s[k + 1]] = prev[n]] ELSE prev
        /\ head' = IF k = 1 THEN [head EXCEPT ![l] = next[n]] ELSE head
    BY <1>4 DEF lst_detach
  <2>2. /\ head \in [List -> Node \cup {NULL}] /\ next \in [Node -> Node \cup {NULL}]
        /\ prev \in [Node -> Node \cup {NULL}]
    BY <1>1 DEF TypeOK
  <2>3. (k # Len(s) => s[k + 1] \in Node) /\ (k # 1 => s[k - 1] \in Node)
    BY <1>3
  <2> HIDE DEF s
  <2> QED BY <2>1, <2>2, <2>3
<1>6. /\ r \in Seq(Node) /\ Len(r) = Len(s) - 1
      /\ \A i \in 1 .. Len(s) - 1 : r[i] = IF i < k THEN s[i] ELSE s[i + 1]
  <2>1. r = RemoveAt(s, k)
    BY <1>1, <1>2, RemoveFirstAt
  <2> QED BY <1>1, <2>1, RemoveAtElements
<1>7. order'[l] = r
  BY <1>1 DEF Detached, TypeOK
<1>8. \A i, j \in 1 .. Len(s) : s[i] = s[j] => i = j
  BY <1>1 DEF IsInjective
<1>9. \A i \in 1 .. Len(s) : /\ next[s[i]] = IF i = Len(s) THEN NULL ELSE s[i + 1]
                             /\ prev[s[i]] = IF i = 1 THEN NULL ELSE s[i - 1]
  BY <1>1 DEF Spells
<1>10. head[l] = s[1]
  BY <1>1, <1>2, <1>3 DEF Spells
<1>11. \A m \in List \ {l} : \A x \in Range(order[m]) : next'[x] = next[x] /\ prev'[x] = prev[x]
  <2>1. ASSUME NEW m \in List \ {l}, NEW x \in Range(order[m])
        PROVE  x \in Node /\ x \notin Range(s)
    <3>1. Range(order[m]) \cap Range(order[l]) = {}
      BY <1>1 DEF Apart
    <3> QED BY <1>1, <3>1, Members
  <2>2. (k # Len(s) => s[k + 1] \in Range(s)) /\ (k # 1 => s[k - 1] \in Range(s))
    BY <1>3
  <2> HIDE DEF s
  <2> QED BY <1>5, <2>1, <2>2
<1> HIDE DEF s, r
<1>12. head'[l] = IF r = <<>> THEN NULL ELSE r[1]
  <2>1. CASE Len(s) = 1
    BY <1>2, <1>4, <1>5, <1>6, <2>1
  <2>2. CASE Len(s) # 1
    <3>1. r # <<>> /\ 1 \in 1 .. Len(s) - 1
      BY <1>2, <1>3, <1>6, <2>2
    <3>2. r[1] = IF k = 1 THEN s[2] ELSE s[1]
      BY <1>2, <1>3, <1>6, <3>1
    <3> QED BY <1>2, <1>3, <1>4, <1>5, <1>10, <2>2, <3>1, <3>2
  <2> QED BY <2>1, <2>2
<1>13. ASSUME NEW i \in 1 .. Len(r)
       PROVE  /\ next'[r[i]] = IF i = Len(r) THEN NULL ELSE r[i + 1]
              /\ prev'[r[i]] = IF i = 1 THEN NULL ELSE r[i - 1]
  <2>1. CASE i < k
    <3>1. r[i] = s[i] /\ i \in 1 .. Len(s) /\ s[i] \in Node /\ i # Len(s)
      BY <1>2, <1>3, <1>6, <2>1
    <3>2. next'[s[i]] = IF i = k - 1 THEN next[n] ELSE next[s[i]]
      <4>1. k # 1 /\ k - 1 \in 1 .. Len(s)
        BY <1>3, <2>1
      <4> QED BY <1>5, <1>8, <3>1, <4>1
    <3>3. prev'[s[i]] = prev[s[i]]
      <4>1. k # Len(s) => k + 1 \in 1 .. Len(s) /\ k + 1 # i
        BY <1>3, <2>1
      <4> QED BY <1>5, <1>8, <3>1, <4>1
    <3>4. i # Len(r) => i + 1 \in 1 .. Len(s) - 1
      BY <1>3, <1>6
    <3>5. i # 1 => i - 1 \in 1 .. Len(s) - 1 /\ r[i - 1] = s[i - 1]
      BY <1>3, <1>6, <2>1
    <3>6. CASE i = k - 1
      <4>1. next'[r[i]] = IF k = Len(s) THEN NULL ELSE s[k + 1]
        BY <1>4, <3>1, <3>2, <3>6
      <4>2. i # Len(r) => r[i + 1] = s[k + 1]
        <5>1. i + 1 = k
          BY <3>6
        <5> QED BY <1>6, <3>4, <5>1
      <4>3. i = Len(r) <=> k = Len(s)
        BY <1>3, <1>6, <3>6
      <4>4. prev[s[i]] = IF i = 1 THEN NULL ELSE s[i - 1]
        BY <1>9, <3>1
      <4> QED BY <3>1, <3>3, <3>5, <4>1, <4>2, <4>3, <4>4
    <3>7. CASE i # k - 1
      <4>1. i + 1 < k /\ i # Len(r) /\ r[i + 1] = s[i + 1]
        BY <1>3, <1>6, <2>1, <3>4, <3>7
      <4> QED BY <1>9, <3>1, <3>2, <3>3, <3>5, <3>7, <4>1
    <3> QED BY <3>6, <3>7
  <2>2. CASE i >= k
    <3>1. r[i] = s[i + 1] /\ i + 1 \in 1 .. Len(s) /\ s[i + 1] \in Node
      BY <1>2, <1>3, <1>6, <2>2
    <3>2. next'[s[i + 1]] = next[s[i + 1]]
      <4>1. k # 1 => k - 1 \in 1 .. Len(s) /\ k - 1 # i + 1
        BY <1>3, <2>2
      <4> QED BY <1>5, <1>8, <3>1, <4>1
    <3>3. prev'[s[i + 1]] = IF i = k THEN prev[n] ELSE prev[s[i + 1]]
      <4>1. k # Len(s) /\ k + 1 \in 1 .. Len(s)
        BY <1>3, <1>6, <2>2
      <4> QED BY <1>5, <1>8, <3>1, <4>1
    <3>4. i # Len(r) => r[i + 1] = s[i + 2] /\ i + 1 # Len(s)
      BY <1>3, <1>6, <2>2
    <3>5. i # 1 => i - 1 \in 1 .. Len(s) - 1 /\ r[i - 1] = IF i - 1 < k THEN s[i - 1] ELSE s[i]
      BY <1>3, <1>6
    <3>6. next[s[i + 1]] = IF i = Len(r) THEN NULL ELSE r[i + 1]
      BY <1>3, <1>6, <1>9, <3>1, <3>4
    <3>7. prev'[s[i + 1]] = IF i = 1 THEN NULL ELSE r[i - 1]
      <4>1. CASE i = k
        BY <1>2, <1>3, <1>4, <3>3, <3>5, <4>1
      <4>2. CASE i # k
        <5>1. i # 1 /\ i + 1 # 1 /\ ~(i - 1 < k) /\ i + 1 - 1 = i
          BY <1>2, <1>3, <2>2, <4>2
        <5>2. prev[s[i + 1]] = s[i]
          BY <1>9, <3>1, <5>1
        <5> QED BY <3>3, <3>5, <4>2, <5>1, <5>2
      <4> QED BY <4>1, <4>2
    <3> QED BY <3>1, <3>2, <3>6, <3>7
  <2> QED BY <2>1, <2>2
<1>14. Spells(l)'
  BY <1>7, <1>12, <1>13 DEF Spells
<1>15. AllSpell' /\ Apart' /\ ReaderInv' /\ order' \in [List -> Seq(Node)] /\ ~InSomeList(n)'
  BY <1>1, <1>5, <1>11, <1>14, Removed DEF s
<1>16. TypeOK'
  BY <1>1, <1>5, <1>15 DEF TypeOK, Detached
<1>17. WriterInv'
  BY <1>1, <1>15 DEF WriterInv, InSomeList
<1> QED BY <1>15, <1>16, <1>17 DEF IInv

(* The pointers of a detached node are of no list.                         *)
LEMMA Clear ==
  ASSUME IInv, clear
  PROVE  IInv'
<1>1. /\ pc = "clear" /\ UNCHANGED <<head, order, readerVars>>
      /\ next' = [next EXCEPT ![new] = NULL] /\ prev' = [prev EXCEPT ![new] = NULL]
      /\ pc' = "idle" /\ lst' = NULL /\ new' = NULL /\ last' = NULL
      /\ TypeOK /\ AllSpell /\ Apart /\ ReaderInv /\ new \in Node /\ ~InSomeList(new)
  BY DEF clear, Return, Call, IInv, WriterInv
<1>2. \A m \in List : \A x \in Range(order[m]) : next'[x] = next[x] /\ prev'[x] = prev[x]
  <2>1. ASSUME NEW m \in List, NEW x \in Range(order[m])
        PROVE  x \in Node /\ x # new
    BY <1>1, Members DEF InSomeList
  <2> QED BY <1>1, <2>1 DEF TypeOK
<1>3. AllSpell'
  BY <1>1, <1>2, SpellsKept DEF AllSpell
<1>4. Apart' /\ ReaderInv'
  BY <1>1 DEF Apart, ReaderInv, readerVars
<1>5. TypeOK'
  BY <1>1 DEF TypeOK, readerVars
<1>6. WriterInv'
  BY <1>1 DEF WriterInv
<1> QED BY <1>3, <1>4, <1>5, <1>6 DEF IInv

(* A list has no more nodes than there are.                                *)
LEMMA ShortEnough ==
  ASSUME NEW s \in Seq(Node), IsInjective(s)
  PROVE  Len(s) <= Cardinality(Node)
<1>1. /\ IsFiniteSet(1 .. Len(s)) /\ Cardinality(1 .. Len(s)) = Len(s) /\ Len(s) \in Nat
      /\ IsFiniteSet(Node) /\ Cardinality(Node) \in Nat
  <2>1. Len(s) \in Nat /\ 1 \in Int /\ Len(s) \in Int
    OBVIOUS
  <2>2. /\ Cardinality(1 .. Len(s)) = (IF 1 > Len(s) THEN 0 ELSE Len(s) - 1 + 1)
        /\ IsFiniteSet(1 .. Len(s))
    BY <2>1, FS_Interval
  <2> QED BY <2>1, <2>2, FS_CardinalityType, ListAssumption
<1>2. s \in [1 .. Len(s) -> Node]
  OBVIOUS
<1>3. ASSUME Cardinality(Node) < Len(s)
      PROVE  FALSE
  <2>1. \E i, j \in 1 .. Len(s) : i # j /\ s[i] = s[j]
    BY <1>1, <1>2, <1>3, FS_PigeonHole
  <2> QED BY <2>1 DEF IsInjective
<1> QED BY <1>1, <1>3

(* The reader shows the node it stands at and goes on to the next.         *)
LEMMA ShowNext ==
  ASSUME IInv, show_next
  PROVE  IInv'
<1> DEFINE s == order[reading]
           j == Len(shown)
<1>1. /\ reading \in List /\ zone \in Node /\ zone' = next[zone] /\ reading # NULL
      /\ shown' = IF j <= Cardinality(Node) THEN Append(shown, zone) ELSE shown
      /\ UNCHANGED <<heapVars, writerVars, reading, present, disturbed>>
      /\ TypeOK /\ AllSpell /\ Apart /\ WriterInv /\ ReaderInv /\ NULL \notin Node
  BY ListAssumption DEF show_next, IInv, TypeOK
<1>2. /\ Append(shown, zone) \in Seq(Node) /\ j \in Nat
      /\ Len(Append(shown, zone)) = j + 1
      /\ \A i \in 1 .. j : Append(shown, zone)[i] = shown[i]
      /\ Append(shown, zone)[j + 1] = zone
  BY <1>1, AppendProperties DEF TypeOK
<1>3. TypeOK'
  BY <1>1, <1>2 DEF TypeOK, heapVars, writerVars
<1>4. AllSpell'
  BY <1>1, SpellsKept DEF AllSpell, heapVars
<1>5. Apart' /\ WriterInv'
  BY <1>1 DEF Apart, WriterInv, InSomeList, heapVars, writerVars
<1>6. ReaderInv'
  <2>1. CASE disturbed
    BY <1>1, <2>1 DEF ReaderInv
  <2>2. CASE ~disturbed
    <3>1. /\ s \in Seq(Node) /\ Spells(reading) /\ IsInjective(s) /\ Len(s) \in Nat
          /\ j < Len(s) /\ zone = s[j + 1] /\ present \subseteq Range(s)
          /\ \A i \in 1 .. j : shown[i] = s[i]
      <4>1. s \in Seq(Node) /\ Spells(reading) /\ IsInjective(s)
        BY <1>1 DEF TypeOK, AllSpell
      <4>2. zone # NULL
        BY <1>1
      <4>3. /\ j < Len(s) /\ zone = s[j + 1] /\ present \subseteq Range(s)
            /\ \A i \in 1 .. j : shown[i] = s[i]
        BY <1>1, <2>2, <4>2 DEF ReaderInv
      <4>4. Len(s) \in Nat
        BY <4>1
      <4> QED BY <4>1, <4>3, <4>4
    <3>2. j + 1 \in 1 .. Len(s) /\ j <= Cardinality(Node)
      BY <1>2, <3>1, ShortEnough, FS_CardinalityType, ListAssumption
    <3>3. next[zone] = IF j + 1 = Len(s) THEN NULL ELSE s[j + 2]
      <4>1. next[s[j + 1]] = IF j + 1 = Len(s) THEN NULL ELSE s[j + 1 + 1]
        BY <3>1, <3>2 DEF Spells
      <4> QED BY <1>2, <3>1, <4>1
    <3>4. shown' = Append(shown, zone) /\ order' = order
      BY <1>1, <3>2 DEF heapVars
    <3>5. Len(shown') = j + 1 /\ \A i \in 1 .. j + 1 : shown'[i] = s[i]
      BY <1>2, <3>1, <3>4
    <3>6. ASSUME next[zone] # NULL
          PROVE  j + 1 < Len(s) /\ next[zone] = s[j + 1 + 1]
      BY <1>2, <3>1, <3>2, <3>3, <3>6
    <3>7. ASSUME next[zone] = NULL
          PROVE  Range(s) \subseteq Range(shown')
      <4>1. j + 1 = Len(s)
        <5>1. j + 1 # Len(s) => j + 2 \in 1 .. Len(s) /\ s[j + 2] \in Node
          BY <1>2, <3>1, <3>2
        <5> QED BY <1>1, <3>3, <3>7, <5>1
      <4>2. Len(shown') = Len(s) /\ \A i \in 1 .. Len(s) : shown'[i] = s[i]
        BY <3>5, <4>1
      <4> QED BY <4>2 DEF Range
    <3>8. Len(shown') <= Len(s)
      BY <1>2, <3>1, <3>5
    <3>9. reading' = reading /\ zone' = next[zone] /\ present' = present
      BY <1>1
    <3> QED BY <3>1, <3>4, <3>5, <3>6, <3>7, <3>8, <3>9 DEF ReaderInv
  <2> QED BY <2>1, <2>2
<1> QED BY <1>3, <1>4, <1>5, <1>6 DEF IInv

(* The reader starts at the head, or returns.                              *)
LEMMA ReadHeadOrEnd ==
  ASSUME IInv, (\E l \in List : read_head(l)) \/ read_end
  PROVE  IInv'
<1>1. /\ UNCHANGED <<heapVars, writerVars>>
      /\ TypeOK /\ AllSpell /\ Apart /\ WriterInv /\ ReaderInv /\ NULL \notin Node
  BY ListAssumption DEF read_head, read_end, IInv
<1>2. AllSpell'
  BY <1>1, SpellsKept DEF AllSpell, heapVars
<1>3. Apart' /\ WriterInv'
  BY <1>1 DEF Apart, WriterInv, InSomeList, heapVars, writerVars
<1>4. CASE \E l \in List : read_head(l)
  <2>1. PICK l \in List : read_head(l)
    BY <1>4
  <2>2. /\ reading' = l /\ zone' = head[l] /\ shown' = <<>> /\ present' = Range(order[l])
        /\ disturbed' = FALSE /\ order' = order
    BY <2>1 DEF read_head, heapVars
  <2>3. order[l] \in Seq(Node) /\ Range(order[l]) \subseteq Node
    BY <1>1, Members
  <2>4. TypeOK'
    <3>1. <<>> \in Seq(Node) /\ head[l] \in Node \cup {NULL} /\ FALSE \in BOOLEAN
      BY <1>1 DEF TypeOK
    <3> QED BY <1>1, <2>2, <2>3, <3>1 DEF TypeOK, heapVars, writerVars
  <2>5. ReaderInv'
    <3>1. head[l] = IF order[l] = <<>> THEN NULL ELSE order[l][1]
      BY <1>1 DEF AllSpell, Spells
    <3>2. CASE order[l] = <<>>
      BY <1>1, <2>2, <3>1, <3>2, EmptyRange DEF ReaderInv
    <3>3. CASE order[l] # <<>>
      <4>1. Len(order[l]) > 0 /\ Len(order[l]) \in Nat /\ order[l][1] \in Node
        BY <2>3, <3>3
      <4>2. Len(<<>>) = 0 /\ 0 + 1 = 1 /\ 1 .. 0 = {}
        OBVIOUS
      <4> QED BY <1>1, <2>2, <3>1, <3>3, <4>1, <4>2 DEF ReaderInv
    <3> QED BY <3>2, <3>3
  <2> QED BY <1>2, <1>3, <2>4, <2>5 DEF IInv
<1>5. CASE read_end
  <2>1. TypeOK'
    <3>1. <<>> \in Seq(Node)
      OBVIOUS
    <3> QED BY <1>1, <1>5, <3>1 DEF read_end, TypeOK, heapVars, writerVars
  <2>2. ReaderInv'
    BY <1>5 DEF read_end, ReaderInv
  <2> QED BY <1>2, <1>3, <2>1, <2>2 DEF IInv
<1> QED BY <1>4, <1>5

-----------------------------------------------------------------------------
(* IInv holds in every state of every execution.                           *)
THEOREM Inductive == Spec => []IInv
<1>1. Init => IInv
  <2> SUFFICES ASSUME Init PROVE IInv
    OBVIOUS
  <2>1. TypeOK
    <3>1. <<>> \in Seq(Node)
      OBVIOUS
    <3> QED BY <3>1 DEF Init, TypeOK
  <2>2. AllSpell /\ Apart
    BY EmptyRange DEF Init, AllSpell, Apart, Spells
  <2>3. WriterInv /\ ReaderInv
    BY DEF Init, WriterInv, ReaderInv
  <2> QED BY <2>1, <2>2, <2>3 DEF IInv
<1>2. IInv /\ [Next]_vars => IInv'
  <2> SUFFICES ASSUME IInv, [Next]_vars PROVE IInv'
    OBVIOUS
  <2>1. CASE UNCHANGED vars
    <3>1. UNCHANGED <<heapVars, writerVars, readerVars>>
      BY <2>1 DEF vars
    <3>2. AllSpell'
      BY <3>1, SpellsKept DEF IInv, AllSpell, heapVars
    <3>3. TypeOK' /\ Apart' /\ WriterInv'
      BY <3>1 DEF IInv, TypeOK, Apart, WriterInv, InSomeList, heapVars, writerVars, readerVars
    <3>4. ReaderInv'
      BY <3>1 DEF IInv, ReaderInv, heapVars, readerVars
    <3> QED BY <3>2, <3>3, <3>4 DEF IInv
  <2> QED BY <2>1, AddBack, Walk, Link, Detach, Clear, ShowNext, ReadHeadOrEnd
          DEF Next, Writer, Reader
<1> QED BY <1>1, <1>2, PTL DEF Spec

(* The pointers of every list spell the nodes added and not removed, in    *)
(* order, and a node whose prev and next are NULL is alone in its list.    *)
THEOREM PointersSpellLists == Spec => []Represents
<1>1. ASSUME IInv
      PROVE  Represents
  <2>1. AllSpell /\ Apart /\ TypeOK /\ NULL \notin Node
    BY <1>1, ListAssumption DEF IInv
  <2>2. ASSUME NEW l \in List, NEW n \in Range(order[l])
        PROVE  (prev[n] # NULL \/ next[n] # NULL) <=> Len(order[l]) > 1
    <3> DEFINE s == order[l]
    <3>1. s \in Seq(Node) /\ \A i \in 1 .. Len(s) : s[i] \in Node
      BY <2>1 DEF TypeOK
    <3>2. PICK k \in 1 .. Len(s) : n = s[k]
      BY DEF Range
    <3>3. /\ next[n] = IF k = Len(s) THEN NULL ELSE s[k + 1]
          /\ prev[n] = IF k = 1 THEN NULL ELSE s[k - 1]
      BY <2>1, <3>2 DEF AllSpell, Spells
    <3>4. (k # Len(s) => s[k + 1] \in Node) /\ (k # 1 => s[k - 1] \in Node)
      BY <3>1
    <3>5. (next[n] # NULL <=> k # Len(s)) /\ (prev[n] # NULL <=> k # 1)
      BY <2>1, <3>3, <3>4
    <3> QED BY <3>1, <3>5
  <2>3. SoleTest
    BY <2>2 DEF SoleTest
  <2> QED BY <2>1, <2>3 DEF Represents, AllSpell, Apart
<1> QED BY <1>1, Inductive, PTL

(* A reader without a lock shows, once each and in order, all nodes that   *)
(* stay in the list, unless one is detached.                               *)
THEOREM ReaderSees == Spec => []ReaderSeesWhatStays
<1>1. ASSUME IInv
      PROVE  ReaderSeesWhatStays
  <2> SUFFICES ASSUME reading # NULL, ~disturbed
               PROVE  /\ IsPrefix(shown, order[reading])
                      /\ zone = NULL => present \subseteq Range(shown)
    BY DEF ReaderSeesWhatStays
  <2> DEFINE s == order[reading]
  <2>1. /\ s \in Seq(Node) /\ shown \in Seq(Node) /\ Len(shown) <= Len(s)
        /\ \A i \in 1 .. Len(shown) : shown[i] = s[i]
        /\ zone = NULL => present \subseteq Range(shown)
    BY <1>1 DEF IInv, TypeOK, ReaderInv
  <2> HIDE DEF s
  <2>2. SubSeq(shown, 1, Len(shown)) = SubSeq(s, 1, Len(shown))
    <3> DEFINE a == SubSeq(shown, 1, Len(shown))
               b == SubSeq(s, 1, Len(shown))
    <3>1. /\ a \in Seq(Node) /\ Len(a) = Len(shown) /\ \A i \in 1 .. Len(a) : a[i] = shown[i]
          /\ b \in Seq(Node) /\ Len(b) = Len(shown) /\ \A i \in 1 .. Len(b) : b[i] = s[i]
      BY <2>1, SubSeqProperties
    <3> HIDE DEF a, b
    <3>2. Len(a) = Len(b) /\ \A i \in 1 .. Len(a) : a[i] = b[i]
      BY <2>1, <3>1
    <3> QED BY <3>1, <3>2, SeqEqual DEF a, b
  <2> QED BY <2>1, <2>2 DEF IsPrefix, s
<1> QED BY <1>1, Inductive, PTL
=============================================================================
