----------------------------- MODULE LibftLists -----------------------------
(***************************************************************************)
(* The linked lists of src/libft and a program that uses them: it makes    *)
(* nodes, adds them at either end of its list, takes the first one out,    *)
(* clears the list, and maps it to a new list that it keeps instead.  Any  *)
(* malloc may fail, and del may be NULL.                                   *)
(*                                                                         *)
(* A content is something the program, or the f given to ft_lstmap, has    *)
(* allocated and del frees.  One address is as good as another: malloc     *)
(* gives the lowest that is free.  heap maps the address of every          *)
(* allocated node to its fields; the operators below take it as it is      *)
(* before a call and give it as it is afterwards.                          *)
(***************************************************************************)
EXTENDS Integers, Sequences, SequencesExt, FiniteSetsExt

CONSTANTS
  MaxNodes,         \* there is memory for as many nodes
  MaxContents,      \* ... and as many contents
  NONE              \* the null pointer of the lists

ASSUME ListsAssumption == {MaxNodes, MaxContents} \subseteq Nat \ {0} /\ NONE \notin Int

VARIABLES
  heap,             \* the allocated nodes
  made,             \* the allocated contents
  lst,              \* the program's list
  items,            \* the contents it should hold, in order
  loose,            \* a node the program has made and not yet added, or NONE
  mapping,          \* ft_lstmap is running
  cursor, mapped,   \* its lst and the list it is making
  images,           \* what f has returned to it, in order
  lost              \* contents that a failed ft_lstmap has left behind

mapVars  == <<mapping, cursor, mapped, images>>
listVars == <<heap, made, lst, items, loose, mapVars, lost>>

Node == DOMAIN heap
Free(used) == Min({a \in 1 .. Cardinality(used) + 1 : a \notin used})
HasRoom == Cardinality(Node) < MaxNodes

ListsInit ==
  /\ heap = <<>> /\ made = {}
  /\ lst = NONE /\ items = <<>> /\ loose = NONE
  /\ mapping = FALSE /\ cursor = NONE /\ mapped = NONE /\ images = <<>>
  /\ lost = {}

-----------------------------------------------------------------------------
(* The functions *)

(* The nodes that a loop lst = lst->next comes to.  In a list with a cycle *)
(* there would be no end to them.                                          *)
Walk(h, l) ==
  LET visited[k \in 0 .. MaxNodes] ==
        IF k = 0 THEN l ELSE IF visited[k - 1] = NONE THEN NONE ELSE h[visited[k - 1]].next
      stop == Min({k \in 0 .. MaxNodes : visited[k] = NONE} \cup {MaxNodes})
  IN  [k \in 1 .. stop |-> visited[k - 1]]

ft_lstnew(h, c) ==
  LET ret == Free(DOMAIN h) IN
  [m \in DOMAIN h \cup {ret} |-> IF m = ret THEN [content |-> c, next |-> NONE] ELSE h[m]]

ft_lstsize(h, l) == Len(Walk(h, l))

ft_lstlast(h, l) ==
  LET steps[i \in 0 .. Max({0, ft_lstsize(h, l) - 1})] ==
        IF i = 0 THEN l ELSE h[steps[i - 1]].next
  IN  steps[Max({0, ft_lstsize(h, l) - 1})]

ft_lstadd_front(h, l, new) == [h EXCEPT ![new].next = l]

(* Mutant: the new node is linked behind the first one.                    *)
ft_lstadd_back_second(h, l, new) ==
  IF l = NONE THEN h ELSE [h EXCEPT ![l].next = new]

ft_lstadd_back(h, l, new) ==
  IF l = NONE THEN h ELSE [h EXCEPT ![ft_lstlast(h, l)].next = new]

ft_lstdelone(h, l) == [m \in DOMAIN h \ {l} |-> h[m]]

(* Mutant: the loop stops at the last node.                                *)
ft_lstclear_but_last(h, l, del) ==
  IF del THEN [m \in DOMAIN h \ (Range(Walk(h, l)) \ {ft_lstlast(h, l)}) |-> h[m]] ELSE h

(* ft_lstdelone for every node; nothing when there is no del.              *)
ft_lstclear(h, l, del) ==
  IF del THEN FoldSeq(LAMBDA m, g : ft_lstdelone(g, m), h, Walk(h, l)) ELSE h

(* What f is called with.                                                  *)
ft_lstiter(h, l) == [k \in DOMAIN Walk(h, l) |-> h[Walk(h, l)[k]].content]

-----------------------------------------------------------------------------
(* The program *)

new_node ==
  /\ ~mapping /\ loose = NONE
  /\ Cardinality(made) < MaxContents
  /\ \/ /\ HasRoom
        /\ heap' = ft_lstnew(heap, Free(made))
        /\ made' = made \cup {Free(made)}
        /\ loose' = Free(Node)
     \/ UNCHANGED <<heap, made, loose>>   \* refused: the program frees the content
  /\ UNCHANGED <<lst, items, mapVars, lost>>

add_front ==
  /\ ~mapping /\ loose # NONE
  /\ heap' = ft_lstadd_front(heap, lst, loose)
  /\ lst' = loose
  /\ items' = <<heap[loose].content>> \o items
  /\ loose' = NONE
  /\ UNCHANGED <<made, mapVars, lost>>

add_back ==
  /\ ~mapping /\ loose # NONE
  /\ heap' = ft_lstadd_back(heap, lst, loose)
  /\ lst' = IF lst = NONE THEN loose ELSE lst
  /\ items' = Append(items, heap[loose].content)
  /\ loose' = NONE
  /\ UNCHANGED <<made, mapVars, lost>>

(* The program takes the first node out and gives it to ft_lstdelone.      *)
delete_first ==
  /\ ~mapping /\ lst # NONE
  /\ heap' = ft_lstdelone(heap, lst)
  /\ made' = made \ {heap[lst].content}
  /\ lst' = heap[lst].next
  /\ items' = Tail(items)
  /\ UNCHANGED <<loose, mapVars, lost>>

(* ft_lstclear(&lst, del), which with del = NULL leaves lst as it is.      *)
clear_list(del) ==
  /\ ~mapping
  /\ heap' = ft_lstclear(heap, lst, del)
  /\ IF del
     THEN made' = made \ Range(ft_lstiter(heap, lst)) /\ lst' = NONE /\ items' = <<>>
     ELSE UNCHANGED <<made, lst, items>>
  /\ UNCHANGED <<loose, mapVars, lost>>

(* Called only when f will find memory for every content.                  *)
ft_lstmap ==
  /\ ~mapping
  /\ Cardinality(made) + Len(items) <= MaxContents
  /\ mapping' = TRUE
  /\ cursor' = lst /\ mapped' = NONE /\ images' = <<>>
  /\ UNCHANGED <<heap, made, lst, items, loose, lost>>

map_node ==
  /\ mapping /\ cursor # NONE
  /\ HasRoom
  /\ LET new == Free(Node) IN
     /\ heap' = ft_lstadd_back(ft_lstnew(heap, Free(made)), mapped, new)
     /\ mapped' = IF mapped = NONE THEN new ELSE mapped
  /\ made' = made \cup {Free(made)}
  /\ images' = Append(images, Free(made))
  /\ cursor' = heap[cursor].next
  /\ UNCHANGED <<lst, items, loose, mapping, lost>>

EndMap ==
  /\ mapping' = FALSE
  /\ cursor' = NONE /\ mapped' = NONE /\ images' = <<>>

(* ft_lstnew is refused its memory after f has made a content: the list    *)
(* made so far is cleared, the content is forgotten.                       *)
map_fails(del) ==
  /\ mapping /\ cursor # NONE
  /\ heap' = ft_lstclear(heap, mapped, del)
  /\ LET deleted == IF del THEN Range(ft_lstiter(heap, mapped)) ELSE {}
     IN  /\ made' = (made \ deleted) \cup {Free(made)}
         /\ lost' = lost \cup (Range(images) \ deleted) \cup {Free(made)}
  /\ EndMap
  /\ UNCHANGED <<lst, items, loose>>

(* The program clears its list and keeps the new one.                      *)
map_returns ==
  /\ mapping /\ cursor = NONE
  /\ heap' = ft_lstclear(heap, lst, TRUE)
  /\ made' = made \ Range(ft_lstiter(heap, lst))
  /\ lst' = mapped /\ items' = images
  /\ EndMap
  /\ UNCHANGED <<loose, lost>>

ListsNext ==
  \/ new_node \/ add_front \/ add_back \/ delete_first
  \/ ft_lstmap \/ map_node \/ map_returns
  \/ \E del \in BOOLEAN : clear_list(del) \/ map_fails(del)

-----------------------------------------------------------------------------
(* ft_lstiter visits exactly the contents that were added and not removed, *)
(* in the order of the additions at both ends, ft_lstsize counts them, and *)
(* ft_lstmap makes a list of what f returned, in the order of its calls.   *)
ListsInOrder ==
  /\ ft_lstiter(heap, lst) = items /\ ft_lstsize(heap, lst) = Len(items)
  /\ mapping => ft_lstiter(heap, mapped) = images

(* Every content is freed once and no sooner than its node: those that are *)
(* allocated are in one node each of the lists the program or ft_lstmap    *)
(* can reach, except what failed calls of ft_lstmap lost, the last image   *)
(* always and the others when there was no del.                            *)
ContentsAccounted ==
  LET reachable == Range(Walk(heap, lst)) \cup Range(Walk(heap, mapped)) \cup ({loose} \ {NONE})
      holding   == {heap[m].content : m \in reachable}
  IN  /\ made = holding \cup lost
      /\ holding \cap lost = {}
      /\ Cardinality(holding) = Cardinality(reachable)
      /\ \A m \in Node \ reachable : heap[m].content \in lost
=============================================================================
