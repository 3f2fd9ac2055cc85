----------------------------- MODULE LinkedList -----------------------------
(***************************************************************************)
(* The doubly linked lists of list.c and list_bonus.c, pointer by pointer, *)
(* and a reader that follows them without a lock, as show_alloc_mem does.  *)
(* lst_add_back walks to the last node and links the new one behind it,    *)
(* lst_detach unlinks a node in place.  block_add_back and block_detach    *)
(* are the same code on block_t.                                           *)
(*                                                                         *)
(* One writer works on the lists at a time; that is NoDataRace of          *)
(* MallocBonus.  A node is added only while it is in no list and detached  *)
(* only from the list it is in.  A step ends after each store the reader   *)
(* can tell from the next one: it reads head and next, never prev.  Stores *)
(* are seen in the order of the code, as on the build's machines.          *)
(*                                                                         *)
(* order is a history variable: the sequence a list stands for.  The other *)
(* modules use such sequences for the lists; Represents is what entitles   *)
(* them to.  shown, present and disturbed are the reader's history.        *)
(***************************************************************************)
EXTENDS Integers, Sequences, SequencesExt, FiniteSetsExt

CONSTANTS
  Node,     \* zones, or large blocks
  List,     \* the list heads of global_heap
  NULL

ASSUME ListAssumption == NULL \notin Node /\ NULL \notin List /\ IsFiniteSet(Node)

VARIABLES
  head,     \* List -> *head
  next,     \* Node -> node->next
  prev,     \* Node -> node->prev
  order,    \* List -> the nodes in it
  pc,       \* where lst_add_back or lst_detach is
  lst,      \* the list it works on
  new,      \* its node
  last,     \* the cursor of lst_add_back
  reading,  \* the list the reader walks, or NULL
  zone,     \* the reader's cursor
  shown,    \* the nodes it has shown, in order
  present,  \* the nodes in the list ever since it began
  disturbed \* a node has been detached from the list since

heapVars   == <<head, next, prev, order>>
writerVars == <<pc, lst, new, last>>
readerVars == <<reading, zone, shown, present, disturbed>>
vars == <<heapVars, writerVars, readerVars>>

TypeOK ==
  /\ head \in [List -> Node \cup {NULL}]
  /\ next \in [Node -> Node \cup {NULL}]
  /\ prev \in [Node -> Node \cup {NULL}]
  /\ order \in [List -> Seq(Node)]
  /\ pc \in {"idle", "walk", "clear"}
  /\ lst \in List \cup {NULL}
  /\ new \in Node \cup {NULL}
  /\ last \in Node \cup {NULL}
  /\ reading \in List \cup {NULL}
  /\ zone \in Node \cup {NULL}
  /\ shown \in Seq(Node)
  /\ present \in SUBSET Node
  /\ disturbed \in BOOLEAN

(* mmap fills a new node with zeros.                                       *)
Init ==
  /\ head = [l \in List |-> NULL]
  /\ next = [n \in Node |-> NULL]
  /\ prev = [n \in Node |-> NULL]
  /\ order = [l \in List |-> <<>>]
  /\ pc = "idle" /\ lst = NULL /\ new = NULL /\ last = NULL
  /\ reading = NULL /\ zone = NULL
  /\ shown = <<>> /\ present = {} /\ disturbed = FALSE

InSomeList(n) == \E l \in List : Contains(order[l], n)

Call(label, l, n, cursor) == pc' = label /\ lst' = l /\ new' = n /\ last' = cursor
Return == Call("idle", NULL, NULL, NULL)

-----------------------------------------------------------------------------
(* The writer *)

(* lst_add_back up to its loop.  Only to an empty list does it add here.   *)
add_back(l, n) ==
  /\ pc = "idle"
  /\ ~InSomeList(n)
  /\ next' = [next EXCEPT ![n] = NULL]
  /\ IF head[l] = NULL
     THEN /\ prev' = [prev EXCEPT ![n] = NULL]
          /\ head' = [head EXCEPT ![l] = n]
          /\ order' = [order EXCEPT ![l] = Append(@, n)]
          /\ UNCHANGED writerVars
     ELSE /\ Call("walk", l, n, head[l])
          /\ UNCHANGED <<head, prev, order>>
  /\ UNCHANGED readerVars

(* last = last->next                                                       *)
walk ==
  /\ pc = "walk"
  /\ next[last] # NULL
  /\ last' = next[last]
  /\ UNCHANGED <<heapVars, pc, lst, new, readerVars>>

(* The end of lst_add_back.                                                *)
link ==
  /\ pc = "walk"
  /\ next[last] = NULL
  /\ next' = [next EXCEPT ![last] = new]
  /\ prev' = [prev EXCEPT ![new] = last]
  /\ order' = [order EXCEPT ![lst] = Append(@, new)]
  /\ Return
  /\ UNCHANGED <<head, readerVars>>

Detached(l, n) ==
  /\ order' = [order EXCEPT ![l] = RemoveFirst(@, n)]
  /\ disturbed' = (disturbed \/ l = reading)
  /\ UNCHANGED <<reading, zone, shown, present>>

(* Mutant: the node after the detached one keeps its prev.                 *)
lst_detach_forward(l, n) ==
  /\ pc = "idle"
  /\ Contains(order[l], n)
  /\ IF prev[n] # NULL
     THEN next' = [next EXCEPT ![prev[n]] = next[n]] /\ UNCHANGED head
     ELSE head' = [head EXCEPT ![l] = next[n]] /\ UNCHANGED next
  /\ UNCHANGED prev
  /\ Call("clear", l, n, NULL)
  /\ Detached(l, n)

(* Mutant: the node before the detached one keeps its next.                *)
lst_detach_backward(l, n) ==
  /\ pc = "idle"
  /\ Contains(order[l], n)
  /\ head' = [head EXCEPT ![l] = IF prev[n] = NULL THEN next[n] ELSE @]
  /\ prev' = IF next[n] # NULL THEN [prev EXCEPT ![next[n]] = prev[n]] ELSE prev
  /\ UNCHANGED next
  /\ Call("clear", l, n, NULL)
  /\ Detached(l, n)

(* lst_detach up to the point where the node is out of its list.           *)
lst_detach(l, n) ==
  /\ pc = "idle"
  /\ Contains(order[l], n)
  /\ IF prev[n] # NULL
     THEN next' = [next EXCEPT ![prev[n]] = next[n]] /\ UNCHANGED head
     ELSE head' = [head EXCEPT ![l] = next[n]] /\ UNCHANGED next
  /\ prev' = IF next[n] # NULL THEN [prev EXCEPT ![next[n]] = prev[n]] ELSE prev
  /\ Call("clear", l, n, NULL)
  /\ Detached(l, n)

(* Its last two stores.                                                    *)
clear ==
  /\ pc = "clear"
  /\ next' = [next EXCEPT ![new] = NULL]
  /\ prev' = [prev EXCEPT ![new] = NULL]
  /\ Return
  /\ UNCHANGED <<head, order, readerVars>>

Writer ==
  \/ walk \/ link \/ clear
  \/ \E l \in List, n \in Node : add_back(l, n) \/ lst_detach(l, n)

-----------------------------------------------------------------------------
(* The reader *)

(* zone = list                                                             *)
read_head(l) ==
  /\ reading = NULL
  /\ reading' = l /\ zone' = head[l]
  /\ shown' = <<>> /\ present' = Range(order[l]) /\ disturbed' = FALSE
  /\ UNCHANGED <<heapVars, writerVars>>

(* Mutant: the loop ends at the last node instead of behind it.            *)
show_next_but_last ==
  /\ reading # NULL /\ zone # NULL
  /\ shown' = IF next[zone] = NULL THEN shown ELSE Append(shown, zone)
  /\ zone' = next[zone]
  /\ UNCHANGED <<heapVars, writerVars, reading, present, disturbed>>

(* show_zone(zone); zone = zone->next.  A reader that is led along for     *)
(* ever is not followed any longer than one node more than there are.      *)
show_next ==
  /\ reading # NULL /\ zone # NULL
  /\ shown' = IF Len(shown) <= Cardinality(Node) THEN Append(shown, zone) ELSE shown
  /\ zone' = next[zone]
  /\ UNCHANGED <<heapVars, writerVars, reading, present, disturbed>>

read_end ==
  /\ reading # NULL /\ zone = NULL
  /\ reading' = NULL
  /\ shown' = <<>> /\ present' = {} /\ disturbed' = FALSE
  /\ UNCHANGED <<heapVars, writerVars, zone>>

Reader == show_next \/ read_end \/ \E l \in List : read_head(l)

Next == Writer \/ Reader

Spec == Init /\ [][Next]_vars

(* A call, once begun, keeps running.                                      *)
FairSpec == Spec /\ WF_vars(walk \/ link \/ clear) /\ WF_vars(show_next \/ read_end)

-----------------------------------------------------------------------------
(* The pointers of list l spell order[l], forwards and backwards.          *)
Spells(l) ==
  LET s == order[l] IN
  /\ head[l] = IF s = <<>> THEN NULL ELSE s[1]
  /\ \A i \in 1 .. Len(s) :
       /\ next[s[i]] = IF i = Len(s) THEN NULL ELSE s[i + 1]
       /\ prev[s[i]] = IF i = 1 THEN NULL ELSE s[i - 1]

(* The test free uses before it reclaims a zone: a zone's prev and next    *)
(* are both NULL exactly when it is alone in its list.                     *)
SoleTest ==
  \A l \in List : \A n \in Range(order[l]) :
    (prev[n] # NULL \/ next[n] # NULL) <=> Len(order[l]) > 1

(* After any sequence of additions and removals the pointers of every list *)
(* spell the nodes added and not removed, in order, no node is in two      *)
(* places, and the test of free tells a lone node.                         *)
Represents ==
  /\ \A l \in List : Spells(l) /\ IsInjective(order[l])
  /\ \A l, m \in List : l # m => Range(order[l]) \cap Range(order[m]) = {}
  /\ SoleTest

(* A reader without a lock shows, once each and in order, all nodes that   *)
(* stay in the list, however many are added meanwhile, unless one is       *)
(* detached.  It may be led out of the list only by a detach.              *)
ReaderSeesWhatStays ==
  reading # NULL /\ ~disturbed =>
    /\ IsPrefix(shown, order[reading])
    /\ zone = NULL => present \subseteq Range(shown)

(* The loop of lst_add_back ends: the list has no cycle.                   *)
WalkEnds == (pc = "walk") ~> (pc = "idle")

(* The reader returns once the writers pause, wherever it has been led to: *)
(* no order of their stores leaves it in a cycle.                          *)
ReaderReturns == <>[][Reader]_vars => []<>(reading = NULL)
=============================================================================
