---------------------------- MODULE MCLinkedList ----------------------------
(* A free and a full list and four nodes.                                  *)
EXTENDS LinkedList, TLC

CONSTANTS n1, n2, n3, n4

Nodes3 == {n1, n2, n3}
Nodes4 == {n1, n2, n3, n4}
Lists  == {"free", "full"}
=============================================================================
