-------------------------- MODULE AbstractMalloc ---------------------------
(***************************************************************************)
(* What malloc, free and realloc promise the program that calls them:      *)
(* a pointer that is handed out is not one the program still holds, the    *)
(* bytes stored through a pointer stay there until the program frees it,   *)
(* and realloc keeps the bytes that fit in the new size.  A call that      *)
(* fails changes nothing.                                                  *)
(*                                                                         *)
(* contents[p] counts the leading bytes at p that the program has stored   *)
(* and may still rely on.                                                  *)
(***************************************************************************)
EXTENDS Integers

CONSTANTS Pointers, Requests

VARIABLES
  live,      \* the pointers the program holds
  asked,     \* Pointers -> the size it last asked for
  contents   \* Pointers -> stored bytes it may rely on

absVars == <<live, asked, contents>>

AbsInit ==
  /\ live = {}
  /\ asked = [p \in Pointers |-> 0]
  /\ contents = [p \in Pointers |-> 0]

AbsMalloc(p, n) ==
  /\ n > 0
  /\ p \notin live
  /\ live' = live \cup {p}
  /\ asked' = [asked EXCEPT ![p] = n]
  /\ contents' = [contents EXCEPT ![p] = 0]

AbsFree(p) ==
  /\ p \in live
  /\ live' = live \ {p}
  /\ asked' = [asked EXCEPT ![p] = 0]
  /\ contents' = [contents EXCEPT ![p] = 0]

(* The program stores through p as many bytes as it asked for.             *)
AbsWrite(p) ==
  /\ p \in live
  /\ contents' = [contents EXCEPT ![p] = asked[p]]
  /\ UNCHANGED <<live, asked>>

(* p is resized where it is: at least what was there and fits stays.       *)
AbsReallocInPlace(p, n) ==
  /\ p \in live
  /\ asked' = [asked EXCEPT ![p] = n]
  /\ \E c \in 0 .. n :
       /\ c >= contents[p] \/ c = n
       /\ contents' = [contents EXCEPT ![p] = c]
  /\ UNCHANGED live

(* p moves to q, and so does all that was stored at p.                     *)
AbsReallocMove(p, q, n) ==
  /\ p \in live
  /\ q \notin live
  /\ live' = (live \ {p}) \cup {q}
  /\ asked' = [asked EXCEPT ![p] = 0, ![q] = n]
  /\ \E c \in 0 .. n :
       /\ c >= contents[p]
       /\ contents' = [contents EXCEPT ![p] = 0, ![q] = c]

AbsNext ==
  \E p \in Pointers :
    \/ AbsFree(p)
    \/ AbsWrite(p)
    \/ \E n \in Requests :
         \/ AbsMalloc(p, n)
         \/ AbsReallocInPlace(p, n)
         \/ \E q \in Pointers : AbsReallocMove(p, q, n)

AbsSpec == AbsInit /\ [][AbsNext]_absVars
=============================================================================
