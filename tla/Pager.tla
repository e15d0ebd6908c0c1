------------------------------- MODULE Pager --------------------------------
(***************************************************************************)
(* A window over a list that only grows: at every moment the rows show a   *)
(* stretch of consecutive entries, from the top, with blanks only after    *)
(* the last entry.  What the talk window and the friend window of the      *)
(* client promise.  An entry is named by its position in the list.         *)
(***************************************************************************)
EXTENDS Integers

CONSTANT Height     \* number of rows

VARIABLES size,     \* entries in the list
          first,    \* position of the entry in the top row
          view      \* the rows: positions, or Blank

vars == <<size, first, view>>

Blank == -1
Rows  == 0 .. Height - 1

\* The rows when the entry at f is on top of a window over n entries.
Stretch(n, f) == [i \in Rows |-> IF f + i < n THEN f + i ELSE Blank]

Show == view' = Stretch(size', first')

Init == size = 0 /\ first = 0 /\ view = Stretch(0, 0)

\* The list arrives as a whole.
Load == size = 0 /\ size' \in Nat /\ first' = 0 /\ Show

\* A new entry: a full window moves down by one row.
Append == /\ size' = size + 1
          /\ first' = IF size < Height THEN first ELSE first + 1
          /\ Show

ScrollDown == first + Height < size /\ first' = first + 1 /\ size' = size /\ Show
ScrollUp   == first > 0 /\ first' = first - 1 /\ size' = size /\ Show

Next == Load \/ Append \/ ScrollDown \/ ScrollUp

Spec == Init /\ [][Next]_vars
=============================================================================
