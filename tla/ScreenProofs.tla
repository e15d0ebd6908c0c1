----------------------------- MODULE ScreenProofs -----------------------------
(***************************************************************************)
(* Proofs about the talk window, for any number of rows and messages, and  *)
(* then about the screen that it is part of, whatever is typed, answered   *)
(* and told, and in which order.                                           *)
(*                                                                         *)
(* The rows of the terminal are described relative to the frame: Stands    *)
(* says of a terminal how far below a row the cursor is and down to where  *)
(* something is written, and there is one lemma on it for each thing that  *)
(* is printed.  The step of an action is the sequence of its lemmas.       *)
(***************************************************************************)
EXTENDS Screen, TLAPS

(* The talk window. *)

\* How far the positions may be apart: after reopening `down' is one behind.
SpanInv == /\ up <= down /\ down <= size
           /\ size <= Height => up = 0 /\ size - 1 <= down
           /\ size >= Height => Height - 1 <= down - up
           /\ down - up <= Height

\* Every row is at its place, or one message early.
PlaceInv == \A i \in Rows :
    /\ rows[i] \in {Blank, up + i - 1, up + i}
    /\ rows[i] < size

\* Before any reopening the window is full, or shows everything.
FirstInv == ~reopened => /\ down = IF size < Height THEN size ELSE up + Height
                         /\ \A i \in Rows : rows[i] = IF i < down - up THEN up + i ELSE Blank

IInv == TypeOK /\ SpanInv /\ PlaceInv /\ FirstInv /\ EndShowsNewest
-----------------------------------------------------------------------------
LEMMA InvInit == Init => IInv
<1> SUFFICES ASSUME Init PROVE IInv
  OBVIOUS
<1> USE Space DEF Rows, Blank
<1>1. /\ size = 0 /\ up = 0 /\ down = 0 /\ open = FALSE /\ reopened = FALSE
      /\ rows \in [Rows -> Nat \cup {Blank}] /\ \A i \in Rows : rows[i] = Blank
  BY DEF Init
<1>2. TypeOK /\ SpanInv /\ PlaceInv /\ EndShowsNewest
  <2>1. TypeOK
    BY <1>1 DEF TypeOK
  <2>2. SpanInv /\ PlaceInv /\ EndShowsNewest
    BY <1>1 DEF SpanInv, PlaceInv, EndShowsNewest
  <2>3. QED BY <2>1, <2>2
<1>3. FirstInv
  <2>1. down = IF size < Height THEN size ELSE up + Height
    BY <1>1
  <2>2. ASSUME NEW i \in Rows PROVE rows[i] = IF i < down - up THEN up + i ELSE Blank
    <3>1. i >= 0 /\ rows[i] = Blank /\ down - up = 0
      BY <1>1
    <3>2. QED BY <3>1
  <2>3. QED BY <2>1, <2>2 DEF FirstInv
<1>4. QED BY <1>1, <1>2, <1>3 DEF IInv

\* Sliding a full window by one message keeps every row in its place.
LEMMA SlideStep ==
    ASSUME IInv, NEW n \in Nat, n > Height, n = size \/ n = size + 1, down < n, Slide(n),
           size' = n, reopened' = reopened, open' \in BOOLEAN
    PROVE  IInv'
<1> USE Space DEF IInv, TypeOK, Rows, Blank
<1>1. /\ down' = down + 1 /\ up' = up + 1
      /\ rows' = [i \in Rows |-> IF i < Height - 1 THEN rows[i + 1] ELSE down]
  BY DEF Slide
<1>2. size >= Height /\ Height - 1 <= down - up /\ down - up <= Height
  BY DEF SpanInv
<1>3. TypeOK'
  BY <1>1
<1>4. SpanInv'
  BY <1>1, <1>2 DEF SpanInv
<1>5. PlaceInv'
  <2> SUFFICES ASSUME NEW i \in Rows
               PROVE  rows'[i] \in {Blank, up' + i - 1, up' + i} /\ rows'[i] < size'
    BY DEF PlaceInv
  <2>1. CASE i < Height - 1
    <3>1. i + 1 \in Rows /\ rows'[i] = rows[i + 1]
      BY <1>1, <2>1
    <3>2. rows[i + 1] \in {Blank, up + (i + 1) - 1, up + (i + 1)} /\ rows[i + 1] < size
      BY <3>1 DEF PlaceInv
    <3>3. QED BY <1>1, <3>1, <3>2
  <2>2. CASE i = Height - 1
    BY <1>1, <1>2, <2>2
  <2>3. QED BY <2>1, <2>2
<1>6. FirstInv'
  <2> SUFFICES ASSUME ~reopened
               PROVE  /\ down' = up' + Height
                      /\ \A i \in Rows : rows'[i] = IF i < down' - up' THEN up' + i ELSE Blank
    BY <1>1 DEF FirstInv
  <2>1. down = up + Height /\ \A i \in Rows : rows[i] = up + i
    BY <1>2 DEF FirstInv
  <2>2. \A i \in Rows : rows'[i] = up' + i
    BY <1>1, <2>1
  <2>3. QED BY <1>1, <2>1, <2>2
<1>7. EndShowsNewest'
  <2>1. Height - 1 \in Rows /\ rows'[Height - 1] = down /\ ~(size' < Height)
    BY <1>1
  <2>2. QED BY <1>1, <2>1 DEF EndShowsNewest
<1>8. QED BY <1>3, <1>4, <1>5, <1>6, <1>7

LEMMA OpenStep == IInv /\ Open => IInv'
<1> SUFFICES ASSUME IInv, Open PROVE IInv'
  OBVIOUS
<1> USE Space DEF IInv, TypeOK, Rows, Blank
<1> DEFINE length == IF size < Height THEN size ELSE Height
<1>1. /\ size' = size /\ open' = TRUE /\ reopened' = (reopened \/ size > 0)
      /\ rows' = [i \in Rows |-> IF i < length THEN size - length + i ELSE rows[i]]
      /\ up' = size - length /\ down' = IF size = 0 THEN 0 ELSE size - 1
  BY DEF Open
<1>2. length \in Nat /\ length <= size /\ length <= Height
      /\ (length < Height => length = size)
  OBVIOUS
<1>3. SpanInv'
  BY <1>1 DEF SpanInv
<1>4. \A i \in Rows : i >= length => up = 0 /\ up' = 0
  BY <1>1, <1>2 DEF SpanInv
<1>5. PlaceInv' /\ TypeOK'
  BY <1>1, <1>2, <1>4 DEF PlaceInv
<1>6. FirstInv'
  <2> SUFFICES ASSUME ~reopened'
               PROVE  /\ down' = IF size' < Height THEN size' ELSE up' + Height
                      /\ \A i \in Rows : rows'[i] = IF i < down' - up' THEN up' + i ELSE Blank
    BY DEF FirstInv
  <2>1. size = 0 /\ ~reopened /\ down = 0 /\ up = 0 /\ down' = 0 /\ up' = 0
    <3>1. ~reopened /\ ~(size > 0)
      BY <1>1
    <3>2. QED BY <1>1, <3>1 DEF SpanInv
  <2>2. \A i \in Rows : rows'[i] = rows[i] /\ ~(i < 0)
    BY <1>1, <2>1
  <2>3. \A i \in Rows : rows[i] = Blank
    BY <2>1, <2>2 DEF FirstInv
  <2>4. QED BY <1>1, <2>1, <2>2, <2>3
<1>7. EndShowsNewest'
  BY <1>1 DEF EndShowsNewest
<1>8. QED BY <1>1, <1>3, <1>5, <1>6, <1>7

LEMMA AddStep == IInv /\ Add => IInv'
<1> SUFFICES ASSUME IInv, Add PROVE IInv'
  OBVIOUS
<1>1. size' = size + 1 /\ open' = open /\ reopened' = reopened
  BY DEF Add
<1>2. size \in Nat /\ down <= size /\ down \in Nat /\ open \in BOOLEAN
  BY DEF IInv, TypeOK, SpanInv
<1>3. CASE size' > Height
  <2>1. Slide(size')
    BY <1>1, <1>2, <1>3, Space DEF Add
  <2>2. QED BY <1>1, <1>2, <1>3, <2>1, SlideStep
<1>4. CASE ~(size' > Height)
  <2> USE Space DEF IInv, TypeOK, Rows, Blank
  <2>1. /\ rows' = [rows EXCEPT ![down] = down] /\ down' = down + 1 /\ up' = up /\ up = 0
        /\ down \in Rows /\ size' <= Height
    BY <1>1, <1>2, <1>4 DEF Add, SpanInv
  <2>2. SpanInv'
    BY <1>1, <1>2, <2>1 DEF SpanInv
  <2>3. PlaceInv' /\ TypeOK'
    BY <1>1, <1>2, <1>4, <2>1 DEF PlaceInv
  <2>4. FirstInv'
    <3> SUFFICES ASSUME ~reopened
                 PROVE  /\ down' = IF size' < Height THEN size' ELSE up' + Height
                        /\ \A i \in Rows : rows'[i] = IF i < down' - up' THEN up' + i ELSE Blank
      BY <1>1 DEF FirstInv
    <3>1. down = size /\ \A i \in Rows : rows[i] = IF i < down THEN i ELSE Blank
      BY <1>1, <1>2, <2>1 DEF FirstInv
    <3>2. \A i \in Rows : rows'[i] = IF i = down THEN down ELSE rows[i]
      BY <2>1
    <3>3. QED BY <1>1, <1>2, <2>1, <3>1, <3>2
  <2>5. EndShowsNewest'
    BY <1>1, <1>2, <1>4, <2>1 DEF EndShowsNewest
  <2>6. QED BY <1>1, <2>2, <2>3, <2>4, <2>5
<1>5. QED BY <1>3, <1>4

LEMMA ScrollUpStep == IInv /\ ScrollUp => IInv'
<1> SUFFICES ASSUME IInv, ScrollUp PROVE IInv'
  OBVIOUS
<1> USE Space DEF IInv, TypeOK, Rows, Blank
<1>1. /\ size' = size /\ open' = open /\ reopened' = reopened
      /\ size > Height /\ up > 0 /\ up' = up - 1 /\ down' = down - 1
      /\ rows' = [i \in Rows |-> IF i > 0 THEN rows[i - 1] ELSE up']
  BY DEF ScrollUp, SpanInv
<1>2. down > 0 /\ SpanInv'
  BY <1>1 DEF SpanInv
<1>3. PlaceInv'
  <2> SUFFICES ASSUME NEW i \in Rows
               PROVE  rows'[i] \in {Blank, up' + i - 1, up' + i} /\ rows'[i] < size'
    BY DEF PlaceInv
  <2>1. CASE i > 0
    <3>1. i - 1 \in Rows /\ rows'[i] = rows[i - 1]
      BY <1>1, <2>1
    <3>2. rows[i - 1] \in {Blank, up + (i - 1) - 1, up + (i - 1)} /\ rows[i - 1] < size
      BY <3>1 DEF PlaceInv
    <3>3. QED BY <1>1, <3>1, <3>2
  <2>2. CASE i = 0
    BY <1>1, <1>2, <2>2 DEF SpanInv
  <2>3. QED BY <2>1, <2>2
<1>4. TypeOK'
  BY <1>1, <1>2
<1>5. FirstInv'
  <2> SUFFICES ASSUME ~reopened
               PROVE  /\ down' = up' + Height
                      /\ \A i \in Rows : rows'[i] = IF i < down' - up' THEN up' + i ELSE Blank
    BY <1>1 DEF FirstInv
  <2>1. down = up + Height /\ \A i \in Rows : rows[i] = up + i
    BY <1>1 DEF FirstInv
  <2>2. \A i \in Rows : rows'[i] = up' + i
    BY <1>1, <2>1
  <2>3. QED BY <1>1, <2>1, <2>2
<1>6. EndShowsNewest'
  BY <1>1 DEF EndShowsNewest, SpanInv
<1>7. QED BY <1>1, <1>2, <1>3, <1>4, <1>5, <1>6

LEMMA Invariance == Spec => []IInv
<1>1. ASSUME IInv, [Next]_vars PROVE IInv'
  <2>1. CASE Open
    BY <1>1, <2>1, OpenStep
  <2>2. CASE Receive \/ Send
    BY <1>1, <2>2, AddStep DEF Receive, Send
  <2>3. CASE ScrollDown
    BY <1>1, <2>3, SlideStep DEF ScrollDown, IInv, TypeOK
  <2>4. CASE ScrollUp
    BY <1>1, <2>4, ScrollUpStep
  <2>5. CASE Close \/ UNCHANGED vars
    <3>1. UNCHANGED <<size, rows, up, down, reopened>> /\ open' \in BOOLEAN
      BY <1>1, <2>5 DEF Close, vars, IInv, TypeOK
    <3>2. QED BY <1>1, <3>1 DEF IInv, TypeOK, SpanInv, PlaceInv, FirstInv, EndShowsNewest
  <2>6. QED BY <1>1, <2>1, <2>2, <2>3, <2>4, <2>5 DEF Next
<1>2. QED BY <1>1, InvInit, PTL DEF Spec
-----------------------------------------------------------------------------
\* The positions never become negative, and a row is a message or blank.
THEOREM TypeCorrect == Spec => []TypeOK
BY Invariance, PTL DEF IInv

\* No call of the window leaves print_talk_lists or message_lists, whatever
\* the order of scrolling, receiving, sending and reopening.
THEOREM IndicesSafe == Spec => []IndexSafe
<1>1. IInv => IndexSafe
  BY Space DEF IInv, TypeOK, SpanInv, PlaceInv, IndexSafe
<1>2. QED BY <1>1, Invariance, PTL

\* Before any reopening the rows are consecutive messages.
THEOREM FirstWindow == Spec => []Consecutive
<1>1. IInv => Consecutive
  BY Space DEF IInv, TypeOK, FirstInv, Consecutive, Rows
<1>2. QED BY <1>1, Invariance, PTL

\* The rows are always in the order in which the messages came.
THEOREM RowsOrdered == Spec => []Ordered
<1>1. IInv => Ordered
  BY Space DEF IInv, TypeOK, PlaceInv, Ordered, Rows
<1>2. QED BY <1>1, Invariance, PTL

\* At the end of the list the newest message is on the last line.
THEOREM EndIsNewest == Spec => []EndShowsNewest
BY Invariance, PTL DEF IInv

\* Until it is opened on earlier messages the window moves like a Pager.
THEOREM StepsOfPager == Spec => PagerSteps
<1> USE Space DEF IInv, TypeOK, PagerView!Rows, Rows, PagerView!Blank, Blank,
                  PagerView!Stretch, PagerView!Show
<1> DEFINE Shown == ~reopened => rows = PagerView!Stretch(size, up)
<1>1. Init => PagerView!Init
  BY DEF Init, PagerView!Init
<1>2. IInv => Shown
  BY DEF FirstInv, SpanInv
<1>3. ASSUME IInv, Shown, Shown', [Next]_vars, ~reopened'
      PROVE  [PagerView!Next]_(PagerView!vars)
  <2>1. ~reopened /\ rows = PagerView!Stretch(size, up) /\ rows' = PagerView!Stretch(size', up')
    <3>1. ~reopened
      BY <1>3 DEF Next, vars, Open, Close, Receive, Send, Add, ScrollDown, ScrollUp
    <3>2. QED BY <1>3, <3>1
  <2>2. CASE Receive \/ Send
    <3>1. PagerView!Append
      <4>1. size' = size + 1 /\ up' = IF size < Height THEN up ELSE up + 1
        BY <1>3, <2>1, <2>2 DEF Receive, Send, Add, Slide, SpanInv, FirstInv
      <4>2. QED BY <2>1, <4>1 DEF PagerView!Append
    <3>2. QED BY <3>1 DEF PagerView!Next
  <2>3. CASE ScrollDown
    <3>1. PagerView!ScrollDown
      BY <1>3, <2>1, <2>3 DEF ScrollDown, Slide, PagerView!ScrollDown, FirstInv
    <3>2. QED BY <3>1 DEF PagerView!Next
  <2>4. CASE ScrollUp
    <3>1. PagerView!ScrollUp
      BY <1>3, <2>1, <2>4 DEF ScrollUp, PagerView!ScrollUp
    <3>2. QED BY <3>1 DEF PagerView!Next
  <2>5. CASE Open
    <3>1. ~(size > 0)
      BY <1>3, <2>5 DEF Open
    <3>2. size = 0 /\ up = 0
      BY <1>3, <3>1 DEF SpanInv
    <3>3. size' = size /\ up' = up
      <4>1. size < Height /\ size' = size
        BY <2>5, <3>2 DEF Open
      <4>2. up' = size - size
        BY <2>5, <4>1, Zenon DEF Open
      <4>3. QED BY <3>2, <4>1, <4>2
    <3>4. rows' = rows
      BY <2>1, <3>3
    <3>5. QED BY <3>3, <3>4 DEF PagerView!vars
  <2>6. CASE Close \/ UNCHANGED vars
    BY <2>6 DEF Close, vars, PagerView!vars
  <2>7. QED BY <1>3, <2>2, <2>3, <2>4, <2>5, <2>6 DEF Next
<1>4. QED BY <1>1, <1>2, <1>3, Invariance, PTL DEF Spec, PagerSteps
-----------------------------------------------------------------------------
(* The terminal. *)

Kinds    == {"register", "refused", "unlisted", "nothing"}
Waits    == Prompts \cup Asking \cup Pauses
Terminal == [row : Int, used : SUBSET Int, topmost : Int]

\* No row of the frame was displaced, or left; no two clears met.
Clean(w) == w \cap {"nothing", "unlisted"} = {}
Tame(w)  == w \cap {"register", "refused"} = {}

\* The cursor of t is k rows below b, or lower if a command did nothing; what
\* is on the terminal reaches from row f to n rows below b.
Stands(t, f, b, k, n, w) ==
    /\ t.row >= b + k
    /\ "nothing" \notin w => t.row = b + k
    /\ Clean(w) => t.used = f .. b + n - 1
    /\ Tame(w) => t.topmost >= 0 /\ f >= 0

\* Rows below the frame on which the cursor is while p is awaited.
Below(p, s) ==
    IF p = "form" THEN -7
    ELSE IF p = "name" THEN -6
    ELSE IF p = "passwd" THEN -4
    ELSE IF p = "registering" THEN -1
    ELSE IF p \in {"registered", "granted", "refused", "changing", "sending"} THEN 1
    ELSE IF p = "helped" THEN (IF s = "friends" THEN 2 ELSE 1)
    ELSE IF p = "quitting" /\ s = "main" THEN 1
    ELSE 0

\* Rows below the frame with something on them.
Trail(p, s) ==
    IF p = "helped" THEN (IF s = "friends" THEN 3 ELSE 2)
    ELSE IF p \in {"registered", "granted", "refused", "erred", "changing", "sending"} THEN 1
    ELSE IF p = "quitting" /\ s = "main" THEN 1
    ELSE 0

\* The form is printed one row lower than the frame that was cleared for it.
First(s, r) == IF s = "form" THEN r - 1 ELSE r
-----------------------------------------------------------------------------
LEMMA Typing ==
    ASSUME NEW t \in Terminal
    PROVE  t.row \in Int /\ t.used \in SUBSET Int /\ t.topmost \in Int
BY DEF Terminal

LEMMA LowerType ==
    ASSUME NEW m \in Int, NEW n \in Int
    PROVE  Lower(m, n) \in Int /\ (m >= 0 /\ n >= 0 => Lower(m, n) >= 0)
BY DEF Lower

LEMMA TextEffect ==
    ASSUME NEW t \in Terminal
    PROVE  /\ Text(t) \in Terminal /\ Text(t).row = t.row /\ Text(t).used = t.used \cup {t.row}
           /\ Text(t).topmost = Lower(t.topmost, t.row)
<1> DEFINE l == Lower(t.topmost, t.row)
<1>1. Text(t) = [[t EXCEPT !.used = t.used \cup {t.row}] EXCEPT !.topmost = l]
  BY DEF Text, Terminal
<1>0. t.row \in Int /\ t.topmost \in Int /\ t.used \in SUBSET Int
  BY Typing
<1>2. l \in Int /\ t.used \cup {t.row} \in SUBSET Int
  <2>1. l \in Int
    BY <1>0, LowerType
  <2>2. QED BY <1>0, <2>1
<1> HIDE DEF l
<1>3. QED BY <1>1, <1>2 DEF Terminal, l

LEMMA EraseEffect ==
    ASSUME NEW t \in Terminal
    PROVE  /\ Erase(t) \in Terminal /\ Erase(t).row = t.row /\ Erase(t).used = t.used \ {t.row}
           /\ Erase(t).topmost = Lower(t.topmost, t.row)
<1> DEFINE l == Lower(t.topmost, t.row)
<1>1. Erase(t) = [[t EXCEPT !.used = t.used \ {t.row}] EXCEPT !.topmost = l]
  BY DEF Erase, Terminal
<1>0. t.row \in Int /\ t.topmost \in Int /\ t.used \in SUBSET Int
  BY Typing
<1>2. l \in Int /\ t.used \ {t.row} \in SUBSET Int
  <2>1. l \in Int
    BY <1>0, LowerType
  <2>2. QED BY <1>0, <2>1
<1> HIDE DEF l
<1>3. QED BY <1>1, <1>2 DEF Terminal, l

LEMMA MoveEffect ==
    ASSUME NEW t \in Terminal, NEW d \in Int
    PROVE  /\ Down(t, d) \in Terminal /\ Down(t, d).row = t.row + d
           /\ Down(t, d).used = t.used /\ Down(t, d).topmost = t.topmost
           /\ Up(t, d) \in Terminal /\ Up(t, d).row = t.row - d
           /\ Up(t, d).used = t.used /\ Up(t, d).topmost = t.topmost
BY DEF Down, Up, Terminal

LEMMA FilledEffect ==
    ASSUME NEW t \in Terminal, NEW s \in {"friends", "talk"}
    PROVE  /\ Highest[s] \in {11, 13}
           /\ Filled(t, s) \in Terminal /\ Filled(t, s).row = t.row
           /\ Filled(t, s).used = t.used \cup {t.row - Highest[s]} \cup (t.row - 11 .. t.row - 2)
           /\ Filled(t, s).topmost = Lower(t.topmost, t.row - Highest[s])
<1> DEFINE h == Highest[s]
           l == Lower(t.topmost, t.row - h)
           u == t.used \cup {t.row - h} \cup (t.row - 11 .. t.row - 2)
<1>1. Filled(t, s) = [[t EXCEPT !.used = u] EXCEPT !.topmost = l]
  BY DEF Filled, Terminal
<1>0. t.row \in Int /\ t.topmost \in Int /\ t.used \in SUBSET Int /\ h \in {11, 13}
  BY Typing DEF Highest
<1> HIDE DEF h
<1>2. l \in Int /\ u \in SUBSET Int
  <2>1. l \in Int
    <3>1. t.row - h \in Int
      BY <1>0
    <3>2. QED BY <1>0, <3>1, LowerType
  <2>2. QED BY <1>0, <2>1
<1> HIDE DEF l, u
<1>3. QED BY <1>0, <1>1, <1>2 DEF Terminal, l, u, h

LEMMA ClearEffect ==
    ASSUME NEW t \in Terminal, NEW n \in Nat
    PROVE  /\ clear_string_surface(t, n) \in Terminal
           /\ clear_string_surface(t, n).row = t.row - n
           /\ clear_string_surface(t, n).used = t.used \ (t.row - n .. t.row - 1)
           /\ clear_string_surface(t, n).topmost = Lower(t.topmost, t.row - n)
<1> DEFINE l == Lower(t.topmost, t.row - n)
           s == t.used \ (t.row - n .. t.row - 1)
<1>1. clear_string_surface(t, n) = [row |-> t.row - n, used |-> s, topmost |-> l]
  BY DEF clear_string_surface
<1>0. t.row \in Int /\ t.topmost \in Int /\ t.used \in SUBSET Int
  BY Typing
<1>2. l \in Int /\ s \in SUBSET Int /\ t.row - n \in Int
  <2>1. l \in Int
    <3>1. t.row - n \in Int
      BY <1>0
    <3>2. QED BY <1>0, <3>1, LowerType
  <2>2. QED BY <1>0, <2>1
<1> HIDE DEF l, s
<1>3. QED BY <1>1, <1>2 DEF Terminal, l, s

LEMMA PrintedEffect ==
    ASSUME NEW t \in Terminal, NEW n \in Nat
    PROVE  /\ Printed(t, n) \in Terminal
           /\ Printed(t, n).row = t.row + n
           /\ Printed(t, n).used = t.used \cup (t.row .. t.row + n - 1)
           /\ Printed(t, n).topmost = Lower(t.topmost, t.row)
<1> DEFINE l == Lower(t.topmost, t.row)
           s == t.used \cup (t.row .. t.row + n - 1)
<1>1. Printed(t, n) = [row |-> t.row + n, used |-> s, topmost |-> l]
  BY DEF Printed
<1>0. t.row \in Int /\ t.topmost \in Int /\ t.used \in SUBSET Int
  BY Typing
<1>2. l \in Int /\ s \in SUBSET Int /\ t.row + n \in Int
  <2>1. l \in Int
    BY <1>0, LowerType
  <2>2. QED BY <1>0, <2>1
<1> HIDE DEF l, s
<1>3. QED BY <1>1, <1>2 DEF Terminal, l, s
-----------------------------------------------------------------------------
LEMMA LineStands ==
    ASSUME NEW t \in Terminal, NEW f \in Int, NEW b \in Int, NEW k \in Int, NEW n \in Int, NEW w,
           Stands(t, f, b, k, n, w), f <= b + k, k <= n
    PROVE  /\ Line(t) \in Terminal
           /\ Stands(Line(t), f, b, k + 1, IF k < n THEN n ELSE k + 1, w)
<1> DEFINE u == Line(t)
           m == IF k < n THEN n ELSE k + 1
<1>1. /\ u.row = t.row + 1 /\ u.used = t.used \cup {t.row} /\ u.topmost = Lower(t.topmost, t.row)
      /\ u \in Terminal
  <2> DEFINE v == Text(t)
  <2>1. /\ v \in Terminal /\ v.row = t.row /\ v.used = t.used \cup {t.row}
        /\ v.topmost = Lower(t.topmost, t.row)
    BY TextEffect
  <2>2. u = Down(v, 1)
    BY DEF Line
  <2> HIDE DEF u, v
  <2>3. 1 \in Int
    OBVIOUS
  <2>4. /\ u \in Terminal /\ u.row = v.row + 1
        /\ u.used = v.used /\ u.topmost = v.topmost
    BY <2>1, <2>2, <2>3, MoveEffect, Zenon
  <2>5. QED BY <2>1, <2>4
<1>2. Clean(w) => u.used = f .. b + m - 1
  <2> SUFFICES ASSUME Clean(w) PROVE u.used = f .. b + m - 1
    OBVIOUS
  <2>1. t.row = b + k /\ t.used = f .. b + n - 1 /\ f <= b + k /\ k <= n
    BY DEF Stands, Clean
  <2>2. (f .. b + n - 1) \cup {b + k} = f .. b + m - 1
    BY <2>1
  <2>3. QED BY <1>1, <2>1, <2>2
<1>0. t.row \in Int /\ t.topmost \in Int /\ u.row \in Int /\ u.topmost \in Int
  BY <1>1, Typing
<1> HIDE DEF u
<1>9. t.topmost >= 0 /\ t.row >= 0 => u.topmost >= 0
  BY <1>0, <1>1, LowerType
<1>3. Tame(w) => u.topmost >= 0 /\ f >= 0
  BY <1>0, <1>9 DEF Stands
<1>4. u.row >= b + (k + 1) /\ ("nothing" \notin w => u.row = b + (k + 1))
  BY <1>0, <1>1 DEF Stands
<1>5. QED BY <1>1, <1>2, <1>3, <1>4 DEF Stands, u

LEMMA TextStands ==
    ASSUME NEW t \in Terminal, NEW f \in Int, NEW b \in Int, NEW k \in Int, NEW n \in Int, NEW w,
           Stands(t, f, b, k, n, w), f <= b + k, k <= n
    PROVE  /\ Text(t) \in Terminal
           /\ Stands(Text(t), f, b, k, IF k < n THEN n ELSE k + 1, w)
<1> DEFINE u == Text(t)
           m == IF k < n THEN n ELSE k + 1
<1>1. /\ u.row = t.row /\ u.used = t.used \cup {t.row} /\ u.topmost = Lower(t.topmost, t.row)
      /\ u \in Terminal
  BY TextEffect
<1>2. Clean(w) => u.used = f .. b + m - 1
  <2> SUFFICES ASSUME Clean(w) PROVE u.used = f .. b + m - 1
    OBVIOUS
  <2>1. t.row = b + k /\ t.used = f .. b + n - 1 /\ f <= b + k /\ k <= n
    BY DEF Stands, Clean
  <2>2. (f .. b + n - 1) \cup {b + k} = f .. b + m - 1
    BY <2>1
  <2>3. QED BY <1>1, <2>1, <2>2
<1>0. t.row \in Int /\ t.topmost \in Int /\ u.row \in Int /\ u.topmost \in Int
  BY <1>1, Typing
<1> HIDE DEF u
<1>9. t.topmost >= 0 /\ t.row >= 0 => u.topmost >= 0
  BY <1>0, <1>1, LowerType
<1>3. Tame(w) => u.topmost >= 0 /\ f >= 0
  BY <1>0, <1>9 DEF Stands
<1>4. u.row >= b + k /\ ("nothing" \notin w => u.row = b + k)
  BY <1>0, <1>1 DEF Stands
<1>5. QED BY <1>1, <1>2, <1>3, <1>4 DEF Stands, u

LEMMA MoveStands ==
    ASSUME NEW t \in Terminal, NEW f \in Int, NEW b \in Int, NEW k \in Int, NEW n \in Int, NEW w,
           NEW d \in Int, Stands(t, f, b, k, n, w)
    PROVE  /\ Down(t, d) \in Terminal /\ Stands(Down(t, d), f, b, k + d, n, w)
           /\ Up(t, d) \in Terminal /\ Stands(Up(t, d), f, b, k - d, n, w)
<1>1. /\ Down(t, d).row = t.row + d /\ Down(t, d).used = t.used /\ Down(t, d).topmost = t.topmost
      /\ Up(t, d).row = t.row - d /\ Up(t, d).used = t.used /\ Up(t, d).topmost = t.topmost
      /\ Down(t, d) \in Terminal /\ Up(t, d) \in Terminal
  BY MoveEffect
<1>2. QED BY <1>1, Typing DEF Stands

LEMMA BackStands ==
    ASSUME NEW t \in Terminal, NEW f \in Int, NEW b \in Int, NEW k \in Int, NEW n \in Int, NEW w,
           Stands(t, f, b, k, n, w), n = k \/ n = k - 1, f <= b + k - 1
    PROVE  /\ Back(t) \in Terminal
           /\ Stands(Back(t), f, b, k - 1, k - 1, w)
<1> DEFINE u == Back(t)
<1>1. /\ u.row = t.row - 1 /\ u.used = t.used \ {t.row - 1}
      /\ u.topmost = Lower(t.topmost, t.row - 1) /\ u \in Terminal
  <2> DEFINE v == Up(t, 1)
  <2>1. v \in Terminal /\ v.row = t.row - 1 /\ v.used = t.used /\ v.topmost = t.topmost
    <3>1. 1 \in Int
      OBVIOUS
    <3>2. QED BY <3>1, MoveEffect, Zenon
  <2>2. u = Erase(v)
    BY DEF Back
  <2> HIDE DEF u, v
  <2>3. QED BY <2>1, <2>2, EraseEffect
<1>2. Clean(w) => u.used = f .. b + (k - 1) - 1
  <2> SUFFICES ASSUME Clean(w) PROVE u.used = f .. b + (k - 1) - 1
    OBVIOUS
  <2>1. t.row = b + k /\ t.used = f .. b + n - 1
    BY DEF Stands, Clean
  <2>2. (f .. b + n - 1) \ {b + k - 1} = f .. b + (k - 1) - 1
    OBVIOUS
  <2>3. QED BY <1>1, <2>1, <2>2
<1>0. t.row \in Int /\ t.topmost \in Int /\ u.row \in Int /\ u.topmost \in Int
  BY <1>1, Typing
<1> HIDE DEF u
<1>9. t.topmost >= 0 /\ t.row - 1 >= 0 => u.topmost >= 0
  <2>1. t.row - 1 \in Int
    BY <1>0
  <2>2. QED BY <1>0, <1>1, <2>1, LowerType
<1>3. Tame(w) => u.topmost >= 0 /\ f >= 0
  BY <1>0, <1>9 DEF Stands
<1>4. u.row >= b + (k - 1) /\ ("nothing" \notin w => u.row = b + (k - 1))
  BY <1>0, <1>1 DEF Stands
<1>5. QED BY <1>1, <1>2, <1>3, <1>4 DEF Stands, u

LEMMA ClearStands ==
    ASSUME NEW t \in Terminal, NEW f \in Int, NEW b \in Int, NEW k \in Int, NEW n \in Int, NEW w,
           NEW c \in Nat, Stands(t, f, b, k, n, w), k - c <= n, n <= k, Tame(w) => b + k >= c
    PROVE  /\ clear_string_surface(t, c) \in Terminal
           /\ clear_string_surface(t, c).row = t.row - c
           /\ Stands(clear_string_surface(t, c), f, b + k - c, 0, 0, w)
<1> DEFINE u == clear_string_surface(t, c)
<1>1. /\ u.row = t.row - c /\ u.used = t.used \ (t.row - c .. t.row - 1)
      /\ u.topmost = Lower(t.topmost, t.row - c)
      /\ u \in Terminal
  BY ClearEffect
<1>2. Clean(w) => u.used = f .. (b + k - c) + 0 - 1
  <2> SUFFICES ASSUME Clean(w) PROVE u.used = f .. (b + k - c) + 0 - 1
    OBVIOUS
  <2>1. t.row = b + k
    BY DEF Stands, Clean
  <2>2. t.used = f .. b + n - 1
    BY DEF Stands
  <2>3. (f .. b + n - 1) \ (b + k - c .. b + k - 1) = f .. (b + k - c) + 0 - 1
    <3> SUFFICES ASSUME NEW r \in Int
                 PROVE  (r \in f .. b + n - 1 /\ ~(r \in b + k - c .. b + k - 1))
                         <=> r \in f .. (b + k - c) + 0 - 1
      OBVIOUS
    <3>1. r \in f .. b + n - 1 <=> f <= r /\ r <= b + n - 1
      OBVIOUS
    <3>2. r \in b + k - c .. b + k - 1 <=> b + k - c <= r /\ r <= b + k - 1
      OBVIOUS
    <3>3. r \in f .. (b + k - c) + 0 - 1 <=> f <= r /\ r <= b + k - c - 1
      OBVIOUS
    <3>4. QED BY <3>1, <3>2, <3>3
  <2>4. QED BY <1>1, <2>1, <2>2, <2>3
<1>0. t.row \in Int /\ t.topmost \in Int /\ u.row \in Int /\ u.topmost \in Int
  BY <1>1, Typing
<1> HIDE DEF u
<1>9. t.topmost >= 0 /\ t.row - c >= 0 => u.topmost >= 0
  <2>1. t.row - c \in Int
    BY <1>0
  <2>2. QED BY <1>0, <1>1, <2>1, LowerType
<1>3. Tame(w) => u.topmost >= 0 /\ f >= 0
  BY <1>0, <1>9 DEF Stands
<1>4. u.row >= (b + k - c) + 0 /\ ("nothing" \notin w => u.row = (b + k - c) + 0)
  BY <1>0, <1>1 DEF Stands
<1>5. QED BY <1>1, <1>2, <1>3, <1>4 DEF Stands, u

\* What is printed is the new frame.
LEMMA PrintedStands ==
    ASSUME NEW t \in Terminal, NEW f \in Int, NEW b \in Int, NEW w, NEW h \in Nat, NEW g \in Int,
           Stands(t, f, b, 0, 0, w), Clean(w) => g = Lower(f, b), Tame(w) => g >= 0 /\ b >= 0
    PROVE  /\ Printed(t, h) \in Terminal
           /\ Printed(t, h).row = t.row + h
           /\ Stands(Printed(t, h), g, t.row + h, 0, 0, w)
<1> DEFINE u == Printed(t, h)
<1>1. /\ u.row = t.row + h /\ u.used = t.used \cup (t.row .. t.row + h - 1)
      /\ u.topmost = Lower(t.topmost, t.row)
      /\ u \in Terminal
  BY PrintedEffect
<1>2. Clean(w) => u.used = g .. (t.row + h) + 0 - 1
  <2> SUFFICES ASSUME Clean(w) PROVE u.used = g .. (t.row + h) + 0 - 1
    OBVIOUS
  <2>1. t.row = b + 0 /\ t.used = f .. b + 0 - 1
    BY DEF Stands, Clean
  <2>2. (f .. b - 1) \cup (b .. b + h - 1) = Lower(f, b) .. (b + h) + 0 - 1
    BY DEF Lower
  <2>3. QED BY <1>1, <2>1, <2>2
<1>0. t.row \in Int /\ t.topmost \in Int /\ u.row \in Int /\ u.topmost \in Int
  BY <1>1, Typing
<1> HIDE DEF u
<1>9. t.topmost >= 0 /\ t.row >= 0 => u.topmost >= 0
  BY <1>0, <1>1, LowerType
<1>3. Tame(w) => u.topmost >= 0 /\ g >= 0
  BY <1>0, <1>9 DEF Stands
<1>4. u.row >= (t.row + h) + 0 /\ u.row = (t.row + h) + 0
  BY <1>0, <1>1
<1>5. QED BY <1>1, <1>2, <1>3, <1>4 DEF Stands, u
\* The ten lines stand where something stood before.
LEMMA FilledStands ==
    ASSUME NEW t \in Terminal, NEW f \in Int, NEW b \in Int, NEW k \in Int, NEW n \in Int, NEW w,
           NEW s \in {"friends", "talk"},
           Stands(t, f, b, k, n, w), Clean(w) => f <= b + k - Highest[s] /\ k <= n + 1,
           Tame(w) => b + k >= Highest[s]
    PROVE  Filled(t, s) \in Terminal /\ Stands(Filled(t, s), f, b, k, n, w)
<1> DEFINE u == Filled(t, s)
           h == Highest[s]
<1>1. /\ u.row = t.row /\ u.used = t.used \cup {t.row - h} \cup (t.row - 11 .. t.row - 2)
      /\ u.topmost = Lower(t.topmost, t.row - h)
      /\ u \in Terminal /\ h \in {11, 13}
  BY FilledEffect
<1> HIDE DEF h
<1>2. Clean(w) => u.used = f .. b + n - 1
  <2> SUFFICES ASSUME Clean(w) PROVE u.used = f .. b + n - 1
    OBVIOUS
  <2>1. t.row = b + k /\ t.used = f .. b + n - 1 /\ f <= b + k - h /\ k <= n + 1
    BY DEF Stands, Clean, h
  <2>2. (f .. b + n - 1) \cup {b + k - h} \cup (b + k - 11 .. b + k - 2) = f .. b + n - 1
    BY <1>1, <2>1
  <2>3. QED BY <1>1, <2>1, <2>2
<1>0. t.row \in Int /\ t.topmost \in Int /\ u.row \in Int /\ u.topmost \in Int
  BY <1>1, Typing
<1> HIDE DEF u
<1>9. t.topmost >= 0 /\ t.row - h >= 0 => u.topmost >= 0
  <2>1. t.row - h \in Int
    BY <1>0, <1>1
  <2>2. QED BY <1>0, <1>1, <2>1, LowerType
<1>8. Tame(w) => t.topmost >= 0 /\ f >= 0 /\ t.row - h >= 0
  BY <1>0, <1>1 DEF Stands, h
<1>3. Tame(w) => u.topmost >= 0 /\ f >= 0
  BY <1>8, <1>9
<1>4. u.row >= b + k /\ ("nothing" \notin w => u.row = b + k)
  BY <1>0, <1>1 DEF Stands
<1>5. QED BY <1>1, <1>2, <1>3, <1>4 DEF Stands, u
-----------------------------------------------------------------------------
FrontType == /\ tty \in Terminal /\ screen \in DOMAIN Lines /\ top \in Int
             /\ pc \in Waits \cup {"done"} /\ friendly \in BOOLEAN
             /\ misfilled \in SUBSET Waits
             /\ strays \in Nat /\ stray \in SUBSET Kinds

\* What is waited for belongs to the frame that is shown.
Shown(p, s) ==
    /\ p \in {"main", "name", "passwd", "joining", "granted", "refused"} => s = "main"
    /\ p \in {"form", "registering", "registered"} => s = "form"
    /\ p \in {"friends", "listing", "word", "changing"} => s = "friends"
    /\ p \in {"talk", "text", "sending"} => s = "talk"
    /\ p \in {"helped", "erred"} => s # "form"
    /\ p \in {"quitting", "done"} => s \in {"main", "friends"}

\* The flags by which the listener thread decides what to fill.
FlagInv ==
    /\ open <=> screen = "talk"
    /\ screen = "talk" => ~friendly
    /\ screen = "friends" => friendly \/ pc = "done"
    /\ friendly /\ screen # "friends" => "unlisted" \in stray
    /\ screen = "form" => "register" \in stray

\* A message that came in may have erased the row of the cursor, which the next
\* line typed or printed there covers, but for the last row of the form.
Inside == {"form", "name", "passwd", "registering", "helped", "erred"}

Gap(p, row)  == IF p = "registered" THEN {row - 2} ELSE IF p \in Inside THEN {row} ELSE {}
Mended(t, p) == [t EXCEPT !.used = @ \cup Gap(p, t.row)]

StandsInv == pc # "done" =>
    Stands(Mended(tty, pc), First(screen, top), top + Lines[screen],
           Below(pc, screen), Trail(pc, screen), stray)

\* Eight rows of a friend screen stay above the main screen that follows it.
RoomInv == Tame(stray) =>
    /\ tty.topmost >= 0 /\ top >= 0
    /\ friendly /\ screen = "main" => top >= 8

FrontInv == FrontType /\ Shown(pc, screen) /\ FlagInv /\ StandsInv /\ RoomInv /\ FillsFit

\* A step displaces the frame once more, or does not.
Straying == /\ strays' \in Nat /\ stray' \in SUBSET Kinds /\ stray \subseteq stray'

LEMMA Heights == /\ DOMAIN Lines = {"main", "form", "friends", "talk"}
                 /\ Lines["main"] = 9 /\ Lines["form"] = 10
                 /\ Lines["friends"] = 16 /\ Lines["talk"] = 14
BY DEF Lines

LEMMA SteadyStrays == ASSUME FrontType, Steady PROVE Straying /\ stray' = stray
BY DEF FrontType, Steady, Straying

LEMMA StrayStrays ==
    ASSUME FrontType, NEW why \in Kinds, Stray(why)
    PROVE  Straying /\ why \in stray'
<1>1. strays \in Nat /\ stray \in SUBSET Kinds /\ strays' = strays + 1 /\ stray' = stray \cup {why}
  BY DEF FrontType, Stray
<1>2. QED BY <1>1 DEF Straying

LEMMA StandsLater ==
    ASSUME NEW t, NEW f, NEW b, NEW k, NEW n, NEW w, NEW w2, Stands(t, f, b, k, n, w), w \subseteq w2
    PROVE  Stands(t, f, b, k, n, w2)
BY DEF Stands, Clean, Tame

LEMMA StandsAt ==
    ASSUME NEW t \in Terminal, NEW f, NEW b \in Int, NEW n, NEW w, Stands(t, f, b, 0, n, w)
    PROVE  /\ t.row \in Int /\ t.row >= b
           /\ "nothing" \notin w => t.row = b
           /\ Clean(w) => t.row = b
           /\ Tame(w) => t.topmost >= 0 /\ f >= 0
<1> DEFINE x == t.row
<1>1. x \in Int /\ x >= b + 0 /\ ("nothing" \notin w => x = b + 0)
  BY Typing DEF Stands
<1> HIDE DEF x
<1>2. x >= b /\ ("nothing" \notin w => x = b)
  BY <1>1
<1>3. Clean(w) => "nothing" \notin w
  BY DEF Clean
<1>4. Tame(w) => t.topmost >= 0 /\ f >= 0
  BY DEF Stands
<1>5. QED BY <1>1, <1>2, <1>3, <1>4 DEF x

LEMMA MendedEffect ==
    ASSUME NEW t \in Terminal, NEW p
    PROVE  /\ Mended(t, p) \in Terminal /\ Mended(t, p).row = t.row
           /\ Mended(t, p).used = t.used \cup Gap(p, t.row) /\ Mended(t, p).topmost = t.topmost
           /\ p \notin Inside \cup {"registered"} => Mended(t, p) = t
<1>1. Gap(p, t.row) \in SUBSET Int /\ (p \notin Inside \cup {"registered"} => Gap(p, t.row) = {})
  BY Typing DEF Gap
<1>2. QED BY <1>1 DEF Mended, Terminal

\* The frame that is shown, and where nothing has to be mended.
LEMMA StandsNow ==
    ASSUME FrontInv, pc # "done"
    PROVE  /\ tty \in Terminal /\ top \in Int
           /\ Stands(Mended(tty, pc), First(screen, top), top + Lines[screen],
                     Below(pc, screen), Trail(pc, screen), stray)
           /\ pc \notin Inside \cup {"registered"} =>
                 Stands(tty, First(screen, top), top + Lines[screen],
                        Below(pc, screen), Trail(pc, screen), stray)
BY MendedEffect DEF FrontInv, FrontType, StandsInv

LEMMA MendStands ==
    ASSUME NEW t \in Terminal, NEW f \in Int, NEW b \in Int, NEW s, NEW p, NEW w, f <= b - 9,
           p = "form" => f <= b - 11,
           Stands(t, f, b, Below(p, s), Trail(p, s), w)
    PROVE  Stands(Mended(t, p), f, b, Below(p, s), Trail(p, s), w)
<1> DEFINE k == Below(p, s)
           n == Trail(p, s)
           m == Mended(t, p)
<1>1. m.row = t.row /\ m.topmost = t.topmost /\ m.used = t.used \cup Gap(p, t.row)
  BY MendedEffect
<1>2. /\ k \in Int /\ n \in Int
      /\ p \in Inside => k < n /\ -7 <= k
      /\ p = "registered" => k = 1 /\ n = 1
  BY DEF Below, Trail, Inside
<1>3. Clean(w) => m.used = f .. b + n - 1
  <2> SUFFICES ASSUME Clean(w) PROVE m.used = f .. b + n - 1
    OBVIOUS
  <2>1. t.row = b + k /\ t.used = f .. b + n - 1
    BY DEF Stands, Clean
  <2> HIDE DEF k, n
  <2>2. Gap(p, t.row) \subseteq f .. b + n - 1
    BY <1>2, <2>1 DEF Gap
  <2>3. QED BY <1>1, <2>1, <2>2
<1>4. QED BY <1>1, <1>3 DEF Stands

\* The thread waits for something else on the same frame.
LEMMA ThenMended ==
    ASSUME FrontInv, NEW t \in Terminal, NEW p \in Waits, pc # "done", Then(t, p),
           friendly' = friendly, open' = open, Steady, Shown(p, screen),
           Stands(Mended(t, p), First(screen, top), top + Lines[screen],
                  Below(p, screen), Trail(p, screen), stray)
    PROVE  FrontInv'
<1>1. /\ tty' = t /\ pc' = p /\ screen' = screen /\ top' = top /\ misfilled' = misfilled
      /\ stray' = stray /\ strays' = strays
  BY DEF Then, Await, Steady
<1>2. FrontType' /\ Shown(pc', screen')
  BY <1>1 DEF FrontInv, FrontType
<1>3. FlagInv'
  BY <1>1 DEF FrontInv, FlagInv
<1>4. StandsInv'
  BY <1>1 DEF StandsInv
<1>5. RoomInv'
  <2>1. Mended(t, p).topmost = t.topmost
    BY MendedEffect
  <2>2. QED BY <1>1, <2>1 DEF FrontInv, RoomInv, Stands
<1>6. FillsFit'
  BY <1>1 DEF FrontInv, FillsFit
<1>7. QED BY <1>2, <1>3, <1>4, <1>5, <1>6 DEF FrontInv, Shown

LEMMA FrameRows ==
    ASSUME FrontInv
    PROVE  /\ First(screen, top) \in Int /\ top + Lines[screen] \in Int
           /\ First(screen, top) <= (top + Lines[screen]) - 9
           /\ screen = "form" => First(screen, top) <= (top + Lines[screen]) - 11
<1>1. top \in Int /\ screen \in {"main", "form", "friends", "talk"}
  BY Heights DEF FrontInv, FrontType
<1>2. QED BY <1>1, Heights DEF First

LEMMA ThenStep ==
    ASSUME FrontInv, NEW t \in Terminal, NEW p \in Waits, pc # "done", Then(t, p),
           friendly' = friendly, open' = open, Steady, Shown(p, screen),
           Stands(t, First(screen, top), top + Lines[screen], Below(p, screen), Trail(p, screen), stray)
    PROVE  FrontInv'
<1> DEFINE f == First(screen, top)
           b == top + Lines[screen]
<1>1. f \in Int /\ b \in Int /\ f <= b - 9 /\ (p = "form" => f <= b - 11)
  BY FrameRows DEF Shown
<1> HIDE DEF f, b
<1>2. Stands(Mended(t, p), f, b, Below(p, screen), Trail(p, screen), stray)
  BY <1>1, MendStands DEF f, b
<1>3. QED BY <1>2, ThenMended DEF f, b

\* A frame is shown, or stays, and its rows are filled.
LEMMA FillStep ==
    ASSUME FrontInv, NEW t \in Terminal, NEW p \in Waits, NEW s \in {"friends", "talk"}, NEW r \in Int,
           pc # "done", Straying, FlagInv', Shown(p, s), Below(p, s) = 0, Trail(p, s) = 0,
           friendly' \in BOOLEAN, screen' = s, top' = r, pc' = p, Fill(t, s, s, r),
           Stands(t, r, r + Lines[s], 0, 0, stray')
    PROVE  FrontInv'
<1>1. /\ tty' = Filled(t, s) /\ Lines[s] \in Int /\ Lines[s] >= 14 /\ First(s, r) = r
      /\ Highest[s] \in {11, 13} /\ p \notin Inside \cup {"registered"}
  BY Heights DEF Fill, First, Highest, Below, Trail, Inside
<1>2. Tame(stray') => r >= 0
  BY DEF Stands
<1>3. Filled(t, s) \in Terminal /\ Stands(Filled(t, s), r, r + Lines[s], 0, 0, stray')
  <2>1. /\ r + Lines[s] \in Int /\ r <= r + Lines[s] + 0 - Highest[s]
        /\ Tame(stray') => r + Lines[s] + 0 >= Highest[s]
    BY <1>1, <1>2
  <2> DEFINE b == r + Lines[s]
  <2> HIDE DEF b
  <2>2. /\ b \in Int /\ r <= b + 0 - Highest[s] /\ (Tame(stray') => b + 0 >= Highest[s])
        /\ Stands(t, r, b, 0, 0, stray')
    BY <2>1 DEF b
  <2>3. Filled(t, s) \in Terminal /\ Stands(Filled(t, s), r, b, 0, 0, stray')
    BY <2>2, FilledStands
  <2>4. QED BY <2>3 DEF b
<1>4. misfilled' \in SUBSET Waits
  BY DEF FrontInv, FrontType, Fill
<1>5. FrontType' /\ Shown(pc', screen')
  <2>1. screen' \in DOMAIN Lines /\ pc' \in Waits \cup {"done"}
    BY Heights
  <2>2. QED BY <1>1, <1>3, <1>4, <2>1 DEF FrontType, Straying
<1>6. StandsInv'
  <2>1. Mended(tty', pc') = tty'
    BY <1>1, <1>3, MendedEffect
  <2>2. QED BY <1>1, <1>3, <2>1 DEF StandsInv
<1>7. RoomInv'
  BY <1>1, <1>2, <1>3 DEF RoomInv, Stands
<1>8. FillsFit'
  <2> SUFFICES ASSUME stray' \cap {"nothing", "unlisted"} = {}
               PROVE  misfilled' \subseteq {"helped", "changing", "sending"}
    BY DEF FillsFit
  <2>1. misfilled \subseteq {"helped", "changing", "sending"}
    BY DEF FrontInv, FillsFit, Straying
  <2>2. t.row = r + Lines[s]
    <3>1. r + Lines[s] \in Int /\ Clean(stray')
      BY <1>1 DEF Clean
    <3>2. QED BY <3>1, StandsAt
  <2>3. misfilled' = misfilled
    BY <2>2 DEF Fill, Fits
  <2>4. QED BY <2>1, <2>3
<1>9. QED BY <1>5, <1>6, <1>7, <1>8 DEF FrontInv, Shown

\* Main clears nine rows and prints its screen.
LEMMA MainStep ==
    ASSUME FrontInv, NEW t \in Terminal, NEW f \in Int, NEW b \in Int, NEW k \in Int, NEW n \in Int,
           pc # "done", Straying, MainAgain(t), Stands(t, f, b, k, n, stray'), k - 9 <= n, n <= k,
           Clean(stray') => f >= b + k - 9,
           Tame(stray') => b + k >= 9 /\ (friendly => b + k >= 17),
           friendly' = friendly, ~open', friendly => "unlisted" \in stray'
    PROVE  FrontInv'
<1> DEFINE cleared == clear_string_surface(t, 9)
           printed == Printed(cleared, 9)
<1>1. /\ tty' = printed /\ pc' = "main" /\ screen' = "main" /\ top' = cleared.row /\ misfilled' = misfilled
  BY Heights DEF MainAgain, Await
<1>2. /\ cleared \in Terminal /\ cleared.row = t.row - 9 /\ Stands(cleared, f, b + k - 9, 0, 0, stray')
  <2>1. 9 \in Nat /\ (Tame(stray') => b + k >= 9)
    OBVIOUS
  <2>2. /\ t \in Terminal /\ Stands(t, f, b, k, n, stray') /\ k - 9 <= n /\ n <= k
        /\ f \in Int /\ b \in Int /\ k \in Int /\ n \in Int
    OBVIOUS
  <2>3. QED BY ONLY <2>1, <2>2, ClearStands
<1> HIDE DEF printed, cleared
<1> DEFINE r == cleared.row
           base == b + k - 9
<1>3. /\ base \in Int /\ r \in Int /\ r >= base /\ (Clean(stray') => r = base)
  <2>1. base \in Int
    OBVIOUS
  <2> HIDE DEF base
  <2>2. QED BY <1>2, <2>1, StandsAt DEF base
<1> HIDE DEF r
<1>11. /\ Tame(stray') => base >= 0 /\ r >= 0 /\ (friendly => r >= 8)
       /\ Clean(stray') => r = Lower(f, base)
  <2>1. Tame(stray') => base >= 0 /\ (friendly => base >= 8)
    OBVIOUS
  <2>2. Clean(stray') => f >= base
    OBVIOUS
  <2> HIDE DEF base
  <2>3. QED BY <1>3, <2>1, <2>2 DEF Lower
<1>4. printed \in Terminal /\ Stands(printed, r, r + 9, 0, 0, stray')
  <2>1. cleared \in Terminal /\ Stands(cleared, f, base, 0, 0, stray') /\ 9 \in Nat
    BY <1>2
  <2> HIDE DEF base
  <2>2. printed = Printed(cleared, 9)
    BY DEF printed
  <2>3. /\ Printed(cleared, 9) \in Terminal
        /\ Stands(Printed(cleared, 9), r, cleared.row + 9, 0, 0, stray')
    BY <1>3, <1>11, <2>1, PrintedStands
  <2>4. QED BY <2>2, <2>3 DEF r
<1>5. FrontType' /\ Shown(pc', screen')
  <2>1. screen' \in DOMAIN Lines /\ pc' \in Waits
    BY <1>1, Heights DEF Waits, Prompts
  <2>2. tty' \in Terminal /\ top' \in Int
    BY <1>1, <1>3, <1>4 DEF r
  <2>3. friendly' \in BOOLEAN /\ misfilled' \in SUBSET Waits
    BY <1>1 DEF FrontInv, FrontType
  <2>4. QED BY <1>1, <2>1, <2>2, <2>3 DEF FrontType, Straying, Shown
<1>6. FlagInv'
  BY <1>1 DEF FlagInv
<1>7. StandsInv'
  <2>1. Mended(tty', pc') = tty'
    BY <1>1, <1>4, MendedEffect DEF Inside
  <2>2. QED BY <1>1, <1>4, <2>1, Heights DEF StandsInv, Below, Trail, First, r
<1>8. RoomInv'
  BY <1>1, <1>11, <1>4 DEF RoomInv, Stands, r
<1>9. FillsFit'
  BY <1>1 DEF FrontInv, FillsFit, Straying
<1>10. QED BY <1>5, <1>6, <1>7, <1>8, <1>9 DEF FrontInv, Shown
-----------------------------------------------------------------------------
\* What is known where a command, a word or a text can be typed.
LEMMA AtPrompt ==
    ASSUME FrontInv, pc \in {"main", "friends", "talk", "word", "text"}
    PROVE  /\ tty \in Terminal /\ top \in Int /\ top + Lines[screen] \in Int
           /\ top <= (top + Lines[screen]) - 9
           /\ Stands(tty, top, top + Lines[screen], 0, 0, stray)
           /\ First(screen, top) = top /\ screen # "form" /\ (Tame(stray) => top >= 0)
<1>1. /\ tty \in Terminal /\ top \in Int /\ screen \in {"main", "friends", "talk"}
      /\ Lines[screen] \in {9, 14, 16}
  BY Heights DEF FrontInv, FrontType, Shown
<1>2. First(screen, top) = top
  BY <1>1 DEF First
<1>3. Below(pc, screen) = 0 /\ Trail(pc, screen) = 0 /\ pc # "done"
  BY DEF Below, Trail
<1>4. Stands(tty, top, top + Lines[screen], 0, 0, stray)
  BY <1>2, <1>3, StandsNow DEF Inside
<1>5. QED BY <1>1, <1>2, <1>4 DEF Stands

\* A line is typed there; its row may then be erased.
LEMMA Typed ==
    ASSUME FrontInv, pc \in {"main", "friends", "talk", "word", "text"}
    PROVE  /\ Line(tty) \in Terminal
           /\ Stands(Line(tty), top, top + Lines[screen], 1, 1, stray)
           /\ Back(Line(tty)) \in Terminal
           /\ Stands(Back(Line(tty)), top, top + Lines[screen], 0, 0, stray)
<1> DEFINE b == top + Lines[screen]
           t == Line(tty)
<1>1. tty \in Terminal /\ top \in Int /\ b \in Int /\ top <= b - 9 /\ Stands(tty, top, b, 0, 0, stray)
  BY AtPrompt, Zenon
<1> HIDE DEF b
<1>2. t \in Terminal /\ Stands(t, top, b, 1, 1, stray)
  BY <1>1, LineStands
<1> HIDE DEF t
<1>3. Back(t) \in Terminal /\ Stands(Back(t), top, b, 0, 0, stray)
  BY <1>1, <1>2, BackStands
<1>4. QED BY <1>2, <1>3 DEF b, t

\* A new frame of h lines on a terminal that was cleared.
LEMMA Framed ==
    ASSUME NEW t \in Terminal, NEW b \in Int, NEW w, NEW h \in Nat, Stands(t, b, b, 0, 0, w)
    PROVE  /\ t.row \in Int /\ Printed(t, h) \in Terminal
           /\ Stands(Printed(t, h), t.row, t.row + h, 0, 0, w)
<1> DEFINE r == t.row
<1>1. r \in Int /\ r >= b /\ (Clean(w) => r = b) /\ (Tame(w) => b >= 0)
  BY StandsAt
<1> HIDE DEF r
<1>2. (Clean(w) => r = Lower(b, b)) /\ (Tame(w) => r >= 0 /\ b >= 0)
  BY <1>1 DEF Lower
<1>3. /\ Printed(t, h) \in Terminal
      /\ Stands(Printed(t, h), r, t.row + h, 0, 0, w)
  BY <1>1, <1>2, PrintedStands
<1>4. QED BY <1>1, <1>3 DEF r
-----------------------------------------------------------------------------
(* The steps of the main screen. *)

\* A line typed or printed where the row was erased covers it.
LEMMA MendedLine ==
    ASSUME NEW t \in Terminal, NEW p \in Inside
    PROVE  Line(Mended(t, p)) = Line(t)
<1> DEFINE m == Mended(t, p)
           x == Text(m)
           y == Text(t)
<1>1. m \in Terminal /\ m.row = t.row /\ m.used = t.used \cup {t.row} /\ m.topmost = t.topmost
  BY MendedEffect DEF Gap, Inside
<1> HIDE DEF m
<1>2. /\ x \in Terminal /\ y \in Terminal
      /\ x.row = y.row /\ x.used = y.used /\ x.topmost = y.topmost
  BY <1>1, TextEffect
<1> HIDE DEF x, y
<1>3. x = y
  BY <1>2 DEF Terminal
<1>4. QED BY <1>3 DEF Line, x, y, m

LEMMA MendedForm ==
    ASSUME NEW t \in Terminal
    PROVE  /\ Line(Down(t, 1)) \in Terminal
           /\ Mended(Line(Down(t, 1)), "registered") = Line(Down(Mended(t, "registering"), 1))
           /\ clear_string_surface(Line(Mended(t, "registered")), 12) = clear_string_surface(Line(t), 12)
<1>0. t.row \in Int /\ t.topmost \in Int /\ t.used \in SUBSET Int
  BY Typing
<1> DEFINE r == t.row
           u == Mended(t, "registering")
           v == Mended(t, "registered")
<1>1. u \in Terminal /\ u.row = r /\ u.used = t.used \cup {r} /\ u.topmost = t.topmost
  BY MendedEffect DEF Gap, Inside
<1>2. v \in Terminal /\ v.row = r /\ v.used = t.used \cup {r - 2} /\ v.topmost = t.topmost
  BY MendedEffect DEF Gap, Inside
<1> HIDE DEF u, v
<1>3. ASSUME NEW x \in Terminal
      PROVE  /\ Line(x) \in Terminal /\ Line(x).row = x.row + 1 /\ Line(x).used = x.used \cup {x.row}
             /\ Line(x).topmost = Lower(x.topmost, x.row)
  <2>1. Text(x) \in Terminal /\ Text(x).row = x.row /\ 1 \in Int
    BY TextEffect
  <2>2. QED BY <2>1, TextEffect, MoveEffect DEF Line
<1>4. /\ Down(t, 1) \in Terminal /\ Down(t, 1).row = r + 1 /\ Down(t, 1).used = t.used
      /\ Down(t, 1).topmost = t.topmost
  <2>1. 1 \in Int
    OBVIOUS
  <2>2. QED BY <2>1, MoveEffect
<1>5. /\ Down(u, 1) \in Terminal /\ Down(u, 1).row = r + 1 /\ Down(u, 1).used = t.used \cup {r}
      /\ Down(u, 1).topmost = t.topmost
  <2>1. 1 \in Int
    OBVIOUS
  <2>2. QED BY <1>1, <2>1, MoveEffect
<1> DEFINE x == Line(Down(t, 1))
           y == Line(Down(u, 1))
<1>6. /\ x \in Terminal /\ x.row = r + 2 /\ x.used = t.used \cup {r + 1}
      /\ x.topmost = Lower(t.topmost, r + 1)
  BY <1>0, <1>3, <1>4
<1>7. /\ y \in Terminal /\ y.row = r + 2 /\ y.used = t.used \cup {r} \cup {r + 1}
      /\ y.topmost = Lower(t.topmost, r + 1)
  BY <1>0, <1>3, <1>5
<1> HIDE DEF x, y
<1>8. Mended(x, "registered") = y
  <2> DEFINE z == Mended(x, "registered")
  <2>1. z \in Terminal /\ z.row = x.row /\ z.used = x.used \cup {x.row - 2} /\ z.topmost = x.topmost
    BY <1>6, MendedEffect DEF Gap
  <2> HIDE DEF z
  <2>2. z.used = y.used
    BY <1>0, <1>6, <1>7, <2>1
  <2>3. QED BY <1>6, <1>7, <2>1, <2>2 DEF Terminal, z
<1>9. clear_string_surface(Line(v), 12) = clear_string_surface(Line(t), 12)
  <2> DEFINE p == Line(v)
             q == Line(t)
  <2>1. /\ p.row = r + 1 /\ q.row = r + 1 /\ p.topmost = q.topmost
        /\ p.used = t.used \cup {r - 2} \cup {r} /\ q.used = t.used \cup {r}
    BY <1>2, <1>3
  <2> HIDE DEF p, q
  <2>2. p.used \ (p.row - 12 .. p.row - 1) = q.used \ (q.row - 12 .. q.row - 1)
    BY <1>0, <2>1
  <2>3. QED BY <2>1, <2>2 DEF clear_string_surface, p, q
<1>10. QED BY <1>6, <1>8, <1>9 DEF x, y, u, v

LEMMA OpenFormStep == FrontInv /\ OpenForm => FrontInv'
<1> SUFFICES ASSUME FrontInv, OpenForm PROVE FrontInv'
  OBVIOUS
<1> DEFINE t == Line(tty)
           cleared == clear_string_surface(t, 9)
           r == cleared.row
           form == Printed(cleared, 10)
<1>1. /\ pc = "main" /\ screen = "main" /\ pc' = "form" /\ screen' = "form"
      /\ tty' = Up(form, 7) /\ top' = r /\ misfilled' = misfilled
      /\ friendly' = friendly /\ open' = open
  BY Heights DEF OpenForm, FrontInv, Shown, Await, window, vars
<1>2. Straying /\ "register" \in stray'
  BY StrayStrays DEF OpenForm, FrontInv, Kinds
<1>3. t \in Terminal /\ Stands(t, top, top + 9, 1, 1, stray) /\ top \in Int /\ (Tame(stray) => top >= 0)
  BY <1>1, Heights, Typed, AtPrompt
<1>4. /\ cleared \in Terminal /\ Stands(cleared, top, top + 1, 0, 0, stray)
  <2> HIDE DEF t
  <2>1. top + 9 \in Int /\ (Tame(stray) => top + 9 + 1 >= 9) /\ (top + 9) + 1 - 9 = top + 1
    BY <1>3
  <2>2. cleared \in Terminal /\ Stands(cleared, top, (top + 9) + 1 - 9, 0, 0, stray)
    BY <1>3, <2>1, ClearStands
  <2>3. QED BY <2>1, <2>2
<1>5. Stands(cleared, top, top + 1, 0, 0, stray')
  BY <1>2, <1>4, StandsLater DEF Straying
<1> HIDE DEF cleared
<1>6. /\ r \in Int /\ (Clean(stray') => r = top + 1)
  <2>1. top + 1 \in Int
    BY <1>3
  <2>2. QED BY <1>4, <1>5, <2>1, StandsAt
<1> HIDE DEF r
<1>7. form \in Terminal /\ Stands(form, r - 1, r + 10, 0, 0, stray')
  <2>1. (Clean(stray') => r - 1 = Lower(top, top + 1)) /\ ~Tame(stray') /\ r - 1 \in Int /\ top + 1 \in Int
    BY <1>2, <1>3, <1>6 DEF Lower, Tame
  <2>2. form \in Terminal /\ Stands(form, r - 1, cleared.row + 10, 0, 0, stray')
    BY <1>3, <1>4, <1>5, <2>1, PrintedStands
  <2>3. QED BY <2>2 DEF r
<1> HIDE DEF form
<1>8. Up(form, 7) \in Terminal /\ Stands(Up(form, 7), r - 1, r + 10, -7, 0, stray')
  <2> DEFINE f == r - 1
             b == r + 10
  <2>1. f \in Int /\ b \in Int /\ 7 \in Int /\ Stands(form, f, b, 0, 0, stray')
    BY <1>6, <1>7
  <2> HIDE DEF f, b
  <2>2. Up(form, 7) \in Terminal /\ Stands(Up(form, 7), f, b, 0 - 7, 0, stray')
    <3>1. 0 \in Int
      OBVIOUS
    <3>2. QED BY <1>7, <2>1, <3>1, MoveStands, Zenon
  <2>3. Stands(Up(form, 7), f, b, -7, 0, stray')
    BY <2>2
  <2>4. QED BY <2>2, <2>3 DEF f, b
<1>9. FrontType' /\ Shown(pc', screen')
  BY <1>1, <1>2, <1>6, <1>8, Heights DEF FrontInv, FrontType, Straying, Shown, Waits, Prompts
<1>10. FlagInv'
  BY <1>1, <1>2 DEF FrontInv, FlagInv, Straying
<1>11. StandsInv'
  <2> DEFINE f == r - 1
             b == r + 10
  <2>1. f \in Int /\ b \in Int /\ f <= b - 11 /\ f <= b - 9
    BY <1>6
  <2>2. Below("form", "form") = -7 /\ Trail("form", "form") = 0
    BY DEF Below, Trail
  <2>3. Up(form, 7) \in Terminal /\ Stands(Up(form, 7), f, b, Below("form", "form"), Trail("form", "form"), stray')
    BY <1>8, <2>2
  <2> HIDE DEF f, b
  <2>4. Stands(Mended(Up(form, 7), "form"), f, b, Below("form", "form"), Trail("form", "form"), stray')
    BY <2>1, <2>3, MendStands
  <2>5. QED BY <1>1, <2>4, Heights DEF StandsInv, First, f, b
<1>12. RoomInv' /\ FillsFit'
  BY <1>1, <1>2 DEF FrontInv, RoomInv, FillsFit, Tame, Straying
<1>13. QED BY <1>9, <1>10, <1>11, <1>12 DEF FrontInv, Shown

LEMMA FormSteps == FrontInv /\ (FillForm \/ Registered) => FrontInv'
<1> SUFFICES ASSUME FrontInv, FillForm \/ Registered PROVE FrontInv'
  OBVIOUS
<1> DEFINE b == top + 10
           f == top - 1
<1>1. /\ screen = "form" /\ pc \in {"form", "registering"} /\ top \in Int /\ tty \in Terminal
      /\ Steady /\ friendly' = friendly /\ open' = open
  BY DEF FrontInv, FrontType, Shown, FillForm, Registered, window, vars
<1>2. b \in Int /\ f \in Int /\ f <= b - 11 /\ First(screen, top) = f /\ top + Lines[screen] = b
  BY <1>1, Heights DEF First
<1> DEFINE m == Mended(tty, pc)
<1>3. m \in Terminal /\ Stands(m, f, b, Below(pc, screen), Trail(pc, screen), stray)
  BY <1>1, <1>2, StandsNow, MendedEffect
<1> HIDE DEF b, f, m
<1>4. ASSUME NEW t \in Terminal, Stands(t, f, b, -1, 0, stray)
      PROVE  /\ Line(Down(t, 1)) \in Terminal /\ Stands(Line(Down(t, 1)), f, b, 1, 1, stray)
  <2>1. 1 \in Int /\ -1 \in Int
    OBVIOUS
  <2>2. Down(t, 1) \in Terminal /\ Stands(Down(t, 1), f, b, 0, 0, stray)
    BY <1>2, <1>4, <2>1, MoveStands
  <2>3. QED BY <1>2, <2>2, LineStands
<1>5. CASE FillForm
  <2> DEFINE t1 == Line(tty)
             t2 == Line(t1)
             t3 == Line(t2)
             t4 == Line(t3)
             t5 == Line(t4)
             t6 == Line(t5)
  <2>1. Stands(m, f, b, -7, 0, stray) /\ pc = "form"
    BY <1>3, <1>5 DEF FillForm, Below, Trail
  <2>2. t1 \in Terminal /\ Stands(t1, f, b, -6, 0, stray)
    <3>1. Line(m) \in Terminal /\ Stands(Line(m), f, b, -6, 0, stray)
      BY <1>2, <1>3, <2>1, LineStands
    <3>2. Line(m) = t1
      BY <1>1, <2>1, MendedLine DEF m, Inside
    <3>3. QED BY <3>1, <3>2
  <2> HIDE DEF t1
  <2>3. t2 \in Terminal /\ Stands(t2, f, b, -5, 0, stray)
    BY <1>2, <2>2, LineStands
  <2> HIDE DEF t2
  <2>4. t3 \in Terminal /\ Stands(t3, f, b, -4, 0, stray)
    BY <1>2, <2>3, LineStands
  <2> HIDE DEF t3
  <2>5. t4 \in Terminal /\ Stands(t4, f, b, -3, 0, stray)
    BY <1>2, <2>4, LineStands
  <2> HIDE DEF t4
  <2>6. t5 \in Terminal /\ Stands(t5, f, b, -2, 0, stray)
    BY <1>2, <2>5, LineStands
  <2> HIDE DEF t5
  <2>7. t6 \in Terminal /\ Stands(t6, f, b, -1, 0, stray)
    BY <1>2, <2>6, LineStands
  <2>8. Then(t6, "registering") \/ Then(Line(Down(t6, 1)), "registered")
    BY <1>5 DEF FillForm, t1, t2, t3, t4, t5
  <2> HIDE DEF t6
  <2>9. CASE Then(t6, "registering")
    <3>1. "registering" \in Waits /\ Shown("registering", screen)
          /\ Below("registering", screen) = -1 /\ Trail("registering", screen) = 0
      BY <1>1 DEF Waits, Asking, Shown, Below, Trail
    <3>2. Stands(t6, First(screen, top), top + Lines[screen], Below("registering", screen),
                 Trail("registering", screen), stray)
      BY <1>2, <2>7, <3>1
    <3>3. QED BY <1>1, <2>1, <2>7, <2>9, <3>1, <3>2, ThenStep
  <2>10. CASE Then(Line(Down(t6, 1)), "registered")
    <3>1. "registered" \in Waits /\ Shown("registered", screen)
          /\ Below("registered", screen) = 1 /\ Trail("registered", screen) = 1
      BY <1>1 DEF Waits, Pauses, Shown, Below, Trail
    <3>2. Line(Down(t6, 1)) \in Terminal /\ Stands(Line(Down(t6, 1)), f, b, 1, 1, stray)
      BY <1>4, <2>7
    <3>3. Stands(Line(Down(t6, 1)), First(screen, top), top + Lines[screen],
                 Below("registered", screen), Trail("registered", screen), stray)
      BY <1>2, <3>1, <3>2
    <3>4. QED BY <1>1, <2>1, <2>10, <3>1, <3>2, <3>3, ThenStep
  <2>11. QED BY <2>8, <2>9, <2>10
<1>6. CASE Registered
  <2> DEFINE t == Line(Down(tty, 1))
             u == Line(Down(m, 1))
  <2>1. pc = "registering" /\ Then(t, "registered") /\ Stands(m, f, b, -1, 0, stray)
    BY <1>3, <1>6 DEF Registered, Below, Trail
  <2>2. "registered" \in Waits /\ Shown("registered", screen)
        /\ Below("registered", screen) = 1 /\ Trail("registered", screen) = 1
    BY <1>1 DEF Waits, Pauses, Shown, Below, Trail
  <2>3. u \in Terminal /\ Stands(u, f, b, 1, 1, stray)
    BY <1>3, <1>4, <2>1
  <2>4. t \in Terminal /\ Mended(t, "registered") = u
    BY <1>1, <2>1, MendedForm DEF m
  <2> HIDE DEF t, u
  <2>5. Stands(Mended(t, "registered"), First(screen, top), top + Lines[screen],
               Below("registered", screen), Trail("registered", screen), stray)
    BY <1>2, <2>2, <2>3, <2>4
  <2>6. QED BY <1>1, <2>1, <2>2, <2>4, <2>5, ThenMended
<1>7. QED BY <1>5, <1>6

LEMMA LeaveFormStep == FrontInv /\ LeaveForm => FrontInv'
<1> SUFFICES ASSUME FrontInv, LeaveForm PROVE FrontInv'
  OBVIOUS
<1> DEFINE b == top + 10
           f == top - 1
           m == Mended(tty, pc)
           t == Line(m)
           u == clear_string_surface(t, 12)
<1>1. /\ pc = "registered" /\ screen = "form" /\ top \in Int /\ tty \in Terminal
      /\ Steady /\ friendly' = friendly /\ open' = open /\ MainAgain(u)
  <2>1. pc = "registered" /\ tty \in Terminal
    BY DEF FrontInv, FrontType, LeaveForm
  <2>2. u = clear_string_surface(Line(tty), 12)
    BY <2>1, MendedForm
  <2>3. QED BY <2>1, <2>2 DEF FrontInv, FrontType, Shown, LeaveForm, window, vars
<1>2. /\ "register" \in stray /\ ~open /\ (friendly => "unlisted" \in stray)
      /\ Straying /\ stray' = stray
  BY <1>1, SteadyStrays DEF FrontInv, FlagInv
<1>3. /\ b \in Int /\ f \in Int /\ f <= b - 11 /\ b + (2 - 12) = f + 1 /\ f + 1 \in Int
      /\ ~Tame(stray) /\ ~Tame(stray')
  BY <1>1, <1>2 DEF Tame
<1>4. m \in Terminal /\ Stands(m, f, b, 1, 1, stray)
  BY <1>1, StandsNow, MendedEffect, Heights DEF Below, Trail, First
<1> HIDE DEF b, f, m
<1>5. t \in Terminal /\ Stands(t, f, b, 2, 2, stray)
  BY <1>1, <1>3, <1>4, LineStands
<1> HIDE DEF t
<1>6. u \in Terminal /\ Stands(u, f, f + 1, 0, 0, stray')
  <2>1. u \in Terminal /\ Stands(u, f, b + 2 - 12, 0, 0, stray)
    BY <1>3, <1>5, ClearStands
  <2>2. QED BY <1>2, <1>3, <2>1
<1> HIDE DEF u
<1> DEFINE d == f + 1
<1>7. d \in Int /\ f >= d + (0 - 9) /\ Stands(u, f, d, 0, 0, stray')
  BY <1>3, <1>6
<1> HIDE DEF d
<1>8. pc # "done" /\ ~open' /\ (friendly => "unlisted" \in stray')
  BY <1>1, <1>2
<1>9. QED BY <1>1, <1>2, <1>3, <1>6, <1>7, <1>8, MainStep

\* The name and the password are typed into the frame.
LEMMA LoginSteps == FrontInv /\ (OpenLogin \/ get_login_data \/ LoggedIn) => FrontInv'
<1> SUFFICES ASSUME FrontInv, OpenLogin \/ get_login_data \/ LoggedIn PROVE FrontInv'
  OBVIOUS
<1> DEFINE b == top + 9
           f == top
<1>1. /\ screen = "main" /\ pc \in {"main", "name", "passwd", "joining"} /\ top \in Int
      /\ tty \in Terminal /\ Steady /\ friendly' = friendly /\ open' = open /\ pc # "done"
  BY DEF FrontInv, FrontType, Shown, OpenLogin, get_login_data, LoggedIn, window, vars
<1>2. b \in Int /\ f \in Int /\ f <= b - 9 /\ First(screen, top) = f /\ top + Lines[screen] = b
  BY <1>1, Heights DEF First
<1> DEFINE m == Mended(tty, pc)
<1>3. /\ m \in Terminal /\ Stands(m, f, b, Below(pc, screen), Trail(pc, screen), stray)
      /\ pc \in {"name", "passwd"} => Line(tty) = Line(m)
      /\ pc \in {"main", "joining"} => tty = m
  BY <1>1, <1>2, StandsNow, MendedEffect, MendedLine DEF Inside
<1> HIDE DEF m
<1>4. ASSUME NEW t \in Terminal, NEW p \in {"name", "passwd", "joining", "granted", "refused"},
             Then(t, p), Stands(t, f, b, Below(p, screen), Trail(p, screen), stray)
      PROVE  FrontInv'
  <2>1. p \in Waits /\ Shown(p, screen)
    BY <1>1 DEF Waits, Prompts, Asking, Pauses, Shown
  <2> HIDE DEF f, b
  <2>2. Stands(t, First(screen, top), top + Lines[screen], Below(p, screen), Trail(p, screen), stray)
    BY <1>2, <1>4
  <2>3. QED BY <1>1, <1>4, <2>1, <2>2, ThenStep
<1> HIDE DEF b, f
<1>5. CASE OpenLogin
  <2> DEFINE t == Back(Line(tty))
  <2>1. pc = "main" /\ Then(Up(t, 6), "name") /\ 6 \in Int /\ 0 \in Int
    BY <1>5 DEF OpenLogin
  <2>2. t \in Terminal /\ Stands(t, f, b, 0, 0, stray)
    BY <1>2, <2>1, Typed DEF f
  <2> HIDE DEF t
  <2>3. Up(t, 6) \in Terminal /\ Stands(Up(t, 6), f, b, 0 - 6, 0, stray)
    BY <1>2, <2>1, <2>2, MoveStands, Zenon
  <2>4. Below("name", screen) = 0 - 6 /\ Trail("name", screen) = 0
    BY DEF Below, Trail
  <2>5. QED BY <1>4, <2>1, <2>3, <2>4
<1>6. ASSUME pc = "name", Then(Down(Line(tty), 1), "passwd")
      PROVE  FrontInv'
  <2> DEFINE t == Line(tty)
  <2>1. Stands(m, f, b, -6, 0, stray) /\ t = Line(m)
    BY <1>3, <1>6 DEF Below, Trail
  <2>2. t \in Terminal /\ Stands(t, f, b, -5, 0, stray)
    <3>1. Line(m) \in Terminal /\ Stands(Line(m), f, b, -5, 0, stray)
      BY <1>2, <1>3, <2>1, LineStands
    <3>2. QED BY <2>1, <3>1
  <2> HIDE DEF t
  <2>3. Down(t, 1) \in Terminal /\ Stands(Down(t, 1), f, b, -5 + 1, 0, stray)
    <3>1. -5 \in Int /\ 0 \in Int /\ 1 \in Int
      OBVIOUS
    <3>2. QED BY <1>2, <2>2, <3>1, MoveStands, Zenon
  <2>4. Below("passwd", screen) = -5 + 1 /\ Trail("passwd", screen) = 0
    BY DEF Below, Trail
  <2>5. Then(Down(t, 1), "passwd")
    BY <1>6 DEF t
  <2>6. QED BY <1>4, <2>3, <2>4, <2>5
<1>7. ASSUME pc = "passwd", Then(Down(Line(tty), 3), "joining")
      PROVE  FrontInv'
  <2> DEFINE t == Line(tty)
  <2>1. Stands(m, f, b, -4, 0, stray) /\ t = Line(m)
    BY <1>3, <1>7 DEF Below, Trail
  <2>2. t \in Terminal /\ Stands(t, f, b, -3, 0, stray)
    <3>1. Line(m) \in Terminal /\ Stands(Line(m), f, b, -3, 0, stray)
      BY <1>2, <1>3, <2>1, LineStands
    <3>2. QED BY <2>1, <3>1
  <2> HIDE DEF t
  <2>3. Down(t, 3) \in Terminal /\ Stands(Down(t, 3), f, b, -3 + 3, 0, stray)
    <3>1. -3 \in Int /\ 0 \in Int /\ 3 \in Int
      OBVIOUS
    <3>2. QED BY <1>2, <2>2, <3>1, MoveStands, Zenon
  <2>4. Below("joining", screen) = -3 + 3 /\ Trail("joining", screen) = 0
    BY DEF Below, Trail
  <2>5. Then(Down(t, 3), "joining")
    BY <1>7 DEF t
  <2>6. QED BY <1>4, <2>3, <2>4, <2>5
<1>8. ASSUME NEW result \in {"granted", "refused"}, pc = "joining", Then(Line(tty), result)
      PROVE  FrontInv'
  <2>1. Stands(tty, f, b, 0, 0, stray)
    BY <1>3, <1>8 DEF Below, Trail
  <2>2. Line(tty) \in Terminal /\ Stands(Line(tty), f, b, 1, 1, stray)
    BY <1>1, <1>2, <2>1, LineStands
  <2>3. Below(result, screen) = 1 /\ Trail(result, screen) = 1
    BY DEF Below, Trail
  <2>4. QED BY <1>4, <1>8, <2>2, <2>3
<1>9. QED BY <1>5, <1>6, <1>7, <1>8 DEF get_login_data, LoggedIn

\* After a login the frame is cleared, with the two lines under it.
LEMMA Answered ==
    ASSUME FrontInv, pc \in {"granted", "refused"}
    PROVE  /\ screen = "main" /\ top \in Int /\ top + 9 \in Int
           /\ clear_string_surface(Line(tty), 11) \in Terminal
           /\ Stands(clear_string_surface(Line(tty), 11), top, top, 0, 0, stray)
<1> DEFINE b == top + 9
           t == Line(tty)
<1>1. screen = "main" /\ top \in Int /\ tty \in Terminal /\ pc # "done"
  BY DEF FrontInv, FrontType, Shown
<1>2. b \in Int /\ top <= b - 9 /\ b + (2 - 11) = top /\ (Tame(stray) => b + 2 >= 11)
  BY <1>1 DEF FrontInv, RoomInv
<1>3. Stands(tty, top, b, 1, 1, stray)
  BY <1>1, StandsNow, Heights DEF Below, Trail, First, Inside
<1> HIDE DEF b
<1>4. t \in Terminal /\ Stands(t, top, b, 2, 2, stray)
  BY <1>1, <1>2, <1>3, LineStands
<1> HIDE DEF t
<1>5. clear_string_surface(t, 11) \in Terminal
      /\ Stands(clear_string_surface(t, 11), top, b + (2 - 11), 0, 0, stray)
  BY <1>1, <1>2, <1>4, ClearStands
<1>6. QED BY <1>1, <1>2, <1>5 DEF b, t

LEMMA RefusedStep == FrontInv /\ Refused => FrontInv'
<1> SUFFICES ASSUME FrontInv, Refused PROVE FrontInv'
  OBVIOUS
<1> DEFINE t == clear_string_surface(Line(tty), 11)
<1>1. /\ pc = "refused" /\ friendly' = friendly /\ open' = open /\ MainAgain(t)
  BY DEF Refused, window, vars
<1>2. Straying /\ "refused" \in stray'
  BY StrayStrays DEF Refused, FrontInv, Kinds
<1>3. t \in Terminal /\ top \in Int /\ screen = "main" /\ Stands(t, top, top, 0, 0, stray')
  BY <1>1, <1>2, Answered, StandsLater DEF Straying
<1> HIDE DEF t
<1>4. pc # "done" /\ ~open' /\ (friendly => "unlisted" \in stray') /\ ~Tame(stray')
  BY <1>1, <1>2, <1>3 DEF FrontInv, FlagInv, Straying, Tame
<1>5. top >= top + (0 - 9)
  BY <1>3
<1>6. QED BY <1>1, <1>2, <1>3, <1>4, <1>5, MainStep

LEMMA GrantedStep == FrontInv /\ Granted => FrontInv'
<1> SUFFICES ASSUME FrontInv, Granted PROVE FrontInv'
  OBVIOUS
<1> DEFINE t == clear_string_surface(Line(tty), 11)
           r == t.row
           u == Printed(t, 16)
<1>1. /\ pc = "granted" /\ tty' = u /\ screen' = "friends" /\ top' = r /\ pc' = "listing"
      /\ friendly' = TRUE /\ misfilled' = misfilled /\ open' = open /\ Steady
  BY Heights DEF Granted, Await, window, vars
<1>2. Straying /\ stray' = stray
  BY <1>1, SteadyStrays DEF FrontInv
<1>3. t \in Terminal /\ top \in Int /\ screen = "main" /\ Stands(t, top, top, 0, 0, stray)
  BY <1>1, Answered
<1> HIDE DEF t
<1>4. r \in Int /\ u \in Terminal /\ Stands(u, r, r + 16, 0, 0, stray)
  <2>1. 16 \in Nat
    OBVIOUS
  <2>2. QED BY <1>3, <2>1, Framed
<1> HIDE DEF r, u
<1>5. FrontType' /\ Shown(pc', screen')
  BY <1>1, <1>2, <1>4, Heights DEF FrontInv, FrontType, Straying, Shown, Waits, Asking
<1>6. FlagInv'
  BY <1>1, <1>3 DEF FrontInv, FlagInv
<1>7. StandsInv'
  <2>1. Mended(tty', pc') = tty'
    BY <1>1, <1>4, MendedEffect DEF Inside
  <2>2. QED BY <1>1, <1>2, <1>4, <2>1, Heights DEF StandsInv, First, Below, Trail
<1>8. RoomInv' /\ FillsFit'
  BY <1>1, <1>2, <1>4 DEF FrontInv, RoomInv, FillsFit, Stands
<1>9. QED BY <1>5, <1>6, <1>7, <1>8 DEF FrontInv, Shown
-----------------------------------------------------------------------------
(* The next command of the screen that is shown. *)

\* The cursor is on the row below the frame again.
LEMMA AgainStep ==
    ASSUME FrontInv, NEW t \in Terminal, screen # "form", pc # "done", Again(t), Straying,
           friendly' = friendly, open' = open, friendly /\ screen = "main" => "unlisted" \in stray',
           Stands(t, top, top + Lines[screen], 0, 0, stray')
    PROVE  FrontInv'
<1>1. top \in Int /\ screen \in {"main", "friends", "talk"} /\ friendly' \in BOOLEAN
  BY Heights DEF FrontInv, FrontType
<1>2. CASE screen = "main"
  <2> DEFINE b == top + 9
  <2>1. MainAgain(t) /\ Stands(t, top, b, 0, 0, stray') /\ ~open' /\ (friendly => "unlisted" \in stray')
    BY <1>2, Heights DEF Again, FrontInv, FlagInv
  <2>2. /\ b \in Int /\ top >= b + (0 - 9)
        /\ Tame(stray') => b + 0 >= 9 /\ (friendly => b + 0 >= 17)
    <3>1. Tame(stray') => top >= 0 /\ (friendly => top >= 8)
      BY <1>2 DEF FrontInv, RoomInv, Straying, Tame
    <3>2. QED BY <1>1, <3>1
  <2> HIDE DEF b
  <2>3. QED BY <1>1, <2>1, <2>2, MainStep
<1>3. ASSUME NEW s \in {"friends", "talk"}, screen = s, Fill(t, s, screen, top), pc' = s,
             UNCHANGED <<screen, top>>
      PROVE  FrontInv'
  <2>1. s \in Waits /\ Shown(s, s) /\ Below(s, s) = 0 /\ Trail(s, s) = 0
    BY DEF Waits, Prompts, Shown, Below, Trail
  <2>2. Stands(t, top, top + Lines[s], 0, 0, stray')
    BY <1>3
  <2>3. FlagInv'
    BY <1>3 DEF FrontInv, FlagInv, Straying
  <2>4. Fill(t, s, s, top)
    BY <1>3
  <2>5. QED BY <1>1, <1>3, <2>1, <2>2, <2>3, <2>4, FillStep
<1>4. CASE screen = "friends"
  BY <1>3, <1>4 DEF Again, FriendsAgain, Await
<1>5. CASE screen = "talk"
  BY <1>3, <1>5 DEF Again, TalkAgain, Await
<1>6. QED BY <1>1, <1>2, <1>4, <1>5

LEMMA NothingStep == FrontInv /\ Nothing => FrontInv'
<1> SUFFICES ASSUME FrontInv, Nothing PROVE FrontInv'
  OBVIOUS
<1> DEFINE b == top + Lines[screen]
           t == Line(tty)
<1>1. /\ pc \in {"friends", "talk"} /\ Again(t) /\ friendly' = friendly /\ open' = open
      /\ screen \in {"friends", "talk"}
  BY DEF Nothing, FrontInv, Shown, window, vars
<1>2. Straying /\ "nothing" \in stray'
  BY StrayStrays DEF Nothing, FrontInv, Kinds
<1>3. t \in Terminal /\ b \in Int /\ Stands(t, top, b, 1, 1, stray)
  BY <1>1, Typed, AtPrompt
<1> HIDE DEF b, t
<1>4. Stands(t, top, b, 0, 0, stray')
  <2>1. Stands(t, top, b, 1, 1, stray')
    BY <1>2, <1>3, StandsLater DEF Straying
  <2>2. t.row \in Int /\ t.row >= b + 1 /\ ~Clean(stray')
    BY <1>2, <1>3, <2>1, Typing DEF Stands, Clean
  <2> DEFINE r == t.row
  <2> HIDE DEF r
  <2>3. r >= b + 0
    <3>1. r \in Int /\ r >= b + 1
      BY <2>2 DEF r
    <3>2. QED BY <1>3, <3>1
  <2>4. QED BY <1>2, <2>1, <2>2, <2>3 DEF Stands, r
<1>5. QED BY <1>1, <1>2, <1>3, <1>4, AgainStep DEF b

\* Without the list of friends, main goes on under eight rows of its frame.
LEMMA ListedStep == FrontInv /\ Listed => FrontInv'
<1> SUFFICES ASSUME FrontInv, Listed PROVE FrontInv'
  OBVIOUS
<1> DEFINE b == top + 16
           t == Line(tty)
<1>1. /\ pc = "listing" /\ screen = "friends" /\ friendly' = friendly /\ open' = open
      /\ tty \in Terminal /\ top \in Int /\ friendly /\ ~open
      /\ friendly' \in BOOLEAN
  BY DEF Listed, FrontInv, FrontType, FlagInv, Shown, window, vars
<1>2. b \in Int /\ top <= b - 16 /\ Stands(tty, top, b, 0, 0, stray) /\ top + Lines[screen] = b
  BY <1>1, StandsNow, Heights DEF Below, Trail, First, Inside
<1>3. CASE FriendsAgain(tty) /\ Steady
  <2>1. Straying /\ stray' = stray
    BY <1>3, SteadyStrays DEF FrontInv
  <2>2. Again(tty) /\ Stands(tty, top, top + Lines[screen], 0, 0, stray')
    BY <1>1, <1>2, <1>3, <2>1 DEF Again
  <2>3. QED BY <1>1, <2>1, <2>2, AgainStep
<1>4. CASE MainAgain(t) /\ Stray("unlisted")
  <2>1. Straying /\ "unlisted" \in stray'
    BY <1>4, StrayStrays DEF FrontInv, Kinds
  <2>2. ~Clean(stray') /\ ~open'
    BY <1>1, <2>1 DEF Clean
  <2>3. Tame(stray') => b + 1 >= 17
    <3>1. Tame(stray') => top >= 0
      BY <2>1 DEF FrontInv, RoomInv, Straying, Tame
    <3>2. QED BY <1>1, <3>1
  <2> HIDE DEF b
  <2>4. t \in Terminal /\ Stands(t, top, b, 1, 1, stray)
    BY <1>1, <1>2, LineStands
  <2> HIDE DEF t
  <2>5. Stands(t, top, b, 1, 1, stray')
    BY <2>1, <2>4, StandsLater DEF Straying
  <2>6. pc # "done" /\ (friendly => "unlisted" \in stray') /\ MainAgain(t)
        /\ (Tame(stray') => b + 1 >= 9 /\ (friendly => b + 1 >= 17))
    BY <1>1, <1>2, <1>4, <2>1, <2>3
  <2>7. QED BY <1>1, <1>2, <2>1, <2>2, <2>4, <2>5, <2>6, MainStep
<1>5. QED BY <1>3, <1>4 DEF Listed

\* The messages of help and of a wrong command are erased as they were printed.
LEMMA MessageSteps == FrontInv /\ (help_cmd \/ deal_error_cmd \/ Helped \/ Erred) => FrontInv'
<1> SUFFICES ASSUME FrontInv, help_cmd \/ deal_error_cmd \/ Helped \/ Erred PROVE FrontInv'
  OBVIOUS
<1> DEFINE b == top + Lines[screen]
<1>1. /\ pc \in {"main", "friends", "talk", "helped", "erred"} /\ screen \in {"main", "friends", "talk"}
      /\ friendly' = friendly /\ open' = open /\ Steady /\ tty \in Terminal /\ top \in Int
  BY Heights DEF help_cmd, deal_error_cmd, Helped, Erred, Commanding, FrontInv, FrontType, Shown, window, vars
<1>2. b \in Int /\ top <= b - 9 /\ First(screen, top) = top
  BY <1>1, Heights DEF First
<1> DEFINE m == Mended(tty, pc)
<1>3. /\ m \in Terminal /\ Stands(m, top, b, Below(pc, screen), Trail(pc, screen), stray)
      /\ pc \in {"helped", "erred"} => Line(tty) = Line(m)
  BY <1>1, <1>2, StandsNow, MendedEffect, MendedLine DEF Inside
<1> HIDE DEF m
<1>4. Straying /\ stray' = stray /\ (friendly /\ screen = "main" => "unlisted" \in stray')
  BY <1>1, SteadyStrays DEF FrontInv, FlagInv
<1> HIDE DEF b
<1>5. ASSUME NEW t \in Terminal, NEW p \in {"helped", "erred"}, Then(t, p), pc # "done",
             Stands(t, top, b, Below(p, screen), Trail(p, screen), stray)
      PROVE  FrontInv'
  <2>1. p \in Waits /\ Shown(p, screen)
    BY <1>1 DEF Waits, Pauses, Shown
  <2>2. Stands(t, First(screen, top), top + Lines[screen], Below(p, screen), Trail(p, screen), stray)
    BY <1>2, <1>5 DEF b
  <2>3. QED BY <1>1, <1>5, <2>1, <2>2, ThenStep
<1>6. ASSUME NEW t \in Terminal, Again(t), pc # "done", Stands(t, top, b, 0, 0, stray)
      PROVE  FrontInv'
  BY <1>1, <1>4, <1>6, AgainStep DEF b
<1>7. ASSUME pc \in {"main", "friends", "talk"}
      PROVE  /\ Line(tty) \in Terminal /\ Stands(Line(tty), top, b, 1, 1, stray)
             /\ Back(Line(tty)) \in Terminal /\ Stands(Back(Line(tty)), top, b, 0, 0, stray)
  BY <1>7, Typed DEF b
<1>8. CASE help_cmd
  <2> DEFINE t == Back(Line(tty))
             usage == Line(t)
             more == Line(usage)
  <2>1. pc \in {"main", "friends", "talk"} /\ Then(Text(IF screen = "friends" THEN more ELSE usage), "helped")
    BY <1>8 DEF help_cmd, Commanding
  <2>2. t \in Terminal /\ Stands(t, top, b, 0, 0, stray)
    BY <1>7, <2>1
  <2> HIDE DEF t
  <2>3. usage \in Terminal /\ Stands(usage, top, b, 1, 1, stray)
    BY <1>1, <1>2, <2>2, LineStands
  <2> HIDE DEF usage
  <2>4. more \in Terminal /\ Stands(more, top, b, 2, 2, stray)
    BY <1>1, <1>2, <2>3, LineStands
  <2> HIDE DEF more
  <2>5. CASE screen = "friends"
    <3>1. Text(more) \in Terminal /\ Stands(Text(more), top, b, 2, 3, stray)
      BY <1>1, <1>2, <2>4, TextStands
    <3>2. Below("helped", screen) = 2 /\ Trail("helped", screen) = 3
      BY <2>5 DEF Below, Trail
    <3>3. QED BY <1>5, <2>1, <2>5, <3>1, <3>2
  <2>6. CASE screen # "friends"
    <3>1. Text(usage) \in Terminal /\ Stands(Text(usage), top, b, 1, 2, stray)
      BY <1>1, <1>2, <2>3, TextStands
    <3>2. Below("helped", screen) = 1 /\ Trail("helped", screen) = 2
      BY <2>6 DEF Below, Trail
    <3>3. QED BY <1>5, <2>1, <2>6, <3>1, <3>2
  <2>7. QED BY <2>5, <2>6
<1>9. CASE deal_error_cmd
  <2> DEFINE t == Line(tty)
             u == Up(t, 1)
  <2>1. pc \in {"main", "friends", "talk"} /\ Then(Text(u), "erred") /\ 1 \in Int
    BY <1>9 DEF deal_error_cmd, Commanding
  <2>2. t \in Terminal /\ Stands(t, top, b, 1, 1, stray)
    BY <1>7, <2>1
  <2> HIDE DEF t
  <2>3. u \in Terminal /\ Stands(u, top, b, 0, 1, stray)
    <3>1. Stands(u, top, b, 1 - 1, 1, stray) /\ u \in Terminal
      BY <1>1, <1>2, <2>1, <2>2, MoveStands, Zenon
    <3>2. QED BY <3>1
  <2> HIDE DEF u
  <2>4. Text(u) \in Terminal /\ Stands(Text(u), top, b, 0, 1, stray)
    BY <1>1, <1>2, <2>3, TextStands
  <2>5. Below("erred", screen) = 0 /\ Trail("erred", screen) = 1
    BY DEF Below, Trail
  <2>6. QED BY <1>5, <2>1, <2>4, <2>5
<1>10. CASE Helped
  <2> DEFINE t1 == Line(m)
             t2 == Back(t1)
             t3 == Back(t2)
  <2>1. pc = "helped" /\ Again(IF screen = "friends" THEN Back(t3) ELSE t3)
    BY <1>3, <1>10 DEF Helped
  <2>2. CASE screen = "friends"
    <3>1. Stands(m, top, b, 2, 3, stray)
      BY <1>3, <2>1, <2>2 DEF Below, Trail
    <3>2. t1 \in Terminal /\ Stands(t1, top, b, 3, 3, stray)
      BY <1>1, <1>2, <1>3, <3>1, LineStands
    <3> HIDE DEF t1
    <3>3. t2 \in Terminal /\ Stands(t2, top, b, 2, 2, stray)
      BY <1>1, <1>2, <3>2, BackStands
    <3> HIDE DEF t2
    <3>4. t3 \in Terminal /\ Stands(t3, top, b, 1, 1, stray)
      BY <1>1, <1>2, <3>3, BackStands
    <3> HIDE DEF t3
    <3>5. Back(t3) \in Terminal /\ Stands(Back(t3), top, b, 0, 0, stray)
      BY <1>1, <1>2, <3>4, BackStands
    <3>6. QED BY <1>6, <2>1, <2>2, <3>5
  <2>3. CASE screen # "friends"
    <3>1. Stands(m, top, b, 1, 2, stray)
      BY <1>3, <2>1, <2>3 DEF Below, Trail
    <3>2. t1 \in Terminal /\ Stands(t1, top, b, 2, 2, stray)
      BY <1>1, <1>2, <1>3, <3>1, LineStands
    <3> HIDE DEF t1
    <3>3. t2 \in Terminal /\ Stands(t2, top, b, 1, 1, stray)
      BY <1>1, <1>2, <3>2, BackStands
    <3> HIDE DEF t2
    <3>4. t3 \in Terminal /\ Stands(t3, top, b, 0, 0, stray)
      BY <1>1, <1>2, <3>3, BackStands
    <3> HIDE DEF t3
    <3>5. QED BY <1>6, <2>1, <2>3, <3>4
  <2>4. QED BY <2>2, <2>3
<1>11. CASE Erred
  <2> DEFINE t == Line(m)
  <2>1. pc = "erred" /\ Again(Back(t)) /\ Stands(m, top, b, 0, 1, stray)
    BY <1>3, <1>11 DEF Erred, Below, Trail
  <2>2. t \in Terminal /\ Stands(t, top, b, 1, 1, stray)
    BY <1>1, <1>2, <1>3, <2>1, LineStands
  <2> HIDE DEF t
  <2>3. Back(t) \in Terminal /\ Stands(Back(t), top, b, 0, 0, stray)
    BY <1>1, <1>2, <2>2, BackStands
  <2>4. QED BY <1>6, <2>1, <2>3
<1>12. QED BY <1>8, <1>9, <1>10, <1>11

LEMMA QuitStep == FrontInv /\ Quit => FrontInv'
<1> SUFFICES ASSUME FrontInv, Quit PROVE FrontInv'
  OBVIOUS
<1>1. /\ pc \in {"main", "friends"} /\ friendly' = friendly /\ open' = open /\ Steady
      /\ First(screen, top) = top
  BY DEF Quit, FrontInv, Shown, First, window, vars
<1>2. PICK t \in {Line(tty), Back(Line(tty))} :
        Then(t, "quitting") /\ t = IF pc = "main" THEN Line(tty) ELSE Back(Line(tty))
  BY DEF Quit
<1>3. "quitting" \in Waits /\ Shown("quitting", screen)
  BY <1>1 DEF FrontInv, Shown, Waits, Asking
<1>4. t \in Terminal /\ Stands(t, top, top + Lines[screen], Below("quitting", screen),
                               Trail("quitting", screen), stray)
  <2>1. CASE pc = "main"
    <3>1. Below("quitting", screen) = 1 /\ Trail("quitting", screen) = 1
      BY <2>1 DEF FrontInv, Shown, Below, Trail
    <3>2. QED BY <1>1, <1>2, <2>1, <3>1, Typed
  <2>2. CASE pc = "friends"
    <3>1. Below("quitting", screen) = 0 /\ Trail("quitting", screen) = 0
      BY <2>2 DEF FrontInv, Shown, Below, Trail
    <3>2. QED BY <1>1, <1>2, <2>2, <3>1, Typed
  <2>3. QED BY <1>1, <2>1, <2>2
<1>5. QED BY <1>1, <1>2, <1>3, <1>4, ThenStep

LEMMA DoneStep == FrontInv /\ Done => FrontInv'
<1> SUFFICES ASSUME FrontInv, Done PROVE FrontInv'
  OBVIOUS
<1>1. /\ pc = "quitting" /\ screen \in {"main", "friends"} /\ Steady /\ open' = open
      /\ tty \in Terminal /\ top \in Int
      /\ pc' = "done" /\ screen' = screen /\ top' = top /\ misfilled' = misfilled
  BY DEF Done, Then, Await, FrontInv, FrontType, Shown, window, vars
<1>2. Straying /\ stray' = stray
  BY <1>1, SteadyStrays DEF FrontInv
<1>3. /\ tty' \in Terminal /\ (Tame(stray) => tty'.topmost >= 0)
      /\ screen = "main" => friendly' = friendly
      /\ screen = "friends" => friendly' = FALSE
  <2>1. CASE screen = "main"
    BY <1>1, <2>1 DEF Done, Then, FrontInv, RoomInv
  <2>2. CASE screen = "friends"
    <3> DEFINE b == top + 16
               t == clear_string_surface(tty, 16)
    <3>1. tty' = t /\ friendly' = FALSE
      BY <2>2 DEF Done, Then
    <3>2. Stands(tty, top, b, 0, 0, stray) /\ b \in Int /\ (Tame(stray) => b + 0 >= 16)
      <4>1. Stands(tty, top, b, 0, 0, stray) /\ (Tame(stray) => top >= 0)
        BY <1>1, <2>2, StandsNow, Heights DEF FrontInv, Below, Trail, First, RoomInv, Inside
      <4>2. QED BY <1>1, <4>1
    <3> HIDE DEF b
    <3>3. t \in Terminal /\ Stands(t, top, b + (0 - 16), 0, 0, stray)
      BY <1>1, <3>2, ClearStands
    <3> HIDE DEF t
    <3>4. Tame(stray) => t.topmost >= 0
      BY <3>3 DEF Stands
    <3>5. QED BY <2>2, <3>1, <3>3, <3>4
  <2>3. QED BY <1>1, <2>1, <2>2
<1>4. FrontType'
  <2>1. friendly' \in BOOLEAN
    BY <1>1, <1>3 DEF FrontInv, FrontType
  <2>2. QED BY <1>1, <1>2, <1>3, <2>1 DEF FrontInv, FrontType, Straying
<1>5. Shown(pc', screen') /\ StandsInv'
  BY <1>1 DEF Shown, StandsInv
<1>6. FlagInv'
  BY <1>1, <1>2, <1>3 DEF FrontInv, FlagInv
<1>7. RoomInv' /\ FillsFit'
  BY <1>1, <1>2, <1>3 DEF FrontInv, RoomInv, FillsFit
<1>8. QED BY <1>4, <1>5, <1>6, <1>7 DEF FrontInv, Shown

\* Keys, and the word or the lines that are typed under the frame.
LEMMA TypingSteps ==
    FrontInv /\ (FriendKey \/ ModifyState \/ get_user_state \/ TalkKey \/ OpenText \/ SendLine \/ CloseText)
        => FrontInv'
<1> SUFFICES ASSUME FrontInv, FriendKey \/ ModifyState \/ get_user_state \/ TalkKey \/ OpenText
                              \/ SendLine \/ CloseText
             PROVE FrontInv'
  OBVIOUS
<1> DEFINE b == top + Lines[screen]
<1>1. /\ pc \in {"friends", "word", "talk", "text"} /\ screen \in {"friends", "talk"}
      /\ pc \in {"friends", "word"} <=> screen = "friends"
      /\ friendly' = friendly /\ open' = open /\ Steady /\ pc # "done"
  BY DEF FriendKey, ModifyState, get_user_state, TalkKey, OpenText, SendLine, CloseText, FrontInv, Shown,
         window, vars, ScrollUp, ScrollDown
<1>2. /\ tty \in Terminal /\ Stands(tty, top, b, 0, 0, stray) /\ First(screen, top) = top
      /\ Line(tty) \in Terminal /\ Stands(Line(tty), top, b, 1, 1, stray)
      /\ Back(Line(tty)) \in Terminal /\ Stands(Back(Line(tty)), top, b, 0, 0, stray)
  BY <1>1, AtPrompt, Typed
<1>3. Straying /\ stray' = stray
  BY <1>1, SteadyStrays DEF FrontInv
<1> HIDE DEF b
<1>4. ASSUME NEW t \in Terminal, NEW p \in {"word", "changing", "text", "sending"}, Then(t, p),
             p \in {"word", "changing"} <=> screen = "friends",
             Stands(t, top, b, Below(p, screen), Trail(p, screen), stray)
      PROVE  FrontInv'
  <2>1. p \in Waits /\ Shown(p, screen)
    BY <1>1, <1>4 DEF Waits, Prompts, Asking, Shown
  <2>2. Stands(t, First(screen, top), top + Lines[screen], Below(p, screen), Trail(p, screen), stray)
    BY <1>2, <1>4 DEF b
  <2>3. QED BY <1>1, <1>4, <2>1, <2>2, ThenStep
<1>5. ASSUME NEW t \in {tty, Back(Line(tty))}, Again(t)
      PROVE  FrontInv'
  <2>1. t \in Terminal /\ Stands(t, top, top + Lines[screen], 0, 0, stray')
    BY <1>2, <1>3 DEF b
  <2>2. screen # "form" /\ screen # "main"
    BY <1>1
  <2>3. QED BY <1>1, <1>3, <1>5, <2>1, <2>2, AgainStep
<1>6. /\ Below("word", screen) = 0 /\ Trail("word", screen) = 0
      /\ Below("changing", screen) = 1 /\ Trail("changing", screen) = 1
      /\ Below("text", screen) = 0 /\ Trail("text", screen) = 0
      /\ Below("sending", screen) = 1 /\ Trail("sending", screen) = 1
  BY DEF Below, Trail
<1>7. CASE FriendKey \/ TalkKey \/ CloseText
  <2>1. Again(tty) \/ Again(Back(Line(tty)))
    BY <1>1, <1>7 DEF FriendKey, TalkKey, CloseText, Again
  <2>2. QED BY <1>5, <2>1
<1>8. CASE ModifyState \/ OpenText
  <2>1. \/ Then(Back(Line(tty)), "word") /\ screen = "friends"
        \/ Then(Back(Line(tty)), "text") /\ screen = "talk"
    BY <1>1, <1>8 DEF ModifyState, OpenText
  <2>2. QED BY <1>2, <1>4, <1>6, <2>1
<1>9. CASE get_user_state \/ SendLine
  <2>1. \/ Then(Line(tty), "changing") /\ screen = "friends"
        \/ Then(Line(tty), "sending") /\ screen = "talk"
    BY <1>1, <1>9 DEF get_user_state, SendLine
  <2>2. QED BY <1>2, <1>4, <1>6, <2>1
<1>10. QED BY <1>7, <1>8, <1>9

LEMMA ModifiedStep == FrontInv /\ Modified => FrontInv'
<1> SUFFICES ASSUME FrontInv, Modified PROVE FrontInv'
  OBVIOUS
<1> DEFINE b == top + 16
           t == Back(tty)
<1>1. /\ pc = "changing" /\ screen = "friends" /\ friendly' = friendly /\ open' = open /\ Steady
      /\ tty \in Terminal /\ top \in Int /\ Again(t)
  BY DEF Modified, FrontInv, FrontType, Shown, Again, window, vars
<1>2. /\ b \in Int /\ top <= b - 16 /\ Stands(tty, top, b, 1, 1, stray) /\ top + Lines[screen] = b
  BY <1>1, StandsNow, Heights DEF Below, Trail, First, Inside
<1>3. Straying /\ stray' = stray
  BY <1>1, SteadyStrays DEF FrontInv
<1> HIDE DEF b
<1>4. t \in Terminal /\ Stands(t, top, b, 0, 0, stray)
  BY <1>1, <1>2, BackStands
<1> HIDE DEF t
<1>5. Stands(t, top, top + Lines[screen], 0, 0, stray')
  BY <1>2, <1>3, <1>4
<1>6. QED BY <1>1, <1>3, <1>4, <1>5, AgainStep

LEMMA SentStep == FrontInv /\ Sent => FrontInv'
<1> SUFFICES ASSUME FrontInv, Sent PROVE FrontInv'
  OBVIOUS
<1> DEFINE b == top + 14
           t == Back(tty)
<1>1. /\ pc = "sending" /\ screen = "talk" /\ screen' = "talk" /\ friendly' = friendly /\ open' = open
      /\ Steady /\ tty \in Terminal /\ top \in Int /\ top' = top /\ pc' = "text"
      /\ Fill(t, "talk", "talk", top) /\ friendly' \in BOOLEAN
  BY DEF Sent, Send, Add, Await, FrontInv, FrontType, Shown
<1>2. /\ b \in Int /\ top <= b - 14 /\ Stands(tty, top, b, 1, 1, stray) /\ top + Lines["talk"] = b
  BY <1>1, StandsNow, Heights DEF Below, Trail, First, Inside
<1>3. Straying /\ stray' = stray
  BY <1>1, SteadyStrays DEF FrontInv
<1> HIDE DEF b
<1>4. t \in Terminal /\ Stands(t, top, b, 0, 0, stray)
  BY <1>1, <1>2, BackStands
<1> HIDE DEF t
<1>5. Stands(t, top, top + Lines["talk"], 0, 0, stray')
  BY <1>2, <1>3, <1>4
<1>6. "text" \in Waits /\ Shown("text", "talk") /\ Below("text", "talk") = 0 /\ Trail("text", "talk") = 0
  BY DEF Waits, Prompts, Shown, Below, Trail
<1>7. FlagInv'
  BY <1>1, <1>3 DEF FrontInv, FlagInv
<1>8. "talk" \in {"friends", "talk"} /\ pc # "done"
  BY <1>1
<1>9. QED BY <1>1, <1>3, <1>4, <1>5, <1>6, <1>7, <1>8, FillStep

LEMMA OpenTalkStep == FrontInv /\ OpenTalk => FrontInv'
<1> SUFFICES ASSUME FrontInv, OpenTalk PROVE FrontInv'
  OBVIOUS
<1> DEFINE b == top + 16
           t == Line(tty)
           cleared == clear_string_surface(t, 17)
           r == cleared.row
           u == Printed(cleared, 14)
<1>1. /\ pc = "friends" /\ screen = "friends" /\ screen' = "talk" /\ top' = r /\ pc' = "talk"
      /\ Fill(u, "talk", "talk", r) /\ friendly' = FALSE /\ open' = TRUE /\ Steady /\ top \in Int
  BY Heights DEF OpenTalk, Open, Await, FrontInv, FrontType, Shown
<1>2. Straying /\ stray' = stray
  BY <1>1, SteadyStrays DEF FrontInv
<1>3. /\ t \in Terminal /\ Stands(t, top, b, 1, 1, stray)
      /\ b \in Int /\ b + (1 - 17) = top /\ (Tame(stray) => b + 1 >= 17)
  <2>1. t \in Terminal /\ Stands(t, top, b, 1, 1, stray) /\ (Tame(stray) => top >= 0)
    BY <1>1, Typed, AtPrompt, Heights
  <2>2. QED BY <1>1, <2>1
<1> HIDE DEF b, t
<1>4. cleared \in Terminal /\ Stands(cleared, top, top, 0, 0, stray)
  <2>1. cleared \in Terminal /\ Stands(cleared, top, b + (1 - 17), 0, 0, stray)
    BY <1>1, <1>3, ClearStands
  <2>2. QED BY <1>3, <2>1
<1> HIDE DEF cleared
<1>5. r \in Int /\ u \in Terminal /\ Stands(u, r, r + 14, 0, 0, stray)
  <2>1. 14 \in Nat
    OBVIOUS
  <2>2. QED BY <1>1, <1>4, <2>1, Framed
<1> HIDE DEF r, u
<1>6. Stands(u, r, r + Lines["talk"], 0, 0, stray')
  BY <1>2, <1>5, Heights
<1>7. "talk" \in Waits /\ Shown("talk", "talk") /\ Below("talk", "talk") = 0 /\ Trail("talk", "talk") = 0
  BY DEF Waits, Prompts, Shown, Below, Trail
<1>8. FlagInv' /\ friendly' \in BOOLEAN
  BY <1>1 DEF FlagInv
<1>9. "talk" \in {"friends", "talk"} /\ pc # "done"
  BY <1>1
<1>10. QED BY <1>1, <1>2, <1>5, <1>6, <1>7, <1>8, <1>9, FillStep

LEMMA CloseTalkStep == FrontInv /\ CloseTalk => FrontInv'
<1> SUFFICES ASSUME FrontInv, CloseTalk PROVE FrontInv'
  OBVIOUS
<1> DEFINE b == top + 14
           t == Back(Line(tty))
           cleared == clear_string_surface(t, 14)
           r == cleared.row
           u == Printed(cleared, 16)
<1>1. /\ pc = "talk" /\ screen = "talk" /\ screen' = "friends" /\ top' = r /\ pc' = "friends"
      /\ Fill(u, "friends", "friends", r) /\ friendly' = TRUE /\ open' = FALSE /\ Steady /\ top \in Int
  BY Heights DEF CloseTalk, Close, Await, FrontInv, FrontType, Shown
<1>2. Straying /\ stray' = stray
  BY <1>1, SteadyStrays DEF FrontInv
<1>3. /\ t \in Terminal /\ Stands(t, top, b, 0, 0, stray)
      /\ b \in Int /\ b + (0 - 14) = top /\ (Tame(stray) => b + 0 >= 14)
  <2>1. t \in Terminal /\ Stands(t, top, b, 0, 0, stray) /\ (Tame(stray) => top >= 0)
    BY <1>1, Typed, AtPrompt, Heights
  <2>2. QED BY <1>1, <2>1
<1> HIDE DEF b, t
<1>4. cleared \in Terminal /\ Stands(cleared, top, top, 0, 0, stray)
  <2>1. cleared \in Terminal /\ Stands(cleared, top, b + (0 - 14), 0, 0, stray)
    BY <1>1, <1>3, ClearStands
  <2>2. QED BY <1>3, <2>1
<1> HIDE DEF cleared
<1>5. r \in Int /\ u \in Terminal /\ Stands(u, r, r + 16, 0, 0, stray)
  <2>1. 16 \in Nat
    OBVIOUS
  <2>2. QED BY <1>1, <1>4, <2>1, Framed
<1> HIDE DEF r, u
<1>6. Stands(u, r, r + Lines["friends"], 0, 0, stray')
  BY <1>2, <1>5, Heights
<1>7. /\ "friends" \in Waits /\ Shown("friends", "friends")
      /\ Below("friends", "friends") = 0 /\ Trail("friends", "friends") = 0
  BY DEF Waits, Prompts, Shown, Below, Trail
<1>8. FlagInv' /\ friendly' \in BOOLEAN
  BY <1>1 DEF FlagInv
<1>9. "friends" \in {"friends", "talk"} /\ pc # "done"
  BY <1>1
<1>10. QED BY <1>1, <1>2, <1>5, <1>6, <1>7, <1>8, <1>9, FillStep

\* A notice is filled in by the listener thread while something is awaited.
\* It meets another frame only where the list of friends was not answered.
LEMMA NoticeStep ==
    ASSUME FrontInv, pc # "done", NEW t \in Terminal, t.row = tty.row,
           Stands(Mended(t, pc), First(screen, top), top + Lines[screen],
                  Below(pc, screen), Trail(pc, screen), stray),
           NEW s \in {"friends", "talk"}, Fill(t, s, screen, top),
           s = screen \/ (s = "friends" /\ friendly),
           UNCHANGED <<screen, top, pc, friendly, strays, stray>>, open' = open
    PROVE  FrontInv'
<1> DEFINE b == top + Lines[screen]
           k == Below(pc, screen)
           n == Trail(pc, screen)
           f == First(screen, top)
           m == Mended(t, pc)
           h == Highest[s]
<1>1. /\ UNCHANGED <<screen, top, pc, friendly, strays, stray>> /\ tty' = Filled(t, s)
      /\ tty \in Terminal /\ top \in Int /\ screen \in DOMAIN Lines /\ pc \in Waits
  BY DEF Fill, FrontInv, FrontType, front
<1>0. m \in Terminal /\ m.row = tty.row /\ m.topmost = t.topmost /\ h \in {11, 13} /\ (s = "friends" => h = 11)
  BY MendedEffect DEF Highest
<1>2. /\ Stands(m, f, b, k, n, stray)
      /\ b \in Int /\ k \in Int /\ n \in Int /\ f \in Int
  <2>1. b \in Int /\ f \in Int
    BY <1>1, Heights DEF First
  <2>2. k \in Int /\ n \in Int
    BY DEF Below, Trail
  <2>3. QED BY <2>1, <2>2
<1>3. screen = s \/ (screen \in {"main", "form"} /\ "unlisted" \in stray /\ friendly)
  BY <1>1, Heights DEF FrontInv, FlagInv
<1>4. screen = s => /\ 0 <= k /\ k <= n + 1 /\ f = top /\ b >= top + 14
                    /\ (k # 0 => pc \in {"helped", "changing", "sending"})
  BY <1>1, Heights DEF FrontInv, Shown, Below, Trail, First, Waits, Prompts, Asking, Pauses
<1> HIDE DEF m, h
<1>5. Tame(stray) => b + k >= h
  <2> SUFFICES ASSUME Tame(stray) PROVE b + k >= h
    OBVIOUS
  <2>1. top >= 0 /\ (friendly /\ screen = "main" => top >= 8) /\ screen # "form"
    BY DEF FrontInv, RoomInv, FlagInv, Tame
  <2>2. CASE screen = s
    BY <1>0, <1>1, <1>2, <1>4, <2>1, <2>2
  <2>3. CASE screen = "main" /\ friendly /\ s = "friends"
    <3>1. k >= -6 /\ b = top + 9
      BY <2>3, Heights DEF FrontInv, Shown, Below
    <3>2. QED BY <1>0, <1>1, <1>2, <2>1, <2>3, <3>1
  <2>4. QED BY <1>3, <2>1, <2>2, <2>3
<1>6. Clean(stray) => f <= (b + k) - h /\ k <= n + 1
  <2>1. Clean(stray) => screen = s
    BY <1>3 DEF Clean
  <2> HIDE DEF k, n, f, b
  <2>2. QED BY <1>0, <1>1, <1>2, <1>4, <2>1
<1> HIDE DEF k, n, f, b
<1>7. /\ Filled(m, s) \in Terminal /\ Stands(Filled(m, s), f, b, k, n, stray)
      /\ Filled(t, s) \in Terminal /\ Filled(t, s).topmost = Filled(m, s).topmost
      /\ Mended(Filled(t, s), pc) = Filled(m, s)
  <2>1. Filled(m, s) \in Terminal /\ Stands(Filled(m, s), f, b, k, n, stray)
    BY <1>0, <1>2, <1>5, <1>6, FilledStands DEF h
  <2> DEFINE x == Mended(Filled(t, s), pc)
             y == Filled(m, s)
  <2>2. /\ y \in Terminal /\ y.row = t.row /\ y.topmost = Lower(t.topmost, t.row - h)
        /\ y.used = t.used \cup Gap(pc, t.row) \cup {t.row - h} \cup (t.row - 11 .. t.row - 2)
    <3>1. m.used = t.used \cup Gap(pc, t.row)
      BY MendedEffect DEF m
    <3>2. QED BY <1>0, <2>1, <3>1, FilledEffect DEF h
  <2>3. /\ Filled(t, s) \in Terminal /\ Filled(t, s).row = t.row
        /\ Filled(t, s).topmost = Lower(t.topmost, t.row - h)
        /\ Filled(t, s).used = t.used \cup {t.row - h} \cup (t.row - 11 .. t.row - 2)
    BY FilledEffect DEF h
  <2>4. /\ x \in Terminal /\ x.row = t.row /\ x.topmost = Filled(t, s).topmost
        /\ x.used = Filled(t, s).used \cup Gap(pc, t.row)
    BY <2>3, MendedEffect
  <2> HIDE DEF x, y
  <2>5. x.used = y.used
    <3>1. \A a1, a2, a3, a4 : (a1 \cup a2 \cup a3) \cup a4 = a1 \cup a4 \cup a2 \cup a3
      OBVIOUS
    <3>2. QED BY <2>2, <2>3, <2>4, <3>1, Zenon
  <2>6. x = y
    <3>1. x.row = y.row /\ x.topmost = y.topmost
      BY <2>2, <2>3, <2>4
    <3>2. x \in Terminal /\ y \in Terminal
      BY <2>2, <2>4
    <3>3. QED BY <2>5, <3>1, <3>2 DEF Terminal
  <2>7. QED BY <2>1, <2>2, <2>3, <2>6 DEF x, y
<1>8. misfilled' \in SUBSET Waits
  BY <1>1 DEF FrontInv, FrontType, Fill
<1>9. FrontType' /\ Shown(pc', screen') /\ FlagInv'
  <2>1. FrontType'
    BY <1>1, <1>7, <1>8 DEF FrontInv, FrontType
  <2>2. Shown(pc', screen')
    BY <1>1 DEF FrontInv
  <2>3. FlagInv'
    BY <1>1 DEF FrontInv, FlagInv
  <2>4. QED BY <2>1, <2>2, <2>3
<1>10. StandsInv'
  BY <1>1, <1>7 DEF StandsInv, b, k, n, f
<1>11. RoomInv'
  BY <1>1, <1>7 DEF FrontInv, RoomInv, Stands
<1>12. FillsFit'
  <2> SUFFICES ASSUME stray \cap {"nothing", "unlisted"} = {}
               PROVE  misfilled' \subseteq {"helped", "changing", "sending"}
    BY <1>1 DEF FillsFit
  <2>1. misfilled \subseteq {"helped", "changing", "sending"} /\ screen = s
    BY <1>3 DEF FrontInv, FillsFit
  <2>2. CASE k # 0
    BY <1>4, <2>1, <2>2 DEF Fill
  <2>3. CASE k = 0
    <3>1. Stands(m, f, b, 0, n, stray)
      BY <1>2, <2>3
    <3>2. t.row = b
      BY <1>0, <1>2, <3>1, StandsAt
    <3>3. misfilled' = misfilled
      BY <2>1, <3>2 DEF Fill, Fits, b
    <3>4. QED BY <2>1, <3>3
  <2>4. QED BY <2>2, <2>3
<1>13. QED BY <1>9, <1>10, <1>11, <1>12 DEF FrontInv, Shown

\* A message erases where the cursor is, in the frame, under it, or nothing.
LEMMA WipedStands ==
    ASSUME FrontInv, pc # "done", NEW t \in Wiped(tty)
    PROVE  /\ t \in Terminal /\ t.row = tty.row
           /\ Stands(Mended(t, pc), First(screen, top), top + Lines[screen],
                     Below(pc, screen), Trail(pc, screen), stray)
<1> DEFINE b == top + Lines[screen]
           k == Below(pc, screen)
           n == Trail(pc, screen)
           f == First(screen, top)
           m == Mended(tty, pc)
           u == Mended(t, pc)
<1>1. /\ tty \in Terminal /\ top \in Int /\ Stands(m, f, b, k, n, stray) /\ tty.row \in Int
      /\ f \in Int /\ b \in Int /\ tty.topmost \in Int /\ tty.used \in SUBSET Int
  BY StandsNow, FrameRows, Typing
<1>2. /\ t \in Terminal /\ t.row = tty.row /\ t.topmost = Lower(tty.topmost, tty.row)
      /\ t.used \in {tty.used, tty.used \ {tty.row}}
  <2> DEFINE e == Erase(tty)
  <2>1. /\ e \in Terminal /\ e.row = tty.row /\ e.used = tty.used \ {tty.row}
        /\ e.topmost = Lower(tty.topmost, tty.row)
    BY <1>1, EraseEffect
  <2>2. t = e \/ t = [e EXCEPT !.used = tty.used]
    BY DEF Wiped
  <2> HIDE DEF e
  <2>3. QED BY <1>1, <2>1, <2>2 DEF Terminal
<1>3. /\ m.row = tty.row /\ m.topmost = tty.topmost /\ m.used = tty.used \cup Gap(pc, tty.row)
      /\ u.row = tty.row /\ u.topmost = t.topmost /\ u.used = t.used \cup Gap(pc, tty.row)
  BY <1>1, <1>2, MendedEffect
<1>4. /\ k \in Int /\ n \in Int
      /\ pc \in Inside => Gap(pc, tty.row) = {tty.row}
      /\ pc \notin Inside => k >= n
  BY DEF Below, Trail, Inside, Gap
<1>5. Tame(stray) => b + k >= 0
  <2>1. pc \in Waits /\ screen \in DOMAIN Lines
    BY DEF FrontInv, FrontType
  <2>2. Tame(stray) => top >= 0 /\ screen # "form" /\ pc # "form"
    BY DEF FrontInv, RoomInv, FlagInv, Shown, Tame
  <2>3. pc # "form" => k >= -6
    BY DEF Below
  <2>4. Lines[screen] \in Int /\ Lines[screen] >= 9
    BY <2>1, Heights
  <2> HIDE DEF k
  <2>5. QED BY <1>1, <1>4, <2>2, <2>3, <2>4
<1> HIDE DEF b, k, n, f, m, u
<1>6. Clean(stray) => u.used = f .. b + n - 1
  <2> SUFFICES ASSUME Clean(stray) PROVE u.used = f .. b + n - 1
    OBVIOUS
  <2>1. m.row = b + k /\ m.used = f .. b + n - 1
    BY <1>1 DEF Stands, Clean
  <2>2. CASE pc \in Inside
    BY <1>2, <1>3, <1>4, <2>1, <2>2
  <2>3. CASE pc \notin Inside
    <3>1. tty.row \notin m.used
      BY <1>1, <1>3, <1>4, <2>1, <2>3
    <3>2. t.used = tty.used
      BY <1>2, <1>3, <3>1
    <3>3. QED BY <1>3, <2>1, <3>2
  <2>4. QED BY <2>2, <2>3
<1>7. Tame(stray) => u.topmost >= 0 /\ f >= 0
  <2> SUFFICES ASSUME Tame(stray) PROVE u.topmost >= 0 /\ f >= 0
    OBVIOUS
  <2>1. tty.topmost >= 0 /\ f >= 0 /\ tty.row >= 0
    BY <1>1, <1>3, <1>4, <1>5 DEF Stands
  <2>2. QED BY <1>1, <1>2, <1>3, <2>1, LowerType
<1>8. Stands(u, f, b, k, n, stray)
  BY <1>1, <1>3, <1>6, <1>7 DEF Stands
<1>9. QED BY <1>2, <1>8 DEF b, k, n, f, u

LEMMA ListenerSteps == FrontInv /\ (Notice \/ Hear) => FrontInv'
<1> SUFFICES ASSUME FrontInv, Notice \/ Hear PROVE FrontInv'
  OBVIOUS
<1>1. /\ pc # "done" /\ UNCHANGED <<screen, top, pc, friendly, strays, stray>> /\ open' = open
  BY DEF Notice, Hear, Receive, Add, window, vars
<1>2. CASE Notice
  <2>1. Fill(tty, "friends", screen, top) /\ friendly
    BY <1>2 DEF Notice
  <2>2. QED BY <1>1, <2>1, StandsNow, NoticeStep
<1>3. CASE Hear
  <2>1. PICK t \in Wiped(tty) : IF open THEN Fill(t, "talk", screen, top)
                                ELSE tty' = t /\ UNCHANGED misfilled
    BY <1>3 DEF Hear
  <2>2. /\ t \in Terminal /\ t.row = tty.row
        /\ Stands(Mended(t, pc), First(screen, top), top + Lines[screen],
                  Below(pc, screen), Trail(pc, screen), stray)
    BY <1>1, <2>1, WipedStands
  <2>3. CASE open
    <3>1. screen = "talk"
      BY <2>3 DEF FrontInv, FlagInv
    <3>2. QED BY <1>1, <2>1, <2>2, <2>3, <3>1, NoticeStep
  <2>4. CASE ~open
    <3>1. tty' = t /\ misfilled' = misfilled
      BY <2>1, <2>4
    <3>2. Mended(t, pc).topmost = t.topmost
      BY <2>2, MendedEffect
    <3>3. StandsInv'
      BY <1>1, <2>2, <3>1 DEF StandsInv
    <3>4. RoomInv'
      BY <1>1, <2>2, <3>1, <3>2 DEF FrontInv, RoomInv, Stands
    <3>5. QED BY <1>1, <2>2, <3>1, <3>3, <3>4 DEF FrontInv, FrontType, Shown, FlagInv, FillsFit
  <2>5. QED BY <2>3, <2>4
<1>5. QED BY <1>2, <1>3

LEMMA FrontInit == ScreenInit => FrontInv
<1> SUFFICES ASSUME ScreenInit PROVE FrontInv
  OBVIOUS
<1>1. /\ tty = [row |-> 9, used |-> 0 .. 8, topmost |-> 0] /\ screen = "main" /\ top = 0 /\ pc = "main"
      /\ friendly = FALSE /\ strays = 0 /\ stray = {} /\ misfilled = {} /\ open = FALSE
  BY DEF ScreenInit, Init
<1>2. tty \in Terminal /\ tty.row = 9 /\ tty.used = 0 .. 8 /\ tty.topmost = 0
  BY <1>1 DEF Terminal
<1>3. FrontType
  <2>1. screen \in DOMAIN Lines /\ pc \in Waits
    BY <1>1, Heights DEF Waits, Prompts
  <2>2. friendly \in BOOLEAN /\ misfilled \in SUBSET Waits /\ stray \in SUBSET Kinds
    BY <1>1
  <2>3. top \in Int /\ strays \in Nat
    BY <1>1
  <2>4. QED BY <1>2, <2>1, <2>2, <2>3 DEF FrontType
<1>4. Stands(tty, 0, 9, 0, 0, {})
  BY <1>2 DEF Stands
<1>5. StandsInv
  <2>1. Mended(tty, pc) = tty
    BY <1>1, <1>2, MendedEffect DEF Inside
  <2>2. QED BY <1>1, <1>4, <2>1, Heights DEF StandsInv, First, Below, Trail
<1>6. Shown(pc, screen) /\ FlagInv /\ RoomInv /\ FillsFit
  BY <1>1, <1>2 DEF Shown, FlagInv, RoomInv, FillsFit
<1>7. QED BY <1>3, <1>5, <1>6 DEF FrontInv

\* What the screen adds is not seen by the talk window.
LEMMA WindowStep == [ScreenNext]_<<window, front>> => [Next]_vars
BY DEF ScreenNext, OpenForm, FillForm, Registered, LeaveForm, OpenLogin, get_login_data, LoggedIn, Refused,
       Granted, Listed, help_cmd, Helped, deal_error_cmd, Erred, Nothing, Quit, Done, FriendKey, ModifyState,
       get_user_state, Modified, OpenTalk, TalkKey, OpenText, SendLine, Sent, CloseText, CloseTalk, Notice, Hear,
       Next, window

LEMMA FrontInvariance == ScreenSpec => []FrontInv
<1>1. ASSUME FrontInv, ScreenNext PROVE FrontInv'
  BY <1>1, OpenFormStep, FormSteps, LeaveFormStep, LoginSteps, RefusedStep, GrantedStep, ListedStep,
     MessageSteps, NothingStep, QuitStep, DoneStep, TypingSteps, ModifiedStep, SentStep, OpenTalkStep,
     CloseTalkStep, ListenerSteps DEF ScreenNext
<1>2. ASSUME FrontInv, UNCHANGED <<window, front>> PROVE FrontInv'
  BY <1>2 DEF window, vars, front, FrontInv, FrontType, Shown, FlagInv, StandsInv, RoomInv, FillsFit
<1>3. QED BY <1>1, <1>2, FrontInit, PTL DEF ScreenSpec
-----------------------------------------------------------------------------
\* Whatever the screen does, the rows of the talk window move as its own
\* specification says: what is proved of the window holds on the screen.
THEOREM ScreenIsTalkWindow == ScreenSpec => Spec
<1>1. ScreenInit => Init
  BY DEF ScreenInit
<1>2. QED BY <1>1, WindowStep, PTL DEF ScreenSpec, Spec

\* The terminal, the frame and the flags have their types.
THEOREM ScreenTypeCorrect == ScreenSpec => []ScreenTypeOK
<1>1. TypeOK /\ FrontInv => ScreenTypeOK
  <2> SUFFICES ASSUME TypeOK, FrontInv PROVE ScreenTypeOK
    OBVIOUS
  <2>1. tty.row \in Int /\ tty.used \in SUBSET Int /\ tty.topmost \in Int
    BY Typing DEF FrontInv, FrontType
  <2>2. QED BY <2>1 DEF FrontInv, FrontType, ScreenTypeOK, Waits, Kinds
<1>2. QED BY <1>1, ScreenIsTalkWindow, TypeCorrect, FrontInvariance, PTL

\* Where something can be typed the cursor is below the frame, and nothing
\* but the frame is seen.
THEOREM CursorPlaced == ScreenSpec => []Placed
<1>1. FrontInv => Placed
  <2> SUFFICES ASSUME FrontInv, pc \in {"main", "friends", "talk", "word", "text"}, "nothing" \notin stray
               PROVE  /\ tty.row = top + Lines[screen]
                      /\ "unlisted" \notin stray => tty.used = top .. top + Lines[screen] - 1
    BY DEF Placed
  <2> DEFINE b == top + Lines[screen]
  <2>1. tty \in Terminal /\ b \in Int /\ Stands(tty, top, b, 0, 0, stray)
    BY AtPrompt
  <2> HIDE DEF b
  <2>2. tty.row = b
    BY <2>1, StandsAt
  <2>3. "unlisted" \notin stray => tty.used = top .. b - 1
    BY <2>1 DEF Stands, Clean
  <2>4. b - 1 = top + Lines[screen] - 1
    <3>1. top \in Int /\ Lines[screen] \in Int
      BY Heights DEF FrontInv, FrontType
    <3>2. QED BY <3>1 DEF b
  <2>5. QED BY <2>2, <2>3, <2>4 DEF b
<1>2. QED BY <1>1, FrontInvariance, PTL

\* Nothing above the program's first row is erased, but for the two paths on
\* which main clears once more.
THEOREM OwnRowsErased == ScreenSpec => []ErasesOwn
<1>1. FrontInv => ErasesOwn
  BY DEF FrontInv, RoomInv, Tame, ErasesOwn
<1>2. QED BY <1>1, FrontInvariance, PTL

\* Both threads fill the rows of the frame that is shown, but in three waits.
THEOREM FramesFilled == ScreenSpec => []FillsFit
<1>1. FrontInv => FillsFit
  BY DEF FrontInv
<1>2. QED BY <1>1, FrontInvariance, PTL
=============================================================================
