----------------------------- MODULE TalkWindow -----------------------------
(***************************************************************************)
(* The talk window of the client, client/deal_talk_data.cpp: ten rows over *)
(* the one list of messages, whoever they were exchanged with.  The        *)
(* command thread opens and closes the window, scrolls and sends; the      *)
(* listener thread adds a message whenever one is received, whether the    *)
(* window is open or not.  Each call is one step.                          *)
(*                                                                         *)
(* A message is named by its position in message_lists.  An index outside  *)
(* the array would be undefined behaviour: IndexSafe excludes it.          *)
(***************************************************************************)
EXTENDS Integers

CONSTANTS Height,       \* TALK_SPACE_SIZE
          MaxMessages   \* bound: messages in a behaviour

ASSUME Space == Height \in Nat \ {0}
ASSUME Bound == MaxMessages \in Nat

VARIABLES size,         \* message_lists.size()
          rows,         \* print_talk_lists
          up,           \* g_current_up_pos
          down,         \* g_current_down_pos
          open,         \* g_interface_talk
          reopened      \* history: the window was opened on earlier messages

vars == <<size, rows, up, down, open, reopened>>

Blank == -1
Rows  == 0 .. Height - 1

Init == /\ size = 0 /\ rows = [i \in Rows |-> Blank]
        /\ up = 0 /\ down = 0
        /\ open = FALSE /\ reopened = FALSE

\* init_talk_lists: the last messages, as many as fit.  `down' becomes the
\* position of the last message; the other calls take it for the next one's.
Open ==
    /\ ~open
    /\ open' = TRUE
    /\ reopened' = (reopened \/ size > 0)
    /\ LET length == IF size < Height THEN size ELSE Height IN
       /\ rows' = [i \in Rows |-> IF i < length THEN size - length + i ELSE rows[i]]
       /\ up' = size - length
       /\ down' = IF size = 0 THEN 0 ELSE size - 1
    /\ UNCHANGED size

Close == open /\ open' = FALSE /\ UNCHANGED <<size, rows, up, down, reopened>>

\* Mutant: the last row gets the message after the one that is due.
SlideAhead(n) ==
    /\ rows' = [i \in Rows |-> IF i < Height - 1 THEN rows[i + 1]
                               ELSE IF down + 1 < n THEN down + 1 ELSE n - 1]
    /\ down' = down + 1 /\ up' = up + 1

\* Mutant: the positions advance, the rows do not.
SlideNothing(n) == down' = down + 1 /\ up' = up + 1 /\ UNCHANGED rows

\* The end of talk_lists_down: every row moves up by one, and the message at
\* `down' takes the last.
Slide(n) ==
    /\ rows' = [i \in Rows |-> IF i < Height - 1 THEN rows[i + 1] ELSE down]
    /\ down' = down + 1 /\ up' = up + 1

\* push_back, then talk_lists_down(true).
Add ==
    /\ size < MaxMessages
    /\ size' = size + 1
    /\ \/ /\ size' <= Height
          /\ rows' = [rows EXCEPT ![down] = down]
          /\ down' = down + 1
          /\ up' = up
       \/ /\ size' > Height
          /\ IF down < size' THEN Slide(size') ELSE UNCHANGED <<rows, up, down>>
    /\ UNCHANGED <<open, reopened>>

\* recvmsg_from_server, by the listener thread.
Receive == Add

\* get_send_msg: the message is added when the server has answered.
Send == open /\ Add

\* Mutant: the end of the list is not checked.
ScrollDownUnguarded ==
    /\ open
    /\ size > Height
    /\ Slide(size)
    /\ UNCHANGED <<size, open, reopened>>

\* talk_lists_down(false), by the key.
ScrollDown ==
    /\ open
    /\ size > Height /\ down < size
    /\ Slide(size)
    /\ UNCHANGED <<size, open, reopened>>

\* Mutants: the guard lets 0 pass; the top row gets the message at `down'.
ScrollUpUnguarded ==
    /\ open
    /\ size >= Height /\ up >= 0
    /\ up' = up - 1 /\ down' = down - 1
    /\ rows' = [i \in Rows |-> IF i > 0 THEN rows[i - 1] ELSE up']
    /\ UNCHANGED <<size, open, reopened>>

ScrollUpFromDown ==
    /\ open
    /\ size >= Height /\ up > 0
    /\ up' = up - 1 /\ down' = down - 1
    /\ rows' = [i \in Rows |-> IF i > 0 THEN rows[i - 1] ELSE down']
    /\ UNCHANGED <<size, open, reopened>>

\* talk_lists_up.
ScrollUp ==
    /\ open
    /\ size >= Height /\ up > 0
    /\ up' = up - 1 /\ down' = down - 1
    /\ rows' = [i \in Rows |-> IF i > 0 THEN rows[i - 1] ELSE up']
    /\ UNCHANGED <<size, open, reopened>>

Next == Open \/ Close \/ Receive \/ Send \/ ScrollDown \/ ScrollUp

Spec == Init /\ [][Next]_vars
-----------------------------------------------------------------------------
TypeOK == /\ size \in Nat /\ up \in Nat /\ down \in Nat
          /\ rows \in [Rows -> Nat \cup {Blank}]
          /\ open \in BOOLEAN /\ reopened \in BOOLEAN

\* No call reads or writes outside the arrays: print_talk_lists[down] and
\* message_lists[down] exist after the next push_back while the window is not
\* full, message_lists[up - 1] exists for scrolling up, and every row is a
\* message.
IndexSafe == /\ up <= down /\ down <= size
             /\ size >= Height => down + 1 >= Height
             /\ \A i \in Rows : rows[i] < size

\* A window that was never opened on earlier messages shows consecutive ones,
\* from `up' to the one before `down': no gap, no repetition, wherever the
\* user scrolls while messages come in.
Consecutive == ~reopened =>
    rows = [i \in Rows |-> IF up + i < down THEN up + i ELSE Blank]

\* Even after reopening the rows are in the order of the list.
Ordered == \A i, j \in Rows :
    i < j /\ rows[i] # Blank /\ rows[j] # Blank => rows[i] <= rows[j]

\* When nothing is left to scroll down to, the newest message is the last
\* line, also after the window was reopened.
EndShowsNewest == size > 0 /\ down = size =>
    rows[IF size < Height THEN size - 1 ELSE Height - 1] = size - 1

\* Until it is opened on earlier messages, every step of the window is one of
\* a Pager: each call moves the stretch by one message, or leaves it.
PagerView == INSTANCE Pager WITH first <- up, view <- rows
PagerSteps == PagerView!Init /\ [][~reopened' => [PagerView!Next]_(PagerView!vars)]_vars
=============================================================================
