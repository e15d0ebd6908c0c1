------------------------------- MODULE Screen -------------------------------
(***************************************************************************)
(* The terminal of a client: client_gui.cpp, and the printing functions of *)
(* deal_friend_data.cpp and deal_talk_data.cpp, composed with the rows of  *)
(* the talk window (TalkWindow).  A screen is a frame of fixed height; the *)
(* program keeps no position of the cursor, but moves it by so many rows   *)
(* from where it should be.  The command thread prints, waits for a line,  *)
(* a key or an answer, and goes on; the listener thread fills the rows of  *)
(* the frame when a notice comes in, wherever the cursor is by then.       *)
(*                                                                         *)
(* Row 0 is the one on which the program starts; the terminal is taken to  *)
(* be high enough not to scroll.  Columns are left out, and so is input    *)
(* longer than its array (ten bytes for a command, a name or a password).  *)
(* What a thread prints between two waits is one step.                     *)
(***************************************************************************)
EXTENDS TalkWindow

CONSTANT MaxStrays   \* bound: steps that displace the frame

ASSUME Strays == MaxStrays \in Nat

VARIABLES tty,       \* terminal: row of the cursor, rows with something of the
                     \* program on them, topmost row it ever changed
          screen,    \* the frame printed last
          top,       \* its first row
          pc,        \* what the command thread waits for
          friendly,  \* g_interface_friend
          strays,    \* number of steps in `stray'
          stray,     \* history: which steps displaced the frame
          misfilled  \* history: waits in which a fill missed the rows of its frame

window == vars
front  == <<tty, screen, top, pc, friendly, strays, stray, misfilled>>

Lines == [main |-> 9, form |-> 10, friends |-> 16, talk |-> 14]

\* Waits for a line or a key, for the answer of the server, and for Enter.
Prompts == {"main", "form", "name", "passwd", "friends", "word", "talk", "text"}
Asking  == {"registering", "joining", "listing", "changing", "sending", "quitting"}
Pauses  == {"registered", "granted", "refused", "helped", "erred"}

Lower(m, n) == IF n < m THEN n ELSE m

Down(t, n) == [t EXCEPT !.row = @ + n]
Up(t, n)   == [t EXCEPT !.row = @ - n]

\* Something is printed without a newline; and with one, or typed and echoed.
Text(t)  == [t EXCEPT !.used = @ \cup {t.row}, !.topmost = Lower(@, t.row)]
Line(t)  == Down(Text(t), 1)
Erase(t) == [t EXCEPT !.used = @ \ {t.row}, !.topmost = Lower(@, t.row)]

\* The row above is erased: printf("\033[1A"), printf("\033[K").
Back(t) == Erase(Up(t, 1))

Printed(t, n) == [row |-> t.row + n, used |-> t.used \cup t.row .. t.row + n - 1,
                topmost |-> Lower(t.topmost, t.row)]

clear_string_surface(t, n) == [row |-> t.row - n, used |-> t.used \ (t.row - n .. t.row - 1),
                               topmost |-> Lower(t.topmost, t.row - n)]

\* fill_friend_data and fill_talk_data: eleven rows up, ten lines, and back;
\* for a talk the name of the friend before, thirteen rows up.
Highest == [friends |-> 11, talk |-> 13]

Filled(t, s) == [t EXCEPT !.used = @ \cup {t.row - Highest[s]} \cup t.row - 11 .. t.row - 2,
                          !.topmost = Lower(@, t.row - Highest[s])]

\* The frame s is filled while s2 is shown, its first row being r.
Fits(t, s, s2, r) == s = s2 /\ t.row = r + Lines[s]

Fill(t, s, s2, r) ==
    /\ tty' = Filled(t, s)
    /\ misfilled' = IF Fits(t, s, s2, r) THEN misfilled ELSE misfilled \cup {pc}

Await(p) == pc' = p

Stray(why) == strays < MaxStrays /\ strays' = strays + 1 /\ stray' = stray \cup {why}
Steady     == UNCHANGED <<strays, stray>>

ScreenInit ==
    /\ Init
    /\ tty = [row |-> 9, used |-> 0 .. 8, topmost |-> 0]
    /\ screen = "main" /\ top = 0 /\ pc = "main" /\ friendly = FALSE
    /\ strays = 0 /\ stray = {} /\ misfilled = {}
-----------------------------------------------------------------------------
(* Continuations: what is printed before the next command.                 *)

\* The loop of main: clear and print_login.
MainAgain(t) ==
    LET cleared == clear_string_surface(t, 9) IN
    /\ tty' = Printed(cleared, Lines["main"])
    /\ screen' = "main" /\ top' = cleared.row /\ Await("main")
    /\ UNCHANGED misfilled

\* The loop of deal_friend_data.
FriendsAgain(t) ==
    /\ Fill(t, "friends", screen, top)
    /\ Await("friends")
    /\ UNCHANGED <<screen, top>>

\* The loop of deal_talk_data.
TalkAgain(t) ==
    /\ Fill(t, "talk", screen, top)
    /\ Await("talk")
    /\ UNCHANGED <<screen, top>>

Again(t) == \/ screen = "main" /\ MainAgain(t)
            \/ screen = "friends" /\ FriendsAgain(t)
            \/ screen = "talk" /\ TalkAgain(t)

\* The terminal changes, and the thread waits for p.
Then(t, p) == /\ tty' = t /\ Await(p)
              /\ UNCHANGED <<screen, top, misfilled>>
-----------------------------------------------------------------------------
(* The main screen.                                                        *)

\* register: print_register, its six lines, and the answer, if the passwords
\* agree.  Main then clears nine rows more.
OpenForm ==
    /\ pc = "main"
    /\ LET cleared == clear_string_surface(Line(tty), 9) IN
       /\ tty' = Up(Printed(cleared, Lines["form"]), 7)
       /\ screen' = "form" /\ top' = cleared.row
    /\ Await("form")
    /\ Stray("register")
    /\ UNCHANGED <<friendly, misfilled, window>>

FillForm ==
    /\ pc = "form"
    /\ LET t == Line(Line(Line(Line(Line(Line(tty)))))) IN
       \/ Then(t, "registering")
       \/ Then(Line(Down(t, 1)), "registered")
    /\ Steady /\ UNCHANGED <<friendly, window>>

Registered ==
    /\ pc = "registering"
    /\ Then(Line(Down(tty, 1)), "registered")
    /\ Steady /\ UNCHANGED <<friendly, window>>

LeaveForm ==
    /\ pc = "registered"
    /\ MainAgain(clear_string_surface(Line(tty), 12))
    /\ Steady /\ UNCHANGED <<friendly, window>>

\* login: the name and the password are typed into the frame.
OpenLogin ==
    /\ pc = "main"
    /\ Then(Up(Back(Line(tty)), 6), "name")
    /\ Steady /\ UNCHANGED <<friendly, window>>

get_login_data ==
    /\ \/ pc = "name" /\ Then(Down(Line(tty), 1), "passwd")
       \/ pc = "passwd" /\ Then(Down(Line(tty), 3), "joining")
    /\ Steady /\ UNCHANGED <<friendly, window>>

LoggedIn ==
    /\ pc = "joining"
    /\ \E result \in {"granted", "refused"} : Then(Line(tty), result)
    /\ Steady /\ UNCHANGED <<friendly, window>>

Refused ==
    /\ pc = "refused"
    /\ MainAgain(clear_string_surface(Line(tty), 11))
    /\ Stray("refused")
    /\ UNCHANGED <<friendly, window>>

\* deal_friend_list: the frame is printed before the list is asked for.
Granted ==
    /\ pc = "granted"
    /\ LET cleared == clear_string_surface(Line(tty), 11) IN
       /\ tty' = Printed(cleared, Lines["friends"])
       /\ screen' = "friends" /\ top' = cleared.row
    /\ friendly' = TRUE
    /\ Await("listing")
    /\ Steady /\ UNCHANGED <<misfilled, window>>

\* Without an answer it returns to main, g_interface_friend still set.
Listed ==
    /\ pc = "listing"
    /\ \/ FriendsAgain(tty) /\ Steady
       \/ MainAgain(Line(tty)) /\ Stray("unlisted")
    /\ UNCHANGED <<friendly, window>>
-----------------------------------------------------------------------------
(* Commands of more than one screen.                                       *)

Commanding == pc \in {"main", "friends", "talk"}

\* help_cmd; on the friend screen the text has two lines.
help_cmd ==
    /\ Commanding
    /\ LET usage == Line(Back(Line(tty))) IN
       Then(Text(IF screen = "friends" THEN Line(usage) ELSE usage), "helped")
    /\ Steady /\ UNCHANGED <<friendly, window>>

Helped ==
    /\ pc = "helped"
    /\ LET erased == Back(Back(Line(tty))) IN
       Again(IF screen = "friends" THEN Back(erased) ELSE erased)
    /\ Steady /\ UNCHANGED <<friendly, window>>

\* deal_error_cmd.
deal_error_cmd ==
    /\ Commanding
    /\ Then(Text(Up(Line(tty), 1)), "erred")
    /\ Steady /\ UNCHANGED <<friendly, window>>

Erred ==
    /\ pc = "erred"
    /\ Again(Back(Line(tty)))
    /\ Steady /\ UNCHANGED <<friendly, window>>

\* query, show, switch, and the number of nobody do nothing: the command
\* stays, with the cursor on the row below.
Nothing ==
    /\ pc \in {"friends", "talk"}
    /\ Again(Line(tty))
    /\ Stray("nothing")
    /\ UNCHANGED <<friendly, window>>

\* quit, on the main screen and on the friend screen.
Quit ==
    /\ \/ pc = "main" /\ Then(Line(tty), "quitting")
       \/ pc = "friends" /\ Then(Back(Line(tty)), "quitting")
    /\ Steady /\ UNCHANGED <<friendly, window>>

Done ==
    /\ pc = "quitting"
    /\ \/ screen = "main" /\ Then(tty, "done") /\ UNCHANGED friendly
       \/ screen = "friends" /\ Then(clear_string_surface(tty, 16), "done") /\ friendly' = FALSE
    /\ Steady /\ UNCHANGED window
-----------------------------------------------------------------------------
(* The friend screen.                                                      *)

\* A key scrolls the rows (FriendWindow); nothing is echoed.
FriendKey == /\ pc = "friends" /\ FriendsAgain(tty)
             /\ Steady /\ UNCHANGED <<friendly, window>>

\* friend_lists_modify.
ModifyState ==
    /\ pc = "friends" /\ Then(Back(Line(tty)), "word")
    /\ Steady /\ UNCHANGED <<friendly, window>>

get_user_state ==
    /\ pc = "word" /\ Then(Line(tty), "changing")
    /\ Steady /\ UNCHANGED <<friendly, window>>

\* Mutant: the row of the word is left.
ModifiedBelow ==
    /\ pc = "changing" /\ FriendsAgain(tty)
    /\ Steady /\ UNCHANGED <<friendly, window>>

Modified ==
    /\ pc = "changing" /\ FriendsAgain(Back(tty))
    /\ Steady /\ UNCHANGED <<friendly, window>>

\* Mutant: as many rows are cleared as a talk frame has.
OpenTalkShort ==
    /\ pc = "friends"
    /\ LET cleared == clear_string_surface(Line(tty), 14) IN
       /\ top' = cleared.row /\ screen' = "talk"
       /\ Fill(Printed(cleared, Lines["talk"]), "talk", "talk", cleared.row)
    /\ friendly' = FALSE
    /\ Open
    /\ Await("talk") /\ Steady

\* Mutant: g_interface_friend stays set.
OpenTalkFriendly ==
    /\ pc = "friends"
    /\ LET cleared == clear_string_surface(Line(tty), 17) IN
       /\ top' = cleared.row /\ screen' = "talk"
       /\ Fill(Printed(cleared, Lines["talk"]), "talk", "talk", cleared.row)
    /\ Open
    /\ Await("talk") /\ Steady /\ UNCHANGED friendly

\* The number of a friend: clear, deal_talk_data with print_talk and
\* init_talk_lists.
OpenTalk ==
    /\ pc = "friends"
    /\ LET cleared == clear_string_surface(Line(tty), 17) IN
       /\ top' = cleared.row /\ screen' = "talk"
       /\ Fill(Printed(cleared, Lines["talk"]), "talk", "talk", cleared.row)
    /\ friendly' = FALSE
    /\ Open
    /\ Await("talk") /\ Steady
-----------------------------------------------------------------------------
(* The talk screen.                                                        *)

\* A key scrolls the rows, unless they are at that end.
TalkKey ==
    /\ pc = "talk" /\ TalkAgain(tty)
    /\ \/ ScrollUp \/ ScrollDown
       \/ (up = 0 \/ down = size \/ size <= Height) /\ UNCHANGED window
    /\ Steady /\ UNCHANGED friendly

\* get_send_msg: lines are sent until :q.
OpenText ==
    /\ pc = "talk" /\ Then(Back(Line(tty)), "text")
    /\ Steady /\ UNCHANGED <<friendly, window>>

SendLine ==
    /\ pc = "text" /\ size < MaxMessages
    /\ Then(Line(tty), "sending")
    /\ Steady /\ UNCHANGED <<friendly, window>>

Sent ==
    /\ pc = "sending"
    /\ Fill(Back(tty), "talk", screen, top)
    /\ Send
    /\ Await("text")
    /\ Steady /\ UNCHANGED <<screen, top, friendly>>

CloseText ==
    /\ pc = "text" /\ TalkAgain(Back(Line(tty)))
    /\ Steady /\ UNCHANGED <<friendly, window>>

\* Mutant: the frame of the friends is cleared.
CloseTalkLong ==
    /\ pc = "talk"
    /\ LET cleared == clear_string_surface(Back(Line(tty)), 16) IN
       /\ top' = cleared.row /\ screen' = "friends"
       /\ Fill(Printed(cleared, Lines["friends"]), "friends", "friends", cleared.row)
    /\ friendly' = TRUE
    /\ Close
    /\ Await("friends") /\ Steady

\* quit: clear, and the friend screen once more.
CloseTalk ==
    /\ pc = "talk"
    /\ LET cleared == clear_string_surface(Back(Line(tty)), 14) IN
       /\ top' = cleared.row /\ screen' = "friends"
       /\ Fill(Printed(cleared, Lines["friends"]), "friends", "friends", cleared.row)
    /\ friendly' = TRUE
    /\ Close
    /\ Await("friends") /\ Steady
-----------------------------------------------------------------------------
(* The listener thread.                                                    *)

\* Mutant: the thread goes on when the process has ended.
NoticeForEver ==
    /\ friendly
    /\ Fill(tty, "friends", screen, top)
    /\ UNCHANGED <<screen, top, pc, friendly, strays, stray, window>>

\* modify_friend_state.
Notice ==
    /\ pc # "done" /\ friendly
    /\ Fill(tty, "friends", screen, top)
    /\ UNCHANGED <<screen, top, pc, friendly, strays, stray, window>>

\* The row of the cursor is erased from as many columns to the left as the
\* message has: all of it or the end of it.
Wiped(t) == {Erase(t), [Erase(t) EXCEPT !.used = t.used]}

\* recvmsg_from_server: it erases at the cursor whether or not a talk is shown.
Hear ==
    /\ pc # "done"
    /\ Receive
    /\ \E t \in Wiped(tty) : IF open THEN Fill(t, "talk", screen, top)
                             ELSE tty' = t /\ UNCHANGED misfilled
    /\ UNCHANGED <<screen, top, pc, friendly, strays, stray>>

ScreenNext ==
    \/ OpenForm \/ FillForm \/ Registered \/ LeaveForm
    \/ OpenLogin \/ get_login_data \/ LoggedIn \/ Refused \/ Granted \/ Listed
    \/ help_cmd \/ Helped \/ deal_error_cmd \/ Erred \/ Nothing \/ Quit \/ Done
    \/ FriendKey \/ ModifyState \/ get_user_state \/ Modified \/ OpenTalk
    \/ TalkKey \/ OpenText \/ SendLine \/ Sent \/ CloseText \/ CloseTalk
    \/ Notice \/ Hear

ScreenSpec == ScreenInit /\ [][ScreenNext]_<<window, front>>
-----------------------------------------------------------------------------
ScreenTypeOK ==
    /\ TypeOK
    /\ tty.row \in Int /\ tty.used \in SUBSET Int /\ tty.topmost \in Int
    /\ screen \in DOMAIN Lines /\ top \in Int
    /\ pc \in Prompts \cup Asking \cup Pauses \cup {"done"}
    /\ friendly \in BOOLEAN /\ misfilled \in SUBSET (Prompts \cup Asking \cup Pauses)
    /\ strays \in Nat /\ stray \in SUBSET {"register", "refused", "unlisted", "nothing"}

\* Whichever commands were typed and answered in between, the cursor is on the
\* row below the frame whenever a command or a text can be typed: ups and
\* newlines of every path balance.  A command that does nothing leaves it one
\* row lower, for good.  And where a command can be typed, what is seen is the
\* frame alone: nothing of an earlier screen, a message or a command is left,
\* whenever notices came in.  Where the list of friends was not answered, part
\* of the friend screen is.
Placed == pc \in {"main", "friends", "talk", "word", "text"} /\ "nothing" \notin stray =>
    /\ tty.row = top + Lines[screen]
    /\ Commanding /\ "unlisted" \notin stray => tty.used = top .. top + Lines[screen] - 1

\* clear_string_surface never reaches rows above the one the program was
\* started on, which are not its own, except where two clears meet: after the
\* registration form, and after a login that was refused.
ErasesOwn == stray \cap {"register", "refused"} = {} => tty.topmost >= 0

\* The rows filled, by either thread, are those of the frame shown, except
\* while the text of help stands under it and while a word or a text just
\* typed is not yet answered.
FillsFit == stray \cap {"nothing", "unlisted"} = {} =>
    misfilled \subseteq {"helped", "changing", "sending"}
=============================================================================
