---------------------------- MODULE FriendWindow ----------------------------
(***************************************************************************)
(* The friend window of the client, client/deal_friend_data.cpp: rows over *)
(* the list of friends that the server sent after the login.  The command  *)
(* thread fills and scrolls the rows, field by field; meanwhile the        *)
(* listener thread looks for a friend in the rows and writes the new state *)
(* there.  Nothing is locked, and a notice does not change the list.       *)
(*                                                                         *)
(* A friend is named by the position in the list.  `outdated', `calm' and    *)
(* `suspect' are history: they say when a row may differ from the state    *)
(* that was told last.                                                     *)
(***************************************************************************)
EXTENDS Integers

CONSTANTS Height,       \* FRIEND_SPACE_SIZE
          MaxFriends,   \* bound: length of the list
          States,       \* user_state
          Unset         \* the state of an empty row

ASSUME Space == Height \in Nat \ {0}
ASSUME Bound == MaxFriends \in Nat \ {0}
ASSUME Empty == Unset \notin States

Friends == 0 .. MaxFriends - 1
Blank   == -1
Nobody  == -1
Rows    == 0 .. Height - 1

VARIABLES phase,    \* "login", "listed" (get_friend_list), "shown" (init_friend_lists)
          size,     \* f_lists.size()
          listed,   \* the states in f_lists
          names,    \* print_f_lists: id and user_name
          states,   \* print_f_lists: state
          up, down, \* g_current_up_pos, g_current_down_pos
          op,       \* what the command thread is doing: "idle", "init", "down", "up"
          row,      \* its loop variable
          named,    \* whether it has copied the name of this row
          about,    \* whom the listener is looking for
          told,     \* the state it will write
          at,       \* its loop variable
          found,    \* whether it has compared this row, and found it
          actual,   \* history: the last state told of each friend
          outdated, \* history: friends who came on the screen with an old state
          calm,     \* history: what is being done started with the other thread at rest
          suspect   \* history: friends whose row a notice may have met while it moved

window   == <<names, states, up, down>>
list     == <<phase, size, listed>>
copying  == <<op, row, named>>
scanning == <<about, told, at, found>>
history  == <<actual, outdated, calm, suspect>>
vars     == <<window, list, copying, scanning, history>>

Init == /\ phase = "login" /\ size = 0
        /\ listed = [f \in Friends |-> Unset]
        /\ names = [i \in Rows |-> Blank] /\ states = [i \in Rows |-> Unset]
        /\ up = 0 /\ down = 0
        /\ op = "idle" /\ row = 0 /\ named = FALSE
        /\ about = Nobody /\ told = Unset /\ at = 0 /\ found = FALSE
        /\ actual = listed /\ outdated = {} /\ calm = TRUE /\ suspect = {}
-----------------------------------------------------------------------------
(* The command thread *)

\* get_friend_list, at the moment at which the server composes the answer.
GetFriendList ==
    /\ phase = "login"
    /\ phase' = "listed"
    /\ size' \in 0 .. MaxFriends
    /\ listed' \in {l \in [Friends -> States \cup {Unset}] :
                        \A f \in Friends : l[f] = Unset <=> f >= size'}
    /\ actual' = [f \in Friends |-> IF f < size' THEN listed'[f] ELSE actual[f]]
    /\ UNCHANGED <<window, copying, scanning, outdated, calm, suspect>>

\* One thread starts, and the other is at rest or not.
Meet(rest) == /\ calm' = rest
              /\ suspect' = IF rest THEN suspect ELSE Friends

Start(what, first) ==
    /\ op' = what /\ row' = first /\ named' = FALSE
    /\ Meet(about = Nobody)

\* init_friend_lists: the first friends, as many as fit.
StartInit ==
    /\ phase = "listed" /\ op = "idle"
    /\ IF size = 0 THEN phase' = "shown" /\ UNCHANGED <<copying, calm, suspect>>
                   ELSE Start("init", 0) /\ UNCHANGED phase
    /\ UNCHANGED <<window, size, listed, scanning, actual, outdated>>

\* Mutant: the end of the list is not checked.
StartDownUnguarded ==
    /\ phase = "shown" /\ op = "idle"
    /\ size >= Height
    /\ Start("down", 0)
    /\ UNCHANGED <<window, list, scanning, actual, outdated>>

\* friend_lists_down, up to the loop.
StartDown ==
    /\ phase = "shown" /\ op = "idle"
    /\ size >= Height /\ down < size
    /\ Start("down", 0)
    /\ UNCHANGED <<window, list, scanning, actual, outdated>>

\* Mutant: the position 0 passes the guard.
StartUpUnguarded ==
    /\ phase = "shown" /\ op = "idle"
    /\ size >= Height /\ up >= 0
    /\ up' = up - 1 /\ down' = down - 1
    /\ Start("up", Height - 1)
    /\ UNCHANGED <<names, states, list, scanning, actual, outdated>>

\* friend_lists_up, up to the loop: the positions change first.
StartUp ==
    /\ phase = "shown" /\ op = "idle"
    /\ size >= Height /\ up > 0
    /\ up' = up - 1 /\ down' = down - 1
    /\ Start("up", Height - 1)
    /\ UNCHANGED <<names, states, list, scanning, actual, outdated>>

\* The row that a row is copied from, if it is not the list.
Neighbour == IF op = "down" /\ row < Height - 1 THEN row + 1
             ELSE IF op = "up" /\ row > 0 THEN row - 1
             ELSE -1

\* The friend in the list otherwise.
Entry == CASE op = "init" -> row [] op = "down" -> down [] op = "up" -> up

CopyName ==
    /\ op # "idle" /\ ~named
    /\ names' = [names EXCEPT ![row] = IF Neighbour \in Rows THEN names[Neighbour] ELSE Entry]
    /\ named' = TRUE
    /\ UNCHANGED <<states, up, down, list, op, row, scanning, history>>

LastRow == CASE op = "init" -> row + 1 = (IF size < Height THEN size ELSE Height)
             [] op = "down" -> row = Height - 1
             [] op = "up"   -> row = 0

\* Mutant: only the lower position advances.
FinishBelow ==
    /\ op' = "idle" /\ row' = 0
    /\ \/ op = "init" /\ phase' = "shown" /\ up' = 0 /\ down' = row + 1
       \/ op = "down" /\ down' = down + 1 /\ UNCHANGED <<up, phase>>
       \/ op = "up" /\ UNCHANGED <<up, down, phase>>

\* What follows the loop: the positions, and back to the keyboard.
Finish ==
    /\ op' = "idle" /\ row' = 0
    /\ \/ op = "init" /\ phase' = "shown" /\ up' = 0 /\ down' = row + 1
       \/ op = "down" /\ up' = up + 1 /\ down' = down + 1 /\ UNCHANGED phase
       \/ op = "up" /\ UNCHANGED <<up, down, phase>>

\* A friend comes on the screen, with the state of the answer.
Enter(f) ==
    /\ outdated' = IF actual[f] = listed[f] THEN outdated \ {f} ELSE outdated \cup {f}
    /\ suspect' = IF calm THEN suspect \ {f} ELSE suspect

\* Mutant: the new last row keeps the state of the friend above.
CopyStateOfNeighbour ==
    /\ op # "idle" /\ named
    /\ states' = [states EXCEPT ![row] = IF Neighbour \in Rows THEN states[Neighbour]
                                         ELSE IF op = "down" THEN @ ELSE listed[Entry]]
    /\ named' = FALSE
    /\ \/ LastRow /\ Finish
       \/ /\ ~LastRow /\ row' = (IF op = "up" THEN row - 1 ELSE row + 1)
          /\ UNCHANGED <<op, up, down, phase>>
    /\ IF Neighbour \in Rows THEN UNCHANGED <<outdated, suspect>> ELSE Enter(Entry)
    /\ UNCHANGED <<names, size, listed, scanning, actual, calm>>

CopyState ==
    /\ op # "idle" /\ named
    /\ states' = [states EXCEPT ![row] = IF Neighbour \in Rows THEN states[Neighbour]
                                         ELSE listed[Entry]]
    /\ named' = FALSE
    /\ \/ LastRow /\ Finish
       \/ /\ ~LastRow /\ row' = (IF op = "up" THEN row - 1 ELSE row + 1)
          /\ UNCHANGED <<op, up, down, phase>>
    /\ IF Neighbour \in Rows THEN UNCHANGED <<outdated, suspect>> ELSE Enter(Entry)
    /\ UNCHANGED <<names, size, listed, scanning, actual, calm>>
-----------------------------------------------------------------------------
(* The listener thread: modify_friend_state *)

Notice(f, s) ==
    /\ about = Nobody
    /\ about' = f /\ told' = s /\ at' = 0 /\ found' = FALSE
    /\ actual' = [actual EXCEPT ![f] = s]
    /\ Meet(op = "idle")
    /\ UNCHANGED <<window, list, copying, outdated>>

EndScan == about' = Nobody /\ told' = Unset /\ at' = 0 /\ found' = FALSE

Compare ==
    /\ about # Nobody /\ ~found
    /\ \/ /\ names[at] = about
          /\ found' = TRUE
          /\ UNCHANGED <<about, told, at>>
       \/ /\ names[at] # about /\ at < Height - 1
          /\ at' = at + 1
          /\ UNCHANGED <<about, told, found>>
       \/ /\ names[at] # about /\ at = Height - 1
          /\ EndScan
    /\ UNCHANGED <<window, list, copying, history>>

\* Mutant: the state is written to the row above.
ModifyAbove ==
    /\ found
    /\ states' = [states EXCEPT ![IF at > 0 THEN at - 1 ELSE at] = told]
    /\ EndScan
    /\ outdated' = outdated \ {about}
    /\ suspect' = IF calm THEN suspect \ {about} ELSE suspect
    /\ UNCHANGED <<names, up, down, list, copying, actual, calm>>

Modify ==
    /\ found
    /\ states' = [states EXCEPT ![at] = told]
    /\ EndScan
    /\ outdated' = outdated \ {about}
    /\ suspect' = IF calm THEN suspect \ {about} ELSE suspect
    /\ UNCHANGED <<names, up, down, list, copying, actual, calm>>
-----------------------------------------------------------------------------
Next == \/ GetFriendList \/ StartInit \/ StartDown \/ StartUp
        \/ CopyName \/ CopyState
        \/ \E f \in Friends, s \in States : Notice(f, s)
        \/ Compare \/ Modify

Spec == Init /\ [][Next]_vars
-----------------------------------------------------------------------------
TypeOK == /\ phase \in {"login", "listed", "shown"}
          /\ size \in 0 .. MaxFriends
          /\ listed \in [Friends -> States \cup {Unset}]
          /\ names \in [Rows -> Friends \cup {Blank}]
          /\ states \in [Rows -> States \cup {Unset}]
          /\ up \in Nat /\ down \in Nat
          /\ op \in {"idle", "init", "down", "up"} /\ row \in Rows /\ named \in BOOLEAN
          /\ about \in Friends \cup {Nobody} /\ told \in States \cup {Unset}
          /\ at \in Rows /\ found \in BOOLEAN
          /\ actual \in [Friends -> States \cup {Unset}]
          /\ outdated \subseteq Friends /\ calm \in BOOLEAN /\ suspect \subseteq Friends

\* The types hold, and the list is never left (init_friend_lists and the two
\* scrolling functions): while the rows move down there is a friend at `down',
\* and while they move up the one at `up' is not on the screen yet.
IndexSafe == /\ TypeOK
             /\ op = "init" => row < size
             /\ op = "down" => down < size
             /\ op = "up" => up < size /\ (row = Height - 1 /\ ~named => up < names[0])

\* Every row whose friend no notice met while it moved shows exactly what the
\* two threads leave there: the state told last if that was while the friend
\* was on the screen, otherwise the one the server answered at the login,
\* however old.  A notice that meets no movement ends the suspicion, and so
\* does coming on the screen again.
Shown(f) == IF f \in outdated THEN listed[f] ELSE actual[f]

RowsCurrent == op = "idle" /\ about = Nobody =>
    \A i \in Rows : names[i] \notin suspect \cup {Blank} => states[i] = Shown(names[i])

\* Once the rows have moved, they are a Pager over the list, even if notices
\* race with them.
ListSize == IF phase = "shown" THEN size ELSE 0
Top      == IF op = "up" THEN up + 1 ELSE up
View     == IF op = "idle" THEN names
            ELSE [i \in Rows |-> IF Top + i < ListSize THEN Top + i ELSE Blank]

PagerView == INSTANCE Pager WITH size <- ListSize, first <- Top, view <- View
PagerSpec == PagerView!Spec
=============================================================================
