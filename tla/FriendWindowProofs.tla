------------------------- MODULE FriendWindowProofs -------------------------
(***************************************************************************)
(* Proofs about the friend window, for any number of rows and friends and  *)
(* with notices at any moment.                                             *)
(***************************************************************************)
EXTENDS FriendWindow, TLAPS

\* The positions: once the rows are filled they are as far apart as there are
\* rows in use, and a movement has one more friend below `down'.
PosInv == /\ phase = "login" => op = "idle" /\ size = 0
          /\ phase # "shown" => up = 0 /\ down = 0 /\ op \in {"idle", "init"}
          /\ phase = "shown" => /\ op # "init"
                                /\ down = up + (IF size < Height THEN size ELSE Height)
                                /\ down <= size
          /\ op = "init" => row < size
          /\ op \in {"down", "up"} => phase = "shown" /\ size >= Height /\ down < size
          /\ op = "idle" => ~named /\ row = 0

\* The rows that the loop has been over, the one it is at included if its
\* name is already copied.
Copied(i) == \/ op = "up" /\ i > row
             \/ op # "up" /\ i < row
             \/ i = row /\ named

\* What is in a row, at every moment of every loop.
RowInv == \A i \in Rows :
    /\ phase # "shown" => names[i] = IF op = "init" /\ Copied(i) THEN i ELSE Blank
    /\ phase = "shown" /\ op = "idle" => names[i] = IF up + i < size THEN up + i ELSE Blank
    /\ op = "down" => names[i] = IF Copied(i) THEN up + i + 1 ELSE up + i
    /\ op = "up" => names[i] = IF Copied(i) THEN up + i ELSE up + i + 1

IInv == TypeOK /\ PosInv /\ RowInv
-----------------------------------------------------------------------------
LEMMA InvInit == Init => IInv
<1> SUFFICES ASSUME Init PROVE IInv
  OBVIOUS
<1> USE Space, Bound, Empty DEF Rows, Friends, Blank, Nobody
<1>1. /\ listed \in [Friends -> States \cup {Unset}] /\ actual = listed
      /\ names \in [Rows -> Friends \cup {Blank}] /\ \A i \in Rows : names[i] = Blank
      /\ states \in [Rows -> States \cup {Unset}]
  BY DEF Init
<1>2. /\ phase = "login" /\ size = 0 /\ up = 0 /\ down = 0 /\ op = "idle" /\ row = 0
      /\ named = FALSE /\ about = Nobody /\ told = Unset /\ at = 0 /\ found = FALSE
      /\ outdated = {} /\ calm = TRUE /\ suspect = {}
  BY DEF Init
<1>3. TypeOK
  <2>1. size \in 0 .. MaxFriends /\ row \in Rows /\ at \in Rows /\ up \in Nat /\ down \in Nat
    BY <1>2
  <2>2. named \in BOOLEAN /\ found \in BOOLEAN /\ calm \in BOOLEAN
    BY <1>2
  <2>3. outdated \subseteq Friends /\ suspect \subseteq Friends
    BY <1>2
  <2>4. /\ phase \in {"login", "listed", "shown"} /\ op \in {"idle", "init", "down", "up"}
        /\ about \in Friends \cup {Nobody} /\ told \in States \cup {Unset}
    BY <1>2
  <2>5. QED BY <1>1, <2>1, <2>2, <2>3, <2>4 DEF TypeOK
<1>4. PosInv
  BY <1>2 DEF PosInv
<1>5. RowInv
  BY <1>1, <1>2 DEF RowInv
<1>6. QED BY <1>3, <1>4, <1>5 DEF IInv

LEMMA ListStep == IInv /\ GetFriendList => IInv'
<1> SUFFICES ASSUME IInv, GetFriendList PROVE IInv'
  OBVIOUS
<1> USE Space, Bound, Empty DEF IInv, Rows, Friends, Blank, Nobody
<1>1. /\ phase = "login" /\ phase' = "listed" /\ size' \in 0 .. MaxFriends
      /\ listed' \in [Friends -> States \cup {Unset}]
      /\ actual' = [f \in Friends |-> IF f < size' THEN listed'[f] ELSE actual[f]]
      /\ UNCHANGED <<names, states, up, down, op, row, named, about, told, at, found,
                     outdated, calm, suspect>>
  BY DEF GetFriendList, window, copying, scanning
<1>2. TypeOK'
  BY <1>1 DEF TypeOK
<1>3. PosInv'
  BY <1>1 DEF PosInv
<1>4. RowInv'
  BY <1>1 DEF RowInv, PosInv
<1>5. QED BY <1>2, <1>3, <1>4

\* A loop begins: the rows are where they were, seen from its first row.
LEMMA BeginStep ==
    ASSUME IInv, NEW rest \in BOOLEAN, op = "idle", named' = FALSE, op' \in {"init", "down", "up"},
           row' = IF op' = "up" THEN Height - 1 ELSE 0,
           IF op' = "init" THEN phase = "listed" /\ size > 0
                           ELSE phase = "shown" /\ size >= Height,
           IF op' = "up" THEN up > 0 /\ up' = up - 1 /\ down' = down - 1
                         ELSE up' = up /\ down' = down,
           op' = "down" => down < size,
           calm' \in BOOLEAN, suspect' \subseteq Friends,
           UNCHANGED <<names, states, list, scanning, actual, outdated>>
    PROVE  IInv'
<1> USE Space, Bound, Empty DEF IInv, Rows, Friends, Blank, Nobody, list, scanning
<1>1. TypeOK'
  <2>1. up \in Nat /\ down \in Nat /\ size \in Nat
    BY DEF TypeOK
  <2>2. up' \in Nat /\ down' \in Nat
    BY <2>1 DEF PosInv
  <2>3. row' \in Rows
    OBVIOUS
  <2>4. QED BY <2>2, <2>3 DEF TypeOK
<1>2. PosInv'
  BY DEF PosInv, TypeOK
<1>3. RowInv'
  <2> SUFFICES ASSUME NEW i \in Rows
               PROVE  /\ op' = "init" => names[i] = IF Copied(i)' THEN i ELSE Blank
                      /\ op' = "down" => names[i] = IF Copied(i)' THEN up + i + 1 ELSE up + i
                      /\ op' = "up" => names[i] = IF Copied(i)' THEN up' + i ELSE up' + i + 1
    BY DEF RowInv
  <2>1. ~Copied(i)'
    BY DEF Copied
  <2>2. up \in Nat /\ size \in Nat /\ down \in Nat
    BY DEF TypeOK
  <2>3. CASE op' = "init"
    BY <2>1, <2>3 DEF RowInv
  <2>4. CASE op' # "init"
    <3>1. up + i < size
      BY <2>2, <2>4 DEF PosInv
    <3>2. names[i] = up + i
      BY <2>4, <3>1 DEF RowInv
    <3>3. QED BY <2>1, <2>2, <2>4, <3>2
  <2>5. QED BY <2>3, <2>4
<1>4. QED BY <1>1, <1>2, <1>3

LEMMA StartSteps == IInv /\ (StartInit \/ StartDown \/ StartUp) => IInv'
<1> SUFFICES ASSUME IInv, StartInit \/ StartDown \/ StartUp PROVE IInv'
  OBVIOUS
<1>1. suspect \subseteq Friends /\ size \in Nat /\ (about = Nobody) \in BOOLEAN
  BY DEF IInv, TypeOK
<1>2. ASSUME NEW what \in {"init", "down", "up"}, NEW first, Start(what, first)
      PROVE  /\ op' = what /\ row' = first /\ named' = FALSE
             /\ calm' \in BOOLEAN /\ suspect' \subseteq Friends
  BY <1>1, <1>2 DEF Start, Meet
<1>3. CASE StartInit
  <2>1. CASE size = 0
    <3> USE DEF IInv
    <3>1. /\ phase = "listed" /\ phase' = "shown" /\ op = "idle"
          /\ UNCHANGED <<op, row, named, calm, suspect, names, states, up, down, size, listed,
                         about, told, at, found, actual, outdated>>
      BY <1>3, <2>1 DEF StartInit, copying, window, scanning
    <3>2. TypeOK'
      BY <3>1 DEF TypeOK
    <3>3. PosInv'
      BY <2>1, <3>1, Space DEF PosInv
    <3>4. RowInv'
      BY <2>1, <3>1 DEF RowInv, PosInv, Rows, Blank
    <3>5. QED BY <3>2, <3>3, <3>4
  <2>2. CASE size # 0
    <3>1. /\ phase = "listed" /\ op = "idle" /\ Start("init", 0) /\ phase' = phase
          /\ UNCHANGED <<window, size, listed, scanning, actual, outdated>>
      BY <1>3, <2>2 DEF StartInit
    <3>2. /\ op' = "init" /\ row' = 0 /\ named' = FALSE
          /\ calm' \in BOOLEAN /\ suspect' \subseteq Friends
      BY <1>2, <3>1
    <3>3. /\ size > 0 /\ up' = up /\ down' = down
          /\ UNCHANGED <<names, states, list, scanning, actual, outdated>>
      BY <1>1, <2>2, <3>1 DEF window, list
    <3>4. QED BY <3>1, <3>2, <3>3, BeginStep
  <2>3. QED BY <2>1, <2>2
<1>4. CASE StartDown
  BY <1>2, <1>4, BeginStep DEF StartDown, window
<1>5. CASE StartUp
  BY <1>2, <1>5, BeginStep DEF StartUp
<1>6. QED BY <1>3, <1>4, <1>5

LEMMA CopyNameStep == IInv /\ CopyName => IInv'
<1> SUFFICES ASSUME IInv, CopyName PROVE IInv'
  OBVIOUS
<1> USE Space, Bound DEF IInv, Rows, Friends, Blank, Nobody
<1> DEFINE new == IF Neighbour \in Rows THEN names[Neighbour] ELSE Entry
<1>1. /\ op # "idle" /\ ~named /\ named' = TRUE /\ names' = [names EXCEPT ![row] = new]
      /\ UNCHANGED <<states, up, down, phase, size, listed, op, row, about, told, at, found,
                     actual, outdated, calm, suspect>>
  BY DEF CopyName, list, scanning, history
<1>2. up \in Nat /\ down \in Nat /\ size \in 0 .. MaxFriends /\ row \in Rows
      /\ op \in {"init", "down", "up"} /\ names \in [Rows -> Friends \cup {Blank}]
  BY <1>1 DEF TypeOK
<1>3. /\ op = "init" => new = row
      /\ op = "down" => new = up + row + 1
      /\ op = "up" => new = up + row
  <2>1. CASE op = "init"
    BY <2>1 DEF Neighbour, Entry
  <2>2. CASE op = "down"
    <3>1. down = up + Height /\ Entry = down
      BY <1>2, <2>2 DEF PosInv, Entry
    <3>2. row < Height - 1 => row + 1 \in Rows /\ names[row + 1] = up + (row + 1)
      BY <1>1, <1>2, <2>2 DEF RowInv, Copied
    <3>3. QED BY <1>2, <2>2, <3>1, <3>2 DEF Neighbour
  <2>3. CASE op = "up"
    <3>1. Entry = up
      BY <2>3 DEF Entry
    <3>2. row > 0 => row - 1 \in Rows /\ names[row - 1] = up + (row - 1) + 1
      BY <1>1, <1>2, <2>3 DEF RowInv, Copied
    <3>3. QED BY <1>2, <2>3, <3>1, <3>2 DEF Neighbour
  <2>4. QED BY <1>2, <2>1, <2>2, <2>3
<1>4. new \in Friends
  BY <1>2, <1>3 DEF PosInv
<1>5. TypeOK'
  <2>1. names' \in [Rows -> Friends \cup {Blank}]
    BY <1>1, <1>2, <1>4
  <2>2. QED BY <1>1, <2>1 DEF TypeOK
<1>6. PosInv'
  BY <1>1 DEF PosInv
<1>7. RowInv'
  <2> SUFFICES ASSUME NEW i \in Rows
               PROVE  /\ phase # "shown" => names'[i] = IF op = "init" /\ Copied(i)' THEN i ELSE Blank
                      /\ op = "down" => names'[i] = IF Copied(i)' THEN up + i + 1 ELSE up + i
                      /\ op = "up" => names'[i] = IF Copied(i)' THEN up + i ELSE up + i + 1
    BY <1>1 DEF RowInv
  <2>1. CASE i = row
    <3>1. names'[i] = new /\ Copied(i)'
      BY <1>1, <1>2, <2>1 DEF Copied
    <3>2. QED BY <1>1, <1>2, <1>3, <2>1, <3>1 DEF PosInv
  <2>2. CASE i # row
    <3>1. names'[i] = names[i] /\ (Copied(i)' <=> Copied(i))
      BY <1>1, <1>2, <2>2 DEF Copied
    <3>2. QED BY <3>1 DEF RowInv
  <2>3. QED BY <2>1, <2>2
<1>8. QED BY <1>5, <1>6, <1>7

LEMMA CopyStateStep == IInv /\ CopyState => IInv'
<1> SUFFICES ASSUME IInv, CopyState PROVE IInv'
  OBVIOUS
<1> USE Space, Bound DEF IInv, Rows, Friends, Blank, Nobody
<1> DEFINE new == IF Neighbour \in Rows THEN states[Neighbour] ELSE listed[Entry]
<1>1. /\ op # "idle" /\ named /\ named' = FALSE /\ states' = [states EXCEPT ![row] = new]
      /\ UNCHANGED <<names, size, listed, about, told, at, found, actual, calm>>
  BY DEF CopyState, scanning
<1>2. up \in Nat /\ down \in Nat /\ size \in 0 .. MaxFriends /\ row \in Rows
      /\ op \in {"init", "down", "up"} /\ outdated \subseteq Friends /\ suspect \subseteq Friends
      /\ listed \in [Friends -> States \cup {Unset}] /\ states \in [Rows -> States \cup {Unset}]
      /\ phase \in {"listed", "shown"}
  BY <1>1 DEF TypeOK, PosInv
<1>3. Entry \in Friends
  BY <1>2 DEF Entry, PosInv
<1>4. states' \in [Rows -> States \cup {Unset}] /\ outdated' \subseteq Friends /\ suspect' \subseteq Friends
  <2>1. new \in States \cup {Unset}
    BY <1>2, <1>3
  <2>2. outdated' \subseteq Friends /\ suspect' \subseteq Friends
    BY <1>2, <1>3 DEF CopyState, Enter
  <2>3. QED BY <1>1, <1>2, <2>1, <2>2
<1>5. CASE LastRow /\ Finish
  <2>1. op' = "idle" /\ row' = 0 /\ 0 \in Rows
    BY <1>5 DEF Finish
  <2>2. /\ op = "init" => phase' = "shown" /\ up' = 0 /\ down' = row + 1
        /\ op = "down" => up' = up + 1 /\ down' = down + 1 /\ phase' = phase
        /\ op = "up" => up' = up /\ down' = down /\ phase' = phase
    BY <1>5 DEF Finish
  <2>3. /\ op = "init" => row + 1 = IF size < Height THEN size ELSE Height
        /\ op = "down" => row = Height - 1
        /\ op = "up" => row = 0
    BY <1>5 DEF LastRow
  <2>4. TypeOK'
    <3>1. up' \in Nat /\ down' \in Nat /\ phase' \in {"listed", "shown"}
      BY <1>2, <2>2
    <3>2. QED BY <1>1, <1>4, <2>1, <3>1 DEF TypeOK
  <2>5. PosInv'
    BY <1>1, <1>2, <2>1, <2>2, <2>3 DEF PosInv
  <2>6. RowInv'
    <3> SUFFICES ASSUME NEW i \in Rows PROVE names[i] = IF up' + i < size THEN up' + i ELSE Blank
      BY <1>1, <1>2, <2>1, <2>2 DEF RowInv, PosInv
    <3>1. CASE op = "init"
      BY <1>1, <1>2, <2>2, <2>3, <3>1 DEF RowInv, PosInv, Copied
    <3>2. CASE op = "down"
      BY <1>1, <1>2, <2>2, <2>3, <3>2 DEF RowInv, PosInv, Copied
    <3>3. CASE op = "up"
      BY <1>1, <1>2, <2>2, <2>3, <3>3 DEF RowInv, PosInv, Copied
    <3>4. QED BY <1>2, <3>1, <3>2, <3>3
  <2>7. QED BY <2>4, <2>5, <2>6
<1>6. CASE /\ ~LastRow /\ row' = (IF op = "up" THEN row - 1 ELSE row + 1)
           /\ UNCHANGED <<op, up, down, phase>>
  <2>1. /\ op = "init" => row' \in Rows /\ row' < size
        /\ op = "down" => row' \in Rows
        /\ op = "up" => row' \in Rows
    <3>1. CASE op = "init"
      <4>1. row < size /\ row + 1 # IF size < Height THEN size ELSE Height
        BY <1>6, <3>1 DEF LastRow, PosInv
      <4>2. row' = row + 1
        BY <1>6, <3>1
      <4>3. QED BY <1>2, <3>1, <4>1, <4>2
    <3>2. CASE op = "down"
      BY <1>2, <1>6, <3>2 DEF LastRow
    <3>3. CASE op = "up"
      BY <1>2, <1>6, <3>3 DEF LastRow
    <3>4. QED BY <1>2, <3>1, <3>2, <3>3
  <2>2. TypeOK'
    BY <1>1, <1>2, <1>4, <1>6, <2>1 DEF TypeOK
  <2>3. PosInv'
    BY <1>1, <1>6, <2>1 DEF PosInv
  <2>4. RowInv'
    <3> SUFFICES ASSUME NEW i \in Rows PROVE Copied(i)' <=> Copied(i)
      BY <1>1, <1>6 DEF RowInv
    <3>1. QED BY <1>1, <1>2, <1>6 DEF Copied
  <2>5. QED BY <2>2, <2>3, <2>4
<1>7. QED BY <1>5, <1>6 DEF CopyState

\* The listener thread touches neither the names nor the positions.
LEMMA ListenerStep ==
    ASSUME IInv, (\E f \in Friends, s \in States : Notice(f, s)) \/ Compare \/ Modify
    PROVE  IInv' /\ UNCHANGED <<names, up, down, list, copying>>
<1> USE Space, Bound DEF IInv, Rows, Friends, Blank, Nobody, list, copying
<1>1. CASE \E f \in Friends, s \in States : Notice(f, s)
  <2> PICK f \in Friends, s \in States : Notice(f, s)
    BY <1>1
  <2>1. /\ about' = f /\ told' = s /\ at' = 0 /\ found' = FALSE
        /\ actual' = [actual EXCEPT ![f] = s]
        /\ UNCHANGED <<window, list, copying, outdated>>
        /\ calm' = (op = "idle") /\ suspect' \in {suspect, Friends}
    BY DEF Notice, Meet
  <2>2. TypeOK'
    <3>1. actual' \in [Friends -> States \cup {Unset}]
      BY <2>1 DEF TypeOK
    <3>2. suspect' \subseteq Friends /\ 0 \in Rows
      BY <2>1 DEF TypeOK
    <3>3. UNCHANGED <<phase, size, listed, names, states, up, down, op, row, named, outdated>>
      BY <2>1 DEF window
    <3>4. QED BY <2>1, <3>1, <3>2, <3>3 DEF TypeOK
  <2>3. QED BY <2>1, <2>2 DEF window, PosInv, RowInv, Copied
<1>2. CASE Compare
  <2>1. UNCHANGED <<window, list, copying, history>>
    BY <1>2 DEF Compare
  <2>2. /\ at' \in Rows /\ found' \in BOOLEAN
        /\ about' \in {about, Nobody} /\ told' \in {told, Unset}
    <3> USE DEF TypeOK
    <3>1. CASE found' = TRUE /\ UNCHANGED <<about, told, at>>
      BY <3>1
    <3>2. CASE at < Height - 1 /\ at' = at + 1 /\ UNCHANGED <<about, told, found>>
      BY <3>2
    <3>3. CASE EndScan
      <4>1. about' = Nobody /\ told' = Unset /\ at' = 0 /\ found' = FALSE
        BY <3>3 DEF EndScan
      <4>2. at' \in Rows
        BY <4>1
      <4>3. found' \in BOOLEAN
        BY <4>1
      <4>4. QED BY <4>1, <4>2, <4>3
    <3>4. QED BY <1>2, <3>1, <3>2, <3>3 DEF Compare
  <2>3. TypeOK'
    BY <2>1, <2>2 DEF TypeOK, window, history
  <2>4. QED BY <2>1, <2>3 DEF window, PosInv, RowInv, Copied
<1>3. CASE Modify
  <2>1. /\ states' = [states EXCEPT ![at] = told] /\ EndScan
        /\ outdated' = outdated \ {about} /\ suspect' \in {suspect, suspect \ {about}}
        /\ UNCHANGED <<names, up, down, list, copying, actual, calm>>
    BY <1>3 DEF Modify
  <2>2. TypeOK'
    <3>1. states' \in [Rows -> States \cup {Unset}]
      BY <2>1 DEF TypeOK
    <3>2. outdated' \subseteq Friends /\ suspect' \subseteq Friends /\ 0 \in Rows
      BY <2>1 DEF TypeOK
    <3>3. QED BY <2>1, <3>1, <3>2 DEF TypeOK, EndScan
  <2>3. QED BY <2>1, <2>2 DEF PosInv, RowInv, Copied
<1>4. QED BY <1>1, <1>2, <1>3

LEMMA InvStep == IInv /\ [Next]_vars => IInv'
<1>1. CASE UNCHANGED vars
  BY <1>1 DEF IInv, TypeOK, PosInv, RowInv, Copied, vars, window, list, copying, scanning, history
<1>2. CASE Next
  BY <1>2, ListStep, StartSteps, CopyNameStep, CopyStateStep, ListenerStep DEF Next
<1>3. QED BY <1>1, <1>2

LEMMA Inductive == Spec => []IInv
<1>1. QED BY InvInit, InvStep, PTL DEF Spec

\* friend_lists_down reads the list at `down' and friend_lists_up at `up': the
\* read is in the list in every interleaving with modify_friend_state.
THEOREM InsideTheList == Spec => []IndexSafe
<1>1. IInv => IndexSafe
  <2> SUFFICES ASSUME IInv PROVE IndexSafe
    OBVIOUS
  <2>1. /\ up \in Nat /\ down \in Nat /\ size \in 0 .. MaxFriends
        /\ op \in {"idle", "init", "down", "up"} /\ row \in Rows
    BY DEF IInv, TypeOK
  <2>2. op = "up" => up < size
    BY <2>1, Space DEF IInv, PosInv
  <2>3. ASSUME op = "up", row = Height - 1, ~named PROVE up < names[0]
    <3>1. 0 \in Rows /\ ~Copied(0)
      BY <2>1, <2>3, Space DEF Rows, Copied
    <3>2. names[0] = up + 0 + 1
      BY <2>3, <3>1 DEF IInv, RowInv
    <3>3. QED BY <2>1, <3>2
  <2>4. QED BY <2>2, <2>3 DEF IInv, PosInv, IndexSafe
<1>2. QED BY <1>1, Inductive, PTL
-----------------------------------------------------------------------------
ViewInv == View = PagerView!Stretch(ListSize, Top)

LEMMA ViewIsStretch == IInv => ViewInv
<1> SUFFICES ASSUME IInv, op = "idle"
             PROVE  names = [i \in Rows |-> IF Top + i < ListSize THEN Top + i ELSE Blank]
  BY DEF ViewInv, View, PagerView!Stretch, PagerView!Rows, PagerView!Blank, Rows, Blank
<1>1. names = [i \in Rows |-> names[i]] /\ up \in Nat
  BY DEF IInv, TypeOK
<1>2. ASSUME NEW i \in Rows PROVE names[i] = IF Top + i < ListSize THEN Top + i ELSE Blank
  <2>1. CASE phase = "shown"
    BY <2>1 DEF IInv, RowInv, Top, ListSize
  <2>2. CASE phase # "shown"
    <3>1. names[i] = Blank /\ Top = 0 /\ ListSize = 0 /\ i \in 0 .. Height - 1
      BY <2>2 DEF IInv, RowInv, PosInv, Rows, Top, ListSize
    <3>2. QED BY <3>1, Space
  <2>3. QED BY <2>1, <2>2
<1>3. QED BY <1>1, <1>2

\* In every interleaving with the notices the window is a Pager over the
\* list: a loop changes what the Pager shows once, in its last step.
THEOREM ShowsStretch == Spec => PagerSpec
<1>1. Init => PagerView!Init
  BY DEF Init, PagerView!Init, PagerView!Stretch, PagerView!Rows, PagerView!Blank, Rows, Blank,
         ListSize, Top, View
<1>2. ASSUME IInv, ViewInv, ViewInv', [Next]_vars PROVE [PagerView!Next]_(PagerView!vars)
  <2> USE <1>2 DEF IInv
  <2>1. ASSUME ListSize' = ListSize, Top' = Top PROVE UNCHANGED PagerView!vars
    BY <2>1 DEF ViewInv, PagerView!Stretch, PagerView!Rows, PagerView!vars
  <2>2. CASE GetFriendList
    BY <2>1, <2>2 DEF GetFriendList, ListSize, Top, window, copying
  <2>3. CASE StartInit
    BY <2>1, <2>3, Zenon DEF StartInit, Start, PosInv, ListSize, Top, window, copying
  <2>4. CASE StartDown
    BY <2>1, <2>4 DEF StartDown, Start, PosInv, ListSize, Top, window, list
  <2>5. CASE StartUp
    <3>1. op = "idle" /\ op' = "up" /\ up' = up - 1 /\ phase' = phase /\ size' = size /\ up \in Nat
      BY <2>5 DEF StartUp, Start, list, TypeOK
    <3>2. QED BY <2>1, <3>1 DEF ListSize, Top
  <2>6. CASE CopyName
    BY <2>1, <2>6 DEF CopyName, ListSize, Top, list
  <2>7. CASE CopyState
    <3>1. CASE LastRow /\ Finish
      <4> USE DEF PagerView!Next, PagerView!Show, ViewInv
      <4>1. op' = "idle" /\ size' = size /\ up \in Nat /\ size \in Nat /\ op \in {"init", "down", "up"}
        BY <2>7, <3>1 DEF CopyState, Finish, TypeOK
      <4>2. CASE op = "init"
        <5>1. phase # "shown" /\ phase' = "shown" /\ up' = 0
          BY <3>1, <4>2 DEF Finish, PosInv
        <5>2. ListSize = 0 /\ ListSize' = size /\ Top' = 0
          BY <4>1, <5>1 DEF ListSize, Top
        <5>3. QED BY <4>1, <5>2 DEF PagerView!Load
      <4>3. CASE op = "down"
        <5>1. phase = "shown" /\ phase' = phase /\ up' = up + 1 /\ up + Height < size
          BY <3>1, <4>1, <4>3, Space DEF Finish, PosInv
        <5>2. Top = up /\ Top' = up + 1 /\ ListSize = size /\ ListSize' = size
          BY <4>1, <4>3, <5>1 DEF ListSize, Top
        <5>3. QED BY <5>1, <5>2 DEF PagerView!ScrollDown
      <4>4. CASE op = "up"
        <5>1. phase = "shown" /\ phase' = phase /\ up' = up
          BY <3>1, <4>4 DEF Finish, PosInv
        <5>2. Top = up + 1 /\ Top' = up /\ ListSize = size /\ ListSize' = size
          BY <4>1, <4>4, <5>1 DEF ListSize, Top
        <5>3. Top > 0 /\ Top' = Top - 1 /\ ListSize' = ListSize
          BY <4>1, <5>2
        <5>4. QED BY <5>3 DEF PagerView!ScrollUp
      <4>5. QED BY <4>1, <4>2, <4>3, <4>4
    <3>2. CASE UNCHANGED <<op, up, down, phase>>
      BY <2>1, <2>7, <3>2 DEF CopyState, ListSize, Top
    <3>3. QED BY <2>7, <3>1, <3>2 DEF CopyState
  <2>8. CASE (\E f \in Friends, s \in States : Notice(f, s)) \/ Compare \/ Modify
    <3>1. UNCHANGED <<names, up, down, list, copying>>
      BY <2>8, ListenerStep
    <3>2. QED BY <2>1, <3>1 DEF list, copying, ListSize, Top
  <2>9. CASE UNCHANGED vars
    BY <2>1, <2>9 DEF vars, window, list, copying, ListSize, Top
  <2>10. QED BY <2>2, <2>3, <2>4, <2>5, <2>6, <2>7, <2>8, <2>9 DEF Next
<1>3. QED BY <1>1, <1>2, Inductive, ViewIsStretch, PTL DEF Spec, PagerSpec, PagerView!Spec
-----------------------------------------------------------------------------
\* Two threads at work at once is what makes every row suspect.
CalmInv == /\ calm => op = "idle" \/ about = Nobody
           /\ ~calm => suspect = Friends
           /\ about = Nobody => ~found

\* What the listener knows in the middle of a scan that nothing disturbs.
ScanInv == calm /\ about # Nobody =>
    /\ \A i \in Rows : i < at => names[i] # about
    /\ found => names[at] = about
    /\ told = actual[about] \/ \A i \in Rows : names[i] = Blank

\* Whose state is in a row: between the two copies still the one before.
Owner(i) == IF i = row /\ named
            THEN IF op = "init" THEN Blank ELSE IF op = "down" THEN up + i ELSE up + i + 1
            ELSE names[i]

StateInv == \A i \in Rows :
    Owner(i) \notin suspect \cup {Blank, about} => states[i] = Shown(Owner(i))

SInv == CalmInv /\ ScanInv /\ StateInv

LEMMA OwnerType == ASSUME IInv, NEW i \in Rows PROVE Owner(i) \in Friends \cup {Blank}
<1>1. names[i] \in Friends \cup {Blank} /\ up \in Nat /\ size \in 0 .. MaxFriends
      /\ down \in Nat /\ op \in {"idle", "init", "down", "up"}
  BY DEF IInv, TypeOK
<1>2. CASE named /\ op \in {"down", "up"}
  <2>1. down = up + Height /\ down < size
    BY <1>1, <1>2, Space DEF IInv, PosInv
  <2>2. up + i \in Friends /\ up + i + 1 \in Friends
    BY <1>1, <2>1, Space, Bound DEF Rows, Friends
  <2>3. QED BY <1>1, <2>2 DEF Owner
<1>3. CASE ~(named /\ op \in {"down", "up"})
  BY <1>1, <1>3 DEF Owner, IInv, PosInv
<1>4. QED BY <1>2, <1>3

\* At rest a friend is in one row at most.
LEMMA OneRow == ASSUME IInv, op = "idle", NEW i \in Rows, NEW j \in Rows,
                       names[i] = names[j], names[i] # Blank
                PROVE  i = j
<1>1. phase = "shown"
  BY DEF IInv, RowInv
<1>2. names[i] = up + i /\ names[j] = up + j /\ up \in Nat
  BY <1>1 DEF IInv, RowInv, TypeOK
<1>3. up + i = up + j
  BY <1>2, Zenon
<1>4. i \in Int /\ j \in Int
  BY Space DEF Rows
<1>5. QED BY <1>2, <1>3, <1>4

LEMMA StateInit == Init => SInv
<1> SUFFICES ASSUME Init PROVE SInv
  OBVIOUS
<1>1. /\ calm = TRUE /\ about = Nobody /\ named = FALSE /\ op = "idle" /\ found = FALSE
      /\ \A i \in Rows : names[i] = Blank
  BY DEF Init
<1>2. QED BY <1>1 DEF SInv, CalmInv, ScanInv, StateInv, Owner

LEMMA StateList == IInv /\ SInv /\ GetFriendList => SInv'
<1> SUFFICES ASSUME IInv, SInv, GetFriendList PROVE SInv'
  OBVIOUS
<1>1. /\ phase = "login" /\ op = "idle" /\ ~named
      /\ UNCHANGED <<names, states, op, row, named, about, told, at, found, calm, suspect>>
  BY DEF GetFriendList, IInv, PosInv, window, copying, scanning
<1>2. \A i \in Rows : names[i] = Blank
  BY <1>1 DEF IInv, RowInv
<1>3. CalmInv'
  BY <1>1 DEF SInv, CalmInv
<1>4. ScanInv'
  BY <1>1, <1>2 DEF SInv, ScanInv
<1>5. StateInv'
  BY <1>1, <1>2 DEF StateInv, Owner
<1>6. QED BY <1>3, <1>4, <1>5 DEF SInv

\* A loop begins: with the listener at work every row becomes suspect.
LEMMA StateBegin ==
    ASSUME IInv, SInv, op = "idle", named' = FALSE, Meet(about = Nobody),
           UNCHANGED <<names, states, list, scanning, actual, outdated>>
    PROVE  SInv'
<1>1. ~named /\ UNCHANGED <<about, told, at, found, listed>>
  BY DEF IInv, PosInv, list, scanning
<1>2. (calm' <=> about = Nobody) /\ suspect' = IF about = Nobody THEN suspect ELSE Friends
  BY DEF Meet
<1>3. CalmInv' /\ ScanInv'
  BY <1>1, <1>2 DEF SInv, CalmInv, ScanInv
<1>4. StateInv'
  <2> SUFFICES ASSUME NEW i \in Rows, Owner(i)' \notin suspect' \cup {Blank, about'}
               PROVE  states'[i] = Shown(Owner(i))'
    BY DEF StateInv
  <2>1. Owner(i)' = Owner(i) /\ Owner(i) \in Friends \cup {Blank}
    BY <1>1, OwnerType DEF Owner
  <2>2. suspect' = suspect
    BY <1>2, <2>1
  <2>3. states[i] = Shown(Owner(i))
    BY <1>1, <2>1, <2>2 DEF SInv, StateInv
  <2>4. QED BY <1>1, <2>1, <2>3 DEF Shown
<1>5. QED BY <1>3, <1>4 DEF SInv

LEMMA StateStart == IInv /\ SInv /\ (StartInit \/ StartDown \/ StartUp) => SInv'
<1> SUFFICES ASSUME IInv, SInv, StartInit \/ StartDown \/ StartUp PROVE SInv'
  OBVIOUS
<1>1. CASE StartInit /\ size = 0
  <2>1. UNCHANGED <<op, row, named, calm, suspect, names, states, up, down, listed, about, told,
                    at, found, actual, outdated>>
    BY <1>1 DEF StartInit, copying, window, scanning
  <2>2. QED BY <2>1 DEF SInv, CalmInv, ScanInv, StateInv, Owner, Shown
<1>2. CASE StartInit /\ size # 0
  <2>1. op = "idle" /\ Start("init", 0) /\ UNCHANGED <<phase, window, size, listed, scanning, actual, outdated>>
    BY <1>2 DEF StartInit
  <2>2. QED BY <2>1, StateBegin DEF Start, window, list
<1>3. CASE StartDown
  BY <1>3, StateBegin DEF StartDown, Start, window
<1>4. CASE StartUp
  BY <1>4, StateBegin DEF StartUp, Start
<1>5. QED BY <1>1, <1>2, <1>3, <1>4

LEMMA StateCopyName == IInv /\ SInv /\ CopyName => SInv'
<1> SUFFICES ASSUME IInv, SInv, CopyName PROVE SInv'
  OBVIOUS
<1>1. /\ op # "idle" /\ ~named /\ named' = TRUE
      /\ UNCHANGED <<states, up, op, row, listed, about, told, at, found, actual, outdated, calm, suspect>>
  BY DEF CopyName, list, scanning, history
<1>2. CalmInv' /\ ScanInv'
  BY <1>1 DEF SInv, CalmInv, ScanInv
<1>3. ASSUME NEW i \in Rows PROVE Owner(i)' = Owner(i)
  <2>1. CASE i = row
    <3>1. ~Copied(i)
      BY <1>1, <2>1, Space DEF Copied, Rows
    <3>2. /\ op = "init" => names[i] = Blank
          /\ op = "down" => names[i] = up + i
          /\ op = "up" => names[i] = up + i + 1
      BY <3>1 DEF IInv, RowInv, PosInv
    <3>3. op \in {"init", "down", "up"}
      BY <1>1 DEF IInv, TypeOK
    <3>4. QED BY <1>1, <2>1, <3>2, <3>3 DEF Owner
  <2>2. CASE i # row
    <3>1. names'[i] = names[i]
      BY <2>2 DEF CopyName, IInv, TypeOK
    <3>2. QED BY <1>1, <2>2, <3>1 DEF Owner
  <2>3. QED BY <2>1, <2>2
<1>4. StateInv'
  BY <1>1, <1>3 DEF SInv, StateInv, Shown
<1>5. QED BY <1>2, <1>4 DEF SInv

LEMMA StateCopyState == IInv /\ SInv /\ CopyState => SInv'
<1> SUFFICES ASSUME IInv, SInv, CopyState PROVE SInv'
  OBVIOUS
<1>1. /\ op # "idle" /\ named /\ named' = FALSE
      /\ states' = [states EXCEPT ![row] = IF Neighbour \in Rows THEN states[Neighbour] ELSE listed[Entry]]
      /\ IF Neighbour \in Rows THEN UNCHANGED <<outdated, suspect>> ELSE Enter(Entry)
      /\ UNCHANGED <<names, listed, about, told, at, found, actual, calm>>
  BY DEF CopyState, scanning
<1>2. /\ row \in Rows /\ op \in {"init", "down", "up"} /\ states \in [Rows -> States \cup {Unset}]
      /\ up \in Nat /\ down \in Nat /\ size \in Nat
  BY <1>1 DEF IInv, TypeOK
<1>3. CalmInv' /\ ScanInv'
  <2>1. suspect' \in {suspect, suspect \ {Entry}} /\ (~calm => suspect' = suspect)
    BY <1>1 DEF Enter
  <2>2. QED BY <1>1, <2>1 DEF SInv, CalmInv, ScanInv
<1>4. /\ op = "init" => names[row] = row
      /\ op = "down" => names[row] = up + row + 1
      /\ op = "up" => names[row] = up + row
  BY <1>1, <1>2 DEF IInv, RowInv, PosInv, Copied
<1>5. CASE Neighbour \in Rows
  <2>1. Neighbour # row /\ names[Neighbour] = names[row]
    <3>1. CASE op = "down" /\ row < Height - 1
      <4>1. Neighbour = row + 1 /\ row + 1 \in Rows /\ ~Copied(row + 1)
        BY <1>2, <3>1, Space DEF Neighbour, Copied, Rows
      <4>2. names[row + 1] = up + (row + 1)
        BY <3>1, <4>1 DEF IInv, RowInv
      <4>3. QED BY <1>2, <1>4, <3>1, <4>1, <4>2, Space DEF Rows
    <3>2. CASE op = "up" /\ row > 0
      <4>1. Neighbour = row - 1 /\ row - 1 \in Rows /\ ~Copied(row - 1)
        BY <1>2, <3>2, Space DEF Neighbour, Copied, Rows
      <4>2. names[row - 1] = up + (row - 1) + 1
        BY <3>2, <4>1 DEF IInv, RowInv
      <4>3. QED BY <1>2, <1>4, <3>2, <4>1, <4>2, Space DEF Rows
    <3>3. QED BY <1>5, <3>1, <3>2 DEF Neighbour, Rows
  <2>2. Owner(Neighbour) = names[row]
    BY <2>1 DEF Owner
  <2>3. StateInv'
    <3> SUFFICES ASSUME NEW i \in Rows, names[i] \notin suspect \cup {Blank, about}
                 PROVE  states'[i] = Shown(names[i])
      BY <1>1, <1>5 DEF StateInv, Owner, Shown
    <3>1. CASE i = row
      <4>1. states'[i] = states[Neighbour] /\ states[Neighbour] = Shown(Owner(Neighbour))
        BY <1>1, <1>2, <1>5, <2>2, <3>1 DEF SInv, StateInv
      <4>2. QED BY <2>2, <3>1, <4>1
    <3>2. CASE i # row
      <4>1. states'[i] = states[i] /\ Owner(i) = names[i]
        BY <1>1, <1>2, <3>2 DEF Owner
      <4>2. QED BY <4>1 DEF SInv, StateInv
    <3>3. QED BY <3>1, <3>2
  <2>4. QED BY <1>3, <2>3 DEF SInv
<1>6. CASE Neighbour \notin Rows
  <2>1. Entry = names[row] /\ \A i \in Rows : i # row => names[i] # Entry
    <3>1. CASE op = "init"
      <4>1. Entry = row /\ \A i \in Rows : names[i] \in {i, Blank}
        BY <3>1 DEF Entry, IInv, RowInv, PosInv
      <4>2. QED BY <1>2, <1>4, <3>1, <4>1, Space DEF Rows, Blank
    <3>2. CASE op = "down"
      <4>1. row = Height - 1 /\ Entry = up + Height
        BY <1>2, <1>6, <3>2, Space DEF Neighbour, Rows, Entry, IInv, PosInv
      <4>2. \A i \in Rows : i # row => names[i] = up + i + 1
        BY <1>1, <3>2, <4>1, Space DEF IInv, RowInv, Copied, Rows
      <4>3. QED BY <1>2, <1>4, <3>2, <4>1, <4>2, Space DEF Rows
    <3>3. CASE op = "up"
      <4>1. row = 0 /\ Entry = up
        BY <1>2, <1>6, <3>3, Space DEF Neighbour, Rows, Entry
      <4>2. \A i \in Rows : i # row => names[i] = up + i
        BY <1>1, <3>3, <4>1, Space DEF IInv, RowInv, Copied, Rows
      <4>3. QED BY <1>2, <1>4, <3>3, <4>1, <4>2, Space DEF Rows
    <3>4. QED BY <1>2, <3>1, <3>2, <3>3
  <2>2. /\ outdated' = IF actual[Entry] = listed[Entry] THEN outdated \ {Entry} ELSE outdated \cup {Entry}
        /\ suspect' \in {suspect, suspect \ {Entry}}
    BY <1>1, <1>6 DEF Enter
  <2>3. StateInv'
    <3> SUFFICES ASSUME NEW i \in Rows, names[i] \notin suspect' \cup {Blank, about}
                 PROVE  states'[i] = IF names[i] \in outdated' THEN listed[names[i]] ELSE actual[names[i]]
      BY <1>1 DEF StateInv, Owner, Shown
    <3>1. CASE i = row
      <4>1. states'[i] = listed[Entry] /\ names[i] = Entry
        BY <1>1, <1>2, <1>6, <2>1, <3>1
      <4>2. QED BY <2>2, <4>1
    <3>2. CASE i # row
      <4>1. states'[i] = states[i] /\ Owner(i) = names[i] /\ names[i] # Entry
        BY <1>1, <1>2, <2>1, <3>2 DEF Owner
      <4>2. names[i] \notin suspect /\ (names[i] \in outdated' <=> names[i] \in outdated)
        BY <2>2, <4>1
      <4>3. QED BY <4>1, <4>2 DEF SInv, StateInv, Shown
    <3>3. QED BY <3>1, <3>2
  <2>4. QED BY <1>3, <2>3 DEF SInv
<1>7. QED BY <1>5, <1>6

LEMMA StateNotice == ASSUME IInv, SInv, NEW f \in Friends, NEW s \in States, Notice(f, s) PROVE SInv'
<1>1. /\ about = Nobody /\ about' = f /\ told' = s /\ at' = 0 /\ found' = FALSE
      /\ actual' = [actual EXCEPT ![f] = s] /\ calm' = (op = "idle")
      /\ suspect' = IF op = "idle" THEN suspect ELSE Friends
      /\ UNCHANGED <<names, states, up, listed, op, row, named, outdated>>
  BY DEF Notice, Meet, window, list, copying
<1>2. actual'[f] = s /\ \A g \in Friends : g # f => actual'[g] = actual[g]
  BY <1>1 DEF IInv, TypeOK
<1>3. f # Nobody
  BY Bound DEF Friends, Nobody
<1>4. CalmInv'
  BY <1>1, <1>3 DEF CalmInv
<1>5. ScanInv'
  <2>1. ~(\E i \in Rows : i < 0)
    BY Space DEF Rows
  <2>2. QED BY <1>1, <1>2, <2>1 DEF ScanInv
<1>6. StateInv'
  <2> SUFFICES ASSUME NEW i \in Rows, Owner(i) \notin suspect' \cup {Blank, f}
               PROVE  states[i] = IF Owner(i) \in outdated THEN listed[Owner(i)] ELSE actual'[Owner(i)]
    BY <1>1 DEF StateInv, Owner, Shown
  <2>1. Owner(i) \in Friends /\ Owner(i) \notin suspect
    BY <1>1, OwnerType
  <2>2. states[i] = Shown(Owner(i))
    BY <1>1, <2>1 DEF SInv, StateInv, Blank, Nobody
  <2>3. QED BY <1>2, <2>1, <2>2 DEF Shown
<1>7. QED BY <1>4, <1>5, <1>6 DEF SInv

LEMMA StateCompare == IInv /\ SInv /\ Compare => SInv'
<1> SUFFICES ASSUME IInv, SInv, Compare PROVE SInv'
  OBVIOUS
<1>1. /\ about # Nobody /\ ~found
      /\ UNCHANGED <<names, states, up, listed, op, row, named, actual, outdated, calm, suspect>>
  BY DEF Compare, window, list, copying, history
<1>2. CASE names[at] = about /\ found' = TRUE /\ UNCHANGED <<about, told, at>>
  BY <1>1, <1>2 DEF SInv, CalmInv, ScanInv, StateInv, Owner, Shown
<1>3. CASE names[at] # about /\ at' = at + 1 /\ UNCHANGED <<about, told, found>>
  <2>1. \A i \in Rows : i < at + 1 => i < at \/ i = at
    BY Space DEF Rows, IInv, TypeOK
  <2>2. ScanInv'
    BY <1>1, <1>3, <2>1 DEF SInv, ScanInv
  <2>3. QED BY <1>1, <1>3, <2>2 DEF SInv, CalmInv, StateInv, Owner, Shown
<1>4. CASE names[at] # about /\ at = Height - 1 /\ EndScan
  <2>1. about' = Nobody /\ found' = FALSE
    BY <1>4 DEF EndScan
  <2>2. CalmInv' /\ ScanInv'
    BY <1>1, <2>1 DEF SInv, CalmInv, ScanInv
  <2>3. StateInv'
    <3> SUFFICES ASSUME NEW i \in Rows, Owner(i) \notin suspect \cup {Blank}
                 PROVE  states[i] = Shown(Owner(i))
      BY <1>1, <2>1 DEF StateInv, Owner, Shown
    <3>1. calm /\ op = "idle"
      BY <1>1, OwnerType DEF SInv, CalmInv
    <3>2. Owner(i) = names[i]
      BY <3>1 DEF Owner, IInv, PosInv
    <3>3. i < at \/ i = at
      BY <1>4, Space DEF Rows
    <3>4. names[i] # about
      BY <1>1, <1>4, <3>1, <3>3 DEF SInv, ScanInv
    <3>5. QED BY <3>2, <3>4 DEF SInv, StateInv
  <2>4. QED BY <2>2, <2>3 DEF SInv
<1>5. QED BY <1>2, <1>3, <1>4 DEF Compare

LEMMA StateModify == IInv /\ SInv /\ Modify => SInv'
<1> SUFFICES ASSUME IInv, SInv, Modify PROVE SInv'
  OBVIOUS
<1>1. /\ found /\ states' = [states EXCEPT ![at] = told] /\ about' = Nobody /\ found' = FALSE
      /\ outdated' = outdated \ {about}
      /\ suspect' = IF calm THEN suspect \ {about} ELSE suspect
      /\ UNCHANGED <<names, up, op, row, named, listed, actual, calm>>
  BY DEF Modify, EndScan, list, copying
<1>2. about # Nobody
  BY <1>1 DEF SInv, CalmInv
<1>3. CalmInv' /\ ScanInv'
  BY <1>1 DEF SInv, CalmInv, ScanInv
<1>4. StateInv'
  <2> SUFFICES ASSUME NEW i \in Rows, Owner(i) \notin suspect' \cup {Blank}
               PROVE  states'[i] = IF Owner(i) \in outdated' THEN listed[Owner(i)] ELSE actual[Owner(i)]
    BY <1>1 DEF StateInv, Owner, Shown
  <2>1. calm /\ op = "idle"
    BY <1>1, <1>2, OwnerType DEF SInv, CalmInv
  <2>2. Owner(i) = names[i]
    BY <2>1 DEF Owner, IInv, PosInv
  <2>3. names[at] = about /\ at \in Rows /\ states \in [Rows -> States \cup {Unset}]
    BY <1>1, <1>2, <2>1 DEF SInv, ScanInv, IInv, TypeOK
  <2>4. CASE i = at
    <3>1. told = actual[about]
      BY <1>2, <2>1, <2>3 DEF SInv, ScanInv, Blank, Nobody
    <3>2. states'[i] = told /\ Owner(i) = about /\ about \notin outdated'
      BY <1>1, <2>2, <2>3, <2>4
    <3>3. QED BY <3>1, <3>2
  <2>5. CASE i # at
    <3>1. names[i] # about
      BY <1>2, <2>1, <2>3, <2>5, OneRow DEF Blank, Nobody
    <3>2. states'[i] = states[i] /\ names[i] \notin suspect \cup {Blank, about}
      BY <1>1, <2>1, <2>2, <2>3, <2>5, <3>1
    <3>3. states[i] = Shown(names[i]) /\ (names[i] \in outdated' <=> names[i] \in outdated)
      BY <1>1, <2>2, <3>1, <3>2 DEF SInv, StateInv
    <3>4. QED BY <2>2, <3>2, <3>3 DEF Shown
  <2>6. QED BY <2>4, <2>5
<1>5. QED BY <1>3, <1>4 DEF SInv

\* A row whose friend no notice met in motion shows the state that was told
\* last, or that of the login answer: for every interleaving of the two threads.
THEOREM StatesShown == Spec => []RowsCurrent
<1>1. ASSUME IInv, SInv, [Next]_vars PROVE SInv'
  <2>1. CASE UNCHANGED vars
    BY <1>1, <2>1 DEF SInv, CalmInv, ScanInv, StateInv, Owner, Shown,
                      vars, window, list, copying, scanning, history
  <2>2. CASE Next
    BY <1>1, <2>2, StateList, StateStart, StateCopyName, StateCopyState, StateNotice, StateCompare,
       StateModify DEF Next
  <2>3. QED BY <1>1, <2>1, <2>2
<1>2. IInv /\ SInv => RowsCurrent
  <2> SUFFICES ASSUME IInv, SInv, op = "idle", about = Nobody, NEW i \in Rows,
                      names[i] \notin suspect \cup {Blank}
               PROVE  states[i] = Shown(names[i])
    BY DEF RowsCurrent
  <2>1. Owner(i) = names[i]
    BY DEF Owner, IInv, PosInv
  <2>2. QED BY <2>1 DEF SInv, StateInv, Blank, Nobody
<1>3. QED BY <1>1, <1>2, Inductive, StateInit, PTL DEF Spec
=============================================================================
