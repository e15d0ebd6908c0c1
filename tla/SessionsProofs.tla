--------------------------- MODULE SessionsProofs ---------------------------
(***************************************************************************)
(* Proofs about sessions and presence, for any clients, users and states   *)
(* and whatever the bounds.                                                *)
(*                                                                         *)
(* The properties of Sessions speak of users nobody is serving; what keeps *)
(* them is an invariant about every user whose logins did not overlap, at  *)
(* each step of a request: CalmInv.  What it says of the vector holds even *)
(* after failing statements and a restart; only where it compares the      *)
(* vector with the table and the announcements does it except their users. *)
(***************************************************************************)
EXTENDS Sessions, TLAPS

LEMMA TypeInit == Init => TypeOK
<1> SUFFICES ASSUME Init PROVE TypeOK
  OBVIOUS
<1>1. announced \in [Users -> States]
  BY Enumeration DEF Init
<1>2. QED
  BY <1>1, Registered DEF Init, TypeOK, NoTime, Serving

LEMMA TypeStep == TypeOK /\ [Next]_vars => TypeOK'
<1> SUFFICES ASSUME TypeOK, [Next]_vars PROVE TypeOK'
  OBVIOUS
<1> USE Enumeration, Registered DEF TypeOK, tables, clock, history, Serving
<1>1. ASSUME NEW c \in Clients, Connect(c) \/ QuitNameless(c) \/ Die(c) PROVE TypeOK'
  BY <1>1 DEF Connect, QuitNameless, Die
<1>2. ASSUME NEW c \in Clients, NEW u \in Users, Register(c, u) PROVE TypeOK'
  BY <1>2 DEF Register
<1>3. ASSUME NEW c \in Clients, NEW u \in Users, Login(c, u) PROVE TypeOK'
  <2>1. [no |-> logins', user |-> u, client |-> c, time |-> now, state |-> "ONLINE"] \in Session
    BY <1>3 DEF Login, Session
  <2>2. [kind |-> "login", user |-> u, no |-> logins', time |-> now, state |-> "ONLINE"] \in Job
    BY <1>3 DEF Login, Job
  <2>3. QED BY <1>3, <2>1, <2>2 DEF Login, Serve, Overlap
<1>4. ASSUME NEW c \in Clients, NEW s \in States, ChangeState(c, s) PROVE TypeOK'
  <2>1. me[c].user \in Users
    BY <1>4 DEF ChangeState, Account
  <2>2. PICK t \in Nat :
          /\ Serve(c, [kind |-> "change", user |-> me[c].user, no |-> 0, time |-> t, state |-> s])
          /\ sessions' \in SUBSET Session
    <3>1. CASE SessionsOf(me[c].user) = {} /\ UNCHANGED sessions
      BY <1>4, <3>1 DEF ChangeState, NoTime, Oldest
    <3>2. ASSUME NEW own \in Oldest(me[c].user),
                 sessions' = (sessions \ {own}) \cup {[own EXCEPT !.state = s]},
                 Serve(c, [kind |-> "change", user |-> me[c].user, no |-> 0,
                           time |-> own.time, state |-> s])
          PROVE  \E t \in Nat :
                   /\ Serve(c, [kind |-> "change", user |-> me[c].user, no |-> 0,
                                time |-> t, state |-> s])
                   /\ sessions' \in SUBSET Session
      BY <3>2 DEF Oldest, SessionsOf, Session
    <3>3. QED BY <1>4, <3>1, <3>2 DEF ChangeState
  <2>3. [kind |-> "change", user |-> me[c].user, no |-> 0, time |-> t, state |-> s] \in Job
    BY <2>1 DEF Job
  <2>4. QED BY <1>4, <2>1, <2>2, <2>3 DEF ChangeState, Serve, Overlap
<1>5. ASSUME NEW c \in Clients, Quit(c) PROVE TypeOK'
  <2>1. me[c].user \in Users
    BY <1>5 DEF Quit, Account
  <2>2. ErasedTimes(me[c].user) \subseteq Nat
    BY DEF ErasedTimes, NoTime, Newest, SessionsOf, Session
  <2>3. PICK t \in Nat :
          Serve(c, [kind |-> "quit", user |-> me[c].user, no |-> 0, time |-> t,
                    state |-> "OFFLINE"])
    BY <1>5, <2>2 DEF Quit
  <2>4. [kind |-> "quit", user |-> me[c].user, no |-> 0, time |-> t,
         state |-> "OFFLINE"] \in Job
    BY <2>1 DEF Job
  <2>5. QED BY <1>5, <2>1, <2>3, <2>4 DEF Quit, Serve, Overlap
<1>6. ASSUME NEW c \in Clients, InsertRow(c) PROVE TypeOK'
  <2>1. [no |-> job[c].no, user |-> job[c].user, time |-> job[c].time,
         state |-> job[c].state] \in Row
    BY <1>6 DEF InsertRow, Job, Row
  <2>2. QED BY <1>6, <2>1 DEF InsertRow, Stored
<1>7. ASSUME NEW c \in Clients, UpdateRows(c) PROVE TypeOK'
  <2>1. job[c].state \in States
    BY <1>7 DEF UpdateRows, Job
  <2>2. \A r \in rows : [r EXCEPT !.state = job[c].state] \in Row
    BY <2>1 DEF Row
  <2>3. rows' \in SUBSET Row
    BY <1>7, <2>2 DEF UpdateRows
  <2>4. QED BY <1>7, <2>3 DEF UpdateRows, Stored
<1>8. ASSUME NEW c \in Clients, StoreFails(c) PROVE TypeOK'
  <2>1. job[c].user \in Users
    BY <1>8 DEF StoreFails, Job
  <2>2. QED BY <1>8, <2>1 DEF StoreFails, Stored
<1>9. ASSUME NEW c \in Clients, Announce(c) PROVE TypeOK'
  <2>1. /\ job[c].user \in Users /\ job[c].state \in States
        /\ [user |-> job[c].user, no |-> job[c].no] \in Account
    BY <1>9 DEF Announce, Job, Account
  <2>2. QED BY <1>9, <2>1 DEF Announce
<1>10. CASE Restart
  BY <1>10 DEF Restart
<1>11. CASE Tick
  BY <1>11 DEF Tick, NoTime
<1>12. CASE UNCHANGED vars
  BY <1>12 DEF vars
<1>13. QED
  BY <1>1, <1>2, <1>3, <1>4, <1>5, <1>6, <1>7, <1>8, <1>9, <1>10, <1>11, <1>12 DEF Next

\* Every variable keeps its type; in particular a handler that has a statement
\* to run or a state to announce has the request at hand.
THEOREM TypeCorrect == Spec => []TypeOK
BY TypeInit, TypeStep, PTL DEF Spec
-----------------------------------------------------------------------------
\* Handler c is serving u; it has a statement of kind k to run for u.
Serves(c, u)     == Serving(c) /\ job[c].user = u
Storing(c, u, k) == pc[c] = "store" /\ job[c].user = u /\ job[c].kind = k

\* Login numbers are spent in order.
NumberInv == /\ \A s \in sessions : s.no <= logins
             /\ \A r \in rows : r.no <= logins
             /\ \A c \in Clients : Serving(c) => job[c].no <= logins

OneSession(u) == \A s, t \in SessionsOf(u) : s = t
OneServer(u)  == \A c, d \in Clients : Serves(c, u) /\ Serves(d, u) => c = d

\* login_time is a key among the rows of u, and it is the one of its session.
TimeKey(u) ==
    /\ \A r, q \in RowsOf(u) : r.time = q.time => r = q
    /\ \A s \in SessionsOf(u), r \in RowsOf(u) : r.time = s.time <=> r.no = s.no

\* What the handler serving u has done to the vector so far.
JobInv(u) == \A c \in Clients : Serves(c, u) =>
    /\ job[c].kind # "quit" =>
          \E s \in SessionsOf(u) :
             /\ s.state = job[c].state /\ s.time = job[c].time /\ s.client = c
             /\ job[c].kind = "login" => s.no = job[c].no
    /\ job[c].kind = "quit" => SessionsOf(u) = {} /\ job[c].state = "OFFLINE"
    /\ Storing(c, u, "login") => \A r \in RowsOf(u) : r.time # job[c].time

\* The table agrees with the vector, up to the statement still to be run.
RowInv(u) ==
    /\ \A s \in SessionsOf(u) :
          \/ [no |-> s.no, user |-> u, time |-> s.time, state |-> s.state] \in RowsOf(u)
          \/ \E c \in Clients : Storing(c, u, "login")
          \/ /\ \E c \in Clients : Storing(c, u, "change")
             /\ \E r \in RowsOf(u) : r.no = s.no
    /\ \A r \in RowsOf(u) :
          \/ r.state = "OFFLINE"
          \/ \E s \in SessionsOf(u) : s.no = r.no
          \/ \E c \in Clients : Storing(c, u, "quit") /\ job[c].time = r.time

ToldInv(u) == ~Busy(u) => /\ SessionsOf(u) = {} => announced[u] = "OFFLINE"
                          /\ \A s \in SessionsOf(u) : announced[u] = s.state

LoginInv(u) == \A c \in Clients : me[c] # None /\ me[c].user = u =>
    \E s \in SessionsOf(u) : s.no = me[c].no /\ s.client = c

CalmInv(u) == /\ OneSession(u) /\ OneServer(u) /\ TimeKey(u) /\ JobInv(u) /\ LoginInv(u)
              /\ u \notin failed => RowInv(u) /\ ToldInv(u)

IInv == /\ TypeOK /\ NumberInv
        /\ \A u \in Users \ overlapped : CalmInv(u)
-----------------------------------------------------------------------------
LEMMA InvInit == Init => IInv
<1> SUFFICES ASSUME Init PROVE IInv
  OBVIOUS
<1>1. TypeOK
  BY TypeInit
<1>2. NumberInv
  BY DEF Init, NumberInv, Serving
<1>3. ASSUME NEW u \in Users PROVE CalmInv(u)
  BY <1>3 DEF Init, CalmInv, OneSession, OneServer, TimeKey, JobInv, RowInv, ToldInv,
              LoginInv, SessionsOf, RowsOf, Serves, Serving, Storing
<1>4. QED BY <1>1, <1>2, <1>3 DEF IInv

LEMMA NumberStep == TypeOK /\ NumberInv /\ [Next]_vars => NumberInv'
<1> SUFFICES ASSUME TypeOK, NumberInv, [Next]_vars PROVE NumberInv'
  OBVIOUS
<1> USE DEF NumberInv, TypeOK, tables, clock, Serving
<1>1. ASSUME NEW c \in Clients, Connect(c) \/ QuitNameless(c) \/ Die(c) PROVE NumberInv'
  BY <1>1 DEF Connect, QuitNameless, Die
<1>2. ASSUME NEW c \in Clients, NEW u \in Users, Register(c, u) PROVE NumberInv'
  BY <1>2 DEF Register
<1>3. ASSUME NEW c \in Clients, NEW u \in Users, Login(c, u) PROVE NumberInv'
  <2>1. logins' = logins + 1 /\ logins' \in Nat
    BY <1>3 DEF Login
  <2>2. \A s \in sessions' : s.no <= logins'
    BY <1>3, <2>1 DEF Login, Session
  <2>3. \A r \in rows' : r.no <= logins'
    BY <1>3, <2>1 DEF Login, Row
  <2>4. \A d \in Clients : Serving(d)' => job'[d].no <= logins'
    BY <1>3, <2>1 DEF Login, Serve, Job
  <2>5. QED BY <2>2, <2>3, <2>4
<1>4. ASSUME NEW c \in Clients, NEW s \in States, ChangeState(c, s) PROVE NumberInv'
  <2>1. /\ UNCHANGED <<rows, logins>>
        /\ \E t : Serve(c, [kind |-> "change", user |-> me[c].user, no |-> 0,
                            time |-> t, state |-> s])
    BY <1>4 DEF ChangeState
  <2>2. \A t \in sessions' : t.no <= logins'
    BY <1>4 DEF ChangeState, Oldest, SessionsOf, Session
  <2>3. QED BY <2>1, <2>2 DEF Serve
<1>5. ASSUME NEW c \in Clients, Quit(c) PROVE NumberInv'
  BY <1>5 DEF Quit, Serve, SessionsOf
<1>6. ASSUME NEW c \in Clients, InsertRow(c) PROVE NumberInv'
  BY <1>6 DEF InsertRow, Stored, Row
<1>7. ASSUME NEW c \in Clients, UpdateRows(c) PROVE NumberInv'
  <2>1. \A r \in rows' : \E q \in rows : r.no = q.no
    BY <1>7 DEF UpdateRows, Row
  <2>2. QED BY <1>7, <2>1 DEF UpdateRows, Stored
<1>8. ASSUME NEW c \in Clients, StoreFails(c) \/ Announce(c) PROVE NumberInv'
  <2>1. CASE StoreFails(c)
    BY <2>1 DEF StoreFails, Stored
  <2>2. CASE Announce(c)
    <3>1. \A d \in Clients : Serving(d)' => Serving(d) /\ job'[d] = job[d]
      BY <2>2 DEF Announce
    <3>2. QED BY <2>2, <3>1 DEF Announce
  <2>3. QED BY <1>8, <2>1, <2>2
<1>9. CASE Restart \/ Tick
  BY <1>9 DEF Restart, Tick
<1>10. CASE UNCHANGED vars
  BY <1>10 DEF vars
<1>11. QED
  BY <1>1, <1>2, <1>3, <1>4, <1>5, <1>6, <1>7, <1>8, <1>9, <1>10 DEF Next

\* A step that leaves u's sessions, rows, announcement and requests alone, and
\* logs nobody in as u, keeps the invariant of u.
LEMMA Frame ==
    ASSUME NEW u \in Users, CalmInv(u),
           SessionsOf(u)' = SessionsOf(u), RowsOf(u)' = RowsOf(u),
           announced'[u] = announced[u], u \in failed => u \in failed',
           \A c \in Clients : /\ Serves(c, u)' <=> Serves(c, u)
                              /\ Serves(c, u) => pc'[c] = pc[c] /\ job'[c] = job[c],
           \A c \in Clients : me'[c] # None /\ me'[c].user = u => me'[c] = me[c]
    PROVE  CalmInv(u)'
<1>1. OneSession(u)' /\ OneServer(u)' /\ TimeKey(u)'
  BY DEF CalmInv, OneSession, OneServer, TimeKey
<1>2. \A c \in Clients : \A k : Storing(c, u, k)' <=> Storing(c, u, k)
  BY DEF Storing, Serves, Serving
<1>3. JobInv(u)'
  BY <1>2 DEF CalmInv, JobInv
<1>4. u \notin failed => RowInv(u)'
  BY <1>2 DEF CalmInv, RowInv, Storing, Serves, Serving
<1>5. u \notin failed => ToldInv(u)'
  BY DEF CalmInv, ToldInv, Busy, Serves
<1>6. LoginInv(u)'
  BY DEF CalmInv, LoginInv
<1>7. QED BY <1>1, <1>3, <1>4, <1>5, <1>6 DEF CalmInv

\* The requests of a handler: every other user is framed.
LEMMA LoginCalm ==
    ASSUME IInv, NEW c \in Clients, NEW v \in Users, Login(c, v),
           NEW u \in Users \ overlapped'
    PROVE  CalmInv(u)'
<1>1. CalmInv(u)
  BY DEF Login, Overlap, IInv
<1> DEFINE s0 == [no |-> logins', user |-> v, client |-> c, time |-> now, state |-> "ONLINE"]
           j0 == [kind |-> "login", user |-> v, no |-> logins', time |-> now, state |-> "ONLINE"]
<1>2. /\ pc[c] = "ready" /\ sessions' = sessions \cup {s0} /\ rows' = rows
      /\ pc' = [pc EXCEPT ![c] = "store"] /\ job' = [job EXCEPT ![c] = j0]
      /\ me' = me /\ announced' = announced /\ logins' = logins + 1 /\ failed' = failed
  BY DEF Login, Serve
<1>3. \A d \in Clients : d # c => pc'[d] = pc[d] /\ job'[d] = job[d]
  BY <1>2 DEF IInv, TypeOK
<1>4. pc'[c] = "store" /\ job'[c] = j0 /\ ~Serving(c)
  BY <1>2 DEF IInv, TypeOK, Serving
<1>5. CASE u # v
  <2>1. SessionsOf(u)' = SessionsOf(u) /\ RowsOf(u)' = RowsOf(u)
    BY <1>2, <1>5 DEF SessionsOf, RowsOf
  <2>2. \A d \in Clients : /\ Serves(d, u)' <=> Serves(d, u)
                           /\ Serves(d, u) => pc'[d] = pc[d] /\ job'[d] = job[d]
    BY <1>3, <1>4, <1>5 DEF Serves, Serving
  <2>3. QED BY <1>1, <1>2, <2>1, <2>2, Frame
<1>6. CASE u = v
  <2>1. SessionsOf(u) = {} /\ ~Busy(u) /\ \A r \in RowsOf(u) : r.time # now
    BY <1>6 DEF Login, Overlap
  <2>2. SessionsOf(u)' = {s0} /\ RowsOf(u)' = RowsOf(u)
    BY <1>2, <1>6, <2>1 DEF SessionsOf, RowsOf
  <2>3. \A d \in Clients : Serves(d, u)' <=> d = c
    BY <1>3, <1>4, <1>6, <2>1 DEF Busy, Serves, Serving
  <2>4. Storing(c, u, "login")'
    BY <1>4, <1>6 DEF Storing
  <2>5. \A r \in RowsOf(u) : r.no # logins'
    BY <1>2 DEF RowsOf, IInv, NumberInv, TypeOK, Row
  <2>6. OneSession(u)' /\ OneServer(u)'
    BY <2>2, <2>3 DEF OneSession, OneServer
  <2>7. TimeKey(u)'
    BY <1>1, <2>1, <2>2, <2>5 DEF TimeKey, CalmInv
  <2>8. JobInv(u)'
    BY <1>4, <2>1, <2>2, <2>3 DEF JobInv
  <2>9. u \notin failed => \A r \in RowsOf(u) : r.state = "OFFLINE"
    BY <1>1, <2>1 DEF CalmInv, RowInv, Storing, Busy, Serving
  <2>10. u \notin failed => RowInv(u)'
    BY <2>2, <2>4, <2>9 DEF RowInv
  <2>11. ToldInv(u)'
    BY <2>3 DEF ToldInv, Busy, Serves
  <2>12. LoginInv(u)'
    BY <1>1, <1>2, <2>1 DEF LoginInv, CalmInv
  <2>13. QED BY <1>2, <2>6, <2>7, <2>8, <2>10, <2>11, <2>12 DEF CalmInv
<1>7. QED BY <1>5, <1>6

\* s is the one session of u, that of c's login, and without a failure its row
\* is there and u's other rows are OFFLINE.
Only(s, c, u) ==
    /\ SessionsOf(u) = {s} /\ Oldest(u) = {s} /\ Newest(u) = {s}
    /\ s.client = c /\ s.no = me[c].no
    /\ u \notin failed => /\ \E r \in RowsOf(u) : r.no = s.no
                         /\ \A r \in RowsOf(u) : r.state = "OFFLINE" \/ r.no = s.no

\* A user somebody is logged in as, and nobody serves, has one session.
LEMMA OneLogin ==
    ASSUME TypeOK, NEW c \in Clients, NEW u \in Users, CalmInv(u),
           me[c] # None, me[c].user = u, ~Busy(u)
    PROVE  \E s \in SessionsOf(u) : Only(s, c, u)
<1>1. PICK s \in SessionsOf(u) : s.no = me[c].no /\ s.client = c
  BY DEF CalmInv, LoginInv
<1>2. SessionsOf(u) = {s}
  BY <1>1 DEF CalmInv, OneSession
<1>3. s.no \in Nat
  BY DEF SessionsOf, TypeOK, Session
<1>4. Oldest(u) = {s} /\ Newest(u) = {s}
  BY <1>2, <1>3 DEF Oldest, Newest
<1>5. \A d \in Clients : \A k : ~Storing(d, u, k)
  BY DEF Storing, Busy, Serving
<1>6. u \notin failed =>
        [no |-> s.no, user |-> u, time |-> s.time, state |-> s.state] \in RowsOf(u)
  BY <1>5 DEF CalmInv, RowInv
<1>7. u \notin failed => \A r \in RowsOf(u) : r.state = "OFFLINE" \/ r.no = s.no
  BY <1>2, <1>5 DEF CalmInv, RowInv
<1>8. QED BY <1>1, <1>2, <1>4, <1>6, <1>7 DEF Only

LEMMA ChangeCalm ==
    ASSUME IInv, NEW c \in Clients, NEW x \in States, ChangeState(c, x),
           NEW u \in Users \ overlapped'
    PROVE  CalmInv(u)'
<1>1. CalmInv(u)
  BY DEF ChangeState, Overlap, IInv
<1> DEFINE v == me[c].user
<1>2. /\ pc[c] = "ready" /\ me[c] # None /\ rows' = rows /\ me' = me
      /\ announced' = announced /\ failed' = failed
  BY DEF ChangeState
<1>3. PICK t : /\ pc' = [pc EXCEPT ![c] = "store"]
               /\ job' = [job EXCEPT ![c] = [kind |-> "change", user |-> v, no |-> 0,
                                             time |-> t, state |-> x]]
               /\ \/ SessionsOf(v) = {} /\ sessions' = sessions
                  \/ \E own \in Oldest(v) : /\ t = own.time
                        /\ sessions' = (sessions \ {own}) \cup {[own EXCEPT !.state = x]}
  BY DEF ChangeState, Serve
<1>4. \A d \in Clients : d # c => pc'[d] = pc[d] /\ job'[d] = job[d]
  BY <1>3 DEF IInv, TypeOK
<1>5. /\ pc'[c] = "store" /\ ~Serving(c)
      /\ job'[c] = [kind |-> "change", user |-> v, no |-> 0, time |-> t, state |-> x]
  BY <1>2, <1>3 DEF IInv, TypeOK, Serving
<1>6. CASE u # v
  <2>1. SessionsOf(u)' = SessionsOf(u)
    BY <1>3, <1>6 DEF SessionsOf, Oldest, IInv, TypeOK, Session
  <2>2. \A d \in Clients : /\ Serves(d, u)' <=> Serves(d, u)
                           /\ Serves(d, u) => pc'[d] = pc[d] /\ job'[d] = job[d]
    BY <1>4, <1>5, <1>6 DEF Serves, Serving
  <2>3. QED BY <1>1, <1>2, <2>1, <2>2, Frame DEF RowsOf
<1>7. CASE u = v
  <2>1. ~Busy(u)
    BY <1>7 DEF ChangeState, Overlap
  <2>0. TypeOK /\ c \in Clients /\ u \in Users /\ CalmInv(u) /\ me[c] # None /\ me[c].user = u
    BY <1>1, <1>2, <1>7 DEF IInv
  <2>2. PICK s \in SessionsOf(u) : Only(s, c, u)
    BY <2>0, <2>1, OneLogin
  <2> DEFINE s1 == [s EXCEPT !.state = x]
  <2>3. t = s.time /\ sessions' = (sessions \ {s}) \cup {s1}
    BY <1>3, <1>7, <2>2 DEF Only
  <2>4. s \in Session /\ s.user = u
    BY DEF IInv, TypeOK, SessionsOf
  <2>5. s1.no = s.no /\ s1.user = u /\ s1.time = s.time /\ s1.client = s.client /\ s1.state = x
    BY <2>4 DEF Session
  <2>6. SessionsOf(u)' = {s1} /\ RowsOf(u)' = RowsOf(u)
    BY <1>2, <2>2, <2>3, <2>5 DEF SessionsOf, RowsOf, Only
  <2>7. \A d \in Clients : Serves(d, u)' <=> d = c
    BY <1>4, <1>5, <1>7, <2>1 DEF Busy, Serves, Serving
  <2>8. Storing(c, u, "change")'
    BY <1>5, <1>7 DEF Storing
  <2>9. OneSession(u)' /\ OneServer(u)'
    BY <2>6, <2>7 DEF OneSession, OneServer
  <2>10. TimeKey(u)'
    BY <1>1, <2>2, <2>5, <2>6 DEF TimeKey, CalmInv, Only
  <2>11. JobInv(u)'
    BY <1>5, <2>2, <2>3, <2>5, <2>6, <2>7 DEF JobInv, Storing, Only
  <2>12. u \notin failed => RowInv(u)'
    BY <2>2, <2>5, <2>6, <2>8 DEF RowInv, Only
  <2>13. ToldInv(u)'
    BY <2>7 DEF ToldInv, Busy, Serves
  <2>14. LoginInv(u)'
    BY <1>1, <1>2, <2>2, <2>5, <2>6 DEF LoginInv, CalmInv, Only
  <2>15. QED BY <1>2, <2>9, <2>10, <2>11, <2>12, <2>13, <2>14 DEF CalmInv
<1>8. QED BY <1>6, <1>7

LEMMA QuitCalm ==
    ASSUME IInv, NEW c \in Clients, Quit(c), NEW u \in Users \ overlapped'
    PROVE  CalmInv(u)'
<1>1. CalmInv(u)
  BY DEF Quit, Overlap, IInv
<1> DEFINE v == me[c].user
<1>2. /\ pc[c] = "ready" /\ me[c] # None /\ rows' = rows /\ announced' = announced
      /\ failed' = failed
      /\ sessions' = sessions \ SessionsOf(v) /\ me' = [me EXCEPT ![c] = None]
  BY DEF Quit
<1>3. PICK t \in ErasedTimes(v) :
               /\ pc' = [pc EXCEPT ![c] = "store"]
               /\ job' = [job EXCEPT ![c] = [kind |-> "quit", user |-> v, no |-> 0,
                                             time |-> t, state |-> "OFFLINE"]]
  BY DEF Quit, Serve
<1>4. \A d \in Clients : /\ d # c => pc'[d] = pc[d] /\ job'[d] = job[d] /\ me'[d] = me[d]
                         /\ me'[d] # None => d # c
  BY <1>2, <1>3 DEF IInv, TypeOK
<1>5. /\ pc'[c] = "store" /\ ~Serving(c)
      /\ job'[c] = [kind |-> "quit", user |-> v, no |-> 0, time |-> t, state |-> "OFFLINE"]
  BY <1>2, <1>3 DEF IInv, TypeOK, Serving
<1>6. CASE u # v
  <2>1. SessionsOf(u)' = SessionsOf(u)
    BY <1>2, <1>6 DEF SessionsOf
  <2>2. \A d \in Clients : /\ Serves(d, u)' <=> Serves(d, u)
                           /\ Serves(d, u) => pc'[d] = pc[d] /\ job'[d] = job[d]
    BY <1>4, <1>5, <1>6 DEF Serves, Serving
  <2>3. QED BY <1>1, <1>2, <1>4, <2>1, <2>2, Frame DEF RowsOf
<1>7. CASE u = v
  <2>1. ~Busy(u)
    BY <1>7 DEF Quit, Overlap
  <2>0. TypeOK /\ c \in Clients /\ u \in Users /\ CalmInv(u) /\ me[c] # None /\ me[c].user = u
    BY <1>1, <1>2, <1>7 DEF IInv
  <2>2. PICK s \in SessionsOf(u) : Only(s, c, u)
    BY <2>0, <2>1, OneLogin
  <2>3. t = s.time
    BY <1>3, <1>7, <2>2 DEF ErasedTimes, Only
  <2>4. SessionsOf(u)' = {} /\ RowsOf(u)' = RowsOf(u)
    BY <1>2, <1>7 DEF SessionsOf, RowsOf
  <2>5. \A d \in Clients : Serves(d, u)' <=> d = c
    BY <1>4, <1>5, <1>7, <2>1 DEF Busy, Serves, Serving
  <2>6. Storing(c, u, "quit")' /\ job'[c].time = s.time
    BY <1>5, <1>7, <2>3 DEF Storing
  <2>7. u \notin failed => \A r \in RowsOf(u) : r.state = "OFFLINE" \/ r.time = s.time
    BY <1>1, <2>2 DEF CalmInv, TimeKey, Only
  <2>8. OneSession(u)' /\ OneServer(u)' /\ TimeKey(u)'
    BY <1>1, <2>4, <2>5 DEF OneSession, OneServer, TimeKey, CalmInv
  <2>9. JobInv(u)'
    BY <1>5, <2>4, <2>5 DEF JobInv, Storing
  <2>10. u \notin failed => RowInv(u)'
    BY <2>4, <2>6, <2>7 DEF RowInv
  <2>11. ToldInv(u)'
    BY <2>5 DEF ToldInv, Busy, Serves
  <2>12. LoginInv(u)'
    BY <1>1, <1>4, <2>2 DEF LoginInv, CalmInv, Only
  <2>13. QED BY <1>2, <2>8, <2>9, <2>10, <2>11, <2>12 DEF CalmInv
<1>8. QED BY <1>6, <1>7

\* The statement of a login: the new row is the one its session lacked.
LEMMA InsertCalm ==
    ASSUME IInv, NEW c \in Clients, InsertRow(c), NEW u \in Users \ overlapped'
    PROVE  CalmInv(u)'
<1>1. CalmInv(u)
  BY DEF InsertRow, history, IInv
<1> DEFINE v  == job[c].user
           r0 == [no |-> job[c].no, user |-> v, time |-> job[c].time, state |-> job[c].state]
<1>2. /\ pc[c] = "store" /\ job[c].kind = "login" /\ rows' = rows \cup {r0}
      /\ pc' = [pc EXCEPT ![c] = "announce"] /\ job' = job /\ me' = me
      /\ announced' = announced /\ sessions' = sessions /\ failed' = failed
  BY DEF InsertRow, Stored, history
<1>3. /\ \A d \in Clients : d # c => pc'[d] = pc[d]
      /\ pc'[c] = "announce"
  BY <1>2 DEF IInv, TypeOK
<1>4. \A d \in Clients : Serves(d, u)' <=> Serves(d, u)
  BY <1>2, <1>3 DEF Serves, Serving
<1>5. CASE u # v
  <2>1. SessionsOf(u)' = SessionsOf(u) /\ RowsOf(u)' = RowsOf(u)
    BY <1>2, <1>5 DEF SessionsOf, RowsOf
  <2>2. \A d \in Clients : Serves(d, u) => pc'[d] = pc[d] /\ job'[d] = job[d]
    BY <1>2, <1>3, <1>5 DEF Serves
  <2>3. QED BY <1>1, <1>2, <1>4, <2>1, <2>2, Frame
<1>6. CASE u = v
  <2>1. Serves(c, u) /\ Storing(c, u, "login")
    BY <1>2, <1>6 DEF Serves, Serving, Storing
  <2>2. PICK s \in SessionsOf(u) : /\ s.state = job[c].state /\ s.time = job[c].time
                                   /\ s.client = c /\ s.no = job[c].no
    BY <1>1, <1>2, <2>1 DEF CalmInv, JobInv
  <2>3. SessionsOf(u)' = {s} /\ SessionsOf(u) = {s} /\ RowsOf(u)' = RowsOf(u) \cup {r0}
    BY <1>1, <1>2, <1>6, <2>2 DEF SessionsOf, RowsOf, CalmInv, OneSession
  <2>4. \A r \in RowsOf(u) : r.time # r0.time /\ r.no # s.no
    BY <1>1, <2>1, <2>2 DEF CalmInv, JobInv, TimeKey
  <2>5. \A d \in Clients : Serves(d, u)' <=> d = c
    BY <1>1, <1>4, <2>1 DEF CalmInv, OneServer
  <2>6. \A d \in Clients : \A k : ~Storing(d, u, k)'
    BY <1>3, <2>5 DEF Storing, Serves, Serving
  <2>7. OneSession(u)' /\ OneServer(u)'
    BY <2>3, <2>5 DEF OneSession, OneServer
  <2>8. TimeKey(u)'
    BY <1>1, <2>2, <2>3, <2>4 DEF TimeKey, CalmInv
  <2>9. JobInv(u)'
    BY <1>2, <2>2, <2>3, <2>5, <2>6 DEF JobInv
  <2>10. ASSUME u \notin failed PROVE RowInv(u)'
    <3>1. r0.no = s.no /\ r0 = [no |-> s.no, user |-> u, time |-> s.time, state |-> s.state]
      BY <1>6, <2>2
    <3>2. \A r \in RowsOf(u) : r.state = "OFFLINE"
      BY <1>1, <1>2, <2>1, <2>3, <2>4, <2>10
         DEF CalmInv, RowInv, OneServer, Storing, Serves, Serving
    <3>3. QED BY <2>3, <3>1, <3>2 DEF RowInv
  <2>11. ToldInv(u)'
    BY <2>5 DEF ToldInv, Busy, Serves
  <2>12. LoginInv(u)'
    BY <1>1, <1>2, <2>3 DEF LoginInv, CalmInv
  <2>13. QED BY <1>2, <2>7, <2>8, <2>9, <2>10, <2>11, <2>12 DEF CalmInv
<1>7. QED BY <1>5, <1>6

\* What UpdateRows does to the rows of one user.
LEMMA UpdatedRows ==
    ASSUME TypeOK, NEW c \in Clients, UpdateRows(c), NEW u \in Users
    PROVE  /\ u # job[c].user => RowsOf(u)' = RowsOf(u)
           /\ \A q \in RowsOf(u)' : \E r \in RowsOf(u) :
                 /\ q = IF Affected(r, job[c]) THEN [r EXCEPT !.state = job[c].state] ELSE r
                 /\ q.no = r.no /\ q.time = r.time
                 /\ Affected(r, job[c]) => q.state = job[c].state
           /\ \A r \in RowsOf(u) :
                 IF Affected(r, job[c]) THEN [r EXCEPT !.state = job[c].state] \in RowsOf(u)'
                                        ELSE r \in RowsOf(u)'
<1>1. rows' = {IF Affected(r, job[c]) THEN [r EXCEPT !.state = job[c].state] ELSE r : r \in rows}
  BY DEF UpdateRows
<1>2. \A r \in rows : /\ r \in Row
                      /\ [r EXCEPT !.state = job[c].state].user = r.user
                      /\ [r EXCEPT !.state = job[c].state].no = r.no
                      /\ [r EXCEPT !.state = job[c].state].time = r.time
                      /\ [r EXCEPT !.state = job[c].state].state = job[c].state
  BY DEF TypeOK, Row
<1>3. \A q \in rows' : \E r \in rows :
        q = IF Affected(r, job[c]) THEN [r EXCEPT !.state = job[c].state] ELSE r
  BY <1>1
<1>4. \A r \in rows :
        (IF Affected(r, job[c]) THEN [r EXCEPT !.state = job[c].state] ELSE r) \in rows'
  BY <1>1
<1>5. \A q \in RowsOf(u)' : \E r \in RowsOf(u) :
         /\ q = IF Affected(r, job[c]) THEN [r EXCEPT !.state = job[c].state] ELSE r
         /\ q.no = r.no /\ q.time = r.time
         /\ Affected(r, job[c]) => q.state = job[c].state
  <2> SUFFICES ASSUME NEW q \in rows', q.user = u
               PROVE  \E r \in rows :
                         /\ r.user = u
                         /\ q = IF Affected(r, job[c]) THEN [r EXCEPT !.state = job[c].state] ELSE r
                         /\ q.no = r.no /\ q.time = r.time
                         /\ Affected(r, job[c]) => q.state = job[c].state
    BY DEF RowsOf
  <2>1. PICK r \in rows :
          q = IF Affected(r, job[c]) THEN [r EXCEPT !.state = job[c].state] ELSE r
    BY <1>3
  <2>2. /\ q.user = r.user /\ q.no = r.no /\ q.time = r.time
        /\ Affected(r, job[c]) => q.state = job[c].state
    BY <1>2, <2>1
  <2>3. QED BY <2>1, <2>2
<1>6. \A r \in RowsOf(u) :
         IF Affected(r, job[c]) THEN [r EXCEPT !.state = job[c].state] \in RowsOf(u)'
                                ELSE r \in RowsOf(u)'
  BY <1>2, <1>4 DEF RowsOf
<1>7. u # job[c].user => \A r \in RowsOf(u) : ~Affected(r, job[c])
  BY DEF Affected, RowsOf
<1>8. u # job[c].user => RowsOf(u)' = RowsOf(u)
  BY <1>5, <1>6, <1>7
<1>9. QED BY <1>5, <1>6, <1>8

\* The statement of a change or a quit: it meets the row of the job's login,
\* and no other, because login_time is a key.
LEMMA UpdateCalm ==
    ASSUME IInv, NEW c \in Clients, UpdateRows(c), NEW u \in Users \ overlapped'
    PROVE  CalmInv(u)'
<1>1. CalmInv(u) /\ TypeOK
  BY DEF UpdateRows, history, IInv
<1> DEFINE j == job[c]
<1>2. /\ pc[c] = "store" /\ j.kind # "login"
      /\ pc' = [pc EXCEPT ![c] = "announce"] /\ job' = job /\ me' = me
      /\ announced' = announced /\ SessionsOf(u)' = SessionsOf(u) /\ failed' = failed
  BY DEF UpdateRows, Stored, SessionsOf, history
<1>3. /\ \A d \in Clients : d # c => pc'[d] = pc[d]
      /\ pc'[c] = "announce"
  BY <1>1, <1>2 DEF TypeOK
<1>4. \A d \in Clients : Serves(d, u)' <=> Serves(d, u)
  BY <1>2, <1>3 DEF Serves, Serving
<1>5. CASE u # j.user
  <2>1. RowsOf(u)' = RowsOf(u)
    BY <1>1, <1>5, UpdatedRows
  <2>2. \A d \in Clients : Serves(d, u) => pc'[d] = pc[d] /\ job'[d] = job[d]
    BY <1>2, <1>3, <1>5 DEF Serves
  <2>3. QED BY <1>1, <1>2, <1>4, <2>1, <2>2, Frame
<1>6. CASE u = j.user
  <2>1. Serves(c, u) /\ Storing(c, u, j.kind) /\ j.kind \in {"change", "quit"}
    BY <1>1, <1>2, <1>6 DEF Serves, Serving, Storing, TypeOK, Job
  <2>2. \A d \in Clients : Serves(d, u) => d = c
    BY <1>1, <2>1 DEF CalmInv, OneServer
  <2>3. \A d \in Clients : \A k : /\ ~Storing(d, u, k)'
                                  /\ Storing(d, u, k) => d = c /\ k = j.kind
    BY <1>3, <1>4, <2>2 DEF Storing, Serves, Serving
  <2>4. \A r \in RowsOf(u) : Affected(r, j) <=> r.time = j.time
    BY <1>6 DEF Affected, RowsOf
  <2>5. \A q \in RowsOf(u)' : \E r \in RowsOf(u) :
           /\ q = IF Affected(r, j) THEN [r EXCEPT !.state = j.state] ELSE r
           /\ q.no = r.no /\ q.time = r.time
           /\ Affected(r, j) => q.state = j.state
    BY <1>1, UpdatedRows
  <2>6. OneSession(u)' /\ OneServer(u)'
    BY <1>1, <1>2, <1>4, <2>2 DEF OneSession, OneServer, CalmInv
  <2>7. TimeKey(u)'
    <3>1. \A q, p \in RowsOf(u)' : q.time = p.time => q = p
      BY <1>1, <2>5 DEF CalmInv, TimeKey
    <3>2. \A s \in SessionsOf(u), q \in RowsOf(u)' : q.time = s.time <=> q.no = s.no
      BY <1>1, <2>5 DEF CalmInv, TimeKey
    <3>3. QED BY <1>2, <3>1, <3>2 DEF TimeKey
  <2>8. JobInv(u)'
    BY <1>1, <1>2, <1>4, <2>3 DEF JobInv, CalmInv
  <2>9. ASSUME u \notin failed PROVE RowInv(u)'
    <3>1. CASE j.kind = "change"
      <4>1. PICK s \in SessionsOf(u) : s.state = j.state /\ s.time = j.time
        BY <1>1, <2>1, <3>1 DEF CalmInv, JobInv
      <4>2. SessionsOf(u)' = {s}
        BY <1>1, <1>2, <4>1 DEF CalmInv, OneSession
      <4>3. PICK r \in RowsOf(u) : r.no = s.no
        <5>1. \A d \in Clients : ~Storing(d, u, "login")
          BY <2>3, <3>1
        <5>2. [no |-> s.no, user |-> u, time |-> s.time, state |-> s.state] \in RowsOf(u)
              \/ \E r \in RowsOf(u) : r.no = s.no
          BY <1>1, <2>9, <5>1 DEF CalmInv, RowInv
        <5>3. QED BY <5>2
      <4>4. r.time = s.time /\ Affected(r, j) /\ r \in Row /\ r.user = u
        BY <1>1, <2>4, <4>1, <4>3 DEF CalmInv, TimeKey, RowsOf, TypeOK
      <4>5. [r EXCEPT !.state = j.state] \in RowsOf(u)'
        BY <1>1, <4>4, UpdatedRows
      <4>6. [r EXCEPT !.state = j.state]
              = [no |-> s.no, user |-> u, time |-> s.time, state |-> s.state]
        BY <4>1, <4>3, <4>4 DEF Row
      <4>7. \A q \in RowsOf(u) : q.state = "OFFLINE" \/ q.no = s.no
        BY <1>1, <1>2, <2>3, <2>9, <3>1, <4>2 DEF CalmInv, RowInv
      <4>8. \A q \in RowsOf(u)' : q.state = "OFFLINE" \/ q.no = s.no
        BY <1>1, <2>4, <2>5, <4>1, <4>7 DEF CalmInv, TimeKey
      <4>9. QED BY <4>2, <4>5, <4>6, <4>8 DEF RowInv
    <3>2. CASE j.kind = "quit"
      <4>1. SessionsOf(u) = {} /\ j.state = "OFFLINE"
        BY <1>1, <2>1, <3>2 DEF CalmInv, JobInv
      <4>2. \A r \in RowsOf(u) : r.state = "OFFLINE" \/ r.time = j.time
        BY <1>1, <2>3, <2>9, <4>1 DEF CalmInv, RowInv
      <4>3. \A q \in RowsOf(u)' : q.state = "OFFLINE"
        BY <2>4, <2>5, <4>1, <4>2
      <4>4. QED BY <1>2, <4>1, <4>3 DEF RowInv
    <3>3. QED BY <2>1, <3>1, <3>2
  <2>10. ToldInv(u)'
    BY <1>4, <2>1 DEF ToldInv, Busy, Serves
  <2>11. LoginInv(u)'
    BY <1>1, <1>2 DEF LoginInv, CalmInv
  <2>12. QED BY <1>2, <2>6, <2>7, <2>8, <2>9, <2>10, <2>11 DEF CalmInv
<1>7. QED BY <1>5, <1>6

\* A statement that fails disturbs the agreement with the table, no more.
LEMMA StoreFailsCalm ==
    ASSUME IInv, NEW c \in Clients, StoreFails(c), NEW u \in Users \ overlapped'
    PROVE  CalmInv(u)'
<1>1. CalmInv(u) /\ TypeOK
  BY DEF StoreFails, IInv
<1>2. /\ pc[c] = "store" /\ pc' = [pc EXCEPT ![c] = "announce"] /\ job' = job /\ me' = me
      /\ announced' = announced /\ SessionsOf(u)' = SessionsOf(u) /\ RowsOf(u)' = RowsOf(u)
      /\ failed' = failed \cup {job[c].user}
  BY DEF StoreFails, Stored, SessionsOf, RowsOf, tables
<1>3. \A d \in Clients : d # c => pc'[d] = pc[d]
  BY <1>1, <1>2 DEF TypeOK
<1>4. pc'[c] = "announce"
  BY <1>1, <1>2 DEF TypeOK
<1>5. \A d \in Clients : Serves(d, u)' <=> Serves(d, u)
  BY <1>2, <1>3, <1>4 DEF Serves, Serving
<1>6. CASE u # job[c].user
  <2>1. \A d \in Clients : Serves(d, u) => pc'[d] = pc[d] /\ job'[d] = job[d]
    BY <1>2, <1>3, <1>6 DEF Serves
  <2>2. QED BY <1>1, <1>2, <1>5, <2>1, Frame
<1>7. CASE u = job[c].user
  <2>1. \A d \in Clients : \A k : Storing(d, u, k)' => Storing(d, u, k)
    BY <1>2, <1>3, <1>4 DEF Storing
  <2>2. OneSession(u)' /\ OneServer(u)' /\ TimeKey(u)' /\ LoginInv(u)'
    BY <1>1, <1>2, <1>5 DEF OneSession, OneServer, TimeKey, LoginInv, CalmInv
  <2>3. JobInv(u)'
    BY <1>1, <1>2, <1>5, <2>1 DEF JobInv, CalmInv
  <2>4. QED BY <1>2, <1>7, <2>2, <2>3 DEF CalmInv
<1>8. QED BY <1>6, <1>7

\* The end of a request: vector, table and friends agree once more.
LEMMA AnnounceCalm ==
    ASSUME IInv, NEW c \in Clients, Announce(c), NEW u \in Users \ overlapped'
    PROVE  CalmInv(u)'
<1>1. CalmInv(u) /\ TypeOK
  BY DEF Announce, history, IInv
<1> DEFINE j == job[c]
<1>2. /\ pc[c] = "announce" /\ announced' = [announced EXCEPT ![j.user] = j.state]
      /\ SessionsOf(u)' = SessionsOf(u) /\ RowsOf(u)' = RowsOf(u) /\ failed' = failed
  BY DEF Announce, SessionsOf, RowsOf, tables, history
<1>3. /\ \A d \in Clients : d # c => pc'[d] = pc[d] /\ job'[d] = job[d] /\ me'[d] = me[d]
      /\ pc'[c] \in {"closed", "ready"}
      /\ me'[c] = IF j.kind = "login" THEN [user |-> j.user, no |-> j.no] ELSE me[c]
  BY <1>1 DEF Announce, TypeOK
<1>4. \A d \in Clients : Serves(d, u)' <=> Serves(d, u) /\ d # c
  BY <1>3 DEF Serves, Serving
<1>5. CASE u # j.user
  <2>1. announced'[u] = announced[u]
    BY <1>1, <1>2, <1>5 DEF TypeOK
  <2>2. \A d \in Clients : /\ Serves(d, u)' <=> Serves(d, u)
                           /\ Serves(d, u) => pc'[d] = pc[d] /\ job'[d] = job[d]
    BY <1>3, <1>4, <1>5 DEF Serves
  <2>3. \A d \in Clients : me'[d] # None /\ me'[d].user = u => me'[d] = me[d]
    BY <1>3, <1>5
  <2>4. QED BY <1>1, <1>2, <2>1, <2>2, <2>3, Frame
<1>6. CASE u = j.user
  <2>1. Serves(c, u) /\ announced'[u] = j.state
    BY <1>1, <1>2, <1>6 DEF Serves, Serving, TypeOK
  <2>2. \A d \in Clients : ~Serves(d, u)'
    BY <1>1, <1>4, <2>1 DEF CalmInv, OneServer
  <2>3. \A d \in Clients : \A k : ~Storing(d, u, k) /\ ~Storing(d, u, k)'
    BY <1>1, <1>2, <2>1, <2>2 DEF CalmInv, OneServer, Storing, Serves, Serving
  <2>4. OneSession(u)' /\ OneServer(u)' /\ TimeKey(u)' /\ JobInv(u)'
    BY <1>1, <1>2, <2>2 DEF OneSession, OneServer, TimeKey, JobInv, CalmInv
  <2>5. u \notin failed => RowInv(u)'
    BY <1>1, <1>2, <2>3 DEF RowInv, CalmInv
  <2>6. /\ j.kind # "quit" => \E s \in SessionsOf(u) :
              /\ SessionsOf(u) = {s} /\ s.state = j.state /\ s.client = c
              /\ j.kind = "login" => s.no = j.no
        /\ j.kind = "quit" => SessionsOf(u) = {} /\ j.state = "OFFLINE"
    BY <1>1, <2>1 DEF CalmInv, JobInv, OneSession
  <2>7. ToldInv(u)'
    BY <1>2, <2>1, <2>6 DEF ToldInv
  <2>8. LoginInv(u)'
    BY <1>1, <1>2, <1>3, <2>6 DEF LoginInv, CalmInv
  <2>9. QED BY <1>2, <2>4, <2>5, <2>7, <2>8 DEF CalmInv
<1>7. QED BY <1>5, <1>6

\* Steps that serve nobody.
LEMMA IdleCalm ==
    ASSUME IInv, NEW u \in Users \ overlapped',
           \/ \E c \in Clients : Connect(c) \/ QuitNameless(c) \/ Die(c)
           \/ \E c \in Clients, v \in Users : Register(c, v)
           \/ Tick \/ UNCHANGED vars
    PROVE  CalmInv(u)'
<1>1. /\ SessionsOf(u)' = SessionsOf(u) /\ RowsOf(u)' = RowsOf(u)
      /\ announced' = announced /\ job' = job /\ UNCHANGED history
  BY DEF Connect, QuitNameless, Die, Register, Tick, vars, tables, SessionsOf, RowsOf
<1>2. \A d \in Clients : Serving(d)' <=> Serving(d)
  BY DEF IInv, TypeOK, Connect, QuitNameless, Die, Register, Tick, vars, Serving
<1>3. \A d \in Clients : Serving(d) => pc'[d] = pc[d]
  BY DEF IInv, TypeOK, Connect, QuitNameless, Die, Register, Tick, vars, Serving
<1>4. \A d \in Clients : me'[d] # None => me'[d] = me[d]
  BY DEF IInv, TypeOK, Connect, QuitNameless, Die, Register, Tick, vars
<1>5. CalmInv(u) /\ failed' = failed
  BY <1>1 DEF history, IInv
<1>6. QED BY <1>1, <1>2, <1>3, <1>4, <1>5, Frame DEF Serves

\* A restart empties the vector, and leaves the rows of those who were in it.
LEMMA RestartCalm ==
    ASSUME IInv, Restart, NEW u \in Users \ overlapped'
    PROVE  CalmInv(u)'
<1>1. CalmInv(u)
  BY DEF Restart, IInv
<1>2. /\ SessionsOf(u)' = {} /\ RowsOf(u)' = RowsOf(u) /\ announced' = announced
      /\ u \notin failed' => u \notin failed /\ SessionsOf(u) = {} /\ ~Busy(u)
  BY DEF Restart, SessionsOf, RowsOf
<1>3. \A d \in Clients : ~Serves(d, u)' /\ me'[d] = None
  BY DEF Restart, Serves, Serving
<1>4. OneSession(u)' /\ OneServer(u)' /\ TimeKey(u)' /\ JobInv(u)' /\ LoginInv(u)'
  BY <1>1, <1>2, <1>3 DEF OneSession, OneServer, TimeKey, JobInv, LoginInv, CalmInv
<1>5. ASSUME u \notin failed' PROVE RowInv(u)' /\ ToldInv(u)'
  <2>1. \A d \in Clients : \A k : ~Storing(d, u, k)
    BY <1>2, <1>5 DEF Busy, Serving, Storing
  <2>2. \A r \in RowsOf(u) : r.state = "OFFLINE"
    BY <1>1, <1>2, <1>5, <2>1 DEF CalmInv, RowInv
  <2>3. QED BY <1>1, <1>2, <1>5, <2>2 DEF CalmInv, RowInv, ToldInv
<1>6. QED BY <1>4, <1>5 DEF CalmInv

LEMMA Invariance == Spec => []IInv
<1>1. ASSUME IInv, [Next]_vars PROVE IInv'
  <2>1. TypeOK' /\ NumberInv'
    BY <1>1, TypeStep, NumberStep DEF IInv
  <2>2. ASSUME NEW u \in Users \ overlapped' PROVE CalmInv(u)'
    <3>1. ASSUME NEW c \in Clients,
                 Connect(c) \/ QuitNameless(c) \/ Die(c) \/ \E v \in Users : Register(c, v)
          PROVE  CalmInv(u)'
      BY <1>1, <3>1, IdleCalm
    <3>2. ASSUME NEW c \in Clients, NEW v \in Users, Login(c, v) PROVE CalmInv(u)'
      BY <1>1, <3>2, LoginCalm
    <3>3. ASSUME NEW c \in Clients, NEW s \in States, ChangeState(c, s) PROVE CalmInv(u)'
      BY <1>1, <3>3, ChangeCalm
    <3>4. ASSUME NEW c \in Clients, Quit(c) PROVE CalmInv(u)'
      BY <1>1, <3>4, QuitCalm
    <3>5. ASSUME NEW c \in Clients, InsertRow(c) PROVE CalmInv(u)'
      BY <1>1, <3>5, InsertCalm
    <3>6. ASSUME NEW c \in Clients, UpdateRows(c) PROVE CalmInv(u)'
      BY <1>1, <3>6, UpdateCalm
    <3>7. ASSUME NEW c \in Clients, StoreFails(c) PROVE CalmInv(u)'
      BY <1>1, <3>7, StoreFailsCalm
    <3>8. ASSUME NEW c \in Clients, Announce(c) PROVE CalmInv(u)'
      BY <1>1, <3>8, AnnounceCalm
    <3>9. CASE Restart
      BY <1>1, <3>9, RestartCalm
    <3>10. CASE Tick \/ UNCHANGED vars
      BY <1>1, <3>10, IdleCalm
    <3>11. QED
      BY <1>1, <3>1, <3>2, <3>3, <3>4, <3>5, <3>6, <3>7, <3>8, <3>9, <3>10 DEF Next
  <2>3. QED BY <2>1, <2>2 DEF IInv
<1>2. QED BY <1>1, InvInit, PTL DEF Spec
-----------------------------------------------------------------------------
\* g_vecTableLogin, login_info and what friends were told agree about every
\* user who is not being served and whose logins were serial, a second apart
\* and met no failure, for any number of clients and users.
THEOREM TablesAgree == Spec => []Consistent
<1>1. IInv => Consistent
  <2> SUFFICES ASSUME IInv, NEW u \in Users \ (overlapped \cup failed), ~Busy(u)
               PROVE  /\ \A s, t \in SessionsOf(u) : s = t
                      /\ \A s \in SessionsOf(u) :
                            [no |-> s.no, user |-> u, time |-> s.time, state |-> s.state] \in rows
                      /\ \A r \in RowsOf(u) :
                            r.state = "OFFLINE" \/ \E s \in SessionsOf(u) : s.no = r.no
                      /\ SessionsOf(u) = {} => announced[u] = "OFFLINE"
                      /\ \A s \in SessionsOf(u) : announced[u] = s.state
    BY DEF Consistent
  <2>1. CalmInv(u)
    BY DEF IInv
  <2>2. \A c \in Clients : \A k : ~Storing(c, u, k)
    BY DEF Storing, Busy, Serving
  <2>3. \A s \in SessionsOf(u) :
           [no |-> s.no, user |-> u, time |-> s.time, state |-> s.state] \in rows
    BY <2>1, <2>2 DEF CalmInv, RowInv, RowsOf
  <2>4. \A r \in RowsOf(u) : r.state = "OFFLINE" \/ \E s \in SessionsOf(u) : s.no = r.no
    BY <2>1, <2>2 DEF CalmInv, RowInv
  <2>5. QED BY <2>1, <2>3, <2>4 DEF CalmInv, OneSession, ToldInv
<1>2. QED BY <1>1, Invariance, PTL

\* get_friend_info finds, for a user whose logins never overlapped, the session
\* of the client that is logged in at this moment, and no session of another
\* login, whatever statements failed and even after a restart.
THEOREM MessagesArrive == Spec => []Reachable
<1>1. IInv => Reachable
  <2> SUFFICES ASSUME IInv, NEW c \in Clients, me[c] # None, me[c].user \notin overlapped
               PROVE  \E s \in SessionsOf(me[c].user) :
                         Oldest(me[c].user) = {s} /\ s.client = c /\ s.no = me[c].no
    BY DEF Reachable
  <2>1. me[c].user \in Users /\ CalmInv(me[c].user)
    BY DEF IInv, TypeOK, Account
  <2>2. PICK s \in SessionsOf(me[c].user) : s.no = me[c].no /\ s.client = c
    BY <2>1 DEF CalmInv, LoginInv
  <2>3. SessionsOf(me[c].user) = {s} /\ s.no \in Nat
    BY <2>1, <2>2 DEF CalmInv, OneSession, SessionsOf, IInv, TypeOK, Session
  <2>4. QED BY <2>2, <2>3 DEF Oldest
<1>2. QED BY <1>1, Invariance, PTL

\* The row of a login that is over is never written again: only UPDATE writes
\* a row, and it meets the row of the login it is for or, when its INSERT
\* failed, none.
THEOREM ClosedRowsStay == Spec => HistoryKept
<1> DEFINE Kept == \A r \in rows : Closed(r) /\ r.user \notin overlapped => r \in rows'
<1>1. ASSUME IInv, [Next]_vars PROVE Kept
  <2>1. ASSUME NEW c \in Clients, UpdateRows(c) PROVE Kept
    <3> SUFFICES ASSUME NEW r \in rows, Closed(r), r.user \notin overlapped
                 PROVE  r \in rows'
      OBVIOUS
    <3> DEFINE u == r.user
               j == job[c]
    <3>1. TypeOK /\ r \in Row /\ u \in Users /\ r \in RowsOf(u) /\ CalmInv(u)
      BY <1>1 DEF IInv, TypeOK, Row, RowsOf
    <3>2. CASE ~Affected(r, j)
      BY <2>1, <3>1, <3>2, UpdatedRows DEF RowsOf
    <3>3. CASE Affected(r, j)
      <4>1. Serves(c, u) /\ j.kind \in {"change", "quit"} /\ r.time = j.time
        BY <2>1, <3>1, <3>3 DEF UpdateRows, Serves, Serving, Affected, TypeOK, Job
      <4>2. j.kind = "quit"
        BY <3>1, <4>1 DEF CalmInv, JobInv, TimeKey, Closed, SessionsOf
      <4>3. [r EXCEPT !.state = j.state] = r
        BY <3>1, <4>1, <4>2 DEF CalmInv, JobInv, Closed, Row
      <4>4. [r EXCEPT !.state = j.state] \in rows'
        BY <2>1, <3>1, <3>3, UpdatedRows DEF RowsOf
      <4>5. QED BY <4>3, <4>4
    <3>4. QED BY <3>2, <3>3
  <2>2. ASSUME NEW c \in Clients, InsertRow(c) PROVE Kept
    BY <2>2 DEF InsertRow
  <2>3. ASSUME NEW c \in Clients,
               Connect(c) \/ QuitNameless(c) \/ Quit(c) \/ Die(c) \/ StoreFails(c) \/ Announce(c)
        PROVE  rows' = rows
    BY <2>3 DEF Connect, QuitNameless, Quit, Die, StoreFails, Announce, tables
  <2>4. ASSUME NEW c \in Clients, NEW u \in Users, Register(c, u) \/ Login(c, u)
        PROVE  rows' = rows
    BY <2>4 DEF Register, Login
  <2>5. ASSUME NEW c \in Clients, NEW s \in States, ChangeState(c, s) PROVE rows' = rows
    BY <2>5 DEF ChangeState
  <2>6. CASE Restart \/ Tick \/ UNCHANGED vars
    BY <2>6 DEF Restart, Tick, vars, tables
  <2>7. rows' = rows => Kept
    OBVIOUS
  <2> HIDE DEF Kept
  <2>8. QED BY <1>1, <2>1, <2>2, <2>3, <2>4, <2>5, <2>6, <2>7 DEF Next
<1>2. QED BY <1>1, Invariance, PTL DEF Spec, HistoryKept
=============================================================================
