------------------------------ MODULE Sessions ------------------------------
(***************************************************************************)
(* Who is logged in, as the server keeps it in two places: the vector      *)
(* g_vecTableLogin (sessions) and the MySQL table login_info (rows), with  *)
(* the announcements made to friends (announced).  server/server.cpp,      *)
(* tbl_logininfo.cpp, tbl_userinfo.cpp and execute_sql.cpp.                *)
(*                                                                         *)
(* One handler thread per connection serves the requests of one client, in *)
(* three steps that other handlers may come between: change the vector,    *)
(* write the database, announce.  The scan-and-change of a vector is one   *)
(* step here, although the code takes no lock around it.  A row's `no'     *)
(* stands for its position: push_back and erase keep the vector in the     *)
(* order of the logins, so the first match has the least number.           *)
(***************************************************************************)
EXTENDS Naturals

CONSTANTS Clients,      \* client processes; each has one connection at a time
          Users,        \* user names
          States,       \* enum user_state
          Persisted,    \* names in the table user_info when the server starts
          None,         \* no login, no request
          Fallible,     \* whether MySQL statements may fail
          MaxTime,      \* bounds: seconds on the clock,
          MaxLogins,    \* logins in a behaviour,
          MaxRestarts   \* and restarts of the server

ASSUME Enumeration == {"ONLINE", "OFFLINE"} \subseteq States
ASSUME Registered  == Persisted \subseteq Users
ASSUME Outside     == None \notin [user : Users, no : Nat]
ASSUME Fallibility == Fallible \in BOOLEAN
ASSUME Bounds      == MaxTime \in Nat /\ MaxLogins \in Nat /\ MaxRestarts \in Nat

VARIABLES registered,   \* names in g_vecTableUSer
          sessions,     \* g_vecTableLogin
          rows,         \* table login_info
          now,          \* wall clock, in the seconds that login_time records
          logins,       \* number of the last login
          restarts,
          pc,           \* handler of each client's connection
          job,          \* the request it is serving
          me,           \* client: the login it has been told succeeded
          announced,    \* history: the last state announced to u's friends
          overlapped,   \* history: users whose logins overlapped, or shared a second
          failed        \* history: users met by a failing statement or a restart

tables == <<registered, sessions, rows>>
clock  == <<now, logins, restarts>>
history == <<overlapped, failed>>
vars   == <<tables, clock, pc, job, me, announced, history>>

Session == [no : Nat, user : Users, client : Clients, time : Nat, state : States]
Row     == [no : Nat, user : Users, time : Nat, state : States]
Account == [user : Users, no : Nat]

\* login_time of a user without a session is the empty string: no row has it.
NoTime == 0
Job == [kind : {"login", "change", "quit"}, user : Users, no : Nat,
        time : Nat, state : States]

SessionsOf(u) == {s \in sessions : s.user = u}
RowsOf(u)     == {r \in rows : r.user = u}
Serving(c)    == pc[c] \in {"store", "announce"}
Busy(u)       == \E c \in Clients : Serving(c) /\ job[c].user = u

\* The session a scan for u from the front finds, and the last of a full scan
\* (sets of one element, or empty).
Oldest(u) == {s \in SessionsOf(u) : \A t \in SessionsOf(u) : s.no <= t.no}
Newest(u) == {s \in SessionsOf(u) : \A t \in SessionsOf(u) : s.no >= t.no}
-----------------------------------------------------------------------------
Init ==
    /\ registered = Persisted /\ sessions = {} /\ rows = {}
    /\ now = 1 /\ logins = 0 /\ restarts = 0
    /\ pc = [c \in Clients |-> "closed"]
    /\ job = [c \in Clients |-> None]
    /\ me = [c \in Clients |-> None]
    /\ announced = [u \in Users |-> "OFFLINE"]
    /\ overlapped = {} /\ failed = {}

Overlap(u, cond) == overlapped' = overlapped \cup {v \in {u} : cond}

Serve(c, j) ==
    /\ pc' = [pc EXCEPT ![c] = "store"]
    /\ job' = [job EXCEPT ![c] = j]

\* A client process starts and connects; the server makes a thread for it.
Connect(c) ==
    /\ pc[c] = "closed"
    /\ pc' = [pc EXCEPT ![c] = "ready"]
    /\ UNCHANGED <<tables, clock, job, me, announced, history>>

\* register_info: the new user goes to the vector.  The INSERT into user_info
\* has neither quotes nor a closing parenthesis, and always fails.
Register(c, u) ==
    /\ pc[c] = "ready" /\ me[c] = None
    /\ registered' = registered \cup {u}
    /\ UNCHANGED <<sessions, rows, clock, pc, job, me, announced, history>>

\* login, with name and password of a known user (any other is answered FAIL,
\* and nothing changes).  Nothing asks whether the user is logged in already.
Login(c, u) ==
    /\ pc[c] = "ready" /\ me[c] = None
    /\ u \in registered
    /\ logins < MaxLogins
    /\ logins' = logins + 1
    /\ sessions' = sessions \cup {[no |-> logins', user |-> u, client |-> c,
                                   time |-> now, state |-> "ONLINE"]}
    /\ Serve(c, [kind |-> "login", user |-> u, no |-> logins', time |-> now, state |-> "ONLINE"])
    /\ Overlap(u, SessionsOf(u) # {} \/ Busy(u) \/ \E r \in RowsOf(u) : r.time = now)
    /\ UNCHANGED <<registered, rows, now, restarts, me, announced, failed>>

\* Mutant: a user who chooses OFFLINE is dropped from the vector.
ChangeStateDropping(c, s) ==
    /\ pc[c] = "ready" /\ me[c] # None
    /\ \E own \in Oldest(me[c].user) :
          /\ sessions' = (sessions \ {own}) \cup
                           {t \in {[own EXCEPT !.state = s]} : s # "OFFLINE"}
          /\ Serve(c, [kind |-> "change", user |-> own.user, no |-> 0,
                       time |-> own.time, state |-> s])
          /\ Overlap(own.user, Busy(own.user))
    /\ UNCHANGED <<registered, rows, clock, me, announced, failed>>

\* update_login_state, on the first session of that name.
ChangeState(c, s) ==
    /\ pc[c] = "ready" /\ me[c] # None
    /\ LET u == me[c].user
           change(time) == [kind |-> "change", user |-> u, no |-> 0, time |-> time, state |-> s]
       IN
       /\ \/ /\ SessionsOf(u) = {}
             /\ UNCHANGED sessions
             /\ Serve(c, change(NoTime))
          \/ \E own \in Oldest(u) :
                /\ sessions' = (sessions \ {own}) \cup {[own EXCEPT !.state = s]}
                /\ Serve(c, change(own.time))
       /\ Overlap(u, Busy(u))
    /\ UNCHANGED <<registered, rows, clock, me, announced, failed>>

\* The login_time that is left when all sessions of u have been erased.
ErasedTimes(u) == IF SessionsOf(u) = {} THEN {NoTime} ELSE {s.time : s \in Newest(u)}

\* Mutant: the erasing loop does not compare the names.
QuitAll(c) ==
    /\ pc[c] = "ready" /\ me[c] # None
    /\ LET u == me[c].user IN
       /\ sessions' = {}
       /\ \E t \in ErasedTimes(u) :
             Serve(c, [kind |-> "quit", user |-> u, no |-> 0, time |-> t, state |-> "OFFLINE"])
       /\ Overlap(u, Busy(u))
    /\ me' = [me EXCEPT ![c] = None]
    /\ UNCHANGED <<registered, rows, clock, announced, failed>>

\* update_quit_state: every session of that name is erased, whoever's it is.
\* The client waits for the server to close the connection.
Quit(c) ==
    /\ pc[c] = "ready" /\ me[c] # None
    /\ LET u == me[c].user IN
       /\ sessions' = sessions \ SessionsOf(u)
       /\ \E t \in ErasedTimes(u) :
             Serve(c, [kind |-> "quit", user |-> u, no |-> 0, time |-> t, state |-> "OFFLINE"])
       /\ Overlap(u, Busy(u))
    /\ me' = [me EXCEPT ![c] = None]
    /\ UNCHANGED <<registered, rows, clock, announced, failed>>

\* A client that is not logged in quits as "none".
QuitNameless(c) ==
    /\ pc[c] = "ready" /\ me[c] = None
    /\ pc' = [pc EXCEPT ![c] = "closed"]
    /\ UNCHANGED <<tables, clock, job, me, announced, history>>

Stored(c) == pc' = [pc EXCEPT ![c] = "announce"]

\* Mutant: the row is stamped when it is inserted, not when the user logged in.
InsertRowLate(c) ==
    /\ pc[c] = "store" /\ job[c].kind = "login"
    /\ rows' = rows \cup {[no |-> job[c].no, user |-> job[c].user,
                           time |-> now, state |-> job[c].state]}
    /\ Stored(c)
    /\ UNCHANGED <<registered, sessions, clock, job, me, announced, history>>

\* insert_login_info: INSERT INTO login_info.
InsertRow(c) ==
    /\ pc[c] = "store" /\ job[c].kind = "login"
    /\ rows' = rows \cup {[no |-> job[c].no, user |-> job[c].user,
                           time |-> job[c].time, state |-> job[c].state]}
    /\ Stored(c)
    /\ UNCHANGED <<registered, sessions, clock, job, me, announced, history>>

\* Mutants: the where clause without user_name, and without login_time.
AffectedByTime(r, j) == r.time = j.time
AffectedByName(r, j) == r.user = j.user

\* UPDATE login_info SET state=... where user_name=... and login_time=...
Affected(r, j) == r.user = j.user /\ r.time = j.time

UpdateRows(c) ==
    /\ pc[c] = "store" /\ job[c].kind # "login"
    /\ rows' = {IF Affected(r, job[c]) THEN [r EXCEPT !.state = job[c].state] ELSE r : r \in rows}
    /\ Stored(c)
    /\ UNCHANGED <<registered, sessions, clock, job, me, announced, history>>

\* The statement fails: the row is lost or stale, and the handler goes on.
\* A user registered since the start has an indeterminate user_id, which the
\* foreign key of login_info rejects unless some user happens to have it.
StoreFails(c) ==
    /\ pc[c] = "store"
    /\ \/ Fallible
       \/ job[c].kind = "login" /\ job[c].user \notin Persisted
    /\ Stored(c)
    /\ failed' = failed \cup {job[c].user}
    /\ UNCHANGED <<tables, clock, job, me, announced, overlapped>>

\* Mutant: the handler falls through and answers once more.
AnnounceAgain(c) ==
    /\ pc[c] = "announce"
    /\ announced' = [announced EXCEPT ![job[c].user] = job[c].state]
    /\ job' = [job EXCEPT ![c] = None]
    /\ UNCHANGED <<tables, clock, pc, me, history>>

\* The state is posted to the notifier (module NotifyChannel), then the client
\* is answered; after a quit the handler returns and closes the connection.
Announce(c) ==
    /\ pc[c] = "announce"
    /\ announced' = [announced EXCEPT ![job[c].user] = job[c].state]
    /\ pc' = [pc EXCEPT ![c] = IF job[c].kind = "quit" THEN "closed" ELSE "ready"]
    /\ me' = IF job[c].kind = "login"
             THEN [me EXCEPT ![c] = [user |-> job[c].user, no |-> job[c].no]]
             ELSE me
    /\ job' = [job EXCEPT ![c] = None]
    /\ UNCHANGED <<tables, clock, history>>

\* A client process is killed.  Readline returns 0 to its handler for ever
\* after: the thread spins, and the session stays.
Die(c) ==
    /\ pc[c] = "ready"
    /\ pc' = [pc EXCEPT ![c] = "closed"]
    /\ me' = [me EXCEPT ![c] = None]
    /\ UNCHANGED <<tables, clock, job, announced, history>>

\* The server stops and starts again: init_mysql_table loads user_info, and
\* nothing loads or cleans login_info.  The connections are gone.
Restart ==
    /\ restarts < MaxRestarts
    /\ restarts' = restarts + 1
    /\ registered' = Persisted
    /\ sessions' = {}
    /\ pc' = [c \in Clients |-> "closed"]
    /\ job' = [c \in Clients |-> None]
    /\ me' = [c \in Clients |-> None]
    /\ failed' = failed \cup {u \in Users : SessionsOf(u) # {} \/ Busy(u)}
    /\ UNCHANGED <<rows, now, logins, announced, overlapped>>

Tick ==
    /\ now < MaxTime
    /\ now' = now + 1
    /\ UNCHANGED <<tables, logins, restarts, pc, job, me, announced, history>>

Next ==
    \/ \E c \in Clients :
          \/ Connect(c) \/ QuitNameless(c) \/ Quit(c) \/ Die(c)
          \/ InsertRow(c) \/ UpdateRows(c) \/ StoreFails(c) \/ Announce(c)
          \/ \E u \in Users : Register(c, u) \/ Login(c, u)
          \/ \E s \in States : ChangeState(c, s)
    \/ Restart
    \/ Tick

Spec == Init /\ [][Next]_vars
-----------------------------------------------------------------------------
TypeOK ==
    /\ registered \in SUBSET Users
    /\ sessions \in SUBSET Session
    /\ rows \in SUBSET Row
    /\ now \in Nat \ {NoTime} /\ logins \in Nat /\ restarts \in Nat
    /\ pc \in [Clients -> {"closed", "ready", "store", "announce"}]
    /\ job \in [Clients -> Job \cup {None}]
    /\ \A c \in Clients : Serving(c) => job[c] \in Job
    /\ me \in [Clients -> Account \cup {None}]
    /\ announced \in [Users -> States]
    /\ overlapped \in SUBSET Users /\ failed \in SUBSET Users
-----------------------------------------------------------------------------
\* The vector, the table and the announcements agree about every user nobody
\* is serving, as long as that user's logins never overlapped, never fell in
\* the second of an earlier one, and met no failure: one session at most, with
\* a row of its own that says the same; every older row OFFLINE; and the
\* friends were last told what the vector says.
Consistent == \A u \in Users \ (overlapped \cup failed) : ~Busy(u) =>
    /\ \A s, t \in SessionsOf(u) : s = t
    /\ \A s \in SessionsOf(u) :
          [no |-> s.no, user |-> u, time |-> s.time, state |-> s.state] \in rows
    /\ \A r \in RowsOf(u) : r.state = "OFFLINE" \/ \E s \in SessionsOf(u) : s.no = r.no
    /\ SessionsOf(u) = {} => announced[u] = "OFFLINE"
    /\ \A s \in SessionsOf(u) : announced[u] = s.state

\* A message for a user whose logins never overlapped goes to the client that
\* is logged in, not to one that is gone: get_friend_info finds the session of
\* this very login, whatever statements failed and even after a restart.
Reachable == \A c \in Clients :
    me[c] # None /\ me[c].user \notin overlapped
        => \E s \in SessionsOf(me[c].user) :
              Oldest(me[c].user) = {s} /\ s.client = c /\ s.no = me[c].no

\* login_info is a log of logins: the row of a login that is over is never
\* written again, by no change or quit of a later login of the same user, be
\* it one whose own INSERT failed, or one after a restart.
Closed(r) == r.state = "OFFLINE" /\ \A s \in sessions : s.no # r.no
HistoryKept == [][\A r \in rows : Closed(r) /\ r.user \notin overlapped => r \in rows']_vars

\* The comments at tbl_logininfo.cpp:105 and 121 say that a quit clears the
\* vector and brings the database up to date: once its UPDATE is done, no row
\* that was in the table says that the user is there.
QuitClearsDatabase == [][\A c \in Clients :
    pc[c] = "store" /\ pc'[c] = "announce" /\ job[c].kind = "quit"
        => \A r \in rows' : r.user = job[c].user => r.state = "OFFLINE"]_vars
=============================================================================
