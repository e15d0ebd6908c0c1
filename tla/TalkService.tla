---------------------------- MODULE TalkService ----------------------------
(***************************************************************************)
(* The client processes and the server together: client_gui.cpp,           *)
(* everyone_talk.cpp and connect_server.cpp on one side, server.cpp,       *)
(* notify_client.cpp and tbl_logininfo.cpp on the other, and between them  *)
(* the connections of module Tcp.  A client has one connection to the      *)
(* server for its requests, one at a time; the server connects to the      *)
(* client's listening port for each notice.  Any client may be killed and  *)
(* the server stopped at any moment.                                       *)
(*                                                                         *)
(* Coarser than the modules of the parts: a change of the vector and a     *)
(* lookup are one step each (Sessions), a post has no state and no text,   *)
(* and its name is assigned in one step that a lookup may meet half done   *)
(* (NotifyChannel), lines do not cross (LineReader), and running clients   *)
(* have different ports (PortFile).                                        *)
(***************************************************************************)
EXTENDS Tcp, Naturals, FiniteSets

CONSTANTS Clients,   \* places for a client process: terminals
          Users,     \* user names with an account
          Friends,   \* [Users -> SUBSET Users]
          Ports,     \* listening ports
          None,      \* no name (or that of nobody), no port, no request
          Typed,     \* bound: the commands that are typed, besides the login
                     \* with an account; "nobody" is a login without, "none" a quit
          MaxStarts  \* bound: client processes in a behaviour

ASSUME Friending == Friends \in [Users -> SUBSET Users]
ASSUME Outside   == None \notin Users \cup Ports
ASSUME Bound     == /\ MaxStarts \in Nat
                    /\ Typed \subseteq {"register", "nobody", "none", "state", "quit", "message"}

VARIABLES server,    \* "up", or what ended it: "stopped", "refused", "pipe"
          sessions,  \* g_vecTableLogin: user and port (the ip is one)
          post,      \* ctrl_sc and the names in us_change and s_msg
          taken,     \* notifier: the post it has taken and not looked up:
                     \* "none", "post", then the type it read
          round,     \* notifier: whom it has yet to call
          call,      \* notifier: the call it is making
          thread,    \* handler of each connection
          msg_recv,  \* the line it read last
          link,      \* connection of each client
          pc,        \* command thread of each client: its screen
          user,      \* name it has logged in with
          mate,      \* friend in its talk window
          req,       \* request it waits for an answer to
          listed,    \* friends in its list
          port,      \* c_port
          starts,    \* number of processes started
          ended,     \* history: how processes have ended
          astray,    \* history: a message found no address, for want of a
                     \* session of its user or while its name was assigned
          leaked     \* history: sockets deal_notify did not close

serving  == <<sessions, thread, msg_recv>>
notifier == <<post, taken, round, call>>
place    == <<user, mate, listed, port, starts>>
history  == <<ended, astray, leaked>>
vars == <<server, serving, notifier, link, pc, req, place, history>>

Requests == [kind : {"register", "login", "list", "state", "message", "quit"},
             user : Users \cup {None}]
Results  == {"ok", "fail"}
Answers  == [kind : {"register", "login", "list", "state", "message"}, result : Results]
Types    == {"state", "message"}
Post     == [flag : BOOLEAN, type : Types \cup {"none"}, name : [Types -> Users \cup {None}]]
NoPost   == [flag |-> FALSE, type |-> "none", name |-> [t \in Types |-> None]]
Session  == [user : Users, port : Ports]
Nowhere  == [user |-> None, port |-> None]   \* the address that is left empty
Target   == Session \cup {Nowhere}

Screens   == {"main", "entering", "friends", "talk", "wait"}
Running(c) == pc[c] \in Screens
Holder(p)  == {c \in Clients : Running(c) /\ port[c] = p}

\* The first session of u, as every scan of the vector finds it (a set of at
\* most one element).
First(u) == {sessions[i] : i \in {i \in DOMAIN sessions :
                sessions[i].user = u /\ \A j \in 1 .. i - 1 : sessions[j].user # u}}

\* The sessions of all but u, as update_quit_state leaves them.
Without(s, u) ==
    LET upTo[k \in 0 .. Len(s)] ==
            IF k = 0 THEN <<>>
            ELSE IF s[k].user = u THEN upTo[k - 1] ELSE Append(upTo[k - 1], s[k])
    IN  upTo[Len(s)]
-----------------------------------------------------------------------------
Init == /\ server = "up" /\ sessions = <<>>
        /\ post = NoPost /\ taken = "none" /\ round = {} /\ call = None
        /\ thread = [c \in Clients |-> "none"]
        /\ msg_recv = [c \in Clients |-> None]
        /\ link = [c \in Clients |-> NoLink]
        /\ pc = [c \in Clients |-> "off"]
        /\ user = [c \in Clients |-> None] /\ mate = [c \in Clients |-> None]
        /\ req = [c \in Clients |-> None] /\ listed = [c \in Clients |-> {}]
        /\ port = [c \in Clients |-> None] /\ starts = 0
        /\ ended = {} /\ astray = FALSE /\ leaked = 0
-----------------------------------------------------------------------------
(* The command thread of a client.                                         *)

Show(c, screen) == pc' = [pc EXCEPT ![c] = screen]

\* The end of a client process closes its connections.  The one the notifier
\* is making may not have been accepted yet.
Gone(c, how) ==
    /\ Show(c, "off")
    /\ ended' = ended \cup {how}
    /\ link' = [link EXCEPT ![c] = Closed(@, "client")]
    /\ IF call # None /\ call.to = c
       THEN \E l \in {Closed(call.link, "client")} \cup
                     {l \in {Aborted(call.link, "client")} : call.stage = "write"} :
               call' = [call EXCEPT !.link = l]
       ELSE UNCHANGED call
    /\ req' = [req EXCEPT ![c] = None]
    /\ user' = [user EXCEPT ![c] = None]
    /\ listed' = [listed EXCEPT ![c] = {}]
    /\ UNCHANGED <<server, serving, post, taken, round, port, starts, astray, leaked>>

\* The thread that serves c's connection, if any, has returned or will spin
\* for ever at the end of its input.
Idle(c) == \/ thread[c] \in {"none", "over"}
           \/ thread[c] = "read" /\ ReadResult(link[c], "server") = "end"

\* main and thread_main: a process starts, listens on a port no other has, and
\* connects to the server.  The place of an earlier process is taken again
\* when nothing of it is left but a spinning thread.
Start(c) ==
    /\ server = "up" /\ starts < MaxStarts
    /\ pc[c] = "off" /\ link[c].end["server"] # "open" /\ Idle(c)
    /\ \E p \in Ports : Holder(p) = {} /\ port' = [port EXCEPT ![c] = p]
    /\ starts' = starts + 1
    /\ link' = [link EXCEPT ![c] = Connected]
    /\ thread' = [thread EXCEPT ![c] = "none"]
    /\ msg_recv' = [msg_recv EXCEPT ![c] = None]
    /\ Show(c, "main")
    /\ UNCHANGED <<server, sessions, notifier, user, mate, listed, req, history>>

\* deal_msg of connect_server.cpp, up to Readline.  A failing writen returns
\* FAIL at once: the answer it does not get is the end that Readline reports.
Ask(c, r) ==
    \/ /\ WriteResult(link[c], "client") # "SIGPIPE"
       /\ link' = [link EXCEPT ![c] = Written(@, "client", r)]
       /\ req' = [req EXCEPT ![c] = r]
       /\ Show(c, "wait")
       /\ UNCHANGED <<server, serving, notifier, user, listed, port, starts, history>>
    \/ /\ WriteResult(link[c], "client") = "SIGPIPE"
       /\ Gone(c, "killed")

\* The main screen: register, login with some name, quit as "none".
Register(c) ==
    /\ "register" \in Typed /\ pc[c] = "main"
    /\ Ask(c, [kind |-> "register", user |-> None]) /\ UNCHANGED mate

Login(c, u) ==
    /\ u \in Users \/ "nobody" \in Typed
    /\ pc[c] = "main"
    /\ Ask(c, [kind |-> "login", user |-> u]) /\ UNCHANGED mate

QuitMain(c) ==
    /\ "none" \in Typed /\ pc[c] = "main"
    /\ Ask(c, [kind |-> "quit", user |-> None]) /\ UNCHANGED mate

\* deal_friend_list: the list is fetched when the friend screen opens.
Enter(c) == pc[c] = "entering" /\ Ask(c, [kind |-> "list", user |-> user[c]]) /\ UNCHANGED mate

\* The friend screen: change the state, quit, or talk to a friend.
Modify(c) ==
    /\ "state" \in Typed /\ pc[c] = "friends"
    /\ Ask(c, [kind |-> "state", user |-> user[c]]) /\ UNCHANGED mate

QuitFriends(c) ==
    /\ "quit" \in Typed /\ pc[c] = "friends"
    /\ Ask(c, [kind |-> "quit", user |-> user[c]]) /\ UNCHANGED mate

OpenTalk(c, f) ==
    /\ pc[c] = "friends" /\ f \in listed[c]
    /\ mate' = [mate EXCEPT ![c] = f]
    /\ Show(c, "talk")
    /\ UNCHANGED <<server, serving, notifier, link, user, listed, req, port, starts, history>>

\* The talk screen: send a text, or go back.
Send(c) ==
    /\ "message" \in Typed /\ pc[c] = "talk"
    /\ Ask(c, [kind |-> "message", user |-> mate[c]]) /\ UNCHANGED mate

CloseTalk(c) ==
    /\ pc[c] = "talk"
    /\ mate' = [mate EXCEPT ![c] = None]
    /\ Show(c, "friends")
    /\ UNCHANGED <<server, serving, notifier, link, user, listed, req, port, starts, history>>

\* What deal_msg and its caller return: the answer; FAIL at the end of the
\* connection; and after a reset -1, which is not 0, so that the caller reads
\* an empty answer, as 0.
Result(c) == IF ReadResult(link[c], "client") = "line" THEN Head(link[c].in["client"]).result
             ELSE IF ReadResult(link[c], "client") = "end" THEN "fail"
             ELSE "ok"

\* The screen after the answer to r.
NextScreen(r, result) ==
    IF r.kind = "quit" THEN "done"
    ELSE IF r.kind = "message" THEN "talk"
    ELSE IF r.kind = "login" /\ result = "ok" THEN "entering"
    ELSE IF r.kind = "state" \/ (r.kind = "list" /\ result = "ok") THEN "friends"
    ELSE "main"

\* The answer arrives, or never will; after a quit the process ends.
Return(c) ==
    /\ pc[c] = "wait" /\ req[c].kind # "quit"
    /\ ReadResult(link[c], "client") # "block"
    /\ LET result == Result(c) IN
       /\ Show(c, NextScreen(req[c], result))
       /\ user' = [user EXCEPT ![c] = IF req[c].kind = "login" /\ result = "ok" THEN req[c].user
                                      ELSE IF req[c].kind = "list" /\ result = "fail" THEN None
                                      ELSE @]
    /\ listed' = [listed EXCEPT ![c] =
                     IF req[c].kind = "list" /\ ReadResult(link[c], "client") = "error" THEN {} ELSE @]
    /\ link' = [link EXCEPT ![c] = AfterRead(@, "client")]
    /\ req' = [req EXCEPT ![c] = None]
    /\ UNCHANGED <<server, serving, notifier, mate, port, starts, history>>

Leave(c) ==
    /\ pc[c] = "wait" /\ req[c].kind = "quit"
    /\ ReadResult(link[c], "client") # "block"
    /\ Gone(c, "done")
    /\ UNCHANGED mate

Kill(c) == Running(c) /\ Gone(c, "killed") /\ mate' = [mate EXCEPT ![c] = None]

\* The listener thread: deal_noyify reads a notice, then answers and closes.
Hearing(c) == call # None /\ call.to = c /\ Running(c)

Hear(c) ==
    /\ Hearing(c) /\ ReadResult(call.link, "client") = "line"
    /\ call' = [call EXCEPT !.link = AfterRead(@, "client"), !.stage = "heard"]
    /\ UNCHANGED <<server, serving, post, taken, round, link, pc, req, place, history>>

\* Mutant: the notice is not answered.
AcknowledgeNever(c) ==
    /\ Hearing(c) /\ call.stage = "heard" /\ call.link.end["client"] = "open"
    /\ call' = [call EXCEPT !.stage = "silent"]
    /\ UNCHANGED <<server, serving, post, taken, round, link, pc, req, place, history>>

Acknowledge(c) ==
    /\ Hearing(c) /\ call.stage = "heard" /\ call.link.end["client"] = "open"
    /\ call' = [call EXCEPT !.link = Closed(Written(@, "client", None), "client")]
    /\ UNCHANGED <<server, serving, post, taken, round, link, pc, req, place, history>>
-----------------------------------------------------------------------------
(* The server.                                                             *)

\* The process ends and with it every thread and connection.
ServerEnds(why) ==
    /\ server' = why
    /\ sessions' = <<>> /\ post' = NoPost /\ taken' = "none" /\ round' = {} /\ call' = None
    /\ link' = [c \in Clients |-> IF thread[c] = "none" THEN Aborted(link[c], "server")
                                  ELSE Closed(link[c], "server")]
    /\ thread' = [c \in Clients |-> "over"]
    /\ msg_recv' = [c \in Clients |-> None]
    /\ UNCHANGED <<pc, req, place>>

Stop == server = "up" /\ ServerEnds("stopped") /\ UNCHANGED history

\* main: a thread for each connection (also for one already closed again).
Accept(c) ==
    /\ server = "up" /\ thread[c] = "none" /\ link[c].end["server"] # "closed"
    /\ thread' = [thread EXCEPT ![c] = "read"]
    /\ UNCHANGED <<server, sessions, msg_recv, notifier, link, pc, req, place, history>>

\* Mutant: the end of the connection is not told from a line.
ReadRequestAtEnd(c) ==
    /\ thread[c] = "read" /\ ReadResult(link[c], "server") \in {"line", "end"}
    /\ msg_recv' = [msg_recv EXCEPT ![c] = IF link[c].in["server"] = <<>> THEN @
                                           ELSE Head(link[c].in["server"])]
    /\ link' = [link EXCEPT ![c] = AfterRead(@, "server")]
    /\ thread' = [thread EXCEPT ![c] = "exec"]
    /\ UNCHANGED <<server, sessions, notifier, pc, req, place, history>>

\* Mutant: the line is not taken from the connection.
ReadRequestAgain(c) ==
    /\ thread[c] = "read" /\ ReadResult(link[c], "server") = "line"
    /\ msg_recv' = [msg_recv EXCEPT ![c] = Head(link[c].in["server"])]
    /\ thread' = [thread EXCEPT ![c] = "exec"]
    /\ UNCHANGED <<server, sessions, notifier, link, pc, req, place, history>>

\* deal_msg of server.cpp: a line is read into msg_recv and executed.  At the
\* end of the connection Readline returns 0 for ever and the thread spins.
ReadRequest(c) ==
    /\ thread[c] = "read" /\ ReadResult(link[c], "server") = "line"
    /\ msg_recv' = [msg_recv EXCEPT ![c] = Head(link[c].in["server"])]
    /\ link' = [link EXCEPT ![c] = AfterRead(@, "server")]
    /\ thread' = [thread EXCEPT ![c] = "exec"]
    /\ UNCHANGED <<server, sessions, notifier, pc, req, place, history>>

\* After a reset Readline returns -1, which is not 0, and msg_recv still holds
\* the line before, whose answer the client left unread: it is executed once
\* more.
ReadStale(c) ==
    /\ thread[c] = "read" /\ ReadResult(link[c], "server") = "error"
    /\ link' = [link EXCEPT ![c] = AfterRead(@, "server")]
    /\ thread' = [thread EXCEPT ![c] = "exec"]
    /\ UNCHANGED <<server, sessions, msg_recv, notifier, pc, req, place, history>>

Finish(c, outcome) == thread' = [thread EXCEPT ![c] = outcome]

\* register_info leaves the sessions alone, and so does the login of a name
\* without an account.
ExecuteQuery(c) ==
    /\ thread[c] = "exec"
    /\ \/ msg_recv[c].kind = "register" /\ Finish(c, "ok")
       \/ msg_recv[c].kind = "login" /\ msg_recv[c].user = None /\ Finish(c, "fail")
    /\ UNCHANGED <<server, sessions, msg_recv, notifier, link, pc, req, place, history>>

\* get_friend_list: the friends of the user id in the first session of the
\* name.  Without a session the id is never assigned, and anyone's or no one's.
ListsOf(u) == IF First(u) # {} THEN {Friends[u]}
              ELSE {Friends[v] : v \in Users} \cup {{}}

ExecuteList(c) ==
    /\ thread[c] = "exec" /\ msg_recv[c].kind = "list"
    /\ \E friends \in ListsOf(msg_recv[c].user) : listed' = [listed EXCEPT ![c] = friends]
    /\ Finish(c, "ok")
    /\ UNCHANGED <<server, sessions, msg_recv, notifier, link, pc, req, user, mate, port, starts, history>>

\* login: insert_login_info.
ExecuteLogin(c) ==
    /\ thread[c] = "exec" /\ msg_recv[c].kind = "login" /\ msg_recv[c].user # None
    /\ sessions' = Append(sessions, [user |-> msg_recv[c].user, port |-> port[c]])
    /\ Finish(c, "post")
    /\ UNCHANGED <<server, msg_recv, notifier, link, pc, req, place, history>>

\* deal_msg returns from client_quit without an answer, and the connection is
\* closed.
Dismiss(c) == link' = [link EXCEPT ![c] = Closed(@, "server")] /\ Finish(c, "over")

\* Mutant: the session is kept.
ExecuteQuitKeeping(c) ==
    /\ thread[c] = "exec" /\ msg_recv[c].kind = "quit"
    /\ IF msg_recv[c].user = None
       THEN Dismiss(c)
       ELSE Finish(c, "post") /\ UNCHANGED link
    /\ UNCHANGED <<server, sessions, msg_recv, notifier, pc, req, place, history>>

\* client_quit erases every session of the name; for "none" that is all.
ExecuteQuit(c) ==
    /\ thread[c] = "exec" /\ msg_recv[c].kind = "quit"
    /\ IF msg_recv[c].user = None
       THEN Dismiss(c) /\ UNCHANGED sessions
       ELSE /\ sessions' = Without(sessions, msg_recv[c].user)
            /\ Finish(c, "post") /\ UNCHANGED link
    /\ UNCHANGED <<server, msg_recv, notifier, pc, req, place, history>>

\* The type that the post of a request has.
TypeOf(r) == IF r.kind = "message" THEN "message" ELSE "state"

\* The handlers that hold state_mutex: they assign a name of the type.
Naming(t) == {c \in Clients : thread[c] = "name" /\ TypeOf(msg_recv[c]) = t}

Free == \A t \in Types : Naming(t) = {}

\* login, change_user_state, client_quit and sendmsg_to_friend, once they have
\* done the rest: state_mutex, is_send_client and notify_type.
Raise(c) ==
    /\ \/ thread[c] = "post"
       \/ thread[c] = "exec" /\ msg_recv[c].kind \in Types
    /\ Free
    /\ post' = [post EXCEPT !.flag = TRUE, !.type = TypeOf(msg_recv[c])]
    /\ Finish(c, "name")
    /\ UNCHANGED <<server, sessions, msg_recv, taken, round, call, link, pc, req, place, history>>

\* Mutant: client_quit returns with state_mutex locked.
NameLocked(c) ==
    /\ thread[c] = "name"
    /\ post' = [post EXCEPT !.name[TypeOf(msg_recv[c])] = msg_recv[c].user]
    /\ IF msg_recv[c].kind = "quit"
       THEN link' = [link EXCEPT ![c] = Closed(@, "server")] /\ UNCHANGED thread
       ELSE Finish(c, "ok") /\ UNCHANGED link
    /\ UNCHANGED <<server, sessions, msg_recv, taken, round, call, pc, req, place, history>>

\* The name; then state_cond and state_mutex.  change_user_state returns what
\* its UPDATE did.
Name(c) ==
    /\ thread[c] = "name"
    /\ post' = [post EXCEPT !.name[TypeOf(msg_recv[c])] = msg_recv[c].user]
    /\ \/ msg_recv[c].kind = "quit" /\ Dismiss(c)
       \/ msg_recv[c].kind # "quit" /\ Finish(c, "ok") /\ UNCHANGED link
       \/ msg_recv[c].kind = "state" /\ Finish(c, "fail") /\ UNCHANGED link
    /\ UNCHANGED <<server, sessions, msg_recv, taken, round, call, pc, req, place, history>>

\* The answer is written.  A connection reset before is shut by now: SIGPIPE.
Answer(c) ==
    /\ thread[c] \in Results
    /\ \/ /\ WriteResult(link[c], "server") # "SIGPIPE"
          /\ link' = [link EXCEPT ![c] = Written(@, "server",
                         [kind |-> msg_recv[c].kind, result |-> thread[c]])]
          /\ Finish(c, "read")
          /\ UNCHANGED <<server, sessions, msg_recv, notifier, pc, req, place, history>>
       \/ /\ WriteResult(link[c], "server") = "SIGPIPE"
          /\ ServerEnds("pipe") /\ UNCHANGED history

Serve(c) == \/ Accept(c) \/ ReadRequest(c) \/ ReadStale(c) \/ ExecuteQuery(c)
            \/ ExecuteList(c) \/ ExecuteLogin(c) \/ ExecuteQuit(c)
            \/ Raise(c) \/ Name(c) \/ Answer(c)

\* notify_client takes the post: it waits for is_send_client with state_mutex.
Take ==
    /\ taken = "none" /\ round = {} /\ call = None
    /\ post.flag /\ Free
    /\ post' = [post EXCEPT !.flag = FALSE]
    /\ taken' = "post"
    /\ UNCHANGED <<server, serving, round, call, link, pc, req, place, history>>

\* The switch on notify_type, which is read without state_mutex.
ReadType ==
    /\ taken = "post"
    /\ taken' = post.type
    /\ UNCHANGED <<server, serving, post, round, call, link, pc, req, place, history>>

\* What a read of the name of type t returns, also without state_mutex: while
\* it is assigned the old name, the new one, or one that is nobody's.
NameReads(t) == {post.name[t]} \cup {msg_recv[c].user : c \in Naming(t)}
                   \cup {None : c \in Naming(t)}

\* Mutant: friends who are not logged in are called as well.
TargetsOffline(t, u) ==
    IF t = "message" THEN {IF First(u) # {} THEN First(u) ELSE {Nowhere}}
    ELSE {UNION {IF First(f) # {} THEN First(f) ELSE {Nowhere} :
                 f \in friends} :
          friends \in IF u = None THEN {Friends[v] : v \in Users} \cup {{}} ELSE {Friends[u]}}

\* A message goes to its addressee's session, and without one to an address
\* that is empty; a state to the sessions of the user's friends.  The id of a
\* name that is nobody's is never assigned, and anyone's or no one's.
Targets(t, u) ==
    IF t = "message" THEN {IF First(u) # {} THEN First(u) ELSE {Nowhere}}
    ELSE {UNION {First(f) : f \in friends} :
          friends \in IF u = None THEN {Friends[v] : v \in Users} \cup {{}} ELSE {Friends[u]}}

LookUp ==
    /\ taken \in Types
    /\ \E u \in NameReads(taken) :
          /\ round' \in Targets(taken, u)
          /\ astray' = \/ astray
                       \/ /\ Nowhere \in round'
                          /\ Naming("message") # {} \/ (u # None /\ First(u) = {})
    /\ taken' = "none"
    /\ UNCHANGED <<server, serving, post, call, link, pc, req, place, ended, leaked>>

\* Mutant: the port of the session is not used.
CalleesAny(t) == {c \in Clients : Running(c) /\ t.port # None}

\* The process that listens where t's session says.
Callees(t) == IF t.port = None THEN {} ELSE Holder(t.port)

\* deal_notify: a refused Connect is only logged, and the writen on the
\* unconnected socket raises SIGPIPE.
Dial(t) ==
    /\ call = None /\ t \in round
    /\ \/ /\ Callees(t) = {}
          /\ ServerEnds("refused")
       \/ /\ \E c \in Callees(t) :
                call' = [user |-> t.user, to |-> c, stage |-> "write", link |-> Connected]
          /\ round' = round \ {t}
          /\ UNCHANGED <<server, serving, post, taken, link, pc, req, place>>
    /\ UNCHANGED history

\* writen; if it fails, deal_notify returns without Close.
SendNotice ==
    /\ call # None /\ call.stage = "write"
    /\ IF WriteResult(call.link, "server") = "sent"
       THEN /\ call' = [call EXCEPT !.stage = "read", !.link = Written(@, "server", None)]
            /\ UNCHANGED leaked
       ELSE /\ call' = None
            /\ leaked' = leaked + 1
    /\ UNCHANGED <<server, serving, post, taken, round, link, pc, req, place, ended, astray>>

\* Mutant: the socket is never closed.
ReadReplyOpen ==
    /\ call # None /\ call.stage # "write"
    /\ ReadResult(call.link, "server") # "block"
    /\ call' = None
    /\ leaked' = leaked + 1
    /\ UNCHANGED <<server, serving, post, taken, round, link, pc, req, place, ended, astray>>

\* Readline without a time limit; if it returns 0 there is no Close either.
ReadReply ==
    /\ call # None /\ call.stage # "write"
    /\ ReadResult(call.link, "server") # "block"
    /\ call' = None
    /\ leaked' = IF ReadResult(call.link, "server") = "end" THEN leaked + 1 ELSE leaked
    /\ UNCHANGED <<server, serving, post, taken, round, link, pc, req, place, ended, astray>>

Notify == Take \/ ReadType \/ LookUp \/ SendNotice \/ ReadReply \/ \E t \in round : Dial(t)
-----------------------------------------------------------------------------
Command(c) == \/ Start(c) \/ Register(c) \/ QuitMain(c) \/ Modify(c) \/ QuitFriends(c)
              \/ Send(c) \/ CloseTalk(c)
              \/ \E u \in Users \cup {None} : Login(c, u)
              \/ \E f \in Users : OpenTalk(c, f)

Listen(c) == Hear(c) \/ Acknowledge(c)

Next == \/ \E c \in Clients : \/ Command(c) \/ Enter(c) \/ Return(c) \/ Leave(c)
                              \/ Listen(c) \/ Serve(c) \/ Kill(c)
        \/ Notify
        \/ Stop

Spec == Init /\ [][Next]_vars

\* Threads that can run do run, and one that waits for state_mutex gets it some
\* time: a handler may find it taken again and again, hence the strong fairness
\* of Serve.  Nobody has to type, to kill or to stop.
FairSpec ==
    /\ Spec
    /\ \A c \in Clients : /\ WF_vars(Enter(c) \/ Return(c) \/ Leave(c))
                          /\ WF_vars(Listen(c)) /\ SF_vars(Serve(c))
    /\ WF_vars(Notify)
-----------------------------------------------------------------------------
\* A handler that executes a request.
Working == {"exec", "post", "name"} \cup Results

TypeOK ==
    /\ server \in {"up", "stopped", "refused", "pipe"}
    /\ sessions \in Seq(Session)
    /\ post \in Post /\ taken \in {"none", "post"} \cup Types
    /\ round \in SUBSET Target
    /\ \/ call = None
       \/ call \in [user : Users, to : Clients, stage : {"write", "read", "heard"},
                    link : Links({None})]
    /\ thread \in [Clients -> {"none", "read", "over"} \cup Working]
    /\ msg_recv \in [Clients -> Requests \cup {None}]
    /\ \A c \in Clients : thread[c] \in Working => msg_recv[c] \in Requests
    /\ link \in [Clients -> Links(Requests \cup Answers)]
    /\ pc \in [Clients -> Screens \cup {"off"}]
    /\ user \in [Clients -> Users \cup {None}]
    /\ mate \in [Clients -> Users \cup {None}]
    /\ listed \in [Clients -> SUBSET Users]
    /\ req \in [Clients -> Requests \cup {None}]
    /\ port \in [Clients -> Ports \cup {None}]
    /\ starts \in Nat /\ ended \in SUBSET {"done", "killed"}
    /\ astray \in BOOLEAN /\ leaked \in Nat

\* A request of c is in one place: on its way, being served, or answered.
InFlight(c) == Len(link[c].in["server"]) + Len(link[c].in["client"])
                  + (IF thread[c] \in Working THEN 1 ELSE 0)

\* Request and answer alternate on a connection (deal_msg of both programs):
\* while a client waits there is exactly one request or answer of its
\* connection under way, the one it waits for, and none otherwise.
Lockstep ==
    \A c \in Clients : server = "up" /\ Running(c) =>
        /\ thread[c] # "over" => InFlight(c) = IF pc[c] = "wait" THEN 1 ELSE 0
        /\ \A i \in DOMAIN link[c].in["server"] : link[c].in["server"][i] = req[c]
        /\ \A i \in DOMAIN link[c].in["client"] : link[c].in["client"][i].kind = req[c].kind
        /\ thread[c] \in Working => msg_recv[c] = req[c]
        /\ thread[c] = "over" => pc[c] = "wait" /\ req[c].kind = "quit"

\* The server process is ended only by SIGPIPE in writen.  The notifier's
\* (notify_client.cpp) needs a client that has gone, by quit or killed, a
\* message to a friend who is not logged in, or a message looked up between two
\* assignments of sendmsg_to_friend; a handler's (server.cpp), a client that
\* was killed.
DeathCauses ==
    /\ server = "refused" => ended # {} \/ astray
    /\ server = "pipe" => "killed" \in ended

LoggingIn(c, u) == pc[c] = "wait" /\ req[c] = [kind |-> "login", user |-> u]

\* As long as clients leave by quit, g_vecTableLogin has no session but those
\* of processes that run, one of each at most, under the name they log in with.
SessionsOwned ==
    server = "up" /\ "killed" \notin ended =>
        /\ \A i \in DOMAIN sessions : \E c \in Holder(sessions[i].port) :
              user[c] = sessions[i].user \/ LoggingIn(c, sessions[i].user)
        /\ \A i, j \in DOMAIN sessions : sessions[i].port = sessions[j].port => i = j

\* The notifier's calls (deal_notify) reach the process of the user they are
\* for.  Only after some process has ended may another process listen at the
\* address of its session.
RightReader ==
    call # None /\ ended = {} =>
        user[call.to] = call.user \/ LoggingIn(call.to, call.user)

\* deal_notify returns without Close when the client it calls has gone: each
\* process can cost the server one socket, and only by ending.
LeakBound == leaked + Cardinality({c \in Clients : Running(c)}) <= starts

\* A client that has sent a request gets an answer or the end of the
\* connection; its command thread does not wait for ever.
Answered == \A c \in Clients : pc[c] = "wait" ~> pc[c] # "wait"

\* The notifier, which waits for every client without a time limit
\* (notify_client.cpp), is back at the condition variable after each round.
RoundsEnd == taken # "none" \/ round # {} \/ call # None ~>
                taken = "none" /\ round = {} /\ call = None
=============================================================================
