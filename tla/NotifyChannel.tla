---------------------------- MODULE NotifyChannel ----------------------------
(***************************************************************************)
(* The notification hand-off of the server (server/server.cpp): handler    *)
(* threads, one per client connection, post a notification into one global *)
(* slot (ctrl_sc, us_change, s_msg) under state_mutex and signal           *)
(* state_cond; one notifier thread waits for the flag, clears it, unlocks  *)
(* and only then reads the slot, field by field, while it connects to the  *)
(* clients it has to tell.                                                 *)
(*                                                                         *)
(* Every access to the slot that is not protected by the mutex is a step   *)
(* of its own.  std::string is not atomic: a read that overlaps the        *)
(* assignment of the same string may also yield a value of Torn.           *)
(*                                                                         *)
(* Friends[u] stands for the result of the table lookups: the users whose  *)
(* clients are told of a change of u.  The tables are module Sessions.     *)
(***************************************************************************)
CONSTANTS Handlers,    \* handler threads (thread_main)
          Users,       \* user names
          States,      \* enum user_state
          Texts,       \* texts of chat messages
          Friends,     \* [Users -> SUBSET Users]
          Notifier,    \* the notifier thread (thread_notify)
          NoOne,       \* owner of a free mutex
          NoPost,      \* nothing posted yet
          Empty,       \* a string or enum never assigned
          Garbled,     \* outcome of a racy read of a string
          Torn         \* {Garbled}, or {} when strings are read whole

\* notify_type: 0, 5000 and 5001 (common.h)
NOTHING      == "nothing"
ONLINE_STATE == "online_state"
MESSAGE      == "message"
Kinds == {ONLINE_STATE, MESSAGE}

StatePosts == [kind : {ONLINE_STATE}, user : Users, body : States]
TextPosts  == [kind : {MESSAGE}, user : Users, body : Texts]
Posts == StatePosts \cup TextPosts

ASSUME Friending == Friends \in [Users -> SUBSET Users]
ASSUME Threads   == Notifier \notin Handlers /\ NoOne \notin Handlers \cup {Notifier}
ASSUME Marks     == NoPost \notin Posts /\ Empty \notin Users
ASSUME Tearing   == Torn \subseteq {Garbled}

VARIABLES is_send_client,   \* ctrl_sc.is_send_client
          notify_type,      \* ctrl_sc.notify_type
          payload,          \* us_change (ONLINE_STATE) and s_msg (MESSAGE)
          state_mutex,      \* owner of the mutex
          hpc, req,         \* per handler: next step, and what it is posting
          npc,              \* next step of the notifier
          kind, todo,       \* notifier: the switch taken, clients left to tell
          to, arg, unread,  \* notifier: arguments of the call being evaluated
          last, sent        \* history: last complete post, those of its notices sent since

slot     == <<is_send_client, notify_type, payload, state_mutex>>
handler  == <<hpc, req>>
notifier == <<npc, kind, todo, to, arg, unread>>
history  == <<last, sent>>
vars == <<slot, handler, notifier, history>>

Cell == [user : Users \cup {Empty, Garbled}, body : States \cup Texts \cup {Empty, Garbled}]
Notice == [to : Users, kind : Kinds, user : Users \cup {Empty, Garbled},
           body : States \cup Texts \cup {Empty, Garbled}]

Blank == [user |-> Empty, body |-> Empty]

\* Whom the tables name: the friends of u, or u itself, the addressee of a text.
Audience(k, u) == IF k = ONLINE_STATE THEN Friends[u] ELSE {u}

\* The notices a post calls for, one per client to tell.
Notices(p) ==
    IF p = NoPost THEN {}
    ELSE {[to |-> r, kind |-> p.kind, user |-> p.user, body |-> p.body] :
             r \in Audience(p.kind, p.user)}
-----------------------------------------------------------------------------
Init ==
    /\ is_send_client = FALSE
    /\ notify_type = NOTHING
    /\ payload = [k \in Kinds |-> Blank]
    /\ state_mutex = NoOne
    /\ hpc = [h \in Handlers |-> "idle"]
    /\ req = [h \in Handlers |-> NoPost]
    /\ npc = "lock" /\ kind = NOTHING /\ todo = {} /\ unread = {}
    /\ to = NoOne /\ arg = Blank
    /\ last = NoPost /\ sent = {}
-----------------------------------------------------------------------------
(* Handlers: the tail of login, change_user_state, client_quit (a state    *)
(* post) and sendmsg_to_friend (a text post).                              *)

Goto(h, label) == hpc' = [hpc EXCEPT ![h] = label]

\* A request has been parsed and the tables updated: the handler will post p.
Request(h, p) ==
    /\ hpc[h] = "idle"
    /\ req' = [req EXCEPT ![h] = p]
    /\ Goto(h, "lock")
    /\ UNCHANGED <<slot, notifier, history>>

\* Mutant: the slot is written without taking the mutex.
RaiseUnlocked(h) ==
    /\ hpc[h] = "lock"
    /\ state_mutex' = h
    /\ is_send_client' = TRUE
    /\ Goto(h, "type")
    /\ UNCHANGED <<notify_type, payload, req, notifier, history>>

\* Pthread_mutex_lock, then the flag (nobody looks at the flag without the mutex).
Raise(h) ==
    /\ hpc[h] = "lock"
    /\ state_mutex = NoOne
    /\ state_mutex' = h
    /\ is_send_client' = TRUE
    /\ Goto(h, "type")
    /\ UNCHANGED <<notify_type, payload, req, notifier, history>>

WriteType(h) ==
    /\ hpc[h] = "type"
    /\ notify_type' = req[h].kind
    /\ Goto(h, "user")
    /\ UNCHANGED <<is_send_client, payload, state_mutex, req, notifier, history>>

WriteUser(h) ==
    /\ hpc[h] = "user"
    /\ payload' = [payload EXCEPT ![req[h].kind].user = req[h].user]
    /\ Goto(h, "body")
    /\ UNCHANGED <<is_send_client, notify_type, state_mutex, req, notifier, history>>

\* The last field: from here on the post is complete.
WriteBody(h) ==
    /\ hpc[h] = "body"
    /\ payload' = [payload EXCEPT ![req[h].kind].body = req[h].body]
    /\ Goto(h, "signal")
    /\ last' = req[h] /\ sent' = {}
    /\ UNCHANGED <<is_send_client, notify_type, state_mutex, req, notifier>>

\* Mutant: Pthread_cond_signal is forgotten.
UnlockUnsignalled(h) ==
    /\ hpc[h] = "signal"
    /\ state_mutex' = NoOne
    /\ Goto(h, "idle")
    /\ req' = [req EXCEPT ![h] = NoPost]
    /\ UNCHANGED <<is_send_client, notify_type, payload, notifier, history>>

\* Mutant: the handler returns without Pthread_mutex_unlock.
SignalLocked(h) ==
    /\ hpc[h] = "signal"
    /\ npc' = IF npc = "wait" THEN "lock" ELSE npc
    /\ Goto(h, "idle")
    /\ req' = [req EXCEPT ![h] = NoPost]
    /\ UNCHANGED <<slot, kind, todo, to, arg, unread, history>>

\* Pthread_cond_signal and Pthread_mutex_unlock; the reply to the client follows.
SignalUnlock(h) ==
    /\ hpc[h] = "signal"
    /\ npc' = IF npc = "wait" THEN "lock" ELSE npc
    /\ state_mutex' = NoOne
    /\ Goto(h, "idle")
    /\ req' = [req EXCEPT ![h] = NoPost]
    /\ UNCHANGED <<is_send_client, notify_type, payload, kind, todo, to, arg, unread, history>>

\* A SIGPIPE in any thread has ended the process, all its threads with it.
Ended == npc = "ended"

Handle(h) ==
    /\ ~Ended
    /\ Raise(h) \/ WriteType(h) \/ WriteUser(h) \/ WriteBody(h) \/ SignalUnlock(h)
-----------------------------------------------------------------------------
(* The notifier: notify_client.                                            *)

\* Pthread_mutex_lock, or the lock taken again inside Pthread_cond_wait.
Acquire ==
    /\ npc = "lock"
    /\ state_mutex = NoOne
    /\ state_mutex' = Notifier
    /\ npc' = "test"
    /\ UNCHANGED <<is_send_client, notify_type, payload, handler,
                   kind, todo, to, arg, unread, history>>

\* while (!is_send_client) Pthread_cond_wait: park and release the mutex.
Park ==
    /\ npc = "test"
    /\ ~is_send_client
    /\ npc' = "wait"
    /\ state_mutex' = NoOne
    /\ UNCHANGED <<is_send_client, notify_type, payload, handler,
                   kind, todo, to, arg, unread, history>>

\* POSIX lets Pthread_cond_wait return without a signal.
SpuriousWakeup ==
    /\ npc = "wait"
    /\ npc' = "lock"
    /\ UNCHANGED <<slot, handler, kind, todo, to, arg, unread, history>>

\* The flag is cleared and the mutex released; the slot has not been read yet.
Take ==
    /\ npc = "test"
    /\ is_send_client
    /\ is_send_client' = FALSE
    /\ state_mutex' = NoOne
    /\ npc' = "type"
    /\ UNCHANGED <<notify_type, payload, handler, kind, todo, to, arg, unread, history>>

\* Mutant: the switch has no case for messages.
ReadStateTypeOnly ==
    /\ npc = "type"
    /\ kind' = notify_type
    /\ npc' = IF notify_type = ONLINE_STATE THEN "lookup" ELSE "lock"
    /\ UNCHANGED <<slot, handler, todo, to, arg, unread, history>>

\* switch (ctrl_sc.notify_type), without the mutex.
ReadType ==
    /\ npc = "type"
    /\ kind' = notify_type
    /\ npc' = IF notify_type \in Kinds THEN "lookup" ELSE "lock"
    /\ UNCHANGED <<slot, handler, todo, to, arg, unread, history>>

\* What reading a string gives while some handler may be assigning it.
Racing(k, field) == \E h \in Handlers : hpc[h] = field /\ req[h].kind = k

UserReads(k) == {payload[k].user} \cup {g \in Torn : Racing(k, "user")}
BodyReads(k) == {payload[k].body} \cup {g \in Torn : k = MESSAGE /\ Racing(k, "body")}

\* Mutant: the addressee of a text is taken from the slot, known or not.
AudiencesUnchecked(k, u) ==
    IF k = MESSAGE THEN {{u}}
    ELSE IF u \in Users THEN {Friends[u]} ELSE {{}} \cup {Friends[v] : v \in Users}

\* Who the tables say must be told.  A name that nobody has makes
\* get_userid_by_username return an indeterminate id, and get_friend_info
\* leave the address as it was, Empty: deal_send_msg is called with it.
Audiences(k, u) ==
    IF u \in Users THEN {Audience(k, u)}
    ELSE IF k = MESSAGE THEN {{Empty}}
    ELSE {{}} \cup {Friends[v] : v \in Users}

\* The name is read and looked up.
Lookup ==
    /\ npc = "lookup"
    /\ \E u \in UserReads(kind) : \E audience \in Audiences(kind, u) :
          /\ todo' = audience
          /\ npc' = IF audience = {} THEN "lock" ELSE "next"
          /\ kind' = IF audience = {} THEN NOTHING ELSE kind
    /\ UNCHANGED <<slot, handler, to, arg, unread, history>>

\* The next client of the list.  A state notice reads both fields of
\* us_change again for each client; a text notice reads s_msg.send_msg once.
NextClient ==
    /\ npc = "next"
    /\ \E r \in todo :
          /\ to' = r
          /\ arg' = [user |-> r, body |-> Empty]
    /\ unread' = IF kind = ONLINE_STATE THEN {"user", "body"} ELSE {"body"}
    /\ npc' = "args"
    /\ UNCHANGED <<slot, handler, kind, todo, history>>

\* The arguments of deal_state_notify are evaluated in no specified order.
ReadUser ==
    /\ npc = "args"
    /\ "user" \in unread
    /\ \E u \in UserReads(kind) : arg' = [arg EXCEPT !.user = u]
    /\ unread' = unread \ {"user"}
    /\ UNCHANGED <<slot, handler, npc, kind, todo, to, history>>

ReadBody ==
    /\ npc = "args"
    /\ "body" \in unread
    /\ \E b \in BodyReads(kind) : arg' = [arg EXCEPT !.body = b]
    /\ unread' = unread \ {"body"}
    /\ UNCHANGED <<slot, handler, npc, kind, todo, to, history>>

\* The notice that the evaluated arguments make.
Outgoing == [to |-> to, kind |-> kind, user |-> arg.user, body |-> arg.body]

\* deal_notify: connect to the client and write the notice.
SendNotice ==
    /\ npc = "args"
    /\ unread = {}
    /\ to \in Users
    /\ sent' = sent \cup ({Outgoing} \cap Notices(last))
    /\ npc' = "reply"
    /\ UNCHANGED <<slot, handler, kind, todo, to, arg, unread, last>>

\* deal_notify with the Empty address: connect fails, which nobody looks at,
\* and the write to a socket that is not connected raises SIGPIPE.
SendToNobody ==
    /\ npc = "args"
    /\ unread = {}
    /\ to = Empty
    /\ npc' = "ended"
    /\ UNCHANGED <<slot, handler, kind, todo, to, arg, unread, history>>

\* Mutant: the flag is cleared when the round is over, not when it begins.
AnsweredClearing ==
    /\ npc = "reply"
    /\ todo' = todo \ {to}
    /\ npc' = IF todo' = {} THEN "lock" ELSE "next"
    /\ kind' = IF todo' = {} THEN NOTHING ELSE kind
    /\ to' = NoOne /\ arg' = Blank
    /\ is_send_client' = (is_send_client /\ todo' # {})
    /\ UNCHANGED <<notify_type, payload, state_mutex, handler, unread, history>>

\* deal_notify: the client's answer (or the end of its connection) is read.
Answered ==
    /\ npc = "reply"
    /\ todo' = todo \ {to}
    /\ npc' = IF todo' = {} THEN "lock" ELSE "next"
    /\ kind' = IF todo' = {} THEN NOTHING ELSE kind
    /\ to' = NoOne /\ arg' = Blank
    /\ UNCHANGED <<slot, handler, unread, history>>

Notify == \/ Acquire \/ Park \/ Take \/ ReadType \/ Lookup
          \/ NextClient \/ ReadUser \/ ReadBody
          \/ SendNotice \/ SendToNobody \/ Answered
-----------------------------------------------------------------------------
NewRequest == ~Ended /\ \E h \in Handlers : \E p \in Posts : Request(h, p)

Next == \/ NewRequest
        \/ \E h \in Handlers : Handle(h)
        \/ Notify
        \/ SpuriousWakeup

Spec == Init /\ [][Next]_vars

\* Every thread that can run eventually runs, and a client that is told
\* something answers.  Clients need not make requests; nobody is owed a
\* spurious wakeup.
FairSpec ==
    /\ Spec
    /\ \A h \in Handlers : WF_vars(Handle(h))
    /\ WF_vars(Notify)
-----------------------------------------------------------------------------
TypeOK ==
    /\ is_send_client \in BOOLEAN
    /\ notify_type \in Kinds \cup {NOTHING}
    /\ payload \in [Kinds -> Cell]
    /\ state_mutex \in Handlers \cup {Notifier, NoOne}
    /\ hpc \in [Handlers -> {"idle", "lock", "type", "user", "body", "signal"}]
    /\ req \in [Handlers -> Posts \cup {NoPost}]
    /\ \A h \in Handlers : hpc[h] # "idle" => req[h] \in Posts
    /\ npc \in {"lock", "test", "wait", "type", "lookup", "next", "args", "reply", "ended"}
    /\ kind \in Kinds \cup {NOTHING}
    /\ npc \in {"lookup", "next", "args", "reply"} => kind \in Kinds
    /\ todo \in SUBSET (Users \cup {Empty})
    /\ to \in Users \cup {NoOne, Empty}
    /\ npc \in {"args", "reply"} => to \in todo
    /\ arg \in Cell
    /\ unread \in SUBSET {"user", "body"}
    /\ last \in Posts \cup {NoPost}
    /\ sent \in SUBSET Notice
-----------------------------------------------------------------------------
\* No wakeup is lost: while the notifier is parked in Pthread_cond_wait and
\* the flag is up, the handler that raised it still holds the mutex and so
\* has its Pthread_cond_signal ahead of it.
NoLostWakeup == npc = "wait" /\ is_send_client => state_mutex \in Handlers

\* Latest wins: whatever posts overtook and tore each other, once the
\* notifier is parked with nothing pending, every client that the last
\* complete post concerns has been sent exactly that post.
LatestDelivered == npc = "wait" /\ ~is_send_client => Notices(last) \subseteq sent

\* A notice about to be written, evaluated by the calls in notify_client.
Evaluated == npc = "args" /\ unread = {}

\* A round that no newer post disturbs is exact: although the slot is read
\* after the unlock, nothing but notices of the last post is written.  In
\* particular only a newer post can make the server write to nobody, and end.
UndisturbedExact == Evaluated /\ ~is_send_client => Outgoing \in Notices(last)

\* From some time on, no client makes a request and no wakeup is spurious.
Quiet == <>[][~NewRequest /\ ~SpuriousWakeup]_vars

\* When the clients stop making requests, every handler returns to its
\* connection, and the notifier ends up parked with the last post delivered:
\* no thread is left waiting for another.  The one other way is that a text
\* was looked up before its name was there, and the write to nobody has ended
\* the server.
Settles == Quiet => <>[](\/ Ended
                         \/ /\ \A h \in Handlers : hpc[h] = "idle"
                            /\ npc = "wait" /\ ~is_send_client
                            /\ Notices(last) \subseteq sent)

\* The channel implements an outbox that forgets a post only for a newer one:
\* whatever overtakes and tears, the notifier goes to sleep owing nothing.
Out == INSTANCE Outbox WITH latest  <- last,
                            owed    <- Notices(last) \ sent,
                            resting <- npc = "wait" /\ ~is_send_client
OutboxSpec == Out!Spec

\* The comments at server.cpp:284-292: the friends of the user are looked up,
\* and the state is pushed to these friends.  So whoever is told about u is a
\* friend of u.
ToldAboutFriends == npc = "reply" /\ kind = ONLINE_STATE /\ arg.user \in Users
                      => to \in Friends[arg.user]
=============================================================================
