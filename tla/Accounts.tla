------------------------------ MODULE Accounts ------------------------------
(***************************************************************************)
(* Accounts, friendships and sessions as the requests of the clients see   *)
(* them through the messages: which account a login finds, whose list an   *)
(* answer holds, who is told of a state, and where a text goes.  A request *)
(* is one step here, from what the user types to what is shown, with the   *)
(* notices it causes; what may come between is in TalkService,             *)
(* NotifyChannel and FriendWindow.                                         *)
(*                                                                         *)
(* tbl_User.id of an account that was registered since the server started, *)
(* and tbl_login.id of every session, are never assigned: any number.      *)
(***************************************************************************)
EXTENDS Messages

CONSTANTS Clients,     \* client processes
          Port,        \* [Clients -> Numbers], all different
          Ip,          \* the text of their address
          Stored,      \* table user_info, a sequence
          FriendRows,  \* table friend_info, a sequence of pairs of ids
          Typed,       \* texts typed for a name, at a login
          Chosen,      \* and when registering,
          Passwds,     \* for a password,
          Texts,       \* and to a friend,
          StateWords,  \* words typed for a state,
          Profile,     \* texts typed for sex, birth and hometown
          Garbage,     \* numbers an uninitialised int may hold
          None,
          MaxUsers,    \* bounds: accounts
          MaxLogins    \* and sessions

Ids == {Stored[i].id : i \in DOMAIN Stored}

ASSUME Ports  == /\ Port \in [Clients -> Numbers]
                 /\ \A c, d \in Clients : Port[c] = Port[d] => c = d
ASSUME Keys   == \A i, j \in DOMAIN Stored : Stored[i].id = Stored[j].id => i = j
ASSUME Rows   == FriendRows \in Seq([user_id : Ids, friend_id : Ids])
ASSUME Stray  == Garbage \subseteq Numbers /\ None \notin Typed
ASSUME Typing == /\ Typed \cup Chosen \cup Passwds \cup Texts \subseteq Text
                 /\ Profile \in [sex : Text, birth : Text, hometown : Text]
                 /\ None \notin [id : Numbers, text : Texts]
ASSUME Dotted == Ip \in Text /\ Find(Ip, Semicolon) = 0
ASSUME Bounds == MaxUsers \in Nat /\ MaxLogins \in Nat

VARIABLES users,    \* g_vecTableUSer
          logins,   \* g_vecTableLogin
          me,       \* client: the name it is logged in with
          f_lists,  \* client: its friends; None before the answer has come
          heard,    \* client: what its listener heard because of the last request
          posted,   \* history: the last request's text and the number typed for it
          guessed,  \* history: clients whose list was looked up without a session
          odd       \* history: what was typed that is not taken as it was meant
vars == <<users, logins, me, f_lists, heard, posted, guessed, odd>>

\* tbl_User and tbl_login, as far as anything depends on them.
User  == [id : Numbers, user_name : Text, passwd : Text, sex : Text, birth : Text, hometown : Text]
Login == [id : Numbers, user_id : Numbers, user_name : Text, port : Numbers, state : Numbers]

ASSUME Table == Stored \in Seq(User)

\* The first element a scan finds (a set of one element, or empty).
FirstOf(s, Test(_)) == {s[i] : i \in {i \in DOMAIN s :
                           Test(s[i]) /\ \A j \in 1 .. i - 1 : ~Test(s[j])}}
\* The elements of s that are in T, in their order.
Only(s, T) ==
    LET upTo[k \in 0 .. Len(s)] ==
            IF k = 0 THEN <<>> ELSE IF s[k] \in T THEN Append(upTo[k - 1], s[k]) ELSE upTo[k - 1]
    IN  upTo[Len(s)]

SessionOf(name) == FirstOf(logins, LAMBDA l : l.user_name = name)
-----------------------------------------------------------------------------
Init == /\ users = Stored /\ logins = <<>>
        /\ me = [c \in Clients |-> None]
        /\ f_lists = [c \in Clients |-> None]
        /\ heard = [c \in Clients |-> None] /\ posted = None
        /\ guessed = {} /\ odd = {}

\* What the server reads of a request.
Received(request) == get_msgtpye(request).strMsgData

\* get_userid_by_username runs off its end if there is no such name.
get_userid_by_username(name) ==
    IF \E i \in DOMAIN users : users[i].user_name = name
    THEN {u.id : u \in FirstOf(users, LAMBDA u : u.user_name = name)}
    ELSE Garbage

get_friendids_by_userid(user_id) ==
    LET rows == Only(FriendRows, [user_id : {user_id}, friend_id : Ids])
    IN  [k \in DOMAIN rows |-> rows[k].friend_id]

get_friendinfo_by_userid(userids) ==
    LET found == Only(userids, {users[i].id : i \in DOMAIN users})
    IN  [k \in DOMAIN found |-> CHOOSE u \in FirstOf(users, LAMBDA v : v.id = found[k]) : TRUE]

\* Mutant: the session's own number is compared.
get_logininfos_by_id(sessions, userids) ==
    UNION {FirstOf(sessions, LAMBDA l : l.id = userids[k]) : k \in DOMAIN userids}

\* The sessions of the friends, for a notice ...
get_logininfos_by_userid(sessions, userids) ==
    UNION {FirstOf(sessions, LAMBDA l : l.user_id = userids[k]) : k \in DOMAIN userids}

\* ... and for the list, where the session's own number is compared: the state
\* of a friend for whom none is found is OFFLINE.
get_friendstates_by_userid(userids) ==
    UNION {FirstOf(logins, LAMBDA l : l.id = userids[k]) : k \in DOMAIN userids}

StateShown(id, found) == IF \E l \in found : l.id = id
                         THEN (CHOOSE l \in found : l.id = id).state
                         ELSE OFFLINE

\* What the listener of client c makes of a notice.
Hears(c, sessions) == \E l \in sessions : l.port = Port[c]
Told(notice) == friend_online_state_deserialize(get_notify_type(notice).strNotifyData)

Silent == heard' = [c \in Clients |-> None] /\ posted' = None

\* The state of name is posted when the vector is sessions.
Notify(name, state, sessions) ==
    \E id \in get_userid_by_username(name) :
        LET friends == get_logininfos_by_userid(sessions, get_friendids_by_userid(id)) IN
        /\ heard' = [c \in Clients |-> IF Hears(c, friends) THEN Told(deal_state_notify(name, state))
                                       ELSE None]
        /\ posted' = None
-----------------------------------------------------------------------------
\* print_register and register_info, which always succeeds.
Register(c, name, passwd) ==
    /\ me[c] = None /\ Len(users) < MaxUsers
    /\ LET form == [user_name |-> name, passwd |-> passwd, sex |-> Profile.sex,
                    birth |-> Profile.birth, hometown |-> Profile.hometown]
           read == analysis_register_msgdata(Received(register_serialize(form)))
       IN  \E n \in Garbage :
              users' = Append(users, [id |-> n, user_name |-> read.user_name, passwd |-> read.passwd,
                                      sex |-> read.sex, birth |-> read.birth,
                                      hometown |-> read.hometown])
    /\ Silent
    /\ UNCHANGED <<logins, me, f_lists, guessed, odd>>

\* is_login_success and login.  Without an account nothing changes.
LogIn(c, name, passwd) ==
    /\ me[c] = None /\ Len(logins) < MaxLogins
    /\ LET form == [user_name |-> name, passwd |-> passwd, ip |-> Ip, port |-> Port[c]]
           read == analysis_login_msgdata(Received(login_serialize(form)))
           account == FirstOf(users, LAMBDA u : u.user_name = read.user_name
                                                /\ u.passwd = read.passwd)
       IN  \E u \in account, n \in Garbage :
              /\ logins' = Append(logins, [id |-> n, user_id |-> u.id, user_name |-> read.user_name,
                                           port |-> read.port, state |-> ONLINE])
              /\ Notify(read.user_name, ONLINE, logins')
    /\ me' = [me EXCEPT ![c] = name]
    /\ odd' = odd \cup {o \in {"name"} : Find(name, Semicolon) # 0 \/ Find(passwd, Semicolon) # 0}
    /\ UNCHANGED <<users, f_lists, guessed>>

\* The answer to the request for the friends, by the session of the name: if
\* there is none, the number in t_login was never assigned.
get_friend_list(c) ==
    /\ me[c] # None /\ f_lists[c] = None
    /\ LET name == Received(friend_list_serialize(me[c])) IN
       /\ \E id \in IF SessionOf(name) = {} THEN Garbage ELSE {l.user_id : l \in SessionOf(name)} :
             LET ids   == get_friendids_by_userid(id)
                 found == get_friendstates_by_userid(ids)
                 infos == get_friendinfo_by_userid(ids)
                 rows  == [k \in DOMAIN infos |->
                              [id |-> infos[k].id, user_name |-> infos[k].user_name,
                               state |-> StateShown(infos[k].id, found)]]
             IN  f_lists' = [f_lists EXCEPT ![c] = friend_list_deserialize(serialize_string(rows))]
       /\ guessed' = IF SessionOf(name) = {} THEN guessed \cup {c} ELSE guessed
    /\ Silent
    /\ UNCHANGED <<users, logins, me, odd>>

\* Mutant: the second key "ONLINE" takes the place of the first.
MeaningLast(word) ==
    IF word = "ONLINE" THEN {STEALTH}
    ELSE IF word = "OFFLINE" THEN {OFFLINE}
    ELSE IF word = "LEAVE" THEN {LEAVE}
    ELSE IF word = "BUSY" THEN {BUSY}
    ELSE IF word = "NOT_DISTURB" THEN {NOT_DISTURB} \cup Garbage
    ELSE Garbage

\* deal_user_state: STEALTH has the key of ONLINE, which insert leaves alone;
\* "NOT_DISTURB" overruns t_cmd and c_key; any other word leaves u_state
\* unassigned.
Meaning(word) ==
    IF word = "ONLINE" THEN {ONLINE}
    ELSE IF word = "OFFLINE" THEN {OFFLINE}
    ELSE IF word = "LEAVE" THEN {LEAVE}
    ELSE IF word = "BUSY" THEN {BUSY}
    ELSE IF word = "NOT_DISTURB" THEN {NOT_DISTURB} \cup Garbage
    ELSE Garbage

Known == {"ONLINE", "OFFLINE", "LEAVE", "BUSY"}

\* friend_lists_modify, and update_login_state on the first session.
Modify(c, word) ==
    /\ f_lists[c] # None
    /\ \E state \in Meaning(word) :
          LET read == deserialize_user_state(Received(serialize_user_state(me[c], state)))
              own  == SessionOf(read.user_name)
          IN  /\ logins' = [i \in DOMAIN logins |->
                               IF logins[i] \in own /\ \A j \in 1 .. i - 1 : logins[j] \notin own
                               THEN [logins[i] EXCEPT !.state = read.state] ELSE logins[i]]
              /\ Notify(read.user_name, read.state, logins')
    /\ odd' = odd \cup {o \in {"word"} : word \notin Known}
    /\ UNCHANGED <<users, me, f_lists, guessed>>

\* A number is a command only if no digit is 0, and opens the talk window of
\* the first friend with it (is_user_exist).
Figured(n) == n # 0 /\ \A d \in {1, 10, 100} : n >= d => (n \div d) % 10 # 0

is_user_exist(list, n) == {f.user_name : f \in FirstOf(list, LAMBDA f : f.id = n)}

\* get_send_msg, sendmsg_to_friend, and the notice to the friend's first
\* session.
Send(c, n, text) ==
    /\ f_lists[c] # None /\ Figured(n)
    /\ \E name \in is_user_exist(f_lists[c], n) :
          LET read   == deserialize_user_msg(Received(sendmsg_serialize(text, name)))
              notice == deal_send_msg(read.user_msg)
          IN  heard' = [d \in Clients |-> IF Hears(d, SessionOf(read.user_name))
                                          THEN get_notify_type(notice).strNotifyData
                                          ELSE None]
    /\ posted' = [id |-> n, text |-> text]
    /\ UNCHANGED <<users, logins, me, f_lists, guessed, odd>>

\* friend_lists_quit and client_quit; the next process at this port begins anew.
Quit(c) ==
    /\ f_lists[c] # None
    /\ LET name == Received(serialize_quit(me[c])) IN
       /\ logins' = Only(logins, {l \in Login : l.user_name # name})
       /\ Notify(name, OFFLINE, logins')
    /\ me' = [me EXCEPT ![c] = None]
    /\ f_lists' = [f_lists EXCEPT ![c] = None]
    /\ guessed' = guessed \ {c}
    /\ UNCHANGED <<users, odd>>

Next == \E c \in Clients :
           \/ \E name \in Chosen, passwd \in Passwds : Register(c, name, passwd)
           \/ \E name \in Typed, passwd \in Passwds : LogIn(c, name, passwd)
           \/ get_friend_list(c)
           \/ \E word \in StateWords : Modify(c, word)
           \/ \E n \in Numbers, text \in Texts : Send(c, n, text)
           \/ Quit(c)

Spec == Init /\ [][Next]_vars

\* A client that has logged in asks for its friends without waiting for the user.
FairSpec == Spec /\ \A c \in Clients : WF_vars(get_friend_list(c))
-----------------------------------------------------------------------------
Row == [id : Numbers, user_name : Text, state : Numbers]

\* The types; and a session is in a state that a user can choose
\* (deal_user_state, update_login_state) unless an unknown word was typed, or a
\* name whose end is then read as the state.
TypeOK ==
    /\ users \in Seq(User) /\ logins \in Seq(Login)
    /\ me \in [Clients -> Typed \cup {None}]
    /\ f_lists \in [Clients -> {None} \cup Seq(Row)]
    /\ \A c \in Clients : f_lists[c] # None => me[c] # None
    /\ \A c \in Clients : heard[c] = None \/ IF posted = None THEN heard[c] \in [user_name : Text, state : Numbers]
                                            ELSE heard[c] \in Text
    /\ posted = None \/ posted \in [id : Numbers, text : Texts]
    /\ guessed \in SUBSET Clients /\ odd \in SUBSET {"word", "name"}
    /\ odd = {} => \A i \in DOMAIN logins : logins[i].state \in {ONLINE, OFFLINE, LEAVE, BUSY}
-----------------------------------------------------------------------------
\* Names and numbers single out accounts, as they do in user_info.
Distinct(accounts) == \A i, j \in DOMAIN accounts :
    (accounts[i].id = accounts[j].id \/ accounts[i].user_name = accounts[j].user_name) => i = j

\* The account of user_info whose name c is logged in with, if there is one.
Accounted(c) == \E i \in DOMAIN Stored : Stored[i].user_name = me[c]
Own(c)       == Stored[CHOOSE i \in DOMAIN Stored : Stored[i].user_name = me[c]]

\* The names in user_info hold no separators: they are put into the messages as
\* they are.
PlainNames == \A i \in DOMAIN Stored :
    Find(Stored[i].user_name, Semicolon) = 0 /\ Find(Stored[i].user_name, Comma) = 0

Friendly(u, v) == \E k \in DOMAIN FriendRows : FriendRows[k] = [user_id |-> u.id, friend_id |-> v.id]
Symmetric == \A k \in DOMAIN FriendRows : \E l \in DOMAIN FriendRows :
    FriendRows[l] = [user_id |-> FriendRows[k].friend_id, friend_id |-> FriendRows[k].user_id]

Shown(c) == IF f_lists[c] = None THEN {} ELSE {f_lists[c][k] : k \in DOMAIN f_lists[c]}

\* The list a client shows (deal_friend_list) has the friends of its account,
\* each once, under its own number and name: through the login's lookup, the
\* answer and its parsing.  That takes distinct accounts, plain names and a
\* session at the time of the lookup.
ListRight == Distinct(users) /\ PlainNames => \A c \in Clients \ guessed :
    f_lists[c] # None /\ Accounted(c) =>
        /\ Len(f_lists[c]) = Cardinality({k \in DOMAIN FriendRows :
                                FriendRows[k].user_id = Own(c).id})
        /\ {[id |-> r.id, user_name |-> r.user_name] : r \in Shown(c)}
             = {[id |-> v.id, user_name |-> v.user_name] :
                   v \in {Stored[i] : i \in {i \in DOMAIN Stored : Friendly(Own(c), Stored[i])}}}

\* The state that the server has for a name.
StateOf(name, sessions) == {l.state : l \in FirstOf(sessions, LAMBDA l : l.user_name = name)}

\* Notices and lists are looked up in different ways (get_logininfos_by_userid
\* from the number of a name, get_friend_list from the session of a name), but
\* agree: when the state of another user changes, every client that shows that
\* user, and that has the first session of its name, is told the new state.
NoticesReachLists ==
    [][\A c \in Clients \ guessed : \A r \in Shown(c) :
          /\ Symmetric /\ Distinct(users') /\ PlainNames
          /\ Accounted(c) /\ r.user_name # me[c] /\ f_lists'[c] # None
          /\ \E l \in SessionOf(me[c]) : l.port = Port[c]
          /\ StateOf(r.user_name, logins') # StateOf(r.user_name, logins)
          => heard'[c] = [user_name |-> r.user_name,
                         state |-> IF StateOf(r.user_name, logins') = {} THEN OFFLINE
                                   ELSE CHOOSE s \in StateOf(r.user_name, logins') : TRUE]]_vars

\* A text, whatever separators it holds, is heard unchanged, and only by a
\* client logged in as the very friend whose number was typed (get_send_msg,
\* sendmsg_to_friend, deal_noyify): number, name, session and port agree.  A
\* name typed with a separator is cut short by the server and not by the
\* client, whose quit then leaves its session behind; one in a password moves the
\* port.
TextsArrive == Distinct(users) /\ PlainNames /\ "name" \notin odd => \A c \in Clients :
    posted # None /\ heard[c] # None /\ Accounted(c) =>
        posted = [id |-> Own(c).id, text |-> heard[c]]

\* The comment at serialize_msg.cpp:34 gives "1,James,on;2,Bob,on;" as an
\* answer, and the one at server.cpp:553 says that the friends' information is
\* looked up by their numbers: a friend who is logged in is listed with the
\* state of the session.
ListShowsPresence ==
    [][\A c \in Clients :
          f_lists[c] = None /\ f_lists'[c] # None /\ odd = {} /\ Distinct(users) =>
          \A r \in Shown(c)' : \A s \in StateOf(r.user_name, logins) : r.state = s]_vars
=============================================================================
