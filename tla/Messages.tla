------------------------------ MODULE Messages ------------------------------
(***************************************************************************)
(* The lines the programs send each other, as they are put together and    *)
(* taken apart: client/serialize_msg.cpp and client_gui.cpp, and the       *)
(* parsing functions of server/server.cpp.  A text is a sequence of words, *)
(* numbers and the separators ";" and ","; what the user types may hold    *)
(* separators as well.  The newline at the end of a line is left out:      *)
(* every sender adds one and every receiver cuts one off.                  *)
(***************************************************************************)
EXTENDS Naturals, Sequences, FiniteSets

CONSTANTS Words, Numbers, Semicolon, Comma

Tokens == Words \cup Numbers \cup {Semicolon, Comma}
Text   == Seq(Tokens)

ASSUME Separators == Semicolon # Comma /\ {Semicolon, Comma} \cap (Words \cup Numbers) = {}
ASSUME Figures    == /\ Numbers \subseteq Nat
                     /\ (0 .. 5) \cup (1000 .. 1005) \cup {5000, 5001} \subseteq Numbers

\* MSG_ID_EVERYONETALK_* and NOTIFY_ID_EVERYONETALK_* of common.h.
REGISTER            == 1000
LOGIN               == 1001
FRIEND_LIST         == 1002
CHANGE_USER_STATE   == 1003
SEND_MSG            == 1004
QUIT                == 1005
FRIEND_ONLINE_STATE == 5000
MESSAGE_INFORMATION == 5001

\* enum user_state
ONLINE == 0
OFFLINE == 1
LEAVE == 2
BUSY == 3
NOT_DISTURB == 4
STEALTH == 5

\* string::find of a character, 0 for npos.
Find(t, x) == IF \E i \in DOMAIN t : t[i] = x
              THEN CHOOSE i \in DOMAIN t : t[i] = x /\ \A j \in 1 .. i - 1 : t[j] # x
              ELSE 0

\* substr(0, pos) and substr(pos + 1) of that position: the whole string, both
\* times, when it is npos.
Before(t, x) == IF Find(t, x) = 0 THEN t ELSE SubSeq(t, 1, Find(t, x) - 1)
After(t, x)  == SubSeq(t, Find(t, x) + 1, Len(t))

\* Mutant: whatever the text begins with.
atoiAny(t) == IF t # <<>> THEN Head(t) ELSE 0

\* A number at the front of a string, else 0.
atoi(t) == IF t # <<>> /\ Head(t) \in Numbers THEN Head(t) ELSE 0

Then(s, t) == s \o <<Semicolon>> \o t
-----------------------------------------------------------------------------
(* Requests, from a client (serialize_msg.cpp) to the server.              *)

register_serialize(f) ==
    Then(<<REGISTER>>, Then(f.user_name, Then(f.passwd, Then(f.sex, Then(f.birth, f.hometown)))))

login_serialize(l) ==
    Then(<<LOGIN>>, Then(l.user_name, Then(l.passwd, Then(l.ip, <<l.port>>))))

friend_list_serialize(name) == Then(<<FRIEND_LIST>>, name)

serialize_user_state(name, state) == Then(<<CHANGE_USER_STATE>>, Then(name, <<state>>))

serialize_quit(name) == Then(<<QUIT>>, name)

sendmsg_serialize(msg, name) == Then(<<SEND_MSG>>, Then(name, msg))

get_msgtpye(t) == [msg_type |-> atoi(Before(t, Semicolon)), strMsgData |-> After(t, Semicolon)]

analysis_register_msgdata(t) ==
    LET t2 == After(t, Semicolon)
        t3 == After(t2, Semicolon)
        t4 == After(t3, Semicolon)
    IN  [user_name |-> Before(t, Semicolon), passwd |-> Before(t2, Semicolon),
         sex |-> Before(t3, Semicolon), birth |-> Before(t4, Semicolon),
         hometown |-> Before(t4, Semicolon)]

analysis_login_msgdata(t) ==
    LET t2 == After(t, Semicolon)
        t3 == After(t2, Semicolon)
    IN  [user_name |-> Before(t, Semicolon), passwd |-> Before(t2, Semicolon),
         ip |-> Before(t3, Semicolon), port |-> atoi(After(t3, Semicolon))]

deserialize_user_state(t) ==
    [user_name |-> Before(t, Semicolon), state |-> atoi(After(t, Semicolon))]

deserialize_user_msg(t) ==
    [user_name |-> Before(t, Semicolon), user_msg |-> After(t, Semicolon)]
-----------------------------------------------------------------------------
(* Notices, from the server to a client's listener.                        *)

deal_state_notify(name, state) == Then(<<FRIEND_ONLINE_STATE>>, Then(name, <<state>>))

deal_send_msg(msg) == Then(<<MESSAGE_INFORMATION>>, msg)

\* Mutant: the data end at the next separator.
get_notify_typeCut(t) ==
    [notify_type |-> atoi(Before(t, Semicolon)),
     strNotifyData |-> Before(After(t, Semicolon), Semicolon)]

get_notify_type(t) ==
    [notify_type |-> atoi(Before(t, Semicolon)), strNotifyData |-> After(t, Semicolon)]

friend_online_state_deserialize(t) ==
    [user_name |-> Before(t, Semicolon), state |-> atoi(After(t, Semicolon))]
-----------------------------------------------------------------------------
(* The answer with the friends of a user: "1,James,0;2,Bob,0;".            *)

serialize_string(rows) ==
    LET entry(r) == <<r.id, Comma>> \o r.user_name \o <<Comma, r.state, Semicolon>>
        upTo[k \in 0 .. Len(rows)] == IF k = 0 THEN <<>> ELSE upTo[k - 1] \o entry(rows[k])
    IN  upTo[Len(rows)]

\* Where the entries end, in order.
Ends(t) == {i \in DOMAIN t : t[i] = Semicolon}
EndOf(t, k) == IF k = 0 THEN 0
               ELSE CHOOSE i \in Ends(t) : Cardinality({j \in Ends(t) : j <= i}) = k

\* Mutant: the number is not cut off before the name is read.
friend_list_deserializeUncut(t) ==
    [k \in 1 .. Cardinality(Ends(t)) |->
        LET entry == SubSeq(t, EndOf(t, k - 1) + 1, EndOf(t, k) - 1)
            rest  == After(entry, Comma)
        IN  [id |-> atoi(Before(entry, Comma)), user_name |-> Before(entry, Comma),
             state |-> atoi(After(rest, Comma))]]

friend_list_deserialize(t) ==
    [k \in 1 .. Cardinality(Ends(t)) |->
        LET entry == SubSeq(t, EndOf(t, k - 1) + 1, EndOf(t, k) - 1)
            rest  == After(entry, Comma)
        IN  [id |-> atoi(Before(entry, Comma)), user_name |-> Before(rest, Comma),
             state |-> atoi(After(rest, Comma))]]
=============================================================================
