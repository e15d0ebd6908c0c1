-------------------------- MODULE TalkServiceProofs --------------------------
(***************************************************************************)
(* Theorems about TalkService, for any number of clients, users, ports and *)
(* processes.  The inductive invariant follows each request of a client    *)
(* from the line it writes to the answer it reads (ClientInv), and says of *)
(* each address the server keeps, in g_vecTableLogin, in a round or in a   *)
(* call, whose it is as long as no process has ended (TargetInv) or none   *)
(* was killed (OwnInv).                                                    *)
(***************************************************************************)
EXTENDS TalkService, FiniteSetTheorems, WellFoundedInduction, TLAPS

\* What module Tcp makes of a connection.
LinkOK(l) == /\ \A s \in Sides : l.end[s] \in {"eof", "reset", "shut"} => l.end[Other(s)] = "closed"
             /\ l.end["client"] = "open" <=> l.end["server"] = "open"
             /\ \A s \in Sides : l.end[s] = "closed" => l.in[s] = <<>>

CallInv == call # None => /\ LinkOK(call.link)
                          /\ call.stage # "heard" => call.link.in["server"] = <<>>

\* A server that has ended has nothing left.
DownInv == server # "up" => /\ sessions = <<>> /\ ~post.flag /\ taken = "none"
                            /\ round = {} /\ call = None
                            /\ \A c \in Clients : thread[c] = "over"

PortInv == /\ \A c \in Clients : port[c] = None =>
                 pc[c] = "off" /\ thread[c] \in {"none", "over"} /\ link[c].end["server"] = "closed"
           /\ \A c, d \in Clients : Running(c) /\ Running(d) /\ port[c] = port[d] => c = d

\* What a client that waits is waiting for.
WaitInv == \A c \in Clients : pc[c] = "wait" => req[c] \in Requests

\* The name of a message that is to be looked up is there, but while one is
\* being assigned.
SlotInv == (post.type = "message" \/ taken = "message") /\ Naming("message") = {} =>
               post.name["message"] \in Users

\* What is posted has a name.
Proper(r) == r.kind \in {"state", "message"} => r.user \in Users

\* The handler of a connection, whoever is at the other end.
HandlerInv(c) ==
    /\ thread[c] \in Working => link[c].end["server"] # "closed"
    /\ thread[c] \in Results => msg_recv[c].kind # "quit"
    /\ thread[c] = "post" => msg_recv[c].kind \in {"login", "quit"}
    /\ thread[c] \in {"post", "name"} => msg_recv[c].user \in Users
    /\ \/ thread[c] \in Working
       \/ link[c].in["client"] # <<>>
       \/ link[c].end["server"] = "reset"
       => msg_recv[c] \in Requests /\ Proper(msg_recv[c])
    /\ \A i \in DOMAIN link[c].in["server"] : /\ link[c].in["server"][i] \in Requests
                                              /\ Proper(link[c].in["server"][i])

\* The answer to r that result is.
Right(r, result) == /\ r.kind # "quit"
                    /\ result = "fail" => r.kind = "state" \/ (r.kind = "login" /\ r.user = None)
                    /\ result = "ok" /\ r.kind = "login" => r.user # None

Empty(c) == link[c].in["server"] = <<>> /\ link[c].in["client"] = <<>>

\* Where the request of a running client is.
Resting(c) == /\ pc[c] # "wait" /\ Empty(c)
              /\ thread[c] \in {"none", "read"} /\ link[c].end["server"] = "open"

Sent(c) == /\ pc[c] = "wait" /\ link[c].in["server"] = <<req[c]>> /\ link[c].in["client"] = <<>>
           /\ thread[c] \in {"none", "read"} /\ link[c].end["server"] = "open"

Served(c) == /\ pc[c] = "wait" /\ Empty(c)
             /\ thread[c] \in Working /\ link[c].end["server"] = "open"
             /\ msg_recv[c] = req[c]
             /\ thread[c] \in Results => Right(req[c], thread[c])

Replied(c) == /\ pc[c] = "wait" /\ link[c].in["server"] = <<>>
              /\ \E result \in Results : /\ link[c].in["client"] = <<[kind |-> req[c].kind, result |-> result]>>
                                         /\ Right(req[c], result)
              /\ thread[c] = "read" /\ link[c].end["server"] = "open"

Dismissed(c) == /\ pc[c] = "wait" /\ req[c].kind = "quit" /\ Empty(c)
                /\ thread[c] = "over" /\ link[c].end["server"] = "closed"

Kind(c, K) == pc[c] = "wait" /\ req[c].kind \in K

\* Whose name a running client bears.
NameInv(c) == /\ pc[c] = "wait" => Proper(req[c])
              /\ pc[c] = "main" \/ Kind(c, {"register", "login"}) => user[c] = None
              /\ pc[c] \in {"entering", "friends", "talk"} \/ Kind(c, {"list", "state", "message"})
                    => user[c] \in Users
              /\ pc[c] = "talk" \/ Kind(c, {"message"}) => mate[c] \in Users
              /\ Kind(c, {"quit"}) => req[c].user = user[c]

ClientInv(c) ==
    IF Running(c)
    THEN /\ Resting(c) \/ Sent(c) \/ Served(c) \/ Replied(c) \/ Dismissed(c)
         /\ NameInv(c)
    ELSE /\ user[c] = None
         /\ "killed" \notin ended => thread[c] \in {"none", "over"} /\ link[c].end["server"] = "closed"

\* A client whose quit has erased its sessions.
Parting(c) == \/ thread[c] = "over"
              \/ Kind(c, {"quit"}) /\ thread[c] \in {"post", "name"}

\* The client that owns a session of u.
Owns(c, u) ==
    \/ user[c] = u /\ ~Parting(c)
    \/ LoggingIn(c, u) /\ (thread[c] \in {"post", "name", "ok"} \/ (thread[c] = "read" /\ link[c].in["client"] # <<>>))

Owned(t) == \E c \in Clients : Running(c) /\ port[c] = t.port /\ Owns(c, t.user)

OwnInv == server = "up" /\ "killed" \notin ended =>
    /\ \A i \in DOMAIN sessions : Owned(sessions[i])
    /\ \A i, j \in DOMAIN sessions : sessions[i].port = sessions[j].port => i = j

\* The client whom t is to reach.
Belongs(c, u) == user[c] = u \/ LoggingIn(c, u)
Reached(t) == \E c \in Clients : Running(c) /\ port[c] = t.port /\ Belongs(c, t.user)

TargetInv ==
    /\ \A t \in round : t.port = None => astray
    /\ ended = {} => /\ \A i \in DOMAIN sessions : Reached(sessions[i])
                     /\ \A t \in round : t.port # None => Reached(t)
                     /\ call # None => Running(call.to) /\ Belongs(call.to, call.user)

\* A call that will cost a socket: the process it went to has ended.
Owed == IF call # None /\ call.link.end["server"] # "open" /\ call.link.in["server"] = <<>>
        THEN 1 ELSE 0

Up == {c \in Clients : Running(c)}

LeakInv == IsFiniteSet(Up) /\ leaked + Cardinality(Up) + Owed <= starts

IInv == /\ TypeOK
        /\ \A c \in Clients : LinkOK(link[c])
        /\ CallInv /\ DownInv /\ PortInv /\ WaitInv /\ SlotInv
        /\ server = "up" => \A c \in Clients : HandlerInv(c) /\ ClientInv(c)
        /\ OwnInv /\ TargetInv /\ LeakInv /\ DeathCauses
-----------------------------------------------------------------------------
(* Connections.                                                            *)

LEMMA SidesTwo == /\ Sides = {"client", "server"}
                  /\ Other("client") = "server" /\ Other("server") = "client"
  BY DEF Sides, Other

\* A read takes the first line, and otherwise changes no more than the end
\* that reads, from "reset" to "shut".
LEMMA Reading ==
    ASSUME NEW Lines, NEW l \in Links(Lines), LinkOK(l), NEW s \in Sides
    PROVE  /\ AfterRead(l, s) \in Links(Lines)
           /\ LinkOK(AfterRead(l, s))
           /\ AfterRead(l, s).in[Other(s)] = l.in[Other(s)]
           /\ AfterRead(l, s).end[Other(s)] = l.end[Other(s)]
           /\ l.in[s] # <<>> => AfterRead(l, s).in[s] = Tail(l.in[s]) /\ AfterRead(l, s).end = l.end
           /\ l.in[s] = <<>> => AfterRead(l, s).in = l.in
           /\ l.end[s] # "reset" => AfterRead(l, s).end = l.end
           /\ l.end[s] = "reset" => AfterRead(l, s).end[s] \in {"reset", "shut"}
<1>1. CASE l.in[s] # <<>>
  <2> DEFINE m == [l EXCEPT !.in[s] = Tail(@)]
  <2>1. AfterRead(l, s) = m
    BY <1>1 DEF AfterRead
  <2>2. Tail(l.in[s]) \in Seq(Lines)
    BY <1>1 DEF Links
  <2>3. m \in Links(Lines) /\ m.end = l.end /\ m.in = [l.in EXCEPT ![s] = Tail(l.in[s])]
    BY <2>2 DEF Links
  <2> HIDE DEF m
  <2>4. l.end[s] # "closed"
    BY <1>1 DEF LinkOK
  <2>5. m.in[s] = Tail(l.in[s]) /\ m.in[Other(s)] = l.in[Other(s)]
    BY <2>3, SidesTwo DEF Links
  <2> QED BY <1>1, <2>1, <2>3, <2>4, <2>5, SidesTwo DEF LinkOK, Links, Ends
<1>2. CASE l.in[s] = <<>> /\ l.end[s] = "reset"
  <2> DEFINE m == [l EXCEPT !.end[s] = "shut"]
  <2>1. AfterRead(l, s) = m
    BY <1>2 DEF AfterRead
  <2>2. m \in Links(Lines) /\ m.in = l.in /\ m.end = [l.end EXCEPT ![s] = "shut"]
    BY DEF Links, Ends
  <2> HIDE DEF m
  <2>3. m.end[s] = "shut" /\ m.end[Other(s)] = l.end[Other(s)]
    BY <2>2, SidesTwo DEF Links
  <2> QED BY <1>2, <2>1, <2>2, <2>3, SidesTwo DEF LinkOK, Links, Ends
<1>3. CASE l.in[s] = <<>> /\ l.end[s] # "reset"
  BY <1>3 DEF AfterRead
<1> QED BY <1>1, <1>2, <1>3

\* A line written arrives at an end that is open, and is lost otherwise.
LEMMA Writing ==
    ASSUME NEW Lines, NEW l \in Links(Lines), LinkOK(l), NEW s \in Sides, NEW line \in Lines,
           l.end[s] # "closed"
    PROVE  /\ Written(l, s, line) \in Links(Lines)
           /\ LinkOK(Written(l, s, line))
           /\ Written(l, s, line).in[s] = l.in[s]
           /\ Written(l, s, line).end[Other(s)] = l.end[Other(s)]
           /\ l.end[s] = "open" => /\ Written(l, s, line).in[Other(s)] = Append(l.in[Other(s)], line)
                                   /\ Written(l, s, line).end = l.end
           /\ l.end[s] # "open" => /\ Written(l, s, line).in = l.in
                                   /\ Written(l, s, line).end[s] = "shut"
<1>1. CASE l.end[s] = "open"
  <2> DEFINE m == [l EXCEPT !.in[Other(s)] = Append(@, line)]
  <2>1. Written(l, s, line) = m
    BY <1>1 DEF Written
  <2>2. Append(l.in[Other(s)], line) \in Seq(Lines)
    BY SidesTwo DEF Links
  <2>3. m \in Links(Lines) /\ m.end = l.end /\ m.in = [l.in EXCEPT ![Other(s)] = Append(l.in[Other(s)], line)]
    BY <2>2, SidesTwo DEF Links
  <2> HIDE DEF m
  <2>4. l.end[Other(s)] = "open"
    BY <1>1, SidesTwo DEF LinkOK
  <2>5. m.in[s] = l.in[s] /\ m.in[Other(s)] = Append(l.in[Other(s)], line)
    BY <2>3, SidesTwo DEF Links
  <2> QED BY <1>1, <2>1, <2>3, <2>4, <2>5, SidesTwo DEF LinkOK, Links, Ends
<1>2. CASE l.end[s] # "open"
  <2> DEFINE m == [l EXCEPT !.end[s] = "shut"]
  <2>1. Written(l, s, line) = m
    BY <1>2 DEF Written
  <2>2. m \in Links(Lines) /\ m.in = l.in /\ m.end = [l.end EXCEPT ![s] = "shut"]
    BY DEF Links, Ends
  <2> HIDE DEF m
  <2>3. m.end[s] = "shut" /\ m.end[Other(s)] = l.end[Other(s)]
    BY <2>2, SidesTwo DEF Links
  <2>4. l.end[Other(s)] = "closed"
    BY <1>2, SidesTwo DEF LinkOK, Links, Ends
  <2> QED BY <1>2, <2>1, <2>2, <2>3, <2>4, SidesTwo DEF LinkOK, Links, Ends
<1> QED BY <1>1, <1>2

\* Closing one end is noticed at the other if that was open.
LEMMA Closing ==
    ASSUME NEW Lines, NEW l \in Links(Lines), LinkOK(l), NEW s \in Sides,
           NEW signal \in {"eof", "reset"}
    PROVE  /\ CloseAs(l, s, signal) \in Links(Lines)
           /\ LinkOK(CloseAs(l, s, signal))
           /\ CloseAs(l, s, signal).in[s] = <<>> /\ CloseAs(l, s, signal).end[s] = "closed"
           /\ CloseAs(l, s, signal).in[Other(s)] = l.in[Other(s)]
           /\ CloseAs(l, s, signal).end[Other(s)] =
                 IF l.end[Other(s)] = "open" THEN signal ELSE l.end[Other(s)]
<1> DEFINE m == CloseAs(l, s, signal)
<1>1. /\ m \in Links(Lines)
      /\ m.in = [l.in EXCEPT ![s] = <<>>]
      /\ m.end = [t \in Sides |-> IF t = s THEN "closed"
                                  ELSE IF l.end[t] = "open" THEN signal ELSE l.end[t]]
  BY DEF CloseAs, Links, Ends
<1> HIDE DEF m
<1>2. /\ m.in[s] = <<>> /\ m.end[s] = "closed" /\ m.in[Other(s)] = l.in[Other(s)]
      /\ m.end[Other(s)] = IF l.end[Other(s)] = "open" THEN signal ELSE l.end[Other(s)]
  BY <1>1, SidesTwo DEF Links
<1>3. LinkOK(m)
  BY <1>1, <1>2, SidesTwo DEF LinkOK, Links, Ends
<1> QED BY <1>1, <1>2, <1>3 DEF m

LEMMA ClosedLink ==
    ASSUME NEW Lines, NEW l \in Links(Lines), LinkOK(l), NEW s \in Sides
    PROVE  /\ Closed(l, s) \in Links(Lines) /\ LinkOK(Closed(l, s))
           /\ Closed(l, s).in[s] = <<>> /\ Closed(l, s).end[s] = "closed"
           /\ Closed(l, s).in[Other(s)] = l.in[Other(s)]
           /\ l.end[Other(s)] = "open" =>
                 Closed(l, s).end[Other(s)] = IF l.in[s] = <<>> THEN "eof" ELSE "reset"
           /\ l.end[Other(s)] # "open" => Closed(l, s).end[Other(s)] = l.end[Other(s)]
           /\ Aborted(l, s) \in Links(Lines) /\ LinkOK(Aborted(l, s))
           /\ Aborted(l, s).end[s] = "closed"
           /\ Aborted(l, s).in[Other(s)] = l.in[Other(s)]
<1> DEFINE signal == IF l.in[s] = <<>> THEN "eof" ELSE "reset"
<1>1. Closed(l, s) = CloseAs(l, s, signal) /\ Aborted(l, s) = CloseAs(l, s, "reset")
  BY DEF Closed, Aborted
<1>2. signal \in {"eof", "reset"} /\ (l.in[s] = <<>> => signal = "eof") /\ (l.in[s] # <<>> => signal = "reset")
  OBVIOUS
<1> HIDE DEF signal
<1> QED BY <1>1, <1>2, Closing

LEMMA NewLink == ASSUME NEW Lines
                 PROVE  /\ Connected \in Links(Lines) /\ LinkOK(Connected)
                        /\ NoLink \in Links(Lines) /\ LinkOK(NoLink)
  BY SidesTwo DEF Connected, NoLink, Links, LinkOK, Ends
-----------------------------------------------------------------------------
(* Sessions that a quit leaves.                                            *)

LEMMA SetInduction ==
    ASSUME NEW S \in SUBSET Nat, 0 \in S, \A n \in S : n + 1 \in S
    PROVE  S = Nat
<1> DEFINE T == Nat \ S
<1>1. SUFFICES ASSUME T # {} PROVE FALSE
  OBVIOUS
<1>2. PICK x \in T : \A y \in T : ~ (<<y, x>> \in OpToRel(<, Nat))
  BY <1>1, WFMin, NatLessThanWellFounded, Zenon
<1>3. x \in Nat /\ x # 0 /\ x - 1 \in Nat /\ x - 1 < x /\ (x - 1) + 1 = x
  OBVIOUS
<1>4. x - 1 \notin T
  BY <1>2, <1>3 DEF OpToRel
<1> QED BY <1>3, <1>4

\* The body of the function in Without, and that the function exists.
Scan(s, u, f, k) == IF k = 0 THEN <<>>
                    ELSE IF s[k].user = u THEN f[k - 1] ELSE Append(f[k - 1], s[k])

LEMMA ScanExists ==
    ASSUME NEW s, NEW u, NEW n \in Nat
    PROVE  \E f : f = [k \in 0 .. n |-> Scan(s, u, f, k)]
<1> DEFINE S == {m \in Nat : \E f : f = [k \in 0 .. m |-> Scan(s, u, f, k)]}
<1>1. 0 \in S
  <2> DEFINE f == [k \in {0} |-> <<>>]
  <2>1. 0 .. 0 = {0}
    OBVIOUS
  <2>2. f = [k \in 0 .. 0 |-> Scan(s, u, f, k)]
    BY <2>1 DEF Scan
  <2> QED BY <2>2
<1>2. ASSUME NEW m \in S PROVE m + 1 \in S
  <2>1. PICK f : f = [k \in 0 .. m |-> Scan(s, u, f, k)]
    OBVIOUS
  <2> DEFINE g == [k \in 0 .. m + 1 |-> IF k <= m THEN f[k] ELSE Scan(s, u, f, k)]
  <2>2. \A k \in 0 .. m + 1 : g[k] = Scan(s, u, g, k)
    <3> TAKE k \in 0 .. m + 1
    <3>1. k # 0 => k - 1 \in 0 .. m + 1 /\ k - 1 <= m /\ g[k - 1] = f[k - 1]
      OBVIOUS
    <3>2. g[k] = Scan(s, u, f, k)
      BY <2>1
    <3> QED BY <3>1, <3>2 DEF Scan
  <2>3. g = [k \in 0 .. m + 1 |-> Scan(s, u, g, k)]
    <3> HIDE DEF g
    <3>1. g = [k \in 0 .. m + 1 |-> g[k]]
      BY DEF g
    <3> QED BY <3>1, <2>2
  <2> HIDE DEF g
  <2> QED BY <2>3
<1> HIDE DEF S
<1>3. S = Nat
  BY <1>1, <1>2, SetInduction DEF S
<1> QED BY <1>3 DEF S

\* What is left are sessions of others that were there before, and if no two
\* had one port, none have.
LEMMA WithoutLeaves ==
    ASSUME NEW s \in Seq(Session), NEW u
    PROVE  /\ Without(s, u) \in Seq(Session)
           /\ \A i \in DOMAIN Without(s, u) : \E j \in DOMAIN s :
                 Without(s, u)[i] = s[j] /\ s[j].user # u
           /\ (\A i, j \in DOMAIN s : s[i].port = s[j].port => i = j) =>
                 \A i, j \in DOMAIN Without(s, u) :
                    Without(s, u)[i].port = Without(s, u)[j].port => i = j
<1> DEFINE f == CHOOSE g : g = [k \in 0 .. Len(s) |-> Scan(s, u, g, k)]
<1>1. Without(s, u) = f[Len(s)]
  BY DEF Without, Scan
<1>2. f = [k \in 0 .. Len(s) |-> Scan(s, u, f, k)]
  BY ScanExists
<1> HIDE DEF f
<1> DEFINE Apart(t) == \A i, j \in DOMAIN t : t[i].port = t[j].port => i = j
           Left(t, k) == /\ t \in Seq(Session)
                         /\ \A i \in DOMAIN t : \E j \in 1 .. k : t[i] = s[j] /\ s[j].user # u
           S == {k \in Nat : k <= Len(s) => Left(f[k], k) /\ (Apart(s) => Apart(f[k]))}
<1>3. 0 \in S
  BY <1>2 DEF Scan
<1>4. ASSUME NEW k \in S PROVE k + 1 \in S
  <2>1. SUFFICES ASSUME k + 1 <= Len(s) PROVE Left(f[k + 1], k + 1) /\ (Apart(s) => Apart(f[k + 1]))
    OBVIOUS
  <2>2. Left(f[k], k) /\ (Apart(s) => Apart(f[k]))
    BY <2>1
  <2>3. f[k + 1] = IF s[k + 1].user = u THEN f[k] ELSE Append(f[k], s[k + 1])
    <3>1. k \in Nat /\ Len(s) \in Nat /\ k + 1 \in 0 .. Len(s) /\ k + 1 # 0 /\ (k + 1) - 1 = k
      BY <2>1
    <3>2. f[k + 1] = Scan(s, u, f, k + 1)
      BY <1>2, <3>1
    <3> QED BY <3>1, <3>2 DEF Scan
  <2>4. CASE s[k + 1].user = u
    BY <2>2, <2>3, <2>4
  <2>5. CASE s[k + 1].user # u
    <3>1. s[k + 1] \in Session /\ k + 1 \in DOMAIN s /\ \A j \in 1 .. k : j \in DOMAIN s /\ j # k + 1
      BY <2>1
    <3> DEFINE t == Append(f[k], s[k + 1])
    <3>2. f[k + 1] = t
      BY <2>3, <2>5
    <3>3. f[k] \in Seq(Session) /\ t \in Seq(Session)
      BY <2>2, <3>1
    <3>4. /\ DOMAIN t = 1 .. Len(f[k]) + 1 /\ t[Len(f[k]) + 1] = s[k + 1]
          /\ \A i \in DOMAIN t : i # Len(f[k]) + 1 => i \in DOMAIN f[k] /\ t[i] = f[k][i]
      BY <3>1, <3>3
    <3> HIDE DEF t
    <3>5. \A i \in DOMAIN t : \E j \in 1 .. k + 1 : t[i] = s[j] /\ s[j].user # u
      BY <2>2, <2>5, <3>4
    <3>6. ASSUME Apart(s) PROVE Apart(t)
      <4>1. \A i \in DOMAIN f[k] : f[k][i].port # s[k + 1].port
        BY <2>2, <3>1, <3>6
      <4> QED BY <2>2, <3>4, <3>6, <4>1
    <3> QED BY <3>2, <3>3, <3>5, <3>6
  <2> QED BY <2>4, <2>5
<1>5. S = Nat
  <2> HIDE DEF S
  <2> QED BY <1>3, <1>4, SetInduction DEF S
<1>6. Len(s) \in S
  BY <1>5
<1> QED BY <1>1, <1>6
-----------------------------------------------------------------------------
(* The initial states.                                                     *)

LEMMA InitInv == Init => IInv
<1> SUFFICES ASSUME Init PROVE IInv
  OBVIOUS
<1>1. TypeOK
  <2>1. NoLink \in Links(Requests \cup Answers)
    BY NewLink
  <2>2. sessions \in Seq(Session)
    BY DEF Init
  <2>3. thread \in [Clients -> {"none", "read", "over"} \cup Working] /\ NoPost \in Post
    BY DEF Init, NoPost, Post, Types
  <2>4. \A c \in Clients : thread[c] \in Working => msg_recv[c] \in Requests
    BY DEF Init, Working, Results
  <2>5. /\ link \in [Clients -> Links(Requests \cup Answers)]
        /\ msg_recv \in [Clients -> Requests \cup {None}]
        /\ req \in [Clients -> Requests \cup {None}]
    BY <2>1 DEF Init
  <2> QED BY <2>2, <2>3, <2>4, <2>5 DEF Init, TypeOK
<1>2. \A c \in Clients : LinkOK(link[c])
  BY NewLink DEF Init
<1>3. CallInv /\ DownInv /\ DeathCauses /\ SlotInv
  BY DEF Init, CallInv, DownInv, DeathCauses, SlotInv, NoPost, Types
<1>4. \A c \in Clients : link[c].end["server"] = "closed" /\ Empty(c) /\ ~Running(c)
  BY SidesTwo DEF Init, NoLink, Empty, Running, Screens
<1>5. PortInv /\ WaitInv
  BY <1>4 DEF Init, PortInv, WaitInv
<1>6. \A c \in Clients : HandlerInv(c) /\ ClientInv(c)
  BY <1>4 DEF Init, history, HandlerInv, ClientInv, Working, Results, Empty
<1>7. OwnInv /\ TargetInv
  BY DEF Init, OwnInv, TargetInv
<1>8. LeakInv
  <2>1. Up = {}
    BY <1>4 DEF Up
  <2> QED BY <2>1, FS_EmptySet DEF Init, LeakInv, Owed
<1> QED BY <1>1, <1>2, <1>3, <1>5, <1>6, <1>7, <1>8 DEF IInv
-----------------------------------------------------------------------------
(* Steps of one client or its handler that leave sessions, rounds and      *)
(* calls alone.                                                            *)

Same(d) == /\ thread'[d] = thread[d] /\ msg_recv'[d] = msg_recv[d] /\ link'[d] = link[d]
           /\ pc'[d] = pc[d] /\ user'[d] = user[d] /\ mate'[d] = mate[d] /\ req'[d] = req[d]
           /\ port'[d] = port[d]

LEMMA Frame ==
    ASSUME NEW d \in Clients, Same(d), "killed" \in ended => "killed" \in ended'
    PROVE  /\ Running(d)' = Running(d)
           /\ \A u : Owns(d, u)' = Owns(d, u) /\ Belongs(d, u)' = Belongs(d, u)
           /\ HandlerInv(d) => HandlerInv(d)'
           /\ ClientInv(d) => ClientInv(d)'
<1>1. Running(d)' = Running(d)
  BY DEF Same, Running
<1>2. \A u : Owns(d, u)' = Owns(d, u) /\ Belongs(d, u)' = Belongs(d, u)
  BY DEF Same, Owns, Parting, Kind, Belongs, LoggingIn
<1>3. HandlerInv(d) => HandlerInv(d)'
  BY DEF Same, HandlerInv
<1>4. /\ Resting(d)' = Resting(d) /\ Sent(d)' = Sent(d) /\ Served(d)' = Served(d)
      /\ Replied(d)' = Replied(d) /\ Dismissed(d)' = Dismissed(d) /\ NameInv(d)' = NameInv(d)
  BY DEF Same, Resting, Sent, Served, Replied, Dismissed, NameInv, Kind, Empty
<1>5. ClientInv(d) => ClientInv(d)'
  BY <1>1, <1>4 DEF ClientInv, Same
<1> QED BY <1>1, <1>2, <1>3, <1>5

\* What is read of a name changes only with the post or with who assigns it.
LEMMA SlotFrame ==
    ASSUME SlotInv, post' = post, taken' = taken,
           \A d \in Clients : thread[d] = "name" =>
              thread'[d] = "name" /\ msg_recv'[d] = msg_recv[d]
    PROVE  SlotInv'
<1>1. Naming("message")' = {} => Naming("message") = {}
  BY DEF Naming
<1> QED BY <1>1 DEF SlotInv

LEMMA OneClient ==
    ASSUME IInv, NEW c \in Clients, TypeOK', SlotInv',
           \A d \in Clients \ {c} : Same(d),
           UNCHANGED <<server, sessions, taken, round, call, port, starts, ended, astray, leaked>>,
           server # "up" => post' = post /\ thread'[c] = thread[c],
           Running(c)' = Running(c), LinkOK(link'[c]), pc'[c] = "wait" => req'[c] \in Requests,
           port[c] = None => /\ thread'[c] = thread[c]
                             /\ link'[c].end["server"] = link[c].end["server"],
           server = "up" => /\ HandlerInv(c)' /\ ClientInv(c)'
                            /\ \A u \in Users : (Owns(c, u) => Owns(c, u)') /\ (Belongs(c, u) => Belongs(c, u)')
    PROVE  IInv'
<1>1. \A d \in Clients : LinkOK(link'[d])
  BY DEF Same, IInv
<1>2. CallInv' /\ DownInv' /\ DeathCauses' /\ WaitInv'
  BY DEF IInv, CallInv, DownInv, DeathCauses, WaitInv, Same
<1>3. \A d \in Clients : Running(d)' = Running(d)
  BY Frame
<1>4. PortInv'
  <2>1. ASSUME NEW d \in Clients, port[d] = None
        PROVE  pc'[d] = "off" /\ thread'[d] \in {"none", "over"} /\ link'[d].end["server"] = "closed"
    <3>1. pc[d] = "off" /\ thread[d] \in {"none", "over"} /\ link[d].end["server"] = "closed"
      BY <2>1 DEF IInv, PortInv
    <3>2. pc'[d] = "off"
      BY <1>3, <3>1 DEF Running, Screens, TypeOK
    <3> QED BY <2>1, <3>1, <3>2 DEF Same
  <2> QED BY <1>3, <2>1 DEF IInv, PortInv
<1>5. server' = "up" => \A d \in Clients : HandlerInv(d)' /\ ClientInv(d)'
  BY Frame DEF IInv
<1>6. server = "up" => \A d \in Clients, u \in Users :
         (Owns(d, u) => Owns(d, u)') /\ (Belongs(d, u) => Belongs(d, u)')
  BY Frame
<1>7. \A i \in DOMAIN sessions : sessions[i].user \in Users
  <2>1. sessions \in Seq(Session)
    BY DEF IInv, TypeOK
  <2>2. \A i \in DOMAIN sessions : sessions[i] \in Session
    BY <2>1
  <2> QED BY <2>2 DEF Session
<1>8. OwnInv'
  <2>1. server = "up" => \A t : t.user \in Users /\ Owned(t) => Owned(t)'
    BY <1>3, <1>6 DEF Owned
  <2> QED BY <1>7, <2>1 DEF IInv, OwnInv
<1>9. TargetInv'
  <2>1. \A t \in round : t.port # None => t.user \in Users
    BY DEF IInv, TypeOK, Target, Session, Nowhere
  <2>2. call # None => call.user \in Users /\ call.to \in Clients
    BY DEF IInv, TypeOK
  <2>3. server # "up" => round = {} /\ call = None /\ sessions = <<>>
    BY DEF IInv, DownInv
  <2>4. server = "up" => \A t : t.user \in Users /\ Reached(t) => Reached(t)'
    BY <1>3, <1>6 DEF Reached
  <2> QED BY <1>3, <1>6, <1>7, <2>1, <2>2, <2>3, <2>4 DEF IInv, TargetInv
<1>10. LeakInv'
  <2>1. Up' = Up
    BY <1>3 DEF Up
  <2> QED BY <2>1 DEF IInv, LeakInv, Owed
<1> QED BY <1>1, <1>2, <1>4, <1>5, <1>8, <1>9, <1>10 DEF IInv
-----------------------------------------------------------------------------
(* The command thread of a client.                                         *)

LEMMA LinkTypes ==
    ASSUME TypeOK, NEW c \in Clients
    PROVE  link[c] \in Links(Requests \cup Answers)
  BY DEF TypeOK

LEMMA SessionTypes == ASSUME TypeOK PROVE \A i \in DOMAIN sessions : sessions[i] \in Session
<1>1. sessions \in Seq(Session)
  BY DEF TypeOK
<1> QED BY <1>1

\* What the screen says of the request that is sent from it.
Fitting(c, r) == /\ Proper(r)
                 /\ r.kind \in {"register", "login"} => user[c] = None
                 /\ r.kind \in {"list", "state", "message"} => user[c] \in Users
                 /\ r.kind = "message" => mate[c] \in Users
                 /\ r.kind = "quit" => r.user = user[c]

LEMMA AskStep ==
    ASSUME IInv, NEW c \in Clients, NEW r \in Requests,
           pc[c] \in {"main", "entering", "friends", "talk"},
           server = "up" => Fitting(c, r),
           WriteResult(link[c], "client") # "SIGPIPE",
           link' = [link EXCEPT ![c] = Written(@, "client", r)],
           req' = [req EXCEPT ![c] = r],
           pc' = [pc EXCEPT ![c] = "wait"],
           UNCHANGED <<server, serving, notifier, user, mate, listed, port, starts, history>>
    PROVE  IInv'
<1>1. /\ TypeOK /\ link[c] \in Links(Requests \cup Answers) /\ LinkOK(link[c])
      /\ link[c].end["client"] # "closed" /\ Running(c)
  BY LinkTypes, SidesTwo DEF IInv, WriteResult, Running, Screens
<1>2. /\ Written(link[c], "client", r) \in Links(Requests \cup Answers)
      /\ LinkOK(Written(link[c], "client", r))
      /\ Written(link[c], "client", r).in["client"] = link[c].in["client"]
      /\ Written(link[c], "client", r).end["server"] = link[c].end["server"]
      /\ link[c].end["client"] = "open" =>
            Written(link[c], "client", r).in["server"] = Append(link[c].in["server"], r)
  BY <1>1, Writing, SidesTwo
<1> DEFINE l == Written(link[c], "client", r)
<1>3. link'[c] = l /\ pc'[c] = "wait" /\ req'[c] = r
  BY <1>1 DEF TypeOK
<1> HIDE DEF l
<1>4. TypeOK'
  <2>1. link' \in [Clients -> Links(Requests \cup Answers)]
    BY <1>1, <1>2 DEF TypeOK
  <2>2. pc' \in [Clients -> Screens \cup {"off"}] /\ req' \in [Clients -> Requests \cup {None}]
    BY <1>1 DEF TypeOK, Screens
  <2> QED BY <1>1, <2>1, <2>2 DEF TypeOK, serving, notifier, history
<1>5. \A d \in Clients \ {c} : Same(d)
  BY <1>1 DEF Same, TypeOK, serving
<1>6. Running(c)'
  BY <1>3 DEF Running, Screens
<1>7. ASSUME server = "up" PROVE Resting(c) /\ HandlerInv(c) /\ NameInv(c) /\ Fitting(c, r)
  BY <1>1, <1>7 DEF IInv, ClientInv, Sent, Served, Replied, Dismissed
<1>8. ASSUME server = "up" PROVE Sent(c)'
  <2>1. Resting(c) /\ link[c].end["client"] = "open"
    BY <1>1, <1>7, <1>8 DEF Resting, LinkOK
  <2>2. l.in["server"] = <<r>> /\ l.in["client"] = <<>> /\ l.end["server"] = "open"
    BY <1>2, <2>1 DEF Resting, Empty, l
  <2> QED BY <1>3, <2>1, <2>2 DEF Sent, Resting, serving
<1>9. ASSUME server = "up" PROVE HandlerInv(c)'
  BY <1>3, <1>7, <1>8, <1>9 DEF HandlerInv, Sent, Fitting, serving, Working, Results
<1>10. ASSUME server = "up" PROVE NameInv(c)'
  BY <1>3, <1>7, <1>10 DEF NameInv, Fitting, Kind, Requests
<1>11. ASSUME server = "up", NEW u \in Users
       PROVE  (Owns(c, u) => Owns(c, u)') /\ (Belongs(c, u) => Belongs(c, u)')
  BY <1>7, <1>11 DEF Owns, Parting, Kind, Belongs, LoggingIn, Resting, serving
<1>12. port[c] # None
  BY <1>1 DEF IInv, PortInv, Running, Screens
<1>13. SlotInv' /\ post' = post
  BY SlotFrame DEF IInv, serving, notifier
<1> QED
  BY <1>1, <1>2, <1>3, <1>4, <1>5, <1>6, <1>8, <1>9, <1>10, <1>11, <1>12, <1>13, OneClient
     DEF serving, notifier, history, ClientInv, l

LEMMA ReturnStep == ASSUME IInv, NEW c \in Clients, Return(c) PROVE IInv'
<1>1. /\ TypeOK /\ link[c] \in Links(Requests \cup Answers) /\ LinkOK(link[c])
      /\ pc[c] = "wait" /\ req[c] \in Requests /\ req[c].kind # "quit"
  BY LinkTypes DEF IInv, Return, WaitInv
<1> DEFINE l == AfterRead(link[c], "client")
<1>2. /\ l \in Links(Requests \cup Answers) /\ LinkOK(l) /\ l.end["server"] = link[c].end["server"]
      /\ l.in["server"] = link[c].in["server"]
      /\ link[c].in["client"] # <<>> => /\ l.in["client"] = Tail(link[c].in["client"])
                                        /\ l.end = link[c].end
  BY <1>1, Reading, SidesTwo
<1>3. /\ link' = [link EXCEPT ![c] = l] /\ link'[c] = l
      /\ pc'[c] = NextScreen(req[c], Result(c)) /\ req'[c] = None
      /\ pc' = [pc EXCEPT ![c] = NextScreen(req[c], Result(c))]
      /\ req' = [req EXCEPT ![c] = None]
      /\ user'[c] = IF req[c].kind = "login" /\ Result(c) = "ok" THEN req[c].user
                    ELSE IF req[c].kind = "list" /\ Result(c) = "fail" THEN None
                    ELSE user[c]
  BY <1>1 DEF TypeOK, Return, Show
<1>4. /\ server' = server /\ serving' = serving /\ notifier' = notifier /\ mate' = mate
      /\ port' = port /\ starts' = starts /\ history' = history
  BY DEF Return
<1>5. NextScreen(req[c], Result(c)) \in Screens \ {"wait"}
  BY <1>1 DEF NextScreen, Screens
<1>6. TypeOK'
  <2>1. link' \in [Clients -> Links(Requests \cup Answers)]
    BY <1>1, <1>2, <1>3 DEF TypeOK
  <2>2. pc' \in [Clients -> Screens \cup {"off"}] /\ req' \in [Clients -> Requests \cup {None}]
    BY <1>1, <1>3, <1>5 DEF TypeOK
  <2>3. user' \in [Clients -> Users \cup {None}] /\ listed' \in [Clients -> SUBSET Users]
    BY <1>1 DEF TypeOK, Return, Requests
  <2> QED BY <1>1, <1>4, <2>1, <2>2, <2>3 DEF TypeOK, serving, notifier, history
<1>7. \A d \in Clients \ {c} : Same(d)
  BY <1>1, <1>4 DEF Same, TypeOK, serving, Return, Show
<1>8. Running(c) /\ Running(c)' /\ pc'[c] # "wait"
  BY <1>1, <1>3, <1>5 DEF Running, Screens
<1>9. ASSUME server = "up"
      PROVE  HandlerInv(c)' /\ ClientInv(c)'
             /\ \A u \in Users : (Owns(c, u) => Owns(c, u)') /\ (Belongs(c, u) => Belongs(c, u)')
  <2>1. HandlerInv(c) /\ NameInv(c) /\ (Sent(c) \/ Served(c) \/ Replied(c))
    BY <1>1, <1>8, <1>9 DEF IInv, ClientInv, Resting, Dismissed
  <2>2. Replied(c)
    BY <1>1, <2>1 DEF Return, ReadResult, Sent, Served, Empty, LinkOK
  <2>3. PICK result \in Results : /\ link[c].in["client"] = <<[kind |-> req[c].kind, result |-> result]>>
                                  /\ Right(req[c], result)
    BY <2>2 DEF Replied
  <2>4. Result(c) = result
    BY <2>3 DEF Result, ReadResult
  <2>5. /\ l.in["client"] = <<>> /\ l.end = link[c].end
        /\ l.in["server"] = link[c].in["server"]
    <3>1. link[c].in["client"] # <<>> /\ Tail(link[c].in["client"]) = <<>>
      BY <2>3
    <3> QED BY <1>2, <3>1
  <2>6. HandlerInv(c)'
    BY <1>3, <1>4, <2>1, <2>5 DEF HandlerInv, serving
  <2>7. Resting(c)'
    BY <1>3, <1>4, <1>8, <2>2, <2>5 DEF Resting, Replied, Empty, serving
  <2> HIDE DEF l
  <2>8. CASE req[c].kind = "login" /\ result = "ok"
    <3>1. req[c].user \in Users /\ pc'[c] = "entering" /\ user'[c] = req[c].user /\ user[c] = None
      BY <1>1, <1>3, <2>1, <2>3, <2>4, <2>8 DEF Right, NextScreen, Requests, NameInv, Kind
    <3>2. NameInv(c)'
      BY <3>1 DEF NameInv, Kind
    <3> QED BY <1>4, <1>8, <2>2, <2>6, <2>7, <3>1, <3>2, Outside
            DEF ClientInv, Owns, Parting, Kind, Belongs, LoggingIn, Replied, serving
  <2>9. CASE ~(req[c].kind = "login" /\ result = "ok")
    <3>1. user'[c] = user[c]
      BY <1>3, <2>3, <2>4, <2>9 DEF Right
    <3>2. \A u \in Users : ~LoggingIn(c, u)
      BY <2>3, <2>9, Outside DEF LoggingIn, Right, Results
    <3>3. NameInv(c)'
      BY <1>1, <1>3, <1>4, <2>1, <2>3, <2>4, <2>9, <3>1
         DEF NameInv, Kind, Right, Requests, NextScreen, Results
    <3> QED BY <1>4, <1>8, <2>6, <2>7, <3>1, <3>2, <3>3 DEF ClientInv, Owns, Parting, Kind, Belongs, serving
  <2> QED BY <2>8, <2>9
<1>10. port[c] # None
  BY <1>8 DEF IInv, PortInv, Running, Screens
<1>11. SlotInv' /\ post' = post
  BY <1>4, SlotFrame DEF IInv, serving, notifier
<1> QED
  BY <1>2, <1>3, <1>4, <1>6, <1>7, <1>8, <1>9, <1>10, <1>11, OneClient
     DEF serving, notifier, history

LEMMA OpenTalkStep == ASSUME IInv, NEW c \in Clients, NEW f \in Users, OpenTalk(c, f) PROVE IInv'
<1>1. /\ TypeOK /\ pc[c] = "friends" /\ pc'[c] = "talk" /\ mate'[c] = f /\ LinkOK(link[c])
      /\ Running(c) /\ Running(c)'
  BY DEF IInv, OpenTalk, Show, TypeOK, Running, Screens
<1>2. TypeOK'
  BY <1>1 DEF TypeOK, OpenTalk, Show, serving, notifier, history, Screens
<1>3. \A d \in Clients \ {c} : Same(d)
  BY <1>1 DEF Same, TypeOK, OpenTalk, Show, serving
<1>4. /\ \A u \in Users : Owns(c, u)' = Owns(c, u) /\ Belongs(c, u)' = Belongs(c, u)
      /\ Resting(c) <=> Resting(c)'
  BY <1>1 DEF Owns, Parting, Kind, Belongs, LoggingIn, Resting, Empty, OpenTalk, serving
<1>5. ASSUME server = "up" PROVE HandlerInv(c)' /\ ClientInv(c)'
  <2>1. HandlerInv(c)'
    BY <1>5 DEF IInv, HandlerInv, OpenTalk, serving
  <2>2. Resting(c) /\ NameInv(c)
    BY <1>1, <1>5 DEF IInv, ClientInv, Sent, Served, Replied, Dismissed
  <2>3. NameInv(c)'
    BY <1>1, <2>2 DEF NameInv, Kind, OpenTalk
  <2> QED BY <1>1, <1>4, <2>1, <2>2, <2>3 DEF ClientInv
<1>6. SlotInv' /\ post' = post
  BY SlotFrame DEF IInv, OpenTalk, serving, notifier
<1>7. UNCHANGED <<server, sessions, thread, link, taken, round, call, port, starts, ended, astray, leaked>>
  BY DEF OpenTalk, serving, notifier, history
<1> QED BY <1>1, <1>2, <1>3, <1>4, <1>5, <1>6, <1>7, OneClient

LEMMA CloseTalkStep == ASSUME IInv, NEW c \in Clients, CloseTalk(c) PROVE IInv'
<1>1. /\ TypeOK /\ pc[c] = "talk" /\ pc'[c] = "friends" /\ LinkOK(link[c])
      /\ Running(c) /\ Running(c)'
  BY DEF IInv, CloseTalk, Show, TypeOK, Running, Screens
<1>2. TypeOK'
  BY <1>1 DEF TypeOK, CloseTalk, Show, serving, notifier, history, Screens
<1>3. \A d \in Clients \ {c} : Same(d)
  BY <1>1 DEF Same, TypeOK, CloseTalk, Show, serving
<1>4. /\ \A u \in Users : Owns(c, u)' = Owns(c, u) /\ Belongs(c, u)' = Belongs(c, u)
      /\ Resting(c) <=> Resting(c)'
  BY <1>1 DEF Owns, Parting, Kind, Belongs, LoggingIn, Resting, Empty, CloseTalk, serving
<1>5. ASSUME server = "up" PROVE HandlerInv(c)' /\ ClientInv(c)'
  <2>1. HandlerInv(c)'
    BY <1>5 DEF IInv, HandlerInv, CloseTalk, serving
  <2>2. Resting(c) /\ NameInv(c)
    BY <1>1, <1>5 DEF IInv, ClientInv, Sent, Served, Replied, Dismissed
  <2>3. NameInv(c)'
    BY <1>1, <2>2 DEF NameInv, Kind, CloseTalk
  <2> QED BY <1>1, <1>4, <2>1, <2>2, <2>3 DEF ClientInv
<1>6. SlotInv' /\ post' = post
  BY SlotFrame DEF IInv, CloseTalk, serving, notifier
<1>7. UNCHANGED <<server, sessions, thread, link, taken, round, call, port, starts, ended, astray, leaked>>
  BY DEF CloseTalk, serving, notifier, history
<1> QED BY <1>1, <1>2, <1>3, <1>4, <1>5, <1>6, <1>7, OneClient
-----------------------------------------------------------------------------
(* The handler of a client.                                                *)

\* The client that owns a session may wait for the answer to its login.
Greeted(c) == thread[c] \in {"post", "name", "ok"} \/ (thread[c] = "read" /\ link[c].in["client"] # <<>>)

Rest(d) == thread'[d] = thread[d] /\ msg_recv'[d] = msg_recv[d] /\ link'[d] = link[d]

LEMMA OneHandler ==
    ASSUME IInv, NEW c \in Clients, TypeOK',
           \A d \in Clients \ {c} : Rest(d),
           UNCHANGED <<server, sessions, taken, round, call, pc, req, user, mate, port, starts, history>>,
           (post' = post /\ thread[c] # "name") \/ SlotInv',
           thread[c] # "over", thread'[c] # "over", link[c].end["server"] # "closed",
           LinkOK(link'[c]), HandlerInv(c)',
           Running(c) => Sent(c)' \/ Served(c)' \/ Replied(c)' \/ Resting(c)',
           Kind(c, {"login"}) /\ Greeted(c) => Greeted(c)',
           Kind(c, {"quit"}) /\ thread'[c] \in {"post", "name"} => thread[c] \in {"post", "name"}
    PROVE  IInv'
<1>1. server = "up" /\ server' = "up"
  BY DEF IInv, DownInv
<1>2. \A d \in Clients \ {c} : Same(d)
  BY DEF Same, Rest
<1>3. Running(c)' = Running(c) /\ NameInv(c)' = NameInv(c)
  BY DEF Running, NameInv, Kind
<1>4. ClientInv(c)'
  <2>1. ClientInv(c)
    BY <1>1 DEF IInv
  <2> QED BY <1>3, <2>1 DEF ClientInv, history
<1>5. \A u \in Users : (Owns(c, u) => Owns(c, u)') /\ (Belongs(c, u) => Belongs(c, u)')
  BY DEF Owns, Parting, Kind, Belongs, LoggingIn, Greeted, Running, Screens
<1>6. port[c] # None
  BY DEF IInv, PortInv
<1>7. pc'[c] = "wait" => req'[c] \in Requests
  BY DEF IInv, WaitInv
<1>8. SlotInv'
  BY SlotFrame DEF IInv, Rest
<1> QED BY <1>1, <1>2, <1>3, <1>4, <1>5, <1>6, <1>7, <1>8, OneClient DEF history

LEMMA AcceptStep == ASSUME IInv, NEW c \in Clients, Accept(c) PROVE IInv'
<1>1. /\ TypeOK /\ server = "up" /\ thread[c] = "none" /\ thread'[c] = "read" /\ LinkOK(link[c])
      /\ link[c].end["server"] # "closed" /\ HandlerInv(c) /\ ClientInv(c)
  BY DEF IInv, Accept, TypeOK
<1>2. TypeOK'
  BY <1>1 DEF TypeOK, Accept, notifier, place, history, Working, Results
<1>3. \A d \in Clients \ {c} : Rest(d)
  BY <1>1 DEF Rest, TypeOK, Accept
<1>4. HandlerInv(c)'
  BY <1>1 DEF HandlerInv, Accept, Working, Results
<1>5. Running(c) => Sent(c)' \/ Resting(c)'
  BY <1>1 DEF ClientInv, Sent, Resting, Served, Replied, Dismissed, Empty, Accept, Working, Results
<1> QED BY <1>1, <1>2, <1>3, <1>4, <1>5, OneHandler DEF Accept, notifier, place, Greeted

LEMMA ReadRequestStep == ASSUME IInv, NEW c \in Clients, ReadRequest(c) PROVE IInv'
<1>1. /\ TypeOK /\ link[c] \in Links(Requests \cup Answers) /\ LinkOK(link[c])
      /\ thread[c] = "read" /\ link[c].in["server"] # <<>>
      /\ link[c].end["server"] # "closed"
  BY LinkTypes, SidesTwo DEF IInv, ReadRequest, ReadResult, LinkOK
<1>2. server = "up" /\ HandlerInv(c) /\ ClientInv(c)
  BY <1>1 DEF IInv, DownInv
<1> DEFINE l == AfterRead(link[c], "server")
           r == Head(link[c].in["server"])
<1>3. /\ l \in Links(Requests \cup Answers) /\ LinkOK(l) /\ l.in["client"] = link[c].in["client"]
      /\ l.in["server"] = Tail(link[c].in["server"]) /\ l.end = link[c].end
  BY <1>1, Reading, SidesTwo
<1>4. /\ link' = [link EXCEPT ![c] = l] /\ link'[c] = l
      /\ msg_recv' = [msg_recv EXCEPT ![c] = r] /\ msg_recv'[c] = r
      /\ thread' = [thread EXCEPT ![c] = "exec"] /\ thread'[c] = "exec"
  BY <1>1 DEF TypeOK, ReadRequest
<1>5. link[c].in["server"] \in Seq(Requests \cup Answers)
  BY <1>1, SidesTwo DEF Links
<1>6. r \in Requests /\ Proper(r)
  <2>1. 1 \in DOMAIN link[c].in["server"] /\ r = link[c].in["server"][1]
    BY <1>1, <1>5
  <2> QED BY <1>2, <2>1 DEF HandlerInv
<1> HIDE DEF l, r
<1>7. TypeOK'
  <2>1. link' \in [Clients -> Links(Requests \cup Answers)]
    BY <1>1, <1>3, <1>4 DEF TypeOK
  <2>2. /\ thread' \in [Clients -> {"none", "read", "over"} \cup Working]
        /\ msg_recv' \in [Clients -> Requests \cup {None}]
        /\ \A d \in Clients : thread'[d] \in Working => msg_recv'[d] \in Requests
    BY <1>1, <1>4, <1>6 DEF TypeOK, Working
  <2> QED BY <1>1, <2>1, <2>2 DEF TypeOK, ReadRequest, notifier, place, history
<1>8. \A d \in Clients \ {c} : Rest(d)
  BY <1>1, <1>4 DEF Rest, TypeOK
<1>9. HandlerInv(c)'
  <2>1. \A i \in DOMAIN l.in["server"] : \E j \in DOMAIN link[c].in["server"] :
           l.in["server"][i] = link[c].in["server"][j]
    <3>1. \A i \in DOMAIN Tail(link[c].in["server"]) :
             i + 1 \in DOMAIN link[c].in["server"]
             /\ Tail(link[c].in["server"])[i] = link[c].in["server"][i + 1]
      BY <1>1, <1>5
    <3> QED BY <1>3, <3>1
  <2>2. \A i \in DOMAIN l.in["server"] : l.in["server"][i] \in Requests /\ Proper(l.in["server"][i])
    BY <1>2, <2>1 DEF HandlerInv
  <2>3. thread'[c] \notin Results
    BY <1>4 DEF Results
  <2> QED BY <1>1, <1>3, <1>4, <1>6, <2>2, <2>3 DEF HandlerInv
<1>10. Running(c) => Served(c)'
  <2>1. Running(c) => Sent(c)
    BY <1>1, <1>2 DEF ClientInv, Resting, Served, Replied, Dismissed, Empty
  <2>2. Sent(c) => r = req[c] /\ l.in["server"] = <<>>
    BY <1>3 DEF Sent, r
  <2> QED BY <1>3, <1>4, <2>1, <2>2 DEF Sent, Served, Empty, ReadRequest, Working, Results
<1>11. Greeted(c) => ~Running(c)
  BY <1>1, <1>2 DEF ClientInv, Resting, Sent, Served, Replied, Dismissed, Empty, Greeted
<1>12. Kind(c, {"login"}) => ~Greeted(c)
  BY <1>11 DEF Kind, Running, Screens
<1>13. UNCHANGED <<server, sessions, notifier, pc, req, place, history>>
  BY DEF ReadRequest
<1> QED BY <1>1, <1>2, <1>3, <1>4, <1>7, <1>8, <1>9, <1>10, <1>12, <1>13, OneHandler
        DEF notifier, place

LEMMA ReadStaleStep == ASSUME IInv, NEW c \in Clients, ReadStale(c) PROVE IInv'
<1>1. /\ TypeOK /\ link[c] \in Links(Requests \cup Answers) /\ LinkOK(link[c])
      /\ thread[c] = "read" /\ link[c].in["server"] = <<>> /\ link[c].end["server"] = "reset"
  BY LinkTypes, SidesTwo DEF IInv, ReadStale, ReadResult
<1>2. server = "up" /\ HandlerInv(c) /\ ClientInv(c)
  BY <1>1 DEF IInv, DownInv
<1> DEFINE l == AfterRead(link[c], "server")
<1>3. /\ l \in Links(Requests \cup Answers) /\ LinkOK(l)
      /\ l.in = link[c].in /\ l.end["server"] \in {"reset", "shut"}
  BY <1>1, Reading, SidesTwo
<1>4. /\ link' = [link EXCEPT ![c] = l] /\ link'[c] = l
      /\ thread' = [thread EXCEPT ![c] = "exec"] /\ thread'[c] = "exec"
  BY <1>1 DEF TypeOK, ReadStale
<1>5. msg_recv[c] \in Requests /\ Proper(msg_recv[c])
  BY <1>1, <1>2 DEF HandlerInv
<1> HIDE DEF l
<1>6. TypeOK'
  <2>1. link' \in [Clients -> Links(Requests \cup Answers)]
    BY <1>1, <1>3, <1>4 DEF TypeOK
  <2>2. /\ thread' \in [Clients -> {"none", "read", "over"} \cup Working]
        /\ \A d \in Clients : thread'[d] \in Working => msg_recv[d] \in Requests
    BY <1>1, <1>4, <1>5 DEF TypeOK, Working
  <2> QED BY <1>1, <2>1, <2>2 DEF TypeOK, ReadStale, notifier, place, history
<1>7. \A d \in Clients \ {c} : Rest(d)
  BY <1>1, <1>4 DEF Rest, TypeOK, ReadStale
<1>8. HandlerInv(c)'
  BY <1>1, <1>2, <1>3, <1>4, <1>5 DEF HandlerInv, ReadStale, Results
<1>9. ~Running(c)
  BY <1>1, <1>2 DEF ClientInv, Resting, Sent, Served, Replied, Dismissed
<1>10. ~Kind(c, {"login"})
  BY <1>9 DEF Kind, Running, Screens
<1>11. UNCHANGED <<server, sessions, notifier, pc, req, place, history>>
  BY DEF ReadStale
<1> QED BY <1>1, <1>3, <1>4, <1>6, <1>7, <1>8, <1>9, <1>10, <1>11, OneHandler DEF notifier, place

\* A query leaves the client where it is, but for the outcome.
LEMMA OutcomeStep ==
    ASSUME IInv, NEW c \in Clients, NEW outcome \in Results, TypeOK',
           thread[c] = "exec", Finish(c, outcome), Right(msg_recv[c], outcome),
           UNCHANGED <<server, sessions, msg_recv, notifier, link, pc, req,
                       user, mate, port, starts, history>>
    PROVE  IInv'
<1>1. /\ TypeOK /\ LinkOK(link[c]) /\ server = "up" /\ HandlerInv(c) /\ ClientInv(c)
  BY DEF IInv, DownInv
<1>2. thread'[c] = outcome /\ msg_recv[c] \in Requests /\ Proper(msg_recv[c])
  BY <1>1 DEF TypeOK, Finish, HandlerInv, Working
<1>3. \A d \in Clients \ {c} : Rest(d)
  BY <1>1 DEF Rest, TypeOK, Finish
<1>4. HandlerInv(c)' /\ link[c].end["server"] # "closed"
  BY <1>1, <1>2 DEF HandlerInv, Working, Results, Right
<1>5. Running(c) => Served(c)'
  <2>1. Running(c) => Served(c)
    BY <1>1 DEF ClientInv, Resting, Sent, Replied, Dismissed
  <2> QED BY <1>2, <2>1 DEF Served, Empty, Working
<1>6. thread[c] \notin {"over", "name"} /\ thread'[c] \notin {"over", "post", "name"} /\ ~Greeted(c)
  BY <1>2 DEF Results, Greeted
<1> QED BY <1>1, <1>3, <1>4, <1>5, <1>6, OneHandler DEF notifier

LEMMA OutcomeTypes ==
    ASSUME TypeOK, NEW c \in Clients, thread[c] \in Working, NEW outcome \in Working, Finish(c, outcome)
    PROVE  /\ thread' \in [Clients -> {"none", "read", "over"} \cup Working]
           /\ thread'[c] = outcome
           /\ \A d \in Clients : thread'[d] \in Working => msg_recv[d] \in Requests
  BY DEF TypeOK, Finish

LEMMA ExecuteQueryStep == ASSUME IInv, NEW c \in Clients, ExecuteQuery(c) PROVE IInv'
<1>1. PICK outcome \in Results : /\ Finish(c, outcome) /\ thread[c] = "exec"
                                 /\ Right(msg_recv[c], outcome)
  BY DEF ExecuteQuery, Results, Right
<1>2. UNCHANGED <<server, sessions, msg_recv, notifier, link, pc, req, place, history>>
  BY DEF ExecuteQuery
<1>3. TypeOK'
  <2>1. TypeOK /\ outcome \in Working /\ thread[c] \in Working
    BY <1>1 DEF IInv, Working
  <2> QED BY <1>1, <1>2, <2>1, OutcomeTypes DEF TypeOK, notifier, place, history
<1> QED BY <1>1, <1>2, <1>3, OutcomeStep DEF place

LEMMA ExecuteListStep == ASSUME IInv, NEW c \in Clients, ExecuteList(c) PROVE IInv'
<1>1. TypeOK /\ "ok" \in Results /\ "ok" \in Working /\ "exec" \in Working /\ thread[c] = "exec"
  BY DEF IInv, ExecuteList, Working, Results
<1>2. Finish(c, "ok") /\ Right(msg_recv[c], "ok")
  BY DEF ExecuteList, Right
<1>3. UNCHANGED <<server, sessions, msg_recv, notifier, link, pc, req, user, mate, port, starts, history>>
  BY DEF ExecuteList
<1>4. listed' \in [Clients -> SUBSET Users]
  <2>1. msg_recv[c] \in Requests
    BY <1>1 DEF TypeOK
  <2>2. PICK friends \in ListsOf(msg_recv[c].user) : listed' = [listed EXCEPT ![c] = friends]
    BY DEF ExecuteList
  <2>3. friends \in SUBSET Users
    <3>1. \A u \in Users : Friends[u] \in SUBSET Users
      BY Friending
    <3>2. First(msg_recv[c].user) # {} => msg_recv[c].user \in Users
      BY <1>1, SessionTypes DEF First, Session
    <3> QED BY <3>1, <3>2 DEF ListsOf
  <2> QED BY <1>1, <2>2, <2>3 DEF TypeOK
<1>5. TypeOK'
  BY <1>1, <1>2, <1>3, <1>4, OutcomeTypes DEF TypeOK, notifier, history
<1> QED BY <1>1, <1>2, <1>3, <1>5, OutcomeStep

LEMMA AnswerStep ==
    ASSUME IInv, NEW c \in Clients, thread[c] \in Results,
           WriteResult(link[c], "server") # "SIGPIPE",
           link' = [link EXCEPT ![c] = Written(@, "server",
                       [kind |-> msg_recv[c].kind, result |-> thread[c]])],
           Finish(c, "read"),
           UNCHANGED <<server, sessions, msg_recv, notifier, pc, req, place, history>>
    PROVE  IInv'
<1>1. /\ TypeOK /\ link[c] \in Links(Requests \cup Answers) /\ LinkOK(link[c])
      /\ server = "up" /\ HandlerInv(c) /\ ClientInv(c) /\ thread[c] \in Working
  BY LinkTypes DEF IInv, DownInv, Results, Working
<1> DEFINE a == [kind |-> msg_recv[c].kind, result |-> thread[c]]
           l == Written(link[c], "server", a)
<1>2. msg_recv[c] \in Requests /\ Proper(msg_recv[c]) /\ link[c].end["server"] # "closed"
  BY <1>1 DEF HandlerInv
<1>3. a \in Answers
  <2>1. msg_recv[c].kind # "quit"
    BY <1>1 DEF HandlerInv
  <2> QED BY <1>2, <2>1 DEF Answers, Requests
<1>4. /\ l \in Links(Requests \cup Answers) /\ LinkOK(l)
      /\ l.in["server"] = link[c].in["server"]
      /\ l.end["client"] = link[c].end["client"]
      /\ link[c].end["server"] = "open" => /\ l.in["client"] = Append(link[c].in["client"], a)
                                           /\ l.end = link[c].end
      /\ link[c].end["server"] # "open" => /\ l.in = link[c].in
                                           /\ l.end["server"] = "shut"
  BY <1>1, <1>2, <1>3, Writing, SidesTwo
<1>5. /\ link' = [link EXCEPT ![c] = l] /\ link'[c] = l
      /\ thread' = [thread EXCEPT ![c] = "read"] /\ thread'[c] = "read"
  BY <1>1 DEF TypeOK, Finish
<1> HIDE DEF l
<1>6. TypeOK'
  <2>1. link' \in [Clients -> Links(Requests \cup Answers)]
    BY <1>1, <1>4, <1>5 DEF TypeOK
  <2>2. /\ thread' \in [Clients -> {"none", "read", "over"} \cup Working]
        /\ \A d \in Clients : thread'[d] \in Working => msg_recv[d] \in Requests
    BY <1>1, <1>5 DEF TypeOK, Working, Results
  <2> QED BY <1>1, <2>1, <2>2 DEF TypeOK, notifier, place, history
<1>7. \A d \in Clients \ {c} : Rest(d)
  BY <1>1, <1>5 DEF Rest, TypeOK
<1>8. HandlerInv(c)'
  BY <1>1, <1>2, <1>4, <1>5 DEF HandlerInv, Working, Results
<1>9. Running(c) => Replied(c)' /\ Greeted(c)'
  <2>1. Running(c) => Served(c)
    BY <1>1 DEF ClientInv, Resting, Sent, Replied, Dismissed, Results
  <2>2. Served(c) => l.in["client"] = <<a>> /\ l.end["server"] = "open"
    BY <1>4 DEF Served, Empty
  <2> QED BY <1>4, <1>5, <2>1, <2>2 DEF Served, Replied, Greeted, Empty
<1>10. /\ thread[c] \notin {"over", "name"} /\ thread'[c] \notin {"over", "post", "name"}
       /\ Kind(c, {"login"}) => Greeted(c)'
  BY <1>5, <1>9 DEF Results, Kind, Running, Screens
<1> QED BY <1>1, <1>2, <1>4, <1>5, <1>6, <1>7, <1>8, <1>9, <1>10, OneHandler DEF notifier, place

\* Steps that change the sessions.
LEMMA OneSession ==
    ASSUME IInv, NEW c \in Clients, TypeOK', server = "up", port[c] # None,
           \A d \in Clients \ {c} : Rest(d),
           UNCHANGED <<server, taken, round, call, pc, req, place, history>>,
           (post' = post /\ thread[c] # "name") \/ SlotInv',
           LinkOK(link'[c]), HandlerInv(c)', ClientInv(c)', OwnInv', TargetInv'
    PROVE  IInv'
<1>1. \A d \in Clients \ {c} : Same(d)
  BY DEF Same, Rest, place
<1>2. \A d \in Clients : LinkOK(link'[d])
  BY DEF Rest, IInv
<1>3. CallInv' /\ DownInv' /\ DeathCauses' /\ WaitInv' /\ SlotInv'
  <2>1. SlotInv'
    BY SlotFrame DEF IInv, Rest
  <2> QED BY <2>1 DEF IInv, CallInv, DownInv, DeathCauses, WaitInv, history
<1>4. \A d \in Clients : Running(d)' = Running(d)
  BY DEF Running
<1>5. PortInv'
  BY <1>1, <1>4 DEF IInv, PortInv, Same, place
<1>6. \A d \in Clients : HandlerInv(d)' /\ ClientInv(d)'
  <2>1. "killed" \in ended => "killed" \in ended'
    BY DEF history
  <2> QED BY <1>1, <2>1, Frame DEF IInv
<1>7. LeakInv'
  <2>1. Up' = Up
    BY <1>4 DEF Up
  <2> QED BY <2>1 DEF IInv, LeakInv, Owed, place, history
<1> QED BY <1>2, <1>3, <1>5, <1>6, <1>7 DEF IInv

\* login adds a session that the client owns.  It owned none before: it had no
\* name yet, and no other running client has its port.
LEMMA ExecuteLoginStep == ASSUME IInv, NEW c \in Clients, ExecuteLogin(c) PROVE IInv'
<1>1. /\ TypeOK /\ LinkOK(link[c]) /\ thread[c] = "exec" /\ thread'[c] = "post" /\ server = "up"
      /\ HandlerInv(c) /\ ClientInv(c) /\ msg_recv[c].kind = "login" /\ msg_recv[c].user # None
  BY DEF IInv, DownInv, ExecuteLogin, Finish, TypeOK
<1>2. msg_recv[c] \in Requests /\ msg_recv[c].user \in Users /\ link[c].end["server"] # "closed"
  BY <1>1 DEF HandlerInv, Working, Requests
<1>3. port[c] # None
  BY <1>2 DEF IInv, PortInv
<1>4. PICK s \in Session : s = [user |-> msg_recv[c].user, port |-> port[c]]
  BY <1>1, <1>2, <1>3 DEF Session, TypeOK
<1>5. TypeOK'
  <2>1. sessions' \in Seq(Session)
    BY <1>1, <1>4 DEF TypeOK, ExecuteLogin
  <2>2. /\ thread' \in [Clients -> {"none", "read", "over"} \cup Working]
        /\ \A d \in Clients : thread'[d] \in Working => msg_recv[d] \in Requests
    BY <1>1, OutcomeTypes DEF ExecuteLogin, Working
  <2> QED BY <1>1, <2>1, <2>2 DEF TypeOK, ExecuteLogin, notifier, place, history
<1>6. \A d \in Clients \ {c} : Rest(d)
  BY <1>1 DEF Rest, TypeOK, ExecuteLogin, Finish
<1>7. UNCHANGED <<server, post, taken, round, call, link, msg_recv, pc, req, place, history>>
  BY DEF ExecuteLogin, notifier
<1>8. HandlerInv(c)'
  BY <1>1, <1>2, <1>7 DEF HandlerInv, Working, Results
<1>9. Running(c) => Served(c)
  BY <1>1 DEF ClientInv, Resting, Sent, Replied, Dismissed
<1>10. ClientInv(c)'
  <2>1. Running(c) => Served(c)'
    BY <1>1, <1>2, <1>7, <1>9 DEF Served, Empty, Working, Results, Right
  <2>2. NameInv(c)' = NameInv(c) /\ Running(c)' = Running(c)
    BY <1>7 DEF NameInv, Kind, Running, place
  <2> QED BY <1>1, <1>7, <2>1, <2>2 DEF ClientInv, history, place
<1>11. /\ \A d \in Clients, w \in Users : (Belongs(d, w) <=> Belongs(d, w)') /\ (Owns(d, w) => Owns(d, w)')
       /\ \A d \in Clients : Running(d)' = Running(d)
  <2>1. \A d \in Clients, w \in Users : Belongs(d, w)' = Belongs(d, w) /\ LoggingIn(d, w)' = LoggingIn(d, w)
    BY <1>7 DEF Belongs, LoggingIn, place
  <2>2. \A d \in Clients : Parting(d)' => Parting(d)
    <3>1. ~Kind(c, {"quit"})
      BY <1>1, <1>9 DEF Served, Kind, Running, Screens
    <3> QED BY <1>1, <1>6, <1>7, <3>1 DEF Parting, Kind, Rest
  <2>3. \A d \in Clients, w \in Users : Owns(d, w) => Owns(d, w)'
    BY <1>1, <1>6, <1>7, <2>1, <2>2 DEF Owns, Rest, place
  <2> QED BY <1>7, <2>1, <2>3 DEF Running
<1>12. Running(c) => Owns(c, s.user)' /\ Belongs(c, s.user) /\ Belongs(c, s.user)' /\ user[c] = None
  <2>1. Running(c) => LoggingIn(c, s.user) /\ NameInv(c)
    BY <1>1, <1>2, <1>4, <1>9 DEF Served, LoggingIn, Requests, ClientInv
  <2> QED BY <1>1, <1>7, <2>1 DEF Owns, Parting, Kind, Belongs, LoggingIn, NameInv
<1>13. "killed" \notin ended => Running(c)
  BY <1>1 DEF ClientInv
<1>14. /\ \A i \in DOMAIN sessions' : i \in DOMAIN sessions \/ i = Len(sessions) + 1
       /\ \A i \in DOMAIN sessions : i # Len(sessions) + 1 /\ sessions'[i] = sessions[i]
       /\ sessions'[Len(sessions) + 1] = s
       /\ s.port = port[c]
  BY <1>1, <1>4 DEF TypeOK, ExecuteLogin
<1>15. \A i \in DOMAIN sessions : sessions[i].user \in Users
  BY <1>1, SessionTypes DEF Session
<1>16. OwnInv'
  <2> SUFFICES ASSUME "killed" \notin ended
               PROVE  /\ \A i \in DOMAIN sessions' : Owned(sessions[i])'
                      /\ \A i, j \in DOMAIN sessions' : sessions'[i].port = sessions'[j].port => i = j
    BY <1>7 DEF OwnInv, history
  <2>1. Running(c) /\ user[c] = None /\ Owns(c, s.user)'
    BY <1>12, <1>13
  <2>2. OwnInv /\ \A d, e \in Clients : Running(d) /\ Running(e) /\ port[d] = port[e] => d = e
    BY DEF IInv, PortInv
  <2>3. \A i \in DOMAIN sessions : Owned(sessions[i])
    BY <1>1, <2>2 DEF OwnInv
  <2>4. \A w \in Users : ~Owns(c, w)
    BY <1>1, <2>1, Outside DEF Owns, Parting, Kind
  <2>5. \A i \in DOMAIN sessions : sessions[i].port # port[c]
    BY <1>15, <2>1, <2>2, <2>3, <2>4 DEF Owned
  <2>6. Owned(s)' /\ \A t : t.user \in Users /\ Owned(t) => Owned(t)'
    BY <1>7, <1>11, <1>14, <2>1 DEF Owned, place
  <2>7. \A i, j \in DOMAIN sessions' : sessions'[i].port = sessions'[j].port => i = j
    <3>1. \A i, j \in DOMAIN sessions : sessions[i].port = sessions[j].port => i = j
      BY <1>1, <2>2 DEF OwnInv
    <3> QED BY <1>14, <2>5, <3>1
  <2>8. ASSUME NEW i \in DOMAIN sessions' PROVE Owned(sessions[i])'
    <3>1. PICK t : t = sessions'[i]
      OBVIOUS
    <3>2. Owned(t)'
      BY <1>14, <1>15, <2>3, <2>6, <3>1
    <3> QED BY <3>1, <3>2 DEF Owned, Owns, Parting, Kind, LoggingIn, Running
  <2> QED BY <2>7, <2>8
<1>17. TargetInv'
  <2>1. \A t : t.user \in Users /\ Reached(t) => Reached(t)'
    BY <1>7, <1>11 DEF Reached, place
  <2>2. /\ \A t \in round : t.port # None => t.user \in Users
        /\ call # None => call.user \in Users /\ call.to \in Clients
    BY <1>1 DEF TypeOK, Target, Session, Nowhere
  <2>3. ended = {} => Reached(s)'
    <3>1. "killed" \notin ended => Running(c)' /\ port'[c] = s.port /\ Belongs(c, s.user)'
      BY <1>7, <1>11, <1>12, <1>13, <1>14 DEF place
    <3> QED BY <3>1 DEF Reached, Belongs, LoggingIn, Running
  <2> QED BY <1>7, <1>11, <1>14, <1>15, <2>1, <2>2, <2>3 DEF IInv, TargetInv, history
<1> QED BY <1>1, <1>3, <1>5, <1>6, <1>7, <1>8, <1>10, <1>16, <1>17, OneSession

\* client_quit erases the sessions of the name, which is the client's own, and
\* no other client's: the owner of each session that is left is another.
LEMMA ExecuteQuitStep == ASSUME IInv, NEW c \in Clients, ExecuteQuit(c) PROVE IInv'
<1>1. /\ TypeOK /\ LinkOK(link[c]) /\ thread[c] = "exec" /\ server = "up"
      /\ HandlerInv(c) /\ ClientInv(c) /\ msg_recv[c].kind = "quit"
      /\ link[c] \in Links(Requests \cup Answers)
  BY LinkTypes DEF IInv, DownInv, ExecuteQuit
<1>2. PICK u : u = msg_recv[c].user
  OBVIOUS
<1>3. link[c].end["server"] # "closed" /\ port[c] # None /\ u \in Users \cup {None}
  BY <1>1, <1>2 DEF HandlerInv, Working, IInv, PortInv, Requests
<1> DEFINE l == Closed(link[c], "server")
<1>4. /\ l \in Links(Requests \cup Answers) /\ LinkOK(l)
      /\ l.in["server"] = <<>> /\ l.end["server"] = "closed" /\ l.in["client"] = link[c].in["client"]
  BY <1>1, ClosedLink, SidesTwo
<1> HIDE DEF l
<1>5. \/ /\ u = None /\ thread' = [thread EXCEPT ![c] = "over"] /\ thread'[c] = "over"
         /\ link' = [link EXCEPT ![c] = l] /\ link'[c] = l
      \/ /\ u # None /\ thread' = [thread EXCEPT ![c] = "post"] /\ thread'[c] = "post"
         /\ link' = link
  BY <1>1, <1>2 DEF TypeOK, ExecuteQuit, Dismiss, Finish, l
<1>6. UNCHANGED <<server, post, taken, round, call, msg_recv, pc, req, place, history>>
  BY DEF ExecuteQuit, notifier
<1>7. /\ sessions' \in Seq(Session)
      /\ \A i \in DOMAIN sessions' : \E j \in DOMAIN sessions :
            sessions'[i] = sessions[j] /\ sessions[j].user # u
      /\ (\A i, j \in DOMAIN sessions : sessions[i].port = sessions[j].port => i = j) =>
            \A i, j \in DOMAIN sessions' : sessions'[i].port = sessions'[j].port => i = j
  <2>1. sessions \in Seq(Session)
    BY <1>1 DEF TypeOK
  <2>2. CASE u = None
    <3>1. sessions' = sessions
      BY <1>2, <2>2 DEF ExecuteQuit
    <3>2. \A i \in DOMAIN sessions : sessions[i].user # u
      BY <1>1, <2>2, SessionTypes, Outside DEF Session
    <3> QED BY <2>1, <3>1, <3>2
  <2>3. CASE u # None
    <3>1. sessions' = Without(sessions, u)
      BY <1>2, <2>3 DEF ExecuteQuit
    <3>2. /\ Without(sessions, u) \in Seq(Session)
          /\ \A i \in DOMAIN Without(sessions, u) : \E j \in DOMAIN sessions :
                Without(sessions, u)[i] = sessions[j] /\ sessions[j].user # u
          /\ (\A i, j \in DOMAIN sessions : sessions[i].port = sessions[j].port => i = j) =>
                \A i, j \in DOMAIN Without(sessions, u) :
                   Without(sessions, u)[i].port = Without(sessions, u)[j].port => i = j
      BY <2>1, WithoutLeaves
    <3> QED BY <3>1, <3>2, Zenon
  <2> QED BY <2>2, <2>3
<1>8. TypeOK'
  <2>1. /\ thread' \in [Clients -> {"none", "read", "over"} \cup Working]
        /\ \A d \in Clients : thread'[d] \in Working => msg_recv'[d] \in Requests
    BY <1>1, <1>5, <1>6 DEF TypeOK, Working, Results
  <2>2. link' \in [Clients -> Links(Requests \cup Answers)]
    BY <1>1, <1>4, <1>5 DEF TypeOK
  <2> QED BY <1>1, <1>6, <1>7, <2>1, <2>2 DEF TypeOK, place, history
<1>9. \A d \in Clients \ {c} : Rest(d)
  BY <1>1, <1>5, <1>6 DEF Rest, TypeOK
<1>10. HandlerInv(c)' /\ LinkOK(link'[c])
  BY <1>1, <1>2, <1>3, <1>4, <1>5, <1>6 DEF HandlerInv, Working, Results
<1>11. Running(c) => Served(c) /\ NameInv(c)
  BY <1>1 DEF ClientInv, Resting, Sent, Replied, Dismissed
<1>12. ClientInv(c)'
  <2>1. Running(c) => Dismissed(c)' \/ Served(c)'
    BY <1>1, <1>4, <1>5, <1>6, <1>11 DEF Served, Dismissed, Empty, Working, Results
  <2>2. NameInv(c)' = NameInv(c) /\ Running(c)' = Running(c)
    BY <1>6 DEF NameInv, Kind, Running, place
  <2>3. "killed" \notin ended => Running(c)
    BY <1>1 DEF ClientInv
  <2> QED BY <1>1, <1>6, <2>1, <2>2, <2>3 DEF ClientInv, history, place
<1>13. \A d \in Clients : Running(d)' = Running(d) /\ \A w : Belongs(d, w)' = Belongs(d, w)
  BY <1>6 DEF Running, Belongs, LoggingIn, place
<1>14. \A d \in Clients, w \in Users : Running(d) /\ Owns(d, w) /\ w # u => Owns(d, w)'
  <2>1. ASSUME NEW w \in Users, Running(c), w # u PROVE ~Owns(c, w)
    <3>1. req[c].kind = "quit" /\ user[c] = u
      BY <1>1, <1>2, <1>11, <2>1 DEF Served, NameInv, Kind
    <3> QED BY <2>1, <3>1 DEF Owns, Parting, Kind, LoggingIn
  <2> QED BY <1>6, <1>9, <2>1 DEF Owns, Parting, Kind, LoggingIn, Rest, place
<1>15. \A i \in DOMAIN sessions : sessions[i].user \in Users
  BY <1>1, SessionTypes DEF Session
<1>16. OwnInv'
  <2> SUFFICES ASSUME "killed" \notin ended
               PROVE  \A i \in DOMAIN sessions' : Owned(sessions[i])'
    BY <1>1, <1>6, <1>7 DEF OwnInv, history, IInv
  <2>1. \A i \in DOMAIN sessions : Owned(sessions[i])
    BY <1>1 DEF OwnInv, IInv
  <2>2. \A t : t.user \in Users /\ t.user # u /\ Owned(t) => Owned(t)'
    BY <1>6, <1>13, <1>14 DEF Owned, place
  <2>3. ASSUME NEW i \in DOMAIN sessions' PROVE Owned(sessions[i])'
    <3>1. PICK t : t = sessions'[i]
      OBVIOUS
    <3>2. Owned(t)'
      BY <1>7, <1>15, <2>1, <2>2, <3>1
    <3> QED BY <3>1, <3>2 DEF Owned, Owns, Parting, Kind, LoggingIn, Running
  <2> QED BY <2>3
<1>17. TargetInv'
  <2>1. \A t : Reached(t) => Reached(t)'
    BY <1>6, <1>13 DEF Reached, place
  <2>2. ASSUME ended = {}, NEW i \in DOMAIN sessions' PROVE Reached(sessions[i])'
    <3>1. PICK t : t = sessions'[i]
      OBVIOUS
    <3>2. Reached(t)'
      BY <1>7, <2>1, <2>2, <3>1 DEF IInv, TargetInv
    <3> QED BY <3>1, <3>2 DEF Reached, Belongs, LoggingIn, Running
  <2>3. call # None => call.to \in Clients
    BY <1>1 DEF TypeOK
  <2> QED BY <1>6, <1>13, <2>1, <2>2, <2>3 DEF IInv, TargetInv, history
<1> QED BY <1>1, <1>3, <1>6, <1>8, <1>9, <1>10, <1>12, <1>16, <1>17, OneSession

LEMMA RaiseStep == ASSUME IInv, NEW c \in Clients, Raise(c) PROVE IInv'
<1>1. /\ TypeOK /\ LinkOK(link[c]) /\ server = "up" /\ HandlerInv(c) /\ ClientInv(c)
      /\ thread[c] \in {"exec", "post"} /\ msg_recv[c] \in Requests /\ post \in Post
  BY DEF IInv, DownInv, Raise, TypeOK, Working
<1>2. UNCHANGED <<server, sessions, msg_recv, taken, round, call, link, pc, req, place, history>>
  BY DEF Raise
<1>3. /\ Finish(c, "name") /\ thread'[c] = "name" /\ \A d \in Clients \ {c} : thread'[d] = thread[d]
  BY <1>1 DEF Raise, Finish, TypeOK
<1>4. /\ post' \in Post /\ post'.name = post.name /\ post'.type = TypeOf(msg_recv[c])
  BY <1>1 DEF Raise, Post, Types, TypeOf
<1>5. TypeOK'
  <2>1. "name" \in Working /\ thread[c] \in Working
    BY <1>1 DEF Working
  <2> QED BY <1>1, <1>2, <1>3, <1>4, <2>1, OutcomeTypes DEF TypeOK, place, history
<1>6. SlotInv'
  <2>1. Naming("message") \subseteq Naming("message")'
    BY <1>1, <1>2, <1>3 DEF Naming
  <2>2. TypeOf(msg_recv[c]) = "message" => c \in Naming("message")'
    BY <1>2, <1>3 DEF Naming, TypeOf
  <2> QED BY <1>2, <1>4, <2>1, <2>2 DEF IInv, SlotInv
<1>7. \A d \in Clients \ {c} : Rest(d)
  BY <1>2, <1>3 DEF Rest
<1>8. link[c].end["server"] # "closed" /\ HandlerInv(c)'
  BY <1>1, <1>2, <1>3 DEF HandlerInv, Working, Results, Raise, Proper, Types
<1>9. Running(c) => Served(c) /\ Served(c)'
  <2>1. Running(c) => Served(c)
    BY <1>1 DEF ClientInv, Resting, Sent, Replied, Dismissed
  <2> QED BY <1>2, <1>3, <2>1 DEF Served, Empty, Working, Results
<1>10. Kind(c, {"quit"}) => thread[c] = "post"
  BY <1>1, <1>9 DEF Served, Kind, Raise, Types, Running, Screens
<1> QED BY <1>1, <1>2, <1>3, <1>5, <1>6, <1>7, <1>8, <1>9, <1>10, OneHandler DEF place, Greeted

\* The name is assigned and the request answered next, or the client of a quit
\* dismissed: its sessions are erased already.
LEMMA NameStep == ASSUME IInv, NEW c \in Clients, Name(c) PROVE IInv'
<1>1. /\ TypeOK /\ LinkOK(link[c]) /\ server = "up" /\ HandlerInv(c) /\ ClientInv(c)
      /\ thread[c] = "name" /\ thread[c] \in Working /\ msg_recv[c] \in Requests /\ post \in Post
      /\ link[c] \in Links(Requests \cup Answers)
  BY LinkTypes DEF IInv, DownInv, Name, TypeOK, Working
<1>2. UNCHANGED <<server, sessions, msg_recv, taken, round, call, pc, req, place, history>>
  BY DEF Name
<1>3. msg_recv[c].user \in Users /\ link[c].end["server"] # "closed" /\ port[c] # None
  BY <1>1 DEF HandlerInv, IInv, PortInv
<1>4. /\ post' \in Post /\ post'.type = post.type
      /\ TypeOf(msg_recv[c]) = "message" => post'.name["message"] \in Users
      /\ TypeOf(msg_recv[c]) # "message" => post'.name["message"] = post.name["message"]
  BY <1>1, <1>3 DEF Name, Post, Types, TypeOf
<1>5. Running(c) => Served(c) /\ NameInv(c)
  BY <1>1 DEF ClientInv, Resting, Sent, Replied, Dismissed
<1>6. ASSUME \A d \in Clients \ {c} : Rest(d) PROVE SlotInv'
  <2>1. TypeOf(msg_recv[c]) # "message" => Naming("message") \subseteq Naming("message")'
    BY <1>6 DEF Naming, Rest
  <2> QED BY <1>2, <1>4, <2>1 DEF IInv, SlotInv
<1>7. CASE msg_recv[c].kind # "quit"
  <2>1. PICK outcome \in Results : /\ Finish(c, outcome) /\ link' = link
                                   /\ Right(msg_recv[c], outcome)
                                   /\ outcome = "fail" => msg_recv[c].kind = "state"
    BY <1>3, <1>7, Outside DEF Name, Results, Right
  <2>2. outcome \in Working /\ thread'[c] = outcome
    BY <1>1, <2>1 DEF Working, Finish, TypeOK
  <2>3. TypeOK'
    BY <1>1, <1>2, <1>4, <2>1, <2>2, OutcomeTypes DEF TypeOK, place, history
  <2>4. \A d \in Clients \ {c} : Rest(d)
    BY <1>1, <1>2, <2>1 DEF Rest, TypeOK, Finish
  <2>5. HandlerInv(c)'
    BY <1>1, <1>2, <1>7, <2>1, <2>2 DEF HandlerInv, Working, Results
  <2>6. Running(c) => Served(c)'
    BY <1>2, <1>5, <2>1, <2>2 DEF Served, Empty
  <2>7. Kind(c, {"login"}) => Greeted(c)'
    <3>1. Kind(c, {"login"}) => msg_recv[c].kind = "login"
      BY <1>5 DEF Kind, Served, Running, Screens
    <3> QED BY <2>1, <2>2, <3>1 DEF Greeted, Results
  <2>8. thread'[c] \notin {"post", "name", "over"}
    BY <2>2 DEF Results
  <2> QED BY <1>1, <1>2, <1>3, <1>6, <2>1, <2>3, <2>4, <2>5, <2>6, <2>7, <2>8, OneHandler DEF place
<1>8. CASE msg_recv[c].kind = "quit"
  <2> DEFINE l == Closed(link[c], "server")
  <2>1. /\ l \in Links(Requests \cup Answers) /\ LinkOK(l)
        /\ l.in["server"] = <<>> /\ l.end["server"] = "closed" /\ l.in["client"] = link[c].in["client"]
    BY <1>1, ClosedLink, SidesTwo
  <2>2. /\ link' = [link EXCEPT ![c] = l] /\ link'[c] = l
        /\ thread' = [thread EXCEPT ![c] = "over"] /\ thread'[c] = "over"
    BY <1>1, <1>8 DEF Name, Dismiss, Finish, TypeOK
  <2> HIDE DEF l
  <2>3. TypeOK'
    <3>1. /\ thread' \in [Clients -> {"none", "read", "over"} \cup Working]
          /\ \A d \in Clients : thread'[d] \in Working => msg_recv[d] \in Requests
      BY <1>1, <2>2 DEF TypeOK, Working, Results
    <3>2. link' \in [Clients -> Links(Requests \cup Answers)]
      BY <1>1, <2>1, <2>2 DEF TypeOK
    <3> QED BY <1>1, <1>2, <1>4, <3>1, <3>2 DEF TypeOK, place, history
  <2>4. \A d \in Clients \ {c} : Rest(d)
    BY <1>1, <1>2, <2>2 DEF Rest, TypeOK
  <2>5. HandlerInv(c)'
    BY <1>1, <1>2, <2>1, <2>2 DEF HandlerInv, Working, Results
  <2>6. ClientInv(c)'
    <3>1. Running(c) => Dismissed(c)'
      BY <1>2, <1>5, <1>8, <2>1, <2>2 DEF Served, Dismissed, Empty
    <3>2. NameInv(c)' = NameInv(c) /\ Running(c)' = Running(c)
      BY <1>2 DEF NameInv, Kind, Running, place
    <3>3. "killed" \notin ended => Running(c)
      BY <1>1 DEF ClientInv, Working
    <3> QED BY <1>1, <1>2, <1>5, <3>1, <3>2, <3>3 DEF ClientInv, history, place
  <2>7. \A d \in Clients : Running(d)' = Running(d) /\ \A w : Belongs(d, w)' = Belongs(d, w)
    BY <1>2 DEF Running, Belongs, LoggingIn, place
  <2>8. \A d \in Clients, w \in Users : Running(d) /\ Owns(d, w) => Owns(d, w)'
    <3>1. ASSUME NEW w \in Users, Running(c) PROVE ~Owns(c, w)
      <4>1. Kind(c, {"quit"}) /\ Parting(c)
        BY <1>1, <1>5, <1>8, <3>1 DEF Served, Kind, Parting
      <4> QED BY <4>1 DEF Owns, LoggingIn, Kind
    <3> QED BY <1>2, <2>4, <3>1 DEF Owns, Parting, Kind, LoggingIn, Rest, place
  <2>9. \A i \in DOMAIN sessions : sessions[i].user \in Users
    BY <1>1, SessionTypes DEF Session
  <2>10. OwnInv'
    <3>1. \A t : t.user \in Users /\ Owned(t) => Owned(t)'
      BY <1>2, <2>7, <2>8 DEF Owned, place
    <3> QED BY <1>1, <1>2, <2>9, <3>1 DEF IInv, OwnInv, history
  <2>11. TargetInv'
    <3>1. \A t : Reached(t) => Reached(t)'
      BY <1>2, <2>7 DEF Reached, place
    <3>2. call # None => call.to \in Clients
      BY <1>1 DEF TypeOK
    <3> QED BY <1>2, <2>7, <3>1, <3>2 DEF IInv, TargetInv, history
  <2> QED BY <1>1, <1>2, <1>3, <1>6, <2>1, <2>2, <2>3, <2>4, <2>5, <2>6, <2>10, <2>11, OneSession
<1> QED BY <1>7, <1>8
-----------------------------------------------------------------------------
(* Calls and processes.                                                    *)

\* Steps that change only the call the notifier is making.
LEMMA OneCall ==
    ASSUME IInv, UNCHANGED <<server, serving, link, pc, req, place, ended>>,
           TypeOK', CallInv', TargetInv', SlotInv',
           server # "up" => ~post'.flag /\ taken' = "none" /\ round' = {} /\ call' = None,
           astray => astray',
           leaked' + Owed' <= leaked + Owed
    PROVE  IInv'
<1>1. /\ \A c \in Clients : LinkOK(link'[c])
      /\ DownInv' /\ PortInv' /\ WaitInv' /\ DeathCauses'
  BY DEF IInv, DownInv, PortInv, WaitInv, DeathCauses, Running, serving, place
<1>2. \A c \in Clients : Same(c)
  BY DEF Same, serving, place
<1>3. \A c \in Clients : Running(c)' = Running(c) /\ \A u : Owns(c, u)' = Owns(c, u)
  BY <1>2, Frame
<1>4. server' = "up" => \A c \in Clients : HandlerInv(c)' /\ ClientInv(c)'
  BY <1>2, Frame DEF IInv
<1>5. OwnInv'
  BY <1>3 DEF IInv, OwnInv, Owned, serving, place
<1>6. LeakInv'
  <2>1. Up' = Up
    BY <1>3 DEF Up
  <2>2. /\ IsFiniteSet(Up) /\ Cardinality(Up) \in Nat
        /\ leaked + Cardinality(Up) + Owed <= starts
    BY FS_CardinalityType DEF IInv, LeakInv
  <2>3. starts \in Nat /\ leaked \in Nat /\ leaked' \in Nat /\ starts' = starts
    BY DEF IInv, TypeOK, place
  <2>4. Owed \in Nat /\ Owed' \in Nat
    BY DEF Owed
  <2>5. Cardinality(Up)' = Cardinality(Up) /\ IsFiniteSet(Up)'
    BY <2>1, <2>2
  <2>6. \A j, k, m, n, x, y \in Nat : k + y <= j + x /\ j + n + x <= m => k + n + y <= m
    OBVIOUS
  <2>7. leaked' + Cardinality(Up) + Owed' <= starts
    BY <2>2, <2>3, <2>4, <2>6
  <2> QED BY <2>3, <2>5, <2>7 DEF LeakInv
<1> QED BY <1>1, <1>4, <1>5, <1>6 DEF IInv

LEMMA CallTypes ==
    ASSUME TypeOK, call # None
    PROVE  /\ call \in [user : Users, to : Clients, stage : {"write", "read", "heard"},
                        link : Links({None})]
           /\ call.user \in Users /\ call.to \in Clients /\ call.link \in Links({None})
  BY DEF TypeOK

LEMMA HearStep == ASSUME IInv, NEW c \in Clients, Hear(c) PROVE IInv'
<1>1. /\ TypeOK /\ call # None /\ call.to \in Clients /\ call.user \in Users
      /\ call.link \in Links({None}) /\ LinkOK(call.link)
      /\ call \in [user : Users, to : Clients, stage : {"write", "read", "heard"}, link : Links({None})]
  BY CallTypes DEF IInv, Hear, Hearing, CallInv
<1> DEFINE l == AfterRead(call.link, "client")
<1>2. /\ l \in Links({None}) /\ LinkOK(l)
      /\ l.in["server"] = call.link.in["server"] /\ l.end["server"] = call.link.end["server"]
  BY <1>1, Reading, SidesTwo
<1> HIDE DEF l
<1>3. /\ call' \in [user : Users, to : Clients, stage : {"write", "read", "heard"}, link : Links({None})]
      /\ call'.user = call.user /\ call'.to = call.to /\ call'.link = l /\ call'.stage = "heard"
  BY <1>1, <1>2 DEF Hear, l
<1>4. UNCHANGED <<server, serving, post, taken, round, link, pc, req, place, ended, astray, leaked>>
  BY DEF Hear, history
<1>5. TypeOK'
  BY <1>1, <1>3, <1>4 DEF TypeOK, serving, place
<1>6. CallInv'
  BY <1>2, <1>3 DEF CallInv
<1>7. TargetInv'
  BY <1>1, <1>3, <1>4 DEF IInv, TargetInv, Reached, Running, Belongs, LoggingIn, serving, place
<1>8. server = "up"
  BY <1>1 DEF IInv, DownInv
<1>9. leaked' + Owed' <= leaked + Owed
  BY <1>1, <1>2, <1>3, <1>4 DEF Owed, TypeOK
<1>10. SlotInv'
  BY <1>4, SlotFrame DEF IInv, serving
<1> QED BY <1>4, <1>5, <1>6, <1>7, <1>8, <1>9, <1>10, OneCall

LEMMA AcknowledgeStep == ASSUME IInv, NEW c \in Clients, Acknowledge(c) PROVE IInv'
<1>1. /\ TypeOK /\ call # None /\ call.to \in Clients /\ call.user \in Users
      /\ call.link \in Links({None}) /\ LinkOK(call.link)
      /\ call \in [user : Users, to : Clients, stage : {"write", "read", "heard"}, link : Links({None})]
      /\ call.link.end["client"] = "open" /\ call.stage = "heard"
  BY CallTypes DEF IInv, Acknowledge, Hearing, CallInv
<1> DEFINE k == Written(call.link, "client", None)
           l == Closed(k, "client")
<1>2. /\ k \in Links({None}) /\ LinkOK(k)
      /\ k.in["server"] = Append(call.link.in["server"], None)
  BY <1>1, Writing, SidesTwo
<1>3. k.in["server"] # <<>>
  <2>1. call.link.in["server"] \in Seq({None})
    BY <1>1, SidesTwo DEF Links
  <2> QED BY <1>2, <2>1
<1>4. /\ l \in Links({None}) /\ LinkOK(l) /\ l.in["server"] = k.in["server"]
  <2> HIDE DEF k
  <2> QED BY <1>2, ClosedLink, SidesTwo
<1> HIDE DEF k, l
<1>5. /\ call' \in [user : Users, to : Clients, stage : {"write", "read", "heard"}, link : Links({None})]
      /\ call'.user = call.user /\ call'.to = call.to /\ call'.link = l /\ call'.stage = "heard"
  BY <1>1, <1>4 DEF Acknowledge, l, k
<1>6. UNCHANGED <<server, serving, post, taken, round, link, pc, req, place, ended, astray, leaked>>
  BY DEF Acknowledge, history
<1>7. TypeOK'
  BY <1>1, <1>5, <1>6 DEF TypeOK, serving, place
<1>8. CallInv'
  BY <1>4, <1>5 DEF CallInv
<1>9. TargetInv'
  BY <1>1, <1>5, <1>6 DEF IInv, TargetInv, Reached, Running, Belongs, LoggingIn, serving, place
<1>10. server = "up"
  BY <1>1 DEF IInv, DownInv
<1>11. leaked' + Owed' <= leaked + Owed
  BY <1>1, <1>3, <1>4, <1>5, <1>6 DEF Owed, TypeOK
<1>12. SlotInv'
  BY <1>6, SlotFrame DEF IInv, serving
<1> QED BY <1>6, <1>7, <1>8, <1>9, <1>10, <1>11, <1>12, OneCall

\* A process that starts has a port, a name and a connection of its own.
LEMMA StartStep == ASSUME IInv, NEW c \in Clients, Start(c) PROVE IInv'
<1>1. /\ TypeOK /\ server = "up" /\ pc[c] = "off" /\ ~Running(c) /\ HandlerInv(c) /\ ClientInv(c)
      /\ starts \in Nat
  BY DEF IInv, Start, Running, Screens, TypeOK
<1>2. PICK p \in Ports : Holder(p) = {} /\ port' = [port EXCEPT ![c] = p]
  BY DEF Start
<1>3. /\ port'[c] = p /\ link'[c] = Connected /\ thread'[c] = "none" /\ pc'[c] = "main"
      /\ msg_recv'[c] = None /\ starts' = starts + 1
  BY <1>1, <1>2 DEF TypeOK, Start, Show
<1>4. UNCHANGED <<server, sessions, post, taken, round, call, user, mate, listed, req, ended, astray, leaked>>
  BY DEF Start, notifier, history
<1>5. TypeOK'
  <2>1. link' \in [Clients -> Links(Requests \cup Answers)]
    BY <1>1, NewLink DEF TypeOK, Start
  <2>2. port' \in [Clients -> Ports \cup {None}] /\ pc' \in [Clients -> Screens \cup {"off"}]
    BY <1>1, <1>2 DEF TypeOK, Start, Show, Screens
  <2>3. /\ thread' \in [Clients -> {"none", "read", "over"} \cup Working]
        /\ msg_recv' \in [Clients -> Requests \cup {None}]
        /\ \A d \in Clients : thread'[d] \in Working => msg_recv'[d] \in Requests
    BY <1>1 DEF TypeOK, Start, Working, Results
  <2>4. starts' \in Nat
    BY <1>1, <1>3
  <2> QED BY <1>1, <1>4, <2>1, <2>2, <2>3, <2>4 DEF TypeOK
<1>6. \A d \in Clients \ {c} : Same(d)
  BY <1>1, <1>2 DEF Same, TypeOK, Start, Show
<1>7. /\ \A d \in Clients : LinkOK(link'[d])
      /\ link'[c].in["client"] = <<>> /\ link'[c].in["server"] = <<>> /\ link'[c].end["server"] = "open"
  BY <1>3, <1>6, NewLink, SidesTwo DEF Same, IInv, Connected
<1>8. CallInv' /\ DownInv' /\ DeathCauses' /\ WaitInv' /\ SlotInv'
  <2>1. thread[c] # "name"
    BY DEF Start, Idle
  <2>2. SlotInv'
    BY <1>4, <1>6, <2>1, SlotFrame DEF IInv, Same
  <2> QED BY <1>1, <1>3, <1>4, <1>6, <2>2 DEF IInv, CallInv, DownInv, DeathCauses, WaitInv, Same
<1>9. Running(c)' /\ \A d \in Clients \ {c} : Running(d)' = Running(d)
  BY <1>3, <1>6 DEF Running, Screens, Same
<1>10. PortInv'
  <2>1. p # None
    BY Outside
  <2>2. \A d \in Clients : Running(d) => port[d] # p
    BY <1>2 DEF Holder
  <2> QED BY <1>3, <1>6, <1>9, <2>1, <2>2 DEF IInv, PortInv, Same
<1>11. \A d \in Clients : HandlerInv(d)' /\ ClientInv(d)'
  <2>1. HandlerInv(c)'
    BY <1>3, <1>7 DEF HandlerInv, Working, Results
  <2>2. Resting(c)' /\ NameInv(c)'
    BY <1>1, <1>3, <1>4, <1>7 DEF Resting, Empty, NameInv, Kind, ClientInv
  <2> QED BY <1>1, <1>4, <1>6, <1>9, <2>1, <2>2, Frame DEF ClientInv, IInv
<1>12. \A d \in Clients : \A w : Running(d) =>
          /\ Running(d)' /\ port'[d] = port[d]
          /\ (Owns(d, w) => Owns(d, w)') /\ (Belongs(d, w) => Belongs(d, w)')
  BY <1>1, <1>4, <1>6, <1>9, Frame DEF Same
<1>13. OwnInv'
  <2>1. \A t : Owned(t) => Owned(t)'
    BY <1>12 DEF Owned
  <2> QED BY <1>1, <1>4, <2>1 DEF IInv, OwnInv
<1>14. TargetInv'
  <2>1. \A t : Reached(t) => Reached(t)'
    BY <1>12 DEF Reached
  <2>2. call # None => call.to \in Clients
    BY <1>1 DEF TypeOK
  <2> QED BY <1>4, <1>12, <2>1, <2>2 DEF IInv, TargetInv
<1>15. LeakInv'
  <2>1. Up' = Up \cup {c} /\ c \notin Up
    BY <1>1, <1>9 DEF Up
  <2>2. IsFiniteSet(Up) /\ leaked + Cardinality(Up) + Owed <= starts
    BY DEF IInv, LeakInv
  <2>3. IsFiniteSet(Up \cup {c}) /\ Cardinality(Up \cup {c}) = Cardinality(Up) + 1 /\ Cardinality(Up) \in Nat
    BY <2>1, <2>2, FS_AddElement, FS_CardinalityType
  <2>4. leaked \in Nat /\ Owed \in Nat /\ Owed' = Owed
    BY <1>1, <1>4 DEF Owed, TypeOK
  <2>5. IsFiniteSet(Up)' /\ Cardinality(Up)' = Cardinality(Up) + 1
    BY <2>1, <2>3
  <2> QED BY <1>1, <1>3, <1>4, <2>2, <2>3, <2>4, <2>5 DEF LeakInv
<1> QED BY <1>5, <1>7, <1>8, <1>10, <1>11, <1>13, <1>14, <1>15 DEF IInv

\* A process that ends.  One that leaves by quit has been dismissed: its
\* handler is gone, and so are the sessions it owned.
LEMMA GoneStep ==
    ASSUME IInv, NEW c \in Clients, NEW how \in {"done", "killed"}, Running(c), Gone(c, how),
           mate' \in [Clients -> Users \cup {None}], \A d \in Clients \ {c} : mate'[d] = mate[d],
           how = "done" => /\ pc[c] = "wait" /\ req[c].kind = "quit"
                           /\ ReadResult(link[c], "client") # "block"
    PROVE  IInv'
<1>1. /\ TypeOK /\ link[c] \in Links(Requests \cup Answers) /\ LinkOK(link[c]) /\ port[c] # None
  BY LinkTypes DEF IInv, PortInv, Running, Screens
<1> DEFINE l == Closed(link[c], "client")
<1>2. /\ l \in Links(Requests \cup Answers) /\ LinkOK(l)
      /\ l.in["client"] = <<>> /\ l.in["server"] = link[c].in["server"]
      /\ link[c].end["server"] = "open" =>
            l.end["server"] = IF link[c].in["client"] = <<>> THEN "eof" ELSE "reset"
      /\ link[c].end["server"] # "open" => l.end["server"] = link[c].end["server"]
  BY <1>1, ClosedLink, SidesTwo
<1> HIDE DEF l
<1>3. /\ link' = [link EXCEPT ![c] = l] /\ link'[c] = l
      /\ pc' = [pc EXCEPT ![c] = "off"] /\ pc'[c] = "off"
      /\ user'[c] = None /\ ended' = ended \cup {how}
  BY <1>1 DEF TypeOK, Gone, Show, l
<1>4. UNCHANGED <<server, sessions, thread, msg_recv, post, taken, round, port, starts, astray, leaked>>
  BY DEF Gone, serving
<1>5. \/ call' = call
      \/ /\ call # None /\ call.to = c
         /\ call' \in [user : Users, to : Clients, stage : {"write", "read", "heard"}, link : Links({None})]
         /\ call'.stage = call.stage /\ LinkOK(call'.link)
         /\ call'.link.in["server"] = call.link.in["server"]
  <2>1. CASE ~(call # None /\ call.to = c)
    BY <2>1 DEF Gone
  <2>2. CASE call # None /\ call.to = c
    <3>1. /\ call.link \in Links({None}) /\ LinkOK(call.link)
          /\ call \in [user : Users, to : Clients, stage : {"write", "read", "heard"}, link : Links({None})]
      BY <1>1, <2>2, CallTypes DEF IInv, CallInv
    <3>2. PICK k \in {Closed(call.link, "client"), Aborted(call.link, "client")} :
             call' = [call EXCEPT !.link = k]
      BY <2>2 DEF Gone
    <3>3. k \in Links({None}) /\ LinkOK(k) /\ k.in["server"] = call.link.in["server"]
      BY <3>1, <3>2, ClosedLink, SidesTwo
    <3> QED BY <2>2, <3>1, <3>2, <3>3
  <2> QED BY <2>1, <2>2
<1>6. TypeOK'
  <2>1. link' \in [Clients -> Links(Requests \cup Answers)]
    BY <1>1, <1>2, <1>3 DEF TypeOK
  <2>2. /\ pc' \in [Clients -> Screens \cup {"off"}] /\ req' \in [Clients -> Requests \cup {None}]
        /\ user' \in [Clients -> Users \cup {None}] /\ ended' \in SUBSET {"done", "killed"}
        /\ listed' \in [Clients -> SUBSET Users]
    BY <1>1, <1>3 DEF TypeOK, Gone
  <2>3. \/ call' = None
        \/ call' \in [user : Users, to : Clients, stage : {"write", "read", "heard"}, link : Links({None})]
    BY <1>1, <1>5 DEF TypeOK
  <2> QED BY <1>1, <1>4, <2>1, <2>2, <2>3 DEF TypeOK
<1>7. \A d \in Clients \ {c} : Same(d)
  BY <1>1, <1>3, <1>4 DEF Same, TypeOK, Gone
<1>8. \A d \in Clients : LinkOK(link'[d])
  BY <1>2, <1>3, <1>7 DEF Same, IInv
<1>9. "killed" \in ended => "killed" \in ended'
  BY <1>3
<1>10. ~Running(c)' /\ \A d \in Clients \ {c} : Running(d)' = Running(d)
  BY <1>3, <1>7 DEF Running, Screens, Same
<1>11. CallInv'
  BY <1>5 DEF IInv, CallInv
<1>12. DownInv' /\ DeathCauses' /\ WaitInv' /\ SlotInv'
  <2>1. DownInv'
    BY <1>4, <1>5 DEF IInv, DownInv
  <2>2. DeathCauses'
    BY <1>3, <1>4 DEF IInv, DeathCauses
  <2>3. WaitInv'
    BY <1>3, <1>7 DEF IInv, WaitInv, Same
  <2>4. SlotInv'
    BY <1>4, SlotFrame DEF IInv
  <2> QED BY <2>1, <2>2, <2>3, <2>4
<1>13. PortInv'
  BY <1>1, <1>4, <1>7, <1>10 DEF IInv, PortInv, Same
<1>14. ASSUME server = "up", how = "done" PROVE Dismissed(c)
  <2>1. ClientInv(c)
    BY <1>14 DEF IInv
  <2>2. ~Replied(c)
    BY <1>14 DEF Replied, Right
  <2>3. ~Sent(c) /\ ~Served(c)
    BY <1>1, <1>14 DEF Sent, Served, Empty, LinkOK, ReadResult
  <2>4. ~Resting(c)
    BY <1>14 DEF Resting
  <2> QED BY <2>1, <2>2, <2>3, <2>4 DEF ClientInv
<1>15. ASSUME server = "up" PROVE \A d \in Clients : HandlerInv(d)' /\ ClientInv(d)'
  <2>1. HandlerInv(c)'
    <3>1. HandlerInv(c)
      BY <1>15 DEF IInv
    <3>2. l.end["server"] = "reset" => link[c].end["server"] = "reset" \/ link[c].in["client"] # <<>>
      BY <1>2
    <3>3. link[c].end["server"] # "closed" => l.end["server"] # "closed"
      BY <1>2
    <3> QED BY <1>2, <1>3, <1>4, <3>1, <3>2, <3>3 DEF HandlerInv
  <2>2. ClientInv(c)'
    <3>1. "killed" \notin ended' => how = "done"
      BY <1>3
    <3> QED BY <1>2, <1>3, <1>4, <1>10, <1>14, <1>15, <3>1 DEF ClientInv, Dismissed
  <2> QED BY <1>7, <1>9, <1>15, <2>1, <2>2, Frame DEF IInv
<1>16. \A d \in Clients \ {c} : \A w : port'[d] = port[d] /\ Owns(d, w)' = Owns(d, w)
  BY <1>7, <1>9, Frame DEF Same
<1>17. OwnInv'
  <2> SUFFICES ASSUME server = "up", "killed" \notin ended' PROVE \A i \in DOMAIN sessions : Owned(sessions[i])'
    BY <1>3, <1>4 DEF IInv, OwnInv
  <2>1. how = "done" /\ "killed" \notin ended
    BY <1>3
  <2>2. \A w \in Users : ~Owns(c, w)
    BY <1>14, <2>1 DEF Dismissed, Owns, Parting, Kind, LoggingIn
  <2>3. \A i \in DOMAIN sessions : Owned(sessions[i]) /\ sessions[i].user \in Users
    BY <1>1, <2>1, SessionTypes DEF IInv, OwnInv, Session
  <2>4. \A t : Owned(t) /\ t.user \in Users => Owned(t)'
    BY <1>10, <1>16, <2>2 DEF Owned
  <2> QED BY <1>4, <2>3, <2>4
<1>18. TargetInv'
  BY <1>3, <1>4 DEF IInv, TargetInv
<1>19. LeakInv'
  <2>1. Up' = Up \ {c} /\ c \in Up
    BY <1>10 DEF Up
  <2>2. IsFiniteSet(Up) /\ leaked + Cardinality(Up) + Owed <= starts
    BY DEF IInv, LeakInv
  <2>3. IsFiniteSet(Up \ {c}) /\ Cardinality(Up \ {c}) = Cardinality(Up) - 1 /\ Cardinality(Up) \in Nat
    BY <2>1, <2>2, FS_RemoveElement, FS_CardinalityType
  <2>4. leaked \in Nat /\ starts \in Nat /\ Owed \in 0 .. 1 /\ Owed' \in 0 .. 1
    BY <1>1 DEF Owed, TypeOK
  <2>5. IsFiniteSet(Up)' /\ Cardinality(Up)' = Cardinality(Up) - 1
    BY <2>1, <2>3
  <2>6. \A m, n, z \in Nat, x, y \in 0 .. 1 : m + n + x <= z => m + (n - 1) + y <= z
    OBVIOUS
  <2>7. leaked + (Cardinality(Up) - 1) + Owed' <= starts
    BY <2>2, <2>3, <2>4, <2>6
  <2> QED BY <1>4, <2>5, <2>7 DEF LeakInv
<1> QED BY <1>4, <1>6, <1>8, <1>11, <1>12, <1>13, <1>15, <1>17, <1>18, <1>19 DEF IInv
-----------------------------------------------------------------------------
(* The server's end, and the notifier.                                     *)

LEMMA ServerEndsStep ==
    ASSUME IInv, NEW why \in {"stopped", "refused", "pipe"}, ServerEnds(why), UNCHANGED history,
           why = "refused" => ended # {} \/ astray,
           why = "pipe" => "killed" \in ended
    PROVE  IInv'
<1>1. TypeOK
  BY DEF IInv
<1>2. \A c \in Clients : /\ link'[c] \in Links(Requests \cup Answers) /\ LinkOK(link'[c])
                         /\ link'[c].end["server"] = "closed" /\ thread'[c] = "over"
  <2> TAKE c \in Clients
  <2>1. link[c] \in Links(Requests \cup Answers) /\ LinkOK(link[c])
    BY <1>1, LinkTypes DEF IInv
  <2>2. link'[c] \in {Aborted(link[c], "server"), Closed(link[c], "server")} /\ thread'[c] = "over"
    BY DEF ServerEnds
  <2> QED BY <2>1, <2>2, ClosedLink, SidesTwo
<1>3. /\ server' = why /\ server' # "up" /\ call' = None /\ round' = {} /\ sessions' = <<>>
      /\ post' = NoPost /\ taken' = "none"
      /\ UNCHANGED <<pc, req, user, mate, listed, port, starts, ended, astray, leaked>>
  BY DEF ServerEnds, place, history
<1>4. TypeOK'
  <2>1. link' \in [Clients -> Links(Requests \cup Answers)]
    BY <1>2 DEF ServerEnds
  <2>2. /\ thread' \in [Clients -> {"none", "read", "over"} \cup Working]
        /\ msg_recv' \in [Clients -> Requests \cup {None}]
        /\ \A c \in Clients : thread'[c] \in Working => msg_recv'[c] \in Requests
    BY DEF ServerEnds, Working, Results
  <2>3. sessions' \in Seq(Session) /\ NoPost \in Post
    BY <1>3 DEF NoPost, Post, Types
  <2> QED BY <1>1, <1>3, <2>1, <2>2, <2>3 DEF TypeOK
<1>5. CallInv' /\ DownInv' /\ WaitInv' /\ OwnInv' /\ SlotInv'
  <2>1. ~NoPost.flag /\ NoPost.type = "none"
    BY DEF NoPost
  <2> QED BY <1>2, <1>3, <2>1 DEF CallInv, DownInv, WaitInv, OwnInv, SlotInv, IInv
<1>6. \A c \in Clients : Running(c)' = Running(c)
  BY <1>3 DEF Running
<1>7. PortInv'
  BY <1>2, <1>3, <1>6 DEF PortInv, IInv
<1>8. TargetInv' /\ DeathCauses'
  BY <1>3 DEF TargetInv, DeathCauses
<1>9. LeakInv'
  <2>1. Up' = Up /\ Owed' = 0 /\ Owed \in Nat /\ leaked \in Nat /\ starts \in Nat
    BY <1>1, <1>3, <1>6 DEF Up, Owed, TypeOK
  <2>2. IsFiniteSet(Up) /\ leaked + Cardinality(Up) + Owed <= starts /\ Cardinality(Up) \in Nat
    BY FS_CardinalityType DEF IInv, LeakInv
  <2>3. leaked + Cardinality(Up) + 0 <= starts
    BY <2>1, <2>2
  <2> QED BY <1>3, <2>1, <2>2, <2>3 DEF LeakInv
<1> QED BY <1>2, <1>3, <1>4, <1>5, <1>7, <1>8, <1>9 DEF IInv

\* A session that a scan finds is one of the vector.
LEMMA FirstFound ==
    ASSUME NEW u, NEW t \in First(u)
    PROVE  \E i \in DOMAIN sessions : t = sessions[i]
  BY DEF First

LEMMA TakeStep == ASSUME IInv, Take PROVE IInv'
<1>1. TypeOK /\ call = None /\ post \in Post /\ server = "up"
  BY DEF IInv, Take, TypeOK, DownInv
<1>2. /\ post' \in Post /\ post'.type = post.type /\ post'.name = post.name /\ taken' = "post"
      /\ UNCHANGED <<server, serving, round, call, link, pc, req, place, history>>
  BY <1>1 DEF Take, Post
<1>3. TypeOK'
  BY <1>1, <1>2 DEF TypeOK, serving, place, history
<1>4. SlotInv'
  BY <1>2 DEF IInv, SlotInv, Naming, serving
<1>5. TargetInv'
  BY <1>1, <1>2 DEF IInv, TargetInv, Reached, Running, Belongs, LoggingIn, serving, place, history
<1>6. CallInv' /\ leaked' + Owed' <= leaked + Owed
  BY <1>1, <1>2 DEF CallInv, Owed, TypeOK, history
<1> QED BY <1>1, <1>2, <1>3, <1>4, <1>5, <1>6, OneCall DEF history

LEMMA ReadTypeStep == ASSUME IInv, ReadType PROVE IInv'
<1>1. TypeOK /\ post \in Post /\ taken = "post" /\ taken' = post.type
  BY DEF IInv, ReadType, TypeOK
<1>2. server = "up"
  BY <1>1 DEF IInv, DownInv
<1>3. UNCHANGED <<server, serving, post, round, call, link, pc, req, place, history>>
  BY DEF ReadType
<1>4. TypeOK'
  BY <1>1, <1>3 DEF TypeOK, Post, serving, place, history
<1>5. SlotInv'
  BY <1>1, <1>3 DEF IInv, SlotInv, Naming, serving
<1>6. TargetInv'
  BY <1>1, <1>3 DEF IInv, TargetInv, Reached, Running, Belongs, LoggingIn, serving, place, history
<1>7. CallInv' /\ leaked' + Owed' <= leaked + Owed
  <2>1. leaked \in Nat /\ Owed \in Nat /\ Owed' = Owed
    BY <1>1, <1>3 DEF TypeOK, Owed
  <2> QED BY <1>3, <2>1 DEF IInv, CallInv, history
<1> QED BY <1>2, <1>3, <1>4, <1>5, <1>6, <1>7, OneCall DEF history

\* Whoever is called has a session, or else a message went astray: while no
\* name is being assigned, what is read is somebody's.
LEMMA LookUpStep == ASSUME IInv, LookUp PROVE IInv'
<1>1. TypeOK /\ taken \in Types /\ taken' = "none" /\ astray \in BOOLEAN
  BY DEF IInv, LookUp, TypeOK
<1>2. server = "up"
  BY <1>1 DEF IInv, DownInv, Types
<1>3. UNCHANGED <<server, serving, post, call, link, pc, req, place, ended, leaked>>
  BY DEF LookUp
<1>4. PICK u \in NameReads(taken) :
         /\ round' \in Targets(taken, u)
         /\ astray' = \/ astray
                      \/ /\ Nowhere \in round'
                         /\ Naming("message") # {} \/ (u # None /\ First(u) = {})
  BY DEF LookUp
<1>5. taken = "message" /\ Naming("message") = {} => u \in Users
  BY <1>4 DEF IInv, SlotInv, NameReads
<1>6. None \notin Users
  BY Outside
<1>7. ASSUME NEW t \in round'
      PROVE  \/ \E i \in DOMAIN sessions : t = sessions[i]
             \/ t = Nowhere /\ astray'
  <2>1. CASE taken = "message" /\ First(u) = {}
    <3>1. round' = {Nowhere}
      BY <1>4, <2>1 DEF Targets
    <3>2. astray'
      BY <1>4, <1>5, <1>6, <2>1, <3>1
    <3> QED BY <3>1, <3>2
  <2>2. CASE taken = "message" /\ First(u) # {}
    BY <1>4, <2>2, FirstFound DEF Targets
  <2>3. CASE taken = "state"
    <3>1. PICK friends : round' = UNION {First(f) : f \in friends}
      BY <1>4, <2>3 DEF Targets
    <3> QED BY <3>1, FirstFound
  <2> QED BY <1>1, <2>1, <2>2, <2>3 DEF Types
<1>8. \A i \in DOMAIN sessions : sessions[i] \in Target /\ sessions[i].port # None
  BY <1>1, SessionTypes, Outside DEF Session, Target
<1>9. TypeOK'
  <2>1. round' \in SUBSET Target
    BY <1>7, <1>8 DEF Target
  <2>2. astray' \in BOOLEAN
    BY <1>4
  <2> QED BY <1>1, <1>3, <2>1, <2>2 DEF TypeOK, serving, place
<1>10. \A t : Reached(t) => Reached(t)'
  BY <1>3 DEF Reached, Running, Belongs, LoggingIn, place
<1>11. TargetInv'
  <2>1. \A t \in round' : t.port = None => astray'
    BY <1>7, <1>8
  <2>2. ended = {} => \A t \in round' : t.port # None => Reached(t)'
    BY <1>7, <1>10 DEF IInv, TargetInv, Nowhere
  <2>3. ended = {} => \A i \in DOMAIN sessions : Reached(sessions[i])'
    BY <1>3 DEF IInv, TargetInv, Reached, Running, Belongs, LoggingIn, place, serving
  <2>4. call # None /\ ended = {} => Running(call.to)' /\ Belongs(call.to, call.user)'
    BY <1>3 DEF IInv, TargetInv, Running, Belongs, LoggingIn, place
  <2> QED BY <1>3, <2>1, <2>2, <2>3, <2>4 DEF TargetInv, serving
<1>12. SlotInv'
  BY <1>1, <1>3 DEF IInv, SlotInv, Naming, serving
<1>13. CallInv' /\ leaked' + Owed' <= leaked + Owed
  <2>1. leaked \in Nat /\ Owed \in Nat /\ Owed' = Owed
    BY <1>1, <1>3 DEF TypeOK, Owed
  <2> QED BY <1>3, <2>1 DEF IInv, CallInv
<1>14. astray => astray'
  BY <1>4
<1> QED BY <1>2, <1>3, <1>9, <1>11, <1>12, <1>13, <1>14, OneCall

LEMMA CallStep ==
    ASSUME IInv, call = None, NEW t \in round, NEW c \in Callees(t),
           call' = [user |-> t.user, to |-> c, stage |-> "write", link |-> Connected],
           round' = round \ {t},
           UNCHANGED <<server, serving, post, taken, link, pc, req, place, history>>
    PROVE  IInv'
<1>1. /\ TypeOK /\ server = "up" /\ t \in Target /\ t.user \in Users
      /\ t.port # None /\ c \in Clients /\ Running(c) /\ port[c] = t.port
  <2>1. TypeOK /\ t \in Target /\ t.port # None
    BY DEF IInv, TypeOK, Callees
  <2>2. t \in Session
    BY <2>1 DEF Target, Nowhere
  <2> QED BY <2>1, <2>2 DEF IInv, DownInv, Callees, Holder, Session
<1>2. /\ call'.user = t.user /\ call'.to = c /\ call'.stage = "write" /\ call'.link = Connected
      /\ call' \in [user : Users, to : Clients, stage : {"write", "read", "heard"}, link : Links({None})]
  BY <1>1, NewLink
<1>3. Connected.in["server"] = <<>> /\ Connected.end["server"] = "open" /\ LinkOK(Connected)
  BY SidesTwo, NewLink DEF Connected
<1>4. TypeOK'
  <2>1. round' \in SUBSET Target
    BY <1>1 DEF TypeOK
  <2> QED BY <1>1, <1>2, <2>1 DEF TypeOK, serving, place, history
<1>5. CallInv'
  BY <1>2, <1>3 DEF CallInv
<1>6. TargetInv'
  <2>1. ended = {} => Belongs(c, t.user)
    <3>1. ended = {} => Reached(t)
      BY <1>1 DEF IInv, TargetInv
    <3> QED BY <1>1, <3>1 DEF Reached, IInv, PortInv
  <2>2. \A s : Reached(s) => Reached(s)'
    BY DEF Reached, Running, Belongs, LoggingIn, place
  <2>3. ended = {} => \A s \in round' : s.port # None => Reached(s)'
    BY <2>2 DEF IInv, TargetInv
  <2>4. ended = {} => \A i \in DOMAIN sessions : Reached(sessions[i])'
    BY DEF IInv, TargetInv, Reached, Running, Belongs, LoggingIn, place, serving
  <2>5. \A s \in round' : s.port = None => astray
    BY DEF IInv, TargetInv
  <2>6. ended = {} => Running(call.to)' /\ Belongs(call.to, call.user)'
    BY <1>1, <1>2, <2>1 DEF Running, Belongs, LoggingIn, place
  <2> QED BY <2>3, <2>4, <2>5, <2>6 DEF TargetInv, serving, history
<1>8. SlotInv'
  BY SlotFrame DEF IInv, serving
<1>7. leaked' + Owed' <= leaked + Owed
  <2>1. Owed' = 0 /\ Owed = 0
    BY <1>2, <1>3 DEF Owed
  <2> QED BY <1>1, <2>1 DEF TypeOK, history
<1> QED BY <1>1, <1>4, <1>5, <1>6, <1>7, <1>8, OneCall DEF history

\* A Connect is refused only when the process has ended, or the address is
\* one that is left empty.
LEMMA DialStep == ASSUME IInv, NEW t \in round, Dial(t) PROVE IInv'
<1>1. CASE Callees(t) # {}
  <2>1. PICK c \in Callees(t) :
           call' = [user |-> t.user, to |-> c, stage |-> "write", link |-> Connected]
    BY <1>1 DEF Dial
  <2>2. /\ call = None /\ round' = round \ {t}
        /\ UNCHANGED <<server, serving, post, taken, link, pc, req, place>> /\ UNCHANGED history
    BY <1>1 DEF Dial
  <2> QED BY <2>1, <2>2, CallStep
<1>2. CASE Callees(t) = {}
  <2>1. ServerEnds("refused") /\ UNCHANGED history
    BY <1>2 DEF Dial
  <2>2. ended # {} \/ astray
    <3>1. CASE t.port = None
      BY <3>1 DEF IInv, TargetInv
    <3>2. CASE t.port # None
      <4>1. ~Reached(t)
        BY <1>2, <3>2 DEF Reached, Callees, Holder
      <4> QED BY <3>2, <4>1 DEF IInv, TargetInv
    <3> QED BY <3>1, <3>2
  <2> QED BY <2>1, <2>2, ServerEndsStep
<1> QED BY <1>1, <1>2

LEMMA SendNoticeStep == ASSUME IInv, SendNotice PROVE IInv'
<1>1. /\ TypeOK /\ call # None /\ call.stage = "write" /\ LinkOK(call.link) /\ server = "up"
      /\ call.link.in["server"] = <<>>
      /\ call.user \in Users /\ call.to \in Clients /\ call.link \in Links({None})
      /\ call \in [user : Users, to : Clients, stage : {"write", "read", "heard"}, link : Links({None})]
  BY CallTypes DEF IInv, SendNotice, CallInv, DownInv
<1>2. UNCHANGED <<server, serving, post, taken, round, link, pc, req, place, ended, astray>>
  BY DEF SendNotice
<1>5. SlotInv'
  BY <1>2, SlotFrame DEF IInv, serving
<1>3. CASE WriteResult(call.link, "server") = "sent"
  <2> DEFINE l == Written(call.link, "server", None)
  <2>1. call.link.end["server"] # "closed"
    BY <1>3 DEF WriteResult
  <2>2. /\ l \in Links({None}) /\ LinkOK(l) /\ l.in["server"] = <<>>
        /\ call.link.end["server"] = "open" => l.end["server"] = "open"
    BY <1>1, <2>1, Writing, SidesTwo
  <2> HIDE DEF l
  <2>3. /\ call' \in [user : Users, to : Clients, stage : {"write", "read", "heard"}, link : Links({None})]
        /\ call'.user = call.user /\ call'.to = call.to /\ call'.link = l
        /\ leaked' = leaked
    BY <1>1, <1>3, <2>2 DEF SendNotice, l
  <2>4. TypeOK'
    BY <1>1, <1>2, <2>3 DEF TypeOK, serving, place
  <2>5. CallInv'
    BY <2>2, <2>3 DEF CallInv
  <2>6. TargetInv'
    BY <1>1, <1>2, <2>3 DEF IInv, TargetInv, Reached, Running, Belongs, LoggingIn, serving, place
  <2>7. leaked' + Owed' <= leaked + Owed
    BY <1>1, <2>2, <2>3 DEF Owed, TypeOK
  <2> QED BY <1>1, <1>2, <1>5, <2>4, <2>5, <2>6, <2>7, OneCall
<1>4. CASE WriteResult(call.link, "server") # "sent"
  <2>1. call' = None /\ leaked' = leaked + 1
    BY <1>4 DEF SendNotice
  <2>2. TypeOK' /\ CallInv'
    <3>1. leaked' \in Nat
      BY <1>1, <2>1 DEF TypeOK
    <3>2. TypeOK'
      BY <1>1, <1>2, <2>1, <3>1 DEF TypeOK, serving, place
    <3> QED BY <2>1, <3>2 DEF CallInv
  <2>3. TargetInv'
    BY <1>1, <1>2, <2>1 DEF IInv, TargetInv, Reached, Running, Belongs, LoggingIn, serving, place
  <2>4. leaked' + Owed' <= leaked + Owed
    <3>1. Owed = 1 /\ Owed' = 0
      BY <1>1, <1>4, <2>1 DEF Owed, WriteResult
    <3> QED BY <1>1, <2>1, <3>1 DEF TypeOK
  <2> QED BY <1>1, <1>2, <1>5, <2>2, <2>3, <2>4, OneCall
<1> QED BY <1>3, <1>4

LEMMA ReadReplyStep == ASSUME IInv, ReadReply PROVE IInv'
<1>1. TypeOK /\ call # None /\ server = "up" /\ call' = None
  BY DEF IInv, ReadReply, DownInv
<1>2. UNCHANGED <<server, serving, post, taken, round, link, pc, req, place, ended, astray>>
  BY DEF ReadReply
<1>3. leaked' \in Nat /\ leaked' + Owed' <= leaked + Owed
  <2>1. leaked \in Nat /\ Owed' = 0 /\ Owed \in Nat
    BY <1>1 DEF TypeOK, Owed
  <2>2. CASE ReadResult(call.link, "server") = "end"
    <3>1. Owed = 1 /\ leaked' = leaked + 1
      BY <1>1, <2>2 DEF Owed, ReadResult, ReadReply
    <3> QED BY <2>1, <3>1
  <2>3. CASE ReadResult(call.link, "server") # "end"
    BY <2>1, <2>3 DEF ReadReply
  <2> QED BY <2>2, <2>3
<1>4. TypeOK' /\ CallInv'
  BY <1>1, <1>2, <1>3 DEF TypeOK, CallInv, serving, place
<1>5. TargetInv'
  BY <1>1, <1>2 DEF IInv, TargetInv, Reached, Running, Belongs, LoggingIn, serving, place
<1>6. SlotInv'
  BY <1>2, SlotFrame DEF IInv, serving
<1> QED BY <1>1, <1>2, <1>3, <1>4, <1>5, <1>6, OneCall
-----------------------------------------------------------------------------
(* Every step.                                                             *)

\* A request from a screen, which may end the process by SIGPIPE.
LEMMA RequestStep ==
    ASSUME IInv, NEW c \in Clients, NEW r \in Requests,
           pc[c] \in {"main", "entering", "friends", "talk"}, Ask(c, r), UNCHANGED mate,
           NameInv(c) => Fitting(c, r)
    PROVE  IInv'
<1>1. TypeOK /\ Running(c)
  BY DEF IInv, Running, Screens
<1>2. server = "up" => Fitting(c, r)
  BY <1>1 DEF IInv, ClientInv
<1>3. CASE WriteResult(link[c], "client") # "SIGPIPE"
  <2>1. /\ link' = [link EXCEPT ![c] = Written(@, "client", r)]
        /\ req' = [req EXCEPT ![c] = r] /\ pc' = [pc EXCEPT ![c] = "wait"]
        /\ UNCHANGED <<server, serving, notifier, user, mate, listed, port, starts, history>>
    BY <1>3 DEF Ask, Show
  <2> QED BY <1>2, <1>3, <2>1, AskStep
<1>4. CASE WriteResult(link[c], "client") = "SIGPIPE"
  <2>1. Gone(c, "killed")
    BY <1>4 DEF Ask
  <2>2. mate' \in [Clients -> Users \cup {None}] /\ \A d \in Clients \ {c} : mate'[d] = mate[d]
    BY <1>1 DEF TypeOK
  <2> QED BY <1>1, <2>1, <2>2, GoneStep
<1> QED BY <1>3, <1>4

LEMMA RegisterStep == ASSUME IInv, NEW c \in Clients, Register(c) PROVE IInv'
<1> DEFINE r == [kind |-> "register", user |-> None]
<1>1. r \in Requests /\ (NameInv(c) => Fitting(c, r))
  BY DEF Requests, Fitting, Proper, NameInv, Register
<1> QED BY <1>1, RequestStep DEF Register

LEMMA LoginStep == ASSUME IInv, NEW c \in Clients, NEW u \in Users \cup {None}, Login(c, u) PROVE IInv'
<1> DEFINE r == [kind |-> "login", user |-> u]
<1>1. r \in Requests /\ (NameInv(c) => Fitting(c, r))
  BY DEF Requests, Fitting, Proper, NameInv, Login
<1> QED BY <1>1, RequestStep DEF Login

LEMMA QuitMainStep == ASSUME IInv, NEW c \in Clients, QuitMain(c) PROVE IInv'
<1> DEFINE r == [kind |-> "quit", user |-> None]
<1>1. r \in Requests /\ (NameInv(c) => Fitting(c, r))
  BY DEF Requests, Fitting, Proper, NameInv, QuitMain
<1> QED BY <1>1, RequestStep DEF QuitMain

LEMMA UserTypes == ASSUME TypeOK, NEW c \in Clients
                   PROVE  user[c] \in Users \cup {None} /\ mate[c] \in Users \cup {None}
  BY DEF TypeOK

LEMMA EnterStep == ASSUME IInv, NEW c \in Clients, Enter(c) PROVE IInv'
<1> DEFINE r == [kind |-> "list", user |-> user[c]]
<1>1. r \in Requests /\ (NameInv(c) => Fitting(c, r))
  BY UserTypes DEF Requests, Fitting, Proper, NameInv, Enter, IInv
<1> QED BY <1>1, RequestStep DEF Enter

LEMMA ModifyStep == ASSUME IInv, NEW c \in Clients, Modify(c) PROVE IInv'
<1> DEFINE r == [kind |-> "state", user |-> user[c]]
<1>1. r \in Requests /\ (NameInv(c) => Fitting(c, r))
  BY UserTypes DEF Requests, Fitting, Proper, NameInv, Modify, IInv
<1> QED BY <1>1, RequestStep DEF Modify

LEMMA QuitFriendsStep == ASSUME IInv, NEW c \in Clients, QuitFriends(c) PROVE IInv'
<1> DEFINE r == [kind |-> "quit", user |-> user[c]]
<1>1. r \in Requests /\ (NameInv(c) => Fitting(c, r))
  BY UserTypes DEF Requests, Fitting, Proper, NameInv, QuitFriends, IInv
<1> QED BY <1>1, RequestStep DEF QuitFriends

LEMMA SendStep == ASSUME IInv, NEW c \in Clients, Send(c) PROVE IInv'
<1> DEFINE r == [kind |-> "message", user |-> mate[c]]
<1>1. r \in Requests /\ (NameInv(c) => Fitting(c, r))
  BY UserTypes DEF Requests, Fitting, Proper, NameInv, Send, IInv
<1> QED BY <1>1, RequestStep DEF Send

LEMMA LeaveStep == ASSUME IInv, NEW c \in Clients, Leave(c) PROVE IInv'
<1>1. /\ Running(c) /\ Gone(c, "done") /\ TypeOK
      /\ pc[c] = "wait" /\ req[c].kind = "quit" /\ ReadResult(link[c], "client") # "block"
  BY DEF IInv, Leave, Running, Screens
<1>2. mate' \in [Clients -> Users \cup {None}] /\ \A d \in Clients \ {c} : mate'[d] = mate[d]
  BY <1>1 DEF Leave, TypeOK
<1> QED BY <1>1, <1>2, GoneStep

LEMMA KillStep == ASSUME IInv, NEW c \in Clients, Kill(c) PROVE IInv'
<1>1. Running(c) /\ Gone(c, "killed") /\ TypeOK
  BY DEF IInv, Kill
<1>2. mate' \in [Clients -> Users \cup {None}] /\ \A d \in Clients \ {c} : mate'[d] = mate[d]
  BY <1>1 DEF Kill, TypeOK
<1> QED BY <1>1, <1>2, GoneStep

\* Only a client that was killed leaves an answer that raises SIGPIPE.
LEMMA AnswerAnyStep == ASSUME IInv, NEW c \in Clients, Answer(c) PROVE IInv'
<1>1. CASE WriteResult(link[c], "server") # "SIGPIPE"
  BY <1>1, AnswerStep DEF Answer
<1>2. CASE WriteResult(link[c], "server") = "SIGPIPE"
  <2>1. ServerEnds("pipe") /\ UNCHANGED history /\ thread[c] \in Results
    BY <1>2 DEF Answer
  <2>2. link[c].end["server"] # "open"
    BY <1>2 DEF WriteResult
  <2>3. ClientInv(c) /\ HandlerInv(c)
    BY <2>1 DEF IInv, DownInv, Results
  <2>4. "killed" \in ended
    BY <2>1, <2>2, <2>3 DEF ClientInv, Resting, Sent, Served, Replied, Dismissed, Results
  <2> QED BY <2>1, <2>4, ServerEndsStep
<1> QED BY <1>1, <1>2

LEMMA NextInv == IInv /\ [Next]_vars => IInv'
<1> SUFFICES ASSUME IInv, [Next]_vars PROVE IInv'
  OBVIOUS
<1>1. ASSUME NEW c \in Clients, Command(c) PROVE IInv'
  BY <1>1, StartStep, RegisterStep, QuitMainStep, ModifyStep, QuitFriendsStep, SendStep,
     CloseTalkStep, LoginStep, OpenTalkStep DEF Command
<1>2. ASSUME NEW c \in Clients, Enter(c) \/ Return(c) \/ Leave(c) \/ Listen(c) \/ Kill(c) PROVE IInv'
  BY <1>2, EnterStep, ReturnStep, LeaveStep, HearStep, AcknowledgeStep, KillStep DEF Listen
<1>3. ASSUME NEW c \in Clients, Serve(c) PROVE IInv'
  BY <1>3, AcceptStep, ReadRequestStep, ReadStaleStep, ExecuteQueryStep, ExecuteListStep,
     ExecuteLoginStep, ExecuteQuitStep, RaiseStep, NameStep, AnswerAnyStep DEF Serve
<1>4. ASSUME Notify PROVE IInv'
  BY <1>4, TakeStep, ReadTypeStep, LookUpStep, SendNoticeStep, ReadReplyStep, DialStep DEF Notify
<1>5. ASSUME Stop PROVE IInv'
  BY <1>5, ServerEndsStep DEF Stop
<1>6. ASSUME UNCHANGED vars PROVE IInv'
  <2>1. TypeOK'
    BY <1>6 DEF vars, serving, notifier, place, history, TypeOK, IInv
  <2>2. UNCHANGED <<server, serving, link, pc, req, place, ended, post, taken, round, call, astray, leaked>>
    BY <1>6 DEF vars, notifier, history
  <2>3. CallInv' /\ TargetInv'
    BY <2>2 DEF IInv, CallInv, TargetInv, Reached, Running, Belongs, LoggingIn, serving, place
  <2>4. server # "up" => ~post'.flag /\ taken' = "none" /\ round' = {} /\ call' = None
    BY <2>2 DEF IInv, DownInv
  <2>5. leaked' + Owed' <= leaked + Owed
    <3>1. leaked \in Nat /\ Owed \in Nat /\ Owed' = Owed
      BY <2>2 DEF Owed, IInv, TypeOK
    <3> QED BY <2>2, <3>1
  <2>6. SlotInv'
    BY <2>2, SlotFrame DEF IInv, serving
  <2> QED BY <2>1, <2>2, <2>3, <2>4, <2>5, <2>6, OneCall
<1> QED BY <1>1, <1>2, <1>3, <1>4, <1>5, <1>6 DEF Next

\* The invariant holds in every state of TalkService.
THEOREM Inductive == Spec => []IInv
  BY InitInv, NextInv, PTL DEF Spec
-----------------------------------------------------------------------------
\* What module TalkService says of the types of its variables.
THEOREM TypeCorrect == Spec => []TypeOK
<1>1. IInv => TypeOK
  BY DEF IInv
<1> QED BY <1>1, Inductive, PTL

\* Request and answer alternate on every connection: each of deal_msg's
\* Readlines gets what the other program's deal_msg wrote for it.
THEOREM InStep == Spec => []Lockstep
<1>1. IInv => Lockstep
  <2> SUFFICES ASSUME IInv, server = "up", NEW c \in Clients, Running(c)
               PROVE  /\ thread[c] # "over" => InFlight(c) = IF pc[c] = "wait" THEN 1 ELSE 0
                      /\ \A i \in DOMAIN link[c].in["server"] : link[c].in["server"][i] = req[c]
                      /\ \A i \in DOMAIN link[c].in["client"] :
                            link[c].in["client"][i].kind = req[c].kind
                      /\ thread[c] \in Working => msg_recv[c] = req[c]
                      /\ thread[c] = "over" => pc[c] = "wait" /\ req[c].kind = "quit"
    BY DEF Lockstep
  <2>1. Resting(c) \/ Sent(c) \/ Served(c) \/ Replied(c) \/ Dismissed(c)
    BY DEF IInv, ClientInv
  <2>2. CASE Resting(c)
    BY <2>2 DEF Resting, Empty, InFlight, Working, Results
  <2>3. CASE Sent(c)
    BY <2>3 DEF Sent, InFlight, Working, Results
  <2>4. CASE Served(c)
    BY <2>4 DEF Served, Empty, InFlight, Working, Results
  <2>5. CASE Replied(c)
    BY <2>5 DEF Replied, InFlight, Working, Results
  <2>6. CASE Dismissed(c)
    BY <2>6 DEF Dismissed, Empty, Working, Results
  <2> QED BY <2>1, <2>2, <2>3, <2>4, <2>5, <2>6
<1> QED BY <1>1, Inductive, PTL

\* The server process ends by SIGPIPE only after a client has gone, or a
\* message was sent to someone who is not logged in.
THEOREM Causes == Spec => []DeathCauses
<1>1. IInv => DeathCauses
  BY DEF IInv
<1> QED BY <1>1, Inductive, PTL

\* While nobody is killed, the vector holds the sessions of running processes
\* only, one of each at most.
THEOREM Owners == Spec => []SessionsOwned
<1>1. IInv => SessionsOwned
  BY DEF IInv, OwnInv, Owned, Owns, Parting, Kind, SessionsOwned, Holder
<1> QED BY <1>1, Inductive, PTL

\* Until a process ends, every call reaches the user it is for.
THEOREM RightCalls == Spec => []RightReader
<1>1. IInv => RightReader
  BY DEF IInv, TargetInv, Belongs, RightReader
<1> QED BY <1>1, Inductive, PTL

\* A process costs the server one socket at most, and only by ending.
THEOREM SocketBound == Spec => []LeakBound
<1>1. IInv => LeakBound
  <2> SUFFICES ASSUME IInv PROVE leaked + Cardinality(Up) <= starts
    BY DEF LeakBound, Up
  <2>1. /\ IsFiniteSet(Up) /\ Cardinality(Up) \in Nat /\ leaked + Cardinality(Up) + Owed <= starts
        /\ leaked \in Nat /\ Owed \in Nat /\ starts \in Nat
    BY FS_CardinalityType DEF IInv, LeakInv, Owed, TypeOK
  <2> QED BY <2>1
<1> QED BY <1>1, Inductive, PTL
=============================================================================
