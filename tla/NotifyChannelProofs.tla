------------------------- MODULE NotifyChannelProofs -------------------------
(***************************************************************************)
(* Proofs about the notification hand-off, for any number of handlers,     *)
(* users, states and texts and any friendship table.                       *)
(*                                                                         *)
(* The properties of NotifyChannel are not inductive: the notifier reads   *)
(* the slot without the mutex, so each needs to know what the slot holds   *)
(* (SlotInv), who may be writing it (MutexInv, FlagInv) and how far the    *)
(* round has come (RoundInv).  All of RoundInv is under ~is_send_client:   *)
(* once a newer post has raised the flag nothing is claimed of the round,  *)
(* and the flag falls again only when the next round begins.               *)
(***************************************************************************)
EXTENDS NotifyChannel, TLAPS

\* A handler between its lock and its unlock.
Posting(h) == hpc[h] \in {"type", "user", "body", "signal"}

MutexInv ==
    /\ \A h \in Handlers : state_mutex = h <=> Posting(h)
    /\ state_mutex = Notifier <=> npc = "test"

FlagInv ==
    /\ state_mutex \in Handlers => is_send_client
    /\ npc = "wait" /\ is_send_client => state_mutex \in Handlers

\* The slot holds the last post, up to the fields a handler has yet to write.
SlotInv ==
    /\ state_mutex \notin Handlers /\ is_send_client => last # NoPost
    /\ state_mutex \notin Handlers /\ last # NoPost =>
          /\ notify_type = last.kind
          /\ payload[last.kind].user = last.user
          /\ payload[last.kind].body = last.body
    /\ \A h \in Handlers :
          /\ hpc[h] \in {"user", "body", "signal"} => notify_type = req[h].kind
          /\ hpc[h] \in {"body", "signal"} => payload[req[h].kind].user = req[h].user
          /\ hpc[h] = "signal" => /\ payload[req[h].kind].body = req[h].body
                                  /\ last = req[h]

\* A round no newer post has disturbed: how much of it is done.
RoundInv == ~is_send_client =>
    /\ npc \in {"lock", "test", "wait"} => Notices(last) \subseteq sent
    /\ npc \in {"type", "lookup", "next", "args", "reply"} => last # NoPost
    /\ npc \in {"lookup", "next", "args", "reply"} => kind = last.kind
    /\ npc \in {"next", "args", "reply"} =>
          /\ todo \subseteq Audience(last.kind, last.user)
          /\ \A n \in Notices(last) : n \in sent \/ n.to \in todo
    /\ npc = "args" => /\ "user" \in unread \/ arg.user = last.user
                       /\ "body" \in unread \/ arg.body = last.body
    /\ npc = "reply" => \A n \in Notices(last) : n.to = to => n \in sent

IInv == TypeOK /\ MutexInv /\ FlagInv /\ SlotInv /\ RoundInv
-----------------------------------------------------------------------------
\* Every notice of a complete post is a well-formed notice.
LEMMA NoticesTyped == ASSUME NEW p \in Posts \cup {NoPost}
                      PROVE  Notices(p) \subseteq Notice
<1>1. CASE p = NoPost
  BY <1>1 DEF Notices
<1>2. CASE p \in Posts /\ p # NoPost
  <2>1. p.kind \in Kinds /\ p.user \in Users /\ p.body \in States \cup Texts
    BY <1>2 DEF Posts, StatePosts, TextPosts, Kinds
  <2>2. Audience(p.kind, p.user) \subseteq Users
    BY <2>1, Friending DEF Audience
  <2>3. QED BY <1>2, <2>1, <2>2 DEF Notices, Notice
<1>3. QED BY <1>1, <1>2

LEMMA TypeInit == Init => TypeOK
<1> SUFFICES ASSUME Init PROVE TypeOK
  OBVIOUS
<1>1. Blank \in Cell
  BY DEF Blank, Cell
<1>2. payload \in [Kinds -> Cell] /\ arg \in Cell
  BY <1>1 DEF Init
<1>3. hpc \in [Handlers -> {"idle", "lock", "type", "user", "body", "signal"}]
  BY DEF Init
<1>4. req \in [Handlers -> Posts \cup {NoPost}]
  BY DEF Init
<1>5. QED
  BY <1>2, <1>3, <1>4 DEF Init, TypeOK

LEMMA TypeStep == TypeOK /\ [Next]_vars => TypeOK'
<1> SUFFICES ASSUME TypeOK, [Next]_vars PROVE TypeOK'
  OBVIOUS
<1> USE DEF TypeOK
<1>1. ASSUME NEW h \in Handlers, NEW p \in Posts, Request(h, p) PROVE TypeOK'
  BY <1>1 DEF Request, Goto, slot, notifier, history
<1>2. ASSUME NEW h \in Handlers, Raise(h) PROVE TypeOK'
  BY <1>2 DEF Raise, Goto, notifier, history
<1>3. ASSUME NEW h \in Handlers, WriteType(h) PROVE TypeOK'
  <2>1. req[h].kind \in Kinds
    BY <1>3 DEF WriteType, Posts, StatePosts, TextPosts, Kinds
  <2>2. QED BY <1>3, <2>1 DEF WriteType, Goto, notifier, history
<1>4. ASSUME NEW h \in Handlers, WriteUser(h) PROVE TypeOK'
  <2>1. req[h].kind \in Kinds /\ req[h].user \in Users
    BY <1>4 DEF WriteUser, Posts, StatePosts, TextPosts, Kinds
  <2>2. payload' \in [Kinds -> Cell]
    BY <1>4, <2>1 DEF WriteUser, Cell
  <2>3. QED BY <1>4, <2>2 DEF WriteUser, Goto, notifier, history
<1>5. ASSUME NEW h \in Handlers, WriteBody(h) PROVE TypeOK'
  <2>1. req[h] \in Posts /\ req[h].kind \in Kinds /\ req[h].body \in States \cup Texts
    BY <1>5 DEF WriteBody, Posts, StatePosts, TextPosts, Kinds
  <2>2. payload' \in [Kinds -> Cell]
    BY <1>5, <2>1 DEF WriteBody, Cell
  <2>3. QED BY <1>5, <2>1, <2>2 DEF WriteBody, Goto, notifier
<1>6. ASSUME NEW h \in Handlers, SignalUnlock(h) PROVE TypeOK'
  BY <1>6 DEF SignalUnlock, Goto, history
<1>7. CASE Acquire
  BY <1>7 DEF Acquire, handler, history
<1>8. CASE Park
  BY <1>8 DEF Park, handler, history
<1>9. CASE Take
  BY <1>9 DEF Take, handler, history
<1>10. CASE ReadType
  BY <1>10 DEF ReadType, slot, handler, history
<1>11. CASE Lookup
  <2>1. PICK u \in UserReads(kind) : \E audience \in Audiences(kind, u) :
            /\ todo' = audience
            /\ npc' = IF audience = {} THEN "lock" ELSE "next"
            /\ kind' = IF audience = {} THEN NOTHING ELSE kind
    BY <1>11 DEF Lookup
  <2>2. \A audience \in Audiences(kind, u) : audience \in SUBSET (Users \cup {Empty})
    BY Friending DEF Audiences, Audience
  <2>3. kind \in Kinds
    BY <1>11 DEF Lookup
  <2>4. QED BY <1>11, <2>1, <2>2, <2>3 DEF Lookup, slot, handler, history
<1>12. CASE NextClient
  BY <1>12 DEF NextClient, slot, handler, history, Cell
<1>13. CASE ReadUser
  <2>1. UserReads(kind) \subseteq Users \cup {Empty, Garbled}
    BY <1>13, Tearing DEF ReadUser, UserReads, Cell
  <2>2. QED BY <1>13, <2>1 DEF ReadUser, slot, handler, history, Cell
<1>14. CASE ReadBody
  <2>1. BodyReads(kind) \subseteq States \cup Texts \cup {Empty, Garbled}
    BY <1>14, Tearing DEF ReadBody, BodyReads, Cell
  <2>2. QED BY <1>14, <2>1 DEF ReadBody, slot, handler, history, Cell
<1>15. CASE SendNotice
  <2>1. Notices(last) \subseteq Notice
    BY NoticesTyped
  <2>2. QED BY <1>15, <2>1 DEF SendNotice, slot, handler
<1>16. CASE Answered
  BY <1>16 DEF Answered, slot, handler, history, Blank, Cell
<1>17. CASE SpuriousWakeup
  BY <1>17 DEF SpuriousWakeup, slot, handler, history
<1>18. CASE UNCHANGED vars
  BY <1>18 DEF vars, slot, handler, notifier, history
<1>19. CASE SendToNobody
  BY <1>19 DEF SendToNobody, slot, handler, history
<1>20. QED
  BY <1>1, <1>2, <1>3, <1>4, <1>5, <1>6, <1>7, <1>8, <1>9, <1>10, <1>11, <1>12,
     <1>13, <1>14, <1>15, <1>16, <1>17, <1>18, <1>19
     DEF Next, NewRequest, Handle, Notify

\* Every variable keeps its type: in particular a name or a body read while
\* it is being assigned is the old one, the new one or Garbled, and the
\* client being told is always one of those left to tell.
THEOREM TypeCorrect == Spec => []TypeOK
BY TypeInit, TypeStep, PTL DEF Spec
-----------------------------------------------------------------------------
LEMMA InvInit == Init => MutexInv /\ FlagInv /\ SlotInv /\ RoundInv
BY Threads DEF Init, MutexInv, Posting, FlagInv, SlotInv, RoundInv, Notices

LEMMA MutexStep == TypeOK /\ MutexInv /\ [Next]_vars => MutexInv'
<1> SUFFICES ASSUME TypeOK, MutexInv, [Next]_vars PROVE MutexInv'
  OBVIOUS
<1> USE Threads DEF TypeOK, MutexInv, Posting
<1>1. ASSUME NEW h \in Handlers, NEW p \in Posts, Request(h, p) PROVE MutexInv'
  BY <1>1 DEF Request, Goto, slot, notifier
<1>2. ASSUME NEW h \in Handlers, Raise(h) PROVE MutexInv'
  BY <1>2 DEF Raise, Goto, notifier
<1>3. ASSUME NEW h \in Handlers, WriteType(h) PROVE MutexInv'
  BY <1>3 DEF WriteType, Goto, notifier
<1>4. ASSUME NEW h \in Handlers, WriteUser(h) PROVE MutexInv'
  BY <1>4 DEF WriteUser, Goto, notifier
<1>5. ASSUME NEW h \in Handlers, WriteBody(h) PROVE MutexInv'
  BY <1>5 DEF WriteBody, Goto, notifier
<1>6. ASSUME NEW h \in Handlers, SignalUnlock(h) PROVE MutexInv'
  BY <1>6 DEF SignalUnlock, Goto
<1>7. CASE Acquire
  BY <1>7 DEF Acquire, handler
<1>8. CASE Park
  BY <1>8 DEF Park, handler
<1>9. CASE Take
  BY <1>9 DEF Take, handler
<1>10. CASE ReadType
  BY <1>10 DEF ReadType, slot, handler
<1>11. CASE Lookup
  BY <1>11 DEF Lookup, slot, handler
<1>12. CASE NextClient
  BY <1>12 DEF NextClient, slot, handler
<1>13. CASE ReadUser
  BY <1>13 DEF ReadUser, slot, handler
<1>14. CASE ReadBody
  BY <1>14 DEF ReadBody, slot, handler
<1>15. CASE SendNotice
  BY <1>15 DEF SendNotice, slot, handler
<1>16. CASE Answered
  BY <1>16 DEF Answered, slot, handler
<1>17. CASE SpuriousWakeup
  BY <1>17 DEF SpuriousWakeup, slot, handler
<1>18. CASE UNCHANGED vars
  BY <1>18 DEF vars, slot, handler, notifier
<1>19. CASE SendToNobody
  BY <1>19 DEF SendToNobody, slot, handler, history
<1>20. QED
  BY <1>1, <1>2, <1>3, <1>4, <1>5, <1>6, <1>7, <1>8, <1>9, <1>10, <1>11, <1>12,
     <1>13, <1>14, <1>15, <1>16, <1>17, <1>18, <1>19
     DEF Next, NewRequest, Handle, Notify

LEMMA FlagStep == TypeOK /\ MutexInv /\ FlagInv /\ [Next]_vars => FlagInv'
<1> SUFFICES ASSUME TypeOK, MutexInv, FlagInv, [Next]_vars PROVE FlagInv'
  OBVIOUS
<1> USE Threads DEF TypeOK, MutexInv, Posting, FlagInv
<1>1. ASSUME NEW h \in Handlers, NEW p \in Posts, Request(h, p) PROVE FlagInv'
  BY <1>1 DEF Request, slot, notifier
<1>2. ASSUME NEW h \in Handlers, Raise(h) PROVE FlagInv'
  BY <1>2 DEF Raise, notifier
<1>3. ASSUME NEW h \in Handlers, WriteType(h) \/ WriteUser(h) \/ WriteBody(h)
      PROVE FlagInv'
  BY <1>3 DEF WriteType, WriteUser, WriteBody, notifier
<1>4. ASSUME NEW h \in Handlers, SignalUnlock(h) PROVE FlagInv'
  BY <1>4 DEF SignalUnlock
<1>5. CASE Acquire
  BY <1>5 DEF Acquire
<1>6. CASE Park
  BY <1>6 DEF Park
<1>7. CASE Take
  BY <1>7 DEF Take
<1>8. CASE ReadType \/ Lookup \/ NextClient
  BY <1>8 DEF ReadType, Lookup, NextClient, slot
<1>9. CASE ReadUser \/ ReadBody
  BY <1>9 DEF ReadUser, ReadBody, slot
<1>10. CASE SendNotice \/ SendToNobody \/ Answered
  BY <1>10 DEF SendNotice, SendToNobody, Answered, slot
<1>11. CASE SpuriousWakeup
  BY <1>11 DEF SpuriousWakeup, slot
<1>12. CASE UNCHANGED vars
  BY <1>12 DEF vars, slot, notifier
<1>13. QED
  BY <1>1, <1>2, <1>3, <1>4, <1>5, <1>6, <1>7, <1>8, <1>9, <1>10, <1>11, <1>12
     DEF Next, NewRequest, Handle, Notify

\* Two threads never hold state_mutex together, so the writer of the slot is unique.
LEMMA OneWriter == ASSUME MutexInv, NEW h \in Handlers, NEW g \in Handlers,
                          Posting(h), Posting(g)
                   PROVE  g = h
BY DEF MutexInv
\* The steps of the notifier, and a new request, leave alone all that SlotInv
\* speaks of but the flag and the mutex, and hand neither to a handler.
LEMMA SlotKept ==
    ASSUME TypeOK, MutexInv, FlagInv, SlotInv,
           UNCHANGED <<notify_type, payload, last>>,
           \A h \in Handlers : \/ hpc'[h] = hpc[h] /\ req'[h] = req[h]
                               \/ hpc'[h] \notin {"user", "body", "signal"},
           is_send_client' => is_send_client,
           (state_mutex' \in Handlers) = (state_mutex \in Handlers)
    PROVE  SlotInv'
BY DEF SlotInv

LEMMA SlotStep == TypeOK /\ MutexInv /\ FlagInv /\ SlotInv /\ [Next]_vars => SlotInv'
<1> SUFFICES ASSUME TypeOK, MutexInv, FlagInv, SlotInv, [Next]_vars PROVE SlotInv'
  OBVIOUS
<1>1. ASSUME NEW h \in Handlers, NEW p \in Posts, Request(h, p) PROVE SlotInv'
  <2>1. \A g \in Handlers : \/ hpc'[g] = hpc[g] /\ req'[g] = req[g]
                            \/ hpc'[g] \notin {"user", "body", "signal"}
    BY <1>1 DEF Request, Goto, TypeOK
  <2>2. QED BY <1>1, <2>1, SlotKept DEF Request, slot, history
<1>2. ASSUME NEW h \in Handlers, Raise(h) PROVE SlotInv'
  BY <1>2 DEF Raise, Goto, notifier, history, TypeOK, SlotInv
<1>3. ASSUME NEW h \in Handlers, WriteType(h) PROVE SlotInv'
  <2>1. \A g \in Handlers \ {h} : ~Posting(g)
    BY <1>3, OneWriter DEF WriteType, Posting
  <2>2. state_mutex' \in Handlers
    BY <1>3 DEF WriteType, MutexInv, Posting
  <2>3. QED BY <1>3, <2>1, <2>2 DEF WriteType, Goto, history, TypeOK, SlotInv, Posting
<1>4. ASSUME NEW h \in Handlers, WriteUser(h) PROVE SlotInv'
  <2>1. \A g \in Handlers \ {h} : ~Posting(g)
    BY <1>4, OneWriter DEF WriteUser, Posting
  <2>2. state_mutex' \in Handlers
    BY <1>4 DEF WriteUser, MutexInv, Posting
  <2>3. req[h].kind \in Kinds
    BY <1>4 DEF WriteUser, TypeOK, Posts, StatePosts, TextPosts, Kinds
  <2>4. payload'[req[h].kind].user = req[h].user
    BY <1>4, <2>3 DEF WriteUser, TypeOK, Cell
  <2>5. QED BY <1>4, <2>1, <2>2, <2>4 DEF WriteUser, Goto, history, TypeOK, SlotInv, Posting
<1>5. ASSUME NEW h \in Handlers, WriteBody(h) PROVE SlotInv'
  <2>1. \A g \in Handlers \ {h} : ~Posting(g)
    BY <1>5, OneWriter DEF WriteBody, Posting
  <2>2. state_mutex' \in Handlers
    BY <1>5 DEF WriteBody, MutexInv, Posting
  <2>3. req[h].kind \in Kinds
    BY <1>5 DEF WriteBody, TypeOK, Posts, StatePosts, TextPosts, Kinds
  <2>4. /\ payload'[req[h].kind].user = payload[req[h].kind].user
        /\ payload'[req[h].kind].body = req[h].body
    BY <1>5, <2>3 DEF WriteBody, TypeOK, Cell
  <2>5. QED BY <1>5, <2>1, <2>2, <2>4 DEF WriteBody, Goto, TypeOK, SlotInv, Posting
<1>6. ASSUME NEW h \in Handlers, SignalUnlock(h) PROVE SlotInv'
  <2>1. \A g \in Handlers \ {h} : ~Posting(g)
    BY <1>6, OneWriter DEF SignalUnlock, Posting
  <2>2. req[h] \in Posts /\ last = req[h]
    BY <1>6 DEF SignalUnlock, TypeOK, SlotInv
  <2>3. last # NoPost
    BY <2>2, Marks
  <2>4. QED BY <1>6, <2>1, <2>2, <2>3
            DEF SignalUnlock, Goto, history, TypeOK, SlotInv, Posting
<1>7. CASE Acquire \/ Park \/ Take
  BY <1>7, SlotKept, Threads DEF Acquire, Park, Take, handler, history, MutexInv
<1>8. CASE ReadType \/ Lookup \/ NextClient \/ ReadUser \/ ReadBody
  BY <1>8, SlotKept
     DEF ReadType, Lookup, NextClient, ReadUser, ReadBody, slot, handler, history
<1>9. CASE SendNotice \/ SendToNobody \/ Answered \/ SpuriousWakeup
  BY <1>9, SlotKept DEF SendNotice, SendToNobody, Answered, SpuriousWakeup, slot, handler, history
<1>10. CASE UNCHANGED vars
  BY <1>10, SlotKept DEF vars, slot, handler, history
<1>11. QED
  BY <1>1, <1>2, <1>3, <1>4, <1>5, <1>6, <1>7, <1>8, <1>9, <1>10
     DEF Next, NewRequest, Handle, Notify
-----------------------------------------------------------------------------
\* The notices of a post, seen from the audience: one for each of its members.
LEMMA NoticesOf ==
    ASSUME NEW p \in Posts
    PROVE  /\ \A r \in Audience(p.kind, p.user) :
                [to |-> r, kind |-> p.kind, user |-> p.user, body |-> p.body] \in Notices(p)
           /\ \A n \in Notices(p) :
                /\ n.to \in Audience(p.kind, p.user)
                /\ n = [to |-> n.to, kind |-> p.kind, user |-> p.user, body |-> p.body]
BY Marks DEF Notices

\* With the flag down no handler is posting, and the slot holds the last post.
LEMMA Undisturbed ==
    ASSUME TypeOK, MutexInv, FlagInv, SlotInv, ~is_send_client, last # NoPost
    PROVE  /\ last \in Posts
           /\ last.kind \in Kinds /\ last.user \in Users
           /\ notify_type = last.kind
           /\ UserReads(last.kind) = {last.user}
           /\ BodyReads(last.kind) = {last.body}
<1>1. last \in Posts /\ last.kind \in Kinds /\ last.user \in Users
  BY DEF TypeOK, Posts, StatePosts, TextPosts, Kinds
<1>2. state_mutex \notin Handlers
  BY DEF FlagInv
<1>3. \A h \in Handlers : ~Posting(h)
  BY <1>2 DEF MutexInv
<1>4. ~Racing(last.kind, "user") /\ ~Racing(last.kind, "body")
  BY <1>3 DEF Racing, Posting
<1>5. QED
  BY <1>1, <1>2, <1>4 DEF SlotInv, UserReads, BodyReads

LEMMA RoundStep ==
    TypeOK /\ MutexInv /\ FlagInv /\ SlotInv /\ RoundInv /\ [Next]_vars => RoundInv'
<1> SUFFICES ASSUME TypeOK, MutexInv, FlagInv, SlotInv, RoundInv, [Next]_vars,
                    ~is_send_client'
             PROVE  RoundInv'
  BY DEF RoundInv
<1>1. ASSUME NEW h \in Handlers, NEW p \in Posts, Request(h, p) PROVE RoundInv'
  BY <1>1 DEF Request, slot, notifier, history, RoundInv, Outgoing
<1>2. ASSUME NEW h \in Handlers, Handle(h) PROVE FALSE
  <2>1. Posting(h) => state_mutex \in Handlers /\ is_send_client
    BY DEF MutexInv, FlagInv
  <2>2. QED BY <1>2, <2>1 DEF Handle, Raise, WriteType, WriteUser, WriteBody,
                              SignalUnlock, Posting
<1>3. CASE Acquire \/ Park
  BY <1>3 DEF Acquire, Park, history, RoundInv
<1>4. CASE Take
  <2>1. state_mutex = Notifier /\ is_send_client
    BY <1>4 DEF Take, MutexInv
  <2>2. last # NoPost
    BY <2>1, Threads DEF SlotInv
  <2>3. QED BY <1>4, <2>2 DEF Take, history, RoundInv
<1>5. CASE ReadType
  <2>1. last # NoPost /\ ~is_send_client
    BY <1>5 DEF ReadType, slot, RoundInv
  <2>2. notify_type = last.kind /\ notify_type \in Kinds
    BY <2>1, Undisturbed
  <2>3. QED BY <1>5, <2>1, <2>2 DEF ReadType, slot, history, RoundInv
<1>6. CASE Lookup
  <2>1. last # NoPost /\ kind = last.kind /\ ~is_send_client
    BY <1>6 DEF Lookup, slot, RoundInv
  <2>2. Audiences(kind, last.user) = {Audience(last.kind, last.user)}
    BY <2>1, Undisturbed DEF Audiences
  <2>3. todo' = Audience(last.kind, last.user)
    BY <1>6, <2>1, <2>2, Undisturbed DEF Lookup
  <2>4. /\ npc' = IF todo' = {} THEN "lock" ELSE "next"
        /\ todo' # {} => kind' = kind
        /\ UNCHANGED history
    BY <1>6 DEF Lookup
  <2>5. \A n \in Notices(last) : n.to \in todo'
    BY <2>1, <2>3, Undisturbed, NoticesOf
  <2>6. CASE todo' = {}
    <3>1. Notices(last) = {} /\ npc' = "lock"
      BY <2>4, <2>5, <2>6
    <3>2. QED BY <2>4, <3>1 DEF RoundInv, history
  <2>7. CASE todo' # {}
    <3>1. npc' = "next" /\ kind' = last.kind /\ last' = last /\ sent' = sent
      BY <2>1, <2>4, <2>7 DEF history
    <3>2. Notices(last)' = Notices(last)
      BY <3>1 DEF Notices
    <3>3. QED BY <2>1, <2>3, <2>5, <3>1, <3>2 DEF RoundInv
  <2>8. QED BY <2>6, <2>7
<1>7. CASE NextClient
  <2>1. ~is_send_client
    BY <1>7 DEF NextClient, slot
  <2>2. PICK r \in todo : to' = r /\ arg' = [user |-> r, body |-> Empty]
    BY <1>7 DEF NextClient
  <2>3. last # NoPost /\ kind = last.kind /\ todo \subseteq Audience(last.kind, last.user)
    BY <1>7, <2>1 DEF NextClient, RoundInv
  <2>4. "user" \notin unread' => arg'.user = last.user
    BY <1>7, <2>2, <2>3 DEF NextClient, Audience
  <2>5. "body" \in unread'
    BY <1>7 DEF NextClient
  <2>6. /\ \A n \in Notices(last) : n \in sent \/ n.to \in todo
        /\ npc' = "args" /\ UNCHANGED <<kind, todo, last, sent>>
    BY <1>7, <2>1 DEF NextClient, RoundInv, history
  <2>7. Notices(last)' = Notices(last)
    BY <2>6 DEF Notices
  <2>8. QED BY <2>3, <2>4, <2>5, <2>6, <2>7 DEF RoundInv
<1>8. CASE ReadUser \/ ReadBody
  <2>1. ~is_send_client /\ npc = "args" /\ npc' = "args" /\ UNCHANGED <<kind, todo, last, sent>>
    BY <1>8 DEF ReadUser, ReadBody, slot, history
  <2>2. last # NoPost /\ kind = last.kind
    BY <2>1 DEF RoundInv
  <2>3. UserReads(kind) = {last.user} /\ BodyReads(kind) = {last.body}
    BY <2>1, <2>2, Undisturbed
  <2>4. ReadUser => /\ arg'.user = last.user /\ arg'.body = arg.body
                    /\ unread' = unread \ {"user"}
    BY <2>3 DEF ReadUser, TypeOK, Cell
  <2>5. ReadBody => /\ arg'.body = last.body /\ arg'.user = arg.user
                    /\ unread' = unread \ {"body"}
    BY <2>3 DEF ReadBody, TypeOK, Cell
  <2>6. /\ "user" \in unread' \/ arg'.user = last.user
        /\ "body" \in unread' \/ arg'.body = last.body
    BY <1>8, <2>1, <2>4, <2>5 DEF RoundInv
  <2>7. Notices(last)' = Notices(last)
    BY <2>1 DEF Notices
  <2>8. QED BY <2>1, <2>2, <2>6, <2>7 DEF RoundInv
<1>9. CASE SendNotice
  <2>1. ~is_send_client /\ npc = "args" /\ npc' = "reply" /\ unread = {}
        /\ UNCHANGED <<kind, todo, to, last>>
        /\ sent' = sent \cup ({Outgoing} \cap Notices(last))
    BY <1>9 DEF SendNotice, slot
  <2>2. last # NoPost /\ kind = last.kind /\ arg.user = last.user /\ arg.body = last.body
    BY <2>1 DEF RoundInv
  <2>3. Outgoing = [to |-> to, kind |-> last.kind, user |-> last.user, body |-> last.body]
    BY <2>2 DEF Outgoing
  <2>4. \A n \in Notices(last) : n.to = to => n = Outgoing
    BY <2>1, <2>2, <2>3, Undisturbed, NoticesOf
  <2>5. \A n \in Notices(last) : n.to = to => n \in sent'
    BY <2>1, <2>4
  <2>6. /\ todo \subseteq Audience(last.kind, last.user)
        /\ \A n \in Notices(last) : n \in sent \/ n.to \in todo
    BY <2>1 DEF RoundInv
  <2>7. Notices(last)' = Notices(last)
    BY <2>1 DEF Notices
  <2>8. QED BY <2>1, <2>2, <2>5, <2>6, <2>7 DEF RoundInv
<1>10. CASE Answered
  <2>1. /\ ~is_send_client /\ npc = "reply" /\ todo' = todo \ {to}
        /\ npc' = IF todo' = {} THEN "lock" ELSE "next"
        /\ todo' # {} => kind' = kind
        /\ UNCHANGED <<last, sent>>
    BY <1>10 DEF Answered, slot, history
  <2>2. /\ last # NoPost /\ kind = last.kind
        /\ todo \subseteq Audience(last.kind, last.user)
        /\ \A n \in Notices(last) : n \in sent \/ n.to \in todo'
    BY <2>1 DEF RoundInv
  <2>3. Notices(last)' = Notices(last)
    BY <2>1 DEF Notices
  <2>4. CASE todo' = {}
    BY <2>1, <2>2, <2>3, <2>4 DEF RoundInv
  <2>5. CASE todo' # {}
    BY <2>1, <2>2, <2>3, <2>5 DEF RoundInv
  <2>6. QED BY <2>4, <2>5
<1>11. CASE SpuriousWakeup
  BY <1>11 DEF SpuriousWakeup, slot, history, RoundInv
<1>12. CASE UNCHANGED vars
  BY <1>12 DEF vars, slot, notifier, history, RoundInv
<1>13. CASE SendToNobody
  BY <1>13 DEF SendToNobody, slot, RoundInv
<1>14. QED
  BY <1>1, <1>2, <1>3, <1>4, <1>5, <1>6, <1>7, <1>8, <1>9, <1>10, <1>11, <1>12, <1>13
     DEF Next, NewRequest, Notify
-----------------------------------------------------------------------------
\* The strengthened invariant is one: the step from it to the properties of
\* NotifyChannel is in the theorems below.
LEMMA Invariance == Spec => []IInv
<1>1. Init => IInv
  BY TypeInit, InvInit DEF IInv
<1>2. IInv /\ [Next]_vars => IInv'
  BY TypeStep, MutexStep, FlagStep, SlotStep, RoundStep DEF IInv
<1>3. QED BY <1>1, <1>2, PTL DEF Spec

\* The notifier is never left parked with the flag up and nobody to signal it.
THEOREM WakeupSafe == Spec => []NoLostWakeup
<1>1. IInv => NoLostWakeup
  BY DEF IInv, FlagInv, NoLostWakeup
<1>2. QED BY <1>1, Invariance, PTL

\* Latest wins, for any number of handlers overwriting and tearing each
\* other's posts: a parked notifier with the flag down has sent each client
\* concerned exactly what the last complete post said.
THEOREM LatestWins == Spec => []LatestDelivered
<1>1. IInv => LatestDelivered
  BY DEF IInv, RoundInv, LatestDelivered
<1>2. QED BY <1>1, Invariance, PTL

\* Reading the slot after the unlock is harmless as long as no newer post has
\* begun: what is written is a notice of the last post.
THEOREM UndisturbedRounds == Spec => []UndisturbedExact
<1>1. ASSUME IInv, Evaluated, ~is_send_client PROVE Outgoing \in Notices(last)
  <2>1. /\ last # NoPost /\ kind = last.kind
        /\ arg.user = last.user /\ arg.body = last.body
        /\ to \in Audience(last.kind, last.user)
    BY <1>1 DEF IInv, RoundInv, TypeOK, Evaluated
  <2>2. last \in Posts
    BY <1>1, <2>1 DEF IInv, TypeOK
  <2>3. QED BY <2>1, <2>2, NoticesOf DEF Outgoing
<1>2. IInv => UndisturbedExact
  BY <1>1 DEF UndisturbedExact
<1>3. QED BY <1>2, Invariance, PTL

\* The channel is an outbox that forgets a post only for a newer one: a
\* complete post replaces what is owed, a written notice of the last post is
\* owed no longer, no other step of any thread changes what is owed, and the
\* notifier parks only when nothing is.
THEOREM ImplementsOutbox == Spec => OutboxSpec
<1> DEFINE Resting == npc = "wait" /\ ~is_send_client
<1>1. Init => Out!Init
  BY DEF Init, Out!Init, Notices
<1>2. IInv /\ [Next]_vars => [Out!Next]_(Out!vars)
  <2> SUFFICES ASSUME IInv, [Next]_vars PROVE [Out!Next]_(Out!vars)
    OBVIOUS
  <2>0. UNCHANGED history /\ Resting' = Resting => UNCHANGED Out!vars
    BY DEF history, Out!vars, Notices
  <2>1. ASSUME NEW h \in Handlers, WriteBody(h) PROVE Out!Next
    <3>1. req[h] \in Posts /\ is_send_client
      BY <2>1 DEF WriteBody, IInv, TypeOK, MutexInv, FlagInv, Posting
    <3>2. Out!Post(req[h])
      BY <2>1, <3>1 DEF WriteBody, Out!Post, Notices
    <3>3. QED BY <3>1, <3>2 DEF Out!Next
  <2>2. CASE SendNotice
    <3>1. /\ last' = last /\ sent' = sent \cup ({Outgoing} \cap Notices(last))
          /\ ~Resting /\ ~Resting'
      BY <2>2 DEF SendNotice
    <3>2. Notices(last)' = Notices(last)
      BY <3>1 DEF Notices
    <3>3. CASE Outgoing \in Notices(last) \ sent
      <4>1. Out!Send(Outgoing)
        BY <3>1, <3>2, <3>3 DEF Out!Send
      <4>2. QED BY <3>3, <4>1 DEF Out!Next
    <3>4. CASE Outgoing \notin Notices(last) \ sent
      BY <3>1, <3>2, <3>4 DEF Out!vars
    <3>5. QED BY <3>3, <3>4
  <2>3. CASE Park
    <3>1. /\ npc = "test" /\ ~is_send_client /\ Resting'
          /\ UNCHANGED history
      BY <2>3 DEF Park
    <3>2. Notices(last) \ sent = {}
      BY <3>1 DEF IInv, RoundInv
    <3>3. Out!Rest
      BY <3>1, <3>2 DEF Out!Rest, history, Notices
    <3>4. QED BY <3>3 DEF Out!Next
  <2>4. CASE UNCHANGED history /\ Resting /\ ~Resting'
    BY <2>4 DEF Out!Next, Out!Wake, history, Notices
  <2>5. ASSUME NEW h \in Handlers, Raise(h) \/ SignalUnlock(h)
        PROVE  UNCHANGED history /\ (Resting' => Resting)
    BY <2>5 DEF Raise, SignalUnlock, notifier
  <2>6. ASSUME NEW h \in Handlers, \/ WriteType(h) \/ WriteUser(h)
                                   \/ \E p \in Posts : Request(h, p)
        PROVE  UNCHANGED history /\ Resting' = Resting
    BY <2>6 DEF WriteType, WriteUser, Request, slot, notifier
  <2>7. CASE \/ Acquire \/ Take \/ ReadType \/ Lookup \/ NextClient
             \/ ReadUser \/ ReadBody \/ SendToNobody \/ Answered
    <3>1. UNCHANGED history /\ Resting' = Resting
      BY <2>7 DEF Acquire, Take, ReadType, Lookup, NextClient, ReadUser, ReadBody,
                  SendToNobody, Answered
    <3>2. QED BY <2>0, <3>1
  <2>8. CASE SpuriousWakeup
    <3>1. UNCHANGED history /\ ~Resting'
      BY <2>8 DEF SpuriousWakeup
    <3>2. QED BY <2>0, <2>4, <3>1
  <2>9. CASE UNCHANGED vars
    BY <2>0, <2>9 DEF vars, slot, notifier
  <2>10. QED
    BY <2>0, <2>1, <2>2, <2>3, <2>4, <2>5, <2>6, <2>7, <2>8, <2>9
       DEF Next, NewRequest, Handle, Notify
<1>3. QED BY <1>1, <1>2, Invariance, PTL DEF Spec, OutboxSpec, Out!Spec
=============================================================================
