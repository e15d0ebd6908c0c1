------------------------------- MODULE Outbox -------------------------------
(***************************************************************************)
(* What the notification hand-off of the server promises, and no more: the *)
(* notices the latest post calls for are owed until each has been sent; a  *)
(* newer post replaces whatever is still owed; and the outbox rests only   *)
(* when it owes nothing, until the next post begins.                       *)
(***************************************************************************)
CONSTANTS Posts,       \* the notifications a handler can post
          Notices(_),  \* Notices(p): the notices that post p calls for
          NoPost       \* before the first post

VARIABLES latest,      \* the last post, or NoPost
          owed,        \* the notices of `latest' not sent yet
          resting      \* whether the outbox has gone to sleep

vars == <<latest, owed, resting>>

Init == latest = NoPost /\ owed = {} /\ resting = FALSE

\* A newer post: what was owed is forgotten.
Post(p) == ~resting /\ latest' = p /\ owed' = Notices(p) /\ UNCHANGED resting

\* One owed notice is written to its client.
Send(n) == ~resting /\ n \in owed /\ owed' = owed \ {n} /\ UNCHANGED <<latest, resting>>

Rest == owed = {} /\ ~resting /\ resting' = TRUE /\ UNCHANGED <<latest, owed>>
Wake == resting /\ resting' = FALSE /\ UNCHANGED <<latest, owed>>

Next == \/ \E p \in Posts : Post(p)
        \/ \E n \in owed : Send(n)
        \/ Rest
        \/ Wake

Spec == Init /\ [][Next]_vars
=============================================================================
