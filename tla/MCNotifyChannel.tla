--------------------------- MODULE MCNotifyChannel ---------------------------
(* Bounded instances of NotifyChannel for TLC. *)
EXTENDS NotifyChannel, TLC

CONSTANTS a, b, c

\* c is told of a, and of nobody else.
FriendsOf3 == (a :> {c}) @@ (b :> {a}) @@ (c :> {})

\* Rounds of two calls and of one: a is listed as a friend of its own, which
\* friend_info does not exclude.
FriendsOf2 == (a :> {a, b}) @@ (b :> {a})
=============================================================================
