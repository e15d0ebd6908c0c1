---------------------------- MODULE MCTalkService ----------------------------
(* Bounded instances of TalkService for TLC. *)
EXTENDS TalkService, TLC

CONSTANTS a, b

Mutual == [u \in Users |-> Users \ {u}]
OneWay == [u \in Users |-> IF u = a THEN {b} ELSE {}]
Renaming == Permutations(Clients) \cup Permutations(Users) \cup Permutations(Ports)

\* Bound: Kill after Kill is left out.  What remains are the ends by quit and by
\* SIGPIPE.
OneKill ==
    "killed" \in ended =>
        \A c \in Clients : Running(c) /\ ~Running(c)' =>
            \/ req[c] # None /\ req[c].kind = "quit" /\ ReadResult(link[c], "client") # "block"
            \/ WriteResult(link[c], "client") = "SIGPIPE"
=============================================================================
