----------------------------- MODULE MCAccounts -----------------------------
(* Bounded instances of Accounts for TLC. *)
EXTENDS Accounts, TLC

CONSTANTS c1, c2, James, Bob, joy, pw, man, hi

\* James is a friend of Bob and joy; joy's number has the digit 0.
Person == [sex |-> <<man>>, birth |-> <<5>>, hometown |-> <<hi>>]
Account(n, name) == [id |-> n, user_name |-> <<name>>, passwd |-> <<pw>>] @@ Person
ThreeAccounts == <<Account(1, James), Account(2, Bob), Account(10, joy)>>
Pair(m, n) == [user_id |-> m, friend_id |-> n]
TwoFriends == <<Pair(1, 2), Pair(2, 1), Pair(1, 10), Pair(10, 1)>>

Figures1 == (0 .. 5) \cup (1000 .. 1005) \cup {5000, 5001} \cup {7, 10, 101, 102}
TwoPorts == (c1 :> 101) @@ (c2 :> 102)
Address  == <<7>>
Wild     == {1, 7}
Names    == {<<James>>, <<Bob>>, <<pw>>, <<Bob, Semicolon, pw>>}
NewNames == {<<pw>>, <<Bob, Semicolon, pw>>}
Secrets  == {<<pw>>}
Lines    == {<<hi, Semicolon, hi>>}
States   == {"ONLINE", "BUSY", "away"}
=============================================================================
