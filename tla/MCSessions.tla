----------------------------- MODULE MCSessions -----------------------------
(* Bounded instances of Sessions for TLC. *)
EXTENDS Sessions, TLC

CONSTANTS a, b

Renaming == Permutations(Clients) \cup Permutations(Users)
=============================================================================
