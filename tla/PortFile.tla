------------------------------ MODULE PortFile ------------------------------
(***************************************************************************)
(* How the clients on one machine share listening ports: client/           *)
(* read_config.cpp, and main and thread_main of client/client_gui.cpp.  A  *)
(* client reads c_port from config.ini, writes back the next number, binds *)
(* its listener to the port, and writes its own number again when it ends. *)
(* Nothing locks the file.  One read and one write of the file are a step  *)
(* each; the file is shorter than a stdio buffer.                          *)
(*                                                                         *)
(* `since' and `disorder' are history: the order of the starts, and        *)
(* whether the clients have kept to the discipline under which the scheme  *)
(* works, that starts do not overlap with starts and exits, and that       *)
(* clients end in the opposite order.                                      *)
(***************************************************************************)
EXTENDS Integers

CONSTANTS Clients,
          Base,         \* c_port in config.ini before the first start
          PortSpace,    \* 2^16: htons keeps the low 16 bits
          MaxStarts     \* bound: starts in a behaviour

ASSUME FirstPort == Base \in Nat \ {0}
ASSUME Width     == PortSpace \in Nat /\ Base < PortSpace
ASSUME Bound     == MaxStarts \in Nat

VARIABLES c_port,       \* the number in config.ini
          pc,           \* "off", "read", "up", or "leaving" (restored, not ended)
          mine,         \* c_port of the process
          listener,     \* outcome of Bind: "none", "bound", "taken" by another
                        \* client, "refused" (port 0, or a closed connection lingers)
          lingering,    \* ports with closed connections in TIME_WAIT
          starts,       \* number of starts
          since,        \* history: the number of a client's start
          disorder,     \* history: see above
          killed        \* history: a client ended without restoring

vars == <<c_port, pc, mine, listener, lingering, starts, since, disorder, killed>>

Running(c) == pc[c] # "off"

\* Mutant: the number is used as it is.
WireWide(p) == p

\* htons in thread_main, and in the server's client_connect.
Wire(p) == p % PortSpace

Init == /\ c_port = Base
        /\ pc = [c \in Clients |-> "off"]
        /\ mine = [c \in Clients |-> 0]
        /\ listener = [c \in Clients |-> "none"]
        /\ lingering = {}
        /\ starts = 0 /\ since = [c \in Clients |-> 0]
        /\ disorder = FALSE /\ killed = FALSE

\* read_client_data, up to its last line.
Read(c) ==
    /\ pc[c] = "off" /\ starts < MaxStarts
    /\ pc' = [pc EXCEPT ![c] = "read"]
    /\ mine' = [mine EXCEPT ![c] = c_port]
    /\ starts' = starts + 1
    /\ since' = [since EXCEPT ![c] = starts + 1]
    /\ disorder' = (disorder \/ \E d \in Clients : pc[d] \in {"read", "leaving"})
    /\ UNCHANGED <<c_port, listener, lingering, killed>>

\* Mutant: the port is not advanced while somebody listens on the next one.
WriteUnlessBound(c) ==
    /\ pc[c] = "read"
    /\ pc' = [pc EXCEPT ![c] = "up"]
    /\ c_port' = IF \E d \in Clients : listener[d] = "bound" THEN c_port ELSE mine[c] + 1
    /\ UNCHANGED <<mine, listener, lingering, starts, since, disorder, killed>>

\* Mutant: one number is left out.
WriteSkipping(c) ==
    /\ pc[c] = "read"
    /\ pc' = [pc EXCEPT ![c] = "up"]
    /\ c_port' = mine[c] + 2
    /\ UNCHANGED <<mine, listener, lingering, starts, since, disorder, killed>>

\* Its last line.
Write(c) ==
    /\ pc[c] = "read"
    /\ pc' = [pc EXCEPT ![c] = "up"]
    /\ c_port' = mine[c] + 1
    /\ UNCHANGED <<mine, listener, lingering, starts, since, disorder, killed>>

\* thread_main: a failing bind is logged, and the client goes on without.
Bind(c) ==
    /\ pc[c] \in {"up", "leaving"} /\ listener[c] = "none"
    /\ listener' = [listener EXCEPT ![c] =
          IF \E d \in Clients : listener[d] = "bound" /\ Wire(mine[d]) = Wire(mine[c])
             THEN "taken"
          ELSE IF Wire(mine[c]) \in lingering \cup {0} THEN "refused"
          ELSE "bound"]
    /\ UNCHANGED <<c_port, pc, mine, lingering, starts, since, disorder, killed>>

\* Mutant: the next number is restored.
RestoreNext(c) ==
    /\ pc[c] = "up"
    /\ pc' = [pc EXCEPT ![c] = "leaving"]
    /\ c_port' = mine[c] + 1
    /\ disorder' = (disorder \/ \E d \in Clients : Running(d) /\ since[d] > since[c])
    /\ UNCHANGED <<mine, listener, lingering, starts, since, killed>>

\* restore_client_data: at the end of main, or when the server is not there.
Restore(c) ==
    /\ pc[c] = "up"
    /\ pc' = [pc EXCEPT ![c] = "leaving"]
    /\ c_port' = mine[c]
    /\ disorder' = (disorder \/ \E d \in Clients : Running(d) /\ since[d] > since[c])
    /\ UNCHANGED <<mine, listener, lingering, starts, since, killed>>

\* The process ends; if it had answered notices, its port stays in use a while.
End(c) ==
    /\ pc' = [pc EXCEPT ![c] = "off"]
    /\ listener' = [listener EXCEPT ![c] = "none"]
    /\ \/ UNCHANGED lingering
       \/ listener[c] = "bound" /\ lingering' = lingering \cup {Wire(mine[c])}
    /\ UNCHANGED <<c_port, mine, starts, since, disorder>>

Leave(c) == pc[c] = "leaving" /\ End(c) /\ UNCHANGED killed

Kill(c) == Running(c) /\ End(c) /\ killed' = TRUE

Expire(p) ==
    /\ p \in lingering
    /\ lingering' = lingering \ {p}
    /\ UNCHANGED <<c_port, pc, mine, listener, starts, since, disorder, killed>>

Next == \/ \E c \in Clients : Read(c) \/ Write(c) \/ Bind(c) \/ Restore(c) \/ Leave(c) \/ Kill(c)
        \/ \E p \in lingering : Expire(p)

Spec == Init /\ [][Next]_vars
-----------------------------------------------------------------------------
TypeOK == /\ c_port \in Nat /\ starts \in Nat
          /\ pc \in [Clients -> {"off", "read", "up", "leaving"}]
          /\ mine \in [Clients -> Nat] /\ since \in [Clients -> Nat]
          /\ listener \in [Clients -> {"none", "bound", "taken", "refused"}]
          /\ lingering \subseteq 0 .. PortSpace - 1
          /\ disorder \in BOOLEAN /\ killed \in BOOLEAN

\* As long as the clients keep to the discipline, no two have the same
\* number, and none finds its port taken by another while there have been too
\* few starts for the numbers to exceed 16 bits; killed clients do no harm.
Distinct == ~disorder =>
    /\ \A c, d \in Clients : Running(c) /\ Running(d) /\ mine[c] = mine[d] => c = d
    /\ (\E c \in Clients : listener[c] = "taken") => Base + starts > PortSpace

\* If none was killed either, the file is as before the first start when the
\* last client has ended: no number is lost.
Restored == ~disorder /\ ~killed /\ (\A c \in Clients : ~Running(c)) => c_port = Base

\* Whatever the clients do, the number in the file is one of a client that
\* started or the next: it never falls below the first, and the starts bound it.
InRange == /\ Base <= c_port /\ c_port <= Base + starts
           /\ \A c \in Clients : Running(c) => Base <= mine[c] /\ mine[c] < Base + since[c]
=============================================================================
