-------------------------------- MODULE Tcp --------------------------------
(***************************************************************************)
(* What the socket calls of client/wrapsock.cpp and server/wrapsock_       *)
(* server.cpp return at one end of a TCP connection, as Linux answers      *)
(* them.  A message is one line, sent by one writen and read by one        *)
(* Readline.  A wrapper logs a failure and returns; SIGPIPE has no handler *)
(* in either program, so it ends the process.  An end is                   *)
(*    "open"    the other end has not closed;                              *)
(*    "eof"     the other end closed after reading everything it was sent; *)
(*    "reset"   the other end closed with something unread;                *)
(*    "shut"    the reset has been seen, by a call or by an answer to it;  *)
(*    "closed"  this end has closed.                                       *)
(***************************************************************************)
EXTENDS Sequences

Sides == {"client", "server"}
Other(s) == IF s = "client" THEN "server" ELSE "client"
Ends == {"open", "eof", "reset", "shut", "closed"}

\* in[s]: what has arrived at s and has not been read.
Links(Lines) == [in : [Sides -> Seq(Lines)], end : [Sides -> Ends]]

\* Socket and Connect, to a process that listens.
Connected == [in |-> [s \in Sides |-> <<>>], end |-> [s \in Sides |-> "open"]]
NoLink    == [in |-> [s \in Sides |-> <<>>], end |-> [s \in Sides |-> "closed"]]

\* writen: the first call after a reset fails, the next raises SIGPIPE.
WriteResult(l, s) == IF l.end[s] \in {"open", "eof"} THEN "sent"
                     ELSE IF l.end[s] = "reset" THEN "error"
                     ELSE "SIGPIPE"

\* A line sent to an end that has closed is lost, and answered by a reset.
Written(l, s, line) == IF l.end[s] = "open"
                       THEN [l EXCEPT !.in[Other(s)] = Append(@, line)]
                       ELSE [l EXCEPT !.end[s] = "shut"]

\* Readline: a length above 0, 0, -1, or it does not return yet.
ReadResult(l, s) == IF l.in[s] # <<>> THEN "line"
                    ELSE IF l.end[s] \in {"eof", "shut"} THEN "end"
                    ELSE IF l.end[s] = "reset" THEN "error"
                    ELSE "block"

AfterRead(l, s) == IF l.in[s] # <<>> THEN [l EXCEPT !.in[s] = Tail(@)]
                   ELSE IF l.end[s] = "reset" THEN [l EXCEPT !.end[s] = "shut"]
                   ELSE l

\* Close, or the end of the process.
CloseAs(l, s, signal) ==
    [in  |-> [l.in EXCEPT ![s] = <<>>],
     end |-> [t \in Sides |-> IF t = s THEN "closed"
                              ELSE IF l.end[t] = "open" THEN signal ELSE l.end[t]]]
Closed(l, s)  == CloseAs(l, s, IF l.in[s] = <<>> THEN "eof" ELSE "reset")

\* The process ends before it has accepted the connection.
Aborted(l, s) == CloseAs(l, s, "reset")
=============================================================================
