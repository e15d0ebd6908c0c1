----------------------------- MODULE LineReader -----------------------------
(***************************************************************************)
(* Readline of the server, server/readline_server.cpp, and of the client,  *)
(* client/wrapsock.cpp: several threads, each on a connection of its own,  *)
(* take lines through one static buffer without a lock.  A thread is named *)
(* like its connection.  Every access to the statics is a step; read()     *)
(* fills the buffer in the step in which it returns.  The one handler that *)
(* is installed, for SIGINT by signal(), restarts the call: no EINTR.      *)
(*                                                                         *)
(* `owner', `done' and `crossed' are history: who filled the buffer last,  *)
(* the bytes a thread has in its finished calls, and whether a thread has  *)
(* ever touched what another had not used up.                              *)
(***************************************************************************)
EXTENDS Integers, Sequences

CONSTANTS Threads,
          Nobody,
          LineLength,   \* every line has this many bytes, newline included
          BufferSize,   \* sizeof(read_buf)
          MaxLine,      \* maxlen: room for one byte less, and the null
          MaxBytes      \* bound: bytes that arrive on one connection

ASSUME Names  == Nobody \notin Threads
ASSUME Sizes  == /\ LineLength \in Nat \ {0} /\ BufferSize \in Nat \ {0}
                 /\ MaxLine \in Nat \ {0, 1}
ASSUME Bound  == MaxBytes \in Nat

VARIABLES arrived,      \* bytes the kernel has received on a connection
          taken,        \* bytes it has given to read()
          peer,         \* "open", "closed" or "reset"
          read_buf, read_cnt, read_ptr,
          pc,           \* "idle", or where the thread is in my_read
          line,         \* the bytes readline has stored
          ret,          \* what it returned: "none", "line", "eof", "error"
          result,       \* what read() returned
          owner, done, crossed

kernel  == <<arrived, taken, peer>>
statics == <<read_buf, read_cnt, read_ptr>>
vars    == <<kernel, statics, pc, line, ret, result, owner, done, crossed>>

\* A byte is known by its connection and its place there; Junk is what was
\* never written to the buffer.
Byte(c, k)  == <<c, k>>
Junk        == Byte(Nobody, 0)
IsNewline(b) == b # Junk /\ b[2] % LineLength = 0
Slots       == 1 .. BufferSize

Init == /\ arrived = [c \in Threads |-> 0] /\ taken = [c \in Threads |-> 0]
        /\ peer = [c \in Threads |-> "open"]
        /\ read_buf = [i \in Slots |-> Junk] /\ read_cnt = 0 /\ read_ptr = 1
        /\ pc = [c \in Threads |-> "idle"]
        /\ line = [c \in Threads |-> <<>>]
        /\ ret = [c \in Threads |-> "none"]
        /\ result = [c \in Threads |-> 0]
        /\ owner = Nobody /\ done = [c \in Threads |-> 0] /\ crossed = FALSE
-----------------------------------------------------------------------------
(* The other end of a connection *)

Arrive(c) ==
    /\ peer[c] = "open" /\ arrived[c] < MaxBytes
    /\ arrived' = [arrived EXCEPT ![c] = @ + 1]
    /\ UNCHANGED <<taken, peer, statics, pc, line, ret, result, owner, done, crossed>>

Shut(c, how) ==
    /\ peer[c] = "open"
    /\ peer' = [peer EXCEPT ![c] = how]
    /\ UNCHANGED <<arrived, taken, statics, pc, line, ret, result, owner, done, crossed>>
-----------------------------------------------------------------------------
(* readline and my_read *)

\* The loops of deal_msg, deal_noyify and the notifier call again, also after
\* the end of the input or an error.
Call(c) ==
    /\ pc[c] = "idle"
    /\ pc' = [pc EXCEPT ![c] = "test"]
    /\ line' = [line EXCEPT ![c] = <<>>]
    /\ ret' = [ret EXCEPT ![c] = "none"]
    /\ done' = [done EXCEPT ![c] = @ + Len(line[c])]
    /\ UNCHANGED <<kernel, statics, result, owner, crossed>>

Test(c) ==
    /\ pc[c] = "test"
    /\ pc' = [pc EXCEPT ![c] = IF read_cnt <= 0 THEN "read" ELSE "take"]
    /\ crossed' = (crossed \/ (read_cnt > 0 /\ owner # c))
    /\ UNCHANGED <<kernel, statics, line, ret, result, owner, done>>

\* A thread is between its read() and the end of its use of what it got.
Using(d) == pc[d] \in {"count", "check", "point", "take", "fetch"}

Returned(c, n) ==
    /\ result' = [result EXCEPT ![c] = n]
    /\ pc' = [pc EXCEPT ![c] = "count"]
    /\ owner' = c
    /\ crossed' = (crossed \/ read_cnt > 0 \/ \E d \in Threads : Using(d))
    /\ UNCHANGED <<arrived, peer, read_cnt, read_ptr, line, ret, done>>

\* Mutant: waits for a full buffer, like fread().
FillWhole(c) ==
    /\ pc[c] = "read"
    /\ \E n \in 1 .. BufferSize :
          /\ n <= arrived[c] - taken[c]
          /\ n = BufferSize \/ peer[c] # "open"
          /\ read_buf' = [i \in Slots |-> IF i <= n THEN Byte(c, taken[c] + i) ELSE read_buf[i]]
          /\ taken' = [taken EXCEPT ![c] = @ + n]
          /\ Returned(c, n)

\* read() gives some of the bytes that are there.
Fill(c) ==
    /\ pc[c] = "read"
    /\ \E n \in 1 .. BufferSize :
          /\ n <= arrived[c] - taken[c]
          /\ read_buf' = [i \in Slots |-> IF i <= n THEN Byte(c, taken[c] + i) ELSE read_buf[i]]
          /\ taken' = [taken EXCEPT ![c] = @ + n]
          /\ Returned(c, n)

\* read() at the end of the input, or on a connection that was reset.
FillNothing(c) ==
    /\ pc[c] = "read"
    /\ \/ peer[c] = "closed" /\ arrived[c] = taken[c] /\ Returned(c, 0)
       \/ peer[c] = "reset" /\ Returned(c, -1)
    /\ UNCHANGED <<read_buf, taken>>

\* Mutant: a place is kept for the null.
CountShort(c) ==
    /\ pc[c] = "count"
    /\ pc' = [pc EXCEPT ![c] = "check"]
    /\ read_cnt' = result[c] - 1
    /\ UNCHANGED <<kernel, read_buf, read_ptr, line, ret, result, owner, done, crossed>>

\* The result is stored in the static,
Count(c) ==
    /\ pc[c] = "count"
    /\ pc' = [pc EXCEPT ![c] = "check"]
    /\ read_cnt' = result[c]
    /\ UNCHANGED <<kernel, read_buf, read_ptr, line, ret, result, owner, done, crossed>>

Return(c, what) ==
    /\ pc' = [pc EXCEPT ![c] = "idle"]
    /\ ret' = [ret EXCEPT ![c] = what]

\* and read again from there.
Check(c) ==
    /\ pc[c] = "check"
    /\ \/ read_cnt < 0 /\ Return(c, "error")
       \/ read_cnt = 0 /\ Return(c, "eof")
       \/ read_cnt > 0 /\ pc' = [pc EXCEPT ![c] = "point"] /\ UNCHANGED ret
    /\ UNCHANGED <<kernel, statics, line, result, owner, done, crossed>>

\* Mutant: reading goes on where it stopped.
PointNowhere(c) ==
    /\ pc[c] = "point"
    /\ pc' = [pc EXCEPT ![c] = "take"]
    /\ UNCHANGED <<kernel, statics, line, ret, result, owner, done, crossed>>

Point(c) ==
    /\ pc[c] = "point"
    /\ pc' = [pc EXCEPT ![c] = "take"]
    /\ read_ptr' = 1
    /\ UNCHANGED <<kernel, read_buf, read_cnt, line, ret, result, owner, done, crossed>>

Take(c) ==
    /\ pc[c] = "take"
    /\ pc' = [pc EXCEPT ![c] = "fetch"]
    /\ read_cnt' = read_cnt - 1
    /\ UNCHANGED <<kernel, read_buf, read_ptr, line, ret, result, owner, done, crossed>>

\* Mutant: no room for the null.
FetchLong(c) ==
    /\ pc[c] = "fetch"
    /\ read_ptr' = read_ptr + 1
    /\ LET byte == IF read_ptr \in Slots THEN read_buf[read_ptr] ELSE Junk IN
       /\ line' = [line EXCEPT ![c] = Append(@, byte)]
       /\ \/ /\ byte = Junk \/ IsNewline(byte) \/ Len(line[c]) + 1 = MaxLine
             /\ Return(c, "line")
          \/ /\ byte = Junk \/ ~IsNewline(byte)
             /\ Len(line[c]) + 1 < MaxLine
             /\ pc' = [pc EXCEPT ![c] = "test"] /\ UNCHANGED ret
    /\ UNCHANGED <<kernel, read_buf, read_cnt, result, owner, done, crossed>>
\* Beyond the buffer lies anything, newlines included.
Fetch(c) ==
    /\ pc[c] = "fetch"
    /\ read_ptr' = read_ptr + 1
    /\ LET byte == IF read_ptr \in Slots THEN read_buf[read_ptr] ELSE Junk IN
       /\ line' = [line EXCEPT ![c] = Append(@, byte)]
       /\ \/ /\ byte = Junk \/ IsNewline(byte) \/ Len(line[c]) + 2 = MaxLine
             /\ Return(c, "line")
          \/ /\ byte = Junk \/ ~IsNewline(byte)
             /\ Len(line[c]) + 2 < MaxLine
             /\ pc' = [pc EXCEPT ![c] = "test"] /\ UNCHANGED ret
    /\ UNCHANGED <<kernel, read_buf, read_cnt, result, owner, done, crossed>>
-----------------------------------------------------------------------------
Step(c) == \/ Call(c) \/ Test(c) \/ Fill(c) \/ FillNothing(c) \/ Count(c)
           \/ Check(c) \/ Point(c) \/ Take(c) \/ Fetch(c)

Next == \E c \in Threads : \/ Step(c) \/ Arrive(c)
                           \/ \E how \in {"closed", "reset"} : Shut(c, how)

Spec == Init /\ [][Next]_vars

\* A thread that can go on does.
FairSpec == Spec /\ \A c \in Threads : WF_vars(Step(c))
-----------------------------------------------------------------------------
TypeOK == /\ arrived \in [Threads -> Nat] /\ taken \in [Threads -> Nat]
          /\ \A c \in Threads : taken[c] <= arrived[c]
          /\ peer \in [Threads -> {"open", "closed", "reset"}]
          /\ read_buf \in [Slots -> (Threads \cup {Nobody}) \X Nat]
          /\ read_cnt \in Int /\ read_ptr \in Nat \ {0}
          /\ pc \in [Threads -> {"idle", "test", "read", "count", "check", "point", "take", "fetch"}]
          /\ line \in [Threads -> Seq((Threads \cup {Nobody}) \X Nat)]
          /\ \A c \in Threads : Len(line[c]) < MaxLine
          /\ ret \in [Threads -> {"none", "line", "eof", "error"}]
          /\ result \in [Threads -> Int]
          /\ owner \in Threads \cup {Nobody} /\ done \in [Threads -> Nat]
          /\ crossed \in BOOLEAN

\* As long as no thread touches what another has not used up, a line has the
\* next bytes of its own connection, in order: however the bytes are split
\* over reads, and though all threads read into one buffer.  And none is lost:
\* when nothing is in the buffer and nobody is at work on it, every byte that
\* was read is in a line.
OwnBytes == ~crossed => \A c \in Threads :
    /\ line[c] = [i \in 1 .. Len(line[c]) |-> Byte(c, done[c] + i)]
    /\ read_cnt <= 0 /\ (\A d \in Threads : ~Using(d)) => taken[c] = done[c] + Len(line[c])

\* Every byte that arrives on a connection that stays open gets into a line.
BytesDelivered == \A c \in Threads : \A k \in 1 .. MaxBytes :
    [](~crossed) => (arrived[c] = k ~> (peer[c] = "reset" \/ done[c] + Len(line[c]) >= k))

\* The run does not follow what comes after a crossing, where the
\* properties above claim nothing.
Uncrossed == ~crossed
=============================================================================
