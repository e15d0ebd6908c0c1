-------------------------- MODULE LineReaderProofs --------------------------
(***************************************************************************)
(* Proofs about the line reader, for any number of threads and bytes, any  *)
(* length of the lines and any size of the buffers.                        *)
(***************************************************************************)
EXTENDS LineReader, TLAPS

\* A thread in a call still has room for a byte and the null.
RoomInv == \A c \in Threads : pc[c] # "idle" => Len(line[c]) + 2 <= MaxLine

TypeInv == TypeOK /\ RoomInv

LEMMA TypeInit == Init => TypeInv
<1> SUFFICES ASSUME Init PROVE TypeInv
  OBVIOUS
<1> USE Sizes, Bound DEF Init, Slots, Junk, Byte
<1>1. TypeOK
  <2>1. Junk \in (Threads \cup {Nobody}) \X Nat
    OBVIOUS
  <2>2. read_buf \in [Slots -> (Threads \cup {Nobody}) \X Nat]
    BY <2>1
  <2>3. \A c \in Threads : taken[c] <= arrived[c] /\ Len(line[c]) < MaxLine
    <3> SUFFICES ASSUME NEW c \in Threads PROVE taken[c] <= arrived[c] /\ Len(line[c]) < MaxLine
      OBVIOUS
    <3>1. taken[c] = 0 /\ arrived[c] = 0 /\ line[c] = <<>>
      OBVIOUS
    <3>2. QED BY <3>1
  <2>4. line \in [Threads -> Seq((Threads \cup {Nobody}) \X Nat)]
    OBVIOUS
  <2>5. crossed \in BOOLEAN
    BY Zenon
  <2>6. QED BY <2>2, <2>3, <2>4, <2>5 DEF TypeOK
<1>2. RoomInv
  BY DEF RoomInv
<1>3. QED BY <1>1, <1>2 DEF TypeInv

\* The steps that touch no line, by what they leave alone.
LEMMA TypeFrame ==
    ASSUME TypeInv, NEW c \in Threads,
           UNCHANGED <<line, done>>,
           arrived' \in [Threads -> Nat], taken' \in [Threads -> Nat],
           \A d \in Threads : taken'[d] <= arrived'[d],
           peer' \in [Threads -> {"open", "closed", "reset"}],
           read_buf' \in [Slots -> (Threads \cup {Nobody}) \X Nat],
           read_cnt' \in Int, read_ptr' \in Nat \ {0},
           NEW at \in {"idle", "test", "read", "count", "check", "point", "take", "fetch"},
           pc' = [pc EXCEPT ![c] = at], at # "idle" => pc[c] # "idle",
           ret' \in [Threads -> {"none", "line", "eof", "error"}],
           result' \in [Threads -> Int],
           owner' \in Threads \cup {Nobody}, crossed' \in BOOLEAN
    PROVE  TypeInv'
<1>1. pc' \in [Threads -> {"idle", "test", "read", "count", "check", "point", "take", "fetch"}]
  BY DEF TypeInv, TypeOK
<1>2. TypeOK'
  BY <1>1 DEF TypeInv, TypeOK
<1>3. RoomInv'
  BY DEF TypeInv, TypeOK, RoomInv
<1>4. QED BY <1>2, <1>3 DEF TypeInv

LEMMA TypeOther == ASSUME TypeInv, NEW c \in Threads,
                          Arrive(c) \/ \E how \in {"closed", "reset"} : Shut(c, how)
                   PROVE  TypeInv'
<1>1. CASE Arrive(c)
  <2>1. arrived' = [arrived EXCEPT ![c] = arrived[c] + 1] /\ arrived \in [Threads -> Nat]
        /\ taken \in [Threads -> Nat] /\ \A d \in Threads : taken[d] <= arrived[d]
    BY <1>1 DEF Arrive, TypeInv, TypeOK
  <2>2. arrived' \in [Threads -> Nat] /\ \A d \in Threads : taken[d] <= arrived'[d]
    BY <2>1
  <2>3. UNCHANGED <<taken, peer, read_buf, read_cnt, read_ptr, pc, line, ret, result, owner, done, crossed>>
    BY <1>1 DEF Arrive, statics
  <2>4. QED BY <2>2, <2>3 DEF TypeInv, TypeOK, RoomInv
<1>2. CASE \E how \in {"closed", "reset"} : Shut(c, how)
  <2>1. peer' \in [Threads -> {"open", "closed", "reset"}]
    BY <1>2 DEF Shut, TypeInv, TypeOK
  <2>2. UNCHANGED <<arrived, taken, read_buf, read_cnt, read_ptr, pc, line, ret, result, owner, done, crossed>>
    BY <1>2 DEF Shut, statics
  <2>3. QED BY <2>1, <2>2 DEF TypeInv, TypeOK, RoomInv
<1>3. QED BY <1>1, <1>2

LEMMA TypeCall == ASSUME TypeInv, NEW c \in Threads, Call(c) PROVE TypeInv'
<1>1. /\ pc[c] = "idle" /\ pc' = [pc EXCEPT ![c] = "test"] /\ line' = [line EXCEPT ![c] = <<>>]
      /\ ret' = [ret EXCEPT ![c] = "none"] /\ done' = [done EXCEPT ![c] = done[c] + Len(line[c])]
      /\ UNCHANGED <<arrived, taken, peer, read_buf, read_cnt, read_ptr, result, owner, crossed>>
  BY DEF Call, kernel, statics
<1>2. line[c] \in Seq((Threads \cup {Nobody}) \X Nat) /\ done \in [Threads -> Nat]
  BY DEF TypeInv, TypeOK
<1>3. done[c] + Len(line[c]) \in Nat
  BY <1>2
<1>4. done' \in [Threads -> Nat]
  BY <1>1, <1>2, <1>3
<1>5. line' \in [Threads -> Seq((Threads \cup {Nobody}) \X Nat)]
      /\ \A d \in Threads : Len(line'[d]) < MaxLine
  <2>1. <<>> \in Seq((Threads \cup {Nobody}) \X Nat) /\ Len(<<>>) < MaxLine
    BY Sizes
  <2>2. line \in [Threads -> Seq((Threads \cup {Nobody}) \X Nat)]
        /\ \A d \in Threads : Len(line[d]) < MaxLine
    BY DEF TypeInv, TypeOK
  <2>3. QED BY <1>1, <2>1, <2>2
<1>6. TypeOK'
  BY <1>1, <1>4, <1>5 DEF TypeInv, TypeOK
<1>7. RoomInv'
  BY <1>1, Sizes DEF TypeInv, TypeOK, RoomInv
<1>8. QED BY <1>6, <1>7 DEF TypeInv

LEMMA TypeTest == ASSUME TypeInv, NEW c \in Threads, Test(c) PROVE TypeInv'
<1>1. /\ pc[c] = "test" /\ pc' = [pc EXCEPT ![c] = IF read_cnt <= 0 THEN "read" ELSE "take"]
      /\ UNCHANGED <<arrived, taken, peer, read_buf, read_cnt, read_ptr, line, ret, result, owner, done>>
  BY DEF Test, kernel, statics
<1>2. crossed' \in BOOLEAN
  BY DEF Test
<1>3. CASE read_cnt <= 0
  BY <1>1, <1>2, <1>3, TypeFrame DEF TypeInv, TypeOK
<1>4. CASE ~(read_cnt <= 0)
  BY <1>1, <1>2, <1>4, TypeFrame DEF TypeInv, TypeOK
<1>5. QED BY <1>3, <1>4

LEMMA TypeFill == ASSUME TypeInv, NEW c \in Threads, Fill(c) \/ FillNothing(c) PROVE TypeInv'
<1>1. ASSUME NEW n \in Int, Returned(c, n)
      PROVE  /\ result' \in [Threads -> Int] /\ pc' = [pc EXCEPT ![c] = "count"] /\ owner' = c
             /\ crossed' \in BOOLEAN /\ UNCHANGED <<arrived, peer, read_cnt, read_ptr, line, ret, done>>
  <2>1. crossed' \in BOOLEAN
    BY <1>1 DEF Returned
  <2>2. QED BY <1>1, <2>1 DEF Returned, TypeInv, TypeOK
<1>2. CASE Fill(c)
  <2>1. PICK n \in 1 .. BufferSize :
           /\ n <= arrived[c] - taken[c]
           /\ read_buf' = [i \in Slots |-> IF i <= n THEN Byte(c, taken[c] + i) ELSE read_buf[i]]
           /\ taken' = [taken EXCEPT ![c] = taken[c] + n]
           /\ Returned(c, n)
    BY <1>2 DEF Fill
  <2>2. taken \in [Threads -> Nat] /\ arrived \in [Threads -> Nat] /\ n \in Nat
        /\ \A d \in Threads : taken[d] <= arrived[d]
    BY Sizes DEF TypeInv, TypeOK
  <2>3. taken' \in [Threads -> Nat] /\ \A d \in Threads : taken'[d] <= arrived[d]
    BY <2>1, <2>2
  <2>4. read_buf' \in [Slots -> (Threads \cup {Nobody}) \X Nat]
    <3>1. \A i \in Slots : taken[c] + i \in Nat
      BY <2>2, Sizes DEF Slots
    <3>2. QED BY <2>1, <3>1 DEF Byte, TypeInv, TypeOK
  <2>5. /\ result' \in [Threads -> Int] /\ pc' = [pc EXCEPT ![c] = "count"] /\ owner' = c
        /\ crossed' \in BOOLEAN /\ UNCHANGED <<arrived, peer, read_cnt, read_ptr, line, ret, done>>
    BY <1>1, <2>1, <2>2
  <2>6. pc[c] # "idle"
    BY <1>2 DEF Fill
  <2>7. QED BY <2>2, <2>3, <2>4, <2>5, <2>6, TypeFrame DEF TypeInv, TypeOK
<1>3. CASE FillNothing(c)
  <2>1. pc[c] = "read" /\ (Returned(c, 0) \/ Returned(c, -1)) /\ UNCHANGED <<read_buf, taken>>
    BY <1>3 DEF FillNothing
  <2>2. /\ result' \in [Threads -> Int] /\ pc' = [pc EXCEPT ![c] = "count"] /\ owner' = c
        /\ crossed' \in BOOLEAN /\ UNCHANGED <<arrived, peer, read_cnt, read_ptr, line, ret, done>>
    BY <1>1, <2>1
  <2>3. QED BY <2>1, <2>2, TypeFrame DEF TypeInv, TypeOK
<1>4. QED BY <1>2, <1>3

LEMMA TypeSteps == ASSUME TypeInv, NEW c \in Threads,
                          Count(c) \/ Check(c) \/ Point(c) \/ Take(c)
                   PROVE  TypeInv'
<1> USE DEF TypeInv, TypeOK, kernel, statics
<1>1. CASE Count(c)
  BY <1>1, TypeFrame DEF Count
<1>2. CASE Check(c)
  <2>1. pc[c] = "check" /\ UNCHANGED <<kernel, statics, line, result, owner, done, crossed>>
        /\ \E at \in {"idle", "point"} : pc' = [pc EXCEPT ![c] = at]
        /\ ret' \in [Threads -> {"none", "line", "eof", "error"}]
    BY <1>2 DEF Check, Return
  <2>2. PICK at \in {"idle", "point"} : pc' = [pc EXCEPT ![c] = at]
    BY <2>1
  <2>3. QED BY <2>1, <2>2, TypeFrame
<1>3. CASE Point(c)
  <2>1. /\ pc[c] = "point" /\ pc' = [pc EXCEPT ![c] = "take"] /\ read_ptr' \in Nat \ {0}
        /\ UNCHANGED <<arrived, taken, peer, read_buf, read_cnt, line, ret, result, owner, done, crossed>>
    BY <1>3 DEF Point
  <2>2. QED BY <2>1, TypeFrame
<1>4. CASE Take(c)
  <2>1. /\ pc[c] = "take" /\ pc' = [pc EXCEPT ![c] = "fetch"] /\ read_cnt' \in Int
        /\ UNCHANGED <<arrived, taken, peer, read_buf, read_ptr, line, ret, result, owner, done, crossed>>
    BY <1>4 DEF Take
  <2>2. QED BY <2>1, TypeFrame
<1>5. QED BY <1>1, <1>2, <1>3, <1>4

\* What a fetch does to the line.
Fetched == IF read_ptr \in Slots THEN read_buf[read_ptr] ELSE Junk

LEMMA TypeFetch == ASSUME TypeInv, NEW c \in Threads, Fetch(c) PROVE TypeInv'
<1>1. /\ pc[c] = "fetch" /\ read_ptr' = read_ptr + 1
      /\ line' = [line EXCEPT ![c] = Append(line[c], Fetched)]
      /\ UNCHANGED <<arrived, taken, peer, read_buf, read_cnt, result, owner, done, crossed>>
  BY DEF Fetch, Fetched, kernel
<1>2. \/ pc' = [pc EXCEPT ![c] = "idle"] /\ ret' = [ret EXCEPT ![c] = "line"]
      \/ pc' = [pc EXCEPT ![c] = "test"] /\ ret' = ret /\ Len(line[c]) + 2 < MaxLine
  BY DEF Fetch, Return
<1>3. line[c] \in Seq((Threads \cup {Nobody}) \X Nat) /\ Fetched \in (Threads \cup {Nobody}) \X Nat
      /\ Len(line[c]) + 2 <= MaxLine
  BY <1>1 DEF TypeInv, TypeOK, RoomInv, Fetched, Junk, Byte
<1>4. Append(line[c], Fetched) \in Seq((Threads \cup {Nobody}) \X Nat)
      /\ Len(Append(line[c], Fetched)) = Len(line[c]) + 1 /\ Len(line[c]) \in Nat
  BY <1>3
<1>5. line' \in [Threads -> Seq((Threads \cup {Nobody}) \X Nat)]
      /\ \A d \in Threads : Len(line'[d]) < MaxLine
  <2>1. Len(Append(line[c], Fetched)) < MaxLine
    BY <1>3, <1>4, Sizes
  <2>2. line \in [Threads -> Seq((Threads \cup {Nobody}) \X Nat)]
        /\ \A d \in Threads : Len(line[d]) < MaxLine
    BY DEF TypeInv, TypeOK
  <2>3. line' \in [Threads -> Seq((Threads \cup {Nobody}) \X Nat)]
    BY <1>1, <1>4, <2>2
  <2>4. \A d \in Threads : line'[d] = IF d = c THEN Append(line[c], Fetched) ELSE line[d]
    BY <1>1, <2>2
  <2>5. QED BY <2>1, <2>2, <2>3, <2>4
<1>6. pc' \in [Threads -> {"idle", "test", "read", "count", "check", "point", "take", "fetch"}]
      /\ ret' \in [Threads -> {"none", "line", "eof", "error"}]
  BY <1>2 DEF TypeInv, TypeOK
<1>7. TypeOK'
  <2>1. read_ptr' \in Nat \ {0}
    BY <1>1 DEF TypeInv, TypeOK
  <2>2. QED BY <1>1, <1>5, <1>6, <2>1 DEF TypeInv, TypeOK
<1>8. RoomInv'
  <2> SUFFICES ASSUME NEW d \in Threads, pc'[d] # "idle" PROVE Len(line'[d]) + 2 <= MaxLine
    BY DEF RoomInv
  <2>1. CASE d = c
    BY <1>1, <1>2, <1>3, <1>4, <2>1, Sizes DEF TypeInv, TypeOK
  <2>2. CASE d # c
    BY <1>1, <1>2, <2>2 DEF TypeInv, TypeOK, RoomInv
  <2>3. QED BY <2>1, <2>2
<1>9. QED BY <1>7, <1>8 DEF TypeInv

\* In every interleaving of the threads, crossed or not, no line is longer than
\* the array of the caller (readline).
THEOREM TypeCorrect == Spec => []TypeOK
<1>1. TypeInv /\ [Next]_vars => TypeInv'
  <2>1. TypeInv /\ UNCHANGED vars => TypeInv'
    BY DEF TypeInv, TypeOK, RoomInv, vars, kernel, statics
  <2>2. QED BY <2>1, TypeOther, TypeCall, TypeTest, TypeFill, TypeSteps, TypeFetch DEF Next, Step
<1>2. TypeInv => TypeOK
  BY DEF TypeInv
<1>3. QED BY <1>1, <1>2, TypeInit, PTL DEF Spec
-----------------------------------------------------------------------------
\* The bytes of a connection that are in lines.
Total(c) == done[c] + Len(line[c])

\* Before a crossing only the thread that filled the buffer is at work on it.
OneInv == \A c \in Threads : Using(c) => owner = c

\* It moves on with what it read.
PlaceInv == \A c \in Threads :
    /\ pc[c] \in {"check", "point"} => read_cnt = result[c]
    /\ pc[c] \in {"point", "take"} => read_cnt > 0
    /\ pc[c] = "fetch" => read_cnt >= 0

\* How many bytes in the buffer the owner has not used, and from where.
Ahead(c) == IF pc[c] \in {"count", "check", "point"} THEN IF result[c] > 0 THEN result[c] ELSE 0
            ELSE IF pc[c] = "fetch" THEN read_cnt + 1
            ELSE IF owner = c /\ read_cnt > 0 THEN read_cnt ELSE 0

From(c) == IF pc[c] \in {"count", "check", "point"} THEN 1 ELSE read_ptr

\* They are the next ones of its connection, and of no other connection is
\* anything in the buffer.
AheadInv == \A c \in Threads :
    /\ taken[c] = Total(c) + Ahead(c)
    /\ \A j \in Nat : j < Ahead(c) =>
           /\ From(c) + j \in Slots
           /\ read_buf[From(c) + j] = Byte(c, Total(c) + 1 + j)

LineInv == \A c \in Threads : \A i \in 1 .. Len(line[c]) : line[c][i] = Byte(c, done[c] + i)

Clean == OneInv /\ PlaceInv /\ AheadInv /\ LineInv /\ (owner = Nobody => read_cnt <= 0)

CInv == ~crossed => Clean
-----------------------------------------------------------------------------
LEMMA CleanInit == Init => CInv
<1> SUFFICES ASSUME Init PROVE Clean
  BY DEF CInv
<1>1. \A c \in Threads : /\ pc[c] = "idle" /\ line[c] = <<>> /\ done[c] = 0 /\ taken[c] = 0
                         /\ Len(line[c]) = 0
  BY DEF Init
<1>2. owner = Nobody /\ read_cnt = 0
  BY DEF Init
<1>3. OneInv /\ PlaceInv
  BY <1>1 DEF OneInv, PlaceInv, Using
<1>4. \A c \in Threads : Ahead(c) = 0 /\ Total(c) = 0
  <2> SUFFICES ASSUME NEW c \in Threads PROVE Ahead(c) = 0 /\ Total(c) = 0
    OBVIOUS
  <2>1. Ahead(c) = 0
    BY <1>1, <1>2 DEF Ahead
  <2>2. done[c] = 0 /\ Len(line[c]) = 0
    BY <1>1
  <2>3. QED BY <2>1, <2>2 DEF Total
<1>5. AheadInv
  <2>1. \A j \in Nat : ~(j < 0)
    OBVIOUS
  <2>2. \A c \in Threads : taken[c] = Total(c) + Ahead(c)
    <3> SUFFICES ASSUME NEW c \in Threads PROVE taken[c] = Total(c) + Ahead(c)
      OBVIOUS
    <3>1. taken[c] = 0 /\ Total(c) = 0 /\ Ahead(c) = 0
      BY <1>1, <1>4
    <3>2. QED BY <3>1
  <2>3. \A c \in Threads, j \in Nat : ~(j < Ahead(c))
    BY <1>4, <2>1
  <2>4. QED BY <2>2, <2>3 DEF AheadInv
<1>6. LineInv
  <2> SUFFICES ASSUME NEW c \in Threads, NEW i \in 1 .. Len(line[c]) PROVE FALSE
    BY DEF LineInv
  <2>1. Len(line[c]) = 0
    BY <1>1
  <2>2. QED BY <2>1
<1>7. QED BY <1>2, <1>3, <1>5, <1>6 DEF Clean

\* What the proofs below need of the types.
LEMMA Kinds == ASSUME TypeInv
               PROVE  /\ read_cnt \in Int /\ read_ptr \in Nat /\ owner \in Threads \cup {Nobody}
                      /\ pc \in [Threads -> {"idle", "test", "read", "count", "check", "point", "take", "fetch"}]
                      /\ \A c \in Threads : /\ result[c] \in Int /\ taken[c] \in Nat /\ done[c] \in Nat
                                             /\ Len(line[c]) \in Nat /\ Total(c) \in Nat
<1>1. ASSUME NEW c \in Threads
      PROVE  /\ result[c] \in Int /\ taken[c] \in Nat /\ done[c] \in Nat
             /\ Len(line[c]) \in Nat /\ Total(c) \in Nat
  <2>1. line[c] \in Seq((Threads \cup {Nobody}) \X Nat) /\ done[c] \in Nat
    BY DEF TypeInv, TypeOK
  <2>2. Len(line[c]) \in Nat
    BY <2>1
  <2>3. QED BY <2>1, <2>2 DEF TypeInv, TypeOK, Total
<1>2. QED BY <1>1 DEF TypeInv, TypeOK

LEMMA CleanOther == ASSUME CInv, NEW c \in Threads,
                           Arrive(c) \/ (\E how \in {"closed", "reset"} : Shut(c, how)) \/ UNCHANGED vars
                    PROVE  CInv'
<1>1. UNCHANGED <<taken, read_buf, read_cnt, read_ptr, pc, line, result, owner, done, crossed>>
  BY DEF Arrive, Shut, vars, kernel, statics
<1>2. QED BY <1>1 DEF CInv, Clean, OneInv, PlaceInv, AheadInv, LineInv, Using, Ahead, From, Total

\* The next call begins where the last one ended.
LEMMA CleanCall == ASSUME TypeInv, CInv, NEW c \in Threads, Call(c) PROVE CInv'
<1>1. /\ pc[c] = "idle" /\ pc' = [pc EXCEPT ![c] = "test"] /\ line' = [line EXCEPT ![c] = <<>>]
      /\ done' = [done EXCEPT ![c] = done[c] + Len(line[c])]
      /\ UNCHANGED <<taken, read_buf, read_cnt, read_ptr, result, owner, crossed>>
  BY DEF Call, kernel, statics
<1> SUFFICES ASSUME ~crossed, Clean PROVE Clean'
  BY <1>1 DEF CInv
<1>2. /\ line \in [Threads -> Seq((Threads \cup {Nobody}) \X Nat)] /\ done \in [Threads -> Nat]
      /\ pc \in [Threads -> {"idle", "test", "read", "count", "check", "point", "take", "fetch"}]
  BY DEF TypeInv, TypeOK
<1>3. ASSUME NEW d \in Threads
      PROVE  /\ Total(d)' = Total(d)
             /\ pc'[d] = pc[d] \/ (pc[d] = "idle" /\ pc'[d] = "test")
             /\ (line'[d] = line[d] /\ done'[d] = done[d]) \/ Len(line'[d]) = 0
  <2>1. CASE d = c
    <3>1. line'[d] = <<>> /\ done'[d] = done[d] + Len(line[d])
      BY <1>1, <1>2, <2>1
    <3>2. Len(line'[d]) = 0
      BY <3>1
    <3>3. Total(d)' = Total(d)
      BY <3>1, <3>2, Kinds DEF Total
    <3>4. QED BY <1>1, <1>2, <2>1, <3>2, <3>3
  <2>2. CASE d # c
    BY <1>1, <1>2, <2>2 DEF Total
  <2>3. QED BY <2>1, <2>2
<1>4. \A d \in Threads : Ahead(d)' = Ahead(d) /\ From(d)' = From(d)
  BY <1>1, <1>3 DEF Ahead, From
<1>5. OneInv' /\ PlaceInv'
  BY <1>1, <1>3 DEF Clean, OneInv, PlaceInv, Using
<1>6. AheadInv'
  BY <1>1, <1>3, <1>4 DEF Clean, AheadInv
<1>7. LineInv'
  <2> SUFFICES ASSUME NEW d \in Threads, NEW i \in 1 .. Len(line'[d])
               PROVE  line'[d][i] = Byte(d, done'[d] + i)
    BY DEF LineInv
  <2>1. line'[d] = line[d] /\ done'[d] = done[d]
    BY <1>3
  <2>2. QED BY <2>1 DEF Clean, LineInv
<1>8. QED BY <1>1, <1>5, <1>6, <1>7 DEF Clean

\* Steps of the owner, or of a thread that finds the buffer empty: the
\* positions move, the bytes ahead do not.
LEMMA Moving ==
    ASSUME TypeInv, Clean, NEW c \in Threads,
           UNCHANGED <<taken, read_buf, line, result, owner, done>>,
           NEW at \in {"idle", "test", "read", "count", "check", "point", "take", "fetch"},
           pc' = [pc EXCEPT ![c] = at],
           at \in {"count", "check", "point", "take", "fetch"} => owner = c,
           (read_cnt' = read_cnt /\ read_ptr' = read_ptr) \/ owner = c,
           at \in {"check", "point"} => read_cnt' = result[c],
           at \in {"point", "take"} => read_cnt' > 0,
           at = "fetch" => read_cnt' >= 0,
           Ahead(c)' = Ahead(c), Ahead(c) > 0 => From(c)' = From(c)
    PROVE  Clean'
<1>1. \A d \in Threads : pc'[d] = IF d = c THEN at ELSE pc[d]
  BY Kinds
<1>2. OneInv'
  BY <1>1 DEF Clean, OneInv, Using
<1>3. \A d \in Threads : d # c => ~Using(d) \/ UNCHANGED <<read_cnt, read_ptr>>
  BY DEF Clean, OneInv
<1>4. PlaceInv'
  BY <1>1, <1>3 DEF Clean, PlaceInv, Using
<1>5. \A d \in Threads : Ahead(d)' = Ahead(d) /\ (Ahead(d) > 0 => From(d)' = From(d)) /\ Total(d)' = Total(d)
  <2> SUFFICES ASSUME NEW d \in Threads, d # c PROVE Ahead(d)' = Ahead(d) /\ (Ahead(d) > 0 => From(d)' = From(d))
    BY DEF Total
  <2>1. CASE UNCHANGED <<read_cnt, read_ptr>>
    BY <1>1, <2>1 DEF Ahead, From
  <2>2. CASE owner = c
    <3>1. pc'[d] = pc[d] /\ pc[d] \notin {"count", "check", "point", "take", "fetch"}
      BY <1>1, <2>2 DEF Clean, OneInv, Using
    <3>2. Ahead(d) = 0 /\ Ahead(d)' = 0
      BY <2>2, <3>1 DEF Ahead
    <3>3. QED BY <3>2
  <2>3. QED BY <2>1, <2>2
<1>6. AheadInv'
  <2> SUFFICES ASSUME NEW d \in Threads
               PROVE  /\ taken[d] = Total(d) + Ahead(d)
                      /\ \A j \in Nat : j < Ahead(d) => /\ From(d)' + j \in Slots
                                                       /\ read_buf[From(d)' + j] = Byte(d, Total(d) + 1 + j)
    BY <1>5 DEF AheadInv
  <2>1. Ahead(d) \in Int
    BY Kinds DEF Ahead
  <2>2. CASE Ahead(d) > 0
    BY <1>5, <2>2 DEF Clean, AheadInv
  <2>3. CASE ~(Ahead(d) > 0)
    BY <2>1, <2>3 DEF Clean, AheadInv
  <2>4. QED BY <2>2, <2>3
<1>7. LineInv'
  BY DEF Clean, LineInv
<1>8. owner' = Nobody => read_cnt' <= 0
  BY Names DEF Clean
<1>9. QED BY <1>2, <1>4, <1>6, <1>7, <1>8 DEF Clean

LEMMA CleanTest == ASSUME TypeInv, CInv, NEW c \in Threads, Test(c) PROVE CInv'
<1>1. /\ pc[c] = "test" /\ pc' = [pc EXCEPT ![c] = IF read_cnt <= 0 THEN "read" ELSE "take"]
      /\ crossed' = (crossed \/ (read_cnt > 0 /\ owner # c))
      /\ UNCHANGED <<taken, read_buf, read_cnt, read_ptr, line, result, owner, done>>
  BY DEF Test, kernel, statics
<1> SUFFICES ASSUME ~crossed, ~(read_cnt > 0 /\ owner # c), Clean PROVE Clean'
  BY <1>1 DEF CInv
<1>2. CASE read_cnt <= 0
  <2>1. pc' = [pc EXCEPT ![c] = "read"]
    BY <1>1, <1>2
  <2>2. Ahead(c)' = Ahead(c)
    BY <1>1, <2>1, Kinds DEF Ahead
  <2>3. From(c)' = From(c)
    BY <1>1, <2>1, Kinds DEF From
  <2>4. QED BY <1>1, <2>1, <2>2, <2>3, Moving
<1>3. CASE ~(read_cnt <= 0)
  <2>1. pc' = [pc EXCEPT ![c] = "take"] /\ read_cnt > 0 /\ owner = c
    BY <1>1, <1>3, Kinds
  <2>2. Ahead(c)' = Ahead(c)
    BY <1>1, <2>1, Kinds DEF Ahead
  <2>3. From(c)' = From(c)
    BY <1>1, <2>1, Kinds DEF From
  <2>4. QED BY <1>1, <2>1, <2>2, <2>3, Moving
<1>4. QED BY <1>2, <1>3

LEMMA CleanSteps == ASSUME TypeInv, CInv, NEW c \in Threads, Count(c) \/ Check(c) \/ Point(c) \/ Take(c)
                    PROVE  CInv'
<1> USE DEF kernel, statics
<1>1. crossed' = crossed
  BY DEF Count, Check, Point, Take
<1> SUFFICES ASSUME ~crossed, Clean PROVE Clean'
  BY <1>1 DEF CInv
<1>2. owner = c
  BY DEF Count, Check, Point, Take, Clean, OneInv, Using
<1>3. CASE Count(c)
  <2>1. /\ pc[c] = "count" /\ pc' = [pc EXCEPT ![c] = "check"] /\ read_cnt' = result[c]
        /\ UNCHANGED <<taken, read_buf, read_ptr, line, result, owner, done>>
    BY <1>3 DEF Count
  <2>2. Ahead(c)' = Ahead(c) /\ From(c)' = From(c)
    BY <2>1, Kinds DEF Ahead, From
  <2>3. QED BY <1>2, <2>1, <2>2, Moving
<1>4. CASE Check(c)
  <2>1. /\ pc[c] = "check" /\ read_cnt = result[c]
        /\ UNCHANGED <<taken, read_buf, read_cnt, read_ptr, line, result, owner, done>>
    BY <1>4 DEF Check, Clean, PlaceInv
  <2>2. CASE read_cnt > 0 /\ pc' = [pc EXCEPT ![c] = "point"]
    <3>1. Ahead(c)' = Ahead(c) /\ From(c)' = From(c)
      BY <2>1, <2>2, Kinds DEF Ahead, From
    <3>2. QED BY <1>2, <2>1, <2>2, <3>1, Moving
  <2>3. CASE read_cnt <= 0 /\ pc' = [pc EXCEPT ![c] = "idle"]
    <3>1. Ahead(c)' = 0 /\ Ahead(c) = 0
      BY <2>1, <2>3, Kinds DEF Ahead
    <3>2. Ahead(c)' = Ahead(c) /\ ~(Ahead(c) > 0)
      BY <3>1
    <3>3. QED BY <1>2, <2>1, <2>3, <3>2, Moving
  <2>4. (read_cnt > 0 /\ pc' = [pc EXCEPT ![c] = "point"]) \/ (read_cnt <= 0 /\ pc' = [pc EXCEPT ![c] = "idle"])
    BY <1>4, Kinds DEF Check, Return
  <2>5. QED BY <2>2, <2>3, <2>4
<1>5. CASE Point(c)
  <2>1. /\ pc[c] = "point" /\ pc' = [pc EXCEPT ![c] = "take"] /\ read_ptr' = 1
        /\ UNCHANGED <<taken, read_buf, read_cnt, line, result, owner, done>>
    BY <1>5 DEF Point
  <2>2. read_cnt = result[c] /\ read_cnt > 0
    BY <2>1 DEF Clean, PlaceInv
  <2>3. Ahead(c)' = Ahead(c) /\ From(c)' = From(c)
    BY <1>2, <2>1, <2>2, Kinds DEF Ahead, From
  <2>4. QED BY <1>2, <2>1, <2>2, <2>3, Moving
<1>6. CASE Take(c)
  <2>1. /\ pc[c] = "take" /\ pc' = [pc EXCEPT ![c] = "fetch"] /\ read_cnt' = read_cnt - 1
        /\ UNCHANGED <<taken, read_buf, read_ptr, line, result, owner, done>>
    BY <1>6 DEF Take
  <2>2. read_cnt > 0 /\ read_cnt \in Int
    BY <2>1, Kinds DEF Clean, PlaceInv
  <2>3. Ahead(c)' = read_cnt' + 1 /\ From(c)' = read_ptr /\ Ahead(c) = read_cnt /\ From(c) = read_ptr
    BY <1>2, <2>1, <2>2, Kinds DEF Ahead, From
  <2>4. Ahead(c)' = Ahead(c) /\ From(c)' = From(c) /\ read_cnt' >= 0
    BY <2>1, <2>2, <2>3
  <2>5. QED BY <1>2, <2>1, <2>4, Moving
<1>7. QED BY <1>3, <1>4, <1>5, <1>6

\* read() fills a buffer in which nothing is left and on which nobody works.
LEMMA CleanFill == ASSUME TypeInv, CInv, NEW c \in Threads, Fill(c) \/ FillNothing(c) PROVE CInv'
<1>1. PICK n \in Int :
         /\ pc[c] = "read" /\ n <= BufferSize
         /\ Returned(c, n)
         /\ IF n > 0 THEN /\ read_buf' = [i \in Slots |-> IF i <= n THEN Byte(c, taken[c] + i) ELSE read_buf[i]]
                          /\ taken' = [taken EXCEPT ![c] = taken[c] + n]
                     ELSE UNCHANGED <<read_buf, taken>>
  <2>1. CASE Fill(c)
    <3>1. PICK n \in 1 .. BufferSize :
             /\ read_buf' = [i \in Slots |-> IF i <= n THEN Byte(c, taken[c] + i) ELSE read_buf[i]]
             /\ taken' = [taken EXCEPT ![c] = taken[c] + n]
             /\ Returned(c, n)
      BY <2>1 DEF Fill
    <3>2. n \in Int /\ n > 0 /\ n <= BufferSize
      BY Sizes
    <3>3. QED BY <2>1, <3>1, <3>2 DEF Fill
  <2>2. CASE FillNothing(c)
    <3>1. pc[c] = "read" /\ UNCHANGED <<read_buf, taken>> /\ (Returned(c, 0) \/ Returned(c, -1))
      BY <2>2 DEF FillNothing
    <3>2. 0 <= BufferSize /\ -1 <= BufferSize
      BY Sizes
    <3>3. QED BY <3>1, <3>2
  <2>3. QED BY <2>1, <2>2
<1>2. /\ result' = [result EXCEPT ![c] = n] /\ pc' = [pc EXCEPT ![c] = "count"] /\ owner' = c
      /\ crossed' = (crossed \/ read_cnt > 0 \/ \E d \in Threads : Using(d))
      /\ UNCHANGED <<read_cnt, read_ptr, line, done>>
  BY <1>1 DEF Returned
<1> SUFFICES ASSUME ~crossed, ~(read_cnt > 0), \A d \in Threads : ~Using(d), Clean PROVE Clean'
  BY <1>2 DEF CInv
<1>3. \A d \in Threads : Ahead(d) = 0 /\ taken[d] = Total(d)
  <2>1. \A d \in Threads : Ahead(d) = 0
    BY DEF Ahead, Using
  <2>2. ASSUME NEW d \in Threads PROVE taken[d] = Total(d)
    <3>1. taken[d] = Total(d) + Ahead(d) /\ Ahead(d) = 0
      BY <2>1 DEF Clean, AheadInv
    <3>2. Total(d) \in Nat
      BY Kinds
    <3>3. QED BY <3>1, <3>2
  <2>3. QED BY <2>1, <2>2
<1>4. \A d \in Threads : pc'[d] = IF d = c THEN "count" ELSE pc[d]
  BY <1>2, Kinds
<1>5. result'[c] = n /\ taken'[c] = taken[c] + (IF n > 0 THEN n ELSE 0)
      /\ \A d \in Threads : d # c => taken'[d] = taken[d]
  BY <1>1, <1>2, Kinds DEF TypeInv, TypeOK
<1>6. OneInv' /\ PlaceInv'
  BY <1>2, <1>4 DEF OneInv, PlaceInv, Using
<1>7. AheadInv'
  <2> SUFFICES ASSUME NEW d \in Threads
               PROVE  /\ taken'[d] = Total(d) + Ahead(d)'
                      /\ \A j \in Nat : j < Ahead(d)' => /\ From(d)' + j \in Slots
                                                        /\ read_buf'[From(d)' + j] = Byte(d, Total(d) + 1 + j)
    BY <1>2 DEF AheadInv, Total
  <2>1. CASE d = c
    <3>1. From(d)' = 1 /\ Ahead(d)' = IF n > 0 THEN n ELSE 0
      BY <1>4, <1>5, <2>1 DEF From, Ahead
    <3>2. ASSUME NEW j \in Nat, j < Ahead(d)'
          PROVE  1 + j \in Slots /\ read_buf'[1 + j] = Byte(d, Total(d) + 1 + j)
      <4>1. n > 0 /\ 1 + j <= n /\ 1 + j \in 1 .. BufferSize
        BY <1>1, <3>1, <3>2, Sizes
      <4>2. read_buf'[1 + j] = Byte(c, taken[c] + (1 + j))
        BY <1>1, <4>1 DEF Slots
      <4>3. taken[c] + (1 + j) = Total(d) + 1 + j
        <5>1. taken[c] = Total(d) /\ Total(d) \in Nat
          BY <1>3, <2>1, Kinds
        <5>2. QED BY <5>1
      <4>4. QED BY <2>1, <4>1, <4>2, <4>3 DEF Slots
    <3>3. QED BY <1>3, <1>5, <2>1, <3>1, <3>2
  <2>2. CASE d # c
    <3>1. Ahead(d)' = 0
      BY <1>2, <1>4, <2>2 DEF Ahead, Using
    <3>2. QED BY <1>3, <1>5, <2>2, <3>1, Kinds
  <2>3. QED BY <2>1, <2>2
<1>8. LineInv'
  BY <1>2 DEF Clean, LineInv
<1>9. owner' # Nobody
  BY <1>2, Names
<1>10. QED BY <1>6, <1>7, <1>8, <1>9 DEF Clean

LEMMA CleanFetch == ASSUME TypeInv, CInv, NEW c \in Threads, Fetch(c) PROVE CInv'
<1>1. /\ pc[c] = "fetch" /\ read_ptr' = read_ptr + 1
      /\ line' = [line EXCEPT ![c] = Append(line[c], Fetched)]
      /\ UNCHANGED <<taken, read_buf, read_cnt, result, owner, done, crossed>>
  BY DEF Fetch, Fetched, kernel
<1>2. PICK at \in {"idle", "test"} : pc' = [pc EXCEPT ![c] = at]
  BY DEF Fetch, Return
<1> SUFFICES ASSUME ~crossed, Clean PROVE Clean'
  BY <1>1 DEF CInv
<1>3. owner = c /\ read_cnt >= 0 /\ read_cnt \in Int
  BY <1>1, Kinds DEF Clean, OneInv, PlaceInv, Using
<1>4. Ahead(c) = read_cnt + 1 /\ From(c) = read_ptr
  BY <1>1 DEF Ahead, From
<1>5. Fetched = Byte(c, Total(c) + 1)
  <2>1. 0 \in Nat /\ 0 < Ahead(c)
    BY <1>3, <1>4
  <2>2. From(c) + 0 \in Slots /\ read_buf[From(c) + 0] = Byte(c, Total(c) + 1 + 0)
    BY <2>1 DEF Clean, AheadInv
  <2>3. From(c) + 0 = read_ptr /\ Total(c) + 1 + 0 = Total(c) + 1
    BY <1>4, Kinds
  <2>4. QED BY <2>2, <2>3 DEF Fetched
<1>6. line[c] \in Seq((Threads \cup {Nobody}) \X Nat) /\ Fetched \in (Threads \cup {Nobody}) \X Nat
  <2>1. Total(c) + 1 \in Nat
    BY Kinds
  <2>2. Fetched \in (Threads \cup {Nobody}) \X Nat
    BY <1>5, <2>1 DEF Byte
  <2>3. QED BY <2>2 DEF TypeInv, TypeOK
<1>7. /\ line'[c] = Append(line[c], Fetched) /\ Len(line'[c]) = Len(line[c]) + 1
      /\ \A d \in Threads : d # c => line'[d] = line[d]
  BY <1>1, <1>6 DEF TypeInv, TypeOK
<1>8. \A d \in Threads : pc'[d] = IF d = c THEN at ELSE pc[d]
  BY <1>2, Kinds
<1>9. OneInv' /\ PlaceInv'
  <2>1. OneInv'
    BY <1>1, <1>8 DEF Clean, OneInv, Using
  <2>2. ASSUME NEW d \in Threads
        PROVE  /\ pc'[d] \in {"check", "point"} => read_cnt = result[d]
               /\ pc'[d] \in {"point", "take"} => read_cnt > 0
               /\ pc'[d] = "fetch" => read_cnt >= 0
    BY <1>8 DEF Clean, PlaceInv
  <2>3. QED BY <1>1, <2>1, <2>2 DEF PlaceInv
<1>10. AheadInv'
  <2> SUFFICES ASSUME NEW d \in Threads
               PROVE  /\ taken[d] = Total(d)' + Ahead(d)'
                      /\ \A j \in Nat : j < Ahead(d)' => /\ From(d)' + j \in Slots
                                                        /\ read_buf[From(d)' + j] = Byte(d, Total(d)' + 1 + j)
    BY <1>1 DEF AheadInv
  <2>1. CASE d = c
    <3>1. Ahead(d)' = read_cnt /\ From(d)' = read_ptr + 1
      BY <1>1, <1>3, <1>8, <2>1 DEF Ahead, From
    <3>2. Total(d)' = Total(c) + 1
      BY <1>1, <1>7, <2>1, Kinds DEF Total
    <3>3. taken[d] = Total(d)' + Ahead(d)'
      BY <1>3, <1>4, <2>1, <3>1, <3>2, Kinds DEF Clean, AheadInv
    <3>4. ASSUME NEW j \in Nat, j < read_cnt
          PROVE  read_ptr + 1 + j \in Slots /\ read_buf[read_ptr + 1 + j] = Byte(c, Total(c) + 1 + 1 + j)
      <4>1. j + 1 \in Nat /\ j + 1 < Ahead(c)
        BY <1>3, <1>4, <3>4
      <4>2. read_ptr + (j + 1) \in Slots /\ read_buf[read_ptr + (j + 1)] = Byte(c, Total(c) + 1 + (j + 1))
        BY <1>4, <4>1 DEF Clean, AheadInv
      <4>3. read_ptr + (j + 1) = read_ptr + 1 + j /\ Total(c) + 1 + (j + 1) = Total(c) + 1 + 1 + j
        BY Kinds
      <4>4. QED BY <4>2, <4>3
    <3>5. QED BY <2>1, <3>1, <3>2, <3>3, <3>4
  <2>2. CASE d # c
    <3>1. pc'[d] = pc[d] /\ ~Using(d) /\ owner' = owner /\ owner # d
      BY <1>1, <1>3, <1>8, <2>2 DEF Clean, OneInv
    <3>2. Ahead(d)' = 0 /\ Ahead(d) = 0 /\ Total(d)' = Total(d)
      BY <1>1, <1>7, <2>2, <3>1 DEF Ahead, Using, Total
    <3>3. QED BY <3>2 DEF Clean, AheadInv
  <2>3. QED BY <2>1, <2>2
<1>11. LineInv'
  <2> SUFFICES ASSUME NEW d \in Threads, NEW i \in 1 .. Len(line'[d])
               PROVE  line'[d][i] = Byte(d, done[d] + i)
    BY <1>1 DEF LineInv
  <2>1. CASE d = c
    <3>1. i \in 1 .. Len(line[c]) + 1 /\ Len(line[c]) \in Nat
      BY <1>7, <2>1, Kinds
    <3>2. CASE i = Len(line[c]) + 1
      <4>1. line'[d][i] = Fetched
        BY <1>6, <1>7, <2>1, <3>2
      <4>2. Total(c) + 1 = done[d] + i
        BY <2>1, <3>2, Kinds DEF Total
      <4>3. QED BY <1>5, <2>1, <4>1, <4>2
    <3>3. CASE i # Len(line[c]) + 1
      <4>1. i \in 1 .. Len(line[c])
        BY <3>1, <3>3
      <4>2. line'[d][i] = line[c][i]
        BY <1>6, <1>7, <2>1, <4>1
      <4>3. QED BY <2>1, <4>1, <4>2 DEF Clean, LineInv
    <3>4. QED BY <3>2, <3>3
  <2>2. CASE d # c
    BY <1>7, <2>2 DEF Clean, LineInv
  <2>3. QED BY <2>1, <2>2
<1>12. QED BY <1>1, <1>3, <1>9, <1>10, <1>11, Names DEF Clean

\* As long as the threads do not cross, every line is what its own connection
\* sent, in order and without a gap, however read() splits the bytes.
THEOREM LinesOwn == Spec => []OwnBytes
<1>1. ASSUME TypeInv, CInv, [Next]_vars PROVE CInv'
  <2>1. CASE UNCHANGED vars
    <3>1. CASE Threads = {}
      BY <1>1, <2>1, <3>1 DEF vars, kernel, statics, CInv, Clean, OneInv, PlaceInv, AheadInv, LineInv
    <3>2. CASE Threads # {}
      BY <1>1, <2>1, <3>2, CleanOther
    <3>3. QED BY <3>1, <3>2
  <2>2. CASE Next
    BY <1>1, <2>2, CleanOther, CleanCall, CleanTest, CleanFill, CleanSteps, CleanFetch DEF Next, Step
  <2>3. QED BY <1>1, <2>1, <2>2
<1>2. TypeInv /\ CInv => OwnBytes
  <2> SUFFICES ASSUME TypeInv, ~crossed, Clean, NEW c \in Threads
               PROVE  /\ line[c] = [i \in 1 .. Len(line[c]) |-> Byte(c, done[c] + i)]
                      /\ read_cnt <= 0 /\ (\A d \in Threads : ~Using(d)) => taken[c] = done[c] + Len(line[c])
    BY DEF CInv, OwnBytes
  <2>1. line[c] = [i \in 1 .. Len(line[c]) |-> line[c][i]]
    BY DEF TypeInv, TypeOK
  <2>2. line[c] = [i \in 1 .. Len(line[c]) |-> Byte(c, done[c] + i)]
    BY <2>1 DEF Clean, LineInv
  <2>3. ASSUME read_cnt <= 0, \A d \in Threads : ~Using(d) PROVE taken[c] = Total(c)
    <3>1. Ahead(c) = 0
      BY <2>3, Kinds DEF Ahead, Using
    <3>2. QED BY <3>1, Kinds DEF Clean, AheadInv
  <2>4. QED BY <2>2, <2>3 DEF Total
<1>3. TypeInv /\ [Next]_vars => TypeInv'
  <2>1. TypeInv /\ UNCHANGED vars => TypeInv'
    BY DEF TypeInv, TypeOK, RoomInv, vars, kernel, statics
  <2>2. QED BY <2>1, TypeOther, TypeCall, TypeTest, TypeFill, TypeSteps, TypeFetch DEF Next, Step
<1>4. QED BY <1>1, <1>2, <1>3, TypeInit, CleanInit, PTL DEF Spec
=============================================================================
