--------------------------- MODULE PortFileProofs ---------------------------
(***************************************************************************)
(* Proofs about the shared port file, for any number of clients and starts *)
(* and any first port, and about the text of config.ini, for any radix and *)
(* numbers of any length.                                                  *)
(***************************************************************************)
EXTENDS ConfigFile, WellFoundedInduction, SequenceTheorems, TLAPS

\* The starts are numbered, and only running clients listen.
SinceInv == /\ \A c \in Clients : since[c] <= starts
            /\ \A c, d \in Clients : Running(c) /\ Running(d) /\ since[c] = since[d] => c = d
            /\ \A c \in Clients : listener[c] # "none" => Running(c)

\* The running clients are a stack: later ones have greater numbers, the
\* file has one that is greater still, or the number of the top client while
\* that one starts or ends.
StackInv == ~disorder =>
    /\ \A c, d \in Clients : Running(c) /\ Running(d) /\ since[c] < since[d] => mine[c] < mine[d]
    /\ \A c \in Clients : pc[c] = "up" => mine[c] < c_port
    /\ \A c \in Clients : pc[c] \in {"read", "leaving"} =>
          /\ mine[c] = c_port
          /\ \A d \in Clients \ {c} : Running(d) => since[d] < since[c]

\* Without a kill, every number below the one in the file is in use.
DenseInv == ~disorder /\ ~killed =>
    \A p \in Base .. c_port - 1 : \E c \in Clients : pc[c] = "up" /\ mine[c] = p

TakenInv == ~disorder =>
    ((\E c \in Clients : listener[c] = "taken") => Base + starts > PortSpace)

IInv == TypeOK /\ InRange /\ SinceInv /\ StackInv /\ DenseInv /\ TakenInv
-----------------------------------------------------------------------------
LEMMA ModRange == ASSUME NEW p \in Nat, NEW m \in Nat, m > 0
                  PROVE  p % m \in 0 .. m - 1
OBVIOUS

LEMMA ModSmall == ASSUME NEW p \in Nat, NEW m \in Nat, m > 0, p < m
                  PROVE  p % m = p
BY SMTT(30)

LEMMA WireRange == ASSUME NEW p \in Nat
                   PROVE  Wire(p) \in 0 .. PortSpace - 1 /\ (p < PortSpace => Wire(p) = p)
<1>1. PortSpace \in Nat /\ PortSpace > 0
  BY FirstPort, Width
<1>2. p % PortSpace \in 0 .. PortSpace - 1
  BY <1>1, ModRange
<1>3. p < PortSpace => p % PortSpace = p
  BY <1>1, ModSmall
<1>4. QED BY <1>2, <1>3 DEF Wire

LEMMA InvInit == Init => IInv
<1> SUFFICES ASSUME Init PROVE IInv
  OBVIOUS
<1> USE FirstPort DEF Init, Running
<1>1. TypeOK
  BY DEF TypeOK
<1>2. InRange /\ SinceInv /\ StackInv /\ DenseInv /\ TakenInv
  BY DEF InRange, SinceInv, StackInv, DenseInv, TakenInv
<1>3. QED BY <1>1, <1>2 DEF IInv

LEMMA ReadStep == ASSUME IInv, NEW c \in Clients, Read(c) PROVE IInv'
<1> USE DEF IInv, Running
<1>1. /\ pc[c] = "off" /\ pc' = [pc EXCEPT ![c] = "read"]
      /\ mine' = [mine EXCEPT ![c] = c_port]
      /\ starts' = starts + 1 /\ since' = [since EXCEPT ![c] = starts + 1]
      /\ c_port' = c_port /\ listener' = listener /\ killed' = killed /\ lingering' = lingering
      /\ disorder' = (disorder \/ \E d \in Clients : pc[d] \in {"read", "leaving"})
  BY DEF Read
<1>2. TypeOK'
  BY <1>1 DEF TypeOK
<1>3. InRange'
  BY <1>1, FirstPort DEF TypeOK, InRange
<1>4. SinceInv'
  BY <1>1 DEF TypeOK, SinceInv
<1>5. StackInv'
  <2> SUFFICES ASSUME ~disorder' PROVE StackInv'
    BY DEF StackInv
  <2>1. ~disorder /\ \A d \in Clients : Running(d) => pc[d] = "up"
    BY <1>1 DEF TypeOK
  <2>2. \A d \in Clients : Running(d) => mine[d] < c_port /\ since[d] < starts + 1
    BY <2>1 DEF StackInv, SinceInv, TypeOK
  <2>3. QED BY <1>1, <2>1, <2>2 DEF StackInv, TypeOK
<1>6. DenseInv'
  BY <1>1 DEF DenseInv, TypeOK
<1>7. TakenInv'
  BY <1>1, FirstPort, Width DEF TakenInv, TypeOK
<1>8. QED BY <1>2, <1>3, <1>4, <1>5, <1>6, <1>7

LEMMA WriteStep == ASSUME IInv, NEW c \in Clients, Write(c) PROVE IInv'
<1> USE DEF IInv, Running
<1>1. /\ pc[c] = "read" /\ pc' = [pc EXCEPT ![c] = "up"]
      /\ c_port' = mine[c] + 1
      /\ mine' = mine /\ starts' = starts /\ since' = since /\ listener' = listener
      /\ killed' = killed /\ disorder' = disorder /\ lingering' = lingering
  BY DEF Write
<1>2. TypeOK'
  BY <1>1 DEF TypeOK
<1>3. InRange'
  BY <1>1, FirstPort DEF TypeOK, InRange, SinceInv
<1>4. SinceInv'
  BY <1>1 DEF TypeOK, SinceInv
<1>5. StackInv'
  <2> SUFFICES ASSUME ~disorder PROVE StackInv'
    BY <1>1 DEF StackInv
  <2>1. mine[c] = c_port /\ \A d \in Clients \ {c} : Running(d) => since[d] < since[c]
    BY <1>1 DEF StackInv
  <2>2. \A d \in Clients \ {c} : Running(d) => pc[d] = "up" /\ mine[d] < mine[c]
    <3> SUFFICES ASSUME NEW d \in Clients \ {c}, Running(d) PROVE pc[d] = "up" /\ mine[d] < mine[c]
      OBVIOUS
    <3>1. since[d] < since[c] /\ since[d] \in Nat /\ since[c] \in Nat /\ Running(c)
      BY <1>1, <2>1 DEF TypeOK
    <3>2. pc[d] \notin {"read", "leaving"}
      BY <1>1, <3>1 DEF StackInv
    <3>3. QED BY <3>1, <3>2 DEF StackInv, TypeOK
  <2>3. QED BY <1>1, <2>1, <2>2 DEF StackInv, TypeOK
<1>6. DenseInv'
  <2> SUFFICES ASSUME ~disorder, ~killed, NEW p \in Base .. c_port' - 1
               PROVE  \E d \in Clients : pc'[d] = "up" /\ mine'[d] = p
    BY <1>1 DEF DenseInv
  <2>1. mine[c] = c_port
    BY <1>1 DEF StackInv
  <2>2. CASE p = c_port
    BY <1>1, <2>1, <2>2 DEF TypeOK
  <2>3. CASE p # c_port
    <3>1. p \in Base .. c_port - 1
      BY <1>1, <2>1, <2>3, FirstPort DEF TypeOK
    <3>2. QED BY <1>1, <3>1 DEF DenseInv, TypeOK
  <2>4. QED BY <2>2, <2>3
<1>7. TakenInv'
  BY <1>1 DEF TakenInv
<1>8. QED BY <1>2, <1>3, <1>4, <1>5, <1>6, <1>7

LEMMA BindStep == ASSUME IInv, NEW c \in Clients, Bind(c) PROVE IInv'
<1> USE DEF IInv, Running
<1>1. /\ pc[c] \in {"up", "leaving"} /\ listener[c] = "none"
      /\ pc' = pc /\ mine' = mine /\ c_port' = c_port /\ starts' = starts /\ since' = since
      /\ killed' = killed /\ disorder' = disorder /\ lingering' = lingering
      /\ \A d \in Clients \ {c} : listener'[d] = listener[d]
      /\ listener' \in [Clients -> {"none", "bound", "taken", "refused"}]
      /\ listener'[c] = "taken" =>
            \E d \in Clients : listener[d] = "bound" /\ Wire(mine[d]) = Wire(mine[c])
  BY DEF Bind, TypeOK
<1>2. TypeOK' /\ InRange' /\ SinceInv' /\ StackInv' /\ DenseInv'
  BY <1>1 DEF TypeOK, InRange, SinceInv, StackInv, DenseInv
<1>3. TakenInv'
  <2> SUFFICES ASSUME ~disorder, listener'[c] = "taken", Base + starts <= PortSpace PROVE FALSE
    BY <1>1, FirstPort, Width DEF TakenInv, TypeOK
  <2>1. PICK d \in Clients : listener[d] = "bound" /\ Wire(mine[d]) = Wire(mine[c])
    BY <1>1
  <2>2. d # c /\ Running(d) /\ Running(c)
    BY <1>1, <2>1 DEF SinceInv
  <2>3. mine[c] < PortSpace /\ mine[d] < PortSpace /\ mine[c] \in Nat /\ mine[d] \in Nat
    BY <2>2, FirstPort, Width DEF InRange, SinceInv, TypeOK
  <2>4. mine[c] = mine[d]
    BY <2>1, <2>3, WireRange
  <2>5. since[c] < since[d] \/ since[d] < since[c]
    BY <2>2 DEF SinceInv, TypeOK
  <2>6. QED BY <2>2, <2>3, <2>4, <2>5 DEF StackInv
<1>4. QED BY <1>2, <1>3

LEMMA RestoreStep == ASSUME IInv, NEW c \in Clients, Restore(c) PROVE IInv'
<1> USE DEF IInv, Running
<1>1. /\ pc[c] = "up" /\ pc' = [pc EXCEPT ![c] = "leaving"]
      /\ c_port' = mine[c]
      /\ mine' = mine /\ starts' = starts /\ since' = since /\ listener' = listener
      /\ killed' = killed /\ lingering' = lingering
      /\ disorder' = (disorder \/ \E d \in Clients : Running(d) /\ since[d] > since[c])
  BY DEF Restore
<1>2. TypeOK'
  BY <1>1 DEF TypeOK
<1>3. InRange'
  BY <1>1, FirstPort DEF TypeOK, InRange, SinceInv
<1>4. SinceInv'
  BY <1>1 DEF TypeOK, SinceInv
<1>5. ASSUME ~disorder'
      PROVE  /\ ~disorder
             /\ \A d \in Clients \ {c} : Running(d) =>
                   pc[d] = "up" /\ mine[d] < mine[c] /\ since[d] < since[c]
  <2> SUFFICES ASSUME NEW d \in Clients \ {c}, Running(d)
               PROVE  pc[d] = "up" /\ mine[d] < mine[c] /\ since[d] < since[c]
    BY <1>1, <1>5
  <2>1. ~disorder /\ ~(since[d] > since[c]) /\ Running(c)
    BY <1>1, <1>5
  <2>2. since[d] < since[c] /\ since[d] \in Nat /\ since[c] \in Nat
    BY <2>1 DEF SinceInv, TypeOK
  <2>3. pc[d] \notin {"read", "leaving"}
    BY <2>1, <2>2 DEF StackInv
  <2>4. QED BY <2>1, <2>2, <2>3 DEF StackInv, TypeOK
<1>6. StackInv'
  BY <1>1, <1>5 DEF StackInv, TypeOK
<1>7. DenseInv'
  <2> SUFFICES ASSUME ~disorder', ~killed, NEW p \in Base .. mine[c] - 1
               PROVE  \E d \in Clients : pc'[d] = "up" /\ mine'[d] = p
    BY <1>1 DEF DenseInv
  <2>1. p \in Base .. c_port - 1 /\ p # mine[c]
    BY <1>1, <1>5, FirstPort DEF StackInv, TypeOK
  <2>2. PICK d \in Clients : pc[d] = "up" /\ mine[d] = p
    BY <1>5, <2>1 DEF DenseInv
  <2>3. QED BY <1>1, <2>1, <2>2 DEF TypeOK
<1>8. TakenInv'
  BY <1>1 DEF TakenInv
<1>9. QED BY <1>2, <1>3, <1>4, <1>6, <1>7, <1>8

\* The end of a process that holds no number that the discipline counts on.
LEMMA EndStep ==
    ASSUME IInv, NEW c \in Clients, Running(c), End(c),
           killed' \in BOOLEAN, ~killed' => ~killed /\ pc[c] = "leaving"
    PROVE  IInv'
<1> USE DEF IInv, Running
<1>1. /\ pc' = [pc EXCEPT ![c] = "off"] /\ listener' = [listener EXCEPT ![c] = "none"]
      /\ mine' = mine /\ c_port' = c_port /\ starts' = starts /\ since' = since
      /\ disorder' = disorder
  BY DEF End
<1>2. lingering' \subseteq 0 .. PortSpace - 1
  <2>1. mine[c] \in Nat
    BY DEF TypeOK
  <2>2. Wire(mine[c]) \in 0 .. PortSpace - 1
    BY <2>1, WireRange
  <2>3. QED BY <2>2 DEF End, TypeOK
<1>3. TypeOK'
  BY <1>1, <1>2 DEF TypeOK
<1>4. InRange' /\ SinceInv' /\ TakenInv'
  BY <1>1 DEF TypeOK, InRange, SinceInv, TakenInv
<1>5. StackInv'
  BY <1>1 DEF StackInv, TypeOK
<1>6. DenseInv'
  BY <1>1 DEF DenseInv, TypeOK
<1>7. QED BY <1>3, <1>4, <1>5, <1>6

LEMMA Invariance == Spec => []IInv
<1>1. ASSUME IInv, [Next]_vars PROVE IInv'
  <2>1. ASSUME NEW c \in Clients, Read(c) PROVE IInv'
    BY <1>1, <2>1, ReadStep
  <2>2. ASSUME NEW c \in Clients, Write(c) PROVE IInv'
    BY <1>1, <2>2, WriteStep
  <2>3. ASSUME NEW c \in Clients, Bind(c) PROVE IInv'
    BY <1>1, <2>3, BindStep
  <2>4. ASSUME NEW c \in Clients, Restore(c) PROVE IInv'
    BY <1>1, <2>4, RestoreStep
  <2>5. ASSUME NEW c \in Clients, Leave(c) PROVE IInv'
    <3>1. Running(c) /\ End(c) /\ pc[c] = "leaving" /\ killed' = killed /\ killed \in BOOLEAN
      BY <1>1, <2>5 DEF Leave, Running, IInv, TypeOK
    <3>2. QED BY <1>1, <3>1, EndStep
  <2>6. ASSUME NEW c \in Clients, Kill(c) PROVE IInv'
    <3>1. Running(c) /\ End(c) /\ killed' = TRUE
      BY <2>6 DEF Kill
    <3>2. QED BY <1>1, <3>1, EndStep
  <2>7. CASE UNCHANGED vars \/ \E p \in lingering : Expire(p)
    <3>1. /\ UNCHANGED <<c_port, pc, mine, listener, starts, since, disorder, killed>>
          /\ lingering' \subseteq lingering
      BY <2>7 DEF vars, Expire
    <3>2. QED BY <1>1, <3>1 DEF IInv, TypeOK, InRange, SinceInv, StackInv, DenseInv, TakenInv, Running
  <2>8. QED BY <1>1, <2>1, <2>2, <2>3, <2>4, <2>5, <2>6, <2>7 DEF Next
<1>2. QED BY <1>1, InvInit, PTL DEF Spec
-----------------------------------------------------------------------------
\* The numbers and ports are of the sorts they should be.
THEOREM TypeCorrect == Spec => []TypeOK
BY Invariance, PTL DEF IInv

\* Whatever the clients do, the file has the number of a start, or the next.
THEOREM NumbersInRange == Spec => []InRange
BY Invariance, PTL DEF IInv

\* Clients that keep to the discipline have numbers of their own, and none
\* finds its port taken by another.
THEOREM DistinctPorts == Spec => []Distinct
<1>1. IInv => Distinct
  <2> SUFFICES ASSUME IInv, ~disorder, NEW c \in Clients, NEW d \in Clients,
                      Running(c), Running(d), mine[c] = mine[d]
               PROVE  c = d
    BY DEF IInv, TakenInv, Distinct
  <2>1. ~(since[c] < since[d]) /\ ~(since[d] < since[c])
    BY DEF IInv, StackInv, TypeOK
  <2>2. since[c] = since[d]
    BY <2>1 DEF IInv, TypeOK
  <2>3. QED BY <2>2 DEF IInv, SinceInv
<1>2. QED BY <1>1, Invariance, PTL

\* When all have ended in order, the file is as it was.
THEOREM FileRestored == Spec => []Restored
<1>1. IInv => Restored
  <2> SUFFICES ASSUME IInv, ~disorder, ~killed, \A c \in Clients : ~Running(c), c_port # Base
               PROVE  FALSE
    BY DEF Restored
  <2>1. Base \in Base .. c_port - 1
    BY FirstPort DEF IInv, TypeOK, InRange
  <2>2. QED BY <2>1 DEF IInv, DenseInv, Running
<1>2. QED BY <1>1, Invariance, PTL
-----------------------------------------------------------------------------
\* Numbers as text.  Facts about all numbers are shown of the set of the numbers
\* that have them, by the least number that is not in it.

\* What holds of a number if it holds of all smaller ones holds of all.
LEMMA SetInduction ==
    ASSUME NEW S \in SUBSET Nat, \A n \in Nat : (\A m \in 0 .. n - 1 : m \in S) => n \in S
    PROVE  S = Nat
<1> DEFINE T == Nat \ S
<1>1. SUFFICES ASSUME T # {} PROVE FALSE
  OBVIOUS
<1>2. PICK x \in T : \A y \in T : ~ (<<y, x>> \in OpToRel(<, Nat))
  BY <1>1, WFMin, NatLessThanWellFounded, Zenon
<1>3. \A m \in 0 .. x - 1 : m \in Nat /\ m < x
  OBVIOUS
<1>4. \A m \in 0 .. x - 1 : m \notin T
  BY <1>2, <1>3 DEF OpToRel
<1>5. QED BY <1>3, <1>4

LEMMA Division ==
    ASSUME NEW n \in Nat
    PROVE  /\ n \div Radix \in Nat /\ n % Radix \in 0 .. Radix - 1
           /\ n = Radix * (n \div Radix) + (n % Radix)
           /\ n >= Radix => n \div Radix < n
<1>1. Radix \in Nat /\ Radix > 1
  BY Numerals
<1>2. n \div Radix \in Nat /\ n % Radix \in 0 .. Radix - 1
  BY <1>1
<1>3. n = Radix * (n \div Radix) + (n % Radix)
  BY <1>1
<1>4. n >= Radix => n \div Radix < n
  BY <1>1
<1>5. QED BY <1>2, <1>3, <1>4

LEMMA DivisionMonotonic ==
    ASSUME NEW m \in Nat, NEW n \in Nat, m <= n
    PROVE  m \div Radix <= n \div Radix
<1>1. Radix \in Nat /\ Radix > 1
  BY Numerals
<1>2. QED BY <1>1

\* The body of the function in Numeral, and that the function exists.
Digits(f, k) == IF k < Radix THEN <<k>> ELSE Append(f[k \div Radix], k % Radix)

\* Two such functions, on the numbers up to m and up to n, agree where both are
\* defined.
LEMMA DigitsUnique ==
    ASSUME NEW m \in Nat, NEW n \in Nat, NEW f, NEW g,
           f = [k \in 0 .. m |-> Digits(f, k)], g = [k \in 0 .. n |-> Digits(g, k)]
    PROVE  \A k \in Nat : k <= m /\ k <= n => f[k] = g[k]
<1> DEFINE S == {k \in Nat : k <= m /\ k <= n => f[k] = g[k]}
<1>1. ASSUME NEW k \in Nat, \A j \in 0 .. k - 1 : j \in S, k <= m, k <= n PROVE f[k] = g[k]
  <2>1. k \in 0 .. m /\ k \in 0 .. n
    BY <1>1
  <2>2. f[k] = Digits(f, k) /\ g[k] = Digits(g, k)
    BY <2>1
  <2>3. CASE k < Radix
    BY <2>2, <2>3 DEF Digits
  <2>4. CASE ~(k < Radix)
    <3> DEFINE d == k \div Radix
    <3>1. d \in Nat /\ d < k
      <4>1. k \in Nat /\ k >= Radix
        BY <2>4, Numerals
      <4>2. QED BY ONLY <4>1, Division
    <3>2. d \in 0 .. k - 1 /\ d <= m /\ d <= n
      BY <1>1, <3>1
    <3>3. f[d] = g[d]
      BY <1>1, <3>2
    <3> HIDE DEF d
    <3>4. Digits(f, k) = Append(f[d], k % Radix) /\ Digits(g, k) = Append(g[d], k % Radix)
      BY <2>4 DEF Digits, d
    <3>5. QED BY <2>2, <3>3, <3>4
  <2>5. QED BY <2>3, <2>4
<1>2. \A k \in Nat : (\A j \in 0 .. k - 1 : j \in S) => k \in S
  BY <1>1
<1>3. S = Nat
  <2> HIDE DEF S
  <2>1. S \in SUBSET Nat
    BY DEF S
  <2>2. QED BY <1>2, <2>1, SetInduction
<1>4. QED BY <1>3

\* There is one on the numbers up to any n, hence one on all.
LEMMA DigitsUpTo ==
    ASSUME NEW n \in Nat
    PROVE  \E f : f = [k \in 0 .. n |-> Digits(f, k)]
<1> DEFINE S == {m \in Nat : \E f : f = [k \in 0 .. m |-> Digits(f, k)]}
<1>1. ASSUME NEW m \in Nat, \A j \in 0 .. m - 1 : j \in S PROVE m \in S
  <2>1. CASE m = 0
    <3> DEFINE f == [k \in 0 .. 0 |-> <<k>>]
    <3>1. \A k \in 0 .. 0 : Digits(f, k) = <<k>>
      BY Numerals DEF Digits
    <3>2. f = [k \in 0 .. 0 |-> Digits(f, k)]
      BY <3>1
    <3>3. QED BY <2>1, <3>2
  <2>2. CASE m # 0
    <3>1. m - 1 \in 0 .. m - 1 /\ m - 1 \in Nat
      BY <2>2
    <3>2. PICK f : f = [k \in 0 .. m - 1 |-> Digits(f, k)]
      BY <1>1, <3>1
    <3> DEFINE g == [k \in 0 .. m |-> IF k <= m - 1 THEN f[k] ELSE Digits(f, k)]
    <3>3. ASSUME NEW k \in 0 .. m PROVE g[k] = Digits(g, k)
      <4>1. g[k] = Digits(f, k)
        <5>1. CASE k <= m - 1
          <6>1. k \in 0 .. m - 1
            BY <5>1
          <6>2. f[k] = Digits(f, k)
            BY <3>2, <6>1
          <6>3. QED BY <5>1, <6>2
        <5>2. CASE ~(k <= m - 1)
          BY <5>2
        <5>3. QED BY <5>1, <5>2
      <4>2. CASE k < Radix
        BY <4>1, <4>2 DEF Digits
      <4>3. CASE ~(k < Radix)
        <5> DEFINE d == k \div Radix
        <5>1. d \in Nat /\ d < k
          BY <4>3, Numerals, Division
        <5> HIDE DEF d
        <5>2. d \in 0 .. m /\ d <= m - 1
          BY <5>1
        <5>3. g[d] = f[d]
          BY <5>2
        <5> HIDE DEF g
        <5>4. Digits(f, k) = Append(f[d], k % Radix) /\ Digits(g, k) = Append(g[d], k % Radix)
          BY <4>3 DEF Digits, d
        <5>5. QED BY <4>1, <5>3, <5>4
      <4>4. QED BY <4>2, <4>3
    <3>4. g = [k \in 0 .. m |-> Digits(g, k)]
      <4> HIDE DEF g
      <4>1. g = [k \in 0 .. m |-> g[k]]
        BY DEF g
      <4>2. QED BY <4>1, <3>3
    <3> HIDE DEF g
    <3>5. QED BY <3>4
  <2>3. QED BY <2>1, <2>2
<1> HIDE DEF S
<1>2. S = Nat
  <2>1. S \in SUBSET Nat
    BY DEF S
  <2>2. QED BY <1>1, <2>1, SetInduction
<1>3. QED BY <1>2 DEF S

LEMMA DigitsExist == \E f : f = [k \in Nat |-> Digits(f, k)]
<1> DEFINE h(n) == CHOOSE f : f = [k \in 0 .. n |-> Digits(f, k)]
           g == [n \in Nat |-> h(n)[n]]
<1>1. \A n \in Nat : h(n) = [k \in 0 .. n |-> Digits(h(n), k)]
  BY DigitsUpTo
<1> HIDE DEF h
<1>2. ASSUME NEW n \in Nat PROVE g[n] = Digits(g, n)
  <2>1. g[n] = Digits(h(n), n)
    <3>1. n \in 0 .. n
      OBVIOUS
    <3>2. h(n)[n] = Digits(h(n), n)
      BY <1>1, <3>1
    <3>3. QED BY <3>2
  <2>2. CASE n < Radix
    BY <2>1, <2>2 DEF Digits
  <2>3. CASE ~(n < Radix)
    <3> DEFINE d == n \div Radix
    <3>1. d \in Nat /\ d < n
      BY <2>3, Numerals, Division
    <3> HIDE DEF d
    <3>2. h(d)[d] = h(n)[d]
      <4>1. d <= d /\ d <= n
        BY <3>1
      <4>2. h(d) = [k \in 0 .. d |-> Digits(h(d), k)] /\ h(n) = [k \in 0 .. n |-> Digits(h(n), k)]
        BY <1>1, <3>1
      <4>3. QED BY <3>1, <4>1, <4>2, DigitsUnique
    <3>3. g[d] = h(n)[d]
      BY <3>1, <3>2
    <3> HIDE DEF g
    <3>4. /\ Digits(h(n), n) = Append(h(n)[d], n % Radix)
          /\ Digits(g, n) = Append(g[d], n % Radix)
      BY <2>3 DEF Digits, d
    <3>5. QED BY <2>1, <3>3, <3>4
  <2>4. QED BY <2>2, <2>3
<1>3. g = [n \in Nat |-> Digits(g, n)]
  <2> HIDE DEF g
  <2>1. g = [n \in Nat |-> g[n]]
    BY DEF g
  <2>2. QED BY <1>2, <2>1
<1> HIDE DEF g
<1>4. QED BY <1>3

\* The function in Numeral computes its body.
LEMMA NumeralStep ==
    ASSUME NEW n \in Nat
    PROVE  /\ n < Radix => Numeral(n) = <<n>>
           /\ n >= Radix => Numeral(n) = Append(Numeral(n \div Radix), n % Radix)
<1> DEFINE f == CHOOSE g : g = [k \in Nat |-> Digits(g, k)]
<1>1. \A k \in Nat : Numeral(k) = f[k]
  BY DEF Numeral, Digits
<1>2. f = [k \in Nat |-> Digits(f, k)]
  BY DigitsExist
<1> HIDE DEF f
<1>3. Numeral(n) = Digits(f, n) /\ n \div Radix \in Nat
  BY <1>1, <1>2, Division
<1>4. Numeral(n \div Radix) = f[n \div Radix]
  BY <1>1, <1>3
<1>5. n >= Radix => ~(n < Radix)
  BY Numerals
<1>6. QED BY <1>3, <1>4, <1>5 DEF Digits

\* A number has at least one digit, and only digits.
LEMMA NumeralProps ==
    \A n \in Nat : Numeral(n) \in Seq(0 .. Radix - 1) /\ Len(Numeral(n)) > 0
<1> DEFINE S == {n \in Nat : Numeral(n) \in Seq(0 .. Radix - 1) /\ Len(Numeral(n)) > 0}
<1>1. ASSUME NEW n \in Nat, \A m \in 0 .. n - 1 : m \in S PROVE n \in S
  <2>1. CASE n < Radix
    <3>1. n \in 0 .. Radix - 1 /\ Numeral(n) = <<n>>
      BY <2>1, Numerals, NumeralStep
    <3> DEFINE D == 0 .. Radix - 1
    <3>2. n \in D
      BY <3>1
    <3> HIDE DEF D
    <3>3. <<n>> \in Seq(D) /\ Len(<<n>>) > 0
      BY <3>2
    <3>4. QED BY <3>1, <3>3 DEF D
  <2>2. CASE n >= Radix
    <3> DEFINE d == n \div Radix
               r == n % Radix
               D == 0 .. Radix - 1
    <3>1. d \in Nat /\ d < n /\ r \in 0 .. Radix - 1
      BY <2>2, Division
    <3>2. Numeral(n) = Append(Numeral(d), r)
      BY <2>2, NumeralStep
    <3> HIDE DEF d, r
    <3>3. d \in 0 .. n - 1
      BY <3>1
    <3>4. Numeral(d) \in Seq(0 .. Radix - 1) /\ Len(Numeral(d)) > 0
      BY <1>1, <3>3
    <3>5. r \in D /\ Numeral(d) \in Seq(D)
      BY <3>1, <3>4
    <3> HIDE DEF D
    <3>6. Numeral(n) \in Seq(D) /\ Len(Numeral(n)) = Len(Numeral(d)) + 1
      BY <3>2, <3>5, AppendProperties
    <3>7. Len(Numeral(n)) > 0
      BY <3>4, <3>6, LenProperties
    <3>8. QED BY <3>6, <3>7 DEF D
  <2>3. QED BY <2>1, <2>2, Numerals
<1>2. S = Nat
  <2> HIDE DEF S
  <2>1. S \in SUBSET Nat
    BY DEF S
  <2>2. QED BY <1>1, <2>1, SetInduction
<1>3. QED BY <1>2

\* A greater number is not shorter.
LEMMA LongerNumeral ==
    ASSUME NEW a \in Nat, NEW b \in Nat, a <= b
    PROVE  Len(Numeral(a)) <= Len(Numeral(b))
<1> DEFINE S == {n \in Nat : \A m \in 0 .. n : Len(Numeral(m)) <= Len(Numeral(n))}
<1>1. ASSUME NEW n \in Nat, \A j \in 0 .. n - 1 : j \in S PROVE n \in S
  <2> SUFFICES ASSUME NEW m \in 0 .. n PROVE Len(Numeral(m)) <= Len(Numeral(n))
    OBVIOUS
  <2>0. m \in Nat /\ m <= n
    OBVIOUS
  <2>1. CASE m < Radix
    <3>1. Len(Numeral(m)) = 1
      BY <2>0, <2>1, NumeralStep
    <3>2. Len(Numeral(n)) > 0 /\ Len(Numeral(n)) \in Nat
      BY NumeralProps
    <3>3. QED BY <3>1, <3>2
  <2>2. CASE m >= Radix
    <3> DEFINE d == n \div Radix
               c == m \div Radix
    <3>1. n >= Radix
      BY <2>0, <2>2, Numerals
    <3>2. d \in Nat /\ d < n /\ c \in Nat /\ c <= d
      BY <2>0, <3>1, Division, DivisionMonotonic
    <3>3. Numeral(n) = Append(Numeral(d), n % Radix) /\ Numeral(m) = Append(Numeral(c), m % Radix)
      BY <2>0, <2>2, <3>1, NumeralStep
    <3> HIDE DEF d, c
    <3>4. n % Radix \in 0 .. Radix - 1 /\ m % Radix \in 0 .. Radix - 1
      BY <2>0, Division
    <3>5. Numeral(c) \in Seq(0 .. Radix - 1) /\ Numeral(d) \in Seq(0 .. Radix - 1)
      BY <3>2, NumeralProps
    <3>6. Len(Numeral(n)) = Len(Numeral(d)) + 1 /\ Len(Numeral(m)) = Len(Numeral(c)) + 1
      BY <3>3, <3>4, <3>5, AppendProperties
    <3>7. Len(Numeral(c)) <= Len(Numeral(d))
      <4>1. d \in 0 .. n - 1 /\ c \in 0 .. d
        BY <3>2
      <4>2. QED BY <1>1, <4>1
    <3>8. QED BY <3>5, <3>6, <3>7
  <2>3. QED BY <2>0, <2>1, <2>2, Numerals
<1>2. S = Nat
  <2> HIDE DEF S
  <2>1. S \in SUBSET Nat
    BY DEF S
  <2>2. QED BY <1>1, <2>1, SetInduction
<1>3. a \in 0 .. b /\ b \in S
  BY <1>2
<1>4. QED BY <1>3

\* The body of the function in Value.
UpTo(text, f, k) == IF k = 0 \/ ~Digit(text[k]) THEN 0 ELSE Radix * f[k - 1] + text[k]

\* The function in Value exists for any text.
LEMMA UpToExists ==
    ASSUME NEW text, NEW n \in Nat
    PROVE  \E f : f = [k \in 0 .. n |-> UpTo(text, f, k)]
<1> DEFINE S == {m \in Nat : \E f : f = [k \in 0 .. m |-> UpTo(text, f, k)]}
<1>1. ASSUME NEW m \in Nat, \A j \in 0 .. m - 1 : j \in S PROVE m \in S
  <2>1. CASE m = 0
    <3> DEFINE f == [k \in 0 .. 0 |-> 0]
    <3>1. f = [k \in 0 .. 0 |-> UpTo(text, f, k)]
      BY DEF UpTo
    <3>2. QED BY <2>1, <3>1
  <2>2. CASE m # 0
    <3>1. m - 1 \in 0 .. m - 1 /\ m - 1 \in Nat
      BY <2>2
    <3>2. PICK f : f = [k \in 0 .. m - 1 |-> UpTo(text, f, k)]
      BY <1>1, <3>1
    <3> DEFINE g == [k \in 0 .. m |-> IF k <= m - 1 THEN f[k] ELSE UpTo(text, f, k)]
    <3>3. ASSUME NEW k \in 0 .. m PROVE g[k] = UpTo(text, g, k)
      <4>1. k # 0 => k - 1 \in 0 .. m /\ k - 1 <= m - 1 /\ g[k - 1] = f[k - 1]
        OBVIOUS
      <4>2. g[k] = UpTo(text, f, k)
        BY <3>2
      <4>3. QED BY <4>1, <4>2 DEF UpTo
    <3>4. g = [k \in 0 .. m |-> UpTo(text, g, k)]
      <4> HIDE DEF g
      <4>1. g = [k \in 0 .. m |-> g[k]]
        BY DEF g
      <4>2. QED BY <4>1, <3>3
    <3> HIDE DEF g
    <3>5. QED BY <3>4
  <2>3. QED BY <2>1, <2>2
<1> HIDE DEF S
<1>2. S = Nat
  <2>1. S \in SUBSET Nat
    BY DEF S
  <2>2. QED BY <1>1, <2>1, SetInduction
<1>3. QED BY <1>2 DEF S

Worth(text) == CHOOSE f : f = [k \in 0 .. Len(text) |-> UpTo(text, f, k)]

\* All of a text of digits is taken for the number.
LEMMA ValueOfDigits ==
    ASSUME NEW text \in Seq(0 .. Radix - 1)
    PROVE  /\ Worth(text) = [k \in 0 .. Len(text) |-> UpTo(text, Worth(text), k)]
           /\ Value(text) = Worth(text)[Len(text)]
<1> DEFINE front == {k \in 0 .. Len(text) : \A j \in 1 .. k : Digit(text[j])}
<1>1. Len(text) \in Nat /\ \A j \in 1 .. Len(text) : Digit(text[j])
  BY ElementOfSeq, LenProperties DEF Digit
<1>2. Worth(text) = [k \in 0 .. Len(text) |-> UpTo(text, Worth(text), k)]
  BY <1>1, UpToExists DEF Worth
<1>3. Len(text) \in front /\ \A j \in front : j <= Len(text)
  BY <1>1
<1>4. (CHOOSE k \in front : \A j \in front : j <= k) = Len(text)
  <2>1. \A k \in front : (\A j \in front : j <= k) => k = Len(text)
    BY <1>1, <1>3
  <2> HIDE DEF front
  <2>2. QED BY <1>3, <2>1
<1>5. Value(text) = Worth(text)[CHOOSE k \in front : \A j \in front : j <= k]
  BY DEF Value, Worth, UpTo
<1>6. QED BY <1>2, <1>4, <1>5

\* What the digits up to one are worth does not depend on those behind it.
LEMMA UpToAgree ==
    ASSUME NEW s \in Seq(0 .. Radix - 1), NEW t \in Seq(0 .. Radix - 1), NEW l \in Nat,
           l <= Len(s), l <= Len(t), \A k \in 1 .. l : s[k] = t[k]
    PROVE  Worth(s)[l] = Worth(t)[l]
<1> DEFINE f == Worth(s)
           g == Worth(t)
           m == Len(s)
           n == Len(t)
<1>0. /\ f = [k \in 0 .. m |-> UpTo(s, f, k)] /\ g = [k \in 0 .. n |-> UpTo(t, g, k)]
      /\ m \in Nat /\ n \in Nat /\ l <= m /\ l <= n
  BY ValueOfDigits, LenProperties
<1> HIDE DEF f, g, m, n
<1> DEFINE S == {k \in Nat : k <= l => f[k] = g[k]}
<1>1. ASSUME NEW k \in Nat, \A j \in 0 .. k - 1 : j \in S, k <= l PROVE f[k] = g[k]
  <2>1. k \in 0 .. m /\ k \in 0 .. n
    BY <1>0, <1>1
  <2>2. f[k] = UpTo(s, f, k) /\ g[k] = UpTo(t, g, k)
    BY <1>0, <2>1
  <2>3. CASE k = 0
    BY <2>2, <2>3 DEF UpTo
  <2>4. CASE k # 0
    <3>1. s[k] = t[k]
      BY <1>1, <2>4
    <3>2. k - 1 \in 0 .. k - 1 /\ k - 1 <= l
      BY <1>1, <2>4
    <3>3. f[k - 1] = g[k - 1]
      BY <1>1, <3>2
    <3>4. QED BY <2>2, <3>1, <3>3 DEF UpTo
  <2>5. QED BY <2>3, <2>4
<1>2. \A k \in Nat : (\A j \in 0 .. k - 1 : j \in S) => k \in S
  BY <1>1
<1>3. S = Nat
  <2> HIDE DEF S
  <2>1. S \in SUBSET Nat
    BY DEF S
  <2>2. QED BY <1>2, <2>1, SetInduction
<1> HIDE DEF S
<1>4. l \in S
  BY <1>3
<1>5. f[l] = g[l]
  BY <1>4 DEF S
<1>6. QED BY <1>5 DEF f, g

\* atoi inverts %d.
LEMMA ValueOfNumeral == \A n \in Nat : Value(Numeral(n)) = n
<1> DEFINE S == {n \in Nat : Value(Numeral(n)) = n}
<1>1. ASSUME NEW n \in Nat, \A m \in 0 .. n - 1 : m \in S PROVE n \in S
  <2> DEFINE text == Numeral(n)
             f == Worth(text)
  <2>1. text \in Seq(0 .. Radix - 1) /\ Len(text) \in Nat /\ Len(text) > 0
    BY NumeralProps
  <2>2. f = [k \in 0 .. Len(text) |-> UpTo(text, f, k)] /\ Value(text) = f[Len(text)]
    BY <2>1, ValueOfDigits
  <2>3. CASE n < Radix
    <3>1. text = <<n>> /\ Digit(n)
      BY <2>3, Numerals, NumeralStep DEF Digit
    <3>2. Len(text) = 1 /\ text[1] = n
      BY <3>1
    <3> HIDE DEF text, f
    <3>3. f[0] = 0
      BY <2>2, <3>2 DEF UpTo
    <3>4. f[1] = Radix * f[0] + n
      BY <2>2, <3>1, <3>2 DEF UpTo
    <3>5. Radix * 0 + n = n
      BY Numerals
    <3>6. QED BY <2>2, <3>2, <3>3, <3>4, <3>5 DEF text
  <2>4. CASE n >= Radix
    <3> DEFINE d == n \div Radix
               r == n % Radix
               t == Numeral(d)
               g == Worth(t)
               l == Len(t)
    <3>1. d \in Nat /\ d < n /\ r \in 0 .. Radix - 1 /\ n = Radix * d + r
      BY <2>4, Division
    <3>2. text = Append(t, r)
      BY <2>4, NumeralStep
    <3>3. t \in Seq(0 .. Radix - 1) /\ l \in Nat
      BY <3>1, NumeralProps
    <3>4. g = [k \in 0 .. l |-> UpTo(t, g, k)] /\ Value(t) = g[l]
      BY <3>3, ValueOfDigits
    <3>5. Value(t) = d
      <4>1. d \in 0 .. n - 1
        BY <3>1
      <4>2. d \in S
        BY <1>1, <4>1
      <4>3. QED BY <4>2
    <3> HIDE DEF text, f, d, r, t, g
    <3>6. Len(text) = l + 1 /\ text[l + 1] = r /\ \A k \in 1 .. l : text[k] = t[k]
      BY <3>1, <3>2, <3>3, AppendProperties
    <3>7. f[l] = g[l]
      <4> HIDE DEF l
      <4>1. l <= Len(text) /\ l <= l
        BY <3>3, <3>6
      <4>2. QED BY <2>1, <3>3, <3>6, <4>1, UpToAgree DEF f, g, l
    <3>8. f[l + 1] = Radix * f[l] + r
      <4> HIDE DEF l
      <4>1. l + 1 \in 0 .. Len(text) /\ l + 1 # 0 /\ (l + 1) - 1 = l /\ Digit(r)
        BY <3>1, <3>3, <3>6 DEF Digit
      <4>2. f[l + 1] = UpTo(text, f, l + 1)
        BY <2>2, <4>1
      <4>3. QED BY <3>6, <4>1, <4>2 DEF UpTo
    <3>9. QED BY <2>2, <3>1, <3>4, <3>5, <3>6, <3>7, <3>8 DEF text
  <2>5. QED BY <2>3, <2>4, Numerals
<1>2. S = Nat
  <2> HIDE DEF S
  <2>1. S \in SUBSET Nat
    BY DEF S
  <2>2. QED BY <1>1, <2>1, SetInduction
<1>3. QED BY <1>2

\* A text written over another from position p on.
Over(f, p, t) == SubSeq(f, 1, p - 1) \o t \o SubSeq(f, p + Len(t), Len(f))

\* In front of the new text and behind it the old one stays; what is written may
\* run over the end.
LEMMA OverProps ==
    ASSUME NEW S, NEW f \in Seq(S), NEW t \in Seq(S), NEW p \in Int, 1 <= p, p <= Len(f)
    PROVE  /\ Over(f, p, t) \in Seq(S)
           /\ Len(Over(f, p, t)) = IF p + Len(t) <= Len(f) THEN Len(f) ELSE (p + Len(t)) - 1
           /\ \A i \in Int : 1 <= i /\ i < p => Over(f, p, t)[i] = f[i]
           /\ \A i \in Int : 1 <= i /\ i <= Len(t) => Over(f, p, t)[(p + i) - 1] = t[i]
           /\ \A i \in Int : p + Len(t) <= i /\ i <= Len(f) => Over(f, p, t)[i] = f[i]
<1> DEFINE a == SubSeq(f, 1, p - 1)
           z == SubSeq(f, p + Len(t), Len(f))
           n == Len(f)
           l == Len(t)
           o == Over(f, p, t)
<1>1. n \in Nat /\ l \in Nat /\ \A i \in 1 .. n : f[i] \in S
  BY LenProperties, ElementOfSeq
<1>2. /\ a \in Seq(S) /\ Len(a) = p - 1
      /\ \A i \in 1 .. p - 1 : a[i] = f[i]
  <2> DEFINE lo == 1
             hi == p - 1
  <2>1. lo \in Int /\ hi \in Int /\ \A i \in lo .. hi : f[i] \in S
    BY <1>1
  <2> HIDE DEF lo, hi
  <2>1a. /\ SubSeq(f, lo, hi) \in Seq(S)
         /\ Len(SubSeq(f, lo, hi)) = IF lo <= hi THEN hi - lo + 1 ELSE 0
         /\ \A i \in 1 .. hi - lo + 1 : SubSeq(f, lo, hi)[i] = f[lo + i - 1]
    BY <2>1, SubSeqProperties
  <2>2. /\ a \in Seq(S)
        /\ Len(a) = IF 1 <= p - 1 THEN p - 1 - 1 + 1 ELSE 0
        /\ \A i \in 1 .. p - 1 - 1 + 1 : a[i] = f[1 + i - 1]
    BY <2>1a DEF lo, hi
  <2> HIDE DEF a
  <2>3. Len(a) = p - 1
    BY <2>2
  <2>4. ASSUME NEW i \in 1 .. p - 1 PROVE a[i] = f[i]
    <3>1. 1 + i - 1 = i /\ i \in 1 .. p - 1 - 1 + 1
      OBVIOUS
    <3>2. QED BY <2>2, <3>1
  <2>5. QED BY <2>2, <2>3, <2>4
<1>3. /\ z \in Seq(S) /\ Len(z) = IF p + l <= n THEN (n - (p + l)) + 1 ELSE 0
      /\ \A i \in 1 .. (n - (p + l)) + 1 : z[i] = f[((p + l) + i) - 1]
  <2> DEFINE lo == p + l
  <2>1. lo \in Int /\ n \in Int /\ \A i \in lo .. n : f[i] \in S
    BY <1>1
  <2> HIDE DEF lo, n
  <2>2. /\ SubSeq(f, lo, n) \in Seq(S)
        /\ Len(SubSeq(f, lo, n)) = IF lo <= n THEN n - lo + 1 ELSE 0
        /\ \A i \in 1 .. n - lo + 1 : SubSeq(f, lo, n)[i] = f[lo + i - 1]
    BY <2>1, SubSeqProperties
  <2>3. z = SubSeq(f, lo, n)
    BY DEF lo, n
  <2> HIDE DEF z
  <2>4. \A i \in 1 .. (n - lo) + 1 : lo + i - 1 = (lo + i) - 1
    BY <2>1
  <2>5. /\ z \in Seq(S) /\ Len(z) = IF lo <= n THEN (n - lo) + 1 ELSE 0
        /\ \A i \in 1 .. (n - lo) + 1 : z[i] = f[(lo + i) - 1]
    BY <2>2, <2>3, <2>4
  <2>6. QED BY <2>5 DEF lo
<1>4. /\ a \o t \in Seq(S) /\ Len(a \o t) = (p - 1) + l
      /\ \A i \in 1 .. (p - 1) + l : (a \o t)[i] = IF i <= p - 1 THEN a[i] ELSE t[i - (p - 1)]
  <2> HIDE DEF a
  <2>1. a \in Seq(S) /\ t \in Seq(S)
    BY <1>2
  <2>2. /\ a \o t \in Seq(S) /\ Len(a \o t) = Len(a) + Len(t)
        /\ \A i \in 1 .. Len(a) + Len(t) :
              (a \o t)[i] = IF i <= Len(a) THEN a[i] ELSE t[i - Len(a)]
    BY <2>1, ConcatProperties
  <2>3. QED BY <1>2, <2>2
<1>5. /\ o \in Seq(S) /\ Len(o) = ((p - 1) + l) + Len(z)
      /\ \A i \in 1 .. ((p - 1) + l) + Len(z) :
            o[i] = IF i <= (p - 1) + l THEN (a \o t)[i] ELSE z[i - ((p - 1) + l)]
  <2> DEFINE b == a \o t
  <2>1. o = b \o z
    BY DEF Over
  <2> HIDE DEF a, z, b, o
  <2>2. b \in Seq(S) /\ z \in Seq(S)
    BY <1>3, <1>4 DEF b
  <2>3. /\ b \o z \in Seq(S) /\ Len(b \o z) = Len(b) + Len(z)
        /\ \A i \in 1 .. Len(b) + Len(z) :
              (b \o z)[i] = IF i <= Len(b) THEN b[i] ELSE z[i - Len(b)]
    BY <2>2, ConcatProperties
  <2>4. QED BY <1>4, <2>1, <2>3 DEF b
<1> HIDE DEF a, z, n, l, o
<1>6. Len(o) = IF p + l <= n THEN n ELSE (p + l) - 1
  BY <1>1, <1>3, <1>5
<1>7. \A i \in Int : 1 <= i /\ i < p => o[i] = f[i]
  <2> SUFFICES ASSUME NEW i \in Int, 1 <= i, i < p PROVE o[i] = f[i]
    OBVIOUS
  <2>1. i \in 1 .. ((p - 1) + l) + Len(z) /\ i <= (p - 1) + l /\ i \in 1 .. (p - 1) + l /\ i <= p - 1
    BY <1>1, <1>3
  <2>2. o[i] = (a \o t)[i] /\ (a \o t)[i] = a[i] /\ a[i] = f[i]
    BY <1>2, <1>4, <1>5, <2>1
  <2>3. QED BY <2>2
<1>8. \A i \in Int : 1 <= i /\ i <= l => o[(p + i) - 1] = t[i]
  <2> SUFFICES ASSUME NEW i \in Int, 1 <= i, i <= l PROVE o[(p + i) - 1] = t[i]
    OBVIOUS
  <2> DEFINE j == (p + i) - 1
  <2>1. /\ j \in 1 .. ((p - 1) + l) + Len(z) /\ j <= (p - 1) + l /\ j \in 1 .. (p - 1) + l
        /\ ~(j <= p - 1) /\ j - (p - 1) = i
    BY <1>1, <1>3
  <2> HIDE DEF j
  <2>2. o[j] = (a \o t)[j] /\ (a \o t)[j] = t[i]
    BY <1>4, <1>5, <2>1
  <2>3. QED BY <2>2 DEF j
<1>9. \A i \in Int : p + l <= i /\ i <= n => o[i] = f[i]
  <2> SUFFICES ASSUME NEW i \in Int, p + l <= i, i <= n PROVE o[i] = f[i]
    OBVIOUS
  <2> DEFINE j == i - ((p - 1) + l)
  <2>0. Len(z) = (n - (p + l)) + 1 /\ 1 <= i
    BY <1>1, <1>3
  <2>1. /\ i \in 1 .. ((p - 1) + l) + Len(z) /\ ~(i <= (p - 1) + l)
        /\ j \in 1 .. (n - (p + l)) + 1 /\ ((p + l) + j) - 1 = i
    BY <1>1, <2>0
  <2>2. o[i] = z[j]
    BY <1>5, <2>1
  <2> HIDE DEF j
  <2>3. z[j] = f[((p + l) + j) - 1]
    BY <1>3, <2>1
  <2>4. QED BY <2>1, <2>2, <2>3
<1>10. QED BY <1>5, <1>6, <1>7, <1>8, <1>9 DEF o, n, l

\* The line that writeIntValue writes.
Line(n) == <<C_PORT>> \o Numeral(n) \o <<NL>>

LEMMA NumeralInts ==
    ASSUME NEW n \in Nat
    PROVE  /\ Numeral(n) \in Seq(Int) /\ Len(Numeral(n)) \in Nat
           /\ \A i \in 1 .. Len(Numeral(n)) : Numeral(n)[i] \in 0 .. Radix - 1 /\ Numeral(n)[i] \in Nat
<1>1. Numeral(n) \in Seq(0 .. Radix - 1)
  BY NumeralProps
<1>2. \A i \in 1 .. Len(Numeral(n)) : Numeral(n)[i] \in 0 .. Radix - 1
  BY <1>1, ElementOfSeq
<1>3. Radix \in Nat /\ 0 .. Radix - 1 \subseteq Int /\ 0 .. Radix - 1 \subseteq Nat
  BY Numerals
<1>4. Numeral(n) \in Seq(Int)
  BY <1>1, <1>3
<1>5. QED BY <1>1, <1>2, <1>3, <1>4, LenProperties

\* The key, the digits, and the end of the line.
LEMMA LineProps ==
    ASSUME NEW n \in Nat
    PROVE  /\ Line(n) \in Seq(Int) /\ Len(Line(n)) = Len(Numeral(n)) + 2
           /\ Line(n)[1] = C_PORT
           /\ \A i \in Int : 1 <= i /\ i <= Len(Numeral(n)) => Line(n)[i + 1] = Numeral(n)[i]
           /\ Line(n)[Len(Numeral(n)) + 2] = NL
<1> DEFINE s == Numeral(n)
           l == Len(s)
           k == <<C_PORT>>
           e == <<NL>>
           b == k \o s
<1>1. s \in Seq(Int) /\ l \in Nat
  BY NumeralInts
<1>2. k \in Seq(Int) /\ Len(k) = 1 /\ k[1] = C_PORT /\ e \in Seq(Int) /\ Len(e) = 1 /\ e[1] = NL
  BY DEF C_PORT, NL
<1>3. Line(n) = b \o e
  BY DEF Line
<1> DEFINE I == Int
<1>0. s \in Seq(I) /\ k \in Seq(I) /\ e \in Seq(I)
  BY <1>1, <1>2
<1> HIDE DEF s, k, e, I
<1>4. /\ b \in Seq(I) /\ Len(b) = 1 + l
      /\ \A i \in 1 .. 1 + l : b[i] = IF i <= 1 THEN k[i] ELSE s[i - 1]
  <2>1. /\ k \o s \in Seq(I) /\ Len(k \o s) = Len(k) + Len(s)
        /\ \A i \in 1 .. Len(k) + Len(s) :
              (k \o s)[i] = IF i <= Len(k) THEN k[i] ELSE s[i - Len(k)]
    BY <1>0, ConcatProperties
  <2>2. QED BY <1>2, <2>1
<1> HIDE DEF b
<1>5. /\ Line(n) \in Seq(I) /\ Len(Line(n)) = (1 + l) + 1
      /\ \A i \in 1 .. (1 + l) + 1 : Line(n)[i] = IF i <= 1 + l THEN b[i] ELSE e[i - (1 + l)]
  <2>1. /\ b \o e \in Seq(I) /\ Len(b \o e) = Len(b) + Len(e)
        /\ \A i \in 1 .. Len(b) + Len(e) :
              (b \o e)[i] = IF i <= Len(b) THEN b[i] ELSE e[i - Len(b)]
    BY <1>0, <1>4, ConcatProperties
  <2>2. QED BY <1>2, <1>3, <1>4, <2>1
<1> HIDE DEF l
<1>6. Line(n)[1] = C_PORT
  BY <1>1, <1>2, <1>4, <1>5
<1>7. ASSUME NEW i \in Int, 1 <= i, i <= l PROVE Line(n)[i + 1] = s[i]
  <2>1. i + 1 \in 1 .. 1 + l /\ i + 1 \in 1 .. (1 + l) + 1 /\ i + 1 <= 1 + l /\ ~(i + 1 <= 1) /\ (i + 1) - 1 = i
    BY <1>1, <1>7
  <2>2. QED BY <1>4, <1>5, <2>1
<1>8. Line(n)[l + 2] = NL
  <2>1. l + 2 \in 1 .. (1 + l) + 1 /\ ~(l + 2 <= 1 + l) /\ (l + 2) - (1 + l) = 1
    BY <1>1
  <2>2. QED BY <1>2, <1>5, <2>1
<1>9. Len(Line(n)) = l + 2
  BY <1>1, <1>5
<1>10. QED BY <1>5, <1>6, <1>7, <1>8, <1>9 DEF l, s, I

\* A text with the number n: the lines in front of it are as they came, and no
\* other line has the key.
TextOf(f, n) ==
    LET l == Len(Numeral(n)) IN
    /\ f \in Seq(Int) /\ Len(f) >= 7 + l
    /\ f[1] = section /\ f[2] = NL /\ f[3] = C_IP /\ f[4] = Address /\ f[5] = NL /\ f[6] = C_PORT
    /\ \A i \in Int : 1 <= i /\ i <= l => f[i + 6] = Numeral(n)[i]
    /\ f[7 + l] = NL
    /\ \A i \in Int : 7 <= i /\ i <= Len(f) => f[i] \notin {C_IP, C_PORT}

\* The lines behind it are where they were.
LinesBehind(f) ==
    LET l == Len(Numeral(Base)) IN
    /\ Len(f) = l + 14
    /\ f[l + 8] = NL /\ f[l + 9] = S_IP /\ f[l + 10] = Address /\ f[l + 11] = NL
    /\ f[l + 12] = S_PORT /\ f[l + 13] = 1 /\ f[l + 14] = NL
    /\ \A i \in Int : 1 <= i /\ i <= l + 8 => f[i] \notin {S_IP, S_PORT}

FileInv == /\ TextOf(file, c_port)
           /\ Len(Numeral(Base + starts)) <= Len(Numeral(Base)) + 1 => LinesBehind(file)

\* The symbols are no digits, and differ.
LEMMA Symbols ==
    /\ {NL, section, C_IP, C_PORT, S_IP, S_PORT, Address} \subseteq Int
    /\ C_IP < 0 /\ C_PORT < 0 /\ S_IP < 0 /\ S_PORT < 0 /\ NL < 0
    /\ NL \notin {section, C_IP, C_PORT, S_IP, S_PORT, Address}
    /\ C_PORT \notin {section, C_IP, S_IP, S_PORT, Address}
    /\ S_PORT \notin {section, C_IP, S_IP, Address}
    /\ S_IP \notin {section, C_IP, Address}
    /\ C_IP \notin {section, Address}
BY DEF NL, section, C_IP, C_PORT, S_IP, S_PORT, Address

\* Where a key is found that stands in one place.
LEMMA Found ==
    ASSUME NEW f \in Seq(Int), NEW key \in Int, NEW p \in Int, 1 < p, p <= Len(f),
           f[1] = section, f[p - 1] = NL, f[p] = key,
           \A i \in Int : 1 <= i /\ i <= Len(f) /\ f[i] = key => i = p
    PROVE  Start(f, key) = {p}
<1>1. Len(f) \in Nat /\ DOMAIN f = 1 .. Len(f)
  BY LenProperties
<1>2. p \in Start(f, key)
  <2>1. 1 \in 1 .. p - 1 /\ p \in DOMAIN f
    BY <1>1
  <2>2. QED BY <2>1 DEF Start
<1>3. \A i \in Start(f, key) : i = p
  BY <1>1 DEF Start
<1>4. QED BY <1>2, <1>3

LEMMA ReadAt ==
    ASSUME NEW f \in Seq(Int), NEW key \in Int, NEW p \in Int, NEW e \in Int,
           Start(f, key) = {p}, 1 <= p, p < e, e <= Len(f), f[e] = NL,
           \A i \in Int : p < i /\ i < e => f[i] # NL
    PROVE  IniReadValue(f, key) = SubSeq(f, p + 1, e - 1)
<1>1. Len(f) \in Nat
  BY LenProperties
<1> DEFINE E(x) == f[x] = NL /\ \A j \in p + 1 .. x - 1 : f[j] # NL
<1>2. e \in p + 1 .. Len(f) /\ E(e)
  BY <1>1
<1>3. \A x \in p + 1 .. Len(f) : E(x) => x = e
  <2> SUFFICES ASSUME NEW x \in p + 1 .. Len(f), f[x] = NL, \A j \in p + 1 .. x - 1 : f[j] # NL, x # e
               PROVE  FALSE
    OBVIOUS
  <2>1. ~(x < e)
    BY <1>1
  <2>2. ~(e < x)
    BY <1>1
  <2>3. QED BY <1>1, <2>1, <2>2
<1> HIDE DEF E
<1>4. (CHOOSE x \in p + 1 .. Len(f) : E(x)) = e
  BY <1>2, <1>3
<1>5. (CHOOSE q \in Start(f, key) : TRUE) = p /\ Start(f, key) # {}
  OBVIOUS
<1>6. IniReadValue(f, key) = SubSeq(f, p + 1, (CHOOSE x \in p + 1 .. Len(f) : E(x)) - 1)
  BY <1>5 DEF IniReadValue, E
<1>7. QED BY <1>4, <1>6

\* The line is written where the key is found.
LEMMA WriteAt ==
    ASSUME NEW f, NEW p, NEW n \in Nat, Start(f, C_PORT) = {p}
    PROVE  writeIntValue(f, C_PORT, n) = Over(f, p, Line(n))
<1>1. (CHOOSE q \in Start(f, C_PORT) : TRUE) = p /\ Start(f, C_PORT) # {}
  OBVIOUS
<1>2. QED BY <1>1 DEF writeIntValue, IniWriteValue, Over, Line

\* The only line with the key of the number begins at the sixth position.
LEMMA PortFound ==
    ASSUME NEW f, NEW n \in Nat, TextOf(f, n)
    PROVE  Start(f, C_PORT) = {6}
<1>1. f \in Seq(Int) /\ Len(f) \in Nat /\ Len(f) >= 7 + Len(Numeral(n)) /\ Len(Numeral(n)) \in Nat
  BY LenProperties, NumeralInts DEF TextOf
<1>2. \A i \in Int : 1 <= i /\ i <= Len(f) /\ f[i] = C_PORT => i = 6
  <2> SUFFICES ASSUME NEW i \in Int, 1 <= i, i <= Len(f), f[i] = C_PORT, i # 6 PROVE FALSE
    OBVIOUS
  <2>1. i \in {1, 2, 3, 4, 5} \/ 7 <= i
    OBVIOUS
  <2>2. QED BY <2>1, Symbols DEF TextOf
<1>3. 6 \in Int /\ 1 < 6 /\ 6 <= Len(f) /\ 6 - 1 = 5 /\ C_PORT \in Int
  BY <1>1, Symbols
<1>4. f[1] = section /\ f[5] = NL /\ f[6] = C_PORT
  BY DEF TextOf
<1> DEFINE p == 6
           k == C_PORT
<1>5. /\ p \in Int /\ k \in Int /\ 1 < p /\ p <= Len(f) /\ f[p - 1] = NL /\ f[p] = k
      /\ \A i \in Int : 1 <= i /\ i <= Len(f) /\ f[i] = k => i = p
  BY <1>2, <1>3, <1>4
<1> HIDE DEF p, k
<1>6. Start(f, k) = {p}
  BY <1>1, <1>4, <1>5, Found
<1>7. QED BY <1>6 DEF p, k

\* Reading gives the number that the text has.
LEMMA NumberRead ==
    ASSUME NEW f, NEW n \in Nat, TextOf(f, n)
    PROVE  readIntValue(f, C_PORT) = n
<1> DEFINE l == Len(Numeral(n))
           e == 7 + l
<1>1. f \in Seq(Int) /\ Len(f) \in Nat /\ Len(f) >= e /\ l \in Nat
  BY LenProperties, NumeralInts DEF TextOf
<1>2. \A i \in Int : 1 <= i /\ i <= l => f[i + 6] = Numeral(n)[i]
  BY DEF TextOf
<1>3. f[e] = NL
  BY DEF TextOf
<1>4. \A i \in Int : 6 < i /\ i < e => f[i] # NL
  <2> SUFFICES ASSUME NEW i \in Int, 6 < i, i < e PROVE f[i] # NL
    OBVIOUS
  <2> DEFINE j == i - 6
  <2>1. j \in Int /\ 1 <= j /\ j <= l /\ j + 6 = i
    BY <1>1
  <2> HIDE DEF j
  <2>2. f[i] = Numeral(n)[j] /\ j \in 1 .. l
    BY <1>2, <2>1
  <2>3. f[i] \in Nat
    BY <2>2, NumeralInts
  <2>4. QED BY <2>3, Symbols
<1>5. IniReadValue(f, C_PORT) = SubSeq(f, 7, e - 1)
  <2>1. 6 \in Int /\ e \in Int /\ 1 <= 6 /\ 6 < e /\ e <= Len(f) /\ C_PORT \in Int /\ 6 + 1 = 7
    BY <1>1, Symbols
  <2>2. Start(f, C_PORT) = {6}
    BY PortFound
  <2> DEFINE p == 6
             k == C_PORT
  <2>3. /\ p \in Int /\ k \in Int /\ 1 <= p /\ p < e /\ e <= Len(f) /\ Start(f, k) = {p}
        /\ \A i \in Int : p < i /\ i < e => f[i] # NL
    BY <1>4, <2>1, <2>2
  <2>4. p + 1 = 7
    OBVIOUS
  <2> HIDE DEF e, p, k
  <2>5. IniReadValue(f, k) = SubSeq(f, p + 1, e - 1)
    BY <1>1, <1>3, <2>1, <2>3, ReadAt
  <2>6. QED BY <2>4, <2>5 DEF k
<1>6. SubSeq(f, 7, e - 1) = Numeral(n)
  <2> DEFINE lo == 7
             hi == e - 1
             s == SubSeq(f, lo, hi)
             I == Int
  <2>1. lo \in Int /\ hi \in Int /\ \A i \in lo .. hi : f[i] \in I
    <3>1. \A i \in 1 .. Len(f) : f[i] \in Int
      BY <1>1, ElementOfSeq
    <3>2. \A i \in lo .. hi : i \in 1 .. Len(f)
      BY <1>1
    <3>3. QED BY <1>1, <3>1, <3>2
  <2>2. lo <= hi => hi - lo + 1 = l
    BY <1>1
  <2>3. ~(lo <= hi) => l = 0
    BY <1>1
  <2>4. \A i \in 1 .. l : lo <= hi /\ i \in 1 .. hi - lo + 1 /\ lo + i - 1 = i + 6
    BY <1>1
  <2> HIDE DEF lo, hi, I
  <2>5. /\ s \in Seq(I) /\ Len(s) = IF lo <= hi THEN hi - lo + 1 ELSE 0
        /\ \A i \in 1 .. hi - lo + 1 : s[i] = f[lo + i - 1]
    BY <2>1, SubSeqProperties
  <2> HIDE DEF s, l
  <2>6. Len(s) = l
    BY <2>2, <2>3, <2>5
  <2>7. ASSUME NEW i \in 1 .. l PROVE s[i] = Numeral(n)[i]
    <3>1. s[i] = f[i + 6]
      BY <2>4, <2>5
    <3>2. i \in Int /\ 1 <= i /\ i <= l
      BY <1>1
    <3>3. QED BY <1>2, <3>1, <3>2
  <2>8. Numeral(n) \in Seq(I) /\ Len(Numeral(n)) = l
    BY NumeralInts DEF I, l
  <2>9. s = Numeral(n)
    BY <2>5, <2>6, <2>7, <2>8, SeqEqual
  <2>10. QED BY <2>9 DEF s, lo, hi
<1>7. QED BY <1>5, <1>6, ValueOfNumeral DEF readIntValue

\* g is f after the number n has been written into it.
Replaced(f, g, n) ==
    LET l == Len(Numeral(n)) IN
    /\ g \in Seq(Int)
    /\ Len(g) = IF l + 8 <= Len(f) THEN Len(f) ELSE l + 7
    /\ \A i \in Int : 1 <= i /\ i < 6 => g[i] = f[i]
    /\ g[6] = C_PORT
    /\ \A i \in Int : 1 <= i /\ i <= l => g[i + 6] = Numeral(n)[i]
    /\ g[7 + l] = NL
    /\ \A i \in Int : l + 8 <= i /\ i <= Len(f) => g[i] = f[i]

LEMMA Written ==
    ASSUME NEW f, NEW m \in Nat, NEW n \in Nat, TextOf(f, m)
    PROVE  Replaced(f, writeIntValue(f, C_PORT, n), n)
<1> DEFINE l == Len(Numeral(n))
           g == writeIntValue(f, C_PORT, n)
<1>0. l \in Nat /\ l = Len(Numeral(n))
  BY NumeralInts
<1> DEFINE p == 6
           t == Line(n)
           I == Int
           k == Len(t)
<1>1. f \in Seq(I) /\ Len(f) \in Nat /\ p <= Len(f)
  BY LenProperties, NumeralInts DEF TextOf
<1>2. g = Over(f, p, t)
  <2> HIDE DEF t
  <2>1. QED BY PortFound, WriteAt DEF t
<1>3. /\ t \in Seq(I) /\ k = l + 2 /\ t[1] = C_PORT /\ t[l + 2] = NL
      /\ \A i \in Int : 1 <= i /\ i <= l => t[i + 1] = Numeral(n)[i]
  BY LineProps
<1>4. p \in Int /\ 1 <= p
  OBVIOUS
<1> HIDE DEF p, t, I, l, g
<1>5. /\ g \in Seq(I)
      /\ Len(g) = IF p + Len(t) <= Len(f) THEN Len(f) ELSE (p + Len(t)) - 1
      /\ \A i \in Int : 1 <= i /\ i < p => g[i] = f[i]
      /\ \A i \in Int : 1 <= i /\ i <= Len(t) => g[(p + i) - 1] = t[i]
      /\ \A i \in Int : p + Len(t) <= i /\ i <= Len(f) => g[i] = f[i]
  <2>1. /\ Over(f, p, t) \in Seq(I)
        /\ Len(Over(f, p, t)) = IF p + Len(t) <= Len(f) THEN Len(f) ELSE (p + Len(t)) - 1
        /\ \A i \in Int : 1 <= i /\ i < p => Over(f, p, t)[i] = f[i]
        /\ \A i \in Int : 1 <= i /\ i <= Len(t) => Over(f, p, t)[(p + i) - 1] = t[i]
        /\ \A i \in Int : p + Len(t) <= i /\ i <= Len(f) => Over(f, p, t)[i] = f[i]
    <3>1. f \in Seq(I) /\ t \in Seq(I) /\ p <= Len(f)
      BY <1>1, <1>3
    <3> HIDE DEF k
    <3>2. QED BY ONLY <1>4, <3>1, OverProps
  <2>2. QED BY <1>2, <2>1
<1>6. p + Len(t) = l + 8 /\ (p + Len(t)) - 1 = l + 7
  BY <1>0, <1>3 DEF p
<1>7. Len(g) = IF l + 8 <= Len(f) THEN Len(f) ELSE l + 7
  BY <1>5, <1>6
<1>8. g[6] = C_PORT
  <2>1. 1 \in Int /\ 1 <= 1 /\ 1 <= Len(t) /\ (p + 1) - 1 = 6
    BY <1>0, <1>3 DEF p
  <2>2. QED BY <1>3, <1>5, <2>1
<1>9. ASSUME NEW i \in Int, 1 <= i, i <= l PROVE g[i + 6] = Numeral(n)[i]
  <2>1. i + 1 \in Int /\ 1 <= i + 1 /\ i + 1 <= Len(t) /\ (p + (i + 1)) - 1 = i + 6
    BY <1>0, <1>3, <1>9 DEF p
  <2>2. g[(p + (i + 1)) - 1] = t[i + 1]
    BY <1>5, <2>1
  <2>3. t[i + 1] = Numeral(n)[i]
    BY <1>3, <1>9
  <2>4. QED BY <2>1, <2>2, <2>3
<1>10. g[7 + l] = NL
  <2>1. l + 2 \in Int /\ 1 <= l + 2 /\ l + 2 <= Len(t) /\ (p + (l + 2)) - 1 = 7 + l
    BY <1>0, <1>3 DEF p
  <2>2. g[(p + (l + 2)) - 1] = t[l + 2]
    BY <1>5, <2>1
  <2>3. QED BY <1>3, <2>1, <2>2
<1>11. \A i \in Int : l + 8 <= i /\ i <= Len(f) => g[i] = f[i]
  BY <1>5, <1>6
<1>12. \A i \in Int : 1 <= i /\ i < 6 => g[i] = f[i]
  BY <1>5 DEF p
<1>13. QED BY <1>5, <1>7, <1>8, <1>9, <1>10, <1>11, <1>12 DEF I, Replaced, l, g

\* After a write the text has the number that was written, whatever it had before.
LEMMA WrittenText ==
    ASSUME NEW f, NEW m \in Nat, NEW n \in Nat, TextOf(f, m)
    PROVE  TextOf(writeIntValue(f, C_PORT, n), n)
<1> DEFINE g == writeIntValue(f, C_PORT, n)
           l == Len(Numeral(n))
<1>1. l \in Nat /\ Len(f) \in Nat
  BY NumeralInts, LenProperties DEF TextOf
<1>2. /\ g \in Seq(Int)
      /\ Len(g) = IF l + 8 <= Len(f) THEN Len(f) ELSE l + 7
      /\ \A i \in Int : 1 <= i /\ i < 6 => g[i] = f[i]
      /\ g[6] = C_PORT
      /\ \A i \in Int : 1 <= i /\ i <= l => g[i + 6] = Numeral(n)[i]
      /\ g[7 + l] = NL
      /\ \A i \in Int : l + 8 <= i /\ i <= Len(f) => g[i] = f[i]
  BY Written DEF Replaced
<1> HIDE DEF g
<1>3. Len(g) >= 7 + l
  BY <1>1, <1>2
<1>4. g[1] = section /\ g[2] = NL /\ g[3] = C_IP /\ g[4] = Address /\ g[5] = NL
  <2>1. \A i \in {1, 2, 3, 4, 5} : i \in Int /\ 1 <= i /\ i < 6
    OBVIOUS
  <2>2. \A i \in {1, 2, 3, 4, 5} : g[i] = f[i]
    BY <1>2, <2>1
  <2>3. QED BY <2>2 DEF TextOf
<1>5. ASSUME NEW i \in Int, 7 <= i, i <= Len(g) PROVE g[i] \notin {C_IP, C_PORT}
  <2>1. CASE i < 7 + l
    <3> DEFINE j == i - 6
    <3>1. j \in Int /\ 1 <= j /\ j <= l /\ j \in 1 .. l /\ j + 6 = i
      BY <1>1, <1>5, <2>1
    <3> HIDE DEF j
    <3>2. g[i] = Numeral(n)[j]
      BY <1>2, <3>1
    <3>3. g[i] \in Nat
      BY <3>1, <3>2, NumeralInts
    <3>4. QED BY <3>3, Symbols
  <2>2. CASE i = 7 + l
    BY <1>2, <2>2, Symbols
  <2>3. CASE i > 7 + l
    <3>1. l + 8 <= i /\ i <= Len(f)
      BY <1>1, <1>2, <1>5, <2>3
    <3>2. g[i] = f[i]
      BY <1>2, <3>1
    <3>3. QED BY <1>5, <3>1, <3>2 DEF TextOf
  <2>4. QED BY <1>1, <2>1, <2>2, <2>3
<1> HIDE DEF l
<1>6. TextOf(g, n)
  BY <1>2, <1>3, <1>4, <1>5 DEF TextOf, l
<1>7. QED BY <1>6 DEF g

\* A number at most one digit longer than the first leaves the lines behind it.
LEMMA WrittenBehind ==
    ASSUME NEW f, NEW m \in Nat, NEW n \in Nat, TextOf(f, m), LinesBehind(f),
           Len(Numeral(n)) <= Len(Numeral(Base)) + 1
    PROVE  LinesBehind(writeIntValue(f, C_PORT, n))
<1> DEFINE g == writeIntValue(f, C_PORT, n)
           l == Len(Numeral(n))
           b == Len(Numeral(Base))
<1>1. l \in Nat /\ b \in Nat /\ l <= b + 1 /\ Len(f) = b + 14
  BY FirstPort, NumeralInts DEF LinesBehind
<1>2. /\ g \in Seq(Int)
      /\ Len(g) = IF l + 8 <= Len(f) THEN Len(f) ELSE l + 7
      /\ \A i \in Int : 1 <= i /\ i < 6 => g[i] = f[i]
      /\ g[6] = C_PORT
      /\ \A i \in Int : 1 <= i /\ i <= l => g[i + 6] = Numeral(n)[i]
      /\ g[7 + l] = NL
      /\ \A i \in Int : l + 8 <= i /\ i <= Len(f) => g[i] = f[i]
  BY Written DEF Replaced
<1>3. /\ f[b + 8] = NL /\ f[b + 9] = S_IP /\ f[b + 10] = Address /\ f[b + 11] = NL
      /\ f[b + 12] = S_PORT /\ f[b + 13] = 1 /\ f[b + 14] = NL
      /\ \A i \in Int : 1 <= i /\ i <= b + 8 => f[i] \notin {S_IP, S_PORT}
  BY DEF LinesBehind
<1>4. \A i \in 1 .. l : Numeral(n)[i] \in Nat
  BY NumeralInts
<1> HIDE DEF g, l, b
<1>5. Len(g) = b + 14
  BY <1>1, <1>2
<1>6. \A i \in Int : b + 9 <= i /\ i <= b + 14 => g[i] = f[i]
  BY <1>1, <1>2
<1>7. /\ g[b + 9] = S_IP /\ g[b + 10] = Address /\ g[b + 11] = NL
      /\ g[b + 12] = S_PORT /\ g[b + 13] = 1 /\ g[b + 14] = NL
  <2>1. \A k \in {9, 10, 11, 12, 13, 14} : g[b + k] = f[b + k]
    BY <1>1, <1>6
  <2>2. QED BY <1>3, <2>1
<1>8. g[b + 8] = NL
  <2>1. CASE l = b + 1
    <3>1. 7 + l = b + 8
      BY <1>1, <2>1
    <3>2. QED BY <1>2, <3>1
  <2>2. CASE l # b + 1
    <3>1. l + 8 <= b + 8 /\ b + 8 <= Len(f) /\ b + 8 \in Int
      BY <1>1, <2>2
    <3>2. QED BY <1>2, <1>3, <3>1
  <2>3. QED BY <2>1, <2>2
<1>9. ASSUME NEW i \in Int, 1 <= i, i <= b + 8 PROVE g[i] \notin {S_IP, S_PORT}
  <2>1. CASE i < 6 \/ l + 8 <= i
    <3>1. g[i] = f[i]
      BY <1>1, <1>2, <1>9, <2>1
    <3>2. QED BY <1>3, <1>9, <3>1
  <2>2. CASE 6 < i /\ i < 7 + l
    <3> DEFINE j == i - 6
    <3>1. j \in Int /\ 1 <= j /\ j <= l /\ j \in 1 .. l /\ j + 6 = i
      BY <1>1, <2>2
    <3> HIDE DEF j
    <3>2. g[i] = Numeral(n)[j]
      BY <1>2, <3>1
    <3>3. g[i] \in Nat
      BY <1>4, <3>1, <3>2
    <3>4. QED BY <3>3, Symbols
  <2>3. CASE i = 6
    BY <1>2, <2>3, Symbols
  <2>4. CASE i = 7 + l
    BY <1>2, <2>4, Symbols
  <2>5. QED BY <1>1, <2>1, <2>2, <2>3, <2>4
<1>10. LinesBehind(g)
  BY <1>5, <1>7, <1>8, <1>9 DEF LinesBehind, b
<1>11. QED BY <1>10 DEF g

\* The part of a text that is one symbol long.
LEMMA OneSymbol ==
    ASSUME NEW f, NEW i \in Int
    PROVE  SubSeq(f, i, i) = <<f[i]>>
<1> DEFINE S == {f[i]}
           s == SubSeq(f, i, i)
           t == <<f[i]>>
<1>1. \A j \in i .. i : f[j] \in S
  OBVIOUS
<1>2. t \in Seq(S) /\ Len(t) = 1 /\ t[1] = f[i]
  OBVIOUS
<1> HIDE DEF S
<1>3. /\ SubSeq(f, i, i) \in Seq(S) /\ Len(SubSeq(f, i, i)) = IF i <= i THEN i - i + 1 ELSE 0
      /\ \A j \in 1 .. i - i + 1 : SubSeq(f, i, i)[j] = f[i + j - 1]
  BY <1>1, SubSeqProperties
<1>4. Len(s) = 1
  BY <1>3
<1>5. s[1] = f[i]
  <2>1. 1 \in 1 .. i - i + 1 /\ i + 1 - 1 = i
    OBVIOUS
  <2>2. QED BY <1>3, <2>1
<1> HIDE DEF t, s
<1>6. \A j \in 1 .. Len(s) : s[j] = t[j]
  BY <1>2, <1>4, <1>5
<1>7. s \in Seq(S)
  BY <1>3 DEF s
<1>8. s = t
  BY <1>2, <1>4, <1>6, <1>7, SeqEqual
<1>9. QED BY <1>8 DEF s, t

\* A setting of one symbol.
LEMMA Setting ==
    ASSUME NEW f \in Seq(Int), NEW key \in Int, NEW p \in Int, 1 < p, p + 2 <= Len(f),
           f[1] = section, f[p - 1] = NL, f[p] = key, f[p + 1] # NL, f[p + 2] = NL,
           \A i \in Int : 1 <= i /\ i <= Len(f) /\ f[i] = key => i = p
    PROVE  IniReadValue(f, key) = <<f[p + 1]>>
<1> DEFINE e == p + 2
<1>1. Len(f) \in Nat
  BY LenProperties
<1>2. p <= Len(f)
  BY <1>1
<1>3. Start(f, key) = {p}
  BY <1>2, Found
<1>4. /\ e \in Int /\ 1 <= p /\ p < e /\ e <= Len(f) /\ f[e] = NL /\ e - 1 = p + 1
      /\ \A i \in Int : p < i /\ i < e => f[i] # NL
  <2>1. \A i \in Int : p < i /\ i < e => i = p + 1
    OBVIOUS
  <2>2. QED BY <2>1
<1> HIDE DEF e
<1>5. IniReadValue(f, key) = SubSeq(f, p + 1, e - 1)
  BY ONLY f \in Seq(Int), key \in Int, p \in Int, <1>3, <1>4, ReadAt
<1>6. p + 1 \in Int
  OBVIOUS
<1>7. QED BY <1>4, <1>5, <1>6, OneSymbol

\* The other settings can be read from such a text.
LEMMA SettingsRead ==
    ASSUME NEW f, NEW n \in Nat, TextOf(f, n), LinesBehind(f)
    PROVE  /\ IniReadValue(f, C_IP) = <<Address>>
           /\ IniReadValue(f, S_IP) = <<Address>>
           /\ readIntValue(f, S_PORT) = 1
<1> DEFINE b == Len(Numeral(Base))
<1>1. b \in Nat /\ f \in Seq(Int) /\ Len(f) = b + 14
  BY FirstPort, NumeralInts DEF TextOf, LinesBehind
<1>2. /\ f[1] = section /\ f[2] = NL /\ f[3] = C_IP /\ f[4] = Address /\ f[5] = NL /\ f[6] = C_PORT
      /\ \A i \in Int : 7 <= i /\ i <= Len(f) => f[i] # C_IP
  BY DEF TextOf
<1>3. /\ f[b + 8] = NL /\ f[b + 9] = S_IP /\ f[b + 10] = Address /\ f[b + 11] = NL
      /\ f[b + 12] = S_PORT /\ f[b + 13] = 1 /\ f[b + 14] = NL
      /\ \A i \in Int : 1 <= i /\ i <= b + 8 => f[i] \notin {S_IP, S_PORT}
  BY DEF LinesBehind
<1> HIDE DEF b
<1>4. IniReadValue(f, C_IP) = <<Address>>
  <2> DEFINE p == 3
             k == C_IP
  <2>1. p \in Int /\ k \in Int /\ 1 < p /\ p + 2 <= Len(f)
    BY <1>1, Symbols
  <2>2. f[p - 1] = NL /\ f[p] = k /\ f[p + 1] = Address /\ f[p + 1] # NL /\ f[p + 2] = NL
    BY <1>2, Symbols
  <2>3. ASSUME NEW i \in Int, 1 <= i, i <= Len(f), f[i] = k PROVE i = p
    <3>1. i \in {1, 2, 3, 4, 5, 6} \/ 7 <= i
      BY <2>3
    <3>2. QED BY <1>2, <2>3, <3>1, Symbols
  <2> HIDE DEF p, k
  <2>4. IniReadValue(f, k) = <<f[p + 1]>>
    BY <1>1, <1>2, <2>1, <2>2, <2>3, Setting
  <2>5. QED BY <2>2, <2>4 DEF k
<1>5. IniReadValue(f, S_IP) = <<Address>>
  <2> DEFINE p == b + 9
             k == S_IP
  <2>1. /\ p \in Int /\ k \in Int /\ 1 < p /\ p + 2 <= Len(f)
        /\ p - 1 = b + 8 /\ p + 1 = b + 10 /\ p + 2 = b + 11
    BY <1>1, Symbols
  <2>2. f[p - 1] = NL /\ f[p] = k /\ f[p + 1] = Address /\ f[p + 1] # NL /\ f[p + 2] = NL
    BY <1>3, <2>1, Symbols
  <2>3. ASSUME NEW i \in Int, 1 <= i, i <= Len(f), f[i] = k PROVE i = p
    <3>1. i <= b + 8 \/ i \in {b + 9, b + 10, b + 11, b + 12, b + 13, b + 14}
      BY <1>1, <2>3
    <3>2. i > b + 8 => i = b + 9 \/ f[i] \in {Address, NL, S_PORT, 1}
      BY <1>1, <1>3, <3>1
    <3>3. ~(i <= b + 8)
      BY <1>3, <2>3
    <3>4. S_IP \notin {Address, NL, S_PORT, 1}
      BY DEF Address, NL, S_PORT, S_IP
    <3>5. QED BY <1>1, <2>3, <3>2, <3>3, <3>4
  <2> HIDE DEF p, k
  <2>4. IniReadValue(f, k) = <<f[p + 1]>>
    BY <1>1, <1>2, <2>1, <2>2, <2>3, Setting
  <2>5. QED BY <2>2, <2>4 DEF k
<1>6. IniReadValue(f, S_PORT) = <<1>>
  <2> DEFINE p == b + 12
             k == S_PORT
  <2>1. /\ p \in Int /\ k \in Int /\ 1 < p /\ p + 2 <= Len(f)
        /\ p - 1 = b + 11 /\ p + 1 = b + 13 /\ p + 2 = b + 14
    BY <1>1, Symbols
  <2>2. f[p - 1] = NL /\ f[p] = k /\ f[p + 1] = 1 /\ f[p + 1] # NL /\ f[p + 2] = NL
    <3>1. f[p - 1] = NL /\ f[p] = k /\ f[p + 1] = 1 /\ f[p + 2] = NL
      BY <1>3, <2>1
    <3>2. QED BY <3>1 DEF NL
  <2>3. ASSUME NEW i \in Int, 1 <= i, i <= Len(f), f[i] = k PROVE i = p
    <3>1. i <= b + 8 \/ i \in {b + 9, b + 10, b + 11, b + 12, b + 13, b + 14}
      BY <1>1, <2>3
    <3>2. i > b + 8 => i = b + 12 \/ f[i] \in {Address, NL, S_IP, 1}
      BY <1>1, <1>3, <3>1
    <3>3. ~(i <= b + 8)
      BY <1>3, <2>3
    <3>4. S_PORT \notin {Address, NL, S_IP, 1}
      BY DEF Address, NL, S_PORT, S_IP
    <3>5. QED BY <1>1, <2>3, <3>2, <3>3, <3>4
  <2> HIDE DEF p, k
  <2>4. IniReadValue(f, k) = <<f[p + 1]>>
    BY <1>1, <1>2, <2>1, <2>2, <2>3, Setting
  <2>5. QED BY <2>2, <2>4 DEF k
<1>7. Value(<<1>>) = 1
  <2>1. 1 \in Nat /\ 1 < Radix
    BY Numerals
  <2>2. Numeral(1) = <<1>>
    BY <2>1, NumeralStep
  <2>3. QED BY <2>1, <2>2, ValueOfNumeral
<1>8. QED BY <1>4, <1>5, <1>6, <1>7 DEF readIntValue

\* The file as it comes has the first number.
LEMMA InitFile == TextOf(config_ini, Base) /\ LinesBehind(config_ini)
<1> DEFINE A == <<section, NL, C_IP, Address, NL, C_PORT>>
           N == Numeral(Base)
           Z == <<NL, NL, S_IP, Address, NL, S_PORT, 1, NL>>
           I == Int
           b == Len(N)
           h == A \o N
           f == h \o Z
<1>1. /\ A \in Seq(I) /\ Len(A) = 6
      /\ A[1] = section /\ A[2] = NL /\ A[3] = C_IP /\ A[4] = Address /\ A[5] = NL /\ A[6] = C_PORT
  BY Symbols
<1>2. /\ Z \in Seq(I) /\ Len(Z) = 8
      /\ Z[1] = NL /\ Z[2] = NL /\ Z[3] = S_IP /\ Z[4] = Address /\ Z[5] = NL /\ Z[6] = S_PORT
      /\ Z[7] = 1 /\ Z[8] = NL
  BY Symbols
<1>3. N \in Seq(I) /\ b \in Nat /\ \A i \in 1 .. b : N[i] \in Nat
  BY FirstPort, NumeralInts
<1>4. config_ini = f
  BY DEF config_ini
<1> HIDE DEF A, Z, N, I
<1>5. /\ h \in Seq(I) /\ Len(h) = Len(A) + Len(N)
      /\ \A i \in 1 .. Len(A) + Len(N) : h[i] = IF i <= Len(A) THEN A[i] ELSE N[i - Len(A)]
  BY <1>1, <1>3, ConcatProperties
<1> HIDE DEF h
<1>6. /\ f \in Seq(I) /\ Len(f) = Len(h) + Len(Z)
      /\ \A i \in 1 .. Len(h) + Len(Z) : f[i] = IF i <= Len(h) THEN h[i] ELSE Z[i - Len(h)]
  <2>1. h \in Seq(I) /\ Z \in Seq(I)
    BY <1>2, <1>5
  <2>2. QED BY <2>1, ConcatProperties
<1> HIDE DEF f, b
<1>7. Len(h) = b + 6 /\ Len(f) = b + 14
  BY <1>1, <1>2, <1>3, <1>5, <1>6 DEF b
<1>8. \A i \in {1, 2, 3, 4, 5, 6} : f[i] = A[i]
  <2>1. \A i \in {1, 2, 3, 4, 5, 6} : /\ i \in 1 .. Len(A) + Len(N) /\ i <= Len(A)
                                      /\ i \in 1 .. Len(h) + Len(Z) /\ i <= Len(h)
    BY <1>1, <1>2, <1>3, <1>7 DEF b
  <2>2. QED BY <1>5, <1>6, <2>1
<1>9. ASSUME NEW i \in Int, 1 <= i, i <= b PROVE f[i + 6] = N[i]
  <2>1. /\ i + 6 \in 1 .. Len(A) + Len(N) /\ ~(i + 6 <= Len(A)) /\ (i + 6) - Len(A) = i
        /\ i + 6 \in 1 .. Len(h) + Len(Z) /\ i + 6 <= Len(h)
    BY <1>1, <1>2, <1>3, <1>7, <1>9 DEF b
  <2>2. QED BY <1>5, <1>6, <2>1
<1>10. \A i \in {1, 2, 3, 4, 5, 6, 7, 8} : f[(b + 6) + i] = Z[i]
  <2>1. \A i \in {1, 2, 3, 4, 5, 6, 7, 8} :
           /\ (b + 6) + i \in 1 .. Len(h) + Len(Z) /\ ~((b + 6) + i <= Len(h))
           /\ ((b + 6) + i) - Len(h) = i
    BY <1>2, <1>3, <1>7
  <2>2. QED BY <1>6, <2>1
<1>11. /\ f[b + 7] = NL /\ f[b + 8] = NL /\ f[b + 9] = S_IP /\ f[b + 10] = Address /\ f[b + 11] = NL
       /\ f[b + 12] = S_PORT /\ f[b + 13] = 1 /\ f[b + 14] = NL
  <2>1. /\ (b + 6) + 1 = b + 7 /\ (b + 6) + 2 = b + 8 /\ (b + 6) + 3 = b + 9 /\ (b + 6) + 4 = b + 10
        /\ (b + 6) + 5 = b + 11 /\ (b + 6) + 6 = b + 12 /\ (b + 6) + 7 = b + 13 /\ (b + 6) + 8 = b + 14
    BY <1>3
  <2>2. QED BY <1>2, <1>10, <2>1
<1>12. \A i \in Int : 7 <= i /\ i <= b + 6 => f[i] \in Nat
  <2> SUFFICES ASSUME NEW i \in Int, 7 <= i, i <= b + 6 PROVE f[i] \in Nat
    OBVIOUS
  <2> DEFINE j == i - 6
  <2>1. j \in Int /\ 1 <= j /\ j <= b /\ j \in 1 .. b /\ j + 6 = i
    BY <1>3
  <2> HIDE DEF j
  <2>2. QED BY <1>3, <1>9, <2>1
<1>13. ASSUME NEW i \in Int, 7 <= i, i <= b + 14 PROVE f[i] \notin {C_IP, C_PORT}
  <2>1. \/ i <= b + 6
        \/ i \in {b + 7, b + 8, b + 9, b + 10, b + 11, b + 12, b + 13, b + 14}
    BY <1>3, <1>13
  <2>2. QED BY <1>11, <1>12, <1>13, <2>1, Symbols
<1>14. ASSUME NEW i \in Int, 1 <= i, i <= b + 8 PROVE f[i] \notin {S_IP, S_PORT}
  <2>1. i \in {1, 2, 3, 4, 5, 6} \/ (7 <= i /\ i <= b + 6) \/ i \in {b + 7, b + 8}
    BY <1>3, <1>14
  <2>2. CASE i \in {1, 2, 3, 4, 5, 6}
    BY <1>1, <1>8, <2>2, Symbols
  <2>3. CASE 7 <= i /\ i <= b + 6
    BY <1>12, <2>3, Symbols
  <2>4. CASE i \in {b + 7, b + 8}
    BY <1>11, <2>4, Symbols
  <2>5. QED BY <2>1, <2>2, <2>3, <2>4
<1>15. b + 7 = 7 + b
  BY <1>3
<1>16. LinesBehind(f)
  BY <1>7, <1>11, <1>14 DEF LinesBehind, b, N
<1>17. TextOf(f, Base)
  <2>1. Len(f) >= 7 + b
    BY <1>3, <1>7
  <2>2. f[1] = section /\ f[2] = NL /\ f[3] = C_IP /\ f[4] = Address /\ f[5] = NL /\ f[6] = C_PORT
    BY <1>1, <1>8
  <2>3. f[7 + b] = NL
    BY <1>11, <1>15
  <2>4. QED BY <1>6, <1>7, <1>9, <1>13, <2>1, <2>2, <2>3 DEF TextOf, b, N, I
<1>18. QED BY <1>4, <1>16, <1>17
-----------------------------------------------------------------------------
\* What is written to the file is the number that PortFile has.
THEOREM FileIsPortFile == FileSpec => Spec
<1>1. FileInit => Init
  BY DEF FileInit
<1>2. [FileNext]_<<vars, file>> => [Next]_vars
  BY DEF FileNext, Next
<1>3. QED BY <1>1, <1>2, PTL DEF FileSpec, Spec

LEMMA FileInvariance == FileSpec => []FileInv
<1>1. FileInit => FileInv
  BY InitFile DEF FileInit, Init, FileInv
<1>2. ASSUME FileInv, IInv, IInv', [FileNext]_<<vars, file>> PROVE FileInv'
  <2>1. /\ c_port \in Nat /\ starts \in Nat /\ c_port' \in Nat /\ starts' \in Nat
        /\ c_port' <= Base + starts'
    BY <1>2 DEF IInv, TypeOK, InRange
  <2>2. starts <= starts' => Len(Numeral(Base + starts)) <= Len(Numeral(Base + starts'))
    BY <2>1, FirstPort, LongerNumeral
  <2>3. /\ Len(Numeral(c_port')) <= Len(Numeral(Base + starts'))
        /\ Len(Numeral(c_port')) \in Nat /\ Len(Numeral(Base)) \in Nat
        /\ Len(Numeral(Base + starts)) \in Nat /\ Len(Numeral(Base + starts')) \in Nat
    <3>1. Base \in Nat /\ Base + starts \in Nat /\ Base + starts' \in Nat
      <4>1. \A k \in Nat : Base + k \in Nat
        BY FirstPort
      <4>2. QED BY <2>1, <4>1, FirstPort
    <3>2. Len(Numeral(c_port')) <= Len(Numeral(Base + starts'))
      BY <2>1, <3>1, LongerNumeral
    <3>3. QED BY <2>1, <3>1, <3>2, NumeralInts
  <2>4. CASE c_port' = c_port /\ file' = file /\ starts <= starts'
    BY <1>2, <2>2, <2>3, <2>4 DEF FileInv
  <2>5. CASE file' = writeIntValue(file, C_PORT, c_port') /\ starts' = starts
    <3>1. TextOf(file, c_port)
      BY <1>2 DEF FileInv
    <3>2. TextOf(file', c_port')
      BY <2>1, <2>5, <3>1, WrittenText
    <3>3. ASSUME Len(Numeral(Base + starts')) <= Len(Numeral(Base)) + 1 PROVE LinesBehind(file')
      <4>1. Len(Numeral(c_port')) <= Len(Numeral(Base)) + 1
        BY <2>3, <3>3
      <4>2. LinesBehind(file)
        BY <1>2, <2>5, <3>3 DEF FileInv
      <4>3. QED BY <2>1, <2>5, <3>1, <4>1, <4>2, WrittenBehind
    <3>4. QED BY <3>2, <3>3 DEF FileInv
  <2>6. CASE /\ \E c \in Clients : Write(c) \/ Restore(c)
             /\ file' = writeIntValue(file, C_PORT, c_port')
    BY <2>5, <2>6 DEF Write, Restore
  <2>7. CASE /\ \/ \E c \in Clients : Read(c) \/ Bind(c) \/ Leave(c) \/ Kill(c)
                \/ \E p \in lingering : Expire(p)
             /\ UNCHANGED file
    <3>1. c_port' = c_port /\ (starts' = starts \/ starts' = starts + 1)
      BY <2>7 DEF Read, Bind, Leave, Kill, End, Expire
    <3>2. QED BY <2>1, <2>4, <2>7, <3>1
  <2>8. CASE UNCHANGED <<vars, file>>
    BY <2>1, <2>4, <2>8 DEF vars
  <2>9. QED BY <1>2, <2>6, <2>7, <2>8 DEF FileNext
<1>3. QED BY <1>1, <1>2, FileIsPortFile, Invariance, PTL DEF FileSpec

\* The number that the next client reads is the last one written.
THEOREM LastNumberRead == FileSpec => []ReadsBack
<1>1. IInv /\ FileInv => ReadsBack
  BY NumberRead DEF IInv, TypeOK, FileInv, ReadsBack
<1>2. QED BY <1>1, FileIsPortFile, Invariance, FileInvariance, PTL

\* The other settings can be read as long as the numbers are at most one digit
\* longer than the first.
THEOREM SettingsReadable == FileSpec => []SettingsKept
<1>1. IInv /\ FileInv => SettingsKept
  BY SettingsRead DEF IInv, TypeOK, FileInv, SettingsKept
<1>2. QED BY <1>1, FileIsPortFile, Invariance, FileInvariance, PTL
=============================================================================
