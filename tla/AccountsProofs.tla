---------------------------- MODULE AccountsProofs ----------------------------
(***************************************************************************)
(* Proofs about accounts, friendships, lists and messages, for any number  *)
(* of clients, any accounts and friendships, and any text that is typed.   *)
(*                                                                         *)
(* First the texts: what is put together with separators is cut apart as   *)
(* it was when no field has a separator in it, and whatever is cut, what   *)
(* comes out has its type.  Then the vectors: what a scan finds first and  *)
(* what is left when some elements are removed.  Then each action, by what *)
(* it does to the vectors, and the invariants.                             *)
(***************************************************************************)
EXTENDS Accounts, Integers, FiniteSetTheorems, SequenceTheorems, WellFoundedInduction, TLAPS

(* Texts, put together and cut. *)

\* The separators and the numbers that the model uses are tokens, and
\* differ.
LEMMA Symbols ==
    /\ Semicolon \in Tokens /\ Comma \in Tokens /\ Semicolon # Comma
    /\ \A n \in Numbers : n \in Tokens /\ n \in Nat /\ n # Semicolon /\ n # Comma
    /\ {REGISTER, LOGIN, FRIEND_LIST, CHANGE_USER_STATE, SEND_MSG, QUIT,
        FRIEND_ONLINE_STATE, MESSAGE_INFORMATION} \subseteq Numbers
    /\ {ONLINE, OFFLINE, LEAVE, BUSY, NOT_DISTURB, STEALTH} \subseteq Numbers
    /\ 0 \in Numbers
BY Separators, Figures DEF Tokens, REGISTER, LOGIN, FRIEND_LIST, CHANGE_USER_STATE, SEND_MSG, QUIT,
        FRIEND_ONLINE_STATE, MESSAGE_INFORMATION, ONLINE, OFFLINE, LEAVE, BUSY, NOT_DISTURB, STEALTH

\* A set of numbers has a least one.
LEMMA Least ==
    ASSUME NEW S \in SUBSET Nat, S # {}
    PROVE  \E m \in S : \A n \in S : m <= n
<1>1. PICK m \in S : \A n \in S : ~ (<<n, m>> \in OpToRel(<, Nat))
  BY WFMin, NatLessThanWellFounded, Zenon
<1>2. \A n \in S : n \in Nat /\ m \in Nat
  OBVIOUS
<1>3. \A n \in S : ~(n < m)
  BY <1>1, <1>2 DEF OpToRel
<1>4. \A n \in S : m <= n
  BY <1>2, <1>3
<1>5. QED BY <1>4

\* Induction, for a set of numbers.
LEMMA SetInduction ==
    ASSUME NEW S \in SUBSET Nat, \A n \in Nat : (\A m \in 0 .. n - 1 : m \in S) => n \in S
    PROVE  S = Nat
<1>1. SUFFICES ASSUME Nat \ S # {} PROVE FALSE
  OBVIOUS
<1>2. PICK m \in Nat \ S : \A n \in Nat \ S : m <= n
  BY <1>1, Least
<1>3. \A n \in 0 .. m - 1 : n \in S
  BY <1>2
<1>4. QED BY <1>2, <1>3

\* A text is a sequence of tokens.
LEMMA TextProps ==
    ASSUME NEW t \in Text
    PROVE  Len(t) \in Nat /\ DOMAIN t = 1 .. Len(t) /\ \A i \in 1 .. Len(t) : t[i] \in Tokens
BY LenProperties, ElementOfSeq DEF Text

\* Where two texts meet.
LEMMA Joined ==
    ASSUME NEW s \in Text, NEW t \in Text
    PROVE  /\ s \o t \in Text /\ Len(s \o t) = Len(s) + Len(t)
           /\ \A i \in 1 .. Len(s) : (s \o t)[i] = s[i]
           /\ \A i \in 1 .. Len(t) : (s \o t)[Len(s) + i] = t[i]
<1>1. Len(s) \in Nat /\ Len(t) \in Nat
  BY TextProps
<1>2. /\ s \o t \in Text /\ Len(s \o t) = Len(s) + Len(t)
      /\ \A i \in 1 .. Len(s) + Len(t) : (s \o t)[i] = IF i <= Len(s) THEN s[i] ELSE t[i - Len(s)]
  BY ConcatProperties DEF Text
<1> DEFINE m == Len(s)
           n == Len(t)
           u == s \o t
<1>3. /\ m \in Nat /\ n \in Nat
      /\ \A i \in 1 .. m + n : u[i] = IF i <= m THEN s[i] ELSE t[i - m]
  BY <1>1, <1>2
<1> HIDE DEF m, n, u
<1>4. \A i \in 1 .. m : u[i] = s[i]
  BY <1>3
<1>5. ASSUME NEW i \in 1 .. n PROVE u[m + i] = t[i]
  <2>1. m + i \in 1 .. m + n /\ ~(m + i <= m) /\ (m + i) - m = i
    BY <1>3
  <2>2. QED BY <1>3, <2>1
<1>6. QED BY <1>2, <1>4, <1>5 DEF m, n, u

\* A text of one token.
LEMMA Single == ASSUME NEW x \in Tokens PROVE <<x>> \in Text /\ Len(<<x>>) = 1 /\ <<x>>[1] = x
<1> DEFINE S == Tokens
<1> HIDE DEF S
<1>1. ASSUME NEW y \in S PROVE <<y>> \in Seq(S) /\ Len(<<y>>) = 1 /\ <<y>>[1] = y
  OBVIOUS
<1>2. QED BY <1>1 DEF S, Text

\* Texts with the same tokens are the same.
LEMMA SameText ==
    ASSUME NEW s \in Text, NEW t \in Text, Len(s) = Len(t), \A i \in 1 .. Len(s) : s[i] = t[i]
    PROVE  s = t
BY SeqEqual DEF Text

\* The part of a text from a on, up to b.
LEMMA Part ==
    ASSUME NEW t \in Text, NEW a \in Int, NEW b \in Int, 1 <= a, b <= Len(t)
    PROVE  /\ SubSeq(t, a, b) \in Text
           /\ Len(SubSeq(t, a, b)) = IF a <= b THEN (b - a) + 1 ELSE 0
           /\ \A i \in 1 .. Len(SubSeq(t, a, b)) : SubSeq(t, a, b)[i] = t[(a + i) - 1]
<1> DEFINE S == Tokens
           p == SubSeq(t, a, b)
<1>1. \A i \in a .. b : t[i] \in S
  <2>1. Len(t) \in Nat /\ \A i \in 1 .. Len(t) : t[i] \in Tokens
    BY TextProps
  <2>2. \A i \in a .. b : i \in 1 .. Len(t)
    BY <2>1
  <2>3. QED BY <2>1, <2>2
<1> HIDE DEF S
<1>2. /\ SubSeq(t, a, b) \in Seq(S)
      /\ Len(SubSeq(t, a, b)) = IF a <= b THEN b - a + 1 ELSE 0
      /\ \A i \in 1 .. b - a + 1 : SubSeq(t, a, b)[i] = t[a + i - 1]
  BY <1>1, SubSeqProperties
<1>3. /\ p \in Seq(S) /\ Len(p) = IF a <= b THEN (b - a) + 1 ELSE 0
      /\ \A i \in 1 .. (b - a) + 1 : p[i] = t[a + i - 1]
  BY <1>2
<1> HIDE DEF p
<1>4. \A i \in 1 .. Len(p) : i \in 1 .. (b - a) + 1 /\ a + i - 1 = (a + i) - 1
  BY <1>3
<1>5. \A i \in 1 .. Len(p) : p[i] = t[(a + i) - 1]
  BY <1>3, <1>4
<1>6. QED BY <1>3, <1>5 DEF p, S, Text

\* string::find: the first place of x, 0 (string::npos) when there is none.
LEMMA FindProps ==
    ASSUME NEW t \in Text, NEW x
    PROVE  /\ Find(t, x) \in Nat /\ Find(t, x) <= Len(t)
           /\ Find(t, x) = 0 => \A i \in 1 .. Len(t) : t[i] # x
           /\ Find(t, x) # 0 => t[Find(t, x)] = x /\ \A j \in 1 .. Find(t, x) - 1 : t[j] # x
<1> DEFINE S == {i \in 1 .. Len(t) : t[i] = x}
           P(i) == t[i] = x /\ \A j \in 1 .. i - 1 : t[j] # x
<1>1. Len(t) \in Nat /\ DOMAIN t = 1 .. Len(t)
  BY TextProps
<1>2. CASE S = {}
  <2>1. Find(t, x) = 0
    BY <1>1, <1>2 DEF Find
  <2>2. QED BY <1>1, <1>2, <2>1
<1>3. CASE S # {}
  <2>1. S \in SUBSET Nat
    BY <1>1
  <2>2. PICK m \in S : \A n \in S : m <= n
    <3> HIDE DEF S
    <3>1. QED BY <1>3, <2>1, Least
  <2>3. m \in 1 .. Len(t) /\ P(m)
    BY <1>1, <2>2
  <2>4. Find(t, x) = CHOOSE i \in 1 .. Len(t) : P(i)
    BY <1>1, <2>3 DEF Find
  <2> HIDE DEF P
  <2>5. (CHOOSE i \in 1 .. Len(t) : P(i)) \in 1 .. Len(t) /\ P(CHOOSE i \in 1 .. Len(t) : P(i))
    BY <2>3
  <2>6. Find(t, x) \in 1 .. Len(t) /\ P(Find(t, x))
    BY <2>4, <2>5
  <2>7. QED BY <1>1, <2>6 DEF P
<1>4. QED BY <1>2, <1>3

\* The first place of x is the one that Find returns.
LEMMA FindAt ==
    ASSUME NEW t \in Text, NEW x, NEW i \in 1 .. Len(t), t[i] = x, \A j \in 1 .. i - 1 : t[j] # x
    PROVE  Find(t, x) = i
<1> DEFINE m == Find(t, x)
<1>1. /\ Len(t) \in Nat /\ m \in Nat /\ m <= Len(t)
      /\ m = 0 => \A j \in 1 .. Len(t) : t[j] # x
      /\ m # 0 => t[m] = x /\ \A j \in 1 .. m - 1 : t[j] # x
  BY TextProps, FindProps
<1> HIDE DEF m
<1>2. m # 0
  BY <1>1
<1>3. ~(m < i)
  BY <1>1, <1>2
<1>4. ~(i < m)
  BY <1>1, <1>2
<1>5. m = i
  BY <1>1, <1>3, <1>4
<1>6. QED BY <1>5 DEF m

\* What is nowhere is not found.
LEMMA NotFound ==
    ASSUME NEW t \in Text, NEW x, \A i \in 1 .. Len(t) : t[i] # x
    PROVE  Find(t, x) = 0
<1>1. /\ Len(t) \in Nat /\ Find(t, x) \in Nat /\ Find(t, x) <= Len(t)
      /\ Find(t, x) # 0 => t[Find(t, x)] = x
  BY TextProps, FindProps
<1>2. Find(t, x) # 0 => Find(t, x) \in 1 .. Len(t)
  BY <1>1
<1>3. QED BY <1>1, <1>2

\* What is cut off is a text, and has no separator in front of the first.
LEMMA CutTexts ==
    ASSUME NEW t \in Text, NEW x
    PROVE  Before(t, x) \in Text /\ After(t, x) \in Text /\ Find(Before(t, x), x) = 0
<1> DEFINE m == Find(t, x)
           n == Len(t)
<1>1. /\ n \in Nat /\ m \in Nat /\ m <= n
      /\ m # 0 => \A j \in 1 .. m - 1 : t[j] # x
  BY TextProps, FindProps
<1>2. After(t, x) \in Text
  <2>1. m + 1 \in Int /\ n \in Int /\ 1 <= m + 1 /\ n <= Len(t)
    BY <1>1
  <2> HIDE DEF m
  <2>2. SubSeq(t, m + 1, n) \in Text
    BY <2>1, Part
  <2>3. QED BY <2>2 DEF After, m
<1>3. CASE m = 0
  BY <1>2, <1>3 DEF Before
<1>4. CASE m # 0
  <2> DEFINE a == 1
             b == m - 1
             p == SubSeq(t, a, b)
  <2>1. a \in Int /\ b \in Int /\ 1 <= a /\ b <= Len(t)
    BY <1>1
  <2>2. \A i \in Int : (a + i) - 1 = i
    OBVIOUS
  <2>3. Before(t, x) = p
    BY <1>4 DEF Before
  <2> HIDE DEF a, b, m
  <2>4. /\ SubSeq(t, a, b) \in Text
        /\ Len(SubSeq(t, a, b)) = IF a <= b THEN (b - a) + 1 ELSE 0
        /\ \A i \in 1 .. Len(SubSeq(t, a, b)) : SubSeq(t, a, b)[i] = t[(a + i) - 1]
    BY <2>1, Part
  <2> HIDE DEF p
  <2>5. p \in Text /\ Len(p) = IF a <= b THEN (b - a) + 1 ELSE 0
    BY <2>4 DEF p
  <2>6. \A i \in 1 .. Len(p) : i \in Int /\ p[i] = t[i] /\ i \in 1 .. m - 1
    <3>1. \A i \in 1 .. Len(p) : i \in Int /\ p[i] = t[(a + i) - 1]
      <4>1. \A i \in 1 .. Len(p) : p[i] = t[(a + i) - 1]
        BY <2>4 DEF p
      <4>2. \A i \in 1 .. Len(p) : i \in Int
        OBVIOUS
      <4>3. QED BY <4>1, <4>2
    <3>2. \A i \in 1 .. Len(p) : p[i] = t[i]
      BY <2>2, <3>1
    <3>3. \A i \in 1 .. Len(p) : i \in 1 .. m - 1
      BY <1>1, <2>5 DEF a, b
    <3>4. QED BY <3>1, <3>2, <3>3
  <2>7. Find(p, x) = 0
    BY <1>1, <1>4, <2>5, <2>6, NotFound
  <2>8. QED BY <1>2, <2>3, <2>5, <2>7
<1>5. QED BY <1>3, <1>4

\* A field without separators is read as it was written, and so is what follows.
LEMMA Cut ==
    ASSUME NEW s \in Text, NEW t \in Text, NEW x \in Tokens, Find(s, x) = 0
    PROVE  /\ s \o <<x>> \o t \in Text
           /\ Before(s \o <<x>> \o t, x) = s /\ After(s \o <<x>> \o t, x) = t
<1> DEFINE e == <<x>>
           h == s \o e
           u == h \o t
           m == Len(s)
           n == Len(t)
<1>1. /\ e \in Text /\ Len(e) = 1 /\ e[1] = x /\ m \in Nat /\ n \in Nat
      /\ \A i \in 1 .. m : s[i] # x
  BY Single, TextProps, FindProps
<1> HIDE DEF e
<1>2. /\ h \in Text /\ Len(h) = m + 1 /\ \A i \in 1 .. m : h[i] = s[i]
      /\ h[m + 1] = x
  <2>1. /\ s \o e \in Text /\ Len(s \o e) = Len(s) + Len(e)
        /\ \A i \in 1 .. Len(s) : (s \o e)[i] = s[i]
        /\ \A i \in 1 .. Len(e) : (s \o e)[Len(s) + i] = e[i]
    BY <1>1, Joined
  <2>2. 1 \in 1 .. Len(e)
    BY <1>1
  <2>3. QED BY <1>1, <2>1, <2>2
<1> HIDE DEF h
<1>3. /\ u \in Text /\ Len(u) = (m + 1) + n /\ \A i \in 1 .. m + 1 : u[i] = h[i]
      /\ \A i \in 1 .. n : u[(m + 1) + i] = t[i]
  <2>1. /\ h \o t \in Text /\ Len(h \o t) = Len(h) + Len(t)
        /\ \A i \in 1 .. Len(h) : (h \o t)[i] = h[i]
        /\ \A i \in 1 .. Len(t) : (h \o t)[Len(h) + i] = t[i]
    BY <1>2, Joined
  <2>2. QED BY <1>2, <2>1
<1> HIDE DEF u, m, n
<1>4. \A i \in 1 .. m : u[i] = s[i] /\ u[i] # x
  <2>1. \A i \in 1 .. m : i \in 1 .. m + 1
    BY <1>1
  <2>2. QED BY <1>1, <1>2, <1>3, <2>1
<1>5. m + 1 \in 1 .. Len(u) /\ u[m + 1] = x /\ m + 1 \in Nat /\ (m + 1) - 1 = m /\ m + 1 # 0
  <2>1. m + 1 \in 1 .. m + 1
    BY <1>1
  <2>2. QED BY <1>1, <1>2, <1>3, <2>1
<1>6. Find(u, x) = m + 1
  <2> DEFINE i == m + 1
  <2>1. i \in 1 .. Len(u) /\ u[i] = x /\ \A j \in 1 .. i - 1 : u[j] # x
    BY <1>4, <1>5
  <2> HIDE DEF i
  <2>2. Find(u, x) = i
    BY <1>3, <2>1, FindAt
  <2>3. QED BY <2>2 DEF i
<1>7. Before(u, x) = s
  <2> DEFINE a == 1
             p == SubSeq(u, a, m)
  <2>1. a \in Int /\ m \in Int /\ 1 <= a /\ m <= Len(u) /\ Before(u, x) = p
    BY <1>1, <1>3, <1>5, <1>6 DEF Before
  <2>2. (a <= m => (m - a) + 1 = m) /\ (~(a <= m) => m = 0)
    BY <1>1
  <2>3. \A i \in Int : (a + i) - 1 = i
    OBVIOUS
  <2> HIDE DEF a, p
  <2>4. /\ SubSeq(u, a, m) \in Text
        /\ Len(SubSeq(u, a, m)) = IF a <= m THEN (m - a) + 1 ELSE 0
        /\ \A i \in 1 .. Len(SubSeq(u, a, m)) : SubSeq(u, a, m)[i] = u[(a + i) - 1]
    BY <1>3, <2>1, Part
  <2>5. p \in Text /\ Len(p) = m /\ \A i \in 1 .. m : p[i] = u[(a + i) - 1]
    BY <2>2, <2>4 DEF p
  <2>6. \A i \in 1 .. m : p[i] = s[i]
    BY <1>1, <1>4, <2>3, <2>5
  <2>7. p = s
    BY <2>5, <2>6, SameText DEF m
  <2>8. QED BY <2>1, <2>7
<1>8. After(u, x) = t
  <2> DEFINE a == (m + 1) + 1
             b == Len(u)
             p == SubSeq(u, a, b)
  <2>1. a \in Int /\ b \in Int /\ 1 <= a /\ b <= Len(u) /\ After(u, x) = p
    BY <1>1, <1>3, <1>5, <1>6 DEF After
  <2>2. (a <= b => (b - a) + 1 = n) /\ (~(a <= b) => n = 0)
    BY <1>1, <1>3
  <2>3. \A i \in Int : (a + i) - 1 = (m + 1) + i
    BY <1>1
  <2> HIDE DEF a, b
  <2>4. /\ SubSeq(u, a, b) \in Text
        /\ Len(SubSeq(u, a, b)) = IF a <= b THEN (b - a) + 1 ELSE 0
        /\ \A i \in 1 .. Len(SubSeq(u, a, b)) : SubSeq(u, a, b)[i] = u[(a + i) - 1]
    BY <1>3, <2>1, Part
  <2> HIDE DEF p
  <2>5. p \in Text /\ Len(p) = n /\ \A i \in 1 .. n : p[i] = u[(a + i) - 1]
    BY <2>2, <2>4 DEF p
  <2>6. ASSUME NEW i \in 1 .. n PROVE p[i] = t[i]
    <3>1. i \in Int
      BY <1>1
    <3>2. p[i] = u[(m + 1) + i]
      BY <2>3, <2>5, <3>1
    <3>3. QED BY <1>3, <3>2
  <2>7. p = t
    BY <2>5, <2>6, SameText DEF n
  <2>8. QED BY <2>1, <2>7
<1>9. QED BY <1>3, <1>7, <1>8 DEF u, h, e

(* Requests and notices. *)

\* A number is written without separators and read as it was written (atoi).
LEMMA Number ==
    ASSUME NEW n \in Numbers
    PROVE  <<n>> \in Text /\ Find(<<n>>, Semicolon) = 0 /\ Find(<<n>>, Comma) = 0 /\ atoi(<<n>>) = n
<1> DEFINE t == <<n>>
<1>1. t \in Text /\ Len(t) = 1 /\ t[1] = n
  BY Symbols, Single
<1>2. atoi(<<n>>) = n
  BY DEF atoi
<1> HIDE DEF t
<1>3. \A i \in 1 .. Len(t) : t[i] # Semicolon /\ t[i] # Comma
  BY <1>1, Symbols
<1>4. Find(t, Semicolon) = 0 /\ Find(t, Comma) = 0
  BY <1>1, <1>3, NotFound
<1>5. QED BY <1>1, <1>2, <1>4 DEF t

\* Whatever text atoi is given, it returns a number.
LEMMA atoiNumber == ASSUME NEW t \in Text PROVE atoi(t) \in Numbers
BY Symbols DEF atoi

\* Two texts with a ";" between them are a text.
LEMMA ThenText == ASSUME NEW s \in Text, NEW t \in Text PROVE Then(s, t) \in Text
<1> DEFINE e == <<Semicolon>>
<1>1. e \in Text
  BY Symbols, Single
<1> HIDE DEF e
<1>2. s \o e \in Text
  BY <1>1, Joined
<1>3. (s \o e) \o t \in Text
  <2> DEFINE h == s \o e
  <2> HIDE DEF h
  <2>1. h \in Text
    BY <1>2 DEF h
  <2>2. h \o t \in Text
    BY <2>1, Joined
  <2>3. QED BY <2>2 DEF h
<1>4. QED BY <1>3 DEF Then, e

\* A field without ";" in front of a text is cut off as it was put there.
LEMMA ThenCut ==
    ASSUME NEW s \in Text, NEW t \in Text, Find(s, Semicolon) = 0
    PROVE  Before(Then(s, t), Semicolon) = s /\ After(Then(s, t), Semicolon) = t
<1> DEFINE x == Semicolon
<1>1. x \in Tokens /\ Find(s, x) = 0
  BY Symbols
<1>2. Then(s, t) = s \o <<x>> \o t
  BY DEF Then
<1> HIDE DEF x
<1>3. Before(s \o <<x>> \o t, x) = s /\ After(s \o <<x>> \o t, x) = t
  BY <1>1, Cut
<1>4. QED BY <1>2, <1>3 DEF x

\* The number in front of a message is cut off by either end.
LEMMA Headed ==
    ASSUME NEW n \in Numbers, NEW t \in Text
    PROVE  /\ get_msgtpye(Then(<<n>>, t)).strMsgData = t
           /\ get_notify_type(Then(<<n>>, t)).strNotifyData = t
<1>1. After(Then(<<n>>, t), Semicolon) = t
  BY Number, ThenCut
<1>2. QED BY <1>1 DEF get_msgtpye, get_notify_type

\* A name and a number, or a name and a text.
LEMMA NamedNumber ==
    ASSUME NEW t \in Text
    PROVE  /\ deserialize_user_state(t) \in [user_name : Text, state : Numbers]
           /\ friend_online_state_deserialize(t) = deserialize_user_state(t)
           /\ \A name \in Text, n \in Numbers :
                 Find(name, Semicolon) = 0 /\ t = Then(name, <<n>>)
                    => deserialize_user_state(t) = [user_name |-> name, state |-> n]
<1>1. deserialize_user_state(t) \in [user_name : Text, state : Numbers]
  <2>1. Before(t, Semicolon) \in Text /\ After(t, Semicolon) \in Text
    BY CutTexts
  <2>2. atoi(After(t, Semicolon)) \in Numbers
    BY <2>1, atoiNumber
  <2>3. QED BY <2>1, <2>2 DEF deserialize_user_state
<1>2. friend_online_state_deserialize(t) = deserialize_user_state(t)
  BY DEF friend_online_state_deserialize, deserialize_user_state
<1>3. ASSUME NEW name \in Text, NEW n \in Numbers, Find(name, Semicolon) = 0, t = Then(name, <<n>>)
      PROVE  deserialize_user_state(t) = [user_name |-> name, state |-> n]
  <2>1. <<n>> \in Text /\ atoi(<<n>>) = n
    BY Number
  <2>2. Before(t, Semicolon) = name /\ After(t, Semicolon) = <<n>>
    BY <1>3, <2>1, ThenCut
  <2>3. QED BY <2>1, <2>2 DEF deserialize_user_state
<1>4. QED BY <1>1, <1>2, <1>3

\* A message to a friend is read as it was written when the name has no ";".
LEMMA NamedText ==
    ASSUME NEW name \in Text, NEW msg \in Text, Find(name, Semicolon) = 0
    PROVE  deserialize_user_msg(Then(name, msg)) = [user_name |-> name, user_msg |-> msg]
BY ThenCut DEF deserialize_user_msg

\* Whatever is received as a login, four fields are read from it.
LEMMA LoginType ==
    ASSUME NEW t \in Text
    PROVE  /\ analysis_login_msgdata(t) \in [user_name : Text, passwd : Text, ip : Text, port : Numbers]
           /\ analysis_login_msgdata(t).user_name = Before(t, Semicolon)
<1> DEFINE t2 == After(t, Semicolon)
           t3 == After(t2, Semicolon)
<1>1. Before(t, Semicolon) \in Text /\ t2 \in Text
  BY CutTexts
<1>2. Before(t2, Semicolon) \in Text /\ t3 \in Text
  <2> HIDE DEF t2
  <2>1. QED BY <1>1, CutTexts
<1>3. Before(t3, Semicolon) \in Text /\ After(t3, Semicolon) \in Text
  <2> HIDE DEF t3
  <2>1. QED BY <1>2, CutTexts
<1>4. atoi(After(t3, Semicolon)) \in Numbers
  BY <1>3, atoiNumber
<1>5. QED BY <1>1, <1>2, <1>3, <1>4 DEF analysis_login_msgdata

\* A login is read as it was written when no field has a ";" in it.
LEMMA LoginRead ==
    ASSUME NEW u \in Text, NEW p \in Text, NEW ip \in Text, NEW n \in Numbers,
           Find(u, Semicolon) = 0, Find(p, Semicolon) = 0, Find(ip, Semicolon) = 0
    PROVE  analysis_login_msgdata(Then(u, Then(p, Then(ip, <<n>>))))
              = [user_name |-> u, passwd |-> p, ip |-> ip, port |-> n]
<1> DEFINE t4 == <<n>>
           t3 == Then(ip, t4)
           t2 == Then(p, t3)
           t == Then(u, t2)
<1>1. t4 \in Text /\ atoi(t4) = n
  BY Number
<1> HIDE DEF t4
<1>2. t3 \in Text /\ Before(t3, Semicolon) = ip /\ After(t3, Semicolon) = t4
  BY <1>1, ThenText, ThenCut
<1> HIDE DEF t3
<1>3. t2 \in Text /\ Before(t2, Semicolon) = p /\ After(t2, Semicolon) = t3
  BY <1>2, ThenText, ThenCut
<1> HIDE DEF t2
<1>4. t \in Text /\ Before(t, Semicolon) = u /\ After(t, Semicolon) = t2
  BY <1>3, ThenText, ThenCut
<1> HIDE DEF t
<1>5. analysis_login_msgdata(t) = [user_name |-> u, passwd |-> p, ip |-> ip, port |-> n]
  BY <1>1, <1>2, <1>3, <1>4 DEF analysis_login_msgdata
<1>6. QED BY <1>5 DEF t, t2, t3, t4

\* Whatever is received as a registration, five fields are read from it.
LEMMA RegisterType ==
    ASSUME NEW t \in Text
    PROVE  analysis_register_msgdata(t) \in
              [user_name : Text, passwd : Text, sex : Text, birth : Text, hometown : Text]
<1> DEFINE t2 == After(t, Semicolon)
           t3 == After(t2, Semicolon)
           t4 == After(t3, Semicolon)
<1>1. Before(t, Semicolon) \in Text /\ t2 \in Text
  BY CutTexts
<1>2. Before(t2, Semicolon) \in Text /\ t3 \in Text
  <2> HIDE DEF t2
  <2>1. QED BY <1>1, CutTexts
<1>3. Before(t3, Semicolon) \in Text /\ t4 \in Text
  <2> HIDE DEF t3
  <2>1. QED BY <1>2, CutTexts
<1>4. Before(t4, Semicolon) \in Text
  <2> HIDE DEF t4
  <2>1. QED BY <1>3, CutTexts
<1>5. QED BY <1>1, <1>2, <1>3, <1>4 DEF analysis_register_msgdata
-----------------------------------------------------------------------------
(* The list of friends. *)

\* The k-th of a set of numbers.
LEMMA Kth ==
    ASSUME NEW n \in Nat, NEW E \in SUBSET (1 .. n)
    PROVE  /\ IsFiniteSet(E) /\ Cardinality(E) \in Nat
           /\ \A k \in 1 .. Cardinality(E) : \E i \in E : Cardinality({j \in E : j <= i}) = k
<1> DEFINE Q(F) == \A k \in 1 .. Cardinality(F) : \E i \in F : Cardinality({j \in F : j <= i}) = k
           S == {m \in Nat : \A F \in SUBSET (1 .. m) : Q(F)}
<1>1. \A m \in Nat : \A F \in SUBSET (1 .. m) : IsFiniteSet(F) /\ Cardinality(F) \in Nat
  <2> SUFFICES ASSUME NEW m \in Nat, NEW F \in SUBSET (1 .. m)
               PROVE  IsFiniteSet(F) /\ Cardinality(F) \in Nat
    OBVIOUS
  <2>1. IsFiniteSet(1 .. m)
    BY FS_Interval
  <2>2. QED BY <2>1, FS_Subset, FS_CardinalityType
<1>2. ASSUME NEW m \in Nat, \A l \in 0 .. m - 1 : l \in S, NEW F \in SUBSET (1 .. m) PROVE Q(F)
  <2>0. IsFiniteSet(F) /\ Cardinality(F) \in Nat
    BY <1>1
  <2>1. CASE m = 0
    <3>1. F = {}
      BY <2>1
    <3>2. Cardinality(F) = 0
      BY <3>1, FS_EmptySet
    <3>3. QED BY <3>2
  <2>2. CASE m # 0 /\ m \notin F
    <3>1. m - 1 \in 0 .. m - 1 /\ F \in SUBSET (1 .. m - 1)
      BY <2>2
    <3>2. QED BY <1>2, <3>1
  <2>3. CASE m # 0 /\ m \in F
    <3> DEFINE G == F \ {m}
    <3>1. m - 1 \in 0 .. m - 1 /\ G \in SUBSET (1 .. m - 1)
      BY <2>3
    <3>2. Q(G)
      <4> HIDE DEF G
      <4>1. QED BY <1>2, <3>1
    <3>3. Cardinality(G) = Cardinality(F) - 1
      BY <2>0, <2>3, FS_RemoveElement
    <3>4. ASSUME NEW k \in 1 .. Cardinality(F)
          PROVE  \E i \in F : Cardinality({j \in F : j <= i}) = k
      <4>1. CASE k = Cardinality(F)
        <5>0. \A j \in F : j <= m
          OBVIOUS
        <5>1. {j \in F : j <= m} = F
          BY <5>0
        <5>2. QED BY <2>3, <4>1, <5>1
      <4>2. CASE k # Cardinality(F)
        <5>1. k \in 1 .. Cardinality(G)
          BY <2>0, <3>3, <4>2
        <5>2. PICK i \in G : Cardinality({j \in G : j <= i}) = k
          BY <3>2, <5>1
        <5>3. {j \in F : j <= i} = {j \in G : j <= i}
          <6>1. i \in 1 .. m - 1
            BY <3>1
          <6>2. QED BY <2>3, <6>1
        <5>4. QED BY <5>2, <5>3
      <4>3. QED BY <4>1, <4>2
    <3>5. QED BY <3>4
  <2>4. QED BY <2>1, <2>2, <2>3
<1>3. S = Nat
  <2> HIDE DEF Q
  <2>1. \A m \in Nat : (\A l \in 0 .. m - 1 : l \in S) => m \in S
    BY <1>2
  <2> HIDE DEF S
  <2>2. S \in SUBSET Nat
    BY DEF S
  <2>3. QED BY <2>1, <2>2, SetInduction
<1>4. Q(E)
  <2> HIDE DEF Q
  <2>1. QED BY <1>3
<1>5. QED BY <1>1, <1>4

\* A function on 1 .. n is a sequence of the length n.
LEMMA SeqOf ==
    ASSUME NEW S, NEW n \in Nat, NEW f \in [1 .. n -> S]
    PROVE  f \in Seq(S) /\ Len(f) = n
OBVIOUS

\* Where the entries of a text end.
LEMMA EndsIn ==
    ASSUME NEW t \in Text, NEW k \in 0 .. Cardinality(Ends(t))
    PROVE  EndOf(t, k) \in Nat /\ EndOf(t, k) <= Len(t)
<1> DEFINE E == Ends(t)
           R(i) == Cardinality({j \in E : j <= i}) = k
<1>1. Len(t) \in Nat /\ E \in SUBSET (1 .. Len(t))
  BY TextProps DEF Ends
<1>2. CASE k = 0
  BY <1>1, <1>2 DEF EndOf
<1>3. CASE k # 0
  <2>1. \E i \in E : R(i)
    <3>1. Cardinality(E) \in Nat /\ \A l \in 1 .. Cardinality(E) :
             \E i \in E : Cardinality({j \in E : j <= i}) = l
      <4> HIDE DEF E
      <4>1. QED BY <1>1, Kth
    <3>2. k \in 1 .. Cardinality(E)
      BY <1>3, <3>1
    <3>3. QED BY <3>1, <3>2
  <2>2. EndOf(t, k) = CHOOSE i \in E : R(i)
    BY <1>3 DEF EndOf
  <2> HIDE DEF R
  <2>3. EndOf(t, k) \in E
    <3> HIDE DEF E
    <3>1. QED BY <2>1, <2>2
  <2>4. QED BY <1>1, <2>3
<1>4. QED BY <1>2, <1>3

\* Whatever is received, the list is one of rows.
LEMMA ListType ==
    ASSUME NEW t \in Text
    PROVE  friend_list_deserialize(t) \in Seq(Row)
<1> DEFINE n == Cardinality(Ends(t))
           Entry(k) == SubSeq(t, EndOf(t, k - 1) + 1, EndOf(t, k) - 1)
           Rest(k) == After(Entry(k), Comma)
           Parsed(k) == [id |-> atoi(Before(Entry(k), Comma)), user_name |-> Before(Rest(k), Comma),
                         state |-> atoi(After(Rest(k), Comma))]
<1>1. n \in Nat
  <2>1. Len(t) \in Nat /\ Ends(t) \in SUBSET (1 .. Len(t))
    BY TextProps DEF Ends
  <2>2. QED BY <2>1, Kth
<1>2. ASSUME NEW k \in 1 .. n PROVE Parsed(k) \in Row
  <2> DEFINE a == EndOf(t, k - 1) + 1
             b == EndOf(t, k) - 1
  <2>1. /\ EndOf(t, k - 1) \in Nat /\ EndOf(t, k) \in Nat /\ EndOf(t, k) <= Len(t) /\ Len(t) \in Nat
    <3>1. k - 1 \in 0 .. n /\ k \in 0 .. n
      BY <1>1
    <3>2. QED BY <3>1, EndsIn, TextProps
  <2>2. a \in Int /\ b \in Int /\ 1 <= a /\ b <= Len(t)
    BY <2>1
  <2> HIDE DEF a, b
  <2>3. SubSeq(t, a, b) \in Text
    BY <2>2, Part
  <2> DEFINE e == Entry(k)
             r == Rest(k)
  <2>4. e \in Text
    BY <2>3 DEF a, b
  <2>5. r = After(e, Comma)
    OBVIOUS
  <2> HIDE DEF e, r
  <2>6. Before(e, Comma) \in Text /\ r \in Text
    BY <2>4, <2>5, CutTexts
  <2>7. Before(r, Comma) \in Text /\ After(r, Comma) \in Text
    BY <2>6, CutTexts
  <2>8. atoi(Before(e, Comma)) \in Numbers /\ atoi(After(r, Comma)) \in Numbers
    BY <2>6, <2>7, atoiNumber
  <2>9. QED BY <2>7, <2>8 DEF e, r, Row
<1>3. friend_list_deserialize(t) = [k \in 1 .. n |-> Parsed(k)]
  BY DEF friend_list_deserialize
<1> HIDE DEF Parsed, n
<1>4. [k \in 1 .. n |-> Parsed(k)] \in [1 .. n -> Row]
  BY <1>2
<1> DEFINE f == [k \in 1 .. n |-> Parsed(k)]
<1> HIDE DEF f
<1>5. f \in [1 .. n -> Row]
  BY <1>4 DEF f
<1>6. f \in Seq(Row)
  BY <1>1, <1>5, SeqOf
<1>7. QED BY <1>3, <1>6 DEF f

(* The first element of a sequence that is in a set. *)

\* Of the first n elements.
FirstUpTo(s, n, P) == {s[i] : i \in {i \in 1 .. n : s[i] \in P /\ \A j \in 1 .. i - 1 : s[j] \notin P}}
\* Of the whole sequence: what a scan with a return in it finds.
First(s, P) == FirstUpTo(s, Len(s), P)

\* The first element in P is one of the sequence, there is one if any is in
\* P, and only one.
LEMMA FirstProps ==
    ASSUME NEW s, NEW n \in Nat, NEW P
    PROVE  /\ \A i \in 1 .. n : s[i] \in P => FirstUpTo(s, n, P) # {}
           /\ \A v \in FirstUpTo(s, n, P) : v \in P /\ \E i \in 1 .. n : s[i] = v
           /\ \A v, w \in FirstUpTo(s, n, P) : v = w
<1>1. ASSUME NEW i \in 1 .. n, s[i] \in P PROVE FirstUpTo(s, n, P) # {}
  <2> DEFINE E == {k \in 1 .. n : s[k] \in P}
  <2>1. E \in SUBSET Nat /\ E # {}
    BY <1>1
  <2>2. PICK m \in E : \A k \in E : m <= k
    <3> HIDE DEF E
    <3>1. QED BY <2>1, Least
  <2>3. m \in 1 .. n /\ s[m] \in P /\ \A j \in 1 .. m - 1 : s[j] \notin P
    BY <2>2
  <2>4. s[m] \in FirstUpTo(s, n, P)
    BY <2>3 DEF FirstUpTo
  <2>5. QED BY <2>4
<1>2. \A v \in FirstUpTo(s, n, P) : v \in P /\ \E i \in 1 .. n : s[i] = v
  BY DEF FirstUpTo
<1>3. ASSUME NEW v \in FirstUpTo(s, n, P), NEW w \in FirstUpTo(s, n, P) PROVE v = w
  <2>1. PICK i \in 1 .. n : v = s[i] /\ s[i] \in P /\ \A j \in 1 .. i - 1 : s[j] \notin P
    BY DEF FirstUpTo
  <2>2. PICK k \in 1 .. n : w = s[k] /\ s[k] \in P /\ \A j \in 1 .. k - 1 : s[j] \notin P
    BY DEF FirstUpTo
  <2>3. ~(i < k) /\ ~(k < i)
    BY <2>1, <2>2
  <2>4. i = k
    BY <2>3
  <2>5. QED BY <2>1, <2>2, <2>4
<1>4. QED BY <1>1, <1>2, <1>3

\* One element more changes nothing unless it is the first.
LEMMA FirstNext ==
    ASSUME NEW s, NEW n \in Nat \ {0}, NEW P
    PROVE  FirstUpTo(s, n, P) = IF FirstUpTo(s, n - 1, P) = {} /\ s[n] \in P THEN {s[n]}
                                ELSE FirstUpTo(s, n - 1, P)
<1> DEFINE A == FirstUpTo(s, n, P)
           B == FirstUpTo(s, n - 1, P)
<1>0. n - 1 \in Nat
  OBVIOUS
<1>1. B \subseteq A
  BY DEF FirstUpTo
<1>2. /\ \A v \in A : v \in P /\ \E i \in 1 .. n : s[i] = v
      /\ \A v, w \in A : v = w
      /\ \A i \in 1 .. n - 1 : s[i] \in P => B # {}
      /\ \A i \in 1 .. n : s[i] \in P => A # {}
  <2>1. /\ \A v \in A : v \in P /\ \E i \in 1 .. n : s[i] = v
        /\ \A v, w \in A : v = w
        /\ \A i \in 1 .. n : s[i] \in P => A # {}
    BY FirstProps
  <2>2. \A i \in 1 .. n - 1 : s[i] \in P => B # {}
    BY <1>0, FirstProps
  <2>3. QED BY <2>1, <2>2
<1> HIDE DEF A, B
<1>3. CASE B # {}
  BY <1>1, <1>2, <1>3 DEF A, B
<1>4. CASE B = {}
  <2>1. \A v \in A : v = s[n]
    BY <1>2, <1>4
  <2>2. s[n] \in P => A # {}
    BY <1>2
  <2>3. s[n] \notin P => A = {}
    BY <1>2, <2>1
  <2>4. s[n] \in P => A = {s[n]}
    BY <2>1, <2>2
  <2>5. QED BY <1>4, <2>3, <2>4 DEF A, B
<1>5. QED BY <1>3, <1>4

\* Sequences that agree up to n have the same first element up to n.
LEMMA SameFirst ==
    ASSUME NEW s, NEW t, NEW n \in Nat, NEW P, \A i \in 1 .. n : s[i] = t[i]
    PROVE  FirstUpTo(s, n, P) = FirstUpTo(t, n, P)
<1>1. \A i \in 1 .. n : (s[i] \in P /\ \A j \in 1 .. i - 1 : s[j] \notin P)
                       <=> (t[i] \in P /\ \A j \in 1 .. i - 1 : t[j] \notin P)
  <2> SUFFICES ASSUME NEW i \in 1 .. n
               PROVE (s[i] \in P /\ \A j \in 1 .. i - 1 : s[j] \notin P)
                       <=> (t[i] \in P /\ \A j \in 1 .. i - 1 : t[j] \notin P)
    OBVIOUS
  <2>1. \A j \in 1 .. i - 1 : j \in 1 .. n
    OBVIOUS
  <2>2. QED BY <2>1
<1>2. QED BY <1>1 DEF FirstUpTo

\* The elements after an append (push_back).
LEMMA Appended ==
    ASSUME NEW S, NEW s \in Seq(S), NEW e \in S
    PROVE  /\ Append(s, e) \in Seq(S) /\ Len(Append(s, e)) = Len(s) + 1
           /\ \A i \in 1 .. Len(s) : Append(s, e)[i] = s[i]
           /\ Append(s, e)[Len(s) + 1] = e /\ Len(s) \in Nat
<1> DEFINE A == S
<1> HIDE DEF A
<1>1. ASSUME NEW t \in Seq(A), NEW x \in A
      PROVE  /\ Append(t, x) \in Seq(A) /\ Len(Append(t, x)) = Len(t) + 1
             /\ \A i \in 1 .. Len(t) : Append(t, x)[i] = t[i]
             /\ Append(t, x)[Len(t) + 1] = x /\ Len(t) \in Nat
  OBVIOUS
<1>2. QED BY <1>1 DEF A

\* An appended element is found only when no earlier one is.
LEMMA FirstAppend ==
    ASSUME NEW S, NEW s \in Seq(S), NEW e \in S, NEW P
    PROVE  First(Append(s, e), P) = IF First(s, P) = {} /\ e \in P THEN {e} ELSE First(s, P)
<1> DEFINE t == Append(s, e)
           n == Len(s)
<1>1. n \in Nat /\ Len(t) = n + 1 /\ (\A i \in 1 .. n : t[i] = s[i]) /\ t[n + 1] = e
  BY Appended
<1> HIDE DEF t, n
<1>2. FirstUpTo(t, n, P) = FirstUpTo(s, n, P)
  BY <1>1, SameFirst
<1>3. n + 1 \in Nat \ {0} /\ (n + 1) - 1 = n
  BY <1>1
<1>4. FirstUpTo(t, n + 1, P) = IF FirstUpTo(t, (n + 1) - 1, P) = {} /\ t[n + 1] \in P THEN {t[n + 1]}
                               ELSE FirstUpTo(t, (n + 1) - 1, P)
  <2> DEFINE m == n + 1
  <2>1. m \in Nat \ {0}
    BY <1>3
  <2> HIDE DEF m
  <2>2. FirstUpTo(t, m, P) = IF FirstUpTo(t, m - 1, P) = {} /\ t[m] \in P THEN {t[m]}
                             ELSE FirstUpTo(t, m - 1, P)
    BY <2>1, FirstNext
  <2>3. QED BY <2>2 DEF m
<1>5. FirstUpTo(t, n + 1, P) = IF FirstUpTo(s, n, P) = {} /\ e \in P THEN {e} ELSE FirstUpTo(s, n, P)
  BY <1>1, <1>2, <1>3, <1>4
<1>6. QED BY <1>1, <1>5 DEF First, t, n
-----------------------------------------------------------------------------
(* The elements of a sequence that are in a set, in their order. *)

\* The step of the function in Only.
OnlyNext(s, T, f, k) ==
    IF k = 0 THEN <<>> ELSE IF s[k] \in T THEN Append(f[k - 1], s[k]) ELSE f[k - 1]

\* The function in Only is well defined.
LEMMA OnlyExists ==
    ASSUME NEW s, NEW T, NEW n \in Nat
    PROVE  \E f : f = [k \in 0 .. n |-> OnlyNext(s, T, f, k)]
<1> DEFINE S == {m \in Nat : \E f : f = [k \in 0 .. m |-> OnlyNext(s, T, f, k)]}
<1>1. ASSUME NEW m \in Nat, \A j \in 0 .. m - 1 : j \in S PROVE m \in S
  <2>1. CASE m = 0
    <3> DEFINE f == [k \in 0 .. 0 |-> <<>>]
    <3>1. f = [k \in 0 .. 0 |-> OnlyNext(s, T, f, k)]
      BY DEF OnlyNext
    <3>2. QED BY <2>1, <3>1
  <2>2. CASE m # 0
    <3>1. m - 1 \in 0 .. m - 1 /\ m - 1 \in Nat
      BY <2>2
    <3>2. PICK f : f = [k \in 0 .. m - 1 |-> OnlyNext(s, T, f, k)]
      BY <1>1, <3>1
    <3> DEFINE g == [k \in 0 .. m |-> IF k <= m - 1 THEN f[k] ELSE OnlyNext(s, T, f, k)]
    <3>3. ASSUME NEW k \in 0 .. m PROVE g[k] = OnlyNext(s, T, g, k)
      <4>1. k # 0 => k - 1 \in 0 .. m /\ k - 1 <= m - 1 /\ g[k - 1] = f[k - 1]
        OBVIOUS
      <4>2. g[k] = OnlyNext(s, T, f, k)
        BY <3>2
      <4>3. QED BY <4>1, <4>2 DEF OnlyNext
    <3>4. g = [k \in 0 .. m |-> OnlyNext(s, T, g, k)]
      <4> HIDE DEF g
      <4>1. g = [k \in 0 .. m |-> g[k]]
        BY DEF g
      <4>2. QED BY <4>1, <3>3
    <3> HIDE DEF g
    <3>5. QED BY <3>4
  <2>3. QED BY <2>1, <2>2
<1> HIDE DEF S
<1>2. S = Nat
  <2>1. S \in SUBSET Nat
    BY DEF S
  <2>2. QED BY <1>1, <2>1, SetInduction
<1>3. QED BY <1>2 DEF S

\* The function in Only, by its name.
OnlyUpTo(s, T) == CHOOSE f : f = [k \in 0 .. Len(s) |-> OnlyNext(s, T, f, k)]

\* What the function in Only is at each place.
LEMMA OnlySteps ==
    ASSUME NEW S, NEW s \in Seq(S), NEW T
    PROVE  /\ Len(s) \in Nat
           /\ OnlyUpTo(s, T)[0] = <<>>
           /\ \A k \in 1 .. Len(s) : OnlyUpTo(s, T)[k] = IF s[k] \in T
                                                        THEN Append(OnlyUpTo(s, T)[k - 1], s[k])
                                                        ELSE OnlyUpTo(s, T)[k - 1]
           /\ Only(s, T) = OnlyUpTo(s, T)[Len(s)]
<1> DEFINE f == OnlyUpTo(s, T)
<1>1. Len(s) \in Nat
  BY LenProperties
<1>2. f = [k \in 0 .. Len(s) |-> OnlyNext(s, T, f, k)]
  <2>1. \E g : g = [k \in 0 .. Len(s) |-> OnlyNext(s, T, g, k)]
    BY <1>1, OnlyExists
  <2>2. QED BY <2>1 DEF OnlyUpTo
<1>3. Only(s, T) = f[Len(s)]
  BY DEF Only, OnlyUpTo, OnlyNext
<1> HIDE DEF f
<1>4. \A k \in 0 .. Len(s) : f[k] = OnlyNext(s, T, f, k)
  BY <1>2
<1>5. f[0] = <<>>
  BY <1>1, <1>4 DEF OnlyNext
<1>6. \A k \in 1 .. Len(s) : f[k] = IF s[k] \in T THEN Append(f[k - 1], s[k]) ELSE f[k - 1]
  <2>1. \A k \in 1 .. Len(s) : k \in 0 .. Len(s) /\ k # 0
    BY <1>1
  <2>2. QED BY <1>4, <2>1 DEF OnlyNext
<1>7. QED BY <1>1, <1>3, <1>5, <1>6 DEF f

\* o has the elements of s in T, as many as there are;
Keeps(o, s, T) ==
    /\ \A j \in 1 .. Len(o) : o[j] \in T /\ \E i \in 1 .. Len(s) : o[j] = s[i]
    /\ \A i \in 1 .. Len(s) : s[i] \in T => \E j \in 1 .. Len(o) : o[j] = s[i]
    /\ Len(o) = Cardinality({i \in 1 .. Len(s) : s[i] \in T})
\* is s when all are in T;
KeepsAll(o, s, T) ==
    (\A i \in 1 .. Len(s) : s[i] \in T) => Len(o) = Len(s) /\ \A i \in 1 .. Len(s) : o[i] = s[i]
\* and has the same first element in P as s, for a P inside T.
KeepsFirst(o, s, S, T) == \A P : P \cap S \subseteq T => First(o, P) = First(s, P)

\* What is kept are the elements in T, each where it was among them.
LEMMA OnlyProps ==
    ASSUME NEW S, NEW s \in Seq(S), NEW T
    PROVE  /\ Only(s, T) \in Seq(S) /\ Keeps(Only(s, T), s, T)
           /\ KeepsAll(Only(s, T), s, T) /\ KeepsFirst(Only(s, T), s, S, T)
<1> DEFINE f == OnlyUpTo(s, T)
           n == Len(s)
           In(k) == {i \in 1 .. k : s[i] \in T}
           Q(k) == /\ f[k] \in Seq(S)
                   /\ \A j \in 1 .. Len(f[k]) : f[k][j] \in T /\ \E i \in 1 .. k : f[k][j] = s[i]
                   /\ \A i \in 1 .. k : s[i] \in T => \E j \in 1 .. Len(f[k]) : f[k][j] = s[i]
                   /\ Len(f[k]) = Cardinality(In(k)) /\ IsFiniteSet(In(k))
                   /\ (\A i \in 1 .. k : s[i] \in T)
                         => Len(f[k]) = k /\ \A i \in 1 .. k : f[k][i] = s[i]
                   /\ \A P : P \cap S \subseteq T => First(f[k], P) = FirstUpTo(s, k, P)
           N == {k \in Nat : k <= n => Q(k)}
<1>1. /\ n \in Nat /\ f[0] = <<>>
      /\ \A k \in 1 .. n : f[k] = IF s[k] \in T THEN Append(f[k - 1], s[k]) ELSE f[k - 1]
      /\ Only(s, T) = f[n]
      /\ \A k \in 1 .. n : s[k] \in S
  <2>1. \A k \in 1 .. Len(s) : s[k] \in S
    BY ElementOfSeq
  <2>2. QED BY <2>1, OnlySteps
<1> HIDE DEF f, n
<1>2. Q(0)
  <2>1. In(0) = {}
    BY <1>1
  <2>2. Len(f[0]) = 0 /\ f[0] \in Seq(S)
    BY <1>1
  <2>3. \A P : FirstUpTo(f[0], 0, P) = {} /\ FirstUpTo(s, 0, P) = {}
    BY DEF FirstUpTo
  <2>4. \A P : First(f[0], P) = FirstUpTo(s, 0, P)
    BY <2>2, <2>3 DEF First
  <2>5. Cardinality(In(0)) = 0 /\ IsFiniteSet(In(0))
    BY <2>1, FS_EmptySet
  <2>6. QED BY <2>2, <2>4, <2>5
<1>3. ASSUME NEW k \in 1 .. n, Q(k - 1) PROVE Q(k)
  <2>0. /\ k - 1 \in Nat /\ k \in Nat \ {0} /\ s[k] \in S
        /\ f[k - 1] \in Seq(S) /\ Len(f[k - 1]) \in Nat
    <3>1. k - 1 \in Nat /\ k \in Nat \ {0} /\ s[k] \in S
      BY <1>1
    <3>2. f[k - 1] \in Seq(S)
      BY <1>3
    <3>3. QED BY <3>1, <3>2, LenProperties
  <2>1. CASE s[k] \notin T
    <3>1. f[k] = f[k - 1] /\ In(k) = In(k - 1)
      BY <1>1, <2>1
    <3>2. \A i \in 1 .. k : i # k => i \in 1 .. k - 1
      OBVIOUS
    <3>3. ASSUME NEW P, P \cap S \subseteq T PROVE First(f[k], P) = FirstUpTo(s, k, P)
      <4>1. FirstUpTo(s, k, P) = FirstUpTo(s, k - 1, P)
        BY <2>0, <2>1, <3>3, FirstNext
      <4>2. QED BY <1>3, <3>1, <3>3, <4>1
    <3>4. \A i \in 1 .. k : s[i] \in T => \E j \in 1 .. Len(f[k]) : f[k][j] = s[i]
      BY <1>3, <2>1, <3>1, <3>2
    <3>5. \A j \in 1 .. Len(f[k]) : f[k][j] \in T /\ \E i \in 1 .. k : f[k][j] = s[i]
      BY <1>3, <3>1
    <3>6. k \in 1 .. k
      OBVIOUS
    <3>7. QED BY <1>3, <2>1, <3>1, <3>3, <3>4, <3>5, <3>6
  <2>2. CASE s[k] \in T
    <3> DEFINE g == f[k - 1]
               m == Len(g)
    <3>1. /\ f[k] \in Seq(S) /\ Len(f[k]) = m + 1 /\ m \in Nat
          /\ \A i \in 1 .. m : f[k][i] = g[i]
          /\ f[k][m + 1] = s[k]
      <4>1. f[k] = Append(g, s[k])
        BY <1>1, <2>2
      <4>2. g \in Seq(S) /\ s[k] \in S
        BY <2>0
      <4> HIDE DEF g
      <4>3. QED BY <4>1, <4>2, Appended
    <3>2. In(k) = In(k - 1) \cup {k} /\ k \notin In(k - 1)
      BY <2>2
    <3>3. IsFiniteSet(In(k)) /\ Cardinality(In(k)) = Cardinality(In(k - 1)) + 1
      <4> DEFINE A == In(k - 1)
      <4>1. IsFiniteSet(A) /\ k \notin A /\ In(k) = A \cup {k}
        BY <1>3, <3>2
      <4> HIDE DEF A, In
      <4>2. IsFiniteSet(A \cup {k}) /\ Cardinality(A \cup {k}) = Cardinality(A) + 1
        BY <4>1, FS_AddElement
      <4>3. QED BY <4>1, <4>2 DEF A
    <3>4. ASSUME NEW P, P \cap S \subseteq T PROVE First(f[k], P) = FirstUpTo(s, k, P)
      <4>1. FirstUpTo(s, k, P) = IF FirstUpTo(s, k - 1, P) = {} /\ s[k] \in P THEN {s[k]}
                                 ELSE FirstUpTo(s, k - 1, P)
        BY <2>0, FirstNext
      <4>2. First(Append(g, s[k]), P) = IF First(g, P) = {} /\ s[k] \in P THEN {s[k]} ELSE First(g, P)
        <5> DEFINE e == s[k]
        <5>1. g \in Seq(S) /\ e \in S
          BY <2>0
        <5> HIDE DEF g, e
        <5>2. First(Append(g, e), P) = IF First(g, P) = {} /\ e \in P THEN {e} ELSE First(g, P)
          BY <5>1, FirstAppend
        <5>3. QED BY <5>2 DEF e
      <4>3. First(g, P) = FirstUpTo(s, k - 1, P)
        BY <1>3, <3>4
      <4>4. f[k] = Append(g, s[k])
        BY <1>1, <2>2
      <4>5. QED BY <4>1, <4>2, <4>3, <4>4
    <3>5. /\ \A j \in 1 .. m : g[j] \in T /\ \E i \in 1 .. k - 1 : g[j] = s[i]
          /\ \A i \in 1 .. k - 1 : s[i] \in T => \E j \in 1 .. m : g[j] = s[i]
          /\ m = Cardinality(In(k - 1))
          /\ (\A i \in 1 .. k - 1 : s[i] \in T) => m = k - 1 /\ \A i \in 1 .. k - 1 : g[i] = s[i]
      BY <1>3
    <3> HIDE DEF g, m, In
    <3>6. ASSUME NEW j \in 1 .. Len(f[k]) PROVE f[k][j] \in T /\ \E i \in 1 .. k : f[k][j] = s[i]
      <4>1. CASE j = m + 1
        <5>1. k \in 1 .. k
          OBVIOUS
        <5>2. QED BY <2>2, <3>1, <4>1, <5>1
      <4>2. CASE j # m + 1
        <5>1. j \in 1 .. m
          BY <3>1, <4>2
        <5>2. PICK i \in 1 .. k - 1 : g[j] = s[i]
          BY <3>5, <5>1
        <5>3. i \in 1 .. k
          OBVIOUS
        <5>4. QED BY <3>1, <3>5, <5>1, <5>2, <5>3
      <4>3. QED BY <4>1, <4>2
    <3>7. ASSUME NEW i \in 1 .. k, s[i] \in T PROVE \E j \in 1 .. Len(f[k]) : f[k][j] = s[i]
      <4>1. CASE i = k
        <5>1. m + 1 \in 1 .. Len(f[k])
          BY <3>1
        <5>2. QED BY <3>1, <4>1, <5>1
      <4>2. CASE i # k
        <5>1. i \in 1 .. k - 1
          BY <4>2
        <5>2. PICK j \in 1 .. m : g[j] = s[i]
          BY <3>5, <3>7, <5>1
        <5>3. j \in 1 .. Len(f[k]) /\ f[k][j] = g[j]
          BY <3>1
        <5>4. QED BY <5>2, <5>3
      <4>3. QED BY <4>1, <4>2
    <3>8. ASSUME \A i \in 1 .. k : s[i] \in T PROVE Len(f[k]) = k /\ \A i \in 1 .. k : f[k][i] = s[i]
      <4>1. \A i \in 1 .. k - 1 : i \in 1 .. k
        OBVIOUS
      <4>2. m = k - 1 /\ \A i \in 1 .. k - 1 : g[i] = s[i]
        BY <3>5, <3>8, <4>1
      <4>3. m + 1 = k
        BY <4>2
      <4>4. \A i \in 1 .. k : i # k => i \in 1 .. m
        BY <4>2
      <4>5. QED BY <3>1, <4>2, <4>3, <4>4
    <3>9. Len(f[k]) = Cardinality(In(k))
      BY <3>1, <3>3, <3>5
    <3>10. QED BY <3>1, <3>3, <3>4, <3>6, <3>7, <3>8, <3>9
  <2>3. QED BY <2>1, <2>2
<1>4. Q(n)
  <2> HIDE DEF Q
  <2>1. \A k \in Nat : (\A j \in 0 .. k - 1 : j \in N) => k \in N
    <3> SUFFICES ASSUME NEW k \in Nat, \A j \in 0 .. k - 1 : j \in N, k <= n PROVE Q(k)
      OBVIOUS
    <3>1. CASE k = 0
      BY <1>2, <3>1
    <3>2. CASE k # 0
      <4>1. k - 1 \in N /\ k - 1 <= n /\ k \in 1 .. n
        BY <1>1, <3>2
      <4>2. QED BY <1>3, <4>1
    <3>3. QED BY <3>1, <3>2
  <2>2. N \in SUBSET Nat
    OBVIOUS
  <2> HIDE DEF N
  <2>3. N = Nat
    BY <2>1, <2>2, SetInduction
  <2>4. QED BY <1>1, <2>3 DEF N
<1>5. \A P : FirstUpTo(s, n, P) = First(s, P)
  BY DEF First, n
<1> DEFINE h == f[n]
<1>6. /\ h \in Seq(S)
      /\ \A j \in 1 .. Len(h) : h[j] \in T /\ \E i \in 1 .. n : h[j] = s[i]
      /\ \A i \in 1 .. n : s[i] \in T => \E j \in 1 .. Len(h) : h[j] = s[i]
      /\ Len(h) = Cardinality(In(n))
      /\ (\A i \in 1 .. n : s[i] \in T) => Len(h) = n /\ \A i \in 1 .. n : h[i] = s[i]
  BY <1>4
<1>7. \A P : P \cap S \subseteq T => First(h, P) = First(s, P)
  BY <1>4, <1>5
<1>8. Only(s, T) = h
  BY <1>1
<1> HIDE DEF h
<1>9. QED BY <1>6, <1>7, <1>8 DEF n, Keeps, KeepsAll, KeepsFirst

(* The list of friends, written and read. *)

\* Texts of two and three tokens.
LEMMA Short ==
    ASSUME NEW x \in Tokens, NEW y \in Tokens, NEW z \in Tokens
    PROVE  /\ <<x, y>> \in Text /\ Len(<<x, y>>) = 2 /\ <<x, y>>[1] = x /\ <<x, y>>[2] = y
           /\ <<x, y, z>> \in Text /\ Len(<<x, y, z>>) = 3
           /\ <<x, y, z>>[1] = x /\ <<x, y, z>>[2] = y /\ <<x, y, z>>[3] = z
<1> DEFINE S == Tokens
<1> HIDE DEF S
<1>1. ASSUME NEW a \in S, NEW b \in S, NEW c \in S
      PROVE  /\ <<a, b>> \in Seq(S) /\ Len(<<a, b>>) = 2 /\ <<a, b>>[1] = a /\ <<a, b>>[2] = b
             /\ <<a, b, c>> \in Seq(S) /\ Len(<<a, b, c>>) = 3
             /\ <<a, b, c>>[1] = a /\ <<a, b, c>>[2] = b /\ <<a, b, c>>[3] = c
  OBVIOUS
<1>2. QED BY <1>1 DEF S, Text

Entry(r)  == <<r.id, Comma>> \o r.user_name \o <<Comma, r.state, Semicolon>>
\* The entry of a friend without the ";" behind it.
Fields(r) == <<r.id>> \o <<Comma>> \o (r.user_name \o <<Comma>> \o <<r.state>>)

\* What a text of the length n + 5 is when it is the entry of a name of length n.
IsEntry(t, r, n) == /\ t[1] = r.id /\ t[2] = Comma
                    /\ \A i \in 1 .. n : t[2 + i] = r.user_name[i]
                    /\ t[n + 3] = Comma /\ t[n + 4] = r.state

\* An entry: its tokens, one by one.
LEMMA EntryText ==
    ASSUME NEW r \in Row
    PROVE  /\ Entry(r) \in Text /\ Len(Entry(r)) = Len(r.user_name) + 5
           /\ IsEntry(Entry(r), r, Len(r.user_name))
           /\ Entry(r)[Len(r.user_name) + 5] = Semicolon
<1> DEFINE a == <<r.id, Comma>>
           b == r.user_name
           c == <<Comma, r.state, Semicolon>>
           n == Len(b)
           h == a \o b
           t == h \o c
<1>1. r.id \in Tokens /\ r.state \in Tokens /\ b \in Text /\ Comma \in Tokens /\ Semicolon \in Tokens
  BY Symbols DEF Row
<1>2. a \in Text /\ Len(a) = 2 /\ a[1] = r.id /\ a[2] = Comma
  BY <1>1, Short
<1>3. c \in Text /\ Len(c) = 3 /\ c[1] = Comma /\ c[2] = r.state /\ c[3] = Semicolon
  BY <1>1, Short
<1>4. n \in Nat
  BY <1>1, TextProps
<1>5. Entry(r) = t
  BY DEF Entry
<1> HIDE DEF a, b, c
<1>6. /\ h \in Text /\ Len(h) = 2 + n /\ (\A i \in 1 .. 2 : h[i] = a[i])
      /\ \A i \in 1 .. n : h[2 + i] = b[i]
  <2>1. /\ a \o b \in Text /\ Len(a \o b) = Len(a) + Len(b)
        /\ \A i \in 1 .. Len(a) : (a \o b)[i] = a[i]
        /\ \A i \in 1 .. Len(b) : (a \o b)[Len(a) + i] = b[i]
    BY <1>1, <1>2, Joined DEF b
  <2>2. QED BY <1>2, <2>1
<1> HIDE DEF h, n
<1>7. /\ t \in Text /\ Len(t) = (2 + n) + 3 /\ (\A i \in 1 .. 2 + n : t[i] = h[i])
      /\ \A i \in 1 .. 3 : t[(2 + n) + i] = c[i]
  <2>1. /\ h \o c \in Text /\ Len(h \o c) = Len(h) + Len(c)
        /\ \A i \in 1 .. Len(h) : (h \o c)[i] = h[i]
        /\ \A i \in 1 .. Len(c) : (h \o c)[Len(h) + i] = c[i]
    BY <1>3, <1>6, Joined
  <2>2. QED BY <1>3, <1>6, <2>1
<1> HIDE DEF t
<1>8. t[1] = r.id /\ t[2] = Comma
  <2>1. 1 \in 1 .. 2 /\ 2 \in 1 .. 2 /\ 1 \in 1 .. 2 + n /\ 2 \in 1 .. 2 + n
    BY <1>4
  <2>2. QED BY <1>2, <1>6, <1>7, <2>1
<1>9. \A i \in 1 .. n : t[2 + i] = b[i]
  <2>1. \A i \in 1 .. n : 2 + i \in 1 .. 2 + n
    BY <1>4
  <2>2. QED BY <1>6, <1>7, <2>1
<1>10. t[n + 3] = Comma /\ t[n + 4] = r.state /\ t[n + 5] = Semicolon
  <2>1. (2 + n) + 1 = n + 3 /\ (2 + n) + 2 = n + 4 /\ (2 + n) + 3 = n + 5
    BY <1>4
  <2>2. 1 \in 1 .. 3 /\ 2 \in 1 .. 3 /\ 3 \in 1 .. 3
    OBVIOUS
  <2>3. t[(2 + n) + 1] = c[1] /\ t[(2 + n) + 2] = c[2] /\ t[(2 + n) + 3] = c[3]
    BY <1>7, <2>2
  <2>4. QED BY <1>3, <2>1, <2>3
<1>11. Len(t) = n + 5
  BY <1>4, <1>7
<1>12. QED BY <1>5, <1>7, <1>8, <1>9, <1>10, <1>11 DEF IsEntry, n, b

\* The fields of an entry, and what is read from them.
LEMMA FieldsRead ==
    ASSUME NEW r \in Row, Find(r.user_name, Comma) = 0
    PROVE  /\ Fields(r) \in Text /\ Before(Fields(r), Comma) = <<r.id>>
           /\ Before(After(Fields(r), Comma), Comma) = r.user_name
           /\ After(After(Fields(r), Comma), Comma) = <<r.state>>
<1> DEFINE a == <<r.id>>
           b == r.user_name
           c == <<r.state>>
           x == Comma
           u == b \o <<x>> \o c
<1>1. r.id \in Numbers /\ r.state \in Numbers /\ b \in Text /\ x \in Tokens
  BY Symbols DEF Row
<1>2. a \in Text /\ Find(a, x) = 0 /\ c \in Text
  BY <1>1, Number
<1>3. Fields(r) = a \o <<x>> \o u /\ Find(b, x) = 0
  BY DEF Fields
<1> HIDE DEF a, b, c, x
<1>4. u \in Text /\ Before(u, x) = b /\ After(u, x) = c
  BY <1>1, <1>2, <1>3, Cut
<1> HIDE DEF u
<1>5. a \o <<x>> \o u \in Text /\ Before(a \o <<x>> \o u, x) = a /\ After(a \o <<x>> \o u, x) = u
  BY <1>1, <1>2, <1>4, Cut
<1>6. QED BY <1>3, <1>4, <1>5 DEF a, b, c, x

\* The fields of an entry: their tokens, one by one.
LEMMA FieldsText ==
    ASSUME NEW r \in Row
    PROVE  Fields(r) \in Text /\ Len(Fields(r)) = Len(r.user_name) + 4
           /\ IsEntry(Fields(r), r, Len(r.user_name))
<1> DEFINE a == <<r.id>>
           b == r.user_name
           c == <<r.state>>
           d == <<Comma>>
           n == Len(b)
           p == a \o d
           q == b \o d
           u == q \o c
           t == p \o u
<1>1. b \in Text /\ n \in Nat
  <2>1. b \in Text
    BY DEF Row
  <2>2. QED BY <2>1, TextProps
<1>2. a \in Text /\ Len(a) = 1 /\ a[1] = r.id /\ c \in Text /\ Len(c) = 1 /\ c[1] = r.state
      /\ d \in Text /\ Len(d) = 1 /\ d[1] = Comma
  <2>1. r.id \in Tokens /\ r.state \in Tokens /\ Comma \in Tokens
    BY Symbols DEF Row
  <2>2. QED BY <2>1, Single
<1>3. Fields(r) = t
  BY DEF Fields
<1>4. 1 \in 1 .. 1 /\ \A s \in Text : Len(s) \in Nat
  BY TextProps
<1> HIDE DEF a, b, c, d
<1>5. p \in Text /\ Len(p) = 2 /\ p[1] = r.id /\ p[2] = Comma
  <2>1. /\ a \o d \in Text /\ Len(a \o d) = Len(a) + Len(d)
        /\ \A i \in 1 .. Len(a) : (a \o d)[i] = a[i]
        /\ \A i \in 1 .. Len(d) : (a \o d)[Len(a) + i] = d[i]
    BY <1>2, Joined
  <2>2. p \in Text /\ Len(p) = 2 /\ p[1] = a[1] /\ p[1 + 1] = d[1]
    BY <1>2, <1>4, <2>1
  <2>3. QED BY <1>2, <2>2
<1>6. q \in Text /\ Len(q) = n + 1 /\ (\A i \in 1 .. n : q[i] = b[i]) /\ q[n + 1] = Comma
  <2>1. /\ b \o d \in Text /\ Len(b \o d) = Len(b) + Len(d)
        /\ \A i \in 1 .. Len(b) : (b \o d)[i] = b[i]
        /\ \A i \in 1 .. Len(d) : (b \o d)[Len(b) + i] = d[i]
    BY <1>1, <1>2, Joined
  <2>2. QED BY <1>2, <1>4, <2>1
<1> HIDE DEF p, q
<1>7. u \in Text /\ Len(u) = (n + 1) + 1 /\ (\A i \in 1 .. n + 1 : u[i] = q[i]) /\ u[(n + 1) + 1] = r.state
  <2>1. /\ q \o c \in Text /\ Len(q \o c) = Len(q) + Len(c)
        /\ \A i \in 1 .. Len(q) : (q \o c)[i] = q[i]
        /\ \A i \in 1 .. Len(c) : (q \o c)[Len(q) + i] = c[i]
    BY <1>2, <1>6, Joined
  <2>2. QED BY <1>2, <1>4, <1>6, <2>1
<1> HIDE DEF u, n
<1>8. /\ t \in Text /\ Len(t) = 2 + ((n + 1) + 1)
      /\ \A i \in 1 .. 2 : t[i] = p[i]
      /\ \A i \in 1 .. (n + 1) + 1 : t[2 + i] = u[i]
  <2>1. /\ p \o u \in Text /\ Len(p \o u) = Len(p) + Len(u)
        /\ \A i \in 1 .. Len(p) : (p \o u)[i] = p[i]
        /\ \A i \in 1 .. Len(u) : (p \o u)[Len(p) + i] = u[i]
    BY <1>5, <1>7, Joined
  <2>2. QED BY <1>5, <1>7, <2>1
<1> HIDE DEF t
<1>9. t[1] = r.id /\ t[2] = Comma
  <2>1. 1 \in 1 .. 2 /\ 2 \in 1 .. 2
    OBVIOUS
  <2>2. QED BY <1>5, <1>8, <2>1
<1>10. \A i \in 1 .. n : t[2 + i] = b[i]
  <2>1. \A i \in 1 .. n : i \in 1 .. n + 1 /\ i \in 1 .. (n + 1) + 1
    BY <1>1
  <2>2. QED BY <1>6, <1>7, <1>8, <2>1
<1>11. t[n + 3] = Comma /\ t[n + 4] = r.state
  <2>1. 2 + (n + 1) = n + 3 /\ 2 + ((n + 1) + 1) = n + 4
    BY <1>1
  <2>2. n + 1 \in 1 .. n + 1 /\ n + 1 \in 1 .. (n + 1) + 1 /\ (n + 1) + 1 \in 1 .. (n + 1) + 1
    BY <1>1
  <2>3. t[2 + (n + 1)] = u[n + 1] /\ t[2 + ((n + 1) + 1)] = u[(n + 1) + 1]
    BY <1>8, <2>2
  <2>4. QED BY <1>6, <1>7, <2>1, <2>2, <2>3
<1>12. Len(t) = n + 4
  BY <1>1, <1>8
<1>13. QED BY <1>3, <1>8, <1>9, <1>10, <1>11, <1>12 DEF IsEntry, n, b

\* The entry of a plain name is its fields and the only ";" behind them.
LEMMA EntryFields ==
    ASSUME NEW r \in Row, Find(r.user_name, Semicolon) = 0
    PROVE  /\ Len(Fields(r)) \in Nat /\ Len(Entry(r)) = Len(Fields(r)) + 1
           /\ \A i \in 1 .. Len(Fields(r)) : Entry(r)[i] = Fields(r)[i] /\ Entry(r)[i] # Semicolon
           /\ Entry(r)[Len(Fields(r)) + 1] = Semicolon
<1> DEFINE b == r.user_name
           n == Len(b)
           s == Entry(r)
           t == Fields(r)
<1>1. /\ b \in Text /\ r.id # Semicolon /\ r.state # Semicolon /\ Comma # Semicolon
  BY Symbols DEF Row
<1>2. n \in Nat /\ \A i \in 1 .. n : b[i] # Semicolon
  BY <1>1, TextProps, FindProps
<1>3. Len(s) = n + 5 /\ IsEntry(s, r, n) /\ s[n + 5] = Semicolon
  BY EntryText
<1>4. Len(t) = n + 4 /\ IsEntry(t, r, n)
  BY FieldsText
<1> HIDE DEF s, t, n
<1>5. ASSUME NEW i \in 1 .. n + 4 PROVE s[i] = t[i] /\ s[i] # Semicolon
  <2>1. CASE i \in {1, 2, n + 3, n + 4}
    BY <1>1, <1>3, <1>4, <2>1 DEF IsEntry
  <2>2. CASE i \notin {1, 2, n + 3, n + 4}
    <3> DEFINE j == i - 2
    <3>1. j \in 1 .. n /\ i = 2 + j
      BY <1>2, <2>2
    <3> HIDE DEF j
    <3>2. s[2 + j] = b[j] /\ t[2 + j] = b[j]
      BY <1>3, <1>4, <3>1 DEF IsEntry
    <3>3. QED BY <1>2, <3>1, <3>2
  <2>3. QED BY <2>1, <2>2
<1>6. n + 4 \in Nat /\ n + 5 = (n + 4) + 1
  BY <1>2
<1>7. QED BY <1>3, <1>4, <1>5, <1>6 DEF s, t

\* The step of the function in serialize_string.
WrittenNext(rows, f, k) == IF k = 0 THEN <<>> ELSE f[k - 1] \o Entry(rows[k])

\* The function in serialize_string is well defined.
LEMMA WrittenExists ==
    ASSUME NEW rows, NEW n \in Nat
    PROVE  \E f : f = [k \in 0 .. n |-> WrittenNext(rows, f, k)]
<1> DEFINE S == {m \in Nat : \E f : f = [k \in 0 .. m |-> WrittenNext(rows, f, k)]}
<1>1. ASSUME NEW m \in Nat, \A j \in 0 .. m - 1 : j \in S PROVE m \in S
  <2>1. CASE m = 0
    <3> DEFINE f == [k \in 0 .. 0 |-> <<>>]
    <3>1. f = [k \in 0 .. 0 |-> WrittenNext(rows, f, k)]
      BY DEF WrittenNext
    <3>2. QED BY <2>1, <3>1
  <2>2. CASE m # 0
    <3>1. m - 1 \in 0 .. m - 1 /\ m - 1 \in Nat
      BY <2>2
    <3>2. PICK f : f = [k \in 0 .. m - 1 |-> WrittenNext(rows, f, k)]
      BY <1>1, <3>1
    <3> DEFINE g == [k \in 0 .. m |-> IF k <= m - 1 THEN f[k] ELSE WrittenNext(rows, f, k)]
    <3>3. ASSUME NEW k \in 0 .. m PROVE g[k] = WrittenNext(rows, g, k)
      <4>1. k # 0 => k - 1 \in 0 .. m /\ k - 1 <= m - 1 /\ g[k - 1] = f[k - 1]
        OBVIOUS
      <4>2. g[k] = WrittenNext(rows, f, k)
        BY <3>2
      <4>3. QED BY <4>1, <4>2 DEF WrittenNext
    <3>4. g = [k \in 0 .. m |-> WrittenNext(rows, g, k)]
      <4> HIDE DEF g
      <4>1. g = [k \in 0 .. m |-> g[k]]
        BY DEF g
      <4>2. QED BY <4>1, <3>3
    <3> HIDE DEF g
    <3>5. QED BY <3>4
  <2>3. QED BY <2>1, <2>2
<1> HIDE DEF S
<1>2. S = Nat
  <2>1. S \in SUBSET Nat
    BY DEF S
  <2>2. QED BY <1>1, <2>1, SetInduction
<1>3. QED BY <1>2 DEF S

\* The function in serialize_string, by its name.
Written(rows) == CHOOSE f : f = [k \in 0 .. Len(rows) |-> WrittenNext(rows, f, k)]

\* What the function in serialize_string is at each place.
LEMMA WrittenSteps ==
    ASSUME NEW rows \in Seq(Row)
    PROVE  /\ Len(rows) \in Nat /\ \A k \in 1 .. Len(rows) : rows[k] \in Row
           /\ Written(rows)[0] = <<>>
           /\ \A k \in 1 .. Len(rows) : Written(rows)[k] = Written(rows)[k - 1] \o Entry(rows[k])
           /\ serialize_string(rows) = Written(rows)[Len(rows)]
<1> DEFINE f == Written(rows)
<1>1. Len(rows) \in Nat /\ \A k \in 1 .. Len(rows) : rows[k] \in Row
  BY LenProperties, ElementOfSeq
<1>2. f = [k \in 0 .. Len(rows) |-> WrittenNext(rows, f, k)]
  <2>1. \E g : g = [k \in 0 .. Len(rows) |-> WrittenNext(rows, g, k)]
    BY <1>1, WrittenExists
  <2>2. QED BY <2>1 DEF Written
<1>3. serialize_string(rows) = f[Len(rows)]
  BY DEF serialize_string, Written, WrittenNext, Entry
<1> HIDE DEF f
<1>4. \A k \in 0 .. Len(rows) : f[k] = WrittenNext(rows, f, k)
  BY <1>2
<1>5. f[0] = <<>>
  BY <1>1, <1>4 DEF WrittenNext
<1>6. \A k \in 1 .. Len(rows) : f[k] = f[k - 1] \o Entry(rows[k])
  <2>1. \A k \in 1 .. Len(rows) : k \in 0 .. Len(rows) /\ k # 0
    BY <1>1
  <2>2. QED BY <1>4, <2>1 DEF WrittenNext
<1>7. QED BY <1>1, <1>3, <1>5, <1>6 DEF f

\* How long the entries are, and where they are.
LEMMA WrittenText ==
    ASSUME NEW rows \in Seq(Row), NEW k \in 0 .. Len(rows)
    PROVE  /\ Written(rows)[k] \in Text /\ Len(Written(rows)[k]) \in Nat
           /\ k # 0 => /\ Len(Written(rows)[k]) = Len(Written(rows)[k - 1]) + Len(Entry(rows[k]))
                       /\ Len(Entry(rows[k])) \in Nat
                       /\ \A i \in 1 .. Len(Written(rows)[k - 1]) :
                             Written(rows)[k][i] = Written(rows)[k - 1][i]
                       /\ \A i \in 1 .. Len(Entry(rows[k])) :
                             Written(rows)[k][Len(Written(rows)[k - 1]) + i] = Entry(rows[k])[i]
<1> DEFINE f == Written(rows)
           n == Len(rows)
           N == {j \in Nat : j <= n => f[j] \in Text}
<1>1. /\ n \in Nat /\ f[0] = <<>>
      /\ \A j \in 1 .. n : f[j] = f[j - 1] \o Entry(rows[j]) /\ rows[j] \in Row
  BY WrittenSteps
<1> HIDE DEF f, n
<1>2. \A j \in 1 .. n : Entry(rows[j]) \in Text
  BY <1>1, EntryText
<1>3. f[0] \in Text
  BY <1>1 DEF Text
<1>4. ASSUME NEW j \in 1 .. n, f[j - 1] \in Text
      PROVE  /\ f[j] \in Text /\ Len(f[j]) = Len(f[j - 1]) + Len(Entry(rows[j]))
             /\ Len(Entry(rows[j])) \in Nat
             /\ \A i \in 1 .. Len(f[j - 1]) : f[j][i] = f[j - 1][i]
             /\ \A i \in 1 .. Len(Entry(rows[j])) : f[j][Len(f[j - 1]) + i] = Entry(rows[j])[i]
  <2> DEFINE s == f[j - 1]
             t == Entry(rows[j])
             u == f[j]
  <2>1. s \in Text /\ t \in Text /\ u = s \o t
    BY <1>1, <1>2, <1>4
  <2> HIDE DEF s, t, u
  <2>2. /\ s \o t \in Text /\ Len(s \o t) = Len(s) + Len(t)
        /\ \A i \in 1 .. Len(s) : (s \o t)[i] = s[i]
        /\ \A i \in 1 .. Len(t) : (s \o t)[Len(s) + i] = t[i]
    BY <2>1, Joined
  <2>3. Len(t) \in Nat
    BY <2>1, TextProps
  <2>4. /\ u \in Text /\ Len(u) = Len(s) + Len(t) /\ Len(t) \in Nat
        /\ \A i \in 1 .. Len(s) : u[i] = s[i]
        /\ \A i \in 1 .. Len(t) : u[Len(s) + i] = t[i]
    BY <2>1, <2>2, <2>3
  <2>5. QED BY <2>4 DEF s, t, u
<1>5. \A j \in Nat : (\A i \in 0 .. j - 1 : i \in N) => j \in N
  <2> SUFFICES ASSUME NEW j \in Nat, \A i \in 0 .. j - 1 : i \in N, j <= n PROVE f[j] \in Text
    OBVIOUS
  <2>1. CASE j = 0
    BY <1>3, <2>1
  <2>2. CASE j # 0
    <3>1. j - 1 \in N /\ j - 1 <= n /\ j \in 1 .. n
      BY <1>1, <2>2
    <3>2. QED BY <1>4, <3>1
  <2>3. QED BY <2>1, <2>2
<1>6. N \in SUBSET Nat
  OBVIOUS
<1> HIDE DEF N
<1>7. N = Nat
  BY <1>5, <1>6, SetInduction
<1>8. \A j \in 0 .. n : f[j] \in Text
  BY <1>1, <1>7 DEF N
<1>9. \A j \in 0 .. n : Len(f[j]) \in Nat
  BY <1>8, TextProps
<1>10. k \in 0 .. n /\ (k # 0 => k \in 1 .. n /\ k - 1 \in 0 .. n)
  BY <1>1 DEF n
<1>11. QED BY <1>4, <1>8, <1>9, <1>10 DEF f

\* The answer to a request for the list is a text.
LEMMA ListText == ASSUME NEW rows \in Seq(Row) PROVE serialize_string(rows) \in Text
<1> DEFINE n == Len(rows)
<1>0. Len(rows) \in Nat /\ serialize_string(rows) = Written(rows)[n]
  BY WrittenSteps
<1>1. n \in 0 .. Len(rows) /\ serialize_string(rows) = Written(rows)[n]
  BY <1>0
<1> HIDE DEF n
<1>2. QED BY <1>1, WrittenText

\* The ";" of a list of plain names are the ends of its entries.
LEMMA WrittenEnds ==
    ASSUME NEW rows \in Seq(Row), \A k \in 1 .. Len(rows) : Find(rows[k].user_name, Semicolon) = 0,
           NEW k \in 0 .. Len(rows)
    PROVE  /\ Ends(Written(rows)[k]) = {Len(Written(rows)[j]) : j \in 1 .. k}
           /\ Cardinality(Ends(Written(rows)[k])) = k
           /\ \A m \in 1 .. k :
                 /\ Cardinality({i \in Ends(Written(rows)[k]) : i <= Len(Written(rows)[m])}) = m
                 /\ Len(Written(rows)[m]) = Len(Written(rows)[m - 1]) + (Len(Fields(rows[m])) + 1)
                 /\ Len(Written(rows)[m]) <= Len(Written(rows)[k])
                 /\ \A i \in 1 .. Len(Fields(rows[m])) :
                       Written(rows)[k][Len(Written(rows)[m - 1]) + i] = Fields(rows[m])[i]
<1> DEFINE f == Written(rows)
           n == Len(rows)
           P(j) == Len(f[j])
           F(m) == Fields(rows[m])
           C(j, m) == Cardinality({i \in Ends(f[j]) : i <= P(m)})
           Q(j) == /\ Ends(f[j]) = {P(m) : m \in 1 .. j}
                   /\ IsFiniteSet(Ends(f[j])) /\ Cardinality(Ends(f[j])) = j
                   /\ \A m \in 1 .. j :
                        /\ C(j, m) = m /\ P(m) = P(m - 1) + (Len(F(m)) + 1) /\ P(m) <= P(j)
                        /\ \A i \in 1 .. Len(F(m)) : f[j][P(m - 1) + i] = F(m)[i]
           N == {j \in Nat : j <= n => Q(j)}
<1>1. /\ n \in Nat /\ f[0] = <<>> /\ \A j \in 1 .. n : rows[j] \in Row
  BY WrittenSteps
<1>2. \A j \in 0 .. n :
         /\ f[j] \in Text /\ P(j) \in Nat /\ DOMAIN f[j] = 1 .. P(j)
         /\ j # 0 => /\ P(j) = P(j - 1) + Len(Entry(rows[j]))
                     /\ \A i \in 1 .. P(j - 1) : f[j][i] = f[j - 1][i]
                     /\ \A i \in 1 .. Len(Entry(rows[j])) : f[j][P(j - 1) + i] = Entry(rows[j])[i]
  <2>1. \A j \in 0 .. n :
         /\ f[j] \in Text /\ P(j) \in Nat
         /\ j # 0 => /\ P(j) = P(j - 1) + Len(Entry(rows[j]))
                     /\ \A i \in 1 .. P(j - 1) : f[j][i] = f[j - 1][i]
                     /\ \A i \in 1 .. Len(Entry(rows[j])) : f[j][P(j - 1) + i] = Entry(rows[j])[i]
    BY WrittenText
  <2>2. QED BY <2>1, TextProps
<1>3. \A j \in 1 .. n : /\ Len(F(j)) \in Nat /\ Len(Entry(rows[j])) = Len(F(j)) + 1
                        /\ \A i \in 1 .. Len(F(j)) : Entry(rows[j])[i] = F(j)[i]
                                                     /\ Entry(rows[j])[i] # Semicolon
                        /\ Entry(rows[j])[Len(F(j)) + 1] = Semicolon
  BY <1>1, EntryFields
<1> HIDE DEF f, n
<1>4. Q(0)
  <2>1. P(0) = 0
    BY <1>1
  <2>2. Ends(f[0]) = {}
    BY <1>1, <1>2, <2>1 DEF Ends
  <2>3. IsFiniteSet(Ends(f[0])) /\ Cardinality(Ends(f[0])) = 0
    BY <2>2, FS_EmptySet
  <2>4. {P(m) : m \in 1 .. 0} = {}
    OBVIOUS
  <2>5. QED BY <2>2, <2>3, <2>4
<1>5. ASSUME NEW j \in 1 .. n, Q(j - 1) PROVE Q(j)
  <2> DEFINE g == f[j - 1]
             h == f[j]
             p == P(j - 1)
             q == P(j)
             e == Entry(rows[j])
             l == Len(F(j))
             Old == Ends(g)
  <2>1. /\ p \in Nat /\ q \in Nat /\ l \in Nat /\ q = p + (l + 1)
        /\ DOMAIN h = 1 .. q /\ DOMAIN g = 1 .. p
        /\ \A i \in 1 .. p : h[i] = g[i]
        /\ \A i \in 1 .. l + 1 : h[p + i] = e[i]
        /\ \A i \in 1 .. l : e[i] # Semicolon /\ e[i] = F(j)[i]
        /\ e[l + 1] = Semicolon
    <3>1. j \in 0 .. n /\ j - 1 \in 0 .. n /\ j # 0
      BY <1>1
    <3>2. QED BY <1>2, <1>3, <3>1
  <2>2. /\ Old = {P(m) : m \in 1 .. j - 1} /\ IsFiniteSet(Old) /\ Cardinality(Old) = j - 1
        /\ \A m \in 1 .. j - 1 :
              /\ Cardinality({i \in Old : i <= P(m)}) = m
              /\ P(m) = P(m - 1) + (Len(F(m)) + 1) /\ P(m) <= p
              /\ \A i \in 1 .. Len(F(m)) : g[P(m - 1) + i] = F(m)[i]
    BY <1>5
  <2>3. \A i \in Old : i \in 1 .. p /\ g[i] = Semicolon
    BY <2>1 DEF Ends
  <2>4. Ends(h) = Old \cup {q}
    <3> HIDE DEF g, h, p, q, e, l
    <3>1. ASSUME NEW i \in Ends(h) PROVE i \in Old \/ i = q
      <4>1. i \in 1 .. q /\ h[i] = Semicolon
        BY <2>1 DEF Ends
      <4>2. CASE i <= p
        <5>1. i \in 1 .. p
          BY <2>1, <4>1, <4>2
        <5>2. g[i] = Semicolon
          BY <2>1, <4>1, <5>1
        <5>3. QED BY <2>1, <5>1, <5>2 DEF Ends
      <4>3. CASE ~(i <= p)
        <5> DEFINE d == i - p
        <5>1. d \in 1 .. l + 1 /\ i = p + d
          BY <2>1, <4>1, <4>3
        <5> HIDE DEF d
        <5>2. e[d] = Semicolon
          BY <2>1, <4>1, <5>1
        <5>3. d = l + 1
          BY <2>1, <5>1, <5>2
        <5>4. QED BY <2>1, <5>1, <5>3
      <4>4. QED BY <4>2, <4>3
    <3>2. ASSUME NEW i \in Old PROVE i \in Ends(h)
      <4>1. i \in 1 .. p /\ g[i] = Semicolon
        BY <2>3
      <4>2. i \in 1 .. q /\ h[i] = Semicolon
        BY <2>1, <4>1
      <4>3. QED BY <2>1, <4>2 DEF Ends
    <3>3. q \in Ends(h)
      <4>1. l + 1 \in 1 .. l + 1 /\ q \in 1 .. q
        BY <2>1
      <4>2. h[q] = Semicolon
        BY <2>1, <4>1
      <4>3. QED BY <2>1, <4>1, <4>2 DEF Ends
    <3> HIDE DEF Old
    <3>4. QED BY <3>1, <3>2, <3>3
  <2>5. q \notin Old
    <3>1. \A i \in Old : i <= p /\ i \in Nat
      BY <2>3
    <3>2. ~(q <= p)
      <4> HIDE DEF p, q
      <4>1. QED BY <2>1
    <3> HIDE DEF p, q, Old
    <3>3. QED BY <3>1, <3>2
  <2>6. IsFiniteSet(Ends(h)) /\ Cardinality(Ends(h)) = j
    <3>1. IsFiniteSet(Old \cup {q}) /\ Cardinality(Old \cup {q}) = Cardinality(Old) + 1
      <4> HIDE DEF Old, q
      <4>1. QED BY <2>2, <2>5, FS_AddElement
    <3>2. (j - 1) + 1 = j
      OBVIOUS
    <3> HIDE DEF Old, q, h, g
    <3>3. QED BY <2>2, <2>4, <3>1, <3>2
  <2>7. Ends(h) = {P(m) : m \in 1 .. j}
    <3>1. \A m \in 1 .. j : m = j \/ m \in 1 .. j - 1
      OBVIOUS
    <3>2. j \in 1 .. j /\ \A m \in 1 .. j - 1 : m \in 1 .. j
      OBVIOUS
    <3> HIDE DEF h, g, Old
    <3>3. QED BY <2>2, <2>4, <3>1, <3>2
  <2>8. ASSUME NEW m \in 1 .. j
        PROVE  /\ Cardinality({i \in Ends(h) : i <= P(m)}) = m
               /\ P(m) = P(m - 1) + (Len(F(m)) + 1) /\ P(m) <= q
               /\ \A i \in 1 .. Len(F(m)) : h[P(m - 1) + i] = F(m)[i]
    <3>1. CASE m = j
      <4>1. {i \in Ends(h) : i <= q} = Ends(h)
        <5>1. \A i \in Ends(h) : i <= q
          <6> HIDE DEF g, h, p, q, Old
          <6>1. QED BY <2>1, <2>3, <2>4
        <5>2. QED BY <5>1
      <4>2. \A i \in 1 .. l : i \in 1 .. l + 1
        BY <2>1
      <4>3. \A i \in 1 .. l : h[p + i] = F(j)[i]
        BY <2>1, <4>2
      <4>4. q <= q
        <5> HIDE DEF q
        <5>1. QED BY <2>1
      <4>5. Cardinality({i \in Ends(h) : i <= q}) = j
        BY <2>6, <4>1
      <4>6. q = p + (l + 1)
        BY <2>1
      <4>7. QED BY <3>1, <4>3, <4>4, <4>5, <4>6
    <3>2. CASE m # j
      <4>1. m \in 1 .. j - 1
        BY <3>2
      <4>2. P(m) <= p /\ P(m) \in Nat /\ m \in 1 .. n /\ m - 1 \in 0 .. n /\ P(m - 1) \in Nat
        <5>1. m \in 0 .. n /\ m - 1 \in 0 .. n /\ m \in 1 .. n
          BY <1>1
        <5>2. QED BY <1>2, <2>2, <4>1, <5>1
      <4>3. {i \in Ends(h) : i <= P(m)} = {i \in Old : i <= P(m)}
        <5>1. ~(q <= P(m))
          <6> HIDE DEF p, q
          <6>1. QED BY <2>1, <4>2
        <5> HIDE DEF g, h, p, q, Old
        <5>2. QED BY <2>4, <5>1
      <4>4. ASSUME NEW i \in 1 .. Len(F(m)) PROVE h[P(m - 1) + i] = F(m)[i]
        <5>1. g[P(m - 1) + i] = F(m)[i]
          BY <2>2, <4>1
        <5>2. P(m) = P(m - 1) + (Len(F(m)) + 1) /\ Len(F(m)) \in Nat
          BY <1>3, <2>2, <4>1, <4>2
        <5>3. P(m - 1) + i \in 1 .. p
          <6> DEFINE a == P(m - 1)
                     b == P(m)
                     c == Len(F(m))
          <6>1. a \in Nat /\ c \in Nat /\ b = a + (c + 1) /\ b <= p /\ p \in Nat /\ i \in 1 .. c
            BY <2>1, <4>2, <5>2
          <6> HIDE DEF a, b, c, p
          <6>2. a + i \in 1 .. p
            BY <6>1
          <6>3. QED BY <6>2 DEF a
        <5>4. QED BY <2>1, <5>1, <5>3
      <4>5. P(m) <= q
        <5> HIDE DEF p, q
        <5>1. QED BY <2>1, <4>2
      <4>6. QED BY <2>2, <4>1, <4>3, <4>4, <4>5
    <3>3. QED BY <3>1, <3>2
  <2>9. QED BY <2>6, <2>7, <2>8
<1>6. \A j \in Nat : (\A i \in 0 .. j - 1 : i \in N) => j \in N
  <2> SUFFICES ASSUME NEW j \in Nat, \A i \in 0 .. j - 1 : i \in N, j <= n PROVE Q(j)
    OBVIOUS
  <2> HIDE DEF Q
  <2>1. CASE j = 0
    BY <1>4, <2>1
  <2>2. CASE j # 0
    <3>1. j - 1 \in N /\ j - 1 <= n /\ j \in 1 .. n
      BY <1>1, <2>2
    <3>2. QED BY <1>5, <3>1
  <2>3. QED BY <2>1, <2>2
<1>7. N \in SUBSET Nat
  OBVIOUS
<1> HIDE DEF N
<1>8. N = Nat
  BY <1>6, <1>7, SetInduction
<1>9. Q(k)
  <2>1. k \in Nat /\ k <= n
    BY <1>1 DEF n
  <2> HIDE DEF Q
  <2>2. QED BY <1>8, <2>1 DEF N
<1>10. QED BY <1>9 DEF f

\* A list of plain names is read as it was written.
THEOREM ListParsed ==
    ASSUME NEW rows \in Seq(Row),
           \A k \in 1 .. Len(rows) : /\ Find(rows[k].user_name, Semicolon) = 0
                                     /\ Find(rows[k].user_name, Comma) = 0
    PROVE  friend_list_deserialize(serialize_string(rows)) = rows
<1> DEFINE n == Len(rows)
           f == Written(rows)
           t == f[n]
           P(j) == Len(f[j])
           At(k, i) == i \in Ends(t) /\ Cardinality({j \in Ends(t) : j <= i}) = k
<1>1. /\ n \in Nat /\ serialize_string(rows) = t /\ f[0] = <<>>
      /\ \A k \in 1 .. n : rows[k] \in Row
  BY WrittenSteps
<1>2. /\ Ends(t) = {P(j) : j \in 1 .. n} /\ Cardinality(Ends(t)) = n
      /\ \A m \in 1 .. n :
            /\ Cardinality({i \in Ends(t) : i <= P(m)}) = m
            /\ P(m) = P(m - 1) + (Len(Fields(rows[m])) + 1) /\ P(m) <= Len(t)
            /\ \A i \in 1 .. Len(Fields(rows[m])) : t[P(m - 1) + i] = Fields(rows[m])[i]
  <2>1. n \in 0 .. Len(rows)
    BY <1>1
  <2>2. \A k \in 1 .. Len(rows) : Find(rows[k].user_name, Semicolon) = 0
    OBVIOUS
  <2> HIDE DEF n
  <2>3. /\ Ends(Written(rows)[n]) = {Len(Written(rows)[j]) : j \in 1 .. n}
        /\ Cardinality(Ends(Written(rows)[n])) = n
        /\ \A m \in 1 .. n :
              /\ Cardinality({i \in Ends(Written(rows)[n]) : i <= Len(Written(rows)[m])}) = m
              /\ Len(Written(rows)[m]) = Len(Written(rows)[m - 1]) + (Len(Fields(rows[m])) + 1)
              /\ Len(Written(rows)[m]) <= Len(Written(rows)[n])
              /\ \A i \in 1 .. Len(Fields(rows[m])) :
                    Written(rows)[n][Len(Written(rows)[m - 1]) + i] = Fields(rows[m])[i]
    BY <2>1, <2>2, WrittenEnds
  <2>4. QED BY <2>3
<1>3. t \in Text /\ \A j \in 0 .. n : P(j) \in Nat
  <2>1. \A j \in 0 .. n : f[j] \in Text /\ P(j) \in Nat
    BY WrittenText
  <2>2. n \in 0 .. n
    BY <1>1
  <2>3. QED BY <2>1, <2>2
<1> HIDE DEF f, n, t
<1>4. \A k \in 0 .. n : EndOf(t, k) = P(k)
  <2>1. EndOf(t, 0) = P(0)
    BY <1>1 DEF EndOf
  <2>2. ASSUME NEW k \in 1 .. n PROVE EndOf(t, k) = P(k)
    <3>1. P(k) \in Ends(t) /\ Cardinality({j \in Ends(t) : j <= P(k)}) = k
      BY <1>2
    <3>2. \A i \in Ends(t) : Cardinality({j \in Ends(t) : j <= i}) = k => i = P(k)
      <4>1. ASSUME NEW i \in Ends(t), Cardinality({j \in Ends(t) : j <= i}) = k PROVE i = P(k)
        <5>1. PICK m \in 1 .. n : i = P(m)
          <6>1. Ends(t) = {P(j) : j \in 1 .. n}
            BY <1>2
          <6> HIDE DEF P
          <6>2. QED BY <6>1
        <5>2. Cardinality({j \in Ends(t) : j <= P(m)}) = m
          BY <1>2
        <5>3. m = k
          <6> HIDE DEF P
          <6>1. QED BY <4>1, <5>1, <5>2
        <5>4. QED BY <5>1, <5>3
      <4>2. QED BY <4>1
    <3> DEFINE R(i) == Cardinality({j \in Ends(t) : j <= i}) = k
    <3>0. k # 0
      BY <1>1
    <3>3. EndOf(t, k) = CHOOSE i \in Ends(t) : R(i)
      BY <3>0 DEF EndOf
    <3>4. R(P(k)) /\ \A i \in Ends(t) : R(i) => i = P(k)
      BY <3>1, <3>2
    <3> HIDE DEF R
    <3>5. QED BY <3>1, <3>3, <3>4
  <2>3. QED BY <2>1, <2>2
<1> DEFINE E(k) == SubSeq(t, EndOf(t, k - 1) + 1, EndOf(t, k) - 1)
           Parsed(k) == [id |-> atoi(Before(E(k), Comma)),
                         user_name |-> Before(After(E(k), Comma), Comma),
                         state |-> atoi(After(After(E(k), Comma), Comma))]
<1>5. ASSUME NEW k \in 1 .. n PROVE Parsed(k) = rows[k]
  <2> DEFINE a == P(k - 1) + 1
             b == P(k) - 1
             w == Fields(rows[k])
             l == Len(w)
             p == SubSeq(t, a, b)
  <2>1. rows[k] \in Row /\ w \in Text /\ l \in Nat
    BY <1>1, FieldsText, TextProps
  <2>2. k - 1 \in 0 .. n /\ k \in 0 .. n
    BY <1>1
  <2>3. EndOf(t, k - 1) = P(k - 1) /\ EndOf(t, k) = P(k) /\ P(k - 1) \in Nat
    BY <1>3, <1>4, <2>2
  <2>4. E(k) = p
    BY <2>3
  <2>5. P(k) = P(k - 1) + (l + 1) /\ P(k) <= Len(t) /\ \A i \in 1 .. l : t[P(k - 1) + i] = w[i]
    BY <1>2
  <2> DEFINE d == P(k - 1)
             h == P(k)
  <2>6. /\ d \in Nat /\ h = d + (l + 1) /\ h <= Len(t) /\ a = d + 1 /\ b = h - 1
        /\ \A i \in 1 .. l : t[d + i] = w[i]
    BY <2>3, <2>5
  <2> HIDE DEF a, b, w, l, d, h, p, P
  <2>7. a \in Int /\ b \in Int /\ 1 <= a /\ b <= Len(t)
    BY <1>3, <2>1, <2>6, TextProps
  <2>8. /\ SubSeq(t, a, b) \in Text
        /\ Len(SubSeq(t, a, b)) = IF a <= b THEN (b - a) + 1 ELSE 0
        /\ \A i \in 1 .. Len(SubSeq(t, a, b)) : SubSeq(t, a, b)[i] = t[(a + i) - 1]
    BY <1>3, <2>7, Part
  <2>9. /\ p \in Text /\ Len(p) = IF a <= b THEN (b - a) + 1 ELSE 0
        /\ \A i \in 1 .. Len(p) : p[i] = t[(a + i) - 1]
    BY <2>8 DEF p
  <2>10. (a <= b => (b - a) + 1 = l) /\ (~(a <= b) => l = 0) /\ \A i \in 1 .. l : (a + i) - 1 = d + i
    BY <2>1, <2>6
  <2>11. Len(p) = l /\ \A i \in 1 .. l : p[i] = w[i]
    BY <2>6, <2>9, <2>10
  <2>12. p = w
    BY <2>1, <2>9, <2>11, SameText DEF l
  <2>13. Find(rows[k].user_name, Comma) = 0
    BY DEF n
  <2>14. /\ Before(w, Comma) = <<rows[k].id>> /\ Before(After(w, Comma), Comma) = rows[k].user_name
         /\ After(After(w, Comma), Comma) = <<rows[k].state>>
    BY <2>1, <2>13, FieldsRead DEF w
  <2>15. rows[k].id \in Numbers /\ rows[k].state \in Numbers
    BY <2>1 DEF Row
  <2>16. atoi(<<rows[k].id>>) = rows[k].id /\ atoi(<<rows[k].state>>) = rows[k].state
    BY <2>15, Number
  <2>17. rows[k] = [id |-> rows[k].id, user_name |-> rows[k].user_name, state |-> rows[k].state]
    BY <2>1 DEF Row
  <2>18. QED BY <2>4, <2>12, <2>14, <2>16, <2>17
<1>6. friend_list_deserialize(t) = [k \in 1 .. n |-> Parsed(k)]
  BY <1>2 DEF friend_list_deserialize
<1> HIDE DEF Parsed
<1>7. friend_list_deserialize(t) = [k \in 1 .. n |-> rows[k]]
  BY <1>5, <1>6
<1>8. rows = [k \in 1 .. n |-> rows[k]]
  <2>1. DOMAIN rows = 1 .. Len(rows) /\ rows \in [1 .. Len(rows) -> Row]
    BY LenProperties
  <2>2. QED BY <2>1 DEF n
<1>9. QED BY <1>1, <1>7, <1>8

(* What the scans of the vectors find. *)

\* The places of a vector and what is there.
LEMMA Scan ==
    ASSUME NEW S, NEW s \in Seq(S)
    PROVE  /\ Len(s) \in Nat /\ DOMAIN s = 1 .. Len(s)
           /\ \A i \in DOMAIN s : s[i] \in S /\ \A j \in 1 .. i - 1 : j \in DOMAIN s
<1>1. Len(s) \in Nat /\ DOMAIN s = 1 .. Len(s) /\ \A i \in 1 .. Len(s) : s[i] \in S
  BY LenProperties, ElementOfSeq
<1>2. QED BY <1>1

\* What a scan of the accounts looks for.
LEMMA UsersScanned ==
    ASSUME NEW s \in Seq(User), NEW x, NEW y
    PROVE  /\ FirstOf(s, LAMBDA u : u.user_name = x) = First(s, {u \in User : u.user_name = x})
           /\ FirstOf(s, LAMBDA u : u.id = x) = First(s, {u \in User : u.id = x})
           /\ FirstOf(s, LAMBDA u : u.user_name = x /\ u.passwd = y)
                = First(s, {u \in User : u.user_name = x /\ u.passwd = y})
<1>1. /\ Len(s) \in Nat /\ DOMAIN s = 1 .. Len(s)
      /\ \A i \in DOMAIN s : s[i] \in User /\ \A j \in 1 .. i - 1 : j \in DOMAIN s
  BY Scan
<1>2. FirstOf(s, LAMBDA u : u.user_name = x) = First(s, {u \in User : u.user_name = x})
  BY <1>1 DEF FirstOf, First, FirstUpTo
<1>3. FirstOf(s, LAMBDA u : u.id = x) = First(s, {u \in User : u.id = x})
  BY <1>1 DEF FirstOf, First, FirstUpTo
<1>4. FirstOf(s, LAMBDA u : u.user_name = x /\ u.passwd = y)
        = First(s, {u \in User : u.user_name = x /\ u.passwd = y})
  BY <1>1 DEF FirstOf, First, FirstUpTo
<1>5. QED BY <1>2, <1>3, <1>4

\* What a scan of the sessions looks for.
LEMMA LoginsScanned ==
    ASSUME NEW s \in Seq(Login), NEW x
    PROVE  /\ FirstOf(s, LAMBDA l : l.user_name = x) = First(s, {l \in Login : l.user_name = x})
           /\ FirstOf(s, LAMBDA l : l.user_id = x) = First(s, {l \in Login : l.user_id = x})
           /\ FirstOf(s, LAMBDA l : l.id = x) = First(s, {l \in Login : l.id = x})
<1>1. /\ Len(s) \in Nat /\ DOMAIN s = 1 .. Len(s)
      /\ \A i \in DOMAIN s : s[i] \in Login /\ \A j \in 1 .. i - 1 : j \in DOMAIN s
  BY Scan
<1>2. FirstOf(s, LAMBDA l : l.user_name = x) = First(s, {l \in Login : l.user_name = x})
  BY <1>1 DEF FirstOf, First, FirstUpTo
<1>3. FirstOf(s, LAMBDA l : l.user_id = x) = First(s, {l \in Login : l.user_id = x})
  BY <1>1 DEF FirstOf, First, FirstUpTo
<1>4. FirstOf(s, LAMBDA l : l.id = x) = First(s, {l \in Login : l.id = x})
  BY <1>1 DEF FirstOf, First, FirstUpTo
<1>5. QED BY <1>2, <1>3, <1>4

\* What a scan of a list of friends looks for.
LEMMA RowsScanned ==
    ASSUME NEW s \in Seq(Row), NEW x
    PROVE  FirstOf(s, LAMBDA r : r.id = x) = First(s, {r \in Row : r.id = x})
<1>1. /\ Len(s) \in Nat /\ DOMAIN s = 1 .. Len(s)
      /\ \A i \in DOMAIN s : s[i] \in Row /\ \A j \in 1 .. i - 1 : j \in DOMAIN s
  BY Scan
<1>2. QED BY <1>1 DEF FirstOf, First, FirstUpTo

\* What is found first is found.
LEMMA FoundFirst ==
    ASSUME NEW S, NEW s \in Seq(S), NEW P
    PROVE  /\ \A v \in First(s, P) : v \in P /\ v \in S /\ \E i \in DOMAIN s : s[i] = v
           /\ \A v, w \in First(s, P) : v = w
           /\ \A i \in DOMAIN s : s[i] \in P => First(s, P) # {}
<1> DEFINE n == Len(s)
<1>1. n \in Nat /\ DOMAIN s = 1 .. n /\ \A i \in DOMAIN s : s[i] \in S
  BY Scan
<1> HIDE DEF n
<1>2. /\ \A i \in 1 .. n : s[i] \in P => FirstUpTo(s, n, P) # {}
      /\ \A v \in FirstUpTo(s, n, P) : v \in P /\ \E i \in 1 .. n : s[i] = v
      /\ \A v, w \in FirstUpTo(s, n, P) : v = w
  BY <1>1, FirstProps
<1>3. FirstUpTo(s, n, P) = First(s, P)
  BY DEF First, n
<1>4. QED BY <1>1, <1>2, <1>3
-----------------------------------------------------------------------------
(* Users. *)

\* The table user_info, and behind it the accounts that were registered.
UsersInv == /\ users \in Seq(User)
            /\ Len(Stored) <= Len(users)
            /\ \A i \in DOMAIN Stored : users[i] = Stored[i]

\* With distinct accounts the stored ones are found by number and by name.
LEMMA StoredUsers ==
    ASSUME UsersInv
    PROVE  /\ \A i \in DOMAIN Stored : i \in DOMAIN users /\ Stored[i] \in User /\ users[i] = Stored[i]
           /\ Distinct(users) => \A i \in DOMAIN Stored, j \in DOMAIN users :
                 (users[j].id = Stored[i].id \/ users[j].user_name = Stored[i].user_name)
                    => users[j] = Stored[i]
           /\ Ids \subseteq {users[i].id : i \in DOMAIN users}
<1>1. /\ Len(Stored) \in Nat /\ DOMAIN Stored = 1 .. Len(Stored)
      /\ \A i \in DOMAIN Stored : Stored[i] \in User
  BY Table, Scan
<1>2. Len(users) \in Nat /\ DOMAIN users = 1 .. Len(users)
  BY Scan DEF UsersInv
<1>3. \A i \in DOMAIN Stored : i \in DOMAIN users
  BY <1>1, <1>2 DEF UsersInv
<1>4. \A i \in DOMAIN Stored : users[i] = Stored[i]
  BY DEF UsersInv
<1>5. ASSUME Distinct(users), NEW i \in DOMAIN Stored, NEW j \in DOMAIN users,
             users[j].id = Stored[i].id \/ users[j].user_name = Stored[i].user_name
      PROVE  users[j] = Stored[i]
  <2>1. j = i
    BY <1>3, <1>4, <1>5 DEF Distinct
  <2>2. QED BY <1>4, <2>1
<1>6. QED BY <1>1, <1>3, <1>4, <1>5 DEF Ids

\* The number of a name.
LEMMA NumberOfName ==
    ASSUME users \in Seq(User), NEW name
    PROVE  /\ get_userid_by_username(name) \subseteq Numbers
           /\ \A i \in DOMAIN users : Distinct(users) /\ users[i].user_name = name
                 => get_userid_by_username(name) = {users[i].id}
<1> DEFINE P == {u \in User : u.user_name = name}
           F == First(users, P)
<1>1. FirstOf(users, LAMBDA u : u.user_name = name) = F
  BY UsersScanned
<1>2. /\ \A v \in F : v \in P /\ v \in User /\ \E i \in DOMAIN users : users[i] = v
      /\ \A v, w \in F : v = w
      /\ \A i \in DOMAIN users : users[i] \in P => F # {}
  <2> HIDE DEF P
  <2>1. QED BY FoundFirst
<1>3. get_userid_by_username(name) = IF \E i \in DOMAIN users : users[i].user_name = name
                                     THEN {u.id : u \in F} ELSE Garbage
  BY <1>1 DEF get_userid_by_username
<1>4. \A i \in DOMAIN users : users[i] \in User
  BY Scan
<1> HIDE DEF F
<1>5. \A v \in F : v.id \in Numbers
  BY <1>2 DEF User
<1>6. get_userid_by_username(name) \subseteq Numbers
  BY <1>3, <1>5, Stray
<1>7. ASSUME NEW i \in DOMAIN users, Distinct(users), users[i].user_name = name
      PROVE  get_userid_by_username(name) = {users[i].id}
  <2>1. F # {}
    BY <1>2, <1>4, <1>7
  <2>2. \A v \in F : v = users[i]
    <3> SUFFICES ASSUME NEW v \in F PROVE v = users[i]
      OBVIOUS
    <3>1. PICK j \in DOMAIN users : users[j] = v
      BY <1>2
    <3>2. v.user_name = name
      BY <1>2
    <3>3. j = i
      BY <1>7, <3>1, <3>2 DEF Distinct
    <3>4. QED BY <3>1, <3>3
  <2>3. F = {users[i]}
    BY <2>1, <2>2
  <2>4. QED BY <1>3, <1>7, <2>3
<1>8. QED BY <1>6, <1>7

\* The numbers of the friends of a number.
LEMMA FriendIds ==
    ASSUME NEW id
    PROVE  /\ get_friendids_by_userid(id) \in Seq(Ids)
           /\ Len(get_friendids_by_userid(id)) = Cardinality({k \in DOMAIN FriendRows :
                                                                FriendRows[k].user_id = id})
           /\ \A j \in DOMAIN get_friendids_by_userid(id) : \E k \in DOMAIN FriendRows :
                 FriendRows[k] = [user_id |-> id, friend_id |-> get_friendids_by_userid(id)[j]]
           /\ \A k \in DOMAIN FriendRows : FriendRows[k].user_id = id =>
                 \E j \in DOMAIN get_friendids_by_userid(id) :
                    get_friendids_by_userid(id)[j] = FriendRows[k].friend_id
<1> DEFINE S == [user_id : Ids, friend_id : Ids]
           T == [user_id : {id}, friend_id : Ids]
           s == FriendRows
           o == Only(s, T)
           f == get_friendids_by_userid(id)
           n == Len(o)
<1>1. s \in Seq(S)
  BY Rows
<1>2. Len(s) \in Nat /\ DOMAIN s = 1 .. Len(s) /\ \A k \in DOMAIN s : s[k] \in S
  <2> HIDE DEF S, s
  <2>1. QED BY <1>1, Scan
<1>3. \A k \in DOMAIN s : (s[k] \in T <=> s[k].user_id = id)
                          /\ s[k] = [user_id |-> s[k].user_id, friend_id |-> s[k].friend_id]
  BY <1>2
<1> HIDE DEF s, S
<1>4. /\ Only(s, T) \in Seq(S)
      /\ \A j \in 1 .. Len(Only(s, T)) : Only(s, T)[j] \in T
                                         /\ \E i \in 1 .. Len(s) : Only(s, T)[j] = s[i]
      /\ \A i \in 1 .. Len(s) : s[i] \in T => \E j \in 1 .. Len(Only(s, T)) : Only(s, T)[j] = s[i]
      /\ Len(Only(s, T)) = Cardinality({i \in 1 .. Len(s) : s[i] \in T})
  <2> HIDE DEF T
  <2>1. Only(s, T) \in Seq(S) /\ Keeps(Only(s, T), s, T)
    BY <1>1, OnlyProps
  <2>2. QED BY <2>1 DEF Keeps
<1>5. f = [k \in DOMAIN o |-> o[k].friend_id]
  BY DEF get_friendids_by_userid, s
<1> HIDE DEF o, f
<1>6. /\ n \in Nat /\ DOMAIN o = 1 .. n
      /\ \A j \in 1 .. n : o[j] \in T /\ \E i \in DOMAIN s : o[j] = s[i]
      /\ \A i \in DOMAIN s : s[i] \in T => \E j \in 1 .. n : o[j] = s[i]
      /\ n = Cardinality({i \in DOMAIN s : s[i] \in T})
  <2>1. n \in Nat /\ DOMAIN o = 1 .. n
    <3>1. o \in Seq(S)
      BY <1>4 DEF o
    <3>2. QED BY <3>1, Scan
  <2>2. QED BY <1>2, <1>4, <2>1 DEF o
<1> HIDE DEF n
<1>7. f \in [1 .. n -> Ids]
  <2>1. \A j \in 1 .. n : o[j].friend_id \in Ids
    BY <1>6
  <2>2. QED BY <1>5, <1>6, <2>1
<1>8. f \in Seq(Ids) /\ Len(f) = n /\ DOMAIN f = 1 .. n
  BY <1>6, <1>7, SeqOf
<1>9. {i \in DOMAIN s : s[i] \in T} = {k \in DOMAIN s : s[k].user_id = id}
  BY <1>3
<1>10. ASSUME NEW j \in DOMAIN f
       PROVE  \E k \in DOMAIN s : s[k] = [user_id |-> id, friend_id |-> f[j]]
  <2>1. PICK i \in DOMAIN s : o[j] = s[i] /\ o[j] \in T
    BY <1>6, <1>8
  <2>2. s[i] = [user_id |-> id, friend_id |-> f[j]]
    <3>1. f[j] = s[i].friend_id /\ s[i].user_id = id
      BY <1>3, <1>5, <1>6, <1>8, <2>1
    <3>2. QED BY <1>3, <3>1
  <2>3. QED BY <2>2
<1>11. ASSUME NEW k \in DOMAIN s, s[k].user_id = id PROVE \E j \in DOMAIN f : f[j] = s[k].friend_id
  <2>1. PICK j \in 1 .. n : o[j] = s[k]
    BY <1>3, <1>6, <1>11
  <2>2. QED BY <1>5, <1>6, <1>8, <2>1
<1>12. QED BY <1>6, <1>8, <1>9, <1>10, <1>11 DEF f, s

\* The accounts with those numbers.
LEMMA FriendInfos ==
    ASSUME UsersInv, NEW ids \in Seq(Ids)
    PROVE  /\ get_friendinfo_by_userid(ids) \in Seq(User)
           /\ Len(get_friendinfo_by_userid(ids)) = Len(ids)
           /\ \A k \in DOMAIN ids :
                 /\ get_friendinfo_by_userid(ids)[k].id = ids[k]
                 /\ \E i \in DOMAIN users : users[i] = get_friendinfo_by_userid(ids)[k]
<1> DEFINE T == {users[i].id : i \in DOMAIN users}
           o == Only(ids, T)
           n == Len(ids)
           f == get_friendinfo_by_userid(ids)
           F(x) == First(users, {u \in User : u.id = x})
<1>1. n \in Nat /\ DOMAIN ids = 1 .. n /\ \A k \in DOMAIN ids : ids[k] \in Ids
  BY Scan
<1>2. \A k \in 1 .. n : ids[k] \in T
  BY <1>1, StoredUsers
<1>3. Len(o) = n /\ (\A k \in 1 .. n : o[k] = ids[k]) /\ o \in Seq(Ids)
  <2> HIDE DEF T
  <2>1. /\ Only(ids, T) \in Seq(Ids)
        /\ (\A i \in 1 .. Len(ids) : ids[i] \in T)
              => Len(Only(ids, T)) = Len(ids) /\ \A i \in 1 .. Len(ids) : Only(ids, T)[i] = ids[i]
    BY OnlyProps DEF KeepsAll
  <2>2. QED BY <1>2, <2>1
<1>4. DOMAIN o = 1 .. n
  <2> HIDE DEF o
  <2>1. DOMAIN o = 1 .. Len(o)
    BY <1>3, Scan
  <2>2. QED BY <1>3, <2>1
<1>5. users \in Seq(User) /\ \A x : FirstOf(users, LAMBDA v : v.id = x) = F(x)
  <2>1. users \in Seq(User)
    BY DEF UsersInv
  <2>2. QED BY <2>1, UsersScanned
<1>6. f = [k \in 1 .. n |-> CHOOSE u \in F(ids[k]) : TRUE]
  <2> DEFINE G(x) == {users[i] : i \in {i \in DOMAIN users :
                            users[i].id = x /\ \A j \in 1 .. i - 1 : ~(users[j].id = x)}}
  <2>0. f = [k \in DOMAIN o |-> CHOOSE u \in G(o[k]) : TRUE]
    BY DEF get_friendinfo_by_userid, FirstOf
  <2>3. \A x : G(x) = F(x)
    <3> SUFFICES ASSUME NEW x PROVE G(x) = F(x)
      OBVIOUS
    <3>1. G(x) = FirstOf(users, LAMBDA v : v.id = x)
      BY DEF FirstOf
    <3>2. QED BY <1>5, <3>1
  <2> HIDE DEF o, F, G
  <2>1. f = [k \in DOMAIN o |-> CHOOSE u \in F(o[k]) : TRUE]
    BY <2>0, <2>3
  <2> HIDE DEF o, F
  <2>2. QED BY <1>3, <1>4, <2>1
<1>7. \A x \in T : /\ F(x) # {}
                   /\ \A v \in F(x) : v \in User /\ v.id = x /\ \E i \in DOMAIN users : users[i] = v
  <2> SUFFICES ASSUME NEW x \in T
               PROVE  /\ F(x) # {}
                      /\ \A v \in F(x) : v \in User /\ v.id = x /\ \E i \in DOMAIN users : users[i] = v
    OBVIOUS
  <2> DEFINE P == {u \in User : u.id = x}
  <2>1. PICK i \in DOMAIN users : users[i].id = x
    OBVIOUS
  <2>2. users[i] \in P
    BY <1>5, <2>1, Scan
  <2>3. \A v \in P : v.id = x
    OBVIOUS
  <2> HIDE DEF P
  <2>4. /\ \A v \in First(users, P) : v \in P /\ v \in User /\ \E j \in DOMAIN users : users[j] = v
        /\ \A j \in DOMAIN users : users[j] \in P => First(users, P) # {}
    BY <1>5, FoundFirst
  <2>5. /\ First(users, P) # {}
        /\ \A v \in First(users, P) : v \in User /\ v.id = x /\ \E j \in DOMAIN users : users[j] = v
    BY <2>2, <2>3, <2>4
  <2>6. QED BY <2>5 DEF P
<1> HIDE DEF F, f, T
<1>8. \A k \in 1 .. n : f[k] \in User /\ f[k].id = ids[k] /\ \E i \in DOMAIN users : users[i] = f[k]
  <2> SUFFICES ASSUME NEW k \in 1 .. n
               PROVE  f[k] \in F(ids[k]) /\ ids[k] \in T
    BY <1>7
  <2>1. ids[k] \in T /\ F(ids[k]) # {}
    BY <1>2, <1>7
  <2>2. f[k] = CHOOSE u \in F(ids[k]) : TRUE
    BY <1>6
  <2>3. QED BY <2>1, <2>2
<1>9. f \in [1 .. n -> User]
  BY <1>6, <1>8
<1>10. f \in Seq(User) /\ Len(f) = n
  <2> HIDE DEF n
  <2>1. QED BY <1>1, <1>9, SeqOf
<1>11. QED BY <1>1, <1>8, <1>10 DEF f

(* What the actions do. *)

\* Notices reach the first session of each friend.
LEMMA FriendSessions ==
    ASSUME NEW sessions \in Seq(Login), NEW ids
    PROVE  \A k \in DOMAIN ids : First(sessions, {l \in Login : l.user_id = ids[k]})
                                   \subseteq get_logininfos_by_userid(sessions, ids)
<1> DEFINE G(x) == {sessions[i] : i \in {i \in DOMAIN sessions :
                       sessions[i].user_id = x /\ \A j \in 1 .. i - 1 : ~(sessions[j].user_id = x)}}
<1>1. get_logininfos_by_userid(sessions, ids) = UNION {G(ids[k]) : k \in DOMAIN ids}
  BY DEF get_logininfos_by_userid, FirstOf
<1>2. \A x : G(x) = First(sessions, {l \in Login : l.user_id = x})
  <2> SUFFICES ASSUME NEW x PROVE G(x) = First(sessions, {l \in Login : l.user_id = x})
    OBVIOUS
  <2>1. G(x) = FirstOf(sessions, LAMBDA l : l.user_id = x)
    BY DEF FirstOf
  <2>2. QED BY <2>1, LoginsScanned
<1> HIDE DEF G
<1>3. QED BY <1>1, <1>2

\* The states found for a list are sessions'.
LEMMA FriendStates ==
    ASSUME logins \in Seq(Login), NEW ids
    PROVE  /\ get_friendstates_by_userid(ids) \subseteq Login
           /\ \A id : StateShown(id, get_friendstates_by_userid(ids)) \in Numbers
<1> DEFINE G(x) == {logins[i] : i \in {i \in DOMAIN logins :
                       logins[i].id = x /\ \A j \in 1 .. i - 1 : ~(logins[j].id = x)}}
           found == get_friendstates_by_userid(ids)
<1>1. found = UNION {G(ids[k]) : k \in DOMAIN ids}
  BY DEF get_friendstates_by_userid, FirstOf
<1>2. \A x : G(x) \subseteq Login
  BY Scan
<1> HIDE DEF G, found
<1>3. found \subseteq Login
  BY <1>1, <1>2
<1>4. ASSUME NEW id PROVE StateShown(id, found) \in Numbers
  <2>1. \A l \in found : l.state \in Numbers
    BY <1>3 DEF Login
  <2>2. OFFLINE \in Numbers
    BY Symbols
  <2>3. CASE \E l \in found : l.id = id
    <3> DEFINE Q(l) == l.id = id
               x == CHOOSE l \in found : Q(l)
    <3>1. StateShown(id, found) = x.state
      BY <2>3 DEF StateShown
    <3>2. \E l \in found : Q(l)
      BY <2>3
    <3> HIDE DEF Q
    <3>3. x \in found
      BY <3>2
    <3>4. QED BY <2>1, <3>1, <3>3
  <2>4. CASE ~ \E l \in found : l.id = id
    BY <2>2, <2>4 DEF StateShown
  <2>5. QED BY <2>3, <2>4
<1>5. QED BY <1>3, <1>4 DEF found

\* What a client reads of a notice.
Notice(name, state) == Told(deal_state_notify(name, state))

\* A notice of a plain name is read as it was written, and any notice has
\* its type.
LEMMA NoticeRead ==
    ASSUME NEW name \in Text, NEW state \in Numbers
    PROVE  /\ Notice(name, state) \in [user_name : Text, state : Numbers]
           /\ Find(name, Semicolon) = 0 => Notice(name, state) = [user_name |-> name, state |-> state]
<1> DEFINE e == <<state>>
           t == Then(name, e)
<1>1. e \in Text
  BY Number
<1>2. t \in Text
  <2> HIDE DEF e
  <2>1. QED BY <1>1, ThenText
<1>3. Notice(name, state) = friend_online_state_deserialize(t)
  <2>1. 5000 \in Numbers
    BY Figures
  <2>2. FRIEND_ONLINE_STATE \in Numbers
    BY <2>1 DEF FRIEND_ONLINE_STATE
  <2> DEFINE k == FRIEND_ONLINE_STATE
  <2>3. Notice(name, state) = friend_online_state_deserialize(get_notify_type(Then(<<k>>, t)).strNotifyData)
    BY DEF Notice, Told, deal_state_notify
  <2> HIDE DEF t, k
  <2>4. k \in Numbers
    BY <2>2 DEF k
  <2>5. get_notify_type(Then(<<k>>, t)).strNotifyData = t
    BY <1>2, <2>4, Headed
  <2>6. QED BY <2>3, <2>5
<1>4. /\ deserialize_user_state(t) \in [user_name : Text, state : Numbers]
      /\ friend_online_state_deserialize(t) = deserialize_user_state(t)
      /\ \A nm \in Text, n \in Numbers :
            Find(nm, Semicolon) = 0 /\ t = Then(nm, <<n>>)
               => deserialize_user_state(t) = [user_name |-> nm, state |-> n]
  <2> HIDE DEF t
  <2>1. QED BY <1>2, NamedNumber
<1>5. Find(name, Semicolon) = 0 => deserialize_user_state(t) = [user_name |-> name, state |-> state]
  BY <1>4
<1>6. QED BY <1>3, <1>4, <1>5

\* A request is read without its number.
LEMMA RequestRead ==
    ASSUME NEW t \in Text
    PROVE  \A n \in {REGISTER, LOGIN, FRIEND_LIST, CHANGE_USER_STATE, SEND_MSG, QUIT} :
              Received(Then(<<n>>, t)) = t
<1> SUFFICES ASSUME NEW n \in {REGISTER, LOGIN, FRIEND_LIST, CHANGE_USER_STATE, SEND_MSG, QUIT}
             PROVE  Received(Then(<<n>>, t)) = t
  OBVIOUS
<1>1. n \in Numbers
  BY Symbols
<1>2. QED BY <1>1, Headed DEF Received

\* Who is told what.
LEMMA NotifyTells ==
    ASSUME users \in Seq(User), NEW name \in Text, NEW state \in Numbers, NEW sessions,
           Notify(name, state, sessions)
    PROVE  /\ posted' = None
           /\ \A c \in Clients : heard'[c] = None \/ heard'[c] = Notice(name, state)
           /\ \E id \in get_userid_by_username(name) : \A c \in Clients :
                 Hears(c, get_logininfos_by_userid(sessions, get_friendids_by_userid(id)))
                    => heard'[c] = Notice(name, state)
<1>1. PICK id \in get_userid_by_username(name) :
         /\ heard' = [c \in Clients |->
                IF Hears(c, get_logininfos_by_userid(sessions, get_friendids_by_userid(id)))
                THEN Notice(name, state) ELSE None]
         /\ posted' = None
  BY DEF Notify, Notice
<1>2. QED BY <1>1

\* The request to log in, as the server reads it.
LEMMA LogInRead ==
    ASSUME NEW name \in Text, NEW passwd \in Text, NEW port \in Numbers
    PROVE  LET form == [user_name |-> name, passwd |-> passwd, ip |-> Ip, port |-> port]
               read == analysis_login_msgdata(Received(login_serialize(form)))
           IN  /\ read \in [user_name : Text, passwd : Text, ip : Text, port : Numbers]
               /\ Find(name, Semicolon) = 0 /\ Find(passwd, Semicolon) = 0
                     => read.user_name = name /\ read.port = port
<1> DEFINE form == [user_name |-> name, passwd |-> passwd, ip |-> Ip, port |-> port]
           t4 == <<port>>
           t3 == Then(Ip, t4)
           t2 == Then(passwd, t3)
           t == Then(name, t2)
           read == analysis_login_msgdata(t)
<1>1. login_serialize(form) = Then(<<LOGIN>>, t)
  BY DEF login_serialize
<1>2. t4 \in Text
  BY Number
<1>3. t \in Text
  <2> HIDE DEF t4
  <2>1. t3 \in Text
    BY <1>2, Dotted, ThenText
  <2> HIDE DEF t3
  <2>2. t2 \in Text
    BY <2>1, ThenText
  <2> HIDE DEF t2
  <2>3. QED BY <2>2, ThenText
<1>4. Received(login_serialize(form)) = t
  <2> HIDE DEF t, form
  <2>1. QED BY <1>1, <1>3, RequestRead
<1>5. read \in [user_name : Text, passwd : Text, ip : Text, port : Numbers]
  <2> HIDE DEF t
  <2>1. QED BY <1>3, LoginType
<1>6. ASSUME Find(name, Semicolon) = 0, Find(passwd, Semicolon) = 0
      PROVE  read.user_name = name /\ read.port = port
  <2>1. read = [user_name |-> name, passwd |-> passwd, ip |-> Ip, port |-> port]
    BY <1>6, Dotted, LoginRead
  <2> HIDE DEF read
  <2>2. QED BY <2>1
<1> HIDE DEF t
<1>7. QED BY <1>4, <1>5, <1>6

(* The actions, one by one. *)

\* The sessions of a name.
Named(x) == {l \in Login : l.user_name = x}

\* The session of a name is the first one.
LEMMA SessionIsFirst ==
    ASSUME logins \in Seq(Login), NEW x
    PROVE  SessionOf(x) = First(logins, Named(x))
BY LoginsScanned DEF SessionOf, Named

\* Nobody hears anything, or what was posted.
HeardType == \A c \in Clients : heard[c] = None \/ IF posted = None
                                                   THEN heard[c] \in [user_name : Text, state : Numbers]
                                                   ELSE heard[c] \in Text

\* Unless a name or a password with a ";" was typed, the names have none.
NameInv == "name" \notin odd => \A c \in Clients : me[c] # None => Find(me[c], Semicolon) = 0

\* The name of a client that is logged in is a text that was typed.
LEMMA MeText ==
    ASSUME TypeOK, NEW c \in Clients, me[c] # None
    PROVE  me[c] \in Typed /\ me[c] \in Text
BY Typing DEF TypeOK

\* A login appends a session of some account, online, and tells of it; with
\* plain fields
\* it is one of the name that was typed, at the port of the client.
LEMMA LogInStep ==
    ASSUME TypeOK, NEW c \in Clients, NEW name \in Typed, NEW passwd \in Passwds, LogIn(c, name, passwd)
    PROVE  \E e \in Login :
              /\ logins' = Append(logins, e) /\ e.state = ONLINE
              /\ \E i \in DOMAIN users : users[i].id = e.user_id /\ users[i].user_name = e.user_name
              /\ Find(name, Semicolon) = 0 /\ Find(passwd, Semicolon) = 0
                    => e.user_name = name /\ e.port = Port[c]
              /\ Notify(e.user_name, ONLINE, logins')
<1> DEFINE form == [user_name |-> name, passwd |-> passwd, ip |-> Ip, port |-> Port[c]]
           read == analysis_login_msgdata(Received(login_serialize(form)))
           P == {u \in User : u.user_name = read.user_name /\ u.passwd = read.passwd}
           F == First(users, P)
<1>1. users \in Seq(User) /\ name \in Text /\ passwd \in Text /\ Port[c] \in Numbers
  BY Typing, Ports DEF TypeOK
<1>2. /\ read \in [user_name : Text, passwd : Text, ip : Text, port : Numbers]
      /\ Find(name, Semicolon) = 0 /\ Find(passwd, Semicolon) = 0
            => read.user_name = name /\ read.port = Port[c]
  <2> DEFINE p == Port[c]
  <2>1. p \in Numbers
    BY <1>1
  <2> HIDE DEF p
  <2>2. LET fm == [user_name |-> name, passwd |-> passwd, ip |-> Ip, port |-> p]
            rd == analysis_login_msgdata(Received(login_serialize(fm)))
        IN  /\ rd \in [user_name : Text, passwd : Text, ip : Text, port : Numbers]
            /\ Find(name, Semicolon) = 0 /\ Find(passwd, Semicolon) = 0
                  => rd.user_name = name /\ rd.port = p
    BY <1>1, <2>1, LogInRead
  <2>3. QED BY <2>2 DEF p
<1> HIDE DEF read
<1>3. FirstOf(users, LAMBDA u : u.user_name = read.user_name /\ u.passwd = read.passwd) = F
  <2>1. /\ Len(users) \in Nat /\ DOMAIN users = 1 .. Len(users)
        /\ \A i \in DOMAIN users : users[i] \in User /\ \A j \in 1 .. i - 1 : j \in DOMAIN users
    BY <1>1, Scan
  <2>2. QED BY <2>1 DEF FirstOf, First, FirstUpTo
<1>4. \E u \in F, n \in Garbage :
         /\ logins' = Append(logins, [id |-> n, user_id |-> u.id, user_name |-> read.user_name,
                                      port |-> read.port, state |-> ONLINE])
         /\ Notify(read.user_name, ONLINE, logins')
  BY <1>3 DEF LogIn, read
<1>5. \A v \in F : v \in P /\ v \in User /\ \E i \in DOMAIN users : users[i] = v
  <2> HIDE DEF P
  <2>1. QED BY <1>1, FoundFirst
<1> HIDE DEF F
<1>6. PICK u \in F, n \in Garbage :
         /\ logins' = Append(logins, [id |-> n, user_id |-> u.id, user_name |-> read.user_name,
                                      port |-> read.port, state |-> ONLINE])
         /\ Notify(read.user_name, ONLINE, logins')
  BY <1>4
<1> DEFINE e == [id |-> n, user_id |-> u.id, user_name |-> read.user_name,
                 port |-> read.port, state |-> ONLINE]
<1>7. n \in Numbers /\ u.id \in Numbers /\ ONLINE \in Numbers
  BY <1>5, Stray, Symbols DEF User
<1>8. e \in Login
  BY <1>2, <1>7 DEF Login
<1>9. \E i \in DOMAIN users : users[i].id = e.user_id /\ users[i].user_name = e.user_name
  BY <1>5
<1>10. e.state = ONLINE /\ e.user_name = read.user_name /\ e.port = read.port
  OBVIOUS
<1>11. logins' = Append(logins, e) /\ Notify(e.user_name, ONLINE, logins')
  BY <1>6
<1> HIDE DEF e
<1>12. QED BY <1>2, <1>8, <1>9, <1>10, <1>11

\* The state of the first session of a name is changed and nothing else.
Changed(s, nm, st) ==
    [i \in DOMAIN s |-> IF s[i] \in First(s, Named(nm)) /\ \A j \in 1 .. i - 1 : s[j] \notin First(s, Named(nm))
                        THEN [s[i] EXCEPT !.state = st] ELSE s[i]]

\* What a change of state does to each session and to the first ones.
LEMMA ChangedProps ==
    ASSUME NEW s \in Seq(Login), NEW nm, NEW st \in Numbers
    PROVE  /\ Changed(s, nm, st) \in Seq(Login) /\ DOMAIN Changed(s, nm, st) = DOMAIN s
           /\ \A i \in DOMAIN s :
                 LET l == Changed(s, nm, st)[i]
                 IN  /\ l.user_name = s[i].user_name /\ l.user_id = s[i].user_id /\ l.port = s[i].port
                     /\ l.state \in {st, s[i].state}
           /\ \A x : x # nm => First(Changed(s, nm, st), Named(x)) = First(s, Named(x))
           /\ First(s, Named(nm)) = {} <=> First(Changed(s, nm, st), Named(nm)) = {}
           /\ \A v \in First(Changed(s, nm, st), Named(nm)) : v.state = st
<1> DEFINE t == Changed(s, nm, st)
           F == First(s, Named(nm))
           At(q, i, x) == q[i].user_name = x /\ \A j \in 1 .. i - 1 : q[j].user_name # x
           n == Len(s)
<1>1. n \in Nat /\ DOMAIN s = 1 .. n /\ \A i \in 1 .. n : s[i] \in Login /\ \A j \in 1 .. i - 1 : j \in 1 .. n
  BY Scan
<1> HIDE DEF n
<1>2. \A i \in 1 .. n : t[i] = IF s[i] \in F /\ \A j \in 1 .. i - 1 : s[j] \notin F
                               THEN [s[i] EXCEPT !.state = st] ELSE s[i]
  BY <1>1 DEF Changed
<1>3. \A i \in 1 .. n : LET l == [s[i] EXCEPT !.state = st]
                         IN  /\ l \in Login /\ l.user_name = s[i].user_name
                             /\ l.user_id = s[i].user_id /\ l.port = s[i].port /\ l.state = st
  BY <1>1 DEF Login
<1>4. t \in [1 .. n -> Login]
  BY <1>1, <1>3 DEF Changed
<1>5. t \in Seq(Login) /\ Len(t) = n /\ DOMAIN t = 1 .. n
  <2> HIDE DEF t
  <2>1. QED BY <1>1, <1>4, SeqOf
<1>6. \A v \in F : v.user_name = nm
  <2> DEFINE P == Named(nm)
  <2>1. \A v \in P : v.user_name = nm
    BY DEF Named
  <2> HIDE DEF P
  <2>2. \A v \in First(s, P) : v \in P
    BY FoundFirst
  <2>3. QED BY <2>1, <2>2 DEF P
<1>7. \A i \in 1 .. n : /\ t[i].user_name = s[i].user_name /\ t[i].user_id = s[i].user_id
                        /\ t[i].port = s[i].port /\ t[i].state \in {st, s[i].state}
                        /\ t[i].user_name # nm => t[i] = s[i]
  <2> HIDE DEF t, F
  <2>1. QED BY <1>1, <1>2, <1>3, <1>6
<1>8. \A x : First(s, Named(x)) = {s[i] : i \in {i \in 1 .. n : At(s, i, x)}}
  BY <1>1 DEF First, FirstUpTo, Named, n
<1>9. \A x : First(t, Named(x)) = {t[i] : i \in {i \in 1 .. n : At(t, i, x)}}
  <2>1. \A i \in 1 .. n : t[i] \in Login
    BY <1>4
  <2> HIDE DEF t
  <2>2. QED BY <1>1, <1>5, <2>1 DEF First, FirstUpTo, Named
<1>10. \A x : \A i \in 1 .. n : At(t, i, x) <=> At(s, i, x)
  <2> SUFFICES ASSUME NEW x, NEW i \in 1 .. n PROVE At(t, i, x) <=> At(s, i, x)
    OBVIOUS
  <2> HIDE DEF t
  <2>1. \A j \in 1 .. i - 1 : t[j].user_name = s[j].user_name
    BY <1>1, <1>7
  <2>2. QED BY <1>7, <2>1
<1>11. \A x : x # nm => First(t, Named(x)) = First(s, Named(x))
  <2> SUFFICES ASSUME NEW x, x # nm PROVE First(t, Named(x)) = First(s, Named(x))
    OBVIOUS
  <2> HIDE DEF t
  <2>1. \A i \in 1 .. n : At(s, i, x) => t[i] = s[i]
    BY <1>7
  <2> HIDE DEF At
  <2>2. {i \in 1 .. n : At(t, i, x)} = {i \in 1 .. n : At(s, i, x)}
    BY <1>10
  <2> DEFINE I == {i \in 1 .. n : At(s, i, x)}
  <2>3. First(s, Named(x)) = {s[i] : i \in I} /\ First(t, Named(x)) = {t[i] : i \in I}
    BY <1>8, <1>9, <2>2
  <2>4. \A i \in I : t[i] = s[i]
    BY <2>1
  <2> HIDE DEF I
  <2>5. QED BY <2>3, <2>4
<1>12. F = {} <=> First(t, Named(nm)) = {}
  <2> HIDE DEF t, At
  <2>2. {i \in 1 .. n : At(t, i, nm)} = {i \in 1 .. n : At(s, i, nm)}
    BY <1>10
  <2> DEFINE I == {i \in 1 .. n : At(s, i, nm)}
  <2>3. F = {s[i] : i \in I} /\ First(t, Named(nm)) = {t[i] : i \in I}
    BY <1>8, <1>9, <2>2
  <2> HIDE DEF I
  <2>4. QED BY <2>3
<1>13. ASSUME NEW v \in First(t, Named(nm)) PROVE v.state = st
  <2>1. PICK i \in 1 .. n : v = t[i] /\ At(s, i, nm)
    <3> HIDE DEF t, At
    <3>1. QED BY <1>9, <1>10
  <2>2. s[i] \in F
    <3> HIDE DEF At
    <3>1. QED BY <1>8, <2>1
  <2>3. \A j \in 1 .. i - 1 : s[j] \notin F
    BY <1>6, <2>1
  <2>4. t[i] = [s[i] EXCEPT !.state = st]
    BY <1>2, <2>2, <2>3
  <2>5. QED BY <1>3, <2>1, <2>4
<1>14. QED BY <1>1, <1>5, <1>7, <1>11, <1>12, <1>13

\* The states that can be chosen from.
Chosen4 == {ONLINE, OFFLINE, LEAVE, BUSY}

\* A change of state: the state of the name that was read, and a notice of
\* it.
LEMMA ModifyStep ==
    ASSUME TypeOK, NEW c \in Clients, NEW word, Modify(c, word)
    PROVE  \E nm \in Text, st \in Numbers :
              /\ logins' = Changed(logins, nm, st)
              /\ Notify(nm, st, logins')
              /\ Find(me[c], Semicolon) = 0 => nm = me[c] /\ (word \in Known => st \in Chosen4)
<1>1. logins \in Seq(Login) /\ me[c] \in Text
  <2>1. me[c] # None
    BY DEF Modify, TypeOK
  <2>2. QED BY <2>1, MeText DEF TypeOK
<1>2. PICK state \in Meaning(word) :
         LET read == deserialize_user_state(Received(serialize_user_state(me[c], state)))
             own  == SessionOf(read.user_name)
         IN  /\ logins' = [i \in DOMAIN logins |->
                              IF logins[i] \in own /\ \A j \in 1 .. i - 1 : logins[j] \notin own
                              THEN [logins[i] EXCEPT !.state = read.state] ELSE logins[i]]
             /\ Notify(read.user_name, read.state, logins')
  BY DEF Modify
<1>3. state \in Numbers /\ (word \in Known => state \in Chosen4)
  <2>1. Garbage \subseteq Numbers /\ {ONLINE, OFFLINE, LEAVE, BUSY, NOT_DISTURB} \subseteq Numbers
    BY Stray, Symbols
  <2>2. Meaning(word) \subseteq Numbers
    BY <2>1 DEF Meaning
  <2>3. word \in Known => state \in Chosen4
    BY <1>2 DEF Meaning, Known, Chosen4
  <2>4. QED BY <2>2, <2>3
<1> DEFINE e == <<state>>
           t == Then(me[c], e)
           read == deserialize_user_state(t)
<1>4. t \in Text
  <2>1. e \in Text
    BY <1>3, Number
  <2> HIDE DEF e
  <2>2. QED BY <1>1, <2>1, ThenText
<1>5. deserialize_user_state(Received(serialize_user_state(me[c], state))) = read
  <2>1. serialize_user_state(me[c], state) = Then(<<CHANGE_USER_STATE>>, t)
    BY DEF serialize_user_state
  <2> HIDE DEF t
  <2>2. Received(Then(<<CHANGE_USER_STATE>>, t)) = t
    BY <1>4, RequestRead
  <2>3. QED BY <2>1, <2>2
<1>6. read \in [user_name : Text, state : Numbers]
  <2> HIDE DEF t
  <2>1. QED BY <1>4, NamedNumber
<1>7. Find(me[c], Semicolon) = 0 => read = [user_name |-> me[c], state |-> state]
  <2>1. \A name \in Text, n \in Numbers :
           Find(name, Semicolon) = 0 /\ t = Then(name, <<n>>)
              => deserialize_user_state(t) = [user_name |-> name, state |-> n]
    <3> HIDE DEF t
    <3>1. QED BY <1>4, NamedNumber
  <2>2. QED BY <1>1, <1>3, <2>1
<1> HIDE DEF read
<1> DEFINE nm == read.user_name
           st == read.state
<1>8. /\ logins' = Changed(logins, nm, st)
      /\ Notify(nm, st, logins')
  <2>1. SessionOf(nm) = First(logins, Named(nm))
    BY <1>1, SessionIsFirst
  <2>2. QED BY <1>2, <1>5, <2>1 DEF Changed
<1>9. nm \in Text /\ st \in Numbers
  BY <1>6
<1>10. Find(me[c], Semicolon) = 0 => nm = me[c] /\ st = state
  BY <1>7
<1> HIDE DEF nm, st
<1>11. QED BY <1>3, <1>8, <1>9, <1>10

\* What is left when all the sessions of a name are gone.
Gone(s, nm) == Only(s, {l \in Login : l.user_name # nm})

\* A quit removes all the sessions of the name and tells of it.
LEMMA QuitStep ==
    ASSUME TypeOK, NEW c \in Clients, Quit(c)
    PROVE  /\ me[c] \in Text
           /\ logins' = Gone(logins, me[c])
           /\ Notify(me[c], OFFLINE, logins')
<1>1. me[c] \in Text
  <2>1. me[c] # None
    BY DEF Quit, TypeOK
  <2>2. QED BY <2>1, MeText
<1> DEFINE t == me[c]
<1>2. Received(serialize_quit(t)) = t
  <2>1. serialize_quit(t) = Then(<<QUIT>>, t)
    BY DEF serialize_quit
  <2>2. t \in Text
    BY <1>1
  <2> HIDE DEF t
  <2>3. Received(Then(<<QUIT>>, t)) = t
    BY <2>2, RequestRead
  <2>4. QED BY <2>1, <2>3
<1>3. QED BY <1>1, <1>2 DEF Quit, Gone

\* What a quit leaves of the sessions, and of the first ones.
LEMMA GoneProps ==
    ASSUME NEW s \in Seq(Login), NEW nm
    PROVE  /\ Gone(s, nm) \in Seq(Login)
           /\ \A i \in DOMAIN Gone(s, nm) :
                 Gone(s, nm)[i].user_name # nm /\ \E j \in DOMAIN s : Gone(s, nm)[i] = s[j]
           /\ \A x : x # nm => First(Gone(s, nm), Named(x)) = First(s, Named(x))
           /\ First(Gone(s, nm), Named(nm)) = {}
<1> DEFINE T == {l \in Login : l.user_name # nm}
           t == Only(s, T)
<1>1. /\ t \in Seq(Login) /\ Keeps(t, s, T) /\ KeepsFirst(t, s, Login, T)
  <2> DEFINE S == Login
  <2>1. s \in Seq(S)
    OBVIOUS
  <2> HIDE DEF S, T
  <2>2. Only(s, T) \in Seq(S) /\ Keeps(Only(s, T), s, T) /\ KeepsFirst(Only(s, T), s, S, T)
    BY <2>1, OnlyProps
  <2>3. QED BY <2>2 DEF S
<1> HIDE DEF t
<1>2. DOMAIN t = 1 .. Len(t) /\ DOMAIN s = 1 .. Len(s)
  BY <1>1, Scan
<1>3. \A i \in DOMAIN t : t[i].user_name # nm /\ \E j \in DOMAIN s : t[i] = s[j]
  BY <1>1, <1>2 DEF Keeps
<1>4. ASSUME NEW x, x # nm PROVE First(t, Named(x)) = First(s, Named(x))
  <2>1. Named(x) \cap Login \subseteq T
    BY <1>4 DEF Named
  <2> HIDE DEF T
  <2>2. QED BY <1>1, <2>1 DEF KeepsFirst
<1>5. First(t, Named(nm)) = {}
  <2> DEFINE P == Named(nm)
  <2>1. \A v \in P : v.user_name = nm
    BY DEF Named
  <2> HIDE DEF P
  <2>2. \A v \in First(t, P) : v \in P /\ \E i \in DOMAIN t : t[i] = v
    BY <1>1, FoundFirst
  <2>3. First(t, P) = {}
    BY <1>3, <2>1, <2>2
  <2>4. QED BY <2>3 DEF P
<1>6. QED BY <1>1, <1>3, <1>4, <1>5 DEF t, Gone

\* The rows of an answer.
RowsFor(id) ==
    LET ids   == get_friendids_by_userid(id)
        found == get_friendstates_by_userid(ids)
        infos == get_friendinfo_by_userid(ids)
    IN  [k \in DOMAIN infos |-> [id |-> infos[k].id, user_name |-> infos[k].user_name,
                                 state |-> StateShown(infos[k].id, found)]]

\* The rows are as many as the friends, in their order, each of an account.
LEMMA RowsType ==
    ASSUME UsersInv, logins \in Seq(Login), NEW id
    PROVE  /\ RowsFor(id) \in Seq(Row)
           /\ DOMAIN RowsFor(id) = DOMAIN get_friendids_by_userid(id)
           /\ Len(RowsFor(id)) = Len(get_friendids_by_userid(id))
           /\ \A k \in DOMAIN RowsFor(id) :
                 /\ RowsFor(id)[k].id = get_friendids_by_userid(id)[k]
                 /\ \E i \in DOMAIN users : /\ users[i].id = RowsFor(id)[k].id
                                            /\ users[i].user_name = RowsFor(id)[k].user_name
<1> DEFINE ids == get_friendids_by_userid(id)
           found == get_friendstates_by_userid(ids)
           infos == get_friendinfo_by_userid(ids)
           n == Len(ids)
           g == RowsFor(id)
<1>1. ids \in Seq(Ids)
  BY FriendIds
<1> HIDE DEF ids
<1>2. n \in Nat /\ DOMAIN ids = 1 .. n
  BY <1>1, Scan
<1>3. /\ infos \in Seq(User) /\ Len(infos) = n
      /\ \A k \in 1 .. n : infos[k].id = ids[k] /\ \E i \in DOMAIN users : users[i] = infos[k]
  BY <1>1, <1>2, FriendInfos
<1>4. \A x : StateShown(x, found) \in Numbers
  BY FriendStates
<1> HIDE DEF infos, found, n
<1>5. DOMAIN infos = 1 .. n /\ \A k \in 1 .. n : infos[k] \in User
  <2>1. DOMAIN infos = 1 .. Len(infos) /\ \A k \in DOMAIN infos : infos[k] \in User
    BY <1>3, Scan
  <2>2. QED BY <1>3, <2>1
<1>6. g = [k \in 1 .. n |-> [id |-> infos[k].id, user_name |-> infos[k].user_name,
                             state |-> StateShown(infos[k].id, found)]]
  BY <1>5 DEF RowsFor, infos, found, ids
<1> HIDE DEF g
<1>7. \A k \in 1 .. n : g[k] \in Row
  BY <1>4, <1>5, <1>6 DEF Row, User
<1>8. g \in Seq(Row) /\ Len(g) = n /\ DOMAIN g = 1 .. n
  <2>1. g \in [1 .. n -> Row]
    BY <1>6, <1>7
  <2>2. QED BY <1>2, <2>1, SeqOf
<1>9. \A k \in 1 .. n : /\ g[k].id = ids[k]
                        /\ \E i \in DOMAIN users : users[i].id = g[k].id /\ users[i].user_name = g[k].user_name
  BY <1>3, <1>6
<1>10. QED BY <1>2, <1>8, <1>9 DEF g, ids, n

\* A request for the list: the rows of the session's account, or of any
\* number when
\* there is no session, written and read.
LEMMA ListStep ==
    ASSUME TypeOK, NEW c \in Clients, get_friend_list(c)
    PROVE  /\ me[c] \in Text
           /\ \E id \in IF SessionOf(me[c]) = {} THEN Garbage ELSE {l.user_id : l \in SessionOf(me[c])} :
                 f_lists' = [f_lists EXCEPT ![c] = friend_list_deserialize(serialize_string(RowsFor(id)))]
           /\ guessed' = IF SessionOf(me[c]) = {} THEN guessed \cup {c} ELSE guessed
<1>1. me[c] \in Text
  BY MeText DEF get_friend_list
<1> DEFINE t == me[c]
<1>2. Received(friend_list_serialize(t)) = t
  <2>1. friend_list_serialize(t) = Then(<<FRIEND_LIST>>, t)
    BY DEF friend_list_serialize
  <2>2. t \in Text
    BY <1>1
  <2> HIDE DEF t
  <2>3. Received(Then(<<FRIEND_LIST>>, t)) = t
    BY <2>2, RequestRead
  <2>4. QED BY <2>1, <2>3
<1>3. QED BY <1>1, <1>2 DEF get_friend_list, RowsFor

\* A message goes to the session of the name that the client's list has for
\* the number.
LEMMA SendStep ==
    ASSUME TypeOK, NEW c \in Clients, NEW n \in Numbers, NEW text \in Texts, Send(c, n, text)
    PROVE  /\ posted' = [id |-> n, text |-> text] /\ posted' # None
           /\ \E name \in is_user_exist(f_lists[c], n) :
                 /\ name \in Text
                 /\ \A d \in Clients : heard'[d] = None \/ heard'[d] \in Text
                 /\ Find(name, Semicolon) = 0 =>
                       \A d \in Clients : heard'[d] = IF Hears(d, SessionOf(name)) THEN text ELSE None
<1>1. f_lists[c] \in Seq(Row)
  BY DEF Send, TypeOK
<1>2. text \in Text /\ posted' = [id |-> n, text |-> text] /\ posted' # None
  BY Typing DEF Send
<1>3. \A name \in is_user_exist(f_lists[c], n) : name \in Text
  <2> DEFINE P == {r \in Row : r.id = n}
             s == f_lists[c]
  <2>1. is_user_exist(s, n) = {f.user_name : f \in First(s, P)}
    BY <1>1, RowsScanned DEF is_user_exist
  <2> HIDE DEF P, s
  <2>2. \A v \in First(s, P) : v \in Row
    <3>1. s \in Seq(Row)
      BY <1>1 DEF s
    <3>2. QED BY <3>1, FoundFirst
  <2>3. \A v \in First(s, P) : v.user_name \in Text
    BY <2>2 DEF Row
  <2>4. QED BY <2>1, <2>3 DEF s
<1>4. PICK name \in is_user_exist(f_lists[c], n) :
         LET read   == deserialize_user_msg(Received(sendmsg_serialize(text, name)))
             notice == deal_send_msg(read.user_msg)
         IN  heard' = [d \in Clients |-> IF Hears(d, SessionOf(read.user_name))
                                         THEN get_notify_type(notice).strNotifyData
                                         ELSE None]
  BY DEF Send
<1> DEFINE t == Then(name, text)
           read == deserialize_user_msg(t)
           data == get_notify_type(deal_send_msg(read.user_msg)).strNotifyData
<1>5. name \in Text /\ t \in Text
  BY <1>2, <1>3, ThenText
<1>6. deserialize_user_msg(Received(sendmsg_serialize(text, name))) = read
  <2>1. sendmsg_serialize(text, name) = Then(<<SEND_MSG>>, t)
    BY DEF sendmsg_serialize
  <2> HIDE DEF t
  <2>2. Received(Then(<<SEND_MSG>>, t)) = t
    BY <1>5, RequestRead
  <2>3. QED BY <2>1, <2>2
<1>7. heard' = [d \in Clients |-> IF Hears(d, SessionOf(read.user_name)) THEN data ELSE None]
  BY <1>4, <1>6
<1>8. read.user_msg \in Text
  <2>1. read.user_msg = After(t, Semicolon)
    BY DEF deserialize_user_msg
  <2> HIDE DEF t
  <2>2. QED BY <1>5, <2>1, CutTexts
<1>9. Find(name, Semicolon) = 0 => read.user_name = name /\ read.user_msg = text
  BY <1>2, <1>5, NamedText
<1> DEFINE m == read.user_msg
<1>10. data = m
  <2> DEFINE k == MESSAGE_INFORMATION
  <2>1. data = get_notify_type(Then(<<k>>, m)).strNotifyData /\ m \in Text
    BY <1>8 DEF deal_send_msg
  <2>2. k \in Numbers
    BY Symbols
  <2> HIDE DEF k, m, data
  <2>3. QED BY <2>1, <2>2, Headed
<1> HIDE DEF read, data
<1>11. \A d \in Clients : heard'[d] = IF Hears(d, SessionOf(read.user_name)) THEN read.user_msg ELSE None
  BY <1>7, <1>10
<1>12. QED BY <1>2, <1>5, <1>8, <1>9, <1>11

(* Types. *)

\* Types, with what they need to know of the accounts and the names.
TypeInv == TypeOK /\ UsersInv /\ NameInv

\* The parts of TypeOK that most actions leave alone.
Kept4(v, w, f, g) == /\ v \in [Clients -> Typed \cup {None}]
                     /\ f \in [Clients -> {None} \cup Seq(Row)]
                     /\ \A c \in Clients : f[c] # None => v[c] # None
                     /\ g \in SUBSET Clients /\ w \in SUBSET {"word", "name"}

\* The states of the sessions are those that can be chosen.
StatesOK(s) == \A i \in DOMAIN s : s[i].state \in Chosen4

\* TypeOK by its parts.
LEMMA TypeParts ==
    TypeOK <=> /\ users \in Seq(User) /\ logins \in Seq(Login)
               /\ Kept4(me, odd, f_lists, guessed) /\ HeardType
               /\ posted = None \/ posted \in [id : Numbers, text : Texts]
               /\ odd = {} => StatesOK(logins)
BY DEF TypeOK, Kept4, HeardType, StatesOK, Chosen4

\* TypeOK by its parts, after a step.
LEMMA TypePartsNext ==
    TypeOK' <=> /\ users' \in Seq(User) /\ logins' \in Seq(Login)
                /\ Kept4(me', odd', f_lists', guessed') /\ HeardType'
                /\ posted' = None \/ posted' \in [id : Numbers, text : Texts]
                /\ odd' = {} => StatesOK(logins')
BY DEF TypeOK, Kept4, HeardType, StatesOK, Chosen4

\* Nobody hears anything.
LEMMA SilentType ==
    ASSUME Silent
    PROVE  HeardType' /\ posted' = None
BY DEF Silent, HeardType

\* What is heard of a notice is a name and a state.
LEMMA NotifyType ==
    ASSUME users \in Seq(User), NEW name \in Text, NEW state \in Numbers, NEW sessions,
           Notify(name, state, sessions)
    PROVE  HeardType' /\ posted' = None
<1>1. posted' = None /\ \A c \in Clients : heard'[c] = None \/ heard'[c] = Notice(name, state)
  BY NotifyTells
<1>2. Notice(name, state) \in [user_name : Text, state : Numbers]
  BY NoticeRead
<1>3. QED BY <1>1, <1>2 DEF HeardType

\* What is read from a registration are texts.
LEMMA RegisterText ==
    ASSUME NEW name \in Text, NEW passwd \in Text
    PROVE  LET form == [user_name |-> name, passwd |-> passwd, sex |-> Profile.sex,
                        birth |-> Profile.birth, hometown |-> Profile.hometown]
           IN  analysis_register_msgdata(Received(register_serialize(form))) \in
                 [user_name : Text, passwd : Text, sex : Text, birth : Text, hometown : Text]
<1> DEFINE form == [user_name |-> name, passwd |-> passwd, sex |-> Profile.sex,
                    birth |-> Profile.birth, hometown |-> Profile.hometown]
           t4 == Then(Profile.birth, Profile.hometown)
           t3 == Then(Profile.sex, t4)
           t2 == Then(passwd, t3)
           t == Then(name, t2)
<1>1. register_serialize(form) = Then(<<REGISTER>>, t)
  BY DEF register_serialize
<1>2. Profile.sex \in Text /\ Profile.birth \in Text /\ Profile.hometown \in Text
  BY Typing
<1>3. t4 \in Text
  BY <1>2, ThenText
<1> HIDE DEF t4
<1>4. t3 \in Text
  BY <1>2, <1>3, ThenText
<1> HIDE DEF t3
<1>5. t2 \in Text
  BY <1>4, ThenText
<1> HIDE DEF t2
<1>6. t \in Text
  BY <1>5, ThenText
<1> HIDE DEF t, form
<1>7. Received(Then(<<REGISTER>>, t)) = t
  BY <1>6, RequestRead
<1>8. analysis_register_msgdata(t) \in
        [user_name : Text, passwd : Text, sex : Text, birth : Text, hometown : Text]
  BY <1>6, RegisterType
<1>9. QED BY <1>1, <1>7, <1>8 DEF form

\* A registration appends an account.
LEMMA RegisterStep ==
    ASSUME NEW c, NEW name \in Chosen, NEW passwd \in Passwds, Register(c, name, passwd)
    PROVE  \E e \in User : users' = Append(users, e)
<1> DEFINE form == [user_name |-> name, passwd |-> passwd, sex |-> Profile.sex,
                    birth |-> Profile.birth, hometown |-> Profile.hometown]
           read == analysis_register_msgdata(Received(register_serialize(form)))
<1>1. name \in Text /\ passwd \in Text
  BY Typing
<1>2. read \in [user_name : Text, passwd : Text, sex : Text, birth : Text, hometown : Text]
  BY <1>1, RegisterText
<1> HIDE DEF read
<1>3. PICK n \in Garbage : users' = Append(users, [id |-> n, user_name |-> read.user_name,
                                passwd |-> read.passwd, sex |-> read.sex, birth |-> read.birth,
                                hometown |-> read.hometown])
  BY DEF Register, read
<1>4. n \in Numbers
  BY Stray
<1> DEFINE e == [id |-> n, user_name |-> read.user_name, passwd |-> read.passwd, sex |-> read.sex,
                 birth |-> read.birth, hometown |-> read.hometown]
<1>5. e \in User
  BY <1>2, <1>4 DEF User
<1>6. users' = Append(users, e)
  BY <1>3
<1> HIDE DEF e
<1>7. QED BY <1>5, <1>6

\* The types hold at the start.
LEMMA TypeInit == ASSUME Init PROVE TypeInv
<1>1. TypeOK
  <2>1. users \in Seq(User) /\ logins \in Seq(Login) /\ DOMAIN logins = {}
    BY Table DEF Init
  <2>2. Kept4(me, odd, f_lists, guessed) /\ HeardType /\ posted = None
    BY DEF Init, Kept4, HeardType
  <2>3. StatesOK(logins)
    BY <2>1 DEF StatesOK
  <2>4. QED BY <2>1, <2>2, <2>3, TypeParts
<1>2. UsersInv
  <2>1. Len(Stored) \in Nat
    BY Table, Scan
  <2>2. QED BY <2>1, Table DEF Init, UsersInv
<1>3. NameInv
  BY DEF Init, NameInv
<1>4. QED BY <1>1, <1>2, <1>3 DEF TypeInv

\* The types hold when nothing happens.
LEMMA TypeStutter == ASSUME TypeInv, UNCHANGED vars PROVE TypeInv'
BY DEF TypeInv, TypeOK, UsersInv, NameInv, vars

\* The types after a registration.
LEMMA RegisterTypes ==
    ASSUME TypeInv, NEW c, NEW name \in Chosen, NEW passwd \in Passwds, Register(c, name, passwd)
    PROVE  TypeInv'
<1>1. PICK e \in User : users' = Append(users, e)
  BY RegisterStep
<1>2. /\ users \in Seq(User) /\ logins \in Seq(Login) /\ Kept4(me, odd, f_lists, guessed)
      /\ odd = {} => StatesOK(logins)
  BY TypeParts DEF TypeInv
<1>3. /\ users' \in Seq(User) /\ Len(users') = Len(users) + 1 /\ Len(users) \in Nat
      /\ \A i \in 1 .. Len(users) : users'[i] = users[i]
  BY <1>1, <1>2, Appended
<1>4. UNCHANGED <<logins, me, f_lists, guessed, odd>> /\ Silent
  BY DEF Register
<1>5. HeardType' /\ posted' = None
  BY <1>4, SilentType
<1>6. TypeOK'
  BY <1>2, <1>3, <1>4, <1>5, TypePartsNext
<1>7. UsersInv'
  <2>1. Len(Stored) \in Nat /\ DOMAIN Stored = 1 .. Len(Stored) /\ Len(Stored) <= Len(users)
    BY Table, Scan DEF TypeInv, UsersInv
  <2>2. \A i \in DOMAIN Stored : i \in 1 .. Len(users) /\ users[i] = Stored[i]
    BY <1>3, <2>1 DEF TypeInv, UsersInv
  <2>3. Len(Stored) <= Len(users')
    BY <1>3, <2>1
  <2>4. QED BY <1>3, <2>2, <2>3 DEF UsersInv
<1>8. NameInv'
  BY <1>4 DEF TypeInv, NameInv
<1>9. QED BY <1>6, <1>7, <1>8 DEF TypeInv

\* The types after a login.
LEMMA LogInTypes ==
    ASSUME TypeInv, NEW c \in Clients, NEW name \in Typed, NEW passwd \in Passwds,
           LogIn(c, name, passwd)
    PROVE  TypeInv'
<1>1. /\ users \in Seq(User) /\ logins \in Seq(Login) /\ Kept4(me, odd, f_lists, guessed)
      /\ odd = {} => StatesOK(logins)
  BY TypeParts DEF TypeInv
<1>2. PICK e \in Login : /\ logins' = Append(logins, e) /\ e.state = ONLINE
                         /\ Notify(e.user_name, ONLINE, logins')
  BY LogInStep DEF TypeInv
<1>3. /\ me[c] = None /\ me' = [me EXCEPT ![c] = name]
      /\ odd' = odd \cup {o \in {"name"} : Find(name, Semicolon) # 0 \/ Find(passwd, Semicolon) # 0}
      /\ UNCHANGED <<users, f_lists, guessed>>
  BY DEF LogIn
<1>4. /\ logins' \in Seq(Login) /\ Len(logins') = Len(logins) + 1 /\ Len(logins) \in Nat
      /\ (\A i \in 1 .. Len(logins) : logins'[i] = logins[i]) /\ logins'[Len(logins) + 1] = e
  BY <1>1, <1>2, Appended
<1>5. HeardType' /\ posted' = None
  <2> DEFINE nm == e.user_name
             st == ONLINE
             ss == logins'
  <2>1. nm \in Text /\ st \in Numbers /\ Notify(nm, st, ss)
    BY <1>2, Symbols DEF Login
  <2> HIDE DEF nm, st, ss
  <2>2. QED BY <1>1, <2>1, NotifyType
<1>6. Kept4(me', odd', f_lists', guessed')
  BY <1>1, <1>3 DEF Kept4
<1>7. odd' = {} => StatesOK(logins')
  <2> SUFFICES ASSUME odd' = {}, NEW i \in DOMAIN logins' PROVE logins'[i].state \in Chosen4
    BY DEF StatesOK
  <2>1. odd = {}
    BY <1>3
  <2>2. i \in 1 .. Len(logins) + 1 /\ DOMAIN logins = 1 .. Len(logins)
    BY <1>1, <1>4, Scan
  <2>3. CASE i \in 1 .. Len(logins)
    BY <1>1, <1>4, <2>1, <2>2, <2>3 DEF StatesOK
  <2>4. CASE i \notin 1 .. Len(logins)
    <3>1. i = Len(logins) + 1
      BY <1>4, <2>2, <2>4
    <3>2. QED BY <1>2, <1>4, <3>1 DEF Chosen4
  <2>5. QED BY <2>3, <2>4
<1>8. TypeOK'
  BY <1>1, <1>3, <1>4, <1>5, <1>6, <1>7, TypePartsNext
<1>9. UsersInv'
  BY <1>3 DEF TypeInv, UsersInv
<1>10. NameInv'
  <2> SUFFICES ASSUME "name" \notin odd', NEW d \in Clients, me'[d] # None PROVE Find(me'[d], Semicolon) = 0
    BY DEF NameInv
  <2>1. me \in [Clients -> Typed \cup {None}]
    BY <1>1 DEF Kept4
  <2>2. "name" \notin odd /\ Find(name, Semicolon) = 0
    BY <1>3
  <2>3. CASE d = c
    BY <1>3, <2>1, <2>2, <2>3
  <2>4. CASE d # c
    BY <1>3, <2>1, <2>2, <2>4 DEF TypeInv, NameInv
  <2>5. QED BY <2>3, <2>4
<1>11. QED BY <1>8, <1>9, <1>10 DEF TypeInv

\* The types after a request for the list.
LEMMA ListTypes ==
    ASSUME TypeInv, NEW c \in Clients, get_friend_list(c)
    PROVE  TypeInv'
<1>1. /\ users \in Seq(User) /\ logins \in Seq(Login) /\ Kept4(me, odd, f_lists, guessed)
      /\ odd = {} => StatesOK(logins)
  BY TypeParts DEF TypeInv
<1>2. me[c] # None /\ Silent /\ UNCHANGED <<users, logins, me, odd>>
  BY DEF get_friend_list
<1>3. PICK id : f_lists' = [f_lists EXCEPT ![c] = friend_list_deserialize(serialize_string(RowsFor(id)))]
  BY ListStep DEF TypeInv
<1> DEFINE l == friend_list_deserialize(serialize_string(RowsFor(id)))
<1>4. l \in Seq(Row)
  <2> DEFINE rows == RowsFor(id)
             t == serialize_string(rows)
  <2>1. rows \in Seq(Row)
    BY <1>1, RowsType DEF TypeInv
  <2> HIDE DEF rows
  <2>2. t \in Text
    BY <2>1, ListText
  <2> HIDE DEF t
  <2>3. friend_list_deserialize(t) \in Seq(Row)
    BY <2>2, ListType
  <2>4. QED BY <2>3 DEF t, rows
<1> HIDE DEF l
<1>5. f_lists' = [f_lists EXCEPT ![c] = l]
  BY <1>3 DEF l
<1>6. guessed' \in SUBSET Clients
  <2>1. guessed' = guessed \cup {c} \/ guessed' = guessed
    BY ListStep DEF TypeInv
  <2>2. QED BY <1>1, <2>1 DEF Kept4
<1>7. Kept4(me', odd', f_lists', guessed')
  <2>1. ASSUME NEW d \in Clients
        PROVE  f_lists'[d] \in {None} \cup Seq(Row) /\ (f_lists'[d] # None => me[d] # None)
    <3>1. f_lists'[d] = f_lists[d] \/ (d = c /\ f_lists'[d] = l)
      BY <1>5
    <3>2. QED BY <1>1, <1>2, <1>4, <3>1 DEF Kept4
  <2> DEFINE S == {None} \cup Seq(Row)
  <2>2. f_lists \in [Clients -> S] /\ l \in S
    BY <1>1, <1>4 DEF Kept4
  <2> HIDE DEF S
  <2>3. f_lists' \in [Clients -> S]
    BY <1>5, <2>2
  <2>4. QED BY <1>1, <1>2, <1>6, <2>1, <2>3 DEF Kept4, S
<1>8. HeardType' /\ posted' = None
  BY <1>2, SilentType
<1>9. TypeOK'
  BY <1>1, <1>2, <1>7, <1>8, TypePartsNext
<1>10. UsersInv' /\ NameInv'
  BY <1>2 DEF TypeInv, UsersInv, NameInv
<1>11. QED BY <1>9, <1>10 DEF TypeInv

\* The types after a change of state.
LEMMA ModifyTypes ==
    ASSUME TypeInv, NEW c \in Clients, NEW word \in StateWords, Modify(c, word)
    PROVE  TypeInv'
<1>1. /\ users \in Seq(User) /\ logins \in Seq(Login) /\ Kept4(me, odd, f_lists, guessed)
      /\ odd = {} => StatesOK(logins)
  BY TypeParts DEF TypeInv
<1>2. /\ f_lists[c] # None /\ UNCHANGED <<users, me, f_lists, guessed>>
      /\ odd' = odd \cup {o \in {"word"} : word \notin Known}
  BY DEF Modify
<1>3. PICK nm \in Text, st \in Numbers :
         /\ logins' = Changed(logins, nm, st) /\ Notify(nm, st, logins')
         /\ Find(me[c], Semicolon) = 0 => nm = me[c] /\ (word \in Known => st \in Chosen4)
  BY ModifyStep DEF TypeInv
<1>4. /\ logins' \in Seq(Login) /\ DOMAIN logins' = DOMAIN logins
      /\ \A i \in DOMAIN logins : logins'[i].state \in {st, logins[i].state}
  BY <1>1, <1>3, ChangedProps
<1>5. HeardType' /\ posted' = None
  <2> DEFINE ss == logins'
  <2>1. Notify(nm, st, ss)
    BY <1>3
  <2> HIDE DEF ss
  <2>2. QED BY <1>1, <2>1, NotifyType
<1>6. Kept4(me', odd', f_lists', guessed')
  BY <1>1, <1>2 DEF Kept4
<1>7. odd' = {} => StatesOK(logins')
  <2> SUFFICES ASSUME odd' = {}, NEW i \in DOMAIN logins' PROVE logins'[i].state \in Chosen4
    BY DEF StatesOK
  <2>1. odd = {} /\ word \in Known
    BY <1>2
  <2>2. me[c] # None
    BY <1>1, <1>2 DEF Kept4
  <2>3. Find(me[c], Semicolon) = 0
    BY <2>1, <2>2 DEF TypeInv, NameInv
  <2>4. st \in Chosen4
    BY <1>3, <2>1, <2>3
  <2>5. logins[i].state \in Chosen4
    BY <1>1, <1>4, <2>1 DEF StatesOK
  <2>6. QED BY <1>4, <2>4, <2>5
<1>8. TypeOK'
  BY <1>1, <1>2, <1>4, <1>5, <1>6, <1>7, TypePartsNext
<1>9. UsersInv' /\ NameInv'
  BY <1>2 DEF TypeInv, UsersInv, NameInv
<1>10. QED BY <1>8, <1>9 DEF TypeInv

\* The types after a message.
LEMMA SendTypes ==
    ASSUME TypeInv, NEW c \in Clients, NEW n \in Numbers, NEW text \in Texts, Send(c, n, text)
    PROVE  TypeInv'
<1>1. /\ users \in Seq(User) /\ logins \in Seq(Login) /\ Kept4(me, odd, f_lists, guessed)
      /\ odd = {} => StatesOK(logins)
  BY TypeParts DEF TypeInv
<1>2. UNCHANGED <<users, logins, me, f_lists, guessed, odd>>
  BY DEF Send
<1>3. /\ posted' = [id |-> n, text |-> text] /\ posted' # None
      /\ \A d \in Clients : heard'[d] = None \/ heard'[d] \in Text
  BY SendStep DEF TypeInv
<1>4. HeardType'
  BY <1>3 DEF HeardType
<1>5. TypeOK'
  BY <1>1, <1>2, <1>3, <1>4, TypePartsNext
<1>6. UsersInv' /\ NameInv'
  BY <1>2 DEF TypeInv, UsersInv, NameInv
<1>7. QED BY <1>5, <1>6 DEF TypeInv

\* The types after a quit.
LEMMA QuitTypes ==
    ASSUME TypeInv, NEW c \in Clients, Quit(c)
    PROVE  TypeInv'
<1>1. /\ users \in Seq(User) /\ logins \in Seq(Login) /\ Kept4(me, odd, f_lists, guessed)
      /\ odd = {} => StatesOK(logins)
  BY TypeParts DEF TypeInv
<1> DEFINE nm == me[c]
<1>2. /\ nm \in Text /\ logins' = Gone(logins, nm)
      /\ Notify(nm, OFFLINE, logins')
  BY QuitStep DEF TypeInv
<1>3. /\ me' = [me EXCEPT ![c] = None] /\ f_lists' = [f_lists EXCEPT ![c] = None]
      /\ guessed' = guessed \ {c} /\ UNCHANGED <<users, odd>>
  BY DEF Quit
<1> HIDE DEF nm
<1>4. logins' \in Seq(Login) /\ \A i \in DOMAIN logins' : \E j \in DOMAIN logins : logins'[i] = logins[j]
  <2>1. /\ Gone(logins, nm) \in Seq(Login)
        /\ \A i \in DOMAIN Gone(logins, nm) : \E j \in DOMAIN logins : Gone(logins, nm)[i] = logins[j]
    BY <1>1, GoneProps
  <2>2. QED BY <1>2, <2>1
<1>5. HeardType' /\ posted' = None
  <2> DEFINE st == OFFLINE
             ss == logins'
  <2>1. st \in Numbers /\ Notify(nm, st, ss)
    BY <1>2, Symbols
  <2> HIDE DEF st, ss
  <2>2. QED BY <1>1, <1>2, <2>1, NotifyType
<1>6. Kept4(me', odd', f_lists', guessed')
  <2>1. ASSUME NEW d \in Clients
        PROVE  f_lists'[d] \in {None} \cup Seq(Row) /\ (f_lists'[d] # None => me'[d] # None)
    <3>1. me \in [Clients -> Typed \cup {None}]
      BY <1>1 DEF Kept4
    <3>2. CASE f_lists'[d] = None
      BY <3>2
    <3>3. CASE f_lists'[d] # None
      <4>1. f_lists'[d] = f_lists[d] \/ (d = c /\ f_lists'[d] = None)
        BY <1>3
      <4>2. d = c \/ me'[d] = me[d]
        BY <1>3, <3>1
      <4>3. CASE d # c
        BY <1>1, <3>3, <4>1, <4>2, <4>3 DEF Kept4
      <4>4. CASE d = c
        BY <1>1, <1>3, <3>1, <3>3, <4>1, <4>4 DEF Kept4
      <4>5. QED BY <4>3, <4>4
    <3>4. QED BY <3>2, <3>3
  <2>2. QED BY <1>1, <1>3, <2>1 DEF Kept4
<1>7. odd' = {} => StatesOK(logins')
  BY <1>1, <1>3, <1>4 DEF StatesOK
<1>8. TypeOK'
  BY <1>1, <1>3, <1>4, <1>5, <1>6, <1>7, TypePartsNext
<1>9. UsersInv'
  BY <1>3 DEF TypeInv, UsersInv
<1>10. NameInv'
  <2> SUFFICES ASSUME "name" \notin odd', NEW d \in Clients, me'[d] # None PROVE Find(me'[d], Semicolon) = 0
    BY DEF NameInv
  <2>1. me \in [Clients -> Typed \cup {None}]
    BY <1>1 DEF Kept4
  <2>2. me'[d] = me[d]
    BY <1>3, <2>1
  <2>3. QED BY <1>3, <2>2 DEF TypeInv, NameInv
<1>11. QED BY <1>8, <1>9, <1>10 DEF TypeInv

(* Sessions, lists and texts. *)

\* A session at a client's port is of the name that client is logged in with ...
PortInv == "name" \notin odd =>
    \A i \in DOMAIN logins, c \in Clients :
       logins[i].port = Port[c] => me[c] # None /\ logins[i].user_name = me[c]

\* ... and every session is of an account.
AccountInv == \A i \in DOMAIN logins : \E j \in DOMAIN users :
    users[j].id = logins[i].user_id /\ users[j].user_name = logins[i].user_name

\* A row of a list is a stored account.
StoredRow(r) == \E i \in DOMAIN Stored : Stored[i].id = r.id /\ Stored[i].user_name = r.user_name
\* Every row of every list is a stored account.
ListInv == Distinct(users) /\ PlainNames =>
    \A c \in Clients : f_lists[c] # None => \A k \in DOMAIN f_lists[c] : StoredRow(f_lists[c][k])

\* The stored account of a name.
OwnOf(name) == Stored[CHOOSE i \in DOMAIN Stored : Stored[i].user_name = name]
\* A name with a stored account.
HasAccount(name) == \E i \in DOMAIN Stored : Stored[i].user_name = name

\* The list that the account of a name should have.
RightFor(list, name) == HasAccount(name) =>
    /\ Len(list) = Cardinality({k \in DOMAIN FriendRows : FriendRows[k].user_id = OwnOf(name).id})
    /\ {[id |-> r.id, user_name |-> r.user_name] : r \in {list[k] : k \in DOMAIN list}}
         = {[id |-> v.id, user_name |-> v.user_name] :
               v \in {Stored[i] : i \in {i \in DOMAIN Stored : Friendly(OwnOf(name), Stored[i])}}}

\* ListRight, with the variables it depends on.
ListsRightFor(accounts, lists, names, without) == Distinct(accounts) /\ PlainNames =>
    \A c \in Clients \ without : lists[c] # None => RightFor(lists[c], names[c])

\* ListRight and ListRight' in that form.
LEMMA ListRightAs ==
    /\ ListRight <=> ListsRightFor(users, f_lists, me, guessed)
    /\ ListRight' <=> ListsRightFor(users', f_lists', me', guessed')
<1>1. ListRight <=> ListsRightFor(users, f_lists, me, guessed)
  BY DEF ListRight, ListsRightFor, RightFor, HasAccount, OwnOf, Accounted, Own, Shown
<1>2. ListRight' <=> ListsRightFor(users', f_lists', me', guessed')
  BY DEF ListRight, ListsRightFor, RightFor, HasAccount, OwnOf, Accounted, Own, Shown
<1>3. QED BY <1>1, <1>2

\* The stored account of a name has that name.
LEMMA OwnProps ==
    ASSUME NEW name, HasAccount(name)
    PROVE  \E i \in DOMAIN Stored : OwnOf(name) = Stored[i] /\ Stored[i].user_name = name
<1> DEFINE Q(i) == Stored[i].user_name = name
           k == CHOOSE i \in DOMAIN Stored : Q(i)
<1>1. \E i \in DOMAIN Stored : Q(i)
  BY DEF HasAccount
<1>2. OwnOf(name) = Stored[k]
  BY DEF OwnOf
<1> HIDE DEF Q
<1>3. k \in DOMAIN Stored /\ Q(k)
  BY <1>1
<1> HIDE DEF k
<1>4. QED BY <1>2, <1>3 DEF Q

\* Distinct accounts are known by their names and by their numbers.
LEMMA OneAccount ==
    ASSUME UsersInv, Distinct(users), NEW i \in DOMAIN Stored, NEW j \in DOMAIN Stored,
           Stored[i].user_name = Stored[j].user_name \/ Stored[i].id = Stored[j].id
    PROVE  Stored[i] = Stored[j]
<1>1. i \in DOMAIN users /\ users[i] = Stored[i]
  BY StoredUsers
<1>2. users[i] = Stored[j]
  BY <1>1, StoredUsers
<1>3. QED BY <1>1, <1>2

\* The rows of an answer are stored accounts, and read as they are.
LEMMA RowsStored ==
    ASSUME UsersInv, logins \in Seq(Login), Distinct(users), PlainNames, NEW id
    PROVE  /\ \A k \in DOMAIN RowsFor(id) : StoredRow(RowsFor(id)[k])
           /\ friend_list_deserialize(serialize_string(RowsFor(id))) = RowsFor(id)
<1> DEFINE rows == RowsFor(id)
           ids == get_friendids_by_userid(id)
<1>1. /\ rows \in Seq(Row) /\ DOMAIN rows = DOMAIN ids
      /\ \A k \in DOMAIN rows : /\ rows[k].id = ids[k]
                                /\ \E i \in DOMAIN users : users[i].id = rows[k].id
                                                           /\ users[i].user_name = rows[k].user_name
  BY RowsType
<1>2. \A k \in DOMAIN ids : ids[k] \in Ids
  <2>1. ids \in Seq(Ids)
    BY FriendIds
  <2> HIDE DEF ids
  <2>2. QED BY <2>1, Scan
<1>3. DOMAIN rows = 1 .. Len(rows)
  BY <1>1, Scan
<1> HIDE DEF rows, ids
<1>4. \A k \in DOMAIN rows : StoredRow(rows[k])
  <2> SUFFICES ASSUME NEW k \in DOMAIN rows PROVE StoredRow(rows[k])
    OBVIOUS
  <2>1. PICK i \in DOMAIN Stored : Stored[i].id = rows[k].id
    BY <1>1, <1>2 DEF Ids
  <2>2. PICK j \in DOMAIN users : users[j].id = rows[k].id /\ users[j].user_name = rows[k].user_name
    BY <1>1
  <2>3. users[j] = Stored[i]
    BY <2>1, <2>2, StoredUsers
  <2>4. QED BY <2>1, <2>2, <2>3 DEF StoredRow
<1>5. \A k \in 1 .. Len(rows) : Find(rows[k].user_name, Semicolon) = 0 /\ Find(rows[k].user_name, Comma) = 0
  BY <1>3, <1>4 DEF StoredRow, PlainNames
<1>6. friend_list_deserialize(serialize_string(rows)) = rows
  BY <1>1, <1>5, ListParsed
<1>7. QED BY <1>4, <1>6 DEF rows

\* The answer to a session of an account is the list of the account.
LEMMA RowsRight ==
    ASSUME UsersInv, logins \in Seq(Login), Distinct(users), PlainNames, NEW name, HasAccount(name)
    PROVE  RightFor(RowsFor(OwnOf(name).id), name)
<1> DEFINE own == OwnOf(name)
           id == own.id
           rows == RowsFor(id)
           ids == get_friendids_by_userid(id)
           A == {[id |-> r.id, user_name |-> r.user_name] : r \in {rows[k] : k \in DOMAIN rows}}
           B == {[id |-> v.id, user_name |-> v.user_name] :
                    v \in {Stored[i] : i \in {i \in DOMAIN Stored : Friendly(own, Stored[i])}}}
<1>1. /\ DOMAIN rows = DOMAIN ids /\ Len(rows) = Len(ids)
      /\ \A k \in DOMAIN rows : rows[k].id = ids[k]
  BY RowsType
<1>2. \A k \in DOMAIN rows : StoredRow(rows[k])
  BY RowsStored
<1>3. /\ Len(ids) = Cardinality({k \in DOMAIN FriendRows : FriendRows[k].user_id = id})
      /\ \A j \in DOMAIN ids : \E k \in DOMAIN FriendRows :
            FriendRows[k] = [user_id |-> id, friend_id |-> ids[j]]
      /\ \A k \in DOMAIN FriendRows : FriendRows[k].user_id = id =>
            \E j \in DOMAIN ids : ids[j] = FriendRows[k].friend_id
  BY FriendIds
<1> HIDE DEF rows, ids, own
<1>4. ASSUME NEW k \in DOMAIN rows PROVE [id |-> rows[k].id, user_name |-> rows[k].user_name] \in B
  <2>1. PICK i \in DOMAIN Stored : Stored[i].id = rows[k].id /\ Stored[i].user_name = rows[k].user_name
    BY <1>2 DEF StoredRow
  <2>2. Friendly(own, Stored[i])
    BY <1>1, <1>3, <2>1 DEF Friendly
  <2>3. QED BY <2>1, <2>2
<1>5. ASSUME NEW i \in DOMAIN Stored, Friendly(own, Stored[i])
      PROVE  [id |-> Stored[i].id, user_name |-> Stored[i].user_name] \in A
  <2>1. PICK k \in DOMAIN FriendRows : FriendRows[k] = [user_id |-> own.id, friend_id |-> Stored[i].id]
    BY <1>5 DEF Friendly
  <2>2. FriendRows[k].user_id = id /\ FriendRows[k].friend_id = Stored[i].id
    BY <2>1
  <2>3. PICK j \in DOMAIN rows : rows[j].id = Stored[i].id
    BY <1>1, <1>3, <2>2
  <2>4. PICK m \in DOMAIN Stored : Stored[m].id = rows[j].id /\ Stored[m].user_name = rows[j].user_name
    BY <1>2 DEF StoredRow
  <2>5. Stored[m] = Stored[i]
    BY <2>3, <2>4, OneAccount
  <2>6. QED BY <2>3, <2>4, <2>5
<1>6. A = B
  <2>1. A \subseteq B
    <3> HIDE DEF B
    <3>1. QED BY <1>4
  <2>2. B \subseteq A
    <3> HIDE DEF A
    <3>1. QED BY <1>5
  <2> HIDE DEF A, B
  <2>3. QED BY <2>1, <2>2
<1>7. QED BY <1>1, <1>3, <1>6 DEF RightFor, rows, own

\* What changes neither sessions nor names keeps the invariants of the sessions.
LEMMA SessionsKept ==
    ASSUME PortInv, AccountInv, UNCHANGED <<logins, me, odd>>,
           \A i \in DOMAIN users : i \in DOMAIN users' /\ users'[i] = users[i]
    PROVE  PortInv' /\ AccountInv'
BY DEF PortInv, AccountInv

\* What changes no list.
LEMMA ListsKept ==
    ASSUME ListInv, ListRight, UNCHANGED f_lists, guessed' = guessed,
           \A c \in Clients : f_lists[c] # None => me'[c] = me[c],
           Distinct(users') => Distinct(users)
    PROVE  ListInv' /\ ListRight'
<1>1. ListInv'
  BY DEF ListInv
<1>2. ListsRightFor(users, f_lists, me, guessed)
  BY ListRightAs
<1>3. ListsRightFor(users', f_lists', me', guessed')
  BY <1>2 DEF ListsRightFor
<1>4. QED BY <1>1, <1>3, ListRightAs

\* No message, nothing to arrive.
LEMMA NothingPosted ==
    ASSUME posted' = None
    PROVE  TextsArrive'
BY DEF TextsArrive

\* The inductive invariant: a text arrives because the list of its sender
\* names a stored
\* account and the session of that name is at its client's port; the list is
\* right
\* because every session is of the account whose name it has.
SafeInv == TypeInv /\ PortInv /\ AccountInv /\ ListInv /\ ListRight /\ TextsArrive

\* The invariant holds at the start.
LEMMA SafeInit == ASSUME Init PROVE SafeInv
<1>1. TypeInv
  BY TypeInit
<1>2. DOMAIN logins = {} /\ posted = None /\ \A c \in Clients : f_lists[c] = None
  BY DEF Init
<1>3. PortInv /\ AccountInv /\ ListInv /\ TextsArrive
  BY <1>2 DEF PortInv, AccountInv, ListInv, TextsArrive
<1>4. ListRight
  BY <1>2 DEF ListRight
<1>5. QED BY <1>1, <1>3, <1>4 DEF SafeInv

\* The invariant after a registration.
LEMMA SafeRegister ==
    ASSUME SafeInv, NEW c, NEW name \in Chosen, NEW passwd \in Passwds, Register(c, name, passwd)
    PROVE  SafeInv'
<1>1. TypeInv'
  BY RegisterTypes DEF SafeInv
<1>2. UNCHANGED <<logins, me, f_lists, guessed, odd>> /\ posted' = None
  BY DEF Register, Silent
<1>3. /\ \A i \in DOMAIN users : i \in DOMAIN users' /\ users'[i] = users[i]
  <2>1. PICK e \in User : users' = Append(users, e)
    BY RegisterStep
  <2>2. users \in Seq(User)
    BY DEF SafeInv, TypeInv, UsersInv
  <2>3. /\ users' \in Seq(User) /\ Len(users') = Len(users) + 1 /\ Len(users) \in Nat
        /\ \A i \in 1 .. Len(users) : users'[i] = users[i]
    BY <2>1, <2>2, Appended
  <2>4. DOMAIN users = 1 .. Len(users) /\ DOMAIN users' = 1 .. Len(users')
    BY <2>2, <2>3, Scan
  <2>5. QED BY <2>3, <2>4
<1>4. Distinct(users') => Distinct(users)
  BY <1>3 DEF Distinct
<1>5. PortInv' /\ AccountInv'
  BY <1>2, <1>3, SessionsKept DEF SafeInv
<1>6. ListInv' /\ ListRight'
  BY <1>2, <1>4, ListsKept DEF SafeInv
<1>7. QED BY <1>1, <1>2, <1>5, <1>6, NothingPosted DEF SafeInv

\* The invariant after a login.
LEMMA SafeLogIn ==
    ASSUME SafeInv, NEW c \in Clients, NEW name \in Typed, NEW passwd \in Passwds,
           LogIn(c, name, passwd)
    PROVE  SafeInv'
<1>1. TypeInv' /\ TypeInv /\ TypeOK
  BY LogInTypes DEF SafeInv, TypeInv
<1>2. PICK e \in Login :
         /\ logins' = Append(logins, e)
         /\ \E i \in DOMAIN users : users[i].id = e.user_id /\ users[i].user_name = e.user_name
         /\ Find(name, Semicolon) = 0 /\ Find(passwd, Semicolon) = 0
               => e.user_name = name /\ e.port = Port[c]
         /\ Notify(e.user_name, ONLINE, logins')
  BY <1>1, LogInStep
<1>3. /\ me[c] = None /\ me' = [me EXCEPT ![c] = name]
      /\ odd' = odd \cup {o \in {"name"} : Find(name, Semicolon) # 0 \/ Find(passwd, Semicolon) # 0}
      /\ UNCHANGED <<users, f_lists, guessed>>
  BY DEF LogIn
<1>4. posted' = None
  BY DEF LogIn, Notify
<1>5. /\ logins' \in Seq(Login) /\ Len(logins') = Len(logins) + 1 /\ Len(logins) \in Nat
      /\ (\A i \in 1 .. Len(logins) : logins'[i] = logins[i]) /\ logins'[Len(logins) + 1] = e
      /\ DOMAIN logins = 1 .. Len(logins) /\ DOMAIN logins' = 1 .. Len(logins')
  <2>1. logins \in Seq(Login) /\ logins' \in Seq(Login)
    BY <1>1 DEF TypeInv, TypeOK
  <2>2. QED BY <1>2, <2>1, Appended, Scan
<1>6. \A i \in DOMAIN logins' : (i \in DOMAIN logins /\ logins'[i] = logins[i]) \/ logins'[i] = e
  BY <1>5
<1>7. AccountInv'
  <2>1. \A i \in DOMAIN logins' : \E j \in DOMAIN users :
           users[j].id = logins'[i].user_id /\ users[j].user_name = logins'[i].user_name
    BY <1>2, <1>6 DEF SafeInv, AccountInv
  <2>2. QED BY <1>3, <2>1 DEF AccountInv
<1>8. me \in [Clients -> Typed \cup {None}]
  BY <1>1 DEF TypeOK
<1>9. PortInv'
  <2> SUFFICES ASSUME "name" \notin odd', NEW i \in DOMAIN logins', NEW d \in Clients,
                      logins'[i].port = Port[d]
               PROVE  me'[d] # None /\ logins'[i].user_name = me'[d]
    BY DEF PortInv
  <2>1. "name" \notin odd /\ e.user_name = name /\ e.port = Port[c]
    BY <1>2, <1>3
  <2>2. name # None
    BY Stray
  <2>3. CASE i \in DOMAIN logins /\ logins'[i] = logins[i]
    <3>1. me[d] # None /\ logins[i].user_name = me[d]
      BY <2>1, <2>3 DEF SafeInv, PortInv
    <3>2. d # c
      BY <1>3, <3>1
    <3>3. QED BY <1>3, <1>8, <2>3, <3>1, <3>2
  <2>4. CASE logins'[i] = e
    <3>1. d = c
      BY <2>1, <2>4, Ports
    <3>2. QED BY <1>3, <1>8, <2>1, <2>2, <2>4, <3>1
  <2>5. QED BY <1>6, <2>3, <2>4
<1>10. ListInv' /\ ListRight'
  <2>1. \A d \in Clients : f_lists[d] # None => me'[d] = me[d]
    <3> SUFFICES ASSUME NEW d \in Clients, f_lists[d] # None PROVE me'[d] = me[d]
      OBVIOUS
    <3>1. me[d] # None
      BY <1>1 DEF TypeOK
    <3>2. QED BY <1>3, <3>1
  <2>2. QED BY <1>3, <2>1, ListsKept DEF SafeInv
<1>11. QED BY <1>1, <1>4, <1>7, <1>9, <1>10, NothingPosted DEF SafeInv

\* The invariant after a request for the list.
LEMMA SafeList ==
    ASSUME SafeInv, NEW c \in Clients, get_friend_list(c)
    PROVE  SafeInv'
<1>1. TypeInv' /\ TypeInv /\ TypeOK /\ UsersInv /\ logins \in Seq(Login)
  BY ListTypes DEF SafeInv, TypeInv, TypeOK
<1>2. UNCHANGED <<users, logins, me, odd>> /\ posted' = None
  BY DEF get_friend_list, Silent
<1>3. PortInv' /\ AccountInv'
  BY <1>2, SessionsKept DEF SafeInv
<1>4. PICK id \in IF SessionOf(me[c]) = {} THEN Garbage ELSE {l.user_id : l \in SessionOf(me[c])} :
         f_lists' = [f_lists EXCEPT ![c] = friend_list_deserialize(serialize_string(RowsFor(id)))]
  BY <1>1, ListStep
<1>5. guessed' = IF SessionOf(me[c]) = {} THEN guessed \cup {c} ELSE guessed
  BY <1>1, ListStep
<1>6. /\ \A d \in Clients : d # c => f_lists'[d] = f_lists[d]
      /\ f_lists'[c] = friend_list_deserialize(serialize_string(RowsFor(id)))
  BY <1>1, <1>4 DEF TypeOK
<1>7. ListInv'
  <2> SUFFICES ASSUME Distinct(users), PlainNames, NEW d \in Clients, f_lists'[d] # None,
                      NEW k \in DOMAIN f_lists'[d]
               PROVE  StoredRow(f_lists'[d][k])
    BY <1>2 DEF ListInv
  <2>1. CASE d # c
    BY <1>6, <2>1 DEF SafeInv, ListInv
  <2>2. CASE d = c
    <3>1. f_lists'[c] = RowsFor(id)
      BY <1>1, <1>6, RowsStored
    <3>2. QED BY <1>1, <2>2, <3>1, RowsStored
  <2>3. QED BY <2>1, <2>2
<1>8. ListRight'
  <2>1. ListsRightFor(users, f_lists, me, guessed)
    BY ListRightAs DEF SafeInv
  <2> SUFFICES ASSUME Distinct(users), PlainNames, NEW d \in Clients \ guessed', f_lists'[d] # None
               PROVE  RightFor(f_lists'[d], me[d])
    BY <1>2, ListRightAs DEF ListsRightFor
  <2>2. CASE d # c
    BY <1>5, <1>6, <2>1, <2>2 DEF ListsRightFor
  <2>3. CASE d = c
    <3>1. SessionOf(me[c]) # {}
      BY <1>5, <2>3
    <3> SUFFICES ASSUME HasAccount(me[c]) PROVE RightFor(f_lists'[c], me[c])
      BY <2>3 DEF RightFor
    <3>2. PICK l \in SessionOf(me[c]) : id = l.user_id
      BY <1>4, <3>1
    <3>3. l.user_name = me[c] /\ \E i \in DOMAIN logins : logins[i] = l
      <4> DEFINE P == Named(me[c])
      <4>1. SessionOf(me[c]) = First(logins, P)
        BY <1>1, SessionIsFirst
      <4>2. \A v \in P : v.user_name = me[c]
        BY DEF Named
      <4> HIDE DEF P
      <4>3. l \in P /\ \E i \in DOMAIN logins : logins[i] = l
        BY <1>1, <4>1, FoundFirst
      <4>4. QED BY <4>2, <4>3
    <3>4. PICK j \in DOMAIN users : users[j].id = id /\ users[j].user_name = me[c]
      BY <3>2, <3>3 DEF SafeInv, AccountInv
    <3>5. PICK i \in DOMAIN Stored : OwnOf(me[c]) = Stored[i] /\ Stored[i].user_name = me[c]
      BY OwnProps
    <3>6. users[j] = Stored[i]
      BY <1>1, <3>4, <3>5, StoredUsers
    <3>7. id = OwnOf(me[c]).id
      BY <3>4, <3>5, <3>6
    <3>8. f_lists'[c] = RowsFor(id)
      BY <1>1, <1>6, RowsStored
    <3>9. RightFor(RowsFor(OwnOf(me[c]).id), me[c])
      BY <1>1, RowsRight
    <3>10. QED BY <3>7, <3>8, <3>9
  <2>4. QED BY <2>2, <2>3
<1>9. QED BY <1>1, <1>2, <1>3, <1>7, <1>8, NothingPosted DEF SafeInv

\* The invariant after a change of state.
LEMMA SafeModify ==
    ASSUME SafeInv, NEW c \in Clients, NEW word \in StateWords, Modify(c, word)
    PROVE  SafeInv'
<1>1. TypeInv' /\ TypeOK
  BY ModifyTypes DEF SafeInv, TypeInv
<1>2. UNCHANGED <<users, me, f_lists, guessed>> /\ odd \subseteq odd'
  BY DEF Modify
<1>3. posted' = None
  BY DEF Modify, Notify
<1>4. PICK nm \in Text, st \in Numbers : logins' = Changed(logins, nm, st)
  BY <1>1, ModifyStep
<1>5. /\ DOMAIN logins' = DOMAIN logins
      /\ \A i \in DOMAIN logins : /\ logins'[i].user_name = logins[i].user_name
                                  /\ logins'[i].user_id = logins[i].user_id
                                  /\ logins'[i].port = logins[i].port
  <2>1. logins \in Seq(Login)
    BY <1>1 DEF TypeOK
  <2>2. QED BY <1>4, <2>1, ChangedProps
<1>6. PortInv'
  BY <1>2, <1>5 DEF SafeInv, PortInv
<1>7. AccountInv'
  BY <1>2, <1>5 DEF SafeInv, AccountInv
<1>8. ListInv' /\ ListRight'
  BY <1>2, ListsKept DEF SafeInv
<1>9. QED BY <1>1, <1>3, <1>6, <1>7, <1>8, NothingPosted DEF SafeInv

\* The invariant after a message.
LEMMA SafeSend ==
    ASSUME SafeInv, NEW c \in Clients, NEW n \in Numbers, NEW text \in Texts, Send(c, n, text)
    PROVE  SafeInv'
<1>1. TypeInv' /\ TypeOK /\ UsersInv /\ logins \in Seq(Login)
  BY SendTypes DEF SafeInv, TypeInv, TypeOK
<1>2. UNCHANGED <<users, logins, me, f_lists, guessed, odd>> /\ f_lists[c] # None
  BY DEF Send
<1>3. PortInv' /\ AccountInv'
  BY <1>2, SessionsKept DEF SafeInv
<1>4. ListInv' /\ ListRight'
  BY <1>2, ListsKept DEF SafeInv
<1>5. TextsArrive'
  <2> SUFFICES ASSUME Distinct(users), PlainNames, "name" \notin odd, NEW d \in Clients,
                      heard'[d] # None, HasAccount(me[d])
               PROVE  posted' = [id |-> OwnOf(me[d]).id, text |-> heard'[d]]
    BY <1>2 DEF TextsArrive, Accounted, Own, HasAccount, OwnOf
  <2>1. PICK name \in is_user_exist(f_lists[c], n) :
           Find(name, Semicolon) = 0 =>
              \A x \in Clients : heard'[x] = IF Hears(x, SessionOf(name)) THEN text ELSE None
    BY <1>1, SendStep
  <2>2. posted' = [id |-> n, text |-> text]
    BY <1>1, SendStep
  <2>3. PICK k \in DOMAIN f_lists[c] : f_lists[c][k].id = n /\ f_lists[c][k].user_name = name
    <3> DEFINE s == f_lists[c]
               P == {r \in Row : r.id = n}
    <3>1. s \in Seq(Row)
      BY <1>1, <1>2 DEF TypeOK
    <3>2. \A v \in P : v.id = n
      OBVIOUS
    <3>3. is_user_exist(s, n) = {f.user_name : f \in First(s, P)}
      BY <3>1, RowsScanned DEF is_user_exist
    <3> HIDE DEF s, P
    <3>4. \A v \in First(s, P) : v \in P /\ \E i \in DOMAIN s : s[i] = v
      BY <3>1, FoundFirst
    <3>5. name \in is_user_exist(s, n)
      BY <2>1 DEF s
    <3>6. QED BY <3>2, <3>3, <3>4, <3>5 DEF s
  <2>4. PICK i \in DOMAIN Stored : Stored[i].id = n /\ Stored[i].user_name = name
    BY <1>2, <2>3 DEF SafeInv, ListInv, StoredRow
  <2>5. Find(name, Semicolon) = 0
    BY <2>4 DEF PlainNames
  <2>6. heard'[d] = text /\ Hears(d, SessionOf(name))
    BY <2>1, <2>5
  <2>7. PICK l \in SessionOf(name) : l.port = Port[d]
    BY <2>6 DEF Hears
  <2>8. l.user_name = name /\ \E j \in DOMAIN logins : logins[j] = l
    <3> DEFINE P == Named(name)
    <3>1. SessionOf(name) = First(logins, P)
      BY <1>1, SessionIsFirst
    <3>2. \A v \in P : v.user_name = name
      BY DEF Named
    <3> HIDE DEF P
    <3>3. l \in P /\ \E j \in DOMAIN logins : logins[j] = l
      BY <1>1, <3>1, FoundFirst
    <3>4. QED BY <3>2, <3>3
  <2>9. me[d] = name
    BY <2>7, <2>8 DEF SafeInv, PortInv
  <2>10. PICK j \in DOMAIN Stored : OwnOf(me[d]) = Stored[j] /\ Stored[j].user_name = me[d]
    BY OwnProps
  <2>11. Stored[i] = Stored[j]
    BY <1>1, <2>4, <2>9, <2>10, OneAccount
  <2>12. QED BY <2>2, <2>4, <2>6, <2>10, <2>11
<1>6. QED BY <1>1, <1>3, <1>4, <1>5 DEF SafeInv

\* The invariant after a quit.
LEMMA SafeQuit ==
    ASSUME SafeInv, NEW c \in Clients, Quit(c)
    PROVE  SafeInv'
<1>1. TypeInv' /\ TypeOK
  BY QuitTypes DEF SafeInv, TypeInv
<1>2. /\ me' = [me EXCEPT ![c] = None] /\ f_lists' = [f_lists EXCEPT ![c] = None]
      /\ guessed' = guessed \ {c} /\ UNCHANGED <<users, odd>>
  BY DEF Quit
<1>3. posted' = None
  BY DEF Quit, Notify
<1>4. \A i \in DOMAIN logins' : /\ logins'[i].user_name # me[c]
                                /\ \E j \in DOMAIN logins : logins'[i] = logins[j]
  <2> DEFINE nm == me[c]
  <2>1. logins' = Gone(logins, nm) /\ logins \in Seq(Login)
    BY <1>1, QuitStep DEF TypeOK
  <2> HIDE DEF nm
  <2>2. \A i \in DOMAIN Gone(logins, nm) :
           Gone(logins, nm)[i].user_name # nm /\ \E j \in DOMAIN logins : Gone(logins, nm)[i] = logins[j]
    BY <2>1, GoneProps
  <2>3. QED BY <2>1, <2>2 DEF nm
<1>5. AccountInv'
  BY <1>2, <1>4 DEF SafeInv, AccountInv
<1>6. PortInv'
  <2> SUFFICES ASSUME "name" \notin odd', NEW i \in DOMAIN logins', NEW d \in Clients,
                      logins'[i].port = Port[d]
               PROVE  me'[d] # None /\ logins'[i].user_name = me'[d]
    BY DEF PortInv
  <2>1. PICK j \in DOMAIN logins : logins'[i] = logins[j]
    BY <1>4
  <2>2. me[d] # None /\ logins[j].user_name = me[d]
    BY <1>2, <2>1 DEF SafeInv, PortInv
  <2>3. d # c
    BY <1>4, <2>1, <2>2
  <2>4. me'[d] = me[d]
    BY <1>1, <1>2, <2>3 DEF TypeOK
  <2>5. QED BY <2>1, <2>2, <2>4
<1>7. \A d \in Clients : (d # c => f_lists'[d] = f_lists[d] /\ me'[d] = me[d]) /\ f_lists'[c] = None
  BY <1>1, <1>2 DEF TypeOK
<1>8. ListInv'
  BY <1>2, <1>7 DEF SafeInv, ListInv
<1>9. ListRight'
  <2>1. ListsRightFor(users, f_lists, me, guessed)
    BY ListRightAs DEF SafeInv
  <2>2. ListsRightFor(users', f_lists', me', guessed')
    BY <1>2, <1>7, <2>1 DEF ListsRightFor
  <2>3. QED BY <2>2, ListRightAs
<1>10. QED BY <1>1, <1>3, <1>5, <1>6, <1>8, <1>9, NothingPosted DEF SafeInv

\* The invariant after any step.
LEMMA SafeNext ==
    ASSUME SafeInv, [Next]_vars
    PROVE  SafeInv'
<1>1. ASSUME NEW c \in Clients, NEW name \in Chosen, NEW passwd \in Passwds, Register(c, name, passwd)
      PROVE  SafeInv'
  BY <1>1, SafeRegister
<1>2. ASSUME NEW c \in Clients, NEW name \in Typed, NEW passwd \in Passwds, LogIn(c, name, passwd)
      PROVE  SafeInv'
  BY <1>2, SafeLogIn
<1>3. ASSUME NEW c \in Clients, get_friend_list(c) PROVE SafeInv'
  BY <1>3, SafeList
<1>4. ASSUME NEW c \in Clients, NEW word \in StateWords, Modify(c, word) PROVE SafeInv'
  BY <1>4, SafeModify
<1>5. ASSUME NEW c \in Clients, NEW n \in Numbers, NEW text \in Texts, Send(c, n, text) PROVE SafeInv'
  BY <1>5, SafeSend
<1>6. ASSUME NEW c \in Clients, Quit(c) PROVE SafeInv'
  BY <1>6, SafeQuit
<1>7. CASE UNCHANGED vars
  <2>1. TypeInv'
    BY <1>7, TypeStutter DEF SafeInv
  <2>2. UNCHANGED <<users, logins, me, f_lists, heard, posted, guessed, odd>>
    BY <1>7 DEF vars
  <2>3. PortInv' /\ AccountInv' /\ ListInv'
    BY <2>2 DEF SafeInv, PortInv, AccountInv, ListInv
  <2>4. ListRight'
    BY <2>2, ListRightAs DEF SafeInv
  <2>5. TextsArrive'
    BY <2>2 DEF SafeInv, TextsArrive, Accounted, Own
  <2>6. QED BY <2>1, <2>3, <2>4, <2>5 DEF SafeInv
<1>8. QED BY <1>1, <1>2, <1>3, <1>4, <1>5, <1>6, <1>7 DEF Next

(* Notices. *)

\* Sets that the elements of a sequence are in or not together.
LEMMA FirstSame ==
    ASSUME NEW S, NEW s \in Seq(S), NEW P, NEW Q, \A i \in DOMAIN s : s[i] \in P <=> s[i] \in Q
    PROVE  First(s, P) = First(s, Q)
<1>1. /\ Len(s) \in Nat /\ DOMAIN s = 1 .. Len(s)
      /\ \A i \in DOMAIN s : \A j \in 1 .. i - 1 : j \in DOMAIN s
  BY Scan
<1>2. \A i \in 1 .. Len(s) : (s[i] \in P /\ \A j \in 1 .. i - 1 : s[j] \notin P)
                            <=> (s[i] \in Q /\ \A j \in 1 .. i - 1 : s[j] \notin Q)
  BY <1>1
<1>3. QED BY <1>2 DEF First, FirstUpTo

\* The state of a name is the one of its first session.
LEMMA StateOfFirst ==
    ASSUME NEW s \in Seq(Login), NEW x
    PROVE  StateOf(x, s) = {l.state : l \in First(s, Named(x))}
BY LoginsScanned DEF StateOf, Named

\* When sessions is the vector and the account x of a row changes its state, a
\* client whose session is the first of its name is told.
LEMMA RowTold ==
    ASSUME SafeInv, Symmetric, Distinct(users), PlainNames,
           NEW c \in Clients \ guessed, HasAccount(me[c]),
           NEW r \in Shown(c),
           NEW sessions \in Seq(Login),
           \A i \in DOMAIN sessions : \E j \in DOMAIN users :
              users[j].id = sessions[i].user_id /\ users[j].user_name = sessions[i].user_name,
           NEW l \in First(sessions, Named(me[c])), l.port = Port[c],
           NEW state \in Numbers, Notify(r.user_name, state, sessions)
    PROVE  heard'[c] = [user_name |-> r.user_name, state |-> state]
<1> DEFINE own == OwnOf(me[c])
           x == r.user_name
<1>1. UsersInv /\ users \in Seq(User)
  BY DEF SafeInv, TypeInv, UsersInv
<1>2. PICK o \in DOMAIN Stored : own = Stored[o] /\ Stored[o].user_name = me[c]
  BY OwnProps
<1>3. PICK i \in DOMAIN Stored : /\ Friendly(own, Stored[i])
                                 /\ Stored[i].id = r.id /\ Stored[i].user_name = x
  <2>1. f_lists[c] # None /\ r \in {f_lists[c][k] : k \in DOMAIN f_lists[c]}
    BY DEF Shown
  <2>2. ListsRightFor(users, f_lists, me, guessed)
    BY ListRightAs DEF SafeInv
  <2>3. RightFor(f_lists[c], me[c])
    BY <2>1, <2>2 DEF ListsRightFor
  <2> DEFINE B == {[id |-> v.id, user_name |-> v.user_name] :
                      v \in {Stored[i] : i \in {i \in DOMAIN Stored : Friendly(own, Stored[i])}}}
  <2>4. [id |-> r.id, user_name |-> x] \in B
    BY <2>1, <2>3 DEF RightFor
  <2> HIDE DEF own, x
  <2>5. PICK i \in DOMAIN Stored : /\ Friendly(own, Stored[i])
                                   /\ [id |-> r.id, user_name |-> x]
                                        = [id |-> Stored[i].id, user_name |-> Stored[i].user_name]
    BY <2>4
  <2>6. QED BY <2>5
<1> DEFINE id == Stored[i].id
<1>4. get_userid_by_username(x) = {id}
  <2>1. i \in DOMAIN users /\ users[i] = Stored[i]
    BY <1>1, StoredUsers
  <2>2. users[i].user_name = x
    BY <1>3, <2>1
  <2> HIDE DEF x
  <2>3. get_userid_by_username(x) = {users[i].id}
    BY <1>1, <2>1, <2>2, NumberOfName
  <2>4. QED BY <2>1, <2>3
<1>5. x \in Text
  <2>1. Stored[i] \in User
    BY <1>1, StoredUsers
  <2>2. QED BY <1>3, <2>1 DEF User
<1>6. Find(x, Semicolon) = 0
  BY <1>3 DEF PlainNames
<1> DEFINE ids == get_friendids_by_userid(id)
<1>7. PICK j \in DOMAIN ids : ids[j] = own.id
  <2>1. PICK k \in DOMAIN FriendRows : FriendRows[k] = [user_id |-> own.id, friend_id |-> id]
    BY <1>3 DEF Friendly
  <2>2. PICK m \in DOMAIN FriendRows : FriendRows[m] = [user_id |-> id, friend_id |-> own.id]
    <3>1. \E m \in DOMAIN FriendRows :
             FriendRows[m] = [user_id |-> FriendRows[k].friend_id, friend_id |-> FriendRows[k].user_id]
      BY DEF Symmetric
    <3> HIDE DEF id, own
    <3>2. FriendRows[k].user_id = own.id /\ FriendRows[k].friend_id = id
      BY <2>1
    <3>3. QED BY <3>1, <3>2
  <2>3. FriendRows[m].user_id = id /\ FriendRows[m].friend_id = own.id
    <3> HIDE DEF id, own
    <3>1. QED BY <2>2
  <2> HIDE DEF id, own
  <2>4. \E j \in DOMAIN get_friendids_by_userid(id) :
           get_friendids_by_userid(id)[j] = FriendRows[m].friend_id
    BY <2>3, FriendIds
  <2>5. QED BY <2>3, <2>4
<1>8. l \in First(sessions, {s \in Login : s.user_id = own.id})
  <2> DEFINE P == Named(me[c])
             Q == {s \in Login : s.user_id = own.id}
  <2>1. ASSUME NEW k \in DOMAIN sessions PROVE sessions[k] \in P <=> sessions[k] \in Q
    <3>1. PICK u \in DOMAIN users : /\ users[u].id = sessions[k].user_id
                                    /\ users[u].user_name = sessions[k].user_name
      OBVIOUS
    <3>2. sessions[k] \in Login
      BY Scan
    <3>3. users[u].user_name = Stored[o].user_name => users[u] = Stored[o]
      BY <1>1, StoredUsers
    <3>4. users[u].id = Stored[o].id => users[u] = Stored[o]
      BY <1>1, StoredUsers
    <3>5. sessions[k].user_name = me[c] <=> sessions[k].user_id = own.id
      BY <1>2, <3>1, <3>3, <3>4
    <3>6. QED BY <3>2, <3>5 DEF Named
  <2> HIDE DEF P, Q
  <2>2. First(sessions, P) = First(sessions, Q)
    BY <2>1, FirstSame
  <2>3. QED BY <2>2 DEF P, Q
<1>9. Hears(c, get_logininfos_by_userid(sessions, ids))
  <2> DEFINE y == own.id
  <2> HIDE DEF ids, own
  <2>1. First(sessions, {s \in Login : s.user_id = ids[j]}) \subseteq get_logininfos_by_userid(sessions, ids)
    BY FriendSessions
  <2>2. l \in get_logininfos_by_userid(sessions, ids)
    BY <1>7, <1>8, <2>1
  <2>3. QED BY <2>2 DEF Hears
<1>10. heard'[c] = Notice(x, state)
  <2>1. Notify(x, state, sessions)
    OBVIOUS
  <2> HIDE DEF x
  <2>2. \E n \in get_userid_by_username(x) : \A d \in Clients :
           Hears(d, get_logininfos_by_userid(sessions, get_friendids_by_userid(n)))
              => heard'[d] = Notice(x, state)
    BY <1>1, <1>5, <2>1, NotifyTells
  <2>3. \A d \in Clients : Hears(d, get_logininfos_by_userid(sessions, get_friendids_by_userid(id)))
              => heard'[d] = Notice(x, state)
    BY <1>4, <2>2
  <2>4. QED BY <1>9, <2>3
<1>11. Notice(x, state) = [user_name |-> x, state |-> state]
  <2> HIDE DEF x
  <2>1. QED BY <1>5, <1>6, NoticeRead
<1>12. QED BY <1>10, <1>11

\* The state that a name has after a step, offline when it has no session.
NewState(x) == IF StateOf(x, logins') = {} THEN OFFLINE ELSE CHOOSE s \in StateOf(x, logins') : TRUE

\* What a login, a change of state and a quit do to the state of a name.
LEMMA LogInState ==
    ASSUME SafeInv, NEW c \in Clients, NEW name \in Typed, NEW passwd \in Passwds, LogIn(c, name, passwd),
           NEW x, StateOf(x, logins') # StateOf(x, logins)
    PROVE  /\ NewState(x) \in Numbers /\ Notify(x, NewState(x), logins')
           /\ \A y : y # x => First(logins', Named(y)) = First(logins, Named(y))
<1>1. TypeOK /\ logins \in Seq(Login)
  BY DEF SafeInv, TypeInv, TypeOK
<1>2. PICK e \in Login : /\ logins' = Append(logins, e) /\ e.state = ONLINE
                         /\ Notify(e.user_name, ONLINE, logins')
  BY <1>1, LogInStep
<1>3. \A P : First(logins', P) = IF First(logins, P) = {} /\ e \in P THEN {e} ELSE First(logins, P)
  <2> SUFFICES ASSUME NEW P
               PROVE  First(logins', P) = IF First(logins, P) = {} /\ e \in P THEN {e} ELSE First(logins, P)
    OBVIOUS
  <2> DEFINE S == Login
  <2>1. logins \in Seq(S) /\ e \in S
    BY <1>1
  <2> HIDE DEF S
  <2>2. First(Append(logins, e), P) = IF First(logins, P) = {} /\ e \in P THEN {e} ELSE First(logins, P)
    BY <2>1, FirstAppend
  <2>3. QED BY <1>2, <2>2
<1>4. \A y : e.user_name # y => First(logins', Named(y)) = First(logins, Named(y))
  BY <1>3 DEF Named
<1>5. logins' \in Seq(Login)
  BY <1>1, <1>2, Appended
<1>6. /\ StateOf(x, logins) = {l.state : l \in First(logins, Named(x))}
      /\ StateOf(x, logins') = {l.state : l \in First(logins', Named(x))}
  <2> DEFINE t == logins'
  <2>1. t \in Seq(Login)
    BY <1>5
  <2> HIDE DEF t
  <2>2. StateOf(x, t) = {l.state : l \in First(t, Named(x))}
    BY <2>1, StateOfFirst
  <2>3. QED BY <1>1, <2>2, StateOfFirst DEF t
<1>7. First(logins', Named(x)) # First(logins, Named(x))
  BY <1>6
<1>8. e.user_name = x /\ First(logins', Named(x)) = {e}
  BY <1>3, <1>4, <1>7
<1>9. StateOf(x, logins') = {ONLINE}
  BY <1>2, <1>6, <1>8
<1>10. NewState(x) = ONLINE
  BY <1>9 DEF NewState
<1>11. QED BY <1>2, <1>4, <1>8, <1>10, Symbols

\* The same of a change of state ...
LEMMA ModifyState ==
    ASSUME SafeInv, NEW c \in Clients, NEW word, Modify(c, word),
           NEW x, StateOf(x, logins') # StateOf(x, logins)
    PROVE  /\ NewState(x) \in Numbers /\ Notify(x, NewState(x), logins')
           /\ \A y : y # x => First(logins', Named(y)) = First(logins, Named(y))
<1>1. TypeOK /\ logins \in Seq(Login)
  BY DEF SafeInv, TypeInv, TypeOK
<1>2. PICK nm \in Text, st \in Numbers : logins' = Changed(logins, nm, st) /\ Notify(nm, st, logins')
  BY <1>1, ModifyStep
<1>3. /\ logins' \in Seq(Login)
      /\ \A y : y # nm => First(logins', Named(y)) = First(logins, Named(y))
      /\ First(logins, Named(nm)) = {} <=> First(logins', Named(nm)) = {}
      /\ \A v \in First(logins', Named(nm)) : v.state = st
  BY <1>1, <1>2, ChangedProps
<1>4. /\ StateOf(x, logins) = {l.state : l \in First(logins, Named(x))}
      /\ StateOf(x, logins') = {l.state : l \in First(logins', Named(x))}
  <2> DEFINE t == logins'
  <2>1. t \in Seq(Login)
    BY <1>3
  <2> HIDE DEF t
  <2>2. StateOf(x, t) = {l.state : l \in First(t, Named(x))}
    BY <2>1, StateOfFirst
  <2>3. QED BY <1>1, <2>2, StateOfFirst DEF t
<1>5. First(logins', Named(x)) # First(logins, Named(x))
  BY <1>4
<1>6. x = nm /\ First(logins', Named(x)) # {}
  BY <1>3, <1>5
<1>7. StateOf(x, logins') = {st}
  BY <1>3, <1>4, <1>6
<1>8. NewState(x) = st
  BY <1>7 DEF NewState
<1>9. QED BY <1>2, <1>3, <1>6, <1>8

\* ... and of a quit: who it is about is told of, in its new state, and
\* nothing changes for others.
LEMMA QuitState ==
    ASSUME SafeInv, NEW c \in Clients, Quit(c),
           NEW x, StateOf(x, logins') # StateOf(x, logins)
    PROVE  /\ NewState(x) \in Numbers /\ Notify(x, NewState(x), logins')
           /\ \A y : y # x => First(logins', Named(y)) = First(logins, Named(y))
<1>1. TypeOK /\ logins \in Seq(Login)
  BY DEF SafeInv, TypeInv, TypeOK
<1> DEFINE nm == me[c]
<1>2. logins' = Gone(logins, nm) /\ Notify(nm, OFFLINE, logins')
  BY <1>1, QuitStep
<1> HIDE DEF nm
<1>3. /\ logins' \in Seq(Login)
      /\ \A y : y # nm => First(logins', Named(y)) = First(logins, Named(y))
      /\ First(logins', Named(nm)) = {}
  BY <1>1, <1>2, GoneProps
<1>4. /\ StateOf(x, logins) = {l.state : l \in First(logins, Named(x))}
      /\ StateOf(x, logins') = {l.state : l \in First(logins', Named(x))}
  <2> DEFINE t == logins'
  <2>1. t \in Seq(Login)
    BY <1>3
  <2> HIDE DEF t
  <2>2. StateOf(x, t) = {l.state : l \in First(t, Named(x))}
    BY <2>1, StateOfFirst
  <2>3. QED BY <1>1, <2>2, StateOfFirst DEF t
<1>5. First(logins', Named(x)) # First(logins, Named(x))
  BY <1>4
<1>6. x = nm
  BY <1>3, <1>5
<1>7. StateOf(x, logins') = {}
  BY <1>3, <1>4, <1>6
<1>8. NewState(x) = OFFLINE
  BY <1>7 DEF NewState
<1>9. QED BY <1>2, <1>3, <1>6, <1>8, Symbols

\* The step of NoticesReachLists.
ListTold(c, r) ==
    /\ Symmetric /\ Distinct(users') /\ PlainNames
    /\ Accounted(c) /\ r.user_name # me[c] /\ f_lists'[c] # None
    /\ \E l \in SessionOf(me[c]) : l.port = Port[c]
    /\ StateOf(r.user_name, logins') # StateOf(r.user_name, logins)
    => heard'[c] = [user_name |-> r.user_name, state |-> NewState(r.user_name)]

\* Every step of NoticesReachLists, by the action.
LEMMA ToldStep ==
    ASSUME SafeInv, [Next]_vars, NEW c \in Clients \ guessed, NEW r \in Shown(c)
    PROVE  ListTold(c, r)
<1> DEFINE x == r.user_name
<1> SUFFICES ASSUME Symmetric, Distinct(users'), PlainNames, HasAccount(me[c]), x # me[c],
                    \E l \in SessionOf(me[c]) : l.port = Port[c],
                    StateOf(x, logins') # StateOf(x, logins)
             PROVE  heard'[c] = [user_name |-> x, state |-> NewState(x)]
  BY DEF ListTold, Accounted, HasAccount
<1>1. SafeInv'
  BY SafeNext
<1>2. /\ users' = users /\ NewState(x) \in Numbers /\ Notify(x, NewState(x), logins')
      /\ \A y : y # x => First(logins', Named(y)) = First(logins, Named(y))
  <2>1. CASE UNCHANGED <<logins>>
    BY <2>1
  <2>2. CASE \E d \in Clients, name \in Typed, passwd \in Passwds : LogIn(d, name, passwd)
    <3>1. PICK d \in Clients, name \in Typed, passwd \in Passwds : LogIn(d, name, passwd)
      BY <2>2
    <3>2. users' = users
      BY <3>1 DEF LogIn
    <3> HIDE DEF x
    <3>3. QED BY <3>1, <3>2, LogInState
  <2>3. CASE \E d \in Clients, word \in StateWords : Modify(d, word)
    <3>1. PICK d \in Clients, word \in StateWords : Modify(d, word)
      BY <2>3
    <3>2. users' = users
      BY <3>1 DEF Modify
    <3> HIDE DEF x
    <3>3. QED BY <3>1, <3>2, ModifyState
  <2>4. CASE \E d \in Clients : Quit(d)
    <3>1. PICK d \in Clients : Quit(d)
      BY <2>4
    <3>2. users' = users
      BY <3>1 DEF Quit
    <3> HIDE DEF x
    <3>3. QED BY <3>1, <3>2, QuitState
  <2>5. ASSUME NEW d \in Clients, NEW name \in Chosen, NEW passwd \in Passwds, Register(d, name, passwd)
        PROVE  UNCHANGED <<logins>>
    BY <2>5 DEF Register
  <2>6. ASSUME NEW d \in Clients, get_friend_list(d) PROVE UNCHANGED <<logins>>
    BY <2>6 DEF get_friend_list
  <2>7. ASSUME NEW d \in Clients, NEW n \in Numbers, NEW text \in Texts, Send(d, n, text)
        PROVE  UNCHANGED <<logins>>
    BY <2>7 DEF Send
  <2>8. UNCHANGED vars => UNCHANGED <<logins>>
    BY DEF vars
  <2> HIDE DEF x
  <2>9. QED BY <2>1, <2>2, <2>3, <2>4, <2>5, <2>6, <2>7, <2>8 DEF Next
<1>3. logins \in Seq(Login) /\ logins' \in Seq(Login)
  BY <1>1 DEF SafeInv, TypeInv, TypeOK
<1>4. \A i \in DOMAIN logins' : \E j \in DOMAIN users :
         users[j].id = logins'[i].user_id /\ users[j].user_name = logins'[i].user_name
  BY <1>1, <1>2 DEF SafeInv, AccountInv
<1>5. First(logins', Named(me[c])) = SessionOf(me[c])
  <2>1. SessionOf(me[c]) = First(logins, Named(me[c]))
    BY <1>3, SessionIsFirst
  <2>2. QED BY <1>2, <2>1
<1> DEFINE t == logins'
           st == NewState(x)
<1>6. PICK l \in First(t, Named(me[c])) : l.port = Port[c]
  BY <1>5
<1>7. /\ t \in Seq(Login) /\ st \in Numbers /\ Notify(r.user_name, st, t) /\ Distinct(users)
      /\ \A i \in DOMAIN t : \E j \in DOMAIN users :
            users[j].id = t[i].user_id /\ users[j].user_name = t[i].user_name
  BY <1>2, <1>3, <1>4
<1> HIDE DEF t, st
<1>8. heard'[c] = [user_name |-> r.user_name, state |-> st]
  BY <1>6, <1>7, RowTold
<1>9. QED BY <1>8 DEF st
-----------------------------------------------------------------------------
\* Whatever is typed, with separators or without, every account, session,
\* list and notice
\* has its type, and unless a word or a name was odd the states are those
\* that can be
\* chosen (analysis_register_msgdata, analysis_login_msgdata,
\* update_login_state).
THEOREM TypeCorrect == Spec => []TypeOK
<1>1. Init => SafeInv
  BY SafeInit
<1>2. SafeInv /\ [Next]_vars => SafeInv'
  BY SafeNext
<1>3. SafeInv => TypeOK
  BY DEF SafeInv, TypeInv
<1>4. QED BY <1>1, <1>2, <1>3, PTL DEF Spec

\* The list of a client that is logged in to a stored account has each
\* friend of the
\* account exactly once, under its number and name (deal_friend_list,
\* friend_list_serialize, friend_list_deserialize).
THEOREM ListsRight == Spec => []ListRight
<1>1. Init => SafeInv
  BY SafeInit
<1>2. SafeInv /\ [Next]_vars => SafeInv'
  BY SafeNext
<1>3. SafeInv => ListRight
  BY DEF SafeInv
<1>4. QED BY <1>1, <1>2, <1>3, PTL DEF Spec

\* A message reaches the client of the friend it was sent to, or nobody when
\* that friend has no
\* session, and never a third client (send_msg, deal_user_msg).
THEOREM TextsReachFriends == Spec => []TextsArrive
<1>1. Init => SafeInv
  BY SafeInit
<1>2. SafeInv /\ [Next]_vars => SafeInv'
  BY SafeNext
<1>3. SafeInv => TextsArrive
  BY DEF SafeInv
<1>4. QED BY <1>1, <1>2, <1>3, PTL DEF Spec

\* When the state of a user changes, every client that shows the user and
\* has the first
\* session of its name is told the new state (notify_friend,
\* deal_user_state).
THEOREM NoticesTell == Spec => NoticesReachLists
<1> DEFINE Step == \A c \in Clients \ guessed : \A r \in Shown(c) :
          /\ Symmetric /\ Distinct(users') /\ PlainNames
          /\ Accounted(c) /\ r.user_name # me[c] /\ f_lists'[c] # None
          /\ \E l \in SessionOf(me[c]) : l.port = Port[c]
          /\ StateOf(r.user_name, logins') # StateOf(r.user_name, logins)
          => heard'[c] = [user_name |-> r.user_name,
                         state |-> IF StateOf(r.user_name, logins') = {} THEN OFFLINE
                                   ELSE CHOOSE s \in StateOf(r.user_name, logins') : TRUE]
<1>1. Init => SafeInv
  BY SafeInit
<1>2. SafeInv /\ [Next]_vars => SafeInv'
  BY SafeNext
<1>3. SafeInv /\ [Next]_vars => [Step]_vars
  <2>1. SUFFICES ASSUME SafeInv, [Next]_vars PROVE Step
    OBVIOUS
  <2>2. \A c \in Clients \ guessed : \A r \in Shown(c) : ListTold(c, r)
    BY <2>1, ToldStep
  <2>3. QED BY <2>2 DEF ListTold, NewState
<1>4. NoticesReachLists <=> [][Step]_vars
  BY DEF NoticesReachLists
<1> HIDE DEF Step
<1>5. QED BY <1>1, <1>2, <1>3, <1>4, PTL DEF Spec
===============================================================================
