----------------------------- MODULE ConfigFile -----------------------------
(***************************************************************************)
(* config.ini as the text that client/read_config.cpp reads and changes.   *)
(* PortFile takes the file for the number in it; here IniWriteValue looks  *)
(* the key up and writes the new line over the old one, in place, so that  *)
(* a longer number runs over what follows.                                 *)
(*                                                                         *)
(* A key with its "=" and an address are one symbol each: only the first   *)
(* byte of the key after the number can be run over before it is lost.     *)
(***************************************************************************)
EXTENDS PortFile, Sequences

CONSTANT Radix   \* ten

ASSUME Numerals == Radix \in Nat /\ Radix > 1

VARIABLE file

\* Symbols other than digits.
NL      == -1
section == -2
C_IP    == -3
C_PORT  == -4
S_IP    == -5
S_PORT  == -6
Address == -7

\* %d of sprintf.
Numeral(n) ==
    LET digits[k \in Nat] == IF k < Radix THEN <<k>> ELSE Append(digits[k \div Radix], k % Radix)
    IN  digits[n]

Digit(x) == x \in 0 .. Radix - 1

\* atoi: the value of the digits at the front.
Value(text) ==
    LET upTo[k \in 0 .. Len(text)] ==
            IF k = 0 \/ ~Digit(text[k]) THEN 0 ELSE Radix * upTo[k - 1] + text[k]
        front == {k \in 0 .. Len(text) : \A j \in 1 .. k : Digit(text[j])}
    IN  upTo[CHOOSE k \in front : \A j \in front : j <= k]

\* Where the line with a key begins, below the line of the section; no position
\* if there is none.
Start(f, key) ==
    {p \in DOMAIN f : /\ f[p] = key /\ p > 1 /\ f[p - 1] = NL
                      /\ \E q \in 1 .. p - 1 : f[q] = section /\ (q = 1 \/ f[q - 1] = NL)}

\* The rest of that line.
IniReadValue(f, key) ==
    IF Start(f, key) = {} THEN <<>>
    ELSE LET p == CHOOSE p \in Start(f, key) : TRUE
             e == CHOOSE e \in p + 1 .. Len(f) : f[e] = NL /\ \A j \in p + 1 .. e - 1 : f[j] # NL
         IN  SubSeq(f, p + 1, e - 1)

readIntValue(f, key) == Value(IniReadValue(f, key))

\* Mutant: the line is written without its newline.
IniWriteValueOpen(f, key, text) ==
    IF Start(f, key) = {} THEN f
    ELSE LET p    == CHOOSE p \in Start(f, key) : TRUE
             line == <<key>> \o text
         IN  SubSeq(f, 1, p - 1) \o line \o SubSeq(f, p + Len(line), Len(f))

IniWriteValue(f, key, text) ==
    IF Start(f, key) = {} THEN f
    ELSE LET p    == CHOOSE p \in Start(f, key) : TRUE
             line == <<key>> \o text \o <<NL>>
         IN  SubSeq(f, 1, p - 1) \o line \o SubSeq(f, p + Len(line), Len(f))

writeIntValue(f, key, n) == IniWriteValue(f, key, Numeral(n))

\* Mutant: no empty line after the number.
config_iniDense ==
    <<section, NL, C_IP, Address, NL, C_PORT>> \o Numeral(Base)
        \o <<NL, S_IP, Address, NL, S_PORT, 1, NL>>

\* The file as it comes, with one empty line after the number.
config_ini ==
    <<section, NL, C_IP, Address, NL, C_PORT>> \o Numeral(Base)
        \o <<NL, NL, S_IP, Address, NL, S_PORT, 1, NL>>

FileInit == Init /\ file = config_ini

FileNext ==
    \/ /\ \E c \in Clients : Write(c) \/ Restore(c)
       /\ file' = writeIntValue(file, C_PORT, c_port')
    \/ /\ \/ \E c \in Clients : Read(c) \/ Bind(c) \/ Leave(c) \/ Kill(c)
          \/ \E p \in lingering : Expire(p)
       /\ UNCHANGED file

FileSpec == FileInit /\ [][FileNext]_<<vars, file>>
-----------------------------------------------------------------------------
\* Whatever numbers have been written over one another, longer and shorter
\* ones, the number that the next client reads (readIntValue) is the last one
\* written (writeIntValue): the file does stand for c_port.
ReadsBack == readIntValue(file, C_PORT) = c_port

\* The other settings can be read as long as the numbers are at most one digit
\* longer than the first: the empty line gives way.  One digit more, and the
\* address of the server is lost to every later client.
SettingsKept ==
    Len(Numeral(Base + starts)) <= Len(Numeral(Base)) + 1 =>
        /\ IniReadValue(file, C_IP) = <<Address>>
        /\ IniReadValue(file, S_IP) = <<Address>>
        /\ readIntValue(file, S_PORT) = 1
=============================================================================
