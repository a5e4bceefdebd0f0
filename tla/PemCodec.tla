------------------------------ MODULE PemCodec ------------------------------
(***************************************************************************)
(* PemCodec.c -d: the text between the first and the last line of a PEM    *)
(* document is decoded from Base64.  Encoding is not implemented.          *)
(*                                                                         *)
(* Octets are their ASCII codes.  BEGIN and END stand for the eleven       *)
(* octets "-----BEGIN " and the eight octets "----END ", which are read    *)
(* with one fread() each.                                                  *)
(***************************************************************************)
EXTENDS Integers, Sequences, FiniteSets

CONSTANTS
    Documents       \* what may be on stdin

BEGIN == 1000
END == 1001
LF == 10
Dash == 45
Plus == 43
Slash == 47
Pad == 61
Upper == 65..90
Lower == 97..122
Digit == 48..57

VARIABLES
    phase,          \* header, line, b64, trailer, exit, abort
    document,       \* everything on stdin
    stdin,          \* what is still to be read
    numDashesInSequence,
    sextets,
    stdout,
    numGroups,      \* groups of four that were printed
    err             \* of main(): zero or not

pcVars == <<phase, document, stdin, numDashesInSequence, sextets, stdout, numGroups, err>>

Init ==
    /\ phase = "header"
    /\ document \in Documents
    /\ stdin = document
    /\ numDashesInSequence = 0
    /\ sextets = <<>>
    /\ stdout = <<>>
    /\ numGroups = 0
    /\ err = 0

Exit(e) == phase' = "exit" /\ err' = e

\* fread() of the header.
ReadHeader ==
    /\ phase = "header"
    /\ IF stdin # <<>> /\ Head(stdin) = BEGIN
       THEN phase' = "line" /\ UNCHANGED err
       ELSE Exit(-1)
    /\ stdin' = IF stdin = <<>> THEN stdin ELSE Tail(stdin)
    /\ UNCHANGED <<document, numDashesInSequence, sextets, stdout, numGroups>>

\* The rest of the first line: it must end with five dashes.
ReadLine ==
    /\ phase = "line"
    /\ \/ stdin = <<>> /\ Exit(-1) /\ UNCHANGED <<stdin, numDashesInSequence>>
       \/ /\ stdin # <<>>
          /\ stdin' = Tail(stdin)
          /\ \/ /\ Head(stdin) = LF
                /\ IF numDashesInSequence = 5
                   THEN phase' = "b64" /\ UNCHANGED err
                   ELSE Exit(-1)
                /\ UNCHANGED numDashesInSequence
             \/ /\ Head(stdin) # LF
                /\ numDashesInSequence' = IF Head(stdin) = Dash THEN numDashesInSequence + 1 ELSE 0
                /\ UNCHANGED <<phase, err>>
    /\ UNCHANGED <<document, sextets, stdout, numGroups>>

-----------------------------------------------------------------------------
(* decodeB64UpToDash()                                                     *)

\* Mutant: the offset of the upper case letters is used for the lower case ones.
SextetAscii(c) ==
    CASE c \in Upper -> c - 65
      [] c \in Lower -> c - 97
      [] c \in Digit -> c + 4
      [] OTHER -> 0

Sextet(c) ==
    CASE c \in Upper -> c - 65
      [] c \in Lower -> c - 71
      [] c \in Digit -> c + 4
      [] c = Plus -> 63
      [] c = Slash -> 64
      [] c = Pad -> 0

IsSextet(c) == c \in Upper \cup Lower \cup Digit \cup {Plus, Slash, Pad}

\* "%c" prints the lowest eight bits, here of a | b.
Bit(a, b, n) == IF (a \div n) % 2 = 1 \/ (b \div n) % 2 = 1 THEN n ELSE 0
Octet(a, b) == Bit(a, b, 1) + Bit(a, b, 2) + Bit(a, b, 4) + Bit(a, b, 8)
               + Bit(a, b, 16) + Bit(a, b, 32) + Bit(a, b, 64) + Bit(a, b, 128)

Octets(s) == << Octet(s[1] * 4, s[2] \div 16), Octet((s[2] % 16) * 16, s[3] \div 4),
                Octet((s[3] % 4) * 64, s[4]) >>

\* At the dash err is what printf() returned, or not initialised before the first
\* group: then it may be negative.
DecodeB64 ==
    /\ phase = "b64" /\ stdin # <<>>
    /\ stdin' = Tail(stdin)
    /\ LET c == Head(stdin)
       IN  \/ /\ IsSextet(c) /\ Len(sextets) < 3
              /\ sextets' = Append(sextets, Sextet(c))
              /\ UNCHANGED <<phase, stdout, numGroups, err>>
           \/ /\ IsSextet(c) /\ Len(sextets) = 3
              /\ stdout' = stdout \o Octets(Append(sextets, Sextet(c)))
              /\ numGroups' = numGroups + 1
              /\ sextets' = <<>>
              /\ UNCHANGED <<phase, err>>
           \/ IsSextet(c) /\ Len(sextets) = 3              \* printf() fails
              /\ Exit(-1) /\ UNCHANGED <<sextets, stdout, numGroups>>
           \/ c = LF /\ UNCHANGED <<phase, sextets, stdout, numGroups, err>>
           \/ /\ c = Dash
              /\ \/ phase' = "trailer" /\ UNCHANGED err
                 \/ numGroups = 0 /\ Exit(-1)
              /\ UNCHANGED <<sextets, stdout, numGroups>>
           \/ /\ ~IsSextet(c) /\ c \notin {LF, Dash}
              /\ Exit(-1)
              /\ UNCHANGED <<sextets, stdout, numGroups>>
    /\ UNCHANGED <<document, numDashesInSequence>>

\* "TODO_20230825155237"
EofInB64 ==
    /\ phase = "b64" /\ stdin = <<>>
    /\ phase' = "abort"
    /\ UNCHANGED <<document, stdin, numDashesInSequence, sextets, stdout, numGroups, err>>

\* A broken trailer is only warned about; the rest is drained.
ReadTrailer ==
    /\ phase = "trailer"
    /\ stdin' = <<>>
    /\ \E e \in {0, -1} : Exit(e)                          \* ferror()
    /\ UNCHANGED <<document, numDashesInSequence, sextets, stdout, numGroups>>

\* The process is over.
Ended == phase \in {"exit", "abort"} /\ UNCHANGED pcVars

Next == ReadHeader \/ ReadLine \/ DecodeB64 \/ EofInB64 \/ ReadTrailer \/ Ended

Spec == Init /\ [][Next]_pcVars

-----------------------------------------------------------------------------
(* Properties.                                                             *)

\* The alphabet of Base64, in order.
Alphabet == [i \in 1..64 |-> IF i <= 26 THEN 64 + i ELSE IF i <= 52 THEN 70 + i
                             ELSE IF i <= 62 THEN i - 5 ELSE IF i = 63 THEN Plus ELSE Slash]

\* The digit that a character stands for; the padding stands for zeroes.
DigitOf(c) ==
    IF \E i \in 1..64 : Alphabet[i] = c THEN (CHOOSE i \in 1..64 : Alphabet[i] = c) - 1 ELSE 0

\* The octets a group of four characters stands for: 24 bits in three parts.
Decoded(g) ==
    LET bits == ((DigitOf(g[1]) * 64 + DigitOf(g[2])) * 64 + DigitOf(g[3])) * 64 + DigitOf(g[4])
    IN  <<(bits \div 256) \div 256, (bits \div 256) % 256, bits % 256>>

\* The places behind the first line and before the next dash, without the ends of lines.
EndsFirstLine(f) == document[f] = LF /\ \A j \in 1..(f - 1) : document[j] # LF
BodyPlaces ==
    {i \in DOMAIN document :
        /\ document[i] # LF
        /\ \E f \in 1..i : EndsFirstLine(f) /\ \A j \in f..i : document[j] # Dash}

\* The i-th of a set of places.
Rank(S, k) == Cardinality({m \in S : m <= k})
Nth(S, i) == CHOOSE k \in S : Rank(S, k) = i

Body == [i \in 1..Cardinality(BodyPlaces) |-> document[Nth(BodyPlaces, i)]]

\* Whatever the lines are, what is printed are three octets for every complete group of
\* the body, in order and none for any other character, and at a regular end for all of
\* them; an octet is that of Base64 unless one of the two characters it is made from is
\* '+' or '/', which the code takes for 63 and 64.
GroupsDecoded ==
    /\ 4 * numGroups <= Len(Body)
    /\ Len(stdout) = 3 * numGroups
    /\ \A k \in 1..numGroups :
          LET g == SubSeq(Body, 4*k - 3, 4*k)
          IN  /\ \A j \in 1..4 : IsSextet(g[j])
              /\ \A i \in 1..3 :
                    {g[i], g[i + 1]} \cap {Plus, Slash} = {} =>
                       stdout[3*(k - 1) + i] = Decoded(g)[i]
    /\ phase = "trailer" => numGroups = Len(Body) \div 4

-----------------------------------------------------------------------------
(* What is inductive.                                                      *)

TypeOK ==
    /\ phase \in {"header", "line", "b64", "trailer", "exit", "abort"}
    /\ document \in Documents
    /\ sextets \in Seq(0..64) /\ Len(sextets) < 4
    /\ stdout \in Seq(0..255)
    /\ numGroups \in Nat

\* How much of the document was read; at the trailer this is no longer of interest.
NumRead == Len(document) - Len(stdin)

\* Three octets were printed for each group of four.
Printed ==
    /\ 4 * numGroups <= Len(Body)
    /\ Len(stdout) = 3 * numGroups
    /\ \A k \in 1..numGroups, i \in 1..3 :
          stdout[3*(k - 1) + i] = Octets([j \in 1..4 |-> Sextet(Body[4*(k - 1) + j])])[i]
    /\ \A k \in 1..numGroups, j \in 1..4 : IsSextet(Body[4*(k - 1) + j])

\* The groups printed and the sextets kept are the characters of the body among those read.
PemInv ==
    /\ TypeOK
    /\ Printed
    /\ phase \in {"header", "line", "b64"} =>
          NumRead \in 0..Len(document) /\ stdin = SubSeq(document, NumRead + 1, Len(document))
    /\ phase \in {"header", "line"} =>
          numGroups = 0 /\ sextets = <<>> /\ \A j \in 1..NumRead : document[j] # LF
    /\ phase = "b64" =>
          /\ \E f \in 1..NumRead : EndsFirstLine(f) /\ \A j \in f..NumRead : document[j] # Dash
          /\ Rank(BodyPlaces, NumRead) = 4 * numGroups + Len(sextets)
          /\ \A j \in 1..Len(sextets) : /\ IsSextet(Body[4 * numGroups + j])
                                        /\ sextets[j] = Sextet(Body[4 * numGroups + j])
    /\ phase = "trailer" => Len(Body) = 4 * numGroups + Len(sextets)
=============================================================================
