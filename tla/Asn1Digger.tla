----------------------------- MODULE Asn1Digger -----------------------------
(***************************************************************************)
(* Asn1Digger.c: reads tags and prints their values as hex dumps, a buffer *)
(* at a time.  One action per function that run() dispatches to.           *)
(*                                                                         *)
(* A length from 2^31 on is a negative number of remaining octets: len is  *)
(* the int with its bits.  Such a value has no buffer's end to stop at.    *)
(***************************************************************************)
EXTENDS Integers, Sequences, FiniteSetsExt

CONSTANTS
    Asn1Documents,  \* sequences of octets
    InnBufCap       \* sizeof innBuf

VARIABLES
    funcToCall,         \* or exit, or overrun: innBuf was left, anything may happen
    hexCols,
    stdin,              \* the document
    numRead,            \* octets read from it
    type, len,
    remainValueBytes,
    hexDumpOffs,
    innBuf,
    stdout,             \* the tags printed, with the lines of their dumps
    err

adVars == <<funcToCall, hexCols, stdin, numRead, type, len, remainValueBytes, hexDumpOffs,
            innBuf, stdout, err>>

\* Arguments: an option and its value, NoValue if there is none; what is not a
\* number is 0 to strtol().
NoValue == -1
Refused(a) == \/ a.opt \notin {"--help", "-c", "--gpg", "--no-gpg"}
              \/ a.opt = "-c" /\ a.val = NoValue

\* The number of columns; 0 for help, -1 if it is refused.
ParseArgs(argv) ==
    LET stops == {i \in DOMAIN argv : argv[i].opt = "--help" \/ Refused(argv[i])}
        c == {i \in DOMAIN argv : argv[i].opt = "-c"}
        cols == IF c = {} THEN 16 ELSE argv[Max(c)].val
    IN  IF stops # {} THEN IF Refused(argv[Min(stops)]) THEN -1 ELSE 0
        ELSE IF cols \in 1..48 THEN cols ELSE -1

Opt(o, v) == [opt |-> o, val |-> v]
Argvs == { <<>>, <<Opt("-c", 3), Opt("--gpg", 0)>>, <<Opt("-c", 3), Opt("-c", 4)>>, <<Opt("-c", 1)>>,
           <<Opt("-c", 49)>>, <<Opt("--gpg", 0), Opt("-c", NoValue)>>, <<Opt("--help", 0)>> }

Init ==
    /\ \E argv \in Argvs :
          /\ hexCols = ParseArgs(argv)
          /\ funcToCall = IF hexCols <= 0 THEN "exit" ELSE "asnType"
          /\ err = IF hexCols = -1 THEN 1 ELSE 0
    /\ stdin \in Asn1Documents
    /\ numRead = 0
    /\ type = 0 /\ len = 0
    /\ remainValueBytes = 0
    /\ hexDumpOffs = 0
    /\ innBuf = <<>>
    /\ stdout = <<>>

Exit(e) == funcToCall' = "exit" /\ err' = e

\* fread() fails.
ReadError ==
    /\ funcToCall \in {"asnType", "asnLength", "hexDump_readChunk"}
    /\ Exit(1)
    /\ UNCHANGED <<hexCols, stdin, numRead, type, len, remainValueBytes, hexDumpOffs, innBuf, stdout>>

AsnType ==
    /\ funcToCall = "asnType"
    /\ IF numRead = Len(stdin)
       THEN Exit(0) /\ UNCHANGED <<numRead, type>>
       ELSE /\ numRead' = numRead + 1
            /\ type' = stdin[numRead + 1] % 32
            /\ funcToCall' = "asnLength" /\ UNCHANGED err
    /\ UNCHANGED <<hexCols, stdin, len, remainValueBytes, hexDumpOffs, innBuf, stdout>>

\* app->len << n*7, in 32 bits and read as an int.
Shifted(l, n) ==
    LET bits == l % 2^(32 - 7*n)
    IN  (IF bits < 2^(31 - 7*n) THEN bits ELSE bits - 2^(32 - 7*n)) * 2^(7*n)

\* The length that the one to four octets s stand for. In the long form the first one,
\* too, counts.
LengthOf(s) ==
    LET With(l, n) == IF n > Len(s) THEN l ELSE Shifted(l, n) + (s[n] % 128)
    IN  IF s[1] % 32 = 31 THEN With(With(With(With(0, 1), 2), 3), 4) ELSE s[1] % 32

\* The octets of a length: in the long form up to one without the highest bit. At
\* most four; the fifth is refused when it is read. The end of the input within them
\* is no error.
AsnLength ==
    /\ funcToCall = "asnLength"
    /\ LET rest == SubSeq(stdin, numRead + 1, Len(stdin))
           IsLast(n) == rest[n] < 128 \/ (n = 1 /\ rest[1] % 32 # 31)
           ends == {n \in DOMAIN rest : IsLast(n)}
           n == Min(ends)
       IN  IF ends # {} /\ n <= 4
           THEN /\ numRead' = numRead + n
                /\ len' = LengthOf(SubSeq(rest, 1, n))
                /\ funcToCall' = "asnValue" /\ UNCHANGED err
           ELSE /\ numRead' = numRead + Min({Len(rest), 5})
                /\ Exit(IF Len(rest) >= 5 THEN 1 ELSE 0)
                /\ UNCHANGED len
    /\ UNCHANGED <<hexCols, stdin, type, remainValueBytes, hexDumpOffs, innBuf, stdout>>

\* Prints the tag. A sequence is entered: its value is read as tags.
IsDumped(t, l) == l # 0 /\ t # 16

AsnValue ==
    /\ funcToCall = "asnValue"
    /\ stdout' = Append(stdout, [type |-> type, len |-> len, from |-> numRead, dump |-> <<>>])
    /\ IF IsDumped(type, len)
       THEN /\ remainValueBytes' = len
            /\ hexDumpOffs' = 0
            /\ funcToCall' = "hexDump_readChunk"
       ELSE funcToCall' = "asnType" /\ UNCHANGED <<remainValueBytes, hexDumpOffs>>
    /\ UNCHANGED <<hexCols, stdin, numRead, type, len, innBuf, err>>

Rest == Len(stdin) - numRead

\* The part that would not fill a line is taken off only if it is longer than all of
\* it, hence never.
ReadLen ==
    LET n == Min({remainValueBytes, InnBufCap})
    IN  IF n % hexCols # 0 /\ n < n % hexCols THEN n - (n % hexCols) ELSE n

\* What fread() may deliver. MIN() takes a negative remainder, which as a size_t is more
\* than any input has: then the C library decides how much of the rest comes at once.
Delivered ==
    IF remainValueBytes >= 0 THEN { Min({ReadLen, Rest}) }
    ELSE IF Rest = 0 THEN {0} ELSE 1..Min({Rest, InnBufCap})

\* a - n in 32 bits.
MaxInt == 2^30 + (2^30 - 1)
Minus(a, n) ==
    IF a < 0 /\ a + MaxInt + 1 < n THEN (a + MaxInt + 1) - n + 1 + MaxInt ELSE a - n

HexDump_readChunk ==
    /\ funcToCall = "hexDump_readChunk"
    /\ \E n \in Delivered :
          IF n = 0
          THEN /\ Exit(IF remainValueBytes > 0 THEN 1 ELSE 0)
               /\ UNCHANGED <<numRead, innBuf, remainValueBytes>>
          ELSE /\ innBuf' = SubSeq(stdin, numRead + 1, numRead + n)
               /\ numRead' = numRead + n
               /\ remainValueBytes' = Minus(remainValueBytes, n)
               /\ funcToCall' = "hexDump_dumpFromBuf" /\ UNCHANGED err
    /\ UNCHANGED <<hexCols, stdin, type, len, hexDumpOffs, stdout>>

\* It delivers more than innBuf has room for.
Overrun ==
    /\ funcToCall = "hexDump_readChunk"
    /\ remainValueBytes < 0 /\ Rest > InnBufCap
    /\ funcToCall' = "overrun"
    /\ UNCHANGED <<hexCols, stdin, numRead, type, len, remainValueBytes, hexDumpOffs, innBuf,
                   stdout, err>>

\* A line begins with the chunk, and wherever a multiple of hexCols is reached; only
\* the latter print the offset. The ASCI column holds the octets of the line.
Lines ==
    LET end == hexDumpOffs + Len(innBuf)
        first == hexDumpOffs \div hexCols
        From(row) == IF row = first THEN hexDumpOffs ELSE row * hexCols
        To(row) == Min({(row + 1) * hexCols, end})
        Line(row) == [ offs |-> From(row),
                       octets |-> SubSeq(innBuf, From(row) - hexDumpOffs + 1,
                                                 To(row) - hexDumpOffs) ]
    IN  [k \in 1..((end - 1) \div hexCols - first + 1) |-> Line(first + k - 1)]

\* Mutant: the offset starts over with every chunk.
OffsInChunk == Len(innBuf)

OffsAfter == hexDumpOffs + Len(innBuf)

HexDump_dumpFromBuf ==
    /\ funcToCall = "hexDump_dumpFromBuf"
    /\ stdout' = [stdout EXCEPT ![Len(stdout)].dump = @ \o Lines]
    /\ hexDumpOffs' = OffsAfter
    /\ funcToCall' = IF remainValueBytes = 0 THEN "asnType" ELSE "hexDump_readChunk"
    /\ UNCHANGED <<hexCols, stdin, numRead, type, len, remainValueBytes, innBuf, err>>

Ended == funcToCall \in {"exit", "overrun"} /\ UNCHANGED adVars

Next == \/ ReadError \/ AsnType \/ AsnLength \/ AsnValue
        \/ HexDump_readChunk \/ Overrun \/ HexDump_dumpFromBuf \/ Ended

\* The octets a tag has behind it, where a line ends, and how much of the value the lines
\* of a dump have shown.
Value(t) == IF IsDumped(t.type, t.len) THEN t.len ELSE 0
End(line) == line.offs + Len(line.octets)
Shown(dump) == IF dump = <<>> THEN 0 ELSE End(dump[Len(dump)])

\* The lines of a dump show the value that begins in s behind the first from octets: each
\* is one to C octets long, begins where the one before it ends, and has what is there.
ShowsInOrder(s, C, from, dump) ==
    \A j \in DOMAIN dump :
        LET l == dump[j]
        IN  /\ l.offs = IF j = 1 THEN 0 ELSE End(dump[j - 1])
            /\ Len(l.octets) \in 1..C
            /\ l.octets = SubSeq(s, from + l.offs + 1, from + l.offs + Len(l.octets))

\* However a value of less than 2^31 octets is cut into buffers, its lines show it in
\* order, no octet twice and none behind it; the next tag (type and one to four octets
\* of length) is read right behind it, when all of it has been shown; success means that
\* no value was cut off; and no buffer is left unless a longer one is on.
DumpFollowsInput ==
    /\ \A i \in DOMAIN stdout :
          LET t == stdout[i]
          IN  Value(t) >= 0 =>
                 /\ ShowsInOrder(stdin, hexCols, t.from, t.dump)
                 /\ Shown(t.dump) <= Value(t)
                 /\ i < Len(stdout) \/ (funcToCall = "exit" /\ err = 0) =>
                       Shown(t.dump) = Value(t)
                 /\ i < Len(stdout) => stdout[i+1].from - (t.from + Value(t)) \in 2..5
    /\ funcToCall = "overrun" => Value(stdout[Len(stdout)]) < 0
=============================================================================
