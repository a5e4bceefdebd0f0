------------------------- MODULE ConcatInputStream --------------------------
(***************************************************************************)
(* ConcatInputStream.java: several input streams read as one.              *)
(*                                                                         *)
(* A byte is its source and its place in it.  The loop of read() is one    *)
(* step per turn.  A source may return fewer bytes than it was asked for,  *)
(* and its read() and close() may throw.                                   *)
(***************************************************************************)
EXTENDS Integers, Sequences, SequencesExt, FiniteSetsExt

CONSTANTS
    SourceLengths,  \* possible lengths of the sources, sequences of naturals
    MaxWant         \* most bytes asked for by one read()

VARIABLES
    lengths,        \* of the sources
    sourcesIsNull,  \* sources = null
    iSrc,           \* from zero
    pos,            \* bytes taken from the current source
    reading,
    want,           \* len
    got,            \* the bytes copied to the caller's array so far
    returned,       \* bytes of the calls that returned
    lost,           \* bytes of the calls that threw
    eof,            \* a call has returned -1
    closes          \* calls of close() per source

ciVars == <<lengths, sourcesIsNull, iSrc, pos, reading, want, got, returned, lost, eof, closes>>

Init ==
    /\ lengths \in SourceLengths
    /\ sourcesIsNull = FALSE
    /\ iSrc = 0
    /\ pos = 0
    /\ reading = FALSE
    /\ want = 0
    /\ got = <<>>
    /\ returned = <<>>
    /\ lost = {}
    /\ eof = FALSE
    /\ closes = [i \in DOMAIN lengths |-> 0]

IsEof == iSrc >= Len(lengths)

\* read( byte[] ), and read() as the request for one byte.  After close() it
\* throws and nothing changes.
Read(n) ==
    /\ ~reading /\ ~sourcesIsNull
    /\ reading' = TRUE
    /\ want' = n
    /\ UNCHANGED <<lengths, sourcesIsNull, iSrc, pos, got, returned, lost, eof, closes>>

Return ==
    /\ reading' = FALSE
    /\ returned' = returned \o got
    /\ got' = <<>>
    /\ want' = 0

\* What was already copied is in the caller's array, but he is not told.
Throw ==
    /\ reading' = FALSE
    /\ lost' = lost \cup ToSet(got)
    /\ got' = <<>>
    /\ want' = 0

Served ==
    /\ reading /\ Len(got) = want
    /\ Return
    /\ UNCHANGED <<lengths, sourcesIsNull, iSrc, pos, lost, eof, closes>>

AtEof ==
    /\ reading /\ Len(got) < want
    /\ IsEof
    /\ Return
    /\ eof' = (eof \/ got = <<>>)
    /\ UNCHANGED <<lengths, sourcesIsNull, iSrc, pos, lost, closes>>

\* Mutant: every read goes to the begin of the caller's range.
StoreAtOff(bytes) ==
    [i \in 1..Max({Len(got), Len(bytes)}) |-> IF i <= Len(bytes) THEN bytes[i] ELSE got[i]]

\* src.read( b, off + copied, len - copied )
Store(bytes) == got \o bytes

SrcRead ==
    /\ reading /\ Len(got) < want /\ ~IsEof
    /\ \/ \E k \in 1..Min({want - Len(got), lengths[iSrc + 1] - pos}) :
            /\ got' = Store([i \in 1..k |-> <<iSrc + 1, pos + i>>])
            /\ pos' = pos + k
            /\ UNCHANGED <<reading, want, lost>>
       \/ Throw /\ UNCHANGED pos
    /\ UNCHANGED <<lengths, sourcesIsNull, iSrc, returned, eof, closes>>

\* Mutant: iSrc is incremented after the source was closed.
SrcAfterClose(ok) == IF ok THEN iSrc + 1 ELSE iSrc

\* shiftToNextSource() increments iSrc before it closes the source.
SrcAfterShift(ok) == iSrc + 1

\* The source is drained.
ShiftToNextSource ==
    /\ reading /\ Len(got) < want /\ ~IsEof
    /\ pos = lengths[iSrc + 1]
    /\ closes' = [closes EXCEPT ![iSrc + 1] = @ + 1]
    /\ \E ok \in BOOLEAN :
         /\ iSrc' = SrcAfterShift(ok)
         /\ pos' = IF iSrc' = iSrc THEN pos ELSE 0
         /\ IF ok THEN UNCHANGED <<reading, want, got, lost>> ELSE Throw
    /\ UNCHANGED <<lengths, sourcesIsNull, returned, eof>>

\* Every remaining source is closed, whichever of them throw.
Close ==
    /\ ~reading /\ ~sourcesIsNull
    /\ closes' = [i \in DOMAIN lengths |-> IF i > iSrc THEN closes[i] + 1 ELSE closes[i]]
    /\ sourcesIsNull' = TRUE
    /\ UNCHANGED <<lengths, iSrc, pos, reading, want, got, returned, lost, eof>>

\* A closed stream: read() and close() throw.
Ended == sourcesIsNull /\ UNCHANGED ciVars

Next ==
    \/ \E n \in 0..MaxWant : Read(n)
    \/ Served \/ AtEof \/ SrcRead \/ ShiftToNextSource \/ Close \/ Ended

Spec == Init /\ [][Next]_ciVars

-----------------------------------------------------------------------------
(* Properties.                                                             *)

\* Byte a comes before byte b.
Earlier(a, b) == a[1] < b[1] \/ (a[1] = b[1] /\ a[2] < b[2])

\* A sequence of bytes in their order, none of them twice.
InOrder(bytes) ==
    \A i, j \in 1..Len(bytes) : i < j => Earlier(bytes[i], bytes[j])

\* What was taken from source s.
TakenOf(s) == IF s <= iSrc THEN lengths[s] ELSE IF s = iSrc + 1 THEN pos ELSE 0
Taken == UNION { {s} \X (1..TakenOf(s)) : s \in 1..Len(lengths) }

\* The caller gets the bytes of all sources in order, each of them once, except those
\* of calls that threw, and the end only after the last source: short reads, empty
\* sources and exceptions in between change neither.
BytesInOrder ==
    /\ InOrder(returned \o got)
    /\ ToSet(returned \o got) = Taken \ lost
    /\ eof => IsEof

\* No source is closed twice, even if closing it throws; no source that may still be
\* read is closed; and after close() all of them are.
EverySourceClosedOnce ==
    \A i \in DOMAIN lengths : closes[i] = IF sourcesIsNull \/ i <= iSrc THEN 1 ELSE 0

-----------------------------------------------------------------------------
(* What is inductive.                                                      *)

TypeOK ==
    /\ lengths \in Seq(Nat) /\ iSrc \in 0..Len(lengths) /\ pos \in Nat
    /\ sourcesIsNull \in BOOLEAN /\ reading \in BOOLEAN /\ eof \in BOOLEAN
    /\ want \in Nat
    /\ returned \in Seq(Nat \X Nat) /\ got \in Seq(Nat \X Nat)
    /\ closes \in [DOMAIN lengths -> Nat]

\* The place in the current source is within it, the bytes lost were taken, and the
\* stream is not closed while it is read from: read() is not reentrant.
ConcatInv ==
    /\ TypeOK
    /\ IF IsEof THEN pos = 0 ELSE pos <= lengths[iSrc + 1]
    /\ reading => ~sourcesIsNull
    /\ ~reading => got = <<>>
    /\ lost \subseteq Taken
    /\ BytesInOrder /\ EverySourceClosedOnce
=============================================================================
