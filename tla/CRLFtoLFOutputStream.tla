------------------------ MODULE CRLFtoLFOutputStream ------------------------
(***************************************************************************)
(* CRLFtoLFOutputStream.java: replaces every CR LF by LF on the way to     *)
(* another stream, with one byte held back.                                *)
(*                                                                         *)
(* The other stream may throw; the caller may go on.  write( byte[] ) and  *)
(* close() are those of java.io.FilterOutputStream: a write( int ) for     *)
(* every byte, and a flush().                                              *)
(***************************************************************************)
EXTENDS Integers, Sequences, SequencesExt

CONSTANTS
    Given,          \* the numbers that callers pass for a byte
    MaxFed          \* bound on the number of calls

CR == 13
LF == 10
EMPTY == -42
FLUSH == 256        \* in fed: flush() was called here

VARIABLES
    previous,
    dst,            \* what the other stream has got
    fed             \* accepted bytes and calls of flush(), in order

clVars == <<previous, dst, fed>>

Init == previous = EMPTY /\ dst = <<>> /\ fed = <<>>

\* Mutant: the CR is kept although its LF was written.
KeepsCR == previous

AfterCRLF == EMPTY

\* The three high octets are cleared. If the other stream throws, the byte is not
\* accepted and nothing changes.
Write(given) ==
    LET current == given % 256
    IN  /\ Len(fed) < MaxFed
        /\ fed' = Append(fed, current)
        /\ \/ /\ previous = CR /\ current = LF
              /\ dst' = Append(dst, current)
              /\ previous' = AfterCRLF
           \/ /\ previous = EMPTY
              /\ previous' = current
              /\ UNCHANGED dst
           \/ /\ previous # EMPTY /\ ~(previous = CR /\ current = LF)
              /\ dst' = Append(dst, previous)
              /\ previous' = current

\* The byte held back is written, or lost if the other stream throws.
Flush ==
    /\ Len(fed) < MaxFed
    /\ previous' = EMPTY
    /\ \/ /\ dst' = IF previous = EMPTY THEN dst ELSE Append(dst, previous)
          /\ fed' = Append(fed, FLUSH)
       \/ /\ previous # EMPTY
          /\ fed' = Append(Front(fed), FLUSH)
          /\ UNCHANGED dst

\* The bound is reached.
Full == Len(fed) = MaxFed /\ UNCHANGED clVars

Next ==
    \/ \E given \in Given : Write(given)
    \/ Flush \/ Full

Spec == Init /\ [][Next]_clVars

-----------------------------------------------------------------------------
(* Properties.                                                             *)

HeldBack == IF previous = EMPTY THEN <<>> ELSE <<previous>>

\* The i-th of a set of places.
Rank(S, k) == Cardinality({m \in S : m <= k})
Nth(S, i) == CHOOSE k \in S : Rank(S, k) = i

\* fed without the CRs that are directly followed by a LF.
Translated ==
    LET keep == {i \in 1..Len(fed) :
                    /\ fed[i] # FLUSH
                    /\ ~(fed[i] = CR /\ i < Len(fed) /\ fed[i + 1] = LF)}
    IN  [i \in 1..Cardinality(keep) |-> fed[Nth(keep, i)]]

\* At any time the output and the byte held back are what was written, with CR LF
\* replaced by LF; only a flush() between the two separates them.  A stream that
\* throws in between costs at most the byte a flush() tried to write.
OnlyCRLFReplaced == dst \o HeldBack = Translated

-----------------------------------------------------------------------------
(* What is inductive.                                                      *)

Byte == 0..255

TypeOK ==
    /\ previous \in Byte \cup {EMPTY}
    /\ dst \in Seq(Byte)
    /\ fed \in Seq(Byte \cup {FLUSH})

\* The byte held back is the last one fed, and not the LF of a CR LF; if none is, then
\* the last one is no CR, so that a LF behind it stands for itself.
CRLFInv ==
    /\ TypeOK
    /\ previous # EMPTY =>
          /\ Len(fed) > 0 /\ fed[Len(fed)] = previous
          /\ ~(Len(fed) > 1 /\ fed[Len(fed) - 1] = CR /\ previous = LF)
    /\ previous = EMPTY => Len(fed) = 0 \/ fed[Len(fed)] # CR
    /\ OnlyCRLFReplaced
=============================================================================
