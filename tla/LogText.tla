------------------------------- MODULE LogText -------------------------------
(***************************************************************************)
(* The text that src/src/main/paisa/LogMerge.c reads and compares.         *)
(*                                                                         *)
(* A text is a sequence of tokens, and a token is a natural number so that *)
(* memcmp() can compare it.  LF is the newline.  A token of Headers stands *)
(* for the twenty bytes the pattern of initStuff() matches (an ISO         *)
(* timestamp and one more byte); every other token is any other byte.      *)
(***************************************************************************)
EXTENDS Naturals, Sequences

CONSTANT Headers    \* timestamps, in the order memcmp() gives them

LF == 0             \* below every digit and letter, as '\n' is

ASSUME HeadersAssumption == Headers \subseteq Nat \ {LF}

Text == Seq(Nat)

\* memcmp(a, b, MIN(Len(a), Len(b))) < 0
Lower(a, b) ==
    \E i \in 1..Len(a) : /\ i <= Len(b)
                         /\ a[i] < b[i]
                         /\ \A j \in 1..(i - 1) : a[j] = b[j]

\* memcmp(a, b, MIN(Len(a), Len(b))) = 0: it is enough that one text is a
\* prefix of the other.
SameStart(a, b) == \A i \in 1..Len(a) : i <= Len(b) => a[i] = b[i]
=============================================================================
