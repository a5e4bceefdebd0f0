---------------------------- MODULE MCLogMergeRef ----------------------------
(***************************************************************************)
(* Instances of LogMergeRef for TLC.  Timestamps are 1..2, other bytes     *)
(* 7..9.                                                                   *)
(***************************************************************************)
EXTENDS LogMergeRef

MCHeaders == {1, 2}

\* Files of up to three entries over a buffer of three or four bytes: entries that
\* fill it, that exceed it, that continue on a second line, files with a
\* preamble, empty files and files that end in a bare timestamp.
Files ==
    { <<>>,
      <<7, LF>>,
      <<1, LF>>,
      <<1, LF, 2, LF>>,
      <<1, 7, LF, 1, 8, LF>>,
      <<1, 7, LF, 1, 8, LF, 2, 7, LF>>,
      <<1, 7, LF, 8, LF, 2, LF>>,
      <<7, LF, 1, 7, 7, 7, 7, LF, 2, 7, LF>>,
      <<1, 7, LF, 2, 7, LF, 2, 8, 8, 8, LF>>,
      <<1, 8, LF, 1, 7, LF>>,
      <<2, 7, LF, 1>> }

RefInputs == [Source -> Files]

\* What de-duplication makes of an entry that continues another one.
PrefixInputs == {[s \in Source |-> IF s = 1 THEN <<1, 7, LF>> ELSE <<1, 7, 8, LF>>]}

\* A file whose last line has no newline.
NoTrailingLF == {[s \in Source |-> <<1, 7, LF, 2, 8>>]}
=============================================================================
