------------------------------ MODULE MCLogMerge ------------------------------
(***************************************************************************)
(* Instances of LogMerge for TLC.  Timestamps are 1..3, other bytes 7..9.  *)
(***************************************************************************)
EXTENDS LogMergeInv

MCHeaders == 1..3

\* Four sources with one entry each: all the interleavings of the threads, little
\* data.
SchedInputs == {[s \in Source |-> <<1, LF>>]}

\* Empty files, entries that fit the first buffer, that make it grow, and files in which
\* nothing is found within MaxEntry bytes.
FaultInputs ==
    [Source -> {<<>>, <<1, LF>>, <<1, 7, 8, LF, 2, LF>>, <<7, LF, 3, 7, LF, 1, LF>>,
                <<7, 7, 7, 7, 7, 7, LF, 1, LF>>}]
=============================================================================
