----------------------------- MODULE MCBytePool -----------------------------
(***************************************************************************)
(* BytePool for TLC.                                                       *)
(***************************************************************************)
EXTENDS BytePoolRef

\* -5 is the smallest int when MaxInt is 4: -5 - 1 wraps around, -5 - 0 does not.
MCRequests == {-5, 1, 2, 4}
MCLengths == {-1, 1}
=============================================================================
