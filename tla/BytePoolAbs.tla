----------------------------- MODULE BytePoolAbs -----------------------------
(***************************************************************************)
(* What BytePool promises: alloc() hands out at most what is free, and     *)
(* shrinkTo() gives bytes back, each at one moment.  "the caller may only  *)
(* receive less than requested", so an alloc() may get any part of what is *)
(* free.  A negative request adds to what is free, and the instance then   *)
(* gives nothing back, unless the difference is too large for an int.      *)
(***************************************************************************)
EXTENDS Integers

CONSTANTS Handle, PoolSize, MaxInt, Requests

VARIABLES free, owned, live

absVars == <<free, owned, live>>

AbsInit ==
    /\ free = PoolSize
    /\ owned = [h \in Handle |-> 0]
    /\ live = {}

AbsAlloc(h) ==
    /\ h \notin live
    /\ live' = live \cup {h}
    /\ \E requested \in Requests : \E n \in (0..requested) \cup {requested} :
           /\ n <= free
           /\ owned' = [owned EXCEPT ![h] = n]
           /\ free' = free - n

AbsShrink(h) ==
    /\ h \in live
    /\ \E n \in 0..owned[h] :
           /\ owned' = [owned EXCEPT ![h] = n]
           /\ free' = free + owned[h] - n
    /\ UNCHANGED live

AbsOverflow(h) ==
    /\ h \in live
    /\ owned[h] < 0
    /\ \E n \in 1..MaxInt :
           /\ owned[h] - n < -MaxInt - 1
           /\ owned' = [owned EXCEPT ![h] = n]
           /\ free' = free + owned[h] - n + 2 * (MaxInt + 1)
    /\ UNCHANGED live

AbsNext == \E h \in Handle : AbsAlloc(h) \/ AbsShrink(h) \/ AbsOverflow(h)

AbsSpec == AbsInit /\ [][AbsNext]_absVars
=============================================================================
