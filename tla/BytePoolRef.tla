----------------------------- MODULE BytePoolRef -----------------------------
(***************************************************************************)
(* BytePool implements BytePoolAbs: bytes on their way back are free       *)
(* already, and an instance owns its bytes once they left the pool.        *)
(***************************************************************************)
EXTENDS BytePool

\* The calls whose constructor of h has its bytes, but has not stored their number.
Constructing(h) == {t \in Thread : pc[t] = "allocSet" /\ loc[t].h = h}

Owned == [h \in Handle |->
            IF Constructing(h) = {} THEN amount[h]
            ELSE loc[CHOOSE t \in Constructing(h) : TRUE].diff]

Returning == [t \in Thread |-> IF pc[t] \in {"backRead", "backCas"} THEN loc[t].diff ELSE 0]

Free == pool + Cardinality(Bytes(Returning))

Abs == INSTANCE BytePoolAbs WITH
           free <- Free, owned <- Owned,
           live <- born \cup {h \in Handle : Constructing(h) # {}}

\* The compareAndSet() loops take effect at one moment each: alloc() as it takes bytes
\* from the pool, shrinkTo() as it takes them from the instance.
ImplementsPool == Abs!AbsSpec
=============================================================================
