------------------------------- MODULE BytePool -------------------------------
(***************************************************************************)
(* BytePool.java: a shared budget of bytes, kept by threads without a lock.*)
(*                                                                         *)
(* The pool and the amount of every AllocatedBytes are atomic integers.    *)
(* alloc() and shrinkTo() change them with compareAndSet() loops, one      *)
(* atomic access per step below.  An AllocatedBytes is known to all        *)
(* threads once its constructor is over.  Nobody checks what alloc() is    *)
(* called with: an instance may be requested with a negative number.       *)
(* Amounts are ints and wrap around; the pool is a long, whose bounds are  *)
(* left out.                                                               *)
(***************************************************************************)
EXTENDS Integers, FiniteSets

CONSTANTS
    Thread,
    Handle,     \* the instances of AllocatedBytes that will be created
    PoolSize,   \* poolSize
    MaxInt,     \* Integer.MAX_VALUE
    Requests,   \* what alloc() is called with
    Lengths     \* what shrinkTo() is called with; close() is shrinkTo(0)

\* Java's int.
JInt == (-MaxInt - 1)..MaxInt

ASSUME BytePoolAssumption ==
    /\ PoolSize \in Nat
    /\ Handle # {}
    /\ MaxInt \in Nat
    /\ Requests \subseteq JInt
    /\ Lengths \subseteq JInt

VARIABLES
    pool,       \* the bytes nobody owns
    amount,     \* AllocatedBytes.amount
    born,       \* the instances whose constructor is over
    pc,         \* where each thread is
    loc,        \* the local variables of its call
    overflowed  \* history: bytes were given back of which the int difference wrapped

vars == <<pool, amount, born, pc, loc, overflowed>>

AnyHandle == CHOOSE h \in Handle : TRUE

\* The locals of a call for the instance inst with the argument arg, and whether
\* the call ended in an exception.
Locals(inst, arg, ended) ==
    [h |-> inst, n |-> arg, oldVal |-> 0, diff |-> 0, threw |-> ended]

NoCall == Locals(AnyHandle, 0, FALSE)

Init ==
    /\ pool = PoolSize
    /\ amount = [h \in Handle |-> 0]
    /\ born = {}
    /\ pc = [t \in Thread |-> "idle"]
    /\ loc = [t \in Thread |-> NoCall]
    /\ overflowed = FALSE

Goto(t, l) == pc' = [pc EXCEPT ![t] = l]

Call(t, h, n) == pc[t] = "idle" /\ loc' = [loc EXCEPT ![t] = Locals(h, n, FALSE)]

\* The call is over, or ended by an exception.
Returned(t) == Goto(t, "idle") /\ loc' = [loc EXCEPT ![t] = NoCall]
Throw(t, n, old) ==
    Goto(t, "idle") /\ loc' = [loc EXCEPT ![t] = [Locals(AnyHandle, n, TRUE) EXCEPT !.oldVal = old]]

-----------------------------------------------------------------------------
(* alloc()                                                                 *)

\* No instance is constructed twice.
Alloc(t, h, requested) ==
    /\ h \notin born
    /\ \A u \in Thread : pc[u] \in {"allocRead", "allocCas", "allocSet"} => loc[u].h # h
    /\ Call(t, h, requested)
    /\ Goto(t, "allocRead")
    /\ UNCHANGED <<pool, amount, born, overflowed>>

AllocRead(t) ==
    /\ pc[t] = "allocRead"
    /\ loc' = [loc EXCEPT ![t].oldVal = pool]
    /\ Goto(t, "allocCas")
    /\ UNCHANGED <<pool, amount, born, overflowed>>

\* Mutant: the pool may go below zero.
Overdraw(old, requested) == old - requested

\* Math.max(0, oldVal - requested): a negative request adds to the pool.
Taken(old, requested) == IF old > requested THEN old - requested ELSE 0

\* Mutant: the old value is not read again.
RetrySame(t, read, cas) == Goto(t, cas) /\ UNCHANGED loc

\* compareAndSet() failed: the loop starts over.
Retry(t, read, cas) == Goto(t, read) /\ UNCHANGED loc

AllocCas(t) ==
    /\ pc[t] = "allocCas"
    /\ LET old == loc[t].oldVal
           new == Taken(old, loc[t].n)
       IN  IF pool = old
           THEN /\ pool' = new
                /\ loc' = [loc EXCEPT ![t].diff = old - new]
                /\ Goto(t, "allocSet")
           ELSE Retry(t, "allocRead", "allocCas") /\ UNCHANGED pool
    /\ UNCHANGED <<amount, born, overflowed>>

\* The amount is at most what was requested, or a negative request itself: an int,
\* which the cast keeps.
AllocSet(t) ==
    /\ pc[t] = "allocSet"
    /\ amount' = [amount EXCEPT ![loc[t].h] = loc[t].diff]
    /\ born' = born \cup {loc[t].h}
    /\ Returned(t)
    /\ UNCHANGED <<pool, overflowed>>

-----------------------------------------------------------------------------
(* shrinkTo()                                                              *)

ShrinkTo(t, h, newLength) ==
    /\ h \in born
    /\ pc[t] = "idle"
    /\ \/ /\ newLength < 0
          /\ Throw(t, newLength, 0)
       \/ /\ newLength >= 0
          /\ amount[h] = newLength
          /\ Returned(t)
       \/ /\ newLength >= 0
          /\ amount[h] # newLength
          /\ Call(t, h, newLength)
          /\ Goto(t, "shrinkRead")
    /\ UNCHANGED <<pool, amount, born, overflowed>>

\* AutoCloseable.close()
Close(t, h) == ShrinkTo(t, h, 0)

\* oldVal - newLength as an int. It is too small for one only if oldVal is negative.
Diff(old, newLength) ==
    IF old - newLength \in JInt THEN old - newLength ELSE old - newLength + 2 * (MaxInt + 1)

\* Mutant: nothing to give back is an error as well.
CannotShrinkToSame(diff) == diff <= 0

CannotShrink(diff) == diff < 0

ShrinkRead(t) ==
    /\ pc[t] = "shrinkRead"
    /\ LET old == amount[loc[t].h]
           diff == Diff(old, loc[t].n)
       IN  IF CannotShrink(diff)
           THEN Throw(t, loc[t].n, old)
           ELSE /\ loc' = [loc EXCEPT ![t].oldVal = old, ![t].diff = diff]
                /\ Goto(t, "shrinkCas")
    /\ UNCHANGED <<pool, amount, born, overflowed>>

\* Mutant: the amount is set without looking at it again.
SetAmountAnyway(old, now) == TRUE

\* compareAndSet() succeeds.
AmountUnchanged(old, now) == old = now

ShrinkCas(t) ==
    /\ pc[t] = "shrinkCas"
    /\ IF AmountUnchanged(loc[t].oldVal, amount[loc[t].h])
       THEN /\ amount' = [amount EXCEPT ![loc[t].h] = loc[t].n]
            /\ Goto(t, "backRead")
            /\ overflowed' = (overflowed \/ loc[t].oldVal - loc[t].n \notin JInt)
            /\ UNCHANGED loc
       ELSE Retry(t, "shrinkRead", "shrinkCas") /\ UNCHANGED <<amount, overflowed>>
    /\ UNCHANGED <<pool, born>>

BackRead(t) ==
    /\ pc[t] = "backRead"
    /\ loc' = [loc EXCEPT ![t].oldVal = pool]
    /\ Goto(t, "backCas")
    /\ UNCHANGED <<pool, amount, born, overflowed>>

\* Nobody in the repository waits for the notifyAll() that follows.
BackCas(t) ==
    /\ pc[t] = "backCas"
    /\ IF pool = loc[t].oldVal
       THEN pool' = loc[t].oldVal + loc[t].diff /\ Returned(t)
       ELSE Retry(t, "backRead", "backCas") /\ UNCHANGED pool
    /\ UNCHANGED <<amount, born, overflowed>>

-----------------------------------------------------------------------------
Begin(t) ==
    \E h \in Handle :
        \/ \E r \in Requests : Alloc(t, h, r)
        \/ \E n \in Lengths : ShrinkTo(t, h, n)
        \/ Close(t, h)

Step(t) ==
    \/ AllocRead(t) \/ AllocCas(t) \/ AllocSet(t)
    \/ ShrinkRead(t) \/ ShrinkCas(t) \/ BackRead(t) \/ BackCas(t)

Next == \E t \in Thread : Begin(t) \/ Step(t)

Spec == Init /\ [][Next]_vars

\* A thread that is inside a call goes on with it.
FairSpec == Spec /\ \A t \in Thread : WF_vars(Step(t))

-----------------------------------------------------------------------------
(* Properties.                                                             *)

Local == [h : Handle, n : JInt, oldVal : Int, diff : Int, threw : BOOLEAN]

\* The pool is never negative, and an amount only if just that was requested, although
\* both are computed from values that may have changed since.
TypeOK ==
    /\ pool \in Nat
    /\ amount \in [Handle -> JInt]
    /\ \A h \in Handle : amount[h] < 0 => amount[h] \in Requests
    /\ born \subseteq Handle
    /\ pc \in [Thread -> {"idle", "allocRead", "allocCas", "allocSet",
                          "shrinkRead", "shrinkCas", "backRead", "backCas"}]
    /\ loc \in [Thread -> Local]
    /\ overflowed \in BOOLEAN

\* Bytes a thread has taken from one of the two counters and not yet added to
\* the other.
Carried(t) == IF pc[t] \in {"allocSet", "backRead", "backCas"} THEN loc[t].diff ELSE 0

\* What is outside of the pool is held by an instance or by a call.
Holder == ({"instance"} \X Handle) \cup ({"call"} \X Thread)
Held == [x \in Holder |-> IF x[1] = "instance" THEN amount[x[2]] ELSE Carried(x[2])]

\* As many pairs as there are bytes in f: the sum of its positive values as a
\* cardinality. And of its negative ones.
Bytes(f) == UNION { {x} \X (1..f[x]) : x \in DOMAIN f }
Debts(f) == Bytes([x \in DOMAIN f |-> 0 - f[x]])

\* alloc(), shrinkTo() and close() neither create nor lose bytes, even if several
\* threads shrink the same instance at once; except where a difference left the int
\* range, which needs a negative request. Without one this is, with TypeOK, the "upper
\* limit of total bytes to allocate".
Conservation ==
    /\ IsFiniteSet(Bytes(Held)) /\ IsFiniteSet(Debts(Held))
    /\ ~overflowed => pool + Cardinality(Bytes(Held)) = PoolSize + Cardinality(Debts(Held))
    /\ overflowed => \E r \in Requests : r < 0

\* close() ends in the exception of shrinkTo() only for an instance that was requested
\* with a negative number, whatever other threads do to the same instance.
CloseThrowsOnDebtOnly ==
    \A t \in Thread : loc[t].threw /\ loc[t].n = 0 => loc[t].oldVal < 0 /\ loc[t].oldVal \in Requests

\* Once constructed, an instance only ever gives bytes back; unless it has a negative
\* amount, and the difference leaves the int range.
AmountOnlyShrinks ==
    [][\A h \in Handle : (h \in born /\ amount'[h] # amount[h])
           => amount'[h] < amount[h] \/ (amount[h] < 0 /\ amount[h] - amount'[h] \notin JInt)]_vars

\* The compareAndSet() loops end.
CallsReturn == \A t \in Thread : pc[t] # "idle" ~> pc[t] = "idle"
=============================================================================
