---------------------------- MODULE BytePoolProofs ----------------------------
(***************************************************************************)
(* Proofs about BytePool, for any number of threads, instances and bytes,  *)
(* and any requests, and that it implements BytePoolAbs.                   *)
(***************************************************************************)
EXTENDS BytePoolRef, FiniteSetTheorems, TLAPS

Places == {"idle", "allocRead", "allocCas", "allocSet",
           "shrinkRead", "shrinkCas", "backRead", "backCas"}
Allocating == {"allocRead", "allocCas", "allocSet"}
Shrinking == {"shrinkRead", "shrinkCas"}
Returns == {"backRead", "backCas"}

\* What the local variables L of a call mean at the place l.
Fits(l, L) ==
    /\ l # "idle" => ~L.threw
    /\ l \in Allocating => L.n \in Requests /\ L.h \notin born
    /\ l = "allocSet" => L.diff \in JInt /\ (L.diff < 0 => L.diff \in Requests)
    /\ l \in Shrinking => L.n >= 0 /\ L.h \in born
    /\ l = "shrinkCas" => L.oldVal \in JInt /\ L.diff = Diff(L.oldVal, L.n) /\ L.diff >= 0
    /\ l \in Returns => L.diff \in Nat

CallOK(t) == Fits(pc[t], loc[t])

\* An amount is negative only if that was requested.
AmountOK(a) == a \in [Handle -> JInt] /\ \A h \in Handle : a[h] < 0 => a[h] \in Requests

\* Why a call threw.
ThrewOK(L) == L.threw /\ L.n = 0 => L.oldVal < 0 /\ L.oldVal \in Requests

IInv ==
    /\ TypeOK
    /\ \A t \in Thread : CallOK(t)
    /\ \A t, u \in Thread :
           (t # u /\ pc[t] \in Allocating /\ pc[u] \in Allocating) => loc[t].h # loc[u].h
    /\ CloseThrowsOnDebtOnly

-----------------------------------------------------------------------------
\* There is an instance, so an idle thread has well-typed locals.
LEMMA AnyHandleType == AnyHandle \in Handle
BY BytePoolAssumption DEF AnyHandle

LEMMA JIntType == JInt \subseteq Int /\ 0 \in JInt
BY BytePoolAssumption DEF JInt

\* The locals of a call that begins.
LEMMA LocalsType ==
  ASSUME NEW h \in Handle, NEW n \in JInt, NEW e \in BOOLEAN
  PROVE  /\ Locals(h, n, e) \in Local
         /\ Locals(h, n, e).h = h
         /\ Locals(h, n, e).n = n
         /\ Locals(h, n, e).threw = e
BY DEF Locals, Local

LEMMA NoCallType == NoCall \in Local /\ NoCall.threw = FALSE
BY AnyHandleType, JIntType, LocalsType DEF NoCall

\* IInv holds initially.
LEMMA InitIInv == Init => IInv
<1> SUFFICES ASSUME Init PROVE IInv
  OBVIOUS
<1>1. TypeOK
  <2>1. \A h \in Handle : amount[h] = 0 /\ ~(amount[h] < 0)
    BY DEF Init
  <2> QED
    BY <2>1, NoCallType, JIntType, BytePoolAssumption DEF Init, TypeOK
<1>2. CloseThrowsOnDebtOnly
  BY NoCallType DEF Init, CloseThrowsOnDebtOnly
<1>3. \A t \in Thread : CallOK(t)
  BY DEF Init, CallOK, Fits, Allocating, Shrinking, Returns
<1> QED
  BY <1>1, <1>2, <1>3 DEF Init, IInv, Allocating

\* What IInv says of the amounts, and of a thread.
LEMMA IInvFacts ==
  ASSUME IInv
  PROVE  /\ pool \in Nat /\ AmountOK(amount) /\ born \subseteq Handle /\ overflowed \in BOOLEAN
         /\ loc \in [Thread -> Local] /\ pc \in [Thread -> Places]
         /\ \A t \in Thread : loc[t] \in Local /\ CallOK(t) /\ ThrewOK(loc[t])
BY DEF IInv, TypeOK, AmountOK, ThrewOK, CloseThrowsOnDebtOnly, Places

\* What alloc() leaves in the pool is not negative; what it takes is an int, and
\* negative only if that was requested.
LEMMA TakenBounds ==
  ASSUME NEW old \in Nat, NEW r \in Requests
  PROVE  /\ r \in JInt /\ r \in Int
         /\ Taken(old, r) \in Nat
         /\ old - Taken(old, r) \in JInt
         /\ old - Taken(old, r) <= old
         /\ old - Taken(old, r) < 0 => old - Taken(old, r) = r
         /\ old - Taken(old, r) \in (0..r) \cup {r}
<1>1. r \in JInt /\ r \in Int /\ MaxInt \in Nat
  BY BytePoolAssumption, JIntType
<1> QED
  BY <1>1 DEF Taken, JInt

\* The difference of two ints whose second is not negative: it is exact, or the
\* first one was negative.
LEMMA DiffFacts ==
  ASSUME NEW old \in JInt, NEW n \in JInt, n >= 0
  PROVE  /\ old \in Int /\ n \in Int /\ Diff(old, n) \in JInt /\ Diff(old, n) \in Int
         /\ old >= 0 => old - n \in JInt
         /\ old - n \in JInt => Diff(old, n) = old - n
         /\ old - n \notin JInt => /\ Diff(old, n) = old - n + 2 * (MaxInt + 1)
                                   /\ old < 0 /\ n \in 1..MaxInt /\ old - n < -MaxInt - 1
<1>1. old \in Int /\ n \in Int /\ MaxInt \in Nat
  BY BytePoolAssumption, JIntType
<1> QED
  BY <1>1 DEF Diff, JInt

\* A thread moves on: IInv survives when its new locals L fit its new place l,
\* and the instances known to all stay what they are.
LEMMA ThreadMoves ==
  ASSUME IInv, NEW t \in Thread, NEW L \in Local, NEW l \in Places,
         loc' = [loc EXCEPT ![t] = L],
         pc' = [pc EXCEPT ![t] = l],
         pool' \in Nat, AmountOK(amount'), born' = born, overflowed' \in BOOLEAN,
         Fits(l, L),
         l \in Allocating => \A u \in Thread \ {t} : pc[u] \in Allocating => loc[u].h # L.h,
         ThrewOK(L)
  PROVE  IInv'
<1>1. TypeOK'
  BY DEF IInv, TypeOK, AmountOK, Places
<1>2. \A u \in Thread : CallOK(u)'
  <2> SUFFICES ASSUME NEW u \in Thread PROVE CallOK(u)'
    OBVIOUS
  <2>1. CASE u = t
    <3>1. pc'[u] = l /\ loc'[u] = L
      BY <2>1 DEF IInv, TypeOK
    <3> QED
      BY <3>1 DEF CallOK, Fits
  <2>2. CASE u # t
    <3>1. pc'[u] = pc[u] /\ loc'[u] = loc[u] /\ CallOK(u)
      BY <2>2 DEF IInv, TypeOK
    <3> QED
      BY <3>1 DEF CallOK, Fits
  <2> QED
    BY <2>1, <2>2
<1>3. (\A v, u \in Thread :
         (v # u /\ pc[v] \in Allocating /\ pc[u] \in Allocating) => loc[v].h # loc[u].h)'
  BY DEF IInv, TypeOK
<1>4. CloseThrowsOnDebtOnly'
  <2>1. \A u \in Thread : loc'[u] = IF u = t THEN L ELSE loc[u]
    BY DEF IInv, TypeOK
  <2> QED
    BY <2>1, IInvFacts DEF CloseThrowsOnDebtOnly, ThrewOK
<1> QED
  BY <1>1, <1>2, <1>3, <1>4 DEF IInv

\* alloc() is called.
LEMMA AllocStep ==
  ASSUME IInv, NEW t \in Thread, NEW h \in Handle, NEW r \in Requests, Alloc(t, h, r)
  PROVE  IInv'
<1> DEFINE L == Locals(h, r, FALSE)
<1>0. r \in JInt
  BY BytePoolAssumption
<1>1. L \in Local /\ L.h = h /\ L.n = r /\ L.threw = FALSE
  BY <1>0, LocalsType
<1>2. loc' = [loc EXCEPT ![t] = L] /\ pc' = [pc EXCEPT ![t] = "allocRead"]
      /\ pool' = pool /\ amount' = amount /\ born' = born /\ overflowed' = overflowed
  BY DEF Alloc, Call, Goto
<1>3. h \notin born /\ \A u \in Thread : pc[u] \in Allocating => loc[u].h # h
  BY DEF Alloc, Allocating
<1> HIDE DEF L
<1>4. Fits("allocRead", L) /\ ThrewOK(L)
  BY <1>1, <1>3 DEF Fits, ThrewOK, Shrinking, Returns
<1> QED
  BY <1>1, <1>2, <1>3, <1>4, IInvFacts, ThreadMoves DEF Places

\* alloc() reads the pool.
LEMMA AllocReadStep ==
  ASSUME IInv, NEW t \in Thread, AllocRead(t)
  PROVE  IInv'
<1> DEFINE L == [loc[t] EXCEPT !.oldVal = pool]
<1>1. loc[t] \in Local /\ pool \in Nat /\ CallOK(t) /\ pc[t] = "allocRead"
  BY IInvFacts DEF AllocRead
<1>2. L \in Local /\ L.h = loc[t].h /\ L.n = loc[t].n /\ L.threw = loc[t].threw
  BY <1>1 DEF Local
<1>3. loc' = [loc EXCEPT ![t] = L] /\ pc' = [pc EXCEPT ![t] = "allocCas"]
      /\ pool' = pool /\ amount' = amount /\ born' = born /\ overflowed' = overflowed
  BY DEF AllocRead, Goto, IInv, TypeOK
<1>4. \A u \in Thread \ {t} : pc[u] \in Allocating => loc[u].h # loc[t].h
  BY <1>1 DEF IInv, Allocating
<1> HIDE DEF L
<1>5. Fits("allocCas", L) /\ ThrewOK(L)
  BY <1>1, <1>2 DEF CallOK, Fits, ThrewOK, Allocating, Shrinking, Returns
<1> QED
  BY <1>1, <1>2, <1>3, <1>4, <1>5, IInvFacts, ThreadMoves DEF Places

\* A failed compareAndSet() sends the thread back to its read.
LEMMA RetryStep ==
  ASSUME IInv, NEW t \in Thread, NEW read \in {"allocRead", "shrinkRead", "backRead"},
         NEW cas, Retry(t, read, cas), UNCHANGED <<pool, amount, born, overflowed>>,
         read = "allocRead" => pc[t] = "allocCas",
         read = "shrinkRead" => pc[t] = "shrinkCas",
         read = "backRead" => pc[t] = "backCas"
  PROVE  IInv'
<1>1. loc[t] \in Local /\ CallOK(t) /\ ThrewOK(loc[t])
  BY IInvFacts
<1>2. loc' = [loc EXCEPT ![t] = loc[t]] /\ pc' = [pc EXCEPT ![t] = read]
  BY DEF Retry, Goto, IInv, TypeOK
<1>3. read = "allocRead" => \A u \in Thread \ {t} : pc[u] \in Allocating => loc[u].h # loc[t].h
  BY DEF IInv, Allocating
<1>4. Fits(read, loc[t])
  BY <1>1 DEF CallOK, Fits, Allocating, Shrinking, Returns
<1>5. read \in Places /\ (read \in Allocating => read = "allocRead")
  BY DEF Places, Allocating
<1> QED
  BY <1>1, <1>2, <1>3, <1>4, <1>5, IInvFacts, ThreadMoves

\* alloc() takes the bytes out of the pool.
LEMMA AllocCasStep ==
  ASSUME IInv, NEW t \in Thread, AllocCas(t)
  PROVE  IInv'
<1> DEFINE old == loc[t].oldVal
           new == Taken(old, loc[t].n)
           L == [loc[t] EXCEPT !.diff = old - new]
<1>1. loc[t] \in Local /\ CallOK(t) /\ pc[t] = "allocCas" /\ pool \in Nat
  BY IInvFacts DEF AllocCas
<1>2. loc[t].n \in Requests /\ loc[t].h \notin born /\ ~loc[t].threw
  BY <1>1 DEF CallOK, Fits, Allocating
<1>3. CASE pool = old
  <2>1. /\ new \in Nat /\ old - new \in JInt /\ old - new \in Int
        /\ old - new < 0 => old - new \in Requests
    BY <1>1, <1>2, <1>3, TakenBounds, JIntType
  <2>2. L \in Local /\ L.h = loc[t].h /\ L.n = loc[t].n /\ L.threw = loc[t].threw
        /\ L.diff = old - new
    BY <1>1, <2>1 DEF Local
  <2>3. loc' = [loc EXCEPT ![t] = L] /\ pc' = [pc EXCEPT ![t] = "allocSet"] /\ pool' \in Nat
        /\ amount' = amount /\ born' = born /\ overflowed' = overflowed
    BY <1>3, <2>1 DEF AllocCas, Goto, IInv, TypeOK
  <2>4. \A u \in Thread \ {t} : pc[u] \in Allocating => loc[u].h # loc[t].h
    BY <1>1 DEF IInv, Allocating
  <2> HIDE DEF L, new, old
  <2>5. Fits("allocSet", L) /\ ThrewOK(L)
    BY <1>2, <2>1, <2>2 DEF Fits, ThrewOK, Allocating, Shrinking, Returns
  <2> QED
    BY <2>2, <2>3, <2>4, <2>5, IInvFacts, ThreadMoves DEF Places
<1>4. CASE pool # old
  BY <1>1, <1>4, RetryStep DEF AllocCas
<1> QED
  BY <1>3, <1>4

\* The constructor ends: its instance becomes known.
LEMMA AllocSetStep ==
  ASSUME IInv, NEW t \in Thread, AllocSet(t)
  PROVE  IInv'
<1>1. loc[t] \in Local /\ CallOK(t) /\ pc[t] = "allocSet"
  BY IInvFacts DEF AllocSet
<1>2. loc[t].h \in Handle /\ loc[t].diff \in JInt /\ (loc[t].diff < 0 => loc[t].diff \in Requests)
  BY <1>1 DEF Local, CallOK, Fits
<1>3. /\ loc' = [loc EXCEPT ![t] = NoCall]
      /\ pc' = [pc EXCEPT ![t] = "idle"]
      /\ pool' = pool /\ overflowed' = overflowed
      /\ amount' = [amount EXCEPT ![loc[t].h] = loc[t].diff]
      /\ born' = born \cup {loc[t].h}
  BY DEF AllocSet, Returned, Goto
<1>4. AmountOK(amount')
  <2>1. AmountOK(amount)
    BY IInvFacts
  <2> QED
    BY <1>2, <1>3, <2>1 DEF AmountOK
<1>5. TypeOK'
  BY <1>2, <1>3, <1>4, NoCallType DEF IInv, TypeOK, AmountOK
<1>6. \A u \in Thread : CallOK(u)'
  <2> SUFFICES ASSUME NEW u \in Thread PROVE CallOK(u)'
    OBVIOUS
  <2>1. CASE u = t
    <3>1. pc'[u] = "idle"
      BY <1>3, <2>1 DEF IInv, TypeOK
    <3> QED
      BY <3>1 DEF CallOK, Fits, Allocating, Shrinking, Returns
  <2>2. CASE u # t
    <3>1. pc'[u] = pc[u] /\ loc'[u] = loc[u] /\ CallOK(u)
      BY <1>3, <2>2 DEF IInv, TypeOK
    <3>2. pc[u] \in Allocating => loc[u].h # loc[t].h
      BY <1>1, <2>2 DEF IInv, Allocating
    <3> QED
      BY <1>3, <3>1, <3>2 DEF CallOK, Fits
  <2> QED
    BY <2>1, <2>2
<1>7. (\A v, u \in Thread :
         (v # u /\ pc[v] \in Allocating /\ pc[u] \in Allocating) => loc[v].h # loc[u].h)'
  BY <1>3 DEF IInv, TypeOK, Allocating
<1>8. CloseThrowsOnDebtOnly'
  BY <1>3, NoCallType DEF IInv, TypeOK, CloseThrowsOnDebtOnly
<1> QED
  BY <1>5, <1>6, <1>7, <1>8 DEF IInv

\* A call ends normally.
LEMMA ReturnStep ==
  ASSUME IInv, NEW t \in Thread, Returned(t), pool' \in Nat, UNCHANGED <<amount, born, overflowed>>
  PROVE  IInv'
<1>1. Fits("idle", NoCall) /\ ThrewOK(NoCall)
  BY NoCallType DEF Fits, ThrewOK, Allocating, Shrinking, Returns
<1>2. loc' = [loc EXCEPT ![t] = NoCall] /\ pc' = [pc EXCEPT ![t] = "idle"]
  BY DEF Returned, Goto
<1>3. "idle" \in Places /\ "idle" \notin Allocating
  BY DEF Places, Allocating
<1> QED
  BY <1>1, <1>2, <1>3, NoCallType, IInvFacts, ThreadMoves

\* A call ends by an exception.
LEMMA ThrowStep ==
  ASSUME IInv, NEW t \in Thread, NEW n \in JInt, NEW old \in Int, Throw(t, n, old),
         n = 0 => old < 0 /\ old \in Requests,
         pool' \in Nat, UNCHANGED <<amount, born, overflowed>>
  PROVE  IInv'
<1> DEFINE L == [Locals(AnyHandle, n, TRUE) EXCEPT !.oldVal = old]
<1>1. L \in Local /\ L.n = n /\ L.oldVal = old
  <2> DEFINE M == Locals(AnyHandle, n, TRUE)
  <2>1. M \in Local /\ M.n = n
    BY AnyHandleType, LocalsType
  <2> HIDE DEF M
  <2>2. [M EXCEPT !.oldVal = old] \in Local /\ [M EXCEPT !.oldVal = old].n = n
        /\ [M EXCEPT !.oldVal = old].oldVal = old
    BY <2>1 DEF Local
  <2> QED
    BY <2>2 DEF M
<1>2. loc' = [loc EXCEPT ![t] = L] /\ pc' = [pc EXCEPT ![t] = "idle"]
  BY DEF Throw, Goto
<1> HIDE DEF L
<1>3. Fits("idle", L) /\ ThrewOK(L)
  BY <1>1 DEF Fits, ThrewOK, Allocating, Shrinking, Returns
<1>4. "idle" \in Places /\ "idle" \notin Allocating
  BY DEF Places, Allocating
<1> QED
  BY <1>1, <1>2, <1>3, <1>4, IInvFacts, ThreadMoves

\* shrinkTo() is called.
LEMMA ShrinkToStep ==
  ASSUME IInv, NEW t \in Thread, NEW h \in Handle, NEW n \in JInt, ShrinkTo(t, h, n)
  PROVE  IInv'
<1>0. pool' \in Nat /\ UNCHANGED <<pool, amount, born, overflowed>> /\ n \in Int
  BY JIntType DEF IInv, TypeOK, ShrinkTo
<1>1. CASE n < 0 /\ Throw(t, n, 0)
  BY <1>0, <1>1, ThrowStep
<1>2. CASE Returned(t)
  BY <1>0, <1>2, ReturnStep
<1>3. CASE n >= 0 /\ Call(t, h, n) /\ Goto(t, "shrinkRead")
  <2> DEFINE L == Locals(h, n, FALSE)
  <2>1. L \in Local /\ L.h = h /\ L.n = n /\ L.threw = FALSE
    BY LocalsType
  <2>2. h \in born
    BY <1>3 DEF ShrinkTo
  <2>3. loc' = [loc EXCEPT ![t] = L] /\ pc' = [pc EXCEPT ![t] = "shrinkRead"]
    BY <1>3 DEF Call, Goto
  <2> HIDE DEF L
  <2>4. Fits("shrinkRead", L) /\ ThrewOK(L)
    BY <1>3, <2>1, <2>2 DEF Fits, ThrewOK, Allocating, Returns
  <2>5. "shrinkRead" \in Places /\ "shrinkRead" \notin Allocating
    BY DEF Places, Allocating
  <2> QED
    BY <1>0, <2>1, <2>3, <2>4, <2>5, IInvFacts, ThreadMoves
<1> QED
  BY <1>1, <1>2, <1>3 DEF ShrinkTo

\* shrinkTo() reads the amount.
LEMMA ShrinkReadStep ==
  ASSUME IInv, NEW t \in Thread, ShrinkRead(t)
  PROVE  IInv'
<1> DEFINE old == amount[loc[t].h]
           diff == Diff(old, loc[t].n)
           L == [loc[t] EXCEPT !.oldVal = old, !.diff = diff]
<1>1. loc[t] \in Local /\ CallOK(t) /\ pc[t] = "shrinkRead" /\ AmountOK(amount)
      /\ pool' \in Nat /\ UNCHANGED <<pool, amount, born, overflowed>>
  BY IInvFacts DEF ShrinkRead
<1>2. loc[t].n \in JInt /\ loc[t].n >= 0 /\ loc[t].h \in born /\ loc[t].h \in Handle /\ ~loc[t].threw
  BY <1>1 DEF Local, CallOK, Fits, Shrinking
<1>3. old \in JInt /\ (old < 0 => old \in Requests)
  BY <1>1, <1>2 DEF AmountOK
<1>4. /\ old \in Int /\ loc[t].n \in Int /\ diff \in Int
      /\ old >= 0 => diff = old - loc[t].n
  BY <1>2, <1>3, DiffFacts
<1>5. CASE CannotShrink(diff)
  <2>1. loc[t].n = 0 => old < 0 /\ old \in Requests
    BY <1>2, <1>3, <1>4, <1>5 DEF CannotShrink
  <2>2. Throw(t, loc[t].n, old)
    BY <1>5 DEF ShrinkRead
  <2> QED
    BY <1>1, <1>2, <1>4, <2>1, <2>2, ThrowStep
<1>6. CASE ~CannotShrink(diff)
  <2>1. diff >= 0
    BY <1>4, <1>6 DEF CannotShrink
  <2>2. L \in Local /\ L.h = loc[t].h /\ L.n = loc[t].n /\ L.threw = loc[t].threw
        /\ L.oldVal = old /\ L.diff = diff
    BY <1>1, <1>4 DEF Local
  <2>3. loc' = [loc EXCEPT ![t] = L] /\ pc' = [pc EXCEPT ![t] = "shrinkCas"]
    BY <1>6 DEF ShrinkRead, Goto, IInv, TypeOK
  <2> HIDE DEF L
  <2>4. Fits("shrinkCas", L) /\ ThrewOK(L)
    BY <1>2, <1>3, <2>1, <2>2 DEF Fits, ThrewOK, Allocating, Shrinking, Returns
  <2>5. "shrinkCas" \in Places /\ "shrinkCas" \notin Allocating
    BY DEF Places, Allocating
  <2> QED
    BY <1>1, <2>2, <2>3, <2>4, <2>5, IInvFacts, ThreadMoves
<1> QED
  BY <1>5, <1>6

\* shrinkTo() gives up its bytes.
LEMMA ShrinkCasStep ==
  ASSUME IInv, NEW t \in Thread, ShrinkCas(t)
  PROVE  IInv'
<1>1. loc[t] \in Local /\ CallOK(t) /\ ThrewOK(loc[t]) /\ pc[t] = "shrinkCas" /\ AmountOK(amount)
  BY IInvFacts DEF ShrinkCas
<1>2. /\ loc[t].n \in JInt /\ loc[t].n >= 0 /\ loc[t].h \in Handle /\ ~loc[t].threw
      /\ loc[t].diff >= 0 /\ loc[t].diff \in Int /\ loc[t].n \in Int
  BY <1>1, JIntType DEF Local, CallOK, Fits, Shrinking
<1>3. CASE AmountUnchanged(loc[t].oldVal, amount[loc[t].h])
  <2>1. loc' = [loc EXCEPT ![t] = loc[t]] /\ pc' = [pc EXCEPT ![t] = "backRead"]
        /\ pool' \in Nat /\ born' = born /\ overflowed' \in BOOLEAN
        /\ amount' = [amount EXCEPT ![loc[t].h] = loc[t].n]
    BY <1>3 DEF ShrinkCas, Goto, IInv, TypeOK
  <2>2. AmountOK(amount')
    <3>1. ~(loc[t].n < 0)
      BY <1>2
    <3> QED
      BY <1>1, <1>2, <2>1, <3>1 DEF AmountOK
  <2>3. Fits("backRead", loc[t])
    BY <1>2 DEF Fits, Allocating, Shrinking
  <2>4. "backRead" \in Places /\ "backRead" \notin Allocating
    BY DEF Places, Allocating
  <2> QED
    BY <1>1, <2>1, <2>2, <2>3, <2>4, ThreadMoves
<1>4. CASE ~AmountUnchanged(loc[t].oldVal, amount[loc[t].h])
  BY <1>1, <1>4, RetryStep DEF ShrinkCas
<1> QED
  BY <1>3, <1>4

\* shrinkTo() reads the pool.
LEMMA BackReadStep ==
  ASSUME IInv, NEW t \in Thread, BackRead(t)
  PROVE  IInv'
<1> DEFINE L == [loc[t] EXCEPT !.oldVal = pool]
<1>1. loc[t] \in Local /\ CallOK(t) /\ pool \in Nat /\ pc[t] = "backRead"
  BY IInvFacts DEF BackRead
<1>2. L \in Local /\ L.diff = loc[t].diff /\ L.threw = loc[t].threw
  BY <1>1 DEF Local
<1>3. loc' = [loc EXCEPT ![t] = L] /\ pc' = [pc EXCEPT ![t] = "backCas"]
      /\ pool' \in Nat /\ amount' = amount /\ born' = born /\ overflowed' = overflowed
  BY DEF BackRead, Goto, IInv, TypeOK
<1> HIDE DEF L
<1>4. Fits("backCas", L) /\ ThrewOK(L)
  BY <1>1, <1>2 DEF CallOK, Fits, ThrewOK, Allocating, Shrinking, Returns
<1>5. "backCas" \in Places /\ "backCas" \notin Allocating
  BY DEF Places, Allocating
<1> QED
  BY <1>2, <1>3, <1>4, <1>5, IInvFacts, ThreadMoves

\* shrinkTo() gives the bytes back to the pool.
LEMMA BackCasStep ==
  ASSUME IInv, NEW t \in Thread, BackCas(t)
  PROVE  IInv'
<1>1. loc[t] \in Local /\ pool \in Nat /\ CallOK(t) /\ pc[t] = "backCas"
  BY IInvFacts DEF BackCas
<1>2. loc[t].diff \in Nat
  BY <1>1 DEF CallOK, Fits, Returns
<1>3. CASE pool = loc[t].oldVal
  <2>1. loc[t].oldVal + loc[t].diff \in Nat
    BY <1>1, <1>2, <1>3
  <2> QED
    BY <1>3, <2>1, ReturnStep DEF BackCas
<1>4. CASE pool # loc[t].oldVal
  BY <1>1, <1>4, RetryStep DEF BackCas
<1> QED
  BY <1>3, <1>4

\* No step of any thread breaks IInv.
LEMMA NextIInv == IInv /\ [Next]_vars => IInv'
<1> SUFFICES ASSUME IInv, [Next]_vars PROVE IInv'
  OBVIOUS
<1>1. CASE UNCHANGED vars
  BY <1>1 DEF vars, IInv, TypeOK, CallOK, Fits, CloseThrowsOnDebtOnly
<1>2. ASSUME NEW t \in Thread, Begin(t) PROVE IInv'
  BY <1>2, AllocStep, ShrinkToStep, JIntType, BytePoolAssumption DEF Begin, Close
<1>3. ASSUME NEW t \in Thread, Step(t) PROVE IInv'
  BY <1>3, AllocReadStep, AllocCasStep, AllocSetStep, ShrinkReadStep, ShrinkCasStep,
     BackReadStep, BackCasStep DEF Step
<1> QED
  BY <1>1, <1>2, <1>3 DEF Next

-----------------------------------------------------------------------------
\* The compareAndSet() loops keep IInv, for any number of threads.
THEOREM PoolInvariant == Spec => []IInv
BY InitIInv, NextIInv, PTL DEF Spec

\* Whatever alloc() is called with, the pool never goes below zero, and an amount only
\* if it is itself the negative number that was requested.
THEOREM NeverNegative == Spec => []TypeOK
<1>1. IInv => TypeOK
  BY DEF IInv
<1> QED
  BY PoolInvariant, <1>1, PTL

\* close() may race with any other call on the same instance: it throws only if the
\* instance was requested with a negative number.
THEOREM CloseIsSafe == Spec => []CloseThrowsOnDebtOnly
<1>1. IInv => CloseThrowsOnDebtOnly
  BY DEF IInv
<1> QED
  BY PoolInvariant, <1>1, PTL

\* A step changes the amount of an instance only when it is not known yet, or to
\* less than it was, or it is negative and the difference is too large for an int.
LEMMA ShrinkOnly ==
  ASSUME IInv, [Next]_vars, NEW h \in Handle, h \in born, amount'[h] # amount[h]
  PROVE  amount'[h] < amount[h] \/ (amount[h] < 0 /\ amount[h] - amount'[h] \notin JInt)
<1>1. PICK t \in Thread : AllocSet(t) \/ ShrinkCas(t)
  BY DEF Next, vars, Begin, Alloc, ShrinkTo, Close, Step, AllocRead, AllocCas,
         ShrinkRead, BackRead, BackCas
<1>2. loc[t] \in Local /\ CallOK(t) /\ amount \in [Handle -> JInt]
  BY IInvFacts DEF AmountOK
<1>3. CASE AllocSet(t)
  BY <1>2, <1>3 DEF AllocSet, CallOK, Fits, Allocating
<1>4. CASE ShrinkCas(t)
  <2> DEFINE old == loc[t].oldVal
             n == loc[t].n
  <2>1. h = loc[t].h /\ amount'[h] = n /\ amount[h] = old
    BY <1>2, <1>4 DEF ShrinkCas, AmountUnchanged
  <2>2. old \in JInt /\ n \in JInt /\ n >= 0 /\ Diff(old, n) >= 0
    BY <1>2, <1>4 DEF ShrinkCas, CallOK, Fits, Shrinking, Local
  <2> HIDE DEF old, n
  <2>3. /\ old \in Int /\ n \in Int
        /\ old - n \in JInt => old - n >= 0
        /\ old - n \notin JInt => old < 0
    BY <2>2, DiffFacts
  <2> QED
    BY <2>1, <2>3
<1> QED
  BY <1>1, <1>3, <1>4

\* Once constructed, an instance that owns bytes only ever gives bytes back.
THEOREM AmountsOnlyShrink == Spec => AmountOnlyShrinks
<1>1. IInv /\ [Next]_vars =>
        [\A h \in Handle : (h \in born /\ amount'[h] # amount[h])
             => amount'[h] < amount[h] \/ (amount[h] < 0 /\ amount[h] - amount'[h] \notin JInt)]_vars
  BY ShrinkOnly
<1> QED
  BY PoolInvariant, <1>1, PTL DEF Spec, AmountOnlyShrinks

-----------------------------------------------------------------------------
(* The sum of a function as a cardinality.                                 *)

Pos(n) == IF n > 0 THEN n ELSE 0

\* As many pairs as bytes.
LEMMA PileSize ==
  ASSUME NEW x, NEW n \in Int
  PROVE  IsFiniteSet({x} \X (1..n)) /\ Cardinality({x} \X (1..n)) = Pos(n)
<1> DEFINE S == {x} \X (1..n)
           b == [k \in 1..n |-> <<x, k>>]
<1>1. b \in [1..n -> S]
  OBVIOUS
<1>2. \A j, k \in 1..n : b[j] = b[k] => j = k
  OBVIOUS
<1>3. \A s \in S : \E k \in 1..n : b[k] = s
  OBVIOUS
<1>4. IsFiniteSet(1..n) /\ Cardinality(1..n) = Pos(n)
  <2>1. IsFiniteSet(1..n) /\ Cardinality(1..n) = IF 1 > n THEN 0 ELSE n - 1 + 1
    BY FS_Interval
  <2> QED
    BY <2>1 DEF Pos
<1> HIDE DEF b, S
<1>5. b \in Bijection(1..n, S)
  BY <1>1, <1>2, <1>3 DEF Bijection, Injection, Surjection, IsInjective
<1>6. ExistsBijection(1..n, S)
  BY <1>5 DEF ExistsBijection
<1> QED
  BY <1>4, <1>6, FS_Bijection DEF S

\* A pair is one of the bytes of its first component.
LEMMA InBytes ==
  ASSUME NEW D, NEW f \in [D -> Int]
  PROVE  \A b : b \in Bytes(f) <=> \E y \in D : \E k \in 1..f[y] : b = <<y, k>>
<1>1. \A b : b \in Bytes(f) <=> \E y \in D : b \in {y} \X (1..f[y])
  BY DEF Bytes
<1>2. ASSUME NEW b, NEW y \in D
      PROVE  b \in {y} \X (1..f[y]) <=> \E k \in 1..f[y] : b = <<y, k>>
  OBVIOUS
<1> QED
  BY <1>1, <1>2

\* If one value of a function changes, the sum of its positive values changes by as much.
LEMMA BytesChange ==
  ASSUME NEW D, NEW f \in [D -> Int], IsFiniteSet(Bytes(f)), NEW x \in D, NEW n \in Int
  PROVE  /\ IsFiniteSet(Bytes([f EXCEPT ![x] = n]))
         /\ Cardinality(Bytes([f EXCEPT ![x] = n])) = Cardinality(Bytes(f)) - Pos(f[x]) + Pos(n)
         /\ Cardinality(Bytes(f)) \in Nat
<1> DEFINE g == [f EXCEPT ![x] = n]
           m == f[x]
           old == {x} \X (1..m)
           new == {x} \X (1..n)
           others == {b \in Bytes(f) : b[1] # x}
           F == Bytes(f)
           G == Bytes(g)
<1>1. m \in Int /\ Pos(m) \in Nat /\ Pos(n) \in Nat
  BY DEF Pos
<1>2. g \in [D -> Int] /\ g[x] = n /\ \A y \in D : y # x => g[y] = f[y]
  OBVIOUS
<1>3. \A b : b \in F <=> \E y \in D : \E k \in 1..f[y] : b = <<y, k>>
  BY InBytes
<1> HIDE DEF g
<1>4. \A b : b \in G <=> \E y \in D : \E k \in 1..g[y] : b = <<y, k>>
  BY <1>2, InBytes
<1> HIDE DEF F, G
<1>5. /\ \A b : b \in old <=> \E k \in 1..m : b = <<x, k>>
      /\ \A b : b \in new <=> \E k \in 1..n : b = <<x, k>>
  OBVIOUS
<1>6. /\ IsFiniteSet(old) /\ Cardinality(old) = Pos(m)
      /\ IsFiniteSet(new) /\ Cardinality(new) = Pos(n)
  BY <1>1, PileSize
<1> HIDE DEF old, new
<1>7. \A b : b \in others <=> b \in F /\ b[1] # x
  BY DEF F
<1> HIDE DEF others
<1>8. F = others \cup old
  <2>1. ASSUME NEW b \in F PROVE b \in others \cup old
    <3>1. PICK y \in D : \E k \in 1..f[y] : b = <<y, k>>
      BY <1>3
    <3>2. CASE y = x
      BY <1>5, <3>1, <3>2 DEF m
    <3>3. CASE y # x
      <4>1. b[1] # x
        BY <3>1, <3>3
      <4> QED
        BY <1>7, <4>1
    <3> QED
      BY <3>2, <3>3
  <2>2. old \subseteq F
    BY <1>3, <1>5 DEF m
  <2>3. others \subseteq F
    BY <1>7
  <2> QED
    BY <2>1, <2>2, <2>3
<1>9. G = others \cup new
  <2>1. ASSUME NEW b \in G PROVE b \in others \cup new
    <3>1. PICK y \in D : \E k \in 1..g[y] : b = <<y, k>>
      BY <1>4
    <3>2. CASE y = x
      BY <1>2, <1>5, <3>1, <3>2
    <3>3. CASE y # x
      <4>1. b[1] # x
        BY <3>1, <3>3
      <4>2. b \in F
        BY <1>2, <1>3, <3>1, <3>3
      <4> QED
        BY <1>7, <4>1, <4>2
    <3> QED
      BY <3>2, <3>3
  <2>2. new \subseteq G
    BY <1>2, <1>4, <1>5
  <2>3. ASSUME NEW b \in others PROVE b \in G
    <3>1. PICK y \in D : \E k \in 1..f[y] : b = <<y, k>>
      BY <1>3, <1>7
    <3>2. y # x
      BY <1>7, <3>1
    <3> QED
      BY <1>2, <1>4, <3>1, <3>2
  <2> QED
    BY <2>1, <2>2, <2>3
<1>10. others \cap old = {} /\ others \cap new = {}
  <2>1. \A b \in old \cup new : b[1] = x
    BY <1>5
  <2> QED
    BY <1>7, <2>1
<1>11. IsFiniteSet(F) /\ IsFiniteSet(others) /\ Cardinality(others) \in Nat
  <2>1. IsFiniteSet(F)
    BY DEF F
  <2>2. others \in SUBSET F
    BY <1>7
  <2> QED
    BY <2>1, <2>2, FS_Subset, FS_CardinalityType
<1>12. Cardinality({}) = 0
  BY FS_EmptySet
<1>13. Cardinality(F) = Cardinality(others) + Pos(m)
  <2>1. IsFiniteSet(others) /\ IsFiniteSet(old)
    BY <1>6, <1>11
  <2>2. Cardinality(others \cup old)
          = Cardinality(others) + Cardinality(old) - Cardinality(others \cap old)
    BY <2>1, FS_Union
  <2>3. Cardinality(F) = Cardinality(others) + Pos(m) - 0
    BY <1>6, <1>8, <1>10, <1>12, <2>2
  <2> QED
    BY <1>1, <1>11, <2>3
<1>14. IsFiniteSet(G) /\ Cardinality(G) = Cardinality(others) + Pos(n)
  <2>1. IsFiniteSet(others) /\ IsFiniteSet(new)
    BY <1>6, <1>11
  <2>2. /\ IsFiniteSet(others \cup new)
        /\ Cardinality(others \cup new)
             = Cardinality(others) + Cardinality(new) - Cardinality(others \cap new)
    BY <2>1, FS_Union
  <2>3. Cardinality(G) = Cardinality(others) + Pos(n) - 0
    BY <1>6, <1>9, <1>10, <1>12, <2>2
  <2> QED
    BY <1>1, <1>9, <1>11, <2>2, <2>3
<1>15. Cardinality(F) \in Nat /\ Cardinality(G) = Cardinality(F) - Pos(m) + Pos(n)
  BY <1>1, <1>11, <1>13, <1>14
<1> QED
  BY <1>14, <1>15 DEF F, G, g, m

Changes(f, x, n, g) == g = [f EXCEPT ![x] = n]

\* And so does its whole sum.
LEMMA SumChange ==
  ASSUME NEW D, NEW f \in [D -> Int], IsFiniteSet(Bytes(f)), IsFiniteSet(Debts(f)),
         NEW x \in D, NEW n \in Int, NEW g, Changes(f, x, n, g)
  PROVE  /\ g \in [D -> Int]
         /\ IsFiniteSet(Bytes(g)) /\ IsFiniteSet(Debts(g))
         /\ Cardinality(Bytes(g)) - Cardinality(Debts(g))
               = Cardinality(Bytes(f)) - Cardinality(Debts(f)) - f[x] + n
         /\ Cardinality(Bytes(f)) \in Nat /\ Cardinality(Debts(f)) \in Nat
         /\ Cardinality(Bytes(g)) \in Nat /\ Cardinality(Debts(g)) \in Nat
<1> DEFINE nf == [y \in D |-> 0 - f[y]]
           k == 0 - n
           ng == [nf EXCEPT ![x] = k]
<1>0. g = [f EXCEPT ![x] = n]
  BY DEF Changes
<1>1. nf \in [D -> Int] /\ 0 - n \in Int /\ f[x] \in Int /\ nf[x] = 0 - f[x] /\ g \in [D -> Int]
  BY <1>0
<1>2. Debts(f) = Bytes(nf)
  BY DEF Debts
<1>3. Debts(g) = Bytes(ng)
  <2>1. DOMAIN g = D /\ [y \in D |-> 0 - g[y]] = ng
    BY <1>0
  <2> QED
    BY <2>1 DEF Debts
<1>4. /\ IsFiniteSet(Bytes(g)) /\ Cardinality(Bytes(g)) = Cardinality(Bytes(f)) - Pos(f[x]) + Pos(n)
      /\ Cardinality(Bytes(f)) \in Nat
  BY <1>0, BytesChange
<1> HIDE DEF nf
<1>5. /\ IsFiniteSet(Bytes(ng)) /\ Cardinality(Bytes(ng)) = Cardinality(Bytes(nf)) - Pos(nf[x]) + Pos(k)
      /\ Cardinality(Bytes(nf)) \in Nat
  <2>1. k \in Int
    BY <1>1
  <2>2. IsFiniteSet(Bytes(nf))
    BY <1>2
  <2>3. nf \in [D -> Int]
    BY <1>1
  <2> HIDE DEF k, ng
  <2>4. /\ IsFiniteSet(Bytes([nf EXCEPT ![x] = k]))
        /\ Cardinality(Bytes([nf EXCEPT ![x] = k])) = Cardinality(Bytes(nf)) - Pos(nf[x]) + Pos(k)
        /\ Cardinality(Bytes(nf)) \in Nat
    BY <2>1, <2>2, <2>3, BytesChange
  <2> QED
    BY <2>4 DEF ng
<1> HIDE DEF ng
<1>6. Cardinality(Bytes(g)) \in Nat /\ Cardinality(Bytes(ng)) \in Nat
  BY <1>4, <1>5, FS_CardinalityType
<1>7. Pos(f[x]) - Pos(0 - f[x]) = f[x] /\ Pos(n) - Pos(0 - n) = n
      /\ Pos(f[x]) \in Int /\ Pos(0 - f[x]) \in Int /\ Pos(n) \in Int /\ Pos(0 - n) \in Int
  BY <1>1 DEF Pos
<1> QED
  BY <1>1, <1>2, <1>3, <1>4, <1>5, <1>6, <1>7

\* Nothing is held by nobody.
LEMMA NoBytes ==
  ASSUME NEW D, NEW f, DOMAIN f = D, \A x \in D : f[x] = 0
  PROVE  /\ IsFiniteSet(Bytes(f)) /\ Cardinality(Bytes(f)) = 0
         /\ IsFiniteSet(Debts(f)) /\ Cardinality(Debts(f)) = 0
<1>1. Bytes(f) = {} /\ Debts(f) = {}
  <2>1. 1..0 = {}
    OBVIOUS
  <2>2. Bytes(f) = {}
    BY <2>1 DEF Bytes
  <2>3. DOMAIN [x \in DOMAIN f |-> 0 - f[x]] = D
        /\ \A x \in D : [y \in DOMAIN f |-> 0 - f[y]][x] = 0
    OBVIOUS
  <2> QED
    BY <2>1, <2>2, <2>3 DEF Bytes, Debts
<1> QED
  BY <1>1, FS_EmptySet

-----------------------------------------------------------------------------
(* No byte is created or lost.                                             *)

\* What is held is counted, and an instance that is not known yet holds nothing.
SumInv ==
    /\ \A h \in Handle : h \notin born => amount[h] = 0
    /\ Conservation

\* Only t moves on.
Alone(t) == \A u \in Thread \ {t} : pc'[u] = pc[u] /\ loc'[u] = loc[u]

\* A holder is an instance or a call.
LEMMA HolderFacts ==
  ASSUME IInv
  PROVE  /\ Held \in [Holder -> Int]
         /\ \A h \in Handle : <<"instance", h>> \in Holder /\ Held[<<"instance", h>>] = amount[h]
         /\ \A t \in Thread : /\ <<"call", t>> \in Holder /\ Held[<<"call", t>>] = Carried(t)
                              /\ Carried(t) \in Int
         /\ \A x \in Holder : \/ \E h \in Handle : x = <<"instance", h>>
                              \/ \E t \in Thread : x = <<"call", t>>
<1>1. \A x \in Holder : \/ \E h \in Handle : x = <<"instance", h>>
                        \/ \E t \in Thread : x = <<"call", t>>
  BY DEF Holder
<1>2. \A t \in Thread : Carried(t) \in Int
  BY DEF IInv, TypeOK, Local, Carried
<1>3. /\ \A h \in Handle : <<"instance", h>> \in Holder
      /\ \A t \in Thread : <<"call", t>> \in Holder
  BY DEF Holder
<1>4. \A h \in Handle : Held[<<"instance", h>>] = amount[h]
  BY <1>3 DEF Held
<1>5. \A t \in Thread : Held[<<"call", t>>] = Carried(t)
  BY <1>3 DEF Held
<1>6. \A x \in Holder : Held[x] \in Int
  <2>1. \A h \in Handle : amount[h] \in Int
    BY JIntType DEF IInv, TypeOK
  <2> QED
    BY <1>1, <1>2, <1>4, <1>5, <2>1
<1>7. Held = [x \in Holder |-> Held[x]]
  BY DEF Held
<1> QED
  BY <1>1, <1>2, <1>3, <1>4, <1>5, <1>6, <1>7

\* A step of t that takes from the pool, from one instance and from what t carries as
\* much as it adds there creates and loses nothing.
LEMMA Conserves ==
  ASSUME IInv, IInv', Conservation, NEW t \in Thread, NEW h \in Handle, NEW n \in Int, Alone(t),
         amount' = [amount EXCEPT ![h] = n],
         overflowed => overflowed', overflowed' \in BOOLEAN,
         ~overflowed' => pool' + n + Carried(t)' = pool + amount[h] + Carried(t),
         overflowed' => \E r \in Requests : r < 0
  PROVE  Conservation'
<1> DEFINE a == <<"instance", h>>
           b == <<"call", t>>
           c == Carried(t)'
           F == Held
           G == [F EXCEPT ![a] = n]
           H == [G EXCEPT ![b] = c]
<1>1. /\ F \in [Holder -> Int] /\ a \in Holder /\ b \in Holder /\ a # b
      /\ F[a] = amount[h] /\ F[b] = Carried(t) /\ Carried(t) \in Int /\ amount[h] \in Int
  BY HolderFacts, JIntType DEF IInv, TypeOK
<1>2. c \in Int
  BY DEF IInv, TypeOK, Local, Carried
<1>3. Held' = H
  <2>1. \A x \in Holder : Held'[x] = H[x]
    <3> SUFFICES ASSUME NEW x \in Holder PROVE Held'[x] = H[x]
      OBVIOUS
    <3>1. Held'[x] = IF x[1] = "instance" THEN amount'[x[2]] ELSE Carried(x[2])'
      BY DEF Held
    <3>2. CASE \E g \in Handle : x = <<"instance", g>>
      <4>1. PICK g \in Handle : x = <<"instance", g>>
        BY <3>2
      <4>2. Held'[x] = amount'[g] /\ F[x] = amount[g] /\ x # b
        BY <3>1, <4>1, HolderFacts
      <4>3. CASE g = h
        <5>1. x = a /\ amount'[g] = n
          BY <4>1, <4>3 DEF IInv, TypeOK
        <5> QED
          BY <1>1, <4>2, <5>1
      <4>4. CASE g # h
        <5>1. x # a /\ amount'[g] = amount[g]
          BY <4>1, <4>4 DEF IInv, TypeOK
        <5> QED
          BY <1>1, <4>2, <5>1
      <4> QED
        BY <4>3, <4>4
    <3>3. CASE \E u \in Thread : x = <<"call", u>>
      <4>1. PICK u \in Thread : x = <<"call", u>>
        BY <3>3
      <4>2. Held'[x] = Carried(u)' /\ F[x] = Carried(u) /\ x # a
        BY <3>1, <4>1, HolderFacts
      <4>3. CASE u = t
        <5>1. x = b
          BY <4>1, <4>3
        <5> QED
          BY <1>1, <4>2, <4>3, <5>1
      <4>4. CASE u # t
        <5>1. x # b
          BY <4>1, <4>4
        <5>2. Carried(u)' = Carried(u)
          BY <4>4 DEF Alone, Carried
        <5> QED
          BY <1>1, <4>2, <5>1, <5>2
      <4> QED
        BY <4>3, <4>4
    <3> QED
      BY <3>2, <3>3, HolderFacts
  <2>2. Held' = [x \in Holder |-> Held'[x]]
    BY DEF Held
  <2>3. H = [x \in Holder |-> H[x]]
    <3> HIDE DEF F, a, b, c
    <3> QED
      BY <1>1
  <2> QED
    BY <2>1, <2>2, <2>3
<1>4. /\ IsFiniteSet(Bytes(F)) /\ IsFiniteSet(Debts(F))
      /\ ~overflowed => pool + Cardinality(Bytes(F)) = PoolSize + Cardinality(Debts(F))
  BY DEF Conservation
<1>0. G = [F EXCEPT ![a] = n] /\ H = [G EXCEPT ![b] = c]
  OBVIOUS
<1> HIDE DEF F, G, H, a, b, c
<1>5. /\ G \in [Holder -> Int] /\ IsFiniteSet(Bytes(G)) /\ IsFiniteSet(Debts(G))
      /\ Cardinality(Bytes(G)) - Cardinality(Debts(G))
            = Cardinality(Bytes(F)) - Cardinality(Debts(F)) - F[a] + n
      /\ Cardinality(Bytes(F)) \in Nat /\ Cardinality(Debts(F)) \in Nat
  <2>1. /\ F \in [Holder -> Int] /\ a \in Holder /\ n \in Int
        /\ IsFiniteSet(Bytes(F)) /\ IsFiniteSet(Debts(F)) /\ Changes(F, a, n, G)
    BY <1>0, <1>1, <1>4 DEF Changes
  <2> QED
    BY ONLY <2>1, SumChange
<1>6. G[b] = F[b]
  BY <1>0, <1>1
<1>7. /\ IsFiniteSet(Bytes(H)) /\ IsFiniteSet(Debts(H))
      /\ Cardinality(Bytes(H)) - Cardinality(Debts(H))
            = Cardinality(Bytes(G)) - Cardinality(Debts(G)) - G[b] + c
      /\ Cardinality(Bytes(G)) \in Nat /\ Cardinality(Debts(G)) \in Nat
      /\ Cardinality(Bytes(H)) \in Nat /\ Cardinality(Debts(H)) \in Nat
  <2>1. c \in Int
    BY <1>2 DEF c
  <2> QED
    <3>1. /\ G \in [Holder -> Int] /\ b \in Holder /\ c \in Int
          /\ IsFiniteSet(Bytes(G)) /\ IsFiniteSet(Debts(G)) /\ Changes(G, b, c, H)
      BY <1>0, <1>1, <1>5, <2>1 DEF Changes
    <3> QED
      BY ONLY <3>1, SumChange
<1>8. ~overflowed' => pool' + Cardinality(Bytes(H)) = PoolSize + Cardinality(Debts(H))
  <2>1. pool \in Nat /\ pool' \in Nat /\ Carried(t)' = c /\ c \in Int /\ PoolSize \in Nat
    BY <1>2, BytePoolAssumption DEF IInv, TypeOK, c
  <2> HIDE DEF c
  <2>2. Cardinality(Bytes(H)) - Cardinality(Debts(H))
          = Cardinality(Bytes(F)) - Cardinality(Debts(F)) - amount[h] + n - Carried(t) + c
    BY <1>1, <1>2, <1>5, <1>6, <1>7, <2>1
  <2>3. ASSUME ~overflowed' PROVE pool' + Cardinality(Bytes(H)) = PoolSize + Cardinality(Debts(H))
    <3>1. /\ pool + Cardinality(Bytes(F)) = PoolSize + Cardinality(Debts(F))
          /\ pool' + n + c = pool + amount[h] + Carried(t)
      BY <1>4, <2>1, <2>3
    <3> QED
      BY <1>1, <1>5, <1>7, <2>1, <2>2, <3>1
  <2> QED
    BY <2>3
<1>9. Bytes(Held)' = Bytes(H) /\ Debts(Held)' = Debts(H)
  BY <1>3 DEF Bytes, Debts
<1> QED
  BY <1>7, <1>8, <1>9 DEF Conservation

\* SumInv holds initially.
LEMMA InitSumInv == Init => SumInv
<1> SUFFICES ASSUME Init PROVE SumInv
  OBVIOUS
<1>1. \A x \in Holder : Held[x] = 0
  <2>1. \A t \in Thread : Carried(t) = 0
    BY DEF Init, Carried
  <2> QED
    BY <2>1 DEF Init, Held, Holder
<1>2. DOMAIN Held = Holder
  BY DEF Held
<1>3. /\ IsFiniteSet(Bytes(Held)) /\ Cardinality(Bytes(Held)) = 0
      /\ IsFiniteSet(Debts(Held)) /\ Cardinality(Debts(Held)) = 0
  BY <1>1, <1>2, NoBytes
<1>4. pool = PoolSize /\ PoolSize \in Nat
  BY BytePoolAssumption DEF Init
<1> QED
  BY <1>3, <1>4 DEF Init, SumInv, Conservation

-----------------------------------------------------------------------------
(* What the steps do to what is counted.                                   *)

\* A step of t that moves no byte.
Quiet(t) ==
    /\ Alone(t) /\ pool' = pool /\ amount' = amount /\ born' = born /\ overflowed' = overflowed
    /\ pc[t] # "allocSet" /\ pc'[t] # "allocSet"
    /\ pc[t] \in Returns <=> pc'[t] \in Returns
    /\ pc[t] \in Returns => loc'[t].diff = loc[t].diff

\* Bytes leave the pool for the instance under construction, or arrive in the pool if
\* the request is negative.
Takes(t) ==
    /\ Alone(t) /\ amount' = amount /\ born' = born /\ overflowed' = overflowed
    /\ pc[t] = "allocCas" /\ pc'[t] = "allocSet"
    /\ loc'[t].h = loc[t].h /\ loc'[t].n = loc[t].n
    /\ loc[t].n \in Requests
    /\ loc'[t].diff \in (0..loc[t].n) \cup {loc[t].n} /\ loc'[t].diff <= pool
    /\ pool' = pool - loc'[t].diff

\* Bytes leave an instance; as many as the difference, or more if that was too large.
Exact(t) == amount[loc[t].h] - loc[t].n \in JInt
Shrinks(t) ==
    /\ Alone(t) /\ pool' = pool /\ born' = born
    /\ overflowed' = (overflowed \/ ~Exact(t))
    /\ pc[t] = "shrinkCas" /\ pc'[t] = "backRead" /\ loc'[t] = loc[t]
    /\ loc[t].h \in born /\ loc[t].diff \in Nat /\ loc[t].n \in Nat
    /\ Exact(t) => loc[t].diff + loc[t].n = amount[loc[t].h]
    /\ ~Exact(t) => /\ loc[t].diff = amount[loc[t].h] - loc[t].n + 2 * (MaxInt + 1)
                    /\ amount[loc[t].h] - loc[t].n < -MaxInt - 1
                    /\ amount[loc[t].h] < 0 /\ loc[t].n \in 1..MaxInt
    /\ amount' = [amount EXCEPT ![loc[t].h] = loc[t].n]

\* Bytes arrive in an instance, or in the pool.
Stores(t) ==
    /\ Alone(t) /\ pool' = pool /\ overflowed' = overflowed
    /\ pc[t] = "allocSet" /\ pc'[t] = "idle"
    /\ amount' = [amount EXCEPT ![loc[t].h] = loc[t].diff]
    /\ born' = born \cup {loc[t].h}
GivesBack(t) ==
    /\ Alone(t) /\ amount' = amount /\ born' = born /\ overflowed' = overflowed
    /\ pc[t] = "backCas" /\ pc'[t] = "idle"
    /\ pool' = pool + loc[t].diff

\* The locals and the place of t after a step that changes only these.
LEMMA MovesAlone ==
  ASSUME IInv, NEW t \in Thread, NEW l, NEW L,
         pc' = [pc EXCEPT ![t] = l], loc' = [loc EXCEPT ![t] = L]
  PROVE  Alone(t) /\ pc'[t] = l /\ loc'[t] = L
BY DEF IInv, TypeOK, Alone

\* A call begins, or ends at once.
LEMMA BeginIsQuiet ==
  ASSUME IInv, NEW t \in Thread, Begin(t)
  PROVE  Quiet(t)
<1>1. CASE \E h \in Handle : \E r \in Requests : Alloc(t, h, r)
  <2>1. PICK h \in Handle, r \in Requests : Alloc(t, h, r)
    BY <1>1
  <2>2. pc[t] = "idle" /\ pc' = [pc EXCEPT ![t] = "allocRead"]
        /\ loc' = [loc EXCEPT ![t] = Locals(h, r, FALSE)]
        /\ pool' = pool /\ amount' = amount /\ born' = born /\ overflowed' = overflowed
    BY <2>1 DEF Alloc, Call, Goto
  <2>3. Alone(t) /\ pc'[t] = "allocRead" /\ loc'[t] = Locals(h, r, FALSE)
    BY <2>2, MovesAlone
  <2> QED
    BY <2>2, <2>3 DEF Quiet, Returns
<1>2. CASE \E h \in Handle : \E n \in JInt : ShrinkTo(t, h, n)
  <2>1. PICK h \in Handle, n \in JInt : ShrinkTo(t, h, n)
    BY <1>2
  <2>2. pc[t] = "idle" /\ pool' = pool /\ amount' = amount /\ born' = born /\ overflowed' = overflowed
    BY <2>1 DEF ShrinkTo
  <2>3. PICK l \in {"idle", "shrinkRead"}, L \in {NoCall, Locals(h, n, FALSE), [Locals(AnyHandle, n, TRUE) EXCEPT !.oldVal = 0]} :
           pc' = [pc EXCEPT ![t] = l] /\ loc' = [loc EXCEPT ![t] = L]
    BY <2>1 DEF ShrinkTo, Throw, Returned, Call, Goto
  <2>4. Alone(t) /\ pc'[t] = l
    BY <2>3, MovesAlone
  <2> QED
    BY <2>2, <2>4 DEF Quiet, Returns
<1> QED
  BY <1>1, <1>2, JIntType, BytePoolAssumption DEF Begin, Close

\* A compareAndSet() that fails moves nothing.
LEMMA RetryIsQuiet ==
  ASSUME IInv, SumInv, NEW t \in Thread, NEW read, NEW cas, Retry(t, read, cas),
         pool' = pool, amount' = amount, born' = born, overflowed' = overflowed,
         \/ pc[t] = "allocCas" /\ read = "allocRead"
         \/ pc[t] = "shrinkCas" /\ read = "shrinkRead"
         \/ pc[t] = "backCas" /\ read = "backRead"
  PROVE  Quiet(t)
<1>1. pc' = [pc EXCEPT ![t] = read] /\ loc' = loc
  BY DEF Retry, Goto
<1>2. Alone(t) /\ pc'[t] = read
  BY <1>1 DEF IInv, TypeOK, Alone
<1> QED
  BY <1>1, <1>2 DEF Quiet, Returns

\* A read moves nothing.
LEMMA ReadIsQuiet ==
  ASSUME IInv, SumInv, NEW t \in Thread, AllocRead(t) \/ ShrinkRead(t) \/ BackRead(t)
  PROVE  Quiet(t)
<1>1. loc[t] \in Local
  BY DEF IInv, TypeOK
<1>2. CASE AllocRead(t)
  <2> DEFINE L == [loc[t] EXCEPT !.oldVal = pool]
  <2>1. pc[t] = "allocRead" /\ pc' = [pc EXCEPT ![t] = "allocCas"] /\ loc' = [loc EXCEPT ![t] = L]
        /\ pool' = pool /\ amount' = amount /\ born' = born /\ overflowed' = overflowed
    BY <1>2 DEF AllocRead, Goto, IInv, TypeOK
  <2> HIDE DEF L
  <2>2. Alone(t) /\ pc'[t] = "allocCas"
    BY <2>1, MovesAlone
  <2> QED
    BY <2>1, <2>2 DEF Quiet, Returns
<1>3. CASE BackRead(t)
  <2> DEFINE L == [loc[t] EXCEPT !.oldVal = pool]
  <2>1. pc[t] = "backRead" /\ pc' = [pc EXCEPT ![t] = "backCas"] /\ loc' = [loc EXCEPT ![t] = L]
        /\ pool' = pool /\ amount' = amount /\ born' = born /\ overflowed' = overflowed
    BY <1>3 DEF BackRead, Goto, IInv, TypeOK
  <2>2. L.diff = loc[t].diff
    BY <1>1 DEF Local
  <2> HIDE DEF L
  <2>3. Alone(t) /\ pc'[t] = "backCas" /\ loc'[t] = L
    BY <2>1, MovesAlone
  <2> QED
    BY <2>1, <2>2, <2>3 DEF Quiet, Returns
<1>4. CASE ShrinkRead(t)
  <2> DEFINE old == amount[loc[t].h]
             diff == Diff(old, loc[t].n)
             L == [loc[t] EXCEPT !.oldVal = old, !.diff = diff]
  <2>1. pc[t] = "shrinkRead" /\ pool' = pool /\ amount' = amount /\ born' = born /\ overflowed' = overflowed
    BY <1>4 DEF ShrinkRead
  <2>2. CASE CannotShrink(diff)
    <3>1. pc' = [pc EXCEPT ![t] = "idle"]
          /\ loc' = [loc EXCEPT ![t] = [Locals(AnyHandle, loc[t].n, TRUE) EXCEPT !.oldVal = old]]
      BY <1>4, <2>2 DEF ShrinkRead, Throw, Goto
    <3>2. Alone(t) /\ pc'[t] = "idle"
      BY <3>1, MovesAlone
    <3> QED
      BY <2>1, <3>2 DEF Quiet, Returns
  <2>3. CASE ~CannotShrink(diff)
    <3>1. pc' = [pc EXCEPT ![t] = "shrinkCas"] /\ loc' = [loc EXCEPT ![t] = L]
      BY <1>4, <2>3 DEF ShrinkRead, Goto, IInv, TypeOK
    <3> HIDE DEF L
    <3>2. Alone(t) /\ pc'[t] = "shrinkCas"
      BY <3>1, MovesAlone
    <3> QED
      BY <2>1, <3>2 DEF Quiet, Returns
  <2> QED
    BY <2>2, <2>3
<1> QED
  BY <1>2, <1>3, <1>4

\* alloc() takes bytes, or finds that the pool has changed.
LEMMA AllocCasTakes ==
  ASSUME IInv, SumInv, NEW t \in Thread, AllocCas(t)
  PROVE  Quiet(t) \/ Takes(t)
<1> DEFINE old == loc[t].oldVal
           new == Taken(old, loc[t].n)
           L == [loc[t] EXCEPT !.diff = old - new]
<1>1. loc[t] \in Local /\ CallOK(t) /\ pc[t] = "allocCas" /\ pool \in Nat
      /\ amount' = amount /\ born' = born /\ overflowed' = overflowed
  BY IInvFacts DEF AllocCas
<1>2. loc[t].n \in Requests
  BY <1>1 DEF CallOK, Fits, Allocating
<1>4. CASE pool = old
  <2>1. pc' = [pc EXCEPT ![t] = "allocSet"] /\ loc' = [loc EXCEPT ![t] = L] /\ pool' = new
    BY <1>4 DEF AllocCas, Goto, IInv, TypeOK
  <2>2. L.h = loc[t].h /\ L.n = loc[t].n /\ L.diff = old - new
    BY <1>1 DEF Local
  <2> HIDE DEF L, new, old
  <2>3. Alone(t) /\ pc'[t] = "allocSet" /\ loc'[t] = L
    BY <2>1, MovesAlone
  <2>4. old \in Nat
    BY <1>1, <1>4
  <2>5. /\ new \in Nat /\ old - new \in (0..loc[t].n) \cup {loc[t].n} /\ old - new <= old
        /\ new = old - (old - new)
    <3>1. /\ Taken(old, loc[t].n) \in Nat /\ old - Taken(old, loc[t].n) <= old
          /\ old - Taken(old, loc[t].n) \in (0..loc[t].n) \cup {loc[t].n}
      BY <1>2, <2>4, TakenBounds
    <3>2. ASSUME NEW x \in Nat PROVE x = old - (old - x)
      BY <2>4
    <3> QED
      BY <3>1, <3>2 DEF new
  <2> QED
    BY <1>1, <1>2, <1>4, <2>1, <2>2, <2>3, <2>5 DEF Takes
<1>5. CASE pool # old
  <2>1. Retry(t, "allocRead", "allocCas") /\ pool' = pool
    BY <1>5 DEF AllocCas
  <2> QED
    BY <1>1, <2>1, RetryIsQuiet
<1> QED
  BY <1>4, <1>5

\* The constructor stores what alloc() took.
LEMMA AllocSetStores ==
  ASSUME IInv, NEW t \in Thread, AllocSet(t)
  PROVE  Stores(t)
<1>1. pc' = [pc EXCEPT ![t] = "idle"] /\ loc' = [loc EXCEPT ![t] = NoCall]
  BY DEF AllocSet, Returned, Goto
<1>2. Alone(t) /\ pc'[t] = "idle"
  BY <1>1, MovesAlone
<1> QED
  BY <1>2 DEF AllocSet, Stores

\* shrinkTo() gives bytes up, or finds that the amount has changed.
LEMMA ShrinkCasShrinks ==
  ASSUME IInv, SumInv, NEW t \in Thread, ShrinkCas(t)
  PROVE  Quiet(t) \/ Shrinks(t)
<1>1. loc[t] \in Local /\ CallOK(t) /\ pc[t] = "shrinkCas" /\ pool' = pool /\ born' = born
  BY IInvFacts DEF ShrinkCas
<1>2. /\ loc[t].n \in JInt /\ loc[t].n >= 0 /\ loc[t].h \in born /\ loc[t].oldVal \in JInt
      /\ loc[t].diff = Diff(loc[t].oldVal, loc[t].n) /\ loc[t].diff >= 0
  BY <1>1 DEF CallOK, Fits, Shrinking, Local
<1>4. CASE AmountUnchanged(loc[t].oldVal, amount[loc[t].h])
  <2>1. /\ pc' = [pc EXCEPT ![t] = "backRead"] /\ loc' = loc
        /\ amount' = [amount EXCEPT ![loc[t].h] = loc[t].n]
        /\ amount[loc[t].h] = loc[t].oldVal
        /\ overflowed' = (overflowed \/ loc[t].oldVal - loc[t].n \notin JInt)
    BY <1>4 DEF ShrinkCas, Goto, AmountUnchanged
  <2>2. Alone(t) /\ pc'[t] = "backRead"
    BY <2>1 DEF IInv, TypeOK, Alone
  <2>3. /\ loc[t].diff \in Nat /\ loc[t].n \in Nat
        /\ Exact(t) => loc[t].diff + loc[t].n = loc[t].oldVal
        /\ ~Exact(t) => /\ loc[t].diff = loc[t].oldVal - loc[t].n + 2 * (MaxInt + 1)
                        /\ loc[t].oldVal - loc[t].n < -MaxInt - 1
                        /\ loc[t].oldVal < 0 /\ loc[t].n \in 1..MaxInt
    <3> DEFINE old == loc[t].oldVal
               n == loc[t].n
               d == loc[t].diff
    <3>1. Exact(t) <=> old - n \in JInt
      BY <2>1 DEF Exact
    <3> HIDE DEF old, n, d
    <3>2. old \in JInt /\ n \in JInt /\ n >= 0 /\ d = Diff(old, n) /\ d >= 0
      BY <1>2 DEF old, n, d
    <3>3. /\ old \in Int /\ n \in Int /\ d \in Int
          /\ old - n \in JInt => d = old - n
          /\ old - n \notin JInt => /\ d = old - n + 2 * (MaxInt + 1)
                                    /\ old < 0 /\ n \in 1..MaxInt /\ old - n < -MaxInt - 1
      BY <3>2, DiffFacts
    <3>4. d \in Nat /\ n \in Nat /\ (d = old - n => d + n = old)
      BY <3>2, <3>3
    <3> QED
      BY <3>1, <3>3, <3>4 DEF old, n, d
  <2>4. overflowed' = (overflowed \/ ~Exact(t))
    BY <2>1 DEF Exact
  <2> QED
    BY <1>1, <1>2, <2>1, <2>2, <2>3, <2>4 DEF Shrinks
<1>5. CASE ~AmountUnchanged(loc[t].oldVal, amount[loc[t].h])
  <2>1. Retry(t, "shrinkRead", "shrinkCas") /\ amount' = amount /\ overflowed' = overflowed
    BY <1>5 DEF ShrinkCas
  <2> QED
    BY <1>1, <2>1, RetryIsQuiet
<1> QED
  BY <1>4, <1>5

\* shrinkTo() adds them to the pool, or finds that it has changed.
LEMMA BackCasGivesBack ==
  ASSUME IInv, SumInv, NEW t \in Thread, BackCas(t)
  PROVE  Quiet(t) \/ GivesBack(t)
<1>1. pc[t] = "backCas" /\ amount' = amount /\ born' = born /\ overflowed' = overflowed
  BY DEF BackCas
<1>2. CASE pool = loc[t].oldVal
  <2>1. /\ pc' = [pc EXCEPT ![t] = "idle"] /\ loc' = [loc EXCEPT ![t] = NoCall]
        /\ pool' = loc[t].oldVal + loc[t].diff
    BY <1>2 DEF BackCas, Returned, Goto
  <2>2. Alone(t) /\ pc'[t] = "idle"
    BY <2>1, MovesAlone
  <2> QED
    BY <1>1, <1>2, <2>1, <2>2 DEF GivesBack
<1>3. CASE pool # loc[t].oldVal
  <2>1. Retry(t, "backRead", "backCas") /\ pool' = pool
    BY <1>3 DEF BackCas
  <2> QED
    BY <1>1, <2>1, RetryIsQuiet
<1> QED
  BY <1>2, <1>3

\* There are no other steps.
LEMMA StepKinds ==
  ASSUME IInv, SumInv, Next
  PROVE  \E t \in Thread : Quiet(t) \/ Takes(t) \/ Stores(t) \/ Shrinks(t) \/ GivesBack(t)
<1>1. PICK t \in Thread : Begin(t) \/ Step(t)
  BY DEF Next
<1>2. CASE Begin(t)
  BY <1>2, BeginIsQuiet
<1>3. CASE Step(t)
  BY <1>3, ReadIsQuiet, AllocCasTakes, AllocSetStores, ShrinkCasShrinks, BackCasGivesBack DEF Step
<1> QED
  BY <1>1, <1>2, <1>3

-----------------------------------------------------------------------------
\* SumInv survives a step of t that creates and loses nothing.
LEMMA SumMoves ==
  ASSUME IInv, IInv', SumInv, NEW t \in Thread, NEW h \in Handle, NEW n \in Int, Alone(t),
         amount' = [amount EXCEPT ![h] = n],
         overflowed => overflowed',
         ~overflowed' => pool' + n + Carried(t)' = pool + amount[h] + Carried(t),
         overflowed' /\ ~overflowed => \E r \in Requests : r < 0,
         born \subseteq born', h \in born' \/ n = amount[h]
  PROVE  SumInv'
<1>1. Conservation'
  <2>1. Conservation /\ overflowed' \in BOOLEAN /\ overflowed \in BOOLEAN
    BY DEF SumInv, IInv, TypeOK
  <2>2. overflowed' => \E r \in Requests : r < 0
    BY <2>1 DEF Conservation
  <2> QED
    BY <2>1, <2>2, Conserves
<1>2. (\A g \in Handle : g \notin born => amount[g] = 0)'
  BY DEF SumInv, IInv, TypeOK
<1> QED
  BY <1>1, <1>2 DEF SumInv

\* No step of any thread breaks SumInv.
LEMMA NextSumInv ==
  ASSUME IInv, IInv', SumInv, [Next]_vars
  PROVE  SumInv'
<1>1. CASE UNCHANGED vars
  BY <1>1 DEF vars, SumInv, Conservation, Held, Carried, Bytes, Debts
<1>2. CASE Next
  <2>1. PICK t \in Thread : Quiet(t) \/ Takes(t) \/ Stores(t) \/ Shrinks(t) \/ GivesBack(t)
    BY <1>2, StepKinds
  <2>2. /\ pool \in Nat /\ pool' \in Nat /\ amount \in [Handle -> Int]
        /\ loc[t] \in Local /\ loc'[t] \in Local
    BY JIntType DEF IInv, TypeOK
  <2>3. /\ loc[t].h \in Handle /\ loc[t].diff \in Int /\ loc'[t].diff \in Int
        /\ AnyHandle \in Handle
    BY <2>2, AnyHandleType DEF Local
  <2>4. /\ amount[loc[t].h] \in Int /\ amount[AnyHandle] \in Int
        /\ amount = [amount EXCEPT ![AnyHandle] = amount[AnyHandle]]
    BY <2>2, <2>3
  <2>5. CASE Quiet(t)
    <3>1. Carried(t)' = Carried(t) /\ Carried(t) \in Int
      BY <2>3, <2>5 DEF Quiet, Returns, Carried
    <3>2. pool' + amount[AnyHandle] + Carried(t)' = pool + amount[AnyHandle] + Carried(t)
      BY <2>5, <3>1 DEF Quiet
    <3> QED
      BY <2>3, <2>4, <2>5, <3>2, SumMoves DEF Quiet
  <2>6. CASE Takes(t)
    <3>1. Carried(t)' = loc'[t].diff /\ Carried(t) = 0
      BY <2>6 DEF Takes, Carried
    <3>2. pool' + amount[AnyHandle] + Carried(t)' = pool + amount[AnyHandle] + Carried(t)
      BY <2>2, <2>3, <2>4, <2>6, <3>1 DEF Takes
    <3>3. Alone(t) /\ amount' = amount /\ born' = born /\ overflowed' = overflowed
      BY <2>6 DEF Takes
    <3> QED
      BY <2>3, <2>4, <3>2, <3>3, SumMoves
  <2>7. CASE Stores(t)
    <3>1. Carried(t)' = 0 /\ Carried(t) = loc[t].diff
      BY <2>7 DEF Stores, Carried
    <3>2. amount[loc[t].h] = 0
      BY <2>3, <2>7 DEF Stores, SumInv, IInv, CallOK, Fits, Allocating
    <3>3. pool' + loc[t].diff + Carried(t)' = pool + amount[loc[t].h] + Carried(t)
      BY <2>2, <2>3, <2>7, <3>1, <3>2 DEF Stores
    <3>4. /\ Alone(t) /\ overflowed' = overflowed /\ born \subseteq born' /\ loc[t].h \in born'
          /\ amount' = [amount EXCEPT ![loc[t].h] = loc[t].diff]
      BY <2>7 DEF Stores
    <3> QED
      BY <2>3, <3>3, <3>4, SumMoves
  <2>8. CASE Shrinks(t)
    <3>1. Carried(t)' = loc[t].diff /\ Carried(t) = 0
      BY <2>8 DEF Shrinks, Carried
    <3>2. loc[t].n \in Int /\ (~overflowed' => loc[t].n + loc[t].diff = amount[loc[t].h])
      <4>1. loc[t].n \in Int /\ loc[t].diff \in Int
        BY <2>2, <2>3, JIntType DEF Local
      <4>2. ASSUME ~overflowed' PROVE loc[t].diff + loc[t].n = amount[loc[t].h]
        BY <2>8, <4>2 DEF Shrinks
      <4> QED
        BY <4>1, <4>2
    <3>3. ~overflowed' => pool' + loc[t].n + Carried(t)' = pool + amount[loc[t].h] + Carried(t)
      BY <2>2, <2>3, <2>4, <2>8, <3>1, <3>2 DEF Shrinks
    <3>4. /\ Alone(t) /\ born' = born /\ loc[t].h \in born /\ overflowed' = (overflowed \/ ~Exact(t))
          /\ amount' = [amount EXCEPT ![loc[t].h] = loc[t].n]
          /\ ~Exact(t) => amount[loc[t].h] < 0
      BY <2>8 DEF Shrinks
    <3>5. amount[loc[t].h] < 0 => amount[loc[t].h] \in Requests
      BY <2>3 DEF IInv, TypeOK
    <3>6. overflowed' /\ ~overflowed => \E r \in Requests : r < 0
      BY <3>4, <3>5
    <3>7. overflowed => overflowed'
      BY <3>4
    <3> QED
      BY <2>3, <3>2, <3>3, <3>4, <3>6, <3>7, SumMoves
  <2>9. CASE GivesBack(t)
    <3>1. Carried(t)' = 0 /\ Carried(t) = loc[t].diff
      BY <2>9 DEF GivesBack, Carried
    <3>2. pool' + amount[AnyHandle] + Carried(t)' = pool + amount[AnyHandle] + Carried(t)
      BY <2>2, <2>3, <2>4, <2>9, <3>1 DEF GivesBack
    <3>3. Alone(t) /\ amount' = amount /\ born' = born /\ overflowed' = overflowed
      BY <2>9 DEF GivesBack
    <3> QED
      BY <2>3, <2>4, <3>2, <3>3, SumMoves
  <2> QED
    BY <2>1, <2>5, <2>6, <2>7, <2>8, <2>9
<1> QED
  BY <1>1, <1>2

\* The sum of what is in the pool, in the instances and in the calls stays PoolSize.
THEOREM SumInvariant == Spec => [](IInv /\ SumInv)
<1>1. IInv /\ SumInv /\ [Next]_vars => (IInv /\ SumInv)'
  BY NextIInv, NextSumInv
<1> QED
  BY InitIInv, InitSumInv, <1>1, PTL DEF Spec

\* alloc(), shrinkTo() and close() of any number of threads neither create nor lose
\* bytes, however their atomic accesses interleave.
THEOREM NoByteIsLost == Spec => []Conservation
<1>1. SumInv => Conservation
  BY DEF SumInv
<1> QED
  BY SumInvariant, <1>1, PTL

-----------------------------------------------------------------------------
(* BytePool implements BytePoolAbs.                                        *)

\* The bytes on their way back can be counted.
RefInv == IInv /\ SumInv /\ IsFiniteSet(Bytes(Returning))

\* An instance has its bytes from the moment its constructor took them.
OwnedAre ==
    /\ \A t \in Thread : pc[t] = "allocSet" => Owned[loc[t].h] = loc[t].diff
    /\ \A h \in Handle : (\A t \in Thread : ~(pc[t] = "allocSet" /\ loc[t].h = h)) => Owned[h] = amount[h]
    /\ Owned = [h \in Handle |-> Owned[h]]

\* Only one constructor is at work on an instance.
LEMMA OwnedFacts == IInv => OwnedAre
<1> SUFFICES ASSUME IInv PROVE OwnedAre
  OBVIOUS
<1>1. ASSUME NEW t \in Thread, pc[t] = "allocSet" PROVE Owned[loc[t].h] = loc[t].diff
  <2>1. loc[t].h \in Handle
    BY DEF IInv, TypeOK, Local
  <2>2. Constructing(loc[t].h) = {t}
    <3>1. ASSUME NEW u \in Thread, pc[u] = "allocSet", loc[u].h = loc[t].h PROVE u = t
      BY <1>1, <3>1 DEF IInv, Allocating
    <3> QED
      BY <1>1, <3>1 DEF Constructing
  <2>3. (CHOOSE u \in Constructing(loc[t].h) : TRUE) = t
    BY <2>2
  <2> QED
    BY <2>1, <2>2, <2>3 DEF Owned
<1>2. ASSUME NEW h \in Handle, \A t \in Thread : ~(pc[t] = "allocSet" /\ loc[t].h = h)
      PROVE  Owned[h] = amount[h]
  <2>1. Constructing(h) = {}
    BY <1>2 DEF Constructing
  <2> QED
    BY <2>1 DEF Owned
<1>3. Owned = [h \in Handle |-> Owned[h]]
  BY DEF Owned
<1> QED
  BY <1>1, <1>2, <1>3 DEF OwnedAre

LEMMA OwnedFactsNext == IInv' => OwnedAre'
BY OwnedFacts, PTL

\* t is about to store the bytes of h.
Builds(t, h) == pc[t] = "allocSet" /\ loc[t].h = h

Live == born \cup {h \in Handle : Constructing(h) # {}}

\* An instance is live when it is known, or has its bytes already.
LEMMA LiveFacts == \A h \in Handle : h \in Live <=> h \in born \/ \E t \in Thread : Builds(t, h)
BY DEF Live, Constructing, Builds

LEMMA LiveFactsNext == (\A h \in Handle : h \in Live <=> h \in born \/ \E t \in Thread : Builds(t, h))'
BY LiveFacts, PTL

\* What t does to one instance changes nothing of another.
LEMMA Elsewhere ==
  ASSUME IInv, IInv', NEW t \in Thread, NEW h \in Handle, Alone(t),
         ~Builds(t, h), ~Builds(t, h)', amount'[h] = amount[h], h \in born' <=> h \in born
  PROVE  Owned'[h] = Owned[h] /\ (h \in Live' <=> h \in Live)
<1>1. OwnedAre /\ OwnedAre'
  BY OwnedFacts, OwnedFactsNext
<1>2. \A u \in Thread : Builds(u, h)' <=> Builds(u, h)
  BY DEF Alone, Builds
<1>3. h \in Live' <=> h \in Live
  BY <1>2, LiveFacts, LiveFactsNext
<1>4. CASE \E u \in Thread : Builds(u, h)
  <2>1. PICK u \in Thread : Builds(u, h)
    BY <1>4
  <2>2. u # t
    BY <2>1
  <2>3. loc'[u] = loc[u] /\ pc'[u] = pc[u]
    BY <2>2 DEF Alone
  <2>4. Owned[h] = loc[u].diff
    BY <1>1, <2>1 DEF OwnedAre, Builds
  <2>5. Owned'[h] = loc'[u].diff
    BY <1>1, <2>1, <2>3 DEF OwnedAre, Builds
  <2> QED
    BY <1>3, <2>3, <2>4, <2>5
<1>5. CASE ~\E u \in Thread : Builds(u, h)
  <2>1. Owned[h] = amount[h]
    BY <1>1, <1>5 DEF OwnedAre, Builds
  <2>2. Owned'[h] = amount'[h]
    BY <1>1, <1>2, <1>5 DEF OwnedAre, Builds
  <2> QED
    BY <1>3, <2>1, <2>2
<1> QED
  BY <1>4, <1>5

\* An instance under construction is new, and nobody else constructs it.
LEMMA BuildingFacts ==
  ASSUME IInv, NEW t \in Thread, pc[t] \in Allocating
  PROVE  /\ loc[t].h \in Handle \ born
         /\ \A u \in Thread \ {t} : ~Builds(u, loc[t].h)
<1>1. loc[t] \in Local /\ CallOK(t)
  BY DEF IInv, TypeOK
<1>2. \A u \in Thread \ {t} : pc[u] \in Allocating => loc[u].h # loc[t].h
  BY DEF IInv
<1> QED
  BY <1>1, <1>2 DEF Local, CallOK, Fits, Builds, Allocating

\* A step that moves no byte is none of BytePoolAbs.
LEMMA QuietRef ==
  ASSUME IInv, IInv', NEW t \in Thread, Quiet(t)
  PROVE  Free' = Free /\ Returning' = Returning /\ Owned' = Owned /\ Live' = Live
<1>1. \A u \in Thread : Returning'[u] = Returning[u]
  <2>1. ASSUME NEW u \in Thread
        PROVE  (IF pc'[u] \in Returns THEN loc'[u].diff ELSE 0)
                  = (IF pc[u] \in Returns THEN loc[u].diff ELSE 0)
    BY DEF Quiet, Alone
  <2> QED
    BY <2>1 DEF Returning, Returns
<1>2. Returning' = Returning
  BY <1>1 DEF Returning
<1>3. Bytes(Returning)' = Bytes(Returning)
  BY <1>2 DEF Bytes
<1>4. ASSUME NEW h \in Handle PROVE Owned'[h] = Owned[h] /\ (h \in Live' <=> h \in Live)
  <2>1. ~Builds(t, h) /\ ~Builds(t, h)' /\ amount'[h] = amount[h] /\ (h \in born' <=> h \in born)
    BY DEF Quiet, Builds
  <2> QED
    BY <2>1, Elsewhere DEF Quiet
<1>5. Owned' = Owned
  BY <1>4 DEF Owned
<1>6. Live' = Live
  <2>1. Live \subseteq Handle /\ Live' \subseteq Handle
    BY DEF Live, IInv, TypeOK
  <2> QED
    BY <1>4, <2>1
<1> QED
  BY <1>2, <1>3, <1>5, <1>6 DEF Free, Quiet

\* What a call carries back to the pool is a number of bytes.
LEMMA ReturningType == IInv => Returning \in [Thread -> Nat]
<1> SUFFICES ASSUME IInv PROVE Returning \in [Thread -> Nat]
  OBVIOUS
<1>1. \A t \in Thread : pc[t] \in Returns => loc[t].diff \in Nat
  BY DEF IInv, CallOK, Fits
<1> QED
  BY <1>1 DEF Returning, Returns

\* The bytes on their way back change by what t carries there.
LEMMA ReturningChange ==
  ASSUME IInv, IsFiniteSet(Bytes(Returning)), NEW t \in Thread, NEW n \in Nat, Alone(t), Returning'[t] = n
  PROVE  /\ IsFiniteSet(Bytes(Returning)')
         /\ Cardinality(Bytes(Returning))' = Cardinality(Bytes(Returning)) - Returning[t] + n
         /\ Cardinality(Bytes(Returning)) \in Nat
<1> DEFINE F == Returning
           G == [F EXCEPT ![t] = n]
<1>1. F \in [Thread -> Nat]
  BY ReturningType
<1>2. \A u \in Thread \ {t} : Returning'[u] = F[u]
  BY DEF Returning, Alone
<1>3. Returning' = [u \in Thread |-> Returning'[u]]
  BY DEF Returning
<1>4. IsFiniteSet(Bytes(F))
  OBVIOUS
<1> HIDE DEF F
<1>5. G = [u \in Thread |-> G[u]] /\ \A u \in Thread : G[u] = Returning'[u]
  BY <1>1, <1>2
<1>6. /\ IsFiniteSet(Bytes(G)) /\ Cardinality(Bytes(G)) = Cardinality(Bytes(F)) - F[t] + n
      /\ Cardinality(Bytes(F)) \in Nat
  <2>1. F \in [Thread -> Int] /\ F[t] \in Nat /\ n \in Int
    BY <1>1
  <2>2. Pos(F[t]) = F[t] /\ Pos(n) = n
    BY <2>1 DEF Pos
  <2> HIDE DEF G
  <2>3. /\ IsFiniteSet(Bytes(G)) /\ Cardinality(Bytes(G)) = Cardinality(Bytes(F)) - Pos(F[t]) + Pos(n)
        /\ Cardinality(Bytes(F)) \in Nat
    BY <1>4, <2>1, BytesChange DEF G
  <2> QED
    BY <2>2, <2>3
<1>7. Returning' = G
  BY <1>3, <1>5
<1> HIDE DEF G
<1>8. Bytes(Returning)' = Bytes(G)
  BY <1>7 DEF Bytes
<1> QED
  BY <1>6, <1>8 DEF F

\* alloc() has its effect as it takes the bytes from the pool.
LEMMA TakesRef ==
  ASSUME RefInv, IInv', NEW t \in Thread, Takes(t)
  PROVE  IsFiniteSet(Bytes(Returning)') /\ Abs!AbsAlloc(loc[t].h)
<1>0. PICK h \in Handle, d \in Int : h = loc[t].h /\ d = loc'[t].diff
  BY DEF RefInv, IInv, TypeOK, Local
<1>1. /\ Alone(t) /\ amount' = amount /\ born' = born /\ pc[t] = "allocCas" /\ pc'[t] = "allocSet"
      /\ loc'[t].h = h /\ loc[t].n \in Requests /\ d \in (0..loc[t].n) \cup {loc[t].n}
      /\ pool \in Nat /\ d <= pool /\ pool' = pool - d /\ IInv
  BY <1>0 DEF Takes, RefInv, IInv, TypeOK
<1>2. h \in Handle \ born /\ \A u \in Thread \ {t} : ~Builds(u, h)
  BY <1>0, <1>1, BuildingFacts DEF Allocating
<1>3. ~Builds(t, h) /\ Builds(t, h)'
  BY <1>0, <1>1 DEF Builds
<1>4. h \notin Live /\ h \in Live'
  BY <1>2, <1>3, LiveFacts, LiveFactsNext
<1>5. Owned'[h] = d
  BY <1>0, <1>1, OwnedFactsNext DEF OwnedAre
<1>6. ASSUME NEW g \in Handle, g # h PROVE Owned'[g] = Owned[g] /\ (g \in Live' <=> g \in Live)
  <2>1. ~Builds(t, g) /\ ~Builds(t, g)' /\ amount'[g] = amount[g] /\ (g \in born' <=> g \in born)
    BY <1>0, <1>1, <1>6 DEF Builds
  <2> QED
    BY <1>1, <2>1, Elsewhere
<1>7. Owned' = [Owned EXCEPT ![h] = d]
  <2>1. Owned' = [g \in Handle |-> Owned'[g]] /\ Owned = [g \in Handle |-> Owned[g]]
    BY DEF Owned
  <2> QED
    BY <1>5, <1>6, <2>1
<1>8. Live' = Live \cup {h}
  <2>1. Live \subseteq Handle /\ Live' \subseteq Handle
    BY <1>1 DEF Live, IInv, TypeOK
  <2> QED
    BY <1>2, <1>4, <1>6, <2>1
<1>9. Returning[t] = 0 /\ Returning'[t] = 0
  BY <1>1 DEF Returning
<1>10. /\ IsFiniteSet(Bytes(Returning)')
       /\ Cardinality(Bytes(Returning))' = Cardinality(Bytes(Returning))
       /\ Cardinality(Bytes(Returning)) \in Nat
  BY <1>1, <1>9, ReturningChange DEF RefInv
<1>11. d \in Int /\ Free' = Free - d /\ d <= Free
  <2>1. pool' = pool - d /\ d <= pool /\ pool \in Nat
    BY <1>1
  <2>2. Cardinality(Bytes(Returning)) \in Nat
    BY <1>10
  <2>3. Free = pool + Cardinality(Bytes(Returning)) /\ Free' = pool' + Cardinality(Bytes(Returning))
    BY <1>10 DEF Free
  <2> QED
    BY <2>1, <2>2, <2>3
<1>12. \E requested \in Requests : \E n \in (0..requested) \cup {requested} :
          n <= Free /\ Owned' = [Owned EXCEPT ![h] = n] /\ Free' = Free - n
  <2>1. loc[t].n \in Requests /\ d \in (0..loc[t].n) \cup {loc[t].n}
    BY <1>1
  <2>2. d <= Free /\ Free' = Free - d
    BY <1>11
  <2> QED
    BY <1>7, <2>1, <2>2
<1> QED
  BY <1>0, <1>4, <1>8, <1>10, <1>12 DEF Abs!AbsAlloc, Live

\* The constructor stores what the instance owns already.
LEMMA StoresRef ==
  ASSUME RefInv, IInv', NEW t \in Thread, Stores(t)
  PROVE  /\ IsFiniteSet(Bytes(Returning)')
         /\ Free' = Free /\ Owned' = Owned /\ Live' = Live
<1>0. PICK h \in Handle : h = loc[t].h
  BY DEF RefInv, IInv, TypeOK, Local
<1>1. /\ Alone(t) /\ pool' = pool /\ pc[t] = "allocSet" /\ pc'[t] = "idle" /\ IInv
      /\ amount' = [amount EXCEPT ![h] = loc[t].diff] /\ born' = born \cup {h}
      /\ amount \in [Handle -> JInt]
  BY <1>0 DEF Stores, RefInv, IInv, TypeOK
<1>2. h \in Handle \ born /\ \A u \in Thread \ {t} : ~Builds(u, h)
  BY <1>0, <1>1, BuildingFacts DEF Allocating
<1>3. Builds(t, h) /\ \A u \in Thread : ~Builds(u, h)'
  BY <1>0, <1>1, <1>2 DEF Builds, Alone
<1>4. h \in Live /\ h \in Live'
  <2>1. h \in born'
    BY <1>1
  <2> QED
    BY <1>2, <1>3, <2>1, LiveFacts, LiveFactsNext
<1>5. Owned'[h] = Owned[h]
  <2>1. Owned[h] = loc[t].diff
    BY <1>0, <1>1, OwnedFacts DEF OwnedAre
  <2>2. Owned'[h] = amount'[h]
    BY <1>2, <1>3, OwnedFactsNext DEF OwnedAre, Builds
  <2> QED
    BY <1>1, <1>2, <2>1, <2>2
<1>6. ASSUME NEW g \in Handle, g # h PROVE Owned'[g] = Owned[g] /\ (g \in Live' <=> g \in Live)
  <2>1. ~Builds(t, g) /\ ~Builds(t, g)' /\ amount'[g] = amount[g] /\ (g \in born' <=> g \in born)
    BY <1>0, <1>1, <1>6 DEF Builds
  <2> QED
    BY <1>1, <2>1, Elsewhere
<1>7. Owned' = Owned
  <2>1. Owned' = [g \in Handle |-> Owned'[g]] /\ Owned = [g \in Handle |-> Owned[g]]
    BY DEF Owned
  <2> QED
    BY <1>5, <1>6, <2>1
<1>8. Live' = Live
  <2>1. Live \subseteq Handle /\ Live' \subseteq Handle
    BY <1>1 DEF Live, IInv, TypeOK
  <2> QED
    BY <1>4, <1>6, <2>1
<1>9. Returning[t] = 0 /\ Returning'[t] = 0
  BY <1>1 DEF Returning
<1>10. /\ IsFiniteSet(Bytes(Returning)')
       /\ Cardinality(Bytes(Returning))' = Cardinality(Bytes(Returning))
  BY <1>1, <1>9, ReturningChange DEF RefInv
<1> QED
  BY <1>1, <1>7, <1>8, <1>10 DEF Free

\* shrinkTo() has its effect as it takes the bytes from the instance.
LEMMA ShrinksRef ==
  ASSUME RefInv, IInv', NEW t \in Thread, Shrinks(t)
  PROVE  IsFiniteSet(Bytes(Returning)') /\ (Abs!AbsShrink(loc[t].h) \/ Abs!AbsOverflow(loc[t].h))
<1> DEFINE n == loc[t].n
           d == loc[t].diff
<1>0. PICK h \in Handle : h = loc[t].h
  BY DEF RefInv, IInv, TypeOK, Local
<1>1. /\ Alone(t) /\ pool' = pool /\ born' = born /\ pc[t] = "shrinkCas" /\ pc'[t] = "backRead"
      /\ loc'[t] = loc[t] /\ h \in born /\ d \in Nat /\ n \in Nat
      /\ amount' = [amount EXCEPT ![h] = n] /\ pool \in Nat
      /\ amount \in [Handle -> Int] /\ born \subseteq Handle /\ IInv
  BY <1>0, JIntType DEF Shrinks, RefInv, IInv, TypeOK
<1>2. d \in Nat /\ n \in Nat /\ amount[h] \in Int /\ h \in Handle
  BY <1>1
<1>3. \A u \in Thread : ~Builds(u, h) /\ ~Builds(u, h)'
  <2>1. \A u \in Thread : ~Builds(u, h)
    BY <1>1, BuildingFacts DEF Builds, Allocating
  <2> QED
    BY <1>1, <2>1 DEF Builds, Alone
<1>4. Owned[h] = amount[h] /\ Owned'[h] = n
  BY <1>1, <1>2, <1>3, OwnedFacts, OwnedFactsNext DEF OwnedAre, Builds
<1>5. ASSUME NEW g \in Handle PROVE g # h => Owned'[g] = Owned[g]
  <2>1. ~Builds(t, g) /\ ~Builds(t, g)' /\ (g \in born' <=> g \in born)
        /\ (g # h => amount'[g] = amount[g])
    BY <1>1 DEF Builds
  <2> QED
    BY <1>1, <2>1, Elsewhere
<1>6. ASSUME NEW g \in Handle PROVE g \in Live' <=> g \in Live
  <2>1. \A u \in Thread : Builds(u, g)' <=> Builds(u, g)
    BY <1>1 DEF Builds, Alone
  <2> QED
    BY <1>1, <2>1, LiveFacts, LiveFactsNext
<1> HIDE DEF n, d
<1>7. Owned' = [Owned EXCEPT ![h] = n]
  <2>1. Owned' = [g \in Handle |-> Owned'[g]] /\ Owned = [g \in Handle |-> Owned[g]]
    BY DEF Owned
  <2> QED
    BY <1>4, <1>5, <2>1
<1>8. Live' = Live
  <2>1. Live \subseteq Handle /\ Live' \subseteq Handle
    BY <1>1 DEF Live, IInv, TypeOK
  <2> QED
    BY <1>6, <2>1
<1>9. h \in Live
  BY <1>1 DEF Live
<1>10. Returning[t] = 0 /\ Returning'[t] = d
  BY <1>1 DEF Returning, d
<1>11. /\ IsFiniteSet(Bytes(Returning)')
       /\ Cardinality(Bytes(Returning))' = Cardinality(Bytes(Returning)) - 0 + d
       /\ Cardinality(Bytes(Returning)) \in Nat
  BY <1>1, <1>2, <1>10, ReturningChange DEF RefInv
<1>12. Free' = Free + d
  <2>1. Free' = pool + (Cardinality(Bytes(Returning)) - 0 + d)
    BY <1>1, <1>11 DEF Free
  <2>2. Free = pool + Cardinality(Bytes(Returning))
    BY DEF Free
  <2> QED
    BY <1>1, <1>2, <1>11, <2>1, <2>2
<1>13. Free \in Int
  BY <1>1, <1>11 DEF Free
<1>14. CASE Exact(t)
  <2>1. d + n = Owned[h]
    BY <1>0, <1>4, <1>14 DEF Shrinks, d, n
  <2>2. n \in 0..Owned[h] /\ Free' = Free + Owned[h] - n
    BY <1>2, <1>4, <1>12, <1>13, <2>1
  <2> QED
    BY <1>0, <1>7, <1>8, <1>9, <1>11, <2>2 DEF Abs!AbsShrink, Live
<1>15. CASE ~Exact(t)
  <2>1. /\ d = Owned[h] - n + 2 * (MaxInt + 1) /\ Owned[h] - n < -MaxInt - 1
        /\ Owned[h] < 0 /\ n \in 1..MaxInt
    BY <1>0, <1>4, <1>15 DEF Shrinks, d, n
  <2>2. Free' = Free + Owned[h] - n + 2 * (MaxInt + 1)
    <3>1. MaxInt \in Nat /\ Owned[h] \in Int
      BY <1>2, <1>4, BytePoolAssumption
    <3> QED
      BY <1>2, <1>12, <1>13, <2>1, <3>1
  <2> QED
    BY <1>0, <1>7, <1>8, <1>9, <1>11, <2>1, <2>2 DEF Abs!AbsOverflow, Live
<1> QED
  BY <1>14, <1>15

\* Bytes on their way back are free already.
LEMMA GivesBackRef ==
  ASSUME RefInv, IInv', NEW t \in Thread, GivesBack(t)
  PROVE  /\ IsFiniteSet(Bytes(Returning)')
         /\ Free' = Free /\ Owned' = Owned /\ Live' = Live
<1> DEFINE d == loc[t].diff
<1>1. /\ Alone(t) /\ amount' = amount /\ born' = born /\ pc[t] = "backCas" /\ pc'[t] = "idle"
      /\ pool' = pool + d /\ pool \in Nat /\ IInv
  BY DEF GivesBack, RefInv, IInv, TypeOK
<1>2. d \in Nat
  BY <1>1 DEF IInv, CallOK, Fits, Returns
<1>3. ASSUME NEW h \in Handle PROVE Owned'[h] = Owned[h] /\ (h \in Live' <=> h \in Live)
  <2>1. ~Builds(t, h) /\ ~Builds(t, h)' /\ amount'[h] = amount[h] /\ (h \in born' <=> h \in born)
    BY <1>1 DEF Builds
  <2> QED
    BY <1>1, <2>1, Elsewhere
<1>4. Owned' = Owned
  BY <1>3 DEF Owned
<1>5. Live' = Live
  <2>1. Live \subseteq Handle /\ Live' \subseteq Handle
    BY <1>1 DEF Live, IInv, TypeOK
  <2> QED
    BY <1>3, <2>1
<1>6. Returning[t] = d /\ Returning'[t] = 0
  BY <1>1 DEF Returning
<1> HIDE DEF d
<1>7. /\ IsFiniteSet(Bytes(Returning)')
      /\ Cardinality(Bytes(Returning))' = Cardinality(Bytes(Returning)) - d + 0
      /\ Cardinality(Bytes(Returning)) \in Nat
  BY <1>1, <1>6, ReturningChange DEF RefInv
<1>8. Free' = Free
  <2>1. Free' = (pool + d) + (Cardinality(Bytes(Returning)) - d + 0)
    BY <1>1, <1>7 DEF Free
  <2>2. Free = pool + Cardinality(Bytes(Returning))
    BY DEF Free
  <2> QED
    BY <1>1, <1>2, <1>7, <2>1, <2>2
<1> QED
  BY <1>4, <1>5, <1>7, <1>8

\* Nothing is on its way and nobody constructs an instance initially.
LEMMA InitRef == Init => IsFiniteSet(Bytes(Returning)) /\ Abs!AbsInit
<1> SUFFICES ASSUME Init PROVE IsFiniteSet(Bytes(Returning)) /\ Abs!AbsInit
  OBVIOUS
<1>1. DOMAIN Returning = Thread /\ \A t \in Thread : Returning[t] = 0
  BY DEF Init, Returning
<1>2. IsFiniteSet(Bytes(Returning)) /\ Cardinality(Bytes(Returning)) = 0
  BY <1>1, NoBytes
<1>3. Free = PoolSize
  BY <1>2, BytePoolAssumption DEF Init, Free
<1>4. \A h \in Handle : Constructing(h) = {}
  BY DEF Init, Constructing
<1>5. Owned = [h \in Handle |-> 0]
  BY <1>4 DEF Init, Owned
<1>6. born \cup {h \in Handle : Constructing(h) # {}} = {}
  BY <1>4 DEF Init
<1> QED
  BY <1>2, <1>3, <1>5, <1>6 DEF Abs!AbsInit

\* Every step is one of BytePoolAbs, or none.
LEMMA NextRef ==
  ASSUME RefInv, IInv', [Next]_vars
  PROVE  IsFiniteSet(Bytes(Returning)') /\ [Abs!AbsNext]_(Abs!absVars)
<1>1. CASE UNCHANGED vars
  <2>1. Returning' = Returning /\ Owned' = Owned /\ Live' = Live
    BY <1>1 DEF vars, Returning, Owned, Live, Constructing
  <2>2. Bytes(Returning)' = Bytes(Returning) /\ pool' = pool
    BY <1>1, <2>1 DEF vars, Bytes
  <2>3. Free' = Free
    BY <2>2 DEF Free
  <2> QED
    BY <2>1, <2>2, <2>3 DEF RefInv, Live, Abs!absVars
<1>2. CASE Next
  <2>1. PICK t \in Thread : Quiet(t) \/ Takes(t) \/ Stores(t) \/ Shrinks(t) \/ GivesBack(t)
    BY <1>2, StepKinds DEF RefInv
  <2>2. loc[t].h \in Handle
    BY DEF RefInv, IInv, TypeOK, Local
  <2>3. CASE Quiet(t) \/ Stores(t) \/ GivesBack(t)
    <3>1. IsFiniteSet(Bytes(Returning)') /\ Free' = Free /\ Owned' = Owned /\ Live' = Live
      <4>1. CASE Quiet(t)
        <5>1. Free' = Free /\ Returning' = Returning /\ Owned' = Owned /\ Live' = Live
          BY <4>1, QuietRef DEF RefInv
        <5> QED
          BY <5>1 DEF RefInv
      <4> QED
        BY <2>3, <4>1, StoresRef, GivesBackRef
    <3> QED
      BY <3>1 DEF Live, Abs!absVars
  <2>4. CASE Takes(t)
    BY <2>2, <2>4, TakesRef DEF Abs!AbsNext
  <2>5. CASE Shrinks(t)
    BY <2>2, <2>5, ShrinksRef DEF Abs!AbsNext
  <2> QED
    BY <2>1, <2>3, <2>4, <2>5
<1> QED
  BY <1>1, <1>2

\* The atomic accesses of any number of threads look like operations of BytePoolAbs
\* that take effect at one moment each.
THEOREM PoolIsImplemented == Spec => ImplementsPool
<1>1. Init => RefInv /\ Abs!AbsInit
  BY InitIInv, InitSumInv, InitRef DEF RefInv
<1>2. RefInv /\ [Next]_vars => RefInv' /\ [Abs!AbsNext]_(Abs!absVars)
  <2>1. Bytes(Returning)' = Bytes(Returning')
    BY DEF Bytes
  <2> QED
    BY <2>1, NextIInv, NextSumInv, NextRef DEF RefInv
<1> QED
  BY <1>1, <1>2, PTL DEF Spec, ImplementsPool, Abs!AbsSpec
=============================================================================
