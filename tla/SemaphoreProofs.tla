--------------------------- MODULE SemaphoreProofs ---------------------------
(***************************************************************************)
(* MonitoredSemaphore.java: the monitor excludes, what the callers do is   *)
(* counted, and so no look at a semaphore in use reports a leak: for any   *)
(* threads, any permits and any operations.                                *)
(***************************************************************************)
EXTENDS MonitoredSemaphore, TLAPS

Stat == [numAcquired : Nat, numReleased : Nat, numFailures : 0..NumFailureTreshold]

\* The fields of a call.
LEMMA CallFacts ==
    ASSUME TypeOK, NEW t \in Thread
    PROVE  /\ call[t].at \in {"idle", "enter", "inside"} /\ call[t].n \in Nat
           /\ call[t].op \in AllOps \cup {None}
BY DEF TypeOK

\* The counters are numbers.
LEMMA StatFacts ==
    ASSUME TypeOK
    PROVE  /\ permits \in Nat /\ out \in Int /\ stat \in Stat /\ stat.numAcquired \in Nat /\ stat.numReleased \in Nat
           /\ stat.numFailures \in 0..NumFailureTreshold
BY DEF TypeOK, Stat

\* A thread that leaves the synchronized block, with what it left behind, keeps the
\* invariant: nobody else is inside, and every permit that moved was counted.
LEMMA LeaveKeeps ==
    ASSUME SemaphoreInv, NEW t \in Thread, call[t].at = "inside", Leave(t),
           permits' \in Nat, out' \in Int, stat' \in Stat, log' = log,
           moved' \in BOOLEAN,
           moved' => stat'.numAcquired > 0 \/ stat'.numReleased > 0
    PROVE  SemaphoreInv'
<1>1. /\ TypeOK /\ MonitorHeld /\ CallsForPermits
      /\ monitor' = None /\ call' = [call EXCEPT ![t] = NoCall]
    BY DEF SemaphoreInv, Leave
<1>2. /\ NoCall \in [at : {"idle", "enter", "inside"}, op : AllOps \cup {None}, n : Nat]
      /\ NoCall.at = "idle"
    BY DEF NoCall
<1>3. TypeOK'
    BY <1>1, <1>2 DEF TypeOK, Stat
<1>4. \A u \in Thread : call'[u] = IF u = t THEN NoCall ELSE call[u]
    BY <1>1 DEF TypeOK
<1>5. MonitorHeld'
    <2>1. ASSUME NEW u \in Thread
          PROVE  call'[u].at # "inside" /\ monitor' # u
        <3>1. monitor' # u
            BY <1>1, MonitoredSemaphoreAssumption
        <3>2. CASE u = t
            BY <1>2, <1>4, <3>1, <3>2
        <3>3. CASE u # t
            BY <1>1, <1>4, <3>1, <3>3 DEF MonitorHeld
        <3> QED
            BY <3>2, <3>3
    <2> QED
        BY <2>1 DEF MonitorHeld
<1>6. CallsForPermits'
    BY <1>1, <1>2, <1>4 DEF CallsForPermits
<1>7. TrafficCounted'
    BY DEF TrafficCounted
<1> QED
    BY <1>3, <1>5, <1>6, <1>7 DEF SemaphoreInv

-----------------------------------------------------------------------------
(* The steps.                                                              *)

\* A caller calls.
LEMMA CallStep ==
    ASSUME SemaphoreInv, NEW t \in Thread, NEW op \in Ops, NEW n \in 1..Permits, Call(t, op, n)
    PROVE  SemaphoreInv'
<1> DEFINE c == [at |-> "enter", op |-> op, n |-> n]
<1>1. /\ TypeOK /\ MonitorHeld /\ CallsForPermits /\ TrafficCounted
      /\ call[t] = NoCall /\ call' = [call EXCEPT ![t] = c]
      /\ UNCHANGED <<permits, monitor, stat, log, moved>>
    BY DEF SemaphoreInv, Call
<1>2. n \in Nat /\ n > 0 /\ op \in AllOps
    BY MonitoredSemaphoreAssumption
<1>3. out' \in Int
    <2>1. out' = out - n \/ out' = out
        BY DEF Call
    <2> QED
        BY <1>1, <1>2, <2>1, StatFacts
<1>4. /\ c \in [at : {"idle", "enter", "inside"}, op : AllOps \cup {None}, n : Nat]
      /\ c.at = "enter" /\ c.n = n
    BY <1>2
<1> HIDE DEF c
<1>5. TypeOK'
    BY <1>1, <1>3, <1>4 DEF TypeOK
<1>6. \A u \in Thread : call'[u] = IF u = t THEN c ELSE call[u]
    BY <1>1 DEF TypeOK
<1>7. MonitorHeld'
    <2>1. monitor # t
        BY <1>1 DEF MonitorHeld, NoCall
    <2> QED
        BY <1>1, <1>4, <1>6, <2>1 DEF MonitorHeld
<1>8. CallsForPermits'
    BY <1>1, <1>2, <1>4, <1>6 DEF CallsForPermits
<1>9. TrafficCounted'
    BY <1>1 DEF TrafficCounted
<1> QED
    BY <1>5, <1>7, <1>8, <1>9 DEF SemaphoreInv

\* A thread gets the monitor nobody holds.
LEMMA EnterStep ==
    ASSUME SemaphoreInv, NEW t \in Thread, Enter(t)
    PROVE  SemaphoreInv'
<1> DEFINE c == [call[t] EXCEPT !.at = "inside"]
<1>1. /\ TypeOK /\ MonitorHeld /\ CallsForPermits /\ TrafficCounted
      /\ call[t].at = "enter" /\ monitor = None /\ monitor' = t
      /\ call' = [call EXCEPT ![t] = c]
      /\ UNCHANGED <<permits, out, stat, log, moved>>
    BY DEF SemaphoreInv, Enter
<1>2. /\ c \in [at : {"idle", "enter", "inside"}, op : AllOps \cup {None}, n : Nat]
      /\ c.at = "inside" /\ c.n = call[t].n
    BY <1>1 DEF TypeOK
<1> HIDE DEF c
<1>3. TypeOK'
    BY <1>1, <1>2 DEF TypeOK
<1>4. \A u \in Thread : call'[u] = IF u = t THEN c ELSE call[u]
    BY <1>1 DEF TypeOK
<1>5. MonitorHeld'
    <2>1. ASSUME NEW u \in Thread, u # t
          PROVE  call'[u].at # "inside" /\ monitor' # u
        <3>1. monitor # u
            BY <1>1, MonitoredSemaphoreAssumption
        <3> QED
            BY <1>1, <1>4, <2>1, <3>1 DEF MonitorHeld
    <2> QED
        BY <1>1, <1>2, <1>4, <2>1 DEF MonitorHeld
<1>6. CallsForPermits'
    BY <1>1, <1>2, <1>4 DEF CallsForPermits
<1>7. TrafficCounted'
    BY <1>1 DEF TrafficCounted
<1> QED
    BY <1>3, <1>5, <1>6, <1>7 DEF SemaphoreInv

\* Permits are acquired, and counted.
LEMMA AcquiredStep ==
    ASSUME SemaphoreInv, NEW t \in Thread, Acquired(t)
    PROVE  SemaphoreInv'
<1> DEFINE n == call[t].n
           k == Counted(call[t].op, n)
<1>1. /\ TypeOK /\ CallsForPermits /\ call[t].at = "inside" /\ Leave(t)
      /\ permits >= n /\ permits' = permits - n /\ out' = out + n /\ log' = log
      /\ stat' = [stat EXCEPT !.numAcquired = @ + k] /\ moved' = TRUE
    BY DEF SemaphoreInv, Acquired, Inside
<1>2. n \in Nat /\ n > 0
    BY <1>1, CallFacts DEF CallsForPermits
<1> HIDE DEF n
<1>3. k \in Nat /\ k > 0
    BY <1>2 DEF Counted
<1> HIDE DEF k
<1>4. permits' \in Nat /\ out' \in Int
    <2>1. permits \in Nat /\ out \in Int
        BY <1>1, StatFacts
    <2> QED
        BY <1>1, <1>2, <2>1
<1>5. stat.numAcquired + k \in Nat /\ stat.numAcquired + k > 0 /\ stat \in Stat
    BY <1>1, <1>3, StatFacts
<1>6. stat' \in Stat /\ stat'.numAcquired > 0
    BY <1>1, <1>5 DEF Stat
<1> QED
    BY <1>1, <1>4, <1>6, LeaveKeeps

\* A call gives up.
LEMMA NotAcquiredStep ==
    ASSUME SemaphoreInv, NEW t \in Thread, NotAcquired(t)
    PROVE  SemaphoreInv'
<1>1. /\ TypeOK /\ TrafficCounted /\ call[t].at = "inside" /\ Leave(t)
      /\ UNCHANGED <<permits, out, stat, log, moved>>
    BY DEF SemaphoreInv, NotAcquired, Inside
<1>2. permits' \in Nat /\ out' \in Int /\ stat' \in Stat /\ moved' \in BOOLEAN
    BY <1>1 DEF TypeOK, Stat
<1> QED
    BY <1>1, <1>2, LeaveKeeps DEF TrafficCounted

\* Permits are released, and counted.
LEMMA ReleaseStep ==
    ASSUME SemaphoreInv, NEW t \in Thread, Release(t)
    PROVE  SemaphoreInv'
<1> DEFINE n == call[t].n
<1>1. /\ TypeOK /\ CallsForPermits /\ call[t].at = "inside" /\ Leave(t)
      /\ permits' = permits + n /\ out' = out /\ log' = log
      /\ stat' = [stat EXCEPT !.numReleased = @ + n] /\ moved' = TRUE
    BY DEF SemaphoreInv, Release, Inside
<1>2. n \in Nat /\ n > 0
    BY <1>1, CallFacts DEF CallsForPermits
<1> HIDE DEF n
<1>3. permits' \in Nat /\ out' \in Int
    <2>1. permits \in Nat /\ out \in Int
        BY <1>1, StatFacts
    <2> QED
        BY <1>1, <1>2, <2>1
<1>4. stat.numReleased + n \in Nat /\ stat.numReleased + n > 0 /\ stat \in Stat
    BY <1>1, <1>2, StatFacts
<1>5. stat' \in Stat /\ stat'.numReleased > 0
    BY <1>1, <1>4 DEF Stat
<1> QED
    BY <1>1, <1>3, <1>5, LeaveKeeps

\* All permits are taken: none moves when there is none.
LEMMA DrainStep ==
    ASSUME SemaphoreInv, NEW t \in Thread, DrainPermits(t)
    PROVE  SemaphoreInv'
<1>1. /\ TypeOK /\ TrafficCounted /\ call[t].at = "inside" /\ Leave(t)
      /\ permits' = 0 /\ out' = out + permits /\ log' = log
      /\ stat' = [stat EXCEPT !.numAcquired = @ + permits] /\ moved' = (moved \/ permits > 0)
    BY DEF SemaphoreInv, DrainPermits, Inside
<1>2. permits' \in Nat /\ out' \in Int
    <2>1. permits \in Nat /\ out \in Int
        BY <1>1, StatFacts
    <2> QED
        BY <1>1, <2>1
<1>3. /\ stat.numAcquired + permits \in Nat /\ stat \in Stat
      /\ stat.numAcquired > 0 \/ permits > 0 => stat.numAcquired + permits > 0
    <2>1. permits \in Nat /\ stat.numAcquired \in Nat /\ stat \in Stat
        BY <1>1, StatFacts
    <2> QED
        BY <2>1
<1>4. /\ stat' \in Stat /\ stat'.numAcquired = stat.numAcquired + permits
      /\ stat'.numReleased = stat.numReleased
    BY <1>1, <1>3 DEF Stat
<1>5. moved' \in BOOLEAN
    BY <1>1
<1>6. moved' => stat'.numAcquired > 0 \/ stat'.numReleased > 0
    BY <1>1, <1>3, <1>4 DEF TrafficCounted
<1> QED
    BY <1>1, <1>2, <1>4, <1>5, <1>6, LeaveKeeps

\* A look resets the counters, and with them what they stand for.
LEMMA LookStep ==
    ASSUME SemaphoreInv, TakeALook
    PROVE  SemaphoreInv'
<1> DEFINE f == FailuresAfter(stat, IsOk(stat, permits))
<1>1. /\ TypeOK /\ MonitorHeld /\ CallsForPermits
      /\ stat' = [numAcquired |-> 0, numReleased |-> 0, numFailures |-> f]
      /\ moved' = FALSE /\ UNCHANGED <<permits, monitor, call, out>>
    BY DEF SemaphoreInv, TakeALook
<1>2. log' \in {"nothing", "ok", "too early", "leak", "leak, over-released"}
    BY DEF TakeALook
<1>3. f \in 0..NumFailureTreshold
    BY <1>1, StatFacts DEF FailuresAfter, NumFailureTreshold
<1> HIDE DEF f
<1>4. stat' \in Stat
    BY <1>1, <1>3 DEF Stat
<1>5. TypeOK'
    BY <1>1, <1>2, <1>4 DEF TypeOK, Stat
<1>6. MonitorHeld' /\ CallsForPermits' /\ TrafficCounted'
    BY <1>1 DEF MonitorHeld, CallsForPermits, TrafficCounted
<1> QED
    BY <1>5, <1>6 DEF SemaphoreInv

-----------------------------------------------------------------------------
(* The theorems.                                                           *)

\* The invariant holds in every state: who is in a synchronized block of
\* MonitoredSemaphore.java holds its monitor, and whatever was acquired or released
\* since takeALook() last ran is in numAcquired or numReleased.
THEOREM SemaphoreInvariant == Spec => []SemaphoreInv
<1>1. Init => SemaphoreInv
    <2> SUFFICES ASSUME Init PROVE SemaphoreInv
        OBVIOUS
    <2>1. \A t \in Thread : call[t] = NoCall /\ monitor # t
        BY MonitoredSemaphoreAssumption DEF Init
    <2>2. TypeOK
        <3>1. permits \in Nat /\ out \in Int /\ 0 \in 0..NumFailureTreshold
            BY MonitoredSemaphoreAssumption DEF Init, NumFailureTreshold
        <3>2. stat \in Stat
            BY <3>1 DEF Init, Stat
        <3>3. call \in [Thread -> [at : {"idle", "enter", "inside"}, op : AllOps \cup {None}, n : Nat]]
            BY DEF Init, NoCall
        <3> QED
            BY <3>1, <3>2, <3>3 DEF Init, TypeOK, Stat
    <2>3. MonitorHeld /\ CallsForPermits
        BY <2>1 DEF MonitorHeld, CallsForPermits, NoCall
    <2> QED
        BY <2>2, <2>3 DEF SemaphoreInv, TrafficCounted, Init
<1>2. SemaphoreInv /\ [Next]_vars => SemaphoreInv'
    <2> SUFFICES ASSUME SemaphoreInv, [Next]_vars PROVE SemaphoreInv'
        OBVIOUS
    <2>1. CASE UNCHANGED vars
        BY <2>1 DEF SemaphoreInv, TypeOK, MonitorHeld, CallsForPermits, TrafficCounted, vars
    <2>2. ASSUME NEW t \in Thread, Step(t) PROVE SemaphoreInv'
        BY <2>2, EnterStep, AcquiredStep, NotAcquiredStep, ReleaseStep, DrainStep DEF Step
    <2> QED
        BY <2>1, <2>2, CallStep, LookStep DEF Next
<1> QED
    BY <1>1, <1>2, PTL DEF Spec

\* Every variable of MonitoredSemaphore.java keeps to its type; the permits never
\* go below zero.
THEOREM TypeCorrect == Spec => []TypeOK
<1>1. SemaphoreInv => TypeOK
    BY DEF SemaphoreInv
<1> QED
    BY <1>1, SemaphoreInvariant, PTL

\* takeALook() reports a leak only when no permit is left and none was acquired or
\* released since the look before.
THEOREM NoAlarmInUse == Spec => NoFalseAlarm
<1>1. SemaphoreInv /\ [Next]_vars =>
          [(TakeALook /\ log' = "leak") => (permits = 0 /\ ~moved)]_vars
    <2> SUFFICES ASSUME SemaphoreInv, TakeALook, log' = "leak"
                 PROVE  permits = 0 /\ ~moved
        OBVIOUS
    <2>1. ~IsOk(stat, permits)
        BY DEF TakeALook
    <2>2. permits \in Nat
        BY DEF SemaphoreInv, TypeOK
    <2> QED
        BY <2>1, <2>2 DEF IsOk, SemaphoreInv, TrafficCounted
<1> QED
    BY <1>1, SemaphoreInvariant, PTL DEF Spec, NoFalseAlarm
=============================================================================
