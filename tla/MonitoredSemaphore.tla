-------------------------- MODULE MonitoredSemaphore --------------------------
(***************************************************************************)
(* MonitoredSemaphore.java: a java.util.concurrent.Semaphore with leak     *)
(* detection.  Every operation holds the monitor of the object while it    *)
(* calls the inherited one, also while that one waits for permits.         *)
(*                                                                         *)
(* External: Semaphore itself (permits), and the mentor, which runs        *)
(* takeALook() again and again: its interval tells "How often the          *)
(* resource-leak check should happen".                                     *)
(***************************************************************************)
EXTENDS Integers

CONSTANTS
    Thread,
    Permits,        \* the permits of the constructor
    Ops,            \* the operations the callers use
    MaxExtra,       \* bound: permits the callers release and never acquired
    MaxTraffic      \* bound: permits counted between two looks

Waiting == {"acquire", "acquireUninterruptibly", "tryAcquireTimed"}
AllOps == Waiting \cup {"tryAcquire", "drainPermits", "release"}

None == "none"

ASSUME MonitoredSemaphoreAssumption ==
    /\ Permits \in Nat
    /\ Ops \subseteq AllOps
    /\ MaxExtra \in Nat
    /\ MaxTraffic \in Nat
    /\ None \notin Thread

NumFailureTreshold == 3

VARIABLES
    permits,        \* availablePermits()
    monitor,        \* who is in a synchronized block
    call,           \* what every thread is doing
    out,            \* permits the callers acquired and did not release
    stat,           \* numAcquired, numReleased, numFailures
    log,            \* what the last takeALook() logged
    moved           \* history: permits were acquired or released since then

vars == <<permits, monitor, call, out, stat, log, moved>>

NoCall == [at |-> "idle", op |-> None, n |-> 0]

Init ==
    /\ permits = Permits
    /\ monitor = None
    /\ call = [t \in Thread |-> NoCall]
    /\ out = 0
    /\ stat = [numAcquired |-> 0, numReleased |-> 0, numFailures |-> 0]
    /\ log = "nothing"
    /\ moved = FALSE

-----------------------------------------------------------------------------
\* A caller calls op, for n permits, and waits for the monitor.  The permits it
\* gives back are no longer its own; out is negative when it never had them.
Call(t, op, n) ==
    /\ call[t] = NoCall
    /\ stat.numAcquired + stat.numReleased < MaxTraffic
    /\ IF op = "release" THEN out - n >= -MaxExtra /\ out' = out - n ELSE UNCHANGED out
    /\ call' = [call EXCEPT ![t] = [at |-> "enter", op |-> op, n |-> n]]
    /\ UNCHANGED <<permits, monitor, stat, log, moved>>

\* synchronized( stateMutex )
Enter(t) ==
    /\ call[t].at = "enter"
    /\ monitor = None
    /\ monitor' = t
    /\ call' = [call EXCEPT ![t].at = "inside"]
    /\ UNCHANGED <<permits, out, stat, log, moved>>

Inside(t, ops) == call[t].at = "inside" /\ call[t].op \in ops

Leave(t) == monitor' = None /\ call' = [call EXCEPT ![t] = NoCall]

\* What the operation adds to numAcquired: only acquire( permits ) adds the number
\* of permits.
Counted(op, n) == IF op = "acquire" THEN n ELSE 1

\* The inherited operation finds the permits, at once or after a while.
Acquired(t) ==
    /\ Inside(t, Waiting \cup {"tryAcquire"})
    /\ permits >= call[t].n
    /\ permits' = permits - call[t].n
    /\ out' = out + call[t].n
    /\ stat' = [stat EXCEPT !.numAcquired = @ + Counted(call[t].op, call[t].n)]
    /\ moved' = TRUE
    /\ Leave(t)
    /\ UNCHANGED log

\* It does not: tryAcquire() returns, a timeout is over, or the waiting thread is
\* interrupted.
NotAcquired(t) ==
    /\ Inside(t, {"tryAcquire", "tryAcquireTimed", "acquire"})
    /\ call[t].op = "tryAcquire" => permits < call[t].n
    /\ Leave(t)
    /\ UNCHANGED <<permits, out, stat, log, moved>>

Release(t) ==
    /\ Inside(t, {"release"})
    /\ stat' = [stat EXCEPT !.numReleased = @ + call[t].n]
    /\ permits' = permits + call[t].n
    /\ moved' = TRUE
    /\ Leave(t)
    /\ UNCHANGED <<out, log>>

DrainPermits(t) ==
    /\ Inside(t, {"drainPermits"})
    /\ stat' = [stat EXCEPT !.numAcquired = @ + permits]
    /\ permits' = 0
    /\ out' = out + permits
    /\ moved' = (moved \/ permits > 0)
    /\ Leave(t)
    /\ UNCHANGED log

-----------------------------------------------------------------------------
\* Mutant: a look that finds nothing is never a failure.
NeverFails(s, isOk) ==
    IF s.numFailures >= NumFailureTreshold THEN 0 ELSE s.numFailures

FailuresAfter(s, isOk) ==
    IF s.numFailures >= NumFailureTreshold THEN 0
    ELSE IF ~isOk THEN s.numFailures + 1 ELSE s.numFailures

\* Mutant: a semaphore in use that has no permit left is a failure.
IsAvailable(s, avail) == avail > 0

IsOk(s, avail) == avail > 0 \/ s.numAcquired > 0 \/ s.numReleased > 0

\* The scheduler's thread takes the monitor for a moment, and logs afterwards.
TakeALook ==
    /\ monitor = None
    /\ LET isOk == IsOk(stat, permits)
           expectedToBeZero == stat.numAcquired - stat.numReleased - permits
       IN  /\ stat' = [numAcquired |-> 0, numReleased |-> 0,
                       numFailures |-> FailuresAfter(stat, isOk)]
           /\ log' = IF isOk THEN "ok"
                     ELSE IF stat.numFailures < NumFailureTreshold THEN "too early"
                     ELSE IF expectedToBeZero = 0 THEN "leak" ELSE "leak, over-released"
    /\ moved' = FALSE
    /\ UNCHANGED <<permits, monitor, call, out>>

Step(t) ==
    \/ Enter(t) \/ Acquired(t) \/ NotAcquired(t) \/ Release(t) \/ DrainPermits(t)

Next ==
    \/ \E t \in Thread, op \in Ops, n \in 1..Permits : Call(t, op, n)
    \/ \E t \in Thread : Step(t)
    \/ TakeALook

Spec == Init /\ [][Next]_vars

\* A thread that waits for the monitor gets it at last, calls go on when they
\* can, and the mentor keeps looking.
FairSpec ==
    /\ Spec
    /\ \A t \in Thread : SF_vars(Enter(t)) /\ WF_vars(Step(t))
    /\ SF_vars(TakeALook)

-----------------------------------------------------------------------------
(* Properties.                                                             *)

\* What every variable may hold.
TypeOK ==
    /\ permits \in Nat
    /\ monitor \in Thread \cup {None}
    /\ call \in [Thread -> [at : {"idle", "enter", "inside"}, op : AllOps \cup {None}, n : Nat]]
    /\ out \in Int
    /\ stat \in [numAcquired : Nat, numReleased : Nat, numFailures : 0..NumFailureTreshold]
    /\ log \in {"nothing", "ok", "too early", "leak", "leak, over-released"}
    /\ moved \in BOOLEAN

\* A leak is only reported when no permit is left and none was acquired or
\* released since the look before.
NoFalseAlarm == [][(TakeALook /\ log' = "leak") => (permits = 0 /\ ~moved)]_vars

Idle == \A t \in Thread : call[t] = NoCall

\* When all permits are gone for good, and nobody is calling, takeALook() finds
\* out, however the failures counted before came about.
LeakReported == <>[](permits = 0 /\ Idle) => <>(log = "leak")

\* "Basically 'just' a Semaphore": the release of a permit gets through, also
\* while another thread waits for it.
ReleaseGetsThrough ==
    \A t \in Thread : call[t].op = "release" ~> call[t].op # "release"

-----------------------------------------------------------------------------
(* The inductive invariant.                                                *)

\* A thread in a synchronized block is the one that holds the monitor.
MonitorHeld == \A t \in Thread : call[t].at = "inside" <=> monitor = t

\* A call that is under way is for at least one permit.
CallsForPermits == \A t \in Thread : call[t].at # "idle" => call[t].n > 0

\* Whatever moved since the last look is in one of the counters the next one reads.
TrafficCounted == moved => stat.numAcquired > 0 \/ stat.numReleased > 0

SemaphoreInv == TypeOK /\ MonitorHeld /\ CallsForPermits /\ TrafficCounted
=============================================================================
