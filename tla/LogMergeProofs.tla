---------------------------- MODULE LogMergeProofs ----------------------------
(***************************************************************************)
(* The event loop and the pool of LogMerge.c never get into each other's   *)
(* way, for any number of sources and any queue lengths.                   *)
(* Its offsets into the buffers stay in bounds and its assertions hold,    *)
(* for any input and buffer size.                                          *)
(* It writes the entries of its files, one after the other, in the order   *)
(* of their timestamps, for any files, any buffer size and any schedule of *)
(* the threads.                                                            *)
(***************************************************************************)
EXTENDS LogMergeRef, FiniteSetTheorems, SequenceTheorems, WellFoundedInduction, TLAPS

\* A set of offsets has a least element, and First() is it.
LEMMA FirstIsLeast ==
    ASSUME NEW S \in SUBSET Nat, S # {}
    PROVE  First(S) \in S /\ \A j \in S : First(S) <= j
<1> DEFINE less == {ss \in Nat \X Nat : ss[1] < ss[2]}
<1>1. IsWellFoundedOn(less, Nat)
    BY NatLessThanWellFounded DEF OpToRel
<1>2. \E x \in S : \A y \in S : ~(<<y, x>> \in less)
    <2> HIDE DEF less
    <2> QED
        BY <1>1, WFMin
<1>3. \A x, y \in Nat : x > y => <<y, x>> \in less
    <2> SUFFICES ASSUME NEW x \in Nat, NEW y \in Nat, x > y
                 PROVE  <<y, x>> \in less
        OBVIOUS
    <2>1. <<y, x>> \in Nat \X Nat /\ <<y, x>>[1] = y /\ <<y, x>>[2] = x
        OBVIOUS
    <2> QED
        BY <2>1
<1> HIDE DEF less
<1>4. PICK x \in S : \A y \in S : ~(<<y, x>> \in less)
    BY <1>2
<1>5. \A y \in S : x <= y
    <2> SUFFICES ASSUME NEW y \in S
                 PROVE  x <= y
        OBVIOUS
    <2>1. x \in Nat /\ y \in Nat /\ ~(<<y, x>> \in less)
        BY <1>4
    <2>2. ~(x > y)
        BY <2>1, <1>3
    <2> QED
        BY <2>1, <2>2
<1> QED
    BY <1>5 DEF First

-----------------------------------------------------------------------------
(* Counting busy threads.                                                  *)

\* The pool is finite, and so are its busy threads.
LEMMA BusyIsFinite ==
    /\ IsFiniteSet(Thread) /\ Cardinality(Thread) = NumSources
    /\ IsFiniteSet(Busy) /\ Cardinality(Busy) \in Nat
<1>1. IsFiniteSet(Thread) /\ Cardinality(Thread) = NumSources
    BY LogMergeAssumption, FS_Interval DEF Thread, NumThrds
<1>2. Busy \subseteq Thread
    BY DEF Busy
<1> QED
    BY <1>1, <1>2, FS_Subset, FS_CardinalityType

\* A thread takes a task.
LEMMA BusyGrows ==
    ASSUME job \in [Thread -> Job], NEW t \in Thread, NEW x, x # Idle,
           job[t] = Idle, job' = [job EXCEPT ![t] = x]
    PROVE  Cardinality(Busy') = Cardinality(Busy) + 1
<1>1. Busy' = Busy \cup {t} /\ t \notin Busy
    BY DEF Busy
<1> QED
    BY <1>1, BusyIsFinite, FS_AddElement

\* A thread has nothing left to do.
LEMMA BusyShrinks ==
    ASSUME job \in [Thread -> Job], NEW t \in Thread,
           job[t] # Idle, job' = [job EXCEPT ![t] = Idle]
    PROVE  Cardinality(Busy') = Cardinality(Busy) - 1
<1>1. Busy' = Busy \ {t} /\ t \in Busy
    BY DEF Busy
<1> QED
    BY <1>1, BusyIsFinite, FS_RemoveElement

\* A thread goes on to report its task.
LEMMA BusyStays ==
    ASSUME job \in [Thread -> Job], NEW t \in Thread, NEW x, x # Idle,
           job[t] # Idle, job' = [job EXCEPT ![t] = x]
    PROVE  Cardinality(Busy') = Cardinality(Busy)
<1>1. Busy' = Busy
    BY DEF Busy
<1> QED
    BY <1>1

\* When the counter says that nothing is outstanding, nothing is.
LEMMA NothingOutstanding ==
    ASSUME CtlTypeOK, Outstanding <= 0
    PROVE  PoolQuiet /\ envQ = <<>>
<1>1. Len(poolQ) \in Nat /\ Len(envQ) \in Nat /\ Cardinality(Busy) \in Nat
    BY BusyIsFinite DEF CtlTypeOK
<1>2. Len(poolQ) = 0 /\ Len(envQ) = 0 /\ Cardinality(Busy) = 0
    BY <1>1 DEF Outstanding
<1>3. poolQ = <<>> /\ envQ = <<>>
    BY <1>2 DEF CtlTypeOK
<1>4. Busy = {}
    BY <1>2, BusyIsFinite, FS_EmptySet
<1> QED
    BY <1>3, <1>4 DEF PoolQuiet, Busy

-----------------------------------------------------------------------------
(* What the threads of the pool do to a batch.                             *)

\* The type of a task that is taken, and what is left in the queue.
LEMMA PoolQueueFacts ==
    ASSUME CtlTypeOK, poolQ # <<>>
    PROVE  /\ Len(poolQ) \in Nat /\ Len(poolQ) >= 1
           /\ Head(poolQ) = poolQ[1] /\ Head(poolQ) \in PoolTask
           /\ Tail(poolQ) \in Seq(PoolTask) /\ Len(Tail(poolQ)) = Len(poolQ) - 1
           /\ \A i \in 1..Len(Tail(poolQ)) : Tail(poolQ)[i] = poolQ[i + 1]
BY DEF CtlTypeOK

\* The head and the tail of the event loop's queue.
LEMMA EnvQueueFacts ==
    ASSUME CtlTypeOK, envQ # <<>>
    PROVE  /\ Len(envQ) \in Nat /\ Len(envQ) >= 1
           /\ Head(envQ) = envQ[1] /\ Head(envQ) \in EnvTask
           /\ Tail(envQ) \in Seq(EnvTask) /\ Len(Tail(envQ)) = Len(envQ) - 1
           /\ \A i \in 1..Len(Tail(envQ)) : Tail(envQ)[i] = envQ[i + 1]
BY DEF CtlTypeOK

\* Taking a task from the pool's queue keeps a batch a batch.
LEMMA TakeTaskInBatch ==
    ASSUME CtlTypeOK, NEW t \in Thread, TakeTask(t)
    PROVE  /\ CtlTypeOK'
           /\ Outstanding' = Outstanding
           /\ \A pf, df : BatchOf(pf, df) => BatchOf(pf, df)'
           /\ DistinctSources => DistinctSources'
<1> DEFINE x == [at |-> "run", task |-> Head(poolQ)]
<1>1. /\ job[t] = Idle /\ poolQ # <<>>
      /\ job' = [job EXCEPT ![t] = x] /\ poolQ' = Tail(poolQ)
      /\ UNCHANGED <<pc, iter, pend, envQ, tokens, app>>
    BY DEF TakeTask, loopVars
<1>2. x # Idle /\ x \in Job /\ x.at = "run" /\ x.task = Head(poolQ)
    BY <1>1, PoolQueueFacts DEF Idle, Job
<1> HIDE DEF x
<1>3. job \in [Thread -> Job] /\ Len(envQ) \in Nat
    BY DEF CtlTypeOK
<1>4. CtlTypeOK'
    BY <1>1, <1>2, PoolQueueFacts DEF CtlTypeOK
<1>5. Outstanding' = Outstanding
    <2>1. Cardinality(Busy') = Cardinality(Busy) + 1
        BY <1>1, <1>2, <1>3, BusyGrows
    <2>2. Len(poolQ') = Len(poolQ) - 1 /\ Len(poolQ) \in Nat /\ envQ' = envQ
        BY <1>1, PoolQueueFacts
    <2> QED
        BY <2>1, <2>2, <1>3, BusyIsFinite DEF Outstanding
<1>6. ASSUME NEW pf, NEW df, BatchOf(pf, df)
      PROVE  BatchOf(pf, df)'
    <2>1. \A i \in 1..Len(poolQ') : i + 1 \in 1..Len(poolQ) /\ poolQ'[i] = poolQ[i + 1]
        BY <1>1, PoolQueueFacts
    <2>2. x.task.fn = pf
        BY <1>1, <1>2, <1>6, PoolQueueFacts DEF BatchOf
    <2>3. \A u \in Thread : job'[u] = IF u = t THEN x ELSE job[u]
        BY <1>1, <1>3
    <2> QED
        BY <1>1, <1>2, <1>6, <2>1, <2>2, <2>3 DEF BatchOf
<1>7. ASSUME DistinctSources
      PROVE  DistinctSources'
    <2>1. \A i \in 1..Len(poolQ') : i + 1 \in 1..Len(poolQ) /\ poolQ'[i] = poolQ[i + 1]
        BY <1>1, PoolQueueFacts
    <2>2. x.task = poolQ[1] /\ 1 \in 1..Len(poolQ)
        BY <1>1, <1>2, PoolQueueFacts
    <2>3. \A u \in Thread : job'[u] = IF u = t THEN x ELSE job[u]
        BY <1>1, <1>3
    <2>4. \A i, j \in 1..Len(poolQ') : i # j => poolQ'[i].arg # poolQ'[j].arg
        <3> SUFFICES ASSUME NEW i \in 1..Len(poolQ'), NEW j \in 1..Len(poolQ'), i # j
                     PROVE  poolQ'[i].arg # poolQ'[j].arg
            OBVIOUS
        <3>1. i + 1 # j + 1
            OBVIOUS
        <3> QED
            BY <2>1, <3>1, <1>7 DEF DistinctSources
    <2>5. \A i \in 1..Len(poolQ') : x.task.arg # poolQ'[i].arg
        <3> SUFFICES ASSUME NEW i \in 1..Len(poolQ')
                     PROVE  x.task.arg # poolQ'[i].arg
            OBVIOUS
        <3>1. i + 1 # 1
            OBVIOUS
        <3> QED
            BY <2>1, <2>2, <3>1, <1>7 DEF DistinctSources
    <2>6. \A i \in 1..Len(poolQ') : \A u \in Thread :
              job'[u].at = "run" => job'[u].task.arg # poolQ'[i].arg
        BY <2>1, <2>3, <2>5, <1>7 DEF DistinctSources
    <2>7. OneTaskPerSource'
        BY <2>2, <2>3, <1>7 DEF DistinctSources, OneTaskPerSource
    <2>8. pc' \in {"refill", "mark"} =>
              /\ \A i \in 1..Len(poolQ') : poolQ'[i].arg < iter'
              /\ \A u \in Thread : job'[u].at = "run" => job'[u].task.arg < iter'
        BY <1>1, <2>1, <2>2, <2>3, <1>7 DEF DistinctSources
    <2> QED
        BY <2>4, <2>6, <2>7, <2>8 DEF DistinctSources
<1> QED
    BY <1>4, <1>5, <1>6, <1>7

\* A pool thread posts its completion.
LEMMA ThreadEnqueInBatch ==
    ASSUME CtlTypeOK, NEW t \in Thread, ThreadEnque(t),
           NEW pf, NEW df, df # "none", BatchOf(pf, df),
           df \in EnvFn
    PROVE  /\ CtlTypeOK'
           /\ Outstanding' = Outstanding
           /\ BatchOf(pf, df)'
           /\ DistinctSources => DistinctSources'
<1>1. /\ job[t].at = "post"
      /\ envQ' = Append(envQ, job[t].task)
      /\ job' = [job EXCEPT ![t] = Idle]
      /\ UNCHANGED <<pc, iter, pend, tokens, poolQ, app>>
    BY DEF ThreadEnque
<1>2. /\ job \in [Thread -> Job]
      /\ envQ \in Seq(EnvTask) /\ Len(envQ) \in Nat /\ Len(poolQ) \in Nat
    BY DEF CtlTypeOK
<1>3. job[t] # Idle /\ job[t].task.fn = df
    BY <1>1 DEF BatchOf, Idle
<1>4. job[t].task \in EnvTask
    <2>1. job[t].task \in {NoTask} \cup PoolTask \cup EnvTask
        BY <1>2 DEF Job
    <2>2. job[t].task # NoTask
        BY <1>3 DEF NoTask
    <2>3. job[t].task \notin PoolTask
        BY <1>3 DEF PoolTask, PoolFn, EnvFn
    <2> QED
        BY <2>1, <2>2, <2>3
<1>5. /\ envQ' \in Seq(EnvTask)
      /\ Len(envQ') = Len(envQ) + 1
      /\ envQ'[Len(envQ) + 1] = job[t].task
      /\ \A i \in 1..Len(envQ) : envQ'[i] = envQ[i]
    BY <1>1, <1>2, <1>4
<1>6. \A u \in Thread : job'[u] = IF u = t THEN Idle ELSE job[u]
    BY <1>1, <1>2
<1>7. Idle \in Job /\ Idle.at # "run"
    BY DEF Idle, Job
<1>8. CtlTypeOK'
    BY <1>1, <1>5, <1>7 DEF CtlTypeOK
<1>9. Outstanding' = Outstanding
    <2>1. Cardinality(Busy') = Cardinality(Busy) - 1
        BY <1>1, <1>2, <1>3, BusyShrinks
    <2>2. Len(envQ') = Len(envQ) + 1 /\ Len(poolQ') = Len(poolQ)
        BY <1>1, <1>5
    <2> QED
        BY <2>1, <2>2, <1>2, BusyIsFinite DEF Outstanding
<1>10. BatchOf(pf, df)'
    <2>1. \A i \in 1..Len(envQ') : i \in 1..Len(envQ) \/ i = Len(envQ) + 1
        BY <1>2, <1>5
    <2>2. \A i \in 1..Len(envQ') : envQ'[i].fn = df
        BY <2>1, <1>3, <1>5 DEF BatchOf
    <2> QED
        BY <1>1, <1>6, <2>2 DEF BatchOf
<1>11. ASSUME DistinctSources
       PROVE  DistinctSources'
    BY <1>1, <1>6, <1>7, <1>11 DEF DistinctSources, OneTaskPerSource
<1> QED
    BY <1>8, <1>9, <1>10, <1>11

\* A running task ends: it is about to report, or it gave up, or the process is
\* gone.  Whatever it did to its source, this is all the batch sees of it.
TaskEnds(t, pf, df) ==
    /\ job[t].at = "run" /\ job[t].task.fn = pf
    /\ \/ job' = [job EXCEPT ![t] = [at |-> "post", task |-> Task(df, job[t].task.arg)]]
       \/ job' = [job EXCEPT ![t] = Idle]
       \/ job' = job
    /\ app' \in {app, [app EXCEPT !.exitCode = -1]}
    /\ pc' \in {pc, "abort"}
    /\ UNCHANGED <<iter, pend, envQ, tokens, poolQ>>

\* A refill ends by reporting, or by giving up.
LEMMA RefillTaskEnds ==
    ASSUME NEW t \in Thread, RefillBufferForSourceByArg(t)
    PROVE  TaskEnds(t, "refillBufferForSourceByArg", "onOneRefillDone")
BY DEF RefillBufferForSourceByArg, Runs, TaskEnds, Report, Abandon, AssertThat

\* A scan ends by reporting.
LEMMA MarkTaskEnds ==
    ASSUME NEW t \in Thread, MarkLogEntryForSourceByArg(t)
    PROVE  TaskEnds(t, "markLogEntryForSourceByArg", "markLogEntryForSourceDone")
BY DEF MarkLogEntryForSourceByArg, Runs, TaskEnds, Report, loopVars

\* A task that ends keeps a batch a batch.
LEMMA TaskEndsInBatch ==
    ASSUME CtlTypeOK, NEW t \in Thread, NEW pf \in PoolFn, NEW df \in EnvFn,
           TaskEnds(t, pf, df), BatchOf(pf, df)
    PROVE  /\ CtlTypeOK'
           /\ Outstanding \in Int /\ Outstanding' \in Int
           /\ Outstanding' <= Outstanding
           /\ BatchOf(pf, df)'
           /\ DistinctSources => DistinctSources'
           /\ app'.numRefillsRunning = app.numRefillsRunning
           /\ app'.numLogMarksRunning = app.numLogMarksRunning
<1> DEFINE y == [at |-> "post", task |-> Task(df, job[t].task.arg)]
<1>1. /\ job \in [Thread -> Job] /\ app \in AppState
      /\ Len(envQ) \in Nat /\ Len(poolQ) \in Nat
    BY DEF CtlTypeOK
<1>2. job[t].task \in PoolTask
    <2>1. job[t].task \in {NoTask} \cup PoolTask \cup EnvTask
        BY <1>1 DEF Job
    <2>2. job[t].task # NoTask /\ job[t].task \notin EnvTask
        BY DEF TaskEnds, NoTask, EnvTask, PoolFn, EnvFn
    <2> QED
        BY <2>1, <2>2
<1>3. y \in Job /\ y.at = "post" /\ y.task.fn = df /\ y # Idle
    <2>1. job[t].task.arg \in 0..NumSources
        BY <1>2, LogMergeAssumption DEF PoolTask, Source
    <2>2. Task(df, job[t].task.arg) \in EnvTask
        BY <2>1 DEF Task, EnvTask
    <2> QED
        BY <2>2 DEF Job, Idle, Task
<1>4. Idle \in Job /\ Idle.at = "idle" /\ job[t] # Idle
    BY DEF Idle, Job, TaskEnds
<1> HIDE DEF y
<1>5. \/ job' = [job EXCEPT ![t] = y]
      \/ job' = [job EXCEPT ![t] = Idle]
      \/ job' = job
    BY DEF TaskEnds, y
<1>6. /\ app' \in AppState
      /\ app'.numRefillsRunning = app.numRefillsRunning
      /\ app'.numLogMarksRunning = app.numLogMarksRunning
    BY <1>1 DEF TaskEnds, AppState
<1>7. CtlTypeOK'
    <2>1. job' \in [Thread -> Job]
        BY <1>1, <1>3, <1>4, <1>5
    <2> QED
        BY <2>1, <1>6 DEF CtlTypeOK, TaskEnds
<1>8. Outstanding \in Int /\ Outstanding' \in Int /\ Outstanding' <= Outstanding
    <2>1. Cardinality(Busy') \in {Cardinality(Busy), Cardinality(Busy) - 1}
        <3>1. CASE job' = [job EXCEPT ![t] = y]
            BY <3>1, <1>1, <1>3, <1>4, BusyStays
        <3>2. CASE job' = [job EXCEPT ![t] = Idle]
            BY <3>2, <1>1, <1>4, BusyShrinks
        <3>3. CASE job' = job
            BY <3>3 DEF Busy
        <3> QED
            BY <1>5, <3>1, <3>2, <3>3
    <2> QED
        BY <2>1, <1>1, BusyIsFinite DEF Outstanding, TaskEnds
<1>9. \A u \in Thread : job'[u] \in {job[u], y, Idle}
    BY <1>1, <1>5
<1>10. BatchOf(pf, df)'
    BY <1>3, <1>9 DEF BatchOf, TaskEnds
<1>11. ASSUME DistinctSources
       PROVE  DistinctSources'
    <2>1. \A u \in Thread : job'[u].at = "run" => job'[u] = job[u]
        BY <1>3, <1>4, <1>9
    <2> QED
        BY <2>1, <1>11 DEF DistinctSources, OneTaskPerSource, TaskEnds
<1> QED
    BY <1>6, <1>7, <1>8, <1>10, <1>11

\* Every step of a pool thread keeps the batches apart.
LEMMA PoolThreadStep ==
    ASSUME BatchInv, NEW t \in Thread, PoolThread(t)
    PROVE  BatchInv'
<1> DEFINE rf == "refillBufferForSourceByArg"
           rd == "onOneRefillDone"
           mf == "markLogEntryForSourceByArg"
           md == "markLogEntryForSourceDone"
<1>1. /\ CtlTypeOK /\ TokensCounted /\ DistinctSources
      /\ Refilling \/ Marking \/ Control
      /\ app \in AppState
      /\ Len(poolQ) \in Nat /\ Len(envQ) \in Nat /\ Cardinality(Busy) \in Nat
    BY BusyIsFinite DEF BatchInv, CtlTypeOK
<1>3. CASE TakeTask(t)
    <2>1. /\ CtlTypeOK' /\ DistinctSources' /\ Outstanding' = Outstanding
          /\ \A pf, df : BatchOf(pf, df) => BatchOf(pf, df)'
        BY <1>1, <1>3, TakeTaskInBatch
    <2>2. UNCHANGED <<pc, iter, app, tokens>> /\ poolQ # <<>>
        BY <1>3 DEF TakeTask, loopVars
    <2>3. ~Control
        BY <2>2 DEF Control, PoolQuiet
    <2>4. Refilling => Refilling'
        BY <2>1, <2>2 DEF Refilling, CountOf
    <2>5. Marking => Marking'
        BY <2>1, <2>2 DEF Marking, CountOf
    <2> QED
        BY <1>1, <2>1, <2>2, <2>3, <2>4, <2>5 DEF BatchInv, TokensCounted
<1>4. CASE ThreadEnque(t)
    <2>1. UNCHANGED <<pc, iter, app, tokens>> /\ job[t].at = "post"
        BY <1>4 DEF ThreadEnque
    <2>2. ~Control
        BY <2>1 DEF Control, PoolQuiet, Idle
    <2>3. ASSUME Refilling
          PROVE  CtlTypeOK' /\ DistinctSources' /\ Refilling'
        <3>1. /\ CtlTypeOK' /\ DistinctSources' /\ Outstanding' = Outstanding
              /\ BatchOf(rf, rd)'
            BY <1>1, <1>4, <2>3, ThreadEnqueInBatch DEF Refilling, EnvFn
        <3> QED
            BY <3>1, <2>1, <2>3 DEF Refilling, CountOf
    <2>4. ASSUME Marking
          PROVE  CtlTypeOK' /\ DistinctSources' /\ Marking'
        <3>1. /\ CtlTypeOK' /\ DistinctSources' /\ Outstanding' = Outstanding
              /\ BatchOf(mf, md)'
            BY <1>1, <1>4, <2>4, ThreadEnqueInBatch DEF Marking, EnvFn
        <3> QED
            BY <3>1, <2>1, <2>4 DEF Marking, CountOf
    <2> QED
        BY <1>1, <2>1, <2>2, <2>3, <2>4 DEF BatchInv, TokensCounted
<1>5. CASE RefillBufferForSourceByArg(t)
    <2>1. TaskEnds(t, rf, rd)
        BY <1>5, RefillTaskEnds
    <2>2. Refilling
        <3>1. job[t].at = "run" /\ job[t].task.fn = rf
            BY <2>1 DEF TaskEnds
        <3> QED
            BY <1>1, <3>1 DEF Marking, BatchOf, Control, PoolQuiet, Idle
    <2>3. /\ CtlTypeOK' /\ DistinctSources' /\ Outstanding' <= Outstanding
          /\ Outstanding \in Int /\ Outstanding' \in Int
          /\ BatchOf(rf, rd)'
          /\ app'.numRefillsRunning = app.numRefillsRunning
          /\ app'.numLogMarksRunning = app.numLogMarksRunning
        BY <1>1, <2>1, <2>2, TaskEndsInBatch DEF Refilling, PoolFn, EnvFn
    <2>4. pc' \in {pc, "abort"} /\ iter' = iter /\ tokens' = tokens
        BY <2>1 DEF TaskEnds
    <2>5. Outstanding' <= app.numRefillsRunning
        <3>1. app.numRefillsRunning \in Int
            BY <1>1 DEF AppState
        <3> QED
            BY <3>1, <2>2, <2>3 DEF Refilling, CountOf
    <2>6. Refilling'
        BY <2>2, <2>3, <2>4, <2>5 DEF Refilling, CountOf
    <2> QED
        BY <1>1, <2>3, <2>4, <2>6 DEF BatchInv, TokensCounted
<1>6. CASE MarkLogEntryForSourceByArg(t)
    <2>1. TaskEnds(t, mf, md)
        BY <1>6, MarkTaskEnds
    <2>2. Marking
        <3>1. job[t].at = "run" /\ job[t].task.fn = mf
            BY <2>1 DEF TaskEnds
        <3> QED
            BY <1>1, <3>1 DEF Refilling, BatchOf, Control, PoolQuiet, Idle
    <2>3. /\ CtlTypeOK' /\ DistinctSources' /\ Outstanding' <= Outstanding
          /\ Outstanding \in Int /\ Outstanding' \in Int
          /\ BatchOf(mf, md)'
          /\ app'.numRefillsRunning = app.numRefillsRunning
          /\ app'.numLogMarksRunning = app.numLogMarksRunning
        BY <1>1, <2>1, <2>2, TaskEndsInBatch DEF Marking, PoolFn, EnvFn
    <2>4. pc' \in {pc, "abort"} /\ iter' = iter /\ tokens' = tokens
        BY <2>1 DEF TaskEnds
    <2>5. Outstanding' <= app.numLogMarksRunning
        <3>1. app.numLogMarksRunning \in Int
            BY <1>1 DEF AppState
        <3> QED
            BY <3>1, <2>2, <2>3 DEF Marking, CountOf
    <2>6. Marking'
        BY <2>2, <2>3, <2>4, <2>5 DEF Marking, CountOf
    <2> QED
        BY <1>1, <2>3, <2>4, <2>6 DEF BatchInv, TokensCounted
<1> QED
    BY <1>3, <1>4, <1>5, <1>6 DEF PoolThread

-----------------------------------------------------------------------------
(* What the handlers of the event loop do.                                 *)

\* A sequence of length zero is empty.
LEMMA LenZero ==
    ASSUME NEW S, NEW q \in Seq(S), Len(q) = 0
    PROVE  q = <<>>
OBVIOUS

\* A handler of the chain is dispatched: it finds an empty queue and a quiet pool.
LEMMA DispatchControl ==
    ASSUME BatchInv, NEW f \in ControlFn, Dispatch(f)
    PROVE  /\ Control /\ pc = "idle" /\ envQ' = <<>>
<1>1. /\ pc = "idle" /\ envQ # <<>> /\ Head(envQ).fn = f /\ envQ' = Tail(envQ)
      /\ CtlTypeOK
      /\ Refilling \/ Marking \/ Control
    BY DEF Dispatch, BatchInv
<1>2. /\ Len(envQ) >= 1 /\ Len(envQ) \in Nat /\ envQ[1].fn = f
      /\ Len(Tail(envQ)) = Len(envQ) - 1 /\ Tail(envQ) \in Seq(EnvTask)
    BY <1>1, EnvQueueFacts
<1>3. f # "onOneRefillDone" /\ f # "markLogEntryForSourceDone"
    BY DEF ControlFn
<1>4. 1 \in 1..Len(envQ)
    BY <1>2
<1>5. Control
    BY <1>1, <1>2, <1>3, <1>4 DEF Refilling, Marking, BatchOf
<1>6. Len(envQ) = 1
    BY <1>1, <1>5 DEF Control
<1>7. Len(Tail(envQ)) = 0
    BY <1>2, <1>6
<1>8. Tail(envQ) = <<>>
    BY <1>2, <1>7, LenZero
<1> QED
    BY <1>1, <1>5, <1>8

\* The chain goes on, starts a batch or ends; the pool is not involved yet.
LEMMA AfterControl ==
    ASSUME Control, CtlTypeOK, TokensCounted, app' \in AppState,
           UNCHANGED <<tokens, poolQ, job>>, envQ' = <<>>,
           app'.numRefillsRunning = app.numRefillsRunning,
           app'.numLogMarksRunning = app.numLogMarksRunning,
           \/ /\ pc' \in {"idle", "find", "abort"} /\ pend' = pend
              /\ iter' \in 1..(NumSources + 1)
           \/ /\ pc' = "enq" /\ pend' \in EnvTask /\ pend'.fn \in ControlFn
              /\ iter' = iter
           \/ /\ NumSources # 0 /\ pc' \in {"refill", "mark"}
              /\ iter' = 1 /\ pend' = pend
    PROVE  BatchInv'
<1>1. PoolQuiet /\ PoolQuiet'
    BY DEF Control, PoolQuiet
<1>2. Outstanding' = 0
    <2>1. Busy' = {}
        BY <1>1 DEF PoolQuiet, Busy
    <2> QED
        BY <2>1, <1>1, FS_EmptySet DEF PoolQuiet, Outstanding
<1>3. CtlTypeOK'
    <2>1. 1 \in 1..(NumSources + 1)
        BY LogMergeAssumption
    <2>2. <<>> \in Seq(EnvTask)
        OBVIOUS
    <2> QED
        BY <2>1, <2>2 DEF CtlTypeOK
<1>4. TokensCounted'
    BY DEF TokensCounted
<1>5. DistinctSources'
    BY <1>1 DEF DistinctSources, OneTaskPerSource, PoolQuiet, Idle
<1>6. /\ app'.numRefillsRunning = 0 /\ app'.numLogMarksRunning = 0
    BY DEF Control
<1>7. CASE pc' \in {"idle", "find", "abort", "enq"}
    <2>1. Control'
        BY <1>1, <1>6, <1>7 DEF Control
    <2> QED
        BY <1>3, <1>4, <1>5, <2>1 DEF BatchInv
<1>8. CASE pc' \in {"refill", "mark"}
    <2>1. \A pf, df : BatchOf(pf, df)'
        BY <1>1 DEF BatchOf, PoolQuiet
    <2>2. iter' = 1 /\ 1 \in Source
        BY <1>8, LogMergeAssumption DEF Source
    <2>3. CASE pc' = "refill"
        BY <1>3, <1>4, <1>5, <1>6, <1>2, <2>1, <2>2, <2>3 DEF BatchInv, Refilling, CountOf
    <2>4. CASE pc' = "mark"
        BY <1>3, <1>4, <1>5, <1>6, <1>2, <2>1, <2>2, <2>4 DEF BatchInv, Marking, CountOf
    <2> QED
        BY <1>8, <2>3, <2>4
<1> QED
    BY <1>7, <1>8

\* The handlers that no completion is about.
LEMMA ControlStep ==
    ASSUME BatchInv,
           \/ InitStuff \/ OpenSrcFiles \/ RefillSrcBuffers
           \/ MarkLogEntriesForeachSource \/ FindOldestLogEntryFromAllHeads
           \/ WriteLowestEntryToDst
    PROVE  BatchInv'
<1>1. CtlTypeOK /\ TokensCounted /\ app \in AppState /\ iter \in 1..(NumSources + 1)
    BY DEF BatchInv, CtlTypeOK
<1>2. \A f \in ControlFn : Task(f, 0) \in EnvTask /\ Task(f, 0).fn = f
    BY LogMergeAssumption DEF Task, EnvTask, ControlFn
<1>3. CASE InitStuff
    <2>1. Control /\ envQ' = <<>>
        BY <1>3, DispatchControl DEF InitStuff, ControlFn, EnvFn
    <2>2. /\ app' \in AppState
          /\ app'.numRefillsRunning = app.numRefillsRunning
          /\ app'.numLogMarksRunning = app.numLogMarksRunning
          /\ UNCHANGED <<tokens, poolQ, job>>
        <3>1. app' \in {[app EXCEPT !.thrdPool = TRUE], [app EXCEPT !.thrdPool = FALSE],
                        [app EXCEPT !.exitCode = -1]}
            BY <1>3, LogMergeAssumption DEF InitStuff
        <3>2. UNCHANGED <<tokens, poolQ, job>>
            BY <1>3 DEF InitStuff, poolVars
        <3> QED
            BY <1>1, <3>1, <3>2 DEF AppState
    <2>3. \/ pc' = "enq" /\ pend' = Task("openSrcFiles", 0) /\ iter' = iter
          \/ pc' = "idle" /\ pend' = pend /\ iter' = iter
        BY <1>3 DEF InitStuff, Post, Return
    <2> QED
        BY <1>1, <1>2, <2>1, <2>2, <2>3, AfterControl DEF ControlFn, EnvFn
<1>4. CASE OpenSrcFiles
    <2>1. Control /\ envQ' = <<>>
        BY <1>4, DispatchControl DEF OpenSrcFiles, ControlFn, EnvFn
    <2>2. /\ app' \in AppState
          /\ app'.numRefillsRunning = app.numRefillsRunning
          /\ app'.numLogMarksRunning = app.numLogMarksRunning
          /\ UNCHANGED <<tokens, poolQ, job>>
        BY <1>1, <1>4 DEF OpenSrcFiles, AppState, poolVars
    <2>3. \/ NumSources # 0 /\ pc' = "refill" /\ pend' = pend /\ iter' = 1
          \/ pc' = "idle" /\ pend' = pend /\ iter' = iter
        BY <1>4 DEF OpenSrcFiles, CallRefillSrcBuffers, StartLoop, Return
    <2> QED
        BY <1>1, <2>1, <2>2, <2>3, AfterControl
<1>5. CASE RefillSrcBuffers
    <2>1. Control /\ envQ' = <<>>
        BY <1>5, DispatchControl DEF RefillSrcBuffers, ControlFn, EnvFn
    <2>2. UNCHANGED <<app, tokens, poolQ, job>>
        BY <1>5 DEF RefillSrcBuffers, poolVars
    <2>3. \/ NumSources # 0 /\ pc' = "refill" /\ pend' = pend /\ iter' = 1
          \/ pc' = "idle" /\ pend' = pend /\ iter' = iter
        BY <1>5 DEF RefillSrcBuffers, CallRefillSrcBuffers, StartLoop, Return
    <2> QED
        BY <1>1, <2>1, <2>2, <2>3, AfterControl
<1>6. CASE MarkLogEntriesForeachSource
    <2>1. Control /\ envQ' = <<>>
        BY <1>6, DispatchControl DEF MarkLogEntriesForeachSource, ControlFn, EnvFn
    <2>2. UNCHANGED <<app, tokens, poolQ, job>>
        BY <1>6 DEF MarkLogEntriesForeachSource, poolVars
    <2>3. \/ NumSources # 0 /\ pc' = "mark" /\ pend' = pend /\ iter' = 1
          \/ pc' = "abort" /\ pend' = pend /\ iter' = iter
        BY <1>6 DEF MarkLogEntriesForeachSource, StartLoop, AssertThat
    <2> QED
        BY <1>1, <2>1, <2>2, <2>3, AfterControl
<1>7. CASE FindOldestLogEntryFromAllHeads
    <2> DEFINE open == {s \in Source : ~src[s].noMore}
    <2>1. Control /\ envQ' = <<>>
        BY <1>7, DispatchControl DEF FindOldestLogEntryFromAllHeads, ControlFn, EnvFn
    <2>2. open # {} => First(open) \in Source
        <3>1. open \in SUBSET Nat /\ open \subseteq Source
            BY DEF Source
        <3> HIDE DEF open
        <3> QED
            BY <3>1, FirstIsLeast
    <2>3. \/ app' = [app EXCEPT !.exitCode = 0]
          \/ open # {} /\ app' = [app EXCEPT !.lowest = First(open)]
        BY <1>7 DEF FindOldestLogEntryFromAllHeads
    <2>4. \/ pc' = "idle" /\ pend' = pend /\ iter' = iter
          \/ open # {} /\ pc' = "find" /\ pend' = pend /\ iter' = 2
        BY <1>7 DEF FindOldestLogEntryFromAllHeads, Return
    <2>5. open # {} => 2 \in 1..(NumSources + 1)
        BY LogMergeAssumption DEF Source
    <2> HIDE DEF open
    <2>6. /\ app' \in AppState
          /\ app'.numRefillsRunning = app.numRefillsRunning
          /\ app'.numLogMarksRunning = app.numLogMarksRunning
        <3>1. Source \subseteq 0..NumSources
            BY LogMergeAssumption DEF Source
        <3> QED
            BY <1>1, <2>2, <2>3, <3>1 DEF AppState
    <2>7. UNCHANGED <<tokens, poolQ, job>>
        BY <1>7 DEF FindOldestLogEntryFromAllHeads, poolVars
    <2> QED
        BY <1>1, <2>1, <2>4, <2>5, <2>6, <2>7, AfterControl
<1>8. CASE WriteLowestEntryToDst
    <2>1. Control /\ envQ' = <<>>
        BY <1>8, DispatchControl DEF WriteLowestEntryToDst, ControlFn, EnvFn
    <2>2. /\ app' \in AppState
          /\ app'.numRefillsRunning = app.numRefillsRunning
          /\ app'.numLogMarksRunning = app.numLogMarksRunning
          /\ UNCHANGED <<tokens, poolQ, job>>
        <3>1. app' \in {app, [app EXCEPT !.exitCode = -1]} /\ UNCHANGED <<tokens, poolQ, job>>
            BY <1>8 DEF WriteLowestEntryToDst, GiveUp, poolVars
        <3> QED
            BY <1>1, <3>1 DEF AppState
    <2>3. \/ NumSources # 0 /\ pc' = "refill" /\ pend' = pend /\ iter' = 1
          \/ pc' \in {"idle", "abort"} /\ pend' = pend /\ iter' = iter
        BY <1>8 DEF WriteLowestEntryToDst, CallRefillSrcBuffers, StartLoop, Return, GiveUp, AssertThat
    <2> QED
        BY <1>1, <2>1, <2>2, <2>3, AfterControl
<1> QED
    BY <1>3, <1>4, <1>5, <1>6, <1>7, <1>8

\* A completion is handled: one task less is outstanding, and the rest of the
\* batch stays what it is.
LEMMA CompletionHandled ==
    ASSUME CtlTypeOK, DistinctSources, NEW pf, NEW df, BatchOf(pf, df), Dispatch(df),
           pc' \in {"idle", "enq"}, UNCHANGED <<poolQ, job>>
    PROVE  /\ BatchOf(pf, df)' /\ DistinctSources' /\ envQ' \in Seq(EnvTask)
           /\ Outstanding \in Int /\ Outstanding >= 1
           /\ Outstanding' = Outstanding - 1
<1>1. pc = "idle" /\ envQ # <<>> /\ envQ' = Tail(envQ)
    BY DEF Dispatch
<1>2. /\ Len(envQ) \in Nat /\ Len(envQ) >= 1 /\ envQ' \in Seq(EnvTask)
      /\ Len(envQ') = Len(envQ) - 1
      /\ \A i \in 1..Len(envQ') : envQ'[i] = envQ[i + 1]
    BY <1>1, EnvQueueFacts
<1>3. Cardinality(Busy') = Cardinality(Busy) /\ Cardinality(Busy) \in Nat
    BY BusyIsFinite DEF Busy
<1>4. Len(poolQ) \in Nat /\ Len(poolQ') = Len(poolQ)
    BY DEF CtlTypeOK
<1>5. Outstanding \in Int /\ Outstanding >= 1 /\ Outstanding' = Outstanding - 1
    BY <1>2, <1>3, <1>4 DEF Outstanding
<1>6. BatchOf(pf, df)'
    <2>1. \A i \in 1..Len(envQ') : i + 1 \in 1..Len(envQ)
        BY <1>2
    <2>2. \A i \in 1..Len(envQ') : envQ'[i].fn = df
        BY <1>2, <2>1 DEF BatchOf
    <2> QED
        BY <2>2 DEF BatchOf
<1>7. DistinctSources'
    BY DEF DistinctSources, OneTaskPerSource
<1> QED
    BY <1>2, <1>5, <1>6, <1>7

\* If a completion is the only thing outstanding, nothing is left behind it.
LEMMA LastCompletion ==
    ASSUME CtlTypeOK, envQ # <<>>, Outstanding <= 1
    PROVE  PoolQuiet /\ Tail(envQ) = <<>>
<1>1. /\ Len(poolQ) \in Nat /\ Len(envQ) \in Nat /\ Cardinality(Busy) \in Nat
      /\ Len(envQ) >= 1
      /\ Tail(envQ) \in Seq(EnvTask) /\ Len(Tail(envQ)) = Len(envQ) - 1
    BY BusyIsFinite, EnvQueueFacts DEF CtlTypeOK
<1>2. Len(poolQ) = 0 /\ Cardinality(Busy) = 0 /\ Len(Tail(envQ)) = 0
    BY <1>1 DEF Outstanding
<1>3. poolQ = <<>> /\ Tail(envQ) = <<>>
    BY <1>1, <1>2, LenZero DEF CtlTypeOK
<1>4. Busy = {}
    BY <1>2, BusyIsFinite, FS_EmptySet
<1> QED
    BY <1>3, <1>4 DEF PoolQuiet, Busy

\* The handler of a finished refill keeps the invariant; the last one ends the batch.
LEMMA OnOneRefillDoneStep ==
    ASSUME BatchInv, OnOneRefillDone
    PROVE  BatchInv'
<1> DEFINE rf == "refillBufferForSourceByArg"
           rd == "onOneRefillDone"
<1>1. /\ CtlTypeOK /\ TokensCounted /\ DistinctSources
      /\ Refilling \/ Marking \/ Control
      /\ app \in AppState /\ tokens \in Int
    BY DEF BatchInv, CtlTypeOK
<1>2. /\ Dispatch(rd) /\ pc = "idle" /\ envQ # <<>> /\ Head(envQ).fn = rd
      /\ app' = [app EXCEPT !.numRefillsRunning = @ - 1]
      /\ tokens' = tokens - 1
      /\ UNCHANGED <<poolQ, job>>
    BY DEF OnOneRefillDone, Dispatch, DelAwaitToken, poolVars
<1>3. Refilling
    <2>1. 1 \in 1..Len(envQ) /\ envQ[1].fn = rd
        BY <1>1, <1>2, EnvQueueFacts
    <2> QED
        BY <1>1, <2>1 DEF Marking, Control, BatchOf, ControlFn
<1>4. /\ \/ pc' = "idle" /\ pend' = pend
         \/ /\ pc' = "enq" /\ pend' = Task("markLogEntriesForeachSource", 0)
            /\ ~(app.numRefillsRunning - 1 > 0)
      /\ iter' = iter
    BY DEF OnOneRefillDone, ReturnsEarly, OthersRunning, Return, Post
<1>5. /\ BatchOf(rf, rd)' /\ DistinctSources' /\ envQ' \in Seq(EnvTask)
      /\ Outstanding \in Int /\ Outstanding >= 1 /\ Outstanding' = Outstanding - 1
    BY <1>1, <1>2, <1>3, <1>4, CompletionHandled DEF Refilling
<1>6. /\ app' \in AppState
      /\ app'.numRefillsRunning = app.numRefillsRunning - 1
      /\ app'.numLogMarksRunning = app.numLogMarksRunning
      /\ app.numRefillsRunning \in Int
      /\ app.numLogMarksRunning = 0
    BY <1>1, <1>2, <1>3 DEF AppState, Refilling
<1>7. CtlTypeOK'
    <2>1. Task("markLogEntriesForeachSource", 0) \in EnvTask
        BY LogMergeAssumption DEF Task, EnvTask, EnvFn
    <2> QED
        BY <1>1, <1>2, <1>4, <1>5, <1>6, <2>1 DEF CtlTypeOK
<1>8. TokensCounted'
    BY <1>1, <1>2, <1>6 DEF TokensCounted
<1>9. Outstanding' <= app'.numRefillsRunning
    BY <1>3, <1>5, <1>6 DEF Refilling, CountOf
<1>10. CASE pc' = "idle"
    <2>1. Refilling'
        BY <1>5, <1>6, <1>9, <1>10 DEF Refilling, CountOf
    <2> QED
        BY <1>5, <1>7, <1>8, <2>1 DEF BatchInv
<1>11. CASE pc' = "enq"
    <2>1. app'.numRefillsRunning <= 0 /\ Outstanding' <= 0 /\ app'.numRefillsRunning >= 0
        BY <1>4, <1>5, <1>6, <1>9, <1>11
    <2>2. PoolQuiet' /\ envQ' = <<>>
        <3>1. Outstanding <= 1
            BY <2>1, <1>5
        <3>2. PoolQuiet /\ Tail(envQ) = <<>>
            BY <1>1, <1>2, <3>1, LastCompletion
        <3> QED
            BY <1>2, <3>2 DEF PoolQuiet, Dispatch
    <2>3. pend' \in EnvTask /\ pend'.fn \in ControlFn
        BY <1>4, <1>11, LogMergeAssumption DEF Task, EnvTask, EnvFn, ControlFn
    <2>4. Control'
        BY <1>6, <1>11, <2>1, <2>2, <2>3 DEF Control
    <2> QED
        BY <1>5, <1>7, <1>8, <2>4 DEF BatchInv
<1> QED
    BY <1>4, <1>10, <1>11

\* The handler of a finished scan keeps the invariant; the last one ends the batch.
LEMMA MarkLogEntryForSourceDoneStep ==
    ASSUME BatchInv, MarkLogEntryForSourceDone
    PROVE  BatchInv'
<1> DEFINE mf == "markLogEntryForSourceByArg"
           md == "markLogEntryForSourceDone"
           next == {Task("refillSrcBuffers", 0), Task("findOldestLogEntryFromAllHeads", 0)}
<1>1. /\ CtlTypeOK /\ TokensCounted /\ DistinctSources
      /\ Refilling \/ Marking \/ Control
      /\ app \in AppState /\ tokens \in Int
    BY DEF BatchInv, CtlTypeOK
<1>2. /\ Dispatch(md) /\ pc = "idle" /\ envQ # <<>> /\ Head(envQ).fn = md
      /\ \E b \in BOOLEAN : app' = [app EXCEPT !.numLogMarksRunning = @ - 1,
                                               !.needMore = b]
      /\ tokens' = tokens - 1
      /\ UNCHANGED <<poolQ, job>>
    BY DEF MarkLogEntryForSourceDone, NeedMoreHandled, Dispatch, DelAwaitToken, poolVars
<1>3. Marking
    <2>1. 1 \in 1..Len(envQ) /\ envQ[1].fn = md
        BY <1>1, <1>2, EnvQueueFacts
    <2> QED
        BY <1>1, <2>1 DEF Refilling, Control, BatchOf, ControlFn
<1>4. /\ \/ pc' = "idle" /\ pend' = pend
         \/ /\ pc' = "enq" /\ pend' \in next
            /\ ~(app.numLogMarksRunning - 1 > 0)
      /\ iter' = iter
    BY DEF MarkLogEntryForSourceDone, ReturnsEarly, OthersRunning, Return, Post
<1>5. /\ BatchOf(mf, md)' /\ DistinctSources' /\ envQ' \in Seq(EnvTask)
      /\ Outstanding \in Int /\ Outstanding >= 1 /\ Outstanding' = Outstanding - 1
    BY <1>1, <1>2, <1>3, <1>4, CompletionHandled DEF Marking
<1>6. /\ app' \in AppState
      /\ app'.numLogMarksRunning = app.numLogMarksRunning - 1
      /\ app'.numRefillsRunning = app.numRefillsRunning
      /\ app.numLogMarksRunning \in Int
      /\ app.numRefillsRunning = 0
    <2>1. PICK b \in BOOLEAN : app' = [app EXCEPT !.numLogMarksRunning = @ - 1, !.needMore = b]
        BY <1>2
    <2>2. app.numLogMarksRunning \in Int /\ app.numRefillsRunning = 0
        BY <1>1, <1>3 DEF AppState, Marking
    <2>3. app.numLogMarksRunning - 1 \in Int
        BY <2>2
    <2> QED
        BY <1>1, <2>1, <2>2, <2>3 DEF AppState
<1>7. CtlTypeOK'
    <2>1. next \subseteq EnvTask
        BY LogMergeAssumption DEF Task, EnvTask, EnvFn
    <2> QED
        BY <1>1, <1>2, <1>4, <1>5, <1>6, <2>1 DEF CtlTypeOK
<1>8. TokensCounted'
    BY <1>1, <1>2, <1>6 DEF TokensCounted
<1>9. Outstanding' <= app'.numLogMarksRunning
    BY <1>3, <1>5, <1>6 DEF Marking, CountOf
<1>10. CASE pc' = "idle"
    <2>1. Marking'
        BY <1>5, <1>6, <1>9, <1>10 DEF Marking, CountOf
    <2> QED
        BY <1>5, <1>7, <1>8, <2>1 DEF BatchInv
<1>11. CASE pc' = "enq"
    <2>1. app'.numLogMarksRunning <= 0 /\ Outstanding' <= 0 /\ app'.numLogMarksRunning >= 0
        BY <1>4, <1>5, <1>6, <1>9, <1>11
    <2>2. PoolQuiet' /\ envQ' = <<>>
        <3>1. Outstanding <= 1
            BY <2>1, <1>5
        <3>2. PoolQuiet /\ Tail(envQ) = <<>>
            BY <1>1, <1>2, <3>1, LastCompletion
        <3> QED
            BY <1>2, <3>2 DEF PoolQuiet, Dispatch
    <2>3. pend' \in EnvTask /\ pend'.fn \in ControlFn
        BY <1>4, <1>11, LogMergeAssumption DEF Task, EnvTask, EnvFn, ControlFn
    <2>4. Control'
        BY <1>6, <1>11, <2>1, <2>2, <2>3 DEF Control
    <2> QED
        BY <1>5, <1>7, <1>8, <2>4 DEF BatchInv
<1> QED
    BY <1>4, <1>10, <1>11

\* One turn of a loop that fills the pool.
LEMMA TurnInBatch ==
    ASSUME CtlTypeOK, DistinctSources, pc \in {"refill", "mark"}, iter \in Source,
           NEW pf \in PoolFn, NEW df, BatchOf(pf, df),
           poolQ' = Append(poolQ, Task(pf, iter)), iter' = iter + 1,
           pc' \in {"idle", pc}, UNCHANGED <<envQ, job>>
    PROVE  /\ BatchOf(pf, df)' /\ DistinctSources' /\ poolQ' \in Seq(PoolTask)
           /\ Outstanding \in Int /\ Outstanding' = Outstanding + 1
<1>1. /\ poolQ \in Seq(PoolTask) /\ Len(poolQ) \in Nat /\ Len(envQ) \in Nat
      /\ iter \in Nat
    BY LogMergeAssumption DEF CtlTypeOK, Source
<1>2. Task(pf, iter) \in PoolTask /\ Task(pf, iter).fn = pf /\ Task(pf, iter).arg = iter
    BY DEF Task, PoolTask
<1>3. /\ poolQ' \in Seq(PoolTask)
      /\ Len(poolQ') = Len(poolQ) + 1
      /\ poolQ'[Len(poolQ) + 1] = Task(pf, iter)
      /\ \A i \in 1..Len(poolQ) : poolQ'[i] = poolQ[i]
    BY <1>1, <1>2
<1>4. \A i \in 1..Len(poolQ') : i \in 1..Len(poolQ) \/ i = Len(poolQ) + 1
    BY <1>1, <1>3
<1>5. Outstanding \in Int /\ Outstanding' = Outstanding + 1
    <2>1. Cardinality(Busy') = Cardinality(Busy) /\ Cardinality(Busy) \in Nat
        BY BusyIsFinite DEF Busy
    <2>2. Len(poolQ') = Len(poolQ) + 1 /\ Len(envQ') = Len(envQ)
        BY <1>3
    <2>3. Outstanding = Len(poolQ) + Cardinality(Busy) + Len(envQ)
        BY DEF Outstanding
    <2>4. Outstanding' = Len(poolQ') + Cardinality(Busy') + Len(envQ')
        BY DEF Outstanding
    <2>5. Outstanding' = (Len(poolQ) + 1) + Cardinality(Busy) + Len(envQ)
        BY <2>1, <2>2, <2>4
    <2> QED
        BY <1>1, <2>1, <2>3, <2>5
<1>6. BatchOf(pf, df)'
    <2>1. \A i \in 1..Len(poolQ') : poolQ'[i].fn = pf
        BY <1>2, <1>3, <1>4 DEF BatchOf
    <2> QED
        BY <2>1 DEF BatchOf
\* Everything enqueued so far is about a source before this one.
<1>7. /\ \A i \in 1..Len(poolQ) : poolQ[i].arg < iter /\ poolQ[i].arg \in Nat
      /\ \A t \in Thread : job[t].at = "run" => job[t].task.arg < iter
    <2>1. \A i \in 1..Len(poolQ) : poolQ[i] \in PoolTask
        BY <1>1
    <2>2. \A i \in 1..Len(poolQ) : poolQ[i].arg \in Nat
        BY <2>1 DEF PoolTask, Source
    <2> QED
        BY <2>2 DEF DistinctSources
<1>8. DistinctSources'
    <2>1. \A i, j \in 1..Len(poolQ') : i # j => poolQ'[i].arg # poolQ'[j].arg
        <3> SUFFICES ASSUME NEW i \in 1..Len(poolQ'), NEW j \in 1..Len(poolQ'), i # j
                     PROVE  poolQ'[i].arg # poolQ'[j].arg
            OBVIOUS
        <3>1. CASE i \in 1..Len(poolQ) /\ j \in 1..Len(poolQ)
            BY <3>1, <1>3 DEF DistinctSources
        <3>2. CASE i \in 1..Len(poolQ) /\ j = Len(poolQ) + 1
            BY <3>2, <1>1, <1>2, <1>3, <1>7
        <3>3. CASE i = Len(poolQ) + 1 /\ j \in 1..Len(poolQ)
            BY <3>3, <1>1, <1>2, <1>3, <1>7
        <3> QED
            BY <1>4, <3>1, <3>2, <3>3
    <2>2. \A i \in 1..Len(poolQ') : \A t \in Thread :
              job'[t].at = "run" => job'[t].task.arg # poolQ'[i].arg
        <3> SUFFICES ASSUME NEW i \in 1..Len(poolQ'), NEW t \in Thread, job[t].at = "run"
                     PROVE  job[t].task.arg # poolQ'[i].arg
            OBVIOUS
        <3>1. CASE i \in 1..Len(poolQ)
            BY <3>1, <1>3 DEF DistinctSources
        <3>2. CASE i = Len(poolQ) + 1
            <4>1. job[t].task.arg < iter /\ poolQ'[i].arg = iter
                BY <3>2, <1>2, <1>3, <1>7
            <4>2. job[t].task.arg # iter
                BY <4>1, <1>1
            <4> QED
                BY <4>1, <4>2
        <3> QED
            BY <1>4, <3>1, <3>2
    <2>3. OneTaskPerSource'
        BY DEF DistinctSources, OneTaskPerSource
    <2>4. \A i \in 1..Len(poolQ') : poolQ'[i].arg < iter'
        <3> SUFFICES ASSUME NEW i \in 1..Len(poolQ')
                     PROVE  poolQ'[i].arg < iter + 1
            OBVIOUS
        <3>1. CASE i \in 1..Len(poolQ)
            BY <3>1, <1>1, <1>3, <1>7
        <3>2. CASE i = Len(poolQ) + 1
            BY <3>2, <1>1, <1>2, <1>3
        <3> QED
            BY <1>4, <3>1, <3>2
    <2>5. \A t \in Thread : job'[t].at = "run" => job'[t].task.arg < iter'
        <3> SUFFICES ASSUME NEW t \in Thread, job[t].at = "run"
                     PROVE  job[t].task.arg < iter + 1
            OBVIOUS
        <3>1. job[t].task.arg \in Int
            <4>1. job[t].task \in {NoTask} \cup PoolTask \cup EnvTask
                BY DEF CtlTypeOK, Job
            <4> QED
                BY <4>1 DEF NoTask, PoolTask, EnvTask, Source
        <3> QED
            BY <3>1, <1>1, <1>7
    <2> QED
        BY <2>1, <2>2, <2>3, <2>4, <2>5 DEF DistinctSources
<1> QED
    BY <1>3, <1>5, <1>6, <1>8

\* A turn of refillSrcBuffers() keeps the invariant.
LEMMA RefillTurnStep ==
    ASSUME BatchInv, RefillSrcBuffersTurn
    PROVE  BatchInv'
<1> DEFINE pf == "refillBufferForSourceByArg"
           df == "onOneRefillDone"
<1>1. /\ CtlTypeOK /\ TokensCounted /\ DistinctSources
      /\ Refilling \/ Marking \/ Control
      /\ app \in AppState /\ tokens \in Int
    BY DEF BatchInv, CtlTypeOK
<1>2. /\ pc = "refill" /\ iter \in Source
      /\ poolQ' = Append(poolQ, Task(pf, iter))
      /\ app' = [app EXCEPT !.numRefillsRunning = @ + 1]
      /\ tokens' = tokens + 1
      /\ iter' = iter + 1
      /\ pc' = IF iter = NumSources THEN "idle" ELSE "refill"
      /\ UNCHANGED <<pend, envQ, job>>
    BY DEF RefillSrcBuffersTurn, PoolEnque
<1>3. Refilling
    BY <1>1, <1>2 DEF Marking, CountOf, Control
<1>4. /\ BatchOf(pf, df)' /\ DistinctSources' /\ poolQ' \in Seq(PoolTask)
      /\ Outstanding \in Int /\ Outstanding' = Outstanding + 1
    BY <1>1, <1>2, <1>3, TurnInBatch DEF Refilling, PoolFn
<1>5. /\ app' \in AppState
      /\ app'.numRefillsRunning = app.numRefillsRunning + 1
      /\ app'.numLogMarksRunning = 0
      /\ app.numRefillsRunning \in Int /\ app.numLogMarksRunning = 0
    BY <1>1, <1>2, <1>3 DEF AppState, Refilling
<1>6. /\ iter \in Nat /\ iter + 1 \in 1..(NumSources + 1)
      /\ iter # NumSources => iter + 1 \in Source
    BY <1>2, LogMergeAssumption DEF Source
<1>7. CtlTypeOK'
    BY <1>1, <1>2, <1>4, <1>5, <1>6 DEF CtlTypeOK
<1>8. TokensCounted'
    BY <1>1, <1>2, <1>5 DEF TokensCounted
<1>9. app.numRefillsRunning = iter - 1 /\ Outstanding <= app.numRefillsRunning
    BY <1>2, <1>3 DEF Refilling, CountOf
<1>10. Outstanding' <= app'.numRefillsRunning /\ app'.numRefillsRunning = iter' - 1
    BY <1>2, <1>4, <1>5, <1>6, <1>9
<1>11. Refilling'
    BY <1>2, <1>4, <1>5, <1>6, <1>10 DEF Refilling, CountOf
<1> QED
    BY <1>4, <1>7, <1>8, <1>11 DEF BatchInv

\* A turn of markLogEntriesForeachSource() keeps the invariant.
LEMMA MarkTurnStep ==
    ASSUME BatchInv, MarkLogEntriesTurn
    PROVE  BatchInv'
<1> DEFINE pf == "markLogEntryForSourceByArg"
           df == "markLogEntryForSourceDone"
<1>1. /\ CtlTypeOK /\ TokensCounted /\ DistinctSources
      /\ Refilling \/ Marking \/ Control
      /\ app \in AppState /\ tokens \in Int
    BY DEF BatchInv, CtlTypeOK
<1>2. /\ pc = "mark" /\ iter \in Source
      /\ poolQ' = Append(poolQ, Task(pf, iter))
      /\ app' = [app EXCEPT !.numLogMarksRunning = @ + 1]
      /\ tokens' = tokens + 1
      /\ iter' = iter + 1
      /\ pc' = IF iter = NumSources THEN "idle" ELSE "mark"
      /\ UNCHANGED <<pend, envQ, job>>
    BY DEF MarkLogEntriesTurn, PoolEnque
<1>3. Marking
    BY <1>1, <1>2 DEF Refilling, CountOf, Control
<1>4. /\ BatchOf(pf, df)' /\ DistinctSources' /\ poolQ' \in Seq(PoolTask)
      /\ Outstanding \in Int /\ Outstanding' = Outstanding + 1
    BY <1>1, <1>2, <1>3, TurnInBatch DEF Marking, PoolFn
<1>5. /\ app' \in AppState
      /\ app'.numLogMarksRunning = app.numLogMarksRunning + 1
      /\ app'.numRefillsRunning = 0
      /\ app.numLogMarksRunning \in Int /\ app.numRefillsRunning = 0
    BY <1>1, <1>2, <1>3 DEF AppState, Marking
<1>6. /\ iter \in Nat /\ iter + 1 \in 1..(NumSources + 1)
      /\ iter # NumSources => iter + 1 \in Source
    BY <1>2, LogMergeAssumption DEF Source
<1>7. CtlTypeOK'
    BY <1>1, <1>2, <1>4, <1>5, <1>6 DEF CtlTypeOK
<1>8. TokensCounted'
    BY <1>1, <1>2, <1>5 DEF TokensCounted
<1>9. app.numLogMarksRunning = iter - 1 /\ Outstanding <= app.numLogMarksRunning
    BY <1>2, <1>3 DEF Marking, CountOf
<1>10. Outstanding' <= app'.numLogMarksRunning /\ app'.numLogMarksRunning = iter' - 1
    BY <1>2, <1>4, <1>5, <1>6, <1>9
<1>11. Marking'
    BY <1>2, <1>4, <1>5, <1>6, <1>10 DEF Marking, CountOf
<1> QED
    BY <1>4, <1>7, <1>8, <1>11 DEF BatchInv

\* The steps between the handlers: the chain of tasks, the scan, the end.
LEMMA ChainStep ==
    ASSUME BatchInv,
           \/ LoopEnque \/ FindOldestTurn \/ FindOldestEnd
           \/ RunUntilDoneReturns \/ JoinBlocking
    PROVE  BatchInv'
<1>1. /\ CtlTypeOK /\ TokensCounted /\ DistinctSources
      /\ Refilling \/ Marking \/ Control
      /\ app \in AppState
    BY DEF BatchInv, CtlTypeOK
<1>2. CASE LoopEnque
    <2>1. /\ pc = "enq" /\ envQ' = Append(envQ, pend) /\ pc' = "idle" /\ pend' = NoTask
          /\ UNCHANGED <<iter, tokens, poolQ, job, app>>
        BY <1>2 DEF LoopEnque, poolVars
    <2>2. Control
        BY <1>1, <2>1 DEF Refilling, Marking, CountOf
    <2>3. envQ = <<>> /\ pend \in EnvTask /\ pend.fn \in ControlFn
        BY <2>1, <2>2 DEF Control
    <2>4. envQ' \in Seq(EnvTask) /\ Len(envQ') = 1 /\ envQ'[1] = pend
        BY <2>1, <2>3
    <2>5. CtlTypeOK'
        BY <1>1, <2>1, <2>4 DEF CtlTypeOK
    <2>6. Control'
        BY <2>1, <2>2, <2>3, <2>4 DEF Control, PoolQuiet
    <2>7. DistinctSources' /\ TokensCounted'
        BY <1>1, <2>1 DEF DistinctSources, OneTaskPerSource, TokensCounted
    <2> QED
        BY <2>5, <2>6, <2>7 DEF BatchInv
<1>3. CASE FindOldestTurn
    <2>1. /\ pc = "find" /\ iter \in Source
          /\ app' \in {app, [app EXCEPT !.lowest = iter]}
          /\ iter' = iter + 1
          /\ UNCHANGED <<pc, pend, envQ, tokens, poolQ, job>>
        BY <1>3 DEF FindOldestTurn, poolVars
    <2>2. Control /\ envQ = <<>>
        BY <1>1, <2>1 DEF Refilling, Marking, CountOf, Control
    <2>3. iter + 1 \in 1..(NumSources + 1) /\ iter \in 0..NumSources
        BY <2>1, LogMergeAssumption DEF Source
    <2>4. /\ app' \in AppState
          /\ app'.numRefillsRunning = app.numRefillsRunning
          /\ app'.numLogMarksRunning = app.numLogMarksRunning
        BY <1>1, <2>1, <2>3 DEF AppState
    <2> QED
        BY <1>1, <2>1, <2>2, <2>3, <2>4, AfterControl
<1>4. CASE FindOldestEnd
    <2>1. /\ pc = "find" /\ pc' = "enq" /\ pend' = Task("writeLowestEntryToDst", 0)
          /\ iter' = iter
          /\ UNCHANGED <<envQ, tokens, poolQ, job, app>>
        BY <1>4 DEF FindOldestEnd, Post, poolVars
    <2>2. Control /\ envQ = <<>>
        BY <1>1, <2>1 DEF Refilling, Marking, CountOf, Control
    <2>3. pend' \in EnvTask /\ pend'.fn \in ControlFn
        BY <2>1, LogMergeAssumption DEF Task, EnvTask, EnvFn, ControlFn
    <2> QED
        BY <1>1, <2>1, <2>2, <2>3, AfterControl
<1>5. CASE RunUntilDoneReturns
    <2>1. /\ pc = "idle" /\ envQ = <<>> /\ tokens = 0
          /\ pc' \in {"join", "abort"}
          /\ UNCHANGED <<iter, pend, envQ, tokens, poolQ, job, app>>
        BY <1>5 DEF RunUntilDoneReturns, poolVars
    <2>2. /\ app.numRefillsRunning \in Int /\ app.numLogMarksRunning \in Int
          /\ app.numRefillsRunning + app.numLogMarksRunning = 0
        BY <1>1, <2>1 DEF AppState, TokensCounted
    <2>3. Outstanding \in Int
        BY <1>1, BusyIsFinite DEF Outstanding, CtlTypeOK
    <2>4. /\ PoolQuiet
          /\ app.numRefillsRunning = 0 /\ app.numLogMarksRunning = 0
        <3>1. CASE Refilling
            <4>1. app.numLogMarksRunning = 0 /\ Outstanding <= app.numRefillsRunning
                BY <3>1 DEF Refilling, CountOf
            <4>2. Outstanding <= 0 /\ app.numRefillsRunning = 0
                BY <4>1, <2>2, <2>3
            <4> QED
                BY <1>1, <4>1, <4>2, NothingOutstanding
        <3>2. CASE Marking
            <4>1. app.numRefillsRunning = 0 /\ Outstanding <= app.numLogMarksRunning
                BY <3>2 DEF Marking, CountOf
            <4>2. Outstanding <= 0 /\ app.numLogMarksRunning = 0
                BY <4>1, <2>2, <2>3
            <4> QED
                BY <1>1, <4>1, <4>2, NothingOutstanding
        <3>3. CASE Control
            BY <3>3 DEF Control
        <3> QED
            BY <1>1, <3>1, <3>2, <3>3
    <2>5. Control'
        BY <2>1, <2>4 DEF Control, PoolQuiet
    <2>6. CtlTypeOK' /\ TokensCounted' /\ DistinctSources'
        BY <1>1, <2>1 DEF CtlTypeOK, TokensCounted, DistinctSources, OneTaskPerSource
    <2> QED
        BY <2>5, <2>6 DEF BatchInv
<1>6. CASE JoinBlocking
    <2>1. /\ pc = "join" /\ pc' = "done"
          /\ UNCHANGED <<iter, pend, envQ, tokens, poolQ, job, app>>
        BY <1>6 DEF JoinBlocking, poolVars
    <2>2. Control
        BY <1>1, <2>1 DEF Refilling, Marking, CountOf
    <2>3. Control'
        BY <2>1, <2>2 DEF Control, PoolQuiet
    <2>4. CtlTypeOK' /\ TokensCounted' /\ DistinctSources'
        BY <1>1, <2>1 DEF CtlTypeOK, TokensCounted, DistinctSources, OneTaskPerSource
    <2> QED
        BY <2>3, <2>4 DEF BatchInv
<1> QED
    BY <1>2, <1>3, <1>4, <1>5, <1>6

\* A step that changes nothing the invariant speaks of.
LEMMA BatchStutter ==
    ASSUME BatchInv, UNCHANGED vars
    PROVE  BatchInv'
BY DEF BatchInv, vars, loopVars, poolVars, CtlTypeOK, TokensCounted, Refilling, Marking,
       Control, BatchOf, CountOf, PoolQuiet, Outstanding, Busy, DistinctSources,
       OneTaskPerSource

-----------------------------------------------------------------------------
\* Batches of refills and of scans never overlap, and between them only the event
\* loop runs: for any number of sources, any capacity of the two queues, any
\* contents of the files and any number of failing system calls.
THEOREM BatchInvariant == Spec => []BatchInv
<1>1. Init => BatchInv
    <2> SUFFICES ASSUME Init
                 PROVE  BatchInv
        OBVIOUS
    <2>1. Task("initStuff", 0) \in EnvTask /\ Task("initStuff", 0).fn \in ControlFn
        BY LogMergeAssumption DEF Task, EnvTask, EnvFn, ControlFn
    <2>2. PoolQuiet
        BY DEF Init, PoolQuiet
    <2>3. /\ envQ \in Seq(EnvTask) /\ Len(envQ) = 1 /\ envQ[1] = Task("initStuff", 0)
        BY <2>1 DEF Init
    <2>4. app \in AppState /\ app.numRefillsRunning = 0 /\ app.numLogMarksRunning = 0
        <3>1. 0 \in 0..NumSources
            BY LogMergeAssumption
        <3> QED
            BY <3>1 DEF Init, AppState
    <2>5. CtlTypeOK
        <3>1. Idle \in Job /\ 1 \in 1..(NumSources + 1)
            BY LogMergeAssumption DEF Idle, Job
        <3> QED
            BY <2>3, <2>4, <3>1 DEF Init, CtlTypeOK
    <2>6. Control
        BY <2>1, <2>2, <2>3, <2>4 DEF Init, Control
    <2>7. TokensCounted /\ DistinctSources
        BY <2>2, <2>4 DEF Init, TokensCounted, DistinctSources, OneTaskPerSource,
                          PoolQuiet, Idle
    <2> QED
        BY <2>5, <2>6, <2>7 DEF BatchInv
<1>2. BatchInv /\ [Next]_vars => BatchInv'
    <2> SUFFICES ASSUME BatchInv, [Next]_vars
                 PROVE  BatchInv'
        OBVIOUS
    <2>1. CASE Loop
        BY <2>1, ChainStep, RefillTurnStep, MarkTurnStep, ControlStep,
           OnOneRefillDoneStep, MarkLogEntryForSourceDoneStep DEF Loop
    <2>2. CASE \E t \in Thread : PoolThread(t)
        BY <2>2, PoolThreadStep
    <2>3. CASE Terminated \/ UNCHANGED vars
        BY <2>3, BatchStutter DEF Terminated
    <2> QED
        BY <2>1, <2>2, <2>3 DEF Next
<1> QED
    BY <1>1, <1>2, PTL DEF Spec

\* While the event loop reads the buffers of all sources without a lock, no pool
\* thread has or is about to get a task.
THEOREM LoopIsSoleReader == Spec => []LoopOwnsBuffers
<1>1. BatchInv => LoopOwnsBuffers
    <2> SUFFICES ASSUME BatchInv, LoopReadsBuffers
                 PROVE  PoolQuiet
        BY DEF LoopOwnsBuffers
    <2>1. CtlTypeOK /\ (Refilling \/ Marking \/ Control)
        BY DEF BatchInv
    <2>2. CASE pc = "find"
        BY <2>1, <2>2 DEF Refilling, Marking, CountOf, Control
    <2>3. CASE /\ envQ # <<>>
               /\ Head(envQ).fn \in {"findOldestLogEntryFromAllHeads",
                                     "writeLowestEntryToDst"}
        <3>1. 1 \in 1..Len(envQ) /\ Head(envQ) = envQ[1]
            BY <2>1, <2>3, EnvQueueFacts
        <3> QED
            BY <2>1, <2>3, <3>1 DEF Refilling, Marking, BatchOf, Control
    <2> QED
        BY <2>2, <2>3 DEF LoopReadsBuffers
<1> QED
    BY <1>1, BatchInvariant, PTL

\* Two pool threads never work on the same source.
THEOREM SourcesHaveOneTask == Spec => []OneTaskPerSource
<1>1. BatchInv => OneTaskPerSource
    BY DEF BatchInv, DistinctSources
<1> QED
    BY <1>1, BatchInvariant, PTL

\* A handler that enqueues on its own event loop finds the queue empty, so a
\* capacity of one is enough.
THEOREM LoopNeverWaitsForItself == Spec => []LoopNeverBlocksOnItself
<1>1. BatchInv => LoopNeverBlocksOnItself
    <2> SUFFICES ASSUME BatchInv, pc = "enq"
                 PROVE  Len(envQ) < EnvCap
        BY DEF LoopNeverBlocksOnItself
    <2>1. envQ = <<>>
        BY DEF BatchInv, Refilling, Marking, CountOf, Control
    <2> QED
        BY <2>1, LogMergeAssumption
<1> QED
    BY <1>1, BatchInvariant, PTL

\* As many threads as sources are enough, however short the queues: if the event
\* loop still has a task to enqueue and one is in the queue of the pool, then at
\* least two sources have no thread at work for them.
THEOREM ThreadsSuffice == Spec => []NoWaitCycle
<1>1. BatchInv => NoWaitCycle
    <2> SUFFICES ASSUME BatchInv, pc \in {"refill", "mark"}, Len(poolQ) = PoolCap
                 PROVE  \E t \in Thread : job[t].at # "post"
        BY DEF NoWaitCycle
    <2>1. CtlTypeOK /\ (Refilling \/ Marking \/ Control)
        BY DEF BatchInv
    <2>2. iter \in Source /\ Outstanding <= iter - 1
        BY <2>1 DEF Refilling, Marking, CountOf, Control
    <2>3. /\ Len(poolQ) \in Nat /\ Len(envQ) \in Nat /\ Cardinality(Busy) \in Nat
          /\ Len(poolQ) >= 1
        BY <2>1, BusyIsFinite, LogMergeAssumption DEF CtlTypeOK
    <2>4. iter <= NumSources /\ iter \in Nat
        BY <2>2, LogMergeAssumption DEF Source
    <2>5. Cardinality(Busy) < NumSources
        BY <2>2, <2>3, <2>4, LogMergeAssumption DEF Outstanding
    <2>6. Busy # Thread
        BY <2>5, BusyIsFinite, LogMergeAssumption
    <2>7. PICK t \in Thread : job[t] = Idle
        BY <2>6 DEF Busy
    <2> QED
        BY <2>7 DEF Idle
<1> QED
    BY <1>1, BatchInvariant, PTL

\* Every task of the pool that is queued, running, or reported and not yet handled has
\* an await token of its own; the tokens are the tasks counted, abandoned refills
\* included; and when runUntilDone() has returned no thread is at work any more.
THEOREM TokensAreGivenBack == Spec => []TokensMatchTasks
<1>1. BatchInv => TokensMatchTasks
    <2> SUFFICES ASSUME BatchInv PROVE TokensMatchTasks
        OBVIOUS
    <2>1. CtlTypeOK /\ TokensCounted /\ (Refilling \/ Marking \/ Control)
        BY DEF BatchInv
    <2>2. /\ Len(poolQ) \in Nat /\ Len(envQ) \in Nat /\ Cardinality(Busy) \in Nat
          /\ app.numRefillsRunning \in Int /\ app.numLogMarksRunning \in Int
          /\ DOMAIN envQ = 1..Len(envQ)
        BY <2>1, BusyIsFinite DEF CtlTypeOK, AppState
    <2>3. CASE Refilling \/ Marking
        <3>1. \A i \in 1..Len(envQ) : envQ[i].fn \notin ControlFn
            BY <2>3 DEF Refilling, Marking, BatchOf, ControlFn
        <3>2. Reported = 1..Len(envQ)
            BY <2>2, <3>1 DEF Reported
        <3>3. Cardinality(Reported) = Len(envQ)
            <4>1. \A n \in Nat : Cardinality(1..n) = n
                BY FS_Interval
            <4>2. Cardinality(1..Len(envQ)) = Len(envQ)
                BY <2>2, <4>1
            <4> QED
                BY <3>2, <4>2
        <3>4. Outstanding <= app.numRefillsRunning + app.numLogMarksRunning
            BY <2>2, <2>3 DEF Refilling, Marking, CountOf, Outstanding
        <3>5. Len(poolQ) + Cardinality(Busy) + Cardinality(Reported) <= tokens
            BY <2>1, <2>2, <3>3, <3>4 DEF TokensCounted, Outstanding
        <3>6. pc \notin {"join", "done"}
            BY <2>3 DEF Refilling, Marking, CountOf
        <3> QED
            BY <2>1, <3>5, <3>6 DEF TokensMatchTasks, TokensCounted
    <2>4. CASE Control
        <3>1. Reported = {}
            BY <2>2, <2>4 DEF Control, Reported
        <3>2. Busy = {} /\ Len(poolQ) = 0
            BY <2>4 DEF Control, PoolQuiet, Busy
        <3>3. Cardinality(Busy) = 0 /\ Cardinality(Reported) = 0
            BY <3>1, <3>2, FS_EmptySet
        <3>4. Len(poolQ) + Cardinality(Busy) + Cardinality(Reported) <= tokens
            BY <2>1, <2>4, <3>2, <3>3 DEF TokensCounted, Control
        <3> QED
            BY <2>1, <2>4, <3>4 DEF TokensMatchTasks, TokensCounted, Control
    <2> QED
        BY <2>1, <2>3, <2>4
<1> QED
    BY <1>1, BatchInvariant, PTL

-----------------------------------------------------------------------------
(* The buffers.                                                            *)

(* The operations on one source.                                           *)

\* The part of a text between two offsets.
LEMMA SubText ==
    ASSUME NEW t \in Text, NEW m \in Nat, NEW n \in Nat, m <= n, n <= Len(t)
    PROVE  /\ SubSeq(t, m + 1, n) \in Text
           /\ Len(SubSeq(t, m + 1, n)) = n - m
BY DEF Text

\* The fields of a source, and how their values relate.
LEMMA InBufferFacts ==
    ASSUME NEW r, InBuffer(r)
    PROVE  /\ r \in SourceState
           /\ r.buf \in Text /\ r.cap \in Nat
           /\ r.beg \in Nat /\ r.end \in Nat /\ r.logBeg \in Nat /\ r.logEnd \in Nat
           /\ r.isEof \in BOOLEAN /\ r.needMore \in BOOLEAN /\ r.noMore \in BOOLEAN
           /\ r.beg <= r.end /\ r.end = Len(r.buf) /\ r.end <= r.cap
           /\ r.beg = 0 \/ r.beg < r.end
           /\ r.logBeg = 0 \/ r.beg <= r.logBeg
           /\ r.logEnd = 0 \/ r.beg <= r.logEnd
BY DEF InBuffer, SourceState

\* Moving the unconsumed bytes to the front keeps all the offsets in step.
LEMMA CompactOK ==
    ASSUME NEW r, InBuffer(r)
    PROVE  /\ InBuffer(Compact(r))
           /\ Compact(r).beg <= Compact(r).end - Compact(r).beg
           /\ Compact(r).cap = r.cap /\ Compact(r).isEof = r.isEof
           /\ Compact(r).needMore = r.needMore /\ Compact(r).noMore = r.noMore
           /\ r.beg <= r.end - r.beg => Compact(r) = r
<1>1. /\ r \in SourceState /\ r.buf \in Text
      /\ r.beg \in Nat /\ r.end \in Nat /\ r.cap \in Nat
      /\ r.logBeg \in Nat /\ r.logEnd \in Nat
      /\ r.beg <= r.end /\ r.end = Len(r.buf) /\ r.end <= r.cap
      /\ r.logBeg = 0 \/ r.beg <= r.logBeg
      /\ r.logEnd = 0 \/ r.beg <= r.logEnd
    BY InBufferFacts
<1>2. CASE ~(r.beg > r.end - r.beg /\ r.end - r.beg > 0)
    <2>1. Compact(r) = r
        BY <1>2 DEF Compact
    <2>2. r.beg <= r.end - r.beg
        BY <1>1, <1>2 DEF InBuffer
    <2> QED
        BY <2>1, <2>2
<1>3. CASE r.beg > r.end - r.beg /\ r.end - r.beg > 0
    <2> DEFINE b == SubSeq(r.buf, r.beg + 1, r.end)
               lb == IF r.logBeg > 0 THEN r.logBeg - r.beg ELSE r.logBeg
               le == IF r.logEnd > 0 THEN r.logEnd - r.beg ELSE r.logEnd
               n == r.end - r.beg
               q == Compact(r)
    <2>1. q = [r EXCEPT !.buf = b, !.logBeg = lb, !.logEnd = le, !.end = n, !.beg = 0]
        BY <1>3 DEF Compact
    <2>2. b \in Text /\ Len(b) = n
        BY <1>1, SubText
    <2>3. lb \in Nat /\ le \in Nat /\ n \in Nat /\ n <= r.cap
        BY <1>1
    <2>4. ~(r.beg <= r.end - r.beg)
        BY <1>1, <1>3
    <2> HIDE DEF b, lb, le, n, q
    <2>5. r \in SourceState
        BY <1>1
    <2>6. /\ q \in SourceState
          /\ q.buf = b /\ q.logBeg = lb /\ q.logEnd = le /\ q.end = n /\ q.beg = 0
          /\ q.cap = r.cap /\ q.isEof = r.isEof
          /\ q.needMore = r.needMore /\ q.noMore = r.noMore
        BY <2>1, <2>2, <2>3, <2>5 DEF SourceState
    <2>7. InBuffer(q)
        BY <2>2, <2>3, <2>6 DEF InBuffer
    <2>8. q.beg <= q.end - q.beg
        BY <2>3, <2>6
    <2> QED
        BY <2>4, <2>6, <2>7, <2>8 DEF q
<1> QED
    BY <1>2, <1>3

\* fread() keeps within the buffer, and leaves it full or at the end of the file.
LEMMA FreadOK ==
    ASSUME NEW r, InBuffer(r), r.beg <= r.end - r.beg, NEW rem \in Text
    PROVE  /\ InBuffer(Fread(r, rem)) /\ Ready(Fread(r, rem))
           /\ Fread(r, rem).needMore = r.needMore /\ Fread(r, rem).noMore = r.noMore
           /\ SubSeq(rem, FreadLen(r, rem) + 1, Len(rem)) \in Text
<1> DEFINE n == FreadLen(r, rem)
           part == SubSeq(rem, 1, n)
           b == r.buf \o part
           q == Fread(r, rem)
           eof == n < r.cap - r.end
<1>1. /\ r \in SourceState /\ r.buf \in Text
      /\ r.beg \in Nat /\ r.end \in Nat /\ r.cap \in Nat
      /\ r.beg <= r.end /\ r.end = Len(r.buf) /\ r.end <= r.cap
    BY InBufferFacts
<1>2. Len(rem) \in Nat
    BY DEF Text
<1>3. n \in Nat /\ n <= Len(rem) /\ n <= r.cap - r.end
    BY <1>1, <1>2 DEF FreadLen
<1>4. q = [r EXCEPT !.buf = b, !.end = r.end + n, !.isEof = eof]
    BY DEF Fread, Feof
<1> HIDE DEF n, q
<1>5. part \in Text /\ Len(part) = n
    BY <1>2, <1>3 DEF Text
<1>6. SubSeq(rem, n + 1, Len(rem)) \in Text
    BY <1>2, <1>3, SubText
<1> HIDE DEF part
<1>7. b \in Text /\ Len(b) = Len(r.buf) + Len(part)
    <2>1. r.buf \in Text /\ part \in Text
        BY <1>1, <1>5
    <2> QED
        BY <2>1 DEF Text
<1> HIDE DEF b
<1>8. eof \in BOOLEAN /\ r.end + n \in Nat /\ r.end + n = Len(b) /\ r.end + n <= r.cap
    BY <1>1, <1>3, <1>5, <1>7
<1>9. ~eof => r.end + n = r.cap
    BY <1>1, <1>3
<1> HIDE DEF eof
<1>10. /\ q \in SourceState
       /\ q.buf = b /\ q.end = r.end + n /\ q.isEof = eof
       /\ q.beg = r.beg /\ q.cap = r.cap /\ q.logBeg = r.logBeg /\ q.logEnd = r.logEnd
       /\ q.needMore = r.needMore /\ q.noMore = r.noMore
    BY <1>1, <1>4, <1>7, <1>8 DEF SourceState
<1>11. InBuffer(q)
    BY <1>1, <1>3, <1>8, <1>10 DEF InBuffer
<1>12. Ready(q)
    BY <1>1, <1>3, <1>9, <1>10 DEF Ready
<1> QED
    BY <1>6, <1>10, <1>11, <1>12 DEF n, q

\* A buffer that grows keeps its offsets, and asks for no more.
LEMMA GrownOK ==
    ASSUME NEW r, InBuffer(r)
    PROVE  /\ InBuffer(Grown(r)) /\ ~Grown(r).needMore
           /\ Grown(r).beg = r.beg /\ Grown(r).end = r.end
<1> DEFINE q == Grown(r)
           c == r.cap + GrowBy
<1>1. /\ r \in SourceState /\ r.end \in Nat /\ r.cap \in Nat /\ r.end <= r.cap
    BY InBufferFacts
<1>2. c \in Nat /\ r.end <= c
    BY <1>1, LogMergeAssumption
<1>3. q = [r EXCEPT !.needMore = FALSE, !.cap = c]
    BY DEF Grown
<1> HIDE DEF q, c
<1>4. /\ q \in SourceState /\ q.cap = c /\ q.needMore = FALSE
      /\ q.beg = r.beg /\ q.end = r.end /\ q.buf = r.buf
      /\ q.logBeg = r.logBeg /\ q.logEnd = r.logEnd
    BY <1>1, <1>2, <1>3 DEF SourceState
<1>5. InBuffer(q)
    BY <1>2, <1>4 DEF InBuffer
<1> QED
    BY <1>4, <1>5 DEF q

\* Only a source that was refilled before asks for more, and it is full: so it
\* grows, and its file is not at its end.
LEMMA WantsMore ==
    ASSUME NEW r, SourceOK(r), r.needMore
    PROVE  Compact(r) = r /\ ~r.isEof /\ ~MustRead(r)
<1>1. InBuffer(r) /\ ~r.isEof /\ Ready(r)
    BY DEF SourceOK
<1>2. /\ r.beg \in Nat /\ r.end \in Nat /\ r.cap \in Nat
      /\ r.end = r.cap /\ r.beg <= r.end - r.beg
    BY <1>1, InBufferFacts DEF Ready
<1>3. Compact(r) = r
    BY <1>1, <1>2, CompactOK
<1> QED
    BY <1>1, <1>2, <1>3 DEF MustRead

\* What a refill reads goes behind the unconsumed bytes.
LEMMA RefillOK ==
    ASSUME NEW r, SourceOK(r), NEW rem \in Text
    PROVE  LET c == Compact(r)
               grows == ~MustRead(c) /\ c.needMore
               q == IF grows THEN Compact(Grown(c)) ELSE c
           IN  /\ grows => ~c.isEof
               /\ SourceOK(c) /\ SourceOK(Grown(c))
               /\ (~MustRead(c) /\ ~c.needMore) => Ready(c)
               /\ (MustRead(c) \/ grows) =>
                      /\ SourceOK(Fread(q, rem)) /\ Ready(Fread(q, rem))
                      /\ SubSeq(rem, FreadLen(q, rem) + 1, Len(rem)) \in Text
<1> DEFINE c == Compact(r)
           grows == ~MustRead(c) /\ c.needMore
           q == IF grows THEN Compact(Grown(c)) ELSE c
<1>1. InBuffer(r) /\ (r.needMore => ~r.isEof /\ Ready(r))
    BY DEF SourceOK
<1>2. /\ InBuffer(c) /\ c.beg <= c.end - c.beg
      /\ c.cap = r.cap /\ c.isEof = r.isEof /\ c.needMore = r.needMore
    BY <1>1, CompactOK
<1>3. r.needMore => c = r /\ ~r.isEof /\ ~MustRead(r)
    BY WantsMore
<1>4. SourceOK(c)
    BY <1>1, <1>2, <1>3 DEF SourceOK
<1>5. InBuffer(Grown(c)) /\ ~Grown(c).needMore
    BY <1>2, GrownOK
<1>6. SourceOK(Grown(c))
    BY <1>5 DEF SourceOK
<1>7. (~MustRead(c) /\ ~c.needMore) => Ready(c)
    <2>1. c.end \in Nat /\ c.cap \in Nat /\ c.end <= c.cap
        BY <1>2, InBufferFacts
    <2> QED
        BY <1>2, <2>1 DEF MustRead, Ready
<1>8. ASSUME MustRead(c) \/ grows
      PROVE  InBuffer(q) /\ q.beg <= q.end - q.beg /\ ~q.needMore
    <2>1. CASE grows
        BY <2>1, <1>5, CompactOK
    <2>2. CASE ~grows
        <3>1. MustRead(c) /\ ~c.needMore
            BY <1>2, <1>3, <1>8, <2>2
        <3> QED
            BY <1>2, <2>2, <3>1
    <2> QED
        BY <2>1, <2>2
<1>9. grows => ~c.isEof
    BY <1>2, <1>3
<1> HIDE DEF q, c
<1>10. ASSUME MustRead(c) \/ grows
       PROVE  /\ SourceOK(Fread(q, rem)) /\ Ready(Fread(q, rem))
              /\ SubSeq(rem, FreadLen(q, rem) + 1, Len(rem)) \in Text
    BY <1>8, <1>10, FreadOK DEF SourceOK
<1> QED
    BY <1>4, <1>6, <1>7, <1>9, <1>10 DEF q, c

\* The set of offsets where an entry may begin or end.
LEMMA MarkSets ==
    ASSUME NEW r, InBuffer(r)
    PROVE  /\ MarkBegins(r) \in SUBSET Nat
           /\ \A b \in MarkBegins(r) : /\ r.beg <= b /\ b < r.end - 1
                                       /\ r.buf[b + 1] # LF
           /\ \A b \in Nat : /\ MarkEnds(r, b) \in SUBSET Nat
                             /\ \A e \in MarkEnds(r, b) :
                                    b + 1 <= e /\ e < r.end - 1 /\ r.buf[e] = LF
<1>1. r.beg \in Nat /\ r.end \in Nat
    BY InBufferFacts
<1>2. \A h \in Headers : h # LF
    BY HeadersAssumption
<1>3. /\ MarkBegins(r) \in SUBSET Nat
      /\ \A b \in MarkBegins(r) : r.beg <= b /\ b < r.end - 1 /\ r.buf[b + 1] \in Headers
    BY <1>1 DEF MarkBegins, HdrAt
<1>4. ASSUME NEW b \in Nat
      PROVE  /\ MarkEnds(r, b) \in SUBSET Nat
             /\ \A e \in MarkEnds(r, b) : b + 1 <= e /\ e < r.end - 1 /\ r.buf[e] = LF
    BY <1>1 DEF MarkEnds, HdrAt
<1> QED
    BY <1>2, <1>3, <1>4

\* A scan leaves an entry that lies within the bytes read, or tells why not.
LEMMA MarkOK ==
    ASSUME NEW r, SourceOK(r), Ready(r)
    PROVE  SourceOK(Mark(r)) /\ Ready(Mark(r)) /\ Scanned(Mark(r))
<1>1. InBuffer(r)
    BY DEF SourceOK
<1>2. /\ r \in SourceState
      /\ r.beg \in Nat /\ r.end \in Nat
      /\ r.isEof \in BOOLEAN
    BY <1>1, InBufferFacts
<1>3. ASSUME NEW q \in SourceState, q.cap = r.cap, q.beg = r.beg, q.end = r.end,
             q.buf = r.buf, q.isEof = r.isEof,
             q.logBeg = r.logBeg \/ r.beg <= q.logBeg,
             q.logEnd = r.logEnd \/ r.beg <= q.logEnd,
             q.needMore => r.needMore \/ ~r.isEof,
             Scanned(q)
      PROVE  SourceOK(q) /\ Ready(q) /\ Scanned(q)
    <2>1. InBuffer(q)
        BY <1>1, <1>3 DEF InBuffer
    <2>2. Ready(q)
        BY <1>3 DEF Ready
    <2> QED
        BY <1>3, <2>1, <2>2 DEF SourceOK
<1>4. CASE MarkBegins(r) = {}
    <2> DEFINE q == Mark(r)
    <2>1. q = IF r.isEof THEN [r EXCEPT !.noMore = TRUE] ELSE [r EXCEPT !.needMore = TRUE]
        BY <1>4 DEF Mark
    <2> HIDE DEF q
    <2>2. /\ q \in SourceState /\ q.cap = r.cap /\ q.beg = r.beg /\ q.end = r.end
          /\ q.buf = r.buf /\ q.isEof = r.isEof /\ q.logBeg = r.logBeg /\ q.logEnd = r.logEnd
          /\ q.noMore \/ q.needMore
          /\ q.needMore => r.needMore \/ ~r.isEof
        BY <1>2, <2>1 DEF SourceState
    <2>3. Scanned(q)
        BY <2>2 DEF Scanned
    <2> QED
        BY <1>3, <2>2, <2>3 DEF q
<1>5. CASE MarkBegins(r) # {}
    <2> DEFINE b == First(MarkBegins(r))
               ends == MarkEnds(r, b)
               e == First(ends)
    <2>1. b \in MarkBegins(r) /\ b \in Nat
        BY <1>1, <1>5, MarkSets, FirstIsLeast
    <2>2. r.beg <= b /\ b < r.end - 1 /\ r.buf[b + 1] # LF
        BY <1>1, <2>1, MarkSets
    <2>3. Mark(r) = IF ends # {} THEN [r EXCEPT !.logBeg = b, !.logEnd = e - 1]
                    ELSE IF r.isEof THEN [r EXCEPT !.logBeg = b, !.logEnd = r.end - 1]
                    ELSE [r EXCEPT !.logBeg = b, !.needMore = TRUE]
        BY <1>5 DEF Mark, DropTrailingLF
    <2> HIDE DEF b
    <2>4. ends # {} => /\ e \in Nat /\ e < r.end - 1 /\ b + 1 < e
        <3> SUFFICES ASSUME ends # {}
                     PROVE  e \in Nat /\ e < r.end - 1 /\ b + 1 < e
            OBVIOUS
        <3>1. e \in ends /\ e \in Nat
            BY <1>1, <2>1, MarkSets, FirstIsLeast
        <3>2. b + 1 <= e /\ e < r.end - 1 /\ r.buf[e] = LF
            BY <1>1, <2>1, <3>1, MarkSets
        <3>3. e # b + 1
            BY <2>2, <3>2
        <3> QED
            BY <2>1, <3>1, <3>2, <3>3
    <2> HIDE DEF e, ends
    <2> DEFINE q == Mark(r)
    <2>5. CASE ends # {} \/ r.isEof
        <3> DEFINE x == IF ends # {} THEN e - 1 ELSE r.end - 1
        <3>1. q = [r EXCEPT !.logBeg = b, !.logEnd = x]
            BY <2>3, <2>5
        <3>2. x \in Nat /\ b < x /\ x < r.end
            BY <1>2, <2>1, <2>2, <2>4, <2>5
        <3> HIDE DEF x, q
        <3>3. /\ q \in SourceState /\ q.cap = r.cap /\ q.beg = r.beg /\ q.end = r.end
              /\ q.buf = r.buf /\ q.isEof = r.isEof /\ q.logBeg = b /\ q.logEnd = x
              /\ q.needMore = r.needMore
            BY <1>2, <2>1, <3>1, <3>2 DEF SourceState
        <3>4. Scanned(q)
            BY <2>2, <3>2, <3>3 DEF Scanned, Found
        <3>5. r.beg <= x
            BY <1>2, <2>1, <2>2, <3>2
        <3> QED
            BY <1>3, <2>2, <3>3, <3>4, <3>5 DEF q
    <2>6. CASE ~(ends # {} \/ r.isEof)
        <3>1. q = [r EXCEPT !.logBeg = b, !.needMore = TRUE]
            BY <2>3, <2>6
        <3> HIDE DEF q
        <3>2. /\ q \in SourceState /\ q.cap = r.cap /\ q.beg = r.beg /\ q.end = r.end
              /\ q.buf = r.buf /\ q.isEof = r.isEof /\ q.logBeg = b /\ q.logEnd = r.logEnd
              /\ q.needMore = TRUE
            BY <1>2, <2>1, <3>1 DEF SourceState
        <3>3. Scanned(q)
            BY <3>2 DEF Scanned
        <3> QED
            BY <1>3, <2>2, <2>6, <3>2, <3>3 DEF q
    <2> QED
        BY <2>5, <2>6
<1> QED
    BY <1>4, <1>5

\* Consuming an entry leaves the byte behind it.
LEMMA ConsumedOK ==
    ASSUME NEW r, SourceOK(r), Found(r), ~r.needMore
    PROVE  SourceOK(Consumed(r)) /\ LogEntry(r) \in Text
<1> DEFINE q == Consumed(r)
<1>1. /\ r \in SourceState /\ InBuffer(r) /\ r.buf \in Text
      /\ r.beg \in Nat /\ r.end \in Nat /\ r.logBeg \in Nat /\ r.logEnd \in Nat
      /\ r.end = Len(r.buf)
      /\ r.beg <= r.logBeg /\ r.logBeg < r.logEnd /\ r.logEnd < r.end
    BY InBufferFacts DEF SourceOK, Found
<1>2. q = [r EXCEPT !.beg = r.logEnd, !.logBeg = r.logEnd]
    BY DEF Consumed
<1> HIDE DEF q
<1>3. /\ q \in SourceState /\ q.cap = r.cap /\ q.beg = r.logEnd /\ q.end = r.end
      /\ q.buf = r.buf /\ q.logBeg = r.logEnd /\ q.logEnd = r.logEnd
      /\ q.needMore = r.needMore
    BY <1>1, <1>2 DEF SourceState
<1>4. SourceOK(q)
    BY <1>1, <1>3 DEF SourceOK, InBuffer
<1>5. LogEntry(r) \in Text
    BY <1>1, SubText DEF LogEntry
<1> QED
    BY <1>4, <1>5 DEF q

-----------------------------------------------------------------------------
(* What holds by the phase the event loop is in.                           *)

\* While the event loop's queue holds completions only, the chain is at rest.
LEMMA NoChain ==
    ASSUME CtlTypeOK', pc' \notin {"enq", "find"},
           \A i \in 1..Len(envQ') : envQ'[i].fn \notin ControlFn
    PROVE  ChainInv'
<1>1. envQ' # <<>> => Head(envQ').fn \notin ControlFn
    <2>1. envQ' # <<>> => 1 \in 1..Len(envQ') /\ Head(envQ') = envQ'[1]
        BY DEF CtlTypeOK
    <2> QED
        BY <2>1
<1>2. \A f \in ControlFn : ~Queued(f)'
    BY <1>1 DEF Queued
<1> QED
    BY <1>2 DEF ChainInv, ControlFn, EnvFn

\* Between two batches neither batch has to make progress.
LEMMA NoBatch ==
    ASSUME app'.numRefillsRunning = 0, app'.numLogMarksRunning = 0,
           pc' \notin {"refill", "mark"}
    PROVE  RefillProgress' /\ MarkProgress'
BY DEF RefillProgress, MarkProgress

\* A handler returns and leaves nothing to do, or the process is gone.
LEMMA ComesToNothing ==
    ASSUME CtlTypeOK', envQ' = <<>>,
           \/ /\ pc' \in {"idle", "join", "done", "abort"}
              /\ app'.numRefillsRunning = 0 /\ app'.numLogMarksRunning = 0
           \/ pc' = "abort"
    PROVE  RefillProgress' /\ MarkProgress' /\ ChainInv'
<1>1. ChainInv'
    BY NoChain
<1>2. RefillProgress' /\ MarkProgress'
    BY DEF RefillProgress, MarkProgress
<1> QED
    BY <1>1, <1>2

\* refillSrcBuffers() starts: every source is still to be refilled.
LEMMA StartsRefilling ==
    ASSUME CtlTypeOK', envQ' = <<>>, pc' = "refill", iter' = 1,
           app'.numLogMarksRunning = 0
    PROVE  RefillProgress' /\ MarkProgress' /\ ChainInv'
<1>1. ChainInv'
    BY NoChain
<1>2. \A s \in Source : Pending(s)'
    BY DEF Pending, Source
<1> QED
    BY <1>1, <1>2 DEF RefillProgress, MarkProgress

\* A step that leaves the buffers alone.
LEMMA DataUntouched ==
    ASSUME DataInv, UNCHANGED dataVars, faults' \in 0..MaxFaults
    PROVE  DataInv'
BY DEF DataInv, dataVars

\* A call to the system that fails stays within the bound.
LEMMA FaultOK ==
    ASSUME faults \in 0..MaxFaults, Fault
    PROVE  faults' \in 0..MaxFaults
BY LogMergeAssumption DEF Fault

-----------------------------------------------------------------------------
(* The steps of the pool.                                                  *)

\* A thread that takes a task or posts a completion only moves it on.
LEMMA MovesOn ==
    ASSUME BatchInv', BufferInv, ~Control',
           \A s \in Source : Pending(s) => Pending(s)',
           \A s \in Source : Reporting(s) => Reporting(s)',
           UNCHANGED <<pc, app, dataVars, faults>>
    PROVE  BufferInv'
<1>1. DataInv'
    BY DataUntouched DEF BufferInv, DataInv
<1>2. src' = src
    BY DEF dataVars
<1>3. RefillProgress'
    BY <1>2 DEF BufferInv, RefillProgress
<1>4. MarkProgress'
    BY <1>2 DEF BufferInv, MarkProgress
<1>5. ChainInv'
    <2>1. CtlTypeOK' /\ (Refilling' \/ Marking')
        BY DEF BatchInv
    <2> QED
        BY <2>1, NoChain DEF Refilling, Marking, BatchOf, CountOf, ControlFn
<1> QED
    BY <1>1, <1>3, <1>4, <1>5 DEF BufferInv

\* A thread takes a task.
LEMMA TakeTaskBuffers ==
    ASSUME BatchInv, BatchInv', BufferInv, NEW t \in Thread, TakeTask(t)
    PROVE  BufferInv'
<1> DEFINE x == [at |-> "run", task |-> Head(poolQ)]
<1>1. /\ CtlTypeOK /\ job \in [Thread -> Job]
      /\ job[t] = Idle /\ poolQ # <<>>
      /\ job' = [job EXCEPT ![t] = x] /\ poolQ' = Tail(poolQ)
      /\ UNCHANGED <<pc, iter, pend, envQ, tokens, app, dataVars, faults>>
    BY DEF TakeTask, loopVars, BatchInv, CtlTypeOK
<1>2. x.at = "run" /\ x.task = poolQ[1]
    BY <1>1, PoolQueueFacts
<1>3. Idle.at = "idle"
    BY DEF Idle
<1>4. job'[t] = x /\ \A u \in Thread : u # t => job'[u] = job[u]
    BY <1>1
<1> HIDE DEF x
<1>5. ASSUME NEW s \in Source, Pending(s)
      PROVE  Pending(s)'
    <2>1. CASE pc \in {"refill", "mark"} /\ iter <= s
        BY <1>1, <2>1 DEF Pending
    <2>2. CASE \E i \in 1..Len(poolQ) : poolQ[i].arg = s
        <3>1. PICK i \in 1..Len(poolQ) : poolQ[i].arg = s
            BY <2>2
        <3>2. CASE i = 1
            BY <1>2, <1>4, <3>1, <3>2 DEF Pending
        <3>3. CASE i # 1
            <4>1. i - 1 \in 1..Len(poolQ') /\ poolQ'[i - 1] = poolQ[i]
                BY <1>1, <3>3, PoolQueueFacts
            <4> QED
                BY <3>1, <4>1 DEF Pending
        <3> QED
            BY <3>2, <3>3
    <2>3. CASE \E u \in Thread : job[u].at = "run" /\ job[u].task.arg = s
        BY <1>1, <1>3, <1>4, <2>3 DEF Pending
    <2> QED
        BY <1>5, <2>1, <2>2, <2>3 DEF Pending
<1>6. ASSUME NEW s \in Source, Reporting(s)
      PROVE  Reporting(s)'
    BY <1>1, <1>3, <1>4, <1>6 DEF Reporting
<1>7. ~Control'
    BY <1>2, <1>3, <1>4 DEF Control, PoolQuiet
<1> QED
    BY <1>1, <1>5, <1>6, <1>7, MovesOn

\* A thread posts a completion.
LEMMA ThreadEnqueBuffers ==
    ASSUME BatchInv, BatchInv', BufferInv, NEW t \in Thread, ThreadEnque(t)
    PROVE  BufferInv'
<1>1. /\ job \in [Thread -> Job] /\ envQ \in Seq(EnvTask)
      /\ job[t].at = "post" /\ envQ' = Append(envQ, job[t].task)
      /\ job' = [job EXCEPT ![t] = Idle]
      /\ UNCHANGED <<pc, iter, poolQ, app, dataVars, faults>>
    BY DEF ThreadEnque, BatchInv, CtlTypeOK
<1>2. Idle.at = "idle"
    BY DEF Idle
<1>3. \A u \in Thread : u # t => job'[u] = job[u]
    BY <1>1
<1>4. job[t].task \in EnvTask
    <2>1. job[t].task \in {NoTask} \cup PoolTask \cup EnvTask
        BY <1>1 DEF Job
    <2>2. job[t] # Idle
        BY <1>1, <1>2
    <2>3. job[t].task.fn \in EnvFn
        BY <1>1, <2>2 DEF BatchInv, Refilling, Marking, BatchOf, Control, PoolQuiet, EnvFn
    <2> QED
        BY <2>1, <2>3 DEF NoTask, PoolTask, PoolFn, EnvFn
<1>5. /\ Len(envQ) \in Nat /\ Len(envQ') = Len(envQ) + 1
      /\ envQ'[Len(envQ) + 1] = job[t].task
      /\ \A i \in 1..Len(envQ) : envQ'[i] = envQ[i]
    BY <1>1, <1>4
<1>6. 1..Len(envQ) \subseteq 1..Len(envQ') /\ Len(envQ) + 1 \in 1..Len(envQ')
    BY <1>5
<1>7. ASSUME NEW s \in Source, Pending(s)
      PROVE  Pending(s)'
    BY <1>1, <1>3, <1>7 DEF Pending
<1>8. ASSUME NEW s \in Source, Reporting(s)
      PROVE  Reporting(s)'
    <2>1. CASE \E i \in 1..Len(envQ) : envQ[i].arg = s
        BY <1>5, <1>6, <2>1 DEF Reporting
    <2>2. CASE \E u \in Thread : job[u].at = "post" /\ job[u].task.arg = s
        BY <1>3, <1>5, <1>6, <2>2 DEF Reporting
    <2> QED
        BY <1>8, <2>1, <2>2 DEF Reporting
<1>9. ~Control'
    <2>1. envQ' # <<>> /\ envQ'[1].fn \notin ControlFn
        <3>1. \A i \in 1..Len(envQ) : envQ[i].fn \notin ControlFn
            <4>1. ~Control
                BY <1>1, <1>2 DEF Control, PoolQuiet
            <4> QED
                BY <4>1 DEF BatchInv, Refilling, Marking, BatchOf, ControlFn
        <3>2. job[t].task.fn \notin ControlFn
            BY <1>1, <1>2 DEF BatchInv, Refilling, Marking, BatchOf, Control, PoolQuiet, ControlFn
        <3>3. 1 \in 1..Len(envQ) \/ 1 = Len(envQ) + 1
            BY <1>5
        <3> QED
            BY <1>5, <3>1, <3>2, <3>3
    <2> QED
        BY <2>1 DEF Control
<1> QED
    BY <1>1, <1>7, <1>8, <1>9, MovesOn

\* The task a thread runs is about a source, and nobody else's.
LEMMA RunningTask ==
    ASSUME CtlTypeOK, NEW t \in Thread, job[t].at = "run", job[t].task.fn \in PoolFn
    PROVE  job[t].task.arg \in Source
<1>1. job[t].task \in {NoTask} \cup PoolTask \cup EnvTask
    BY DEF CtlTypeOK, Job
<1>2. job[t].task \in PoolTask
    BY <1>1 DEF NoTask, EnvTask, EnvFn, PoolFn
<1> QED
    BY <1>2 DEF PoolTask

\* What a refill does to the buffer of its source, and to no other.
LEMMA RefillData ==
    ASSUME CtlTypeOK, DataInv, NEW t \in Thread, RefillBufferForSourceByArg(t)
    PROVE  LET s == job[t].task.arg
           IN  /\ DataInv' /\ s \in Source
               /\ \A q \in Source : q # s => src'[q] = src[q]
               /\ Ready(src'[s]) \/ app'.exitCode # 0 \/ pc' = "abort"
<1> DEFINE s == job[t].task.arg
           r == Compact(src[s])
           grows == ~MustRead(r) /\ r.needMore
           q == IF grows THEN Compact(Grown(r)) ELSE r
           rem == unread[s]
           rest == SubSeq(rem, FreadLen(q, rem) + 1, Len(rem))
<1>1. /\ s \in Source /\ app \in AppState
      /\ src \in [Source -> SourceState] /\ unread \in [Source -> Text]
      /\ SourceOK(src[s]) /\ rem \in Text
    BY RunningTask DEF RefillBufferForSourceByArg, Runs, PoolFn, DataInv, CtlTypeOK
<1>2. /\ SourceOK(r) /\ SourceOK(Grown(r))
      /\ (~MustRead(r) /\ ~r.needMore) => Ready(r)
      /\ (MustRead(r) \/ grows) =>
             SourceOK(Fread(q, rem)) /\ Ready(Fread(q, rem)) /\ rest \in Text
    BY <1>1, RefillOK
\* The new source and what is left of its file.
<1>3. \E x, y : /\ SourceOK(x) /\ y \in Text
                /\ src' = [src EXCEPT ![s] = x] /\ unread' = [unread EXCEPT ![s] = y]
                /\ Ready(x) \/ app'.exitCode # 0 \/ pc' = "abort"
    <2> DEFINE tooLong == r.end - r.beg > MaxEntry
               willRead == MustRead(r) \/ (grows /\ ~tooLong)
    <2>1. CASE /\ willRead
               /\ src' = [src EXCEPT ![s] = Fread(q, rem)]
               /\ unread' = [unread EXCEPT ![s] = rest]
        <3>1. SourceOK(Fread(q, rem)) /\ Ready(Fread(q, rem)) /\ rest \in Text
            BY <1>2, <2>1
        <3> HIDE DEF q, rest, rem, s
        <3> QED
            BY <2>1, <3>1
    <2>2. CASE /\ ~MustRead(r) /\ ~r.needMore
               /\ src' = [src EXCEPT ![s] = r] /\ unread' = unread
        <3>1. Ready(r) /\ SourceOK(r) /\ unread' = [unread EXCEPT ![s] = rem]
            BY <1>1, <1>2, <2>2
        <3> HIDE DEF r, s, rem
        <3> QED
            BY <1>1, <2>2, <3>1
    <2>3. CASE /\ src' = [src EXCEPT ![s] = r] /\ unread' = unread
               /\ app' = [app EXCEPT !.exitCode = -1]
        <3>1. SourceOK(r) /\ unread' = [unread EXCEPT ![s] = rem]
            BY <1>1, <1>2, <2>3
        <3>2. app'.exitCode # 0
            BY <1>1, <2>3 DEF AppState
        <3> HIDE DEF r, s, rem
        <3> QED
            BY <1>1, <2>3, <3>1, <3>2
    <2>4. CASE /\ src' = [src EXCEPT ![s] = Grown(r)] /\ unread' = unread
               /\ app' = [app EXCEPT !.exitCode = -1]
        <3>1. SourceOK(Grown(r)) /\ unread' = [unread EXCEPT ![s] = rem]
            BY <1>1, <1>2, <2>4
        <3>2. app'.exitCode # 0
            BY <1>1, <2>4 DEF AppState
        <3> HIDE DEF r, s, rem
        <3> QED
            BY <1>1, <2>4, <3>1, <3>2
    <2>5. CASE src' = src /\ unread' = unread /\ pc' = "abort"
        <3>1. src' = [src EXCEPT ![s] = src[s]] /\ unread' = [unread EXCEPT ![s] = rem]
            BY <1>1, <2>5
        <3> HIDE DEF s, rem
        <3> QED
            BY <1>1, <2>5, <3>1
    <2> QED
        BY <2>1, <2>2, <2>3, <2>4, <2>5 DEF RefillBufferForSourceByArg, AssertThat
<1>4. faults' \in 0..MaxFaults /\ UNCHANGED <<lastMsg, stdout>>
    <2>1. faults' = faults \/ Fault
        BY DEF RefillBufferForSourceByArg
    <2> QED
        BY <2>1, FaultOK DEF RefillBufferForSourceByArg, DataInv
<1> HIDE DEF s, r, q, rem, rest, grows
<1>5. PICK x, y : /\ SourceOK(x) /\ y \in Text
                  /\ src' = [src EXCEPT ![s] = x] /\ unread' = [unread EXCEPT ![s] = y]
                  /\ Ready(x) \/ app'.exitCode # 0 \/ pc' = "abort"
    BY <1>3
<1>6. x \in SourceState
    BY <1>5 DEF SourceOK, InBuffer
<1>7. src'[s] = x /\ \A p \in Source : p # s => src'[p] = src[p]
    BY <1>1, <1>5
<1>8. DataInv'
    BY <1>1, <1>4, <1>5, <1>6, <1>7 DEF DataInv
<1> QED
    BY <1>1, <1>5, <1>7, <1>8 DEF s

\* A task in progress concerns one source: those of the others are still pending.
LEMMA OthersPending ==
    ASSUME CtlTypeOK, NEW t \in Thread, NEW pf, NEW df, TaskEnds(t, pf, df), pc' # "abort",
           NEW s \in Source, s # job[t].task.arg
    PROVE  (Pending(s) => Pending(s)') /\ (Reporting(s) => Reporting(s)')
<1>1. /\ job \in [Thread -> Job] /\ job[t].at = "run"
      /\ pc' = pc /\ UNCHANGED <<iter, poolQ, envQ>>
    BY DEF TaskEnds, CtlTypeOK
<1>2. \A u \in Thread : u # t => job'[u] = job[u]
    BY <1>1 DEF TaskEnds
<1>3. Pending(s) => Pending(s)'
    BY <1>1, <1>2 DEF Pending
<1>4. Reporting(s) => Reporting(s)'
    BY <1>1, <1>2 DEF Reporting
<1> QED
    BY <1>3, <1>4

\* A refill leaves its own source full or at its end, unless it failed.
LEMMA RefillBuffers ==
    ASSUME BatchInv, BatchInv', BufferInv, NEW t \in Thread, RefillBufferForSourceByArg(t)
    PROVE  BufferInv'
<1> DEFINE s == job[t].task.arg
<1>1. /\ CtlTypeOK /\ CtlTypeOK' /\ app \in AppState /\ DataInv /\ RefillProgress
    BY DEF BatchInv, CtlTypeOK, BufferInv
<1>2. TaskEnds(t, "refillBufferForSourceByArg", "onOneRefillDone")
    BY RefillTaskEnds
<1>3. /\ DataInv' /\ s \in Source
      /\ \A q \in Source : q # s => src'[q] = src[q]
      /\ Ready(src'[s]) \/ app'.exitCode # 0 \/ pc' = "abort"
    BY <1>1, RefillData
<1>4. Refilling
    <2>1. job[t].at = "run" /\ job[t].task.fn = "refillBufferForSourceByArg"
        BY <1>2 DEF TaskEnds
    <2> QED
        BY <2>1 DEF BatchInv, Marking, BatchOf, Control, PoolQuiet, Idle
<1>5. /\ pc' \in {pc, "abort"} /\ envQ' = envQ
      /\ app' \in {app, [app EXCEPT !.exitCode = -1]}
    BY <1>2 DEF TaskEnds
<1>6. /\ app'.numRefillsRunning = app.numRefillsRunning
      /\ app'.numLogMarksRunning = 0
      /\ app'.exitCode = 0 => app.exitCode = 0
    BY <1>1, <1>4, <1>5 DEF AppState, Refilling
<1>7. ChainInv'
    BY <1>1, <1>4, <1>5, NoChain DEF Refilling, BatchOf, CountOf, ControlFn
<1>8. MarkProgress'
    BY <1>4, <1>5, <1>6 DEF MarkProgress, Refilling, CountOf
<1>9. RefillProgress'
    <2> SUFFICES ASSUME pc' # "abort", app'.exitCode = 0,
                        app'.numRefillsRunning > 0 \/ pc' = "refill",
                        NEW q \in Source
                 PROVE  Pending(q)' \/ Ready(src'[q])
        BY DEF RefillProgress
    <2>1. CASE q = s
        BY <1>3, <2>1
    <2>2. CASE q # s
        <3>1. Pending(q) \/ Ready(src[q])
            BY <1>1, <1>5, <1>6 DEF RefillProgress
        <3>2. Pending(q) => Pending(q)'
            BY <1>1, <1>2, <2>2, OthersPending
        <3> QED
            BY <1>3, <2>2, <3>1, <3>2
    <2> QED
        BY <2>1, <2>2
<1> QED
    BY <1>3, <1>7, <1>8, <1>9 DEF BufferInv

\* A thread at work is outstanding.
LEMMA BusyCounts ==
    ASSUME CtlTypeOK, NEW t \in Thread, job[t] # Idle
    PROVE  Outstanding \in Int /\ Outstanding >= 1
<1>1. /\ Len(poolQ) \in Nat /\ Len(envQ) \in Nat
      /\ IsFiniteSet(Busy) /\ Cardinality(Busy) \in Nat
    BY BusyIsFinite DEF CtlTypeOK
<1>2. t \in Busy
    BY DEF Busy
<1>3. Cardinality(Busy) # 0
    BY <1>1, <1>2, FS_EmptySet
<1> QED
    BY <1>1, <1>3 DEF Outstanding

\* A scan leaves its source scanned, and reports it.
LEMMA MarkBuffers ==
    ASSUME BatchInv, BatchInv', BufferInv, NEW t \in Thread, MarkLogEntryForSourceByArg(t)
    PROVE  BufferInv'
<1> DEFINE s == job[t].task.arg
           x == Mark(src[s])
<1>1. /\ CtlTypeOK /\ CtlTypeOK' /\ app \in AppState /\ DataInv /\ MarkProgress
      /\ src \in [Source -> SourceState] /\ job \in [Thread -> Job]
    BY DEF BatchInv, CtlTypeOK, BufferInv, DataInv
<1>2. TaskEnds(t, "markLogEntryForSourceByArg", "markLogEntryForSourceDone")
    BY MarkTaskEnds
<1>3. /\ job[t].at = "run" /\ job[t].task.fn = "markLogEntryForSourceByArg" /\ pc # "abort"
      /\ src' = [src EXCEPT ![s] = x]
      /\ job' = [job EXCEPT ![t] = [at |-> "post", task |-> Task("markLogEntryForSourceDone", s)]]
      /\ UNCHANGED <<pc, iter, envQ, poolQ, app, unread, lastMsg, stdout, faults>>
    BY DEF MarkLogEntryForSourceByArg, Runs, Report, loopVars
<1>4. s \in Source
    BY <1>1, <1>3, RunningTask DEF PoolFn
<1>5. Marking
    BY <1>3 DEF BatchInv, Refilling, BatchOf, Control, PoolQuiet, Idle
<1>6. app.numLogMarksRunning > 0
    <2>1. Outstanding \in Int /\ Outstanding >= 1
        BY <1>1, <1>3, BusyCounts DEF Idle
    <2>2. app.numLogMarksRunning \in Int /\ Outstanding <= app.numLogMarksRunning
        BY <1>1, <1>5 DEF AppState, Marking, CountOf
    <2> QED
        BY <2>1, <2>2
<1>7. \A q \in Source : /\ Ready(src[q])
                        /\ \/ Pending(q)
                           \/ /\ Scanned(src[q])
                              /\ Reporting(q) \/ (src[q].needMore => app.needMore)
    BY <1>1, <1>3, <1>6 DEF MarkProgress
<1>8. SourceOK(x) /\ Ready(x) /\ Scanned(x) /\ x \in SourceState
    <2>1. SourceOK(src[s]) /\ Ready(src[s])
        BY <1>1, <1>4, <1>7 DEF DataInv
    <2> QED
        BY <2>1, MarkOK DEF SourceOK, InBuffer
<1>9. job'[t].at = "post" /\ job'[t].task.arg = s
    BY <1>1, <1>3 DEF Task
<1> HIDE DEF x, s
<1>10. src'[s] = x /\ \A q \in Source : q # s => src'[q] = src[q]
    BY <1>1, <1>3, <1>4
<1>11. DataInv'
    BY <1>1, <1>3, <1>4, <1>8, <1>10 DEF DataInv
<1>12. ChainInv'
    BY <1>1, <1>3, <1>5, NoChain DEF Marking, BatchOf, CountOf, ControlFn
<1>13. RefillProgress'
    BY <1>3, <1>5 DEF RefillProgress, Marking, CountOf
<1>14. MarkProgress'
    <2> SUFFICES ASSUME NEW q \in Source
                 PROVE  /\ Ready(src'[q])
                        /\ \/ Pending(q)'
                           \/ /\ Scanned(src'[q])
                              /\ Reporting(q)' \/ (src'[q].needMore => app'.needMore)
        BY DEF MarkProgress
    <2>1. CASE q = s
        <3>1. Reporting(q)'
            BY <1>9, <2>1 DEF Reporting
        <3> QED
            BY <1>8, <1>10, <2>1, <3>1
    <2>2. CASE q # s
        <3>1. (Pending(q) => Pending(q)') /\ (Reporting(q) => Reporting(q)')
            BY <1>1, <1>2, <1>3, <2>2, OthersPending DEF s
        <3> QED
            BY <1>3, <1>7, <1>10, <2>2, <3>1
    <2> QED
        BY <2>1, <2>2
<1> QED
    BY <1>11, <1>12, <1>13, <1>14 DEF BufferInv

-----------------------------------------------------------------------------
(* The steps of the event loop.                                            *)

\* One more task for the pool: its source is pending still.
LEMMA TurnPending ==
    ASSUME CtlTypeOK, pc \in {"refill", "mark"}, iter \in Source, NEW pf \in PoolFn,
           poolQ' = Append(poolQ, Task(pf, iter)), iter' = iter + 1,
           pc' = (IF iter = NumSources THEN "idle" ELSE pc), job' = job,
           NEW s \in Source, Pending(s)
    PROVE  Pending(s)'
<1>1. /\ poolQ \in Seq(PoolTask) /\ Len(poolQ) \in Nat
      /\ iter \in Nat /\ s \in Nat /\ s <= NumSources /\ NumSources \in Nat
    BY LogMergeAssumption DEF CtlTypeOK, Source
<1>2. Task(pf, iter) \in PoolTask /\ Task(pf, iter).arg = iter
    BY DEF Task, PoolTask
<1>3. /\ Len(poolQ') = Len(poolQ) + 1
      /\ poolQ'[Len(poolQ) + 1].arg = iter
      /\ \A i \in 1..Len(poolQ) : poolQ'[i] = poolQ[i]
    BY <1>1, <1>2
<1>4. 1..Len(poolQ) \subseteq 1..Len(poolQ') /\ Len(poolQ) + 1 \in 1..Len(poolQ')
    BY <1>1, <1>3
<1>5. CASE s = iter
    BY <1>3, <1>4, <1>5 DEF Pending
<1>6. CASE iter < s
    <2>1. pc' = pc /\ iter' <= s
        BY <1>1, <1>6
    <2> QED
        BY <2>1 DEF Pending
<1>7. CASE s < iter
    <2>1. ~(iter <= s)
        BY <1>1, <1>7
    <2>2. CASE \E i \in 1..Len(poolQ) : poolQ[i].arg = s
        BY <1>3, <1>4, <2>2 DEF Pending
    <2>3. CASE \E t \in Thread : job[t].at = "run" /\ job[t].task.arg = s
        BY <2>3 DEF Pending
    <2> QED
        BY <2>1, <2>2, <2>3 DEF Pending
<1> QED
    BY <1>1, <1>5, <1>6, <1>7

\* A turn of refillSrcBuffers().
LEMMA RefillTurnBuffers ==
    ASSUME BatchInv, BatchInv', BufferInv, RefillSrcBuffersTurn
    PROVE  BufferInv'
<1>1. /\ CtlTypeOK /\ CtlTypeOK' /\ app \in AppState
      /\ DataInv /\ RefillProgress
    BY DEF BatchInv, CtlTypeOK, BufferInv
<1>2. /\ pc = "refill" /\ iter \in Source
      /\ poolQ' = Append(poolQ, Task("refillBufferForSourceByArg", iter))
      /\ app' = [app EXCEPT !.numRefillsRunning = @ + 1]
      /\ iter' = iter + 1
      /\ pc' = IF iter = NumSources THEN "idle" ELSE pc
      /\ UNCHANGED <<envQ, job, dataVars, faults>>
    BY DEF RefillSrcBuffersTurn, PoolEnque
<1>3. Refilling
    BY <1>2 DEF BatchInv, Marking, CountOf, Control
<1>4. app'.exitCode = app.exitCode /\ app'.numLogMarksRunning = 0
    BY <1>1, <1>2, <1>3 DEF AppState, Refilling
<1>5. DataInv' /\ src' = src
    BY <1>1, <1>2, DataUntouched DEF DataInv, dataVars
<1>6. ChainInv'
    BY <1>1, <1>2, <1>3, NoChain DEF Refilling, BatchOf, ControlFn
<1>7. MarkProgress'
    BY <1>2, <1>4 DEF MarkProgress
<1>8. RefillProgress'
    <2> SUFFICES ASSUME app'.exitCode = 0, NEW s \in Source
                 PROVE  Pending(s)' \/ Ready(src'[s])
        BY DEF RefillProgress
    <2>1. Pending(s) \/ Ready(src[s])
        BY <1>1, <1>2, <1>4 DEF RefillProgress
    <2>2. Pending(s) => Pending(s)'
        BY <1>1, <1>2, TurnPending DEF PoolFn
    <2> QED
        BY <1>5, <2>1, <2>2
<1> QED
    BY <1>5, <1>6, <1>7, <1>8 DEF BufferInv

\* A turn of markLogEntriesForeachSource().
LEMMA MarkTurnBuffers ==
    ASSUME BatchInv, BatchInv', BufferInv, MarkLogEntriesTurn
    PROVE  BufferInv'
<1>1. /\ CtlTypeOK /\ CtlTypeOK' /\ app \in AppState
      /\ DataInv /\ MarkProgress
    BY DEF BatchInv, CtlTypeOK, BufferInv
<1>2. /\ pc = "mark" /\ iter \in Source
      /\ poolQ' = Append(poolQ, Task("markLogEntryForSourceByArg", iter))
      /\ app' = [app EXCEPT !.numLogMarksRunning = @ + 1]
      /\ iter' = iter + 1
      /\ pc' = IF iter = NumSources THEN "idle" ELSE pc
      /\ UNCHANGED <<envQ, job, dataVars, faults>>
    BY DEF MarkLogEntriesTurn, PoolEnque
<1>3. Marking
    BY <1>2 DEF BatchInv, Refilling, CountOf, Control
<1>4. app'.needMore = app.needMore /\ app'.numRefillsRunning = 0
    BY <1>1, <1>2, <1>3 DEF AppState, Marking
<1>5. DataInv' /\ src' = src
    BY <1>1, <1>2, DataUntouched DEF DataInv, dataVars
<1>6. ChainInv'
    BY <1>1, <1>2, <1>3, NoChain DEF Marking, BatchOf, ControlFn
<1>7. RefillProgress'
    BY <1>2, <1>4 DEF RefillProgress
<1>8. MarkProgress'
    <2> SUFFICES ASSUME NEW s \in Source
                 PROVE  /\ Ready(src'[s])
                        /\ \/ Pending(s)'
                           \/ /\ Scanned(src'[s])
                              /\ Reporting(s)' \/ (src'[s].needMore => app'.needMore)
        BY DEF MarkProgress
    <2>1. /\ Ready(src[s])
          /\ \/ Pending(s)
             \/ /\ Scanned(src[s])
                /\ Reporting(s) \/ (src[s].needMore => app.needMore)
        BY <1>1, <1>2 DEF MarkProgress
    <2>2. Pending(s) => Pending(s)'
        BY <1>1, <1>2, TurnPending DEF PoolFn
    <2>3. Reporting(s) => Reporting(s)'
        BY <1>2 DEF Reporting
    <2> QED
        BY <1>4, <1>5, <2>1, <2>2, <2>3
<1> QED
    BY <1>5, <1>6, <1>7, <1>8 DEF BufferInv

\* The next handler of the chain moves from the event loop's hand to its queue.
LEMMA LoopEnqueBuffers ==
    ASSUME BatchInv, BatchInv', BufferInv, LoopEnque
    PROVE  BufferInv'
<1>1. /\ CtlTypeOK /\ DataInv /\ ChainInv
    BY DEF BatchInv, BufferInv
<1>2. /\ pc = "enq" /\ pc' = "idle" /\ envQ' = Append(envQ, pend)
      /\ UNCHANGED <<app, dataVars, faults>>
    BY DEF LoopEnque
<1>3. Control
    BY <1>2 DEF BatchInv, Refilling, Marking, CountOf
<1>4. envQ = <<>> /\ app.numRefillsRunning = 0 /\ app.numLogMarksRunning = 0
    BY <1>2, <1>3 DEF Control
<1>5. Head(envQ') = pend
    BY <1>2, <1>4
<1>6. \A f : Queued(f)' => Queued(f)
    BY <1>2, <1>5 DEF Queued
<1>7. DataInv' /\ src' = src
    BY <1>1, <1>2, DataUntouched DEF DataInv, dataVars
<1>8. ChainInv'
    BY <1>1, <1>2, <1>6, <1>7 DEF ChainInv
<1>9. RefillProgress' /\ MarkProgress'
    BY <1>2, <1>4, NoBatch
<1> QED
    BY <1>7, <1>8, <1>9 DEF BufferInv

\* A handler of the chain starts: it was queued, and nothing else is.
LEMMA HandlerStarts ==
    ASSUME BatchInv, BatchInv', BufferInv, NEW f \in ControlFn, Dispatch(f)
    PROVE  /\ CtlTypeOK /\ CtlTypeOK' /\ app \in AppState
           /\ DataInv /\ ChainInv /\ Queued(f)
           /\ pc = "idle" /\ envQ' = <<>>
           /\ app.numRefillsRunning = 0 /\ app.numLogMarksRunning = 0
<1>1. Control /\ pc = "idle" /\ envQ' = <<>>
    BY DispatchControl
<1>2. Queued(f)
    BY DEF Dispatch, Queued
<1> QED
    BY <1>1, <1>2 DEF BatchInv, BufferInv, CtlTypeOK, Control

\* A source that was just opened.
LEMMA OpenedOK ==
    ASSUME NEW c \in Nat
    PROVE  SourceOK([FreshSource EXCEPT !.cap = c])
<1> DEFINE r == [FreshSource EXCEPT !.cap = c]
<1>1. <<>> \in Text /\ Len(<<>>) = 0
    BY DEF Text
<1>2. /\ FreshSource \in SourceState
      /\ FreshSource.beg = 0 /\ FreshSource.end = 0 /\ FreshSource.buf = <<>>
      /\ FreshSource.logBeg = 0 /\ FreshSource.logEnd = 0 /\ FreshSource.needMore = FALSE
    BY <1>1 DEF FreshSource, SourceState
<1>3. r = [FreshSource EXCEPT !.cap = c]
    OBVIOUS
<1> HIDE DEF r
<1>4. /\ r \in SourceState
      /\ r.cap = c /\ r.beg = 0 /\ r.end = 0 /\ r.logBeg = 0 /\ r.logEnd = 0
      /\ r.buf = <<>> /\ r.needMore = FALSE
    BY <1>2, <1>3 DEF SourceState
<1>5. InBuffer(r)
    BY <1>1, <1>4 DEF InBuffer
<1>6. SourceOK(r)
    BY <1>4, <1>5 DEF SourceOK
<1> QED
    BY <1>6 DEF r

\* The pattern is compiled and the pool is started; the sources are untouched.
LEMMA InitStuffBuffers ==
    ASSUME BatchInv, BatchInv', BufferInv, InitStuff
    PROVE  BufferInv'
<1>1. /\ CtlTypeOK' /\ app \in AppState /\ DataInv /\ ChainInv /\ Queued("initStuff")
      /\ envQ' = <<>> /\ app.numRefillsRunning = 0 /\ app.numLogMarksRunning = 0
    BY HandlerStarts DEF InitStuff, ControlFn, EnvFn
<1>2. /\ \/ pc' = "enq" /\ pend' = Task("openSrcFiles", 0)
         \/ pc' = "idle"
      /\ faults' = faults \/ Fault
      /\ UNCHANGED dataVars
    BY DEF InitStuff, Post, Return
<1>3. app'.numRefillsRunning = 0 /\ app'.numLogMarksRunning = 0
    BY <1>1 DEF InitStuff, AppState
<1>4. DataInv' /\ src' = src
    <2>1. faults' \in 0..MaxFaults
        BY <1>1, <1>2, FaultOK DEF DataInv
    <2> QED
        BY <1>1, <1>2, <2>1, DataUntouched DEF dataVars
<1>5. ChainInv'
    <2>1. \A f : Queued(f)' => f = "openSrcFiles"
        BY <1>1, <1>2 DEF Queued, Task
    <2>2. \A s \in Source : src'[s] = FreshSource
        BY <1>1, <1>4 DEF ChainInv
    <2>3. pc' # "find"
        BY <1>2
    <2> QED
        BY <2>1, <2>2, <2>3 DEF ChainInv
<1>6. RefillProgress' /\ MarkProgress'
    BY <1>2, <1>3, NoBatch
<1> QED
    BY <1>4, <1>5, <1>6 DEF BufferInv

\* All files are opened, or those before the first that could not be.
LEMMA OpenSrcFilesBuffers ==
    ASSUME BatchInv, BatchInv', BufferInv, OpenSrcFiles
    PROVE  BufferInv'
<1>1. /\ CtlTypeOK' /\ app \in AppState /\ DataInv /\ ChainInv /\ Queued("openSrcFiles")
      /\ envQ' = <<>> /\ app.numRefillsRunning = 0 /\ app.numLogMarksRunning = 0
    BY HandlerStarts DEF OpenSrcFiles, ControlFn, EnvFn
<1>2. \A s \in Source : src[s] = FreshSource
    BY <1>1 DEF ChainInv
<1>3. /\ src' = [s \in Source |-> src'[s]]
      /\ \A s \in Source : \E c \in Nat : src'[s] = [FreshSource EXCEPT !.cap = c]
    <2>1. CASE src' = [s \in Source |-> [src[s] EXCEPT !.cap = InitCap]]
        BY <1>2, <2>1, LogMergeAssumption
    <2>2. CASE \E s \in Source :
                   src' = [q \in Source |->
                              [src[q] EXCEPT !.cap = IF q < s THEN InitCap ELSE @]]
        <3>1. PICK s \in Source :
                  src' = [q \in Source |->
                              [src[q] EXCEPT !.cap = IF q < s THEN InitCap ELSE @]]
            BY <2>2
        <3>2. FreshSource.cap = 0
            BY DEF FreshSource
        <3>3. ASSUME NEW q \in Source
              PROVE  \E c \in Nat : src'[q] = [FreshSource EXCEPT !.cap = c]
            <4> DEFINE c == IF q < s THEN InitCap ELSE FreshSource.cap
            <4>1. c \in Nat
                BY <3>2, LogMergeAssumption
            <4>2. src'[q] = [FreshSource EXCEPT !.cap = c]
                BY <1>2, <3>1
            <4> QED
                BY <4>1, <4>2
        <3> QED
            BY <3>1, <3>3
    <2> QED
        BY <2>1, <2>2 DEF OpenSrcFiles
<1>4. \A s \in Source : SourceOK(src'[s]) /\ src'[s] \in SourceState
    <2>1. \A s \in Source : SourceOK(src'[s])
        BY <1>3, OpenedOK
    <2> QED
        BY <2>1 DEF SourceOK, InBuffer
<1>5. DataInv'
    <2>1. faults' = faults \/ Fault
        BY DEF OpenSrcFiles
    <2>2. faults' \in 0..MaxFaults
        BY <1>1, <2>1, FaultOK DEF DataInv
    <2>3. src' \in [Source -> SourceState]
        BY <1>3, <1>4
    <2> QED
        BY <1>1, <1>4, <2>2, <2>3 DEF DataInv, OpenSrcFiles
<1>6. /\ app'.numRefillsRunning = 0 /\ app'.numLogMarksRunning = 0
      /\ \/ pc' = "refill" /\ iter' = 1
         \/ pc' = "idle"
    BY <1>1 DEF OpenSrcFiles, AppState, CallRefillSrcBuffers, StartLoop, Return
<1> QED
    BY <1>1, <1>5, <1>6, StartsRefilling, ComesToNothing DEF BufferInv

\* refillSrcBuffers() as a task of its own.
LEMMA RefillSrcBuffersBuffers ==
    ASSUME BatchInv, BatchInv', BufferInv, RefillSrcBuffers
    PROVE  BufferInv'
<1>1. /\ CtlTypeOK' /\ DataInv
      /\ envQ' = <<>> /\ app.numRefillsRunning = 0 /\ app.numLogMarksRunning = 0
    BY HandlerStarts DEF RefillSrcBuffers, ControlFn, EnvFn
<1>2. /\ \/ pc' = "refill" /\ iter' = 1
         \/ pc' = "idle"
      /\ UNCHANGED <<app, dataVars, faults>>
    BY DEF RefillSrcBuffers, CallRefillSrcBuffers, StartLoop, Return
<1>3. DataInv'
    BY <1>1, <1>2, DataUntouched DEF DataInv
<1> QED
    BY <1>1, <1>2, <1>3, StartsRefilling, ComesToNothing DEF BufferInv

\* The scans start with every source ready.
LEMMA MarkLogEntriesBuffers ==
    ASSUME BatchInv, BatchInv', BufferInv, MarkLogEntriesForeachSource
    PROVE  BufferInv'
<1>1. /\ CtlTypeOK' /\ DataInv /\ ChainInv /\ Queued("markLogEntriesForeachSource")
      /\ envQ' = <<>> /\ app.numRefillsRunning = 0 /\ app.numLogMarksRunning = 0
    BY HandlerStarts DEF MarkLogEntriesForeachSource, ControlFn, EnvFn
<1>2. /\ \/ pc' = "mark" /\ iter' = 1
         \/ pc' = "abort"
      /\ UNCHANGED <<app, dataVars, faults>>
    BY DEF MarkLogEntriesForeachSource, AssertThat, StartLoop
<1>3. DataInv' /\ src' = src
    BY <1>1, <1>2, DataUntouched DEF DataInv, dataVars
<1>4. CASE pc' = "abort"
    BY <1>1, <1>3, <1>4, ComesToNothing DEF BufferInv
<1>5. CASE pc' = "mark" /\ iter' = 1
    <2>1. \A s \in Source : Ready(src'[s]) /\ Pending(s)'
        BY <1>1, <1>3, <1>5 DEF ChainInv, Pending, Source
    <2>2. ChainInv'
        BY <1>1, <1>5, NoChain
    <2>3. RefillProgress' /\ MarkProgress'
        BY <1>1, <1>2, <1>5, <2>1 DEF RefillProgress, MarkProgress
    <2> QED
        BY <1>3, <2>2, <2>3 DEF BufferInv
<1> QED
    BY <1>2, <1>4, <1>5

\* A completion of a batch is handled; if it was the last one, nothing is left.
LEMMA DoneStarts ==
    ASSUME BatchInv, BatchInv', NEW pf, NEW df, BatchOf(pf, df),
           df \in {"onOneRefillDone", "markLogEntryForSourceDone"}, Dispatch(df),
           pc' \in {"idle", "enq"}, UNCHANGED <<poolQ, job>>
    PROVE  /\ pc = "idle" /\ envQ # <<>>
           /\ Outstanding \in Int /\ Outstanding >= 1
           /\ pc' = "idle" => ChainInv'
           /\ Outstanding <= 1 => PoolQuiet /\ envQ' = <<>>
           /\ \A s \in Source : Pending(s) <=> Pending(s)'
<1>1. CtlTypeOK /\ CtlTypeOK' /\ DistinctSources
    BY DEF BatchInv
<1>2. BatchOf(pf, df)' /\ Outstanding \in Int /\ Outstanding >= 1
    BY <1>1, CompletionHandled
<1>3. pc = "idle" /\ envQ # <<>> /\ envQ' = Tail(envQ)
    BY DEF Dispatch
<1>4. pc' = "idle" => ChainInv'
    BY <1>1, <1>2, NoChain DEF BatchOf, ControlFn
<1>5. Outstanding <= 1 => PoolQuiet /\ envQ' = <<>>
    BY <1>1, <1>3, LastCompletion
<1>6. \A s \in Source : Pending(s) <=> Pending(s)'
    BY <1>3 DEF Pending
<1> QED
    BY <1>2, <1>3, <1>4, <1>5, <1>6

\* With a quiet pool and no loop running, no source is pending or reported by a thread.
LEMMA QuietMeansDone ==
    ASSUME PoolQuiet, pc = "idle", NEW s \in Source
    PROVE  ~Pending(s) /\ \A t \in Thread : job[t].at # "post"
BY DEF PoolQuiet, Pending, Idle

\* The last refill that is reported leaves every source ready to be scanned.
LEMMA OnOneRefillDoneBuffers ==
    ASSUME BatchInv, BatchInv', BufferInv, OnOneRefillDone
    PROVE  BufferInv'
<1>1. /\ CtlTypeOK /\ CtlTypeOK' /\ app \in AppState /\ DataInv /\ RefillProgress
    BY DEF BatchInv, CtlTypeOK, BufferInv
<1>2. /\ Dispatch("onOneRefillDone") /\ envQ # <<>> /\ Head(envQ).fn = "onOneRefillDone"
      /\ app' = [app EXCEPT !.numRefillsRunning = @ - 1]
      /\ UNCHANGED <<poolQ, job, dataVars, faults>>
    BY DEF OnOneRefillDone, Dispatch, poolVars
<1>3. Refilling
    <2>1. 1 \in 1..Len(envQ) /\ envQ[1].fn = "onOneRefillDone"
        BY <1>1, <1>2, EnvQueueFacts
    <2> QED
        BY <2>1 DEF BatchInv, Marking, Control, BatchOf, ControlFn
<1>4. \/ pc' = "idle"
      \/ /\ pc' = "enq" /\ pend' = Task("markLogEntriesForeachSource", 0)
         /\ ~(app.numRefillsRunning - 1 > 0) /\ app.exitCode = 0
    BY DEF OnOneRefillDone, ReturnsEarly, OthersRunning, Return, Post
<1>5. /\ pc = "idle" /\ Outstanding \in Int /\ Outstanding >= 1
      /\ pc' = "idle" => ChainInv'
      /\ Outstanding <= 1 => PoolQuiet /\ envQ' = <<>>
      /\ \A s \in Source : Pending(s) <=> Pending(s)'
    BY <1>2, <1>3, <1>4, DoneStarts DEF Refilling
<1>6. /\ app'.numRefillsRunning = app.numRefillsRunning - 1
      /\ app'.numLogMarksRunning = 0 /\ app'.exitCode = app.exitCode
      /\ app.numRefillsRunning \in Int /\ Outstanding <= app.numRefillsRunning
    BY <1>1, <1>2, <1>3 DEF AppState, Refilling, CountOf
<1>7. DataInv' /\ src' = src
    BY <1>1, <1>2, DataUntouched DEF DataInv, dataVars
<1>8. app.exitCode = 0 => \A s \in Source : Pending(s) \/ Ready(src[s])
    <2>1. app.numRefillsRunning > 0
        BY <1>5, <1>6
    <2> QED
        BY <1>1, <1>5, <2>1 DEF RefillProgress
<1>9. CASE pc' = "idle"
    <2>1. RefillProgress'
        BY <1>5, <1>6, <1>7, <1>8 DEF RefillProgress
    <2>2. MarkProgress'
        BY <1>6, <1>9 DEF MarkProgress
    <2> QED
        BY <1>5, <1>7, <1>9, <2>1, <2>2 DEF BufferInv
<1>10. CASE pc' = "enq"
    <2>1. /\ app.exitCode = 0 /\ Outstanding <= 1 /\ app'.numRefillsRunning = 0
          /\ pend' = Task("markLogEntriesForeachSource", 0)
        BY <1>4, <1>5, <1>6, <1>10
    <2>2. \A s \in Source : Ready(src'[s])
        BY <1>5, <1>7, <1>8, <2>1, QuietMeansDone
    <2>3. \A f : Queued(f)' => f = "markLogEntriesForeachSource"
        BY <1>5, <2>1 DEF Queued, Task
    <2>4. ChainInv'
        BY <1>10, <2>2, <2>3 DEF ChainInv
    <2>5. RefillProgress' /\ MarkProgress'
        BY <1>6, <1>10, <2>1, NoBatch
    <2> QED
        BY <1>7, <2>4, <2>5 DEF BufferInv
<1> QED
    BY <1>4, <1>9, <1>10

\* The last scan that is reported: unless a source needs more, every source has an
\* entry or has come to its end.
LEMMA MarkDoneBuffers ==
    ASSUME BatchInv, BatchInv', BufferInv, MarkLogEntryForSourceDone
    PROVE  BufferInv'
<1> DEFINE md == "markLogEntryForSourceDone"
           h == Head(envQ).arg
           more == app.needMore \/ src[h].needMore
<1>1. /\ CtlTypeOK /\ CtlTypeOK' /\ app \in AppState /\ DataInv /\ MarkProgress
    BY DEF BatchInv, CtlTypeOK, BufferInv
<1>2. /\ Dispatch(md) /\ envQ # <<>> /\ Head(envQ).fn = md /\ envQ' = Tail(envQ)
      /\ UNCHANGED <<poolQ, job, dataVars, faults>>
    BY DEF MarkLogEntryForSourceDone, Dispatch, poolVars
<1>3. Marking
    <2>1. 1 \in 1..Len(envQ) /\ envQ[1].fn = md
        BY <1>1, <1>2, EnvQueueFacts
    <2> QED
        BY <2>1 DEF BatchInv, Refilling, Control, BatchOf, ControlFn
<1>4. \/ /\ pc' = "idle"
         /\ app' = [app EXCEPT !.numLogMarksRunning = app.numLogMarksRunning - 1,
                               !.needMore = more]
      \/ /\ pc' = "enq" /\ ~(app.numLogMarksRunning - 1 > 0)
         /\ app' = [app EXCEPT !.numLogMarksRunning = app.numLogMarksRunning - 1,
                               !.needMore = FALSE]
         /\ pend' = Task(IF more THEN "refillSrcBuffers"
                                 ELSE "findOldestLogEntryFromAllHeads", 0)
    <2>1. CASE ReturnsEarly(app.numLogMarksRunning - 1)
        BY <2>1 DEF MarkLogEntryForSourceDone, Return
    <2>2. CASE ~ReturnsEarly(app.numLogMarksRunning - 1)
        <3>1. app' = NeedMoreHandled([app EXCEPT !.numLogMarksRunning = app.numLogMarksRunning - 1,
                                                 !.needMore = more])
            BY <2>2 DEF MarkLogEntryForSourceDone
        <3> DEFINE a == [app EXCEPT !.numLogMarksRunning = app.numLogMarksRunning - 1,
                                    !.needMore = more]
        <3>2. NeedMoreHandled(a) = [app EXCEPT !.numLogMarksRunning = app.numLogMarksRunning - 1,
                                               !.needMore = FALSE]
            BY <1>1 DEF NeedMoreHandled, AppState
        <3> QED
            BY <2>2, <3>1, <3>2 DEF MarkLogEntryForSourceDone, Post, ReturnsEarly, OthersRunning
    <2> QED
        BY <2>1, <2>2
<1>5. /\ pc = "idle" /\ Outstanding \in Int /\ Outstanding >= 1
      /\ pc' = "idle" => ChainInv'
      /\ Outstanding <= 1 => PoolQuiet /\ envQ' = <<>>
      /\ \A s \in Source : Pending(s) <=> Pending(s)'
    BY <1>2, <1>3, <1>4, DoneStarts DEF Marking
<1>6. /\ app'.numLogMarksRunning = app.numLogMarksRunning - 1
      /\ app'.numRefillsRunning = 0
      /\ pc' = "idle" => app'.needMore = more
      /\ app.numLogMarksRunning \in Int /\ Outstanding <= app.numLogMarksRunning
    <2> HIDE DEF more
    <2> QED
        BY <1>1, <1>3, <1>4 DEF AppState, Marking, CountOf
<1>7. DataInv' /\ src' = src
    BY <1>1, <1>2, DataUntouched DEF DataInv, dataVars
<1>8. \A s \in Source : /\ Ready(src[s])
                        /\ \/ Pending(s)
                           \/ /\ Scanned(src[s])
                              /\ Reporting(s) \/ (src[s].needMore => app.needMore)
    <2>1. app.numLogMarksRunning > 0
        BY <1>5, <1>6
    <2> QED
        BY <1>1, <1>5, <2>1 DEF MarkProgress
\* A report is the one being handled, or it is still there.
<1>9. ASSUME NEW s \in Source, Reporting(s)
      PROVE  s = h \/ Reporting(s)'
    <2>1. CASE \E t \in Thread : job[t].at = "post" /\ job[t].task.arg = s
        BY <1>2, <2>1 DEF Reporting
    <2>2. CASE \E i \in 1..Len(envQ) : envQ[i].arg = s
        <3>1. PICK i \in 1..Len(envQ) : envQ[i].arg = s
            BY <2>2
        <3>2. CASE i = 1
            BY <1>1, <1>2, <3>1, <3>2, EnvQueueFacts
        <3>3. CASE i # 1
            <4>1. i - 1 \in 1..Len(envQ') /\ envQ'[i - 1] = envQ[i]
                BY <1>1, <1>2, <3>3, EnvQueueFacts
            <4> QED
                BY <3>1, <4>1 DEF Reporting
        <3> QED
            BY <3>2, <3>3
    <2> QED
        BY <1>9, <2>1, <2>2 DEF Reporting
<1> HIDE DEF h
<1>10. CASE pc' = "idle"
    <2>1. MarkProgress'
        <3> SUFFICES ASSUME NEW s \in Source
                     PROVE  /\ Ready(src'[s])
                            /\ \/ Pending(s)'
                               \/ /\ Scanned(src'[s])
                                  /\ Reporting(s)' \/ (src'[s].needMore => app'.needMore)
            BY DEF MarkProgress
        <3> QED
            BY <1>5, <1>6, <1>7, <1>8, <1>9, <1>10
    <2>2. RefillProgress'
        BY <1>6, <1>10 DEF RefillProgress
    <2> QED
        BY <1>5, <1>7, <1>10, <2>1, <2>2 DEF BufferInv
<1>11. CASE pc' = "enq"
    <2>1. /\ Outstanding <= 1 /\ app'.numLogMarksRunning = 0
          /\ pend' = Task(IF more THEN "refillSrcBuffers"
                                  ELSE "findOldestLogEntryFromAllHeads", 0)
        BY <1>4, <1>5, <1>6, <1>11
    <2>2. PoolQuiet /\ envQ' = <<>>
        BY <1>5, <2>1
    <2>3. \A f : Queued(f)' => \/ f = "refillSrcBuffers"
                               \/ ~more /\ f = "findOldestLogEntryFromAllHeads"
        BY <2>1, <2>2 DEF Queued, Task
    <2>4. ASSUME ~more, NEW s \in Source
          PROVE  ~src[s].needMore /\ (src[s].noMore \/ Found(src[s]))
        <3>1. ~Pending(s)
            BY <1>5, <2>2, QuietMeansDone
        <3>2. ~Reporting(s)'
            <4>1. \A t \in Thread : job[t].at # "post"
                BY <1>5, <2>2, QuietMeansDone
            <4>2. 1..Len(envQ') = {}
                BY <2>2
            <4> QED
                BY <1>2, <4>1, <4>2 DEF Reporting
        <3>3. ~src[s].needMore
            BY <1>8, <1>9, <2>4, <3>1, <3>2
        <3> QED
            BY <1>8, <3>1, <3>3 DEF Scanned
    <2>5. ChainInv'
        BY <1>7, <1>11, <2>3, <2>4 DEF ChainInv
    <2>6. RefillProgress' /\ MarkProgress'
        BY <1>6, <1>11, <2>1, NoBatch
    <2> QED
        BY <1>7, <2>5, <2>6 DEF BufferInv
<1> QED
    BY <1>4, <1>10, <1>11

\* The search for the oldest entry begins with a source that has one ...
LEMMA FindOldestBuffers ==
    ASSUME BatchInv, BatchInv', BufferInv, FindOldestLogEntryFromAllHeads
    PROVE  BufferInv'
<1> DEFINE open == {s \in Source : ~src[s].noMore}
<1>1. /\ CtlTypeOK' /\ app \in AppState /\ DataInv /\ ChainInv
      /\ Queued("findOldestLogEntryFromAllHeads")
      /\ envQ' = <<>> /\ app.numRefillsRunning = 0 /\ app.numLogMarksRunning = 0
    BY HandlerStarts DEF FindOldestLogEntryFromAllHeads, ControlFn, EnvFn
<1>2. /\ \/ pc' = "idle" /\ app' = [app EXCEPT !.exitCode = 0]
         \/ open # {} /\ pc' = "find" /\ app' = [app EXCEPT !.lowest = First(open)]
      /\ UNCHANGED <<dataVars, faults>>
    BY DEF FindOldestLogEntryFromAllHeads, Return
<1>3. app'.numRefillsRunning = 0 /\ app'.numLogMarksRunning = 0
    BY <1>1, <1>2 DEF AppState
<1>4. DataInv' /\ src' = src
    BY <1>1, <1>2, DataUntouched DEF DataInv, dataVars
<1>5. CASE pc' = "idle"
    BY <1>1, <1>3, <1>4, <1>5, ComesToNothing DEF BufferInv
<1>6. CASE pc' = "find"
    <2>1. open # {} /\ app' = [app EXCEPT !.lowest = First(open)]
        BY <1>2, <1>6
    <2>2. First(open) \in open
        <3>1. open \in SUBSET Nat
            BY DEF Source
        <3> HIDE DEF open
        <3> QED
            BY <2>1, <3>1, FirstIsLeast
    <2>3. app'.lowest = First(open)
        BY <1>1, <2>1 DEF AppState
    <2>4. app'.lowest \in Source /\ ~src'[app'.lowest].noMore
        BY <1>4, <2>2, <2>3
    <2>5. \A s \in Source : ~src'[s].needMore /\ (src'[s].noMore \/ Found(src'[s]))
        BY <1>1, <1>4 DEF ChainInv
    <2>6. \A f : ~Queued(f)'
        BY <1>1, <1>6 DEF Queued
    <2>7. ChainInv'
        BY <2>4, <2>5, <2>6 DEF ChainInv
    <2>8. RefillProgress' /\ MarkProgress'
        BY <1>3, <1>6, NoBatch
    <2> QED
        BY <1>4, <2>7, <2>8 DEF BufferInv
<1> QED
    BY <1>2, <1>5, <1>6

\* ... and goes on to others that have one.
LEMMA FindTurnBuffers ==
    ASSUME BatchInv, BatchInv', BufferInv, FindOldestTurn \/ FindOldestEnd
    PROVE  BufferInv'
<1>1. /\ CtlTypeOK' /\ app \in AppState /\ DataInv /\ ChainInv
    BY DEF BatchInv, CtlTypeOK, BufferInv
<1>2. /\ pc = "find"
      /\ \/ pc' = "find"
         \/ pc' = "enq" /\ pend' = Task("writeLowestEntryToDst", 0)
      /\ \/ app' = app
         \/ iter \in Source /\ ~src[iter].noMore /\ app' = [app EXCEPT !.lowest = iter]
      /\ UNCHANGED <<envQ, dataVars, faults>>
    BY DEF FindOldestTurn, FindOldestEnd, Post
<1>3. /\ envQ' = <<>> /\ app.numRefillsRunning = 0 /\ app.numLogMarksRunning = 0
    BY <1>2 DEF BatchInv, Refilling, Marking, CountOf, Control
<1>4. DataInv' /\ src' = src
    BY <1>1, <1>2, DataUntouched DEF DataInv, dataVars
<1>5. /\ app'.numRefillsRunning = 0 /\ app'.numLogMarksRunning = 0
      /\ app'.lowest = app.lowest \/ (app'.lowest = iter /\ iter \in Source /\ ~src[iter].noMore)
    BY <1>1, <1>2, <1>3 DEF AppState
<1>6. app'.lowest \in Source /\ ~src'[app'.lowest].noMore
    BY <1>1, <1>2, <1>4, <1>5 DEF ChainInv
<1>7. \A s \in Source : ~src'[s].needMore /\ (src'[s].noMore \/ Found(src'[s]))
    BY <1>1, <1>2, <1>4 DEF ChainInv
<1>8. \A f : Queued(f)' => f = "writeLowestEntryToDst"
    BY <1>2, <1>3 DEF Queued, Task
<1>9. ChainInv'
    BY <1>6, <1>7, <1>8 DEF ChainInv
<1>10. RefillProgress' /\ MarkProgress'
    BY <1>2, <1>5, NoBatch
<1> QED
    BY <1>4, <1>9, <1>10 DEF BufferInv

\* The entry that is written lies within its buffer, in the order asserted.
LEMMA WriteLowestData ==
    ASSUME BatchInv, BatchInv', BufferInv, WriteLowestEntryToDst
    PROVE  DataInv' /\ pc' # "abort"
<1> DEFINE l == app.lowest
           e == LogEntry(src[l])
<1>1. DataInv /\ ChainInv /\ pc = "idle" /\ Queued("writeLowestEntryToDst")
    BY HandlerStarts DEF WriteLowestEntryToDst, ControlFn, EnvFn
<1>2. /\ l \in Source /\ SourceOK(src[l]) /\ Found(src[l]) /\ ~src[l].needMore
      /\ src \in [Source -> SourceState] /\ lastMsg \in Text /\ stdout \in Seq(Text)
    BY <1>1 DEF ChainInv, DataInv
<1>3. SourceOK(Consumed(src[l])) /\ e \in Text
    BY <1>2, ConsumedOK
<1>4. src[l].logBeg <= src[l].logEnd
    <2>1. src[l].logBeg \in Nat /\ src[l].logEnd \in Nat /\ src[l].logBeg < src[l].logEnd
        BY <1>2, InBufferFacts DEF SourceOK, Found
    <2> QED
        BY <2>1
<1>5. pc' # "abort"
    BY <1>1, <1>4 DEF WriteLowestEntryToDst, CallRefillSrcBuffers, StartLoop, Return, GiveUp
<1>6. /\ src' \in {src, [src EXCEPT ![l] = Consumed(src[l])]}
      /\ lastMsg' \in {lastMsg, e}
      /\ stdout' \in {stdout, Append(stdout, e)}
      /\ faults' = faults \/ Fault
      /\ unread' = unread
    BY <1>4 DEF WriteLowestEntryToDst
<1> HIDE DEF e, l
<1>7. Consumed(src[l]) \in SourceState
    BY <1>3 DEF SourceOK, InBuffer
<1>8. src' \in [Source -> SourceState] /\ \A s \in Source : SourceOK(src'[s])
    BY <1>1, <1>2, <1>3, <1>6, <1>7 DEF DataInv
<1>9. faults' \in 0..MaxFaults
    BY <1>1, <1>6, FaultOK DEF DataInv
<1>10. lastMsg' \in Text /\ stdout' \in Seq(Text)
    BY <1>2, <1>3, <1>6
<1> QED
    BY <1>1, <1>5, <1>6, <1>8, <1>9, <1>10 DEF DataInv

\* After an entry was written the refills start again, or the tool gives up.
LEMMA WriteLowestBuffers ==
    ASSUME BatchInv, BatchInv', BufferInv, WriteLowestEntryToDst
    PROVE  BufferInv'
<1>1. /\ CtlTypeOK' /\ app \in AppState
      /\ envQ' = <<>> /\ app.numRefillsRunning = 0 /\ app.numLogMarksRunning = 0
    BY HandlerStarts DEF WriteLowestEntryToDst, ControlFn, EnvFn
<1>2. /\ \/ pc' = "refill" /\ iter' = 1
         \/ pc' = "idle"
         \/ pc' = "abort"
      /\ app' \in {app, [app EXCEPT !.exitCode = -1]}
    BY DEF WriteLowestEntryToDst, CallRefillSrcBuffers, StartLoop, Return, GiveUp, AssertThat
<1>3. app'.numRefillsRunning = 0 /\ app'.numLogMarksRunning = 0
    BY <1>1, <1>2 DEF AppState
<1>4. DataInv'
    BY WriteLowestData
<1> QED
    BY <1>1, <1>2, <1>3, <1>4, StartsRefilling, ComesToNothing DEF BufferInv

\* main() after the event loop.
LEMMA EndBuffers ==
    ASSUME BatchInv, BatchInv', BufferInv, RunUntilDoneReturns \/ JoinBlocking
    PROVE  BufferInv'
<1>1. CtlTypeOK' /\ DataInv
    BY DEF BatchInv, BufferInv
<1>2. pc' \in {"join", "abort", "done"} /\ UNCHANGED <<envQ, app, dataVars, faults>>
    BY DEF RunUntilDoneReturns, JoinBlocking
<1>3. envQ' = <<>>
    <2>1. CASE RunUntilDoneReturns
        BY <2>1 DEF RunUntilDoneReturns
    <2>2. CASE JoinBlocking
        BY <2>2 DEF JoinBlocking, BatchInv, Refilling, Marking, CountOf, Control
    <2> QED
        BY <2>1, <2>2
<1>4. pc' # "abort" => app'.numRefillsRunning = 0 /\ app'.numLogMarksRunning = 0
    BY <1>2 DEF BatchInv, Refilling, Marking, CountOf, Control
<1>5. DataInv'
    BY <1>1, <1>2, DataUntouched DEF DataInv
<1> QED
    BY <1>1, <1>2, <1>3, <1>4, <1>5, ComesToNothing DEF BufferInv

\* A step that changes nothing.
LEMMA BufferStutter ==
    ASSUME BufferInv, UNCHANGED vars
    PROVE  BufferInv'
BY DEF BufferInv, vars, loopVars, poolVars, dataVars, DataInv, RefillProgress,
       MarkProgress, ChainInv, Pending, Reporting, Queued

\* Every step of the event loop and of the pool keeps the buffers in order.
LEMMA BufferStep ==
    ASSUME BatchInv, BatchInv', BufferInv, [Next]_vars
    PROVE  BufferInv'
<1>1. CASE Loop
    <2>1. CASE \/ LoopEnque \/ RefillSrcBuffersTurn \/ MarkLogEntriesTurn
               \/ RunUntilDoneReturns \/ JoinBlocking
        BY <2>1, LoopEnqueBuffers, RefillTurnBuffers, MarkTurnBuffers, EndBuffers
    <2>2. CASE InitStuff \/ OpenSrcFiles \/ RefillSrcBuffers \/ OnOneRefillDone
        BY <2>2, InitStuffBuffers, OpenSrcFilesBuffers, RefillSrcBuffersBuffers,
           OnOneRefillDoneBuffers
    <2>3. CASE \/ MarkLogEntriesForeachSource \/ MarkLogEntryForSourceDone
               \/ FindOldestLogEntryFromAllHeads \/ FindOldestTurn \/ FindOldestEnd
               \/ WriteLowestEntryToDst
        BY <2>3, MarkLogEntriesBuffers, MarkDoneBuffers, FindOldestBuffers,
           FindTurnBuffers, WriteLowestBuffers
    <2> QED
        BY <1>1, <2>1, <2>2, <2>3 DEF Loop
<1>2. CASE \E t \in Thread : PoolThread(t)
    BY <1>2, TakeTaskBuffers, ThreadEnqueBuffers, RefillBuffers, MarkBuffers DEF PoolThread
<1>3. CASE Terminated \/ UNCHANGED vars
    BY <1>3, BufferStutter DEF Terminated
<1> QED
    BY <1>1, <1>2, <1>3 DEF Next

-----------------------------------------------------------------------------
\* The offsets of every source stay in bounds over any sequence of reads, moves,
\* growths, scans and consumptions, for any input, any buffer sizes and any number
\* of failing calls; and each phase finds the buffers as the one before promised.
THEOREM BuffersInOrder == Spec => []BufferInv
<1>1. Init => BufferInv
    <2> SUFFICES ASSUME Init
                 PROVE  BufferInv
        OBVIOUS
    <2>1. [FreshSource EXCEPT !.cap = 0] = FreshSource
        BY DEF FreshSource
    <2>2. SourceOK(FreshSource) /\ FreshSource \in SourceState
        <3>1. SourceOK(FreshSource)
            BY <2>1, OpenedOK
        <3> QED
            BY <3>1 DEF SourceOK, InBuffer
    <2>3. src = [s \in Source |-> FreshSource] /\ unread \in [Source -> Text]
        BY LogMergeAssumption DEF Init, Source
    <2>4. <<>> \in Text /\ <<>> \in Seq(Text) /\ 0 \in 0..MaxFaults
        BY LogMergeAssumption DEF Text
    <2>5. DataInv
        BY <2>2, <2>3, <2>4 DEF Init, DataInv
    <2>6. \A f : Queued(f) => f = "initStuff"
        <3>1. Head(<<Task("initStuff", 0)>>) = Task("initStuff", 0)
            OBVIOUS
        <3> QED
            BY <3>1 DEF Init, Queued, Task
    <2>7. ChainInv
        BY <2>3, <2>6 DEF Init, ChainInv
    <2>8. RefillProgress /\ MarkProgress
        BY DEF Init, RefillProgress, MarkProgress
    <2> QED
        BY <2>5, <2>7, <2>8 DEF BufferInv
<1>2. BatchInv /\ BatchInv' /\ BufferInv /\ [Next]_vars => BufferInv'
    BY BufferStep
<1> QED
    BY <1>1, <1>2, BatchInvariant, PTL DEF Spec

\* Every variable keeps its type.
THEOREM TypeCorrect == Spec => []TypeOK
<1>1. BatchInv /\ BufferInv => TypeOK
    BY DEF BatchInv, CtlTypeOK, BufferInv, DataInv, TypeOK
<1> QED
    BY <1>1, BatchInvariant, BuffersInOrder, PTL

\* The offsets of every source stay in order and within the capacity of its buffer, the
\* last one where the bytes read end; and when the heads are compared and the lowest is
\* written, every source that is not at its end has an entry of at least one byte within
\* the bytes that were read.
THEOREM OffsetsInBounds == Spec => []EntriesInBounds
<1>1. BatchInv /\ BufferInv => EntriesInBounds
    <2> SUFFICES ASSUME BatchInv, BufferInv
                 PROVE  EntriesInBounds
        OBVIOUS
    <2>1. \A s \in Source : InBuffer(src[s])
        BY DEF BufferInv, DataInv, SourceOK
    <2>2. ASSUME LoopReadsBuffers, NEW s \in Source
          PROVE  \/ src[s].noMore
                 \/ /\ src[s].beg <= src[s].logBeg
                    /\ src[s].logBeg < src[s].logEnd
                    /\ src[s].logEnd <= src[s].end
        <3>1. src[s].noMore \/ Found(src[s])
            BY <2>2 DEF LoopReadsBuffers, BufferInv, ChainInv, Queued
        <3>2. /\ src[s].logEnd \in Nat /\ src[s].end \in Nat
            BY <2>1, InBufferFacts
        <3> QED
            BY <3>1, <3>2 DEF Found
    <2>3. \A s \in Source : /\ src[s].beg <= src[s].end
                             /\ src[s].end <= src[s].cap
                             /\ src[s].end = Len(src[s].buf)
        BY <2>1 DEF InBuffer
    <2> QED
        BY <2>2, <2>3 DEF EntriesInBounds
<1> QED
    BY <1>1, BatchInvariant, BuffersInOrder, PTL

-----------------------------------------------------------------------------
(* Failures.                                                               *)

\* A handler that was queued is the one that is dispatched.
LEMMA DispatchQueued ==
    ASSUME NEW f, NEW g, Dispatch(f), Queued(g)
    PROVE  g = f
BY DEF Dispatch, Queued

\* A queue of completions holds no handler of the chain.
LEMMA OnlyCompletions ==
    ASSUME CtlTypeOK', pc' \notin {"enq", "find"},
           \A i \in 1..Len(envQ') : envQ'[i].fn \notin ControlFn
    PROVE  \A f \in ControlFn : ~Queued(f)'
<1>1. envQ' # <<>> => 1 \in 1..Len(envQ') /\ Head(envQ') = envQ'[1]
    BY DEF CtlTypeOK
<1> QED
    BY <1>1 DEF Queued

\* A step that sets exitCode, or leaves it set, leaves the chain at rest.
LEMMA FailureStep ==
    ASSUME BatchInv, BatchInv', FailureStops, [Next]_vars
    PROVE  FailureStops'
<1>1. /\ CtlTypeOK /\ CtlTypeOK' /\ app \in AppState
    BY DEF BatchInv, CtlTypeOK
<1> SUFFICES ASSUME app'.exitCode # 0
             PROVE  pc' # "find" /\ \A f \in ControlFn : ~Queued(f)'
    BY DEF FailureStops
\* Outside of the chain the queue holds completions.
<1>2. ASSUME Refilling' \/ Marking'
      PROVE  pc' # "find" /\ \A f \in ControlFn : ~Queued(f)'
    <2>1. /\ pc' \notin {"enq", "find"}
          /\ \A i \in 1..Len(envQ') : envQ'[i].fn \notin ControlFn
        BY <1>2 DEF Refilling, Marking, BatchOf, CountOf, ControlFn
    <2> QED
        BY <1>1, <2>1, OnlyCompletions
\* A handler that returns leaves nothing behind.
<1>3. ASSUME envQ' = <<>>, pc' \notin {"enq", "find"}
      PROVE  \A f \in ControlFn : ~Queued(f)'
    BY <1>3 DEF Queued
<1>4. CASE InitStuff
    <2>1. envQ' = <<>>
        BY <1>4, DispatchControl DEF InitStuff, ControlFn, EnvFn
    <2>2. app.exitCode = 0
        BY <1>4 DEF InitStuff, Dispatch, FailureStops, Queued, ControlFn, EnvFn
    <2>3. pc' = "idle"
        BY <1>1, <1>4, <2>2 DEF InitStuff, Return, AppState
    <2> QED
        BY <1>3, <2>1, <2>3
<1>5. CASE OpenSrcFiles \/ RefillSrcBuffers \/ WriteLowestEntryToDst
    <2>1. envQ' = <<>>
        BY <1>5, DispatchControl DEF OpenSrcFiles, RefillSrcBuffers, WriteLowestEntryToDst,
                                     ControlFn, EnvFn
    <2>2. pc' \in {"idle", "refill", "abort"}
        BY <1>5 DEF OpenSrcFiles, RefillSrcBuffers, WriteLowestEntryToDst, GiveUp,
                    CallRefillSrcBuffers, StartLoop, Return, AssertThat, Dispatch
    <2> QED
        BY <1>3, <2>1, <2>2
<1>6. CASE MarkLogEntriesForeachSource
    <2>1. envQ' = <<>>
        BY <1>6, DispatchControl DEF MarkLogEntriesForeachSource, ControlFn, EnvFn
    <2>2. pc' \in {"mark", "abort"}
        BY <1>6 DEF MarkLogEntriesForeachSource, StartLoop, AssertThat
    <2> QED
        BY <1>3, <2>1, <2>2
<1>7. CASE FindOldestLogEntryFromAllHeads
    <2>1. app.exitCode = 0
        BY <1>7 DEF FindOldestLogEntryFromAllHeads, Dispatch, FailureStops, Queued,
                    ControlFn, EnvFn
    <2>2. app'.exitCode = 0
        BY <1>1, <1>7, <2>1 DEF FindOldestLogEntryFromAllHeads, AppState
    <2> QED
        BY <2>2
<1>8. CASE FindOldestTurn \/ FindOldestEnd
    <2>1. app.exitCode = 0
        BY <1>8 DEF FindOldestTurn, FindOldestEnd, FailureStops
    <2>2. app'.exitCode = app.exitCode
        BY <1>1, <1>8 DEF FindOldestTurn, FindOldestEnd, AppState
    <2> QED
        BY <2>1, <2>2
<1>9. CASE OnOneRefillDone \/ MarkLogEntryForSourceDone
    <2>1. app'.exitCode = app.exitCode
        BY <1>1, <1>9 DEF OnOneRefillDone, MarkLogEntryForSourceDone, NeedMoreHandled, AppState
    <2>2. pc' = "idle"
        BY <1>9, <2>1 DEF OnOneRefillDone, MarkLogEntryForSourceDone, ReturnsEarly, Return
    <2>3. \A i \in 1..Len(envQ') : envQ'[i].fn \notin ControlFn
        <3>1. /\ envQ # <<>> /\ envQ' = Tail(envQ)
              /\ Head(envQ).fn \notin ControlFn
            BY <1>9 DEF OnOneRefillDone, MarkLogEntryForSourceDone, Dispatch, ControlFn
        <3>2. /\ Head(envQ) = envQ[1] /\ 1 \in 1..Len(envQ)
              /\ \A i \in 1..Len(envQ') : i + 1 \in 1..Len(envQ) /\ envQ'[i] = envQ[i + 1]
            BY <1>1, <3>1, EnvQueueFacts
        <3>3. Refilling \/ Marking
            BY <3>1, <3>2 DEF BatchInv, Control
        <3> QED
            BY <3>2, <3>3 DEF Refilling, Marking, BatchOf, ControlFn
    <2> QED
        BY <1>1, <2>2, <2>3, OnlyCompletions
<1>10. CASE LoopEnque
    <2>1. app.exitCode # 0 /\ pc = "enq" /\ pend.fn \in ControlFn
        BY <1>10 DEF LoopEnque, BatchInv, Refilling, Marking, CountOf, Control
    <2> QED
        BY <2>1 DEF FailureStops, Queued
<1>11. CASE RefillSrcBuffersTurn \/ MarkLogEntriesTurn
    <2>1. pc \in {"refill", "mark"} /\ pc' \in {"idle", pc} /\ envQ' = envQ
        BY <1>11 DEF RefillSrcBuffersTurn, MarkLogEntriesTurn, PoolEnque
    <2>2. \A i \in 1..Len(envQ') : envQ'[i].fn \notin ControlFn
        BY <2>1 DEF BatchInv, Refilling, Marking, Control, BatchOf, ControlFn
    <2> QED
        BY <1>1, <2>1, <2>2, OnlyCompletions
<1>12. CASE RunUntilDoneReturns \/ JoinBlocking
    <2>1. pc' \in {"join", "done", "abort"} /\ envQ' = envQ
        BY <1>12 DEF RunUntilDoneReturns, JoinBlocking
    <2>2. envQ = <<>>
        BY <1>12 DEF RunUntilDoneReturns, JoinBlocking, BatchInv, Refilling, Marking,
                     CountOf, Control
    <2> QED
        BY <1>3, <2>1, <2>2
<1>13. CASE \E t \in Thread : PoolThread(t)
    <2>1. PICK t \in Thread : PoolThread(t)
        BY <1>13
    <2>2. CASE TakeTask(t)
        <3>1. job'[t].at = "run"
            BY <1>1, <2>2 DEF TakeTask, CtlTypeOK
        <3>2. ~Control'
            BY <3>1 DEF Control, PoolQuiet, Idle
        <3> QED
            BY <1>2, <3>2 DEF BatchInv
    <2>3. CASE ThreadEnque(t)
        <3>1. app.exitCode # 0 /\ pc' = pc /\ pend' = pend /\ job[t].at = "post"
              /\ envQ' = Append(envQ, job[t].task)
            BY <2>3 DEF ThreadEnque
        <3>2. Refilling \/ Marking
            BY <3>1 DEF BatchInv, Control, PoolQuiet, Idle
        <3>3. /\ pc \notin {"enq", "find"} /\ job[t].task.fn \notin ControlFn
              /\ \A i \in 1..Len(envQ) : envQ[i].fn \notin ControlFn
            BY <3>1, <3>2 DEF Refilling, Marking, BatchOf, CountOf, ControlFn, Idle
        <3>4. envQ \in Seq(EnvTask)
            BY <1>1 DEF CtlTypeOK
        <3>5. \A i \in 1..Len(envQ') : envQ'[i].fn \notin ControlFn
            BY <3>1, <3>3, <3>4
        <3> QED
            BY <1>1, <3>1, <3>3, <3>5, OnlyCompletions
    <2>4. CASE RefillBufferForSourceByArg(t) \/ MarkLogEntryForSourceByArg(t)
        <3>1. \E pf, df : TaskEnds(t, pf, df)
            BY <2>4, RefillTaskEnds, MarkTaskEnds
        <3>2. pc' \in {pc, "abort"} /\ envQ' = envQ /\ job[t].at = "run"
            BY <3>1 DEF TaskEnds
        <3>3. Refilling \/ Marking
            BY <3>2 DEF BatchInv, Control, PoolQuiet, Idle
        <3>4. /\ pc' \notin {"enq", "find"}
              /\ \A i \in 1..Len(envQ') : envQ'[i].fn \notin ControlFn
            BY <3>2, <3>3 DEF Refilling, Marking, BatchOf, CountOf, ControlFn
        <3> QED
            BY <1>1, <3>4, OnlyCompletions
    <2> QED
        BY <2>1, <2>2, <2>3, <2>4 DEF PoolThread
<1>14. CASE Terminated \/ UNCHANGED vars
    BY <1>14 DEF Terminated, vars, loopVars, FailureStops, Queued
<1> QED
    BY <1>4, <1>5, <1>6, <1>7, <1>8, <1>9, <1>10, <1>11, <1>12, <1>13, <1>14 DEF Next, Loop

\* Once a call has failed the chain of handlers is not taken up again.
THEOREM FailureIsFinal == Spec => []FailureStops
<1>1. Init => FailureStops
    BY DEF Init, FailureStops
<1>2. BatchInv /\ BatchInv' /\ FailureStops /\ [Next]_vars => FailureStops'
    BY FailureStep
<1> QED
    BY <1>1, <1>2, BatchInvariant, PTL DEF Spec

\* Nothing is written after a failure, however many tasks of the other sources were
\* still running when it happened and whatever they report.
THEOREM NothingMoreIsWritten == Spec => NothingWrittenAfterFailure
<1>1. FailureStops /\ [Next]_vars => [app.exitCode # 0 => UNCHANGED stdout]_vars
    <2> SUFFICES ASSUME FailureStops, Next, app.exitCode # 0
                 PROVE  UNCHANGED stdout
        BY DEF vars, dataVars
    <2>1. ~WriteLowestEntryToDst
        BY DEF WriteLowestEntryToDst, Dispatch, FailureStops, Queued, ControlFn, EnvFn
    <2>2. CASE Loop
        BY <2>1, <2>2 DEF Loop, LoopEnque, RefillSrcBuffersTurn, MarkLogEntriesTurn, PoolEnque,
           InitStuff, OpenSrcFiles, RefillSrcBuffers, OnOneRefillDone,
           MarkLogEntriesForeachSource, MarkLogEntryForSourceDone,
           FindOldestLogEntryFromAllHeads, FindOldestTurn, FindOldestEnd,
           RunUntilDoneReturns, JoinBlocking, dataVars
    <2>3. CASE \E t \in Thread : PoolThread(t)
        BY <2>3 DEF PoolThread, TakeTask, ThreadEnque, RefillBufferForSourceByArg,
                    MarkLogEntryForSourceByArg, dataVars
    <2>4. CASE Terminated
        BY <2>4 DEF Terminated, vars, dataVars
    <2> QED
        BY <2>2, <2>3, <2>4 DEF Next
<1> QED
    BY <1>1, FailureIsFinal, PTL DEF Spec, NothingWrittenAfterFailure

\* A refill in which no call fails finds its assertions true.
LEMMA RefillAsserts ==
    ASSUME CtlTypeOK, DataInv, NEW t \in Thread, RefillBufferForSourceByArg(t), ~Fault
    PROVE  pc' = pc
<1> DEFINE s == job[t].task.arg
           r == Compact(src[s])
           grows == ~MustRead(r) /\ r.needMore
<1>1. SourceOK(src[s]) /\ unread[s] \in Text
    BY RunningTask DEF RefillBufferForSourceByArg, Runs, PoolFn, DataInv
<1>2. grows => ~r.isEof
    BY <1>1, RefillOK
<1> QED
    BY <1>2 DEF RefillBufferForSourceByArg, AssertThat

\* A step in which no call fails keeps the assertions true and the pool in place.
LEMMA CleanStep ==
    ASSUME BatchInv, BatchInv', BufferInv, RunsClean, [Next]_vars
    PROVE  RunsClean'
<1> SUFFICES ASSUME NumSources > 0, faults' = 0
             PROVE  pc' # "abort" /\ (app'.thrdPool \/ Queued("initStuff")')
    BY DEF RunsClean, NoAbort
<1>1. /\ CtlTypeOK /\ CtlTypeOK' /\ app \in AppState /\ DataInv /\ faults \in Nat
    BY LogMergeAssumption DEF BatchInv, CtlTypeOK, BufferInv, DataInv
<1>2. ~Fault
    BY <1>1 DEF Fault
<1>3. faults' = faults \/ Fault
    BY DEF Next, Loop, LoopEnque, RefillSrcBuffersTurn, MarkLogEntriesTurn, PoolEnque,
           InitStuff, OpenSrcFiles, RefillSrcBuffers, OnOneRefillDone,
           MarkLogEntriesForeachSource, MarkLogEntryForSourceDone,
           FindOldestLogEntryFromAllHeads, FindOldestTurn, FindOldestEnd,
           WriteLowestEntryToDst, RunUntilDoneReturns, JoinBlocking,
           PoolThread, TakeTask, ThreadEnque, RefillBufferForSourceByArg,
           MarkLogEntryForSourceByArg, Terminated, vars
<1>4. pc # "abort" /\ (app.thrdPool \/ Queued("initStuff"))
    BY <1>2, <1>3 DEF RunsClean, NoAbort
\* A handler of the chain other than initStuff() runs after it.
<1>5. ASSUME NEW f, f # "initStuff", Dispatch(f)
      PROVE  app.thrdPool
    BY <1>4, <1>5, DispatchQueued
<1>6. CASE InitStuff
    <2>1. app' = [app EXCEPT !.thrdPool = (NumSources > 0)] /\ pc' = "enq"
        BY <1>2, <1>6 DEF InitStuff, Post
    <2>2. app'.thrdPool
        BY <1>1, <2>1 DEF AppState
    <2> QED
        BY <2>1, <2>2
<1>7. CASE \/ OpenSrcFiles \/ RefillSrcBuffers \/ OnOneRefillDone
           \/ MarkLogEntryForSourceDone \/ FindOldestLogEntryFromAllHeads
           \/ MarkLogEntriesForeachSource \/ WriteLowestEntryToDst
    <2>1. app.thrdPool
        BY <1>5, <1>7 DEF OpenSrcFiles, RefillSrcBuffers, OnOneRefillDone,
                          MarkLogEntryForSourceDone, FindOldestLogEntryFromAllHeads,
                          MarkLogEntriesForeachSource, WriteLowestEntryToDst
    <2>2. app'.thrdPool
        <3>1. \/ app' \in {app, [app EXCEPT !.exitCode = -1], [app EXCEPT !.exitCode = 0]}
              \/ \E n : app' = [app EXCEPT !.numRefillsRunning = n]
              \/ \E n : app' = [app EXCEPT !.lowest = n]
              \/ MarkLogEntryForSourceDone
            BY <1>7 DEF OpenSrcFiles, RefillSrcBuffers, OnOneRefillDone,
                        FindOldestLogEntryFromAllHeads, MarkLogEntriesForeachSource,
                        WriteLowestEntryToDst, GiveUp
        <3>2. CASE MarkLogEntryForSourceDone
            BY <1>1, <2>1, <3>2 DEF MarkLogEntryForSourceDone, NeedMoreHandled, AppState
        <3> QED
            BY <1>1, <2>1, <3>1, <3>2 DEF AppState
    <2>3. pc' # "abort"
        <3>1. CASE WriteLowestEntryToDst
            BY <3>1, WriteLowestData
        <3>2. NumSources # 0
            BY LogMergeAssumption
        <3>3. CASE ~WriteLowestEntryToDst
            BY <1>7, <3>2, <3>3 DEF OpenSrcFiles, RefillSrcBuffers, OnOneRefillDone,
               MarkLogEntryForSourceDone, FindOldestLogEntryFromAllHeads,
               MarkLogEntriesForeachSource, CallRefillSrcBuffers, StartLoop, Return, Post
        <3> QED
            BY <3>1, <3>3
    <2> QED
        BY <2>2, <2>3
<1>8. CASE RefillSrcBuffersTurn \/ MarkLogEntriesTurn
    <2>1. /\ pc \in {"refill", "mark"} /\ pc' \in {"idle", pc} /\ envQ' = envQ
          /\ \E n : app' \in {[app EXCEPT !.numRefillsRunning = n],
                              [app EXCEPT !.numLogMarksRunning = n]}
        BY <1>8 DEF RefillSrcBuffersTurn, MarkLogEntriesTurn, PoolEnque
    <2>2. app'.thrdPool = app.thrdPool
        BY <1>1, <2>1 DEF AppState
    <2> QED
        BY <1>4, <2>1, <2>2 DEF Queued
<1>9. CASE LoopEnque
    <2>1. /\ pc = "enq" /\ pc' = "idle" /\ envQ' = Append(envQ, pend) /\ app' = app
        BY <1>9 DEF LoopEnque
    <2>2. envQ = <<>>
        BY <2>1 DEF BatchInv, Refilling, Marking, CountOf, Control
    <2>3. Head(envQ') = pend /\ envQ' # <<>>
        BY <2>1, <2>2
    <2> QED
        BY <1>4, <2>1, <2>2, <2>3 DEF Queued
<1>10. CASE FindOldestTurn \/ FindOldestEnd
    <2>1. /\ pc = "find" /\ pc' # "abort"
          /\ \E n : app' \in {app, [app EXCEPT !.lowest = n]}
        BY <1>10 DEF FindOldestTurn, FindOldestEnd, Post
    <2>2. envQ = <<>>
        BY <2>1 DEF BatchInv, Refilling, Marking, CountOf, Control
    <2>3. app.thrdPool
        BY <1>4, <2>1, <2>2 DEF Queued
    <2>4. app'.thrdPool = app.thrdPool
        BY <1>1, <2>1 DEF AppState
    <2> QED
        BY <2>1, <2>3, <2>4
<1>11. CASE RunUntilDoneReturns
    <2>1. app.thrdPool
        BY <1>4, <1>11 DEF RunUntilDoneReturns, Queued
    <2> QED
        BY <1>11, <2>1 DEF RunUntilDoneReturns
<1>12. CASE JoinBlocking
    BY <1>4, <1>12 DEF JoinBlocking, Queued
<1>13. CASE \E t \in Thread : PoolThread(t)
    <2>1. PICK t \in Thread : PoolThread(t)
        BY <1>13
    <2>2. pc' = pc
        BY <1>1, <1>2, <2>1, RefillAsserts
           DEF PoolThread, TakeTask, ThreadEnque, MarkLogEntryForSourceByArg, loopVars
    <2>3. app'.thrdPool = app.thrdPool
        <3>1. app' \in {app, [app EXCEPT !.exitCode = -1]}
            BY <2>1, RefillTaskEnds, MarkTaskEnds DEF PoolThread, TakeTask, ThreadEnque, TaskEnds
        <3> QED
            BY <1>1, <3>1 DEF AppState
    <2>4. Queued("initStuff") => Queued("initStuff")'
        <3>1. pend' = pend /\ (envQ' = envQ \/ ThreadEnque(t))
            BY <2>1, RefillTaskEnds, MarkTaskEnds
               DEF PoolThread, TakeTask, ThreadEnque, TaskEnds, loopVars
        <3>2. CASE envQ' = envQ
            BY <2>2, <3>1, <3>2 DEF Queued
        <3>3. CASE ThreadEnque(t)
            <4>1. job[t].at = "post" /\ pc # "enq" /\ envQ' = Append(envQ, job[t].task)
                BY <3>3 DEF ThreadEnque, BatchInv, Refilling, Marking, CountOf, Control,
                            PoolQuiet, Idle
            <4>2. envQ \in Seq(EnvTask)
                BY <1>1 DEF CtlTypeOK
            <4>3. envQ # <<>> => envQ' # <<>> /\ Head(envQ') = Head(envQ)
                BY <4>1, <4>2
            <4> QED
                BY <4>1, <4>3 DEF Queued
        <3> QED
            BY <3>1, <3>2, <3>3
    <2> QED
        BY <1>4, <2>2, <2>3, <2>4
<1>14. CASE Terminated \/ UNCHANGED vars
    BY <1>4, <1>14 DEF Terminated, vars, loopVars, Queued
<1> QED
    BY <1>6, <1>7, <1>8, <1>9, <1>10, <1>11, <1>12, <1>13, <1>14 DEF Next, Loop

\* Whatever the files contain and however the threads are scheduled: as long as no
\* call to the system has failed, no assert() has failed and no NULL pointer was
\* followed.  (Without any source there is no pool, and main() joins it.)
THEOREM NoAssertionFails ==
    Spec => []((NumSources > 0 /\ faults = 0) => NoAbort)
<1>1. Init => RunsClean
    <2> SUFFICES ASSUME Init
                 PROVE  RunsClean
        OBVIOUS
    <2>1. envQ # <<>> /\ Head(envQ) = Task("initStuff", 0)
        BY DEF Init
    <2> QED
        BY <2>1 DEF Init, RunsClean, NoAbort, Queued, Task
<1>2. BatchInv /\ BatchInv' /\ BufferInv /\ RunsClean /\ [Next]_vars => RunsClean'
    BY CleanStep
<1>3. RunsClean => ((NumSources > 0 /\ faults = 0) => NoAbort)
    BY DEF RunsClean
<1> QED
    BY <1>1, <1>2, <1>3, BatchInvariant, BuffersInOrder, PTL DEF Spec

-----------------------------------------------------------------------------
(* A source in its file.  f is the file, rem what is still to be read of   *)
(* it, r the source, and a the number of bytes in front of its buffer.     *)

IsFirst(p, S) == p \in S /\ \A q \in S : p <= q

\* The entry that starts at p ends at n: a byte in front of what starts the next
\* entry, or of the end of the file.
EntryEnds(f, p, n) ==
    IF Behind(f, p) = {} THEN n + 1 = Len(f) ELSE IsFirst(n + 2, Behind(f, p))

\* The buffer shows a part of the file, and what follows it is still to be read.
Window(f, a, rem, r) ==
    /\ Len(f) = a + r.end + Len(rem)
    /\ \A i \in 1..r.end : r.buf[i] = f[a + i]
    /\ \A i \in 1..Len(rem) : rem[i] = f[a + r.end + i]
    /\ r.isEof => rem = <<>>

\* Only whole entries are consumed: what follows is the newline behind the entry, or
\* the last byte of the file.
Consumption(f, a, r) ==
    /\ \/ a + r.beg = 0
       \/ a + r.beg + 1 = Len(f)
       \/ f[a + r.beg + 1] = LF
    /\ r.noMore => Behind(f, a + r.beg) = {}

\* The marks of a source are those of its first entry that was not consumed, unless
\* they are those of the entry before.
Marks(f, a, r) ==
    \/ r.logEnd = r.beg
    \/ /\ r.beg <= r.logBeg
       /\ r.logBeg < r.logEnd
       /\ IsFirst(a + r.logBeg + 1, Behind(f, a + r.beg))
       /\ EntryEnds(f, a + r.logBeg + 1, a + r.logEnd)

Placed(f, a, rem, r) ==
    Window(f, a, rem, r) /\ Consumption(f, a, r) /\ Marks(f, a, r)

\* Where an entry starts there is a timestamp, a byte behind it and a line's begin.
LEMMA StartsFacts ==
    ASSUME NEW f \in Text
    PROVE  /\ Starts(f) \in SUBSET Nat
           /\ \A p \in Starts(f) : /\ p \in 1..Len(f) /\ f[p] \in Headers /\ f[p] # LF
                                   /\ f[p] \in Nat /\ p < Len(f)
                                   /\ p = 1 \/ f[p - 1] = LF
           /\ \A p \in Nat : (/\ p >= 1 /\ p < Len(f) /\ f[p] \in Headers
                              /\ p = 1 \/ f[p - 1] = LF) => p \in Starts(f)
<1>1. Len(f) \in Nat
    BY DEF Text
<1>2. \A h \in Headers : h \in Nat /\ h # LF
    BY HeadersAssumption
<1> QED
    BY <1>1, <1>2 DEF Starts

\* The set of what starts behind a place.
LEMMA BehindFacts ==
    ASSUME NEW f \in Text, NEW n \in Nat
    PROVE  /\ Behind(f, n) \in SUBSET Nat
           /\ \A p \in Behind(f, n) : p \in Starts(f) /\ p > n
           /\ \A p \in Starts(f) : p > n => p \in Behind(f, n)
<1>1. Starts(f) \in SUBSET Nat
    BY StartsFacts
<1> QED
    BY <1>1 DEF Behind

\* The text of an entry is what lies between its start and its end.
LEMMA EntryText ==
    ASSUME NEW f \in Text, NEW p \in Starts(f), NEW n \in Nat, EntryEnds(f, p, n)
    PROVE  /\ Entry(f, p) = SubSeq(f, p, n)
           /\ p <= n /\ n < Len(f)
<1> DEFINE later == {q \in Starts(f) : q > p}
<1>1. /\ p \in Nat /\ p >= 1 /\ p < Len(f) /\ Len(f) \in Nat /\ f[p] # LF
      /\ Starts(f) \in SUBSET Nat
    BY StartsFacts DEF Text
<1>2. later = Behind(f, p) /\ later \in SUBSET Nat
    BY <1>1 DEF Behind
<1>3. Entry(f, p) = SubSeq(f, p, IF later = {} THEN Len(f) - 1 ELSE First(later) - 2)
    BY DEF Entry, EntryAt
<1> HIDE DEF later
<1>4. CASE later = {}
    <2>1. n + 1 = Len(f)
        BY <1>2, <1>4 DEF EntryEnds
    <2>2. n = Len(f) - 1
        BY <1>1, <2>1
    <2> QED
        BY <1>1, <1>3, <1>4, <2>2
<1>5. CASE later # {}
    <2>1. n + 2 \in later /\ \A q \in later : n + 2 <= q
        BY <1>2, <1>5 DEF EntryEnds, IsFirst
    <2>2. First(later) \in later /\ \A q \in later : First(later) <= q
        BY <1>2, <1>5, FirstIsLeast
    <2>3. First(later) <= n + 2 /\ n + 2 <= First(later) /\ First(later) \in Nat
        BY <1>2, <2>1, <2>2
    <2>4. First(later) - 2 = n
        BY <2>3
    <2>5. n + 2 \in Starts(f) /\ n + 2 > p
        BY <1>2, <2>1 DEF Behind
    <2>6. n + 2 < Len(f) /\ f[n + 1] = LF
        <3>1. n + 2 < Len(f) /\ (n + 2 = 1 \/ f[(n + 2) - 1] = LF)
            BY <2>5, StartsFacts
        <3>2. (n + 2) - 1 = n + 1 /\ n + 2 # 1
            OBVIOUS
        <3> QED
            BY <3>1, <3>2
    <2>7. p # n + 1
        BY <1>1, <2>6
    <2>8. p <= n /\ n < Len(f)
        BY <1>1, <2>5, <2>6, <2>7
    <2> QED
        BY <1>3, <1>5, <2>4, <2>8
<1> QED
    BY <1>4, <1>5

-----------------------------------------------------------------------------
(* The operations on one source keep its place.                            *)

\* The bytes of a part of a text.
LEMMA SubTextAt ==
    ASSUME NEW t \in Text, NEW m \in Nat, NEW n \in Nat, m <= n, n <= Len(t)
    PROVE  \A i \in 1..(n - m) : SubSeq(t, m + 1, n)[i] = t[m + i]
<1> SUFFICES ASSUME NEW i \in 1..(n - m)
             PROVE  SubSeq(t, m + 1, n)[i] = t[m + i]
    OBVIOUS
<1>1. t \in Seq(Nat) /\ Len(t) \in Nat
    BY DEF Text
<1>2. i \in 1..(n - (m + 1) + 1) /\ (m + 1) + i - 1 = m + i
    OBVIOUS
<1>3. SubSeq(t, m + 1, n)[i] = t[(m + 1) + i - 1]
    BY <1>1, <1>2
<1> QED
    BY <1>2, <1>3

\* What the place of a source depends on.
LEMMA SamePlace ==
    ASSUME NEW f, NEW a, NEW rem, NEW r, Placed(f, a, rem, r),
           NEW q, q.beg = r.beg, q.end = r.end, q.buf = r.buf, q.isEof = r.isEof,
           q.noMore = r.noMore, q.logEnd = r.logEnd,
           q.logBeg = r.logBeg \/ q.logEnd = q.beg
    PROVE  Placed(f, a, rem, q)
<1>1. Window(f, a, rem, q) /\ Consumption(f, a, q)
    BY DEF Placed, Window, Consumption
<1>2. Marks(f, a, q)
    BY DEF Placed, Marks
<1> QED
    BY <1>1, <1>2 DEF Placed

\* Moving the unconsumed bytes to the front moves the buffer ahead in the file.
LEMMA CompactPlaced ==
    ASSUME NEW f \in Text, NEW a \in Nat, NEW rem \in Text, NEW r,
           InBuffer(r), Placed(f, a, rem, r)
    PROVE  \E b \in Nat : /\ Placed(f, b, rem, Compact(r))
                          /\ b + Compact(r).beg = a + r.beg
                          /\ b + Compact(r).end = a + r.end
<1> DEFINE q == Compact(r)
<1>1. /\ r \in SourceState /\ r.buf \in Text /\ Len(f) \in Nat /\ Len(rem) \in Nat
      /\ r.beg \in Nat /\ r.end \in Nat /\ r.logBeg \in Nat /\ r.logEnd \in Nat
      /\ r.beg <= r.end /\ r.end = Len(r.buf)
      /\ r.logEnd = 0 \/ r.beg <= r.logEnd
    BY InBufferFacts DEF Text
<1>2. CASE ~(r.beg > r.end - r.beg /\ r.end - r.beg > 0)
    BY <1>2 DEF Compact
<1>3. CASE r.beg > r.end - r.beg /\ r.end - r.beg > 0
    <2> DEFINE part == SubSeq(r.buf, r.beg + 1, r.end)
               lb == IF r.logBeg > 0 THEN r.logBeg - r.beg ELSE r.logBeg
               le == IF r.logEnd > 0 THEN r.logEnd - r.beg ELSE r.logEnd
               n == r.end - r.beg
               b == a + r.beg
    <2>1. q = [r EXCEPT !.buf = part, !.logBeg = lb, !.logEnd = le, !.end = n, !.beg = 0]
        BY <1>3 DEF Compact
    <2>2. part \in Text /\ Len(part) = n /\ \A i \in 1..n : part[i] = r.buf[r.beg + i]
        <3>1. part \in Text /\ Len(part) = n
            BY <1>1, SubText
        <3>2. /\ r.buf \in Text /\ r.beg \in Nat /\ r.end \in Nat
              /\ r.beg <= r.end /\ r.end <= Len(r.buf)
            BY <1>1
        <3>3. \A i \in 1..(r.end - r.beg) : SubSeq(r.buf, r.beg + 1, r.end)[i] = r.buf[r.beg + i]
            BY <3>2, SubTextAt
        <3> QED
            BY <3>1, <3>3
    <2> HIDE DEF part, lb, le, n, q, b
    <2>3. /\ q.buf = part /\ q.logBeg = lb /\ q.logEnd = le /\ q.end = n /\ q.beg = 0
          /\ q.isEof = r.isEof /\ q.noMore = r.noMore
        BY <1>1, <2>1 DEF SourceState
    <2>4. r.beg > 0 /\ n \in Nat /\ b \in Nat /\ b + n = a + r.end /\ b + 0 = a + r.beg
        BY <1>1, <1>3 DEF n, b
    <2>5. Window(f, b, rem, q)
        <3>1. Len(f) = b + n + Len(rem)
            BY <1>1, <2>4 DEF Placed, Window
        <3>2. \A i \in 1..n : r.beg + i \in 1..r.end /\ a + (r.beg + i) = b + i
            BY <1>1 DEF n, b
        <3>3. \A i \in 1..n : part[i] = f[b + i]
            <4>1. \A i \in 1..r.end : r.buf[i] = f[a + i]
                BY DEF Placed, Window
            <4> SUFFICES ASSUME NEW i \in 1..n
                         PROVE  part[i] = f[b + i]
                OBVIOUS
            <4>2. part[i] = r.buf[r.beg + i]
                BY <2>2
            <4>3. r.buf[r.beg + i] = f[a + (r.beg + i)]
                BY <3>2, <4>1
            <4> QED
                BY <3>2, <4>2, <4>3
        <3>4. \A i \in 1..Len(rem) : rem[i] = f[b + n + i]
            BY <2>4 DEF Placed, Window
        <3> QED
            BY <2>3, <3>1, <3>3, <3>4 DEF Placed, Window
    <2>6. Consumption(f, b, q)
        BY <2>3, <2>4 DEF Placed, Consumption, b
    <2>7. Marks(f, b, q)
        <3>1. CASE r.logEnd = r.beg
            <4>1. le = 0
                BY <1>1, <3>1 DEF le
            <4> QED
                BY <2>3, <4>1 DEF Marks
        <3>2. CASE r.logEnd # r.beg
            <4>1. r.beg <= r.logBeg /\ r.logBeg < r.logEnd
                BY <3>2 DEF Placed, Marks
            <4>5. r.logBeg > 0 /\ r.logEnd > 0
                BY <1>1, <2>4, <4>1
            <4>6. lb = r.logBeg - r.beg /\ le = r.logEnd - r.beg /\ b = a + r.beg
                BY <4>5 DEF lb, le, b
            <4>2. /\ 0 <= lb /\ lb < le
                  /\ b + lb + 1 = a + r.logBeg + 1 /\ b + le = a + r.logEnd
                <5>1. r.beg \in Nat /\ r.logBeg \in Nat /\ r.logEnd \in Nat
                    BY <1>1
                <5>2. 0 <= r.logBeg - r.beg /\ r.logBeg - r.beg < r.logEnd - r.beg
                    BY <4>1, <5>1
                <5>3. /\ a + r.beg + (r.logBeg - r.beg) + 1 = a + r.logBeg + 1
                      /\ a + r.beg + (r.logEnd - r.beg) = a + r.logEnd
                    BY <5>1
                <5> QED
                    BY <4>6, <5>2, <5>3
            <4>3. /\ IsFirst(a + r.logBeg + 1, Behind(f, a + r.beg))
                  /\ EntryEnds(f, a + r.logBeg + 1, a + r.logEnd)
                BY <3>2 DEF Placed, Marks
            <4> QED
                BY <2>3, <2>4, <4>2, <4>3 DEF Marks
        <3> QED
            BY <3>1, <3>2
    <2> QED
        BY <2>3, <2>4, <2>5, <2>6, <2>7 DEF Placed, q
<1> QED
    BY <1>2, <1>3

\* What fread() delivers goes from the rest of the file to the end of the buffer.
LEMMA FreadPlaced ==
    ASSUME NEW f \in Text, NEW a \in Nat, NEW rem \in Text, NEW r,
           InBuffer(r), Placed(f, a, rem, r)
    PROVE  /\ Placed(f, a, SubSeq(rem, FreadLen(r, rem) + 1, Len(rem)), Fread(r, rem))
           /\ Fread(r, rem).beg = r.beg
<1> DEFINE n == FreadLen(r, rem)
           part == SubSeq(rem, 1, n)
           left == SubSeq(rem, n + 1, Len(rem))
           b == r.buf \o part
           q == Fread(r, rem)
           eof == n < r.cap - r.end
<1>1. /\ r \in SourceState /\ r.buf \in Text
      /\ r.beg \in Nat /\ r.end \in Nat /\ r.cap \in Nat
      /\ r.beg <= r.end /\ r.end = Len(r.buf) /\ r.end <= r.cap
    BY InBufferFacts
<1>2. Len(rem) \in Nat /\ Len(f) \in Nat /\ rem \in Seq(Nat) /\ r.buf \in Seq(Nat)
    BY <1>1 DEF Text
<1>3. n \in Nat /\ n <= Len(rem) /\ (eof => n = Len(rem))
    BY <1>1, <1>2 DEF FreadLen
<1>4. q = [r EXCEPT !.buf = b, !.end = r.end + n, !.isEof = eof]
    BY DEF Fread, Feof
<1> HIDE DEF n, q, eof
<1>5. part \in Seq(Nat) /\ Len(part) = n /\ \A i \in 1..n : part[i] = rem[i]
    BY <1>2, <1>3
<1>6. Len(left) = Len(rem) - n /\ \A i \in 1..Len(left) : left[i] = rem[n + i]
    <2>1. Len(left) = Len(rem) - n
        BY <1>2, <1>3, SubText DEF Text
    <2>2. \A i \in 1..(Len(rem) - n) : left[i] = rem[n + i]
        BY <1>2, <1>3, SubTextAt
    <2> QED
        BY <2>1, <2>2
<1>7. n = Len(rem) => left = <<>>
    BY <1>2
<1> HIDE DEF part, left
<1>8. /\ b \in Seq(Nat)
      /\ \A i \in 1..(r.end + n) :
             b[i] = IF i <= r.end THEN r.buf[i] ELSE part[i - r.end]
    BY <1>1, <1>2, <1>5
<1> HIDE DEF b
<1>9. /\ q.buf = b /\ q.end = r.end + n /\ q.isEof = eof
      /\ q.beg = r.beg /\ q.logBeg = r.logBeg /\ q.logEnd = r.logEnd /\ q.noMore = r.noMore
    BY <1>1, <1>4 DEF SourceState
<1>10. Window(f, a, left, q)
    <2>0. Len(f) = a + r.end + Len(rem) /\ Len(left) = Len(rem) - n
        BY <1>6 DEF Placed, Window
    <2>1. Len(f) = a + (r.end + n) + Len(left)
        BY <1>1, <1>2, <1>3, <2>0
    <2>2. ASSUME NEW i \in 1..(r.end + n)
          PROVE  b[i] = f[a + i]
        <3>1. CASE i <= r.end
            <4>1. i \in 1..r.end
                BY <1>1, <1>3, <3>1
            <4> QED
                BY <1>8, <3>1, <4>1 DEF Placed, Window
        <3>2. CASE ~(i <= r.end)
            <4>0. /\ r.end \in Nat /\ n \in Nat /\ n <= Len(rem) /\ Len(rem) \in Nat
                  /\ i \in Nat /\ i > r.end /\ i <= r.end + n
                BY <1>1, <1>2, <1>3, <3>2
            <4>1. i - r.end \in 1..n /\ i - r.end \in 1..Len(rem) /\ a + r.end + (i - r.end) = a + i
                BY <4>0
            <4>2. b[i] = rem[i - r.end]
                BY <1>5, <1>8, <3>2, <4>1
            <4>3. rem[i - r.end] = f[a + r.end + (i - r.end)]
                BY <4>1 DEF Placed, Window
            <4> QED
                BY <4>1, <4>2, <4>3
        <3> QED
            BY <3>1, <3>2
    <2>3. ASSUME NEW i \in 1..Len(left)
          PROVE  left[i] = f[a + (r.end + n) + i]
        <3>0. n \in Nat /\ n <= Len(rem) /\ Len(rem) \in Nat /\ r.end \in Nat
            BY <1>1, <1>2, <1>3
        <3>1. n + i \in 1..Len(rem) /\ a + r.end + (n + i) = a + (r.end + n) + i
            BY <2>0, <3>0
        <3>2. left[i] = rem[n + i]
            BY <1>6
        <3>3. rem[n + i] = f[a + r.end + (n + i)]
            BY <3>1 DEF Placed, Window
        <3> QED
            BY <3>1, <3>2, <3>3
    <2>4. eof => left = <<>>
        BY <1>3, <1>7
    <2> QED
        BY <1>9, <2>1, <2>2, <2>3, <2>4 DEF Window
<1>11. Consumption(f, a, q) /\ Marks(f, a, q)
    BY <1>9 DEF Placed, Consumption, Marks
<1> QED
    BY <1>9, <1>10, <1>11 DEF Placed, q, left, n

\* The bytes in front of the buffer, and the bytes consumed.
InFile(f, rem, r) == At(f, rem, r) \in Nat /\ Placed(f, At(f, rem, r), rem, r)

\* There is one place only where a source can be.
LEMMA PlacedInFile ==
    ASSUME NEW f \in Text, NEW a \in Nat, NEW rem \in Text, NEW r,
           InBuffer(r), Placed(f, a, rem, r)
    PROVE  InFile(f, rem, r) /\ Taken(f, rem, r) = a + r.beg
<1>1. r.end \in Nat /\ Len(rem) \in Nat
    BY InBufferFacts DEF Text
<1>2. Len(f) = a + r.end + Len(rem)
    BY DEF Placed, Window
<1>3. At(f, rem, r) = a
    BY <1>1, <1>2 DEF At
<1> QED
    BY <1>3 DEF InFile, Taken

\* A refill keeps what was consumed, whether it moves, grows, reads or does nothing.
LEMMA RefillInFile ==
    ASSUME NEW f \in Text, NEW rem \in Text, NEW r, SourceOK(r), InFile(f, rem, r)
    PROVE  LET c == Compact(r)
               grows == ~MustRead(c) /\ c.needMore
               q == IF grows THEN Compact(Grown(c)) ELSE c
               left == SubSeq(rem, FreadLen(q, rem) + 1, Len(rem))
           IN  /\ InFile(f, rem, c) /\ Taken(f, rem, c) = Taken(f, rem, r)
               /\ InFile(f, rem, Grown(c)) /\ Taken(f, rem, Grown(c)) = Taken(f, rem, r)
               /\ (MustRead(c) \/ grows) =>
                      /\ InFile(f, left, Fread(q, rem))
                      /\ Taken(f, left, Fread(q, rem)) = Taken(f, rem, r)
<1> DEFINE c == Compact(r)
           grows == ~MustRead(c) /\ c.needMore
           q == IF grows THEN Compact(Grown(c)) ELSE c
           left == SubSeq(rem, FreadLen(q, rem) + 1, Len(rem))
           a == At(f, rem, r)
           n == a + r.beg
<1>1. InBuffer(r) /\ a \in Nat /\ Placed(f, a, rem, r) /\ Taken(f, rem, r) = n
    BY DEF SourceOK, InFile, Taken
<1> HIDE DEF a
<1>2. PICK b \in Nat : Placed(f, b, rem, c) /\ b + c.beg = n
    BY <1>1, CompactPlaced
<1>3. InBuffer(c)
    BY <1>1, CompactOK
<1>4. InFile(f, rem, c) /\ Taken(f, rem, c) = n
    BY <1>2, <1>3, PlacedInFile
<1>5. InBuffer(Grown(c)) /\ Placed(f, b, rem, Grown(c)) /\ Grown(c).beg = c.beg
    <2>1. c \in SourceState
        BY <1>3, InBufferFacts
    <2> HIDE DEF c
    <2>2. /\ Grown(c).beg = c.beg /\ Grown(c).end = c.end /\ Grown(c).buf = c.buf
          /\ Grown(c).isEof = c.isEof /\ Grown(c).noMore = c.noMore
          /\ Grown(c).logEnd = c.logEnd /\ Grown(c).logBeg = c.logBeg
        BY <2>1 DEF Grown, SourceState
    <2>3. Placed(f, b, rem, Grown(c))
        BY <1>2, <2>2, SamePlace
    <2> QED
        BY <1>3, <2>2, <2>3, GrownOK
<1>6. InFile(f, rem, Grown(c)) /\ Taken(f, rem, Grown(c)) = n
    BY <1>2, <1>5, PlacedInFile
<1> HIDE DEF c
<1>7. PICK d \in Nat : InBuffer(q) /\ q.beg <= q.end - q.beg /\ Placed(f, d, rem, q) /\ d + q.beg = n
    <2>1. CASE grows
        <3>1. q = Compact(Grown(c))
            BY <2>1
        <3>2. PICK d \in Nat : /\ Placed(f, d, rem, Compact(Grown(c)))
                               /\ d + Compact(Grown(c)).beg = b + Grown(c).beg
            BY <1>5, CompactPlaced
        <3>3. /\ InBuffer(Compact(Grown(c)))
              /\ Compact(Grown(c)).beg <= Compact(Grown(c)).end - Compact(Grown(c)).beg
            BY <1>5, CompactOK
        <3> QED
            BY <1>2, <1>5, <3>1, <3>2, <3>3
    <2>2. CASE ~grows
        <3>1. c.beg <= c.end - c.beg
            BY <1>1, CompactOK DEF c
        <3> QED
            BY <1>2, <1>3, <2>2, <3>1
    <2> QED
        BY <2>1, <2>2
<1> HIDE DEF q
<1>8. Placed(f, d, left, Fread(q, rem)) /\ Fread(q, rem).beg = q.beg
    BY <1>7, FreadPlaced
<1>9. InBuffer(Fread(q, rem)) /\ left \in Text
    BY <1>7, FreadOK DEF SourceOK
<1>10. InFile(f, left, Fread(q, rem)) /\ Taken(f, left, Fread(q, rem)) = n
    <2> HIDE DEF left
    <2> QED
        BY <1>7, <1>8, <1>9, PlacedInFile
<1> QED
    BY <1>1, <1>4, <1>6, <1>10 DEF c, q, n

\* Where a scan sees an entry begin there is one, and it sees every one that is in
\* the buffer with a byte behind it.
LEMMA BeginsAreStarts ==
    ASSUME NEW f \in Text, NEW a \in Nat, NEW rem \in Text, NEW r,
           InBuffer(r), Placed(f, a, rem, r)
    PROVE  /\ \A b \in MarkBegins(r) : a + b + 1 \in Behind(f, a + r.beg)
           /\ \A p \in Behind(f, a + r.beg) :
                  p < a + r.end => p - a - 1 \in MarkBegins(r)
<1>1. /\ r.beg \in Nat /\ r.end \in Nat /\ Len(f) \in Nat /\ Len(rem) \in Nat
      /\ r.beg <= r.end
    BY InBufferFacts DEF Text
<1>2. Len(f) = a + r.end + Len(rem)
    BY DEF Placed, Window
<1>3. ASSUME NEW b \in MarkBegins(r)
      PROVE  a + b + 1 \in Behind(f, a + r.beg)
    <2>1. b \in Nat /\ r.beg <= b /\ b < r.end - 1 /\ r.buf[b + 1] \in Headers
        BY <1>1 DEF MarkBegins, HdrAt
    <2>2. b + 1 \in 1..r.end /\ a + (b + 1) = a + b + 1
        BY <1>1, <2>1
    <2>3. f[a + b + 1] \in Headers
        BY <2>1, <2>2 DEF Placed, Window
    <2>4. /\ a + b + 1 \in Nat /\ a + b + 1 >= 1 /\ a + b + 1 < Len(f)
          /\ a + b + 1 > a + r.beg /\ (a + b + 1) - 1 = a + b
        BY <1>1, <1>2, <2>1
    <2>5. a + b + 1 = 1 \/ f[a + b] = LF
        <3>1. CASE b = r.beg
            <4>1. f[a + b + 1] # LF
                BY <2>3, HeadersAssumption
            <4>2. a + b = 0
                BY <2>4, <3>1, <4>1 DEF Placed, Consumption
            <4> QED
                BY <1>1, <2>1, <4>2
        <3>2. CASE b # r.beg
            <4>1. r.buf[b] = LF
                BY <3>2 DEF MarkBegins, BeginsLine
            <4>2. b \in 1..r.end
                BY <1>1, <2>1, <3>2
            <4> QED
                BY <4>1, <4>2 DEF Placed, Window
        <3> QED
            BY <3>1, <3>2
    <2>6. a + b + 1 \in Starts(f)
        BY <2>3, <2>4, <2>5, StartsFacts
    <2> QED
        BY <2>4, <2>6 DEF Behind
<1>4. ASSUME NEW p \in Behind(f, a + r.beg), p < a + r.end
      PROVE  p - a - 1 \in MarkBegins(r)
    <2> DEFINE b == p - a - 1
    <2>1. p \in Starts(f) /\ p > a + r.beg
        BY DEF Behind
    <2>2. p \in Nat /\ f[p] \in Headers /\ (p = 1 \/ f[p - 1] = LF)
        BY <2>1, StartsFacts
    <2>3. /\ b \in Nat /\ b \in r.beg..(r.end - 1) /\ b < r.end - 1
          /\ b + 1 \in 1..r.end /\ a + (b + 1) = p
        BY <1>1, <1>4, <2>1, <2>2
    <2>4. r.buf[b + 1] = f[p]
        BY <2>3 DEF Placed, Window
    <2>5. b = r.beg \/ r.buf[b] = LF
        <3>1. CASE b # r.beg
            <4>1. b \in 1..r.end /\ a + b = p - 1 /\ p # 1
                BY <1>1, <2>2, <2>3, <3>1
            <4>2. r.buf[b] = f[a + b]
                BY <4>1 DEF Placed, Window
            <4> QED
                BY <2>2, <4>1, <4>2
        <3> QED
            BY <3>1
    <2> HIDE DEF b
    <2>6. b \in MarkBegins(r)
        BY <2>2, <2>3, <2>4, <2>5 DEF MarkBegins, HdrAt, BeginsLine
    <2> QED
        BY <2>6 DEF b
<1> QED
    BY <1>3, <1>4

\* Where a scan sees the next entry begin there is one, and it sees every one that
\* is in the buffer with a byte behind it.
LEMMA EndsAreStarts ==
    ASSUME NEW f \in Text, NEW a \in Nat, NEW rem \in Text, NEW r,
           InBuffer(r), Placed(f, a, rem, r), NEW b \in Nat
    PROVE  /\ \A e \in MarkEnds(r, b) : a + e + 1 \in Behind(f, a + b + 1)
           /\ \A p \in Behind(f, a + b + 1) :
                  p < a + r.end => p - a - 1 \in MarkEnds(r, b)
<1>1. r.end \in Nat /\ Len(f) \in Nat /\ Len(rem) \in Nat
    BY InBufferFacts DEF Text
<1>2. Len(f) = a + r.end + Len(rem)
    BY DEF Placed, Window
<1>3. ASSUME NEW e \in MarkEnds(r, b)
      PROVE  a + e + 1 \in Behind(f, a + b + 1)
    <2>1. /\ e \in Nat /\ b + 1 <= e /\ e < r.end - 1
          /\ r.buf[e + 1] \in Headers /\ r.buf[e] = LF
        BY <1>1 DEF MarkEnds, HdrAt
    <2>2. e \in 1..r.end /\ e + 1 \in 1..r.end /\ a + (e + 1) = a + e + 1
        BY <1>1, <2>1
    <2>3. f[a + e + 1] \in Headers /\ f[a + e] = LF
        BY <2>1, <2>2 DEF Placed, Window
    <2>4. /\ a + e + 1 \in Nat /\ a + e + 1 >= 1 /\ a + e + 1 < Len(f)
          /\ a + e + 1 > a + b + 1 /\ (a + e + 1) - 1 = a + e
        BY <1>1, <1>2, <2>1
    <2>5. a + e + 1 \in Starts(f)
        BY <2>3, <2>4, StartsFacts
    <2> QED
        BY <2>4, <2>5 DEF Behind
<1>4. ASSUME NEW p \in Behind(f, a + b + 1), p < a + r.end
      PROVE  p - a - 1 \in MarkEnds(r, b)
    <2> DEFINE e == p - a - 1
    <2>1. p \in Starts(f) /\ p > a + b + 1
        BY DEF Behind
    <2>2. p \in Nat /\ f[p] \in Headers /\ (p = 1 \/ f[p - 1] = LF)
        BY <2>1, StartsFacts
    <2>3. /\ e \in Nat /\ e \in (b + 1)..(r.end - 1) /\ e < r.end - 1
          /\ e \in 1..r.end /\ e + 1 \in 1..r.end
          /\ a + (e + 1) = p /\ a + e = p - 1 /\ p # 1
        BY <1>1, <1>4, <2>1, <2>2
    <2>4. r.buf[e + 1] = f[p] /\ r.buf[e] = f[a + e]
        BY <2>3 DEF Placed, Window
    <2>5. r.buf[e + 1] \in Headers /\ r.buf[e] = LF
        BY <2>2, <2>3, <2>4
    <2> HIDE DEF e
    <2>6. e \in MarkEnds(r, b)
        BY <2>3, <2>5 DEF MarkEnds, HdrAt
    <2> QED
        BY <2>6 DEF e
<1> QED
    BY <1>3, <1>4

\* The first begin of a scan is the first entry that was not consumed ...
LEMMA FirstBegin ==
    ASSUME NEW f \in Text, NEW a \in Nat, NEW rem \in Text, NEW r,
           InBuffer(r), Placed(f, a, rem, r), MarkBegins(r) # {}
    PROVE  /\ First(MarkBegins(r)) \in Nat
           /\ r.beg <= First(MarkBegins(r)) /\ First(MarkBegins(r)) < r.end - 1
           /\ IsFirst(a + First(MarkBegins(r)) + 1, Behind(f, a + r.beg))
<1> DEFINE b == First(MarkBegins(r))
           p == a + b + 1
<1>1. MarkBegins(r) \in SUBSET Nat /\ r.end \in Nat /\ r.beg \in Nat
    BY MarkSets, InBufferFacts
<1>2. b \in MarkBegins(r) /\ \A j \in MarkBegins(r) : b <= j
    BY <1>1, FirstIsLeast
<1>3. b \in Nat /\ r.beg <= b /\ b < r.end - 1
    BY <1>1, <1>2, MarkSets
<1> HIDE DEF b
<1>4. p \in Behind(f, a + r.beg)
    BY <1>2, BeginsAreStarts
<1>5. ASSUME NEW q \in Behind(f, a + r.beg)
      PROVE  p <= q
    <2>1. q \in Nat
        BY <1>1, BehindFacts
    <2>2. CASE q < a + r.end
        <3>1. b <= q - a - 1
            BY <1>2, <2>2, BeginsAreStarts
        <3> QED
            BY <1>3, <2>1, <3>1
    <2>3. CASE ~(q < a + r.end)
        BY <1>1, <1>3, <2>1, <2>3
    <2> QED
        BY <2>2, <2>3
<1> QED
    BY <1>3, <1>4, <1>5 DEF IsFirst, b

\* ... and the first end behind it is where that entry ends.
LEMMA FirstEnd ==
    ASSUME NEW f \in Text, NEW a \in Nat, NEW rem \in Text, NEW r,
           InBuffer(r), Placed(f, a, rem, r), NEW b \in Nat, MarkEnds(r, b) # {}
    PROVE  /\ First(MarkEnds(r, b)) \in Nat /\ First(MarkEnds(r, b)) >= b + 1
           /\ EntryEnds(f, a + b + 1, a + (First(MarkEnds(r, b)) - 1))
<1> DEFINE e == First(MarkEnds(r, b))
           p == a + e + 1
<1>1. MarkEnds(r, b) \in SUBSET Nat /\ r.end \in Nat
    BY MarkSets, InBufferFacts
<1>2. e \in MarkEnds(r, b) /\ \A j \in MarkEnds(r, b) : e <= j
    BY <1>1, FirstIsLeast
<1>3. e \in Nat /\ e < r.end - 1 /\ e >= b + 1
    BY <1>1, <1>2, MarkSets
<1> HIDE DEF e
<1>4. p \in Behind(f, a + b + 1)
    BY <1>2, EndsAreStarts
<1>5. ASSUME NEW q \in Behind(f, a + b + 1)
      PROVE  p <= q
    <2>1. q \in Nat
        BY BehindFacts
    <2>2. CASE q < a + r.end
        <3>1. e <= q - a - 1
            BY <1>2, <2>2, EndsAreStarts
        <3> QED
            BY <1>3, <2>1, <3>1
    <2>3. CASE ~(q < a + r.end)
        BY <1>1, <1>3, <2>1, <2>3
    <2> QED
        BY <2>2, <2>3
<1>6. a + (e - 1) + 2 = p
    BY <1>3
<1>7. EntryEnds(f, a + b + 1, a + (e - 1))
    BY <1>4, <1>5, <1>6 DEF EntryEnds, IsFirst
<1> QED
    BY <1>3, <1>7 DEF e

\* A scan marks the first entry that was not consumed, or finds that there is none,
\* or asks for more.
LEMMA MarkPlaced ==
    ASSUME NEW f \in Text, NEW a \in Nat, NEW rem \in Text, NEW r,
           InBuffer(r), Placed(f, a, rem, r)
    PROVE  /\ Placed(f, a, rem, Mark(r))
           /\ Mark(r).beg = r.beg
<1>1. /\ r \in SourceState /\ r.beg \in Nat /\ r.end \in Nat /\ Len(f) \in Nat
      /\ r.isEof \in BOOLEAN
    BY InBufferFacts DEF Text
<1>2. r.isEof => Len(f) = a + r.end
    BY <1>1 DEF Placed, Window
<1> DEFINE q == Mark(r)
<1>3. CASE MarkBegins(r) = {}
    <2>1. q = IF r.isEof THEN [r EXCEPT !.noMore = TRUE] ELSE [r EXCEPT !.needMore = TRUE]
        BY <1>3 DEF Mark
    <2> HIDE DEF q
    <2>2. /\ q.beg = r.beg /\ q.end = r.end /\ q.buf = r.buf /\ q.isEof = r.isEof
          /\ q.logBeg = r.logBeg /\ q.logEnd = r.logEnd
          /\ r.isEof \/ q.noMore = r.noMore
        BY <1>1, <2>1 DEF SourceState
    <2>3. r.isEof => Behind(f, a + r.beg) = {}
        <3> SUFFICES ASSUME r.isEof, NEW p \in Behind(f, a + r.beg)
                     PROVE  FALSE
            OBVIOUS
        <3>1. p < a + r.end
            BY <1>2, StartsFacts DEF Behind
        <3> QED
            BY <1>3, <3>1, BeginsAreStarts
    <2>4. Window(f, a, rem, q) /\ Consumption(f, a, q) /\ Marks(f, a, q)
        BY <2>2, <2>3 DEF Placed, Window, Consumption, Marks
    <2> QED
        BY <2>2, <2>4 DEF Placed, q
<1>4. CASE MarkBegins(r) # {}
    <2> DEFINE b == First(MarkBegins(r))
               ends == MarkEnds(r, b)
               e == First(ends)
               p == a + b + 1
    <2>1. /\ b \in Nat /\ r.beg <= b /\ b < r.end - 1
          /\ IsFirst(p, Behind(f, a + r.beg))
        BY <1>4, FirstBegin
    <2>2. Mark(r) = IF ends # {} THEN [r EXCEPT !.logBeg = b, !.logEnd = e - 1]
                    ELSE IF r.isEof THEN [r EXCEPT !.logBeg = b, !.logEnd = r.end - 1]
                    ELSE [r EXCEPT !.logBeg = b, !.needMore = TRUE]
        BY <1>4 DEF Mark, DropTrailingLF
    <2> HIDE DEF b
    <2>3. ends # {} => /\ e \in Nat /\ e >= b + 1 /\ EntryEnds(f, p, a + (e - 1))
        BY <2>1, FirstEnd
    <2>4. (ends = {} /\ r.isEof) => EntryEnds(f, p, a + (r.end - 1))
        <3> SUFFICES ASSUME ends = {}, r.isEof
                     PROVE  EntryEnds(f, p, a + (r.end - 1))
            OBVIOUS
        <3>1. Behind(f, p) = {}
            <4> SUFFICES ASSUME NEW x \in Behind(f, p)
                         PROVE  FALSE
                OBVIOUS
            <4>1. x < a + r.end
                BY <1>2, StartsFacts DEF Behind
            <4> QED
                BY <2>1, <4>1, EndsAreStarts
        <3>2. a + (r.end - 1) + 1 = Len(f)
            BY <1>1, <1>2
        <3> QED
            BY <3>1, <3>2 DEF EntryEnds
    <2>5. /\ q.beg = r.beg /\ q.end = r.end /\ q.buf = r.buf /\ q.isEof = r.isEof
          /\ q.logBeg = b /\ q.noMore = r.noMore
          /\ q.logEnd = IF ends # {} THEN e - 1
                        ELSE IF r.isEof THEN r.end - 1 ELSE r.logEnd
        BY <1>1, <2>2 DEF SourceState
    <2> HIDE DEF q, e, ends
    <2>6. Window(f, a, rem, q) /\ Consumption(f, a, q)
        BY <2>5 DEF Placed, Window, Consumption
    <2>7. Marks(f, a, q)
        <3>1. CASE ends # {} \/ r.isEof
            <4>1. EntryEnds(f, p, a + q.logEnd)
                BY <2>3, <2>4, <2>5, <3>1
            <4>2. q.logEnd \in Nat
                BY <1>1, <2>1, <2>3, <2>5, <3>1
            <4>3. p \in Starts(f)
                BY <2>1 DEF IsFirst, Behind
            <4>4. p <= a + q.logEnd
                BY <4>1, <4>2, <4>3, EntryText
            <4>5. q.logBeg < q.logEnd
                BY <2>1, <2>5, <4>2, <4>4
            <4> QED
                BY <2>1, <2>5, <4>1, <4>5 DEF Marks
        <3>2. CASE ~(ends # {} \/ r.isEof)
            <4>1. q.logEnd = r.logEnd
                BY <2>5, <3>2
            <4>2. CASE r.logEnd = r.beg
                BY <2>5, <4>1, <4>2 DEF Marks
            <4>3. CASE r.logEnd # r.beg
                <5>1. /\ r.logBeg < r.logEnd
                      /\ IsFirst(a + r.logBeg + 1, Behind(f, a + r.beg))
                      /\ EntryEnds(f, a + r.logBeg + 1, a + r.logEnd)
                    BY <4>3 DEF Placed, Marks
                <5>2. r.logBeg = b
                    <6>1. a + r.logBeg + 1 <= p /\ p <= a + r.logBeg + 1
                        BY <2>1, <5>1 DEF IsFirst
                    <6>2. r.logBeg \in Nat
                        BY InBufferFacts
                    <6> QED
                        BY <2>1, <6>1, <6>2
                <5> QED
                    BY <2>1, <2>5, <4>1, <5>1, <5>2 DEF Marks
            <4> QED
                BY <4>2, <4>3
        <3> QED
            BY <3>1, <3>2
    <2> QED
        BY <2>5, <2>6, <2>7 DEF Placed, q
<1> QED
    BY <1>3, <1>4

\* A scan keeps what was consumed.
LEMMA MarkInFile ==
    ASSUME NEW f \in Text, NEW rem \in Text, NEW r,
           SourceOK(r), Ready(r), InFile(f, rem, r)
    PROVE  InFile(f, rem, Mark(r)) /\ Taken(f, rem, Mark(r)) = Taken(f, rem, r)
<1> DEFINE a == At(f, rem, r)
<1>1. InBuffer(r) /\ a \in Nat /\ Placed(f, a, rem, r)
    BY DEF SourceOK, InFile
<1>2. Taken(f, rem, r) = a + r.beg
    BY DEF Taken
<1>3. InBuffer(Mark(r))
    BY MarkOK DEF SourceOK
<1> HIDE DEF a
<1>4. Placed(f, a, rem, Mark(r)) /\ Mark(r).beg = r.beg
    BY <1>1, MarkPlaced
<1> QED
    BY <1>1, <1>2, <1>3, <1>4, PlacedInFile

\* Equal parts of two texts.
LEMMA SamePart ==
    ASSUME NEW t \in Text, NEW m \in Nat, NEW n \in Nat, m < n, n <= Len(t),
           NEW u \in Text, NEW k \in Nat, NEW l \in Nat, l <= Len(u), l - k = n - m,
           \A i \in 1..(n - m) : t[m + i] = u[k + i]
    PROVE  /\ SubSeq(t, m + 1, n) = SubSeq(u, k + 1, l)
           /\ Len(SubSeq(t, m + 1, n)) > 0
           /\ SubSeq(t, m + 1, n)[1] = t[m + 1]
<1> DEFINE x == SubSeq(t, m + 1, n)
           y == SubSeq(u, k + 1, l)
<1>1. k <= l /\ m <= n /\ n - m > 0
    OBVIOUS
<1>2. x \in Text /\ Len(x) = n - m /\ \A i \in 1..(n - m) : x[i] = t[m + i]
    BY <1>1, SubText, SubTextAt
<1>3. y \in Text /\ Len(y) = l - k /\ \A i \in 1..(l - k) : y[i] = u[k + i]
    BY <1>1, SubText, SubTextAt
<1> HIDE DEF x, y
<1>4. x \in Seq(Nat) /\ y \in Seq(Nat) /\ Len(x) = Len(y)
    BY <1>2, <1>3 DEF Text
<1>5. \A i \in 1..Len(x) : x[i] = y[i]
    BY <1>2, <1>3
<1>6. x = y
    BY <1>4, <1>5, SeqEqual
<1>7. 1 \in 1..(n - m)
    BY <1>1
<1> QED
    BY <1>1, <1>2, <1>6, <1>7 DEF x, y

\* The entry that a scan has marked, if it is still to be consumed.
LEMMA MarkedEntry ==
    ASSUME NEW f \in Text, NEW rem \in Text, NEW r,
           SourceOK(r), Found(r), InFile(f, rem, r)
    PROVE  \E p \in Starts(f) :
               /\ IsFirst(p, Behind(f, Taken(f, rem, r)))
               /\ p = At(f, rem, r) + r.logBeg + 1
               /\ EntryEnds(f, p, At(f, rem, r) + r.logEnd)
               /\ LogEntry(r) = Entry(f, p)
               /\ Len(LogEntry(r)) > 0
               /\ LogEntry(r)[1] = f[p]
<1> DEFINE a == At(f, rem, r)
           p == a + r.logBeg + 1
           n == a + r.logEnd
           m == r.logEnd - r.logBeg
<1>1. /\ InBuffer(r) /\ r \in SourceState /\ r.buf \in Text
      /\ r.beg \in Nat /\ r.end \in Nat /\ r.logBeg \in Nat /\ r.logEnd \in Nat
      /\ r.end = Len(r.buf)
      /\ r.beg <= r.logBeg /\ r.logBeg < r.logEnd /\ r.logEnd < r.end
    BY InBufferFacts DEF SourceOK, Found
<1>2. a \in Nat /\ Placed(f, a, rem, r) /\ Taken(f, rem, r) = a + r.beg
    BY DEF InFile, Taken
<1> HIDE DEF a
<1>3. IsFirst(p, Behind(f, a + r.beg)) /\ EntryEnds(f, p, n)
    <2>1. r.logEnd # r.beg
        BY <1>1
    <2> QED
        BY <1>2, <2>1 DEF Placed, Marks
<1>4. p \in Starts(f)
    BY <1>3 DEF IsFirst, Behind
<1>5. n \in Nat /\ m \in Nat /\ m > 0
    BY <1>1, <1>2
<1>6. Entry(f, p) = SubSeq(f, p, n) /\ n < Len(f)
    BY <1>3, <1>4, <1>5, EntryText
<1>7. /\ a + r.logBeg \in Nat /\ n <= Len(f) /\ n - (a + r.logBeg) = m
      /\ r.logEnd <= Len(r.buf)
    <2>1. Len(f) \in Nat
        BY DEF Text
    <2>2. n < Len(f)
        BY <1>6
    <2>3. a \in Nat /\ r.logBeg \in Nat /\ r.logEnd \in Nat
          /\ r.logEnd < r.end /\ r.end = Len(r.buf) /\ r.end \in Nat
        BY <1>1, <1>2
    <2>4. a + r.logBeg \in Nat /\ n - (a + r.logBeg) = m
        BY <2>3
    <2>5. n <= Len(f)
        BY <1>5, <2>1, <2>2
    <2>6. r.logEnd <= Len(r.buf)
        BY <2>3
    <2> QED
        BY <2>4, <2>5, <2>6
<1>8. \A i \in 1..m : r.buf[r.logBeg + i] = f[(a + r.logBeg) + i]
    <2> SUFFICES ASSUME NEW i \in 1..m
                 PROVE  r.buf[r.logBeg + i] = f[(a + r.logBeg) + i]
        OBVIOUS
    <2>1. r.logBeg + i \in 1..r.end /\ a + (r.logBeg + i) = (a + r.logBeg) + i
        BY <1>1, <1>2
    <2> QED
        BY <1>2, <2>1 DEF Placed, Window
<1>9. /\ SubSeq(r.buf, r.logBeg + 1, r.logEnd) = SubSeq(f, p, n)
      /\ Len(SubSeq(r.buf, r.logBeg + 1, r.logEnd)) > 0
      /\ SubSeq(r.buf, r.logBeg + 1, r.logEnd)[1] = r.buf[r.logBeg + 1]
    <2> DEFINE k == a + r.logBeg
               b == r.buf
               x == r.logBeg
               y == r.logEnd
    <2>1. k \in Nat /\ n \in Nat /\ n <= Len(f) /\ n - k = y - x /\ p = k + 1
        BY <1>5, <1>7
    <2>2. \A i \in 1..(y - x) : b[x + i] = f[k + i]
        BY <1>8
    <2>3. b \in Text /\ x \in Nat /\ y \in Nat /\ x < y /\ y <= Len(b)
        BY <1>1, <1>7
    <2> HIDE DEF k, n, p, m, b, x, y
    <2>4. /\ SubSeq(b, x + 1, y) = SubSeq(f, k + 1, n)
          /\ Len(SubSeq(b, x + 1, y)) > 0
          /\ SubSeq(b, x + 1, y)[1] = b[x + 1]
        BY <2>1, <2>2, <2>3, SamePart
    <2> QED
        BY <2>1, <2>4 DEF b, x, y
<1>10. r.buf[r.logBeg + 1] = f[p]
    <2>1. 1 \in 1..m
        BY <1>5
    <2> QED
        BY <1>8, <2>1
<1> QED
    BY <1>2, <1>3, <1>4, <1>6, <1>9, <1>10 DEF a, LogEntry

\* Consuming the marked entry takes it, and no other, from what is ahead.
LEMMA ConsumedInFile ==
    ASSUME NEW f \in Text, NEW rem \in Text, NEW r,
           SourceOK(r), Found(r), ~r.needMore, InFile(f, rem, r),
           NEW p \in Starts(f), p = At(f, rem, r) + r.logBeg + 1
    PROVE  /\ InFile(f, rem, Consumed(r))
           /\ Behind(f, Taken(f, rem, Consumed(r))) = Behind(f, Taken(f, rem, r)) \ {p}
<1> DEFINE a == At(f, rem, r)
           q == Consumed(r)
           n == a + r.logEnd
<1>1. /\ InBuffer(r) /\ r \in SourceState
      /\ r.beg \in Nat /\ r.end \in Nat /\ r.logBeg \in Nat /\ r.logEnd \in Nat
      /\ r.beg <= r.logBeg /\ r.logBeg < r.logEnd /\ r.logEnd < r.end
    BY InBufferFacts DEF SourceOK, Found
<1>2. a \in Nat /\ Placed(f, a, rem, r) /\ Taken(f, rem, r) = a + r.beg
    BY DEF InFile, Taken
<1>3. /\ q.beg = r.logEnd /\ q.logEnd = r.logEnd /\ q.end = r.end /\ q.buf = r.buf
      /\ q.isEof = r.isEof /\ q.noMore = r.noMore
    BY <1>1 DEF Consumed, SourceState
<1>4. InBuffer(q)
    BY ConsumedOK DEF SourceOK
<1>13. p = a + r.logBeg + 1
    OBVIOUS
<1> HIDE DEF a, q
<1>5. p \in Nat /\ n \in Nat /\ p <= n /\ a + r.beg < p /\ Len(f) \in Nat
    <2>1. Len(f) \in Nat
        BY DEF Text
    <2>2. a \in Nat /\ r.beg \in Nat /\ r.logBeg \in Nat /\ r.logEnd \in Nat
        BY <1>1, <1>2
    <2>3. r.beg <= r.logBeg /\ r.logBeg < r.logEnd
        BY <1>1
    <2> QED
        BY <1>13, <2>1, <2>2, <2>3
<1>6. IsFirst(p, Behind(f, a + r.beg)) /\ EntryEnds(f, p, n)
    <2>1. r.logEnd # r.beg
        BY <1>1
    <2> QED
        BY <1>2, <1>13, <2>1 DEF Placed, Marks
\* Nothing starts between the entry and what starts next.
<1>7. Behind(f, n) = Behind(f, p)
    <2>1. \A x \in Behind(f, p) : x > n
        <3> SUFFICES ASSUME NEW x \in Behind(f, p)
                     PROVE  x > n
            OBVIOUS
        <3>1. n + 2 <= x
            BY <1>6 DEF EntryEnds, IsFirst
        <3>2. x \in Nat
            BY <1>5, BehindFacts
        <3> QED
            BY <1>5, <3>1, <3>2
    <2>2. \A x \in Starts(f) : x \in Nat
        BY StartsFacts
    <2>3. \A x \in Starts(f) : x > n => x > p
        BY <1>5, <2>2
    <2> QED
        BY <2>1, <2>3 DEF Behind
<1>8. Behind(f, p) = Behind(f, a + r.beg) \ {p}
    <2>1. \A x \in Behind(f, a + r.beg) : p <= x
        BY <1>6 DEF IsFirst
    <2>2. \A x \in Starts(f) : x \in Nat
        BY StartsFacts
    <2>3. \A x \in Starts(f) : x > p => x > a + r.beg /\ x # p
        BY <1>1, <1>2, <1>5, <2>2
    <2>4. \A x \in Behind(f, a + r.beg) : x # p => x > p
        <3> SUFFICES ASSUME NEW x \in Behind(f, a + r.beg), x # p
                     PROVE  x > p
            OBVIOUS
        <3>1. x \in Nat /\ p <= x
            BY <2>1, <2>2 DEF Behind
        <3> QED
            BY <1>5, <3>1
    <2> QED
        BY <2>3, <2>4 DEF Behind
<1>9. Window(f, a, rem, q) /\ Marks(f, a, q)
    BY <1>2, <1>3 DEF Placed, Window, Marks
<1>10. Consumption(f, a, q)
    <2>1. n + 1 = Len(f) \/ f[n + 1] = LF
        <3>1. CASE Behind(f, p) = {}
            BY <1>6, <3>1 DEF EntryEnds
        <3>2. CASE Behind(f, p) # {}
            <4>1. n + 2 \in Starts(f)
                BY <1>6, <3>2 DEF EntryEnds, IsFirst, Behind
            <4>2. n + 2 # 1 /\ (n + 2) - 1 = n + 1
                BY <1>5
            <4> QED
                BY <4>1, <4>2, StartsFacts
        <3> QED
            BY <3>1, <3>2
    <2>2. q.noMore => Behind(f, n) = {}
        BY <1>2, <1>3, <1>7, <1>8 DEF Placed, Consumption
    <2> QED
        BY <1>3, <2>1, <2>2 DEF Consumption
<1>11. Placed(f, a, rem, q)
    BY <1>9, <1>10 DEF Placed
<1>12. InFile(f, rem, q) /\ Taken(f, rem, q) = n
    BY <1>2, <1>3, <1>4, <1>11, PlacedInFile
<1> QED
    BY <1>2, <1>7, <1>8, <1>12 DEF q

-----------------------------------------------------------------------------
(* All sources.                                                            *)

\* Every source knows where it is in its file.
PlacesInv ==
    /\ input \in [Source -> Text]
    /\ \A s \in Source : InFile(input[s], unread[s], src[s])

\* A source may move its buffer, as long as it consumes nothing.
LEMMA PlaceKept ==
    ASSUME PlacesInv, input' = input, NEW s \in Source,
           \A q \in Source : q # s => src'[q] = src[q] /\ unread'[q] = unread[q],
           InFile(input[s], unread'[s], src'[s]),
           Taken(input[s], unread'[s], src'[s]) = Taken(input[s], unread[s], src[s])
    PROVE  PlacesInv' /\ \A q \in Source : Ahead(q)' = Ahead(q)
<1>1. \A q \in Source : /\ InFile(input[q], unread'[q], src'[q])
                        /\ Taken(input[q], unread'[q], src'[q])
                               = Taken(input[q], unread[q], src[q])
    BY DEF PlacesInv
<1>2. PlacesInv'
    BY <1>1 DEF PlacesInv
<1>3. ASSUME NEW q \in Source
      PROVE  Ahead(q)' = Ahead(q)
    BY <1>1 DEF Ahead
<1> QED
    BY <1>2, <1>3

\* A refill consumes nothing.
LEMMA RefillPlaces ==
    ASSUME CtlTypeOK, DataInv, PlacesInv, input' = input,
           NEW t \in Thread, RefillBufferForSourceByArg(t)
    PROVE  PlacesInv' /\ \A s \in Source : Ahead(s)' = Ahead(s)
<1> DEFINE s == job[t].task.arg
           f == input[s]
           rem == unread[s]
           r == Compact(src[s])
           grows == ~MustRead(r) /\ r.needMore
           q == IF grows THEN Compact(Grown(r)) ELSE r
           left == SubSeq(rem, FreadLen(q, rem) + 1, Len(rem))
           before == Taken(f, rem, src[s])
<1>1. s \in Source
    BY RunningTask DEF RefillBufferForSourceByArg, Runs, PoolFn
<1>2. /\ src \in [Source -> SourceState] /\ unread \in [Source -> Text]
      /\ SourceOK(src[s]) /\ rem \in Text /\ f \in Text /\ InFile(f, rem, src[s])
    BY <1>1 DEF DataInv, PlacesInv
<1>3. /\ InFile(f, rem, r) /\ Taken(f, rem, r) = before
      /\ InFile(f, rem, Grown(r)) /\ Taken(f, rem, Grown(r)) = before
      /\ (MustRead(r) \/ grows) =>
             InFile(f, left, Fread(q, rem)) /\ Taken(f, left, Fread(q, rem)) = before
    BY <1>2, RefillInFile
\* The source as it is afterwards, and what is left of its file.
<1>4. \E x, y : /\ InFile(f, y, x) /\ Taken(f, y, x) = before
                /\ src' = [src EXCEPT ![s] = x] /\ unread' = [unread EXCEPT ![s] = y]
    <2>1. CASE /\ MustRead(r) \/ grows
               /\ src' = [src EXCEPT ![s] = Fread(q, rem)]
               /\ unread' = [unread EXCEPT ![s] = left]
        <3>1. InFile(f, left, Fread(q, rem)) /\ Taken(f, left, Fread(q, rem)) = before
            BY <1>3, <2>1
        <3> HIDE DEF f, q, left, rem, s, before
        <3> QED
            BY <2>1, <3>1
    <2>2. CASE \/ src' = [src EXCEPT ![s] = r] /\ unread' = unread
               \/ src' = [src EXCEPT ![s] = Grown(r)] /\ unread' = unread
               \/ src' = src /\ unread' = unread
        <3>1. /\ unread' = [unread EXCEPT ![s] = rem]
              /\ src = [src EXCEPT ![s] = src[s]]
            BY <1>1, <1>2, <2>2
        <3>2. InFile(f, rem, src[s]) /\ Taken(f, rem, src[s]) = before
            BY <1>2
        <3> HIDE DEF f, r, rem, s, before
        <3> QED
            BY <1>3, <2>2, <3>1, <3>2
    <2> QED
        BY <2>1, <2>2 DEF RefillBufferForSourceByArg
<1> HIDE DEF f, s, rem, left, q, r, grows
<1>5. PICK x, y : /\ InFile(f, y, x) /\ Taken(f, y, x) = before
                  /\ src' = [src EXCEPT ![s] = x] /\ unread' = [unread EXCEPT ![s] = y]
    BY <1>4
<1>6. /\ src'[s] = x /\ unread'[s] = y
      /\ \A p \in Source : p # s => src'[p] = src[p] /\ unread'[p] = unread[p]
    BY <1>1, <1>2, <1>5
<1> QED
    BY <1>1, <1>5, <1>6, PlaceKept DEF f, rem

\* A scan consumes nothing.
LEMMA MarkPlaces ==
    ASSUME BatchInv, BufferInv, PlacesInv, input' = input,
           NEW t \in Thread, MarkLogEntryForSourceByArg(t)
    PROVE  PlacesInv' /\ \A s \in Source : Ahead(s)' = Ahead(s)
<1> DEFINE s == job[t].task.arg
<1>1. /\ CtlTypeOK /\ app \in AppState /\ MarkProgress
      /\ src \in [Source -> SourceState] /\ unread \in [Source -> Text]
      /\ \A q \in Source : SourceOK(src[q])
    BY DEF BatchInv, CtlTypeOK, BufferInv, DataInv
<1>2. /\ job[t].at = "run" /\ job[t].task.fn = "markLogEntryForSourceByArg" /\ pc # "abort"
      /\ src' = [src EXCEPT ![s] = Mark(src[s])] /\ unread' = unread
    BY DEF MarkLogEntryForSourceByArg, Runs
<1>3. s \in Source
    BY <1>1, <1>2, RunningTask DEF PoolFn
<1>4. app.numLogMarksRunning > 0
    <2>1. Marking
        BY <1>2 DEF BatchInv, Refilling, BatchOf, Control, PoolQuiet, Idle
    <2>2. Outstanding \in Int /\ Outstanding >= 1
        BY <1>1, <1>2, BusyCounts DEF Idle
    <2>3. app.numLogMarksRunning \in Int /\ Outstanding <= app.numLogMarksRunning
        BY <1>1, <2>1 DEF AppState, Marking, CountOf
    <2> QED
        BY <2>2, <2>3
<1>5. Ready(src[s])
    BY <1>1, <1>2, <1>3, <1>4 DEF MarkProgress
<1>6. /\ InFile(input[s], unread[s], Mark(src[s]))
      /\ Taken(input[s], unread[s], Mark(src[s])) = Taken(input[s], unread[s], src[s])
    BY <1>1, <1>3, <1>5, MarkInFile DEF PlacesInv
<1> HIDE DEF s
<1>7. src'[s] = Mark(src[s]) /\ \A q \in Source : q # s => src'[q] = src[q]
    BY <1>1, <1>2, <1>3
<1> QED
    BY <1>2, <1>3, <1>6, <1>7, PlaceKept

\* A file that was opened has not been read.
LEMMA OpenPlaces ==
    ASSUME BatchInv, BatchInv', BufferInv, PlacesInv, input' = input, OpenSrcFiles
    PROVE  PlacesInv' /\ \A s \in Source : Ahead(s)' = Ahead(s)
<1>1. \A s \in Source : src[s] = FreshSource
    <2>1. ChainInv /\ Queued("openSrcFiles")
        BY HandlerStarts DEF OpenSrcFiles, ControlFn, EnvFn
    <2> QED
        BY <2>1 DEF ChainInv
<1>2. unread' = unread /\ \A s \in Source : \E c : src'[s] = [FreshSource EXCEPT !.cap = c]
    <2>1. unread' = unread
        BY DEF OpenSrcFiles
    <2>2. ASSUME NEW s \in Source
          PROVE  \E c : src'[s] = [src[s] EXCEPT !.cap = c]
        <3>1. CASE src' = [q \in Source |-> [src[q] EXCEPT !.cap = InitCap]]
            <4>1. src'[s] = [src[s] EXCEPT !.cap = InitCap]
                BY <3>1
            <4> QED
                BY <4>1
        <3>2. CASE \E z \in Source :
                       src' = [q \in Source |-> [src[q] EXCEPT !.cap = IF q < z THEN InitCap ELSE @]]
            <4>1. PICK z \in Source :
                       src' = [q \in Source |-> [src[q] EXCEPT !.cap = IF q < z THEN InitCap ELSE @]]
                BY <3>2
            <4>2. src'[s] = [src[s] EXCEPT !.cap = IF s < z THEN InitCap ELSE @]
                BY <4>1
            <4> QED
                BY <4>2
        <3> QED
            BY <3>1, <3>2 DEF OpenSrcFiles
    <2> QED
        BY <1>1, <2>1, <2>2
<1>3. ASSUME NEW s \in Source
      PROVE  /\ InFile(input[s], unread[s], src'[s])
             /\ Taken(input[s], unread[s], src'[s]) = Taken(input[s], unread[s], src[s])
    <2> DEFINE q == src'[s]
               r == src[s]
    <2>1. /\ q.beg = r.beg /\ q.end = r.end /\ q.buf = r.buf /\ q.isEof = r.isEof
          /\ q.noMore = r.noMore /\ q.logEnd = r.logEnd /\ q.logBeg = r.logBeg
        <3>1. PICK c : src'[s] = [FreshSource EXCEPT !.cap = c]
            BY <1>2
        <3>2. r = FreshSource /\ q = [FreshSource EXCEPT !.cap = c]
            BY <1>1, <3>1
        <3> HIDE DEF q, r
        <3> QED
            BY <3>2 DEF FreshSource
    <2>2. InFile(input[s], unread[s], r)
        BY DEF PlacesInv
    <2> HIDE DEF q, r
    <2>3. At(input[s], unread[s], q) = At(input[s], unread[s], r)
        BY <2>1 DEF At
    <2>4. InFile(input[s], unread[s], q)
        BY <2>1, <2>2, <2>3, SamePlace DEF InFile
    <2>5. Taken(input[s], unread[s], q) = Taken(input[s], unread[s], r)
        BY <2>1, <2>3 DEF Taken
    <2> QED
        BY <2>4, <2>5 DEF q, r
<1>4. PlacesInv'
    BY <1>2, <1>3 DEF PlacesInv
<1>5. ASSUME NEW s \in Source
      PROVE  Ahead(s)' = Ahead(s)
    BY <1>2, <1>3 DEF Ahead
<1> QED
    BY <1>4, <1>5

\* Only writeLowestEntryToDst() consumes or writes anything.
LEMMA OnlyOneConsumes ==
    ASSUME BatchInv, BatchInv', BufferInv, PlacesInv, [RefNext]_RefVars,
           ~WriteLowestEntryToDst
    PROVE  /\ PlacesInv' /\ \A s \in Source : Ahead(s)' = Ahead(s)
           /\ stdout' = stdout /\ lastMsg' = lastMsg /\ input' = input
<1>1. input' = input /\ ([Next]_vars)
    BY DEF RefNext, RefVars
<1>2. ASSUME src' = src /\ unread' = unread
      PROVE  PlacesInv' /\ \A s \in Source : Ahead(s)' = Ahead(s)
    <2>1. PlacesInv'
        BY <1>1, <1>2 DEF PlacesInv
    <2>2. ASSUME NEW s \in Source
          PROVE  Ahead(s)' = Ahead(s)
        BY <1>1, <1>2 DEF Ahead
    <2> QED
        BY <2>1, <2>2
<1>3. CASE \E t \in Thread : RefillBufferForSourceByArg(t)
    <2>1. CtlTypeOK /\ DataInv
        BY DEF BatchInv, BufferInv
    <2> QED
        BY <1>1, <1>3, <2>1, RefillPlaces DEF RefillBufferForSourceByArg
<1>4. CASE \E t \in Thread : MarkLogEntryForSourceByArg(t)
    BY <1>1, <1>4, MarkPlaces DEF MarkLogEntryForSourceByArg
<1>5. CASE OpenSrcFiles
    BY <1>1, <1>5, OpenPlaces DEF OpenSrcFiles
<1>6. \/ src' = src /\ unread' = unread /\ stdout' = stdout /\ lastMsg' = lastMsg
      \/ OpenSrcFiles
      \/ \E t \in Thread : RefillBufferForSourceByArg(t) \/ MarkLogEntryForSourceByArg(t)
    <2>1. CASE Loop
        BY <2>1 DEF Loop, LoopEnque, RefillSrcBuffersTurn, MarkLogEntriesTurn, PoolEnque,
           InitStuff, RefillSrcBuffers, OnOneRefillDone,
           MarkLogEntriesForeachSource, MarkLogEntryForSourceDone,
           FindOldestLogEntryFromAllHeads, FindOldestTurn, FindOldestEnd,
           RunUntilDoneReturns, JoinBlocking, dataVars
    <2>2. CASE \E t \in Thread : PoolThread(t)
        BY <2>2 DEF PoolThread, TakeTask, ThreadEnque, dataVars
    <2>3. CASE Terminated \/ UNCHANGED vars
        BY <2>3 DEF Terminated, vars, dataVars
    <2> QED
        BY <1>1, <2>1, <2>2, <2>3 DEF Next
<1>7. OpenSrcFiles => stdout' = stdout /\ lastMsg' = lastMsg
    BY DEF OpenSrcFiles
<1>8. ASSUME NEW t \in Thread, RefillBufferForSourceByArg(t) \/ MarkLogEntryForSourceByArg(t)
      PROVE  stdout' = stdout /\ lastMsg' = lastMsg
    BY <1>8 DEF RefillBufferForSourceByArg, MarkLogEntryForSourceByArg
<1> QED
    BY <1>1, <1>2, <1>3, <1>4, <1>5, <1>6, <1>7, <1>8

\* The entry of a source that is neither exhausted nor in need of more.
LEMMA HeadIsFirst ==
    ASSUME BufferInv, PlacesInv, NEW s \in Source, Found(src[s])
    PROVE  \E p \in Starts(input[s]) :
               /\ IsFirst(p, Ahead(s))
               /\ p = At(input[s], unread[s], src[s]) + src[s].logBeg + 1
               /\ LogEntry(src[s]) = Entry(input[s], p)
               /\ Len(LogEntry(src[s])) > 0
               /\ LogEntry(src[s])[1] = input[s][p]
<1>1. /\ input[s] \in Text /\ unread[s] \in Text
      /\ SourceOK(src[s]) /\ InFile(input[s], unread[s], src[s])
    BY DEF BufferInv, DataInv, PlacesInv
<1> QED
    BY <1>1, MarkedEntry DEF Ahead

\* A source that is exhausted has nothing ahead.
LEMMA ExhaustedIsEmpty ==
    ASSUME PlacesInv, NEW s \in Source, src[s].noMore
    PROVE  Ahead(s) = {}
<1>1. InFile(input[s], unread[s], src[s])
    BY DEF PlacesInv
<1> QED
    BY <1>1 DEF InFile, Placed, Consumption, Ahead, Taken

\* The entry e is written, unless it repeats the last one.
Written(e) ==
    IF RepeatsLast(e) THEN UNCHANGED <<stdout, lastMsg>>
                      ELSE stdout' = Append(stdout, e) /\ lastMsg' = e

\* Source s gives its entry at p away.
Takes(s, p) ==
    /\ Ahead(s)' = Ahead(s) \ {p}
    /\ \A q \in Source \ {s} : Ahead(q)' = Ahead(q)
    /\ Written(Entry(input[s], p))
    /\ app' = app

\* The entry of source s at p is written, but it is neither copied nor consumed.
Fails(s, p) ==
    /\ \A q \in Source : Ahead(q)' = Ahead(q)
    /\ ~RepeatsLast(Entry(input[s], p))
    /\ stdout' = Append(stdout, Entry(input[s], p)) /\ lastMsg' = lastMsg
    /\ app'.exitCode # 0

\* writeLowestEntryToDst() writes the first entry that its source has ahead.
LEMMA WriteFacts ==
    ASSUME BatchInv, BatchInv', BufferInv, PlacesInv, input' = input,
           WriteLowestEntryToDst
    PROVE  /\ PlacesInv'
           /\ app.lowest \in Source /\ ~src[app.lowest].noMore
           /\ \A s \in Source : src[s].noMore \/ Found(src[s])
           /\ Queued("writeLowestEntryToDst")
           /\ \E p \in Starts(input[app.lowest]) :
                  /\ IsFirst(p, Ahead(app.lowest))
                  /\ LogEntry(src[app.lowest]) = Entry(input[app.lowest], p)
                  /\ Takes(app.lowest, p) \/ Fails(app.lowest, p)
<1> DEFINE l == app.lowest
           e == LogEntry(src[l])
<1>1. /\ ChainInv /\ DataInv /\ Queued("writeLowestEntryToDst") /\ app \in AppState
    BY HandlerStarts DEF WriteLowestEntryToDst, ControlFn, EnvFn
<1>2. /\ l \in Source /\ ~src[l].noMore /\ ~src[l].needMore
      /\ \A s \in Source : src[s].noMore \/ Found(src[s])
    BY <1>1 DEF ChainInv
<1>3. Found(src[l])
    BY <1>2
<1>4. PICK p \in Starts(input[l]) :
          /\ IsFirst(p, Ahead(l))
          /\ p = At(input[l], unread[l], src[l]) + src[l].logBeg + 1
          /\ e = Entry(input[l], p)
    BY <1>2, <1>3, HeadIsFirst
<1>5. /\ InFile(input[l], unread[l], Consumed(src[l]))
      /\ Behind(input[l], Taken(input[l], unread[l], Consumed(src[l]))) = Ahead(l) \ {p}
    <2>1. /\ input[l] \in Text /\ unread[l] \in Text
          /\ SourceOK(src[l]) /\ InFile(input[l], unread[l], src[l])
        BY <1>1, <1>2 DEF DataInv, PlacesInv
    <2>2. p = At(input[l], unread[l], src[l]) + src[l].logBeg + 1
        BY <1>4
    <2> HIDE DEF l
    <2> QED
        BY <1>2, <1>3, <2>1, <2>2, ConsumedInFile DEF Ahead
<1>6. src[l].logBeg <= src[l].logEnd
    <2>1. src[l].logBeg \in Nat /\ src[l].logEnd \in Nat /\ src[l].logBeg < src[l].logEnd
        BY <1>1, <1>2, <1>3, InBufferFacts DEF DataInv, SourceOK, Found
    <2> QED
        BY <2>1
\* The entry is consumed ...
<1>7. ASSUME src' = [src EXCEPT ![l] = Consumed(@)], unread' = unread,
             Written(e), app' = app
      PROVE  PlacesInv' /\ Takes(l, p)
    <2>1. src \in [Source -> SourceState]
        BY <1>1 DEF DataInv
    <2> HIDE DEF l, e
    <2>2. src'[l] = Consumed(src[l]) /\ \A q \in Source : q # l => src'[q] = src[q]
        BY <1>2, <1>7, <2>1
    <2>3. PlacesInv'
        <3>1. \A q \in Source : InFile(input[q], unread[q], src'[q])
            BY <1>5, <2>2 DEF PlacesInv
        <3> QED
            BY <1>7, <3>1 DEF PlacesInv
    <2>4. Ahead(l)' = Ahead(l) \ {p}
        <3>1. Behind(input[l], Taken(input[l], unread'[l], src'[l])) = Ahead(l) \ {p}
            BY <1>5, <1>7, <2>2
        <3> USE DEF l
        <3>2. l' = l
            BY <1>7
        <3> HIDE DEF l
        <3> QED
            BY <3>1, <3>2 DEF Ahead
    <2>5. ASSUME NEW q \in Source, q # l
          PROVE  Ahead(q)' = Ahead(q)
        BY <1>7, <2>2, <2>5 DEF Ahead
    <2> QED
        BY <1>4, <1>7, <2>3, <2>4, <2>5 DEF Takes
\* ... or the tool gives up.
<1>8. ASSUME src' = src, unread' = unread, ~RepeatsLast(e), lastMsg' = lastMsg,
             stdout' = Append(stdout, e), app' = [app EXCEPT !.exitCode = -1]
      PROVE  PlacesInv' /\ Fails(l, p)
    <2>1. PlacesInv'
        BY <1>8 DEF PlacesInv
    <2>2. ASSUME NEW q \in Source
          PROVE  Ahead(q)' = Ahead(q)
        BY <1>8 DEF Ahead
    <2>3. app'.exitCode # 0
        BY <1>1, <1>8 DEF AppState
    <2> QED
        BY <1>4, <1>8, <2>1, <2>2, <2>3 DEF Fails
<1>9. unread' = unread
    BY DEF WriteLowestEntryToDst
<1>10. \/ /\ src' = [src EXCEPT ![l] = Consumed(@)]
          /\ Written(e) /\ app' = app
       \/ /\ src' = src /\ ~RepeatsLast(e) /\ lastMsg' = lastMsg
          /\ stdout' = Append(stdout, e) /\ app' = [app EXCEPT !.exitCode = -1]
    BY <1>6 DEF WriteLowestEntryToDst, GiveUp, Written
<1>11. PlacesInv' /\ (Takes(l, p) \/ Fails(l, p))
    BY <1>7, <1>8, <1>9, <1>10
<1> QED
    BY <1>1, <1>2, <1>4, <1>11

\* The inputs are what was given to the tool.
LEMMA RefImplementsSpec == RefSpec => Spec
<1>1. RefInit => Init
    BY DEF RefInit
<1>2. [RefNext]_RefVars => [Next]_vars
    BY DEF RefNext, RefVars
<1> QED
    BY <1>1, <1>2, PTL DEF RefSpec, Spec

\* Only consuming an entry moves a source ahead in its file.
LEMMA PlacesStep ==
    ASSUME BatchInv, BatchInv', BufferInv, PlacesInv, [RefNext]_RefVars
    PROVE  PlacesInv' /\ input' = input
<1>1. input' = input
    BY DEF RefNext, RefVars
<1> QED
    BY <1>1, WriteFacts, OnlyOneConsumes

\* Every source starts at the begin of its file.
LEMMA PlacesStart ==
    ASSUME RefInit
    PROVE  PlacesInv
<1>1. input \in [Source -> Text] /\ unread = input /\ src = [s \in Source |-> FreshSource]
    BY LogMergeAssumption DEF RefInit, Init, Source
<1>2. ASSUME NEW s \in Source
      PROVE  InFile(input[s], unread[s], src[s])
    <2> DEFINE f == input[s]
               r == src[s]
    <2>1. /\ r.beg = 0 /\ r.end = 0 /\ r.logEnd = 0 /\ r.buf = <<>>
          /\ r.isEof = FALSE /\ r.noMore = FALSE
        BY <1>1 DEF FreshSource
    <2>2. f \in Text /\ unread[s] = f /\ Len(f) \in Nat
        BY <1>1 DEF Text
    <2> HIDE DEF f, r
    <2>3. At(f, f, r) = 0
        BY <2>1, <2>2 DEF At
    <2>4. Window(f, 0, f, r)
        <3>1. Len(f) = 0 + 0 + Len(f) /\ \A i \in 1..Len(f) : 0 + 0 + i = i
            BY <2>2
        <3> QED
            BY <2>1, <3>1 DEF Window
    <2>5. Consumption(f, 0, r)
        BY <2>1 DEF Consumption
    <2>6. Placed(f, 0, f, r)
        BY <2>1, <2>4, <2>5 DEF Placed, Marks
    <2> QED
        BY <2>2, <2>3, <2>6 DEF InFile, f, r
<1> QED
    BY <1>1, <1>2 DEF PlacesInv

\* Every source knows where in its file it is, over any sequence of refills, moves,
\* growths, scans and consumptions of all sources.
THEOREM PlacesInvariant == RefSpec => []PlacesInv
<1>1. RefSpec => [](BatchInv /\ BufferInv)
    BY RefImplementsSpec, BatchInvariant, BuffersInOrder, PTL
<1>2. RefInit => PlacesInv
    BY PlacesStart
<1>3. BatchInv /\ BatchInv' /\ BufferInv /\ PlacesInv /\ [RefNext]_RefVars => PlacesInv'
    BY PlacesStep
<1> QED
    BY <1>1, <1>2, <1>3, PTL DEF RefSpec

-----------------------------------------------------------------------------
(* The comparison of the heads.                                            *)

\* memcmp() never finds an entry lower than itself.
LEMMA LowerIrreflexive ==
    ASSUME NEW a \in Text
    PROVE  ~Lower(a, a)
<1>1. \A i \in 1..Len(a) : a[i] \in Nat
    BY DEF Text
<1> QED
    BY <1>1 DEF Lower

\* Over the length of the shorter one it is an order all the same.
LEMMA LowerTrans ==
    ASSUME NEW a \in Text, NEW b \in Text, NEW c \in Text, Lower(a, b), Lower(b, c)
    PROVE  Lower(a, c)
<1>1. /\ Len(a) \in Nat /\ Len(b) \in Nat /\ Len(c) \in Nat
      /\ \A i \in 1..Len(a) : a[i] \in Nat
      /\ \A i \in 1..Len(b) : b[i] \in Nat
      /\ \A i \in 1..Len(c) : c[i] \in Nat
    BY DEF Text
<1>2. PICK i \in 1..Len(a) : /\ i <= Len(b) /\ a[i] < b[i]
                             /\ \A k \in 1..(i - 1) : a[k] = b[k]
    BY DEF Lower
<1>3. PICK j \in 1..Len(b) : /\ j <= Len(c) /\ b[j] < c[j]
                             /\ \A k \in 1..(j - 1) : b[k] = c[k]
    BY DEF Lower
<1> DEFINE m == IF i < j THEN i ELSE j
<1>4. /\ m \in 1..Len(a) /\ m \in 1..Len(b) /\ m \in 1..Len(c) /\ m <= i /\ m <= j
      /\ (m = i \/ m < i) /\ (m = j \/ m < j) /\ (m = i \/ m = j)
    BY <1>1, <1>2, <1>3
<1> HIDE DEF m
<1>5. a[m] <= b[m] /\ b[m] <= c[m] /\ (a[m] < b[m] \/ b[m] < c[m])
    <2>1. m < i => m \in 1..(i - 1)
        BY <1>4
    <2>2. m < j => m \in 1..(j - 1)
        BY <1>4
    <2>3. m < i => a[m] = b[m]
        BY <1>2, <2>1
    <2>4. m < j => b[m] = c[m]
        BY <1>3, <2>2
    <2>5. m = i => a[m] < b[m]
        BY <1>2
    <2>6. m = j => b[m] < c[m]
        BY <1>3
    <2>7. a[m] \in Nat /\ b[m] \in Nat /\ c[m] \in Nat
        BY <1>1, <1>4
    <2> QED
        BY <1>4, <2>3, <2>4, <2>5, <2>6, <2>7
<1>6. a[m] < c[m]
    <2>1. a[m] \in Nat /\ b[m] \in Nat /\ c[m] \in Nat
        BY <1>1, <1>4
    <2> QED
        BY <1>5, <2>1
<1>7. ASSUME NEW k \in 1..(m - 1)
      PROVE  a[k] = c[k]
    <2>1. k \in 1..(i - 1) /\ k \in 1..(j - 1)
        BY <1>4
    <2> QED
        BY <1>2, <1>3, <2>1
<1>8. m <= Len(c)
    BY <1>4
<1> QED
    BY <1>4, <1>6, <1>7, <1>8 DEF Lower

\* Two entries that differ somewhere in the length of the shorter one.
LEMMA LowerTotal ==
    ASSUME NEW a \in Text, NEW b \in Text, ~SameStart(a, b), ~Lower(a, b)
    PROVE  Lower(b, a)
<1> DEFINE D == {i \in 1..Len(a) : i <= Len(b) /\ a[i] # b[i]}
<1>1. /\ Len(a) \in Nat /\ Len(b) \in Nat
      /\ \A i \in 1..Len(a) : a[i] \in Nat
      /\ \A i \in 1..Len(b) : b[i] \in Nat
    BY DEF Text
<1>2. D # {}
    BY DEF SameStart
<1>3. D \in SUBSET Nat
    BY <1>1
<1>4. PICK m \in D : \A j \in D : m <= j
    <2> HIDE DEF D
    <2> QED
        BY <1>2, <1>3, FirstIsLeast
<1>5. m \in 1..Len(a) /\ m \in 1..Len(b) /\ a[m] # b[m]
    BY <1>1, <1>4
<1>6. ASSUME NEW k \in 1..(m - 1)
      PROVE  a[k] = b[k]
    <2>1. k \in 1..Len(a) /\ k <= Len(b) /\ ~(m <= k)
        BY <1>1, <1>5
    <2>2. k \notin D
        BY <1>4, <2>1
    <2> QED
        BY <2>1, <2>2
<1> HIDE DEF D
<1>7. m <= Len(a) /\ m <= Len(b)
    BY <1>1, <1>5
<1>8. ~(a[m] < b[m])
    BY <1>5, <1>6, <1>7 DEF Lower
<1>9. b[m] < a[m]
    <2>1. a[m] \in Nat /\ b[m] \in Nat
        BY <1>1, <1>5
    <2> QED
        BY <1>5, <1>8, <2>1
<1> QED
    BY <1>5, <1>6, <1>7, <1>9 DEF Lower

\* The lower of two entries is not the later one.
LEMMA LowerIsEarlier ==
    ASSUME NEW a \in Text, NEW b \in Text, Len(a) > 0, Len(b) > 0, ~Lower(b, a)
    PROVE  a[1] <= b[1]
<1>1. /\ Len(a) \in Nat /\ Len(b) \in Nat /\ 1 \in 1..Len(a) /\ 1 \in 1..Len(b)
      /\ 1 <= Len(a) /\ 1 <= Len(b)
    BY DEF Text
<1>2. a[1] \in Nat /\ b[1] \in Nat
    BY <1>1 DEF Text
<1>3. \A k \in 1..(1 - 1) : b[k] = a[k]
    OBVIOUS
<1>4. ~(b[1] < a[1])
    BY <1>1, <1>3 DEF Lower
<1> QED
    BY <1>2, <1>4

\* While the heads are visited none of those before the n-th is lower than the one
\* that was found.
LowestOf(n) ==
    \A q \in Source : (q < n /\ ~src[q].noMore)
        => ~Lower(LogEntry(src[q]), LogEntry(src[app.lowest]))

HeadsCompared ==
    /\ pc = "find" => LowestOf(iter)
    /\ Queued("writeLowestEntryToDst") => LowestOf(NumSources + 1)

\* Between two batches nobody else does anything.
LEMMA ChainMeansControl ==
    ASSUME BatchInv', pc' = "find" \/ Queued("writeLowestEntryToDst")'
    PROVE  Control'
<1>1. CtlTypeOK' /\ (Refilling' \/ Marking' \/ Control')
    BY DEF BatchInv
<1>2. ASSUME Refilling' \/ Marking'
      PROVE  FALSE
    <2>1. /\ pc' \notin {"enq", "find"}
          /\ \A i \in 1..Len(envQ') : envQ'[i].fn \notin ControlFn
        BY <1>2 DEF Refilling, Marking, BatchOf, CountOf, ControlFn
    <2>2. \A f \in ControlFn : ~Queued(f)'
        BY <1>1, <2>1, OnlyCompletions
    <2>3. "writeLowestEntryToDst" \in ControlFn
        BY DEF ControlFn, EnvFn
    <2> QED
        BY <2>1, <2>2, <2>3
<1> QED
    BY <1>1, <1>2

\* Nothing else leads to the comparison, or changes anything while it goes on.
LEMMA ComparisonGoesOn ==
    ASSUME BatchInv, BatchInv', [Next]_vars,
           pc' = "find" \/ Queued("writeLowestEntryToDst")'
    PROVE  \/ FindOldestLogEntryFromAllHeads \/ FindOldestTurn \/ FindOldestEnd
           \/ /\ UNCHANGED <<src, app>>
              /\ pc' = "find" => pc = "find" /\ iter' = iter
              /\ Queued("writeLowestEntryToDst")' => Queued("writeLowestEntryToDst")
<1> DEFINE w == "writeLowestEntryToDst"
<1>1. CtlTypeOK /\ CtlTypeOK' /\ w \in ControlFn
    BY DEF BatchInv, ControlFn, EnvFn
<1>2. Control'
    BY ChainMeansControl
<1>3. \A i \in 1..Len(envQ') : envQ'[i].fn \in ControlFn
    BY <1>2 DEF Control
\* A handler of the chain leaves another one behind.
<1>4. CASE \/ InitStuff \/ OpenSrcFiles \/ RefillSrcBuffers \/ MarkLogEntriesForeachSource
           \/ WriteLowestEntryToDst
    <2>1. envQ' = <<>>
        BY <1>4, DispatchControl DEF InitStuff, OpenSrcFiles, RefillSrcBuffers,
           MarkLogEntriesForeachSource, WriteLowestEntryToDst, ControlFn, EnvFn
    <2>2. /\ pc' # "find"
          /\ pc' = "enq" => pend'.fn # w
        BY <1>4 DEF InitStuff, OpenSrcFiles, RefillSrcBuffers, MarkLogEntriesForeachSource,
           WriteLowestEntryToDst, GiveUp, CallRefillSrcBuffers, StartLoop, Return, Post,
           AssertThat, Dispatch, Task
    <2> QED
        BY <2>1, <2>2 DEF Queued
\* A completion is followed by others, or by another handler.
<1>5. CASE OnOneRefillDone \/ MarkLogEntryForSourceDone
    <2>1. /\ pc' \in {"idle", "enq"}
          /\ pc' = "enq" => pend'.fn # w
        BY <1>5 DEF OnOneRefillDone, MarkLogEntryForSourceDone, Return, Post, Task
    <2>2. \A i \in 1..Len(envQ') : envQ'[i].fn \notin ControlFn
        <3>1. /\ envQ # <<>> /\ envQ' = Tail(envQ)
              /\ Head(envQ).fn \notin ControlFn
            BY <1>5 DEF OnOneRefillDone, MarkLogEntryForSourceDone, Dispatch, ControlFn
        <3>2. /\ Head(envQ) = envQ[1] /\ 1 \in 1..Len(envQ)
              /\ \A i \in 1..Len(envQ') : i + 1 \in 1..Len(envQ) /\ envQ'[i] = envQ[i + 1]
            BY <1>1, <3>1, EnvQueueFacts
        <3>3. Refilling \/ Marking
            BY <3>1, <3>2 DEF BatchInv, Control
        <3> QED
            BY <3>2, <3>3 DEF Refilling, Marking, BatchOf, ControlFn
    <2>3. envQ' # <<>> => Head(envQ').fn \notin ControlFn
        <3>1. envQ' # <<>> => 1 \in 1..Len(envQ') /\ Head(envQ') = envQ'[1]
            BY <1>1 DEF CtlTypeOK
        <3> QED
            BY <2>2, <3>1
    <2> QED
        BY <1>1, <2>1, <2>3 DEF Queued
<1>6. CASE LoopEnque
    <2>1. /\ pc' = "idle" /\ UNCHANGED <<src, app>> /\ pc = "enq"
          /\ envQ' = Append(envQ, pend)
        BY <1>6 DEF LoopEnque, dataVars
    <2>2. envQ = <<>>
        BY <2>1 DEF BatchInv, Refilling, Marking, CountOf, Control
    <2>3. Head(envQ') = pend
        BY <2>1, <2>2
    <2> QED
        BY <2>1, <2>3 DEF Queued
<1>7. CASE RefillSrcBuffersTurn \/ MarkLogEntriesTurn
    <2>1. pc \in {"refill", "mark"} /\ pc' \in {"idle", pc} /\ envQ' = envQ
        BY <1>7 DEF RefillSrcBuffersTurn, MarkLogEntriesTurn, PoolEnque
    <2>2. \A i \in 1..Len(envQ') : envQ'[i].fn \notin ControlFn
        BY <2>1 DEF BatchInv, Refilling, Marking, Control, BatchOf, ControlFn
    <2> QED
        BY <1>1, <2>1, <2>2, OnlyCompletions
<1>8. CASE RunUntilDoneReturns \/ JoinBlocking
    <2>1. pc' \in {"join", "done", "abort"} /\ envQ' = envQ /\ UNCHANGED <<src, app>>
        BY <1>8 DEF RunUntilDoneReturns, JoinBlocking, dataVars
    <2> QED
        BY <2>1 DEF Queued
<1>9. CASE \E t \in Thread : PoolThread(t)
    <2>1. PICK t \in Thread : PoolThread(t)
        BY <1>9
    <2>2. ~PoolQuiet
        <3>1. poolQ # <<>> \/ job[t].at \in {"run", "post"}
            BY <2>1, RefillTaskEnds, MarkTaskEnds DEF PoolThread, TakeTask, ThreadEnque,
               TaskEnds
        <3>2. Idle.at = "idle"
            BY DEF Idle
        <3> QED
            BY <3>1, <3>2 DEF PoolQuiet
    <2>3. Refilling \/ Marking
        BY <2>2 DEF BatchInv, Control
    <2>4. /\ pc \notin {"enq", "find"}
          /\ \A i \in 1..Len(envQ) : envQ[i].fn \notin ControlFn
        BY <2>3 DEF Refilling, Marking, BatchOf, CountOf, ControlFn
    <2>5. pc' \in {pc, "abort"}
        <3>1. RefillBufferForSourceByArg(t) \/ MarkLogEntryForSourceByArg(t)
                 => \E pf, df : TaskEnds(t, pf, df)
            BY <2>1, RefillTaskEnds, MarkTaskEnds
        <3> QED
            BY <2>1, <3>1 DEF PoolThread, TakeTask, ThreadEnque, TaskEnds, loopVars
    <2>6. \E i \in 1..Len(envQ') : envQ'[i].fn = w
        <3>1. Queued(w)' /\ envQ' # <<>> /\ Head(envQ').fn = w
            BY <2>4, <2>5 DEF Queued
        <3>2. 1 \in 1..Len(envQ') /\ Head(envQ') = envQ'[1]
            BY <1>1, <3>1 DEF CtlTypeOK
        <3> QED
            BY <3>1, <3>2
    <2>7. ThreadEnque(t)
        <3>1. envQ' # envQ
            BY <1>1, <2>4, <2>6
        <3>2. RefillBufferForSourceByArg(t) \/ MarkLogEntryForSourceByArg(t) \/ TakeTask(t)
                  => envQ' = envQ
            BY DEF RefillBufferForSourceByArg, MarkLogEntryForSourceByArg, TakeTask, loopVars
        <3> QED
            BY <2>1, <3>1, <3>2 DEF PoolThread
    <2>8. job[t].at = "post" /\ envQ' = Append(envQ, job[t].task)
        BY <2>7 DEF ThreadEnque
    <2>9. job[t].task.fn \notin ControlFn
        BY <2>3, <2>8 DEF Refilling, Marking, BatchOf, ControlFn, Idle
    <2>10. \A i \in 1..Len(envQ') : envQ'[i].fn \notin ControlFn
        <3>1. envQ \in Seq(EnvTask)
            BY <1>1 DEF CtlTypeOK
        <3> QED
            BY <2>4, <2>8, <2>9, <3>1
    <2> QED
        BY <1>1, <2>6, <2>10
<1>10. CASE Terminated \/ UNCHANGED vars
    BY <1>10 DEF Terminated, vars, loopVars, dataVars, Queued
<1> QED
    BY <1>4, <1>5, <1>6, <1>7, <1>8, <1>9, <1>10 DEF Next, Loop

\* Whoever compares or writes the heads finds an entry in every source that goes on.
LEMMA HeadIsText ==
    ASSUME BufferInv, NEW s \in Source, ~src[s].noMore,
           pc = "find" \/ Queued("writeLowestEntryToDst")
                \/ Queued("findOldestLogEntryFromAllHeads")
    PROVE  LogEntry(src[s]) \in Text /\ Found(src[s])
<1>1. SourceOK(src[s]) /\ Found(src[s]) /\ ~src[s].needMore
    BY DEF BufferInv, DataInv, ChainInv
<1> QED
    BY <1>1, ConsumedOK

\* The comparison starts with the first source that has an entry ...
LEMMA CompareStarts ==
    ASSUME BatchInv, BatchInv', BufferInv, FindOldestLogEntryFromAllHeads
    PROVE  HeadsCompared'
<1> DEFINE open == {s \in Source : ~src[s].noMore}
<1>1. /\ app \in AppState /\ envQ' = <<>> /\ src' = src
      /\ Queued("findOldestLogEntryFromAllHeads")
    BY HandlerStarts DEF FindOldestLogEntryFromAllHeads, ControlFn, EnvFn, dataVars
<1>2. \/ pc' = "idle"
      \/ pc' = "find" /\ iter' = 2 /\ open # {} /\ app' = [app EXCEPT !.lowest = First(open)]
    BY DEF FindOldestLogEntryFromAllHeads, Return
<1>3. ~Queued("writeLowestEntryToDst")'
    BY <1>1, <1>2 DEF Queued
<1>4. ASSUME pc' = "find"
      PROVE  LowestOf(iter)'
    <2>1. iter' = 2 /\ open # {} /\ app'.lowest = First(open)
        BY <1>1, <1>2, <1>4 DEF AppState
    <2>2. First(open) \in open /\ \A j \in open : First(open) <= j
        <3>1. open \in SUBSET Nat
            BY DEF Source
        <3> HIDE DEF open
        <3> QED
            BY <2>1, <3>1, FirstIsLeast
    <2>3. ASSUME NEW q \in Source, q < 2, ~src[q].noMore
          PROVE  q = First(open) /\ ~Lower(LogEntry(src[q]), LogEntry(src[q]))
        <3>1. q \in open /\ q \in Nat /\ First(open) \in Nat /\ First(open) >= 1 /\ q >= 1
            BY <2>2, <2>3 DEF Source
        <3>2. First(open) <= q
            BY <2>2, <3>1
        <3>3. q = First(open)
            BY <2>3, <3>1, <3>2
        <3>4. LogEntry(src[q]) \in Text
            BY <1>1, <2>3, HeadIsText
        <3> QED
            BY <3>3, <3>4, LowerIrreflexive
    <2> HIDE DEF open
    <2> QED
        BY <1>1, <2>1, <2>3 DEF LowestOf
<1> QED
    BY <1>3, <1>4 DEF HeadsCompared

\* ... goes on with the next one ...
LEMMA CompareNext ==
    ASSUME BatchInv, BatchInv', BufferInv, HeadsCompared, FindOldestTurn
    PROVE  HeadsCompared'
<1> DEFINE low == LogEntry(src[app.lowest])
           e == LogEntry(src[iter])
<1>1. /\ CtlTypeOK /\ app \in AppState
      /\ pc = "find" /\ pc' = "find" /\ iter \in Source /\ iter' = iter + 1
      /\ src' = src /\ envQ' = envQ
    BY DEF FindOldestTurn, dataVars, BatchInv, CtlTypeOK
<1>2. envQ' = <<>>
    BY <1>1 DEF BatchInv, Refilling, Marking, CountOf, Control
<1>3. ~Queued("writeLowestEntryToDst")'
    BY <1>1, <1>2 DEF Queued
<1>4. /\ LowestOf(iter)
      /\ app.lowest \in Source /\ ~src[app.lowest].noMore
    BY <1>1 DEF HeadsCompared, BufferInv, ChainInv
<1>5. low \in Text /\ \A q \in Source : ~src[q].noMore => LogEntry(src[q]) \in Text
    BY <1>1, <1>4, HeadIsText
<1>6. \/ ~src[iter].noMore /\ Lower(e, low) /\ app'.lowest = iter
      \/ (src[iter].noMore \/ ~Lower(e, low)) /\ app'.lowest = app.lowest
    BY <1>1 DEF FindOldestTurn, ComparesLower, AppState
<1>7. ASSUME NEW q \in Source, q < iter + 1, ~src[q].noMore
      PROVE  ~Lower(LogEntry(src[q]), LogEntry(src[app'.lowest]))
    <2>1. q < iter \/ q = iter
        BY <1>1, <1>7 DEF Source
    <2>2. q < iter => ~Lower(LogEntry(src[q]), low)
        BY <1>4, <1>7 DEF LowestOf
    <2>3. LogEntry(src[q]) \in Text
        BY <1>5, <1>7
    <2>4. CASE ~src[iter].noMore /\ Lower(e, low) /\ app'.lowest = iter
        <3>1. e \in Text /\ ~Lower(e, e)
            BY <1>1, <1>5, <2>4, LowerIrreflexive
        <3>2. q < iter => ~Lower(LogEntry(src[q]), e)
            BY <1>5, <2>2, <2>3, <2>4, <3>1, LowerTrans
        <3> QED
            BY <2>1, <2>4, <3>1, <3>2
    <2>5. CASE (src[iter].noMore \/ ~Lower(e, low)) /\ app'.lowest = app.lowest
        BY <1>7, <2>1, <2>2, <2>5
    <2> QED
        BY <1>6, <2>4, <2>5
<1>8. LowestOf(iter)'
    BY <1>1, <1>7 DEF LowestOf
<1> QED
    BY <1>3, <1>8 DEF HeadsCompared

\* ... and ends after the last one.
LEMMA CompareEnds ==
    ASSUME BatchInv, BatchInv', BufferInv, HeadsCompared, FindOldestEnd
    PROVE  HeadsCompared'
<1>1. /\ pc = "find" /\ pc' = "enq" /\ src' = src /\ app' = app
      /\ iter \in 1..(NumSources + 1) /\ iter > NumSources
    BY DEF FindOldestEnd, Post, dataVars, BatchInv, CtlTypeOK
<1>2. iter = NumSources + 1
    BY <1>1, LogMergeAssumption
<1>3. LowestOf(NumSources + 1)
    BY <1>1, <1>2 DEF HeadsCompared
<1>4. LowestOf(NumSources + 1)'
    BY <1>1, <1>3 DEF LowestOf
<1> QED
    BY <1>1, <1>4 DEF HeadsCompared

\* The entry that is about to be written is one of the lowest of all heads.
THEOREM LowestIsFound == Spec => []HeadsCompared
<1>1. Init => HeadsCompared
    <2> SUFFICES ASSUME Init
                 PROVE  HeadsCompared
        OBVIOUS
    <2>1. pc = "idle" /\ Head(envQ).fn = "initStuff"
        BY DEF Init, Task
    <2> QED
        BY <2>1 DEF HeadsCompared, Queued
<1>2. BatchInv /\ BatchInv' /\ BufferInv /\ HeadsCompared /\ [Next]_vars => HeadsCompared'
    <2> SUFFICES ASSUME BatchInv, BatchInv', BufferInv, HeadsCompared, [Next]_vars
                 PROVE  HeadsCompared'
        OBVIOUS
    <2>1. CASE ~(pc' = "find" \/ Queued("writeLowestEntryToDst")')
        BY <2>1 DEF HeadsCompared
    <2>2. CASE /\ UNCHANGED <<src, app>>
               /\ pc' = "find" => pc = "find" /\ iter' = iter
               /\ Queued("writeLowestEntryToDst")' => Queued("writeLowestEntryToDst")
        <3>1. \A n : LowestOf(n)' <=> LowestOf(n)
            BY <2>2 DEF LowestOf
        <3> QED
            BY <2>2, <3>1 DEF HeadsCompared, LowestOf
    <2> QED
        BY <2>1, <2>2, ComparisonGoesOn, CompareStarts, CompareNext, CompareEnds
<1> QED
    BY <1>1, <1>2, BatchInvariant, BuffersInOrder, PTL DEF Spec

-----------------------------------------------------------------------------
(* What is written.                                                        *)

\* An entry is not empty, and begins with what was found at its place.
LEMMA EntryIsText ==
    ASSUME NEW f \in Text, NEW p \in Starts(f)
    PROVE  Entry(f, p) \in Text /\ Len(Entry(f, p)) > 0 /\ Entry(f, p)[1] = f[p]
<1>1. p \in Nat /\ p >= 1 /\ p < Len(f) /\ Len(f) \in Nat
    BY StartsFacts DEF Text
<1>2. \E n \in Nat : EntryEnds(f, p, n)
    <2>1. CASE Behind(f, p) = {}
        <3>1. Len(f) - 1 \in Nat /\ (Len(f) - 1) + 1 = Len(f)
            BY <1>1
        <3> QED
            BY <2>1, <3>1 DEF EntryEnds
    <2>2. CASE Behind(f, p) # {}
        <3>1. Behind(f, p) \in SUBSET Nat /\ \A q \in Behind(f, p) : q > p
            BY <1>1, BehindFacts
        <3>2. IsFirst(First(Behind(f, p)), Behind(f, p)) /\ First(Behind(f, p)) \in Nat
            BY <2>2, <3>1, FirstIsLeast DEF IsFirst
        <3>3. First(Behind(f, p)) > p
            BY <3>1, <3>2 DEF IsFirst
        <3>4. First(Behind(f, p)) - 2 \in Nat
                  /\ (First(Behind(f, p)) - 2) + 2 = First(Behind(f, p))
            BY <1>1, <3>2, <3>3
        <3> QED
            BY <2>2, <3>2, <3>4 DEF EntryEnds
    <2> QED
        BY <2>1, <2>2
<1>3. PICK n \in Nat : EntryEnds(f, p, n)
    BY <1>2
<1>4. Entry(f, p) = SubSeq(f, p, n) /\ p <= n /\ n < Len(f)
    BY <1>3, EntryText
<1>5. p - 1 \in Nat /\ p - 1 < n /\ n <= Len(f) /\ (p - 1) + 1 = p /\ n - (p - 1) = n - (p - 1)
    BY <1>1, <1>4
<1>6. \A i \in 1..(n - (p - 1)) : f[(p - 1) + i] = f[(p - 1) + i]
    OBVIOUS
<1>7. Len(SubSeq(f, (p - 1) + 1, n)) > 0 /\ SubSeq(f, (p - 1) + 1, n)[1] = f[(p - 1) + 1]
    BY <1>5, <1>6, SamePart
<1>8. SubSeq(f, p, n) \in Text
    BY <1>1, <1>4 DEF Text
<1> QED
    BY <1>4, <1>5, <1>7, <1>8

\* None of the entries that come next in their sources is lower than the one that is
\* written.
LEMMA LowestOfAhead ==
    ASSUME BufferInv, PlacesInv, HeadsCompared, Queued("writeLowestEntryToDst"),
           NEW q \in Source, NEW k, IsFirst(k, Ahead(q))
    PROVE  ~Lower(Entry(input[q], k), LogEntry(src[app.lowest]))
<1>1. ~src[q].noMore
    BY ExhaustedIsEmpty DEF IsFirst
<1>2. Found(src[q])
    BY <1>1, HeadIsText
<1>3. PICK h \in Starts(input[q]) :
          IsFirst(h, Ahead(q)) /\ LogEntry(src[q]) = Entry(input[q], h)
    BY <1>2, HeadIsFirst
<1>4. h = k
    <2>1. Ahead(q) \in SUBSET Nat
        <3>1. input[q] \in Text /\ Starts(input[q]) \in SUBSET Nat
            BY StartsFacts DEF PlacesInv
        <3> QED
            BY <3>1 DEF Ahead, Behind
    <2>2. h \in Nat /\ k \in Nat /\ h <= k /\ k <= h
        BY <1>3, <2>1 DEF IsFirst
    <2> QED
        BY <2>2
<1>5. q \in Nat /\ q < NumSources + 1
    BY LogMergeAssumption DEF Source
<1>6. ~Lower(LogEntry(src[q]), LogEntry(src[app.lowest]))
    BY <1>1, <1>5 DEF HeadsCompared, LowestOf
<1> QED
    BY <1>3, <1>4, <1>6

\* What is ahead of a source are places in its file where an entry starts.
LEMMA AheadFacts ==
    ASSUME PlacesInv, NEW s \in Source
    PROVE  /\ input[s] \in Text /\ Starts(input[s]) \in SUBSET Nat
           /\ Ahead(s) \in SUBSET Nat /\ Ahead(s) \subseteq Starts(input[s])
           /\ Ahead(s) # {} => \E k : IsFirst(k, Ahead(s))
<1>1. input[s] \in Text /\ Starts(input[s]) \in SUBSET Nat
    BY StartsFacts DEF PlacesInv
<1>2. Ahead(s) \subseteq Starts(input[s])
    BY DEF Ahead, Behind
<1>3. Ahead(s) # {} => IsFirst(First(Ahead(s)), Ahead(s))
    BY <1>1, <1>2, FirstIsLeast DEF IsFirst
<1> QED
    BY <1>1, <1>2, <1>3

\* Everything that is ahead is as late as everything that was written.
OutputInOrder ==
    SortedInput =>
        /\ Abs!Ascending(stdout)
        /\ \A i \in 1..Len(stdout) : \A s \in Source : \A p \in Ahead(s) :
               stdout[i][1] <= input[s][p]

\* An entry more in the output.
LEMMA AppendFacts ==
    ASSUME NEW es \in Seq(Text), NEW e \in Text
    PROVE  /\ Len(es) \in Nat
           /\ Append(es, e) \in Seq(Text) /\ Len(Append(es, e)) = Len(es) + 1
           /\ \A i \in 1..Len(es) : Append(es, e)[i] = es[i]
           /\ Append(es, e)[Len(es) + 1] = e
OBVIOUS

\* The entry that is written is as late as those before it, and what remains ahead is
\* as late as it.
LEMMA WriteInOrder ==
    ASSUME BatchInv, BatchInv', BufferInv, PlacesInv, HeadsCompared, OutputInOrder,
           input' = input, WriteLowestEntryToDst
    PROVE  OutputInOrder'
<1> DEFINE l == app.lowest
<1> SUFFICES ASSUME SortedInput
             PROVE  /\ Abs!Ascending(stdout')
                    /\ \A i \in 1..Len(stdout') : \A s \in Source : \A p \in Ahead(s)' :
                           stdout'[i][1] <= input[s][p]
    BY DEF OutputInOrder, SortedInput, Abs!Ascending, Abs!Time
<1>1. /\ Abs!Ascending(stdout) /\ stdout \in Seq(Text)
      /\ \A i \in 1..Len(stdout) : \A s \in Source : \A p \in Ahead(s) :
             stdout[i][1] <= input[s][p]
    BY DEF OutputInOrder, BufferInv, DataInv
<1>2. /\ l \in Source /\ Queued("writeLowestEntryToDst")
      /\ \E p \in Starts(input[l]) :
             /\ IsFirst(p, Ahead(l)) /\ LogEntry(src[l]) = Entry(input[l], p)
             /\ Takes(l, p) \/ Fails(l, p)
    BY WriteFacts
<1>3. PICK p \in Starts(input[l]) :
          /\ IsFirst(p, Ahead(l)) /\ LogEntry(src[l]) = Entry(input[l], p)
          /\ Takes(l, p) \/ Fails(l, p)
    BY <1>2
<1> DEFINE e == Entry(input[l], p)
<1>4. e \in Text /\ Len(e) > 0 /\ e[1] = input[l][p] /\ e[1] \in Nat
    <2>1. input[l] \in Text
        BY <1>2, AheadFacts
    <2> QED
        BY <1>3, <2>1, EntryIsText, StartsFacts
<1>5. /\ \A q \in Source : Ahead(q)' \subseteq Ahead(q)
      /\ stdout' \in {stdout, Append(stdout, e)}
    BY <1>2, <1>3 DEF Takes, Fails, Written
<1>6. ASSUME NEW q \in Source, NEW k \in Ahead(q)
      PROVE  e[1] <= input[q][k]
    <2>1. PICK h : IsFirst(h, Ahead(q))
        BY AheadFacts
    <2>2. /\ input[q] \in Text /\ h \in Starts(input[q]) /\ k \in Starts(input[q]) /\ h <= k
        BY <2>1, AheadFacts DEF IsFirst
    <2>3. ~Lower(Entry(input[q], h), e)
        BY <1>2, <1>3, <2>1, LowestOfAhead
    <2>4. /\ Entry(input[q], h) \in Text /\ Len(Entry(input[q], h)) > 0
          /\ Entry(input[q], h)[1] = input[q][h]
        BY <2>2, EntryIsText
    <2> HIDE DEF e
    <2>5. e[1] <= input[q][h]
        BY <1>4, <2>3, <2>4, LowerIsEarlier
    <2>6. input[q][h] <= input[q][k]
        BY <2>2 DEF SortedInput
    <2>7. input[q][h] \in Nat /\ input[q][k] \in Nat
        BY <2>2, StartsFacts
    <2> QED
        BY <1>4, <2>5, <2>6, <2>7
<1>7. CASE stdout' = stdout
    BY <1>1, <1>5, <1>7 
<1>8. CASE stdout' = Append(stdout, e)
    <2> HIDE DEF e, l
    <2>1. /\ Len(stdout) \in Nat /\ Len(stdout') = Len(stdout) + 1
          /\ \A i \in 1..Len(stdout) : stdout'[i] = stdout[i]
          /\ stdout'[Len(stdout) + 1] = e
        BY <1>1, <1>4, <1>8, AppendFacts
    <2>2. \A i \in 1..Len(stdout') :
              i \in 1..Len(stdout) \/ (i = Len(stdout) + 1 /\ stdout'[i] = e)
        BY <2>1
    <2>3. \A i \in 1..Len(stdout) : stdout[i][1] <= e[1]
        <3>1. p \in Ahead(l)
            BY <1>3 DEF IsFirst
        <3> QED
            BY <1>1, <1>2, <1>4, <3>1
    <2>4. Abs!Ascending(stdout')
        <3> SUFFICES ASSUME NEW i \in 1..Len(stdout'), NEW j \in 1..Len(stdout'), i <= j
                     PROVE  stdout'[i][1] <= stdout'[j][1]
            BY DEF Abs!Ascending, Abs!Time
        <3>1. CASE i \in 1..Len(stdout) /\ j \in 1..Len(stdout)
            <4>1. stdout'[i] = stdout[i] /\ stdout'[j] = stdout[j]
                BY <2>1, <3>1
            <4> QED
                BY <1>1, <3>1, <4>1 DEF Abs!Ascending, Abs!Time
        <3>2. CASE i \in 1..Len(stdout) /\ j = Len(stdout) + 1
            BY <2>1, <2>3, <3>2
        <3>3. CASE i = Len(stdout) + 1 /\ j = Len(stdout) + 1
            BY <1>4, <2>1, <3>3
        <3> QED
            BY <2>1, <2>2, <3>1, <3>2, <3>3
    <2>5. \A i \in 1..Len(stdout') : \A s \in Source : \A k \in Ahead(s)' :
              stdout'[i][1] <= input[s][k]
        BY <1>1, <1>5, <1>6, <2>1, <2>2
    <2> QED
        BY <2>4, <2>5
<1> QED
    BY <1>5, <1>7, <1>8

\* Files in chronological order give output in chronological order, whatever the
\* buffers hold of them at a time and whichever thread is first.
THEOREM OutputIsChronological == RefSpec => []ChronologicalOutput
<1>1. RefSpec => [](BatchInv /\ BufferInv /\ HeadsCompared)
    BY RefImplementsSpec, BatchInvariant, BuffersInOrder, LowestIsFound, PTL
<1>2. RefInit => OutputInOrder
    <2> SUFFICES ASSUME RefInit
                 PROVE  OutputInOrder
        OBVIOUS
    <2>1. stdout = <<>> /\ Len(stdout) = 0
        BY DEF RefInit, Init
    <2> QED
        BY <2>1 DEF OutputInOrder, Abs!Ascending
<1>3. BatchInv /\ BatchInv' /\ BufferInv /\ HeadsCompared /\ PlacesInv /\ OutputInOrder
          /\ [RefNext]_RefVars => OutputInOrder'
    <2> SUFFICES ASSUME BatchInv, BatchInv', BufferInv, HeadsCompared, PlacesInv,
                        OutputInOrder, [RefNext]_RefVars, ~WriteLowestEntryToDst
                 PROVE  OutputInOrder'
        BY WriteInOrder DEF RefNext, RefVars
    <2>1. /\ \A s \in Source : Ahead(s)' = Ahead(s)
          /\ stdout' = stdout /\ input' = input
        BY OnlyOneConsumes
    <2> QED
        BY <2>1 DEF OutputInOrder, SortedInput, Abs!Ascending, Abs!Time
<1>4. OutputInOrder => ChronologicalOutput
    BY DEF OutputInOrder, ChronologicalOutput
<1> QED
    BY <1>1, <1>2, <1>3, <1>4, PlacesInvariant, PTL DEF RefSpec

\* The step of the merge that a step of the tool is: the source with one of the lowest
\* heads gives it away.
ConsumesLowest(s, p) ==
    /\ IsFirst(p, Ahead(s))
    /\ \A q \in Source : \A k : IsFirst(k, Ahead(q)) =>
           ~Lower(Entry(input[q], k), Entry(input[s], p))
    /\ Takes(s, p) \/ Fails(s, p)

ConsumesNothing ==
    /\ \A s \in Source : Ahead(s)' = Ahead(s)
    /\ UNCHANGED <<stdout, lastMsg>>

\* No step skips an entry, takes two of them or takes them out of their order; nothing is
\* written that is not taken, unless the tool fails; and all that is taken is written,
\* unless it repeats what was written before.
OneAfterTheOther ==
    [][ConsumesNothing
       \/ \E s \in Source : \E p \in Starts(input[s]) : ConsumesLowest(s, p)]_RefVars

\* Every refill, move, growth and scan is a stutter of the merge, and writing an entry is
\* one step of it.
THEOREM StepsAreThoseOfTheMerge == RefSpec => OneAfterTheOther
<1>1. RefSpec => [](BatchInv /\ BufferInv /\ HeadsCompared)
    BY RefImplementsSpec, BatchInvariant, BuffersInOrder, LowestIsFound, PTL
<1>2. BatchInv /\ BatchInv' /\ BufferInv /\ HeadsCompared /\ PlacesInv /\ [RefNext]_RefVars
          => [ConsumesNothing
              \/ \E s \in Source : \E p \in Starts(input[s]) : ConsumesLowest(s, p)]_RefVars
    <2> SUFFICES ASSUME BatchInv, BatchInv', BufferInv, HeadsCompared, PlacesInv,
                        [RefNext]_RefVars
                 PROVE  \/ ConsumesNothing
                        \/ \E s \in Source : \E p \in Starts(input[s]) : ConsumesLowest(s, p)
        OBVIOUS
    <2>1. CASE WriteLowestEntryToDst
        <3>1. input' = input
            BY DEF RefNext, RefVars
        <3>2. /\ app.lowest \in Source /\ Queued("writeLowestEntryToDst")
              /\ \E p \in Starts(input[app.lowest]) :
                     /\ IsFirst(p, Ahead(app.lowest))
                     /\ LogEntry(src[app.lowest]) = Entry(input[app.lowest], p)
                     /\ Takes(app.lowest, p) \/ Fails(app.lowest, p)
            BY <2>1, <3>1, WriteFacts
        <3>3. \A q \in Source : \A k : IsFirst(k, Ahead(q)) =>
                  ~Lower(Entry(input[q], k), LogEntry(src[app.lowest]))
            BY <3>2, LowestOfAhead
        <3> QED
            BY <3>2, <3>3 DEF ConsumesLowest
    <2>2. CASE ~WriteLowestEntryToDst
        BY <2>2, OnlyOneConsumes DEF ConsumesNothing
    <2> QED
        BY <2>1, <2>2
<1> QED
    BY <1>1, <1>2, PlacesInvariant, PTL DEF RefSpec, OneAfterTheOther

-----------------------------------------------------------------------------
(* The end.                                                                *)

\* Without a failure the event loop runs dry only when all sources are exhausted.
RestsWhenExhausted ==
    (/\ pc \in {"idle", "join", "done"} /\ envQ = <<>> /\ tokens = 0
     /\ app.exitCode = 0) => \A s \in Source : src[s].noMore

\* While no token is held no thread does anything.
LEMMA NoTokenNoTask ==
    ASSUME BatchInv, tokens = 0
    PROVE  /\ PoolQuiet
           /\ \A t \in Thread : ~PoolThread(t)
<1>1. CtlTypeOK /\ TokensCounted /\ (Refilling \/ Marking \/ Control)
    BY DEF BatchInv
<1>2. app.numRefillsRunning \in Int /\ app.numLogMarksRunning \in Int
    BY <1>1 DEF CtlTypeOK, AppState
<1>3. PoolQuiet
    <2>1. Refilling => Outstanding <= 0
        BY <1>1, <1>2 DEF Refilling, CountOf, TokensCounted
    <2>2. Marking => Outstanding <= 0
        BY <1>1, <1>2 DEF Marking, CountOf, TokensCounted
    <2> QED
        BY <1>1, <2>1, <2>2, NothingOutstanding DEF Control
<1>4. ASSUME NEW t \in Thread, PoolThread(t)
      PROVE  FALSE
    <2>1. poolQ # <<>> \/ job[t].at \in {"run", "post"}
        BY <1>4, RefillTaskEnds, MarkTaskEnds DEF PoolThread, TakeTask, ThreadEnque,
           TaskEnds
    <2>2. Idle.at = "idle"
        BY DEF Idle
    <2> QED
        BY <1>3, <2>1, <2>2 DEF PoolQuiet
<1> QED
    BY <1>3, <1>4

\* A counter that is not zero is a token that is held.
LEMMA CountedToken ==
    ASSUME BatchInv', app'.numRefillsRunning > 0 \/ app'.numLogMarksRunning > 0
    PROVE  tokens' # 0
<1>1. CtlTypeOK' /\ TokensCounted' /\ (Refilling' \/ Marking' \/ Control')
    BY DEF BatchInv
<1>2. app'.numRefillsRunning \in Int /\ app'.numLogMarksRunning \in Int
    BY <1>1 DEF CtlTypeOK, AppState
<1>3. tokens' = app'.numRefillsRunning + app'.numLogMarksRunning
    BY <1>1 DEF TokensCounted
<1>4. app'.numRefillsRunning = 0 \/ app'.numLogMarksRunning = 0
    BY <1>1 DEF Refilling, Marking, Control
<1> QED
    BY <1>2, <1>3, <1>4

\* Only findOldestLogEntryFromAllHeads() lets the event loop run dry without a failure.
LEMMA RestsStep ==
    ASSUME BatchInv, BatchInv', BufferInv, RestsWhenExhausted, [Next]_vars
    PROVE  RestsWhenExhausted'
<1>1. /\ CtlTypeOK /\ CtlTypeOK' /\ app \in AppState /\ app' \in AppState
    BY DEF BatchInv, CtlTypeOK
<1> SUFFICES ASSUME pc' \in {"idle", "join", "done"}, envQ' = <<>>, tokens' = 0,
                    app'.exitCode = 0
             PROVE  \A s \in Source : src'[s].noMore
    BY DEF RestsWhenExhausted
<1>2. ASSUME NumSources = 0
      PROVE  Source = {}
    BY <1>2 DEF Source
<1>3. CASE \E t \in Thread : PoolThread(t)
    <2>1. tokens' = tokens
        BY <1>3 DEF PoolThread, TakeTask, ThreadEnque, RefillBufferForSourceByArg,
           MarkLogEntryForSourceByArg, loopVars
    <2> QED
        BY <1>3, <2>1, NoTokenNoTask
<1>4. CASE \/ InitStuff \/ OpenSrcFiles \/ RefillSrcBuffers \/ MarkLogEntriesForeachSource
           \/ WriteLowestEntryToDst
    <2>1. InitStuff => app' = [app EXCEPT !.exitCode = -1] \/ pc' = "enq"
        BY DEF InitStuff, Post
    <2>2. \/ OpenSrcFiles \/ RefillSrcBuffers \/ WriteLowestEntryToDst
          => \/ app' = [app EXCEPT !.exitCode = -1] \/ pc' = "refill" \/ NumSources = 0
             \/ pc' = "abort"
        BY DEF OpenSrcFiles, RefillSrcBuffers, WriteLowestEntryToDst, CallRefillSrcBuffers,
           StartLoop, GiveUp, AssertThat
    <2>3. MarkLogEntriesForeachSource => pc' \in {"mark", "abort"}
        BY DEF MarkLogEntriesForeachSource, StartLoop, AssertThat
    <2>4. app' # [app EXCEPT !.exitCode = -1]
        BY <1>1 DEF AppState
    <2> QED
        BY <1>2, <1>4, <2>1, <2>2, <2>3, <2>4
<1>5. CASE OnOneRefillDone
    <2>1. /\ app'.numRefillsRunning = app.numRefillsRunning - 1
          /\ app'.exitCode = app.exitCode
          /\ pc' # "enq" => ReturnsEarly(app.numRefillsRunning - 1)
        BY <1>1, <1>5 DEF OnOneRefillDone, AppState, Post
    <2>2. app'.numRefillsRunning > 0
        BY <2>1 DEF ReturnsEarly, OthersRunning
    <2> QED
        BY <2>2, CountedToken
<1>6. CASE MarkLogEntryForSourceDone
    <2> DEFINE n == app.numLogMarksRunning - 1
    <2>1. /\ app'.exitCode = app.exitCode
          /\ pc' # "enq" => ReturnsEarly(n) /\ app'.numLogMarksRunning = n
        BY <1>1, <1>6 DEF MarkLogEntryForSourceDone, NeedMoreHandled, AppState, Post
    <2>2. app'.numLogMarksRunning > 0
        BY <2>1 DEF ReturnsEarly, OthersRunning
    <2> QED
        BY <2>2, CountedToken
<1>7. CASE FindOldestLogEntryFromAllHeads
    <2>1. {s \in Source : ~src[s].noMore} = {} /\ src' = src
        BY <1>7 DEF FindOldestLogEntryFromAllHeads, dataVars
    <2> QED
        BY <2>1
<1>8. CASE FindOldestTurn \/ FindOldestEnd
    BY <1>8 DEF FindOldestTurn, FindOldestEnd, Post
<1>9. CASE LoopEnque
    <2>1. envQ' = Append(envQ, pend) /\ envQ \in Seq(EnvTask)
        BY <1>1, <1>9 DEF LoopEnque, CtlTypeOK
    <2> QED
        BY <2>1
<1>10. CASE RefillSrcBuffersTurn \/ MarkLogEntriesTurn
    <2>1. tokens' # 0
        <3>1. iter \in Nat /\ iter >= 1
            BY <1>10 DEF RefillSrcBuffersTurn, MarkLogEntriesTurn, PoolEnque, Source
        <3>2. app.numRefillsRunning \in Int /\ app.numLogMarksRunning \in Int
            BY <1>1 DEF AppState
        <3>3. \/ app.numRefillsRunning = iter - 1
                     /\ app'.numRefillsRunning = app.numRefillsRunning + 1
              \/ app.numLogMarksRunning = iter - 1
                     /\ app'.numLogMarksRunning = app.numLogMarksRunning + 1
            <4>1. CASE RefillSrcBuffersTurn
                <5>1. pc = "refill" /\ app'.numRefillsRunning = app.numRefillsRunning + 1
                    BY <1>1, <4>1 DEF RefillSrcBuffersTurn, PoolEnque, AppState
                <5> QED
                    BY <5>1 DEF BatchInv, Refilling, Marking, Control, CountOf
            <4>2. CASE MarkLogEntriesTurn
                <5>1. pc = "mark" /\ app'.numLogMarksRunning = app.numLogMarksRunning + 1
                    BY <1>1, <4>2 DEF MarkLogEntriesTurn, PoolEnque, AppState
                <5> QED
                    BY <5>1 DEF BatchInv, Refilling, Marking, Control, CountOf
            <4> QED
                BY <1>10, <4>1, <4>2
        <3>4. app'.numRefillsRunning > 0 \/ app'.numLogMarksRunning > 0
            BY <3>1, <3>2, <3>3
        <3> QED
            BY <3>4, CountedToken
    <2> QED
        BY <2>1
<1>11. CASE RunUntilDoneReturns \/ JoinBlocking
    <2>1. /\ pc \in {"idle", "join"} /\ UNCHANGED <<envQ, tokens, app, src>>
        BY <1>11 DEF RunUntilDoneReturns, JoinBlocking, dataVars
    <2> QED
        BY <2>1 DEF RestsWhenExhausted
<1>12. CASE Terminated \/ UNCHANGED vars
    BY <1>12 DEF Terminated, vars, loopVars, dataVars, RestsWhenExhausted
<1> QED
    BY <1>3, <1>4, <1>5, <1>6, <1>7, <1>8, <1>9, <1>10, <1>11, <1>12 DEF Next, Loop

\* The tool is not done before it has taken every entry of every file.
NothingLeft == Finished => \A s \in Source : Ahead(s) = {}

\* When main() is through, without a failure, no source has an entry left: no refill or
\* scan was forgotten, and no source was taken for exhausted too early.
THEOREM NothingIsLeft == RefSpec => []NothingLeft
<1>1. RefSpec => [](BatchInv /\ BufferInv)
    BY RefImplementsSpec, BatchInvariant, BuffersInOrder, PTL
<1>2. RefInit => RestsWhenExhausted
    BY DEF RefInit, Init, RestsWhenExhausted
<1>3. BatchInv /\ BatchInv' /\ BufferInv /\ RestsWhenExhausted /\ [RefNext]_RefVars
          => RestsWhenExhausted'
    BY RestsStep DEF RefNext, RefVars
<1>4. BatchInv /\ PlacesInv /\ RestsWhenExhausted => NothingLeft
    <2> SUFFICES ASSUME BatchInv, PlacesInv, RestsWhenExhausted, Finished
                 PROVE  \A s \in Source : Ahead(s) = {}
        BY DEF NothingLeft
    <2>1. pc = "done" /\ app.exitCode = 0
        BY DEF Finished
    <2>2. envQ = <<>> /\ app.numRefillsRunning = 0 /\ app.numLogMarksRunning = 0
        BY <2>1 DEF BatchInv, Refilling, Marking, CountOf, Control
    <2>3. tokens = 0
        BY <2>2 DEF BatchInv, TokensCounted
    <2> QED
        BY <2>1, <2>2, <2>3, ExhaustedIsEmpty DEF RestsWhenExhausted
<1> QED
    BY <1>1, <1>2, <1>3, <1>4, PlacesInvariant, PTL DEF RefSpec

-----------------------------------------------------------------------------
(* Nothing is lost, and nothing is written twice.                          *)

\* A failure is for good, and what was asked for stays.
LEMMA AppSettled ==
    ASSUME BatchInv, FailureStops, [Next]_vars
    PROVE  /\ app'.isDedupe = app.isDedupe
           /\ app'.exitCode = 0 => app.exitCode = 0
<1>1. app \in AppState
    BY DEF BatchInv, CtlTypeOK
<1>2. CASE FindOldestLogEntryFromAllHeads
    <2>1. app.exitCode = 0
        BY <1>2 DEF FindOldestLogEntryFromAllHeads, Dispatch, FailureStops, Queued,
           ControlFn, EnvFn
    <2>2. app'.isDedupe = app.isDedupe
        BY <1>1, <1>2 DEF FindOldestLogEntryFromAllHeads, AppState
    <2> QED
        BY <2>1, <2>2
<1>3. CASE InitStuff \/ OpenSrcFiles \/ WriteLowestEntryToDst \/ RefillSrcBuffers
    <2>1. \/ app' = app \/ app' = [app EXCEPT !.exitCode = -1]
          \/ app' = [app EXCEPT !.thrdPool = (NumSources > 0)]
        BY <1>3 DEF InitStuff, OpenSrcFiles, WriteLowestEntryToDst, RefillSrcBuffers, GiveUp
    <2> QED
        BY <1>1, <2>1 DEF AppState
<1>4. CASE OnOneRefillDone \/ MarkLogEntryForSourceDone
    BY <1>1, <1>4 DEF OnOneRefillDone, MarkLogEntryForSourceDone, NeedMoreHandled, AppState
<1>5. CASE RefillSrcBuffersTurn \/ MarkLogEntriesTurn
    BY <1>1, <1>5 DEF RefillSrcBuffersTurn, MarkLogEntriesTurn, PoolEnque, AppState
<1>6. CASE FindOldestTurn
    BY <1>1, <1>6 DEF FindOldestTurn, AppState
<1>7. CASE \/ LoopEnque \/ MarkLogEntriesForeachSource \/ FindOldestEnd
           \/ RunUntilDoneReturns \/ JoinBlocking
    BY <1>7 DEF LoopEnque, MarkLogEntriesForeachSource, FindOldestEnd,
       RunUntilDoneReturns, JoinBlocking
<1>8. CASE \E t \in Thread : PoolThread(t)
    <2>1. app' = app \/ app' = [app EXCEPT !.exitCode = -1]
        BY <1>8, RefillTaskEnds, MarkTaskEnds DEF PoolThread, TakeTask, ThreadEnque, TaskEnds
    <2> QED
        BY <1>1, <2>1 DEF AppState
<1>9. CASE Terminated \/ UNCHANGED vars
    BY <1>9 DEF Terminated, vars
<1> QED
    BY <1>2, <1>3, <1>4, <1>5, <1>6, <1>7, <1>8, <1>9 DEF Next, Loop

\* The places that a source has given away.
Given(s) == Starts(input[s]) \ Ahead(s)

\* What was written so far, if the files are in order and duplicates are left out: what
\* was given away, each entry once and in order, and before everything that is ahead.
MergedInOrder ==
    /\ \A i \in 1..Len(stdout) : \E s \in Source : \E p \in Given(s) :
           stdout[i] = Entry(input[s], p)
    /\ \A s \in Source : \A p \in Given(s) : \E i \in 1..Len(stdout) :
           stdout[i] = Entry(input[s], p)
    /\ \A i, j \in 1..Len(stdout) : i < j => Lower(stdout[i], stdout[j])
    /\ \A i \in 1..Len(stdout) : \A s \in Source : \A p \in Ahead(s) :
           stdout[i] = Entry(input[s], p) \/ Lower(stdout[i], Entry(input[s], p))
    /\ lastMsg = IF Len(stdout) = 0 THEN <<>> ELSE stdout[Len(stdout)]

MergedInv ==
    (app.isDedupe /\ WellOrderedInput /\ app.exitCode = 0) => MergedInOrder

\* Where an entry starts is where it is found.
LEMMA PositionFacts ==
    /\ \A s \in Source : \A p \in Starts(input[s]) :
           <<s, p>> \in Position /\ EntryOf(<<s, p>>) = Entry(input[s], p)
    /\ \A x \in Position : /\ x[1] \in Source /\ x[2] \in Starts(input[x[1]])
                           /\ x = <<x[1], x[2]>>
<1>1. ASSUME NEW s \in Source, NEW p \in Starts(input[s])
      PROVE  <<s, p>> \in Position /\ EntryOf(<<s, p>>) = Entry(input[s], p)
    <2>1. <<s, p>> \in {s} \X Starts(input[s])
        OBVIOUS
    <2> QED
        BY <2>1 DEF Position, EntryOf
<1>2. ASSUME NEW x \in Position
      PROVE  x[1] \in Source /\ x[2] \in Starts(input[x[1]]) /\ x = <<x[1], x[2]>>
    <2>1. PICK s \in Source : x \in {s} \X Starts(input[s])
        BY <1>2 DEF Position
    <2> QED
        BY <2>1
<1> QED
    BY <1>1, <1>2

\* If the files are in order, two entries are the same or one of them is lower.
LEMMA EntriesCompare ==
    ASSUME PlacesInv, WellOrderedInput,
           NEW s \in Source, NEW p \in Starts(input[s]),
           NEW q \in Source, NEW k \in Starts(input[q]),
           SameStart(Entry(input[s], p), Entry(input[q], k))
               \/ ~Lower(Entry(input[q], k), Entry(input[s], p))
    PROVE  \/ Entry(input[s], p) = Entry(input[q], k)
           \/ Lower(Entry(input[s], p), Entry(input[q], k))
              /\ ~SameStart(Entry(input[s], p), Entry(input[q], k))
<1> DEFINE a == Entry(input[s], p)
           b == Entry(input[q], k)
<1>1. a \in InputEntries /\ b \in InputEntries
    BY PositionFacts DEF InputEntries
<1>2. a \in Text /\ b \in Text
    BY EntryIsText DEF PlacesInv
<1>3. a # b => ~SameStart(a, b) /\ ~SameStart(b, a)
    BY <1>1 DEF WellOrderedInput
<1> HIDE DEF a, b
<1>4. ~SameStart(a, b) /\ ~Lower(b, a) => Lower(a, b)
    BY <1>2, LowerTotal
<1> QED
    BY <1>3, <1>4 DEF a, b

\* A text begins like itself.
LEMMA SameStartReflexive ==
    ASSUME NEW a
    PROVE  SameStart(a, a)
BY DEF SameStart

\* The next entry is written behind the others, unless it is the last one of them.
LEMMA TakesInOrder ==
    ASSUME BatchInv, BufferInv, PlacesInv, MergedInOrder,
           app.isDedupe, WellOrderedInput, input' = input,
           NEW l \in Source, NEW p \in Starts(input[l]), ConsumesLowest(l, p), Takes(l, p)
    PROVE  MergedInOrder'
<1> DEFINE e == Entry(input[l], p)
           n == Len(stdout)
<1>1. /\ stdout \in Seq(Text) /\ n \in Nat /\ p \in Ahead(l)
      /\ lastMsg = IF n = 0 THEN <<>> ELSE stdout[n]
      /\ \A s \in Source : Starts(input[s])' = Starts(input[s])
    BY DEF BufferInv, DataInv, ConsumesLowest, IsFirst, MergedInOrder
<1>2. e \in Text /\ Len(e) > 0
    BY EntryIsText DEF PlacesInv
<1>3. /\ \A s \in Source : Ahead(s)' \subseteq Ahead(s)
      /\ \A s \in Source : Given(s) \subseteq Given(s)'
      /\ p \in Given(l)'
      /\ \A s \in Source : \A k \in Given(s)' : k \in Given(s) \/ (s = l /\ k = p)
    <2>1. \A s \in Source : Given(s)' = Starts(input[s]) \ Ahead(s)'
        BY DEF Given
    <2>2. Ahead(l)' = Ahead(l) \ {p} /\ \A q \in Source \ {l} : Ahead(q)' = Ahead(q)
        BY DEF Takes
    <2> QED
        BY <2>1, <2>2 DEF Given
\* What is ahead from now on is the entry itself, or above it.
<1>4. ASSUME NEW s \in Source, NEW k \in Ahead(s)
      PROVE  e = Entry(input[s], k) \/ Lower(e, Entry(input[s], k))
    <2>1. PICK h : IsFirst(h, Ahead(s))
        BY AheadFacts
    <2>2. /\ input[s] \in Text /\ Starts(input[s]) \in SUBSET Nat
          /\ h \in Starts(input[s]) /\ k \in Starts(input[s]) /\ h <= k
        BY <2>1, AheadFacts DEF IsFirst
    <2>3. ~Lower(Entry(input[s], h), e)
        BY <2>1 DEF ConsumesLowest
    <2>4. e = Entry(input[s], h) \/ Lower(e, Entry(input[s], h))
        BY <2>2, <2>3, EntriesCompare
    <2>5. h = k \/ Lower(Entry(input[s], h), Entry(input[s], k))
        <3>1. h = k \/ h < k
            BY <2>2
        <3> QED
            BY <2>2, <3>1 DEF WellOrderedInput
    <2>6. Entry(input[s], h) \in Text /\ Entry(input[s], k) \in Text
        BY <2>2, EntryIsText
    <2> HIDE DEF e
    <2> QED
        BY <1>2, <2>4, <2>5, <2>6, LowerTrans
\* The entry is left out: it is the last one that was written.
<1>5. CASE RepeatsLast(e)
    <2>1. /\ stdout' = stdout /\ lastMsg' = lastMsg
          /\ Len(lastMsg) > 0 /\ SameStart(lastMsg, e)
        BY <1>5 DEF Takes, Written, RepeatsLast
    <2>2. n # 0 /\ lastMsg = stdout[n] /\ n \in 1..n
        BY <1>1, <2>1
    <2>3. PICK s \in Source : \E k \in Given(s) : stdout[n] = Entry(input[s], k)
        BY <2>2 DEF MergedInOrder
    <2>4. stdout[n] = e
        BY <2>1, <2>2, <2>3, EntriesCompare DEF Given
    <2> HIDE DEF e, n
    <2>5. \A i \in 1..Len(stdout') : \E q \in Source : \E h \in Given(q)' :
              stdout'[i] = Entry(input[q], h)
        BY <1>3, <2>1 DEF MergedInOrder
    <2>6. \A q \in Source : \A h \in Given(q)' : \E i \in 1..Len(stdout') :
              stdout'[i] = Entry(input[q], h)
        BY <1>3, <2>1, <2>2, <2>4 DEF MergedInOrder, e, n
    <2>7. \A i \in 1..Len(stdout') : \A q \in Source : \A h \in Ahead(q)' :
              stdout'[i] = Entry(input[q], h) \/ Lower(stdout'[i], Entry(input[q], h))
        BY <1>3, <2>1 DEF MergedInOrder
    <2> QED
        BY <2>1, <2>5, <2>6, <2>7 DEF MergedInOrder
\* The entry is written: it is above all that was written before.
<1>6. CASE ~RepeatsLast(e)
    <2>1. stdout' = Append(stdout, e) /\ lastMsg' = e
        BY <1>6 DEF Takes, Written
    <2>2. ASSUME NEW i \in 1..n
          PROVE  Lower(stdout[i], e)
        <3>1. n # 0 /\ lastMsg = stdout[n] /\ n \in 1..n /\ i <= n /\ (i = n \/ i < n)
            BY <1>1
        <3>2. PICK s \in Source : \E k \in Given(s) : stdout[n] = Entry(input[s], k)
            BY <3>1 DEF MergedInOrder
        <3>3. Len(lastMsg) > 0
            BY <3>1, <3>2, EntryIsText DEF PlacesInv, Given
        <3>4. ~SameStart(stdout[n], e)
            BY <1>2, <1>6, <3>1, <3>3 DEF RepeatsLast
        <3>5. Lower(stdout[n], e)
            BY <1>1, <3>1, <3>4, SameStartReflexive DEF MergedInOrder
        <3>6. i = n \/ Lower(stdout[i], stdout[n])
            BY <3>1 DEF MergedInOrder
        <3>7. stdout[i] \in Text /\ stdout[n] \in Text
            BY <1>1, <3>1
        <3> HIDE DEF e
        <3> QED
            BY <1>2, <3>5, <3>6, <3>7, LowerTrans
    <2> HIDE DEF e
    <2>3. /\ Len(stdout') = n + 1
          /\ \A i \in 1..n : stdout'[i] = stdout[i]
          /\ stdout'[n + 1] = e
        BY <1>1, <1>2, <2>1, AppendFacts
    <2> HIDE DEF n
    <2>4. /\ \A i \in 1..Len(stdout') : i \in 1..n \/ i = n + 1
          /\ 1..n \subseteq 1..Len(stdout') /\ n + 1 \in 1..Len(stdout')
        BY <1>1, <2>3
    <2>5. /\ \A i \in 1..n : \E q \in Source : \E h \in Given(q) : stdout[i] = Entry(input[q], h)
          /\ \A q \in Source : \A h \in Given(q) : \E i \in 1..n : stdout[i] = Entry(input[q], h)
          /\ \A i, j \in 1..n : i < j => Lower(stdout[i], stdout[j])
          /\ \A i \in 1..n : \A q \in Source : \A h \in Ahead(q) :
                 stdout[i] = Entry(input[q], h) \/ Lower(stdout[i], Entry(input[q], h))
        BY DEF MergedInOrder, n
    <2>6. \A i \in 1..Len(stdout') : \E q \in Source : \E h \in Given(q)' :
              stdout'[i] = Entry(input[q], h)
        BY <1>3, <2>3, <2>4, <2>5 DEF e
    <2>7. \A q \in Source : \A h \in Given(q)' : \E i \in 1..Len(stdout') :
              stdout'[i] = Entry(input[q], h)
        <3> SUFFICES ASSUME NEW q \in Source, NEW h \in Given(q)'
                     PROVE  \E i \in 1..Len(stdout') : stdout'[i] = Entry(input[q], h)
            OBVIOUS
        <3>1. CASE h \in Given(q)
            BY <2>3, <2>4, <2>5, <3>1
        <3>2. CASE q = l /\ h = p
            BY <2>3, <2>4, <3>2 DEF e
        <3> QED
            BY <1>3, <3>1, <3>2
    <2>8. \A i, j \in 1..Len(stdout') : i < j => Lower(stdout'[i], stdout'[j])
        <3> SUFFICES ASSUME NEW i \in 1..Len(stdout'), NEW j \in 1..Len(stdout'), i < j
                     PROVE  Lower(stdout'[i], stdout'[j])
            OBVIOUS
        <3>1. i \in 1..n /\ (j \in 1..n \/ j = n + 1)
            BY <1>1, <2>3
        <3> QED
            BY <2>2, <2>3, <2>5, <3>1
    <2>9. \A i \in 1..Len(stdout') : \A q \in Source : \A h \in Ahead(q)' :
              stdout'[i] = Entry(input[q], h) \/ Lower(stdout'[i], Entry(input[q], h))
        <3> SUFFICES ASSUME NEW i \in 1..Len(stdout'), NEW q \in Source, NEW h \in Ahead(q)'
                     PROVE  stdout'[i] = Entry(input[q], h) \/ Lower(stdout'[i], Entry(input[q], h))
            OBVIOUS
        <3>1. h \in Ahead(q)
            BY <1>3
        <3> QED
            BY <1>4, <2>3, <2>4, <2>5, <3>1
    <2>10. lastMsg' = IF Len(stdout') = 0 THEN <<>> ELSE stdout'[Len(stdout')]
        BY <1>1, <2>1, <2>3
    <2> QED
        BY <2>6, <2>7, <2>8, <2>9, <2>10 DEF MergedInOrder
<1> QED
    BY <1>5, <1>6

\* A step that consumes nothing keeps what was written in order.
LEMMA NothingGiven ==
    ASSUME MergedInOrder, ConsumesNothing, input' = input
    PROVE  MergedInOrder'
<1>1. \A s \in Source : Ahead(s)' = Ahead(s)
    BY DEF ConsumesNothing
<1>2. \A s \in Source : Given(s)' = Given(s)
    BY <1>1 DEF Given
<1> QED
    BY <1>1, <1>2 DEF MergedInOrder, ConsumesNothing

\* Before anything is consumed everything is ahead.
LEMMA NothingGivenYet ==
    ASSUME RefInit, NEW s \in Source
    PROVE  Given(s) = {} /\ stdout = <<>> /\ lastMsg = <<>>
<1>1. /\ input = unread /\ src = [q \in Source |-> FreshSource]
      /\ stdout = <<>> /\ lastMsg = <<>> /\ input[s] \in Text
    BY LogMergeAssumption DEF RefInit, Init, Source
<1>2. src[s].end = 0 /\ src[s].beg = 0
    BY <1>1 DEF FreshSource
<1>3. Taken(input[s], unread[s], src[s]) = 0
    <2>1. Len(input[s]) \in Nat /\ unread[s] = input[s]
        BY <1>1 DEF Text
    <2> QED
        BY <1>2, <2>1 DEF Taken, At
<1>4. \A p \in Starts(input[s]) : p \in Nat /\ p > 0
    BY <1>1, StartsFacts
<1>5. Ahead(s) = Starts(input[s])
    BY <1>3, <1>4 DEF Ahead, Behind
<1> QED
    BY <1>1, <1>5 DEF Given

\* The help text's promise: if the files are in order, the output is the ordered union of
\* their entries, each of them once, however much the files overlap.
THEOREM OverlapsAreMerged == RefSpec => []OverlapsMerge
<1>1. RefSpec => [](BatchInv /\ BufferInv /\ HeadsCompared /\ FailureStops)
    BY RefImplementsSpec, BatchInvariant, BuffersInOrder, LowestIsFound, FailureIsFinal, PTL
<1>2. RefInit => MergedInv
    <2> SUFFICES ASSUME RefInit
                 PROVE  MergedInOrder
        BY DEF MergedInv
    <2>1. /\ \A s \in Source : Given(s) = {}
          /\ stdout = <<>> /\ lastMsg = <<>> /\ Len(stdout) = 0
        BY NothingGivenYet DEF RefInit, Init
    <2> QED
        BY <2>1 DEF MergedInOrder
<1>3. BatchInv /\ BufferInv /\ FailureStops /\ PlacesInv /\ MergedInv /\ [RefNext]_RefVars
      /\ [ConsumesNothing
          \/ \E s \in Source : \E p \in Starts(input[s]) : ConsumesLowest(s, p)]_RefVars
          => MergedInv'
    <2> SUFFICES ASSUME BatchInv, BufferInv, FailureStops, PlacesInv, MergedInv,
                        [RefNext]_RefVars,
                        [ConsumesNothing
                         \/ \E s \in Source : \E p \in Starts(input[s]) :
                                ConsumesLowest(s, p)]_RefVars,
                        app'.isDedupe, WellOrderedInput', app'.exitCode = 0
                 PROVE  MergedInOrder'
        BY DEF MergedInv
    <2>1. input' = input /\ [Next]_vars
        BY DEF RefNext, RefVars
    <2>2. app.isDedupe /\ app.exitCode = 0
        BY <2>1, AppSettled
    <2>3. WellOrderedInput
        <3>1. InputEntries' = InputEntries
            BY <2>1 DEF InputEntries, Position, EntryOf
        <3> QED
            BY <2>1, <3>1 DEF WellOrderedInput
    <2>4. MergedInOrder
        BY <2>2, <2>3 DEF MergedInv
    <2>5. CASE ConsumesNothing
        BY <2>1, <2>4, <2>5, NothingGiven
    <2>6. CASE \E s \in Source : \E p \in Starts(input[s]) : ConsumesLowest(s, p)
        <3>1. PICK s \in Source : \E p \in Starts(input[s]) : ConsumesLowest(s, p)
            BY <2>6
        <3>2. PICK p \in Starts(input[s]) : ConsumesLowest(s, p)
            BY <3>1
        <3>3. Takes(s, p)
            BY <3>2 DEF ConsumesLowest, Fails
        <3> QED
            BY <2>1, <2>2, <2>3, <2>4, <3>2, <3>3, TakesInOrder
    <2>7. CASE UNCHANGED RefVars
        <3>1. UNCHANGED <<input, src, unread, stdout, lastMsg>>
            BY <2>7 DEF RefVars, vars, dataVars
        <3>2. ConsumesNothing
            BY <3>1 DEF ConsumesNothing, Ahead
        <3> QED
            BY <2>1, <2>4, <3>2, NothingGiven
    <2> QED
        BY <2>5, <2>6, <2>7
<1>4. NothingLeft /\ MergedInv => OverlapsMerge
    <2> SUFFICES ASSUME NothingLeft, MergedInv, Finished, app.isDedupe, WellOrderedInput
                 PROVE  /\ ToSet(stdout) = InputEntries
                        /\ \A i, j \in 1..Len(stdout) : i < j => Lower(stdout[i], stdout[j])
        BY DEF OverlapsMerge
    <2>1. MergedInOrder /\ \A s \in Source : Ahead(s) = {}
        BY DEF MergedInv, NothingLeft, Finished
    <2>2. \A s \in Source : Given(s) = Starts(input[s])
        BY <2>1 DEF Given
    <2>3. ASSUME NEW e
          PROVE  e \in InputEntries
                    <=> \E s \in Source : \E p \in Starts(input[s]) : e = Entry(input[s], p)
        BY PositionFacts DEF InputEntries, EntryOf
    <2>4. ASSUME NEW e
          PROVE  e \in ToSet(stdout) <=> \E i \in 1..Len(stdout) : stdout[i] = e
        BY DEF ToSet
    <2>5. ASSUME NEW e
          PROVE  (\E i \in 1..Len(stdout) : stdout[i] = e)
                    <=> \E s \in Source : \E p \in Starts(input[s]) : e = Entry(input[s], p)
        <3>1. /\ \A i \in 1..Len(stdout) : \E s \in Source : \E p \in Given(s) :
                     stdout[i] = Entry(input[s], p)
              /\ \A s \in Source : \A p \in Given(s) : \E i \in 1..Len(stdout) :
                     stdout[i] = Entry(input[s], p)
            BY <2>1 DEF MergedInOrder
        <3>2. ASSUME NEW i \in 1..Len(stdout), stdout[i] = e
              PROVE  \E s \in Source : \E p \in Starts(input[s]) : e = Entry(input[s], p)
            BY <2>2, <3>1, <3>2
        <3>3. ASSUME NEW s \in Source, NEW p \in Starts(input[s]), e = Entry(input[s], p)
              PROVE  \E i \in 1..Len(stdout) : stdout[i] = e
            BY <2>2, <3>1, <3>3
        <3> QED
            BY <3>2, <3>3
    <2>6. ASSUME NEW e
          PROVE  e \in ToSet(stdout) <=> e \in InputEntries
        <3>1. e \in InputEntries
                <=> \E s \in Source : \E p \in Starts(input[s]) : e = Entry(input[s], p)
            BY <2>3
        <3>2. e \in ToSet(stdout) <=> \E i \in 1..Len(stdout) : stdout[i] = e
            BY <2>4
        <3>3. (\E i \in 1..Len(stdout) : stdout[i] = e)
                <=> \E s \in Source : \E p \in Starts(input[s]) : e = Entry(input[s], p)
            BY <2>5
        <3> QED
            BY <3>1, <3>2, <3>3
    <2>7. ToSet(stdout) = InputEntries
        BY <2>6
    <2> QED
        BY <2>1, <2>7 DEF MergedInOrder
<1> QED
    BY <1>1, <1>2, <1>3, <1>4, PlacesInvariant, StepsAreThoseOfTheMerge, NothingIsLeft, PTL
       DEF RefSpec, OneAfterTheOther

-----------------------------------------------------------------------------
(* How often an entry is written.                                          *)

\* Where in the output e is, and which of its places were given away.
WrittenAs(e) == {i \in 1..Len(stdout) : stdout[i] = e}
GivenAs(e) == {x \in Position : x[2] \in Given(x[1]) /\ EntryOf(x) = e}

CountInv ==
    (~app.isDedupe /\ app.exitCode = 0) =>
        \A e : /\ IsFiniteSet(WrittenAs(e)) /\ IsFiniteSet(GivenAs(e))
               /\ Cardinality(WrittenAs(e)) = Cardinality(GivenAs(e))

\* An entry that is taken is written once, so both counts go up by one.
LEMMA TakesCounted ==
    ASSUME BufferInv, PlacesInv, ~app.isDedupe, input' = input,
           NEW e, IsFiniteSet(WrittenAs(e)), IsFiniteSet(GivenAs(e)),
           Cardinality(WrittenAs(e)) = Cardinality(GivenAs(e)),
           NEW l \in Source, NEW p \in Starts(input[l]), ConsumesLowest(l, p), Takes(l, p)
    PROVE  /\ IsFiniteSet(WrittenAs(e)') /\ IsFiniteSet(GivenAs(e)')
           /\ Cardinality(WrittenAs(e)') = Cardinality(GivenAs(e)')
<1> DEFINE w == Entry(input[l], p)
           n == Len(stdout)
           x == <<l, p>>
<1>1. stdout \in Seq(Text) /\ n \in Nat /\ p \in Ahead(l)
    BY DEF BufferInv, DataInv, ConsumesLowest, IsFirst
<1>2. w \in Text
    BY EntryIsText DEF PlacesInv
<1>3. stdout' = Append(stdout, w)
    BY DEF Takes, Written, RepeatsLast
<1>4. /\ Len(stdout') = n + 1
      /\ \A i \in 1..n : stdout'[i] = stdout[i]
      /\ stdout'[n + 1] = w
    <2> HIDE DEF w
    <2> QED
        BY <1>1, <1>2, <1>3, AppendFacts
<1>5. WrittenAs(e)' = IF w = e THEN WrittenAs(e) \cup {n + 1} ELSE WrittenAs(e)
    <2>1. WrittenAs(e)' = {i \in 1..(n + 1) : stdout'[i] = e}
        BY <1>4 DEF WrittenAs
    <2>2. \A i : i \in 1..(n + 1) <=> i \in 1..n \/ i = n + 1
        BY <1>1
    <2> HIDE DEF w
    <2>3. WrittenAs(e) = {i \in 1..n : stdout[i] = e}
        BY DEF WrittenAs
    <2> HIDE DEF n
    <2> QED
        BY <1>4, <2>1, <2>2, <2>3
<1>6. n + 1 \notin WrittenAs(e)
    BY <1>1 DEF WrittenAs
<1>7. /\ x \in Position /\ EntryOf(x) = w /\ x[1] = l /\ x[2] = p
      /\ Position' = Position /\ \A y : EntryOf(y)' = EntryOf(y)
    BY PositionFacts DEF Position, EntryOf
<1>8. ASSUME NEW y \in Position
      PROVE  y[2] \in Given(y[1])' <=> y[2] \in Given(y[1]) \/ y = x
    <2> DEFINE s == y[1]
               k == y[2]
    <2>1. s \in Source /\ k \in Starts(input[s]) /\ y = <<s, k>>
        BY PositionFacts
    <2>2. y = x <=> s = l /\ k = p
        BY <2>1
    <2>3. Given(s)' = Starts(input[s]) \ Ahead(s)' /\ Given(s) = Starts(input[s]) \ Ahead(s)
        BY DEF Given
    <2>4. Ahead(l)' = Ahead(l) \ {p} /\ (s # l => Ahead(s)' = Ahead(s))
        BY <2>1 DEF Takes
    <2> HIDE DEF s, k, x
    <2>5. k \in Given(s)' <=> k \in Given(s) \/ (s = l /\ k = p)
        BY <2>1, <2>3, <2>4
    <2> QED
        BY <2>2, <2>5 DEF s, k
<1>9. GivenAs(e)' = IF w = e THEN GivenAs(e) \cup {x} ELSE GivenAs(e)
    <2>1. GivenAs(e)' = {y \in Position : y[2] \in Given(y[1])' /\ EntryOf(y) = e}
        BY <1>7 DEF GivenAs
    <2> HIDE DEF w, x
    <2>2. GivenAs(e)' = {y \in Position : (y[2] \in Given(y[1]) \/ y = x) /\ EntryOf(y) = e}
        BY <1>8, <2>1
    <2>3. \A y : y \in GivenAs(e) <=> y \in Position /\ y[2] \in Given(y[1]) /\ EntryOf(y) = e
        BY DEF GivenAs
    <2>4. \A y : y \in GivenAs(e)' <=> y \in GivenAs(e) \/ (y = x /\ w = e)
        BY <1>7, <2>2, <2>3
    <2>5. ASSUME w = e
          PROVE  GivenAs(e)' = GivenAs(e) \cup {x}
        <3>1. \A y : y \in GivenAs(e)' <=> y \in GivenAs(e) \cup {x}
            BY <2>4, <2>5
        <3> QED
            BY <3>1
    <2>6. ASSUME w # e
          PROVE  GivenAs(e)' = GivenAs(e)
        <3>1. \A y : y \in GivenAs(e)' <=> y \in GivenAs(e)
            BY <2>4, <2>6
        <3>2. {y \in Position : (y[2] \in Given(y[1]) \/ y = x) /\ EntryOf(y) = e}
                  = {y \in Position : y[2] \in Given(y[1]) /\ EntryOf(y) = e}
            BY <2>2, <2>3, <3>1
        <3>3. GivenAs(e) = {y \in Position : y[2] \in Given(y[1]) /\ EntryOf(y) = e}
            BY DEF GivenAs
        <3> QED
            BY <2>2, <3>2, <3>3
    <2> QED
        BY <2>5, <2>6
<1>10. x \notin GivenAs(e)
    BY <1>1, <1>7 DEF GivenAs, Given
<1> HIDE DEF w, x, n
<1>11. CASE w = e
    <2>1. /\ IsFiniteSet(WrittenAs(e) \cup {n + 1})
          /\ Cardinality(WrittenAs(e) \cup {n + 1}) = Cardinality(WrittenAs(e)) + 1
        BY <1>6, FS_AddElement
    <2>2. /\ IsFiniteSet(GivenAs(e) \cup {x})
          /\ Cardinality(GivenAs(e) \cup {x}) = Cardinality(GivenAs(e)) + 1
        BY <1>10, FS_AddElement
    <2> QED
        BY <1>5, <1>9, <1>11, <2>1, <2>2
<1>12. CASE w # e
    BY <1>5, <1>9, <1>12
<1> QED
    BY <1>11, <1>12

\* Without de-duplication every entry is written as often as it occurs in the files, over
\* any sequence of refills and scans.
THEOREM EveryEntryIsWritten == RefSpec => []NothingLost
<1>1. RefSpec => [](BatchInv /\ BufferInv /\ HeadsCompared /\ FailureStops)
    BY RefImplementsSpec, BatchInvariant, BuffersInOrder, LowestIsFound, FailureIsFinal, PTL
<1>2. RefInit => CountInv
    <2> SUFFICES ASSUME RefInit, NEW e
                 PROVE  WrittenAs(e) = {} /\ GivenAs(e) = {}
        BY FS_EmptySet DEF CountInv
    <2>1. stdout = <<>> /\ Len(stdout) = 0
        BY DEF RefInit, Init
    <2>2. \A s \in Source : Given(s) = {}
        BY NothingGivenYet
    <2> QED
        BY <2>1, <2>2, PositionFacts DEF WrittenAs, GivenAs
<1>3. BatchInv /\ BufferInv /\ FailureStops /\ PlacesInv /\ CountInv /\ [RefNext]_RefVars
      /\ [ConsumesNothing
          \/ \E s \in Source : \E p \in Starts(input[s]) : ConsumesLowest(s, p)]_RefVars
          => CountInv'
    <2> SUFFICES ASSUME BatchInv, BufferInv, FailureStops, PlacesInv, CountInv,
                        [RefNext]_RefVars,
                        [ConsumesNothing
                         \/ \E s \in Source : \E p \in Starts(input[s]) :
                                ConsumesLowest(s, p)]_RefVars,
                        ~app'.isDedupe, app'.exitCode = 0, NEW e
                 PROVE  /\ IsFiniteSet(WrittenAs(e)') /\ IsFiniteSet(GivenAs(e)')
                        /\ Cardinality(WrittenAs(e)') = Cardinality(GivenAs(e)')
        BY DEF CountInv
    <2>1. input' = input /\ [Next]_vars
        BY DEF RefNext, RefVars
    <2>2. ~app.isDedupe /\ app.exitCode = 0
        BY <2>1, AppSettled
    <2>3. /\ IsFiniteSet(WrittenAs(e)) /\ IsFiniteSet(GivenAs(e))
          /\ Cardinality(WrittenAs(e)) = Cardinality(GivenAs(e))
        BY <2>2 DEF CountInv
    <2>4. ASSUME ConsumesNothing
          PROVE  WrittenAs(e)' = WrittenAs(e) /\ GivenAs(e)' = GivenAs(e)
        <3>1. \A s \in Source : Given(s)' = Given(s)
            BY <2>1, <2>4 DEF ConsumesNothing, Given
        <3>2. Position' = Position /\ \A y : EntryOf(y)' = EntryOf(y)
            BY <2>1 DEF Position, EntryOf
        <3>3. \A y \in Position : y[2] \in Given(y[1])' <=> y[2] \in Given(y[1])
            BY <3>1, PositionFacts
        <3>4. GivenAs(e)' = GivenAs(e)
            BY <3>2, <3>3 DEF GivenAs
        <3>5. WrittenAs(e)' = WrittenAs(e)
            BY <2>4 DEF WrittenAs, ConsumesNothing
        <3> QED
            BY <3>4, <3>5
    <2>5. CASE \E s \in Source : \E p \in Starts(input[s]) : ConsumesLowest(s, p)
        <3>1. PICK s \in Source : \E p \in Starts(input[s]) : ConsumesLowest(s, p)
            BY <2>5
        <3>2. PICK p \in Starts(input[s]) : ConsumesLowest(s, p)
            BY <3>1
        <3>3. Takes(s, p)
            BY <3>2 DEF ConsumesLowest, Fails
        <3> QED
            BY <2>1, <2>2, <2>3, <3>2, <3>3, TakesCounted
    <2>6. CASE UNCHANGED RefVars
        <3>1. UNCHANGED <<input, src, unread, stdout, lastMsg>>
            BY <2>6 DEF RefVars, vars, dataVars
        <3>2. ConsumesNothing
            BY <3>1 DEF ConsumesNothing, Ahead
        <3> QED
            BY <2>3, <2>4, <3>2
    <2> QED
        BY <2>3, <2>4, <2>5, <2>6
<1>4. NothingLeft /\ CountInv => NothingLost
    <2> SUFFICES ASSUME NothingLeft, CountInv, Finished, ~app.isDedupe, NEW e
                 PROVE  Cardinality({i \in 1..Len(stdout) : stdout[i] = e}) =
                            Cardinality({x \in Position : EntryOf(x) = e})
        BY DEF NothingLost
    <2>1. \A x \in Position : x[2] \in Given(x[1])
        BY PositionFacts DEF NothingLeft, Given
    <2>2. GivenAs(e) = {x \in Position : EntryOf(x) = e}
        BY <2>1 DEF GivenAs
    <2> QED
        BY <2>2 DEF CountInv, Finished, WrittenAs
<1> QED
    BY <1>1, <1>2, <1>3, <1>4, PlacesInvariant, StepsAreThoseOfTheMerge, NothingIsLeft, PTL
       DEF RefSpec, OneAfterTheOther

-----------------------------------------------------------------------------
(* LogMerge implements LogMergeAbs.                                        *)

\* The first of some places.
LEMMA FirstRank ==
    ASSUME NEW S \in SUBSET Nat, NEW p, IsFirst(p, S)
    PROVE  /\ Rank(S, p) = 1
           /\ \A q \in S : Rank(S, q) = 1 /\ IsFiniteSet(S) => q = p
<1>1. p \in S /\ p \in Nat /\ \A q \in S : p <= q
    BY DEF IsFirst
<1>2. {q \in S : q <= p} = {p}
    <2>1. \A q \in S : q <= p => q = p
        BY <1>1
    <2>2. p <= p
        BY <1>1
    <2> QED
        BY <1>1, <2>1, <2>2
<1>3. Rank(S, p) = 1
    BY <1>2, FS_Singleton DEF Rank
<1>4. ASSUME NEW q \in S, Rank(S, q) = 1, IsFiniteSet(S)
      PROVE  q = p
    <2> DEFINE T == {x \in S : x <= q}
    <2>1. IsFiniteSet(T) /\ q \in T /\ p \in T
        <3>1. T \subseteq S
            OBVIOUS
        <3>2. q \in T /\ p \in T
            BY <1>1
        <3> QED
            BY <1>4, <3>1, <3>2, FS_Subset
    <2>2. Cardinality(T) = 1
        BY <1>4 DEF Rank
    <2> HIDE DEF T
    <2>3. PICK x : T = {x}
        BY <2>1, <2>2, FS_Singleton
    <2> QED
        BY <2>1, <2>3
<1> QED
    BY <1>3, <1>4

\* Without the first place each of the others moves up by one.
LEMMA RankWithoutFirst ==
    ASSUME NEW S \in SUBSET Nat, IsFiniteSet(S), NEW p, IsFirst(p, S)
    PROVE  \A q \in S \ {p} : /\ Rank(S, q) \in Nat /\ Rank(S \ {p}, q) \in Nat
                              /\ Rank(S, q) = Rank(S \ {p}, q) + 1
<1> SUFFICES ASSUME NEW q \in S \ {p}
             PROVE  /\ Rank(S, q) \in Nat /\ Rank(S \ {p}, q) \in Nat
                    /\ Rank(S, q) = Rank(S \ {p}, q) + 1
    OBVIOUS
<1> DEFINE T == {x \in S \ {p} : x <= q}
<1>1. p \in S /\ \A x \in S : p <= x
    BY DEF IsFirst
<1>2. {x \in S : x <= q} = T \cup {p}
    BY <1>1
<1>3. IsFiniteSet(T) /\ p \notin T
    <2>1. T \subseteq S
        OBVIOUS
    <2> QED
        BY <2>1, FS_Subset
<1>4. Rank(S \ {p}, q) = Cardinality(T) /\ Rank(S, q) = Cardinality(T \cup {p})
    BY <1>2 DEF Rank
<1> HIDE DEF T
<1>5. Cardinality(T \cup {p}) = Cardinality(T) + 1 /\ Cardinality(T) \in Nat
    BY <1>3, FS_AddElement, FS_CardinalityType
<1> QED
    BY <1>4, <1>5

\* For every rank there is a place.
LEMMA RankIsTaken ==
    ASSUME NEW S \in SUBSET Nat, IsFiniteSet(S), NEW k \in 1..Cardinality(S)
    PROVE  \E p \in S : Rank(S, p) = k
<1> DEFINE c == Cardinality(S)
           missing == {n \in 1..c : ~\E p \in S : Rank(S, p) = n}
<1>1. c \in Nat
    BY FS_CardinalityType
<1> SUFFICES ASSUME missing # {}
             PROVE  FALSE
    OBVIOUS
<1> DEFINE m == First(missing)
<1>2. m \in missing /\ \A n \in missing : m <= n
    <2>1. missing \in SUBSET Nat
        BY <1>1
    <2> HIDE DEF missing
    <2> QED
        BY <2>1, FirstIsLeast
<1>3. m \in 1..c /\ ~\E p \in S : Rank(S, p) = m
    BY <1>2
<1> HIDE DEF m
<1>4. CASE m = 1
    <2>1. S # {}
        BY <1>1, <1>3, FS_EmptySet
    <2>2. IsFirst(First(S), S)
        BY <2>1, FirstIsLeast DEF IsFirst
    <2> QED
        BY <1>3, <1>4, <2>2, FirstRank DEF IsFirst
<1>5. CASE m # 1
    <2>1. m - 1 \in 1..c /\ m - 1 < m /\ m - 1 < c
        BY <1>1, <1>3, <1>5
    <2>2. m - 1 \notin missing
        BY <1>1, <1>2, <1>3, <2>1
    <2>3. PICK p \in S : Rank(S, p) = m - 1
        BY <2>1, <2>2
    <2> DEFINE low == {x \in S : x <= p}
               up == {x \in S : x > p}
    <2>4. Cardinality(low) = m - 1 /\ IsFiniteSet(low)
        <3>1. low \subseteq S
            OBVIOUS
        <3> QED
            BY <2>3, <3>1, FS_Subset DEF Rank
    <2>5. up # {}
        <3>1. ASSUME up = {}
              PROVE  low = S
            <4>1. \A x \in S : ~(x > p)
                BY <3>1
            <4>2. p \in Nat /\ \A x \in S : x \in Nat
                OBVIOUS
            <4>3. \A x \in S : x <= p
                BY <4>1, <4>2
            <4> QED
                BY <4>3
        <3> HIDE DEF low, up, missing
        <3> QED
            BY <2>1, <2>4, <3>1
    <2>6. First(up) \in up /\ \A x \in up : First(up) <= x
        <3>1. up \in SUBSET Nat
            OBVIOUS
        <3> HIDE DEF up
        <3> QED
            BY <2>5, <3>1, FirstIsLeast
    <2> DEFINE n == First(up)
    <2>7. n \in S /\ n > p /\ n \in Nat /\ p \in Nat
        BY <2>6
    <2>8. {x \in S : x <= n} = low \cup {n}
        <3> HIDE DEF n
        <3>1. ASSUME NEW x \in S, x <= n
              PROVE  x \in low \/ x = n
            <4>1. x > p => n <= x
                BY <2>6, <3>1 DEF n
            <4> QED
                BY <2>7, <3>1, <4>1
        <3>2. \A x \in low : x \in S /\ x <= n
            BY <2>7
        <3>3. n \in S /\ n <= n
            BY <2>7
        <3> HIDE DEF low
        <3>4. \A x : x \in {y \in S : y <= n} <=> x \in low \cup {n}
            BY <3>1, <3>2, <3>3
        <3> QED
            BY <3>4
    <2>9. n \notin low
        BY <2>7
    <2> HIDE DEF low, n, up, missing
    <2>10. Cardinality(low \cup {n}) = (m - 1) + 1
        BY <2>4, <2>9, FS_AddElement
    <2>11. Rank(S, n) = m
        <3>1. Rank(S, n) = (m - 1) + 1
            BY <2>8, <2>10 DEF Rank
        <3>2. m \in Nat
            BY <1>1, <1>3
        <3> QED
            BY <3>1, <3>2
    <2> QED
        BY <1>3, <2>7, <2>11
<1> QED
    BY <1>4, <1>5

\* What the k-th place is, the first one, and the others without it.
LEMMA NthFacts ==
    ASSUME NEW S \in SUBSET Nat, IsFiniteSet(S)
    PROVE  /\ \A k \in 1..Cardinality(S) : Nth(S, k) \in S
           /\ \A p : IsFirst(p, S) =>
                  /\ Nth(S, 1) = p
                  /\ \A k \in Nat : k >= 1 => Nth(S \ {p}, k) = Nth(S, k + 1)
<1>1. ASSUME NEW k \in 1..Cardinality(S)
      PROVE  Nth(S, k) \in S
    <2>1. {q \in S : Rank(S, q) = k} # {}
        BY RankIsTaken
    <2> QED
        BY <2>1 DEF Nth
<1>2. ASSUME NEW p, IsFirst(p, S)
      PROVE  Nth(S, 1) = p
    <2>1. {q \in S : Rank(S, q) = 1} = {p}
        BY <1>2, FirstRank DEF IsFirst
    <2> QED
        BY <2>1 DEF Nth
<1>3. ASSUME NEW p, IsFirst(p, S), NEW k \in Nat, k >= 1
      PROVE  Nth(S \ {p}, k) = Nth(S, k + 1)
    <2>1. Rank(S, p) = 1 /\ k + 1 # 1
        BY <1>3, FirstRank
    <2>2. \A q \in S : Rank(S, q) = k + 1 => q # p
        BY <2>1
    <2>3. \A q \in S \ {p} : Rank(S, q) = k + 1 <=> Rank(S \ {p}, q) = k
        <3> SUFFICES ASSUME NEW q \in S \ {p}
                     PROVE  Rank(S, q) = k + 1 <=> Rank(S \ {p}, q) = k
            OBVIOUS
        <3>1. /\ Rank(S, q) \in Nat /\ Rank(S \ {p}, q) \in Nat
              /\ Rank(S, q) = Rank(S \ {p}, q) + 1
            BY <1>3, RankWithoutFirst
        <3> QED
            BY <1>3, <3>1
    <2>4. {q \in S \ {p} : Rank(S \ {p}, q) = k} = {q \in S : Rank(S, q) = k + 1}
        BY <2>2, <2>3
    <2> QED
        BY <2>4 DEF Nth
<1> QED
    BY <1>1, <1>2, <1>3

\* The entries that a source has ahead are as many as their places.
LEMMA EntriesFacts ==
    ASSUME PlacesInv, NEW s \in Source
    PROVE  /\ IsFiniteSet(Ahead(s)) /\ Cardinality(Ahead(s)) \in Nat
           /\ EntriesAhead(s) \in Seq(Abs!Entry)
           /\ Len(EntriesAhead(s)) = Cardinality(Ahead(s))
           /\ \A k \in 1..Cardinality(Ahead(s)) :
                  EntriesAhead(s)[k] = Entry(input[s], Nth(Ahead(s), k))
           /\ EntriesAhead(s) # <<>> => Ahead(s) # {}
<1> DEFINE S == Ahead(s)
           f == input[s]
           n == Cardinality(S)
<1>1. f \in Text /\ Starts(f) \in SUBSET Nat /\ S \in SUBSET Nat /\ S \subseteq Starts(f)
    BY AheadFacts
<1>2. IsFiniteSet(S)
    <2>1. Len(f) \in Nat /\ IsFiniteSet(1..Len(f))
        BY <1>1, FS_Interval DEF Text
    <2>2. S \subseteq 1..Len(f)
        BY <1>1, StartsFacts
    <2> QED
        BY <2>1, <2>2, FS_Subset
<1>3. n \in Nat
    BY <1>2, FS_CardinalityType
<1>4. EntriesAhead(s) = [k \in 1..n |-> Entry(f, Nth(S, k))]
    BY DEF EntriesAhead
<1>5. ASSUME NEW k \in 1..n
      PROVE  Entry(f, Nth(S, k)) \in Abs!Entry
    <2>1. Nth(S, k) \in Starts(f)
        BY <1>1, <1>2, NthFacts
    <2>2. f[Nth(S, k)] \in Headers
        BY <1>1, <2>1, StartsFacts
    <2>3. Entry(f, Nth(S, k)) \in Text /\ Len(Entry(f, Nth(S, k))) > 0
              /\ Entry(f, Nth(S, k))[1] = f[Nth(S, k)]
        BY <1>1, <2>1, EntryIsText
    <2> QED
        BY <2>2, <2>3 DEF Abs!Entry, Abs!Text, Text
<1> HIDE DEF S, f, n
<1>6. EntriesAhead(s) \in Seq(Abs!Entry) /\ Len(EntriesAhead(s)) = n
    BY <1>3, <1>4, <1>5
<1>7. \A k \in 1..n : EntriesAhead(s)[k] = Entry(f, Nth(S, k))
    BY <1>4
<1>8. EntriesAhead(s) # <<>> => S # {}
    <2>1. S = {} => n = 0
        BY FS_EmptySet DEF n
    <2>2. n = 0 => EntriesAhead(s) = <<>>
        BY <1>6
    <2> QED
        BY <2>1, <2>2
<1> QED
    BY <1>2, <1>3, <1>6, <1>7, <1>8 DEF S, f, n

\* The first of them is the first entry ahead.
LEMMA HeadAhead ==
    ASSUME PlacesInv, NEW s \in Source, NEW p, IsFirst(p, Ahead(s))
    PROVE  /\ EntriesAhead(s) # <<>>
           /\ Head(EntriesAhead(s)) = Entry(input[s], p)
           /\ Cardinality(Ahead(s)) >= 1
<1>1. p \in Ahead(s) /\ Ahead(s) \in SUBSET Nat
    BY AheadFacts DEF IsFirst
<1>2. Cardinality(Ahead(s)) # 0
    BY <1>1, EntriesFacts, FS_EmptySet
<1>3. /\ Cardinality(Ahead(s)) \in Nat /\ EntriesAhead(s) \in Seq(Abs!Entry)
      /\ Len(EntriesAhead(s)) = Cardinality(Ahead(s))
    BY EntriesFacts
<1>4. Len(EntriesAhead(s)) >= 1 /\ 1 \in 1..Cardinality(Ahead(s))
    BY <1>2, <1>3
<1>5. EntriesAhead(s)[1] = Entry(input[s], Nth(Ahead(s), 1))
    BY <1>4, EntriesFacts
<1>6. Nth(Ahead(s), 1) = p
    BY <1>1, EntriesFacts, NthFacts
<1> QED
    BY <1>2, <1>3, <1>4, <1>5, <1>6

\* A sequence is a function of its places.
LEMMA SeqIsFunction ==
    ASSUME NEW X, NEW t \in Seq(X)
    PROVE  t = [k \in 1..Len(t) |-> t[k]]
OBVIOUS

\* A source that gives its first entry away has the others left, in their order.
LEMMA TailAhead ==
    ASSUME PlacesInv, PlacesInv', input' = input, NEW s \in Source, NEW p,
           IsFirst(p, Ahead(s)), Ahead(s)' = Ahead(s) \ {p}
    PROVE  EntriesAhead(s)' = Tail(EntriesAhead(s))
<1> DEFINE S == Ahead(s)
           R == Ahead(s) \ {p}
           f == input[s]
           n == Cardinality(Ahead(s))
           es == EntriesAhead(s)
<1>1. S \in SUBSET Nat /\ IsFiniteSet(S) /\ p \in S /\ n \in Nat /\ n >= 1
    BY AheadFacts, EntriesFacts, HeadAhead DEF IsFirst
<1>2. Cardinality(R) = n - 1
    BY <1>1, FS_RemoveElement
<1>3. EntriesAhead(s)' = [k \in 1..(n - 1) |-> Entry(f, Nth(R, k))]
    <2>1. EntriesAhead(s)' = [k \in 1..Cardinality(R) |-> Entry(f, Nth(R, k))]
        BY DEF EntriesAhead
    <2> QED
        BY <1>2, <2>1
<1>4. \A k \in 1..(n - 1) : Nth(R, k) = Nth(S, k + 1)
    <2>1. \A k \in Nat : k >= 1 => Nth(S \ {p}, k) = Nth(S, k + 1)
        BY <1>1, NthFacts
    <2> HIDE DEF n
    <2> QED
        BY <1>1, <2>1
<1>5. es \in Seq(Abs!Entry) /\ Len(es) = n
    BY EntriesFacts
<1>6. \A k \in 1..n : es[k] = Entry(f, Nth(S, k))
    BY EntriesFacts
<1> HIDE DEF S, R, f, n, es
<1>7. Tail(es) = [k \in 1..(n - 1) |-> es[k + 1]]
    <2>1. es # <<>>
        BY <1>1, <1>5
    <2>2. /\ Tail(es) \in Seq(Abs!Entry) /\ Len(Tail(es)) = n - 1
          /\ \A k \in 1..Len(Tail(es)) : Tail(es)[k] = es[k + 1]
        BY <1>5, <2>1, HeadTailProperties
    <2>3. Tail(es) = [k \in 1..Len(Tail(es)) |-> Tail(es)[k]]
        BY <2>2, SeqIsFunction
    <2> QED
        BY <2>2, <2>3
<1>8. \A k \in 1..(n - 1) : es[k + 1] = Entry(f, Nth(R, k))
    <2> SUFFICES ASSUME NEW k \in 1..(n - 1)
                 PROVE  es[k + 1] = Entry(f, Nth(R, k))
        OBVIOUS
    <2>1. k + 1 \in 1..n
        BY <1>1
    <2> QED
        BY <1>4, <1>6, <2>1
<1> QED
    BY <1>3, <1>7, <1>8 DEF es

\* Consuming the lowest head is a step of the merge.
LEMMA TakingIsConsuming ==
    ASSUME PlacesInv, PlacesInv', input' = input, lastMsg \in Text, app \in AppState,
           NEW s \in Source, NEW p \in Starts(input[s]), ConsumesLowest(s, p), Takes(s, p)
    PROVE  Abs!ConsumeOldest(s)
<1> DEFINE rest == [r \in Source |-> EntriesAhead(r)]
           e == Entry(input[s], p)
<1>1. IsFirst(p, Ahead(s))
    BY DEF ConsumesLowest
<1>2. rest[s] # <<>> /\ Head(rest[s]) = e
    BY <1>1, HeadAhead
<1>3. e \in Text /\ Len(e) > 0
    BY AheadFacts, EntryIsText
<1>4. Abs!IsOldest(s)
    <2>1. ASSUME NEW q \in Source, rest[q] # <<>>
          PROVE  ~Lower(Head(rest[q]), e)
        <3>1. Ahead(q) # {}
            BY <2>1, EntriesFacts
        <3>2. PICK k : IsFirst(k, Ahead(q))
            BY <3>1, AheadFacts
        <3>3. Head(rest[q]) = Entry(input[q], k)
            BY <3>2, HeadAhead
        <3> QED
            BY <3>2, <3>3 DEF ConsumesLowest
    <2> QED
        BY <1>2, <2>1 DEF Abs!IsOldest, Abs!HasEntry, Abs!Source, Source, Abs!Lower, Lower
<1>5. rest' = [rest EXCEPT ![s] = Tail(@)]
    <2>1. rest[s]' = Tail(rest[s])
        BY <1>1, TailAhead DEF Takes
    <2>2. ASSUME NEW q \in Source, q # s
          PROVE  rest[q]' = rest[q]
        <3>1. Ahead(q)' = Ahead(q)
            BY <2>2 DEF Takes
        <3>2. EntriesAhead(q)' = EntriesAhead(q)
            BY <3>1 DEF EntriesAhead
        <3> QED
            BY <3>2
    <2> QED
        BY <2>1, <2>2 DEF Source
<1>6. Abs!IsDuplicate(e) <=> RepeatsLast(e)
    BY <1>3 DEF Abs!IsDuplicate, RepeatsLast, Abs!SameStart, SameStart
<1>7. /\ app.isDedupe' = app.isDedupe
      /\ IF RepeatsLast(e) THEN UNCHANGED <<stdout, lastMsg>>
                           ELSE stdout' = Append(stdout, e) /\ lastMsg' = e
    BY DEF Takes, Written
<1> HIDE DEF e
<1> QED
    BY <1>2, <1>4, <1>5, <1>6, <1>7 DEF Abs!ConsumeOldest

\* A step in which nothing is consumed is none of the merge.
LEMMA NothingIsStutter ==
    ASSUME ConsumesNothing, input' = input, app'.isDedupe = app.isDedupe
    PROVE  UNCHANGED Abs!absVars
<1>1. \A s \in Source : EntriesAhead(s)' = EntriesAhead(s)
    BY DEF ConsumesNothing, EntriesAhead
<1>2. [s \in Source |-> EntriesAhead(s)]' = [s \in Source |-> EntriesAhead(s)]
    BY <1>1 DEF Source
<1>3. stdout' = stdout /\ lastMsg' = lastMsg
    BY DEF ConsumesNothing
<1> QED
    BY <1>2, <1>3 DEF Abs!absVars

\* The tool starts where the merge starts.
LEMMA StartOfMerge ==
    ASSUME RefInit, PlacesInv
    PROVE  Abs!AbsInit
<1>1. [s \in Source |-> EntriesAhead(s)] \in [Abs!Source -> Seq(Abs!Entry)]
    BY EntriesFacts DEF Abs!Source, Source
<1>2. stdout = <<>> /\ lastMsg = <<>> /\ app.isDedupe \in BOOLEAN
    BY DEF RefInit, Init
<1> QED
    BY <1>1, <1>2 DEF Abs!AbsInit

\* Any step of the tool is one of the merge, unless a call to the system fails in it.
MergesUntilFault == Abs!AbsInit /\ [][Abs!AbsNext \/ Fault]_(Abs!absVars)

\* writeLowestEntryToDst() takes the entry or stops because realloc() failed.
LEMMA FailsWithFault ==
    ASSUME BatchInv, FailureStops, WriteLowestEntryToDst, app'.exitCode # 0
    PROVE  Fault
<1>1. Queued("writeLowestEntryToDst") /\ app.exitCode = 0
    BY DEF WriteLowestEntryToDst, Dispatch, FailureStops, Queued, ControlFn, EnvFn
<1>2. app' # app
    BY <1>1
<1> QED
    BY <1>2 DEF WriteLowestEntryToDst

\* For any faults, LogMerge does what LogMergeAbs allows until one of them strikes.
THEOREM MergesWithFaults == RefSpec => MergesUntilFault
<1>1. RefSpec => [](BatchInv /\ BufferInv /\ FailureStops)
    BY RefImplementsSpec, BatchInvariant, BuffersInOrder, FailureIsFinal, PTL
<1>2. RefInit /\ PlacesInv => Abs!AbsInit
    BY StartOfMerge
<1>3. BatchInv /\ BatchInv' /\ BufferInv /\ FailureStops /\ PlacesInv /\ PlacesInv'
      /\ [RefNext]_RefVars
      /\ [ConsumesNothing
          \/ \E s \in Source : \E p \in Starts(input[s]) : ConsumesLowest(s, p)]_RefVars
          => [Abs!AbsNext \/ Fault]_(Abs!absVars)
    <2> SUFFICES ASSUME BatchInv, BatchInv', BufferInv, FailureStops, PlacesInv, PlacesInv',
                        [RefNext]_RefVars,
                        [ConsumesNothing
                         \/ \E s \in Source : \E p \in Starts(input[s]) :
                                ConsumesLowest(s, p)]_RefVars
                 PROVE  Abs!AbsNext \/ Fault \/ UNCHANGED Abs!absVars
        OBVIOUS
    <2>1. input' = input /\ [Next]_vars
        BY DEF RefNext, RefVars
    <2>2. app'.isDedupe = app.isDedupe /\ (app'.exitCode = 0 => app.exitCode = 0)
        BY <2>1, AppSettled
    <2>3. lastMsg \in Text /\ app \in AppState
        BY DEF BatchInv, CtlTypeOK, BufferInv, DataInv
    <2>4. CASE ConsumesNothing
        BY <2>1, <2>2, <2>4, NothingIsStutter
    <2>5. CASE \E s \in Source : \E p \in Starts(input[s]) : ConsumesLowest(s, p)
        <3>1. PICK s \in Source : \E p \in Starts(input[s]) : ConsumesLowest(s, p)
            BY <2>5
        <3>2. PICK p \in Starts(input[s]) : ConsumesLowest(s, p)
            BY <3>1
        <3>3. CASE Takes(s, p)
            <4>1. Abs!ConsumeOldest(s)
                BY <2>1, <2>3, <3>2, <3>3, TakingIsConsuming
            <4> QED
                BY <4>1 DEF Abs!AbsNext, Abs!Source, Source
        <3>4. CASE Fails(s, p)
            <4>1. app'.exitCode # 0 /\ stdout' # stdout
                <5>1. stdout \in Seq(Text)
                    BY DEF BufferInv, DataInv
                <5> QED
                    BY <3>4, <5>1 DEF Fails
            <4>2. WriteLowestEntryToDst
                BY <4>1, OnlyOneConsumes
            <4> QED
                BY <4>1, <4>2, FailsWithFault
        <3> QED
            BY <3>2, <3>3, <3>4 DEF ConsumesLowest
    <2>6. CASE UNCHANGED RefVars
        <3>1. UNCHANGED <<input, src, unread, stdout, lastMsg>>
            BY <2>6 DEF RefVars, vars, dataVars
        <3>2. ConsumesNothing
            BY <3>1 DEF ConsumesNothing, Ahead
        <3> QED
            BY <2>1, <2>2, <3>2, NothingIsStutter
    <2> QED
        BY <2>4, <2>5, <2>6
<1> QED
    BY <1>1, <1>2, <1>3, PlacesInvariant, StepsAreThoseOfTheMerge, PTL
       DEF RefSpec, OneAfterTheOther, MergesUntilFault

\* As long as no call to the system fails, LogMerge implements LogMergeAbs.
THEOREM Refinement ==
    ASSUME MaxFaults = 0
    PROVE  RefSpec => ImplementsMerge
<1>1. RefSpec => []BufferInv
    BY RefImplementsSpec, BuffersInOrder, PTL
<1>2. BufferInv => ~Fault
    BY LogMergeAssumption DEF BufferInv, DataInv, Fault
<1>3. BufferInv /\ [Abs!AbsNext \/ Fault]_(Abs!absVars) => [Abs!AbsNext]_(Abs!absVars)
    BY <1>2
<1> QED
    BY <1>1, <1>3, MergesWithFaults, PTL DEF MergesUntilFault, ImplementsMerge, Abs!AbsSpec
=============================================================================
