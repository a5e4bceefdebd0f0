----------------------------- MODULE LogMergeInv -----------------------------
(***************************************************************************)
(* The inductive invariant of the event loop and the pool of LogMerge: the *)
(* execution is a sequence of batches.  A batch belongs to one of two      *)
(* kinds, and between two batches nobody but the event loop does anything. *)
(***************************************************************************)
EXTENDS LogMerge, FiniteSets

ControlFn == EnvFn \ {"onOneRefillDone", "markLogEntryForSourceDone"}

Busy == {t \in Thread : job[t] # Idle}

\* Tasks that are queued, running, or reported and not yet handled.
Outstanding == Len(poolQ) + Cardinality(Busy) + Len(envQ)

CtlTypeOK ==
    /\ pc \in {"idle", "enq", "refill", "mark", "find", "join", "done", "abort"}
    /\ iter \in 1..(NumSources + 1)
    /\ pend \in {NoTask} \cup EnvTask
    /\ envQ \in Seq(EnvTask)
    /\ poolQ \in Seq(PoolTask)
    /\ job \in [Thread -> Job]
    /\ tokens \in Int
    /\ app \in AppState

BatchOf(poolFn, doneFn) ==
    /\ \A i \in 1..Len(poolQ) : poolQ[i].fn = poolFn
    /\ \A t \in Thread : \/ job[t] = Idle
                         \/ job[t].at = "run" /\ job[t].task.fn = poolFn
                         \/ job[t].at = "post" /\ job[t].task.fn = doneFn
    /\ \A i \in 1..Len(envQ) : envQ[i].fn = doneFn

\* While tasks are being enqueued no completion is handled, so the counter is
\* the number of turns done.  Later it may exceed what is outstanding, by the
\* tasks that gave up.
CountOf(counter, loop) ==
    /\ Outstanding <= counter
    /\ pc \in {"idle", loop, "abort"}
    /\ pc = loop => iter \in Source /\ counter = iter - 1

Refilling ==
    /\ BatchOf("refillBufferForSourceByArg", "onOneRefillDone")
    /\ app.numLogMarksRunning = 0
    /\ CountOf(app.numRefillsRunning, "refill")

Marking ==
    /\ BatchOf("markLogEntryForSourceByArg", "markLogEntryForSourceDone")
    /\ app.numRefillsRunning = 0
    /\ CountOf(app.numLogMarksRunning, "mark")

\* Between two batches: the event loop runs a chain of handlers, each of which
\* enqueues the next one.
Control ==
    /\ PoolQuiet
    /\ app.numRefillsRunning = 0
    /\ app.numLogMarksRunning = 0
    /\ pc \in {"idle", "enq", "find", "join", "done", "abort"}
    /\ pc = "enq" => pend \in EnvTask /\ pend.fn \in ControlFn
    /\ \/ envQ = <<>>
       \/ pc = "idle" /\ Len(envQ) = 1 /\ envQ[1].fn \in ControlFn

\* A source has one task at most, and none yet when its turn comes.
DistinctSources ==
    /\ \A i, j \in 1..Len(poolQ) : i # j => poolQ[i].arg # poolQ[j].arg
    /\ \A i \in 1..Len(poolQ) : \A t \in Thread :
           job[t].at = "run" => job[t].task.arg # poolQ[i].arg
    /\ OneTaskPerSource
    /\ pc \in {"refill", "mark"} =>
           /\ \A i \in 1..Len(poolQ) : poolQ[i].arg < iter
           /\ \A t \in Thread : job[t].at = "run" => job[t].task.arg < iter

\* The completions that wait for the event loop.
Reported == {i \in DOMAIN envQ : envQ[i].fn \notin ControlFn}

\* Every task that is queued, running, or reported and not yet handled has an await
\* token of its own, so runUntilDone() cannot return before it; and there are as many
\* tokens as tasks counted, those of refills that gave up (395, 401) included.  When it
\* has returned no thread is at work.
TokensMatchTasks ==
    /\ Len(poolQ) + Cardinality(Busy) + Cardinality(Reported) <= tokens
    /\ tokens = app.numRefillsRunning + app.numLogMarksRunning
    /\ pc \in {"join", "done"} => PoolQuiet

TokensCounted == tokens = app.numRefillsRunning + app.numLogMarksRunning

\* The batches of refillBufferForSourceByArg() and markLogEntryForSourceByArg()
\* never overlap each other or a handler that reads the buffers.
BatchInv ==
    /\ CtlTypeOK
    /\ TokensCounted
    /\ Refilling \/ Marking \/ Control
    /\ DistinctSources

-----------------------------------------------------------------------------
(* The buffers.                                                            *)

\* The offsets of a source lie within its bytes, the bytes within what was
\* allocated.  The newline behind an entry is not consumed with it, so there is
\* always a byte left behind what was consumed.
InBuffer(r) ==
    /\ r \in SourceState
    /\ r.beg <= r.end
    /\ r.end = Len(r.buf)
    /\ r.end <= r.cap
    /\ r.beg = 0 \/ r.beg < r.end
    /\ r.logBeg = 0 \/ r.beg <= r.logBeg
    /\ r.logEnd = 0 \/ r.beg <= r.logEnd

\* What a refill leaves behind: a full buffer or the end of the file, and nothing
\* to be moved to the front.
Ready(r) ==
    /\ r.isEof \/ r.end = r.cap
    /\ r.beg <= r.end - r.beg

\* What a scan leaves behind.
Found(r) == r.beg <= r.logBeg /\ r.logBeg < r.logEnd /\ r.logEnd < r.end
Scanned(r) == r.noMore \/ r.needMore \/ Found(r)

\* Only a full buffer asks for more, and never at the end of the file.
SourceOK(r) == InBuffer(r) /\ (r.needMore => ~r.isEof /\ Ready(r))

\* The task of source s in this batch has not been carried out ...
Pending(s) ==
    \/ pc \in {"refill", "mark"} /\ iter <= s
    \/ \E i \in 1..Len(poolQ) : poolQ[i].arg = s
    \/ \E t \in Thread : job[t].at = "run" /\ job[t].task.arg = s

\* ... or it was, and the event loop does not know yet.
Reporting(s) ==
    \/ \E t \in Thread : job[t].at = "post" /\ job[t].task.arg = s
    \/ \E i \in 1..Len(envQ) : envQ[i].arg = s

\* f is the handler that runs next.
Queued(f) ==
    \/ pc = "enq" /\ pend.fn = f
    \/ envQ # <<>> /\ Head(envQ).fn = f

\* In a batch of refills, unless one of them failed.
RefillProgress ==
    (pc # "abort" /\ app.exitCode = 0 /\ (app.numRefillsRunning > 0 \/ pc = "refill"))
        => \A s \in Source : Pending(s) \/ Ready(src[s])

\* In a batch of scans: needMore reaches struct App with the completion.
MarkProgress ==
    (pc # "abort" /\ (app.numLogMarksRunning > 0 \/ pc = "mark"))
        => \A s \in Source :
               /\ Ready(src[s])
               /\ \/ Pending(s)
                  \/ /\ Scanned(src[s])
                     /\ Reporting(s) \/ (src[s].needMore => app.needMore)

\* What the chain of handlers relies on.
ChainInv ==
    /\ (Queued("initStuff") \/ Queued("openSrcFiles")) =>
           \A s \in Source : src[s] = FreshSource
    /\ Queued("markLogEntriesForeachSource") => \A s \in Source : Ready(src[s])
    /\ (Queued("findOldestLogEntryFromAllHeads") \/ Queued("writeLowestEntryToDst")
        \/ pc = "find") =>
           \A s \in Source : ~src[s].needMore /\ (src[s].noMore \/ Found(src[s]))
    /\ (Queued("writeLowestEntryToDst") \/ pc = "find") =>
           app.lowest \in Source /\ ~src[app.lowest].noMore

\* The contents of every buffer, whatever the event loop is doing.
DataInv ==
    /\ src \in [Source -> SourceState]
    /\ unread \in [Source -> Text]
    /\ lastMsg \in Text
    /\ stdout \in Seq(Text)
    /\ faults \in 0..MaxFaults
    /\ \A s \in Source : SourceOK(src[s])

\* The offsets of all sources stay in bounds over any sequence of reads, moves,
\* growths, scans and consumptions, and a source that needs more can get more.
BufferInv == DataInv /\ RefillProgress /\ MarkProgress /\ ChainInv

\* After a failure the chain is not taken up again: what is still queued are
\* completions, and they return early.
FailureStops ==
    app.exitCode # 0 => pc # "find" /\ \A f \in ControlFn : ~Queued(f)

\* While no call to the system has failed every assertion held, and the pool that
\* main() joins in the end is there once initStuff() has run.
RunsClean ==
    (NumSources > 0 /\ faults = 0) =>
        NoAbort /\ (app.thrdPool \/ Queued("initStuff"))
=============================================================================
