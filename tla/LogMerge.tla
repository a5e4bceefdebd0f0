------------------------------- MODULE LogMerge -------------------------------
(***************************************************************************)
(* src/src/main/paisa/LogMerge.c: merge log files by timestamp.            *)
(*                                                                         *)
(* One event-loop thread (variables pc, iter, pend, envQ) runs the         *)
(* handlers; a thread pool (variables poolQ, job) reads and scans one      *)
(* source per task and posts its completion back to the event loop.        *)
(*                                                                         *)
(* libgarbage, which provides the event loop and the pool, is not part of  *)
(* the repository.  It is modelled from its use: two FIFO queues of        *)
(* capacity EnvCap and PoolCap on which an enqueuing thread blocks while   *)
(* they are full, and await tokens that keep runUntilDone() from           *)
(* returning.                                                              *)
(***************************************************************************)
EXTENDS LogText, Integers

CONSTANTS
    NumSources,     \* app->sources_len
    Inputs,         \* the contents the input files may have
    EnvCap,         \* slots in the queue of the event loop
    PoolCap,        \* slots in the queue of the thread pool
    InitCap,        \* innBuf_cap as openSrcFiles() sets it (1<<16)
    GrowBy,         \* by how much a full buffer grows (4096)
    MaxEntry,       \* the longest search for an entry (0xFFFFFF)
    MaxFaults       \* how many calls to the system may fail

ASSUME LogMergeAssumption ==
    /\ NumSources \in Nat
    /\ Inputs \subseteq [1..NumSources -> Text]
    /\ EnvCap \in Nat \ {0}
    /\ PoolCap \in Nat \ {0}
    /\ InitCap \in Nat \ {0}
    /\ GrowBy \in Nat \ {0}
    /\ MaxEntry \in Nat
    /\ MaxFaults \in Nat

Source == 1..NumSources

\* Mutant: one thread whatever the number of sources.
OneThrd == 1

\* initStuff() asks for as many threads as there are sources, "to prevent
\* deadlocks due to libgarbage having very short task queues".
NumThrds == NumSources
Thread == 1..NumThrds

VARIABLES
    pc,         \* where the event-loop thread is
    iter,       \* the loop counter of a handler that visits all sources
    pend,       \* the task the event-loop thread is about to enqueue
    envQ,       \* the queue of the event loop
    poolQ,      \* the queue of the thread pool
    job,        \* what every pool thread is doing
    tokens,     \* await tokens held
    app,        \* struct App ...
    lastMsg,    \* ... and its lastWrittenMsg
    src,        \* struct Source, per source
    unread,     \* what fread() has not delivered yet, per source
    stdout,     \* the entries written
    faults      \* failed system calls so far

loopVars == <<pc, iter, pend, envQ, tokens>>
poolVars == <<poolQ, job>>
dataVars == <<src, unread, lastMsg, stdout>>
vars == <<loopVars, poolVars, app, dataVars, faults>>

NoTask == [fn |-> "none", arg |-> 0]
Task(f, a) == [fn |-> f, arg |-> a]

EnvFn == {"initStuff", "openSrcFiles", "refillSrcBuffers", "onOneRefillDone",
          "markLogEntriesForeachSource", "markLogEntryForSourceDone",
          "findOldestLogEntryFromAllHeads", "writeLowestEntryToDst"}
PoolFn == {"refillBufferForSourceByArg", "markLogEntryForSourceByArg"}

\* A pool thread: idle, running a task, or blocked in enqueBlocking() with the
\* completion it has to post.
Idle == [at |-> "idle", task |-> NoTask]

-----------------------------------------------------------------------------
(* Event loop and pool primitives.                                         *)

\* runUntilDone() takes the next task; the handler starts.
Dispatch(f) ==
    /\ pc = "idle"
    /\ envQ # <<>>
    /\ Head(envQ).fn = f
    /\ envQ' = Tail(envQ)

\* The handler ends by enqueuing f on the event loop's own queue ...
Post(f, a) ==
    /\ pc' = "enq"
    /\ pend' = Task(f, a)
    /\ UNCHANGED iter

\* ... or just returns.
Return == pc' = "idle" /\ UNCHANGED <<iter, pend>>

\* refillSrcBuffers() and markLogEntriesForeachSource() start their loop.
StartLoop(which) == pc' = which /\ iter' = 1 /\ UNCHANGED pend

\* refillSrcBuffers() is a task of the event loop, and is also called directly.
CallRefillSrcBuffers == IF NumSources = 0 THEN Return ELSE StartLoop("refill")

\* A failed assert() ends the process.
AssertThat(c) == pc' = IF c THEN pc ELSE "abort"

\* enqueBlocking() called by the event-loop thread itself.
LoopEnque ==
    /\ pc = "enq"
    /\ Len(envQ) < EnvCap
    /\ envQ' = Append(envQ, pend)
    /\ pc' = "idle"
    /\ pend' = NoTask
    /\ UNCHANGED <<iter, tokens, poolVars, app, dataVars, faults>>

\* One turn of the loop over all sources: enque() on the pool (blocks while the
\* queue of the pool is full), count it, hold a token for it.
PoolEnque(which, f, counter) ==
    /\ pc = which
    /\ iter \in Source
    /\ Len(poolQ) < PoolCap
    /\ poolQ' = Append(poolQ, Task(f, iter))
    /\ app' = [app EXCEPT ![counter] = @ + 1]
    /\ tokens' = tokens + 1
    /\ iter' = iter + 1
    /\ pc' = IF iter = NumSources THEN "idle" ELSE which
    /\ UNCHANGED <<pend, envQ, job, dataVars, faults>>

RefillSrcBuffersTurn ==
    PoolEnque("refill", "refillBufferForSourceByArg", "numRefillsRunning")

MarkLogEntriesTurn ==
    PoolEnque("mark", "markLogEntryForSourceByArg", "numLogMarksRunning")

\* A system call fails, at most MaxFaults times.
Fault == faults < MaxFaults /\ faults' = faults + 1

-----------------------------------------------------------------------------
(* Handlers of the event loop.                                             *)

\* Compile the pattern, start the pool.
InitStuff ==
    /\ Dispatch("initStuff")
    /\ \/ /\ app' = [app EXCEPT !.thrdPool = (NumSources > 0)]
          /\ Post("openSrcFiles", 0)
          /\ UNCHANGED faults
       \/ /\ Fault                      \* regcomp()
          /\ app' = [app EXCEPT !.exitCode = -1]
          /\ Return
    /\ UNCHANGED <<tokens, poolVars, dataVars>>

\* Open all files, then call refillSrcBuffers().
OpenSrcFiles ==
    /\ Dispatch("openSrcFiles")
    /\ \/ /\ src' = [s \in Source |-> [src[s] EXCEPT !.cap = InitCap]]
          /\ CallRefillSrcBuffers
          /\ UNCHANGED <<app, faults>>
       \/ \E s \in Source :             \* fopen() of source s
          /\ Fault
          /\ app' = [app EXCEPT !.exitCode = -1]
          /\ src' = [q \in Source |->
                        [src[q] EXCEPT !.cap = IF q < s THEN InitCap ELSE @]]
          /\ Return
    /\ UNCHANGED <<tokens, poolVars, unread, lastMsg, stdout>>

RefillSrcBuffers ==
    /\ Dispatch("refillSrcBuffers")
    /\ CallRefillSrcBuffers
    /\ UNCHANGED <<tokens, poolVars, app, dataVars, faults>>

\* Mutants: the token is kept; one task too few is waited for; no task is.
KeepAwaitToken == UNCHANGED tokens
OthersRunningButOne(n) == n > 1
GoOn(n) == FALSE

DelAwaitToken == tokens' = tokens - 1

\* The counter after its decrement: the batch is not over yet.
OthersRunning(n) == n > 0

\* A completion that does not start the next phase.
ReturnsEarly(n) == OthersRunning(n) \/ app.exitCode # 0

OnOneRefillDone ==
    /\ Dispatch("onOneRefillDone")
    /\ app' = [app EXCEPT !.numRefillsRunning = @ - 1]
    /\ DelAwaitToken
    /\ IF ReturnsEarly(app.numRefillsRunning - 1)
       THEN Return
       ELSE Post("markLogEntriesForeachSource", 0)
    /\ UNCHANGED <<poolVars, dataVars, faults>>

MarkLogEntriesForeachSource ==
    /\ Dispatch("markLogEntriesForeachSource")
    /\ IF NumSources = 0 THEN AssertThat(FALSE) /\ UNCHANGED <<iter, pend>>
                         ELSE StartLoop("mark")
    /\ UNCHANGED <<tokens, poolVars, app, dataVars, faults>>

\* Mutant: the flag stays.
NeedMoreForever(a) == a

\* app->flg &= ~FLG_needMore
NeedMoreHandled(a) == [a EXCEPT !.needMore = FALSE]

MarkLogEntryForSourceDone ==
    /\ Dispatch("markLogEntryForSourceDone")
    /\ DelAwaitToken
    /\ LET more == app.needMore \/ src[Head(envQ).arg].needMore
           n == app.numLogMarksRunning - 1
       IN  IF ReturnsEarly(n)
           THEN /\ app' = [app EXCEPT !.numLogMarksRunning = n, !.needMore = more]
                /\ Return
           ELSE /\ app' = NeedMoreHandled([app EXCEPT !.numLogMarksRunning = n,
                                                      !.needMore = more])
                /\ Post(IF more THEN "refillSrcBuffers"
                                ELSE "findOldestLogEntryFromAllHeads", 0)
    /\ UNCHANGED <<poolVars, dataVars, faults>>

\* The current entry of a source.  Offsets are those of the code, from zero.
LogEntry(r) == SubSeq(r.buf, r.logBeg + 1, r.logEnd)

\* Mutant: the comparison is the other way round.
ComparesHigher(a, b) == Lower(b, a)

\* memcmp() of two heads is negative.
ComparesLower(a, b) == Lower(a, b)

First(S) == CHOOSE i \in S : \A j \in S : i <= j

\* Begin with the first source that still has an entry ...
FindOldestLogEntryFromAllHeads ==
    /\ Dispatch("findOldestLogEntryFromAllHeads")
    /\ LET open == {s \in Source : ~src[s].noMore}
       IN  IF open = {}
           THEN app' = [app EXCEPT !.exitCode = 0] /\ Return
           ELSE /\ app' = [app EXCEPT !.lowest = First(open)]
                /\ pc' = "find"
                /\ iter' = 2
                /\ UNCHANGED pend
    /\ UNCHANGED <<tokens, poolVars, dataVars, faults>>

\* ... and replace it by every later one that compares lower.
FindOldestTurn ==
    /\ pc = "find"
    /\ iter \in Source
    /\ app' = IF ~src[iter].noMore
                  /\ ComparesLower(LogEntry(src[iter]), LogEntry(src[app.lowest]))
              THEN [app EXCEPT !.lowest = iter]
              ELSE app
    /\ iter' = iter + 1
    /\ UNCHANGED <<pc, pend, envQ, tokens, poolVars, dataVars, faults>>

FindOldestEnd ==
    /\ pc = "find"
    /\ iter > NumSources
    /\ Post("writeLowestEntryToDst", 0)
    /\ UNCHANGED <<envQ, tokens, poolVars, app, dataVars, faults>>

\* Mutants: an empty copy takes part; the bytes are not consumed.
RepeatsLastOrNone(e) == app.isDedupe /\ SameStart(lastMsg, e)
ConsumedNothing(r) == [r EXCEPT !.logBeg = r.logEnd]

\* memcmp() of the copy and the entry, over the shorter of them.
RepeatsLast(e) ==
    app.isDedupe /\ Len(lastMsg) > 0 /\ Len(e) > 0 /\ SameStart(lastMsg, e)

\* innBuf_beg = logBeg = logEnd
Consumed(r) == [r EXCEPT !.beg = r.logEnd, !.logBeg = r.logEnd]

GiveUp(a) == app' = [a EXCEPT !.exitCode = -1] /\ Return

\* Write the entry unless it repeats the last one, consume it, and call
\* refillSrcBuffers().
WriteLowestEntryToDst ==
    /\ Dispatch("writeLowestEntryToDst")
    /\ LET e == LogEntry(src[app.lowest])
           inOrder == src[app.lowest].logBeg <= src[app.lowest].logEnd
       IN  \/ /\ inOrder
              /\ src' = [src EXCEPT ![app.lowest] = Consumed(@)]
              /\ IF RepeatsLast(e)
                 THEN UNCHANGED <<lastMsg, stdout>>
                 ELSE stdout' = Append(stdout, e) /\ lastMsg' = e
              /\ CallRefillSrcBuffers
              /\ UNCHANGED <<app, faults>>
           \/ /\ inOrder /\ ~RepeatsLast(e)        \* realloc() of lastWrittenMsg
              /\ Fault
              /\ stdout' = Append(stdout, e)
              /\ GiveUp(app)
              /\ UNCHANGED <<src, lastMsg>>
           \/ /\ ~inOrder
              /\ AssertThat(inOrder)
              /\ UNCHANGED <<iter, pend, app, src, lastMsg, stdout, faults>>
    /\ UNCHANGED <<tokens, poolVars, unread>>

-----------------------------------------------------------------------------
(* Tasks of the thread pool.                                               *)

\* Move the unconsumed bytes to the front, once they fit in front of themselves.
Compact(r) ==
    LET cnt == r.end - r.beg
    IN  IF r.beg > cnt /\ cnt > 0
        THEN [r EXCEPT !.buf = SubSeq(@, r.beg + 1, r.end),
                       !.logBeg = IF @ > 0 THEN @ - r.beg ELSE @,
                       !.logEnd = IF @ > 0 THEN @ - r.beg ELSE @,
                       !.end = @ - r.beg,
                       !.beg = 0]
        ELSE r

\* Mutants: one byte too many; a full read is taken for the end of the file;
\* the flag survives the growth.
FreadLenPlusOne(r, rem) ==
    IF r.cap - r.end < Len(rem) THEN r.cap - r.end + 1 ELSE Len(rem)
EofOnFullRead(r, n) == n <= r.cap - r.end
GrownStillWanting(r) == [r EXCEPT !.cap = @ + GrowBy]

\* fread() fills what is free, or as much as there is left ...
FreadLen(r, rem) == IF r.cap - r.end <= Len(rem) THEN r.cap - r.end ELSE Len(rem)

\* ... and a short read tells the end of the file.
Feof(r, n) == n < r.cap - r.end

Fread(r, rem) ==
    [r EXCEPT !.buf = @ \o SubSeq(rem, 1, FreadLen(r, rem)),
              !.end = @ + FreadLen(r, rem),
              !.isEof = Feof(r, FreadLen(r, rem))]

MustRead(r) == r.cap > r.end /\ ~r.isEof

Grown(r) == [r EXCEPT !.needMore = FALSE, !.cap = @ + GrowBy]

\* A pool thread takes a task.
TakeTask(t) ==
    /\ pc # "abort"
    /\ job[t] = Idle
    /\ poolQ # <<>>
    /\ job' = [job EXCEPT ![t] = [at |-> "run", task |-> Head(poolQ)]]
    /\ poolQ' = Tail(poolQ)
    /\ UNCHANGED <<loopVars, app, dataVars, faults>>

Runs(t, f) == pc # "abort" /\ job[t].at = "run" /\ job[t].task.fn = f

\* The task is over; its completion is still to be posted.  (onOneRefillDone
\* gets the App as its argument; the model keeps the source it is about.)
Report(t, f, a) == job' = [job EXCEPT ![t] = [at |-> "post", task |-> Task(f, a)]]

\* The task returns without posting anything.
Abandon(t) == job' = [job EXCEPT ![t] = Idle]

\* Read into the free part of the buffer.  A full buffer in which no entry was
\* found grows first, and the function calls itself once more.
RefillBufferForSourceByArg(t) ==
    /\ Runs(t, "refillBufferForSourceByArg")
    /\ LET s == job[t].task.arg
           r == Compact(src[s])
           mustGrow == ~MustRead(r) /\ r.needMore
           tooLong == r.end - r.beg > MaxEntry
           q == IF mustGrow THEN Compact(Grown(r)) ELSE r
           willRead == MustRead(r) \/ (mustGrow /\ ~tooLong)
       IN  \/ /\ willRead
              /\ src' = [src EXCEPT ![s] = Fread(q, unread[s])]
              /\ unread' = [unread EXCEPT ![s] = SubSeq(@, FreadLen(q, @) + 1, Len(@))]
              /\ Report(t, "onOneRefillDone", s)
              /\ AssertThat(mustGrow => ~r.isEof)         \* !feof(FD)
              /\ UNCHANGED <<app, faults>>
           \/ /\ ~MustRead(r) /\ ~r.needMore              \* nothing to do
              /\ src' = [src EXCEPT ![s] = r]
              /\ Report(t, "onOneRefillDone", s)
              /\ UNCHANGED <<pc, app, unread, faults>>
           \/ /\ mustGrow /\ tooLong                      \* no entry to be found
              /\ src' = [src EXCEPT ![s] = r]
              /\ app' = [app EXCEPT !.exitCode = -1]
              /\ Abandon(t)
              /\ AssertThat(~r.isEof)
              /\ UNCHANGED <<unread, faults>>
           \/ /\ mustGrow /\ ~tooLong                     \* realloc()
              /\ Fault
              /\ src' = [src EXCEPT ![s] = Grown(r)]
              /\ app' = [app EXCEPT !.exitCode = -1]
              /\ Abandon(t)
              /\ AssertThat(~r.isEof)
              /\ UNCHANGED unread
           \/ /\ willRead                                 \* !ferror(FD)
              /\ Fault
              /\ AssertThat(FALSE)
              /\ UNCHANGED <<job, app, src, unread>>
    /\ UNCHANGED <<iter, pend, envQ, tokens, poolQ, lastMsg, stdout>>

\* A timestamp at offset i that the pattern matches.  The last byte of the
\* buffer is replaced by a NUL while regexec() runs, so it never takes part.
HdrAt(r, i) == r.buf[i + 1] \in Headers /\ i < r.end - 1

BeginsLine(r, i) == i = r.beg \/ r.buf[i] = LF

MarkBegins(r) == {i \in r.beg..(r.end - 1) : HdrAt(r, i) /\ BeginsLine(r, i)}

\* Where the next entry begins, in the part behind the begin of this one.
MarkEnds(r, b) == {i \in (b + 1)..(r.end - 1) : HdrAt(r, i) /\ r.buf[i] = LF}

\* "-1, aka drop trailing LF"
DropTrailingLF(next) == next - 1

\* Find the first entry of the unconsumed bytes and where it ends.
Mark(r) ==
    IF MarkBegins(r) = {}
    THEN IF r.isEof THEN [r EXCEPT !.noMore = TRUE]
                    ELSE [r EXCEPT !.needMore = TRUE]
    ELSE LET b == First(MarkBegins(r))
         IN  IF MarkEnds(r, b) # {}
             THEN [r EXCEPT !.logBeg = b, !.logEnd = DropTrailingLF(First(MarkEnds(r, b)))]
             ELSE IF r.isEof
             THEN [r EXCEPT !.logBeg = b, !.logEnd = DropTrailingLF(r.end)]
             ELSE [r EXCEPT !.logBeg = b, !.needMore = TRUE]

MarkLogEntryForSourceByArg(t) ==
    /\ Runs(t, "markLogEntryForSourceByArg")
    /\ LET s == job[t].task.arg
       IN  /\ src' = [src EXCEPT ![s] = Mark(@)]
           /\ Report(t, "markLogEntryForSourceDone", s)
    /\ UNCHANGED <<loopVars, poolQ, app, unread, lastMsg, stdout, faults>>

\* enqueBlocking() called by a pool thread.
ThreadEnque(t) ==
    /\ pc # "abort"
    /\ job[t].at = "post"
    /\ Len(envQ) < EnvCap
    /\ envQ' = Append(envQ, job[t].task)
    /\ job' = [job EXCEPT ![t] = Idle]
    /\ UNCHANGED <<pc, iter, pend, tokens, poolQ, app, dataVars, faults>>

-----------------------------------------------------------------------------
(* main().                                                                 *)

FreshSource ==
    [cap |-> 0, beg |-> 0, end |-> 0, logBeg |-> 0, logEnd |-> 0, buf |-> <<>>,
     isEof |-> FALSE, needMore |-> FALSE, noMore |-> FALSE]

\* parseArgs() is over and initStuff is enqueued.
Init ==
    /\ pc = "idle"
    /\ iter = 1
    /\ pend = NoTask
    /\ envQ = <<Task("initStuff", 0)>>
    /\ poolQ = <<>>
    /\ job = [t \in Thread |-> Idle]
    /\ tokens = 0
    /\ \E d \in BOOLEAN :
         app = [exitCode |-> 0, needMore |-> FALSE, isDedupe |-> d, lowest |-> 0,
                numRefillsRunning |-> 0, numLogMarksRunning |-> 0,
                thrdPool |-> FALSE]
    /\ src = [s \in Source |-> FreshSource]
    /\ unread \in Inputs
    /\ lastMsg = <<>>
    /\ stdout = <<>>
    /\ faults = 0

\* runUntilDone() returns once nothing is queued and no token is held; main()
\* then calls thrdPool->joinBlocking() through a pointer that may be NULL.
RunUntilDoneReturns ==
    /\ pc = "idle"
    /\ envQ = <<>>
    /\ tokens = 0
    /\ pc' = IF app.thrdPool THEN "join" ELSE "abort"
    /\ UNCHANGED <<iter, pend, envQ, tokens, poolVars, app, dataVars, faults>>

JoinBlocking ==
    /\ pc = "join"
    /\ poolQ = <<>>
    /\ \A t \in Thread : job[t] = Idle
    /\ pc' = "done"
    /\ UNCHANGED <<iter, pend, envQ, tokens, poolVars, app, dataVars, faults>>

\* The process is gone.
Terminated == pc \in {"done", "abort"} /\ UNCHANGED vars

Loop ==
    \/ LoopEnque \/ RefillSrcBuffersTurn \/ MarkLogEntriesTurn
    \/ InitStuff \/ OpenSrcFiles \/ RefillSrcBuffers \/ OnOneRefillDone
    \/ MarkLogEntriesForeachSource \/ MarkLogEntryForSourceDone
    \/ FindOldestLogEntryFromAllHeads \/ FindOldestTurn \/ FindOldestEnd
    \/ WriteLowestEntryToDst
    \/ RunUntilDoneReturns \/ JoinBlocking

PoolThread(t) ==
    \/ TakeTask(t) \/ ThreadEnque(t)
    \/ RefillBufferForSourceByArg(t) \/ MarkLogEntryForSourceByArg(t)

Next == Loop \/ (\E t \in Thread : PoolThread(t)) \/ Terminated

Spec == Init /\ [][Next]_vars

\* Every thread is scheduled.
Fairness == WF_vars(Loop) /\ \A t \in Thread : WF_vars(PoolThread(t))

FairSpec == Spec /\ Fairness

-----------------------------------------------------------------------------
(* Properties.                                                             *)

EnvTask == [fn : EnvFn, arg : 0..NumSources]
PoolTask == [fn : PoolFn, arg : Source]

AppState ==
    [exitCode : {0, -1}, needMore : BOOLEAN, isDedupe : BOOLEAN,
     lowest : 0..NumSources, numRefillsRunning : Int, numLogMarksRunning : Int,
     thrdPool : BOOLEAN]

SourceState ==
    [cap : Nat, beg : Nat, end : Nat, logBeg : Nat, logEnd : Nat, buf : Text,
     isEof : BOOLEAN, needMore : BOOLEAN, noMore : BOOLEAN]

Job == [at : {"idle", "run", "post"}, task : {NoTask} \cup PoolTask \cup EnvTask]

\* What every variable of the event loop, of the pool and of struct App and
\* struct Source may hold.
TypeOK ==
    /\ pc \in {"idle", "enq", "refill", "mark", "find", "join", "done", "abort"}
    /\ iter \in 1..(NumSources + 1)
    /\ pend \in {NoTask} \cup EnvTask
    /\ envQ \in Seq(EnvTask)
    /\ poolQ \in Seq(PoolTask)
    /\ job \in [Thread -> Job]
    /\ tokens \in Int
    /\ app \in AppState
    /\ src \in [Source -> SourceState]
    /\ unread \in [Source -> Text]
    /\ lastMsg \in Text
    /\ stdout \in Seq(Text)
    /\ faults \in 0..MaxFaults

\* No pool thread has anything to do with a source.
PoolQuiet == poolQ = <<>> /\ \A t \in Thread : job[t] = Idle

\* findOldestLogEntryFromAllHeads() and writeLowestEntryToDst() read the buffers
\* of all sources without a lock: they may only run while no pool thread holds or
\* is about to get a task.
LoopReadsBuffers ==
    \/ pc = "find"
    \/ /\ pc = "idle"
       /\ envQ # <<>>
       /\ Head(envQ).fn \in {"findOldestLogEntryFromAllHeads", "writeLowestEntryToDst"}

LoopOwnsBuffers == LoopReadsBuffers => PoolQuiet

\* Two pool threads never work on the same struct Source.
OneTaskPerSource ==
    \A t, u \in Thread :
        (t # u /\ job[t].at = "run" /\ job[u].at = "run")
            => job[t].task.arg # job[u].task.arg

\* enqueBlocking() on the event loop's own queue would block forever, as nobody
\* else takes tasks from it: there is room whenever a handler calls it.
LoopNeverBlocksOnItself == pc = "enq" => Len(envQ) < EnvCap

\* The deadlock the comment in initStuff() speaks of: the event loop waits for
\* room in the pool's queue while every pool thread waits to post to the event
\* loop.
NoWaitCycle ==
    (pc \in {"refill", "mark"} /\ Len(poolQ) = PoolCap)
        => \E t \in Thread : job[t].at # "post"

\* No assert() fails and no NULL pointer is followed.
NoAbort == pc # "abort"

\* The asserted offsets of struct Source are in order and within the capacity, the
\* bytes read end at the last of them, and when the heads are compared every source
\* that is not at its end has an entry within the bytes read.
EntriesInBounds ==
    /\ \A s \in Source : /\ src[s].beg <= src[s].end
                          /\ src[s].end <= src[s].cap
                          /\ src[s].end = Len(src[s].buf)
    /\ LoopReadsBuffers =>
           \A s \in Source : \/ src[s].noMore
                             \/ /\ src[s].beg <= src[s].logBeg
                                /\ src[s].logBeg < src[s].logEnd
                                /\ src[s].logEnd <= src[s].end

\* After a failure nothing is written any more, although the tasks of the other
\* sources are still running when it happens.
NothingWrittenAfterFailure == [][app.exitCode # 0 => UNCHANGED stdout]_vars

\* Unless something fails the tool ends, whatever the interleaving of its threads.
Terminates == <>(pc = "done" \/ faults > 0 \/ app.exitCode # 0)

\* With failures it may hang instead, as a refill that gave up keeps its token;
\* but it always comes to rest, with no thread stuck in the middle of a call.
ComesToRest ==
    <>[](pc \in {"done", "abort"} \/ (pc = "idle" /\ envQ = <<>> /\ PoolQuiet))
=============================================================================
