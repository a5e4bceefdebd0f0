---------------------------- MODULE FindFullDisks ----------------------------
(***************************************************************************)
(* paisa-fleet/FindFullDisks.c: read a list of devices from stdin, then    *)
(* run one ssh per device, at most MaxParallel at a time, and keep what it *)
(* printed in a file per device.                                           *)
(*                                                                         *)
(* Everything runs on the event loop of libgarbage, which is not part of   *)
(* the repository and is modelled from its use: a FIFO queue of tasks, and *)
(* callbacks of the CSV stream and of child processes that run between two *)
(* tasks.  onJoined is called once per child, at the latest when the       *)
(* timeout given to join() is over, and onStdout never after it.           *)
(***************************************************************************)
EXTENDS Integers, Sequences, FiniteSets

CONSTANTS
    MaxParallel,    \* --maxParallel
    Documents,      \* what may come from stdin: [chunks, last], see below
    CapStep,        \* by how much app->devices grows (4096 devices)
    StdoutCap,      \* sizeof stdoutBuf (8192)
    MaxOutput,      \* bound: what one child prints
    MaxFaults       \* bound: how many calls to the system fail

\* A row names a device, has not two columns, or has a name too long.  A document
\* is a sequence of chunks, as fread() delivers them, each with the rows that end
\* in it, and the rows the parser finds only when it is closed, as they have no
\* newline.
Row == {"device", "wrongCols", "tooLong"}
Document == [chunks : Seq(Seq(Row)), last : Seq(Row)]

ASSUME FindFullDisksAssumption ==
    /\ MaxParallel \in Int
    /\ \A doc \in Documents : doc \in Document
    /\ CapStep \in Nat \ {0}
    /\ StdoutCap \in Nat
    /\ MaxOutput \in Nat
    /\ MaxFaults \in Nat

VARIABLES
    pc,             \* "run", "done" or "abort"
    envQ,           \* the queue of the event loop
    stdin,          \* what is still to be read
    csv,            \* what the CSV stream is doing, and the rows still to come
    app,            \* struct FindFullDisks; moves counts how often devices moved
    child,          \* the children, by device
    stdoutLen,      \* Device.stdoutBuf_len
    result,         \* the files under result/
    faults

vars == <<pc, envQ, stdin, csv, app, child, stdoutLen, result, faults>>

\* The arrays are indexed by the devices found so far.
Devices == 1..app.devices_cnt

None == -1
NoStream == [op |-> "none", rows |-> <<>>]
Task(f, d) == [fn |-> f, dev |-> d]

Enque(tasks) == envQ' = envQ \o tasks

Dispatch(f) ==
    /\ pc = "run"
    /\ envQ # <<>>
    /\ Head(envQ).fn = f

Abort == pc' = "abort"

Fault == faults < MaxFaults /\ faults' = faults + 1

-----------------------------------------------------------------------------
(* Reading the list of devices.                                            *)

\* if( app->exitCode ) return;
StopReading(a) == a.exitCode # 0

\* initCsvParserForDeviceListOnStdin() calls feedNextChunkFromStdinToCsvParser().
FeedNextChunkFromStdinToCsvParser ==
    /\ Dispatch("initCsvParser") \/ Dispatch("feedNextChunk")
    /\ envQ' = Tail(envQ)
    /\ IF StopReading(app)
       THEN UNCHANGED <<stdin, csv>>
       ELSE IF stdin.chunks = <<>>
       THEN csv' = [op |-> "close", rows |-> stdin.last] /\ UNCHANGED stdin
       ELSE /\ csv' = [op |-> "write", rows |-> Head(stdin.chunks)]
            /\ stdin' = [stdin EXCEPT !.chunks = Tail(@)]
    /\ UNCHANGED <<pc, app, child, stdoutLen, result, faults>>

\* app->devices after a realloc(), if it is full.
Room(a) ==
    IF a.devices_cap <= a.devices_cnt
    THEN [a EXCEPT !.devices_cap = @ + CapStep, !.moves = @ + 1]
    ELSE a

\* The memory realloc() adds is taken to be zero: it is far beyond the size from
\* which on allocators map fresh pages.
OnCsvRow ==
    /\ pc = "run"
    /\ csv.rows # <<>>
    /\ csv' = [csv EXCEPT !.rows = Tail(@)]
    /\ IF app.exitCode # 0
       THEN UNCHANGED <<app, child, stdoutLen, result>>
       ELSE \/ /\ Head(csv.rows) = "wrongCols"
               /\ app' = [app EXCEPT !.exitCode = -1]
               /\ UNCHANGED <<child, stdoutLen, result>>
            \/ /\ Head(csv.rows) = "tooLong"
               /\ app' = [Room(app) EXCEPT !.exitCode = -1]
               /\ UNCHANGED <<child, stdoutLen, result>>
            \/ /\ Head(csv.rows) = "device"
               /\ app' = [Room(app) EXCEPT !.devices_cnt = @ + 1]
               /\ child' = Append(child, "none")
               /\ stdoutLen' = Append(stdoutLen, 0)
               /\ result' = Append(result, None)
    /\ UNCHANGED <<pc, envQ, stdin, faults>>

\* Mutant: the devices found so far are visited at once.
BeginEarly == <<Task("beginNextDevice", 0), Task("feedNextChunk", 0)>>

AfterWrite == <<Task("feedNextChunk", 0)>>

\* retval is not positive if the stream failed.
OnCsvParserWriteDone ==
    /\ pc = "run"
    /\ csv = [op |-> "write", rows |-> <<>>]
    /\ csv' = NoStream
    /\ \/ Enque(AfterWrite) /\ UNCHANGED <<pc, faults>>
       \/ Fault /\ Abort /\ UNCHANGED envQ
    /\ UNCHANGED <<stdin, app, child, stdoutLen, result>>

OnCsvParserCloseSnkDone ==
    /\ pc = "run"
    /\ csv = [op |-> "close", rows |-> <<>>]
    /\ csv' = NoStream
    /\ Enque(<<Task("beginNextDevice", 0)>>)
    /\ UNCHANGED <<pc, stdin, app, child, stdoutLen, result, faults>>

-----------------------------------------------------------------------------
(* Visiting the devices.                                                   *)

\* Mutant: one device too many at a time.
BeginsOneMore(a) ==
    IF a.numInProgress > MaxParallel THEN 0
    ELSE LET free == MaxParallel - a.numInProgress + 1
             left == a.devices_cnt - a.iDevice
         IN  IF free < left THEN free ELSE left

\* How often the loop in beginNextDevice() goes round: until MaxParallel devices
\* are in progress or none is left.
Begins(a) ==
    IF a.numInProgress >= MaxParallel THEN 0
    ELSE LET free == MaxParallel - a.numInProgress
             left == a.devices_cnt - a.iDevice
         IN  IF free < left THEN free ELSE left

\* Mutant: the device before the one counted.
TriggeredBefore(a, n) == a.iDevice..(a.iDevice + n - 1)

\* The devices these rounds visit.
Triggered(a, n) == (a.iDevice + 1)..(a.iDevice + n)

\* With visitDevice(), which starts a child and joins it.
BeginNextDevice ==
    /\ Dispatch("beginNextDevice")
    /\ \/ LET n == Begins(app)
          IN  /\ app' = [app EXCEPT !.iDevice = @ + n, !.numInProgress = @ + n]
              /\ child' = [d \in Devices |->
                              IF d \in Triggered(app, n) THEN "running" ELSE child[d]]
              /\ envQ' = Tail(envQ)
              /\ UNCHANGED <<pc, faults>>
       \/ /\ Begins(app) > 0                \* newProcess()
          /\ Fault
          /\ Abort
          /\ UNCHANGED <<app, child, envQ>>
    /\ UNCHANGED <<stdin, csv, stdoutLen, result>>

\* A chunk of n bytes fits stdoutBuf, or assert() fails.
ChildOnStdout(d) ==
    /\ pc = "run"
    /\ child[d] = "running"
    /\ \E n \in 1..(MaxOutput - stdoutLen[d]) :
          IF stdoutLen[d] + n >= StdoutCap
          THEN Abort /\ UNCHANGED stdoutLen
          ELSE stdoutLen' = [stdoutLen EXCEPT ![d] = @ + n] /\ UNCHANGED pc
    /\ UNCHANGED <<envQ, stdin, csv, app, child, result, faults>>

\* Mutant: the next device is not begun.
JoinOnly(d) == <<Task("examineDeviceResult", d)>>

JoinTasks(d) == <<Task("examineDeviceResult", d), Task("beginNextDevice", 0)>>

NoLongerInProgress(a) == [a EXCEPT !.numInProgress = @ - 1]

\* The child has ended, was killed, or did not end in time: all the same.
ChildOnJoined(d) ==
    /\ pc = "run"
    /\ child[d] = "running"
    /\ IF app.numInProgress > 0 THEN UNCHANGED pc ELSE Abort
    /\ child' = [child EXCEPT ![d] = "joined"]
    /\ app' = NoLongerInProgress(app)
    /\ Enque(JoinTasks(d))
    /\ UNCHANGED <<stdin, csv, stdoutLen, result, faults>>

\* stdio may write some of it with fwrite() and the rest with fclose().
ExamineDeviceResult ==
    /\ Dispatch("examineDeviceResult")
    /\ LET d == Head(envQ).dev
       IN  \/ /\ result' = [result EXCEPT ![d] = IF stdoutLen[d] <= 0 THEN @ ELSE stdoutLen[d]]
              /\ envQ' = Tail(envQ)
              /\ UNCHANGED <<pc, faults>>
           \/ /\ stdoutLen[d] > 0           \* fopen() or fwrite()
              /\ Fault
              /\ Abort
              /\ \/ UNCHANGED result
                 \/ \E n \in 0..stdoutLen[d] : result' = [result EXCEPT ![d] = n]
              /\ UNCHANGED envQ
           \/ /\ stdoutLen[d] > 0           \* fclose(), which nobody notices
              /\ Fault
              /\ \E n \in 0..(stdoutLen[d] - 1) : result' = [result EXCEPT ![d] = n]
              /\ envQ' = Tail(envQ)
              /\ UNCHANGED pc
    /\ UNCHANGED <<stdin, csv, app, child, stdoutLen>>

-----------------------------------------------------------------------------
Init ==
    /\ pc = "run"
    /\ envQ = <<Task("initCsvParser", 0)>>
    /\ stdin \in Documents
    /\ csv = NoStream
    /\ app = [devices_cap |-> 0, devices_cnt |-> 0, moves |-> 0, iDevice |-> 0,
              numInProgress |-> 0, exitCode |-> 0]
    /\ child = <<>>
    /\ stdoutLen = <<>>
    /\ result = <<>>
    /\ faults = 0

\* runUntilDone() returns once nothing is left to do.
RunUntilDoneReturns ==
    /\ pc = "run"
    /\ envQ = <<>>
    /\ csv.op = "none"
    /\ \A d \in Devices : child[d] # "running"
    /\ pc' = "done"
    /\ UNCHANGED <<envQ, stdin, csv, app, child, stdoutLen, result, faults>>

Terminated == pc \in {"done", "abort"} /\ UNCHANGED vars

Tasks ==
    \/ FeedNextChunkFromStdinToCsvParser \/ BeginNextDevice \/ ExamineDeviceResult

Stream == OnCsvRow \/ OnCsvParserWriteDone \/ OnCsvParserCloseSnkDone

Next ==
    \/ Tasks \/ Stream
    \/ \E d \in Devices : ChildOnStdout(d) \/ ChildOnJoined(d)
    \/ RunUntilDoneReturns \/ Terminated

Spec == Init /\ [][Next]_vars

\* The event loop goes on, and every child is joined, at the latest after the
\* timeout of 42 seconds.
FairSpec ==
    /\ Spec
    /\ WF_vars(Tasks \/ Stream \/ RunUntilDoneReturns)
    /\ WF_vars(\E d \in Devices : ChildOnJoined(d))

-----------------------------------------------------------------------------
(* Properties.                                                             *)

Running == {d \in Devices : child[d] = "running"}

TaskFn == {"initCsvParser", "feedNextChunk", "beginNextDevice", "examineDeviceResult"}

AppState ==
    [devices_cap : Nat, devices_cnt : Nat, moves : Nat, iDevice : Nat,
     numInProgress : Int, exitCode : {0, -1}]

\* What every variable may hold.
TypeOK ==
    /\ pc \in {"run", "done", "abort"}
    /\ envQ \in Seq([fn : TaskFn, dev : 0..app.devices_cnt])
    /\ stdin \in Document
    /\ csv \in [op : {"none", "write", "close"}, rows : Seq(Row)]
    /\ app \in AppState
    /\ child \in [Devices -> {"none", "running", "joined"}]
    /\ stdoutLen \in [Devices -> Nat]
    /\ result \in [Devices -> {None} \cup Nat]
    /\ faults \in 0..MaxFaults

\* --maxParallel bounds the children at any moment, and the counter it is compared
\* with is their number.
ParallelLimit ==
    pc # "abort" => /\ app.numInProgress = Cardinality(Running)
                    /\ Running # {} => Cardinality(Running) <= MaxParallel

\* The devices are visited in the order of the list, each at most once.
VisitedInOrder ==
    pc # "abort" => {d \in Devices : child[d] # "none"} = 1..app.iDevice

\* visitDevice() hands pointers into app->devices to the children, and realloc()
\* moves that array: it never does while a child or a queued task uses one.
PointersStayValid ==
    [][app'.moves # app.moves =>
           Running = {} /\ \A i \in 1..Len(envQ) : envQ[i].dev = 0]_vars

\* If all went well then every device was visited, and whatever it printed was
\* kept, when the program ends; and it does end.  What a fclose() that failed has lost
\* is in one file, and an exit code of zero does not tell.
EveryDeviceVisited ==
    <>(\/ pc = "abort"
       \/ pc = "done" /\ \/ app.exitCode # 0
                         \/ /\ \A d \in Devices : child[d] = "joined"
                            /\ Cardinality({d \in Devices : stdoutLen[d] > 0 /\ result[d] # stdoutLen[d]}) <= faults)

-----------------------------------------------------------------------------
(* The inductive invariant.                                                *)

ReadTask == {"initCsvParser", "feedNextChunk"}

\* The list is read to its end before the first device is visited: a task that
\* reads is alone in the queue, the stream is alone while it delivers rows, and
\* after that nothing reads any more.
ListReadFirst ==
    \/ /\ csv = NoStream /\ app.iDevice = 0
       /\ Len(envQ) = 1 /\ envQ[1].fn \in ReadTask
    \/ /\ csv.op # "none" /\ app.iDevice = 0
       /\ envQ = <<>>
    \/ /\ csv = NoStream
       /\ \A i \in 1..Len(envQ) : envQ[i].fn \notin ReadTask

\* The children in progress are counted, within the limit, and they are among the
\* first iDevice devices.
VisitsCounted ==
    /\ app.iDevice <= app.devices_cnt
    /\ app.numInProgress = Cardinality(Running)
    /\ Running # {} => Cardinality(Running) <= MaxParallel
    /\ {d \in Devices : child[d] # "none"} = 1..app.iDevice

DisksInv == TypeOK /\ ListReadFirst /\ VisitsCounted
=============================================================================
