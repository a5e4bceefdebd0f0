------------------------- MODULE FindFullDisksProofs -------------------------
(***************************************************************************)
(* FindFullDisks.c keeps to --maxParallel, visits the devices in order and *)
(* never moves the array its children point into: for any list, any limit  *)
(* and any output of the children.                                         *)
(***************************************************************************)
EXTENDS FindFullDisks, FiniteSetTheorems, TLAPS

\* The tasks of the queue, given the number of devices.
TaskOf(n) == [fn : TaskFn, dev : 0..n]

\* The fields of the program's state are numbers.
LEMMA AppFacts ==
    ASSUME TypeOK
    PROVE  /\ app.devices_cap \in Nat /\ app.devices_cnt \in Nat /\ app.moves \in Nat
           /\ app.iDevice \in Nat /\ app.numInProgress \in Int /\ app.exitCode \in {0, -1}
BY DEF TypeOK, AppState

\* The children are finitely many.
LEMMA RunningIsFinite ==
    ASSUME TypeOK
    PROVE  /\ IsFiniteSet(Running) /\ Cardinality(Running) \in Nat
           /\ Running \subseteq {d \in Devices : child[d] # "none"}
<1>1. IsFiniteSet(Devices)
    <2>1. 1 \in Int /\ app.devices_cnt \in Int
        BY AppFacts
    <2>2. IsFiniteSet(1..app.devices_cnt)
        BY <2>1, FS_Interval
    <2> QED
        BY <2>2 DEF Devices
<1>2. Running \subseteq Devices
    BY DEF Running
<1>3. IsFiniteSet(Running) /\ Cardinality(Running) \in Nat
    BY <1>1, <1>2, FS_Subset, FS_CardinalityType
<1> QED
    BY <1>3 DEF Running

\* A row is appended to the arrays.
LEMMA ArrayGrows ==
    ASSUME NEW n \in Nat, NEW S, NEW f \in [1..n -> S], NEW x \in S
    PROVE  Append(f, x) \in [1..(n + 1) -> S]
<1> DEFINE q == Append(f, x)
<1>1. f \in Seq(S) /\ Len(f) = n
    OBVIOUS
<1>2. q \in Seq(S) /\ Len(q) = n + 1
    BY <1>1
<1> HIDE DEF q
<1>3. q \in [1..(n + 1) -> S]
    BY <1>2
<1> QED
    BY <1>3 DEF q

\* The tail of the queue.
LEMMA QueueTail ==
    ASSUME NEW S, NEW q \in Seq(S), q # <<>>
    PROVE  /\ Tail(q) \in Seq(S) /\ Head(q) = q[1] /\ Head(q) \in S
           /\ Len(q) \in Nat /\ Len(q) >= 1 /\ Len(Tail(q)) = Len(q) - 1
           /\ \A i \in 1..Len(Tail(q)) : i + 1 \in 1..Len(q) /\ Tail(q)[i] = q[i + 1]
OBVIOUS

\* Tasks are appended to the queue.
LEMMA Joined ==
    ASSUME NEW S, NEW q \in Seq(S), NEW r \in Seq(S)
    PROVE  /\ q \o r \in Seq(S) /\ Len(q \o r) = Len(q) + Len(r)
           /\ \A i \in 1..Len(q) : (q \o r)[i] = q[i]
OBVIOUS

\* A sequence of length zero is empty.
LEMMA LenZero ==
    ASSUME NEW S, NEW q \in Seq(S), Len(q) = 0
    PROVE  q = <<>>
OBVIOUS

\* A task that visits devices is dispatched: the list was read.
LEMMA VisitDispatched ==
    ASSUME TypeOK, ListReadFirst, NEW f, f \notin ReadTask, Dispatch(f)
    PROVE  /\ csv = NoStream
           /\ \A i \in 1..Len(envQ) : envQ[i].fn \notin ReadTask
           /\ \A i \in 1..Len(Tail(envQ)) : Tail(envQ)[i].fn \notin ReadTask
           /\ Tail(envQ) \in Seq(TaskOf(app.devices_cnt))
<1>1. /\ envQ # <<>> /\ Head(envQ).fn = f
      /\ envQ \in Seq(TaskOf(app.devices_cnt))
    BY DEF Dispatch, TypeOK, TaskOf
<1>2. /\ Tail(envQ) \in Seq(TaskOf(app.devices_cnt)) /\ Head(envQ) = envQ[1]
      /\ \A i \in 1..Len(Tail(envQ)) : i + 1 \in 1..Len(envQ) /\ Tail(envQ)[i] = envQ[i + 1]
    BY <1>1, QueueTail
<1>3. csv = NoStream /\ \A i \in 1..Len(envQ) : envQ[i].fn \notin ReadTask
    BY <1>1, <1>2 DEF ListReadFirst
<1> QED
    BY <1>2, <1>3

-----------------------------------------------------------------------------
(* Reading the list.                                                       *)

\* A chunk is handed to the parser, or the parser is closed.
LEMMA FeedStep ==
    ASSUME DisksInv, FeedNextChunkFromStdinToCsvParser
    PROVE  DisksInv'
<1>1. /\ TypeOK /\ ListReadFirst /\ VisitsCounted
      /\ envQ # <<>> /\ Head(envQ).fn \in ReadTask /\ envQ' = Tail(envQ)
      /\ envQ \in Seq(TaskOf(app.devices_cnt))
      /\ UNCHANGED <<pc, app, child, stdoutLen, result, faults>>
    BY DEF DisksInv, FeedNextChunkFromStdinToCsvParser, Dispatch, ReadTask, TypeOK, TaskOf
<1>2. csv = NoStream /\ app.iDevice = 0 /\ Len(envQ) = 1
    <2>1. Head(envQ) = envQ[1] /\ 1 \in 1..Len(envQ)
        BY <1>1, QueueTail
    <2> QED
        BY <1>1, <2>1 DEF ListReadFirst
<1>3. envQ' = <<>>
    <2>1. Tail(envQ) \in Seq(TaskOf(app.devices_cnt)) /\ Len(Tail(envQ)) = 0
        BY <1>1, <1>2, QueueTail
    <2> QED
        BY <1>1, <2>1, LenZero
<1>4. /\ stdin' \in Document
      /\ csv' = csv \/ (csv' \in [op : {"write", "close"}, rows : Seq(Row)])
    <2>1. stdin.chunks \in Seq(Seq(Row)) /\ stdin.last \in Seq(Row) /\ stdin \in Document
        BY <1>1 DEF TypeOK, Document
    <2>2. stdin.chunks # <<>> =>
              Head(stdin.chunks) \in Seq(Row) /\ Tail(stdin.chunks) \in Seq(Seq(Row))
        BY <2>1
    <2>3. stdin.chunks # <<>> => [stdin EXCEPT !.chunks = Tail(@)] \in Document
        BY <2>1, <2>2 DEF Document
    <2>4. CASE StopReading(app)
        BY <2>1, <2>4 DEF FeedNextChunkFromStdinToCsvParser
    <2>5. CASE ~StopReading(app) /\ stdin.chunks = <<>>
        <3>1. csv' = [op |-> "close", rows |-> stdin.last] /\ stdin' = stdin
            BY <2>5 DEF FeedNextChunkFromStdinToCsvParser
        <3> QED
            BY <2>1, <3>1
    <2>6. CASE ~StopReading(app) /\ stdin.chunks # <<>>
        <3>1. /\ csv' = [op |-> "write", rows |-> Head(stdin.chunks)]
              /\ stdin' = [stdin EXCEPT !.chunks = Tail(@)]
            BY <2>6 DEF FeedNextChunkFromStdinToCsvParser
        <3> QED
            BY <2>2, <2>3, <2>6, <3>1
    <2> QED
        BY <2>4, <2>5, <2>6
<1>5. TypeOK'
    BY <1>1, <1>3, <1>4 DEF TypeOK, Devices
<1>6. ListReadFirst'
    <2>1. csv' = NoStream \/ csv'.op # "none"
        BY <1>2, <1>4
    <2> QED
        BY <1>1, <1>2, <1>3, <2>1 DEF ListReadFirst
<1>7. VisitsCounted'
    BY <1>1 DEF VisitsCounted, Running, Devices
<1> QED
    BY <1>5, <1>6, <1>7 DEF DisksInv

\* A row arrives: no device is visited yet.
LEMMA RowFacts ==
    ASSUME DisksInv, OnCsvRow
    PROVE  /\ csv.op # "none" /\ envQ = <<>> /\ app.iDevice = 0
           /\ Running = {} /\ app.numInProgress = 0
<1>1. TypeOK /\ ListReadFirst /\ VisitsCounted /\ csv.rows # <<>>
    BY DEF DisksInv, OnCsvRow
<1>2. csv # NoStream
    BY <1>1 DEF NoStream
<1>3. csv.op # "none" /\ envQ = <<>> /\ app.iDevice = 0
    BY <1>1, <1>2 DEF ListReadFirst
<1>4. {d \in Devices : child[d] # "none"} = {}
    <2>1. 1..app.iDevice = {}
        BY <1>3
    <2> QED
        BY <1>1, <2>1 DEF VisitsCounted
<1>5. Running = {}
    BY <1>4 DEF Running
<1> QED
    BY <1>1, <1>3, <1>5, FS_EmptySet DEF VisitsCounted

\* A row is added to the devices, or refused.
LEMMA RowStep ==
    ASSUME DisksInv, OnCsvRow
    PROVE  DisksInv'
<1>1. /\ TypeOK /\ VisitsCounted
      /\ csv.op # "none" /\ envQ = <<>> /\ app.iDevice = 0
      /\ Running = {} /\ app.numInProgress = 0
      /\ app \in AppState /\ UNCHANGED <<pc, envQ, stdin, faults>>
      /\ csv.rows # <<>> /\ csv' = [csv EXCEPT !.rows = Tail(@)]
    BY RowFacts DEF DisksInv, TypeOK, OnCsvRow
<1>2. /\ csv' \in [op : {"none", "write", "close"}, rows : Seq(Row)] /\ csv'.op = csv.op
    <2>1. Tail(csv.rows) \in Seq(Row)
        BY <1>1 DEF TypeOK
    <2> QED
        BY <1>1, <2>1 DEF TypeOK
\* realloc() changes the capacity only.
<1>3. /\ Room(app) \in AppState /\ Room(app).devices_cnt = app.devices_cnt
      /\ Room(app).iDevice = 0 /\ Room(app).numInProgress = 0
    <2>1. /\ app.devices_cap + CapStep \in Nat /\ app.moves + 1 \in Nat
        BY <1>1, AppFacts, FindFullDisksAssumption
    <2> QED
        BY <1>1, <2>1 DEF Room, AppState
<1>4. CASE UNCHANGED <<child, stdoutLen, result>> /\ app'.devices_cnt = app.devices_cnt
           /\ app' \in AppState /\ app'.iDevice = 0 /\ app'.numInProgress = 0
    <2>1. TypeOK'
        BY <1>1, <1>2, <1>4 DEF TypeOK, Devices
    <2>2. VisitsCounted'
        BY <1>1, <1>4 DEF VisitsCounted, Running, Devices
    <2>3. ListReadFirst'
        BY <1>1, <1>2, <1>4 DEF ListReadFirst
    <2> QED
        BY <2>1, <2>2, <2>3 DEF DisksInv
<1>5. CASE /\ app' = [Room(app) EXCEPT !.devices_cnt = @ + 1]
           /\ child' = Append(child, "none")
           /\ stdoutLen' = Append(stdoutLen, 0)
           /\ result' = Append(result, None)
    <2>1. app.devices_cnt \in Nat /\ app.devices_cnt + 1 \in Nat
        BY <1>1, AppFacts
    <2>2. /\ app' \in AppState /\ app'.devices_cnt = app.devices_cnt + 1
          /\ app'.iDevice = 0 /\ app'.numInProgress = 0
        BY <1>3, <1>5, <2>1 DEF AppState
    <2>3. /\ child' \in [1..(app.devices_cnt + 1) -> {"none", "running", "joined"}]
          /\ \A d \in 1..app.devices_cnt : child'[d] = child[d]
          /\ child'[app.devices_cnt + 1] = "none"
        <3> DEFINE S == {"none", "running", "joined"}
                   x == "none"
                   n == app.devices_cnt
        <3>1. child \in [1..n -> S] /\ x \in S /\ n \in Nat
            BY <1>1, <2>1 DEF TypeOK, Devices
        <3> HIDE DEF S, x, n
        <3>2. Append(child, x) \in [1..(n + 1) -> S]
            BY <3>1, ArrayGrows
        <3>3. child \in Seq(S) /\ Len(child) = n
            BY <3>1
        <3>4. \A d \in 1..n : Append(child, x)[d] = child[d]
            BY <3>1, <3>3
        <3>5. Append(child, x)[n + 1] = x
            BY <3>1, <3>3
        <3> QED
            BY <1>5, <3>2, <3>4, <3>5 DEF S, x, n
    <2>4. stdoutLen' \in [1..(app.devices_cnt + 1) -> Nat]
        BY <1>1, <1>5, <2>1, ArrayGrows DEF TypeOK, Devices
    <2>5. result' \in [1..(app.devices_cnt + 1) -> {None} \cup Nat]
        BY <1>1, <1>5, <2>1, ArrayGrows DEF TypeOK, Devices
    <2>6. TypeOK'
        BY <1>1, <1>2, <2>2, <2>3, <2>4, <2>5 DEF TypeOK, Devices
    <2>7. \A d \in Devices' : child'[d] = "none"
        <3>1. \A d \in 1..app.devices_cnt : child[d] = "none"
            BY <1>1 DEF VisitsCounted, Devices
        <3>2. \A d \in Devices' : d \in 1..app.devices_cnt \/ d = app.devices_cnt + 1
            BY <2>1, <2>2 DEF Devices
        <3> QED
            BY <2>3, <3>1, <3>2
    <2>8. VisitsCounted'
        <3>1. Running' = {}
            BY <2>7 DEF Running
        <3> QED
            BY <2>1, <2>2, <2>7, <3>1, FS_EmptySet DEF VisitsCounted
    <2>9. ListReadFirst'
        BY <1>1, <1>2, <2>2 DEF ListReadFirst
    <2> QED
        BY <2>6, <2>8, <2>9 DEF DisksInv
<1>6. CASE UNCHANGED <<child, stdoutLen, result>> /\ app' \in {app, [app EXCEPT !.exitCode = -1],
                                                     [Room(app) EXCEPT !.exitCode = -1]}
    <2>1. /\ app'.devices_cnt = app.devices_cnt
          /\ app' \in AppState /\ app'.iDevice = 0 /\ app'.numInProgress = 0
        BY <1>1, <1>3, <1>6 DEF AppState
    <2> QED
        BY <1>4, <1>6, <2>1
<1> QED
    BY <1>5, <1>6 DEF OnCsvRow

\* The parser is done with a chunk, or with the whole list.
LEMMA StreamDoneStep ==
    ASSUME DisksInv, OnCsvParserWriteDone \/ OnCsvParserCloseSnkDone
    PROVE  DisksInv'
<1>1. /\ TypeOK /\ ListReadFirst /\ VisitsCounted
      /\ csv.op # "none" /\ csv' = NoStream
      /\ UNCHANGED <<stdin, app, child, stdoutLen, result>>
      /\ \/ /\ UNCHANGED <<pc, faults>>
            /\ \E f \in {"feedNextChunk", "beginNextDevice"} : envQ' = envQ \o <<Task(f, 0)>>
         \/ Fault /\ pc' = "abort" /\ UNCHANGED envQ
    BY DEF DisksInv, OnCsvParserWriteDone, OnCsvParserCloseSnkDone, Enque, AfterWrite, Abort
<1>2. envQ = <<>> /\ app.iDevice = 0
    BY <1>1 DEF ListReadFirst, NoStream
<1>3. NoStream \in [op : {"none", "write", "close"}, rows : Seq(Row)]
    BY DEF NoStream
<1>4. ASSUME UNCHANGED <<pc, faults>>,
             \E f \in {"feedNextChunk", "beginNextDevice"} : envQ' = envQ \o <<Task(f, 0)>>
      PROVE  TypeOK' /\ ListReadFirst'
    <2>1. PICK f \in {"feedNextChunk", "beginNextDevice"} : envQ' = envQ \o <<Task(f, 0)>>
        BY <1>4
    <2>2. Task(f, 0) \in TaskOf(app.devices_cnt) /\ Task(f, 0).fn = f
        BY <1>1, AppFacts DEF Task, TaskOf, TaskFn
    <2>3. /\ envQ' \in Seq(TaskOf(app.devices_cnt)) /\ Len(envQ') = 1 /\ envQ'[1] = Task(f, 0)
        BY <1>2, <2>1, <2>2
    <2>4. TypeOK'
        BY <1>1, <1>3, <1>4, <2>3 DEF TypeOK, Devices, TaskOf
    <2> QED
        BY <1>1, <1>2, <2>2, <2>3, <2>4 DEF ListReadFirst, ReadTask
<1>5. ASSUME Fault, pc' = "abort", UNCHANGED envQ
      PROVE  TypeOK' /\ ListReadFirst'
    <2>1. faults' \in 0..MaxFaults
        BY <1>1, <1>5, FindFullDisksAssumption DEF Fault, TypeOK
    <2>2. TypeOK'
        BY <1>1, <1>3, <1>5, <2>1 DEF TypeOK, Devices
    <2> QED
        BY <1>1, <1>2, <1>5, <2>2 DEF ListReadFirst
<1>6. TypeOK'
    BY <1>1, <1>4, <1>5
<1>7. ListReadFirst'
    BY <1>1, <1>4, <1>5
<1>8. VisitsCounted'
    BY <1>1 DEF VisitsCounted, Running, Devices
<1> QED
    BY <1>6, <1>7, <1>8 DEF DisksInv

-----------------------------------------------------------------------------
(* Visiting the devices.                                                   *)

\* How many devices beginNextDevice() begins: not more than are free or left.
LEMMA BeginsFacts ==
    ASSUME TypeOK, VisitsCounted
    PROVE  /\ Begins(app) \in Nat
           /\ app.iDevice + Begins(app) <= app.devices_cnt
           /\ Begins(app) > 0 => app.numInProgress + Begins(app) <= MaxParallel
<1>1. /\ app.devices_cnt \in Nat /\ app.iDevice \in Nat /\ app.numInProgress \in Int
      /\ app.iDevice <= app.devices_cnt /\ MaxParallel \in Int
    BY AppFacts, FindFullDisksAssumption DEF VisitsCounted
<1> QED
    BY <1>1 DEF Begins

\* The devices that are begun were not visited before, and are counted once each.
LEMMA BeginStep ==
    ASSUME DisksInv, BeginNextDevice
    PROVE  DisksInv'
<1> DEFINE n == Begins(app)
           i == app.iDevice
           new == Triggered(app, n)
<1>1. /\ TypeOK /\ ListReadFirst /\ VisitsCounted /\ app \in AppState
      /\ Dispatch("beginNextDevice") /\ pc = "run"
      /\ UNCHANGED <<stdin, csv, stdoutLen, result>>
    BY DEF DisksInv, BeginNextDevice, TypeOK, Dispatch
<1>2. /\ csv = NoStream
      /\ \A k \in 1..Len(Tail(envQ)) : Tail(envQ)[k].fn \notin ReadTask
      /\ Tail(envQ) \in Seq(TaskOf(app.devices_cnt))
    BY <1>1, VisitDispatched DEF ReadTask
<1>3. /\ n \in Nat /\ i \in Nat /\ app.devices_cnt \in Nat /\ app.numInProgress \in Int
      /\ i + n <= app.devices_cnt
      /\ n > 0 => app.numInProgress + n <= MaxParallel
    BY <1>1, BeginsFacts, AppFacts
<1>4. CASE Fault /\ Abort /\ UNCHANGED <<app, child, envQ>>
    <2>1. faults' \in 0..MaxFaults /\ pc' = "abort"
        BY <1>1, <1>4, FindFullDisksAssumption DEF Fault, Abort, TypeOK
    <2>2. TypeOK'
        BY <1>1, <1>4, <2>1 DEF TypeOK, Devices
    <2>3. ListReadFirst' /\ VisitsCounted'
        BY <1>1, <1>4 DEF ListReadFirst, VisitsCounted, Running, Devices
    <2> QED
        BY <2>2, <2>3 DEF DisksInv
<1>5. CASE /\ app' = [app EXCEPT !.iDevice = @ + n, !.numInProgress = @ + n]
           /\ child' = [d \in Devices |-> IF d \in new THEN "running" ELSE child[d]]
           /\ envQ' = Tail(envQ)
           /\ UNCHANGED <<pc, faults>>
    <2>1. /\ app' \in AppState /\ app'.devices_cnt = app.devices_cnt
          /\ app'.iDevice = i + n /\ app'.numInProgress = app.numInProgress + n
        <3>1. i + n \in Nat /\ app.numInProgress + n \in Int
            BY <1>3
        <3> HIDE DEF n
        <3> QED
            BY <1>1, <1>5, <3>1 DEF AppState
    <2> HIDE DEF n
    <2>2. Devices' = Devices /\ new \subseteq Devices /\ new = (i + 1)..(i + n)
        BY <1>3, <2>1 DEF Devices, Triggered
    <2>3. TypeOK'
        <3>1. child' \in [Devices -> {"none", "running", "joined"}]
            BY <1>1, <1>5 DEF TypeOK
        <3> QED
            BY <1>1, <1>2, <1>5, <2>1, <2>2, <3>1 DEF TypeOK, TaskOf
    <2>4. ListReadFirst'
        BY <1>1, <1>2, <1>5 DEF ListReadFirst
    <2>5. {d \in Devices : child[d] # "none"} = 1..i
        BY <1>1 DEF VisitsCounted
    <2>6. {d \in Devices' : child'[d] # "none"} = 1..(i + n)
        <3>1. {d \in Devices : child'[d] # "none"} = (1..i) \cup new
            BY <1>5, <2>2, <2>5
        <3>2. (1..i) \cup ((i + 1)..(i + n)) = 1..(i + n)
            BY <1>3
        <3> QED
            BY <2>2, <3>1, <3>2
    <2>7. Running' = Running \cup new /\ Running \cap new = {}
        <3>1. Running' = Running \cup new
            BY <1>5, <2>2 DEF Running
        <3>2. Running \subseteq 1..i
            BY <1>1, <2>5, RunningIsFinite
        <3>3. (1..i) \cap ((i + 1)..(i + n)) = {}
            BY <1>3
        <3> QED
            BY <2>2, <3>1, <3>2, <3>3
    <2>8. Cardinality(Running') = Cardinality(Running) + n
        <3>1. IsFiniteSet(new) /\ Cardinality(new) = n
            <4>1. i + 1 \in Int /\ i + n \in Int
                BY <1>3
            <4>2. /\ IsFiniteSet((i + 1)..(i + n))
                  /\ Cardinality((i + 1)..(i + n))
                         = IF i + 1 > i + n THEN 0 ELSE (i + n) - (i + 1) + 1
                BY <4>1, FS_Interval
            <4>3. (IF i + 1 > i + n THEN 0 ELSE (i + n) - (i + 1) + 1) = n
                BY <1>3
            <4> QED
                BY <2>2, <4>2, <4>3
        <3>2. IsFiniteSet(Running) /\ Cardinality(Running) \in Nat
            BY <1>1, RunningIsFinite
        <3>3. Cardinality(Running \cup new)
                  = Cardinality(Running) + Cardinality(new) - Cardinality(Running \cap new)
            BY <3>1, <3>2, FS_Union
        <3>4. Cardinality(Running \cap new) = 0
            BY <2>7, FS_EmptySet
        <3> QED
            BY <1>3, <2>7, <3>1, <3>2, <3>3, <3>4
    <2>9. app.numInProgress = Cardinality(Running)
        BY <1>1 DEF VisitsCounted
    <2>10. Running' # {} => Cardinality(Running') <= MaxParallel
        <3>1. CASE n > 0
            BY <1>3, <2>8, <2>9, <3>1
        <3>2. CASE n = 0
            <4>1. new = {}
                BY <1>3, <2>2, <3>2
            <4> QED
                BY <1>1, <2>7, <4>1 DEF VisitsCounted
        <3> QED
            BY <1>3, <3>1, <3>2
    <2>11. VisitsCounted'
        BY <1>3, <2>1, <2>6, <2>8, <2>9, <2>10 DEF VisitsCounted
    <2> QED
        BY <2>3, <2>4, <2>11 DEF DisksInv
<1> QED
    BY <1>4, <1>5 DEF BeginNextDevice

\* A child prints: only its own length changes.
LEMMA StdoutStep ==
    ASSUME DisksInv, NEW d \in Devices, ChildOnStdout(d)
    PROVE  DisksInv'
<1>1. /\ TypeOK /\ ListReadFirst /\ VisitsCounted
      /\ UNCHANGED <<envQ, stdin, csv, app, child, result, faults>>
    BY DEF DisksInv, ChildOnStdout
<1>2. pc' \in {pc, "abort"} /\ stdoutLen' \in [Devices -> Nat]
    <2>1. stdoutLen \in [Devices -> Nat] /\ stdoutLen[d] \in Nat
        BY <1>1 DEF TypeOK
    <2>2. PICK n \in 1..(MaxOutput - stdoutLen[d]) :
              IF stdoutLen[d] + n >= StdoutCap
              THEN Abort /\ UNCHANGED stdoutLen
              ELSE stdoutLen' = [stdoutLen EXCEPT ![d] = @ + n] /\ UNCHANGED pc
        BY DEF ChildOnStdout
    <2>3. stdoutLen[d] + n \in Nat
        BY <2>1, FindFullDisksAssumption
    <2> QED
        BY <2>1, <2>2, <2>3 DEF Abort
<1>3. TypeOK'
    BY <1>1, <1>2 DEF TypeOK, Devices
<1>4. ListReadFirst' /\ VisitsCounted'
    BY <1>1 DEF ListReadFirst, VisitsCounted, Running, Devices
<1> QED
    BY <1>3, <1>4 DEF DisksInv

\* A child is joined: the counter was positive, and goes down with the children.
LEMMA JoinedStep ==
    ASSUME DisksInv, NEW d \in Devices, ChildOnJoined(d)
    PROVE  DisksInv' /\ pc' = pc
<1> DEFINE new == JoinTasks(d)
<1>1. /\ TypeOK /\ ListReadFirst /\ VisitsCounted /\ app \in AppState
      /\ pc = "run" /\ child[d] = "running"
      /\ pc' = (IF app.numInProgress > 0 THEN pc ELSE "abort")
      /\ child' = [child EXCEPT ![d] = "joined"]
      /\ app' = [app EXCEPT !.numInProgress = @ - 1]
      /\ envQ' = envQ \o new
      /\ UNCHANGED <<stdin, csv, stdoutLen, result, faults>>
    BY DEF DisksInv, ChildOnJoined, NoLongerInProgress, Enque, Abort, TypeOK
<1>2. d \in Running
    BY <1>1 DEF Running
<1>3. /\ IsFiniteSet(Running) /\ Cardinality(Running) \in Nat
      /\ Cardinality(Running) # 0
      /\ Running \subseteq 1..app.iDevice
    BY <1>1, <1>2, RunningIsFinite, FS_EmptySet DEF VisitsCounted
<1>4. pc' = pc
    BY <1>1, <1>3 DEF VisitsCounted
<1>5. /\ app' \in AppState /\ app'.devices_cnt = app.devices_cnt
      /\ app'.iDevice = app.iDevice /\ app'.numInProgress = app.numInProgress - 1
    <2>1. app.numInProgress - 1 \in Int
        BY <1>1, AppFacts
    <2> QED
        BY <1>1, <2>1 DEF AppState
<1>6. Devices' = Devices
    BY <1>5 DEF Devices
<1>7. /\ new \in Seq(TaskOf(app.devices_cnt)) /\ Len(new) = 2
      /\ \A i \in 1..2 : new[i].fn \notin ReadTask
    <2>1. d \in 0..app.devices_cnt /\ 0 \in 0..app.devices_cnt
        BY <1>1, AppFacts DEF Devices
    <2>2. /\ Task("examineDeviceResult", d) \in TaskOf(app.devices_cnt)
          /\ Task("beginNextDevice", 0) \in TaskOf(app.devices_cnt)
          /\ Task("examineDeviceResult", d).fn \notin ReadTask
          /\ Task("beginNextDevice", 0).fn \notin ReadTask
        BY <2>1 DEF Task, TaskOf, TaskFn, ReadTask
    <2>3. new = <<Task("examineDeviceResult", d), Task("beginNextDevice", 0)>>
        BY DEF JoinTasks
    <2> HIDE DEF new
    <2> QED
        BY <2>2, <2>3
<1> HIDE DEF new
\* A child is running, so the list was read.
<1>8. csv = NoStream /\ \A i \in 1..Len(envQ) : envQ[i].fn \notin ReadTask
    <2>1. app.iDevice # 0
        BY <1>2, <1>3
    <2> QED
        BY <1>1, <2>1 DEF ListReadFirst
<1>9. /\ envQ \in Seq(TaskOf(app.devices_cnt)) /\ envQ' \in Seq(TaskOf(app.devices_cnt))
      /\ \A i \in 1..Len(envQ') : envQ'[i].fn \notin ReadTask
    <2>1. envQ \in Seq(TaskOf(app.devices_cnt)) /\ Len(envQ) \in Nat
        BY <1>1 DEF TypeOK, TaskOf
    <2>2. envQ' \in Seq(TaskOf(app.devices_cnt)) /\ Len(envQ') = Len(envQ) + 2
        <3>1. envQ \o new \in Seq(TaskOf(app.devices_cnt))
            BY <1>7, <2>1, Joined
        <3>2. Len(envQ \o new) = Len(envQ) + Len(new)
            BY <1>7, <2>1, Joined
        <3> QED
            BY <1>1, <1>7, <3>1, <3>2
    <2>3. ASSUME NEW i \in 1..Len(envQ')
          PROVE  envQ'[i].fn \notin ReadTask
        <3>1. CASE i \in 1..Len(envQ)
            BY <1>1, <1>7, <1>8, <2>1, <3>1
        <3>2. CASE i \notin 1..Len(envQ)
            <4>1. i - Len(envQ) \in 1..2 /\ envQ'[i] = new[i - Len(envQ)]
                BY <1>1, <1>7, <2>1, <2>2, <3>2
            <4> QED
                BY <1>7, <4>1
        <3> QED
            BY <3>1, <3>2
    <2> QED
        BY <2>1, <2>2, <2>3
<1>10. TypeOK'
    BY <1>1, <1>4, <1>5, <1>6, <1>9 DEF TypeOK, TaskOf
<1>11. ListReadFirst'
    BY <1>1, <1>8, <1>9 DEF ListReadFirst
<1>12. Running' = Running \ {d}
    BY <1>1, <1>6 DEF Running, TypeOK
<1>13. Cardinality(Running') = Cardinality(Running) - 1
    BY <1>2, <1>3, <1>12, FS_RemoveElement
<1>14. {e \in Devices' : child'[e] # "none"} = {e \in Devices : child[e] # "none"}
    BY <1>1, <1>6 DEF TypeOK
<1>15. Running # {} /\ Cardinality(Running') <= MaxParallel
    <2>1. Running # {} /\ Cardinality(Running) <= MaxParallel
        BY <1>1, <1>2 DEF VisitsCounted
    <2> QED
        BY <1>3, <1>13, <2>1, FindFullDisksAssumption
<1>16. VisitsCounted'
    BY <1>1, <1>5, <1>13, <1>14, <1>15 DEF VisitsCounted
<1> QED
    BY <1>4, <1>10, <1>11, <1>16 DEF DisksInv

\* What a device printed is written to its file.
LEMMA ExamineStep ==
    ASSUME DisksInv, ExamineDeviceResult
    PROVE  DisksInv'
<1> DEFINE d == Head(envQ).dev
<1>1. /\ TypeOK /\ ListReadFirst /\ VisitsCounted
      /\ Dispatch("examineDeviceResult") /\ pc = "run"
      /\ UNCHANGED <<stdin, csv, app, child, stdoutLen>>
    BY DEF DisksInv, ExamineDeviceResult, Dispatch
<1>2. /\ csv = NoStream
      /\ \A k \in 1..Len(Tail(envQ)) : Tail(envQ)[k].fn \notin ReadTask
      /\ \A k \in 1..Len(envQ) : envQ[k].fn \notin ReadTask
      /\ Tail(envQ) \in Seq(TaskOf(app.devices_cnt))
    BY <1>1, VisitDispatched DEF ReadTask
<1>3. /\ \/ envQ' = Tail(envQ) /\ UNCHANGED <<pc, faults>>
         \/ envQ' = envQ /\ Fault /\ pc' = "abort"
         \/ envQ' = Tail(envQ) /\ Fault /\ UNCHANGED pc
      /\ \/ result' = result
         \/ result' = [result EXCEPT ![d] = IF stdoutLen[d] <= 0 THEN @ ELSE stdoutLen[d]]
         \/ \E n \in Nat : result' = [result EXCEPT ![d] = n]
    <2>1. stdoutLen[d] > 0 => \A n : n \in 0..stdoutLen[d] \/ n \in 0..(stdoutLen[d] - 1) => n \in Nat
        OBVIOUS
    <2> QED
        BY <2>1 DEF ExamineDeviceResult, Abort
<1> HIDE DEF d
<1>4. result' \in [Devices -> {None} \cup Nat]
    <2>1. CASE \E n \in Nat : result' = [result EXCEPT ![d] = n]
        BY <1>1, <2>1 DEF TypeOK
    <2> QED
        BY <1>1, <1>3, <2>1 DEF TypeOK
<1>5. faults' \in 0..MaxFaults
    BY <1>1, <1>3, FindFullDisksAssumption DEF Fault, TypeOK
<1>6. TypeOK'
    BY <1>1, <1>2, <1>3, <1>4, <1>5 DEF TypeOK, TaskOf, Devices
<1>7. ListReadFirst'
    BY <1>1, <1>2, <1>3 DEF ListReadFirst
<1>8. VisitsCounted'
    BY <1>1 DEF VisitsCounted, Running, Devices
<1> QED
    BY <1>6, <1>7, <1>8 DEF DisksInv

-----------------------------------------------------------------------------
\* The list is read to its end before the first device is visited, and from then on
\* the children are counted: for any list, limit and output.
THEOREM DisksInvariant == Spec => []DisksInv
<1>1. Init => DisksInv
    <2> SUFFICES ASSUME Init
                 PROVE  DisksInv
        OBVIOUS
    <2>1. app \in AppState /\ app.devices_cnt = 0 /\ app.iDevice = 0 /\ app.numInProgress = 0
        BY DEF Init, AppState
    <2>2. Devices = {} /\ 1..app.iDevice = {}
        BY <2>1 DEF Devices
    <2>3. Task("initCsvParser", 0) \in [fn : TaskFn, dev : 0..app.devices_cnt]
        BY <2>1 DEF Task, TaskFn
    <2>4. /\ envQ \in Seq([fn : TaskFn, dev : 0..app.devices_cnt])
          /\ Len(envQ) = 1 /\ envQ[1].fn = "initCsvParser"
        <3>1. envQ = <<Task("initCsvParser", 0)>>
            BY DEF Init
        <3>2. Task("initCsvParser", 0).fn = "initCsvParser"
            BY DEF Task
        <3> QED
            BY <2>3, <3>1, <3>2
    <2>5. csv = NoStream /\ NoStream \in [op : {"none", "write", "close"}, rows : Seq(Row)]
        BY DEF Init, NoStream
    <2>6. \A S : <<>> \in [{} -> S]
        OBVIOUS
    <2>7. TypeOK
        BY <2>1, <2>2, <2>4, <2>5, <2>6, FindFullDisksAssumption DEF Init, TypeOK
    <2>8. ListReadFirst
        BY <2>1, <2>4, <2>5 DEF ListReadFirst, ReadTask
    <2>9. VisitsCounted
        BY <2>1, <2>2, FS_EmptySet DEF VisitsCounted, Running
    <2> QED
        BY <2>7, <2>8, <2>9 DEF DisksInv
<1>2. DisksInv /\ [Next]_vars => DisksInv'
    <2> SUFFICES ASSUME DisksInv, [Next]_vars
                 PROVE  DisksInv'
        OBVIOUS
    <2>1. CASE Tasks
        BY <2>1, FeedStep, BeginStep, ExamineStep DEF Tasks
    <2>2. CASE Stream
        BY <2>2, RowStep, StreamDoneStep DEF Stream
    <2>3. CASE \E d \in Devices : ChildOnStdout(d) \/ ChildOnJoined(d)
        BY <2>3, StdoutStep, JoinedStep
    <2>4. CASE RunUntilDoneReturns
        BY <2>4 DEF RunUntilDoneReturns, DisksInv, TypeOK, ListReadFirst, VisitsCounted,
                    Running, Devices
    <2>5. CASE Terminated \/ UNCHANGED vars
        BY <2>5 DEF Terminated, vars, DisksInv, TypeOK, ListReadFirst, VisitsCounted,
                    Running, Devices
    <2> QED
        BY <2>1, <2>2, <2>3, <2>4, <2>5 DEF Next
<1> QED
    BY <1>1, <1>2, PTL DEF Spec

\* Every variable keeps its type.
THEOREM TypeCorrect == Spec => []TypeOK
<1>1. DisksInv => TypeOK
    BY DEF DisksInv
<1> QED
    BY <1>1, DisksInvariant, PTL

\* Never more than --maxParallel children at a time, and the counter that is compared
\* with the limit is their number.
THEOREM LimitIsKept == Spec => []ParallelLimit
<1>1. DisksInv => ParallelLimit
    BY DEF DisksInv, VisitsCounted, ParallelLimit
<1> QED
    BY <1>1, DisksInvariant, PTL

\* The devices are visited in the order of the list, none twice and none left out.
THEOREM DevicesInOrder == Spec => []VisitedInOrder
<1>1. DisksInv => VisitedInOrder
    BY DEF DisksInv, VisitsCounted, VisitedInOrder
<1> QED
    BY <1>1, DisksInvariant, PTL

\* realloc() never moves the devices while a child or a queued task points to one.
THEOREM ArrayStaysPut == Spec => PointersStayValid
<1>1. DisksInv /\ [Next]_vars =>
          [app'.moves # app.moves =>
               Running = {} /\ \A i \in 1..Len(envQ) : envQ[i].dev = 0]_vars
    <2> SUFFICES ASSUME DisksInv, Next, app'.moves # app.moves
                 PROVE  Running = {} /\ \A i \in 1..Len(envQ) : envQ[i].dev = 0
        BY DEF vars
    <2>1. CASE OnCsvRow
        BY <2>1, RowFacts
    <2>2. CASE ~OnCsvRow
        <3>1. app \in AppState
            BY DEF DisksInv, TypeOK
        <3>2. \/ app' = app
              \/ \E n, m : app' = [app EXCEPT !.iDevice = n, !.numInProgress = m]
              \/ \E n : app' = [app EXCEPT !.numInProgress = n]
            BY <2>2 DEF Next, Tasks, Stream, FeedNextChunkFromStdinToCsvParser,
               BeginNextDevice, ExamineDeviceResult, OnCsvParserWriteDone,
               OnCsvParserCloseSnkDone, ChildOnStdout, ChildOnJoined, NoLongerInProgress,
               RunUntilDoneReturns, Terminated, vars
        <3>3. app'.moves = app.moves
            BY <3>1, <3>2 DEF AppState
        <3> QED
            BY <3>3
    <2> QED
        BY <2>1, <2>2
<1> QED
    BY <1>1, DisksInvariant, PTL DEF Spec, PointersStayValid
=============================================================================
