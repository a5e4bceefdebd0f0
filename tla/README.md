# TLA+ specifications of UnspecifiedGarbage

The repository is a collection of small tools and library classes in C, Java,
Lua, JavaScript and shell. This directory holds TLA+ models of the ones whose
correctness depends on the order of events, the TLC configurations that check
them, and TLAPS proofs. Line numbers refer to the files as they are.

Paths below are relative to `src/main/` of the repository.

## 1. Inventory

### Modelled

| Part | Source | State | Operations | Interaction |
|---|---|---|---|---|
| LogMerge | `paisa/LogMerge.c` | `App` (counters, flags, exit code, copy of the last entry), one `Source` per file (buffer and five offsets), event-loop queue, pool queue, await tokens | eight event-loop handlers, two pool tasks | handlers enqueue each other; pool tasks post their completion to the event loop; both queues block when full |
| FindFullDisks | `c/paisa-fleet/FindFullDisks.c` | list of devices, index of the next one, children in progress, output per device | event-loop handlers, callbacks of the CSV parser and of child processes | callbacks enqueue handlers on the event loop |
| BytePool | `java/…/octetstream/BytePool.java` | atomic pool, atomic amount per `AllocatedBytes` | `alloc`, `shrinkTo`, `close`, `getUtilization` (a read, left out) | any number of threads, no lock |
| MonitoredSemaphore | `java/…/concurrency/MonitoredSemaphore.java` | permits, three counters, the object's monitor | eleven `Semaphore` operations, `takeALook` | callers and the scheduler's thread share the monitor |
| ResClone | `nodejs/ResClone/resclone.js` (`--pull`) | the tree as listed so far, count of pending listings, frames of the iterator, bytes the current tar entry still lacks | callbacks of the HTTP requests, turns of the traversal | all listings are fetched at the same time, the last one starts the traversal |
| HttpFlood | `paisa/HttpFlood.c` | counter of responses and its mutex, timers, requests under way | `sendAnotherRequest`, `onRspDone`, `onError`, `periodicallyPrintProgress` | event loop and pool share the counter |
| HoustonLogGet | `paisa/HoustonLogGet.c` | buffer for the list of pods, name of the pod, output file | handlers, callbacks of two child processes | the second child is started with what the first one printed |
| SendAfterFin | `paisa-SendAfterFin/SendAfterFin.c` | per process the next call, per connection the kernel's buffers and the segments under way | `runServer`, `runClient`, the kernel's side of a connection | a server that talks to one client at a time, and clients that close one direction and send on |
| JenkinsReBuild | `paisa/JenkinsReBuild.c` | status, body collected so far, line printed | callbacks of one HTTPS request | the body arrives in pieces of any size |
| Maven launchers | `c/postshit/launch/mvn/mvn-launch.c`, `mvn-versions-set.c` | the command line in its buffer | one `append…()` call per step, start of the process, wait | environment and arguments to a child process |
| Asn1Digger | `c/foo/Asn1Digger.c` | the function to call next, type, length and what is left of the value, one buffer | one step per dispatched function | standard input to standard output |
| ByteChunkOStream, ConcatInputStream, CRLFtoLFOutputStream | `java/…/octetstream/` | a buffer of bytes; the current source; one byte held back | `read`, `write`, `flush`, `close` | the streams and handlers behind them may throw |
| PemCodec | `c/foo/PemCodec.c` | dashes and sextets seen so far | one step per octet read | standard input to standard output |
| PaisaLogParser | `lua/paisa-logs/PaisaLogParser.lua` | entry being assembled, whether the last date was broken | one step per line | a callback per entry |

What makes them correct, and is hard to test:

* **LogMerge** – the buffers are shared by the event loop and the pool without a
  lock, so the batches of pool tasks must never overlap with the handlers that
  read the buffers; two bounded queues that block in both directions must not
  form a cycle; the offsets must survive any sequence of reads, moves, growths,
  scans and consumptions; the output must be the merge of the entries whatever
  the buffer boundaries are; after a failure nothing may be written.
* **FindFullDisks** – children end in any order and at any time; the limit on
  parallel children must hold, every device must get its turn, and the array the
  children point into must not move.
* **BytePool** – two `compareAndSet` loops, and between them bytes that belong to
  nobody; the sum must be conserved when several threads shrink one instance.
* **MonitoredSemaphore** – waiting inside a monitor; counters that are read,
  reset and judged in different steps.
* **ResClone** – listings arrive in any order, and each brings more of them to
  wait for: the counter may be zero only once the tree is complete.
* **HttpFlood** – a counter that is incremented by some threads while another
  reads and resets it; a response whose successor is forgotten lowers the load.
* **HoustonLogGet** – output arrives in pieces of any size, and the timeout of
  `join()` may cut it anywhere: a name cut in half would name another pod.
* **SendAfterFin** – both sides assert what the other one did; segments, ends of
  processes and resets cross each other, and one client can end the server for
  all others.
* **JenkinsReBuild** – a word in the response is cut anywhere by the end of a
  chunk; every end of the request must lead to a line that is true.
* **Maven launchers** – a line is assembled from some twenty pieces in a buffer
  of fixed size; a piece that does not fit or that cannot be quoted must stop it.
* **Asn1Digger** – a value is dumped by several calls whose ends are no ends of
  lines; tags must be read right behind it.
* **Octet streams** – what happens to the bytes and to the other sources when the
  stream behind throws in the middle of an operation and the caller goes on.
* **PaisaLogParser** – which entry a line belongs to, over any sequence of lines.

### Not modelled yet, or not to be modelled

`PROJECT.json` lists every part with the reason. In short:

* *event-driven or concurrent, planned*: `MdnsSd.c`, `HttpFlood.js`,
  `HttpNullsink.js`, `HoustonInfoRequestTracer.java`,
  `FisDelegate*.lua`, `RmArtifactBaseDir.lua`, `FindFullDisks.lua`, `backup.sh`;
* *stream and parser logic, planned*: `MvnCentralDepScan.lua`,
  `GitflowChangelogGen.lua`, `TarScan.lua`, `snippets.c`, the
  statistics over captured packets;
* *unfinished in the repository*: `ObserveDeployedVersions.c`, `PatchReverse.c` and
  `ocexec.c` break off before they do anything that could be right or wrong;
* *no state worth a model*: generators of
  build scripts (`MakeLibs.lua`) and of setup notes, logging dummies, stateless
  helper classes, Wireshark dissectors, examples.

libgarbage (event loop, thread pool, processes, CSV and HTTP streams), the JDK
and the system are not part of the repository; they are modelled from the way
the code uses them and marked *external* in `PROJECT.json`.

## 2. Modules

```
LogText            bytes, timestamps, comparison over the shorter length
LogMergeAbs        what merging means: repeatedly consume an oldest head
LogMerge           LogMerge.c: event loop, pool, buffers
LogMergeInv        the two inductive invariants, BatchInv and BufferInv
LogMergeRef        entries of a file, refinement LogMerge => LogMergeAbs
LogMergeProofs     BatchInv and BufferInv, what is written, and that LogMerge
                   implements LogMergeAbs
LogMergeAbsProofs  the abstract merge is chronological and never repeats
MCLogMerge, MCLogMergeRef       instances for TLC

BytePool, BytePoolAbs, MCBytePool
BytePoolRef        refinement BytePool => BytePoolAbs; BytePoolProofs
FindFullDisks, MCFindFullDisks, FindFullDisksProofs
MonitoredSemaphore, SemaphoreProofs
ResClone, HttpFlood, HoustonLogGet, SendAfterFin, JenkinsReBuild, MvnLaunch
NetTools           one of these six tools runs; MCNetTools
NetToolsProofs, NetToolsOutputProofs
ByteChunkOStream, ConcatInputStream, CRLFtoLFOutputStream, PemCodec, Asn1Digger,
PaisaLogParser
Streams            one of these six; MCStreams, StreamsProofs
```

Definitions marked *Mutant* are not used by the specifications: each is a
plausible mistake in the definition that follows it, and `PROJECT.json` names
the property that notices it.

### LogMerge

`pc` says where the event-loop thread is: `idle` (in `runUntilDone()`), `enq`
(about to call `enqueBlocking()` on its own queue), `refill`/`mark` (in the loop
of `refillSrcBuffers()`/`markLogEntriesForeachSource()`, one turn per step since
each turn may block), `find` (scanning the heads, one turn per source since a
pool thread could move the bytes under `memcmp()`), `join`, `done`, `abort`. A
pool thread (`job`) is idle, runs a task or waits to post its completion. All
other handlers are one action each: they neither block nor touch anything a
concurrent thread touches, apart from `app.exitCode`, which a refill that gives
up sets from its pool thread.

Bytes are small naturals: a timestamp is a single byte in `Headers`, LF is 0.
What the code does with offsets (compaction only when the ranges do not
overlap, growth by a fixed amount, the last byte hidden from `regexec()`, the
byte dropped at the end of an entry) is kept exactly. `parseArgs()` is
represented by its result.

`LogMergeRef` cuts a file into entries with a definition that knows nothing of
buffers (`Starts`, `Entry`), keeps the files of the execution in `input`, and maps
the state of `LogMerge` to that of `LogMergeAbs`: what a source still has are the
entries of its file that start behind what is consumed (`EntriesAhead`). How much is
consumed follows from what is unread and from the offsets into the buffer (`Taken`).

### FindFullDisks

One action per handler or callback. `BeginNextDevice` contains the loop and
`visitDevice()`: it starts as many children as the limit allows. A document is a
sequence of chunks with the rows that end in them, plus the row without newline
that the parser finds when it is closed. `join()` has a timeout, so every child
is joined eventually: that is the fairness assumed for `ChildOnJoined`.
`app.moves` counts how often `realloc()` moved the array.

### BytePool

One step per atomic access. Bytes that have left one counter and not yet reached
the other are in the local `diff` of their thread (`Carried`). The sum in
`Conservation` is counted as a set: every holder (an instance, or a call that
carries bytes) has as many elements in `Bytes` as it holds. `BytePoolAbs` is
the pool whose operations are atomic; the mapping, in `BytePoolRef`, counts bytes on
their way back as free, and bytes already taken from the pool as owned by the
instance under construction.

`alloc(int)` (30) rejects nothing, so requests are ints of either sign. A negative one
adds to the pool and leaves a negative amount, a debt: `close()` then throws at 62, as
`CloseThrowsOnDebtOnly` allows for nothing else, and "an upper limit of total bytes" no
longer holds. If the int difference at 61 wraps around the check at 62 is passed and
bytes appear from nowhere; `overflowed` remembers it, and `Conservation` promises the
sum only until then. The pool's long is unbounded here.

### MonitoredSemaphore

A call waits for the monitor (`enter`), then runs the inherited operation
(`inside`) and leaves. An operation that waits for permits does so inside. The
mentor is assumed to run `takeALook()` again and again, as the description of
its interval says. `moved` is a history variable.

### The tools of NetTools

Six small tools; `NetTools` starts one of them, and the variables of the
others are `"off"`. `MCNetTools` gives TLC the trees, listings, responses and
environments.

* `ResClone`: a callback is one action; the loop over the iterator is one step per
  turn of the iterator, during which no callback runs.
* `HttpFlood`: locking, reading, writing and unlocking are separate steps of the
  thread that does them.
* `HoustonLogGet`: a chunk is any non-empty part of what the child still has to
  print, and the child may be joined at any time. `getPodsBuf` grows once per chunk,
  by a constant (`BufGrowth`, 4096 in the code); a chunk that does not fit then is
  copied behind its end, and as anything may follow the model ends there
  (`"overrun"`). stdio keeps any part of what was written (`unflushed`) and writes
  it when it likes, at last in `fclose()`, whose result nobody looks at: what is
  `unflushed` in the end is lost. So an exit code of zero does not promise a complete
  file, neither after the timeout of `join()` nor after a failing `fclose()`, and
  `ArchiveHasNoGap` does not say so: it says that only an end can be missing.
* `SendAfterFin`: one step per system call and per segment that arrives. The
  kernel is modelled as far as the program observes it: a queue of connections
  of bounded length, FIN, RST for unread or unwanted octets. Segments are neither
  lost nor reordered, as all processes are on one host, but the pauses in the code
  order nothing. A client may be killed before any of its calls. `AtRest` is the
  server waiting for further clients, so the deadlock check means that nobody
  waits for something that cannot come.
* `JenkinsReBuild`: the body is cut into chunks in every possible way. What
  `strstr()` finds behind the buffer, which has no NUL, is a choice.
* `MvnLaunch`: both launchers, which differ in the sequence of calls they make
  (`CallsOf`); a call appends a text, an argument in quotes or nothing. Texts are
  sequences of `Letter`, and each fixed text of the programs counts as one letter. The
  text behind the line, which has no NUL either, is a choice.

### Streams and parsers

`Streams` chooses one of six parts in the same way; `MCStreams` gives TLC the
sources and documents. A byte is its number in the order in which it enters a stream,
or its source and its place in it, so that one that is lost, repeated or out of
place is seen: the properties say that places ascend and which of them are there.
`refused`, `lost` and `fed` are history variables: the bytes of
calls that ended with an exception, and what was accepted. Handlers that call the
stream they are called from are left out. `PemCodec` works on real octets and
sextets, and an octet is the sum of the bits that `|` sets in it; an uninitialised
`err` is a choice. Its property finds the body without running the decoder, as the
characters at the places behind the first line and before the next dash, in order, and
reads each group as the 24 bits that Base64 says; of an octet that a `+` or a `/` is part of
it says only that it is there. `Asn1Digger` works on octets, too; a dump is the sequence of
its lines, each with the offset where it begins. The length of a value is the `int` that
`remainValueBytes` makes of it: 2^31 octets and more are a negative number, which `MIN()`
takes for the size of the chunk, and `fread()` may then deliver as much as the C library
has at hand, or write behind `innBuf` (`Overrun`, after which nothing is said). For a
shorter value the property says that each line begins where the one before it ends, that
each shows the octets of the document at its place, that all of the value is shown before
the next tag, and that this one is read right behind it. In `PaisaLogParser` a line is its kind
and its number; what `parseByPattern()` makes of a line is part of its kind.

## 3. Runs

| Run | Question | Bounds |
|---|---|---|
| `logmerge_sched` | who may touch which buffer when; circular waits; the batch invariant | four sources, queues of one slot: the shortest queues and more threads than slots |
| `logmerge_data` | is the output the merge of the entries; are the offsets in bounds; the buffer invariant | all pairs of eleven files, buffer of three bytes growing by two: entries that fit, fill, exceed and straddle it; de-duplication on and off |
| `logmerge_faults` | does it end; what if one system call fails anywhere, or an entry is too long | two sources of five files, queues of one slot, at most one fault |
| `bytepool` | conservation, refinement, exceptions, the loops end | two threads, two instances (so both can shrink one, or one shrink while the other is built), pool of three bytes, requests below and above it and the smallest int, `MaxInt` of 4 so that one difference wraps around and another does not |
| `findfulldisks` | limit, order, pointers, completeness | twelve lists of up to four devices, two children at a time, array growing by two, one fault |
| `semaphore` | alarms are justified, a leak is reported | two threads, two permits, all operations, three permits of traffic between two looks |
| `nettools` | is the tree complete when it is packed, and visited in order; is the name of the pod whole, the file a begin of the archive; is every response reported once; do server and clients see what they assert; is the build reported as it is; is the process started with all that was asked for | six trees of up to five nodes (empty, deep, wide, mixed), two sockets; five listings, a name that does not fit, a buffer growing by eight: listings that fit, need a second growth, overrun it in one chunk; three clients, event loop and one pool thread, four responses; three clients of a server with a backlog of two, so that one is refused, one of them killed; responses with every word cut and whole; environments with texts that fit, just fit and do not, and quotes |
| `streams` | is every byte and line passed on once and in order, whatever throws; is every source closed once; are groups decoded; do dumps follow the input | chunks of three bytes, writes of up to five and seven in total; seven combinations of sources, empty ones included; five calls; bytes with higher bits set; fifteen documents; tags with values shorter and longer than the buffer, long lengths, negative ones, ends of the input anywhere; all inputs of five lines |

The remaining runs each show a disagreement between the code and what it says
of itself:

| Run | What TLC shows |
|---|---|
| `logmerge_prefix` | an entry that begins with the text of the one before it is dropped as a duplicate |
| `logmerge_lastbyte` | the last byte of a file without a final newline is lost |
| `semaphore_release` | `release()` waits for the monitor of a thread that waits for a permit: both wait forever |
| `paisalog_skip` | two lines suffice: an entry, then one with a broken date. The parser reports the second as skipped; the first is never published |

Smaller observations made while modelling, each visible in a few lines of code
and not given a run of their own:

* `LogMerge.c` 499: without input files no thread pool is created and `main()`
  follows a NULL pointer (`RunUntilDoneReturns` has the case).
* `BytePool.java` 40: `numUsedBytes()` is the number of free bytes; line 35
  promises the used ones; 30: a negative request raises the limit of line 11, and
  `close()` of what it returned throws.
* `MonitoredSemaphore.java` 52: while a thread waits for a permit `takeALook()`
  waits too, so a leak is reported only to those who do not suffer from it; 62:
  failures are also reset by a look that reports nothing; 82: the message about
  surplus releases is unreachable.
* `resclone.js`: `http.agent` is undefined, so the limit on sockets holds for
  https only; a status other than 200 leaves its count pending forever, so the
  program ends without an archive; the body of an entry is never written, so the
  second resource of a tree ends the program.
* `FindFullDisks.c` 161: the result of `fclose()` is ignored, so a file may lack its
  end and the exit code is zero (`EveryDeviceVisited` counts such files as lost, at
  most one per fault); 301: `stdoutBuf_len` is never set; 264: `--maxParallel 0` is
  accepted and visits nobody.
* `PemCodec.c` 88: `+` and `/` are decoded to 63 and 64 instead of 62 and 63, and
  `=` to NUL octets: `GroupsDecoded` excepts the octets that are made from `+` or `/`, and
  no other.
* `PaisaLogParser.lua` 26: the callbacks are stored in the class, so the second
  parser of a program replaces those of the first.
* `HttpFlood.c`: `MIN( 1, nclients )` gives the pool one thread always.
* `SendAfterFin.c`: a client that dies before its first octet makes `assert()` end the
  server, and with it every other client; one that dies before its FIN may make it
  return. Line 175 (Windows) requires -1 where its message says that `recv()` must
  return 0.
* `JenkinsReBuild.c` 250: the comment lists three values, `onDone` is also called
  with `ENOENT` and `ERROR`; 232: the body has no terminating NUL; an empty body
  with status 200 fails an assertion; `onError` only logs, so that a request that
  fails prints nothing and exits with 0.
* `mvn-launch.c`, `mvn-versions-set.c`: the line has no terminating NUL when it is
  given to `CreateProcessA()`; an early `goto endFn` logs `cmdline_len`
  characters before that is initialised.
* `Asn1Digger.c` 239: a length from 2^31 on becomes a negative number, of which `MIN()` at
  252 makes a huge one for `fread()` at 257; nothing refuses it. 254: the alignment of a chunk to lines never happens, as its
  condition is never true; a dump whose length is a multiple of the columns is
  followed by one line of blanks; the texts of `--gpg` are never printed, as the
  type is masked with 0x1F; the end of the input within a length is no error.
* `HoustonLogGet.c`: the check of the name's length refuses one byte more than
  needed; 142: the result of `fclose()` is ignored, and 174: a download cut off after
  seven seconds is no failure, so that the exit code is zero although the file is
  incomplete; 181: one growth of 4096 bytes does not make room for a longer chunk.

Deadlock is checked except where the system really may stop: `logmerge_faults`
(a refill that gives up keeps its await token, so `runUntilDone()` never
returns) and the semaphore runs (the deadlock is what they are about).

**Fairness.** `LogMerge`: the event loop and every pool thread keep running
(weak fairness each); the operating system schedules them all. `BytePool`: a
thread inside a call goes on. With an unlimited supply of instances a loop could
be overtaken forever, so `CallsReturn` speaks of finitely many. `FindFullDisks`:
the event loop goes on and children are joined. `MonitoredSemaphore`: strong
fairness for entering the monitor, as the JVM does not starve a thread forever,
and for the mentor; weak fairness inside. The violations found under it are
stuck states, not starvation.

## 4. Proofs

TLAPS proves, for all values of the constants allowed by the named assumptions:

* **LogMergeProofs, the schedule.** `BatchInv` is inductive: at any time either a batch of
  refills is under way, or a batch of scans, or the event loop alone runs a chain
  of handlers with exactly one task queued or about to be. The counter of the
  batch bounds the tasks that are queued, running or reported; while the batch
  is being enqueued it equals the number of turns done, so no completion is
  handled before the last turn. No weaker statement is inductive: that the
  buffers are not shared depends on the counter reaching zero only when nothing
  is outstanding, and that depends on every kind of task in all three places.
  From it follow `LoopOwnsBuffers`, `LoopNeverBlocksOnItself` and
  `NoWaitCycle`, which the runs check too, and `OneTaskPerSource` and
  `TokensMatchTasks`, which only the proof states: every task that is queued, running
  or reported has an await token, so `runUntilDone()` cannot return before it. The
  converse is false: a refill that gives up (395, 401) keeps its token. Assumptions:
  queues have at least one slot; any number of sources, faults included.
  `NoWaitCycle` is a counting argument: if all threads wait to post and the
  pool's queue is full then more tasks are outstanding than turns were done.
* **LogMergeProofs, the buffers.** `BufferInv` is inductive together with `BatchInv`: the
  offsets of a source are in order and within its buffer (`DataInv`), and a source
  that is done with a phase is as the next phase needs it (`RefillProgress`,
  `MarkProgress`, `ChainInv`). Offsets alone are not inductive: a scan is safe only
  because the refill before it left a byte to scan or the end of the file, and a
  handler may compare the heads only because every scan of the batch is done, which
  is where `BatchInv` comes in. From it follow `TypeOK`, `EntriesInBounds`,
  `NothingWrittenAfterFailure` (with `FailureStops`: what is still queued after a
  failure are completions, which return early) and `NoAbort`, as long as there is a
  source and no call to the system has failed (`RunsClean`); the assertions that a
  failing call reaches are real. `EntriesInBounds` orders the offsets and bounds the heads that
  are compared; it does not say that no other byte is touched: `buf[err+1]` (287, 315)
  may be one behind the capacity, which one character for a header does not show. The
  guard of line 376 keeps the two ranges of `memcpy()` apart; the model has the guard, but
  there a wrong guard would not corrupt the bytes. Assumptions: buffers grow by at least one byte; the
  files are any texts.
* **LogMergeAbsProofs.** For sorted files the output is sorted and no later than
  any entry still to come (`MergeInv`); with de-duplication no entry is written
  directly after one it agrees with (`NoRepeats`).
* **LogMergeProofs, the output.** What the tool writes, for any files, buffer size, growth,
  number of sources and schedule of the threads. The invariant on which the rest is
  built, `PlacesInv`, says for every source that its buffer shows the part of its file
  that ends where the unread rest begins (`Window`), that what is consumed ends where
  an entry ends (`Consumption`), and that the two marks of a scan are where the next
  entry starts and ends, as far as the bytes in the buffer tell (`Marks`). The marks
  must be part of it: a scan goes on where an earlier one stopped for want of bytes, and
  compaction and growth happen in between. To it come
  * `HeadsCompared`: while the heads are scanned none of those already seen is lower
    than the lowest so far. Heads that agree on the shorter length are not equal, and
    that they agree is not transitive; `LowerTrans` shows that being lower is, which is
    enough;
  * `OutputInOrder`: all that is ahead is as late as all that was written. Hence
    `ChronologicalOutput`;
  * `StepsAreThoseOfTheMerge`: a step takes the next entry of one source, one of the
    lowest, and writes it unless it repeats the last one; or nothing is taken or
    written. Hence `MergesWithFaults`, the refinement of `LogMergeAbs` up to the step in
    which a call to the system fails, and `Refinement`, which is `ImplementsMerge` when
    none does (`MaxFaults = 0`): a `realloc()` that fails while an entry is copied
    leaves an entry written that was not consumed, which is no step of a merge;
  * `RestsWhenExhausted`: the event loop runs dry only when every source is exhausted,
    unless there was a failure. Hence `NothingLeft`: when `main()` is through with exit
    code 0, every entry of every file was taken;
  * `MergedInv`, for de-duplication and files in order, and `CountInv`, without
    de-duplication: the output so far is what was taken, in its order and each once, or
    as often as it was taken. With `NothingLeft` they give `OverlapsMerge` and
    `NothingLost`.
* **BytePoolProofs.** `IInv`: constructors work on instances nobody else knows,
  and the locals of a call bound what it will store. From it: the pool is never
  negative and an amount only if it was requested so, `close()` throws for such an
  instance only, amounts only shrink.
  `SumInv` adds what the sum needs: an instance not yet born holds nothing, and a
  thread that is about to take bytes from an instance carries the difference of the
  amounts it compares. Every step moves bytes, or a debt, from one holder to one other,
  to the pool or from it, or makes an int difference wrap around (`StepKinds`), so a few
  lemmas about the cardinalities of `Bytes` and `Debts` suffice for
  `Conservation`, which says too that what is held is finitely much. With it
  `PoolIsImplemented`: every step is a step of `BytePoolAbs` or a stutter, and
  `compareAndSet()` is where an operation takes effect. Any number of threads and
  instances, any ints as requests and lengths.
* **FindFullDisksProofs.** `DisksInv`: the list is read to its end before the first
  device is visited (a task that reads is alone in the queue), the counter is the
  number of children, and the devices visited are those before the index of the next
  one. From it `ParallelLimit`, `VisitedInOrder`, and `PointersStayValid`: `realloc()`
  is called while rows are read, and then nothing points into the array. Any
  documents, limit and faults.
* **SemaphoreProofs.** `SemaphoreInv`: a thread inside a synchronized block holds the
  monitor, and whatever was acquired or released since the last look is in one of
  the counters that the next look reads. From it
  `NoFalseAlarm`, for any threads, permits and operations.
* **NetToolsProofs.** One invariant per tool, stated in the tool's module and lifted
  to `NetTools`, in which the others are off:
  * `HttpFlood` (`FloodInv`): a thread between its read and its write of
    `numReqDone` holds the mutex and its copy is the current value; responses are
    reported, counted or about to be; clients are in flight, pausing or about to
    send. Hence `EveryResponseCounted`. Assumptions: at least one client; the pool's
    threads are finitely many and none of them is the event loop.
  * `JenkinsReBuild` (`BodyInv`): a buffer that is searched holds all that has
    arrived. Hence `FinishedBuildOnly` and that the body fits its buffer.
    Assumption: the pieces of a body include the words that are searched.
  * `HoustonLogGet` (`LogGetInv`): the buffer is what was printed so far; file and
    `unflushed` are what was printed before a failure, and any cut of them is a begin
    of the archive (`StoredFacts`). Hence `ArchiveHasNoGap`. `PodNameIsComplete` also needs that a line
    of the listing has a blank, as those of `oc get pods` have (assumption
    `HoustonLogGetAssumption`): the code looks for the blank behind the name and not
    for the end of the line.
  * `ResClone` (`FetchInv`): the counter is the number of requests without a listing;
    a listed collection has requested its collections; every request but that of the
    root was made by the parent. The counter alone says nothing of the nodes that
    were not requested yet. Hence `PacksCompleteTree`: the root is listed, and with
    every requested node its children. Assumption: a path has one parent, as in any
    tree of resources.
  * `SendAfterFin` (`RequestInv`): for every place of a connection (in the backlog,
    or the call the server is about to make) what the client has sent and how much of
    it has been read or is under way (`BeforeA`, `BeforeC`, `BeforeEof`). Nothing
    weaker is inductive, as a RST that would end the server may only be behind the
    FIN of a client that has read nothing. Hence `OnlyRequestArrives`, for any number
    of clients, backlog and kills. Assumption: the mark for "no client" is not a
    client.
* **NetToolsOutputProofs.** The two properties about the order of what is put out.
  * `ResClone` (`TravInv`): what the iterator has returned, followed by what its frames
    still have to return, innermost first, is the whole order of the tree
    (`OnTheWay`). With `FetchInv`, as an iterator that runs has every listing it
    needs. Hence `TraversalFollowsTree`, for trees of any depth and width. Assumption:
    a tree has a depth, and a path one parent.
  * `MvnLaunch` (`MlInv`): the line is what the calls made so far asked for, what they
    asked for followed by what the remaining ones ask for is the whole, and the line is
    within its buffer; a process that was started got a line that begins with the whole.
    The line may be longer than that, as it has no NUL. Hence `LaunchedAsAsked`, for any
    environment and buffer. Assumption: what the environment has are texts.

  The order of a tree and what several calls ask for are recursive functions. That they
  exist and are equal to their bodies is proved from a least counterexample
  (`NoLeastOne`, over the depth of a node or the number of calls), with the library's
  theorem on well-founded relations that takes no operator.
* **StreamsProofs.** One invariant per part, as in `NetToolsProofs`:
  * `ByteChunkOStream` (`ByteChunkInv`): what is left of the caller's array are the last
    bytes sent, and all that was published, buffered or refused is in front of them
    (`Edge`); the end is reported only by a `close()` that succeeded, after which the
    buffer stays empty. Hence `ChunksInOrder`. Assumption: a chunk has room for a byte,
    as the constructor asserts.
  * `ConcatInputStream` (`ConcatInv`): the place in the current source is within it and
    zero behind the last one, what was lost was taken, and a stream that is read from is
    not closed. Hence `BytesInOrder` and `EverySourceClosedOnce`, for any number of
    sources of any length. Assumption: the sources are finite.
  * `CRLFtoLFOutputStream` (`CRLFInv`): the byte held back is the last one fed and not the
    LF of a CR LF, and if none is held back the last one fed was no CR. Without the latter
    a LF at the begin of the next array could belong to a CR already gone. Hence
    `OnlyCRLFReplaced`: a step appends to `fed` or, when a flush fails, replaces its end,
    and the lemmas say what becomes of the places that are kept. Assumption: callers
    pass integers; the mask of line 34 is part of `Write`.
  * `PaisaLogParser` (`PaisaLogInv`): a line carries its number, and without a current
    entry there is nothing to publish. Hence `LinesKept`, for inputs of any length: every
    line goes behind all others, into the last entry or into a new one.
  * `Asn1Digger` (`AdInv`): every tag but the last has a complete dump, and the next tag
    begins behind its value (`AdPassed`); of the last one the lines so far show the
    octets up to `hexDumpOffs`, what is left of the value is as much as the length still
    lacks, and the buffer is the part of the document that was read last
    (`AdCurrent`). Both speak of tags whose length is no negative `int` (`Promised`); for these
    `remainValueBytes` stays positive, hence `innBuf` is not left. A buffer may end within
    a line, so the line of the next one begins in the middle of the columns: that the lines of
    a buffer follow each other and those before them is `LinesFollow`. Hence
    `DumpFollowsInput`, for any document and buffer. Assumption: the document consists of
    octets.
  * `PemCodec` (`PemInv`, in the module): the groups printed and the sextets kept are as
    many as the places of the body that were read, `Rank(BodyPlaces, NumRead)`, and are
    the characters there. Where the first line ended must be part of it, as the same
    character belongs to the body behind that place only. That the three octets of a
    group are its 24 bits is `BitsAreOctets`: eight bits exist for every number up to
    255, `|` of a multiple of 4, 16 or 64 and a smaller number is their sum
    (`OctetOfTwo`, `OctetOfFour`, `OctetOfSix`), and the parts are cut out of the whole
    by `\div` and `%` (`CutInThree`). A character that is neither `+` nor `/` has the digit that
    Base64 gives it, and one that no octet is made from does not show in it
    (`GroupIsDecoded`). Hence `GroupsDecoded`, for any document. Assumption: the document consists of numbers.

Every invariant that a run checks is proved. Only model-checked are the liveness
properties, which rest on fairness, and the four runs that show a disagreement.

## 5. Plan

Worklists and parsers, as further parts of `NetTools` and of the streams:
`MvnCentralDepScan`, `RmArtifactBaseDir`, `FindFullDisks.lua`,
`GitflowChangelogGen`, `HttpFlood.js`, `MdnsSd`, `HoustonInfoRequestTracer`.
