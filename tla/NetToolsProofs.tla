--------------------------- MODULE NetToolsProofs ---------------------------
(***************************************************************************)
(* The tools that talk to peers and other processes keep what they promise *)
(* for any number of clients, any tree, any listing and any response, in   *)
(* whatever pieces and whatever order it arrives.                          *)
(***************************************************************************)
EXTENDS NetTools, FiniteSetTheorems, SequenceTheorems, WellFoundedInduction, TLAPS

\* The instances count with the same operator.
LEMMA SameCardinality == \A S : HF!Cardinality(S) = Cardinality(S) /\ RC!Cardinality(S) = Cardinality(S)
BY DEF Cardinality, HF!Cardinality, RC!Cardinality

-----------------------------------------------------------------------------
(* HttpFlood.c                                                             *)

Runner == PoolThread \cup {"evLoop"}
FloodAt == HF!RspAt \cup HF!ProgressAt \cup {"initStuff", "send", "idle", "aborted"}
Holding == (HF!RspAt \cup HF!ProgressAt) \ {"rsp: lock", "progress: lock"}

\* The invariant before the program is aborted.
Flooding ==
    /\ HF!TypeOK
    /\ \A t \in Runner : at[t] # "aborted"
    /\ HF!MutexHeld /\ HF!ReadIsCurrent /\ HF!FirstRequests /\ HF!EveryResponseCounted

\* The threads are finitely many, and the counters are numbers.
LEMMA FloodFacts ==
    ASSUME HF!TypeOK
    PROVE  /\ HF!Runner = Runner /\ HF!EvLoop = "evLoop" /\ "evLoop" \in Runner
           /\ IsFiniteSet(HF!Counting) /\ Cardinality(HF!Counting) \in Nat
           /\ numReqDone \in Nat /\ toSend \in Nat /\ inFlight \in Nat /\ pausing \in Nat
           /\ done \in Nat /\ reported \in Nat
           /\ at \in [Runner -> FloodAt]
           /\ \A t \in Runner : at[t] \in FloodAt /\ reg[t] \in Nat
<1>1. HF!Runner = Runner /\ HF!EvLoop = "evLoop" /\ "evLoop" \in Runner
    BY DEF HF!Runner, HF!EvLoop, Runner
<1>2. IsFiniteSet(Runner)
    BY HttpFloodAssumption, FS_Singleton, FS_Union DEF Runner
<1>3. HF!Counting \subseteq Runner
    BY <1>1 DEF HF!Counting
<1>4. IsFiniteSet(HF!Counting) /\ Cardinality(HF!Counting) \in Nat
    BY <1>2, <1>3, FS_Subset, FS_CardinalityType
<1> QED
    BY <1>1, <1>4 DEF HF!TypeOK, FloodAt

\* A thread moves: it begins to count a response, ends doing so, or neither.
LEMMA CountingMoves ==
    ASSUME HF!TypeOK, NEW t \in Runner, NEW l, HF!Goto(t, l)
    PROVE  /\ \A u \in Runner : at'[u] = IF u = t THEN l ELSE at[u]
           /\ (at[t] \in HF!RspAt <=> l \in HF!RspAt) => HF!Counting' = HF!Counting
           /\ at[t] \notin HF!RspAt /\ l \in HF!RspAt =>
                  Cardinality(HF!Counting') = Cardinality(HF!Counting) + 1
           /\ at[t] \in HF!RspAt /\ l \notin HF!RspAt =>
                  Cardinality(HF!Counting') = Cardinality(HF!Counting) - 1
<1>1. \A u \in Runner : at'[u] = IF u = t THEN l ELSE at[u]
    BY FloodFacts DEF HF!Goto
<1>2. /\ HF!Counting = {u \in Runner : at[u] \in HF!RspAt}
      /\ HF!Counting' = {u \in Runner : at'[u] \in HF!RspAt}
    BY FloodFacts DEF HF!Counting, HF!RspAt, HF!Runner, Runner, HF!EvLoop
<1>3. (at[t] \in HF!RspAt <=> l \in HF!RspAt) => HF!Counting' = HF!Counting
    BY <1>1, <1>2
<1>4. ASSUME at[t] \notin HF!RspAt, l \in HF!RspAt
      PROVE  Cardinality(HF!Counting') = Cardinality(HF!Counting) + 1
    <2>1. HF!Counting' = HF!Counting \cup {t} /\ t \notin HF!Counting
        BY <1>1, <1>2, <1>4
    <2> QED
        BY <2>1, FloodFacts, FS_AddElement
<1>5. ASSUME at[t] \in HF!RspAt, l \notin HF!RspAt
      PROVE  Cardinality(HF!Counting') = Cardinality(HF!Counting) - 1
    <2>1. HF!Counting' = HF!Counting \ {t} /\ t \in HF!Counting
        BY <1>1, <1>2, <1>5
    <2> QED
        BY <2>1, FloodFacts, FS_RemoveElement
<1> QED
    BY <1>1, <1>3, <1>4, <1>5

\* A step of one thread keeps the mutex, what was read and the first requests in
\* order: it takes or gives the mutex as it enters or leaves the section, and only
\* who is inside changes the counter.
LEMMA FloodKeeps ==
    ASSUME Flooding, NEW t \in Runner, NEW l \in FloodAt \ {"aborted", "initStuff"}, HF!Goto(t, l),
           t # "evLoop" => l \in HF!RspAt \cup {"idle"},
           at["evLoop"] = "initStuff" => t = "evLoop",
           l = "send" => toSend' > 0,
           toSend' = toSend \/ t = "evLoop",
           \/ progressMutx' = progressMutx /\ (at[t] \in Holding <=> l \in Holding)
           \/ HF!Lock(t) /\ at[t] \notin Holding /\ l \in Holding
           \/ progressMutx' = "no one" /\ at[t] \in Holding /\ l \notin Holding,
           reg' \in [Runner -> Nat], \A u \in Runner : u # t => reg'[u] = reg[u],
           numReqDone' = numReqDone \/ at[t] \in Holding,
           l \in {"rsp: write", "progress: reset"} => reg'[t] = numReqDone',
           numReqDone' \in Nat, toSend' \in Nat, inFlight' \in Nat, pausing' \in Nat,
           progressDue' \in BOOLEAN, done' \in Nat, reported' \in Nat,
           HF!EveryResponseCounted'
    PROVE  Flooding'
<1>1. /\ HF!TypeOK /\ HF!MutexHeld /\ HF!ReadIsCurrent /\ HF!FirstRequests
      /\ \A u \in Runner : at[u] # "aborted"
    BY DEF Flooding
<1>2. /\ \A u \in Runner : at'[u] = IF u = t THEN l ELSE at[u]
      /\ at' = [at EXCEPT ![t] = l] /\ at \in [Runner -> FloodAt]
    BY <1>1, CountingMoves, FloodFacts DEF HF!Goto
<1>3. HF!Runner = Runner /\ HF!EvLoop = "evLoop" /\ "evLoop" \in Runner /\ HF!NoOne = "no one"
    BY <1>1, FloodFacts DEF HF!NoOne
<1>4. progressMutx' \in Runner \cup {"no one"}
    BY <1>1, <1>3 DEF HF!TypeOK, HF!Lock
<1>5. HF!TypeOK'
    <2>1. at' \in [Runner -> FloodAt]
        BY <1>2
    <2>2. \A u \in PoolThread : at'[u] \in HF!RspAt \cup {"idle", "aborted"}
        <3>1. \A u \in PoolThread : at[u] \in HF!RspAt \cup {"idle", "aborted"}
            BY <1>1 DEF HF!TypeOK
        <3>2. \A u \in PoolThread : u \in Runner /\ u # "evLoop"
            BY HttpFloodAssumption DEF Runner
        <3>3. t # "evLoop" => l \in HF!RspAt \cup {"idle", "aborted"}
            OBVIOUS
        <3> QED
            BY <1>2, <3>1, <3>2, <3>3
    <2> QED
        BY <1>3, <1>4, <2>1, <2>2 DEF HF!TypeOK, FloodAt
<1>6. /\ \A u \in Runner : at[u] \in Holding <=> progressMutx = u
      /\ \A u \in Runner : u # "no one"
    BY <1>1, <1>3, HttpFloodAssumption DEF HF!MutexHeld, Holding, Runner
<1>7. \A u \in Runner : at'[u] \in Holding <=> progressMutx' = u
    <2>1. CASE progressMutx' = progressMutx /\ (at[t] \in Holding <=> l \in Holding)
        BY <1>2, <1>6, <2>1
    <2>2. CASE HF!Lock(t) /\ at[t] \notin Holding /\ l \in Holding
        BY <1>2, <1>3, <1>6, <2>2 DEF HF!Lock
    <2>3. CASE progressMutx' = "no one" /\ at[t] \in Holding /\ l \notin Holding
        BY <1>2, <1>6, <2>3
    <2> QED
        BY <2>1, <2>2, <2>3
<1>8. HF!MutexHeld'
    BY <1>3, <1>7 DEF HF!MutexHeld, Holding
<1>9. HF!ReadIsCurrent'
    <2>1. ASSUME NEW u \in Runner, at'[u] \in {"rsp: write", "progress: reset"}
          PROVE  reg'[u] = numReqDone'
        <3>1. CASE u = t
            BY <1>2, <2>1, <3>1
        <3>2. CASE u # t
            <4>1. at[u] \in {"rsp: write", "progress: reset"} /\ reg'[u] = reg[u]
                BY <1>2, <2>1, <3>2
            <4>2. progressMutx = u
                BY <1>6, <4>1 DEF Holding, HF!RspAt, HF!ProgressAt
            <4>3. numReqDone' = numReqDone
                BY <1>6, <3>2, <4>2
            <4> QED
                BY <1>1, <1>3, <4>1, <4>3 DEF HF!ReadIsCurrent
        <3> QED
            BY <3>1, <3>2
    <2> QED
        BY <1>3, <2>1 DEF HF!ReadIsCurrent
<1>10. HF!FirstRequests'
    <2>1. at'["evLoop"] # "initStuff"
        BY <1>2, <1>3
    <2>2. at'["evLoop"] = "send" => toSend' > 0
        BY <1>1, <1>2, <1>3 DEF HF!FirstRequests
    <2> QED
        BY <1>3, <2>1, <2>2 DEF HF!FirstRequests
<1>11. \A u \in Runner : at'[u] # "aborted"
    BY <1>1, <1>2
<1> QED
    BY <1>5, <1>8, <1>9, <1>10, <1>11 DEF Flooding

\* What the report has read and not printed yet, and how many threads count.
Printed == IF at["evLoop"] = "progress: print" THEN reg["evLoop"] ELSE 0
Busy == Cardinality(HF!Counting)

\* The sums, in these terms.
LEMMA SumFacts ==
    ASSUME HF!TypeOK
    PROVE  /\ Printed \in Nat /\ Busy \in Nat
           /\ HF!EveryResponseCounted <=>
                 (at["evLoop"] # "aborted" =>
                     /\ reported + numReqDone + Printed = done
                     /\ at["evLoop"] # "initStuff" => toSend + inFlight + pausing + Busy = NClients)
<1>1. HF!EvLoop = "evLoop" /\ reg["evLoop"] \in Nat
    BY FloodFacts
<1>2. Printed \in Nat /\ Busy \in Nat
    BY <1>1, FloodFacts DEF Printed, Busy
<1>3. HF!EveryResponseCounted <=>
          (at["evLoop"] # "aborted" =>
              /\ reported + numReqDone + Printed = done
              /\ at["evLoop"] # "initStuff" => toSend + inFlight + pausing + Busy = NClients)
    BY SameCardinality DEF HF!EveryResponseCounted, HF!EvLoop, Printed, Busy
<1> QED
    BY <1>2, <1>3

\* The same, when a thread moves.
LEMMA BusyMoves ==
    ASSUME HF!TypeOK, NEW t \in Runner, NEW l, HF!Goto(t, l)
    PROVE  /\ (at[t] \in HF!RspAt <=> l \in HF!RspAt) => Busy' = Busy
           /\ at[t] \notin HF!RspAt /\ l \in HF!RspAt => Busy' = Busy + 1
           /\ at[t] \in HF!RspAt /\ l \notin HF!RspAt => Busy' = Busy - 1
BY CountingMoves DEF Busy

\* A step of one thread keeps the number of clients: what it adds to one of the
\* counters it takes from another.
LEMMA LoadKept ==
    ASSUME Flooding, at["evLoop"] # "initStuff",
           reported' + numReqDone' + Printed' = done',
           toSend' + inFlight' + pausing' + Busy' = toSend + inFlight + pausing + Busy
    PROVE  HF!EveryResponseCounted'
<1>1. HF!TypeOK /\ HF!EveryResponseCounted /\ at["evLoop"] # "aborted"
    BY FloodFacts DEF Flooding
<1>2. toSend + inFlight + pausing + Busy = NClients
    BY <1>1, SumFacts
<1> QED
    BY <1>2, SameCardinality DEF HF!EveryResponseCounted, HF!EvLoop, Printed, Busy

\* What is printed changes only when the report moves.
LEMMA PrintedKept ==
    ASSUME HF!TypeOK, NEW t \in Runner, NEW l, HF!Goto(t, l),
           \A u \in Runner : u # t => reg'[u] = reg[u],
           t = "evLoop" => at[t] # "progress: print" /\ l # "progress: print"
    PROVE  Printed' = Printed
<1>1. \A u \in Runner : at'[u] = IF u = t THEN l ELSE at[u]
    BY CountingMoves
<1> QED
    BY <1>1, FloodFacts DEF Printed

\* What the steps below start from.
LEMMA FloodingFacts ==
    ASSUME Flooding
    PROVE  /\ HF!TypeOK /\ HF!EvLoop = "evLoop" /\ "evLoop" \in Runner /\ HF!Runner = Runner
           /\ numReqDone \in Nat /\ toSend \in Nat /\ inFlight \in Nat /\ pausing \in Nat
           /\ done \in Nat /\ reported \in Nat /\ Printed \in Nat /\ Busy \in Nat
           /\ progressDue \in BOOLEAN /\ reg \in [Runner -> Nat]
           /\ \A t \in Runner : at[t] \in FloodAt
           /\ \A t \in Runner : at[t] \notin HF!RspAt \cup {"idle"} => t = "evLoop"
           /\ reported + numReqDone + Printed = done
<1>1. HF!TypeOK /\ HF!EveryResponseCounted /\ \A t \in Runner : at[t] # "aborted"
    BY DEF Flooding
<1>2. HF!EvLoop = "evLoop" /\ "evLoop" \in Runner /\ HF!Runner = Runner
    BY <1>1, FloodFacts
<1>3. \A t \in Runner : at[t] \notin HF!RspAt \cup {"idle"} => t = "evLoop"
    BY <1>1, <1>2 DEF HF!TypeOK, Runner
<1>4. progressDue \in BOOLEAN /\ reg \in [Runner -> Nat]
    BY <1>1, <1>2 DEF HF!TypeOK
<1>5. reported + numReqDone + Printed = done
    BY <1>1, <1>2, SumFacts
<1> QED
    BY <1>1, <1>2, <1>3, <1>4, <1>5, FloodFacts, SumFacts

\* The numbers among them.
LEMMA NumberFacts ==
    ASSUME Flooding
    PROVE  /\ numReqDone \in Nat /\ toSend \in Nat /\ inFlight \in Nat /\ pausing \in Nat
           /\ done \in Nat /\ reported \in Nat /\ Printed \in Nat /\ Busy \in Nat
           /\ reported + numReqDone + Printed = done
BY FloodingFacts

\* initStuff() sets the number of first requests.
LEMMA InitStuffStep ==
    ASSUME Flooding, HF!InitStuff
    PROVE  Flooding'
<1> DEFINE t == "evLoop"
           l == "progress: lock"
<1>1. /\ at[t] = "initStuff" /\ HF!Goto(t, l) /\ toSend' = NClients
      /\ UNCHANGED <<reg, progressMutx, numReqDone, inFlight, pausing, progressDue, done, reported>>
    BY FloodingFacts DEF HF!InitStuff
<1>2. /\ t \in Runner /\ l \in FloodAt \ {"aborted", "initStuff"}
      /\ at[t] \notin Holding /\ l \notin Holding /\ at[t] \notin HF!RspAt /\ l \notin HF!RspAt
    BY <1>1, FloodingFacts DEF FloodAt, Holding, HF!RspAt, HF!ProgressAt
<1>3. inFlight = 0 /\ pausing = 0 /\ Busy = 0
    BY <1>1, FloodingFacts, FS_EmptySet DEF Flooding, HF!FirstRequests, Busy
<1>4. Busy' = 0 /\ Printed' = Printed
    BY <1>1, <1>2, <1>3, FloodingFacts, BusyMoves, PrintedKept
<1>5. NClients \in Nat
    BY HttpFloodAssumption
<1>6. HF!EveryResponseCounted'
    <2>1. reported' + numReqDone' + Printed' = done'
        BY <1>1, <1>4, FloodingFacts
    <2>2. toSend' + inFlight' + pausing' + Busy' = NClients
        <3>1. inFlight' = 0 /\ pausing' = 0 /\ Busy' = 0 /\ toSend' = NClients
            BY <1>1, <1>3, <1>4
        <3>2. NClients + 0 + 0 + 0 = NClients
            BY <1>5
        <3> QED
            BY <3>1, <3>2
    <2> QED
        BY <2>1, <2>2, SameCardinality DEF HF!EveryResponseCounted, HF!EvLoop, Printed, Busy
<1> HIDE DEF t, l
<1> QED
    BY <1>1, <1>2, <1>5, <1>6, FloodingFacts, FloodKeeps DEF t, l

\* The first request of one more client is sent.
LEMMA SendFirstStep ==
    ASSUME Flooding, HF!SendFirst
    PROVE  Flooding'
<1> DEFINE t == "evLoop"
           l == IF toSend = 1 THEN "idle" ELSE "send"
<1>1. /\ at[t] = "send" /\ HF!Goto(t, l) /\ toSend' = toSend - 1 /\ inFlight' = inFlight + 1
      /\ UNCHANGED <<reg, progressMutx, numReqDone, pausing, progressDue, done, reported>>
    BY FloodingFacts DEF HF!SendFirst
<1>2. /\ t \in Runner /\ l \in FloodAt \ {"aborted", "initStuff"}
      /\ at[t] \notin Holding /\ l \notin Holding /\ at[t] \notin HF!RspAt /\ l \notin HF!RspAt
      /\ l \notin {"progress: print", "rsp: write", "progress: reset"}
    BY <1>1, FloodingFacts DEF FloodAt, Holding, HF!RspAt, HF!ProgressAt
<1>3. toSend > 0
    BY <1>1, FloodingFacts DEF Flooding, HF!FirstRequests
<1>4. toSend' \in Nat /\ inFlight' \in Nat /\ (l = "send" => toSend' > 0)
    BY <1>1, <1>3, FloodingFacts
<1> HIDE DEF l
<1>5. Busy' = Busy /\ Printed' = Printed
    BY <1>1, <1>2, FloodingFacts, BusyMoves, PrintedKept
<1>6. HF!EveryResponseCounted'
    <2>1. reported' + numReqDone' + Printed' = done'
        BY <1>1, <1>5, FloodingFacts
    <2>2. toSend' + inFlight' + pausing' + Busy' = toSend + inFlight + pausing + Busy
        BY <1>1, <1>5, FloodingFacts
    <2> QED
        BY <1>1, <2>1, <2>2, LoadKept
<1> HIDE DEF t
<1> QED
    BY <1>1, <1>2, <1>4, <1>6, FloodingFacts, FloodKeeps DEF t

\* A pause is over and the next request is sent: no thread moves.
LEMMA SendAnotherStep ==
    ASSUME Flooding, HF!SendAnotherRequest
    PROVE  Flooding'
<1>1. /\ at["evLoop"] = "idle" /\ pausing > 0 /\ pausing' = pausing - 1 /\ inFlight' = inFlight + 1
      /\ UNCHANGED <<at, reg, progressMutx, numReqDone, toSend, progressDue, done, reported>>
    BY FloodingFacts DEF HF!SendAnotherRequest
<1>2. pausing' \in Nat /\ inFlight' \in Nat
    BY <1>1, FloodingFacts
<1>3. HF!TypeOK'
    BY <1>1, <1>2 DEF Flooding, HF!TypeOK
<1>4. HF!MutexHeld' /\ HF!ReadIsCurrent' /\ HF!FirstRequests'
    BY <1>1, FloodingFacts DEF Flooding, HF!MutexHeld, HF!ReadIsCurrent, HF!FirstRequests
<1>5. Busy' = Busy /\ Printed' = Printed
    BY <1>1 DEF Busy, Printed, HF!Counting
<1>6. HF!EveryResponseCounted'
    <2>1. reported' + numReqDone' + Printed' = done'
        BY <1>1, <1>5, FloodingFacts
    <2>2. toSend' + inFlight' + pausing' + Busy' = toSend + inFlight + pausing + Busy
        BY <1>1, <1>5, FloodingFacts
    <2> QED
        BY <1>1, <2>1, <2>2, LoadKept
<1> QED
    BY <1>1, <1>3, <1>4, <1>6 DEF Flooding

\* A response arrives while the event loop or a thread of the pool is idle.
LEMMA OnRspDoneStep ==
    ASSUME Flooding, NEW t \in Runner, HF!OnRspDone(t)
    PROVE  Flooding'
<1> DEFINE l == "rsp: lock"
<1>1. /\ at[t] = "idle" /\ HF!Goto(t, l) /\ inFlight > 0 /\ inFlight' = inFlight - 1
      /\ UNCHANGED <<reg, progressMutx, numReqDone, toSend, pausing, progressDue, done, reported>>
    BY FloodingFacts DEF HF!OnRspDone
<1>2. /\ l \in FloodAt \ {"aborted", "initStuff"}
      /\ at[t] \notin Holding /\ l \notin Holding /\ at[t] \notin HF!RspAt /\ l \in HF!RspAt
    BY <1>1, FloodingFacts DEF FloodAt, Holding, HF!RspAt, HF!ProgressAt
<1>3. inFlight > 0 /\ inFlight' = inFlight - 1 /\ inFlight' \in Nat
    <2>1. inFlight > 0 /\ inFlight' = inFlight - 1
        BY <1>1
    <2> QED
        BY <2>1, NumberFacts
<1>4. at["evLoop"] # "initStuff"
    <2>1. inFlight # 0
        BY <1>3, NumberFacts
    <2> QED
        BY <2>1, FloodingFacts DEF Flooding, HF!FirstRequests
<1>5. Busy' = Busy + 1 /\ Printed' = Printed
    BY <1>1, <1>2, FloodingFacts, BusyMoves, PrintedKept
<1>6. HF!EveryResponseCounted'
    <2>1. reported' + numReqDone' + Printed' = done'
        BY <1>1, <1>5, FloodingFacts
    <2>2. toSend' + inFlight' + pausing' + Busy' = toSend + inFlight + pausing + Busy
        <3>1. toSend' = toSend /\ inFlight' = inFlight - 1 /\ pausing' = pausing /\ Busy' = Busy + 1
            BY <1>1, <1>5
        <3> QED
            BY <3>1, NumberFacts
    <2> QED
        BY <1>4, <2>1, <2>2, LoadKept
<1> HIDE DEF l
<1> QED
    BY <1>1, <1>2, <1>3, <1>4, <1>6, FloodingFacts, FloodKeeps DEF l

\* Who counts a response gets the mutex.
LEMMA RspLockStep ==
    ASSUME Flooding, NEW t \in Runner, HF!RspLock(t)
    PROVE  Flooding'
<1> DEFINE l == "rsp: read"
<1>1. /\ at[t] = "rsp: lock" /\ HF!Goto(t, l) /\ HF!Lock(t)
      /\ UNCHANGED <<reg, numReqDone, toSend, inFlight, pausing, progressDue, done, reported>>
    BY FloodingFacts DEF HF!RspLock
<1>2. /\ l \in FloodAt \ {"aborted", "initStuff"}
      /\ at[t] \notin Holding /\ l \in Holding /\ at[t] \in HF!RspAt /\ l \in HF!RspAt
    BY <1>1, FloodingFacts DEF FloodAt, Holding, HF!RspAt, HF!ProgressAt
<1>4. at["evLoop"] # "initStuff"
    BY <1>1, <1>2, FloodingFacts DEF Flooding, HF!FirstRequests, HF!Counting, HF!RspAt
<1>5. Busy' = Busy /\ Printed' = Printed
    BY <1>1, <1>2, FloodingFacts, BusyMoves, PrintedKept
<1>6. HF!EveryResponseCounted'
    <2>1. reported' + numReqDone' + Printed' = done'
        BY <1>1, <1>5, FloodingFacts
    <2>2. toSend' + inFlight' + pausing' + Busy' = toSend + inFlight + pausing + Busy
        BY <1>1, <1>5, FloodingFacts
    <2> QED
        BY <1>4, <2>1, <2>2, LoadKept
<1> HIDE DEF l
<1> QED
    BY <1>1, <1>2, <1>4, <1>6, FloodingFacts, FloodKeeps DEF l

\* It reads the counter.
LEMMA RspReadStep ==
    ASSUME Flooding, NEW t \in Runner, HF!RspRead(t)
    PROVE  Flooding'
<1> DEFINE l == "rsp: write"
<1>1. /\ at[t] = "rsp: read" /\ HF!Goto(t, l) /\ reg' = [reg EXCEPT ![t] = numReqDone]
      /\ UNCHANGED <<progressMutx, numReqDone, toSend, inFlight, pausing, progressDue, done, reported>>
    BY FloodingFacts DEF HF!RspRead
<1>2. /\ l \in FloodAt \ {"aborted", "initStuff"}
      /\ at[t] \in Holding /\ l \in Holding /\ at[t] \in HF!RspAt /\ l \in HF!RspAt
    BY <1>1, FloodingFacts DEF FloodAt, Holding, HF!RspAt, HF!ProgressAt
<1>3. /\ reg' \in [Runner -> Nat] /\ reg'[t] = numReqDone
      /\ \A u \in Runner : u # t => reg'[u] = reg[u]
    BY <1>1, FloodingFacts
<1>4. at["evLoop"] # "initStuff"
    BY <1>1, <1>2, FloodingFacts DEF Flooding, HF!FirstRequests, HF!Counting, HF!RspAt
<1>5. Busy' = Busy /\ Printed' = Printed
    BY <1>1, <1>2, <1>3, FloodingFacts, BusyMoves, PrintedKept
<1>6. HF!EveryResponseCounted'
    <2>1. reported' + numReqDone' + Printed' = done'
        BY <1>1, <1>5, FloodingFacts
    <2>2. toSend' + inFlight' + pausing' + Busy' = toSend + inFlight + pausing + Busy
        BY <1>1, <1>5, FloodingFacts
    <2> QED
        BY <1>4, <2>1, <2>2, LoadKept
<1> HIDE DEF l
<1> QED
    BY <1>1, <1>2, <1>3, <1>4, <1>6, FloodingFacts, FloodKeeps DEF l

\* It writes what it read plus one: nobody has changed the counter meanwhile.
LEMMA RspWriteStep ==
    ASSUME Flooding, NEW t \in Runner, HF!RspWrite(t)
    PROVE  Flooding'
<1> DEFINE l == "rsp: unlock"
<1>1. /\ at[t] = "rsp: write" /\ HF!Goto(t, l) /\ reg' = [reg EXCEPT ![t] = 0]
      /\ numReqDone' = reg[t] + 1 /\ done' = done + 1
      /\ UNCHANGED <<progressMutx, toSend, inFlight, pausing, progressDue, reported>>
    BY FloodingFacts DEF HF!RspWrite
<1>2. /\ l \in FloodAt \ {"aborted", "initStuff"}
      /\ at[t] \in Holding /\ l \in Holding /\ at[t] \in HF!RspAt /\ l \in HF!RspAt
    BY <1>1, FloodingFacts DEF FloodAt, Holding, HF!RspAt, HF!ProgressAt
<1>3. /\ reg' \in [Runner -> Nat]
      /\ \A u \in Runner : u # t => reg'[u] = reg[u]
    BY <1>1, FloodingFacts
<1>4. at["evLoop"] # "initStuff"
    BY <1>1, <1>2, FloodingFacts DEF Flooding, HF!FirstRequests, HF!Counting, HF!RspAt
<1>5. Busy' = Busy /\ Printed' = Printed
    BY <1>1, <1>2, <1>3, FloodingFacts, BusyMoves, PrintedKept
<1>6. numReqDone' = numReqDone + 1
    BY <1>1, FloodingFacts DEF Flooding, HF!ReadIsCurrent
<1>7. numReqDone' \in Nat /\ done' \in Nat
    <2>1. done' = done + 1
        BY <1>1
    <2> QED
        BY <1>6, <2>1, NumberFacts
<1>8. HF!EveryResponseCounted'
    <2>1. reported' + numReqDone' + Printed' = done'
        <3>1. reported' = reported /\ Printed' = Printed /\ done' = done + 1
            BY <1>1, <1>5
        <3> QED
            BY <1>6, <3>1, NumberFacts
    <2>2. toSend' + inFlight' + pausing' + Busy' = toSend + inFlight + pausing + Busy
        BY <1>1, <1>5, FloodingFacts
    <2> QED
        BY <1>4, <2>1, <2>2, LoadKept
<1> HIDE DEF l
<1> QED
    BY <1>1, <1>2, <1>3, <1>4, <1>7, <1>8, FloodingFacts, FloodKeeps DEF l

\* It gives the mutex back, and its client pauses.
LEMMA RspUnlockStep ==
    ASSUME Flooding, NEW t \in Runner, HF!RspUnlock(t)
    PROVE  Flooding'
<1> DEFINE l == "idle"
<1>1. /\ at[t] = "rsp: unlock" /\ HF!Goto(t, l) /\ progressMutx' = "no one" /\ pausing' = pausing + 1
      /\ UNCHANGED <<reg, numReqDone, toSend, inFlight, progressDue, done, reported>>
    BY FloodingFacts DEF HF!RspUnlock, HF!NoOne
<1>2. /\ l \in FloodAt \ {"aborted", "initStuff"}
      /\ at[t] \in Holding /\ l \notin Holding /\ at[t] \in HF!RspAt /\ l \notin HF!RspAt
    BY <1>1, FloodingFacts DEF FloodAt, Holding, HF!RspAt, HF!ProgressAt
<1>4. at["evLoop"] # "initStuff"
    BY <1>1, <1>2, FloodingFacts DEF Flooding, HF!FirstRequests, HF!Counting, HF!RspAt
<1>5. Busy' = Busy - 1 /\ Printed' = Printed /\ pausing' \in Nat
    <2>1. Busy' = Busy - 1 /\ Printed' = Printed
        BY <1>1, <1>2, FloodingFacts, BusyMoves, PrintedKept
    <2>2. pausing' = pausing + 1
        BY <1>1
    <2> QED
        BY <2>1, <2>2, NumberFacts
<1>6. HF!EveryResponseCounted'
    <2>1. reported' + numReqDone' + Printed' = done'
        BY <1>1, <1>5, FloodingFacts
    <2>2. toSend' + inFlight' + pausing' + Busy' = toSend + inFlight + pausing + Busy
        <3>1. toSend' = toSend /\ inFlight' = inFlight /\ pausing' = pausing + 1 /\ Busy' = Busy - 1
            BY <1>1, <1>5
        <3> QED
            BY <3>1, NumberFacts
    <2> QED
        BY <1>4, <2>1, <2>2, LoadKept
<1> HIDE DEF l
<1> QED
    BY <1>1, <1>2, <1>4, <1>5, <1>6, FloodingFacts, FloodKeeps DEF l

\* The report is due, and waits for the mutex.
LEMMA ProgressDueStep ==
    ASSUME Flooding, HF!PeriodicallyPrintProgress
    PROVE  Flooding'
<1> DEFINE t == "evLoop"
           l == "progress: lock"
<1>1. /\ at[t] = "idle" /\ HF!Goto(t, l) /\ progressDue' = FALSE
      /\ UNCHANGED <<reg, progressMutx, numReqDone, toSend, inFlight, pausing, done, reported>>
    BY FloodingFacts DEF HF!PeriodicallyPrintProgress
<1>2. /\ t \in Runner /\ l \in FloodAt \ {"aborted", "initStuff"}
      /\ at[t] \notin Holding /\ l \notin Holding /\ at[t] \notin HF!RspAt /\ l \notin HF!RspAt
    BY <1>1, FloodingFacts DEF FloodAt, Holding, HF!RspAt, HF!ProgressAt
<1>5. Busy' = Busy /\ Printed' = Printed
    BY <1>1, <1>2, FloodingFacts, BusyMoves, PrintedKept
<1>6. HF!EveryResponseCounted'
    <2>1. reported' + numReqDone' + Printed' = done'
        BY <1>1, <1>5, FloodingFacts
    <2>2. toSend' + inFlight' + pausing' + Busy' = toSend + inFlight + pausing + Busy
        BY <1>1, <1>5, FloodingFacts
    <2> QED
        BY <1>1, <2>1, <2>2, LoadKept
<1> HIDE DEF t, l
<1> QED
    BY <1>1, <1>2, <1>6, FloodingFacts, FloodKeeps DEF t, l

\* The report gets the mutex.
LEMMA ProgressLockStep ==
    ASSUME Flooding, HF!ProgressLock
    PROVE  Flooding'
<1> DEFINE t == "evLoop"
           l == "progress: read"
<1>1. /\ at[t] = "progress: lock" /\ HF!Goto(t, l) /\ HF!Lock(t)
      /\ UNCHANGED <<reg, numReqDone, toSend, inFlight, pausing, progressDue, done, reported>>
    BY FloodingFacts DEF HF!ProgressLock
<1>2. /\ t \in Runner /\ l \in FloodAt \ {"aborted", "initStuff"}
      /\ at[t] \notin Holding /\ l \in Holding /\ at[t] \notin HF!RspAt /\ l \notin HF!RspAt
    BY <1>1, FloodingFacts DEF FloodAt, Holding, HF!RspAt, HF!ProgressAt
<1>5. Busy' = Busy /\ Printed' = Printed
    BY <1>1, <1>2, FloodingFacts, BusyMoves, PrintedKept
<1>6. HF!EveryResponseCounted'
    <2>1. reported' + numReqDone' + Printed' = done'
        BY <1>1, <1>5, FloodingFacts
    <2>2. toSend' + inFlight' + pausing' + Busy' = toSend + inFlight + pausing + Busy
        BY <1>1, <1>5, FloodingFacts
    <2> QED
        BY <1>1, <2>1, <2>2, LoadKept
<1> HIDE DEF t, l
<1> QED
    BY <1>1, <1>2, <1>6, FloodingFacts, FloodKeeps DEF t, l

\* It reads the counter.
LEMMA ProgressReadStep ==
    ASSUME Flooding, HF!ProgressRead
    PROVE  Flooding'
<1> DEFINE t == "evLoop"
           l == "progress: reset"
<1>1. /\ at[t] = "progress: read" /\ HF!Goto(t, l) /\ reg' = [reg EXCEPT ![t] = numReqDone]
      /\ UNCHANGED <<progressMutx, numReqDone, toSend, inFlight, pausing, progressDue, done, reported>>
    BY FloodingFacts DEF HF!ProgressRead
<1>2. /\ t \in Runner /\ l \in FloodAt \ {"aborted", "initStuff"}
      /\ at[t] \in Holding /\ l \in Holding /\ at[t] \notin HF!RspAt /\ l \notin HF!RspAt
    BY <1>1, FloodingFacts DEF FloodAt, Holding, HF!RspAt, HF!ProgressAt
<1>3. /\ reg' \in [Runner -> Nat] /\ reg'[t] = numReqDone
      /\ \A u \in Runner : u # t => reg'[u] = reg[u]
    BY <1>1, FloodingFacts
<1>5. Busy' = Busy /\ Printed' = Printed
    BY <1>1, <1>2, <1>3, FloodingFacts, BusyMoves, PrintedKept
<1>6. HF!EveryResponseCounted'
    <2>1. reported' + numReqDone' + Printed' = done'
        BY <1>1, <1>5, FloodingFacts
    <2>2. toSend' + inFlight' + pausing' + Busy' = toSend + inFlight + pausing + Busy
        BY <1>1, <1>5, FloodingFacts
    <2> QED
        BY <1>1, <2>1, <2>2, LoadKept
<1> HIDE DEF t, l
<1> QED
    BY <1>1, <1>2, <1>3, <1>6, FloodingFacts, FloodKeeps DEF t, l

\* It resets the counter: what was in it is now with the report.
LEMMA ProgressResetStep ==
    ASSUME Flooding, HF!ProgressReset
    PROVE  Flooding'
<1> DEFINE t == "evLoop"
           l == "progress: print"
<1>1. /\ at[t] = "progress: reset" /\ HF!Goto(t, l) /\ numReqDone' = 0
      /\ UNCHANGED <<reg, progressMutx, toSend, inFlight, pausing, progressDue, done, reported>>
    BY FloodingFacts DEF HF!ProgressReset
<1>2. /\ t \in Runner /\ l \in FloodAt \ {"aborted", "initStuff"}
      /\ at[t] \in Holding /\ l \in Holding /\ at[t] \notin HF!RspAt /\ l \notin HF!RspAt
    BY <1>1, FloodingFacts DEF FloodAt, Holding, HF!RspAt, HF!ProgressAt
<1>3. reg[t] = numReqDone
    BY <1>1, FloodingFacts DEF Flooding, HF!ReadIsCurrent
<1>4. \A u \in Runner : at'[u] = IF u = t THEN l ELSE at[u]
    BY <1>1, <1>2, FloodingFacts, CountingMoves
<1>5. Busy' = Busy /\ Printed = 0 /\ Printed' = numReqDone
    <2>1. Busy' = Busy
        BY <1>1, <1>2, FloodingFacts, BusyMoves
    <2>2. Printed = 0
        BY <1>1 DEF Printed
    <2>3. Printed' = numReqDone
        BY <1>1, <1>2, <1>3, <1>4 DEF Printed
    <2> QED
        BY <2>1, <2>2, <2>3
<1>6. HF!EveryResponseCounted'
    <2>1. reported' + numReqDone' + Printed' = done'
        <3>1. reported' = reported /\ numReqDone' = 0 /\ done' = done
            BY <1>1
        <3> QED
            BY <1>5, <3>1, NumberFacts
    <2>2. toSend' + inFlight' + pausing' + Busy' = toSend + inFlight + pausing + Busy
        BY <1>1, <1>5, FloodingFacts
    <2> QED
        BY <1>1, <2>1, <2>2, LoadKept
<1> HIDE DEF t, l
<1>7. 0 \in Nat
    OBVIOUS
<1> QED
    BY <1>1, <1>2, <1>6, <1>7, FloodingFacts, FloodKeeps DEF t, l

\* It gives the mutex back, and prints what it had read.
LEMMA ProgressPrintStep ==
    ASSUME Flooding, HF!ProgressPrint
    PROVE  Flooding'
<1> DEFINE t == "evLoop"
           l == IF toSend > 0 THEN "send" ELSE "idle"
<1>1. /\ at[t] = "progress: print" /\ HF!Goto(t, l) /\ progressMutx' = "no one"
      /\ reported' = reported + reg[t] /\ reg' = [reg EXCEPT ![t] = 0] /\ progressDue' = TRUE
      /\ UNCHANGED <<numReqDone, toSend, inFlight, pausing, done>>
    BY FloodingFacts DEF HF!ProgressPrint, HF!NoOne
<1>2. /\ t \in Runner /\ l \in FloodAt \ {"aborted", "initStuff"}
      /\ at[t] \in Holding /\ l \notin Holding /\ at[t] \notin HF!RspAt /\ l \notin HF!RspAt
      /\ l \in {"send", "idle"} /\ (l = "send" => toSend' > 0)
    BY <1>1, FloodingFacts DEF FloodAt, Holding, HF!RspAt, HF!ProgressAt
<1> HIDE DEF l
<1>3. /\ reg' \in [Runner -> Nat] /\ reg[t] \in Nat
      /\ \A u \in Runner : u # t => reg'[u] = reg[u]
    BY <1>1, <1>2, FloodingFacts
<1>4. \A u \in Runner : at'[u] = IF u = t THEN l ELSE at[u]
    BY <1>1, <1>2, FloodingFacts, CountingMoves
<1>5. Busy' = Busy /\ Printed = reg[t] /\ Printed' = 0
    <2>1. Busy' = Busy
        BY <1>1, <1>2, FloodingFacts, BusyMoves
    <2>2. Printed = reg[t]
        BY <1>1 DEF Printed
    <2>3. Printed' = 0
        BY <1>2, <1>4 DEF Printed
    <2> QED
        BY <2>1, <2>2, <2>3
<1>6. reported' = reported + Printed /\ reported' \in Nat
    <2>1. reported' = reported + Printed
        BY <1>1, <1>5
    <2> QED
        BY <2>1, NumberFacts
<1>7. HF!EveryResponseCounted'
    <2>1. reported' + numReqDone' + Printed' = done'
        <3>1. numReqDone' = numReqDone /\ done' = done
            BY <1>1
        <3> QED
            BY <1>5, <1>6, <3>1, NumberFacts
    <2>2. toSend' + inFlight' + pausing' + Busy' = toSend + inFlight + pausing + Busy
        BY <1>1, <1>5, FloodingFacts
    <2> QED
        BY <1>1, <2>1, <2>2, LoadKept
<1> HIDE DEF t
<1> QED
    BY <1>1, <1>2, <1>3, <1>6, <1>7, FloodingFacts, FloodKeeps DEF t

\* An error ends the program for all threads.
LEMMA OnErrorStep ==
    ASSUME Flooding, NEW t \in Runner, HF!OnError(t)
    PROVE  HF!FloodInv'
<1>1. /\ at' = [u \in Runner |-> "aborted"]
      /\ UNCHANGED <<reg, progressMutx, numReqDone, toSend, inFlight, pausing, progressDue, done, reported>>
    BY FloodingFacts DEF HF!OnError
<1>2. HF!Runner = Runner /\ PoolThread \subseteq Runner /\ \A u \in Runner : at'[u] = "aborted"
    BY <1>1, FloodingFacts DEF Runner
<1>3. HF!TypeOK'
    BY <1>1, <1>2 DEF Flooding, HF!TypeOK
<1> QED
    BY <1>2, <1>3 DEF HF!FloodInv

\* Every step keeps the invariant.
LEMMA FloodNext ==
    ASSUME HF!FloodInv, HF!Next
    PROVE  HF!FloodInv'
<1>1. HF!TypeOK /\ HF!Runner = Runner /\ HF!EvLoop = "evLoop" /\ "evLoop" \in Runner
    BY FloodFacts DEF HF!FloodInv
<1>2. Flooding' => HF!FloodInv'
    BY <1>1 DEF Flooding, HF!FloodInv, HF!Runner, HF!EvLoop, Runner
<1>3. CASE \A t \in Runner : at[t] = "aborted"
    <2>1. UNCHANGED HF!hfVars
        BY <1>1, <1>3 DEF HF!Next, HF!InitStuff, HF!SendFirst, HF!SendAnotherRequest, HF!OnRspDone,
            HF!RspLock, HF!RspRead, HF!RspWrite, HF!RspUnlock, HF!OnError, HF!Ended,
            HF!PeriodicallyPrintProgress, HF!ProgressLock, HF!ProgressRead, HF!ProgressReset,
            HF!ProgressPrint
    <2>2. UNCHANGED <<at, reg, progressMutx, numReqDone, toSend, inFlight, pausing, progressDue, done, reported>>
        BY <2>1 DEF HF!hfVars
    <2>3. HF!TypeOK' /\ \A t \in HF!Runner : at'[t] = "aborted"
        BY <1>1, <1>3, <2>2 DEF HF!TypeOK
    <2> QED
        BY <2>3 DEF HF!FloodInv
<1>4. CASE Flooding
    <2>1. HF!Ended => FALSE
        BY <1>1, <1>4 DEF HF!Ended, Flooding
    <2>2. ASSUME NEW t \in Runner,
                 \/ HF!OnRspDone(t) \/ HF!RspLock(t) \/ HF!RspRead(t) \/ HF!RspWrite(t)
                 \/ HF!RspUnlock(t) \/ HF!OnError(t)
          PROVE  HF!FloodInv'
        BY <1>2, <1>4, <2>2, OnRspDoneStep, RspLockStep, RspReadStep, RspWriteStep, RspUnlockStep,
            OnErrorStep
    <2> QED
        BY <1>1, <1>2, <1>4, <2>1, <2>2, InitStuffStep, SendFirstStep, SendAnotherStep, ProgressDueStep,
            ProgressLockStep, ProgressReadStep, ProgressResetStep, ProgressPrintStep DEF HF!Next
<1> QED
    BY <1>1, <1>3, <1>4 DEF HF!FloodInv, Flooding

\* It holds at the begin.
LEMMA FloodInit ==
    ASSUME HF!Init
    PROVE  HF!FloodInv
<1>1. /\ at = [t \in Runner |-> IF t = "evLoop" THEN "initStuff" ELSE "idle"]
      /\ reg = [t \in Runner |-> 0] /\ progressMutx = "no one"
      /\ numReqDone = 0 /\ toSend = 0 /\ inFlight = 0 /\ pausing = 0 /\ progressDue = FALSE
      /\ done = 0 /\ reported = 0
    BY DEF HF!Init, HF!Runner, HF!EvLoop, HF!NoOne, Runner
<1>2. "evLoop" \in Runner /\ at["evLoop"] = "initStuff" /\ PoolThread \subseteq Runner
    BY <1>1 DEF Runner
<1>3. \A t \in PoolThread : at[t] = "idle"
    BY <1>1, <1>2, HttpFloodAssumption
<1>4. \A t \in Runner : at[t] \in {"initStuff", "idle"}
    BY <1>1
<1>5. HF!TypeOK
    BY <1>1, <1>2, <1>3 DEF HF!TypeOK, HF!Runner, HF!EvLoop, HF!NoOne, Runner
<1>6. HF!Counting = {}
    BY <1>4 DEF HF!Counting, HF!Runner, HF!EvLoop, Runner
<1>7. HF!MutexHeld
    <2>1. \A t \in Runner : t # "no one"
        BY HttpFloodAssumption DEF Runner
    <2> QED
        BY <1>1, <1>4, <2>1 DEF HF!MutexHeld, HF!RspAt, HF!ProgressAt, HF!Runner, HF!EvLoop, Runner
<1>8. HF!ReadIsCurrent
    BY <1>4 DEF HF!ReadIsCurrent, HF!Runner, HF!EvLoop, Runner
<1>9. HF!FirstRequests
    BY <1>1, <1>2, <1>6 DEF HF!FirstRequests, HF!EvLoop
<1>10. HF!EveryResponseCounted
    <2>1. Printed = 0
        BY <1>2 DEF Printed
    <2>2. reported + numReqDone + Printed = done
        <3>1. reported = 0 /\ numReqDone = 0 /\ done = 0
            BY <1>1
        <3> QED
            BY <2>1, <3>1
    <2> QED
        BY <1>2, <1>5, <2>2, SumFacts
<1>11. \A t \in HF!Runner : at[t] # "aborted"
    BY <1>4 DEF HF!Runner, HF!EvLoop, Runner
<1> QED
    BY <1>5, <1>7, <1>8, <1>9, <1>10, <1>11 DEF HF!FloodInv

\* The invariant, while this is the tool that runs.
FloodTool == tool = "HttpFlood" => HF!FloodInv

\* The invariant of HttpFlood.c: progressMutx excludes, what a thread has read is
\* still there when it writes, and the sums hold.
THEOREM FloodInvariant == Spec => []FloodTool
<1>1. Init => FloodTool
    BY FloodInit DEF Init, FloodTool
<1>2. FloodTool /\ [Next]_<<tool, rcVars, hlVars, hfVars, sfVars, jbVars, mlVars>> => FloodTool'
    <2> SUFFICES ASSUME FloodTool, tool' = "HttpFlood",
                        [Next]_<<tool, rcVars, hlVars, hfVars, sfVars, jbVars, mlVars>>
                 PROVE  HF!FloodInv'
        BY DEF FloodTool
    <2>1. CASE Next
        <3>1. tool = "HttpFlood" /\ HF!Next
            BY <2>1 DEF Next
        <3> QED
            BY <3>1, FloodNext DEF FloodTool
    <2>2. CASE UNCHANGED <<tool, rcVars, hlVars, hfVars, sfVars, jbVars, mlVars>>
        <3>1. /\ tool = "HttpFlood" /\ HF!FloodInv
              /\ UNCHANGED <<at, reg, progressMutx, numReqDone, toSend, inFlight, pausing, progressDue, done, reported>>
            BY <2>2 DEF FloodTool, hfVars
        <3> QED
            BY <3>1 DEF HF!FloodInv, HF!TypeOK, HF!MutexHeld, HF!ReadIsCurrent, HF!FirstRequests,
                HF!EveryResponseCounted, HF!Counting
    <2> QED
        BY <2>1, <2>2
<1> QED
    BY <1>1, <1>2, PTL DEF Spec

\* HttpFlood.c: every response is in exactly one report or still in numReqDone, and
\* every response is followed by another request, whatever threads run onRspDone()
\* while periodicallyPrintProgress() reads and resets.
THEOREM EveryResponseIsCounted == Spec => []EveryResponseCounted
<1>1. FloodTool => EveryResponseCounted
    <2> SUFFICES ASSUME FloodTool, tool = "HttpFlood"
                 PROVE  HF!EveryResponseCounted
        BY DEF EveryResponseCounted
    <2>1. HF!FloodInv /\ HF!EvLoop \in HF!Runner
        BY DEF FloodTool, HF!Runner
    <2> QED
        BY <2>1 DEF HF!FloodInv, HF!EveryResponseCounted
<1> QED
    BY <1>1, FloodInvariant, PTL

-----------------------------------------------------------------------------
(* JenkinsReBuild.c                                                        *)

\* A word in the begin of a text is in the text.
LEMMA ContainsMore ==
    ASSUME NEW a \in Seq(Piece), NEW b \in Seq(Piece), NEW s \in Seq(Piece), JB!Contains(a, s)
    PROVE  JB!Contains(a \o b, s)
<1>1. PICK i \in 1..(Len(a) + 1 - Len(s)) : SubSeq(a, i, i + Len(s) - 1) = s
    BY DEF JB!Contains
<1>2. a \o b \in Seq(Piece) /\ Len(a \o b) = Len(a) + Len(b) /\ Len(b) \in Nat /\ Len(s) \in Nat
      /\ Len(a) \in Nat
    OBVIOUS
<1> DEFINE j == i + Len(s) - 1
<1>3. i \in Nat /\ i >= 1 /\ j \in Int /\ j <= Len(a) /\ i \in 1..(Len(a \o b) + 1 - Len(s))
    BY <1>2
<1> HIDE DEF j
<1>4. SubSeq(a \o b, i, j) = SubSeq(a, i, j)
    BY <1>2, <1>3
<1> QED
    BY <1>1, <1>3, <1>4 DEF JB!Contains, j

\* The words are texts, and so is what may be behind the buffer.
LEMMA BehindIsText ==
    JB!Running \in Seq(Piece) /\ JB!Failure \in Seq(Piece) /\ JB!Behind \subseteq Seq(Piece)
<1>1. \A x \in Piece : <<x>> \in Seq(Piece)
    OBVIOUS
<1>2. \A x, y \in Piece : <<x, y>> \in Seq(Piece)
    OBVIOUS
<1>3. <<>> \in Seq(Piece)
    OBVIOUS
<1>4. "state" \in Piece /\ "running" \in Piece /\ "failure" \in Piece
    BY JenkinsReBuildAssumption
<1>5. /\ <<"running">> \in Seq(Piece) /\ <<"failure">> \in Seq(Piece)
      /\ <<"state", "running">> \in Seq(Piece) /\ <<"state", "failure">> \in Seq(Piece)
    BY <1>1, <1>2, <1>4, Zenon
<1> QED
    BY <1>3, <1>5, Zenon DEF JB!Behind, JB!Running, JB!Failure

\* What the response is made of.
LEMMA ResponseFacts ==
    ASSUME JB!TypeOK
    PROVE  /\ response.code \in Nat /\ response.body \in Seq(Piece) /\ response \in Responses
           /\ arrived \in Seq(Piece) /\ rspBody \in Seq(Piece)
           /\ Len(arrived) \in Nat /\ Len(rspBody) \in Nat /\ rspBody_cap \in Nat
BY JenkinsReBuildAssumption DEF JB!TypeOK

\* A chunk is copied behind what is there; the buffer has grown if it did not fit.
LEMMA OnRspBodyStep ==
    ASSUME JB!BodyInv, JB!OnRspBody
    PROVE  JB!BodyInv'
<1>1. /\ JB!TypeOK /\ jbDoing = "body" /\ buildStatus = "none" /\ JB!FinishedBuildOnly
      /\ httpRspCode = response.code /\ (httpRspCode = 200 => rspBody = arrived)
      /\ Len(rspBody) <= rspBody_cap
      /\ UNCHANGED <<jbDoing, response, httpRspCode, buildStatus, jbExitCode>>
    BY DEF JB!BodyInv, JB!OnRspBody
<1>2. PICK n \in (Len(arrived) + 1)..Len(response.body) :
          LET chunk == SubSeq(response.body, Len(arrived) + 1, n)
          IN  /\ arrived' = arrived \o chunk
              /\ IF httpRspCode \notin {200, 404}
                 THEN UNCHANGED <<rspBody, rspBody_cap>>
                 ELSE /\ rspBody_cap' = IF rspBody_cap - Len(rspBody) < Len(chunk)
                                        THEN rspBody_cap + Len(chunk) ELSE rspBody_cap
                      /\ rspBody' = JB!Copied(chunk)
    BY DEF JB!OnRspBody
<1> DEFINE chunk == SubSeq(response.body, Len(arrived) + 1, n)
<1>3. chunk \in Seq(Piece) /\ Len(chunk) \in Nat
    <2>1. response.body \in Seq(Piece) /\ Len(arrived) \in Nat
        BY <1>1, ResponseFacts
    <2> QED
        BY <2>1
<1>4. /\ arrived' = arrived \o chunk
      /\ \/ httpRspCode \notin {200, 404} /\ rspBody' = rspBody /\ rspBody_cap' = rspBody_cap
         \/ /\ rspBody_cap' = IF rspBody_cap - Len(rspBody) < Len(chunk)
                              THEN rspBody_cap + Len(chunk) ELSE rspBody_cap
            /\ rspBody' = rspBody \o chunk
    BY <1>2 DEF JB!Copied
<1> HIDE DEF chunk
<1>5. arrived' \in Seq(Piece) /\ rspBody' \in Seq(Piece)
    <2>1. arrived \in Seq(Piece) /\ rspBody \in Seq(Piece)
        BY <1>1, ResponseFacts
    <2>2. arrived \o chunk \in Seq(Piece) /\ rspBody \o chunk \in Seq(Piece)
        BY <1>3, <2>1
    <2> QED
        BY <1>4, <2>1, <2>2
<1>6. Len(rspBody \o chunk) = Len(rspBody) + Len(chunk)
    <2>1. rspBody \in Seq(Piece)
        BY <1>1, ResponseFacts
    <2> QED
        BY <1>3, <2>1
<1>7. rspBody_cap' \in Nat /\ Len(rspBody') <= rspBody_cap'
    <2>1. CASE rspBody' = rspBody /\ rspBody_cap' = rspBody_cap
        BY <1>1, <2>1, ResponseFacts
    <2>2. CASE /\ rspBody_cap' = IF rspBody_cap - Len(rspBody) < Len(chunk)
                                 THEN rspBody_cap + Len(chunk) ELSE rspBody_cap
               /\ rspBody' = rspBody \o chunk
        <3>1. /\ Len(rspBody') = Len(rspBody) + Len(chunk) /\ Len(chunk) \in Nat
              /\ Len(rspBody) \in Nat /\ rspBody_cap \in Nat /\ Len(rspBody) <= rspBody_cap
            BY <1>1, <1>3, <1>6, <2>2, ResponseFacts
        <3> QED
            BY <2>2, <3>1
    <2> QED
        BY <1>4, <2>1, <2>2
<1>8. httpRspCode = 200 => rspBody' = arrived'
    BY <1>1, <1>4
<1>9. JB!TypeOK'
    BY <1>1, <1>5, <1>7 DEF JB!TypeOK
<1>10. JB!FinishedBuildOnly'
    BY <1>1 DEF JB!FinishedBuildOnly
<1> QED
    BY <1>1, <1>7, <1>8, <1>9, <1>10 DEF JB!BodyInv

\* The whole response has arrived and is searched: a word that is in the body is in
\* what strstr() reads.
LEMMA OnRspDoneStatus ==
    ASSUME JB!BodyInv, JB!OnRspDone
    PROVE  JB!BodyInv'
<1>1. /\ JB!TypeOK /\ jbDoing = "body" /\ buildStatus = "none" /\ arrived = response.body
      /\ httpRspCode = response.code /\ (httpRspCode = 200 => rspBody = arrived)
      /\ Len(rspBody) <= rspBody_cap
      /\ jbDoing' \in {"over", "abort"}
      /\ UNCHANGED <<response, arrived, httpRspCode, rspBody, rspBody_cap, jbExitCode>>
    BY DEF JB!BodyInv, JB!OnRspDone
<1>2. CASE buildStatus' \in {"ENOENT", "ERROR", "none"}
    <2>1. JB!TypeOK' /\ JB!FinishedBuildOnly'
        BY <1>1, <1>2 DEF JB!TypeOK, JB!FinishedBuildOnly
    <2> QED
        BY <1>1, <2>1 DEF JB!BodyInv
<1>3. CASE httpRspCode = 200 /\ \E more \in JB!Behind : buildStatus' = JB!StatusOf(rspBody \o more)
    <2>1. PICK more \in JB!Behind : buildStatus' = JB!StatusOf(rspBody \o more)
        BY <1>3
    <2>2. more \in Seq(Piece) /\ JB!Running \in Seq(Piece) /\ JB!Failure \in Seq(Piece)
        BY BehindIsText
    <2>3. rspBody = response.body /\ rspBody \in Seq(Piece)
        BY <1>1, <1>3, ResponseFacts
    <2>4. /\ JB!Contains(response.body, JB!Running) => JB!Contains(rspBody \o more, JB!Running)
          /\ JB!Contains(response.body, JB!Failure) => JB!Contains(rspBody \o more, JB!Failure)
        BY <2>2, <2>3, ContainsMore
    <2>5. JB!TypeOK'
        BY <1>1, <2>1 DEF JB!TypeOK, JB!StatusOf
    <2>6. JB!FinishedBuildOnly'
        <3>1. /\ buildStatus' = "OK" => /\ ~JB!Contains(rspBody \o more, JB!Running)
                                        /\ ~JB!Contains(rspBody \o more, JB!Failure)
              /\ buildStatus' = "failure" => ~JB!Contains(rspBody \o more, JB!Running)
            BY <2>1 DEF JB!StatusOf
        <3> QED
            BY <1>1, <1>3, <2>4, <3>1 DEF JB!FinishedBuildOnly
    <2> QED
        BY <1>1, <2>5, <2>6 DEF JB!BodyInv
<1> QED
    BY <1>1, <1>2, <1>3 DEF JB!OnRspDone

\* Every other step leaves the buffer alone.
LEMMA BodyNext ==
    ASSUME JB!BodyInv, JB!Next
    PROVE  JB!BodyInv'
<1>1. CASE JB!Run
    BY <1>1 DEF JB!BodyInv, JB!TypeOK, JB!Run, JB!FinishedBuildOnly
<1>2. CASE JB!OnRspHdr
    <2>1. /\ JB!TypeOK /\ JB!FinishedBuildOnly /\ jbDoing = "hdr" /\ jbDoing' = "body"
          /\ httpRspCode' = response.code /\ rspBody = <<>> /\ arrived = <<>> /\ buildStatus = "none"
          /\ Len(rspBody) <= rspBody_cap
          /\ UNCHANGED <<response, arrived, rspBody, rspBody_cap, buildStatus, jbExitCode>>
        BY <1>2 DEF JB!BodyInv, JB!OnRspHdr
    <2>2. response.code \in Nat
        BY <2>1, ResponseFacts
    <2>3. JB!TypeOK' /\ JB!FinishedBuildOnly'
        BY <2>1, <2>2 DEF JB!TypeOK, JB!FinishedBuildOnly
    <2> QED
        BY <2>1, <2>3 DEF JB!BodyInv
<1>3. CASE JB!OnError
    BY <1>3 DEF JB!BodyInv, JB!TypeOK, JB!OnError, JB!FinishedBuildOnly
<1>4. CASE JB!Return
    BY <1>4 DEF JB!BodyInv, JB!TypeOK, JB!Return, JB!FinishedBuildOnly
<1>5. CASE JB!Ended
    BY <1>5 DEF JB!BodyInv, JB!TypeOK, JB!Ended, JB!jbVars, JB!FinishedBuildOnly
<1> QED
    BY <1>1, <1>2, <1>3, <1>4, <1>5, OnRspBodyStep, OnRspDoneStatus DEF JB!Next

\* It holds at the begin.
LEMMA BodyInit ==
    ASSUME JB!Init
    PROVE  JB!BodyInv
<1>1. /\ jbDoing \in {"run", "exit"} /\ jbExitCode \in {0, -1}
      /\ response \in Responses /\ arrived = <<>> /\ httpRspCode = 0 /\ rspBody = <<>>
      /\ rspBody_cap = 0 /\ buildStatus = "none"
    BY DEF JB!Init
<1>2. JB!TypeOK
    BY <1>1 DEF JB!TypeOK
<1> QED
    BY <1>1, <1>2 DEF JB!BodyInv, JB!FinishedBuildOnly

\* The invariant, while this is the tool that runs.
BodyTool == tool = "JenkinsReBuild" => JB!BodyInv

\* The invariant of JenkinsReBuild.c: the buffer of a response that is searched holds
\* everything that has arrived.
THEOREM BodyInvariant == Spec => []BodyTool
<1>1. Init => BodyTool
    BY BodyInit DEF Init, BodyTool
<1>2. BodyTool /\ [Next]_<<tool, rcVars, hlVars, hfVars, sfVars, jbVars, mlVars>> => BodyTool'
    <2> SUFFICES ASSUME BodyTool, tool' = "JenkinsReBuild",
                        [Next]_<<tool, rcVars, hlVars, hfVars, sfVars, jbVars, mlVars>>
                 PROVE  JB!BodyInv'
        BY DEF BodyTool
    <2>1. CASE Next
        <3>1. tool = "JenkinsReBuild" /\ JB!Next
            BY <2>1 DEF Next
        <3> QED
            BY <3>1, BodyNext DEF BodyTool
    <2>2. CASE UNCHANGED <<tool, rcVars, hlVars, hfVars, sfVars, jbVars, mlVars>>
        BY <2>2 DEF BodyTool, jbVars, JB!BodyInv, JB!TypeOK, JB!FinishedBuildOnly
    <2> QED
        BY <2>1, <2>2
<1> QED
    BY <1>1, <1>2, PTL DEF Spec

\* JenkinsReBuild.c: whatever the chunks of HttpReq_onRspBody() and whatever is
\* behind the buffer, OK and failure are only said of responses that say nothing else.
THEOREM OnlyFinishedBuilds == Spec => []FinishedBuildOnly
<1>1. BodyTool => FinishedBuildOnly
    BY DEF BodyTool, JB!BodyInv, FinishedBuildOnly
<1> QED
    BY <1>1, BodyInvariant, PTL

\* JenkinsReBuild.c: HttpReq_onRspBody() never copies behind the end of rspBody, as the
\* buffer grows by the length of every chunk that does not fit.
THEOREM RspBodyFits == Spec => [](tool = "JenkinsReBuild" => Len(rspBody) <= rspBody_cap)
<1>1. BodyTool => (tool = "JenkinsReBuild" => Len(rspBody) <= rspBody_cap)
    BY DEF BodyTool, JB!BodyInv
<1> QED
    BY <1>1, BodyInvariant, PTL

-----------------------------------------------------------------------------
(* HoustonLogGet.c                                                         *)

\* A set of numbers has a least one.
LEMMA FirstIsLeast ==
    ASSUME NEW S \in SUBSET Nat, S # {}
    PROVE  HL!FirstOf(S) \in S /\ \A j \in S : HL!FirstOf(S) <= j
<1> DEFINE less == {ss \in Nat \X Nat : ss[1] < ss[2]}
<1>1. IsWellFoundedOn(less, Nat)
    BY NatLessThanWellFounded DEF OpToRel
<1>2. \A x, y \in Nat : x > y => <<y, x>> \in less
    <2> SUFFICES ASSUME NEW x \in Nat, NEW y \in Nat, x > y
                 PROVE  <<y, x>> \in less
        OBVIOUS
    <2>1. <<y, x>> \in Nat \X Nat /\ <<y, x>>[1] = y /\ <<y, x>>[2] = x
        OBVIOUS
    <2> QED
        BY <2>1
<1> HIDE DEF less
<1>3. PICK x \in S : \A y \in S : ~(<<y, x>> \in less)
    BY <1>1, WFMin
<1>4. \A y \in S : x <= y
    <2> SUFFICES ASSUME NEW y \in S
                 PROVE  x <= y
        OBVIOUS
    <2>1. x \in Nat /\ y \in Nat /\ ~(<<y, x>> \in less)
        BY <1>3
    <2>2. ~(x > y)
        BY <2>1, <1>2
    <2> QED
        BY <2>1, <2>2
<1>5. \E i \in S : \A j \in S : i <= j
    BY <1>3, <1>4
<1> QED
    BY <1>5 DEF HL!FirstOf

\* A text is cut in two.
LEMMA CutInTwo ==
    ASSUME NEW S, NEW p \in Seq(S), NEW k \in 0..Len(p)
    PROVE  /\ SubSeq(p, 1, k) \in Seq(S) /\ SubSeq(p, k + 1, Len(p)) \in Seq(S)
           /\ Len(SubSeq(p, 1, k)) = k
           /\ SubSeq(p, 1, k) \o SubSeq(p, k + 1, Len(p)) = p
<1>0. /\ k \in Int /\ 1 \in Int /\ k + 1 \in Int /\ Len(p) \in Int /\ Len(p) \in 0..Len(p)
      /\ 1 \in 1..(Len(p) + 1) /\ k \in 0..Len(p) /\ 1 - 1 = 0 /\ Len(p) \in k..Len(p)
      /\ k = (IF 1 <= k THEN k - 1 + 1 ELSE 0)
    OBVIOUS
<1>1. \A i \in 1..Len(p) : p[i] \in S
    OBVIOUS
<1>2. (\A i \in 1..k : p[i] \in S) /\ (\A i \in (k + 1)..Len(p) : p[i] \in S)
    BY <1>1
<1>3. SubSeq(p, 1, k) \in Seq(S) /\ Len(SubSeq(p, 1, k)) = k
    BY <1>0, <1>2, SubSeqProperties
<1>4. SubSeq(p, k + 1, Len(p)) \in Seq(S)
    BY <1>0, <1>2, SubSeqProperties
<1>5. SubSeq(p, 1, k) \o SubSeq(p, k + 1, Len(p)) = SubSeq(p, 1, Len(p))
    BY <1>0, ConcatAdjacentSubSeq
<1> QED
    BY <1>3, <1>4, <1>5, SubSeqFull

\* Texts are joined in any order.
LEMMA JoinedTexts ==
    ASSUME NEW a \in Seq(Char), NEW b \in Seq(Char), NEW c \in Seq(Char)
    PROVE  a \o b \in Seq(Char) /\ (a \o b) \o c = a \o (b \o c)
OBVIOUS

\* The begin of a text is a prefix of it.
LEMMA BeginIsPrefix ==
    ASSUME NEW S, NEW a \in Seq(S), NEW b \in Seq(S)
    PROVE  HL!IsPrefix(a, a \o b)
<1>1. Len(a) <= Len(a \o b)
    OBVIOUS
<1>2. SubSeq(a, 1, Len(a)) = SubSeq(a \o b, 1, Len(a))
    OBVIOUS
<1> QED
    BY <1>1, <1>2 DEF HL!IsPrefix

\* What the constants and the variables are made of.
LEMMA LogGetFacts ==
    ASSUME HL!TypeOK
    PROVE  /\ listing \in Seq(Char) /\ Archive \in Seq(Char) /\ Prefix \in Seq(Char) /\ Prefix # <<>>
           /\ Len(Prefix) \in Nat /\ Len(Prefix) >= 1
           /\ \A i \in 1..Len(Prefix) : Prefix[i] # "sp"
           /\ \A i, j \in 1..Len(listing) :
                 (i <= j /\ listing[j] = "lf" /\ (i = 1 \/ listing[i - 1] = "lf")) =>
                     \E k \in i..j : listing[k] = "sp"
<1>1. listing \in Listings
    BY DEF HL!TypeOK
<1>2. /\ listing \in Seq(Char) /\ Archive \in Seq(Char) /\ Prefix \in Seq(Char) /\ Prefix # <<>>
      /\ \A i \in DOMAIN Prefix : Prefix[i] # "sp"
      /\ \A i, j \in DOMAIN listing :
            (i <= j /\ listing[j] = "lf" /\ (i = 1 \/ listing[i - 1] = "lf")) =>
                \E k \in i..j : listing[k] = "sp"
    BY <1>1, HoustonLogGetAssumption
<1>3. DOMAIN Prefix = 1..Len(Prefix) /\ DOMAIN listing = 1..Len(listing)
    BY <1>2
<1>4. Len(Prefix) \in Nat /\ Len(Prefix) >= 1
    BY <1>2
<1> QED
    BY <1>2, <1>3, <1>4

\* The name found in the buffer, up to the first blank, is the first word of a line
\* of the listing, and begins with the prefix.
LEMMA NameIsWord ==
    ASSUME HL!TypeOK, getPodsBuf \o printed = listing, HL!Houstons # {},
           HL!SpacesFrom(HL!FirstOf(HL!Houstons)) # {}
    PROVE  LET off == HL!FirstOf(HL!Houstons)
               len == HL!FirstOf(HL!SpacesFrom(off)) - off
           IN  /\ SubSeq(getPodsBuf, off, off + len - 1) \in HL!Words
               /\ HL!IsPrefix(Prefix, SubSeq(getPodsBuf, off, off + len - 1))
               /\ SubSeq(getPodsBuf, off, off + len - 1) \in Seq(Char)
<1> DEFINE B == getPodsBuf
           off == HL!FirstOf(HL!Houstons)
           j == HL!FirstOf(HL!SpacesFrom(off))
           np == Len(Prefix)
<1>1. /\ B \in Seq(Char) /\ printed \in Seq(Char) /\ listing \in Seq(Char) /\ Prefix \in Seq(Char)
      /\ Len(B) \in Nat /\ Len(listing) \in Nat /\ np \in Nat /\ np >= 1
    BY LogGetFacts DEF HL!TypeOK
<1>2. Len(B) <= Len(listing) /\ \A i \in 1..Len(B) : listing[i] = B[i]
    BY <1>1
<1>3. off \in 1..Len(B) /\ HL!IsHouston(off)
    <2>1. HL!Houstons \in SUBSET Nat
        BY <1>1 DEF HL!Houstons, HL!Buf
    <2>2. off \in HL!Houstons
        BY <2>1, FirstIsLeast
    <2> QED
        BY <2>2 DEF HL!Houstons, HL!Buf
<1>4. /\ off = 1 \/ (B[off - 1] = "lf" /\ off - 1 \in 1..Len(B))
      /\ off + np + 1 <= Len(B)
      /\ SubSeq(B, off, off + np - 1) = Prefix
    <2>1. /\ off = 1 \/ B[off - 1] = "lf"
          /\ off + np + 1 <= Len(B)
          /\ SubSeq(B, off, off + np - 1) = Prefix
        BY <1>3 DEF HL!IsHouston, HL!Buf, HL!LF
    <2> HIDE DEF off, B
    <2>2. off = 1 \/ off - 1 \in 1..Len(B)
        BY <1>1, <1>3
    <2> QED
        BY <2>1, <2>2
<1>5. j \in off..Len(B) /\ B[j] = "sp" /\ \A m \in off..Len(B) : B[m] = "sp" => j <= m
    <2>1. HL!SpacesFrom(off) \in SUBSET Nat
        BY <1>1, <1>3 DEF HL!SpacesFrom, HL!Buf
    <2>2. j \in HL!SpacesFrom(off) /\ \A m \in HL!SpacesFrom(off) : j <= m
        BY <2>1, FirstIsLeast
    <2> QED
        BY <2>2 DEF HL!SpacesFrom, HL!Buf, HL!SP
<1> HIDE DEF off, j, np, B
<1>6. off \in Nat /\ off >= 1 /\ j \in Nat /\ j <= Len(B) /\ off <= j
    BY <1>1, <1>3, <1>5
\* The prefix has no blank.
<1>7. j >= off + np
    <2> SUFFICES ASSUME j < off + np
                 PROVE  FALSE
        BY <1>1, <1>6
    <2>1. j - off + 1 \in 1..np
        BY <1>1, <1>6
    <2>2. SubSeq(B, off, off + np - 1)[j - off + 1] = B[j]
        BY <1>1, <1>4, <1>6
    <2>3. Prefix[j - off + 1] # "sp"
        BY <2>1, LogGetFacts DEF np
    <2> QED
        BY <1>4, <1>5, <2>2, <2>3
\* There is a blank before the end of the line.
<1>8. ASSUME NEW m \in off..(j - 1)
      PROVE  listing[m] \notin {"sp", "lf"}
    <2>1. m \in 1..Len(B) /\ m \in off..Len(B) /\ m < j /\ listing[m] = B[m]
        BY <1>2, <1>6
    <2>2. listing[m] # "sp"
        BY <1>5, <1>6, <2>1
    <2>3. ASSUME listing[m] = "lf"
          PROVE  FALSE
        <3>1. off \in 1..Len(listing) /\ m \in 1..Len(listing) /\ off <= m
            BY <1>1, <1>2, <1>6, <2>1
        <3>2. off = 1 \/ listing[off - 1] = "lf"
            BY <1>2, <1>4
        <3>3. PICK k \in off..m : listing[k] = "sp"
            BY <2>3, <3>1, <3>2, LogGetFacts
        <3>4. k \in 1..Len(B) /\ k \in off..Len(B) /\ k < j
            BY <1>1, <1>6, <2>1
        <3> QED
            BY <1>2, <1>5, <1>6, <3>3, <3>4
    <2> QED
        BY <2>2, <2>3
<1> DEFINE w == <<off, j - 1>>
<1>9. /\ w \in (1..Len(listing)) \X (1..Len(listing)) /\ w[1] = off /\ w[2] = j - 1
    BY <1>1, <1>2, <1>6, <1>7
<1>10. /\ w[1] <= w[2]
       /\ w[1] = 1 \/ listing[w[1] - 1] = "lf"
       /\ \A m \in w[1]..w[2] : listing[m] \notin {"sp", "lf"}
       /\ w[2] < Len(listing) => listing[w[2] + 1] \in {"sp", "lf"}
    <2>1. off <= j - 1 /\ (j - 1) + 1 = j
        BY <1>1, <1>6, <1>7
    <2>2. off = 1 \/ listing[off - 1] = "lf"
        BY <1>2, <1>4
    <2>3. listing[j] = "sp"
        BY <1>2, <1>5, <1>6
    <2> QED
        BY <1>8, <1>9, <2>1, <2>2, <2>3
<1> HIDE DEF w
<1>11. SubSeq(listing, off, j - 1) \in HL!Words
    BY <1>9, <1>10 DEF HL!Words, HL!SP, HL!LF
<1>12. SubSeq(B, off, j - 1) = SubSeq(listing, off, j - 1) /\ SubSeq(B, off, j - 1) \in Seq(Char)
    <2> DEFINE a == SubSeq(B, off, j - 1)
               b == SubSeq(listing, off, j - 1)
    <2>0. /\ off \in Nat /\ off >= 1 /\ j \in Nat /\ off <= j - 1 /\ j - 1 <= Len(B)
          /\ Len(B) \in Nat /\ j - 1 <= Len(listing) /\ Len(listing) \in Nat
        BY <1>1, <1>2, <1>6, <1>7
    <2>1. a \in Seq(Char) /\ Len(a) = j - off /\ \A i \in 1..(j - off) : a[i] = B[off + i - 1]
        BY <1>1, <2>0
    <2>2. b \in Seq(Char) /\ Len(b) = j - off /\ \A i \in 1..(j - off) : b[i] = listing[off + i - 1]
        BY <1>1, <2>0
    <2> HIDE DEF a, b
    <2>3. \A i \in 1..(j - off) : off + i - 1 \in 1..Len(B)
        BY <2>0
    <2>4. \A i \in 1..(j - off) : a[i] = b[i]
        BY <1>2, <2>1, <2>2, <2>3
    <2>5. a = b
        BY <2>1, <2>2, <2>4
    <2> QED
        BY <2>1, <2>5 DEF a, b
<1>13. HL!IsPrefix(Prefix, SubSeq(B, off, j - 1))
    <2> DEFINE name == SubSeq(B, off, j - 1)
    <2>1. name \in Seq(Char) /\ Len(name) = j - off
        BY <1>1, <1>6, <1>7
    <2>2. np <= Len(name)
        BY <1>1, <1>6, <1>7, <2>1
    <2>3. SubSeq(name, 1, np) = SubSeq(B, off, off + np - 1)
        BY <1>1, <1>6, <1>7
    <2>4. SubSeq(Prefix, 1, np) = Prefix
        BY <1>1 DEF np
    <2> HIDE DEF name
    <2>5. HL!IsPrefix(Prefix, name)
        BY <1>4, <2>2, <2>3, <2>4 DEF HL!IsPrefix, np
    <2> QED
        BY <2>5 DEF name
<1>14. off + (j - off) - 1 = j - 1
    BY <1>6
<1> QED
    BY <1>11, <1>12, <1>13, <1>14 DEF off, j, B

\* The name is judged by the listing alone.
LEMMA NameKept ==
    ASSUME HL!PodNameIsComplete, UNCHANGED <<podName, listing>>
    PROVE  HL!PodNameIsComplete'
<1>1. podName' = podName /\ listing' = listing
    OBVIOUS
<1> QED
    BY <1>1 DEF HL!PodNameIsComplete, HL!Words

\* The first child.
LEMMA ListingSteps ==
    ASSUME HL!LogGetInv, HL!GetHoustonPodname \/ HL!AppendToGetPodsBuf
    PROVE  HL!LogGetInv'
<1>1. /\ HL!TypeOK /\ HL!ListingKept /\ HL!ArchiveKept /\ HL!PodNameIsComplete /\ HL!ArchiveHasNoGap
      /\ stage \in HL!BeforePods
      /\ UNCHANGED <<podName, exitCode, outfileFd, outfile, unflushed, listing>>
    BY DEF HL!LogGetInv, HL!GetHoustonPodname, HL!AppendToGetPodsBuf, HL!BeforePods, HL!fileVars
<1>2. /\ stage' \in {"getPods", "abort", "overrun"} /\ child' \in BOOLEAN
      /\ printed' \in Seq(Char) /\ getPodsBuf' \in Seq(Char) /\ getPodsBuf_cap' \in Nat
      /\ stage' \in HL!BeforePods => getPodsBuf' \o printed' = listing
    <2>1. CASE HL!GetHoustonPodname
        BY <1>1, <2>1 DEF HL!GetHoustonPodname, HL!TypeOK, HL!ListingKept
    <2>2. CASE HL!AppendToGetPodsBuf
        <3>1. child' \in BOOLEAN /\ stage = "getPods"
            BY <1>1, <2>2 DEF HL!AppendToGetPodsBuf, HL!TypeOK
        <3>2. PICK k \in 1..Len(printed) :
                \/ /\ getPodsBuf' = getPodsBuf \o SubSeq(printed, 1, k)
                   /\ getPodsBuf_cap' \in {getPodsBuf_cap, getPodsBuf_cap + BufGrowth}
                   /\ printed' = SubSeq(printed, k + 1, Len(printed))
                   /\ UNCHANGED stage
                \/ /\ stage' \in {"abort", "overrun"}
                   /\ UNCHANGED <<printed, getPodsBuf, getPodsBuf_cap>>
            BY <2>2 DEF HL!AppendToGetPodsBuf
        <3>3. getPodsBuf_cap' \in Nat
            BY <1>1, <3>2, HoustonLogGetAssumption DEF HL!TypeOK
        <3>4. CASE stage' \in {"abort", "overrun"} /\ UNCHANGED <<printed, getPodsBuf>>
            BY <1>1, <3>1, <3>3, <3>4 DEF HL!TypeOK, HL!BeforePods
        <3>5. CASE /\ getPodsBuf' = getPodsBuf \o SubSeq(printed, 1, k)
                   /\ printed' = SubSeq(printed, k + 1, Len(printed))
                   /\ UNCHANGED stage
            <4> DEFINE b == SubSeq(printed, 1, k)
                       c == SubSeq(printed, k + 1, Len(printed))
            <4>1. printed \in Seq(Char) /\ getPodsBuf \in Seq(Char) /\ getPodsBuf \o printed = listing
                BY <1>1 DEF HL!TypeOK, HL!ListingKept
            <4>2. k \in 0..Len(printed)
                BY <4>1
            <4>3. b \in Seq(Char) /\ c \in Seq(Char) /\ b \o c = printed
                BY <4>1, <4>2, CutInTwo
            <4>4. getPodsBuf' = getPodsBuf \o b /\ printed' = c
                BY <3>5
            <4> HIDE DEF b, c
            <4>5. getPodsBuf \o b \in Seq(Char) /\ (getPodsBuf \o b) \o c = getPodsBuf \o (b \o c)
                BY <4>1, <4>3, JoinedTexts
            <4>6. getPodsBuf' \in Seq(Char) /\ printed' \in Seq(Char) /\ getPodsBuf' \o printed' = listing
                BY <4>1, <4>3, <4>4, <4>5
            <4> QED
                BY <3>1, <3>3, <3>5, <4>6
        <3> QED
            BY <3>2, <3>4, <3>5
    <2> QED
        BY <2>1, <2>2
<1>3. outfile = HL!NotOpen /\ unflushed = <<>> /\ ~outfileFd /\ exitCode = 0 /\ podName = <<>>
    BY <1>1 DEF HL!ArchiveKept, HL!ListingKept
<1>4. HL!TypeOK'
    BY <1>1, <1>2 DEF HL!TypeOK, HL!NotOpen, HL!BeforePods
<1>5. HL!ListingKept' /\ HL!ArchiveKept' /\ HL!ArchiveHasNoGap'
    BY <1>1, <1>2, <1>3 DEF HL!ListingKept, HL!ArchiveKept, HL!ArchiveHasNoGap, HL!NotOpen, HL!BeforePods
<1> QED
    BY <1>1, <1>4, <1>5, NameKept DEF HL!LogGetInv

\* The first child is over: the name is searched in what has arrived of the listing.
LEMMA OnGetPodsJoinedStep ==
    ASSUME HL!LogGetInv, HL!OnGetPodsJoined
    PROVE  HL!LogGetInv'
<1> DEFINE off == HL!FirstOf(HL!Houstons)
           len == HL!FirstOf(HL!SpacesFrom(off)) - off
           name == SubSeq(getPodsBuf, off, off + len - 1)
<1>1. /\ HL!TypeOK /\ HL!ListingKept /\ HL!ArchiveKept /\ HL!PodNameIsComplete /\ HL!ArchiveHasNoGap
      /\ stage = "getPods" /\ child' = FALSE
      /\ UNCHANGED <<getPodsBuf, getPodsBuf_cap, outfileFd, outfile, unflushed, listing>>
    BY DEF HL!LogGetInv, HL!OnGetPodsJoined, HL!fileVars
<1>2. /\ outfile = HL!NotOpen /\ unflushed = <<>> /\ ~outfileFd /\ exitCode = 0 /\ podName = <<>>
      /\ getPodsBuf \o printed = listing
    BY <1>1 DEF HL!ArchiveKept, HL!ListingKept, HL!BeforePods
<1>3. \/ stage' \in {"end", "abort"} /\ exitCode' \in {0, -1} /\ UNCHANGED <<podName, printed>>
      \/ /\ HL!Houstons # {} /\ HL!SpacesFrom(off) # {}
         /\ podName' = name /\ stage' = "beginZipDownload" /\ printed' = Archive /\ exitCode' = exitCode
    BY <1>1, <1>2 DEF HL!OnGetPodsJoined, HL!Buf
<1> HIDE DEF off, len, name
<1>4. CASE stage' \in {"end", "abort"} /\ exitCode' \in {0, -1} /\ UNCHANGED <<podName, printed>>
    <2>1. HL!TypeOK'
        BY <1>1, <1>4 DEF HL!TypeOK, HL!NotOpen, HL!BeforePods
    <2>2. HL!ListingKept' /\ HL!ArchiveKept' /\ HL!ArchiveHasNoGap'
        BY <1>1, <1>2, <1>4 DEF HL!ListingKept, HL!ArchiveKept, HL!ArchiveHasNoGap, HL!NotOpen, HL!BeforePods
    <2> QED
        BY <1>1, <1>4, <2>1, <2>2, NameKept DEF HL!LogGetInv
<1>5. CASE /\ HL!Houstons # {} /\ HL!SpacesFrom(off) # {}
           /\ podName' = name /\ stage' = "beginZipDownload" /\ printed' = Archive /\ exitCode' = exitCode
    <2>1. name \in HL!Words /\ HL!IsPrefix(Prefix, name) /\ name \in Seq(Char)
        BY <1>1, <1>2, <1>5, NameIsWord DEF off, len, name
    <2>2. HL!Words' = HL!Words
        BY <1>1 DEF HL!Words
    <2>3. HL!PodNameIsComplete'
        BY <1>5, <2>1, <2>2 DEF HL!PodNameIsComplete
    <2>4. Archive \in Seq(Char)
        BY HoustonLogGetAssumption
    <2>5. HL!TypeOK'
        BY <1>1, <1>5, <2>1, <2>4 DEF HL!TypeOK, HL!NotOpen, HL!BeforePods
    <2>6. HL!ListingKept' /\ HL!ArchiveKept' /\ HL!ArchiveHasNoGap'
        BY <1>1, <1>2, <1>5 DEF HL!ListingKept, HL!ArchiveKept, HL!ArchiveHasNoGap, HL!NotOpen, HL!BeforePods
    <2> QED
        BY <2>3, <2>5, <2>6 DEF HL!LogGetInv
<1> QED
    BY <1>3, <1>4, <1>5

\* While nothing has failed, what stdio has and what is still to come make the archive.
LEMMA OpenedFacts ==
    ASSUME HL!TypeOK, HL!ArchiveKept, stage = "zip", exitCode = 0
    PROVE  /\ HL!Opened \in Seq(Char) /\ unflushed \in Seq(Char) /\ printed \in Seq(Char)
           /\ (HL!Opened \o unflushed) \o printed = Archive
<1>1. unflushed \in Seq(Char) /\ printed \in Seq(Char)
    BY DEF HL!TypeOK
<1>2. CASE outfileFd
    BY <1>1, <1>2 DEF HL!ArchiveKept, HL!Opened
<1>3. CASE ~outfileFd
    <2>1. HL!Opened = <<>> /\ unflushed = <<>> /\ printed = Archive /\ Archive \in Seq(Char)
        BY <1>3, HoustonLogGetAssumption DEF HL!ArchiveKept, HL!Opened
    <2> QED
        BY <2>1
<1> QED
    BY <1>2, <1>3

\* What stdio does with what it has taken: the file holds the begin of it.
LEMMA StoredFacts ==
    ASSUME NEW all \in Seq(Char), NEW taken \in 0..Len(all), HL!Opened \in Seq(Char), HL!Stored(all, taken)
    PROVE  /\ outfile' \in Seq(Char) /\ unflushed' \in Seq(Char)
           /\ outfile' \o unflushed' = SubSeq(all, 1, taken)
<1>1. PICK n \in Len(HL!Opened)..taken : outfile' = SubSeq(all, 1, n) /\ unflushed' = SubSeq(all, n + 1, taken)
    BY DEF HL!Stored
<1>2. Len(HL!Opened) \in Nat /\ Len(all) \in Nat
    OBVIOUS
<1>3. n \in Nat /\ n <= taken /\ taken <= Len(all) /\ taken \in Nat
    BY <1>1, <1>2
<1>4. SubSeq(all, 1, n) \in Seq(Char) /\ SubSeq(all, n + 1, taken) \in Seq(Char)
    <2>1. /\ \A i \in 1..n : all[i] \in Char
          /\ \A i \in (n + 1)..taken : all[i] \in Char
        BY <1>3
    <2>2. 1 \in Int /\ n \in Int /\ n + 1 \in Int /\ taken \in Int
        BY <1>3
    <2> QED
        BY <2>1, <2>2, SubSeqProperties
<1>5. SubSeq(all, 1, n) \o SubSeq(all, n + 1, taken) = SubSeq(all, 1, taken)
    <2>1. 1 \in 1..(Len(all) + 1) /\ n \in (1 - 1)..Len(all) /\ taken \in n..Len(all)
        BY <1>2, <1>3
    <2> QED
        BY <2>1, ConcatAdjacentSubSeq
<1> QED
    BY <1>1, <1>4, <1>5

\* A begin of a begin.
LEMMA BeginOfBegin ==
    ASSUME NEW a \in Seq(Char), NEW b \in Seq(Char), NEW n \in 0..Len(a)
    PROVE  HL!IsPrefix(SubSeq(a, 1, n), a \o b)
<1> DEFINE x == SubSeq(a, 1, n)
           y == SubSeq(a, n + 1, Len(a))
<1>1. x \in Seq(Char) /\ y \in Seq(Char) /\ x \o y = a
    BY CutInTwo
<1> HIDE DEF x, y
<1>2. y \o b \in Seq(Char) /\ (x \o y) \o b = x \o (y \o b)
    <2>1. x \in Seq(Char) /\ y \in Seq(Char) /\ b \in Seq(Char)
        BY <1>1
    <2> QED
        BY <2>1, JoinedTexts
<1>3. HL!IsPrefix(x, x \o (y \o b))
    BY <1>1, <1>2, BeginIsPrefix
<1> QED
    BY <1>1, <1>2, <1>3 DEF x

\* A chunk of the archive, written in whole, in part or not at all.
LEMMA AppendToCurrentOutfileStep ==
    ASSUME HL!LogGetInv, HL!AppendToCurrentOutfile
    PROVE  HL!LogGetInv'
<1>1. /\ HL!TypeOK /\ HL!ListingKept /\ HL!ArchiveKept /\ HL!PodNameIsComplete /\ HL!ArchiveHasNoGap
      /\ stage = "zip" /\ UNCHANGED <<stage, child, getPodsBuf, getPodsBuf_cap, podName, listing>>
    BY DEF HL!LogGetInv, HL!AppendToCurrentOutfile
<1> DEFINE chunk(k) == SubSeq(printed, 1, k)
           rest(k) == SubSeq(printed, k + 1, Len(printed))
           all(k) == (HL!Opened \o unflushed) \o chunk(k)
<1>2. PICK k \in 1..Len(printed) :
        /\ printed' = rest(k)
        /\ \/ /\ exitCode = 0 /\ HL!Stored(all(k), Len(all(k))) /\ outfileFd' = TRUE /\ exitCode' = exitCode
           \/ /\ exitCode = 0 /\ ~outfileFd /\ exitCode' = -1 /\ UNCHANGED <<outfileFd, outfile, unflushed>>
           \/ /\ exitCode = 0 /\ exitCode' = -1 /\ outfileFd' = TRUE
              /\ \E taken \in Len(HL!Opened)..Len(all(k)) : HL!Stored(all(k), taken)
           \/ /\ exitCode # 0 /\ UNCHANGED <<exitCode, outfileFd, outfile, unflushed>>
    BY DEF HL!AppendToCurrentOutfile, HL!fileVars
<1>3. printed \in Seq(Char) /\ k \in Nat /\ k \in 0..Len(printed)
    BY <1>1 DEF HL!TypeOK
<1>4. chunk(k) \in Seq(Char) /\ rest(k) \in Seq(Char) /\ chunk(k) \o rest(k) = printed
    BY <1>3, CutInTwo
<1> HIDE DEF chunk, rest, all
<1>5. HL!ListingKept' /\ HL!PodNameIsComplete'
    BY <1>1, NameKept DEF HL!ListingKept, HL!BeforePods
<1>6. /\ HL!TypeOK' <=> /\ outfileFd' \in BOOLEAN /\ outfile' \in Seq(Char) \cup {HL!NotOpen}
                        /\ unflushed' \in Seq(Char) /\ exitCode' \in {0, -1}
      /\ HL!ArchiveKept' <=>
            /\ outfileFd' => outfile' \in Seq(Char) /\ HL!IsPrefix(outfile' \o unflushed', Archive)
            /\ exitCode' = 0 =>
                  \/ outfileFd' /\ (outfile' \o unflushed') \o printed' = Archive
                  \/ ~outfileFd' /\ outfile' = HL!NotOpen /\ unflushed' = <<>> /\ printed' = Archive
    BY <1>1, <1>2, <1>4 DEF HL!TypeOK, HL!ArchiveKept, HL!NotOpen, HL!BeforePods
<1>7. exitCode = 0 =>
        /\ HL!Opened \in Seq(Char) /\ all(k) \in Seq(Char) /\ Len(HL!Opened) \in Nat
        /\ all(k) \o rest(k) = Archive
    <2> SUFFICES ASSUME exitCode = 0
                 PROVE  /\ HL!Opened \in Seq(Char) /\ all(k) \in Seq(Char) /\ Len(HL!Opened) \in Nat
                        /\ all(k) \o rest(k) = Archive
        OBVIOUS
    <2> DEFINE held == HL!Opened \o unflushed
    <2>1. HL!Opened \in Seq(Char) /\ unflushed \in Seq(Char) /\ held \o printed = Archive
        BY <1>1, OpenedFacts
    <2>2. held \in Seq(Char) /\ Len(HL!Opened) \in Nat
        BY <2>1, JoinedTexts
    <2>3. all(k) = held \o chunk(k)
        BY DEF all
    <2> HIDE DEF held
    <2>4. held \o chunk(k) \in Seq(Char) /\ (held \o chunk(k)) \o rest(k) = held \o (chunk(k) \o rest(k))
        BY <1>4, <2>2, JoinedTexts
    <2> QED
        BY <1>4, <2>1, <2>2, <2>3, <2>4
<1>8. CASE exitCode = 0 /\ HL!Stored(all(k), Len(all(k))) /\ outfileFd' = TRUE /\ exitCode' = exitCode
    <2>1. Len(all(k)) \in 0..Len(all(k)) /\ SubSeq(all(k), 1, Len(all(k))) = all(k)
        BY <1>7, <1>8, SubSeqFull
    <2>2. outfile' \in Seq(Char) /\ unflushed' \in Seq(Char) /\ outfile' \o unflushed' = all(k)
        BY <1>7, <1>8, <2>1, StoredFacts
    <2>3. HL!IsPrefix(all(k), Archive)
        BY <1>4, <1>7, <1>8, BeginIsPrefix
    <2>4. (outfile' \o unflushed') \o printed' = Archive /\ HL!IsPrefix(outfile' \o unflushed', Archive)
        BY <1>2, <1>7, <1>8, <2>2, <2>3
    <2>5. HL!TypeOK' /\ HL!ArchiveKept' /\ HL!ArchiveHasNoGap'
        BY <1>6, <1>8, <2>2, <2>4 DEF HL!ArchiveHasNoGap
    <2> QED
        BY <1>5, <2>5 DEF HL!LogGetInv
<1>9. CASE exitCode = 0 /\ ~outfileFd /\ exitCode' = -1 /\ UNCHANGED <<outfileFd, outfile, unflushed>>
    <2>1. outfile = HL!NotOpen
        BY <1>1, <1>9 DEF HL!ArchiveKept
    <2>2. HL!ArchiveHasNoGap'
        BY <1>9, <2>1 DEF HL!ArchiveHasNoGap, HL!NotOpen
    <2>3. HL!TypeOK' /\ HL!ArchiveKept'
        BY <1>1, <1>6, <1>9, <2>1 DEF HL!TypeOK
    <2> QED
        BY <1>5, <2>2, <2>3 DEF HL!LogGetInv
<1>10. CASE /\ exitCode = 0 /\ exitCode' = -1 /\ outfileFd' = TRUE
            /\ \E taken \in Len(HL!Opened)..Len(all(k)) : HL!Stored(all(k), taken)
    <2>1. PICK taken \in Len(HL!Opened)..Len(all(k)) : HL!Stored(all(k), taken)
        BY <1>10
    <2>2. taken \in 0..Len(all(k))
        BY <1>7, <1>10
    <2>3. /\ outfile' \in Seq(Char) /\ unflushed' \in Seq(Char)
          /\ outfile' \o unflushed' = SubSeq(all(k), 1, taken)
        BY <1>7, <1>10, <2>1, <2>2, StoredFacts
    <2>4. HL!IsPrefix(outfile' \o unflushed', Archive)
        BY <1>4, <1>7, <1>10, <2>2, <2>3, BeginOfBegin
    <2>5. HL!TypeOK' /\ HL!ArchiveKept' /\ HL!ArchiveHasNoGap'
        BY <1>6, <1>10, <2>3, <2>4 DEF HL!ArchiveHasNoGap
    <2> QED
        BY <1>5, <2>5 DEF HL!LogGetInv
<1>11. CASE exitCode # 0 /\ UNCHANGED <<exitCode, outfileFd, outfile, unflushed>>
    <2>1. HL!ArchiveHasNoGap'
        BY <1>1, <1>11 DEF HL!ArchiveHasNoGap
    <2>2. HL!TypeOK' /\ HL!ArchiveKept'
        BY <1>1, <1>6, <1>11 DEF HL!TypeOK, HL!ArchiveKept
    <2> QED
        BY <1>5, <2>1, <2>2 DEF HL!LogGetInv
<1> QED
    BY <1>2, <1>8, <1>9, <1>10, <1>11

\* The second child is over: stdio writes what it still can.
LEMMA OnZipDownloadJoinedStep ==
    ASSUME HL!LogGetInv, HL!OnZipDownloadJoined
    PROVE  HL!LogGetInv'
<1>1. /\ HL!TypeOK /\ HL!ListingKept /\ HL!ArchiveKept /\ HL!PodNameIsComplete /\ HL!ArchiveHasNoGap
      /\ stage = "zip" /\ stage' = "end" /\ outfileFd' = FALSE
      /\ UNCHANGED <<child, printed, getPodsBuf, getPodsBuf_cap, podName, exitCode, listing>>
    BY DEF HL!LogGetInv, HL!OnZipDownloadJoined
<1>2. /\ outfile' \in Seq(Char) \cup {HL!NotOpen} /\ unflushed' \in Seq(Char) /\ HL!ArchiveHasNoGap'
    <2>1. CASE ~outfileFd
        <3>1. UNCHANGED <<outfile, unflushed>>
            BY <2>1 DEF HL!OnZipDownloadJoined
        <3> QED
            BY <1>1, <3>1 DEF HL!TypeOK, HL!ArchiveHasNoGap
    <2>2. CASE outfileFd
        <3> DEFINE all == outfile \o unflushed
        <3>1. /\ outfile \in Seq(Char) /\ unflushed \in Seq(Char) /\ HL!IsPrefix(all, Archive)
              /\ HL!Stored(all, Len(all)) /\ HL!Opened = outfile
            BY <1>1, <2>2 DEF HL!OnZipDownloadJoined, HL!TypeOK, HL!ArchiveKept, HL!Opened
        <3>2. exitCode = 0 => all \o printed = Archive
            BY <1>1, <2>2 DEF HL!ArchiveKept
        <3>3. all \in Seq(Char)
            BY <3>1, JoinedTexts
        <3> HIDE DEF all
        <3>4. Len(all) \in 0..Len(all) /\ SubSeq(all, 1, Len(all)) = all
            BY <3>3, SubSeqFull
        <3>5. outfile' \in Seq(Char) /\ unflushed' \in Seq(Char) /\ outfile' \o unflushed' = all
            BY <3>1, <3>3, <3>4, StoredFacts
        <3> QED
            BY <1>1, <3>1, <3>2, <3>5 DEF HL!ArchiveHasNoGap
    <2> QED
        BY <2>1, <2>2
<1>3. HL!TypeOK' /\ HL!ListingKept' /\ HL!ArchiveKept'
    BY <1>1, <1>2 DEF HL!TypeOK, HL!ListingKept, HL!ArchiveKept, HL!NotOpen, HL!BeforePods
<1> QED
    BY <1>1, <1>2, <1>3, NameKept DEF HL!LogGetInv

\* The second child starts, is over, or the process is.
LEMMA LogGetNext ==
    ASSUME HL!LogGetInv, HL!Next
    PROVE  HL!LogGetInv'
<1>1. HL!TypeOK /\ HL!ListingKept /\ HL!ArchiveKept /\ HL!PodNameIsComplete /\ HL!ArchiveHasNoGap
    BY DEF HL!LogGetInv
<1>2. CASE HL!BeginZipDownload
    <2>1. /\ stage = "beginZipDownload" /\ stage' \in {"zip", "abort"} /\ child' = TRUE
          /\ UNCHANGED <<printed, getPodsBuf, getPodsBuf_cap, podName, exitCode, outfileFd, outfile,
                         unflushed, listing>>
        BY <1>2 DEF HL!BeginZipDownload, HL!fileVars
    <2>2. HL!TypeOK' /\ HL!ListingKept' /\ HL!ArchiveKept' /\ HL!ArchiveHasNoGap'
        BY <1>1, <2>1 DEF HL!TypeOK, HL!ListingKept, HL!ArchiveKept, HL!ArchiveHasNoGap, HL!NotOpen, HL!BeforePods
    <2> QED
        BY <1>1, <2>1, <2>2, NameKept DEF HL!LogGetInv
<1>3. CASE HL!Ended
    <2>1. UNCHANGED <<stage, child, printed, getPodsBuf, getPodsBuf_cap, podName, exitCode, outfileFd,
                      outfile, unflushed, listing>>
        BY <1>3 DEF HL!Ended, HL!hlVars
    <2>2. HL!TypeOK' /\ HL!ListingKept' /\ HL!ArchiveKept' /\ HL!ArchiveHasNoGap'
        BY <1>1, <2>1 DEF HL!TypeOK, HL!ListingKept, HL!ArchiveKept, HL!ArchiveHasNoGap, HL!NotOpen, HL!BeforePods
    <2> QED
        BY <1>1, <2>1, <2>2, NameKept DEF HL!LogGetInv
<1> QED
    BY <1>2, <1>3, ListingSteps, OnGetPodsJoinedStep, AppendToCurrentOutfileStep, OnZipDownloadJoinedStep
       DEF HL!Next

\* It holds at the begin.
LEMMA LogGetInit ==
    ASSUME HL!Init
    PROVE  HL!LogGetInv
<1>1. /\ stage = "getHoustonPodname" /\ child = FALSE /\ listing \in Listings /\ printed = listing
      /\ getPodsBuf = <<>> /\ getPodsBuf_cap = 0 /\ podName = <<>> /\ exitCode = 0
      /\ outfileFd = FALSE /\ outfile = HL!NotOpen /\ unflushed = <<>>
    BY DEF HL!Init
<1>2. listing \in Seq(Char)
    BY <1>1, HoustonLogGetAssumption
<1>3. getPodsBuf \o printed = listing /\ getPodsBuf \in Seq(Char)
    BY <1>1, <1>2
<1>4. HL!TypeOK
    BY <1>1, <1>2, <1>3 DEF HL!TypeOK, HL!BeforePods
<1> QED
    BY <1>1, <1>3, <1>4 DEF HL!LogGetInv, HL!ListingKept, HL!ArchiveKept, HL!BeforePods,
       HL!PodNameIsComplete, HL!ArchiveHasNoGap

\* The invariant, while this is the tool that runs.
LogGetTool == tool = "HoustonLogGet" => HL!LogGetInv

\* The invariant of HoustonLogGet.c: nothing of what a child has printed is lost on its
\* way to the buffer or to the file.
THEOREM LogGetInvariant == Spec => []LogGetTool
<1>1. Init => LogGetTool
    BY LogGetInit DEF Init, LogGetTool
<1>2. LogGetTool /\ [Next]_<<tool, rcVars, hlVars, hfVars, sfVars, jbVars, mlVars>> => LogGetTool'
    <2> SUFFICES ASSUME LogGetTool, tool' = "HoustonLogGet",
                        [Next]_<<tool, rcVars, hlVars, hfVars, sfVars, jbVars, mlVars>>
                 PROVE  HL!LogGetInv'
        BY DEF LogGetTool
    <2>1. CASE Next
        <3>1. tool = "HoustonLogGet" /\ HL!Next
            BY <2>1 DEF Next
        <3> QED
            BY <3>1, LogGetNext DEF LogGetTool
    <2>2. CASE UNCHANGED <<tool, rcVars, hlVars, hfVars, sfVars, jbVars, mlVars>>
        <3>1. HL!LogGetInv
            BY <2>2 DEF LogGetTool
        <3>2. UNCHANGED <<stage, child, printed, getPodsBuf, getPodsBuf_cap, podName, exitCode, outfileFd, outfile,
                       unflushed, listing>>
            BY <2>2 DEF hlVars
        <3>3. HL!TypeOK' /\ HL!ListingKept' /\ HL!ArchiveKept' /\ HL!ArchiveHasNoGap'
            BY <3>1, <3>2 DEF HL!LogGetInv, HL!TypeOK, HL!ListingKept, HL!ArchiveKept, HL!ArchiveHasNoGap,
               HL!NotOpen, HL!BeforePods
        <3> QED
            BY <3>1, <3>2, <3>3, NameKept DEF HL!LogGetInv
    <2> QED
        BY <2>1, <2>2
<1> QED
    BY <1>1, <1>2, PTL DEF Spec

\* HoustonLogGet.c: however the listing is cut into chunks, and wherever the timeout of
\* join() cuts it off, the name that is used is the whole name of a pod.
THEOREM WholePodName == Spec => []PodNameIsComplete
<1>1. LogGetTool => PodNameIsComplete
    BY DEF LogGetTool, HL!LogGetInv, PodNameIsComplete
<1> QED
    BY <1>1, LogGetInvariant, PTL

\* HoustonLogGet.c: the file holds a begin of the archive whatever fails, and with an
\* exit code of zero only what had not arrived and what fclose() lost is missing.
THEOREM FileHasNoGap == Spec => []ArchiveHasNoGap
<1>1. LogGetTool => ArchiveHasNoGap
    BY DEF LogGetTool, HL!LogGetInv, ArchiveHasNoGap
<1> QED
    BY <1>1, LogGetInvariant, PTL

-----------------------------------------------------------------------------
(* resclone.js                                                             *)

Requested == {"queued", "open", "stuck"}

\* What the assumption says of the tree on the server.
LEMMA TreeFacts ==
    ASSUME RC!TypeOK
    PROVE  /\ IsFiniteSet(Node) /\ 1 \in Node
           /\ \A n \in Node : RC!ToSet(remote.kids[n]) \subseteq Node \ {1}
           /\ \A n, m \in Node : \A c \in RC!ToSet(remote.kids[n]) :
                 c \in RC!ToSet(remote.kids[m]) => m = n
<1>1. remote \in Trees
    BY DEF RC!TypeOK
<1>2. /\ remote.kids \in [Node -> Seq(Node)]
      /\ \A n \in Node : \A i \in DOMAIN remote.kids[n] :
            /\ remote.kids[n][i] # 1
            /\ \A m \in Node : \A k \in DOMAIN remote.kids[m] :
                  remote.kids[m][k] = remote.kids[n][i] => m = n
    BY <1>1, ResCloneAssumption
<1>3. ASSUME NEW n \in Node
      PROVE  RC!ToSet(remote.kids[n]) \subseteq Node \ {1}
    <2>1. remote.kids[n] \in Seq(Node)
        BY <1>2
    <2>2. \A i \in DOMAIN remote.kids[n] : remote.kids[n][i] \in Node
        BY <2>1
    <2> QED
        BY <1>2, <2>2 DEF RC!ToSet
<1>4. ASSUME NEW n \in Node, NEW m \in Node, NEW c \in RC!ToSet(remote.kids[n]),
             c \in RC!ToSet(remote.kids[m])
      PROVE  m = n
    BY <1>2, <1>4 DEF RC!ToSet
<1> QED
    BY <1>3, <1>4, ResCloneAssumption

\* The request of one collection goes on: it is pending before and after.
LEMMA RequestGoesOn ==
    ASSUME RC!FetchInv, turn = "idle", NEW n \in Node, NEW s \in Requested, request[n] \in Requested,
           request' = [request EXCEPT ![n] = s],
           UNCHANGED <<turn, remote, childNodes, numPendingCollectionRequests>>
    PROVE  RC!FetchInv'
<1>1. /\ RC!TypeOK /\ RC!RequestedByParent /\ RC!ListedWithChildren
      /\ numPendingCollectionRequests = RC!Cardinality(RC!Pending)
    BY DEF RC!FetchInv
<1>2. RC!TypeOK'
    BY <1>1 DEF RC!TypeOK, Requested
<1>3. /\ DOMAIN request = Node
      /\ \A m \in Node : request'[m] = IF m = n THEN s ELSE request[m]
    BY <1>1 DEF RC!TypeOK
<1>4. /\ \A m \in Node : request'[m] = "none" <=> request[m] = "none"
      /\ \A m \in Node : request'[m] = "done" <=> request[m] = "done"
      /\ \A m \in Node : request'[m] \in Requested <=> request[m] \in Requested
    BY <1>3 DEF Requested
<1>5. RC!Pending' = RC!Pending
    BY <1>4 DEF RC!Pending, Requested
<1>6. RC!RequestedByParent'
    BY <1>1, <1>4, TreeFacts DEF RC!RequestedByParent, RC!Root
<1>7. RC!ListedWithChildren'
    BY <1>1, <1>4, TreeFacts DEF RC!ListedWithChildren, RC!Collections
<1> QED
    BY <1>1, <1>2, <1>5, <1>6, <1>7 DEF RC!FetchInv

\* A listing is complete: its children have not been requested before, so the counter
\* follows the set of the pending requests.
LEMMA ListingEnds ==
    ASSUME RC!FetchInv, NEW n \in Node, RC!OnCollectionResponseEnd(n)
    PROVE  RC!FetchInv'
<1> DEFINE C == RC!Collections(RC!ToSet(remote.kids[n]))
<1>1. /\ RC!TypeOK /\ RC!RequestedByParent /\ RC!ListedWithChildren
      /\ numPendingCollectionRequests = RC!Cardinality(RC!Pending)
      /\ turn = "idle" /\ request[n] = "open"
      /\ remote' = remote
      /\ childNodes' = [childNodes EXCEPT ![n] = remote.kids[n]]
      /\ request' = [RC!Fetching(C) EXCEPT ![n] = "done"]
      /\ numPendingCollectionRequests' = RC!PendingAfter(C)
      /\ turn' \in {"idle", "pack", "crashed"}
      /\ turn' = "pack" => RC!PendingAfter(C) = 0
    BY DEF RC!FetchInv, RC!OnCollectionResponseEnd, RC!PackResourcesIntoTar, RC!argVars, RC!packVars
<1>2. C \subseteq Node \ {1}
    BY <1>1, TreeFacts DEF RC!Collections
<1>3. \A c \in C : request[c] = "none"
    <2> SUFFICES ASSUME NEW c \in C, request[c] # "none"
                 PROVE  FALSE
        OBVIOUS
    <2>1. c \in Node \ {1} /\ c \in RC!ToSet(remote.kids[n])
        BY <1>2 DEF RC!Collections
    <2>2. PICK p \in Node : request[p] = "done" /\ c \in RC!ToSet(remote.kids[p])
        BY <1>1, <2>1 DEF RC!RequestedByParent, RC!Root
    <2>3. p = n
        BY <1>1, <2>1, <2>2, TreeFacts
    <2> QED
        BY <1>1, <2>2, <2>3
<1>4. n \notin C
    BY <1>1, <1>3
<1> HIDE DEF C
<1>5. /\ DOMAIN request' = Node
      /\ \A m \in Node : request'[m] = IF m = n THEN "done" ELSE IF m \in C THEN "queued" ELSE request[m]
    BY <1>1 DEF RC!Fetching
<1>6. RC!TypeOK'
    BY <1>1, <1>5 DEF RC!TypeOK, RC!Fetching
<1>7. /\ \A m \in Node : request[m] # "none" => request'[m] # "none"
      /\ \A m \in Node : request'[m] = "done" <=> (m = n \/ request[m] = "done")
      /\ \A m \in Node : request'[m] # "none" => m = n \/ m \in C \/ request[m] # "none"
    BY <1>3, <1>5
<1>8. RC!RequestedByParent'
    <2>1. turn' # "start" /\ request'[1] # "none"
        BY <1>1, <1>7, TreeFacts DEF RC!RequestedByParent, RC!Root
    <2>2. ASSUME NEW m \in Node \ {1}, request'[m] # "none"
          PROVE  \E p \in Node : request'[p] = "done" /\ m \in RC!ToSet(remote'.kids[p])
        <3>1. CASE m \in C
            <4>1. m \in RC!ToSet(remote'.kids[n])
                BY <1>1, <3>1 DEF C, RC!Collections
            <4> QED
                BY <1>7, <4>1
        <3>2. CASE request[m] # "none"
            <4>1. PICK p \in Node : request[p] = "done" /\ m \in RC!ToSet(remote.kids[p])
                BY <1>1, <3>2 DEF RC!RequestedByParent, RC!Root
            <4> QED
                BY <1>1, <1>7, <4>1
        <3> QED
            BY <1>1, <1>7, <2>2, <3>1, <3>2
    <2> QED
        BY <2>1, <2>2 DEF RC!RequestedByParent, RC!Root
<1>9. RC!ListedWithChildren'
    <2> SUFFICES ASSUME NEW m \in Node, request'[m] = "done"
                 PROVE  /\ childNodes'[m] = remote.kids[m]
                        /\ \A c \in RC!Collections(RC!ToSet(remote.kids[m])) : request'[c] # "none"
        BY <1>1 DEF RC!ListedWithChildren, RC!Collections
    <2>1. RC!Collections(RC!ToSet(remote.kids[m])) \subseteq Node
        BY <1>1, TreeFacts DEF RC!Collections
    <2>2. CASE m = n
        <3>1. childNodes'[m] = remote.kids[m]
            BY <1>1, <2>2 DEF RC!TypeOK
        <3>2. \A c \in C : request'[c] # "none"
            BY <1>2, <1>5
        <3> QED
            BY <2>2, <3>1, <3>2 DEF C
    <2>3. CASE m # n
        <3>1. request[m] = "done"
            BY <1>7, <2>3
        <3>2. childNodes'[m] = childNodes[m]
            BY <1>1, <2>3 DEF RC!TypeOK
        <3> QED
            BY <1>1, <1>7, <2>1, <3>1, <3>2 DEF RC!ListedWithChildren
    <2> QED
        BY <2>2, <2>3
<1>10. RC!Pending' = (RC!Pending \ {n}) \cup C /\ n \in RC!Pending /\ RC!Pending \cap C = {}
    BY <1>1, <1>2, <1>3, <1>4, <1>5 DEF RC!Pending
<1>11. /\ IsFiniteSet(RC!Pending) /\ IsFiniteSet(RC!Pending \ {n}) /\ IsFiniteSet(C) /\ IsFiniteSet(RC!Pending')
       /\ Cardinality(RC!Pending) \in Nat /\ Cardinality(C) \in Nat
       /\ Cardinality(RC!Pending') = Cardinality(RC!Pending) - 1 + Cardinality(C)
    <2>1. IsFiniteSet(Node)
        BY <1>1, TreeFacts
    <2>2. RC!Pending \subseteq Node /\ RC!Pending \ {n} \subseteq Node /\ C \subseteq Node
        BY <1>2 DEF RC!Pending
    <2>3. IsFiniteSet(RC!Pending) /\ IsFiniteSet(RC!Pending \ {n}) /\ IsFiniteSet(C)
        BY <2>1, <2>2, FS_Subset
    <2>4. Cardinality(RC!Pending) \in Nat /\ Cardinality(C) \in Nat /\ Cardinality(RC!Pending \ {n}) \in Nat
        BY <2>3, FS_CardinalityType
    <2>5. Cardinality(RC!Pending \ {n}) = Cardinality(RC!Pending) - 1
        BY <1>10, <2>3, FS_RemoveElement
    <2>6. (RC!Pending \ {n}) \cap C = {}
        BY <1>10
    <2>7. /\ IsFiniteSet((RC!Pending \ {n}) \cup C)
          /\ Cardinality((RC!Pending \ {n}) \cup C) = Cardinality(RC!Pending \ {n}) + Cardinality(C)
        <3>1. /\ IsFiniteSet((RC!Pending \ {n}) \cup C)
              /\ Cardinality((RC!Pending \ {n}) \cup C)
                    = Cardinality(RC!Pending \ {n}) + Cardinality(C) - Cardinality((RC!Pending \ {n}) \cap C)
            BY <2>3, FS_Union
        <3>2. Cardinality((RC!Pending \ {n}) \cap C) = 0
            BY <2>6, FS_EmptySet
        <3> QED
            BY <2>4, <3>1, <3>2
    <2> QED
        BY <1>10, <2>3, <2>4, <2>5, <2>7
<1>12. RC!PendingAfter(C) = Cardinality(RC!Pending')
    <2>1. RC!PendingAfter(C) = Cardinality(RC!Pending) + Cardinality(C) - 1
        BY <1>1, SameCardinality DEF RC!PendingAfter
    <2> QED
        BY <1>11, <2>1
<1>13. turn' = "pack" => RC!Pending' = {}
    BY <1>1, <1>11, <1>12, FS_EmptySet
<1> QED
    BY <1>1, <1>6, <1>8, <1>9, <1>12, <1>13, SameCardinality DEF RC!FetchInv

\* Steps that only leave the state of the download: an exception, the traversal.
LEMMA DownloadKept ==
    ASSUME RC!FetchInv, turn # "start",
           turn' = turn \/ turn' = "crashed",
           UNCHANGED <<remote, request, childNodes, numPendingCollectionRequests>>
    PROVE  RC!FetchInv'
<1>1. RC!TypeOK' /\ RC!RequestedByParent' /\ RC!ListedWithChildren' /\ RC!Pending' = RC!Pending
    BY DEF RC!FetchInv, RC!TypeOK, RC!RequestedByParent, RC!ListedWithChildren, RC!Collections, RC!Pending
<1> QED
    BY <1>1 DEF RC!FetchInv

\* Every step of resclone.js.
LEMMA FetchNext ==
    ASSUME RC!FetchInv, RC!Next
    PROVE  RC!FetchInv'
<1>1. CASE RC!Run
    <2>1. /\ RC!TypeOK /\ RC!RequestedByParent /\ turn = "start" /\ turn' = "idle" /\ remote' = remote
          /\ request' = RC!Fetching({1}) /\ numPendingCollectionRequests' = 1 /\ childNodes' = childNodes
        BY <1>1 DEF RC!FetchInv, RC!Run, RC!argVars, RC!Root
    <2>2. \A m \in Node : request[m] = "none"
        BY <2>1 DEF RC!RequestedByParent
    <2>3. /\ request' \in [Node -> {"none", "queued", "open", "stuck", "done"}]
          /\ \A m \in Node : request'[m] = IF m = 1 THEN "queued" ELSE "none"
        BY <2>1, <2>2 DEF RC!Fetching
    <2>4. RC!TypeOK' /\ RC!RequestedByParent' /\ RC!ListedWithChildren'
        BY <2>1, <2>3, TreeFacts DEF RC!TypeOK, RC!RequestedByParent, RC!ListedWithChildren, RC!Root
    <2>5. RC!Pending' = {1}
        BY <2>1, <2>3, TreeFacts DEF RC!Pending
    <2>6. RC!Cardinality(RC!Pending') = 1
        BY <2>5, FS_Singleton, SameCardinality
    <2> QED
        BY <2>1, <2>4, <2>6 DEF RC!FetchInv
<1>2. ASSUME NEW n \in Node, RC!Connect(n) \/ RC!OnCollectionResponseHdr(n)
      PROVE  RC!FetchInv'
    <2>1. PICK s \in Requested :
            /\ turn = "idle" /\ request[n] \in Requested /\ request' = [request EXCEPT ![n] = s]
            /\ UNCHANGED <<turn, remote, childNodes, numPendingCollectionRequests>>
        BY <1>2 DEF RC!Connect, RC!OnCollectionResponseHdr, RC!argVars, Requested
    <2> QED
        BY <2>1, RequestGoesOn
<1>3. ASSUME NEW n \in Node, RC!Throws(n)
      PROVE  RC!FetchInv'
    BY <1>3, DownloadKept DEF RC!Throws, RC!argVars, RC!fetchVars
<1>4. CASE RC!PublishLeaf \/ RC!PublishPreOrder \/ RC!PushChild \/ RC!PublishPostOrder \/ RC!LoopEnds
    <2>1. /\ turn = "pack" /\ (turn' = turn \/ turn' = "crashed")
          /\ UNCHANGED <<remote, request, childNodes, numPendingCollectionRequests>>
        BY <1>4 DEF RC!PublishLeaf, RC!WriteHdr, RC!PublishPreOrder, RC!PushChild, RC!PublishPostOrder,
           RC!LoopEnds, RC!argVars, RC!fetchVars
    <2> QED
        BY <2>1, DownloadKept
<1>5. CASE RC!Ended
    BY <1>5, DownloadKept DEF RC!Ended, RC!rcVars
<1> QED
    BY <1>1, <1>2, <1>3, <1>4, <1>5, ListingEnds DEF RC!Next

\* It holds at the begin.
LEMMA FetchInit ==
    ASSUME RC!Init
    PROVE  RC!FetchInv
<1>1. /\ turn = "start" /\ remote \in Trees /\ request = [n \in Node |-> "none"]
      /\ DOMAIN childNodes = Node /\ numPendingCollectionRequests = 0
    BY DEF RC!Init
<1>2. RC!TypeOK /\ RC!RequestedByParent /\ RC!ListedWithChildren
    BY <1>1 DEF RC!TypeOK, RC!RequestedByParent, RC!ListedWithChildren
<1>3. RC!Pending = {}
    BY <1>1 DEF RC!Pending
<1> QED
    BY <1>1, <1>2, <1>3, FS_EmptySet, SameCardinality DEF RC!FetchInv

\* The invariant, while this is the tool that runs.
FetchTool == tool = "ResClone" => RC!FetchInv

\* The invariant of resclone.js: the counter is the number of requests without a
\* listing, and every request but the first was made by the listing above it.
THEOREM FetchInvariant == Spec => []FetchTool
<1>1. Init => FetchTool
    BY FetchInit DEF Init, FetchTool
<1>2. FetchTool /\ [Next]_<<tool, rcVars, hlVars, hfVars, sfVars, jbVars, mlVars>> => FetchTool'
    <2> SUFFICES ASSUME FetchTool, tool' = "ResClone",
                        [Next]_<<tool, rcVars, hlVars, hfVars, sfVars, jbVars, mlVars>>
                 PROVE  RC!FetchInv'
        BY DEF FetchTool
    <2>1. CASE Next
        <3>1. tool = "ResClone" /\ RC!Next
            BY <2>1 DEF Next
        <3> QED
            BY <3>1, FetchNext DEF FetchTool
    <2>2. CASE UNCHANGED <<tool, rcVars, hlVars, hfVars, sfVars, jbVars, mlVars>>
        <3>1. RC!FetchInv /\ UNCHANGED <<turn, remote, request, childNodes, numPendingCollectionRequests>>
            BY <2>2 DEF FetchTool, rcVars
        <3> QED
            BY <3>1 DEF RC!FetchInv, RC!TypeOK, RC!RequestedByParent, RC!ListedWithChildren, RC!Collections, RC!Pending
    <2> QED
        BY <2>1, <2>2
<1> QED
    BY <1>1, <1>2, PTL DEF Spec

\* resclone.js: whatever the tree and the order of the responses, the traversal starts
\* only when every collection below the root is listed.
THEOREM CompleteTreeIsPacked == Spec => []PacksCompleteTree
<1>1. FetchTool => PacksCompleteTree
    <2> SUFFICES ASSUME RC!FetchInv, turn = "pack"
                 PROVE  RC!PacksCompleteTree
        BY DEF FetchTool, PacksCompleteTree, RC!PacksCompleteTree
    <2>1. /\ RC!TypeOK /\ RC!RequestedByParent /\ RC!ListedWithChildren
          /\ \A n \in Node : request[n] \notin Requested
        BY DEF RC!FetchInv, RC!Pending, Requested
    <2>2. \A n \in Node : request[n] # "none" => request[n] = "done"
        BY <2>1 DEF RC!TypeOK, Requested
    <2>3. request[1] = "done"
        BY <2>1, <2>2, TreeFacts DEF RC!RequestedByParent, RC!Root
    <2>4. ASSUME NEW n \in Node, request[n] # "none"
          PROVE  /\ request[n] = "done" /\ childNodes[n] = remote.kids[n]
                 /\ \A c \in RC!Collections(RC!ToSet(childNodes[n])) : request[c] = "done"
        <3>1. /\ request[n] = "done" /\ childNodes[n] = remote.kids[n]
              /\ \A c \in RC!Collections(RC!ToSet(remote.kids[n])) : request[c] # "none"
            BY <2>1, <2>2, <2>4 DEF RC!ListedWithChildren
        <3>2. RC!Collections(RC!ToSet(remote.kids[n])) \subseteq Node
            BY <2>1, TreeFacts DEF RC!Collections
        <3> QED
            BY <2>2, <3>1, <3>2
    <2> QED
        BY <2>3, <2>4 DEF RC!PacksCompleteTree, RC!Root
<1> QED
    BY <1>1, FetchInvariant, PTL

-----------------------------------------------------------------------------
(* SendAfterFin.c                                                          *)

\* The places of a connection while the server runs.
LEMMA PlaceOf ==
    ASSUME SF!TypeOK, SF!Accepted, NEW c \in Client
    PROVE  SF!Place(c) \in SF!Serving \cup {"backlog", "none"}
BY DEF SF!TypeOK, SF!Accepted, SF!Place

\* A connection of which nothing changes still fits.
LEMMA FitsKept ==
    ASSUME NEW c \in Client, SF!Fits(c), SF!Place(c)' = SF!Place(c),
           client'[c] = client[c], clientSock'[c] = clientSock[c], unread'[c] = unread[c],
           toServer'[c] = toServer[c], toClient'[c] = toClient[c], inbox'[c] = inbox[c]
    PROVE  SF!Fits(c)'
BY DEF SF!Fits, SF!SocketFits, SF!BeforeA, SF!BeforeC, SF!BeforeEof, SF!Quiet, SF!SentNothing, SF!SentA,
       SF!SentFin, SF!SentBoth, SF!Link

\* What is behind the begin of a sequence is in it.
LEMMA TailInside ==
    ASSUME NEW S, NEW s \in Seq(S), s # <<>>, NEW i \in DOMAIN Tail(s)
    PROVE  i + 1 \in DOMAIN s /\ Tail(s)[i] = s[i + 1]
OBVIOUS

\* Sequences of one and of two segments.
LEMMA ShortTexts ==
    /\ \A x : Append(<<>>, x) = <<x>> /\ Tail(<<x>>) = <<>> /\ Head(<<x>>) = x /\ <<x>> # <<>>
    /\ \A x : \A i \in DOMAIN <<x>> : <<x>>[i] = x
    /\ \A x, y : Append(<<x>>, y) = <<x, y>> /\ Tail(<<x, y>>) = <<y>> /\ Head(<<x, y>>) = x /\ <<x, y>> # <<>>
<1>1. \A x : Append(<<>>, x) = <<x>> /\ Tail(<<x>>) = <<>> /\ Head(<<x>>) = x /\ <<x>> # <<>>
    OBVIOUS
<1>2. \A x : \A i \in DOMAIN <<x>> : <<x>>[i] = x
    OBVIOUS
<1>3. ASSUME NEW x, NEW y
      PROVE  Append(<<x>>, y) = <<x, y>>
    <2>1. <<x>> \in Seq({x, y}) /\ Len(<<x>>) = 1 /\ <<x>>[1] = x
        OBVIOUS
    <2>2. <<x, y>> \in Seq({x, y}) /\ Len(<<x, y>>) = 2 /\ <<x, y>>[1] = x /\ <<x, y>>[2] = y
        OBVIOUS
    <2> DEFINE a == Append(<<x>>, y)
    <2>3. a \in Seq({x, y}) /\ Len(a) = 2 /\ a[1] = x /\ a[2] = y
        BY <2>1, AppendProperties
    <2> HIDE DEF a
    <2>4. \A i \in 1..Len(a) : a[i] = <<x, y>>[i]
        BY <2>2, <2>3
    <2>5. a = <<x, y>>
        BY <2>2, <2>3, <2>4, SeqEqual
    <2> QED
        BY <2>5 DEF a
<1>4. \A x, y : Tail(<<x, y>>) = <<y>> /\ Head(<<x, y>>) = x /\ <<x, y>> # <<>>
    OBVIOUS
<1> QED
    BY <1>1, <1>2, <1>3, <1>4

\* A step of one connection, or of the server that keeps its verdict.
LEMMA VerdictKept ==
    ASSUME SF!RequestInv, SF!TypeOK', SF!Accepted',
           server \in SF!ServerEnded => server' = server,
           server' \in {"aborted", "returned"} => server' = server,
           \A d \in Client : client[d] \in SF!Killed => client'[d] = client[d],
           \A d \in Client : \A i \in DOMAIN inbox'[d].octets : inbox'[d].octets[i] # "B",
           server' \notin SF!ServerEnded => \A d \in Client : SF!Fits(d)'
    PROVE  SF!RequestInv'
<1>1. SF!OnlyRequestArrives
    BY DEF SF!RequestInv
<1>2. server' = "aborted" => \E d \in Client : client'[d] = "killed before A"
    BY <1>1 DEF SF!OnlyRequestArrives, SF!Killed
<1>3. server' = "returned" => \E d \in Client : client'[d] = "killed before FIN"
    BY <1>1 DEF SF!OnlyRequestArrives, SF!Killed
<1>4. (\E d \in Client : client'[d] = "aborted") => server' \in SF!ServerEnded
    BY DEF SF!Fits
<1>5. SF!OnlyRequestArrives'
    BY <1>2, <1>3, <1>4 DEF SF!OnlyRequestArrives, SF!ServerEnded
<1> QED
    BY <1>5 DEF SF!RequestInv, SF!ServerEnded

\* A step of one connection that leaves the server alone.
LEMMA OneConnection ==
    ASSUME SF!RequestInv, SF!TypeOK', NEW c \in Client, UNCHANGED <<server, sockRemote, backlog>>,
           \A d \in Client \ {c} :
              /\ client'[d] = client[d] /\ clientSock'[d] = clientSock[d] /\ unread'[d] = unread[d]
              /\ toServer'[d] = toServer[d] /\ toClient'[d] = toClient[d] /\ inbox'[d] = inbox[d],
           client[c] \in SF!Killed => client'[c] = client[c],
           \A i \in DOMAIN inbox'[c].octets : inbox'[c].octets[i] # "B",
           server \notin SF!ServerEnded => SF!Fits(c)'
    PROVE  SF!RequestInv'
<1>1. /\ SF!TypeOK /\ SF!Accepted /\ SF!OnlyRequestArrives
      /\ server \notin SF!ServerEnded => \A d \in Client : SF!Fits(d)
    BY DEF SF!RequestInv
<1>2. SF!Accepted'
    BY <1>1 DEF SF!Accepted, SF!ServerEnded, SF!Serving, SF!NoClient
<1>3. \A d \in Client : SF!Place(d)' = SF!Place(d)
    BY DEF SF!Place
<1>4. ASSUME server' \notin SF!ServerEnded, NEW d \in Client
      PROVE  SF!Fits(d)'
    <2>1. CASE d = c
        BY <1>4, <2>1
    <2>2. CASE d # c
        <3>1. d \in Client \ {c}
            BY <2>2
        <3>2. SF!Fits(d)
            BY <1>1, <1>4 DEF SF!ServerEnded
        <3> QED
            BY <1>3, <3>1, <3>2, FitsKept
    <2> QED
        BY <2>1, <2>2
<1>5. ASSUME NEW d \in Client
      PROVE  \A i \in DOMAIN inbox'[d].octets : inbox'[d].octets[i] # "B"
    <2>1. CASE d = c
        BY <2>1
    <2>2. CASE d # c
        <3>1. inbox'[d] = inbox[d]
            BY <2>2
        <3> QED
            BY <1>1, <3>1 DEF SF!OnlyRequestArrives
    <2> QED
        BY <2>1, <2>2
<1>6. \A d \in Client : client[d] \in SF!Killed => client'[d] = client[d]
    OBVIOUS
<1>7. server' = server
    OBVIOUS
<1> QED
    BY <1>1, <1>2, <1>4, <1>5, <1>6, <1>7, VerdictKept

\* The calls a client may be about to make, or how it has ended.
Calls == SF!Idle \cup SF!Closing \cup {"send A", "shutdown", "killed before A", "aborted"}

\* A client puts a segment on the wire.
LEMMA PutsType ==
    ASSUME SF!TypeOK, NEW c \in Client, NEW seg \in {"A", "B", "FIN"}, NEW sock \in {"open", "shutWr"},
           NEW call \in {"shutdown", "send B", "aborted"}, SF!Puts(c, seg, sock, call),
           UNCHANGED <<server, sockRemote, backlog, unread, toClient, inbox>>
    PROVE  SF!TypeOK'
<1>1. toServer' \in [Client -> Seq(SF!Segment)]
    <2>1. toServer \in [Client -> Seq(SF!Segment)] /\ toServer[c] \in Seq(SF!Segment) /\ seg \in SF!Segment
        BY DEF SF!TypeOK, SF!Segment
    <2>2. Append(toServer[c], seg) \in Seq(SF!Segment)
        BY <2>1, AppendProperties
    <2> QED
        BY <2>1, <2>2 DEF SF!Puts
<1>2. clientSock' \in [Client -> {"none", "open", "shutWr", "reset", "closed"}]
    BY DEF SF!TypeOK, SF!Puts
<1>3. client' \in [Client -> Calls]
    BY DEF SF!TypeOK, SF!Puts, SF!Goto, Calls, SF!Closing
<1> QED
    BY <1>1, <1>2, <1>3 DEF SF!TypeOK, Calls

\* A client ends.
LEMMA ClientEndsType ==
    ASSUME SF!TypeOK, NEW c \in Client, NEW how \in Calls, SF!ClientEnds(c, how),
           UNCHANGED <<server, sockRemote, backlog, unread, toClient, inbox>>
    PROVE  SF!TypeOK'
<1>1. toServer' \in [Client -> Seq(SF!Segment)]
    <2>1. toServer \in [Client -> Seq(SF!Segment)] /\ toServer[c] \in Seq(SF!Segment)
        BY DEF SF!TypeOK
    <2>2. <<"RST">> \in Seq(SF!Segment) /\ <<"FIN">> \in Seq(SF!Segment) /\ <<>> \in Seq(SF!Segment)
        <3>1. "RST" \in SF!Segment /\ "FIN" \in SF!Segment
            BY DEF SF!Segment
        <3> QED
            BY <3>1
    <2>3. PICK s \in Seq(SF!Segment) : toServer' = [toServer EXCEPT ![c] = toServer[c] \o s]
        BY <2>2, Zenon DEF SF!ClientEnds
    <2>4. toServer[c] \o s \in Seq(SF!Segment)
        BY <2>1
    <2> QED
        BY <2>1, <2>3, <2>4
<1>2. clientSock' \in [Client -> {"none", "open", "shutWr", "reset", "closed"}]
    BY DEF SF!TypeOK, SF!ClientEnds
<1>3. client' \in [Client -> Calls]
    BY DEF SF!TypeOK, SF!ClientEnds, SF!Goto, Calls
<1> QED
    BY <1>1, <1>2, <1>3 DEF SF!TypeOK, Calls

\* A client that has closed its direction fits if the server's next call finds what it
\* expects.
LEMMA AfterShutdown ==
    ASSUME NEW c \in Client, SF!SocketFits(c)', client'[c] \in SF!Closing,
           \/ SF!Place(c)' \in {"backlog", "recv A"} /\ SF!BeforeA(c)'
           \/ SF!Place(c)' = "send C" /\ SF!BeforeC(c)'
           \/ SF!Place(c)' = "recv EOF" /\ SF!BeforeEof(c)'
    PROVE  SF!Fits(c)'
<1>1. client'[c] # "aborted" /\ client'[c] \notin SF!Idle
    BY DEF SF!Closing, SF!Idle
<1> QED
    BY <1>1 DEF SF!Fits

\* What the invariant says of a client while the server runs, and of the inboxes.
LEMMA RequestFacts ==
    ASSUME SF!RequestInv, NEW c \in Client
    PROVE  /\ SF!TypeOK /\ SF!Accepted
           /\ server \notin SF!ServerEnded => SF!Fits(c)
           /\ \A i \in DOMAIN inbox[c].octets : inbox[c].octets[i] # "B"
           /\ SF!Place(c) \in SF!Serving \cup {"backlog", "none"}
BY PlaceOf DEF SF!RequestInv, SF!OnlyRequestArrives

\* A client sends 'A'.
LEMMA SendAStep ==
    ASSUME SF!RequestInv, NEW c \in Client, SF!SendA(c)
    PROVE  SF!RequestInv'
<1>1. /\ client[c] = "send A" /\ UNCHANGED <<server, sockRemote, backlog, unread, toClient, inbox>>
      /\ IF clientSock[c] = "open" THEN SF!Puts(c, "A", "open", "shutdown") ELSE SF!ClientEnds(c, "aborted")
    BY DEF SF!SendA
<1>2. /\ SF!TypeOK /\ SF!Accepted /\ (server \notin SF!ServerEnded => SF!Fits(c))
      /\ \A i \in DOMAIN inbox'[c].octets : inbox'[c].octets[i] # "B"
      /\ SF!Place(c) \in SF!Serving \cup {"backlog", "none"}
    BY <1>1, RequestFacts
<1>3. SF!TypeOK'
    <2>1. CASE SF!Puts(c, "A", "open", "shutdown")
        BY <1>1, <1>2, <2>1, PutsType
    <2>2. CASE SF!ClientEnds(c, "aborted")
        BY <1>1, <1>2, <2>2, ClientEndsType DEF Calls
    <2> QED
        BY <1>1, <2>1, <2>2
<1>4. /\ client[c] \notin SF!Killed
      /\ \A d \in Client \ {c} :
            /\ client'[d] = client[d] /\ clientSock'[d] = clientSock[d] /\ unread'[d] = unread[d]
            /\ toServer'[d] = toServer[d] /\ toClient'[d] = toClient[d] /\ inbox'[d] = inbox[d]
    BY <1>1, <1>2 DEF SF!TypeOK, SF!Puts, SF!ClientEnds, SF!Goto, SF!Killed
<1>5. ASSUME server \notin SF!ServerEnded
      PROVE  SF!Fits(c)'
    <2>1. SF!Fits(c) /\ clientSock[c] = "open"
        BY <1>1, <1>2, <1>5 DEF SF!Fits, SF!SocketFits
    <2>2. /\ client'[c] = "shutdown" /\ clientSock'[c] = "open" /\ toServer'[c] = Append(toServer[c], "A")
          /\ toClient'[c] = toClient[c] /\ unread'[c] = unread[c] /\ inbox'[c] = inbox[c]
          /\ SF!Place(c)' = SF!Place(c)
        BY <1>1, <1>2, <2>1 DEF SF!TypeOK, SF!Puts, SF!Goto, SF!Place
    <2>3. SF!Place(c) \in {"backlog", "recv A"}
        BY <1>1, <1>2, <2>1 DEF SF!Fits, SF!Idle, SF!Closing, SF!Serving, SF!BeforeC, SF!BeforeEof
    <2>4. SF!Quiet(c) /\ SF!SentNothing(c)
        BY <1>1, <2>1, <2>3 DEF SF!Fits, SF!BeforeA, SF!Closing
    <2>5. SF!Quiet(c)' /\ SF!SentA(c)'
        BY <2>2, <2>4 DEF SF!Quiet, SF!SentA, SF!SentNothing, SF!Link
    <2>6. SF!SocketFits(c)'
        BY <2>1, <2>2 DEF SF!Fits, SF!SocketFits
    <2> QED
        BY <2>2, <2>3, <2>5, <2>6 DEF SF!Fits, SF!BeforeA, SF!Idle
<1> QED
    BY <1>1, <1>2, <1>3, <1>4, <1>5, OneConnection

\* A client closes its direction.
LEMMA ShutdownStep ==
    ASSUME SF!RequestInv, NEW c \in Client, SF!Shutdown(c)
    PROVE  SF!RequestInv'
<1>1. /\ client[c] = "shutdown" /\ UNCHANGED <<server, sockRemote, backlog, unread, toClient, inbox>>
      /\ IF clientSock[c] = "open" THEN SF!Puts(c, "FIN", "shutWr", "send B") ELSE SF!ClientEnds(c, "aborted")
    BY DEF SF!Shutdown
<1>2. /\ SF!TypeOK /\ SF!Accepted /\ (server \notin SF!ServerEnded => SF!Fits(c))
      /\ \A i \in DOMAIN inbox'[c].octets : inbox'[c].octets[i] # "B"
      /\ SF!Place(c) \in SF!Serving \cup {"backlog", "none"}
    BY <1>1, RequestFacts
<1>3. SF!TypeOK'
    <2>1. CASE SF!Puts(c, "FIN", "shutWr", "send B")
        BY <1>1, <1>2, <2>1, PutsType
    <2>2. CASE SF!ClientEnds(c, "aborted")
        BY <1>1, <1>2, <2>2, ClientEndsType DEF Calls
    <2> QED
        BY <1>1, <2>1, <2>2
<1>4. /\ client[c] \notin SF!Killed
      /\ \A d \in Client \ {c} :
            /\ client'[d] = client[d] /\ clientSock'[d] = clientSock[d] /\ unread'[d] = unread[d]
            /\ toServer'[d] = toServer[d] /\ toClient'[d] = toClient[d] /\ inbox'[d] = inbox[d]
    BY <1>1, <1>2 DEF SF!TypeOK, SF!Puts, SF!ClientEnds, SF!Goto, SF!Killed
<1>5. ASSUME server \notin SF!ServerEnded
      PROVE  SF!Fits(c)'
    <2>1. SF!Fits(c) /\ clientSock[c] = "open"
        BY <1>1, <1>2, <1>5 DEF SF!Fits, SF!SocketFits
    <2>2. /\ client'[c] = "send B" /\ clientSock'[c] = "shutWr" /\ toServer'[c] = Append(toServer[c], "FIN")
          /\ toClient'[c] = toClient[c] /\ unread'[c] = unread[c] /\ inbox'[c] = inbox[c]
          /\ SF!Place(c)' = SF!Place(c)
        BY <1>1, <1>2, <2>1 DEF SF!TypeOK, SF!Puts, SF!Goto, SF!Place
    <2>3. SF!SocketFits(c)' /\ client'[c] \in SF!Closing
        BY <2>1, <2>2 DEF SF!Fits, SF!SocketFits, SF!Closing
    <2>4. CASE SF!Place(c) \in {"backlog", "recv A"}
        <3>1. SF!Quiet(c) /\ SF!SentA(c)
            BY <1>1, <2>1, <2>4 DEF SF!Fits, SF!BeforeA, SF!Closing
        <3>2. SF!Quiet(c)' /\ SF!SentBoth(c)'
            BY <2>2, <3>1, ShortTexts DEF SF!Quiet, SF!SentA, SF!SentBoth, SF!Link
        <3> QED
            BY <2>2, <2>3, <2>4, <3>2, AfterShutdown DEF SF!BeforeA
    <2>5. CASE SF!Place(c) = "send C"
        <3>1. SF!Quiet(c) /\ SF!SentNothing(c)
            BY <1>1, <2>1, <2>5 DEF SF!Fits, SF!BeforeC, SF!Closing
        <3>2. SF!Quiet(c)' /\ SF!SentFin(c)'
            BY <2>2, <3>1, ShortTexts DEF SF!Quiet, SF!SentNothing, SF!SentFin, SF!Link
        <3> QED
            BY <2>2, <2>3, <2>5, <3>2, AfterShutdown DEF SF!BeforeC
    <2>6. CASE SF!Place(c) = "recv EOF"
        <3>1. SF!SentNothing(c) /\ ~inbox[c].rst
            BY <1>1, <2>1, <2>6 DEF SF!Fits, SF!BeforeEof, SF!Closing
        <3>2. toServer'[c] = <<"FIN">> /\ inbox'[c].octets = <<>> /\ ~inbox'[c].rst
            BY <2>2, <3>1, ShortTexts DEF SF!SentNothing, SF!Link
        <3>3. SF!NoOctets(toServer'[c]) /\ toServer'[c] # <<>> /\ Head(toServer'[c]) = "FIN"
            BY <3>2, ShortTexts DEF SF!NoOctets
        <3>4. SF!BeforeEof(c)'
            BY <2>3, <3>2, <3>3 DEF SF!BeforeEof
        <3> QED
            BY <2>2, <2>3, <2>6, <3>4, AfterShutdown
    <2>7. SF!Place(c) \notin {"none", "close"}
        BY <1>1, <2>1 DEF SF!Fits, SF!Idle, SF!Closing
    <2> QED
        BY <1>2, <2>4, <2>5, <2>6, <2>7 DEF SF!Serving
<1> QED
    BY <1>1, <1>2, <1>3, <1>4, <1>5, OneConnection

\* Zero is not positive.
LEMMA NotPositive == ~(0 > 0)
OBVIOUS

\* A segment as a sequence.
LEMMA OneSegment ==
    ASSUME NEW x \in SF!Segment
    PROVE  <<x>> \in Seq(SF!Segment)
OBVIOUS

\* Segments behind others.
LEMMA MoreSegments ==
    ASSUME NEW a \in Seq(SF!Segment), NEW s \in {<<>>, <<"RST">>, <<"FIN">>}
    PROVE  /\ a \o s \in Seq(SF!Segment)
           /\ SF!NoOctets(a) => SF!NoOctets(a \o s)
           /\ a # <<>> => a \o s # <<>> /\ Head(a \o s) = Head(a)
<1>1. s \in Seq(SF!Segment)
    <2>1. "RST" \in SF!Segment /\ "FIN" \in SF!Segment
        BY DEF SF!Segment
    <2>2. <<>> \in Seq(SF!Segment) /\ <<"RST">> \in Seq(SF!Segment) /\ <<"FIN">> \in Seq(SF!Segment)
        BY <2>1
    <2> QED
        BY <2>2
<1>2. SF!NoOctets(s)
    BY DEF SF!NoOctets
<1>3. /\ a \o s \in Seq(SF!Segment) /\ Len(a) \in Nat /\ Len(s) \in Nat /\ Len(a \o s) = Len(a) + Len(s)
      /\ \A i \in 1..(Len(a) + Len(s)) : (a \o s)[i] = IF i <= Len(a) THEN a[i] ELSE s[i - Len(a)]
    BY <1>1, ConcatProperties, LenProperties
<1>4. DOMAIN a = 1..Len(a) /\ DOMAIN s = 1..Len(s) /\ DOMAIN (a \o s) = 1..Len(a \o s)
    BY <1>1, <1>3, LenProperties
<1>5. ASSUME SF!NoOctets(a)
      PROVE  SF!NoOctets(a \o s)
    <2> SUFFICES ASSUME NEW i \in 1..(Len(a) + Len(s))
                 PROVE  (a \o s)[i] \in {"FIN", "RST"}
        BY <1>3, <1>4 DEF SF!NoOctets
    <2>1. CASE i <= Len(a)
        <3>1. i \in DOMAIN a /\ (a \o s)[i] = a[i]
            BY <1>3, <1>4, <2>1
        <3> QED
            BY <1>5, <3>1 DEF SF!NoOctets
    <2>2. CASE i > Len(a)
        <3>1. i - Len(a) \in DOMAIN s /\ (a \o s)[i] = s[i - Len(a)]
            BY <1>3, <1>4, <2>2
        <3> QED
            BY <1>2, <3>1 DEF SF!NoOctets
    <2> QED
        BY <1>3, <2>1, <2>2
<1>6. ASSUME a # <<>>
      PROVE  a \o s # <<>> /\ Head(a \o s) = Head(a)
    <2>1. Len(a) >= 1
        BY <1>6
    <2>2. (a \o s)[1] = a[1] /\ Len(a \o s) >= 1
        BY <1>3, <2>1
    <2> QED
        BY <1>3, <1>6, <2>2
<1> QED
    BY <1>3, <1>5, <1>6

\* What the kernel sends when a client ends.
LastWords(c) ==
    IF clientSock[c] \in {"none", "reset"} THEN <<>>
    ELSE IF unread[c] > 0 THEN <<"RST">>
    ELSE IF clientSock[c] = "open" THEN <<"FIN">> ELSE <<>>

\* A client that ends regularly, or is killed, still fits.
LEMMA EndsFits ==
    ASSUME SF!RequestInv, NEW c \in Client, server \notin SF!ServerEnded, NEW how, SF!ClientEnds(c, how),
           UNCHANGED <<server, sockRemote, backlog, unread, toClient, inbox>>,
           \/ client[c] = "send A" /\ how = "killed before A"
           \/ client[c] = "shutdown" /\ how = "killed before FIN"
           \/ client[c] = "send B" /\ how \in {"success", "killed"}
    PROVE  SF!Fits(c)'
<1>1. SF!TypeOK /\ SF!Fits(c) /\ SF!Place(c) \in SF!Serving \cup {"backlog", "none"}
    BY RequestFacts
<1>2. /\ client'[c] = how /\ clientSock'[c] = "closed" /\ toServer'[c] = toServer[c] \o LastWords(c)
      /\ unread'[c] = unread[c] /\ toClient'[c] = toClient[c] /\ inbox'[c] = inbox[c]
      /\ SF!Place(c)' = SF!Place(c)
    BY <1>1 DEF SF!TypeOK, SF!ClientEnds, SF!Goto, SF!Place, LastWords
<1>3. /\ client[c] \in {"send A", "shutdown"} => clientSock[c] = "open"
      /\ client[c] = "send B" => clientSock[c] = "shutWr"
      /\ SF!SocketFits(c)'
    BY <1>1, <1>2 DEF SF!Fits, SF!SocketFits
<1>4. LastWords(c) \in {<<>>, <<"RST">>, <<"FIN">>} /\ toServer[c] \in Seq(SF!Segment)
    BY <1>1 DEF LastWords, SF!TypeOK
<1>5. SF!Quiet(c) => LastWords(c) = IF client[c] = "send B" THEN <<>> ELSE <<"FIN">>
    <2> SUFFICES ASSUME SF!Quiet(c)
                 PROVE  LastWords(c) = IF client[c] = "send B" THEN <<>> ELSE <<"FIN">>
        OBVIOUS
    <2>1. ~(unread[c] > 0)
        <3>1. unread[c] = 0
            BY DEF SF!Quiet
        <3> QED
            BY <3>1, NotPositive, Zenon
    <2>2. CASE client[c] = "send B"
        BY <1>3, <2>1, <2>2 DEF LastWords
    <2>3. CASE client[c] \in {"send A", "shutdown"}
        BY <1>3, <2>1, <2>3 DEF LastWords
    <2> QED
        BY <2>2, <2>3
<1>6. /\ toServer[c] \o <<>> = toServer[c] /\ <<>> \o <<"FIN">> = <<"FIN">> /\ <<>> \o <<"RST">> = <<"RST">>
      /\ <<"A">> \o <<"FIN">> = <<"A", "FIN">>
    <2>1. /\ "A" \in SF!Segment /\ "FIN" \in SF!Segment
          /\ <<"A">> \in Seq(SF!Segment) /\ <<"FIN">> \in Seq(SF!Segment) /\ <<"RST">> \in Seq(SF!Segment)
        <3>1. "A" \in SF!Segment /\ "FIN" \in SF!Segment /\ "RST" \in SF!Segment
            BY DEF SF!Segment
        <3> QED
            BY <3>1, OneSegment, Zenon
    <2>2. <<"A">> \o <<"FIN">> = Append(<<"A">>, "FIN")
        BY <2>1, AppendIsConcat
    <2>3. toServer[c] \o <<>> = toServer[c] /\ <<>> \o <<"FIN">> = <<"FIN">> /\ <<>> \o <<"RST">> = <<"RST">>
        BY <1>4, <2>1, ConcatEmptySeq
    <2> QED
        BY <2>2, <2>3, ShortTexts
<1>7. /\ SF!NoOctets(toServer[c]) => SF!NoOctets(toServer'[c])
      /\ toServer[c] # <<>> => toServer'[c] # <<>> /\ Head(toServer'[c]) = Head(toServer[c])
    BY <1>2, <1>4, MoreSegments
<1>8. client[c] # "send A" => client'[c] \in SF!Closing
    BY <1>2 DEF SF!Closing
<1>9. CASE SF!Place(c) \in {"backlog", "recv A"}
    <2>1. SF!Quiet(c) /\ SF!Quiet(c)' /\ SF!BeforeA(c)
        BY <1>1, <1>2, <1>9 DEF SF!Fits, SF!BeforeA, SF!Quiet
    <2>2. CASE client[c] = "send A"
        <3>1. SF!SentNothing(c) /\ how = "killed before A"
            BY <2>1, <2>2 DEF SF!BeforeA, SF!Closing
        <3>2. toServer'[c] = <<"FIN">> /\ inbox'[c].octets = <<>> /\ inbox'[c].fin = FALSE
            BY <1>2, <1>5, <1>6, <2>1, <2>2, <3>1 DEF SF!SentNothing, SF!Link
        <3>3. SF!BeforeA(c)'
            BY <1>2, <2>1, <3>1, <3>2 DEF SF!BeforeA, SF!SentFin, SF!Link
        <3> QED
            BY <1>2, <1>3, <1>9, <3>1, <3>3 DEF SF!Fits, SF!Idle
    <2>3. CASE client[c] = "shutdown"
        <3>1. SF!SentA(c)
            BY <2>1, <2>3 DEF SF!BeforeA, SF!Closing
        <3>2. SF!SentBoth(c)'
            BY <1>2, <1>5, <1>6, <2>1, <2>3, <3>1 DEF SF!SentA, SF!SentBoth, SF!Link
        <3> QED
            BY <1>2, <1>3, <1>8, <1>9, <2>1, <2>3, <3>2, AfterShutdown DEF SF!BeforeA
    <2>4. CASE client[c] = "send B"
        <3>1. SF!SentBoth(c)
            BY <2>1, <2>4 DEF SF!BeforeA, SF!Closing
        <3>2. SF!SentBoth(c)'
            BY <1>2, <1>5, <1>6, <2>1, <2>4, <3>1 DEF SF!SentBoth, SF!Link
        <3> QED
            BY <1>2, <1>3, <1>8, <1>9, <2>1, <2>4, <3>2, AfterShutdown DEF SF!BeforeA
    <2> QED
        BY <2>2, <2>3, <2>4
<1>10. CASE SF!Place(c) = "send C"
    <2>1. SF!Quiet(c) /\ SF!Quiet(c)' /\ SF!BeforeC(c)
        BY <1>1, <1>2, <1>10 DEF SF!Fits, SF!BeforeC, SF!Quiet
    <2>2. client[c] # "send A"
        BY <2>1 DEF SF!BeforeC, SF!Closing
    <2>3. SF!SentFin(c)'
        <3>1. CASE client[c] = "shutdown"
            <4>1. SF!SentNothing(c)
                BY <2>1, <3>1 DEF SF!BeforeC, SF!Closing
            <4> QED
                BY <1>2, <1>5, <1>6, <2>1, <3>1, <4>1 DEF SF!SentNothing, SF!SentFin, SF!Link
        <3>2. CASE client[c] = "send B"
            <4>1. SF!SentFin(c)
                BY <2>1, <3>2 DEF SF!BeforeC, SF!Closing
            <4> QED
                BY <1>2, <1>5, <1>6, <2>1, <3>2, <4>1 DEF SF!SentFin, SF!Link
        <3> QED
            BY <2>2, <3>1, <3>2
    <2> QED
        BY <1>2, <1>3, <1>8, <1>10, <2>1, <2>2, <2>3, AfterShutdown DEF SF!BeforeC
<1>11. CASE SF!Place(c) = "recv EOF"
    <2>1. SF!BeforeEof(c)
        BY <1>1, <1>11 DEF SF!Fits
    <2>2. client[c] # "send A"
        BY <2>1 DEF SF!BeforeEof, SF!Closing
    <2>3. inbox'[c].octets = <<>> /\ SF!NoOctets(toServer'[c])
        BY <1>2, <1>7, <2>1 DEF SF!BeforeEof
    <2>4. CASE client[c] = "shutdown"
        <3>1. client'[c] = "killed before FIN"
            BY <1>2, <2>4
        <3> QED
            BY <1>2, <1>3, <1>8, <1>11, <2>3, <2>4, <3>1, AfterShutdown DEF SF!BeforeEof
    <2>5. CASE client[c] = "send B"
        <3>1. inbox[c].fin \/ (~inbox[c].rst /\ toServer[c] # <<>> /\ Head(toServer[c]) = "FIN")
            BY <2>1, <2>5 DEF SF!BeforeEof, SF!Closing
        <3>2. inbox'[c].fin \/ (~inbox'[c].rst /\ toServer'[c] # <<>> /\ Head(toServer'[c]) = "FIN")
            BY <1>2, <1>7, <3>1
        <3> QED
            BY <1>2, <1>3, <1>8, <1>11, <2>3, <2>5, <3>2, AfterShutdown DEF SF!BeforeEof
    <2> QED
        BY <2>2, <2>4, <2>5
<1>12. CASE SF!Place(c) \in {"none", "close"}
    <2>1. client[c] \in SF!Closing /\ SF!NoOctets(toServer[c])
        BY <1>1, <1>12 DEF SF!Fits, SF!Idle
    <2>2. client'[c] \in SF!Closing /\ client'[c] # "aborted" /\ client'[c] \notin SF!Idle
        BY <1>2, <2>1 DEF SF!Closing, SF!Idle
    <2>3. SF!Place(c) = "close" => inbox'[c].octets = <<>> /\ inbox'[c].fin
        BY <1>1, <1>2 DEF SF!Fits
    <2> QED
        BY <1>2, <1>3, <1>7, <1>12, <2>1, <2>2, <2>3 DEF SF!Fits
<1> QED
    BY <1>1, <1>9, <1>10, <1>11, <1>12 DEF SF!Serving

\* A client ends, or is killed.
LEMMA EndsStep ==
    ASSUME SF!RequestInv, NEW c \in Client, SF!SendB(c) \/ SF!Kill(c)
    PROVE  SF!RequestInv'
<1>1. UNCHANGED <<server, sockRemote, backlog, unread, toClient, inbox>>
    BY DEF SF!SendB, SF!Kill
<1>2. /\ SF!TypeOK /\ SF!Accepted /\ (server \notin SF!ServerEnded => SF!Fits(c))
      /\ \A i \in DOMAIN inbox'[c].octets : inbox'[c].octets[i] # "B"
    BY <1>1, RequestFacts
<1>3. CASE SF!Puts(c, "B", "open", "aborted") /\ client[c] = "send B" /\ clientSock[c] = "open"
    <2>1. server \in SF!ServerEnded
        BY <1>2, <1>3 DEF SF!Fits, SF!SocketFits
    <2>2. SF!TypeOK'
        BY <1>1, <1>2, <1>3, PutsType
    <2>3. /\ client[c] \notin SF!Killed
          /\ \A d \in Client \ {c} :
                /\ client'[d] = client[d] /\ clientSock'[d] = clientSock[d] /\ unread'[d] = unread[d]
                /\ toServer'[d] = toServer[d] /\ toClient'[d] = toClient[d] /\ inbox'[d] = inbox[d]
        BY <1>1, <1>2, <1>3 DEF SF!TypeOK, SF!Puts, SF!Goto, SF!Killed
    <2> QED
        BY <1>1, <1>2, <2>1, <2>2, <2>3, OneConnection
<1>4. CASE \E how : /\ SF!ClientEnds(c, how)
                    /\ \/ client[c] = "send A" /\ how = "killed before A"
                       \/ client[c] = "shutdown" /\ how = "killed before FIN"
                       \/ client[c] = "send B" /\ how \in {"success", "killed"}
    <2>1. PICK how : /\ SF!ClientEnds(c, how)
                     /\ \/ client[c] = "send A" /\ how = "killed before A"
                        \/ client[c] = "shutdown" /\ how = "killed before FIN"
                        \/ client[c] = "send B" /\ how \in {"success", "killed"}
        BY <1>4
    <2>2. how \in Calls
        BY <2>1 DEF Calls, SF!Closing
    <2>3. SF!TypeOK'
        BY <1>1, <1>2, <2>1, <2>2, ClientEndsType
    <2>4. /\ client[c] \notin SF!Killed
          /\ \A d \in Client \ {c} :
                /\ client'[d] = client[d] /\ clientSock'[d] = clientSock[d] /\ unread'[d] = unread[d]
                /\ toServer'[d] = toServer[d] /\ toClient'[d] = toClient[d] /\ inbox'[d] = inbox[d]
        BY <1>1, <1>2, <2>1 DEF SF!TypeOK, SF!ClientEnds, SF!Goto, SF!Killed
    <2>5. server \notin SF!ServerEnded => SF!Fits(c)'
        BY <1>1, <2>1, EndsFits
    <2> QED
        BY <1>1, <1>2, <2>3, <2>4, <2>5, OneConnection
<1> QED
    BY <1>3, <1>4 DEF SF!SendB, SF!Kill

\* What is left when the first segment is taken.
LEMMA FewerSegments ==
    ASSUME NEW a \in Seq(SF!Segment), a # <<>>
    PROVE  /\ Head(a) \in SF!Segment /\ Tail(a) \in Seq(SF!Segment)
           /\ SF!NoOctets(a) => SF!NoOctets(Tail(a)) /\ Head(a) \in {"FIN", "RST"}
           /\ (\A i \in DOMAIN a : a[i] # "RST") =>
                 (\A i \in DOMAIN Tail(a) : Tail(a)[i] # "RST") /\ Head(a) # "RST"
<1>1. Head(a) \in SF!Segment /\ Tail(a) \in Seq(SF!Segment) /\ Head(a) = a[1] /\ 1 \in DOMAIN a
    OBVIOUS
<1>2. \A i \in DOMAIN Tail(a) : i + 1 \in DOMAIN a /\ Tail(a)[i] = a[i + 1]
    BY TailInside
<1> QED
    BY <1>1, <1>2 DEF SF!NoOctets

\* A segment arrives at the server.
LEMMA ArrivesAtServerStep ==
    ASSUME SF!RequestInv, NEW c \in Client, SF!ArrivesAtServer(c)
    PROVE  SF!RequestInv'
<1> DEFINE seg == Head(toServer[c])
<1>1. /\ toServer[c] # <<>> /\ toServer' = [toServer EXCEPT ![c] = Tail(toServer[c])]
      /\ UNCHANGED <<server, sockRemote, backlog, client, clientSock, unread>>
    BY DEF SF!ArrivesAtServer
<1>2. /\ SF!TypeOK /\ SF!Accepted /\ (server \notin SF!ServerEnded => SF!Fits(c))
      /\ \A i \in DOMAIN inbox[c].octets : inbox[c].octets[i] # "B"
      /\ SF!Place(c) \in SF!Serving \cup {"backlog", "none"}
    BY RequestFacts
<1>3. /\ toServer[c] \in Seq(SF!Segment) /\ seg \in SF!Segment /\ Tail(toServer[c]) \in Seq(SF!Segment)
      /\ SF!NoOctets(toServer[c]) => SF!NoOctets(Tail(toServer[c])) /\ seg \in {"FIN", "RST"}
    <2>1. toServer[c] \in Seq(SF!Segment)
        BY <1>2 DEF SF!TypeOK
    <2> QED
        BY <1>1, <2>1, FewerSegments
<1>4. /\ inbox[c] \in [octets : Seq(SF!Segment), fin : BOOLEAN, rst : BOOLEAN]
      /\ inbox[c].octets \in Seq(SF!Segment) /\ inbox[c].fin \in BOOLEAN /\ inbox[c].rst \in BOOLEAN
    BY <1>2 DEF SF!TypeOK
<1> DEFINE octets == IF seg \in {"A", "B"} THEN Append(inbox[c].octets, seg) ELSE inbox[c].octets
           fin == inbox[c].fin \/ seg = "FIN"
           rst == inbox[c].rst \/ seg = "RST"
<1>5. CASE SF!ServerEndOpen(c)
    <2>1. /\ inbox' = [inbox EXCEPT ![c].octets = octets, ![c].fin = fin, ![c].rst = rst]
          /\ toClient' = toClient
        BY <1>5 DEF SF!ArrivesAtServer
    <2>2. octets \in Seq(SF!Segment) /\ fin \in BOOLEAN /\ rst \in BOOLEAN
        <3>1. Append(inbox[c].octets, seg) \in Seq(SF!Segment)
            BY <1>3, <1>4, AppendProperties
        <3> QED
            BY <1>4, <3>1
    <2> HIDE DEF octets, fin, rst, seg
    <2>3. /\ inbox' \in [Client -> [octets : Seq(SF!Segment), fin : BOOLEAN, rst : BOOLEAN]]
          /\ inbox'[c].octets = octets /\ inbox'[c].fin = fin /\ inbox'[c].rst = rst
          /\ \A d \in Client \ {c} : inbox'[d] = inbox[d]
        BY <1>2, <2>1, <2>2 DEF SF!TypeOK
    <2>4. SF!TypeOK'
        BY <1>1, <1>2, <1>3, <2>1, <2>3 DEF SF!TypeOK
    <2>5. \A d \in Client \ {c} :
             /\ client'[d] = client[d] /\ clientSock'[d] = clientSock[d] /\ unread'[d] = unread[d]
             /\ toServer'[d] = toServer[d] /\ toClient'[d] = toClient[d] /\ inbox'[d] = inbox[d]
        BY <1>1, <1>2, <2>1, <2>3 DEF SF!TypeOK
    <2>6. server \notin SF!ServerEnded /\ SF!Fits(c) /\ SF!Place(c) # "none"
        <3>1. c = sockRemote \/ \E i \in DOMAIN backlog : backlog[i] = c
            BY <1>5 DEF SF!ServerEndOpen
        <3>2. c # SF!NoClient
            BY SendAfterFinAssumption DEF SF!NoClient
        <3>3. server \notin SF!ServerEnded
            BY <1>2, <3>1, <3>2 DEF SF!Accepted
        <3>4. c = sockRemote => server # "none"
            BY <1>2 DEF SF!Accepted, SF!Serving
        <3> QED
            BY <1>2, <3>1, <3>3, <3>4 DEF SF!Place
    <2>7. /\ toServer'[c] = Tail(toServer[c]) /\ client'[c] = client[c] /\ clientSock'[c] = clientSock[c]
          /\ unread'[c] = unread[c] /\ toClient'[c] = toClient[c] /\ SF!Place(c)' = SF!Place(c)
        BY <1>1, <1>2, <2>1 DEF SF!TypeOK, SF!Place
    <2>8. SF!SocketFits(c)' /\ client'[c] # "aborted" /\ client'[c] \notin SF!Idle
        BY <2>6, <2>7 DEF SF!Fits, SF!SocketFits
    <2>9. CASE SF!Place(c) \in {"backlog", "recv A"}
        <3>1. SF!BeforeA(c)
            BY <2>6, <2>9 DEF SF!Fits
        <3>2. ASSUME SF!Link(c, <<>>, FALSE, <<"A">>)
              PROVE  SF!Link(c, <<"A">>, FALSE, <<>>)' /\ seg = "A"
            <4>1. seg = "A" /\ toServer'[c] = <<>>
                BY <2>7, <3>2, ShortTexts DEF SF!Link, seg
            <4>2. octets = <<"A">> /\ fin = FALSE
                BY <3>2, <4>1, ShortTexts DEF octets, fin, SF!Link
            <4> QED
                BY <2>3, <4>1, <4>2 DEF SF!Link
        <3>3. ASSUME SF!Link(c, <<>>, FALSE, <<"A", "FIN">>)
              PROVE  SF!Link(c, <<"A">>, FALSE, <<"FIN">>)' /\ seg = "A"
            <4>1. seg = "A" /\ toServer'[c] = <<"FIN">>
                BY <2>7, <3>3, ShortTexts DEF SF!Link, seg
            <4>2. octets = <<"A">> /\ fin = FALSE
                BY <3>3, <4>1, ShortTexts DEF octets, fin, SF!Link
            <4> QED
                BY <2>3, <4>1, <4>2 DEF SF!Link
        <3>4. ASSUME NEW o, SF!Link(c, o, FALSE, <<"FIN">>)
              PROVE  SF!Link(c, o, TRUE, <<>>)' /\ seg = "FIN"
            <4>1. seg = "FIN" /\ toServer'[c] = <<>>
                BY <2>7, <3>4, ShortTexts DEF SF!Link, seg
            <4>2. octets = o /\ fin = TRUE
                BY <3>4, <4>1 DEF octets, fin, SF!Link
            <4> QED
                BY <2>3, <4>1, <4>2 DEF SF!Link
        <3>5. /\ SF!SentA(c) => SF!SentA(c)' /\ seg = "A"
              /\ SF!SentFin(c) => SF!SentFin(c)' /\ seg = "FIN"
              /\ SF!SentBoth(c) => SF!SentBoth(c)' /\ seg \in {"A", "FIN"}
            <4>1. \A o, f : ~SF!Link(c, o, f, <<>>)
                BY <1>1 DEF SF!Link
            <4> QED
                BY <3>2, <3>3, <3>4, <4>1 DEF SF!SentA, SF!SentFin, SF!SentBoth
        <3>6. ~SF!SentNothing(c)
            BY <1>1 DEF SF!SentNothing, SF!Link
        <3>7. seg \in {"A", "FIN"}
            BY <3>1, <3>5, <3>6 DEF SF!BeforeA
        <3>8. SF!Quiet(c)'
            <4>1. ~rst
                BY <3>1, <3>7 DEF SF!BeforeA, SF!Quiet, rst
            <4> QED
                BY <2>3, <2>7, <3>1, <4>1 DEF SF!BeforeA, SF!Quiet
        <3>9. SF!BeforeA(c)'
            BY <2>7, <3>1, <3>5, <3>8, <3>6 DEF SF!BeforeA
        <3>10. \A i \in DOMAIN inbox'[c].octets : inbox'[c].octets[i] # "B"
            <4>1. inbox'[c].octets \in {<<>>, <<"A">>}
                BY <3>9 DEF SF!BeforeA, SF!SentNothing, SF!SentA, SF!SentFin, SF!SentBoth, SF!Link
            <4> QED
                BY <4>1, ShortTexts
        <3>11. SF!Fits(c)'
            BY <2>7, <2>8, <2>9, <3>9 DEF SF!Fits
        <3> QED
            BY <1>1, <2>4, <2>5, <2>7, <3>10, <3>11, OneConnection
    <2>10. CASE SF!Place(c) = "send C"
        <3>1. SF!BeforeC(c) /\ SF!Quiet(c)
            BY <2>6, <2>10 DEF SF!Fits, SF!BeforeC
        <3>2. client[c] \in SF!Closing /\ SF!Link(c, <<>>, FALSE, <<"FIN">>)
            BY <1>1, <3>1 DEF SF!BeforeC, SF!SentNothing, SF!SentFin, SF!Link
        <3>3. seg = "FIN" /\ octets = <<>> /\ fin = TRUE /\ ~rst /\ toServer'[c] = <<>>
            <4>1. seg = "FIN" /\ toServer'[c] = <<>>
                BY <2>7, <3>2, ShortTexts DEF SF!Link, seg
            <4> QED
                BY <3>1, <3>2, <4>1 DEF SF!Link, SF!Quiet, octets, fin, rst
        <3>4. SF!Quiet(c)' /\ SF!SentFin(c)'
            BY <2>3, <2>7, <3>1, <3>3 DEF SF!Quiet, SF!SentFin, SF!Link
        <3>5. SF!Fits(c)'
            BY <2>7, <2>8, <2>10, <3>2, <3>4, AfterShutdown DEF SF!BeforeC
        <3>6. \A i \in DOMAIN inbox'[c].octets : inbox'[c].octets[i] # "B"
            BY <1>2, <2>3, <3>2, <3>3 DEF SF!Link
        <3> QED
            BY <1>1, <2>4, <2>5, <2>7, <3>5, <3>6, OneConnection
    <2>11. CASE SF!Place(c) = "recv EOF"
        <3>1. SF!BeforeEof(c)
            BY <2>6, <2>11 DEF SF!Fits
        <3>2. seg \in {"FIN", "RST"} /\ SF!NoOctets(toServer'[c]) /\ octets = inbox[c].octets
            BY <1>3, <2>7, <3>1 DEF SF!BeforeEof, octets
        <3>3. client[c] \in SF!Closing
            BY <1>1, <3>1 DEF SF!BeforeEof, SF!SentNothing, SF!Link
        <3>4. inbox[c].fin \/ client[c] = "killed before FIN" \/ seg = "FIN"
            BY <3>1, <3>3 DEF SF!BeforeEof, seg, SF!Closing
        <3>5. fin \/ client'[c] = "killed before FIN"
            BY <2>7, <3>4 DEF fin
        <3>6. SF!BeforeEof(c)'
            BY <2>3, <2>7, <3>1, <3>2, <3>3, <3>5 DEF SF!BeforeEof
        <3>7. SF!Fits(c)'
            BY <2>7, <2>8, <2>11, <3>3, <3>6, AfterShutdown
        <3>8. \A i \in DOMAIN inbox'[c].octets : inbox'[c].octets[i] # "B"
            BY <1>2, <2>3, <3>2
        <3> QED
            BY <1>1, <2>4, <2>5, <2>7, <3>7, <3>8, OneConnection
    <2>12. CASE SF!Place(c) = "close"
        <3>1. /\ client[c] \in SF!Closing /\ SF!NoOctets(toServer[c])
              /\ inbox[c].octets = <<>> /\ inbox[c].fin
            BY <2>6, <2>7, <2>8, <2>12 DEF SF!Fits
        <3>2. seg \in {"FIN", "RST"} /\ SF!NoOctets(toServer'[c]) /\ octets = inbox[c].octets /\ fin
            BY <1>3, <2>7, <3>1 DEF octets, fin
        <3>3. SF!Fits(c)'
            BY <2>3, <2>7, <2>8, <2>12, <3>1, <3>2 DEF SF!Fits
        <3>4. \A i \in DOMAIN inbox'[c].octets : inbox'[c].octets[i] # "B"
            BY <1>2, <2>3, <3>2
        <3> QED
            BY <1>1, <2>4, <2>5, <2>7, <3>3, <3>4, OneConnection
    <2> QED
        BY <1>2, <2>6, <2>9, <2>10, <2>11, <2>12 DEF SF!Serving
<1>6. CASE ~SF!ServerEndOpen(c)
    <2>1. /\ toClient' = [toClient EXCEPT ![c] = IF seg \in {"A", "B"} THEN Append(toClient[c], "RST") ELSE toClient[c]]
          /\ inbox' = inbox
        BY <1>6 DEF SF!ArrivesAtServer
    <2> HIDE DEF seg
    <2>2. SF!TypeOK'
        <3>1. toClient[c] \in Seq(SF!Segment) /\ "RST" \in SF!Segment
            BY <1>2 DEF SF!TypeOK, SF!Segment
        <3>2. Append(toClient[c], "RST") \in Seq(SF!Segment)
            BY <3>1, AppendProperties
        <3>3. toClient' \in [Client -> Seq(SF!Segment)]
            BY <1>2, <2>1, <3>1, <3>2 DEF SF!TypeOK
        <3> QED
            BY <1>1, <1>2, <1>3, <2>1, <3>3 DEF SF!TypeOK
    <2>3. \A d \in Client \ {c} :
             /\ client'[d] = client[d] /\ clientSock'[d] = clientSock[d] /\ unread'[d] = unread[d]
             /\ toServer'[d] = toServer[d] /\ toClient'[d] = toClient[d] /\ inbox'[d] = inbox[d]
        BY <1>1, <1>2, <2>1 DEF SF!TypeOK
    <2>4. ASSUME server \notin SF!ServerEnded
          PROVE  SF!Fits(c)'
        <3>1. SF!Place(c) = "none" /\ SF!Fits(c)
            BY <1>2, <1>6, <2>4 DEF SF!ServerEndOpen, SF!Place
        <3>2. client[c] \notin SF!Idle
            BY <1>1, <3>1 DEF SF!Fits, SF!SentNothing, SF!Link
        <3>3. client[c] \in SF!Closing /\ SF!NoOctets(toServer[c])
            BY <3>1, <3>2 DEF SF!Fits
        <3>4. seg \in {"FIN", "RST"} /\ SF!NoOctets(Tail(toServer[c]))
            BY <1>3, <3>3
        <3>5. /\ toServer'[c] = Tail(toServer[c]) /\ client'[c] = client[c] /\ clientSock'[c] = clientSock[c]
              /\ toClient'[c] = toClient[c] /\ SF!Place(c)' = SF!Place(c)
            BY <1>1, <1>2, <2>1, <3>4 DEF SF!TypeOK, SF!Place
        <3>6. SF!SocketFits(c)' /\ client'[c] # "aborted"
            BY <3>1, <3>5 DEF SF!Fits, SF!SocketFits
        <3> QED
            BY <3>1, <3>2, <3>3, <3>4, <3>5, <3>6 DEF SF!Fits
    <2> QED
        BY <1>1, <1>2, <2>1, <2>2, <2>3, <2>4, OneConnection
<1> QED
    BY <1>5, <1>6

\* A segment arrives at a client.
LEMMA ArrivesAtClientStep ==
    ASSUME SF!RequestInv, NEW c \in Client, SF!ArrivesAtClient(c)
    PROVE  SF!RequestInv'
<1> DEFINE seg == Head(toClient[c])
           isOpen == clientSock[c] \in {"open", "shutWr"}
           answer == IF seg = "C" /\ clientSock[c] = "closed" THEN Append(toServer[c], "RST") ELSE toServer[c]
<1>1. /\ toClient[c] # <<>> /\ toClient' = [toClient EXCEPT ![c] = Tail(toClient[c])]
      /\ unread' = [unread EXCEPT ![c] = IF seg = "C" /\ isOpen THEN unread[c] + 1 ELSE unread[c]]
      /\ clientSock' = [clientSock EXCEPT ![c] = IF seg = "RST" /\ isOpen THEN "reset" ELSE clientSock[c]]
      /\ toServer' = [toServer EXCEPT ![c] = answer]
      /\ UNCHANGED <<server, sockRemote, backlog, client, inbox>>
    BY DEF SF!ArrivesAtClient
<1>2. /\ SF!TypeOK /\ SF!Accepted /\ (server \notin SF!ServerEnded => SF!Fits(c))
      /\ \A i \in DOMAIN inbox[c].octets : inbox[c].octets[i] # "B"
      /\ SF!Place(c) \in SF!Serving \cup {"backlog", "none"}
    BY RequestFacts
<1>3. /\ toClient[c] \in Seq(SF!Segment) /\ toServer[c] \in Seq(SF!Segment) /\ unread[c] \in Nat
      /\ Tail(toClient[c]) \in Seq(SF!Segment)
      /\ (\A i \in DOMAIN toClient[c] : toClient[c][i] # "RST") =>
            (\A i \in DOMAIN Tail(toClient[c]) : Tail(toClient[c])[i] # "RST") /\ seg # "RST"
    <2>1. toClient[c] \in Seq(SF!Segment) /\ toServer[c] \in Seq(SF!Segment) /\ unread[c] \in Nat
        BY <1>2 DEF SF!TypeOK
    <2> QED
        BY <1>1, <2>1, FewerSegments
<1>4. /\ answer \in {toServer[c], toServer[c] \o <<"RST">>} /\ answer \in Seq(SF!Segment)
      /\ clientSock[c] # "closed" => answer = toServer[c]
    <2>1. "RST" \in SF!Segment
        BY DEF SF!Segment
    <2>2. Append(toServer[c], "RST") = toServer[c] \o <<"RST">> /\ Append(toServer[c], "RST") \in Seq(SF!Segment)
        BY <1>3, <2>1, AppendIsConcat, AppendProperties
    <2> QED
        BY <1>3, <2>2
<1> HIDE DEF answer, seg
<1>5. SF!TypeOK'
    <2>1. toServer' \in [Client -> Seq(SF!Segment)] /\ toClient' \in [Client -> Seq(SF!Segment)]
        BY <1>1, <1>2, <1>3, <1>4 DEF SF!TypeOK
    <2>2. unread' \in [Client -> Nat]
        <3>1. (IF seg = "C" /\ isOpen THEN unread[c] + 1 ELSE unread[c]) \in Nat
            BY <1>3
        <3>2. unread \in [Client -> Nat]
            BY <1>2 DEF SF!TypeOK
        <3> QED
            BY <1>1, <3>1, <3>2
    <2>3. clientSock' \in [Client -> {"none", "open", "shutWr", "reset", "closed"}]
        BY <1>1, <1>2 DEF SF!TypeOK
    <2> QED
        BY <1>1, <1>2, <2>1, <2>2, <2>3 DEF SF!TypeOK
<1>6. \A d \in Client \ {c} :
         /\ client'[d] = client[d] /\ clientSock'[d] = clientSock[d] /\ unread'[d] = unread[d]
         /\ toServer'[d] = toServer[d] /\ toClient'[d] = toClient[d] /\ inbox'[d] = inbox[d]
    BY <1>1, <1>2 DEF SF!TypeOK
<1>7. ASSUME server \notin SF!ServerEnded
      PROVE  SF!Fits(c)'
    <2>1. SF!Fits(c) /\ SF!SocketFits(c) /\ ~SF!Quiet(c)
        BY <1>1, <1>2, <1>7 DEF SF!Fits, SF!Quiet
    <2>2. seg # "RST" /\ \A i \in DOMAIN Tail(toClient[c]) : Tail(toClient[c])[i] # "RST"
        BY <1>3, <2>1 DEF SF!SocketFits
    <2>3. /\ client'[c] = client[c] /\ clientSock'[c] = clientSock[c] /\ toServer'[c] = answer
          /\ toClient'[c] = Tail(toClient[c]) /\ inbox'[c] = inbox[c] /\ SF!Place(c)' = SF!Place(c)
        BY <1>1, <1>2, <2>2 DEF SF!TypeOK, SF!Place
    <2>4. /\ SF!SocketFits(c)' /\ client'[c] # "aborted" /\ client'[c] \notin SF!Idle
        BY <2>1, <2>2, <2>3 DEF SF!Fits, SF!SocketFits
    <2>5. SF!Place(c) \in {"recv EOF", "close", "none"}
        BY <1>2, <2>1 DEF SF!Fits, SF!Serving, SF!BeforeA, SF!BeforeC
    <2>6. /\ SF!NoOctets(toServer[c]) => SF!NoOctets(answer)
          /\ toServer[c] # <<>> => answer # <<>> /\ Head(answer) = Head(toServer[c])
        BY <1>3, <1>4, MoreSegments
    <2>7. CASE SF!Place(c) = "recv EOF"
        <3>1. SF!BeforeEof(c)
            BY <2>1, <2>7 DEF SF!Fits
        <3>2. CASE client[c] = "shutdown"
            <4>1. answer = toServer[c]
                BY <1>4, <2>1, <3>2 DEF SF!SocketFits
            <4>2. SF!BeforeEof(c)'
                BY <2>3, <3>1, <4>1 DEF SF!BeforeEof, SF!SentNothing, SF!Link
            <4> QED
                BY <2>3, <2>4, <2>7, <4>2 DEF SF!Fits
        <3>3. CASE client[c] # "shutdown"
            <4>1. client[c] \in SF!Closing /\ inbox[c].octets = <<>> /\ SF!NoOctets(toServer[c])
                BY <3>1, <3>3 DEF SF!BeforeEof
            <4>2. SF!BeforeEof(c)'
                BY <2>3, <2>6, <3>1, <3>3, <4>1 DEF SF!BeforeEof
            <4> QED
                BY <2>3, <2>4, <2>7, <4>1, <4>2, AfterShutdown
        <3> QED
            BY <3>2, <3>3
    <2>8. CASE SF!Place(c) \in {"close", "none"}
        <3>1. client[c] \in SF!Closing /\ SF!NoOctets(toServer[c])
            BY <2>1, <2>3, <2>4, <2>8 DEF SF!Fits
        <3>2. SF!Place(c) = "close" => inbox'[c].octets = <<>> /\ inbox'[c].fin
            BY <2>1, <2>3 DEF SF!Fits
        <3> QED
            BY <2>3, <2>4, <2>6, <2>8, <3>1, <3>2 DEF SF!Fits
    <2> QED
        BY <2>5, <2>7, <2>8
<1>8. client'[c] = client[c] /\ \A i \in DOMAIN inbox'[c].octets : inbox'[c].octets[i] # "B"
    BY <1>1, <1>2
<1> QED
    BY <1>1, <1>5, <1>6, <1>7, <1>8, OneConnection

\* A client connects, or is told that nobody listens.
LEMMA ConnectStep ==
    ASSUME SF!RequestInv, NEW c \in Client, SF!Connect(c)
    PROVE  SF!RequestInv'
<1>1. client[c] = "connect" /\ UNCHANGED <<server, sockRemote, unread, toClient, inbox>>
    BY DEF SF!Connect
<1>2. /\ SF!TypeOK /\ SF!Accepted /\ (server \notin SF!ServerEnded => SF!Fits(c))
      /\ \A i \in DOMAIN inbox[c].octets : inbox[c].octets[i] # "B"
    BY RequestFacts
<1>3. CASE SF!ClientEnds(c, "not running") /\ UNCHANGED backlog
    <2>1. SF!TypeOK'
        BY <1>1, <1>2, <1>3, ClientEndsType DEF Calls, SF!Idle
    <2>2. /\ client[c] \notin SF!Killed
          /\ \A d \in Client \ {c} :
                /\ client'[d] = client[d] /\ clientSock'[d] = clientSock[d] /\ unread'[d] = unread[d]
                /\ toServer'[d] = toServer[d] /\ toClient'[d] = toClient[d] /\ inbox'[d] = inbox[d]
        BY <1>1, <1>2, <1>3 DEF SF!TypeOK, SF!ClientEnds, SF!Goto, SF!Killed
    <2>3. ASSUME server \notin SF!ServerEnded
          PROVE  SF!Fits(c)'
        <3>1. SF!SocketFits(c) /\ clientSock[c] = "none" /\ SF!Place(c) = "none" /\ SF!Quiet(c) /\ SF!SentNothing(c)
            BY <1>1, <1>2, <2>3 DEF SF!Fits, SF!SocketFits, SF!Idle
        <3>2. /\ client'[c] = "not running" /\ clientSock'[c] = "closed" /\ unread'[c] = unread[c]
              /\ toServer'[c] = toServer[c] \o <<>> /\ toClient'[c] = toClient[c] /\ inbox'[c] = inbox[c]
              /\ SF!Place(c)' = SF!Place(c)
            BY <1>1, <1>2, <1>3, <3>1 DEF SF!TypeOK, SF!ClientEnds, SF!Goto, SF!Place
        <3>3. toServer'[c] = <<>>
            <4>1. toServer[c] = <<>> /\ toServer[c] \in Seq(SF!Segment)
                BY <1>2, <3>1 DEF SF!TypeOK, SF!SentNothing, SF!Link
            <4>2. toServer[c] \o <<>> = toServer[c]
                BY <4>1, ConcatEmptySeq
            <4> QED
                BY <3>2, <4>1, <4>2
        <3>4. SF!SocketFits(c)' /\ SF!Quiet(c)' /\ SF!SentNothing(c)'
            BY <3>1, <3>2, <3>3 DEF SF!SocketFits, SF!Quiet, SF!SentNothing, SF!Link
        <3> QED
            BY <3>1, <3>2, <3>4 DEF SF!Fits, SF!Idle
    <2>4. \A i \in DOMAIN inbox'[c].octets : inbox'[c].octets[i] # "B"
        BY <1>1, <1>2
    <2> QED
        BY <1>1, <1>3, <2>1, <2>2, <2>3, <2>4, OneConnection
<1>4. CASE /\ SF!Listening /\ backlog' = Append(backlog, c)
           /\ clientSock' = [clientSock EXCEPT ![c] = "open"] /\ SF!Goto(c, "send A") /\ toServer' = toServer
    <2>1. server \notin SF!ServerEnded /\ server # "socket" /\ SF!Fits(c)
        BY <1>2, <1>4 DEF SF!Listening
    <2>2. SF!SocketFits(c) /\ SF!Place(c) = "none" /\ SF!Quiet(c) /\ SF!SentNothing(c)
        BY <1>1, <2>1 DEF SF!Fits, SF!Idle
    <2>3. c # sockRemote /\ \A i \in DOMAIN backlog : backlog[i] # c
        <3>1. c # sockRemote
            BY <1>2, <2>2 DEF SF!Accepted, SF!Place, SF!Serving
        <3> QED
            BY <2>2, <3>1 DEF SF!Place
    <2>4. /\ backlog \in Seq(Client) /\ Len(backlog) \in Nat /\ DOMAIN backlog = 1..Len(backlog)
          /\ backlog' \in Seq(Client) /\ DOMAIN backlog' = 1..(Len(backlog) + 1)
          /\ \A i \in DOMAIN backlog : backlog'[i] = backlog[i] /\ i \in DOMAIN backlog'
          /\ backlog'[Len(backlog) + 1] = c /\ Len(backlog) + 1 \in DOMAIN backlog'
          /\ \A i \in DOMAIN backlog' : i \in DOMAIN backlog \/ i = Len(backlog) + 1
        <3>1. backlog \in Seq(Client)
            BY <1>2 DEF SF!TypeOK
        <3>2. Len(backlog) \in Nat /\ DOMAIN backlog = 1..Len(backlog)
            BY <3>1, LenProperties
        <3>3. /\ backlog' \in Seq(Client) /\ Len(backlog') = Len(backlog) + 1
              /\ \A i \in 1..Len(backlog) : backlog'[i] = backlog[i]
              /\ backlog'[Len(backlog) + 1] = c
            BY <1>4, <3>1, AppendProperties
        <3>4. DOMAIN backlog' = 1..(Len(backlog) + 1)
            BY <3>3, LenProperties
        <3>5. /\ \A i \in 1..Len(backlog) : i \in 1..(Len(backlog) + 1)
              /\ \A i \in 1..(Len(backlog) + 1) : i \in 1..Len(backlog) \/ i = Len(backlog) + 1
              /\ Len(backlog) + 1 \in 1..(Len(backlog) + 1)
            BY <3>2
        <3> QED
            BY <3>1, <3>2, <3>3, <3>4, <3>5
    <2>5. SF!TypeOK'
        <3>1. client' \in [Client -> Calls]
            BY <1>2, <1>4 DEF SF!TypeOK, SF!Goto, Calls
        <3>2. clientSock' \in [Client -> {"none", "open", "shutWr", "reset", "closed"}]
            BY <1>2, <1>4 DEF SF!TypeOK
        <3> QED
            BY <1>1, <1>2, <1>4, <2>4, <3>1, <3>2 DEF SF!TypeOK, Calls
    <2>6. SF!Accepted'
        <3>1. \A i \in DOMAIN backlog' : backlog'[i] # sockRemote'
            BY <1>1, <1>2, <2>3, <2>4 DEF SF!Accepted
        <3>2. \A i, j \in DOMAIN backlog' : backlog'[i] = backlog'[j] => i = j
            BY <1>2, <2>3, <2>4 DEF SF!Accepted
        <3> QED
            BY <1>1, <1>2, <2>1, <3>1, <3>2 DEF SF!Accepted, SF!ServerEnded, SF!Serving, SF!NoClient
    <2>7. \A d \in Client \ {c} :
             /\ client'[d] = client[d] /\ clientSock'[d] = clientSock[d] /\ unread'[d] = unread[d]
             /\ toServer'[d] = toServer[d] /\ toClient'[d] = toClient[d] /\ inbox'[d] = inbox[d]
             /\ SF!Place(d)' = SF!Place(d)
        <3> SUFFICES ASSUME NEW d \in Client \ {c}
                     PROVE  /\ client'[d] = client[d] /\ clientSock'[d] = clientSock[d] /\ unread'[d] = unread[d]
                            /\ toServer'[d] = toServer[d] /\ toClient'[d] = toClient[d] /\ inbox'[d] = inbox[d]
                            /\ SF!Place(d)' = SF!Place(d)
            OBVIOUS
        <3>1. (\E i \in DOMAIN backlog' : backlog'[i] = d) <=> (\E i \in DOMAIN backlog : backlog[i] = d)
            BY <2>4
        <3>2. SF!Place(d)' = SF!Place(d)
            BY <1>1, <3>1 DEF SF!Place
        <3> QED
            BY <1>1, <1>2, <1>4, <3>2 DEF SF!TypeOK, SF!Goto
    <2>8. SF!Fits(c)'
        <3>1. /\ client'[c] = "send A" /\ clientSock'[c] = "open" /\ unread'[c] = unread[c]
              /\ toServer'[c] = toServer[c] /\ toClient'[c] = toClient[c] /\ inbox'[c] = inbox[c]
            BY <1>1, <1>2, <1>4 DEF SF!TypeOK, SF!Goto
        <3>2. SF!Place(c)' = "backlog"
            <4>1. \E i \in DOMAIN backlog' : backlog'[i] = c
                BY <2>4
            <4> QED
                BY <1>1, <2>3, <4>1 DEF SF!Place
        <3>3. SF!SocketFits(c)' /\ SF!Quiet(c)' /\ SF!SentNothing(c)'
            BY <2>2, <3>1 DEF SF!SocketFits, SF!Quiet, SF!SentNothing, SF!Link
        <3> QED
            BY <3>1, <3>2, <3>3 DEF SF!Fits, SF!BeforeA, SF!Idle
    <2>9. \A d \in Client : SF!Fits(d)'
        <3>1. \A d \in Client : SF!Fits(d)
            BY <2>1 DEF SF!RequestInv
        <3> QED
            BY <2>7, <2>8, <3>1, FitsKept
    <2>10. /\ \A d \in Client : client[d] \in SF!Killed => client'[d] = client[d]
           /\ \A d \in Client : \A i \in DOMAIN inbox'[d].octets : inbox'[d].octets[i] # "B"
           /\ server' = server
        <3>1. client[c] \notin SF!Killed
            BY <1>1 DEF SF!Killed
        <3>2. \A d \in Client : \A i \in DOMAIN inbox[d].octets : inbox[d].octets[i] # "B"
            BY DEF SF!RequestInv, SF!OnlyRequestArrives
        <3> QED
            BY <1>1, <2>7, <3>1, <3>2
    <2> QED
        BY <2>5, <2>6, <2>9, <2>10, VerdictKept
<1> QED
    BY <1>3, <1>4 DEF SF!Connect

\* The server makes a call of one connection and stays with it.
LEMMA ServerStays ==
    ASSUME SF!RequestInv, SF!TypeOK', NEW c \in Client, c = sockRemote,
           server \in SF!Serving, server' \in SF!Serving,
           UNCHANGED <<sockRemote, backlog, client, clientSock, unread, toServer>>,
           \A d \in Client \ {c} : toClient'[d] = toClient[d] /\ inbox'[d] = inbox[d],
           \A i \in DOMAIN inbox'[c].octets : inbox'[c].octets[i] # "B",
           SF!Fits(c)'
    PROVE  SF!RequestInv'
<1>1. /\ SF!TypeOK /\ SF!Accepted /\ SF!OnlyRequestArrives
      /\ server \notin SF!ServerEnded => \A d \in Client : SF!Fits(d)
    BY DEF SF!RequestInv
<1>2. server \notin SF!ServerEnded /\ server' \notin SF!ServerEnded /\ server' \notin {"socket", "aborted", "returned"}
    BY DEF SF!Serving, SF!ServerEnded
<1>3. SF!Accepted'
    BY <1>1, <1>2 DEF SF!Accepted, SF!ServerEnded, SF!Serving, SF!NoClient
<1>4. ASSUME NEW d \in Client
      PROVE  SF!Fits(d)' /\ \A i \in DOMAIN inbox'[d].octets : inbox'[d].octets[i] # "B"
    <2>1. CASE d = c
        BY <2>1
    <2>2. CASE d # c
        <3>1. toClient'[d] = toClient[d] /\ inbox'[d] = inbox[d]
            BY <2>2
        <3>2. SF!Place(d)' = SF!Place(d)
            BY <2>2 DEF SF!Place
        <3>3. SF!Fits(d) /\ \A i \in DOMAIN inbox[d].octets : inbox[d].octets[i] # "B"
            BY <1>1, <1>2 DEF SF!OnlyRequestArrives
        <3> QED
            BY <3>1, <3>2, <3>3, FitsKept
    <2> QED
        BY <2>1, <2>2
<1>5. \A d \in Client : client[d] \in SF!Killed => client'[d] = client[d]
    OBVIOUS
<1> QED
    BY <1>2, <1>3, <1>4, <1>5, VerdictKept

\* The server reads from a connection: what is left is what was there, or all but the
\* first octet.
LEMMA TakeOctetFacts ==
    ASSUME SF!RequestInv, NEW c \in Client, SF!TakeOctet(c)
    PROVE  /\ inbox' \in [Client -> [octets : Seq(SF!Segment), fin : BOOLEAN, rst : BOOLEAN]]
           /\ \A d \in Client \ {c} : inbox'[d] = inbox[d]
           /\ inbox[c].octets = <<>> => inbox'[c].octets = <<>>
           /\ inbox[c].octets # <<>> => inbox'[c].octets = Tail(inbox[c].octets)
           /\ inbox'[c].fin = inbox[c].fin /\ inbox'[c].rst = inbox[c].rst
           /\ \A d \in Client : \A i \in DOMAIN inbox'[d].octets : inbox'[d].octets[i] # "B"
<1>1. inbox \in [Client -> [octets : Seq(SF!Segment), fin : BOOLEAN, rst : BOOLEAN]]
    BY DEF SF!RequestInv, SF!TypeOK
<1>2. \A d \in Client : \A i \in DOMAIN inbox[d].octets : inbox[d].octets[i] # "B"
    BY DEF SF!RequestInv, SF!OnlyRequestArrives
<1> DEFINE old == inbox[c].octets
           new == IF old = <<>> THEN old ELSE Tail(old)
<1>3. old \in Seq(SF!Segment) /\ new \in Seq(SF!Segment)
    <2>1. old \in Seq(SF!Segment)
        BY <1>1
    <2> QED
        BY <2>1
<1>4. \A i \in DOMAIN new : new[i] # "B"
    BY <1>2, <1>3, TailInside
<1>5. inbox' = [inbox EXCEPT ![c] = [inbox[c] EXCEPT !.octets = new]]
    BY <1>1 DEF SF!TakeOctet
<1> HIDE DEF new
<1>6. inbox'[c] = [inbox[c] EXCEPT !.octets = new] /\ \A d \in Client \ {c} : inbox'[d] = inbox[d]
    BY <1>1, <1>5
<1>7. inbox[c] \in [octets : Seq(SF!Segment), fin : BOOLEAN, rst : BOOLEAN]
    BY <1>1
<1>8. inbox'[c].octets = new /\ inbox'[c].fin = inbox[c].fin /\ inbox'[c].rst = inbox[c].rst
    BY <1>6, <1>7
<1>9. [inbox[c] EXCEPT !.octets = new] \in [octets : Seq(SF!Segment), fin : BOOLEAN, rst : BOOLEAN]
    BY <1>3, <1>7
<1>10. inbox' \in [Client -> [octets : Seq(SF!Segment), fin : BOOLEAN, rst : BOOLEAN]]
    BY <1>1, <1>5, <1>9
<1>11. \A d \in Client : \A i \in DOMAIN inbox'[d].octets : inbox'[d].octets[i] # "B"
    <2> SUFFICES ASSUME NEW d \in Client
                 PROVE  \A i \in DOMAIN inbox'[d].octets : inbox'[d].octets[i] # "B"
        OBVIOUS
    <2>1. CASE d = c
        BY <1>4, <1>8, <2>1
    <2>2. CASE d # c
        BY <1>2, <1>6, <2>2
    <2> QED
        BY <2>1, <2>2
<1>12. /\ inbox[c].octets = <<>> => new = <<>>
       /\ inbox[c].octets # <<>> => new = Tail(inbox[c].octets)
    BY DEF new
<1> QED
    BY <1>6, <1>8, <1>10, <1>11, <1>12

\* What a closing server adds to a connection is at most one segment.
LEMMA ServerClosesFacts ==
    ASSUME NEW c \in Client
    PROVE  /\ SF!ServerCloses(c) \in {<<>>, <<"FIN">>, <<"RST">>}
           /\ inbox[c].octets = <<>> => SF!ServerCloses(c) \in {<<>>, <<"FIN">>}
BY Zenon DEF SF!ServerCloses

\* Texts of at most one segment.
LEMMA AtMostOne ==
    ASSUME NEW s \in {<<>>, <<"FIN">>, <<"RST">>}
    PROVE  s \in Seq(SF!Segment)
<1>1. "RST" \in SF!Segment /\ "FIN" \in SF!Segment
    BY DEF SF!Segment
<1>2. <<"RST">> \in Seq(SF!Segment) /\ <<"FIN">> \in Seq(SF!Segment) /\ <<>> \in Seq(SF!Segment)
    BY <1>1
<1> QED
    BY <1>2

\* The empty sequence.
LEMMA NoneWaiting ==
    /\ <<>> \in Seq(Client) /\ DOMAIN <<>> = {}
    /\ ~\E i \in DOMAIN <<>> : TRUE
OBVIOUS

\* The server ends, for the reason it must have.
LEMMA ServerEndsStep ==
    ASSUME SF!RequestInv, NEW how \in {"aborted", "returned"}, SF!ServerEnds(how),
           UNCHANGED <<client, clientSock, unread, toServer>>,
           inbox' \in [Client -> [octets : Seq(SF!Segment), fin : BOOLEAN, rst : BOOLEAN]],
           \A d \in Client : \A i \in DOMAIN inbox'[d].octets : inbox'[d].octets[i] # "B",
           how = "aborted" => \E d \in Client : client[d] = "killed before A",
           how = "returned" => \E d \in Client : client[d] = "killed before FIN"
    PROVE  SF!RequestInv'
<1>1. SF!TypeOK
    BY DEF SF!RequestInv
<1>2. server' = how /\ sockRemote' = SF!NoClient /\ backlog' = <<>>
    BY DEF SF!ServerEnds
<1>3. toClient' \in [Client -> Seq(SF!Segment)]
    <2>1. ASSUME NEW d \in Client
          PROVE  /\ toClient[d] \in Seq(SF!Segment)
                 /\ toClient[d] \o SF!ServerCloses(d) \in Seq(SF!Segment)
                 /\ Append(toClient[d], "RST") \in Seq(SF!Segment)
        <3>1. toClient[d] \in Seq(SF!Segment) /\ "RST" \in SF!Segment
            BY <1>1 DEF SF!TypeOK, SF!Segment
        <3>2. SF!ServerCloses(d) \in Seq(SF!Segment)
            BY ServerClosesFacts, AtMostOne
        <3> QED
            BY <3>1, <3>2, ConcatProperties, AppendProperties
    <2> QED
        BY <2>1 DEF SF!ServerEnds
<1>4. SF!TypeOK'
    <2>1. server' \in SF!ServerEnded /\ sockRemote' \in Client \cup {SF!NoClient} /\ backlog' \in Seq(Client)
        BY <1>2, NoneWaiting DEF SF!ServerEnded
    <2> QED
        BY <1>1, <1>3, <2>1 DEF SF!TypeOK
<1>5. SF!Accepted'
    <2>1. DOMAIN backlog' = {}
        BY <1>2, NoneWaiting
    <2>2. sockRemote' \notin Client /\ server' \notin SF!Serving /\ server' # "socket"
        BY <1>2, SendAfterFinAssumption DEF SF!Serving, SF!NoClient
    <2> QED
        BY <1>2, <2>1, <2>2 DEF SF!Accepted, SF!NoClient
<1>6. SF!OnlyRequestArrives'
    BY <1>2 DEF SF!OnlyRequestArrives, SF!ServerEnded
<1> QED
    BY <1>2, <1>4, <1>5, <1>6 DEF SF!RequestInv, SF!ServerEnded

\* The connection the server talks to.
LEMMA Served ==
    ASSUME SF!RequestInv, server \in SF!Serving
    PROVE  sockRemote \in Client /\ SF!Fits(sockRemote) /\ SF!Place(sockRemote) = server
<1>1. sockRemote \in Client
    BY DEF SF!RequestInv, SF!Accepted
<1>2. server \notin SF!ServerEnded
    BY DEF SF!ServerEnded, SF!Serving
<1> QED
    BY <1>1, <1>2 DEF SF!RequestInv, SF!Place

\* The server waits for 'A'.
LEMMA RecvAStep ==
    ASSUME SF!RequestInv, NEW c \in Client, c = sockRemote, SF!RecvA
    PROVE  SF!RequestInv'
<1>1. /\ server = "recv A" /\ SF!Readable(c) /\ SF!TakeOctet(c)
      /\ IF SF!Received(c) = "A"
         THEN server' = "send C" /\ UNCHANGED <<sockRemote, backlog, toClient>>
         ELSE SF!ServerEnds("aborted")
      /\ UNCHANGED <<client, clientSock, unread, toServer>>
    BY DEF SF!RecvA
<1>2. server \in SF!Serving
    BY <1>1 DEF SF!Serving
<1>3. SF!Fits(c) /\ SF!Place(c) = "recv A"
    BY <1>1, <1>2, Served
<1>4. SF!SocketFits(c) /\ SF!BeforeA(c) /\ SF!Quiet(c)
    BY <1>3 DEF SF!Fits, SF!BeforeA
<1>5. SF!TypeOK
    BY DEF SF!RequestInv
<1>6. /\ inbox' \in [Client -> [octets : Seq(SF!Segment), fin : BOOLEAN, rst : BOOLEAN]]
      /\ \A d \in Client \ {c} : inbox'[d] = inbox[d]
      /\ inbox[c].octets = <<>> => inbox'[c].octets = <<>>
      /\ inbox[c].octets # <<>> => inbox'[c].octets = Tail(inbox[c].octets)
      /\ inbox'[c].fin = inbox[c].fin /\ inbox'[c].rst = inbox[c].rst
      /\ \A d \in Client : \A i \in DOMAIN inbox'[d].octets : inbox'[d].octets[i] # "B"
    BY <1>1, <1>3, TakeOctetFacts
<1>7. CASE SF!Received(c) # "A"
    <2>1. inbox[c].octets # <<"A">>
        BY <1>7, ShortTexts DEF SF!Received
    <2>2. inbox[c].octets # <<>> \/ inbox[c].fin
        BY <1>1, <1>4 DEF SF!Readable, SF!Quiet
    <2>3. client[c] = "killed before A"
        BY <1>4, <2>1, <2>2 DEF SF!BeforeA, SF!SentNothing, SF!SentA, SF!SentBoth, SF!Link
    <2> QED
        BY <1>1, <1>3, <1>6, <1>7, <2>3, ServerEndsStep
<1>8. CASE SF!Received(c) = "A"
    <2>1. server' = "send C" /\ UNCHANGED <<sockRemote, backlog, toClient>>
        BY <1>1, <1>8
    <2>2. inbox[c].octets # <<>>
        BY <1>8 DEF SF!Received
    <2>3. /\ client'[c] = client[c] /\ clientSock'[c] = clientSock[c] /\ unread'[c] = unread[c]
          /\ toServer'[c] = toServer[c] /\ toClient'[c] = toClient[c] /\ SF!Place(c)' = "send C"
        BY <1>1, <2>1 DEF SF!Place
    <2>4. inbox'[c].octets = Tail(inbox[c].octets)
        BY <1>6, <2>2
    <2>5. SF!Quiet(c)' /\ SF!SocketFits(c)'
        BY <1>4, <1>6, <2>3 DEF SF!Quiet, SF!SocketFits
    <2>6. \/ client[c] = "shutdown" /\ inbox[c].octets = <<"A">> /\ ~inbox[c].fin /\ toServer[c] = <<>>
          \/ client[c] \in SF!Closing /\ inbox[c].octets = <<"A">> /\ ~inbox[c].fin /\ toServer[c] = <<"FIN">>
          \/ client[c] \in SF!Closing /\ inbox[c].octets = <<"A">> /\ inbox[c].fin /\ toServer[c] = <<>>
        BY <1>4, <2>2 DEF SF!BeforeA, SF!SentNothing, SF!SentA, SF!SentFin, SF!SentBoth, SF!Link
    <2>7. inbox'[c].octets = <<>>
        BY <2>4, <2>6, ShortTexts
    <2>8. inbox'[c].fin \in BOOLEAN
        BY <1>3, <1>6
    <2>9. SF!BeforeC(c)' /\ client'[c] \notin SF!Idle /\ client'[c] # "aborted"
        BY <1>6, <2>3, <2>5, <2>6, <2>7, <2>8
        DEF SF!BeforeC, SF!SentNothing, SF!SentFin, SF!Link, SF!Idle, SF!Closing
    <2>10. SF!Fits(c)'
        BY <2>3, <2>5, <2>9 DEF SF!Fits
    <2>11. SF!TypeOK'
        BY <1>1, <1>5, <1>6, <2>1 DEF SF!TypeOK, SF!Serving
    <2>12. server' \in SF!Serving
        BY <2>1 DEF SF!Serving
    <2> QED
        BY <1>1, <1>2, <1>3, <1>6, <2>1, <2>10, <2>11, <2>12, ServerStays
<1> QED
    BY <1>7, <1>8

\* The server sends 'C': nothing has reset the connection.
LEMMA SendCStep ==
    ASSUME SF!RequestInv, NEW c \in Client, c = sockRemote, SF!SendC
    PROVE  SF!RequestInv'
<1>1. server = "send C" /\ UNCHANGED <<client, clientSock, unread, toServer, inbox>>
    BY DEF SF!SendC
<1>2. server \in SF!Serving
    BY <1>1 DEF SF!Serving
<1>3. SF!Fits(c) /\ SF!Place(c) = "send C"
    BY <1>1, <1>2, Served
<1>4. SF!SocketFits(c) /\ SF!BeforeC(c) /\ SF!Quiet(c)
    BY <1>3 DEF SF!Fits, SF!BeforeC
<1>5. /\ server' = "recv EOF" /\ UNCHANGED <<sockRemote, backlog>>
      /\ toClient' = [toClient EXCEPT ![c] = Append(toClient[c], "C")]
    BY <1>4 DEF SF!SendC, SF!Quiet
<1>6. /\ SF!TypeOK /\ \A i \in DOMAIN inbox[c].octets : inbox[c].octets[i] # "B"
    BY RequestFacts
<1>7. toClient' \in [Client -> Seq(SF!Segment)]
    <2>1. toClient \in [Client -> Seq(SF!Segment)] /\ toClient[c] \in Seq(SF!Segment) /\ "C" \in SF!Segment
        BY <1>6 DEF SF!TypeOK, SF!Segment
    <2>2. Append(toClient[c], "C") \in Seq(SF!Segment)
        BY <2>1, AppendProperties
    <2> QED
        BY <1>5, <2>1, <2>2
<1>8. SF!TypeOK' /\ server' \in SF!Serving
    BY <1>1, <1>5, <1>6, <1>7 DEF SF!TypeOK, SF!Serving
<1>9. \A d \in Client \ {c} : toClient'[d] = toClient[d] /\ inbox'[d] = inbox[d]
    BY <1>1, <1>5, <1>6 DEF SF!TypeOK
<1>10. /\ client'[c] = client[c] /\ clientSock'[c] = clientSock[c] /\ unread'[c] = unread[c]
       /\ toServer'[c] = toServer[c] /\ inbox'[c] = inbox[c] /\ SF!Place(c)' = "recv EOF"
    BY <1>1, <1>5 DEF SF!Place
<1>11. toClient'[c] = <<"C">>
    BY <1>4, <1>5, <1>6, ShortTexts DEF SF!TypeOK, SF!Quiet
<1>12. SF!SocketFits(c)'
    <2>1. \A i \in DOMAIN toClient'[c] : toClient'[c][i] # "RST"
        BY <1>11, ShortTexts
    <2> QED
        BY <1>4, <1>10, <2>1 DEF SF!SocketFits
<1>13. SF!BeforeEof(c)'
    <2>1. \/ client[c] = "shutdown" /\ inbox[c].octets = <<>> /\ ~inbox[c].fin /\ toServer[c] = <<>>
          \/ client[c] \in SF!Closing /\ inbox[c].octets = <<>> /\ ~inbox[c].fin /\ toServer[c] = <<"FIN">>
          \/ client[c] \in SF!Closing /\ inbox[c].octets = <<>> /\ inbox[c].fin /\ toServer[c] = <<>>
        BY <1>4 DEF SF!BeforeC, SF!SentNothing, SF!SentFin, SF!Link
    <2>2. SF!NoOctets(toServer[c])
        <3>1. SF!NoOctets(<<>>) /\ SF!NoOctets(<<"FIN">>)
            BY ShortTexts, NoneWaiting DEF SF!NoOctets
        <3> QED
            BY <2>1, <3>1
    <2>3. ~inbox[c].rst
        BY <1>4 DEF SF!Quiet
    <2>4. toServer[c] = <<"FIN">> => toServer[c] # <<>> /\ Head(toServer[c]) = "FIN"
        BY ShortTexts
    <2>5. inbox[c].fin \in BOOLEAN
        BY <1>6 DEF SF!TypeOK
    <2> QED
        BY <1>10, <2>1, <2>2, <2>3, <2>4, <2>5 DEF SF!BeforeEof, SF!SentNothing, SF!Link
<1>14. client'[c] \notin SF!Idle /\ client'[c] # "aborted"
    BY <1>4, <1>10 DEF SF!BeforeC, SF!Idle, SF!Closing
<1>15. SF!Fits(c)'
    BY <1>10, <1>12, <1>13, <1>14 DEF SF!Fits
<1>16. \A i \in DOMAIN inbox'[c].octets : inbox'[c].octets[i] # "B"
    BY <1>6, <1>10
<1> QED
    BY <1>1, <1>2, <1>5, <1>8, <1>9, <1>15, <1>16, ServerStays

\* The server waits for the end of the stream.
LEMMA RecvEofStep ==
    ASSUME SF!RequestInv, NEW c \in Client, c = sockRemote, SF!RecvEof
    PROVE  SF!RequestInv'
<1>1. /\ server = "recv EOF" /\ SF!Readable(c) /\ SF!TakeOctet(c)
      /\ IF SF!Received(c) = "EOF"
         THEN server' = "close" /\ UNCHANGED <<sockRemote, backlog, toClient>>
         ELSE SF!ServerEnds("returned")
      /\ UNCHANGED <<client, clientSock, unread, toServer>>
    BY DEF SF!RecvEof
<1>2. server \in SF!Serving
    BY <1>1 DEF SF!Serving
<1>3. SF!Fits(c) /\ SF!Place(c) = "recv EOF"
    BY <1>1, <1>2, Served
<1>4. SF!SocketFits(c) /\ SF!BeforeEof(c)
    BY <1>3 DEF SF!Fits
<1>5. SF!TypeOK
    BY DEF SF!RequestInv
<1>6. /\ inbox' \in [Client -> [octets : Seq(SF!Segment), fin : BOOLEAN, rst : BOOLEAN]]
      /\ \A d \in Client \ {c} : inbox'[d] = inbox[d]
      /\ inbox[c].octets = <<>> => inbox'[c].octets = <<>>
      /\ inbox[c].octets # <<>> => inbox'[c].octets = Tail(inbox[c].octets)
      /\ inbox'[c].fin = inbox[c].fin /\ inbox'[c].rst = inbox[c].rst
      /\ \A d \in Client : \A i \in DOMAIN inbox'[d].octets : inbox'[d].octets[i] # "B"
    BY <1>1, TakeOctetFacts
<1>7. inbox[c].octets = <<>> /\ SF!NoOctets(toServer[c]) /\ (inbox[c].fin \/ inbox[c].rst)
    BY <1>1, <1>4 DEF SF!BeforeEof, SF!Readable
<1>8. CASE ~inbox[c].fin
    <2>1. client[c] = "killed before FIN"
        BY <1>4, <1>7, <1>8 DEF SF!BeforeEof
    <2>2. SF!Received(c) # "EOF"
        BY <1>7, <1>8 DEF SF!Received
    <2>3. SF!ServerEnds("returned")
        BY <1>1, <2>2
    <2> QED
        BY <1>1, <1>6, <2>1, <2>3, ServerEndsStep
<1>9. CASE inbox[c].fin
    <2>1. SF!Received(c) = "EOF"
        BY <1>7, <1>9 DEF SF!Received
    <2>2. server' = "close" /\ UNCHANGED <<sockRemote, backlog, toClient>>
        BY <1>1, <2>1
    <2>3. /\ client'[c] = client[c] /\ clientSock'[c] = clientSock[c]
          /\ toServer'[c] = toServer[c] /\ toClient'[c] = toClient[c] /\ SF!Place(c)' = "close"
        BY <1>1, <2>2 DEF SF!Place
    <2>4. inbox'[c].octets = <<>> /\ inbox'[c].fin
        BY <1>6, <1>7, <1>9
    <2>5. client[c] \in SF!Closing
        BY <1>4, <1>9 DEF SF!BeforeEof, SF!SentNothing, SF!Link
    <2>6. client[c] \notin SF!Idle /\ client[c] # "aborted"
        BY <2>5 DEF SF!Closing, SF!Idle
    <2>7. SF!SocketFits(c)'
        BY <1>4, <2>3 DEF SF!SocketFits
    <2>8. SF!Fits(c)'
        BY <1>7, <2>3, <2>4, <2>5, <2>6, <2>7 DEF SF!Fits
    <2>9. SF!TypeOK' /\ server' \in SF!Serving
        BY <1>1, <1>5, <1>6, <2>2 DEF SF!TypeOK, SF!Serving
    <2> QED
        BY <1>1, <1>2, <1>6, <2>2, <2>8, <2>9, ServerStays
<1> QED
    BY <1>8, <1>9

\* A connection the server is done with.
LEMMA CloseStep ==
    ASSUME SF!RequestInv, NEW c \in Client, c = sockRemote, SF!Close
    PROVE  SF!RequestInv'
<1>1. /\ server = "close" /\ server' = "accept" /\ sockRemote' = SF!NoClient
      /\ toClient' = [toClient EXCEPT ![c] = toClient[c] \o SF!ServerCloses(c)]
      /\ UNCHANGED <<backlog, client, clientSock, unread, toServer, inbox>>
    BY DEF SF!Close
<1>2. server \in SF!Serving
    BY <1>1 DEF SF!Serving
<1>3. SF!Fits(c) /\ SF!Place(c) = "close"
    BY <1>1, <1>2, Served
<1>4. /\ SF!SocketFits(c) /\ inbox[c].octets = <<>> /\ client[c] \notin SF!Idle
      /\ client[c] \in SF!Closing /\ SF!NoOctets(toServer[c]) /\ client[c] # "aborted"
    BY <1>3 DEF SF!Fits
<1>5. SF!TypeOK /\ SF!Accepted
    BY DEF SF!RequestInv
<1>6. SF!NoClient \notin Client /\ \A i \in DOMAIN backlog : backlog[i] # c /\ backlog[i] # SF!NoClient
    <2>1. SF!NoClient \notin Client
        BY SendAfterFinAssumption DEF SF!NoClient
    <2>2. \A i \in DOMAIN backlog : backlog[i] \in Client
        <3>1. backlog \in Seq(Client)
            BY <1>5 DEF SF!TypeOK
        <3> QED
            BY <3>1
    <2> QED
        BY <1>5, <2>1, <2>2 DEF SF!Accepted
<1>7. /\ toClient[c] \o SF!ServerCloses(c) \in Seq(SF!Segment)
      /\ \A i \in DOMAIN (toClient[c] \o SF!ServerCloses(c)) : (toClient[c] \o SF!ServerCloses(c))[i] # "RST"
    <2>1. toClient[c] \in Seq(SF!Segment) /\ \A i \in DOMAIN toClient[c] : toClient[c][i] # "RST"
        BY <1>4, <1>5 DEF SF!TypeOK, SF!SocketFits
    <2>2. SF!ServerCloses(c) \in {<<>>, <<"FIN">>}
        BY <1>4, ServerClosesFacts
    <2>3. CASE SF!ServerCloses(c) = <<>>
        BY <2>1, <2>3, ConcatEmptySeq
    <2>4. CASE SF!ServerCloses(c) = <<"FIN">>
        <3>1. toClient[c] \o <<"FIN">> = Append(toClient[c], "FIN") /\ "FIN" \in SF!Segment
            BY <2>1, AppendIsConcat DEF SF!Segment
        <3>2. Append(toClient[c], "FIN") \in Seq(SF!Segment)
            BY <2>1, <3>1, AppendProperties
        <3>3. \A i \in DOMAIN Append(toClient[c], "FIN") : Append(toClient[c], "FIN")[i] # "RST"
            BY <2>1
        <3> QED
            BY <2>4, <3>1, <3>2, <3>3
    <2> QED
        BY <2>2, <2>3, <2>4
<1>8. SF!TypeOK'
    <2>1. toClient' \in [Client -> Seq(SF!Segment)]
        BY <1>1, <1>5, <1>7 DEF SF!TypeOK
    <2> QED
        BY <1>1, <1>5, <2>1 DEF SF!TypeOK
<1>9. SF!Accepted'
    BY <1>1, <1>5, <1>6 DEF SF!Accepted, SF!ServerEnded, SF!Serving
<1>10. ASSUME NEW d \in Client
       PROVE  SF!Fits(d)'
    <2>1. CASE d # c
        <3>1. SF!Place(d)' = SF!Place(d)
            BY <1>1, <1>6, <2>1 DEF SF!Place
        <3>2. toClient'[d] = toClient[d]
            BY <1>1, <1>5, <2>1 DEF SF!TypeOK
        <3>3. SF!Fits(d)
            BY <1>1 DEF SF!RequestInv, SF!ServerEnded
        <3> QED
            BY <1>1, <3>1, <3>2, <3>3, FitsKept
    <2>2. CASE d = c
        <3>1. SF!Place(c)' = "none"
            BY <1>1, <1>6 DEF SF!Place
        <3>2. toClient'[c] = toClient[c] \o SF!ServerCloses(c)
            BY <1>1, <1>5 DEF SF!TypeOK
        <3>3. SF!SocketFits(c)'
            BY <1>1, <1>4, <1>7, <3>2 DEF SF!SocketFits
        <3>4. client'[c] = client[c] /\ toServer'[c] = toServer[c]
            BY <1>1
        <3>5. SF!Fits(c)'
            BY <1>4, <3>1, <3>3, <3>4 DEF SF!Fits
        <3> QED
            BY <2>2, <3>5
    <2> QED
        BY <2>1, <2>2
<1>11. \A d \in Client : \A i \in DOMAIN inbox'[d].octets : inbox'[d].octets[i] # "B"
    BY <1>1 DEF SF!RequestInv, SF!OnlyRequestArrives
<1>12. /\ \A d \in Client : client[d] \in SF!Killed => client'[d] = client[d]
       /\ server \notin SF!ServerEnded /\ server' \notin {"aborted", "returned"}
    BY <1>1 DEF SF!ServerEnded
<1> QED
    BY <1>8, <1>9, <1>10, <1>11, <1>12, VerdictKept

\* The server starts to listen, or gets no socket.
LEMMA ListenStep ==
    ASSUME SF!RequestInv, SF!Listen
    PROVE  SF!RequestInv'
<1>1. /\ server = "socket" /\ server' \in {"accept", "no socket"}
      /\ UNCHANGED <<sockRemote, backlog, client, clientSock, unread, toServer, toClient, inbox>>
    BY DEF SF!Listen
<1>2. SF!TypeOK /\ SF!Accepted /\ SF!OnlyRequestArrives /\ \A d \in Client : SF!Fits(d)
    BY <1>1 DEF SF!RequestInv, SF!ServerEnded
<1>3. sockRemote \notin Client /\ backlog = <<>> /\ sockRemote = SF!NoClient
    BY <1>1, <1>2 DEF SF!Accepted, SF!Serving, SF!TypeOK
<1>4. SF!TypeOK'
    BY <1>1, <1>2 DEF SF!TypeOK, SF!ServerEnded
<1>5. SF!Accepted'
    BY <1>1, <1>2, <1>3 DEF SF!Accepted, SF!Serving, SF!NoClient
<1>6. ASSUME NEW d \in Client
      PROVE  SF!Fits(d)'
    <2>1. SF!Place(d)' = SF!Place(d)
        BY <1>1, <1>3 DEF SF!Place
    <2> QED
        BY <1>1, <1>2, <2>1, FitsKept
<1>7. \A d \in Client : \A i \in DOMAIN inbox'[d].octets : inbox'[d].octets[i] # "B"
    BY <1>1, <1>2 DEF SF!OnlyRequestArrives
<1>8. /\ \A d \in Client : client[d] \in SF!Killed => client'[d] = client[d]
      /\ server \notin SF!ServerEnded /\ server' \notin {"aborted", "returned"}
    BY <1>1 DEF SF!ServerEnded
<1> QED
    BY <1>4, <1>5, <1>6, <1>7, <1>8, VerdictKept

\* The begin of a sequence and what is behind it.
LEMMA HeadAndTail ==
    ASSUME NEW S, NEW s \in Seq(S), s # <<>>
    PROVE  /\ 1 \in DOMAIN s /\ s[1] = Head(s) /\ Tail(s) \in Seq(S)
           /\ \A i \in DOMAIN s : i = 1 \/ (i - 1 \in DOMAIN Tail(s) /\ Tail(s)[i - 1] = s[i])
OBVIOUS

\* The server accepts the connection that waits longest.
LEMMA AcceptStep ==
    ASSUME SF!RequestInv, NEW c \in Client, c = Head(backlog), SF!Accept
    PROVE  SF!RequestInv'
<1>1. /\ server = "accept" /\ backlog # <<>> /\ sockRemote' = c /\ backlog' = Tail(backlog)
      /\ server' = "recv A" /\ UNCHANGED <<client, clientSock, unread, toServer, toClient, inbox>>
    BY DEF SF!Accept
<1>2. SF!TypeOK /\ SF!Accepted /\ SF!OnlyRequestArrives /\ \A d \in Client : SF!Fits(d)
    BY <1>1 DEF SF!RequestInv, SF!ServerEnded
<1>3. sockRemote \notin Client /\ backlog \in Seq(Client)
    BY <1>1, <1>2 DEF SF!Accepted, SF!Serving, SF!TypeOK
<1>4. 1 \in DOMAIN backlog /\ backlog[1] = c
    BY <1>1, <1>3, HeadAndTail
<1>5. /\ backlog' \in Seq(Client)
      /\ \A i \in DOMAIN backlog' : i \in Nat \ {0} /\ i + 1 \in DOMAIN backlog /\ backlog'[i] = backlog[i + 1]
      /\ \A i \in DOMAIN backlog : i = 1 \/ (i - 1 \in DOMAIN backlog' /\ backlog'[i - 1] = backlog[i])
    <2>1. Tail(backlog) \in Seq(Client)
        BY <1>1, <1>3, HeadAndTail
    <2>2. \A i \in DOMAIN Tail(backlog) : i \in Nat \ {0}
        BY <2>1
    <2>3. \A i \in DOMAIN Tail(backlog) : i + 1 \in DOMAIN backlog /\ Tail(backlog)[i] = backlog[i + 1]
        BY <1>1, <1>3, TailInside
    <2>4. \A i \in DOMAIN backlog : i = 1 \/ (i - 1 \in DOMAIN Tail(backlog) /\ Tail(backlog)[i - 1] = backlog[i])
        BY <1>1, <1>3, HeadAndTail
    <2> QED
        BY <1>1, <2>1, <2>2, <2>3, <2>4
<1>6. SF!TypeOK'
    BY <1>1, <1>2, <1>5 DEF SF!TypeOK, SF!Serving
<1>7. \A i, j \in DOMAIN backlog : backlog[i] = backlog[j] => i = j
    BY <1>2 DEF SF!Accepted
<1>8. \A i \in DOMAIN backlog' : backlog'[i] # c
    <2> SUFFICES ASSUME NEW i \in DOMAIN backlog', backlog'[i] = c
                 PROVE  FALSE
        OBVIOUS
    <2>1. i \in Nat \ {0} /\ i + 1 \in DOMAIN backlog /\ backlog[i + 1] = backlog[1]
        BY <1>4, <1>5
    <2>2. i + 1 = 1
        BY <1>4, <1>7, <2>1
    <2> QED
        BY <2>1, <2>2
<1>9. SF!Accepted'
    <2>1. \A i, j \in DOMAIN backlog' : backlog'[i] = backlog'[j] => i = j
        <3> SUFFICES ASSUME NEW i \in DOMAIN backlog', NEW j \in DOMAIN backlog', backlog'[i] = backlog'[j]
                     PROVE  i = j
            OBVIOUS
        <3>1. /\ i \in Nat /\ i + 1 \in DOMAIN backlog /\ j \in Nat /\ j + 1 \in DOMAIN backlog
              /\ backlog[i + 1] = backlog[j + 1]
            BY <1>5
        <3>2. i + 1 = j + 1
            BY <1>7, <3>1
        <3> QED
            BY <3>1, <3>2
    <2> QED
        BY <1>1, <1>8, <2>1 DEF SF!Accepted, SF!ServerEnded, SF!Serving
<1>10. ASSUME NEW d \in Client
       PROVE  SF!Fits(d)'
    <2>1. CASE d # c
        <3>1. (\E i \in DOMAIN backlog' : backlog'[i] = d) <=> (\E i \in DOMAIN backlog : backlog[i] = d)
            BY <1>4, <1>5, <2>1
        <3>2. SF!Place(d)' = SF!Place(d)
            BY <1>1, <1>3, <2>1, <3>1 DEF SF!Place
        <3> QED
            BY <1>1, <1>2, <3>2, FitsKept
    <2>2. CASE d = c
        <3>1. SF!Place(c) = "backlog" /\ SF!Place(c)' = "recv A"
            BY <1>1, <1>3, <1>4 DEF SF!Place
        <3>2. SF!Fits(c) /\ SF!SocketFits(c) /\ SF!BeforeA(c) /\ client[c] # "aborted" /\ client[c] \notin SF!Idle
            BY <1>2, <3>1 DEF SF!Fits
        <3>3. SF!SocketFits(c)' /\ SF!BeforeA(c)' /\ client'[c] = client[c]
            BY <1>1, <3>2 DEF SF!SocketFits, SF!BeforeA, SF!Quiet, SF!SentNothing, SF!SentA, SF!SentFin,
               SF!SentBoth, SF!Link
        <3>4. SF!Fits(c)'
            BY <3>1, <3>2, <3>3 DEF SF!Fits
        <3> QED
            BY <2>2, <3>4
    <2> QED
        BY <2>1, <2>2
<1>11. \A d \in Client : \A i \in DOMAIN inbox'[d].octets : inbox'[d].octets[i] # "B"
    BY <1>1, <1>2 DEF SF!OnlyRequestArrives
<1>12. /\ \A d \in Client : client[d] \in SF!Killed => client'[d] = client[d]
       /\ server \notin SF!ServerEnded /\ server' \notin {"aborted", "returned"}
    BY <1>1 DEF SF!ServerEnded
<1> QED
    BY <1>6, <1>9, <1>10, <1>11, <1>12, VerdictKept

\* Nothing changes.
LEMMA RequestKept ==
    ASSUME SF!RequestInv, UNCHANGED <<server, sockRemote, backlog, client, clientSock, unread, toServer, toClient, inbox>>
    PROVE  SF!RequestInv'
<1>1. SF!TypeOK /\ SF!Accepted /\ SF!OnlyRequestArrives /\ (server \notin SF!ServerEnded => \A d \in Client : SF!Fits(d))
    BY DEF SF!RequestInv
<1>2. SF!TypeOK' /\ SF!Accepted'
    BY <1>1 DEF SF!TypeOK, SF!Accepted, SF!ServerEnded, SF!Serving, SF!NoClient
<1>3. SF!OnlyRequestArrives'
    BY <1>1 DEF SF!OnlyRequestArrives, SF!ServerEnded
<1>4. ASSUME NEW d \in Client, server' \notin SF!ServerEnded
      PROVE  SF!Fits(d)'
    <2>1. SF!Place(d)' = SF!Place(d) /\ SF!Fits(d)
        BY <1>1, <1>4 DEF SF!Place, SF!ServerEnded
    <2> QED
        BY <2>1, FitsKept
<1> QED
    BY <1>2, <1>3, <1>4 DEF SF!RequestInv, SF!ServerEnded

\* The server's steps.
LEMMA ServerStep ==
    ASSUME SF!RequestInv, SF!ServerNext
    PROVE  SF!RequestInv'
<1>1. CASE SF!Listen
    BY <1>1, ListenStep
<1>2. CASE SF!Accept
    <2>1. backlog \in Seq(Client) /\ backlog # <<>>
        BY <1>2 DEF SF!RequestInv, SF!TypeOK, SF!Accept
    <2>2. PICK c \in Client : c = Head(backlog)
        BY <2>1
    <2> QED
        BY <1>2, <2>2, AcceptStep
<1>3. CASE SF!RecvA \/ SF!SendC \/ SF!RecvEof \/ SF!Close
    <2>1. server \in SF!Serving
        BY <1>3 DEF SF!Serving, SF!RecvA, SF!SendC, SF!RecvEof, SF!Close
    <2>2. PICK c \in Client : c = sockRemote
        BY <2>1, Served
    <2> QED
        BY <1>3, <2>2, RecvAStep, SendCStep, RecvEofStep, CloseStep
<1> QED
    BY <1>1, <1>2, <1>3 DEF SF!ServerNext

\* Every step of SendAfterFin.c keeps its invariant.
LEMMA RequestNext ==
    ASSUME SF!RequestInv, SF!Next
    PROVE  SF!RequestInv'
<1>1. CASE SF!ServerNext
    BY <1>1, ServerStep
<1>2. CASE SF!AtRest
    BY <1>2, RequestKept DEF SF!AtRest, SF!sfVars
<1>3. ASSUME NEW c \in Client, SF!ClientNext(c) \/ SF!ArrivesAtServer(c) \/ SF!ArrivesAtClient(c)
      PROVE  SF!RequestInv'
    BY <1>3, ConnectStep, SendAStep, ShutdownStep, EndsStep, ArrivesAtServerStep, ArrivesAtClientStep
    DEF SF!ClientNext
<1> QED
    BY <1>1, <1>2, <1>3 DEF SF!Next

\* It holds at the begin.
LEMMA RequestInit ==
    ASSUME SF!Init
    PROVE  SF!RequestInv
<1>1. /\ server \in {"socket", "refused"} /\ sockRemote = SF!NoClient /\ backlog = <<>>
      /\ clientSock = [c \in Client |-> "none"] /\ unread = [c \in Client |-> 0]
      /\ toServer = [c \in Client |-> <<>>] /\ toClient = [c \in Client |-> <<>>]
      /\ inbox = [c \in Client |-> [octets |-> <<>>, fin |-> FALSE, rst |-> FALSE]]
    BY DEF SF!Init
<1>2. client \in [Client -> {"connect", "refused"}]
    BY DEF SF!Init
<1>3. SF!NoClient \notin Client
    BY SendAfterFinAssumption DEF SF!NoClient
<1>4. /\ <<>> \in Seq(SF!Segment) /\ 0 \in Nat /\ <<>> \in Seq(Client) /\ DOMAIN <<>> = {}
      /\ [octets |-> <<>>, fin |-> FALSE, rst |-> FALSE] \in [octets : Seq(SF!Segment), fin : BOOLEAN, rst : BOOLEAN]
    OBVIOUS
<1>5. SF!TypeOK
    <2>1. client \in [Client -> Calls]
        BY <1>2 DEF Calls, SF!Idle
    <2>2. toServer \in [Client -> Seq(SF!Segment)] /\ toClient \in [Client -> Seq(SF!Segment)] /\ unread \in [Client -> Nat]
        BY <1>1, <1>4
    <2>3. inbox \in [Client -> [octets : Seq(SF!Segment), fin : BOOLEAN, rst : BOOLEAN]]
        BY <1>1, <1>4
    <2>4. clientSock \in [Client -> {"none", "open", "shutWr", "reset", "closed"}]
        BY <1>1
    <2>5. server \in SF!ServerEnded \cup SF!Serving \cup {"socket", "accept"}
        BY <1>1 DEF SF!ServerEnded
    <2> QED
        BY <1>1, <1>4, <2>1, <2>2, <2>3, <2>4, <2>5 DEF SF!TypeOK, Calls
<1>6. SF!Accepted
    BY <1>1, <1>3, <1>4 DEF SF!Accepted, SF!Serving
<1>7. ASSUME NEW c \in Client
      PROVE  SF!Fits(c) /\ inbox[c].octets = <<>> /\ client[c] # "aborted"
    <2>1. /\ client[c] \in {"connect", "refused"} /\ clientSock[c] = "none" /\ unread[c] = 0
          /\ toServer[c] = <<>> /\ toClient[c] = <<>>
          /\ inbox[c] = [octets |-> <<>>, fin |-> FALSE, rst |-> FALSE]
        BY <1>1, <1>2
    <2>2. SF!Place(c) = "none"
        BY <1>1, <1>3, <1>4 DEF SF!Place
    <2>3. inbox[c].octets = <<>> /\ inbox[c].fin = FALSE /\ inbox[c].rst = FALSE
        BY <2>1
    <2>4. SF!Quiet(c) /\ SF!SentNothing(c) /\ client[c] \in SF!Idle
        BY <2>1, <2>3 DEF SF!Quiet, SF!SentNothing, SF!Link, SF!Idle
    <2>5. SF!SocketFits(c)
        BY <1>4, <2>1 DEF SF!SocketFits
    <2> QED
        BY <2>1, <2>2, <2>3, <2>4, <2>5 DEF SF!Fits
<1>8. SF!OnlyRequestArrives
    BY <1>1, <1>4, <1>7 DEF SF!OnlyRequestArrives
<1> QED
    BY <1>5, <1>6, <1>7, <1>8 DEF SF!RequestInv

\* The invariant, while this is the tool that runs.
RequestTool == tool = "SendAfterFin" => SF!RequestInv

\* The invariant of SendAfterFin.c: where the server is with a connection, how far the
\* client has got and what is under way between them fit together.
THEOREM RequestInvariant == Spec => []RequestTool
<1>1. Init => RequestTool
    BY RequestInit DEF Init, RequestTool
<1>2. RequestTool /\ [Next]_<<tool, rcVars, hlVars, hfVars, sfVars, jbVars, mlVars>> => RequestTool'
    <2> SUFFICES ASSUME RequestTool, tool' = "SendAfterFin",
                        [Next]_<<tool, rcVars, hlVars, hfVars, sfVars, jbVars, mlVars>>
                 PROVE  SF!RequestInv'
        BY DEF RequestTool
    <2>1. CASE Next
        <3>1. tool = "SendAfterFin" /\ SF!Next
            BY <2>1 DEF Next
        <3> QED
            BY <3>1, RequestNext DEF RequestTool
    <2>2. CASE UNCHANGED <<tool, rcVars, hlVars, hfVars, sfVars, jbVars, mlVars>>
        <3>1. /\ SF!RequestInv
              /\ UNCHANGED <<server, sockRemote, backlog, client, clientSock, unread, toServer, toClient, inbox>>
            BY <2>2 DEF RequestTool, sfVars
        <3> QED
            BY <3>1, RequestKept
    <2> QED
        BY <2>1, <2>2
<1> QED
    BY <1>1, <1>2, PTL DEF Spec

\* SendAfterFin.c: with any number of clients and any length of the backlog, the server
\* never gets 'B', it gives up only because a client was killed half way, and no client
\* fails while the server runs.
THEOREM OnlyTheRequestArrives == Spec => []OnlyRequestArrives
<1>1. RequestTool => OnlyRequestArrives
    BY DEF RequestTool, OnlyRequestArrives, SF!RequestInv
<1> QED
    BY <1>1, RequestInvariant, PTL
=============================================================================
