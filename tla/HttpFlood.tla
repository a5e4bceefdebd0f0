------------------------------ MODULE HttpFlood ------------------------------
(***************************************************************************)
(* HttpFlood.c: nclients clients that send a request, wait for the         *)
(* response, pause and start over, and a progress report that reads and    *)
(* resets the number of responses.                                         *)
(*                                                                         *)
(* Timers run on the event loop.  onRspDone() runs on the event loop or on *)
(* a thread of the pool: the mutex says that it may be either.             *)
(***************************************************************************)
EXTENDS Integers, FiniteSetsExt

CONSTANTS
    NClients,       \* --nclients, at least one
    PoolThread,     \* the threads of the pool: MIN( 1, nclients ), so one
    MaxDone         \* bound on the number of responses

EvLoop == "evLoop"
NoOne == "no one"
Runner == PoolThread \cup {EvLoop}

VARIABLES
    at,             \* of every thread: where it is
    reg,            \* of every thread: numReqDone as it read it
    progressMutx,
    numReqDone,
    toSend,         \* turns left of the loop in initStuff()
    inFlight,       \* requests without response
    pausing,        \* timers that will call sendAnotherRequest()
    progressDue,    \* the timer of the report is set
    done,           \* responses counted so far
    reported        \* responses in the reports so far

hfVars == <<at, reg, progressMutx, numReqDone, toSend, inFlight, pausing, progressDue, done, reported>>

Goto(t, l) == at' = [at EXCEPT ![t] = l]

Init ==
    /\ at = [t \in Runner |-> IF t = EvLoop THEN "initStuff" ELSE "idle"]
    /\ reg = [t \in Runner |-> 0]
    /\ progressMutx = NoOne
    /\ numReqDone = 0
    /\ toSend = 0
    /\ inFlight = 0
    /\ pausing = 0
    /\ progressDue = FALSE
    /\ done = 0
    /\ reported = 0

\* Mutant: the mutex keeps nobody out.
LockAnyway(t) == progressMutx' = t

\* MUTEX_LOCK
Lock(t) == progressMutx = NoOne /\ progressMutx' = t

\* initStuff() calls periodicallyPrintProgress(), and then sends the first
\* request of every client.
InitStuff ==
    /\ at[EvLoop] = "initStuff"
    /\ toSend' = NClients
    /\ Goto(EvLoop, "progress: lock")
    /\ UNCHANGED <<reg, progressMutx, numReqDone, inFlight, pausing, progressDue, done, reported>>

SendFirst ==
    /\ at[EvLoop] = "send"
    /\ toSend' = toSend - 1
    /\ inFlight' = inFlight + 1
    /\ Goto(EvLoop, IF toSend = 1 THEN "idle" ELSE "send")
    /\ UNCHANGED <<reg, progressMutx, numReqDone, pausing, progressDue, done, reported>>

SendAnotherRequest ==
    /\ at[EvLoop] = "idle"
    /\ pausing > 0
    /\ pausing' = pausing - 1
    /\ inFlight' = inFlight + 1
    /\ UNCHANGED <<at, reg, progressMutx, numReqDone, toSend, progressDue, done, reported>>

-----------------------------------------------------------------------------
(* onRspDone()                                                             *)

OnRspDone(t) ==
    /\ at[t] = "idle"
    /\ inFlight > 0
    /\ done + Cardinality({u \in Runner : at[u] \in {"rsp: lock", "rsp: read", "rsp: write"}}) < MaxDone
    /\ inFlight' = inFlight - 1
    /\ Goto(t, "rsp: lock")
    /\ UNCHANGED <<reg, progressMutx, numReqDone, toSend, pausing, progressDue, done, reported>>

RspLock(t) ==
    /\ at[t] = "rsp: lock"
    /\ Lock(t)
    /\ Goto(t, "rsp: read")
    /\ UNCHANGED <<reg, numReqDone, toSend, inFlight, pausing, progressDue, done, reported>>

RspRead(t) ==
    /\ at[t] = "rsp: read"
    /\ reg' = [reg EXCEPT ![t] = numReqDone]
    /\ Goto(t, "rsp: write")
    /\ UNCHANGED <<progressMutx, numReqDone, toSend, inFlight, pausing, progressDue, done, reported>>

RspWrite(t) ==
    /\ at[t] = "rsp: write"
    /\ numReqDone' = reg[t] + 1
    /\ done' = done + 1
    /\ reg' = [reg EXCEPT ![t] = 0]
    /\ Goto(t, "rsp: unlock")
    /\ UNCHANGED <<progressMutx, toSend, inFlight, pausing, progressDue, reported>>

\* Unlock, and set the timer of the pause.
RspUnlock(t) ==
    /\ at[t] = "rsp: unlock"
    /\ progressMutx' = NoOne
    /\ pausing' = pausing + 1
    /\ Goto(t, "idle")
    /\ UNCHANGED <<reg, numReqDone, toSend, inFlight, progressDue, done, reported>>

\* onError() calls abort().
OnError(t) ==
    /\ at[t] = "idle"
    /\ inFlight > 0
    /\ at' = [u \in Runner |-> "aborted"]
    /\ UNCHANGED <<reg, progressMutx, numReqDone, toSend, inFlight, pausing, progressDue, done, reported>>

-----------------------------------------------------------------------------
(* periodicallyPrintProgress()                                             *)

PeriodicallyPrintProgress ==
    /\ at[EvLoop] = "idle"
    /\ progressDue
    /\ progressDue' = FALSE
    /\ Goto(EvLoop, "progress: lock")
    /\ UNCHANGED <<reg, progressMutx, numReqDone, toSend, inFlight, pausing, done, reported>>

ProgressLock ==
    /\ at[EvLoop] = "progress: lock"
    /\ Lock(EvLoop)
    /\ Goto(EvLoop, "progress: read")
    /\ UNCHANGED <<reg, numReqDone, toSend, inFlight, pausing, progressDue, done, reported>>

ProgressRead ==
    /\ at[EvLoop] = "progress: read"
    /\ reg' = [reg EXCEPT ![EvLoop] = numReqDone]
    /\ Goto(EvLoop, "progress: reset")
    /\ UNCHANGED <<progressMutx, numReqDone, toSend, inFlight, pausing, progressDue, done, reported>>

ProgressReset ==
    /\ at[EvLoop] = "progress: reset"
    /\ numReqDone' = 0
    /\ Goto(EvLoop, "progress: print")
    /\ UNCHANGED <<reg, progressMutx, toSend, inFlight, pausing, progressDue, done, reported>>

\* Unlock, print, and set the timer of the next report.
ProgressPrint ==
    /\ at[EvLoop] = "progress: print"
    /\ progressMutx' = NoOne
    /\ reported' = reported + reg[EvLoop]
    /\ reg' = [reg EXCEPT ![EvLoop] = 0]
    /\ progressDue' = TRUE
    /\ Goto(EvLoop, IF toSend > 0 THEN "send" ELSE "idle")
    /\ UNCHANGED <<numReqDone, toSend, inFlight, pausing, done>>

\* abort() was called.
Ended == at[EvLoop] = "aborted" /\ UNCHANGED hfVars

Next ==
    \/ InitStuff \/ SendFirst \/ SendAnotherRequest
    \/ \E t \in Runner : \/ OnRspDone(t) \/ RspLock(t) \/ RspRead(t) \/ RspWrite(t)
                         \/ RspUnlock(t) \/ OnError(t)
    \/ PeriodicallyPrintProgress \/ ProgressLock \/ ProgressRead \/ ProgressReset
    \/ ProgressPrint \/ Ended

Spec == Init /\ [][Next]_hfVars

-----------------------------------------------------------------------------
(* Properties.                                                             *)

Counting == {t \in Runner : at[t] \in {"rsp: lock", "rsp: read", "rsp: write", "rsp: unlock"}}

\* Every response is in exactly one report, or still in the counter, although
\* several threads count while another one reads and resets; and every response is
\* followed by another request, so the load stays that of NClients clients.
EveryResponseCounted ==
    at[EvLoop] # "aborted" =>
        /\ reported + numReqDone + (IF at[EvLoop] = "progress: print" THEN reg[EvLoop] ELSE 0)
              = done
        /\ at[EvLoop] # "initStuff" =>
              toSend + inFlight + pausing + Cardinality(Counting) = NClients

-----------------------------------------------------------------------------
(* The inductive invariant.                                                *)

RspAt == {"rsp: lock", "rsp: read", "rsp: write", "rsp: unlock"}
ProgressAt == {"progress: lock", "progress: read", "progress: reset", "progress: print"}

\* What every variable may hold.
TypeOK ==
    /\ at \in [Runner -> RspAt \cup ProgressAt \cup {"initStuff", "send", "idle", "aborted"}]
    /\ \A t \in PoolThread : at[t] \in RspAt \cup {"idle", "aborted"}
    /\ reg \in [Runner -> Nat]
    /\ progressMutx \in Runner \cup {NoOne}
    /\ numReqDone \in Nat /\ toSend \in Nat /\ inFlight \in Nat /\ pausing \in Nat
    /\ progressDue \in BOOLEAN
    /\ done \in Nat /\ reported \in Nat

\* Who is between lock and unlock holds the mutex.
MutexHeld ==
    \A t \in Runner : at[t] \in (RspAt \cup ProgressAt) \ {"rsp: lock", "progress: lock"} <=> progressMutx = t

\* What was read is what is there until it is written.
ReadIsCurrent ==
    \A t \in Runner : at[t] \in {"rsp: write", "progress: reset"} => reg[t] = numReqDone

\* Nothing is under way before the first requests, and these are counted down.
FirstRequests ==
    /\ at[EvLoop] = "initStuff" => toSend = 0 /\ inFlight = 0 /\ pausing = 0 /\ Counting = {}
    /\ at[EvLoop] = "send" => toSend > 0

FloodInv ==
    /\ TypeOK
    /\ \/ \A t \in Runner : at[t] = "aborted"
       \/ /\ \A t \in Runner : at[t] # "aborted"
          /\ MutexHeld
          /\ ReadIsCurrent
          /\ FirstRequests
          /\ EveryResponseCounted
=============================================================================
