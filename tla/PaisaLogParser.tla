--------------------------- MODULE PaisaLogParser ---------------------------
(***************************************************************************)
(* PaisaLogParser.lua: assembles log entries from lines.  A line that      *)
(* begins with a date begins an entry, the lines after it belong to it.    *)
(*                                                                         *)
(* A line is its kind and its number in the input:                         *)
(*   entry       begins with a date, and parseByPattern() understands it   *)
(*   noMsg       the same, but it has no message (blank, or no MSG)        *)
(*   unparsable  begins with a date, and parseByPattern() returns early    *)
(*   fatal       begins with a date, and parseByPattern() raises an error  *)
(*   broken      begins with a time only                                   *)
(*   stack       a line of a stack trace                                   *)
(*   text        any other line                                            *)
(***************************************************************************)
EXTENDS Integers, Sequences, SequencesExt

CONSTANTS
    MaxLines        \* bound on the length of the input

DateKinds == {"entry", "noMsg", "unparsable", "fatal"}
Nil == <<>>                     \* of raw and stack, which are never empty otherwise
NoLog == [raw |-> Nil, stack |-> Nil, msg |-> FALSE]

VARIABLES
    parsing,        \* reading, done, error
    lines,          \* read so far
    hasLog,         \* self.log is not nil
    log,            \* raw and stack as sequences of lines; msg: is not nil
    thisEntryIsBroken,
    numBrokenLogLines,
    entries         \* given to cb_onLogEntry()

plVars == <<parsing, lines, hasLog, log, thisEntryIsBroken, numBrokenLogLines, entries>>

Init ==
    /\ parsing = "reading"
    /\ lines = <<>>
    /\ hasLog = FALSE
    /\ log = NoLog
    /\ thisEntryIsBroken = FALSE
    /\ numBrokenLogLines = 0
    /\ entries = <<>>

Line(kind) == <<kind, Len(lines) + 1>>
Error == parsing' = "error" /\ UNCHANGED <<hasLog, log, entries>>

\* io.read()
ReadLine(kind) ==
    /\ parsing = "reading"
    /\ Len(lines) < MaxLines
    /\ lines' = Append(lines, Line(kind))

-----------------------------------------------------------------------------
(* publishLogEntry(): an entry without raw or without msg is an error.     *)

Publishable == hasLog => (log.raw # Nil /\ log.msg)

\* Mutant: the published entry is used again for the next one.
KeepsLog == log

\* self.log = nil, and the new entry of getOrNewLogEntry().
FreshLog == NoLog

Published == IF hasLog THEN Append(entries, [raw |-> log.raw, stack |-> log.stack]) ELSE entries

\* initLogEntryFromLine() of a line with a date.
DateLine(kind) ==
    /\ ReadLine(kind)
    /\ thisEntryIsBroken' = FALSE
    /\ IF Publishable
       THEN /\ entries' = Published
            /\ hasLog' = TRUE
            /\ log' = IF kind \in {"entry", "noMsg"}
                      THEN [FreshLog EXCEPT !.raw = <<Line(kind)>>, !.msg = (kind = "entry")]
                      ELSE FreshLog
            /\ parsing' = IF kind = "fatal" THEN "error" ELSE parsing
       ELSE Error
    /\ UNCHANGED numBrokenLogLines

\* Not published, and the entry before it not either.
BrokenLine ==
    /\ ReadLine("broken")
    /\ thisEntryIsBroken' = TRUE
    /\ numBrokenLogLines' = numBrokenLogLines + 1
    /\ UNCHANGED <<parsing, hasLog, log, entries>>

\* A stack trace before the first entry, or after one that was not understood, is an
\* error: raw is nil.
AppendStacktraceLine ==
    /\ ReadLine("stack")
    /\ IF log.raw # Nil
       THEN /\ log' = [log EXCEPT !.stack = Append(@, Line("stack")), !.raw = Append(@, Line("stack"))]
            /\ UNCHANGED <<parsing, hasLog, entries>>
       ELSE Error
    /\ UNCHANGED <<thisEntryIsBroken, numBrokenLogLines>>

AppendLogMsg ==
    /\ ReadLine("text")
    /\ hasLog' = TRUE
    /\ log' = [log EXCEPT !.raw = Append(@, Line("text")), !.msg = TRUE]
    /\ UNCHANGED <<parsing, thisEntryIsBroken, numBrokenLogLines, entries>>

\* At EOF a pending entry is published, unless the last line with a time was broken.
Eof ==
    /\ parsing = "reading"
    /\ \/ /\ thisEntryIsBroken
          /\ parsing' = "done"
          /\ UNCHANGED <<hasLog, log, entries>>
       \/ /\ ~thisEntryIsBroken
          /\ IF Publishable
             THEN entries' = Published /\ hasLog' = FALSE /\ log' = FreshLog /\ parsing' = "done"
             ELSE Error
    /\ UNCHANGED <<lines, thisEntryIsBroken, numBrokenLogLines>>

\* tryParseLogs() has returned, or the error ended the process.
Ended == parsing \in {"done", "error"} /\ UNCHANGED plVars

Next ==
    \/ \E kind \in DateKinds : DateLine(kind)
    \/ BrokenLine \/ AppendStacktraceLine \/ AppendLogMsg \/ Eof \/ Ended

Spec == Init /\ [][Next]_plVars

-----------------------------------------------------------------------------
(* Properties.                                                             *)

IsHead(line) == line[1] \in DateKinds \cup {"broken"}

\* The lines of a are in front of those of b in the input; those of one are in order.
Before(a, b) == \A i \in 1..Len(a), j \in 1..Len(b) : a[i][2] < b[j][2]
InOrder(ls) == \A i, j \in 1..Len(ls) : i < j => ls[i][2] < ls[j][2]

\* The entries published and the one being assembled hold, in order and exactly
\* once, all lines except those whose date is broken or which were not understood;
\* an entry has no second head, and its stack is the stack lines in it.
LinesKept ==
    parsing # "error" =>
        LET all == Append(entries, [raw |-> log.raw, stack |-> log.stack])
        IN  /\ \A i, j \in 1..Len(all) : i < j => Before(all[i].raw, all[j].raw)
            /\ UNION ToSet([i \in 1..Len(all) |-> ToSet(all[i].raw)])
                 = {l \in ToSet(lines) : l[1] \notin {"broken", "unparsable"}}
            /\ \A i \in 1..Len(all) :
                 /\ InOrder(all[i].raw) /\ InOrder(all[i].stack)
                 /\ \A k \in 2..Len(all[i].raw) : ~IsHead(all[i].raw[k])
                 /\ ToSet(all[i].stack) = {l \in ToSet(all[i].raw) : l[1] = "stack"}

\* A line belongs to the last head before it.
HeadOf(i) == CHOOSE h \in 1..i : IsHead(lines[h]) /\ \A m \in (h + 1)..i : ~IsHead(lines[m])
EntryAt(h) == SelectSeq(lines, LAMBDA l : l[2] >= h /\ HeadOf(l[2]) = h)

\* At the end the parser reports that it has "skiped" the entries with broken dates.
\* So the other entries should have been published, with their own lines only.
OnlyBrokenSkipped ==
    (parsing = "done" /\ lines # <<>> /\ IsHead(lines[1])
       /\ \A i \in 1..Len(lines) : lines[i][1] # "unparsable") =>
        [i \in 1..Len(entries) |-> entries[i].raw]
            = LET heads == SelectSeq(lines, LAMBDA l : l[1] \in DateKinds)
              IN  [i \in 1..Len(heads) |-> EntryAt(heads[i][2])]

-----------------------------------------------------------------------------
(* What is inductive.                                                      *)

Kind == DateKinds \cup {"broken", "stack", "text"}
ALine == Kind \X Nat

TypeOK ==
    /\ parsing \in {"reading", "done", "error"}
    /\ lines \in Seq(ALine)
    /\ hasLog \in BOOLEAN /\ thisEntryIsBroken \in BOOLEAN /\ numBrokenLogLines \in Nat
    /\ log \in [raw : Seq(ALine), stack : Seq(ALine), msg : BOOLEAN]
    /\ entries \in Seq([raw : Seq(ALine), stack : Seq(ALine)])

\* A line knows its number, and without self.log there is nothing to publish.
PaisaLogInv ==
    /\ TypeOK
    /\ \A n \in 1..Len(lines) : lines[n][2] = n
    /\ ~hasLog => log = NoLog
    /\ LinesKept
=============================================================================
