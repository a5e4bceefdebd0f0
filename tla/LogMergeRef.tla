----------------------------- MODULE LogMergeRef -----------------------------
(***************************************************************************)
(* LogMerge implements LogMergeAbs: buffers, compaction, growth, lookahead *)
(* and the threads do not show in what the tool writes.                    *)
(***************************************************************************)
EXTENDS LogMergeInv, SequencesExt

\* The entries of a text: what the help text says they are, with no buffer
\* involved.  An entry starts where a line starts with a timestamp that has a
\* byte behind it, and ends before the newline in front of the next entry.
Starts(f) == {p \in 1..Len(f) : /\ f[p] \in Headers
                                /\ p < Len(f)
                                /\ (p = 1 \/ f[p - 1] = LF)}

\* The text of the entry that starts at p, if the last entry ends at endOfFile.
EntryAt(f, p, endOfFile) ==
    LET later == {q \in Starts(f) : q > p}
    IN  SubSeq(f, p, IF later = {} THEN endOfFile ELSE First(later) - 2)

\* As the code has it: the last byte of the file never belongs to an entry.
Entry(f, p) == EntryAt(f, p, Len(f) - 1)

\* As its comment has it: a trailing newline never belongs to an entry.
EntryOfText(f, p) ==
    EntryAt(f, p, IF f[Len(f)] = LF THEN Len(f) - 1 ELSE Len(f))

-----------------------------------------------------------------------------
\* The inputs of one execution: they leave unread only through fread(), so they
\* are what was consumed, what is buffered and what is left.
VARIABLE input

RefInit == Init /\ input = unread
RefNext == Next /\ UNCHANGED input
RefVars == <<vars, input>>
RefSpec == RefInit /\ [][RefNext]_RefVars
RefFairSpec ==
    /\ RefSpec
    /\ WF_RefVars(Loop /\ UNCHANGED input)
    /\ \A t \in Thread : WF_RefVars(PoolThread(t) /\ UNCHANGED input)

\* The places behind the first n bytes of a file where an entry starts.
Behind(f, n) == {p \in Starts(f) : p > n}

\* Where in file f, of which rem is still to be read, the buffer of source r begins,
\* and how much of the file is consumed.
At(f, rem, r) == Len(f) - Len(rem) - r.end
Taken(f, rem, r) == At(f, rem, r) + r.beg

\* The places of the entries that source s has ahead, and these entries in order.
Ahead(s) == Behind(input[s], Taken(input[s], unread[s], src[s]))
Rank(S, p) == Cardinality({q \in S : q <= p})
Nth(S, k) == CHOOSE p \in {q \in S : Rank(S, q) = k} : TRUE
EntriesAhead(s) ==
    LET ahead == Ahead(s)
    IN  [k \in 1..Cardinality(ahead) |-> Entry(input[s], Nth(ahead, k))]

Abs == INSTANCE LogMergeAbs
    WITH rest <- [s \in Source |-> EntriesAhead(s)],
         out <- stdout,
         last <- lastMsg,
         dedupe <- app.isDedupe

\* Every step of the tool is a step of the merge, or changes nothing of it.
ImplementsMerge == Abs!AbsSpec

-----------------------------------------------------------------------------
\* Where in the inputs an entry starts.
Position == UNION {{s} \X Starts(input[s]) : s \in Source}
EntryOf(x) == Entry(input[x[1]], x[2])

InputEntries == {EntryOf(x) : x \in Position}

\* Each file is in ascending order and no two different entries agree on the
\* shorter one's length.
WellOrderedInput ==
    /\ \A s \in Source : \A p, q \in Starts(input[s]) :
           p < q => Lower(Entry(input[s], p), Entry(input[s], q))
    /\ \A a, b \in InputEntries : a # b => ~SameStart(a, b)

\* The program is through with everything.
Finished == pc = "done" /\ app.exitCode = 0

\* The help text: "it allows to merge overlapping log files".  If the files are
\* in order, what is written is the ordered union of their entries, each once.
OverlapsMerge ==
    (Finished /\ app.isDedupe /\ WellOrderedInput) =>
        /\ ToSet(stdout) = InputEntries
        /\ \A i, j \in 1..Len(stdout) : i < j => Lower(stdout[i], stdout[j])

\* Without de-duplication every entry of every file is written, as often as it
\* occurs.
NothingLost ==
    (Finished /\ ~app.isDedupe) =>
        \A e \in InputEntries \cup ToSet(stdout) :
            Cardinality({i \in 1..Len(stdout) : stdout[i] = e}) =
                Cardinality({x \in Position : EntryOf(x) = e})

\* Files that are in chronological order give output in chronological order.
SortedInput ==
    \A s \in Source : \A p, q \in Starts(input[s]) : p <= q => input[s][p] <= input[s][q]

ChronologicalOutput == SortedInput => Abs!Ascending(stdout)

\* The help text: "tries to de-duplicate log entries": an entry that is left out
\* was a duplicate, so every text that occurs in a file occurs in the output.
EveryTextWritten == pc = "done" => InputEntries \subseteq ToSet(stdout)

\* The comment at logEnd: "-1, aka drop trailing LF": what is dropped at the end
\* of a file is a newline and nothing else.
OnlyNewlineDropped ==
    (pc = "done" /\ ~app.isDedupe) =>
        {EntryOfText(input[x[1]], x[2]) : x \in Position} \subseteq ToSet(stdout)
=============================================================================
