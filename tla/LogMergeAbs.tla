----------------------------- MODULE LogMergeAbs -----------------------------
(***************************************************************************)
(* What LogMerge promises: a merge of sequences of log entries, with no    *)
(* buffers, threads or event loop.                                         *)
(*                                                                         *)
(* rest[s] holds the entries of source s that are not consumed yet, out    *)
(* what was written to stdout and last the copy of the entry written last. *)
(* One step consumes the head of one source, and writes it unless it is    *)
(* taken for a duplicate.                                                  *)
(***************************************************************************)
EXTENDS LogText

CONSTANT NumSources     \* app->sources_len

VARIABLES rest, out, last, dedupe

absVars == <<rest, out, last, dedupe>>

Source == 1..NumSources

\* An entry begins with its timestamp.
Entry == {e \in Text : Len(e) > 0 /\ e[1] \in Headers}

Time(e) == e[1]

HasEntry(s) == rest[s] # <<>>

\* Nothing at the head of another source compares lower (memcmp) than the head
\* of s.
IsOldest(s) ==
    /\ HasEntry(s)
    /\ \A q \in Source : HasEntry(q) => ~Lower(Head(rest[q]), Head(rest[s]))

IsDuplicate(e) == dedupe /\ Len(last) > 0 /\ SameStart(last, e)

AbsInit ==
    /\ rest \in [Source -> Seq(Entry)]
    /\ dedupe \in BOOLEAN
    /\ out = <<>>
    /\ last = <<>>

ConsumeOldest(s) ==
    /\ IsOldest(s)
    /\ rest' = [rest EXCEPT ![s] = Tail(@)]
    /\ IF IsDuplicate(Head(rest[s]))
       THEN UNCHANGED <<out, last>>
       ELSE /\ out' = Append(out, Head(rest[s]))
            /\ last' = Head(rest[s])
    /\ UNCHANGED dedupe

AbsNext == \E s \in Source : ConsumeOldest(s)

AbsSpec == AbsInit /\ [][AbsNext]_absVars

-----------------------------------------------------------------------------
\* What the state of the merge may be.
AbsTypeOK ==
    /\ rest \in [Source -> Seq(Entry)]
    /\ out \in Seq(Entry)
    /\ last \in Text
    /\ dedupe \in BOOLEAN

\* Timestamps never go backwards.
Ascending(es) == \A i, j \in 1..Len(es) : i <= j => Time(es[i]) <= Time(es[j])

SortedSources == \A s \in Source : Ascending(rest[s])

\* The inputs of which the help text speaks: every file is in order.
SortedSpec == AbsSpec /\ SortedSources

\* Every source stays in order, and nothing that was written is younger than
\* anything still to come: what the scan over all heads is for.
MergeInv ==
    /\ Ascending(out)
    /\ SortedSources
    /\ \A i \in 1..Len(out) : \A s \in Source : \A j \in 1..Len(rest[s]) :
           Time(out[i]) <= Time(rest[s][j])

\* The copy that the next entry is compared with is the last one written.
LastIsCopy == last = IF out = <<>> THEN <<>> ELSE out[Len(out)]

\* With de-duplication no two entries in a row agree on the shorter one's length.
NoRepeats ==
    dedupe => \A i \in 1..(Len(out) - 1) : ~SameStart(out[i], out[i + 1])
=============================================================================
