-------------------------- MODULE LogMergeAbsProofs --------------------------
(***************************************************************************)
(* The merge of LogMerge.c keeps its promises for any number of files, of  *)
(* any length, with any timestamps.                                        *)
(***************************************************************************)
EXTENDS LogMergeAbs, TLAPS

\* A lower timestamp makes an entry compare lower, whatever follows it.
LEMMA LowerByTime ==
    ASSUME NEW a \in Entry, NEW b \in Entry, Time(a) < Time(b)
    PROVE  Lower(a, b)
<1>1. /\ 1 \in 1..Len(a)
      /\ 1 <= Len(b)
      /\ a[1] < b[1]
    BY DEF Entry, Text, Time
<1>2. \A j \in 1..(1 - 1) : a[j] = b[j]
    OBVIOUS
<1> QED
    BY <1>1, <1>2 DEF Lower

\* Time stamps are numbers.
LEMMA TimeIsNat ==
    ASSUME NEW e \in Entry
    PROVE  Time(e) \in Nat
BY HeadersAssumption DEF Entry, Text, Time

\* What is left of a sequence of entries once its head is taken.
LEMMA TailEntries ==
    ASSUME NEW es \in Seq(Entry), es # <<>>
    PROVE  /\ Head(es) = es[1]
           /\ Head(es) \in Entry
           /\ Tail(es) \in Seq(Entry)
           /\ Len(Tail(es)) = Len(es) - 1
           /\ Len(es) >= 1
           /\ \A i \in 1..Len(Tail(es)) : Tail(es)[i] = es[i + 1]
OBVIOUS

\* The head of the sequence that is consumed is no younger than any entry left.
LEMMA OldestIsLowerBound ==
    ASSUME AbsTypeOK, SortedSources,
           NEW s \in Source, IsOldest(s),
           NEW q \in Source, NEW j \in 1..Len(rest[q])
    PROVE  Time(Head(rest[s])) <= Time(rest[q][j])
<1>1. /\ rest[s] \in Seq(Entry)
      /\ rest[q] \in Seq(Entry)
      /\ rest[s] # <<>>
      /\ rest[q] # <<>>
      /\ 1 \in 1..Len(rest[q])
      /\ rest[q][j] \in Entry
    BY DEF AbsTypeOK, IsOldest, HasEntry
<1>2. /\ Head(rest[s]) \in Entry
      /\ Head(rest[q]) \in Entry
      /\ Head(rest[q]) = rest[q][1]
    BY <1>1, TailEntries
<1>3. ~Lower(Head(rest[q]), Head(rest[s]))
    BY <1>1 DEF IsOldest, HasEntry
<1>4. ~(Time(Head(rest[q])) < Time(Head(rest[s])))
    BY <1>2, <1>3, LowerByTime
<1>5. Time(rest[q][1]) <= Time(rest[q][j])
    BY <1>1 DEF SortedSources, Ascending
<1>6. /\ Time(Head(rest[s])) \in Nat
      /\ Time(Head(rest[q])) \in Nat
      /\ Time(rest[q][j]) \in Nat
    BY <1>1, <1>2, TimeIsNat
<1> QED
    BY <1>2, <1>4, <1>5, <1>6

-----------------------------------------------------------------------------
\* A step keeps every variable within its type.
LEMMA AbsTypeStep ==
    ASSUME AbsTypeOK, [AbsNext]_absVars
    PROVE  AbsTypeOK'
<1>1. ASSUME NEW s \in Source, ConsumeOldest(s)
      PROVE  AbsTypeOK'
    <2>1. /\ rest[s] \in Seq(Entry)
          /\ rest[s] # <<>>
        BY <1>1 DEF AbsTypeOK, ConsumeOldest, IsOldest, HasEntry
    <2>2. /\ Head(rest[s]) \in Entry
          /\ Tail(rest[s]) \in Seq(Entry)
        BY <2>1, TailEntries
    <2>3. rest' \in [Source -> Seq(Entry)]
        BY <1>1, <2>2 DEF AbsTypeOK, ConsumeOldest
    <2>4. out' \in Seq(Entry) /\ last' \in Text
        <3>1. Head(rest[s]) \in Text
            BY <2>2 DEF Entry
        <3>2. \/ out' = out /\ last' = last
              \/ out' = Append(out, Head(rest[s])) /\ last' = Head(rest[s])
            BY <1>1 DEF ConsumeOldest
        <3>3. out \in Seq(Entry) /\ last \in Text
            BY DEF AbsTypeOK
        <3> QED
            BY <2>2, <3>1, <3>2, <3>3
    <2> QED
        BY <1>1, <2>3, <2>4 DEF AbsTypeOK, ConsumeOldest
<1>2. CASE UNCHANGED absVars
    BY <1>2 DEF AbsTypeOK, absVars
<1> QED
    BY <1>1, <1>2 DEF AbsNext

\* Type correctness of the merge.
THEOREM AbsTypeCorrect == AbsSpec => []AbsTypeOK
<1>1. AbsInit => AbsTypeOK
    BY DEF AbsInit, AbsTypeOK, Text
<1>2. AbsTypeOK /\ [AbsNext]_absVars => AbsTypeOK'
    BY AbsTypeStep
<1> QED
    BY <1>1, <1>2, PTL DEF AbsSpec

-----------------------------------------------------------------------------
\* Consuming the oldest head keeps the sources in order, the output in order and
\* the output older than what is left.
LEMMA MergeStep ==
    ASSUME AbsTypeOK, MergeInv, [AbsNext]_absVars
    PROVE  MergeInv'
<1>1. ASSUME NEW s \in Source, ConsumeOldest(s)
      PROVE  MergeInv'
    <2> DEFINE e == Head(rest[s])
    <2>1. /\ rest[s] \in Seq(Entry)
          /\ rest[s] # <<>>
          /\ IsOldest(s)
        BY <1>1 DEF AbsTypeOK, ConsumeOldest, IsOldest, HasEntry
    <2>2. /\ e \in Entry
          /\ Tail(rest[s]) \in Seq(Entry)
          /\ Len(Tail(rest[s])) = Len(rest[s]) - 1
          /\ Len(rest[s]) >= 1
          /\ \A i \in 1..Len(Tail(rest[s])) : Tail(rest[s])[i] = rest[s][i + 1]
        BY <2>1, TailEntries
    <2>3. \A q \in Source : \A j \in 1..Len(rest[q]) : Time(e) <= Time(rest[q][j])
        BY <2>1, OldestIsLowerBound DEF MergeInv
    <2>4. /\ \A q \in Source : rest[q] \in Seq(Entry) /\ Len(rest[q]) \in Nat
          /\ out \in Seq(Entry)
          /\ Len(out) \in Nat
        BY DEF AbsTypeOK
    <2>5. \A q \in Source : rest'[q] = IF q = s THEN Tail(rest[s]) ELSE rest[q]
        BY <1>1 DEF ConsumeOldest, AbsTypeOK
    \* Every entry that is left was left before.
    <2>6. \A q \in Source : \A j \in 1..Len(rest'[q]) :
              \E k \in 1..Len(rest[q]) : rest'[q][j] = rest[q][k]
        <3> SUFFICES ASSUME NEW q \in Source, NEW j \in 1..Len(rest'[q])
                     PROVE  \E k \in 1..Len(rest[q]) : rest'[q][j] = rest[q][k]
            OBVIOUS
        <3>1. CASE q = s
            <4>1. rest'[q] = Tail(rest[s]) /\ Len(rest[s]) \in Nat
                BY <3>1, <2>4, <2>5
            <4>2. j + 1 \in 1..Len(rest[s])
                BY <4>1, <2>2
            <4>3. rest'[q][j] = rest[s][j + 1]
                BY <4>1, <2>2
            <4> QED
                BY <4>2, <4>3, <3>1
        <3>2. CASE q # s
            BY <3>2, <2>5
        <3> QED
            BY <3>1, <3>2
    <2>7. SortedSources'
        <3> SUFFICES ASSUME NEW q \in Source, NEW i \in 1..Len(rest'[q]),
                            NEW j \in 1..Len(rest'[q]), i <= j
                     PROVE  Time(rest'[q][i]) <= Time(rest'[q][j])
            BY DEF SortedSources, Ascending, Time
        <3>1. CASE q = s
            <4>1. rest'[q] = Tail(rest[s]) /\ Len(rest[s]) \in Nat
                BY <3>1, <2>4, <2>5
            <4>2. /\ i + 1 \in 1..Len(rest[s])
                  /\ j + 1 \in 1..Len(rest[s])
                  /\ i + 1 <= j + 1
                BY <4>1, <2>2
            <4>3. rest'[q][i] = rest[s][i + 1] /\ rest'[q][j] = rest[s][j + 1]
                BY <4>1, <2>2
            <4> QED
                BY <4>2, <4>3 DEF MergeInv, SortedSources, Ascending
        <3>2. CASE q # s
            BY <3>2, <2>5 DEF MergeInv, SortedSources, Ascending
        <3> QED
            BY <3>1, <3>2
    <2>8. CASE out' = out
        <3>1. Ascending(out)'
            BY <2>8 DEF MergeInv, Ascending, Time
        <3>2. \A i \in 1..Len(out') : \A q \in Source : \A j \in 1..Len(rest'[q]) :
                  Time(out'[i]) <= Time(rest'[q][j])
            <4> SUFFICES ASSUME NEW i \in 1..Len(out), NEW q \in Source,
                                NEW j \in 1..Len(rest'[q])
                         PROVE  Time(out[i]) <= Time(rest'[q][j])
                BY <2>8
            <4>1. PICK k \in 1..Len(rest[q]) : rest'[q][j] = rest[q][k]
                BY <2>6
            <4> QED
                BY <4>1 DEF MergeInv
        <3> QED
            BY <3>1, <3>2, <2>7 DEF MergeInv, Time
    <2>9. CASE out' = Append(out, e)
        <3>1. /\ Len(out') = Len(out) + 1
              /\ out'[Len(out) + 1] = e
              /\ \A i \in 1..Len(out) : out'[i] = out[i]
            BY <2>2, <2>4, <2>9
        <3>2. \A i \in 1..Len(out) : Time(out[i]) <= Time(e)
            <4>1. e = rest[s][1] /\ 1 \in 1..Len(rest[s])
                BY <2>1, <2>2, TailEntries
            <4> QED
                BY <4>1 DEF MergeInv
        <3>3. Time(e) \in Nat /\ \A i \in 1..Len(out) : Time(out[i]) \in Nat
            BY <2>2, <2>4, TimeIsNat
        <3>4. \A i \in 1..Len(out') : i \in 1..Len(out) \/ i = Len(out) + 1
            BY <3>1, <2>4
        <3>5. Ascending(out)'
            <4> SUFFICES ASSUME NEW i \in 1..Len(out'), NEW j \in 1..Len(out'), i <= j
                         PROVE  Time(out'[i]) <= Time(out'[j])
                BY DEF Ascending, Time
            <4>1. CASE i \in 1..Len(out) /\ j \in 1..Len(out)
                BY <4>1, <3>1 DEF MergeInv, Ascending
            <4>2. CASE i \in 1..Len(out) /\ j = Len(out) + 1
                BY <4>2, <3>1, <3>2
            <4>3. CASE i = Len(out) + 1 /\ j = Len(out) + 1
                BY <4>3, <3>1, <3>3
            <4> QED
                BY <4>1, <4>2, <4>3, <3>4, <2>4
        <3>6. \A i \in 1..Len(out') : \A q \in Source : \A j \in 1..Len(rest'[q]) :
                  Time(out'[i]) <= Time(rest'[q][j])
            <4> SUFFICES ASSUME NEW i \in 1..Len(out'), NEW q \in Source,
                                NEW j \in 1..Len(rest'[q])
                         PROVE  Time(out'[i]) <= Time(rest'[q][j])
                OBVIOUS
            <4>1. PICK k \in 1..Len(rest[q]) : rest'[q][j] = rest[q][k]
                BY <2>6
            <4>2. CASE i \in 1..Len(out)
                BY <4>1, <4>2, <3>1 DEF MergeInv
            <4>3. CASE i = Len(out) + 1
                BY <4>1, <4>3, <3>1, <2>3
            <4> QED
                BY <4>2, <4>3, <3>4
        <3> QED
            BY <3>5, <3>6, <2>7 DEF MergeInv, Time
    <2> QED
        BY <1>1, <2>8, <2>9 DEF ConsumeOldest
<1>2. CASE UNCHANGED absVars
    BY <1>2 DEF MergeInv, SortedSources, Ascending, Time, absVars
<1> QED
    BY <1>1, <1>2 DEF AbsNext

\* Files that are in order are merged in order, for any number of files.
THEOREM MergeIsChronological == SortedSpec => []MergeInv
<1>1. AbsInit /\ SortedSources => MergeInv
    BY DEF AbsInit, MergeInv, Ascending
<1>2. AbsTypeOK /\ MergeInv /\ [AbsNext]_absVars => MergeInv'
    BY MergeStep
<1> QED
    BY <1>1, <1>2, AbsTypeCorrect, PTL DEF SortedSpec, AbsSpec

-----------------------------------------------------------------------------
\* The copy in lastWrittenMsg is the last entry written, so comparing with it is
\* comparing with the end of the output.
THEOREM MergeNeverRepeats == AbsSpec => []NoRepeats
<1> DEFINE Inv == LastIsCopy /\ NoRepeats
<1>1. AbsInit => Inv
    BY DEF AbsInit, LastIsCopy, NoRepeats
<1>2. AbsTypeOK /\ Inv /\ [AbsNext]_absVars => Inv'
    <2> SUFFICES ASSUME AbsTypeOK, Inv, [AbsNext]_absVars
                 PROVE  Inv'
        OBVIOUS
    <2>1. ASSUME NEW s \in Source, ConsumeOldest(s)
          PROVE  Inv'
        <3> DEFINE e == Head(rest[s])
        <3>1. /\ out \in Seq(Entry)
              /\ Len(out) \in Nat
              /\ rest[s] \in Seq(Entry)
              /\ rest[s] # <<>>
              /\ e \in Entry
              /\ Len(e) > 0
            BY <2>1, TailEntries DEF AbsTypeOK, ConsumeOldest, IsOldest, HasEntry, Entry
        <3>2. CASE IsDuplicate(e)
            BY <2>1, <3>2 DEF ConsumeOldest, LastIsCopy, NoRepeats
        <3>3. CASE ~IsDuplicate(e)
            <4>1. /\ out' = Append(out, e)
                  /\ last' = e
                  /\ dedupe' = dedupe
                BY <2>1, <3>3 DEF ConsumeOldest
            <4>2. /\ Len(out') = Len(out) + 1
                  /\ out'[Len(out) + 1] = e
                  /\ \A i \in 1..Len(out) : out'[i] = out[i]
                  /\ out' # <<>>
                BY <3>1, <4>1
            <4>3. LastIsCopy'
                BY <4>1, <4>2 DEF LastIsCopy
            <4>4. NoRepeats'
                <5>0. Len(out') - 1 = Len(out)
                    BY <3>1, <4>2
                <5> SUFFICES ASSUME dedupe, NEW i \in 1..Len(out)
                             PROVE  ~SameStart(out'[i], out'[i + 1])
                    BY <4>1, <5>0 DEF NoRepeats
                <5>1. CASE i < Len(out)
                    <6>1. i \in 1..(Len(out) - 1) /\ i + 1 \in 1..Len(out)
                        BY <5>1, <3>1
                    <6> QED
                        BY <6>1, <4>2 DEF NoRepeats
                <5>2. CASE i = Len(out)
                    <6>1. /\ last = out[Len(out)]
                          /\ Len(last) > 0
                        BY <5>2, <3>1 DEF LastIsCopy, Entry
                    <6>2. ~SameStart(last, e)
                        BY <6>1, <3>3 DEF IsDuplicate
                    <6> QED
                        BY <5>2, <6>1, <6>2, <4>2
                <5> QED
                    BY <5>1, <5>2, <3>1
            <4> QED
                BY <4>3, <4>4
        <3> QED
            BY <3>2, <3>3
    <2>2. CASE UNCHANGED absVars
        BY <2>2 DEF LastIsCopy, NoRepeats, absVars, SameStart
    <2> QED
        BY <2>1, <2>2 DEF AbsNext
<1> QED
    BY <1>1, <1>2, AbsTypeCorrect, PTL DEF AbsSpec
=============================================================================
