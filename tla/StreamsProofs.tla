---------------------------- MODULE StreamsProofs ----------------------------
(***************************************************************************)
(* The streams, the parser of log files and the decoders lose, repeat and  *)
(* reorder nothing, for inputs of any length in any pieces, whoever throws.*)
(***************************************************************************)
EXTENDS Streams, FiniteSetTheorems, SequenceTheorems, WellFoundedInduction, TLAPS

-----------------------------------------------------------------------------
(* ConcatInputStream.java                                                  *)

Pair == Nat \X Nat

\* The lower one of two numbers.
LEMMA LowerOfTwo ==
    ASSUME NEW a \in Int, NEW b \in Int
    PROVE  /\ CI!Min({a, b}) \in Int /\ CI!Min({a, b}) <= a /\ CI!Min({a, b}) <= b
           /\ CI!Min({a, b}) \in {a, b} /\ BC!Min({a, b}) = CI!Min({a, b})
<1>1. \E x \in {a, b} : \A y \in {a, b} : x <= y
    <2>1. a <= a /\ b <= b /\ (a <= b \/ b <= a)
        OBVIOUS
    <2> QED
        BY <2>1
<1>2. CI!Min({a, b}) \in {a, b} /\ \A y \in {a, b} : CI!Min({a, b}) <= y
    BY <1>1 DEF CI!Min
<1>3. BC!Min({a, b}) = CI!Min({a, b})
    BY DEF BC!Min, CI!Min
<1> QED
    BY <1>2, <1>3

\* The order of a concatenation.
LEMMA BytesConcat ==
    ASSUME NEW s \in Seq(Pair), NEW t \in Seq(Pair)
    PROVE  /\ CI!InOrder(s \o t) <=>
                  /\ CI!InOrder(s) /\ CI!InOrder(t)
                  /\ \A i \in 1..Len(s), j \in 1..Len(t) : CI!Earlier(s[i], t[j])
           /\ CI!ToSet(s \o t) = CI!ToSet(s) \cup CI!ToSet(t)
           /\ CI!ToSet(s) = {s[i] : i \in 1..Len(s)}
<1> DEFINE u == s \o t
           m == Len(s)
           n == Len(t)
<1>1. /\ u \in Seq(Pair) /\ Len(u) = m + n /\ m \in Nat /\ n \in Nat
      /\ \A i \in 1..(m + n) : u[i] = IF i <= m THEN s[i] ELSE t[i - m]
    BY ConcatProperties
<1>2. /\ \A i \in 1..m : i \in 1..(m + n) /\ u[i] = s[i]
      /\ \A j \in 1..n : m + j \in 1..(m + n) /\ u[m + j] = t[j]
    <2> HIDE DEF u, m, n
    <2>1. \A j \in 1..n : /\ m + j \in 1..(m + n) /\ ~(m + j <= m) /\ (m + j) - m = j
        BY <1>1
    <2>2. \A i \in 1..m : i \in 1..(m + n) /\ i <= m
        BY <1>1
    <2> QED
        BY <1>1, <2>1, <2>2
<1>3. \A i \in 1..(m + n) : \/ i \in 1..m
                            \/ \E j \in 1..n : i = m + j
    <2> HIDE DEF m, n
    <2> SUFFICES ASSUME NEW i \in 1..(m + n), i \notin 1..m
                 PROVE  i - m \in 1..n /\ i = m + (i - m)
        OBVIOUS
    <2> QED
        BY <1>1
<1>4. DOMAIN u = 1..(m + n) /\ DOMAIN s = 1..m /\ DOMAIN t = 1..n
    BY <1>1
<1> HIDE DEF u, m, n
<1>5. CI!ToSet(u) = CI!ToSet(s) \cup CI!ToSet(t)
    <2>1. ASSUME NEW x \in CI!ToSet(u)
          PROVE  x \in CI!ToSet(s) \cup CI!ToSet(t)
        <3>1. PICK i \in 1..(m + n) : x = u[i]
            BY <1>4 DEF CI!ToSet
        <3> QED
            BY <1>2, <1>3, <1>4, <3>1 DEF CI!ToSet
    <2>2. ASSUME NEW x \in CI!ToSet(s) \cup CI!ToSet(t)
          PROVE  x \in CI!ToSet(u)
        BY <1>2, <1>4 DEF CI!ToSet
    <2> QED
        BY <2>1, <2>2
<1>6. ASSUME CI!InOrder(u)
      PROVE  /\ CI!InOrder(s) /\ CI!InOrder(t)
             /\ \A i \in 1..m, j \in 1..n : CI!Earlier(s[i], t[j])
    <2>1. \A i, j \in 1..(m + n) : i < j => CI!Earlier(u[i], u[j])
        BY <1>1, <1>6 DEF CI!InOrder
    <2>2. \A i, j \in 1..m : i < j => CI!Earlier(s[i], s[j])
        BY <1>2, <2>1
    <2>3. \A i, j \in 1..n : i < j => m + i < m + j
        BY <1>1
    <2>4. \A i, j \in 1..n : i < j => CI!Earlier(t[i], t[j])
        BY <1>2, <2>1, <2>3
    <2>5. \A i \in 1..m, j \in 1..n : i < m + j
        BY <1>1
    <2>6. \A i \in 1..m, j \in 1..n : CI!Earlier(s[i], t[j])
        BY <1>2, <2>1, <2>5
    <2> QED
        BY <2>2, <2>4, <2>6 DEF CI!InOrder, m, n
<1>7. ASSUME CI!InOrder(s), CI!InOrder(t),
             \A i \in 1..m, j \in 1..n : CI!Earlier(s[i], t[j])
      PROVE  CI!InOrder(u)
    <2> SUFFICES ASSUME NEW i \in 1..(m + n), NEW j \in 1..(m + n), i < j
                 PROVE  CI!Earlier(u[i], u[j])
        BY <1>1 DEF CI!InOrder
    <2>1. CASE i \in 1..m /\ j \in 1..m
        BY <1>2, <1>7, <2>1 DEF CI!InOrder, m
    <2>2. CASE i \in 1..m /\ \E l \in 1..n : j = m + l
        BY <1>2, <1>7, <2>2
    <2>3. CASE (\E k \in 1..n : i = m + k) /\ j \in 1..m
        BY <1>1, <2>3
    <2>4. ASSUME NEW k \in 1..n, NEW l \in 1..n, i = m + k, j = m + l
          PROVE  CI!Earlier(u[i], u[j])
        <3>1. k < l
            BY <1>1, <2>4
        <3>2. CI!Earlier(t[k], t[l])
            BY <1>7, <3>1 DEF CI!InOrder, n
        <3> QED
            BY <1>2, <2>4, <3>2
    <2> QED
        BY <1>3, <2>1, <2>2, <2>3, <2>4
<1> QED
    BY <1>4, <1>5, <1>6, <1>7 DEF u, m, n, CI!ToSet

\* What was taken, byte by byte.
LEMMA TakenFacts ==
    ASSUME CI!TypeOK
    PROVE  /\ \A b : b \in CI!Taken <=>
                  \E s \in 1..Len(lengths) : \E k \in 1..CI!TakenOf(s) : b = <<s, k>>
           /\ \A s \in 1..Len(lengths) : lengths[s] \in Nat /\ CI!TakenOf(s) \in Nat
           /\ Len(lengths) \in Nat /\ iSrc \in Nat /\ pos \in Nat
           /\ DOMAIN lengths = 1..Len(lengths)
<1>1. /\ Len(lengths) \in Nat /\ iSrc \in Nat /\ pos \in Nat
      /\ DOMAIN lengths = 1..Len(lengths)
      /\ \A s \in 1..Len(lengths) : lengths[s] \in Nat
    BY DEF CI!TypeOK
<1>2. \A s \in 1..Len(lengths) : CI!TakenOf(s) \in Nat
    BY <1>1 DEF CI!TakenOf
<1>3. \A b : b \in CI!Taken <=>
                  \E s \in 1..Len(lengths) : \E k \in 1..CI!TakenOf(s) : b = <<s, k>>
    <2>1. ASSUME NEW b \in CI!Taken
          PROVE  \E s \in 1..Len(lengths) : \E k \in 1..CI!TakenOf(s) : b = <<s, k>>
        <3>1. PICK s \in 1..Len(lengths) : b \in {s} \X (1..CI!TakenOf(s))
            BY DEF CI!Taken
        <3> QED
            BY <3>1
    <2>2. ASSUME NEW s \in 1..Len(lengths), NEW k \in 1..CI!TakenOf(s)
          PROVE  <<s, k>> \in CI!Taken
        BY DEF CI!Taken
    <2> QED
        BY <2>1, <2>2
<1> QED
    BY <1>1, <1>2, <1>3

\* A call that throws keeps what was copied by it from the caller.
LEMMA ConcatThrows ==
    ASSUME CI!ConcatInv, CI!Throw, returned' = returned, CI!Taken' = CI!Taken
    PROVE  /\ CI!InOrder(returned' \o got')
           /\ CI!ToSet(returned' \o got') = CI!Taken' \ lost'
           /\ lost' \subseteq CI!Taken'
           /\ got' = <<>> /\ reading' = FALSE /\ want' = 0
<1>1. /\ returned \in Seq(Pair) /\ got \in Seq(Pair)
      /\ CI!InOrder(returned \o got) /\ CI!ToSet(returned \o got) = CI!Taken \ lost
      /\ lost \subseteq CI!Taken
    BY DEF CI!ConcatInv, CI!TypeOK, CI!BytesInOrder, Pair
<1>2. /\ CI!InOrder(returned)
      /\ \A i \in 1..Len(returned), j \in 1..Len(got) : CI!Earlier(returned[i], got[j])
      /\ CI!ToSet(returned \o got) = CI!ToSet(returned) \cup CI!ToSet(got)
      /\ CI!ToSet(returned) = {returned[i] : i \in 1..Len(returned)}
    BY <1>1, BytesConcat
<1>3. CI!ToSet(got) = {got[j] : j \in 1..Len(got)}
    BY <1>1, BytesConcat
<1>4. CI!ToSet(returned) \cap CI!ToSet(got) = {}
    <2> SUFFICES ASSUME NEW i \in 1..Len(returned), NEW j \in 1..Len(got),
                        returned[i] = got[j]
                 PROVE  FALSE
        BY <1>2, <1>3
    <2>1. CI!Earlier(got[j], got[j])
        BY <1>2
    <2>2. got[j][1] \in Nat /\ got[j][2] \in Nat
        <3>1. got \in Seq(Pair)
            BY <1>1
        <3>2. got[j] \in Pair
            BY <3>1
        <3> QED
            BY <3>2 DEF Pair
    <2> QED
        BY <2>1, <2>2 DEF CI!Earlier
<1>5. returned' \o got' = returned
    BY <1>1, ConcatEmptySeq DEF CI!Throw
<1>6. lost' = lost \cup CI!ToSet(got)
    BY DEF CI!Throw
<1> QED
    BY <1>1, <1>2, <1>4, <1>5, <1>6 DEF CI!Throw

\* A call that returns gives the caller what it has copied.
LEMMA ConcatReturns ==
    ASSUME CI!ConcatInv, CI!Return
    PROVE  /\ returned' \o got' = returned \o got
           /\ returned' \in Seq(Pair) /\ got' = <<>> /\ reading' = FALSE /\ want' = 0
<1>1. returned \in Seq(Pair) /\ got \in Seq(Pair)
    BY DEF CI!ConcatInv, CI!TypeOK, Pair
<1>2. returned \o got \in Seq(Pair)
    BY <1>1, ConcatProperties
<1> QED
    BY <1>2, ConcatEmptySeq DEF CI!Return

\* Nothing of the sources changes.
LEMMA SameSources ==
    ASSUME CI!ConcatInv, UNCHANGED <<lengths, iSrc, pos, sourcesIsNull, closes>>
    PROVE  /\ CI!Taken' = CI!Taken /\ (CI!IsEof' <=> CI!IsEof)
           /\ IF CI!IsEof' THEN pos' = 0 ELSE pos' <= lengths'[iSrc' + 1]
           /\ CI!EverySourceClosedOnce'
           /\ lengths' \in Seq(Nat) /\ iSrc' \in 0..Len(lengths') /\ pos' \in Nat
           /\ sourcesIsNull' \in BOOLEAN /\ closes' \in [DOMAIN lengths' -> Nat]
<1>1. CI!Taken' = CI!Taken
    <2>1. \A s : CI!TakenOf(s)' = CI!TakenOf(s)
        BY DEF CI!TakenOf
    <2> QED
        BY <2>1 DEF CI!Taken
<1>2. CI!IsEof' <=> CI!IsEof
    BY DEF CI!IsEof
<1>3. IF CI!IsEof' THEN pos' = 0 ELSE pos' <= lengths'[iSrc' + 1]
    BY <1>2 DEF CI!ConcatInv
<1>4. CI!EverySourceClosedOnce'
    BY DEF CI!ConcatInv, CI!EverySourceClosedOnce
<1> QED
    BY <1>1, <1>2, <1>3, <1>4 DEF CI!ConcatInv, CI!TypeOK

\* SrcRead: the bytes that a source returns come next.
LEMMA SrcReadKeeps ==
    ASSUME CI!ConcatInv, CI!SrcRead
    PROVE  CI!ConcatInv'
<1>1. /\ CI!TypeOK /\ reading /\ ~CI!IsEof /\ pos <= lengths[iSrc + 1]
      /\ sourcesIsNull = FALSE /\ lost \subseteq CI!Taken
      /\ CI!InOrder(returned \o got) /\ CI!ToSet(returned \o got) = CI!Taken \ lost
      /\ CI!EverySourceClosedOnce
      /\ lengths' = lengths /\ sourcesIsNull' = sourcesIsNull /\ iSrc' = iSrc
      /\ returned' = returned /\ eof' = eof /\ closes' = closes
    BY DEF CI!SrcRead, CI!ConcatInv, CI!BytesInOrder, CI!TypeOK
<1>2. /\ returned \in Seq(Pair) /\ got \in Seq(Pair) /\ want \in Nat
      /\ iSrc \in Nat /\ pos \in Nat /\ Len(lengths) \in Nat
      /\ iSrc + 1 \in 1..Len(lengths) /\ lengths[iSrc + 1] \in Nat
    BY <1>1 DEF CI!TypeOK, CI!IsEof, Pair
<1>3. CI!EverySourceClosedOnce'
    BY <1>1 DEF CI!EverySourceClosedOnce
<1>4. eof' => CI!IsEof'
    BY <1>1 DEF CI!IsEof, CI!ConcatInv, CI!BytesInOrder
<1>5. CASE CI!Throw /\ UNCHANGED pos
    <2>1. /\ CI!Taken' = CI!Taken
          /\ IF CI!IsEof' THEN pos' = 0 ELSE pos' <= lengths'[iSrc' + 1]
        BY <1>1, <1>5, SameSources
    <2>2. /\ CI!InOrder(returned' \o got') /\ CI!ToSet(returned' \o got') = CI!Taken' \ lost'
          /\ lost' \subseteq CI!Taken' /\ got' = <<>> /\ reading' = FALSE /\ want' = 0
        BY <1>1, <1>5, <2>1, ConcatThrows
    <2>3. CI!TypeOK'
        <3>1. got' \in Seq(Nat \X Nat) /\ want' \in Nat /\ reading' \in BOOLEAN
            <4>1. <<>> \in Seq(Nat \X Nat)
                BY EmptySeq
            <4>2. got' = <<>> /\ want' = 0 /\ reading' = FALSE
                BY <2>2
            <4> QED
                BY <4>1, <4>2
        <3>2. pos' = pos
            BY <1>5
        <3> QED
            BY <1>1, <3>1, <3>2 DEF CI!TypeOK
    <2>4. CI!BytesInOrder'
        BY <1>4, <2>2 DEF CI!BytesInOrder, CI!InOrder, CI!Earlier
    <2> QED
        BY <1>3, <2>1, <2>2, <2>3, <2>4 DEF CI!ConcatInv
<1>6. ASSUME NEW k \in 1..CI!Min({want - Len(got), lengths[iSrc + 1] - pos}),
             got' = CI!Store([i \in 1..k |-> <<iSrc + 1, pos + i>>]),
             pos' = pos + k, UNCHANGED <<reading, want, lost>>
      PROVE  CI!ConcatInv'
    <2> DEFINE new == [i \in 1..k |-> <<iSrc + 1, pos + i>>]
               out == returned \o got
    <2>1. k \in Nat /\ k >= 1 /\ pos + k <= lengths[iSrc + 1]
        <3> DEFINE a == want - Len(got)
                   b == lengths[iSrc + 1] - pos
                   m == CI!Min({a, b})
        <3>1. a \in Int /\ b \in Int
            BY <1>2
        <3> HIDE DEF a, b
        <3>2. m \in Int /\ m <= a /\ m <= b
            BY <3>1, LowerOfTwo
        <3>3. k \in 1..m
            BY <1>6 DEF a, b
        <3> HIDE DEF m
        <3>4. k \in Nat /\ k >= 1 /\ k <= b
            BY <3>1, <3>2, <3>3
        <3> QED
            BY <1>2, <3>4 DEF b
    <2>2. /\ new \in Seq(Pair) /\ Len(new) = k
          /\ \A i \in 1..k : new[i] = <<iSrc + 1, pos + i>>
        BY <1>2, <2>1 DEF Pair
    <2>3. out \in Seq(Pair)
        BY <1>2, ConcatProperties
    <2>4. CI!ToSet(new) = {<<iSrc + 1, pos + i>> : i \in 1..k}
        <3>1. CI!ToSet(new) = {new[i] : i \in 1..Len(new)}
            BY <2>2, BytesConcat
        <3> HIDE DEF new
        <3> QED
            BY <2>2, <3>1
    <2>5. returned' \o got' = out \o new
        <3>1. got' = got \o new
            BY <1>6 DEF CI!Store
        <3>2. new \in Seq(Pair)
            BY <2>2
        <3> HIDE DEF new
        <3>3. (returned \o got) \o new = returned \o (got \o new)
            <4>1. returned \in Seq(Pair) /\ got \in Seq(Pair)
                BY <1>2
            <4>2. \A s, t, u \in Seq(Pair) : (s \o t) \o u = s \o (t \o u)
                BY ConcatAssociative
            <4> QED
                BY <3>2, <4>1, <4>2
        <3>4. returned' = returned
            BY <1>1
        <3>5. returned' \o got' = returned \o (got \o new)
            BY <3>1, <3>4
        <3> QED
            BY <3>3, <3>5
    <2>6. got' \in Seq(Pair)
        BY <1>2, <1>6, <2>2, ConcatProperties DEF CI!Store
    <2> HIDE DEF new, out
    <2>7. CI!Taken' = CI!Taken \cup CI!ToSet(new) /\ CI!Taken \cap CI!ToSet(new) = {}
        <3>2. \A s \in 1..Len(lengths) :
                  CI!TakenOf(s)' = IF s = iSrc + 1 THEN pos + k ELSE CI!TakenOf(s)
            BY <1>1, <1>2, <1>6 DEF CI!TakenOf
        <3>3. CI!TakenOf(iSrc + 1) = pos
            BY <1>2 DEF CI!TakenOf
        <3>4. \A b : b \in CI!Taken' <=>
                  \E s \in 1..Len(lengths) : \E n \in 1..CI!TakenOf(s)' : b = <<s, n>>
            <4>1. CI!Taken' = UNION { {s} \X (1..CI!TakenOf(s)') : s \in 1..Len(lengths) }
                BY <1>1 DEF CI!Taken
            <4>2. ASSUME NEW b \in CI!Taken'
                  PROVE  \E s \in 1..Len(lengths) : \E n \in 1..CI!TakenOf(s)' : b = <<s, n>>
                <5>1. PICK s \in 1..Len(lengths) : b \in {s} \X (1..CI!TakenOf(s)')
                    BY <4>1
                <5> QED
                    BY <5>1
            <4>3. ASSUME NEW s \in 1..Len(lengths), NEW n \in 1..CI!TakenOf(s)'
                  PROVE  <<s, n>> \in CI!Taken'
                BY <4>1
            <4> QED
                BY <4>2, <4>3
        <3>5. \A b : b \in CI!Taken <=>
                  \E s \in 1..Len(lengths) : \E n \in 1..CI!TakenOf(s) : b = <<s, n>>
            BY <1>1, TakenFacts
        <3>6. ASSUME NEW b \in CI!Taken'
              PROVE  b \in CI!Taken \/ b \in CI!ToSet(new)
            <4>1. PICK s \in 1..Len(lengths) : \E n \in 1..CI!TakenOf(s)' : b = <<s, n>>
                BY <3>4
            <4>2. PICK n \in 1..CI!TakenOf(s)' : b = <<s, n>>
                BY <4>1
            <4>3. CASE s = iSrc + 1
                <5>1. n \in 1..(pos + k)
                    BY <3>2, <4>2, <4>3
                <5>2. n \in 1..pos \/ (n - pos \in 1..k /\ n = pos + (n - pos))
                    BY <1>2, <2>1, <5>1
                <5>3. CASE n \in 1..pos
                    BY <3>3, <3>5, <4>2, <4>3, <5>3
                <5>4. CASE n - pos \in 1..k /\ n = pos + (n - pos)
                    BY <2>4, <4>2, <4>3, <5>4
                <5> QED
                    BY <5>2, <5>3, <5>4
            <4>4. CASE s # iSrc + 1
                BY <3>2, <3>5, <4>2, <4>4
            <4> QED
                BY <4>3, <4>4
        <3>7. ASSUME NEW b \in CI!Taken
              PROVE  b \in CI!Taken' /\ b \notin CI!ToSet(new)
            <4>1. PICK s \in 1..Len(lengths) : \E n \in 1..CI!TakenOf(s) : b = <<s, n>>
                BY <3>5
            <4>2. PICK n \in 1..CI!TakenOf(s) : b = <<s, n>>
                BY <4>1
            <4>3. CI!TakenOf(s) \in Nat
                BY <1>1, TakenFacts
            <4>4. n \in 1..CI!TakenOf(s)'
                BY <1>2, <2>1, <3>2, <3>3, <4>2, <4>3
            <4>5. s = iSrc + 1 => n <= pos
                BY <3>3, <4>2
            <4>6. \A i \in 1..k : s = iSrc + 1 => n # pos + i
                BY <1>2, <4>5
            <4> QED
                BY <2>4, <3>4, <4>2, <4>4, <4>6
        <3>8. ASSUME NEW i \in 1..k
              PROVE  <<iSrc + 1, pos + i>> \in CI!Taken'
            <4>1. PICK s \in 1..Len(lengths) : s = iSrc + 1
                BY <1>2
            <4>2. CI!TakenOf(s)' = pos + k
                BY <3>2, <4>1
            <4>3. pos + i \in 1..CI!TakenOf(s)'
                BY <1>2, <2>1, <4>2
            <4> QED
                BY <3>4, <4>1, <4>3
        <3> QED
            BY <2>4, <3>6, <3>7, <3>8
    <2>8. CI!ToSet(out \o new) = CI!Taken' \ lost'
        <3>1. CI!ToSet(out \o new) = CI!ToSet(out) \cup CI!ToSet(new)
            BY <2>2, <2>3, BytesConcat
        <3> QED
            BY <1>1, <1>6, <2>7, <3>1 DEF out
    <2>9. CI!InOrder(new)
        <3> SUFFICES ASSUME NEW i \in 1..k, NEW j \in 1..k, i < j
                     PROVE  CI!Earlier(new[i], new[j])
            BY <2>2 DEF CI!InOrder
        <3>1. pos + i < pos + j
            BY <1>2, <2>1
        <3> QED
            BY <2>2, <3>1 DEF CI!Earlier
    <2>10. \A i \in 1..Len(out), j \in 1..Len(new) : CI!Earlier(out[i], new[j])
        <3> SUFFICES ASSUME NEW i \in 1..Len(out), NEW j \in 1..k
                     PROVE  CI!Earlier(out[i], <<iSrc + 1, pos + j>>)
            BY <2>2
        <3>1. out[i] \in CI!Taken
            <4>1. CI!ToSet(out) = {out[n] : n \in 1..Len(out)}
                BY <2>3, BytesConcat
            <4> QED
                BY <1>1, <4>1 DEF out
        <3>2. PICK s \in 1..Len(lengths) : \E n \in 1..CI!TakenOf(s) : out[i] = <<s, n>>
            BY <1>1, <3>1, TakenFacts
        <3>3. PICK n \in 1..CI!TakenOf(s) : out[i] = <<s, n>>
            BY <3>2
        <3>4. s < iSrc + 1 \/ (s = iSrc + 1 /\ n <= pos)
            <4>1. s > iSrc + 1 => CI!TakenOf(s) = 0
                BY <1>2 DEF CI!TakenOf
            <4>2. s = iSrc + 1 => CI!TakenOf(s) = pos
                BY <1>2 DEF CI!TakenOf
            <4> QED
                BY <1>2, <3>3, <4>1, <4>2
        <3>5. s < iSrc + 1 \/ (s = iSrc + 1 /\ n < pos + j)
            BY <1>2, <3>4
        <3> QED
            BY <3>3, <3>5 DEF CI!Earlier
    <2>11. CI!InOrder(out \o new)
        BY <1>1, <2>2, <2>3, <2>9, <2>10, BytesConcat DEF out
    <2>12. CI!BytesInOrder'
        <3>1. CI!InOrder(returned' \o got') /\ CI!ToSet(returned' \o got') = CI!Taken' \ lost'
            BY <2>5, <2>8, <2>11
        <3> QED
            BY <1>4, <3>1 DEF CI!BytesInOrder, CI!InOrder, CI!Earlier
    <2>13. CI!TypeOK'
        BY <1>1, <1>2, <1>6, <2>1, <2>6 DEF CI!TypeOK, Pair
    <2>14. ~CI!IsEof' /\ pos' <= lengths'[iSrc' + 1]
        BY <1>1, <1>6, <2>1 DEF CI!IsEof
    <2>15. lost' \subseteq CI!Taken'
        BY <1>1, <1>6, <2>7
    <2>16. reading' /\ ~sourcesIsNull'
        BY <1>1, <1>6
    <2> QED
        BY <1>3, <2>12, <2>13, <2>14, <2>15, <2>16 DEF CI!ConcatInv
<1> QED
    BY <1>5, <1>6 DEF CI!SrcRead

\* Init.
LEMMA ConcatInit ==
    ASSUME CI!Init
    PROVE  CI!ConcatInv
<1>1. /\ lengths \in Seq(Nat) /\ sourcesIsNull = FALSE /\ iSrc = 0 /\ pos = 0
      /\ reading = FALSE /\ want = 0 /\ got = <<>> /\ returned = <<>> /\ lost = {}
      /\ eof = FALSE /\ closes = [i \in DOMAIN lengths |-> 0]
    BY ConcatAssumption DEF CI!Init
<1>2. <<>> \in Seq(Pair) /\ Len(<<>>) = 0 /\ (<<>> \o <<>> = <<>>)
    <2>1. <<>> \in Seq(Pair) /\ Len(<<>>) = 0
        BY EmptySeq
    <2>2. \A s \in Seq(Pair) : s \o <<>> = s
        BY ConcatEmptySeq
    <2> QED
        BY <2>1, <2>2
<1>3. CI!TypeOK
    <2>1. closes \in [DOMAIN lengths -> Nat]
        BY <1>1
    <2>2. iSrc \in 0..Len(lengths) /\ pos \in Nat /\ want \in Nat
        BY <1>1
    <2>3. returned \in Seq(Nat \X Nat) /\ got \in Seq(Nat \X Nat)
        BY <1>1, <1>2 DEF Pair
    <2>4. sourcesIsNull \in BOOLEAN /\ reading \in BOOLEAN /\ eof \in BOOLEAN
        BY <1>1
    <2> QED
        BY <1>1, <2>1, <2>2, <2>3, <2>4 DEF CI!TypeOK
<1>4. CI!Taken = {}
    <2>1. \A s \in 1..Len(lengths) : CI!TakenOf(s) = 0
        BY <1>1 DEF CI!TakenOf
    <2>2. \A s \in 1..Len(lengths) : 1..CI!TakenOf(s) = {}
        BY <2>1
    <2> QED
        BY <2>2, <1>3, TakenFacts
<1>5. CI!InOrder(<<>>) /\ CI!ToSet(<<>>) = {}
    BY <1>2 DEF CI!InOrder, CI!ToSet
<1>6. CI!BytesInOrder
    BY <1>1, <1>2, <1>4, <1>5 DEF CI!BytesInOrder
<1>7. CI!EverySourceClosedOnce
    BY <1>1 DEF CI!EverySourceClosedOnce
<1>8. IF CI!IsEof THEN pos = 0 ELSE pos <= lengths[iSrc + 1]
    BY <1>1 DEF CI!IsEof
<1> QED
    BY <1>1, <1>3, <1>4, <1>6, <1>7, <1>8 DEF CI!ConcatInv

\* Read: a call begins.
LEMMA ReadKeeps ==
    ASSUME CI!ConcatInv, NEW n \in 0..MaxWant, CI!Read(n)
    PROVE  CI!ConcatInv'
<1>1. /\ reading' = TRUE /\ want' = n /\ got' = got /\ returned' = returned
      /\ lost' = lost /\ eof' = eof /\ sourcesIsNull' = sourcesIsNull
      /\ sourcesIsNull = FALSE /\ n \in Nat
      /\ UNCHANGED <<lengths, iSrc, pos, sourcesIsNull, closes>>
    BY ConcatAssumption DEF CI!Read, CI!ConcatInv, CI!TypeOK
<1>2. /\ CI!Taken' = CI!Taken /\ (CI!IsEof' <=> CI!IsEof)
      /\ IF CI!IsEof' THEN pos' = 0 ELSE pos' <= lengths'[iSrc' + 1]
      /\ CI!EverySourceClosedOnce'
      /\ lengths' \in Seq(Nat) /\ iSrc' \in 0..Len(lengths') /\ pos' \in Nat
      /\ sourcesIsNull' \in BOOLEAN /\ closes' \in [DOMAIN lengths' -> Nat]
    BY <1>1, SameSources
<1>3. CI!TypeOK'
    BY <1>1, <1>2 DEF CI!ConcatInv, CI!TypeOK
<1>4. returned' \o got' = returned \o got
    BY <1>1
<1>5. CI!InOrder(returned' \o got') /\ CI!ToSet(returned' \o got') = CI!Taken' \ lost'
    BY <1>1, <1>2, <1>4 DEF CI!ConcatInv, CI!BytesInOrder
<1>6. eof' => CI!IsEof'
    BY <1>1, <1>2 DEF CI!ConcatInv, CI!BytesInOrder
<1>7. CI!BytesInOrder'
    BY <1>5, <1>6 DEF CI!BytesInOrder, CI!InOrder, CI!Earlier
<1>8. lost' \subseteq CI!Taken'
    BY <1>1, <1>2 DEF CI!ConcatInv
<1> QED
    BY <1>1, <1>2, <1>3, <1>7, <1>8 DEF CI!ConcatInv

\* Served and AtEof: a call returns.
LEMMA ReturnKeeps ==
    ASSUME CI!ConcatInv, CI!Return, lost' = lost, eof' = eof \/ (eof' \in BOOLEAN /\ CI!IsEof),
           UNCHANGED <<lengths, iSrc, pos, sourcesIsNull, closes>>
    PROVE  CI!ConcatInv'
<1>1. /\ CI!Taken' = CI!Taken /\ (CI!IsEof' <=> CI!IsEof)
      /\ IF CI!IsEof' THEN pos' = 0 ELSE pos' <= lengths'[iSrc' + 1]
      /\ CI!EverySourceClosedOnce'
      /\ lengths' \in Seq(Nat) /\ iSrc' \in 0..Len(lengths') /\ pos' \in Nat
      /\ sourcesIsNull' \in BOOLEAN /\ closes' \in [DOMAIN lengths' -> Nat]
    BY SameSources
<1>2. /\ returned' \o got' = returned \o got
      /\ returned' \in Seq(Pair) /\ got' = <<>> /\ reading' = FALSE /\ want' = 0
    BY ConcatReturns
<1>3. <<>> \in Seq(Pair)
    BY EmptySeq
<1>4. eof' \in BOOLEAN /\ (eof' => CI!IsEof')
    BY <1>1 DEF CI!ConcatInv, CI!BytesInOrder, CI!TypeOK
<1>5. CI!TypeOK'
    BY <1>1, <1>2, <1>3, <1>4 DEF CI!TypeOK, Pair
<1>6. CI!InOrder(returned' \o got') /\ CI!ToSet(returned' \o got') = CI!Taken' \ lost'
    BY <1>1, <1>2 DEF CI!ConcatInv, CI!BytesInOrder
<1>7. CI!BytesInOrder'
    BY <1>4, <1>6 DEF CI!BytesInOrder, CI!InOrder, CI!Earlier
<1>8. lost' \subseteq CI!Taken'
    BY <1>1 DEF CI!ConcatInv
<1> QED
    BY <1>1, <1>2, <1>5, <1>7, <1>8 DEF CI!ConcatInv

\* ShiftToNextSource: the source is drained, so that what was taken of it stays when
\* iSrc and pos move on; and it is closed as iSrc passes it, even if that throws.
LEMMA ShiftKeeps ==
    ASSUME CI!ConcatInv, CI!ShiftToNextSource
    PROVE  CI!ConcatInv'
<1>1. /\ reading /\ ~CI!IsEof /\ pos = lengths[iSrc + 1]
      /\ closes' = [closes EXCEPT ![iSrc + 1] = @ + 1]
      /\ lengths' = lengths /\ sourcesIsNull' = sourcesIsNull /\ returned' = returned
      /\ eof' = eof /\ iSrc' = iSrc + 1
    BY DEF CI!ShiftToNextSource, CI!SrcAfterShift
<1>2. /\ CI!TypeOK /\ sourcesIsNull = FALSE /\ CI!EverySourceClosedOnce
      /\ CI!InOrder(returned \o got) /\ CI!ToSet(returned \o got) = CI!Taken \ lost
      /\ lost \subseteq CI!Taken
    BY <1>1 DEF CI!ConcatInv, CI!BytesInOrder, CI!TypeOK
<1>3. /\ iSrc \in Nat /\ pos \in Nat /\ Len(lengths) \in Nat
      /\ iSrc + 1 \in 1..Len(lengths) /\ lengths[iSrc + 1] \in Nat
      /\ DOMAIN lengths = 1..Len(lengths) /\ \A s \in 1..Len(lengths) : lengths[s] \in Nat
      /\ closes \in [DOMAIN lengths -> Nat] /\ eof \in BOOLEAN
      /\ returned \in Seq(Pair) /\ got \in Seq(Pair) /\ want \in Nat
    <2>1. /\ iSrc \in 0..Len(lengths) /\ pos \in Nat /\ lengths \in Seq(Nat)
          /\ closes \in [DOMAIN lengths -> Nat] /\ eof \in BOOLEAN
          /\ returned \in Seq(Pair) /\ got \in Seq(Pair) /\ want \in Nat
        BY <1>2 DEF CI!TypeOK, Pair
    <2>2. /\ Len(lengths) \in Nat /\ DOMAIN lengths = 1..Len(lengths)
          /\ \A s \in 1..Len(lengths) : lengths[s] \in Nat
        <3>1. lengths \in Seq(Nat)
            BY <2>1
        <3> QED
            BY <3>1
    <2>3. iSrc \in Nat /\ iSrc + 1 \in 1..Len(lengths)
        <3>1. ~(iSrc >= Len(lengths))
            BY <1>1 DEF CI!IsEof
        <3>2. iSrc \in 0..Len(lengths) /\ Len(lengths) \in Nat
            BY <2>1, <2>2
        <3> QED
            BY <3>1, <3>2
    <2> QED
        BY <2>1, <2>2, <2>3
<1>4. pos' = 0
    BY <1>1, <1>3 DEF CI!ShiftToNextSource, CI!SrcAfterShift
<1>5. CI!Taken' = CI!Taken
    <2>1. \A s \in 1..Len(lengths) : CI!TakenOf(s)' = CI!TakenOf(s)
        BY <1>1, <1>3, <1>4 DEF CI!TakenOf
    <2>2. {{s} \X (1..CI!TakenOf(s)') : s \in 1..Len(lengths)}
            = {{s} \X (1..CI!TakenOf(s)) : s \in 1..Len(lengths)}
        BY <2>1
    <2> QED
        BY <1>1, <2>2 DEF CI!Taken
<1>6. IF CI!IsEof' THEN pos' = 0 ELSE pos' <= lengths'[iSrc' + 1]
    BY <1>1, <1>3, <1>4 DEF CI!IsEof
<1>7. eof' => CI!IsEof'
    <2>1. eof => CI!IsEof
        BY DEF CI!ConcatInv, CI!BytesInOrder
    <2>2. ~eof'
        BY <1>1, <2>1
    <2> QED
        BY <2>2
<1>8. CI!EverySourceClosedOnce' /\ closes' \in [DOMAIN lengths' -> Nat]
    <2>1. \A i \in 1..Len(lengths) : closes[i] = IF i <= iSrc THEN 1 ELSE 0
        BY <1>2, <1>3 DEF CI!EverySourceClosedOnce
    <2>2. closes' \in [1..Len(lengths) -> Nat]
        BY <1>1, <1>3
    <2>3. ASSUME NEW i \in 1..Len(lengths)
          PROVE  closes'[i] = IF i <= iSrc + 1 THEN 1 ELSE 0
        <3>1. CASE i = iSrc + 1
            <4>1. ~(i <= iSrc) /\ i <= iSrc + 1
                BY <1>3, <3>1
            <4>2. closes'[i] = closes[i] + 1 /\ closes[i] = 0
                BY <1>1, <1>3, <2>1, <3>1, <4>1
            <4> QED
                BY <4>1, <4>2
        <3>2. CASE i # iSrc + 1
            <4>1. i <= iSrc <=> i <= iSrc + 1
                BY <1>3, <3>2
            <4>2. closes'[i] = closes[i]
                BY <1>1, <1>3, <3>2
            <4> QED
                BY <2>1, <4>1, <4>2
        <3> QED
            BY <3>1, <3>2
    <2>4. sourcesIsNull' = FALSE /\ iSrc' = iSrc + 1 /\ DOMAIN lengths' = 1..Len(lengths)
        BY <1>1, <1>2, <1>3
    <2> QED
        BY <2>2, <2>3, <2>4 DEF CI!EverySourceClosedOnce
<1>9. /\ CI!InOrder(returned' \o got') /\ CI!ToSet(returned' \o got') = CI!Taken' \ lost'
      /\ lost' \subseteq CI!Taken' /\ got' \in Seq(Pair) /\ reading' \in BOOLEAN
      /\ want' \in Nat /\ (reading' \/ got' = <<>>)
    <2>1. CASE UNCHANGED <<reading, want, got, lost>>
        BY <1>1, <1>2, <1>3, <1>5, <2>1
    <2>2. CASE CI!Throw
        <3>1. /\ CI!InOrder(returned' \o got') /\ CI!ToSet(returned' \o got') = CI!Taken' \ lost'
              /\ lost' \subseteq CI!Taken' /\ got' = <<>> /\ reading' = FALSE /\ want' = 0
            BY <1>1, <1>5, <2>2, ConcatThrows
        <3>2. <<>> \in Seq(Pair)
            BY EmptySeq
        <3> QED
            BY <3>1, <3>2
    <2> QED
        BY <2>1, <2>2 DEF CI!ShiftToNextSource
<1>10. CI!TypeOK'
    BY <1>1, <1>2, <1>3, <1>4, <1>8, <1>9 DEF CI!TypeOK, Pair
<1>11. CI!BytesInOrder'
    BY <1>7, <1>9 DEF CI!BytesInOrder, CI!InOrder, CI!Earlier
<1> QED
    BY <1>1, <1>2, <1>6, <1>8, <1>9, <1>10, <1>11 DEF CI!ConcatInv

\* Close: the remaining sources are closed.
LEMMA CloseKeeps ==
    ASSUME CI!ConcatInv, CI!Close
    PROVE  CI!ConcatInv'
<1>1. /\ reading = FALSE /\ sourcesIsNull = FALSE
      /\ closes' = [i \in DOMAIN lengths |-> IF i > iSrc THEN closes[i] + 1 ELSE closes[i]]
      /\ sourcesIsNull' = TRUE /\ lengths' = lengths /\ iSrc' = iSrc /\ pos' = pos
      /\ reading' = reading /\ want' = want /\ got' = got /\ returned' = returned
      /\ lost' = lost /\ eof' = eof
    BY DEF CI!Close, CI!ConcatInv, CI!TypeOK
<1>2. CI!TypeOK /\ CI!EverySourceClosedOnce
    BY DEF CI!ConcatInv
<1>3. /\ iSrc \in Nat /\ DOMAIN lengths = 1..Len(lengths) /\ Len(lengths) \in Nat
      /\ closes \in [DOMAIN lengths -> Nat]
    BY <1>2 DEF CI!TypeOK
<1>4. CI!EverySourceClosedOnce' /\ closes' \in [DOMAIN lengths' -> Nat]
    <2>1. \A i \in 1..Len(lengths) :
              /\ i > iSrc => closes'[i] = closes[i] + 1 /\ closes[i] = 0
              /\ ~(i > iSrc) => closes'[i] = closes[i] /\ closes[i] = 1
        BY <1>1, <1>2, <1>3 DEF CI!EverySourceClosedOnce
    <2>2. \A i \in 1..Len(lengths) : closes'[i] = 1
        BY <2>1
    <2>3. closes' \in [DOMAIN lengths -> Nat]
        BY <1>1, <1>3
    <2> QED
        BY <1>1, <1>3, <2>2, <2>3 DEF CI!EverySourceClosedOnce
<1>5. CI!Taken' = CI!Taken
    <2>1. \A s : CI!TakenOf(s)' = CI!TakenOf(s)
        BY <1>1 DEF CI!TakenOf
    <2> QED
        BY <1>1, <2>1 DEF CI!Taken
<1>6. CI!TypeOK'
    BY <1>1, <1>2, <1>4 DEF CI!TypeOK
<1>7. CI!BytesInOrder'
    BY <1>1, <1>5 DEF CI!ConcatInv, CI!BytesInOrder, CI!InOrder, CI!Earlier, CI!IsEof
<1>8. IF CI!IsEof' THEN pos' = 0 ELSE pos' <= lengths'[iSrc' + 1]
    BY <1>1 DEF CI!ConcatInv, CI!IsEof
<1>9. lost' \subseteq CI!Taken' /\ (~reading' => got' = <<>>) /\ reading' = FALSE
    BY <1>1, <1>5 DEF CI!ConcatInv
<1> QED
    BY <1>4, <1>6, <1>7, <1>8, <1>9 DEF CI!ConcatInv

\* A step that changes nothing of the stream.
LEMMA ConcatStutters ==
    ASSUME CI!ConcatInv, UNCHANGED ciVars
    PROVE  CI!ConcatInv'
<1>1. /\ lengths' = lengths /\ sourcesIsNull' = sourcesIsNull /\ iSrc' = iSrc /\ pos' = pos
      /\ reading' = reading /\ want' = want /\ got' = got /\ returned' = returned
      /\ lost' = lost /\ eof' = eof /\ closes' = closes
    BY DEF ciVars
<1>2. CI!Taken' = CI!Taken
    <2>1. \A s : CI!TakenOf(s)' = CI!TakenOf(s)
        BY <1>1 DEF CI!TakenOf
    <2> QED
        BY <1>1, <2>1 DEF CI!Taken
<1>3. CI!TypeOK'
    BY <1>1 DEF CI!ConcatInv, CI!TypeOK
<1>4. CI!BytesInOrder'
    BY <1>1, <1>2 DEF CI!ConcatInv, CI!BytesInOrder, CI!InOrder, CI!Earlier, CI!IsEof
<1>5. CI!EverySourceClosedOnce'
    BY <1>1 DEF CI!ConcatInv, CI!EverySourceClosedOnce
<1> QED
    BY <1>1, <1>2, <1>3, <1>4, <1>5 DEF CI!ConcatInv, CI!IsEof

\* ConcatInv is inductive.
LEMMA ConcatStep ==
    ASSUME CI!ConcatInv, CI!Next
    PROVE  CI!ConcatInv'
<1>1. ASSUME NEW n \in 0..MaxWant, CI!Read(n)
      PROVE  CI!ConcatInv'
    BY <1>1, ReadKeeps
<1>2. CASE CI!Served
    BY <1>2, ReturnKeeps DEF CI!Served
<1>3. CASE CI!AtEof
    BY <1>3, ReturnKeeps DEF CI!AtEof, CI!ConcatInv, CI!TypeOK
<1>4. CASE CI!SrcRead
    BY <1>4, SrcReadKeeps
<1>5. CASE CI!ShiftToNextSource
    BY <1>5, ShiftKeeps
<1>6. CASE CI!Close
    BY <1>6, CloseKeeps
<1>7. CASE CI!Ended
    BY <1>7, ConcatStutters DEF CI!Ended, CI!ciVars, ciVars
<1> QED
    BY <1>1, <1>2, <1>3, <1>4, <1>5, <1>6, <1>7 DEF CI!Next

-----------------------------------------------------------------------------
(* ByteChunkOStream.java                                                   *)

Ascends(s) == \A i, j \in 1..Len(s) : i < j => s[i] < s[j]
Below(s, t) == \A i \in 1..Len(s), j \in 1..Len(t) : s[i] < t[j]
InChunks(C) == UNION BC!ToSet([i \in 1..Len(C) |-> BC!ToSet(C[i])])

Held(x, C) == \E i \in 1..Len(C) : \E k \in 1..Len(C[i]) : x = C[i][k]

\* The data of ByteChunkInv: chunks C, buffer b, rest r of the array, s bytes sent, R refused.
Whole(C, b, r, s, R) ==
    /\ BC!InOrder(C \o <<b, r>>)
    /\ InChunks(C) \cup BC!ToSet(b) \cup BC!ToSet(r) = (1..s) \ R
    /\ \A i \in 1..Len(C) : Len(C[i]) \in 1..ChunkSize
    /\ Len(b) <= ChunkSize
    /\ Len(r) <= s
    /\ \A i \in 1..Len(r) : r[i] = (s - Len(r)) + i
    /\ \A i \in 1..Len(b) : b[i] <= s - Len(r)
    /\ \A i \in 1..Len(C) : \A k \in 1..Len(C[i]) : C[i][k] <= s - Len(r)
    /\ R \subseteq 1..(s - Len(r))

\* The same of the bytes that were taken out of the array, those up to e.
Core(C, b, e, R) ==
    /\ BC!InOrder(C) /\ Ascends(b) /\ \A i \in 1..Len(C) : Below(C[i], b)
    /\ InChunks(C) \cup BC!ToSet(b) = (1..e) \ R
    /\ \A i \in 1..Len(C) : Len(C[i]) \in 1..ChunkSize
    /\ Len(b) <= ChunkSize
    /\ R \subseteq 1..e

\* What is in the chunks.
LEMMA InChunksFacts ==
    ASSUME NEW C \in Seq(Seq(Nat))
    PROVE  \A x : x \in InChunks(C) <=> Held(x, C)
<1> DEFINE sets == [i \in 1..Len(C) |-> BC!ToSet(C[i])]
<1>1. BC!ToSet(sets) = {BC!ToSet(C[i]) : i \in 1..Len(C)}
    BY DEF BC!ToSet
<1>2. ASSUME NEW i \in 1..Len(C)
      PROVE  BC!ToSet(C[i]) = {C[i][k] : k \in 1..Len(C[i])}
    <2>1. C[i] \in Seq(Nat)
        OBVIOUS
    <2> QED
        BY <2>1 DEF BC!ToSet
<1>3. InChunks(C) = UNION {BC!ToSet(C[i]) : i \in 1..Len(C)}
    BY <1>1 DEF InChunks
<1>4. ASSUME NEW x \in InChunks(C)
      PROVE  \E i \in 1..Len(C) : \E k \in 1..Len(C[i]) : x = C[i][k]
    <2>1. PICK i \in 1..Len(C) : x \in BC!ToSet(C[i])
        BY <1>3, <1>4
    <2> QED
        BY <1>2, <2>1
<1>5. ASSUME NEW i \in 1..Len(C), NEW k \in 1..Len(C[i])
      PROVE  C[i][k] \in InChunks(C)
    <2>1. C[i][k] \in BC!ToSet(C[i])
        BY <1>2
    <2> QED
        BY <1>3, <2>1
<1> QED
    BY <1>4, <1>5 DEF Held

\* The order of the chunks, the buffer and the rest.
LEMMA Layers ==
    ASSUME NEW C \in Seq(Seq(Nat)), NEW b \in Seq(Nat), NEW r \in Seq(Nat)
    PROVE  BC!InOrder(C \o <<b, r>>) <=>
              /\ BC!InOrder(C) /\ Ascends(b) /\ Ascends(r) /\ Below(b, r)
              /\ \A i \in 1..Len(C) : Below(C[i], b) /\ Below(C[i], r)
<1> DEFINE P == C \o <<b, r>>
           m == Len(C)
<1>1. /\ m \in Nat /\ Len(P) = m + 2 /\ P[m + 1] = b /\ P[m + 2] = r
      /\ \A i \in 1..m : P[i] = C[i]
    <2>1. <<b, r>> \in Seq(Seq(Nat)) /\ Len(<<b, r>>) = 2
        OBVIOUS
    <2>2. /\ Len(P) = m + 2 /\ m \in Nat
          /\ \A i \in 1..(m + 2) : P[i] = IF i <= m THEN C[i] ELSE <<b, r>>[i - m]
        BY <2>1, ConcatProperties
    <2> HIDE DEF P, m
    <2>3. /\ m + 1 \in 1..(m + 2) /\ ~(m + 1 <= m) /\ (m + 1) - m = 1
          /\ m + 2 \in 1..(m + 2) /\ ~(m + 2 <= m) /\ (m + 2) - m = 2
          /\ \A i \in 1..m : i \in 1..(m + 2) /\ i <= m
        BY <2>2
    <2>4. P[m + 1] = <<b, r>>[1] /\ P[m + 2] = <<b, r>>[2]
        BY <2>2, <2>3
    <2> QED
        BY <2>2, <2>3, <2>4
<1> HIDE DEF P
<1>2. /\ m + 1 \in 1..(m + 2) /\ m + 2 \in 1..(m + 2) /\ m + 1 < m + 2
      /\ \A i \in 1..m : i \in 1..(m + 2) /\ i < m + 1 /\ i < m + 2
      /\ \A i \in 1..(m + 2) : i \in 1..m \/ i = m + 1 \/ i = m + 2
    <2> HIDE DEF m
    <2> QED
        BY <1>1
<1>3. ASSUME BC!InOrder(P)
      PROVE  /\ BC!InOrder(C) /\ Ascends(b) /\ Ascends(r) /\ Below(b, r)
             /\ \A i \in 1..m : Below(C[i], b) /\ Below(C[i], r)
    <2>1. \A i, j \in 1..(m + 2) : \A k \in 1..Len(P[i]) : \A l \in 1..Len(P[j]) :
              (i < j \/ (i = j /\ k < l)) => P[i][k] < P[j][l]
        BY <1>1, <1>3 DEF BC!InOrder
    <2>2. BC!InOrder(C)
        BY <1>1, <1>2, <2>1 DEF BC!InOrder
    <2>3. Ascends(b)
        BY <1>1, <1>2, <2>1 DEF Ascends
    <2>4. Ascends(r)
        BY <1>1, <1>2, <2>1 DEF Ascends
    <2>5. Below(b, r)
        BY <1>1, <1>2, <2>1 DEF Below
    <2>6. ASSUME NEW i \in 1..m
          PROVE  Below(C[i], b) /\ Below(C[i], r)
        BY <1>1, <1>2, <2>1 DEF Below
    <2> QED
        BY <2>2, <2>3, <2>4, <2>5, <2>6
<1>4. ASSUME BC!InOrder(C), Ascends(b), Ascends(r), Below(b, r),
             \A i \in 1..m : Below(C[i], b) /\ Below(C[i], r)
      PROVE  BC!InOrder(P)
    <2> SUFFICES ASSUME NEW i \in 1..(m + 2), NEW j \in 1..(m + 2),
                        NEW k \in 1..Len(P[i]), NEW l \in 1..Len(P[j]),
                        i < j \/ (i = j /\ k < l)
                 PROVE  P[i][k] < P[j][l]
        BY <1>1 DEF BC!InOrder
    <2>1. CASE i \in 1..m /\ j \in 1..m
        BY <1>1, <1>4, <2>1 DEF BC!InOrder
    <2>2. CASE i \in 1..m /\ j = m + 1
        BY <1>1, <1>2, <1>4, <2>2 DEF Below
    <2>3. CASE i \in 1..m /\ j = m + 2
        BY <1>1, <1>2, <1>4, <2>3 DEF Below
    <2>4. CASE i = m + 1 /\ j = m + 1
        BY <1>1, <1>4, <2>4 DEF Ascends
    <2>5. CASE i = m + 1 /\ j = m + 2
        BY <1>1, <1>4, <2>5 DEF Below
    <2>6. CASE i = m + 2 /\ j = m + 2
        BY <1>1, <1>4, <2>6 DEF Ascends
    <2>7. ~(i = m + 1 /\ j \in 1..m) /\ ~(i = m + 2 /\ j \in 1..m) /\ ~(i = m + 2 /\ j = m + 1)
        <3>1. m \in Nat
            BY <1>1
        <3> HIDE DEF m
        <3>2. i \in Int /\ j \in Int
            BY <3>1
        <3>3. i < j \/ i = j
            OBVIOUS
        <3> QED
            BY <3>1, <3>2, <3>3
    <2> QED
        BY <1>2, <2>1, <2>2, <2>3, <2>4, <2>5, <2>6, <2>7
<1> QED
    BY <1>3, <1>4 DEF P

\* Whole and Core say the same.
LEMMA WholeIsCore ==
    ASSUME NEW C \in Seq(Seq(Nat)), NEW b \in Seq(Nat), NEW r \in Seq(Nat), NEW s \in Nat, NEW R
    PROVE  Whole(C, b, r, s, R) <=>
              /\ Len(r) <= s
              /\ \A i \in 1..Len(r) : r[i] = (s - Len(r)) + i
              /\ Core(C, b, s - Len(r), R)
<1> DEFINE e == s - Len(r)
<1>1. BC!ToSet(r) = {r[i] : i \in 1..Len(r)} /\ BC!ToSet(b) = {b[i] : i \in 1..Len(b)}
    <2>1. DOMAIN r = 1..Len(r) /\ DOMAIN b = 1..Len(b)
        OBVIOUS
    <2> QED
        BY <2>1, Zenon DEF BC!ToSet
<1>2. ASSUME Len(r) <= s, \A i \in 1..Len(r) : r[i] = e + i
      PROVE  /\ e \in Nat /\ Ascends(r) /\ s = e + Len(r)
             /\ \A x : x \in BC!ToSet(r) <=> x \in (e + 1)..s
    <2>1. e \in Nat /\ s = e + Len(r) /\ Len(r) \in Nat
        BY <1>2
    <2> HIDE DEF e
    <2>2. Ascends(r)
        BY <1>2, <2>1 DEF Ascends
    <2>3. ASSUME NEW x \in (e + 1)..s
          PROVE  x \in BC!ToSet(r)
        <3>1. x - e \in 1..Len(r) /\ x = e + (x - e)
            BY <2>1
        <3> QED
            BY <1>1, <1>2, <3>1
    <2>4. ASSUME NEW x \in BC!ToSet(r)
          PROVE  x \in (e + 1)..s
        <3>1. PICK i \in 1..Len(r) : x = r[i]
            BY <1>1
        <3>2. x = e + i
            BY <1>2, <3>1
        <3> QED
            BY <2>1, <3>2
    <2> QED
        BY <2>1, <2>2, <2>3, <2>4
<1>3. ASSUME Len(r) <= s, \A i \in 1..Len(r) : r[i] = e + i, Whole(C, b, r, s, R)
      PROVE  Core(C, b, e, R)
    <2>1. e \in Nat /\ s = e + Len(r) /\ Len(r) \in Nat
        BY <1>2, <1>3
    <2>2. BC!InOrder(C) /\ Ascends(b) /\ \A i \in 1..Len(C) : Below(C[i], b)
        BY <1>3, Layers DEF Whole
    <2>3. \A x \in InChunks(C) \cup BC!ToSet(b) : x \in Nat /\ x <= e
        <3>1. \A i \in 1..Len(C) : C[i] \in Seq(Nat) /\ \A k \in 1..Len(C[i]) : C[i][k] \in Nat
            OBVIOUS
        <3>2. \A i \in 1..Len(C) : \A k \in 1..Len(C[i]) : C[i][k] <= e
            BY <1>3 DEF Whole
        <3>3. \A i \in 1..Len(b) : b[i] <= e /\ b[i] \in Nat
            BY <1>3 DEF Whole
        <3>4. ASSUME NEW x \in InChunks(C)
              PROVE  x \in Nat /\ x <= e
            <4>1. Held(x, C)
                BY InChunksFacts
            <4> QED
                BY <3>1, <3>2, <4>1 DEF Held
        <3>5. \A x \in BC!ToSet(b) : x \in Nat /\ x <= e
            BY <1>1, <3>3
        <3> QED
            BY <3>4, <3>5
    <2>4. InChunks(C) \cup BC!ToSet(b) \cup BC!ToSet(r) = (1..s) \ R /\ R \subseteq 1..e
        BY <1>3 DEF Whole
    <2>5. \A x : x \in BC!ToSet(r) <=> x \in (e + 1)..s
        BY <1>2, <1>3
    <2> HIDE DEF e
    <2>6. ASSUME NEW x \in InChunks(C) \cup BC!ToSet(b)
          PROVE  x \in (1..e) \ R
        BY <2>1, <2>3, <2>4
    <2>7. ASSUME NEW x \in (1..e) \ R
          PROVE  x \in InChunks(C) \cup BC!ToSet(b)
        <3>1. x \in (1..s) \ R /\ x \notin (e + 1)..s
            BY <2>1
        <3> QED
            BY <2>4, <2>5, <3>1
    <2>8. /\ \A i \in 1..Len(C) : Len(C[i]) \in 1..ChunkSize
          /\ Len(b) <= ChunkSize
        BY <1>3 DEF Whole
    <2>9. InChunks(C) \cup BC!ToSet(b) = (1..e) \ R
        BY <2>6, <2>7
    <2> QED
        BY <2>2, <2>4, <2>8, <2>9 DEF Core
<1>4. ASSUME Len(r) <= s, \A i \in 1..Len(r) : r[i] = e + i, Core(C, b, e, R)
      PROVE  Whole(C, b, r, s, R)
    <2>1. e \in Nat /\ s = e + Len(r) /\ Len(r) \in Nat /\ Ascends(r)
        BY <1>2, <1>4
    <2>2. \A x : x \in BC!ToSet(r) <=> x \in (e + 1)..s
        BY <1>2, <1>4
    <2>3. InChunks(C) \cup BC!ToSet(b) = (1..e) \ R /\ R \subseteq 1..e
        BY <1>4 DEF Core
    <2>4. \A i \in 1..Len(r) : r[i] = e + i
        BY <1>4
    <2>5. \A i \in 1..Len(C) : \A k \in 1..Len(C[i]) : C[i][k] \in 1..e
        BY <2>3, InChunksFacts DEF Held
    <2>6. \A i \in 1..Len(b) : b[i] \in 1..e
        BY <1>1, <2>3
    <2>7. Below(b, r) /\ \A i \in 1..Len(C) : Below(C[i], r)
        <3> HIDE DEF e
        <3>1. \A x \in 1..e : \A i \in 1..Len(r) : x < r[i]
            BY <2>1, <2>4
        <3> QED
            BY <2>5, <2>6, <3>1 DEF Below
    <2>8. BC!InOrder(C \o <<b, r>>)
        BY <1>4, <2>1, <2>7, Layers DEF Core
    <2>9. InChunks(C) \cup BC!ToSet(b) \cup BC!ToSet(r) = (1..s) \ R
        <3> HIDE DEF e
        <3>1. ASSUME NEW x \in InChunks(C) \cup BC!ToSet(b) \cup BC!ToSet(r)
              PROVE  x \in (1..s) \ R
            <4>1. x \in (1..e) \ R \/ x \in (e + 1)..s
                BY <2>2, <2>3
            <4>2. ~(x \in (e + 1)..s /\ x \in 1..e)
                BY <2>1
            <4>3. x \in 1..e \/ x \in (e + 1)..s => x \in 1..s
                BY <2>1
            <4> QED
                BY <2>3, <4>1, <4>2, <4>3
        <3>2. ASSUME NEW x \in (1..s) \ R
              PROVE  x \in InChunks(C) \cup BC!ToSet(b) \cup BC!ToSet(r)
            <4>1. x \in 1..e \/ x \in (e + 1)..s
                BY <2>1
            <4> QED
                BY <2>2, <2>3, <4>1
        <3> QED
            BY <3>1, <3>2
    <2>10. /\ \A i \in 1..Len(b) : b[i] <= e
           /\ \A i \in 1..Len(C) : \A k \in 1..Len(C[i]) : C[i][k] <= e
        <3> HIDE DEF e
        <3>1. \A x \in 1..e : x <= e
            BY <2>1
        <3> QED
            BY <2>5, <2>6, <3>1
    <2> QED
        BY <1>4, <2>3, <2>8, <2>9, <2>10 DEF Whole, Core
<1> QED
    BY <1>3, <1>4 DEF Whole

\* Bytes from the array fill the buffer.
LEMMA Fill ==
    ASSUME NEW C \in Seq(Seq(Nat)), NEW b \in Seq(Nat), NEW r \in Seq(Nat), NEW e \in Nat, NEW R,
           Core(C, b, e, R), \A i \in 1..Len(r) : r[i] = e + i, Len(b) + Len(r) <= ChunkSize
    PROVE  Core(C, b \o r, e + Len(r), R) /\ b \o r \in Seq(Nat) /\ Len(b \o r) = Len(b) + Len(r)
<1> DEFINE u == b \o r
           m == Len(b)
           n == Len(r)
<1>1. /\ u \in Seq(Nat) /\ Len(u) = m + n /\ m \in Nat /\ n \in Nat
      /\ \A i \in 1..(m + n) : u[i] = IF i <= m THEN b[i] ELSE r[i - m]
    BY ConcatProperties
<1>2. /\ BC!ToSet(r) = {r[i] : i \in 1..n} /\ BC!ToSet(b) = {b[i] : i \in 1..m}
      /\ BC!ToSet(u) = {u[i] : i \in 1..(m + n)}
    <2>1. DOMAIN r = 1..n /\ DOMAIN b = 1..m /\ DOMAIN u = 1..(m + n)
        BY <1>1
    <2> QED
        BY <2>1, Zenon DEF BC!ToSet
<1> HIDE DEF u, m, n
<1>3. /\ \A i \in 1..m : b[i] \in 1..e
      /\ InChunks(C) \cup BC!ToSet(b) = (1..e) \ R /\ R \subseteq 1..e
    BY <1>2 DEF Core
<1>4. /\ \A i \in 1..m : i \in 1..(m + n) /\ u[i] = b[i] /\ i <= m
      /\ \A i \in 1..(m + n) : i \in 1..m \/ (i - m \in 1..n /\ ~(i <= m) /\ i = m + (i - m))
      /\ \A j \in 1..n : m + j \in 1..(m + n) /\ ~(m + j <= m) /\ (m + j) - m = j
    BY <1>1
<1>5. \A i \in 1..n : r[i] = e + i
    BY DEF n
<1>6. \A i \in 1..(m + n) : i \notin 1..m => u[i] = e + (i - m)
    BY <1>1, <1>4, <1>5
<1>7. Ascends(u)
    <2> SUFFICES ASSUME NEW i \in 1..(m + n), NEW j \in 1..(m + n), i < j
                 PROVE  u[i] < u[j]
        BY <1>1 DEF Ascends
    <2>1. CASE i \in 1..m /\ j \in 1..m
        BY <1>4, <2>1 DEF Ascends, Core, m
    <2>2. CASE i \in 1..m /\ j \notin 1..m
        <3>1. u[i] \in 1..e /\ u[j] = e + (j - m) /\ j - m \in 1..n
            BY <1>3, <1>4, <1>6, <2>2
        <3> QED
            BY <3>1
    <2>3. CASE i \notin 1..m /\ j \in 1..m
        BY <1>1, <2>3
    <2>4. CASE i \notin 1..m /\ j \notin 1..m
        <3>1. u[i] = e + (i - m) /\ u[j] = e + (j - m)
            BY <1>6, <2>4
        <3> QED
            BY <1>1, <3>1
    <2> QED
        BY <2>1, <2>2, <2>3, <2>4
<1>8. \A i \in 1..Len(C) : Below(C[i], u)
    <2> SUFFICES ASSUME NEW i \in 1..Len(C), NEW k \in 1..Len(C[i]), NEW j \in 1..(m + n)
                 PROVE  C[i][k] < u[j]
        BY <1>1 DEF Below
    <2>1. CASE j \in 1..m
        BY <1>4, <2>1 DEF Core, Below, m
    <2>2. CASE j \notin 1..m
        <3>1. C[i][k] \in 1..e
            BY <1>3, InChunksFacts DEF Held
        <3>2. u[j] = e + (j - m) /\ j - m \in 1..n
            BY <1>4, <1>6, <2>2
        <3>3. n \in Nat
            BY <1>1
        <3>4. \A x \in 1..e, y \in 1..n : x < e + y
            BY <3>3
        <3> QED
            BY <3>1, <3>2, <3>4
    <2> QED
        BY <2>1, <2>2
<1>9. InChunks(C) \cup BC!ToSet(u) = (1..(e + n)) \ R
    <2>1. ASSUME NEW x \in InChunks(C) \cup BC!ToSet(u)
          PROVE  x \in (1..(e + n)) \ R
        <3>1. CASE x \in InChunks(C) \cup BC!ToSet(b)
            <4>1. x \in (1..e) \ R
                BY <1>3, <3>1
            <4> QED
                BY <1>1, <4>1
        <3>2. ASSUME NEW j \in 1..(m + n), x = u[j]
              PROVE  x \in (1..(e + n)) \ R
            <4>1. CASE j \in 1..m
                <5>1. b[j] \in BC!ToSet(b)
                    BY <1>2, <4>1
                <5>2. x = b[j]
                    BY <1>4, <3>2, <4>1
                <5>3. x \in InChunks(C) \cup BC!ToSet(b)
                    BY <5>1, <5>2
                <5> QED
                    BY <3>1, <5>3
            <4>2. CASE j \notin 1..m
                <5>1. x = e + (j - m) /\ j - m \in 1..n
                    BY <1>4, <1>6, <3>2, <4>2
                <5>2. x \in 1..(e + n) /\ x \notin 1..e
                    BY <1>1, <5>1
                <5> QED
                    BY <1>3, <5>2
            <4> QED
                BY <4>1, <4>2
        <3> QED
            BY <1>2, <3>1, <3>2
    <2>2. ASSUME NEW x \in (1..(e + n)) \ R
          PROVE  x \in InChunks(C) \cup BC!ToSet(u)
        <3>1. CASE x \in 1..e
            <4>1. x \in InChunks(C) \/ x \in BC!ToSet(b)
                BY <1>3, <3>1
            <4>2. ASSUME NEW i \in 1..m
                  PROVE  b[i] \in BC!ToSet(u)
                <5>1. i \in 1..(m + n) /\ u[i] = b[i]
                    BY <1>4
                <5> QED
                    BY <1>2, <5>1
            <4>3. \A y \in BC!ToSet(b) : y \in BC!ToSet(u)
                BY <1>2, <4>2
            <4> QED
                BY <4>1, <4>3
        <3>2. CASE x \notin 1..e
            <4> DEFINE j == m + (x - e)
            <4>1. x - e \in 1..n /\ x = e + (x - e)
                BY <1>1, <3>2
            <4>2. j \in 1..(m + n) /\ j \notin 1..m /\ j - m = x - e
                BY <1>1, <4>1
            <4> HIDE DEF j
            <4>3. u[j] = x
                BY <1>6, <4>1, <4>2
            <4> QED
                BY <1>2, <4>2, <4>3
        <3> QED
            BY <3>1, <3>2
    <2> QED
        BY <2>1, <2>2
<1>10. R \subseteq 1..(e + n)
    <2>1. \A x \in 1..e : x \in 1..(e + n)
        BY <1>1
    <2> QED
        BY <1>3, <2>1
<1>11. Len(u) <= ChunkSize
    BY <1>1 DEF m, n
<1>12. BC!InOrder(C) /\ \A i \in 1..Len(C) : Len(C[i]) \in 1..ChunkSize
    BY DEF Core
<1>13. Core(C, u, e + n, R)
    BY <1>7, <1>8, <1>9, <1>10, <1>11, <1>12 DEF Core
<1> QED
    BY <1>1, <1>13 DEF u, m, n

\* A buffer that is not empty is passed on.
LEMMA Pass ==
    ASSUME NEW C \in Seq(Seq(Nat)), NEW b \in Seq(Nat), NEW e \in Nat, NEW R,
           Core(C, b, e, R), b # <<>>
    PROVE  Core(Append(C, b), <<>>, e, R) /\ Append(C, b) \in Seq(Seq(Nat))
<1> DEFINE D == Append(C, b)
           m == Len(C)
<1>1. /\ D \in Seq(Seq(Nat)) /\ Len(D) = m + 1 /\ m \in Nat /\ D[m + 1] = b
      /\ \A i \in 1..m : D[i] = C[i]
    BY AppendProperties
<1>2. /\ Len(b) \in 1..ChunkSize
      /\ BC!InOrder(C) /\ Ascends(b) /\ \A i \in 1..Len(C) : Below(C[i], b)
      /\ InChunks(C) \cup BC!ToSet(b) = (1..e) \ R
      /\ \A i \in 1..Len(C) : Len(C[i]) \in 1..ChunkSize
      /\ R \subseteq 1..e
    <2>1. Len(b) \in Nat /\ Len(b) # 0
        BY EmptySeq
    <2>2. Len(b) <= ChunkSize
        BY DEF Core
    <2>3. Len(b) \in 1..ChunkSize
        BY <2>1, <2>2, ByteChunkAssumption
    <2> QED
        BY <2>3 DEF Core
<1> HIDE DEF D
<1>3. \A i \in 1..(m + 1) : i \in 1..m \/ i = m + 1
    BY <1>1
<1>4. \A i \in 1..m : i \in 1..(m + 1) /\ i < m + 1
    BY <1>1
<1>5. BC!InOrder(D)
    <2> SUFFICES ASSUME NEW i \in 1..(m + 1), NEW j \in 1..(m + 1),
                        NEW k \in 1..Len(D[i]), NEW l \in 1..Len(D[j]),
                        i < j \/ (i = j /\ k < l)
                 PROVE  D[i][k] < D[j][l]
        BY <1>1 DEF BC!InOrder
    <2>1. CASE i \in 1..m /\ j \in 1..m
        BY <1>1, <1>2, <2>1 DEF BC!InOrder
    <2>2. CASE i \in 1..m /\ j = m + 1
        BY <1>1, <1>2, <2>2 DEF Below
    <2>3. CASE i = m + 1 /\ j = m + 1
        BY <1>1, <1>2, <2>3 DEF Ascends
    <2>4. ~(i = m + 1 /\ j \in 1..m)
        BY <1>1
    <2> QED
        BY <1>3, <2>1, <2>2, <2>3, <2>4
<1>6. BC!ToSet(b) = {b[i] : i \in 1..Len(b)}
    <2>1. DOMAIN b = 1..Len(b)
        OBVIOUS
    <2> QED
        BY <2>1, Zenon DEF BC!ToSet
<1>7. InChunks(D) = InChunks(C) \cup BC!ToSet(b)
    <2>1. \A x : x \in InChunks(C) <=> Held(x, C)
        BY InChunksFacts
    <2>2. \A x : x \in InChunks(D) <=> Held(x, D)
        BY <1>1, InChunksFacts
    <2>3. m + 1 \in 1..(m + 1)
        BY <1>1
    <2> HIDE DEF m
    <2>4. ASSUME NEW x \in InChunks(D)
          PROVE  x \in InChunks(C) \cup BC!ToSet(b)
        <3>1. PICK i \in 1..(m + 1) : \E k \in 1..Len(D[i]) : x = D[i][k]
            BY <1>1, <2>2 DEF Held
        <3>2. CASE i \in 1..m
            <4>1. Held(x, C)
                BY <1>1, <3>1, <3>2 DEF Held, m
            <4> QED
                BY <2>1, <4>1
        <3>3. CASE i = m + 1
            BY <1>1, <1>6, <3>1, <3>3
        <3> QED
            BY <1>3, <3>2, <3>3
    <2>5. ASSUME NEW x \in InChunks(C)
          PROVE  x \in InChunks(D)
        <3>1. Held(x, C)
            BY <2>1
        <3>2. Held(x, D)
            BY <1>1, <1>4, <3>1 DEF Held, m
        <3> QED
            BY <2>2, <3>2
    <2>6. ASSUME NEW x \in BC!ToSet(b)
          PROVE  x \in InChunks(D)
        BY <1>1, <1>6, <2>2, <2>3 DEF Held
    <2> QED
        BY <2>4, <2>5, <2>6
<1>8. /\ <<>> \in Seq(Nat) /\ Len(<<>>) = 0 /\ BC!ToSet(<<>>) = {} /\ Ascends(<<>>)
      /\ \A i \in 1..Len(D) : Below(D[i], <<>>)
    <2>1. <<>> \in Seq(Nat) /\ Len(<<>>) = 0 /\ 1..0 = {}
        BY EmptySeq
    <2>2. BC!ToSet(<<>>) = {} /\ Ascends(<<>>)
        BY <2>1 DEF BC!ToSet, Ascends
    <2>3. \A s : Below(s, <<>>)
        BY <2>1 DEF Below
    <2> QED
        BY <2>1, <2>2, <2>3
<1>9. \A i \in 1..Len(D) : Len(D[i]) \in 1..ChunkSize
    BY <1>1, <1>2, <1>3
<1>10. Len(<<>>) <= ChunkSize
    BY <1>8, ByteChunkAssumption
<1>11. InChunks(D) \cup BC!ToSet(<<>>) = (1..e) \ R
    BY <1>2, <1>7, <1>8
<1>12. Core(D, <<>>, e, R)
    BY <1>2, <1>5, <1>8, <1>9, <1>10, <1>11 DEF Core
<1> QED
    BY <1>1, <1>12 DEF D

\* The bytes behind e are refused.
LEMMA Refuse ==
    ASSUME NEW C \in Seq(Seq(Nat)), NEW b \in Seq(Nat), NEW e \in Nat, NEW n \in Nat, NEW R,
           Core(C, b, e, R)
    PROVE  Core(C, b, e + n, R \cup ((e + 1)..(e + n)))
<1>1. InChunks(C) \cup BC!ToSet(b) = (1..e) \ R /\ R \subseteq 1..e
    BY DEF Core
<1>2. (1..(e + n)) \ (R \cup ((e + 1)..(e + n))) = (1..e) \ R
    OBVIOUS
<1>3. R \cup ((e + 1)..(e + n)) \subseteq 1..(e + n)
    <2>1. \A x \in 1..e : x \in 1..(e + n)
        OBVIOUS
    <2>2. \A x \in (e + 1)..(e + n) : x \in 1..(e + n)
        OBVIOUS
    <2> QED
        BY <1>1, <2>1, <2>2
<1> QED
    BY <1>1, <1>2, <1>3 DEF Core

\* ByteChunkInv but for its data.
Control ==
    /\ BC!TypeOK
    /\ ~writing => rest = <<>>
    /\ bufIsNull => buf = <<>> /\ ~writing
    /\ ends <= 1
    /\ ends = 1 => bufIsNull /\ onEndIsNull

LEMMA ByteChunkSplit ==
    BC!ByteChunkInv <=> Control /\ Whole(chunks, buf, rest, sent, refused)
<1>1. BC!ChunksInOrder <=>
          /\ BC!InOrder(chunks \o <<buf, rest>>)
          /\ InChunks(chunks) \cup BC!ToSet(buf) \cup BC!ToSet(rest) = (1..sent) \ refused
          /\ \A i \in 1..Len(chunks) : Len(chunks[i]) \in 1..ChunkSize
          /\ ends <= 1
          /\ ends = 1 => buf = <<>> /\ rest = <<>>
    BY DEF BC!ChunksInOrder, InChunks
<1> QED
    BY <1>1 DEF BC!ByteChunkInv, Control, Whole, BC!Edge

\* The same of the next state.
LEMMA ByteChunkSplitNext ==
    BC!ByteChunkInv' <=> Control' /\ Whole(chunks', buf', rest', sent', refused')
<1>1. BC!ChunksInOrder' <=>
          /\ BC!InOrder(chunks' \o <<buf', rest'>>)
          /\ InChunks(chunks') \cup BC!ToSet(buf') \cup BC!ToSet(rest') = (1..sent') \ refused'
          /\ \A i \in 1..Len(chunks') : Len(chunks'[i]) \in 1..ChunkSize
          /\ ends' <= 1
          /\ ends' = 1 => buf' = <<>> /\ rest' = <<>>
    BY DEF BC!ChunksInOrder, InChunks, BC!InOrder, BC!ToSet
<1> QED
    BY <1>1 DEF BC!ByteChunkInv, Control, Whole, BC!Edge

\* What the steps start from.
LEMMA ByteChunkCore ==
    ASSUME BC!ByteChunkInv
    PROVE  /\ Control
           /\ chunks \in Seq(Seq(Nat)) /\ buf \in Seq(Nat) /\ rest \in Seq(Nat) /\ sent \in Nat
           /\ Len(rest) <= sent /\ sent - Len(rest) \in Nat
           /\ \A i \in 1..Len(rest) : rest[i] = (sent - Len(rest)) + i
           /\ Core(chunks, buf, sent - Len(rest), refused)
<1>1. Control /\ Whole(chunks, buf, rest, sent, refused)
    BY ByteChunkSplit
<1>2. chunks \in Seq(Seq(Nat)) /\ buf \in Seq(Nat) /\ rest \in Seq(Nat) /\ sent \in Nat
    BY <1>1 DEF Control, BC!TypeOK
<1>3. /\ Len(rest) <= sent
      /\ \A i \in 1..Len(rest) : rest[i] = (sent - Len(rest)) + i
      /\ Core(chunks, buf, sent - Len(rest), refused)
    BY <1>1, <1>2, WholeIsCore
<1>4. sent - Len(rest) \in Nat
    BY <1>2, <1>3
<1> QED
    BY <1>1, <1>2, <1>3, <1>4

\* What they have to come to.
LEMMA ByteChunkReached ==
    ASSUME Control', Len(rest') <= sent',
           \A i \in 1..Len(rest') : rest'[i] = (sent' - Len(rest')) + i,
           Core(chunks', buf', sent' - Len(rest'), refused')
    PROVE  BC!ByteChunkInv'
<1>1. chunks' \in Seq(Seq(Nat)) /\ buf' \in Seq(Nat) /\ rest' \in Seq(Nat) /\ sent' \in Nat
    BY DEF Control, BC!TypeOK
<1>2. Whole(chunks', buf', rest', sent', refused')
    BY <1>1, WholeIsCore
<1> QED
    BY <1>2, ByteChunkSplitNext

\* publishBuffer() leaves an empty buffer, whether the handler throws or not.
LEMMA PublishKeeps ==
    ASSUME chunks \in Seq(Seq(Nat)), NEW b \in Seq(Nat), NEW e \in Nat, NEW R, NEW ok \in BOOLEAN,
           Core(chunks, b, e, R), BC!PublishBuffer(b, ok)
    PROVE  /\ Core(chunks', buf', e, R) /\ buf' = <<>> /\ buf' \in Seq(Nat)
           /\ chunks' \in Seq(Seq(Nat))
<1>1. CASE b = <<>>
    BY <1>1, EmptySeq DEF BC!PublishBuffer
<1>2. CASE b # <<>>
    <2>1. buf' = <<>> /\ chunks' = Append(chunks, b)
        BY <1>2 DEF BC!PublishBuffer, BC!Emptied
    <2>2. Core(Append(chunks, b), <<>>, e, R) /\ Append(chunks, b) \in Seq(Seq(Nat))
        BY <1>2, Pass
    <2> QED
        BY <2>1, <2>2, EmptySeq
<1> QED
    BY <1>1, <1>2

\* Init.
LEMMA ByteChunkInit ==
    ASSUME BC!Init
    PROVE  BC!ByteChunkInv
<1>1. /\ buf = <<>> /\ bufIsNull = FALSE /\ onEndIsNull \in BOOLEAN /\ rest = <<>>
      /\ writing = FALSE /\ sent = 0 /\ refused = {} /\ chunks = <<>> /\ ends = 0
    BY DEF BC!Init
<1>2. /\ <<>> \in Seq(Nat) /\ <<>> \in Seq(Seq(Nat)) /\ Len(<<>>) = 0 /\ 1..0 = {}
    BY EmptySeq
<1>3. Control
    <2>1. buf \in Seq(Nat) /\ rest \in Seq(Nat) /\ chunks \in Seq(Seq(Nat))
        BY <1>1, <1>2
    <2>2. sent \in Nat /\ ends \in 0..1
        BY <1>1
    <2>3. bufIsNull \in BOOLEAN /\ onEndIsNull \in BOOLEAN /\ writing \in BOOLEAN
        BY <1>1, Zenon
    <2>4. BC!TypeOK
        BY <2>1, <2>2, <2>3 DEF BC!TypeOK
    <2> QED
        BY <1>1, <2>4 DEF Control
<1>4. InChunks(<<>>) = {} /\ BC!ToSet(<<>>) = {}
    <2>1. \A x : x \in InChunks(<<>>) <=> Held(x, <<>>)
        BY <1>2, InChunksFacts
    <2>2. \A x : ~Held(x, <<>>)
        BY <1>2 DEF Held
    <2>3. BC!ToSet(<<>>) = {}
        BY DEF BC!ToSet
    <2> QED
        BY <2>1, <2>2, <2>3
<1>5. 0 <= ChunkSize
    BY ByteChunkAssumption
<1>6. Core(<<>>, <<>>, 0, {})
    <2>1. BC!InOrder(<<>>) /\ Ascends(<<>>)
        BY <1>2 DEF BC!InOrder, Ascends
    <2>2. \A i \in 1..Len(<<>>) : Below(<<>>[i], <<>>) /\ Len(<<>>[i]) \in 1..ChunkSize
        BY <1>2
    <2>3. {} \cup {} = (1..0) \ {} /\ {} \subseteq 1..0
        BY <1>2
    <2> QED
        BY <1>2, <1>4, <1>5, <2>1, <2>2, <2>3 DEF Core
<1>7. Len(rest) <= sent /\ sent - Len(rest) = 0 /\ 1..Len(rest) = {}
    <2>1. Len(rest) = 0 /\ sent = 0
        BY <1>1, <1>2
    <2> QED
        BY <1>2, <2>1
<1>8. Core(chunks, buf, sent - Len(rest), refused)
    BY <1>1, <1>6, <1>7
<1>9. Whole(chunks, buf, rest, sent, refused)
    <2>1. chunks \in Seq(Seq(Nat)) /\ buf \in Seq(Nat) /\ rest \in Seq(Nat) /\ sent \in Nat
        BY <1>1, <1>2
    <2>2. \A i \in 1..Len(rest) : rest[i] = (sent - Len(rest)) + i
        BY <1>7
    <2> QED
        BY <1>7, <1>8, <2>1, <2>2, WholeIsCore
<1> QED
    BY <1>3, <1>9, ByteChunkSplit

\* Write: an array is passed.
LEMMA WriteKeeps ==
    ASSUME BC!ByteChunkInv, NEW n \in 0..MaxLen, BC!Write(n)
    PROVE  BC!ByteChunkInv'
<1>1. /\ ~writing /\ ~bufIsNull /\ writing' = TRUE /\ rest' = [i \in 1..n |-> sent + i]
      /\ sent' = sent + n /\ buf' = buf /\ bufIsNull' = bufIsNull /\ onEndIsNull' = onEndIsNull
      /\ refused' = refused /\ chunks' = chunks /\ ends' = ends /\ n \in Nat
    BY ByteChunkAssumption DEF BC!Write
<1>2. /\ Control /\ chunks \in Seq(Seq(Nat)) /\ buf \in Seq(Nat) /\ sent \in Nat
      /\ Core(chunks, buf, sent - Len(rest), refused)
    BY ByteChunkCore
<1>3. rest = <<>> /\ sent - Len(rest) = sent
    <2>1. rest = <<>>
        BY <1>1, <1>2 DEF Control
    <2>2. Len(rest) = 0
        BY <2>1, EmptySeq
    <2> QED
        BY <1>2, <2>1, <2>2
<1>4. /\ rest' \in Seq(Nat) /\ Len(rest') = n /\ \A i \in 1..n : rest'[i] = sent + i
    BY <1>1, <1>2
<1>5. sent' \in Nat /\ sent' - Len(rest') = sent /\ Len(rest') <= sent'
    BY <1>1, <1>2, <1>4
<1>6. Control'
    BY <1>1, <1>2, <1>4, <1>5 DEF Control, BC!TypeOK
<1>7. Core(chunks', buf', sent' - Len(rest'), refused')
    BY <1>1, <1>2, <1>3, <1>5
<1>8. \A i \in 1..Len(rest') : rest'[i] = (sent' - Len(rest')) + i
    BY <1>4, <1>5
<1> QED
    BY <1>5, <1>6, <1>7, <1>8, ByteChunkReached

\* WriteTurn: a turn of the loop of write().
LEMMA WriteTurnKeeps ==
    ASSUME BC!ByteChunkInv, BC!WriteTurn
    PROVE  BC!ByteChunkInv'
<1> DEFINE appended == BC!Min({ChunkSize - Len(buf), Len(rest)})
           front == SubSeq(rest, 1, appended)
           filled == buf \o front
           left == SubSeq(rest, appended + 1, Len(rest))
           e == sent - Len(rest)
           d == e + Len(front)
<1>1. /\ Control /\ chunks \in Seq(Seq(Nat)) /\ buf \in Seq(Nat) /\ rest \in Seq(Nat)
      /\ sent \in Nat /\ e \in Nat /\ Len(rest) <= sent
      /\ \A i \in 1..Len(rest) : rest[i] = e + i
      /\ Core(chunks, buf, e, refused)
    BY ByteChunkCore
<1>2. /\ writing /\ bufIsNull' = bufIsNull /\ onEndIsNull' = onEndIsNull /\ sent' = sent
      /\ ends' = ends
    BY DEF BC!WriteTurn
<1>3. \/ left = <<>> /\ buf' = filled /\ writing' = FALSE /\ rest' = <<>> /\ refused' = refused
         /\ chunks' = chunks
      \/ BC!PublishBuffer(filled, TRUE) /\ rest' = left /\ writing' = writing
         /\ refused' = refused
      \/ BC!PublishBuffer(filled, FALSE) /\ rest' = <<>> /\ writing' = FALSE
         /\ refused' = refused \cup BC!ToSet(left)
    BY DEF BC!WriteTurn
<1>4. appended \in Nat /\ appended <= Len(rest) /\ Len(buf) + appended <= ChunkSize
    <2> DEFINE p == ChunkSize - Len(buf)
               q == Len(rest)
    <2>1. p \in Nat /\ q \in Nat /\ Len(buf) \in Nat
        <3>1. Len(buf) <= ChunkSize
            BY <1>1 DEF Core
        <3> QED
            BY <1>1, <3>1, ByteChunkAssumption
    <2>2. Len(buf) + p = ChunkSize
        BY <2>1, ByteChunkAssumption
    <2> HIDE DEF p, q
    <2>3. BC!Min({p, q}) \in Nat /\ BC!Min({p, q}) <= p /\ BC!Min({p, q}) <= q
        <3>1. p \in Int /\ q \in Int
            BY <2>1
        <3>2. /\ BC!Min({p, q}) <= p /\ BC!Min({p, q}) <= q /\ BC!Min({p, q}) \in {p, q}
            BY <3>1, LowerOfTwo
        <3> QED
            BY <2>1, <3>2
    <2>4. appended = BC!Min({p, q})
        BY DEF p, q
    <2> HIDE DEF appended
    <2>5. Len(buf) + appended <= ChunkSize
        BY <2>1, <2>2, <2>3, <2>4
    <2> QED
        BY <2>3, <2>4, <2>5 DEF q
<1> HIDE DEF appended
<1>5. /\ front \in Seq(Nat) /\ Len(front) = appended
      /\ \A i \in 1..appended : front[i] = rest[i] /\ i \in 1..Len(rest)
      /\ left \in Seq(Nat) /\ Len(left) = Len(rest) - appended
      /\ \A i \in 1..Len(left) : left[i] = rest[appended + i] /\ appended + i \in 1..Len(rest)
    <2>1. /\ \A i \in 1..appended : i \in 1..Len(rest)
          /\ \A i \in (appended + 1)..Len(rest) : i \in 1..Len(rest)
        BY <1>1, <1>4
    <2> rest \in Seq(Nat) /\ appended \in Nat /\ appended <= Len(rest)
        BY <1>1, <1>4
    <2>2. /\ front \in Seq(Nat) /\ Len(front) = appended
          /\ \A i \in 1..appended : front[i] = rest[i]
        BY <2>1
    <2>3. /\ left \in Seq(Nat) /\ Len(left) = Len(rest) - appended
          /\ \A i \in 1..(Len(rest) - appended) : left[i] = rest[appended + i]
        BY <2>1
    <2>4. \A i \in 1..Len(left) : appended + i \in 1..Len(rest)
        <3> HIDE DEF left
        <3> QED
            BY <1>1, <1>4, <2>3
    <2> QED
        BY <2>1, <2>2, <2>3, <2>4
<1> HIDE DEF front, left, e
<1>6. /\ Core(chunks, filled, d, refused) /\ filled \in Seq(Nat)
      /\ d \in Nat /\ sent = d + Len(left) /\ Len(left) \in Nat
    <2>1. \A i \in 1..Len(front) : front[i] = e + i
        BY <1>1, <1>5
    <2>2. Core(chunks, filled, d, refused) /\ filled \in Seq(Nat)
        BY <1>1, <1>4, <1>5, <2>1, Fill
    <2>3. Len(rest) \in Nat /\ sent = e + Len(rest)
        BY <1>1 DEF e
    <2> QED
        BY <1>1, <1>4, <1>5, <2>2, <2>3
<1>7. \A i \in 1..Len(left) : left[i] = d + i
    <2>1. \A i \in 1..Len(left) : left[i] = e + (appended + i)
        BY <1>1, <1>5
    <2> QED
        BY <1>1, <1>4, <1>5, <2>1
<1> HIDE DEF filled, d
<1>8. <<>> \in Seq(Nat) /\ Len(<<>>) = 0 /\ (Len(left) = 0 => left = <<>>)
    BY <1>5, EmptySeq
<1>9. ASSUME left = <<>>, buf' = filled, writing' = FALSE, rest' = <<>>, refused' = refused,
              chunks' = chunks
       PROVE  BC!ByteChunkInv'
    <2>1. sent' - Len(rest') = d /\ Len(rest') <= sent' /\ Len(rest') = 0
        BY <1>2, <1>6, <1>8, <1>9
    <2>2. Control'
        BY <1>1, <1>2, <1>6, <1>8, <1>9 DEF Control, BC!TypeOK
    <2>3. Core(chunks', buf', sent' - Len(rest'), refused')
        BY <1>6, <1>9, <2>1
    <2>4. \A i \in 1..Len(rest') : rest'[i] = (sent' - Len(rest')) + i
        BY <2>1
    <2> QED
        BY <2>1, <2>2, <2>3, <2>4, ByteChunkReached
<1>10. ASSUME BC!PublishBuffer(filled, TRUE), rest' = left, writing' = writing, refused' = refused
       PROVE  BC!ByteChunkInv'
    <2>1. /\ Core(chunks', buf', d, refused) /\ buf' = <<>> /\ buf' \in Seq(Nat)
          /\ chunks' \in Seq(Seq(Nat))
        BY <1>1, <1>6, <1>10, PublishKeeps
    <2>2. sent' - Len(rest') = d /\ Len(rest') <= sent'
        BY <1>2, <1>6, <1>10
    <2>3. Control'
        BY <1>1, <1>2, <1>5, <1>10, <2>1 DEF Control, BC!TypeOK
    <2>4. Core(chunks', buf', sent' - Len(rest'), refused')
        BY <1>10, <2>1, <2>2
    <2>5. \A i \in 1..Len(rest') : rest'[i] = (sent' - Len(rest')) + i
        BY <1>7, <1>10, <2>2
    <2> QED
        BY <2>2, <2>3, <2>4, <2>5, ByteChunkReached
<1>11. ASSUME BC!PublishBuffer(filled, FALSE), rest' = <<>>, writing' = FALSE,
              refused' = refused \cup BC!ToSet(left)
       PROVE  BC!ByteChunkInv'
    <2>1. /\ Core(chunks', buf', d, refused) /\ buf' = <<>> /\ buf' \in Seq(Nat)
          /\ chunks' \in Seq(Seq(Nat))
        BY <1>1, <1>6, <1>11, PublishKeeps
    <2>2. Core(chunks', buf', d + Len(left), refused \cup ((d + 1)..(d + Len(left))))
        BY <1>6, <2>1, Refuse
    <2>3. BC!ToSet(left) = (d + 1)..(d + Len(left))
        <3>1. BC!ToSet(left) = {left[i] : i \in 1..Len(left)}
            <4>1. DOMAIN left = 1..Len(left)
                BY <1>5
            <4> QED
                BY <4>1, Zenon DEF BC!ToSet
        <3>2. \A i \in 1..Len(left) : left[i] \in (d + 1)..(d + Len(left))
            BY <1>6, <1>7
        <3>3. ASSUME NEW x \in (d + 1)..(d + Len(left))
              PROVE  x \in BC!ToSet(left)
            <4>1. x - d \in 1..Len(left) /\ x = d + (x - d)
                BY <1>6
            <4> QED
                BY <1>7, <3>1, <4>1
        <3> QED
            BY <3>1, <3>2, <3>3
    <2>4. sent' - Len(rest') = d + Len(left) /\ Len(rest') <= sent' /\ Len(rest') = 0
        BY <1>2, <1>6, <1>8, <1>11
    <2>5. Control'
        BY <1>1, <1>2, <1>8, <1>11, <2>1 DEF Control, BC!TypeOK
    <2>6. Core(chunks', buf', sent' - Len(rest'), refused')
        BY <1>11, <2>2, <2>3, <2>4
    <2>7. \A i \in 1..Len(rest') : rest'[i] = (sent' - Len(rest')) + i
        BY <2>4
    <2> QED
        BY <2>4, <2>5, <2>6, <2>7, ByteChunkReached
<1> QED
    BY <1>3, <1>9, <1>10, <1>11

\* WriteByte: write( int ).
LEMMA WriteByteKeeps ==
    ASSUME BC!ByteChunkInv, BC!WriteByte
    PROVE  BC!ByteChunkInv'
<1> DEFINE one == <<sent + 1>>
<1>1. /\ Control /\ chunks \in Seq(Seq(Nat)) /\ buf \in Seq(Nat) /\ sent \in Nat
      /\ Core(chunks, buf, sent - Len(rest), refused)
    BY ByteChunkCore
<1>2. /\ ~writing /\ ~bufIsNull /\ sent' = sent + 1 /\ rest' = rest /\ writing' = writing
      /\ bufIsNull' = bufIsNull /\ onEndIsNull' = onEndIsNull /\ ends' = ends
    BY DEF BC!WriteByte
<1>3. \/ Len(buf) < ChunkSize /\ buf' = Append(buf, sent + 1) /\ refused' = refused
         /\ chunks' = chunks
      \/ Len(buf) = ChunkSize /\ chunks' = Append(chunks, buf)
         /\ buf' = Append(<<>>, sent + 1) /\ refused' = refused
      \/ Len(buf) = ChunkSize /\ BC!PublishBuffer(buf, FALSE)
         /\ refused' = refused \cup {sent + 1}
    BY DEF BC!WriteByte, BC!Emptied
<1>4. rest = <<>> /\ Len(rest) = 0 /\ sent - Len(rest) = sent
    <2>1. rest = <<>>
        BY <1>1, <1>2 DEF Control
    <2>2. Len(rest) = 0
        BY <2>1, EmptySeq
    <2> QED
        BY <1>1, <2>1, <2>2
<1>5. Core(chunks, buf, sent, refused)
    BY <1>1, <1>4
<1>6. /\ one \in Seq(Nat) /\ Len(one) = 1 /\ \A i \in 1..Len(one) : one[i] = sent + i
      /\ \A b \in Seq(Nat) : b \o one = Append(b, sent + 1)
    <2>1. one \in Seq(Nat) /\ Len(one) = 1 /\ one[1] = sent + 1
        BY <1>1
    <2>2. \A b \in Seq(Nat) : b \o one = Append(b, sent + 1)
        BY <1>1
    <2>3. \A i \in 1..1 : i = 1
        OBVIOUS
    <2> QED
        BY <2>1, <2>2, <2>3
<1> HIDE DEF one
<1>7. sent' \in Nat /\ Len(rest') <= sent' /\ sent' - Len(rest') = sent + 1 /\ Len(rest') = 0
    BY <1>1, <1>2, <1>4
<1>8. \A i \in 1..Len(rest') : rest'[i] = (sent' - Len(rest')) + i
    BY <1>7
<1>9. ASSUME Core(chunks', buf', sent + 1, refused'), buf' \in Seq(Nat), chunks' \in Seq(Seq(Nat))
      PROVE  BC!ByteChunkInv'
    <2>1. Control'
        BY <1>1, <1>2, <1>7, <1>9 DEF Control, BC!TypeOK
    <2>2. Core(chunks', buf', sent' - Len(rest'), refused')
        BY <1>7, <1>9
    <2> QED
        BY <1>7, <1>8, <2>1, <2>2, ByteChunkReached
<1>10. ASSUME Len(buf) < ChunkSize, buf' = Append(buf, sent + 1), refused' = refused,
              chunks' = chunks
       PROVE  BC!ByteChunkInv'
    <2>1. Len(buf) + Len(one) <= ChunkSize
        BY <1>1, <1>6, <1>10, ByteChunkAssumption
    <2>2. Core(chunks, buf \o one, sent + Len(one), refused) /\ buf \o one \in Seq(Nat)
        BY <1>1, <1>5, <1>6, <2>1, Fill
    <2>3. buf \o one = buf'
        BY <1>1, <1>6, <1>10
    <2>4. Core(chunks', buf', sent + 1, refused')
        BY <1>6, <1>10, <2>2, <2>3
    <2> QED
        BY <1>1, <1>9, <1>10, <2>2, <2>3, <2>4
<1>11. ASSUME Len(buf) = ChunkSize, chunks' = Append(chunks, buf), buf' = Append(<<>>, sent + 1),
              refused' = refused
       PROVE  BC!ByteChunkInv'
    <2>1. buf # <<>>
        BY <1>11, EmptySeq, ByteChunkAssumption
    <2>2. Core(chunks', <<>>, sent, refused) /\ chunks' \in Seq(Seq(Nat))
        BY <1>1, <1>5, <1>11, <2>1, Pass
    <2>3. <<>> \in Seq(Nat) /\ Len(<<>>) + Len(one) <= ChunkSize
        BY <1>6, EmptySeq, ByteChunkAssumption
    <2>4. Core(chunks', <<>> \o one, sent + Len(one), refused) /\ <<>> \o one \in Seq(Nat)
        BY <1>1, <1>6, <2>2, <2>3, Fill
    <2>5. <<>> \o one = buf'
        BY <1>6, <1>11, <2>3
    <2>6. Core(chunks', buf', sent + 1, refused')
        BY <1>6, <1>11, <2>4, <2>5
    <2> QED
        BY <1>9, <2>2, <2>4, <2>5, <2>6
<1>12. ASSUME BC!PublishBuffer(buf, FALSE), refused' = refused \cup {sent + 1}
       PROVE  BC!ByteChunkInv'
    <2>1. Core(chunks', buf', sent, refused) /\ buf' \in Seq(Nat) /\ chunks' \in Seq(Seq(Nat))
        BY <1>1, <1>5, <1>12, PublishKeeps
    <2>2. Core(chunks', buf', sent + 1, refused \cup ((sent + 1)..(sent + 1)))
        BY <1>1, <2>1, Refuse
    <2>3. (sent + 1)..(sent + 1) = {sent + 1}
        BY <1>1
    <2>4. Core(chunks', buf', sent + 1, refused')
        BY <1>12, <2>2, <2>3
    <2> QED
        BY <1>9, <2>1, <2>4
<1> QED
    BY <1>3, <1>10, <1>11, <1>12

\* Flush and Close: what is in the buffer is passed on.
LEMMA FlushKeeps ==
    ASSUME BC!ByteChunkInv, NEW ok \in BOOLEAN, BC!PublishBuffer(buf, ok), ~writing,
           rest' = rest, writing' = writing, sent' = sent, refused' = refused,
           bufIsNull' \in BOOLEAN, onEndIsNull' \in BOOLEAN, ends' \in 0..1,
           ends' = 1 => bufIsNull' /\ onEndIsNull'
    PROVE  BC!ByteChunkInv'
<1>1. /\ Control /\ chunks \in Seq(Seq(Nat)) /\ buf \in Seq(Nat) /\ sent \in Nat
      /\ sent - Len(rest) \in Nat /\ Len(rest) <= sent
      /\ \A i \in 1..Len(rest) : rest[i] = (sent - Len(rest)) + i
      /\ Core(chunks, buf, sent - Len(rest), refused)
    BY ByteChunkCore
<1>2. /\ Core(chunks', buf', sent - Len(rest), refused) /\ buf' = <<>> /\ buf' \in Seq(Nat)
      /\ chunks' \in Seq(Seq(Nat))
    BY <1>1, PublishKeeps
<1>3. Control'
    BY <1>1, <1>2 DEF Control, BC!TypeOK
<1>4. /\ Core(chunks', buf', sent' - Len(rest'), refused')
      /\ Len(rest') <= sent' /\ \A i \in 1..Len(rest') : rest'[i] = (sent' - Len(rest')) + i
    BY <1>1, <1>2
<1> QED
    BY <1>3, <1>4, ByteChunkReached

\* A step that changes nothing of the stream.
LEMMA ByteChunkStutters ==
    ASSUME BC!ByteChunkInv, UNCHANGED bcVars
    PROVE  BC!ByteChunkInv'
<1>1. /\ buf' = buf /\ bufIsNull' = bufIsNull /\ onEndIsNull' = onEndIsNull /\ rest' = rest
      /\ writing' = writing /\ sent' = sent /\ refused' = refused /\ chunks' = chunks
      /\ ends' = ends
    BY DEF bcVars
<1>2. Control'
    BY <1>1, ByteChunkCore DEF Control, BC!TypeOK
<1>3. Whole(chunks', buf', rest', sent', refused')
    BY <1>1, ByteChunkSplit
<1> QED
    BY <1>2, <1>3, ByteChunkSplitNext

\* ByteChunkInv is inductive.
LEMMA ByteChunkStep ==
    ASSUME BC!ByteChunkInv, BC!Next
    PROVE  BC!ByteChunkInv'
<1>1. ASSUME NEW n \in 0..MaxLen, BC!Write(n)
      PROVE  BC!ByteChunkInv'
    BY <1>1, WriteKeeps
<1>2. CASE BC!WriteTurn
    BY <1>2, WriteTurnKeeps
<1>3. CASE BC!WriteByte
    BY <1>3, WriteByteKeeps
<1>4. /\ bufIsNull \in BOOLEAN /\ onEndIsNull \in BOOLEAN /\ ends \in 0..1
      /\ ends = 1 => bufIsNull /\ onEndIsNull
    BY DEF BC!ByteChunkInv, BC!TypeOK
<1>5. CASE BC!Flush
    <2>1. PICK ok \in BOOLEAN : BC!PublishBuffer(buf, ok)
        BY <1>5 DEF BC!Flush
    <2>2. /\ ~writing /\ rest' = rest /\ writing' = writing /\ sent' = sent /\ refused' = refused
          /\ bufIsNull' = bufIsNull /\ onEndIsNull' = onEndIsNull /\ ends' = ends
        BY <1>5 DEF BC!Flush
    <2> QED
        BY <1>4, <2>1, <2>2, FlushKeeps
<1>6. CASE BC!Close
    <2>1. /\ ~writing /\ rest' = rest /\ writing' = writing /\ sent' = sent /\ refused' = refused
        BY <1>6 DEF BC!Close
    <2>2. ASSUME BC!PublishBuffer(buf, TRUE), bufIsNull' = TRUE, onEndIsNull' = TRUE,
                 ends' = IF onEndIsNull THEN ends ELSE ends + 1
          PROVE  BC!ByteChunkInv'
        <3>1. ends' \in 0..1
            BY <1>4, <2>2
        <3> QED
            BY <2>1, <2>2, <3>1, FlushKeeps
    <2>3. ASSUME BC!PublishBuffer(buf, FALSE), bufIsNull' = bufIsNull,
                 onEndIsNull' = onEndIsNull, ends' = ends
          PROVE  BC!ByteChunkInv'
        BY <1>4, <2>1, <2>3, FlushKeeps
    <2> QED
        BY <1>6, <2>2, <2>3 DEF BC!Close
<1> QED
    BY <1>1, <1>2, <1>3, <1>5, <1>6 DEF BC!Next

-----------------------------------------------------------------------------
(* CRLFtoLFOutputStream.java                                               *)

LEMMA SameCardinality == \A S : CL!Cardinality(S) = Cardinality(S)
BY DEF CL!Cardinality, Cardinality

\* The places of a set are counted from the lowest.
LEMMA RankFacts ==
    ASSUME NEW n \in Nat, NEW S \in SUBSET (1..n)
    PROVE  /\ IsFiniteSet(S) /\ Cardinality(S) \in Nat
           /\ \A k \in S : CL!Rank(S, k) \in 1..Cardinality(S)
           /\ \A j, k \in S : j < k => CL!Rank(S, j) < CL!Rank(S, k)
<1> DEFINE Upto(k) == {m \in S : m <= k}
<1>1. IsFiniteSet(S) /\ Cardinality(S) \in Nat
    <2>1. IsFiniteSet(1..n)
        BY FS_Interval
    <2>2. IsFiniteSet(S)
        BY <2>1, FS_Subset
    <2> QED
        BY <2>2, FS_CardinalityType
<1>2. ASSUME NEW k
      PROVE  /\ CL!Rank(S, k) = Cardinality(Upto(k)) /\ Cardinality(Upto(k)) \in Nat
             /\ Cardinality(Upto(k)) <= Cardinality(S) /\ IsFiniteSet(Upto(k))
    <2>1. Upto(k) \in SUBSET S
        OBVIOUS
    <2>2. CL!Rank(S, k) = Cardinality(Upto(k))
        BY SameCardinality DEF CL!Rank
    <2> HIDE DEF Upto
    <2> QED
        BY <1>1, <2>1, <2>2, FS_Subset, FS_CardinalityType
<1>3. ASSUME NEW k \in S
      PROVE  Cardinality(Upto(k)) >= 1
    <2>1. k \in Upto(k)
        OBVIOUS
    <2> HIDE DEF Upto
    <2>2. Upto(k) # {}
        BY <2>1
    <2>3. Cardinality(Upto(k)) # 0
        BY <1>2, <2>2, FS_EmptySet
    <2> QED
        BY <1>2, <2>3
<1>4. ASSUME NEW j \in S, NEW k \in S, j < k
      PROVE  Cardinality(Upto(j)) < Cardinality(Upto(k))
    <2>1. Upto(j) \in SUBSET Upto(k) /\ k \in Upto(k) /\ k \notin Upto(j)
        <3>1. j \in Nat /\ k \in Nat /\ \A m \in S : m \in Nat
            OBVIOUS
        <3>2. \A m \in S : m <= j => m <= k
            BY <1>4, <3>1
        <3>3. k <= k /\ ~(k <= j)
            BY <1>4, <3>1
        <3> QED
            BY <3>2, <3>3
    <2> HIDE DEF Upto
    <2>2. /\ Cardinality(Upto(j)) <= Cardinality(Upto(k))
          /\ Cardinality(Upto(k)) = Cardinality(Upto(j)) => Upto(k) = Upto(j)
        BY <1>2, <2>1, FS_Subset
    <2> QED
        BY <1>2, <2>1, <2>2
<1> HIDE DEF Upto
<1>5. \A k \in S : CL!Rank(S, k) \in 1..Cardinality(S)
    BY <1>1, <1>2, <1>3
<1>6. \A j, k \in S : j < k => CL!Rank(S, j) < CL!Rank(S, k)
    BY <1>2, <1>4
<1> QED
    BY <1>1, <1>5, <1>6

\* There is an i-th place, and only one.
LEMMA NthFacts ==
    ASSUME NEW n \in Nat, NEW S \in SUBSET (1..n)
    PROVE  /\ \A i \in 1..Cardinality(S) : CL!Nth(S, i) \in S /\ CL!Rank(S, CL!Nth(S, i)) = i
           /\ \A k \in S : CL!Nth(S, CL!Rank(S, k)) = k
<1> DEFINE c == Cardinality(S)
           rank == [k \in S |-> CL!Rank(S, k)]
<1>1. /\ IsFiniteSet(S) /\ c \in Nat
      /\ \A k \in S : CL!Rank(S, k) \in 1..c
      /\ \A j, k \in S : j < k => CL!Rank(S, j) < CL!Rank(S, k)
    BY RankFacts
<1>2. \A j, k \in S : j # k => CL!Rank(S, j) # CL!Rank(S, k)
    <2> SUFFICES ASSUME NEW j \in S, NEW k \in S, j # k
                 PROVE  CL!Rank(S, j) # CL!Rank(S, k)
        OBVIOUS
    <2>1. CL!Rank(S, j) \in Nat /\ CL!Rank(S, k) \in Nat
        BY <1>1
    <2>2. j < k \/ k < j
        OBVIOUS
    <2>3. CL!Rank(S, j) < CL!Rank(S, k) \/ CL!Rank(S, k) < CL!Rank(S, j)
        BY <1>1, <2>2
    <2> QED
        BY <2>1, <2>3
<1>3. rank \in [S -> 1..c] /\ \A k \in S : rank[k] = CL!Rank(S, k)
    BY <1>1
<1> HIDE DEF rank, c
<1>4. rank \in Injection(S, 1..c)
    <2>1. \A j, k \in S : rank[j] = rank[k] => j = k
        BY <1>2, <1>3
    <2> QED
        BY <1>3, <2>1 DEF Injection, IsInjective
<1>5. IsFiniteSet(1..c) /\ Cardinality(1..c) = c
    BY <1>1, FS_Interval
<1>6. rank \in Surjection(S, 1..c)
    BY <1>4, <1>5, FS_Injection DEF c
<1>7. \A i \in 1..c : \E k \in S : CL!Rank(S, k) = i
    BY <1>3, <1>6 DEF Surjection
<1>8. \A i \in 1..c : CL!Nth(S, i) \in S /\ CL!Rank(S, CL!Nth(S, i)) = i
    BY <1>7 DEF CL!Nth
<1>9. \A k \in S : CL!Nth(S, CL!Rank(S, k)) = k
    BY <1>1, <1>2, <1>8
<1> QED
    BY <1>8, <1>9 DEF c

\* The place k is above those of S.
Above(S, n, k) == n \in Nat /\ k \in Nat /\ k > n /\ S \in SUBSET (1..n)

\* A place above the others is the last of them.
LEMMA TopIsLast ==
    ASSUME NEW S, NEW n, NEW k, Above(S, n, k)
    PROVE  /\ Cardinality(S \cup {k}) = Cardinality(S) + 1
           /\ CL!Nth(S \cup {k}, Cardinality(S) + 1) = k
           /\ \A i \in 1..Cardinality(S) : CL!Nth(S \cup {k}, i) = CL!Nth(S, i)
<1> DEFINE T == S \cup {k}
           c == Cardinality(S)
<1> n \in Nat /\ k \in Nat /\ k > n /\ S \in SUBSET (1..n)
    BY DEF Above
<1>1. IsFiniteSet(S) /\ c \in Nat /\ k \notin S /\ T \in SUBSET (1..k)
    <2>1. IsFiniteSet(S) /\ c \in Nat
        BY RankFacts
    <2>2. k \notin S
        OBVIOUS
    <2>3. \A x \in 1..n : x \in 1..k
        OBVIOUS
    <2>4. k \in 1..k
        OBVIOUS
    <2> QED
        BY <2>1, <2>2, <2>3, <2>4
<1>2. Cardinality(T) = c + 1
    BY <1>1, FS_AddElement
<1>3. CL!Rank(T, k) = c + 1
    <2>1. \A m \in T : m <= k
        BY <1>1
    <2>2. {m \in T : m <= k} = T
        BY <2>1
    <2> QED
        BY <1>2, <2>2, SameCardinality DEF CL!Rank
<1>4. \A j \in S : CL!Rank(T, j) = CL!Rank(S, j)
    <2> SUFFICES ASSUME NEW j \in S
                 PROVE  {m \in T : m <= j} = {m \in S : m <= j}
        BY Zenon DEF CL!Rank
    <2>1. ~(k <= j)
        OBVIOUS
    <2> QED
        BY <2>1
<1>5. \A j \in T : CL!Nth(T, CL!Rank(T, j)) = j
    BY <1>1, NthFacts
<1>6. \A i \in 1..c : CL!Nth(S, i) \in S /\ CL!Rank(S, CL!Nth(S, i)) = i
    BY NthFacts
<1>7. k \in T /\ S \subseteq T
    OBVIOUS
<1> HIDE DEF T, c
<1>8. CL!Nth(T, c + 1) = k
    BY <1>3, <1>5, <1>7
<1>9. ASSUME NEW i \in 1..c
      PROVE  CL!Nth(T, i) = CL!Nth(S, i)
    <2>1. CL!Nth(S, i) \in T /\ CL!Rank(T, CL!Nth(S, i)) = i
        BY <1>4, <1>6, <1>7
    <2> QED
        BY <1>5, <2>1
<1> QED
    BY <1>2, <1>8, <1>9 DEF T, c

\* What f has at the places S.
At(f, S) == [i \in 1..Cardinality(S) |-> f[CL!Nth(S, i)]]

\* The byte of g at k comes behind those of f, which g has too.
OnTop(f, S, n, g, k) ==
    /\ n \in Nat /\ k \in Nat /\ k > n /\ S \in SUBSET (1..n)
    /\ \A j \in S : f[j] \in CL!Byte /\ g[j] = f[j]
    /\ g[k] \in CL!Byte

LEMMA AtTop ==
    ASSUME NEW f, NEW S, NEW n, NEW g, NEW k, OnTop(f, S, n, g, k)
    PROVE  At(f, S) \in Seq(CL!Byte) /\ At(g, S \cup {k}) = Append(At(f, S), g[k])
<1> DEFINE T == S \cup {k}
           c == Cardinality(S)
           B == CL!Byte
           s == At(f, S)
           t == At(g, T)
<1>1. /\ n \in Nat /\ k \in Nat /\ k > n /\ S \in SUBSET (1..n)
      /\ \A j \in S : f[j] \in B /\ g[j] = f[j]
      /\ g[k] \in B
    BY DEF OnTop
<1>2. /\ Cardinality(T) = c + 1 /\ CL!Nth(T, c + 1) = k /\ c \in Nat
      /\ \A i \in 1..c : CL!Nth(T, i) = CL!Nth(S, i)
    <2>1. Above(S, n, k)
        BY <1>1 DEF Above
    <2>2. c \in Nat
        BY <1>1, RankFacts
    <2>3. /\ Cardinality(T) = c + 1 /\ CL!Nth(T, c + 1) = k
          /\ \A i \in 1..c : CL!Nth(T, i) = CL!Nth(S, i)
        BY <2>1, TopIsLast
    <2> QED
        BY <2>2, <2>3
<1>3. \A i \in 1..c : CL!Nth(S, i) \in S
    BY <1>1, NthFacts
<1>4. \A i \in 1..c : f[CL!Nth(S, i)] \in B
    BY <1>1, <1>3
<1>5. s \in Seq(B) /\ Len(s) = c /\ \A i \in 1..c : s[i] = f[CL!Nth(S, i)]
    <2>1. s = [i \in 1..c |-> f[CL!Nth(S, i)]]
        BY DEF At
    <2> HIDE DEF s, c
    <2> QED
        BY <1>2, <1>4, <2>1
<1>6. t = [i \in 1..(c + 1) |-> g[CL!Nth(T, i)]]
    BY <1>2 DEF At
<1> HIDE DEF s, t, c, T, B
<1>7. /\ \A i \in 1..c : i \in 1..(c + 1) /\ ~(i = c + 1)
      /\ \A i \in 1..(c + 1) : i \in 1..c \/ i = c + 1
    BY <1>2
<1>8. \A i \in 1..c : t[i] = s[i]
    <2> SUFFICES ASSUME NEW i \in 1..c
                 PROVE  t[i] = s[i]
        OBVIOUS
    <2>1. t[i] = g[CL!Nth(S, i)]
        BY <1>2, <1>6, <1>7
    <2>2. g[CL!Nth(S, i)] = f[CL!Nth(S, i)]
        BY <1>1, <1>3
    <2> QED
        BY <1>5, <2>1, <2>2
<1>9. t[c + 1] = g[k]
    <2>1. c + 1 \in 1..(c + 1)
        BY <1>2
    <2> QED
        BY <1>2, <1>6, <2>1
<1> DEFINE a == Append(s, g[k])
<1>10. /\ a \in Seq(B) /\ Len(a) = c + 1 /\ \A i \in 1..c : a[i] = s[i]
      /\ a[c + 1] = g[k]
    BY <1>1, <1>5, AppendProperties
<1>11. a = [i \in 1..(c + 1) |-> a[i]]
    <2> HIDE DEF a
    <2> QED
        BY <1>10
<1>12. \A i \in 1..(c + 1) : a[i] = t[i]
    <2> HIDE DEF a
    <2> QED
        BY <1>7, <1>8, <1>9, <1>10
<1>13. t = [i \in 1..(c + 1) |-> t[i]]
    BY <1>6
<1> HIDE DEF a
<1>14. a = t
    BY <1>11, <1>12, <1>13
<1> QED
    BY <1>5, <1>14 DEF s, t, T, a, B

\* The same places of a sequence that is the same there.
LEMMA AtSame ==
    ASSUME NEW n \in Nat, NEW S \in SUBSET (1..n), NEW f, NEW g, \A j \in S : g[j] = f[j]
    PROVE  At(g, S) = At(f, S)
<1>1. \A i \in 1..Cardinality(S) : CL!Nth(S, i) \in S
    BY NthFacts
<1>2. \A i \in 1..Cardinality(S) : g[CL!Nth(S, i)] = f[CL!Nth(S, i)]
    BY <1>1
<1> QED
    BY <1>2 DEF At

\* The places of what CRLFtoLFOutputStream lets through.
Kept(f) == {i \in 1..Len(f) : /\ f[i] # CL!FLUSH
                              /\ ~(f[i] = CL!CR /\ i < Len(f) /\ f[i + 1] = CL!LF)}

\* CRLFInv but for what was translated.
HeldInv ==
    /\ CL!TypeOK
    /\ previous # CL!EMPTY =>
          /\ Len(fed) > 0 /\ fed[Len(fed)] = previous
          /\ ~(Len(fed) > 1 /\ fed[Len(fed) - 1] = CL!CR /\ previous = CL!LF)
    /\ previous = CL!EMPTY => Len(fed) = 0 \/ fed[Len(fed)] # CL!CR

LEMMA CRLFSplit ==
    CL!CRLFInv <=> HeldInv /\ dst \o CL!HeldBack = At(fed, Kept(fed))
<1>1. CL!Translated = At(fed, Kept(fed))
    BY SameCardinality DEF CL!Translated, At, Kept
<1> QED
    BY <1>1 DEF CL!CRLFInv, CL!OnlyCRLFReplaced, HeldInv

LEMMA CRLFSplitNext ==
    CL!CRLFInv' <=> HeldInv' /\ dst' \o CL!HeldBack' = At(fed', Kept(fed'))
<1>1. CL!Translated' = At(fed', Kept(fed'))
    BY SameCardinality DEF CL!Translated, At, Kept, CL!FLUSH, CL!CR, CL!LF, CL!Nth, CL!Rank
<1> QED
    BY <1>1 DEF CL!CRLFInv, CL!OnlyCRLFReplaced, HeldInv, CL!EMPTY, CL!CR, CL!LF

\* The marks of the model are no bytes.
LEMMA ByteFacts ==
    /\ \A c \in CL!Byte : c # CL!FLUSH /\ c # CL!EMPTY
    /\ CL!CR \in CL!Byte /\ CL!LF \in CL!Byte /\ CL!CR # CL!LF
    /\ CL!EMPTY # CL!CR /\ CL!FLUSH # CL!LF /\ CL!FLUSH # CL!CR
BY DEF CL!Byte, CL!FLUSH, CL!EMPTY, CL!CR, CL!LF

\* What is behind a sequence does not change what is kept of it, but for its last byte.
LEMMA KeptAppend ==
    ASSUME NEW f \in Seq(CL!Byte \cup {CL!FLUSH}), NEW c \in CL!Byte \cup {CL!FLUSH}
    PROVE  LET n == Len(f)
               g == Append(f, c)
           IN  /\ g \in Seq(CL!Byte \cup {CL!FLUSH}) /\ Len(g) = n + 1 /\ g[n + 1] = c
               /\ n \in Nat /\ \A i \in 1..n : g[i] = f[i]
               /\ Kept(f) \in SUBSET (1..n)
               /\ \A i \in Kept(f) : f[i] \in CL!Byte
               /\ c = CL!FLUSH => Kept(g) = Kept(f)
               /\ c \in CL!Byte /\ ~(n > 0 /\ f[n] = CL!CR /\ c = CL!LF) =>
                      Kept(g) = Kept(f) \cup {n + 1}
               /\ n > 0 /\ f[n] = CL!CR /\ c = CL!LF =>
                      n \in Kept(f) /\ Kept(g) = (Kept(f) \ {n}) \cup {n + 1}
<1> DEFINE n == Len(f)
           g == Append(f, c)
           B == CL!Byte \cup {CL!FLUSH}
<1>1. /\ g \in Seq(B) /\ Len(g) = n + 1 /\ g[n + 1] = c /\ n \in Nat
      /\ \A i \in 1..n : g[i] = f[i] /\ f[i] \in B
    BY AppendProperties
<1>2. /\ \A i : i \in Kept(f) <=> /\ i \in 1..n /\ f[i] # CL!FLUSH
                                  /\ ~(f[i] = CL!CR /\ i < n /\ f[i + 1] = CL!LF)
      /\ \A i : i \in Kept(g) <=> /\ i \in 1..(n + 1) /\ g[i] # CL!FLUSH
                                  /\ ~(g[i] = CL!CR /\ i < n + 1 /\ g[i + 1] = CL!LF)
    BY <1>1 DEF Kept
<1> HIDE DEF n, g
<1>3. ASSUME NEW i \in 1..n, i # n
      PROVE  i \in Kept(g) <=> i \in Kept(f)
    <2>1. i < n /\ i + 1 \in 1..n /\ i < n + 1 /\ i \in 1..(n + 1)
        BY <1>1, <1>3
    <2>2. g[i] = f[i] /\ g[i + 1] = f[i + 1]
        BY <1>1, <2>1
    <2> QED
        BY <1>2, <2>1, <2>2
<1>4. n + 1 \in Kept(g) <=> c # CL!FLUSH
    <2>1. n + 1 \in 1..(n + 1) /\ ~(n + 1 < n + 1)
        BY <1>1
    <2> QED
        BY <1>1, <1>2, <2>1
<1>5. ASSUME n > 0
      PROVE  /\ n \in Kept(f) <=> f[n] # CL!FLUSH
             /\ n \in Kept(g) <=> f[n] # CL!FLUSH /\ ~(f[n] = CL!CR /\ c = CL!LF)
    <2>1. n \in 1..n /\ n \in 1..(n + 1) /\ ~(n < n) /\ n < n + 1
        BY <1>1, <1>5
    <2>2. g[n] = f[n]
        BY <1>1, <2>1
    <2> QED
        BY <1>1, <1>2, <2>1, <2>2
<1>6. \A i : /\ i \in Kept(g) => i \in 1..n \/ i = n + 1
             /\ i \in Kept(f) => i \in 1..n
             /\ i \in 1..n => i # n + 1 /\ n > 0
    BY <1>1, <1>2
<1>7. \A i \in Kept(f) : f[i] \in CL!Byte
    BY <1>1, <1>2
<1>8. ASSUME c = CL!FLUSH
      PROVE  Kept(g) = Kept(f)
    <2> SUFFICES ASSUME NEW i
                 PROVE  i \in Kept(g) <=> i \in Kept(f)
        OBVIOUS
    <2>1. CASE i \in 1..n /\ i # n
        BY <1>3, <2>1
    <2>2. CASE i = n /\ i \in 1..n
        BY <1>5, <1>6, <1>8, <2>2, ByteFacts
    <2>3. CASE i = n + 1
        BY <1>4, <1>6, <1>8, <2>3
    <2> QED
        BY <1>6, <2>1, <2>2, <2>3
<1>9. ASSUME c \in CL!Byte, ~(n > 0 /\ f[n] = CL!CR /\ c = CL!LF)
      PROVE  Kept(g) = Kept(f) \cup {n + 1}
    <2> SUFFICES ASSUME NEW i
                 PROVE  i \in Kept(g) <=> i \in Kept(f) \/ i = n + 1
        OBVIOUS
    <2>1. CASE i \in 1..n /\ i # n
        BY <1>3, <1>6, <2>1
    <2>2. CASE i = n /\ i \in 1..n
        BY <1>5, <1>6, <1>9, <2>2
    <2>3. CASE i = n + 1
        BY <1>4, <1>9, <2>3, ByteFacts
    <2> QED
        BY <1>6, <2>1, <2>2, <2>3
<1>10. ASSUME n > 0, f[n] = CL!CR, c = CL!LF
       PROVE  n \in Kept(f) /\ Kept(g) = (Kept(f) \ {n}) \cup {n + 1}
    <2>1. n \in Kept(f) /\ n \notin Kept(g)
        BY <1>5, <1>10, ByteFacts
    <2>2. ASSUME NEW i
          PROVE  i \in Kept(g) <=> i \in Kept(f) \ {n} \/ i = n + 1
        <3>1. CASE i \in 1..n /\ i # n
            BY <1>3, <1>6, <3>1
        <3>2. CASE i = n /\ i \in 1..n
            BY <1>6, <2>1, <3>2
        <3>3. CASE i = n + 1
            BY <1>4, <1>10, <3>3, ByteFacts
        <3> QED
            BY <1>6, <3>1, <3>2, <3>3
    <2> QED
        BY <2>1, <2>2
<1>11. Kept(f) \in SUBSET (1..n)
    BY <1>6
<1> QED
    BY <1>1, <1>7, <1>8, <1>9, <1>10, <1>11 DEF n, g

FedByte == CL!Byte \cup {CL!FLUSH}

\* A byte is held back: what is in front of it was written.
LEMMA HeldBackIsLast ==
    ASSUME CL!CRLFInv, previous # CL!EMPTY
    PROVE  LET h == CL!Front(fed)
               n == Len(fed)
           IN  /\ h \in Seq(FedByte) /\ Len(h) = n - 1 /\ n \in Nat /\ n > 0
               /\ fed = Append(h, previous) /\ previous \in CL!Byte /\ fed[n] = previous
               /\ Kept(h) \in SUBSET (1..(n - 1)) /\ \A i \in Kept(h) : h[i] \in CL!Byte
               /\ Kept(fed) = Kept(h) \cup {n}
               /\ dst = At(h, Kept(h))
<1> DEFINE h == CL!Front(fed)
           n == Len(fed)
<1>1. /\ HeldInv /\ dst \o CL!HeldBack = At(fed, Kept(fed))
    BY CRLFSplit
<1>2. /\ fed \in Seq(FedByte) /\ dst \in Seq(CL!Byte) /\ previous \in CL!Byte
      /\ n \in Nat /\ n > 0 /\ fed[n] = previous
      /\ ~(n > 1 /\ fed[n - 1] = CL!CR /\ previous = CL!LF)
    BY <1>1 DEF HeldInv, CL!TypeOK, FedByte
<1>3. h = SubSeq(fed, 1, n - 1)
    BY DEF CL!Front
<1>4. /\ h \in Seq(FedByte) /\ Len(h) = n - 1 /\ \A i \in 1..(n - 1) : h[i] = fed[i]
    <2>1. n - 1 \in Nat /\ \A i \in 1..(n - 1) : i \in 1..n
        BY <1>2
    <2> HIDE DEF n, h
    <2>2. n = Len(fed)
        BY DEF n
    <2> QED
        BY <1>2, <1>3, <2>1, <2>2
<1> HIDE DEF h
<1>5. previous \in FedByte
    BY <1>2 DEF FedByte
<1>6. fed = Append(h, previous)
    <2> DEFINE a == Append(h, previous)
    <2>1. /\ a \in Seq(FedByte) /\ Len(a) = (n - 1) + 1 /\ \A i \in 1..(n - 1) : a[i] = h[i]
          /\ a[(n - 1) + 1] = previous
        BY <1>4, <1>5, AppendProperties
    <2> HIDE DEF a
    <2>2. Len(a) = n /\ a[n] = previous
        BY <1>2, <2>1
    <2>3. \A i \in 1..n : a[i] = fed[i]
        <3>1. \A i \in 1..n : i \in 1..(n - 1) \/ i = n
            BY <1>2
        <3> HIDE DEF n
        <3> QED
            BY <1>2, <1>4, <2>1, <2>2, <3>1
    <2>4. a = [i \in 1..n |-> a[i]] /\ fed = [i \in 1..n |-> fed[i]]
        BY <1>2, <2>1, <2>2
    <2>5. a = fed
        BY <2>3, <2>4
    <2> QED
        BY <2>5 DEF a
<1>7. /\ Kept(h) \in SUBSET (1..(n - 1)) /\ \A i \in Kept(h) : h[i] \in CL!Byte
      /\ Kept(fed) = Kept(h) \cup {n}
    <2>1. ~(n - 1 > 0 /\ h[n - 1] = CL!CR /\ previous = CL!LF)
        <3>1. n - 1 > 0 => n > 1 /\ h[n - 1] = fed[n - 1]
            BY <1>2, <1>4
        <3> QED
            BY <1>2, <3>1
    <2>2. (n - 1) + 1 = n
        BY <1>2
    <2> HIDE DEF n
    <2> QED
        BY <1>2, <1>4, <1>5, <1>6, <2>1, <2>2, KeptAppend DEF FedByte
<1>8. At(h, Kept(h)) \in Seq(CL!Byte) /\ At(fed, Kept(fed)) = Append(At(h, Kept(h)), previous)
    <2>1. n - 1 \in Nat /\ n \in Nat /\ n > n - 1
        BY <1>2
    <2>2. \A i \in Kept(h) : h[i] \in CL!Byte /\ fed[i] = h[i]
        BY <1>4, <1>7
    <2>3. fed[n] \in CL!Byte /\ fed[n] = previous
        BY <1>2
    <2>4. Kept(h) \in SUBSET (1..(n - 1)) /\ Kept(fed) = Kept(h) \cup {n}
        BY <1>7
    <2> DEFINE m == n - 1
               S == Kept(h)
    <2> HIDE DEF n, m, S
    <2>5. At(h, S) \in Seq(CL!Byte) /\ At(fed, S \cup {n}) = Append(At(h, S), fed[n])
        <3>1. m \in Nat /\ n > m /\ n \in Nat /\ S \in SUBSET (1..m)
            BY <2>1, <2>4 DEF m, S
        <3>2. \A i \in S : h[i] \in CL!Byte /\ fed[i] = h[i]
            BY <2>2 DEF S
        <3>3. OnTop(h, S, m, fed, n)
            BY <2>3, <3>1, <3>2 DEF OnTop
        <3> QED
            BY <3>3, AtTop
    <2> QED
        BY <2>3, <2>4, <2>5 DEF S
<1>9. dst \o CL!HeldBack = Append(dst, previous)
    <2>1. CL!HeldBack = <<previous>>
        BY DEF CL!HeldBack
    <2> QED
        BY <1>2, <2>1, AppendIsConcat
<1>10. dst = At(h, Kept(h))
    BY <1>1, <1>2, <1>8, <1>9, AppendInjective
<1> QED
    BY <1>2, <1>4, <1>6, <1>7, <1>10 DEF h

\* Write.
LEMMA CRLFWriteKeeps ==
    ASSUME CL!CRLFInv, NEW given, NEW c \in CL!Byte, c = given % 256, CL!Write(given)
    PROVE  CL!CRLFInv'
<1> DEFINE n == Len(fed)
<1>1. HeldInv /\ dst \o CL!HeldBack = At(fed, Kept(fed))
    BY CRLFSplit
<1>2. /\ fed \in Seq(FedByte) /\ dst \in Seq(CL!Byte) /\ previous \in CL!Byte \cup {CL!EMPTY}
      /\ n \in Nat
    BY <1>1 DEF HeldInv, CL!TypeOK, FedByte
<1>3. c \in FedByte /\ c # CL!FLUSH /\ c # CL!EMPTY
    BY ByteFacts DEF FedByte
<1>4. /\ fed' = Append(fed, c)
      /\ \/ previous = CL!CR /\ c = CL!LF /\ dst' = Append(dst, c) /\ previous' = CL!EMPTY
         \/ previous = CL!EMPTY /\ previous' = c /\ dst' = dst
         \/ /\ previous # CL!EMPTY /\ ~(previous = CL!CR /\ c = CL!LF)
            /\ dst' = Append(dst, previous) /\ previous' = c
    BY DEF CL!Write, CL!AfterCRLF
<1>5. /\ fed' \in Seq(FedByte) /\ Len(fed') = n + 1 /\ fed'[n + 1] = c
      /\ \A i \in 1..n : fed'[i] = fed[i]
      /\ Kept(fed) \in SUBSET (1..n) /\ \A i \in Kept(fed) : fed[i] \in CL!Byte
      /\ ~(n > 0 /\ fed[n] = CL!CR /\ c = CL!LF) => Kept(fed') = Kept(fed) \cup {n + 1}
      /\ n > 0 /\ fed[n] = CL!CR /\ c = CL!LF => Kept(fed') = (Kept(fed) \ {n}) \cup {n + 1}
    BY <1>2, <1>3, <1>4, KeptAppend DEF FedByte
<1> HIDE DEF n
<1>6. /\ \A i \in Kept(fed) : fed'[i] = fed[i]
      /\ n + 1 \in Nat /\ n + 1 > n /\ n + 1 > n - 1 /\ (n + 1) - 1 = n
      /\ n + 1 > 0 /\ ~(n + 1 = 0) /\ (n + 1 > 1 => n > 0 /\ n \in 1..n)
    BY <1>2, <1>5
<1>7. /\ dst' \o <<>> = dst' /\ (previous' # CL!EMPTY => dst' \o <<previous'>> = Append(dst', previous'))
      /\ dst' \in Seq(CL!Byte) /\ previous' \in CL!Byte \cup {CL!EMPTY}
    <2>1. dst' \in Seq(CL!Byte) /\ previous' \in CL!Byte \cup {CL!EMPTY}
        <3>1. previous # CL!EMPTY => Append(dst, previous) \in Seq(CL!Byte)
            BY <1>2, AppendProperties
        <3>2. Append(dst, c) \in Seq(CL!Byte)
            BY <1>2, AppendProperties
        <3> QED
            BY <1>2, <1>4, <3>1, <3>2
    <2>2. dst' \o <<>> = dst'
        BY <2>1, ConcatEmptySeq
    <2>3. previous' # CL!EMPTY => previous' \in CL!Byte
        BY <2>1
    <2>4. previous' # CL!EMPTY => dst' \o <<previous'>> = Append(dst', previous')
        BY <2>1, <2>3, AppendIsConcat
    <2> QED
        BY <2>1, <2>2, <2>4
<1>8. CL!HeldBack' = IF previous' = CL!EMPTY THEN <<>> ELSE <<previous'>>
    BY DEF CL!HeldBack, CL!EMPTY
<1>9. CL!TypeOK'
    BY <1>5, <1>7 DEF CL!TypeOK, FedByte, CL!Byte, CL!EMPTY, CL!FLUSH, CL!CR, CL!LF
<1>10. CASE previous = CL!CR /\ c = CL!LF /\ dst' = Append(dst, c) /\ previous' = CL!EMPTY
    <2> DEFINE h == CL!Front(fed)
    <2>1. previous # CL!EMPTY
        BY <1>10, ByteFacts
    <2>2. /\ n > 0 /\ fed[n] = previous
          /\ Kept(h) \in SUBSET (1..(n - 1)) /\ \A i \in Kept(h) : h[i] \in CL!Byte
          /\ Kept(fed) = Kept(h) \cup {n} /\ dst = At(h, Kept(h))
          /\ fed = Append(h, previous) /\ h \in Seq(FedByte) /\ Len(h) = n - 1
        BY <2>1, HeldBackIsLast DEF n
    <2> HIDE DEF h
    <2>3. n - 1 \in Nat /\ n \notin 1..(n - 1) /\ \A i \in 1..(n - 1) : i \in 1..n
        BY <1>2, <2>2
    <2>4. Kept(fed') = Kept(h) \cup {n + 1}
        BY <1>5, <1>10, <2>2, <2>3
    <2>5. \A i \in Kept(h) : fed'[i] = h[i]
        <3>1. previous \in FedByte
            BY <1>2, <2>1 DEF FedByte
        <3>2. \A i \in 1..(n - 1) : fed[i] = h[i]
            BY <2>2, <3>1, AppendProperties
        <3> QED
            BY <1>5, <2>2, <2>3, <3>2
    <2>6. At(fed', Kept(h) \cup {n + 1}) = Append(At(h, Kept(h)), fed'[n + 1])
        <3> DEFINE m == n - 1
                   k == n + 1
                   S == Kept(h)
        <3>1. m \in Nat /\ k \in Nat /\ k > m /\ S \in SUBSET (1..m)
            BY <1>2, <2>2, <2>3
        <3>2. \A i \in S : h[i] \in CL!Byte /\ fed'[i] = h[i]
            BY <2>2, <2>5
        <3>3. fed'[k] \in CL!Byte
            BY <1>5
        <3> HIDE DEF m, k, S
        <3>4. OnTop(h, S, m, fed', k)
            BY <3>1, <3>2, <3>3 DEF OnTop
        <3>5. At(fed', S \cup {k}) = Append(At(h, S), fed'[k])
            BY <3>4, AtTop
        <3> QED
            BY <3>5 DEF S, k
    <2>7. dst' \o CL!HeldBack' = At(fed', Kept(fed'))
        BY <1>5, <1>7, <1>8, <1>10, <2>2, <2>4, <2>6
    <2>8. HeldInv'
        <3>1. fed'[Len(fed')] # CL!CR
            BY <1>5, <1>10, ByteFacts
        <3> QED
            BY <1>9, <1>10, <3>1 DEF HeldInv, CL!EMPTY, CL!CR, CL!LF
    <2> QED
        BY <2>7, <2>8, CRLFSplitNext
<1>11. ASSUME ~(n > 0 /\ fed[n] = CL!CR /\ c = CL!LF), previous' = c,
              dst' = At(fed, Kept(fed))
       PROVE  CL!CRLFInv'
    <2>1. Kept(fed') = Kept(fed) \cup {n + 1}
        BY <1>5, <1>11
    <2>2. At(fed', Kept(fed) \cup {n + 1}) = Append(At(fed, Kept(fed)), fed'[n + 1])
        <3> DEFINE k == n + 1
                   S == Kept(fed)
        <3>1. n \in Nat /\ k \in Nat /\ k > n /\ S \in SUBSET (1..n)
            BY <1>2, <1>5
        <3>2. \A i \in S : fed[i] \in CL!Byte /\ fed'[i] = fed[i]
            BY <1>5, <1>6
        <3>3. fed'[k] \in CL!Byte
            BY <1>5
        <3> HIDE DEF k, S
        <3>4. OnTop(fed, S, n, fed', k)
            BY <3>1, <3>2, <3>3 DEF OnTop
        <3>5. At(fed', S \cup {k}) = Append(At(fed, S), fed'[k])
            BY <3>4, AtTop
        <3> QED
            BY <3>5 DEF S, k
    <2>3. dst' \o CL!HeldBack' = At(fed', Kept(fed'))
        BY <1>3, <1>5, <1>7, <1>8, <1>11, <2>1, <2>2
    <2>4. Len(fed') > 0 /\ fed'[Len(fed')] = previous'
        BY <1>5, <1>6, <1>11
    <2>5. ~(Len(fed') > 1 /\ fed'[Len(fed') - 1] = CL!CR /\ previous' = CL!LF)
        BY <1>5, <1>6, <1>11
    <2>6. HeldInv'
        BY <1>3, <1>9, <1>11, <2>4, <2>5 DEF HeldInv, CL!EMPTY, CL!CR, CL!LF
    <2> QED
        BY <2>3, <2>6, CRLFSplitNext
<1>12. CASE previous = CL!EMPTY /\ previous' = c /\ dst' = dst
    <2>1. ~(n > 0 /\ fed[n] = CL!CR)
        BY <1>1, <1>2, <1>12 DEF HeldInv, n
    <2>2. dst' = At(fed, Kept(fed))
        <3>1. CL!HeldBack = <<>>
            BY <1>12 DEF CL!HeldBack
        <3>2. dst \o <<>> = dst
            BY <1>2, ConcatEmptySeq
        <3> QED
            BY <1>1, <1>12, <3>1, <3>2
    <2> QED
        BY <1>11, <1>12, <2>1, <2>2
<1>13. CASE /\ previous # CL!EMPTY /\ ~(previous = CL!CR /\ c = CL!LF)
            /\ dst' = Append(dst, previous) /\ previous' = c
    <2>1. fed[n] = previous
        BY <1>1, <1>13 DEF HeldInv, n
    <2>2. dst' = At(fed, Kept(fed))
        <3>1. CL!HeldBack = <<previous>> /\ previous \in CL!Byte
            BY <1>2, <1>13 DEF CL!HeldBack
        <3>2. dst \o <<previous>> = Append(dst, previous)
            BY <1>2, <3>1, AppendIsConcat
        <3> QED
            BY <1>1, <1>13, <3>1, <3>2
    <2> QED
        BY <1>11, <1>13, <2>1, <2>2
<1> QED
    BY <1>4, <1>10, <1>12, <1>13

\* Flush.
LEMMA CRLFFlushKeeps ==
    ASSUME CL!CRLFInv, CL!Flush
    PROVE  CL!CRLFInv'
<1> DEFINE n == Len(fed)
<1>1. HeldInv /\ dst \o CL!HeldBack = At(fed, Kept(fed))
    BY CRLFSplit
<1>2. /\ fed \in Seq(FedByte) /\ dst \in Seq(CL!Byte) /\ previous \in CL!Byte \cup {CL!EMPTY}
      /\ n \in Nat
    BY <1>1 DEF HeldInv, CL!TypeOK, FedByte
<1>3. /\ previous' = CL!EMPTY
      /\ \/ /\ dst' = IF previous = CL!EMPTY THEN dst ELSE Append(dst, previous)
            /\ fed' = Append(fed, CL!FLUSH)
         \/ previous # CL!EMPTY /\ fed' = Append(CL!Front(fed), CL!FLUSH) /\ dst' = dst
    BY DEF CL!Flush
<1>4. CL!FLUSH \in FedByte /\ CL!FLUSH # CL!CR
    BY ByteFacts DEF FedByte
<1>5. CL!HeldBack' = <<>>
    BY <1>3 DEF CL!HeldBack, CL!EMPTY
<1>6. ASSUME NEW f \in Seq(FedByte), fed' = Append(f, CL!FLUSH), dst' = At(f, Kept(f)),
             dst' \in Seq(CL!Byte)
      PROVE  CL!CRLFInv'
    <2> DEFINE m == Len(f)
    <2>1. /\ fed' \in Seq(FedByte) /\ Len(fed') = m + 1 /\ fed'[m + 1] = CL!FLUSH
          /\ m \in Nat /\ \A i \in 1..m : fed'[i] = f[i]
          /\ Kept(f) \in SUBSET (1..m) /\ Kept(fed') = Kept(f)
        BY <1>4, <1>6, KeptAppend DEF FedByte
    <2> HIDE DEF m
    <2>2. At(fed', Kept(f)) = At(f, Kept(f))
        BY <2>1, AtSame
    <2>3. dst' \o CL!HeldBack' = At(fed', Kept(fed'))
        BY <1>5, <1>6, <2>1, <2>2, ConcatEmptySeq
    <2>4. CL!TypeOK'
        BY <1>3, <1>6, <2>1 DEF CL!TypeOK, FedByte, CL!Byte, CL!EMPTY, CL!FLUSH, CL!CR, CL!LF
    <2>5. fed'[Len(fed')] # CL!CR
        BY <1>4, <2>1
    <2>6. HeldInv'
        BY <1>3, <2>4, <2>5 DEF HeldInv, CL!EMPTY, CL!CR, CL!LF
    <2> QED
        BY <2>3, <2>6, CRLFSplitNext
<1>7. CASE /\ dst' = IF previous = CL!EMPTY THEN dst ELSE Append(dst, previous)
           /\ fed' = Append(fed, CL!FLUSH)
    <2>1. dst' = dst \o CL!HeldBack /\ dst' \in Seq(CL!Byte)
        <3>1. CASE previous = CL!EMPTY
            <4>1. CL!HeldBack = <<>> /\ dst' = dst
                BY <1>7, <3>1 DEF CL!HeldBack
            <4> QED
                BY <1>2, <4>1, ConcatEmptySeq
        <3>2. CASE previous # CL!EMPTY
            <4>1. CL!HeldBack = <<previous>> /\ dst' = Append(dst, previous)
                BY <1>7, <3>2 DEF CL!HeldBack
            <4>2. previous \in CL!Byte
                BY <1>2, <3>2
            <4> QED
                BY <1>2, <4>1, <4>2, AppendIsConcat, AppendProperties
        <3> QED
            BY <3>1, <3>2
    <2> QED
        BY <1>1, <1>2, <1>6, <1>7, <2>1
<1>8. CASE previous # CL!EMPTY /\ fed' = Append(CL!Front(fed), CL!FLUSH) /\ dst' = dst
    <2> DEFINE h == CL!Front(fed)
    <2>1. h \in Seq(FedByte) /\ dst = At(h, Kept(h))
        BY <1>8, HeldBackIsLast
    <2> QED
        BY <1>2, <1>6, <1>8, <2>1
<1> QED
    BY <1>3, <1>7, <1>8

\* Init.
LEMMA CRLFInit ==
    ASSUME CL!Init
    PROVE  CL!CRLFInv
<1>1. previous = CL!EMPTY /\ dst = <<>> /\ fed = <<>>
    BY DEF CL!Init
<1>2. <<>> \in Seq(CL!Byte) /\ <<>> \in Seq(FedByte) /\ Len(<<>>) = 0
    BY EmptySeq
<1>3. HeldInv
    BY <1>1, <1>2 DEF HeldInv, CL!TypeOK, FedByte
<1>4. CL!HeldBack = <<>>
    BY <1>1 DEF CL!HeldBack
<1>5. Kept(<<>>) = {}
    BY <1>2 DEF Kept
<1>6. At(<<>>, {}) = <<>>
    <2>1. Cardinality({}) = 0
        BY FS_EmptySet
    <2>2. At(<<>>, {}) = [i \in 1..0 |-> <<>>[CL!Nth({}, i)]]
        BY <2>1, Zenon DEF At
    <2>3. \A g : [i \in 1..0 |-> g[i]] = <<>>
        OBVIOUS
    <2> DEFINE g == [i \in {} |-> <<>>[CL!Nth({}, i)]]
    <2>4. 1..0 = {}
        OBVIOUS
    <2>5. [i \in {} |-> <<>>[CL!Nth({}, i)]] = [i \in {} |-> g[i]]
        OBVIOUS
    <2> HIDE DEF g
    <2> QED
        BY <2>2, <2>3, <2>4, <2>5
<1>7. <<>> \o <<>> = <<>>
    BY <1>2, ConcatEmptySeq
<1>8. dst \o CL!HeldBack = At(fed, Kept(fed))
    BY <1>1, <1>4, <1>5, <1>6, <1>7
<1> QED
    BY <1>3, <1>8, CRLFSplit

\* CRLFInv is inductive.
LEMMA CRLFStep ==
    ASSUME CL!CRLFInv, CL!Next \/ UNCHANGED clVars
    PROVE  CL!CRLFInv'
<1>1. ASSUME NEW given \in Given, CL!Write(given)
      PROVE  CL!CRLFInv'
    <2> DEFINE c == given % 256
    <2>1. c \in CL!Byte
        <3>1. given \in Int
            BY CRLFAssumption
        <3> QED
            BY <3>1 DEF CL!Byte
    <2> QED
        BY <1>1, <2>1, CRLFWriteKeeps
<1>2. CASE CL!Flush
    BY <1>2, CRLFFlushKeeps
<1>3. CASE CL!Full \/ UNCHANGED clVars
    <2>1. previous' = previous /\ dst' = dst /\ fed' = fed
        BY <1>3 DEF CL!Full, CL!clVars, clVars
    <2>2. HeldInv' /\ dst' \o CL!HeldBack' = At(fed', Kept(fed'))
        <3>1. HeldInv /\ dst \o CL!HeldBack = At(fed, Kept(fed))
            BY CRLFSplit
        <3>2. CL!HeldBack' = CL!HeldBack
            BY <2>1 DEF CL!HeldBack, CL!EMPTY
        <3>3. CL!TypeOK'
            BY <2>1, <3>1 DEF HeldInv, CL!TypeOK, CL!Byte, CL!EMPTY, CL!FLUSH, CL!CR, CL!LF
        <3>4. HeldInv'
            BY <2>1, <3>1, <3>3 DEF HeldInv, CL!EMPTY, CL!CR, CL!LF
        <3> QED
            BY <2>1, <3>1, <3>2, <3>4
    <2> QED
        BY <2>2, CRLFSplitNext
<1> QED
    BY <1>1, <1>2, <1>3 DEF CL!Next

-----------------------------------------------------------------------------
(* PaisaLogParser.lua                                                      *)

Raw(e) == e.raw
Stack(e) == e.stack
Entry == [raw : Seq(PL!ALine), stack : Seq(PL!ALine)]
Skipped == {"broken", "unparsable"}

\* What the property asks of one entry, and of the entries A for the lines L.
Fit(raw, stack) ==
    /\ PL!InOrder(raw) /\ PL!InOrder(stack)
    /\ \A k \in 2..Len(raw) : ~PL!IsHead(raw[k])
    /\ PL!ToSet(stack) = {l \in PL!ToSet(raw) : l[1] = "stack"}

RawLines(A) == UNION PL!ToSet([i \in 1..Len(A) |-> PL!ToSet(Raw(A[i]))])
Good(L) == {l \in PL!ToSet(L) : l[1] \notin Skipped}

AreKept(A, L) ==
    /\ \A i, j \in 1..Len(A) : i < j => PL!Before(Raw(A[i]), Raw(A[j]))
    /\ RawLines(A) = Good(L)
    /\ \A i \in 1..Len(A) : Fit(Raw(A[i]), Stack(A[i]))

\* In a line of the raw text of an entry.
InRaw(x, A) == \E i \in 1..Len(A) : \E k \in 1..Len(Raw(A[i])) : x = Raw(A[i])[k]

\* Lines know their numbers.
Numbered(L) == \A n \in 1..Len(L) : L[n][2] = n

LEMMA EntryFacts ==
    ASSUME NEW e \in Entry
    PROVE  Raw(e) \in Seq(PL!ALine) /\ Stack(e) \in Seq(PL!ALine)
BY DEF Raw, Stack, Entry

LEMMA LineSets ==
    ASSUME NEW s \in Seq(PL!ALine)
    PROVE  /\ PL!ToSet(s) = {s[i] : i \in 1..Len(s)}
           /\ \A l \in PL!ALine : PL!ToSet(Append(s, l)) = PL!ToSet(s) \cup {l}
<1>1. \A t \in Seq(PL!ALine) : PL!ToSet(t) = {t[i] : i \in 1..Len(t)}
    <2> SUFFICES ASSUME NEW t \in Seq(PL!ALine)
                 PROVE  PL!ToSet(t) = {t[i] : i \in 1..Len(t)}
        OBVIOUS
    <2>1. DOMAIN t = 1..Len(t)
        OBVIOUS
    <2> QED
        BY <2>1, Zenon DEF PL!ToSet
<1>2. ASSUME NEW l \in PL!ALine
      PROVE  PL!ToSet(Append(s, l)) = PL!ToSet(s) \cup {l}
    <2> DEFINE t == Append(s, l)
               n == Len(s)
    <2>1. /\ t \in Seq(PL!ALine) /\ Len(t) = n + 1 /\ t[n + 1] = l /\ n \in Nat
          /\ \A i \in 1..n : t[i] = s[i]
        BY AppendProperties
    <2> HIDE DEF t
    <2>2. PL!ToSet(t) = {t[i] : i \in 1..(n + 1)} /\ PL!ToSet(s) = {s[i] : i \in 1..n}
        BY <1>1, <2>1
    <2> HIDE DEF n
    <2>3. /\ \A i \in 1..(n + 1) : i \in 1..n \/ i = n + 1
          /\ \A i \in 1..n : i \in 1..(n + 1)
          /\ n + 1 \in 1..(n + 1)
        BY <2>1
    <2>4. ASSUME NEW x \in PL!ToSet(t)
          PROVE  x \in PL!ToSet(s) \cup {l}
        BY <2>1, <2>2, <2>3
    <2>5. ASSUME NEW i \in 1..n
          PROVE  s[i] \in PL!ToSet(t)
        <3>1. i \in 1..(n + 1) /\ t[i] = s[i]
            BY <2>1, <2>3
        <3> QED
            BY <2>2, <3>1
    <2>6. l \in PL!ToSet(t)
        BY <2>1, <2>2, <2>3
    <2>7. PL!ToSet(t) = PL!ToSet(s) \cup {l}
        BY <2>2, <2>4, <2>5, <2>6
    <2> QED
        BY <2>7 DEF t
<1> QED
    BY <1>1, <1>2

LEMMA RawFacts ==
    ASSUME NEW A \in Seq(Entry)
    PROVE  \A x : x \in RawLines(A) <=> InRaw(x, A)
<1>1. ASSUME NEW i \in 1..Len(A)
      PROVE  PL!ToSet(Raw(A[i])) = {Raw(A[i])[k] : k \in 1..Len(Raw(A[i]))}
    <2>1. A[i] \in Entry
        OBVIOUS
    <2>2. Raw(A[i]) \in Seq(PL!ALine)
        BY <2>1, EntryFacts
    <2> QED
        BY <2>2, LineSets
<1>2. RawLines(A) = UNION {PL!ToSet(Raw(A[i])) : i \in 1..Len(A)}
    BY DEF RawLines, PL!ToSet
<1>3. ASSUME NEW x \in RawLines(A)
      PROVE  InRaw(x, A)
    <2>1. PICK i \in 1..Len(A) : x \in PL!ToSet(Raw(A[i]))
        BY <1>2
    <2> QED
        BY <1>1, <2>1 DEF InRaw
<1>4. ASSUME NEW x, InRaw(x, A)
      PROVE  x \in RawLines(A)
    <2>1. PICK i \in 1..Len(A) : \E k \in 1..Len(Raw(A[i])) : x = Raw(A[i])[k]
        BY <1>4 DEF InRaw
    <2>2. x \in PL!ToSet(Raw(A[i]))
        BY <1>1, <2>1
    <2> QED
        BY <1>2, <2>2
<1> QED
    BY <1>3, <1>4

\* A line more.
LEMMA GoodFacts ==
    ASSUME NEW L \in Seq(PL!ALine), NEW l \in PL!ALine
    PROVE  Good(Append(L, l)) = IF l[1] \in Skipped THEN Good(L) ELSE Good(L) \cup {l}
<1>1. PL!ToSet(Append(L, l)) = PL!ToSet(L) \cup {l}
    BY LineSets
<1> QED
    BY <1>1 DEF Good

\* An entry without lines more.
LEMMA EmptyEntry ==
    ASSUME NEW A \in Seq(Entry), NEW y \in Entry, NEW L \in Seq(PL!ALine), AreKept(A, L),
           Raw(y) = <<>>, Stack(y) = <<>>
    PROVE  Append(A, y) \in Seq(Entry) /\ AreKept(Append(A, y), L)
<1> DEFINE B == Append(A, y)
           m == Len(A)
<1>1. /\ B \in Seq(Entry) /\ Len(B) = m + 1 /\ B[m + 1] = y /\ m \in Nat
      /\ \A i \in 1..m : B[i] = A[i]
    BY AppendProperties
<1> HIDE DEF B
<1>2. Len(<<>>) = 0 /\ 1..0 = {} /\ 2..0 = {} /\ PL!ToSet(<<>>) = {}
    BY EmptySeq DEF PL!ToSet
<1>3. /\ \A i, j \in 1..m : i < j => PL!Before(Raw(A[i]), Raw(A[j]))
      /\ RawLines(A) = Good(L)
      /\ \A i \in 1..m : Fit(Raw(A[i]), Stack(A[i]))
    BY DEF AreKept
<1>4. \A x : (x \in RawLines(A) <=> InRaw(x, A)) /\ (x \in RawLines(B) <=> InRaw(x, B))
    BY <1>1, RawFacts
<1>5. \A x : InRaw(x, A) <=> \E i \in 1..m : \E k \in 1..Len(Raw(A[i])) : x = Raw(A[i])[k]
    BY DEF InRaw
<1>6. \A x : InRaw(x, B) <=> \E i \in 1..(m + 1) : \E k \in 1..Len(Raw(B[i])) : x = Raw(B[i])[k]
    BY <1>1 DEF InRaw
<1> HIDE DEF m
<1>7. /\ \A i \in 1..m : i \in 1..(m + 1)
      /\ \A i \in 1..(m + 1) : i \in 1..m \/ i = m + 1
      /\ \A i \in 1..(m + 1), j \in 1..(m + 1) : i < j => i \in 1..m
    BY <1>1
<1>8. RawLines(B) = RawLines(A)
    <2>1. ASSUME NEW x, InRaw(x, A)
          PROVE  InRaw(x, B)
        <3>1. PICK i \in 1..m : \E k \in 1..Len(Raw(A[i])) : x = Raw(A[i])[k]
            BY <1>5, <2>1
        <3>2. i \in 1..(m + 1) /\ B[i] = A[i]
            BY <1>1, <1>7
        <3> QED
            BY <1>6, <3>1, <3>2
    <2>2. ASSUME NEW x, InRaw(x, B)
          PROVE  InRaw(x, A)
        <3>1. PICK i \in 1..(m + 1) : \E k \in 1..Len(Raw(B[i])) : x = Raw(B[i])[k]
            BY <1>6, <2>2
        <3>2. i # m + 1
            BY <1>1, <1>2, <3>1
        <3>3. i \in 1..m /\ B[i] = A[i]
            BY <1>1, <1>7, <3>2
        <3> QED
            BY <1>5, <3>1, <3>3
    <2> QED
        BY <1>4, <2>1, <2>2
<1>9. ASSUME NEW i \in 1..(m + 1), NEW j \in 1..(m + 1), i < j
      PROVE  PL!Before(Raw(B[i]), Raw(B[j]))
    <2>1. i \in 1..m /\ B[i] = A[i]
        BY <1>1, <1>7, <1>9
    <2>2. CASE j \in 1..m
        BY <1>1, <1>3, <1>9, <2>1, <2>2
    <2>3. CASE j = m + 1
        BY <1>1, <1>2, <2>3 DEF PL!Before
    <2> QED
        BY <1>7, <2>2, <2>3
<1>10. Fit(<<>>, <<>>)
    BY <1>2 DEF Fit, PL!InOrder
<1>11. \A i \in 1..(m + 1) : Fit(Raw(B[i]), Stack(B[i]))
    BY <1>1, <1>3, <1>7, <1>10
<1>12. AreKept(B, L)
    BY <1>1, <1>3, <1>8, <1>9, <1>11 DEF AreKept
<1> QED
    BY <1>1, <1>12 DEF B

\* A line that is skipped.
LEMMA SkippedLine ==
    ASSUME NEW A \in Seq(Entry), NEW L \in Seq(PL!ALine), NEW l \in PL!ALine, AreKept(A, L),
           l[1] \in Skipped
    PROVE  AreKept(A, Append(L, l))
<1>1. Good(Append(L, l)) = Good(L)
    BY GoodFacts
<1> QED
    BY <1>1 DEF AreKept

\* A line behind the lines of an entry.
LEMMA FitAppend ==
    ASSUME NEW r \in Seq(PL!ALine), NEW s \in Seq(PL!ALine), NEW l \in PL!ALine, Fit(r, s),
           \A x \in PL!ToSet(r) : x[2] < l[2], r = <<>> \/ ~PL!IsHead(l)
    PROVE  Fit(Append(r, l), IF l[1] = "stack" THEN Append(s, l) ELSE s)
<1> DEFINE ss == IF l[1] = "stack" THEN Append(s, l) ELSE s
<1>1. ASSUME NEW t \in Seq(PL!ALine), PL!InOrder(t), \A x \in PL!ToSet(t) : x[2] < l[2]
      PROVE  PL!InOrder(Append(t, l))
    <2> DEFINE u == Append(t, l)
               n == Len(t)
    <2>1. Len(u) = n + 1 /\ u[n + 1] = l /\ n \in Nat /\ \A i \in 1..n : u[i] = t[i]
        BY AppendProperties
    <2>2. \A i \in 1..n : t[i] \in PL!ToSet(t)
        BY LineSets
    <2>3. \A i \in 1..n : t[i][2] < l[2]
        BY <1>1, <2>2
    <2>4. \A i, j \in 1..n : i < j => t[i][2] < t[j][2]
        BY <1>1 DEF PL!InOrder
    <2> HIDE DEF u, n
    <2> SUFFICES ASSUME NEW i \in 1..(n + 1), NEW j \in 1..(n + 1), i < j
                 PROVE  u[i][2] < u[j][2]
        BY <2>1 DEF PL!InOrder, u
    <2>5. i \in 1..n /\ (j \in 1..n \/ j = n + 1)
        BY <2>1
    <2> QED
        BY <2>1, <2>3, <2>4, <2>5
<1>2. /\ PL!InOrder(r) /\ PL!InOrder(s) /\ \A k \in 2..Len(r) : ~PL!IsHead(r[k])
      /\ PL!ToSet(s) = {x \in PL!ToSet(r) : x[1] = "stack"}
    BY DEF Fit
<1>3. PL!InOrder(Append(r, l))
    BY <1>1, <1>2
<1>4. PL!InOrder(ss)
    <2>1. \A x \in PL!ToSet(s) : x[2] < l[2]
        BY <1>2
    <2>2. PL!InOrder(Append(s, l))
        BY <1>1, <1>2, <2>1
    <2> QED
        BY <1>2, <2>2
<1>5. \A k \in 2..Len(Append(r, l)) : ~PL!IsHead(Append(r, l)[k])
    <2> DEFINE u == Append(r, l)
               n == Len(r)
    <2>1. Len(u) = n + 1 /\ u[n + 1] = l /\ n \in Nat /\ \A i \in 1..n : u[i] = r[i]
        BY AppendProperties
    <2>2. r = <<>> => n = 0
        BY EmptySeq
    <2>3. \A k \in 2..n : ~PL!IsHead(r[k])
        BY <1>2
    <2> HIDE DEF u, n
    <2> SUFFICES ASSUME NEW k \in 2..(n + 1)
                 PROVE  ~PL!IsHead(u[k])
        BY <2>1 DEF u
    <2>4. CASE k \in 2..n
        <3>1. k \in 1..n
            BY <2>1, <2>4
        <3> QED
            BY <2>1, <2>3, <2>4, <3>1
    <2>5. CASE k = n + 1
        <3>1. n # 0
            BY <2>1, <2>5
        <3> QED
            BY <2>1, <2>2, <2>5, <3>1
    <2>6. k \in 2..n \/ k = n + 1
        BY <2>1
    <2> QED
        BY <2>4, <2>5, <2>6
<1>6. PL!ToSet(ss) = {x \in PL!ToSet(Append(r, l)) : x[1] = "stack"}
    <2>1. /\ PL!ToSet(Append(r, l)) = PL!ToSet(r) \cup {l}
          /\ PL!ToSet(Append(s, l)) = PL!ToSet(s) \cup {l}
        BY LineSets
    <2>2. CASE l[1] = "stack"
        BY <1>2, <2>1, <2>2
    <2>3. CASE l[1] # "stack"
        BY <1>2, <2>1, <2>3
    <2> QED
        BY <2>2, <2>3
<1> HIDE DEF ss
<1>7. Fit(Append(r, l), ss)
    BY <1>3, <1>4, <1>5, <1>6 DEF Fit
<1> QED
    BY <1>7 DEF ss

\* A line more in the last entry.
LEMMA AddedLine ==
    ASSUME NEW E \in Seq(Entry), NEW x \in Entry, NEW y \in Entry, NEW L \in Seq(PL!ALine),
           NEW l \in PL!ALine, AreKept(Append(E, x), L), Numbered(L), l[2] = Len(L) + 1,
           l[1] \notin Skipped, Raw(x) = <<>> \/ ~PL!IsHead(l),
           Raw(y) = Append(Raw(x), l),
           Stack(y) = IF l[1] = "stack" THEN Append(Stack(x), l) ELSE Stack(x)
    PROVE  AreKept(Append(E, y), Append(L, l))
<1> DEFINE A == Append(E, x)
           B == Append(E, y)
           m == Len(E)
           n == Len(L)
           r == Raw(x)
           q == Len(r)
<1>1. /\ A \in Seq(Entry) /\ Len(A) = m + 1 /\ A[m + 1] = x /\ m \in Nat
      /\ \A i \in 1..m : A[i] = E[i]
    BY AppendProperties
<1>2. /\ B \in Seq(Entry) /\ Len(B) = m + 1 /\ B[m + 1] = y
      /\ \A i \in 1..m : B[i] = E[i]
    BY AppendProperties
<1>3. r \in Seq(PL!ALine) /\ Stack(x) \in Seq(PL!ALine) /\ q \in Nat /\ n \in Nat
    BY EntryFacts
<1>4. /\ Len(Raw(y)) = q + 1 /\ Raw(y)[q + 1] = l /\ \A k \in 1..q : Raw(y)[k] = r[k]
    BY <1>3, AppendProperties
<1>5. /\ \A i, j \in 1..(m + 1) : i < j => PL!Before(Raw(A[i]), Raw(A[j]))
      /\ RawLines(A) = Good(L)
      /\ \A i \in 1..(m + 1) : Fit(Raw(A[i]), Stack(A[i]))
    BY <1>1 DEF AreKept
<1>6. Good(Append(L, l)) = Good(L) \cup {l}
    BY GoodFacts
<1>7. \A z \in Good(L) : z[2] \in Nat /\ z[2] < l[2]
    <2>1. PL!ToSet(L) = {L[p] : p \in 1..n}
        BY LineSets
    <2>2. \A p \in 1..n : L[p][2] = p
        BY DEF Numbered
    <2>3. \A p \in 1..n : p \in Nat /\ p < l[2]
        BY <1>3
    <2>4. \A z \in PL!ToSet(L) : z[2] \in Nat /\ z[2] < l[2]
        BY <2>1, <2>2, <2>3
    <2> QED
        BY <2>4 DEF Good
<1>8. /\ \A z : z \in RawLines(A) <=> InRaw(z, A)
      /\ \A z : z \in RawLines(B) <=> InRaw(z, B)
    BY <1>1, <1>2, RawFacts
<1> HIDE DEF A, B
<1>9. \A z : InRaw(z, A) <=> \E i \in 1..(m + 1) : \E k \in 1..Len(Raw(A[i])) : z = Raw(A[i])[k]
    BY <1>1 DEF InRaw
<1>10. \A z : InRaw(z, B) <=> \E i \in 1..(m + 1) : \E k \in 1..Len(Raw(B[i])) : z = Raw(B[i])[k]
    BY <1>2 DEF InRaw
<1> HIDE DEF m, n, q, r
<1>11. /\ \A i \in 1..m : i \in 1..(m + 1)
       /\ \A i \in 1..(m + 1) : i \in 1..m \/ i = m + 1
       /\ \A i \in 1..(m + 1), j \in 1..(m + 1) : i < j => i \in 1..m
       /\ m + 1 \in 1..(m + 1)
    <2>1. m \in Nat
        BY <1>1
    <2> QED
        BY <2>1
<1>12. /\ \A k \in 1..q : k \in 1..(q + 1)
       /\ \A k \in 1..(q + 1) : k \in 1..q \/ k = q + 1
       /\ q + 1 \in 1..(q + 1)
    <2>1. q \in Nat
        BY <1>3
    <2> QED
        BY <2>1
<1>13. \A i \in 1..(m + 1) : \A k \in 1..Len(Raw(A[i])) : Raw(A[i])[k][2] < l[2]
    <2> SUFFICES ASSUME NEW i \in 1..(m + 1), NEW k \in 1..Len(Raw(A[i]))
                 PROVE  Raw(A[i])[k][2] < l[2]
        OBVIOUS
    <2>1. InRaw(Raw(A[i])[k], A)
        BY <1>9
    <2>2. Raw(A[i])[k] \in Good(L)
        BY <1>5, <1>8, <2>1
    <2> QED
        BY <1>7, <2>2
<1>14. Len(r) = q /\ Raw(A[m + 1]) = r
    BY <1>1 DEF r, q
<1>15. ASSUME NEW i \in 1..(m + 1), NEW j \in 1..(m + 1), i < j
       PROVE  PL!Before(Raw(B[i]), Raw(B[j]))
    <2>1. i \in 1..m /\ B[i] = A[i]
        BY <1>1, <1>2, <1>11, <1>15
    <2>2. PL!Before(Raw(A[i]), Raw(A[j]))
        BY <1>5, <1>15
    <2>3. CASE j \in 1..m
        BY <1>1, <1>2, <2>1, <2>2, <2>3
    <2>4. CASE j = m + 1
        <3>1. \A k \in 1..Len(Raw(A[i])), h \in 1..q : Raw(A[i])[k][2] < r[h][2]
            BY <1>14, <2>2, <2>4 DEF PL!Before
        <3>2. \A k \in 1..Len(Raw(A[i])) : Raw(A[i])[k][2] < l[2]
            BY <1>13
        <3>3. \A k \in 1..Len(Raw(A[i])), h \in 1..(q + 1) : Raw(A[i])[k][2] < Raw(y)[h][2]
            BY <1>4, <1>12, <3>1, <3>2
        <3> QED
            BY <1>2, <1>4, <2>1, <2>4, <3>3 DEF PL!Before
    <2> QED
        BY <1>11, <2>3, <2>4
<1>16. RawLines(B) = RawLines(A) \cup {l}
    <2>1. ASSUME NEW z, InRaw(z, A)
          PROVE  InRaw(z, B)
        <3>1. PICK i \in 1..(m + 1) : \E k \in 1..Len(Raw(A[i])) : z = Raw(A[i])[k]
            BY <1>9, <2>1
        <3>2. CASE i \in 1..m
            <4>1. B[i] = A[i]
                BY <1>1, <1>2, <3>2
            <4> QED
                BY <1>10, <3>1, <4>1
        <3>3. CASE i = m + 1
            <4>1. PICK k \in 1..q : z = r[k]
                BY <1>14, <3>1, <3>3
            <4>2. k \in 1..Len(Raw(B[i])) /\ z = Raw(B[i])[k]
                BY <1>2, <1>4, <1>12, <3>3, <4>1
            <4> QED
                BY <1>10, <4>2
        <3> QED
            BY <1>11, <3>2, <3>3
    <2>2. InRaw(l, B)
        <3>1. q + 1 \in 1..Len(Raw(B[m + 1])) /\ l = Raw(B[m + 1])[q + 1]
            BY <1>2, <1>4, <1>12
        <3> QED
            BY <1>10, <1>11, <3>1
    <2>3. ASSUME NEW z, InRaw(z, B)
          PROVE  InRaw(z, A) \/ z = l
        <3>1. PICK i \in 1..(m + 1) : \E k \in 1..Len(Raw(B[i])) : z = Raw(B[i])[k]
            BY <1>10, <2>3
        <3>2. CASE i \in 1..m
            <4>1. B[i] = A[i]
                BY <1>1, <1>2, <3>2
            <4> QED
                BY <1>9, <3>1, <4>1
        <3>3. CASE i = m + 1
            <4>1. PICK k \in 1..(q + 1) : z = Raw(y)[k]
                BY <1>2, <1>4, <3>1, <3>3
            <4>2. CASE k \in 1..q
                <5>1. z = Raw(A[m + 1])[k] /\ k \in 1..Len(Raw(A[m + 1]))
                    BY <1>4, <1>14, <4>1, <4>2
                <5> QED
                    BY <1>9, <1>11, <5>1
            <4>3. CASE k = q + 1
                BY <1>4, <4>1, <4>3
            <4> QED
                BY <1>12, <4>2, <4>3
        <3> QED
            BY <1>11, <3>2, <3>3
    <2> QED
        BY <1>8, <2>1, <2>2, <2>3
<1>17. Fit(Raw(y), Stack(y))
    <2>1. Fit(r, Stack(x))
        BY <1>1, <1>5, <1>11, <1>14
    <2>2. \A z \in PL!ToSet(r) : z[2] < l[2]
        <3>1. PL!ToSet(r) = {r[k] : k \in 1..Len(r)}
            BY <1>3, LineSets
        <3>2. \A k \in 1..Len(r) : r[k][2] < l[2]
            BY <1>11, <1>13, <1>14
        <3> QED
            BY <3>1, <3>2
    <2>3. Fit(Append(r, l), IF l[1] = "stack" THEN Append(Stack(x), l) ELSE Stack(x))
        BY <1>3, <2>1, <2>2, FitAppend DEF r
    <2> QED
        BY <2>3 DEF r
<1>18. \A i \in 1..(m + 1) : Fit(Raw(B[i]), Stack(B[i]))
    BY <1>1, <1>2, <1>5, <1>11, <1>17
<1>19. AreKept(B, Append(L, l))
    <2>1. RawLines(B) = Good(Append(L, l))
        BY <1>5, <1>6, <1>16
    <2> QED
        BY <1>2, <1>15, <1>18, <2>1 DEF AreKept
<1> QED
    BY <1>19 DEF B

\* PaisaLogInv in these words.
Cur(g) == [raw |-> g.raw, stack |-> g.stack]
ALog == [raw : Seq(PL!ALine), stack : Seq(PL!ALine), msg : BOOLEAN]

LEMMA CurFacts ==
    ASSUME NEW g \in ALog
    PROVE  /\ Cur(g) \in Entry /\ Raw(Cur(g)) = g.raw /\ Stack(Cur(g)) = g.stack
           /\ g.raw \in Seq(PL!ALine) /\ g.stack \in Seq(PL!ALine)
BY DEF Cur, Entry, Raw, Stack, ALog

LEMMA NoLogFacts ==
    /\ PL!NoLog \in ALog
    /\ Cur(PL!NoLog) \in Entry /\ Raw(Cur(PL!NoLog)) = <<>> /\ Stack(Cur(PL!NoLog)) = <<>>
<1>1. <<>> \in Seq(PL!ALine)
    BY EmptySeq
<1>2. PL!NoLog \in ALog /\ PL!NoLog.raw = <<>> /\ PL!NoLog.stack = <<>>
    BY <1>1 DEF PL!NoLog, PL!Nil, ALog
<1> QED
    BY <1>2, CurFacts

PaisaTypes ==
    /\ parsing \in {"reading", "done", "error"}
    /\ lines \in Seq(PL!ALine)
    /\ hasLog \in BOOLEAN /\ thisEntryIsBroken \in BOOLEAN /\ numBrokenLogLines \in Nat
    /\ log \in ALog
    /\ entries \in Seq(Entry)

LEMMA PaisaSplit ==
    PL!PaisaLogInv <=>
        /\ PaisaTypes /\ Numbered(lines) /\ (~hasLog => log = PL!NoLog)
        /\ parsing # "error" => AreKept(Append(entries, Cur(log)), lines)
<1>1. PL!LinesKept <=> (parsing # "error" => AreKept(Append(entries, Cur(log)), lines))
    BY DEF PL!LinesKept, AreKept, RawLines, Good, Fit, Cur, Raw, Stack, Skipped
<1>2. PL!TypeOK <=> PaisaTypes
    BY DEF PL!TypeOK, PaisaTypes, ALog, Entry
<1> QED
    BY <1>1, <1>2 DEF PL!PaisaLogInv, Numbered

LEMMA PaisaSplitNext ==
    PL!PaisaLogInv' <=>
        /\ PaisaTypes' /\ Numbered(lines') /\ (~hasLog' => log' = PL!NoLog)
        /\ parsing' # "error" => AreKept(Append(entries', Cur(log')), lines')
<1>1. PL!LinesKept' <=> (parsing' # "error" => AreKept(Append(entries', Cur(log')), lines'))
    BY DEF PL!LinesKept, AreKept, RawLines, Good, Fit, Cur, Raw, Stack, Skipped,
           PL!InOrder, PL!Before, PL!IsHead, PL!ToSet, PL!DateKinds
<1>2. PL!TypeOK' <=> PaisaTypes'
    BY DEF PL!TypeOK, PaisaTypes, ALog, Entry, PL!ALine, PL!Kind, PL!DateKinds
<1> QED
    BY <1>1, <1>2 DEF PL!PaisaLogInv, Numbered, PL!NoLog, PL!Nil

\* ReadLine: the lines are numbered as they are read.
LEMMA ReadLineFacts ==
    ASSUME PL!PaisaLogInv, NEW kind \in PL!Kind, PL!ReadLine(kind)
    PROVE  LET l == PL!Line(kind)
           IN  /\ l \in PL!ALine /\ l[1] = kind /\ l[2] = Len(lines) + 1
               /\ parsing = "reading" /\ lines' = Append(lines, l)
               /\ lines' \in Seq(PL!ALine) /\ Numbered(lines')
               /\ AreKept(Append(entries, Cur(log)), lines)
<1> DEFINE l == PL!Line(kind)
           n == Len(lines)
<1>1. PaisaTypes /\ Numbered(lines) /\ parsing = "reading" /\ lines' = Append(lines, l)
    BY PaisaSplit DEF PL!ReadLine
<1>2. lines \in Seq(PL!ALine) /\ n \in Nat
    BY <1>1 DEF PaisaTypes
<1>3. l \in PL!ALine /\ l[1] = kind /\ l[2] = n + 1
    BY <1>2 DEF PL!Line, PL!ALine
<1>4. AreKept(Append(entries, Cur(log)), lines)
    BY <1>1, PaisaSplit
<1> HIDE DEF l
<1>5. /\ lines' \in Seq(PL!ALine) /\ Len(lines') = n + 1 /\ lines'[n + 1] = l
      /\ \A i \in 1..n : lines'[i] = lines[i]
    BY <1>1, <1>2, <1>3, AppendProperties
<1>6. Numbered(lines')
    <2>1. \A i \in 1..(n + 1) : i \in 1..n \/ i = n + 1
        BY <1>2
    <2>2. \A i \in 1..n : lines[i][2] = i
        BY <1>1 DEF Numbered
    <2>3. \A i \in 1..(n + 1) : lines'[i][2] = i
        BY <1>3, <1>5, <2>1, <2>2
    <2> QED
        BY <1>5, <2>3 DEF Numbered
<1> QED
    BY <1>1, <1>3, <1>4, <1>5, <1>6 DEF l

\* An error ends the parser.
LEMMA ErrorKeeps ==
    ASSUME PL!PaisaLogInv, PL!Error, lines' \in Seq(PL!ALine), Numbered(lines'),
           thisEntryIsBroken' \in BOOLEAN, numBrokenLogLines' \in Nat
    PROVE  PL!PaisaLogInv'
<1>1. parsing' = "error" /\ hasLog' = hasLog /\ log' = log /\ entries' = entries
    BY DEF PL!Error
<1>2. PaisaTypes /\ (~hasLog => log = PL!NoLog)
    BY PaisaSplit
<1>3. PaisaTypes'
    BY <1>1, <1>2 DEF PaisaTypes, ALog, Entry, PL!ALine, PL!Kind, PL!DateKinds
<1>4. ~hasLog' => log' = PL!NoLog
    BY <1>1, <1>2
<1> QED
    BY <1>1, <1>3, <1>4, PaisaSplitNext

\* publishLogEntry(): the pending entry is among the others, and none is pending.
LEMMA Publishes ==
    ASSUME PL!PaisaLogInv, parsing # "error", entries' = PL!Published
    PROVE  entries' \in Seq(Entry) /\ AreKept(Append(entries', Cur(PL!NoLog)), lines)
<1>1. /\ PaisaTypes /\ (~hasLog => log = PL!NoLog)
      /\ AreKept(Append(entries, Cur(log)), lines)
    BY PaisaSplit
<1>2. /\ entries \in Seq(Entry) /\ lines \in Seq(PL!ALine) /\ Cur(log) \in Entry
    BY <1>1, CurFacts DEF PaisaTypes
<1>3. CASE hasLog
    <2>1. entries' = Append(entries, Cur(log))
        BY <1>3 DEF PL!Published, Cur
    <2>2. entries' \in Seq(Entry)
        BY <1>2, <2>1, AppendProperties
    <2> QED
        BY <1>1, <1>2, <2>1, <2>2, EmptyEntry, NoLogFacts
<1>4. CASE ~hasLog
    <2>1. entries' = entries /\ log = PL!NoLog
        BY <1>1, <1>4 DEF PL!Published
    <2> QED
        BY <1>1, <1>2, <2>1
<1> QED
    BY <1>3, <1>4

\* DateLine: an entry begins.
LEMMA DateLineKeeps ==
    ASSUME PL!PaisaLogInv, NEW kind \in PL!DateKinds, PL!DateLine(kind)
    PROVE  PL!PaisaLogInv'
<1> DEFINE l == PL!Line(kind)
<1>1. PL!ReadLine(kind) /\ kind \in PL!Kind
    BY DEF PL!DateLine, PL!Kind
<1>2. /\ l \in PL!ALine /\ l[1] = kind /\ l[2] = Len(lines) + 1
      /\ parsing = "reading" /\ lines' = Append(lines, l)
      /\ lines' \in Seq(PL!ALine) /\ Numbered(lines')
    BY <1>1, ReadLineFacts
<1>3. PaisaTypes /\ lines \in Seq(PL!ALine) /\ Numbered(lines)
    BY PaisaSplit DEF PaisaTypes
<1>4. thisEntryIsBroken' = FALSE /\ numBrokenLogLines' = numBrokenLogLines
    BY DEF PL!DateLine
<1>5. thisEntryIsBroken' \in BOOLEAN /\ numBrokenLogLines' \in Nat
    BY <1>3, <1>4 DEF PaisaTypes
<1>6. CASE PL!Publishable
    <2>1. /\ entries' = PL!Published /\ hasLog' = TRUE
          /\ log' = IF kind \in {"entry", "noMsg"}
                    THEN [PL!FreshLog EXCEPT !.raw = <<l>>, !.msg = (kind = "entry")]
                    ELSE PL!FreshLog
          /\ parsing' = IF kind = "fatal" THEN "error" ELSE parsing
        BY <1>6 DEF PL!DateLine
    <2>2. entries' \in Seq(Entry) /\ AreKept(Append(entries', Cur(PL!NoLog)), lines)
        BY <1>2, <2>1, Publishes
    <2>3. CASE kind \in {"entry", "noMsg"}
        <3> DEFINE y == Cur(log')
        <3>1. log' = [raw |-> <<l>>, stack |-> <<>>, msg |-> (kind = "entry")]
            BY <2>1, <2>3 DEF PL!FreshLog, PL!NoLog, PL!Nil
        <3>2. <<l>> \in Seq(PL!ALine) /\ <<>> \in Seq(PL!ALine) /\ Append(<<>>, l) = <<l>>
            BY <1>2
        <3> HIDE DEF l
        <3>3. log' \in ALog /\ log'.raw = <<l>> /\ log'.stack = <<>>
            BY <3>1, <3>2 DEF ALog
        <3>4. y \in Entry /\ Raw(y) = <<l>> /\ Stack(y) = <<>>
            BY <3>3, CurFacts
        <3>5. l[1] \notin Skipped /\ l[1] # "stack"
            BY <1>2, <2>3 DEF Skipped
        <3> DEFINE x == Cur(PL!NoLog)
        <3>6. x \in Entry /\ Raw(x) = <<>> /\ Stack(x) = <<>>
            BY NoLogFacts
        <3> HIDE DEF x, y
        <3>7. AreKept(Append(entries', x), lines)
            BY <2>2 DEF x
        <3>8. AreKept(Append(entries', y), Append(lines, l))
            BY <1>2, <1>3, <2>2, <3>2, <3>4, <3>5, <3>6, <3>7, AddedLine
        <3>9. AreKept(Append(entries', Cur(log')), lines')
            BY <1>2, <3>8 DEF y
        <3>10. parsing' = "reading"
            BY <1>2, <2>1, <2>3
        <3>11. PaisaTypes'
            BY <1>2, <1>5, <2>1, <2>2, <3>3, <3>10
               DEF PaisaTypes, ALog, Entry, PL!ALine, PL!Kind, PL!DateKinds
        <3> QED
            BY <1>2, <2>1, <3>9, <3>11, PaisaSplitNext
    <2>4. CASE kind \notin {"entry", "noMsg"}
        <3>1. log' = PL!NoLog
            BY <2>1, <2>4 DEF PL!FreshLog
        <3>2. kind = "fatal" \/ kind = "unparsable"
            BY <2>4 DEF PL!DateKinds
        <3>3. parsing' # "error" => AreKept(Append(entries', Cur(log')), lines')
            <4>1. CASE kind = "fatal"
                BY <2>1, <4>1
            <4>2. CASE kind = "unparsable"
                <5>1. l[1] \in Skipped
                    BY <1>2, <4>2 DEF Skipped
                <5>2. Append(entries', Cur(PL!NoLog)) \in Seq(Entry)
                    BY <2>2, NoLogFacts, AppendProperties
                <5> QED
                    BY <1>2, <1>3, <2>2, <3>1, <5>1, <5>2, SkippedLine
            <4> QED
                BY <3>2, <4>1, <4>2
        <3>4. parsing' \in {"reading", "done", "error"}
            BY <1>2, <2>1
        <3>5. PaisaTypes'
            BY <1>2, <1>5, <2>1, <2>2, <3>1, <3>4, NoLogFacts
               DEF PaisaTypes, ALog, Entry, PL!ALine, PL!Kind, PL!DateKinds
        <3> QED
            BY <1>2, <3>1, <3>3, <3>5, PaisaSplitNext
    <2> QED
        BY <2>3, <2>4
<1>7. CASE ~PL!Publishable
    <2>1. PL!Error
        BY <1>7 DEF PL!DateLine
    <2> QED
        BY <1>2, <1>5, <2>1, ErrorKeeps
<1> QED
    BY <1>6, <1>7

\* BrokenLine.
LEMMA BrokenLineKeeps ==
    ASSUME PL!PaisaLogInv, PL!BrokenLine
    PROVE  PL!PaisaLogInv'
<1> DEFINE l == PL!Line("broken")
<1>1. PL!ReadLine("broken") /\ "broken" \in PL!Kind
    BY DEF PL!BrokenLine, PL!Kind
<1>2. /\ l \in PL!ALine /\ l[1] = "broken" /\ l[2] = Len(lines) + 1
      /\ parsing = "reading" /\ lines' = Append(lines, l)
      /\ lines' \in Seq(PL!ALine) /\ Numbered(lines')
      /\ AreKept(Append(entries, Cur(log)), lines)
    BY <1>1, ReadLineFacts
<1>3. /\ thisEntryIsBroken' = TRUE /\ numBrokenLogLines' = numBrokenLogLines + 1
      /\ parsing' = parsing /\ hasLog' = hasLog /\ log' = log /\ entries' = entries
    BY DEF PL!BrokenLine
<1>4. /\ PaisaTypes /\ (~hasLog => log = PL!NoLog) /\ lines \in Seq(PL!ALine)
      /\ entries \in Seq(Entry) /\ Cur(log) \in Entry
    BY PaisaSplit, CurFacts DEF PaisaTypes
<1>5. Append(entries, Cur(log)) \in Seq(Entry)
    BY <1>4, AppendProperties
<1>6. l[1] \in Skipped
    BY <1>2 DEF Skipped
<1> HIDE DEF l
<1>7. AreKept(Append(entries', Cur(log')), lines')
    <2>1. AreKept(Append(entries, Cur(log)), Append(lines, l))
        BY <1>2, <1>4, <1>5, <1>6, SkippedLine
    <2> QED
        BY <1>2, <1>3, <2>1
<1>8. numBrokenLogLines' \in Nat /\ thisEntryIsBroken' \in BOOLEAN
    BY <1>3, <1>4 DEF PaisaTypes
<1>9. PaisaTypes'
    BY <1>2, <1>3, <1>4, <1>8 DEF PaisaTypes, ALog, Entry, PL!ALine, PL!Kind, PL!DateKinds
<1> QED
    BY <1>2, <1>3, <1>4, <1>7, <1>9, PaisaSplitNext

\* AppendStacktraceLine and AppendLogMsg: a line is added to the pending entry.
LEMMA LineKeeps ==
    ASSUME PL!PaisaLogInv, NEW kind \in {"stack", "text"}, PL!ReadLine(kind),
           log' \in ALog, log'.raw = Append(log.raw, PL!Line(kind)),
           log'.stack = IF kind = "stack" THEN Append(log.stack, PL!Line(kind)) ELSE log.stack,
           hasLog' = TRUE, parsing' = parsing, entries' = entries,
           thisEntryIsBroken' = thisEntryIsBroken, numBrokenLogLines' = numBrokenLogLines
    PROVE  PL!PaisaLogInv'
<1> DEFINE l == PL!Line(kind)
           x == Cur(log)
           y == Cur(log')
<1>1. kind \in PL!Kind
    BY DEF PL!Kind
<1>2. /\ l \in PL!ALine /\ l[1] = kind /\ l[2] = Len(lines) + 1
      /\ parsing = "reading" /\ lines' = Append(lines, l)
      /\ lines' \in Seq(PL!ALine) /\ Numbered(lines')
      /\ AreKept(Append(entries, Cur(log)), lines)
    BY <1>1, ReadLineFacts
<1>3. /\ PaisaTypes /\ Numbered(lines) /\ lines \in Seq(PL!ALine) /\ entries \in Seq(Entry)
      /\ log \in ALog
    BY PaisaSplit DEF PaisaTypes
<1>4. x \in Entry /\ Raw(x) = log.raw /\ Stack(x) = log.stack
    BY <1>3, CurFacts
<1>5. y \in Entry /\ Raw(y) = log'.raw /\ Stack(y) = log'.stack
    BY CurFacts
<1>6. l[1] \notin Skipped /\ ~PL!IsHead(l)
    BY <1>2 DEF Skipped, PL!IsHead, PL!DateKinds
<1>7. /\ Raw(y) = Append(Raw(x), l)
      /\ Stack(y) = IF l[1] = "stack" THEN Append(Stack(x), l) ELSE Stack(x)
    BY <1>2, <1>4, <1>5
<1>8. AreKept(Append(entries, x), lines)
    BY <1>2
<1> HIDE DEF l, x, y
<1>9. AreKept(Append(entries, y), Append(lines, l))
    BY <1>2, <1>3, <1>4, <1>5, <1>6, <1>7, <1>8, AddedLine
<1>10. AreKept(Append(entries', Cur(log')), lines')
    BY <1>2, <1>9 DEF y
<1>11. PaisaTypes'
    BY <1>2, <1>3 DEF PaisaTypes, ALog, Entry, PL!ALine, PL!Kind, PL!DateKinds
<1> QED
    BY <1>2, <1>10, <1>11, PaisaSplitNext

\* AppendStacktraceLine.
LEMMA StackLineKeeps ==
    ASSUME PL!PaisaLogInv, PL!AppendStacktraceLine
    PROVE  PL!PaisaLogInv'
<1> DEFINE l == PL!Line("stack")
<1>1. /\ PL!ReadLine("stack") /\ "stack" \in PL!Kind
      /\ thisEntryIsBroken' = thisEntryIsBroken /\ numBrokenLogLines' = numBrokenLogLines
    BY DEF PL!AppendStacktraceLine, PL!Kind
<1>2. l \in PL!ALine /\ lines' \in Seq(PL!ALine) /\ Numbered(lines')
    BY <1>1, ReadLineFacts
<1>3. PaisaTypes /\ log \in ALog /\ (~hasLog => log = PL!NoLog)
    BY PaisaSplit DEF PaisaTypes
<1>4. CASE log.raw # PL!Nil
    <2>1. /\ log' = [log EXCEPT !.stack = Append(@, l), !.raw = Append(@, l)]
          /\ parsing' = parsing /\ hasLog' = hasLog /\ entries' = entries
        BY <1>4 DEF PL!AppendStacktraceLine
    <2>2. hasLog' = TRUE
        <3>1. hasLog \in BOOLEAN
            BY <1>3 DEF PaisaTypes
        <3>2. ~hasLog => log.raw = PL!Nil
            BY <1>3 DEF PL!NoLog
        <3> QED
            BY <1>4, <2>1, <3>1, <3>2
    <2>3. log.raw \in Seq(PL!ALine) /\ log.stack \in Seq(PL!ALine)
        BY <1>3, CurFacts
    <2>4. Append(log.raw, l) \in Seq(PL!ALine) /\ Append(log.stack, l) \in Seq(PL!ALine)
        BY <1>2, <2>3, AppendProperties
    <2> HIDE DEF l
    <2>5. /\ log' \in ALog /\ log'.raw = Append(log.raw, l) /\ log'.stack = Append(log.stack, l)
        BY <1>3, <2>1, <2>4 DEF ALog
    <2> QED
        BY <1>1, <2>1, <2>2, <2>5, LineKeeps DEF l
<1>5. CASE ~(log.raw # PL!Nil)
    <2>1. PL!Error
        BY <1>5 DEF PL!AppendStacktraceLine
    <2>2. thisEntryIsBroken' \in BOOLEAN /\ numBrokenLogLines' \in Nat
        BY <1>1, <1>3 DEF PaisaTypes
    <2> QED
        BY <1>2, <2>1, <2>2, ErrorKeeps
<1> QED
    BY <1>4, <1>5

\* AppendLogMsg.
LEMMA LogMsgKeeps ==
    ASSUME PL!PaisaLogInv, PL!AppendLogMsg
    PROVE  PL!PaisaLogInv'
<1> DEFINE l == PL!Line("text")
<1>1. /\ PL!ReadLine("text") /\ "text" \in PL!Kind
      /\ thisEntryIsBroken' = thisEntryIsBroken /\ numBrokenLogLines' = numBrokenLogLines
      /\ log' = [log EXCEPT !.raw = Append(@, l), !.msg = TRUE]
      /\ parsing' = parsing /\ hasLog' = TRUE /\ entries' = entries
    BY DEF PL!AppendLogMsg, PL!Kind
<1>2. l \in PL!ALine
    BY <1>1, ReadLineFacts
<1>3. log \in ALog
    BY PaisaSplit DEF PaisaTypes
<1>4. log.raw \in Seq(PL!ALine) /\ log.stack \in Seq(PL!ALine)
    BY <1>3, CurFacts
<1>5. Append(log.raw, l) \in Seq(PL!ALine)
    BY <1>2, <1>4, AppendProperties
<1> HIDE DEF l
<1>6. log' \in ALog /\ log'.raw = Append(log.raw, l) /\ log'.stack = log.stack
    BY <1>1, <1>3, <1>5 DEF ALog
<1> QED
    BY <1>1, <1>6, LineKeeps DEF l

\* Eof.
LEMMA EofKeeps ==
    ASSUME PL!PaisaLogInv, PL!Eof
    PROVE  PL!PaisaLogInv'
<1>1. /\ parsing = "reading" /\ lines' = lines /\ thisEntryIsBroken' = thisEntryIsBroken
      /\ numBrokenLogLines' = numBrokenLogLines
    BY DEF PL!Eof
<1>2. /\ PaisaTypes /\ Numbered(lines) /\ (~hasLog => log = PL!NoLog)
      /\ AreKept(Append(entries, Cur(log)), lines)
    BY <1>1, PaisaSplit
<1>3. /\ lines' \in Seq(PL!ALine) /\ Numbered(lines')
      /\ thisEntryIsBroken' \in BOOLEAN /\ numBrokenLogLines' \in Nat
    BY <1>1, <1>2 DEF PaisaTypes
<1>4. CASE thisEntryIsBroken /\ parsing' = "done" /\ UNCHANGED <<hasLog, log, entries>>
    <2>1. PaisaTypes'
        BY <1>2, <1>3, <1>4 DEF PaisaTypes, ALog, Entry, PL!ALine, PL!Kind, PL!DateKinds
    <2> QED
        BY <1>1, <1>2, <1>3, <1>4, <2>1, PaisaSplitNext
<1>5. CASE PL!Publishable /\ entries' = PL!Published /\ hasLog' = FALSE /\ log' = PL!FreshLog
           /\ parsing' = "done"
    <2>1. entries' \in Seq(Entry) /\ AreKept(Append(entries', Cur(PL!NoLog)), lines)
        BY <1>1, <1>5, Publishes
    <2>2. log' = PL!NoLog /\ log' \in ALog
        BY <1>5, NoLogFacts DEF PL!FreshLog
    <2>3. PaisaTypes'
        BY <1>3, <1>5, <2>1, <2>2 DEF PaisaTypes, ALog, Entry, PL!ALine, PL!Kind, PL!DateKinds
    <2>4. AreKept(Append(entries', Cur(log')), lines')
        BY <1>1, <2>1, <2>2
    <2> QED
        BY <1>3, <2>2, <2>3, <2>4, PaisaSplitNext
<1>6. CASE PL!Error
    BY <1>3, <1>6, ErrorKeeps
<1> QED
    BY <1>4, <1>5, <1>6 DEF PL!Eof

\* Init.
LEMMA PaisaInit ==
    ASSUME PL!Init
    PROVE  PL!PaisaLogInv
<1>1. /\ parsing = "reading" /\ lines = <<>> /\ hasLog = FALSE /\ log = PL!NoLog
      /\ thisEntryIsBroken = FALSE /\ numBrokenLogLines = 0 /\ entries = <<>>
    BY DEF PL!Init
<1>2. /\ <<>> \in Seq(PL!ALine) /\ <<>> \in Seq(Entry) /\ Len(<<>>) = 0 /\ 1..0 = {}
    BY EmptySeq
<1>3. PaisaTypes
    <2>1. lines \in Seq(PL!ALine) /\ entries \in Seq(Entry) /\ log \in ALog
        BY <1>1, <1>2, NoLogFacts
    <2> QED
        BY <1>1, <2>1 DEF PaisaTypes
<1>4. AreKept(<<>>, <<>>)
    <2>1. \A x : x \in RawLines(<<>>) <=> InRaw(x, <<>>)
        BY <1>2, RawFacts
    <2>2. RawLines(<<>>) = {}
        BY <1>2, <2>1 DEF InRaw
    <2>3. Good(<<>>) = {}
        BY <1>2 DEF Good, PL!ToSet
    <2> QED
        BY <1>2, <2>2, <2>3 DEF AreKept
<1>5. AreKept(Append(<<>>, Cur(PL!NoLog)), <<>>)
    BY <1>2, <1>4, NoLogFacts, EmptyEntry
<1>6. Numbered(lines)
    BY <1>1, <1>2 DEF Numbered
<1> QED
    BY <1>1, <1>3, <1>5, <1>6, PaisaSplit

\* PaisaLogInv is inductive.
LEMMA PaisaStep ==
    ASSUME PL!PaisaLogInv, PL!Next \/ UNCHANGED plVars
    PROVE  PL!PaisaLogInv'
<1>1. ASSUME NEW kind \in PL!DateKinds, PL!DateLine(kind)
      PROVE  PL!PaisaLogInv'
    BY <1>1, DateLineKeeps
<1>2. CASE PL!BrokenLine
    BY <1>2, BrokenLineKeeps
<1>3. CASE PL!AppendStacktraceLine
    BY <1>3, StackLineKeeps
<1>4. CASE PL!AppendLogMsg
    BY <1>4, LogMsgKeeps
<1>5. CASE PL!Eof
    BY <1>5, EofKeeps
<1>6. CASE PL!Ended \/ UNCHANGED plVars
    <2>1. /\ parsing' = parsing /\ lines' = lines /\ hasLog' = hasLog /\ log' = log
          /\ thisEntryIsBroken' = thisEntryIsBroken /\ numBrokenLogLines' = numBrokenLogLines
          /\ entries' = entries
        BY <1>6 DEF PL!Ended, PL!plVars, plVars
    <2>2. /\ PaisaTypes /\ Numbered(lines) /\ (~hasLog => log = PL!NoLog)
          /\ parsing # "error" => AreKept(Append(entries, Cur(log)), lines)
        BY PaisaSplit
    <2>3. PaisaTypes'
        BY <2>1, <2>2 DEF PaisaTypes, ALog, Entry, PL!ALine, PL!Kind, PL!DateKinds
    <2> QED
        BY <2>1, <2>2, <2>3, PaisaSplitNext
<1> QED
    BY <1>1, <1>2, <1>3, <1>4, <1>5, <1>6 DEF PL!Next

-----------------------------------------------------------------------------
(* Asn1Digger.c                                                            *)

\* A set of numbers has a least one.
LEMMA MinIsLeast ==
    ASSUME NEW S \in SUBSET Nat, S # {}
    PROVE  AD!Min(S) \in S /\ \A j \in S : AD!Min(S) <= j
<1> DEFINE less == {ss \in Nat \X Nat : ss[1] < ss[2]}
<1>1. IsWellFoundedOn(less, Nat)
    BY NatLessThanWellFounded DEF OpToRel
<1>2. \E x \in S : \A y \in S : ~(<<y, x>> \in less)
    <2> HIDE DEF less
    <2> QED
        BY <1>1, WFMin
<1>3. \A x, y \in Nat : y < x => <<y, x>> \in less
    <2> SUFFICES ASSUME NEW x \in Nat, NEW y \in Nat, y < x
                 PROVE  <<y, x>> \in less
        OBVIOUS
    <2>1. <<y, x>> \in Nat \X Nat /\ <<y, x>>[1] = y /\ <<y, x>>[2] = x
        OBVIOUS
    <2> QED
        BY <2>1
<1> HIDE DEF less
<1>4. PICK x \in S : \A y \in S : ~(<<y, x>> \in less)
    BY <1>2
<1>5. ASSUME NEW y \in S PROVE x <= y
    <2>1. x \in Nat /\ y \in Nat /\ ~(y < x)
        BY <1>3, <1>4
    <2> QED
        BY <2>1
<1>6. \E z \in S : \A y \in S : z <= y
    BY <1>5
<1> QED
    BY <1>6 DEF AD!Min

LEMMA MinOfTwo ==
    ASSUME NEW a \in Nat, NEW b \in Nat
    PROVE  /\ AD!Min({a, b}) \in Nat /\ AD!Min({a, b}) <= a /\ AD!Min({a, b}) <= b
           /\ AD!Min({a, b}) \in {a, b}
<1>1. {a, b} \in SUBSET Nat /\ {a, b} # {}
    OBVIOUS
<1> DEFINE S == {a, b}
           m == AD!Min(S)
<1>2. m \in S /\ \A j \in S : m <= j
    BY <1>1, MinIsLeast
<1> HIDE DEF m
<1> QED
    BY <1>2 DEF m

OctetSeq == Seq(0..255)
AdLine == [offs : Nat, octets : OctetSeq]
AdTag == [type : Nat, len : Int, from : Nat, dump : Seq(AdLine)]

\* The lines of a dump that begins behind the first from octets of s show c octets.
Dumped(s, C, d, from, c) == AD!ShowsInOrder(s, C, from, d) /\ AD!Shown(d) = c

\* AD!Lines, as an operator of what it depends on: the k-th line of a chunk of n octets
\* at the offset o begins at LineFrom and ends before LineTo.
Times(C, row) == row * C
LineFrom(o, C, k) == IF o \div C + k - 1 = o \div C THEN o ELSE Times(C, o \div C + k - 1)
LineTo(o, n, C, k) == AD!Min({Times(C, o \div C + k - 1 + 1), o + n})
NumLines(o, n, C) == ((o + n) - 1) \div C - o \div C + 1
LineAt(b, o, p, e) == [offs |-> p, octets |-> SubSeq(b, p - o + 1, e - o)]
LinesOf(b, o, C) ==
    [k \in 1..NumLines(o, Len(b), C) |-> LineAt(b, o, LineFrom(o, C, k), LineTo(o, Len(b), C, k))]

LEMMA LinesAre == AD!Lines = LinesOf(innBuf, hexDumpOffs, hexCols)
<1> DEFINE end == hexDumpOffs + Len(innBuf)
           first == hexDumpOffs \div hexCols
           From(row) == IF row = first THEN hexDumpOffs ELSE row * hexCols
           To(row) == AD!Min({(row + 1) * hexCols, end})
           L(row) == [ offs |-> From(row),
                       octets |-> SubSeq(innBuf, From(row) - hexDumpOffs + 1,
                                                 To(row) - hexDumpOffs) ]
<1>1. AD!Lines = [k \in 1..((end - 1) \div hexCols - first + 1) |-> L(first + k - 1)]
    BY Zenon DEF AD!Lines
<1>2. (end - 1) \div hexCols - first + 1 = NumLines(hexDumpOffs, Len(innBuf), hexCols)
    BY Zenon DEF NumLines
<1>3. ASSUME NEW k
      PROVE  L(first + k - 1) = LineAt(innBuf, hexDumpOffs, LineFrom(hexDumpOffs, hexCols, k),
                                       LineTo(hexDumpOffs, Len(innBuf), hexCols, k))
    <2>1. From(first + k - 1) = LineFrom(hexDumpOffs, hexCols, k)
        BY Zenon DEF LineFrom, Times
    <2>2. To(first + k - 1) = LineTo(hexDumpOffs, Len(innBuf), hexCols, k)
        BY Zenon DEF LineTo, Times
    <2> HIDE DEF From, To
    <2> QED
        BY <2>1, <2>2, Zenon DEF LineAt
<1> HIDE DEF L, end, first
<1> QED
    BY <1>1, <1>2, <1>3, Zenon DEF LinesOf

\* Rows of C.
LEMMA RowOf ==
    ASSUME NEW C \in 1..48, NEW k \in Nat
    PROVE  k \div C \in Nat /\ Times(C, k \div C) <= k /\ k < Times(C, k \div C + 1)
<1>1. k \div C \in Nat
    BY SMT
<1>2. (k \div C) * C <= k
    BY SMT
<1>3. k < (k \div C + 1) * C
    BY SMT
<1> QED
    BY <1>1, <1>2, <1>3, Zenon DEF Times

LEMMA TimesFacts ==
    ASSUME NEW C \in 1..48, NEW q \in Nat
    PROVE  /\ Times(C, q) \in Nat /\ Times(C, q + 1) = Times(C, q) + C
           /\ \A r \in Nat : q <= r => Times(C, q) <= Times(C, r)
<1>1. Times(C, q) \in Nat
    BY SMT DEF Times
<1>2. Times(C, q + 1) = Times(C, q) + C
    BY SMT DEF Times
<1>3. ASSUME NEW r \in Nat, q <= r
      PROVE  Times(C, q) <= Times(C, r)
    <2>1. PICK d \in Nat : r = q + d
        <3>1. r - q \in Nat /\ r = q + (r - q)
            BY <1>3
        <3> QED
            BY <3>1
    <2>2. d * C \in Nat /\ q * C \in Nat /\ r * C = q * C + d * C
        BY <2>1, SMT
    <2>3. q * C <= r * C
        BY <2>2
    <2> QED
        BY <2>3 DEF Times
<1> QED
    BY <1>1, <1>2, <1>3

\* The lines of a chunk follow each other from its begin to its end.
LEMMA LinesFollow ==
    ASSUME NEW o \in Nat, NEW n \in Nat \ {0}, NEW C \in 1..48
    PROVE  LET m == NumLines(o, n, C)
           IN  /\ m \in Nat /\ m >= 1
               /\ \A k \in 1..m : /\ LineFrom(o, C, k) \in Nat /\ LineTo(o, n, C, k) \in Nat
                                  /\ o <= LineFrom(o, C, k) /\ LineFrom(o, C, k) < LineTo(o, n, C, k)
                                  /\ LineTo(o, n, C, k) <= o + n
                                  /\ LineTo(o, n, C, k) <= LineFrom(o, C, k) + C
               /\ LineFrom(o, C, 1) = o /\ LineTo(o, n, C, m) = o + n
               /\ \A k \in 2..m : LineFrom(o, C, k) = LineTo(o, n, C, k - 1)
<1> DEFINE f == o \div C
           g == ((o + n) - 1) \div C
           m == NumLines(o, n, C)
           x == (o + n) - 1
<1>1. x \in Nat /\ o <= x /\ o + n = x + 1
    OBVIOUS
<1>2. f \in Nat /\ Times(C, f) <= o /\ o < Times(C, f + 1)
    BY RowOf
<1>3. g \in Nat /\ Times(C, g) <= x /\ x < Times(C, g + 1)
    <2> HIDE DEF x
    <2>1. x \div C \in Nat /\ Times(C, x \div C) <= x /\ x < Times(C, x \div C + 1)
        BY <1>1, RowOf
    <2> QED
        BY <2>1 DEF x
<1>4. m = g - f + 1
    BY DEF NumLines
<1>5. \A k : /\ LineFrom(o, C, k) = IF f + k - 1 = f THEN o ELSE Times(C, f + k - 1)
             /\ LineTo(o, n, C, k) = AD!Min({Times(C, f + k - 1 + 1), o + n})
    BY Zenon DEF LineFrom, LineTo
<1> HIDE DEF f, g, m, x
<1>6. f <= g
    <2> SUFFICES ASSUME g + 1 <= f PROVE FALSE
        BY <1>2, <1>3
    <2>1. Times(C, g + 1) <= Times(C, f) /\ Times(C, g + 1) \in Nat /\ Times(C, f) \in Nat
        <3>1. g + 1 \in Nat
            BY <1>3
        <3> QED
            BY <1>2, <3>1, TimesFacts
    <2> QED
        BY <1>1, <1>2, <1>3, <2>1
<1>7. m \in Nat /\ m >= 1 /\ f + m - 1 = g
    BY <1>2, <1>3, <1>4, <1>6
\* The row r.
<1>8. ASSUME NEW r \in Nat, f <= r, r <= g
      PROVE  /\ Times(C, r) \in Nat /\ Times(C, r + 1) \in Nat
             /\ Times(C, r + 1) = Times(C, r) + C
             /\ Times(C, r) <= x
             /\ r # f => o < Times(C, r)
             /\ o < Times(C, r + 1)
             /\ r # g => Times(C, r + 1) <= x
    <2>1. Times(C, r) \in Nat /\ Times(C, r + 1) = Times(C, r) + C /\ Times(C, r + 1) \in Nat
        <3>1. r + 1 \in Nat
            OBVIOUS
        <3> QED
            BY <3>1, TimesFacts
    <2>2. Times(C, r) <= Times(C, g) /\ Times(C, g) \in Nat
        BY <1>3, <1>8, TimesFacts
    <2>3. r # f => Times(C, f + 1) <= Times(C, r) /\ Times(C, f + 1) \in Nat
        <3>1. f + 1 \in Nat /\ (r # f => f + 1 <= r)
            BY <1>2, <1>8
        <3> QED
            BY <3>1, TimesFacts
    <2>4. Times(C, f + 1) <= Times(C, r + 1) /\ Times(C, f + 1) \in Nat
        <3>1. f + 1 \in Nat /\ r + 1 \in Nat /\ f + 1 <= r + 1
            BY <1>2, <1>8
        <3> QED
            BY <3>1, TimesFacts
    <2>5. r # g => Times(C, r + 1) <= Times(C, g)
        <3>1. r + 1 \in Nat /\ (r # g => r + 1 <= g)
            BY <1>3, <1>8
        <3> QED
            BY <1>3, <3>1, TimesFacts
    <2> QED
        BY <1>1, <1>2, <1>3, <2>1, <2>2, <2>3, <2>4, <2>5
\* Where the k-th line begins and ends.
<1>9. ASSUME NEW k \in 1..m
      PROVE  LET r == f + k - 1
             IN  /\ r \in Nat /\ f <= r /\ r <= g /\ (r = f <=> k = 1) /\ (r = g <=> k = m)
                 /\ LineFrom(o, C, k) = IF r = f THEN o ELSE Times(C, r)
                 /\ LineTo(o, n, C, k) = IF r = g THEN o + n ELSE Times(C, r + 1)
    <2> DEFINE r == f + k - 1
    <2>1. r \in Nat /\ f <= r /\ r <= g /\ (r = f <=> k = 1) /\ (r = g <=> k = m)
        BY <1>2, <1>3, <1>7
    <2>2. /\ LineFrom(o, C, k) = IF r = f THEN o ELSE Times(C, r)
          /\ LineTo(o, n, C, k) = AD!Min({Times(C, r + 1), o + n})
        BY <1>5
    <2> HIDE DEF r
    <2> DEFINE a == Times(C, r + 1)
               z == AD!Min({a, o + n})
    <2>3. a \in Nat /\ o + n \in Nat /\ (r # g => a <= x) /\ (r = g => x < a)
        BY <1>3, <1>8, <2>1
    <2> HIDE DEF a, z
    <2>4. z \in Nat /\ z <= a /\ z <= o + n /\ (z = a \/ z = o + n)
        BY <2>3, MinOfTwo DEF z
    <2>5. z = IF r = g THEN o + n ELSE a
        BY <1>1, <2>3, <2>4
    <2> QED
        BY <2>1, <2>2, <2>5 DEF r, a, z
<1>10. ASSUME NEW k \in 1..m
       PROVE  /\ LineFrom(o, C, k) \in Nat /\ LineTo(o, n, C, k) \in Nat
              /\ o <= LineFrom(o, C, k) /\ LineFrom(o, C, k) < LineTo(o, n, C, k)
              /\ LineTo(o, n, C, k) <= o + n
              /\ LineTo(o, n, C, k) <= LineFrom(o, C, k) + C
    <2> DEFINE r == f + k - 1
    <2>1. /\ r \in Nat /\ f <= r /\ r <= g
          /\ LineFrom(o, C, k) = IF r = f THEN o ELSE Times(C, r)
          /\ LineTo(o, n, C, k) = IF r = g THEN o + n ELSE Times(C, r + 1)
        BY <1>9
    <2> HIDE DEF r
    <2>2. /\ Times(C, r) \in Nat /\ Times(C, r + 1) \in Nat
          /\ Times(C, r + 1) = Times(C, r) + C
          /\ Times(C, r) <= x
          /\ r # f => o < Times(C, r)
          /\ o < Times(C, r + 1)
          /\ r # g => Times(C, r + 1) <= x
        BY <1>8, <2>1
    <2>3. r = f => Times(C, r) <= o
        BY <1>2
    <2>4. r = g => x < Times(C, r + 1)
        BY <1>3
    <2> QED
        BY <1>1, <2>1, <2>2, <2>3, <2>4
<1>11. LineFrom(o, C, 1) = o /\ LineTo(o, n, C, m) = o + n
    <2>1. 1 \in 1..m /\ m \in 1..m
        BY <1>7
    <2> QED
        BY <1>9, <2>1
<1>12. ASSUME NEW k \in 2..m PROVE LineFrom(o, C, k) = LineTo(o, n, C, k - 1)
    <2> DEFINE r == f + k - 1
    <2>1. k \in 1..m /\ k - 1 \in 1..m /\ k # 1 /\ k - 1 # m
        BY <1>7
    <2>2. LineFrom(o, C, k) = Times(C, r)
        BY <1>9, <2>1
    <2>3. LineTo(o, n, C, k - 1) = Times(C, f + (k - 1) - 1 + 1)
        BY <1>9, <2>1
    <2>4. f + (k - 1) - 1 + 1 = r
        BY <1>2, <2>1
    <2> QED
        BY <2>2, <2>3, <2>4
<1> QED
    BY <1>7, <1>10, <1>11, <1>12 DEF m

LEMMA OctetsAre ==
    ASSUME NEW s \in OctetSeq
    PROVE  Len(s) \in Nat /\ \A n \in 1..Len(s) : s[n] \in 0..255
<1> DEFINE R == 0..255
<1>1. s \in Seq(R)
    BY DEF OctetSeq
<1> HIDE DEF R
<1>2. Len(s) \in Nat /\ \A n \in 1..Len(s) : s[n] \in R
    BY <1>1
<1> QED
    BY <1>2 DEF R

\* The n octets of s behind the first a.
IsPart(b, s, a, n) == a + n <= Len(s) /\ b = SubSeq(s, a + 1, a + n)

LEMMA PartFacts ==
    ASSUME NEW s \in OctetSeq, NEW a \in Nat, NEW n \in Nat, NEW b, IsPart(b, s, a, n)
    PROVE  /\ b \in OctetSeq /\ Len(b) = n
           /\ \A j \in 1..n : b[j] = s[a + j]
<1>0. a + n <= Len(s) /\ b = SubSeq(s, a + 1, a + n)
    BY DEF IsPart
<1>1. ASSUME NEW j \in (a + 1)..(a + n) PROVE s[j] \in 0..255
    <2>1. j \in 1..Len(s)
        BY <1>0, OctetsAre
    <2> QED
        BY <2>1, OctetsAre
<1>2. a + 1 \in Int /\ a + n \in Int
    OBVIOUS
<1>3. /\ b \in OctetSeq
      /\ Len(b) = IF a + 1 <= a + n THEN (a + n) - (a + 1) + 1 ELSE 0
      /\ \A j \in 1..((a + n) - (a + 1) + 1) : b[j] = s[(a + 1) + j - 1]
    <2> DEFINE R == 0..255
               x == a + 1
               y == a + n
    <2>1. \A j \in x..y : s[j] \in R
        BY <1>1
    <2>2. x \in Int /\ y \in Int
        BY <1>2
    <2> HIDE DEF R, x, y
    <2>3. /\ SubSeq(s, x, y) \in Seq(R)
          /\ Len(SubSeq(s, x, y)) = IF x <= y THEN y - x + 1 ELSE 0
          /\ \A j \in 1..(y - x + 1) : SubSeq(s, x, y)[j] = s[x + j - 1]
        BY <2>1, <2>2, SubSeqProperties
    <2>4. b = SubSeq(s, x, y)
        BY <1>0 DEF x, y
    <2> QED
        BY <2>3, <2>4 DEF OctetSeq, R, x, y
<1>4. Len(b) = n
    BY <1>3
<1>5. ASSUME NEW j \in 1..n PROVE b[j] = s[a + j]
    <2>1. j \in 1..((a + n) - (a + 1) + 1) /\ (a + 1) + j - 1 = a + j
        OBVIOUS
    <2> QED
        BY <1>3, <2>1
<1> QED
    BY <1>3, <1>4, <1>5

LEMMA LineRecord ==
    ASSUME NEW p \in Nat, NEW y \in OctetSeq
    PROVE  LET l == [offs |-> p, octets |-> y]
           IN  l \in AdLine /\ l.offs = p /\ l.octets = y
BY DEF AdLine

\* A part of a part.
LEMMA PartOfPart ==
    ASSUME NEW s \in OctetSeq, NEW a \in Nat, NEW n \in Nat, NEW b, IsPart(b, s, a, n),
           NEW i \in Nat, NEW m \in Nat, i + m <= n
    PROVE  IsPart(SubSeq(b, i + 1, i + m), s, a + i, m)
<1> DEFINE x == SubSeq(b, i + 1, i + m)
           y == SubSeq(s, (a + i) + 1, (a + i) + m)
<1>1. a + n <= Len(s) /\ b \in OctetSeq /\ Len(b) = n /\ \A j \in 1..n : b[j] = s[a + j]
    <2>1. a + n <= Len(s)
        BY DEF IsPart
    <2> QED
        BY <2>1, PartFacts
<1>2. a + i \in Nat /\ (a + i) + m <= Len(s)
    <2>1. Len(s) \in Nat
        BY DEF OctetSeq
    <2> QED
        BY <1>1, <2>1
<1>3. /\ y \in OctetSeq /\ Len(y) = m /\ \A j \in 1..m : y[j] = s[(a + i) + j]
    <2>1. IsPart(y, s, a + i, m)
        BY <1>2 DEF IsPart
    <2> HIDE DEF y
    <2> QED
        BY <1>2, <2>1, PartFacts
<1>4. /\ x \in OctetSeq /\ Len(x) = m /\ \A j \in 1..m : x[j] = b[i + j]
    <2>1. IsPart(x, b, i, m)
        BY <1>1 DEF IsPart
    <2> HIDE DEF x
    <2> QED
        BY <1>1, <2>1, PartFacts
<1> HIDE DEF x, y
<1>5. ASSUME NEW j \in 1..m PROVE x[j] = y[j]
    <2>1. i + j \in 1..n /\ a + (i + j) = (a + i) + j
        OBVIOUS
    <2> QED
        BY <1>1, <1>3, <1>4, <2>1
<1>6. x = y
    BY <1>3, <1>4, <1>5 DEF OctetSeq
<1> QED
    BY <1>2, <1>6 DEF x, y, IsPart

\* A line of a chunk b of n octets at the offset o.
LEMMA LineTyped ==
    ASSUME NEW o \in Nat, NEW n \in Nat, NEW b \in OctetSeq, Len(b) = n,
           NEW p \in Nat, NEW e \in Nat, o <= p, p < e, e <= o + n
    PROVE  /\ LineAt(b, o, p, e) \in AdLine
           /\ LineAt(b, o, p, e).offs = p /\ Len(LineAt(b, o, p, e).octets) = e - p
           /\ AD!End(LineAt(b, o, p, e)) = e
<1> DEFINE l == LineAt(b, o, p, e)
           i == p - o
           m == e - p
           y == SubSeq(b, i + 1, i + m)
<1>1. i \in Nat /\ m \in Nat /\ i + m <= n /\ p - o + 1 = i + 1 /\ e - o = i + m
    OBVIOUS
<1>2. l = [offs |-> p, octets |-> y]
    BY <1>1, Zenon DEF LineAt
<1> HIDE DEF l, i, m, y
<1>3. y \in OctetSeq /\ Len(y) = m
    <2>1. IsPart(y, b, i, m)
        BY <1>1 DEF IsPart, y
    <2> QED
        BY <1>1, <2>1, PartFacts
<1>4. l \in AdLine /\ l.offs = p /\ l.octets = y
    BY <1>2, <1>3, LineRecord
<1>5. AD!End(l) = e
    <2>1. AD!End(l) = p + m
        BY <1>3, <1>4 DEF AD!End
    <2> QED
        BY <2>1 DEF m
<1> QED
    BY <1>3, <1>4, <1>5 DEF l, i, m

LEMMA LineShows ==
    ASSUME NEW o \in Nat, NEW n \in Nat, NEW s \in OctetSeq, NEW a \in Nat, NEW b,
           IsPart(b, s, a, n),
           NEW p \in Nat, NEW e \in Nat, o <= p, p < e, e <= o + n
    PROVE  IsPart(LineAt(b, o, p, e).octets, s, a + (p - o), e - p)
<1> DEFINE i == p - o
           m == e - p
           y == SubSeq(b, i + 1, i + m)
<1>1. i \in Nat /\ m \in Nat /\ i + m <= n /\ p - o + 1 = i + 1 /\ e - o = i + m
    OBVIOUS
<1>2. LineAt(b, o, p, e) = [offs |-> p, octets |-> y]
    BY <1>1, Zenon DEF LineAt
<1> HIDE DEF i, m, y
<1>3. LineAt(b, o, p, e).octets = y
    BY <1>2
<1>4. IsPart(y, s, a + i, m)
    BY <1>1, PartOfPart DEF y
<1> QED
    BY <1>3, <1>4, Zenon DEF i, m

\* The lines of a chunk, whatever they show.
LEMMA LinesTyped ==
    ASSUME NEW o \in Nat, NEW C \in 1..48, NEW b \in OctetSeq, Len(b) > 0
    PROVE  LET m == NumLines(o, Len(b), C)
               L == LinesOf(b, o, C)
           IN  /\ L \in Seq(AdLine) /\ Len(L) = m /\ m \in Nat /\ m >= 1
               /\ \A k \in 1..m : L[k] = LineAt(b, o, LineFrom(o, C, k), LineTo(o, Len(b), C, k))
<1> DEFINE n == Len(b)
           m == NumLines(o, n, C)
           L == LinesOf(b, o, C)
<1>1. n \in Nat \ {0}
    BY OctetsAre
<1> HIDE DEF n
<1>2. /\ m \in Nat /\ m >= 1
      /\ \A k \in 1..m : /\ LineFrom(o, C, k) \in Nat /\ LineTo(o, n, C, k) \in Nat
                         /\ o <= LineFrom(o, C, k) /\ LineFrom(o, C, k) < LineTo(o, n, C, k)
                         /\ LineTo(o, n, C, k) <= o + n
    BY <1>1, LinesFollow
<1>3. L = [k \in 1..m |-> LineAt(b, o, LineFrom(o, C, k), LineTo(o, n, C, k))]
    BY Zenon DEF LinesOf, n
<1> HIDE DEF m, L
<1>4. ASSUME NEW k \in 1..m
      PROVE  LineAt(b, o, LineFrom(o, C, k), LineTo(o, n, C, k)) \in AdLine
    <2>1. n \in Nat /\ Len(b) = n
        BY <1>1 DEF n
    <2> QED
        BY <1>2, <2>1, LineTyped
<1> QED
    BY <1>2, <1>3, <1>4 DEF m, L, n

\* A chunk is dumped behind what was dumped before.
LEMMA DumpGrows ==
    ASSUME NEW s \in OctetSeq, NEW C \in 1..48, NEW from \in Nat, NEW o \in Nat,
           NEW n \in Nat \ {0}, NEW b, IsPart(b, s, from + o, n),
           NEW d \in Seq(AdLine), Dumped(s, C, d, from, o)
    PROVE  Dumped(s, C, d \o LinesOf(b, o, C), from, o + n)
<1> DEFINE L == LinesOf(b, o, C)
           m == NumLines(o, n, C)
           p(k) == LineFrom(o, C, k)
           e(k) == LineTo(o, n, C, k)
           all == d \o L
           w == Len(d)
<1>1. b \in OctetSeq /\ Len(b) = n
    <2> DEFINE x == from + o
    <2>1. x \in Nat /\ IsPart(b, s, x, n)
        OBVIOUS
    <2> HIDE DEF x
    <2> QED
        BY <2>1, PartFacts
<1>2. /\ L \in Seq(AdLine) /\ Len(L) = m /\ m \in Nat /\ m >= 1
      /\ \A k \in 1..m : L[k] = LineAt(b, o, p(k), e(k))
    <2>1. Len(b) > 0 /\ NumLines(o, Len(b), C) = m /\ \A k : LineTo(o, Len(b), C, k) = e(k)
        BY <1>1
    <2> QED
        BY <1>1, <2>1, LinesTyped
<1>3. /\ \A k \in 1..m : /\ p(k) \in Nat /\ e(k) \in Nat /\ o <= p(k) /\ p(k) < e(k)
                         /\ e(k) <= o + n /\ e(k) <= p(k) + C
      /\ p(1) = o /\ e(m) = o + n
      /\ \A k \in 2..m : p(k) = e(k - 1)
    BY LinesFollow
<1> HIDE DEF L, m, p, e
\* The k-th line.
<1>4. ASSUME NEW k \in 1..m
      PROVE  /\ L[k].offs = p(k) /\ AD!End(L[k]) = e(k)
             /\ Len(L[k].octets) \in 1..C
             /\ L[k].octets = SubSeq(s, from + L[k].offs + 1,
                                        from + L[k].offs + Len(L[k].octets))
    <2> DEFINE l == LineAt(b, o, p(k), e(k))
               x == from + o
    <2>1. x \in Nat /\ IsPart(b, s, x, n)
        OBVIOUS
    <2> HIDE DEF l, x
    <2>2. /\ p(k) \in Nat /\ e(k) \in Nat /\ o <= p(k) /\ p(k) < e(k)
          /\ e(k) <= o + n /\ e(k) <= p(k) + C
        BY <1>3
    <2>3. /\ l.offs = p(k) /\ Len(l.octets) = e(k) - p(k) /\ AD!End(l) = e(k)
          /\ IsPart(l.octets, s, x + (p(k) - o), e(k) - p(k))
        <3> DEFINE u == p(k)
                   v == e(k)
        <3> HIDE DEF u, v
        <3>1. u \in Nat /\ v \in Nat /\ o <= u /\ u < v /\ v <= o + n /\ n \in Nat
            BY <2>2 DEF u, v
        <3>2. /\ LineAt(b, o, u, v).offs = u /\ Len(LineAt(b, o, u, v).octets) = v - u
              /\ AD!End(LineAt(b, o, u, v)) = v
            BY <1>1, <3>1, LineTyped
        <3>3. IsPart(LineAt(b, o, u, v).octets, s, x + (u - o), v - u)
            BY <2>1, <3>1, LineShows
        <3>4. l = LineAt(b, o, u, v)
            BY DEF l, u, v
        <3> QED
            BY <3>2, <3>3, <3>4 DEF u, v
    <2>4. x + (p(k) - o) = from + p(k)
        BY <2>2 DEF x
    <2>5. l.octets = SubSeq(s, from + p(k) + 1, from + p(k) + (e(k) - p(k)))
        BY <2>3, <2>4 DEF IsPart
    <2>6. e(k) - p(k) \in 1..C
        BY <2>2
    <2>7. L[k] = l
        BY <1>2 DEF l
    <2> QED
        BY <2>3, <2>5, <2>6, <2>7
<1>5. /\ w \in Nat /\ all \in Seq(AdLine) /\ Len(all) = w + m
      /\ \A j \in 1..w : all[j] = d[j]
      /\ \A k \in 1..m : all[w + k] = L[k]
    BY <1>2
<1>6. /\ \A j \in 1..w :
            /\ d[j].offs = IF j = 1 THEN 0 ELSE AD!End(d[j - 1])
            /\ Len(d[j].octets) \in 1..C
            /\ d[j].octets = SubSeq(s, from + d[j].offs + 1,
                                       from + d[j].offs + Len(d[j].octets))
      /\ IF w = 0 THEN o = 0 ELSE o = AD!End(d[w])
    <2>1. AD!ShowsInOrder(s, C, from, d) /\ AD!Shown(d) = o
        BY DEF Dumped
    <2>2. DOMAIN d = 1..w /\ (d = <<>> <=> w = 0)
        OBVIOUS
    <2> HIDE DEF w
    <2>3. AD!Shown(d) = IF d = <<>> THEN 0 ELSE AD!End(d[w])
        BY Zenon DEF AD!Shown, w
    <2>4. \A j \in DOMAIN d :
             /\ d[j].offs = IF j = 1 THEN 0 ELSE AD!End(d[j - 1])
             /\ Len(d[j].octets) \in 1..C
             /\ d[j].octets = SubSeq(s, from + d[j].offs + 1,
                                        from + d[j].offs + Len(d[j].octets))
        BY <2>1, Zenon DEF AD!ShowsInOrder
    <2> QED
        BY <2>1, <2>2, <2>3, <2>4
<1> HIDE DEF all, w
<1>7. ASSUME NEW j \in 1..(w + m)
      PROVE  /\ all[j].offs = IF j = 1 THEN 0 ELSE AD!End(all[j - 1])
             /\ Len(all[j].octets) \in 1..C
             /\ all[j].octets = SubSeq(s, from + all[j].offs + 1,
                                          from + all[j].offs + Len(all[j].octets))
    <2>1. CASE j \in 1..w
        <3>1. all[j] = d[j] /\ (j # 1 => j - 1 \in 1..w)
            BY <1>5, <2>1
        <3>2. j # 1 => all[j - 1] = d[j - 1]
            BY <1>5, <3>1
        <3> QED
            BY <1>6, <2>1, <3>1, <3>2
    <2>2. CASE j = w + 1
        <3>1. 1 \in 1..m /\ all[j] = L[1] /\ L[1].offs = o
            <4>1. 1 \in 1..m
                BY <1>2
            <4> QED
                BY <1>3, <1>4, <1>5, <2>2, <4>1
        <3>2. o = IF j = 1 THEN 0 ELSE AD!End(all[j - 1])
            <4>1. CASE w = 0
                BY <1>6, <2>2, <4>1
            <4>2. CASE w # 0
                <5>1. j # 1 /\ j - 1 = w /\ w \in 1..w
                    BY <1>5, <2>2, <4>2
                <5> QED
                    BY <1>5, <1>6, <4>2, <5>1
            <4> QED
                BY <4>1, <4>2
        <3> QED
            BY <1>4, <3>1, <3>2
    <2>3. CASE j \in (w + 2)..(w + m)
        <3>1. PICK k \in 2..m : j = w + k
            <4>1. j - w \in 2..m /\ j = w + (j - w)
                BY <1>2, <1>5, <2>3
            <4> QED
                BY <4>1
        <3>2. k \in 1..m /\ k - 1 \in 1..m /\ j # 1 /\ j - 1 = w + (k - 1)
            BY <1>2, <1>5, <3>1
        <3>3. all[j] = L[k] /\ all[j - 1] = L[k - 1]
            BY <1>5, <3>1, <3>2
        <3>4. L[k].offs = AD!End(L[k - 1])
            BY <1>3, <1>4, <3>1, <3>2
        <3> QED
            BY <1>4, <3>2, <3>3, <3>4
    <2> QED
        BY <1>2, <1>5, <2>1, <2>2, <2>3
<1>8. AD!ShowsInOrder(s, C, from, all)
    <2>1. DOMAIN all = 1..(w + m)
        BY <1>5
    <2> QED
        BY <1>7, <2>1, Zenon DEF AD!ShowsInOrder
<1>9. AD!Shown(all) = o + n
    <2>1. m \in 1..m /\ all # <<>>
        BY <1>2, <1>5
    <2>2. all[Len(all)] = L[m]
        BY <1>5, <2>1
    <2> QED
        BY <1>3, <1>4, <2>1, <2>2 DEF AD!Shown
<1> QED
    BY <1>8, <1>9 DEF Dumped, all, L

AdFuncs == {"asnType", "asnLength", "asnValue", "hexDump_readChunk", "hexDump_dumpFromBuf",
            "exit", "overrun"}

AdTypes ==
    /\ funcToCall \in AdFuncs
    /\ funcToCall # "exit" => hexCols \in 1..48
    /\ adStdin \in OctetSeq /\ numRead \in Nat /\ numRead <= Len(adStdin)
    /\ type \in Nat /\ len \in Int /\ remainValueBytes \in Int /\ hexDumpOffs \in Nat
    /\ innBuf \in OctetSeq
    /\ funcToCall = "hexDump_dumpFromBuf" => Len(innBuf) > 0
    /\ adStdout \in Seq(AdTag)

\* A tag whose length is no negative int.
Promised(t) == AD!Value(t) >= 0

\* A tag that is followed by another one, behind the header of that.
IsPassed(s, C, t, next) ==
    Promised(t) => /\ Dumped(s, C, t.dump, t.from, AD!Value(t))
                   /\ next - (t.from + AD!Value(t)) \in 2..5

\* The last tag: run() is about to call f, n octets were read, of the value o dumped, b is
\* the chunk and rem are left behind it.
IsCurrent(s, C, t, f, n, o, rem, b, e) ==
    /\ f # "overrun"
    /\ f \in {"asnType", "asnLength", "asnValue"} =>
          Dumped(s, C, t.dump, t.from, AD!Value(t))
    /\ f = "asnType" => n = t.from + AD!Value(t)
    /\ f = "asnLength" => n = t.from + AD!Value(t) + 1
    /\ f = "asnValue" => n - (t.from + AD!Value(t)) \in 2..5
    /\ f = "hexDump_readChunk" =>
          /\ Dumped(s, C, t.dump, t.from, o)
          /\ n = t.from + o
          /\ AD!Value(t) = o + rem /\ rem > 0
    /\ f = "hexDump_dumpFromBuf" =>
          /\ Dumped(s, C, t.dump, t.from, o)
          /\ IsPart(b, s, t.from + o, Len(b))
          /\ n = (t.from + o) + Len(b)
          /\ AD!Value(t) = (o + Len(b)) + rem /\ rem >= 0
    /\ f = "exit" =>
          \E c \in 0..AD!Value(t) :
             Dumped(s, C, t.dump, t.from, c) /\ (e = 0 => c = AD!Value(t))

AdPassed == \A i \in 1..(Len(adStdout) - 1) :
                IsPassed(adStdin, hexCols, adStdout[i], adStdout[i + 1].from)
AdCurrent == Len(adStdout) > 0 /\ Promised(adStdout[Len(adStdout)]) =>
                IsCurrent(adStdin, hexCols, adStdout[Len(adStdout)], funcToCall, numRead,
                          hexDumpOffs, remainValueBytes, innBuf, adErr)
AdNone == Len(adStdout) = 0 =>
             funcToCall \notin {"hexDump_readChunk", "hexDump_dumpFromBuf", "overrun"}

AdInv == AdTypes /\ AdPassed /\ AdCurrent /\ AdNone

LEMMA TagFacts ==
    ASSUME NEW t \in AdTag
    PROVE  /\ t.from \in Nat /\ t.dump \in Seq(AdLine) /\ t.type \in Nat /\ t.len \in Int
           /\ AD!Value(t) \in Int /\ (Promised(t) => AD!Value(t) \in Nat)
<1>1. /\ t.from \in Nat /\ t.dump \in Seq(AdLine) /\ t.type \in Nat /\ t.len \in Int
    BY DEF AdTag
<1>2. AD!Value(t) \in Int
    BY <1>1 DEF AD!Value
<1> QED
    BY <1>1, <1>2 DEF Promised

LEMMA ReadLenFacts ==
    ASSUME AdTypes, funcToCall # "exit", remainValueBytes >= 0
    PROVE  AD!ReadLen \in Nat /\ AD!ReadLen <= remainValueBytes
<1> DEFINE n == AD!Min({remainValueBytes, InnBufCap})
<1>1. n \in Nat /\ n <= remainValueBytes
    BY MinOfTwo, Asn1Assumption DEF AdTypes
<1> HIDE DEF n
<1>2. hexCols \in 1..48
    BY DEF AdTypes
<1>3. n % hexCols <= n
    BY <1>1, <1>2, SMT
<1>4. n % hexCols \in Nat
    BY <1>1, <1>2, SMT
<1>5. ~(n < n % hexCols)
    BY <1>1, <1>3, <1>4
<1>6. AD!ReadLen = n
    BY <1>5, Zenon DEF AD!ReadLen, n
<1> QED
    BY <1>1, <1>6

LEMMA LengthIsInt ==
    ASSUME NEW s \in OctetSeq, Len(s) > 0
    PROVE  AD!LengthOf(s) \in Int
<1> DEFINE With(l, n) == IF n > Len(s) THEN l ELSE AD!Shifted(l, n) + (s[n] % 128)
<1>1. Len(s) \in Nat /\ \A n \in 1..Len(s) : s[n] \in 0..255
    BY OctetsAre
<1>0. \A x \in 0..255 : x % 128 \in Nat /\ x % 32 \in Nat
    OBVIOUS
<1>2. ASSUME NEW l \in Int, NEW n \in 1..4 PROVE AD!Shifted(l, n) \in Int
    <2> DEFINE A == 2^(32 - 7*n)
               B == 2^(31 - 7*n)
               K == 2^(7*n)
    <2>1. A \in Nat \ {0} /\ B \in Nat /\ K \in Nat
        <3>1. CASE n = 1
            BY <3>1
        <3>2. CASE n = 2
            BY <3>2
        <3>3. CASE n = 3
            BY <3>3
        <3>4. CASE n = 4
            BY <3>4
        <3> QED
            BY <3>1, <3>2, <3>3, <3>4
    <2>2. AD!Shifted(l, n) = (IF l % A < B THEN l % A ELSE (l % A) - A) * K
        BY Zenon DEF AD!Shifted
    <2> HIDE DEF A, B, K
    <2>3. l % A \in Int
        BY <2>1, SMT
    <2> DEFINE y == IF l % A < B THEN l % A ELSE (l % A) - A
    <2>4. y \in Int
        BY <2>1, <2>3
    <2> HIDE DEF y
    <2>5. y * K \in Int
        BY <2>1, <2>4, SMT
    <2> QED
        BY <2>2, <2>5 DEF y
<1>3. ASSUME NEW l \in Int, NEW n \in 1..4 PROVE With(l, n) \in Int
    <2>1. CASE n > Len(s)
        BY <2>1
    <2>2. CASE ~(n > Len(s))
        <3>1. s[n] \in 0..255
            BY <1>1, <2>2
        <3> DEFINE x == AD!Shifted(l, n)
                   y == s[n] % 128
        <3>2. x \in Int /\ y \in Nat
            BY <1>0, <1>2, <3>1
        <3> HIDE DEF x, y
        <3>3. x + y \in Int
            BY <3>2
        <3> QED
            BY <2>2, <3>3 DEF x, y
    <2> QED
        BY <2>1, <2>2
<1>4. s[1] % 32 \in Nat
    <2>1. s[1] \in 0..255
        BY <1>1
    <2> QED
        BY <1>0, <2>1
<1>5. AD!LengthOf(s) = IF s[1] % 32 = 31 THEN With(With(With(With(0, 1), 2), 3), 4) ELSE s[1] % 32
    BY Zenon DEF AD!LengthOf
<1> HIDE DEF With
<1>6. /\ With(0, 1) \in Int /\ With(With(0, 1), 2) \in Int
      /\ With(With(With(0, 1), 2), 3) \in Int
      /\ With(With(With(With(0, 1), 2), 3), 4) \in Int
    <2>1. 0 \in Int /\ 1 \in 1..4 /\ 2 \in 1..4 /\ 3 \in 1..4 /\ 4 \in 1..4
        OBVIOUS
    <2> QED
        BY <1>3, <2>1, Zenon
<1> QED
    BY <1>4, <1>5, <1>6

LEMMA AdSplit == AdInv => AdTypes /\ AdPassed /\ AdCurrent /\ AdNone
BY Zenon DEF AdInv

LEMMA AdSplitNext == AdTypes' /\ AdPassed' /\ AdCurrent' /\ AdNone' => AdInv'
BY Zenon DEF AdInv

\* What the steps that print nothing leave alone.
LEMMA SamePrinted ==
    ASSUME AdInv, UNCHANGED <<adStdin, hexCols, adStdout>>
    PROVE  AdPassed'
BY DEF AdInv, AdPassed

\* The last tag of those printed.
LEMMA LastTag ==
    ASSUME AdInv, Len(adStdout) > 0, Promised(adStdout[Len(adStdout)])
    PROVE  LET t == adStdout[Len(adStdout)]
           IN  /\ t \in AdTag /\ AD!Value(t) \in Nat
               /\ IsCurrent(adStdin, hexCols, t, funcToCall, numRead, hexDumpOffs,
                            remainValueBytes, innBuf, adErr)
<1>1. adStdout \in Seq(AdTag)
    BY AdSplit DEF AdTypes
<1>2. adStdout[Len(adStdout)] \in AdTag
    BY <1>1
<1> QED
    BY <1>2, TagFacts, AdSplit DEF AdCurrent

LEMMA ReadErrorKeeps ==
    ASSUME AdInv, AD!ReadError
    PROVE  AdInv'
<1>1. /\ funcToCall \in {"asnType", "asnLength", "hexDump_readChunk"}
      /\ funcToCall' = "exit" /\ adErr' = 1
      /\ hexCols' = hexCols /\ adStdin' = adStdin /\ numRead' = numRead /\ type' = type
      /\ len' = len /\ remainValueBytes' = remainValueBytes /\ hexDumpOffs' = hexDumpOffs
      /\ innBuf' = innBuf /\ adStdout' = adStdout
    BY DEF AD!ReadError, AD!Exit
<1>2. AdTypes'
    BY <1>1, AdSplit DEF AdTypes, AdFuncs
<1>3. AdPassed'
    BY <1>1, SamePrinted
<1>4. ASSUME Len(adStdout) > 0, Promised(adStdout[Len(adStdout)])
      PROVE  IsCurrent(adStdin, hexCols, adStdout[Len(adStdout)], "exit", numRead,
                       hexDumpOffs, remainValueBytes, innBuf, 1)
    <2> DEFINE t == adStdout[Len(adStdout)]
    <2>1. /\ IsCurrent(adStdin, hexCols, t, funcToCall, numRead, hexDumpOffs,
                       remainValueBytes, innBuf, adErr)
          /\ AD!Value(t) \in Nat
        BY <1>4, LastTag
    <2>2. hexDumpOffs \in Nat /\ remainValueBytes \in Int
        BY AdSplit DEF AdTypes
    <2> HIDE DEF t
    <2>3. \E c \in 0..AD!Value(t) : Dumped(adStdin, hexCols, t.dump, t.from, c)
        <3>1. CASE funcToCall = "hexDump_readChunk"
            <4>1. /\ Dumped(adStdin, hexCols, t.dump, t.from, hexDumpOffs)
                  /\ AD!Value(t) = hexDumpOffs + remainValueBytes /\ remainValueBytes > 0
                BY <2>1, <3>1 DEF IsCurrent
            <4>2. hexDumpOffs \in 0..AD!Value(t)
                BY <2>1, <2>2, <4>1
            <4> QED
                BY <4>1, <4>2
        <3>2. CASE funcToCall \in {"asnType", "asnLength"}
            <4>1. Dumped(adStdin, hexCols, t.dump, t.from, AD!Value(t))
                BY <2>1, <3>2 DEF IsCurrent
            <4>2. AD!Value(t) \in 0..AD!Value(t)
                BY <2>1
            <4> QED
                BY <4>1, <4>2
        <3> QED
            BY <1>1, <3>1, <3>2
    <2> QED
        BY <2>3 DEF IsCurrent, t
<1>5. AdCurrent' /\ AdNone'
    BY <1>1, <1>4 DEF AdCurrent, AdNone
<1> QED
    BY <1>2, <1>3, <1>5, AdSplitNext

LEMMA AsnTypeKeeps ==
    ASSUME AdInv, AD!AsnType
    PROVE  AdInv'
<1>1. /\ funcToCall = "asnType"
      /\ hexCols' = hexCols /\ adStdin' = adStdin
      /\ len' = len /\ remainValueBytes' = remainValueBytes /\ hexDumpOffs' = hexDumpOffs
      /\ innBuf' = innBuf /\ adStdout' = adStdout
      /\ \/ /\ funcToCall' = "exit" /\ adErr' = 0 /\ numRead' = numRead /\ type' = type
         \/ /\ numRead # Len(adStdin) /\ numRead' = numRead + 1
            /\ type' = adStdin[numRead + 1] % 32
            /\ funcToCall' = "asnLength" /\ adErr' = adErr
    BY DEF AD!AsnType, AD!Exit
<1>2. AdPassed'
    BY <1>1, SamePrinted
<1>3. ASSUME Len(adStdout) > 0, Promised(adStdout[Len(adStdout)])
      PROVE  LET t == adStdout[Len(adStdout)]
             IN  /\ AD!Value(t) \in 0..AD!Value(t)
                 /\ Dumped(adStdin, hexCols, t.dump, t.from, AD!Value(t))
                 /\ numRead = t.from + AD!Value(t)
    BY <1>1, <1>3, LastTag DEF IsCurrent
<1>4. CASE funcToCall' = "exit"
    <2>1. adErr' = 0 /\ numRead' = numRead /\ type' = type
        BY <1>1, <1>4
    <2>2. AdTypes'
        BY <1>1, <1>4, <2>1, AdSplit DEF AdTypes, AdFuncs
    <2>3. AdCurrent' /\ AdNone'
        BY <1>1, <1>3, <1>4, <2>1 DEF AdCurrent, AdNone, IsCurrent
    <2> QED
        BY <1>2, <2>2, <2>3, AdSplitNext
<1>5. CASE funcToCall' # "exit"
    <2>1. /\ numRead # Len(adStdin) /\ numRead' = numRead + 1
          /\ type' = adStdin[numRead + 1] % 32
          /\ funcToCall' = "asnLength" /\ adErr' = adErr
        BY <1>1, <1>5
    <2>2. /\ numRead \in Nat /\ numRead <= Len(adStdin) /\ Len(adStdin) \in Nat
          /\ adStdin \in OctetSeq
        BY AdSplit DEF AdTypes, OctetSeq
    <2>3. numRead' \in Nat /\ numRead' <= Len(adStdin)
        BY <2>1, <2>2
    <2>4. type' \in Nat
        <3>1. numRead + 1 \in 1..Len(adStdin)
            BY <2>1, <2>2
        <3>2. adStdin[numRead + 1] \in 0..255
            BY <2>2, <3>1, OctetsAre
        <3>3. \A x \in 0..255 : x % 32 \in Nat
            OBVIOUS
        <3> QED
            BY <2>1, <3>2, <3>3
    <2>5. AdTypes'
        BY <1>1, <2>1, <2>3, <2>4, AdSplit DEF AdTypes, AdFuncs
    <2>6. AdCurrent' /\ AdNone'
        BY <1>1, <1>3, <2>1 DEF AdCurrent, AdNone, IsCurrent
    <2> QED
        BY <1>2, <2>5, <2>6, AdSplitNext
<1> QED
    BY <1>4, <1>5

\* A length is at most four octets; what is read is there.
LEMMA AsnLengthReads ==
    ASSUME AdInv, AD!AsnLength
    PROVE  \E n \in Nat :
              /\ numRead' = numRead + n /\ numRead + n <= Len(adStdin)
              /\ \/ /\ n \in 1..4 /\ len' \in Int
                    /\ funcToCall' = "asnValue" /\ adErr' = adErr
                 \/ funcToCall' = "exit" /\ len' = len
<1> DEFINE tail == SubSeq(adStdin, numRead + 1, Len(adStdin))
           IsLast(k) == tail[k] < 128 \/ (k = 1 /\ tail[1] % 32 # 31)
           last == {k \in DOMAIN tail : IsLast(k)}
           n == AD!Min(last)
           all == AD!Min({Len(tail), 5})
<1>1. \/ /\ last # {} /\ n <= 4 /\ numRead' = numRead + n
         /\ len' = AD!LengthOf(SubSeq(tail, 1, n))
         /\ funcToCall' = "asnValue" /\ adErr' = adErr
      \/ numRead' = numRead + all /\ funcToCall' = "exit" /\ len' = len
    BY Zenon DEF AD!AsnLength, AD!Exit
<1>2. PICK m \in Nat : numRead + m = Len(adStdin)
    <2>1. /\ numRead \in Nat /\ numRead <= Len(adStdin) /\ Len(adStdin) \in Nat
        BY AdSplit DEF AdTypes, OctetSeq
    <2>2. Len(adStdin) - numRead \in Nat /\ numRead + (Len(adStdin) - numRead) = Len(adStdin)
        BY <2>1
    <2> QED
        BY <2>2
<1>3. adStdin \in OctetSeq /\ numRead \in Nat
    BY AdSplit DEF AdTypes
<1>4. tail \in OctetSeq /\ Len(tail) = m
    <2>1. IsPart(tail, adStdin, numRead, m)
        BY <1>2, <1>3 DEF IsPart
    <2> HIDE DEF tail
    <2> QED
        BY <1>3, <2>1, PartFacts
<1>5. all \in Nat /\ all <= m
    <2> HIDE DEF tail
    <2> QED
        BY <1>4, MinOfTwo
<1>6. last \in SUBSET (1..m)
    <2> HIDE DEF tail, IsLast
    <2> QED
        BY <1>4 DEF OctetSeq
<1> HIDE DEF tail, last, all
<1>7. CASE /\ last # {} /\ n <= 4 /\ numRead' = numRead + n
           /\ len' = AD!LengthOf(SubSeq(tail, 1, n))
           /\ funcToCall' = "asnValue" /\ adErr' = adErr
    <2>1. n \in last
        BY <1>6, <1>7, MinIsLeast
    <2>2. n \in 1..m
        BY <1>6, <2>1
    <2> HIDE DEF n
    <2>3. n \in Nat /\ n \in 1..4 /\ n <= m /\ 0 < n
        BY <1>7, <2>2
    <2>4. SubSeq(tail, 1, n) \in OctetSeq /\ Len(SubSeq(tail, 1, n)) = n
        <3> DEFINE x == SubSeq(tail, 1, n)
        <3>1. IsPart(x, tail, 0, n)
            BY <1>4, <2>3 DEF IsPart
        <3> HIDE DEF x
        <3>2. 0 \in Nat
            OBVIOUS
        <3>3. x \in OctetSeq /\ Len(x) = n
            BY <1>4, <2>3, <3>1, <3>2, PartFacts
        <3> QED
            BY <3>3 DEF x
    <2>5. len' \in Int
        <3> DEFINE x == SubSeq(tail, 1, n)
        <3>1. x \in OctetSeq /\ Len(x) > 0
            BY <2>3, <2>4
        <3>2. len' = AD!LengthOf(x)
            BY <1>7
        <3> HIDE DEF x
        <3> QED
            BY <3>1, <3>2, LengthIsInt
    <2>6. numRead + n <= Len(adStdin)
        BY <1>2, <1>3, <2>3
    <2> QED
        BY <1>7, <2>3, <2>5, <2>6
<1>8. CASE numRead' = numRead + all /\ funcToCall' = "exit" /\ len' = len
    <2>1. numRead + all <= Len(adStdin)
        BY <1>2, <1>3, <1>5
    <2> QED
        BY <1>5, <1>8, <2>1
<1> QED
    BY <1>1, <1>7, <1>8

LEMMA AsnLengthKeeps ==
    ASSUME AdInv, AD!AsnLength
    PROVE  AdInv'
<1>1. /\ funcToCall = "asnLength"
      /\ hexCols' = hexCols /\ adStdin' = adStdin /\ type' = type
      /\ remainValueBytes' = remainValueBytes /\ hexDumpOffs' = hexDumpOffs
      /\ innBuf' = innBuf /\ adStdout' = adStdout
    BY Zenon DEF AD!AsnLength
<1>2. AdPassed'
    BY <1>1, SamePrinted
<1>3. PICK n \in Nat :
         /\ numRead' = numRead + n /\ numRead + n <= Len(adStdin)
         /\ \/ /\ n \in 1..4 /\ len' \in Int
               /\ funcToCall' = "asnValue" /\ adErr' = adErr
            \/ funcToCall' = "exit" /\ len' = len
    BY AsnLengthReads
<1>4. numRead' \in Nat /\ len' \in Int /\ len \in Int /\ numRead \in Nat
    <2>1. numRead \in Nat /\ len \in Int
        BY AdSplit DEF AdTypes
    <2> QED
        BY <1>3, <2>1
<1>5. funcToCall' \in {"asnValue", "exit"}
    BY <1>3
<1>6. AdTypes'
    BY <1>1, <1>3, <1>4, <1>5, AdSplit DEF AdTypes, AdFuncs
<1>7. ASSUME Len(adStdout) > 0, Promised(adStdout[Len(adStdout)])
      PROVE  IsCurrent(adStdin, hexCols, adStdout[Len(adStdout)], funcToCall', numRead',
                       hexDumpOffs, remainValueBytes, innBuf, adErr')
    <2> DEFINE t == adStdout[Len(adStdout)]
    <2>1. /\ t \in AdTag /\ AD!Value(t) \in Nat
          /\ Dumped(adStdin, hexCols, t.dump, t.from, AD!Value(t))
          /\ numRead = t.from + AD!Value(t) + 1
        BY <1>1, <1>7, LastTag DEF IsCurrent
    <2>2. t.from \in Nat /\ AD!Value(t) \in 0..AD!Value(t)
        BY <2>1, TagFacts
    <2> HIDE DEF t
    <2>3. CASE funcToCall' = "asnValue"
        <3>1. n \in 1..4
            BY <1>3, <2>3
        <3> DEFINE x == t.from
                   v == AD!Value(t)
        <3>2. x \in Nat /\ v \in Nat /\ numRead' = x + v + 1 + n
            BY <1>3, <2>1, <2>2
        <3> HIDE DEF x, v
        <3>3. numRead' - (x + v) \in 2..5
            BY <3>1, <3>2
        <3> QED
            BY <2>1, <2>3, <3>3 DEF IsCurrent, x, v, t
    <2>4. CASE funcToCall' = "exit"
        BY <2>1, <2>2, <2>4 DEF IsCurrent, t
    <2> QED
        BY <1>5, <2>3, <2>4 DEF t
<1>8. AdCurrent' /\ AdNone'
    BY <1>1, <1>5, <1>7 DEF AdCurrent, AdNone
<1> QED
    BY <1>2, <1>6, <1>8, AdSplitNext

\* The last tag is followed by the one printed.
LEMMA AsnValueKeeps ==
    ASSUME AdInv, AD!AsnValue
    PROVE  AdInv'
<1> DEFINE new == [type |-> type, len |-> len, from |-> numRead, dump |-> <<>>]
           n == Len(adStdout)
<1>1. /\ funcToCall = "asnValue"
      /\ hexCols' = hexCols /\ adStdin' = adStdin /\ numRead' = numRead /\ type' = type
      /\ len' = len /\ innBuf' = innBuf /\ adErr' = adErr
      /\ adStdout' = Append(adStdout, new)
      /\ \/ /\ AD!IsDumped(type, len) /\ remainValueBytes' = len /\ hexDumpOffs' = 0
            /\ funcToCall' = "hexDump_readChunk"
         \/ /\ ~AD!IsDumped(type, len) /\ funcToCall' = "asnType"
            /\ remainValueBytes' = remainValueBytes /\ hexDumpOffs' = hexDumpOffs
    BY Zenon DEF AD!AsnValue
<1>2. /\ type \in Nat /\ len \in Int /\ numRead \in Nat /\ remainValueBytes \in Int
      /\ hexDumpOffs \in Nat /\ adStdout \in Seq(AdTag) /\ n \in Nat
    BY AdSplit DEF AdTypes
<1>3. /\ new \in AdTag /\ new.from = numRead /\ new.dump = <<>>
      /\ AD!Value(new) = IF AD!IsDumped(type, len) THEN len ELSE 0
    <2>1. <<>> \in Seq(AdLine)
        OBVIOUS
    <2>2. new \in AdTag /\ new.from = numRead /\ new.dump = <<>> /\ new.type = type /\ new.len = len
        BY <1>2, <2>1 DEF AdTag
    <2> HIDE DEF new
    <2> QED
        BY <2>2 DEF AD!Value
<1> HIDE DEF new
<1>4. /\ adStdout' \in Seq(AdTag) /\ Len(adStdout') = n + 1 /\ adStdout'[n + 1] = new
      /\ \A i \in 1..n : adStdout'[i] = adStdout[i]
    BY <1>1, <1>2, <1>3
<1>5. /\ remainValueBytes' \in Int /\ hexDumpOffs' \in Nat
      /\ funcToCall' \in {"asnType", "hexDump_readChunk"}
    BY <1>1, <1>2
<1>6. AdTypes'
    BY <1>1, <1>4, <1>5, AdSplit DEF AdTypes, AdFuncs
<1>7. ASSUME n > 0 PROVE IsPassed(adStdin, hexCols, adStdout[n], numRead)
    <2> SUFFICES ASSUME Promised(adStdout[n])
                 PROVE  /\ Dumped(adStdin, hexCols, adStdout[n].dump, adStdout[n].from,
                                  AD!Value(adStdout[n]))
                        /\ numRead - (adStdout[n].from + AD!Value(adStdout[n])) \in 2..5
        BY DEF IsPassed
    <2> QED
        BY <1>1, <1>7, LastTag DEF IsCurrent
<1>8. AdPassed'
    <2> SUFFICES ASSUME NEW i \in 1..(Len(adStdout') - 1)
                 PROVE  IsPassed(adStdin', hexCols', adStdout'[i], adStdout'[i + 1].from)
        BY DEF AdPassed
    <2>1. i \in 1..n /\ adStdout'[i] = adStdout[i] /\ (i = n \/ i \in 1..(n - 1)) /\ n > 0
        BY <1>2, <1>4
    <2>2. CASE i = n
        BY <1>1, <1>3, <1>4, <1>7, <2>1, <2>2
    <2>3. CASE i \in 1..(n - 1)
        <3>1. i + 1 \in 1..n
            BY <1>2, <2>3
        <3>2. adStdout'[i + 1] = adStdout[i + 1]
            BY <1>4, <3>1
        <3>3. IsPassed(adStdin, hexCols, adStdout[i], adStdout[i + 1].from)
            BY <2>3, AdSplit DEF AdPassed
        <3> QED
            BY <1>1, <2>1, <3>2, <3>3
    <2> QED
        BY <2>1, <2>2, <2>3
<1>9. Dumped(adStdin, hexCols, <<>>, numRead, 0)
    BY DEF Dumped, AD!ShowsInOrder, AD!Shown
<1>10. ASSUME Promised(new)
       PROVE  IsCurrent(adStdin, hexCols, new, funcToCall', numRead, hexDumpOffs',
                        remainValueBytes', innBuf, adErr)
    <2>1. CASE AD!IsDumped(type, len)
        <3>1. len > 0
            BY <1>2, <1>3, <1>10, <2>1 DEF Promised, AD!IsDumped
        <3> QED
            BY <1>1, <1>2, <1>3, <1>9, <2>1, <3>1 DEF IsCurrent
    <2>2. CASE ~AD!IsDumped(type, len)
        BY <1>1, <1>2, <1>3, <1>9, <2>2 DEF IsCurrent
    <2> QED
        BY <2>1, <2>2
<1>11. AdCurrent' /\ AdNone'
    BY <1>1, <1>2, <1>4, <1>10 DEF AdCurrent, AdNone
<1> QED
    BY <1>6, <1>8, <1>11, AdSplitNext

LEMMA MinusFacts ==
    ASSUME NEW a \in Int, NEW n \in Nat
    PROVE  AD!Minus(a, n) \in Int /\ (a >= 0 => AD!Minus(a, n) = a - n)
<1>1. AD!MaxInt \in Int
    BY DEF AD!MaxInt
<1> DEFINE M == AD!MaxInt
<1>2. AD!Minus(a, n) = IF a < 0 /\ a + M + 1 < n THEN (a + M + 1) - n + 1 + M ELSE a - n
    BY Zenon DEF AD!Minus
<1>3. M \in Int
    BY <1>1
<1> HIDE DEF M
<1> QED
    BY <1>2, <1>3

\* What fread() delivers of a value that has an end.
LEMMA DeliveredFacts ==
    ASSUME AdTypes, funcToCall # "exit"
    PROVE  /\ \A n \in AD!Delivered : n \in Nat /\ numRead + n <= Len(adStdin)
           /\ remainValueBytes >= 0 => \A n \in AD!Delivered : n <= remainValueBytes
<1> DEFINE r == Len(adStdin) - numRead
           x == AD!Min({AD!ReadLen, r})
           y == AD!Min({r, InnBufCap})
<1>1. r \in Nat /\ numRead \in Nat /\ remainValueBytes \in Int /\ InnBufCap \in Nat
      /\ Len(adStdin) \in Nat /\ numRead + r = Len(adStdin)
    BY Asn1Assumption DEF AdTypes, OctetSeq
<1>2. AD!Delivered = IF remainValueBytes >= 0 THEN {x} ELSE IF r = 0 THEN {0} ELSE 1..y
    BY Zenon DEF AD!Delivered, AD!Rest
<1>3. ASSUME remainValueBytes >= 0
      PROVE  x \in Nat /\ x <= r /\ x <= remainValueBytes
    <2> DEFINE a == AD!ReadLen
    <2>1. a \in Nat /\ a <= remainValueBytes
        BY <1>3, ReadLenFacts
    <2> HIDE DEF a, r
    <2>2. AD!Min({a, r}) \in Nat /\ AD!Min({a, r}) <= a /\ AD!Min({a, r}) <= r
        BY <1>1, <2>1, MinOfTwo
    <2>3. x = AD!Min({a, r})
        BY DEF a
    <2> HIDE DEF x
    <2> QED
        BY <1>1, <2>1, <2>2, <2>3
<1> HIDE DEF x, r
<1>4. y \in Nat /\ y <= r
    BY <1>1, MinOfTwo
<1> HIDE DEF y
<1>5. CASE remainValueBytes >= 0
    <2>1. AD!Delivered = {x}
        BY <1>2, <1>5
    <2> QED
        BY <1>1, <1>3, <1>5, <2>1
<1>6. CASE ~(remainValueBytes >= 0)
    <2>1. ASSUME NEW n \in AD!Delivered PROVE n \in Nat /\ n <= r
        <3>1. n \in (IF r = 0 THEN {0} ELSE 1..y)
            BY <1>2, <1>6
        <3> QED
            BY <1>1, <1>4, <3>1
    <2> QED
        BY <1>1, <1>6, <2>1
<1> QED
    BY <1>5, <1>6

LEMMA ReadChunkKeeps ==
    ASSUME AdInv, AD!HexDump_readChunk
    PROVE  AdInv'
<1> DEFINE t == adStdout[Len(adStdout)]
<1>1. PICK n \in AD!Delivered :
      /\ funcToCall = "hexDump_readChunk"
      /\ hexCols' = hexCols /\ adStdin' = adStdin /\ type' = type /\ len' = len
      /\ hexDumpOffs' = hexDumpOffs /\ adStdout' = adStdout
      /\ \/ /\ n = 0 /\ funcToCall' = "exit"
            /\ adErr' = IF remainValueBytes > 0 THEN 1 ELSE 0
            /\ numRead' = numRead /\ innBuf' = innBuf /\ remainValueBytes' = remainValueBytes
         \/ /\ n # 0
            /\ innBuf' = SubSeq(adStdin, numRead + 1, numRead + n)
            /\ numRead' = numRead + n /\ remainValueBytes' = AD!Minus(remainValueBytes, n)
            /\ funcToCall' = "hexDump_dumpFromBuf" /\ adErr' = adErr
    BY Zenon DEF AD!HexDump_readChunk, AD!Exit
<1>2. AdPassed'
    BY <1>1, SamePrinted
<1>3. ASSUME Promised(t)
      PROVE  /\ t \in AdTag /\ AD!Value(t) \in Nat
             /\ Dumped(adStdin, hexCols, t.dump, t.from, hexDumpOffs)
             /\ numRead = t.from + hexDumpOffs
             /\ AD!Value(t) = hexDumpOffs + remainValueBytes /\ remainValueBytes > 0
    <2>1. Len(adStdout) > 0
        BY <1>1, AdSplit DEF AdNone, AdTypes
    <2> QED
        BY <1>1, <1>3, <2>1, LastTag DEF IsCurrent
<1>4. /\ numRead \in Nat /\ remainValueBytes \in Int /\ hexDumpOffs \in Nat
      /\ adStdin \in OctetSeq /\ numRead <= Len(adStdin) /\ Len(adStdin) \in Nat
      /\ Len(adStdout) > 0
    BY <1>1, AdSplit DEF AdTypes, OctetSeq, AdNone
<1>5. /\ n \in Nat /\ numRead + n <= Len(adStdin)
      /\ remainValueBytes >= 0 => n <= remainValueBytes
    BY <1>1, AdSplit, DeliveredFacts
<1> HIDE DEF t
<1>6. CASE n = 0
    <2>1. /\ funcToCall' = "exit" /\ adErr' = IF remainValueBytes > 0 THEN 1 ELSE 0
          /\ numRead' = numRead /\ innBuf' = innBuf /\ remainValueBytes' = remainValueBytes
        BY <1>1, <1>6
    <2>2. AdTypes'
        BY <1>1, <2>1, AdSplit DEF AdTypes, AdFuncs
    <2>3. ASSUME Promised(t)
          PROVE  IsCurrent(adStdin, hexCols, t, "exit", numRead, hexDumpOffs, remainValueBytes,
                           innBuf, adErr')
        <3>1. hexDumpOffs \in 0..AD!Value(t)
            BY <1>3, <1>4, <2>3
        <3>2. adErr' = 1
            BY <1>3, <2>1, <2>3
        <3> QED
            BY <1>3, <2>3, <3>1, <3>2 DEF IsCurrent
    <2>4. AdCurrent' /\ AdNone'
        BY <1>1, <2>1, <2>3 DEF AdCurrent, AdNone, t
    <2> QED
        BY <1>2, <2>2, <2>4, AdSplitNext
<1>7. CASE n # 0
    <2>1. /\ innBuf' = SubSeq(adStdin, numRead + 1, numRead + n)
          /\ numRead' = numRead + n /\ remainValueBytes' = AD!Minus(remainValueBytes, n)
          /\ funcToCall' = "hexDump_dumpFromBuf" /\ adErr' = adErr
        BY <1>1, <1>7
    <2>2. PICK rem \in Int :
             /\ remainValueBytes' = rem
             /\ remainValueBytes >= 0 => rem >= 0 /\ remainValueBytes = n + rem
        <3>1. /\ AD!Minus(remainValueBytes, n) \in Int
              /\ remainValueBytes >= 0 => AD!Minus(remainValueBytes, n) = remainValueBytes - n
            BY <1>4, <1>5, MinusFacts
        <3> QED
            BY <1>4, <1>5, <2>1, <3>1
    <2>3. PICK b \in OctetSeq : innBuf' = b /\ IsPart(b, adStdin, numRead, n) /\ Len(b) = n
        <3> DEFINE x == SubSeq(adStdin, numRead + 1, numRead + n)
        <3>1. IsPart(x, adStdin, numRead, n)
            BY <1>5 DEF IsPart
        <3>2. innBuf' = x
            BY <2>1
        <3> HIDE DEF x
        <3>3. x \in OctetSeq /\ Len(x) = n
            BY <1>4, <1>5, <3>1, PartFacts
        <3> QED
            BY <3>1, <3>2, <3>3
    <2>4. numRead' \in Nat /\ numRead' <= Len(adStdin)
        BY <1>4, <1>5, <2>1
    <2>5. AdTypes'
        <3>1. innBuf' \in OctetSeq /\ Len(innBuf') > 0
            BY <1>5, <1>7, <2>3
        <3>2. remainValueBytes' \in Int /\ funcToCall' = "hexDump_dumpFromBuf"
            BY <2>1, <2>2
        <3>3. /\ funcToCall # "exit" /\ hexCols' = hexCols /\ adStdin' = adStdin
              /\ type' = type /\ len' = len /\ hexDumpOffs' = hexDumpOffs
              /\ adStdout' = adStdout
            BY <1>1
        <3> QED
            BY <2>4, <3>1, <3>2, <3>3, AdSplit DEF AdTypes, AdFuncs
    <2>6. ASSUME Promised(t)
          PROVE  IsCurrent(adStdin, hexCols, t, "hexDump_dumpFromBuf", numRead', hexDumpOffs,
                           rem, b, adErr)
        <3>1. /\ numRead' = (t.from + hexDumpOffs) + Len(b)
              /\ IsPart(b, adStdin, t.from + hexDumpOffs, Len(b))
            BY <1>3, <2>1, <2>3, <2>6
        <3>2. AD!Value(t) = (hexDumpOffs + Len(b)) + rem /\ rem >= 0
            BY <1>3, <1>4, <1>5, <2>2, <2>3, <2>6
        <3> QED
            BY <1>3, <2>6, <3>1, <3>2, Zenon DEF IsCurrent
    <2>7. /\ hexCols' = hexCols /\ adStdin' = adStdin /\ hexDumpOffs' = hexDumpOffs
          /\ adStdout' = adStdout /\ Len(adStdout) > 0
          /\ funcToCall' = "hexDump_dumpFromBuf" /\ adErr' = adErr
          /\ remainValueBytes' = rem /\ innBuf' = b
        BY <1>1, <1>4, <2>1, <2>2, <2>3
    <2>8. AdCurrent'
        BY <2>6, <2>7 DEF AdCurrent, t
    <2>9. AdNone'
        BY <1>4, <2>7 DEF AdNone
    <2> QED
        BY <1>2, <2>5, <2>8, <2>9, AdSplitNext
<1> QED
    BY <1>6, <1>7

\* Only a value without an end leaves the buffer.
LEMMA OverrunKeeps ==
    ASSUME AdInv, AD!Overrun
    PROVE  AdInv'
<1>1. /\ funcToCall = "hexDump_readChunk" /\ remainValueBytes < 0
      /\ funcToCall' = "overrun"
      /\ hexCols' = hexCols /\ adStdin' = adStdin /\ numRead' = numRead /\ type' = type
      /\ len' = len /\ remainValueBytes' = remainValueBytes /\ hexDumpOffs' = hexDumpOffs
      /\ innBuf' = innBuf /\ adStdout' = adStdout /\ adErr' = adErr
    BY DEF AD!Overrun
<1>2. AdTypes'
    BY <1>1, AdSplit DEF AdTypes, AdFuncs
<1>3. AdPassed'
    BY <1>1, SamePrinted
<1>4. Len(adStdout) > 0
    BY <1>1, AdSplit DEF AdNone, AdTypes
<1>5. ~Promised(adStdout[Len(adStdout)])
    <2> SUFFICES ASSUME Promised(adStdout[Len(adStdout)]) PROVE FALSE
        OBVIOUS
    <2>1. remainValueBytes > 0 /\ remainValueBytes \in Int
        BY <1>1, <1>4, LastTag, AdSplit DEF IsCurrent, AdTypes
    <2> QED
        BY <1>1, <2>1
<1>6. AdCurrent' /\ AdNone'
    BY <1>1, <1>4, <1>5 DEF AdCurrent, AdNone
<1> QED
    BY <1>2, <1>3, <1>6, AdSplitNext

\* The chunk is added to the dump of the last tag.
LEMMA DumpFromBufKeeps ==
    ASSUME AdInv, AD!HexDump_dumpFromBuf
    PROVE  AdInv'
<1> DEFINE m == Len(adStdout)
           t == adStdout[m]
           b == Len(innBuf)
           d == t.dump \o LinesOf(innBuf, hexDumpOffs, hexCols)
           u == [t EXCEPT !.dump = d]
<1>1. /\ funcToCall = "hexDump_dumpFromBuf"
      /\ hexCols' = hexCols /\ adStdin' = adStdin /\ numRead' = numRead /\ type' = type
      /\ len' = len /\ remainValueBytes' = remainValueBytes /\ innBuf' = innBuf
      /\ adErr' = adErr
      /\ hexDumpOffs' = hexDumpOffs + b
      /\ funcToCall' = IF remainValueBytes = 0 THEN "asnType" ELSE "hexDump_readChunk"
    BY Zenon DEF AD!HexDump_dumpFromBuf, AD!OffsAfter
<1>2. adStdout' = [adStdout EXCEPT ![m] = u]
    BY LinesAre DEF AD!HexDump_dumpFromBuf
<1>3. /\ adStdout \in Seq(AdTag) /\ m \in Nat /\ hexCols \in 1..48 /\ adStdin \in OctetSeq
      /\ hexDumpOffs \in Nat /\ remainValueBytes \in Int /\ b \in Nat \ {0} /\ innBuf \in OctetSeq 
      /\ numRead \in Nat
    BY <1>1, AdSplit DEF AdTypes, OctetSeq
<1>4. m > 0 /\ t \in AdTag
    <2>1. m > 0
        BY <1>1, <1>3, AdSplit DEF AdNone
    <2> QED
        BY <1>3, <2>1
<1>5. ASSUME Promised(t)
      PROVE  /\ AD!Value(t) \in Nat
             /\ Dumped(adStdin, hexCols, t.dump, t.from, hexDumpOffs)
             /\ IsPart(innBuf, adStdin, t.from + hexDumpOffs, b)
             /\ numRead = (t.from + hexDumpOffs) + b
             /\ AD!Value(t) = (hexDumpOffs + b) + remainValueBytes /\ remainValueBytes >= 0
    BY <1>1, <1>4, <1>5, LastTag DEF IsCurrent
<1>6. /\ t.from \in Nat /\ d \in Seq(AdLine)
      /\ Promised(t) => Dumped(adStdin, hexCols, d, t.from, hexDumpOffs + b)
    <2> DEFINE L == LinesOf(innBuf, hexDumpOffs, hexCols)
    <2>1. L \in Seq(AdLine)
        <3>1. /\ hexDumpOffs \in Nat /\ hexCols \in 1..48 /\ innBuf \in OctetSeq
              /\ Len(innBuf) > 0
            BY <1>3
        <3> HIDE DEF t, b, d
        <3> QED
            BY <3>1, LinesTyped
    <2>2. t.from \in Nat /\ t.dump \in Seq(AdLine)
        BY <1>4, TagFacts
    <2>3. d \in Seq(AdLine)
        <3> HIDE DEF L
        <3> QED
            BY <2>1, <2>2 DEF L
    <2> HIDE DEF t, b, d
    <2>4. ASSUME Promised(t)
          PROVE  Dumped(adStdin, hexCols, d, t.from, hexDumpOffs + b)
        BY <1>3, <1>5, <2>2, <2>4, DumpGrows DEF d
    <2> QED
        BY <2>2, <2>3, <2>4
<1> HIDE DEF d
<1>7. /\ u \in AdTag /\ u.from = t.from /\ u.dump = d /\ u.type = t.type /\ u.len = t.len
    BY <1>4, <1>6 DEF AdTag
<1>8. AD!Value(u) = AD!Value(t) /\ (Promised(u) <=> Promised(t))
    BY <1>7 DEF AD!Value, Promised
<1> HIDE DEF u
<1>9. /\ adStdout' \in Seq(AdTag) /\ Len(adStdout') = m /\ adStdout'[m] = u
      /\ \A i \in 1..(m - 1) : adStdout'[i] = adStdout[i]
    BY <1>2, <1>3, <1>4, <1>7
<1>10. hexDumpOffs' \in Nat /\ funcToCall' \in {"asnType", "hexDump_readChunk"}
    BY <1>1, <1>3
<1>11. AdTypes'
    BY <1>1, <1>9, <1>10, AdSplit DEF AdTypes, AdFuncs
<1>12. AdPassed'
    <2> SUFFICES ASSUME NEW i \in 1..(Len(adStdout') - 1)
                 PROVE  IsPassed(adStdin', hexCols', adStdout'[i], adStdout'[i + 1].from)
        BY DEF AdPassed
    <2>1. i \in 1..(m - 1) /\ (i + 1 = m \/ i + 1 \in 1..(m - 1))
        BY <1>3, <1>9
    <2>2. adStdout'[i] = adStdout[i] /\ adStdout'[i + 1].from = adStdout[i + 1].from
        <3>1. CASE i + 1 = m
            BY <1>7, <1>9, <2>1, <3>1
        <3>2. CASE i + 1 \in 1..(m - 1)
            BY <1>9, <2>1, <3>2
        <3> QED
            BY <2>1, <3>1, <3>2
    <2>3. IsPassed(adStdin, hexCols, adStdout[i], adStdout[i + 1].from)
        BY <2>1, AdSplit DEF AdPassed
    <2> QED
        BY <1>1, <2>2, <2>3
<1> HIDE DEF t, b, m
<1>13. ASSUME Promised(u)
       PROVE  IsCurrent(adStdin, hexCols, u, funcToCall', numRead, hexDumpOffs + b,
                        remainValueBytes, innBuf, adErr)
    <2>1. numRead = u.from + (hexDumpOffs + b)
        BY <1>3, <1>5, <1>6, <1>7, <1>8, <1>13
    <2>2. Dumped(adStdin, hexCols, u.dump, u.from, hexDumpOffs + b)
        BY <1>6, <1>7, <1>8, <1>13
    <2>3. AD!Value(u) = (hexDumpOffs + b) + remainValueBytes /\ remainValueBytes >= 0
        BY <1>5, <1>8, <1>13
    <2>4. CASE remainValueBytes = 0
        <3>1. AD!Value(u) = hexDumpOffs + b
            BY <1>3, <2>3, <2>4
        <3> QED
            BY <1>1, <2>1, <2>2, <2>4, <3>1 DEF IsCurrent
    <2>5. CASE remainValueBytes # 0
        <3>1. remainValueBytes > 0
            BY <1>3, <2>3, <2>5
        <3> QED
            BY <1>1, <2>1, <2>2, <2>3, <2>5, <3>1 DEF IsCurrent
    <2> QED
        BY <2>4, <2>5
<1>14. AdCurrent' /\ AdNone'
    BY <1>1, <1>4, <1>9, <1>13 DEF AdCurrent, AdNone
<1> QED
    BY <1>11, <1>12, <1>14, AdSplitNext

LEMMA AdStutters ==
    ASSUME AdInv, UNCHANGED adVars
    PROVE  AdInv'
<1>1. /\ funcToCall' = funcToCall /\ hexCols' = hexCols /\ adStdin' = adStdin
      /\ numRead' = numRead /\ type' = type /\ len' = len
      /\ remainValueBytes' = remainValueBytes /\ hexDumpOffs' = hexDumpOffs
      /\ innBuf' = innBuf /\ adStdout' = adStdout /\ adErr' = adErr
    BY DEF adVars
<1>2. AdTypes'
    BY <1>1, AdSplit DEF AdTypes
<1>3. AdPassed'
    BY <1>1, SamePrinted
<1>4. AdCurrent' /\ AdNone'
    BY <1>1, AdSplit DEF AdCurrent, AdNone
<1> QED
    BY <1>2, <1>3, <1>4, AdSplitNext

LEMMA AdInit == AD!Init => AdInv
<1> SUFFICES ASSUME AD!Init PROVE AdInv
    OBVIOUS
<1>1. /\ funcToCall = IF hexCols <= 0 THEN "exit" ELSE "asnType"
      /\ adStdin \in Asn1Documents /\ numRead = 0 /\ type = 0 /\ len = 0
      /\ remainValueBytes = 0 /\ hexDumpOffs = 0 /\ innBuf = <<>> /\ adStdout = <<>>
    BY DEF AD!Init
<1>2. hexCols \in 1..48 \cup {0, -1}
    <2>1. PICK argv \in AD!Argvs : hexCols = AD!ParseArgs(argv)
        BY DEF AD!Init
    <2> QED
        BY <2>1 DEF AD!ParseArgs
<1>3. funcToCall \in {"exit", "asnType"} /\ (funcToCall # "exit" => hexCols \in 1..48)
    BY <1>1, <1>2
<1>4. /\ adStdin \in OctetSeq /\ numRead \in Nat /\ numRead <= Len(adStdin)
      /\ innBuf \in OctetSeq /\ adStdout \in Seq(AdTag)
    <2>1. adStdin \in OctetSeq
        BY <1>1, Asn1Assumption DEF OctetSeq
    <2>2. Len(adStdin) \in Nat
        BY <2>1 DEF OctetSeq
    <2> QED
        BY <1>1, <2>1, <2>2 DEF OctetSeq
<1>5. AdTypes
    BY <1>1, <1>3, <1>4 DEF AdTypes, AdFuncs
<1>6. Len(adStdout) = 0
    BY <1>1
<1>7. AdPassed /\ AdCurrent /\ AdNone
    BY <1>3, <1>6 DEF AdPassed, AdCurrent, AdNone
<1> QED
    BY <1>5, <1>7 DEF AdInv

LEMMA AdStep ==
    ASSUME AdInv, AD!Next \/ UNCHANGED adVars
    PROVE  AdInv'
<1>1. CASE AD!ReadError
    BY <1>1, ReadErrorKeeps
<1>2. CASE AD!AsnType
    BY <1>2, AsnTypeKeeps
<1>3. CASE AD!AsnLength
    BY <1>3, AsnLengthKeeps
<1>4. CASE AD!AsnValue
    BY <1>4, AsnValueKeeps
<1>5. CASE AD!HexDump_readChunk
    BY <1>5, ReadChunkKeeps
<1>6. CASE AD!HexDump_dumpFromBuf
    BY <1>6, DumpFromBufKeeps
<1>7. CASE AD!Ended
    BY <1>7, AdStutters DEF AD!Ended, AD!adVars, adVars
<1>8. CASE UNCHANGED adVars
    BY <1>8, AdStutters
<1>9. CASE AD!Overrun
    BY <1>9, OverrunKeeps
<1> QED
    BY <1>1, <1>2, <1>3, <1>4, <1>5, <1>6, <1>7, <1>8, <1>9 DEF AD!Next

LEMMA AdFollowsInput == AdInv => AD!DumpFollowsInput
<1> SUFFICES ASSUME AdInv PROVE AD!DumpFollowsInput
    OBVIOUS
<1>1. adStdout \in Seq(AdTag) /\ Len(adStdout) \in Nat
    BY AdSplit DEF AdTypes
<1>2. ASSUME NEW i \in DOMAIN adStdout, AD!Value(adStdout[i]) >= 0
      PROVE  LET t == adStdout[i]
             IN  /\ AD!ShowsInOrder(adStdin, hexCols, t.from, t.dump)
                 /\ AD!Shown(t.dump) <= AD!Value(t)
                 /\ i < Len(adStdout) \/ (funcToCall = "exit" /\ adErr = 0) =>
                       AD!Shown(t.dump) = AD!Value(t)
                 /\ i < Len(adStdout) =>
                       adStdout[i+1].from - (t.from + AD!Value(t)) \in 2..5
    <2> DEFINE t == adStdout[i]
               v == AD!Value(t)
    <2>1. i \in 1..Len(adStdout)
        BY <1>1
    <2>2. v \in Nat /\ Promised(t)
        <3>1. Promised(t)
            BY <1>2 DEF Promised
        <3> QED
            BY <1>1, <2>1, <3>1, TagFacts
    <2>3. v \in 0..v
        BY <2>2
    <2>4. CASE i < Len(adStdout)
        <3>1. i \in 1..(Len(adStdout) - 1)
            BY <1>1, <2>1, <2>4
        <3>2. /\ Dumped(adStdin, hexCols, t.dump, t.from, v)
              /\ adStdout[i + 1].from - (t.from + v) \in 2..5
            BY <2>2, <3>1, AdSplit DEF AdPassed, IsPassed
        <3> HIDE DEF t, v
        <3> QED
            BY <2>3, <3>2 DEF Dumped, t, v
    <2>5. CASE i = Len(adStdout)
        <3>1. Len(adStdout) > 0
            BY <1>1, <2>1
        <3>2. /\ IsCurrent(adStdin, hexCols, t, funcToCall, numRead, hexDumpOffs,
                           remainValueBytes, innBuf, adErr)
              /\ ~(i < Len(adStdout))
            BY <1>1, <2>1, <2>2, <2>5, <3>1, LastTag
        <3>3. /\ funcToCall \in AdFuncs /\ hexDumpOffs \in Nat /\ remainValueBytes \in Int
              /\ Len(innBuf) \in Nat
            BY AdSplit DEF AdTypes, OctetSeq
        <3> HIDE DEF t, v
        <3>4. \E c \in 0..v : /\ Dumped(adStdin, hexCols, t.dump, t.from, c)
                              /\ funcToCall = "exit" /\ adErr = 0 => c = v
            <4>1. CASE funcToCall \in {"asnType", "asnLength", "asnValue"}
                <5>1. Dumped(adStdin, hexCols, t.dump, t.from, v)
                    BY <3>2, <4>1 DEF IsCurrent, v
                <5> QED
                    BY <2>3, <5>1
            <4>2. CASE funcToCall \in {"hexDump_readChunk", "hexDump_dumpFromBuf"}
                <5>1. Dumped(adStdin, hexCols, t.dump, t.from, hexDumpOffs)
                    BY <3>2, <4>2 DEF IsCurrent
                <5>2. \/ v = hexDumpOffs + remainValueBytes /\ remainValueBytes > 0
                      \/ v = (hexDumpOffs + Len(innBuf)) + remainValueBytes /\ remainValueBytes >= 0
                    BY <3>2, <4>2 DEF IsCurrent, v
                <5>3. hexDumpOffs \in 0..v
                    BY <2>2, <3>3, <5>2
                <5>4. funcToCall # "exit"
                    BY <4>2
                <5> QED
                    BY <5>1, <5>3, <5>4
            <4>3. CASE funcToCall = "exit"
                BY <3>2, <4>3 DEF IsCurrent, v
            <4>4. funcToCall # "overrun"
                BY <3>2 DEF IsCurrent
            <4> QED
                BY <3>3, <4>1, <4>2, <4>3, <4>4 DEF AdFuncs
        <3>5. PICK c \in 0..v : /\ Dumped(adStdin, hexCols, t.dump, t.from, c)
                                /\ funcToCall = "exit" /\ adErr = 0 => c = v
            BY <3>4
        <3>6. /\ AD!ShowsInOrder(adStdin, hexCols, t.from, t.dump)
              /\ AD!Shown(t.dump) = c /\ c <= v
            BY <2>2, <3>5 DEF Dumped
        <3> QED
            BY <3>2, <3>5, <3>6 DEF t, v
    <2> QED
        BY <1>1, <2>1, <2>4, <2>5
<1>3. funcToCall = "overrun" => AD!Value(adStdout[Len(adStdout)]) < 0
    <2> SUFFICES ASSUME funcToCall = "overrun"
                 PROVE  AD!Value(adStdout[Len(adStdout)]) < 0
        OBVIOUS
    <2>1. Len(adStdout) > 0
        BY <1>1, AdSplit DEF AdNone
    <2>2. ~Promised(adStdout[Len(adStdout)])
        BY <2>1, AdSplit DEF AdCurrent, IsCurrent
    <2>3. adStdout[Len(adStdout)] \in AdTag
        BY <1>1, <2>1
    <2> QED
        BY <2>2, <2>3, TagFacts DEF Promised
<1> QED
    BY <1>2, <1>3, Zenon DEF AD!DumpFollowsInput

-----------------------------------------------------------------------------
(* PemCodec.c                                                              *)

\* Counting up to the next place.
LEMMA RankUpTo ==
    ASSUME NEW n \in Nat, NEW S \in SUBSET (1..n), NEW k \in Nat
    PROVE  /\ PC!Rank(S, k) \in 0..Cardinality(S) /\ Cardinality(S) \in Nat
           /\ k + 1 \in S => PC!Rank(S, k + 1) = PC!Rank(S, k) + 1
           /\ k + 1 \notin S => PC!Rank(S, k + 1) = PC!Rank(S, k)
           /\ (\A i \in S : i <= k) => PC!Rank(S, k) = Cardinality(S)
           /\ (\A i \in S : i > k) => PC!Rank(S, k) = 0
<1> DEFINE Upto(j) == {m \in S : m <= j}
<1>1. IsFiniteSet(S) /\ Cardinality(S) \in Nat
    BY RankFacts
<1>2. \A T, j : PC!Rank(T, j) = Cardinality({m \in T : m <= j}) /\ CL!Rank(T, j) = PC!Rank(T, j)
    BY SameCardinality DEF PC!Rank, CL!Rank, PC!Cardinality, Cardinality
<1>3. \A j : Upto(j) \in SUBSET S
    OBVIOUS
<1>4. Upto(k + 1) = IF k + 1 \in S THEN Upto(k) \cup {k + 1} ELSE Upto(k)
    <2>1. \A m \in S : m \in Nat
        OBVIOUS
    <2>2. \A m \in S : m <= k + 1 <=> m <= k \/ m = k + 1
        BY <2>1
    <2> QED
        BY <2>2
<1>5. k + 1 \notin Upto(k)
    OBVIOUS
<1>6. \A j : PC!Rank(S, j) = Cardinality(Upto(j))
    BY <1>2
<1>7. /\ (\A i \in S : i <= k) => Upto(k) = S
      /\ (\A i \in S : i > k) => Upto(k) = {}
    <2>1. \A m \in S : m \in Nat
        OBVIOUS
    <2>2. \A m \in S : ~(m <= k /\ m > k)
        BY <2>1
    <2> QED
        BY <2>2
<1> HIDE DEF Upto
<1>8. \A j : /\ IsFiniteSet(Upto(j)) /\ Cardinality(Upto(j)) \in Nat
             /\ Cardinality(Upto(j)) <= Cardinality(S)
    BY <1>1, <1>3, FS_Subset, FS_CardinalityType
<1>9. k + 1 \in S => Cardinality(Upto(k + 1)) = Cardinality(Upto(k)) + 1
    BY <1>4, <1>5, <1>8, FS_AddElement
<1>10. k + 1 \notin S => Cardinality(Upto(k + 1)) = Cardinality(Upto(k))
    BY <1>4
<1>11. PC!Rank(S, k) \in 0..Cardinality(S)
    BY <1>1, <1>6, <1>8
<1>12. /\ (\A i \in S : i <= k) => PC!Rank(S, k) = Cardinality(S)
       /\ (\A i \in S : i > k) => PC!Rank(S, k) = 0
    BY <1>6, <1>7, FS_EmptySet
<1> QED
    BY <1>1, <1>6, <1>9, <1>10, <1>11, <1>12

\* PemCodec and CRLFtoLFOutputStream count places in the same way.
LEMMA PlacesCounted ==
    ASSUME NEW n \in Nat, NEW S \in SUBSET (1..n)
    PROVE  /\ Cardinality(S) \in Nat
           /\ \A k \in S : /\ PC!Rank(S, k) \in 1..Cardinality(S)
                          /\ PC!Nth(S, PC!Rank(S, k)) = k
           /\ \A i \in 1..Cardinality(S) : PC!Nth(S, i) \in S
<1>1. \A T, j : CL!Rank(T, j) = PC!Rank(T, j)
    BY SameCardinality DEF PC!Rank, CL!Rank, PC!Cardinality, Cardinality
<1>2. \A i : PC!Nth(S, i) = CL!Nth(S, i)
    BY <1>1, Zenon DEF PC!Nth, CL!Nth
<1>3. Cardinality(S) \in Nat /\ \A k \in S : CL!Rank(S, k) \in 1..Cardinality(S)
    BY RankFacts
<1>4. /\ \A i \in 1..Cardinality(S) : CL!Nth(S, i) \in S
      /\ \A k \in S : CL!Nth(S, CL!Rank(S, k)) = k
    BY NthFacts
<1>5. \A k \in S : PC!Nth(S, PC!Rank(S, k)) = k
    BY <1>1, <1>2, <1>4, Zenon
<1> QED
    BY <1>1, <1>2, <1>3, <1>4, <1>5, Zenon

\* No place is as low as k.
LEMMA RankBelow ==
    ASSUME NEW n \in Nat, NEW S \in SUBSET (1..n), NEW k \in Nat, \A i \in S : i > k
    PROVE  PC!Rank(S, k) = 0
BY RankUpTo

\* The first line ends once.
LEMMA OneFirstLine ==
    ASSUME NEW f \in Nat, NEW g \in Nat, f > 0, g > 0,
           PC!EndsFirstLine(f), PC!EndsFirstLine(g)
    PROVE  f = g
<1>1. f < g => f \in 1..(g - 1)
    OBVIOUS
<1>2. g < f => g \in 1..(f - 1)
    OBVIOUS
<1>3. ~(f < g) /\ ~(g < f)
    BY <1>1, <1>2 DEF PC!EndsFirstLine
<1> QED
    BY <1>3

Places == PC!BodyPlaces

\* The body has the characters at its places.
LEMMA BodyFacts ==
    ASSUME document \in Seq(Nat)
    PROVE  /\ Places \in SUBSET (1..Len(document)) /\ Len(document) \in Nat
           /\ Cardinality(Places) \in Nat
           /\ Len(PC!Body) = Cardinality(Places) /\ PC!Body \in Seq(Nat)
           /\ \A i \in Places : /\ PC!Rank(Places, i) \in 1..Len(PC!Body)
                                /\ PC!Body[PC!Rank(Places, i)] = document[i]
<1> DEFINE n == Len(document)
           c == Cardinality(Places)
<1>1. n \in Nat /\ DOMAIN document = 1..n
    OBVIOUS
<1>2. Places \in SUBSET (1..n)
    BY <1>1 DEF Places, PC!BodyPlaces
<1>3. \A i \in Places : i \in Nat
    BY <1>1, <1>2
<1>4. PC!Body = [i \in 1..c |-> document[PC!Nth(Places, i)]]
    BY DEF PC!Body, Places, PC!Cardinality, Cardinality
<1>5. /\ c \in Nat
      /\ \A i \in 1..c : PC!Nth(Places, i) \in Places
      /\ \A i \in Places : PC!Rank(Places, i) \in 1..c /\ PC!Nth(Places, PC!Rank(Places, i)) = i
    BY <1>1, <1>2, PlacesCounted
<1>6. \A i \in 1..n : document[i] \in Nat
    OBVIOUS
<1> HIDE DEF n, c
<1>7. \A i \in 1..c : document[PC!Nth(Places, i)] \in Nat
    BY <1>2, <1>5, <1>6
<1>8. Len(PC!Body) = c /\ PC!Body \in Seq(Nat)
    BY <1>4, <1>5, <1>7
<1>9. \A i \in Places : PC!Body[PC!Rank(Places, i)] = document[i]
    BY <1>4, <1>5
<1> QED
    BY <1>1, <1>2, <1>5, <1>8, <1>9 DEF n, c

\* Behind the first line and before a dash, up to r.
Within(d, f, r) ==
    /\ f \in 1..r /\ d[f] = PC!LF /\ \A j \in 1..(f - 1) : d[j] # PC!LF
    /\ \A j \in f..r : d[j] # PC!Dash

\* What the next character is for the body.
LEMMA NextPlace ==
    ASSUME document \in Seq(Nat), NEW r \in Nat, r + 1 \in 1..Len(document),
           NEW f, Within(document, f, r)
    PROVE  /\ document[r + 1] = PC!LF => r + 1 \notin Places /\ Within(document, f, r + 1)
           /\ document[r + 1] \notin {PC!LF, PC!Dash} => r + 1 \in Places /\ Within(document, f, r + 1)
           /\ document[r + 1] = PC!Dash => \A i \in Places : i <= r
<1>1. f \in 1..r /\ f \in Nat /\ PC!EndsFirstLine(f) /\ \A j \in f..r : document[j] # PC!Dash
    BY DEF Within, PC!EndsFirstLine
<1>2. /\ \A j \in f..(r + 1) : j \in f..r \/ j = r + 1
      /\ f \in 1..(r + 1)
    BY <1>1
<1>3. ASSUME document[r + 1] # PC!Dash
      PROVE  Within(document, f, r + 1)
    BY <1>1, <1>2, <1>3 DEF Within, PC!EndsFirstLine
<1>4. ASSUME document[r + 1] = PC!LF
      PROVE  r + 1 \notin Places /\ Within(document, f, r + 1)
    <2>1. PC!LF # PC!Dash
        BY DEF PC!LF, PC!Dash
    <2> QED
        BY <1>3, <1>4, <2>1 DEF Places, PC!BodyPlaces
<1>5. ASSUME document[r + 1] \notin {PC!LF, PC!Dash}
      PROVE  r + 1 \in Places /\ Within(document, f, r + 1)
    <2>1. Within(document, f, r + 1)
        BY <1>3, <1>5
    <2>2. r + 1 \in DOMAIN document
        OBVIOUS
    <2> QED
        BY <1>5, <2>1, <2>2 DEF Places, PC!BodyPlaces, PC!EndsFirstLine, Within
<1>6. ASSUME document[r + 1] = PC!Dash, NEW i \in Places
      PROVE  i <= r
    <2>1. i \in Nat
        BY BodyFacts
    <2>2. PICK g \in 1..i : PC!EndsFirstLine(g) /\ \A j \in g..i : document[j] # PC!Dash
        BY DEF Places, PC!BodyPlaces
    <2>3. g = f
        BY <1>1, <2>1, <2>2, OneFirstLine
    <2>4. ~(i <= r) => r + 1 \in f..i
        BY <1>1, <2>1
    <2> QED
        BY <1>6, <2>2, <2>3, <2>4
<1> QED
    BY <1>4, <1>5, <1>6

\* The body begins behind the first line.
LEMMA FirstLineEnds ==
    ASSUME document \in Seq(Nat), NEW r \in Nat, r + 1 \in 1..Len(document),
           \A j \in 1..r : document[j] # PC!LF, document[r + 1] = PC!LF
    PROVE  Within(document, r + 1, r + 1) /\ PC!Rank(Places, r + 1) = 0
<1>1. PC!EndsFirstLine(r + 1)
    <2>1. (r + 1) - 1 = r
        OBVIOUS
    <2> QED
        BY <2>1 DEF PC!EndsFirstLine
<1>2. Within(document, r + 1, r + 1)
    <2>1. \A j \in (r + 1)..(r + 1) : j = r + 1
        OBVIOUS
    <2>2. r + 1 \in 1..(r + 1)
        OBVIOUS
    <2> QED
        BY <1>1, <2>1, <2>2 DEF Within, PC!EndsFirstLine, PC!LF, PC!Dash
<1>3. ASSUME NEW i \in Places
      PROVE  i > r + 1
    <2>1. i \in Nat
        BY BodyFacts
    <2>2. PICK g \in 1..i : PC!EndsFirstLine(g) /\ document[i] # PC!LF
        BY DEF Places, PC!BodyPlaces
    <2>3. g = r + 1
        BY <1>1, <2>1, <2>2, OneFirstLine
    <2>4. i # r + 1
        BY <2>2
    <2> QED
        BY <2>1, <2>2, <2>3, <2>4
<1>4. Places \in SUBSET (1..Len(document)) /\ Len(document) \in Nat
    BY BodyFacts
<1>5. PC!Rank(Places, r + 1) = 0
    <2>1. r + 1 \in Nat
        OBVIOUS
    <2> QED
        BY <1>3, <1>4, <2>1, RankBelow
<1> QED
    BY <1>2, <1>5

\* The bits of an octet, the lowest first.
HasBits(x, a, b, c, d, e, f, g, h) ==
    /\ a \in 0..1 /\ b \in 0..1 /\ c \in 0..1 /\ d \in 0..1
    /\ e \in 0..1 /\ f \in 0..1 /\ g \in 0..1 /\ h \in 0..1
    /\ x = a + 2*b + 4*c + 8*d + 16*e + 32*f + 64*g + 128*h

LEMMA Half ==
    ASSUME NEW n \in Nat, NEW x \in 0..(2*n + 1)
    PROVE  \E y \in 0..n, z \in 0..1 : x = 2*y + z
<1>1. x \div 2 \in 0..n /\ x - 2 * (x \div 2) \in 0..1
    OBVIOUS
<1> DEFINE y == x \div 2
<1>2. y \in 0..n /\ x - 2*y \in 0..1
    BY <1>1
<1> HIDE DEF y
<1>3. x = 2*y + (x - 2*y)
    BY <1>2
<1> QED
    BY <1>2, <1>3

LEMMA AllHaveBits ==
    ASSUME NEW x \in 0..255
    PROVE  \E a, b, c, d, e, f, g, h : HasBits(x, a, b, c, d, e, f, g, h)
<1>1. PICK x1 \in 0..127, a \in 0..1 : x = 2*x1 + a
    <2>1. 127 \in Nat /\ x \in 0..(2*127 + 1)
        OBVIOUS
    <2> QED
        BY <2>1, Half
<1>2. PICK x2 \in 0..63, b \in 0..1 : x1 = 2*x2 + b
    <2>1. 63 \in Nat /\ x1 \in 0..(2*63 + 1)
        OBVIOUS
    <2> QED
        BY <2>1, Half
<1>3. PICK x3 \in 0..31, c \in 0..1 : x2 = 2*x3 + c
    <2>1. 31 \in Nat /\ x2 \in 0..(2*31 + 1)
        OBVIOUS
    <2> QED
        BY <2>1, Half
<1>4. PICK x4 \in 0..15, d \in 0..1 : x3 = 2*x4 + d
    <2>1. 15 \in Nat /\ x3 \in 0..(2*15 + 1)
        OBVIOUS
    <2> QED
        BY <2>1, Half
<1>5. PICK x5 \in 0..7, e \in 0..1 : x4 = 2*x5 + e
    <2>1. 7 \in Nat /\ x4 \in 0..(2*7 + 1)
        OBVIOUS
    <2> QED
        BY <2>1, Half
<1>6. PICK x6 \in 0..3, f \in 0..1 : x5 = 2*x6 + f
    <2>1. 3 \in Nat /\ x5 \in 0..(2*3 + 1)
        OBVIOUS
    <2> QED
        BY <2>1, Half
<1>7. PICK h \in 0..1, g \in 0..1 : x6 = 2*h + g
    <2>1. 1 \in Nat /\ x6 \in 0..(2*1 + 1)
        OBVIOUS
    <2> QED
        BY <2>1, Half
<1>8. x = a + 2*b + 4*c + 8*d + 16*e + 32*f + 64*g + 128*h
    BY <1>1, <1>2, <1>3, <1>4, <1>5, <1>6, <1>7
<1>9. HasBits(x, a, b, c, d, e, f, g, h)
    BY <1>8 DEF HasBits
<1> QED
    BY <1>9, Zenon

\* A single bit is set in x or in y, but not in both.
LEMMA BitOfTwo ==
    ASSUME NEW x, NEW y, NEW n \in Nat, NEW b \in 0..1, NEW c \in 0..1,
           (x \div n) % 2 = b, (y \div n) % 2 = c, b = 0 \/ c = 0
    PROVE  PC!Bit(x, y, n) = n * b + n * c
<1>1. CASE b = 0 /\ c = 0
    BY <1>1 DEF PC!Bit
<1>2. CASE b = 1 /\ c = 0
    BY <1>2 DEF PC!Bit
<1>3. CASE b = 0 /\ c = 1
    BY <1>3 DEF PC!Bit
<1> QED
    BY <1>1, <1>2, <1>3

\* Shifting to the right drops the lower bits.
LEMMA BitsShifted ==
    ASSUME NEW x, NEW a, NEW b, NEW c, NEW d, NEW e, NEW f, NEW g, NEW h,
           HasBits(x, a, b, c, d, e, f, g, h)
    PROVE  /\ (x \div 1) % 2 = a /\ (x \div 2) % 2 = b /\ (x \div 4) % 2 = c
           /\ (x \div 8) % 2 = d /\ (x \div 16) % 2 = e /\ (x \div 32) % 2 = f
           /\ (x \div 64) % 2 = g /\ (x \div 128) % 2 = h
<1> USE DEF HasBits
<1> DEFINE x7 == h
           x6 == 2*x7 + g
           x5 == 2*x6 + f
           x4 == 2*x5 + e
           x3 == 2*x4 + d
           x2 == 2*x3 + c
           x1 == 2*x2 + b
<1>1. /\ x1 \in Nat /\ x2 \in Nat /\ x3 \in Nat /\ x4 \in Nat /\ x5 \in Nat /\ x6 \in Nat /\ x7 \in Nat
      /\ x \in Nat
    OBVIOUS
<1>2. x \div 1 = x /\ x \div 2 = x1 /\ x \div 4 = x2 /\ x \div 8 = x3 
    OBVIOUS
<1>3. x \div 16 = x4 /\ x \div 32 = x5 /\ x \div 64 = x6 /\ x \div 128 = x7
    OBVIOUS
<1>4. x = 2 * x1 + a
    OBVIOUS
<1>5. x7 = 2 * 0 + h
    OBVIOUS
<1>6. \A y \in Nat, z \in 0..1 : (2*y + z) % 2 = z
    OBVIOUS
<1> HIDE DEF x1, x2, x3, x4, x5, x6, x7
<1> QED
    BY <1>1, <1>2, <1>3, <1>4, <1>5, <1>6 DEF x1, x2, x3, x4, x5, x6

\* What prints as two parts is their sum, as no bit is in both.
LEMMA OctetIsSum ==
    ASSUME NEW x, NEW a, NEW b, NEW c, NEW d, NEW e, NEW f, NEW g, NEW h,
           NEW y, NEW i, NEW j, NEW k, NEW l, NEW m, NEW n, NEW o, NEW p,
           HasBits(x, a, b, c, d, e, f, g, h), HasBits(y, i, j, k, l, m, n, o, p),
           a = 0 \/ i = 0, b = 0 \/ j = 0, c = 0 \/ k = 0, d = 0 \/ l = 0,
           e = 0 \/ m = 0, f = 0 \/ n = 0, g = 0 \/ o = 0, h = 0 \/ p = 0
    PROVE  PC!Octet(x, y) = x + y
<1>1. /\ PC!Bit(x, y, 1) = 1 * a + 1 * i /\ PC!Bit(x, y, 2) = 2 * b + 2 * j
      /\ PC!Bit(x, y, 4) = 4 * c + 4 * k /\ PC!Bit(x, y, 8) = 8 * d + 8 * l
      /\ PC!Bit(x, y, 16) = 16 * e + 16 * m /\ PC!Bit(x, y, 32) = 32 * f + 32 * n
      /\ PC!Bit(x, y, 64) = 64 * g + 64 * o /\ PC!Bit(x, y, 128) = 128 * h + 128 * p
    <2>1. /\ (x \div 1) % 2 = a /\ (x \div 2) % 2 = b /\ (x \div 4) % 2 = c
          /\ (x \div 8) % 2 = d /\ (x \div 16) % 2 = e /\ (x \div 32) % 2 = f
          /\ (x \div 64) % 2 = g /\ (x \div 128) % 2 = h
        BY BitsShifted
    <2>2. /\ (y \div 1) % 2 = i /\ (y \div 2) % 2 = j /\ (y \div 4) % 2 = k
          /\ (y \div 8) % 2 = l /\ (y \div 16) % 2 = m /\ (y \div 32) % 2 = n
          /\ (y \div 64) % 2 = o /\ (y \div 128) % 2 = p
        BY BitsShifted
    <2>3. /\ a \in 0..1 /\ b \in 0..1 /\ c \in 0..1 /\ d \in 0..1
          /\ e \in 0..1 /\ f \in 0..1 /\ g \in 0..1 /\ h \in 0..1
          /\ i \in 0..1 /\ j \in 0..1 /\ k \in 0..1 /\ l \in 0..1
          /\ m \in 0..1 /\ n \in 0..1 /\ o \in 0..1 /\ p \in 0..1
        BY Zenon DEF HasBits
    <2>4. 1 \in Nat /\ 2 \in Nat /\ 4 \in Nat /\ 8 \in Nat /\ 16 \in Nat /\ 32 \in Nat
          /\ 64 \in Nat /\ 128 \in Nat
        OBVIOUS
    <2>5. PC!Bit(x, y, 1) = 1 * a + 1 * i /\ PC!Bit(x, y, 2) = 2 * b + 2 * j
        BY <2>1, <2>2, <2>3, <2>4, BitOfTwo
    <2>6. PC!Bit(x, y, 4) = 4 * c + 4 * k /\ PC!Bit(x, y, 8) = 8 * d + 8 * l
        BY <2>1, <2>2, <2>3, <2>4, BitOfTwo
    <2>7. PC!Bit(x, y, 16) = 16 * e + 16 * m /\ PC!Bit(x, y, 32) = 32 * f + 32 * n
        BY <2>1, <2>2, <2>3, <2>4, BitOfTwo
    <2>8. PC!Bit(x, y, 64) = 64 * g + 64 * o /\ PC!Bit(x, y, 128) = 128 * h + 128 * p
        BY <2>1, <2>2, <2>3, <2>4, BitOfTwo
    <2> QED
        BY <2>5, <2>6, <2>7, <2>8
<1>2. /\ x = a + 2*b + 4*c + 8*d + 16*e + 32*f + 64*g + 128*h
      /\ y = i + 2*j + 4*k + 8*l + 16*m + 32*n + 64*o + 128*p
    BY Zenon DEF HasBits
<1>3. /\ a \in Int /\ b \in Int /\ c \in Int /\ d \in Int
      /\ e \in Int /\ f \in Int /\ g \in Int /\ h \in Int
      /\ i \in Int /\ j \in Int /\ k \in Int /\ l \in Int
      /\ m \in Int /\ n \in Int /\ o \in Int /\ p \in Int
    BY DEF HasBits
<1> QED
    BY <1>1, <1>2, <1>3 DEF PC!Octet

\* The first octet of a group, the second and the third.
LEMMA OctetOfTwo ==
    ASSUME NEW x \in 0..63, NEW y \in 0..3
    PROVE  PC!Octet(x * 4, y) = x * 4 + y
<1>1. PICK a, b, c, d, e, f, g, h : HasBits(x, a, b, c, d, e, f, g, h)
    <2>1. x \in 0..255
        OBVIOUS
    <2> QED
        BY <2>1, AllHaveBits
<1>2. PICK i, j, k, l, m, n, o, p : HasBits(y, i, j, k, l, m, n, o, p)
    <2>1. y \in 0..255
        OBVIOUS
    <2> QED
        BY <2>1, AllHaveBits
<1>3. HasBits(x * 4, 0, 0, a, b, c, d, e, f)
    BY <1>1 DEF HasBits
<1>4. k = 0 /\ l = 0 /\ m = 0 /\ n = 0 /\ o = 0 /\ p = 0
    BY <1>2 DEF HasBits
<1> QED
    BY <1>2, <1>3, <1>4, OctetIsSum

LEMMA OctetOfFour ==
    ASSUME NEW x \in 0..15, NEW y \in 0..15
    PROVE  PC!Octet(x * 16, y) = x * 16 + y
<1>1. PICK a, b, c, d, e, f, g, h : HasBits(x, a, b, c, d, e, f, g, h)
    <2>1. x \in 0..255
        OBVIOUS
    <2> QED
        BY <2>1, AllHaveBits
<1>2. PICK i, j, k, l, m, n, o, p : HasBits(y, i, j, k, l, m, n, o, p)
    <2>1. y \in 0..255
        OBVIOUS
    <2> QED
        BY <2>1, AllHaveBits
<1>3. HasBits(x * 16, 0, 0, 0, 0, a, b, c, d)
    BY <1>1 DEF HasBits
<1>4. m = 0 /\ n = 0 /\ o = 0 /\ p = 0
    BY <1>2 DEF HasBits
<1> QED
    BY <1>2, <1>3, <1>4, OctetIsSum

LEMMA OctetOfSix ==
    ASSUME NEW x \in 0..3, NEW y \in 0..63
    PROVE  PC!Octet(x * 64, y) = x * 64 + y
<1>1. PICK a, b, c, d, e, f, g, h : HasBits(x, a, b, c, d, e, f, g, h)
    <2>1. x \in 0..255
        OBVIOUS
    <2> QED
        BY <2>1, AllHaveBits
<1>2. PICK i, j, k, l, m, n, o, p : HasBits(y, i, j, k, l, m, n, o, p)
    <2>1. y \in 0..255
        OBVIOUS
    <2> QED
        BY <2>1, AllHaveBits
<1>3. HasBits(x * 64, 0, 0, 0, 0, 0, 0, a, b)
    BY <1>1 DEF HasBits
<1>4. o = 0 /\ p = 0
    BY <1>2 DEF HasBits
<1> QED
    BY <1>2, <1>3, <1>4, OctetIsSum

\* Dividing by a power of two cuts a number in two.
LEMMA CutAt16 ==
    ASSUME NEW b \in 0..63
    PROVE  b \div 16 \in 0..3 /\ b % 16 \in 0..15 /\ b = (b \div 16) * 16 + (b % 16)
<1>1. b \div 16 \in 0..3 /\ b - 16 * (b \div 16) \in 0..15
    OBVIOUS
<1> DEFINE y == b \div 16
           z == b - 16 * y
<1>2. y \in 0..3 /\ z \in 0..15
    BY <1>1
<1> HIDE DEF y
<1>3. b = 16 * y + z
    BY <1>2
<1> HIDE DEF z
<1>4. b % 16 = z
    BY <1>2, <1>3
<1> QED
    BY <1>2, <1>3, <1>4 DEF y

LEMMA CutAt4 ==
    ASSUME NEW b \in 0..63
    PROVE  b \div 4 \in 0..15 /\ b % 4 \in 0..3 /\ b = (b \div 4) * 4 + (b % 4)
<1>1. b \div 4 \in 0..15 /\ b - 4 * (b \div 4) \in 0..3
    OBVIOUS
<1> DEFINE y == b \div 4
           z == b - 4 * y
<1>2. y \in 0..15 /\ z \in 0..3
    BY <1>1
<1> HIDE DEF y
<1>3. b = 4 * y + z
    BY <1>2
<1> HIDE DEF z
<1>4. b % 4 = z
    BY <1>2, <1>3
<1> QED
    BY <1>2, <1>3, <1>4 DEF y

\* An octet has eight bits.
LEMMA OctetType ==
    ASSUME NEW a, NEW b
    PROVE  PC!Octet(a, b) \in 0..255
<1> DEFINE bit(n) == PC!Bit(a, b, n)
<1>1. /\ bit(1) \in {0, 1} /\ bit(2) \in {0, 2} /\ bit(4) \in {0, 4} /\ bit(8) \in {0, 8}
      /\ bit(16) \in {0, 16} /\ bit(32) \in {0, 32} /\ bit(64) \in {0, 64}
      /\ bit(128) \in {0, 128}
    BY Zenon DEF PC!Bit
<1>2. PC!Octet(a, b) = bit(1) + bit(2) + bit(4) + bit(8) + bit(16) + bit(32) + bit(64) + bit(128)
    BY Zenon DEF PC!Octet
<1> HIDE DEF bit
<1> QED
    BY <1>1, <1>2

LetterOrDigit == PC!Upper \cup PC!Lower \cup PC!Digit

\* The offsets in the code are those of the alphabet of Base64.
LEMMA SextetIsDigit ==
    ASSUME NEW c \in LetterOrDigit
    PROVE  PC!Sextet(c) \in 0..61 /\ PC!DigitOf(c) = PC!Sextet(c)
<1>1. \A i \in 1..64 :
         PC!Alphabet[i] = IF i <= 26 THEN 64 + i ELSE IF i <= 52 THEN 70 + i
                          ELSE IF i <= 62 THEN i - 5 ELSE IF i = 63 THEN 43 ELSE 47
    BY DEF PC!Alphabet, PC!Plus, PC!Slash
<1>2. PICK k \in 1..62 : PC!Sextet(c) = k - 1 /\ PC!Alphabet[k] = c
    <2>1. CASE c \in PC!Upper
        <3>1. c \in 65..90
            BY <2>1 DEF PC!Upper
        <3>2. /\ c \notin PC!Lower /\ c \notin PC!Digit
              /\ c # PC!Plus /\ c # PC!Slash /\ c # PC!Pad
            BY <3>1 DEF PC!Lower, PC!Digit, PC!Plus, PC!Slash, PC!Pad
        <3>3. PC!Sextet(c) = c - 65
            BY <2>1, <3>2 DEF PC!Sextet
        <3>4. c - 64 \in 1..26 /\ (c - 64) - 1 = c - 65 /\ 64 + (c - 64) = c
            BY <3>1
        <3>5. PC!Alphabet[c - 64] = 64 + (c - 64)
            BY <1>1, <3>4
        <3>6. c - 64 \in 1..62
            BY <3>4
        <3> QED
            BY <3>3, <3>4, <3>5, <3>6
    <2>2. CASE c \in PC!Lower
        <3>1. c \in 97..122
            BY <2>2 DEF PC!Lower
        <3>2. /\ c \notin PC!Upper /\ c \notin PC!Digit
              /\ c # PC!Plus /\ c # PC!Slash /\ c # PC!Pad
            BY <3>1 DEF PC!Upper, PC!Digit, PC!Plus, PC!Slash, PC!Pad
        <3>3. PC!Sextet(c) = c - 71
            BY <2>2, <3>2 DEF PC!Sextet
        <3>4. /\ c - 70 \in 27..52 /\ ~(c - 70 <= 26) /\ (c - 70) - 1 = c - 71
              /\ 70 + (c - 70) = c
            BY <3>1
        <3>5. PC!Alphabet[c - 70] = 70 + (c - 70)
            BY <1>1, <3>4
        <3>6. c - 70 \in 1..62
            BY <3>4
        <3> QED
            BY <3>3, <3>4, <3>5, <3>6
    <2>3. CASE c \in PC!Digit
        <3>1. c \in 48..57
            BY <2>3 DEF PC!Digit
        <3>2. /\ c \notin PC!Upper /\ c \notin PC!Lower
              /\ c # PC!Plus /\ c # PC!Slash /\ c # PC!Pad
            BY <3>1 DEF PC!Upper, PC!Lower, PC!Plus, PC!Slash, PC!Pad
        <3>3. PC!Sextet(c) = c + 4
            BY <2>3, <3>2 DEF PC!Sextet
        <3>4. /\ c + 5 \in 53..62 /\ ~(c + 5 <= 52) /\ (c + 5) - 1 = c + 4
              /\ (c + 5) - 5 = c
            BY <3>1
        <3>5. PC!Alphabet[c + 5] = (c + 5) - 5
            BY <1>1, <3>4
        <3>6. c + 5 \in 1..62
            BY <3>4
        <3> QED
            BY <3>3, <3>4, <3>5, <3>6
    <2> QED
        BY <2>1, <2>2, <2>3 DEF LetterOrDigit
<1>3. \A i, j \in 1..64 : i # j => PC!Alphabet[i] # PC!Alphabet[j]
    BY <1>1
<1>4. k \in 1..64 /\ k - 1 \in 0..61
    OBVIOUS
<1>5. (CHOOSE i \in 1..64 : PC!Alphabet[i] = c) = k
    BY <1>2, <1>3, <1>4
<1>6. PC!DigitOf(c) = k - 1
    BY <1>2, <1>4, <1>5, Zenon DEF PC!DigitOf
<1> QED
    BY <1>2, <1>4, <1>6, Zenon

\* The padding is no digit.
LEMMA DigitFacts ==
    ASSUME NEW c
    PROVE  /\ PC!DigitOf(c) \in 0..63
           /\ PC!IsSextet(c) /\ c \notin {PC!Plus, PC!Slash} => PC!DigitOf(c) = PC!Sextet(c)
<1>1. PC!DigitOf(c) \in 0..63
    <2>1. CASE \E i \in 1..64 : PC!Alphabet[i] = c
        <3> DEFINE k == CHOOSE i \in 1..64 : PC!Alphabet[i] = c
        <3>1. k \in 1..64
            BY <2>1, Zenon
        <3>2. PC!DigitOf(c) = k - 1
            BY <2>1, Zenon DEF PC!DigitOf
        <3> HIDE DEF k
        <3> QED
            BY <3>1, <3>2
    <2>2. CASE ~ \E i \in 1..64 : PC!Alphabet[i] = c
        <3>1. PC!DigitOf(c) = 0
            BY <2>2, Zenon DEF PC!DigitOf
        <3> QED
            BY <3>1
    <2> QED
        BY <2>1, <2>2
<1>2. CASE c \in LetterOrDigit
    BY <1>1, <1>2, SextetIsDigit
<1>3. CASE c = PC!Pad
    <2>1. \A i \in 1..64 : PC!Alphabet[i] # 61
        BY DEF PC!Alphabet, PC!Plus, PC!Slash
    <2>2. c = 61
        BY <1>3 DEF PC!Pad
    <2>3. PC!DigitOf(c) = 0
        BY <2>1, <2>2, Zenon DEF PC!DigitOf
    <2>4. PC!Sextet(c) = 0
        BY <1>3 DEF PC!Sextet, PC!Upper, PC!Lower, PC!Digit, PC!Plus, PC!Slash, PC!Pad
    <2> QED
        BY <1>1, <2>3, <2>4
<1>4. CASE c \notin LetterOrDigit /\ c # PC!Pad
    BY <1>1, <1>4 DEF PC!IsSextet, LetterOrDigit
<1> QED
    BY <1>2, <1>3, <1>4

\* The parts of a number of three octets.
IsCut(n, x, y, z) == (n \div 256) \div 256 = x /\ (n \div 256) % 256 = y /\ n % 256 = z

LEMMA CutInThree ==
    ASSUME NEW x \in 0..255, NEW y \in 0..255, NEW z \in 0..255
    PROVE  IsCut(256 * (256 * x + y) + z, x, y, z)
<1> DEFINE m == 256 * x + y
           n == 256 * m + z
<1>1. m \in Nat /\ m \div 256 = x /\ m % 256 = y
    OBVIOUS
<1> HIDE DEF m
<1>2. n \div 256 = m /\ n % 256 = z
    BY <1>1
<1> HIDE DEF n
<1>3. IsCut(n, x, y, z)
    BY <1>1, <1>2, Zenon DEF IsCut
<1> QED
    BY <1>3 DEF n, m

\* The octets printed for four sextets.
PrintsCut(a, b, c, d) ==
    IsCut(((a * 64 + b) * 64 + c) * 64 + d, PC!Octet(a * 4, b \div 16),
          PC!Octet((b % 16) * 16, c \div 4), PC!Octet((c % 4) * 64, d))

\* Four sextets are twenty-four bits.
LEMMA BitsAreOctets ==
    ASSUME NEW a \in 0..63, NEW b \in 0..63, NEW c \in 0..63, NEW d \in 0..63
    PROVE  PrintsCut(a, b, c, d)
<1> DEFINE bits == ((a * 64 + b) * 64 + c) * 64 + d
           p == b \div 16
           q == b % 16
           s == c \div 4
           t == c % 4
           x == a * 4 + p
           y == q * 16 + s
           z == t * 64 + d
<1>1. p \in 0..3 /\ q \in 0..15 /\ b = p * 16 + q
    BY CutAt16
<1>2. s \in 0..15 /\ t \in 0..3 /\ c = s * 4 + t
    BY CutAt4
<1> HIDE DEF p, q, s, t
<1>3. x \in 0..255 /\ y \in 0..255 /\ z \in 0..255
    BY <1>1, <1>2
<1>4. bits = 256 * (256 * x + y) + z
    BY <1>1, <1>2
<1>5. PC!Octet(a * 4, p) = x /\ PC!Octet(q * 16, s) = y /\ PC!Octet(t * 64, d) = z
    BY <1>1, <1>2, OctetOfTwo, OctetOfFour, OctetOfSix
<1> HIDE DEF x, y, z, bits
<1>6. IsCut(bits, x, y, z)
    BY <1>3, <1>4, CutInThree, Zenon
<1>7. IsCut(bits, PC!Octet(a * 4, p), PC!Octet(q * 16, s), PC!Octet(t * 64, d))
    BY <1>5, <1>6, Zenon
<1> QED
    BY <1>7, Zenon DEF PrintsCut, bits, p, q, s, t

\* Each octet of a group is the one of Base64 where both of its sextets are.
LEMMA GroupIsDecoded ==
    ASSUME NEW g, NEW h, \A i \in 1..4 : PC!IsSextet(g[i]) /\ h[i] = PC!Sextet(g[i]),
           NEW i \in 1..3, {g[i], g[i + 1]} \cap {PC!Plus, PC!Slash} = {}
    PROVE  PC!Octets(h)[i] = PC!Decoded(g)[i]
<1> DEFINE e == [j \in 1..4 |-> PC!DigitOf(g[j])]
           bits == ((e[1] * 64 + e[2]) * 64 + e[3]) * 64 + e[4]
           x(s) == PC!Octet(s[1] * 4, s[2] \div 16)
           y(s) == PC!Octet((s[2] % 16) * 16, s[3] \div 4)
           z(s) == PC!Octet((s[3] % 4) * 64, s[4])
<1>1. 1 \in 1..4 /\ 2 \in 1..4 /\ 3 \in 1..4 /\ 4 \in 1..4
    OBVIOUS
<1>2. \A j \in 1..4 : e[j] = PC!DigitOf(g[j]) /\ e[j] \in 0..63
    BY DigitFacts, Zenon
<1> HIDE DEF e
<1>3. PC!Decoded(g) = <<(bits \div 256) \div 256, (bits \div 256) % 256, bits % 256>>
    <2> DEFINE n == ((PC!DigitOf(g[1]) * 64 + PC!DigitOf(g[2])) * 64 + PC!DigitOf(g[3])) * 64
                       + PC!DigitOf(g[4])
    <2>1. PC!Decoded(g) = <<(n \div 256) \div 256, (n \div 256) % 256, n % 256>>
        BY Zenon DEF PC!Decoded
    <2>2. n = bits
        BY <1>1, <1>2, Zenon
    <2> HIDE DEF n, bits
    <2> QED
        BY <2>1, <2>2, Zenon
<1>4. IsCut(bits, x(e), y(e), z(e))
    <2>1. PrintsCut(e[1], e[2], e[3], e[4])
        BY <1>1, <1>2, BitsAreOctets, Zenon
    <2> QED
        BY <2>1, Zenon DEF PrintsCut
<1> HIDE DEF bits
<1>5. PC!Decoded(g) = <<x(e), y(e), z(e)>>
    BY <1>3, <1>4, Zenon DEF IsCut
<1>6. PC!Octets(h) = <<x(h), y(h), z(h)>>
    BY Zenon DEF PC!Octets
<1>7. /\ i \in 1..4 /\ i + 1 \in 1..4
      /\ g[i] \notin {PC!Plus, PC!Slash} /\ g[i + 1] \notin {PC!Plus, PC!Slash}
    <2>1. i \in 1..4 /\ i + 1 \in 1..4
        OBVIOUS
    <2>2. \A u, v, S : {u, v} \cap S = {} => u \notin S /\ v \notin S
        BY Zenon
    <2> QED
        BY <2>1, <2>2, Zenon
<1>8. h[i] = e[i] /\ h[i + 1] = e[i + 1]
    BY <1>2, <1>7, DigitFacts, Zenon
<1>9. CASE i = 1
    <2>1. h[1] = e[1] /\ h[2] = e[2]
        BY <1>8, <1>9
    <2>2. x(h) = x(e)
        BY <2>1, Zenon
    <2> HIDE DEF x, y, z
    <2> QED
        BY <1>5, <1>6, <1>9, <2>2
<1>10. CASE i = 2
    <2>1. h[2] = e[2] /\ h[3] = e[3]
        BY <1>8, <1>10
    <2>2. y(h) = y(e)
        BY <2>1, Zenon
    <2> HIDE DEF x, y, z
    <2> QED
        BY <1>5, <1>6, <1>10, <2>2
<1>11. CASE i = 3
    <2>1. h[3] = e[3] /\ h[4] = e[4]
        BY <1>8, <1>11
    <2>2. z(h) = z(e)
        BY <2>1, Zenon
    <2> HIDE DEF x, y, z
    <2> QED
        BY <1>5, <1>6, <1>11, <2>2
<1> QED
    BY <1>9, <1>10, <1>11

\* What is left of a document, of which r characters were read.
LEMMA NextOf ==
    ASSUME NEW d \in Seq(Nat), NEW r \in 0..Len(d), NEW s, s = SubSeq(d, r + 1, Len(d))
    PROVE  /\ Len(s) \in Nat /\ Len(d) - Len(s) = r
           /\ s # <<>> => /\ r + 1 \in 1..Len(d) /\ Head(s) = d[r + 1]
                          /\ Tail(s) = SubSeq(d, (r + 1) + 1, Len(d))
<1>1. PICK n \in Nat : n = Len(d)
    OBVIOUS
<1>2. PICK m \in Nat : r \in Nat /\ r + m = n
    <2>1. n - r \in Nat /\ r + (n - r) = n /\ r \in Nat
        BY <1>1
    <2> QED
        BY <2>1
<1>3. s \in Seq(Nat) /\ Len(s) = m
    BY <1>1, <1>2
<1>4. n - m = r
    BY <1>2
<1>5. ASSUME s # <<>>
      PROVE  r + 1 \in 1..n /\ Head(s) = d[r + 1] /\ Tail(s) = SubSeq(d, (r + 1) + 1, n)
    <2>1. m # 0
        BY <1>3, <1>5
    <2>2. r + 1 \in 1..n /\ n \in (r + 1)..n
        BY <1>2, <2>1
    <2> QED
        BY <1>1, <2>2, HeadTailOfSubSeq
<1> QED
    BY <1>1, <1>3, <1>4, <1>5

PemPhases == {"header", "line", "b64", "trailer", "exit", "abort"}

\* The k-th group of the body B.
GroupOf(B, k) == [j \in 1..4 |-> PC!Sextet(B[4*(k - 1) + j])]

\* The octets of g groups were printed.
PrintedAre(B, g, o) ==
    /\ 4 * g <= Len(B) /\ Len(o) = 3 * g
    /\ \A k \in 1..g, i \in 1..3 : o[3*(k - 1) + i] = PC!Octets(GroupOf(B, k))[i]
    /\ \A k \in 1..g, j \in 1..4 : PC!IsSextet(B[4*(k - 1) + j])

\* The sextets x are the characters of the body behind g groups.
KeptAre(B, g, x) ==
    \A j \in 1..Len(x) : PC!IsSextet(B[4*g + j]) /\ x[j] = PC!Sextet(B[4*g + j])

\* In the body r characters were read.
Decoding(d, P, B, r, x, g) ==
    /\ \E f : Within(d, f, r)
    /\ PC!Rank(P, r) = 4*g + Len(x)
    /\ KeptAre(B, g, x)

\* PemInv, of a document d with the body B at the places P.
PemTypes(p, x, g, o) ==
    /\ p \in PemPhases /\ x \in Seq(0..64) /\ Len(x) < 4 /\ o \in Seq(0..255) /\ g \in Nat

PemReads(d, P, B, p, r, x, g) ==
    /\ p \in {"header", "line"} => g = 0 /\ x = <<>> /\ \A j \in 1..r : d[j] # PC!LF
    /\ p = "b64" => Decoding(d, P, B, r, x, g)

PemState(d, P, B, p, s, x, g, o) ==
    /\ d \in Documents
    /\ PemTypes(p, x, g, o)
    /\ PrintedAre(B, g, o)
    /\ p \in {"header", "line", "b64"} =>
          \E r \in 0..Len(d) : s = SubSeq(d, r + 1, Len(d)) /\ PemReads(d, P, B, p, r, x, g)
    /\ p = "trailer" => Len(B) = 4*g + Len(x)

LEMMA PemIsState ==
    PC!PemInv => PemState(document, Places, PC!Body, phase, stdin, sextets, numGroups, stdout)
<1> SUFFICES ASSUME PC!PemInv
             PROVE  PemState(document, Places, PC!Body, phase, stdin, sextets, numGroups, stdout)
    OBVIOUS
<1>1. document \in Documents /\ PemTypes(phase, sextets, numGroups, stdout)
    BY DEF PC!PemInv, PC!TypeOK, PemTypes, PemPhases
<1>2. PrintedAre(PC!Body, numGroups, stdout)
    BY Zenon DEF PC!PemInv, PC!Printed, PrintedAre, GroupOf
<1> DEFINE r == PC!NumRead
<1>3. ASSUME phase \in {"header", "line", "b64"}
      PROVE  r \in 0..Len(document) /\ stdin = SubSeq(document, r + 1, Len(document))
    BY <1>3, Zenon DEF PC!PemInv
<1>4. ASSUME phase = "b64"
      PROVE  Decoding(document, Places, PC!Body, r, sextets, numGroups)
    <2>1. /\ \E f \in 1..r : PC!EndsFirstLine(f) /\ \A j \in f..r : document[j] # PC!Dash
          /\ PC!Rank(Places, r) = 4 * numGroups + Len(sextets)
          /\ KeptAre(PC!Body, numGroups, sextets)
        BY <1>4, Zenon DEF PC!PemInv, Places, KeptAre
    <2>2. \E f : Within(document, f, r)
        BY <2>1, Zenon DEF Within, PC!EndsFirstLine
    <2> QED
        BY <2>1, <2>2, Zenon DEF Decoding
<1>5. ASSUME phase \in {"header", "line"}
      PROVE  numGroups = 0 /\ sextets = <<>> /\ \A j \in 1..r : document[j] # PC!LF
    BY <1>5, Zenon DEF PC!PemInv
<1>6. phase = "trailer" => Len(PC!Body) = 4*numGroups + Len(sextets)
    BY Zenon DEF PC!PemInv
<1> HIDE DEF r
<1>7. PemReads(document, Places, PC!Body, phase, r, sextets, numGroups)
    BY <1>4, <1>5, Zenon DEF PemReads
<1> QED
    BY <1>1, <1>2, <1>3, <1>6, <1>7, Zenon DEF PemState

\* The same in the next state.
LEMMA StateIsPem ==
    PemState(document', Places', PC!Body', phase', stdin', sextets', numGroups', stdout')
        => PC!PemInv'
<1> SUFFICES ASSUME PemState(document', Places', PC!Body', phase', stdin', sextets', numGroups', stdout')
             PROVE  PC!PemInv'
    OBVIOUS
<1>1. PC!TypeOK'
    BY DEF PemState, PC!TypeOK, PemTypes, PemPhases
<1>2. PC!Printed'
    BY Zenon DEF PemState, PC!Printed, PrintedAre, GroupOf
<1>3. ASSUME phase' \in {"header", "line", "b64"}
      PROVE  /\ PC!NumRead' \in 0..Len(document')
             /\ stdin' = SubSeq(document', PC!NumRead' + 1, Len(document'))
             /\ PemReads(document', Places', PC!Body', phase', PC!NumRead', sextets', numGroups')
    <2>1. PICK r \in 0..Len(document') :
             /\ stdin' = SubSeq(document', r + 1, Len(document'))
             /\ PemReads(document', Places', PC!Body', phase', r, sextets', numGroups')
        BY <1>3, Zenon DEF PemState
    <2>2. document' \in Seq(Nat)
        BY PemAssumption DEF PemState
    <2>3. Len(document') - Len(stdin') = r
        BY <2>1, <2>2, NextOf
    <2>4. PC!NumRead' = r
        BY <2>3 DEF PC!NumRead
    <2> QED
        BY <2>1, <2>4
<1>4. ASSUME phase' = "b64"
      PROVE  /\ \E f \in 1..PC!NumRead' : /\ PC!EndsFirstLine(f)'
                                          /\ \A j \in f..PC!NumRead' : document'[j] # PC!Dash
             /\ PC!Rank(PC!BodyPlaces', PC!NumRead') = 4 * numGroups' + Len(sextets')
             /\ \A j \in 1..Len(sextets') :
                   /\ PC!IsSextet(PC!Body'[4 * numGroups' + j])
                   /\ sextets'[j] = PC!Sextet(PC!Body'[4 * numGroups' + j])
    <2>1. Decoding(document', Places', PC!Body', PC!NumRead', sextets', numGroups')
        BY <1>3, <1>4, Zenon DEF PemReads
    <2> QED
        BY <2>1, Zenon DEF Decoding, Within, KeptAre, Places, PC!EndsFirstLine
<1>5. ASSUME phase' \in {"header", "line"}
      PROVE  /\ numGroups' = 0 /\ sextets' = <<>>
             /\ \A j \in 1..PC!NumRead' : document'[j] # PC!LF
    BY <1>3, <1>5, Zenon DEF PemReads
<1>6. phase' = "trailer" => Len(PC!Body') = 4*numGroups' + Len(sextets')
    BY Zenon DEF PemState
<1> QED
    BY <1>1, <1>2, <1>3, <1>4, <1>5, <1>6, Zenon DEF PC!PemInv

\* The document stays the same, and with it its body.
LEMMA SameDocument ==
    ASSUME document' = document,
           PemState(document, Places, PC!Body, phase', stdin', sextets', numGroups', stdout')
    PROVE  PC!PemInv'
<1>1. Places' = Places
    BY DEF Places, PC!BodyPlaces, PC!EndsFirstLine
<1>2. PC!Body' = PC!Body
    BY <1>1 DEF PC!Body, Places
<1> QED
    BY <1>1, <1>2, StateIsPem

\* One more, and some more, at the end of a sequence.
LEMMA OneMore ==
    ASSUME NEW S, NEW x \in Seq(S), NEW v \in S
    PROVE  /\ \A i \in 1..Len(x) : Append(x, v)[i] = x[i]
           /\ Append(x, v)[Len(x) + 1] = v
    BY AppendProperties

LEMMA SomeMore ==
    ASSUME NEW S, NEW o \in Seq(S), NEW w \in Seq(S)
    PROVE  /\ o \o w \in Seq(S) /\ Len(o \o w) = Len(o) + Len(w)
           /\ \A i \in 1..Len(o) : (o \o w)[i] = o[i]
           /\ \A i \in 1..Len(w) : (o \o w)[Len(o) + i] = w[i]
    OBVIOUS

\* One more group is printed.
LEMMA GroupPrinted ==
    ASSUME NEW B, NEW g \in Nat, NEW o \in Seq(0..255), NEW x \in Seq(0..64), NEW v \in 0..64,
           PrintedAre(B, g, o), KeptAre(B, g, x), Len(x) + 1 = 4,
           v = PC!Sextet(B[4*g + 4]), PC!IsSextet(B[4*g + 4]), 4*g + 4 <= Len(B)
    PROVE  /\ PrintedAre(B, g + 1, o \o PC!Octets(Append(x, v)))
           /\ o \o PC!Octets(Append(x, v)) \in Seq(0..255)
<1> DEFINE h == Append(x, v)
           w == PC!Octets(h)
           q == o \o w
<1>1. w \in Seq(0..255) /\ Len(w) = 3
    <2> DEFINE a == PC!Octet(h[1] * 4, h[2] \div 16)
               b == PC!Octet((h[2] % 16) * 16, h[3] \div 4)
               c == PC!Octet((h[3] % 4) * 64, h[4])
    <2>1. a \in 0..255 /\ b \in 0..255 /\ c \in 0..255
        BY OctetType
    <2>2. w = <<a, b, c>>
        BY Zenon DEF PC!Octets
    <2> HIDE DEF a, b, c, w
    <2> QED
        BY <2>1, <2>2
<1>2. Len(o) = 3*g
    BY Zenon DEF PrintedAre
<1>3. w = PC!Octets(GroupOf(B, g + 1))
    <2>1. h[1] = x[1] /\ h[2] = x[2] /\ h[3] = x[3] /\ h[4] = v
        <3>1. (\A i \in 1..Len(x) : h[i] = x[i]) /\ h[Len(x) + 1] = v
            BY OneMore
        <3>2. 1 \in 1..Len(x) /\ 2 \in 1..Len(x) /\ 3 \in 1..Len(x) /\ Len(x) + 1 = 4
            OBVIOUS
        <3> QED
            BY <3>1, <3>2, Zenon
    <2>2. x[1] = PC!Sextet(B[4*g + 1]) /\ x[2] = PC!Sextet(B[4*g + 2]) /\ x[3] = PC!Sextet(B[4*g + 3])
        <3>1. 1 \in 1..Len(x) /\ 2 \in 1..Len(x) /\ 3 \in 1..Len(x)
            OBVIOUS
        <3> QED
            BY <3>1, Zenon DEF KeptAre
    <2>3. (g + 1) - 1 = g /\ 1 \in 1..4 /\ 2 \in 1..4 /\ 3 \in 1..4 /\ 4 \in 1..4
        OBVIOUS
    <2>4. GroupOf(B, g + 1) = [j \in 1..4 |-> PC!Sextet(B[4*g + j])]
        BY <2>3, Zenon DEF GroupOf
    <2> DEFINE k == GroupOf(B, g + 1)
    <2>5. /\ k[1] = PC!Sextet(B[4*g + 1]) /\ k[2] = PC!Sextet(B[4*g + 2])
          /\ k[3] = PC!Sextet(B[4*g + 3]) /\ k[4] = PC!Sextet(B[4*g + 4])
        BY <2>3, <2>4, Zenon
    <2> HIDE DEF k, h
    <2>6. h[1] = k[1] /\ h[2] = k[2] /\ h[3] = k[3] /\ h[4] = k[4]
        BY <2>1, <2>2, <2>5, Zenon
    <2> QED
        BY <2>6, Zenon DEF PC!Octets, k
<1> HIDE DEF w
<1>4. /\ q \in Seq(0..255) /\ Len(q) = 3*g + 3
      /\ \A i \in 1..(3*g) : q[i] = o[i]
      /\ \A i \in 1..3 : q[3*g + i] = w[i]
    <2>1. /\ q \in Seq(0..255) /\ Len(q) = Len(o) + Len(w)
          /\ \A i \in 1..Len(o) : q[i] = o[i]
          /\ \A i \in 1..Len(w) : q[Len(o) + i] = w[i]
        <3>1. w \in Seq(0..255)
            BY <1>1, Zenon
        <3> QED
            BY <3>1, SomeMore
    <2> HIDE DEF q
    <2> QED
        BY <1>1, <1>2, <2>1, Zenon
<1> HIDE DEF q
<1>5. ASSUME NEW k \in 1..(g + 1), NEW i \in 1..3
      PROVE  q[3*(k - 1) + i] = PC!Octets(GroupOf(B, k))[i]
    <2>1. CASE k = g + 1
        <3>1. 3*(k - 1) + i = 3*g + i
            BY <2>1
        <3>2. q[3*g + i] = w[i]
            BY <1>4, <3>1, Zenon
        <3> QED
            BY <1>3, <2>1, <3>1, <3>2, Zenon
    <2>2. CASE k # g + 1
        <3>1. k \in 1..g /\ 3*(k - 1) + i \in 1..(3*g)
            BY <2>2
        <3>2. q[3*(k - 1) + i] = o[3*(k - 1) + i]
            BY <1>4, <3>1, Zenon
        <3> QED
            BY <3>1, <3>2, Zenon DEF PrintedAre
    <2> QED
        BY <2>1, <2>2
<1>6. 4*(g + 1) <= Len(B) /\ Len(q) = 3*(g + 1)
    <2>1. 4*(g + 1) = 4*g + 4 /\ 3*(g + 1) = 3*g + 3
        OBVIOUS
    <2> QED
        BY <1>4, <2>1, Zenon
<1>7. ASSUME NEW k \in 1..(g + 1), NEW j \in 1..4
      PROVE  PC!IsSextet(B[4*(k - 1) + j])
    <2>1. CASE k = g + 1
        <3>1. 4*(k - 1) + j = 4*g + j /\ (j = 4 \/ j \in 1..Len(x))
            BY <2>1
        <3> QED
            BY <3>1, Zenon DEF KeptAre
    <2>2. CASE k # g + 1
        <3>1. k \in 1..g
            BY <2>2
        <3> QED
            BY <3>1, Zenon DEF PrintedAre
    <2> QED
        BY <2>1, <2>2
<1>8. PrintedAre(B, g + 1, q)
    BY <1>5, <1>6, <1>7, Zenon DEF PrintedAre
<1> QED
    BY <1>4, <1>8 DEF q, w, h

LEMMA PemInit ==
    ASSUME PC!Init
    PROVE  PC!PemInv
<1>1. /\ document \in Documents /\ phase = "header" /\ stdin = document /\ sextets = <<>>
      /\ stdout = <<>> /\ numGroups = 0
    BY DEF PC!Init
<1>2. document \in Seq(Nat)
    BY <1>1, PemAssumption
<1>3. Len(document) \in Nat /\ document = SubSeq(document, 0 + 1, Len(document))
    BY <1>2
<1>4. PC!TypeOK
    BY <1>1 DEF PC!TypeOK
<1>5. PC!Printed
    <2>1. Len(PC!Body) \in Nat
        BY <1>2, BodyFacts
    <2>2. 4*0 <= Len(PC!Body) /\ Len(<<>>) = 3*0 /\ \A k \in 1..0 : FALSE
        BY <2>1
    <2> QED
        BY <1>1, <2>2, Zenon DEF PC!Printed
<1>6. PC!NumRead = 0 /\ PC!NumRead \in 0..Len(document)
    BY <1>1, <1>3 DEF PC!NumRead
<1>7. \A j \in 1..0 : FALSE
    OBVIOUS
<1> QED
    BY <1>1, <1>3, <1>4, <1>5, <1>6, <1>7 DEF PC!PemInv

\* What the next character is for the groups.
InBody(r, n) ==
    /\ \E f : Within(document, f, r)
    /\ PC!Rank(Places, r) = n

LEMMA NextInBody ==
    ASSUME document \in Seq(Nat), NEW r \in Nat, r + 1 \in 1..Len(document), NEW n, InBody(r, n)
    PROVE  /\ document[r + 1] = PC!LF => InBody(r + 1, n)
           /\ document[r + 1] \notin {PC!LF, PC!Dash} =>
                 InBody(r + 1, n + 1) /\ n + 1 \in 1..Len(PC!Body) /\ PC!Body[n + 1] = document[r + 1]
           /\ document[r + 1] = PC!Dash => n = Len(PC!Body)
<1>1. PICK f : Within(document, f, r)
    BY Zenon DEF InBody
<1>2. PC!Rank(Places, r) = n
    BY Zenon DEF InBody
<1>3. /\ document[r + 1] = PC!LF => r + 1 \notin Places /\ Within(document, f, r + 1)
      /\ document[r + 1] \notin {PC!LF, PC!Dash} => r + 1 \in Places /\ Within(document, f, r + 1)
      /\ document[r + 1] = PC!Dash => \A i \in Places : i <= r
    BY <1>1, NextPlace
<1>4. /\ Places \in SUBSET (1..Len(document)) /\ Len(document) \in Nat
      /\ Len(PC!Body) = Cardinality(Places)
      /\ \A i \in Places : /\ PC!Rank(Places, i) \in 1..Len(PC!Body)
                           /\ PC!Body[PC!Rank(Places, i)] = document[i]
    BY BodyFacts
<1>5. /\ r + 1 \in Places => PC!Rank(Places, r + 1) = PC!Rank(Places, r) + 1
      /\ r + 1 \notin Places => PC!Rank(Places, r + 1) = PC!Rank(Places, r)
      /\ (\A i \in Places : i <= r) => PC!Rank(Places, r) = Cardinality(Places)
    BY <1>4, RankUpTo
<1>6. ASSUME document[r + 1] = PC!LF
      PROVE  InBody(r + 1, n)
    BY <1>2, <1>3, <1>5, <1>6, Zenon DEF InBody
<1>7. ASSUME document[r + 1] \notin {PC!LF, PC!Dash}
      PROVE  /\ InBody(r + 1, n + 1) /\ n + 1 \in 1..Len(PC!Body)
             /\ PC!Body[n + 1] = document[r + 1]
    <2>1. r + 1 \in Places /\ Within(document, f, r + 1)
        BY <1>3, <1>7, Zenon
    <2>2. PC!Rank(Places, r + 1) = n + 1
        BY <1>2, <1>5, <2>1, Zenon
    <2>3. n + 1 \in 1..Len(PC!Body) /\ PC!Body[n + 1] = document[r + 1]
        <3>1. /\ PC!Rank(Places, r + 1) \in 1..Len(PC!Body)
              /\ PC!Body[PC!Rank(Places, r + 1)] = document[r + 1]
            BY <1>4, <2>1
        <3> QED
            BY <2>2, <3>1, Zenon
    <2> QED
        BY <2>1, <2>2, <2>3, Zenon DEF InBody
<1>8. ASSUME document[r + 1] = PC!Dash
      PROVE  n = Len(PC!Body)
    BY <1>2, <1>3, <1>4, <1>5, <1>8, Zenon
<1> QED
    BY <1>6, <1>7, <1>8, Zenon

\* The next character of the document is taken from stdin.
LEMMA TakesNext ==
    ASSUME document \in Seq(Nat), NEW r \in 0..Len(document),
           stdin = SubSeq(document, r + 1, Len(document)), stdin # <<>>, stdin' = Tail(stdin)
    PROVE  /\ r \in Nat /\ r + 1 \in 1..Len(document) /\ r + 1 \in 0..Len(document)
           /\ Head(stdin) = document[r + 1]
           /\ stdin' = SubSeq(document, (r + 1) + 1, Len(document))
<1>1. r + 1 \in 1..Len(document) /\ Head(stdin) = document[r + 1]
    BY NextOf
<1>2. stdin' = SubSeq(document, (r + 1) + 1, Len(document))
    BY NextOf
<1>3. Len(document) \in Nat
    OBVIOUS
<1>4. r \in Nat /\ r + 1 \in 0..Len(document)
    BY <1>1, <1>3
<1> QED
    BY <1>1, <1>2, <1>4, Zenon

\* While there is still to be read.
LEMMA PemGoesOn ==
    ASSUME document' = document, document \in Documents, NEW r \in 0..Len(document),
           phase' \in {"header", "line", "b64"},
           PemTypes(phase', sextets', numGroups', stdout'),
           PrintedAre(PC!Body, numGroups', stdout'),
           stdin' = SubSeq(document, r + 1, Len(document)),
           PemReads(document, Places, PC!Body, phase', r, sextets', numGroups')
    PROVE  PC!PemInv'
<1>1. phase' # "trailer"
    OBVIOUS
<1>2. PemState(document, Places, PC!Body, phase', stdin', sextets', numGroups', stdout')
    BY <1>1, Zenon DEF PemState
<1> QED
    BY <1>2, SameDocument

LEMMA PemExits ==
    ASSUME PC!PemInv, document' = document, phase' \in {"exit", "abort"},
           sextets' = sextets, stdout' = stdout, numGroups' = numGroups
    PROVE  PC!PemInv'
<1>1. PemState(document, Places, PC!Body, phase, stdin, sextets, numGroups, stdout)
    BY PemIsState
<1>2. PemTypes(phase', sextets', numGroups', stdout')
    <2>1. phase' \in PemPhases
        BY DEF PemPhases
    <2>2. PemTypes(phase, sextets, numGroups, stdout)
        BY <1>1, Zenon DEF PemState
    <2> QED
        BY <2>1, <2>2, Zenon DEF PemTypes
<1>3. phase' \notin {"header", "line", "b64"} /\ phase' # "trailer"
    OBVIOUS
<1>4. document \in Documents /\ PrintedAre(PC!Body, numGroups', stdout')
    BY <1>1, Zenon DEF PemState
<1>5. PemState(document, Places, PC!Body, phase', stdin', sextets', numGroups', stdout')
    BY <1>2, <1>3, <1>4, Zenon DEF PemState
<1> QED
    BY <1>5, SameDocument

\* What PemInv says while there is still to be read.
LEMMA PemReading ==
    ASSUME PC!PemInv, phase \in {"header", "line", "b64"}
    PROVE  /\ document \in Documents /\ document \in Seq(Nat)
           /\ PemTypes(phase, sextets, numGroups, stdout)
           /\ PrintedAre(PC!Body, numGroups, stdout)
           /\ \E r \in 0..Len(document) :
                 /\ stdin = SubSeq(document, r + 1, Len(document))
                 /\ PemReads(document, Places, PC!Body, phase, r, sextets, numGroups)
<1>1. PemState(document, Places, PC!Body, phase, stdin, sextets, numGroups, stdout)
    BY PemIsState
<1>2. document \in Documents
    BY <1>1, Zenon DEF PemState
<1>3. document \in Seq(Nat)
    BY <1>2, PemAssumption
<1> QED
    BY <1>1, <1>3, Zenon DEF PemState

LEMMA ReadHeaderKeeps ==
    ASSUME PC!PemInv, PC!ReadHeader
    PROVE  PC!PemInv'
<1>1. /\ phase = "header" /\ document' = document /\ sextets' = sextets /\ stdout' = stdout
      /\ numGroups' = numGroups
    BY DEF PC!ReadHeader
<1>2. CASE phase' = "exit"
    BY <1>1, <1>2, PemExits
<1>3. CASE phase' # "exit"
    <2>1. stdin # <<>> /\ Head(stdin) = PC!BEGIN /\ phase' = "line" /\ stdin' = Tail(stdin)
        BY <1>3 DEF PC!ReadHeader, PC!Exit
    <2>2. /\ document \in Documents /\ document \in Seq(Nat)
          /\ PemTypes(phase, sextets, numGroups, stdout)
          /\ PrintedAre(PC!Body, numGroups, stdout)
        BY <1>1, PemReading
    <2>3. PICK r \in 0..Len(document) :
             /\ stdin = SubSeq(document, r + 1, Len(document))
             /\ PemReads(document, Places, PC!Body, phase, r, sextets, numGroups)
        BY <1>1, PemReading
    <2>4. /\ r \in Nat /\ r + 1 \in 0..Len(document) /\ Head(stdin) = document[r + 1]
          /\ stdin' = SubSeq(document, (r + 1) + 1, Len(document))
        BY <2>1, <2>2, <2>3, TakesNext
    <2>5. PC!BEGIN # PC!LF
        BY DEF PC!BEGIN, PC!LF
    <2>6. numGroups = 0 /\ sextets = <<>> /\ \A j \in 1..r : document[j] # PC!LF
        BY <1>1, <2>3 DEF PemReads
    <2>7. \A j \in 1..(r + 1) : j \in 1..r \/ j = r + 1
        BY <2>4
    <2>8. \A j \in 1..(r + 1) : document[j] # PC!LF
        BY <2>1, <2>4, <2>5, <2>6, <2>7, Zenon
    <2>9. PemReads(document, Places, PC!Body, phase', r + 1, sextets', numGroups')
        BY <1>1, <2>1, <2>6, <2>8 DEF PemReads
    <2>10. PemTypes(phase', sextets', numGroups', stdout')
        BY <1>1, <2>1, <2>2 DEF PemTypes, PemPhases
    <2> QED
        BY <1>1, <2>1, <2>2, <2>4, <2>9, <2>10, PemGoesOn
<1> QED
    BY <1>2, <1>3

LEMMA ReadFirstLineKeeps ==
    ASSUME PC!PemInv, PC!ReadLine
    PROVE  PC!PemInv'
<1>1. /\ phase = "line" /\ document' = document /\ sextets' = sextets /\ stdout' = stdout
      /\ numGroups' = numGroups
    BY DEF PC!ReadLine
<1>2. CASE phase' = "exit"
    BY <1>1, <1>2, PemExits
<1>3. CASE phase' # "exit"
    <2>1. /\ stdin # <<>> /\ stdin' = Tail(stdin)
          /\ \/ Head(stdin) = PC!LF /\ phase' = "b64"
             \/ Head(stdin) # PC!LF /\ phase' = "line"
        BY <1>1, <1>3 DEF PC!ReadLine, PC!Exit
    <2>2. /\ document \in Documents /\ document \in Seq(Nat)
          /\ PemTypes(phase, sextets, numGroups, stdout)
          /\ PrintedAre(PC!Body, numGroups, stdout)
        BY <1>1, PemReading
    <2>3. PICK r \in 0..Len(document) :
             /\ stdin = SubSeq(document, r + 1, Len(document))
             /\ PemReads(document, Places, PC!Body, phase, r, sextets, numGroups)
        BY <1>1, PemReading
    <2>4. /\ r \in Nat /\ r + 1 \in 0..Len(document) /\ r + 1 \in 1..Len(document)
          /\ Head(stdin) = document[r + 1]
          /\ stdin' = SubSeq(document, (r + 1) + 1, Len(document))
        BY <2>1, <2>2, <2>3, TakesNext
    <2>5. numGroups = 0 /\ sextets = <<>> /\ \A j \in 1..r : document[j] # PC!LF
        BY <1>1, <2>3 DEF PemReads
    <2>6. ASSUME Head(stdin) = PC!LF, phase' = "b64"
          PROVE  PemReads(document, Places, PC!Body, phase', r + 1, sextets', numGroups')
        <3>1. Within(document, r + 1, r + 1) /\ PC!Rank(Places, r + 1) = 0
            BY <2>2, <2>4, <2>5, <2>6, FirstLineEnds
        <3>2. 4*0 + Len(<<>>) = 0 /\ Len(<<>>) = 0 /\ \A j \in 1..0 : FALSE
            OBVIOUS
        <3>3. Decoding(document, Places, PC!Body, r + 1, <<>>, 0)
            BY <3>1, <3>2, Zenon DEF Decoding, KeptAre
        <3>4. phase' \notin {"header", "line"}
            BY <2>6
        <3> QED
            BY <1>1, <2>5, <3>3, <3>4, Zenon DEF PemReads
    <2>7. ASSUME Head(stdin) # PC!LF, phase' = "line"
          PROVE  PemReads(document, Places, PC!Body, phase', r + 1, sextets', numGroups')
        <3>1. \A j \in 1..(r + 1) : j \in 1..r \/ j = r + 1
            BY <2>4
        <3>2. \A j \in 1..(r + 1) : document[j] # PC!LF
            BY <2>4, <2>5, <2>7, <3>1, Zenon
        <3>3. phase' # "b64"
            BY <2>7
        <3> QED
            BY <1>1, <2>5, <3>2, <3>3, Zenon DEF PemReads
    <2>8. PemReads(document, Places, PC!Body, phase', r + 1, sextets', numGroups')
        BY <2>1, <2>6, <2>7, Zenon
    <2>9. phase' \in {"header", "line", "b64"}
        BY <2>1
    <2>10. PemTypes(phase', sextets', numGroups', stdout')
        BY <1>1, <2>2, <2>9 DEF PemTypes, PemPhases
    <2> QED
        BY <1>1, <2>2, <2>4, <2>8, <2>9, <2>10, PemGoesOn
<1> QED
    BY <1>2, <1>3

LEMMA EofInB64Keeps ==
    ASSUME PC!PemInv, PC!EofInB64
    PROVE  PC!PemInv'
BY PemExits DEF PC!EofInB64

LEMMA ReadTrailerKeeps ==
    ASSUME PC!PemInv, PC!ReadTrailer
    PROVE  PC!PemInv'
BY PemExits DEF PC!ReadTrailer, PC!Exit

LEMMA PemStutters ==
    ASSUME PC!PemInv, UNCHANGED pcVars
    PROVE  PC!PemInv'
<1>1. /\ document' = document /\ phase' = phase /\ stdin' = stdin /\ sextets' = sextets
      /\ numGroups' = numGroups /\ stdout' = stdout
    BY DEF pcVars
<1>2. PemState(document, Places, PC!Body, phase', stdin', sextets', numGroups', stdout')
    BY <1>1, PemIsState, Zenon
<1> QED
    BY <1>1, <1>2, SameDocument

\* A character that is decoded is neither the end of a line nor the dash.
LEMMA SextetFacts ==
    ASSUME NEW c, PC!IsSextet(c)
    PROVE  PC!Sextet(c) \in 0..64 /\ c \notin {PC!LF, PC!Dash}
<1> USE DEF PC!Upper, PC!Lower, PC!Digit, PC!Plus, PC!Slash, PC!Pad, PC!LF, PC!Dash
<1>1. CASE c \in PC!Upper
    BY <1>1 DEF PC!Sextet
<1>2. CASE c \in PC!Lower
    <2>1. c \notin PC!Upper /\ c \notin PC!Digit /\ c # PC!Plus /\ c # PC!Slash /\ c # PC!Pad
        BY <1>2
    <2>2. PC!Sextet(c) = c - 71
        BY <1>2, <2>1, Zenon DEF PC!Sextet
    <2> QED
        BY <1>2, <2>2
<1>3. CASE c \in PC!Digit
    <2>1. c \notin PC!Upper /\ c \notin PC!Lower /\ c # PC!Plus /\ c # PC!Slash /\ c # PC!Pad
        BY <1>3
    <2>2. PC!Sextet(c) = c + 4
        BY <1>3, <2>1, Zenon DEF PC!Sextet
    <2> QED
        BY <1>3, <2>2
<1>4. CASE c = PC!Plus
    BY <1>4 DEF PC!Sextet
<1>5. CASE c = PC!Slash
    BY <1>5 DEF PC!Sextet
<1>6. CASE c = PC!Pad
    BY <1>6 DEF PC!Sextet
<1> QED
    BY <1>1, <1>2, <1>3, <1>4, <1>5, <1>6 DEF PC!IsSextet

\* One more sextet is kept.
LEMMA SextetKept ==
    ASSUME NEW B, NEW g \in Nat, NEW x \in Seq(0..64), NEW v \in 0..64, KeptAre(B, g, x),
           v = PC!Sextet(B[(4*g + Len(x)) + 1]), PC!IsSextet(B[(4*g + Len(x)) + 1])
    PROVE  /\ KeptAre(B, g, Append(x, v)) /\ Append(x, v) \in Seq(0..64)
           /\ Len(Append(x, v)) = Len(x) + 1
<1> DEFINE h == Append(x, v)
<1>1. /\ h \in Seq(0..64) /\ Len(h) = Len(x) + 1 /\ Len(x) \in Nat
      /\ \A i \in 1..Len(x) : h[i] = x[i]
      /\ h[Len(x) + 1] = v
    BY AppendProperties
<1> HIDE DEF h
<1>2. ASSUME NEW j \in 1..Len(h)
      PROVE  PC!IsSextet(B[4*g + j]) /\ h[j] = PC!Sextet(B[4*g + j])
    <2>1. CASE j = Len(x) + 1
        <3>1. (4*g + Len(x)) + 1 = 4*g + j
            BY <1>1, <2>1
        <3> QED
            BY <1>1, <2>1, <3>1, Zenon
    <2>2. CASE j # Len(x) + 1
        <3>1. j \in 1..Len(x)
            BY <1>1, <2>2
        <3> QED
            BY <1>1, <3>1, Zenon DEF KeptAre
    <2> QED
        BY <2>1, <2>2
<1> QED
    BY <1>1, <1>2, Zenon DEF KeptAre, h

LEMMA DecodeB64Keeps ==
    ASSUME PC!PemInv, PC!DecodeB64
    PROVE  PC!PemInv'
<1>1. phase = "b64" /\ document' = document /\ stdin # <<>> /\ stdin' = Tail(stdin)
    BY DEF PC!DecodeB64
<1> DEFINE c == Head(stdin)
           B == PC!Body
           n == 4*numGroups + Len(sextets)
<1>2. /\ document \in Documents /\ document \in Seq(Nat)
      /\ PemTypes(phase, sextets, numGroups, stdout)
      /\ PrintedAre(B, numGroups, stdout)
    BY <1>1, PemReading
<1>3. PICK r \in 0..Len(document) :
         /\ stdin = SubSeq(document, r + 1, Len(document))
         /\ PemReads(document, Places, B, phase, r, sextets, numGroups)
    BY <1>1, PemReading
<1>4. /\ r \in Nat /\ r + 1 \in 0..Len(document) /\ r + 1 \in 1..Len(document)
      /\ c = document[r + 1] /\ stdin' = SubSeq(document, (r + 1) + 1, Len(document))
    BY <1>1, <1>2, <1>3, TakesNext
<1>5. Decoding(document, Places, B, r, sextets, numGroups)
    BY <1>1, <1>3, Zenon DEF PemReads
<1>6. InBody(r, n) /\ KeptAre(B, numGroups, sextets)
    BY <1>5, Zenon DEF Decoding, InBody
<1>7. /\ c = PC!LF => InBody(r + 1, n)
      /\ c \notin {PC!LF, PC!Dash} =>
            InBody(r + 1, n + 1) /\ n + 1 \in 1..Len(B) /\ B[n + 1] = c
      /\ c = PC!Dash => n = Len(B)
    <2> HIDE DEF n
    <2> QED
        BY <1>2, <1>4, <1>6, NextInBody
<1>8. /\ sextets \in Seq(0..64) /\ Len(sextets) < 4 /\ Len(sextets) \in Nat
      /\ stdout \in Seq(0..255) /\ numGroups \in Nat
    BY <1>2 DEF PemTypes
<1> HIDE DEF c, B, n
\* It is enough to decode on.
<1>9. ASSUME phase' = "b64", PrintedAre(B, numGroups', stdout'),
             sextets' \in Seq(0..64), Len(sextets') < 4, stdout' \in Seq(0..255), numGroups' \in Nat,
             InBody(r + 1, 4*numGroups' + Len(sextets')), KeptAre(B, numGroups', sextets')
      PROVE  PC!PemInv'
    <2>1. Decoding(document, Places, B, r + 1, sextets', numGroups')
        BY <1>9, Zenon DEF Decoding, InBody
    <2>2. phase' \notin {"header", "line"} /\ phase' \in {"header", "line", "b64"}
        BY <1>9
    <2>3. PemReads(document, Places, B, phase', r + 1, sextets', numGroups')
        BY <2>1, <2>2, Zenon DEF PemReads
    <2>4. PemTypes(phase', sextets', numGroups', stdout')
        BY <1>9, <2>2, Zenon DEF PemTypes, PemPhases
    <2> QED
        BY <1>1, <1>2, <1>4, <1>9, <2>2, <2>3, <2>4, PemGoesOn DEF B
<1>10. CASE phase' = "exit"
    <2>1. sextets' = sextets /\ stdout' = stdout /\ numGroups' = numGroups
        BY <1>1, <1>10 DEF PC!DecodeB64
    <2> QED
        BY <1>1, <1>10, <2>1, PemExits
<1>11. CASE phase' = "trailer"
    <2>1. c = PC!Dash /\ sextets' = sextets /\ stdout' = stdout /\ numGroups' = numGroups
        BY <1>1, <1>11 DEF PC!DecodeB64, PC!Exit, c
    <2>2. n = Len(B)
        BY <1>7, <2>1
    <2>3. Len(B) = 4*numGroups' + Len(sextets')
        BY <2>1, <2>2, Zenon DEF n
    <2>4. phase' \notin {"header", "line", "b64"}
        BY <1>11
    <2>5. PemTypes(phase', sextets', numGroups', stdout')
        BY <1>2, <1>11, <2>1 DEF PemTypes, PemPhases
    <2>6. PemState(document, Places, B, phase', stdin', sextets', numGroups', stdout')
        BY <1>2, <2>1, <2>3, <2>4, <2>5, Zenon DEF PemState
    <2> QED
        BY <1>1, <2>6, SameDocument DEF B
<1>12. CASE phase' \notin {"exit", "trailer"}
    <2>1. /\ phase' = "b64"
          /\ \/ /\ PC!IsSextet(c) /\ Len(sextets) < 3
                /\ sextets' = Append(sextets, PC!Sextet(c))
                /\ stdout' = stdout /\ numGroups' = numGroups
             \/ /\ PC!IsSextet(c) /\ Len(sextets) = 3
                /\ stdout' = stdout \o PC!Octets(Append(sextets, PC!Sextet(c)))
                /\ numGroups' = numGroups + 1
                /\ sextets' = <<>>
             \/ c = PC!LF /\ sextets' = sextets /\ stdout' = stdout /\ numGroups' = numGroups
        BY <1>1, <1>12, Zenon DEF PC!DecodeB64, PC!Exit, c
    <2>2. CASE c = PC!LF /\ sextets' = sextets /\ stdout' = stdout /\ numGroups' = numGroups
        <3>1. InBody(r + 1, 4*numGroups' + Len(sextets'))
            BY <1>7, <2>2, Zenon DEF n
        <3> QED
            BY <1>2, <1>6, <1>8, <1>9, <2>1, <2>2, <3>1, Zenon
    <2>3. CASE /\ PC!IsSextet(c) /\ Len(sextets) < 3
               /\ sextets' = Append(sextets, PC!Sextet(c))
               /\ stdout' = stdout /\ numGroups' = numGroups
        <3>1. PC!Sextet(c) \in 0..64 /\ c \notin {PC!LF, PC!Dash}
            BY <2>3, SextetFacts
        <3>2. /\ InBody(r + 1, n + 1)
              /\ PC!Sextet(c) = PC!Sextet(B[n + 1]) /\ PC!IsSextet(B[n + 1])
            BY <1>7, <2>3, <3>1, Zenon
        <3>3. /\ PC!Sextet(c) = PC!Sextet(B[(4*numGroups + Len(sextets)) + 1])
              /\ PC!IsSextet(B[(4*numGroups + Len(sextets)) + 1])
            BY <3>2, Zenon DEF n
        <3>4. /\ KeptAre(B, numGroups, sextets') /\ sextets' \in Seq(0..64)
              /\ Len(sextets') = Len(sextets) + 1
            BY <1>6, <1>8, <2>3, <3>1, <3>3, SextetKept, Zenon
        <3>5. Len(sextets') < 4 /\ 4*numGroups' + Len(sextets') = n + 1
            BY <1>8, <2>3, <3>4 DEF n
        <3>6. InBody(r + 1, 4*numGroups' + Len(sextets'))
            BY <3>2, <3>5, Zenon
        <3> QED
            BY <1>2, <1>8, <1>9, <2>1, <2>3, <3>4, <3>5, <3>6, Zenon
    <2>4. CASE /\ PC!IsSextet(c) /\ Len(sextets) = 3
               /\ stdout' = stdout \o PC!Octets(Append(sextets, PC!Sextet(c)))
               /\ numGroups' = numGroups + 1
               /\ sextets' = <<>>
        <3>1. PC!Sextet(c) \in 0..64 /\ c \notin {PC!LF, PC!Dash}
            BY <2>4, SextetFacts
        <3>2. /\ InBody(r + 1, n + 1) /\ n + 1 \in 1..Len(B)
              /\ PC!Sextet(c) = PC!Sextet(B[n + 1]) /\ PC!IsSextet(B[n + 1])
            BY <1>7, <2>4, <3>1, Zenon
        <3>3. n + 1 = 4*numGroups + 4
            BY <1>8, <2>4 DEF n
        <3>4. /\ 4*numGroups + 4 <= Len(B)
              /\ PC!Sextet(c) = PC!Sextet(B[4*numGroups + 4])
              /\ PC!IsSextet(B[4*numGroups + 4])
            <4>1. Len(B) \in Nat
                BY <1>2, BodyFacts DEF B
            <4>2. n + 1 <= Len(B)
                BY <3>2, <4>1
            <4> QED
                BY <3>2, <3>3, <4>2, Zenon
        <3>5. Len(sextets) + 1 = 4
            BY <2>4
        <3>6. PrintedAre(B, numGroups', stdout') /\ stdout' \in Seq(0..255)
            BY <1>2, <1>6, <1>8, <2>4, <3>1, <3>4, <3>5, GroupPrinted, Zenon
        <3>7. /\ sextets' \in Seq(0..64) /\ Len(sextets') = 0 /\ Len(sextets') < 4
              /\ numGroups' \in Nat /\ 4*numGroups' + 0 = 4*numGroups + 4
            BY <1>8, <2>4
        <3>8. InBody(r + 1, 4*numGroups' + Len(sextets'))
            BY <3>2, <3>3, <3>7, Zenon
        <3>9. KeptAre(B, numGroups', sextets')
            <4>1. \A j \in 1..0 : FALSE
                OBVIOUS
            <4> QED
                BY <3>7, <4>1, Zenon DEF KeptAre
        <3> QED
            BY <1>9, <2>1, <3>6, <3>7, <3>8, <3>9, Zenon
    <2> QED
        BY <2>1, <2>2, <2>3, <2>4, Zenon
<1> QED
    BY <1>10, <1>11, <1>12

LEMMA PemStep ==
    ASSUME PC!PemInv, PC!Next \/ UNCHANGED pcVars
    PROVE  PC!PemInv'
<1>1. UNCHANGED PC!pcVars => UNCHANGED pcVars
    BY DEF PC!pcVars, pcVars
<1> QED
    BY <1>1, ReadHeaderKeeps, ReadFirstLineKeeps, DecodeB64Keeps, EofInB64Keeps,
       ReadTrailerKeeps, PemStutters DEF PC!Next, PC!Ended

\* A part of a sequence.
LEMMA PartOfSeq ==
    ASSUME NEW S, NEW s \in Seq(S), NEW a \in Nat, NEW m \in Nat, a + m <= Len(s)
    PROVE  SubSeq(s, a + 1, a + m) = [i \in 1..m |-> s[a + i]]
<1> DEFINE t == SubSeq(s, a + 1, a + m)
<1>1. Len(t) = m /\ t \in Seq(S) /\ \A i \in 1..m : t[i] = s[a + i]
    OBVIOUS
<1>2. t = [i \in 1..Len(t) |-> t[i]]
    BY <1>1
<1> HIDE DEF t
<1> QED
    BY <1>1, <1>2 DEF t

LEMMA GroupsAre ==
    ASSUME NEW B \in Seq(Nat), NEW g \in Nat, NEW o, PrintedAre(B, g, o), NEW k \in 1..g
    PROVE  LET x == SubSeq(B, 4*k - 3, 4*k)
           IN  /\ \A j \in 1..4 : PC!IsSextet(x[j])
               /\ \A i \in 1..3 : {x[i], x[i + 1]} \cap {PC!Plus, PC!Slash} = {} =>
                     o[3*(k - 1) + i] = PC!Decoded(x)[i]
<1>1. 4*g <= Len(B) /\ Len(B) \in Nat
    BY DEF PrintedAre
<1> DEFINE x == SubSeq(B, 4*k - 3, 4*k)
           h == GroupOf(B, k)
           a == 4*(k - 1)
<1>2. a \in Nat /\ a + 1 = 4*k - 3 /\ a + 4 = 4*k /\ a + 4 <= Len(B)
    BY <1>1
<1> HIDE DEF a
<1>3. x = [i \in 1..4 |-> B[a + i]]
    <2>1. SubSeq(B, a + 1, a + 4) = [i \in 1..4 |-> B[a + i]]
        <3>1. 4 \in Nat
            OBVIOUS
        <3> QED
            BY <1>2, <3>1, PartOfSeq
    <2> QED
        BY <1>2, <2>1, Zenon
<1>4. \A i \in 1..4 : PC!IsSextet(x[i]) /\ h[i] = PC!Sextet(x[i])
    <2>1. \A i \in 1..4 : x[i] = B[a + i] /\ h[i] = PC!Sextet(B[a + i])
        BY <1>3, Zenon DEF GroupOf, a
    <2>2. \A i \in 1..4 : PC!IsSextet(B[a + i])
        BY Zenon DEF PrintedAre, a
    <2> HIDE DEF x, h
    <2> QED
        BY <2>1, <2>2, Zenon
<1> HIDE DEF x
<1>5. ASSUME NEW i \in 1..3, {x[i], x[i + 1]} \cap {PC!Plus, PC!Slash} = {}
      PROVE  o[3*(k - 1) + i] = PC!Decoded(x)[i]
    <2>1. o[3*(k - 1) + i] = PC!Octets(h)[i]
        BY Zenon DEF PrintedAre
    <2> HIDE DEF h
    <2>2. PC!Octets(h)[i] = PC!Decoded(x)[i]
        BY <1>4, <1>5, GroupIsDecoded
    <2> QED
        BY <2>1, <2>2, Zenon
<1> QED
    BY <1>4, <1>5 DEF x

LEMMA PemDecodes ==
    ASSUME PC!PemInv
    PROVE  PC!GroupsDecoded
<1> DEFINE B == PC!Body
<1>1. PemState(document, Places, B, phase, stdin, sextets, numGroups, stdout)
    BY PemIsState
<1>2. document \in Seq(Nat)
    BY <1>1, PemAssumption DEF PemState
<1>3. B \in Seq(Nat) /\ Len(B) \in Nat /\ DOMAIN B = 1..Len(B)
    <2>1. B \in Seq(Nat)
        BY <1>2, BodyFacts
    <2> HIDE DEF B
    <2> QED
        BY <2>1
<1> HIDE DEF B
<1>4. /\ PrintedAre(B, numGroups, stdout)
      /\ PemTypes(phase, sextets, numGroups, stdout)
      /\ phase = "trailer" => Len(B) = 4*numGroups + Len(sextets)
    BY <1>1, Zenon DEF PemState
<1>5. /\ numGroups \in Nat /\ stdout \in Seq(0..255)
      /\ sextets \in Seq(0..64) /\ Len(sextets) < 4
    BY <1>4, Zenon DEF PemTypes
<1>6. 4*numGroups <= Len(B) /\ Len(stdout) = 3*numGroups
    BY <1>4, Zenon DEF PrintedAre
<1>7. ASSUME NEW k \in 1..numGroups
      PROVE  LET g == SubSeq(B, 4*k - 3, 4*k)
             IN  /\ \A j \in 1..4 : PC!IsSextet(g[j])
                 /\ \A i \in 1..3 : {g[i], g[i + 1]} \cap {PC!Plus, PC!Slash} = {} =>
                       stdout[3*(k - 1) + i] = PC!Decoded(g)[i]
    <2>1. B \in Seq(Nat) /\ numGroups \in Nat /\ PrintedAre(B, numGroups, stdout)
        BY <1>3, <1>4, <1>5
    <2> QED
        BY <2>1, GroupsAre
<1>8. ASSUME phase = "trailer"
      PROVE  numGroups = Len(B) \div 4
    <2>1. PICK z \in 0..3 : z = Len(sextets)
        <3>1. Len(sextets) \in Nat /\ Len(sextets) < 4
            BY <1>5
        <3>2. \A m \in Nat : m < 4 => m \in 0..3
            OBVIOUS
        <3> QED
            BY <3>1, <3>2, Zenon
    <2>2. PICK y \in Nat : y = numGroups
        BY <1>5
    <2>3. PICK x \in Nat : x = Len(B) /\ x = 4*y + z
        BY <1>3, <1>4, <1>8, <2>1, <2>2, Zenon
    <2>4. y = x \div 4
        BY <2>3
    <2> QED
        BY <2>2, <2>3, <2>4, Zenon
<1> QED
    BY <1>6, <1>7, <1>8, Zenon DEF PC!GroupsDecoded, B

-----------------------------------------------------------------------------
(* The streams together.                                                   *)

StreamsInv ==
    /\ part = "ByteChunkOStream" => BC!ByteChunkInv
    /\ part = "ConcatInputStream" => CI!ConcatInv
    /\ part = "CRLFtoLFOutputStream" => CL!CRLFInv
    /\ part = "PaisaLogParser" => PL!PaisaLogInv
    /\ part = "Asn1Digger" => AdInv
    /\ part = "PemCodec" => PC!PemInv

LEMMA StreamsInit ==
    Init => StreamsInv
<1> SUFFICES ASSUME Init
             PROVE  StreamsInv
    OBVIOUS
<1>1. /\ part = "ByteChunkOStream" => BC!Init
      /\ part = "ConcatInputStream" => CI!Init
      /\ part = "CRLFtoLFOutputStream" => CL!Init
      /\ part = "PaisaLogParser" => PL!Init
      /\ part = "Asn1Digger" => AD!Init
      /\ part = "PemCodec" => PC!Init
    BY DEF Init
<1> QED
    BY <1>1, ByteChunkInit, ConcatInit, CRLFInit, PaisaInit, AdInit, PemInit DEF StreamsInv

LEMMA StreamsStep ==
    StreamsInv /\ [Next]_<<part, bcVars, ciVars, clVars, pcVars, plVars, adVars>> => StreamsInv'
<1> SUFFICES ASSUME StreamsInv,
                    Next \/ UNCHANGED <<part, bcVars, ciVars, clVars, pcVars, plVars, adVars>>
             PROVE  StreamsInv'
    OBVIOUS
<1>1. /\ part' = part
      /\ part = "ByteChunkOStream" => BC!Next \/ UNCHANGED bcVars
      /\ part = "ConcatInputStream" => CI!Next \/ UNCHANGED ciVars
      /\ part = "CRLFtoLFOutputStream" => CL!Next \/ UNCHANGED clVars
      /\ part = "PaisaLogParser" => PL!Next \/ UNCHANGED plVars
      /\ part = "Asn1Digger" => AD!Next \/ UNCHANGED adVars
      /\ part = "PemCodec" => PC!Next \/ UNCHANGED pcVars
    BY DEF Next
<1>2. part = "ByteChunkOStream" => BC!ByteChunkInv'
    BY <1>1, ByteChunkStep, ByteChunkStutters DEF StreamsInv
<1>3. part = "ConcatInputStream" => CI!ConcatInv'
    BY <1>1, ConcatStep, ConcatStutters DEF StreamsInv
<1>4. part = "CRLFtoLFOutputStream" => CL!CRLFInv'
    BY <1>1, CRLFStep DEF StreamsInv
<1>5. part = "PaisaLogParser" => PL!PaisaLogInv'
    BY <1>1, PaisaStep DEF StreamsInv
<1>6. part = "Asn1Digger" => AdInv'
    BY <1>1, AdStep DEF StreamsInv
<1>7. part = "PemCodec" => PC!PemInv'
    BY <1>1, PemStep DEF StreamsInv
<1> QED
    BY <1>1, <1>2, <1>3, <1>4, <1>5, <1>6, <1>7 DEF StreamsInv

\* What is inductive for each of the streams holds in every state.
THEOREM StreamsInvariant == Spec => []StreamsInv
<1>1. Init => StreamsInv
    BY StreamsInit
<1>2. StreamsInv /\ [Next]_<<part, bcVars, ciVars, clVars, pcVars, plVars, adVars>> => StreamsInv'
    BY StreamsStep
<1> QED
    BY <1>1, <1>2, PTL DEF Spec

\* ByteChunkOStream.java: for every chunk size, for arrays of any length and whenever the
\* handler throws, the bytes accepted get to the handler once and in order, in chunks of
\* at most that size, and then the end, once.
THEOREM ChunksAreInOrder == Spec => []ChunksInOrder
<1>1. StreamsInv => ChunksInOrder
    BY DEF StreamsInv, ChunksInOrder, BC!ByteChunkInv
<1> QED
    BY <1>1, StreamsInvariant, PTL

\* ConcatInputStream.java: for any number of sources of any length, however short their
\* reads are and whichever of them throw, the caller gets their bytes once and in order,
\* except those of calls that threw.
THEOREM BytesAreInOrder == Spec => []BytesInOrder
<1>1. StreamsInv => BytesInOrder
    BY DEF StreamsInv, BytesInOrder, CI!ConcatInv
<1> QED
    BY <1>1, StreamsInvariant, PTL

\* ConcatInputStream.java closes every source once, as it leaves it or with close().
THEOREM EverySourceIsClosedOnce == Spec => []EverySourceClosedOnce
<1>1. StreamsInv => EverySourceClosedOnce
    BY DEF StreamsInv, EverySourceClosedOnce, CI!ConcatInv
<1> QED
    BY <1>1, StreamsInvariant, PTL

\* CRLFtoLFOutputStream.java: for any bytes, any calls of flush() between them and
\* whenever the other stream throws, it gets what was written with CR LF replaced by LF.
THEOREM OnlyCRLFIsReplaced == Spec => []OnlyCRLFReplaced
<1>1. StreamsInv => OnlyCRLFReplaced
    BY DEF StreamsInv, OnlyCRLFReplaced, CL!CRLFInv
<1> QED
    BY <1>1, StreamsInvariant, PTL

\* PaisaLogParser.lua: for log files of any length, the entries hold every line that was
\* understood and not skipped once and in order, each with the lines behind its head.
THEOREM LinesAreKept == Spec => []LinesKept
<1>1. StreamsInv => LinesKept
    BY DEF StreamsInv, LinesKept, PL!PaisaLogInv
<1> QED
    BY <1>1, StreamsInvariant, PTL

\* PemCodec.c: for documents of any length and whatever their lines are, three octets are
\* printed for every complete group of four characters of the body, in order and for no
\* other characters, and when the trailer is reached for all of them; an octet is that of
\* Base64 unless one of the two characters it is made from is '+' or '/'.
THEOREM GroupsAreDecoded == Spec => []GroupsDecoded
<1>1. StreamsInv => GroupsDecoded
    BY PemDecodes DEF StreamsInv, GroupsDecoded
<1> QED
    BY <1>1, StreamsInvariant, PTL

\* Asn1Digger.c: for documents of any length, buffers of any size and any number of
\* columns, the dump of a value of less than 2^31 octets shows its octets in order, each
\* once, all of them before the next tag is read and before a success, and the next tag is
\* read right behind it; the buffer is only left while the length is 2^31 or more.
THEOREM ValuesAreDumped == Spec => []DumpFollowsInput
<1>1. StreamsInv => DumpFollowsInput
    BY AdFollowsInput DEF StreamsInv, DumpFollowsInput
<1> QED
    BY <1>1, StreamsInvariant, PTL
=============================================================================
