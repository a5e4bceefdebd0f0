------------------------ MODULE NetToolsOutputProofs ------------------------
(***************************************************************************)
(* What a tool puts out piece by piece is the whole that was asked for:    *)
(* the command line of the launchers, and the order in which resclone.js   *)
(* visits a tree.                                                          *)
(***************************************************************************)
EXTENDS NetToolsProofs

(* Sequences one behind the other.                                         *)

\* What holds for a number only if it holds for a lower one holds for none.
LEMMA NoLeastOne ==
    ASSUME NEW S \in SUBSET Nat, \A x \in S : \E y \in S : y < x
    PROVE  S = {}
<1> DEFINE less == {ss \in Nat \X Nat : ss[1] < ss[2]}
<1>1. IsWellFoundedOn(less, Nat)
    BY NatLessThanWellFounded DEF OpToRel
<1>2. \A x, y \in Nat : y < x => <<y, x>> \in less
    <2> SUFFICES ASSUME NEW x \in Nat, NEW y \in Nat, y < x
                 PROVE  <<y, x>> \in less
        OBVIOUS
    <2>1. <<y, x>> \in Nat \X Nat /\ <<y, x>>[1] = y /\ <<y, x>>[2] = x
        OBVIOUS
    <2> QED
        BY <2>1
<1> HIDE DEF less
<1>3. S # {} => \E x \in S : \A y \in S : ~(<<y, x>> \in less)
    BY <1>1, WFMin
<1>4. \A x \in S : \E y \in S : <<y, x>> \in less
    BY <1>2
<1> QED
    BY <1>3, <1>4

\* A sequence over C.
Word(C) == Seq(C)

LEMMA WordAssoc ==
    ASSUME NEW C, NEW a \in Word(C), NEW b \in Word(C), NEW c \in Word(C)
    PROVE  (a \o b) \o c = a \o (b \o c)
BY ConcatAssociative DEF Word

\* What holds for all of them.
LEMMA WordFacts ==
    ASSUME NEW C
    PROVE  /\ <<>> \in Word(C) /\ Len(<<>>) = 0
           /\ \A c \in C : <<c>> \in Word(C) /\ Len(<<c>>) = 1
           /\ \A a \in Word(C) : /\ Len(a) \in Nat /\ <<>> \o a = a /\ a \o <<>> = a
                                  /\ a # <<>> => Len(a) > 0
           /\ \A a, b \in Word(C) : a \o b \in Word(C) /\ Len(a \o b) = Len(a) + Len(b)
           /\ \A a, b, c \in Word(C) : (a \o b) \o c = a \o (b \o c)
<1>1. <<>> \in Word(C) /\ Len(<<>>) = 0
    BY DEF Word
<1>2. ASSUME NEW c \in C PROVE <<c>> \in Word(C) /\ Len(<<c>>) = 1
    BY DEF Word
<1>3. ASSUME NEW a \in Word(C)
      PROVE  Len(a) \in Nat /\ <<>> \o a = a /\ a \o <<>> = a /\ (a # <<>> => Len(a) > 0)
    BY DEF Word
<1>4. ASSUME NEW a \in Word(C), NEW b \in Word(C)
      PROVE  a \o b \in Word(C) /\ Len(a \o b) = Len(a) + Len(b)
    BY DEF Word
<1>5. ASSUME NEW a \in Word(C), NEW b \in Word(C), NEW c \in Word(C)
      PROVE  (a \o b) \o c = a \o (b \o c)
    BY WordAssoc
<1> QED
    BY <1>1, <1>2, <1>3, <1>4, <1>5

Regrouped(v, t, m, x) == ((v \o t) \o m) \o x = v \o ((t \o m) \o x)

LEMMA Regroup ==
    ASSUME NEW C, NEW v \in Word(C), NEW t \in Word(C), NEW m \in Word(C), NEW x \in Word(C)
    PROVE  Regrouped(v, t, m, x)
<1>1. (v \o t) \o m = v \o (t \o m)
    BY WordAssoc
<1> DEFINE w == t \o m
<1>2. w \in Word(C)
    BY WordFacts
<1> HIDE DEF w
<1>3. (v \o w) \o x = v \o (w \o x)
    BY <1>2, WordAssoc
<1> QED
    BY <1>1, <1>3 DEF w, Regrouped

OneMore(C, a, c) ==
    /\ Append(a, c) \in Word(C) /\ Append(a, c) = a \o <<c>> /\ <<c>> \in Word(C)
    /\ \A x \in Word(C) : (a \o <<c>>) \o x = a \o (<<c>> \o x)

LEMMA Appended ==
    ASSUME NEW C, NEW a \in Word(C), NEW c \in C
    PROVE  OneMore(C, a, c)
<1>1. Append(a, c) \in Word(C) /\ Append(a, c) = a \o <<c>> /\ <<c>> \in Word(C)
    BY DEF Word
<1> DEFINE b == <<c>>
<1> HIDE DEF b
<1>2. b \in Word(C)
    BY <1>1 DEF b
<1>3. \A x \in Word(C) : (a \o b) \o x = a \o (b \o x)
    BY <1>2, WordAssoc
<1> QED
    BY <1>1, <1>3 DEF b, OneMore

LEMMA EmptyAdded == \A C : \A a \in Word(C) : <<>> \o a = a /\ a \o <<>> = a
BY WordFacts

\* f begins with c, and H says what comes after each element.
Unfolds(f, T, c, k, H) ==
    /\ f \in [0..k -> T] /\ f[0] = c
    /\ \A i \in 1..k : f[i] = H[i][f[i - 1]]

\* There is such an f.
LEMMA RecursionExists ==
    ASSUME NEW T, NEW c \in T, NEW n \in Nat, NEW H \in [1..n -> [T -> T]]
    PROVE  \E f : Unfolds(f, T, c, n, H)
<1> DEFINE Fits(f, k) == /\ f \in [0..k -> T] /\ f[0] = c
                         /\ \A i \in 1..k : f[i] = H[i][f[i - 1]]
           S == {k \in 0..n : ~\E f : Fits(f, k)}
<1>1. ASSUME NEW k \in S PROVE \E j \in S : j < k
    <2>1. k \in 0..n /\ ~\E f : Fits(f, k)
        OBVIOUS
    <2>2. k # 0
        <3>1. Fits([i \in 0..0 |-> c], 0)
            OBVIOUS
        <3> HIDE DEF Fits
        <3> QED
            BY <2>1, <3>1
    <2>3. k - 1 \in 0..n /\ k - 1 < k /\ k \in 1..n /\ k \in Nat
        BY <2>1, <2>2
    <2>4. ASSUME NEW f, Fits(f, k - 1) PROVE FALSE
        <3> DEFINE g == [i \in 0..k |-> IF i = k THEN H[k][f[k - 1]] ELSE f[i]]
        <3>1. f \in [0..(k - 1) -> T] /\ f[0] = c /\ \A i \in 1..(k - 1) : f[i] = H[i][f[i - 1]]
            BY <2>4
        <3>2. H[k][f[k - 1]] \in T
            <4>1. f[k - 1] \in T /\ H[k] \in [T -> T]
                BY <2>3, <3>1
            <4> QED
                BY <4>1
        <3>3. g \in [0..k -> T]
            <4> SUFFICES ASSUME NEW i \in 0..k
                         PROVE  (IF i = k THEN H[k][f[k - 1]] ELSE f[i]) \in T
                OBVIOUS
            <4>1. CASE i = k
                BY <3>2, <4>1
            <4>2. CASE i # k
                <5>1. i \in 0..(k - 1)
                    BY <2>3, <4>2
                <5> QED
                    BY <3>1, <4>2, <5>1
            <4> QED
                BY <4>1, <4>2
        <3>4. g[k] = H[k][f[k - 1]] /\ \A i \in 0..(k - 1) : g[i] = f[i]
            <4>1. k \in 0..k /\ \A i \in 0..(k - 1) : i \in 0..k /\ i # k
                BY <2>3
            <4> QED
                BY <4>1, Zenon
        <3> HIDE DEF g
        <3>5. g[0] = c
            BY <2>3, <3>1, <3>4
        <3>6. ASSUME NEW i \in 1..k PROVE g[i] = H[i][g[i - 1]]
            <4>1. i - 1 \in 0..(k - 1)
                BY <2>3
            <4>2. g[i - 1] = f[i - 1]
                BY <3>4, <4>1
            <4>3. CASE i = k
                BY <3>4, <4>2, <4>3
            <4>4. CASE i # k
                <5>1. i \in 1..(k - 1) /\ i \in 0..(k - 1)
                    BY <2>3, <4>4
                <5> QED
                    BY <3>1, <3>4, <4>2, <5>1
            <4> QED
                BY <4>3, <4>4
        <3>7. Fits(g, k)
            BY <3>3, <3>5, <3>6
        <3> HIDE DEF Fits
        <3> QED
            BY <2>1, <3>7
    <2> HIDE DEF Fits
    <2> QED
        BY <2>3, <2>4
<1>2. S = {}
    <2>1. S \in SUBSET Nat
        OBVIOUS
    <2> HIDE DEF S
    <2> QED
        BY <1>1, <2>1, NoLeastOne
<1>3. \E f : Fits(f, n)
    <2>1. n \in 0..n
        OBVIOUS
    <2> HIDE DEF Fits
    <2> QED
        BY <1>2, <2>1
<1> QED
    BY <1>3, Zenon DEF Unfolds

LEMMA ElementOf == \A S : \A s \in Seq(S) : \A i \in 1..Len(s) : s[i] \in S
OBVIOUS

\* A sequence of words is one.
LEMMA ElementTyped ==
    ASSUME NEW C, NEW A \in Seq(Word(C)), NEW i \in 1..Len(A)
    PROVE  A[i] \in Word(C)
OBVIOUS

\* f holds the texts of A one behind the other, up to each of the first k.
Joins(C, f, A, k) ==
    /\ f \in [0..k -> Word(C)]
    /\ f[0] = <<>>
    /\ \A i \in 1..k : f[i] = f[i - 1] \o A[i]

\* There is such an f.
LEMMA JoinsExist ==
    ASSUME NEW C, NEW A \in Seq(Word(C))
    PROVE  \E f : Joins(C, f, A, Len(A))
<1> DEFINE n == Len(A)
           H == [i \in 1..n |-> [x \in Word(C) |-> x \o A[i]]]
<1>1. n \in Nat /\ <<>> \in Word(C)
    BY WordFacts
<1>2. H \in [1..n -> [Word(C) -> Word(C)]]
    <2>1. ASSUME NEW i \in 1..n, NEW x \in Word(C) PROVE x \o A[i] \in Word(C)
        BY ElementTyped, WordFacts
    <2> QED
        BY <2>1
<1>3. \A i \in 1..n : \A x \in Word(C) : H[i][x] = x \o A[i]
    OBVIOUS
<1> HIDE DEF H, n
<1>4. PICK f : Unfolds(f, Word(C), <<>>, n, H)
    BY <1>1, <1>2, RecursionExists
<1>5. f \in [0..n -> Word(C)] /\ f[0] = <<>> /\ \A i \in 1..n : f[i] = H[i][f[i - 1]]
    BY <1>4 DEF Unfolds
<1>6. ASSUME NEW i \in 1..n PROVE f[i] = f[i - 1] \o A[i]
    <2>1. i - 1 \in 0..n
        BY <1>1
    <2> QED
        BY <1>3, <1>5, <2>1
<1> QED
    BY <1>5, <1>6 DEF Joins, n

\* FlattenSeq gives all of them.
LEMMA FlattenJoins ==
    ASSUME NEW C, NEW A \in Seq(Word(C)), Len(A) > 0, NEW f, Joins(C, f, A, Len(A))
    PROVE  ML!FlattenSeq(A) = f[Len(A)]
<1> DEFINE n == Len(A)
           P(g) == g = [i \in 1..n |-> IF i = 1 THEN A[i] ELSE g[i - 1] \o A[i]]
           g == CHOOSE h : P(h)
<1>1. n \in Nat /\ n > 0
    OBVIOUS
<1>2. /\ f \in [0..n -> Word(C)] /\ f[0] = <<>>
      /\ \A i \in 1..n : f[i] = f[i - 1] \o A[i]
    BY Zenon DEF Joins
<1>3. f[1] = A[1]
    <2>1. 1 \in 1..n /\ A[1] \in Word(C)
        BY <1>1
    <2>2. f[1] = <<>> \o A[1]
        <3>1. 1 - 1 = 0 /\ f[1] = f[1 - 1] \o A[1]
            BY <1>2, <2>1
        <3> QED
            BY <1>2, <3>1
    <2> QED
        BY <2>1, <2>2 DEF Word
<1>4. P([i \in 1..n |-> f[i]])
    <2> DEFINE h == [i \in 1..n |-> f[i]]
    <2>1. ASSUME NEW i \in 1..n PROVE h[i] = IF i = 1 THEN A[i] ELSE h[i - 1] \o A[i]
        <3>1. CASE i = 1
            BY <1>3, <3>1
        <3>2. CASE i # 1
            <4>1. i - 1 \in 1..n
                BY <1>1, <3>2
            <4> QED
                BY <1>2, <3>2, <4>1
        <3> QED
            BY <3>1, <3>2
    <2> QED
        BY <2>1
<1> HIDE DEF P
<1>5. P(g)
    BY <1>4
<1>6. ML!FlattenSeq(A) = g[n]
    <2>1. Len(A) # 0
        BY <1>1
    <2> QED
        BY <2>1, Zenon DEF ML!FlattenSeq, P
<1> HIDE DEF g
<1>7. \A i \in 1..n : g[i] = IF i = 1 THEN A[i] ELSE g[i - 1] \o A[i]
    BY <1>5 DEF P
<1> DEFINE S == {i \in 1..n : g[i] # f[i]}
<1>8. ASSUME NEW i \in S PROVE \E j \in S : j < i
    <2>1. i \in 1..n /\ g[i] # f[i]
        OBVIOUS
    <2>2. i # 1
        BY <1>3, <1>7, <2>1
    <2>3. i - 1 \in 1..n /\ i - 1 < i
        BY <1>1, <2>1, <2>2
    <2>4. g[i] = g[i - 1] \o A[i] /\ f[i] = f[i - 1] \o A[i]
        BY <1>2, <1>7, <2>1, <2>2
    <2>5. g[i - 1] # f[i - 1]
        BY <2>1, <2>4
    <2> QED
        BY <2>3, <2>5
<1>9. S = {}
    <2>1. S \in SUBSET Nat
        OBVIOUS
    <2> HIDE DEF S
    <2> QED
        BY <1>8, <2>1, NoLeastOne
<1>10. n \in 1..n
    BY <1>1
<1> QED
    BY <1>6, <1>9, <1>10

\* Joined texts only get longer.
LEMMA JoinsGrow ==
    ASSUME NEW C, NEW A \in Seq(Word(C)), NEW n \in 0..Len(A), NEW f, Joins(C, f, A, n),
           NEW i \in 0..n, NEW j \in i..n
    PROVE  Len(f[i]) <= Len(f[j])
<1>1. /\ f \in [0..n -> Word(C)] /\ \A k \in 1..n : f[k] = f[k - 1] \o A[k]
    BY Zenon DEF Joins
<1>2. Len(A) \in Nat /\ n \in Nat /\ n <= Len(A) /\ i \in Nat /\ i <= n
    OBVIOUS
<1> DEFINE S == {k \in i..n : ~(Len(f[i]) <= Len(f[k]))}
<1>3. ASSUME NEW k \in S PROVE \E m \in S : m < k
    <2>1. k \in i..n /\ ~(Len(f[i]) <= Len(f[k]))
        OBVIOUS
    <2>2. f[i] \in Word(C) /\ f[k] \in Word(C)
        BY <1>1, <1>2, <2>1
    <2>3. k # i
        BY <2>1, <2>2 DEF Word
    <2>4. k \in 1..n /\ k - 1 \in i..n /\ k - 1 < k /\ k - 1 \in 0..n /\ k \in 1..Len(A)
        BY <1>2, <2>1, <2>3
    <2>5. f[k] = f[k - 1] \o A[k] /\ f[k - 1] \in Word(C) /\ A[k] \in Word(C)
        BY <1>1, <2>4
    <2>6. Len(f[k]) = Len(f[k - 1]) + Len(A[k]) /\ Len(A[k]) \in Nat /\ Len(f[k - 1]) \in Nat
        BY <2>5, WordFacts
    <2> DEFINE x == Len(f[i])
               y == Len(f[k])
               z == Len(f[k - 1])
               d == Len(A[k])
    <2>7. x \in Nat /\ z \in Nat /\ d \in Nat /\ y = z + d /\ ~(x <= y)
        <3>1. x \in Nat
            BY <2>2 DEF Word
        <3> QED
            BY <2>1, <2>6, <3>1, Zenon
    <2> HIDE DEF x, y, z, d
    <2>8. ~(x <= z)
        BY <2>7
    <2> QED
        BY <2>4, <2>8 DEF x, z
<1>4. S = {}
    <2>1. S \in SUBSET Nat
        BY <1>2
    <2> HIDE DEF S
    <2> QED
        BY <1>3, <2>1, NoLeastOne
<1>5. j \in i..n
    OBVIOUS
<1> QED
    BY <1>4, <1>5

-----------------------------------------------------------------------------

\* t holds what is left behind each of the texts.
Tails(C, t, A) ==
    /\ t \in [0..Len(A) -> Word(C)]
    /\ t[Len(A)] = <<>>
    /\ \A i \in 1..Len(A) : t[i - 1] = A[i] \o t[i]

LEMMA TailsExist ==
    ASSUME NEW C, NEW A \in Seq(Word(C))
    PROVE  \E t : Tails(C, t, A)
<1> DEFINE n == Len(A)
           H == [i \in 1..n |-> [x \in Word(C) |-> A[n - i + 1] \o x]]
<1>1. n \in Nat /\ <<>> \in Word(C)
    BY WordFacts
<1>2. H \in [1..n -> [Word(C) -> Word(C)]]
    <2>1. ASSUME NEW i \in 1..n, NEW x \in Word(C) PROVE A[n - i + 1] \o x \in Word(C)
        <3>1. n - i + 1 \in 1..n
            BY <1>1
        <3>2. A[n - i + 1] \in Word(C)
            BY <3>1, ElementTyped
        <3> QED
            BY <3>2, WordFacts
    <2> QED
        BY <2>1
<1>3. \A i \in 1..n : \A x \in Word(C) : H[i][x] = A[n - i + 1] \o x
    OBVIOUS
<1> HIDE DEF H, n
<1>4. PICK f : Unfolds(f, Word(C), <<>>, n, H)
    BY <1>1, <1>2, RecursionExists
<1>5. f \in [0..n -> Word(C)] /\ f[0] = <<>> /\ \A i \in 1..n : f[i] = H[i][f[i - 1]]
    BY <1>4 DEF Unfolds
<1> DEFINE t == [i \in 0..n |-> f[n - i]]
<1>6. t \in [0..n -> Word(C)]
    <2>1. \A i \in 0..n : n - i \in 0..n
        BY <1>1
    <2> QED
        BY <1>5, <2>1
<1>7. \A i \in 0..n : t[i] = f[n - i]
    OBVIOUS
<1> HIDE DEF t
<1>8. t[n] = <<>>
    <2>1. n \in 0..n /\ n - n = 0
        BY <1>1
    <2> QED
        BY <1>5, <1>7, <2>1
<1>9. ASSUME NEW i \in 1..n PROVE t[i - 1] = A[i] \o t[i]
    <2> DEFINE j == n - i + 1
    <2>1. j \in 1..n /\ i - 1 \in 0..n /\ n - (i - 1) = j /\ i \in 0..n /\ j - 1 = n - i /\ n - j + 1 = i
          /\ j - 1 \in 0..n
        BY <1>1
    <2>2. t[i - 1] = f[j] /\ t[i] = f[j - 1]
        <3>1. t[i - 1] = f[n - (i - 1)] /\ t[i] = f[n - i]
            BY <1>7, <2>1
        <3> QED
            BY <2>1, <3>1
    <2> HIDE DEF j
    <2>3. f[j] = H[j][f[j - 1]] /\ f[j - 1] \in Word(C)
        BY <1>5, <2>1
    <2>4. f[j] = A[n - j + 1] \o f[j - 1]
        BY <1>3, <2>1, <2>3
    <2> QED
        BY <2>1, <2>2, <2>4
<1> QED
    BY <1>6, <1>8, <1>9 DEF Tails, n

\* Before the first of them, everything is left.
LEMMA FlattenTails ==
    ASSUME NEW C, NEW A \in Seq(Word(C)), NEW t, Tails(C, t, A)
    PROVE  ML!FlattenSeq(A) = t[0] /\ t[0] \in Word(C)
<1> DEFINE n == Len(A)
<1>1. n \in Nat
    OBVIOUS
<1>2. /\ t \in [0..n -> Word(C)] /\ t[n] = <<>> /\ \A i \in 1..n : t[i - 1] = A[i] \o t[i]
    BY Zenon DEF Tails
<1>3. t[0] \in Word(C)
    BY <1>1, <1>2
<1>4. CASE n = 0
    <2>1. ML!FlattenSeq(A) = A
        BY <1>4, Zenon DEF ML!FlattenSeq
    <2>2. A = <<>>
        BY <1>4
    <2> QED
        BY <1>2, <1>3, <1>4, <2>1, <2>2
<1>5. CASE n > 0
    <2>1. PICK f : Joins(C, f, A, n)
        BY JoinsExist
    <2>2. ML!FlattenSeq(A) = f[n]
        BY <1>5, <2>1, FlattenJoins, Zenon
    <2>3. /\ f \in [0..n -> Word(C)] /\ f[0] = <<>> /\ \A i \in 1..n : f[i] = f[i - 1] \o A[i]
        BY <2>1, Zenon DEF Joins
    <2>4. \A i \in 1..n : A[i] \in Word(C)
        BY ElementTyped
    <2> HIDE DEF n
    <2> DEFINE S == {i \in 0..n : f[i] \o t[i] # t[0]}
    <2>5. ASSUME NEW i \in S PROVE \E j \in S : j < i
        <3>1. i \in 0..n /\ f[i] \o t[i] # t[0]
            OBVIOUS
        <3>2. i # 0
            <4>1. <<>> \o t[0] = t[0]
                BY <1>3, WordFacts
            <4> QED
                BY <2>3, <3>1, <4>1
        <3>3. i \in 1..n /\ i - 1 \in 0..n /\ i - 1 < i
            BY <1>1, <3>1, <3>2
        <3>4. f[i] = f[i - 1] \o A[i] /\ t[i - 1] = A[i] \o t[i]
            BY <1>2, <2>3, <3>3
        <3>5. f[i - 1] \in Word(C) /\ A[i] \in Word(C) /\ t[i] \in Word(C)
            BY <1>2, <2>3, <2>4, <3>1, <3>3
        <3>6. f[i] \o t[i] = f[i - 1] \o t[i - 1]
            <4> DEFINE x == f[i - 1]
                       y == A[i]
                       z == t[i]
            <4>1. x \in Word(C) /\ y \in Word(C) /\ z \in Word(C)
                BY <3>5
            <4> HIDE DEF x, y, z
            <4>2. (x \o y) \o z = x \o (y \o z)
                BY <4>1, WordAssoc
            <4> QED
                BY <3>4, <4>2, Zenon DEF x, y, z
        <3> QED
            BY <3>1, <3>3, <3>6
    <2>6. S = {}
        <3>1. 0..n \subseteq Nat
            BY <1>1
        <3>2. S \in SUBSET Nat
            BY <3>1, Zenon
        <3> HIDE DEF S
        <3> QED
            BY <2>5, <3>2, NoLeastOne
    <2>7. n \in 0..n
        BY <1>1
    <2>8. f[n] \o t[n] = t[0]
        BY <2>6, <2>7
    <2>9. f[n] \o <<>> = f[n]
        BY <2>3, <2>7, WordFacts
    <2> QED
        BY <1>2, <1>3, <2>2, <2>8, <2>9 DEF n
<1> QED
    BY <1>1, <1>4, <1>5

\* What was put out first is a prefix of it.
LEMMA PrefixOfMore ==
    ASSUME NEW S, NEW c \in Seq(S), NEW more \in Seq(S)
    PROVE  /\ ML!IsPrefix(c, c \o more) /\ RC!IsPrefix(c, c \o more)
           /\ Len(c \o more) >= Len(c)
<1>1. Len(c) \in Nat /\ Len(more) \in Nat /\ Len(c \o more) = Len(c) + Len(more)
    OBVIOUS
<1>2. SubSeq(c \o more, 1, Len(c)) = c /\ SubSeq(c, 1, Len(c)) = c
    OBVIOUS
<1> QED
    BY <1>1, <1>2 DEF ML!IsPrefix, RC!IsPrefix

-----------------------------------------------------------------------------
(* The order in which resclone.js should visit the nodes.                  *)

\* The visits of the children of n, and the one of n.
VisitsOf(v, tree, n) == [i \in 1..Len(tree.kids[n]) |-> v[tree.kids[n][i]]]
Visiting(v, tree, n) ==
    IF n \in tree.leaf THEN <<n>>
    ELSE <<n>> \o RC!FlattenSeq(VisitsOf(v, tree, n)) \o <<n>>

IsVisit(v, tree) ==
    /\ v \in [Node -> Word(Node)]
    /\ \A n \in Node : v[n] = Visiting(v, tree, n)

\* A bound for the depth of a tree, and what the depth of a node is at least.
IsDepth(depth, tree) ==
    /\ depth \in [Node -> 0..Cardinality(Node)]
    /\ \A n \in Node : \A i \in 1..Len(tree.kids[n]) : depth[n] < depth[tree.kids[n][i]]

LEMMA TreeIsDeep ==
    ASSUME NEW tree \in Trees
    PROVE  /\ \E depth : IsDepth(depth, tree)
           /\ Cardinality(Node) \in Nat
           /\ tree.kids \in [Node -> Seq(Node)]
<1>1. tree.kids \in [Node -> Seq(Node)] /\ IsFiniteSet(Node)
    BY ResCloneAssumption, Zenon
<1>2. PICK depth \in [Node -> 0..Cardinality(Node)] :
        \A n \in Node : \A i \in DOMAIN tree.kids[n] : depth[n] < depth[tree.kids[n][i]]
    BY ResCloneAssumption, Zenon
<1>3. \A n \in Node : DOMAIN tree.kids[n] = 1..Len(tree.kids[n])
    BY <1>1
<1>4. IsDepth(depth, tree)
    BY <1>2, <1>3, Zenon DEF IsDepth
<1> QED
    BY <1>1, <1>4, FS_CardinalityType

LEMMA SameFlatten == \A A : RC!FlattenSeq(A) = ML!FlattenSeq(A)
BY Zenon DEF RC!FlattenSeq, ML!FlattenSeq

LEMMA VisitingTyped ==
    ASSUME NEW tree \in Trees, NEW v \in [Node -> Word(Node)], NEW n \in Node
    PROVE  Visiting(v, tree, n) \in Word(Node) /\ VisitsOf(v, tree, n) \in Seq(Word(Node))
<1>1. VisitsOf(v, tree, n) \in Seq(Word(Node))
    <2> DEFINE kids == tree.kids[n]
               A == [i \in 1..Len(kids) |-> v[kids[i]]]
    <2>1. kids \in Seq(Node)
        BY TreeIsDeep
    <2> HIDE DEF kids
    <2>2. A \in Seq(Word(Node))
        BY <2>1
    <2> QED
        BY <2>2 DEF VisitsOf, kids
<1>2. RC!FlattenSeq(VisitsOf(v, tree, n)) \in Word(Node)
    <2> DEFINE A == VisitsOf(v, tree, n)
    <2> HIDE DEF A
    <2>1. PICK t : Tails(Node, t, A)
        BY <1>1, TailsExist DEF A
    <2>2. ML!FlattenSeq(A) \in Word(Node)
        BY <1>1, <2>1, FlattenTails DEF A
    <2> QED
        BY <2>2, SameFlatten DEF A
<1>3. <<n>> \in Word(Node)
    BY WordFacts
<1> DEFINE a == <<n>>
           b == RC!FlattenSeq(VisitsOf(v, tree, n))
<1> HIDE DEF a, b
<1>4. a \o b \o a \in Word(Node)
    BY <1>2, <1>3, WordFacts DEF a, b
<1> QED
    BY <1>1, <1>3, <1>4 DEF Visiting, a, b

\* A visit of n depends on the ones of its children only.
LEMMA VisitingLocal ==
    ASSUME NEW tree \in Trees, NEW v, NEW w, NEW n \in Node,
           \A i \in 1..Len(tree.kids[n]) : v[tree.kids[n][i]] = w[tree.kids[n][i]]
    PROVE  Visiting(v, tree, n) = Visiting(w, tree, n)
<1>1. VisitsOf(v, tree, n) = VisitsOf(w, tree, n)
    BY DEF VisitsOf
<1> QED
    BY <1>1, Zenon DEF Visiting

\* The recursion ends, as every child is deeper.
LEMMA VisitExists ==
    ASSUME NEW tree \in Trees
    PROVE  \E v : IsVisit(v, tree)
<1> DEFINE N == Cardinality(Node)
<1>1. PICK depth : IsDepth(depth, tree)
    BY TreeIsDeep
<1>2. /\ N \in Nat /\ depth \in [Node -> 0..N] /\ tree.kids \in [Node -> Seq(Node)]
      /\ \A n \in Node : \A i \in 1..Len(tree.kids[n]) : depth[n] < depth[tree.kids[n][i]]
    BY <1>1, TreeIsDeep DEF IsDepth
<1> HIDE DEF N
<1> DEFINE Below(v, k) == /\ v \in [Node -> Word(Node)]
                          /\ \A n \in Node : depth[n] > N - k => v[n] = Visiting(v, tree, n)
           S == {k \in 0..(N + 1) : ~\E v : Below(v, k)}
<1>3. ASSUME NEW k \in S PROVE \E j \in S : j < k
    <2>1. k \in 0..(N + 1) /\ ~\E v : Below(v, k)
        OBVIOUS
    <2>2. k # 0
        <3> SUFFICES ASSUME k = 0 PROVE FALSE
            OBVIOUS
        <3> DEFINE v == [n \in Node |-> <<>>]
        <3>1. v \in [Node -> Word(Node)]
            BY WordFacts
        <3>2. \A n \in Node : ~(depth[n] > N - k)
            BY <1>2
        <3> HIDE DEF v
        <3>3. Below(v, k)
            BY <3>1, <3>2
        <3> HIDE DEF Below
        <3> QED
            BY <2>1, <3>3
    <2>3. k - 1 \in 0..(N + 1) /\ k - 1 < k
        BY <1>2, <2>1, <2>2
    <2>4. ASSUME NEW v, Below(v, k - 1) PROVE FALSE
        <3> DEFINE w == [n \in Node |-> IF depth[n] > N - k THEN Visiting(v, tree, n) ELSE <<>>]
        <3>1. /\ v \in [Node -> Word(Node)]
              /\ \A n \in Node : depth[n] > N - (k - 1) => v[n] = Visiting(v, tree, n)
            BY <2>4
        <3>2. w \in [Node -> Word(Node)]
            <4>1. \A n \in Node : Visiting(v, tree, n) \in Word(Node)
                BY <3>1, VisitingTyped
            <4>2. <<>> \in Word(Node)
                BY WordFacts
            <4> QED
                BY <4>1, <4>2
        <3>3. \A n \in Node : depth[n] > N - k => w[n] = Visiting(v, tree, n)
            OBVIOUS
        <3> HIDE DEF w
        <3>4. ASSUME NEW n \in Node, depth[n] > N - k
              PROVE  w[n] = Visiting(w, tree, n)
            <4>1. ASSUME NEW i \in 1..Len(tree.kids[n])
                  PROVE  v[tree.kids[n][i]] = w[tree.kids[n][i]]
                <5> DEFINE m == tree.kids[n][i]
                <5>1. m \in Node
                    BY <1>2
                <5>2. depth[n] < depth[m]
                    BY <1>2
                <5> HIDE DEF m
                <5> DEFINE x == depth[n]
                           y == depth[m]
                <5>3. x \in Nat /\ y \in Nat /\ x < y /\ x > N - k /\ k \in Nat /\ N \in Nat
                    BY <1>2, <2>1, <3>4, <5>1, <5>2
                <5> HIDE DEF x, y
                <5>4. y > N - (k - 1) /\ y > N - k
                    BY <5>3
                <5>5. v[m] = Visiting(v, tree, m) /\ w[m] = Visiting(v, tree, m)
                    BY <3>1, <3>3, <5>1, <5>4 DEF y
                <5> QED
                    BY <5>5 DEF m
            <4>2. Visiting(v, tree, n) = Visiting(w, tree, n)
                BY <4>1, VisitingLocal
            <4> QED
                BY <3>3, <3>4, <4>2
        <3>5. Below(w, k)
            BY <3>2, <3>4
        <3> HIDE DEF Below
        <3> QED
            BY <2>1, <3>5
    <2> HIDE DEF Below
    <2> QED
        BY <2>3, <2>4
<1>4. S = {}
    <2>1. 0..(N + 1) \subseteq Nat
        BY <1>2
    <2>2. S \in SUBSET Nat
        BY <2>1, Zenon
    <2> HIDE DEF S
    <2> QED
        BY <1>3, <2>2, NoLeastOne
<1>5. PICK v : Below(v, N + 1)
    <2>1. N + 1 \in 0..(N + 1)
        BY <1>2
    <2> HIDE DEF Below
    <2> QED
        BY <1>4, <2>1
<1>6. \A n \in Node : depth[n] > N - (N + 1)
    BY <1>2
<1>7. IsVisit(v, tree)
    BY <1>5, <1>6 DEF IsVisit
<1> QED
    BY <1>7

Visit(tree) == CHOOSE v : IsVisit(v, tree)

\* It is the order of the specification.
LEMMA OrderIsVisit ==
    ASSUME RC!TypeOK
    PROVE  RC!PreAndPostOrder = Visit(remote)[1] /\ IsVisit(Visit(remote), remote)
<1> DEFINE tree == remote
           v == Visit(tree)
           P(g) == g = [n \in Node |->
                           IF n \in tree.leaf THEN <<n>>
                           ELSE <<n>>
                                \o RC!FlattenSeq([i \in 1..Len(tree.kids[n]) |-> g[tree.kids[n][i]]])
                                \o <<n>>]
           g == CHOOSE h : P(h)
<1>1. tree \in Trees
    BY DEF RC!TypeOK
<1>2. IsVisit(v, tree)
    BY <1>1, VisitExists DEF Visit
<1>3. \A h : P(h) <=> h = [n \in Node |-> Visiting(h, tree, n)]
    BY Zenon DEF Visiting, VisitsOf
<1>4. RC!PreAndPostOrder = g[1]
    BY Zenon DEF RC!PreAndPostOrder, RC!Root
<1> HIDE DEF P
<1>5. P(v)
    <2>1. v = [n \in Node |-> Visiting(v, tree, n)]
        BY <1>2 DEF IsVisit
    <2> QED
        BY <1>3, <2>1, Zenon
<1>6. P(g)
    BY <1>5
<1>7. g = [n \in Node |-> Visiting(g, tree, n)]
    BY <1>3, <1>6, Zenon
<1> HIDE DEF g, v
<1>8. \A n \in Node : g[n] = Visiting(g, tree, n) /\ v[n] = Visiting(v, tree, n)
    BY <1>2, <1>7 DEF IsVisit
<1> DEFINE N == Cardinality(Node)
<1>9. PICK depth : IsDepth(depth, tree)
    BY <1>1, TreeIsDeep
<1>10. /\ N \in Nat /\ depth \in [Node -> 0..N] /\ tree.kids \in [Node -> Seq(Node)]
       /\ \A n \in Node : \A i \in 1..Len(tree.kids[n]) : depth[n] < depth[tree.kids[n][i]]
    BY <1>1, <1>9, TreeIsDeep DEF IsDepth
<1> HIDE DEF N
<1> DEFINE S == {k \in 0..N : \E n \in Node : N - depth[n] = k /\ g[n] # v[n]}
<1>11. ASSUME NEW k \in S PROVE \E j \in S : j < k
    <2>1. PICK n \in Node : N - depth[n] = k /\ g[n] # v[n]
        OBVIOUS
    <2>2. PICK i \in 1..Len(tree.kids[n]) : g[tree.kids[n][i]] # v[tree.kids[n][i]]
        <3>1. Visiting(g, tree, n) # Visiting(v, tree, n)
            BY <1>8, <2>1
        <3> QED
            BY <1>1, <3>1, VisitingLocal
    <2> DEFINE m == tree.kids[n][i]
    <2>3. m \in Node /\ depth[n] < depth[m] /\ g[m] # v[m]
        <3>1. tree.kids[n] \in Seq(Node)
            BY <1>10
        <3>2. m \in Node
            BY <3>1, ElementOf, Zenon
        <3> QED
            BY <1>10, <2>2, <3>2, Zenon
    <2> HIDE DEF m
    <2> DEFINE x == depth[n]
               y == depth[m]
    <2>4. x \in 0..N /\ y \in 0..N /\ x < y /\ N - x = k /\ N \in Nat
        BY <1>10, <2>1, <2>3
    <2> HIDE DEF x, y
    <2>5. N - y \in 0..N /\ N - y < k
        BY <2>4
    <2> QED
        BY <2>3, <2>5 DEF y
<1>12. S = {}
    <2>1. 0..N \subseteq Nat
        BY <1>10
    <2>2. S \in SUBSET Nat
        BY <2>1, Zenon
    <2> HIDE DEF S
    <2> QED
        BY <1>11, <2>2, NoLeastOne
<1>13. g[1] = v[1]
    <2>1. 1 \in Node
        BY ResCloneAssumption
    <2>2. N - depth[1] \in 0..N
        BY <1>10, <2>1
    <2> QED
        BY <1>12, <2>1, <2>2
<1> QED
    BY <1>2, <1>4, <1>13 DEF v

\* What is left of n behind each of its children.
After(tree, n) == CHOOSE t : Tails(Node, t, VisitsOf(Visit(tree), tree, n))

LEMMA AfterFacts ==
    ASSUME NEW tree \in Trees, IsVisit(Visit(tree), tree), NEW n \in Node, n \notin tree.leaf
    PROVE  LET t == After(tree, n)
               kids == tree.kids[n]
           IN  /\ kids \in Seq(Node) /\ Len(kids) \in Nat
               /\ t \in [0..Len(kids) -> Word(Node)] /\ t[Len(kids)] = <<>>
               /\ \A i \in 1..Len(kids) : /\ kids[i] \in Node
                                          /\ t[i - 1] = Visit(tree)[kids[i]] \o t[i]
               /\ Visit(tree)[n] = (<<n>> \o t[0]) \o <<n>>
<1> DEFINE t == After(tree, n)
           kids == tree.kids[n]
           v == Visit(tree)
           A == VisitsOf(v, tree, n)
<1>1. v \in [Node -> Word(Node)] /\ v[n] = Visiting(v, tree, n)
    BY DEF IsVisit
<1> HIDE DEF v
<1>2. kids \in Seq(Node) /\ Len(kids) \in Nat /\ \A i \in 1..Len(kids) : kids[i] \in Node
    <2>1. kids \in Seq(Node)
        BY TreeIsDeep
    <2> HIDE DEF kids
    <2> QED
        BY <2>1
<1>3. A \in Seq(Word(Node))
    BY <1>1, VisitingTyped
<1>4. Len(A) = Len(kids) /\ \A i \in 1..Len(kids) : A[i] = v[kids[i]]
    <2> HIDE DEF kids
    <2> QED
        BY <1>2 DEF VisitsOf, kids
<1> HIDE DEF A
<1>5. Tails(Node, t, A)
    <2>1. \E s : Tails(Node, s, A)
        BY <1>3, TailsExist
    <2> QED
        BY <2>1 DEF After, A, v
<1> HIDE DEF t
<1>6. ML!FlattenSeq(A) = t[0]
    BY <1>3, <1>5, FlattenTails
<1>7. v[n] = (<<n>> \o t[0]) \o <<n>>
    BY <1>1, <1>6, SameFlatten, Zenon DEF Visiting, A
<1>8. /\ t \in [0..Len(kids) -> Word(Node)] /\ t[Len(kids)] = <<>>
      /\ \A i \in 1..Len(kids) : t[i - 1] = v[kids[i]] \o t[i]
    BY <1>4, <1>5, Zenon DEF Tails
<1> QED
    BY <1>2, <1>7, <1>8, Zenon DEF t, v

-----------------------------------------------------------------------------
(* What the frames on the stack will still return.                         *)

FrameSet == [node : Node, currentChild : Int]

\* A leaf has not been entered; the children of a collection are listed.
FrameFits(tree, req, fr) ==
    /\ fr \in FrameSet
    /\ fr.node \in tree.leaf => fr.currentChild = -1
    /\ fr.node \notin tree.leaf => /\ fr.currentChild \in -1..Len(tree.kids[fr.node])
                                   /\ req[fr.node] = "done"

RestOf(tree, fr) ==
    IF fr.currentChild = -1 THEN Visit(tree)[fr.node]
    ELSE After(tree, fr.node)[fr.currentChild] \o <<fr.node>>

\* r holds what the first k frames will return, from the top to the bottom.
Rests(tree, r, s) ==
    /\ r \in [0..Len(s) -> Word(Node)]
    /\ r[0] = <<>>
    /\ \A k \in 1..Len(s) : r[k] = RestOf(tree, s[k]) \o r[k - 1]

OnTheWay(tree, req, s, pub) ==
    /\ s \in Seq(FrameSet)
    /\ \A k \in 1..Len(s) : FrameFits(tree, req, s[k])
    /\ \E r : Rests(tree, r, s) /\ Visit(tree)[1] = pub \o r[Len(s)]

LEMMA RestTyped ==
    ASSUME NEW tree \in Trees, IsVisit(Visit(tree), tree), NEW req, NEW fr, FrameFits(tree, req, fr)
    PROVE  RestOf(tree, fr) \in Word(Node)
<1>1. fr.node \in Node
    BY DEF FrameFits, FrameSet
<1>2. CASE fr.currentChild = -1
    BY <1>1, <1>2 DEF RestOf, IsVisit
<1>3. CASE fr.currentChild # -1
    <2> DEFINE n == fr.node
               c == fr.currentChild
               t == After(tree, n)
    <2>1. n \notin tree.leaf /\ c \in -1..Len(tree.kids[n])
        BY <1>3 DEF FrameFits
    <2>2. t \in [0..Len(tree.kids[n]) -> Word(Node)] /\ Len(tree.kids[n]) \in Nat
        BY <1>1, <2>1, AfterFacts
    <2>3. RestOf(tree, fr) = t[c] \o <<n>>
        BY <1>3, Zenon DEF RestOf
    <2>4. <<n>> \in Word(Node)
        BY <1>1, WordFacts
    <2> HIDE DEF t
    <2>5. t[c] \in Word(Node)
        <3>1. c \in 0..Len(tree.kids[n])
            BY <1>3, <2>1, <2>2
        <3> QED
            BY <2>2, <3>1
    <2> DEFINE a == t[c]
               b == <<n>>
    <2> HIDE DEF a, b
    <2>6. a \o b \in Word(Node)
        BY <2>4, <2>5, WordFacts DEF a, b
    <2> QED
        BY <2>3, <2>6 DEF a, b
<1> QED
    BY <1>2, <1>3

\* The frames of s below the one at l stay; l is the top of it, or gone, or under a
\* new one.
Under(s, u, l) ==
    /\ Len(u) \in {l - 1, l, l + 1}
    /\ \A k \in 1..(l - 1) : u[k] = s[k]

AllFit(tree, req, u) == \A k \in 1..Len(u) : FrameFits(tree, req, u[k])

\* q is for u what r is for s.
GoesOn(tree, q, u, r, s, l) ==
    /\ Rests(tree, q, u) /\ q[l - 1] = r[l - 1]
    /\ \A k \in 1..Len(u) : q[k] = RestOf(tree, u[k]) \o q[k - 1]
    /\ r[l - 1] \in Word(Node) /\ r[l] = RestOf(tree, s[l]) \o r[l - 1]

LEMMA RestsGoOn ==
    ASSUME NEW tree \in Trees, IsVisit(Visit(tree), tree), NEW req,
           NEW s \in Seq(FrameSet), NEW u \in Seq(FrameSet), NEW r, Rests(tree, r, s),
           NEW l \in 1..Len(s), Under(s, u, l), AllFit(tree, req, u)
    PROVE  \E q : GoesOn(tree, q, u, r, s, l)
<1> USE DEF Under, AllFit
<1>1. /\ r \in [0..Len(s) -> Word(Node)] /\ r[0] = <<>>
      /\ \A k \in 1..Len(s) : r[k] = RestOf(tree, s[k]) \o r[k - 1]
    BY Zenon DEF Rests
<1>2. Len(s) \in Nat /\ Len(u) \in Nat
    OBVIOUS
<1> DEFINE n == Len(u)
           H == [k \in 1..n |-> [x \in Word(Node) |-> RestOf(tree, u[k]) \o x]]
<1>3. <<>> \in Word(Node)
    BY WordFacts
<1>4. H \in [1..n -> [Word(Node) -> Word(Node)]]
    <2>1. ASSUME NEW k \in 1..n, NEW x \in Word(Node)
          PROVE  RestOf(tree, u[k]) \o x \in Word(Node)
        <3>1. RestOf(tree, u[k]) \in Word(Node)
            BY RestTyped
        <3> QED
            BY <3>1, WordFacts
    <2> QED
        BY <2>1
<1>5. \A k \in 1..n : \A x \in Word(Node) : H[k][x] = RestOf(tree, u[k]) \o x
    OBVIOUS
<1> HIDE DEF H, n
<1>6. PICK q : Unfolds(q, Word(Node), <<>>, n, H)
    BY <1>2, <1>3, <1>4, RecursionExists DEF n
<1>7. q \in [0..n -> Word(Node)] /\ q[0] = <<>> /\ \A k \in 1..n : q[k] = H[k][q[k - 1]]
    BY <1>6 DEF Unfolds
<1>8. ASSUME NEW k \in 1..n PROVE q[k] = RestOf(tree, u[k]) \o q[k - 1]
    <2>1. k - 1 \in 0..n
        BY <1>2 DEF n
    <2> QED
        BY <1>5, <1>7, <2>1
<1>9. Rests(tree, q, u)
    BY <1>7, <1>8 DEF Rests, n
<1>10. l - 1 \in Nat /\ l - 1 <= n /\ l - 1 <= Len(s)
    BY <1>2 DEF n
<1> DEFINE S == {k \in 0..(l - 1) : q[k] # r[k]}
<1>11. ASSUME NEW k \in S PROVE \E j \in S : j < k
    <2>1. k \in 0..(l - 1) /\ q[k] # r[k]
        OBVIOUS
    <2>2. k # 0
        BY <1>1, <1>7, <2>1
    <2>3. k - 1 \in 0..(l - 1) /\ k - 1 < k /\ k \in 1..n /\ k \in 1..Len(s) /\ k \in 1..(l - 1)
        BY <1>2, <1>10, <2>1, <2>2 DEF n
    <2>4. q[k] = RestOf(tree, u[k]) \o q[k - 1] /\ r[k] = RestOf(tree, s[k]) \o r[k - 1]
        BY <1>1, <1>8, <2>3
    <2>5. u[k] = s[k]
        BY <2>3
    <2>6. q[k - 1] # r[k - 1]
        BY <2>1, <2>4, <2>5, Zenon
    <2> QED
        BY <2>3, <2>6
<1>12. S = {}
    <2>1. 0..(l - 1) \subseteq Nat
        BY <1>10
    <2>2. S \in SUBSET Nat
        BY <2>1, Zenon
    <2> HIDE DEF S
    <2> QED
        BY <1>11, <2>2, NoLeastOne
<1>13. q[l - 1] = r[l - 1]
    <2>1. l - 1 \in 0..(l - 1)
        BY <1>10
    <2> QED
        BY <1>12, <2>1
<1>14. r[l - 1] \in Word(Node)
    <2>1. l - 1 \in 0..Len(s)
        BY <1>2, <1>10
    <2> QED
        BY <1>1, <2>1
<1> QED
    BY <1>1, <1>8, <1>9, <1>13, <1>14 DEF n, GoesOn

\* What will be returned of the frames of u from l upwards, and x behind it.
LeftOf(tree, u, l, x) ==
    IF Len(u) = l - 1 THEN x
    ELSE IF Len(u) = l THEN RestOf(tree, u[l]) \o x
    ELSE RestOf(tree, u[l + 1]) \o (RestOf(tree, u[l]) \o x)

\* A step replaces the top frame, and what it takes from what is left it returns.
Moves(tree, req, s, pub, l, u, next) ==
    /\ l \in Nat /\ l = Len(s) /\ l > 0
    /\ u \in Seq(FrameSet) /\ Under(s, u, l)
    /\ \A k \in l..Len(u) : FrameFits(tree, req, u[k])
    /\ \A x \in Word(Node) : pub \o (RestOf(tree, s[l]) \o x) = next \o LeftOf(tree, u, l, x)

LEMMA WayGoesOn ==
    ASSUME NEW tree \in Trees, IsVisit(Visit(tree), tree), NEW req,
           NEW s, NEW pub, OnTheWay(tree, req, s, pub),
           NEW l, NEW u, NEW next, Moves(tree, req, s, pub, l, u, next)
    PROVE  OnTheWay(tree, req, u, next)
<1>0. /\ l \in Nat /\ l = Len(s) /\ l > 0
      /\ u \in Seq(FrameSet) /\ Under(s, u, l)
      /\ Len(u) \in {l - 1, l, l + 1} /\ \A k \in 1..(l - 1) : u[k] = s[k]
      /\ \A k \in l..Len(u) : FrameFits(tree, req, u[k])
      /\ \A x \in Word(Node) : pub \o (RestOf(tree, s[l]) \o x) = next \o LeftOf(tree, u, l, x)
    BY Zenon DEF Moves, Under
<1>1. s \in Seq(FrameSet) /\ \A k \in 1..Len(s) : FrameFits(tree, req, s[k])
    BY DEF OnTheWay
<1>2. PICK r : Rests(tree, r, s) /\ Visit(tree)[1] = pub \o r[Len(s)]
    BY DEF OnTheWay
<1>3. \A k \in 1..Len(u) : FrameFits(tree, req, u[k])
    <2> SUFFICES ASSUME NEW k \in 1..Len(u) PROVE FrameFits(tree, req, u[k])
        OBVIOUS
    <2>1. Len(u) \in Nat
        BY <1>0
    <2>2. CASE k < l
        <3>1. k \in 1..(l - 1) /\ k \in 1..Len(s)
            BY <1>0, <2>1, <2>2
        <3> QED
            BY <1>0, <1>1, <3>1
    <2>3. CASE ~(k < l)
        <3>1. k \in l..Len(u)
            BY <1>0, <2>1, <2>3
        <3> QED
            BY <1>0, <3>1
    <2> QED
        BY <2>2, <2>3
<1>4. l \in 1..Len(s) /\ l \in Nat /\ Len(u) \in Nat
    BY <1>0
<1>5. PICK q : GoesOn(tree, q, u, r, s, l)
    <2>1. AllFit(tree, req, u)
        BY <1>3 DEF AllFit
    <2>2. u \in Seq(FrameSet) /\ Under(s, u, l)
        BY <1>0
    <2> QED
        BY <1>1, <1>2, <1>4, <2>1, <2>2, RestsGoOn
<1>6. /\ Rests(tree, q, u) /\ q[l - 1] = r[l - 1]
      /\ \A k \in 1..Len(u) : q[k] = RestOf(tree, u[k]) \o q[k - 1]
      /\ r[l - 1] \in Word(Node) /\ r[l] = RestOf(tree, s[l]) \o r[l - 1]
    BY <1>5, Zenon DEF GoesOn
<1> DEFINE x == r[l - 1]
<1>7. q[Len(u)] = LeftOf(tree, u, l, x)
    <2>1. CASE Len(u) = l - 1
        BY <1>6, <2>1, Zenon DEF LeftOf
    <2>2. CASE Len(u) = l
        <3>1. l \in 1..Len(u) /\ l # l - 1
            BY <1>4, <2>2
        <3>2. q[l] = RestOf(tree, u[l]) \o x
            BY <1>6, <3>1
        <3> QED
            BY <2>2, <3>1, <3>2, Zenon DEF LeftOf
    <2>3. CASE Len(u) = l + 1
        <3>1. /\ l \in 1..Len(u) /\ l + 1 \in 1..Len(u) /\ (l + 1) - 1 = l
              /\ Len(u) # l - 1 /\ Len(u) # l
            BY <1>4, <2>3
        <3>2. q[l] = RestOf(tree, u[l]) \o x
            BY <1>6, <3>1
        <3>3. q[l + 1] = RestOf(tree, u[l + 1]) \o q[(l + 1) - 1]
            BY <1>6, <3>1
        <3> QED
            BY <2>3, <3>1, <3>2, <3>3, Zenon DEF LeftOf
    <2> QED
        BY <1>0, <2>1, <2>2, <2>3
<1>8. Visit(tree)[1] = next \o q[Len(u)]
    <2>1. x \in Word(Node) /\ r[Len(s)] = RestOf(tree, s[l]) \o x
        BY <1>0, <1>6, Zenon
    <2>2. pub \o (RestOf(tree, s[l]) \o x) = next \o LeftOf(tree, u, l, x)
        BY <1>0, <2>1, Zenon
    <2> QED
        BY <1>2, <1>7, <2>1, <2>2, Zenon
<1>9. u \in Seq(FrameSet) /\ Rests(tree, q, u)
    BY <1>0, <1>6
<1> QED
    BY <1>3, <1>8, <1>9, Zenon DEF OnTheWay

\* The whole is what was returned and something more.
LEMMA WayLeft ==
    ASSUME NEW tree, NEW req, NEW s, NEW pub, OnTheWay(tree, req, s, pub)
    PROVE  \E rest \in Word(Node) : Visit(tree)[1] = pub \o rest
<1>1. PICK r : Rests(tree, r, s) /\ Visit(tree)[1] = pub \o r[Len(s)]
    BY DEF OnTheWay
<1>2. Len(s) \in Nat
    BY DEF OnTheWay
<1>3. r[Len(s)] \in Word(Node)
    BY <1>1, <1>2 DEF Rests
<1> QED
    BY <1>1, <1>3

\* The four things the iterator does with the frame on the top.
LEMMA TopPopped ==
    ASSUME NEW s \in Seq(FrameSet), s # <<>>
    PROVE  LET l == Len(s)
           IN  /\ l \in Nat /\ l > 0 /\ s[l] \in FrameSet
               /\ RC!Front(s) \in Seq(FrameSet) /\ Len(RC!Front(s)) = l - 1
               /\ \A k \in 1..(l - 1) : RC!Front(s)[k] = s[k]
<1> DEFINE l == Len(s)
<1>1. l \in Nat /\ l > 0 /\ s[l] \in FrameSet
    OBVIOUS
<1>2. RC!Front(s) = SubSeq(s, 1, l - 1)
    BY DEF RC!Front
<1> HIDE DEF l
<1>3. l - 1 \in 0..Len(s)
    BY <1>1 DEF l
<1>4. /\ SubSeq(s, 1, l - 1) \in Seq(FrameSet) /\ Len(SubSeq(s, 1, l - 1)) = l - 1
      /\ \A k \in 1..(l - 1) : SubSeq(s, 1, l - 1)[k] = s[k]
    BY <1>3
<1> QED
    BY <1>1, <1>2, <1>4, Zenon DEF l

IsSet(s, l, c, u) ==
    /\ u \in Seq(FrameSet) /\ Len(u) = l
    /\ \A k \in 1..(l - 1) : u[k] = s[k]
    /\ u[l].node = s[l].node /\ u[l].currentChild = c

LEMMA TopSet ==
    ASSUME NEW s \in Seq(FrameSet), s # <<>>, NEW c \in Int
    PROVE  IsSet(s, Len(s), c, [s EXCEPT ![Len(s)].currentChild = c])
<1> DEFINE l == Len(s)
           f == [s[l] EXCEPT !.currentChild = c]
<1>1. l \in Nat /\ l > 0 /\ s[l] \in FrameSet
    OBVIOUS
<1>2. f \in FrameSet /\ f.node = s[l].node /\ f.currentChild = c
    BY <1>1 DEF FrameSet
<1> HIDE DEF f
<1>3. /\ [s EXCEPT ![l] = f] \in Seq(FrameSet) /\ Len([s EXCEPT ![l] = f]) = l
      /\ [s EXCEPT ![l] = f][l] = f
      /\ \A k \in 1..(l - 1) : [s EXCEPT ![l] = f][k] = s[k]
    BY <1>1, <1>2
<1>4. [s EXCEPT ![l].currentChild = c] = [s EXCEPT ![l] = f]
    BY DEF f
<1> QED
    BY <1>2, <1>3, <1>4, Zenon DEF IsSet

LEMMA TopPushed ==
    ASSUME NEW s \in Seq(FrameSet), NEW fr \in FrameSet
    PROVE  LET u == Append(s, fr)
           IN  /\ u \in Seq(FrameSet) /\ Len(u) = Len(s) + 1 /\ u[Len(s) + 1] = fr
               /\ \A k \in 1..Len(s) : u[k] = s[k]
OBVIOUS

LEMMA FromMinusOne == \A p \in Nat : -1 \in -1..p
OBVIOUS

\* The frame on the top of the stack.
TopIs(tree, req, s, l, fr, n, c) ==
    /\ s \in Seq(FrameSet) /\ s # <<>> /\ l = Len(s) /\ l \in Nat /\ l > 0
    /\ fr = s[l] /\ n = fr.node /\ n \in Node /\ c = fr.currentChild /\ c \in Int
    /\ n \in tree.leaf => c = -1
    /\ n \notin tree.leaf => c \in -1..Len(tree.kids[n]) /\ req[n] = "done"
    /\ RestOf(tree, fr) = IF c = -1 THEN Visit(tree)[n] ELSE After(tree, n)[c] \o <<n>>

LEMMA TopFits ==
    ASSUME NEW tree, NEW req, NEW s \in Seq(FrameSet), s # <<>>, FrameFits(tree, req, s[Len(s)])
    PROVE  TopIs(tree, req, s, Len(s), s[Len(s)], s[Len(s)].node, s[Len(s)].currentChild)
<1> DEFINE l == Len(s)
           fr == s[l]
<1>1. l \in Nat /\ l > 0 /\ fr \in FrameSet
    OBVIOUS
<1>2. fr.node \in Node /\ fr.currentChild \in Int
    BY <1>1 DEF FrameSet
<1>3. /\ fr.node \in tree.leaf => fr.currentChild = -1
      /\ fr.node \notin tree.leaf => fr.currentChild \in -1..Len(tree.kids[fr.node]) /\ req[fr.node] = "done"
    BY Zenon DEF FrameFits
<1> QED
    BY <1>1, <1>2, <1>3, Zenon DEF RestOf, TopIs

\* The frame is gone.
LEMMA FrontMoves ==
    ASSUME NEW tree, NEW req, NEW s, NEW pub, NEW l, NEW fr, NEW n, NEW c,
           TopIs(tree, req, s, l, fr, n, c),
           NEW next, \A x \in Word(Node) : pub \o (RestOf(tree, fr) \o x) = next \o x
    PROVE  Moves(tree, req, s, pub, l, RC!Front(s), next)
<1> DEFINE u == RC!Front(s)
<1>1. /\ l \in Nat /\ l > 0 /\ fr = s[l] /\ l = Len(s)
      /\ u \in Seq(FrameSet) /\ Len(u) = l - 1
      /\ \A k \in 1..(l - 1) : u[k] = s[k]
    <2>1. l \in Nat /\ l > 0 /\ fr = s[l] /\ l = Len(s) /\ s \in Seq(FrameSet) /\ s # <<>>
        BY Zenon DEF TopIs
    <2> QED
        BY <2>1, TopPopped, Zenon
<1> HIDE DEF u
<1>2. Under(s, u, l)
    BY <1>1 DEF Under
<1>3. \A k \in l..Len(u) : FrameFits(tree, req, u[k])
    BY <1>1
<1>4. \A x : LeftOf(tree, u, l, x) = x
    BY <1>1, Zenon DEF LeftOf
<1>5. \A x \in Word(Node) : pub \o (RestOf(tree, s[l]) \o x) = next \o LeftOf(tree, u, l, x)
    BY <1>1, <1>4, Zenon
<1> QED
    BY <1>1, <1>2, <1>3, <1>5, Zenon DEF Moves, u

\* A resource is returned once, a collection for the second time.
LEMMA LastMoves ==
    ASSUME NEW tree \in Trees, IsVisit(Visit(tree), tree), NEW req,
           NEW s, NEW pub \in Word(Node), NEW l, NEW fr, NEW n, NEW c,
           TopIs(tree, req, s, l, fr, n, c),
           n \in tree.leaf \/ (n \notin tree.leaf /\ c >= Len(tree.kids[n]))
    PROVE  Moves(tree, req, s, pub, l, RC!Front(s), Append(pub, n))
<1> DEFINE m == <<n>>
           next == Append(pub, n)
<1>1. n \in Node
    BY Zenon DEF TopIs
<1>2. /\ m \in Word(Node) /\ next = pub \o m
      /\ \A x \in Word(Node) : (pub \o m) \o x = pub \o (m \o x)
    <2>1. OneMore(Node, pub, n)
        BY <1>1, Appended
    <2> QED
        BY <2>1, Zenon DEF OneMore
<1>3. CASE n \in tree.leaf
    <2>1. c = -1
        BY <1>3, Zenon DEF TopIs
    <2>2. RestOf(tree, fr) = Visit(tree)[n]
        BY <2>1, Zenon DEF TopIs
    <2>3. Visit(tree)[n] = m
        BY <1>1, <1>3, Zenon DEF IsVisit, Visiting
    <2> HIDE DEF m, next
    <2>4. \A x \in Word(Node) : pub \o (RestOf(tree, fr) \o x) = next \o x
        BY <1>2, <2>2, <2>3, Zenon
    <2>5. Moves(tree, req, s, pub, l, RC!Front(s), next)
        BY <2>4, FrontMoves, Zenon
    <2> QED
        BY <2>5 DEF next
<1>4. CASE n \notin tree.leaf /\ c >= Len(tree.kids[n])
    <2> DEFINE t == After(tree, n)
               p == Len(tree.kids[n])
    <2>1. c \in -1..p
        BY <1>4, Zenon DEF TopIs
    <2>2. t[p] = <<>> /\ p \in Nat
        BY <1>1, <1>4, AfterFacts, Zenon
    <2>3. c >= p
        BY <1>4
    <2> HIDE DEF t, p
    <2>4. c = p /\ c # -1
        BY <2>1, <2>2, <2>3
    <2>5. RestOf(tree, fr) = t[c] \o m
        BY <2>4, Zenon DEF TopIs, t
    <2> HIDE DEF m, next
    <2>6. RestOf(tree, fr) = <<>> \o m
        BY <2>2, <2>4, <2>5, Zenon
    <2>7. <<>> \o m = m
        BY <1>2, EmptyAdded, Zenon
    <2>8. \A x \in Word(Node) : pub \o (RestOf(tree, fr) \o x) = next \o x
        BY <1>2, <2>6, <2>7, Zenon
    <2>9. Moves(tree, req, s, pub, l, RC!Front(s), next)
        BY <2>8, FrontMoves, Zenon
    <2> QED
        BY <2>9 DEF next
<1> QED
    BY <1>3, <1>4

\* The child c + 1 of a collection is the next one.
ChildIs(tree, req, s, l, n, d, w) ==
    /\ w \in Seq(FrameSet) /\ Len(w) = l /\ \A k \in 1..(l - 1) : w[k] = s[k]
    /\ FrameFits(tree, req, w[l]) /\ RestOf(tree, w[l]) = After(tree, n)[d] \o <<n>>

LEMMA ChildSet ==
    ASSUME NEW tree \in Trees, IsVisit(Visit(tree), tree), NEW req,
           NEW s, NEW l, NEW fr, NEW n, NEW c, TopIs(tree, req, s, l, fr, n, c), n \notin tree.leaf,
           NEW d \in 0..Len(tree.kids[n])
    PROVE  ChildIs(tree, req, s, l, n, d, [s EXCEPT ![l].currentChild = d])
<1>1. /\ l \in Nat /\ l > 0 /\ fr = s[l] /\ l = Len(s) /\ fr.node = n /\ n \in Node
      /\ req[n] = "done" /\ s \in Seq(FrameSet) /\ s # <<>>
    BY Zenon DEF TopIs
<1> DEFINE p == Len(tree.kids[n])
           w == [s EXCEPT ![l].currentChild = d]
<1>2. p \in Nat
    BY <1>1, AfterFacts
<1>3. d \in 0..p
    OBVIOUS
<1> HIDE DEF p
<1>4. d \in Int /\ d # -1 /\ d \in -1..p
    BY <1>2, <1>3
<1>5. /\ w \in Seq(FrameSet) /\ Len(w) = l /\ \A k \in 1..(l - 1) : w[k] = s[k]
      /\ w[l].node = n /\ w[l].currentChild = d
    <2>1. IsSet(s, l, d, w)
        BY <1>1, <1>4, TopSet
    <2> QED
        BY <1>1, <2>1, Zenon DEF IsSet
<1> HIDE DEF w
<1>6. w[l] \in FrameSet
    <2>1. l \in 1..Len(w)
        BY <1>1, <1>5
    <2> QED
        BY <1>5, <2>1, ElementOf, Zenon
<1>7. FrameFits(tree, req, w[l])
    BY <1>1, <1>4, <1>5, <1>6, Zenon DEF FrameFits, p
<1>8. RestOf(tree, w[l]) = After(tree, n)[d] \o <<n>>
    BY <1>4, <1>5, Zenon DEF RestOf
<1> QED
    BY <1>5, <1>7, <1>8, Zenon DEF ChildIs, w

\* A collection is returned for the first time; its children are next.
LEMMA FirstMoves ==
    ASSUME NEW tree \in Trees, IsVisit(Visit(tree), tree), NEW req,
           NEW s, NEW pub \in Word(Node), NEW l, NEW fr, NEW n, NEW c,
           TopIs(tree, req, s, l, fr, n, c), n \notin tree.leaf, c = -1
    PROVE  Moves(tree, req, s, pub, l, [s EXCEPT ![l].currentChild = 0], Append(pub, n))
<1> DEFINE u == [s EXCEPT ![l].currentChild = 0]
           t == After(tree, n)
           m == <<n>>
           next == Append(pub, n)
<1>1. n \in Node /\ l \in Nat /\ l > 0 /\ fr = s[l] /\ l = Len(s)
    BY Zenon DEF TopIs
<1>2. /\ m \in Word(Node) /\ next = pub \o m
      /\ \A x \in Word(Node) : (pub \o m) \o x = pub \o (m \o x)
    <2>1. OneMore(Node, pub, n)
        BY <1>1, Appended
    <2> QED
        BY <2>1, Zenon DEF OneMore
<1> DEFINE p == Len(tree.kids[n])
<1>3. t \in [0..p -> Word(Node)] /\ p \in Nat /\ Visit(tree)[n] = (m \o t[0]) \o m
    BY <1>1, AfterFacts, Zenon
<1> HIDE DEF t, p
<1>4. 0 \in 0..p /\ t[0] \in Word(Node)
    BY <1>3
<1>5. /\ u \in Seq(FrameSet) /\ Len(u) = l /\ \A k \in 1..(l - 1) : u[k] = s[k]
      /\ FrameFits(tree, req, u[l]) /\ RestOf(tree, u[l]) = t[0] \o m
    <2>1. ChildIs(tree, req, s, l, n, 0, u)
        BY <1>4, ChildSet DEF p
    <2> QED
        BY <2>1, Zenon DEF ChildIs, t
<1> HIDE DEF u, m
<1>6. RestOf(tree, fr) = (m \o t[0]) \o m
    BY <1>3, Zenon DEF TopIs
<1>7. Under(s, u, l)
    BY <1>5 DEF Under
<1>8. \A k \in l..Len(u) : FrameFits(tree, req, u[k])
    <2>1. \A k \in l..l : k = l
        BY <1>1
    <2> QED
        BY <1>5, <2>1, Zenon
<1>9. \A x : LeftOf(tree, u, l, x) = (t[0] \o m) \o x
    <2>1. l # l - 1
        BY <1>1
    <2> QED
        BY <1>5, <2>1, Zenon DEF LeftOf
<1> HIDE DEF next
<1>10. ASSUME NEW x \in Word(Node)
       PROVE  pub \o (RestOf(tree, s[l]) \o x) = next \o LeftOf(tree, u, l, x)
    <2> DEFINE y == (t[0] \o m) \o x
    <2>1. ((m \o t[0]) \o m) \o x = m \o y
        <3>1. Regrouped(m, t[0], m, x)
            BY <1>2, <1>4, Regroup
        <3> QED
            BY <3>1, Zenon DEF Regrouped
    <2>2. y \in Word(Node)
        BY <1>2, <1>4, WordFacts, Zenon
    <2>3. LeftOf(tree, u, l, x) = y
        BY <1>9
    <2> HIDE DEF y
    <2>4. next \o y = pub \o (m \o y)
        BY <1>2, <2>2, Zenon
    <2> QED
        BY <1>1, <1>6, <2>1, <2>3, <2>4, Zenon
<1> QED
    BY <1>1, <1>5, <1>7, <1>8, <1>10, Zenon DEF Moves, u, next

\* The next child is put on the stack.
LEMMA PushMoves ==
    ASSUME NEW tree \in Trees, IsVisit(Visit(tree), tree), NEW req,
           NEW s, NEW pub \in Word(Node), NEW l, NEW fr, NEW n, NEW c,
           TopIs(tree, req, s, l, fr, n, c), n \notin tree.leaf,
           c >= 0 /\ c < Len(tree.kids[n]),
           NEW kid \in Node, kid = tree.kids[n][c + 1], kid \in tree.leaf \/ req[kid] = "done"
    PROVE  Moves(tree, req, s, pub, l,
                 Append([s EXCEPT ![l].currentChild = c + 1],
                        [node |-> kid, currentChild |-> -1]), pub)
<1> DEFINE w == [s EXCEPT ![l].currentChild = c + 1]
           new == [node |-> kid, currentChild |-> -1]
           u == Append(w, new)
           t == After(tree, n)
           m == <<n>>
           p == Len(tree.kids[n])
           v == Visit(tree)[kid]
<1>1. n \in Node /\ l \in Nat /\ l > 0 /\ fr = s[l] /\ l = Len(s) /\ c \in Int
    BY Zenon DEF TopIs
<1>2. /\ t \in [0..p -> Word(Node)] /\ p \in Nat
      /\ \A i \in 1..p : t[i - 1] = Visit(tree)[tree.kids[n][i]] \o t[i]
    BY <1>1, AfterFacts, Zenon
<1>3. m \in Word(Node) /\ v \in Word(Node)
    <2>1. v \in Word(Node)
        BY DEF IsVisit
    <2> QED
        BY <1>1, <2>1, WordFacts, Zenon
<1>4. c >= 0 /\ c < p
    OBVIOUS
<1> HIDE DEF w, new, t, m, p
<1>5. /\ c + 1 \in 1..p /\ (c + 1) - 1 = c /\ c # -1 /\ c + 1 \in 0..p
    BY <1>1, <1>2, <1>4
<1>6. t[c] = v \o t[c + 1]
    BY <1>2, <1>5, Zenon
<1> HIDE DEF v
<1>7. t[c + 1] \in Word(Node)
    BY <1>2, <1>5
<1>8. RestOf(tree, fr) = (v \o t[c + 1]) \o m
    BY <1>5, <1>6, Zenon DEF TopIs, t, m
<1>9. /\ w \in Seq(FrameSet) /\ Len(w) = l /\ \A k \in 1..(l - 1) : w[k] = s[k]
      /\ FrameFits(tree, req, w[l]) /\ RestOf(tree, w[l]) = t[c + 1] \o m
    <2>1. ChildIs(tree, req, s, l, n, c + 1, w)
        BY <1>5, ChildSet DEF p, w
    <2> QED
        BY <2>1, Zenon DEF ChildIs, t, m
<1>10. new \in FrameSet /\ new.node = kid /\ new.currentChild = -1
    BY DEF new, FrameSet
<1>11. /\ u \in Seq(FrameSet) /\ Len(u) = l + 1 /\ u[l + 1] = new
       /\ \A k \in 1..l : u[k] = w[k]
    BY <1>9, <1>10, TopPushed, Zenon
<1> HIDE DEF u
<1>12. u[l] = w[l] /\ \A k \in 1..(l - 1) : u[k] = s[k]
    <2>1. l \in 1..l /\ \A k \in 1..(l - 1) : k \in 1..l
        BY <1>1
    <2> QED
        BY <1>9, <1>11, <2>1, Zenon
<1>13. RestOf(tree, u[l + 1]) = v
    BY <1>10, <1>11, Zenon DEF RestOf, v
<1>14. FrameFits(tree, req, u[l + 1])
    <2> DEFINE d == Len(tree.kids[kid])
    <2>1. d \in Nat
        BY TreeIsDeep
    <2>2. -1 \in -1..d
        BY <2>1, FromMinusOne, Zenon
    <2> QED
        BY <1>10, <1>11, <2>2, Zenon DEF FrameFits
<1>15. Under(s, u, l)
    BY <1>11, <1>12 DEF Under
<1>16. \A k \in l..Len(u) : FrameFits(tree, req, u[k])
    <2>1. \A k \in l..(l + 1) : k = l \/ k = l + 1
        BY <1>1
    <2> QED
        BY <1>9, <1>11, <1>12, <1>14, <2>1, Zenon
<1>17. ASSUME NEW x \in Word(Node)
       PROVE  pub \o (RestOf(tree, s[l]) \o x) = pub \o LeftOf(tree, u, l, x)
    <2>1. l + 1 # l - 1 /\ l + 1 # l
        BY <1>1
    <2>2. LeftOf(tree, u, l, x) = v \o ((t[c + 1] \o m) \o x)
        BY <1>9, <1>11, <1>12, <1>13, <2>1, Zenon DEF LeftOf
    <2>3. ((v \o t[c + 1]) \o m) \o x = v \o ((t[c + 1] \o m) \o x)
        <3>1. Regrouped(v, t[c + 1], m, x)
            BY <1>3, <1>7, Regroup
        <3> QED
            BY <3>1, Zenon DEF Regrouped
    <2> QED
        BY <1>1, <1>8, <2>2, <2>3, Zenon
<1> QED
    BY <1>1, <1>11, <1>15, <1>16, <1>17, Zenon DEF Moves, u, w, new

\* What was returned, and what the frames will still return, is the whole order.
TravInv ==
    /\ RC!FetchInv
    /\ published \in Word(Node)
    /\ turn \in {"start", "idle"} => published = <<>>
    /\ turn = "pack" => OnTheWay(remote, request, stack, published)
    /\ \E rest \in Word(Node) : Visit(remote)[1] = published \o rest

LEMMA TheVisit ==
    ASSUME RC!TypeOK
    PROVE  /\ remote \in Trees /\ IsVisit(Visit(remote), remote)
           /\ Visit(remote) \in [Node -> Word(Node)] /\ 1 \in Node
<1>1. remote \in Trees /\ IsVisit(Visit(remote), remote)
    BY OrderIsVisit DEF RC!TypeOK
<1>2. 1 \in Node
    BY ResCloneAssumption
<1> QED
    BY <1>1, <1>2 DEF IsVisit

LEMMA TravInit ==
    ASSUME RC!Init
    PROVE  TravInv
<1>1. RC!FetchInv /\ RC!TypeOK /\ turn = "start" /\ published = <<>>
    BY FetchInit DEF RC!Init, RC!FetchInv
<1> DEFINE whole == Visit(remote)[1]
<1>2. whole \in Word(Node)
    BY <1>1, TheVisit
<1> HIDE DEF whole
<1>3. <<>> \in Word(Node) /\ whole = <<>> \o whole
    BY <1>2, WordFacts
<1> QED
    BY <1>1, <1>2, <1>3 DEF TravInv, whole

\* Nothing is returned.
LEMMA TravKept ==
    ASSUME TravInv, RC!FetchInv', UNCHANGED <<remote, published>>,
           turn' # "pack", turn' \in {"start", "idle"} => turn \in {"start", "idle"}
    PROVE  TravInv'
BY DEF TravInv

LEMMA TravMoves ==
    ASSUME TravInv, RC!FetchInv', UNCHANGED <<remote, request>>, turn = "pack",
           turn' \in {"pack", "crashed"}, published' \in Word(Node),
           NEW l, Moves(remote, request, stack, published, l, stack', published')
    PROVE  TravInv'
<1>1. remote \in Trees /\ IsVisit(Visit(remote), remote)
    BY TheVisit DEF TravInv, RC!FetchInv
<1>2. OnTheWay(remote, request, stack, published)
    BY DEF TravInv
<1>3. OnTheWay(remote, request, stack', published')
    BY <1>1, <1>2, WayGoesOn
<1>4. \E rest \in Word(Node) : Visit(remote)[1] = published' \o rest
    BY <1>3, WayLeft
<1> QED
    BY <1>3, <1>4 DEF TravInv

\* Nothing is missing in the tree that is packed.
LEMMA NothingPending ==
    ASSUME RC!FetchInv, turn = "pack"
    PROVE  /\ \A n \in Node : request[n] # "none" => request[n] = "done" /\ childNodes[n] = remote.kids[n]
           /\ \A n \in Node : request[n] = "done" =>
                 \A c \in RC!ToSet(remote.kids[n]) :
                    c \in Node /\ (c \in remote.leaf \/ request[c] = "done")
           /\ request[1] = "done"
<1>1. /\ RC!TypeOK /\ RC!RequestedByParent /\ RC!ListedWithChildren
      /\ \A n \in Node : request[n] \notin Requested
    BY DEF RC!FetchInv, RC!Pending, Requested
<1>2. \A n \in Node : request[n] # "none" => request[n] = "done"
    BY <1>1 DEF RC!TypeOK, Requested
<1>3. request[1] = "done"
    BY <1>1, <1>2, TreeFacts DEF RC!RequestedByParent, RC!Root
<1>4. \A n \in Node : request[n] # "none" => childNodes[n] = remote.kids[n]
    BY <1>1, <1>2 DEF RC!ListedWithChildren
<1>5. ASSUME NEW n \in Node, request[n] = "done", NEW c \in RC!ToSet(remote.kids[n])
      PROVE  c \in Node /\ (c \in remote.leaf \/ request[c] = "done")
    <2>1. c \in Node
        BY <1>1, TreeFacts
    <2>2. c \notin remote.leaf => request[c] # "none"
        BY <1>1, <1>5 DEF RC!ListedWithChildren, RC!Collections
    <2> QED
        BY <1>2, <2>1, <2>2
<1> QED
    BY <1>2, <1>3, <1>4, <1>5

\* The iterator starts with the root.
LEMMA TravStarts ==
    ASSUME TravInv, RC!FetchInv', UNCHANGED <<remote, published>>, turn = "idle",
           turn' = "pack", stack' = <<[node |-> 1, currentChild |-> -1]>>
    PROVE  TravInv'
<1>1. RC!TypeOK /\ published = <<>>
    BY DEF TravInv, RC!FetchInv
<1>2. /\ remote \in Trees /\ IsVisit(Visit(remote), remote)
      /\ Visit(remote) \in [Node -> Word(Node)] /\ 1 \in Node
    BY <1>1, TheVisit
<1> DEFINE fr == [node |-> 1, currentChild |-> -1]
           whole == Visit(remote)[1]
<1>3. whole \in Word(Node)
    BY <1>2
<1>4. fr \in FrameSet /\ fr.node = 1 /\ fr.currentChild = -1
    BY <1>2 DEF FrameSet
<1>5. request'[1] = "done"
    <2>1. RC!TypeOK' /\ RC!RequestedByParent' /\ RC!Pending' = {}
        BY DEF RC!FetchInv
    <2>2. request'[1] # "none" /\ request' \in [Node -> {"none", "queued", "open", "stuck", "done"}]
        BY <2>1 DEF RC!TypeOK, RC!RequestedByParent, RC!Root
    <2>3. request'[1] \notin {"queued", "open", "stuck"}
        BY <1>2, <2>1 DEF RC!Pending
    <2> QED
        BY <1>2, <2>2, <2>3
<1>6. FrameFits(remote, request', fr)
    <2> DEFINE d == Len(remote.kids[1])
    <2>1. d \in Nat
        BY <1>2, TreeIsDeep
    <2>2. -1 \in -1..d
        BY <2>1, FromMinusOne, Zenon
    <2> QED
        BY <1>4, <1>5, <2>2, Zenon DEF FrameFits
<1>7. RestOf(remote, fr) = whole
    BY <1>4, Zenon DEF RestOf
<1> HIDE DEF fr, whole
<1> DEFINE s == <<fr>>
           r == [k \in 0..1 |-> IF k = 0 THEN <<>> ELSE whole]
<1>8. s \in Seq(FrameSet) /\ Len(s) = 1 /\ s[1] = fr
    BY <1>4
<1>9. r \in [0..1 -> Word(Node)] /\ r[0] = <<>> /\ r[1] = whole
    BY <1>3, WordFacts
<1> HIDE DEF s, r
<1>10. whole \o <<>> = whole /\ whole = <<>> \o whole
    BY <1>3, WordFacts
<1>11. \A k \in 1..Len(s) : k = 1
    BY <1>8
<1>12. Rests(remote, r, s)
    <2>1. 1 - 1 = 0 /\ 0..Len(s) = 0..1
        BY <1>8
    <2>2. r[1] = RestOf(remote, s[1]) \o r[0]
        BY <1>7, <1>8, <1>9, <1>10
    <2>3. \A k \in 1..Len(s) : r[k] = RestOf(remote, s[k]) \o r[k - 1]
        BY <1>11, <2>1, <2>2
    <2> QED
        BY <1>9, <2>1, <2>3, Zenon DEF Rests
<1>13. OnTheWay(remote, request', s, <<>>)
    <2>1. \A k \in 1..Len(s) : FrameFits(remote, request', s[k])
        BY <1>6, <1>8, <1>11
    <2>2. Visit(remote)[1] = <<>> \o r[Len(s)]
        BY <1>8, <1>9, <1>10 DEF whole
    <2> QED
        BY <1>8, <1>12, <2>1, <2>2, Zenon DEF OnTheWay
<1> QED
    BY <1>1, <1>13 DEF TravInv, s, fr

\* Every step of resclone.js.
LEMMA TravNext ==
    ASSUME TravInv, RC!Next
    PROVE  TravInv'
<1>1. RC!FetchInv /\ RC!TypeOK /\ RC!FetchInv'
    BY FetchNext DEF TravInv, RC!FetchInv
<1>2. CASE RC!Run
    BY <1>1, <1>2, TravKept DEF RC!Run, RC!argVars, RC!packVars
<1>3. ASSUME NEW n \in Node, RC!Connect(n) \/ RC!OnCollectionResponseHdr(n)
      PROVE  TravInv'
    BY <1>1, <1>3, TravKept DEF RC!Connect, RC!OnCollectionResponseHdr, RC!argVars, RC!packVars
<1>4. ASSUME NEW n \in Node, RC!Throws(n)
      PROVE  TravInv'
    BY <1>1, <1>4, TravKept DEF RC!Throws, RC!argVars, RC!packVars
<1>5. ASSUME NEW n \in Node, RC!OnCollectionResponseEnd(n)
      PROVE  TravInv'
    <2>1. /\ turn = "idle" /\ UNCHANGED <<remote, published>>
          /\ \/ turn' = turn
             \/ turn' = "crashed"
             \/ turn' = "pack" /\ stack' = <<[node |-> 1, currentChild |-> -1]>>
        BY <1>5 DEF RC!OnCollectionResponseEnd, RC!PackResourcesIntoTar, RC!argVars, RC!packVars,
           RC!Frame, RC!Root
    <2>2. CASE turn' # "pack"
        BY <1>1, <2>1, <2>2, TravKept
    <2>3. CASE turn' = "pack"
        BY <1>1, <2>1, <2>3, TravStarts
    <2> QED
        BY <2>2, <2>3
<1>6. ASSUME turn = "pack", stack # <<>>
      PROVE  /\ remote \in Trees /\ IsVisit(Visit(remote), remote) /\ published \in Word(Node)
             /\ stack \in Seq(FrameSet)
             /\ TopIs(remote, request, stack, Len(stack), RC!Top, RC!Top.node, RC!Top.currentChild)
             /\ RC!Top.node \in Node
    <2>1. /\ OnTheWay(remote, request, stack, published) /\ published \in Word(Node)
          /\ remote \in Trees /\ IsVisit(Visit(remote), remote)
        BY <1>1, <1>6, TheVisit DEF TravInv
    <2>2. stack \in Seq(FrameSet) /\ \A k \in 1..Len(stack) : FrameFits(remote, request, stack[k])
        BY <2>1, Zenon DEF OnTheWay
    <2>3. Len(stack) \in 1..Len(stack)
        BY <1>6, <2>2
    <2>4. FrameFits(remote, request, stack[Len(stack)])
        BY <2>2, <2>3, Zenon
    <2>5. TopIs(remote, request, stack, Len(stack), RC!Top, RC!Top.node, RC!Top.currentChild)
        BY <1>6, <2>2, <2>4, TopFits DEF RC!Top
    <2> QED
        BY <2>1, <2>2, <2>5, Zenon DEF TopIs
<1>7. ASSUME turn = "pack", stack # <<>>, RC!Top.node \notin remote.leaf
      PROVE  childNodes[RC!Top.node] = remote.kids[RC!Top.node] /\ request[RC!Top.node] = "done"
    <2>1. request[RC!Top.node] = "done" /\ RC!Top.node \in Node
        BY <1>6, <1>7, Zenon DEF TopIs
    <2> QED
        BY <1>1, <1>7, <2>1, NothingPending
<1>8. ASSUME turn = "pack", stack # <<>>
      PROVE  Append(published, RC!Top.node) \in Word(Node)
    BY <1>6, <1>8, Appended DEF OneMore
<1>9. CASE RC!PublishLeaf
    <2>1. /\ turn = "pack" /\ stack # <<>> /\ RC!Top.node \in remote.leaf
          /\ UNCHANGED <<remote, request>> /\ turn' \in {"pack", "crashed"}
          /\ published' = Append(published, RC!Top.node) /\ stack' = RC!Front(stack)
        BY <1>9 DEF RC!PublishLeaf, RC!WriteHdr, RC!argVars, RC!fetchVars
    <2>2. Moves(remote, request, stack, published, Len(stack), stack', published')
        BY <1>6, <2>1, LastMoves
    <2> QED
        BY <1>1, <1>8, <2>1, <2>2, TravMoves
<1>10. CASE RC!PublishPreOrder
    <2>1. /\ turn = "pack" /\ stack # <<>> /\ RC!Top.node \notin remote.leaf /\ RC!Top.currentChild = -1
          /\ UNCHANGED <<remote, request>> /\ turn' \in {"pack", "crashed"}
          /\ published' = Append(published, RC!Top.node)
          /\ stack' = [stack EXCEPT ![Len(stack)].currentChild = 0]
        BY <1>10 DEF RC!PublishPreOrder, RC!SetChild, RC!FirstChild, RC!argVars, RC!fetchVars
    <2>2. Moves(remote, request, stack, published, Len(stack), stack', published')
        BY <1>6, <2>1, FirstMoves
    <2> QED
        BY <1>1, <1>8, <2>1, <2>2, TravMoves
<1>11. CASE RC!PushChild
    <2> DEFINE n == RC!Top.node
               c == RC!Top.currentChild
               kid == childNodes[n][c + 1]
    <2>1. /\ turn = "pack" /\ stack # <<>> /\ n \notin remote.leaf /\ c >= 0 /\ c < Len(childNodes[n])
          /\ UNCHANGED <<remote, request, published>> /\ turn' \in {"pack", "crashed"}
          /\ stack' = Append([stack EXCEPT ![Len(stack)].currentChild = c + 1],
                             [node |-> kid, currentChild |-> -1])
        BY <1>11 DEF RC!PushChild, RC!SetChild, RC!Frame, RC!argVars, RC!fetchVars
    <2>2. childNodes[n] = remote.kids[n] /\ request[n] = "done"
        BY <1>7, <2>1
    <2>3. c \in Int /\ n \in Node
        BY <1>6, <2>1, Zenon DEF TopIs
    <2>4. kid \in Node /\ (kid \in remote.leaf \/ request[kid] = "done")
        <3> DEFINE kids == remote.kids[n]
        <3>1. kids \in Seq(Node)
            BY <1>6, <2>1, <2>3, TreeIsDeep
        <3> HIDE DEF kids, n, c
        <3>2. c + 1 \in 1..Len(kids)
            BY <2>1, <2>2, <2>3, <3>1 DEF kids
        <3>3. kids[c + 1] \in RC!ToSet(kids)
            BY <3>1, <3>2 DEF RC!ToSet
        <3> QED
            BY <1>1, <2>1, <2>2, <2>3, <3>3, NothingPending DEF kids
    <2>5. Moves(remote, request, stack, published, Len(stack), stack', published')
        <3> HIDE DEF n, c, kid
        <3>1. c >= 0 /\ c < Len(remote.kids[n]) /\ kid = remote.kids[n][c + 1]
            BY <2>1, <2>2 DEF kid
        <3>2. TopIs(remote, request, stack, Len(stack), RC!Top, n, c)
            BY <1>6, <2>1 DEF n, c
        <3>3. remote \in Trees /\ IsVisit(Visit(remote), remote) /\ published \in Word(Node)
            BY <1>6, <2>1
        <3> QED
            BY <2>1, <2>4, <3>1, <3>2, <3>3, PushMoves
    <2>6. published' \in Word(Node)
        BY <1>6, <2>1
    <2> QED
        BY <1>1, <2>1, <2>5, <2>6, TravMoves
<1>12. CASE RC!PublishPostOrder
    <2>1. /\ turn = "pack" /\ stack # <<>> /\ RC!Top.node \notin remote.leaf
          /\ RC!Top.currentChild >= Len(childNodes[RC!Top.node])
          /\ UNCHANGED <<remote, request>> /\ turn' \in {"pack", "crashed"}
          /\ published' = Append(published, RC!Top.node) /\ stack' = RC!Front(stack)
        BY <1>12 DEF RC!PublishPostOrder, RC!argVars, RC!fetchVars
    <2>2. RC!Top.currentChild >= Len(remote.kids[RC!Top.node])
        BY <1>7, <2>1
    <2>3. Moves(remote, request, stack, published, Len(stack), stack', published')
        BY <1>6, <2>1, <2>2, LastMoves
    <2> QED
        BY <1>1, <1>8, <2>1, <2>3, TravMoves
<1>13. CASE RC!LoopEnds
    BY <1>1, <1>13, TravKept DEF RC!LoopEnds, RC!argVars, RC!packVars
<1>14. CASE RC!Ended
    BY <1>1, <1>14 DEF RC!Ended, RC!rcVars, TravInv
<1> QED
    BY <1>2, <1>3, <1>4, <1>5, <1>9, <1>10, <1>11, <1>12, <1>13, <1>14 DEF RC!Next

\* The invariant, while this is the tool that runs.
TravTool == tool = "ResClone" => TravInv

\* The invariant of the traversal: what the iterator returned so far, followed by what
\* its frames still return, is the whole order of the tree.
THEOREM TraversalInvariant == Spec => []TravTool
<1>1. Init => TravTool
    BY TravInit DEF Init, TravTool
<1>2. TravTool /\ [Next]_<<tool, rcVars, hlVars, hfVars, sfVars, jbVars, mlVars>> => TravTool'
    <2> SUFFICES ASSUME TravTool, tool' = "ResClone",
                        [Next]_<<tool, rcVars, hlVars, hfVars, sfVars, jbVars, mlVars>>
                 PROVE  TravInv'
        BY DEF TravTool
    <2>1. CASE Next
        <3>1. tool = "ResClone" /\ RC!Next
            BY <2>1 DEF Next
        <3> QED
            BY <3>1, TravNext DEF TravTool
    <2>2. CASE UNCHANGED <<tool, rcVars, hlVars, hfVars, sfVars, jbVars, mlVars>>
        <3>1. TravInv /\ UNCHANGED <<turn, remote, request, childNodes, numPendingCollectionRequests, stack, published>>
            BY <2>2 DEF TravTool, rcVars
        <3>2. RC!FetchInv'
            BY <3>1 DEF TravInv, RC!FetchInv, RC!TypeOK, RC!RequestedByParent, RC!ListedWithChildren,
               RC!Collections, RC!Pending
        <3> QED
            BY <3>1, <3>2 DEF TravInv
    <2> QED
        BY <2>1, <2>2
<1> QED
    BY <1>1, <1>2, PTL DEF Spec

\* resclone.js: whatever the tree, the iterator returns every collection before and
\* after what is below it and every resource once, and it ends after the last one.
THEOREM TraversalIsInOrder == Spec => []TraversalFollowsTree
<1>1. TravTool => TraversalFollowsTree
    <2> SUFFICES ASSUME TravInv
                 PROVE  RC!TraversalFollowsTree
        BY DEF TravTool, TraversalFollowsTree
    <2>1. /\ RC!TypeOK /\ published \in Word(Node)
          /\ turn = "pack" => OnTheWay(remote, request, stack, published)
        BY DEF TravInv, RC!FetchInv
    <2>2. RC!PreAndPostOrder = Visit(remote)[1]
        BY <2>1, OrderIsVisit
    <2>3. PICK rest \in Word(Node) : Visit(remote)[1] = published \o rest
        BY DEF TravInv
    <2>4. RC!IsPrefix(published, RC!PreAndPostOrder)
        <3>1. RC!IsPrefix(published, published \o rest)
            BY <2>1, PrefixOfMore DEF Word
        <3> QED
            BY <2>2, <2>3, <3>1
    <2>5. ASSUME turn = "pack", stack = <<>>
          PROVE  published = RC!PreAndPostOrder
        <3>1. PICK r : Rests(remote, r, stack) /\ Visit(remote)[1] = published \o r[Len(stack)]
            BY <2>1, <2>5 DEF OnTheWay
        <3>2. Len(stack) = 0
            BY <2>5
        <3>3. r[0] = <<>>
            BY <3>1, Zenon DEF Rests
        <3>4. published \o <<>> = published
            BY <2>1, EmptyAdded, Zenon
        <3> QED
            BY <2>2, <3>1, <3>2, <3>3, <3>4
    <2> QED
        BY <2>4, <2>5 DEF RC!TraversalFollowsTree
<1> QED
    BY <1>1, TraversalInvariant, PTL

-----------------------------------------------------------------------------
(* mvn-launch.c, mvn-versions-set.c                                        *)

Text == Seq(Letter)

LEMMA TextIsWord == Text = Word(Letter)
BY DEF Text, Word

LEMMA TextFacts ==
    /\ <<>> \in Text /\ Len(<<>>) = 0
    /\ \A c \in Letter : <<c>> \in Text /\ Len(<<c>>) = 1
    /\ \A a \in Text : /\ Len(a) \in Nat /\ <<>> \o a = a /\ a \o <<>> = a
                       /\ a # <<>> => Len(a) > 0
    /\ \A a, b \in Text : a \o b \in Text /\ Len(a \o b) = Len(a) + Len(b)
    /\ \A a, b, c \in Text : (a \o b) \o c = a \o (b \o c)
BY WordFacts, TextIsWord

ACall == [fn : {"raw", "quot", "arg", "env", "cwd"}, text : Text]

\* The texts that the calls ask for, and what they come to one behind the other.
Asks(e) == [i \in DOMAIN ML!CallsOf(e) |-> ML!Asked(ML!CallsOf(e)[i])]
Joined(A) == CHOOSE f : Joins(Letter, f, A, Len(A))

LEMMA CallFacts ==
    /\ \A fn \in {"raw", "quot", "arg", "env", "cwd"}, text \in Text :
          /\ ML!Call(fn, text) \in ACall
          /\ ML!Call(fn, text).fn = fn /\ ML!Call(fn, text).text = text
    /\ \A s \in Letter : ML!Raw(s) = ML!Call("raw", <<s>>) /\ <<s>> \in Text
<1>1. ASSUME NEW fn \in {"raw", "quot", "arg", "env", "cwd"}, NEW text \in Text
      PROVE  /\ ML!Call(fn, text) \in ACall
             /\ ML!Call(fn, text).fn = fn /\ ML!Call(fn, text).text = text
    BY DEF ML!Call, ACall
<1>2. ASSUME NEW s \in Letter PROVE ML!Raw(s) = ML!Call("raw", <<s>>) /\ <<s>> \in Text
    BY TextFacts DEF ML!Raw
<1> QED
    BY <1>1, <1>2

LEMMA RawFacts ==
    ASSUME NEW s \in Letter
    PROVE  ML!Raw(s) \in ACall /\ ML!Raw(s).fn = "raw" /\ ML!Raw(s).text = <<s>>
<1>1. ML!Raw(s) = ML!Call("raw", <<s>>) /\ <<s>> \in Text
    BY CallFacts
<1> DEFINE x == <<s>>
<1> HIDE DEF x
<1>2. ML!Call("raw", x) \in ACall /\ ML!Call("raw", x).fn = "raw" /\ ML!Call("raw", x).text = x
    BY <1>1, CallFacts DEF x
<1> QED
    BY <1>1, <1>2, Zenon DEF x

LEMMA ConcatBegins ==
    ASSUME NEW S, NEW q \in Seq(S), NEW r \in Seq(S)
    PROVE  /\ q \o r \in Seq(S) /\ Len(q \o r) = Len(q) + Len(r)
           /\ Len(q) \in Nat /\ Len(r) \in Nat
           /\ \A i \in 1..Len(q) : (q \o r)[i] = q[i]
OBVIOUS

LEMMA LettersFixed ==
    /\ "java" \in Letter /\ "-classpath" \in Letter /\ "C:/Users/" \in Letter /\ "jar" \in Letter
    /\ "-Dclassworlds" \in Letter /\ "m2.conf" \in Letter /\ "-Dmaven.home" \in Letter
    /\ "maven" \in Letter /\ "-DmultiModule" \in Letter /\ "Launcher" \in Letter
    /\ "mvn" \in Letter /\ "versions:set" \in Letter /\ "slash" \in Letter
    /\ ML!Quot \in Letter /\ ML!Blank \in Letter
BY MvnLaunchAssumption DEF FixedTexts, ML!Quot, ML!Blank

\* The calls, and that two of them ask for something; the first of versions-set may not.
LEMMA CallsTyped ==
    ASSUME NEW e \in Environs, ~ML!Refused(e)
    PROVE  /\ ML!CallsOf(e) \in Seq(ACall) /\ Len(ML!CallsOf(e)) >= 2
           /\ \E i, j \in 1..Len(ML!CallsOf(e)) :
                 /\ i < j
                 /\ ML!CallsOf(e)[i].fn = "raw" /\ Len(ML!CallsOf(e)[i].text) > 0
                 /\ ML!CallsOf(e)[j].fn = "raw" /\ Len(ML!CallsOf(e)[j].text) > 0
<1>1. /\ e.isLaunch \in BOOLEAN /\ e.username \in Text /\ e.jvmConfig \in Text
      /\ e.mavenOpts \in Text /\ e.debugOpts \in Text /\ e.workDir \in Text
      /\ e.mvnExe \in Seq(Text) /\ e.args \in Seq(Text)
    BY MvnLaunchAssumption, Zenon DEF Text
<1>2. \A s \in Letter : /\ ML!Raw(s) \in ACall /\ ML!Raw(s).fn = "raw"
                        /\ ML!Raw(s).text = <<s>> /\ Len(<<s>>) = 1
    BY RawFacts, TextFacts
<1>3. CASE e.isLaunch
    <2> DEFINE w == ML!Slashes(e.workDir)
               c1 == ML!Raw("java")
               c2 == ML!Call("env", e.jvmConfig)
               c3 == ML!Call("env", e.mavenOpts)
               c4 == ML!Call("env", e.debugOpts)
               c5 == ML!Raw("-classpath")
               c6 == ML!Raw("C:/Users/")
               c7 == ML!Call("raw", e.username)
               c8 == ML!Raw("jar")
               c9 == ML!Raw("-Dclassworlds")
               c11 == ML!Raw("m2.conf")
               c12 == ML!Raw("-Dmaven.home")
               c14 == ML!Raw("maven")
               c15 == ML!Call("cwd", e.workDir)
               c16 == ML!Raw("-DmultiModule")
               c17 == ML!Call("quot", w)
               c18 == ML!Raw(ML!Quot)
               c19 == ML!Raw("Launcher")
               q == << c1, c2, c3, c4, c5, c6, c7, c8, c9, c7, c11, c12, c7, c14, c15, c16,
                       c17, c18, c19 >>
               r == [i \in DOMAIN e.args |-> ML!Call("arg", e.args[i])]
    <2>1. ML!CallsOf(e) = q \o r
        BY <1>3, Zenon DEF ML!CallsOf, ML!CallsLaunch
    <2>2. w \in Text
        <3> DEFINE d == e.workDir
                   g == [i \in DOMAIN d |-> IF d[i] = "backslash" THEN "slash" ELSE d[i]]
        <3>1. d \in Seq(Letter) /\ "slash" \in Letter
            BY <1>1, LettersFixed DEF Text
        <3> HIDE DEF d
        <3>2. g \in Seq(Letter)
            BY <3>1
        <3> QED
            BY <3>2 DEF ML!Slashes, Text, d
    <2>3. r \in Seq(ACall)
        <3> DEFINE d == e.args
                   g == [i \in DOMAIN d |-> ML!Call("arg", d[i])]
        <3>1. d \in Seq(Text) /\ \A text \in Text : ML!Call("arg", text) \in ACall
            BY <1>1, CallFacts
        <3> HIDE DEF d
        <3>2. g \in Seq(ACall)
            BY <3>1
        <3> QED
            BY <3>2 DEF d
    <2> HIDE DEF w, r
    <2>4. /\ c2 \in ACall /\ c3 \in ACall /\ c4 \in ACall /\ c7 \in ACall /\ c15 \in ACall
          /\ c17 \in ACall
        BY <1>1, <2>2, CallFacts
    <2>5. /\ c1 \in ACall /\ c5 \in ACall /\ c6 \in ACall /\ c8 \in ACall /\ c9 \in ACall
          /\ c11 \in ACall /\ c12 \in ACall /\ c14 \in ACall /\ c16 \in ACall /\ c18 \in ACall
          /\ c19 \in ACall
        BY <1>2, LettersFixed, Zenon
    <2>6. /\ c1.fn = "raw" /\ c1.text = <<"java">> /\ Len(<<"java">>) = 1
          /\ c5.fn = "raw" /\ c5.text = <<"-classpath">> /\ Len(<<"-classpath">>) = 1
        BY <1>2, LettersFixed, Zenon
    <2> HIDE DEF c1, c2, c3, c4, c5, c6, c7, c8, c9, c11, c12, c14, c15, c16, c17, c18, c19
    <2>7. q \in Seq(ACall) /\ Len(q) = 19 /\ q[1] = c1 /\ q[5] = c5
        BY <2>4, <2>5
    <2> HIDE DEF q
    <2>0. /\ q \o r \in Seq(ACall) /\ Len(q \o r) = Len(q) + Len(r) /\ Len(r) \in Nat
          /\ \A i \in 1..Len(q) : (q \o r)[i] = q[i]
        <3>1. q \in Seq(ACall) /\ r \in Seq(ACall)
            BY <2>3, <2>7
        <3> QED
            BY <3>1, ConcatBegins, Zenon
    <2>8. /\ q \o r \in Seq(ACall) /\ Len(q \o r) >= 19
          /\ (q \o r)[1] = c1 /\ (q \o r)[5] = c5
        <3>1. /\ q \o r \in Seq(ACall) /\ Len(q \o r) = 19 + Len(r) /\ Len(r) \in Nat
              /\ \A i \in 1..19 : (q \o r)[i] = q[i]
            BY <2>0, <2>7
        <3> QED
            BY <2>7, <3>1
    <2>9. 1 \in 1..Len(q \o r) /\ 5 \in 1..Len(q \o r) /\ 1 < 5 /\ Len(q \o r) >= 2
        <3> DEFINE n == Len(q \o r)
        <3>1. n \in Nat /\ n >= 19
            <4>1. Len(q \o r) = 19 + Len(r) /\ Len(r) \in Nat
                BY <2>0, <2>7
            <4> QED
                BY <4>1
        <3> HIDE DEF n
        <3>2. 1 \in 1..n /\ 5 \in 1..n /\ 1 < 5 /\ n >= 2
            BY <3>1
        <3> QED
            BY <3>2 DEF n
    <2>10. Len(c1.text) > 0 /\ Len(c5.text) > 0
        BY <2>6
    <2> QED
        BY <2>1, <2>6, <2>8, <2>9, <2>10
<1>4. CASE ~e.isLaunch
    <2> DEFINE m == IF e.mvnExe = <<>> THEN <<"mvn">> ELSE e.mvnExe[1]
               a == e.args[1]
               c1 == ML!Call("raw", m)
               c2 == ML!Raw("versions:set")
               c3 == ML!Call("quot", a)
               c4 == ML!Raw(ML!Quot)
               q == << c1, c2, c3, c4 >>
    <2>1. ML!CallsOf(e) = q
        BY <1>4, Zenon DEF ML!CallsOf, ML!CallsVersionsSet
    <2>2. a \in Text
        <3>1. Len(e.args) = 1
            BY <1>4 DEF ML!Refused
        <3> QED
            BY <1>1, <3>1
    <2>3. m \in Text
        <3> DEFINE x == e.mvnExe
                   y == <<"mvn">>
        <3>1. x \in Seq(Text) /\ y \in Text
            BY <1>1, LettersFixed, TextFacts
        <3> HIDE DEF x, y
        <3>2. x # <<>> => x[1] \in Text
            BY <3>1
        <3>3. m = IF x = <<>> THEN y ELSE x[1]
            BY DEF x, y
        <3> HIDE DEF m
        <3> QED
            BY <3>1, <3>2, <3>3
    <2> HIDE DEF m, a
    <2>4. c1 \in ACall /\ c3 \in ACall
        BY <2>2, <2>3, CallFacts
    <2>5. /\ c2 \in ACall /\ c2.fn = "raw" /\ c2.text = <<"versions:set">>
          /\ Len(<<"versions:set">>) = 1
        BY <1>2, LettersFixed, Zenon
    <2>6. /\ c4 \in ACall /\ c4.fn = "raw" /\ c4.text = <<ML!Quot>> /\ Len(<<ML!Quot>>) = 1
        BY <1>2, LettersFixed, Zenon
    <2> HIDE DEF c1, c2, c3, c4
    <2>7. Len(c2.text) > 0 /\ Len(c4.text) > 0
        <3>1. \A t, x : t = x /\ Len(x) = 1 => Len(t) > 0
            OBVIOUS
        <3> QED
            BY <2>5, <2>6, <3>1, Zenon
    <2>8. q \in Seq(ACall) /\ Len(q) = 4 /\ q[2] = c2 /\ q[4] = c4
        BY <2>4, <2>5, <2>6
    <2> HIDE DEF q
    <2>9. 2 \in 1..Len(q) /\ 4 \in 1..Len(q) /\ 2 < 4 /\ Len(q) >= 2
        BY <2>8
    <2> QED
        BY <2>1, <2>5, <2>6, <2>7, <2>8, <2>9
<1> QED
    BY <1>1, <1>3, <1>4

\* What a call asks for, whichever it is.
LEMMA AskedTyped ==
    ASSUME NEW call \in ACall
    PROVE  /\ ML!Asked(call) \in Text
           /\ call.fn = "raw" => ML!Asked(call) = call.text
<1>1. call.text \in Text /\ call.fn \in {"raw", "quot", "arg", "env", "cwd"}
    BY DEF ACall
<1>2. <<ML!Blank, ML!Quot>> \in Text /\ <<ML!Quot>> \in Text /\ <<ML!Blank>> \in Text
    <2>1. \A b, q \in Letter : <<b, q>> \in Text
        BY DEF Text
    <2> QED
        BY <2>1, LettersFixed, TextFacts, Zenon
<1> DEFINE t == call.text
           a == <<ML!Blank, ML!Quot>>
           b == <<ML!Quot>>
           c == <<ML!Blank>>
<1> HIDE DEF a, b, c
<1>3. c \o t \in Text /\ (a \o t) \o b \in Text /\ <<>> \in Text
    BY <1>1, <1>2, TextFacts DEF a, b, c
<1>4. \/ ML!Asked(call) = <<>> \/ ML!Asked(call) = c \o t \/ ML!Asked(call) = (a \o t) \o b
      \/ ML!Asked(call) = t
    BY <1>1 DEF ML!Asked, a, b, c
<1>5. call.fn = "raw" => ML!Asked(call) = t
    BY DEF ML!Asked
<1> QED
    BY <1>1, <1>3, <1>4, <1>5

\* What has been joined.
LEMMA JoinedFacts ==
    ASSUME NEW e \in Environs, ~ML!Refused(e)
    PROVE  LET A == Asks(e)
               n == Len(ML!CallsOf(e))
           IN  /\ A \in Seq(Text) /\ Len(A) = n /\ n \in Nat
               /\ \A i \in 1..n : A[i] = ML!Asked(ML!CallsOf(e)[i])
               /\ Joins(Letter, Joined(A), A, n)
               /\ ML!FlattenSeq(A) = Joined(A)[n]
               /\ Joined(A)[n] \in Text /\ Len(Joined(A)[n]) >= 2
<1> DEFINE all == ML!CallsOf(e)
           A == Asks(e)
           n == Len(all)
<1>1. all \in Seq(ACall) /\ n >= 2 /\ n \in Nat
    BY CallsTyped
<1>2. A \in Seq(Text) /\ Len(A) = n /\ \A i \in 1..n : A[i] = ML!Asked(all[i])
    BY <1>1, AskedTyped DEF Asks
<1>3. A \in Seq(Word(Letter)) /\ Len(A) > 0
    BY <1>1, <1>2, TextIsWord
<1>4. Joins(Letter, Joined(A), A, Len(A))
    <2>1. \E f : Joins(Letter, f, A, Len(A))
        BY <1>3, JoinsExist, Zenon
    <2> QED
        BY <2>1 DEF Joined
<1>5. ML!FlattenSeq(A) = Joined(A)[n]
    <2>1. ML!FlattenSeq(A) = Joined(A)[Len(A)]
        BY <1>4, <1>3, FlattenJoins, Zenon
    <2> QED
        BY <1>2, <2>1
<1> DEFINE f == Joined(A)
<1>6. /\ f \in [0..n -> Text] /\ f[0] = <<>> /\ \A i \in 1..n : f[i] = f[i - 1] \o A[i]
    BY <1>2, <1>4 DEF Joins
<1>7. PICK i \in 1..n, j \in 1..n :
         /\ i < j
         /\ all[i].fn = "raw" /\ Len(all[i].text) > 0
         /\ all[j].fn = "raw" /\ Len(all[j].text) > 0
    BY CallsTyped
<1> HIDE DEF f, A
<1>8. ASSUME NEW k \in 1..n, all[k].fn = "raw", Len(all[k].text) > 0
      PROVE  A[k] \in Text /\ Len(A[k]) > 0
    <2>1. all[k] \in ACall
        BY <1>1
    <2> HIDE DEF all
    <2>2. A[k] = all[k].text
        BY <1>2, <1>8, <2>1, AskedTyped
    <2> QED
        BY <1>2, <1>8, <2>2
<1>9. A[i] \in Text /\ Len(A[i]) > 0 /\ A[j] \in Text /\ Len(A[j]) > 0
    BY <1>7, <1>8
\* What has been joined does not get shorter.
<1>10. ASSUME NEW k \in 1..n, NEW l \in k..n
       PROVE  /\ f[k] \in Text /\ f[l] \in Text /\ Len(f[k]) <= Len(f[l])
              /\ Len(f[k]) \in Nat /\ Len(f[l]) \in Nat
    <2>1. k \in 0..n /\ l \in k..n /\ l \in 0..n
        BY <1>1
    <2> HIDE DEF n
    <2>2. n \in 0..Len(A) /\ n \in Nat
        BY <1>1, <1>2
    <2>3. Joins(Letter, f, A, n)
        BY <1>2, <1>4 DEF f
    <2>4. Len(f[k]) <= Len(f[l])
        BY <1>3, <2>1, <2>2, <2>3, JoinsGrow
    <2> QED
        BY <1>6, <2>1, <2>4, TextFacts
\* One that asks for something makes it longer.
<1>11. ASSUME NEW k \in 1..n, A[k] \in Text, Len(A[k]) > 0
       PROVE  /\ f[k - 1] \in Text /\ f[k] \in Text
              /\ Len(f[k - 1]) \in Nat /\ Len(f[k]) \in Nat
              /\ Len(f[k]) > Len(f[k - 1])
    <2>1. f[k] = f[k - 1] \o A[k] /\ f[k - 1] \in Text
        BY <1>1, <1>6
    <2> DEFINE x == Len(f[k - 1])
               y == Len(A[k])
    <2>2. f[k] \in Text /\ Len(f[k]) = x + y /\ x \in Nat /\ y \in Nat
        BY <1>11, <2>1, TextFacts
    <2>3. y > 0
        BY <1>11
    <2> HIDE DEF y
    <2>4. Len(f[k]) > x
        BY <2>2, <2>3
    <2> QED
        BY <2>1, <2>2, <2>4
<1>12. Len(f[i]) >= 1 /\ Len(f[i]) \in Nat
    <2>1. Len(f[i]) > Len(f[i - 1]) /\ Len(f[i]) \in Nat /\ Len(f[i - 1]) \in Nat
        BY <1>9, <1>11
    <2> QED
        BY <2>1
<1>13. f[n] \in Text /\ Len(f[n]) >= 2
    <2>1. Len(f[i]) <= Len(f[j - 1]) /\ Len(f[j - 1]) \in Nat
        <3>1. j - 1 \in i..n
            BY <1>1, <1>7
        <3> QED
            BY <1>10, <3>1
    <2>2. Len(f[j]) > Len(f[j - 1]) /\ Len(f[j]) \in Nat
        BY <1>9, <1>11
    <2>3. f[n] \in Text /\ Len(f[j]) <= Len(f[n]) /\ Len(f[n]) \in Nat
        <3>1. n \in j..n
            BY <1>1
        <3> QED
            BY <1>10, <3>1
    <2> DEFINE a == Len(f[i])
               b == Len(f[j - 1])
               c == Len(f[j])
               d == Len(f[n])
    <2>4. a >= 1 /\ a <= b /\ c > b /\ c <= d /\ a \in Nat /\ b \in Nat /\ c \in Nat /\ d \in Nat
        BY <1>12, <2>1, <2>2, <2>3
    <2> HIDE DEF a, b, c, d
    <2>5. d >= 2
        BY <2>4
    <2> QED
        BY <2>3, <2>5 DEF d
<1> QED
    BY <1>1, <1>2, <1>4, <1>5, <1>13 DEF f, A

-----------------------------------------------------------------------------
(* One call of append...()                                                 *)

\* What a call leaves: a text that fits the buffer and that, if all went well, is
\* the line and what was asked for.
GoodLine(new, line, asked) ==
    /\ new.line \in Text /\ Len(new.line) <= CmdlineCap
    /\ new.ok => new.line = line \o asked

\* The two fields of the line a call returns.
LEMMA LineFields == \A line, ok : ML!Line(line, ok).line = line /\ ML!Line(line, ok).ok = ok
BY Zenon DEF ML!Line

LEMMA LineFails ==
    ASSUME NEW line, NEW asked, NEW x \in Text, Len(x) <= CmdlineCap
    PROVE  GoodLine(ML!Line(x, FALSE), line, asked)
<1>1. ML!Line(x, FALSE).line = x /\ ~ML!Line(x, FALSE).ok
    BY LineFields, Zenon
<1> QED
    BY <1>1, Zenon DEF GoodLine

LEMMA LineGrows ==
    ASSUME NEW line, NEW asked, NEW x \in Text, Len(x) <= CmdlineCap, x = line \o asked
    PROVE  GoodLine(ML!Line(x, TRUE), line, asked)
<1>1. ML!Line(x, TRUE).line = x
    BY LineFields, Zenon
<1> QED
    BY <1>1, Zenon DEF GoodLine

LEMMA TextAssoc == \A a, b, c \in Text : (a \o b) \o c = a \o (b \o c)
BY TextFacts

LEMMA TextLen ==
    ASSUME NEW a \in Text, NEW b \in Text
    PROVE  a \o b \in Text /\ Len(a \o b) = Len(a) + Len(b) /\ Len(a) \in Nat /\ Len(b) \in Nat
BY TextFacts

\* A text that passed the test for its length fits.
LEMMA FittingExactly ==
    ASSUME NEW a \in Text, NEW b \in Text, ~(CmdlineCap < Len(a) + Len(b))
    PROVE  a \o b \in Text /\ Len(a \o b) <= CmdlineCap
<1> DEFINE x == Len(a)
           y == Len(b)
           z == Len(a \o b)
<1>1. a \o b \in Text /\ z = x + y /\ x \in Nat /\ y \in Nat /\ CmdlineCap \in Nat
    BY TextFacts, MvnLaunchAssumption
<1>2. ~(CmdlineCap < x + y)
    OBVIOUS
<1> HIDE DEF x, y, z
<1>3. z <= CmdlineCap
    BY <1>1, <1>2
<1> QED
    BY <1>1, <1>3 DEF z

LEMMA RawIsGood ==
    ASSUME NEW line \in Text, Len(line) <= CmdlineCap, NEW text \in Text
    PROVE  GoodLine(ML!AppendRaw(line, text), line, text)
<1>1. CASE CmdlineCap < Len(line) + Len(text)
    <2>1. ML!AppendRaw(line, text) = ML!Line(line, FALSE)
        BY <1>1, Zenon DEF ML!AppendRaw
    <2> QED
        BY <2>1, LineFails
<1>2. CASE ~(CmdlineCap < Len(line) + Len(text))
    <2>1. ML!AppendRaw(line, text) = ML!Line(line \o text, TRUE)
        BY <1>2, Zenon DEF ML!AppendRaw
    <2>2. line \o text \in Text /\ Len(line \o text) <= CmdlineCap
        BY <1>2, FittingExactly
    <2> QED
        BY <2>1, <2>2, LineGrows
<1> QED
    BY <1>1, <1>2

\* The characters before a quote are a part of the text.
LEMMA BeforeQuot ==
    ASSUME NEW text \in Text, ML!HasQuot(text)
    PROVE  /\ SubSeq(text, 1, ML!UpToQuot(text)) \in Text
           /\ Len(SubSeq(text, 1, ML!UpToQuot(text))) <= Len(text)
<1> DEFINE I == {i \in 1..Len(text) : text[i] = ML!Quot}
           u == ML!Min(I)
<1>1. I # {} /\ I \in SUBSET Nat /\ DOMAIN text = 1..Len(text) /\ Len(text) \in Nat
    BY DEF ML!HasQuot, Text
<1>2. ML!UpToQuot(text) = u - 1
    BY <1>1 DEF ML!UpToQuot, ML!SelectInSeq
<1>3. u \in I
    <2> DEFINE least == {x \in I : \A y \in I : x <= y}
    <2>1. least # {}
        <3> SUFFICES ASSUME \A x \in I : \E y \in I : ~(x <= y)
                     PROVE  FALSE
            OBVIOUS
        <3>1. \A x, y \in Nat : ~(x <= y) => y < x
            OBVIOUS
        <3> HIDE DEF I
        <3>2. \A x \in I : \E y \in I : y < x
            BY <1>1, <3>1
        <3> QED
            BY <1>1, <3>2, NoLeastOne
    <2>2. u = CHOOSE x \in I : \A y \in I : x <= y
        BY Zenon DEF ML!Min
    <2> QED
        BY <2>1, <2>2
<1> HIDE DEF u
<1>4. u \in 1..Len(text)
    BY <1>3
<1>5. u - 1 \in Nat /\ u - 1 <= Len(text)
    BY <1>1, <1>4
<1> DEFINE v == u - 1
<1> HIDE DEF v, I
<1>6. SubSeq(text, 1, v) \in Seq(Letter) /\ Len(SubSeq(text, 1, v)) = v
    BY <1>5 DEF v, Text
<1> QED
    BY <1>2, <1>5, <1>6 DEF v, Text

\* What Copy() has appended when it ends.
LEMMA CopyFacts ==
    ASSUME NEW line \in Text, NEW text \in Text
    PROVE  LET copied == ML!Copy(line, text)
           IN  /\ copied.line \in Text /\ Len(copied.line) <= Len(line) + Len(text)
               /\ copied.ok => copied.line = line \o text
<1>1. CASE ML!HasQuot(text)
    <2> DEFINE s == SubSeq(text, 1, ML!UpToQuot(text))
    <2>1. s \in Text /\ Len(s) <= Len(text)
        BY <1>1, BeforeQuot
    <2>2. ML!Copy(line, text) = ML!Line(line \o s, FALSE)
        BY <1>1, Zenon DEF ML!Copy
    <2> HIDE DEF s
    <2>3. line \o s \in Text /\ Len(line \o s) <= Len(line) + Len(text)
        <3> DEFINE x == Len(line)
                   y == Len(s)
                   z == Len(text)
        <3>1. line \o s \in Text /\ Len(line \o s) = x + y /\ x \in Nat /\ y \in Nat /\ z \in Nat
            BY <2>1, TextFacts
        <3>2. y <= z
            BY <2>1
        <3> HIDE DEF x, y, z
        <3>3. x + y <= x + z
            BY <3>1, <3>2
        <3> QED
            BY <3>1, <3>3 DEF x, z
    <2>4. ML!Copy(line, text).line = line \o s /\ ~ML!Copy(line, text).ok
        BY <2>2, LineFields, Zenon
    <2> QED
        BY <2>3, <2>4, Zenon
<1>2. CASE ~ML!HasQuot(text)
    <2>1. ML!Copy(line, text) = ML!Line(line \o text, TRUE)
        BY <1>2, Zenon DEF ML!Copy
    <2>2. ML!Copy(line, text).line = line \o text
        BY <2>1, LineFields, Zenon
    <2>3. line \o text \in Text /\ Len(line \o text) <= Len(line) + Len(text)
        <3>1. /\ line \o text \in Text /\ Len(line \o text) = Len(line) + Len(text)
              /\ Len(line) \in Nat /\ Len(text) \in Nat
            BY TextFacts
        <3> QED
            BY <3>1
    <2> QED
        BY <2>2, <2>3, Zenon
<1> QED
    BY <1>1, <1>2

LEMMA QuotIsGood ==
    ASSUME NEW line \in Text, Len(line) <= CmdlineCap, NEW text \in Text
    PROVE  GoodLine(ML!AppendQuotEscaped(line, text), line, text)
<1>1. CASE CmdlineCap < Len(line) + Len(text)
    <2>1. ML!AppendQuotEscaped(line, text) = ML!Line(line, FALSE)
        BY <1>1, Zenon DEF ML!AppendQuotEscaped
    <2> QED
        BY <2>1, LineFails
<1>2. CASE ~(CmdlineCap < Len(line) + Len(text))
    <2> DEFINE new == ML!Copy(line, text)
    <2>1. ML!AppendQuotEscaped(line, text) = new
        BY <1>2, Zenon DEF ML!AppendQuotEscaped
    <2>2. /\ new.line \in Text /\ Len(new.line) <= Len(line) + Len(text)
          /\ new.ok => new.line = line \o text
        BY CopyFacts, Zenon
    <2>3. Len(new.line) <= CmdlineCap
        <3> DEFINE x == Len(line)
                   y == Len(text)
                   z == Len(new.line)
        <3>1. x \in Nat /\ y \in Nat /\ z \in Nat /\ CmdlineCap \in Nat
            BY <2>2, TextFacts, MvnLaunchAssumption
        <3>2. z <= x + y /\ ~(CmdlineCap < x + y)
            BY <1>2, <2>2, Zenon
        <3> HIDE DEF x, y, z
        <3>3. z <= CmdlineCap
            BY <3>1, <3>2
        <3> QED
            BY <3>3 DEF z
    <2> QED
        BY <2>1, <2>2, <2>3, Zenon DEF GoodLine
<1> QED
    BY <1>1, <1>2

LEMMA ArgIsGood ==
    ASSUME NEW line \in Text, Len(line) <= CmdlineCap, NEW text \in Text
    PROVE  GoodLine(ML!AppendArg(line, text), line, (<<ML!Blank, ML!Quot>> \o text) \o <<ML!Quot>>)
<1> DEFINE a == <<ML!Blank, ML!Quot>>
           b == <<ML!Quot>>
           copied == ML!Copy(line \o a, text)
           asked == (a \o text) \o b
<1>1. a \in Text /\ Len(a) = 2 /\ b \in Text /\ Len(b) = 1
    <2>1. \A x, y \in Letter : <<x, y>> \in Text /\ Len(<<x, y>>) = 2
        BY DEF Text
    <2> QED
        BY <2>1, LettersFixed, TextFacts, Zenon
<1>2. CASE CmdlineCap < Len(line) + Len(text) + 4
    <2>1. ML!AppendArg(line, text) = ML!Line(line, FALSE)
        BY <1>2, Zenon DEF ML!AppendArg
    <2> QED
        BY <2>1, LineFails
<1>3. CASE ~(CmdlineCap < Len(line) + Len(text) + 4)
    <2>1. ML!AppendArg(line, text) = IF copied.ok THEN ML!Line(copied.line \o b, TRUE) ELSE copied
        BY <1>3, Zenon DEF ML!AppendArg
    <2> HIDE DEF a, b
    <2>2. line \o a \in Text /\ Len(line \o a) = Len(line) + 2
        <3>1. line \o a \in Text /\ Len(line \o a) = Len(line) + Len(a)
            BY <1>1, TextLen, Zenon
        <3> QED
            BY <1>1, <3>1, Zenon
    <2>3. /\ copied.line \in Text /\ Len(copied.line) <= Len(line \o a) + Len(text)
          /\ copied.ok => copied.line = (line \o a) \o text
        BY <2>2, CopyFacts, Zenon
    <2> HIDE DEF copied
    <2>4. Len(copied.line) <= CmdlineCap /\ Len(copied.line) + 1 <= CmdlineCap
        <3> DEFINE x == Len(line)
                   y == Len(text)
                   z == Len(copied.line)
                   w == Len(line \o a)
        <3>1. x \in Nat /\ y \in Nat /\ z \in Nat /\ CmdlineCap \in Nat
            BY <2>3, TextFacts, MvnLaunchAssumption
        <3>2. w = x + 2 /\ z <= w + y /\ ~(CmdlineCap < x + y + 4)
            BY <1>3, <2>2, <2>3, Zenon
        <3> HIDE DEF x, y, z, w
        <3>3. z <= CmdlineCap /\ z + 1 <= CmdlineCap
            BY <3>1, <3>2
        <3> QED
            BY <3>3 DEF z
    <2>5. CASE ~copied.ok
        <3>1. ML!AppendArg(line, text) = copied
            BY <2>1, <2>5, Zenon
        <3> QED
            BY <2>3, <2>4, <2>5, <3>1, Zenon DEF GoodLine
    <2>6. CASE copied.ok
        <3> DEFINE x == copied.line \o b
        <3>1. ML!AppendArg(line, text) = ML!Line(x, TRUE)
            BY <2>1, <2>6, Zenon
        <3>2. copied.line = (line \o a) \o text
            BY <2>3, <2>6, Zenon
        <3> DEFINE c == copied.line
        <3>3. c \in Text /\ Len(c) + 1 <= CmdlineCap
            BY <2>3, <2>4
        <3> HIDE DEF c
        <3>4. c \o b \in Text /\ Len(c \o b) <= CmdlineCap
            <4>1. c \o b \in Text /\ Len(c \o b) = Len(c) + Len(b)
                BY <1>1, <3>3, TextLen, Zenon
            <4>2. Len(c \o b) = Len(c) + 1
                BY <1>1, <4>1, Zenon
            <4> QED
                BY <3>3, <4>1, <4>2
        <3>5. x = line \o asked
            <4>1. a \o text \in Text /\ x = ((line \o a) \o text) \o b
                BY <1>1, <3>2, TextFacts
            <4>2. (line \o a) \o text = line \o (a \o text)
                BY <1>1, TextAssoc, Zenon
            <4>3. (line \o (a \o text)) \o b = line \o ((a \o text) \o b)
                <5>1. line \in Text /\ a \o text \in Text /\ b \in Text
                    BY <1>1, <4>1, Zenon
                <5> DEFINE t == a \o text
                <5> HIDE DEF t
                <5>2. (line \o t) \o b = line \o (t \o b)
                    BY <5>1, TextAssoc, Zenon DEF t
                <5> QED
                    BY <5>2 DEF t
            <4> QED
                BY <4>1, <4>2, <4>3, Zenon
        <3>6. x \in Text /\ Len(x) <= CmdlineCap
            BY <3>4 DEF c
        <3> HIDE DEF x
        <3>7. GoodLine(ML!Line(x, TRUE), line, asked)
            BY <3>5, <3>6, LineGrows
        <3> QED
            BY <3>1, <3>7, Zenon DEF a, b
    <2> QED
        BY <2>5, <2>6
<1> QED
    BY <1>2, <1>3

LEMMA EnvIsGood ==
    ASSUME NEW line \in Text, Len(line) <= CmdlineCap, NEW text \in Text
    PROVE  GoodLine(ML!AppendFromEnvironIfNotEmpty(line, text), line,
                    IF text = <<>> THEN <<>> ELSE <<ML!Blank>> \o text)
<1> DEFINE a == <<ML!Blank>>
           blank == ML!AppendRaw(line, a)
           new == ML!AppendFromEnvironIfNotEmpty(line, text)
           asked == IF text = <<>> THEN <<>> ELSE a \o text
<1>1. a \in Text
    BY LettersFixed, TextFacts
<1>2. new = IF Len(text) >= EnvvalCap - 1 THEN ML!Line(line, FALSE)
            ELSE IF text = <<>> THEN ML!Line(line, TRUE)
            ELSE IF blank.ok THEN ML!AppendRaw(blank.line, text) ELSE blank
    BY Zenon DEF ML!AppendFromEnvironIfNotEmpty
<1>3. GoodLine(blank, line, a)
    BY <1>1, RawIsGood
<1> HIDE DEF a, new
<1>4. CASE Len(text) >= EnvvalCap - 1
    <2>1. new = ML!Line(line, FALSE)
        BY <1>2, <1>4, Zenon
    <2>2. GoodLine(new, line, asked)
        BY <2>1, LineFails
    <2> QED
        BY <2>2 DEF new, a
<1>5. CASE ~(Len(text) >= EnvvalCap - 1) /\ text = <<>>
    <2>1. new = ML!Line(line, TRUE) /\ asked = <<>>
        BY <1>2, <1>5, Zenon
    <2>2. line = line \o <<>>
        BY TextFacts
    <2>3. GoodLine(new, line, asked)
        BY <2>1, <2>2, LineGrows
    <2> QED
        BY <2>3 DEF new, a
<1>6. CASE ~(Len(text) >= EnvvalCap - 1) /\ text # <<>> /\ ~blank.ok
    <2>1. new = blank
        BY <1>2, <1>6, Zenon
    <2>2. GoodLine(new, line, asked)
        BY <1>3, <1>6, <2>1, Zenon DEF GoodLine
    <2> QED
        BY <2>2 DEF new, a
<1>7. CASE ~(Len(text) >= EnvvalCap - 1) /\ text # <<>> /\ blank.ok
    <2> DEFINE x == blank.line
               next == ML!AppendRaw(x, text)
    <2>1. new = next /\ asked = a \o text
        BY <1>2, <1>7, Zenon
    <2>2. x \in Text /\ Len(x) <= CmdlineCap /\ x = line \o a
        BY <1>3, <1>7, Zenon DEF GoodLine
    <2> HIDE DEF x
    <2>3. GoodLine(next, x, text)
        BY <2>2, RawIsGood
    <2>4. x \o text = line \o (a \o text)
        <3>1. line \in Text /\ a \in Text /\ text \in Text
            BY <1>1, Zenon
        <3>2. (line \o a) \o text = line \o (a \o text)
            BY <3>1, TextAssoc, Zenon
        <3> QED
            BY <2>2, <3>2, Zenon
    <2>5. GoodLine(new, line, asked)
        BY <2>1, <2>3, <2>4, Zenon DEF GoodLine
    <2> QED
        BY <2>5 DEF new, a
<1> QED
    BY <1>4, <1>5, <1>6, <1>7

\* Every call leaves a line that fits the buffer and, if all went well, has grown by
\* what was asked for.
LEMMA AppendedIsGood ==
    ASSUME NEW call \in ACall, NEW line \in Text, Len(line) <= CmdlineCap
    PROVE  GoodLine(ML!Appended(call, line), line, ML!Asked(call))
<1> DEFINE text == call.text
<1>1. text \in Text /\ call.fn \in {"raw", "quot", "arg", "env", "cwd"}
    BY DEF ACall
<1>2. CASE call.fn = "raw"
    <2>1. ML!Appended(call, line) = ML!AppendRaw(line, text) /\ ML!Asked(call) = text
        BY <1>2 DEF ML!Appended, ML!Asked
    <2> QED
        BY <1>1, <2>1, RawIsGood
<1>3. CASE call.fn = "quot"
    <2>1. ML!Appended(call, line) = ML!AppendQuotEscaped(line, text) /\ ML!Asked(call) = text
        BY <1>3 DEF ML!Appended, ML!Asked
    <2> QED
        BY <1>1, <2>1, QuotIsGood
<1>4. CASE call.fn = "arg"
    <2> DEFINE a == <<ML!Blank, ML!Quot>>
               b == <<ML!Quot>>
    <2> HIDE DEF a, b
    <2>1. ML!Appended(call, line) = ML!AppendArg(line, text) /\ ML!Asked(call) = (a \o text) \o b
        BY <1>4 DEF ML!Appended, ML!Asked, a, b
    <2>2. GoodLine(ML!AppendArg(line, text), line, (a \o text) \o b)
        BY <1>1, ArgIsGood DEF a, b
    <2> QED
        BY <2>1, <2>2
<1>5. CASE call.fn = "env"
    <2> DEFINE a == <<ML!Blank>>
               asked == IF text = <<>> THEN <<>> ELSE a \o text
    <2> HIDE DEF a
    <2>1. ML!Appended(call, line) = ML!AppendFromEnvironIfNotEmpty(line, text) /\ ML!Asked(call) = asked
        BY <1>5 DEF ML!Appended, ML!Asked, a
    <2>2. GoodLine(ML!AppendFromEnvironIfNotEmpty(line, text), line, asked)
        BY <1>1, EnvIsGood DEF a
    <2> QED
        BY <2>1, <2>2
<1>6. CASE call.fn = "cwd"
    <2>1. ML!Appended(call, line) = ML!Line(line, text # <<>>) /\ ML!Asked(call) = <<>>
        BY <1>6 DEF ML!Appended, ML!Asked, ML!GetCurrentDirectory
    <2>2. line = line \o <<>>
        BY TextFacts
    <2>3. ML!Line(line, text # <<>>).line = line
        BY LineFields, Zenon
    <2>4. GoodLine(ML!Line(line, text # <<>>), line, <<>>)
        BY <2>2, <2>3, Zenon DEF GoodLine
    <2> QED
        BY <2>1, <2>4
<1> QED
    BY <1>1, <1>2, <1>3, <1>4, <1>5, <1>6

-----------------------------------------------------------------------------
(* The line holds what the calls made so far have asked for.               *)

\* cs are the calls after the first k, and line holds what those asked for.
Progress(e, cs, line) ==
    LET n == Len(ML!CallsOf(e))
    IN  \E k \in 0..n : /\ cs = SubSeq(ML!CallsOf(e), k + 1, n)
                        /\ line = Joined(Asks(e))[k]

\* What is asked for altogether.
Whole(e) == Joined(Asks(e))[Len(ML!CallsOf(e))]

LaunchFits(e, d, cs, line, proc, code) ==
    /\ e \in Environs /\ line \in Text /\ Len(line) <= CmdlineCap
    /\ d \in {"check", "append", "wait", "exit"}
    /\ d = "check" => line = <<>> /\ proc = ML!NotStarted
    /\ d = "append" => /\ ~ML!Refused(e) /\ proc = ML!NotStarted
                       /\ Progress(e, cs, line)
    /\ d = "wait" => proc # ML!NotStarted
    /\ d = "exit" /\ code = 0 => proc # ML!NotStarted
    /\ proc # ML!NotStarted => ~ML!Refused(e) /\ ML!IsPrefix(Whole(e), proc)

MlInv == LaunchFits(environ, mlDoing, calls, cmdline, process, mlExitCode)

\* Nothing is asked for before the first call.
LEMMA ProgressBegins ==
    ASSUME NEW e \in Environs, ~ML!Refused(e)
    PROVE  Progress(e, ML!CallsOf(e), <<>>)
<1> DEFINE all == ML!CallsOf(e)
           n == Len(all)
           f == Joined(Asks(e))
<1>1. all \in Seq(ACall) /\ n \in Nat
    BY CallsTyped
<1>2. all = SubSeq(all, 0 + 1, n) /\ 0 \in 0..n
    <2> HIDE DEF all
    <2> QED
        BY <1>1
<1>3. Joins(Letter, f, Asks(e), n)
    BY JoinedFacts
<1>4. f[0] = <<>>
    BY <1>3 DEF Joins
<1> HIDE DEF f
<1> QED
    BY <1>2, <1>4 DEF Progress, f

\* A call that goes well takes it one step further.
LEMMA ProgressGoesOn ==
    ASSUME NEW e \in Environs, ~ML!Refused(e), NEW cs, NEW line, cs # <<>>, Progress(e, cs, line)
    PROVE  /\ Head(cs) \in ACall
           /\ \A new : new = line \o ML!Asked(Head(cs)) => Progress(e, Tail(cs), new)
<1> DEFINE all == ML!CallsOf(e)
           n == Len(all)
           A == Asks(e)
           f == Joined(A)
<1>1. all \in Seq(ACall) /\ n \in Nat
    BY CallsTyped
<1>2. PICK k \in 0..n : cs = SubSeq(all, k + 1, n) /\ line = f[k]
    BY Zenon DEF Progress
<1>3. Joins(Letter, f, A, n) /\ \A i \in 1..n : A[i] = ML!Asked(all[i])
    BY JoinedFacts
<1> HIDE DEF f, A
<1>4. k + 1 \in 1..n /\ Head(cs) = all[k + 1] /\ Tail(cs) = SubSeq(all, (k + 1) + 1, n)
    <2> HIDE DEF all
    <2>1. k # n
        <3>1. k = n => SubSeq(all, k + 1, n) = <<>>
            BY <1>1
        <3> QED
            BY <1>2, <3>1
    <2>2. k + 1 \in 1..n
        BY <1>1, <2>1
    <2>3. Head(SubSeq(all, k + 1, n)) = all[k + 1]
        BY <1>1, <2>2
    <2>4. Tail(SubSeq(all, k + 1, n)) = SubSeq(all, (k + 1) + 1, n)
        BY <1>1, <2>2
    <2> QED
        BY <1>2, <2>2, <2>3, <2>4
<1>5. all[k + 1] \in ACall
    BY <1>1, <1>4
<1>6. f[k + 1] = f[k] \o A[k + 1] /\ (k + 1) - 1 = k
    <2>1. (k + 1) - 1 = k
        BY <1>1
    <2>2. f[k + 1] = f[(k + 1) - 1] \o A[k + 1]
        BY <1>3, <1>4, Zenon DEF Joins
    <2> QED
        BY <2>1, <2>2
<1>7. f[k + 1] = line \o ML!Asked(Head(cs))
    BY <1>2, <1>3, <1>4, <1>6
<1>8. k + 1 \in 0..n
    BY <1>1, <1>4
<1> QED
    BY <1>4, <1>5, <1>7, <1>8, Zenon DEF Progress, f, A

\* After the last call, the line is the whole of it.
LEMMA ProgressEnds ==
    ASSUME NEW e \in Environs, ~ML!Refused(e), NEW line, Progress(e, <<>>, line)
    PROVE  line = Whole(e)
<1> DEFINE all == ML!CallsOf(e)
           n == Len(all)
<1>1. all \in Seq(ACall) /\ n \in Nat
    BY CallsTyped
<1>2. PICK k \in 0..n : <<>> = SubSeq(all, k + 1, n) /\ line = Joined(Asks(e))[k]
    BY Zenon DEF Progress
<1>3. k = n
    <2> HIDE DEF all
    <2>1. k # n => Len(SubSeq(all, k + 1, n)) > 0
        BY <1>1
    <2> DEFINE s == SubSeq(all, k + 1, n)
    <2>2. Len(<<>>) = 0
        OBVIOUS
    <2>3. Len(s) = 0
        BY <1>2, <2>2, Zenon
    <2> HIDE DEF s
    <2>4. k # n => Len(s) > 0
        BY <2>1 DEF s
    <2> QED
        BY <2>3, <2>4
<1> QED
    BY <1>2, <1>3 DEF Whole

\* A line that is asked for is longer than the mark for no process.
LEMMA Started ==
    ASSUME NEW e \in Environs, ~ML!Refused(e), NEW more \in ML!Behind
    PROVE  ML!IsPrefix(Whole(e), Whole(e) \o more) /\ Whole(e) \o more # ML!NotStarted
<1> DEFINE S == Letter \cup {"?"}
           w == Whole(e)
<1>1. w \in Text /\ Len(w) >= 2
    BY JoinedFacts DEF Whole
<1>2. more \in Seq(S)
    <2>1. <<>> \in Seq(S) /\ <<"?">> \in Seq(S)
        OBVIOUS
    <2> QED
        BY <2>1, Zenon DEF ML!Behind
<1> HIDE DEF w
<1>3. w \in Seq(S)
    BY <1>1 DEF Text
<1> HIDE DEF S
<1>4. ML!IsPrefix(w, w \o more) /\ Len(w \o more) >= Len(w)
    BY <1>2, <1>3, PrefixOfMore
<1>5. Len(ML!NotStarted) = 1
    <2>1. \A x : Len(<<x>>) = 1
        OBVIOUS
    <2> QED
        BY <2>1, Zenon DEF ML!NotStarted
<1>6. Len(w \o more) # 1
    <2>1. w \o more \in Seq(S)
        BY <1>2, <1>3
    <2> DEFINE x == Len(w \o more)
               y == Len(w)
    <2>2. x \in Nat /\ y \in Nat /\ x >= y /\ y >= 2
        BY <1>1, <1>3, <1>4, <2>1
    <2> HIDE DEF x, y
    <2>3. x # 1
        BY <2>2
    <2> QED
        BY <2>3 DEF x
<1> QED
    BY <1>4, <1>5, <1>6 DEF w

LEMMA LaunchInit ==
    ASSUME ML!Init
    PROVE  MlInv
<1>1. /\ environ \in Environs /\ mlDoing = "check" /\ cmdline = <<>> /\ process = ML!NotStarted
    BY DEF ML!Init
<1>2. <<>> \in Text /\ Len(<<>>) <= CmdlineCap
    BY TextFacts, MvnLaunchAssumption
<1> QED
    BY <1>1, <1>2 DEF MlInv, LaunchFits

LEMMA CheckStep ==
    ASSUME MlInv, ML!Check
    PROVE  MlInv'
<1>1. /\ mlDoing = "check" /\ environ' = environ /\ cmdline' = cmdline /\ process' = process
    BY DEF ML!Check
<1>2. /\ environ \in Environs /\ cmdline \in Text /\ Len(cmdline) <= CmdlineCap
      /\ cmdline = <<>> /\ process = ML!NotStarted
    BY <1>1 DEF MlInv, LaunchFits
<1>3. CASE ML!Refused(environ)
    <2>1. mlDoing' = "exit" /\ mlExitCode' # 0
        BY <1>3 DEF ML!Check, ML!Fails, ML!Crash
    <2> QED
        BY <1>1, <1>2, <2>1 DEF MlInv, LaunchFits
<1>4. CASE ~ML!Refused(environ)
    <2>1. mlDoing' = "append" /\ calls' = ML!CallsOf(environ)
        BY <1>4 DEF ML!Check
    <2>2. Progress(environ', calls', cmdline')
        BY <1>1, <1>2, <1>4, <2>1, ProgressBegins
    <2>3. ~ML!Refused(environ')
        BY <1>1, <1>4
    <2> QED
        BY <1>1, <1>2, <2>1, <2>2, <2>3 DEF MlInv, LaunchFits
<1> QED
    BY <1>3, <1>4

LEMMA Append1Step ==
    ASSUME MlInv, ML!Append1
    PROVE  MlInv'
<1> DEFINE call == Head(calls)
           new == ML!Appended(call, cmdline)
<1>1. /\ mlDoing = "append" /\ calls # <<>> /\ calls' = Tail(calls) /\ cmdline' = new.line
      /\ environ' = environ /\ process' = process
    BY DEF ML!Append1
<1>2. /\ environ \in Environs /\ cmdline \in Text /\ Len(cmdline) <= CmdlineCap
      /\ ~ML!Refused(environ) /\ process = ML!NotStarted /\ Progress(environ, calls, cmdline)
    BY <1>1 DEF MlInv, LaunchFits
<1>3. call \in ACall /\ \A x : x = cmdline \o ML!Asked(call) => Progress(environ, Tail(calls), x)
    BY <1>1, <1>2, ProgressGoesOn
<1>4. GoodLine(new, cmdline, ML!Asked(call))
    BY <1>2, <1>3, AppendedIsGood
<1>5. cmdline' \in Text /\ Len(cmdline') <= CmdlineCap
    BY <1>1, <1>4 DEF GoodLine
<1>6. process' = ML!NotStarted /\ ~ML!Refused(environ') /\ environ' \in Environs
    BY <1>1, <1>2
<1>7. CASE new.ok
    <2>1. mlDoing' = mlDoing
        BY <1>7, Zenon DEF ML!Append1
    <2>2. Progress(environ', calls', cmdline')
        <3>1. new.line = cmdline \o ML!Asked(call)
            BY <1>4, <1>7, Zenon DEF GoodLine
        <3> QED
            BY <1>1, <1>3, <3>1, Zenon
    <2> QED
        BY <1>1, <1>5, <1>6, <2>1, <2>2 DEF MlInv, LaunchFits
<1>8. CASE ~new.ok
    <2>1. mlDoing' = "exit" /\ mlExitCode' \in {1}
        BY <1>8, Zenon DEF ML!Append1, ML!Fails
    <2>2. mlExitCode' # 0
        BY <2>1
    <2> QED
        BY <1>5, <1>6, <2>1, <2>2 DEF MlInv, LaunchFits
<1> QED
    BY <1>7, <1>8

LEMMA CreateProcessStep ==
    ASSUME MlInv, ML!CreateProcess
    PROVE  MlInv'
<1>1. /\ mlDoing = "append" /\ calls = <<>> /\ cmdline' = cmdline /\ environ' = environ
    BY DEF ML!CreateProcess
<1>2. /\ environ \in Environs /\ cmdline \in Text /\ Len(cmdline) <= CmdlineCap
      /\ ~ML!Refused(environ) /\ process = ML!NotStarted /\ Progress(environ, calls, cmdline)
    BY <1>1 DEF MlInv, LaunchFits
<1>3. cmdline = Whole(environ)
    BY <1>1, <1>2, ProgressEnds
<1>4. CASE (\E more \in ML!Behind : process' = cmdline \o more) /\ mlDoing' = "wait"
    <2>1. PICK more \in ML!Behind : process' = cmdline \o more
        BY <1>4
    <2>2. ML!IsPrefix(Whole(environ), process') /\ process' # ML!NotStarted
        BY <1>2, <1>3, <2>1, Started
    <2>3. ~ML!Refused(environ') /\ ML!IsPrefix(Whole(environ'), process') /\ process' # ML!NotStarted
        BY <1>1, <1>2, <2>2
    <2> QED
        BY <1>1, <1>2, <1>4, <2>3 DEF MlInv, LaunchFits
<1>5. CASE ML!Fails(FALSE) /\ process' = process
    <2>1. mlDoing' = "exit" /\ mlExitCode' # 0
        BY <1>5 DEF ML!Fails
    <2> QED
        BY <1>1, <1>2, <1>5, <2>1 DEF MlInv, LaunchFits
<1> QED
    BY <1>4, <1>5 DEF ML!CreateProcess

LEMMA WaitStep ==
    ASSUME MlInv, ML!WaitForSingleObject
    PROVE  MlInv'
<1>1. /\ mlDoing = "wait" /\ mlDoing' = "exit"
      /\ environ' = environ /\ calls' = calls /\ cmdline' = cmdline /\ process' = process
    BY DEF ML!WaitForSingleObject, ML!Fails
<1> QED
    BY <1>1 DEF MlInv, LaunchFits

LEMMA LaunchKept ==
    ASSUME MlInv, UNCHANGED <<environ, mlDoing, calls, cmdline, process, mlExitCode>>
    PROVE  MlInv'
BY DEF MlInv, LaunchFits

\* Every step of the launchers keeps their invariant.
LEMMA LaunchNext ==
    ASSUME MlInv, ML!Next
    PROVE  MlInv'
<1>1. CASE ML!Check
    BY <1>1, CheckStep
<1>2. CASE ML!Append1
    BY <1>2, Append1Step
<1>3. CASE ML!CreateProcess
    BY <1>3, CreateProcessStep
<1>4. CASE ML!WaitForSingleObject
    BY <1>4, WaitStep
<1>5. CASE ML!Ended
    BY <1>5, LaunchKept DEF ML!Ended, ML!mlVars
<1> QED
    BY <1>1, <1>2, <1>3, <1>4, <1>5 DEF ML!Next

\* The invariant, while this is the tool that runs.
LaunchTool == tool = "MvnLaunch" => MlInv

\* The invariant of the launchers: while the line is assembled, it is what the calls
\* made so far asked for, it fits the buffer, and a process has all of it.
THEOREM LaunchInvariant == Spec => []LaunchTool
<1>1. Init => LaunchTool
    BY LaunchInit DEF Init, LaunchTool
<1>2. LaunchTool /\ [Next]_<<tool, rcVars, hlVars, hfVars, sfVars, jbVars, mlVars>> => LaunchTool'
    <2> SUFFICES ASSUME LaunchTool, tool' = "MvnLaunch",
                        [Next]_<<tool, rcVars, hlVars, hfVars, sfVars, jbVars, mlVars>>
                 PROVE  MlInv'
        BY DEF LaunchTool
    <2>1. CASE Next
        <3>1. tool = "MvnLaunch" /\ ML!Next
            BY <2>1 DEF Next
        <3> QED
            BY <3>1, LaunchNext DEF LaunchTool
    <2>2. CASE UNCHANGED <<tool, rcVars, hlVars, hfVars, sfVars, jbVars, mlVars>>
        <3>1. MlInv /\ UNCHANGED <<environ, mlDoing, calls, cmdline, process, mlExitCode>>
            BY <2>2 DEF LaunchTool, mlVars
        <3> QED
            BY <3>1, LaunchKept
    <2> QED
        BY <2>1, <2>2
<1> QED
    BY <1>1, <1>2, PTL DEF Spec

\* mvn-launch.c, mvn-versions-set.c: whatever the environment, the arguments and the
\* sizes of the buffers, a process is started only with everything that was asked for,
\* in order, success is reported only if one was, and the line stays in its buffer.
THEOREM CommandLineIsWhole == Spec => []LaunchedAsAsked
<1>1. LaunchTool => LaunchedAsAsked
    <2> SUFFICES ASSUME MlInv
                 PROVE  ML!LaunchedAsAsked
        BY DEF LaunchTool, LaunchedAsAsked
    <2>1. /\ Len(cmdline) <= CmdlineCap
          /\ mlDoing = "exit" /\ mlExitCode = 0 => process # ML!NotStarted
        BY DEF MlInv, LaunchFits
    <2>2. ASSUME process # ML!NotStarted
          PROVE  ML!IsPrefix(ML!FlattenSeq(Asks(environ)), process)
        <3>1. environ \in Environs /\ ~ML!Refused(environ) /\ ML!IsPrefix(Whole(environ), process)
            BY <2>2 DEF MlInv, LaunchFits
        <3>2. ML!FlattenSeq(Asks(environ)) = Whole(environ)
            BY <3>1, JoinedFacts DEF Whole
        <3> QED
            BY <3>1, <3>2
    <2> QED
        BY <2>1, <2>2, Zenon DEF ML!LaunchedAsAsked, Asks
<1> QED
    BY <1>1, LaunchInvariant, PTL
=============================================================================
