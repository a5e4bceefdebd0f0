------------------------------ MODULE MCStreams ------------------------------
(***************************************************************************)
(* The streams and the incremental parsers, for TLC.                       *)
(***************************************************************************)
EXTENDS Streams

\* Empty sources at the begin, in the middle and at the end; none at all.
MCSourceLengths == { <<>>, <<0>>, <<3>>, <<0, 2>>, <<2, 0, 1>>, <<1, 1, 0>>, <<2, 2>> }

\* CR and LF, another byte, a CR with higher bits set, and a number that after the mask
\* is no longer the one for "nothing is held back".
MCGiven == {13, 10, 65, 256 + 13, -42}

\* Documents that are fine, broken into lines in different places, without body,
\* with one and several groups, with an incomplete group, with every kind of
\* character, cut off, or with a bad first or last line.
Dashes == <<45, 45, 45, 45, 45>>
PemHeader == <<1000, 88>> \o Dashes \o <<10>>
PemTrailer == <<10, 45, 1001, 88>> \o Dashes
MCDocuments ==
    { PemHeader \o body \o PemTrailer : body \in
        { <<>>, <<65, 90, 97, 122>>, <<48, 57, 10, 77, 109>>, <<65, 98, 51>>,
          <<122, 57, 89, 120, 10, 52, 90, 97, 48, 66>>,
          <<43, 47, 61, 61>>, <<77, 81, 61, 61>>, <<65, 43, 66, 67, 10, 68, 69, 70, 47>>, <<65, 33>> } }
    \cup { <<>>, <<88>>, <<1000, 88>>, <<1000, 45, 45, 88, 10>>,
           PemHeader \o <<65, 66, 67, 68>>, PemHeader \o <<65, 66, 67, 68, 45, 45>> }

\* A sequence, values of one and of several buffers, lengths of one to four octets
\* and more, and two that are negative; each of them cut off anywhere.
Count(n) == [i \in 1..n |-> i]
MCAsn1Documents ==
    UNION { { SubSeq(d, 1, n) : n \in 0..Len(d) } : d \in
        { <<48, 7, 2, 1, 65, 4, 2, 66, 67>>, <<4, 10>> \o Count(10) \o <<5, 0>>,
          <<4, 31>> \o Count(31) \o <<2, 1, 7>>, <<4, 159, 0>> \o Count(6),
          <<4, 159, 128, 1, 9, 2, 33, 8>>, <<12, 159, 128, 128, 2, 7, 8>>,
          <<4, 159, 128, 128, 128, 2, 7, 8>>,
          <<4, 159, 128, 143, 5>> \o Count(9), <<4, 159, 128, 136, 0>> \o Count(9) } }
=============================================================================
