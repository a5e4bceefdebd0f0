---------------------------- MODULE HoustonLogGet ----------------------------
(***************************************************************************)
(* HoustonLogGet.c: one child process lists the pods, the first pod whose  *)
(* name begins with "houston-" is taken, and a second child prints an      *)
(* archive of its logs, which goes to a file.                              *)
(*                                                                         *)
(* What a child prints arrives in chunks of any size; join() has a         *)
(* timeout, so a child may be over at any time.  "houston-" is Prefix.     *)
(* stdio keeps what is written as long as it likes.                        *)
(***************************************************************************)
EXTENDS Integers, Sequences, SequencesExt

CONSTANTS
    Char,           \* what a child may print
    Prefix,         \* "houston-"
    Listings,       \* what the first child may print
    Archive,        \* what the second child prints
    NameCap,        \* sizeof podName
    BufGrowth       \* 4096, by which getPodsBuf grows

SP == "sp"
LF == "lf"
NotOpen == <<"not open">>

VARIABLES
    stage,          \* which handler or child is next
    child,          \* app->child # NULL
    printed,        \* what the child will still print
    getPodsBuf,
    getPodsBuf_cap,
    podName,
    exitCode,
    outfileFd,      \* open or not
    outfile,        \* contents of the file
    unflushed,      \* what stdio holds of it; once it is closed, what was lost
    listing         \* everything the first child would print

hlVars == <<stage, child, printed, getPodsBuf, getPodsBuf_cap, podName, exitCode,
            outfileFd, outfile, unflushed, listing>>
fileVars == <<outfileFd, outfile, unflushed>>

Init ==
    /\ stage = "getHoustonPodname"
    /\ child = FALSE
    /\ listing \in Listings
    /\ printed = listing
    /\ getPodsBuf = <<>>
    /\ getPodsBuf_cap = 0
    /\ podName = <<>>
    /\ exitCode = 0
    /\ outfileFd = FALSE
    /\ outfile = NotOpen
    /\ unflushed = <<>>

GetHoustonPodname ==
    /\ stage = "getHoustonPodname"
    /\ stage' = IF child THEN "abort" ELSE "getPods"
    /\ child' = TRUE
    /\ UNCHANGED <<printed, getPodsBuf, getPodsBuf_cap, podName, exitCode, fileVars, listing>>

\* A failing realloc() ends the process. The buffer grows once, whatever the length of
\* the chunk: what does not fit then is copied behind its end, and anything may follow.
AppendToGetPodsBuf ==
    /\ stage = "getPods"
    /\ \E k \in 1..Len(printed) :
         LET len == Len(getPodsBuf) + k
             cap == IF getPodsBuf_cap < len THEN getPodsBuf_cap + BufGrowth ELSE getPodsBuf_cap
         IN  \/ /\ len <= cap
                /\ getPodsBuf' = getPodsBuf \o SubSeq(printed, 1, k)
                /\ getPodsBuf_cap' = cap
                /\ printed' = SubSeq(printed, k + 1, Len(printed))
                /\ UNCHANGED stage
             \/ /\ len > cap
                /\ stage' = "overrun"
                /\ UNCHANGED <<printed, getPodsBuf, getPodsBuf_cap>>
             \/ /\ cap > getPodsBuf_cap
                /\ stage' = "abort"
                /\ UNCHANGED <<printed, getPodsBuf, getPodsBuf_cap>>
    /\ UNCHANGED <<child, podName, exitCode, fileVars, listing>>

-----------------------------------------------------------------------------
(* The search in onGetPodsJoined().                                        *)

Buf == getPodsBuf
FirstOf(S) == CHOOSE i \in S : \A j \in S : i <= j

\* checkIfHouston: at the begin of a line, with enough bytes behind it for the
\* prefix and a name.
IsHouston(i) ==
    /\ i = 1 \/ Buf[i - 1] = LF
    /\ i + Len(Prefix) + 1 <= Len(Buf)
    /\ SubSeq(Buf, i, i + Len(Prefix) - 1) = Prefix

\* Mutant: a name may also end with the buffer.
SpaceOrEnd(i) == {j \in i..(Len(Buf) + 1) : j = Len(Buf) + 1 \/ Buf[j] = SP}

\* seekEndOfHoustonName
SpacesFrom(i) == {j \in i..Len(Buf) : Buf[j] = SP}

Houstons == {i \in 1..Len(Buf) : IsHouston(i)}

\* Only the first match is tried, the timeout or failure of the child is ignored.
OnGetPodsJoined ==
    /\ stage = "getPods"
    /\ child' = FALSE
    /\ IF Houstons = {} \/ SpacesFrom(FirstOf(Houstons)) = {}
       THEN /\ stage' = "end"
            /\ exitCode' = -1
            /\ UNCHANGED <<podName, printed>>
       ELSE LET off == FirstOf(Houstons)
                len == FirstOf(SpacesFrom(off)) - off
            IN  IF len + 1 >= NameCap
                THEN stage' = "abort" /\ UNCHANGED <<podName, exitCode, printed>>
                ELSE /\ podName' = SubSeq(Buf, off, off + len - 1)
                     /\ stage' = "beginZipDownload"
                     /\ printed' = Archive
                     /\ UNCHANGED exitCode
    /\ UNCHANGED <<getPodsBuf, getPodsBuf_cap, fileVars, listing>>

BeginZipDownload ==
    /\ stage = "beginZipDownload"
    /\ stage' = IF child THEN "abort" ELSE "zip"
    /\ child' = TRUE
    /\ UNCHANGED <<printed, getPodsBuf, getPodsBuf_cap, podName, exitCode, fileVars, listing>>

\* Mutant: the file is opened for every chunk.
OpenedAlways == <<>>

\* fopen( "wb" ) of the first chunk.
Opened == IF outfileFd THEN outfile ELSE <<>>

\* stdio has taken some of what is written, and any part of that is in the file now.
Stored(all, taken) ==
    \E n \in Len(Opened)..taken :
        outfile' = SubSeq(all, 1, n) /\ unflushed' = SubSeq(all, n + 1, taken)

\* After a failure the chunks are dropped.
AppendToCurrentOutfile ==
    /\ stage = "zip"
    /\ \E k \in 1..Len(printed) :
         LET all == Opened \o unflushed \o SubSeq(printed, 1, k)
         IN  /\ printed' = SubSeq(printed, k + 1, Len(printed))
             /\ \/ /\ exitCode = 0
                   /\ Stored(all, Len(all))
                   /\ outfileFd' = TRUE
                   /\ UNCHANGED exitCode
                \/ /\ exitCode = 0 /\ ~outfileFd              \* fopen() fails
                   /\ exitCode' = -1
                   /\ UNCHANGED fileVars
                \/ /\ exitCode = 0                            \* fwrite() fails
                   /\ exitCode' = -1
                   /\ outfileFd' = TRUE
                   /\ \E taken \in Len(Opened)..Len(all) : Stored(all, taken)
                \/ /\ exitCode # 0
                   /\ UNCHANGED <<exitCode, fileVars>>
    /\ UNCHANGED <<stage, child, getPodsBuf, getPodsBuf_cap, podName, listing>>

\* fclose() writes what stdio still holds; nobody notices if it cannot. app->child
\* keeps pointing to the child.
OnZipDownloadJoined ==
    /\ stage = "zip"
    /\ stage' = "end"
    /\ outfileFd' = FALSE
    /\ IF outfileFd
       THEN LET all == outfile \o unflushed IN Stored(all, Len(all))
       ELSE UNCHANGED <<outfile, unflushed>>
    /\ UNCHANGED <<child, printed, getPodsBuf, getPodsBuf_cap, podName, exitCode, listing>>

\* The process is over.
Ended == stage \in {"end", "abort", "overrun"} /\ UNCHANGED hlVars

Next ==
    \/ GetHoustonPodname \/ AppendToGetPodsBuf \/ OnGetPodsJoined
    \/ BeginZipDownload \/ AppendToCurrentOutfile \/ OnZipDownloadJoined \/ Ended

Spec == Init /\ [][Next]_hlVars

-----------------------------------------------------------------------------
(* Properties.                                                             *)

\* The first words of the lines of the listing.
Words ==
    {SubSeq(listing, w[1], w[2]) : w \in
        {p \in (1..Len(listing)) \X (1..Len(listing)) :
            /\ p[1] <= p[2]
            /\ p[1] = 1 \/ listing[p[1] - 1] = LF
            /\ \A m \in p[1]..p[2] : listing[m] \notin {SP, LF}
            /\ p[2] < Len(listing) => listing[p[2] + 1] \in {SP, LF}}}

\* However the listing was cut into chunks, and wherever the timeout of join() cut
\* it off, the name that is used is the whole name of a pod that begins with
\* "houston-". (Nothing is said once a chunk was copied behind the end of the buffer.)
PodNameIsComplete ==
    podName # <<>> => podName \in Words /\ IsPrefix(Prefix, podName)

\* However the archive is cut into chunks and whichever of them fails, the file holds a
\* begin of it: nothing is missing in between, nothing was written twice or after a
\* failure. With an exit code of zero only an end of it is missing: what had not arrived
\* when join() gave up, and what fclose() could not write. Both go unnoticed, so an exit
\* code of zero does not promise a complete file.
ArchiveHasNoGap ==
    outfile # NotOpen =>
        /\ IsPrefix(outfile \o unflushed, Archive)
        /\ exitCode = 0 => outfile \o unflushed \o printed = Archive

-----------------------------------------------------------------------------
(* The inductive invariant.                                                *)

BeforePods == {"getHoustonPodname", "getPods"}

\* What every variable may hold.
TypeOK ==
    /\ stage \in BeforePods \cup {"beginZipDownload", "zip", "end", "abort", "overrun"}
    /\ child \in BOOLEAN /\ outfileFd \in BOOLEAN
    /\ listing \in Listings
    /\ printed \in Seq(Char) /\ getPodsBuf \in Seq(Char) /\ podName \in Seq(Char)
    /\ outfile \in Seq(Char) \cup {NotOpen}
    /\ unflushed \in Seq(Char)
    /\ getPodsBuf_cap \in Nat
    /\ exitCode \in {0, -1}

\* Nothing of the listing is lost between the child and the buffer.
ListingKept ==
    stage \in BeforePods => getPodsBuf \o printed = listing /\ podName = <<>>

\* Nothing of the archive is lost between the child and stdio.
ArchiveKept ==
    /\ stage \in BeforePods \cup {"beginZipDownload"} =>
          outfile = NotOpen /\ unflushed = <<>> /\ ~outfileFd /\ exitCode = 0
    /\ stage = "beginZipDownload" => printed = Archive
    /\ outfileFd => outfile \in Seq(Char) /\ IsPrefix(outfile \o unflushed, Archive)
    /\ stage = "zip" /\ exitCode = 0 =>
          \/ outfileFd /\ outfile \o unflushed \o printed = Archive
          \/ ~outfileFd /\ outfile = NotOpen /\ unflushed = <<>> /\ printed = Archive

LogGetInv == TypeOK /\ ListingKept /\ ArchiveKept /\ PodNameIsComplete /\ ArchiveHasNoGap
=============================================================================
