-------------------------- MODULE ByteChunkOStream --------------------------
(***************************************************************************)
(* ByteChunkOStream.java: collects the bytes written to it and passes them *)
(* on in arrays of chunkSize bytes.                                        *)
(*                                                                         *)
(* The n-th byte a caller passes is the number n.  The loop of             *)
(* write( byte[] ) is one step per turn.  The handler may throw whenever   *)
(* it is called; the caller may go on using the stream.                    *)
(***************************************************************************)
EXTENDS Integers, Sequences, SequencesExt, FiniteSetsExt

CONSTANTS
    ChunkSize,
    MaxLen,         \* longest array passed to write()
    MaxSent         \* bound on the number of bytes

VARIABLES
    buf,            \* the bytes in use; bufUsedBytes is its length
    bufIsNull,      \* buf = null
    onEndIsNull,
    rest,           \* of the write() in progress: the bytes not yet appended
    writing,
    sent,           \* bytes passed to write() so far
    refused,        \* bytes of calls that ended with an exception before them
    chunks,         \* what the handler got
    ends            \* calls of the end handler

bcVars == <<buf, bufIsNull, onEndIsNull, rest, writing, sent, refused, chunks, ends>>

Init ==
    /\ buf = <<>>
    /\ bufIsNull = FALSE
    /\ onEndIsNull \in BOOLEAN
    /\ rest = <<>>
    /\ writing = FALSE
    /\ sent = 0
    /\ refused = {}
    /\ chunks = <<>>
    /\ ends = 0

\* Mutant: the buffer is declared empty after the handler was called.
EmptiedAfter(b, ok) == IF ok THEN <<>> ELSE b

\* bufUsedBytes = 0 is assigned before the handler is called.
Emptied(b, ok) == <<>>

\* publishBuffer() with b in the buffer; ok: the handler does not throw.
PublishBuffer(b, ok) ==
    IF b = <<>>
    THEN ok /\ buf' = b /\ UNCHANGED chunks
    ELSE chunks' = Append(chunks, b) /\ buf' = Emptied(b, ok)

\* write( byte[] ).  Once buf is null it throws and nothing changes.
Write(n) ==
    /\ ~writing /\ ~bufIsNull
    /\ sent + n <= MaxSent
    /\ writing' = TRUE
    /\ rest' = [i \in 1..n |-> sent + i]
    /\ sent' = sent + n
    /\ UNCHANGED <<buf, bufIsNull, onEndIsNull, refused, chunks, ends>>

WriteTurn ==
    /\ writing
    /\ LET appended == Min({ChunkSize - Len(buf), Len(rest)})
           filled == buf \o SubSeq(rest, 1, appended)
           left == SubSeq(rest, appended + 1, Len(rest))
       IN  \/ /\ left = <<>>
              /\ buf' = filled
              /\ writing' = FALSE
              /\ rest' = <<>>
              /\ UNCHANGED <<refused, chunks>>
           \/ /\ left # <<>>
              /\ PublishBuffer(filled, TRUE)
              /\ rest' = left
              /\ UNCHANGED <<writing, refused>>
           \/ /\ left # <<>>
              /\ PublishBuffer(filled, FALSE)
              /\ rest' = <<>>
              /\ writing' = FALSE
              /\ refused' = refused \cup ToSet(left)
    /\ UNCHANGED <<bufIsNull, onEndIsNull, sent, ends>>

\* write( int ): appends, after publishing if the buffer is full.
WriteByte ==
    /\ ~writing /\ ~bufIsNull
    /\ sent < MaxSent
    /\ sent' = sent + 1
    /\ \/ /\ Len(buf) < ChunkSize
          /\ buf' = Append(buf, sent + 1)
          /\ UNCHANGED <<refused, chunks>>
       \/ /\ Len(buf) = ChunkSize                      \* the second turn appends
          /\ chunks' = Append(chunks, buf)
          /\ buf' = Append(Emptied(buf, TRUE), sent + 1)
          /\ UNCHANGED refused
       \/ /\ Len(buf) = ChunkSize                      \* the handler throws
          /\ PublishBuffer(buf, FALSE)
          /\ refused' = refused \cup {sent + 1}
    /\ UNCHANGED <<bufIsNull, onEndIsNull, rest, writing, ends>>

\* Also with buf null: then it is empty.
Flush ==
    /\ ~writing
    /\ \E ok \in BOOLEAN : PublishBuffer(buf, ok)
    /\ UNCHANGED <<bufIsNull, onEndIsNull, rest, writing, sent, refused, ends>>

\* If flush() throws the stream is still open and the end handler not called.
Close ==
    /\ ~writing
    /\ \/ /\ PublishBuffer(buf, TRUE)
          /\ bufIsNull' = TRUE
          /\ onEndIsNull' = TRUE
          /\ ends' = IF onEndIsNull THEN ends ELSE ends + 1
       \/ /\ PublishBuffer(buf, FALSE)
          /\ UNCHANGED <<bufIsNull, onEndIsNull, ends>>
    /\ UNCHANGED <<rest, writing, sent, refused>>

Next ==
    \/ \E n \in 0..MaxLen : Write(n)
    \/ WriteTurn \/ WriteByte \/ Flush \/ Close

Spec == Init /\ [][Next]_bcVars

-----------------------------------------------------------------------------
(* Properties.                                                             *)

\* Numbers ascend within every sequence and from each to those behind it.
InOrder(parts) ==
    \A i, j \in 1..Len(parts) : \A k \in 1..Len(parts[i]) : \A l \in 1..Len(parts[j]) :
        (i < j \/ (i = j /\ k < l)) => parts[i][k] < parts[j][l]

\* Whatever calls are made, and whenever the handler throws: every byte that was
\* accepted gets to the handler once and in order, or is still in the buffer; no
\* chunk is empty or longer than chunkSize; and the end is reported once, when
\* nothing is left in the buffer, even if close() has to be called again.
ChunksInOrder ==
    /\ InOrder(chunks \o <<buf, rest>>)
    /\ (UNION ToSet([i \in 1..Len(chunks) |-> ToSet(chunks[i])])) \cup ToSet(buf) \cup ToSet(rest)
         = (1..sent) \ refused
    /\ \A i \in 1..Len(chunks) : Len(chunks[i]) \in 1..ChunkSize
    /\ ends <= 1
    /\ ends = 1 => buf = <<>> /\ rest = <<>>

-----------------------------------------------------------------------------
(* What is inductive.                                                      *)

\* The last byte that was taken out of the array of the caller.
Edge == sent - Len(rest)

TypeOK ==
    /\ buf \in Seq(Nat) /\ rest \in Seq(Nat) /\ chunks \in Seq(Seq(Nat))
    /\ sent \in Nat /\ ends \in 0..1
    /\ bufIsNull \in BOOLEAN /\ onEndIsNull \in BOOLEAN /\ writing \in BOOLEAN

\* What is left of the array are the last bytes sent, the others are behind them or
\* refused; and the end was reported only when the stream was closed.
ByteChunkInv ==
    /\ TypeOK
    /\ Len(buf) <= ChunkSize
    /\ Len(rest) <= sent
    /\ \A i \in 1..Len(rest) : rest[i] = Edge + i
    /\ \A i \in 1..Len(buf) : buf[i] <= Edge
    /\ \A i \in 1..Len(chunks) : \A k \in 1..Len(chunks[i]) : chunks[i][k] <= Edge
    /\ refused \subseteq 1..Edge
    /\ ~writing => rest = <<>>
    /\ bufIsNull => buf = <<>> /\ ~writing
    /\ ends = 1 => bufIsNull /\ onEndIsNull
    /\ ChunksInOrder
=============================================================================
