SPECIFICATION Spec
CONSTANTS
    Parts = {"ByteChunkOStream", "ConcatInputStream", "CRLFtoLFOutputStream", "PemCodec", "PaisaLogParser", "Asn1Digger"}
    ChunkSize = 3
    MaxLen = 5
    MaxSent = 7
    MaxWant = 3
    MaxFed = 5
    SourceLengths <- MCSourceLengths
    Documents <- MCDocuments
    Asn1Documents <- MCAsn1Documents
    Given <- MCGiven
    InnBufCap = 8
    MaxLines = 5
INVARIANTS
    ChunksInOrder
    BytesInOrder
    EverySourceClosedOnce
    OnlyCRLFReplaced
    GroupsDecoded
    LinesKept
    DumpFollowsInput
