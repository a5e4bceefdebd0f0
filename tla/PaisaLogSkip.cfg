SPECIFICATION Spec
CONSTANTS
    Parts = {"PaisaLogParser"}
    ChunkSize = 3
    MaxLen = 5
    MaxSent = 7
    MaxWant = 3
    MaxFed = 5
    SourceLengths <- MCSourceLengths
    Documents <- MCDocuments
    Asn1Documents <- MCAsn1Documents
    Given <- MCGiven
    InnBufCap = 8
    MaxLines = 4
INVARIANTS
    OnlyBrokenSkipped
