------------------------------- MODULE Streams -------------------------------
(***************************************************************************)
(* The streams and the incremental parsers: part is the one under          *)
(* consideration; the variables of the others are Off.                     *)
(***************************************************************************)
EXTENDS Integers, Sequences

VARIABLES part,
    buf, bufIsNull, onEndIsNull, rest, writing, sent, refused, chunks, ends,
    lengths, sourcesIsNull, iSrc, pos, reading, want, got, returned, lost, eof, closes,
    previous, dst, fed,
    phase, document, stdin, numDashesInSequence, sextets, stdout, numGroups, err,
    parsing, lines, hasLog, log, thisEntryIsBroken, numBrokenLogLines, entries,
    funcToCall, hexCols, adStdin, numRead, type, len, remainValueBytes, hexDumpOffs, innBuf,
    adStdout, adErr

CONSTANTS Parts, ChunkSize, MaxLen, MaxSent, SourceLengths, MaxWant, Given, MaxFed,
          Documents, MaxLines, Asn1Documents, InnBufCap

\* A chunk has room for a byte, as the constructor asserts.
ASSUME ByteChunkAssumption == ChunkSize \in Nat \ {0} /\ MaxLen \in Nat /\ MaxSent \in Nat

\* Sources are finite; one read() asks for a number of bytes.
ASSUME ConcatAssumption == SourceLengths \subseteq Seq(Nat) /\ MaxWant \in Nat

\* Any int may be passed for a byte.
ASSUME CRLFAssumption == Given \subseteq Int /\ MaxFed \in Nat

\* Octets, and the two marks of the model.
ASSUME PemAssumption == Documents \subseteq Seq(Nat)

ASSUME PaisaLogAssumption == MaxLines \in Nat

ASSUME Asn1Assumption == Asn1Documents \subseteq Seq(0..255) /\ InnBufCap \in Nat \ {0}

BC == INSTANCE ByteChunkOStream
CI == INSTANCE ConcatInputStream
CL == INSTANCE CRLFtoLFOutputStream
PC == INSTANCE PemCodec
PL == INSTANCE PaisaLogParser
AD == INSTANCE Asn1Digger
          WITH stdin <- adStdin, stdout <- adStdout, err <- adErr

bcVars == <<buf, bufIsNull, onEndIsNull, rest, writing, sent, refused, chunks, ends>>
ciVars == <<lengths, sourcesIsNull, iSrc, pos, reading, want, got, returned, lost, eof, closes>>
clVars == <<previous, dst, fed>>
pcVars == <<phase, document, stdin, numDashesInSequence, sextets, stdout, numGroups, err>>
plVars == <<parsing, lines, hasLog, log, thisEntryIsBroken, numBrokenLogLines, entries>>
adVars == <<funcToCall, hexCols, adStdin, numRead, type, len, remainValueBytes, hexDumpOffs,
            innBuf, adStdout, adErr>>

BCOff ==
    /\ buf = "off" /\ bufIsNull = "off" /\ onEndIsNull = "off" /\ rest = "off" /\ writing = "off"
    /\ sent = "off" /\ refused = "off" /\ chunks = "off" /\ ends = "off"

CIOff ==
    /\ lengths = "off" /\ sourcesIsNull = "off" /\ iSrc = "off" /\ pos = "off" /\ reading = "off"
    /\ want = "off" /\ got = "off" /\ returned = "off" /\ lost = "off" /\ eof = "off"
    /\ closes = "off"

CLOff == previous = "off" /\ dst = "off" /\ fed = "off"

PCOff ==
    /\ phase = "off" /\ document = "off" /\ stdin = "off" /\ numDashesInSequence = "off"
    /\ sextets = "off" /\ stdout = "off" /\ numGroups = "off" /\ err = "off"

PLOff ==
    /\ parsing = "off" /\ lines = "off" /\ hasLog = "off" /\ log = "off"
    /\ thisEntryIsBroken = "off" /\ numBrokenLogLines = "off" /\ entries = "off"

ADOff ==
    /\ funcToCall = "off" /\ hexCols = "off" /\ adStdin = "off" /\ numRead = "off"
    /\ type = "off" /\ len = "off" /\ remainValueBytes = "off" /\ hexDumpOffs = "off"
    /\ innBuf = "off" /\ adStdout = "off" /\ adErr = "off"

Init ==
    /\ part \in Parts
    /\ \/ part = "ByteChunkOStream" /\ BC!Init /\ CIOff /\ CLOff /\ PCOff /\ PLOff /\ ADOff
       \/ part = "ConcatInputStream" /\ CI!Init /\ BCOff /\ CLOff /\ PCOff /\ PLOff /\ ADOff
       \/ part = "CRLFtoLFOutputStream" /\ CL!Init /\ BCOff /\ CIOff /\ PCOff /\ PLOff /\ ADOff
       \/ part = "PemCodec" /\ PC!Init /\ BCOff /\ CIOff /\ CLOff /\ PLOff /\ ADOff
       \/ part = "PaisaLogParser" /\ PL!Init /\ BCOff /\ CIOff /\ CLOff /\ PCOff /\ ADOff
       \/ part = "Asn1Digger" /\ AD!Init /\ BCOff /\ CIOff /\ CLOff /\ PCOff /\ PLOff

Next ==
    /\ UNCHANGED part
    /\ \/ part = "ByteChunkOStream" /\ BC!Next /\ UNCHANGED <<ciVars, clVars, pcVars, plVars, adVars>>
       \/ part = "ConcatInputStream" /\ CI!Next /\ UNCHANGED <<bcVars, clVars, pcVars, plVars, adVars>>
       \/ part = "CRLFtoLFOutputStream" /\ CL!Next /\ UNCHANGED <<bcVars, ciVars, pcVars, plVars, adVars>>
       \/ part = "PemCodec" /\ PC!Next /\ UNCHANGED <<bcVars, ciVars, clVars, plVars, adVars>>
       \/ part = "PaisaLogParser" /\ PL!Next /\ UNCHANGED <<bcVars, ciVars, clVars, pcVars, adVars>>
       \/ part = "Asn1Digger" /\ AD!Next /\ UNCHANGED <<bcVars, ciVars, clVars, pcVars, plVars>>

Spec == Init /\ [][Next]_<<part, bcVars, ciVars, clVars, pcVars, plVars, adVars>>

\* ByteChunkOStream passes on every byte once, and the end after the last.
ChunksInOrder == part = "ByteChunkOStream" => BC!ChunksInOrder

\* ConcatInputStream returns the bytes of its sources in order.
BytesInOrder == part = "ConcatInputStream" => CI!BytesInOrder

\* ConcatInputStream closes every source once.
EverySourceClosedOnce == part = "ConcatInputStream" => CI!EverySourceClosedOnce

\* CRLFtoLFOutputStream changes CR LF to LF and nothing else.
OnlyCRLFReplaced == part = "CRLFtoLFOutputStream" => CL!OnlyCRLFReplaced

\* PemCodec.c decodes every complete group.
GroupsDecoded == part = "PemCodec" => PC!GroupsDecoded

\* PaisaLogParser.lua neither loses nor repeats a line.
LinesKept == part = "PaisaLogParser" => PL!LinesKept

\* PaisaLogParser.lua skips only what has a broken date.
OnlyBrokenSkipped == part = "PaisaLogParser" => PL!OnlyBrokenSkipped

\* Asn1Digger.c prints every octet of a value once, at its place.
DumpFollowsInput == part = "Asn1Digger" => AD!DumpFollowsInput
=============================================================================
