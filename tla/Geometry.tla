------------------------------ MODULE Geometry ------------------------------
(***************************************************************************)
(* Where the chunks of a file begin and end (chunks.rs, `Description'; the *)
(* page loop of engine/v2.rs).  The sender cuts its snapshot in chunks,    *)
(* hashes them and announces the table page by page; the receiver counts   *)
(* pages of its own, names a file for every chunk it stores and puts them  *)
(* together.  The two sides, the table, the codec and the cache compute    *)
(* the same boundaries in different ways: by a loop over what remains, by  *)
(* a ceiling, by a minimum, by adding up pages, by a quotient in a name.   *)
(* What they tell each other goes through the codec of module Wire.        *)
(*                                                                         *)
(* A hash is the span of bytes it was computed over, as <<from, length>>.  *)
(* A behaviour moves one file, or has one message on the Link of Wire.     *)
(***************************************************************************)
EXTENDS Wire

CONSTANT ShardChunks        \* SHARD_CHUNKS

\* The constants of the program satisfy these with a wide margin.
ASSUME GeometryNumbers ==
    /\ MinChunk # 0 /\ MinChunk <= MaxChunk /\ PageChunks # 0 /\ MaxEntries # 0
    /\ ShardChunks \in Nat \ {0}
    /\ MaxFile + PageChunks <= MinChunk * MaxU32 /\ PageChunks + 6 <= MaxControl

VARIABLES
    size, chunkSize,    \* of the description
    pc,                 \* "scan", "page", "chunk", "done", "refused"; "none" without a file
    remaining,          \* bytes of the snapshot not yet scanned
    hashes,             \* the sender's table, filled by the scan
    start,              \* the sender's page loop
    table,              \* the receiver's table: index -> hash
    nextPage,           \* the receiver's count of announced hashes
    missing,            \* chunks of the page still to be sent, ascending
    files               \* chunk files of the receiver: <<shard, index, length>>

fileVars == <<size, chunkSize, pc, remaining, hashes, start, table, nextPage, missing, files>>
geometryVars == <<fileVars, linkVars>>

-----------------------------------------------------------------------------
(* The functions of Description and of the codec.                          *)

Least(a, b) == IF a < b THEN a ELSE b

ValidCount(s, c) == ChunkSize(c) /\ s <= MaxFile
CountRoundedDown(s, c) == s \div c              \* mutation
Count(s, c) == (s + c - 1) \div c

Length(i) == Least(size - i * chunkSize, chunkSize)
IndexInRange(i) == i < Count(size, chunkSize)

PageLenAllowed(a) == a < Count(size, chunkSize) /\ a % PageChunks = 0
PageLenFull(a) == PageChunks                    \* mutation
PageLen(a) == Least(Count(size, chunkSize) - a, PageChunks)

\* The directory and name of a chunk file, and what payload_bytes accepts.
ShardByPage(i) == i \div PageChunks             \* mutation
Shard(i) == i \div ShardChunks
ValidName(f) == f[2] \div ShardChunks = f[1]

-----------------------------------------------------------------------------
FileInit ==
    /\ size \in 0 .. MaxFile /\ chunkSize \in MinChunk .. MaxChunk
    /\ ValidCount(size, chunkSize)
    /\ pc = "scan" /\ remaining = size
NoFile == size = 0 /\ chunkSize = MinChunk /\ pc = "none" /\ remaining = 0

NoMessage ==
    /\ sent = [op |-> "none"] /\ version = 2 /\ reader = 2
    /\ wire = <<>> /\ altered = FALSE /\ read = Unread

GeometryInit ==
    /\ \/ FileInit /\ NoMessage
       \/ NoFile /\ LinkInit
    /\ hashes = <<>> /\ table = <<>> /\ missing = <<>>
    /\ start = 0 /\ nextPage = 0 /\ files = {}

\* Description::scan.
ScanWholeChunk ==                               \* mutation: the last chunk is full
    /\ pc = "scan" /\ remaining > 0
    /\ hashes' = Append(hashes, <<size - remaining, chunkSize>>)
    /\ remaining' = remaining - chunkSize
    /\ UNCHANGED <<size, chunkSize, pc, start, table, nextPage, missing, files>>
ScanChunk ==
    /\ pc = "scan" /\ remaining > 0
    /\ LET length == Least(remaining, chunkSize) IN
         /\ hashes' = Append(hashes, <<size - remaining, length>>)
         /\ remaining' = remaining - length
    /\ UNCHANGED <<size, chunkSize, pc, start, table, nextPage, missing, files>>

\* The description, as DESCRIPTION announces it to the other side.
Carried(m) == Decode(2, Encode(2, m)) = {m}
Described ==
    [op |-> "description", index |-> 0, size |-> size, chunkSize |-> chunkSize,
     hash |-> IF size = 0 THEN EmptyHash ELSE EmptyHash + 1]

ScanEnds ==
    /\ pc = "scan" /\ remaining = 0
    /\ pc' = IF Carried(Described) THEN "page" ELSE "refused"
    /\ UNCHANGED <<size, chunkSize, remaining, hashes, start, table, nextPage, missing, files>>

\* One page: read from the sender's table, sent as HASHES (a pull asks for
\* it with HASHES_GET), checked against the receiver's count, written to its
\* table; some of its chunks are missing, as MISSING reports.
PageOf(a) == SubSeq(hashes, a + 1, a + PageLen(a))
Ascending(S) == CHOOSE s \in [1 .. Cardinality(S) -> S] :
                    \A k \in 2 .. Cardinality(S) : s[k - 1] < s[k]

HashesOf(a, n) ==
    [op |-> "hashes", index |-> 0, start |-> a,
     hashes |-> [k \in 1 .. n |-> hashes[a + k][1] * (MaxChunk + 1) + hashes[a + k][2]]]
MissingOf(a, n, S) ==
    [op |-> "missing", index |-> 0, start |-> a, count |-> n, chunks |-> Ascending(S)]

PageAccepted(a, n) ==
    /\ PageLenAllowed(a) /\ a + n <= Len(hashes)    \* Description::page
    /\ Carried([op |-> "hashesGet", index |-> 0, start |-> a])
    /\ Carried(HashesOf(a, n))
    /\ a = nextPage /\ n = PageLen(a)               \* engine, set_page

SendPage ==
    /\ pc = "page" /\ start < Count(size, chunkSize)
    /\ LET n == PageLen(start)
           page == PageOf(start)
       IN  IF PageAccepted(start, n)
             THEN \E S \in SUBSET (start .. start + n - 1) :
                    /\ table' = table \o page
                    /\ nextPage' = nextPage + n
                    /\ missing' = Ascending(S)
                    /\ pc' = IF Carried(MissingOf(start, n, S)) THEN "chunk" ELSE "refused"
             ELSE pc' = "refused" /\ UNCHANGED <<table, nextPage, missing>>
    /\ UNCHANGED <<size, chunkSize, remaining, hashes, start, files>>

\* chunk_file seeks and copies; receive checks index, length and hash.
Cut(i) == <<i * chunkSize, Least(size - i * chunkSize, Length(i))>>

SendChunk ==
    /\ pc = "chunk" /\ missing # <<>>
    /\ LET i == Head(missing) IN
         IF /\ IndexInRange(i) /\ Carried([op |-> "chunkBegin", index |-> 0, chunk |-> i])
            /\ Cut(i)[2] = Length(i) /\ Cut(i) = table[i + 1]
           THEN files' = files \cup {<<Shard(i), i, Length(i)>>} /\ pc' = pc
           ELSE files' = files /\ pc' = "refused"
    /\ missing' = Tail(missing)
    /\ UNCHANGED <<size, chunkSize, remaining, hashes, start, table, nextPage>>

PageEndsByOne ==                                \* mutation: no step_by
    /\ pc = "chunk" /\ missing = <<>>
    /\ pc' = "page" /\ start' = start + 1
    /\ UNCHANGED <<size, chunkSize, remaining, hashes, table, nextPage, missing, files>>
PageEnds ==
    /\ pc = "chunk" /\ missing = <<>>
    /\ pc' = "page" /\ start' = start + PageChunks
    /\ UNCHANGED <<size, chunkSize, remaining, hashes, table, nextPage, missing, files>>

\* FILE_COMMIT: every page was announced; assembling verifies every chunk.
\* Chunks that were not missing are in the cache already.
Commit ==
    /\ pc = "page" /\ start >= Count(size, chunkSize)
    /\ pc' = IF nextPage = Count(size, chunkSize) THEN "done" ELSE "refused"
    /\ UNCHANGED <<size, chunkSize, remaining, hashes, start, table, nextPage, missing, files>>

MoveFile == ScanChunk \/ ScanEnds \/ SendPage \/ SendChunk \/ PageEnds \/ Commit

GeometryNext ==
    \/ MoveFile /\ UNCHANGED linkVars
    \/ LinkNext /\ UNCHANGED fileVars

GeometrySpec == GeometryInit /\ [][GeometryNext]_geometryVars

-----------------------------------------------------------------------------
(* Properties.                                                             *)

Span == (0 .. MaxFile) \X (1 .. MaxChunk)
GeometryTypeOK ==
    /\ size \in 0 .. MaxFile /\ chunkSize \in MinChunk .. MaxChunk
    /\ pc \in {"none", "scan", "page", "chunk", "done", "refused"}
    /\ remaining \in 0 .. size
    /\ hashes \in Seq(Span) /\ table \in Seq(Span)
    /\ start \in Nat /\ nextPage \in Nat
    /\ missing \in Seq(Nat)
    /\ files \subseteq (Nat \X Nat \X Nat)

\* README.md "Individual files are limited": within the limits no size is
\* refused by the receiver, the codec or the table, an empty file, an exact
\* multiple of the chunk, the page or the shard included.
NeverRefused == pc # "refused"

\* Whatever a side has of the table, entry i is the hash of the bytes that
\* `length' and the offset of chunk i delimit (chunks.rs:85 against :127),
\* and the whole table covers the file once.
TableIsExact ==
    /\ \A i \in 1 .. Len(hashes) :
          hashes[i] = <<(i - 1) * chunkSize, Length(i - 1)>> /\ hashes[i][2] > 0
    /\ \A i \in 1 .. Len(table) : table[i] = hashes[i]
    /\ pc # "scan" =>
          /\ Len(hashes) = Count(size, chunkSize)
          /\ size = IF hashes = <<>> THEN 0
                    ELSE hashes[Len(hashes)][1] + hashes[Len(hashes)][2]

\* The sender's page loop and the receiver's count name the same page, and
\* a page is announced only when the one before is complete (v2.rs:283).
CountersAgree ==
    /\ nextPage = Len(table)
    /\ pc = "page" => nextPage = Least(start, Count(size, chunkSize))
    /\ pc = "chunk" => nextPage = start + PageLen(start)
    /\ pc = "done" => nextPage = Len(hashes)

\* Every chunk file has a name the next open of the cache accepts, and no
\* shard directory holds more files than a listing may return.
FilesAreListed ==
    \A f \in files :
        /\ ValidName(f)
        /\ Cardinality({g \in files : g[1] = f[1]}) <= ShardChunks

\* All parties cut a file alike, up to its last byte.
SidesCutAlike ==
    GeometryTypeOK /\ NeverRefused /\ TableIsExact /\ CountersAgree /\ FilesAreListed
=============================================================================
