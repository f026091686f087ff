-------------------------------- MODULE Wire --------------------------------
(***************************************************************************)
(* The control messages of both protocols and their codec (protocol.rs,    *)
(* protocol/v2.rs): what `encode' writes or refuses, what `decode' reads   *)
(* or refuses, and a Link between them whose peer may be another program.  *)
(*                                                                         *)
(* A wire is a sequence of fields, each a number: a byte, an integer, a    *)
(* hash, or a string, which stands for its length and its rank among the   *)
(* paths at once.  The empty wire is an encoding that was refused; what a  *)
(* decoder reads is a set of at most one message, empty when it refuses.   *)
(***************************************************************************)
EXTENDS Integers, FiniteSets, Sequences, SequencesExt

CONSTANTS
    MaxEntries, MaxFile, MaxPath,       \* limits of sync.rs and fs.rs
    MinChunk, MaxChunk, PageChunks,     \* limits of chunks.rs
    MaxControl,                         \* fields of a control message
    MaxText,                            \* bytes of an error text that is read
    ErrorChars, CharBytes,              \* an error text that is written
    Billion, MaxU32,
    Reserved,                           \* paths with a `.rrsync-' component
    Within,                             \* pairs of a path and its directory
    EmptyHash,                          \* the hash of no bytes
    Manifests, Fields                   \* manifests and field values tried

ASSUME WireNumbers ==
    {MaxEntries, MaxFile, MaxPath, MinChunk, MaxChunk, PageChunks, MaxControl, MaxText,
     ErrorChars, CharBytes, Billion, MaxU32, EmptyHash} \subseteq Nat

Kinds == <<"file", "directory", "protected">>
NoHash == -1
Options == [delete : BOOLEAN, checksum : BOOLEAN, dryRun : BOOLEAN]
\* A modification time is the number its eight bytes spell, sign included.
Entries == [path : Nat, kind : {"file", "directory", "protected"}, size : Nat, mtime : Nat,
            ns : Nat, hash : Nat \cup {NoHash}]

\* 240 characters of four bytes are less than 1024 bytes.
ASSUME WireInputs ==
    /\ Fields \subseteq Nat /\ \A m \in Manifests : m \in Seq(Entries)
    /\ ErrorChars * CharBytes <= MaxText

Ops == <<"start", "manifest", "begin", "commit", "get", "verified", "finish", "ok",
         "error", "describe", "description", "missing", "chunkBegin", "chunkCommit",
         "chunkGet", "chunkVerified", "fileCommit", "fileVerified", "hashesGet", "hashes">>
TagOf(op) == CHOOSE t \in 1 .. Len(Ops) : Ops[t] = op

CommonTagAny(t) == t \in 1 .. 9                 \* mutation
CommonTag(t) == t \in {1, 2, 7, 8, 9}
Speaks(v, t) == IF v = 1 THEN t \in 1 .. 9 ELSE CommonTag(t) \/ t \in 10 .. 20

-----------------------------------------------------------------------------
(* What either end requires of the fields.                                 *)

ValidEntry(e) ==
    /\ e.path \in 1 .. MaxPath /\ (e.path \in Reserved => e.kind = "protected")
    /\ e.kind # "file" => e.size = 0 /\ e.hash = NoHash
    /\ e.ns < Billion /\ e.size <= MaxFile
ValidManifest(m) ==
    /\ Len(m) <= MaxEntries
    /\ \A k \in 1 .. Len(m) : ValidEntry(m[k])
    /\ \A k \in 2 .. Len(m) : m[k - 1].path < m[k].path
    /\ \A k \in 1 .. Len(m), p \in 1 .. MaxPath :
          <<m[k].path, p>> \in Within =>
              \E j \in 1 .. k - 1 : m[j].path = p /\ m[j].kind = "directory"

FileIndex(i) == i < MaxEntries
ChunkSize(c) == c \in MinChunk .. MaxChunk
PageRange(a, n) ==
    /\ a % PageChunks = 0 /\ n # 0 /\ n <= PageChunks /\ a + n <= MaxU32
ValidMissing(m) ==
    /\ PageRange(m.start, m.count) /\ Len(m.chunks) <= m.count
    /\ \A k \in 1 .. Len(m.chunks) :
          m.start <= m.chunks[k] /\ m.chunks[k] - m.start < m.count
    /\ \A k \in 2 .. Len(m.chunks) : m.chunks[k - 1] < m.chunks[k]

-----------------------------------------------------------------------------
(* encode.                                                                 *)

Bit(b) == IF b THEN 1 ELSE 0
FlagsSwapped(o) == Bit(o.delete) + 4 * Bit(o.checksum) + 2 * Bit(o.dryRun)  \* mutation
Flags(o) == Bit(o.delete) + 2 * Bit(o.checksum) + 4 * Bit(o.dryRun)

KindCode(k) == (CHOOSE c \in 1 .. 3 : Kinds[c] = k) - 1
EntryFields(e) ==
    <<e.path, KindCode(e.kind), e.size, e.mtime, e.ns>>
        \o IF e.hash = NoHash THEN <<0>> ELSE <<1, e.hash>>
ManifestFields(m) ==
    <<Len(m)>> \o FoldLeft(LAMBDA w, e : w \o EntryFields(e), <<>>, m)

Encodable(m) ==
    CASE m.op = "start"       -> m.path <= MaxPath /\ ValidManifest(m.manifest)
      [] m.op = "manifest"    -> ValidManifest(m.manifest)
      [] m.op = "error"       -> m.text <= MaxPath
      [] m.op = "describe"    -> FileIndex(m.index) /\ ChunkSize(m.chunkSize)
      [] m.op = "description" -> FileIndex(m.index) /\ m.size <= MaxFile
      [] m.op = "hashesGet"   -> FileIndex(m.index) /\ PageRange(m.start, 1)
      [] m.op = "hashes"      -> FileIndex(m.index) /\ PageRange(m.start, Len(m.hashes))
      [] m.op = "missing"     -> FileIndex(m.index) /\ ValidMissing(m)
      [] m.op \in {"chunkBegin", "chunkCommit", "chunkGet", "chunkVerified",
                   "fileCommit", "fileVerified"} -> FileIndex(m.index)
      [] OTHER                -> TRUE

Body(m) ==
    CASE m.op = "start"       -> <<Bit(m.push), Flags(m.options), m.path>>
                                     \o ManifestFields(m.manifest)
      [] m.op = "manifest"    -> ManifestFields(m.manifest)
      [] m.op \in {"finish", "ok"} -> <<>>
      [] m.op = "error"       -> <<m.code, m.text>>
      [] m.op = "commit"      -> <<m.index, m.resource>>
      [] m.op = "describe"    -> <<m.index, m.chunkSize>>
      [] m.op = "description" -> <<m.index, m.size, m.chunkSize, m.hash>>
      [] m.op = "hashesGet"   -> <<m.index, m.start>>
      [] m.op = "hashes"      -> <<m.index, m.start, Len(m.hashes)>> \o m.hashes
      [] m.op = "missing"     -> <<m.index, m.start, m.count, Len(m.chunks)>> \o m.chunks
      [] m.op = "chunkCommit" -> <<m.index, m.chunk, m.resource>>
      [] m.op \in {"chunkBegin", "chunkGet", "chunkVerified"} -> <<m.index, m.chunk>>
      [] OTHER                -> <<m.index>>

EncodeUnbounded(v, m) ==                        \* mutation
    IF Speaks(v, TagOf(m.op)) /\ Encodable(m) THEN <<v, TagOf(m.op)>> \o Body(m) ELSE <<>>
Encode(v, m) ==
    LET w == <<v, TagOf(m.op)>> \o Body(m)
    IN  IF Speaks(v, TagOf(m.op)) /\ Encodable(m) /\ Len(w) <= MaxControl THEN w ELSE <<>>

-----------------------------------------------------------------------------
(* decode.  `r' is what follows the tag; Fits also refuses trailing bytes. *)

FitsWithin(r, n) == Len(r) >= n                 \* mutation
Fits(r, n) == Len(r) = n

Message(op, fields) == [x \in {"op"} \cup DOMAIN fields |->
                            IF x = "op" THEN op ELSE fields[x]]

BadManifest == [read |-> FALSE, entries |-> <<>>, rest |-> <<>>]
ReadEntry(a) ==
    LET r == a.rest IN
    IF ~a.read \/ Len(r) < 6 \/ r[2] > 2 \/ r[6] > 1 \/ Len(r) < 6 + r[6] THEN BadManifest
    ELSE [read |-> TRUE, rest |-> SubSeq(r, 7 + r[6], Len(r)),
          entries |-> Append(a.entries,
              [path |-> r[1], kind |-> Kinds[r[2] + 1], size |-> r[3], mtime |-> r[4],
               ns |-> r[5], hash |-> IF r[6] = 1 THEN r[7] ELSE NoHash])]
ReadManifest(r) ==
    IF r = <<>> \/ r[1] > MaxEntries THEN {}
    ELSE LET a == FoldLeft(LAMBDA b, k : ReadEntry(b),
                           [read |-> TRUE, entries |-> <<>>, rest |-> Tail(r)],
                           [k \in 1 .. r[1] |-> k])
         IN  IF a.read /\ Fits(a.rest, 0) /\ ValidManifest(a.entries)
             THEN {a.entries} ELSE {}

OptionsOf(f) ==
    [delete |-> f % 2 = 1, checksum |-> (f \div 2) % 2 = 1, dryRun |-> f \div 4 = 1]

When(cond, m) == IF cond THEN {m} ELSE {}

ReadCommon(op, r) ==
    CASE op = "start" ->
            IF Len(r) < 3 \/ r[1] > 1 \/ r[2] > 7 \/ r[3] > MaxPath THEN {}
            ELSE {Message(op, [push |-> r[1] = 1, options |-> OptionsOf(r[2]),
                               path |-> r[3], manifest |-> m]) :
                      m \in ReadManifest(SubSeq(r, 4, Len(r)))}
      [] op = "manifest" -> {Message(op, [manifest |-> m]) : m \in ReadManifest(r)}
      [] op \in {"finish", "ok"} -> When(Fits(r, 0), [op |-> op])
      [] op = "error" ->
            When(Fits(r, 2) /\ r[2] <= MaxPath /\ r[2] <= MaxText,
                 [op |-> op, code |-> r[1], text |-> r[2]])
      [] op = "commit" -> When(Fits(r, 2), [op |-> op, index |-> r[1], resource |-> r[2]])
      [] OTHER -> When(Fits(r, 1), [op |-> op, index |-> r[1]])

\* Two counted tables, then the fixed layouts.
ReadPages(op, r) ==
    CASE op = "missing" ->
            IF Len(r) < 4 \/ r[4] > r[3] \/ ~Fits(r, 4 + r[4]) THEN {}
            ELSE LET m == [op |-> op, index |-> r[1], start |-> r[2], count |-> r[3],
                           chunks |-> SubSeq(r, 5, 4 + r[4])]
                 IN  When(ValidMissing(m), m)
      [] op = "hashes" ->
            IF Len(r) < 3 \/ ~PageRange(r[2], r[3]) \/ ~Fits(r, 3 + r[3]) THEN {}
            ELSE {[op |-> op, index |-> r[1], start |-> r[2],
                   hashes |-> SubSeq(r, 4, 3 + r[3])]}

ReadChunks(op, r) ==
    CASE op \in {"missing", "hashes"} -> ReadPages(op, r)
      [] op = "describe" ->
            When(Fits(r, 2) /\ ChunkSize(r[2]), [op |-> op, index |-> r[1], chunkSize |-> r[2]])
      [] op = "description" ->
            When(/\ Fits(r, 4) /\ r[2] <= MaxFile /\ ChunkSize(r[3])
                 /\ r[2] = 0 => r[4] = EmptyHash,
                 [op |-> op, index |-> r[1], size |-> r[2], chunkSize |-> r[3], hash |-> r[4]])
      [] op = "hashesGet" ->
            When(Fits(r, 2) /\ PageRange(r[2], 1), [op |-> op, index |-> r[1], start |-> r[2]])
      [] op = "chunkCommit" ->
            When(Fits(r, 3), [op |-> op, index |-> r[1], chunk |-> r[2], resource |-> r[3]])
      [] op \in {"chunkBegin", "chunkGet", "chunkVerified"} ->
            When(Fits(r, 2), [op |-> op, index |-> r[1], chunk |-> r[2]])
      [] OTHER -> When(Fits(r, 1), [op |-> op, index |-> r[1]])

Decode(v, w) ==
    IF Len(w) > MaxControl \/ Len(w) < 2 THEN {}
    ELSE LET r == SubSeq(w, 3, Len(w)) IN
         IF w[1] # v \/ ~Speaks(v, w[2]) THEN {}
         ELSE IF w[2] <= 9 THEN ReadCommon(Ops[w[2]], r)
         ELSE IF r = <<>> \/ ~FileIndex(r[1]) THEN {}
         ELSE ReadChunks(Ops[w[2]], r)

-----------------------------------------------------------------------------
(* The messages the program builds; the index of a description is of a     *)
(* header that was checked, an error text is cut to a number of characters.*)

Sequences(n) == UNION {[1 .. k -> Fields] : k \in 0 .. n}
Messages ==
    [op : {"start"}, push : BOOLEAN, options : Options, path : Fields, manifest : Manifests]
    \cup [op : {"manifest"}, manifest : Manifests]
    \cup [op : {"begin", "get", "verified", "fileCommit", "fileVerified"}, index : Fields]
    \cup [op : {"finish", "ok"}]
    \cup [op : {"commit"}, index : Fields, resource : Fields]
    \cup [op : {"error"}, code : Fields, text : 0 .. ErrorChars * CharBytes]
    \cup [op : {"describe"}, index : Fields, chunkSize : Fields]
    \cup [op : {"description"}, index : Fields, size : 1 .. MaxFile + 1,
          chunkSize : MinChunk .. MaxChunk, hash : Fields]
    \cup [op : {"description"}, index : Fields, size : {0},
          chunkSize : MinChunk .. MaxChunk, hash : {EmptyHash}]
    \cup [op : {"hashesGet"}, index : Fields, start : Fields]
    \cup [op : {"hashes"}, index : {0}, start : Fields, hashes : Sequences(PageChunks + 1)]
    \cup [op : {"missing"}, index : {0}, start : Fields, count : Fields,
          chunks : Sequences(PageChunks)]
    \cup [op : {"chunkBegin", "chunkGet", "chunkVerified"}, index : Fields, chunk : Fields]
    \cup [op : {"chunkCommit"}, index : Fields, chunk : Fields, resource : Fields]

VARIABLES sent, version, wire, altered, reader, read

linkVars == <<sent, version, wire, altered, reader, read>>
Unread == {[op |-> "not read"]}

LinkInit ==
    /\ sent \in Messages /\ version \in {1, 2} /\ reader \in {1, 2}
    /\ wire = Encode(version, sent)
    /\ altered = FALSE /\ read = Unread

\* A peer of another make: a field has another value, is missing or is one
\* too many.
Alter ==
    /\ ~altered /\ read = Unread /\ wire # <<>>
    /\ \/ \E k \in 1 .. Len(wire) :
             \E x \in Fields \cup (IF k = 2 THEN 0 .. 21 ELSE {}) :
                wire' = [wire EXCEPT ![k] = x]
       \/ wire' = SubSeq(wire, 1, Len(wire) - 1)
       \/ \E x \in Fields : wire' = Append(wire, x)
    /\ altered' = TRUE
    /\ UNCHANGED <<sent, version, reader, read>>

Receive ==
    /\ read = Unread /\ wire # <<>>
    /\ read' = Decode(reader, wire)
    /\ UNCHANGED <<sent, version, wire, altered, reader>>

LinkNext == Alter \/ Receive

-----------------------------------------------------------------------------
(* Properties.                                                             *)

WireTypeOK ==
    /\ wire \in Seq(Nat) /\ Len(wire) <= MaxControl + 1
    /\ read = Unread \/ Cardinality(read) <= 1

\* A message this program sends is read as itself by this program: whatever
\* `encode' lets pass, `decode' does not refuse or change (an error text cut
\* by characters included, whose limit `decode' counts in bytes).
SentIsRead ==
    ~altered /\ reader = version /\ read # Unread => read = {sent}

\* A message has one wire: what any peer sends and `decode' accepts is what
\* `encode' would have written, field by field, so no two wires of one
\* message, and no message this program could not have sent, are accepted.
OneWirePerMessage ==
    read # Unread => \A m \in read : Encode(reader, m) = wire

\* protocol/v2.rs:2 "Version and request path are distinct from v1; legacy
\* file commands are rejected": no wire is accepted under both versions, and
\* a version-2 reader never accepts a command of the whole-file protocol.
VersionsApart ==
    read # Unread /\ read # {} =>
        /\ Decode(3 - reader, wire) = {}
        /\ reader = 2 => \A m \in read : m.op \notin {"begin", "commit", "get", "verified"}

\* Types, and no wire is read as a message this program would not send.
NothingElseIsRead == WireTypeOK /\ OneWirePerMessage /\ VersionsApart
=============================================================================
