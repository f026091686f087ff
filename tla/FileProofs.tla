----------------------------- MODULE FileProofs -----------------------------
(***************************************************************************)
(* Proofs about a file on its way: the fields of a message and what is     *)
(* read from them (module Wire), the cut into chunks, pages and shards     *)
(* (module Geometry), and the entry on the disk (module Durable).          *)
(***************************************************************************)
EXTENDS Durable, Geometry, SequenceTheorems, FiniteSetTheorems, WellFoundedInduction, TLAPS

\* What stands behind a prefix of known length.
LEMMA Behind ==
    ASSUME NEW S, NEW p \in Seq(S), NEW s \in Seq(S)
    PROVE  /\ p \o s \in Seq(S) /\ Len(p \o s) = Len(p) + Len(s)
           /\ SubSeq(p \o s, Len(p) + 1, Len(p) + Len(s)) = s
           /\ \A i \in 1 .. Len(p) : (p \o s)[i] = p[i]
<1>1. /\ p \o s \in Seq(S) /\ Len(p \o s) = Len(p) + Len(s)
      /\ \A i \in 1 .. Len(p) + Len(s) :
            (p \o s)[i] = IF i <= Len(p) THEN p[i] ELSE s[i - Len(p)]
  BY ConcatProperties
<1>2. Len(p) \in Nat /\ Len(s) \in Nat
  BY LenProperties
<1> DEFINE w == p \o s
           t == SubSeq(w, Len(p) + 1, Len(p) + Len(s))
<1>3. \A i \in Len(p) + 1 .. Len(p) + Len(s) : w[i] \in S
  BY <1>1, <1>2, ElementOfSeq
<1>4. /\ t \in Seq(S) /\ Len(t) = Len(s)
      /\ \A i \in 1 .. Len(s) : t[i] = w[Len(p) + i]
  <2> HIDE DEF w
  <2>1. /\ t \in Seq(S)
        /\ Len(t) = IF Len(p) + 1 <= Len(p) + Len(s) THEN (Len(p) + Len(s)) - (Len(p) + 1) + 1 ELSE 0
        /\ \A i \in 1 .. (Len(p) + Len(s)) - (Len(p) + 1) + 1 : t[i] = w[Len(p) + 1 + i - 1]
    BY <1>2, <1>3, SubSeqProperties
  <2> QED
    BY <1>2, <2>1
<1>5. \A i \in 1 .. Len(t) : t[i] = s[i]
  BY <1>1, <1>2, <1>4
<1>6. t = s
  BY <1>4, <1>5, SeqEqual
<1> QED
  BY <1>1, <1>2, <1>6

\* A sequence is its beginning and what stands behind it.
LEMMA Parted ==
    ASSUME NEW S, NEW s \in Seq(S), NEW n \in 0 .. Len(s)
    PROVE  /\ SubSeq(s, 1, n) \in Seq(S) /\ SubSeq(s, n + 1, Len(s)) \in Seq(S)
           /\ Len(SubSeq(s, 1, n)) = n /\ Len(SubSeq(s, n + 1, Len(s))) = Len(s) - n
           /\ \A i \in 1 .. n : SubSeq(s, 1, n)[i] = s[i]
           /\ \A i \in 1 .. Len(s) - n : SubSeq(s, n + 1, Len(s))[i] = s[n + i]
           /\ SubSeq(s, 1, n) \o SubSeq(s, n + 1, Len(s)) = s
<1>1. Len(s) \in Nat /\ \A i \in 1 .. Len(s) : s[i] \in S
  BY LenProperties, ElementOfSeq
<1> DEFINE a == SubSeq(s, 1, n)
           b == SubSeq(s, n + 1, Len(s))
<1>2. /\ a \in Seq(S) /\ Len(a) = IF 1 <= n THEN n - 1 + 1 ELSE 0
      /\ \A i \in 1 .. n - 1 + 1 : a[i] = s[1 + i - 1]
  BY <1>1, SubSeqProperties
<1>3. /\ b \in Seq(S) /\ Len(b) = IF n + 1 <= Len(s) THEN Len(s) - (n + 1) + 1 ELSE 0
      /\ \A i \in 1 .. Len(s) - (n + 1) + 1 : b[i] = s[(n + 1) + i - 1]
  BY <1>1, SubSeqProperties
<1>4. a \o b = SubSeq(s, 1, Len(s))
  <2>1. 1 \in 1 .. Len(s) + 1 /\ n \in (1 - 1) .. Len(s) /\ Len(s) \in n .. Len(s)
    BY <1>1
  <2> QED
    BY <2>1, ConcatAdjacentSubSeq
<1>5. a \o b = s
  BY <1>4, SubSeqFull
<1> HIDE DEF a, b
<1>6. Len(a) = n /\ Len(b) = Len(s) - n
  BY <1>1, <1>2, <1>3
<1>7. \A i \in 1 .. n : a[i] = s[i]
  BY <1>2
<1>8. \A i \in 1 .. Len(s) - n : b[i] = s[n + i]
  BY <1>1, <1>3
<1> QED
  BY <1>2, <1>3, <1>5, <1>6, <1>7, <1>8 DEF a, b

\* Short sequences are the tuples of their elements.
LEMMA Tuples ==
    ASSUME NEW S, NEW s \in Seq(S)
    PROVE  /\ Len(s) = 0 => s = <<>>
           /\ Len(s) = 1 => s = <<s[1]>>
           /\ Len(s) = 2 => s = <<s[1], s[2]>>
           /\ Len(s) = 3 => s = <<s[1], s[2], s[3]>>
           /\ Len(s) = 4 => s = <<s[1], s[2], s[3], s[4]>>
OBVIOUS

\* The limits, one by one.
LEMMA Numbers ==
    /\ MaxEntries \in Nat /\ MaxFile \in Nat /\ MaxPath \in Nat /\ MinChunk \in Nat
    /\ MaxChunk \in Nat /\ PageChunks \in Nat /\ MaxControl \in Nat /\ MaxText \in Nat
    /\ ErrorChars \in Nat /\ CharBytes \in Nat /\ Billion \in Nat /\ MaxU32 \in Nat
    /\ EmptyHash \in Nat
BY WireNumbers, Zenon

\* No two operations have one tag.
LEMMA TagsAreUnique ==
    /\ Len(Ops) = 20 
    /\ \A t, u \in 1 .. 20 : Ops[t] = Ops[u] => t = u
BY DEF Ops

\* TagOf finds the place of an operation in the list.
LEMMA TagsOfOps ==
    \A t \in 1 .. 20 : TagOf(Ops[t]) = t
BY TagsAreUnique DEF TagOf

\* What decode makes of a message that encode let pass.
LEMMA Framed ==
    ASSUME NEW v, NEW m, m.op \in {Ops[t] : t \in 1 .. 20}, Body(m) \in Seq(Nat), v \in Nat,
           Encode(v, m) # <<>>
    PROVE  LET r == Body(m) IN
           /\ Encodable(m) /\ Encode(v, m) \in Seq(Nat) /\ Len(Encode(v, m)) = Len(r) + 2
           /\ Len(Encode(v, m)) <= MaxControl
           /\ Encode(v, m)[1] = v
           /\ Decode(v, Encode(v, m)) =
                IF TagOf(m.op) <= 9 THEN ReadCommon(m.op, r)
                ELSE IF r = <<>> \/ ~FileIndex(r[1]) THEN {} ELSE ReadChunks(m.op, r)
<1> DEFINE r == Body(m)
           t == TagOf(m.op)
           p == <<v, t>>
           w == p \o r
<1>1. Speaks(v, t) /\ Encodable(m) /\ Len(w) <= MaxControl /\ Encode(v, m) = w
  <2> HIDE DEF w
  <2>1. Encode(v, m) = IF Speaks(v, t) /\ Encodable(m) /\ Len(w) <= MaxControl THEN w ELSE <<>>
    BY DEF Encode, w
  <2> QED
    BY <2>1
<1>2. t \in 1 .. 20 /\ Ops[t] = m.op
  <2>1. PICK u \in 1 .. 20 : Ops[u] = m.op
    OBVIOUS
  <2> QED
    BY <2>1, TagsOfOps
<1>3. p \in Seq(Nat) /\ Len(p) = 2 /\ p[1] = v /\ p[2] = t
  BY <1>2
<1>4. r \in Seq(Nat) /\ Len(r) \in Nat
  OBVIOUS
<1> HIDE DEF r, p, t
<1>5. /\ w \in Seq(Nat) /\ Len(w) = 2 + Len(r) /\ SubSeq(w, 2 + 1, 2 + Len(r)) = r
      /\ w[1] = v /\ w[2] = t
  <2>1. /\ w \in Seq(Nat) /\ Len(w) = Len(p) + Len(r)
        /\ SubSeq(w, Len(p) + 1, Len(p) + Len(r)) = r
        /\ \A i \in 1 .. Len(p) : w[i] = p[i]
    BY <1>3, <1>4, Behind
  <2> HIDE DEF w
  <2> QED
    BY <1>3, <1>4, <2>1
<1> HIDE DEF w
<1>6. SubSeq(w, 3, Len(w)) = r
  BY <1>4, <1>5
<1>7. Decode(v, w) = IF t <= 9 THEN ReadCommon(Ops[t], r)
                     ELSE IF r = <<>> \/ ~FileIndex(r[1]) THEN {} ELSE ReadChunks(Ops[t], r)
  <2>1. ~(Len(w) > MaxControl \/ Len(w) < 2)
    BY <1>1, <1>4, <1>5, Numbers
  <2>2. ~(w[1] # v \/ ~Speaks(v, w[2])) /\ w[2] = t
    BY <1>1, <1>5
  <2> QED
    BY <1>6, <2>1, <2>2 DEF Decode
<1> QED
  BY <1>1, <1>2, <1>4, <1>5, <1>7 DEF r, t


(***************************************************************************)
(* Messages of a fixed layout.                                             *)
(***************************************************************************)
Bare == [op : {"finish", "ok"}]
Indexed == [op : {"begin", "get", "verified", "fileCommit", "fileVerified"}, index : Nat]
Commits == [op : {"commit"}, index : Nat, resource : Nat]
Errors == [op : {"error"}, code : Nat, text : 0 .. MaxText]
Describes == [op : {"describe"}, index : Nat, chunkSize : Nat]
Descriptions ==
    {m \in [op : {"description"}, index : Nat, size : Nat, chunkSize : MinChunk .. MaxChunk,
            hash : Nat] : m.size = 0 => m.hash = EmptyHash}
Gets == [op : {"hashesGet"}, index : Nat, start : Nat]
Chunks == [op : {"chunkBegin", "chunkGet", "chunkVerified"}, index : Nat, chunk : Nat]
ChunkCommits == [op : {"chunkCommit"}, index : Nat, chunk : Nat, resource : Nat]
Fixed == Bare \cup Indexed \cup Commits \cup Errors \cup Describes \cup Descriptions
         \cup Gets \cup Chunks \cup ChunkCommits

\* Their body, one operation at a time.
LEMMA FixedBodies ==
    ASSUME NEW m \in Fixed
    PROVE  m.op \in {Ops[t] : t \in 1 .. 20} /\ Body(m) \in Seq(Nat)
<1>1. CASE m \in Bare
  <2>1. Body(m) = <<>>
    BY <1>1 DEF Body, Bare
  <2> QED
    BY <1>1, <2>1 DEF Ops, Bare
<1>2. CASE m \in Indexed
  <2>1. Body(m) = <<m.index>>
    BY <1>2 DEF Body, Indexed
  <2> QED
    BY <1>2, <2>1 DEF Ops, Indexed
<1>3. CASE m \in Commits
  <2>1. Body(m) = <<m.index, m.resource>>
    BY <1>3 DEF Body, Commits
  <2> QED
    BY <1>3, <2>1 DEF Ops, Commits
<1>4. CASE m \in Errors
  <2>1. Body(m) = <<m.code, m.text>>
    BY <1>4 DEF Body, Errors
  <2> QED
    BY <1>4, <2>1 DEF Ops, Errors
<1>5. CASE m \in Describes
  <2>1. Body(m) = <<m.index, m.chunkSize>>
    BY <1>5 DEF Body, Describes
  <2> QED
    BY <1>5, <2>1 DEF Ops, Describes
<1>6. CASE m \in Descriptions
  <2>1. Body(m) = <<m.index, m.size, m.chunkSize, m.hash>>
    BY <1>6 DEF Body, Descriptions
  <2>2. m.chunkSize \in Nat
    BY <1>6, Numbers DEF Descriptions
  <2> QED
    BY <1>6, <2>1, <2>2 DEF Ops, Descriptions
<1>7. CASE m \in Gets
  <2>1. Body(m) = <<m.index, m.start>>
    BY <1>7 DEF Body, Gets
  <2> QED
    BY <1>7, <2>1 DEF Ops, Gets
<1>8. CASE m \in Chunks
  <2>1. Body(m) = <<m.index, m.chunk>>
    BY <1>8 DEF Body, Chunks
  <2> QED
    BY <1>8, <2>1 DEF Ops, Chunks
<1>9. CASE m \in ChunkCommits
  <2>1. Body(m) = <<m.index, m.chunk, m.resource>>
    BY <1>9 DEF Body, ChunkCommits
  <2> QED
    BY <1>9, <2>1 DEF Ops, ChunkCommits
<1> QED
  BY <1>1, <1>2, <1>3, <1>4, <1>5, <1>6, <1>7, <1>8, <1>9 DEF Fixed

\* What encode writes of them, decode reads.
LEMMA FixedCarried ==
    ASSUME NEW m \in Fixed, NEW v \in Nat, Encode(v, m) # <<>>
    PROVE  Decode(v, Encode(v, m)) = {m}
<1> DEFINE r == Body(m)
           d == Decode(v, Encode(v, m))
<1>1. /\ Encodable(m) /\ r \in Seq(Nat)
      /\ d = IF TagOf(m.op) <= 9 THEN ReadCommon(m.op, r)
             ELSE IF r = <<>> \/ ~FileIndex(r[1]) THEN {} ELSE ReadChunks(m.op, r)
  BY Framed, FixedBodies
<1>0. \A t \in 1 .. 20 : TagOf(Ops[t]) = t
  BY TagsOfOps
<1> HIDE DEF d
<1>2. CASE m \in Bare
  <2>1. r = <<>>
    BY <1>2 DEF Body, Bare
  <2>2. TagOf(m.op) <= 9
    BY <1>0, <1>2 DEF Bare, Ops
  <2>3. ReadCommon(m.op, <<>>) = {[op |-> m.op]}
    BY <1>2 DEF ReadCommon, When, Fits, Bare
  <2>4. m = [op |-> m.op]
    BY <1>2 DEF Bare
  <2> QED
    BY <1>1, <2>1, <2>2, <2>3, <2>4 DEF d
<1>3. CASE m \in Indexed
  <2>1. r = <<m.index>> /\ m = [op |-> m.op, index |-> m.index]
    BY <1>3 DEF Body, Indexed
  <2>2. CASE m.op \in {"begin", "get", "verified"}
    <3>1. TagOf(m.op) <= 9
      BY <1>0, <2>2 DEF Ops
    <3>2. ReadCommon(m.op, <<m.index>>) = {[op |-> m.op, index |-> m.index]}
      BY <2>2 DEF ReadCommon, When, Fits
    <3> QED
      BY <1>1, <2>1, <3>1, <3>2 DEF d
  <2>3. CASE m.op \in {"fileCommit", "fileVerified"}
    <3>1. ~(TagOf(m.op) <= 9)
      BY <1>0, <2>3 DEF Ops
    <3>2. ReadChunks(m.op, <<m.index>>) = {[op |-> m.op, index |-> m.index]}
      BY <2>3 DEF ReadChunks, When, Fits
    <3>3. FileIndex(m.index)
      BY <1>1, <2>3 DEF Encodable
    <3> QED
      BY <1>1, <2>1, <3>1, <3>2, <3>3 DEF d
  <2> QED
    BY <1>3, <2>2, <2>3 DEF Indexed
<1>4. CASE m \in Commits
  <2>1. r = <<m.index, m.resource>>
    BY <1>4 DEF Body, Commits
  <2>2. TagOf(m.op) <= 9
    BY <1>0, <1>4 DEF Commits, Ops
  <2>3. ReadCommon(m.op, <<m.index, m.resource>>)
            = {[op |-> m.op, index |-> m.index, resource |-> m.resource]}
    BY <1>4 DEF ReadCommon, When, Fits, Commits
  <2>4. m = [op |-> m.op, index |-> m.index, resource |-> m.resource]
    BY <1>4 DEF Commits
  <2> QED
    BY <1>1, <2>1, <2>2, <2>3, <2>4 DEF d
<1>5. CASE m \in Errors
  <2>1. r = <<m.code, m.text>>
    BY <1>5 DEF Body, Errors
  <2>2. TagOf(m.op) <= 9
    BY <1>0, <1>5 DEF Errors, Ops
  <2>3. m.text <= MaxPath /\ m.text <= MaxText
    BY <1>1, <1>5 DEF Encodable, Errors
  <2>4. ReadCommon(m.op, <<m.code, m.text>>)
            = {[op |-> m.op, code |-> m.code, text |-> m.text]}
    BY <1>5, <2>3 DEF ReadCommon, When, Fits, Errors
  <2>5. m = [op |-> m.op, code |-> m.code, text |-> m.text]
    BY <1>5 DEF Errors
  <2> QED
    BY <1>1, <2>1, <2>2, <2>4, <2>5 DEF d
<1>6. CASE m \in Describes
  <2>1. r = <<m.index, m.chunkSize>>
    BY <1>6 DEF Body, Describes
  <2>2. ~(TagOf(m.op) <= 9)
    BY <1>0, <1>6 DEF Describes, Ops
  <2>3. FileIndex(m.index) /\ ChunkSize(m.chunkSize)
    BY <1>1, <1>6 DEF Encodable, Describes
  <2>4. ReadChunks(m.op, <<m.index, m.chunkSize>>)
            = {[op |-> m.op, index |-> m.index, chunkSize |-> m.chunkSize]}
    BY <1>6, <2>3 DEF ReadChunks, When, Fits, Describes
  <2>5. m = [op |-> m.op, index |-> m.index, chunkSize |-> m.chunkSize]
    BY <1>6 DEF Describes
  <2> QED
    BY <1>1, <2>1, <2>2, <2>3, <2>4, <2>5 DEF d
<1>7. CASE m \in Descriptions
  <2>1. r = <<m.index, m.size, m.chunkSize, m.hash>>
    BY <1>7 DEF Body, Descriptions
  <2>2. ~(TagOf(m.op) <= 9)
    BY <1>0, <1>7 DEF Descriptions, Ops
  <2>3. FileIndex(m.index) /\ m.size <= MaxFile
    BY <1>1, <1>7 DEF Encodable, Descriptions
  <2>4. ChunkSize(m.chunkSize) /\ (m.size = 0 => m.hash = EmptyHash)
    BY <1>7 DEF ChunkSize, Descriptions
  <2>5. ReadChunks(m.op, <<m.index, m.size, m.chunkSize, m.hash>>)
            = {[op |-> m.op, index |-> m.index, size |-> m.size,
                chunkSize |-> m.chunkSize, hash |-> m.hash]}
    BY <1>7, <2>3, <2>4 DEF ReadChunks, When, Fits, Descriptions
  <2>6. m = [op |-> m.op, index |-> m.index, size |-> m.size,
             chunkSize |-> m.chunkSize, hash |-> m.hash]
    BY <1>7 DEF Descriptions
  <2> QED
    BY <1>1, <2>1, <2>2, <2>3, <2>5, <2>6 DEF d
<1>8. CASE m \in Gets
  <2>1. r = <<m.index, m.start>>
    BY <1>8 DEF Body, Gets
  <2>2. ~(TagOf(m.op) <= 9)
    BY <1>0, <1>8 DEF Gets, Ops
  <2>3. FileIndex(m.index) /\ PageRange(m.start, 1)
    BY <1>1, <1>8 DEF Encodable, Gets
  <2>4. ReadChunks(m.op, <<m.index, m.start>>)
            = {[op |-> m.op, index |-> m.index, start |-> m.start]}
    BY <1>8, <2>3 DEF ReadChunks, When, Fits, Gets
  <2>5. m = [op |-> m.op, index |-> m.index, start |-> m.start]
    BY <1>8 DEF Gets
  <2> QED
    BY <1>1, <2>1, <2>2, <2>3, <2>4, <2>5 DEF d
<1>9. CASE m \in Chunks
  <2>1. r = <<m.index, m.chunk>>
    BY <1>9 DEF Body, Chunks
  <2>2. ~(TagOf(m.op) <= 9)
    BY <1>0, <1>9 DEF Chunks, Ops
  <2>3. FileIndex(m.index)
    BY <1>1, <1>9 DEF Encodable, Chunks
  <2>4. ReadChunks(m.op, <<m.index, m.chunk>>)
            = {[op |-> m.op, index |-> m.index, chunk |-> m.chunk]}
    BY <1>9, <2>3 DEF ReadChunks, When, Fits, Chunks
  <2>5. m = [op |-> m.op, index |-> m.index, chunk |-> m.chunk]
    BY <1>9 DEF Chunks
  <2> QED
    BY <1>1, <2>1, <2>2, <2>3, <2>4, <2>5 DEF d
<1>10. CASE m \in ChunkCommits
  <2>1. r = <<m.index, m.chunk, m.resource>>
    BY <1>10 DEF Body, ChunkCommits
  <2>2. ~(TagOf(m.op) <= 9)
    BY <1>0, <1>10 DEF ChunkCommits, Ops
  <2>3. FileIndex(m.index)
    BY <1>1, <1>10 DEF Encodable, ChunkCommits
  <2>4. ReadChunks(m.op, <<m.index, m.chunk, m.resource>>)
            = {[op |-> m.op, index |-> m.index, chunk |-> m.chunk, resource |-> m.resource]}
    BY <1>10, <2>3 DEF ReadChunks, When, Fits, ChunkCommits
  <2>5. m = [op |-> m.op, index |-> m.index, chunk |-> m.chunk, resource |-> m.resource]
    BY <1>10 DEF ChunkCommits
  <2> QED
    BY <1>1, <2>1, <2>2, <2>3, <2>4, <2>5 DEF d
<1> QED
  BY <1>2, <1>3, <1>4, <1>5, <1>6, <1>7, <1>8, <1>9, <1>10 DEF Fixed, d

(***************************************************************************)
(* Messages with a counted table.                                          *)
(***************************************************************************)
HashTables == [op : {"hashes"}, index : Nat, start : Nat, hashes : Seq(Nat)]
MissingLists == [op : {"missing"}, index : Nat, start : Nat, count : Nat, chunks : Seq(Nat)]

\* A page of hashes as encode writes it.
LEMMA HashesBody ==
    ASSUME NEW m \in HashTables
    PROVE  LET r == Body(m)
               n == Len(m.hashes)
           IN  /\ m.op = "hashes" /\ m.op \in {Ops[t] : t \in 1 .. 20}
               /\ n \in Nat /\ r \in Seq(Nat) /\ Len(r) = 3 + n
               /\ r[1] = m.index /\ r[2] = m.start /\ r[3] = n
               /\ SubSeq(r, 4, 3 + n) = m.hashes
<1> DEFINE n == Len(m.hashes)
           p == <<m.index, m.start, n>>
           r == p \o m.hashes
<1>1. m.op = "hashes" /\ m.index \in Nat /\ m.start \in Nat /\ m.hashes \in Seq(Nat) /\ n \in Nat
  BY DEF HashTables
<1>2. Body(m) = r
  BY <1>1 DEF Body
<1>3. p \in Seq(Nat) /\ Len(p) = 3 /\ p[1] = m.index /\ p[2] = m.start /\ p[3] = n
  BY <1>1
<1> HIDE DEF p
<1>4. /\ r \in Seq(Nat) /\ Len(r) = Len(p) + n /\ SubSeq(r, Len(p) + 1, Len(p) + n) = m.hashes
      /\ \A i \in 1 .. Len(p) : r[i] = p[i]
  <2> DEFINE s == m.hashes
  <2>1. p \in Seq(Nat) /\ s \in Seq(Nat)
    BY <1>1, <1>3
  <2> HIDE DEF s
  <2>2. /\ p \o s \in Seq(Nat) /\ Len(p \o s) = Len(p) + Len(s)
        /\ SubSeq(p \o s, Len(p) + 1, Len(p) + Len(s)) = s
        /\ \A i \in 1 .. Len(p) : (p \o s)[i] = p[i]
    BY <2>1, Behind
  <2> QED
    BY <2>2 DEF s
<1>5. "hashes" \in {Ops[t] : t \in 1 .. 20}
  BY DEF Ops
<1> HIDE DEF r, n
<1>6. SubSeq(r, 4, 3 + n) = m.hashes /\ Len(r) = 3 + n /\ r[1] = p[1] /\ r[2] = p[2] /\ r[3] = p[3]
  BY <1>1, <1>3, <1>4
<1>7. Len(m.hashes) = n
  BY DEF n
<1> QED
  BY <1>1, <1>2, <1>3, <1>4, <1>5, <1>6, <1>7

\* It is read as it was written.
LEMMA HashesCarried ==
    ASSUME NEW m \in HashTables, NEW v \in Nat, Encode(v, m) # <<>>
    PROVE  Decode(v, Encode(v, m)) = {m}
<1> DEFINE r == Body(m)
           n == Len(m.hashes)
           d == Decode(v, Encode(v, m))
<1>1. /\ m.op = "hashes" /\ n \in Nat /\ r \in Seq(Nat) /\ Len(r) = 3 + n
      /\ r[1] = m.index /\ r[2] = m.start /\ r[3] = n /\ SubSeq(r, 4, 3 + n) = m.hashes
  BY HashesBody
<1>2. /\ Encodable(m)
      /\ d = IF TagOf(m.op) <= 9 THEN ReadCommon(m.op, r)
             ELSE IF r = <<>> \/ ~FileIndex(r[1]) THEN {} ELSE ReadChunks(m.op, r)
  BY Framed, HashesBody
<1>3. ~(TagOf(m.op) <= 9)
  BY <1>1, TagsOfOps DEF Ops
<1>4. FileIndex(m.index) /\ PageRange(m.start, n)
  BY <1>1, <1>2 DEF Encodable
<1>5. m = [op |-> m.op, index |-> m.index, start |-> m.start, hashes |-> m.hashes]
  BY DEF HashTables
<1> HIDE DEF d, r, n
<1>6. r # <<>> /\ FileIndex(r[1])
  BY <1>1, <1>4
<1>7. ReadChunks("hashes", r) = ReadPages("hashes", r)
  BY DEF ReadChunks
<1>8. ReadPages("hashes", r) =
        IF Len(r) < 3 \/ ~PageRange(r[2], r[3]) \/ ~Fits(r, 3 + r[3]) THEN {}
        ELSE {[op |-> "hashes", index |-> r[1], start |-> r[2],
               hashes |-> SubSeq(r, 4, 3 + r[3])]}
  BY DEF ReadPages
<1>9. ~(Len(r) < 3 \/ ~PageRange(r[2], r[3]) \/ ~Fits(r, 3 + r[3]))
  BY <1>1, <1>4 DEF Fits
<1>10. ReadPages("hashes", r) = {m}
  BY <1>1, <1>5, <1>8, <1>9
<1> QED
  BY <1>1, <1>2, <1>3, <1>6, <1>7, <1>10 DEF d

\* A list of missing chunks as encode writes it.
LEMMA MissingBody ==
    ASSUME NEW m \in MissingLists
    PROVE  LET r == Body(m)
               n == Len(m.chunks)
           IN  /\ m.op = "missing" /\ m.op \in {Ops[t] : t \in 1 .. 20}
               /\ n \in Nat /\ r \in Seq(Nat) /\ Len(r) = 4 + n
               /\ r[1] = m.index /\ r[2] = m.start /\ r[3] = m.count /\ r[4] = n
               /\ SubSeq(r, 5, 4 + n) = m.chunks
<1> DEFINE n == Len(m.chunks)
           p == <<m.index, m.start, m.count, n>>
           r == p \o m.chunks
<1>1. /\ m.op = "missing" /\ m.index \in Nat /\ m.start \in Nat /\ m.count \in Nat
      /\ m.chunks \in Seq(Nat) /\ n \in Nat
  BY DEF MissingLists
<1>2. Body(m) = r
  BY <1>1 DEF Body
<1>3. /\ p \in Seq(Nat) /\ Len(p) = 4 /\ p[1] = m.index /\ p[2] = m.start /\ p[3] = m.count
      /\ p[4] = n
  BY <1>1
<1> HIDE DEF p
<1>4. /\ r \in Seq(Nat) /\ Len(r) = Len(p) + n /\ SubSeq(r, Len(p) + 1, Len(p) + n) = m.chunks
      /\ \A i \in 1 .. Len(p) : r[i] = p[i]
  <2> DEFINE s == m.chunks
  <2>1. p \in Seq(Nat) /\ s \in Seq(Nat)
    BY <1>1, <1>3
  <2> HIDE DEF s
  <2>2. /\ p \o s \in Seq(Nat) /\ Len(p \o s) = Len(p) + Len(s)
        /\ SubSeq(p \o s, Len(p) + 1, Len(p) + Len(s)) = s
        /\ \A i \in 1 .. Len(p) : (p \o s)[i] = p[i]
    BY <2>1, Behind
  <2> QED
    BY <2>2 DEF s
<1>5. "missing" \in {Ops[t] : t \in 1 .. 20}
  BY DEF Ops
<1> HIDE DEF r, n
<1>6. /\ SubSeq(r, 5, 4 + n) = m.chunks /\ Len(r) = 4 + n
      /\ r[1] = p[1] /\ r[2] = p[2] /\ r[3] = p[3] /\ r[4] = p[4]
  BY <1>1, <1>3, <1>4
<1>7. Len(m.chunks) = n
  BY DEF n
<1> QED
  BY <1>1, <1>2, <1>3, <1>4, <1>5, <1>6, <1>7

\* It is read as it was written.
LEMMA MissingCarried ==
    ASSUME NEW m \in MissingLists, NEW v \in Nat, Encode(v, m) # <<>>
    PROVE  Decode(v, Encode(v, m)) = {m}
<1> DEFINE r == Body(m)
           n == Len(m.chunks)
           d == Decode(v, Encode(v, m))
           k == [op |-> "missing", index |-> r[1], start |-> r[2], count |-> r[3],
                 chunks |-> SubSeq(r, 5, 4 + r[4])]
<1>1. /\ m.op = "missing" /\ n \in Nat /\ r \in Seq(Nat) /\ Len(r) = 4 + n
      /\ r[1] = m.index /\ r[2] = m.start /\ r[3] = m.count /\ r[4] = n
      /\ SubSeq(r, 5, 4 + n) = m.chunks
  BY MissingBody
<1>2. /\ Encodable(m)
      /\ d = IF TagOf(m.op) <= 9 THEN ReadCommon(m.op, r)
             ELSE IF r = <<>> \/ ~FileIndex(r[1]) THEN {} ELSE ReadChunks(m.op, r)
  BY Framed, MissingBody
<1>3. ~(TagOf(m.op) <= 9)
  BY <1>1, TagsOfOps DEF Ops
<1>4. FileIndex(m.index) /\ ValidMissing(m)
  BY <1>1, <1>2 DEF Encodable
<1>5. n <= m.count /\ m.count \in Nat
  BY <1>4 DEF ValidMissing, MissingLists
<1>6. m = [op |-> m.op, index |-> m.index, start |-> m.start, count |-> m.count,
           chunks |-> m.chunks]
  BY DEF MissingLists
<1> HIDE DEF d, r, n
<1>7. r # <<>> /\ FileIndex(r[1])
  BY <1>1, <1>4
<1>8. ReadChunks("missing", r) = ReadPages("missing", r)
  BY DEF ReadChunks
<1>9. k = m
  BY <1>1, <1>6
<1> HIDE DEF k
<1>10. ReadPages("missing", r) =
         IF Len(r) < 4 \/ r[4] > r[3] \/ ~Fits(r, 4 + r[4]) THEN {}
         ELSE When(ValidMissing(k), k)
  BY DEF ReadPages, k
<1>11. ~(Len(r) < 4 \/ r[4] > r[3] \/ ~Fits(r, 4 + r[4]))
  BY <1>1, <1>5 DEF Fits
<1>12. ReadPages("missing", r) = {m}
  BY <1>4, <1>9, <1>10, <1>11 DEF When
<1> QED
  BY <1>1, <1>2, <1>3, <1>7, <1>8, <1>12 DEF d

(***************************************************************************)
(* The loops over the entries of a manifest.                               *)
(***************************************************************************)
\* A set of naturals has a least element; module WellFoundedInduction.
LEMMA LeastExists ==
    ASSUME NEW T, T \subseteq Nat, T # {}
    PROVE  \E n \in T : \A m \in T : n <= m
<1> DEFINE R == OpToRel(<, Nat)
<1>1. IsWellFoundedOn(R, Nat)
  BY NatLessThanWellFounded
<1>2. \A x, y \in Nat : <<x, y>> \in R <=> x < y
  BY Zenon DEF OpToRel
<1> HIDE DEF R
<1>3. PICK x \in T : \A y \in T : ~(<<y, x>> \in R)
  BY <1>1, WFMin
<1>4. ASSUME NEW m \in T PROVE x <= m
  <2>1. x \in Nat /\ m \in Nat /\ ~(<<m, x>> \in R)
    BY <1>3
  <2> QED
    BY <1>2, <2>1
<1> QED
  BY <1>4

\* Induction, for a set of naturals.
LEMMA Induction ==
    ASSUME NEW T, 0 \in T, \A n \in Nat : n \in T => n + 1 \in T
    PROVE  Nat \subseteq T
<1> SUFFICES ASSUME Nat \ T # {} PROVE FALSE
  OBVIOUS
<1>1. PICK n \in Nat \ T : \A m \in Nat \ T : n <= m
  BY LeastExists
<1>2. n # 0 /\ n - 1 \in Nat /\ n - 1 \in T
  BY <1>1
<1> QED
  BY <1>1, <1>2

\* Max is what its name says.
LEMMA MaxIsGreatest ==
    ASSUME NEW n \in Nat, NEW s \in SUBSET (1 .. n), s # {}
    PROVE  Max(s) \in s /\ \A k \in s : k <= Max(s)
<1> DEFINE T == {n - k : k \in s}
<1>1. T \subseteq Nat /\ T # {}
  <2>1. \A k \in s : n - k \in Nat
    OBVIOUS
  <2>2. PICK k \in s : TRUE
    OBVIOUS
  <2>3. n - k \in T
    OBVIOUS
  <2> QED
    BY <2>1, <2>3
<1> HIDE DEF T
<1>2. PICK d \in T : \A e \in T : d <= e
  BY <1>1, LeastExists
<1>3. PICK x \in s : d = n - x
  BY <1>2 DEF T
<1>4. \A k \in s : x >= k
  <2>1. \A k \in s : n - x <= n - k
    BY <1>2, <1>3 DEF T
  <2> QED
    BY <2>1
<1>5. \E y \in s : \A k \in s : y >= k
  BY <1>4
<1>6. Max(s) \in s /\ \A k \in s : Max(s) >= k
  BY <1>5 DEF Max
<1> QED
  BY <1>6

\* A set of the first n + 1 numbers has n + 1 as its greatest, or is one of the
\* first n.
LEMMA MaxOfLonger ==
    ASSUME NEW n \in Nat, NEW s \in SUBSET (1 .. n + 1)
    PROVE  /\ n + 1 \in s => Max(s) = n + 1 /\ s \ {Max(s)} \in SUBSET (1 .. n)
           /\ n + 1 \notin s => s \in SUBSET (1 .. n)
           /\ s # {} => Max(s) \in s
<1>1. s # {} => Max(s) \in s /\ \A k \in s : k <= Max(s)
  <2>1. n + 1 \in Nat
    OBVIOUS
  <2> QED
    BY <2>1, MaxIsGreatest
<1>2. ASSUME n + 1 \in s PROVE Max(s) = n + 1 /\ s \ {Max(s)} \in SUBSET (1 .. n)
  <2>1. Max(s) \in 1 .. n + 1 /\ n + 1 <= Max(s)
    BY <1>1, <1>2
  <2>2. Max(s) = n + 1
    BY <2>1
  <2>3. \A k \in s \ {n + 1} : k \in 1 .. n
    OBVIOUS
  <2> QED
    BY <2>2, <2>3
<1>3. ASSUME n + 1 \notin s PROVE s \in SUBSET (1 .. n)
  <2>1. \A k \in s : k \in 1 .. n
    BY <1>3
  <2> QED
    BY <2>1
<1> QED
  BY <1>1, <1>2, <1>3

\* The greatest of 1 .. k is k, and without it 1 .. k - 1 is left.
LEMMA MaxOfRange ==
    ASSUME NEW k \in Nat \ {0}
    PROVE  /\ Max(1 .. k) = k /\ (1 .. k) \ {k} = 1 .. k - 1 /\ 1 .. k # {}
           /\ \A n \in Nat : k <= n => 1 .. k \in SUBSET (1 .. n)
<1>1. 1 .. k \in SUBSET (1 .. k) /\ k \in 1 .. k
  OBVIOUS
<1>2. Max(1 .. k) \in 1 .. k /\ k <= Max(1 .. k)
  BY <1>1, MaxIsGreatest
<1>3. \A i : i \in (1 .. k) \ {k} <=> i \in 1 .. k - 1
  OBVIOUS
<1>4. \A n \in Nat : k <= n => 1 .. k \in SUBSET (1 .. n)
  OBVIOUS
<1> QED
  BY <1>1, <1>2, <1>3, <1>4

\* f is the function by which the fold over the entries of m computes their
\* fields; Written says the same of the number of entries, step by step.
WrittenFold(f, m, n) ==
    f = [s \in SUBSET (1 .. n) |-> IF s = {} THEN <<>>
                                   ELSE f[s \ {Max(s)}] \o EntryFields(m[Max(s)])]
Written(g, m, n) == g[0] = <<>> /\ \A k \in 1 .. n : g[k] = g[k - 1] \o EntryFields(m[k])

\* What has been written of m is defined for every number of entries.
LEMMA FieldsExists ==
    ASSUME NEW m
    PROVE  \A n \in Nat : \E f : WrittenFold(f, m, n)
<1> DEFINE Is(f, n) ==
             f = [s \in SUBSET (1 .. n) |-> IF s = {} THEN <<>>
                                            ELSE f[s \ {Max(s)}] \o EntryFields(m[Max(s)])]
           T == {n \in Nat : \E f : Is(f, n)}
<1>1. 0 \in T
  <2> DEFINE f0 == [s \in SUBSET (1 .. 0) |-> <<>>]
  <2>1. \A s \in SUBSET (1 .. 0) : s = {}
    OBVIOUS
  <2>2. Is(f0, 0)
    BY <2>1
  <2> QED
    BY <2>2
<1>2. ASSUME NEW n \in Nat, n \in T PROVE n + 1 \in T
  <2>1. PICK f : Is(f, n)
    BY <1>2
  <2> DEFINE g == [s \in SUBSET (1 .. n + 1) |->
                      IF n + 1 \in s THEN f[s \ {n + 1}] \o EntryFields(m[n + 1]) ELSE f[s]]
  <2>2. \A s \in SUBSET (1 .. n) :
           f[s] = IF s = {} THEN <<>> ELSE f[s \ {Max(s)}] \o EntryFields(m[Max(s)])
    BY <2>1
  <2>3. \A s \in SUBSET (1 .. n) : g[s] = f[s]
    <3> SUFFICES ASSUME NEW s \in SUBSET (1 .. n) PROVE g[s] = f[s]
      OBVIOUS
    <3>1. s \in SUBSET (1 .. n + 1) /\ n + 1 \notin s
      OBVIOUS
    <3> QED
      BY <3>1
  <2>4. ASSUME NEW s \in SUBSET (1 .. n + 1)
        PROVE  g[s] = IF s = {} THEN <<>> ELSE g[s \ {Max(s)}] \o EntryFields(m[Max(s)])
    <3>1. CASE n + 1 \in s
      <4>1. Max(s) = n + 1 /\ s \ {Max(s)} \in SUBSET (1 .. n) /\ s # {}
        BY <3>1, MaxOfLonger
      <4>2. g[s] = f[s \ {n + 1}] \o EntryFields(m[n + 1])
        BY <3>1
      <4>3. g[s \ {n + 1}] = f[s \ {n + 1}]
        BY <2>3, <4>1
      <4> QED
        BY <4>1, <4>2, <4>3
    <3>2. CASE n + 1 \notin s
      <4>1. s \in SUBSET (1 .. n)
        BY <3>2, MaxOfLonger
      <4>2. g[s] = f[s] /\ g[s \ {Max(s)}] = f[s \ {Max(s)}]
        <5>1. s \ {Max(s)} \in SUBSET (1 .. n)
          BY <4>1
        <5> HIDE DEF g
        <5> QED
          BY <2>3, <4>1, <5>1
      <4> HIDE DEF g
      <4> QED
        BY <2>2, <4>1, <4>2
    <3> QED
      BY <3>1, <3>2
  <2>5. g = [s \in SUBSET (1 .. n + 1) |-> g[s]]
    OBVIOUS
  <2>6. Is(g, n + 1)
    <3> HIDE DEF g
    <3> QED
      BY <2>4, <2>5
  <2> QED
    <3> HIDE DEF g, Is
    <3> QED
      BY <2>6
<1>3. Nat \subseteq T
  <2> HIDE DEF T
  <2> QED
    BY <1>1, <1>2, Induction
<1> QED
  BY <1>3 DEF WrittenFold

\* So it is computed one entry after the other.
LEMMA FieldsStepwise ==
    ASSUME NEW m, NEW n \in Nat, NEW F, WrittenFold(F, m, n)
    PROVE  \E g : g[n] = F[1 .. n] /\ Written(g, m, n)
<1> DEFINE g == [k \in 0 .. n |-> F[1 .. k]]
<1>2. \A s \in SUBSET (1 .. n) :
         F[s] = IF s = {} THEN <<>> ELSE F[s \ {Max(s)}] \o EntryFields(m[Max(s)])
  BY DEF WrittenFold
<1>3. g[n] = F[1 .. n] /\ g[0] = F[1 .. 0]
  OBVIOUS
<1>4. g[0] = <<>>
  <2>1. 1 .. 0 = {} /\ 1 .. 0 \in SUBSET (1 .. n)
    OBVIOUS
  <2> HIDE DEF g
  <2> QED
    BY <1>2, <1>3, <2>1
<1>5. ASSUME NEW k \in 1 .. n PROVE g[k] = g[k - 1] \o EntryFields(m[k])
  <2>0. k \in Nat \ {0} /\ k <= n
    OBVIOUS
  <2>1. 1 .. k \in SUBSET (1 .. n) /\ 1 .. k # {}
    BY <2>0, MaxOfRange
  <2>2. Max(1 .. k) = k /\ (1 .. k) \ {k} = 1 .. k - 1
    BY <2>0, MaxOfRange
  <2>4. F[1 .. k] = F[1 .. k - 1] \o EntryFields(m[k])
    BY <1>2, <2>1, <2>2
  <2>5. g[k] = F[1 .. k] /\ g[k - 1] = F[1 .. k - 1]
    OBVIOUS
  <2> QED
    BY <2>4, <2>5
<1> QED
  <2> HIDE DEF g
  <2> QED
    BY <1>3, <1>4, <1>5 DEF Written

\* The same of the loop that reads n entries from the fields b.
ReadingFold(f, b, n) ==
    f = [s \in SUBSET (1 .. n) |-> IF s = {} THEN b
                                   ELSE ReadEntry(f[s \ {Max(s)}])]
Reading(g, b, n) == g[0] = b /\ \A k \in 1 .. n : g[k] = ReadEntry(g[k - 1])

\* What has been read from b on is defined for every number of entries.
LEMMA ReadingExists ==
    ASSUME NEW b
    PROVE  \A n \in Nat : \E f : ReadingFold(f, b, n)
<1> DEFINE Is(f, n) ==
             f = [s \in SUBSET (1 .. n) |-> IF s = {} THEN b
                                            ELSE ReadEntry(f[s \ {Max(s)}])]
           T == {n \in Nat : \E f : Is(f, n)}
<1>1. 0 \in T
  <2> DEFINE f0 == [s \in SUBSET (1 .. 0) |-> b]
  <2>1. \A s \in SUBSET (1 .. 0) : s = {}
    OBVIOUS
  <2>2. Is(f0, 0)
    BY <2>1
  <2> QED
    BY <2>2
<1>2. ASSUME NEW n \in Nat, n \in T PROVE n + 1 \in T
  <2>1. PICK f : Is(f, n)
    BY <1>2
  <2> DEFINE g == [s \in SUBSET (1 .. n + 1) |->
                      IF n + 1 \in s THEN ReadEntry(f[s \ {n + 1}]) ELSE f[s]]
  <2>2. \A s \in SUBSET (1 .. n) :
           f[s] = IF s = {} THEN b ELSE ReadEntry(f[s \ {Max(s)}])
    BY <2>1
  <2>3. \A s \in SUBSET (1 .. n) : g[s] = f[s]
    <3> SUFFICES ASSUME NEW s \in SUBSET (1 .. n) PROVE g[s] = f[s]
      OBVIOUS
    <3>1. s \in SUBSET (1 .. n + 1) /\ n + 1 \notin s
      OBVIOUS
    <3> QED
      BY <3>1
  <2>4. ASSUME NEW s \in SUBSET (1 .. n + 1)
        PROVE  g[s] = IF s = {} THEN b ELSE ReadEntry(g[s \ {Max(s)}])
    <3>1. CASE n + 1 \in s
      <4>1. Max(s) = n + 1 /\ s \ {Max(s)} \in SUBSET (1 .. n) /\ s # {}
        BY <3>1, MaxOfLonger
      <4>2. g[s] = ReadEntry(f[s \ {n + 1}])
        BY <3>1
      <4>3. g[s \ {n + 1}] = f[s \ {n + 1}]
        BY <2>3, <4>1
      <4> QED
        BY <4>1, <4>2, <4>3
    <3>2. CASE n + 1 \notin s
      <4>1. s \in SUBSET (1 .. n)
        BY <3>2, MaxOfLonger
      <4>2. g[s] = f[s] /\ g[s \ {Max(s)}] = f[s \ {Max(s)}]
        <5>1. s \ {Max(s)} \in SUBSET (1 .. n)
          BY <4>1
        <5> HIDE DEF g
        <5> QED
          BY <2>3, <4>1, <5>1
      <4> HIDE DEF g
      <4> QED
        BY <2>2, <4>1, <4>2
    <3> QED
      BY <3>1, <3>2
  <2>5. g = [s \in SUBSET (1 .. n + 1) |-> g[s]]
    OBVIOUS
  <2>6. Is(g, n + 1)
    <3> HIDE DEF g
    <3> QED
      BY <2>4, <2>5
  <2> QED
    <3> HIDE DEF g, Is
    <3> QED
      BY <2>6
<1>3. Nat \subseteq T
  <2> HIDE DEF T
  <2> QED
    BY <1>1, <1>2, Induction
<1> QED
  BY <1>3 DEF ReadingFold

\* So it is computed one entry after the other.
LEMMA ReadingStepwise ==
    ASSUME NEW b, NEW n \in Nat, NEW F, ReadingFold(F, b, n)
    PROVE  \E g : g[n] = F[1 .. n] /\ Reading(g, b, n)
<1> DEFINE g == [k \in 0 .. n |-> F[1 .. k]]
<1>2. \A s \in SUBSET (1 .. n) :
         F[s] = IF s = {} THEN b ELSE ReadEntry(F[s \ {Max(s)}])
  BY DEF ReadingFold
<1>3. g[n] = F[1 .. n] /\ g[0] = F[1 .. 0]
  OBVIOUS
<1>4. g[0] = b
  <2>1. 1 .. 0 = {} /\ 1 .. 0 \in SUBSET (1 .. n)
    OBVIOUS
  <2> HIDE DEF g
  <2> QED
    BY <1>2, <1>3, <2>1
<1>5. ASSUME NEW k \in 1 .. n PROVE g[k] = ReadEntry(g[k - 1])
  <2>0. k \in Nat \ {0} /\ k <= n
    OBVIOUS
  <2>1. 1 .. k \in SUBSET (1 .. n) /\ 1 .. k # {}
    BY <2>0, MaxOfRange
  <2>2. Max(1 .. k) = k /\ (1 .. k) \ {k} = 1 .. k - 1
    BY <2>0, MaxOfRange
  <2>4. F[1 .. k] = ReadEntry(F[1 .. k - 1])
    BY <1>2, <2>1, <2>2
  <2>5. g[k] = F[1 .. k] /\ g[k - 1] = F[1 .. k - 1]
    OBVIOUS
  <2> QED
    BY <2>4, <2>5
<1> QED
  <2> HIDE DEF g
  <2> QED
    BY <1>3, <1>4, <1>5 DEF Reading

\* The fold of ManifestFields is such a function.
LEMMA FieldsFolded ==
    ASSUME NEW m, NEW n \in Nat, DOMAIN m = 1 .. n
    PROVE  \E g : ManifestFields(m) = <<Len(m)>> \o g[n] /\ Written(g, m, n)
<1> DEFINE Is(f) == f = [s \in SUBSET DOMAIN m |->
                IF s = {} THEN <<>> ELSE f[s \ {Max(s)}] \o EntryFields(m[Max(s)])]
           F == CHOOSE f : Is(f)
<1>1. ManifestFields(m) = <<Len(m)>> \o F[DOMAIN m]
  BY DEF ManifestFields, FoldLeft, MapThenFoldSet
<1>2. \E f : Is(f)
  <2>1. \E f : WrittenFold(f, m, n)
    BY FieldsExists
  <2> QED
    BY <2>1 DEF WrittenFold
<1>3. Is(F)
  <2> HIDE DEF Is
  <2> QED
    BY <1>2
<1> HIDE DEF F
<1>4. WrittenFold(F, m, n)
  BY <1>3 DEF WrittenFold
<1>5. \E g : g[n] = F[1 .. n] /\ Written(g, m, n)
  BY <1>4, FieldsStepwise
<1> QED
  BY <1>1, <1>5

\* The fold of ReadManifest is such a function.
LEMMA ReadingFolded ==
    ASSUME NEW r, NEW n \in Nat, r[1] = n, r # <<>>, n <= MaxEntries
    PROVE  \E g : /\ Reading(g, [read |-> TRUE, entries |-> <<>>, rest |-> Tail(r)], n)
                  /\ ReadManifest(r) =
                       IF g[n].read /\ Fits(g[n].rest, 0) /\ ValidManifest(g[n].entries)
                       THEN {g[n].entries} ELSE {}
<1> DEFINE B == [read |-> TRUE, entries |-> <<>>, rest |-> Tail(r)]
           q == [k \in 1 .. r[1] |-> k]
           Is(f) == f = [s \in SUBSET DOMAIN q |->
                IF s = {} THEN B ELSE ReadEntry(f[s \ {Max(s)}])]
           F == CHOOSE f : Is(f)
           x == F[DOMAIN q]
<1>1. ReadManifest(r) = IF r = <<>> \/ r[1] > MaxEntries THEN {} ELSE
         IF x.read /\ Fits(x.rest, 0) /\ ValidManifest(x.entries) THEN {x.entries} ELSE {}
  BY DEF ReadManifest, FoldLeft, MapThenFoldSet
<1>2. DOMAIN q = 1 .. n
  OBVIOUS
<1> HIDE DEF B, q
<1>3. \E f : Is(f)
  <2>1. \E f : ReadingFold(f, B, n)
    BY ReadingExists
  <2> QED
    BY <1>2, <2>1 DEF ReadingFold
<1>4. Is(F)
  <2> HIDE DEF Is
  <2> QED
    BY <1>3
<1>5. x = F[1 .. n]
  BY <1>2
<1> HIDE DEF F, x
<1>6. ReadingFold(F, B, n)
  BY <1>2, <1>4 DEF ReadingFold
<1>7. \E g : g[n] = x /\ Reading(g, B, n)
  BY <1>5, <1>6, ReadingStepwise
<1>8. ~(r = <<>> \/ r[1] > MaxEntries)
  BY Numbers
<1> QED
  BY <1>1, <1>7, <1>8 DEF B

(***************************************************************************)
(* One entry.                                                              *)
(***************************************************************************)
LEMMA KindCodes ==
    /\ \A k \in {"file", "directory", "protected"} :
          KindCode(k) \in 0 .. 2 /\ Kinds[KindCode(k) + 1] = k
    /\ \A c \in 0 .. 2 : /\ Kinds[c + 1] \in {"file", "directory", "protected"}
                         /\ KindCode(Kinds[c + 1]) = c
<1>1. Kinds[1] = "file" /\ Kinds[2] = "directory" /\ Kinds[3] = "protected"
  BY DEF Kinds
<1>2. \A c \in 1 .. 3, d \in 1 .. 3 : Kinds[c] = Kinds[d] => c = d
  BY <1>1
<1>3. \A c \in 1 .. 3 : (CHOOSE d \in 1 .. 3 : Kinds[d] = Kinds[c]) = c
  BY <1>2
<1>4. \A c \in 1 .. 3 : KindCode(Kinds[c]) = c - 1
  BY <1>3 DEF KindCode
<1>5. \A c \in 0 .. 2 : c + 1 \in 1 .. 3
  OBVIOUS
<1> QED
  BY <1>1, <1>4, <1>5

\* The fields of an entry, and how many they are.
LEMMA EntryWritten ==
    ASSUME NEW e \in Entries
    PROVE  LET f == EntryFields(e) IN
           /\ f \in Seq(Nat)
           /\ Len(f) = 6 + (IF e.hash = NoHash THEN 0 ELSE 1)
           /\ f[1] = e.path /\ f[2] = KindCode(e.kind) /\ f[3] = e.size /\ f[4] = e.mtime
           /\ f[5] = e.ns /\ f[6] = (IF e.hash = NoHash THEN 0 ELSE 1)
           /\ e.hash # NoHash => f[7] = e.hash
<1>1. /\ e.path \in Nat /\ e.size \in Nat /\ e.mtime \in Nat /\ e.ns \in Nat
      /\ KindCode(e.kind) \in Nat /\ e.hash \in Nat \cup {NoHash}
  BY KindCodes DEF Entries
<1> DEFINE p == <<e.path, KindCode(e.kind), e.size, e.mtime, e.ns>>
           q == IF e.hash = NoHash THEN <<0>> ELSE <<1, e.hash>>
           h == IF e.hash = NoHash THEN 0 ELSE 1
<1>2. EntryFields(e) = p \o q
  BY DEF EntryFields
<1>3. /\ p \in Seq(Nat) /\ Len(p) = 5 /\ p[1] = e.path /\ p[2] = KindCode(e.kind)
      /\ p[3] = e.size /\ p[4] = e.mtime /\ p[5] = e.ns
  BY <1>1
<1>4. /\ q \in Seq(Nat) /\ Len(q) = 1 + h /\ q[1] = h /\ (e.hash # NoHash => q[2] = e.hash)
      /\ h \in {0, 1} /\ (e.hash # NoHash => h = 1)
  <2>1. CASE e.hash = NoHash
    BY <2>1
  <2>2. CASE e.hash # NoHash
    <3>1. e.hash \in Nat
      BY <1>1, <2>2
    <3>2. q = <<1, e.hash>> /\ h = 1
      BY <2>2
    <3> QED
      BY <2>2, <3>1, <3>2
  <2> QED
    BY <2>1, <2>2
<1> HIDE DEF p, q, h
<1>5. /\ p \o q \in Seq(Nat) /\ Len(p \o q) = Len(p) + Len(q)
      /\ \A i \in 1 .. Len(p) + Len(q) :
            (p \o q)[i] = IF i <= Len(p) THEN p[i] ELSE q[i - Len(p)]
  BY <1>3, <1>4, ConcatProperties
<1> DEFINE f == EntryFields(e)
<1>6. f \in Seq(Nat) /\ Len(f) = 6 + h
  BY <1>2, <1>3, <1>4, <1>5
<1>7. \A i \in 1 .. 6 + h : f[i] = IF i <= 5 THEN p[i] ELSE q[i - 5]
  BY <1>2, <1>3, <1>4, <1>5
<1> HIDE DEF f
<1>8. f[1] = p[1] /\ f[2] = p[2] /\ f[3] = p[3] /\ f[4] = p[4] /\ f[5] = p[5]
  BY <1>4, <1>7
<1>9. f[6] = q[1]
  <2>1. 6 \in 1 .. 6 + h /\ 6 - 5 = 1
    BY <1>4
  <2> QED
    BY <1>7, <2>1
<1>10. h = 1 => f[7] = q[2]
  <2>1. h = 1 => 7 \in 1 .. 6 + h /\ 7 - 5 = 2
    OBVIOUS
  <2> QED
    BY <1>7, <2>1
<1> QED
  BY <1>3, <1>4, <1>6, <1>8, <1>9, <1>10 DEF f, h

\* Seven fields or less are read back.
LEMMA EntryRead ==
    ASSUME NEW e \in Entries, NEW t \in Seq(Nat), NEW a, a.read = TRUE,
           a.rest = EntryFields(e) \o t
    PROVE  ReadEntry(a) = [read |-> TRUE, rest |-> t, entries |-> Append(a.entries, e)]
<1> DEFINE f == EntryFields(e)
           r == a.rest
           h == IF e.hash = NoHash THEN 0 ELSE 1
<1>1. /\ f \in Seq(Nat) /\ Len(f) = 6 + h
      /\ f[1] = e.path /\ f[2] = KindCode(e.kind) /\ f[3] = e.size /\ f[4] = e.mtime
      /\ f[5] = e.ns /\ f[6] = h /\ (h = 1 => f[7] = e.hash)
  BY EntryWritten
<1>2. h \in {0, 1} /\ Len(t) \in Nat
  OBVIOUS
<1> HIDE DEF f
<1>3. /\ r \in Seq(Nat) /\ Len(r) = Len(f) + Len(t) /\ SubSeq(r, Len(f) + 1, Len(f) + Len(t)) = t
      /\ \A i \in 1 .. Len(f) : r[i] = f[i]
  <2>1. r = f \o t
    BY DEF f
  <2> HIDE DEF r
  <2>2. /\ f \o t \in Seq(Nat) /\ Len(f \o t) = Len(f) + Len(t)
        /\ SubSeq(f \o t, Len(f) + 1, Len(f) + Len(t)) = t
        /\ \A i \in 1 .. Len(f) : (f \o t)[i] = f[i]
    BY <1>1, Behind
  <2> QED
    BY <2>1, <2>2
<1> HIDE DEF r
<1>9. h = 0 <=> e.hash = NoHash
  OBVIOUS
<1> HIDE DEF h
<1>4. /\ Len(r) = 6 + h + Len(t) /\ r[1] = e.path /\ r[2] = KindCode(e.kind) /\ r[3] = e.size
      /\ r[4] = e.mtime /\ r[5] = e.ns /\ r[6] = h /\ (h = 1 => r[7] = e.hash)
      /\ SubSeq(r, 7 + r[6], Len(r)) = t
  <2>1. r[1] = f[1] /\ r[2] = f[2] /\ r[3] = f[3] /\ r[4] = f[4] /\ r[5] = f[5] /\ r[6] = f[6]
    BY <1>1, <1>2, <1>3
  <2>2. h = 1 => r[7] = f[7]
    BY <1>1, <1>2, <1>3
  <2>3. Len(f) + 1 = 7 + h /\ Len(f) + Len(t) = Len(r)
    BY <1>1, <1>2, <1>3
  <2> QED
    BY <1>1, <1>2, <1>3, <2>1, <2>2, <2>3
<1>5. e.kind \in {"file", "directory", "protected"} /\ e.hash \in Nat \cup {NoHash}
  BY DEF Entries
<1>6. r[2] \in 0 .. 2 /\ Kinds[r[2] + 1] = e.kind
  BY <1>4, <1>5, KindCodes
<1>7. ~(~a.read \/ Len(r) < 6 \/ r[2] > 2 \/ r[6] > 1 \/ Len(r) < 6 + r[6])
  BY <1>2, <1>4, <1>6
<1>8. [path |-> r[1], kind |-> Kinds[r[2] + 1], size |-> r[3], mtime |-> r[4],
       ns |-> r[5], hash |-> IF r[6] = 1 THEN r[7] ELSE NoHash] = e
  <2>1. e = [path |-> e.path, kind |-> e.kind, size |-> e.size, mtime |-> e.mtime,
             ns |-> e.ns, hash |-> e.hash]
    BY DEF Entries
  <2>2. (IF r[6] = 1 THEN r[7] ELSE NoHash) = e.hash
    BY <1>2, <1>4, <1>9
  <2> QED
    BY <1>4, <1>6, <2>1, <2>2
<1> QED
  BY <1>4, <1>7, <1>8 DEF ReadEntry, r

\* What is read as an entry is its fields.
LEMMA EntryReadBack ==
    ASSUME NEW a, ReadEntry(a).read, a.rest \in Seq(Nat)
    PROVE  /\ a.read
           /\ \E e \in Entries :
                 LET b == ReadEntry(a) IN
                 /\ b.rest \in Seq(Nat) /\ b.entries = Append(a.entries, e)
                 /\ a.rest = EntryFields(e) \o b.rest
<1> DEFINE r == a.rest
           h == r[6]
           e == [path |-> r[1], kind |-> Kinds[r[2] + 1], size |-> r[3], mtime |-> r[4],
                 ns |-> r[5], hash |-> IF r[6] = 1 THEN r[7] ELSE NoHash]
           b == [read |-> TRUE, rest |-> SubSeq(r, 7 + h, Len(r)),
                 entries |-> Append(a.entries, e)]
           bad == ~a.read \/ Len(r) < 6 \/ r[2] > 2 \/ r[6] > 1 \/ Len(r) < 6 + r[6]
<1>1. ReadEntry(a) = IF bad THEN BadManifest ELSE b
  BY DEF ReadEntry
<1>2. ~BadManifest.read
  BY DEF BadManifest
<1>3. ~bad /\ ReadEntry(a) = b
  <2> HIDE DEF bad, b
  <2> QED
    BY <1>1, <1>2
<1>4. r \in Seq(Nat) /\ Len(r) \in Nat /\ \A i \in 1 .. Len(r) : r[i] \in Nat
  BY ElementOfSeq
<1>5. /\ a.read /\ r[1] \in Nat /\ r[2] \in 0 .. 2 /\ r[3] \in Nat /\ r[4] \in Nat /\ r[5] \in Nat
      /\ h \in 0 .. 1 /\ 6 + h <= Len(r) /\ (h = 1 => r[7] \in Nat)
  <2> HIDE DEF r
  <2>0. /\ a.read /\ ~(Len(r) < 6) /\ ~(r[2] > 2) /\ ~(r[6] > 1) /\ ~(Len(r) < 6 + r[6])
    <3> HIDE DEF b
    <3> QED
      BY <1>3
  <2>1. 6 <= Len(r)
    BY <1>4, <2>0
  <2>2. r[1] \in Nat /\ r[2] \in Nat /\ r[3] \in Nat /\ r[4] \in Nat /\ r[5] \in Nat /\ r[6] \in Nat
    BY <1>4, <2>1
  <2>3. h \in 0 .. 1 /\ 6 + h <= Len(r) /\ r[2] \in 0 .. 2
    <3> DEFINE k == r[2]
               l == Len(r)
    <3>1. h \in Nat /\ k \in Nat /\ l \in Nat /\ ~(k > 2) /\ ~(h > 1) /\ ~(l < 6 + h)
      BY <1>4, <2>0, <2>2
    <3> HIDE DEF h, k, l
    <3>2. h \in 0 .. 1 /\ 6 + h <= l /\ k \in 0 .. 2
      BY <3>1
    <3> QED
      BY <3>2 DEF k, l
  <2>4. h = 1 => 7 \in 1 .. Len(r)
    BY <1>4, <2>3
  <2> QED
    BY <1>4, <2>0, <2>2, <2>3, <2>4
<1> HIDE DEF r
<1>6. e \in Entries
  BY <1>5, KindCodes DEF Entries
<1>7. /\ e.path = r[1] /\ e.kind = Kinds[r[2] + 1] /\ e.size = r[3] /\ e.mtime = r[4]
      /\ e.ns = r[5] /\ e.hash = IF h = 1 THEN r[7] ELSE NoHash
  OBVIOUS
<1>8. h = 0 <=> e.hash = NoHash
  BY <1>5, <1>7 DEF NoHash
<1> DEFINE f == EntryFields(e)
           p == SubSeq(r, 1, 6 + h)
           t == SubSeq(r, (6 + h) + 1, Len(r))
<1>9. /\ p \in Seq(Nat) /\ t \in Seq(Nat) /\ Len(p) = 6 + h
      /\ \A i \in 1 .. 6 + h : p[i] = r[i]
      /\ p \o t = r
  <2> DEFINE n == 6 + h
  <2>1. n \in 0 .. Len(r)
    BY <1>4, <1>5
  <2> HIDE DEF n
  <2>2. /\ SubSeq(r, 1, n) \in Seq(Nat) /\ SubSeq(r, n + 1, Len(r)) \in Seq(Nat)
        /\ Len(SubSeq(r, 1, n)) = n
        /\ \A i \in 1 .. n : SubSeq(r, 1, n)[i] = r[i]
        /\ SubSeq(r, 1, n) \o SubSeq(r, n + 1, Len(r)) = r
    BY <1>4, <2>1, Parted
  <2> QED
    BY <2>2 DEF n
<1>10. /\ f \in Seq(Nat) /\ Len(f) = 6 + h
       /\ f[1] = r[1] /\ f[2] = r[2] /\ f[3] = r[3] /\ f[4] = r[4] /\ f[5] = r[5] /\ f[6] = h
       /\ (h = 1 => f[7] = r[7])
  <2>1. LET g == EntryFields(e) IN
        /\ g \in Seq(Nat)
        /\ Len(g) = 6 + (IF e.hash = NoHash THEN 0 ELSE 1)
        /\ g[1] = e.path /\ g[2] = KindCode(e.kind) /\ g[3] = e.size /\ g[4] = e.mtime
        /\ g[5] = e.ns /\ g[6] = (IF e.hash = NoHash THEN 0 ELSE 1)
        /\ e.hash # NoHash => g[7] = e.hash
    BY <1>6, EntryWritten
  <2>2. KindCode(e.kind) = r[2]
    BY <1>5, <1>7, KindCodes
  <2> HIDE DEF e
  <2> QED
    BY <1>5, <1>7, <1>8, <2>1, <2>2
<1> HIDE DEF f, p, e
<1>11. \A i \in 1 .. Len(f) : f[i] = p[i]
  <2> SUFFICES ASSUME NEW i \in 1 .. Len(f) PROVE f[i] = p[i]
    OBVIOUS
  <2>1. i \in {1, 2, 3, 4, 5, 6} \/ (i = 7 /\ h = 1)
    <3>1. i \in 1 .. 6 + h /\ h \in 0 .. 1
      BY <1>5, <1>10
    <3> HIDE DEF h
    <3> QED
      BY <3>1
  <2>2. p[i] = r[i]
    BY <1>9, <1>10
  <2>3. f[i] = r[i]
    BY <1>10, <2>1
  <2> QED
    BY <2>2, <2>3
<1>12. f = p
  BY <1>9, <1>10, <1>11, SeqEqual
<1>13. (6 + h) + 1 = 7 + h
  BY <1>5
<1>14. b.rest = t /\ b.entries = Append(a.entries, e)
  BY <1>13
<1>15. a.rest = EntryFields(e) \o b.rest
  BY <1>9, <1>12, <1>14 DEF f, r
<1> HIDE DEF t, b
<1> QED
  BY <1>3, <1>5, <1>6, <1>9, <1>14, <1>15

(***************************************************************************)
(* All entries.                                                            *)
(***************************************************************************)
LEMMA ThreeParts ==
    \A a, b, c \in Seq(Nat) : (a \o b) \o c = a \o (b \o c) /\ b \o c \in Seq(Nat)
<1> SUFFICES ASSUME NEW a \in Seq(Nat), NEW b \in Seq(Nat), NEW c \in Seq(Nat)
             PROVE  (a \o b) \o c = a \o (b \o c) /\ b \o c \in Seq(Nat)
  OBVIOUS
<1>1. (a \o b) \o c = a \o (b \o c)
  BY ConcatAssociative
<1>2. b \o c \in Seq(Nat)
  BY ConcatProperties
<1> QED
  BY <1>1, <1>2

\* Sequences that begin alike and are equal end alike.
LEMMA Remainder ==
    ASSUME NEW S, NEW a \in Seq(S), NEW b \in Seq(S), NEW c \in Seq(S), a \o b = a \o c
    PROVE  b = c
BY ConcatSimplifications

\* The fields of a manifest are numbers.
LEMMA WrittenTyped ==
    ASSUME NEW m \in Seq(Entries), NEW n \in 0 .. Len(m), NEW g, Written(g, m, n)
    PROVE  /\ \A k \in 0 .. n : g[k] \in Seq(Nat)
           /\ \A k \in 1 .. n : /\ m[k] \in Entries /\ EntryFields(m[k]) \in Seq(Nat)
                                /\ g[k] = g[k - 1] \o EntryFields(m[k])
           /\ g[0] = <<>>
<1>0. Len(m) \in Nat /\ n \in Nat
  BY LenProperties
<1>1. g[0] = <<>> /\ \A k \in 1 .. n : g[k] = g[k - 1] \o EntryFields(m[k])
  BY DEF Written
<1>2. \A k \in 1 .. n : m[k] \in Entries /\ EntryFields(m[k]) \in Seq(Nat)
  <2> SUFFICES ASSUME NEW k \in 1 .. n PROVE m[k] \in Entries /\ EntryFields(m[k]) \in Seq(Nat)
    OBVIOUS
  <2>1. m[k] \in Entries
    BY <1>0, ElementOfSeq
  <2> QED
    BY <2>1, EntryWritten
<1> DEFINE T == {k \in Nat : k <= n => g[k] \in Seq(Nat)}
<1>3. 0 \in T
  <2>1. <<>> \in Seq(Nat)
    OBVIOUS
  <2>2. g[0] \in Seq(Nat)
    BY <1>1, <2>1
  <2> QED
    BY <2>2
<1>4. ASSUME NEW k \in Nat, k \in T PROVE k + 1 \in T
  <2> SUFFICES ASSUME k + 1 <= n PROVE g[k + 1] \in Seq(Nat)
    OBVIOUS
  <2>1. k + 1 \in 1 .. n /\ (k + 1) - 1 = k /\ g[k] \in Seq(Nat)
    BY <1>0, <1>4
  <2>2. g[k + 1] = g[k] \o EntryFields(m[k + 1]) /\ EntryFields(m[k + 1]) \in Seq(Nat)
    BY <1>1, <1>2, <2>1
  <2> QED
    BY <2>1, <2>2, ConcatProperties
<1>5. Nat \subseteq T
  <2> HIDE DEF T
  <2> QED
    BY <1>3, <1>4, Induction
<1>6. \A k \in 0 .. n : g[k] \in Seq(Nat)
  <2> SUFFICES ASSUME NEW k \in 0 .. n PROVE g[k] \in Seq(Nat)
    OBVIOUS
  <2>1. k \in Nat /\ k <= n
    BY <1>0
  <2>2. k \in T
    <3> HIDE DEF T
    <3> QED
      BY <1>5, <2>1
  <2> QED
    BY <2>1, <2>2
<1> QED
  BY <1>1, <1>2, <1>6

\* What has been written stays where it is.
Extended(g, n) == \A k \in 0 .. n : \E t \in Seq(Nat) : g[n] = g[k] \o t

\* The fields of the first entries begin the fields of all.
LEMMA Remains ==
    ASSUME NEW m \in Seq(Entries), NEW n \in 0 .. Len(m), NEW g, Written(g, m, n)
    PROVE  Extended(g, n)
<1>0. Len(m) \in Nat /\ n \in Nat
  BY LenProperties
<1>1. /\ \A k \in 0 .. n : g[k] \in Seq(Nat)
      /\ \A k \in 1 .. n : EntryFields(m[k]) \in Seq(Nat)
                           /\ g[k] = g[k - 1] \o EntryFields(m[k])
  BY WrittenTyped
<1> DEFINE P(k) == \E t \in Seq(Nat) : g[n] = g[k] \o t
           T == {j \in Nat : j <= n => P(n - j)}
<1>2. 0 \in T
  <2>1. g[n] = g[n] \o <<>> /\ <<>> \in Seq(Nat) /\ n - 0 = n
    BY <1>0, <1>1, ConcatEmptySeq
  <2> QED
    BY <2>1
<1>3. ASSUME NEW j \in Nat, j \in T PROVE j + 1 \in T
  <2> SUFFICES ASSUME j + 1 <= n PROVE P(n - (j + 1))
    OBVIOUS
  <2> DEFINE k == n - (j + 1)
  <2>1. k \in 0 .. n /\ k + 1 \in 1 .. n /\ (k + 1) - 1 = k /\ n - j = k + 1
    BY <1>0
  <2>2. P(k + 1)
    BY <1>0, <1>3, <2>1
  <2> HIDE DEF k
  <2>3. PICK t \in Seq(Nat) : g[n] = g[k + 1] \o t
    BY <2>2
  <2> DEFINE e == EntryFields(m[k + 1])
  <2>4. g[k] \in Seq(Nat) /\ e \in Seq(Nat) /\ g[k + 1] = g[k] \o e
    BY <1>1, <2>1
  <2> HIDE DEF e
  <2>5. g[n] = g[k] \o (e \o t) /\ e \o t \in Seq(Nat)
    <3> DEFINE h == g[k]
    <3>1. h \in Seq(Nat) /\ g[n] = (h \o e) \o t
      BY <2>3, <2>4, Zenon
    <3> HIDE DEF h
    <3>2. (h \o e) \o t = h \o (e \o t) /\ e \o t \in Seq(Nat)
      BY <2>4, <3>1, ThreeParts, Zenon
    <3> QED
      BY <3>1, <3>2 DEF h
  <2>6. P(k)
    BY <2>5
  <2> QED
    BY <2>6 DEF k
<1>4. Nat \subseteq T
  <2> HIDE DEF T
  <2> QED
    BY <1>2, <1>3, Induction
<1>5. ASSUME NEW k \in 0 .. n PROVE P(k)
  <2>1. n - k \in T /\ n - k <= n /\ n - (n - k) = k
    <3> HIDE DEF T
    <3> QED
      BY <1>0, <1>4
  <2> HIDE DEF P
  <2> QED
    BY <2>1
<1> QED
  BY <1>5 DEF Extended

\* A manifest as encode writes it: a count, then entry after entry.
LEMMA ManifestWritten ==
    ASSUME NEW m \in Seq(Entries)
    PROVE  \E g : /\ Written(g, m, Len(m)) /\ g[Len(m)] \in Seq(Nat)
                  /\ ManifestFields(m) = <<Len(m)>> \o g[Len(m)]
                  /\ ManifestFields(m) \in Seq(Nat) /\ ManifestFields(m) # <<>>
                  /\ ManifestFields(m)[1] = Len(m) /\ Tail(ManifestFields(m)) = g[Len(m)]
<1> DEFINE n == Len(m)
<1>1. n \in Nat /\ DOMAIN m = 1 .. n /\ n \in 0 .. Len(m)
  BY LenProperties
<1> HIDE DEF n
<1>2. PICK g : ManifestFields(m) = <<Len(m)>> \o g[n] /\ Written(g, m, n)
  BY <1>1, FieldsFolded
<1>3. g[n] \in Seq(Nat)
  <2>1. \A k \in 0 .. n : g[k] \in Seq(Nat)
    BY <1>1, <1>2, WrittenTyped
  <2>2. n \in 0 .. n
    BY <1>1
  <2> QED
    BY <2>1, <2>2
<1> DEFINE r == ManifestFields(m)
           w == g[n]
           p == <<Len(m)>>
<1>4. p \in Seq(Nat) /\ Len(p) = 1 /\ p[1] = Len(m)
  BY <1>1 DEF n
<1>5. r = p \o w /\ w \in Seq(Nat) /\ Len(w) \in Nat
  BY <1>2, <1>3
<1> HIDE DEF r, w, p
<1>6. /\ r \in Seq(Nat) /\ Len(r) = Len(p) + Len(w)
      /\ SubSeq(r, Len(p) + 1, Len(p) + Len(w)) = w /\ \A i \in 1 .. Len(p) : r[i] = p[i]
  BY <1>4, <1>5, Behind
<1>7. Len(r) = 1 + Len(w) /\ SubSeq(r, 2, Len(r)) = w /\ r[1] = Len(m)
  BY <1>4, <1>5, <1>6
<1>8. r # <<>>
  BY <1>5, <1>7, EmptySeq
<1>9. Tail(r) = w
  BY <1>6, <1>7, <1>8, TailIsSubSeq
<1> QED
  BY <1>2, <1>3, <1>6, <1>7, <1>8, <1>9 DEF n, r, w

\* A manifest that was written is read.
LEMMA ManifestRead ==
    ASSUME NEW m \in Seq(Entries), ValidManifest(m)
    PROVE  ReadManifest(ManifestFields(m)) = {m}
<1> DEFINE n == Len(m)
           r == ManifestFields(m)
<1>1. PICK g : /\ Written(g, m, n) /\ g[n] \in Seq(Nat) /\ r \in Seq(Nat) /\ r # <<>>
               /\ r[1] = n /\ Tail(r) = g[n]
  BY ManifestWritten
<1>2. n \in Nat /\ n <= MaxEntries /\ n \in 0 .. Len(m)
  BY LenProperties DEF ValidManifest
<1>3. /\ \A k \in 0 .. n : g[k] \in Seq(Nat)
      /\ \A k \in 1 .. n : /\ m[k] \in Entries /\ EntryFields(m[k]) \in Seq(Nat)
                           /\ g[k] = g[k - 1] \o EntryFields(m[k])
      /\ g[0] = <<>>
  <2> HIDE DEF n, r
  <2> QED
    BY <1>1, <1>2, WrittenTyped
<1>4. \A k \in 0 .. n : \E t \in Seq(Nat) : g[n] = g[k] \o t
  <2>1. Extended(g, n)
    <3> HIDE DEF n, r
    <3> QED
      BY <1>1, <1>2, Remains
  <2> QED
    BY <2>1 DEF Extended
<1> DEFINE B == [read |-> TRUE, entries |-> <<>>, rest |-> Tail(r)]
<1> HIDE DEF r, n
<1>5. PICK f : /\ Reading(f, B, n)
               /\ ReadManifest(r) = IF f[n].read /\ Fits(f[n].rest, 0) /\ ValidManifest(f[n].entries)
                                    THEN {f[n].entries} ELSE {}
  BY <1>1, <1>2, ReadingFolded
<1>6. f[0] = B /\ \A k \in 1 .. n : f[k] = ReadEntry(f[k - 1])
  BY <1>5 DEF Reading
<1> DEFINE P(k) == /\ f[k].read = TRUE /\ f[k].rest \in Seq(Nat) /\ g[n] = g[k] \o f[k].rest
                   /\ f[k].entries \in Seq(Entries) /\ Len(f[k].entries) = k
                   /\ \A i \in 1 .. k : f[k].entries[i] = m[i]
           T == {k \in Nat : k <= n => P(k)}
<1>7. 0 \in T
  <2>1. f[0].read = TRUE /\ f[0].rest = g[n] /\ f[0].entries = <<>>
    BY <1>1, <1>6
  <2>2. g[n] = g[0] \o f[0].rest
    <3> DEFINE w == g[n]
    <3>1. w \in Seq(Nat) /\ g[0] = <<>>
      BY <1>1, <1>3
    <3> HIDE DEF w
    <3>2. <<>> \o w = w
      BY <3>1, ConcatEmptySeq
    <3> QED
      BY <2>1, <3>1, <3>2 DEF w
  <2>3. <<>> \in Seq(Entries) /\ Len(<<>>) = 0
    OBVIOUS
  <2>4. P(0)
    <3>1. \A i \in 1 .. 0 : f[0].entries[i] = m[i]
      OBVIOUS
    <3>2. f[0].rest \in Seq(Nat)
      BY <1>1, <2>1
    <3>3. f[0].entries \in Seq(Entries) /\ Len(f[0].entries) = 0
      BY <2>1, <2>3
    <3> QED
      BY <2>1, <2>2, <3>1, <3>2, <3>3
  <2> HIDE DEF P
  <2> QED
    BY <2>4
<1>8. ASSUME NEW k \in Nat, k \in T PROVE k + 1 \in T
  <2> SUFFICES ASSUME k + 1 <= n PROVE P(k + 1)
    <3> HIDE DEF P
    <3> QED
      OBVIOUS
  <2>1. k \in 0 .. n /\ k + 1 \in 1 .. n /\ k + 1 \in 0 .. n /\ (k + 1) - 1 = k
    BY <1>2
  <2>2. P(k)
    <3> HIDE DEF P
    <3> QED
      BY <1>2, <1>8, <2>1
  <2> DEFINE a == f[k]
             e == m[k + 1]
             ef == EntryFields(e)
  <2>3. /\ e \in Entries /\ ef \in Seq(Nat) /\ g[k + 1] = g[k] \o ef /\ g[k] \in Seq(Nat)
    BY <1>3, <2>1
  <2>4. PICK t \in Seq(Nat) : g[n] = g[k + 1] \o t
    BY <1>4, <2>1
  <2>5. g[k] \o a.rest = g[k] \o (ef \o t)
    <3> DEFINE h == g[k]
    <3>1. h \in Seq(Nat) /\ ef \in Seq(Nat) /\ g[n] = (h \o ef) \o t /\ g[n] = h \o a.rest
      <4> HIDE DEF ef
      <4> QED
        BY <2>2, <2>3, <2>4, Zenon
    <3> HIDE DEF ef, h, a
    <3>2. (h \o ef) \o t = h \o (ef \o t)
      BY <2>4, <3>1, ThreeParts, Zenon
    <3> QED
      BY <3>1, <3>2 DEF h
  <2>6. a.rest = ef \o t
    <3>1. ef \o t \in Seq(Nat) /\ a.rest \in Seq(Nat)
      BY <2>2, <2>3, <2>4, ConcatProperties
    <3> DEFINE h == g[k]
               x == a.rest
               y == ef \o t
    <3>2. h \in Seq(Nat) /\ x \in Seq(Nat) /\ y \in Seq(Nat) /\ h \o x = h \o y
      BY <2>3, <2>5, <3>1
    <3> HIDE DEF h, x, y
    <3>3. x = y
      BY <3>2, Remainder
    <3> QED
      BY <3>3 DEF x, y
  <2>7. f[k + 1] = ReadEntry(a)
    BY <1>6, <2>1
  <2>8. ReadEntry(a) = [read |-> TRUE, rest |-> t, entries |-> Append(a.entries, e)]
    <3>1. a.read = TRUE
      BY <2>2
    <3> HIDE DEF a, e
    <3> QED
      BY <2>3, <2>4, <2>6, <3>1, EntryRead DEF ef
  <2>9. f[k + 1].read = TRUE /\ f[k + 1].rest = t /\ f[k + 1].entries = Append(a.entries, e)
    BY <2>7, <2>8
  <2> DEFINE s == a.entries
  <2>10. /\ Append(s, e) \in Seq(Entries) /\ Len(Append(s, e)) = k + 1
         /\ \A i \in 1 .. k : Append(s, e)[i] = m[i]
         /\ Append(s, e)[k + 1] = m[k + 1]
    <3>1. s \in Seq(Entries) /\ Len(s) = k /\ \A i \in 1 .. k : s[i] = m[i]
      BY <2>2
    <3>2. /\ Append(s, e) \in Seq(Entries) /\ Len(Append(s, e)) = Len(s) + 1
          /\ \A i \in 1.. Len(s) : Append(s, e)[i] = s[i]
          /\ Append(s, e)[Len(s) + 1] = e
      <4> HIDE DEF s, e
      <4> QED
        BY <2>3, <3>1, AppendProperties
    <3> QED
      BY <3>1, <3>2
  <2>11. \A i \in 1 .. k + 1 : i \in 1 .. k \/ i = k + 1
    OBVIOUS
  <2> HIDE DEF s, e
  <2> QED
    BY <2>4, <2>9, <2>10, <2>11 DEF s
<1>9. Nat \subseteq T
  <2> HIDE DEF T
  <2> QED
    BY <1>7, <1>8, Induction
<1>10. P(n)
  <2> HIDE DEF P
  <2> QED
    BY <1>2, <1>9
<1>11. f[n].entries = m
  <2>1. Len(m) = n
    BY DEF n
  <2> QED
    BY <1>10, <2>1, SeqEqual
<1>12. f[n].rest = <<>>
  <2>1. g[n] = g[n] \o f[n].rest /\ f[n].rest \in Seq(Nat)
    BY <1>10
  <2> DEFINE w == g[n]
             x == f[n].rest
  <2>2. w \in Seq(Nat) /\ x \in Seq(Nat) /\ w = w \o x
    BY <1>1, <2>1
  <2> HIDE DEF w, x
  <2>3. w \o <<>> = w \o x /\ <<>> \in Seq(Nat)
    BY <2>2, ConcatEmptySeq
  <2>4. x = <<>>
    BY <2>2, <2>3, Remainder
  <2> QED
    BY <2>4 DEF x
<1> QED
  BY <1>5, <1>10, <1>11, <1>12 DEF Fits, r

\* A manifest that is read was written so.
LEMMA ManifestReadBack ==
    ASSUME NEW r \in Seq(Nat), NEW m \in ReadManifest(r)
    PROVE  m \in Seq(Entries) /\ ValidManifest(m) /\ ManifestFields(m) = r
<1> DEFINE n == r[1]
           B == [read |-> TRUE, entries |-> <<>>, rest |-> Tail(r)]
<1>0. r # <<>> /\ ~(n > MaxEntries)
  <2> SUFFICES ASSUME r = <<>> \/ n > MaxEntries PROVE ReadManifest(r) = {}
    OBVIOUS
  <2> QED
    BY DEF ReadManifest
<1>2. n \in Nat /\ Tail(r) \in Seq(Nat)
  <2>1. 1 \in 1 .. Len(r)
    BY <1>0, EmptySeq
  <2> QED
    BY <1>0, <2>1, ElementOfSeq, HeadTailProperties
<1>1. r # <<>> /\ n <= MaxEntries
  BY <1>0, <1>2, Numbers
<1>3. PICK f : /\ Reading(f, B, n)
               /\ ReadManifest(r) = IF f[n].read /\ Fits(f[n].rest, 0) /\ ValidManifest(f[n].entries)
                                    THEN {f[n].entries} ELSE {}
  BY <1>1, <1>2, ReadingFolded
<1>4. /\ f[n].read /\ Fits(f[n].rest, 0) /\ ValidManifest(m) /\ m = f[n].entries
  BY <1>3
<1>5. f[0] = B /\ \A k \in 1 .. n : f[k] = ReadEntry(f[k - 1])
  BY <1>3 DEF Reading
<1> DEFINE E == f[0]
           Fs(k, h) == Written(h, f[k].entries, k) => Tail(r) = h[k] \o f[k].rest
           P(k) == f[k].read => /\ f[k].rest \in Seq(Nat) /\ f[k].entries \in Seq(Entries)
                                /\ Len(f[k].entries) = k
                                /\ \A h : Fs(k, h)
           T == {k \in Nat : k <= n => P(k)}
<1> HIDE DEF n
<1>6. 0 \in T
  <2>1. f[0].rest = Tail(r) /\ f[0].entries = <<>>
    BY <1>5
  <2>2. <<>> \in Seq(Entries) /\ Len(<<>>) = 0
    OBVIOUS
  <2>3. \A h : Fs(0, h)
    <3> SUFFICES ASSUME NEW h, Written(h, f[0].entries, 0) PROVE Tail(r) = h[0] \o f[0].rest
      OBVIOUS
    <3>1. h[0] = <<>>
      BY DEF Written
    <3> QED
      BY <1>2, <2>1, <3>1, ConcatEmptySeq
  <2>4. P(0)
    <3> HIDE DEF Fs
    <3> QED
      BY <1>2, <2>1, <2>2, <2>3
  <2> HIDE DEF P
  <2> QED
    BY <2>4
<1>7. ASSUME NEW k \in Nat, k \in T PROVE k + 1 \in T
  <2> SUFFICES ASSUME k + 1 <= n, f[k + 1].read PROVE P(k + 1)
    <3> HIDE DEF Fs
    <3> QED
      OBVIOUS
  <2>1. k <= n /\ k + 1 \in 1 .. n /\ (k + 1) - 1 = k
    BY <1>2
  <2> DEFINE a == f[k]
             b == f[k + 1]
  <2>2. b = ReadEntry(a)
    BY <1>5, <2>1
  <2>3. P(k)
    <3> HIDE DEF P
    <3> QED
      BY <1>7, <2>1
  <2>4. \A x : ReadEntry(x).read => x.read
    <3> SUFFICES ASSUME NEW x, ~x.read PROVE ~ReadEntry(x).read
      OBVIOUS
    <3>1. ReadEntry(x) = BadManifest
      BY DEF ReadEntry
    <3> QED
      BY <3>1 DEF BadManifest
  <2>5. a.read
    <3> HIDE DEF a
    <3> QED
      BY <2>2, <2>4
  <2>6. /\ a.rest \in Seq(Nat) /\ a.entries \in Seq(Entries) /\ Len(a.entries) = k
        /\ \A h : Fs(k, h)
    <3> HIDE DEF Fs
    <3> QED
      BY <2>3, <2>5
  <2>7. PICK e \in Entries : /\ b.rest \in Seq(Nat) /\ b.entries = Append(a.entries, e)
                             /\ a.rest = EntryFields(e) \o b.rest
    <3> HIDE DEF a
    <3> QED
      BY <2>2, <2>6, EntryReadBack
  <2> DEFINE s == a.entries
             u == b.entries
  <2>8. /\ u \in Seq(Entries) /\ Len(u) = k + 1
        /\ \A i \in 1 .. k : u[i] = s[i]
        /\ u[k + 1] = e
    <3>1. s \in Seq(Entries) /\ Len(s) = k /\ u = Append(s, e)
      BY <2>6, <2>7
    <3> HIDE DEF s, u
    <3> QED
      BY <3>1, AppendProperties
  <2>9. ASSUME NEW h, Written(h, u, k + 1) PROVE Tail(r) = h[k + 1] \o b.rest
    <3>1. h[0] = <<>> /\ \A i \in 1 .. k + 1 : h[i] = h[i - 1] \o EntryFields(u[i])
      BY <2>9 DEF Written
    <3>2. \A i \in 1 .. k : h[i] = h[i - 1] \o EntryFields(s[i])
      <4> SUFFICES ASSUME NEW i \in 1 .. k PROVE h[i] = h[i - 1] \o EntryFields(s[i])
        OBVIOUS
      <4>1. i \in 1 .. k + 1
        OBVIOUS
      <4>2. u[i] = s[i]
        BY <2>8
      <4> HIDE DEF s, u
      <4> QED
        BY <3>1, <4>1, <4>2
    <3>3. Written(h, s, k)
      BY <3>1, <3>2 DEF Written
    <3>4. Tail(r) = h[k] \o a.rest
      BY <2>6, <3>3
    <3>5. h[k] \in Seq(Nat)
      <4>1. k \in 0 .. Len(s) /\ s \in Seq(Entries) /\ k \in 0 .. k
        BY <2>6
      <4> HIDE DEF s
      <4> QED
        BY <3>3, <4>1, WrittenTyped
    <3>6. h[k + 1] = h[k] \o EntryFields(e)
      <4>1. k + 1 \in 1 .. k + 1 /\ (k + 1) - 1 = k
        OBVIOUS
      <4> HIDE DEF u
      <4> QED
        BY <2>8, <3>1, <4>1
    <3>7. EntryFields(e) \in Seq(Nat) /\ b.rest \in Seq(Nat)
      BY <2>7, EntryWritten
    <3> DEFINE x == h[k]
               y == EntryFields(e)
               z == b.rest
    <3>8. /\ x \in Seq(Nat) /\ y \in Seq(Nat) /\ z \in Seq(Nat)
          /\ Tail(r) = x \o (y \o z) /\ h[k + 1] = x \o y
      <4> HIDE DEF a, b
      <4>1. Tail(r) = x \o a.rest /\ a.rest = y \o z
        BY <2>7, <3>4
      <4>2. Tail(r) = x \o (y \o z)
        BY <4>1, Zenon
      <4> QED
        BY <3>5, <3>6, <3>7, <4>2, Zenon
    <3> HIDE DEF a, x, y, z
    <3>9. (x \o y) \o z = x \o (y \o z)
      BY <3>8, ThreeParts, Zenon
    <3> QED
      BY <3>8, <3>9 DEF z
  <2>10. \A h : Fs(k + 1, h)
    BY <2>9
  <2> HIDE DEF Fs, s
  <2> QED
    BY <2>7, <2>8, <2>10
<1>8. Nat \subseteq T
  <2> HIDE DEF T
  <2> QED
    BY <1>6, <1>7, Induction
<1>9. P(n)
  <2> HIDE DEF P
  <2> QED
    BY <1>2, <1>8
<1>10. m \in Seq(Entries) /\ Len(m) = n /\ f[n].rest \in Seq(Nat)
  <2> HIDE DEF Fs
  <2> QED
    BY <1>4, <1>9
<1>11. f[n].rest = <<>>
  BY <1>4, <1>10, EmptySeq DEF Fits
<1>12. PICK g : /\ Written(g, m, Len(m)) /\ g[Len(m)] \in Seq(Nat)
                /\ ManifestFields(m) = <<Len(m)>> \o g[Len(m)]
  BY <1>10, ManifestWritten
<1>13. Tail(r) = g[n]
  <2>1. Fs(n, g)
    <3> HIDE DEF Fs
    <3> QED
      BY <1>4, <1>9
  <2>2. Tail(r) = g[n] \o f[n].rest
    BY <1>4, <1>10, <1>12, <2>1
  <2> QED
    BY <1>10, <1>11, <1>12, <2>2, ConcatEmptySeq
<1>14. r = <<n>> \o Tail(r)
  <2>1. Len(r) \in Nat /\ 1 \in 1 .. Len(r)
    BY <1>1, EmptySeq
  <2>2. SubSeq(r, 1, Len(r)) = <<r[1]>> \o SubSeq(r, 2, Len(r))
    <3>1. Len(r) \in 1 .. Len(r) /\ 1 + 1 = 2
      BY <2>1
    <3> QED
      BY <2>1, <3>1, SubSeqRecursiveFirst
  <2> QED
    BY <1>1, <2>2, SubSeqFull, TailIsSubSeq DEF n
<1> QED
  BY <1>4, <1>10, <1>12, <1>13, <1>14

(***************************************************************************)
(* Messages with a manifest.                                               *)
(***************************************************************************)
ManifestMessages == [op : {"manifest"}, manifest : Seq(Entries)]
StartMessages == [op : {"start"}, push : BOOLEAN, options : Options, path : Nat,
                  manifest : Seq(Entries)]

\* Three bits are packed in a byte: each is read back, and a byte below eight is
\* the flags of what is read from it.
LEMMA FlagsRead ==
    /\ \A o \in Options : Flags(o) \in 0 .. 7 /\ OptionsOf(Flags(o)) = o
    /\ \A f \in 0 .. 7 : OptionsOf(f) \in Options /\ Flags(OptionsOf(f)) = f
<1>1. ASSUME NEW a \in BOOLEAN, NEW b \in BOOLEAN, NEW c \in BOOLEAN
      PROVE  LET f == Bit(a) + 2 * Bit(b) + 4 * Bit(c) IN
             /\ f \in 0 .. 7
             /\ OptionsOf(f) = [delete |-> a, checksum |-> b, dryRun |-> c]
  <2>1. Bit(a) \in 0 .. 1 /\ Bit(b) \in 0 .. 1 /\ Bit(c) \in 0 .. 1
    BY DEF Bit
  <2>2. (Bit(a) = 1) = a /\ (Bit(b) = 1) = b /\ (Bit(c) = 1) = c
    BY DEF Bit
  <2>3. \A x, y, z \in 0 .. 1 : LET f == x + 2 * y + 4 * z IN
          f \in 0 .. 7 /\ f % 2 = x /\ (f \div 2) % 2 = y /\ f \div 4 = z
    OBVIOUS
  <2> DEFINE x == Bit(a)
             y == Bit(b)
             z == Bit(c)
             f == x + 2 * y + 4 * z
  <2>4. f \in 0 .. 7 /\ f % 2 = x /\ (f \div 2) % 2 = y /\ f \div 4 = z
    BY <2>1, <2>3
  <2> HIDE DEF f
  <2>5. OptionsOf(f) = [delete |-> a, checksum |-> b, dryRun |-> c]
    BY <2>2, <2>4 DEF OptionsOf
  <2> QED
    BY <2>4, <2>5 DEF f
<1>2. ASSUME NEW o \in Options PROVE Flags(o) \in 0 .. 7 /\ OptionsOf(Flags(o)) = o
  <2>1. /\ o.delete \in BOOLEAN /\ o.checksum \in BOOLEAN /\ o.dryRun \in BOOLEAN
        /\ o = [delete |-> o.delete, checksum |-> o.checksum, dryRun |-> o.dryRun]
    BY DEF Options
  <2> QED
    BY <1>1, <2>1 DEF Flags
<1>3. ASSUME NEW f \in 0 .. 7 PROVE OptionsOf(f) \in Options /\ Flags(OptionsOf(f)) = f
  <2> DEFINE a == f % 2 = 1
             b == (f \div 2) % 2 = 1
             c == f \div 4 = 1
  <2>1. OptionsOf(f) = [delete |-> a, checksum |-> b, dryRun |-> c]
    BY DEF OptionsOf
  <2>2. Bit(a) = f % 2 /\ Bit(b) = (f \div 2) % 2 /\ Bit(c) = f \div 4
    BY DEF Bit
  <2>3. f = (f % 2) + 2 * ((f \div 2) % 2) + 4 * (f \div 4)
    OBVIOUS
  <2>4. Flags(OptionsOf(f)) = Bit(a) + 2 * Bit(b) + 4 * Bit(c)
    <3> HIDE DEF a, b, c
    <3> QED
      BY <2>1 DEF Flags
  <2> QED
    BY <2>1, <2>2, <2>3, <2>4 DEF Options
<1> QED
  BY <1>2, <1>3

\* What encode writes of a manifest, decode reads.
LEMMA ManifestCarried ==
    ASSUME NEW m \in ManifestMessages, NEW v \in Nat, Encode(v, m) # <<>>
    PROVE  Decode(v, Encode(v, m)) = {m}
<1> DEFINE r == Body(m)
           d == Decode(v, Encode(v, m))
           x == m.manifest
<1>1. m.op = "manifest" /\ x \in Seq(Entries)
  BY DEF ManifestMessages
<1>2. r = ManifestFields(x)
  BY <1>1 DEF Body
<1>3. r \in Seq(Nat)
  <2> HIDE DEF r, x
  <2> QED
    BY <1>1, <1>2, ManifestWritten
<1>4. m.op \in {Ops[t] : t \in 1 .. 20}
  BY <1>1 DEF Ops
<1>5. /\ Encodable(m)
      /\ d = IF TagOf(m.op) <= 9 THEN ReadCommon(m.op, r)
             ELSE IF r = <<>> \/ ~FileIndex(r[1]) THEN {} ELSE ReadChunks(m.op, r)
  BY <1>3, <1>4, Framed
<1>6. ValidManifest(x)
  BY <1>1, <1>5 DEF Encodable
<1>7. TagOf(m.op) <= 9
  BY <1>1, TagsOfOps DEF Ops
<1> HIDE DEF d, r, x
<1>8. ReadManifest(r) = {x}
  BY <1>1, <1>2, <1>6, ManifestRead
<1>9. ReadCommon("manifest", r) = {Message("manifest", [manifest |-> y]) : y \in ReadManifest(r)}
  BY DEF ReadCommon
<1>10. Message("manifest", [manifest |-> x]) = m
  BY DEF Message, ManifestMessages, x
<1> QED
  BY <1>1, <1>5, <1>7, <1>8, <1>9, <1>10 DEF d

\* What encode writes of a START, decode reads.
LEMMA StartCarried ==
    ASSUME NEW m \in StartMessages, NEW v \in Nat, Encode(v, m) # <<>>
    PROVE  Decode(v, Encode(v, m)) = {m}
<1> DEFINE r == Body(m)
           d == Decode(v, Encode(v, m))
           x == m.manifest
           b == Bit(m.push)
           f == Flags(m.options)
           p == <<b, f, m.path>>
           s == ManifestFields(x)
<1>1. /\ m.op = "start" /\ x \in Seq(Entries) /\ m.push \in BOOLEAN /\ m.options \in Options
      /\ m.path \in Nat
  BY DEF StartMessages
<1>2. r = p \o s
  BY <1>1 DEF Body
<1>3. b \in 0 .. 1 /\ (b = 1) = m.push
  BY <1>1 DEF Bit
<1>4. f \in 0 .. 7 /\ OptionsOf(f) = m.options
  BY <1>1, FlagsRead
<1>5. s \in Seq(Nat)
  <2> HIDE DEF x
  <2> QED
    BY <1>1, ManifestWritten
<1> HIDE DEF f, b
<1>6. p \in Seq(Nat) /\ Len(p) = 3 /\ p[1] = b /\ p[2] = f /\ p[3] = m.path
  BY <1>1, <1>3, <1>4
<1> HIDE DEF p, s, r
<1>7. /\ r \in Seq(Nat) /\ Len(r) = Len(p) + Len(s)
      /\ SubSeq(r, Len(p) + 1, Len(p) + Len(s)) = s
      /\ \A i \in 1 .. Len(p) : r[i] = p[i]
  BY <1>2, <1>5, <1>6, Behind
<1>8. /\ ~(Len(r) < 3) /\ SubSeq(r, 4, Len(r)) = s /\ r[1] = b /\ r[2] = f /\ r[3] = m.path
  <2>1. Len(s) \in Nat
    BY <1>5
  <2> QED
    BY <1>6, <1>7, <2>1
<1>9. m.op \in {Ops[t] : t \in 1 .. 20}
  BY <1>1 DEF Ops
<1>10. /\ Encodable(m)
       /\ d = IF TagOf(m.op) <= 9 THEN ReadCommon(m.op, r)
              ELSE IF r = <<>> \/ ~FileIndex(r[1]) THEN {} ELSE ReadChunks(m.op, r)
  BY <1>7, <1>9, Framed DEF r
<1>11. m.path <= MaxPath /\ ValidManifest(x)
  BY <1>1, <1>10 DEF Encodable
<1>12. TagOf(m.op) <= 9
  BY <1>1, TagsOfOps DEF Ops
<1> HIDE DEF d, x
<1>13. ReadManifest(s) = {x}
  BY <1>1, <1>11, ManifestRead DEF s
<1> DEFINE M(y) == Message("start", [push |-> r[1] = 1, options |-> OptionsOf(r[2]),
                                     path |-> r[3], manifest |-> y])
<1>14. ReadCommon("start", r) =
         IF Len(r) < 3 \/ r[1] > 1 \/ r[2] > 7 \/ r[3] > MaxPath THEN {}
         ELSE {M(y) : y \in ReadManifest(SubSeq(r, 4, Len(r)))}
  BY DEF ReadCommon
<1>15. ~(Len(r) < 3 \/ r[1] > 1 \/ r[2] > 7 \/ r[3] > MaxPath)
  BY <1>1, <1>3, <1>4, <1>8, <1>11, Numbers
<1>16. M(x) = m
  <2>1. M(x) = Message("start", [push |-> m.push, options |-> m.options,
                                 path |-> m.path, manifest |-> x])
    BY <1>3, <1>4, <1>8
  <2> QED
    BY <2>1 DEF Message, StartMessages, x
<1> HIDE DEF M
<1>17. ReadCommon("start", r) = {m}
  BY <1>8, <1>13, <1>14, <1>15, <1>16
<1> QED
  BY <1>1, <1>10, <1>12, <1>17 DEF d

\* Every message the codec has a layout for, whatever its fields.
Wireable == Fixed \cup HashTables \cup MissingLists \cup ManifestMessages \cup StartMessages

\* The round trip: what encode lets pass, decode reads as the same message.
LEMMA Carries ==
    ASSUME NEW m \in Wireable, NEW v \in Nat, Encode(v, m) # <<>>
    PROVE  Decode(v, Encode(v, m)) = {m}
BY FixedCarried, HashesCarried, MissingCarried, ManifestCarried, StartCarried DEF Wireable

(***************************************************************************)
(* What is read was written so.                                            *)
(***************************************************************************)
LEMMA Unframed ==
    ASSUME NEW v \in {1, 2}, NEW w \in Seq(Nat), NEW m \in Decode(v, w)
    PROVE  LET t == w[2]
               r == SubSeq(w, 3, Len(w))
           IN  /\ t \in 1 .. 20 /\ Speaks(v, t) /\ Len(w) <= MaxControl /\ Len(w) >= 2
               /\ w[1] = v /\ r \in Seq(Nat) /\ w = <<v, t>> \o r
               /\ t <= 9 => m \in ReadCommon(Ops[t], r)
               /\ t > 9 => r # <<>> /\ FileIndex(r[1]) /\ m \in ReadChunks(Ops[t], r)
<1> DEFINE t == w[2]
           r == SubSeq(w, 3, Len(w))
<1>1. Len(w) \in Nat /\ \A i \in 1 .. Len(w) : w[i] \in Nat
  BY ElementOfSeq
<1>2. Decode(v, w) = IF Len(w) > MaxControl \/ Len(w) < 2 THEN {} ELSE
         IF w[1] # v \/ ~Speaks(v, t) THEN {}
         ELSE IF t <= 9 THEN ReadCommon(Ops[t], r)
         ELSE IF r = <<>> \/ ~FileIndex(r[1]) THEN {}
         ELSE ReadChunks(Ops[t], r)
  BY DEF Decode
<1> HIDE DEF r
<1>3. ~(Len(w) > MaxControl) /\ ~(Len(w) < 2) /\ w[1] = v /\ Speaks(v, t)
  BY <1>2
<1>4. Len(w) <= MaxControl /\ Len(w) >= 2 /\ t \in Nat
  BY <1>1, <1>3, Numbers
<1>5. t \in 1 .. 20
  BY <1>3, <1>4 DEF Speaks, CommonTag
<1>6. /\ t <= 9 => m \in ReadCommon(Ops[t], r)
      /\ t > 9 => r # <<>> /\ FileIndex(r[1]) /\ m \in ReadChunks(Ops[t], r)
  <2>1. CASE t <= 9
    BY <1>2, <1>3, <1>5, <2>1
  <2>2. CASE ~(t <= 9)
    BY <1>2, <1>3, <1>5, <2>2
  <2> QED
    BY <1>5, <2>1, <2>2
<1>7. r \in Seq(Nat) /\ w = <<v, t>> \o r
  <2> DEFINE p == SubSeq(w, 1, 2)
  <2>1. 2 \in 0 .. Len(w)
    BY <1>1, <1>4
  <2>2. /\ p \in Seq(Nat) /\ SubSeq(w, 2 + 1, Len(w)) \in Seq(Nat) /\ Len(p) = 2
        /\ \A i \in 1 .. 2 : p[i] = w[i]
        /\ p \o SubSeq(w, 2 + 1, Len(w)) = w
    BY <2>1, Parted
  <2> HIDE DEF p
  <2>3. p = <<v, t>>
    <3>1. p = <<p[1], p[2]>>
      BY <2>2, Tuples
    <3> QED
      BY <1>3, <2>2, <3>1
  <2>4. 2 + 1 = 3
    OBVIOUS
  <2> QED
    BY <2>2, <2>3, <2>4 DEF r
<1> QED
  BY <1>3, <1>4, <1>5, <1>6, <1>7 DEF r

\* A message that may stand on the wire with fields r behind tag t.
Back(m, t, r) == m \in Wireable /\ m.op = Ops[t] /\ Body(m) = r /\ Encodable(m)

\* The operations of version 1 and those both versions have.
LEMMA CommonBack ==
    ASSUME NEW t \in 1 .. 9, NEW r \in Seq(Nat), NEW m \in ReadCommon(Ops[t], r)
    PROVE  Back(m, t, r)
<1> DEFINE op == Ops[t]
<1>0. /\ Len(r) \in Nat /\ \A i \in 1 .. Len(r) : r[i] \in Nat
      /\ Len(r) = 0 => r = <<>>
      /\ Len(r) = 1 => r = <<r[1]>>
      /\ Len(r) = 2 => r = <<r[1], r[2]>>
  BY ElementOfSeq, Tuples
<1>1. t \in {1, 2, 3, 4, 5, 6, 7, 8, 9}
  OBVIOUS
<1>2. CASE t = 1
  <2>1. op = "start"
    BY <1>2 DEF Ops
  <2> DEFINE s == SubSeq(r, 4, Len(r))
             M(y) == Message("start", [push |-> r[1] = 1, options |-> OptionsOf(r[2]),
                                       path |-> r[3], manifest |-> y])
  <2>2. ReadCommon("start", r) =
         IF Len(r) < 3 \/ r[1] > 1 \/ r[2] > 7 \/ r[3] > MaxPath THEN {}
         ELSE {M(y) : y \in ReadManifest(s)}
    BY DEF ReadCommon
  <2> HIDE DEF M, s
  <2>3. ~(Len(r) < 3) /\ ~(r[1] > 1) /\ ~(r[2] > 7) /\ ~(r[3] > MaxPath)
    BY <2>1, <2>2
  <2>4. PICK y \in ReadManifest(s) : m = M(y)
    BY <2>1, <2>2, <2>3
  <2>5. Len(r) >= 3 /\ r[1] \in Nat /\ r[2] \in Nat /\ r[3] \in Nat
    BY <1>0, <2>3
  <2>6. r[1] \in 0 .. 1 /\ r[2] \in 0 .. 7 /\ r[3] <= MaxPath
    <3> DEFINE a == r[1]
               b == r[2]
               c == r[3]
    <3>1. a \in Nat /\ b \in Nat /\ c \in Nat /\ ~(a > 1) /\ ~(b > 7) /\ ~(c > MaxPath)
      BY <2>3, <2>5
    <3> HIDE DEF a, b, c
    <3>2. a \in 0 .. 1 /\ b \in 0 .. 7 /\ c <= MaxPath
      BY <3>1, Numbers
    <3> QED
      BY <3>2 DEF a, b, c
  <2> DEFINE p == SubSeq(r, 1, 3)
  <2>7. p \in Seq(Nat) /\ s \in Seq(Nat) /\ p = <<r[1], r[2], r[3]>> /\ p \o s = r
    <3>1. 3 \in 0 .. Len(r)
      BY <1>0, <2>5
    <3>2. /\ p \in Seq(Nat) /\ SubSeq(r, 3 + 1, Len(r)) \in Seq(Nat) /\ Len(p) = 3
          /\ \A i \in 1 .. 3 : p[i] = r[i]
          /\ p \o SubSeq(r, 3 + 1, Len(r)) = r
      BY <3>1, Parted
    <3> HIDE DEF p
    <3>3. p = <<p[1], p[2], p[3]>>
      BY <3>2, Tuples
    <3>4. 3 + 1 = 4
      OBVIOUS
    <3> QED
      BY <3>2, <3>3, <3>4 DEF s
  <2>8. y \in Seq(Entries) /\ ValidManifest(y) /\ ManifestFields(y) = s
    BY <2>4, <2>7, ManifestReadBack
  <2>9. OptionsOf(r[2]) \in Options /\ Flags(OptionsOf(r[2])) = r[2]
    BY <2>6, FlagsRead
  <2>10. Bit(r[1] = 1) = r[1]
    BY <2>6 DEF Bit
  <2>11. /\ m.op = "start" /\ m.push = (r[1] = 1) /\ m.options = OptionsOf(r[2])
         /\ m.path = r[3] /\ m.manifest = y /\ m \in StartMessages
    <3>1. M(y) \in StartMessages
      BY <2>5, <2>8, <2>9 DEF StartMessages, M, Message
    <3> QED
      BY <2>4, <3>1 DEF M, Message
  <2>12. Body(m) = <<r[1], r[2], r[3]>> \o s
    BY <2>8, <2>9, <2>10, <2>11 DEF Body
  <2>13. Encodable(m)
    BY <2>6, <2>8, <2>11 DEF Encodable
  <2> HIDE DEF p
  <2> QED
    BY <2>1, <2>7, <2>11, <2>12, <2>13 DEF Back, Wireable
<1>3. CASE t = 2
  <2>1. op = "manifest"
    BY <1>3 DEF Ops
  <2>2. ReadCommon("manifest", r) = {Message("manifest", [manifest |-> y]) : y \in ReadManifest(r)}
    BY DEF ReadCommon
  <2>3. PICK y \in ReadManifest(r) : m = Message("manifest", [manifest |-> y])
    BY <2>1, <2>2
  <2>4. y \in Seq(Entries) /\ ValidManifest(y) /\ ManifestFields(y) = r
    BY <2>3, ManifestReadBack
  <2>5. m.op = "manifest" /\ m.manifest = y /\ m \in ManifestMessages
    BY <2>3, <2>4 DEF ManifestMessages, Message
  <2>6. Body(m) = r /\ Encodable(m)
    BY <2>4, <2>5 DEF Body, Encodable
  <2> QED
    BY <2>1, <2>5, <2>6 DEF Back, Wireable
<1>4. CASE t \in {3, 5, 6}
  <2>1. op \in {"begin", "get", "verified"}
    BY <1>4 DEF Ops
  <2> HIDE DEF op
  <2>2. ReadCommon(op, r) = When(Fits(r, 1), [op |-> op, index |-> r[1]])
    BY <2>1 DEF ReadCommon
  <2>3. Len(r) = 1 /\ m = [op |-> op, index |-> r[1]]
    BY <2>2 DEF When, Fits, op
  <2>4. m \in Indexed /\ Body(m) = <<r[1]>> /\ Encodable(m)
    BY <1>0, <2>1, <2>3 DEF Indexed, Body, Encodable
  <2> QED
    BY <1>0, <2>3, <2>4 DEF Back, Wireable, Fixed, op
<1>5. CASE t = 4
  <2>1. op = "commit"
    BY <1>5 DEF Ops
  <2>2. ReadCommon("commit", r) =
          When(Fits(r, 2), [op |-> "commit", index |-> r[1], resource |-> r[2]])
    BY DEF ReadCommon
  <2>3. Len(r) = 2 /\ m = [op |-> "commit", index |-> r[1], resource |-> r[2]]
    BY <2>1, <2>2 DEF When, Fits
  <2>4. m \in Commits /\ Body(m) = <<r[1], r[2]>> /\ Encodable(m)
    BY <1>0, <2>3 DEF Commits, Body, Encodable
  <2> QED
    BY <1>0, <2>1, <2>3, <2>4 DEF Back, Wireable, Fixed
<1>6. CASE t \in {7, 8}
  <2>1. op \in {"finish", "ok"}
    BY <1>6 DEF Ops
  <2> HIDE DEF op
  <2>2. ReadCommon(op, r) = When(Fits(r, 0), [op |-> op])
    BY <2>1 DEF ReadCommon
  <2>3. Len(r) = 0 /\ m = [op |-> op]
    BY <2>2 DEF When, Fits, op
  <2>4. m \in Bare /\ Body(m) = <<>> /\ Encodable(m)
    BY <2>1, <2>3 DEF Bare, Body, Encodable
  <2> QED
    BY <1>0, <2>3, <2>4 DEF Back, Wireable, Fixed, op
<1>7. CASE t = 9
  <2>1. op = "error"
    BY <1>7 DEF Ops
  <2>2. ReadCommon("error", r) =
          When(Fits(r, 2) /\ r[2] <= MaxPath /\ r[2] <= MaxText,
               [op |-> "error", code |-> r[1], text |-> r[2]])
    BY DEF ReadCommon
  <2>3. /\ Len(r) = 2 /\ r[2] <= MaxPath /\ r[2] <= MaxText
        /\ m = [op |-> "error", code |-> r[1], text |-> r[2]]
    BY <2>1, <2>2 DEF When, Fits
  <2>4. m \in Errors /\ Body(m) = <<r[1], r[2]>> /\ Encodable(m)
    BY <1>0, <2>3, Numbers DEF Errors, Body, Encodable
  <2> QED
    BY <1>0, <2>1, <2>3, <2>4 DEF Back, Wireable, Fixed
<1> QED
  BY <1>1, <1>2, <1>3, <1>4, <1>5, <1>6, <1>7

\* The counted tables of version 2.
LEMMA PagesBack ==
    ASSUME NEW t \in {12, 20}, NEW r \in Seq(Nat), FileIndex(r[1]), r # <<>>,
           NEW m \in ReadPages(Ops[t], r)
    PROVE  Back(m, t, r)
<1>0. Len(r) \in Nat /\ \A i \in 1 .. Len(r) : r[i] \in Nat
  BY ElementOfSeq
<1>1. CASE t = 12
  <2>1. Ops[t] = "missing"
    BY <1>1 DEF Ops
  <2> DEFINE k == [op |-> "missing", index |-> r[1], start |-> r[2], count |-> r[3],
                   chunks |-> SubSeq(r, 5, 4 + r[4])]
  <2>2. ReadPages("missing", r) =
         IF Len(r) < 4 \/ r[4] > r[3] \/ ~Fits(r, 4 + r[4]) THEN {}
         ELSE When(ValidMissing(k), k)
    BY DEF ReadPages
  <2> HIDE DEF k
  <2>3. ~(Len(r) < 4) /\ Fits(r, 4 + r[4]) /\ ValidMissing(k) /\ m = k
    BY <2>1, <2>2 DEF When
  <2> DEFINE n == r[4]
             c == SubSeq(r, 5, 4 + n)
             p == SubSeq(r, 1, 4)
  <2>4. n \in Nat /\ r[1] \in Nat /\ r[2] \in Nat /\ r[3] \in Nat /\ Len(r) = 4 + n
    BY <1>0, <2>3 DEF Fits
  <2> HIDE DEF n
  <2>5. /\ c \in Seq(Nat) /\ Len(c) = n /\ p = <<r[1], r[2], r[3], n>> /\ p \o c = r
    <3>1. 4 \in 0 .. Len(r)
      BY <2>4
    <3>2. /\ p \in Seq(Nat) /\ SubSeq(r, 4 + 1, Len(r)) \in Seq(Nat) /\ Len(p) = 4
          /\ Len(SubSeq(r, 4 + 1, Len(r))) = Len(r) - 4
          /\ \A i \in 1 .. 4 : p[i] = r[i]
          /\ p \o SubSeq(r, 4 + 1, Len(r)) = r
      BY <3>1, Parted
    <3>3. 4 + 1 = 5 /\ Len(r) - 4 = n
      BY <2>4
    <3> HIDE DEF p
    <3>4. p = <<p[1], p[2], p[3], p[4]>>
      BY <3>2, Tuples
    <3>5. c = SubSeq(r, 4 + 1, Len(r))
      BY <2>4, <3>3
    <3>6. c \in Seq(Nat) /\ Len(c) = n /\ p \o c = r
      <4> HIDE DEF c
      <4> QED
        BY <3>2, <3>3, <3>5
    <3>7. p = <<r[1], r[2], r[3], n>>
      BY <3>2, <3>4 DEF n
    <3> HIDE DEF c
    <3> QED
      BY <3>6, <3>7
  <2> HIDE DEF c, p
  <2>6. /\ m.op = "missing" /\ m.index = r[1] /\ m.start = r[2] /\ m.count = r[3] /\ m.chunks = c
        /\ m \in MissingLists
    BY <2>3, <2>4, <2>5 DEF k, c, n, MissingLists
  <2>7. Body(m) = <<r[1], r[2], r[3], n>> \o c
    BY <2>5, <2>6 DEF Body
  <2>8. Encodable(m)
    BY <2>3, <2>6 DEF Encodable
  <2> QED
    BY <2>1, <2>5, <2>6, <2>7, <2>8 DEF Back, Wireable
<1>2. CASE t = 20
  <2>1. Ops[t] = "hashes"
    BY <1>2 DEF Ops
  <2> DEFINE k == [op |-> "hashes", index |-> r[1], start |-> r[2],
                   hashes |-> SubSeq(r, 4, 3 + r[3])]
  <2>2. ReadPages("hashes", r) =
        IF Len(r) < 3 \/ ~PageRange(r[2], r[3]) \/ ~Fits(r, 3 + r[3]) THEN {} ELSE {k}
    BY DEF ReadPages
  <2> HIDE DEF k
  <2>3. ~(Len(r) < 3) /\ Fits(r, 3 + r[3]) /\ PageRange(r[2], r[3]) /\ m = k
    BY <2>1, <2>2
  <2> DEFINE n == r[3]
             c == SubSeq(r, 4, 3 + n)
             p == SubSeq(r, 1, 3)
  <2>4. n \in Nat /\ r[1] \in Nat /\ r[2] \in Nat /\ Len(r) = 3 + n
    BY <1>0, <2>3 DEF Fits
  <2> HIDE DEF n
  <2>5. /\ c \in Seq(Nat) /\ Len(c) = n /\ p = <<r[1], r[2], n>> /\ p \o c = r
    <3>1. 3 \in 0 .. Len(r)
      BY <2>4
    <3>2. /\ p \in Seq(Nat) /\ SubSeq(r, 3 + 1, Len(r)) \in Seq(Nat) /\ Len(p) = 3
          /\ Len(SubSeq(r, 3 + 1, Len(r))) = Len(r) - 3
          /\ \A i \in 1 .. 3 : p[i] = r[i]
          /\ p \o SubSeq(r, 3 + 1, Len(r)) = r
      BY <3>1, Parted
    <3>3. 3 + 1 = 4 /\ Len(r) - 3 = n
      BY <2>4
    <3> HIDE DEF p
    <3>4. p = <<p[1], p[2], p[3]>>
      BY <3>2, Tuples
    <3>5. c = SubSeq(r, 3 + 1, Len(r))
      BY <2>4, <3>3
    <3>6. c \in Seq(Nat) /\ Len(c) = n /\ p \o c = r
      <4> HIDE DEF c
      <4> QED
        BY <3>2, <3>3, <3>5
    <3>7. p = <<r[1], r[2], n>>
      BY <3>2, <3>4 DEF n
    <3> HIDE DEF c
    <3> QED
      BY <3>6, <3>7
  <2> HIDE DEF c, p
  <2>6. /\ m.op = "hashes" /\ m.index = r[1] /\ m.start = r[2] /\ m.hashes = c
        /\ m \in HashTables
    BY <2>3, <2>4, <2>5 DEF k, c, n, HashTables
  <2>7. Body(m) = <<r[1], r[2], n>> \o c
    BY <2>5, <2>6 DEF Body
  <2>8. Encodable(m)
    BY <2>3, <2>5, <2>6 DEF Encodable, n
  <2> QED
    BY <2>1, <2>5, <2>6, <2>7, <2>8 DEF Back, Wireable
<1> QED
  BY <1>1, <1>2

\* The other operations of version 2.
LEMMA ChunksBack ==
    ASSUME NEW t \in 10 .. 20, NEW r \in Seq(Nat), FileIndex(r[1]), r # <<>>,
           NEW m \in ReadChunks(Ops[t], r)
    PROVE  Back(m, t, r)
<1> DEFINE op == Ops[t]
<1>0. /\ Len(r) \in Nat /\ \A i \in 1 .. Len(r) : r[i] \in Nat
      /\ Len(r) = 0 => r = <<>>
      /\ Len(r) = 1 => r = <<r[1]>>
      /\ Len(r) = 2 => r = <<r[1], r[2]>>
      /\ Len(r) = 3 => r = <<r[1], r[2], r[3]>>
      /\ Len(r) = 4 => r = <<r[1], r[2], r[3], r[4]>>
  BY ElementOfSeq, Tuples
<1>1. t \in {10, 11, 12, 13, 14, 15, 16, 17, 18, 19, 20}
  OBVIOUS
<1>2. CASE t \in {12, 20}
  <2>1. op \in {"missing", "hashes"}
    BY <1>2 DEF Ops
  <2> HIDE DEF op
  <2>2. ReadChunks(op, r) = ReadPages(op, r)
    BY <2>1 DEF ReadChunks
  <2> QED
    BY <1>2, <2>2, PagesBack DEF op
<1>3. CASE t = 10
  <2>1. op = "describe"
    BY <1>3 DEF Ops
  <2>2. ReadChunks("describe", r) = When(Fits(r, 2) /\ ChunkSize(r[2]),
                     [op |-> "describe", index |-> r[1], chunkSize |-> r[2]])
    BY DEF ReadChunks
  <2>3. /\ Len(r) = 2 /\ ChunkSize(r[2])
        /\ m = [op |-> "describe", index |-> r[1], chunkSize |-> r[2]]
    BY <2>1, <2>2 DEF When, Fits
  <2>4. m \in Describes /\ Body(m) = <<r[1], r[2]>> /\ Encodable(m)
    BY <1>0, <2>3 DEF Describes, Body, Encodable
  <2> QED
    BY <1>0, <2>1, <2>3, <2>4 DEF Back, Wireable, Fixed
<1>4. CASE t = 11
  <2>1. op = "description"
    BY <1>4 DEF Ops
  <2> DEFINE k == [op |-> "description", index |-> r[1], size |-> r[2], chunkSize |-> r[3],
                   hash |-> r[4]]
             C == /\ Fits(r, 4) /\ r[2] <= MaxFile /\ ChunkSize(r[3])
                  /\ r[2] = 0 => r[4] = EmptyHash
  <2>2. ReadChunks("description", r) = When(C, k)
    BY DEF ReadChunks
  <2>3. C /\ m = k
    <3> HIDE DEF C, k
    <3> QED
      BY <2>1, <2>2 DEF When
  <2>4. Len(r) = 4 /\ r[3] \in MinChunk .. MaxChunk
    BY <2>3 DEF Fits, ChunkSize
  <2>5. m \in Descriptions /\ Body(m) = <<r[1], r[2], r[3], r[4]>> /\ Encodable(m)
    BY <1>0, <2>3, <2>4 DEF Descriptions, Body, Encodable
  <2> QED
    BY <1>0, <2>1, <2>3, <2>4, <2>5 DEF Back, Wireable, Fixed
<1>5. CASE t \in {13, 15, 16}
  <2>1. op \in {"chunkBegin", "chunkGet", "chunkVerified"}
    BY <1>5 DEF Ops
  <2> HIDE DEF op
  <2>2. ReadChunks(op, r) = When(Fits(r, 2), [op |-> op, index |-> r[1], chunk |-> r[2]])
    BY <2>1 DEF ReadChunks
  <2>3. Len(r) = 2 /\ m = [op |-> op, index |-> r[1], chunk |-> r[2]]
    BY <2>2 DEF When, Fits, op
  <2>4. m \in Chunks /\ Body(m) = <<r[1], r[2]>> /\ Encodable(m)
    BY <1>0, <2>1, <2>3 DEF Chunks, Body, Encodable
  <2> QED
    BY <1>0, <2>3, <2>4 DEF Back, Wireable, Fixed, op
<1>6. CASE t = 14
  <2>1. op = "chunkCommit"
    BY <1>6 DEF Ops
  <2>2. ReadChunks("chunkCommit", r) = When(Fits(r, 3),
          [op |-> "chunkCommit", index |-> r[1], chunk |-> r[2], resource |-> r[3]])
    BY DEF ReadChunks
  <2>3. /\ Len(r) = 3
        /\ m = [op |-> "chunkCommit", index |-> r[1], chunk |-> r[2], resource |-> r[3]]
    BY <2>1, <2>2 DEF When, Fits
  <2>4. m \in ChunkCommits /\ Body(m) = <<r[1], r[2], r[3]>> /\ Encodable(m)
    BY <1>0, <2>3 DEF ChunkCommits, Body, Encodable
  <2> QED
    BY <1>0, <2>1, <2>3, <2>4 DEF Back, Wireable, Fixed
<1>7. CASE t \in {17, 18}
  <2>1. op \in {"fileCommit", "fileVerified"}
    BY <1>7 DEF Ops
  <2> HIDE DEF op
  <2>2. ReadChunks(op, r) = When(Fits(r, 1), [op |-> op, index |-> r[1]])
    BY <2>1 DEF ReadChunks
  <2>3. Len(r) = 1 /\ m = [op |-> op, index |-> r[1]]
    BY <2>2 DEF When, Fits, op
  <2>4. m \in Indexed /\ Body(m) = <<r[1]>> /\ Encodable(m)
    BY <1>0, <2>1, <2>3 DEF Indexed, Body, Encodable
  <2> QED
    BY <1>0, <2>3, <2>4 DEF Back, Wireable, Fixed, op
<1>8. CASE t = 19
  <2>1. op = "hashesGet"
    BY <1>8 DEF Ops
  <2>2. ReadChunks("hashesGet", r) = When(Fits(r, 2) /\ PageRange(r[2], 1),
                     [op |-> "hashesGet", index |-> r[1], start |-> r[2]])
    BY DEF ReadChunks
  <2>3. /\ Len(r) = 2 /\ PageRange(r[2], 1)
        /\ m = [op |-> "hashesGet", index |-> r[1], start |-> r[2]]
    BY <2>1, <2>2 DEF When, Fits
  <2>4. m \in Gets /\ Body(m) = <<r[1], r[2]>> /\ Encodable(m)
    BY <1>0, <2>3 DEF Gets, Body, Encodable
  <2> QED
    BY <1>0, <2>1, <2>3, <2>4 DEF Back, Wireable, Fixed
<1> QED
  BY <1>1, <1>2, <1>3, <1>4, <1>5, <1>6, <1>7, <1>8

\* The way back: what decode accepts is a message whose encoding is that wire.
LEMMA ReadBack ==
    ASSUME NEW v \in {1, 2}, NEW w \in Seq(Nat), NEW m \in Decode(v, w)
    PROVE  /\ m \in Wireable /\ Encode(v, m) = w /\ w # <<>> /\ w[1] = v
           /\ Decode(v, w) = {m}
           /\ v = 2 => m.op \notin {"begin", "commit", "get", "verified"}
<1> DEFINE t == w[2]
           r == SubSeq(w, 3, Len(w))
<1>1. /\ t \in 1 .. 20 /\ Speaks(v, t) /\ Len(w) <= MaxControl /\ Len(w) >= 2
      /\ w[1] = v /\ r \in Seq(Nat) /\ w = <<v, t>> \o r
      /\ t <= 9 => m \in ReadCommon(Ops[t], r)
      /\ t > 9 => r # <<>> /\ FileIndex(r[1]) /\ m \in ReadChunks(Ops[t], r)
  BY Unframed
<1> HIDE DEF t, r
<1>2. Back(m, t, r)
  <2>1. CASE t <= 9
    <3>1. t \in 1 .. 9
      BY <1>1, <2>1
    <3> QED
      BY <1>1, <2>1, <3>1, CommonBack
  <2>2. CASE t > 9
    <3>1. t \in 10 .. 20
      BY <1>1, <2>2
    <3> QED
      BY <1>1, <2>2, <3>1, ChunksBack
  <2> QED
    BY <1>1, <2>1, <2>2
<1>3. m \in Wireable /\ m.op = Ops[t] /\ Body(m) = r /\ Encodable(m)
  BY <1>2 DEF Back
<1>4. TagOf(m.op) = t
  BY <1>1, <1>3, TagsOfOps
<1>5. Encode(v, m) = w
  <2>1. Encode(v, m) = IF Speaks(v, t) /\ Encodable(m) /\ Len(<<v, t>> \o r) <= MaxControl
                       THEN <<v, t>> \o r ELSE <<>>
    BY <1>3, <1>4 DEF Encode
  <2> QED
    BY <1>1, <1>3, <2>1
<1>6. w # <<>>
  <2>1. Len(w) # 0
    BY <1>1
  <2> QED
    BY <2>1
<1>7. Decode(v, w) = {m}
  <2>1. v \in Nat
    OBVIOUS
  <2> QED
    BY <1>3, <1>5, <1>6, <2>1, Carries
<1>8. v = 2 => m.op \notin {"begin", "commit", "get", "verified"}
  <2> SUFFICES ASSUME v = 2 PROVE m.op \notin {"begin", "commit", "get", "verified"}
    OBVIOUS
  <2>1. t \in {1, 2, 7, 8, 9, 10, 11, 12, 13, 14, 15, 16, 17, 18, 19, 20}
    BY <1>1 DEF Speaks, CommonTag
  <2> QED
    BY <1>3, <2>1 DEF Ops
<1> QED
  BY <1>1, <1>3, <1>5, <1>6, <1>7, <1>8

(***************************************************************************)
(* The link.                                                               *)
(***************************************************************************)
LEMMA SequencesTyped ==
    \A n \in Nat : Sequences(n) \subseteq Seq(Nat)
<1>1. Fields \subseteq Nat
  BY WireInputs, Zenon
<1> SUFFICES ASSUME NEW n \in Nat, NEW k \in 0 .. n, NEW s \in [1 .. k -> Fields]
             PROVE  s \in Seq(Nat)
  BY DEF Sequences
<1>2. s \in [1 .. k -> Nat]
  BY <1>1
<1> QED
  BY <1>2

\* The messages of the model are messages of the codec.
LEMMA MessagesTyped == Messages \subseteq Wireable
<1>1. /\ Fields \subseteq Nat /\ Manifests \subseteq Seq(Entries)
      /\ ErrorChars * CharBytes <= MaxText
  BY WireInputs
<1>2. 0 .. ErrorChars * CharBytes \subseteq 0 .. MaxText
  <2> DEFINE k == ErrorChars * CharBytes
  <2>1. k \in Nat /\ k <= MaxText /\ MaxText \in Nat
    BY <1>1, Numbers
  <2> HIDE DEF k
  <2>2. 0 .. k \subseteq 0 .. MaxText
    BY <2>1
  <2> QED
    BY <2>2 DEF k
<1>3. Sequences(PageChunks + 1) \subseteq Seq(Nat) /\ Sequences(PageChunks) \subseteq Seq(Nat)
  BY Numbers, SequencesTyped
<1>4. [op : {"start"}, push : BOOLEAN, options : Options, path : Fields, manifest : Manifests]
        \subseteq StartMessages
  BY <1>1 DEF StartMessages
<1>5. [op : {"manifest"}, manifest : Manifests] \subseteq ManifestMessages
  BY <1>1 DEF ManifestMessages
<1>6. [op : {"begin", "get", "verified", "fileCommit", "fileVerified"}, index : Fields]
        \subseteq Indexed
  BY <1>1 DEF Indexed
<1>7. [op : {"finish", "ok"}] \subseteq Bare
  BY DEF Bare
<1>8. [op : {"commit"}, index : Fields, resource : Fields] \subseteq Commits
  BY <1>1 DEF Commits
<1>9. [op : {"error"}, code : Fields, text : 0 .. ErrorChars * CharBytes] \subseteq Errors
  <2> DEFINE T == 0 .. ErrorChars * CharBytes
             U == 0 .. MaxText
  <2>1. T \subseteq U
    BY <1>2
  <2> HIDE DEF T, U
  <2>2. [op : {"error"}, code : Fields, text : T] \subseteq [op : {"error"}, code : Nat, text : U]
    BY <1>1, <2>1
  <2> QED
    BY <2>2 DEF Errors, T, U
<1>10. [op : {"describe"}, index : Fields, chunkSize : Fields] \subseteq Describes
  BY <1>1 DEF Describes
<1>11. [op : {"description"}, index : Fields, size : 1 .. MaxFile + 1,
        chunkSize : MinChunk .. MaxChunk, hash : Fields] \subseteq Descriptions
  <2> SUFFICES ASSUME NEW m \in [op : {"description"}, index : Fields, size : 1 .. MaxFile + 1,
                                 chunkSize : MinChunk .. MaxChunk, hash : Fields]
               PROVE  m \in Descriptions
    OBVIOUS
  <2>1. m \in [op : {"description"}, index : Nat, size : Nat, chunkSize : MinChunk .. MaxChunk,
               hash : Nat]
    <3>1. 1 .. MaxFile + 1 \subseteq Nat
      BY Numbers
    <3> QED
      BY <1>1, <3>1
  <2>2. m.size # 0
    OBVIOUS
  <2> QED
    BY <2>1, <2>2 DEF Descriptions
<1>12. [op : {"description"}, index : Fields, size : {0},
        chunkSize : MinChunk .. MaxChunk, hash : {EmptyHash}] \subseteq Descriptions
  <2> SUFFICES ASSUME NEW m \in [op : {"description"}, index : Fields, size : {0},
                                 chunkSize : MinChunk .. MaxChunk, hash : {EmptyHash}]
               PROVE  m \in Descriptions
    OBVIOUS
  <2>1. m \in [op : {"description"}, index : Nat, size : Nat, chunkSize : MinChunk .. MaxChunk,
               hash : Nat]
    <3>1. EmptyHash \in Nat
      BY Numbers
    <3>2. m.size = 0 /\ m.hash \in Nat /\ m.index \in Nat
      BY <1>1, <3>1
    <3> QED
      BY <3>2
  <2>2. m.hash = EmptyHash
    OBVIOUS
  <2> QED
    BY <2>1, <2>2 DEF Descriptions
<1>13. [op : {"hashesGet"}, index : Fields, start : Fields] \subseteq Gets
  BY <1>1 DEF Gets
<1>14. [op : {"hashes"}, index : {0}, start : Fields, hashes : Sequences(PageChunks + 1)]
         \subseteq HashTables
  <2> DEFINE T == Sequences(PageChunks + 1)
             U == Seq(Nat)
  <2>1. T \subseteq U
    BY <1>3
  <2> HIDE DEF T, U
  <2>2. ASSUME NEW m \in [op : {"hashes"}, index : {0}, start : Fields, hashes : T]
        PROVE  m \in [op : {"hashes"}, index : Nat, start : Nat, hashes : U]
    <3>1. m.index = 0 /\ m.start \in Nat /\ m.hashes \in U
      BY <1>1, <2>1
    <3> QED
      BY <3>1
  <2> QED
    BY <2>2 DEF HashTables, T, U
<1>15. [op : {"missing"}, index : {0}, start : Fields, count : Fields,
        chunks : Sequences(PageChunks)] \subseteq MissingLists
  <2> DEFINE T == Sequences(PageChunks)
             U == Seq(Nat)
  <2>1. T \subseteq U
    BY <1>3
  <2> HIDE DEF T, U
  <2>2. ASSUME NEW m \in [op : {"missing"}, index : {0}, start : Fields, count : Fields,
                          chunks : T]
        PROVE  m \in [op : {"missing"}, index : Nat, start : Nat, count : Nat, chunks : U]
    <3>1. m.index = 0 /\ m.start \in Nat /\ m.count \in Nat /\ m.chunks \in U
      BY <1>1, <2>1
    <3> QED
      BY <3>1
  <2> QED
    BY <2>2 DEF MissingLists, T, U
<1>16. [op : {"chunkBegin", "chunkGet", "chunkVerified"}, index : Fields, chunk : Fields]
         \subseteq Chunks
  BY <1>1 DEF Chunks
<1>17. [op : {"chunkCommit"}, index : Fields, chunk : Fields, resource : Fields]
         \subseteq ChunkCommits
  BY <1>1 DEF ChunkCommits
<1> QED
  BY <1>4, <1>5, <1>6, <1>7, <1>8, <1>9, <1>10, <1>11, <1>12, <1>13, <1>14, <1>15, <1>16, <1>17
  DEF Messages, Wireable, Fixed

\* Whatever encode writes is a wire within the limit.
LEMMA WritesFields ==
    ASSUME NEW m \in Wireable, NEW v \in Nat
    PROVE  Encode(v, m) \in Seq(Nat) /\ Len(Encode(v, m)) <= MaxControl
<1>1. CASE Encode(v, m) = <<>>
  <2>1. Len(<<>>) <= MaxControl /\ <<>> \in Seq(Nat)
    BY Numbers
  <2> QED
    BY <1>1, <2>1
<1>2. CASE Encode(v, m) # <<>>
  <2>1. m.op \in {Ops[t] : t \in 1 .. 20} /\ Body(m) \in Seq(Nat)
    <3>1. CASE m \in Fixed
      BY <3>1, FixedBodies
    <3>2. CASE m \in HashTables
      BY <3>2, HashesBody
    <3>3. CASE m \in MissingLists
      BY <3>3, MissingBody
    <3>4. CASE m \in ManifestMessages
      <4>1. m.op = "manifest" /\ m.manifest \in Seq(Entries)
        BY <3>4 DEF ManifestMessages
      <4>2. Body(m) = ManifestFields(m.manifest)
        BY <4>1 DEF Body
      <4>3. m.op \in {Ops[t] : t \in 1 .. 20}
        BY <4>1 DEF Ops
      <4> QED
        BY <4>1, <4>2, <4>3, ManifestWritten
    <3>5. CASE m \in StartMessages
      <4>1. /\ m.op = "start" /\ m.manifest \in Seq(Entries) /\ m.push \in BOOLEAN
            /\ m.options \in Options /\ m.path \in Nat
        BY <3>5 DEF StartMessages
      <4> DEFINE p == <<Bit(m.push), Flags(m.options), m.path>>
                 s == ManifestFields(m.manifest)
      <4>2. Body(m) = p \o s
        BY <4>1 DEF Body
      <4>3. m.op \in {Ops[t] : t \in 1 .. 20}
        BY <4>1 DEF Ops
      <4>4. p \in Seq(Nat)
        <5>1. Bit(m.push) \in Nat
          BY DEF Bit
        <5>2. Flags(m.options) \in Nat
          BY <4>1, FlagsRead
        <5> QED
          BY <4>1, <5>1, <5>2
      <4>5. s \in Seq(Nat)
        BY <4>1, ManifestWritten
      <4> HIDE DEF p, s
      <4>6. p \o s \in Seq(Nat)
        BY <4>4, <4>5, ConcatProperties
      <4> QED
        BY <4>2, <4>3, <4>6
    <3> QED
      BY <3>1, <3>2, <3>3, <3>4, <3>5 DEF Wireable
  <2> QED
    BY <1>2, <2>1, Framed
<1> QED
  BY <1>1, <1>2

\* The inductive invariant of the Link: until a peer of another make has altered
\* it, the wire is the encoding of what was sent; what was read is its decoding.
LinkInv ==
    /\ wire \in Seq(Nat) /\ Len(wire) <= MaxControl + 1
    /\ version \in {1, 2} /\ reader \in {1, 2}
    /\ ~altered => Len(wire) <= MaxControl
    /\ ~altered /\ wire # <<>> => sent \in Wireable /\ wire = Encode(version, sent)
    /\ read = Unread \/ (wire # <<>> /\ read = Decode(reader, wire))

\* It holds at first.
LEMMA LinkStarts == GeometryInit => LinkInv
<1>1. ASSUME NoMessage PROVE LinkInv
  <2>1. <<>> \in Seq(Nat) /\ Len(<<>>) <= MaxControl /\ Len(<<>>) <= MaxControl + 1
    BY Numbers
  <2> QED
    BY <1>1, <2>1 DEF NoMessage, LinkInv
<1>2. ASSUME LinkInit PROVE LinkInv
  <2>1. /\ sent \in Wireable /\ version \in {1, 2} /\ reader \in {1, 2}
        /\ wire = Encode(version, sent) /\ altered = FALSE /\ read = Unread
    BY <1>2, MessagesTyped DEF LinkInit
  <2>2. wire \in Seq(Nat) /\ Len(wire) <= MaxControl
    <3>1. version \in Nat
      BY <2>1
    <3> QED
      BY <2>1, <3>1, WritesFields
  <2>3. Len(wire) <= MaxControl + 1
    BY <2>2, Numbers, LenProperties
  <2> QED
    BY <2>1, <2>2, <2>3 DEF LinkInv
<1> QED
  BY <1>1, <1>2 DEF GeometryInit

\* Sending, altering and receiving keep it.
LEMMA LinkSteps == LinkInv /\ [GeometryNext]_geometryVars => LinkInv'
<1> SUFFICES ASSUME LinkInv, [GeometryNext]_geometryVars PROVE LinkInv'
  OBVIOUS
<1>0. Len(wire) \in Nat /\ \A i \in 1 .. Len(wire) : wire[i] \in Nat
  BY ElementOfSeq DEF LinkInv
<1>1. CASE Alter
  <2>1. /\ ~altered /\ wire # <<>> /\ read = Unread /\ altered' = TRUE /\ version' = version
        /\ reader' = reader /\ read' = read
    BY <1>1 DEF Alter
  <2>2. wire \in Seq(Nat) /\ Len(wire) <= MaxControl
    BY <2>1 DEF LinkInv
  <2>3. Fields \subseteq Nat
    BY WireInputs, Zenon
  <2>4. wire' \in Seq(Nat) /\ Len(wire') <= MaxControl + 1
    <3>1. ASSUME NEW k \in 1 .. Len(wire), NEW x \in Fields \cup (IF k = 2 THEN 0 .. 21 ELSE {}),
                 wire' = [wire EXCEPT ![k] = x]
          PROVE  wire' \in Seq(Nat) /\ Len(wire') <= MaxControl + 1
      <4>1. x \in Nat
        <5>1. x \in Fields \/ x \in 0 .. 21
          OBVIOUS
        <5> QED
          BY <2>3, <5>1
      <4>2. wire' \in Seq(Nat) /\ Len(wire') = Len(wire)
        BY <2>2, <3>1, <4>1, ExceptSeq
      <4> QED
        BY <1>0, <2>2, <4>2, Numbers
    <3>2. ASSUME wire' = SubSeq(wire, 1, Len(wire) - 1)
          PROVE  wire' \in Seq(Nat) /\ Len(wire') <= MaxControl + 1
      <4>1. Len(wire) # 0
        BY <2>1, <2>2, EmptySeq
      <4> DEFINE n == Len(wire) - 1
      <4>2. n \in 0 .. Len(wire)
        BY <1>0, <4>1
      <4> HIDE DEF n
      <4>3. SubSeq(wire, 1, n) \in Seq(Nat) /\ Len(SubSeq(wire, 1, n)) = n
        BY <2>2, <4>2, Parted
      <4> QED
        BY <1>0, <2>2, <3>2, <4>3, Numbers DEF n
    <3>3. ASSUME NEW x \in Fields, wire' = Append(wire, x)
          PROVE  wire' \in Seq(Nat) /\ Len(wire') <= MaxControl + 1
      <4>1. x \in Nat
        BY <2>3
      <4>2. wire' \in Seq(Nat) /\ Len(wire') = Len(wire) + 1
        BY <2>2, <3>3, <4>1, AppendProperties
      <4> QED
        BY <1>0, <2>2, <4>2, Numbers
    <3> QED
      BY <1>1, <3>1, <3>2, <3>3 DEF Alter
  <2> QED
    BY <2>1, <2>4 DEF LinkInv, Unread
<1>2. CASE Receive
  BY <1>2 DEF Receive, LinkInv
<1>3. CASE UNCHANGED linkVars
  BY <1>3 DEF linkVars, LinkInv, Unread
<1> QED
  BY <1>1, <1>2, <1>3 DEF GeometryNext, LinkNext, geometryVars

\* Wires and what is read of them, for all limits and all fields (encode and
\* decode of protocol.rs and protocol/v2.rs).
THEOREM LinkHolds == GeometrySpec => []LinkInv
  BY LinkStarts, LinkSteps, PTL DEF GeometrySpec

\* Every message that encode lets pass is read by decode as itself, whatever its
\* fields and the limits are: manifests of any length, error texts cut by
\* characters, counted pages (protocol.rs, protocol/v2.rs).
THEOREM MessagesAreRead == GeometrySpec => []SentIsRead
<1>1. LinkInv => SentIsRead
  <2> SUFFICES ASSUME LinkInv, ~altered, reader = version, read # Unread PROVE read = {sent}
    BY DEF SentIsRead
  <2>1. /\ wire # <<>> /\ read = Decode(version, wire) /\ version \in Nat
        /\ sent \in Wireable /\ wire = Encode(version, sent)
    BY DEF LinkInv
  <2> QED
    BY <2>1, Carries
<1> QED
  BY <1>1, LinkHolds, PTL

\* Whatever a peer puts on the wire, decode refuses it or reads the one message
\* whose encoding it is, under one version only, and a version-2 reader never a
\* command of the whole-file protocol (protocol.rs, protocol/v2.rs).
THEOREM OnlyMessagesAreRead == GeometrySpec => []NothingElseIsRead
<1>1. LinkInv => NothingElseIsRead
  <2> SUFFICES ASSUME LinkInv PROVE NothingElseIsRead
    OBVIOUS
  <2>1. /\ wire \in Seq(Nat) /\ Len(wire) <= MaxControl + 1 /\ reader \in {1, 2}
        /\ read = Unread \/ read = Decode(reader, wire)
    BY DEF LinkInv
  <2>2. \A m \in Decode(reader, wire) :
           /\ Encode(reader, m) = wire /\ wire[1] = reader /\ Decode(reader, wire) = {m}
           /\ reader = 2 => m.op \notin {"begin", "commit", "get", "verified"}
    BY <2>1, ReadBack
  <2>3. read # Unread => Cardinality(read) <= 1
    <3> SUFFICES ASSUME read # Unread PROVE Cardinality(read) <= 1
      OBVIOUS
    <3>1. CASE read = {}
      BY <3>1, FS_EmptySet
    <3>2. CASE read # {}
      <4>1. PICK m : read = {m}
        BY <2>1, <2>2, <3>2
      <4> QED
        BY <4>1, FS_Singleton
    <3> QED
      BY <3>1, <3>2
  <2>4. WireTypeOK
    BY <2>1, <2>3 DEF WireTypeOK
  <2>5. OneWirePerMessage
    BY <2>1, <2>2 DEF OneWirePerMessage
  <2>6. VersionsApart
    <3> SUFFICES ASSUME read # Unread, read # {}
                 PROVE  /\ Decode(3 - reader, wire) = {}
                        /\ reader = 2 => \A m \in read : m.op \notin {"begin", "commit", "get", "verified"}
      BY DEF VersionsApart
    <3>1. wire[1] = reader
      BY <2>1, <2>2
    <3>2. 3 - reader \in {1, 2} /\ 3 - reader # reader
      BY <2>1
    <3>3. \A m \in Decode(3 - reader, wire) : wire[1] = 3 - reader
      BY <2>1, <3>2, ReadBack
    <3> QED
      BY <2>1, <2>2, <3>1, <3>2, <3>3
  <2> QED
    BY <2>4, <2>5, <2>6 DEF NothingElseIsRead
<1> QED
  BY <1>1, LinkHolds, PTL

(***************************************************************************)
(* Quotients and multiples.                                                *)
(***************************************************************************)
Divided(a, b, q, r) == q = a \div b /\ r = a % b

\* Quotients and remainders of naturals are naturals, and small enough.
LEMMA Division ==
    ASSUME NEW a \in Nat, NEW b \in Nat, b # 0, NEW q, NEW r, Divided(a, b, q, r)
    PROVE  q \in Nat /\ r \in 0 .. b - 1 /\ a = b * q + r
<1>0. q = a \div b /\ r = a % b
  BY DEF Divided
<1>1. q \in Nat /\ r \in Nat /\ r < b
  BY <1>0
<1>2. a = b * q + r
  BY <1>0, <1>1
<1> QED
  BY <1>1, <1>2

\* Products keep the order of their factors.
LEMMA Multiples ==
    ASSUME NEW b \in Nat, b # 0, NEW x \in Int
    PROVE  /\ x >= 1 => b * x >= b
           /\ x <= -1 => b * x <= -b
           /\ x * b = b * x /\ b * x \in Int /\ b * (x + 1) = b * x + b
           /\ x >= 0 => b * x >= 0
OBVIOUS

\* Quotient and remainder are those with a remainder in range.
LEMMA DivisionIs ==
    ASSUME NEW a \in Nat, NEW b \in Nat, b # 0, NEW q \in Int, NEW r \in 0 .. b - 1,
           a = b * q + r
    PROVE  a \div b = q /\ a % b = r
<1> DEFINE p == a \div b
           s == a % b
           x == p - q
<1>0. Divided(a, b, p, s)
  BY DEF Divided
<1> HIDE DEF p, s
<1>1. p \in Nat /\ s \in 0 .. b - 1 /\ a = b * p + s
  BY <1>0, Division
<1>2. x \in Int /\ b * p = b * q + b * x
  BY <1>1
<1>3. b * q \in Int /\ b * x \in Int
  BY <1>2
<1>4. b * x = r - s
  BY <1>1, <1>2, <1>3
<1>5. ~(x >= 1) /\ ~(x <= -1)
  <2> HIDE DEF x
  <2>1. (x >= 1 => b * x >= b) /\ (x <= -1 => b * x <= -b)
    BY <1>2, Multiples
  <2>2. -b < r - s /\ r - s < b /\ r - s \in Int
    BY <1>1
  <2> QED
    BY <1>3, <1>4, <2>1, <2>2
<1>6. p = q
  BY <1>1, <1>2, <1>5
<1>7. s = r
  BY <1>1, <1>3, <1>6
<1> QED
  BY <1>0, <1>6, <1>7 DEF Divided

\* A multiple leaves no remainder.
LEMMA MultipleIsWhole ==
    ASSUME NEW k \in Nat, NEW b \in Nat, b # 0
    PROVE  (k * b) % b = 0 /\ k * b \in Nat
<1>1. k * b \in Nat /\ k * b = b * k + 0 /\ 0 \in 0 .. b - 1
  OBVIOUS
<1> QED
  BY <1>1, DivisionIs

(***************************************************************************)
(* The number of chunks.                                                   *)
(***************************************************************************)
\* It is the least number of chunks that cover the file ...
LEMMA CountCovers ==
    ASSUME NEW s \in Nat, NEW c \in Nat, c # 0
    PROVE  /\ Count(s, c) \in Nat /\ s <= Count(s, c) * c
           /\ \A i \in Nat : i < Count(s, c) <=> i * c < s
<1> DEFINE a == s + c - 1
           n == a \div c
           r == a % c
<1>1. a \in Nat
  OBVIOUS
<1>3. Count(s, c) = n
  BY DEF Count
<1>2. n \in Nat /\ r \in 0 .. c - 1 /\ a = c * n + r
  <2>1. Divided(a, c, n, r)
    BY DEF Divided
  <2> HIDE DEF a, n, r
  <2> QED
    BY <1>1, <2>1, Division
<1> HIDE DEF n, r
<1>4. c * n \in Nat /\ n * c = c * n
  BY <1>2
<1>5. s <= n * c
  BY <1>2, <1>4
<1>6. ASSUME NEW i \in Nat PROVE i < n <=> i * c < s
  <2> DEFINE x == i - n
             y == c * x
  <2>1. x \in Int /\ i * c = c * n + y
    BY <1>2
  <2>2. (x >= 0 => y >= 0) /\ (x <= -1 => y <= -c) /\ y \in Int
    <3> HIDE DEF x
    <3> QED
      BY <2>1, Multiples
  <2>3. i < n <=> x <= -1
    BY <1>2
  <2>4. ~(x <= -1) => x >= 0
    BY <2>1
  <2>5. s + c - 1 = c * n + r
    BY <1>2
  <2> HIDE DEF x, y
  <2>6. i * c < s <=> y < s - c * n
    BY <1>4, <2>1, <2>2
  <2>7. s - c * n = r - c + 1
    BY <1>2, <1>4, <2>5
  <2> QED
    BY <1>2, <2>2, <2>3, <2>4, <2>6, <2>7
<1> QED
  BY <1>2, <1>3, <1>5, <1>6

\* ... and every number that has both is it.
LEMMA CountIs ==
    ASSUME NEW s \in Nat, NEW c \in Nat, c # 0, NEW l \in Nat, l * c < s, s <= (l + 1) * c
    PROVE  Count(s, c) = l + 1
<1>1. /\ Count(s, c) \in Nat
      /\ \A i \in Nat : i < Count(s, c) <=> i * c < s
  BY CountCovers
<1>2. l < Count(s, c)
  BY <1>1
<1>3. ~(l + 1 < Count(s, c))
  <2>1. l + 1 \in Nat /\ ~((l + 1) * c < s)
    OBVIOUS
  <2> QED
    BY <1>1, <2>1
<1> QED
  BY <1>1, <1>2, <1>3

\* An empty file has no chunks.
LEMMA CountOfNothing ==
    ASSUME NEW c \in Nat, c # 0
    PROVE  Count(0, c) = 0
<1>1. /\ Count(0, c) \in Nat
      /\ \A i \in Nat : i < Count(0, c) <=> i * c < 0
  BY CountCovers
<1>2. ~(0 < Count(0, c))
  BY <1>1
<1> QED
  BY <1>1, <1>2

\* The assumptions on the limits, one by one.
LEMMA Limits ==
    /\ MinChunk # 0 /\ MinChunk <= MaxChunk /\ PageChunks # 0 /\ MaxEntries # 0
    /\ ShardChunks \in Nat /\ ShardChunks # 0
    /\ MaxFile + PageChunks <= MinChunk * MaxU32 /\ PageChunks + 6 <= MaxControl
BY GeometryNumbers

\* The number of chunks fits in 32 bits.
LEMMA CountIsBounded ==
    ASSUME NEW s \in 0 .. MaxFile, NEW c \in MinChunk .. MaxChunk
    PROVE  /\ s \in Nat /\ c \in Nat /\ c # 0
           /\ Count(s, c) \in Nat /\ Count(s, c) <= MaxU32
<1>1. s \in Nat /\ c \in Nat /\ c # 0 /\ MinChunk <= c /\ s <= MaxFile
  BY Numbers, Limits
<1>2. /\ Count(s, c) \in Nat
      /\ \A i \in Nat : i < Count(s, c) <=> i * c < s
  BY <1>1, CountCovers
<1>3. s <= MinChunk * MaxU32
  <2> DEFINE x == MinChunk * MaxU32
  <2>1. x \in Nat /\ MaxFile + PageChunks <= x
    BY Numbers, Limits
  <2> HIDE DEF x
  <2>2. s <= x
    BY <1>1, <2>1, Numbers
  <2> QED
    BY <2>2 DEF x
<1>4. MinChunk * MaxU32 <= MaxU32 * c
  <2> SUFFICES ASSUME NEW a \in Nat, NEW b \in Nat, NEW d \in Nat, a <= d PROVE a * b <= b * d
    BY <1>1, Numbers
  <2>1. b * d = a * b + b * (d - a) /\ d - a \in Nat
    OBVIOUS
  <2>2. b * (d - a) \in Nat /\ a * b \in Nat
    BY <2>1
  <2> QED
    BY <2>1, <2>2
<1>5. ~(MaxU32 * c < s)
  <2>1. MinChunk * MaxU32 \in Nat /\ MaxU32 * c \in Nat
    BY <1>1, Numbers
  <2> QED
    BY <1>1, <1>3, <1>4, <2>1
<1>6. ~(MaxU32 < Count(s, c))
  BY <1>2, <1>5, Numbers
<1> QED
  BY <1>1, <1>2, <1>6, Numbers

(***************************************************************************)
(* A finite set of numbers in ascending order.                             *)
(***************************************************************************)
Enumerates(s, S) ==
    s \in [1 .. Cardinality(S) -> S] /\ \A k \in 2 .. Cardinality(S) : s[k - 1] < s[k]

\* The numbers of a finite set can be listed in ascending order.
LEMMA AscendingExists ==
    ASSUME NEW n \in Nat, NEW S \in SUBSET (0 .. n - 1)
    PROVE  IsFiniteSet(S) /\ Cardinality(S) \in Nat /\ Enumerates(Ascending(S), S)
<1> DEFINE T == {j \in Nat : \A R \in SUBSET (0 .. j - 1) :
                    IsFiniteSet(R) /\ Cardinality(R) \in Nat /\ \E s : Enumerates(s, R)}
<1>1. 0 \in T
  <2> SUFFICES ASSUME NEW R \in SUBSET (0 .. 0 - 1)
               PROVE  IsFiniteSet(R) /\ Cardinality(R) \in Nat /\ \E s : Enumerates(s, R)
    OBVIOUS
  <2>1. R = {}
    OBVIOUS
  <2>2. IsFiniteSet(R) /\ Cardinality(R) = 0
    BY <2>1, FS_EmptySet
  <2> DEFINE s == [k \in 1 .. 0 |-> k]
  <2>3. s \in [1 .. 0 -> R]
    OBVIOUS
  <2>4. Enumerates(s, R)
    BY <2>2, <2>3 DEF Enumerates
  <2> HIDE DEF s
  <2> QED
    BY <2>2, <2>4
<1>2. ASSUME NEW j \in Nat, j \in T PROVE j + 1 \in T
  <2> SUFFICES ASSUME NEW R \in SUBSET (0 .. (j + 1) - 1)
               PROVE  IsFiniteSet(R) /\ Cardinality(R) \in Nat /\ \E s : Enumerates(s, R)
    OBVIOUS
  <2> DEFINE Q == R \ {j}
  <2>1. Q \in SUBSET (0 .. j - 1)
    <3>1. \A x \in Q : x \in 0 .. j - 1
      OBVIOUS
    <3> QED
      BY <3>1
  <2> HIDE DEF Q
  <2>2. IsFiniteSet(Q) /\ Cardinality(Q) \in Nat /\ \E s : Enumerates(s, Q)
    BY <1>2, <2>1
  <2>3. CASE j \notin R
    <3>1. Q = R
      BY <2>3 DEF Q
    <3> QED
      BY <2>2, <3>1
  <2>4. CASE j \in R
    <3>1. R = Q \cup {j} /\ j \notin Q
      BY <2>4 DEF Q
    <3> DEFINE c == Cardinality(Q)
    <3>2. IsFiniteSet(R) /\ Cardinality(R) = c + 1
      BY <2>2, <3>1, FS_AddElement
    <3>3. PICK s : s \in [1 .. c -> Q] /\ \A k \in 2 .. c : s[k - 1] < s[k]
      BY <2>2 DEF Enumerates
    <3>4. c \in Nat
      BY <2>2
    <3> HIDE DEF c
    <3> DEFINE u == [k \in 1 .. c + 1 |-> IF k <= c THEN s[k] ELSE j]
    <3>5. u \in [1 .. c + 1 -> R]
      <4>1. \A k \in 1 .. c : s[k] \in R
        BY <3>1, <3>3
      <4> QED
        BY <2>4, <3>4, <4>1
    <3>6. \A k \in 2 .. c + 1 : u[k - 1] < u[k]
      <4> SUFFICES ASSUME NEW k \in 2 .. c + 1 PROVE u[k - 1] < u[k]
        OBVIOUS
      <4>1. u[k - 1] = s[k - 1]
        BY <3>4
      <4>2. CASE k <= c
        <5>1. k \in 2 .. c /\ u[k] = s[k]
          BY <3>4, <4>2
        <5> QED
          BY <3>3, <4>1, <5>1
      <4>3. CASE ~(k <= c)
        <5>1. u[k] = j /\ k - 1 \in 1 .. c
          BY <3>4, <4>3
        <5>2. s[k - 1] \in 0 .. j - 1
          BY <2>1, <3>3, <5>1
        <5> QED
          BY <4>1, <5>1, <5>2
      <4> QED
        BY <4>2, <4>3
    <3> HIDE DEF u
    <3>7. Enumerates(u, R)
      BY <3>2, <3>5, <3>6 DEF Enumerates
    <3> QED
      BY <3>2, <3>4, <3>7
  <2> QED
    BY <2>3, <2>4
<1>3. n \in T
  <2> HIDE DEF T
  <2> QED
    BY <1>1, <1>2, Induction
<1>4. IsFiniteSet(S) /\ Cardinality(S) \in Nat /\ \E s : Enumerates(s, S)
  BY <1>3
<1>5. Enumerates(Ascending(S), S)
  <2>1. PICK s : Enumerates(s, S)
    BY <1>4
  <2>2. \E x \in [1 .. Cardinality(S) -> S] : \A k \in 2 .. Cardinality(S) : x[k - 1] < x[k]
    BY <2>1 DEF Enumerates
  <2> QED
    BY <2>2 DEF Ascending, Enumerates
<1> QED
  BY <1>4, <1>5

\* A page has as many chunks missing as it has chunks, or fewer, ascending.
LEMMA MissingOfPage ==
    ASSUME NEW a \in Nat, NEW n \in Nat, NEW S \in SUBSET (a .. a + n - 1)
    PROVE  /\ Ascending(S) \in Seq(Nat) /\ Len(Ascending(S)) <= n
           /\ \A k \in 1 .. Len(Ascending(S)) : Ascending(S)[k] \in a .. a + n - 1
           /\ \A k \in 2 .. Len(Ascending(S)) : Ascending(S)[k - 1] < Ascending(S)[k]
<1> DEFINE s == Ascending(S)
           c == Cardinality(S)
<1>1. S \in SUBSET (0 .. (a + n) - 1) /\ a + n \in Nat
  <2>1. \A x \in S : x \in 0 .. (a + n) - 1
    OBVIOUS
  <2> QED
    BY <2>1
<1>2. c \in Nat /\ s \in [1 .. c -> S] /\ \A k \in 2 .. c : s[k - 1] < s[k]
  BY <1>1, AscendingExists DEF Enumerates
<1>3. c <= n
  <2>1. IsFiniteSet(a .. a + n - 1) /\ Cardinality(a .. a + n - 1) = n
    <3>1. a \in Int /\ a + n - 1 \in Int /\ (IF a > a + n - 1 THEN 0 ELSE (a + n - 1) - a + 1) = n
      OBVIOUS
    <3> QED
      BY <3>1, FS_Interval
  <2> QED
    BY <2>1, FS_Subset
<1> HIDE DEF s, c
<1>4. s \in [1 .. c -> Nat]
  <2>1. \A x \in S : x \in Nat
    OBVIOUS
  <2> QED
    BY <1>2, <2>1
<1>5. s \in Seq(Nat) /\ Len(s) = c
  BY <1>2, <1>4
<1>6. \A k \in 1 .. c : s[k] \in a .. a + n - 1
  BY <1>2
<1> QED
  BY <1>2, <1>3, <1>5, <1>6 DEF s

(***************************************************************************)
(* What the two sides tell each other about a file of the limits.          *)
(***************************************************************************)
LEMMA SpeaksTwo ==
    \A t \in 10 .. 20 : Speaks(2, t)
BY DEF Speaks

\* A message that fits and is allowed arrives.
LEMMA Arrives ==
    ASSUME NEW m \in Fixed \cup HashTables \cup MissingLists, NEW t \in 10 .. 20,
           m.op = Ops[t], Encodable(m), NEW n \in Nat, Body(m) \in Seq(Nat),
           Len(Body(m)) = n, n + 2 <= MaxControl
    PROVE  Carried(m)
<1> DEFINE p == <<2, t>>
           r == Body(m)
           w == p \o r
<1>1. TagOf(m.op) = t
  <2>1. t \in 1 .. 20
    OBVIOUS
  <2> QED
    BY <2>1, TagsOfOps
<1>2. p \in Seq(Nat) /\ Len(p) = 2
  OBVIOUS
<1>3. Encode(2, m) = IF Speaks(2, t) /\ Encodable(m) /\ Len(w) <= MaxControl THEN w ELSE <<>>
  BY <1>1 DEF Encode
<1> HIDE DEF p, r
<1>4. r \in Seq(Nat) /\ Len(r) = n
  BY DEF r
<1>5. Len(w) = n + 2
  <2>1. Len(w) = Len(p) + Len(r)
    BY <1>2, <1>4, ConcatProperties
  <2> HIDE DEF w
  <2> QED
    BY <1>2, <1>4, <2>1
<1> HIDE DEF w
<1>6. Encode(2, m) = w /\ w # <<>>
  <2>1. w # <<>>
    <3>1. Len(w) # 0
      BY <1>5
    <3> QED
      BY <3>1
  <2>2. Speaks(2, t) /\ Len(w) <= MaxControl
    BY <1>5, SpeaksTwo
  <2> QED
    BY <1>3, <2>1, <2>2
<1>7. m \in Wireable /\ 2 \in Nat
  BY DEF Wireable
<1>8. Decode(2, Encode(2, m)) = {m}
  BY <1>6, <1>7, Carries
<1> QED
  BY <1>8 DEF Carried

\* The file of the model may be spoken of, and short messages fit.
LEMMA FirstIndex == FileIndex(0) /\ MaxControl \in Nat /\ MaxControl >= 7
  BY Numbers, Limits DEF FileIndex

\* The description of a scanned file.
LEMMA DescriptionArrives ==
    ASSUME size \in 0 .. MaxFile, chunkSize \in MinChunk .. MaxChunk
    PROVE  Carried(Described)
<1> DEFINE m == Described
           h == IF size = 0 THEN EmptyHash ELSE EmptyHash + 1
<1>1. h \in Nat /\ (size = 0 => h = EmptyHash) /\ size \in Nat /\ size <= MaxFile
  BY Numbers
<1> HIDE DEF h
<1>2. m = [op |-> "description", index |-> 0, size |-> size, chunkSize |-> chunkSize, hash |-> h]
  BY DEF Described, h
<1> HIDE DEF m
<1>3. m \in Descriptions /\ m.op = "description" /\ m.index = 0 /\ m.size = size
  BY <1>1, <1>2 DEF Descriptions
<1>4. Encodable(m)
  BY <1>1, <1>3, FirstIndex DEF Encodable
<1>5. Body(m) = <<0, size, chunkSize, h>>
  BY <1>2 DEF Body
<1>6. Body(m) \in Seq(Nat) /\ Len(Body(m)) = 4
  <2>1. chunkSize \in Nat
    BY Numbers
  <2> QED
    BY <1>1, <1>5, <2>1
<1>7. Ops[11] = "description" /\ 4 + 2 <= MaxControl /\ 11 \in 10 .. 20 /\ 4 \in Nat
  BY FirstIndex DEF Ops
<1>8. m \in Fixed \cup HashTables \cup MissingLists
  BY <1>3 DEF Fixed
<1> QED
  BY <1>3, <1>4, <1>6, <1>7, <1>8, Arrives DEF m

\* The request for a page of hashes.
LEMMA GetArrives ==
    ASSUME NEW a \in Nat, PageRange(a, 1)
    PROVE  Carried([op |-> "hashesGet", index |-> 0, start |-> a])
<1> DEFINE m == [op |-> "hashesGet", index |-> 0, start |-> a]
<1>1. m \in Gets /\ m.op = "hashesGet" /\ m.index = 0 /\ m.start = a
  BY DEF Gets
<1> HIDE DEF m
<1>2. Encodable(m)
  BY <1>1, FirstIndex DEF Encodable
<1>3. Body(m) = <<0, a>>
  BY <1>1 DEF Body
<1>4. Body(m) \in Seq(Nat) /\ Len(Body(m)) = 2
  BY <1>3
<1>5. Ops[19] = "hashesGet" /\ 2 + 2 <= MaxControl /\ 19 \in 10 .. 20 /\ 2 \in Nat
  BY FirstIndex DEF Ops
<1>6. m \in Fixed \cup HashTables \cup MissingLists
  BY <1>1 DEF Fixed
<1> QED
  BY <1>1, <1>2, <1>4, <1>5, <1>6, Arrives DEF m

\* The announcement of a chunk.
LEMMA BeginArrives ==
    ASSUME NEW i \in Nat
    PROVE  Carried([op |-> "chunkBegin", index |-> 0, chunk |-> i])
<1> DEFINE m == [op |-> "chunkBegin", index |-> 0, chunk |-> i]
<1>1. m \in Chunks /\ m.op = "chunkBegin" /\ m.index = 0 /\ m.chunk = i
  BY DEF Chunks
<1> HIDE DEF m
<1>2. Encodable(m)
  BY <1>1, FirstIndex DEF Encodable
<1>3. Body(m) = <<0, i>>
  BY <1>1 DEF Body
<1>4. Body(m) \in Seq(Nat) /\ Len(Body(m)) = 2
  BY <1>3
<1>5. Ops[13] = "chunkBegin" /\ 2 + 2 <= MaxControl /\ 13 \in 10 .. 20 /\ 2 \in Nat
  BY FirstIndex DEF Ops
<1>6. m \in Fixed \cup HashTables \cup MissingLists
  BY <1>1 DEF Fixed
<1> QED
  BY <1>1, <1>2, <1>4, <1>5, <1>6, Arrives DEF m

\* A page of hashes.
LEMMA HashesArrive ==
    ASSUME NEW a \in Nat, NEW n \in Nat, PageRange(a, n),
           \A k \in 1 .. n : hashes[a + k][1] \in Nat /\ hashes[a + k][2] \in Nat
    PROVE  Carried(HashesOf(a, n))
<1> DEFINE h == [k \in 1 .. n |-> hashes[a + k][1] * (MaxChunk + 1) + hashes[a + k][2]]
           m == HashesOf(a, n)
<1>1. h \in Seq(Nat) /\ Len(h) = n
  <2>1. \A k \in 1 .. n : hashes[a + k][1] * (MaxChunk + 1) + hashes[a + k][2] \in Nat
    <3>1. MaxChunk + 1 \in Nat
      BY Numbers
    <3>2. \A x, y, z \in Nat : x * y + z \in Nat
      OBVIOUS
    <3> QED
      BY <3>1, <3>2
  <2>2. h \in [1 .. n -> Nat]
    BY <2>1
  <2> HIDE DEF h
  <2> QED
    BY <2>2
<1>2. m = [op |-> "hashes", index |-> 0, start |-> a, hashes |-> h]
  BY DEF HashesOf
<1> HIDE DEF m, h
<1>3. m \in HashTables /\ m.op = "hashes" /\ m.index = 0 /\ m.start = a /\ m.hashes = h
  BY <1>1, <1>2 DEF HashTables
<1>4. Encodable(m)
  BY <1>1, <1>3, FirstIndex DEF Encodable
<1>5. Body(m) \in Seq(Nat) /\ Len(Body(m)) = 3 + n
  BY <1>1, <1>3, HashesBody
<1>6. n <= PageChunks
  BY DEF PageRange
<1>7. Ops[20] = "hashes" /\ 20 \in 10 .. 20
  BY DEF Ops
<1>8. 3 + n \in Nat /\ (3 + n) + 2 <= MaxControl
  BY <1>6, Numbers, Limits
<1> QED
  BY <1>3, <1>4, <1>5, <1>7, <1>8, Arrives DEF m

\* The list of the chunks that are missing from a page.
LEMMA MissingArrives ==
    ASSUME NEW a \in Nat, NEW n \in Nat, PageRange(a, n), NEW S \in SUBSET (a .. a + n - 1)
    PROVE  Carried(MissingOf(a, n, S))
<1> DEFINE c == Ascending(S)
           m == MissingOf(a, n, S)
<1>1. /\ c \in Seq(Nat) /\ Len(c) <= n
      /\ \A k \in 1 .. Len(c) : c[k] \in a .. a + n - 1
      /\ \A k \in 2 .. Len(c) : c[k - 1] < c[k]
  BY MissingOfPage
<1>2. m = [op |-> "missing", index |-> 0, start |-> a, count |-> n, chunks |-> c]
  BY DEF MissingOf
<1> HIDE DEF m, c
<1>3. /\ m \in MissingLists /\ m.op = "missing" /\ m.index = 0 /\ m.start = a
      /\ m.count = n /\ m.chunks = c
  BY <1>1, <1>2 DEF MissingLists
<1>4. ValidMissing(m)
  <2>1. \A k \in 1 .. Len(c) : a <= c[k] /\ c[k] - a < n
    <3> SUFFICES ASSUME NEW k \in 1 .. Len(c) PROVE a <= c[k] /\ c[k] - a < n
      OBVIOUS
    <3>1. c[k] \in a .. a + n - 1
      BY <1>1
    <3> QED
      BY <3>1
  <2> QED
    BY <1>1, <1>3, <2>1 DEF ValidMissing
<1>5. Encodable(m)
  BY <1>3, <1>4, FirstIndex DEF Encodable
<1> DEFINE l == Len(c)
<1>6. Body(m) \in Seq(Nat) /\ Len(Body(m)) = 4 + l /\ l \in Nat /\ l <= n
  BY <1>1, <1>3, MissingBody
<1> HIDE DEF l
<1>7. n <= PageChunks
  BY DEF PageRange
<1>8. Ops[12] = "missing" /\ 12 \in 10 .. 20
  BY DEF Ops
<1>9. 4 + l \in Nat /\ (4 + l) + 2 <= MaxControl
  BY <1>6, <1>7, Numbers, Limits
<1> QED
  BY <1>3, <1>5, <1>6, <1>8, <1>9, Arrives DEF m

(***************************************************************************)
(* The inductive invariant of a file that is moved.                        *)
(***************************************************************************)
\* The files a store may hold: one for each chunk, in its shard, of its length.
ChunkFiles == {<<Shard(i), i, Length(i)>> : i \in 0 .. Count(size, chunkSize) - 1}

\* A file within the limits of the protocol.
Sized == size \in 0 .. MaxFile /\ chunkSize \in MinChunk .. MaxChunk

\* The scan has cut off whole chunks, or everything.
ScanInv ==
    /\ remaining \in 0 .. size /\ hashes \in Seq(Span)
    /\ \A i \in 1 .. Len(hashes) :
          hashes[i] = <<(i - 1) * chunkSize, Length(i - 1)>> /\ Length(i - 1) > 0
    /\ remaining > 0 => size - remaining = Len(hashes) * chunkSize
    /\ remaining = 0 => Len(hashes) = Count(size, chunkSize)

\* The receiver has a beginning of the table, and knows how long it is.
TableInv ==
    /\ table \in Seq(Span) /\ nextPage \in Nat /\ Len(table) = nextPage
    /\ nextPage <= Count(size, chunkSize)
    /\ \A i \in 1 .. nextPage : table[i] = <<(i - 1) * chunkSize, Length(i - 1)>>

\* Both sides are at the same page.
PageInv ==
    /\ pc \in {"none", "scan", "page", "chunk", "done"} /\ (pc # "scan" => remaining = 0)
    /\ start \in Nat /\ start % PageChunks = 0
    /\ pc = "scan" => nextPage = 0 /\ start = 0
    /\ pc = "page" => nextPage = Least(start, Count(size, chunkSize))
    /\ pc = "chunk" => start < Count(size, chunkSize) /\ nextPage = start + PageLen(start)
    /\ pc = "done" => nextPage = Count(size, chunkSize)

\* Only chunks that were announced are asked for, and stored.
ChunkInv ==
    /\ missing \in Seq(Nat) /\ \A i \in 1 .. Len(missing) : missing[i] < nextPage
    /\ files \subseteq ChunkFiles

\* None of the parts is inductive without the others.
FileInv == Sized /\ ScanInv /\ TableInv /\ PageInv /\ ChunkInv

(***************************************************************************)
(* Lengths, pages, shards.                                                 *)
(***************************************************************************)
\* The numbers of a file within the limits.
LEMMA SizedNumbers ==
    ASSUME Sized
    PROVE  /\ size \in Nat /\ chunkSize \in Nat /\ chunkSize # 0 /\ size <= MaxFile
           /\ chunkSize <= MaxChunk /\ Count(size, chunkSize) \in Nat
           /\ Count(size, chunkSize) <= MaxU32
           /\ PageChunks \in Nat /\ PageChunks # 0
<1>1. /\ size \in Nat /\ chunkSize \in Nat /\ chunkSize # 0
      /\ Count(size, chunkSize) \in Nat /\ Count(size, chunkSize) <= MaxU32
  BY CountIsBounded DEF Sized
<1>2. size <= MaxFile /\ chunkSize <= MaxChunk
  BY Numbers DEF Sized
<1> QED
  BY <1>1, <1>2, Numbers, Limits

\* A chunk of the file has bytes, as many as a chunk may have.
LEMMA LengthOfChunk ==
    ASSUME Sized, NEW i \in Nat, i < Count(size, chunkSize)
    PROVE  /\ i * chunkSize \in 0 .. MaxFile /\ i * chunkSize < size
           /\ Length(i) \in 1 .. MaxChunk /\ Length(i) \in Nat
           /\ Least(size - i * chunkSize, Length(i)) = Length(i)
           /\ <<i * chunkSize, Length(i)>> \in Span
<1>1. /\ size \in Nat /\ chunkSize \in Nat /\ chunkSize # 0 /\ size <= MaxFile
      /\ chunkSize <= MaxChunk /\ MaxFile \in Nat /\ MaxChunk \in Nat
  BY SizedNumbers, Numbers
<1>2. i * chunkSize < size
  BY <1>1, CountCovers
<1>3. i * chunkSize \in Nat
  BY <1>1
<1> DEFINE x == i * chunkSize
<1> HIDE DEF x
<1>4. x \in Nat /\ x < size
  BY <1>2, <1>3 DEF x
<1>5. Length(i) = Least(size - x, chunkSize)
  BY DEF Length, x
<1>6. /\ x \in 0 .. MaxFile /\ Length(i) \in 1 .. MaxChunk /\ Length(i) \in Nat
      /\ Least(size - x, Length(i)) = Length(i)
  BY <1>1, <1>4, <1>5 DEF Least
<1> QED
  BY <1>4, <1>6 DEF x, Span

\* The next page starts on a page.
LEMMA NextPageStarts ==
    ASSUME NEW a \in Nat, a % PageChunks = 0
    PROVE  (a + PageChunks) % PageChunks = 0 /\ a + PageChunks \in Nat
<1> DEFINE b == PageChunks
           q == a \div b
           r == a % b
<1>1. b \in Nat /\ b # 0
  BY Numbers, Limits
<1>2. Divided(a, b, q, r)
  BY DEF Divided
<1>3. r = 0
  OBVIOUS
<1> HIDE DEF b, q, r
<1>4. q \in Nat /\ a = b * q + r
  BY <1>1, <1>2, Division
<1>5. a + b \in Nat /\ a + b = b * (q + 1) + 0 /\ 0 \in 0 .. b - 1 /\ q + 1 \in Int
  <2>1. b * (q + 1) = b * q + b /\ b * q \in Int
    BY <1>1, <1>4, Multiples
  <2> QED
    BY <1>1, <1>3, <1>4, <2>1
<1>6. (a + b) % b = 0
  BY <1>1, <1>5, DivisionIs
<1> QED
  BY <1>5, <1>6 DEF b

\* Where the page that starts at a ends.
LEMMA PageIsInRange ==
    ASSUME Sized, NEW a \in Nat, a < Count(size, chunkSize), a % PageChunks = 0
    PROVE  /\ PageLen(a) \in Nat /\ PageLen(a) <= PageChunks /\ PageLen(a) # 0
           /\ a + PageLen(a) <= Count(size, chunkSize) /\ a + PageLen(a) \in Nat
           /\ PageRange(a, PageLen(a)) /\ PageRange(a, 1)
           /\ a + PageLen(a) = Least(a + PageChunks, Count(size, chunkSize))
<1> DEFINE n == Count(size, chunkSize)
           b == PageChunks
           l == PageLen(a)
<1>1. n \in Nat /\ n <= MaxU32 /\ MaxU32 \in Nat /\ b \in Nat /\ b # 0
  BY SizedNumbers, Numbers
<1>2. l = Least(n - a, b) /\ a < n
  BY DEF PageLen
<1> HIDE DEF n, l, b
<1>3. /\ l \in Nat /\ l <= b /\ l # 0 /\ a + l <= n /\ a + l \in Nat /\ a + l <= MaxU32
      /\ a + 1 <= MaxU32 /\ 1 <= b /\ a + l = Least(a + b, n)
  BY <1>1, <1>2 DEF Least
<1> QED
  BY <1>3 DEF PageRange, n, l, b

\* A shard directory has the files of as many chunks as a shard has.
LEMMA ShardIsListed ==
    ASSUME Sized, files \subseteq ChunkFiles
    PROVE  FilesAreListed
<1> DEFINE n == Count(size, chunkSize)
           k == ShardChunks
<1>1. n \in Nat /\ k \in Nat /\ k # 0
  BY SizedNumbers, Limits
<1> SUFFICES ASSUME NEW f \in files
             PROVE  ValidName(f) /\ Cardinality({g \in files : g[1] = f[1]}) <= k
  BY DEF FilesAreListed
<1>2. \A g \in files : \E i \in 0 .. n - 1 : g = <<Shard(i), i, Length(i)>>
  BY DEF ChunkFiles
<1> HIDE DEF n, k
<1>3. ValidName(f)
  <2>1. PICK i \in 0 .. n - 1 : f = <<Shard(i), i, Length(i)>>
    BY <1>2
  <2>2. f[2] = i /\ f[1] = Shard(i)
    BY <2>1
  <2> QED
    BY <2>2 DEF ValidName, Shard
<1> DEFINE s == f[1]
           G == {g \in files : g[1] = s}
           lo == k * s
           hi == k * s + k - 1
           F == [i \in lo .. hi |-> <<Shard(i), i, Length(i)>>]
<1>4. s \in Nat
  <2>1. PICK i \in 0 .. n - 1 : f = <<Shard(i), i, Length(i)>>
    BY <1>2
  <2> DEFINE q == i \div k
             r == i % k
  <2>2. Divided(i, k, q, r)
    BY DEF Divided
  <2>3. s = q
    BY <2>1 DEF Shard, k
  <2> HIDE DEF q, r
  <2>4. i \in Nat
    BY <1>1
  <2>5. q \in Nat
    BY <1>1, <2>2, <2>4, Division
  <2> QED
    BY <2>3, <2>5
<1> HIDE DEF s
<1>5. \A g \in G : \E i \in lo .. hi : g = F[i]
  <2> SUFFICES ASSUME NEW g \in G PROVE \E i \in lo .. hi : g = F[i]
    OBVIOUS
  <2>1. PICK i \in 0 .. n - 1 : g = <<Shard(i), i, Length(i)>>
    BY <1>2
  <2> DEFINE q == i \div k
             r == i % k
  <2>2. Divided(i, k, q, r)
    BY DEF Divided
  <2>3. s = q
    BY <2>1 DEF Shard, k
  <2> HIDE DEF q, r
  <2>4. i \in Nat
    BY <1>1
  <2>5. r \in 0 .. k - 1 /\ i = k * q + r
    BY <1>1, <2>2, <2>4, Division
  <2>6. k * s \in Nat
    BY <1>1, <1>4
  <2>7. i \in lo .. hi
    <3> DEFINE y == k * s
    <3>1. y \in Nat /\ i = y + r
      BY <2>3, <2>5, <2>6
    <3> HIDE DEF y
    <3>2. i \in y .. y + k - 1
      BY <1>1, <2>4, <2>5, <3>1
    <3> QED
      BY <3>2 DEF y
  <2> HIDE DEF lo, hi
  <2> QED
    BY <2>1, <2>7
<1>6. IsFiniteSet(lo .. hi) /\ Cardinality(lo .. hi) = k
  <2> DEFINE y == k * s
  <2>1. y \in Nat
    BY <1>1, <1>4
  <2> HIDE DEF y
  <2>2. y \in Int /\ y + k - 1 \in Int /\ (IF y > y + k - 1 THEN 0 ELSE (y + k - 1) - y + 1) = k
    BY <1>1, <2>1
  <2>3. IsFiniteSet(y .. y + k - 1) /\ Cardinality(y .. y + k - 1) = k
    BY <2>2, FS_Interval
  <2> QED
    BY <2>3 DEF y
<1> DEFINE I == lo .. hi
           R == {F[i] : i \in I}
<1>7. G \subseteq R
  <2> HIDE DEF F, lo, hi
  <2> QED
    BY <1>5
<1> HIDE DEF lo, hi
<1>8. F \in Surjection(I, R)
  <2>1. F \in [I -> R] /\ \A y \in R : \E i \in I : F[i] = y
    OBVIOUS
  <2> HIDE DEF F, I, R
  <2> QED
    BY <2>1 DEF Surjection
<1> HIDE DEF F, R
<1>9. IsFiniteSet(R) /\ Cardinality(R) <= Cardinality(I)
  <2> HIDE DEF I
  <2>1. IsFiniteSet(I)
    BY <1>6 DEF I
  <2> QED
    BY <1>8, <2>1, FS_Surjection
<1> HIDE DEF G
<1>10. Cardinality(G) <= Cardinality(R) /\ Cardinality(R) \in Nat /\ Cardinality(G) \in Nat
  BY <1>7, <1>9, FS_Subset, FS_CardinalityType
<1>11. Cardinality(G) <= k
  BY <1>1, <1>6, <1>9, <1>10
<1> QED
  BY <1>3, <1>11 DEF G, s

(***************************************************************************)
(* Every step of a file keeps the invariant.                               *)
(***************************************************************************)
\* Limits of the file that did not change.
LEMMA Unmoved ==
    ASSUME UNCHANGED <<size, chunkSize>>
    PROVE  /\ \A i : Length(i)' = Length(i) /\ PageLen(i)' = PageLen(i)
           /\ Count(size, chunkSize)' = Count(size, chunkSize)
           /\ ChunkFiles' = ChunkFiles /\ Sized' = Sized
BY DEF Length, PageLen, ChunkFiles, Shard, Sized, Count, Least

\* Parts of the invariant that a step does not touch.
LEMMA Untouched ==
    ASSUME UNCHANGED <<size, chunkSize>>
    PROVE  /\ UNCHANGED <<remaining, hashes>> => ScanInv' = ScanInv
           /\ UNCHANGED <<table, nextPage>> => TableInv' = TableInv
           /\ UNCHANGED <<pc, remaining, start, nextPage>> => PageInv' = PageInv
           /\ UNCHANGED <<nextPage, missing, files>> => ChunkInv' = ChunkInv
<1>1. /\ \A i : Length(i)' = Length(i) /\ PageLen(i)' = PageLen(i)
      /\ Count(size, chunkSize)' = Count(size, chunkSize)
      /\ ChunkFiles' = ChunkFiles
  BY Unmoved
<1>2. ASSUME UNCHANGED <<remaining, hashes>> PROVE ScanInv' = ScanInv
  BY <1>1, <1>2 DEF ScanInv, Span
<1>3. ASSUME UNCHANGED <<table, nextPage>> PROVE TableInv' = TableInv
  BY <1>1, <1>3 DEF TableInv, Span
<1>4. ASSUME UNCHANGED <<pc, remaining, start, nextPage>> PROVE PageInv' = PageInv
  BY <1>1, <1>4 DEF PageInv, Least
<1>5. ASSUME UNCHANGED <<nextPage, missing, files>> PROVE ChunkInv' = ChunkInv
  BY <1>1, <1>5 DEF ChunkInv
<1> QED
  BY <1>2, <1>3, <1>4, <1>5

\* Every file starts so.
LEMMA FileStarts == GeometryInit => FileInv
<1> SUFFICES ASSUME GeometryInit PROVE FileInv
  OBVIOUS
<1>1. /\ hashes = <<>> /\ table = <<>> /\ missing = <<>>
      /\ start = 0 /\ nextPage = 0 /\ files = {}
  BY DEF GeometryInit
<1>2. Sized /\ remaining = size /\ pc \in {"none", "scan"} /\ (pc = "none" => size = 0)
  <2>1. CASE FileInit
    BY <2>1 DEF FileInit, Sized
  <2>2. CASE NoFile
    BY <2>2, Numbers, Limits DEF NoFile, Sized
  <2> QED
    BY <2>1, <2>2 DEF GeometryInit
<1>3. size \in Nat /\ chunkSize \in Nat /\ chunkSize # 0 /\ Count(size, chunkSize) \in Nat
  BY <1>2, SizedNumbers
<1>4. <<>> \in Seq(Span) /\ <<>> \in Seq(Nat) /\ Len(<<>>) = 0
  BY EmptySeq
<1>5. ScanInv
  <2>1. size = 0 => Count(size, chunkSize) = 0
    BY <1>3, CountOfNothing
  <2>2. size - size = 0 * chunkSize
    BY <1>3
  <2>3. 1 .. 0 = {}
    OBVIOUS
  <2> QED
    BY <1>1, <1>2, <1>3, <1>4, <2>1, <2>2, <2>3 DEF ScanInv
<1>6. TableInv
  BY <1>1, <1>3, <1>4 DEF TableInv
<1>7. PageInv
  <2>1. 0 % PageChunks = 0
    <3>1. PageChunks \in Nat /\ PageChunks # 0
      BY Numbers, Limits
    <3>2. 0 \in 0 .. PageChunks - 1 /\ 0 = PageChunks * 0 + 0
      BY <3>1
    <3> QED
      BY <3>1, <3>2, DivisionIs
  <2> QED
    BY <1>1, <1>2, <2>1 DEF PageInv
<1>8. ChunkInv
  BY <1>1, <1>4 DEF ChunkInv
<1> QED
  BY <1>2, <1>5, <1>6, <1>7, <1>8 DEF FileInv

\* Cutting one chunk off what remains.
LEMMA ScanKeeps == FileInv /\ ScanChunk => FileInv'
<1> SUFFICES ASSUME FileInv, ScanChunk PROVE FileInv'
  OBVIOUS
<1> USE DEF FileInv
<1> DEFINE c == chunkSize
           n == Count(size, chunkSize)
           l == Len(hashes)
           x == Least(remaining, c)
           h == <<size - remaining, x>>
<1>1. /\ pc = "scan" /\ remaining > 0 /\ hashes' = Append(hashes, h)
      /\ remaining' = remaining - x
      /\ UNCHANGED <<size, chunkSize, pc, start, table, nextPage, missing, files>>
  BY DEF ScanChunk
<1>2. /\ size \in Nat /\ c \in Nat /\ c # 0 /\ n \in Nat /\ size <= MaxFile
      /\ chunkSize <= MaxChunk /\ MaxFile \in Nat /\ MaxChunk \in Nat
  BY SizedNumbers, Numbers
<1>3. /\ hashes \in Seq(Span) /\ remaining \in 0 .. size /\ size - remaining = l * c
  BY <1>1 DEF ScanInv
<1>4. l \in Nat /\ l * c \in Nat /\ (l + 1) * c = l * c + c
  <2>1. l \in Nat
    BY <1>3
  <2> HIDE DEF l
  <2> QED
    BY <1>2, <2>1
<1>5. /\ \A i : Length(i)' = Length(i) /\ PageLen(i)' = PageLen(i)
      /\ Count(size, chunkSize)' = Count(size, chunkSize)
      /\ ChunkFiles' = ChunkFiles /\ Sized' = Sized
  BY <1>1, Unmoved
<1>6. Length(l) = x
  <2> DEFINE y == l * c
  <2>1. size - y = remaining
    <3> HIDE DEF y, l
    <3> QED
      BY <1>2, <1>3, <1>4 DEF y
  <2>2. Length(l) = Least(size - y, c)
    BY DEF Length
  <2> QED
    BY <2>1, <2>2
<1>7. x \in 1 .. MaxChunk /\ x <= remaining /\ x \in Nat /\ h \in Span
  <2>1. x \in 1 .. MaxChunk /\ x <= remaining /\ x \in Nat
    BY <1>1, <1>2, <1>3 DEF Least
  <2>2. size - remaining \in 0 .. MaxFile
    BY <1>2, <1>3
  <2> HIDE DEF x
  <2> QED
    BY <2>1, <2>2 DEF Span
<1> HIDE DEF h
<1>8. /\ hashes' \in Seq(Span) /\ Len(hashes') = l + 1
      /\ \A i \in 1 .. l : hashes'[i] = hashes[i]
      /\ hashes'[l + 1] = h
  BY <1>1, <1>3, <1>7, AppendProperties
<1> HIDE DEF l, x
<1>9. \A i \in 1 .. l + 1 : hashes'[i] = <<(i - 1) * c, Length(i - 1)>> /\ Length(i - 1) > 0
  <2> SUFFICES ASSUME NEW i \in 1 .. l + 1
               PROVE  hashes'[i] = <<(i - 1) * c, Length(i - 1)>> /\ Length(i - 1) > 0
    OBVIOUS
  <2>1. CASE i = l + 1
    <3>1. i - 1 = l /\ h = <<l * c, x>> /\ x > 0
      BY <1>3, <1>4, <1>7, <2>1 DEF h
    <3> QED
      BY <1>6, <1>8, <2>1, <3>1
  <2>2. CASE i # l + 1
    <3>1. i \in 1 .. l
      BY <1>4, <2>2
    <3>2. hashes[i] = <<(i - 1) * chunkSize, Length(i - 1)>> /\ Length(i - 1) > 0
      BY <3>1 DEF ScanInv, l
    <3> QED
      BY <1>8, <3>1, <3>2
  <2> QED
    BY <2>1, <2>2
<1>10. /\ remaining' > 0 => size - remaining' = (l + 1) * c
       /\ remaining' = 0 => n = l + 1
       /\ remaining' \in 0 .. size
  <2> DEFINE y == l * c
             z == (l + 1) * c
  <2>1. y \in Nat /\ z = y + c /\ size - remaining = y
    BY <1>3, <1>4
  <2>2. x = IF remaining < c THEN remaining ELSE c
    BY DEF x, Least
  <2> HIDE DEF y, z, c
  <2>3. remaining' = 0 => y < size /\ size <= z
    BY <1>1, <1>2, <1>3, <2>1, <2>2
  <2>4. remaining' > 0 => size - remaining' = z
    BY <1>1, <1>2, <1>3, <2>1, <2>2
  <2>5. remaining' \in 0 .. size
    BY <1>1, <1>2, <1>3, <1>7
  <2>6. remaining' = 0 => n = l + 1
    <3> SUFFICES ASSUME remaining' = 0 PROVE n = l + 1
      OBVIOUS
    <3>1. l * chunkSize < size /\ size <= (l + 1) * chunkSize
      BY <2>3 DEF y, z, c
    <3> HIDE DEF n
    <3> QED
      BY <1>2, <1>4, <3>1, CountIs DEF n, c
  <2> QED
    BY <2>4, <2>5, <2>6 DEF z
<1>11. ScanInv'
  <2> HIDE DEF c, n
  <2>1. hashes' \in Seq(Span)' /\ remaining' \in 0 .. size'
    BY <1>1, <1>8, <1>10 DEF Span
  <2>2. \A i \in 1 .. Len(hashes') :
          hashes'[i] = <<(i - 1) * chunkSize', Length(i - 1)'>> /\ Length(i - 1)' > 0
    BY <1>1, <1>5, <1>8, <1>9 DEF c
  <2>3. /\ remaining' > 0 => size' - remaining' = Len(hashes') * chunkSize'
        /\ remaining' = 0 => Len(hashes') = Count(size, chunkSize)'
    BY <1>1, <1>5, <1>8, <1>10 DEF c, n
  <2> QED
    BY <2>1, <2>2, <2>3 DEF ScanInv
<1>12. TableInv' /\ ChunkInv'
  BY <1>1, Untouched
<1>13. PageInv'
  BY <1>1 DEF PageInv
<1> QED
  BY <1>5, <1>11, <1>12, <1>13

\* Describing the scanned file.
LEMMA ScanEndKeeps == FileInv /\ ScanEnds => FileInv'
<1> SUFFICES ASSUME FileInv, ScanEnds PROVE FileInv'
  OBVIOUS
<1> USE DEF FileInv
<1>1. Carried(Described)
  BY DescriptionArrives DEF Sized
<1>2. /\ pc = "scan" /\ remaining = 0 /\ pc' = "page"
      /\ UNCHANGED <<size, chunkSize, remaining, hashes, start, table, nextPage, missing, files>>
  BY <1>1 DEF ScanEnds
<1>3. Count(size, chunkSize)' = Count(size, chunkSize) /\ Sized' = Sized
  BY <1>2, Unmoved
<1>4. ScanInv' /\ TableInv' /\ ChunkInv'
  BY <1>2, Untouched
<1>5. PageInv'
  <2>1. 0 = Least(0, Count(size, chunkSize))
    <3>1. Count(size, chunkSize) \in Nat
      BY SizedNumbers
    <3> QED
      BY <3>1 DEF Least
  <2>2. start = 0 /\ nextPage = 0 /\ start % PageChunks = 0
    BY <1>2 DEF PageInv
  <2>3. Least(start, Count(size, chunkSize))' = Least(start, Count(size, chunkSize))
    BY <1>2, <1>3 DEF Least
  <2> QED
    BY <1>2, <2>1, <2>2, <2>3 DEF PageInv
<1> QED
  BY <1>3, <1>4, <1>5

\* Moving on by a page.
LEMMA PageEndKeeps == FileInv /\ PageEnds => FileInv'
<1> SUFFICES ASSUME FileInv, PageEnds PROVE FileInv'
  OBVIOUS
<1> USE DEF FileInv
<1>1. /\ pc = "chunk" /\ pc' = "page" /\ start' = start + PageChunks
      /\ UNCHANGED <<size, chunkSize, remaining, hashes, table, nextPage, missing, files>>
  BY DEF PageEnds
<1>2. Count(size, chunkSize)' = Count(size, chunkSize) /\ Sized' = Sized
  BY <1>1, Unmoved
<1>3. ScanInv' /\ TableInv' /\ ChunkInv'
  BY <1>1, Untouched
<1>4. /\ start \in Nat /\ start % PageChunks = 0 /\ start < Count(size, chunkSize)
      /\ nextPage = start + PageLen(start) /\ remaining = 0
  BY <1>1 DEF PageInv
<1>5. start + PageLen(start) = Least(start + PageChunks, Count(size, chunkSize))
  BY <1>4, PageIsInRange
<1>6. (start + PageChunks) % PageChunks = 0 /\ start + PageChunks \in Nat
  BY <1>4, NextPageStarts
<1>7. Least(start, Count(size, chunkSize))' = Least(start + PageChunks, Count(size, chunkSize))
  BY <1>1, <1>2 DEF Least
<1>8. PageInv'
  BY <1>1, <1>4, <1>5, <1>6, <1>7 DEF PageInv
<1> QED
  BY <1>2, <1>3, <1>8

\* Committing when the last page is done.
LEMMA CommitKeeps == FileInv /\ Commit => FileInv'
<1> SUFFICES ASSUME FileInv, Commit PROVE FileInv'
  OBVIOUS
<1> USE DEF FileInv
<1>1. /\ pc = "page" /\ start >= Count(size, chunkSize)
      /\ pc' = IF nextPage = Count(size, chunkSize) THEN "done" ELSE "refused"
      /\ UNCHANGED <<size, chunkSize, remaining, hashes, start, table, nextPage, missing, files>>
  BY DEF Commit
<1>2. Count(size, chunkSize)' = Count(size, chunkSize) /\ Sized' = Sized
  BY <1>1, Unmoved
<1>3. ScanInv' /\ TableInv' /\ ChunkInv'
  BY <1>1, Untouched
<1>4. /\ start \in Nat /\ start % PageChunks = 0 /\ remaining = 0
      /\ nextPage = Least(start, Count(size, chunkSize))
  BY <1>1 DEF PageInv
<1>5. nextPage = Count(size, chunkSize)
  <2>1. Count(size, chunkSize) \in Nat
    BY SizedNumbers
  <2> QED
    BY <1>1, <1>4, <2>1 DEF Least
<1>6. pc' = "done"
  BY <1>1, <1>5
<1>7. PageInv'
  BY <1>1, <1>2, <1>4, <1>5, <1>6 DEF PageInv
<1> QED
  BY <1>2, <1>3, <1>7

\* Sending a page of hashes, and the list of what is missing of it back.
LEMMA PageKeeps == FileInv /\ SendPage => FileInv'
<1> SUFFICES ASSUME FileInv, SendPage PROVE FileInv'
  OBVIOUS
<1> USE DEF FileInv
<1> DEFINE n == Count(size, chunkSize)
           l == PageLen(start)
           page == PageOf(start)
<1>1. /\ pc = "page" /\ start < n
      /\ UNCHANGED <<size, chunkSize, remaining, hashes, start, files>>
  BY DEF SendPage
<1>2. n \in Nat /\ PageChunks \in Nat
  BY SizedNumbers
<1>3. /\ start \in Nat /\ start % PageChunks = 0 /\ remaining = 0 /\ nextPage = Least(start, n)
  BY <1>1 DEF PageInv
<1>4. nextPage = start
  BY <1>1, <1>2, <1>3 DEF Least
<1>5. /\ l \in Nat /\ l # 0 /\ start + l <= n /\ start + l \in Nat
      /\ PageRange(start, l) /\ PageRange(start, 1)
  BY <1>1, <1>3, PageIsInRange
<1>6. hashes \in Seq(Span) /\ Len(hashes) = n
  BY <1>3 DEF ScanInv
<1>7. \A i \in 1 .. n : /\ hashes[i] = <<(i - 1) * chunkSize, Length(i - 1)>>
                        /\ hashes[i] \in Span
                        /\ hashes[i][1] \in Nat /\ hashes[i][2] \in Nat
  <2> SUFFICES ASSUME NEW i \in 1 .. n
               PROVE  /\ hashes[i] = <<(i - 1) * chunkSize, Length(i - 1)>>
                      /\ hashes[i] \in Span
                      /\ hashes[i][1] \in Nat /\ hashes[i][2] \in Nat
    OBVIOUS
  <2>1. hashes[i] = <<(i - 1) * chunkSize, Length(i - 1)>>
    BY <1>6 DEF ScanInv
  <2>2. i - 1 \in Nat /\ i - 1 < n
    BY <1>2
  <2>3. /\ (i - 1) * chunkSize \in 0 .. MaxFile /\ Length(i - 1) \in Nat
        /\ <<(i - 1) * chunkSize, Length(i - 1)>> \in Span
    BY <2>2, LengthOfChunk
  <2>4. hashes[i][1] \in Nat /\ hashes[i][2] \in Nat
    <3> DEFINE x == (i - 1) * chunkSize
               y == Length(i - 1)
    <3>1. hashes[i] = <<x, y>> /\ x \in Nat /\ y \in Nat
      BY <2>1, <2>3
    <3> HIDE DEF x, y
    <3> QED
      BY <3>1
  <2> QED
    BY <2>1, <2>3, <2>4
<1>8. PageAccepted(start, l)
  <2>1. PageLenAllowed(start) /\ start + l <= Len(hashes)
    BY <1>1, <1>3, <1>5, <1>6 DEF PageLenAllowed
  <2>2. Carried([op |-> "hashesGet", index |-> 0, start |-> start])
    BY <1>3, <1>5, GetArrives
  <2>3. Carried(HashesOf(start, l))
    <3>1. \A k \in 1 .. l : hashes[start + k][1] \in Nat /\ hashes[start + k][2] \in Nat
      <4> SUFFICES ASSUME NEW k \in 1 .. l
                   PROVE  hashes[start + k][1] \in Nat /\ hashes[start + k][2] \in Nat
        OBVIOUS
      <4> HIDE DEF l, n
      <4>1. start + k \in 1 .. n
        BY <1>2, <1>3, <1>5
      <4> QED
        BY <1>7, <4>1
    <3> HIDE DEF l
    <3> QED
      BY <1>3, <1>5, <3>1, HashesArrive
  <2> QED
    BY <1>4, <2>1, <2>2, <2>3 DEF PageAccepted
<1>9. PICK S \in SUBSET (start .. start + l - 1) :
         /\ table' = table \o page /\ nextPage' = nextPage + l
         /\ missing' = Ascending(S)
         /\ pc' = IF Carried(MissingOf(start, l, S)) THEN "chunk" ELSE "refused"
  BY <1>8 DEF SendPage
<1>10. pc' = "chunk"
  <2> HIDE DEF l
  <2> QED
    BY <1>3, <1>5, <1>9, MissingArrives
<1>11. /\ \A i : Length(i)' = Length(i) /\ PageLen(i)' = PageLen(i)
       /\ n' = n /\ ChunkFiles' = ChunkFiles /\ Sized' = Sized
  BY <1>1, Unmoved
<1>12. ScanInv'
  BY <1>1, Untouched
<1>13. /\ page \in Seq(Span) /\ Len(page) = l
       /\ \A i \in 1 .. l : page[i] = hashes[start + i]
  <2>1. page = SubSeq(hashes, start + 1, start + l)
    BY DEF PageOf
  <2> HIDE DEF page, l, n
  <2>2. \A i \in start + 1 .. start + l : hashes[i] \in Span
    <3> SUFFICES ASSUME NEW i \in start + 1 .. start + l PROVE hashes[i] \in Span
      OBVIOUS
    <3>1. i \in 1 .. n
      BY <1>2, <1>3, <1>5
    <3> QED
      BY <1>7, <3>1
  <2>3. /\ page \in Seq(Span)
        /\ Len(page) = IF start + 1 <= start + l THEN (start + l) - (start + 1) + 1 ELSE 0
        /\ \A i \in 1 .. (start + l) - (start + 1) + 1 : page[i] = hashes[start + 1 + i - 1]
    BY <1>3, <1>5, <1>6, <2>1, <2>2, SubSeqProperties
  <2> QED
    BY <1>3, <1>5, <2>3
<1>14. /\ table \in Seq(Span) /\ Len(table) = start
       /\ \A i \in 1 .. start : table[i] = <<(i - 1) * chunkSize, Length(i - 1)>>
  BY <1>4 DEF TableInv
<1>15. /\ table' \in Seq(Span) /\ Len(table') = start + l
       /\ \A i \in 1 .. start + l : table'[i] = <<(i - 1) * chunkSize, Length(i - 1)>>
  <2> HIDE DEF page, l, n
  <2>1. /\ table' \in Seq(Span) /\ Len(table') = Len(table) + Len(page)
        /\ \A i \in 1 .. Len(table) + Len(page) :
              table'[i] = IF i <= Len(table) THEN table[i] ELSE page[i - Len(table)]
    BY <1>9, <1>13, <1>14, ConcatProperties
  <2>2. ASSUME NEW i \in 1 .. start + l
        PROVE  table'[i] = <<(i - 1) * chunkSize, Length(i - 1)>>
    <3>1. table'[i] = IF i <= start THEN table[i] ELSE page[i - start]
      BY <1>13, <1>14, <2>1
    <3>2. CASE i <= start
      <4>1. i \in 1 .. start
        BY <1>3, <3>2
      <4> QED
        BY <1>14, <3>1, <3>2, <4>1
    <3>3. CASE ~(i <= start)
      <4>1. i - start \in 1 .. l /\ start + (i - start) = i /\ i \in 1 .. n
        BY <1>2, <1>3, <1>5, <3>3
      <4>2. page[i - start] = hashes[start + (i - start)]
        BY <1>13, <4>1
      <4>3. hashes[i] = <<(i - 1) * chunkSize, Length(i - 1)>>
        BY <1>7, <4>1
      <4> QED
        BY <3>1, <3>3, <4>1, <4>2, <4>3
    <3> QED
      BY <3>2, <3>3
  <2> QED
    BY <1>13, <1>14, <2>1, <2>2
<1>16. TableInv'
  <2> HIDE DEF page, l, n
  <2>1. nextPage' = start + l
    BY <1>4, <1>9
  <2>2. \A i \in 1 .. nextPage' : table'[i] = <<(i - 1) * chunkSize', Length(i - 1)'>>
    BY <1>1, <1>11, <1>15, <2>1
  <2>3. table' \in Seq(Span)' /\ nextPage' \in Nat /\ Len(table') = nextPage'
    BY <1>5, <1>15, <2>1 DEF Span
  <2>4. nextPage' <= Count(size, chunkSize)'
    BY <1>5, <1>11, <2>1 DEF n
  <2> QED
    BY <2>2, <2>3, <2>4 DEF TableInv
<1>17. PageInv'
  <2>1. nextPage' = start' + PageLen(start)'
    BY <1>1, <1>4, <1>9, <1>11
  <2>2. start' < Count(size, chunkSize)'
    BY <1>1, <1>11
  <2> QED
    BY <1>1, <1>3, <1>10, <2>1, <2>2 DEF PageInv
<1>18. ChunkInv'
  <2>1. /\ Ascending(S) \in Seq(Nat)
        /\ \A k \in 1 .. Len(Ascending(S)) : Ascending(S)[k] \in start .. start + l - 1
    <3> HIDE DEF l
    <3> QED
      BY <1>3, <1>5, MissingOfPage
  <2>2. missing' \in Seq(Nat) /\ \A k \in 1 .. Len(missing') : missing'[k] < nextPage'
    <3> HIDE DEF l
    <3>1. nextPage' = start + l
      BY <1>4, <1>9
    <3>2. \A y \in start .. start + l - 1 : y < nextPage'
      BY <1>3, <1>5, <3>1
    <3> QED
      BY <1>9, <2>1, <3>2
  <2>3. files' \subseteq ChunkFiles'
    BY <1>1, <1>11 DEF ChunkInv
  <2> QED
    BY <2>2, <2>3 DEF ChunkInv
<1> QED
  BY <1>11, <1>12, <1>16, <1>17, <1>18

\* Sending a chunk, which is stored in its shard.
LEMMA ChunkKeeps == FileInv /\ SendChunk => FileInv'
<1> SUFFICES ASSUME FileInv, SendChunk PROVE FileInv'
  OBVIOUS
<1> USE DEF FileInv
<1> DEFINE i == Head(missing)
           n == Count(size, chunkSize)
<1>1. /\ pc = "chunk" /\ missing # <<>> /\ missing' = Tail(missing)
      /\ UNCHANGED <<size, chunkSize, remaining, hashes, start, table, nextPage>>
  BY DEF SendChunk
<1>2. missing \in Seq(Nat) /\ \A k \in 1 .. Len(missing) : missing[k] < nextPage
  BY DEF ChunkInv
<1>3. /\ i \in Nat /\ i < nextPage /\ missing' \in Seq(Nat)
      /\ \A k \in 1 .. Len(missing') : missing'[k] < nextPage
  <2>1. /\ Head(missing) \in Nat /\ Tail(missing) \in Seq(Nat)
        /\ Len(Tail(missing)) = Len(missing) - 1
        /\ \A k \in 1 .. Len(Tail(missing)) : Tail(missing)[k] = missing[k + 1]
    BY <1>1, <1>2, HeadTailProperties
  <2>2. Len(missing) \in Nat /\ Len(missing) # 0
    BY <1>1, <1>2, EmptySeq
  <2>3. i = missing[1] /\ 1 \in 1 .. Len(missing)
    BY <2>2
  <2>4. \A k \in 1 .. Len(missing') : k + 1 \in 1 .. Len(missing)
    BY <1>1, <2>1, <2>2
  <2> QED
    BY <1>1, <1>2, <2>1, <2>3, <2>4
<1>4. /\ nextPage \in Nat /\ nextPage <= n
      /\ \A k \in 1 .. nextPage : table[k] = <<(k - 1) * chunkSize, Length(k - 1)>>
  BY DEF TableInv
<1>5. n \in Nat
  BY SizedNumbers
<1> HIDE DEF i, n
<1>6. i < n /\ i + 1 \in 1 .. nextPage /\ (i + 1) - 1 = i
  BY <1>3, <1>4, <1>5
<1>7. /\ Length(i) \in Nat /\ Least(size - i * chunkSize, Length(i)) = Length(i)
  BY <1>3, <1>6, LengthOfChunk DEF n
<1>8. Cut(i)[2] = Length(i) /\ Cut(i) = table[i + 1]
  <2>1. Cut(i) = <<i * chunkSize, Length(i)>>
    BY <1>7 DEF Cut
  <2>2. table[i + 1] = <<i * chunkSize, Length(i)>>
    BY <1>4, <1>6
  <2> QED
    BY <2>1, <2>2
<1>9. IndexInRange(i) /\ Carried([op |-> "chunkBegin", index |-> 0, chunk |-> i])
  BY <1>3, <1>6, BeginArrives DEF IndexInRange, n
<1>10. files' = files \cup {<<Shard(i), i, Length(i)>>} /\ pc' = pc
  <2>1. IF /\ IndexInRange(i) /\ Carried([op |-> "chunkBegin", index |-> 0, chunk |-> i])
           /\ Cut(i)[2] = Length(i) /\ Cut(i) = table[i + 1]
          THEN files' = files \cup {<<Shard(i), i, Length(i)>>} /\ pc' = pc
          ELSE files' = files /\ pc' = "refused"
    BY DEF SendChunk, i
  <2> QED
    BY <1>8, <1>9, <2>1
<1>11. ChunkFiles' = ChunkFiles /\ Sized' = Sized
  BY <1>1, Unmoved
<1>12. ScanInv' /\ TableInv' /\ PageInv'
  BY <1>1, <1>10, Untouched
<1>13. <<Shard(i), i, Length(i)>> \in ChunkFiles
  <2>1. i \in 0 .. n - 1
    BY <1>3, <1>5, <1>6
  <2> QED
    BY <2>1 DEF ChunkFiles, n
<1>14. ChunkInv'
  BY <1>1, <1>3, <1>10, <1>11, <1>13 DEF ChunkInv
<1> QED
  BY <1>11, <1>12, <1>14

\* Every step keeps the invariant.
LEMMA FileSteps == FileInv /\ [GeometryNext]_geometryVars => FileInv'
<1> SUFFICES ASSUME FileInv, [GeometryNext]_geometryVars PROVE FileInv'
  OBVIOUS
<1>1. CASE MoveFile
  BY <1>1, ScanKeeps, ScanEndKeeps, PageKeeps, ChunkKeeps, PageEndKeeps, CommitKeeps DEF MoveFile
<1>2. CASE UNCHANGED fileVars
  <2>1. /\ UNCHANGED <<size, chunkSize>> /\ UNCHANGED <<remaining, hashes>>
        /\ UNCHANGED <<table, nextPage>> /\ UNCHANGED <<pc, remaining, start, nextPage>>
        /\ UNCHANGED <<nextPage, missing, files>>
    BY <1>2 DEF fileVars
  <2>2. Sized'
    BY <2>1, Unmoved DEF FileInv
  <2> QED
    BY <2>1, <2>2, Untouched DEF FileInv
<1> QED
  BY <1>1, <1>2 DEF GeometryNext, geometryVars

\* What the invariant says of the ways in which the same boundaries are computed.
LEMMA SidesAgree == FileInv => SidesCutAlike
<1> SUFFICES ASSUME FileInv PROVE SidesCutAlike
  OBVIOUS
<1> USE DEF FileInv
<1> DEFINE n == Count(size, chunkSize)
           c == chunkSize
<1>1. size \in Nat /\ c \in Nat /\ c # 0 /\ n \in Nat
  BY SizedNumbers
<1>2. pc # "scan" => Len(hashes) = n
  BY DEF PageInv, ScanInv
<1>3. GeometryTypeOK
  <2>1. files \subseteq Nat \X Nat \X Nat
    <3> SUFFICES ASSUME NEW f \in files PROVE f \in Nat \X Nat \X Nat
      OBVIOUS
    <3>1. PICK i \in 0 .. n - 1 : f = <<Shard(i), i, Length(i)>>
      BY DEF ChunkInv, ChunkFiles
    <3>2. i \in Nat /\ i < n
      BY <1>1
    <3>3. Length(i) \in Nat
      BY <3>2, LengthOfChunk
    <3>4. Shard(i) \in Nat
      <4> DEFINE q == i \div ShardChunks
                 r == i % ShardChunks
      <4>1. Divided(i, ShardChunks, q, r)
        BY DEF Divided
      <4>2. Shard(i) = q
        BY DEF Shard
      <4> HIDE DEF q, r
      <4> QED
        BY <3>2, <4>1, <4>2, Limits, Division
    <3> QED
      BY <3>1, <3>2, <3>3, <3>4
  <2> QED
    BY <2>1 DEF GeometryTypeOK, Sized, ScanInv, TableInv, PageInv, ChunkInv
<1>4. NeverRefused
  BY DEF NeverRefused, PageInv
<1>5. TableIsExact
  <2>1. \A i \in 1 .. Len(hashes) :
          hashes[i] = <<(i - 1) * c, Length(i - 1)>> /\ hashes[i][2] > 0
    <3> SUFFICES ASSUME NEW i \in 1 .. Len(hashes)
                 PROVE  hashes[i] = <<(i - 1) * c, Length(i - 1)>> /\ hashes[i][2] > 0
      OBVIOUS
    <3> DEFINE x == (i - 1) * chunkSize
               y == Length(i - 1)
    <3>1. hashes[i] = <<x, y>> /\ y > 0
      BY DEF ScanInv
    <3> HIDE DEF x, y
    <3>2. hashes[i][2] = y
      BY <3>1
    <3> QED
      BY <3>1, <3>2 DEF x, y
  <2>2. ASSUME NEW i \in 1 .. Len(table) PROVE table[i] = hashes[i]
    <3>1. /\ Len(table) = nextPage /\ nextPage \in Nat /\ nextPage <= n
          /\ table[i] = <<(i - 1) * c, Length(i - 1)>>
      BY DEF TableInv
    <3>2. pc # "scan"
      BY <3>1 DEF PageInv
    <3>3. i \in 1 .. Len(hashes)
      <4> HIDE DEF n
      <4> QED
        BY <1>1, <1>2, <3>1, <3>2
    <3> QED
      BY <2>1, <3>1, <3>3
  <2>3. ASSUME pc # "scan"
        PROVE  size = IF hashes = <<>> THEN 0
                      ELSE hashes[Len(hashes)][1] + hashes[Len(hashes)][2]
    <3>1. hashes \in Seq(Span) /\ Len(hashes) = n
      BY <1>2, <2>3 DEF ScanInv
    <3>2. CASE hashes = <<>>
      <4>1. n = 0
        BY <3>1, <3>2
      <4>2. ~(0 < n) /\ (0 < n <=> 0 * c < size)
        <5>1. \A i \in Nat : i < n <=> i * c < size
          BY <1>1, CountCovers
        <5> QED
          BY <4>1, <5>1
      <4> QED
        BY <1>1, <3>2, <4>2
    <3>3. CASE hashes # <<>>
      <4> DEFINE i == n - 1
                 x == i * chunkSize
                 y == Length(i)
      <4>1. n # 0
        BY <3>1, <3>3, EmptySeq
      <4>2. i \in Nat /\ i < n /\ n \in 1 .. Len(hashes)
        BY <1>1, <3>1, <4>1
      <4>3. hashes[n] = <<x, y>>
        BY <2>1, <4>2
      <4>4. x < size /\ x \in Nat
        <5>1. i * chunkSize \in 0 .. MaxFile /\ i * chunkSize < size
          <6> HIDE DEF n, i
          <6> QED
            BY <4>2, LengthOfChunk DEF n
        <5> QED
          BY <5>1
      <4>5. size <= x + c
        <5>1. size <= n * c
          BY <1>1, CountCovers
        <5>2. n * c = x + c
          <6> HIDE DEF n, c
          <6> QED
            BY <1>1 DEF c
        <5> QED
          BY <5>1, <5>2
      <4>6. y = Least(size - x, c)
        BY DEF Length
      <4> HIDE DEF x, y, c
      <4>7. x + y = size
        BY <1>1, <4>4, <4>5, <4>6 DEF Least
      <4>8. hashes[n][1] = x /\ hashes[n][2] = y
        BY <4>3
      <4> QED
        BY <3>1, <3>3, <4>7, <4>8
    <3> QED
      BY <3>2, <3>3
  <2> QED
    BY <1>2, <2>1, <2>2, <2>3 DEF TableIsExact
<1>6. CountersAgree
  <2>1. pc = "done" => nextPage = Len(hashes)
    BY <1>2 DEF PageInv
  <2> QED
    BY <2>1 DEF CountersAgree, TableInv, PageInv
<1>7. FilesAreListed
  BY ShardIsListed DEF ChunkInv
<1> QED
  BY <1>3, <1>4, <1>5, <1>6, <1>7 DEF SidesCutAlike

\* The move of a file of any size, by chunks, pages and shards of any length
\* (Description and the store of chunks.rs, the page loop of engine/v2.rs).
THEOREM FileHolds == GeometrySpec => []FileInv
  BY FileStarts, FileSteps, PTL DEF GeometrySpec

\* The scan cuts a file by what remains of it, Description counts by a ceiling,
\* the engines add pages up, and the store names shards: for every file, chunk,
\* page and shard size within the limits they agree, to the last byte, no message
\* between them is refused or changed, and every chunk stored is found again
\* (chunks.rs, engine/v2.rs).
THEOREM AllCutAlike == GeometrySpec => []SidesCutAlike
  BY FileHolds, SidesAgree, PTL

(***************************************************************************)
(* A file on the disk (module Durable).                                    *)
(***************************************************************************)
Putting == {"write", "flushData", "check", "rename", "flushEntry"}
Removing == {"unlink", "flushBatch"}

\* Where an operation stands, the directories above it are there, and
\* what it is about to rename is complete and flushed.
Walked ==
    LET r == proc IN
    /\ r.at \in {"mkdir", "flushParent"} => r.dir \in Dirs /\ 1 .. r.dir - 1 \subseteq made
    /\ r.at = "flushParent" => r.dir \in made
    /\ r.at \in Putting \cup Removing => Dirs \subseteq made
    /\ r.at \in Putting \cup {"mkdir", "flushParent"} => r.name \in Names /\ r.new \in Versions
    /\ r.at \in Putting \ {"write", "flushData"} => r.flushed
    /\ r.at \in Removing => r.name = Nothing

\* A check holds until the rename, unless somebody wrote in between.
Checked ==
    proc.at = "rename" /\ proc.checks => file[proc.name] = scanned[proc.name] \/ proc.late

\* No disk holds an incomplete file.
Complete == \A n \in Names : Torn \notin survives[n]

\* Only the entries the operation at hand has changed are not flushed.
Unsettled ==
    IF proc.at = "flushEntry" THEN {proc.name}
    ELSE IF proc.at \in Removing THEN proc.batch ELSE {}
Flushed == ~faults.inFlush => \A n \in Names \ Unsettled : survives[n] = {file[n]}

\* Only the directory made last is not flushed; what was promised lies in
\* flushed directories and cannot be taken back.
Kept ==
    ~faults.inMkdir =>
        /\ made \ kept \subseteq IF proc.at = "flushParent" THEN {proc.dir} ELSE {}
        /\ \A n \in Names : said[n] # NoPromise => Dirs \subseteq kept /\ survives[n] = {said[n]}

\* The inductive invariant.
IInv == DurableTypeOK /\ Walked /\ Checked /\ Complete /\ Flushed /\ Kept

-----------------------------------------------------------------------------
\* A directory exists when all above it do.
LEMMA DepthIsThere ==
    ASSUME Exists(Depth)
    PROVE  Dirs \subseteq made
BY DEF Exists, Dirs

LEMMA IdleIsProc ==
    /\ Idle.at = "idle" /\ Idle.name = Nothing /\ Idle.batch = {}
    /\ Idle \in Operation
BY DurableNumbers DEF Idle, Calls, Operation

\* What the steps write into the record of an operation, or of the faults,
\* keeps its type.
LEMMA MovesOn ==
    ASSUME NEW r \in Operation, NEW a \in Calls
    PROVE  [r EXCEPT !.at = a] \in Operation
BY Zenon DEF Operation

LEMMA GoesDown ==
    ASSUME NEW r \in Operation, NEW a \in Calls, NEW d \in 0 .. Depth
    PROVE  [r EXCEPT !.at = a, !.dir = d] \in Operation
BY Zenon DEF Operation

LEMMA Starts ==
    ASSUME NEW r \in Operation, NEW a \in Calls, NEW d \in 0 .. Depth,
           NEW n \in Names \cup {Nothing}, NEW v \in Versions \cup {Nothing}, NEW b \in BOOLEAN
    PROVE  [r EXCEPT !.at = a, !.dir = d, !.name = n, !.new = v, !.checks = b] \in Operation
BY Zenon DEF Operation

LEMMA IsLate ==
    ASSUME NEW r \in Operation, NEW b \in BOOLEAN
    PROVE  [r EXCEPT !.late = b] \in Operation
BY Zenon DEF Operation

LEMMA OneMoreKill ==
    ASSUME NEW f \in Faults, NEW k \in 0 .. MaxKills, NEW m \in BOOLEAN, NEW b \in BOOLEAN
    PROVE  [f EXCEPT !.kills = k, !.inMkdir = m, !.inFlush = b] \in Faults
BY Zenon DEF Faults

LEMMA OneMoreFailure ==
    ASSUME NEW f \in Faults, NEW l \in 0 .. MaxFailures, NEW m \in BOOLEAN, NEW b \in BOOLEAN
    PROVE  [f EXCEPT !.failures = l, !.inMkdir = m, !.inFlush = b] \in Faults
BY Zenon DEF Faults

\* Nothing is made before the first operation.
LEMMA InitHolds == Init => IInv
<1> SUFFICES ASSUME Init PROVE IInv
  OBVIOUS
<1>1. DurableTypeOK
  BY IdleIsProc, DurableNumbers DEF Init, DurableTypeOK, Contents, Faults, Dirs
<1>2. Walked /\ Checked
  BY IdleIsProc DEF Init, Walked, Checked, Putting, Removing
<1>3. Complete /\ Flushed /\ Kept
  BY IdleIsProc, DurableContents DEF Init, Complete, Flushed, Kept, Unsettled, Removing
<1> QED
  BY <1>1, <1>2, <1>3 DEF IInv

\* Steps that touch neither the disk nor a promise.
LEMMA RescanKeeps == IInv /\ Rescan => IInv'
BY DEF IInv, Rescan, Disk, DurableTypeOK, Walked, Checked, Complete, Flushed, Kept, Unsettled,
       Putting, Removing

LEMMA StartPutKeeps ==
    ASSUME IInv, NEW n \in Names, NEW v \in Versions, NEW b \in BOOLEAN, StartPut(n, v, b)
    PROVE  IInv'
<1>1. /\ proc'.at = "mkdir" /\ proc'.dir = 1 /\ proc'.name = n /\ proc'.new = v
      /\ proc'.batch = {} /\ proc.at = "idle"
      /\ UNCHANGED <<made, kept, file, survives, scanned, said, faults>>
  BY IdleIsProc DEF StartPut, Idle, Disk
<1>2. DurableTypeOK'
  <2>1. proc' \in Operation
    <3>1. "mkdir" \in Calls /\ 1 \in 0 .. Depth
      BY DurableNumbers DEF Calls
    <3> QED
      BY <3>1, IdleIsProc, Starts, Zenon DEF StartPut
  <2> QED
    BY <1>1, <2>1 DEF IInv, DurableTypeOK
<1>3. Walked' /\ Checked'
  BY <1>1, DurableNumbers DEF Walked, Checked, Putting, Removing, Dirs
<1>4. Complete' /\ Flushed' /\ Kept'
  BY <1>1 DEF IInv, Complete, Flushed, Kept, Unsettled, Removing
<1> QED
  BY <1>2, <1>3, <1>4 DEF IInv

\* An operation whose process stands still or goes on, the disk as it is.
LEMMA MakesDirectoryKeeps == IInv /\ MakesDirectory => IInv'
<1> SUFFICES ASSUME IInv, MakesDirectory PROVE IInv'
  OBVIOUS
<1>1. /\ proc.at = "mkdir" /\ proc' = [proc EXCEPT !.at = "flushParent"]
      /\ proc.dir \notin made /\ made' = made \cup {proc.dir}
      /\ UNCHANGED <<kept, file, survives, scanned, said, faults>>
  BY DEF MakesDirectory, Goto
<1>2. DurableTypeOK' /\ Walked' /\ Checked'
  BY <1>1 DEF IInv, DurableTypeOK, Walked, Checked, Putting, Removing, Calls, Operation
<1>3. Complete' /\ Flushed'
  BY <1>1 DEF IInv, DurableTypeOK, Complete, Flushed, Unsettled, Removing
<1>4. Kept'
  BY <1>1 DEF IInv, DurableTypeOK, Kept
<1> QED
  BY <1>2, <1>3, <1>4 DEF IInv

\* Going down: below the last directory the file is written.
LEMMA BelowKeeps ==
    ASSUME IInv, Below, proc.at \in {"mkdir", "flushParent"}, proc.dir \in made,
           made' = made, kept \subseteq kept', kept' \subseteq made,
           ~faults.inMkdir => kept' = made,
           UNCHANGED <<file, survives, scanned, said, faults>>
    PROVE  IInv'
<1>1. /\ proc' = IF proc.dir = Depth THEN [proc EXCEPT !.at = "write"]
                 ELSE [proc EXCEPT !.at = "mkdir", !.dir = @ + 1]
      /\ proc.dir \in 1 .. Depth /\ 1 .. proc.dir \subseteq made
  <2>1. proc.dir \in 1 .. Depth /\ 1 .. proc.dir - 1 \subseteq made
    BY DEF IInv, Walked, Dirs
  <2>2. 1 .. proc.dir = 1 .. proc.dir - 1 \cup {proc.dir}
    BY <2>1, DurableNumbers
  <2> QED
    BY <2>1, <2>2 DEF Below
<1>2. DurableTypeOK'
  <2>1. proc' \in Operation
    <3>1. proc \in Operation /\ {"write", "mkdir"} \subseteq Calls
      BY DEF IInv, DurableTypeOK, Calls
    <3>2. CASE proc.dir = Depth
      <4>1. proc' = [proc EXCEPT !.at = "write"] /\ "write" \in Calls
        BY <1>1, <3>1, <3>2
      <4> QED
        BY <3>1, <4>1, MovesOn, Zenon
    <3>3. CASE proc.dir # Depth
      <4>1. proc.dir + 1 \in 0 .. Depth
        BY <1>1, <3>3, DurableNumbers
      <4> QED
        BY <1>1, <3>1, <3>3, <4>1, GoesDown
    <3> QED
      BY <3>2, <3>3
  <2> QED
    BY <2>1 DEF IInv, DurableTypeOK
<1>3. Walked' /\ Checked'
  BY <1>1, DurableNumbers DEF IInv, DurableTypeOK, Walked, Checked, Putting, Removing, Dirs
<1>4. Complete' /\ Flushed' /\ Kept'
  BY <1>1 DEF IInv, DurableTypeOK, Complete, Flushed, Kept, Unsettled, Removing
<1> QED
  BY <1>2, <1>3, <1>4 DEF IInv

LEMMA DirectoryKeeps == IInv /\ (FindsDirectory \/ FlushParent) => IInv'
<1> SUFFICES ASSUME IInv, FindsDirectory \/ FlushParent PROVE IInv'
  OBVIOUS
<1>1. CASE FindsDirectory
  <2>1. ~faults.inMkdir => kept = made
    BY <1>1 DEF FindsDirectory, IInv, Kept, DurableTypeOK
  <2> QED
    BY <1>1, <2>1, BelowKeeps DEF FindsDirectory, Disk, IInv, DurableTypeOK
<1>2. CASE FlushParent
  <2>1. proc.dir \in made /\ kept \subseteq made
    BY <1>2 DEF FlushParent, IInv, Walked, DurableTypeOK
  <2>2. ~faults.inMkdir => kept' = made
    BY <1>2, <2>1 DEF FlushParent, IInv, Kept
  <2> QED
    BY <1>2, <2>1, <2>2, BelowKeeps DEF FlushParent
<1> QED
  BY <1>1, <1>2

\* The steps of an installation before the rename.
LEMMA StagingKeeps == IInv /\ (Write \/ FlushData \/ Check) => IInv'
<1> SUFFICES ASSUME IInv, Write \/ FlushData \/ Check PROVE IInv'
  OBVIOUS
<1>1. UNCHANGED <<made, kept, file, survives, scanned, said, faults>>
  BY DEF Write, FlushData, Check, Disk
<1>2. /\ proc.at \in {"write", "flushData", "check"}
      /\ \/ proc' = [proc EXCEPT !.at = "flushData"] /\ proc.at = "write"
         \/ /\ proc' = [proc EXCEPT !.flushed = TRUE,
                            !.at = IF proc.checks THEN "check" ELSE "rename"]
            /\ proc.at = "flushData"
         \/ /\ proc' = [proc EXCEPT !.at = "rename"] /\ proc.at = "check"
            /\ file[proc.name] = scanned[proc.name]
  BY DEF Write, FlushData, Check, Goto
<1>3. DurableTypeOK' /\ Walked' /\ Checked'
  BY <1>1, <1>2 DEF IInv, DurableTypeOK, Walked, Checked, Putting, Removing, Calls, Operation
<1>4. Complete' /\ Flushed' /\ Kept'
  BY <1>1, <1>2 DEF IInv, DurableTypeOK, Complete, Flushed, Kept, Unsettled, Removing
<1> QED
  BY <1>3, <1>4 DEF IInv

\* The operation ends, or is ended, and the disk stays as it is: a flush that
\* was cut off is on record.
LEMMA EndKeeps ==
    ASSUME IInv, proc' = Idle, UNCHANGED <<made, kept, file, survives, scanned, said>>,
           faults' \in Faults, faults.inMkdir => faults'.inMkdir, faults.inFlush => faults'.inFlush,
           proc.at = "flushParent" => faults'.inMkdir,
           proc.at \in Removing \cup {"flushEntry"} => faults'.inFlush
    PROVE  IInv'
<1>1. DurableTypeOK' /\ Walked' /\ Checked'
  BY IdleIsProc DEF IInv, DurableTypeOK, Walked, Checked, Putting, Removing
<1>2. Complete'
  BY DEF IInv, Complete
<1>3. Flushed'
  BY IdleIsProc DEF IInv, Flushed, Unsettled, Removing
<1>4. Kept'
  BY IdleIsProc DEF IInv, Kept
<1> QED
  BY <1>1, <1>2, <1>3, <1>4 DEF IInv

LEMMA EndingsKeep == IInv /\ (Refused \/ Fails \/ Kill) => IInv'
<1> SUFFICES ASSUME IInv, Refused \/ Fails \/ Kill PROVE IInv'
  OBVIOUS
<1>1. proc' = Idle /\ UNCHANGED <<made, kept, file, survives, scanned, said>>
  BY DEF Refused, Fails, Kill, Disk
<1>2. faults \in Faults /\ DurableNumbers
  BY DurableNumbers DEF IInv, DurableTypeOK
<1>3. CASE Refused
  BY <1>1, <1>2, <1>3, EndKeeps DEF Refused, Removing
<1>4. CASE Fails
  <2> DEFINE m == faults.inMkdir \/ proc.at = "flushParent"
             f == faults.inFlush \/ proc.at \in Flushing
  <2>0. /\ faults' = [faults EXCEPT !.failures = @ + 1, !.inMkdir = m, !.inFlush = f]
        /\ faults.failures < MaxFailures /\ m \in BOOLEAN /\ f \in BOOLEAN
    BY <1>4 DEF Fails
  <2> HIDE DEF m, f
  <2>2. faults' \in Faults /\ faults'.inMkdir = m /\ faults'.inFlush = f
    <3>1. faults.failures + 1 \in 0 .. MaxFailures
      BY <1>2, <2>0, DurableNumbers DEF Faults
    <3>2. faults' \in Faults
      BY <1>2, <2>0, <3>1, OneMoreFailure, Zenon
    <3>3. faults'.inMkdir = m /\ faults'.inFlush = f
      BY <1>2, <2>0 DEF Faults
    <3> QED
      BY <3>2, <3>3
  <2>1. faults' \in Faults /\ (faults'.inMkdir <=> faults.inMkdir \/ proc.at = "flushParent")
        /\ (faults'.inFlush <=> faults.inFlush \/ proc.at \in Flushing)
    BY <2>2 DEF m, f
  <2> QED
    BY <1>1, <1>4, <2>1, EndKeeps DEF Fails, Flushing, Removing
<1>5. CASE Kill
  <2> DEFINE m == faults.inMkdir \/ proc.at = "flushParent"
             f == faults.inFlush \/ proc.at \in Flushing \cup {"unlink"}
  <2>0. /\ faults' = [faults EXCEPT !.kills = @ + 1, !.inMkdir = m, !.inFlush = f]
        /\ faults.kills < MaxKills /\ m \in BOOLEAN /\ f \in BOOLEAN
    BY <1>5 DEF Kill
  <2> HIDE DEF m, f
  <2>2. faults' \in Faults /\ faults'.inMkdir = m /\ faults'.inFlush = f
    <3>1. faults.kills + 1 \in 0 .. MaxKills
      BY <1>2, <2>0, DurableNumbers DEF Faults
    <3>2. faults' \in Faults
      BY <1>2, <2>0, <3>1, OneMoreKill, Zenon
    <3>3. faults'.inMkdir = m /\ faults'.inFlush = f
      BY <1>2, <2>0 DEF Faults
    <3> QED
      BY <3>2, <3>3
  <2>1. faults' \in Faults /\ (faults'.inMkdir <=> faults.inMkdir \/ proc.at = "flushParent")
        /\ (faults'.inFlush <=> faults.inFlush \/ proc.at \in Flushing \cup {"unlink"})
    BY <2>2 DEF m, f
  <2> QED
    BY <1>1, <1>5, <2>1, EndKeeps DEF Flushing, Removing
<1> QED
  BY <1>3, <1>4, <1>5

LEMMA RenameKeeps == IInv /\ Rename => IInv'
<1> SUFFICES ASSUME IInv, Rename PROVE IInv'
  OBVIOUS
<1>1. /\ proc.at = "rename" /\ proc.flushed /\ proc.name \in Names /\ proc.new \in Versions
      /\ proc' = [proc EXCEPT !.at = "flushEntry"]
      /\ file' = [file EXCEPT ![proc.name] = proc.new]
      /\ said' = [said EXCEPT ![proc.name] = NoPromise]
      /\ survives' = [survives EXCEPT ![proc.name] = @ \cup {proc.new}]
      /\ UNCHANGED <<made, kept, scanned, faults>>
  BY DEF IInv, Walked, Rename, Becomes, Goto, Putting
<1>2. DurableTypeOK'
  BY <1>1 DEF IInv, DurableTypeOK, Contents, Calls, Operation
<1>3. Walked' /\ Checked'
  BY <1>1 DEF IInv, DurableTypeOK, Walked, Checked, Putting, Removing
<1>4. Complete'
  BY <1>1, DurableContents DEF IInv, DurableTypeOK, Complete
<1>5. Flushed' /\ Kept'
  BY <1>1 DEF IInv, DurableTypeOK, Flushed, Kept, Unsettled, Removing
<1> QED
  BY <1>2, <1>3, <1>4, <1>5 DEF IInv

\* A flush settles every entry, and promises only what it settled.
LEMMA FlushKeeps ==
    ASSUME IInv, proc.at \in {"flushEntry", "flushBatch"}, survives' = Settled, proc' = Idle,
           \A n \in Names : said'[n] \in {said[n], file[n]},
           said' \in [Names -> Contents \cup {NoPromise}],
           UNCHANGED <<made, kept, file, scanned, faults>>
    PROVE  IInv'
<1>1. survives' = [n \in Names |-> {file[n]}]
  <2>1. \A n \in Names : ~(n = proc.name /\ ~proc.flushed)
    BY DurableContents DEF IInv, Walked, Putting, Removing
  <2> QED
    BY <2>1 DEF Settled
<1>2. DurableTypeOK' /\ Walked' /\ Checked'
  BY <1>1, IdleIsProc DEF IInv, DurableTypeOK, Walked, Checked, Putting, Removing
<1>3. Complete' /\ Flushed'
  BY <1>1 DEF IInv, DurableTypeOK, Complete, Flushed
<1>4. Kept'
  <2>1. ~faults.inMkdir => Dirs \subseteq kept
    BY DEF IInv, Kept, Walked, Putting, Removing
  <2>2. ASSUME ~faults.inMkdir, NEW n \in Names, said'[n] # NoPromise
        PROVE  file[n] = said'[n]
    BY <2>2 DEF IInv, Kept, DurableTypeOK
  <2> QED
    BY <1>1, <2>1, <2>2, IdleIsProc DEF IInv, Kept
<1> QED
  BY <1>2, <1>3, <1>4 DEF IInv

LEMMA FlushesKeep == IInv /\ (FlushEntry \/ FlushBatch) => IInv'
<1> SUFFICES ASSUME IInv, FlushEntry \/ FlushBatch PROVE IInv'
  OBVIOUS
<1>1. \A S : Promised(S) \in [Names -> Contents \cup {NoPromise}]
             /\ \A n \in Names : Promised(S)[n] \in {said[n], file[n]}
  BY DEF IInv, DurableTypeOK, Promised
<1>2. said \in [Names -> Contents \cup {NoPromise}]
  BY DEF IInv, DurableTypeOK
<1> QED
  BY <1>1, <1>2, FlushKeeps DEF FlushEntry, FlushBatch

LEMMA RemovingKeeps ==
    ASSUME IInv, (\E S \in SUBSET Names : StartRemove(S)) \/ AllUnlinked \/ UnlinkFails
    PROVE  IInv'
<1>1. UNCHANGED <<made, kept, file, survives, scanned, said>>
  BY DEF StartRemove, AllUnlinked, UnlinkFails, Disk
<1>2. CASE \E S \in SUBSET Names : StartRemove(S)
  <2>1. PICK S \in SUBSET Names : StartRemove(S)
    BY <1>2
  <2>2. proc' = [Idle EXCEPT !.at = "unlink", !.batch = S] /\ Dirs \subseteq made /\ faults' = faults
        /\ proc.at = "idle"
    BY <2>1, DepthIsThere DEF StartRemove
  <2>3. proc'.at = "unlink" /\ proc'.batch = S /\ proc'.name = Nothing
    BY <2>2 DEF Idle
  <2>4. DurableTypeOK'
    BY <1>1, <2>2, IdleIsProc DEF IInv, DurableTypeOK, Calls, Operation
  <2>5. Walked' /\ Checked'
    BY <1>1, <2>2, <2>3 DEF Walked, Checked, Putting, Removing
  <2>6. Complete' /\ Flushed'
    BY <1>1, <2>2, <2>3 DEF IInv, Complete, Flushed, Unsettled, Removing
  <2>7. Kept'
    BY <1>1, <2>2, <2>3 DEF IInv, Kept
  <2> QED
    BY <2>4, <2>5, <2>6, <2>7 DEF IInv
<1>3. CASE AllUnlinked \/ UnlinkFails
  <2>1. /\ proc.at = "unlink"
        /\ \/ proc' = [proc EXCEPT !.at = "flushBatch"]
           \/ proc' = [proc EXCEPT !.at = "flushBatch", !.failed = TRUE]
        /\ faults' \in Faults /\ faults'.inMkdir = faults.inMkdir
        /\ faults'.inFlush = faults.inFlush
    BY <1>3, DurableNumbers DEF AllUnlinked, UnlinkFails, Goto, IInv, DurableTypeOK, Faults
  <2>2. DurableTypeOK'
    BY <1>1, <2>1 DEF IInv, DurableTypeOK, Calls, Operation
  <2>3. /\ proc'.at = "flushBatch"
        /\ \A f \in {"dir", "name", "new", "batch", "checks"} : proc'[f] = proc[f]
    BY <2>1 DEF IInv, DurableTypeOK, Operation
  <2>4. Walked' /\ Checked'
    BY <1>1, <2>1, <2>3 DEF IInv, Walked, Checked, Putting, Removing
  <2>5. Complete' /\ Flushed'
    BY <1>1, <2>1, <2>3 DEF IInv, Complete, Flushed, Unsettled, Removing
  <2>6. Kept'
    BY <1>1, <2>1, <2>3 DEF IInv, Kept
  <2> QED
    BY <2>2, <2>4, <2>5, <2>6 DEF IInv
<1> QED
  BY <1>2, <1>3

LEMMA UnlinkKeeps ==
    ASSUME IInv, NEW n \in Names, Unlink(n)
    PROVE  IInv'
<1>1. /\ proc.at = "unlink" /\ n \in proc.batch /\ UNCHANGED <<made, kept, scanned, proc, faults>>
      /\ file' = [file EXCEPT ![n] = Nothing] /\ said' = [said EXCEPT ![n] = NoPromise]
      /\ survives' = [survives EXCEPT ![n] = @ \cup {Nothing}]
  BY DEF Unlink, Becomes
<1>2. DurableTypeOK'
  BY <1>1 DEF IInv, DurableTypeOK, Contents
<1>3. Walked' /\ Checked'
  BY <1>1 DEF IInv, Walked, Checked, Putting, Removing
<1>4. Complete'
  BY <1>1, DurableContents DEF IInv, DurableTypeOK, Complete
<1>5. Flushed' /\ Kept'
  BY <1>1 DEF IInv, DurableTypeOK, Flushed, Kept, Unsettled, Removing
<1> QED
  BY <1>2, <1>3, <1>4, <1>5 DEF IInv

\* A loss of power takes back only what was not flushed: no directory while
\* no mkdir was cut off, so no promise.
LEMMA LosePowerKeeps == IInv /\ LosePower => IInv'
<1> SUFFICES ASSUME IInv, LosePower PROVE IInv'
  OBVIOUS
<1>1. PICK S \in SUBSET (made \ kept) : made' = {d \in made : \A e \in 1 .. d : e \notin S}
  BY DEF LosePower
<1>2. PICK f \in [Names -> Contents] :
         /\ \A n \in Names : f[n] \in survives[n]
         /\ file' = IF Dirs \subseteq made' THEN f ELSE [n \in Names |-> Nothing]
  BY DEF LosePower
<1>3. /\ proc' = Idle /\ kept' = made' /\ survives' = [n \in Names |-> {file'[n]}]
      /\ UNCHANGED <<scanned, said>>
      /\ faults' \in Faults /\ faults'.inMkdir = faults.inMkdir
      /\ faults'.inFlush = faults.inFlush
  BY DurableNumbers DEF LosePower, IInv, DurableTypeOK, Faults
<1>4. DurableTypeOK'
  <2>1. made' \subseteq Dirs
    BY <1>1 DEF IInv, DurableTypeOK
  <2>2. file' \in [Names -> Contents]
    BY <1>2 DEF Contents
  <2> QED
    BY <1>3, <2>1, <2>2, IdleIsProc DEF IInv, DurableTypeOK
<1>5. Walked' /\ Checked' /\ Flushed'
  BY <1>2, <1>3, IdleIsProc DEF Walked, Checked, Flushed, Unsettled, Putting, Removing
<1>6. Complete'
  BY <1>2, <1>3, DurableContents DEF IInv, Complete
<1>7. Kept'
  <2> SUFFICES ASSUME ~faults.inMkdir, NEW n \in Names, said[n] # NoPromise
               PROVE  Dirs \subseteq made' /\ {file'[n]} = {said[n]}
    BY <1>3, IdleIsProc DEF Kept
  <2>1. Dirs \subseteq kept /\ survives[n] = {said[n]}
    BY DEF IInv, Kept
  <2>2. S = {} /\ made' = made
    BY <1>1, <2>1 DEF IInv, DurableTypeOK
  <2> QED
    BY <1>2, <2>1, <2>2 DEF IInv, DurableTypeOK
<1> QED
  BY <1>4, <1>5, <1>6, <1>7 DEF IInv

LEMMA EditKeeps ==
    ASSUME IInv, NEW n \in Names, NEW c \in {Outside, Nothing}, Edit(n, c)
    PROVE  IInv'
<1> DEFINE b == proc.late \/ (n \in {proc.name} \cup proc.batch
                              /\ proc.at \in {"rename", "flushEntry", "unlink", "flushBatch"})
<1>1. /\ proc' = [proc EXCEPT !.late = b]
      /\ file' = [file EXCEPT ![n] = c] /\ said' = [said EXCEPT ![n] = NoPromise]
      /\ survives' = [survives EXCEPT ![n] = {c}]
      /\ UNCHANGED <<made, kept, scanned>>
      /\ faults' \in Faults /\ faults'.inMkdir = faults.inMkdir
      /\ faults'.inFlush = faults.inFlush
  BY DurableNumbers DEF Edit, Becomes, IInv, DurableTypeOK, Faults
<1>2. b \in BOOLEAN /\ (proc.late => b) /\ (proc.at = "rename" /\ n = proc.name => b)
  BY DEF IInv, DurableTypeOK
<1> HIDE DEF b
<1>3. DurableTypeOK'
  <2>1. proc' \in Operation
    BY <1>1, <1>2, IsLate, Zenon DEF IInv, DurableTypeOK
  <2>2. file' \in [Names -> Contents] /\ survives' \in [Names -> SUBSET Contents]
        /\ \A m \in Names : file'[m] \in survives'[m]
    BY <1>1 DEF IInv, DurableTypeOK, Contents
  <2>3. said' \in [Names -> Contents \cup {NoPromise}]
    BY <1>1 DEF IInv, DurableTypeOK
  <2> QED
    BY <1>1, <2>1, <2>2, <2>3 DEF IInv, DurableTypeOK
<1>4. Walked'
  BY <1>1 DEF IInv, DurableTypeOK, Walked, Putting, Removing
<1>5. Checked'
  BY <1>1, <1>2 DEF IInv, DurableTypeOK, Checked
<1>6. Complete'
  BY <1>1, DurableContents DEF IInv, DurableTypeOK, Complete
<1>7. Flushed' /\ Kept'
  BY <1>1 DEF IInv, DurableTypeOK, Flushed, Kept, Unsettled, Removing
<1> QED
  BY <1>3, <1>4, <1>5, <1>6, <1>7 DEF IInv

LEMMA NextKeeps == IInv /\ [Next]_vars => IInv'
<1> SUFFICES ASSUME IInv, [Next]_vars PROVE IInv'
  OBVIOUS
<1>1. CASE Next
  BY <1>1, RescanKeeps, StartPutKeeps, MakesDirectoryKeeps, DirectoryKeeps, StagingKeeps,
     EndingsKeep, RenameKeeps, FlushesKeep, RemovingKeeps, UnlinkKeeps, LosePowerKeeps, EditKeeps
     DEF Next
<1>2. CASE UNCHANGED vars
  BY <1>2 DEF vars, IInv, DurableTypeOK, Walked, Checked, Complete, Flushed, Kept, Unsettled,
              Putting, Removing
<1> QED
  BY <1>1, <1>2

\* The inductive invariant: how far an operation has come on the disk, and
\* what a loss of power could take back from it.
THEOREM DurableInduction == Spec => []IInv
BY InitHolds, NextKeeps, PTL DEF Spec

\* DurableInvariant, the run's property: whatever fails, is killed or loses
\* power, no name holds an incomplete file (stage_inner, commit), and an
\* operation that ended leaves nothing unflushed (fs.rs:327).
THEOREM FilesAlwaysDurable == Spec => []DurableInvariant
<1>1. IInv => DurableInvariant
  <2> SUFFICES ASSUME IInv PROVE DurableInvariant
    OBVIOUS
  <2>1. NeverTorn
    BY DEF IInv, DurableTypeOK, Complete, NeverTorn
  <2>2. NothingPending
    BY DEF IInv, Flushed, Unsettled, Removing, NothingPending
  <2> QED
    BY <2>1, <2>2 DEF IInv, DurableInvariant
<1> QED
  BY <1>1, DurableInduction, PTL

\* AcknowledgedStays, the run's property: an acknowledged installation or
\* removal is there until the name is changed again (SUMMARY.md:347).
THEOREM PromisesStay == Spec => []AcknowledgedStays
<1>1. IInv => AcknowledgedStays
  BY DEF IInv, DurableTypeOK, Kept, AcknowledgedStays
<1> QED
  BY <1>1, DurableInduction, PTL

\* EditsBeforeCheckStay, the run's property: an installation replaces only
\* what the scan found, but for an edit after the check (sync.rs:356).
THEOREM ChecksAreHeeded == Spec => EditsBeforeCheckStay
<1>1. IInv /\ [Next]_vars =>
        [proc.at = "rename" /\ proc.checks /\ proc'.at = "flushEntry" =>
          file[proc.name] = scanned[proc.name] \/ proc.late]_vars
  BY DEF IInv, Checked
<1> QED
  BY <1>1, DurableInduction, PTL DEF Spec, EditsBeforeCheckStay
=============================================================================
