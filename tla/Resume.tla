------------------------------- MODULE Resume -------------------------------
(***************************************************************************)
(* Files, their chunk digests, and the decision where a transfer resumes    *)
(* (internal/transfer.go).                                                  *)
(*                                                                         *)
(* A file is a sequence of bytes.  A SHA-256 digest is modelled by the very *)
(* bytes it is the digest of: two digests are equal exactly when the bytes  *)
(* are, which is what the code relies on.  A file that does not exist is    *)
(* the value None.                                                          *)
(***************************************************************************)
EXTENDS Integers, Sequences

CONSTANTS
    Byte,       \* the byte values a file can hold
    Zero,       \* the byte a file is filled with when it is extended
    None,       \* "no such file", "no digest yet"
    ChunkSize   \* ChunkSize of transfer.go, 1 MiB in the program

ASSUME ByteAssumption == Zero \in Byte
ASSUME NoneAssumption == None \notin Seq(Byte)
ASSUME ChunkSizeAssumption == ChunkSize \in Nat \ {0}

File == Seq(Byte)

AtMost(a, b) == IF a <= b THEN a ELSE b

-----------------------------------------------------------------------------
(* What the operating system does for the code.                            *)

\* The first n bytes of f; only used with n <= Len(f).
Prefix(f, n) == SubSeq(f, 1, n)

\* Mutant: a file that is already longer keeps its tail.
Truncate_NeverCuts(f, n) ==
    LET held == IF f = None THEN 0 ELSE Len(f)
    IN  [i \in 1..(IF held > n THEN held ELSE n) |-> IF i <= held THEN f[i] ELSE Zero]

\* os.File.Truncate(n) on a file just opened with O_CREATE: cut, or extended
\* with zeros.
Truncate(f, n) ==
    LET held == IF f = None THEN 0 ELSE Len(f)
    IN  [i \in 1..n |-> IF i <= held THEN f[i] ELSE Zero]

\* Mutant: the file is opened with O_APPEND.
WriteAt_Appends(f, pos, data) == f \o data

\* os.File.Write(data) at offset pos.  A gap between the end of the file and
\* pos reads as zeros.
WriteAt(f, pos, data) ==
    [i \in 1..(IF Len(f) >= pos + Len(data) THEN Len(f) ELSE pos + Len(data)) |->
        IF i \in (pos + 1)..(pos + Len(data)) THEN data[i - pos]
        ELSE IF i <= Len(f) THEN f[i] ELSE Zero]

-----------------------------------------------------------------------------
(* Chunks.                                                                 *)

NumChunks(f) == (Len(f) + ChunkSize - 1) \div ChunkSize

\* The i-th io.ReadFull(f, buf) with a buffer of ChunkSize bytes: a whole
\* chunk, or whatever is left.
ChunkAt(f, i) ==
    SubSeq(f, (i - 1) * ChunkSize + 1, AtMost(i * ChunkSize, Len(f)))

hashFileChunks(f) ==
    [Full |-> f, Chunks |-> [i \in 1..NumChunks(f) |-> ChunkAt(f, i)]]

\* The query carries the size found by the stat before the handshake and the
\* digests of a later read: they disagree when the source was edited between.
ResumeQuery(size, f) ==
    [Size |-> size, SHA256 |-> hashFileChunks(f).Full,
     Chunks |-> hashFileChunks(f).Chunks]

Query == [Size : Nat, SHA256 : File, Chunks : Seq(File)]

\* In a batch, None stands for a file that is not asked about.
ASSUME NoQueryAssumption == None \notin Query

-----------------------------------------------------------------------------
(* matchResume.                                                            *)

\* Mutant: a torn chunk at the end of the file passes when its bytes are right.
ChunkAgrees_Torn(dest, q, i) ==
    /\ i <= NumChunks(dest)
    /\ ChunkAt(dest, i) = Prefix(q.Chunks[i], AtMost(Len(ChunkAt(dest, i)), Len(q.Chunks[i])))

\* Chunk i of the file on disk was read (it is not empty) and has the digest
\* the sender announced.
ChunkAgrees(dest, q, i) ==
    /\ i <= NumChunks(dest)
    /\ ChunkAt(dest, i) = q.Chunks[i]

\* Where the loop over the announced digests stops: at the first chunk that is
\* missing or differs, or past the last one.  A short chunk is the last of the
\* file, so the loop's "n < len(buf)" exit is the absence of a next chunk.
FirstBreak(dest, q) ==
    CHOOSE i \in 1..(Len(q.Chunks) + 1) :
        /\ i <= Len(q.Chunks) => ~ChunkAgrees(dest, q, i)
        /\ \A j \in 1..(i - 1) : ChunkAgrees(dest, q, j)

\* Mutant: one chunk too few.
MatchedBytes_OneLess(dest, q) ==
    AtMost((FirstBreak(dest, q) - 2) * ChunkSize, Len(dest))

\* Mutant: the chunk that differs is counted.
MatchedBytes_OneMore(dest, q) ==
    AtMost(FirstBreak(dest, q) * ChunkSize, Len(dest))

\* The bytes of the chunks that agreed.
MatchedBytes(dest, q) ==
    AtMost((FirstBreak(dest, q) - 1) * ChunkSize, Len(dest))

\* Mutant: a file of the right size is taken to be complete.
matchResume_SizeOnly(dest, q) ==
    LET answer(offset, complete) == [offset |-> offset, complete |-> complete]
    IN  IF dest = None THEN answer(0, FALSE)
        ELSE IF Len(dest) = q.Size THEN answer(q.Size, TRUE)
        ELSE answer(MatchedBytes(dest, q), MatchedBytes(dest, q) = q.Size)

\* Mutant: a file longer than the source starts over.
matchResume_LongerStartsOver(dest, q) ==
    LET answer(offset, complete) == [offset |-> offset, complete |-> complete]
    IN  IF dest = None \/ Len(dest) > q.Size THEN answer(0, FALSE)
        ELSE IF Len(dest) = q.Size /\ dest = q.SHA256 THEN answer(q.Size, TRUE)
        ELSE answer(MatchedBytes(dest, q), MatchedBytes(dest, q) = q.Size)

matchResume(dest, q) ==
    LET answer(offset, complete) == [offset |-> offset, complete |-> complete]
        sameSize == Len(dest) = q.Size
    IN  IF dest = None THEN answer(0, FALSE)
        ELSE IF sameSize /\ dest = q.SHA256 THEN answer(q.Size, TRUE)
        ELSE IF sameSize /\ q.Size = 0 THEN answer(0, TRUE)
        ELSE answer(MatchedBytes(dest, q), MatchedBytes(dest, q) = q.Size)

=============================================================================
