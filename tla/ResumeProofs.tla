---------------------------- MODULE ResumeProofs ----------------------------
(***************************************************************************)
(* What the operators of Resume return, for every file and every chunk      *)
(* size.                                                                    *)
(***************************************************************************)
EXTENDS Resume, SequenceTheorems, WellFoundedInduction, TLAPS

\* Cutting a file to its first n bytes gives a file of n bytes.
LEMMA PrefixType ==
    ASSUME NEW f \in File, NEW n \in 0..Len(f)
    PROVE  /\ Prefix(f, n) \in File
           /\ Len(Prefix(f, n)) = n
           /\ \A i \in 1..n : Prefix(f, n)[i] = f[i]
<1>1. \A i \in 1..n : f[i] \in Byte
  BY ElementOfSeq DEF File
<1>2. n \in Int /\ 1 \in Int
  BY LenProperties DEF File
<1> QED
  BY <1>1, <1>2, SubSeqProperties DEF Prefix, File

\* os.File.Truncate: a file of n bytes, and when nothing had to be added its
\* bytes are the first n of the old ones.
LEMMA TruncateType ==
    ASSUME NEW f \in File \cup {None}, NEW n \in Nat
    PROVE  /\ Truncate(f, n) \in File
           /\ Len(Truncate(f, n)) = n
<1> DEFINE held == IF f = None THEN 0 ELSE Len(f)
<1>1. held \in Nat /\ \A i \in 1..held : f[i] \in Byte
  BY LenProperties, ElementOfSeq DEF File
<1>2. \A i \in 1..n : (IF i <= held THEN f[i] ELSE Zero) \in Byte
  BY <1>1, ByteAssumption
<1> QED
  BY <1>2 DEF Truncate, File

\* Two files of the same bytes are the same file.
LEMMA FileEqual ==
    ASSUME NEW f \in File, NEW g \in File, Len(f) = Len(g),
           \A i \in 1..Len(f) : f[i] = g[i]
    PROVE  f = g
BY SeqEqual DEF File

\* os.File.Write: a write leaves a file, and a write at the end appends.
LEMMA WriteAtType ==
    ASSUME NEW f \in File, NEW pos \in Nat, NEW data \in File
    PROVE  WriteAt(f, pos, data) \in File
<1> DEFINE n == IF Len(f) >= pos + Len(data) THEN Len(f) ELSE pos + Len(data)
           byte(i) == IF i \in (pos + 1)..(pos + Len(data)) THEN data[i - pos]
                      ELSE IF i <= Len(f) THEN f[i] ELSE Zero
<1>1. Len(f) \in Nat /\ Len(data) \in Nat /\ n \in Nat
  BY LenProperties DEF File
<1>2. ASSUME NEW i \in 1..n
      PROVE  byte(i) \in Byte
  <2>1. CASE i \in (pos + 1)..(pos + Len(data))
    <3>1. i - pos \in 1..Len(data)
      BY <1>1, <2>1
    <3> QED
      BY <2>1, <3>1, ElementOfSeq DEF File
  <2>2. CASE i \notin (pos + 1)..(pos + Len(data))
    BY <1>1, <2>2, ElementOfSeq, ByteAssumption DEF File
  <2> QED
    BY <2>1, <2>2
<1>3. [i \in 1..n |-> byte(i)] \in Seq(Byte)
  <2> HIDE DEF n, byte
  <2> QED
    BY <1>1, <1>2
<1> QED
  BY <1>3 DEF WriteAt, File

\* A write at the end of a file appends to it.
LEMMA WriteAtEndAppends ==
    ASSUME NEW f \in File, NEW data \in File
    PROVE  WriteAt(f, Len(f), data) = f \o data
<1>1. Len(f) \in Nat /\ Len(data) \in Nat
  BY LenProperties DEF File
<1>2. /\ f \o data \in File
      /\ Len(f \o data) = Len(f) + Len(data)
      /\ \A i \in 1..(Len(f) + Len(data)) :
            (f \o data)[i] = IF i <= Len(f) THEN f[i] ELSE data[i - Len(f)]
  BY ConcatProperties DEF File
<1>3. /\ WriteAt(f, Len(f), data) \in File
      /\ Len(WriteAt(f, Len(f), data)) = Len(f) + Len(data)
  BY <1>1, WriteAtType, LenProperties DEF File, WriteAt
<1>4. \A i \in 1..(Len(f) + Len(data)) : WriteAt(f, Len(f), data)[i] = (f \o data)[i]
  BY <1>1, <1>2 DEF WriteAt
<1> QED
  BY <1>2, <1>3, <1>4, FileEqual

\* Every set of natural numbers that is not empty has a least element.
LEMMA LeastNatural ==
    ASSUME NEW T \in SUBSET Nat, T # {}
    PROVE  \E x \in T : \A y \in T : x <= y
<1>1. PICK x \in T : \A y \in T : <<y, x>> \notin OpToRel(<, Nat)
  BY NatLessThanWellFounded, WFMin
<1>2. \A y \in T : ~(y < x)
  BY <1>1 DEF OpToRel
<1> QED
  BY <1>2

\* The loop of matchResume always stops: FirstBreak names a chunk, or the place
\* after the last one, all chunks before it agree, and it does not.
LEMMA FirstBreakExists ==
    ASSUME NEW dest, NEW q \in Query
    PROVE  /\ FirstBreak(dest, q) \in 1..(Len(q.Chunks) + 1)
           /\ FirstBreak(dest, q) <= Len(q.Chunks)
                => ~ChunkAgrees(dest, q, FirstBreak(dest, q))
           /\ \A j \in 1..(FirstBreak(dest, q) - 1) : ChunkAgrees(dest, q, j)
<1> DEFINE n == Len(q.Chunks)
           stops == {i \in 1..(n + 1) : i <= n => ~ChunkAgrees(dest, q, i)}
<1>1. n \in Nat
  BY LenProperties DEF Query
<1>2. stops \in SUBSET Nat /\ n + 1 \in stops
  BY <1>1
<1>3. PICK i \in stops : \A k \in stops : i <= k
  <2> HIDE DEF stops
  <2> QED
    BY <1>2, LeastNatural
<1>4. /\ i \in 1..(n + 1)
      /\ i <= n => ~ChunkAgrees(dest, q, i)
      /\ \A j \in 1..(i - 1) : ChunkAgrees(dest, q, j)
  BY <1>1, <1>3
<1> QED
  BY <1>4 DEF FirstBreak

\* A chunk is a file of at most ChunkSize bytes, which lie in f one after the
\* other from the place the chunk begins.
LEMMA ChunkAtType ==
    ASSUME NEW f \in File, NEW i \in Nat \ {0}
    PROVE  /\ ChunkAt(f, i) \in File
           /\ \A k \in 1..Len(ChunkAt(f, i)) : ChunkAt(f, i)[k] = f[(i - 1) * ChunkSize + k]
<1> DEFINE m == (i - 1) * ChunkSize
           n == AtMost(i * ChunkSize, Len(f))
<1>1. m \in Nat /\ i * ChunkSize \in Nat
  BY ChunkSizeAssumption
<1>2. Len(f) \in Nat /\ n \in Nat /\ n <= Len(f)
  BY <1>1, LenProperties DEF File, AtMost
<1>3. \A k \in (m + 1)..n : f[k] \in Byte
  BY <1>1, <1>2, ElementOfSeq DEF File
<1>4. /\ SubSeq(f, m + 1, n) \in File
      /\ Len(SubSeq(f, m + 1, n)) = IF m + 1 <= n THEN n - m ELSE 0
      /\ \A k \in 1..(n - m) : SubSeq(f, m + 1, n)[k] = f[m + k]
  <2> HIDE DEF m, n
  <2>1. m + 1 \in Int /\ n \in Int
    BY <1>1, <1>2
  <2> QED
    BY <1>1, <1>2, <1>3, <2>1, SubSeqProperties DEF File
<1>5. ChunkAt(f, i) = SubSeq(f, m + 1, n)
  BY DEF ChunkAt
<1> HIDE DEF m, n
<1>6. \A k \in 1..Len(ChunkAt(f, i)) : k \in 1..(n - m)
  BY <1>1, <1>2, <1>4, <1>5
<1> QED
  BY <1>4, <1>5, <1>6 DEF m

\* The sender's queries are well formed.
LEMMA ResumeQueryType ==
    ASSUME NEW size \in Nat, NEW f \in File
    PROVE  ResumeQuery(size, f) \in Query
<1>1. NumChunks(f) \in Nat
  BY LenProperties, ChunkSizeAssumption DEF NumChunks, File
<1>2. \A i \in 1..NumChunks(f) : ChunkAt(f, i) \in File
  BY <1>1, ChunkAtType
<1>3. [i \in 1..NumChunks(f) |-> ChunkAt(f, i)] \in Seq(File)
  BY <1>1, <1>2
<1> QED
  BY <1>3 DEF ResumeQuery, Query, hashFileChunks

\* The receiver's answer is an offset in the file it holds, and a completed one
\* is the announced size.
LEMMA matchResumeType ==
    ASSUME NEW dest \in File \cup {None}, NEW q \in Query
    PROVE  /\ matchResume(dest, q).complete \in BOOLEAN
           /\ matchResume(dest, q).offset \in Nat
           /\ dest # None => matchResume(dest, q).offset <= Len(dest)
<1>1. q.Size \in Nat
  BY DEF Query
<1>2. CASE dest = None
  BY <1>2 DEF matchResume
<1>3. CASE dest # None
  <2>1. Len(dest) \in Nat
    BY <1>3, LenProperties DEF File
  <2>2. FirstBreak(dest, q) - 1 \in Nat
    BY FirstBreakExists
  <2>3. (FirstBreak(dest, q) - 1) * ChunkSize \in Nat
    BY <2>2, ChunkSizeAssumption
  <2>4. MatchedBytes(dest, q) \in Nat /\ MatchedBytes(dest, q) <= Len(dest)
    BY <2>1, <2>3 DEF MatchedBytes, AtMost
  <2>5. \/ /\ matchResume(dest, q) = [offset |-> q.Size, complete |-> TRUE]
           /\ Len(dest) = q.Size
        \/ matchResume(dest, q) = [offset |-> 0, complete |-> TRUE]
        \/ matchResume(dest, q) =
                [offset |-> MatchedBytes(dest, q),
                 complete |-> (MatchedBytes(dest, q) = q.Size)]
    BY <1>3, Zenon DEF matchResume
  <2>6. PICK n, b : matchResume(dest, q) = [offset |-> n, complete |-> b]
                    /\ n \in {Len(dest), 0, MatchedBytes(dest, q)}
                    /\ b \in {TRUE, (MatchedBytes(dest, q) = q.Size)}
    <3>1. CASE /\ matchResume(dest, q) = [offset |-> q.Size, complete |-> TRUE]
               /\ Len(dest) = q.Size
      BY <3>1, Zenon
    <3>2. CASE matchResume(dest, q) = [offset |-> 0, complete |-> TRUE]
      BY <3>2, Zenon
    <3>3. CASE matchResume(dest, q) =
                [offset |-> MatchedBytes(dest, q),
                 complete |-> (MatchedBytes(dest, q) = q.Size)]
      BY <3>3, Zenon
    <3> QED
      BY <2>5, <3>1, <3>2, <3>3
  <2>7. b \in BOOLEAN
    BY <2>6, Zenon
  <2> QED
    BY <2>1, <2>4, <2>6, <2>7
<1> QED
  BY <1>2, <1>3

\* Every place p of a file lies in exactly one chunk.
LEMMA ChunkOfPlace ==
    ASSUME NEW p \in Nat \ {0}
    PROVE  \E i \in Nat \ {0} : (i - 1) * ChunkSize < p /\ p <= i * ChunkSize
<1> DEFINE T == {i \in Nat : p <= i * ChunkSize}
<1>1. p \in T
  <2>1. \A m, n \in Nat \ {0} : m <= m * n
    OBVIOUS
  <2> QED
    BY <2>1, ChunkSizeAssumption
<1>2. PICK i \in T : \A j \in T : i <= j
  <2>1. T \in SUBSET Nat /\ T # {}
    BY <1>1
  <2> QED
    BY <2>1, LeastNatural
<1>3. i # 0
  BY ChunkSizeAssumption
<1>4. i - 1 \in Nat /\ i - 1 \notin T
  BY <1>2, <1>3
<1>5. (i - 1) * ChunkSize \in Nat
  BY <1>4, ChunkSizeAssumption
<1> QED
  BY <1>3, <1>4, <1>5

\* How long the i-th chunk is.
LEMMA ChunkAtLen ==
    ASSUME NEW f \in File, NEW i \in Nat \ {0}
    PROVE  Len(ChunkAt(f, i)) =
              IF (i - 1) * ChunkSize < Len(f)
              THEN AtMost(i * ChunkSize, Len(f)) - (i - 1) * ChunkSize ELSE 0
<1> DEFINE m == (i - 1) * ChunkSize
           n == AtMost(i * ChunkSize, Len(f))
<1>1. /\ m \in Nat
      /\ i * ChunkSize = m + ChunkSize
      /\ ChunkSize \in Nat \ {0}
  BY ChunkSizeAssumption
<1>2. /\ Len(f) \in Nat /\ n \in Nat /\ n <= Len(f)
      /\ m < Len(f) <=> m + 1 <= n
  BY <1>1, LenProperties DEF File, AtMost
<1>3. \A k \in (m + 1)..n : f[k] \in Byte
  BY <1>1, <1>2, ElementOfSeq DEF File
<1>4. Len(SubSeq(f, m + 1, n)) = IF m + 1 <= n THEN n - m ELSE 0
  <2> HIDE DEF m, n
  <2>1. m + 1 \in Int /\ n \in Int
    BY <1>1, <1>2
  <2>2. Len(SubSeq(f, m + 1, n)) = IF m + 1 <= n THEN n - (m + 1) + 1 ELSE 0
    BY <1>3, <2>1, SubSeqProperties
  <2> QED
    BY <1>1, <1>2, <2>2
<1>5. ChunkAt(f, i) = SubSeq(f, m + 1, n)
  BY DEF ChunkAt
<1> QED
  BY <1>2, <1>4, <1>5

\* The receiver resumes after bytes that are the sender's: what lies before the
\* resume point is the same in the destination and in the file the queries
\* were made from, for files of any length and chunks of any size.
THEOREM ResumePointIsShared ==
    ASSUME NEW dest \in File, NEW f \in File, NEW size \in Nat
    PROVE  LET n == MatchedBytes(dest, ResumeQuery(size, f))
           IN  /\ n <= Len(dest)
               /\ n <= Len(f)
               /\ Prefix(dest, n) = Prefix(f, n)
<1> DEFINE q == ResumeQuery(size, f)
           k == FirstBreak(dest, q) - 1
           n == MatchedBytes(dest, q)
<1>1. q \in Query
  BY ResumeQueryType
<1>2. /\ Len(dest) \in Nat /\ Len(f) \in Nat /\ NumChunks(f) \in Nat
      /\ q.Chunks = [i \in 1..NumChunks(f) |-> ChunkAt(f, i)]
      /\ Len(q.Chunks) = NumChunks(f)
  <2>1. Len(dest) \in Nat /\ Len(f) \in Nat /\ NumChunks(f) \in Nat
    BY LenProperties, ChunkSizeAssumption DEF File, NumChunks
  <2>2. q.Chunks = [i \in 1..NumChunks(f) |-> ChunkAt(f, i)]
    BY DEF ResumeQuery, hashFileChunks
  <2> QED
    BY <2>1, <2>2
<1>3. /\ k \in 0..NumChunks(f)
      /\ \A i \in 1..k : ChunkAt(dest, i) = ChunkAt(f, i)
  <2>1. k \in 0..NumChunks(f)
    BY <1>1, <1>2, FirstBreakExists
  <2>2. \A i \in 1..k : ChunkAgrees(dest, q, i)
    BY <1>1, FirstBreakExists
  <2> HIDE DEF k, q
  <2>3. ASSUME NEW i \in 1..k
        PROVE  ChunkAt(dest, i) = ChunkAt(f, i)
    <3>1. i \in 1..NumChunks(f)
      BY <1>2, <2>1
    <3>2. ChunkAt(dest, i) = q.Chunks[i]
      BY <2>2 DEF ChunkAgrees
    <3> QED
      BY <1>2, <3>1, <3>2
  <2> QED
    BY <2>1, <2>3
<1>4. /\ k * ChunkSize \in Nat
      /\ n = AtMost(k * ChunkSize, Len(dest))
  BY <1>2, <1>3, ChunkSizeAssumption DEF MatchedBytes
<1>5. n \in Nat /\ n <= Len(dest) /\ n <= k * ChunkSize
  BY <1>2, <1>4 DEF AtMost
<1> HIDE DEF q, k, n
<1>6. ASSUME NEW p \in 1..n
      PROVE  p <= Len(f) /\ dest[p] = f[p]
  <2>0. p \in Nat \ {0}
    BY <1>5
  <2>1. PICK i \in Nat \ {0} : (i - 1) * ChunkSize < p /\ p <= i * ChunkSize
    BY <2>0, ChunkOfPlace
  <2> DEFINE m == (i - 1) * ChunkSize
  <2>2. m \in Nat /\ i * ChunkSize = m + ChunkSize /\ m < p /\ p <= m + ChunkSize
    BY <2>1, ChunkSizeAssumption
  <2>3. i \in 1..k
    <3>1. m < k * ChunkSize
      BY <1>4, <1>5, <2>2
    <3>2. ASSUME k <= i - 1 PROVE FALSE
      <4>1. \A a, b, d \in Nat : a <= b => a * d <= b * d
        OBVIOUS
      <4>2. k * ChunkSize <= m
        BY <1>3, <3>2, <4>1, ChunkSizeAssumption
      <4> QED
        BY <1>4, <2>2, <3>1, <4>2
    <3> QED
      BY <1>3, <3>2
  <2>4. ChunkAt(dest, i) = ChunkAt(f, i)
    BY <1>3, <2>3
  <2>5. p - m \in 1..Len(ChunkAt(dest, i))
    <3>1. Len(ChunkAt(dest, i)) = AtMost(m + ChunkSize, Len(dest)) - m
      BY <1>2, <1>5, <2>2, ChunkAtLen
    <3> HIDE DEF m
    <3> QED
      BY <1>2, <1>5, <2>2, <3>1, ChunkSizeAssumption DEF AtMost
  <2>6. p <= Len(f)
    <3>1. Len(ChunkAt(f, i)) = IF m < Len(f) THEN AtMost(m + ChunkSize, Len(f)) - m ELSE 0
      BY <2>2, ChunkAtLen
    <3> HIDE DEF m
    <3> QED
      BY <1>2, <2>2, <2>4, <2>5, <3>1, ChunkSizeAssumption DEF AtMost
  <2>7. /\ ChunkAt(dest, i)[p - m] = dest[m + (p - m)]
        /\ ChunkAt(f, i)[p - m] = f[m + (p - m)]
    BY <2>4, <2>5, ChunkAtType
  <2>8. m + (p - m) = p
    BY <2>2
  <2> QED
    BY <2>4, <2>6, <2>7, <2>8
<1>7. n <= Len(f)
  <2>1. CASE n = 0
    BY <1>2, <2>1
  <2>2. CASE n # 0
    BY <1>5, <1>6, <2>2
  <2> QED
    BY <2>1, <2>2
<1>8. Prefix(dest, n) = Prefix(f, n)
  <2>1. n \in 0..Len(dest) /\ n \in 0..Len(f)
    BY <1>2, <1>5, <1>7
  <2> QED
    BY <1>6, <2>1, PrefixType, FileEqual
<1> QED
  BY <1>5, <1>7, <1>8 DEF n, q

\* A file that is skipped holds the announced bytes at least up to the announced
\* size, also when the source changed between the stat and the hashing.
THEOREM SkipIsBacked ==
    ASSUME NEW dest \in File \cup {None}, NEW f \in File, NEW size \in Nat \ {0},
           matchResume(dest, ResumeQuery(size, f)).complete
    PROVE  /\ dest # None /\ size <= Len(dest) /\ size <= Len(f)
           /\ Prefix(dest, size) = Prefix(f, size)
<1> DEFINE q == ResumeQuery(size, f)
<1>1. q.Size = size /\ q.SHA256 = f
  BY DEF ResumeQuery, hashFileChunks
<1>2. dest \in File /\ dest # None
  BY DEF matchResume
<1>3. Len(dest) \in Nat
  BY <1>2, LenProperties DEF File
<1>4. CASE Len(dest) = size /\ dest = f
  BY <1>2, <1>3, <1>4
<1>5. CASE ~(Len(dest) = size /\ dest = f)
  <2>1. MatchedBytes(dest, q) = size
    <3> HIDE DEF q
    <3> QED
      BY <1>1, <1>2, <1>5 DEF matchResume, q
  <2> QED
    BY <1>2, <2>1, ResumePointIsShared
<1> QED
  BY <1>4, <1>5

\* As many chunks are in a file as fit.
LEMMA ChunksThatFit ==
    ASSUME NEW f \in File, NEW m \in Nat, m * ChunkSize <= Len(f)
    PROVE  m <= NumChunks(f)
<1> DEFINE x == Len(f) + ChunkSize - 1
           d == x \div ChunkSize
<1>1. Len(f) \in Nat /\ x \in Nat /\ ChunkSize \in Nat \ {0}
  BY LenProperties, ChunkSizeAssumption DEF File
<1>2. d \in Nat /\ x < (d + 1) * ChunkSize
  <2> HIDE DEF x
  <2> QED
    BY <1>1
<1>3. m * ChunkSize \in Nat /\ m * ChunkSize <= x
  BY <1>1
<1> HIDE DEF d
<1>4. ASSUME d + 1 <= m PROVE FALSE
  <2>1. \A a, b, c \in Nat : a <= b => a * c <= b * c
    OBVIOUS
  <2>2. (d + 1) * ChunkSize <= m * ChunkSize /\ (d + 1) * ChunkSize \in Nat
    BY <1>1, <1>2, <1>4, <2>1
  <2> HIDE DEF x
  <2> QED
    BY <1>1, <1>2, <1>3, <2>2
<1> QED
  BY <1>2, <1>4 DEF d, NumChunks

\* No chunk is sent again that both files share with all before it: unless the file
\* is skipped, the resume point is at or after the end of any such chunk.
THEOREM ResumePointIsMaximal ==
    ASSUME NEW dest \in File, NEW f \in File, NEW size \in Nat, NEW m \in Nat,
           m * ChunkSize <= Len(dest), m * ChunkSize <= Len(f),
           Prefix(dest, m * ChunkSize) = Prefix(f, m * ChunkSize),
           ~matchResume(dest, ResumeQuery(size, f)).complete
    PROVE  m * ChunkSize <= matchResume(dest, ResumeQuery(size, f)).offset
<1> DEFINE q == ResumeQuery(size, f)
           k == FirstBreak(dest, q)
<1>1. q \in Query
  BY ResumeQueryType
<1>2. /\ Len(dest) \in Nat /\ Len(f) \in Nat /\ NumChunks(f) \in Nat
      /\ q.Chunks = [i \in 1..NumChunks(f) |-> ChunkAt(f, i)]
      /\ Len(q.Chunks) = NumChunks(f)
      /\ m <= NumChunks(f) /\ m <= NumChunks(dest) /\ m * ChunkSize \in Nat
  <2>1. Len(dest) \in Nat /\ Len(f) \in Nat /\ NumChunks(f) \in Nat /\ m * ChunkSize \in Nat
    BY LenProperties, ChunkSizeAssumption DEF File, NumChunks
  <2>2. q.Chunks = [i \in 1..NumChunks(f) |-> ChunkAt(f, i)]
    BY DEF ResumeQuery, hashFileChunks
  <2> QED
    BY <2>1, <2>2, ChunksThatFit
<1>3. k \in Nat \ {0}
  BY <1>1, <1>2, FirstBreakExists
<1>4. ASSUME k <= m PROVE FALSE
  <2>1. ~ChunkAgrees(dest, q, k)
    BY <1>1, <1>2, <1>4, FirstBreakExists
  <2> HIDE DEF k
  <2> DEFINE s == (k - 1) * ChunkSize
  <2>2. s \in Nat /\ k * ChunkSize = s + ChunkSize /\ ChunkSize \in Nat \ {0}
    BY <1>3, ChunkSizeAssumption
  <2>3. k * ChunkSize <= m * ChunkSize
    <3>1. \A a, b, c \in Nat : a <= b => a * c <= b * c
      OBVIOUS
    <3> QED
      BY <1>3, <1>4, <2>2, <3>1
  <2> HIDE DEF s
  <2>4. s + ChunkSize <= Len(dest) /\ s + ChunkSize <= Len(f) /\ s < Len(dest) /\ s < Len(f)
    BY <1>2, <2>2, <2>3
  <2>5. Len(ChunkAt(dest, k)) = ChunkSize /\ Len(ChunkAt(f, k)) = ChunkSize
    <3>1. \A g \in {dest, f} : Len(ChunkAt(g, k)) = AtMost(s + ChunkSize, Len(g)) - s
      BY <1>3, <2>2, <2>4, ChunkAtLen DEF s
    <3> QED
      BY <1>2, <2>2, <2>4, <3>1 DEF AtMost
  <2>6. ASSUME NEW i \in 1..ChunkSize PROVE ChunkAt(dest, k)[i] = ChunkAt(f, k)[i]
    <3>1. ChunkAt(dest, k)[i] = dest[s + i] /\ ChunkAt(f, k)[i] = f[s + i]
      BY <1>3, <2>5, ChunkAtType DEF s
    <3>2. s + i \in 1..(m * ChunkSize)
      BY <1>2, <2>2, <2>3
    <3>3. m * ChunkSize \in 0..Len(dest) /\ m * ChunkSize \in 0..Len(f)
      BY <1>2
    <3>4. dest[s + i] = f[s + i]
      <4> DEFINE n == m * ChunkSize
      <4> HIDE DEF n
      <4>1. Prefix(dest, n)[s + i] = dest[s + i] /\ Prefix(f, n)[s + i] = f[s + i]
        BY <3>2, <3>3, PrefixType DEF n
      <4> QED
        BY <4>1 DEF n
    <3> QED
      BY <3>1, <3>4
  <2>7. ChunkAt(dest, k) = ChunkAt(f, k)
    BY <1>3, <2>5, <2>6, ChunkAtType, FileEqual
  <2>8. ChunkAgrees(dest, q, k)
    <3>1. k \in 1..NumChunks(f) /\ k <= NumChunks(dest)
      BY <1>2, <1>3, <1>4, ChunkSizeAssumption, LenProperties DEF NumChunks
    <3>2. q.Chunks[k] = ChunkAt(f, k)
      BY <1>2, <3>1
    <3> QED
      BY <2>7, <3>1, <3>2 DEF ChunkAgrees
  <2> QED
    BY <2>1, <2>8
<1>5. m * ChunkSize <= (k - 1) * ChunkSize /\ (k - 1) * ChunkSize \in Nat
  <2> HIDE DEF k
  <2>1. \A a, b, c \in Nat : a <= b => a * c <= b * c
    OBVIOUS
  <2>2. m <= k - 1 /\ k - 1 \in Nat
    BY <1>3, <1>4
  <2> QED
    BY <2>1, <2>2, ChunkSizeAssumption
<1>6. MatchedBytes(dest, q) = AtMost((k - 1) * ChunkSize, Len(dest))
  BY DEF MatchedBytes
<1>7. m * ChunkSize <= MatchedBytes(dest, q)
  <2> HIDE DEF k, q
  <2> QED
    BY <1>2, <1>5, <1>6 DEF AtMost
<1>8. matchResume(dest, q).offset = MatchedBytes(dest, q)
  <2>1. dest # None
    BY NoneAssumption DEF File
  <2> QED
    BY <2>1 DEF matchResume
<1> QED
  BY <1>7, <1>8

\* The chunks of a file are those that begin in it.
LEMMA ChunkBegins ==
    ASSUME NEW f \in File, NEW i \in Nat \ {0}
    PROVE  i <= NumChunks(f) <=> (i - 1) * ChunkSize < Len(f)
<1> DEFINE x == Len(f) + ChunkSize - 1
           d == x \div ChunkSize
           m == (i - 1) * ChunkSize
<1>1. Len(f) \in Nat /\ x \in Nat /\ ChunkSize \in Nat \ {0}
  BY LenProperties, ChunkSizeAssumption DEF File
<1>2. d \in Nat /\ d * ChunkSize <= x /\ x < (d + 1) * ChunkSize
  <2> HIDE DEF x
  <2> QED
    BY <1>1
<1>3. m \in Nat /\ i * ChunkSize = m + ChunkSize /\ i * ChunkSize \in Nat
  BY <1>1
<1>4. \A a, b, c \in Nat : a <= b => a * c <= b * c
  OBVIOUS
<1> HIDE DEF d, m
<1>5. CASE i <= d
  <2>1. i * ChunkSize <= d * ChunkSize /\ d * ChunkSize \in Nat
    BY <1>1, <1>2, <1>4, <1>5
  <2> QED
    BY <1>1, <1>2, <1>3, <1>5, <2>1 DEF NumChunks, d, m
<1>6. CASE d + 1 <= i
  <2>1. (d + 1) * ChunkSize <= i * ChunkSize /\ (d + 1) * ChunkSize \in Nat
    BY <1>1, <1>2, <1>4, <1>6
  <2>2. ~(m < Len(f))
    BY <1>1, <1>2, <1>3, <2>1
  <2> QED
    BY <1>2, <1>6, <2>2 DEF NumChunks, d, m
<1> QED
  BY <1>2, <1>5, <1>6

=============================================================================
