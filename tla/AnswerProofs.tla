---------------------------- MODULE AnswerProofs ----------------------------
(***************************************************************************)
(* The receiver's answer to a resume query, for every pair of files of any  *)
(* length, any chunk size, and sources edited between the stat and the      *)
(* hashing; and the loop of matchResume as written.                         *)
(***************************************************************************)
EXTENDS MCResume, ResumeProofs

-----------------------------------------------------------------------------
(* Where the answer lies.                                                  *)

\* A matched part ends on the boundary of a chunk, or where both files end.
LEMMA MatchedOnBoundary ==
    ASSUME NEW d \in File, NEW f \in File, NEW s \in Nat
    PROVE  LET n == MatchedBytes(d, ResumeQuery(s, f))
           IN  (\E m \in Nat : n = m * ChunkSize) \/ n = Len(f)
<1> DEFINE q == ResumeQuery(s, f)
           k == FirstBreak(d, q) - 1
           n == MatchedBytes(d, q)
<1>1. q \in Query
  BY ResumeQueryType
<1>2. /\ Len(d) \in Nat /\ Len(f) \in Nat /\ NumChunks(f) \in Nat
      /\ q.Chunks = [i \in 1..NumChunks(f) |-> ChunkAt(f, i)]
      /\ Len(q.Chunks) = NumChunks(f)
  <2>1. Len(d) \in Nat /\ Len(f) \in Nat /\ NumChunks(f) \in Nat
    BY LenProperties, ChunkSizeAssumption DEF File, NumChunks
  <2>2. q.Chunks = [i \in 1..NumChunks(f) |-> ChunkAt(f, i)]
    BY DEF ResumeQuery, hashFileChunks
  <2> QED
    BY <2>1, <2>2
<1>3. k \in 0..NumChunks(f)
  BY <1>1, <1>2, FirstBreakExists
<1>4. k # 0 => ChunkAt(d, k) = ChunkAt(f, k)
  <2>1. k # 0 => ChunkAgrees(d, q, k)
    BY <1>1, <1>3, FirstBreakExists
  <2> HIDE DEF k, q
  <2>2. k # 0 => k \in 1..NumChunks(f)
    BY <1>2, <1>3
  <2> QED
    BY <1>2, <2>1, <2>2 DEF ChunkAgrees
<1>5. /\ k * ChunkSize \in Nat
      /\ n = AtMost(k * ChunkSize, Len(d))
  BY <1>2, <1>3, ChunkSizeAssumption DEF MatchedBytes
<1> HIDE DEF q, k, n
<1>6. CASE k * ChunkSize <= Len(d)
  BY <1>3, <1>5, <1>6 DEF AtMost, n, q
<1>7. CASE Len(d) < k * ChunkSize
  <2>1. k # 0
    BY <1>2, <1>7, ChunkSizeAssumption
  <2> DEFINE m == (k - 1) * ChunkSize
  <2>2. m \in Nat /\ k * ChunkSize = m + ChunkSize /\ ChunkSize \in Nat \ {0}
    BY <1>2, <1>3, <2>1, ChunkSizeAssumption
  <2>3. /\ Len(ChunkAt(d, k)) =
             IF m < Len(d) THEN AtMost(m + ChunkSize, Len(d)) - m ELSE 0
        /\ Len(ChunkAt(f, k)) =
             IF m < Len(f) THEN AtMost(m + ChunkSize, Len(f)) - m ELSE 0
    BY <1>3, <2>1, <2>2, ChunkAtLen
  <2> HIDE DEF m
  <2>4. m < Len(f)
    <3>1. k <= NumChunks(f)
      BY <1>2, <1>3
    <3> QED
      BY <1>3, <2>1, <3>1, ChunkBegins DEF m
  <2>5. Len(f) = Len(d)
    BY <1>2, <1>4, <1>7, <2>1, <2>2, <2>3, <2>4 DEF AtMost
  <2> QED
    BY <1>2, <1>5, <1>7, <2>5 DEF AtMost, n, q
<1> QED
  BY <1>2, <1>5, <1>6, <1>7

-----------------------------------------------------------------------------
(* The states.                                                             *)

\* The answer, once it is given, is matchResume's.
AnswerInv ==
    /\ dest \in File \cup {None} /\ body \in File /\ size \in Nat
    /\ answer = None \/ answer = matchResume(dest, ResumeQuery(size, body))

\* Every state has one of these.
LEMMA AnswerInvariant == Spec => []AnswerInv
<1>1. Init => AnswerInv
  <2> SUFFICES ASSUME Init PROVE AnswerInv
    OBVIOUS
  <2>1. SmallFile \subseteq File
    <3> SUFFICES ASSUME NEW n \in 0..MaxLen PROVE [1..n -> Byte] \subseteq File
      BY DEF SmallFile
    <3>1. n \in Nat
      OBVIOUS
    <3> QED
      BY <3>1 DEF File
  <2>2. body \in File /\ Len(body) \in Nat
    BY <2>1, LenProperties DEF Init, File
  <2> QED
    BY <2>1, <2>2 DEF Init, AnswerInv
<1>2. AnswerInv /\ [Next]_vars => AnswerInv'
  BY DEF AnswerInv, Next, Ask, vars
<1> QED
  BY <1>1, <1>2, PTL DEF Spec

\* Of a file that is there and not complete, the answer is the part that matched.
LEMMA OffsetMatched ==
    ASSUME NEW d \in File, NEW q \in Query, ~matchResume(d, q).complete
    PROVE  matchResume(d, q).offset = MatchedBytes(d, q)
<1>1. d # None
  BY NoneAssumption DEF File
<1> QED
  BY <1>1 DEF matchResume

\* A transfer resumed at the answer keeps only bytes that both files have at the
\* same place, ends on a chunk boundary or with the source, and never extends
\* the file on disk (matchResume, receiveFile).
THEOREM ResumePointSoundAlways == Spec => []ResumePointSound
<1>1. ASSUME AnswerInv PROVE ResumePointSound
  <2> SUFFICES ASSUME answer # None, ~answer.complete
               PROVE  /\ answer.offset = 0 \/ (dest # None /\ answer.offset <= Len(dest))
                      /\ answer.offset <= Len(body)
                      /\ answer.offset % ChunkSize = 0 \/ answer.offset = Len(body)
                      /\ answer.offset > 0 =>
                            Prefix(dest, answer.offset) = Prefix(body, answer.offset)
    BY DEF ResumePointSound
  <2> DEFINE q == ResumeQuery(size, body)
             n == MatchedBytes(dest, q)
  <2>1. /\ body \in File /\ size \in Nat /\ q \in Query /\ Len(body) \in Nat
        /\ answer = matchResume(dest, q)
    BY <1>1, ResumeQueryType, LenProperties DEF AnswerInv, File
  <2>2. CASE dest = None
    <3>1. answer.offset = 0
      BY <2>1, <2>2 DEF matchResume
    <3> QED
      BY <2>1, <3>1, ChunkSizeAssumption
  <2>3. CASE dest # None
    <3>1. dest \in File
      BY <1>1, <2>3 DEF AnswerInv
    <3>2. answer.offset = n
      <4> HIDE DEF q
      <4> QED
        BY <2>1, <3>1, OffsetMatched
    <3>3. n <= Len(dest) /\ n <= Len(body) /\ Prefix(dest, n) = Prefix(body, n)
      BY <2>1, <3>1, ResumePointIsShared
    <3>4. n % ChunkSize = 0 \/ n = Len(body)
      <4>1. ASSUME NEW m \in Nat PROVE (m * ChunkSize) % ChunkSize = 0
        BY ChunkSizeAssumption
      <4>2. (\E m \in Nat : n = m * ChunkSize) \/ n = Len(body)
        BY <2>1, <3>1, MatchedOnBoundary
      <4> HIDE DEF n
      <4> QED
        BY <4>1, <4>2
    <3> HIDE DEF n
    <3> QED
      BY <2>3, <3>2, <3>3, <3>4
  <2> QED
    BY <2>2, <2>3
<1> QED
  BY <1>1, AnswerInvariant, PTL

\* No byte of a chunk that both files share from the start is sent again.
THEOREM ResumePointMaximalAlways == Spec => []ResumePointMaximal
<1>1. ASSUME AnswerInv PROVE ResumePointMaximal
  <2> SUFFICES ASSUME answer # None, dest # None, ~answer.complete,
                      NEW n \in 0..AtMost(Len(dest), Len(body)),
                      n % ChunkSize = 0, Prefix(dest, n) = Prefix(body, n)
               PROVE  n <= answer.offset
    BY DEF ResumePointMaximal
  <2>1. /\ dest \in File /\ body \in File /\ size \in Nat
        /\ answer = matchResume(dest, ResumeQuery(size, body))
        /\ Len(dest) \in Nat /\ Len(body) \in Nat
    BY <1>1, LenProperties DEF AnswerInv, File
  <2>2. n \in Nat /\ n <= Len(dest) /\ n <= Len(body)
    BY <2>1 DEF AtMost
  <2>3. PICK m \in Nat : n = m * ChunkSize
    <3> DEFINE m == n \div ChunkSize
    <3>1. m \in Nat /\ n = m * ChunkSize
      BY <2>2, ChunkSizeAssumption
    <3> QED
      BY <3>1
  <2> QED
    BY <2>1, <2>2, <2>3, ResumePointIsMaximal
<1> QED
  BY <1>1, AnswerInvariant, PTL

\* A file that is skipped holds what was announced (matchResume, drainFile).
THEOREM SkipKeepsPrefixAlways == Spec => []SkipKeepsPrefix
<1>1. ASSUME AnswerInv PROVE SkipKeepsPrefix
  <2> SUFFICES ASSUME answer # None, answer.complete, size > 0
               PROVE  /\ Len(dest) >= size /\ Len(body) >= size
                      /\ Prefix(dest, size) = Prefix(body, size)
    BY DEF SkipKeepsPrefix
  <2>1. /\ dest \in File \cup {None} /\ body \in File /\ size \in Nat \ {0}
        /\ matchResume(dest, ResumeQuery(size, body)).complete
    BY <1>1 DEF AnswerInv
  <2> QED
    BY <2>1, SkipIsBacked
<1> QED
  BY <1>1, AnswerInvariant, PTL

-----------------------------------------------------------------------------
(* The loop of matchResume.  It is a recursive function, which is a choice   *)
(* of one that solves its equation: that there is one is shown with a closed *)
(* form, and that there is no other by the least number of chunks left.     *)

\* What one ReadFull returns.
Got(d, offset) == SubSeq(d, offset + 1, AtMost(offset + ChunkSize, Len(d)))

\* One turn of the loop, before chunk i, with f for the turns after it.
Turn(d, q, f, i, offset) ==
    IF i > Len(q.Chunks) \/ Got(d, offset) = <<>> THEN offset
    ELSE IF Got(d, offset) # q.Chunks[i] THEN offset
    ELSE IF Len(Got(d, offset)) < ChunkSize THEN offset + Len(Got(d, offset))
    ELSE f[i + 1][offset + Len(Got(d, offset))]

Turns(d, q, f) ==
    [i \in 1..(Len(q.Chunks) + 1) |-> [offset \in 0..Len(d) |-> Turn(d, q, f, i, offset)]]

\* If the equation of the loop has a solution, the loop is one.
LEMMA LoopSolvesItsEquation ==
    ASSUME NEW d, NEW q, NEW g, g = Turns(d, q, g)
    PROVE  \E f : f = Turns(d, q, f) /\ LoopMatch(d, q) = f[1][0]
<1> DEFINE h == CHOOSE f : f = Turns(d, q, f)
<1>1. h = Turns(d, q, h)
  OBVIOUS
<1>2. LoopMatch(d, q) = h[1][0]
  BY DEF LoopMatch, Turns, Turn, Got
<1> HIDE DEF h
<1> QED
  BY <1>1, <1>2

\* The bytes that one ReadFull returns.
LEMMA GotType ==
    ASSUME NEW d \in File, NEW offset \in 0..Len(d)
    PROVE  /\ Len(d) \in Nat
           /\ Got(d, offset) \in File
           /\ Len(Got(d, offset)) = AtMost(offset + ChunkSize, Len(d)) - offset
           /\ Got(d, offset) = <<>> <=> offset = Len(d)
           /\ offset + Len(Got(d, offset)) \in 0..Len(d)
<1> DEFINE n == AtMost(offset + ChunkSize, Len(d))
<1>1. Len(d) \in Nat /\ offset \in Nat /\ ChunkSize \in Nat \ {0}
  BY LenProperties, ChunkSizeAssumption DEF File
<1>2. n \in Nat /\ n <= Len(d) /\ offset <= n /\ (offset = n <=> offset = Len(d))
  BY <1>1 DEF AtMost
<1>3. \A k \in (offset + 1)..n : d[k] \in Byte
  BY <1>1, <1>2, ElementOfSeq DEF File
<1> HIDE DEF n
<1>4. /\ SubSeq(d, offset + 1, n) \in Seq(Byte)
      /\ Len(SubSeq(d, offset + 1, n)) = IF offset + 1 <= n THEN n - (offset + 1) + 1 ELSE 0
  <2>1. offset + 1 \in Int /\ n \in Int
    BY <1>1, <1>2
  <2> QED
    BY <1>3, <2>1, SubSeqProperties
<1>5. Len(SubSeq(d, offset + 1, n)) = n - offset
  BY <1>1, <1>2, <1>4
<1>6. SubSeq(d, offset + 1, n) = <<>> <=> n - offset = 0
  BY <1>1, <1>2, <1>4, <1>5
<1> QED
  BY <1>1, <1>2, <1>4, <1>5, <1>6 DEF Got, n, File

\* Two solutions of the equation are the same: a place where they differ with the
\* fewest chunks left would have one with fewer.
LEMMA OneSolution ==
    ASSUME NEW d \in File, NEW q \in Query, NEW f, NEW g,
           f = Turns(d, q, f), g = Turns(d, q, g),
           NEW j \in 1..(Len(q.Chunks) + 1), NEW p \in 0..Len(d)
    PROVE  f[j][p] = g[j][p]
<1> DEFINE n == Len(q.Chunks)
<1>1. n \in Nat
  BY LenProperties DEF Query
<1>2. ASSUME NEW i \in 1..(n + 1), NEW offset \in 0..Len(d)
      PROVE  /\ f[i][offset] = Turn(d, q, f, i, offset)
             /\ g[i][offset] = Turn(d, q, g, i, offset)
  <2>1. /\ Turns(d, q, f)[i][offset] = Turn(d, q, f, i, offset)
        /\ Turns(d, q, g)[i][offset] = Turn(d, q, g, i, offset)
    BY DEF Turns
  <2> QED
    BY <2>1
<1> DEFINE differs(left) ==
               \E i \in 1..(n + 1), offset \in 0..Len(d) :
                  left = n + 1 - i /\ f[i][offset] # g[i][offset]
           T == {left \in Nat : differs(left)}
<1>3. ASSUME T # {} PROVE FALSE
  <2>1. PICK left \in T : \A other \in T : left <= other
    <3>1. T \in SUBSET Nat
      OBVIOUS
    <3> HIDE DEF T
    <3> QED
      BY <1>3, <3>1, LeastNatural
  <2>2. PICK i \in 1..(n + 1), offset \in 0..Len(d) :
           left = n + 1 - i /\ f[i][offset] # g[i][offset]
    OBVIOUS
  <2>3. Turn(d, q, f, i, offset) # Turn(d, q, g, i, offset)
    BY <1>2, <2>2
  <2> DEFINE next == offset + Len(Got(d, offset))
  <2>4. i <= n /\ f[i + 1][next] # g[i + 1][next]
    BY <1>1, <2>3 DEF Turn
  <2>5. next \in 0..Len(d)
    BY GotType
  <2> HIDE DEF next
  <2>6. left - 1 \in T
    <3>1. left - 1 \in Nat /\ i + 1 \in 1..(n + 1) /\ left - 1 = n + 1 - (i + 1)
      <4> HIDE DEF T, n
      <4> QED
        BY <1>1, <2>2, <2>4
    <3> QED
      BY <2>4, <2>5, <3>1
  <2> HIDE DEF T
  <2>7. left \in Nat
    BY <1>1, <2>2
  <2> QED
    BY <2>1, <2>6, <2>7
<1> QED
  <2>1. f[j][p] # g[j][p] => n + 1 - j \in T
    BY <1>1
  <2> HIDE DEF T
  <2> QED
    BY <1>3, <2>1

\* The chunk at an offset is the next one announced.
Fits(d, q, j, offset) == offset < Len(d) /\ Got(d, offset) = q.Chunks[j]

\* The turn that ends the loop, when it is at offset before chunk i.
Ends(d, q, i, offset, j) ==
    /\ j <= Len(q.Chunks) => ~Fits(d, q, j, offset + (j - i) * ChunkSize)
    /\ \A k \in i..(j - 1) : Fits(d, q, k, offset + (k - i) * ChunkSize)

\* It ends, and in one place.
LEMMA LoopEnds ==
    ASSUME NEW d, NEW q \in Query, NEW i \in 1..(Len(q.Chunks) + 1), NEW offset
    PROVE  /\ \E j \in i..(Len(q.Chunks) + 1) : Ends(d, q, i, offset, j)
           /\ \A j, k \in i..(Len(q.Chunks) + 1) :
                 Ends(d, q, i, offset, j) /\ Ends(d, q, i, offset, k) => j = k
<1> DEFINE n == Len(q.Chunks)
           fits(j) == Fits(d, q, j, offset + (j - i) * ChunkSize)
           stops == {j \in i..(n + 1) : j <= n => ~fits(j)}
<1>1. n \in Nat
  BY LenProperties DEF Query
<1>2. stops \in SUBSET Nat /\ n + 1 \in stops
  BY <1>1
<1>3. PICK j \in stops : \A k \in stops : j <= k
  <2> HIDE DEF stops
  <2> QED
    BY <1>2, LeastNatural
<1> HIDE DEF fits
<1>4. /\ j \in i..(n + 1)
      /\ j <= n => ~fits(j)
      /\ \A k \in i..(j - 1) : fits(k)
  BY <1>1, <1>3
<1>5. Ends(d, q, i, offset, j)
  BY <1>4 DEF Ends, fits
<1>6. ASSUME NEW k \in i..(n + 1), NEW l \in i..(n + 1), k < l,
             Ends(d, q, i, offset, k), Ends(d, q, i, offset, l)
      PROVE  FALSE
  <2>1. k <= n => ~fits(k)
    BY <1>6 DEF Ends, fits
  <2>2. \A m \in i..(l - 1) : fits(m)
    BY <1>6 DEF Ends, fits
  <2> QED
    BY <1>1, <1>6, <2>1, <2>2
<1>7. ASSUME NEW k \in i..(n + 1), NEW l \in i..(n + 1),
             Ends(d, q, i, offset, k), Ends(d, q, i, offset, l)
      PROVE  k = l
  <2>1. k < l \/ l < k \/ k = l
    BY <1>1
  <2> QED
    BY <1>6, <1>7, <2>1
<1> QED
  BY <1>4, <1>5, <1>7

\* The closed form, from any place in the loop.
LastTurn(d, q, i, offset) ==
    CHOOSE j \in i..(Len(q.Chunks) + 1) : Ends(d, q, i, offset, j)

Reached(d, q, i, offset) ==
    AtMost(offset + (LastTurn(d, q, i, offset) - i) * ChunkSize, Len(d))

\* A turn that ends the loop is the last one.
LEMMA LastTurnIs ==
    ASSUME NEW d, NEW q \in Query, NEW i \in 1..(Len(q.Chunks) + 1), NEW offset,
           NEW j \in i..(Len(q.Chunks) + 1), Ends(d, q, i, offset, j)
    PROVE  LastTurn(d, q, i, offset) = j
BY LoopEnds DEF LastTurn

\* It solves the equation of the loop.
LEMMA ReachedTurns ==
    ASSUME NEW d \in File, NEW q \in Query, NEW i \in 1..(Len(q.Chunks) + 1),
           NEW offset \in 0..Len(d), NEW g,
           \A j \in 1..(Len(q.Chunks) + 1), p \in 0..Len(d) : g[j][p] = Reached(d, q, j, p)
    PROVE  Reached(d, q, i, offset) = Turn(d, q, g, i, offset)
<1> DEFINE n == Len(q.Chunks)
           got == Got(d, offset)
           j == LastTurn(d, q, i, offset)
<1>1. n \in Nat /\ Len(d) \in Nat /\ ChunkSize \in Nat \ {0} /\ offset \in Nat
  BY LenProperties, ChunkSizeAssumption DEF Query, File
<1>2. /\ got \in File /\ Len(got) = AtMost(offset + ChunkSize, Len(d)) - offset
      /\ got = <<>> <=> offset = Len(d)
      /\ offset + Len(got) \in 0..Len(d)
  BY GotType
<1>3. j \in i..(n + 1) /\ Ends(d, q, i, offset, j)
  BY LoopEnds DEF LastTurn
<1>4. Reached(d, q, i, offset) = AtMost(offset + (j - i) * ChunkSize, Len(d))
  BY DEF Reached
<1>5. offset + (i - i) * ChunkSize = offset
  BY <1>1
<1> HIDE DEF j, got
<1>6. CASE i > n \/ ~Fits(d, q, i, offset)
  <2>1. j = i
    <3>1. CASE i > n
      BY <1>1, <1>3, <3>1
    <3>2. CASE ~Fits(d, q, i, offset)
      <4>1. ASSUME i <= j - 1 PROVE FALSE
        <5>1. i \in i..(j - 1)
          BY <1>1, <1>3, <4>1
        <5>2. Fits(d, q, i, offset + (i - i) * ChunkSize)
          BY <1>3, <5>1 DEF Ends
        <5> QED
          BY <1>5, <3>2, <5>2
      <4> QED
        BY <1>1, <1>3, <4>1
    <3> QED
      BY <1>6, <3>1, <3>2
  <2>2. Reached(d, q, i, offset) = offset
    BY <1>1, <1>4, <1>5, <2>1 DEF AtMost
  <2>3. Turn(d, q, g, i, offset) = offset
    BY <1>1, <1>2, <1>6 DEF Turn, Fits, got
  <2> QED
    BY <2>2, <2>3
<1>7. CASE i <= n /\ Fits(d, q, i, offset)
  <2>1. i + 1 <= j
    <3>1. ASSUME j = i PROVE FALSE
      <4>1. ~Fits(d, q, i, offset + (i - i) * ChunkSize)
        BY <1>3, <1>7, <3>1 DEF Ends
      <4> QED
        BY <1>5, <1>7, <4>1
    <3> QED
      BY <1>1, <1>3, <3>1
  <2> DEFINE rest == (j - i - 1) * ChunkSize
  <2>2. rest \in Nat /\ (j - i) * ChunkSize = rest + ChunkSize
    <3>1. j - i - 1 \in Nat
      BY <1>1, <1>3, <2>1
    <3> DEFINE l == j - i - 1
    <3>2. (j - i) * ChunkSize = (l + 1) * ChunkSize
      BY <1>1, <1>3
    <3>3. l * ChunkSize \in Nat /\ (l + 1) * ChunkSize = l * ChunkSize + ChunkSize
      <4> HIDE DEF l
      <4> QED
        BY <1>1, <3>1 DEF l
    <3> QED
      BY <3>2, <3>3
  <2> HIDE DEF rest
  <2>3. got # <<>> /\ got = q.Chunks[i] /\ offset < Len(d)
    BY <1>1, <1>2, <1>7 DEF Fits, got
  <2>4. CASE Len(got) < ChunkSize
    <3>1. offset + Len(got) = Len(d) /\ Len(d) < offset + ChunkSize
      BY <1>1, <1>2, <2>4 DEF AtMost
    <3>2. Reached(d, q, i, offset) = Len(d)
      BY <1>1, <1>4, <2>2, <3>1 DEF AtMost
    <3>3. Turn(d, q, g, i, offset) = offset + Len(got)
      BY <1>1, <1>7, <2>3, <2>4 DEF Turn, got
    <3> QED
      BY <3>1, <3>2, <3>3
  <2>5. CASE ~(Len(got) < ChunkSize)
    <3>1. Len(got) = ChunkSize /\ offset + ChunkSize \in 0..Len(d)
      BY <1>1, <1>2, <2>5 DEF AtMost
    <3>2. i + 1 \in 1..(n + 1) /\ j \in (i + 1)..(n + 1)
      BY <1>1, <1>3, <1>7, <2>1
    <3>3. \A k \in (i + 1)..(n + 1) :
             offset + ChunkSize + (k - (i + 1)) * ChunkSize = offset + (k - i) * ChunkSize
      BY <1>1
    <3>4. Ends(d, q, i + 1, offset + ChunkSize, j)
      <4>1. j <= n => ~Fits(d, q, j, offset + ChunkSize + (j - (i + 1)) * ChunkSize)
        BY <1>3, <3>2, <3>3 DEF Ends
      <4>2. ASSUME NEW k \in (i + 1)..(j - 1)
            PROVE  Fits(d, q, k, offset + ChunkSize + (k - (i + 1)) * ChunkSize)
        <5>1. k \in i..(j - 1) /\ k \in (i + 1)..(n + 1)
          BY <1>1, <1>3
        <5> QED
          BY <1>3, <3>3, <5>1 DEF Ends
      <4> QED
        BY <4>1, <4>2 DEF Ends
    <3>5. LastTurn(d, q, i + 1, offset + ChunkSize) = j
      BY <3>2, <3>4, LastTurnIs
    <3>6. Reached(d, q, i + 1, offset + ChunkSize) = Reached(d, q, i, offset)
      BY <1>4, <3>2, <3>3, <3>5 DEF Reached
    <3>7. Turn(d, q, g, i, offset) = g[i + 1][offset + ChunkSize]
      BY <1>1, <1>7, <2>3, <3>1 DEF Turn, got
    <3> QED
      BY <3>1, <3>2, <3>6, <3>7
  <2> QED
    BY <2>4, <2>5
<1> QED
  BY <1>1, <1>6, <1>7

\* The loop, from its first turn, ends where the first chunk fails to agree.
LEMMA FirstBreakIsLastTurn ==
    ASSUME NEW d \in File, NEW q \in Query
    PROVE  LastTurn(d, q, 1, 0) = FirstBreak(d, q)
<1> DEFINE n == Len(q.Chunks)
           b == FirstBreak(d, q)
<1>1. n \in Nat
  BY LenProperties DEF Query
<1>2. ASSUME NEW j \in 1..n
      PROVE  Fits(d, q, j, 0 + (j - 1) * ChunkSize) <=> ChunkAgrees(d, q, j)
  <2>1. /\ 0 + (j - 1) * ChunkSize = (j - 1) * ChunkSize
        /\ (j - 1) * ChunkSize + ChunkSize = j * ChunkSize
    BY <1>1, ChunkSizeAssumption
  <2>2. Got(d, (j - 1) * ChunkSize) = ChunkAt(d, j)
    BY <2>1 DEF Got, ChunkAt
  <2>3. j <= NumChunks(d) <=> (j - 1) * ChunkSize < Len(d)
    BY ChunkBegins
  <2> QED
    BY <2>1, <2>2, <2>3 DEF Fits, ChunkAgrees
<1>3. /\ b \in 1..(n + 1) /\ b <= n => ~ChunkAgrees(d, q, b)
      /\ \A j \in 1..(b - 1) : ChunkAgrees(d, q, j)
  BY FirstBreakExists
<1>4. b \in 1..(n + 1)
  BY FirstBreakExists
<1> HIDE DEF b
<1>5. Ends(d, q, 1, 0, b)
  <2>1. b <= n => ~Fits(d, q, b, 0 + (b - 1) * ChunkSize)
    BY <1>1, <1>2, <1>3, <1>4
  <2>2. ASSUME NEW k \in 1..(b - 1) PROVE Fits(d, q, k, 0 + (k - 1) * ChunkSize)
    <3>1. k \in 1..n
      BY <1>1, <1>4
    <3> QED
      BY <1>2, <1>3, <3>1
  <2> QED
    BY <2>1, <2>2 DEF Ends
<1>6. 1 \in 1..(n + 1)
  BY <1>1
<1> QED
  BY <1>4, <1>5, <1>6, LastTurnIs DEF b

\* The loop returns the closed form.
LEMMA LoopIsClosed ==
    ASSUME NEW d \in File, NEW q \in Query
    PROVE  LoopMatch(d, q) = MatchedBytes(d, q)
<1> DEFINE n == Len(q.Chunks)
           g == [i \in 1..(n + 1) |-> [offset \in 0..Len(d) |-> Reached(d, q, i, offset)]]
<1>1. n \in Nat /\ Len(d) \in Nat /\ 1 \in 1..(n + 1) /\ 0 \in 0..Len(d)
  BY LenProperties DEF Query, File
<1>2. \A i \in 1..(n + 1), offset \in 0..Len(d) : g[i][offset] = Reached(d, q, i, offset)
  OBVIOUS
<1>3. g = Turns(d, q, g)
  <2>1. \A i \in 1..(n + 1), offset \in 0..Len(d) :
           Reached(d, q, i, offset) = Turn(d, q, g, i, offset)
    <3> HIDE DEF g
    <3> QED
      BY <1>2, ReachedTurns
  <2>2. g = [i \in 1..(n + 1) |-> [offset \in 0..Len(d) |-> Turn(d, q, g, i, offset)]]
    BY <2>1
  <2> QED
    BY <2>2 DEF Turns
<1> HIDE DEF g
<1>4. PICK f : f = Turns(d, q, f) /\ LoopMatch(d, q) = f[1][0]
  BY <1>3, LoopSolvesItsEquation
<1>5. LoopMatch(d, q) = Reached(d, q, 1, 0)
  BY <1>1, <1>2, <1>3, <1>4, OneSolution
<1>6. LastTurn(d, q, 1, 0) - 1 = FirstBreak(d, q) - 1
  BY FirstBreakIsLastTurn
<1>7. 0 + (FirstBreak(d, q) - 1) * ChunkSize = (FirstBreak(d, q) - 1) * ChunkSize
  BY FirstBreakExists, ChunkSizeAssumption, <1>1
<1> QED
  BY <1>5, <1>6, <1>7 DEF Reached, MatchedBytes

\* The loop over the announced digests, chunk by chunk, and the declarative form
\* of the resume point agree, for every file on disk and every query.
THEOREM ClosedFormAlways == Spec => []ClosedFormIsTheLoop
<1>1. ASSUME AnswerInv PROVE ClosedFormIsTheLoop
  BY <1>1, ResumeQueryType, LoopIsClosed DEF AnswerInv, ClosedFormIsTheLoop
<1> QED
  BY <1>1, AnswerInvariant, PTL

=============================================================================
