------------------------------ MODULE MCResume ------------------------------
(***************************************************************************)
(* TLC instance of Resume: every pair of a source and a destination file up *)
(* to MaxLen bytes over Byte, a source that may be edited between the stat  *)
(* and the hashing, and the receiver's answer.                              *)
(***************************************************************************)
EXTENDS Resume

CONSTANTS MaxLen,   \* longest file
          Edited    \* whether the source may be edited after the stat

VARIABLES dest,     \* the file at the receiver
          size,     \* what statFile reported
          body,     \* what the source holds when it is hashed
          answer    \* matchResume's answer, None before it

vars == <<dest, size, body, answer>>

SmallFile == UNION {[1..n -> Byte] : n \in 0..MaxLen}

Init == /\ dest \in SmallFile \cup {None}
        /\ body \in SmallFile
        /\ size \in IF Edited THEN 0..MaxLen ELSE {Len(body)}
        /\ answer = None

Ask == /\ answer = None
       /\ answer' = matchResume(dest, ResumeQuery(size, body))
       /\ UNCHANGED <<dest, size, body>>

Next == Ask

Spec == Init /\ [][Next]_vars

-----------------------------------------------------------------------------
(* The loop of matchResume as written, step by step: the reference for the  *)
(* closed form of MatchedBytes.                                             *)
LoopMatch(d, q) ==
    LET step[i \in 1..(Len(q.Chunks) + 1)] ==
            [offset \in 0..Len(d) |->
                LET got == SubSeq(d, offset + 1, AtMost(offset + ChunkSize, Len(d)))
                IN  IF i > Len(q.Chunks) \/ got = <<>> THEN offset
                    ELSE IF got # q.Chunks[i] THEN offset
                    ELSE IF Len(got) < ChunkSize THEN offset + Len(got)
                    ELSE step[i + 1][offset + Len(got)]]
    IN  step[1][0]

\* The declarative form of the resume point is what the loop computes, for
\* every file on disk and every query (transfer.go, the loop of matchResume).
ClosedFormIsTheLoop ==
    dest # None =>
        LET q == ResumeQuery(size, body)
        IN  MatchedBytes(dest, q) = LoopMatch(dest, q)

\* A transfer resumed at the answer keeps only bytes that the hashed source
\* has too, at the same place, and never a byte the file on disk does not
\* hold: Truncate(offset) must not extend the file (matchResume, receiveFile).
ResumePointSound ==
    (answer # None /\ ~answer.complete) =>
        /\ answer.offset = 0 \/ (dest # None /\ answer.offset <= Len(dest))
        /\ answer.offset <= Len(body)
        /\ answer.offset % ChunkSize = 0 \/ answer.offset = Len(body)
        /\ answer.offset > 0 => Prefix(dest, answer.offset) = Prefix(body, answer.offset)

\* No byte is sent again that lies in a chunk both files share from the start:
\* the answer is the largest sound resume point on a chunk boundary.
ResumePointMaximal ==
    (answer # None /\ dest # None /\ ~answer.complete) =>
        \A n \in 0..AtMost(Len(dest), Len(body)) :
            (n % ChunkSize = 0 /\ Prefix(dest, n) = Prefix(body, n))
                => n <= answer.offset

\* A skipped file holds the announced bytes at least up to the announced size,
\* also when the source changed its length between the stat and the hashing.
SkipKeepsPrefix ==
    (answer # None /\ answer.complete /\ size > 0) =>
        /\ Len(dest) >= size
        /\ Len(body) >= size
        /\ Prefix(dest, size) = Prefix(body, size)

\* transfer.go says of matchResume: "complete is true when the file is already
\* fully present and correct".
CompleteMeansPresentAndCorrect ==
    (answer # None /\ answer.complete /\ size = Len(body)) => dest = body

=============================================================================
