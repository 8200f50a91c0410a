---------------------------- MODULE StreamProofs ----------------------------
(***************************************************************************)
(* streamFile keeps its promise for any number of buffers and chunks.       *)
(***************************************************************************)
EXTENDS StreamPipeline, SequenceTheorems, TLAPS

-----------------------------------------------------------------------------
(* Channels of buffers.                                                    *)

In(b, s) == \E i \in 1..Len(s) : s[i] = b
Distinct(s) == \A i, j \in 1..Len(s) : s[i] = s[j] => i = j

\* Receiving from a channel.
LEMMA Receiving ==
    ASSUME NEW s \in Seq(Buffers), s # <<>>, Distinct(s)
    PROVE  /\ Head(s) \in Buffers /\ In(Head(s), s) /\ ~In(Head(s), Tail(s))
           /\ Tail(s) \in Seq(Buffers) /\ Distinct(Tail(s))
           /\ \A b : In(b, Tail(s)) => In(b, s)
<1>1. /\ Len(s) \in Nat \ {0} /\ Head(s) = s[1] /\ Head(s) \in Buffers
      /\ Tail(s) \in Seq(Buffers)
      /\ Len(Tail(s)) = Len(s) - 1
      /\ \A i \in 1..(Len(s) - 1) : Tail(s)[i] = s[i + 1]
  BY HeadTailProperties, EmptySeq, LenProperties, ElementOfSeq
<1> QED
  BY <1>1 DEF In, Distinct

\* Sending on a channel a buffer that is not in it.
LEMMA Sending ==
    ASSUME NEW s \in Seq(Buffers), NEW b \in Buffers, Distinct(s), ~In(b, s)
    PROVE  /\ Append(s, b) \in Seq(Buffers) /\ Distinct(Append(s, b))
           /\ \A c : In(c, Append(s, b)) <=> In(c, s) \/ c = b
<1>1. /\ Len(s) \in Nat
      /\ Append(s, b) \in Seq(Buffers)
      /\ Len(Append(s, b)) = Len(s) + 1
      /\ \A i \in 1..Len(s) : Append(s, b)[i] = s[i]
      /\ Append(s, b)[Len(s) + 1] = b
  BY AppendProperties, LenProperties
<1> QED
  BY <1>1 DEF In, Distinct

-----------------------------------------------------------------------------
(* The inductive invariant.                                                *)

ReaderHas == reader.pc \in {"read", "pass"}
WriterHas == writer.pc \in {"send", "give"}

\* Every buffer in use has one owner: a channel, the reader or the writer.
OneOwner ==
    /\ Distinct(free) /\ Distinct(filled)
    /\ \A b \in Buffers : ~(In(b, free) /\ In(b, filled))
    /\ ReaderHas => /\ reader.buf \in Buffers
                    /\ ~In(reader.buf, free) /\ ~In(reader.buf, filled)
    /\ WriterHas => /\ writer.buf \in Buffers
                    /\ ~In(writer.buf, free) /\ ~In(writer.buf, filled)
    /\ ReaderHas /\ WriterHas => reader.buf # writer.buf

\* How many chunks the writer and the reader hold between two channels.
AtWriter == IF writer.pc = "send" THEN 1 ELSE 0
AtReader == IF reader.pc = "pass" THEN 1 ELSE 0

\* Chunks are hashed and written in the order of the file, and those between
\* are in their buffers in the same order.
InOrder ==
    /\ \A i \in 1..Len(hashed) : hashed[i] = i
    /\ \A i \in 1..Len(wire) : wire[i] = i
    /\ Running =>
        /\ Len(hashed) = Len(wire) + AtWriter + Len(filled) + AtReader
        /\ writer.pc = "send" => holds[writer.buf] = Len(wire) + 1
        /\ \A i \in 1..Len(filled) : holds[filled[i]] = Len(wire) + AtWriter + i
        /\ reader.pc = "pass" => holds[reader.buf] = Len(hashed)

\* How the two sides learn that the file has ended.
Ending ==
    /\ done => ~Running
    /\ closed => reader.pc = "gone"
    /\ reader.pc = "gone" /\ Running => closed
    /\ reader.err = "eof" => Len(hashed) = NChunks
    /\ reader.pc \in {"take", "read"} => reader.err = "none"
    /\ readErr # <<>> =>
        /\ reader.pc \in {"exit", "gone"}
        /\ Head(readErr) = "nil" => reader.err = "eof"
    /\ writer.pc = "await" => closed /\ filled = <<>>
    /\ writer.pc = "ok" => reader.pc = "gone" /\ hashed = wire

PipeInv == TypeOK /\ OneOwner /\ InOrder /\ Ending

-----------------------------------------------------------------------------
(* The reader's steps.                                                     *)

\* streamFile makes its buffers and channels before it starts the reader.
LEMMA InitPipe == Init => PipeInv
<1> SUFFICES ASSUME Init PROVE PipeInv
  OBVIOUS
<1>1. free \in [1..Depth -> Buffers]
  BY DEF Init, Buffers
<1>2. \A i \in 1..Depth : free[i] = i
  BY DEF Init, Buffers
<1>3. Depth \in Nat
  BY DepthAssumption
<1>4. free \in Seq(Buffers)
  BY <1>1, <1>3, SeqDef
<1>5. Len(free) = Depth
  BY <1>1, <1>3, <1>4, LenProperties
<1>6. TypeOK
  <2>1. /\ Len(free) <= Depth
        /\ filled \in Seq(Buffers) /\ Len(filled) <= Depth
        /\ readErr \in Seq({"nil", "bad"}) /\ Len(readErr) <= 1
        /\ hashed \in Seq(Chunks) /\ wire \in Seq(Chunks)
    BY <1>3, <1>5 DEF Init
  <2>2. /\ holds \in [Buffers -> Chunks \cup {0}]
        /\ reader \in ReaderState /\ writer \in WriterState
    BY DEF Init, ReaderState, WriterState
  <2>3. /\ closed \in BOOLEAN /\ done \in BOOLEAN
        /\ cancelled \in BOOLEAN /\ broken \in BOOLEAN
    BY DEF Init
  <2> QED
    BY <1>4, <2>1, <2>2, <2>3 DEF TypeOK
<1>7. OneOwner
  BY <1>2, <1>5 DEF Init, OneOwner, Distinct, In, ReaderHas, WriterHas
<1>8. InOrder /\ Ending
  BY DEF Init, InOrder, Ending, Running, AtWriter, AtReader
<1> QED
  BY <1>6, <1>7, <1>8 DEF PipeInv

\* A buffer goes from the channel free to the reader.
LEMMA TakePipe ==
    ASSUME PipeInv, Take
    PROVE  PipeInv'
<1>1. /\ reader'.pc = "read" /\ reader'.buf = Head(free) /\ reader'.err = reader.err
      /\ reader' \in ReaderState
      /\ free' = Tail(free)
      /\ Head(free) \in Buffers /\ In(Head(free), free) /\ ~In(Head(free), Tail(free))
      /\ Tail(free) \in Seq(Buffers) /\ Distinct(Tail(free))
      /\ \A b : In(b, Tail(free)) => In(b, free)
  <2>1. /\ free \in Seq(Buffers) /\ free # <<>> /\ Distinct(free)
        /\ reader \in ReaderState
    BY DEF PipeInv, TypeOK, OneOwner, Take
  <2>2. Head(free) \in Buffers
    BY <2>1, Receiving
  <2> QED
    BY <2>1, <2>2, Receiving DEF Take, ReaderState
<1>2. Len(free') <= Depth
  BY <1>1, HeadTailProperties, LenProperties, DepthAssumption DEF PipeInv, TypeOK, Take
<1>3. UNCHANGED <<filled, closed, readErr, done, holds, writer, hashed, wire,
                  cancelled, broken>>
  BY DEF Take
<1>4. OneOwner'
  BY <1>1, <1>3 DEF PipeInv, OneOwner, ReaderHas, WriterHas, Take
<1>5. InOrder'
  BY <1>1, <1>3 DEF PipeInv, InOrder, AtWriter, AtReader, Running, Take
<1>6. Ending'
  BY <1>1, <1>3 DEF PipeInv, Ending, Running, Take
<1>7. TypeOK'
  BY <1>1, <1>2, <1>3 DEF PipeInv, TypeOK
<1> QED
  BY <1>4, <1>5, <1>6, <1>7 DEF PipeInv

\* The chunk goes to a buffer that nobody waits to write.
LEMMA ReadSomePipe ==
    ASSUME PipeInv, ReadSome
    PROVE  PipeInv'
<1> DEFINE chunk == Len(hashed) + 1
<1>1. /\ reader.pc = "read" /\ chunk \in Chunks
      /\ holds' = [holds EXCEPT ![reader.buf] = chunk]
      /\ hashed' = Append(hashed, chunk)
      /\ UNCHANGED <<channels, writer, wire, cancelled, broken>>
  BY DEF ReadSome
<1>2. PICK err \in {"none", "eof", "bad"} :
        /\ err = "eof" => chunk = NChunks
        /\ reader' = [reader EXCEPT !.pc = "pass", !.err = err]
  BY DEF ReadSome
<1>3. /\ reader \in ReaderState /\ reader.buf \in Buffers
      /\ hashed \in Seq(Chunks) /\ holds \in [Buffers -> Chunks \cup {0}]
  BY <1>1 DEF PipeInv, TypeOK, OneOwner, ReaderHas
<1>4. /\ reader'.pc = "pass" /\ reader'.buf = reader.buf /\ reader'.err = err
      /\ reader' \in ReaderState
  BY <1>2, <1>3 DEF ReaderState
<1>5. /\ hashed' \in Seq(Chunks) /\ Len(hashed') = chunk
      /\ Len(hashed) \in Nat
      /\ \A i \in 1..Len(hashed) : hashed'[i] = hashed[i]
      /\ hashed'[chunk] = chunk
  BY <1>1, <1>3, AppendProperties, LenProperties
<1>6. /\ holds' \in [Buffers -> Chunks \cup {0}]
      /\ holds'[reader.buf] = chunk
      /\ \A b \in Buffers : b # reader.buf => holds'[b] = holds[b]
  BY <1>1, <1>3
<1>7. UNCHANGED <<free, filled, closed, readErr, done, writer, wire, cancelled, broken>>
  BY <1>1 DEF channels
<1> HIDE DEF chunk
<1>8. OneOwner'
  BY <1>1, <1>4, <1>7 DEF PipeInv, OneOwner, ReaderHas, WriterHas
<1>9. InOrder'
  <2>1. \A i \in 1..Len(hashed') : hashed'[i] = i
    BY <1>5 DEF PipeInv, InOrder, chunk
  <2>2. \A i \in 1..Len(wire') : wire'[i] = i
    BY <1>7 DEF PipeInv, InOrder
  <2>3. ASSUME Running
        PROVE  /\ Len(hashed') = Len(wire) + AtWriter + Len(filled) + 1
               /\ writer.pc = "send" => holds'[writer.buf] = Len(wire) + 1
               /\ \A i \in 1..Len(filled) : holds'[filled[i]] = Len(wire) + AtWriter + i
    <3>1. Len(wire) \in Nat /\ Len(filled) \in Nat /\ AtWriter \in Nat
      BY LenProperties DEF PipeInv, TypeOK, AtWriter
    <3>2. Len(hashed) = Len(wire) + AtWriter + Len(filled)
      BY <1>1, <2>3, <3>1 DEF PipeInv, InOrder, AtReader
    <3>3. writer.pc = "send" => writer.buf \in Buffers /\ writer.buf # reader.buf
      BY <1>1 DEF PipeInv, OneOwner, ReaderHas, WriterHas
    <3>4. \A i \in 1..Len(filled) : filled[i] \in Buffers /\ filled[i] # reader.buf
      BY <1>1, ElementOfSeq DEF PipeInv, TypeOK, OneOwner, ReaderHas, In
    <3> QED
      BY <1>5, <1>6, <2>3, <3>1, <3>2, <3>3, <3>4 DEF PipeInv, InOrder, chunk
  <2> QED
    BY <1>4, <1>5, <1>6, <1>7, <2>1, <2>2, <2>3 DEF InOrder, AtWriter, AtReader, Running
<1>10. Ending'
  BY <1>1, <1>2, <1>4, <1>5, <1>7 DEF PipeInv, Ending, Running
<1>11. TypeOK'
  BY <1>4, <1>5, <1>6, <1>7 DEF PipeInv, TypeOK
<1> QED
  BY <1>8, <1>9, <1>10, <1>11 DEF PipeInv

\* The file ends, or a read fails, without another byte.
LEMMA ReadNonePipe ==
    ASSUME PipeInv, ReadNone
    PROVE  PipeInv'
<1>1. PICK err \in {"eof", "bad"} :
        /\ err = "eof" => Len(hashed) = NChunks
        /\ reader' = [reader EXCEPT !.pc = "report", !.err = err]
  BY DEF ReadNone
<1>2. reader \in ReaderState /\ reader.pc = "read"
  BY DEF PipeInv, TypeOK, ReadNone
<1>3. /\ reader'.pc = "report" /\ reader'.err = err
      /\ reader' \in ReaderState
  BY <1>1, <1>2 DEF ReaderState
<1>4. UNCHANGED <<free, filled, closed, readErr, done, holds, writer, hashed, wire,
                  cancelled, broken>>
  BY DEF ReadNone, channels
<1>5. OneOwner'
  BY <1>3, <1>4 DEF PipeInv, OneOwner, ReaderHas, WriterHas
<1>6. InOrder'
  BY <1>2, <1>3, <1>4 DEF PipeInv, InOrder, AtWriter, AtReader, Running
<1>7. Ending'
  BY <1>1, <1>2, <1>3, <1>4 DEF PipeInv, Ending, Running
<1>8. TypeOK'
  BY <1>3, <1>4 DEF PipeInv, TypeOK
<1> QED
  BY <1>5, <1>6, <1>7, <1>8 DEF PipeInv

\* A chunk goes from the reader to the end of the channel filled.
LEMMA PassPipe ==
    ASSUME PipeInv, Pass
    PROVE  PipeInv'
<1>1. /\ reader.pc = "pass" /\ reader \in ReaderState /\ reader.buf \in Buffers
      /\ filled \in Seq(Buffers) /\ Distinct(filled) /\ ~In(reader.buf, filled)
      /\ ~In(reader.buf, free)
      /\ Len(filled) < Depth
  BY DEF PipeInv, TypeOK, OneOwner, ReaderHas, Pass
<1>2. /\ filled' = Append(filled, reader.buf)
      /\ UNCHANGED <<free, closed, readErr, done, holds, writer, hashed, wire,
                     cancelled, broken>>
  BY DEF Pass
<1>3. /\ reader'.pc = IF reader.err = "none" THEN "take" ELSE "report"
      /\ reader'.err = reader.err
      /\ reader' \in ReaderState
  BY <1>1 DEF Pass, ReaderState
<1>4. /\ filled' \in Seq(Buffers) /\ Distinct(filled')
      /\ \A b : In(b, filled') <=> In(b, filled) \/ b = reader.buf
  BY <1>1, <1>2, Sending
<1>5. /\ Len(filled) \in Nat /\ Len(filled') = Len(filled) + 1
      /\ \A i \in 1..Len(filled) : filled'[i] = filled[i]
      /\ filled'[Len(filled) + 1] = reader.buf
  BY <1>1, <1>2, AppendProperties, LenProperties
<1>6. OneOwner'
  BY <1>1, <1>2, <1>3, <1>4 DEF PipeInv, OneOwner, ReaderHas, WriterHas
<1>7. InOrder'
  <2>1. ASSUME Running
        PROVE  /\ Len(hashed) = Len(wire) + AtWriter + Len(filled')
               /\ \A i \in 1..Len(filled') : holds[filled'[i]] = Len(wire) + AtWriter + i
    <3>1. Len(wire) \in Nat /\ AtWriter \in Nat
      BY LenProperties DEF PipeInv, TypeOK, AtWriter
    <3>2. /\ Len(hashed) = Len(wire) + AtWriter + Len(filled) + 1
          /\ holds[reader.buf] = Len(hashed)
          /\ \A i \in 1..Len(filled) : holds[filled[i]] = Len(wire) + AtWriter + i
      BY <1>1, <2>1 DEF PipeInv, InOrder, AtReader
    <3>3. ASSUME NEW i \in 1..Len(filled')
          PROVE  holds[filled'[i]] = Len(wire) + AtWriter + i
      <4>1. CASE i \in 1..Len(filled)
        BY <1>5, <3>2, <4>1
      <4>2. CASE i = Len(filled) + 1
        BY <1>5, <3>1, <3>2, <4>2
      <4> QED
        BY <1>5, <4>1, <4>2
    <3> QED
      BY <1>5, <3>1, <3>2, <3>3
  <2>2. reader'.pc # "pass"
    BY <1>3
  <2>3. Len(wire) \in Nat /\ Len(filled') \in Nat /\ AtWriter \in Nat
    BY <1>4, LenProperties DEF PipeInv, TypeOK, AtWriter
  <2>4. UNCHANGED <<AtWriter, Running>> /\ AtReader' = 0
    BY <1>2, <2>2 DEF AtWriter, AtReader, Running
  <2>5. Running => (writer.pc = "send" => holds[writer.buf] = Len(wire) + 1)
    BY DEF PipeInv, InOrder
  <2>6. /\ \A i \in 1..Len(hashed) : hashed[i] = i
        /\ \A i \in 1..Len(wire) : wire[i] = i
    BY DEF PipeInv, InOrder
  <2> QED
    BY <1>2, <2>1, <2>2, <2>3, <2>4, <2>5, <2>6 DEF InOrder
<1>8. Ending'
  BY <1>1, <1>2, <1>3 DEF PipeInv, Ending, Running
<1>9. TypeOK'
  BY <1>1, <1>2, <1>3, <1>4, <1>5, DepthAssumption DEF PipeInv, TypeOK
<1> QED
  BY <1>6, <1>7, <1>8, <1>9 DEF PipeInv

\* The reader sees that streamFile has returned.
LEMMA AbandonPipe ==
    ASSUME PipeInv, Abandon
    PROVE  PipeInv'
<1>1. /\ reader'.pc = "gone" /\ reader'.err = reader.err
      /\ reader' \in ReaderState /\ closed' = TRUE
  BY DEF PipeInv, TypeOK, Abandon, ReaderReturns, ReaderState
<1>2. UNCHANGED <<free, filled, readErr, done, holds, writer, hashed, wire,
                  cancelled, broken>>
  BY DEF Abandon
<1>3. ~Running
  BY DEF PipeInv, Ending, Abandon, Abandoned
<1>4. OneOwner'
  BY <1>1, <1>2 DEF PipeInv, OneOwner, ReaderHas, WriterHas
<1>5. InOrder'
  BY <1>2, <1>3 DEF PipeInv, InOrder, Running
<1>6. Ending'
  BY <1>1, <1>2, <1>3 DEF PipeInv, Ending, Running
<1>7. TypeOK'
  BY <1>1, <1>2 DEF PipeInv, TypeOK
<1> QED
  BY <1>4, <1>5, <1>6, <1>7 DEF PipeInv

\* The reader says why it stopped.
LEMMA ReportPipe ==
    ASSUME PipeInv, Report
    PROVE  PipeInv'
<1> DEFINE outcome == IF reader.err = "eof" THEN "nil" ELSE "bad"
<1>1. /\ reader.pc = "report" /\ readErr' = Append(readErr, outcome)
      /\ UNCHANGED <<free, filled, closed, done, holds, writer, hashed, wire,
                     cancelled, broken>>
  BY DEF Report
<1>2. /\ reader'.pc = "exit" /\ reader'.err = reader.err
      /\ reader' \in ReaderState
  BY DEF PipeInv, TypeOK, Report, ReaderState
<1>3. readErr' = <<outcome>>
  <2>1. readErr = <<>>
    BY LenProperties, EmptySeq DEF PipeInv, TypeOK, Report, Reportable
  <2> QED
    BY <1>1, <2>1
<1>4. /\ readErr' \in Seq({"nil", "bad"}) /\ Len(readErr') = 1
      /\ Head(readErr') = outcome
  BY <1>3
<1>5. OneOwner'
  BY <1>1, <1>2 DEF PipeInv, OneOwner, ReaderHas, WriterHas
<1>6. InOrder'
  BY <1>1, <1>2 DEF PipeInv, InOrder, AtWriter, AtReader, Running
<1>7. Ending'
  BY <1>1, <1>2, <1>4 DEF PipeInv, Ending, Running
<1>8. TypeOK'
  BY <1>1, <1>2, <1>4 DEF PipeInv, TypeOK
<1> QED
  BY <1>5, <1>6, <1>7, <1>8 DEF PipeInv

\* The reader closes the channel filled, after it has reported.
LEMMA ExitPipe ==
    ASSUME PipeInv, Exit
    PROVE  PipeInv'
<1>1. /\ reader.pc = "exit" /\ reader'.pc = "gone" /\ reader'.err = reader.err
      /\ reader' \in ReaderState /\ closed' = TRUE
  BY DEF PipeInv, TypeOK, Exit, ReaderReturns, ReaderState
<1>2. UNCHANGED <<free, filled, readErr, done, holds, writer, hashed, wire,
                  cancelled, broken>>
  BY DEF Exit
<1>3. OneOwner'
  BY <1>1, <1>2 DEF PipeInv, OneOwner, ReaderHas, WriterHas
<1>4. InOrder'
  BY <1>1, <1>2 DEF PipeInv, InOrder, AtWriter, AtReader, Running
<1>5. Ending'
  BY <1>1, <1>2 DEF PipeInv, Ending, Running
<1>6. TypeOK'
  BY <1>1, <1>2 DEF PipeInv, TypeOK
<1> QED
  BY <1>3, <1>4, <1>5, <1>6 DEF PipeInv

-----------------------------------------------------------------------------
(* The steps of streamFile's own goroutine.                                *)

\* The oldest chunk goes from the channel filled to the writer.
LEMMA NextFramePipe ==
    ASSUME PipeInv, NextFrame
    PROVE  PipeInv'
<1>1. /\ filled \in Seq(Buffers) /\ filled # <<>> /\ Distinct(filled)
      /\ writer \in WriterState /\ writer.pc = "next"
  BY DEF PipeInv, TypeOK, OneOwner, NextFrame
<1>2. /\ Head(filled) \in Buffers /\ In(Head(filled), filled)
      /\ ~In(Head(filled), Tail(filled))
      /\ Tail(filled) \in Seq(Buffers) /\ Distinct(Tail(filled))
      /\ \A b : In(b, Tail(filled)) => In(b, filled)
  BY <1>1, Receiving
<1>3. /\ filled' = Tail(filled)
      /\ UNCHANGED <<free, closed, readErr, done, holds, reader, hashed, wire,
                     cancelled, broken>>
  BY DEF NextFrame
<1>4. /\ writer'.pc = "send" /\ writer'.buf = Head(filled)
      /\ writer' \in WriterState
  BY <1>1, <1>2 DEF NextFrame, WriterState
<1>5. /\ Len(filled) \in Nat \ {0} /\ Len(Tail(filled)) = Len(filled) - 1
      /\ Head(filled) = filled[1]
      /\ \A i \in 1..(Len(filled) - 1) : Tail(filled)[i] = filled[i + 1]
  BY <1>1, HeadTailProperties, EmptySeq, LenProperties
<1>6. OneOwner'
  BY <1>1, <1>2, <1>3, <1>4 DEF PipeInv, OneOwner, ReaderHas, WriterHas
<1>7. InOrder'
  <2>1. Len(wire) \in Nat /\ AtReader \in Nat
    BY LenProperties DEF PipeInv, TypeOK, AtReader
  <2>2. /\ Len(hashed) = Len(wire) + Len(filled) + AtReader
        /\ \A i \in 1..Len(filled) : holds[filled[i]] = Len(wire) + i
    BY <1>1, <1>5, <2>1 DEF PipeInv, InOrder, AtWriter, Running
  <2>3. /\ AtWriter' = 1 /\ AtReader' = AtReader
    BY <1>3, <1>4 DEF AtWriter, AtReader
  <2>4. Len(hashed) = Len(wire) + 1 + (Len(filled) - 1) + AtReader
    BY <1>5, <2>1, <2>2
  <2>5. holds[Head(filled)] = Len(wire) + 1
    BY <1>5, <2>2
  <2>6. \A i \in 1..(Len(filled) - 1) : holds[Tail(filled)[i]] = Len(wire) + 1 + i
    BY <1>5, <2>1, <2>2
  <2>7. /\ \A i \in 1..Len(hashed) : hashed[i] = i
        /\ \A i \in 1..Len(wire) : wire[i] = i
        /\ reader.pc = "pass" => holds[reader.buf] = Len(hashed)
    BY <1>1 DEF PipeInv, InOrder, Running
  <2> QED
    BY <1>3, <1>4, <1>5, <2>3, <2>4, <2>5, <2>6, <2>7 DEF InOrder
<1>8. Ending'
  BY <1>1, <1>3, <1>4 DEF PipeInv, Ending, Running
<1>9. TypeOK'
  <2>1. Len(filled') <= Depth
    BY <1>3, <1>5, DepthAssumption DEF PipeInv, TypeOK
  <2> QED
    BY <1>2, <1>3, <1>4, <2>1 DEF PipeInv, TypeOK
<1> QED
  BY <1>6, <1>7, <1>8, <1>9 DEF PipeInv

\* The range loop over filled ends.
LEMMA NoMoreFramesPipe ==
    ASSUME PipeInv, NoMoreFrames
    PROVE  PipeInv'
<1>1. /\ writer.pc = "next" /\ writer'.pc = "await"
      /\ writer' \in WriterState
      /\ filled = <<>> /\ closed
  BY DEF PipeInv, TypeOK, NoMoreFrames, WriterState
<1>2. UNCHANGED <<free, filled, closed, readErr, done, holds, reader, hashed, wire,
                  cancelled, broken>>
  BY DEF NoMoreFrames, channels
<1>3. OneOwner'
  BY <1>1, <1>2 DEF PipeInv, OneOwner, ReaderHas, WriterHas
<1>4. InOrder'
  BY <1>1, <1>2 DEF PipeInv, InOrder, AtWriter, AtReader, Running
<1>5. Ending'
  BY <1>1, <1>2 DEF PipeInv, Ending, Running
<1>6. TypeOK'
  BY <1>1, <1>2 DEF PipeInv, TypeOK
<1> QED
  BY <1>3, <1>4, <1>5, <1>6 DEF PipeInv

\* The chunk that goes out is the next one of the file.
LEMMA SendsTheNext ==
    ASSUME PipeInv, SendFrame
    PROVE  /\ Len(wire) \in Nat /\ Len(wire) + 1 \in Chunks
           /\ wire' = Append(wire, Len(wire) + 1)
<1>1. /\ writer.pc = "send" /\ writer.buf \in Buffers
      /\ holds[writer.buf] = Len(wire) + 1
      /\ wire' = Append(wire, holds[writer.buf])
  BY DEF PipeInv, OneOwner, InOrder, WriterHas, Running, SendFrame
<1>2. holds[writer.buf] \in Chunks \cup {0}
  BY <1>1 DEF PipeInv, TypeOK
<1>3. Len(wire) \in Nat
  BY LenProperties DEF PipeInv, TypeOK
<1> QED
  BY <1>1, <1>2, <1>3

\* A chunk goes out on the connection.
LEMMA SendFramePipe ==
    ASSUME PipeInv, SendFrame
    PROVE  PipeInv'
<1> DEFINE chunk == Len(wire) + 1
<1>1. /\ Len(wire) \in Nat /\ chunk \in Chunks
      /\ wire' = Append(wire, chunk)
  BY SendsTheNext
<1>2. /\ writer.pc = "send" /\ writer'.pc = "give" /\ writer'.buf = writer.buf
      /\ writer' \in WriterState
      /\ UNCHANGED <<free, filled, closed, readErr, done, holds, reader, hashed,
                     cancelled, broken>>
  BY DEF PipeInv, TypeOK, SendFrame, WriterState, channels
<1>3. /\ wire \in Seq(Chunks) /\ wire' \in Seq(Chunks) /\ Len(wire') = chunk
      /\ \A i \in 1..Len(wire) : wire'[i] = wire[i]
      /\ wire'[chunk] = chunk
  BY <1>1, AppendProperties, LenProperties DEF PipeInv, TypeOK
<1>4. OneOwner'
  BY <1>2 DEF PipeInv, OneOwner, ReaderHas, WriterHas
<1>5. InOrder'
  <2>1. /\ Len(filled) \in Nat /\ AtReader \in Nat
    BY LenProperties DEF PipeInv, TypeOK, AtReader
  <2>2. /\ Len(hashed) = Len(wire) + 1 + Len(filled) + AtReader
        /\ \A i \in 1..Len(filled) : holds[filled[i]] = Len(wire) + 1 + i
        /\ reader.pc = "pass" => holds[reader.buf] = Len(hashed)
    BY <1>2 DEF PipeInv, InOrder, AtWriter, Running
  <2>3. \A i \in 1..Len(wire') : wire'[i] = i
    BY <1>1, <1>3 DEF PipeInv, InOrder
  <2>4. AtWriter' = 0 /\ AtReader' = AtReader
    BY <1>2 DEF AtWriter, AtReader
  <2>5. /\ Len(hashed) = chunk + 0 + Len(filled) + AtReader
        /\ \A i \in 1..Len(filled) : holds[filled[i]] = chunk + 0 + i
    BY <1>1, <2>1, <2>2
  <2>6. \A i \in 1..Len(hashed) : hashed[i] = i
    BY DEF PipeInv, InOrder
  <2> QED
    BY <1>2, <1>3, <2>2, <2>3, <2>4, <2>5, <2>6 DEF InOrder
<1>6. Ending'
  BY <1>2 DEF PipeInv, Ending, Running
<1>7. TypeOK'
  BY <1>2, <1>3 DEF PipeInv, TypeOK
<1> QED
  BY <1>4, <1>5, <1>6, <1>7 DEF PipeInv

\* streamFile returns because of a cancel or of a failed write.
LEMMA SendFailsPipe ==
    ASSUME PipeInv, SendFails
    PROVE  PipeInv'
<1>1. /\ writer.pc = "send" /\ writer'.pc = "failed" /\ done' = TRUE
      /\ writer' \in WriterState
      /\ UNCHANGED <<free, filled, closed, readErr, holds, reader, hashed, wire,
                     cancelled, broken>>
  BY DEF PipeInv, TypeOK, SendFails, WriterReturns, WriterState
<1>2. OneOwner'
  BY <1>1 DEF PipeInv, OneOwner, ReaderHas, WriterHas
<1>3. InOrder'
  BY <1>1 DEF PipeInv, InOrder, Running
<1>4. Ending'
  BY <1>1 DEF PipeInv, Ending, Running
<1>5. TypeOK'
  BY <1>1 DEF PipeInv, TypeOK
<1> QED
  BY <1>2, <1>3, <1>4, <1>5 DEF PipeInv

\* A written buffer goes back to the channel free.
LEMMA GiveBackPipe ==
    ASSUME PipeInv, GiveBack
    PROVE  PipeInv'
<1>1. /\ writer.pc = "give" /\ writer \in WriterState /\ writer.buf \in Buffers
      /\ free \in Seq(Buffers) /\ Distinct(free) /\ ~In(writer.buf, free)
      /\ ~In(writer.buf, filled) /\ Len(free) < Depth
  BY DEF PipeInv, TypeOK, OneOwner, WriterHas, GiveBack
<1>2. /\ free' = Append(free, writer.buf)
      /\ UNCHANGED <<filled, closed, readErr, done, holds, reader, hashed, wire,
                     cancelled, broken>>
  BY DEF GiveBack
<1>3. writer'.pc = "next" /\ writer' \in WriterState
  BY <1>1 DEF GiveBack, WriterState
<1>4. /\ free' \in Seq(Buffers) /\ Distinct(free')
      /\ \A b : In(b, free') <=> In(b, free) \/ b = writer.buf
  BY <1>1, <1>2, Sending
<1>5. Len(free') <= Depth
  BY <1>1, <1>2, AppendProperties, LenProperties, DepthAssumption
<1>6. OneOwner'
  BY <1>1, <1>2, <1>3, <1>4 DEF PipeInv, OneOwner, ReaderHas, WriterHas
<1>7. InOrder'
  BY <1>1, <1>2, <1>3 DEF PipeInv, InOrder, AtWriter, AtReader, Running
<1>8. Ending'
  BY <1>1, <1>2, <1>3 DEF PipeInv, Ending, Running
<1>9. TypeOK'
  BY <1>2, <1>3, <1>4, <1>5 DEF PipeInv, TypeOK
<1> QED
  BY <1>6, <1>7, <1>8, <1>9 DEF PipeInv

\* When the reader reports the end of the file, all of it is on the connection.
LEMMA NilMeansAll ==
    ASSUME PipeInv, AwaitResult, Head(readErr) = "nil"
    PROVE  reader.pc = "gone" /\ hashed = wire /\ Len(wire) = NChunks
<1>1. reader.pc = "gone" /\ filled = <<>> /\ Len(hashed) = NChunks
  BY DEF PipeInv, Ending, AwaitResult
<1>2. /\ hashed \in Seq(Chunks) /\ wire \in Seq(Chunks)
      /\ Len(wire) \in Nat
  BY LenProperties DEF PipeInv, TypeOK
<1>3. Len(hashed) = Len(wire)
  <2>1. Len(hashed) = Len(wire) + AtWriter + Len(filled) + AtReader
    BY DEF PipeInv, InOrder, Running, AwaitResult
  <2>2. AtWriter = 0 /\ AtReader = 0 /\ Len(filled) = 0
    BY <1>1 DEF AtWriter, AtReader, AwaitResult
  <2> QED
    BY <1>2, <2>1, <2>2
<1>4. \A i \in 1..Len(hashed) : hashed[i] = wire[i]
  BY <1>3 DEF PipeInv, InOrder
<1>5. hashed = wire
  BY <1>2, <1>3, <1>4, SeqEqual
<1> QED
  BY <1>1, <1>3, <1>5

\* streamFile returns what the reader reported.
LEMMA AwaitResultPipe ==
    ASSUME PipeInv, AwaitResult
    PROVE  PipeInv'
<1> DEFINE how == IF Head(readErr) = "nil" THEN "ok" ELSE "failed"
<1>1. /\ writer.pc = "await" /\ writer'.pc = how /\ done' = TRUE
      /\ writer' \in WriterState
  BY DEF PipeInv, TypeOK, AwaitResult, WriterReturns, WriterState
<1>2. UNCHANGED <<free, filled, closed, holds, reader, hashed, wire, cancelled,
                  broken>>
  BY DEF AwaitResult
<1>3. readErr' = <<>>
  <2>1. readErr \in Seq({"nil", "bad"}) /\ readErr # <<>> /\ Len(readErr) <= 1
    BY DEF PipeInv, TypeOK, AwaitResult
  <2>2. Len(readErr) \in Nat \ {0}
    BY <2>1, EmptySeq
  <2>3. /\ Tail(readErr) \in Seq({"nil", "bad"})
        /\ Len(Tail(readErr)) = Len(readErr) - 1
    BY <2>1, HeadTailProperties
  <2>4. Len(Tail(readErr)) = 0
    BY <2>1, <2>2, <2>3
  <2> QED
    BY <2>3, <2>4, EmptySeq DEF AwaitResult
<1>4. OneOwner'
  BY <1>1, <1>2 DEF PipeInv, OneOwner, ReaderHas, WriterHas
<1>5. InOrder'
  BY <1>1, <1>2 DEF PipeInv, InOrder, Running
<1>6. Ending'
  BY <1>1, <1>2, <1>3, NilMeansAll DEF PipeInv, Ending, Running
<1>7. TypeOK'
  BY <1>1, <1>2, <1>3 DEF PipeInv, TypeOK
<1> QED
  BY <1>4, <1>5, <1>6, <1>7 DEF PipeInv

-----------------------------------------------------------------------------
(* The theorems.                                                           *)

\* Every step of the two goroutines, of a cancel and of a broken connection.
LEMMA NextPipe == PipeInv /\ [Next]_vars => PipeInv'
<1> SUFFICES ASSUME PipeInv, [Next]_vars PROVE PipeInv'
  OBVIOUS
<1>1. CASE ReaderStep
  BY <1>1, TakePipe, ReadSomePipe, ReadNonePipe, PassPipe, AbandonPipe, ReportPipe,
     ExitPipe DEF ReaderStep
<1>2. CASE WriterStep
  BY <1>2, NextFramePipe, NoMoreFramesPipe, SendFramePipe, SendFailsPipe,
     GiveBackPipe, AwaitResultPipe DEF WriterStep
<1>3. CASE Cancel \/ Break
  <2>1. /\ UNCHANGED <<free, filled, closed, readErr, done, holds, reader, writer,
                       hashed, wire>>
        /\ cancelled' \in BOOLEAN /\ broken' \in BOOLEAN
    BY <1>3, Zenon DEF PipeInv, TypeOK, Cancel, Break, channels
  <2>2. TypeOK'
    BY <2>1 DEF PipeInv, TypeOK
  <2>3. OneOwner' /\ InOrder' /\ Ending'
    BY <2>1 DEF PipeInv, OneOwner, ReaderHas, WriterHas, InOrder, AtWriter, AtReader,
                Running, Ending
  <2> QED
    BY <2>2, <2>3 DEF PipeInv
<1>4. CASE AtRest \/ UNCHANGED vars
  <2>1. UNCHANGED <<free, filled, closed, readErr, done, holds, reader, writer,
                    hashed, wire, cancelled, broken>>
    BY <1>4 DEF AtRest, vars, channels
  <2>2. TypeOK'
    BY <2>1 DEF PipeInv, TypeOK
  <2>3. OneOwner' /\ InOrder' /\ Ending'
    BY <2>1 DEF PipeInv, OneOwner, ReaderHas, WriterHas, InOrder, AtWriter, AtReader,
                Running, Ending
  <2> QED
    BY <2>2, <2>3 DEF PipeInv
<1> QED
  BY <1>1, <1>2, <1>3, <1>4 DEF Next

\* The invariant holds in every state of streamFile.
LEMMA PipeInvariant == Spec => []PipeInv
<1>1. Init => PipeInv
  BY InitPipe
<1>2. PipeInv /\ [Next]_vars => PipeInv'
  BY NextPipe
<1> QED
  BY <1>1, <1>2, PTL DEF Spec

\* A step of the goroutines is a step of the promise, or changes nothing that
\* sendFile can see.
LEMMA StepKeepsPromise ==
    ASSUME PipeInv, [Next]_vars
    PROVE  [Promise!Next]_(Promise!vars)
<1> DEFINE dig == IF writer.pc = "ok" THEN hashed ELSE <<>>
           res == IF Running THEN "running" ELSE writer.pc
<1>1. ASSUME UNCHANGED <<writer, hashed, wire>> PROVE UNCHANGED <<wire, dig, res>>
  BY <1>1 DEF Running
<1>2. ASSUME writer.pc # "ok", UNCHANGED <<writer, wire>>
      PROVE  UNCHANGED <<wire, dig, res>>
  BY <1>2 DEF Running
<1>3. CASE ReaderStep
  <2>1. UNCHANGED <<writer, wire>>
    BY <1>3 DEF ReaderStep, Take, ReadSome, ReadNone, Pass, Abandon, Report, Exit, channels
  <2>2. CASE writer.pc # "ok"
    BY <1>2, <2>1, <2>2 DEF Promise!vars
  <2>3. CASE writer.pc = "ok"
    <3>1. reader.pc = "gone"
      BY <2>3 DEF PipeInv, Ending
    <3> QED
      BY <1>3, <3>1 DEF ReaderStep, Take, ReadSome, ReadNone, Pass, Abandon, Report, Exit
  <2> QED
    BY <2>2, <2>3
<1>4. CASE SendFrame
  <2>1. /\ Len(wire) \in Nat /\ Len(wire) < NChunks
        /\ wire' = Append(wire, Len(wire) + 1)
    BY <1>4, SendsTheNext, NChunksAssumption DEF Chunks
  <2>2. /\ writer.pc = "send" /\ writer'.pc = "give"
    BY <1>4 DEF SendFrame, PipeInv, TypeOK, WriterState
  <2>3. /\ res = "running" /\ res' = "running" /\ dig = <<>> /\ dig' = <<>>
    BY <2>2 DEF Running
  <2> QED
    BY <2>1, <2>3 DEF Promise!Next, Promise!Frame
<1>5. CASE AwaitResult /\ Head(readErr) = "nil"
  <2>1. reader.pc = "gone" /\ hashed = wire /\ Len(wire) = NChunks
    BY <1>5, NilMeansAll
  <2>2. /\ writer.pc = "await" /\ writer'.pc = "ok"
        /\ UNCHANGED <<hashed, wire>>
    BY <1>5 DEF AwaitResult, WriterReturns, PipeInv, TypeOK, WriterState
  <2>3. /\ res = "running" /\ res' = "ok" /\ dig' = wire
    BY <2>1, <2>2 DEF Running
  <2> QED
    BY <2>1, <2>2, <2>3 DEF Promise!Next, Promise!Return
<1>6. CASE SendFails \/ (AwaitResult /\ Head(readErr) # "nil")
  <2>1. /\ writer.pc \in {"send", "await"} /\ writer'.pc = "failed"
        /\ UNCHANGED wire
    BY <1>6 DEF SendFails, AwaitResult, WriterReturns, PipeInv, TypeOK, WriterState
  <2>2. /\ res = "running" /\ res' = "failed" /\ dig = <<>> /\ dig' = <<>>
    BY <2>1 DEF Running
  <2> QED
    BY <2>1, <2>2 DEF Promise!Next, Promise!Fail
<1>7. CASE NextFrame \/ NoMoreFrames \/ GiveBack
  <2>1. /\ writer.pc \in {"next", "give"} /\ writer'.pc \in {"send", "await", "next"}
        /\ UNCHANGED wire
    BY <1>7 DEF NextFrame, NoMoreFrames, GiveBack, PipeInv, TypeOK, WriterState
  <2>2. /\ res = "running" /\ res' = "running" /\ dig = <<>> /\ dig' = <<>>
    BY <2>1 DEF Running
  <2> QED
    BY <2>1, <2>2 DEF Promise!vars
<1>8. CASE Cancel \/ Break \/ AtRest \/ UNCHANGED vars
  <2>1. UNCHANGED <<writer, hashed, wire>>
    BY <1>8 DEF Cancel, Break, AtRest, vars
  <2> QED
    BY <1>1, <2>1 DEF Promise!vars
<1> QED
  BY <1>3, <1>4, <1>5, <1>6, <1>7, <1>8 DEF Next, WriterStep

\* streamFile, with its two goroutines and its ring of buffers, implements what
\* sendFile takes it to do: chunks go out in order, and nil is returned with a
\* digest of exactly the chunks that went out, the whole rest of the file.
THEOREM PromiseKept == Spec => KeepsPromise
<1>1. Init => Promise!Init
  BY DEF Init, Promise!Init, Running
<1>2. PipeInv /\ [Next]_vars => [Promise!Next]_(Promise!vars)
  BY StepKeepsPromise
<1> QED
  BY <1>1, <1>2, PipeInvariant, PTL DEF Spec, KeepsPromise, Promise!Spec

\* The buffers in flight hold the chunks after those on the connection, in order.
LEMMA FlightInOrder ==
    ASSUME PipeInv, Running
    PROVE  /\ InFlight \in Seq(Buffers)
           /\ Len(wire) \in Nat /\ Len(InFlight) \in Nat
           /\ Len(hashed) = Len(wire) + Len(InFlight)
           /\ \A i \in 1..Len(InFlight) : holds[InFlight[i]] = Len(wire) + i
<1> DEFINE first == IF writer.pc = "send" THEN <<writer.buf>> ELSE <<>>
           last == IF reader.pc = "pass" THEN <<reader.buf>> ELSE <<>>
<1>1. /\ first \in Seq(Buffers) /\ Len(first) = AtWriter
      /\ \A i \in 1..Len(first) : holds[first[i]] = Len(wire) + i
  BY DEF PipeInv, OneOwner, WriterHas, InOrder, AtWriter
<1>2. /\ last \in Seq(Buffers) /\ Len(last) = AtReader
      /\ \A i \in 1..Len(last) : i = 1 /\ holds[last[i]] = Len(hashed)
  BY DEF PipeInv, OneOwner, ReaderHas, InOrder, AtReader
<1>3. /\ filled \in Seq(Buffers) /\ Len(filled) \in Nat /\ Len(wire) \in Nat
      /\ AtWriter \in {0, 1} /\ AtReader \in {0, 1}
  BY LenProperties DEF PipeInv, TypeOK, AtWriter, AtReader
<1>4. /\ Len(hashed) = Len(wire) + AtWriter + Len(filled) + AtReader
      /\ \A i \in 1..Len(filled) : holds[filled[i]] = Len(wire) + AtWriter + i
  BY DEF PipeInv, InOrder
<1>5. InFlight = (first \o filled) \o last
  BY DEF InFlight
<1> HIDE DEF first, last
<1>6. /\ first \o filled \in Seq(Buffers)
      /\ Len(first \o filled) = AtWriter + Len(filled)
      /\ \A i \in 1..(AtWriter + Len(filled)) :
            (first \o filled)[i] = IF i <= AtWriter THEN first[i] ELSE filled[i - AtWriter]
  BY <1>1, <1>3, ConcatProperties
<1>7. \A i \in 1..(AtWriter + Len(filled)) : holds[(first \o filled)[i]] = Len(wire) + i
  <2> SUFFICES ASSUME NEW i \in 1..(AtWriter + Len(filled))
               PROVE  holds[(first \o filled)[i]] = Len(wire) + i
    OBVIOUS
  <2>1. CASE i <= AtWriter
    BY <1>1, <1>3, <1>6, <2>1
  <2>2. CASE ~(i <= AtWriter)
    <3>1. i - AtWriter \in 1..Len(filled)
      BY <1>3, <2>2
    <3>2. (first \o filled)[i] = filled[i - AtWriter]
      BY <1>6, <2>2
    <3>3. holds[filled[i - AtWriter]] = Len(wire) + AtWriter + (i - AtWriter)
      BY <1>4, <3>1
    <3> QED
      BY <1>3, <3>2, <3>3
  <2> QED
    BY <2>1, <2>2
<1> DEFINE front == first \o filled
           m == AtWriter + Len(filled)
<1>8. /\ front \in Seq(Buffers) /\ Len(front) = m /\ m \in Nat
      /\ \A i \in 1..m : holds[front[i]] = Len(wire) + i
      /\ InFlight = front \o last
      /\ Len(hashed) = Len(wire) + m + AtReader
  BY <1>3, <1>4, <1>5, <1>6, <1>7
<1> HIDE DEF front, m
<1>9. /\ InFlight \in Seq(Buffers) /\ Len(InFlight) = m + AtReader
      /\ \A i \in 1..(m + AtReader) :
            InFlight[i] = IF i <= m THEN front[i] ELSE last[i - m]
  BY <1>2, <1>3, <1>8, ConcatProperties
<1>10. \A i \in 1..(m + AtReader) : holds[InFlight[i]] = Len(wire) + i
  <2> SUFFICES ASSUME NEW i \in 1..(m + AtReader)
               PROVE  holds[InFlight[i]] = Len(wire) + i
    OBVIOUS
  <2>1. CASE i <= m
    <3>1. i \in 1..m /\ InFlight[i] = front[i]
      BY <1>3, <1>8, <1>9, <2>1
    <3> QED
      BY <1>8, <3>1
  <2>2. CASE ~(i <= m)
    <3>1. i - m = 1 /\ 1 \in 1..Len(last) /\ AtReader = 1
      BY <1>2, <1>3, <1>8, <2>2
    <3>2. InFlight[i] = last[1] /\ holds[last[1]] = Len(hashed)
      BY <1>2, <1>9, <2>2, <3>1
    <3> QED
      BY <1>3, <1>8, <2>2, <3>1, <3>2
  <2> QED
    BY <2>1, <2>2
<1>11. Len(InFlight) \in Nat /\ Len(hashed) = Len(wire) + Len(InFlight)
  BY <1>3, <1>8, <1>9
<1> QED
  BY <1>3, <1>9, <1>10, <1>11

\* Every variable of the pipeline keeps its type: no channel holds more than it
\* was made for, and the channel of the errors, made for one, never has to hold two.
THEOREM TypeCorrect == Spec => []TypeOK
<1>1. PipeInv => TypeOK
  BY DEF PipeInv
<1> QED
  BY <1>1, PipeInvariant, PTL

\* Between the hasher and the connection no chunk is lost, doubled or overtaken,
\* whatever the two goroutines do with the buffers they share.
THEOREM NothingIsLost == Spec => []NothingLost
<1>1. ASSUME PipeInv, Running
      PROVE  hashed = wire \o [i \in 1..Len(InFlight) |-> holds[InFlight[i]]]
  <2> DEFINE flight == [i \in 1..Len(InFlight) |-> holds[InFlight[i]]]
  <2>1. /\ InFlight \in Seq(Buffers)
        /\ Len(wire) \in Nat /\ Len(InFlight) \in Nat
        /\ Len(hashed) = Len(wire) + Len(InFlight)
        /\ \A i \in 1..Len(InFlight) : holds[InFlight[i]] = Len(wire) + i
    BY <1>1, FlightInOrder
  <2>2. /\ hashed \in Seq(Nat) /\ wire \in Seq(Nat)
        /\ \A i \in 1..Len(hashed) : hashed[i] = i
        /\ \A i \in 1..Len(wire) : wire[i] = i
    <3>1. /\ hashed \in Seq(Chunks) /\ wire \in Seq(Chunks)
          /\ \A n \in Chunks : n \in Nat
      BY <1>1 DEF PipeInv, TypeOK, Chunks
    <3>2. hashed \in Seq(Nat) /\ wire \in Seq(Nat)
      BY <3>1
    <3> QED
      BY <1>1, <3>2 DEF PipeInv, InOrder
  <2>3. /\ flight \in Seq(Nat) /\ Len(flight) = Len(InFlight)
        /\ \A i \in 1..Len(InFlight) : flight[i] = Len(wire) + i
    <3>1. \A i \in 1..Len(InFlight) : flight[i] = Len(wire) + i /\ flight[i] \in Nat
      BY <2>1
    <3>2. flight \in [1..Len(InFlight) -> Nat]
      BY <3>1
    <3>3. flight \in Seq(Nat)
      BY <2>1, <3>2, SeqDef
    <3>4. Len(flight) = Len(InFlight)
      BY <2>1, <3>2, <3>3, LenProperties
    <3> QED
      BY <3>1, <3>3, <3>4
  <2> HIDE DEF flight
  <2>4. /\ wire \o flight \in Seq(Nat)
        /\ Len(wire \o flight) = Len(hashed)
        /\ \A i \in 1..Len(hashed) :
              (wire \o flight)[i] = IF i <= Len(wire) THEN wire[i] ELSE flight[i - Len(wire)]
    <3>1. /\ wire \o flight \in Seq(Nat)
          /\ Len(wire \o flight) = Len(wire) + Len(flight)
          /\ \A i \in 1..(Len(wire) + Len(flight)) :
                (wire \o flight)[i] = IF i <= Len(wire) THEN wire[i] ELSE flight[i - Len(wire)]
      BY <2>2, <2>3, ConcatProperties
    <3> QED
      BY <2>1, <2>3, <3>1
  <2>5. \A i \in 1..Len(hashed) : hashed[i] = (wire \o flight)[i]
    <3> SUFFICES ASSUME NEW i \in 1..Len(hashed)
                 PROVE  i = (wire \o flight)[i]
      BY <2>2
    <3>1. CASE i <= Len(wire)
      BY <2>1, <2>2, <2>4, <3>1
    <3>2. CASE ~(i <= Len(wire))
      <4>1. i - Len(wire) \in 1..Len(InFlight)
        BY <2>1, <3>2
      <4> QED
        BY <2>1, <2>3, <2>4, <3>2, <4>1
    <3> QED
      BY <3>1, <3>2
  <2>6. hashed = wire \o flight
    BY <2>2, <2>4, <2>5, SeqEqual
  <2> QED
    BY <2>6 DEF flight
<1>2. PipeInv => NothingLost
  BY <1>1 DEF NothingLost
<1> QED
  BY <1>2, PipeInvariant, PTL

=============================================================================
