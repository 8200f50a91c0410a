--------------------------- MODULE TransferProofs ---------------------------
(***************************************************************************)
(* Proofs about Transfer for any number of connections and files, any       *)
(* contents, any chunk size and any bounds on edits and faults: its types;   *)
(* what a handler that accepts a file leaves on disk; that the two ends of a *)
(* connection never get out of step, whatever else is at work, is lost,       *)
(* cancelled or edited; what Send may conclude from its nil error; what is on *)
(* disk when nothing is edited; that Transfer implements Delivery; and what a *)
(* handler may rely on while others have the same file open.                *)
(***************************************************************************)
EXTENDS Transfer, ResumeProofs, FiniteSetTheorems

-----------------------------------------------------------------------------
(* Operators and frames.                                                   *)

\* NextFile names a file that is not skipped, or the place after the last.
LEMMA NextFileType ==
    ASSUME NEW off \in [Files -> Offset], NEW i \in 1..(NFiles + 1)
    PROVE  /\ NextFile(off, i) \in i..(NFiles + 1)
           /\ NextFile(off, i) \in Files => off[NextFile(off, i)] # Skip
           /\ \A k \in i..(NextFile(off, i) - 1) : off[k] = Skip
<1> DEFINE T == {j \in i..(NFiles + 1) : j \in Files => off[j] # Skip}
<1>1. T \in SUBSET Nat /\ NFiles + 1 \in T
  BY CountsAssumption DEF Files
<1>2. PICK j \in T : \A k \in T : j <= k
  <2> HIDE DEF T
  <2> QED
    BY <1>1, LeastNatural
<1>3. /\ j \in i..(NFiles + 1)
      /\ j \in Files => off[j] # Skip
      /\ \A k \in i..(j - 1) : off[k] = Skip
  BY <1>2, CountsAssumption DEF Files
<1> QED
  BY <1>3 DEF NextFile

\* The fields of a frame that its reader looks at.
LEMMA FrameFields ==
    /\ \A m \in ToReceiver :
        /\ m.kind = "ResumeQueryBatch" => m.queries \in [Files -> Query \cup {None}]
        /\ m.kind = "Data" => m.payload \in File
        /\ m.kind = "FileDone" => m.sum \in File
    /\ \A m \in ToSender :
        /\ m.kind = "HelloAck" => m.have \in [Files -> Nat]
        /\ m.kind = "ResumeAnswerBatch" => m.answers \in [Files -> Offset]
BY DEF ToReceiver, ToSender, Hello, Done, DoneAck

\* Reading the head of a wire, and writing to one.
LEMMA Reading ==
    ASSUME NEW S, NEW wire \in [Conns -> Seq(S)], NEW c \in Conns, wire[c] # <<>>
    PROVE  Head(wire[c]) \in S /\ [wire EXCEPT ![c] = Tail(wire[c])] \in [Conns -> Seq(S)]
BY HeadTailProperties

\* Writing to a wire leaves frames on it.
LEMMA Writing ==
    ASSUME NEW S, NEW wire \in [Conns -> Seq(S)], NEW c \in Conns, NEW frames \in Seq(S)
    PROVE  [wire EXCEPT ![c] = Put(c, wire, frames)] \in [Conns -> Seq(S)]
<1>1. Put(c, wire, frames) \in Seq(S)
  BY ConcatProperties DEF Put
<1> QED
  BY <1>1

-----------------------------------------------------------------------------
(* The type invariant.                                                     *)

\* A sender stands at no file it should skip, and what it has open is there.
SenderSound(s) ==
    /\ s.idx \in Files => s.off[s.idx] # Skip
    /\ s.pc = "stream" => s.idx \in Files /\ src[s.idx] # None

\* The same of a handler, where d are the destination files.
HandlerSound(h, d) ==
    /\ h.idx \in Files => h.off[h.idx] # Skip
    /\ h.pc \in {"open", "drain"} => h.idx \in Files /\ d[h.idx] # None

TypeInv ==
    /\ TypeOK
    /\ \A c \in Conns : SenderSound(snd[c]) /\ HandlerSound(rcv[c], dest)

\* A step that gives one sender the state s.
LEMMA SenderUpdate ==
    ASSUME TypeInv, NEW c \in Conns, NEW s \in SenderState, SenderSound(s),
           snd' = [snd EXCEPT ![c] = s], src' = src
    PROVE  /\ snd' \in [Conns -> SenderState]
           /\ \A d \in Conns : SenderSound(snd[d])'
<1>1. snd \in [Conns -> SenderState] /\ \A d \in Conns : SenderSound(snd[d])
  BY DEF TypeInv, TypeOK
<1>2. \A d \in Conns : snd'[d] = IF d = c THEN s ELSE snd[d]
  BY <1>1
<1> QED
  BY <1>1, <1>2 DEF SenderSound

\* A step that gives one handler the state h; a destination never goes away.
LEMMA HandlerUpdate ==
    ASSUME TypeInv, NEW c \in Conns, NEW h \in HandlerState, HandlerSound(h, dest'),
           rcv' = [rcv EXCEPT ![c] = h],
           \A f \in Files : dest[f] # None => dest'[f] # None
    PROVE  /\ rcv' \in [Conns -> HandlerState]
           /\ \A d \in Conns : HandlerSound(rcv[d], dest)'
<1>1. rcv \in [Conns -> HandlerState] /\ \A d \in Conns : HandlerSound(rcv[d], dest)
  BY DEF TypeInv, TypeOK
<1>2. \A d \in Conns : rcv'[d] = IF d = c THEN h ELSE rcv[d]
  BY <1>1
<1>3. ASSUME NEW d \in Conns PROVE HandlerSound(rcv[d], dest)'
  <2>1. CASE d = c
    BY <1>2, <2>1 DEF HandlerSound
  <2>2. CASE d # c
    BY <1>1, <1>2, <2>2 DEF HandlerSound
  <2> QED
    BY <2>1, <2>2
<1> QED
  BY <1>1, <1>2, <1>3

\* The end of a file: the rest of its bytes and FileDone.
LEMMA StreamEndTypeInv ==
    ASSUME TypeInv, NEW c \in Conns, StreamEnd(c)
    PROVE  TypeInv'
<1> DEFINE s == snd[c]
           f == s.idx
           rest == SubSeq(src[f], s.pos + 1, Len(src[f]))
           sum == s.hash \o rest
           frames == IF rest = <<>> THEN <<>> ELSE <<Data(f, rest)>>
           next == NextFile(s.off, f + 1)
           r == [s EXCEPT !.pc = "file", !.idx = next]
<1>1. /\ s \in SenderState
      /\ f \in Files /\ src[f] \in File
      /\ s.pos \in Nat /\ s.hash \in File
      /\ s.off \in [Files -> Offset]
  BY DEF TypeInv, TypeOK, SenderSound, StreamEnd, SenderState
<1>2. rest \in File /\ sum \in File
  <2>1. Len(src[f]) \in Int /\ s.pos + 1 \in Int
    BY <1>1, LenProperties DEF File
  <2>2. \A i \in (s.pos + 1)..Len(src[f]) : src[f][i] \in Byte
    BY <1>1, LenProperties, ElementOfSeq DEF File
  <2>3. rest \in File
    BY <2>1, <2>2, SubSeqProperties DEF File
  <2> QED
    BY <1>1, <2>3, ConcatProperties DEF File
<1>3. Append(frames, FileDone(f, sum)) \in Seq(ToReceiver)
  <2>1. FileDone(f, sum) \in ToReceiver /\ Data(f, rest) \in ToReceiver
    BY <1>1, <1>2 DEF ToReceiver, FileDone, Data
  <2> QED
    BY <2>1
<1>4. next \in 1..(NFiles + 1) /\ (next \in Files => s.off[next] # Skip)
  <2>1. f + 1 \in 1..(NFiles + 1)
    BY <1>1, CountsAssumption DEF Files
  <2> QED
    BY <1>1, <2>1, NextFileType
<1>5. /\ snd' = [snd EXCEPT ![c] = r]
      /\ toR' = [toR EXCEPT ![c] = Put(c, toR, Append(frames, FileDone(f, sum)))]
      /\ told' = [told EXCEPT ![c][f] = sum]
      /\ UNCHANGED <<src, dest, rcv, toS, link, edits, hit, taken, latest, opener>>
  BY DEF StreamEnd
<1> HIDE DEF s, f, rest, sum, frames, next
<1>6. r \in SenderState /\ SenderSound(r)
  BY <1>1, <1>4 DEF SenderState, SenderSound
<1> HIDE DEF r
<1>7. toR' \in [Conns -> Seq(ToReceiver)]
  BY <1>3, <1>5, Writing DEF TypeInv, TypeOK
<1>8. told' \in [Conns -> [Files -> File \cup {None}]]
  BY <1>1, <1>2, <1>5 DEF TypeInv, TypeOK
<1> QED
  BY <1>5, <1>6, <1>7, <1>8, SenderUpdate DEF TypeInv, TypeOK, HandlerSound

\* A step that only moves a sender on, not into a file.
LEMMA SenderMoves ==
    ASSUME TypeInv, NEW c \in Conns, src' = src,
           NEW p \in {"hello", "query", "file", "ack", "ok", "failed"},
           snd' = [snd EXCEPT ![c].pc = p]
    PROVE  /\ snd' \in [Conns -> SenderState]
           /\ \A d \in Conns : SenderSound(snd[d])'
<1> DEFINE r == [snd[c] EXCEPT !.pc = p]
<1>1. snd[c] \in SenderState /\ SenderSound(snd[c])
  BY DEF TypeInv, TypeOK
<1>2. snd' = [snd EXCEPT ![c] = r]
  BY DEF TypeInv, TypeOK
<1>3. r \in SenderState /\ SenderSound(r)
  BY <1>1 DEF SenderState, SenderSound
<1> HIDE DEF r
<1> QED
  BY <1>2, <1>3, SenderUpdate

\* A step that only moves a handler on, not into a file.
LEMMA HandlerMoves ==
    ASSUME TypeInv, NEW c \in Conns,
           NEW p \in {"hello", "query", "file", "acked", "failed"},
           rcv' = [rcv EXCEPT ![c].pc = p],
           \A f \in Files : dest[f] # None => dest'[f] # None
    PROVE  /\ rcv' \in [Conns -> HandlerState]
           /\ \A d \in Conns : HandlerSound(rcv[d], dest)'
<1> DEFINE r == [rcv[c] EXCEPT !.pc = p]
<1>1. rcv[c] \in HandlerState /\ HandlerSound(rcv[c], dest)
  BY DEF TypeInv, TypeOK
<1>2. rcv' = [rcv EXCEPT ![c] = r]
  BY DEF TypeInv, TypeOK
<1>3. r \in HandlerState /\ HandlerSound(r, dest')
  BY <1>1 DEF HandlerState, HandlerSound
<1> HIDE DEF r
<1> QED
  BY <1>2, <1>3, HandlerUpdate

\* The end of Send.
LEMMA SenderEndsTypeInv ==
    ASSUME TypeInv, NEW c \in Conns, NEW how \in {"ok", "failed"}, SenderEnds(c, how),
           UNCHANGED <<src, dest, rcv, toR, edits, hit, ghosts>>
    PROVE  TypeInv'
<1>1. /\ snd' \in [Conns -> SenderState]
      /\ \A d \in Conns : SenderSound(snd[d])'
  BY SenderMoves DEF SenderEnds
<1>2. /\ link' \in [Conns -> {"none", "up", "down"}]
      /\ toS' \in [Conns -> Seq(ToSender)]
  BY DEF SenderEnds, TypeInv, TypeOK
<1> QED
  BY <1>1, <1>2 DEF TypeInv, TypeOK, ghosts, HandlerSound

\* The end of handleConn; a destination may have got a last write.
LEMMA HandlerEndsTypeInv ==
    ASSUME TypeInv, NEW c \in Conns, NEW how \in {"acked", "failed"}, HandlerEnds(c, how),
           dest' \in [Files -> File \cup {None}],
           \A f \in Files : dest[f] # None => dest'[f] # None,
           toS' \in [Conns -> Seq(ToSender)], hit' \in SUBSET Conns,
           UNCHANGED <<src, snd, edits, ghosts>>
    PROVE  TypeInv'
<1>1. /\ rcv' \in [Conns -> HandlerState]
      /\ \A d \in Conns : HandlerSound(rcv[d], dest)'
  BY HandlerMoves DEF HandlerEnds
<1>2. /\ link' \in [Conns -> {"none", "up", "down"}]
      /\ toR' \in [Conns -> Seq(ToReceiver)]
  BY DEF HandlerEnds, TypeInv, TypeOK
<1> QED
  BY <1>1, <1>2 DEF TypeInv, TypeOK, ghosts, SenderSound

\* A call of Send.
LEMMA SendTypeInv ==
    ASSUME TypeInv, NEW c \in Conns, Send(c)
    PROVE  TypeInv'
<1> DEFINE size == [f \in Files |-> Len(src[f])]
           r == [snd[c] EXCEPT !.pc = "hello", !.size = size]
<1>1. snd[c] \in SenderState /\ SenderSound(snd[c])
  BY DEF TypeInv, TypeOK
<1>2. size \in [Files -> Nat]
  <2>1. \A f \in Files : src[f] \in File
    BY DEF TypeInv, TypeOK, Send, Present
  <2> QED
    BY <2>1, LenProperties DEF File
<1>3. /\ snd' = [snd EXCEPT ![c] = r]
      /\ rcv' = [rcv EXCEPT ![c].pc = "hello"]
      /\ link' = [link EXCEPT ![c] = "up"]
      /\ toR' = [toR EXCEPT ![c] = <<Hello>>]
      /\ latest' = c
      /\ UNCHANGED <<src, dest, toS, edits, hit, told, taken, opener>>
  BY DEF Send
<1> HIDE DEF size
<1>4. r \in SenderState /\ SenderSound(r)
  BY <1>1, <1>2 DEF SenderState, SenderSound
<1> HIDE DEF r
<1>5. /\ snd' \in [Conns -> SenderState]
      /\ \A d \in Conns : SenderSound(snd[d])'
  BY <1>3, <1>4, SenderUpdate
<1>6. /\ rcv' \in [Conns -> HandlerState]
      /\ \A d \in Conns : HandlerSound(rcv[d], dest)'
  BY <1>3, HandlerMoves
<1>7. toR' \in [Conns -> Seq(ToReceiver)]
  <2>1. <<Hello>> \in Seq(ToReceiver)
    BY DEF ToReceiver
  <2> QED
    BY <1>3, <2>1 DEF TypeInv, TypeOK
<1>8. link' \in [Conns -> {"none", "up", "down"}]
  BY <1>3 DEF TypeInv, TypeOK
<1> QED
  BY <1>3, <1>5, <1>6, <1>7, <1>8 DEF TypeInv, TypeOK

\* resolveResume without candidates.
LEMMA StartFreshTypeInv ==
    ASSUME TypeInv, NEW c \in Conns, StartFresh(c)
    PROVE  TypeInv'
<1>1. /\ snd' \in [Conns -> SenderState]
      /\ \A d \in Conns : SenderSound(snd[d])'
  BY SenderMoves DEF StartFresh
<1>2. toS' \in [Conns -> Seq(ToSender)]
  BY Reading DEF StartFresh, TypeInv, TypeOK
<1> QED
  BY <1>1, <1>2 DEF StartFresh, TypeInv, TypeOK, ghosts, HandlerSound

\* resolveResume asks about the candidates.
LEMMA SendQueriesTypeInv ==
    ASSUME TypeInv, NEW c \in Conns, SendQueries(c)
    PROVE  TypeInv'
<1> DEFINE asked == Candidates(Head(toS[c]).have)
           batch == [f \in Files |->
               IF f \in asked THEN ResumeQuery(snd[c].size[f], src[f]) ELSE None]
<1>1. /\ snd' \in [Conns -> SenderState]
      /\ \A d \in Conns : SenderSound(snd[d])'
  BY SenderMoves DEF SendQueries
<1>2. toS' \in [Conns -> Seq(ToSender)]
  BY Reading DEF SendQueries, TypeInv, TypeOK
<1>3. batch \in [Files -> Query \cup {None}]
  <2>1. ASSUME NEW f \in asked, f \in Files
        PROVE  ResumeQuery(snd[c].size[f], src[f]) \in Query
    <3>1. src[f] \in File
      BY <2>1 DEF SendQueries, TypeInv, TypeOK, Present
    <3>2. snd[c].size[f] \in Nat
      BY <2>1 DEF TypeInv, TypeOK, SenderState
    <3> QED
      BY <3>1, <3>2, ResumeQueryType
  <2> HIDE DEF asked
  <2> QED
    BY <2>1
<1>4. toR' = [toR EXCEPT ![c] = Put(c, toR, <<QueryBatch(batch)>>)]
  BY DEF SendQueries
<1>5. toR' \in [Conns -> Seq(ToReceiver)]
  <2> HIDE DEF batch
  <2>1. QueryBatch(batch) \in ToReceiver
    BY <1>3 DEF QueryBatch, ToReceiver
  <2>2. <<QueryBatch(batch)>> \in Seq(ToReceiver)
    BY <2>1
  <2> QED
    BY <1>4, <2>2, Writing DEF TypeInv, TypeOK
<1> QED
  BY <1>1, <1>2, <1>5 DEF SendQueries, TypeInv, TypeOK, ghosts, HandlerSound

\* resolveResume reads the offsets and the loop over the files begins.
LEMMA RecvAnswersTypeInv ==
    ASSUME TypeInv, NEW c \in Conns, RecvAnswers(c)
    PROVE  TypeInv'
<1> DEFINE answers == Head(toS[c]).answers
           next == NextFile(answers, 1)
           r == [snd[c] EXCEPT !.pc = "file", !.off = answers, !.idx = next]
<1>1. snd[c] \in SenderState
  BY DEF TypeInv, TypeOK
<1>2. /\ Head(toS[c]) \in ToSender
      /\ toS' \in [Conns -> Seq(ToSender)]
  BY Reading DEF RecvAnswers, TypeInv, TypeOK
<1>3. answers \in [Files -> Offset]
  BY <1>2, FrameFields DEF RecvAnswers
<1>4. snd' = [snd EXCEPT ![c] = r] /\ UNCHANGED <<src, dest, rcv, toR, link, edits, hit, ghosts>>
  BY DEF RecvAnswers
<1>5. next \in 1..(NFiles + 1) /\ (next \in Files => answers[next] # Skip)
  <2> HIDE DEF answers
  <2>1. 1 \in 1..(NFiles + 1)
    BY CountsAssumption
  <2> QED
    BY <1>3, <2>1, NextFileType
<1> HIDE DEF answers, next
<1>6. r \in SenderState /\ SenderSound(r)
  BY <1>1, <1>3, <1>5 DEF SenderState, SenderSound
<1> HIDE DEF r
<1>7. /\ snd' \in [Conns -> SenderState]
      /\ \A d \in Conns : SenderSound(snd[d])'
  BY <1>4, <1>6, SenderUpdate
<1> QED
  BY <1>2, <1>4, <1>7 DEF TypeInv, TypeOK, ghosts, HandlerSound

\* sendFile up to FileStart.
LEMMA SendFileStartTypeInv ==
    ASSUME TypeInv, NEW c \in Conns, SendFileStart(c)
    PROVE  TypeInv'
<1> DEFINE s == snd[c]
           f == s.idx
           offset == s.off[f]
           digest == PrefixDigest(f, offset)
           r == [s EXCEPT !.pc = "stream", !.pos = offset, !.hash = digest]
<1>1. /\ s \in SenderState /\ SenderSound(s)
      /\ f \in Files /\ src[f] \in File
      /\ offset \in 0..Len(src[f])
  <2>1. s \in SenderState /\ SenderSound(s) /\ f \in Files
    BY DEF TypeInv, TypeOK, SendFileStart
  <2>2. src[f] \in File /\ offset <= Len(src[f])
    BY <2>1 DEF TypeInv, TypeOK, SendFileStart, Resumable, Present
  <2>3. offset \in Nat
    BY <2>1 DEF SenderState, SenderSound, Offset, Skip
  <2>4. Len(src[f]) \in Nat
    BY <2>2, LenProperties DEF File
  <2> QED
    BY <2>1, <2>2, <2>3, <2>4
<1>2. digest \in File
  BY <1>1, PrefixType DEF PrefixDigest
<1>3. /\ snd' = [snd EXCEPT ![c] = r]
      /\ toR' = [toR EXCEPT ![c] = Put(c, toR, <<FileStart(f, offset)>>)]
      /\ UNCHANGED <<src, dest, rcv, toS, link, edits, hit, ghosts>>
  BY DEF SendFileStart
<1> HIDE DEF s, f, digest
<1>4. offset \in Nat
  BY <1>1
<1> HIDE DEF offset
<1>5. toR' \in [Conns -> Seq(ToReceiver)]
  <2>1. FileStart(f, offset) \in ToReceiver
    BY <1>1, <1>4 DEF ToReceiver, FileStart
  <2>2. <<FileStart(f, offset)>> \in Seq(ToReceiver)
    BY <2>1
  <2> QED
    BY <1>3, <2>2, Writing DEF TypeInv, TypeOK
<1>6. r \in SenderState /\ SenderSound(r)
  BY <1>1, <1>2, <1>4, NoneAssumption DEF SenderState, SenderSound, File, f
<1> HIDE DEF r
<1>7. /\ snd' \in [Conns -> SenderState]
      /\ \A d \in Conns : SenderSound(snd[d])'
  BY <1>3, <1>6, SenderUpdate
<1> QED
  BY <1>3, <1>5, <1>7 DEF TypeInv, TypeOK, ghosts, HandlerSound

\* streamFile, a whole chunk.
LEMMA StreamChunkTypeInv ==
    ASSUME TypeInv, NEW c \in Conns, StreamChunk(c)
    PROVE  TypeInv'
<1> DEFINE s == snd[c]
           f == s.idx
           data == SubSeq(src[f], s.pos + 1, s.pos + ChunkSize)
           r == [s EXCEPT !.pos = s.pos + ChunkSize, !.hash = s.hash \o data]
<1>1. /\ s \in SenderState /\ SenderSound(s) /\ s.pc = "stream"
      /\ f \in Files /\ src[f] \in File
      /\ s.pos \in Nat /\ s.hash \in File
      /\ s.pos + ChunkSize <= Len(src[f])
  <2>1. s \in SenderState /\ SenderSound(s) /\ s.pc = "stream"
    BY DEF TypeInv, TypeOK, StreamChunk
  <2>2. f \in Files /\ src[f] \in File /\ s.pos \in Nat /\ s.hash \in File
    BY <2>1 DEF TypeInv, TypeOK, SenderSound, SenderState
  <2>3. Len(src[f]) \in Nat /\ Len(src[f]) - s.pos >= ChunkSize
    BY <2>2, LenProperties DEF StreamChunk, Unread, File
  <2> QED
    BY <2>1, <2>2, <2>3, ChunkSizeAssumption
<1>2. data \in File /\ s.hash \o data \in File
  <2>1. s.pos + 1 \in Int /\ s.pos + ChunkSize \in Int
    BY <1>1, ChunkSizeAssumption
  <2>2. \A i \in (s.pos + 1)..(s.pos + ChunkSize) : src[f][i] \in Byte
    BY <1>1, ChunkSizeAssumption, LenProperties, ElementOfSeq DEF File
  <2>3. data \in File
    BY <2>1, <2>2, SubSeqProperties DEF File
  <2> QED
    BY <1>1, <2>3, ConcatProperties DEF File
<1>3. /\ snd' = [snd EXCEPT ![c] = r]
      /\ toR' = [toR EXCEPT ![c] = Put(c, toR, <<Data(f, data)>>)]
      /\ UNCHANGED <<src, dest, rcv, toS, link, edits, hit, ghosts>>
  BY DEF StreamChunk
<1>4. s.pos + ChunkSize \in Nat
  BY <1>1, ChunkSizeAssumption
<1> HIDE DEF s, f, data
<1>5. toR' \in [Conns -> Seq(ToReceiver)]
  <2>1. Data(f, data) \in ToReceiver
    BY <1>1, <1>2 DEF ToReceiver, Data
  <2>2. <<Data(f, data)>> \in Seq(ToReceiver)
    BY <2>1
  <2> QED
    BY <1>3, <2>2, Writing DEF TypeInv, TypeOK
<1>6. r \in SenderState /\ SenderSound(r)
  BY <1>1, <1>2, <1>4 DEF SenderState, SenderSound
<1> HIDE DEF r
<1>7. /\ snd' \in [Conns -> SenderState]
      /\ \A d \in Conns : SenderSound(snd[d])'
  BY <1>3, <1>6, SenderUpdate
<1> QED
  BY <1>3, <1>5, <1>7 DEF TypeInv, TypeOK, ghosts, HandlerSound

\* Send, Done.
LEMMA SendDoneTypeInv ==
    ASSUME TypeInv, NEW c \in Conns, SendDone(c)
    PROVE  TypeInv'
<1>1. /\ snd' \in [Conns -> SenderState]
      /\ \A d \in Conns : SenderSound(snd[d])'
  BY SenderMoves DEF SendDone
<1>2. toR' \in [Conns -> Seq(ToReceiver)]
  <2>1. <<Done>> \in Seq(ToReceiver)
    BY DEF ToReceiver
  <2> QED
    BY <2>1, Writing DEF SendDone, TypeInv, TypeOK
<1> QED
  BY <1>1, <1>2 DEF SendDone, TypeInv, TypeOK, ghosts, HandlerSound

\* Every step of a sender.
LEMMA SenderStepTypeInv ==
    ASSUME TypeInv, NEW c \in Conns, SenderStep(c)
    PROVE  TypeInv'
<1>1. CASE StartFresh(c)
  BY <1>1, StartFreshTypeInv
<1>2. CASE SendQueries(c)
  BY <1>2, SendQueriesTypeInv
<1>3. CASE RecvAnswers(c)
  BY <1>3, RecvAnswersTypeInv
<1>4. CASE SendFileStart(c)
  BY <1>4, SendFileStartTypeInv
<1>5. CASE SourceFails(c)
  BY <1>5, SenderEndsTypeInv DEF SourceFails
<1>6. CASE StreamChunk(c)
  BY <1>6, StreamChunkTypeInv
<1>7. CASE StreamEnd(c)
  BY <1>7, StreamEndTypeInv
<1>8. CASE CancelSeen(c)
  BY <1>8, SenderEndsTypeInv DEF CancelSeen
<1>9. CASE SendDone(c)
  BY <1>9, SendDoneTypeInv
<1>10. CASE RecvDoneAck(c)
  BY <1>10, SenderEndsTypeInv DEF RecvDoneAck
<1>11. CASE SenderIOError(c)
  BY <1>11, SenderEndsTypeInv DEF SenderIOError
<1> QED
  BY <1>1, <1>2, <1>3, <1>4, <1>5, <1>6, <1>7, <1>8, <1>9, <1>10, <1>11
     DEF SenderStep

\* handleConn, phase one.
LEMMA RecvHelloTypeInv ==
    ASSUME TypeInv, NEW c \in Conns, RecvHello(c)
    PROVE  TypeInv'
<1> DEFINE have == [f \in Files |-> IF dest[f] = None THEN 0 ELSE Len(dest[f])]
           p == IF \E f \in Files : have[f] > 0 THEN "query" ELSE "file"
<1>1. /\ rcv' = [rcv EXCEPT ![c].pc = p]
      /\ toR' = [toR EXCEPT ![c] = Tail(toR[c])]
      /\ toS' = [toS EXCEPT ![c] = Put(c, toS, <<HelloAck(have)>>)]
      /\ UNCHANGED <<src, dest, snd, link, edits, hit, ghosts>>
  BY DEF RecvHello
<1>2. have \in [Files -> Nat]
  BY LenProperties DEF TypeInv, TypeOK, File
<1>3. p \in {"query", "file"}
  OBVIOUS
<1> HIDE DEF have, p
<1>4. /\ rcv' \in [Conns -> HandlerState]
      /\ \A d \in Conns : HandlerSound(rcv[d], dest)'
  BY <1>1, <1>3, HandlerMoves
<1>5. toR' \in [Conns -> Seq(ToReceiver)]
  BY <1>1, Reading DEF RecvHello, Incoming, TypeInv, TypeOK
<1>6. toS' \in [Conns -> Seq(ToSender)]
  <2>1. HelloAck(have) \in ToSender
    BY <1>2 DEF HelloAck, ToSender
  <2>2. <<HelloAck(have)>> \in Seq(ToSender)
    BY <2>1
  <2> QED
    BY <1>1, <2>2, Writing DEF TypeInv, TypeOK
<1> QED
  BY <1>1, <1>4, <1>5, <1>6 DEF TypeInv, TypeOK, ghosts, SenderSound

\* handleConn, phase two.
LEMMA RecvQueriesTypeInv ==
    ASSUME TypeInv, NEW c \in Conns, RecvQueries(c)
    PROVE  TypeInv'
<1> DEFINE queries == Head(toR[c]).queries
           answers == [f \in Files |->
               IF queries[f] = None THEN 0
               ELSE Resolved(matchResume(dest[f], queries[f]))]
           next == NextFile(answers, 1)
           r == [rcv[c] EXCEPT !.pc = "file", !.off = answers, !.idx = next]
<1>1. /\ rcv' = [rcv EXCEPT ![c] = r]
      /\ toS' = [toS EXCEPT ![c] = Put(c, toS, <<AnswerBatch(answers)>>)]
      /\ UNCHANGED <<src, dest, snd, link, edits, hit, ghosts>>
  BY DEF RecvQueries
<1>2. /\ Head(toR[c]) \in ToReceiver
      /\ toR' \in [Conns -> Seq(ToReceiver)]
  BY Reading DEF RecvQueries, Incoming, TypeInv, TypeOK
<1>3. queries \in [Files -> Query \cup {None}]
  BY <1>2, FrameFields DEF RecvQueries, Incoming
<1>4. answers \in [Files -> Offset]
  <2>1. ASSUME NEW f \in Files, queries[f] # None
        PROVE  Resolved(matchResume(dest[f], queries[f])) \in Offset
    <3>1. queries[f] \in Query /\ dest[f] \in File \cup {None}
      BY <1>3, <2>1 DEF TypeInv, TypeOK
    <3> QED
      BY <3>1, matchResumeType DEF Resolved, Offset
  <2> HIDE DEF queries
  <2>2. 0 \in Offset
    BY DEF Offset
  <2> QED
    BY <2>1, <2>2
<1> HIDE DEF answers
<1>5. next \in 1..(NFiles + 1) /\ (next \in Files => answers[next] # Skip)
  <2>1. 1 \in 1..(NFiles + 1)
    BY CountsAssumption
  <2> QED
    BY <1>4, <2>1, NextFileType
<1>6. rcv[c] \in HandlerState
  BY DEF TypeInv, TypeOK
<1> HIDE DEF next
<1>7. r \in HandlerState /\ HandlerSound(r, dest')
  BY <1>4, <1>5, <1>6 DEF HandlerState, HandlerSound
<1> HIDE DEF r
<1>8. /\ rcv' \in [Conns -> HandlerState]
      /\ \A d \in Conns : HandlerSound(rcv[d], dest)'
  BY <1>1, <1>7, HandlerUpdate
<1>9. toS' \in [Conns -> Seq(ToSender)]
  <2>1. AnswerBatch(answers) \in ToSender
    BY <1>4 DEF AnswerBatch, ToSender
  <2>2. <<AnswerBatch(answers)>> \in Seq(ToSender)
    BY <2>1
  <2> QED
    BY <1>1, <2>2, Writing DEF TypeInv, TypeOK
<1> QED
  BY <1>1, <1>2, <1>8, <1>9 DEF TypeInv, TypeOK, ghosts, SenderSound

\* What a handler that stands at a file holds.
LEMMA HandlerAtFile ==
    ASSUME TypeInv, NEW c \in Conns, rcv[c].idx \in Files
    PROVE  LET h == rcv[c]
           IN  /\ h \in HandlerState /\ HandlerSound(h, dest)
               /\ h.off[h.idx] \in Nat
               /\ h.pos \in Nat /\ h.hash \in File
               /\ dest[h.idx] \in File \cup {None}
               /\ h.pc \in {"open", "drain"} => dest[h.idx] \in File
<1>1. rcv[c] \in HandlerState /\ HandlerSound(rcv[c], dest)
  BY DEF TypeInv, TypeOK
<1>2. rcv[c].off[rcv[c].idx] \in Offset \ {Skip}
  BY <1>1 DEF HandlerState, HandlerSound
<1>3. rcv[c].pos \in Nat /\ rcv[c].hash \in File
  BY <1>1 DEF HandlerState
<1>4. dest[rcv[c].idx] \in File \cup {None}
  BY DEF TypeInv, TypeOK
<1> QED
  BY <1>1, <1>2, <1>3, <1>4 DEF HandlerSound, Offset

\* A file that was just truncated or written is there.
LEMMA FileIsThere ==
    ASSUME NEW f \in Files, NEW x \in File, TypeInv, dest' = [dest EXCEPT ![f] = x]
    PROVE  /\ dest' \in [Files -> File \cup {None}]
           /\ dest'[f] = x
           /\ \A g \in Files : g # f => dest'[g] = dest[g]
           /\ \A g \in Files : dest[g] # None => dest'[g] # None
           /\ x # None
BY NoneAssumption DEF TypeInv, TypeOK, File

\* receiveFile opens and cuts the destination.
LEMMA RecvFileStartTypeInv ==
    ASSUME TypeInv, NEW c \in Conns, RecvFileStart(c)
    PROVE  TypeInv'
<1> DEFINE f == rcv[c].idx
           x == Reopened(c, f)
           r == [rcv[c] EXCEPT !.pc = "open"]
<1>1. /\ dest' = [dest EXCEPT ![f] = x]
      /\ opener' = [opener EXCEPT ![f] = c]
      /\ rcv' = [rcv EXCEPT ![c] = r]
      /\ toR' = [toR EXCEPT ![c] = Tail(toR[c])]
      /\ f \in Files
      /\ UNCHANGED <<src, snd, toS, link, edits, hit, told, taken, latest>>
  BY DEF RecvFileStart, TypeInv, TypeOK
<1>2. x \in File
  BY <1>1, HandlerAtFile, TruncateType DEF Reopened
<1> HIDE DEF x
<1>3. /\ dest' \in [Files -> File \cup {None}]
      /\ dest'[f] # None
      /\ \A g \in Files : dest[g] # None => dest'[g] # None
  BY <1>1, <1>2, FileIsThere
<1>4. r \in HandlerState /\ HandlerSound(r, dest')
  <2>1. rcv[c] \in HandlerState /\ HandlerSound(rcv[c], dest)
    BY DEF TypeInv, TypeOK
  <2> QED
    BY <1>1, <1>3, <2>1 DEF HandlerState, HandlerSound
<1> HIDE DEF r
<1>5. /\ rcv' \in [Conns -> HandlerState]
      /\ \A d \in Conns : HandlerSound(rcv[d], dest)'
  BY <1>1, <1>3, <1>4, HandlerUpdate
<1>6. toR' \in [Conns -> Seq(ToReceiver)]
  BY Reading DEF RecvFileStart, Incoming, TypeInv, TypeOK
<1>7. opener' \in [Files -> Conns \cup {None}]
  BY <1>1 DEF TypeInv, TypeOK
<1> QED
  BY <1>1, <1>3, <1>5, <1>6, <1>7 DEF TypeInv, TypeOK, SenderSound

\* receiveFile reads the kept prefix back.
LEMMA HashPrefixTypeInv ==
    ASSUME TypeInv, NEW c \in Conns, HashPrefix(c)
    PROVE  TypeInv'
<1> DEFINE h == rcv[c]
           f == h.idx
           offset == h.off[f]
           digest == Prefix(dest[f], offset)
           r == [h EXCEPT !.pc = "drain", !.pos = offset, !.hash = digest]
<1>1. /\ rcv' = [rcv EXCEPT ![c] = r]
      /\ UNCHANGED <<src, dest, snd, wires, edits, hit, ghosts>>
  BY DEF HashPrefix
<1>2. /\ h \in HandlerState /\ HandlerSound(h, dest)
      /\ f \in Files /\ offset \in Nat /\ dest[f] \in File
  <2>1. h.pc = "open" /\ HandlerSound(h, dest)
    BY DEF HashPrefix, TypeInv
  <2>2. f \in Files
    BY <2>1 DEF HandlerSound
  <2> QED
    BY <2>1, <2>2, HandlerAtFile
<1>3. digest \in File
  <2>1. offset \in 0..Len(dest[f])
    BY <1>2, LenProperties DEF HashPrefix, File
  <2> QED
    BY <1>2, <2>1, PrefixType
<1>4. dest[f] # None
  BY <1>2, NoneAssumption DEF File
<1> HIDE DEF digest, offset
<1>5. r \in HandlerState /\ HandlerSound(r, dest')
  BY <1>1, <1>2, <1>3, <1>4 DEF HandlerState, HandlerSound
<1> HIDE DEF r
<1>6. /\ rcv' \in [Conns -> HandlerState]
      /\ \A d \in Conns : HandlerSound(rcv[d], dest)'
  BY <1>1, <1>5, HandlerUpdate
<1> QED
  BY <1>1, <1>6 DEF TypeInv, TypeOK, wires, ghosts, SenderSound

\* drainFile, a data frame.
LEMMA RecvDataTypeInv ==
    ASSUME TypeInv, NEW c \in Conns, RecvData(c)
    PROVE  TypeInv'
<1> DEFINE h == rcv[c]
           f == h.idx
           payload == Head(toR[c]).payload
           x == WriteAt(dest[f], h.pos, payload)
           pos == h.pos + Len(payload)
           digest == h.hash \o payload
           r == [h EXCEPT !.pos = pos, !.hash = digest]
<1>1. /\ dest' = [dest EXCEPT ![f] = x]
      /\ rcv' = [rcv EXCEPT ![c] = r]
      /\ UNCHANGED <<src, snd, toS, link, edits, hit, ghosts>>
  BY DEF RecvData
<1>2. /\ h \in HandlerState /\ HandlerSound(h, dest) /\ h.pc = "drain"
      /\ f \in Files /\ dest[f] \in File
      /\ h.pos \in Nat /\ h.hash \in File
  <2>1. h.pc = "drain" /\ HandlerSound(h, dest)
    BY DEF RecvData, TypeInv
  <2>2. f \in Files
    BY <2>1 DEF HandlerSound
  <2> QED
    BY <2>1, <2>2, HandlerAtFile
<1>3. /\ Head(toR[c]) \in ToReceiver
      /\ toR' \in [Conns -> Seq(ToReceiver)]
  BY Reading DEF RecvData, Incoming, TypeInv, TypeOK
<1>4. payload \in File
  BY <1>3, FrameFields DEF RecvData, Incoming
<1>5. x \in File /\ pos \in Nat /\ digest \in File
  BY <1>2, <1>4, WriteAtType, LenProperties, ConcatProperties DEF File
<1> HIDE DEF x, pos, digest
<1>6. /\ dest' \in [Files -> File \cup {None}]
      /\ dest'[f] # None
      /\ \A g \in Files : dest[g] # None => dest'[g] # None
  BY <1>1, <1>2, <1>5, FileIsThere
<1>7. r \in HandlerState /\ HandlerSound(r, dest')
  BY <1>2, <1>5, <1>6 DEF HandlerState, HandlerSound
<1> HIDE DEF r
<1>8. /\ rcv' \in [Conns -> HandlerState]
      /\ \A d \in Conns : HandlerSound(rcv[d], dest)'
  BY <1>1, <1>6, <1>7, HandlerUpdate
<1> QED
  BY <1>1, <1>3, <1>6, <1>8 DEF TypeInv, TypeOK, ghosts, SenderSound

\* drainFile and receiveFile, FileDone accepted.
LEMMA RecvFileDoneTypeInv ==
    ASSUME TypeInv, NEW c \in Conns, RecvFileDone(c)
    PROVE  TypeInv'
<1> DEFINE h == rcv[c]
           f == h.idx
           next == NextFile(h.off, f + 1)
           r == [h EXCEPT !.pc = "file", !.idx = next]
<1>1. /\ rcv' = [rcv EXCEPT ![c] = r]
      /\ taken' = [taken EXCEPT ![c][f] = Head(toR[c]).sum]
      /\ UNCHANGED <<src, dest, snd, toS, link, edits, hit, told, latest, opener>>
  BY DEF RecvFileDone
<1>2. /\ h \in HandlerState /\ HandlerSound(h, dest)
      /\ f \in Files /\ h.off \in [Files -> Offset]
  BY DEF RecvFileDone, TypeInv, TypeOK, HandlerSound, HandlerState
<1>3. /\ Head(toR[c]) \in ToReceiver
      /\ toR' \in [Conns -> Seq(ToReceiver)]
  BY Reading DEF RecvFileDone, Incoming, TypeInv, TypeOK
<1>4. Head(toR[c]).sum \in File
  BY <1>3, FrameFields DEF RecvFileDone, Incoming
<1>5. next \in 1..(NFiles + 1) /\ (next \in Files => h.off[next] # Skip)
  <2>1. f + 1 \in 1..(NFiles + 1)
    BY <1>2, CountsAssumption DEF Files
  <2> QED
    BY <1>2, <2>1, NextFileType
<1> HIDE DEF next
<1>6. r \in HandlerState /\ HandlerSound(r, dest')
  BY <1>2, <1>5 DEF HandlerState, HandlerSound
<1> HIDE DEF r
<1>7. /\ rcv' \in [Conns -> HandlerState]
      /\ \A d \in Conns : HandlerSound(rcv[d], dest)'
  BY <1>1, <1>6, HandlerUpdate
<1>8. taken' \in [Conns -> [Files -> File \cup {None}]]
  BY <1>1, <1>2, <1>4 DEF TypeInv, TypeOK
<1> QED
  BY <1>1, <1>3, <1>7, <1>8 DEF TypeInv, TypeOK, SenderSound

\* handleConn ends without a write.
LEMMA HandlerFailsTypeInv ==
    ASSUME TypeInv, NEW c \in Conns, HandlerEnds(c, "failed"),
           UNCHANGED <<src, dest, snd, toS, edits, hit, ghosts>>
    PROVE  TypeInv'
<1>1. /\ dest' \in [Files -> File \cup {None}]
      /\ \A f \in Files : dest[f] # None => dest'[f] # None
      /\ toS' \in [Conns -> Seq(ToSender)] /\ hit' \in SUBSET Conns
  BY DEF TypeInv, TypeOK
<1> QED
  BY <1>1, HandlerEndsTypeInv

\* handleConn, Done.
LEMMA RecvDoneTypeInv ==
    ASSUME TypeInv, NEW c \in Conns, RecvDone(c)
    PROVE  TypeInv'
<1>1. toS' \in [Conns -> Seq(ToSender)]
  <2>1. <<DoneAck>> \in Seq(ToSender)
    BY DEF ToSender
  <2> QED
    BY <2>1, Writing DEF RecvDone, TypeInv, TypeOK
<1>2. /\ dest' \in [Files -> File \cup {None}]
      /\ \A f \in Files : dest[f] # None => dest'[f] # None
      /\ hit' \in SUBSET Conns
      /\ HandlerEnds(c, "acked")
      /\ UNCHANGED <<src, snd, edits, ghosts>>
  BY DEF RecvDone, TypeInv, TypeOK
<1> QED
  BY <1>1, <1>2, HandlerEndsTypeInv

\* Every step of a handler.
LEMMA HandlerStepTypeInv ==
    ASSUME TypeInv, NEW c \in Conns, HandlerStep(c)
    PROVE  TypeInv'
<1>1. CASE RecvHello(c)
  BY <1>1, RecvHelloTypeInv
<1>2. CASE RecvQueries(c)
  BY <1>2, RecvQueriesTypeInv
<1>3. CASE RecvFileStart(c)
  BY <1>3, RecvFileStartTypeInv
<1>4. CASE HashPrefix(c)
  BY <1>4, HashPrefixTypeInv
<1>5. CASE PrefixGone(c)
  BY <1>5, HandlerFailsTypeInv DEF PrefixGone
<1>6. CASE RecvData(c)
  BY <1>6, RecvDataTypeInv
<1>7. CASE RecvFileDone(c)
  BY <1>7, RecvFileDoneTypeInv
<1>8. CASE ChecksumMismatch(c)
  BY <1>8, HandlerFailsTypeInv DEF ChecksumMismatch
<1>9. CASE RecvDone(c)
  BY <1>9, RecvDoneTypeInv
<1>10. CASE HandlerEOF(c)
  BY <1>10, HandlerFailsTypeInv DEF HandlerEOF
<1> QED
  BY <1>1, <1>2, <1>3, <1>4, <1>5, <1>6, <1>7, <1>8, <1>9, <1>10 DEF HandlerStep

\* What a broken link leaves of a wire.
LEMMA Cutting ==
    ASSUME NEW S, NEW wire \in [Conns -> Seq(S)], NEW c \in Conns,
           NEW m \in 0..Len(wire[c])
    PROVE  [wire EXCEPT ![c] = Prefix(@, m)] \in [Conns -> Seq(S)]
<1>1. wire[c] \in Seq(S) /\ Len(wire[c]) \in Nat
  BY LenProperties
<1>2. Prefix(wire[c], m) \in Seq(S)
  <2>1. \A i \in 1..m : wire[c][i] \in S
    BY <1>1, ElementOfSeq
  <2> QED
    BY <1>1, <2>1, SubSeqProperties DEF Prefix
<1> QED
  BY <1>2

\* A broken link.
LEMMA LinkFailsTypeInv ==
    ASSUME TypeInv, NEW c \in Conns, LinkFails(c)
    PROVE  TypeInv'
<1>1. PICK m \in 0..Len(toR[c]), n \in 0..Len(toS[c]) :
        /\ toR' = [toR EXCEPT ![c] = Prefix(@, m)]
        /\ toS' = [toS EXCEPT ![c] = Prefix(@, n)]
  BY DEF LinkFails
<1>2. /\ toR' \in [Conns -> Seq(ToReceiver)]
      /\ toS' \in [Conns -> Seq(ToSender)]
  BY <1>1, Cutting DEF TypeInv, TypeOK
<1>3. /\ link' \in [Conns -> {"none", "up", "down"}]
      /\ hit' \in SUBSET Conns
  BY DEF LinkFails, Strike, TypeInv, TypeOK
<1>4. UNCHANGED <<src, dest, snd, rcv, edits, told, taken, latest, opener>>
  BY DEF LinkFails, ghosts
<1> QED
  BY <1>2, <1>3, <1>4 DEF TypeInv, TypeOK, SenderSound, HandlerSound

\* A handler that dies, perhaps in the middle of a write.
LEMMA HandlerDiesTypeInv ==
    ASSUME TypeInv, NEW c \in Conns, HandlerDies(c)
    PROVE  TypeInv'
<1>1. /\ hit' \in SUBSET Conns
      /\ toS' \in [Conns -> Seq(ToSender)]
  BY DEF HandlerDies, Strike, TypeInv, TypeOK
<1>2. /\ dest' \in [Files -> File \cup {None}]
      /\ \A f \in Files : dest[f] # None => dest'[f] # None
  <2>1. CASE dest' = dest
    BY <2>1 DEF TypeInv, TypeOK
  <2>2. CASE /\ rcv[c].pc = "drain"
             /\ Incoming(c, "Data")
             /\ \E n \in 1..Len(Head(toR[c]).payload) :
                   dest' = [dest EXCEPT ![rcv[c].idx] =
                       WriteAt(@, rcv[c].pos, Prefix(Head(toR[c]).payload, n))]
    <3> DEFINE f == rcv[c].idx
               payload == Head(toR[c]).payload
    <3>1. PICK n \in 1..Len(payload) :
            dest' = [dest EXCEPT ![f] =
                WriteAt(dest[f], rcv[c].pos, Prefix(payload, n))]
      BY <2>2 DEF TypeInv, TypeOK
    <3>2. f \in Files
      BY <2>2 DEF TypeInv, HandlerSound
    <3>3. dest[f] \in File /\ rcv[c].pos \in Nat
      BY <2>2, <3>2, HandlerAtFile
    <3>4. Head(toR[c]) \in ToReceiver
      BY <2>2, Reading DEF Incoming, TypeInv, TypeOK
    <3>5. payload \in File
      BY <2>2, <3>4, FrameFields DEF Incoming
    <3> HIDE DEF payload
    <3>6. n \in 0..Len(payload)
      BY <3>1, <3>5, LenProperties DEF File
    <3>7. WriteAt(dest[f], rcv[c].pos, Prefix(payload, n)) \in File
      BY <3>3, <3>5, <3>6, PrefixType, WriteAtType
    <3> QED
      BY <3>1, <3>2, <3>7, FileIsThere
  <2> QED
    BY <2>1, <2>2 DEF HandlerDies
<1> QED
  BY <1>1, <1>2, HandlerEndsTypeInv DEF HandlerDies

\* A cancelled context.
LEMMA CancelTypeInv ==
    ASSUME TypeInv, NEW c \in Conns, Cancel(c)
    PROVE  TypeInv'
<1> DEFINE r == [snd[c] EXCEPT !.cancelled = TRUE]
<1>1. snd[c] \in SenderState /\ SenderSound(snd[c])
  BY DEF TypeInv, TypeOK
<1>2. snd' = [snd EXCEPT ![c] = r]
  BY DEF Cancel, TypeInv, TypeOK
<1>3. r \in SenderState
  BY <1>1, Zenon DEF SenderState
<1>4. SenderSound(r)
  <2>1. r.pc = snd[c].pc /\ r.idx = snd[c].idx /\ r.off = snd[c].off
    BY <1>1, Zenon DEF SenderState
  <2> HIDE DEF r
  <2> QED
    BY <1>1, <2>1 DEF SenderSound
<1> HIDE DEF r
<1>5. /\ snd' \in [Conns -> SenderState]
      /\ \A d \in Conns : SenderSound(snd[d])'
  BY <1>2, <1>3, <1>4, SenderUpdate DEF Cancel
<1> QED
  BY <1>5 DEF Cancel, TypeInv, TypeOK, wires, ghosts, HandlerSound

\* A user's edit never takes away a source that is open.
LEMMA EditSourceTypeInv ==
    ASSUME TypeInv, NEW f \in Files, EditSource(f)
    PROVE  TypeInv'
<1>1. PICK new \in Edits \ {src[f]} :
        /\ new = None => \A c \in Conns : ~(snd[c].pc = "stream" /\ snd[c].idx = f)
        /\ src' = [src EXCEPT ![f] = new]
  BY DEF EditSource
<1>2. /\ UNCHANGED <<dest, snd, rcv, toR, toS, link, hit, told, taken, latest, opener>>
      /\ edits' = edits + 1 /\ edits < MaxEdits
  BY DEF EditSource, wires, ghosts
<1>3. src' \in [Files -> File \cup {None}] /\ edits' \in 0..MaxEdits
  BY <1>1, <1>2, ContentsAssumption, CountsAssumption DEF TypeInv, TypeOK
<1>4. \A c \in Conns : SenderSound(snd[c])'
  BY <1>1, <1>2 DEF TypeInv, TypeOK, SenderSound
<1> QED
  BY <1>2, <1>3, <1>4 DEF TypeInv, TypeOK, HandlerSound

\* The initial states are well typed.
LEMMA InitTypeInv == Init => TypeInv
<1> SUFFICES ASSUME Init PROVE TypeInv
  OBVIOUS
<1> DEFINE fresh == [pc |-> "idle", size |-> [f \in Files |-> 0],
                     off |-> [f \in Files |-> 0], idx |-> 1, pos |-> 0,
                     hash |-> <<>>, cancelled |-> FALSE]
           waiting == [pc |-> "none", off |-> [f \in Files |-> 0], idx |-> 1,
                       pos |-> 0, hash |-> <<>>]
<1>1. /\ 1 \in Files /\ 1 \in 1..(NFiles + 1)
      /\ [f \in Files |-> 0] \in [Files -> Nat]
      /\ [f \in Files |-> 0] \in [Files -> Offset]
      /\ <<>> \in File
  BY CountsAssumption DEF Files, Offset, File
<1>2. fresh \in SenderState /\ SenderSound(fresh)
  BY <1>1 DEF SenderState, SenderSound, Skip
<1>3. waiting \in HandlerState /\ HandlerSound(waiting, dest)
  BY <1>1 DEF HandlerState, HandlerSound, Skip
<1>4. snd = [c \in Conns |-> fresh] /\ rcv = [c \in Conns |-> waiting]
  BY DEF Init
<1> HIDE DEF fresh, waiting
<1>5. /\ src \in [Files -> File \cup {None}]
      /\ dest \in [Files -> File \cup {None}]
  BY ContentsAssumption DEF Init
<1>6. /\ snd \in [Conns -> SenderState] /\ rcv \in [Conns -> HandlerState]
      /\ toR \in [Conns -> Seq(ToReceiver)] /\ toS \in [Conns -> Seq(ToSender)]
      /\ link \in [Conns -> {"none", "up", "down"}]
  <2>1. snd \in [Conns -> SenderState] /\ rcv \in [Conns -> HandlerState]
    BY <1>2, <1>3, <1>4
  <2>2. <<>> \in Seq(ToReceiver) /\ <<>> \in Seq(ToSender)
    OBVIOUS
  <2>3. /\ toR = [c \in Conns |-> <<>>] /\ toS = [c \in Conns |-> <<>>]
        /\ link = [c \in Conns |-> "none"]
    BY DEF Init
  <2> QED
    BY <2>1, <2>2, <2>3
<1>7. /\ edits \in 0..MaxEdits /\ hit \in SUBSET Conns
      /\ told \in [Conns -> [Files -> File \cup {None}]]
      /\ taken \in [Conns -> [Files -> File \cup {None}]]
      /\ latest \in Conns \cup {None} /\ opener \in [Files -> Conns \cup {None}]
  BY CountsAssumption DEF Init
<1>8. TypeOK
  BY <1>5, <1>6, <1>7 DEF TypeOK
<1> QED
  BY <1>2, <1>3, <1>4, <1>8 DEF TypeInv

\* Every step of the system keeps the type invariant.
LEMMA NextTypeInv == TypeInv /\ [Next]_vars => TypeInv'
<1> SUFFICES ASSUME TypeInv, [Next]_vars PROVE TypeInv'
  OBVIOUS
<1>1. ASSUME NEW c \in Conns, Send(c) PROVE TypeInv'
  BY <1>1, SendTypeInv
<1>2. ASSUME NEW c \in Conns, SenderStep(c) PROVE TypeInv'
  BY <1>2, SenderStepTypeInv
<1>3. ASSUME NEW c \in Conns, HandlerStep(c) PROVE TypeInv'
  BY <1>3, HandlerStepTypeInv
<1>4. ASSUME NEW c \in Conns, LinkFails(c) PROVE TypeInv'
  BY <1>4, LinkFailsTypeInv
<1>5. ASSUME NEW c \in Conns, HandlerDies(c) PROVE TypeInv'
  BY <1>5, HandlerDiesTypeInv
<1>6. ASSUME NEW c \in Conns, Cancel(c) PROVE TypeInv'
  BY <1>6, CancelTypeInv
<1>7. ASSUME NEW f \in Files, EditSource(f) PROVE TypeInv'
  BY <1>7, EditSourceTypeInv
<1>8. CASE UNCHANGED vars
  BY <1>8 DEF vars, wires, ghosts, TypeInv, TypeOK, SenderSound, HandlerSound
<1> QED
  BY <1>1, <1>2, <1>3, <1>4, <1>5, <1>6, <1>7, <1>8 DEF Next, AtRest

\* Every reachable state is well typed: no offset answered on the wire is
\* outside Nat and -1, neither end ever stands at a file it should skip, and
\* what an end has open exists (sendFile, receiveFile, resolveResume).
THEOREM TypeCorrect == Spec => []TypeOK
<1>1. TypeInv => TypeOK
  BY DEF TypeInv
<1> QED
  BY <1>1, InitTypeInv, NextTypeInv, PTL DEF Spec

-----------------------------------------------------------------------------
(* When one connection is at work at a time, every file that a handler has   *)
(* accepted is on disk, whatever was cut, cancelled, edited or sent again.   *)

\* One connection at a time.
OneLive == \A c, d \in Live : c = d

\* The handler has its file to itself from the moment it has cut it, and what
\* it has hashed is what the file holds.
HoldsItsFile(c) ==
    LET h == rcv[c]
    IN  /\ h.pc = "open" =>
              opener[h.idx] = c /\ Len(dest[h.idx]) = h.off[h.idx]
        /\ h.pc = "drain" =>
              opener[h.idx] = c /\ dest[h.idx] = h.hash /\ h.pos = Len(h.hash)

\* Files are accepted in order, each before the handler moves on.
AcceptsInOrder(c) ==
    /\ rcv[c].pc \in {"none", "hello", "query"} => rcv[c].idx = 1
    /\ \A f \in Files : taken[c][f] # None => f < rcv[c].idx

\* A connection has no handler before it is made.
NoHandlerYet == \A c \in Conns : snd[c].pc = "idle" => rcv[c].pc = "none"

DeliveryInv ==
    /\ TypeInv
    /\ NoHandlerYet
    /\ OneLive
    /\ \A c \in Conns : HoldsItsFile(c) /\ AcceptsInOrder(c)
    /\ DeliveredIntact

-----------------------------------------------------------------------------
(* Who is at work.                                                         *)

\* A sender's step makes nobody start work.
LEMMA SenderStepLive ==
    ASSUME TypeInv, NEW c \in Conns, SenderStep(c)
    PROVE  /\ Live' \subseteq Live /\ UNCHANGED <<dest, rcv, taken, opener>>
           /\ \A d \in Conns : snd'[d].pc = "idle" => snd[d].pc = "idle"
<1>1. snd \in [Conns -> SenderState]
  BY DEF TypeInv, TypeOK
<1>2. c \in Senders
  BY DEF SenderStep, StartFresh, SendQueries, RecvAnswers, SendFileStart, SourceFails,
         StreamChunk, StreamEnd, CancelSeen, SendDone, RecvDoneAck, SenderIOError, Senders
<1>3. UNCHANGED <<dest, rcv, taken, opener>>
  BY DEF SenderStep, StartFresh, SendQueries, RecvAnswers, SendFileStart, SourceFails,
         StreamChunk, StreamEnd, CancelSeen, SendDone, RecvDoneAck, SenderIOError, ghosts
<1>4. \A d \in Conns \ {c} : snd'[d] = snd[d]
  BY <1>1
     DEF SenderStep, StartFresh, SendQueries, RecvAnswers, SendFileStart, SourceFails,
         StreamChunk, StreamEnd, CancelSeen, SendDone, RecvDoneAck, SenderIOError, SenderEnds
<1>5. snd'[c].pc # "idle"
  <2>1. snd[c] \in SenderState /\ snd[c].pc # "idle"
    BY <1>1, <1>2 DEF Senders
  <2>2. CASE StartFresh(c) \/ SendQueries(c) \/ SendDone(c)
    BY <1>1, <2>1, <2>2 DEF StartFresh, SendQueries, SendDone, SenderState
  <2>3. CASE RecvAnswers(c)
    BY <1>1, <2>1, <2>3 DEF RecvAnswers, SenderState
  <2>4. CASE SendFileStart(c)
    <3> DEFINE r == [snd[c] EXCEPT !.pc = "stream", !.pos = snd[c].off[snd[c].idx],
                        !.hash = PrefixDigest(snd[c].idx, snd[c].off[snd[c].idx])]
    <3>1. snd' = [snd EXCEPT ![c] = r]
      BY <2>4 DEF SendFileStart
    <3>2. r.pc = "stream"
      BY <2>1 DEF SenderState
    <3> HIDE DEF r
    <3> QED
      BY <1>1, <2>1, <3>1, <3>2
  <2>5. CASE StreamChunk(c)
    BY <1>1, <2>1, <2>5 DEF StreamChunk, SenderState
  <2>6. CASE StreamEnd(c)
    BY <1>1, <2>1, <2>6 DEF StreamEnd, SenderState
  <2>7. CASE SourceFails(c) \/ CancelSeen(c) \/ RecvDoneAck(c) \/ SenderIOError(c)
    BY <1>1, <2>1, <2>7
       DEF SourceFails, CancelSeen, RecvDoneAck, SenderIOError, SenderEnds, SenderState
  <2> QED
    BY <2>2, <2>3, <2>4, <2>5, <2>6, <2>7 DEF SenderStep
<1> QED
  BY <1>2, <1>3, <1>4, <1>5 DEF Live, Senders, Handlers

\* Nor does a handler's step.
LEMMA HandlerStepLive ==
    ASSUME TypeInv, NEW c \in Conns, HandlerStep(c)
    PROVE  /\ c \in Handlers
           /\ Live' \subseteq Live /\ snd' = snd
           /\ \A d \in Conns \ {c} : rcv'[d] = rcv[d]
<1>1. rcv \in [Conns -> HandlerState]
  BY DEF TypeInv, TypeOK
<1>2. c \in Handlers
  BY DEF HandlerStep, RecvHello, RecvQueries, RecvFileStart, HashPrefix, PrefixGone,
         RecvData, RecvFileDone, ChecksumMismatch, RecvDone, HandlerEOF, Handlers
<1>3. snd' = snd
  BY DEF HandlerStep, RecvHello, RecvQueries, RecvFileStart, HashPrefix, PrefixGone,
         RecvData, RecvFileDone, ChecksumMismatch, RecvDone, HandlerEOF
<1>4. \A d \in Conns \ {c} : rcv'[d] = rcv[d]
  BY <1>1
     DEF HandlerStep, RecvHello, RecvQueries, RecvFileStart, HashPrefix, PrefixGone,
         RecvData, RecvFileDone, ChecksumMismatch, RecvDone, HandlerEOF, HandlerEnds
<1> QED
  BY <1>2, <1>3, <1>4 DEF Live, Senders, Handlers

\* While a handler works, no other has a file open.
LEMMA NobodyElse ==
    ASSUME DeliveryInv, NEW c \in Handlers, NEW d \in Conns, d # c
    PROVE  rcv[d].pc \notin {"open", "drain"}
BY DEF DeliveryInv, OneLive, Live, Handlers

-----------------------------------------------------------------------------
(* Steps that leave the destinations alone.                                *)

\* A step that touches no destination and no handler keeps the invariant.
LEMMA QuietDelivery ==
    ASSUME DeliveryInv, TypeInv', NoHandlerYet', Live' \subseteq Live,
           UNCHANGED <<dest, rcv, taken, opener>>
    PROVE  DeliveryInv'
BY DEF DeliveryInv, OneLive, HoldsItsFile, AcceptsInOrder, DeliveredIntact

\* A handler moves on, to a place where it has no file open.
LEMMA MovesDelivery ==
    ASSUME DeliveryInv, TypeInv', NoHandlerYet', Live' \subseteq Live, NEW c \in Handlers,
           \A d \in Conns \ {c} : rcv'[d] = rcv[d],
           rcv'[c].pc \notin {"open", "drain"},
           rcv[c].idx <= rcv'[c].idx,
           rcv'[c].pc \in {"none", "hello", "query"} => rcv'[c].idx = 1,
           UNCHANGED <<dest, taken, opener>>
    PROVE  DeliveryInv'
<1>1. OneLive' /\ DeliveredIntact'
  BY DEF DeliveryInv, OneLive, DeliveredIntact
<1>2. \A d \in Conns : HoldsItsFile(d)'
  <2>1. HoldsItsFile(c)'
    BY DEF HoldsItsFile
  <2>2. ASSUME NEW d \in Conns, d # c PROVE HoldsItsFile(d)'
    BY <2>2 DEF DeliveryInv, HoldsItsFile
  <2> QED
    BY <2>1, <2>2
<1>3. \A d \in Conns : AcceptsInOrder(d)'
  <2>1. AcceptsInOrder(c)'
    <3>1. rcv[c].idx \in Nat /\ rcv'[c].idx \in Nat
      <4>1. c \in Conns /\ rcv[c] \in HandlerState /\ rcv'[c] \in HandlerState
        BY DEF DeliveryInv, TypeInv, TypeOK, Handlers
      <4>2. \A h \in HandlerState : h.idx \in Nat
        BY CountsAssumption DEF HandlerState
      <4> QED
        BY <4>1, <4>2
    <3>2. \A f \in Files : taken[c][f] # None => f < rcv[c].idx
      BY DEF DeliveryInv, AcceptsInOrder, Handlers
    <3> QED
      BY <3>1, <3>2 DEF AcceptsInOrder, Files
  <2>2. ASSUME NEW d \in Conns, d # c PROVE AcceptsInOrder(d)'
    BY <2>2 DEF DeliveryInv, AcceptsInOrder
  <2> QED
    BY <2>1, <2>2
<1> QED
  BY <1>1, <1>2, <1>3 DEF DeliveryInv

\* handleConn ends without a write.
LEMMA EndsDelivery ==
    ASSUME DeliveryInv, TypeInv', NoHandlerYet', Live' \subseteq Live, NEW c \in Handlers,
           NEW how \in {"acked", "failed"}, HandlerEnds(c, how),
           UNCHANGED <<dest, taken, opener>>
    PROVE  DeliveryInv'
<1>1. rcv \in [Conns -> HandlerState] /\ c \in Conns
  BY DEF DeliveryInv, TypeInv, TypeOK, Handlers
<1>2. \A d \in Conns \ {c} : rcv'[d] = rcv[d]
  BY <1>1 DEF HandlerEnds
<1>3. rcv'[c].pc = how /\ rcv'[c].idx = rcv[c].idx
  BY <1>1 DEF HandlerEnds, HandlerState
<1>4. rcv[c].idx \in Int
  BY <1>1, CountsAssumption DEF HandlerState
<1> QED
  BY <1>2, <1>3, <1>4, MovesDelivery

\* handleConn, phase one, opens nothing.
LEMMA RecvHelloDelivery ==
    ASSUME DeliveryInv, TypeInv', NoHandlerYet', Live' \subseteq Live, NEW c \in Handlers, RecvHello(c),
           \A d \in Conns \ {c} : rcv'[d] = rcv[d]
    PROVE  DeliveryInv'
<1>1. rcv \in [Conns -> HandlerState] /\ c \in Conns
  BY DEF DeliveryInv, TypeInv, TypeOK, Handlers
<1>2. rcv'[c].pc \in {"query", "file"} /\ rcv'[c].idx = rcv[c].idx
  BY <1>1 DEF RecvHello, HandlerState
<1>3. rcv[c].idx = 1
  BY <1>1 DEF RecvHello, DeliveryInv, AcceptsInOrder
<1>4. UNCHANGED <<dest, taken, opener>>
  BY DEF RecvHello, ghosts
<1> QED
  BY <1>2, <1>3, <1>4, MovesDelivery

\* handleConn, phase two: the handler goes to its first file; it has accepted
\* none.
LEMMA RecvQueriesDelivery ==
    ASSUME DeliveryInv, TypeInv', NoHandlerYet', Live' \subseteq Live, NEW c \in Handlers, RecvQueries(c),
           \A d \in Conns \ {c} : rcv'[d] = rcv[d]
    PROVE  DeliveryInv'
<1>1. rcv \in [Conns -> HandlerState] /\ c \in Conns /\ rcv' \in [Conns -> HandlerState]
  BY DEF DeliveryInv, TypeInv, TypeOK, Handlers
<1>2. rcv'[c].pc = "file"
  BY <1>1 DEF RecvQueries, HandlerState
<1>3. rcv[c].idx = 1
  BY <1>1 DEF RecvQueries, DeliveryInv, AcceptsInOrder
<1>4. rcv'[c].idx >= 1
  BY <1>1, CountsAssumption DEF HandlerState
<1>5. UNCHANGED <<dest, taken, opener>>
  BY DEF RecvQueries, ghosts
<1> QED
  BY <1>2, <1>3, <1>4, <1>5, MovesDelivery

-----------------------------------------------------------------------------
(* Steps at the file a handler receives.                                   *)

\* A file is cut by its handler: nobody else has it open, and the handler has
\* not accepted it before.
LEMMA RecvFileStartDelivery ==
    ASSUME DeliveryInv, TypeInv', NoHandlerYet', Live' \subseteq Live, NEW c \in Handlers,
           RecvFileStart(c), \A d \in Conns \ {c} : rcv'[d] = rcv[d]
    PROVE  DeliveryInv'
<1> DEFINE f == rcv[c].idx
           x == Reopened(c, f)
<1>1. /\ c \in Conns /\ f \in Files
      /\ dest' = [dest EXCEPT ![f] = x] /\ opener' = [opener EXCEPT ![f] = c]
      /\ taken' = taken
  BY DEF Handlers, RecvFileStart
<1>2. x \in File /\ Len(x) = rcv[c].off[f]
  BY <1>1, HandlerAtFile, TruncateType DEF Reopened, DeliveryInv
<1>3. /\ rcv'[c].pc = "open" /\ rcv'[c].idx = f /\ rcv'[c].off = rcv[c].off
  <2>1. rcv \in [Conns -> HandlerState]
    BY DEF DeliveryInv, TypeInv, TypeOK
  <2> QED
    BY <1>1, <2>1 DEF RecvFileStart, HandlerState
<1>4. /\ dest'[f] = x /\ \A g \in Files \ {f} : dest'[g] = dest[g]
      /\ opener'[f] = c /\ \A g \in Files \ {f} : opener'[g] = opener[g]
  BY <1>1 DEF DeliveryInv, TypeInv, TypeOK
<1>5. taken[c][f] = None
  BY <1>1 DEF DeliveryInv, AcceptsInOrder, Files
<1> HIDE DEF x, f
<1>6. \A d \in Conns : HoldsItsFile(d)'
  <2>1. HoldsItsFile(c)'
    BY <1>2, <1>3, <1>4 DEF HoldsItsFile
  <2>2. ASSUME NEW d \in Conns, d # c PROVE HoldsItsFile(d)'
    BY <2>2, NobodyElse DEF HoldsItsFile
  <2> QED
    BY <2>1, <2>2
<1>7. \A d \in Conns : AcceptsInOrder(d)'
  <2>1. AcceptsInOrder(c)'
    BY <1>1, <1>3 DEF DeliveryInv, AcceptsInOrder, f
  <2>2. ASSUME NEW d \in Conns, d # c PROVE AcceptsInOrder(d)'
    BY <1>1, <2>2 DEF DeliveryInv, AcceptsInOrder
  <2> QED
    BY <2>1, <2>2
<1>8. DeliveredIntact'
  BY <1>1, <1>4, <1>5 DEF DeliveryInv, DeliveredIntact
<1>9. OneLive'
  BY DEF DeliveryInv, OneLive
<1> QED
  BY <1>6, <1>7, <1>8, <1>9 DEF DeliveryInv

\* The whole of the file that was cut is read back: all that is kept is hashed.
LEMMA HashPrefixDelivery ==
    ASSUME DeliveryInv, TypeInv', NoHandlerYet', Live' \subseteq Live, NEW c \in Handlers,
           HashPrefix(c), \A d \in Conns \ {c} : rcv'[d] = rcv[d]
    PROVE  DeliveryInv'
<1> DEFINE f == rcv[c].idx
           offset == rcv[c].off[f]
<1>1. c \in Conns /\ rcv[c].pc = "open" /\ UNCHANGED <<dest, taken, opener>>
  BY DEF Handlers, HashPrefix, ghosts
<1>2. f \in Files
  BY <1>1 DEF DeliveryInv, TypeInv, HandlerSound
<1>3. /\ opener[f] = c /\ Len(dest[f]) = offset
      /\ dest[f] \in File /\ offset \in Nat
  BY <1>1, <1>2, HandlerAtFile DEF DeliveryInv, HoldsItsFile
<1>4. Prefix(dest[f], offset) = dest[f]
  <2>1. offset \in 0..Len(dest[f])
    BY <1>3
  <2>2. /\ Prefix(dest[f], offset) \in File
        /\ Len(Prefix(dest[f], offset)) = offset
        /\ \A i \in 1..offset : Prefix(dest[f], offset)[i] = dest[f][i]
    BY <1>3, <2>1, PrefixType
  <2> QED
    BY <1>3, <2>2, FileEqual
<1>5. /\ rcv'[c].pc = "drain" /\ rcv'[c].idx = f
      /\ rcv'[c].pos = offset /\ rcv'[c].hash = Prefix(dest[f], offset)
  <2>1. rcv \in [Conns -> HandlerState]
    BY DEF DeliveryInv, TypeInv, TypeOK
  <2> QED
    BY <1>1, <2>1 DEF HashPrefix, HandlerState
<1>6. \A d \in Conns : HoldsItsFile(d)'
  <2>1. HoldsItsFile(c)'
    <3> HIDE DEF f, offset
    <3> QED
      BY <1>1, <1>3, <1>4, <1>5 DEF HoldsItsFile
  <2>2. ASSUME NEW d \in Conns, d # c PROVE HoldsItsFile(d)'
    BY <2>2, NobodyElse DEF HoldsItsFile
  <2> QED
    BY <2>1, <2>2
<1>7. \A d \in Conns : AcceptsInOrder(d)'
  <2>1. AcceptsInOrder(c)'
    BY <1>1, <1>5 DEF DeliveryInv, AcceptsInOrder
  <2>2. ASSUME NEW d \in Conns, d # c PROVE AcceptsInOrder(d)'
    BY <1>1, <2>2 DEF DeliveryInv, AcceptsInOrder
  <2> QED
    BY <2>1, <2>2
<1>8. OneLive' /\ DeliveredIntact'
  BY <1>1 DEF DeliveryInv, OneLive, DeliveredIntact
<1> QED
  BY <1>6, <1>7, <1>8 DEF DeliveryInv

\* A write lands at the end of a file nobody has accepted yet.
LEMMA RecvDataDelivery ==
    ASSUME DeliveryInv, TypeInv', NoHandlerYet', Live' \subseteq Live, NEW c \in Handlers,
           RecvData(c), \A d \in Conns \ {c} : rcv'[d] = rcv[d]
    PROVE  DeliveryInv'
<1> DEFINE h == rcv[c]
           f == h.idx
           payload == Head(toR[c]).payload
           x == WriteAt(dest[f], h.pos, payload)
<1>1. /\ c \in Conns /\ h.pc = "drain"
      /\ dest' = [dest EXCEPT ![f] = x]
      /\ UNCHANGED <<taken, opener>>
  BY DEF Handlers, RecvData, ghosts
<1>2. f \in Files
  BY <1>1 DEF DeliveryInv, TypeInv, HandlerSound
<1>3. /\ opener[f] = c /\ dest[f] = h.hash /\ h.pos = Len(h.hash)
      /\ h.hash \in File /\ h.pos \in Nat
  BY <1>1, <1>2, HandlerAtFile DEF DeliveryInv, HoldsItsFile
<1>4. payload \in File
  BY <1>1, Reading, FrameFields
     DEF RecvData, Incoming, DeliveryInv, TypeInv, TypeOK
<1>5. x = h.hash \o payload /\ Len(x) = h.pos + Len(payload)
  <2>1. x = WriteAt(h.hash, Len(h.hash), payload)
    BY <1>3
  <2>2. x = h.hash \o payload
    BY <1>3, <1>4, <2>1, WriteAtEndAppends
  <2>3. Len(h.hash \o payload) = Len(h.hash) + Len(payload)
    BY <1>3, <1>4, ConcatProperties DEF File
  <2> QED
    BY <1>3, <2>2, <2>3
<1>6. /\ rcv'[c].pc = "drain" /\ rcv'[c].idx = f
      /\ rcv'[c].pos = h.pos + Len(payload) /\ rcv'[c].hash = h.hash \o payload
  <2>1. rcv \in [Conns -> HandlerState]
    BY DEF DeliveryInv, TypeInv, TypeOK
  <2> QED
    BY <1>1, <2>1 DEF RecvData, HandlerState
<1>7. dest'[f] = x /\ \A g \in Files \ {f} : dest'[g] = dest[g]
  BY <1>1, <1>2 DEF DeliveryInv, TypeInv, TypeOK
<1>8. taken[c][f] = None
  BY <1>1, <1>2 DEF DeliveryInv, AcceptsInOrder, Files
<1> HIDE DEF x, payload
<1>9. \A d \in Conns : HoldsItsFile(d)'
  <2>1. HoldsItsFile(c)'
    <3> HIDE DEF h, f
    <3> QED
      BY <1>1, <1>3, <1>5, <1>6, <1>7 DEF HoldsItsFile
  <2>2. ASSUME NEW d \in Conns, d # c PROVE HoldsItsFile(d)'
    BY <2>2, NobodyElse DEF HoldsItsFile
  <2> QED
    BY <2>1, <2>2
<1>10. \A d \in Conns : AcceptsInOrder(d)'
  <2>1. AcceptsInOrder(c)'
    BY <1>1, <1>6 DEF DeliveryInv, AcceptsInOrder
  <2>2. ASSUME NEW d \in Conns, d # c PROVE AcceptsInOrder(d)'
    BY <1>1, <2>2 DEF DeliveryInv, AcceptsInOrder
  <2> QED
    BY <2>1, <2>2
<1>11. DeliveredIntact'
  <2>1. SUFFICES ASSUME NEW d \in Conns, NEW g \in Files,
                        opener'[g] = d, taken'[d][g] # None
                 PROVE  dest'[g] = taken'[d][g]
    BY DEF DeliveredIntact
  <2>2. g # f
    BY <1>1, <1>3, <1>8, <2>1
  <2> QED
    BY <1>1, <1>7, <2>1, <2>2 DEF DeliveryInv, DeliveredIntact
<1>12. OneLive'
  BY DEF DeliveryInv, OneLive
<1> QED
  BY <1>9, <1>10, <1>11, <1>12 DEF DeliveryInv

\* A file is accepted: its digest is the digest of what is on disk.
LEMMA RecvFileDoneDelivery ==
    ASSUME DeliveryInv, TypeInv', NoHandlerYet', Live' \subseteq Live, NEW c \in Handlers,
           RecvFileDone(c), \A d \in Conns \ {c} : rcv'[d] = rcv[d]
    PROVE  DeliveryInv'
<1> DEFINE h == rcv[c]
           f == h.idx
           sum == Head(toR[c]).sum
<1>1. /\ c \in Conns /\ h.pc = "drain" /\ h.hash = sum
      /\ UNCHANGED <<dest, opener>>
      /\ taken' = [taken EXCEPT ![c][f] = sum]
  BY DEF Handlers, RecvFileDone, ChecksumOK
<1>2. /\ f \in Files /\ opener[f] = c /\ dest[f] = sum
  BY <1>1 DEF DeliveryInv, TypeInv, HandlerSound, HoldsItsFile
<1>3. /\ rcv'[c].pc = "file" /\ rcv'[c].idx = NextFile(h.off, f + 1)
  <2>1. rcv \in [Conns -> HandlerState]
    BY DEF DeliveryInv, TypeInv, TypeOK
  <2> QED
    BY <1>1, <2>1 DEF RecvFileDone, HandlerState
<1>4. rcv'[c].idx \in (f + 1)..(NFiles + 1)
  <2>1. h.off \in [Files -> Offset]
    BY <1>1 DEF DeliveryInv, TypeInv, TypeOK, HandlerState
  <2>2. f + 1 \in 1..(NFiles + 1)
    BY <1>2, CountsAssumption DEF Files
  <2> QED
    BY <1>3, <2>1, <2>2, NextFileType
<1>5. \A d \in Conns, g \in Files :
        taken'[d][g] = IF d = c /\ g = f THEN sum ELSE taken[d][g]
  BY <1>1, <1>2 DEF DeliveryInv, TypeInv, TypeOK
<1> HIDE DEF sum
<1>6. \A d \in Conns : HoldsItsFile(d)'
  <2>1. HoldsItsFile(c)'
    BY <1>3 DEF HoldsItsFile
  <2>2. ASSUME NEW d \in Conns, d # c PROVE HoldsItsFile(d)'
    BY <2>2, NobodyElse DEF HoldsItsFile
  <2> QED
    BY <2>1, <2>2
<1>7. \A d \in Conns : AcceptsInOrder(d)'
  <2>1. AcceptsInOrder(c)'
    <3>1. \A g \in Files : taken[c][g] # None => g < f
      BY <1>1 DEF DeliveryInv, AcceptsInOrder
    <3>2. \A g \in Files : taken'[c][g] # None => g < rcv'[c].idx
      <4> HIDE DEF f, h
      <4> QED
        BY <1>1, <1>2, <1>4, <1>5, <3>1 DEF Files
    <3> QED
      BY <1>3, <3>2 DEF AcceptsInOrder
  <2>2. ASSUME NEW d \in Conns, d # c PROVE AcceptsInOrder(d)'
    BY <1>5, <2>2 DEF DeliveryInv, AcceptsInOrder
  <2> QED
    BY <2>1, <2>2
<1>8. DeliveredIntact'
  BY <1>1, <1>2, <1>5 DEF DeliveryInv, DeliveredIntact
<1>9. OneLive'
  BY DEF DeliveryInv, OneLive
<1> QED
  BY <1>6, <1>7, <1>8, <1>9 DEF DeliveryInv

\* Every step of a handler.
LEMMA HandlerStepDelivery ==
    ASSUME DeliveryInv, TypeInv', NoHandlerYet', NEW c \in Conns, HandlerStep(c)
    PROVE  DeliveryInv'
<1>1. /\ c \in Handlers /\ Live' \subseteq Live
      /\ \A d \in Conns \ {c} : rcv'[d] = rcv[d]
  BY HandlerStepLive DEF DeliveryInv
<1>2. CASE RecvHello(c)
  BY <1>1, <1>2, RecvHelloDelivery
<1>3. CASE RecvQueries(c)
  BY <1>1, <1>3, RecvQueriesDelivery
<1>4. CASE RecvFileStart(c)
  BY <1>1, <1>4, RecvFileStartDelivery
<1>5. CASE HashPrefix(c)
  BY <1>1, <1>5, HashPrefixDelivery
<1>6. CASE RecvData(c)
  BY <1>1, <1>6, RecvDataDelivery
<1>7. CASE RecvFileDone(c)
  BY <1>1, <1>7, RecvFileDoneDelivery
<1>8. CASE PrefixGone(c) \/ ChecksumMismatch(c) \/ RecvDone(c) \/ HandlerEOF(c)
  <2>1. /\ \E how \in {"acked", "failed"} : HandlerEnds(c, how)
        /\ UNCHANGED <<dest, taken, opener>>
    BY <1>8 DEF PrefixGone, ChecksumMismatch, RecvDone, HandlerEOF, ghosts
  <2> QED
    BY <1>1, <2>1, EndsDelivery
<1> QED
  BY <1>2, <1>3, <1>4, <1>5, <1>6, <1>7, <1>8 DEF HandlerStep

-----------------------------------------------------------------------------
(* The environment.                                                        *)

\* The last write of a handler that dies may be torn: the file it tears has
\* not been accepted.
LEMMA HandlerDiesDelivery ==
    ASSUME DeliveryInv, TypeInv', NoHandlerYet', NEW c \in Conns, HandlerDies(c)
    PROVE  DeliveryInv'
<1> DEFINE f == rcv[c].idx
<1>1. /\ c \in Handlers /\ UNCHANGED <<snd, taken, opener>>
      /\ HandlerEnds(c, "failed")
  BY DEF HandlerDies, ghosts
<1>2. rcv \in [Conns -> HandlerState]
  BY DEF DeliveryInv, TypeInv, TypeOK
<1>3. /\ rcv'[c].pc = "failed" /\ rcv'[c].idx = f
      /\ \A d \in Conns \ {c} : rcv'[d] = rcv[d]
  BY <1>1, <1>2 DEF HandlerEnds, HandlerState
<1>4. Live' \subseteq Live
  BY <1>1, <1>3 DEF Live, Senders, Handlers
<1>5. CASE dest' = dest
  BY <1>1, <1>4, <1>5, EndsDelivery
<1>6. CASE rcv[c].pc = "drain" /\ \E x : dest' = [dest EXCEPT ![f] = x]
  <2>1. f \in Files /\ opener[f] = c /\ taken[c][f] = None
    BY <1>6 DEF DeliveryInv, TypeInv, HandlerSound, HoldsItsFile, AcceptsInOrder, Files
  <2>2. \A g \in Files \ {f} : dest'[g] = dest[g]
    BY <1>6, <2>1 DEF DeliveryInv, TypeInv, TypeOK
  <2>3. \A d \in Conns : HoldsItsFile(d)'
    <3>1. HoldsItsFile(c)'
      BY <1>3 DEF HoldsItsFile
    <3>2. ASSUME NEW d \in Conns, d # c PROVE HoldsItsFile(d)'
      BY <1>1, <1>3, <3>2, NobodyElse DEF HoldsItsFile
    <3> QED
      BY <3>1, <3>2
  <2>4. \A d \in Conns : AcceptsInOrder(d)'
    <3>1. AcceptsInOrder(c)'
      BY <1>1, <1>3 DEF DeliveryInv, AcceptsInOrder
    <3>2. ASSUME NEW d \in Conns, d # c PROVE AcceptsInOrder(d)'
      BY <1>1, <1>3, <3>2 DEF DeliveryInv, AcceptsInOrder
    <3> QED
      BY <3>1, <3>2
  <2>5. DeliveredIntact'
    <3>1. SUFFICES ASSUME NEW d \in Conns, NEW g \in Files,
                          opener'[g] = d, taken'[d][g] # None
                   PROVE  dest'[g] = taken'[d][g]
      BY DEF DeliveredIntact
    <3>2. g # f
      BY <1>1, <2>1, <3>1
    <3> QED
      BY <1>1, <2>2, <3>1, <3>2 DEF DeliveryInv, DeliveredIntact
  <2>6. OneLive'
    BY <1>4 DEF DeliveryInv, OneLive
  <2> QED
    BY <2>3, <2>4, <2>5, <2>6 DEF DeliveryInv
<1>7. \/ dest' = dest
      \/ rcv[c].pc = "drain" /\ \E x : dest' = [dest EXCEPT ![f] = x]
  <2>1. CASE dest' = dest
    BY <2>1
  <2>2. CASE /\ rcv[c].pc = "drain"
             /\ \E n \in 1..Len(Head(toR[c]).payload) :
                   dest' = [dest EXCEPT ![f] =
                       WriteAt(@, rcv[c].pos, Prefix(Head(toR[c]).payload, n))]
    BY <2>2
  <2> QED
    BY <2>1, <2>2 DEF HandlerDies
<1> QED
  BY <1>5, <1>6, <1>7

\* A call of Send waits until nobody else is at work.
LEMMA SendDelivery ==
    ASSUME MaxLive = 1, DeliveryInv, TypeInv', NoHandlerYet', NEW c \in Conns, Send(c)
    PROVE  DeliveryInv'
<1>1. Live = {}
  <2>1. IsFiniteSet(Live)
    BY ConnsAssumption, FS_Subset DEF Live, Senders, Handlers
  <2>2. Cardinality(Live) < 1 /\ Cardinality(Live) \in Nat
    BY <2>1, FS_CardinalityType DEF Send
  <2> QED
    BY <2>1, <2>2, FS_EmptySet
<1>2. /\ UNCHANGED <<dest, taken, opener>>
      /\ rcv' = [rcv EXCEPT ![c].pc = "hello"]
      /\ \A d \in Conns \ {c} : snd'[d] = snd[d]
  BY DEF Send, DeliveryInv, TypeInv, TypeOK
<1>3. /\ rcv'[c].pc = "hello" /\ rcv'[c].idx = rcv[c].idx
      /\ \A d \in Conns \ {c} : rcv'[d] = rcv[d]
  <2>1. rcv \in [Conns -> HandlerState]
    BY DEF DeliveryInv, TypeInv, TypeOK
  <2> QED
    BY <1>2, <2>1 DEF HandlerState
<1>4. OneLive'
  BY <1>1, <1>2, <1>3 DEF OneLive, Live, Senders, Handlers
<1>5. rcv[c].idx = 1
  <2>1. rcv[c].pc = "none"
    BY DEF Send, DeliveryInv, NoHandlerYet
  <2> QED
    BY <2>1 DEF DeliveryInv, AcceptsInOrder
<1>6. \A d \in Conns : HoldsItsFile(d)' /\ AcceptsInOrder(d)'
  <2>1. HoldsItsFile(c)' /\ AcceptsInOrder(c)'
    BY <1>2, <1>3, <1>5 DEF DeliveryInv, HoldsItsFile, AcceptsInOrder
  <2>2. ASSUME NEW d \in Conns, d # c PROVE HoldsItsFile(d)' /\ AcceptsInOrder(d)'
    BY <1>2, <1>3, <2>2 DEF DeliveryInv, HoldsItsFile, AcceptsInOrder
  <2> QED
    BY <2>1, <2>2
<1>7. DeliveredIntact'
  BY <1>2 DEF DeliveryInv, DeliveredIntact
<1> QED
  BY <1>4, <1>6, <1>7 DEF DeliveryInv

\* Every step of the system.
LEMMA NextNoHandlerYet ==
    ASSUME TypeInv, NoHandlerYet, [Next]_vars
    PROVE  NoHandlerYet'
<1>1. snd \in [Conns -> SenderState] /\ rcv \in [Conns -> HandlerState]
  BY DEF TypeInv, TypeOK
<1>2. ASSUME NEW c \in Conns, Send(c) PROVE NoHandlerYet'
  <2>1. /\ snd'[c].pc = "hello"
        /\ \A d \in Conns \ {c} : snd'[d] = snd[d] /\ rcv'[d] = rcv[d]
    BY <1>1, <1>2 DEF Send, SenderState
  <2> QED
    BY <2>1 DEF NoHandlerYet
<1>3. ASSUME NEW c \in Conns, SenderStep(c) PROVE NoHandlerYet'
  BY <1>3, SenderStepLive DEF NoHandlerYet
<1>4. ASSUME NEW c \in Conns, HandlerStep(c) PROVE NoHandlerYet'
  BY <1>4, HandlerStepLive DEF NoHandlerYet, Handlers
<1>5. ASSUME NEW c \in Conns, HandlerDies(c) PROVE NoHandlerYet'
  <2>1. /\ snd' = snd /\ rcv[c].pc # "none"
        /\ \A d \in Conns \ {c} : rcv'[d] = rcv[d]
    BY <1>1, <1>5 DEF HandlerDies, HandlerEnds, Handlers
  <2> QED
    BY <2>1 DEF NoHandlerYet
<1>6. ASSUME NEW c \in Conns, Cancel(c) PROVE NoHandlerYet'
  <2>1. /\ rcv' = rcv /\ snd'[c].pc = snd[c].pc
        /\ \A d \in Conns \ {c} : snd'[d] = snd[d]
    BY <1>1, <1>6, Zenon DEF Cancel, SenderState
  <2> QED
    BY <2>1 DEF NoHandlerYet
<1>7. ASSUME UNCHANGED <<snd, rcv>> PROVE NoHandlerYet'
  BY <1>7 DEF NoHandlerYet
<1> QED
  BY <1>2, <1>3, <1>4, <1>5, <1>6, <1>7
     DEF Next, LinkFails, EditSource, AtRest, vars

\* Every step of the system keeps the invariant.
LEMMA NextDelivery ==
    ASSUME MaxLive = 1, DeliveryInv, [Next]_vars
    PROVE  DeliveryInv'
<1>1. TypeInv' /\ NoHandlerYet'
  BY NextTypeInv, NextNoHandlerYet DEF DeliveryInv
<1>2. ASSUME NEW c \in Conns, Send(c) PROVE DeliveryInv'
  BY <1>1, <1>2, SendDelivery
<1>3. ASSUME NEW c \in Conns, SenderStep(c) PROVE DeliveryInv'
  BY <1>1, <1>3, SenderStepLive, QuietDelivery DEF DeliveryInv
<1>4. ASSUME NEW c \in Conns, HandlerStep(c) PROVE DeliveryInv'
  BY <1>1, <1>4, HandlerStepDelivery
<1>5. ASSUME NEW c \in Conns, HandlerDies(c) PROVE DeliveryInv'
  BY <1>1, <1>5, HandlerDiesDelivery
<1>6. ASSUME NEW c \in Conns, Cancel(c) PROVE DeliveryInv'
  <2>1. snd \in [Conns -> SenderState] /\ c \in Senders
    BY <1>6 DEF DeliveryInv, TypeInv, TypeOK, Cancel
  <2>2. \A d \in Conns \ {c} : snd'[d] = snd[d]
    BY <1>6, <2>1 DEF Cancel
  <2>3. UNCHANGED <<dest, rcv, taken, opener>>
    BY <1>6 DEF Cancel, ghosts
  <2>4. Live' \subseteq Live
    BY <2>1, <2>2, <2>3 DEF Live, Senders, Handlers
  <2> QED
    BY <1>1, <2>3, <2>4, QuietDelivery
<1>7. ASSUME UNCHANGED <<snd, rcv, dest, taken, opener>> PROVE DeliveryInv'
  <2>1. Live' = Live
    BY <1>7 DEF Live, Senders, Handlers
  <2> QED
    BY <1>1, <1>7, <2>1, QuietDelivery
<1> QED
  BY <1>2, <1>3, <1>4, <1>5, <1>6, <1>7
     DEF Next, LinkFails, EditSource, AtRest, vars, ghosts

\* Nothing is open and nothing accepted at the start.
LEMMA InitDelivery == Init => DeliveryInv
<1> SUFFICES ASSUME Init PROVE DeliveryInv
  OBVIOUS
<1>1. \A c \in Conns : snd[c].pc = "idle" /\ rcv[c].pc = "none" /\ rcv[c].idx = 1
  BY DEF Init
<1>2. Live = {}
  BY <1>1 DEF Live, Senders, Handlers
<1>3. \A c \in Conns, f \in Files : taken[c][f] = None
  BY DEF Init
<1> QED
  BY <1>1, <1>2, <1>3, InitTypeInv
     DEF DeliveryInv, NoHandlerYet, OneLive, HoldsItsFile, AcceptsInOrder, DeliveredIntact

\* As long as one connection is at work at a time, a file that its last handler
\* has accepted holds exactly the bytes whose digest was found equal, after any
\* number of failed, cancelled and repeated runs and of edits to the sources
\* (receiveFile and drainFile: the digest needs no second pass over the file).
THEOREM DeliveredIntactAlways ==
    ASSUME MaxLive = 1
    PROVE  Spec => []DeliveredIntact
<1>1. DeliveryInv /\ [Next]_vars => DeliveryInv'
  BY NextDelivery
<1>2. DeliveryInv => DeliveredIntact
  BY DEF DeliveryInv
<1> QED
  BY <1>1, <1>2, InitDelivery, PTL DEF Spec

-----------------------------------------------------------------------------
(* Places in the loop over the files, which both ends go through, and the    *)
(* frames that lead from one to the next.                                   *)

Between(i) == <<"between", i>>
Within(f) == <<"within", f>>
Over == <<"over", 0>>

\* Where an end is: s is the state of a sender or of a handler.
Place(s) ==
    IF s.pc = "file" THEN Between(s.idx)
    ELSE IF s.pc \in {"stream", "open", "drain"} THEN Within(s.idx)
    ELSE Over

\* The frame m comes next at a place.
Fits(off, place, m) ==
    \/ /\ m.kind = "FileStart"
       /\ m.file \in Files /\ m.offset = off[m.file]
       /\ place = Between(m.file)
    \/ /\ m.kind \in {"Data", "FileDone"}
       /\ m.file \in Files
       /\ place = Within(m.file)
    \/ /\ m.kind = "Done"
       /\ place = Between(NFiles + 1)

\* The place after a frame.
After(off, m) ==
    IF m.kind \in {"FileStart", "Data"} THEN Within(m.file)
    ELSE IF m.kind = "FileDone" THEN Between(NextFile(off, m.file + 1))
    ELSE Over

\* The frames of a wire lead from a place to another.
Chain(off, place, q) ==
    /\ q # <<>> => Fits(off, place, q[1])
    /\ \A i \in 1..(Len(q) - 1) : Fits(off, After(off, q[i]), q[i + 1])

EndOf(off, place, q) == IF q = <<>> THEN place ELSE After(off, q[Len(q)])

LEMMA ChainTail ==
    ASSUME NEW q \in Seq(ToReceiver), q # <<>>, NEW off, NEW place, Chain(off, place, q)
    PROVE  /\ Fits(off, place, Head(q))
           /\ Chain(off, After(off, Head(q)), Tail(q))
           /\ EndOf(off, After(off, Head(q)), Tail(q)) = EndOf(off, place, q)
<1>1. /\ Len(q) \in Nat \ {0} /\ Head(q) = q[1]
      /\ Tail(q) \in Seq(ToReceiver) /\ Len(Tail(q)) = Len(q) - 1
      /\ \A i \in 1..(Len(q) - 1) : Tail(q)[i] = q[i + 1]
  BY HeadTailProperties, LenProperties, EmptySeq
<1>2. Tail(q) = <<>> <=> Len(q) = 1
  BY <1>1, EmptySeq, LenProperties
<1>3. Tail(q) # <<>> => Fits(off, After(off, q[1]), Tail(q)[1])
  BY <1>1, <1>2 DEF Chain
<1>4. ASSUME NEW i \in 1..(Len(Tail(q)) - 1)
      PROVE  Fits(off, After(off, Tail(q)[i]), Tail(q)[i + 1])
  <2>1. i + 1 \in 1..(Len(q) - 1) /\ i \in 1..(Len(q) - 1)
    BY <1>1
  <2>2. Tail(q)[i] = q[i + 1] /\ Tail(q)[i + 1] = q[(i + 1) + 1]
    BY <1>1, <2>1
  <2> QED
    BY <2>1, <2>2 DEF Chain
<1>5. EndOf(off, After(off, Head(q)), Tail(q)) = EndOf(off, place, q)
  <2>1. CASE Len(q) = 1
    BY <1>1, <1>2, <2>1 DEF EndOf
  <2>2. CASE Len(q) # 1
    <3>1. Tail(q)[Len(q) - 1] = q[(Len(q) - 1) + 1]
      BY <1>1, <2>2
    <3> QED
      BY <1>1, <1>2, <2>2, <3>1 DEF EndOf
  <2> QED
    BY <2>1, <2>2
<1> QED
  BY <1>1, <1>3, <1>4, <1>5 DEF Chain

LEMMA ChainAppend ==
    ASSUME NEW q \in Seq(ToReceiver), NEW m \in ToReceiver, NEW off, NEW place,
           Chain(off, place, q), Fits(off, EndOf(off, place, q), m)
    PROVE  /\ Chain(off, place, Append(q, m))
           /\ EndOf(off, place, Append(q, m)) = After(off, m)
<1> DEFINE r == Append(q, m)
<1>1. /\ Len(q) \in Nat /\ Len(r) = Len(q) + 1 /\ r # <<>>
      /\ \A i \in 1..Len(q) : r[i] = q[i]
      /\ r[Len(q) + 1] = m
  BY AppendProperties, LenProperties
<1> HIDE DEF r
<1>2. q = <<>> <=> Len(q) = 0
  BY EmptySeq
<1>3. Fits(off, place, r[1])
  <2>1. CASE q = <<>>
    BY <1>1, <1>2, <2>1 DEF EndOf
  <2>2. CASE q # <<>>
    BY <1>1, <1>2, <2>2 DEF Chain
  <2> QED
    BY <2>1, <2>2
<1>4. ASSUME NEW i \in 1..(Len(r) - 1) PROVE Fits(off, After(off, r[i]), r[i + 1])
  <2>1. CASE i = Len(q)
    BY <1>1, <1>2, <2>1 DEF EndOf
  <2>2. CASE i # Len(q)
    <3>1. i \in 1..(Len(q) - 1) /\ i + 1 \in 1..Len(q)
      BY <1>1, <2>2
    <3> QED
      BY <1>1, <3>1 DEF Chain
  <2> QED
    BY <2>1, <2>2
<1>5. EndOf(off, place, r) = After(off, m)
  BY <1>1 DEF EndOf
<1> QED
  BY <1>3, <1>4, <1>5 DEF Chain, r

LEMMA ChainPrefix ==
    ASSUME NEW q \in Seq(ToReceiver), NEW n \in 0..Len(q), NEW off, NEW place,
           Chain(off, place, q)
    PROVE  Chain(off, place, Prefix(q, n))
<1>1. /\ Len(q) \in Nat
      /\ Len(Prefix(q, n)) = n
      /\ \A i \in 1..n : Prefix(q, n)[i] = q[i]
  BY LenProperties, SubSeqProperties DEF Prefix
<1>2. Prefix(q, n) # <<>> => n >= 1 /\ q # <<>>
  <2>1. n = 0 => Prefix(q, n) = <<>>
    BY SubSeqEmpty DEF Prefix
  <2>2. q = <<>> => n = 0
    BY EmptySeq
  <2> QED
    BY <2>1, <2>2
<1> QED
  BY <1>1, <1>2 DEF Chain

LEMMA ChainEmpty ==
    ASSUME NEW off, NEW place
    PROVE  Chain(off, place, <<>>)
BY DEF Chain

\* Several frames on a wire.
LEMMA AppendLater ==
    ASSUME NEW S, NEW u \in Seq(S), NEW v \in Seq(S), NEW m \in S
    PROVE  u \o Append(v, m) = Append(u \o v, m)
<1>1. <<m>> \in Seq(S) /\ u \o v \in Seq(S)
  BY ConcatProperties
<1>2. Append(v, m) = v \o <<m>> /\ Append(u \o v, m) = (u \o v) \o <<m>>
  BY <1>1, AppendIsConcat, Zenon
<1>3. \A w \in Seq(S) : (u \o v) \o w = u \o (v \o w)
  BY ConcatAssociative
<1>4. (u \o v) \o <<m>> = u \o (v \o <<m>>)
  BY <1>1, <1>3, Zenon
<1> QED
  BY <1>2, <1>4, Zenon

\* One frame on a wire.
LEMMA PutOne ==
    ASSUME NEW S, NEW wire \in [Conns -> Seq(S)], NEW c \in Conns, NEW m \in S
    PROVE  Put(c, wire, <<m>>) = IF link[c] = "up" THEN Append(wire[c], m) ELSE wire[c]
BY AppendIsConcat DEF Put

-----------------------------------------------------------------------------
(* The inductive invariant.  s and h are the two ends of a connection, q and p *)
(* what is under way to the receiver and to the sender, l its link, t and k the *)
(* digests told and taken.                                                  *)

AtFiles == {"file", "open", "drain"}
FromStart == [f \in Files |-> 0]

\* One frame, of this kind, is under way.
Single(wire, kind) == Len(wire) = 1 /\ Head(wire).kind = kind

\* What the handler has before it.
HandlerSide(s, h, q, p, l) ==
    /\ h.pc \in {"none", "hello", "query"} => h.idx = 1 /\ h.off = FromStart
    /\ h.pc = "none" => q = <<>>
    /\ h.pc = "hello" =>
          p = <<>> /\ s.pc \in {"hello", "failed"} /\ (q = <<>> \/ Single(q, "Hello"))
    /\ h.pc = "query" =>
          \/ q = <<>>
          \/ Single(q, "ResumeQueryBatch") /\ s.pc \in {"query", "failed"} /\ p = <<>>
    /\ h.pc \in AtFiles => Chain(h.off, Place(h), q)
    /\ h.pc \in {"acked", "failed"} => q = <<>> /\ l # "up"

\* The handler that has sent the HelloAck m waits for what the sender will decide.
Agreed(h, m) ==
    \/ h.pc = "failed"
    \/ h.pc = "query" /\ Candidates(m.have) # {}
    \/ h.pc = "file" /\ Candidates(m.have) = {} /\ h.idx = 1 /\ h.off = FromStart

\* The handler that has sent the answers m goes by them.
Answered(h, m) ==
    \/ h.pc = "failed"
    \/ h.pc = "file" /\ h.off = m.answers /\ h.idx = NextFile(m.answers, 1)

\* What the sender has before it.
SenderSide(s, h, q, p, l) ==
    /\ s.pc = "idle" <=> h.pc = "none"
    /\ s.pc \in {"idle", "hello", "query"} => s.idx = 1 /\ s.off = FromStart
    /\ s.pc \in {"idle", "file", "stream"} => p = <<>>
    /\ l = "up" /\ p = <<>> /\ s.pc \in {"hello", "query"} => h.pc = s.pc
    /\ s.pc \in {"ok", "failed"} => p = <<>> /\ l # "up"
    /\ s.pc = "hello" /\ p # <<>> => Single(p, "HelloAck") /\ q = <<>> /\ Agreed(h, Head(p))
    /\ s.pc = "query" /\ p # <<>> =>
          Single(p, "ResumeAnswerBatch") /\ q = <<>> /\ Answered(h, Head(p))
    /\ s.pc = "ack" => p = <<>> \/ Single(p, "DoneAck")
    /\ l = "up" /\ s.pc \in {"file", "stream", "ack"} =>
          /\ h.pc \in AtFiles /\ h.off = s.off
          /\ EndOf(h.off, Place(h), q) = Place(s)

InStep(s, h, q, p, l) == HandlerSide(s, h, q, p, l) /\ SenderSide(s, h, q, p, l)

\* What was told and what was found equal.
Confirmed(s, h, q, p, t, k) ==
    /\ \A f \in Files : t[f] # None => f < s.idx
    /\ \A f \in Files : k[f] # None => k[f] = t[f]
    /\ \A i \in 1..Len(q) : q[i].kind = "FileDone" => t[q[i].file] = q[i].sum
    /\ h.pc \in AtFiles \cup {"acked"} =>
          \A f \in Files : f < h.idx /\ h.off[f] # Skip => k[f] # None
    /\ h.pc = "acked" => h.idx = NFiles + 1
    /\ s.pc = "ok" \/ (s.pc = "ack" /\ p # <<>>) => h.pc = "acked" /\ h.off = s.off

Line(s, h, q, p, l, t, k) == InStep(s, h, q, p, l) /\ Confirmed(s, h, q, p, t, k)

LineOf(c) == Line(snd[c], rcv[c], toR[c], toS[c], link[c], told[c], taken[c])

Lines == \A c \in Conns : LineOf(c)

LineTypes(s, h, q, p, t, k) ==
    /\ s \in SenderState /\ h \in HandlerState
    /\ q \in Seq(ToReceiver) /\ p \in Seq(ToSender)
    /\ t \in [Files -> File \cup {None}] /\ k \in [Files -> File \cup {None}]

\* What reading and writing make of a wire with one frame or none.
LEMMA OneFrame ==
    ASSUME NEW S, NEW wire \in Seq(S), NEW m \in S, NEW kind
    PROVE  /\ Single(wire, kind) => wire # <<>> /\ Tail(wire) = <<>> /\ Head(wire) = wire[1]
           /\ Single(Append(<<>>, m), m.kind) /\ Head(Append(<<>>, m)) = m
           /\ Append(wire, m) # <<>>
<1>1. ASSUME Single(wire, kind) PROVE wire # <<>> /\ Tail(wire) = <<>> /\ Head(wire) = wire[1]
  <2>1. Len(wire) = 1
    BY <1>1 DEF Single
  <2>2. wire # <<>>
    BY <2>1, EmptySeq
  <2>3. Tail(wire) \in Seq(S) /\ Len(Tail(wire)) = 0
    BY <2>1, <2>2, HeadTailProperties
  <2>4. Tail(wire) = <<>>
    BY <2>3, EmptySeq
  <2> QED
    BY <2>2, <2>4
<1>2. Len(Append(<<>>, m)) = 1 /\ Head(Append(<<>>, m)) = m
  OBVIOUS
<1>3. Append(wire, m) # <<>>
  BY AppendProperties
<1> QED
  BY <1>1, <1>2, <1>3 DEF Single

-----------------------------------------------------------------------------
(* The steps of the sender.                                                *)

\* A sender in the loop over the files writes the frame that is due.
LEMMA Sends ==
    ASSUME NEW s, NEW h, NEW q, NEW p, NEW l, NEW t, NEW k, LineTypes(s, h, q, p, t, k),
           InStep(s, h, q, p, l), s.pc \in {"file", "stream"},
           NEW m \in ToReceiver, Fits(s.off, Place(s), m),
           NEW r \in SenderState, r.off = s.off, r.pc \in {"file", "stream", "ack"},
           Place(r) = After(s.off, m)
    PROVE  InStep(r, h, IF l = "up" THEN Append(q, m) ELSE q, p, l)
<1>1. p = <<>> /\ h.pc # "none" /\ h.pc # "hello" /\ (h.pc = "query" => q = <<>>)
  BY DEF InStep, HandlerSide, SenderSide
<1>2. CASE l = "up"
  <2>1. h.pc \in AtFiles /\ h.off = s.off /\ EndOf(h.off, Place(h), q) = Place(s)
    BY <1>2 DEF InStep, SenderSide
  <2>2. Chain(h.off, Place(h), q)
    BY <2>1 DEF InStep, HandlerSide
  <2>3. /\ Chain(h.off, Place(h), Append(q, m))
        /\ EndOf(h.off, Place(h), Append(q, m)) = Place(r)
    BY <2>1, <2>2, ChainAppend DEF LineTypes
  <2> QED
    BY <1>1, <1>2, <2>1, <2>3 DEF InStep, HandlerSide, SenderSide, AtFiles
<1>3. CASE l # "up"
  BY <1>1, <1>3 DEF InStep, HandlerSide, SenderSide
<1> QED
  BY <1>2, <1>3

\* The same with the digests, for a frame that is not its file's last.
LEMMA SendsQuiet ==
    ASSUME NEW s, NEW h, NEW q, NEW p, NEW l, NEW t, NEW k, LineTypes(s, h, q, p, t, k),
           Line(s, h, q, p, l, t, k), s.pc \in {"file", "stream"},
           NEW m \in ToReceiver, m.kind # "FileDone", Fits(s.off, Place(s), m),
           NEW r \in SenderState, r.off = s.off, r.idx = s.idx,
           r.pc \in {"file", "stream", "ack"}, Place(r) = After(s.off, m)
    PROVE  Line(r, h, IF l = "up" THEN Append(q, m) ELSE q, p, l, t, k)
<1> DEFINE q1 == IF l = "up" THEN Append(q, m) ELSE q
<1>1. InStep(r, h, q1, p, l)
  BY Sends DEF Line
<1>2. ASSUME NEW i \in 1..Len(q1), q1[i].kind = "FileDone" PROVE t[q1[i].file] = q1[i].sum
  <2>1. i \in 1..Len(q) /\ q1[i] = q[i]
    BY <1>2, AppendProperties, LenProperties DEF LineTypes
  <2> QED
    BY <1>2, <2>1 DEF Line, Confirmed
<1>3. p = <<>>
  BY DEF Line, InStep, SenderSide
<1> HIDE DEF q1
<1>4. Confirmed(r, h, q1, p, t, k)
  BY <1>2, <1>3 DEF Line, Confirmed
<1> QED
  BY <1>1, <1>4 DEF Line, q1

\* The digest of a file is told, and the next file follows.
LEMMA SendsDigest ==
    ASSUME NEW s, NEW h, NEW q, NEW p, NEW l, NEW t, NEW k, LineTypes(s, h, q, p, t, k),
           Line(s, h, q, p, l, t, k), s.pc = "stream", s.idx \in Files,
           NEW m \in ToReceiver, m.kind = "FileDone", m.file = s.idx,
           NEW r \in SenderState, r.off = s.off, r.pc = "file",
           r.idx = NextFile(s.off, s.idx + 1)
    PROVE  Line(r, h, IF l = "up" THEN Append(q, m) ELSE q, p, l,
                [t EXCEPT ![s.idx] = m.sum], k)
<1> DEFINE f == s.idx
           q1 == IF l = "up" THEN Append(q, m) ELSE q
           t1 == [t EXCEPT ![f] = m.sum]
<1>1. p = <<>>
  BY DEF Line, InStep, SenderSide
<1>2. InStep(r, h, q1, p, l)
  <2>1. Fits(s.off, Place(s), m) /\ Place(r) = After(s.off, m)
    BY DEF Fits, Place, After
  <2> QED
    BY <2>1, Sends DEF Line
<1>3. t[f] = None /\ k[f] = None
  BY DEF Line, Confirmed, Files
<1>4. \A g \in Files : t1[g] = IF g = f THEN m.sum ELSE t[g]
  BY DEF LineTypes
<1>5. r.idx \in (f + 1)..(NFiles + 1)
  <2>1. f + 1 \in 1..(NFiles + 1) /\ s.off \in [Files -> Offset]
    BY CountsAssumption DEF Files, LineTypes, SenderState
  <2> QED
    BY <2>1, NextFileType
<1> HIDE DEF t1
<1>6. ASSUME NEW g \in Files, t1[g] # None PROVE g < r.idx
  BY <1>4, <1>5, <1>6 DEF Line, Confirmed, Files
<1>7. ASSUME NEW i \in 1..Len(q1), q1[i].kind = "FileDone"
      PROVE  t1[q1[i].file] = q1[i].sum
  <2>1. CASE i \in 1..Len(q) /\ q1[i] = q[i]
    <3>1. q[i].file \in Files /\ q[i].sum \in File
      <4>1. q[i] \in ToReceiver
        BY <2>1, ElementOfSeq DEF LineTypes
      <4> QED
        BY <1>7, <2>1, <4>1 DEF ToReceiver, Hello, Done
    <3>2. t[q[i].file] = q[i].sum /\ q[i].sum # None
      BY <1>7, <2>1, <3>1, NoneAssumption DEF Line, Confirmed, File
    <3> QED
      BY <1>3, <1>4, <2>1, <3>1, <3>2
  <2>2. CASE q1[i] = m
    BY <1>4, <2>2
  <2>3. (i \in 1..Len(q) /\ q1[i] = q[i]) \/ q1[i] = m
    BY AppendProperties, LenProperties DEF LineTypes
  <2> QED
    BY <2>1, <2>2, <2>3
<1>8. \A g \in Files : k[g] # None => k[g] = t1[g]
  BY <1>3, <1>4 DEF Line, Confirmed
<1> HIDE DEF q1
<1>9. Confirmed(r, h, q1, p, t1, k)
  BY <1>1, <1>6, <1>7, <1>8 DEF Line, Confirmed
<1> QED
  BY <1>2, <1>9 DEF Line, q1, t1

\* Send returns, and takes the connection down.
LEMMA Leaves ==
    ASSUME NEW s, NEW h, NEW q, NEW p, NEW l, NEW t, NEW k, LineTypes(s, h, q, p, t, k),
           Line(s, h, q, p, l, t, k), s.pc # "idle",
           NEW r \in SenderState, r.off = s.off, r.idx = s.idx,
           r.pc = "failed" \/ (r.pc = "ok" /\ s.pc = "ack" /\ p # <<>>)
    PROVE  Line(r, h, q, <<>>, "down", t, k)
<1>1. HandlerSide(r, h, q, <<>>, "down")
  BY DEF Line, InStep, HandlerSide, SenderSide
<1>2. SenderSide(r, h, q, <<>>, "down")
  BY DEF Line, InStep, SenderSide
<1>3. Confirmed(r, h, q, <<>>, t, k)
  BY DEF Line, Confirmed
<1> QED
  BY <1>1, <1>2, <1>3 DEF Line, InStep

\* resolveResume reads a HelloAck and has nothing to ask.
LEMMA StartsFresh ==
    ASSUME NEW s, NEW h, NEW q, NEW p, NEW l, NEW t, NEW k, LineTypes(s, h, q, p, t, k),
           Line(s, h, q, p, l, t, k), s.pc = "hello", p # <<>>,
           Candidates(Head(p).have) = {},
           NEW r \in SenderState, r.off = s.off, r.idx = s.idx, r.pc = "file"
    PROVE  Line(r, h, q, Tail(p), l, t, k)
<1>1. Single(p, "HelloAck") /\ q = <<>> /\ Agreed(h, Head(p))
  BY DEF Line, InStep, SenderSide
<1>2. Tail(p) = <<>>
  <2>1. p[1] \in ToSender
    BY <1>1, ElementOfSeq DEF Single, LineTypes
  <2> QED
    BY <1>1, <2>1, OneFrame DEF LineTypes
<1>3. h.pc \in {"file", "failed"}
  BY <1>1 DEF Agreed
<1>4. HandlerSide(r, h, q, Tail(p), l)
  BY <1>1, <1>3 DEF Line, InStep, HandlerSide
<1>5. SenderSide(r, h, q, Tail(p), l)
  <2>1. s.idx = 1 /\ s.off = FromStart /\ h.pc # "none"
    BY DEF Line, InStep, SenderSide
  <2>2. ASSUME l = "up"
        PROVE  h.pc \in AtFiles /\ h.off = r.off /\ EndOf(h.off, Place(h), q) = Place(r)
    <3>1. h.pc = "file"
      BY <1>3, <2>2 DEF Line, InStep, HandlerSide
    <3>2. h.idx = 1 /\ h.off = FromStart
      BY <1>1, <3>1 DEF Agreed
    <3> QED
      BY <1>1, <2>1, <3>1, <3>2 DEF EndOf, Place, AtFiles
  <2> QED
    BY <1>2, <1>3, <2>1, <2>2 DEF SenderSide
<1>6. Confirmed(r, h, q, Tail(p), t, k)
  BY <1>2 DEF Line, Confirmed
<1> QED
  BY <1>4, <1>5, <1>6 DEF Line, InStep

\* resolveResume reads a HelloAck and sends its queries.
LEMMA Asks ==
    ASSUME NEW s, NEW h, NEW q, NEW p, NEW l, NEW t, NEW k, LineTypes(s, h, q, p, t, k),
           Line(s, h, q, p, l, t, k), s.pc = "hello", p # <<>>,
           Candidates(Head(p).have) # {},
           NEW m \in ToReceiver, m.kind = "ResumeQueryBatch",
           NEW r \in SenderState, r.off = s.off, r.idx = s.idx, r.pc = "query"
    PROVE  Line(r, h, IF l = "up" THEN Append(q, m) ELSE q, Tail(p), l, t, k)
<1>1. Single(p, "HelloAck") /\ q = <<>> /\ Agreed(h, Head(p)) /\ h.pc # "none"
  BY DEF Line, InStep, SenderSide
<1>2. Tail(p) = <<>>
  <2>1. p[1] \in ToSender
    BY <1>1, ElementOfSeq DEF Single, LineTypes
  <2> QED
    BY <1>1, <2>1, OneFrame DEF LineTypes
<1>3. h.pc \in {"query", "failed"} /\ (l = "up" => h.pc = "query")
  BY <1>1 DEF Agreed, Line, InStep, HandlerSide
<1> DEFINE q1 == IF l = "up" THEN Append(q, m) ELSE q
<1>4. q1 = <<>> \/ (l = "up" /\ Single(q1, "ResumeQueryBatch"))
  BY <1>1, OneFrame DEF LineTypes
<1>5. HandlerSide(r, h, q1, Tail(p), l)
  <2> HIDE DEF q1
  <2>1. (h.idx = 1 /\ h.off = FromStart) \/ h.pc = "failed"
    BY <1>3 DEF Line, InStep, HandlerSide
  <2> QED
    BY <1>2, <1>3, <1>4, <2>1 DEF Line, InStep, HandlerSide, AtFiles
<1>6. SenderSide(r, h, q1, Tail(p), l)
  BY <1>1, <1>2, <1>3 DEF Line, InStep, SenderSide
<1>7. Confirmed(r, h, q1, Tail(p), t, k)
  <2>9. q1 \in Seq(ToReceiver)
    BY AppendProperties DEF LineTypes
  <2> HIDE DEF q1
  <2>1. ASSUME NEW i \in 1..Len(q1) PROVE q1[i].kind # "FileDone"
    <3>1. CASE q1 = <<>>
      BY <2>1, <3>1
    <3>2. CASE Single(q1, "ResumeQueryBatch")
      <4>1. i = 1 /\ q1[1] = Head(q1)
        BY <2>9, <2>1, <3>2 DEF Single
      <4> QED
        BY <3>2, <4>1 DEF Single
    <3> QED
      BY <1>4, <3>1, <3>2
  <2> QED
    BY <1>2, <2>1 DEF Line, Confirmed
<1> QED
  BY <1>5, <1>6, <1>7 DEF Line, InStep

\* resolveResume reads the answers.
LEMMA GoesByAnswers ==
    ASSUME NEW s, NEW h, NEW q, NEW p, NEW l, NEW t, NEW k, LineTypes(s, h, q, p, t, k),
           Line(s, h, q, p, l, t, k), s.pc = "query", p # <<>>,
           NEW r \in SenderState, r.off = Head(p).answers,
           r.idx = NextFile(Head(p).answers, 1), r.pc = "file"
    PROVE  Line(r, h, q, Tail(p), l, t, k)
<1>1. Single(p, "ResumeAnswerBatch") /\ q = <<>> /\ Answered(h, Head(p)) /\ h.pc # "none"
  BY DEF Line, InStep, SenderSide
<1>2. Tail(p) = <<>>
  <2>1. p[1] \in ToSender
    BY <1>1, ElementOfSeq DEF Single, LineTypes
  <2> QED
    BY <1>1, <2>1, OneFrame DEF LineTypes
<1>3. HandlerSide(r, h, q, Tail(p), l)
  BY <1>1 DEF Line, InStep, HandlerSide, Answered
<1>4. SenderSide(r, h, q, Tail(p), l)
  <2>1. ASSUME l = "up"
        PROVE  h.pc \in AtFiles /\ h.off = r.off /\ EndOf(h.off, Place(h), q) = Place(r)
    <3>1. h.pc = "file" /\ h.off = r.off /\ h.idx = r.idx
      BY <1>1, <2>1 DEF Line, InStep, HandlerSide, Answered
    <3> QED
      BY <1>1, <3>1 DEF EndOf, Place, AtFiles
  <2> QED
    BY <1>1, <1>2, <2>1 DEF SenderSide
<1>5. Confirmed(r, h, q, Tail(p), t, k)
  <2>1. \A f \in Files : t[f] = None
    BY DEF Line, InStep, SenderSide, Confirmed, Files
  <2> QED
    BY <1>2, <2>1 DEF Line, Confirmed
<1> QED
  BY <1>3, <1>4, <1>5 DEF Line, InStep

-----------------------------------------------------------------------------
(* The steps of the handler.                                               *)

\* A handler in its loop reads the frame that is due.
LEMMA Takes ==
    ASSUME NEW s, NEW h, NEW q, NEW p, NEW l, NEW t, NEW k, LineTypes(s, h, q, p, t, k),
           InStep(s, h, q, p, l), h.pc \in AtFiles, q # <<>>,
           NEW r \in HandlerState, r.off = h.off, r.pc \in AtFiles,
           Place(r) = After(h.off, Head(q))
    PROVE  InStep(s, r, Tail(q), p, l)
<1>1. /\ Fits(h.off, Place(h), Head(q))
      /\ Chain(h.off, Place(r), Tail(q))
      /\ EndOf(h.off, Place(r), Tail(q)) = EndOf(h.off, Place(h), q)
  BY ChainTail DEF LineTypes, InStep, HandlerSide
<1>2. HandlerSide(s, r, Tail(q), p, l)
  BY <1>1 DEF InStep, HandlerSide, AtFiles
<1>3. SenderSide(s, r, Tail(q), p, l)
  <2>1. s.pc \in {"hello", "query"} => p = <<>> /\ l # "up"
    BY DEF InStep, SenderSide, AtFiles
  <2> QED
    BY <1>1, <2>1 DEF InStep, SenderSide, AtFiles
<1> QED
  BY <1>2, <1>3 DEF InStep

\* What the digests have to do with a frame that is not their file's last.
LEMMA TakesNoDigest ==
    ASSUME NEW s, NEW h, NEW q, NEW p, NEW l, NEW t, NEW k, LineTypes(s, h, q, p, t, k),
           Line(s, h, q, p, l, t, k), h.pc \in AtFiles, q # <<>>,
           NEW r \in HandlerState, r.off = h.off, r.idx = h.idx, r.pc \in AtFiles,
           Place(r) = After(h.off, Head(q))
    PROVE  Line(s, r, Tail(q), p, l, t, k)
<1>1. InStep(s, r, Tail(q), p, l)
  BY Takes DEF Line
<1>2. ASSUME NEW i \in 1..Len(Tail(q)), Tail(q)[i].kind = "FileDone"
      PROVE  t[Tail(q)[i].file] = Tail(q)[i].sum
  <2>1. i + 1 \in 1..Len(q) /\ Tail(q)[i] = q[i + 1]
    BY HeadTailProperties, LenProperties DEF LineTypes
  <2> QED
    BY <1>2, <2>1 DEF Line, Confirmed
<1>3. Confirmed(s, r, Tail(q), p, t, k)
  BY <1>2 DEF Line, Confirmed, AtFiles
<1> QED
  BY <1>1, <1>3 DEF Line

\* The digest of a file is compared, and the next file follows.
LEMMA TakesDigest ==
    ASSUME NEW s, NEW h, NEW q, NEW p, NEW l, NEW t, NEW k, LineTypes(s, h, q, p, t, k),
           Line(s, h, q, p, l, t, k), h.pc = "drain", h.idx \in Files,
           q # <<>>, Head(q).kind = "FileDone",
           NEW r \in HandlerState, r.off = h.off, r.pc = "file",
           r.idx = NextFile(h.off, h.idx + 1)
    PROVE  Line(s, r, Tail(q), p, l, t, [k EXCEPT ![h.idx] = Head(q).sum])
<1> DEFINE f == h.idx
           sum == Head(q).sum
           k1 == [k EXCEPT ![f] = sum]
<1>1. Head(q) \in ToReceiver /\ Head(q) = q[1] /\ 1 \in 1..Len(q)
  BY HeadTailProperties, LenProperties, EmptySeq DEF LineTypes
<1>2. sum \in File /\ sum # None
  BY <1>1, FrameFields, NoneAssumption DEF File
<1>3. Head(q).file = f
  <2>1. Fits(h.off, Place(h), Head(q))
    BY ChainTail DEF Line, LineTypes, InStep, HandlerSide, AtFiles
  <2>2. Place(h) = Within(f)
    BY DEF Place
  <2> QED
    BY <2>1, <2>2 DEF Fits, Within, Between
<1>4. t[f] = sum
  BY <1>1, <1>3 DEF Line, Confirmed
<1>5. InStep(s, r, Tail(q), p, l)
  <2>1. Place(r) = After(h.off, Head(q))
    BY <1>3 DEF Place, After
  <2> QED
    BY <2>1, Takes DEF Line, AtFiles
<1>6. ASSUME NEW i \in 1..Len(Tail(q)), Tail(q)[i].kind = "FileDone"
      PROVE  t[Tail(q)[i].file] = Tail(q)[i].sum
  <2>1. i + 1 \in 1..Len(q) /\ Tail(q)[i] = q[i + 1]
    BY HeadTailProperties, LenProperties DEF LineTypes
  <2> QED
    BY <1>6, <2>1 DEF Line, Confirmed
<1>7. \A g \in Files : k1[g] = IF g = f THEN sum ELSE k[g]
  BY DEF LineTypes
<1>8. ASSUME NEW g \in Files, g < r.idx, h.off[g] # Skip PROVE k1[g] # None
  <2>1. f + 1 \in 1..(NFiles + 1) /\ h.off \in [Files -> Offset]
    BY CountsAssumption DEF Files, LineTypes, HandlerState
  <2>2. /\ r.idx \in (f + 1)..(NFiles + 1)
        /\ \A j \in (f + 1)..(r.idx - 1) : h.off[j] = Skip
    BY <2>1, NextFileType
  <2>3. g <= f
    BY <1>8, <2>1, <2>2, CountsAssumption DEF Files
  <2>4. CASE g = f
    BY <1>2, <1>7, <2>4
  <2>5. CASE g < f
    BY <1>7, <1>8, <2>5 DEF Line, Confirmed, AtFiles, Files
  <2> QED
    BY <2>3, <2>4, <2>5 DEF Files
<1> HIDE DEF k1, sum
<1>9. Confirmed(s, r, Tail(q), p, t, k1)
  <2>1. \A g \in Files : k1[g] # None => k1[g] = t[g]
    BY <1>4, <1>7 DEF Line, Confirmed
  <2>2. ~(s.pc = "ok" \/ (s.pc = "ack" /\ p # <<>>))
    BY DEF Line, Confirmed
  <2> QED
    BY <1>6, <1>8, <2>1, <2>2 DEF Line, Confirmed
<1> QED
  BY <1>5, <1>9 DEF Line, k1, sum

\* The kept prefix is read back.
LEMMA Opens ==
    ASSUME NEW s, NEW h, NEW q, NEW p, NEW l, NEW t, NEW k, LineTypes(s, h, q, p, t, k),
           Line(s, h, q, p, l, t, k), h.pc = "open",
           NEW r \in HandlerState, r.off = h.off, r.idx = h.idx, r.pc = "drain"
    PROVE  Line(s, r, q, p, l, t, k)
<1>1. Place(r) = Place(h)
  BY DEF Place
<1>2. HandlerSide(s, r, q, p, l)
  BY <1>1 DEF Line, InStep, HandlerSide, AtFiles
<1>3. SenderSide(s, r, q, p, l)
  BY <1>1 DEF Line, InStep, SenderSide, AtFiles, Agreed, Answered
<1>4. Confirmed(s, r, q, p, t, k)
  BY DEF Line, Confirmed, AtFiles
<1> QED
  BY <1>2, <1>3, <1>4 DEF Line, InStep

\* handleConn answers the Hello.
LEMMA AnswersHello ==
    ASSUME NEW s, NEW h, NEW q, NEW p, NEW l, NEW t, NEW k, LineTypes(s, h, q, p, t, k),
           Line(s, h, q, p, l, t, k), h.pc = "hello", q # <<>>,
           NEW m \in ToSender, m.kind = "HelloAck",
           NEW r \in HandlerState, r.off = h.off, r.idx = h.idx,
           r.pc \in {"file", "query"}, r.pc = "file" <=> Candidates(m.have) = {}
    PROVE  Line(s, r, Tail(q), IF l = "up" THEN Append(p, m) ELSE p, l, t, k)
<1> DEFINE p1 == IF l = "up" THEN Append(p, m) ELSE p
<1>1. /\ p = <<>> /\ Single(q, "Hello") /\ h.idx = 1 /\ h.off = FromStart
      /\ s.pc \in {"hello", "failed"}
  BY DEF Line, InStep, HandlerSide
<1>2. Tail(q) = <<>>
  <2>1. q[1] \in ToReceiver
    BY <1>1, ElementOfSeq DEF Single, LineTypes
  <2> QED
    BY <1>1, <2>1, OneFrame DEF LineTypes
<1>3. s.pc = "failed" => l # "up"
  BY DEF Line, InStep, SenderSide
<1>4. IF l = "up" THEN Single(p1, "HelloAck") /\ Head(p1) = m ELSE p1 = <<>>
  BY <1>1, OneFrame DEF LineTypes
<1> HIDE DEF p1
<1>5. HandlerSide(s, r, Tail(q), p1, l)
  BY <1>1, <1>2, ChainEmpty DEF HandlerSide, AtFiles
<1>6. SenderSide(s, r, Tail(q), p1, l)
  <2>1. Agreed(r, m)
    BY <1>1 DEF Agreed
  <2>2. p1 # <<>> => l = "up"
    BY <1>4
  <2>3. l = "up" => p1 # <<>>
    BY <1>4, EmptySeq DEF Single
  <2> QED
    BY <1>1, <1>2, <1>3, <1>4, <2>1, <2>2, <2>3 DEF Line, InStep, SenderSide
<1>7. Confirmed(s, r, Tail(q), p1, t, k)
  <2>1. \A f \in Files : ~(f < h.idx)
    BY <1>1 DEF Files
  <2> QED
    BY <1>1, <1>2, <2>1 DEF Line, Confirmed
<1> QED
  BY <1>5, <1>6, <1>7 DEF Line, InStep, p1

\* handleConn answers the queries.
LEMMA AnswersQueries ==
    ASSUME NEW s, NEW h, NEW q, NEW p, NEW l, NEW t, NEW k, LineTypes(s, h, q, p, t, k),
           Line(s, h, q, p, l, t, k), h.pc = "query", q # <<>>,
           NEW m \in ToSender, m.kind = "ResumeAnswerBatch", m.answers \in [Files -> Offset],
           NEW r \in HandlerState, r.off = m.answers, r.idx = NextFile(m.answers, 1),
           r.pc = "file"
    PROVE  Line(s, r, Tail(q), IF l = "up" THEN Append(p, m) ELSE p, l, t, k)
<1> DEFINE p1 == IF l = "up" THEN Append(p, m) ELSE p
<1>1. /\ p = <<>> /\ Single(q, "ResumeQueryBatch")
      /\ s.pc \in {"query", "failed"}
  BY DEF Line, InStep, HandlerSide
<1>2. Tail(q) = <<>>
  <2>1. q[1] \in ToReceiver
    BY <1>1, ElementOfSeq DEF Single, LineTypes
  <2> QED
    BY <1>1, <2>1, OneFrame DEF LineTypes
<1>3. s.pc = "failed" => l # "up"
  BY DEF Line, InStep, SenderSide
<1>4. IF l = "up" THEN Single(p1, "ResumeAnswerBatch") /\ Head(p1) = m ELSE p1 = <<>>
  BY <1>1, OneFrame DEF LineTypes
<1> HIDE DEF p1
<1>5. HandlerSide(s, r, Tail(q), p1, l)
  BY <1>1, <1>2, ChainEmpty DEF HandlerSide, AtFiles
<1>6. SenderSide(s, r, Tail(q), p1, l)
  <2>1. Answered(r, m)
    BY <1>1 DEF Answered
  <2>2. p1 # <<>> <=> l = "up"
    BY <1>4, EmptySeq DEF Single
  <2> QED
    BY <1>1, <1>2, <1>3, <1>4, <2>1, <2>2 DEF Line, InStep, SenderSide
<1>7. Confirmed(s, r, Tail(q), p1, t, k)
  <2>1. \A f \in Files : f < r.idx => r.off[f] = Skip
    <3>1. \A j \in 1..(r.idx - 1) : r.off[j] = Skip
      BY NextFileType, CountsAssumption
    <3>2. r.idx \in Nat
      BY CountsAssumption DEF HandlerState
    <3> QED
      BY <3>1, <3>2 DEF Files
  <2> QED
    BY <1>1, <1>2, <2>1 DEF Line, Confirmed
<1> QED
  BY <1>5, <1>6, <1>7 DEF Line, InStep, p1

\* handleConn returns an error, or its process dies.
LEMMA GivesUp ==
    ASSUME NEW s, NEW h, NEW q, NEW p, NEW l, NEW t, NEW k, LineTypes(s, h, q, p, t, k),
           Line(s, h, q, p, l, t, k), h.pc \notin {"none", "acked", "failed"},
           NEW r \in HandlerState, r.pc = "failed"
    PROVE  Line(s, r, <<>>, p, "down", t, k)
<1>1. HandlerSide(s, r, <<>>, p, "down")
  BY DEF HandlerSide, AtFiles
<1>2. SenderSide(s, r, <<>>, p, "down")
  BY DEF Line, InStep, SenderSide, Agreed, Answered
<1>3. Confirmed(s, r, <<>>, p, t, k)
  BY DEF Line, Confirmed, AtFiles
<1> QED
  BY <1>1, <1>2, <1>3 DEF Line, InStep

\* handleConn confirms.
LEMMA Confirms ==
    ASSUME NEW s, NEW h, NEW q, NEW p, NEW l, NEW t, NEW k, LineTypes(s, h, q, p, t, k),
           Line(s, h, q, p, l, t, k), h.pc = "file", h.idx = NFiles + 1,
           q # <<>>, Head(q).kind = "Done",
           NEW m \in ToSender, m.kind = "DoneAck",
           NEW r \in HandlerState, r.off = h.off, r.idx = h.idx, r.pc = "acked"
    PROVE  Line(s, r, <<>>, IF l = "up" THEN Append(p, m) ELSE p, "down", t, k)
<1> DEFINE p1 == IF l = "up" THEN Append(p, m) ELSE p
<1>1. ~(s.pc = "ok" \/ (s.pc = "ack" /\ p # <<>>)) /\ s.pc # "idle"
  BY DEF Line, InStep, SenderSide, Confirmed
<1>2. s.pc \in {"hello", "query"} => p = <<>> /\ l # "up"
  BY DEF Line, InStep, SenderSide
<1>3. ASSUME l = "up" PROVE s.pc = "ack" /\ h.off = s.off /\ p = <<>>
  <2>1. s.pc \in {"file", "stream", "ack"}
    BY <1>1, <1>2, <1>3 DEF Line, InStep, SenderSide, LineTypes, SenderState
  <2>2. h.off = s.off /\ EndOf(h.off, Place(h), q) = Place(s)
    BY <1>3, <2>1 DEF Line, InStep, SenderSide
  <2>3. /\ EndOf(h.off, Over, Tail(q)) = Place(s)
        /\ Chain(h.off, Over, Tail(q))
    BY <2>2, ChainTail DEF Line, LineTypes, InStep, HandlerSide, AtFiles, After
  <2>4. Tail(q) = <<>>
    BY <2>3 DEF Chain, Fits, Over, Between, Within
  <2> QED
    BY <1>1, <2>1, <2>2, <2>3, <2>4 DEF EndOf, Place, Over, Between, Within
<1>4. p1 = <<>> \/ (Single(p1, "DoneAck") /\ s.pc = "ack" /\ h.off = s.off)
      \/ (p1 = p /\ s.pc \notin {"ack", "ok", "hello", "query"})
  BY <1>1, <1>2, <1>3, OneFrame DEF LineTypes
<1> HIDE DEF p1
<1>5. HandlerSide(s, r, <<>>, p1, "down")
  BY DEF HandlerSide, AtFiles
<1>6. SenderSide(s, r, <<>>, p1, "down")
  <2>1. s.pc # "ack" => p1 = p \/ p1 = <<>>
    BY <1>4
  <2> QED
    BY <1>1, <1>2, <1>4, <2>1 DEF Line, InStep, SenderSide
<1>7. Confirmed(s, r, <<>>, p1, t, k)
  BY <1>1, <1>4 DEF Line, Confirmed, AtFiles
<1> QED
  BY <1>5, <1>6, <1>7 DEF Line, InStep, p1

-----------------------------------------------------------------------------
(* The environment.                                                        *)

\* A cut leaves a frame that was alone, or nothing.
LEMMA CutOne ==
    ASSUME NEW S, NEW wire \in Seq(S), NEW n \in 0..Len(wire)
    PROVE  /\ Prefix(wire, n) = <<>> \/ wire # <<>>
           /\ \A kind : Single(wire, kind) => Prefix(wire, n) \in {<<>>, wire}
<1>1. n = 0 => Prefix(wire, n) = <<>>
  BY SubSeqEmpty DEF Prefix
<1>2. wire = <<>> => n = 0
  BY EmptySeq
<1>3. n = Len(wire) => Prefix(wire, n) = wire
  BY SubSeqFull DEF Prefix
<1>4. ASSUME NEW kind, Single(wire, kind) PROVE n = 0 \/ n = Len(wire)
  BY <1>4 DEF Single
<1> QED
  BY <1>1, <1>2, <1>3, <1>4

\* The connection breaks.
LEMMA Breaks ==
    ASSUME NEW s, NEW h, NEW q, NEW p, NEW l, NEW t, NEW k, LineTypes(s, h, q, p, t, k),
           Line(s, h, q, p, l, t, k), NEW n \in 0..Len(q), NEW o \in 0..Len(p)
    PROVE  Line(s, h, Prefix(q, n), Prefix(p, o), "down", t, k)
<1> DEFINE q1 == Prefix(q, n)
           p1 == Prefix(p, o)
<1>1. /\ q1 = <<>> \/ q # <<>>
      /\ p1 = <<>> \/ p # <<>>
      /\ \A kind : Single(q, kind) => q1 \in {<<>>, q}
      /\ \A kind : Single(p, kind) => p1 \in {<<>>, p}
  BY CutOne DEF LineTypes
<1>2. h.pc \in AtFiles => Chain(h.off, Place(h), q1)
  BY ChainPrefix DEF Line, LineTypes, InStep, HandlerSide
<1>3. \A i \in 1..Len(q1) : q1[i] = q[i] /\ i \in 1..Len(q)
  BY LenProperties, SubSeqProperties DEF Prefix, LineTypes
<1> HIDE DEF q1, p1
<1>4. HandlerSide(s, h, q1, p1, "down")
  BY <1>1, <1>2 DEF Line, InStep, HandlerSide
<1>5. SenderSide(s, h, q1, p1, "down")
  BY <1>1 DEF Line, InStep, SenderSide
<1>6. Confirmed(s, h, q1, p1, t, k)
  BY <1>1, <1>3 DEF Line, Confirmed
<1> QED
  BY <1>4, <1>5, <1>6 DEF Line, InStep, q1, p1

\* A sender learns that it is cancelled.
LEMMA Learns ==
    ASSUME NEW s, NEW h, NEW q, NEW p, NEW l, NEW t, NEW k, LineTypes(s, h, q, p, t, k),
           Line(s, h, q, p, l, t, k),
           NEW r \in SenderState, r.pc = s.pc, r.off = s.off, r.idx = s.idx
    PROVE  Line(r, h, q, p, l, t, k)
<1>1. Place(r) = Place(s)
  BY DEF Place
<1>2. HandlerSide(r, h, q, p, l)
  BY DEF Line, InStep, HandlerSide
<1>3. SenderSide(r, h, q, p, l)
  BY <1>1 DEF Line, InStep, SenderSide
<1>4. Confirmed(r, h, q, p, t, k)
  BY DEF Line, Confirmed
<1> QED
  BY <1>2, <1>3, <1>4 DEF Line, InStep

\* A connection is made.
LEMMA Connects ==
    ASSUME NEW s, NEW h, NEW q, NEW p, NEW l, NEW t, NEW k, LineTypes(s, h, q, p, t, k),
           Line(s, h, q, p, l, t, k), s.pc = "idle",
           NEW r \in SenderState, r.pc = "hello", r.off = s.off, r.idx = s.idx,
           NEW g \in HandlerState, g.pc = "hello", g.off = h.off, g.idx = h.idx
    PROVE  Line(r, g, <<Hello>>, p, "up", t, k)
<1>1. h.pc = "none" /\ p = <<>> /\ s.idx = 1 /\ s.off = FromStart
  BY DEF Line, InStep, SenderSide
<1>2. h.idx = 1 /\ h.off = FromStart
  BY <1>1 DEF Line, InStep, HandlerSide
<1>3. Single(<<Hello>>, "Hello") /\ <<Hello>>[1].kind = "Hello" /\ Len(<<Hello>>) = 1
  BY DEF Single, Hello
<1>4. HandlerSide(r, g, <<Hello>>, p, "up")
  BY <1>1, <1>2, <1>3 DEF HandlerSide, AtFiles
<1>5. SenderSide(r, g, <<Hello>>, p, "up")
  BY <1>1 DEF SenderSide
<1>6. Confirmed(r, g, <<Hello>>, p, t, k)
  BY <1>1, <1>3 DEF Line, Confirmed, AtFiles
<1> QED
  BY <1>4, <1>5, <1>6 DEF Line, InStep

-----------------------------------------------------------------------------
(* The actions.                                                            *)

\* A step of one connection leaves the others alone.
Elsewhere(c) ==
    \A d \in Conns \ {c} :
        /\ snd'[d] = snd[d] /\ rcv'[d] = rcv[d] /\ toR'[d] = toR[d] /\ toS'[d] = toS[d]
        /\ link'[d] = link[d] /\ told'[d] = told[d] /\ taken'[d] = taken[d]

LEMMA LineStep ==
    ASSUME Lines, NEW c \in Conns, Elsewhere(c), LineOf(c)'
    PROVE  Lines'
<1>1. ASSUME NEW d \in Conns, d # c PROVE LineOf(d)'
  BY <1>1 DEF Lines, LineOf, Elsewhere
<1> QED
  BY <1>1 DEF Lines

\* What holds of each connection.
LEMMA AtConn ==
    ASSUME TypeInv, Lines, NEW c \in Conns
    PROVE  /\ LineTypes(snd[c], rcv[c], toR[c], toS[c], told[c], taken[c])
           /\ Line(snd[c], rcv[c], toR[c], toS[c], link[c], told[c], taken[c])
           /\ SenderSound(snd[c]) /\ HandlerSound(rcv[c], dest)
BY DEF TypeInv, TypeOK, Lines, LineOf, LineTypes

\* A step that only changes what a sender is at.
LEMMA SenderMovesTo ==
    ASSUME TypeInv, NEW c \in Conns, NEW pc, snd' = [snd EXCEPT ![c].pc = pc]
    PROVE  /\ snd'[c].pc = pc /\ snd'[c].off = snd[c].off /\ snd'[c].idx = snd[c].idx
           /\ \A d \in Conns \ {c} : snd'[d] = snd[d]
<1>1. snd \in [Conns -> SenderState] /\ snd[c] \in SenderState
  BY DEF TypeInv, TypeOK
<1> QED
  BY <1>1 DEF SenderState

\* The same of a handler.
LEMMA HandlerMovesTo ==
    ASSUME TypeInv, NEW c \in Conns, NEW pc, rcv' = [rcv EXCEPT ![c].pc = pc]
    PROVE  /\ rcv'[c].pc = pc /\ rcv'[c].off = rcv[c].off /\ rcv'[c].idx = rcv[c].idx
           /\ \A d \in Conns \ {c} : rcv'[d] = rcv[d]
<1>1. rcv \in [Conns -> HandlerState] /\ rcv[c] \in HandlerState
  BY DEF TypeInv, TypeOK
<1> QED
  BY <1>1 DEF HandlerState

\* One frame written, to the receiver or to the sender.
LEMMA ToReceiverPut ==
    ASSUME TypeInv, NEW c \in Conns, NEW m \in ToReceiver,
           toR' = [toR EXCEPT ![c] = Put(c, toR, <<m>>)]
    PROVE  /\ toR'[c] = IF link[c] = "up" THEN Append(toR[c], m) ELSE toR[c]
           /\ \A d \in Conns \ {c} : toR'[d] = toR[d]
<1>1. toR \in [Conns -> Seq(ToReceiver)]
  BY DEF TypeInv, TypeOK
<1> QED
  BY <1>1, PutOne

LEMMA ToSenderPut ==
    ASSUME TypeInv, NEW c \in Conns, NEW m \in ToSender,
           toS' = [toS EXCEPT ![c] = Put(c, toS, <<m>>)]
    PROVE  /\ toS'[c] = IF link[c] = "up" THEN Append(toS[c], m) ELSE toS[c]
           /\ \A d \in Conns \ {c} : toS'[d] = toS[d]
<1>1. toS \in [Conns -> Seq(ToSender)]
  BY DEF TypeInv, TypeOK
<1> QED
  BY <1>1, PutOne

LEMMA SendLines ==
    ASSUME TypeInv, TypeInv', Lines, NEW c \in Conns, Send(c)
    PROVE  Lines'
<1> DEFINE size == [f \in Files |-> Len(src[f])]
           r == [snd[c] EXCEPT !.pc = "hello", !.size = size]
<1>1. /\ snd[c].pc = "idle"
      /\ snd' = [snd EXCEPT ![c] = r]
      /\ rcv' = [rcv EXCEPT ![c].pc = "hello"]
      /\ link' = [link EXCEPT ![c] = "up"]
      /\ toR' = [toR EXCEPT ![c] = <<Hello>>]
      /\ UNCHANGED <<toS, told, taken>>
  BY DEF Send
<1> HIDE DEF size
<1>2. r.pc = "hello" /\ r.off = snd[c].off /\ r.idx = snd[c].idx
  BY DEF TypeInv, TypeOK, SenderState
<1> HIDE DEF r
<1>3. /\ snd'[c] = r /\ link'[c] = "up" /\ toR'[c] = <<Hello>>
      /\ toS'[c] = toS[c] /\ told'[c] = told[c] /\ taken'[c] = taken[c]
      /\ Elsewhere(c)
  BY <1>1, HandlerMovesTo DEF TypeInv, TypeOK, Elsewhere
<1>4. snd'[c] \in SenderState /\ rcv'[c] \in HandlerState
  BY DEF TypeInv, TypeOK
<1>5. Line(snd'[c], rcv'[c], <<Hello>>, toS[c], "up", told[c], taken[c])
  <2>1. rcv'[c].pc = "hello" /\ rcv'[c].off = rcv[c].off /\ rcv'[c].idx = rcv[c].idx
    BY <1>1, HandlerMovesTo
  <2>2. snd'[c].pc = "hello" /\ snd'[c].off = snd[c].off /\ snd'[c].idx = snd[c].idx
    BY <1>2, <1>3
  <2>3. /\ LineTypes(snd[c], rcv[c], toR[c], toS[c], told[c], taken[c])
        /\ Line(snd[c], rcv[c], toR[c], toS[c], link[c], told[c], taken[c])
    BY AtConn
  <2> QED
    BY <1>1, <1>4, <2>1, <2>2, <2>3, Connects
<1> QED
  BY <1>3, <1>5, LineStep DEF LineOf

\* Send returns.
LEMMA SenderEndsLines ==
    ASSUME TypeInv, TypeInv', Lines, NEW c \in Conns, snd[c].pc # "idle",
           NEW how, how = "failed" \/ (how = "ok" /\ snd[c].pc = "ack" /\ toS[c] # <<>>),
           SenderEnds(c, how), UNCHANGED <<rcv, toR, told, taken>>
    PROVE  Lines'
<1>1. /\ snd'[c].pc = how /\ snd'[c].off = snd[c].off /\ snd'[c].idx = snd[c].idx
      /\ \A d \in Conns \ {c} : snd'[d] = snd[d]
  BY SenderMovesTo DEF SenderEnds
<1>2. link'[c] = "down" /\ toS'[c] = <<>> /\ Elsewhere(c)
  BY <1>1 DEF SenderEnds, TypeInv, TypeOK, Elsewhere
<1>3. snd'[c] \in SenderState
  BY DEF TypeInv, TypeOK
<1>4. Line(snd'[c], rcv[c], toR[c], <<>>, "down", told[c], taken[c])
  BY <1>1, <1>3, AtConn, Leaves
<1> QED
  BY <1>2, <1>4, LineStep DEF LineOf

LEMMA StartFreshLines ==
    ASSUME TypeInv, TypeInv', Lines, NEW c \in Conns, StartFresh(c)
    PROVE  Lines'
<1>1. /\ snd'[c].pc = "file" /\ snd'[c].off = snd[c].off /\ snd'[c].idx = snd[c].idx
      /\ \A d \in Conns \ {c} : snd'[d] = snd[d]
  BY SenderMovesTo DEF StartFresh
<1>2. toS'[c] = Tail(toS[c]) /\ Elsewhere(c) /\ UNCHANGED <<rcv, toR, link, told, taken>>
  BY <1>1 DEF StartFresh, TypeInv, TypeOK, Elsewhere, ghosts
<1>3. snd'[c] \in SenderState
  BY DEF TypeInv, TypeOK
<1>4. Line(snd'[c], rcv[c], toR[c], Tail(toS[c]), link[c], told[c], taken[c])
  BY <1>1, <1>3, AtConn, StartsFresh DEF StartFresh
<1> QED
  BY <1>2, <1>4, LineStep DEF LineOf

LEMMA SendQueriesLines ==
    ASSUME TypeInv, TypeInv', Lines, NEW c \in Conns, SendQueries(c)
    PROVE  Lines'
<1> DEFINE asked == Candidates(Head(toS[c]).have)
           batch == [f \in Files |->
               IF f \in asked THEN ResumeQuery(snd[c].size[f], src[f]) ELSE None]
           m == QueryBatch(batch)
<1>1. /\ snd[c].pc = "hello" /\ toS[c] # <<>> /\ asked # {}
      /\ toR' = [toR EXCEPT ![c] = Put(c, toR, <<m>>)]
  BY DEF SendQueries
<1>2. m \in ToReceiver /\ m.kind = "ResumeQueryBatch"
  <2>1. ASSUME NEW f \in asked, f \in Files
        PROVE  ResumeQuery(snd[c].size[f], src[f]) \in Query
    <3>1. src[f] \in File
      BY <2>1 DEF SendQueries, TypeInv, TypeOK, Present
    <3>2. snd[c].size[f] \in Nat
      BY <2>1 DEF TypeInv, TypeOK, SenderState
    <3> QED
      BY <3>1, <3>2, ResumeQueryType
  <2> HIDE DEF asked
  <2>2. batch \in [Files -> Query \cup {None}]
    BY <2>1
  <2> HIDE DEF batch
  <2> QED
    BY <2>2 DEF QueryBatch, ToReceiver
<1> HIDE DEF m
<1>3. /\ snd'[c].pc = "query" /\ snd'[c].off = snd[c].off /\ snd'[c].idx = snd[c].idx
      /\ \A d \in Conns \ {c} : snd'[d] = snd[d]
  BY SenderMovesTo DEF SendQueries
<1>4. /\ toR'[c] = IF link[c] = "up" THEN Append(toR[c], m) ELSE toR[c]
      /\ \A d \in Conns \ {c} : toR'[d] = toR[d]
  BY <1>1, <1>2, ToReceiverPut
<1>5. toS'[c] = Tail(toS[c]) /\ Elsewhere(c) /\ UNCHANGED <<rcv, link, told, taken>>
  BY <1>3, <1>4 DEF SendQueries, TypeInv, TypeOK, Elsewhere, ghosts
<1>6. snd'[c] \in SenderState
  BY DEF TypeInv, TypeOK
<1>7. Line(snd'[c], rcv[c], IF link[c] = "up" THEN Append(toR[c], m) ELSE toR[c],
           Tail(toS[c]), link[c], told[c], taken[c])
  BY <1>1, <1>2, <1>3, <1>6, AtConn, Asks
<1> QED
  BY <1>4, <1>5, <1>7, LineStep DEF LineOf

LEMMA RecvAnswersLines ==
    ASSUME TypeInv, TypeInv', Lines, NEW c \in Conns, RecvAnswers(c)
    PROVE  Lines'
<1> DEFINE answers == Head(toS[c]).answers
           next == NextFile(answers, 1)
           r == [snd[c] EXCEPT !.pc = "file", !.off = answers, !.idx = next]
<1>1. snd[c].pc = "query" /\ toS[c] # <<>> /\ snd' = [snd EXCEPT ![c] = r]
  BY DEF RecvAnswers
<1>2. toS'[c] = Tail(toS[c]) /\ UNCHANGED <<rcv, toR, link, told, taken>>
  BY DEF RecvAnswers, TypeInv, TypeOK, ghosts
<1> HIDE DEF next, answers
<1>3. r.pc = "file" /\ r.off = answers /\ r.idx = next
  BY DEF TypeInv, TypeOK, SenderState
<1> HIDE DEF r
<1>4. snd'[c] = r /\ Elsewhere(c) /\ r \in SenderState
  BY <1>1 DEF RecvAnswers, TypeInv, TypeOK, Elsewhere, ghosts
<1>5. Line(r, rcv[c], toR[c], Tail(toS[c]), link[c], told[c], taken[c])
  BY <1>1, <1>3, <1>4, AtConn, GoesByAnswers DEF answers, next
<1> QED
  BY <1>2, <1>4, <1>5, LineStep DEF LineOf

LEMMA SendFileStartLines ==
    ASSUME TypeInv, TypeInv', Lines, NEW c \in Conns, SendFileStart(c)
    PROVE  Lines'
<1> DEFINE s == snd[c]
           f == s.idx
           offset == s.off[f]
           digest == PrefixDigest(f, offset)
           r == [s EXCEPT !.pc = "stream", !.pos = offset, !.hash = digest]
           m == FileStart(f, offset)
<1>1. /\ s.pc = "file" /\ f \in Files
      /\ snd' = [snd EXCEPT ![c] = r]
      /\ toR' = [toR EXCEPT ![c] = Put(c, toR, <<m>>)]
      /\ UNCHANGED <<rcv, toS, link, told, taken>>
  BY DEF SendFileStart, ghosts
<1> HIDE DEF digest
<1>2. r.pc = "stream" /\ r.off = s.off /\ r.idx = f
  BY DEF TypeInv, TypeOK, SenderState
<1> HIDE DEF r
<1>3. m \in ToReceiver
  <2>1. offset \in Nat
    BY <1>1 DEF TypeInv, TypeOK, SenderSound, SenderState, Offset
  <2> QED
    BY <1>1, <2>1 DEF ToReceiver, FileStart
<1>4. /\ m.kind # "FileDone"
      /\ Fits(s.off, Place(s), m)
      /\ Place(r) = After(s.off, m)
  BY <1>1, <1>2 DEF FileStart, Fits, Place, After
<1> HIDE DEF m
<1>5. /\ toR'[c] = IF link[c] = "up" THEN Append(toR[c], m) ELSE toR[c]
      /\ \A d \in Conns \ {c} : toR'[d] = toR[d]
  BY <1>1, <1>3, ToReceiverPut
<1>6. snd'[c] = r /\ Elsewhere(c) /\ r \in SenderState
  BY <1>1, <1>5 DEF TypeInv, TypeOK, Elsewhere
<1>7. Line(r, rcv[c], IF link[c] = "up" THEN Append(toR[c], m) ELSE toR[c],
           toS[c], link[c], told[c], taken[c])
  BY <1>1, <1>2, <1>3, <1>4, <1>6, AtConn, SendsQuiet
<1> QED
  BY <1>1, <1>5, <1>6, <1>7, LineStep DEF LineOf

LEMMA StreamChunkLines ==
    ASSUME TypeInv, TypeInv', Lines, NEW c \in Conns, StreamChunk(c)
    PROVE  Lines'
<1> DEFINE s == snd[c]
           f == s.idx
           data == SubSeq(src[f], s.pos + 1, s.pos + ChunkSize)
           r == [s EXCEPT !.pos = s.pos + ChunkSize, !.hash = s.hash \o data]
           m == Data(f, data)
<1>1. /\ s.pc = "stream"
      /\ snd' = [snd EXCEPT ![c] = r]
      /\ toR' = [toR EXCEPT ![c] = Put(c, toR, <<m>>)]
      /\ UNCHANGED <<rcv, toS, link, told, taken>>
  BY DEF StreamChunk, ghosts
<1>2. f \in Files /\ data \in File
  <2>0. src \in [Files -> File \cup {None}] /\ s \in SenderState /\ SenderSound(s)
    BY DEF TypeInv, TypeOK
  <2>1. f \in Files /\ src[f] \in File /\ s.pos \in Nat
    BY <1>1, <2>0 DEF SenderSound, SenderState
  <2>2. s.pos + ChunkSize <= Len(src[f])
    BY <2>1, LenProperties, ChunkSizeAssumption DEF StreamChunk, Unread, File
  <2>3. s.pos + 1 \in Int /\ s.pos + ChunkSize \in Int
    BY <2>1, ChunkSizeAssumption
  <2>4. \A i \in (s.pos + 1)..(s.pos + ChunkSize) : src[f][i] \in Byte
    BY <2>1, <2>2, ChunkSizeAssumption, LenProperties, ElementOfSeq DEF File
  <2> QED
    BY <2>1, <2>3, <2>4, SubSeqProperties DEF File
<1> HIDE DEF data
<1>3. r.pc = "stream" /\ r.off = s.off /\ r.idx = f
  BY <1>1 DEF TypeInv, TypeOK, SenderState
<1> HIDE DEF r
<1>4. /\ m \in ToReceiver /\ m.kind # "FileDone"
      /\ Fits(s.off, Place(s), m)
      /\ Place(r) = After(s.off, m)
  BY <1>1, <1>2, <1>3 DEF Data, Fits, Place, After, ToReceiver
<1> HIDE DEF m
<1>5. /\ toR'[c] = IF link[c] = "up" THEN Append(toR[c], m) ELSE toR[c]
      /\ \A d \in Conns \ {c} : toR'[d] = toR[d]
  BY <1>1, <1>4, ToReceiverPut
<1>6. snd'[c] = r /\ Elsewhere(c) /\ r \in SenderState
  BY <1>1, <1>5 DEF TypeInv, TypeOK, Elsewhere
<1>7. Line(r, rcv[c], IF link[c] = "up" THEN Append(toR[c], m) ELSE toR[c],
           toS[c], link[c], told[c], taken[c])
  BY <1>1, <1>3, <1>4, <1>6, AtConn, SendsQuiet
<1> QED
  BY <1>1, <1>5, <1>6, <1>7, LineStep DEF LineOf

\* The last bytes of a file, if there are any, and its digest.
\* The frames at the end of a file: its last data, if there are any, and one more.
LEMMA LastFrames ==
    ASSUME TypeInv, NEW c \in Conns, NEW data \in ToReceiver, NEW m \in ToReceiver,
           NEW frames \in {<<>>, <<data>>}
    PROVE  LET q1 == IF link[c] = "up" /\ frames # <<>> THEN Append(toR[c], data) ELSE toR[c]
           IN  /\ q1 \in Seq(ToReceiver)
               /\ Put(c, toR, Append(frames, m)) = IF link[c] = "up" THEN Append(q1, m) ELSE q1
<1> DEFINE q == toR[c]
           q1 == IF link[c] = "up" /\ frames # <<>> THEN Append(q, data) ELSE q
<1>1. q \in Seq(ToReceiver) /\ frames \in Seq(ToReceiver)
  <2>1. <<data>> \in Seq(ToReceiver) /\ <<>> \in Seq(ToReceiver)
    OBVIOUS
  <2> QED
    BY <2>1 DEF TypeInv, TypeOK
<1>2. /\ q \o <<>> = q
      /\ q \o <<data>> = Append(q, data) /\ Append(q, data) \in Seq(ToReceiver)
  BY <1>1, ConcatEmptySeq, AppendIsConcat, AppendProperties
<1>3. link[c] = "up" => q1 = q \o frames
  BY <1>2
<1>4. q \o Append(frames, m) = Append(q \o frames, m)
  <2>1. \A u, v \in Seq(ToReceiver), n \in ToReceiver : u \o Append(v, n) = Append(u \o v, n)
    BY AppendLater
  <2> QED
    BY <1>1, <2>1, Zenon
<1>5. q1 \in Seq(ToReceiver)
  BY <1>1, <1>2
<1>6. Put(c, toR, Append(frames, m)) = IF link[c] = "up" THEN Append(q1, m) ELSE q1
  <2>1. CASE link[c] = "up"
    <3> HIDE DEF q1
    <3> QED
      BY <1>3, <1>4, <2>1, Zenon DEF Put
  <2>2. CASE link[c] # "up"
    BY <2>2 DEF Put
  <2> QED
    BY <2>1, <2>2
<1> QED
  BY <1>5, <1>6

LEMMA StreamEndLines ==
    ASSUME TypeInv, TypeInv', Lines, NEW c \in Conns, StreamEnd(c)
    PROVE  Lines'
<1> DEFINE s == snd[c]
           f == s.idx
           l == link[c]
           rest == SubSeq(src[f], s.pos + 1, Len(src[f]))
           sum == s.hash \o rest
           frames == IF rest = <<>> THEN <<>> ELSE <<Data(f, rest)>>
           next == NextFile(s.off, f + 1)
           r == [s EXCEPT !.pc = "file", !.idx = next]
           q1 == IF l = "up" /\ frames # <<>> THEN Append(toR[c], Data(f, rest)) ELSE toR[c]
           m == FileDone(f, sum)
<1>1. /\ s.pc = "stream" /\ f \in Files /\ src[f] \in File
      /\ s \in SenderState /\ s.pos \in Nat /\ s.hash \in File
      /\ toR[c] \in Seq(ToReceiver)
  <2>1. /\ src \in [Files -> File \cup {None}] /\ s \in SenderState /\ SenderSound(s)
        /\ toR[c] \in Seq(ToReceiver)
    BY DEF TypeInv, TypeOK
  <2>2. s.pc = "stream"
    BY DEF StreamEnd
  <2> QED
    BY <2>1, <2>2 DEF SenderSound, SenderState
<1>2. /\ snd' = [snd EXCEPT ![c] = r]
      /\ toR' = [toR EXCEPT ![c] = Put(c, toR, Append(frames, m))]
      /\ told' = [told EXCEPT ![c][f] = sum]
      /\ UNCHANGED <<rcv, toS, link, taken>>
  BY DEF StreamEnd
<1>3. rest \in File /\ sum \in File
  <2>1. Len(src[f]) \in Int /\ s.pos + 1 \in Int
    BY <1>1, LenProperties DEF File
  <2>2. \A i \in (s.pos + 1)..Len(src[f]) : src[f][i] \in Byte
    BY <1>1, LenProperties, ElementOfSeq DEF File
  <2>3. rest \in File
    BY <2>1, <2>2, SubSeqProperties DEF File
  <2> QED
    BY <1>1, <2>3, ConcatProperties DEF File
<1> HIDE DEF rest, sum, next
<1>4. /\ m \in ToReceiver /\ m.kind = "FileDone" /\ m.file = f /\ m.sum = sum
      /\ Data(f, rest) \in ToReceiver /\ Data(f, rest).kind # "FileDone"
      /\ Fits(s.off, Place(s), Data(f, rest)) /\ Place(s) = After(s.off, Data(f, rest))
  BY <1>1, <1>3 DEF Data, FileDone, ToReceiver, Fits, Place, After
<1> HIDE DEF m
<1>5. /\ q1 = toR[c] \/ q1 = IF l = "up" THEN Append(toR[c], Data(f, rest)) ELSE toR[c]
      /\ q1 \in Seq(ToReceiver)
      /\ Put(c, toR, Append(frames, m)) = IF l = "up" THEN Append(q1, m) ELSE q1
  <2>1. frames \in {<<>>, <<Data(f, rest)>>}
    OBVIOUS
  <2> HIDE DEF frames
  <2> QED
    BY <1>4, <2>1, LastFrames
<1> HIDE DEF q1, frames
<1>6. LineTypes(s, rcv[c], q1, toS[c], told[c], taken[c])
  BY <1>5, AtConn DEF LineTypes
<1>7. Line(s, rcv[c], q1, toS[c], l, told[c], taken[c])
  <2>1. Line(s, rcv[c], IF l = "up" THEN Append(toR[c], Data(f, rest)) ELSE toR[c],
             toS[c], l, told[c], taken[c])
    BY <1>1, <1>4, AtConn, SendsQuiet
  <2>2. Line(s, rcv[c], toR[c], toS[c], l, told[c], taken[c])
    BY AtConn
  <2> QED
    BY <1>5, <2>1, <2>2
<1>8. r.pc = "file" /\ r.off = s.off /\ r.idx = next
  BY <1>1 DEF SenderState
<1> HIDE DEF r
<1>9. /\ snd'[c] = r /\ r \in SenderState
      /\ toR'[c] = IF l = "up" THEN Append(q1, m) ELSE q1
      /\ told'[c] = [told[c] EXCEPT ![f] = sum]
      /\ Elsewhere(c)
  <2>1. Put(c, toR, Append(frames, m)) = IF l = "up" THEN Append(q1, m) ELSE q1
    BY <1>5
  <2> QED
    BY <1>2, <2>1 DEF TypeInv, TypeOK, Elsewhere
<1>10. Line(r, rcv[c], IF l = "up" THEN Append(q1, m) ELSE q1, toS[c], l,
            [told[c] EXCEPT ![f] = sum], taken[c])
  BY <1>1, <1>4, <1>6, <1>7, <1>8, <1>9, SendsDigest DEF next
<1> QED
  BY <1>2, <1>9, <1>10, LineStep DEF LineOf

LEMMA SendDoneLines ==
    ASSUME TypeInv, TypeInv', Lines, NEW c \in Conns, SendDone(c)
    PROVE  Lines'
<1>1. /\ snd'[c].pc = "ack" /\ snd'[c].off = snd[c].off /\ snd'[c].idx = snd[c].idx
      /\ \A d \in Conns \ {c} : snd'[d] = snd[d]
  BY SenderMovesTo DEF SendDone
<1>2. snd[c].pc = "file" /\ snd[c].idx = NFiles + 1
  BY DEF SendDone, AllSent
<1>3. /\ Done \in ToReceiver /\ Done.kind # "FileDone"
      /\ Fits(snd[c].off, Place(snd[c]), Done)
      /\ Place(snd'[c]) = After(snd[c].off, Done)
  BY <1>1, <1>2 DEF Done, ToReceiver, Fits, Place, After
<1>4. /\ toR'[c] = IF link[c] = "up" THEN Append(toR[c], Done) ELSE toR[c]
      /\ \A d \in Conns \ {c} : toR'[d] = toR[d]
  BY <1>3, ToReceiverPut DEF SendDone
<1>5. Elsewhere(c) /\ snd'[c] \in SenderState /\ UNCHANGED <<rcv, toS, link, told, taken>>
  BY <1>1, <1>4 DEF SendDone, TypeInv, TypeOK, Elsewhere, ghosts
<1>6. Line(snd'[c], rcv[c], IF link[c] = "up" THEN Append(toR[c], Done) ELSE toR[c],
           toS[c], link[c], told[c], taken[c])
  BY <1>1, <1>2, <1>3, <1>5, AtConn, SendsQuiet
<1> QED
  BY <1>4, <1>5, <1>6, LineStep DEF LineOf

\* Every step of a sender.
LEMMA SenderStepLines ==
    ASSUME TypeInv, TypeInv', Lines, NEW c \in Conns, SenderStep(c)
    PROVE  Lines'
<1>1. CASE StartFresh(c)
  BY <1>1, StartFreshLines
<1>2. CASE SendQueries(c)
  BY <1>2, SendQueriesLines
<1>3. CASE RecvAnswers(c)
  BY <1>3, RecvAnswersLines
<1>4. CASE SendFileStart(c)
  BY <1>4, SendFileStartLines
<1>5. CASE StreamChunk(c)
  BY <1>5, StreamChunkLines
<1>6. CASE StreamEnd(c)
  BY <1>6, StreamEndLines
<1>7. CASE SendDone(c)
  BY <1>7, SendDoneLines
<1>8. CASE SourceFails(c) \/ CancelSeen(c) \/ SenderIOError(c)
  <2>1. /\ snd[c].pc # "idle" /\ SenderEnds(c, "failed")
        /\ UNCHANGED <<rcv, toR, told, taken>>
    BY <1>8 DEF SourceFails, CancelSeen, SenderIOError, Senders, ghosts
  <2> QED
    BY <2>1, SenderEndsLines
<1>9. CASE RecvDoneAck(c)
  <2>1. /\ snd[c].pc = "ack" /\ toS[c] # <<>> /\ SenderEnds(c, "ok")
        /\ UNCHANGED <<rcv, toR, told, taken>>
    BY <1>9 DEF RecvDoneAck, ghosts
  <2> QED
    BY <2>1, SenderEndsLines
<1> QED
  BY <1>1, <1>2, <1>3, <1>4, <1>5, <1>6, <1>7, <1>8, <1>9 DEF SenderStep

LEMMA RecvHelloLines ==
    ASSUME TypeInv, TypeInv', Lines, NEW c \in Conns, RecvHello(c)
    PROVE  Lines'
<1> DEFINE have == [f \in Files |-> IF dest[f] = None THEN 0 ELSE Len(dest[f])]
           pc == IF \E f \in Files : have[f] > 0 THEN "query" ELSE "file"
           m == HelloAck(have)
<1>1. /\ rcv[c].pc = "hello" /\ toR[c] # <<>>
      /\ rcv' = [rcv EXCEPT ![c].pc = pc]
      /\ toR' = [toR EXCEPT ![c] = Tail(toR[c])]
      /\ toS' = [toS EXCEPT ![c] = Put(c, toS, <<m>>)]
      /\ UNCHANGED <<snd, link, told, taken>>
  BY DEF RecvHello, Incoming, ghosts
<1>2. have \in [Files -> Nat]
  <2>1. dest \in [Files -> File \cup {None}]
    BY DEF TypeInv, TypeOK
  <2> QED
    BY <2>1, LenProperties DEF File
<1> HIDE DEF have
<1>3. /\ m \in ToSender /\ m.kind = "HelloAck"
      /\ pc = IF Candidates(m.have) = {} THEN "file" ELSE "query"
  BY <1>2 DEF HelloAck, ToSender, Candidates
<1> HIDE DEF m, pc
<1>4. /\ rcv'[c].pc = pc /\ rcv'[c].off = rcv[c].off /\ rcv'[c].idx = rcv[c].idx
      /\ \A d \in Conns \ {c} : rcv'[d] = rcv[d]
  BY <1>1, HandlerMovesTo
<1>5. /\ toS'[c] = IF link[c] = "up" THEN Append(toS[c], m) ELSE toS[c]
      /\ \A d \in Conns \ {c} : toS'[d] = toS[d]
  BY <1>1, <1>3, ToSenderPut
<1>6. toR'[c] = Tail(toR[c]) /\ Elsewhere(c) /\ rcv'[c] \in HandlerState
  BY <1>1, <1>4, <1>5 DEF TypeInv, TypeOK, Elsewhere
<1>7. Line(snd[c], rcv'[c], Tail(toR[c]),
           IF link[c] = "up" THEN Append(toS[c], m) ELSE toS[c],
           link[c], told[c], taken[c])
  <2>1. /\ LineTypes(snd[c], rcv[c], toR[c], toS[c], told[c], taken[c])
        /\ Line(snd[c], rcv[c], toR[c], toS[c], link[c], told[c], taken[c])
    BY AtConn
  <2>2. /\ rcv'[c].pc \in {"file", "query"}
        /\ rcv'[c].pc = "file" <=> Candidates(m.have) = {}
    BY <1>3, <1>4
  <2> QED
    <3>1. ASSUME NEW r \in HandlerState, r = rcv'[c]
          PROVE  Line(snd[c], r, Tail(toR[c]),
                      IF link[c] = "up" THEN Append(toS[c], m) ELSE toS[c],
                      link[c], told[c], taken[c])
      <4>1. r.off = rcv[c].off /\ r.idx = rcv[c].idx
        BY <1>4, <3>1
      <4>2. r.pc \in {"file", "query"} /\ (r.pc = "file" <=> Candidates(m.have) = {})
        BY <2>2, <3>1
      <4>3. m \in ToSender /\ m.kind = "HelloAck" /\ rcv[c].pc = "hello" /\ toR[c] # <<>>
        BY <1>1, <1>3
      <4> QED
        BY <2>1, <4>1, <4>2, <4>3, AnswersHello
    <3> QED
      BY <1>6, <3>1
<1> QED
  BY <1>1, <1>5, <1>6, <1>7, LineStep DEF LineOf

LEMMA RecvQueriesLines ==
    ASSUME TypeInv, TypeInv', Lines, NEW c \in Conns, RecvQueries(c)
    PROVE  Lines'
<1> DEFINE queries == Head(toR[c]).queries
           answers == [f \in Files |->
               IF queries[f] = None THEN 0
               ELSE Resolved(matchResume(dest[f], queries[f]))]
           next == NextFile(answers, 1)
           r == [rcv[c] EXCEPT !.pc = "file", !.off = answers, !.idx = next]
           m == AnswerBatch(answers)
<1>1. /\ rcv[c].pc = "query" /\ toR[c] # <<>>
      /\ rcv' = [rcv EXCEPT ![c] = r]
      /\ toR' = [toR EXCEPT ![c] = Tail(toR[c])]
      /\ toS' = [toS EXCEPT ![c] = Put(c, toS, <<m>>)]
      /\ UNCHANGED <<snd, link, told, taken>>
  BY DEF RecvQueries, Incoming, ghosts
<1> HIDE DEF answers, next
<1>2. r.pc = "file" /\ r.off = answers /\ r.idx = next
  BY DEF TypeInv, TypeOK, HandlerState
<1> HIDE DEF r
<1>3. rcv'[c] = r /\ r \in HandlerState
  BY <1>1 DEF TypeInv, TypeOK
<1>4. answers \in [Files -> Offset]
  BY <1>2, <1>3 DEF HandlerState
<1>5. /\ m \in ToSender /\ m.kind = "ResumeAnswerBatch" /\ m.answers = answers
  BY <1>4 DEF AnswerBatch, ToSender
<1> HIDE DEF m
<1>6. /\ toS'[c] = IF link[c] = "up" THEN Append(toS[c], m) ELSE toS[c]
      /\ \A d \in Conns \ {c} : toS'[d] = toS[d]
  BY <1>1, <1>5, ToSenderPut
<1>7. toR'[c] = Tail(toR[c]) /\ Elsewhere(c)
  BY <1>1, <1>6 DEF TypeInv, TypeOK, Elsewhere
<1>8. Line(snd[c], r, Tail(toR[c]),
           IF link[c] = "up" THEN Append(toS[c], m) ELSE toS[c],
           link[c], told[c], taken[c])
  BY <1>1, <1>2, <1>3, <1>4, <1>5, AtConn, AnswersQueries DEF next
<1> QED
  BY <1>1, <1>3, <1>6, <1>7, <1>8, LineStep DEF LineOf

\* What the frame at the head of a wire is about.
LEMMA HeadFits ==
    ASSUME TypeInv, Lines, NEW c \in Conns, rcv[c].pc \in AtFiles, toR[c] # <<>>
    PROVE  Fits(rcv[c].off, Place(rcv[c]), Head(toR[c]))
<1>1. Chain(rcv[c].off, Place(rcv[c]), toR[c])
  BY AtConn DEF Line, InStep, HandlerSide
<1> QED
  BY <1>1, AtConn, ChainTail DEF LineTypes

LEMMA RecvFileStartLines ==
    ASSUME TypeInv, TypeInv', Lines, NEW c \in Conns, RecvFileStart(c)
    PROVE  Lines'
<1>1. /\ rcv[c].pc = "file" /\ toR[c] # <<>> /\ Head(toR[c]).kind = "FileStart"
      /\ rcv' = [rcv EXCEPT ![c].pc = "open"]
      /\ toR' = [toR EXCEPT ![c] = Tail(toR[c])]
      /\ UNCHANGED <<snd, toS, link, told, taken>>
  BY DEF RecvFileStart, Incoming
<1>2. /\ rcv'[c].pc = "open" /\ rcv'[c].off = rcv[c].off /\ rcv'[c].idx = rcv[c].idx
      /\ \A d \in Conns \ {c} : rcv'[d] = rcv[d]
  BY <1>1, HandlerMovesTo
<1>3. Place(rcv'[c]) = After(rcv[c].off, Head(toR[c]))
  BY <1>1, <1>2, HeadFits DEF Fits, Place, After, AtFiles, Between, Within
<1>4. toR'[c] = Tail(toR[c]) /\ Elsewhere(c) /\ rcv'[c] \in HandlerState
  BY <1>1, <1>2 DEF TypeInv, TypeOK, Elsewhere
<1>5. Line(snd[c], rcv'[c], Tail(toR[c]), toS[c], link[c], told[c], taken[c])
  BY <1>1, <1>2, <1>3, <1>4, AtConn, TakesNoDigest DEF AtFiles
<1> QED
  BY <1>1, <1>4, <1>5, LineStep DEF LineOf

LEMMA HashPrefixLines ==
    ASSUME TypeInv, TypeInv', Lines, NEW c \in Conns, HashPrefix(c)
    PROVE  Lines'
<1> DEFINE h == rcv[c]
           offset == h.off[h.idx]
           digest == Prefix(dest[h.idx], offset)
           r == [h EXCEPT !.pc = "drain", !.pos = offset, !.hash = digest]
<1>1. /\ h.pc = "open" /\ rcv' = [rcv EXCEPT ![c] = r]
      /\ UNCHANGED <<snd, toR, toS, link, told, taken>>
  BY DEF HashPrefix, wires, ghosts
<1> HIDE DEF digest, offset
<1>2. r.pc = "drain" /\ r.off = h.off /\ r.idx = h.idx
  BY DEF TypeInv, TypeOK, HandlerState
<1> HIDE DEF r
<1>3. rcv'[c] = r /\ r \in HandlerState /\ Elsewhere(c)
  BY <1>1 DEF TypeInv, TypeOK, Elsewhere
<1>4. Line(snd[c], r, toR[c], toS[c], link[c], told[c], taken[c])
  BY <1>1, <1>2, <1>3, AtConn, Opens
<1> QED
  BY <1>1, <1>3, <1>4, LineStep DEF LineOf

LEMMA RecvDataLines ==
    ASSUME TypeInv, TypeInv', Lines, NEW c \in Conns, RecvData(c)
    PROVE  Lines'
<1> DEFINE h == rcv[c]
           payload == Head(toR[c]).payload
           pos == h.pos + Len(payload)
           digest == h.hash \o payload
           r == [h EXCEPT !.pos = pos, !.hash = digest]
<1>1. /\ h.pc = "drain" /\ toR[c] # <<>> /\ Head(toR[c]).kind = "Data"
      /\ rcv' = [rcv EXCEPT ![c] = r]
      /\ toR' = [toR EXCEPT ![c] = Tail(toR[c])]
      /\ UNCHANGED <<snd, toS, link, told, taken>>
  BY DEF RecvData, Incoming, ghosts
<1> HIDE DEF pos, digest
<1>2. r.pc = "drain" /\ r.off = h.off /\ r.idx = h.idx
  BY <1>1 DEF TypeInv, TypeOK, HandlerState
<1> HIDE DEF r
<1>3. Place(r) = After(h.off, Head(toR[c]))
  BY <1>1, <1>2, HeadFits DEF Fits, Place, After, AtFiles, Between, Within
<1>4. rcv'[c] = r /\ r \in HandlerState /\ toR'[c] = Tail(toR[c]) /\ Elsewhere(c)
  BY <1>1 DEF TypeInv, TypeOK, Elsewhere
<1>5. Line(snd[c], r, Tail(toR[c]), toS[c], link[c], told[c], taken[c])
  BY <1>1, <1>2, <1>3, <1>4, AtConn, TakesNoDigest DEF AtFiles
<1> QED
  BY <1>1, <1>4, <1>5, LineStep DEF LineOf

LEMMA RecvFileDoneLines ==
    ASSUME TypeInv, TypeInv', Lines, NEW c \in Conns, RecvFileDone(c)
    PROVE  Lines'
<1> DEFINE h == rcv[c]
           sum == Head(toR[c]).sum
           next == NextFile(h.off, h.idx + 1)
           r == [h EXCEPT !.pc = "file", !.idx = next]
<1>1. /\ h.pc = "drain" /\ toR[c] # <<>> /\ Head(toR[c]).kind = "FileDone"
      /\ rcv' = [rcv EXCEPT ![c] = r]
      /\ taken' = [taken EXCEPT ![c][h.idx] = sum]
      /\ toR' = [toR EXCEPT ![c] = Tail(toR[c])]
      /\ UNCHANGED <<snd, toS, link, told>>
  BY DEF RecvFileDone, Incoming
<1>2. h.idx \in Files
  BY <1>1, AtConn DEF HandlerSound
<1> HIDE DEF next, sum
<1>3. r.pc = "file" /\ r.off = h.off /\ r.idx = next
  BY <1>1 DEF TypeInv, TypeOK, HandlerState
<1> HIDE DEF r
<1>4. /\ rcv'[c] = r /\ r \in HandlerState /\ toR'[c] = Tail(toR[c])
      /\ taken'[c] = [taken[c] EXCEPT ![h.idx] = sum]
      /\ Elsewhere(c)
  BY <1>1 DEF TypeInv, TypeOK, Elsewhere
<1>5. Line(snd[c], r, Tail(toR[c]), toS[c], link[c], told[c],
           [taken[c] EXCEPT ![h.idx] = sum])
  BY <1>1, <1>2, <1>3, <1>4, AtConn, TakesDigest DEF next, sum
<1> QED
  BY <1>1, <1>4, <1>5, LineStep DEF LineOf

\* handleConn ends with an error, or with its process.
LEMMA HandlerFailsLines ==
    ASSUME TypeInv, TypeInv', Lines, NEW c \in Handlers, HandlerEnds(c, "failed"),
           UNCHANGED <<snd, toS, told, taken>>
    PROVE  Lines'
<1>0. c \in Conns /\ rcv[c].pc \notin {"none", "acked", "failed"}
  BY DEF Handlers
<1>1. /\ rcv'[c].pc = "failed"
      /\ \A d \in Conns \ {c} : rcv'[d] = rcv[d]
  BY <1>0, HandlerMovesTo DEF HandlerEnds
<1>2. link'[c] = "down" /\ toR'[c] = <<>> /\ Elsewhere(c) /\ rcv'[c] \in HandlerState
  BY <1>0, <1>1 DEF HandlerEnds, TypeInv, TypeOK, Elsewhere
<1>3. Line(snd[c], rcv'[c], <<>>, toS[c], "down", told[c], taken[c])
  BY <1>0, <1>1, <1>2, AtConn, GivesUp
<1> QED
  BY <1>0, <1>2, <1>3, LineStep DEF LineOf

LEMMA RecvDoneLines ==
    ASSUME TypeInv, TypeInv', Lines, NEW c \in Conns, RecvDone(c)
    PROVE  Lines'
<1>1. /\ rcv[c].pc = "file" /\ rcv[c].idx = NFiles + 1
      /\ toR[c] # <<>> /\ Head(toR[c]).kind = "Done"
      /\ toS' = [toS EXCEPT ![c] = Put(c, toS, <<DoneAck>>)]
      /\ HandlerEnds(c, "acked")
      /\ UNCHANGED <<snd, told, taken>>
  BY DEF RecvDone, Incoming, ghosts
<1>2. DoneAck \in ToSender /\ DoneAck.kind = "DoneAck"
  BY DEF DoneAck, ToSender
<1>3. /\ rcv'[c].pc = "acked" /\ rcv'[c].off = rcv[c].off /\ rcv'[c].idx = rcv[c].idx
      /\ \A d \in Conns \ {c} : rcv'[d] = rcv[d]
  BY <1>1, HandlerMovesTo DEF HandlerEnds
<1>4. /\ toS'[c] = IF link[c] = "up" THEN Append(toS[c], DoneAck) ELSE toS[c]
      /\ \A d \in Conns \ {c} : toS'[d] = toS[d]
  BY <1>1, <1>2, ToSenderPut
<1>5. link'[c] = "down" /\ toR'[c] = <<>> /\ Elsewhere(c) /\ rcv'[c] \in HandlerState
  BY <1>1, <1>3, <1>4 DEF HandlerEnds, TypeInv, TypeOK, Elsewhere
<1>6. Line(snd[c], rcv'[c], <<>>,
           IF link[c] = "up" THEN Append(toS[c], DoneAck) ELSE toS[c],
           "down", told[c], taken[c])
  BY <1>1, <1>2, <1>3, <1>5, AtConn, Confirms
<1> QED
  BY <1>1, <1>4, <1>5, <1>6, LineStep DEF LineOf

\* Every step of a handler.
LEMMA HandlerStepLines ==
    ASSUME TypeInv, TypeInv', Lines, NEW c \in Conns, HandlerStep(c)
    PROVE  Lines'
<1>1. CASE RecvHello(c)
  BY <1>1, RecvHelloLines
<1>2. CASE RecvQueries(c)
  BY <1>2, RecvQueriesLines
<1>3. CASE RecvFileStart(c)
  BY <1>3, RecvFileStartLines
<1>4. CASE HashPrefix(c)
  BY <1>4, HashPrefixLines
<1>5. CASE RecvData(c)
  BY <1>5, RecvDataLines
<1>6. CASE RecvFileDone(c)
  BY <1>6, RecvFileDoneLines
<1>7. CASE RecvDone(c)
  BY <1>7, RecvDoneLines
<1>8. CASE PrefixGone(c) \/ ChecksumMismatch(c) \/ HandlerEOF(c)
  <2>1. HandlerEnds(c, "failed") /\ UNCHANGED <<snd, toS, told, taken>>
    BY <1>8 DEF PrefixGone, ChecksumMismatch, HandlerEOF, ghosts
  <2>2. c \in Handlers
    BY HandlerStepLive
  <2> QED
    BY <2>1, <2>2, HandlerFailsLines
<1> QED
  BY <1>1, <1>2, <1>3, <1>4, <1>5, <1>6, <1>7, <1>8 DEF HandlerStep

LEMMA LinkFailsLines ==
    ASSUME TypeInv, TypeInv', Lines, NEW c \in Conns, LinkFails(c)
    PROVE  Lines'
<1>1. PICK n \in 0..Len(toR[c]), o \in 0..Len(toS[c]) :
        /\ toR' = [toR EXCEPT ![c] = Prefix(@, n)]
        /\ toS' = [toS EXCEPT ![c] = Prefix(@, o)]
  BY DEF LinkFails
<1>2. link' = [link EXCEPT ![c] = "down"] /\ UNCHANGED <<snd, rcv, told, taken>>
  BY DEF LinkFails, ghosts
<1>3. /\ toR'[c] = Prefix(toR[c], n) /\ toS'[c] = Prefix(toS[c], o) /\ link'[c] = "down"
      /\ Elsewhere(c)
  BY <1>1, <1>2 DEF TypeInv, TypeOK, Elsewhere
<1>4. Line(snd[c], rcv[c], Prefix(toR[c], n), Prefix(toS[c], o), "down", told[c], taken[c])
  BY <1>1, AtConn, Breaks
<1> QED
  BY <1>2, <1>3, <1>4, LineStep DEF LineOf

LEMMA CancelLines ==
    ASSUME TypeInv, TypeInv', Lines, NEW c \in Conns, Cancel(c)
    PROVE  Lines'
<1> DEFINE r == [snd[c] EXCEPT !.cancelled = TRUE]
<1>1. /\ snd' = [snd EXCEPT ![c] = r]
      /\ UNCHANGED <<rcv, toR, toS, link, told, taken>>
  BY DEF Cancel, wires, ghosts, TypeInv, TypeOK
<1>2. r.pc = snd[c].pc /\ r.off = snd[c].off /\ r.idx = snd[c].idx
  BY DEF TypeInv, TypeOK, SenderState
<1> HIDE DEF r
<1>3. snd'[c] = r /\ r \in SenderState /\ Elsewhere(c)
  BY <1>1 DEF TypeInv, TypeOK, Elsewhere
<1>4. Line(r, rcv[c], toR[c], toS[c], link[c], told[c], taken[c])
  BY <1>2, <1>3, AtConn, Learns
<1> QED
  BY <1>1, <1>3, <1>4, LineStep DEF LineOf

LEMMA NextLines == TypeInv /\ Lines /\ [Next]_vars => Lines'
<1> SUFFICES ASSUME TypeInv, Lines, [Next]_vars PROVE Lines'
  OBVIOUS
<1>1. TypeInv'
  BY NextTypeInv
<1>2. ASSUME NEW c \in Conns, Send(c) PROVE Lines'
  BY <1>1, <1>2, SendLines
<1>3. ASSUME NEW c \in Conns, SenderStep(c) PROVE Lines'
  BY <1>1, <1>3, SenderStepLines
<1>4. ASSUME NEW c \in Conns, HandlerStep(c) PROVE Lines'
  BY <1>1, <1>4, HandlerStepLines
<1>5. ASSUME NEW c \in Conns, LinkFails(c) PROVE Lines'
  BY <1>1, <1>5, LinkFailsLines
<1>6. ASSUME NEW c \in Conns, HandlerDies(c) PROVE Lines'
  <2>1. c \in Handlers /\ HandlerEnds(c, "failed") /\ UNCHANGED <<snd, toS, told, taken>>
    BY <1>6 DEF HandlerDies, ghosts
  <2> QED
    BY <1>1, <2>1, HandlerFailsLines
<1>7. ASSUME NEW c \in Conns, Cancel(c) PROVE Lines'
  BY <1>1, <1>7, CancelLines
<1>8. ASSUME UNCHANGED <<snd, rcv, toR, toS, link, told, taken>> PROVE Lines'
  BY <1>8 DEF Lines, LineOf
<1> QED
  BY <1>2, <1>3, <1>4, <1>5, <1>6, <1>7, <1>8
     DEF Next, EditSource, AtRest, vars, wires, ghosts

LEMMA InitLines == Init => Lines
<1> SUFFICES ASSUME Init, NEW c \in Conns PROVE LineOf(c)
  BY DEF Lines
<1>1. /\ snd[c].pc = "idle" /\ snd[c].idx = 1 /\ snd[c].off = FromStart
      /\ rcv[c].pc = "none" /\ rcv[c].idx = 1 /\ rcv[c].off = FromStart
      /\ toR[c] = <<>> /\ toS[c] = <<>> /\ link[c] = "none"
      /\ \A f \in Files : told[c][f] = None /\ taken[c][f] = None
  BY DEF Init, FromStart
<1>2. HandlerSide(snd[c], rcv[c], toR[c], toS[c], link[c])
  BY <1>1 DEF HandlerSide, AtFiles
<1>3. SenderSide(snd[c], rcv[c], toR[c], toS[c], link[c])
  BY <1>1 DEF SenderSide
<1>4. Confirmed(snd[c], rcv[c], toR[c], toS[c], told[c], taken[c])
  BY <1>1 DEF Confirmed, AtFiles
<1> QED
  BY <1>2, <1>3, <1>4 DEF LineOf, Line, InStep

-----------------------------------------------------------------------------
(* What follows.                                                           *)

LEMMA FramesExpected == TypeInv /\ Lines => ExpectedFrames
<1> SUFFICES ASSUME TypeInv, Lines, NEW c \in Conns
             PROVE  /\ (c \in Handlers /\ toR[c] # <<>>) => HandlerExpects(c)
                    /\ (c \in Senders /\ toS[c] # <<>>) => SenderExpects(c)
  BY DEF ExpectedFrames
<1>1. ASSUME c \in Handlers, toR[c] # <<>> PROVE HandlerExpects(c)
  <2>1. rcv[c].pc \in {"hello", "query", "file", "open", "drain"}
        /\ rcv[c].idx \in 1..(NFiles + 1)
    BY <1>1 DEF Handlers, TypeInv, TypeOK, HandlerState
  <2>2. CASE rcv[c].pc \in {"hello", "query"}
    BY <1>1, <2>2, AtConn DEF Line, InStep, HandlerSide, Single, HandlerExpects
  <2>3. CASE rcv[c].pc = "file"
    <3>1. Fits(rcv[c].off, Between(rcv[c].idx), Head(toR[c]))
      BY <1>1, <2>3, HeadFits DEF Place, AtFiles
    <3>2. CASE rcv[c].idx \in Files
      BY <2>3, <3>1, <3>2, CountsAssumption
         DEF Fits, Between, Within, HandlerExpects, Files
    <3>3. CASE rcv[c].idx \notin Files
      BY <2>3, <3>1, <3>3 DEF Fits, Between, Within, HandlerExpects
    <3> QED
      BY <3>2, <3>3
  <2>4. CASE rcv[c].pc \in {"open", "drain"}
    BY <1>1, <2>4, HeadFits
       DEF Place, AtFiles, Fits, Between, Within, HandlerExpects
  <2> QED
    BY <2>1, <2>2, <2>3, <2>4
<1>2. ASSUME c \in Senders, toS[c] # <<>> PROVE SenderExpects(c)
  <2>1. snd[c].pc \in {"hello", "query", "file", "stream", "ack"}
    BY <1>2 DEF Senders, TypeInv, TypeOK, SenderState
  <2> QED
    BY <1>2, <2>1, AtConn DEF Line, InStep, SenderSide, Single, SenderExpects
<1> QED
  BY <1>1, <1>2

\* Whatever is lost, cancelled or edited, and whatever other connections do to
\* the same files, neither end reads a frame of another kind, file or offset than
\* its place in the loop calls for: Send and handleConn compute the order of the
\* files each on its own, from the same answers.
THEOREM ExpectedFramesAlways == Spec => []ExpectedFrames
<1>1. Init => TypeInv /\ Lines
  BY InitTypeInv, InitLines
<1>2. TypeInv /\ Lines /\ [Next]_vars => (TypeInv /\ Lines)'
  BY NextTypeInv, NextLines
<1>3. TypeInv /\ Lines => ExpectedFrames
  BY FramesExpected
<1> QED
  BY <1>1, <1>2, <1>3, PTL DEF Spec

\* Every file that a successful run did not skip was told and found equal.
LEMMA SuccessIsConfirmed ==
    ASSUME TypeInv, Lines, NEW c \in Conns, NEW f \in Files,
           snd[c].pc = "ok", snd[c].off[f] # Skip
    PROVE  told[c][f] # None /\ taken[c][f] = told[c][f]
<1>1. rcv[c].pc = "acked" /\ rcv[c].off = snd[c].off /\ rcv[c].idx = NFiles + 1
  BY AtConn DEF Line, Confirmed
<1>2. f < NFiles + 1
  BY CountsAssumption DEF Files
<1>3. taken[c][f] # None
  BY <1>1, <1>2, AtConn DEF Line, Confirmed
<1> QED
  BY <1>3, AtConn DEF Line, Confirmed

\* A nil error of Send means that the receiver has checked every file that was
\* not skipped against the digest it was told, and that the file is on disk
\* unless a later run has opened it: Done is only sent after the last FileDone,
\* and only answered by a handler that has found every digest equal.
THEOREM SuccessMeansDeliveredAlways ==
    ASSUME MaxLive = 1
    PROVE  Spec => []SuccessMeansDelivered
<1>1. Init => DeliveryInv /\ Lines
  BY InitDelivery, InitLines
<1>2. DeliveryInv /\ Lines /\ [Next]_vars => (DeliveryInv /\ Lines)'
  BY NextDelivery, NextLines DEF DeliveryInv
<1>3. DeliveryInv /\ Lines => SuccessMeansDelivered
  BY SuccessIsConfirmed DEF DeliveryInv, DeliveredIntact, SuccessMeansDelivered
<1> QED
  BY <1>1, <1>2, <1>3, PTL DEF Spec

-----------------------------------------------------------------------------
(* The last call.                                                          *)

\* Only the last connection made is at work, and it is the last to have opened
\* whatever it has accepted.
LastAtWork ==
    /\ Live \subseteq {latest}
    /\ \A c \in Conns, f \in Files :
        (latest = c /\ taken[c][f] # None) => opener[f] = c

LEMMA QuietLastAtWork ==
    ASSUME LastAtWork, Live' \subseteq Live, UNCHANGED <<latest, taken, opener>>
    PROVE  LastAtWork'
BY DEF LastAtWork

LEMMA HandlerStepLastAtWork ==
    ASSUME DeliveryInv, LastAtWork, NEW c \in Conns, HandlerStep(c)
    PROVE  LastAtWork'
<1>1. /\ c \in Handlers /\ Live' \subseteq Live
  BY HandlerStepLive DEF DeliveryInv
<1>2. c = latest
  BY <1>1 DEF LastAtWork, Live
<1>3. latest' = latest
  BY DEF HandlerStep, RecvHello, RecvQueries, RecvFileStart, HashPrefix, PrefixGone,
         RecvData, RecvFileDone, ChecksumMismatch, RecvDone, HandlerEOF, ghosts
<1>4. CASE RecvFileStart(c)
  <2>1. /\ taken' = taken
        /\ \A f \in Files : opener'[f] = opener[f] \/ opener'[f] = c
    BY <1>4 DEF RecvFileStart, DeliveryInv, TypeInv, TypeOK
  <2> QED
    BY <1>1, <1>2, <1>3, <2>1 DEF LastAtWork
<1>5. CASE RecvFileDone(c)
  <2>1. opener' = opener /\ opener[rcv[c].idx] = c
    BY <1>5 DEF RecvFileDone, DeliveryInv, HoldsItsFile
  <2>2. \A f \in Files : taken'[c][f] = taken[c][f] \/ f = rcv[c].idx
    BY <1>5 DEF RecvFileDone, DeliveryInv, TypeInv, TypeOK
  <2> QED
    BY <1>1, <1>2, <1>3, <2>1, <2>2 DEF LastAtWork
<1>6. ASSUME UNCHANGED <<taken, opener>> PROVE LastAtWork'
  BY <1>1, <1>3, <1>6, QuietLastAtWork
<1> QED
  BY <1>4, <1>5, <1>6
     DEF HandlerStep, RecvHello, RecvQueries, HashPrefix, PrefixGone,
         RecvData, ChecksumMismatch, RecvDone, HandlerEOF, ghosts

LEMMA SendLastAtWork ==
    ASSUME MaxLive = 1, DeliveryInv, NEW c \in Conns, Send(c)
    PROVE  LastAtWork'
<1>1. Live = {}
  <2>1. IsFiniteSet(Live)
    BY ConnsAssumption, FS_Subset DEF Live, Senders, Handlers
  <2>2. Cardinality(Live) < 1 /\ Cardinality(Live) \in Nat
    BY <2>1, FS_CardinalityType DEF Send
  <2> QED
    BY <2>1, <2>2, FS_EmptySet
<1>2. /\ latest' = c /\ UNCHANGED <<taken, opener>>
      /\ \A d \in Conns \ {c} : snd'[d] = snd[d] /\ rcv'[d] = rcv[d]
  BY DEF Send, DeliveryInv, TypeInv, TypeOK
<1>3. Live' \subseteq {c}
  BY <1>1, <1>2 DEF Live, Senders, Handlers
<1>4. \A f \in Files : taken[c][f] = None
  <2>1. rcv[c].pc = "none"
    BY DEF Send, DeliveryInv, NoHandlerYet
  <2>2. rcv[c].idx = 1 /\ \A f \in Files : taken[c][f] # None => f < rcv[c].idx
    BY <2>1 DEF DeliveryInv, AcceptsInOrder
  <2> QED
    BY <2>2 DEF Files
<1> QED
  BY <1>2, <1>3, <1>4 DEF LastAtWork

LEMMA NextLastAtWork ==
    ASSUME MaxLive = 1, DeliveryInv, LastAtWork, [Next]_vars
    PROVE  LastAtWork'
<1>1. snd \in [Conns -> SenderState] /\ rcv \in [Conns -> HandlerState]
  BY DEF DeliveryInv, TypeInv, TypeOK
<1>2. ASSUME NEW c \in Conns, Send(c) PROVE LastAtWork'
  BY <1>2, SendLastAtWork
<1>3. ASSUME NEW c \in Conns, SenderStep(c) PROVE LastAtWork'
  <2>1. latest' = latest
    BY <1>3 DEF SenderStep, StartFresh, SendQueries, RecvAnswers, SendFileStart, SourceFails,
       StreamChunk, StreamEnd, CancelSeen, SendDone, RecvDoneAck, SenderIOError, ghosts
  <2> QED
    BY <1>3, <2>1, SenderStepLive, QuietLastAtWork DEF DeliveryInv
<1>4. ASSUME NEW c \in Conns, HandlerStep(c) PROVE LastAtWork'
  BY <1>4, HandlerStepLastAtWork
<1>5. ASSUME NEW c \in Conns, HandlerDies(c) PROVE LastAtWork'
  <2>1. /\ c \in Handlers /\ snd' = snd /\ UNCHANGED <<latest, taken, opener>>
        /\ \A d \in Conns \ {c} : rcv'[d] = rcv[d]
    BY <1>1, <1>5 DEF HandlerDies, HandlerEnds, ghosts
  <2>2. Live' \subseteq Live
    BY <2>1 DEF Live, Senders, Handlers
  <2> QED
    BY <2>1, <2>2, QuietLastAtWork
<1>6. ASSUME NEW c \in Conns, Cancel(c) PROVE LastAtWork'
  <2>1. /\ c \in Senders /\ rcv' = rcv /\ UNCHANGED <<latest, taken, opener>>
        /\ \A d \in Conns \ {c} : snd'[d] = snd[d]
    BY <1>1, <1>6 DEF Cancel, ghosts
  <2>2. Live' \subseteq Live
    BY <2>1 DEF Live, Senders, Handlers
  <2> QED
    BY <2>1, <2>2, QuietLastAtWork
<1>7. ASSUME UNCHANGED <<snd, rcv, latest, taken, opener>> PROVE LastAtWork'
  <2>1. Live' = Live
    BY <1>7 DEF Live, Senders, Handlers
  <2> QED
    BY <1>7, <2>1, QuietLastAtWork
<1> QED
  BY <1>2, <1>3, <1>4, <1>5, <1>6, <1>7
     DEF Next, LinkFails, EditSource, AtRest, vars, ghosts

LEMMA InitLastAtWork == Init => LastAtWork
<1> SUFFICES ASSUME Init PROVE LastAtWork
  OBVIOUS
<1>1. \A c \in Conns : snd[c].pc = "idle" /\ rcv[c].pc = "none"
  BY DEF Init
<1>2. Live = {}
  BY <1>1 DEF Live, Senders, Handlers
<1>3. \A c \in Conns, f \in Files : taken[c][f] = None
  BY DEF Init
<1> QED
  BY <1>2, <1>3 DEF LastAtWork

\* Until Send is called again, every file that its last successful call did not
\* skip is on the receiver's disk with the digest it was told: DoneAck is, as
\* protocol.go says, "the receiver's confirmation that everything checks out".
THEOREM AckedIsOnDiskAlways ==
    ASSUME MaxLive = 1
    PROVE  Spec => []AckedIsOnDisk
<1> DEFINE Inv == DeliveryInv /\ Lines /\ LastAtWork
<1>1. Init => Inv
  BY InitDelivery, InitLines, InitLastAtWork
<1>2. Inv /\ [Next]_vars => Inv'
  BY NextDelivery, NextLines, NextLastAtWork DEF DeliveryInv
<1>3. Inv => AckedIsOnDisk
  <2> SUFFICES ASSUME Inv, NEW c \in Conns, NEW f \in Files,
                      latest = c, snd[c].pc = "ok", snd[c].off[f] # Skip
               PROVE  dest[f] = told[c][f]
    BY DEF AckedIsOnDisk
  <2>1. told[c][f] # None /\ taken[c][f] = told[c][f]
    BY SuccessIsConfirmed DEF DeliveryInv
  <2>2. opener[f] = c
    BY <2>1 DEF LastAtWork
  <2> QED
    BY <2>1, <2>2 DEF DeliveryInv, DeliveredIntact
<1> HIDE DEF Inv
<1> QED
  BY <1>1, <1>2, <1>3, PTL DEF Spec

-----------------------------------------------------------------------------
(* What the bytes on the wires and on the disk are, as long as no source is *)
(* edited and one connection is at work at a time: every frame and every    *)
(* destination continues the source it is for.  Hence a run that succeeds   *)
(* leaves what the sender has, none fails without a fault or a cancellation, *)
(* and no step loses a chunk that had arrived.                              *)

-----------------------------------------------------------------------------
(* A source x and its destination d.                                       *)

Held(d) == IF d = None THEN 0 ELSE Len(d)

\* The query for a source that nobody edits.
Asked(x) == ResumeQuery(Len(x), x)

\* The offset that phase one and two of handleConn come to.
Decision(x, d) ==
    IF Held(d) = 0 THEN 0 ELSE Resolved(matchResume(d, Asked(x)))

\* The receiver would skip the file.
Settled(x, d) == d # None /\ matchResume(d, Asked(x)).complete

\* What replaces d is a part of x from its beginning, keeps the ground of d, and is
\* d itself if that is settled.
Builds(x, d, e) ==
    /\ e \in File /\ \E n \in 0..Len(x) : e = Prefix(x, n)
    /\ d # None => FirstBreak(d, Asked(x)) <= FirstBreak(e, Asked(x))
    /\ Settled(x, d) => e = d

LEMMA AskedFields ==
    ASSUME NEW x \in File
    PROVE  /\ Asked(x) \in Query /\ Asked(x).Size = Len(x) /\ Asked(x).SHA256 = x
           /\ NumChunks(x) \in Nat /\ Len(Asked(x).Chunks) = NumChunks(x)
           /\ \A i \in 1..NumChunks(x) : Asked(x).Chunks[i] = ChunkAt(x, i)
<1>1. NumChunks(x) \in Nat /\ Len(x) \in Nat
  BY LenProperties, ChunkSizeAssumption DEF NumChunks, File
<1>2. Asked(x).Chunks = [i \in 1..NumChunks(x) |-> ChunkAt(x, i)]
  BY DEF Asked, ResumeQuery, hashFileChunks
<1> QED
  BY <1>1, <1>2, ResumeQueryType DEF Asked, ResumeQuery, hashFileChunks

LEMMA IsAFile ==
    ASSUME NEW f \in File
    PROVE  f # None /\ Len(f) \in Nat /\ (Len(f) = 0 <=> f = <<>>)
BY NoneAssumption, LenProperties, EmptySeq DEF File

\* A destination that equals its source is settled.
LEMMA SameIsSettled ==
    ASSUME NEW x \in File
    PROVE  Settled(x, x)
BY IsAFile, AskedFields DEF Settled, matchResume

\* A settled destination begins with its source.
LEMMA SettledBegins ==
    ASSUME NEW x \in File, NEW d \in File \cup {None}, Settled(x, d)
    PROVE  d \in File /\ Len(x) <= Len(d) /\ Prefix(d, Len(x)) = x
<1>1. d \in File
  BY DEF Settled
<1>2. Prefix(x, Len(x)) = x
  BY IsAFile, PrefixType, FileEqual
<1>3. CASE Len(x) = 0
  <2>1. Prefix(d, 0) = <<>> /\ x = <<>> /\ Len(d) \in Nat
    BY <1>1, <1>3, IsAFile, SubSeqEmpty DEF Prefix
  <2> QED
    BY <1>1, <1>3, <2>1
<1>4. CASE Len(x) # 0
  <2>1. Len(x) \in Nat \ {0}
    BY <1>4, IsAFile
  <2> QED
    BY <1>1, <1>2, <2>1, SkipIsBacked DEF Settled, Asked
<1> QED
  BY <1>3, <1>4

\* The whole of a file, and a prefix of a prefix.
LEMMA PrefixAll ==
    ASSUME NEW f \in File
    PROVE  Prefix(f, Len(f)) = f
BY IsAFile, PrefixType, FileEqual

\* Cutting a destination to no more than it holds.
LEMMA TruncateCuts ==
    ASSUME NEW d \in File, NEW n \in 0..Len(d)
    PROVE  Truncate(d, n) = Prefix(d, n)
<1>1. Truncate(d, n) \in File /\ Len(Truncate(d, n)) = n /\ n \in Nat
  BY TruncateType
<1>2. \A i \in 1..n : Truncate(d, n)[i] = d[i]
  BY <1>1, IsAFile DEF Truncate
<1>3. Prefix(d, n) \in File /\ Len(Prefix(d, n)) = n /\ \A i \in 1..n : Prefix(d, n)[i] = d[i]
  BY PrefixType
<1> QED
  BY <1>1, <1>2, <1>3, FileEqual

-----------------------------------------------------------------------------
(* Chunks that the two files share.                                        *)

\* A prefix that reaches the end of a chunk has the chunk.
LEMMA ChunkOfPrefix ==
    ASSUME NEW f \in File, NEW n \in 0..Len(f), NEW i \in Nat \ {0},
           i <= NumChunks(f), AtMost(i * ChunkSize, Len(f)) <= n
    PROVE  i <= NumChunks(Prefix(f, n)) /\ ChunkAt(Prefix(f, n), i) = ChunkAt(f, i)
<1> DEFINE g == Prefix(f, n)
           s == (i - 1) * ChunkSize
<1>1. g \in File /\ Len(g) = n /\ \A k \in 1..n : g[k] = f[k]
  BY PrefixType
<1>2. s \in Nat /\ i * ChunkSize = s + ChunkSize /\ ChunkSize \in Nat \ {0} /\ Len(f) \in Nat
  BY ChunkSizeAssumption, IsAFile
<1>3. s < Len(f)
  BY ChunkBegins
<1> HIDE DEF g, s
<1>4. s < n /\ AtMost(s + ChunkSize, Len(f)) = AtMost(s + ChunkSize, n)
  BY <1>2, <1>3 DEF AtMost
<1>5. i <= NumChunks(g)
  BY <1>1, <1>4, ChunkBegins DEF s
<1>6. Len(ChunkAt(g, i)) = AtMost(s + ChunkSize, n) - s
  BY <1>1, <1>2, <1>4, ChunkAtLen DEF s
<1>7. Len(ChunkAt(f, i)) = AtMost(s + ChunkSize, n) - s
  BY <1>2, <1>3, <1>4, ChunkAtLen DEF s
<1>8. ASSUME NEW k \in 1..Len(ChunkAt(g, i)) PROVE ChunkAt(g, i)[k] = ChunkAt(f, i)[k]
  <2>1. ChunkAt(g, i)[k] = g[s + k] /\ ChunkAt(f, i)[k] = f[s + k]
    BY <1>1, <1>6, <1>7, ChunkAtType DEF s
  <2>2. s + k \in 1..n
    BY <1>2, <1>4, <1>6 DEF AtMost
  <2> QED
    BY <1>1, <2>1, <2>2
<1>9. ChunkAt(g, i) = ChunkAt(f, i)
  BY <1>1, <1>6, <1>7, <1>8, ChunkAtType, FileEqual
<1> QED
  BY <1>5, <1>9 DEF g

\* Where every chunk that agreed still agrees, no chunk is lost.
LEMMA BreaksNoEarlier ==
    ASSUME NEW q \in Query, NEW d, NEW e,
           \A i \in 1..(FirstBreak(d, q) - 1) : ChunkAgrees(e, q, i)
    PROVE  FirstBreak(d, q) <= FirstBreak(e, q)
<1>1. Len(q.Chunks) \in Nat
  BY LenProperties DEF Query
<1>2. FirstBreak(d, q) \in 1..(Len(q.Chunks) + 1) /\ FirstBreak(e, q) \in 1..(Len(q.Chunks) + 1)
  BY FirstBreakExists
<1>3. ASSUME FirstBreak(e, q) < FirstBreak(d, q) PROVE FALSE
  <2>1. FirstBreak(e, q) \in 1..(FirstBreak(d, q) - 1) /\ FirstBreak(e, q) <= Len(q.Chunks)
    BY <1>1, <1>2, <1>3
  <2> QED
    BY <2>1, FirstBreakExists
<1> QED
  BY <1>2, <1>3

\* The more of the source a destination holds, the more chunks it shares.
LEMMA LongerSharesMore ==
    ASSUME NEW x \in File, NEW n \in 0..Len(x), NEW m \in n..Len(x)
    PROVE  FirstBreak(Prefix(x, n), Asked(x)) <= FirstBreak(Prefix(x, m), Asked(x))
<1> DEFINE d == Prefix(x, n)
           e == Prefix(x, m)
           q == Asked(x)
<1>1. q \in Query /\ Len(x) \in Nat /\ n \in Nat /\ m \in 0..Len(x)
  BY AskedFields, IsAFile
<1>2. d \in File /\ Len(d) = n /\ e \in File /\ Len(e) = m
  BY <1>1, PrefixType
<1>3. ASSUME NEW i \in 1..(FirstBreak(d, q) - 1) PROVE ChunkAgrees(e, q, i)
  <2>1. i \in 1..NumChunks(x) /\ i \in Nat \ {0} /\ q.Chunks[i] = ChunkAt(x, i)
    BY AskedFields, FirstBreakExists
  <2>2. i <= NumChunks(d) /\ ChunkAt(d, i) = ChunkAt(x, i)
    BY <1>1, <2>1, FirstBreakExists DEF ChunkAgrees
  <2> DEFINE s == (i - 1) * ChunkSize
  <2>3. s \in Nat /\ i * ChunkSize = s + ChunkSize /\ ChunkSize \in Nat \ {0}
    BY <2>1, ChunkSizeAssumption
  <2>4. s < n /\ s < Len(x)
    BY <1>2, <2>1, <2>2, ChunkBegins
  <2>5. Len(ChunkAt(d, i)) = AtMost(i * ChunkSize, n) - s
    BY <1>2, <2>1, <2>4, ChunkAtLen
  <2>6. Len(ChunkAt(x, i)) = AtMost(i * ChunkSize, Len(x)) - s
    BY <2>1, <2>4, ChunkAtLen
  <2> HIDE DEF s, d
  <2>7. AtMost(i * ChunkSize, Len(x)) <= m
    BY <1>1, <2>2, <2>3, <2>5, <2>6 DEF AtMost
  <2>8. i <= NumChunks(e) /\ ChunkAt(e, i) = ChunkAt(x, i)
    BY <1>1, <2>1, <2>7, ChunkOfPrefix
  <2> QED
    BY <2>1, <2>8 DEF ChunkAgrees
<1> QED
  BY <1>1, <1>3, BreaksNoEarlier

-----------------------------------------------------------------------------
(* What a handler makes of a destination.                                  *)

\* The receiver's decision: a file that is skipped is settled; one that is not
\* has as much of the source as is kept.
LEMMA DecisionSound ==
    ASSUME NEW x \in File, NEW d \in File \cup {None}
    PROVE  /\ Decision(x, d) \in Offset
           /\ Decision(x, d) = Skip => Settled(x, d)
           /\ Settled(x, d) /\ Decision(x, d) # Skip => x = <<>> /\ d = <<>>
           /\ Decision(x, d) # Skip =>
                 /\ Decision(x, d) <= Len(x) /\ Decision(x, d) <= Held(d)
                 /\ Held(d) > 0 =>
                       /\ Decision(x, d) = MatchedBytes(d, Asked(x))
                       /\ Prefix(d, Decision(x, d)) = Prefix(x, Decision(x, d))
<1> DEFINE n == MatchedBytes(d, Asked(x))
<1>1. Len(x) \in Nat /\ Held(d) \in Nat /\ 0 \in Offset /\ 0 # Skip /\ Skip \in Offset
  BY IsAFile DEF Held, Offset, Skip
<1>2. CASE Held(d) = 0
  <2>1. Decision(x, d) = 0
    BY <1>2 DEF Decision
  <2>2. ASSUME Settled(x, d) PROVE x = <<>> /\ d = <<>>
    <3>1. d \in File /\ Len(x) <= Len(d) /\ d # None
      BY <2>2, SettledBegins DEF Settled
    <3>2. Len(d) = 0 /\ Len(x) = 0
      BY <1>1, <1>2, <3>1 DEF Held
    <3> QED
      BY <3>1, <3>2, IsAFile
  <2> QED
    BY <1>1, <1>2, <2>1, <2>2
<1>3. CASE Held(d) # 0
  <2>1. d \in File /\ d # None /\ Held(d) = Len(d) /\ Held(d) > 0
    BY <1>1, <1>3 DEF Held
  <2>2. n <= Len(d) /\ n <= Len(x) /\ Prefix(d, n) = Prefix(x, n)
    BY <1>1, <2>1, ResumePointIsShared DEF Asked
  <2>3. n \in Nat
    <3>1. FirstBreak(d, Asked(x)) \in Nat \ {0}
      BY AskedFields, FirstBreakExists
    <3>2. (FirstBreak(d, Asked(x)) - 1) * ChunkSize \in Nat
      BY <3>1, ChunkSizeAssumption
    <3> QED
      BY <1>1, <2>1, <3>2 DEF MatchedBytes, AtMost
  <2>4. CASE matchResume(d, Asked(x)).complete
    BY <1>1, <1>3, <2>1, <2>4 DEF Decision, Resolved, Settled
  <2>5. CASE ~matchResume(d, Asked(x)).complete
    <3>1. matchResume(d, Asked(x)).offset = n
      BY <2>1, <2>5 DEF matchResume
    <3>2. Decision(x, d) = n
      BY <1>3, <2>5, <3>1 DEF Decision, Resolved
    <3>3. n \in Offset /\ n # Skip
      BY <2>3 DEF Offset, Skip
    <3> HIDE DEF n
    <3> QED
      BY <2>1, <2>2, <2>5, <3>2, <3>3 DEF Settled, n
  <2> QED
    BY <2>4, <2>5
<1> QED
  BY <1>2, <1>3

\* Opening a destination that is not skipped cuts it to the part of the source
\* that it holds, and loses no chunk.
LEMMA ReopeningBuilds ==
    ASSUME NEW x \in File, NEW d \in File \cup {None}, Decision(x, d) # Skip
    PROVE  LET n == Decision(x, d)
           IN  /\ n \in 0..Len(x)
               /\ Truncate(d, n) = Prefix(x, n)
               /\ Builds(x, d, Truncate(d, n))
<1> DEFINE n == Decision(x, d)
           e == Truncate(d, n)
           q == Asked(x)
<1>1. n \in Nat /\ n \in 0..Len(x) /\ Held(d) \in Nat /\ n \in 0..Held(d)
  BY DecisionSound, IsAFile DEF Offset, Held
<1>2. e \in File /\ Len(e) = n
  BY <1>1, TruncateType
<1>3. CASE Held(d) = 0
  <2>1. n = 0 /\ e = <<>>
    BY <1>1, <1>2, <1>3, IsAFile
  <2>2. Prefix(x, n) = <<>>
    BY <2>1, SubSeqEmpty DEF Prefix
  <2>3. d # None => d = <<>>
    BY <1>3, IsAFile DEF Held
  <2>4. q \in Query /\ FirstBreak(e, q) \in Nat
    BY AskedFields, FirstBreakExists
  <2> HIDE DEF n, e, q
  <2>5. \E k \in 0..Len(x) : e = Prefix(x, k)
    BY <1>1, <2>1, <2>2
  <2> QED
    BY <1>1, <1>2, <2>1, <2>2, <2>3, <2>4, <2>5 DEF Builds, Settled, n, e, q
<1>4. CASE Held(d) # 0
  <2>1. d \in File /\ d # None /\ n \in 0..Len(d) /\ Held(d) > 0
    BY <1>1, <1>4 DEF Held
  <2>2. n = MatchedBytes(d, q) /\ Prefix(d, n) = Prefix(x, n)
    BY <2>1, DecisionSound
  <2>3. e = Prefix(d, n)
    BY <2>1, TruncateCuts
  <2>4. ~Settled(x, d)
    <3> SUFFICES ASSUME Settled(x, d) PROVE FALSE
      OBVIOUS
    <3>1. d = <<>>
      BY DecisionSound
    <3> QED
      BY <1>4, <2>1, <3>1, IsAFile DEF Held
  <2>5. q \in Query /\ FirstBreak(d, q) \in Nat \ {0}
    BY AskedFields, FirstBreakExists
  <2>6. ASSUME NEW i \in 1..(FirstBreak(d, q) - 1) PROVE ChunkAgrees(e, q, i)
    <3> DEFINE k == FirstBreak(d, q) - 1
    <3>1. ChunkAgrees(d, q, i) /\ i \in Nat \ {0}
      BY <2>5, FirstBreakExists
    <3>2. AtMost(i * ChunkSize, Len(d)) <= n
      <4>1. i * ChunkSize <= k * ChunkSize /\ i * ChunkSize \in Nat /\ k * ChunkSize \in Nat
        <5>1. \A a, b, c \in Nat : a <= b => a * c <= b * c
          OBVIOUS
        <5>2. k \in Nat /\ i <= k
          BY <2>5
        <5> HIDE DEF k
        <5> QED
          BY <3>1, <5>1, <5>2, ChunkSizeAssumption
      <4>2. n = AtMost(k * ChunkSize, Len(d))
        BY <2>2 DEF MatchedBytes
      <4>3. Len(d) \in Nat
        BY <2>1, IsAFile
      <4> HIDE DEF k, n
      <4> QED
        BY <4>1, <4>2, <4>3 DEF AtMost
    <3>3. i <= NumChunks(d) /\ ChunkAt(d, i) = q.Chunks[i]
      BY <3>1 DEF ChunkAgrees
    <3>4. i <= NumChunks(Prefix(d, n)) /\ ChunkAt(Prefix(d, n), i) = ChunkAt(d, i)
      BY <2>1, <3>1, <3>2, <3>3, ChunkOfPrefix
    <3> QED
      BY <2>3, <3>3, <3>4 DEF ChunkAgrees
  <2>7. FirstBreak(d, q) <= FirstBreak(e, q)
    BY <2>5, <2>6, BreaksNoEarlier
  <2>8. \E k \in 0..Len(x) : e = Prefix(x, k)
    BY <1>1, <2>2, <2>3
  <2> HIDE DEF n, e, q
  <2> QED
    BY <1>1, <1>2, <2>2, <2>3, <2>4, <2>7, <2>8 DEF Builds, n, e, q
<1> QED
  BY <1>3, <1>4

\* Part of a file.
LEMMA PartOf ==
    ASSUME NEW x \in File, NEW n \in Nat, NEW k \in Nat \ {0}, n + k <= Len(x)
    PROVE  LET part == SubSeq(x, n + 1, n + k)
           IN  part \in File /\ Len(part) = k /\ \A i \in 1..k : part[i] = x[n + i]
<1> DEFINE part == SubSeq(x, n + 1, n + k)
<1>1. \A i \in (n + 1)..(n + k) : x[i] \in Byte
  <2>1. Len(x) \in Nat
    BY IsAFile
  <2>2. \A i \in (n + 1)..(n + k) : i \in 1..Len(x)
    BY <2>1
  <2> QED
    BY <2>2, ElementOfSeq DEF File
<1>2. n + 1 \in Int /\ n + k \in Int /\ n + 1 <= n + k
  OBVIOUS
<1>3. /\ part \in Seq(Byte) /\ Len(part) = (n + k) - (n + 1) + 1
      /\ \A i \in 1..((n + k) - (n + 1) + 1) : part[i] = x[(n + 1) + i - 1]
  BY <1>1, <1>2, SubSeqProperties
<1>4. (n + k) - (n + 1) + 1 = k /\ \A i \in 1..k : (n + 1) + i - 1 = n + i
  OBVIOUS
<1> HIDE DEF part
<1> QED
  BY <1>3, <1>4 DEF File, part

\* A payload that continues the source leaves more of the source, or the same.
LEMMA WritingBuilds ==
    ASSUME NEW x \in File, NEW n \in 0..Len(x), NEW data \in File, n + Len(data) <= Len(x),
           data = SubSeq(x, n + 1, n + Len(data))
    PROVE  LET d == Prefix(x, n)
               e == WriteAt(d, n, data)
           IN  /\ e = Prefix(x, n + Len(data))
               /\ d \o data = Prefix(x, n + Len(data))
               /\ Builds(x, d, e)
<1> DEFINE d == Prefix(x, n)
           m == n + Len(data)
           e == Prefix(x, m)
<1>1. Len(x) \in Nat /\ Len(data) \in Nat /\ n \in Nat /\ m \in n..Len(x) /\ m \in 0..Len(x)
  BY IsAFile
<1>2. d \in File /\ Len(d) = n /\ \A i \in 1..n : d[i] = x[i]
  BY PrefixType
<1>3. e \in File /\ Len(e) = m /\ \A i \in 1..m : e[i] = x[i]
  BY <1>1, PrefixType
<1>4. ASSUME NEW i \in 1..Len(data) PROVE data[i] = x[n + i]
  <2>1. Len(data) \in Nat \ {0} /\ n \in Nat
    BY <1>1
  <2> QED
    BY <2>1, PartOf
<1>5. d \o data = e
  <2>1. /\ d \o data \in File /\ Len(d \o data) = m
        /\ \A i \in 1..m : (d \o data)[i] = IF i <= n THEN d[i] ELSE data[i - n]
    <3> HIDE DEF d
    <3> QED
      BY <1>1, <1>2, ConcatProperties DEF File
  <2> HIDE DEF d, e
  <2>2. ASSUME NEW i \in 1..m PROVE (d \o data)[i] = e[i]
    <3>1. CASE i <= n
      <4>1. (d \o data)[i] = d[i] /\ i \in 1..n
        BY <1>1, <2>1, <3>1
      <4> QED
        BY <1>2, <1>3, <4>1
    <3>2. CASE ~(i <= n)
      <4>1. i - n \in 1..Len(data) /\ n + (i - n) = i
        BY <1>1, <3>2
      <4>2. data[i - n] = x[i]
        BY <1>4, <4>1
      <4> QED
        BY <1>3, <2>1, <3>2, <4>2
    <3> QED
      BY <3>1, <3>2
  <2> HIDE DEF m
  <2> QED
    BY <1>3, <2>1, <2>2, FileEqual
<1>6. WriteAt(d, n, data) = e
  BY <1>2, <1>5, WriteAtEndAppends
<1>7. FirstBreak(d, Asked(x)) <= FirstBreak(e, Asked(x))
  BY <1>1, LongerSharesMore
<1>8. ASSUME Settled(x, d) PROVE e = d
  <2>1. Len(x) <= Len(d)
    BY <1>2, <1>8, SettledBegins
  <2>2. m = n
    BY <1>1, <1>2, <2>1
  <2> QED
    BY <2>2
<1>9. \E k \in 0..Len(x) : e = Prefix(x, k)
  BY <1>1
<1> QED
  BY <1>3, <1>5, <1>6, <1>7, <1>8, <1>9 DEF Builds

-----------------------------------------------------------------------------
(* The bytes on a wire.  x are the sources.                                *)

\* The frame m is right where `at` bytes of its file are behind.
Continues(x, at, m) ==
    /\ m.kind = "Data" =>
          /\ at + Len(m.payload) <= Len(x[m.file])
          /\ m.payload = SubSeq(x[m.file], at + 1, at + Len(m.payload))
    /\ m.kind = "FileDone" => at = Len(x[m.file]) /\ m.sum = x[m.file]

\* How many bytes are behind after a frame.
MovesOn(at, m) ==
    IF m.kind = "FileStart" THEN m.offset
    ELSE IF m.kind = "Data" THEN at + Len(m.payload) ELSE 0

\* The frames of q lead from one position to another.
Runs(x, from, q, to) ==
    \E at \in [1..(Len(q) + 1) -> Nat] :
        /\ at[1] = from /\ at[Len(q) + 1] = to
        /\ \A i \in 1..Len(q) : Continues(x, at[i], q[i]) /\ at[i + 1] = MovesOn(at[i], q[i])

LEMMA RunsEmpty ==
    ASSUME NEW x, NEW from \in Nat
    PROVE  Runs(x, from, <<>>, from)
<1> DEFINE at == [i \in 1..1 |-> from]
<1>1. at \in [1..(Len(<<>>) + 1) -> Nat] /\ at[1] = from /\ at[Len(<<>>) + 1] = from
  OBVIOUS
<1>2. \A i \in 1..Len(<<>>) : Continues(x, at[i], <<>>[i]) /\ at[i + 1] = MovesOn(at[i], <<>>[i])
  OBVIOUS
<1> HIDE DEF at
<1> QED
  BY <1>1, <1>2 DEF Runs

LEMMA AdvanceType ==
    ASSUME NEW at \in Nat, NEW m \in ToReceiver
    PROVE  MovesOn(at, m) \in Nat
<1>1. m.kind = "Data" => Len(m.payload) \in Nat
  BY FrameFields, IsAFile
<1>2. m.kind = "FileStart" => m.offset \in Nat
  BY DEF ToReceiver, Hello, Done
<1> QED
  BY <1>1, <1>2 DEF MovesOn

LEMMA RunsTail ==
    ASSUME NEW x, NEW q \in Seq(ToReceiver), q # <<>>, NEW from, NEW to, Runs(x, from, q, to)
    PROVE  /\ from \in Nat /\ Head(q) \in ToReceiver /\ Continues(x, from, Head(q))
           /\ MovesOn(from, Head(q)) \in Nat
           /\ Runs(x, MovesOn(from, Head(q)), Tail(q), to)
<1>1. PICK at \in [1..(Len(q) + 1) -> Nat] :
        /\ at[1] = from /\ at[Len(q) + 1] = to
        /\ \A i \in 1..Len(q) : Continues(x, at[i], q[i]) /\ at[i + 1] = MovesOn(at[i], q[i])
  BY DEF Runs
<1>2. /\ Len(q) \in Nat \ {0} /\ Head(q) = q[1] /\ Head(q) \in ToReceiver
      /\ Tail(q) \in Seq(ToReceiver) /\ Len(Tail(q)) = Len(q) - 1
      /\ \A i \in 1..(Len(q) - 1) : Tail(q)[i] = q[i + 1]
  BY HeadTailProperties, LenProperties, EmptySeq
<1> DEFINE rest == [i \in 1..Len(q) |-> at[i + 1]]
<1>3. rest \in [1..(Len(Tail(q)) + 1) -> Nat]
  BY <1>2
<1>4. 1 \in 1..Len(q) /\ Len(q) \in 1..Len(q) /\ Len(Tail(q)) + 1 = Len(q)
  BY <1>2
<1>5. rest[1] = MovesOn(from, Head(q)) /\ rest[Len(Tail(q)) + 1] = to
  BY <1>1, <1>2, <1>4
<1>6. ASSUME NEW i \in 1..Len(Tail(q))
      PROVE  Continues(x, rest[i], Tail(q)[i]) /\ rest[i + 1] = MovesOn(rest[i], Tail(q)[i])
  <2>1. i + 1 \in 1..Len(q) /\ i \in 1..Len(q) /\ i \in 1..(Len(q) - 1)
    BY <1>2
  <2>2. rest[i] = at[i + 1] /\ rest[i + 1] = at[(i + 1) + 1] /\ Tail(q)[i] = q[i + 1]
    BY <1>2, <2>1
  <2> QED
    BY <1>1, <2>1, <2>2
<1>7. Continues(x, from, Head(q)) /\ from \in Nat
  BY <1>1, <1>2, <1>4
<1> HIDE DEF rest
<1>8. Runs(x, MovesOn(from, Head(q)), Tail(q), to)
  BY <1>3, <1>5, <1>6 DEF Runs
<1> QED
  BY <1>2, <1>7, <1>8, AdvanceType

LEMMA RunsAppend ==
    ASSUME NEW x, NEW q \in Seq(ToReceiver), NEW m \in ToReceiver, NEW from, NEW to,
           Runs(x, from, q, to), Continues(x, to, m)
    PROVE  Runs(x, from, Append(q, m), MovesOn(to, m))
<1>1. PICK at \in [1..(Len(q) + 1) -> Nat] :
        /\ at[1] = from /\ at[Len(q) + 1] = to
        /\ \A i \in 1..Len(q) : Continues(x, at[i], q[i]) /\ at[i + 1] = MovesOn(at[i], q[i])
  BY DEF Runs
<1> DEFINE r == Append(q, m)
           n == Len(q)
           new == [i \in 1..(n + 2) |-> IF i <= n + 1 THEN at[i] ELSE MovesOn(to, m)]
<1>2. n \in Nat /\ Len(r) = n + 1 /\ r[n + 1] = m /\ \A i \in 1..n : r[i] = q[i]
  BY AppendProperties, LenProperties
<1>3. to \in Nat /\ MovesOn(to, m) \in Nat
  <2>1. to \in Nat
    BY <1>1, <1>2
  <2> QED
    BY <2>1, AdvanceType
<1> HIDE DEF r, n
<1>4. new \in [1..(Len(r) + 1) -> Nat]
  <2>1. Len(r) + 1 = n + 2
    BY <1>2
  <2>2. ASSUME NEW i \in 1..(n + 2) PROVE (IF i <= n + 1 THEN at[i] ELSE MovesOn(to, m)) \in Nat
    BY <1>1, <1>2, <1>3 DEF n
  <2> QED
    BY <2>1, <2>2
<1>5. /\ \A i \in 1..(n + 1) : new[i] = at[i]
      /\ new[n + 2] = MovesOn(to, m)
  BY <1>2
<1>6. new[1] = from /\ new[Len(r) + 1] = MovesOn(to, m)
  BY <1>1, <1>2, <1>5
<1> HIDE DEF new
<1>7. ASSUME NEW i \in 1..Len(r)
      PROVE  Continues(x, new[i], r[i]) /\ new[i + 1] = MovesOn(new[i], r[i])
  <2>1. CASE i \in 1..n
    <3>1. new[i] = at[i] /\ new[i + 1] = at[i + 1] /\ r[i] = q[i]
      BY <1>2, <1>5, <2>1
    <3> QED
      BY <1>1, <2>1, <3>1 DEF n
  <2>2. CASE i = n + 1
    <3>1. new[i] = to /\ new[i + 1] = MovesOn(to, m) /\ r[i] = m
      BY <1>1, <1>2, <1>5, <2>2 DEF n
    <3> QED
      BY <3>1
  <2> QED
    BY <1>2, <2>1, <2>2
<1> QED
  BY <1>4, <1>6, <1>7 DEF Runs, r

LEMMA RunsPrefix ==
    ASSUME NEW x, NEW q \in Seq(ToReceiver), NEW n \in 0..Len(q), NEW from, NEW to,
           Runs(x, from, q, to)
    PROVE  \E end \in Nat : Runs(x, from, Prefix(q, n), end)
<1>1. PICK at \in [1..(Len(q) + 1) -> Nat] :
        /\ at[1] = from /\ at[Len(q) + 1] = to
        /\ \A i \in 1..Len(q) : Continues(x, at[i], q[i]) /\ at[i + 1] = MovesOn(at[i], q[i])
  BY DEF Runs
<1> DEFINE r == Prefix(q, n)
           new == [i \in 1..(n + 1) |-> at[i]]
<1>2. Len(q) \in Nat /\ n \in Nat /\ n <= Len(q) /\ Len(r) = n /\ \A i \in 1..n : r[i] = q[i]
  BY LenProperties, SubSeqProperties DEF Prefix
<1> HIDE DEF r
<1>3. new \in [1..(Len(r) + 1) -> Nat] /\ new[1] = from /\ new[Len(r) + 1] \in Nat
  <2>1. \A i \in 1..(n + 1) : i \in 1..(Len(q) + 1)
    BY <1>2
  <2>2. new \in [1..(n + 1) -> Nat]
    BY <2>1
  <2>3. 1 \in 1..(n + 1) /\ n + 1 \in 1..(n + 1)
    BY <1>2
  <2> QED
    BY <1>1, <1>2, <2>1, <2>2, <2>3
<1>4. ASSUME NEW i \in 1..Len(r)
      PROVE  Continues(x, new[i], r[i]) /\ new[i + 1] = MovesOn(new[i], r[i])
  <2>1. i \in 1..Len(q) /\ new[i] = at[i] /\ new[i + 1] = at[i + 1] /\ r[i] = q[i]
    BY <1>2
  <2> QED
    BY <1>1, <2>1
<1> HIDE DEF new
<1>5. Runs(x, from, r, new[Len(r) + 1])
  BY <1>3, <1>4 DEF Runs
<1> QED
  BY <1>3, <1>5 DEF r

-----------------------------------------------------------------------------
(* The inductive invariant.  x are the sources, d the destinations, the rest *)
(* is as in Line.                                                           *)

\* How many bytes of its file an end has behind it.
At(s) ==
    IF s.pc \in {"stream", "drain"} THEN s.pos
    ELSE IF s.pc = "open" THEN s.off[s.idx] ELSE 0

\* The frames under way continue what the handler has, up to where the sender is.
Flow(x, s, h, q, l) ==
    h.pc \in AtFiles =>
        \E end \in Nat : Runs(x, At(h), q, end) /\ (l = "up" => end = At(s))

\* The sender sends what is in its sources.
Honest(x, s) ==
    s.pc # "idle" =>
        /\ \A f \in Files : x[f] # None /\ s.size[f] = Len(x[f])
        /\ \A f \in Files : s.off[f] # Skip => s.off[f] <= Len(x[f])
        /\ s.pc = "stream" =>
              s.pos <= Len(x[s.idx]) /\ s.hash = Prefix(x[s.idx], s.pos)

\* The handler has not opened the file yet.
Ahead(h, f) == h.idx < f \/ (h.idx = f /\ h.pc = "file")

\* The handler's offsets are what the destinations still call for, the files behind
\* it are complete, and the one it has open holds so much of its source.
Backed(x, d, h) ==
    /\ h.pc \in AtFiles \cup {"acked"} => \A f \in Files :
        /\ Ahead(h, f) => h.off[f] = Decision(x[f], d[f])
        /\ f < h.idx => Settled(x[f], d[f]) /\ (h.off[f] # Skip => d[f] = x[f])
    /\ h.pc = "open" =>
        h.off[h.idx] <= Len(x[h.idx]) /\ d[h.idx] = Prefix(x[h.idx], h.off[h.idx])
    /\ h.pc = "drain" => h.pos <= Len(x[h.idx]) /\ d[h.idx] = Prefix(x[h.idx], h.pos)

\* What the two ends tell each other about the files is so.
Truthful(x, d, q, p) ==
    /\ p # <<>> /\ Head(p).kind = "HelloAck" =>
        \A f \in Files : Head(p).have[f] = Held(d[f])
    /\ p # <<>> /\ Head(p).kind = "ResumeAnswerBatch" =>
        \A f \in Files : Head(p).answers[f] # Skip => Head(p).answers[f] <= Len(x[f])
    /\ q # <<>> /\ Head(q).kind = "ResumeQueryBatch" =>
        \A f \in Files : Head(q).queries[f] = IF Held(d[f]) = 0 THEN None ELSE Asked(x[f])

Faithful(x, d, s, h, q, p, l) ==
    Honest(x, s) /\ Backed(x, d, h) /\ Truthful(x, d, q, p) /\ Flow(x, s, h, q, l)

\* Nothing has gone wrong on a connection: it is up, or both ends are through.
Smooth(s, h, p, l) ==
    \/ s.pc = "idle"
    \/ l = "up" /\ s.pc \notin {"ok", "failed"} /\ h.pc \notin {"acked", "failed"}
    \/ h.pc = "acked" /\ (s.pc = "ok" \/ (s.pc = "ack" /\ p # <<>>))

FaithfulAt(c) == Faithful(src, dest, snd[c], rcv[c], toR[c], toS[c], link[c])
SmoothAt(c) ==
    c \in hit \/ snd[c].cancelled \/ Smooth(snd[c], rcv[c], toS[c], link[c])

Contents == edits = 0 => \A c \in Conns : FaithfulAt(c) /\ SmoothAt(c)

ContentsInv == DeliveryInv /\ Lines /\ Contents

-----------------------------------------------------------------------------
(* A connection and the others.                                            *)

\* A step of c, whoever takes it, leaves the other connections alone.
LEMMA StepsElsewhere ==
    ASSUME TypeInv, NEW c \in Conns,
           \/ Send(c) \/ SenderStep(c) \/ HandlerStep(c)
           \/ LinkFails(c) \/ HandlerDies(c) \/ Cancel(c)
    PROVE  Elsewhere(c)
<1> USE DEF Elsewhere
<1>1. /\ snd \in [Conns -> SenderState] /\ rcv \in [Conns -> HandlerState]
      /\ toR \in [Conns -> Seq(ToReceiver)] /\ toS \in [Conns -> Seq(ToSender)]
      /\ link \in [Conns -> {"none", "up", "down"}]
      /\ told \in [Conns -> [Files -> File \cup {None}]]
      /\ taken \in [Conns -> [Files -> File \cup {None}]]
  BY DEF TypeInv, TypeOK
<1>2. CASE Send(c)
  BY <1>1, <1>2 DEF Send
<1>3. CASE SenderStep(c)
  <2>1. CASE StartFresh(c) BY <1>1, <2>1 DEF StartFresh, ghosts
  <2>2. CASE SendQueries(c) BY <1>1, <2>2 DEF SendQueries, ghosts
  <2>3. CASE RecvAnswers(c) BY <1>1, <2>3 DEF RecvAnswers, ghosts
  <2>4. CASE SendFileStart(c) BY <1>1, <2>4 DEF SendFileStart, ghosts
  <2>5. CASE SourceFails(c) BY <1>1, <2>5 DEF SourceFails, SenderEnds, ghosts
  <2>6. CASE StreamChunk(c) BY <1>1, <2>6 DEF StreamChunk, ghosts
  <2>7. CASE StreamEnd(c) BY <1>1, <2>7 DEF StreamEnd, ghosts
  <2>8. CASE CancelSeen(c) BY <1>1, <2>8 DEF CancelSeen, SenderEnds, ghosts
  <2>9. CASE SendDone(c) BY <1>1, <2>9 DEF SendDone, ghosts
  <2>10. CASE RecvDoneAck(c) BY <1>1, <2>10 DEF RecvDoneAck, SenderEnds, ghosts
  <2>11. CASE SenderIOError(c) BY <1>1, <2>11 DEF SenderIOError, SenderEnds, ghosts
  <2> QED
    BY <1>3, <2>1, <2>2, <2>3, <2>4, <2>5, <2>6, <2>7, <2>8, <2>9, <2>10, <2>11 DEF SenderStep
<1>4. CASE HandlerStep(c)
  <2>1. CASE RecvHello(c) BY <1>1, <2>1 DEF RecvHello, ghosts
  <2>2. CASE RecvQueries(c) BY <1>1, <2>2 DEF RecvQueries, ghosts
  <2>3. CASE RecvFileStart(c) BY <1>1, <2>3 DEF RecvFileStart, ghosts
  <2>4. CASE HashPrefix(c) BY <1>1, <2>4 DEF HashPrefix, wires, ghosts
  <2>5. CASE PrefixGone(c) BY <1>1, <2>5 DEF PrefixGone, HandlerEnds, ghosts
  <2>6. CASE RecvData(c) BY <1>1, <2>6 DEF RecvData, ghosts
  <2>7. CASE RecvFileDone(c) BY <1>1, <2>7 DEF RecvFileDone, ghosts
  <2>8. CASE ChecksumMismatch(c) BY <1>1, <2>8 DEF ChecksumMismatch, HandlerEnds, ghosts
  <2>9. CASE RecvDone(c) BY <1>1, <2>9 DEF RecvDone, HandlerEnds, ghosts
  <2>10. CASE HandlerEOF(c) BY <1>1, <2>10 DEF HandlerEOF, HandlerEnds, ghosts
  <2> QED
    BY <1>4, <2>1, <2>2, <2>3, <2>4, <2>5, <2>6, <2>7, <2>8, <2>9, <2>10 DEF HandlerStep
<1>5. CASE LinkFails(c)
  BY <1>1, <1>5 DEF LinkFails, ghosts
<1>6. CASE HandlerDies(c)
  BY <1>1, <1>6 DEF HandlerDies, HandlerEnds, ghosts
<1>7. CASE Cancel(c)
  BY <1>1, <1>7 DEF Cancel, wires, ghosts
<1> QED
  BY <1>2, <1>3, <1>4, <1>5, <1>6, <1>7

\* What is known of a connection.
LEMMA KnownOf ==
    ASSUME ContentsInv, edits = 0, NEW c \in Conns
    PROVE  LET s == snd[c]
               h == rcv[c]
               q == toR[c]
               p == toS[c]
               l == link[c]
           IN  /\ s \in SenderState /\ SenderSound(s)
               /\ h \in HandlerState /\ HandlerSound(h, dest) /\ HoldsItsFile(c)
               /\ q \in Seq(ToReceiver) /\ p \in Seq(ToSender)
               /\ InStep(s, h, q, p, l) /\ Confirmed(s, h, q, p, told[c], taken[c])
               /\ Honest(src, s) /\ Backed(src, dest, h) /\ Truthful(src, dest, q, p)
               /\ Flow(src, s, h, q, l)
               /\ SmoothAt(c)
<1>1. FaithfulAt(c) /\ SmoothAt(c) /\ HoldsItsFile(c) /\ TypeInv /\ Lines
  BY DEF ContentsInv, Contents, DeliveryInv
<1> QED
  BY <1>1, AtConn DEF FaithfulAt, Faithful, LineTypes, Line

\* Answers are alone under way.
LEMMA AnswersAlone ==
    ASSUME ContentsInv, edits = 0, NEW c \in Conns, toS[c] # <<>>,
           Head(toS[c]).kind \in {"HelloAck", "ResumeAnswerBatch"}
    PROVE  toR[c] = <<>> /\ snd[c].pc \in {"hello", "query"}
<1>1. /\ snd[c] \in SenderState
      /\ SenderSide(snd[c], rcv[c], toR[c], toS[c], link[c])
  BY KnownOf DEF InStep
<1>2. snd[c].pc \in {"hello", "query", "ack"}
  BY <1>1 DEF SenderSide, SenderState
<1> QED
  BY <1>1, <1>2 DEF SenderSide, Single

\* A connection at rest stays as it is, whatever is done to files not settled.
LEMMA AtRestFaithful ==
    ASSUME ContentsInv, edits = 0, NEW d \in Conns, d \notin Live, src' = src,
           snd'[d] = snd[d], rcv'[d] = rcv[d], toR'[d] = toR[d], toS'[d] = toS[d],
           link'[d] = link[d],
           \A f \in Files : Settled(src[f], dest[f]) => dest'[f] = dest[f]
    PROVE  FaithfulAt(d)'
<1>1. /\ snd[d].pc \in {"idle", "ok", "failed"}
      /\ rcv[d].pc \in {"none", "acked", "failed"}
  BY DEF Live, Senders, Handlers
<1>2. toR[d] = <<>> /\ toS[d] = <<>>
  BY <1>1, KnownOf DEF InStep, HandlerSide, SenderSide
<1>3. Honest(src, snd[d]) /\ Truthful(src, dest', toR[d], toS[d])
  BY <1>2, KnownOf DEF Truthful
<1>4. Flow(src, snd[d], rcv[d], toR[d], link[d])
  BY <1>1 DEF Flow, AtFiles
<1>5. Backed(src, dest', rcv[d])
  <2>1. rcv[d].pc = "acked" => rcv[d].idx = NFiles + 1
    BY KnownOf DEF Confirmed
  <2>2. Backed(src, dest, rcv[d])
    BY KnownOf
  <2>3. ASSUME NEW f \in Files, rcv[d].pc = "acked"
        PROVE  ~Ahead(rcv[d], f)
    BY <2>1, <2>3, CountsAssumption DEF Ahead, Files
  <2> QED
    BY <1>1, <2>2, <2>3 DEF Backed, AtFiles
<1> QED
  BY <1>3, <1>4, <1>5 DEF FaithfulAt, Faithful

\* A step of one connection, while no other is at work.
LEMMA ContentsStep ==
    ASSUME ContentsInv, edits = 0, src' = src, NEW c \in Conns, Elsewhere(c),
           \A d \in Conns \ {c} : d \notin Live, hit \subseteq hit',
           \A f \in Files : Settled(src[f], dest[f]) => dest'[f] = dest[f],
           FaithfulAt(c)', SmoothAt(c)'
    PROVE  Contents'
<1> SUFFICES ASSUME NEW d \in Conns PROVE (FaithfulAt(d) /\ SmoothAt(d))'
  BY DEF Contents
<1>1. CASE d = c
  BY <1>1
<1>2. CASE d # c
  <2>1. FaithfulAt(d)'
    BY <1>2, AtRestFaithful DEF Elsewhere
  <2>2. SmoothAt(d)
    BY KnownOf
  <2> QED
    BY <1>2, <2>1, <2>2 DEF Elsewhere, SmoothAt
<1> QED
  BY <1>1, <1>2

\* Who takes a step is alone at work.
LEMMA AloneAtWork ==
    ASSUME ContentsInv, NEW c \in Live
    PROVE  \A d \in Conns \ {c} : d \notin Live
BY DEF ContentsInv, DeliveryInv, OneLive

-----------------------------------------------------------------------------
(* The steps of the sender.                                                *)

\* A frame that goes out continues the others.
LEMMA FlowGrows ==
    ASSUME NEW x, NEW s, NEW r, NEW h, NEW l, NEW q \in Seq(ToReceiver), NEW m \in ToReceiver,
           Flow(x, s, h, q, l), Continues(x, At(s), m), At(r) = MovesOn(At(s), m), At(r) \in Nat
    PROVE  Flow(x, r, h, IF l = "up" THEN Append(q, m) ELSE q, l)
<1> SUFFICES ASSUME h.pc \in AtFiles
             PROVE  \E end \in Nat :
                       /\ Runs(x, At(h), IF l = "up" THEN Append(q, m) ELSE q, end)
                       /\ l = "up" => end = At(r)
  BY DEF Flow
<1>1. PICK end \in Nat : Runs(x, At(h), q, end) /\ (l = "up" => end = At(s))
  BY DEF Flow
<1>2. CASE l = "up"
  <2>1. Runs(x, At(h), Append(q, m), At(r))
    BY <1>1, <1>2, RunsAppend
  <2> QED
    BY <1>2, <2>1
<1>3. CASE l # "up"
  BY <1>1, <1>3
<1> QED
  BY <1>2, <1>3

\* A frame of the loop over the files goes out.
LEMMA Writes ==
    ASSUME NEW x, NEW d, NEW s, NEW r, NEW h, NEW l,
           NEW q \in Seq(ToReceiver), NEW m \in ToReceiver, m.kind # "ResumeQueryBatch",
           Flow(x, s, h, q, l), Continues(x, At(s), m), At(r) = MovesOn(At(s), m), At(r) \in Nat,
           Truthful(x, d, q, <<>>)
    PROVE  LET q1 == IF l = "up" THEN Append(q, m) ELSE q
           IN  Flow(x, r, h, q1, l) /\ Truthful(x, d, q1, <<>>)
<1> DEFINE q1 == IF l = "up" THEN Append(q, m) ELSE q
<1>1. Flow(x, r, h, q1, l)
  BY FlowGrows
<1>2. ASSUME q1 # <<>> PROVE Head(q1) = m \/ (q # <<>> /\ Head(q1) = Head(q))
  <2>1. q = <<>> => Head(Append(q, m)) = m
    OBVIOUS
  <2>2. q # <<>> => Head(Append(q, m)) = Head(q)
    <3>1. q # <<>> => Len(q) \in Nat \ {0}
      BY LenProperties, EmptySeq
    <3> QED
      BY <3>1, AppendProperties
  <2> QED
    BY <1>2, <2>1, <2>2
<1> HIDE DEF q1
<1>3. Truthful(x, d, q1, <<>>)
  BY <1>2 DEF Truthful
<1> QED
  BY <1>1, <1>3 DEF q1

\* A sender that goes on has nothing against it.
LEMMA GoesOn ==
    ASSUME NEW s, NEW r, NEW h, NEW p, NEW p1, NEW l, Smooth(s, h, p, l),
           s.pc \in {"hello", "query", "file", "stream"},
           r.pc \in {"query", "file", "stream", "ack"}
    PROVE  Smooth(r, h, p1, l)
BY DEF Smooth

LEMMA StartFreshContents ==
    ASSUME ContentsInv, edits = 0, Lines', NEW c \in Conns, StartFresh(c)
    PROVE  (FaithfulAt(c) /\ SmoothAt(c))'
<1> DEFINE s == snd[c]
           r == [s EXCEPT !.pc = "file"]
<1>1. /\ s.pc = "hello" /\ snd' = [snd EXCEPT ![c] = r]
      /\ UNCHANGED <<src, dest, rcv, toR, link, hit>>
  BY DEF StartFresh, ghosts
<1>2. /\ r.pc = "file" /\ r.size = s.size /\ r.off = s.off /\ r.cancelled = s.cancelled
      /\ snd'[c] = r /\ s \in SenderState
  BY <1>1, KnownOf DEF SenderState, ContentsInv, DeliveryInv, TypeInv, TypeOK
<1> HIDE DEF r
<1>3. toS'[c] = <<>>
  BY <1>2 DEF Lines, LineOf, Line, InStep, SenderSide
<1>4. Honest(src, r)
  BY <1>1, <1>2, KnownOf DEF Honest
<1>5. Truthful(src, dest, toR[c], <<>>)
  BY KnownOf DEF Truthful
<1>6. Flow(src, r, rcv[c], toR[c], link[c])
  <2>1. At(s) = 0 /\ At(r) = 0
    BY <1>1, <1>2 DEF At
  <2> QED
    BY <2>1, KnownOf DEF Flow
<1>7. FaithfulAt(c)'
  BY <1>1, <1>2, <1>3, <1>4, <1>5, <1>6, KnownOf DEF FaithfulAt, Faithful
<1>8. SmoothAt(c)'
  BY <1>1, <1>2, KnownOf, GoesOn DEF SmoothAt
<1> QED
  BY <1>7, <1>8

LEMMA SendQueriesContents ==
    ASSUME ContentsInv, edits = 0, Lines', NEW c \in Conns, SendQueries(c)
    PROVE  (FaithfulAt(c) /\ SmoothAt(c))'
<1> DEFINE s == snd[c]
           have == Head(toS[c]).have
           asked == Candidates(have)
           batch == [f \in Files |->
               IF f \in asked THEN ResumeQuery(s.size[f], src[f]) ELSE None]
           m == QueryBatch(batch)
           r == [s EXCEPT !.pc = "query"]
<1>1. /\ s.pc = "hello" /\ snd' = [snd EXCEPT ![c] = r]
      /\ toS[c] # <<>> /\ Head(toS[c]).kind = "HelloAck" /\ asked # {}
      /\ toR' = [toR EXCEPT ![c] = Put(c, toR, <<m>>)]
      /\ UNCHANGED <<src, dest, rcv, link, hit>>
  BY DEF SendQueries, ghosts
<1>2. /\ r.pc = "query" /\ r.size = s.size /\ r.off = s.off /\ r.cancelled = s.cancelled
      /\ snd'[c] = r /\ s \in SenderState
  BY <1>1, KnownOf DEF SenderState, ContentsInv, DeliveryInv, TypeInv, TypeOK
<1>3. toR[c] = <<>> /\ Agreed(rcv[c], Head(toS[c]))
  BY <1>1, KnownOf DEF InStep, SenderSide
<1>4. toS'[c] = <<>>
  <2>1. Single(toS[c], "HelloAck") /\ toS[c] \in Seq(ToSender)
    BY <1>1, KnownOf DEF InStep, SenderSide
  <2>2. Head(toS[c]) \in ToSender
    BY <1>1, <2>1, HeadTailProperties
  <2>3. Tail(toS[c]) = <<>>
    BY <2>1, <2>2, OneFrame
  <2> QED
    BY <2>3 DEF SendQueries, ContentsInv, DeliveryInv, TypeInv, TypeOK
<1>5. rcv[c].pc \notin AtFiles
  BY <1>1, <1>3 DEF Agreed, AtFiles
<1>6. \A f \in Files : src[f] # None /\ s.size[f] = Len(src[f]) /\ have[f] = Held(dest[f])
  BY <1>1, KnownOf DEF Honest, Truthful
<1>7. \A f \in Files : batch[f] = IF Held(dest[f]) = 0 THEN None ELSE Asked(src[f])
  <2> SUFFICES ASSUME NEW f \in Files
               PROVE  batch[f] = IF Held(dest[f]) = 0 THEN None ELSE Asked(src[f])
    OBVIOUS
  <2>1. f \in asked <=> Held(dest[f]) > 0
    BY <1>6 DEF Candidates
  <2>2. Held(dest[f]) \in Nat
    BY IsAFile DEF Held, ContentsInv, DeliveryInv, TypeInv, TypeOK
  <2> QED
    BY <1>6, <2>1, <2>2 DEF Asked
<1> HIDE DEF batch, r
<1>8. toR'[c] = <<>> \/ toR'[c] = <<m>>
  BY <1>1, <1>3 DEF Put, ContentsInv, DeliveryInv, TypeInv, TypeOK
<1>9. Head(<<m>>) = m /\ m.queries = batch
  BY DEF QueryBatch
<1>10. Honest(src, r)
  BY <1>1, <1>2, KnownOf DEF Honest
<1>11. Truthful(src, dest, toR'[c], <<>>)
  BY <1>7, <1>8, <1>9 DEF Truthful
<1>12. FaithfulAt(c)'
  BY <1>1, <1>2, <1>4, <1>5, <1>10, <1>11, KnownOf DEF FaithfulAt, Faithful, Flow
<1>13. SmoothAt(c)'
  BY <1>1, <1>2, KnownOf, GoesOn DEF SmoothAt
<1> QED
  BY <1>12, <1>13

LEMMA RecvAnswersContents ==
    ASSUME ContentsInv, edits = 0, Lines', NEW c \in Conns, RecvAnswers(c)
    PROVE  (FaithfulAt(c) /\ SmoothAt(c))'
<1> DEFINE s == snd[c]
           answers == Head(toS[c]).answers
           next == NextFile(answers, 1)
           r == [s EXCEPT !.pc = "file", !.off = answers, !.idx = next]
<1>1. /\ s.pc = "query" /\ snd' = [snd EXCEPT ![c] = r]
      /\ toS[c] # <<>> /\ Head(toS[c]).kind = "ResumeAnswerBatch"
      /\ UNCHANGED <<src, dest, rcv, toR, link, hit>>
  BY DEF RecvAnswers, ghosts
<1> HIDE DEF next
<1>2. /\ r.pc = "file" /\ r.size = s.size /\ r.off = answers /\ r.cancelled = s.cancelled
      /\ snd'[c] = r /\ s \in SenderState
  BY <1>1, KnownOf DEF SenderState, ContentsInv, DeliveryInv, TypeInv, TypeOK
<1> HIDE DEF r
<1>3. toS'[c] = <<>>
  BY <1>2 DEF Lines, LineOf, Line, InStep, SenderSide
<1>4. Honest(src, r)
  BY <1>1, <1>2, KnownOf DEF Honest, Truthful
<1>5. Truthful(src, dest, toR[c], <<>>)
  BY KnownOf DEF Truthful
<1>6. Flow(src, r, rcv[c], toR[c], link[c])
  <2>1. At(s) = 0 /\ At(r) = 0
    BY <1>1, <1>2 DEF At
  <2> QED
    BY <2>1, KnownOf DEF Flow
<1>7. FaithfulAt(c)'
  BY <1>1, <1>2, <1>3, <1>4, <1>5, <1>6, KnownOf DEF FaithfulAt, Faithful
<1>8. SmoothAt(c)'
  BY <1>1, <1>2, KnownOf, GoesOn DEF SmoothAt
<1> QED
  BY <1>7, <1>8

LEMMA SendFileStartContents ==
    ASSUME ContentsInv, edits = 0, NEW c \in Conns, SendFileStart(c)
    PROVE  (FaithfulAt(c) /\ SmoothAt(c))'
<1> DEFINE s == snd[c]
           f == s.idx
           offset == s.off[f]
           r == [s EXCEPT !.pc = "stream", !.pos = offset, !.hash = Prefix(src[f], offset)]
           m == FileStart(f, offset)
<1>1. /\ s.pc = "file" /\ f \in Files /\ snd' = [snd EXCEPT ![c] = r]
      /\ offset <= Len(src[f])
      /\ toR' = [toR EXCEPT ![c] = Put(c, toR, <<m>>)]
      /\ UNCHANGED <<src, dest, rcv, toS, link, hit>>
  BY DEF SendFileStart, PrefixDigest, Resumable, ghosts
<1>2. /\ s \in SenderState /\ offset \in Nat
  <2>1. s \in SenderState /\ SenderSound(s)
    BY KnownOf
  <2> QED
    BY <1>1, <2>1 DEF SenderState, SenderSound, Offset
<1>3. m \in ToReceiver /\ m.kind = "FileStart" /\ m.offset = offset
  BY <1>1, <1>2 DEF FileStart, ToReceiver
<1> DEFINE digest == Prefix(src[f], offset)
<1> HIDE DEF offset, digest
<1>4. /\ r.pc = "stream" /\ r.size = s.size /\ r.off = s.off /\ r.idx = f
      /\ r.pos = offset /\ r.hash = digest /\ r.cancelled = s.cancelled
      /\ snd'[c] = r
  BY <1>1, <1>2 DEF SenderState, ContentsInv, DeliveryInv, TypeInv, TypeOK, digest
<1> HIDE DEF r, m
<1>5. toS[c] = <<>>
  BY <1>1, KnownOf DEF InStep, SenderSide
<1>6. toR'[c] = IF link[c] = "up" THEN Append(toR[c], m) ELSE toR[c]
  BY <1>1, <1>3, ToReceiverPut DEF ContentsInv, DeliveryInv
<1>7. Honest(src, r)
  BY <1>1, <1>4, KnownOf DEF Honest, digest
<1>8. Flow(src, r, rcv[c], toR'[c], link[c]) /\ Truthful(src, dest, toR'[c], <<>>)
  <2>1. At(r) = MovesOn(At(s), m) /\ At(r) \in Nat /\ Continues(src, At(s), m)
    BY <1>2, <1>3, <1>4 DEF At, MovesOn, Continues
  <2>2. toR[c] \in Seq(ToReceiver) /\ Flow(src, s, rcv[c], toR[c], link[c])
        /\ Truthful(src, dest, toR[c], <<>>)
    BY <1>5, KnownOf
  <2> QED
    BY <1>3, <1>6, <2>1, <2>2, Writes
<1>9. FaithfulAt(c)'
  BY <1>1, <1>4, <1>5, <1>7, <1>8, KnownOf DEF FaithfulAt, Faithful
<1>10. SmoothAt(c)'
  BY <1>1, <1>4, KnownOf, GoesOn DEF SmoothAt
<1> QED
  BY <1>9, <1>10

LEMMA StreamChunkContents ==
    ASSUME ContentsInv, edits = 0, NEW c \in Conns, StreamChunk(c)
    PROVE  (FaithfulAt(c) /\ SmoothAt(c))'
<1> DEFINE s == snd[c]
           f == s.idx
           data == SubSeq(src[f], s.pos + 1, s.pos + ChunkSize)
           r == [s EXCEPT !.pos = s.pos + ChunkSize, !.hash = s.hash \o data]
           m == Data(f, data)
<1>1. /\ s.pc = "stream" /\ Len(src[f]) - s.pos >= ChunkSize
      /\ snd' = [snd EXCEPT ![c] = r]
      /\ toR' = [toR EXCEPT ![c] = Put(c, toR, <<m>>)]
      /\ UNCHANGED <<src, dest, rcv, toS, link, hit>>
  BY DEF StreamChunk, Unread, ghosts
<1>2. /\ s \in SenderState /\ f \in Files /\ src[f] \in File /\ Len(src[f]) \in Nat /\ s.pos \in Nat
      /\ s.pos + ChunkSize <= Len(src[f]) /\ ChunkSize \in Nat \ {0}
      /\ s.hash = Prefix(src[f], s.pos)
  <2>1. s \in SenderState /\ SenderSound(s) /\ Honest(src, s)
    BY KnownOf
  <2>2. f \in Files /\ src[f] \in File
    BY <1>1, <2>1 DEF SenderSound, ContentsInv, DeliveryInv, TypeInv, TypeOK
  <2>3. Len(src[f]) \in Nat /\ s.pos \in Nat
    BY <2>1, <2>2, IsAFile DEF SenderState
  <2> QED
    BY <1>1, <2>1, <2>2, <2>3, ChunkSizeAssumption DEF Honest
<1>3. data \in File /\ Len(data) = ChunkSize
  <2>1. \A i \in (s.pos + 1)..(s.pos + ChunkSize) : src[f][i] \in Byte
    BY <1>2, ElementOfSeq DEF File
  <2>2. s.pos + 1 \in Int /\ s.pos + ChunkSize \in Int /\ s.pos + 1 <= s.pos + ChunkSize
    BY <1>2
  <2>3. data \in Seq(Byte) /\ Len(data) = (s.pos + ChunkSize) - (s.pos + 1) + 1
    BY <2>1, <2>2, SubSeqProperties
  <2> QED
    BY <1>2, <2>3 DEF File
<1>4. s.hash \o data = Prefix(src[f], s.pos + ChunkSize)
  <2>1. s.pos \in 0..Len(src[f]) /\ s.pos + Len(data) <= Len(src[f])
    <3> HIDE DEF data
    <3> QED
      BY <1>2, <1>3
  <2>2. data = SubSeq(src[f], s.pos + 1, s.pos + Len(data))
    BY <1>3
  <2> HIDE DEF data
  <2> QED
    BY <1>2, <1>3, <2>1, <2>2, WritingBuilds
<1>5. m \in ToReceiver /\ m.kind = "Data" /\ m.file = f /\ m.payload = data
  BY <1>2, <1>3 DEF Data, ToReceiver
<1> DEFINE digest == s.hash \o data
<1>6. data = SubSeq(src[f], s.pos + 1, s.pos + ChunkSize)
  OBVIOUS
<1> HIDE DEF data, digest
<1>7. /\ r.pc = "stream" /\ r.size = s.size /\ r.off = s.off /\ r.idx = f
      /\ r.pos = s.pos + ChunkSize /\ r.hash = digest /\ r.cancelled = s.cancelled
      /\ snd'[c] = r
  BY <1>1, <1>2 DEF SenderState, ContentsInv, DeliveryInv, TypeInv, TypeOK, digest
<1> HIDE DEF r, m
<1>8. toS[c] = <<>>
  BY <1>1, KnownOf DEF InStep, SenderSide
<1>9. toR'[c] = IF link[c] = "up" THEN Append(toR[c], m) ELSE toR[c]
  BY <1>1, <1>5, ToReceiverPut DEF ContentsInv, DeliveryInv
<1>10. Honest(src, r)
  BY <1>1, <1>2, <1>4, <1>7, KnownOf DEF Honest, digest
<1>11. Flow(src, r, rcv[c], toR'[c], link[c]) /\ Truthful(src, dest, toR'[c], <<>>)
  <2>1. At(r) = MovesOn(At(s), m) /\ At(r) \in Nat /\ Continues(src, At(s), m)
    <3>1. At(s) = s.pos /\ At(r) = s.pos + ChunkSize
      BY <1>1, <1>7 DEF At
    <3>2. MovesOn(At(s), m) = s.pos + ChunkSize
      BY <1>3, <1>5, <3>1 DEF MovesOn
    <3>3. Continues(src, At(s), m)
      BY <1>2, <1>3, <1>5, <1>6, <3>1 DEF Continues
    <3> QED
      BY <1>2, <3>1, <3>2, <3>3
  <2>2. toR[c] \in Seq(ToReceiver) /\ Flow(src, s, rcv[c], toR[c], link[c])
        /\ Truthful(src, dest, toR[c], <<>>)
    BY <1>8, KnownOf
  <2> QED
    BY <1>5, <1>9, <2>1, <2>2, Writes
<1>12. FaithfulAt(c)'
  BY <1>1, <1>7, <1>8, <1>10, <1>11, KnownOf DEF FaithfulAt, Faithful
<1>13. SmoothAt(c)'
  BY <1>1, <1>7, KnownOf, GoesOn DEF SmoothAt
<1> QED
  BY <1>12, <1>13

\* What is left of a source ends it.
LEMMA RestEnds ==
    ASSUME NEW x \in File, NEW n \in 0..Len(x)
    PROVE  LET rest == SubSeq(x, n + 1, Len(x))
           IN  /\ rest \in File /\ Len(rest) = Len(x) - n
               /\ Prefix(x, n) \o rest = x
<1> DEFINE rest == SubSeq(x, n + 1, Len(x))
<1>1. Len(x) \in Nat /\ n \in Nat
  BY IsAFile
<1>2. \A i \in (n + 1)..Len(x) : x[i] \in Byte
  BY <1>1, ElementOfSeq DEF File
<1>3. n + 1 \in Int /\ Len(x) \in Int
  BY <1>1
<1>4. rest \in Seq(Byte) /\ Len(rest) = IF n + 1 <= Len(x) THEN Len(x) - (n + 1) + 1 ELSE 0
  BY <1>2, <1>3, SubSeqProperties
<1>5. rest \in File /\ Len(rest) = Len(x) - n
  BY <1>1, <1>4 DEF File
<1>6. rest = SubSeq(x, n + 1, n + Len(rest)) /\ n + Len(rest) = Len(x)
  <2>1. n + Len(rest) = Len(x)
    BY <1>1, <1>5
  <2> QED
    BY <2>1
<1> HIDE DEF rest
<1>7. Prefix(x, n) \o rest = Prefix(x, Len(x))
  <2>1. n + Len(rest) <= Len(x)
    BY <1>1, <1>6
  <2> QED
    BY <1>5, <1>6, <2>1, WritingBuilds
<1> QED
  BY <1>5, <1>7, PrefixAll DEF rest

LEMMA StreamEndContents ==
    ASSUME ContentsInv, edits = 0, NEW c \in Conns, StreamEnd(c)
    PROVE  (FaithfulAt(c) /\ SmoothAt(c))'
<1> DEFINE s == snd[c]
           f == s.idx
           l == link[c]
           rest == SubSeq(src[f], s.pos + 1, Len(src[f]))
           sum == s.hash \o rest
           frames == IF rest = <<>> THEN <<>> ELSE <<Data(f, rest)>>
           next == NextFile(s.off, f + 1)
           r == [s EXCEPT !.pc = "file", !.idx = next]
           q1 == IF l = "up" /\ frames # <<>> THEN Append(toR[c], Data(f, rest)) ELSE toR[c]
           m == FileDone(f, sum)
           s1 == [pc |-> "stream", pos |-> Len(src[f])]
<1>1. /\ s.pc = "stream"
      /\ snd' = [snd EXCEPT ![c] = r]
      /\ toR' = [toR EXCEPT ![c] = Put(c, toR, Append(frames, m))]
      /\ UNCHANGED <<src, dest, rcv, toS, link, hit>>
  BY DEF StreamEnd
<1>2. /\ s \in SenderState /\ f \in Files /\ src[f] \in File /\ Len(src[f]) \in Nat /\ s.pos \in Nat
      /\ s.pos \in 0..Len(src[f]) /\ s.hash = Prefix(src[f], s.pos)
  <2>1. s \in SenderState /\ SenderSound(s) /\ Honest(src, s)
    BY KnownOf
  <2>2. f \in Files /\ src[f] \in File
    BY <1>1, <2>1 DEF SenderSound, ContentsInv, DeliveryInv, TypeInv, TypeOK
  <2>3. Len(src[f]) \in Nat /\ s.pos \in Nat
    BY <2>1, <2>2, IsAFile DEF SenderState
  <2> QED
    BY <1>1, <2>1, <2>2, <2>3 DEF Honest
<1>3. rest \in File /\ Len(rest) = Len(src[f]) - s.pos /\ sum = src[f]
  BY <1>2, RestEnds
<1>4. rest = SubSeq(src[f], s.pos + 1, s.pos + Len(rest)) /\ s.pos + Len(rest) = Len(src[f])
  <2>1. s.pos + Len(rest) = Len(src[f])
    BY <1>2, <1>3
  <2> QED
    BY <2>1
<1>5. frames \in {<<>>, <<Data(f, rest)>>} /\ (frames = <<>> => Len(rest) = 0)
  <2>1. Len(<<Data(f, rest)>>) = 1 /\ Len(<<>>) = 0
    OBVIOUS
  <2> HIDE DEF rest
  <2> QED
    BY <2>1
<1> HIDE DEF rest, sum, next, frames
<1>6. /\ m \in ToReceiver /\ m.kind = "FileDone" /\ m.file = f /\ m.sum = sum
      /\ Data(f, rest) \in ToReceiver /\ Data(f, rest).kind = "Data"
      /\ Data(f, rest).file = f /\ Data(f, rest).payload = rest
  BY <1>2, <1>3 DEF Data, FileDone, ToReceiver
<1> HIDE DEF m
<1>7. /\ q1 \in Seq(ToReceiver)
      /\ Put(c, toR, Append(frames, m)) = IF l = "up" THEN Append(q1, m) ELSE q1
  BY <1>5, <1>6, LastFrames DEF ContentsInv, DeliveryInv
<1>8. toR'[c] = IF l = "up" THEN Append(q1, m) ELSE q1
  BY <1>1, <1>7 DEF ContentsInv, DeliveryInv, TypeInv, TypeOK
<1>9. /\ r.pc = "file" /\ r.size = s.size /\ r.off = s.off /\ r.cancelled = s.cancelled
      /\ snd'[c] = r
  BY <1>1, <1>2 DEF SenderState, ContentsInv, DeliveryInv, TypeInv, TypeOK
<1> HIDE DEF r
<1>10. toS[c] = <<>>
  BY <1>1, KnownOf DEF InStep, SenderSide
<1>11. Honest(src, r)
  BY <1>1, <1>9, KnownOf DEF Honest
<1>12. At(s) = s.pos /\ At(s1) = Len(src[f]) /\ At(r) = 0
  BY <1>1, <1>9 DEF At
<1> HIDE DEF s1
<1>13. Flow(src, s1, rcv[c], q1, l) /\ Truthful(src, dest, q1, <<>>)
  <2>1. /\ toR[c] \in Seq(ToReceiver) /\ Flow(src, s, rcv[c], toR[c], l)
        /\ Truthful(src, dest, toR[c], <<>>)
    BY <1>10, KnownOf
  <2>2. CASE frames = <<>>
    <3>1. At(s) = At(s1)
      BY <1>2, <1>4, <1>5, <1>12, <2>2
    <3>2. Flow(src, s1, rcv[c], toR[c], l)
      BY <2>1, <3>1 DEF Flow
    <3> QED
      BY <2>1, <2>2, <3>2
  <2>3. CASE frames # <<>>
    <3>1. At(s1) = MovesOn(At(s), Data(f, rest)) /\ At(s1) \in Nat
      BY <1>2, <1>4, <1>6, <1>12 DEF MovesOn
    <3>2. Continues(src, At(s), Data(f, rest))
      BY <1>2, <1>4, <1>6, <1>12 DEF Continues
    <3>3. q1 = IF l = "up" THEN Append(toR[c], Data(f, rest)) ELSE toR[c]
      BY <2>3
    <3> HIDE DEF q1
    <3> QED
      BY <1>6, <2>1, <3>1, <3>2, <3>3, Writes
  <2> QED
    BY <2>2, <2>3
<1> HIDE DEF q1
<1>14. Flow(src, r, rcv[c], toR'[c], l) /\ Truthful(src, dest, toR'[c], <<>>)
  <2>1. At(r) = MovesOn(At(s1), m) /\ At(r) \in Nat
    BY <1>6, <1>12 DEF MovesOn
  <2>2. Continues(src, At(s1), m)
    BY <1>3, <1>6, <1>12 DEF Continues
  <2> QED
    BY <1>6, <1>7, <1>8, <1>13, <2>1, <2>2, Writes
<1>15. FaithfulAt(c)'
  BY <1>1, <1>9, <1>10, <1>11, <1>14, KnownOf DEF FaithfulAt, Faithful
<1>16. SmoothAt(c)'
  BY <1>1, <1>9, KnownOf, GoesOn DEF SmoothAt
<1> QED
  BY <1>15, <1>16

LEMMA SendDoneContents ==
    ASSUME ContentsInv, edits = 0, NEW c \in Conns, SendDone(c)
    PROVE  (FaithfulAt(c) /\ SmoothAt(c))'
<1> DEFINE s == snd[c]
           r == [s EXCEPT !.pc = "ack"]
<1>1. /\ s.pc = "file" /\ snd' = [snd EXCEPT ![c] = r]
      /\ toR' = [toR EXCEPT ![c] = Put(c, toR, <<Done>>)]
      /\ UNCHANGED <<src, dest, rcv, toS, link, hit>>
  BY DEF SendDone, ghosts
<1>2. /\ r.pc = "ack" /\ r.size = s.size /\ r.off = s.off /\ r.cancelled = s.cancelled
      /\ snd'[c] = r
  BY <1>1, KnownOf DEF SenderState, ContentsInv, DeliveryInv, TypeInv, TypeOK
<1> HIDE DEF r
<1>3. Done \in ToReceiver /\ Done.kind = "Done"
  BY DEF Done, ToReceiver
<1>4. toS[c] = <<>>
  BY <1>1, KnownOf DEF InStep, SenderSide
<1>5. toR'[c] = IF link[c] = "up" THEN Append(toR[c], Done) ELSE toR[c]
  BY <1>1, <1>3, ToReceiverPut DEF ContentsInv, DeliveryInv
<1>6. Honest(src, r)
  BY <1>1, <1>2, KnownOf DEF Honest
<1>7. Flow(src, r, rcv[c], toR'[c], link[c]) /\ Truthful(src, dest, toR'[c], <<>>)
  <2>1. At(r) = MovesOn(At(s), Done) /\ At(r) \in Nat /\ Continues(src, At(s), Done)
    BY <1>1, <1>2, <1>3 DEF At, MovesOn, Continues
  <2>2. toR[c] \in Seq(ToReceiver) /\ Flow(src, s, rcv[c], toR[c], link[c])
        /\ Truthful(src, dest, toR[c], <<>>)
    BY <1>4, KnownOf
  <2> QED
    BY <1>3, <1>5, <2>1, <2>2, Writes
<1>8. FaithfulAt(c)'
  BY <1>1, <1>2, <1>4, <1>6, <1>7, KnownOf DEF FaithfulAt, Faithful
<1>9. SmoothAt(c)'
  BY <1>1, <1>2, KnownOf, GoesOn DEF SmoothAt
<1> QED
  BY <1>8, <1>9

LEMMA SenderEndsContents ==
    ASSUME ContentsInv, edits = 0, NEW c \in Conns, NEW how \in {"ok", "failed"},
           SenderEnds(c, how), snd[c].pc # "idle",
           UNCHANGED <<src, dest, rcv, toR, hit>>,
           \/ c \in hit \/ snd[c].cancelled
           \/ how = "ok" /\ rcv[c].pc = "acked"
    PROVE  (FaithfulAt(c) /\ SmoothAt(c))'
<1> DEFINE s == snd[c]
           r == [s EXCEPT !.pc = how]
<1>1. /\ r.pc = how /\ r.size = s.size /\ r.off = s.off /\ r.cancelled = s.cancelled
      /\ snd'[c] = r /\ toS'[c] = <<>> /\ link'[c] = "down"
  BY KnownOf DEF SenderEnds, SenderState, ContentsInv, DeliveryInv, TypeInv, TypeOK
<1> HIDE DEF r
<1>2. Honest(src, r)
  BY <1>1, KnownOf DEF Honest
<1>3. Truthful(src, dest, toR[c], <<>>)
  BY KnownOf DEF Truthful
<1>4. Flow(src, r, rcv[c], toR[c], "down")
  BY KnownOf DEF Flow
<1>5. FaithfulAt(c)'
  BY <1>1, <1>2, <1>3, <1>4, KnownOf DEF FaithfulAt, Faithful
<1>6. SmoothAt(c)'
  BY <1>1 DEF SmoothAt, Smooth
<1> QED
  BY <1>5, <1>6

\* No source is missing or too short for its resume offset.
LEMMA SourcesSuffice ==
    ASSUME ContentsInv, edits = 0, NEW c \in Conns
    PROVE  ~SourceFails(c)
<1> SUFFICES ASSUME SourceFails(c) PROVE FALSE
  OBVIOUS
<1>1. snd[c].pc \in {"hello", "file"}
  BY DEF SourceFails
<1>2. Honest(src, snd[c]) /\ SenderSound(snd[c])
  BY KnownOf
<1>3. Present = Files
  BY <1>1, <1>2 DEF Honest, Present
<1>4. snd[c].idx \in Files => Resumable(c, snd[c].idx)
  BY <1>1, <1>2, <1>3 DEF Honest, SenderSound, Resumable
<1> QED
  BY <1>3, <1>4 DEF SourceFails, Candidates

\* A connection that is down, where the sender still waits, has suffered a fault.
LEMMA DownForAReason ==
    ASSUME ContentsInv, edits = 0, NEW c \in Conns, SenderIOError(c)
    PROVE  c \in hit \/ snd[c].cancelled
<1>1. /\ link[c] = "down" /\ snd[c].pc \notin {"idle", "ok", "failed"}
      /\ snd[c].pc = "ack" => toS[c] = <<>>
  BY DEF SenderIOError, Senders
<1> QED
  BY <1>1, KnownOf DEF SmoothAt, Smooth

LEMMA SenderStepContents ==
    ASSUME ContentsInv, edits = 0, Lines', NEW c \in Conns, SenderStep(c)
    PROVE  /\ (FaithfulAt(c) /\ SmoothAt(c))'
           /\ c \in Live /\ UNCHANGED <<src, dest, hit>>
<1>1. c \in Live /\ UNCHANGED <<src, dest, hit>>
  BY DEF SenderStep, StartFresh, SendQueries, RecvAnswers, SendFileStart, SourceFails,
         StreamChunk, StreamEnd, CancelSeen, SendDone, RecvDoneAck, SenderIOError,
         Live, Senders, ghosts
<1>2. CASE SourceFails(c)
  BY <1>2, SourcesSuffice
<1>3. CASE CancelSeen(c)
  <2>1. /\ SenderEnds(c, "failed") /\ UNCHANGED <<src, dest, rcv, toR, hit>>
        /\ snd[c].pc # "idle" /\ snd[c].cancelled
    BY <1>3 DEF CancelSeen
  <2> QED
    BY <1>1, <2>1, SenderEndsContents, Zenon
<1>4. CASE RecvDoneAck(c)
  <2>1. rcv[c].pc = "acked"
    BY <1>4, KnownOf DEF RecvDoneAck, Confirmed
  <2> QED
    <3>1. /\ SenderEnds(c, "ok") /\ UNCHANGED <<src, dest, rcv, toR, hit>>
          /\ snd[c].pc # "idle"
      BY <1>4 DEF RecvDoneAck
    <3> QED
      BY <1>1, <2>1, <3>1, SenderEndsContents, Zenon
<1>5. CASE SenderIOError(c)
  <2>1. /\ SenderEnds(c, "failed") /\ UNCHANGED <<src, dest, rcv, toR, hit>>
        /\ snd[c].pc # "idle"
    BY <1>5 DEF SenderIOError, Senders
  <2> QED
    BY <1>1, <1>5, <2>1, DownForAReason, SenderEndsContents, Zenon
<1> QED
  BY <1>1, <1>2, <1>3, <1>4, <1>5, StartFreshContents, SendQueriesContents,
     RecvAnswersContents, SendFileStartContents, StreamChunkContents, StreamEndContents,
     SendDoneContents DEF SenderStep

-----------------------------------------------------------------------------
(* The steps of the handler.                                               *)

\* No destination loses what it shares with its source.
Progresses ==
    \A f \in Files : dest'[f] = dest[f] \/ Builds(src[f], dest[f], dest'[f])

\* Once there is a handler, every source is a file.
LEMMA SourcesAreFiles ==
    ASSUME ContentsInv, edits = 0, NEW c \in Conns, rcv[c].pc # "none"
    PROVE  /\ \A f \in Files : src[f] \in File /\ Len(src[f]) \in Nat /\ dest[f] \in File \cup {None}
           /\ snd[c].pc # "idle"
<1>1. snd[c].pc # "idle" /\ Honest(src, snd[c])
  BY KnownOf DEF InStep, SenderSide
<1>2. src \in [Files -> File \cup {None}] /\ dest \in [Files -> File \cup {None}]
  BY DEF ContentsInv, DeliveryInv, TypeInv, TypeOK
<1> QED
  BY <1>1, <1>2, IsAFile DEF Honest

\* The frame that a handler in the loop over the files reads, and what it leaves.
LEMMA FrameRead ==
    ASSUME ContentsInv, edits = 0, NEW c \in Conns, rcv[c].pc \in AtFiles, toR[c] # <<>>
    PROVE  LET h == rcv[c]
               m == Head(toR[c])
               rest == Tail(toR[c])
           IN  /\ m \in ToReceiver /\ Fits(h.off, Place(h), m) /\ Continues(src, At(h), m)
               /\ \E end \in Nat :
                     /\ Runs(src, MovesOn(At(h), m), rest, end)
                     /\ link[c] = "up" => end = At(snd[c])
               /\ \A d : Truthful(src, d, rest, toS[c])
<1> DEFINE h == rcv[c]
           q == toR[c]
<1>1. q \in Seq(ToReceiver) /\ q # <<>> /\ Chain(h.off, Place(h), q)
  BY KnownOf DEF InStep, HandlerSide
<1>2. Fits(h.off, Place(h), Head(q)) /\ Chain(h.off, After(h.off, Head(q)), Tail(q))
  BY <1>1, ChainTail
<1>3. PICK end \in Nat : Runs(src, At(h), q, end) /\ (link[c] = "up" => end = At(snd[c]))
  BY KnownOf DEF Flow
<1>4. /\ Head(q) \in ToReceiver /\ Continues(src, At(h), Head(q))
      /\ Runs(src, MovesOn(At(h), Head(q)), Tail(q), end)
  BY <1>1, <1>3, RunsTail
<1>5. Tail(q) # <<>> => Head(Tail(q)).kind # "ResumeQueryBatch"
  <2>1. Tail(q) \in Seq(ToReceiver)
    BY <1>1, HeadTailProperties
  <2>2. Tail(q) # <<>> => Head(Tail(q)) = Tail(q)[1]
    BY <2>1, HeadTailProperties
  <2> QED
    BY <1>2, <2>2 DEF Chain, Fits
<1>6. toS[c] # <<>> => Head(toS[c]).kind \notin {"HelloAck", "ResumeAnswerBatch"}
  BY <1>1, AnswersAlone
<1>7. \A d : Truthful(src, d, Tail(q), toS[c])
  BY <1>5, <1>6 DEF Truthful
<1> QED
  BY <1>2, <1>3, <1>4, <1>7

\* A handler that goes on with the files has nothing against it.
LEMMA HandlerGoesOn ==
    ASSUME ContentsInv, edits = 0, NEW c \in Conns, rcv[c].pc \notin {"acked", "failed"},
           NEW r, rcv'[c] = r, r.pc \notin {"acked", "failed"},
           UNCHANGED <<src, snd, link, hit>>,
           Backed(src, dest', r), Truthful(src, dest', toR'[c], toS'[c]),
           Flow(src, snd[c], r, toR'[c], link[c])
    PROVE  (FaithfulAt(c) /\ SmoothAt(c))'
<1>1. FaithfulAt(c)'
  BY KnownOf DEF FaithfulAt, Faithful
<1>2. SmoothAt(c)'
  BY KnownOf DEF SmoothAt, Smooth
<1> QED
  BY <1>1, <1>2

LEMMA RecvHelloContents ==
    ASSUME ContentsInv, edits = 0, NEW c \in Conns, RecvHello(c)
    PROVE  (FaithfulAt(c) /\ SmoothAt(c))' /\ Progresses
<1> DEFINE have == [f \in Files |-> IF dest[f] = None THEN 0 ELSE Len(dest[f])]
           pc == IF \E f \in Files : have[f] > 0 THEN "query" ELSE "file"
           m == HelloAck(have)
           r == [rcv[c] EXCEPT !.pc = pc]
<1>1. /\ rcv[c].pc = "hello" /\ toR[c] # <<>>
      /\ rcv' = [rcv EXCEPT ![c] = r]
      /\ toR' = [toR EXCEPT ![c] = Tail(toR[c])]
      /\ toS' = [toS EXCEPT ![c] = Put(c, toS, <<m>>)]
      /\ UNCHANGED <<src, dest, snd, link, hit>>
  BY DEF RecvHello, Incoming, ghosts
<1>2. \A f \in Files : have[f] = Held(dest[f]) /\ have[f] \in Nat
  BY <1>1, SourcesAreFiles, IsAFile DEF Held
<1>3. m.have = have /\ m.kind = "HelloAck"
  BY DEF HelloAck
<1>4. pc \in {"query", "file"} /\ (pc = "file" => \A f \in Files : have[f] = 0)
  BY <1>2
<1> HIDE DEF have, m, pc
<1>5. /\ rcv'[c] = r /\ r.pc = pc /\ r.off = rcv[c].off /\ r.idx = rcv[c].idx
  BY <1>1 DEF HandlerState, ContentsInv, DeliveryInv, TypeInv, TypeOK
<1> HIDE DEF r
<1>6. /\ r.idx = 1 /\ r.off = FromStart /\ toS[c] = <<>>
      /\ snd[c].pc \in {"hello", "failed"} /\ toR[c] \in Seq(ToReceiver)
      /\ Single(toR[c], "Hello")
  BY <1>1, <1>5, KnownOf DEF InStep, HandlerSide
<1>7. Tail(toR[c]) = <<>>
  <2>1. Head(toR[c]) \in ToReceiver
    BY <1>1, <1>6, HeadTailProperties
  <2> QED
    BY <1>6, <2>1, OneFrame
<1>8. toR'[c] = <<>> /\ toS'[c] \in {<<>>, <<m>>}
  BY <1>1, <1>6, <1>7 DEF Put, ContentsInv, DeliveryInv, TypeInv, TypeOK
<1>9. Backed(src, dest, r)
  <2>1. ASSUME r.pc = "file", NEW f \in Files
        PROVE  r.off[f] = Decision(src[f], dest[f]) /\ ~(f < r.idx)
    <3>1. Held(dest[f]) = 0
      BY <1>2, <1>4, <1>5, <2>1
    <3> QED
      BY <1>6, <3>1 DEF Decision, FromStart, Files
  <2> QED
    BY <1>4, <1>5, <2>1 DEF Backed, AtFiles
<1>10. Truthful(src, dest, <<>>, toS'[c])
  <2>1. Head(<<m>>) = m
    OBVIOUS
  <2> QED
    BY <1>2, <1>3, <1>8, <2>1 DEF Truthful
<1>11. Flow(src, snd[c], r, <<>>, link[c])
  <2>1. ASSUME r.pc \in AtFiles PROVE At(r) = 0 /\ At(snd[c]) = 0
    BY <1>4, <1>5, <1>6, <2>1 DEF At, AtFiles
  <2> QED
    BY <2>1, RunsEmpty DEF Flow
<1>12. (FaithfulAt(c) /\ SmoothAt(c))'
  BY <1>1, <1>4, <1>5, <1>8, <1>9, <1>10, <1>11, HandlerGoesOn
<1> QED
  BY <1>1, <1>12 DEF Progresses

LEMMA RecvQueriesContents ==
    ASSUME ContentsInv, edits = 0, NEW c \in Conns, RecvQueries(c)
    PROVE  (FaithfulAt(c) /\ SmoothAt(c))' /\ Progresses
<1> DEFINE queries == Head(toR[c]).queries
           answers == [f \in Files |->
               IF queries[f] = None THEN 0
               ELSE Resolved(matchResume(dest[f], queries[f]))]
           next == NextFile(answers, 1)
           r == [rcv[c] EXCEPT !.pc = "file", !.off = answers, !.idx = next]
           m == AnswerBatch(answers)
<1>1. /\ rcv[c].pc = "query" /\ toR[c] # <<>> /\ Head(toR[c]).kind = "ResumeQueryBatch"
      /\ rcv' = [rcv EXCEPT ![c] = r]
      /\ toR' = [toR EXCEPT ![c] = Tail(toR[c])]
      /\ toS' = [toS EXCEPT ![c] = Put(c, toS, <<m>>)]
      /\ UNCHANGED <<src, dest, snd, link, hit>>
  BY DEF RecvQueries, Incoming, ghosts
<1>2. \A f \in Files : answers[f] = Decision(src[f], dest[f])
  <2> SUFFICES ASSUME NEW f \in Files PROVE answers[f] = Decision(src[f], dest[f])
    OBVIOUS
  <2>1. queries[f] = IF Held(dest[f]) = 0 THEN None ELSE Asked(src[f])
    BY <1>1, KnownOf DEF Truthful
  <2>2. Asked(src[f]) # None
    <3>1. src[f] \in File
      BY <1>1, SourcesAreFiles
    <3> QED
      BY <3>1, AskedFields, NoQueryAssumption
  <2> HIDE DEF queries
  <2> QED
    BY <2>1, <2>2 DEF Decision
<1>3. m.answers = answers /\ m.kind = "ResumeAnswerBatch" /\ DOMAIN answers = Files
  BY DEF AnswerBatch
<1> HIDE DEF answers, m
<1>4. /\ \A f \in Files : src[f] \in File /\ Len(src[f]) \in Nat /\ dest[f] \in File \cup {None}
      /\ \A f \in Files : answers[f] \in Offset
  BY <1>1, <1>2, SourcesAreFiles, DecisionSound
<1>5. answers \in [Files -> Offset]
  <2>1. rcv'[c] \in HandlerState => answers \in [Files -> Offset]
    BY <1>1 DEF HandlerState, ContentsInv, DeliveryInv, TypeInv, TypeOK
  <2>2. TypeInv'
    BY RecvQueriesTypeInv DEF ContentsInv, DeliveryInv
  <2> QED
    BY <2>1, <2>2 DEF TypeInv, TypeOK
<1>6. next \in 1..(NFiles + 1) /\ \A f \in Files : f < next => answers[f] = Skip
  <2>1. 1 \in 1..(NFiles + 1)
    BY CountsAssumption
  <2>2. next \in 1..(NFiles + 1) /\ \A k \in 1..(next - 1) : answers[k] = Skip
    BY <1>5, <2>1, NextFileType
  <2> HIDE DEF next
  <2> QED
    BY <2>2, CountsAssumption DEF Files
<1> HIDE DEF next
<1>7. /\ rcv'[c] = r /\ r.pc = "file" /\ r.off = answers /\ r.idx = next
  BY <1>1 DEF HandlerState, ContentsInv, DeliveryInv, TypeInv, TypeOK
<1> HIDE DEF r
<1>8. /\ toS[c] = <<>> /\ snd[c].pc \in {"query", "failed"} /\ toR[c] \in Seq(ToReceiver)
      /\ Single(toR[c], "ResumeQueryBatch")
  BY <1>1, KnownOf DEF InStep, HandlerSide
<1>9. Tail(toR[c]) = <<>>
  <2>1. Head(toR[c]) \in ToReceiver
    BY <1>1, <1>8, HeadTailProperties
  <2> QED
    BY <1>8, <2>1, OneFrame
<1>10. toR'[c] = <<>> /\ toS'[c] \in {<<>>, <<m>>}
  BY <1>1, <1>8, <1>9 DEF Put, ContentsInv, DeliveryInv, TypeInv, TypeOK
<1>11. Backed(src, dest, r)
  <2>1. ASSUME NEW f \in Files, f < next PROVE Settled(src[f], dest[f]) /\ answers[f] = Skip
    <3>1. answers[f] = Skip /\ Decision(src[f], dest[f]) = Skip
      BY <1>2, <1>6, <2>1
    <3> QED
      BY <1>4, <3>1, DecisionSound
  <2> QED
    BY <1>2, <1>7, <2>1 DEF Backed, AtFiles
<1>12. Truthful(src, dest, <<>>, toS'[c])
  <2>1. Head(<<m>>) = m
    OBVIOUS
  <2>2. ASSUME NEW f \in Files, answers[f] # Skip PROVE answers[f] <= Len(src[f])
    BY <1>2, <1>4, <2>2, DecisionSound
  <2> QED
    BY <1>3, <1>10, <2>1, <2>2 DEF Truthful
<1>13. Flow(src, snd[c], r, <<>>, link[c])
  <2>1. At(r) = 0 /\ At(snd[c]) = 0
    BY <1>7, <1>8 DEF At
  <2> QED
    BY <2>1, RunsEmpty DEF Flow
<1>14. (FaithfulAt(c) /\ SmoothAt(c))'
  BY <1>1, <1>7, <1>10, <1>11, <1>12, <1>13, HandlerGoesOn
<1> QED
  BY <1>1, <1>14 DEF Progresses

LEMMA RecvFileStartContents ==
    ASSUME ContentsInv, edits = 0, NEW c \in Conns, RecvFileStart(c)
    PROVE  (FaithfulAt(c) /\ SmoothAt(c))' /\ Progresses
<1> DEFINE h == rcv[c]
           f == h.idx
           x == src[f]
           cut == Truncate(dest[f], h.off[f])
           m == Head(toR[c])
           r == [h EXCEPT !.pc = "open"]
<1>1. /\ h.pc = "file" /\ f \in Files /\ toR[c] # <<>> /\ m.kind = "FileStart"
      /\ dest' = [dest EXCEPT ![f] = cut]
      /\ rcv' = [rcv EXCEPT ![c] = r]
      /\ toR' = [toR EXCEPT ![c] = Tail(toR[c])]
      /\ UNCHANGED <<src, snd, toS, link, hit>>
  BY DEF RecvFileStart, Reopened, Incoming
<1>2. rcv'[c] = r /\ r.pc = "open" /\ r.idx = f /\ r.off = h.off
  BY <1>1 DEF HandlerState, ContentsInv, DeliveryInv, TypeInv, TypeOK
<1> HIDE DEF r
<1>3. /\ h.off[f] = Decision(x, dest[f]) /\ h.off[f] # Skip
      /\ x \in File /\ dest[f] \in File \cup {None} /\ f \in Nat
  <2>1. Backed(src, dest, h) /\ HandlerSound(h, dest)
    BY KnownOf
  <2>2. Ahead(h, f) /\ h.pc \in AtFiles \cup {"acked"}
    BY <1>1 DEF Ahead, AtFiles
  <2>3. x \in File /\ dest[f] \in File \cup {None}
    BY <1>1, SourcesAreFiles
  <2> QED
    BY <1>1, <2>1, <2>2, <2>3, CountsAssumption DEF Backed, HandlerSound, Files
<1>4. /\ h.off[f] \in 0..Len(x) /\ Len(x) \in Nat /\ cut = Prefix(x, h.off[f])
      /\ Builds(x, dest[f], cut)
  BY <1>3, IsAFile, ReopeningBuilds
<1>5. m.file = f /\ m.offset = h.off[f]
  <2>1. Fits(h.off, Place(h), m)
    BY <1>1, FrameRead DEF AtFiles
  <2> QED
    BY <1>1, <2>1 DEF Fits, Place, Between
<1>6. /\ dest'[f] = cut /\ \A g \in Files : g # f => dest'[g] = dest[g]
      /\ toR'[c] = Tail(toR[c])
  BY <1>1 DEF ContentsInv, DeliveryInv, TypeInv, TypeOK
<1>7. At(r) = MovesOn(At(h), m)
  BY <1>1, <1>2, <1>5 DEF At, MovesOn
<1> HIDE DEF cut
<1>8. Backed(src, dest', r)
  <2>1. Backed(src, dest, h)
    BY KnownOf
  <2>2. ASSUME NEW g \in Files, Ahead(r, g) \/ g < f
        PROVE  dest'[g] = dest[g] /\ (Ahead(r, g) => Ahead(h, g))
    BY <1>1, <1>2, <1>3, <1>6, <2>2, CountsAssumption DEF Ahead, Files
  <2>3. r.off[r.idx] <= Len(src[r.idx]) /\ dest'[r.idx] = Prefix(src[r.idx], r.off[r.idx])
    BY <1>2, <1>4, <1>6
  <2> QED
    BY <1>1, <1>2, <2>1, <2>2, <2>3 DEF Backed, AtFiles
<1>9. Truthful(src, dest', toR'[c], toS'[c]) /\ Flow(src, snd[c], r, toR'[c], link[c])
  BY <1>1, <1>6, <1>7, FrameRead DEF Flow, AtFiles
<1>10. (FaithfulAt(c) /\ SmoothAt(c))'
  BY <1>1, <1>2, <1>8, <1>9, HandlerGoesOn
<1>11. Progresses
  BY <1>4, <1>6 DEF Progresses
<1> QED
  BY <1>10, <1>11

LEMMA HashPrefixContents ==
    ASSUME ContentsInv, edits = 0, NEW c \in Conns, HashPrefix(c)
    PROVE  (FaithfulAt(c) /\ SmoothAt(c))' /\ Progresses
<1> DEFINE h == rcv[c]
           f == h.idx
           digest == Prefix(dest[f], h.off[f])
           r == [h EXCEPT !.pc = "drain", !.pos = h.off[f], !.hash = digest]
<1>1. /\ h.pc = "open"
      /\ rcv' = [rcv EXCEPT ![c] = r]
      /\ UNCHANGED <<src, dest, snd, toR, toS, link, hit>>
  BY DEF HashPrefix, wires, ghosts
<1> HIDE DEF digest
<1>2. rcv'[c] = r /\ r.pc = "drain" /\ r.idx = f /\ r.off = h.off /\ r.pos = h.off[f]
  BY <1>1 DEF HandlerState, ContentsInv, DeliveryInv, TypeInv, TypeOK
<1> HIDE DEF r
<1>3. Backed(src, dest, h) /\ Flow(src, snd[c], h, toR[c], link[c])
      /\ Truthful(src, dest, toR[c], toS[c])
  BY KnownOf
<1>4. At(r) = At(h)
  BY <1>1, <1>2 DEF At
<1>5. Backed(src, dest, r)
  <2>1. \A g \in Files : Ahead(r, g) => Ahead(h, g)
    BY <1>2 DEF Ahead
  <2>2. r.pos <= Len(src[r.idx]) /\ dest[r.idx] = Prefix(src[r.idx], r.pos)
    BY <1>1, <1>2, <1>3 DEF Backed
  <2> QED
    BY <1>1, <1>2, <1>3, <2>1, <2>2 DEF Backed, AtFiles
<1>6. Flow(src, snd[c], r, toR[c], link[c])
  BY <1>1, <1>2, <1>3, <1>4 DEF Flow, AtFiles
<1>7. (FaithfulAt(c) /\ SmoothAt(c))'
  BY <1>1, <1>2, <1>3, <1>5, <1>6, HandlerGoesOn
<1> QED
  BY <1>1, <1>7 DEF Progresses

\* What the handler that drains a file stands at, and the frame it reads there.
LEMMA AtDrain ==
    ASSUME ContentsInv, edits = 0, NEW c \in Conns, rcv[c].pc = "drain", toR[c] # <<>>
    PROVE  LET h == rcv[c]
               f == h.idx
               m == Head(toR[c])
           IN  /\ f \in Files /\ f \in Nat /\ src[f] \in File /\ Len(src[f]) \in Nat
               /\ h.pos \in 0..Len(src[f]) /\ h.pos \in Nat
               /\ dest[f] = Prefix(src[f], h.pos) /\ h.hash = dest[f]
               /\ m.kind \in {"Data", "FileDone"} /\ m.file = f /\ At(h) = h.pos
               /\ m.kind = "Data" =>
                     /\ m.payload \in File /\ Len(m.payload) \in Nat
                     /\ h.pos + Len(m.payload) <= Len(src[f])
                     /\ m.payload = SubSeq(src[f], h.pos + 1, h.pos + Len(m.payload))
               /\ m.kind = "FileDone" => h.pos = Len(src[f]) /\ m.sum = src[f]
<1> DEFINE h == rcv[c]
           f == h.idx
           m == Head(toR[c])
<1>1. /\ h \in HandlerState /\ HandlerSound(h, dest) /\ HoldsItsFile(c) /\ Backed(src, dest, h)
  BY KnownOf
<1>2. /\ m \in ToReceiver /\ Fits(h.off, Place(h), m) /\ Continues(src, At(h), m)
  BY FrameRead DEF AtFiles
<1>3. f \in Files /\ src[f] \in File /\ Len(src[f]) \in Nat
  BY <1>1, SourcesAreFiles DEF HandlerSound
<1>4. h.pos \in Nat /\ f \in Nat /\ h.pos \in 0..Len(src[f])
  BY <1>1, <1>3, CountsAssumption DEF HandlerState, Backed, Files
<1>5. dest[f] = Prefix(src[f], h.pos) /\ h.hash = dest[f] /\ At(h) = h.pos
  BY <1>1 DEF Backed, HoldsItsFile, At
<1>6. m.kind \in {"Data", "FileDone"} /\ m.file = f
  BY <1>2 DEF Fits, Place, Within, Between
<1>7. m.kind = "Data" => m.payload \in File /\ Len(m.payload) \in Nat
  BY <1>2, FrameFields, IsAFile
<1> QED
  BY <1>2, <1>3, <1>4, <1>5, <1>6, <1>7 DEF Continues

LEMMA RecvDataContents ==
    ASSUME ContentsInv, edits = 0, NEW c \in Conns, RecvData(c)
    PROVE  (FaithfulAt(c) /\ SmoothAt(c))' /\ Progresses
<1> DEFINE h == rcv[c]
           f == h.idx
           x == src[f]
           m == Head(toR[c])
           payload == m.payload
           new == WriteAt(dest[f], h.pos, payload)
           digest == h.hash \o payload
           pos == h.pos + Len(payload)
           r == [h EXCEPT !.pos = pos, !.hash = digest]
<1>1. /\ h.pc = "drain" /\ toR[c] # <<>> /\ m.kind = "Data"
      /\ dest' = [dest EXCEPT ![f] = new]
      /\ rcv' = [rcv EXCEPT ![c] = r]
      /\ toR' = [toR EXCEPT ![c] = Tail(toR[c])]
      /\ UNCHANGED <<src, snd, toS, link, hit>>
  BY DEF RecvData, Incoming, ghosts
<1>2. /\ f \in Files /\ f \in Nat /\ x \in File /\ Len(x) \in Nat
      /\ h.pos \in 0..Len(x) /\ h.pos \in Nat /\ dest[f] = Prefix(x, h.pos)
      /\ payload \in File /\ Len(payload) \in Nat /\ h.pos + Len(payload) <= Len(x)
      /\ payload = SubSeq(x, h.pos + 1, h.pos + Len(payload))
      /\ m.kind = "Data" /\ At(h) = h.pos
  BY <1>1, AtDrain
<1>3. new = Prefix(x, pos) /\ Builds(x, dest[f], new)
  <2> HIDE DEF payload
  <2> QED
    BY <1>2, WritingBuilds
<1> HIDE DEF new, digest, payload
<1>4. pos <= Len(x)
  BY <1>2
<1> HIDE DEF pos
<1>5. rcv'[c] = r /\ r.pc = "drain" /\ r.idx = f /\ r.off = h.off /\ r.pos = pos
  BY <1>1 DEF HandlerState, ContentsInv, DeliveryInv, TypeInv, TypeOK
<1> HIDE DEF r
<1>6. /\ dest'[f] = new /\ \A g \in Files : g # f => dest'[g] = dest[g]
      /\ toR'[c] = Tail(toR[c])
  BY <1>1, <1>2 DEF ContentsInv, DeliveryInv, TypeInv, TypeOK
<1>7. At(r) = MovesOn(At(h), m)
  BY <1>2, <1>5 DEF At, MovesOn, pos, payload
<1>8. Backed(src, dest', r)
  <2>1. Backed(src, dest, h)
    BY KnownOf
  <2>2. ASSUME NEW g \in Files, Ahead(r, g) \/ g < f
        PROVE  dest'[g] = dest[g] /\ (Ahead(r, g) => Ahead(h, g))
    BY <1>1, <1>2, <1>5, <1>6, <2>2, CountsAssumption DEF Ahead, Files
  <2>3. r.pos <= Len(src[r.idx]) /\ dest'[r.idx] = Prefix(src[r.idx], r.pos)
    BY <1>3, <1>4, <1>5, <1>6
  <2> QED
    BY <1>1, <1>5, <2>1, <2>2, <2>3 DEF Backed, AtFiles
<1>9. Truthful(src, dest', toR'[c], toS'[c]) /\ Flow(src, snd[c], r, toR'[c], link[c])
  BY <1>1, <1>6, <1>7, FrameRead DEF Flow, AtFiles
<1>10. (FaithfulAt(c) /\ SmoothAt(c))'
  BY <1>1, <1>5, <1>8, <1>9, HandlerGoesOn
<1>11. Progresses
  BY <1>3, <1>6 DEF Progresses
<1> QED
  BY <1>10, <1>11

LEMMA RecvFileDoneContents ==
    ASSUME ContentsInv, edits = 0, NEW c \in Conns, RecvFileDone(c)
    PROVE  (FaithfulAt(c) /\ SmoothAt(c))' /\ Progresses
<1> DEFINE h == rcv[c]
           f == h.idx
           m == Head(toR[c])
           next == NextFile(h.off, f + 1)
           r == [h EXCEPT !.pc = "file", !.idx = next]
<1>1. /\ h.pc = "drain" /\ toR[c] # <<>> /\ m.kind = "FileDone"
      /\ rcv' = [rcv EXCEPT ![c] = r]
      /\ toR' = [toR EXCEPT ![c] = Tail(toR[c])]
      /\ UNCHANGED <<src, dest, snd, toS, link, hit>>
  BY DEF RecvFileDone, Incoming
<1>2. /\ f \in Files /\ f \in Nat /\ src[f] \in File
      /\ h.pos = Len(src[f]) /\ dest[f] = Prefix(src[f], h.pos)
  BY <1>1, AtDrain
<1>3. dest[f] = src[f] /\ Settled(src[f], dest[f])
  BY <1>2, PrefixAll, SameIsSettled
<1>4. next \in (f + 1)..(NFiles + 1) /\ \A k \in (f + 1)..(next - 1) : h.off[k] = Skip
  <2>1. h.off \in [Files -> Offset]
    BY KnownOf DEF HandlerState
  <2>2. f + 1 \in 1..(NFiles + 1)
    BY <1>2, CountsAssumption DEF Files
  <2> QED
    BY <2>1, <2>2, NextFileType
<1> HIDE DEF next
<1>5. rcv'[c] = r /\ r.pc = "file" /\ r.idx = next /\ r.off = h.off
  BY <1>1 DEF HandlerState, ContentsInv, DeliveryInv, TypeInv, TypeOK
<1> HIDE DEF r
<1>6. toR'[c] = Tail(toR[c])
  BY <1>1 DEF ContentsInv, DeliveryInv, TypeInv, TypeOK
<1>7. At(r) = MovesOn(At(h), m)
  BY <1>1, <1>5 DEF At, MovesOn
<1>8. Backed(src, dest, r)
  <2>1. Backed(src, dest, h)
    BY KnownOf
  <2>2. ASSUME NEW g \in Files
        PROVE  /\ Ahead(r, g) => Ahead(h, g)
               /\ g < next => g < f \/ g = f \/ (Ahead(h, g) /\ h.off[g] = Skip)
    <3>1. g \in Nat /\ next \in Nat
      <4>1. f \in Nat
        BY <1>2
      <4> HIDE DEF f
      <4> QED
        BY <1>4, <4>1, CountsAssumption DEF Files
    <3>2. Ahead(r, g) => Ahead(h, g)
      BY <1>2, <1>4, <1>5, <3>1 DEF Ahead
    <3>3. g < next /\ f < g => g \in (f + 1)..(next - 1) /\ Ahead(h, g)
      BY <1>2, <3>1 DEF Ahead
    <3> HIDE DEF f
    <3> QED
      BY <1>2, <1>4, <3>1, <3>2, <3>3
  <2>3. ASSUME NEW g \in Files, Ahead(h, g), h.off[g] = Skip
        PROVE  Settled(src[g], dest[g])
    <3>1. Decision(src[g], dest[g]) = Skip
      BY <1>1, <2>1, <2>3 DEF Backed, AtFiles
    <3>2. src[g] \in File /\ dest[g] \in File \cup {None}
      BY <1>1, SourcesAreFiles
    <3> QED
      BY <3>1, <3>2, DecisionSound
  <2>4. ASSUME NEW g \in Files, g < next
        PROVE  Settled(src[g], dest[g]) /\ (h.off[g] # Skip => dest[g] = src[g])
    BY <1>1, <1>3, <2>1, <2>2, <2>3, <2>4 DEF Backed, AtFiles
  <2> QED
    BY <1>1, <1>5, <2>1, <2>2, <2>4 DEF Backed, AtFiles
<1>9. Truthful(src, dest, toR'[c], toS'[c]) /\ Flow(src, snd[c], r, toR'[c], link[c])
  BY <1>1, <1>6, <1>7, FrameRead DEF Flow, AtFiles
<1>10. (FaithfulAt(c) /\ SmoothAt(c))'
  BY <1>1, <1>5, <1>8, <1>9, HandlerGoesOn
<1> QED
  BY <1>1, <1>10 DEF Progresses

\* handleConn ends.
LEMMA HandlerEndsContents ==
    ASSUME ContentsInv, edits = 0, NEW c \in Conns, NEW how \in {"acked", "failed"},
           HandlerEnds(c, how), src' = src, snd' = snd, hit \subseteq hit',
           how = "acked" =>
               /\ rcv[c].pc \in AtFiles /\ rcv[c].idx = NFiles + 1 /\ dest' = dest
               /\ snd[c].pc = "ack" \/ snd[c].pc = "failed" \/ link[c] # "up",
           Truthful(src, dest', <<>>, toS'[c]),
           \/ c \in hit' \/ snd[c].cancelled
           \/ how = "acked" /\ snd[c].pc = "ack" /\ toS'[c] # <<>>
    PROVE  (FaithfulAt(c) /\ SmoothAt(c))'
<1> DEFINE h == rcv[c]
           r == [h EXCEPT !.pc = how]
<1>1. /\ rcv'[c] = r /\ r.pc = how /\ r.idx = h.idx /\ r.off = h.off
      /\ toR'[c] = <<>> /\ link'[c] = "down"
  BY KnownOf DEF HandlerEnds, HandlerState, ContentsInv, DeliveryInv, TypeInv, TypeOK
<1> HIDE DEF r
<1>2. Honest(src, snd[c])
  BY KnownOf
<1>3. Backed(src, dest', r)
  <2>1. CASE how = "failed"
    BY <1>1, <2>1 DEF Backed, AtFiles
  <2>2. CASE how = "acked"
    <3>1. ASSUME NEW f \in Files PROVE ~Ahead(r, f)
      BY <1>1, <2>2, <3>1, CountsAssumption DEF Ahead, Files
    <3>2. Backed(src, dest, h)
      BY KnownOf
    <3> QED
      BY <1>1, <2>2, <3>1, <3>2 DEF Backed, AtFiles
  <2> QED
    BY <2>1, <2>2
<1>4. Flow(src, snd[c], r, <<>>, "down")
  BY <1>1 DEF Flow, AtFiles
<1>5. FaithfulAt(c)'
  BY <1>1, <1>2, <1>3, <1>4 DEF FaithfulAt, Faithful
<1>6. SmoothAt(c)'
  BY <1>1 DEF SmoothAt, Smooth
<1> QED
  BY <1>5, <1>6

\* The destination of a handler that has it open is as long as its offset.
LEMMA PrefixIsThere ==
    ASSUME ContentsInv, NEW c \in Conns
    PROVE  ~PrefixGone(c)
<1> SUFFICES ASSUME PrefixGone(c) PROVE FALSE
  OBVIOUS
<1>1. rcv[c].pc = "open" /\ rcv[c].off[rcv[c].idx] > Len(dest[rcv[c].idx])
  BY DEF PrefixGone
<1>2. Len(dest[rcv[c].idx]) = rcv[c].off[rcv[c].idx]
  BY <1>1 DEF ContentsInv, DeliveryInv, HoldsItsFile
<1>3. rcv[c].idx \in Files /\ rcv[c].off[rcv[c].idx] \in Nat
  BY <1>1, HandlerAtFile DEF ContentsInv, DeliveryInv, TypeInv, HandlerSound
<1> QED
  BY <1>1, <1>2, <1>3

\* No digest differs: what landed is the source.
LEMMA DigestsMatch ==
    ASSUME ContentsInv, edits = 0, NEW c \in Conns
    PROVE  ~ChecksumMismatch(c)
<1> SUFFICES ASSUME ChecksumMismatch(c) PROVE FALSE
  OBVIOUS
<1> DEFINE h == rcv[c]
           f == h.idx
           m == Head(toR[c])
<1>1. h.pc = "drain" /\ toR[c] # <<>> /\ m.kind = "FileDone" /\ h.hash # m.sum
  BY DEF ChecksumMismatch, ChecksumOK, Incoming
<1>2. /\ src[f] \in File /\ h.pos = Len(src[f]) /\ m.sum = src[f]
      /\ dest[f] = Prefix(src[f], h.pos) /\ h.hash = dest[f]
  BY <1>1, AtDrain
<1> QED
  BY <1>1, <1>2, PrefixAll

\* Everything is received: nothing more is under way, and the sender waits.
LEMMA SenderWaits ==
    ASSUME ContentsInv, edits = 0, NEW c \in Conns, RecvDone(c)
    PROVE  snd[c].pc = "ack" \/ snd[c].pc = "failed" \/ link[c] # "up"
<1> DEFINE s == snd[c]
           h == rcv[c]
           q == toR[c]
<1>1. h.pc = "file" /\ q # <<>> /\ Head(q).kind = "Done"
  BY DEF RecvDone, Incoming
<1>2. /\ s \in SenderState /\ q \in Seq(ToReceiver)
      /\ InStep(s, h, q, toS[c], link[c])
  BY KnownOf
<1> SUFFICES ASSUME link[c] = "up", s.pc \notin {"ack", "failed"} PROVE FALSE
  OBVIOUS
<1>3. s.pc \notin {"idle", "hello", "query", "ok"}
  <2>1. s.pc \in {"hello", "query"} => toS[c] # <<>>
    BY <1>1, <1>2 DEF InStep, SenderSide
  <2> QED
    BY <1>1, <1>2, <2>1 DEF InStep, SenderSide
<1>4. s.pc \in {"file", "stream"}
  BY <1>2, <1>3 DEF SenderState
<1>5. Chain(h.off, Place(h), q) /\ EndOf(h.off, Place(h), q) = Place(s)
  BY <1>1, <1>2, <1>4 DEF InStep, HandlerSide, SenderSide, AtFiles
<1>6. After(h.off, Head(q)) = Over
  BY <1>1 DEF After
<1>7. Chain(h.off, Over, Tail(q)) /\ EndOf(h.off, Over, Tail(q)) = Place(s)
  BY <1>1, <1>2, <1>5, <1>6, ChainTail
<1>8. Tail(q) = <<>>
  BY <1>7 DEF Chain, Fits, Over, Between, Within
<1>9. Place(s) = Over
  BY <1>7, <1>8 DEF EndOf
<1> QED
  BY <1>4, <1>9 DEF Place, Over, Between, Within

LEMMA RecvDoneContents ==
    ASSUME ContentsInv, edits = 0, NEW c \in Conns, RecvDone(c)
    PROVE  (FaithfulAt(c) /\ SmoothAt(c))' /\ Progresses
<1>1. /\ rcv[c].pc = "file" /\ rcv[c].idx = NFiles + 1 /\ toR[c] # <<>>
      /\ toS' = [toS EXCEPT ![c] = Put(c, toS, <<DoneAck>>)]
      /\ HandlerEnds(c, "acked")
      /\ UNCHANGED <<src, dest, snd, hit>>
  BY DEF RecvDone, Incoming, ghosts
<1>2. DoneAck \in ToSender /\ DoneAck.kind = "DoneAck"
  BY DEF DoneAck, ToSender
<1>3. toS[c] \in Seq(ToSender)
  BY KnownOf
<1>4. toS'[c] = IF link[c] = "up" THEN Append(toS[c], DoneAck) ELSE toS[c]
  BY <1>1, <1>2, ToSenderPut DEF ContentsInv, DeliveryInv
<1>5. /\ Append(toS[c], DoneAck) # <<>>
      /\ Head(Append(toS[c], DoneAck)) = IF toS[c] = <<>> THEN DoneAck ELSE Head(toS[c])
  BY <1>2, <1>3, HeadTailProperties, AppendProperties
<1>6. toS[c] # <<>> => Head(toS[c]).kind \notin {"HelloAck", "ResumeAnswerBatch"}
  BY <1>1, AnswersAlone
<1>7. Truthful(src, dest', <<>>, toS'[c])
  BY <1>2, <1>4, <1>5, <1>6 DEF Truthful
<1>8. \/ c \in hit' \/ snd[c].cancelled
      \/ snd[c].pc = "ack" /\ toS'[c] # <<>>
  <2> SUFFICES ASSUME c \notin hit, ~snd[c].cancelled PROVE snd[c].pc = "ack" /\ toS'[c] # <<>>
    BY <1>1
  <2>1. Smooth(snd[c], rcv[c], toS[c], link[c]) /\ snd[c].pc # "idle"
    BY <1>1, KnownOf, SourcesAreFiles DEF SmoothAt
  <2>2. link[c] = "up" /\ snd[c].pc \notin {"ok", "failed"}
    BY <1>1, <2>1 DEF Smooth
  <2> QED
    BY <1>4, <1>5, <2>2, SenderWaits
<1>9. rcv[c].pc \in AtFiles
  BY <1>1 DEF AtFiles
<1>10. (FaithfulAt(c) /\ SmoothAt(c))'
  BY <1>1, <1>7, <1>8, <1>9, SenderWaits, HandlerEndsContents
<1> QED
  BY <1>1, <1>10 DEF Progresses

LEMMA HandlerEOFContents ==
    ASSUME ContentsInv, edits = 0, NEW c \in Conns, HandlerEOF(c)
    PROVE  (FaithfulAt(c) /\ SmoothAt(c))' /\ Progresses
<1>1. /\ rcv[c].pc \notin {"none", "acked", "failed"} /\ link[c] = "down" /\ toR[c] = <<>>
      /\ HandlerEnds(c, "failed")
      /\ UNCHANGED <<src, dest, snd, toS, hit>>
  BY DEF HandlerEOF, Handlers, ghosts
<1>2. c \in hit \/ snd[c].cancelled
  <2>1. snd[c].pc # "idle"
    BY <1>1, SourcesAreFiles
  <2> QED
    BY <1>1, <2>1, KnownOf DEF SmoothAt, Smooth
<1>3. Truthful(src, dest, <<>>, toS[c])
  BY <1>1, KnownOf
<1>4. (FaithfulAt(c) /\ SmoothAt(c))'
  BY <1>1, <1>2, <1>3, HandlerEndsContents
<1> QED
  BY <1>1, <1>4 DEF Progresses

LEMMA HandlerStepContents ==
    ASSUME ContentsInv, edits = 0, NEW c \in Conns, HandlerStep(c)
    PROVE  /\ (FaithfulAt(c) /\ SmoothAt(c))' /\ Progresses
           /\ c \in Live /\ UNCHANGED <<src, hit>>
<1>1. c \in Live
  BY HandlerStepLive DEF ContentsInv, DeliveryInv, Live
<1>2. UNCHANGED <<src, hit>>
  BY DEF HandlerStep, RecvHello, RecvQueries, RecvFileStart, HashPrefix, PrefixGone,
         RecvData, RecvFileDone, ChecksumMismatch, RecvDone, HandlerEOF
<1>3. (FaithfulAt(c) /\ SmoothAt(c))' /\ Progresses
  BY RecvHelloContents, RecvQueriesContents, RecvFileStartContents, HashPrefixContents,
     PrefixIsThere, RecvDataContents, RecvFileDoneContents, DigestsMatch, RecvDoneContents,
     HandlerEOFContents, Zenon DEF HandlerStep
<1> QED
  BY <1>1, <1>2, <1>3

-----------------------------------------------------------------------------
(* The environment.                                                        *)

\* A torn write leaves a prefix of what it would have written.
LEMMA TornContinues ==
    ASSUME NEW x \in File, NEW n \in 0..Len(x), NEW data \in File, n + Len(data) <= Len(x),
           data = SubSeq(x, n + 1, n + Len(data)), NEW k \in 1..Len(data)
    PROVE  LET torn == Prefix(data, k)
           IN  /\ torn \in File /\ Len(torn) = k
               /\ torn = SubSeq(x, n + 1, n + k)
<1> DEFINE torn == Prefix(data, k)
           part == SubSeq(x, n + 1, n + k)
<1>1. Len(x) \in Nat /\ n \in Nat /\ k \in Nat \ {0} /\ Len(data) \in Nat \ {0}
      /\ k \in 0..Len(data) /\ n + k <= Len(x)
  BY IsAFile
<1>2. torn \in File /\ Len(torn) = k /\ \A i \in 1..k : torn[i] = data[i]
  BY <1>1, PrefixType
<1>3. \A i \in 1..Len(data) : data[i] = x[n + i]
  <2> DEFINE whole == SubSeq(x, n + 1, n + Len(data))
  <2>1. n + Len(data) <= Len(x) /\ data = whole
    OBVIOUS
  <2>2. \A i \in 1..Len(data) : whole[i] = x[n + i]
    BY <1>1, <2>1, PartOf
  <2> HIDE DEF whole
  <2> QED
    BY <2>1, <2>2
<1>4. part \in File /\ Len(part) = k /\ \A i \in 1..k : part[i] = x[n + i]
  BY <1>1, PartOf
<1>5. \A i \in 1..k : i \in 1..Len(data)
  BY <1>1
<1> HIDE DEF torn, part
<1>6. torn = part
  BY <1>2, <1>3, <1>4, <1>5, FileEqual
<1> QED
  BY <1>2, <1>6 DEF torn, part

LEMMA HandlerDiesContents ==
    ASSUME ContentsInv, edits = 0, NEW c \in Conns, HandlerDies(c)
    PROVE  (FaithfulAt(c) /\ SmoothAt(c))' /\ Progresses
<1> DEFINE h == rcv[c]
           f == h.idx
           data == Head(toR[c]).payload
<1>1. /\ h.pc \notin {"none", "acked", "failed"} /\ hit' = hit \cup {c}
      /\ HandlerEnds(c, "failed") /\ UNCHANGED <<src, snd, toS>>
  BY DEF HandlerDies, Strike, Handlers
<1>2. ASSUME Truthful(src, dest', <<>>, toS[c]) PROVE (FaithfulAt(c) /\ SmoothAt(c))'
  BY <1>1, <1>2, HandlerEndsContents
<1>3. CASE dest' = dest
  <2>1. Truthful(src, dest, <<>>, toS[c])
    BY KnownOf DEF Truthful
  <2> QED
    BY <1>2, <1>3, <2>1 DEF Progresses
<1>4. CASE /\ h.pc = "drain" /\ Incoming(c, "Data")
           /\ \E n \in 1..Len(data) :
                 dest' = [dest EXCEPT ![f] = WriteAt(@, h.pos, Prefix(data, n))]
  <2>1. h.pc = "drain" /\ toR[c] # <<>> /\ Head(toR[c]).kind = "Data"
    BY <1>4 DEF Incoming
  <2>2. PICK n \in 1..Len(data) :
          dest' = [dest EXCEPT ![f] = WriteAt(dest[f], h.pos, Prefix(data, n))]
    BY <1>4
  <2>3. /\ f \in Files /\ src[f] \in File /\ Len(src[f]) \in Nat
        /\ h.pos \in 0..Len(src[f]) /\ h.pos \in Nat /\ dest[f] = Prefix(src[f], h.pos)
        /\ data \in File /\ Len(data) \in Nat /\ h.pos + Len(data) <= Len(src[f])
        /\ data = SubSeq(src[f], h.pos + 1, h.pos + Len(data))
    BY <2>1, AtDrain
  <2> HIDE DEF data
  <2> DEFINE torn == Prefix(data, n)
             new == WriteAt(dest[f], h.pos, torn)
  <2>4. torn \in File /\ Len(torn) = n /\ torn = SubSeq(src[f], h.pos + 1, h.pos + Len(torn))
    <3>1. torn \in File /\ Len(torn) = n /\ torn = SubSeq(src[f], h.pos + 1, h.pos + n)
      BY <2>3, TornContinues
    <3> HIDE DEF torn
    <3> QED
      BY <3>1
  <2>5. h.pos + Len(torn) <= Len(src[f])
    <3> HIDE DEF torn
    <3> QED
      BY <2>3, <2>4
  <2>6. Builds(src[f], dest[f], new)
    <3> HIDE DEF torn
    <3> QED
      BY <2>3, <2>4, <2>5, WritingBuilds
  <2>7. dest' = [dest EXCEPT ![f] = new]
    BY <2>2
  <2> HIDE DEF new
  <2>8. Progresses
    BY <2>3, <2>6, <2>7 DEF Progresses, ContentsInv, DeliveryInv, TypeInv, TypeOK
  <2>9. toS[c] # <<>> => Head(toS[c]).kind \notin {"HelloAck", "ResumeAnswerBatch"}
    BY <2>1, AnswersAlone
  <2>10. Truthful(src, dest', <<>>, toS[c])
    BY <2>9 DEF Truthful
  <2> QED
    BY <1>2, <2>8, <2>10
<1> QED
  BY <1>3, <1>4 DEF HandlerDies

\* The first frame of what is left of a wire is the first that was on it.
LEMMA PrefixHead ==
    ASSUME NEW S, NEW w \in Seq(S), NEW k \in 0..Len(w), Prefix(w, k) # <<>>
    PROVE  w # <<>> /\ Head(Prefix(w, k)) = Head(w)
<1>1. /\ Prefix(w, k) \in Seq(S) /\ Len(Prefix(w, k)) = k /\ Len(w) \in Nat
      /\ \A i \in 1..k : Prefix(w, k)[i] = w[i]
  BY LenProperties, ElementOfSeq, SubSeqProperties DEF Prefix
<1>2. k # 0
  BY <1>1, EmptySeq
<1>3. 1 \in 1..k /\ Len(w) # 0
  BY <1>1, <1>2
<1>4. w # <<>>
  BY <1>3, EmptySeq
<1> QED
  BY <1>1, <1>3, <1>4, HeadTailProperties

LEMMA LinkFailsContents ==
    ASSUME ContentsInv, edits = 0, NEW c \in Conns, LinkFails(c)
    PROVE  (FaithfulAt(c) /\ SmoothAt(c))'
<1>1. PICK m \in 0..Len(toR[c]), n \in 0..Len(toS[c]) :
        /\ toR' = [toR EXCEPT ![c] = Prefix(@, m)]
        /\ toS' = [toS EXCEPT ![c] = Prefix(@, n)]
  BY DEF LinkFails
<1>2. /\ hit' = hit \cup {c} /\ link'[c] = "down"
      /\ UNCHANGED <<src, dest, snd, rcv>>
  BY DEF LinkFails, Strike, ContentsInv, DeliveryInv, TypeInv, TypeOK
<1>3. /\ toR'[c] = Prefix(toR[c], m) /\ toS'[c] = Prefix(toS[c], n)
      /\ toR[c] \in Seq(ToReceiver) /\ toS[c] \in Seq(ToSender)
  BY <1>1 DEF ContentsInv, DeliveryInv, TypeInv, TypeOK
<1>4. Truthful(src, dest, toR'[c], toS'[c])
  <2>1. /\ toR'[c] # <<>> => toR[c] # <<>> /\ Head(toR'[c]) = Head(toR[c])
        /\ toS'[c] # <<>> => toS[c] # <<>> /\ Head(toS'[c]) = Head(toS[c])
    BY <1>3, PrefixHead
  <2> QED
    BY <2>1, KnownOf DEF Truthful
<1>5. Flow(src, snd[c], rcv[c], toR'[c], "down")
  <2> SUFFICES ASSUME rcv[c].pc \in AtFiles
               PROVE  \E end \in Nat : Runs(src, At(rcv[c]), toR'[c], end)
    BY DEF Flow
  <2>1. PICK end \in Nat : Runs(src, At(rcv[c]), toR[c], end)
    BY KnownOf DEF Flow
  <2> QED
    BY <1>3, <2>1, RunsPrefix
<1>6. FaithfulAt(c)'
  BY <1>2, <1>4, <1>5, KnownOf DEF FaithfulAt, Faithful
<1> QED
  BY <1>2, <1>6 DEF SmoothAt

LEMMA CancelContents ==
    ASSUME ContentsInv, edits = 0, NEW c \in Conns, Cancel(c)
    PROVE  (FaithfulAt(c) /\ SmoothAt(c))'
<1> DEFINE s == snd[c]
           r == [s EXCEPT !.cancelled = TRUE]
<1>1. /\ snd' = [snd EXCEPT ![c] = r]
      /\ UNCHANGED <<src, dest, rcv, toR, toS, link>>
  BY DEF Cancel, wires
<1>2. /\ snd'[c] = r /\ r.pc = s.pc /\ r.size = s.size /\ r.off = s.off /\ r.idx = s.idx
      /\ r.pos = s.pos /\ r.hash = s.hash /\ r.cancelled = TRUE
  BY <1>1, KnownOf DEF SenderState, ContentsInv, DeliveryInv, TypeInv, TypeOK
<1> HIDE DEF r
<1>3. Honest(src, r)
  BY <1>2, KnownOf DEF Honest
<1>4. Flow(src, r, rcv[c], toR[c], link[c])
  <2>1. At(r) = At(s)
    BY <1>2 DEF At
  <2> QED
    BY <2>1, KnownOf DEF Flow
<1>5. FaithfulAt(c)'
  BY <1>1, <1>2, <1>3, <1>4, KnownOf DEF FaithfulAt, Faithful
<1> QED
  BY <1>2, <1>5 DEF SmoothAt

\* A call begins when nobody is at work and every source is there.
LEMMA SendContents ==
    ASSUME ContentsInv, edits = 0, NEW c \in Conns, Send(c)
    PROVE  (FaithfulAt(c) /\ SmoothAt(c))'
<1> DEFINE size == [f \in Files |-> Len(src[f])]
           r == [snd[c] EXCEPT !.pc = "hello", !.size = size]
           g == [rcv[c] EXCEPT !.pc = "hello"]
<1>1. /\ snd[c].pc = "idle" /\ Present = Files
      /\ snd' = [snd EXCEPT ![c] = r] /\ rcv' = [rcv EXCEPT ![c] = g]
      /\ link' = [link EXCEPT ![c] = "up"] /\ toR' = [toR EXCEPT ![c] = <<Hello>>]
      /\ UNCHANGED <<src, dest, toS, hit>>
  BY DEF Send
<1>2. /\ toS[c] = <<>> /\ snd[c].off = FromStart
  BY <1>1, KnownOf DEF InStep, SenderSide
<1>3. \A f \in Files : src[f] # None /\ Len(src[f]) \in Nat /\ size[f] = Len(src[f])
  <2>1. \A f \in Files : src[f] # None /\ src[f] \in File \cup {None}
    BY <1>1 DEF Present, ContentsInv, DeliveryInv, TypeInv, TypeOK
  <2> QED
    BY <2>1, IsAFile
<1> HIDE DEF size
<1>4. /\ snd'[c] = r /\ r.pc = "hello" /\ r.size = size /\ r.off = FromStart
      /\ rcv'[c] = g /\ g.pc = "hello"
  BY <1>1, <1>2, KnownOf
     DEF SenderState, HandlerState, ContentsInv, DeliveryInv, TypeInv, TypeOK
<1>5. link'[c] = "up" /\ toR'[c] = <<Hello>>
  BY <1>1 DEF ContentsInv, DeliveryInv, TypeInv, TypeOK
<1> HIDE DEF r, g
<1>6. Honest(src, r)
  BY <1>3, <1>4 DEF Honest, FromStart
<1>7. Truthful(src, dest, <<Hello>>, <<>>)
  <2>1. Head(<<Hello>>).kind = "Hello"
    BY DEF Hello
  <2> QED
    BY <2>1 DEF Truthful
<1>8. FaithfulAt(c)'
  BY <1>1, <1>2, <1>4, <1>5, <1>6, <1>7 DEF FaithfulAt, Faithful, Backed, Flow, AtFiles
<1>9. SmoothAt(c)'
  BY <1>4, <1>5 DEF SmoothAt, Smooth
<1> QED
  BY <1>8, <1>9

-----------------------------------------------------------------------------
(* Every step.                                                             *)

\* A step of the system, while no source is edited, is one of a connection that
\* is alone at work, or none.
LEMMA NextAlone ==
    ASSUME MaxLive = 1, ContentsInv, edits = 0, edits' = 0, Lines', [Next]_vars
    PROVE  /\ src' = src /\ hit \subseteq hit' /\ Progresses
           /\ \/ UNCHANGED vars
              \/ \E c \in Conns :
                    /\ Elsewhere(c) /\ \A d \in Conns \ {c} : d \notin Live
                    /\ (FaithfulAt(c) /\ SmoothAt(c))'
<1>1. TypeInv
  BY DEF ContentsInv, DeliveryInv
<1>2. ASSUME NEW c \in Conns, Send(c)
      PROVE  /\ UNCHANGED <<src, dest, hit>> /\ Elsewhere(c) /\ (FaithfulAt(c) /\ SmoothAt(c))'
             /\ Live = {}
  <2>1. Live = {}
    <3>1. IsFiniteSet(Live)
      BY ConnsAssumption, FS_Subset DEF Live, Senders, Handlers
    <3>2. Cardinality(Live) < 1 /\ Cardinality(Live) \in Nat
      BY <1>2, <3>1, FS_CardinalityType DEF Send
    <3> QED
      BY <3>1, <3>2, FS_EmptySet
  <2>2. UNCHANGED <<src, dest, hit>>
    BY <1>2 DEF Send
  <2> QED
    BY <1>1, <1>2, <2>1, <2>2, StepsElsewhere, SendContents
<1>3. ASSUME NEW c \in Conns, SenderStep(c)
      PROVE  /\ UNCHANGED <<src, dest, hit>> /\ Elsewhere(c) /\ (FaithfulAt(c) /\ SmoothAt(c))'
             /\ c \in Live
  BY <1>1, <1>3, StepsElsewhere, SenderStepContents
<1>4. ASSUME NEW c \in Conns, HandlerStep(c)
      PROVE  /\ UNCHANGED <<src, hit>> /\ Progresses /\ Elsewhere(c)
             /\ (FaithfulAt(c) /\ SmoothAt(c))' /\ c \in Live
  BY <1>1, <1>4, StepsElsewhere, HandlerStepContents
<1>5. ASSUME NEW c \in Conns, LinkFails(c)
      PROVE  /\ UNCHANGED <<src, dest>> /\ hit \subseteq hit' /\ Elsewhere(c)
             /\ (FaithfulAt(c) /\ SmoothAt(c))' /\ c \in Live
  <2>1. UNCHANGED <<src, dest>> /\ hit \subseteq hit' /\ c \in Live
    BY <1>5 DEF LinkFails, Strike
  <2> QED
    BY <1>1, <1>5, <2>1, StepsElsewhere, LinkFailsContents
<1>6. ASSUME NEW c \in Conns, HandlerDies(c)
      PROVE  /\ src' = src /\ hit \subseteq hit' /\ Progresses /\ Elsewhere(c)
             /\ (FaithfulAt(c) /\ SmoothAt(c))' /\ c \in Live
  <2>1. src' = src /\ hit \subseteq hit' /\ c \in Live
    BY <1>6 DEF HandlerDies, Strike, Live
  <2> QED
    BY <1>1, <1>6, <2>1, StepsElsewhere, HandlerDiesContents
<1>7. ASSUME NEW c \in Conns, Cancel(c)
      PROVE  /\ UNCHANGED <<src, dest, hit>> /\ Elsewhere(c) /\ (FaithfulAt(c) /\ SmoothAt(c))'
             /\ c \in Live
  <2>1. UNCHANGED <<src, dest, hit>> /\ c \in Live
    BY <1>7 DEF Cancel, Live
  <2> QED
    BY <1>1, <1>7, <2>1, StepsElsewhere, CancelContents
<1>8. \A f \in Files : ~EditSource(f)
  BY DEF EditSource
<1>9. ASSUME UNCHANGED vars PROVE UNCHANGED <<src, dest, hit>>
  BY <1>9 DEF vars
<1>10. dest' = dest => Progresses
  BY DEF Progresses
<1>11. CASE UNCHANGED vars
  BY <1>9, <1>10, <1>11
<1>12. CASE \E c \in Conns :
              \/ Send(c) \/ SenderStep(c) \/ HandlerStep(c)
              \/ LinkFails(c) \/ HandlerDies(c) \/ Cancel(c)
  <2>1. PICK c \in Conns :
          \/ Send(c) \/ SenderStep(c) \/ HandlerStep(c)
          \/ LinkFails(c) \/ HandlerDies(c) \/ Cancel(c)
    BY <1>12
  <2>2. /\ src' = src /\ hit \subseteq hit' /\ Progresses /\ Elsewhere(c)
        /\ (FaithfulAt(c) /\ SmoothAt(c))'
        /\ c \in Live \/ Live = {}
    <3>1. hit' = hit => hit \subseteq hit'
      OBVIOUS
    <3> QED
      BY <1>2, <1>3, <1>4, <1>5, <1>6, <1>7, <1>10, <2>1, <3>1, Zenon
  <2>3. \A d \in Conns \ {c} : d \notin Live
    BY <2>2, AloneAtWork
  <2> QED
    BY <2>2, <2>3
<1> QED
  BY <1>8, <1>11, <1>12 DEF Next, AtRest

\* What was edited stays edited.
LEMMA EditsGrow ==
    ASSUME ContentsInv, [Next]_vars, edits' = 0
    PROVE  edits = 0
<1>1. edits \in Nat
  BY CountsAssumption DEF ContentsInv, DeliveryInv, TypeInv, TypeOK
<1>2. ASSUME NEW c \in Conns, SenderStep(c) PROVE edits' = edits
  BY <1>2 DEF SenderStep, StartFresh, SendQueries, RecvAnswers, SendFileStart, SourceFails,
         StreamChunk, StreamEnd, CancelSeen, SendDone, RecvDoneAck, SenderIOError
<1>3. ASSUME NEW c \in Conns, HandlerStep(c) PROVE edits' = edits
  BY <1>3 DEF HandlerStep, RecvHello, RecvQueries, RecvFileStart, HashPrefix, PrefixGone,
         RecvData, RecvFileDone, ChecksumMismatch, RecvDone, HandlerEOF
<1>4. ASSUME NEW c \in Conns, Send(c) \/ LinkFails(c) \/ HandlerDies(c) \/ Cancel(c)
      PROVE  edits' = edits
  BY <1>4 DEF Send, LinkFails, HandlerDies, Cancel
<1>5. ASSUME NEW f \in Files, EditSource(f) PROVE edits' = edits + 1
  BY <1>5 DEF EditSource
<1>6. UNCHANGED vars => edits' = edits
  BY DEF vars
<1>7. edits' = edits \/ edits' = edits + 1
  BY <1>2, <1>3, <1>4, <1>5, <1>6 DEF Next, AtRest
<1> QED
  BY <1>1, <1>7

LEMMA NextContents ==
    ASSUME MaxLive = 1, ContentsInv, [Next]_vars
    PROVE  ContentsInv'
<1>1. DeliveryInv' /\ Lines'
  BY NextDelivery, NextLines DEF ContentsInv, DeliveryInv
<1>2. Contents'
  <2> SUFFICES ASSUME edits' = 0 PROVE Contents'
    BY DEF Contents
  <2>1. edits = 0
    BY EditsGrow
  <2>2. /\ src' = src /\ hit \subseteq hit' /\ Progresses
        /\ \/ UNCHANGED vars
           \/ \E c \in Conns :
                 /\ Elsewhere(c) /\ \A d \in Conns \ {c} : d \notin Live
                 /\ (FaithfulAt(c) /\ SmoothAt(c))'
    BY <1>1, <2>1, NextAlone
  <2>3. CASE UNCHANGED vars
    BY <2>3 DEF ContentsInv, Contents, FaithfulAt, SmoothAt, vars, wires
  <2>4. CASE \E c \in Conns :
                 /\ Elsewhere(c) /\ \A d \in Conns \ {c} : d \notin Live
                 /\ (FaithfulAt(c) /\ SmoothAt(c))'
    <3>1. \A f \in Files : Settled(src[f], dest[f]) => dest'[f] = dest[f]
      BY <2>2 DEF Progresses, Builds
    <3> QED
      BY <2>1, <2>2, <2>4, <3>1, ContentsStep
  <2> QED
    BY <2>2, <2>3, <2>4
<1> QED
  BY <1>1, <1>2 DEF ContentsInv

LEMMA InitContents == Init => ContentsInv
<1> SUFFICES ASSUME Init PROVE ContentsInv
  OBVIOUS
<1>1. ASSUME NEW c \in Conns
      PROVE  /\ snd[c].pc = "idle" /\ rcv[c].pc = "none"
             /\ toR[c] = <<>> /\ toS[c] = <<>>
  BY <1>1 DEF Init
<1>2. ASSUME NEW c \in Conns PROVE FaithfulAt(c) /\ SmoothAt(c)
  BY <1>1 DEF FaithfulAt, SmoothAt, Faithful, Smooth, Honest, Backed, Truthful, Flow, AtFiles
<1> QED
  BY <1>2, InitDelivery, InitLines DEF ContentsInv, Contents

-----------------------------------------------------------------------------
(* What the invariant promises.                                            *)

\* As long as one connection is at work at a time and nobody edits a source, a
\* call of Send that returns nil leaves at the receiver what the sender has: a
\* file that was sent is equal to its source, and a file that was skipped begins
\* with it (handleConn answers -1 only when every chunk of the source agrees).
THEOREM SuccessMeansSameAlways ==
    ASSUME MaxLive = 1
    PROVE  Spec => []SuccessMeansSame
<1>1. ContentsInv /\ [Next]_vars => ContentsInv'
  BY NextContents
<1>2. ContentsInv => SuccessMeansSame
  <2> SUFFICES ASSUME ContentsInv, NEW c \in Conns, NEW f \in Files,
                      snd[c].pc = "ok", edits = 0
               PROVE  IF snd[c].off[f] = Skip
                      THEN IsPrefix(src[f], dest[f])
                      ELSE dest[f] = src[f]
    BY DEF SuccessMeansSame
  <2>1. /\ rcv[c].pc = "acked" /\ rcv[c].off = snd[c].off /\ rcv[c].idx = NFiles + 1
        /\ Backed(src, dest, rcv[c])
    BY KnownOf DEF Confirmed
  <2>2. f < NFiles + 1
    BY CountsAssumption DEF Files
  <2>3. Settled(src[f], dest[f]) /\ (snd[c].off[f] # Skip => dest[f] = src[f])
    BY <2>1, <2>2 DEF Backed
  <2>4. src[f] \in File /\ dest[f] \in File \cup {None}
    BY <2>1, SourcesAreFiles
  <2>5. IsPrefix(src[f], dest[f])
    BY <2>3, <2>4, SettledBegins, PrefixAll DEF IsPrefix, Prefix
  <2> QED
    BY <2>3, <2>5
<1> QED
  BY <1>1, <1>2, InitContents, PTL DEF Spec

\* Under the same conditions a run fails at either end only after a fault on its
\* connection or a cancellation, whatever the receiver had on disk before: no
\* offset is beyond the end of a source (sendFile), no kept prefix is gone and no
\* checksum differs (receiveFile), and neither end gives up on the other.
THEOREM OnlyFaultsFailAlways ==
    ASSUME MaxLive = 1
    PROVE  Spec => []OnlyFaultsFail
<1>1. ContentsInv /\ [Next]_vars => ContentsInv'
  BY NextContents
<1>2. ContentsInv => OnlyFaultsFail
  <2> SUFFICES ASSUME ContentsInv, NEW c \in Conns, edits = 0,
                      snd[c].pc = "failed" \/ rcv[c].pc = "failed"
               PROVE  c \in hit \/ snd[c].cancelled
    BY DEF OnlyFaultsFail
  <2>1. snd[c].pc # "idle"
    BY KnownOf DEF InStep, SenderSide
  <2> QED
    BY <2>1, KnownOf DEF SmoothAt, Smooth
<1> QED
  BY <1>1, <1>2, InitContents, PTL DEF Spec

\* Under the same conditions no step of a run, of a fault or of a retry loses a
\* chunk that a destination shared with its source: receiveFile cuts a file where
\* the matching chunks end, and everything written after that continues the source.
THEOREM KeepsGroundAlways ==
    ASSUME MaxLive = 1
    PROVE  Spec => KeepsGround
<1>1. ContentsInv /\ [Next]_vars => ContentsInv'
  BY NextContents
<1>2. ContentsInv /\ [Next]_vars
        => [edits' = 0 => \A f \in Files : Ground(f)' >= Ground(f)]_vars
  <2> SUFFICES ASSUME ContentsInv, [Next]_vars, edits' = 0, NEW f \in Files
               PROVE  Ground(f)' >= Ground(f)
    OBVIOUS
  <2>1. ContentsInv' /\ edits = 0
    BY NextContents, EditsGrow
  <2>2. src' = src /\ (dest'[f] = dest[f] \/ Builds(src[f], dest[f], dest'[f]))
    BY <2>1, NextAlone DEF ContentsInv, Progresses
  <2>3. src[f] \in File \cup {None}
    BY DEF ContentsInv, DeliveryInv, TypeInv, TypeOK
  <2>4. ASSUME src[f] # None, NEW d PROVE FirstBreak(d, Asked(src[f])) \in Nat \ {0}
    BY <2>3, <2>4, AskedFields, FirstBreakExists
  <2>5. /\ Ground(f) = IF src[f] = None \/ dest[f] = None THEN 0
                       ELSE FirstBreak(dest[f], Asked(src[f])) - 1
        /\ Ground(f)' = IF src[f] = None \/ dest'[f] = None THEN 0
                        ELSE FirstBreak(dest'[f], Asked(src[f])) - 1
    BY <2>2 DEF Ground, Asked
  <2>6. dest'[f] # dest[f] =>
          /\ dest'[f] # None
          /\ dest[f] # None =>
                FirstBreak(dest[f], Asked(src[f])) <= FirstBreak(dest'[f], Asked(src[f]))
    BY <2>2, IsAFile DEF Builds
  <2> HIDE DEF Ground
  <2> QED
    BY <2>4, <2>5, <2>6
<1> QED
  BY <1>1, <1>2, InitContents, PTL DEF Spec, KeepsGround

-----------------------------------------------------------------------------
(* What the caller of Send may rely on: Transfer implements Delivery.        *)

\* A whole chunk that both files have from the start agrees.
LEMMA SharedAgrees ==
    ASSUME NEW x \in File, NEW d \in File, NEW k \in Nat \ {0},
           k * ChunkSize <= Len(d), k * ChunkSize <= Len(x),
           Prefix(d, k * ChunkSize) = Prefix(x, k * ChunkSize)
    PROVE  k < FirstBreak(d, Asked(x))
<1> DEFINE n == k * ChunkSize
           q == Asked(x)
           b == FirstBreak(d, q)
<1>1. n \in Nat /\ Len(d) \in Nat /\ Len(x) \in Nat /\ n \in 0..Len(d) /\ n \in 0..Len(x)
  BY ChunkSizeAssumption, IsAFile
<1>2. k <= NumChunks(d) /\ k <= NumChunks(x) /\ NumChunks(x) \in Nat /\ NumChunks(d) \in Nat
  BY <1>1, ChunksThatFit, ChunkSizeAssumption DEF NumChunks
<1>3. ASSUME NEW i \in 1..k PROVE ChunkAgrees(d, q, i)
  <2>1. i \in Nat \ {0} /\ i <= NumChunks(d) /\ i <= NumChunks(x)
    BY <1>2
  <2>2. i * ChunkSize <= n /\ i * ChunkSize \in Nat
    <3>1. \A a, b1, c \in Nat : a <= b1 => a * c <= b1 * c
      OBVIOUS
    <3> QED
      BY <2>1, <3>1, ChunkSizeAssumption
  <2> HIDE DEF n
  <2>3. AtMost(i * ChunkSize, Len(d)) <= n /\ AtMost(i * ChunkSize, Len(x)) <= n
    BY <1>1, <2>2 DEF AtMost
  <2>4. /\ ChunkAt(Prefix(d, n), i) = ChunkAt(d, i)
        /\ ChunkAt(Prefix(x, n), i) = ChunkAt(x, i)
    BY <1>1, <2>1, <2>3, ChunkOfPrefix
  <2>5. ChunkAt(d, i) = ChunkAt(x, i)
    BY <2>4 DEF n
  <2>6. q.Chunks[i] = ChunkAt(x, i)
    BY <1>2, <2>1, AskedFields
  <2> QED
    BY <2>1, <2>5, <2>6 DEF ChunkAgrees
<1>4. q \in Query /\ Len(q.Chunks) = NumChunks(x)
  BY AskedFields
<1>5. /\ b \in 1..(NumChunks(x) + 1)
      /\ b <= NumChunks(x) => ~ChunkAgrees(d, q, b)
  BY <1>4, FirstBreakExists
<1> HIDE DEF b
<1> QED
  BY <1>2, <1>3, <1>5 DEF b

\* A file has the bytes of the whole chunks that agree.
LEMMA AgreedIsThere ==
    ASSUME NEW x \in File, NEW e \in File, NEW k \in Nat \ {0},
           k * ChunkSize <= Len(x), k < FirstBreak(e, Asked(x))
    PROVE  k * ChunkSize <= Len(e)
<1> DEFINE q == Asked(x)
           s == (k - 1) * ChunkSize
<1>1. /\ s \in Nat /\ k * ChunkSize = s + ChunkSize /\ ChunkSize \in Nat \ {0}
      /\ Len(x) \in Nat /\ Len(e) \in Nat
  BY ChunkSizeAssumption, IsAFile
<1>2. k <= NumChunks(x)
  BY ChunksThatFit
<1>3. q \in Query /\ NumChunks(x) \in Nat /\ q.Chunks[k] = ChunkAt(x, k)
  BY <1>2, AskedFields
<1>4. FirstBreak(e, q) \in Nat /\ k \in 1..(FirstBreak(e, q) - 1)
  BY <1>3, FirstBreakExists
<1>5. ChunkAt(e, k) = ChunkAt(x, k)
  BY <1>3, <1>4, FirstBreakExists DEF ChunkAgrees
<1> HIDE DEF s
<1>6. \A g \in {e, x} :
        Len(ChunkAt(g, k)) = IF s < Len(g) THEN AtMost(s + ChunkSize, Len(g)) - s ELSE 0
  BY <1>1, ChunkAtLen DEF s
<1> QED
  BY <1>1, <1>5, <1>6 DEF AtMost

\* The whole chunks that a file shares with its source are in what it becomes.
LEMMA BuildsArrives ==
    ASSUME NEW x \in File, NEW d \in File \cup {None}, NEW e, Builds(x, d, e), e # d
    PROVE  /\ d # x
           /\ \E n \in 0..Len(x) :
                 /\ e = SubSeq(x, 1, n)
                 /\ \A m \in 0..Len(x) :
                       m % ChunkSize = 0 /\ Promise!Shares(d, x, m) => m <= n
<1>1. d # x
  BY SameIsSettled DEF Builds
<1>2. PICK n \in 0..Len(x) : e = Prefix(x, n)
  BY DEF Builds
<1>3. e \in File /\ Len(e) = n
  BY <1>2, PrefixType
<1>4. ASSUME NEW m \in 0..Len(x), m % ChunkSize = 0, Promise!Shares(d, x, m)
      PROVE  m <= n
  <2> DEFINE k == m \div ChunkSize
  <2>1. k \in Nat /\ m = k * ChunkSize /\ m \in Nat /\ Len(x) \in Nat
    BY <1>4, ChunkSizeAssumption, IsAFile
  <2>2. d \in File /\ m <= Len(d) /\ m <= Len(x) /\ Prefix(d, m) = Prefix(x, m)
    BY <1>4 DEF Promise!Shares, Prefix
  <2> HIDE DEF k
  <2>3. CASE k = 0
    BY <2>1, <2>3, ChunkSizeAssumption
  <2>4. CASE k # 0
    <3>1. k < FirstBreak(d, Asked(x))
      BY <2>1, <2>2, <2>4, SharedAgrees
    <3>2. FirstBreak(d, Asked(x)) \in Nat /\ FirstBreak(e, Asked(x)) \in Nat
      BY AskedFields, FirstBreakExists
    <3>3. k < FirstBreak(e, Asked(x))
      BY <2>1, <2>2, <3>1, <3>2, IsAFile DEF Builds
    <3> QED
      BY <1>3, <2>1, <2>2, <2>4, <3>3, AgreedIsThere
  <2> QED
    BY <2>3, <2>4
<1> QED
  BY <1>1, <1>2, <1>4 DEF Prefix

\* A destination that a handler changes gets more of its source.
LEMMA ProgressDelivers ==
    ASSUME ContentsInv, edits = 0, TypeInv', Progresses, src' = src,
           NEW c \in Conns, rcv[c].pc # "none"
    PROVE  Promise!Delivers
<1>1. DOMAIN dest' = Files
  BY DEF TypeInv, TypeOK
<1>2. \A f \in Files : src[f] \in File /\ dest[f] \in File \cup {None}
  BY SourcesAreFiles
<1>3. ASSUME NEW f \in Files, dest'[f] # dest[f] PROVE Promise!Arrives(f)
  <2>1. Builds(src[f], dest[f], dest'[f])
    BY <1>3 DEF Progresses
  <2> QED
    BY <1>2, <1>3, <2>1, BuildsArrives DEF Promise!Arrives
<1> QED
  BY <1>1, <1>3 DEF Promise!Delivers

-----------------------------------------------------------------------------
(* The last call.                                                          *)

\* Nothing has come in the way of a call before it begins, and the last one did.
CallInv ==
    /\ \A c \in Conns : snd[c].pc = "idle" => c \notin hit /\ ~snd[c].cancelled
    /\ latest # None => latest \in Conns /\ snd[latest].pc # "idle"

CallerInv == ContentsInv /\ LastAtWork /\ CallInv

\* Who is at work is the last call, and it has begun.
LEMMA LiveIsLatest ==
    ASSUME CallerInv, NEW c \in Live
    PROVE  /\ c \in Conns /\ latest = c /\ c # None /\ snd[c].pc # "idle" /\ rcv[c].pc # "none"
           /\ LastCall = IF c \in Senders THEN "running" ELSE "lingering"
           /\ c \notin Senders => snd[c].pc = "failed" /\ c \in Handlers
           /\ Promise!AtWork
<1>1. c \in Conns /\ latest = c /\ c # None
  BY ConnsAssumption DEF CallerInv, LastAtWork, Live, Senders, Handlers
<1>2. snd[c].pc # "idle"
  BY <1>1 DEF CallerInv, CallInv
<1>3. InStep(snd[c], rcv[c], toR[c], toS[c], link[c])
      /\ Confirmed(snd[c], rcv[c], toR[c], toS[c], told[c], taken[c])
  BY <1>1 DEF CallerInv, ContentsInv, Lines, LineOf, Line
<1>4. rcv[c].pc # "none"
  BY <1>2, <1>3 DEF InStep, SenderSide
<1>5. ASSUME c \notin Senders
      PROVE  snd[c].pc = "failed" /\ c \in Handlers /\ LastCall = "lingering"
  <2>1. c \in Handlers /\ rcv[c].pc # "acked" /\ snd[c].pc \in {"ok", "failed"}
    BY <1>1, <1>2, <1>5 DEF Live, Senders, Handlers
  <2>2. snd[c].pc # "ok"
    BY <1>3, <2>1 DEF Confirmed
  <2> QED
    BY <1>1, <2>1, <2>2 DEF LastCall
<1>6. c \in Senders => LastCall = "running"
  BY <1>1 DEF Senders, LastCall
<1> QED
  BY <1>1, <1>2, <1>4, <1>5, <1>6 DEF Promise!AtWork

\* Each step but the first of a call leaves the last call what it is, begins no
\* call, and comes in the way of none that has not begun.
LEMMA QuietCall ==
    ASSUME CallInv, latest' = latest, TypeInv,
           NEW c \in Conns, snd[c].pc # "idle", snd'[c].pc # "idle",
           \A d \in Conns \ {c} : snd'[d] = snd[d] /\ (d \in hit' => d \in hit)
    PROVE  CallInv'
<1>1. ASSUME NEW d \in Conns, snd'[d].pc = "idle" PROVE d \notin hit' /\ ~snd'[d].cancelled
  <2>1. d # c
    BY <1>1
  <2> QED
    BY <1>1, <2>1 DEF CallInv
<1>2. ASSUME latest # None PROVE latest \in Conns /\ snd'[latest].pc # "idle"
  <2>1. latest \in Conns /\ snd[latest].pc # "idle"
    BY <1>2 DEF CallInv
  <2> QED
    BY <2>1
<1> QED
  BY <1>1, <1>2 DEF CallInv

LEMMA NextCall ==
    ASSUME CallerInv, [Next]_vars
    PROVE  CallInv'
<1>1. TypeInv /\ CallInv /\ snd \in [Conns -> SenderState]
  BY DEF CallerInv, ContentsInv, DeliveryInv, TypeInv, TypeOK
<1>2. ASSUME NEW c \in Conns, Send(c) PROVE CallInv'
  <2>1. /\ latest' = c /\ hit' = hit /\ snd'[c].pc = "hello"
        /\ \A d \in Conns \ {c} : snd'[d] = snd[d]
    BY <1>1, <1>2 DEF Send, SenderState
  <2> QED
    BY <1>1, <2>1 DEF CallInv
<1>3. ASSUME NEW c \in Conns, SenderStep(c) PROVE CallInv'
  <2>1. latest' = latest /\ hit' = hit /\ c \in Senders
    BY <1>3 DEF SenderStep, StartFresh, SendQueries, RecvAnswers, SendFileStart, SourceFails,
       StreamChunk, StreamEnd, CancelSeen, SendDone, RecvDoneAck, SenderIOError, ghosts, Senders
  <2>2. snd[c].pc # "idle" /\ snd'[c].pc # "idle" /\ Elsewhere(c)
    BY <1>1, <1>3, <2>1, SenderStepLive, StepsElsewhere DEF Senders
  <2> QED
    BY <1>1, <2>1, <2>2, QuietCall DEF Elsewhere
<1>4. ASSUME NEW c \in Conns, HandlerStep(c) PROVE CallInv'
  <2>1. latest' = latest /\ hit' = hit /\ snd' = snd
    BY <1>4 DEF HandlerStep, RecvHello, RecvQueries, RecvFileStart, HashPrefix, PrefixGone,
         RecvData, RecvFileDone, ChecksumMismatch, RecvDone, HandlerEOF, ghosts
  <2> QED
    BY <1>1, <2>1 DEF CallInv
<1>5. ASSUME NEW c \in Conns, LinkFails(c) \/ HandlerDies(c) PROVE CallInv'
  <2>1. latest' = latest /\ hit' = hit \cup {c} /\ snd' = snd /\ c \in Live
    BY <1>5 DEF LinkFails, HandlerDies, Strike, ghosts, Live
  <2>2. snd[c].pc # "idle"
    BY <2>1, LiveIsLatest
  <2> QED
    BY <1>1, <2>1, <2>2, QuietCall
<1>6. ASSUME NEW c \in Conns, Cancel(c) PROVE CallInv'
  <2>1. /\ latest' = latest /\ hit' = hit /\ snd[c].pc # "idle" /\ snd'[c].pc # "idle"
        /\ \A d \in Conns \ {c} : snd'[d] = snd[d]
    BY <1>1, <1>6 DEF Cancel, ghosts, SenderState, Senders
  <2> QED
    BY <1>1, <2>1, QuietCall
<1>7. ASSUME UNCHANGED <<snd, latest, hit>> PROVE CallInv'
  BY <1>1, <1>7 DEF CallInv
<1> QED
  BY <1>2, <1>3, <1>4, <1>5, <1>6, <1>7 DEF Next, EditSource, AtRest, vars, ghosts

-----------------------------------------------------------------------------
(* The steps, one by one, as long as no source is edited.                   *)

\* When the sender reads DoneAck, every destination has its source.
LEMMA AckedIsThere ==
    ASSUME ContentsInv, edits = 0, NEW c \in Conns, RecvDoneAck(c), NEW f \in Files
    PROVE  Promise!Shares(dest[f], src[f], Len(src[f]))
<1>1. rcv[c].pc = "acked" /\ rcv[c].idx = NFiles + 1 /\ Backed(src, dest, rcv[c])
  BY KnownOf DEF RecvDoneAck, Confirmed
<1>2. Settled(src[f], dest[f])
  BY <1>1, CountsAssumption DEF Files, Backed
<1>3. src[f] \in File /\ dest[f] \in File \cup {None} /\ Len(src[f]) \in Nat
  BY <1>1, SourcesAreFiles
<1>4. /\ dest[f] \in File /\ Len(src[f]) <= Len(dest[f])
      /\ Prefix(dest[f], Len(src[f])) = Prefix(src[f], Len(src[f]))
  BY <1>2, <1>3, SettledBegins, PrefixAll
<1> QED
  BY <1>3, <1>4, IsAFile DEF Promise!Shares, Prefix

\* A step of Send cancels nothing, and succeeds only with DoneAck.
LEMMA SenderStepMeans ==
    ASSUME TypeInv, NEW c \in Conns, SenderStep(c)
    PROVE  snd'[c].cancelled = snd[c].cancelled /\ (snd'[c].pc = "ok" => RecvDoneAck(c))
<1>0. snd \in [Conns -> SenderState] /\ snd[c] \in SenderState
  BY DEF TypeInv, TypeOK
<1>1. CASE StartFresh(c) BY <1>0, <1>1 DEF StartFresh, SenderState
<1>2. CASE SendQueries(c) BY <1>0, <1>2 DEF SendQueries, SenderState
<1>3. CASE RecvAnswers(c) BY <1>0, <1>3 DEF RecvAnswers, SenderState
<1>4. CASE SendFileStart(c) BY <1>0, <1>4 DEF SendFileStart, SenderState
<1>5. CASE SourceFails(c) BY <1>0, <1>5 DEF SourceFails, SenderEnds, SenderState
<1>6. CASE StreamChunk(c) BY <1>0, <1>6 DEF StreamChunk, SenderState
<1>7. CASE StreamEnd(c) BY <1>0, <1>7 DEF StreamEnd, SenderState
<1>8. CASE CancelSeen(c) BY <1>0, <1>8 DEF CancelSeen, SenderEnds, SenderState
<1>9. CASE SendDone(c) BY <1>0, <1>9 DEF SendDone, SenderState
<1>10. CASE RecvDoneAck(c) BY <1>0, <1>10 DEF RecvDoneAck, SenderEnds, SenderState
<1>11. CASE SenderIOError(c) BY <1>0, <1>11 DEF SenderIOError, SenderEnds, SenderState
<1> QED
  BY <1>1, <1>2, <1>3, <1>4, <1>5, <1>6, <1>7, <1>8, <1>9, <1>10, <1>11 DEF SenderStep

LEMMA SenderStepCalls ==
    ASSUME CallerInv, edits = 0, ContentsInv', edits' = 0, src' = src,
           NEW c \in Conns, SenderStep(c)
    PROVE  Promise!Next \/ UNCHANGED Promise!vars
<1>1. /\ c \in Senders /\ UNCHANGED <<latest, hit, rcv, dest>>
  BY DEF SenderStep, StartFresh, SendQueries, RecvAnswers, SendFileStart, SourceFails,
     StreamChunk, StreamEnd, CancelSeen, SendDone, RecvDoneAck, SenderIOError, ghosts, Senders
<1>2. snd'[c].cancelled = snd[c].cancelled /\ (snd'[c].pc = "ok" => RecvDoneAck(c))
  BY SenderStepMeans DEF CallerInv, ContentsInv, DeliveryInv
<1>3. latest = c /\ c # None /\ LastCall = "running"
  BY <1>1, LiveIsLatest DEF Live
<1>4. UNCHANGED <<src, dest, LastDisturbed, edits>> /\ (edits' > 0) = (edits > 0)
  BY <1>1, <1>2, <1>3 DEF LastDisturbed
<1>5. CASE snd'[c].pc \notin {"ok", "failed"}
  <2>1. LastCall' = "running"
    BY <1>1, <1>3, <1>5 DEF LastCall
  <2> QED
    BY <1>3, <1>4, <2>1 DEF Promise!vars
<1>6. CASE snd'[c].pc = "ok"
  <2>1. LastCall' = "ok"
    BY <1>1, <1>3, <1>6 DEF LastCall
  <2>2. RecvDoneAck(c)
    BY <1>2, <1>6
  <2>3. Promise!Succeed
    BY <1>3, <1>4, <2>1, <2>2, AckedIsThere DEF Promise!Succeed, CallerInv
  <2> QED
    BY <2>3 DEF Promise!Next
<1>7. CASE snd'[c].pc = "failed"
  <2>1. LastCall' \in {"lingering", "failed"}
    BY <1>1, <1>3, <1>7 DEF LastCall
  <2>2. SmoothAt(c)'
    BY DEF ContentsInv, Contents
  <2>3. LastDisturbed
    BY <1>1, <1>2, <1>3, <1>7, <2>2 DEF SmoothAt, Smooth, LastDisturbed
  <2>4. Promise!Fail
    BY <1>3, <1>4, <2>1, <2>3 DEF Promise!Fail
  <2> QED
    BY <2>4 DEF Promise!Next
<1> QED
  BY <1>5, <1>6, <1>7

LEMMA HandlerStepCalls ==
    ASSUME CallerInv, edits = 0, TypeInv', edits' = 0, src' = src, Progresses,
           NEW c \in Conns, HandlerStep(c)
    PROVE  Promise!Next \/ UNCHANGED Promise!vars
<1>1. c \in Handlers /\ UNCHANGED <<latest, hit, snd>> /\ c \in Live
  BY HandlerStepLive
     DEF CallerInv, ContentsInv, DeliveryInv, Live, HandlerStep, RecvHello, RecvQueries,
         RecvFileStart, HashPrefix, PrefixGone, RecvData, RecvFileDone, ChecksumMismatch,
         RecvDone, HandlerEOF, ghosts
<1>2. latest = c /\ c # None /\ rcv[c].pc # "none" /\ Promise!AtWork
      /\ LastCall = (IF c \in Senders THEN "running" ELSE "lingering")
      /\ (c \notin Senders => snd[c].pc = "failed")
  BY <1>1, LiveIsLatest
<1>3. UNCHANGED <<src, LastDisturbed, edits>> /\ (edits' > 0) = (edits > 0)
  BY <1>1 DEF LastDisturbed
<1>4. Promise!Delivers
  BY <1>2, ProgressDelivers DEF CallerInv
<1>5. CASE c \in Senders \/ c \in Handlers'
  <2>1. LastCall' = LastCall
    BY <1>1, <1>2, <1>5 DEF LastCall, Senders
  <2>2. Promise!Deliver
    BY <1>2, <1>3, <1>4, <2>1 DEF Promise!Deliver
  <2> QED
    BY <2>2 DEF Promise!Next
<1>6. CASE c \notin Senders /\ c \notin Handlers'
  <2>1. LastCall' = "failed"
    BY <1>1, <1>2, <1>6 DEF LastCall
  <2>2. dest' = dest
    <3>1. rcv'[c].pc \in {"none", "acked", "failed"}
      BY <1>6 DEF Handlers
    <3>2. rcv \in [Conns -> HandlerState]
      BY DEF CallerInv, ContentsInv, DeliveryInv, TypeInv, TypeOK
    <3> QED
      BY <3>1, <3>2 DEF HandlerStep, RecvHello, RecvQueries, RecvFileStart, HashPrefix, PrefixGone,
         RecvData, RecvFileDone, ChecksumMismatch, RecvDone, HandlerEOF, HandlerState
  <2>3. Promise!Settle
    BY <1>2, <1>3, <1>6, <2>1, <2>2 DEF Promise!Settle
  <2> QED
    BY <2>3 DEF Promise!Next
<1> QED
  BY <1>5, <1>6

\* A fault or a cancellation is one of the last call.
LEMMA FaultCalls ==
    ASSUME CallerInv, edits = 0, TypeInv', edits' = 0, src' = src, Progresses,
           NEW c \in Conns, LinkFails(c) \/ HandlerDies(c) \/ Cancel(c)
    PROVE  Promise!Disturb
<1>1. c \in Live /\ latest' = latest /\ snd \in [Conns -> SenderState]
      /\ rcv \in [Conns -> HandlerState]
  BY DEF LinkFails, HandlerDies, Cancel, Live, ghosts, CallerInv, ContentsInv, DeliveryInv,
     TypeInv, TypeOK
<1>2. latest = c /\ c # None /\ rcv[c].pc # "none" /\ Promise!AtWork
      /\ LastCall = (IF c \in Senders THEN "running" ELSE "lingering")
      /\ (c \notin Senders => snd[c].pc = "failed" /\ c \in Handlers)
  BY <1>1, LiveIsLatest
<1>3. LastDisturbed'
  <2>1. c \in hit' \/ snd'[c].cancelled
    BY <1>1 DEF LinkFails, HandlerDies, Cancel, Strike, SenderState
  <2> QED
    BY <1>1, <1>2, <2>1 DEF LastDisturbed
<1>4. snd'[c].pc = snd[c].pc
  BY <1>1 DEF LinkFails, HandlerDies, Cancel, SenderState
<1>5. LastCall' = LastCall \/ (LastCall = "lingering" /\ LastCall' = "failed")
  BY <1>1, <1>2, <1>4 DEF LastCall, Senders
<1>6. Promise!Delivers
  BY <1>2, ProgressDelivers DEF CallerInv
<1> QED
  BY <1>2, <1>3, <1>5, <1>6 DEF Promise!Disturb

LEMMA SendCalls ==
    ASSUME MaxLive = 1, CallerInv, edits = 0, edits' = 0, NEW c \in Conns, Send(c)
    PROVE  Promise!Start
<1>1. Live = {}
  <2>1. IsFiniteSet(Live)
    BY ConnsAssumption, FS_Subset DEF Live, Senders, Handlers
  <2>2. Cardinality(Live) < 1 /\ Cardinality(Live) \in Nat
    BY <2>1, FS_CardinalityType DEF Send
  <2> QED
    BY <2>1, <2>2, FS_EmptySet
<1>2. LastCall \in {"none", "ok", "failed"}
  <2>1. CASE latest = None
    BY <2>1 DEF LastCall
  <2>2. CASE latest # None
    <3>1. latest \in Conns /\ snd[latest].pc # "idle"
      BY <2>2 DEF CallerInv, CallInv
    <3>2. snd[latest].pc \in {"ok", "failed"} /\ latest \notin Handlers
      BY <1>1, <3>1 DEF Live, Senders
    <3> QED
      BY <2>2, <3>2 DEF LastCall
  <2> QED
    BY <2>1, <2>2
<1>3. /\ snd[c].pc = "idle" /\ latest' = c /\ hit' = hit /\ UNCHANGED <<src, dest>>
      /\ snd'[c].pc = "hello" /\ snd'[c].cancelled = snd[c].cancelled /\ c # None
  BY ConnsAssumption
     DEF Send, CallerInv, ContentsInv, DeliveryInv, TypeInv, TypeOK, SenderState
<1>4. LastCall' = "running"
  BY <1>3 DEF LastCall
<1>5. ~LastDisturbed'
  BY <1>3 DEF LastDisturbed, CallerInv, CallInv
<1>6. \A f \in Files : src[f] # None
  BY DEF Send, Present
<1> QED
  BY <1>2, <1>3, <1>4, <1>5, <1>6 DEF Promise!Start, Promise!AtWork

LEMMA NextKeepsDelivery ==
    ASSUME MaxLive = 1, CallerInv, ContentsInv', [Next]_vars
    PROVE  Promise!Next \/ UNCHANGED Promise!vars
<1>1. CASE edits' # 0
  <2>1. edits' \in Nat
    BY CountsAssumption DEF ContentsInv, DeliveryInv, TypeInv, TypeOK
  <2>2. Promise!Edited
    BY <1>1, <2>1 DEF Promise!Edited
  <2> QED
    BY <2>2 DEF Promise!Next
<1>2. CASE edits' = 0
  <2>1. edits = 0 /\ src' = src /\ Progresses /\ TypeInv'
    BY <1>2, EditsGrow, NextAlone DEF CallerInv, ContentsInv, DeliveryInv
  <2>2. ASSUME NEW c \in Conns, Send(c) PROVE Promise!Next
    BY <1>2, <2>1, <2>2, SendCalls DEF Promise!Next
  <2>3. ASSUME NEW c \in Conns, SenderStep(c) PROVE Promise!Next \/ UNCHANGED Promise!vars
    BY <1>2, <2>1, <2>3, SenderStepCalls
  <2>4. ASSUME NEW c \in Conns, HandlerStep(c) PROVE Promise!Next \/ UNCHANGED Promise!vars
    BY <1>2, <2>1, <2>4, HandlerStepCalls
  <2>5. ASSUME NEW c \in Conns, LinkFails(c) \/ HandlerDies(c) \/ Cancel(c) PROVE Promise!Next
    BY <1>2, <2>1, <2>5, FaultCalls DEF Promise!Next
  <2>6. \A f \in Files : ~EditSource(f)
    BY <1>2, <2>1 DEF EditSource
  <2>7. UNCHANGED vars => UNCHANGED Promise!vars
    BY DEF vars, wires, ghosts, Promise!vars, LastCall, LastDisturbed, Handlers
  <2> QED
    BY <2>2, <2>3, <2>4, <2>5, <2>6, <2>7 DEF Next, AtRest
<1> QED
  BY <1>1, <1>2

\* Transfer, with one connection at work at a time, implements Delivery: step by
\* step, what Send, handleConn and the faults do is a delivery, a disturbance, the
\* success or the failure of the call, or nothing that its caller can see.
THEOREM DeliveryIsKept ==
    ASSUME MaxLive = 1
    PROVE  Spec => KeepsDelivery
<1>1. Init => CallerInv
  <2> SUFFICES ASSUME Init PROVE CallInv
    BY InitContents, InitLastAtWork DEF CallerInv
  <2> QED
    BY DEF Init, CallInv
<1>2. CallerInv /\ [Next]_vars => CallerInv'
  BY NextContents, NextLastAtWork, NextCall DEF CallerInv, ContentsInv
<1>3. Init => Promise!Init
  BY DEF Init, Promise!Init, LastCall, LastDisturbed
<1>4. CallerInv /\ CallerInv' /\ [Next]_vars => [Promise!Next]_(Promise!vars)
  BY NextKeepsDelivery DEF CallerInv
<1> QED
  BY <1>1, <1>2, <1>3, <1>4, PTL DEF Spec, KeepsDelivery, Promise!Spec

-----------------------------------------------------------------------------
(* Connections that overlap.  No source is rewritten, though one may be     *)
(* removed; then any number of handlers may have the same file open, each of *)
(* them cutting it and writing into it.  x are the sources as they were at    *)
(* the start.                                                               *)

\* Two files have the same first n bytes.
Alike(u, v, n) == \A i \in 1..n : u[i] = v[i]

\* A destination d that became e lost nothing that it shared with x, and is no longer
\* than x if it was not before.
Fills(x, d, e) ==
    /\ e \in File /\ Len(d) <= Len(e) /\ (Len(d) <= Len(x) => Len(e) <= Len(x))
    /\ \A n \in 0..Len(d) : Alike(d, x, n) => Alike(e, x, n)

\* A part of x written where it belongs, by whichever handler.
LEMMA WritingFills ==
    ASSUME NEW x \in File, NEW d \in File, NEW n \in Nat, NEW data \in File,
           n + Len(data) <= Len(x), data = SubSeq(x, n + 1, n + Len(data))
    PROVE  LET e == WriteAt(d, n, data)
           IN  /\ Fills(x, d, e) /\ n + Len(data) <= Len(e)
               /\ n <= Len(d) /\ Alike(d, x, n) => Alike(e, x, n + Len(data))
<1> DEFINE e == WriteAt(d, n, data)
           m == n + Len(data)
<1>1. Len(x) \in Nat /\ Len(d) \in Nat /\ Len(data) \in Nat /\ m \in Nat
  BY IsAFile
<1>2. e \in File /\ Len(e) = IF Len(d) >= m THEN Len(d) ELSE m
  <2>1. e \in File
    BY WriteAtType
  <2>2. Len(e) = IF Len(d) >= m THEN Len(d) ELSE m
    BY <1>1 DEF WriteAt
  <2> QED
    BY <2>1, <2>2
<1>3. \A i \in 1..Len(e) :
        e[i] = IF i \in (n + 1)..m THEN data[i - n] ELSE IF i <= Len(d) THEN d[i] ELSE Zero
  BY <1>1, <1>2 DEF WriteAt
<1>4. ASSUME NEW i \in (n + 1)..m PROVE data[i - n] = x[i]
  <2>1. Len(data) \in Nat \ {0} /\ i - n \in 1..Len(data) /\ n + (i - n) = i
    BY <1>1
  <2>2. data[i - n] = x[n + (i - n)]
    BY <2>1, PartOf
  <2> QED
    BY <2>1, <2>2
<1> HIDE DEF e
<1>5. ASSUME NEW i \in 1..Len(e), i \in (n + 1)..m \/ (i <= Len(d) /\ d[i] = x[i])
      PROVE  e[i] = x[i]
  BY <1>3, <1>4, <1>5
<1>6. ASSUME NEW k \in 0..Len(d), Alike(d, x, k) PROVE Alike(e, x, k)
  <2>1. \A i \in 1..k : i \in 1..Len(e) /\ i <= Len(d) /\ d[i] = x[i]
    BY <1>1, <1>2, <1>6 DEF Alike
  <2> QED
    BY <1>5, <2>1 DEF Alike
<1>7. ASSUME n <= Len(d), Alike(d, x, n) PROVE Alike(e, x, m)
  <2>1. \A i \in 1..m : i \in 1..Len(e) /\ (i \in (n + 1)..m \/ (i <= Len(d) /\ d[i] = x[i]))
    BY <1>1, <1>2, <1>7 DEF Alike
  <2> QED
    BY <1>5, <2>1 DEF Alike
<1>8. Len(d) <= Len(e) /\ (Len(d) <= Len(x) => Len(e) <= Len(x)) /\ m <= Len(e)
  BY <1>1, <1>2
<1> QED
  BY <1>2, <1>6, <1>7, <1>8 DEF Fills, e

\* Nothing changes what is complete.
LEMMA FillsTheSame ==
    ASSUME NEW x \in File, NEW e, Fills(x, x, e)
    PROVE  e = x
<1>1. Len(x) \in Nat /\ Len(x) \in 0..Len(x) /\ Len(e) \in Nat /\ e \in File
  BY IsAFile DEF Fills
<1>2. Len(e) = Len(x) /\ Alike(e, x, Len(x))
  BY <1>1 DEF Fills, Alike
<1> QED
  BY <1>1, <1>2, FileEqual DEF Alike

\* What a handler has hashed is right only if each of its parts was.
LEMMA SameBegins ==
    ASSUME NEW x, NEW u \in File, NEW v \in File, Alike(u \o v, x, Len(u) + Len(v))
    PROVE  Alike(u, x, Len(u))
<1>1. Len(u) \in Nat /\ Len(v) \in Nat
  BY IsAFile
<1>2. \A i \in 1..Len(u) : (u \o v)[i] = u[i] /\ i \in 1..(Len(u) + Len(v))
  BY <1>1, ConcatProperties DEF File
<1> QED
  BY <1>2 DEF Alike

-----------------------------------------------------------------------------
(* The inductive invariant.                                                *)

\* A handler keeps no more of a file than its source has, and has hashed all that it
\* has behind it.
Bounded(x, h) ==
    /\ h.pc \in AtFiles => \A f \in Files : h.off[f] # Skip => h.off[f] <= Len(x[f])
    /\ h.pc = "drain" => h.pos <= Len(x[h.idx]) /\ h.pos = Len(h.hash)

\* Queries describe the sources, and no answer asks for more than they have.
Agreeable(x, q, p) ==
    /\ p # <<>> /\ Head(p).kind = "ResumeAnswerBatch" =>
        \A f \in Files : Head(p).answers[f] # Skip => Head(p).answers[f] <= Len(x[f])
    /\ q # <<>> /\ Head(q).kind = "ResumeQueryBatch" =>
        \A f \in Files : Head(q).queries[f] \in {None, Asked(x[f])}

\* Files are accepted in order, each with the digest of its source.
Accepts(x, h, k) ==
    /\ h.pc \in {"none", "hello", "query"} => h.idx = 1
    /\ \A f \in Files : k[f] # None => f < h.idx /\ k[f] = x[f]

\* The two ends of a connection speak of the files x and of no others.
Speaks(x, s, h, q, p, l, k) ==
    Honest(x, s) /\ Flow(x, s, h, q, l) /\ Bounded(x, h) /\ Agreeable(x, q, p)
    /\ Accepts(x, h, k)

SpeaksAt(x, c) == Speaks(x, snd[c], rcv[c], toR[c], toS[c], link[c], taken[c])

\* The destination d holds what the handler h has behind it, unless its digest has gone
\* wrong already.
Kept(x, d, h) ==
    h.pos <= Len(d) /\ (Alike(h.hash, x, h.pos) => Alike(d, x, h.pos))

\* The destinations, as far as the last handler to cut each of them goes.
Disk(x) ==
    /\ \A f \in Files : opener[f] # None =>
          x[f] \in File /\ dest[f] \in File /\ Len(dest[f]) <= Len(x[f])
    /\ \A c \in Conns : (rcv[c].pc = "drain" /\ opener[rcv[c].idx] = c) =>
          Kept(x[rcv[c].idx], dest[rcv[c].idx], rcv[c])
    /\ \A c \in Conns, f \in Files :
          (opener[f] = c /\ taken[c][f] # None) => dest[f] = x[f]

Sources(x) ==
    /\ x \in [Files -> File \cup {None}]
    /\ \A f \in Files : src[f] \in {None, x[f]}

OverlapOf(x) ==
    TypeInv /\ Lines /\ Sources(x) /\ Disk(x) /\ \A c \in Conns : SpeaksAt(x, c)

\* What is known of a connection.
LEMMA SpokenAt ==
    ASSUME NEW x, OverlapOf(x), NEW c \in Conns
    PROVE  LET s == snd[c]
               h == rcv[c]
               q == toR[c]
               p == toS[c]
               l == link[c]
               k == taken[c]
           IN  /\ s \in SenderState /\ SenderSound(s)
               /\ h \in HandlerState /\ HandlerSound(h, dest)
               /\ q \in Seq(ToReceiver) /\ p \in Seq(ToSender)
               /\ k \in [Files -> File \cup {None}]
               /\ InStep(s, h, q, p, l) /\ Confirmed(s, h, q, p, told[c], k)
               /\ Honest(x, s) /\ Flow(x, s, h, q, l) /\ Bounded(x, h) /\ Agreeable(x, q, p)
               /\ Accepts(x, h, k)
<1>1. TypeInv /\ Lines /\ SpeaksAt(x, c)
  BY DEF OverlapOf
<1> QED
  BY <1>1, AtConn DEF SpeaksAt, Speaks, LineTypes, Line

\* Once there is a handler, every source was a file at the start.
LEMMA SpokenFiles ==
    ASSUME NEW x, OverlapOf(x), NEW c \in Conns, snd[c].pc # "idle" \/ rcv[c].pc # "none"
    PROVE  /\ \A f \in Files : x[f] \in File /\ Len(x[f]) \in Nat
           /\ snd[c].pc # "idle"
<1>1. snd[c].pc # "idle" /\ Honest(x, snd[c])
  BY SpokenAt DEF InStep, SenderSide
<1> QED
  BY <1>1, IsAFile DEF Honest, OverlapOf, Sources

\* A step of one connection that touches no destination.
LEMMA QuietOverlap ==
    ASSUME NEW x, OverlapOf(x), TypeInv', Lines', NEW c \in Conns, Elsewhere(c),
           UNCHANGED <<src, dest, opener, taken>>,
           rcv'[c].pc = "drain" => rcv'[c] = rcv[c],
           SpeaksAt(x, c)'
    PROVE  OverlapOf(x)'
<1>1. \A d \in Conns : SpeaksAt(x, d)'
  BY DEF OverlapOf, SpeaksAt, Elsewhere
<1>2. ASSUME NEW d \in Conns, rcv'[d].pc = "drain" PROVE rcv'[d] = rcv[d]
  BY <1>2 DEF Elsewhere
<1>3. Disk(x)'
  BY <1>2 DEF OverlapOf, Disk
<1>4. Sources(x)'
  BY DEF OverlapOf, Sources
<1> QED
  BY <1>1, <1>3, <1>4 DEF OverlapOf

\* A step of one connection that touches destinations, but cuts none.
LEMMA FillingOverlap ==
    ASSUME NEW x, OverlapOf(x), TypeInv', Lines', NEW c \in Conns, Elsewhere(c),
           UNCHANGED <<src, opener>>,
           \A f \in Files : dest'[f] = dest[f] \/
              (x[f] \in File /\ Fills(x[f], dest[f], dest'[f])),
           (rcv'[c].pc = "drain" /\ opener[rcv'[c].idx] = c) =>
              Kept(x[rcv'[c].idx], dest'[rcv'[c].idx], rcv'[c]),
           \A f \in Files : (opener[f] = c /\ taken'[c][f] # taken[c][f]) => dest'[f] = x[f],
           SpeaksAt(x, c)'
    PROVE  OverlapOf(x)'
<1>1. \A d \in Conns : SpeaksAt(x, d)'
  BY DEF OverlapOf, SpeaksAt, Elsewhere
<1>2. ASSUME NEW f \in Files, opener[f] # None
      PROVE  x[f] \in File /\ dest'[f] \in File /\ Len(dest'[f]) <= Len(x[f])
  BY <1>2 DEF OverlapOf, Disk, Fills
<1>3. ASSUME NEW d \in Conns, rcv'[d].pc = "drain", opener[rcv'[d].idx] = d
      PROVE  Kept(x[rcv'[d].idx], dest'[rcv'[d].idx], rcv'[d])
  <2>1. CASE d = c
    BY <1>3, <2>1
  <2>2. CASE d # c
    <3> DEFINE h == rcv[d]
               f == h.idx
    <3>1. rcv'[d] = h /\ h.pc = "drain" /\ opener[f] = d
      BY <1>3, <2>2 DEF Elsewhere
    <3>2. h.pos \in Nat /\ f \in Files /\ d # None /\ Kept(x[f], dest[f], h)
      BY <3>1, SpokenAt, ConnsAssumption DEF HandlerState, HandlerSound, OverlapOf, Disk
    <3>3. dest[f] \in File /\ dest'[f] \in File /\ Len(dest[f]) \in Nat /\ Len(dest'[f]) \in Nat
      BY <1>2, <3>1, <3>2, IsAFile DEF OverlapOf, Disk
    <3>4. h.pos \in 0..Len(dest[f])
      BY <3>2, <3>3 DEF Kept
    <3>5. CASE dest'[f] = dest[f]
      BY <3>1, <3>2, <3>5
    <3>6. CASE Fills(x[f], dest[f], dest'[f])
      BY <3>1, <3>2, <3>3, <3>4, <3>6 DEF Kept, Fills
    <3> QED
      BY <3>2, <3>5, <3>6
  <2> QED
    BY <2>1, <2>2
<1>4. ASSUME NEW d \in Conns, NEW f \in Files, opener[f] = d, taken'[d][f] # None
      PROVE  dest'[f] = x[f]
  <2>1. CASE d = c /\ taken'[d][f] # taken[d][f]
    BY <1>4, <2>1
  <2>2. CASE taken'[d][f] = taken[d][f]
    <3>1. dest[f] = x[f]
      BY <1>4, <2>2 DEF OverlapOf, Disk
    <3> QED
      BY <3>1, FillsTheSame
  <2> QED
    BY <2>1, <2>2 DEF Elsewhere
<1>5. Disk(x)'
  BY <1>2, <1>3, <1>4 DEF Disk
<1>6. Sources(x)'
  BY DEF OverlapOf, Sources
<1> QED
  BY <1>1, <1>5, <1>6 DEF OverlapOf

\* A step of one connection that cuts the file it has come to.
LEMMA CuttingOverlap ==
    ASSUME NEW x, OverlapOf(x), TypeInv', Lines', NEW c \in Conns, Elsewhere(c),
           UNCHANGED <<src, taken>>, NEW f \in Files, NEW e \in File,
           dest' = [dest EXCEPT ![f] = e], opener' = [opener EXCEPT ![f] = c],
           x[f] \in File, Len(e) <= Len(x[f]), taken[c][f] = None,
           rcv'[c].pc # "drain",
           SpeaksAt(x, c)'
    PROVE  OverlapOf(x)'
<1>1. \A d \in Conns : SpeaksAt(x, d)'
  BY DEF OverlapOf, SpeaksAt, Elsewhere
<1>2. /\ dest'[f] = e /\ \A g \in Files \ {f} : dest'[g] = dest[g]
      /\ opener'[f] = c /\ \A g \in Files \ {f} : opener'[g] = opener[g]
  BY DEF OverlapOf, TypeInv, TypeOK
<1>3. ASSUME NEW d \in Conns, rcv'[d].pc = "drain", opener'[rcv'[d].idx] = d
      PROVE  Kept(x[rcv'[d].idx], dest'[rcv'[d].idx], rcv'[d])
  <2>1. d # c /\ rcv'[d] = rcv[d]
    BY <1>3 DEF Elsewhere
  <2>2. rcv[d].idx \in Files /\ rcv[d].idx # f
    BY <1>2, <1>3, <2>1, SpokenAt DEF HandlerSound
  <2> QED
    BY <1>2, <1>3, <2>1, <2>2 DEF OverlapOf, Disk
<1>4. Disk(x)'
  BY <1>2, <1>3 DEF OverlapOf, Disk
<1>5. Sources(x)'
  BY DEF OverlapOf, Sources
<1> QED
  BY <1>1, <1>4, <1>5 DEF OverlapOf

-----------------------------------------------------------------------------
(* The steps of the sender.                                                *)

\* A frame that is no query leaves the queries on a wire as they are.
LEMMA AgreeableGrows ==
    ASSUME NEW x, NEW l, NEW q \in Seq(ToReceiver), NEW p, NEW m \in ToReceiver,
           m.kind # "ResumeQueryBatch", Agreeable(x, q, p)
    PROVE  Agreeable(x, IF l = "up" THEN Append(q, m) ELSE q, p)
<1>1. q = <<>> => Head(Append(q, m)) = m
  OBVIOUS
<1>2. q # <<>> => Head(Append(q, m)) = Head(q)
  <2>1. q # <<>> => Len(q) \in Nat \ {0}
    BY LenProperties, EmptySeq
  <2> QED
    BY <2>1, AppendProperties
<1> QED
  BY <1>1, <1>2 DEF Agreeable

LEMMA SenderSpeaks ==
    ASSUME NEW x, OverlapOf(x), TypeInv', Lines', NEW c \in Conns, Elsewhere(c),
           UNCHANGED <<src, dest, rcv, opener, taken>>,
           Honest(x, snd'[c]), Flow(x, snd'[c], rcv[c], toR'[c], link'[c]),
           Agreeable(x, toR'[c], toS'[c])
    PROVE  OverlapOf(x)'
<1>1. SpeaksAt(x, c)'
  BY SpokenAt DEF SpeaksAt, Speaks
<1> QED
  BY <1>1, QuietOverlap

\* The sender writes a frame of the loop over the files, and goes on to be at r.
LEMMA SenderWrites ==
    ASSUME NEW x, OverlapOf(x), TypeInv', Lines', NEW c \in Conns, Elsewhere(c),
           UNCHANGED <<src, dest, rcv, toS, link, opener, taken>>,
           NEW q \in Seq(ToReceiver), NEW s, Flow(x, s, rcv[c], q, link[c]),
           Agreeable(x, q, toS[c]),
           NEW m \in ToReceiver, m.kind # "ResumeQueryBatch", Continues(x, At(s), m),
           NEW r, snd'[c] = r, Honest(x, r), At(r) = MovesOn(At(s), m), At(r) \in Nat,
           toR'[c] = IF link[c] = "up" THEN Append(q, m) ELSE q
    PROVE  OverlapOf(x)'
<1>1. Flow(x, r, rcv[c], toR'[c], link[c]) /\ Agreeable(x, toR'[c], toS[c])
  BY FlowGrows, AgreeableGrows
<1> QED
  BY <1>1, SenderSpeaks

LEMMA StartFreshOverlap ==
    ASSUME NEW x, OverlapOf(x), TypeInv', Lines', NEW c \in Conns, Elsewhere(c), StartFresh(c)
    PROVE  OverlapOf(x)'
<1> DEFINE s == snd[c]
           r == [s EXCEPT !.pc = "file"]
<1>1. /\ s.pc = "hello" /\ snd' = [snd EXCEPT ![c] = r]
      /\ UNCHANGED <<src, dest, rcv, toR, link, opener, taken>>
  BY DEF StartFresh, ghosts
<1>2. r.pc = "file" /\ r.size = s.size /\ r.off = s.off /\ snd'[c] = r
  BY <1>1, SpokenAt DEF SenderState, OverlapOf, TypeInv, TypeOK
<1> HIDE DEF r
<1>3. toS'[c] = <<>>
  BY <1>2 DEF Lines, LineOf, Line, InStep, SenderSide
<1>4. Honest(x, r) /\ Agreeable(x, toR[c], <<>>)
  BY <1>1, <1>2, SpokenAt DEF Honest, Agreeable
<1>5. Flow(x, r, rcv[c], toR[c], link[c])
  <2>1. At(s) = At(r)
    BY <1>1, <1>2 DEF At
  <2> QED
    BY <2>1, SpokenAt DEF Flow
<1> QED
  BY <1>1, <1>2, <1>3, <1>4, <1>5, SenderSpeaks

LEMMA SendQueriesOverlap ==
    ASSUME NEW x, OverlapOf(x), TypeInv', Lines', NEW c \in Conns, Elsewhere(c), SendQueries(c)
    PROVE  OverlapOf(x)'
<1> DEFINE s == snd[c]
           asked == Candidates(Head(toS[c]).have)
           batch == [f \in Files |->
               IF f \in asked THEN ResumeQuery(s.size[f], src[f]) ELSE None]
           m == QueryBatch(batch)
           r == [s EXCEPT !.pc = "query"]
<1>1. /\ s.pc = "hello" /\ snd' = [snd EXCEPT ![c] = r] /\ toS[c] # <<>>
      /\ asked # {} /\ asked \subseteq Present
      /\ toR' = [toR EXCEPT ![c] = Put(c, toR, <<m>>)]
      /\ toS' = [toS EXCEPT ![c] = Tail(toS[c])]
      /\ UNCHANGED <<src, dest, rcv, link, opener, taken>>
  BY DEF SendQueries, ghosts
<1>2. r.pc = "query" /\ r.size = s.size /\ r.off = s.off /\ snd'[c] = r
  BY <1>1, SpokenAt DEF SenderState, OverlapOf, TypeInv, TypeOK
<1>3. toR[c] = <<>> /\ Single(toS[c], "HelloAck") /\ Agreed(rcv[c], Head(toS[c]))
  BY <1>1, SpokenAt DEF InStep, SenderSide
<1>4. toS'[c] = <<>>
  <2>1. toS[c] \in Seq(ToSender)
    BY SpokenAt
  <2>2. Head(toS[c]) \in ToSender
    BY <1>1, <2>1, HeadTailProperties
  <2> QED
    BY <1>1, <1>3, <2>1, <2>2, OneFrame DEF OverlapOf, TypeInv, TypeOK
<1>5. \A f \in Files : batch[f] \in {None, Asked(x[f])}
  <2>1. \A f \in Files : s.size[f] = Len(x[f])
    BY <1>1, SpokenAt DEF Honest
  <2>2. \A f \in asked : src[f] = x[f]
    BY <1>1 DEF OverlapOf, Sources, Present
  <2> QED
    BY <2>1, <2>2 DEF Asked
<1> HIDE DEF batch, r
<1>6. toR'[c] = <<>> \/ toR'[c] = <<m>>
  BY <1>1, <1>3 DEF Put, OverlapOf, TypeInv, TypeOK
<1>7. Head(<<m>>) = m /\ m.queries = batch
  BY DEF QueryBatch
<1>8. Honest(x, r)
  BY <1>1, <1>2, SpokenAt DEF Honest
<1>9. Agreeable(x, toR'[c], <<>>)
  BY <1>5, <1>6, <1>7 DEF Agreeable
<1>10. Flow(x, r, rcv[c], toR'[c], link[c])
  BY <1>1, <1>3 DEF Agreed, AtFiles, Flow
<1> QED
  BY <1>1, <1>2, <1>4, <1>8, <1>9, <1>10, SenderSpeaks

LEMMA RecvAnswersOverlap ==
    ASSUME NEW x, OverlapOf(x), TypeInv', Lines', NEW c \in Conns, Elsewhere(c), RecvAnswers(c)
    PROVE  OverlapOf(x)'
<1> DEFINE s == snd[c]
           answers == Head(toS[c]).answers
           next == NextFile(answers, 1)
           r == [s EXCEPT !.pc = "file", !.off = answers, !.idx = next]
<1>1. /\ s.pc = "query" /\ snd' = [snd EXCEPT ![c] = r]
      /\ toS[c] # <<>> /\ Head(toS[c]).kind = "ResumeAnswerBatch"
      /\ UNCHANGED <<src, dest, rcv, toR, link, opener, taken>>
  BY DEF RecvAnswers, ghosts
<1> HIDE DEF next
<1>2. r.pc = "file" /\ r.size = s.size /\ r.off = answers /\ snd'[c] = r
  BY <1>1, SpokenAt DEF SenderState, OverlapOf, TypeInv, TypeOK
<1> HIDE DEF r
<1>3. toS'[c] = <<>>
  BY <1>2 DEF Lines, LineOf, Line, InStep, SenderSide
<1>4. Honest(x, r) /\ Agreeable(x, toR[c], <<>>)
  BY <1>1, <1>2, SpokenAt DEF Honest, Agreeable
<1>5. Flow(x, r, rcv[c], toR[c], link[c])
  <2>1. At(s) = At(r)
    BY <1>1, <1>2 DEF At
  <2> QED
    BY <2>1, SpokenAt DEF Flow
<1> QED
  BY <1>1, <1>2, <1>3, <1>4, <1>5, SenderSpeaks

LEMMA SendFileStartOverlap ==
    ASSUME NEW x, OverlapOf(x), TypeInv', Lines', NEW c \in Conns, Elsewhere(c), SendFileStart(c)
    PROVE  OverlapOf(x)'
<1> DEFINE s == snd[c]
           f == s.idx
           offset == s.off[f]
           digest == Prefix(src[f], offset)
           r == [s EXCEPT !.pc = "stream", !.pos = offset, !.hash = digest]
           m == FileStart(f, offset)
<1>1. /\ s.pc = "file" /\ f \in Files /\ snd' = [snd EXCEPT ![c] = r]
      /\ src[f] # None /\ offset <= Len(src[f])
      /\ toR' = [toR EXCEPT ![c] = Put(c, toR, <<m>>)]
      /\ UNCHANGED <<src, dest, rcv, toS, link, opener, taken>>
  BY DEF SendFileStart, PrefixDigest, Resumable, Present, ghosts
<1>2. s \in SenderState /\ offset \in Nat
  <2>1. s \in SenderState /\ SenderSound(s)
    BY SpokenAt
  <2> QED
    BY <1>1, <2>1 DEF SenderState, SenderSound, Offset
<1>3. src[f] = x[f]
  BY <1>1 DEF OverlapOf, Sources
<1>4. m \in ToReceiver /\ m.kind = "FileStart" /\ m.offset = offset
  BY <1>1, <1>2 DEF FileStart, ToReceiver
<1> HIDE DEF offset, digest
<1>5. /\ r.pc = "stream" /\ r.size = s.size /\ r.off = s.off /\ r.idx = f
      /\ r.pos = offset /\ r.hash = digest /\ snd'[c] = r
  BY <1>1, <1>2 DEF SenderState, OverlapOf, TypeInv, TypeOK
<1> HIDE DEF r, m
<1>6. toR'[c] = IF link[c] = "up" THEN Append(toR[c], m) ELSE toR[c]
  BY <1>1, <1>4, ToReceiverPut DEF OverlapOf
<1>7. Honest(x, r)
  BY <1>1, <1>3, <1>5, SpokenAt DEF Honest, digest
<1>8. At(r) = MovesOn(At(s), m) /\ At(r) \in Nat /\ Continues(x, At(s), m)
  BY <1>2, <1>4, <1>5 DEF At, MovesOn, Continues
<1>9. /\ toR[c] \in Seq(ToReceiver) /\ Flow(x, s, rcv[c], toR[c], link[c])
      /\ Agreeable(x, toR[c], toS[c])
  BY SpokenAt
<1> QED
  BY <1>1, <1>4, <1>5, <1>6, <1>7, <1>8, <1>9, SenderWrites

\* What a sender that streams a file reads is the file it stat'ed.
LEMMA Streaming ==
    ASSUME NEW x, OverlapOf(x), NEW c \in Conns, snd[c].pc = "stream"
    PROVE  LET s == snd[c]
               f == s.idx
           IN  /\ s \in SenderState /\ f \in Files /\ src[f] = x[f]
               /\ x[f] \in File /\ Len(x[f]) \in Nat /\ s.pos \in Nat /\ s.pos \in 0..Len(x[f])
               /\ s.hash = Prefix(x[f], s.pos) /\ toS[c] = <<>> /\ At(s) = s.pos
<1> DEFINE s == snd[c]
           f == s.idx
<1>1. s \in SenderState /\ SenderSound(s) /\ Honest(x, s) /\ toS[c] = <<>>
  BY SpokenAt DEF InStep, SenderSide
<1>2. f \in Files /\ src[f] = x[f]
  BY <1>1 DEF SenderSound, OverlapOf, Sources
<1>3. x[f] \in File /\ Len(x[f]) \in Nat /\ s.pos \in Nat
  BY <1>1, <1>2, SpokenFiles DEF SenderState
<1>4. s.pos <= Len(x[f]) /\ s.hash = Prefix(x[f], s.pos)
  BY <1>1 DEF Honest
<1> QED
  BY <1>1, <1>2, <1>3, <1>4 DEF At

LEMMA StreamChunkOverlap ==
    ASSUME NEW x, OverlapOf(x), TypeInv', Lines', NEW c \in Conns, Elsewhere(c), StreamChunk(c)
    PROVE  OverlapOf(x)'
<1> DEFINE s == snd[c]
           f == s.idx
           data == SubSeq(src[f], s.pos + 1, s.pos + ChunkSize)
           digest == s.hash \o data
           pos == s.pos + ChunkSize
           r == [s EXCEPT !.pos = pos, !.hash = digest]
           m == Data(f, data)
<1>1. /\ s.pc = "stream" /\ Len(src[f]) - s.pos >= ChunkSize
      /\ snd' = [snd EXCEPT ![c] = r]
      /\ toR' = [toR EXCEPT ![c] = Put(c, toR, <<m>>)]
      /\ UNCHANGED <<src, dest, rcv, toS, link, opener, taken>>
  BY DEF StreamChunk, Unread, ghosts
<1>2. /\ s \in SenderState /\ f \in Files /\ src[f] = x[f] /\ x[f] \in File
      /\ Len(x[f]) \in Nat /\ s.pos \in Nat /\ s.pos \in 0..Len(x[f])
      /\ s.hash = Prefix(x[f], s.pos) /\ At(s) = s.pos
  BY <1>1, Streaming
<1>3. ChunkSize \in Nat \ {0} /\ s.pos + ChunkSize <= Len(x[f])
  BY <1>1, <1>2, ChunkSizeAssumption
<1>4. data \in File /\ Len(data) = ChunkSize
  BY <1>2, <1>3, PartOf
<1>5. data = SubSeq(x[f], s.pos + 1, s.pos + Len(data)) /\ s.pos + Len(data) <= Len(x[f])
  BY <1>2, <1>3, <1>4
<1> HIDE DEF data
<1>6. digest = Prefix(x[f], s.pos + Len(data))
  BY <1>2, <1>4, <1>5, WritingBuilds
<1>7. m \in ToReceiver /\ m.kind = "Data" /\ m.file = f /\ m.payload = data
  BY <1>2, <1>4 DEF Data, ToReceiver
<1>8. pos = s.pos + Len(data) /\ pos <= Len(x[f]) /\ pos \in Nat
  BY <1>2, <1>3, <1>4
<1> HIDE DEF digest, pos
<1>9. /\ r.pc = "stream" /\ r.size = s.size /\ r.off = s.off /\ r.idx = f
      /\ r.pos = pos /\ r.hash = digest /\ snd'[c] = r
  BY <1>1, <1>2 DEF SenderState, OverlapOf, TypeInv, TypeOK
<1> HIDE DEF r, m
<1>10. toR'[c] = IF link[c] = "up" THEN Append(toR[c], m) ELSE toR[c]
  BY <1>1, <1>7, ToReceiverPut DEF OverlapOf
<1>11. Honest(x, r)
  BY <1>1, <1>6, <1>8, <1>9, SpokenAt DEF Honest
<1>12. At(r) = MovesOn(At(s), m) /\ At(r) \in Nat /\ Continues(x, At(s), m)
  BY <1>2, <1>5, <1>7, <1>8, <1>9 DEF At, MovesOn, Continues
<1>13. /\ toR[c] \in Seq(ToReceiver) /\ Flow(x, s, rcv[c], toR[c], link[c])
       /\ Agreeable(x, toR[c], toS[c])
  BY SpokenAt
<1> QED
  BY <1>1, <1>7, <1>9, <1>10, <1>11, <1>12, <1>13, SenderWrites

LEMMA StreamEndOverlap ==
    ASSUME NEW x, OverlapOf(x), TypeInv', Lines', NEW c \in Conns, Elsewhere(c), StreamEnd(c)
    PROVE  OverlapOf(x)'
<1> DEFINE s == snd[c]
           f == s.idx
           l == link[c]
           rest == SubSeq(src[f], s.pos + 1, Len(src[f]))
           sum == s.hash \o rest
           frames == IF rest = <<>> THEN <<>> ELSE <<Data(f, rest)>>
           next == NextFile(s.off, f + 1)
           r == [s EXCEPT !.pc = "file", !.idx = next]
           q1 == IF l = "up" /\ frames # <<>> THEN Append(toR[c], Data(f, rest)) ELSE toR[c]
           m == FileDone(f, sum)
           s1 == [pc |-> "stream", pos |-> Len(x[f])]
<1>1. /\ s.pc = "stream"
      /\ snd' = [snd EXCEPT ![c] = r]
      /\ toR' = [toR EXCEPT ![c] = Put(c, toR, Append(frames, m))]
      /\ UNCHANGED <<src, dest, rcv, toS, link, opener, taken>>
  BY DEF StreamEnd
<1>2. /\ s \in SenderState /\ f \in Files /\ src[f] = x[f] /\ x[f] \in File
      /\ Len(x[f]) \in Nat /\ s.pos \in Nat /\ s.pos \in 0..Len(x[f])
      /\ s.hash = Prefix(x[f], s.pos) /\ At(s) = s.pos
  BY <1>1, Streaming
<1>3. rest \in File /\ Len(rest) = Len(x[f]) - s.pos /\ sum = x[f]
  BY <1>2, RestEnds
<1>4. rest = SubSeq(x[f], s.pos + 1, s.pos + Len(rest)) /\ s.pos + Len(rest) = Len(x[f])
  <2>1. s.pos + Len(rest) = Len(x[f])
    BY <1>2, <1>3
  <2> QED
    BY <1>2, <2>1
<1>5. frames \in {<<>>, <<Data(f, rest)>>} /\ (frames = <<>> => Len(rest) = 0)
  <2>1. Len(<<Data(f, rest)>>) = 1 /\ Len(<<>>) = 0
    OBVIOUS
  <2> HIDE DEF rest
  <2> QED
    BY <2>1
<1> HIDE DEF rest, sum, next, frames
<1>6. /\ m \in ToReceiver /\ m.kind = "FileDone" /\ m.file = f /\ m.sum = sum
      /\ Data(f, rest) \in ToReceiver /\ Data(f, rest).kind = "Data"
      /\ Data(f, rest).file = f /\ Data(f, rest).payload = rest
  BY <1>2, <1>3 DEF Data, FileDone, ToReceiver
<1> HIDE DEF m
<1>7. /\ q1 \in Seq(ToReceiver)
      /\ Put(c, toR, Append(frames, m)) = IF l = "up" THEN Append(q1, m) ELSE q1
  BY <1>5, <1>6, LastFrames DEF OverlapOf
<1>8. toR'[c] = IF l = "up" THEN Append(q1, m) ELSE q1
  BY <1>1, <1>7 DEF OverlapOf, TypeInv, TypeOK
<1>9. r.pc = "file" /\ r.size = s.size /\ r.off = s.off /\ snd'[c] = r
  BY <1>1, <1>2 DEF SenderState, OverlapOf, TypeInv, TypeOK
<1> HIDE DEF r
<1>10. Honest(x, r)
  BY <1>1, <1>9, SpokenAt DEF Honest
<1>11. At(s1) = Len(x[f]) /\ At(r) = 0
  BY <1>9 DEF At
<1> HIDE DEF s1
<1>12. Flow(x, s1, rcv[c], q1, l) /\ Agreeable(x, q1, toS[c])
  <2>1. /\ toR[c] \in Seq(ToReceiver) /\ Flow(x, s, rcv[c], toR[c], l)
        /\ Agreeable(x, toR[c], toS[c])
    BY SpokenAt
  <2>2. CASE frames = <<>>
    <3>1. At(s) = At(s1)
      BY <1>2, <1>4, <1>5, <1>11, <2>2
    <3> QED
      BY <2>1, <2>2, <3>1 DEF Flow
  <2>3. CASE frames # <<>>
    <3>1. At(s1) = MovesOn(At(s), Data(f, rest)) /\ At(s1) \in Nat
      BY <1>2, <1>4, <1>6, <1>11 DEF MovesOn
    <3>2. Continues(x, At(s), Data(f, rest))
      BY <1>2, <1>4, <1>6 DEF Continues
    <3>3. q1 = IF l = "up" THEN Append(toR[c], Data(f, rest)) ELSE toR[c]
      BY <2>3
    <3> HIDE DEF q1
    <3> QED
      BY <1>6, <2>1, <3>1, <3>2, <3>3, FlowGrows, AgreeableGrows
  <2> QED
    BY <2>2, <2>3
<1> HIDE DEF q1
<1>13. At(r) = MovesOn(At(s1), m) /\ At(r) \in Nat /\ Continues(x, At(s1), m)
  BY <1>3, <1>6, <1>11 DEF MovesOn, Continues
<1> QED
  BY <1>1, <1>6, <1>7, <1>8, <1>9, <1>10, <1>12, <1>13, SenderWrites

LEMMA SendDoneOverlap ==
    ASSUME NEW x, OverlapOf(x), TypeInv', Lines', NEW c \in Conns, Elsewhere(c), SendDone(c)
    PROVE  OverlapOf(x)'
<1> DEFINE s == snd[c]
           r == [s EXCEPT !.pc = "ack"]
<1>1. /\ s.pc = "file" /\ snd' = [snd EXCEPT ![c] = r]
      /\ toR' = [toR EXCEPT ![c] = Put(c, toR, <<Done>>)]
      /\ UNCHANGED <<src, dest, rcv, toS, link, opener, taken>>
  BY DEF SendDone, ghosts
<1>2. r.pc = "ack" /\ r.size = s.size /\ r.off = s.off /\ snd'[c] = r
  BY <1>1, SpokenAt DEF SenderState, OverlapOf, TypeInv, TypeOK
<1> HIDE DEF r
<1>3. Done \in ToReceiver /\ Done.kind = "Done"
  BY DEF Done, ToReceiver
<1>4. toR'[c] = IF link[c] = "up" THEN Append(toR[c], Done) ELSE toR[c]
  BY <1>1, <1>3, ToReceiverPut DEF OverlapOf
<1>5. Honest(x, r)
  BY <1>1, <1>2, SpokenAt DEF Honest
<1>6. At(r) = MovesOn(At(s), Done) /\ At(r) \in Nat /\ Continues(x, At(s), Done)
  BY <1>1, <1>2, <1>3 DEF At, MovesOn, Continues
<1>7. /\ toR[c] \in Seq(ToReceiver) /\ Flow(x, s, rcv[c], toR[c], link[c])
      /\ Agreeable(x, toR[c], toS[c])
  BY SpokenAt
<1> QED
  BY <1>1, <1>2, <1>3, <1>4, <1>5, <1>6, <1>7, SenderWrites

\* Send returns.
LEMMA SenderEndsOverlap ==
    ASSUME NEW x, OverlapOf(x), TypeInv', Lines', NEW c \in Conns, Elsewhere(c),
           NEW how \in {"ok", "failed"}, SenderEnds(c, how), snd[c].pc # "idle",
           UNCHANGED <<src, dest, rcv, toR, opener, taken>>
    PROVE  OverlapOf(x)'
<1> DEFINE s == snd[c]
           r == [s EXCEPT !.pc = how]
<1>1. /\ r.pc = how /\ r.size = s.size /\ r.off = s.off
      /\ snd'[c] = r /\ toS'[c] = <<>> /\ link'[c] = "down"
  BY SpokenAt DEF SenderEnds, SenderState, OverlapOf, TypeInv, TypeOK
<1> HIDE DEF r
<1>2. Honest(x, r) /\ Agreeable(x, toR[c], <<>>) /\ Flow(x, r, rcv[c], toR[c], "down")
  BY <1>1, SpokenAt DEF Honest, Agreeable, Flow
<1> QED
  BY <1>1, <1>2, SenderSpeaks

LEMMA SenderStepOverlap ==
    ASSUME NEW x, OverlapOf(x), TypeInv', Lines', NEW c \in Conns, Elsewhere(c), SenderStep(c)
    PROVE  OverlapOf(x)'
<1>1. CASE SourceFails(c) \/ CancelSeen(c) \/ RecvDoneAck(c) \/ SenderIOError(c)
  <2>1. /\ SenderEnds(c, "ok") \/ SenderEnds(c, "failed")
        /\ UNCHANGED <<src, dest, rcv, toR, opener, taken>>
        /\ snd[c].pc # "idle"
    BY <1>1 DEF SourceFails, CancelSeen, RecvDoneAck, SenderIOError, Senders, ghosts
  <2> QED
    BY <2>1, SenderEndsOverlap
<1> QED
  BY <1>1, StartFreshOverlap, SendQueriesOverlap, RecvAnswersOverlap, SendFileStartOverlap,
     StreamChunkOverlap, StreamEndOverlap, SendDoneOverlap DEF SenderStep

-----------------------------------------------------------------------------
(* The steps of the handler.                                               *)

\* A handler that is at r after its step.
LEMMA HandlerSpeaks ==
    ASSUME NEW x, OverlapOf(x), NEW c \in Conns, NEW r, rcv'[c] = r, snd' = snd,
           Flow(x, snd[c], r, toR'[c], link'[c]), Bounded(x, r), Agreeable(x, toR'[c], toS'[c]),
           Accepts(x, r, taken'[c])
    PROVE  SpeaksAt(x, c)'
BY SpokenAt DEF SpeaksAt, Speaks

\* The frame that a handler in the loop over the files reads, and what it leaves.
LEMMA FrameSpoken ==
    ASSUME NEW x, OverlapOf(x), NEW c \in Conns, rcv[c].pc \in AtFiles, toR[c] # <<>>
    PROVE  LET h == rcv[c]
               m == Head(toR[c])
               rest == Tail(toR[c])
           IN  /\ m \in ToReceiver /\ Fits(h.off, Place(h), m) /\ Continues(x, At(h), m)
               /\ Agreeable(x, rest, toS[c])
               /\ \A r : At(r) = MovesOn(At(h), m) => Flow(x, snd[c], r, rest, link[c])
<1> DEFINE h == rcv[c]
           q == toR[c]
<1>1. q \in Seq(ToReceiver) /\ q # <<>> /\ Chain(h.off, Place(h), q)
  BY SpokenAt DEF InStep, HandlerSide
<1>2. Fits(h.off, Place(h), Head(q)) /\ Chain(h.off, After(h.off, Head(q)), Tail(q))
  BY <1>1, ChainTail
<1>3. PICK end \in Nat : Runs(x, At(h), q, end) /\ (link[c] = "up" => end = At(snd[c]))
  BY SpokenAt DEF Flow
<1>4. /\ Head(q) \in ToReceiver /\ Continues(x, At(h), Head(q))
      /\ Runs(x, MovesOn(At(h), Head(q)), Tail(q), end)
  BY <1>1, <1>3, RunsTail
<1>5. Tail(q) # <<>> => Head(Tail(q)).kind # "ResumeQueryBatch"
  <2>1. Tail(q) \in Seq(ToReceiver)
    BY <1>1, HeadTailProperties
  <2>2. Tail(q) # <<>> => Head(Tail(q)) = Tail(q)[1]
    BY <2>1, HeadTailProperties
  <2> QED
    BY <1>2, <2>2 DEF Chain, Fits
<1>6. Agreeable(x, Tail(q), toS[c])
  BY <1>5, SpokenAt DEF Agreeable
<1>7. \A r : At(r) = MovesOn(At(h), Head(q)) => Flow(x, snd[c], r, Tail(q), link[c])
  BY <1>3, <1>4 DEF Flow
<1> QED
  BY <1>2, <1>4, <1>6, <1>7

LEMMA RecvHelloOverlap ==
    ASSUME NEW x, OverlapOf(x), TypeInv', Lines', NEW c \in Conns, Elsewhere(c), RecvHello(c)
    PROVE  OverlapOf(x)'
<1> DEFINE have == [f \in Files |-> IF dest[f] = None THEN 0 ELSE Len(dest[f])]
           pc == IF \E f \in Files : have[f] > 0 THEN "query" ELSE "file"
           m == HelloAck(have)
           r == [rcv[c] EXCEPT !.pc = pc]
<1>1. /\ rcv[c].pc = "hello" /\ toR[c] # <<>>
      /\ rcv' = [rcv EXCEPT ![c] = r]
      /\ toR' = [toR EXCEPT ![c] = Tail(toR[c])]
      /\ toS' = [toS EXCEPT ![c] = Put(c, toS, <<m>>)]
      /\ UNCHANGED <<src, dest, snd, link, opener, taken>>
  BY DEF RecvHello, Incoming, ghosts
<1>2. m.kind = "HelloAck" /\ pc \in {"query", "file"}
  BY DEF HelloAck
<1> HIDE DEF have, m, pc
<1>3. rcv'[c] = r /\ r.pc = pc /\ r.off = rcv[c].off /\ r.idx = rcv[c].idx
  BY <1>1 DEF HandlerState, OverlapOf, TypeInv, TypeOK
<1> HIDE DEF r
<1>4. /\ r.idx = 1 /\ r.off = FromStart /\ toS[c] = <<>>
      /\ snd[c].pc \in {"hello", "failed"} /\ toR[c] \in Seq(ToReceiver)
      /\ Single(toR[c], "Hello")
  BY <1>1, <1>3, SpokenAt DEF InStep, HandlerSide
<1>5. Tail(toR[c]) = <<>>
  <2>1. Head(toR[c]) \in ToReceiver
    BY <1>1, <1>4, HeadTailProperties
  <2> QED
    BY <1>4, <2>1, OneFrame
<1>6. toR'[c] = <<>> /\ toS'[c] \in {<<>>, <<m>>}
  BY <1>1, <1>4, <1>5 DEF Put, OverlapOf, TypeInv, TypeOK
<1>7. Agreeable(x, toR'[c], toS'[c])
  <2>1. Head(<<m>>) = m
    OBVIOUS
  <2> QED
    BY <1>2, <1>6, <2>1 DEF Agreeable
<1>8. Bounded(x, r)
  <2>1. \A f \in Files : Len(x[f]) \in Nat /\ r.off[f] = 0
    BY <1>1, <1>4, SpokenFiles DEF FromStart
  <2> QED
    BY <1>2, <1>3, <2>1 DEF Bounded
<1>9. Accepts(x, r, taken[c])
  BY <1>3, <1>4, SpokenAt DEF Accepts
<1>10. Flow(x, snd[c], r, toR'[c], link[c])
  <2>1. At(r) = 0 /\ At(snd[c]) = 0
    BY <1>2, <1>3, <1>4 DEF At
  <2> QED
    BY <1>6, <2>1, RunsEmpty DEF Flow
<1>11. SpeaksAt(x, c)'
  BY <1>1, <1>3, <1>7, <1>8, <1>9, <1>10, HandlerSpeaks
<1> QED
  BY <1>1, <1>2, <1>3, <1>11, QuietOverlap

LEMMA RecvQueriesOverlap ==
    ASSUME NEW x, OverlapOf(x), TypeInv', Lines', NEW c \in Conns, Elsewhere(c), RecvQueries(c)
    PROVE  OverlapOf(x)'
<1> DEFINE queries == Head(toR[c]).queries
           answers == [f \in Files |->
               IF queries[f] = None THEN 0
               ELSE Resolved(matchResume(dest[f], queries[f]))]
           next == NextFile(answers, 1)
           r == [rcv[c] EXCEPT !.pc = "file", !.off = answers, !.idx = next]
           m == AnswerBatch(answers)
<1>1. /\ rcv[c].pc = "query" /\ toR[c] # <<>> /\ Head(toR[c]).kind = "ResumeQueryBatch"
      /\ rcv' = [rcv EXCEPT ![c] = r]
      /\ toR' = [toR EXCEPT ![c] = Tail(toR[c])]
      /\ toS' = [toS EXCEPT ![c] = Put(c, toS, <<m>>)]
      /\ UNCHANGED <<src, dest, snd, link, opener, taken>>
  BY DEF RecvQueries, Incoming, ghosts
<1>2. \A f \in Files : x[f] \in File /\ Len(x[f]) \in Nat
  BY <1>1, SpokenFiles
<1>3. ASSUME NEW f \in Files, answers[f] # Skip PROVE answers[f] <= Len(x[f])
  <2>1. queries[f] \in {None, Asked(x[f])} /\ dest[f] \in File \cup {None}
    BY <1>1, SpokenAt DEF Agreeable, OverlapOf, TypeInv, TypeOK
  <2>2. CASE queries[f] = None
    BY <1>2, <2>2
  <2>3. CASE queries[f] = Asked(x[f]) /\ Held(dest[f]) # 0
    <3>1. queries[f] # None
      BY <1>2, <2>3, AskedFields, NoQueryAssumption
    <3>2. answers[f] = Decision(x[f], dest[f])
      BY <2>3, <3>1 DEF Decision
    <3> QED
      BY <1>2, <1>3, <2>1, <3>2, DecisionSound
  <2>4. CASE queries[f] = Asked(x[f]) /\ Held(dest[f]) = 0
    <3>1. Asked(x[f]) \in Query /\ Asked(x[f]) # None
      BY <1>2, AskedFields, NoQueryAssumption
    <3>2. answers[f] = Resolved(matchResume(dest[f], Asked(x[f])))
      BY <2>4, <3>1
    <3>3. answers[f] = matchResume(dest[f], Asked(x[f])).offset
      BY <1>3, <3>2 DEF Resolved
    <3>4. matchResume(dest[f], Asked(x[f])).offset \in Nat
          /\ (dest[f] # None => matchResume(dest[f], Asked(x[f])).offset <= Len(dest[f]))
      BY <2>1, <3>1, matchResumeType
    <3>5. dest[f] = None => matchResume(dest[f], Asked(x[f])).offset = 0
      BY DEF matchResume
    <3>6. dest[f] # None => Len(dest[f]) = 0
      BY <2>4 DEF Held
    <3>7. answers[f] = 0
      BY <3>3, <3>4, <3>5, <3>6
    <3> QED
      BY <1>2, <3>7
  <2> QED
    BY <2>1, <2>2, <2>3, <2>4
<1>4. m.answers = answers /\ m.kind = "ResumeAnswerBatch"
  BY DEF AnswerBatch
<1> HIDE DEF answers, m
<1>5. answers \in [Files -> Offset]
  <2>1. rcv'[c] \in HandlerState => answers \in [Files -> Offset]
    BY <1>1 DEF HandlerState, OverlapOf, TypeInv, TypeOK
  <2> QED
    BY <2>1 DEF TypeInv, TypeOK
<1>6. next \in 1..(NFiles + 1)
  <2>1. 1 \in 1..(NFiles + 1)
    BY CountsAssumption
  <2> QED
    BY <1>5, <2>1, NextFileType
<1> HIDE DEF next
<1>7. rcv'[c] = r /\ r.pc = "file" /\ r.off = answers /\ r.idx = next
  BY <1>1 DEF HandlerState, OverlapOf, TypeInv, TypeOK
<1> HIDE DEF r
<1>8. /\ toS[c] = <<>> /\ snd[c].pc \in {"query", "failed"} /\ toR[c] \in Seq(ToReceiver)
      /\ Single(toR[c], "ResumeQueryBatch")
  BY <1>1, SpokenAt DEF InStep, HandlerSide
<1>9. Tail(toR[c]) = <<>>
  <2>1. Head(toR[c]) \in ToReceiver
    BY <1>1, <1>8, HeadTailProperties
  <2> QED
    BY <1>8, <2>1, OneFrame
<1>10. toR'[c] = <<>> /\ toS'[c] \in {<<>>, <<m>>}
  BY <1>1, <1>8, <1>9 DEF Put, OverlapOf, TypeInv, TypeOK
<1>11. Agreeable(x, toR'[c], toS'[c])
  <2>1. Head(<<m>>) = m
    OBVIOUS
  <2> QED
    BY <1>3, <1>4, <1>10, <2>1 DEF Agreeable
<1>12. Bounded(x, r)
  BY <1>3, <1>7 DEF Bounded
<1>13. Accepts(x, r, taken[c])
  <2>1. ASSUME NEW f \in Files PROVE ~(f < rcv[c].idx)
    BY <1>1, SpokenAt, CountsAssumption DEF Accepts, Files
  <2>2. \A f \in Files : taken[c][f] = None
    BY <2>1, SpokenAt DEF Accepts
  <2> QED
    BY <1>7, <2>2 DEF Accepts
<1>14. Flow(x, snd[c], r, toR'[c], link[c])
  <2>1. At(r) = 0 /\ At(snd[c]) = 0
    BY <1>7, <1>8 DEF At
  <2> QED
    BY <1>10, <2>1, RunsEmpty DEF Flow
<1>15. SpeaksAt(x, c)'
  BY <1>1, <1>7, <1>11, <1>12, <1>13, <1>14, HandlerSpeaks
<1> QED
  BY <1>1, <1>7, <1>15, QuietOverlap

LEMMA RecvFileStartOverlap ==
    ASSUME NEW x, OverlapOf(x), TypeInv', Lines', NEW c \in Conns, Elsewhere(c), RecvFileStart(c)
    PROVE  OverlapOf(x)'
<1> DEFINE h == rcv[c]
           f == h.idx
           cut == Truncate(dest[f], h.off[f])
           m == Head(toR[c])
           r == [h EXCEPT !.pc = "open"]
<1>1. /\ h.pc = "file" /\ f \in Files /\ toR[c] # <<>> /\ m.kind = "FileStart"
      /\ dest' = [dest EXCEPT ![f] = cut] /\ opener' = [opener EXCEPT ![f] = c]
      /\ rcv' = [rcv EXCEPT ![c] = r]
      /\ toR' = [toR EXCEPT ![c] = Tail(toR[c])]
      /\ UNCHANGED <<src, snd, toS, link, taken>>
  BY DEF RecvFileStart, Reopened, Incoming
<1>2. rcv'[c] = r /\ r.pc = "open" /\ r.idx = f /\ r.off = h.off
  BY <1>1 DEF HandlerState, OverlapOf, TypeInv, TypeOK
<1> HIDE DEF r
<1>3. /\ x[f] \in File /\ Len(x[f]) \in Nat
      /\ h.off[f] \in Nat /\ h.off[f] # Skip /\ h.off[f] <= Len(x[f])
      /\ dest[f] \in File \cup {None}
  <2>1. HandlerSound(h, dest) /\ Bounded(x, h)
    BY SpokenAt
  <2>2. x[f] \in File /\ Len(x[f]) \in Nat
    BY <1>1, SpokenFiles
  <2>3. h.off[f] \in Nat /\ dest[f] \in File \cup {None}
    BY <1>1, HandlerAtFile DEF OverlapOf
  <2> QED
    BY <1>1, <2>1, <2>2, <2>3 DEF HandlerSound, Bounded, AtFiles
<1>4. cut \in File /\ Len(cut) <= Len(x[f])
  BY <1>3, TruncateType
<1> HIDE DEF cut
<1>5. m.offset = h.off[f] /\ toR'[c] = Tail(toR[c])
  <2>1. Fits(h.off, Place(h), m)
    BY <1>1, FrameSpoken DEF AtFiles
  <2> QED
    BY <1>1, <2>1 DEF Fits, Place, Between, OverlapOf, TypeInv, TypeOK
<1>6. At(r) = MovesOn(At(h), m)
  BY <1>1, <1>2, <1>5 DEF At, MovesOn
<1>7. taken[c][f] = None
  <2>1. ~(f < f)
    BY <1>1 DEF Files
  <2> QED
    BY <1>1, <2>1, SpokenAt DEF Accepts
<1>8. Flow(x, snd[c], r, toR'[c], link[c]) /\ Agreeable(x, toR'[c], toS[c])
  BY <1>1, <1>5, <1>6, FrameSpoken DEF AtFiles
<1>9. Bounded(x, r) /\ Accepts(x, r, taken[c])
  BY <1>1, <1>2, SpokenAt DEF Bounded, Accepts, AtFiles
<1>10. SpeaksAt(x, c)'
  BY <1>1, <1>2, <1>8, <1>9, HandlerSpeaks
<1> QED
  BY <1>1, <1>2, <1>3, <1>4, <1>7, <1>10, CuttingOverlap

LEMMA HashPrefixOverlap ==
    ASSUME NEW x, OverlapOf(x), TypeInv', Lines', NEW c \in Conns, Elsewhere(c), HashPrefix(c)
    PROVE  OverlapOf(x)'
<1> DEFINE h == rcv[c]
           f == h.idx
           offset == h.off[f]
           digest == Prefix(dest[f], offset)
           r == [h EXCEPT !.pc = "drain", !.pos = offset, !.hash = digest]
<1>1. /\ h.pc = "open" /\ offset <= Len(dest[f])
      /\ rcv' = [rcv EXCEPT ![c] = r]
      /\ UNCHANGED <<src, dest, snd, toR, toS, link, opener, taken>>
  BY DEF HashPrefix, wires, ghosts
<1>2. f \in Files /\ Bounded(x, h) /\ HandlerSound(h, dest)
  BY <1>1, SpokenAt DEF HandlerSound
<1>3. /\ offset \in Nat /\ dest[f] \in File /\ Len(dest[f]) \in Nat /\ offset \in 0..Len(dest[f])
      /\ offset <= Len(x[f])
  <2>1. offset \in Nat /\ dest[f] \in File
    BY <1>1, <1>2, HandlerAtFile DEF OverlapOf
  <2>2. offset <= Len(x[f])
    BY <1>1, <1>2 DEF Bounded, HandlerSound, AtFiles
  <2> QED
    BY <1>1, <2>1, <2>2, IsAFile
<1>4. Len(digest) = offset /\ \A i \in 1..offset : digest[i] = dest[f][i]
  BY <1>3, PrefixType
<1> HIDE DEF digest, offset
<1>5. /\ rcv'[c] = r /\ r.pc = "drain" /\ r.idx = f /\ r.off = h.off
      /\ r.pos = offset /\ r.hash = digest
  BY <1>1 DEF HandlerState, OverlapOf, TypeInv, TypeOK
<1> HIDE DEF r
<1>6. At(r) = At(h)
  BY <1>1, <1>5 DEF At, offset
<1>7. Flow(x, snd[c], r, toR[c], link[c])
  BY <1>1, <1>6, SpokenAt DEF Flow, AtFiles
<1>8. Bounded(x, r)
  BY <1>1, <1>2, <1>3, <1>4, <1>5 DEF Bounded, AtFiles
<1>9. Accepts(x, r, taken[c])
  BY <1>5, SpokenAt DEF Accepts
<1>10. SpeaksAt(x, c)'
  BY <1>1, <1>5, <1>7, <1>8, <1>9, SpokenAt, HandlerSpeaks
<1>11. Kept(x[f], dest[f], r)
  BY <1>3, <1>4, <1>5 DEF Kept, Alike
<1> QED
  BY <1>1, <1>5, <1>10, <1>11, FillingOverlap

\* What the handler that drains a file stands at, and the frame it reads there.
LEMMA Draining ==
    ASSUME NEW x, OverlapOf(x), NEW c \in Conns, rcv[c].pc = "drain", toR[c] # <<>>
    PROVE  LET h == rcv[c]
               f == h.idx
               m == Head(toR[c])
           IN  /\ f \in Files /\ f \in Nat /\ x[f] \in File /\ Len(x[f]) \in Nat
               /\ h.pos \in Nat /\ h.hash \in File /\ h.pos = Len(h.hash)
               /\ dest[f] \in File /\ Len(dest[f]) \in Nat /\ At(h) = h.pos
               /\ m.kind \in {"Data", "FileDone"}
               /\ m.kind = "Data" =>
                     /\ m.payload \in File /\ Len(m.payload) \in Nat
                     /\ h.pos + Len(m.payload) <= Len(x[f])
                     /\ m.payload = SubSeq(x[f], h.pos + 1, h.pos + Len(m.payload))
               /\ m.kind = "FileDone" => h.pos = Len(x[f]) /\ m.sum = x[f]
<1> DEFINE h == rcv[c]
           f == h.idx
           m == Head(toR[c])
<1>1. /\ h \in HandlerState /\ HandlerSound(h, dest) /\ Bounded(x, h)
      /\ m \in ToReceiver /\ Fits(h.off, Place(h), m) /\ Continues(x, At(h), m)
  BY SpokenAt, FrameSpoken DEF AtFiles
<1>2. f \in Files /\ x[f] \in File /\ Len(x[f]) \in Nat
  BY <1>1, SpokenFiles DEF HandlerSound
<1>3. dest[f] \in File /\ Len(dest[f]) \in Nat
  BY <1>1, <1>2, HandlerAtFile, IsAFile DEF OverlapOf
<1>4. h.pos \in Nat /\ h.hash \in File /\ f \in Nat /\ h.pos = Len(h.hash) /\ At(h) = h.pos
  BY <1>1, <1>2, CountsAssumption DEF HandlerState, Bounded, Files, At
<1>5. m.kind \in {"Data", "FileDone"} /\ m.file = f
  BY <1>1 DEF Fits, Place, Within, Between
<1>6. m.kind = "Data" => m.payload \in File /\ Len(m.payload) \in Nat
  BY <1>1, FrameFields, IsAFile
<1> QED
  BY <1>1, <1>2, <1>3, <1>4, <1>5, <1>6 DEF Continues

LEMMA RecvDataOverlap ==
    ASSUME NEW x, OverlapOf(x), TypeInv', Lines', NEW c \in Conns, Elsewhere(c), RecvData(c)
    PROVE  OverlapOf(x)'
<1> DEFINE h == rcv[c]
           f == h.idx
           m == Head(toR[c])
           payload == m.payload
           new == WriteAt(dest[f], h.pos, payload)
           digest == h.hash \o payload
           pos == h.pos + Len(payload)
           r == [h EXCEPT !.pos = pos, !.hash = digest]
<1>1. /\ h.pc = "drain" /\ toR[c] # <<>> /\ m.kind = "Data"
      /\ dest' = [dest EXCEPT ![f] = new]
      /\ rcv' = [rcv EXCEPT ![c] = r]
      /\ toR' = [toR EXCEPT ![c] = Tail(toR[c])]
      /\ UNCHANGED <<src, snd, toS, link, opener, taken>>
  BY DEF RecvData, Incoming, ghosts
<1>2. /\ f \in Files /\ x[f] \in File /\ Len(x[f]) \in Nat
      /\ h.pos \in Nat /\ h.hash \in File /\ h.pos = Len(h.hash)
      /\ dest[f] \in File /\ Len(dest[f]) \in Nat /\ At(h) = h.pos
      /\ payload \in File /\ Len(payload) \in Nat /\ h.pos + Len(payload) <= Len(x[f])
      /\ payload = SubSeq(x[f], h.pos + 1, h.pos + Len(payload))
  BY <1>1, Draining
<1> HIDE DEF payload
<1>3. /\ Fills(x[f], dest[f], new) /\ pos <= Len(new)
      /\ h.pos <= Len(dest[f]) /\ Alike(dest[f], x[f], h.pos) => Alike(new, x[f], pos)
  BY <1>2, WritingFills
<1>4. Len(digest) = pos /\ (Alike(digest, x[f], pos) => Alike(h.hash, x[f], h.pos))
  <2>1. Len(digest) = pos
    BY <1>2, ConcatProperties DEF File
  <2>2. Alike(digest, x[f], pos) => Alike(h.hash, x[f], h.pos)
    BY <1>2, SameBegins
  <2> QED
    BY <2>1, <2>2
<1>5. pos <= Len(x[f]) /\ At(h) + Len(payload) = pos
  BY <1>2
<1> HIDE DEF new, digest, pos
<1>6. /\ rcv'[c] = r /\ r.pc = "drain" /\ r.idx = f /\ r.off = h.off
      /\ r.pos = pos /\ r.hash = digest
  BY <1>1 DEF HandlerState, OverlapOf, TypeInv, TypeOK
<1> HIDE DEF r
<1>7. /\ dest'[f] = new /\ \A g \in Files : g # f => dest'[g] = dest[g]
      /\ toR'[c] = Tail(toR[c])
  BY <1>1, <1>2 DEF OverlapOf, TypeInv, TypeOK
<1>8. At(r) = MovesOn(At(h), m)
  BY <1>1, <1>5, <1>6 DEF At, MovesOn, payload
<1>9. Flow(x, snd[c], r, toR'[c], link[c]) /\ Agreeable(x, toR'[c], toS[c])
  BY <1>1, <1>7, <1>8, FrameSpoken DEF AtFiles
<1>10. Bounded(x, r) /\ Accepts(x, r, taken[c])
  BY <1>1, <1>4, <1>5, <1>6, SpokenAt DEF Bounded, Accepts, AtFiles
<1>11. SpeaksAt(x, c)'
  BY <1>1, <1>6, <1>9, <1>10, HandlerSpeaks
<1>12. ASSUME opener[f] = c PROVE Kept(x[f], new, r)
  <2>1. Kept(x[f], dest[f], h)
    BY <1>1, <1>12 DEF OverlapOf, Disk
  <2> QED
    BY <1>3, <1>4, <1>6, <2>1 DEF Kept
<1> QED
  BY <1>1, <1>2, <1>3, <1>6, <1>7, <1>11, <1>12, FillingOverlap

\* A digest that is found equal is the digest of what is on disk, unless another handler
\* has cut the file since.
LEMMA RecvFileDoneOverlap ==
    ASSUME NEW x, OverlapOf(x), TypeInv', Lines', NEW c \in Conns, Elsewhere(c), RecvFileDone(c)
    PROVE  OverlapOf(x)'
<1> DEFINE h == rcv[c]
           f == h.idx
           m == Head(toR[c])
           sum == m.sum
           next == NextFile(h.off, f + 1)
           r == [h EXCEPT !.pc = "file", !.idx = next]
<1>1. /\ h.pc = "drain" /\ toR[c] # <<>> /\ m.kind = "FileDone" /\ h.hash = sum
      /\ rcv' = [rcv EXCEPT ![c] = r]
      /\ taken' = [taken EXCEPT ![c][f] = sum]
      /\ toR' = [toR EXCEPT ![c] = Tail(toR[c])]
      /\ UNCHANGED <<src, dest, snd, toS, link, opener>>
  BY DEF RecvFileDone, Incoming, ChecksumOK
<1>2. /\ f \in Files /\ f \in Nat /\ x[f] \in File /\ Len(x[f]) \in Nat
      /\ dest[f] \in File /\ Len(dest[f]) \in Nat
      /\ h.pos = Len(x[f]) /\ sum = x[f]
  BY <1>1, Draining
<1>3. opener[f] = c => dest[f] = x[f]
  <2> SUFFICES ASSUME opener[f] = c PROVE dest[f] = x[f]
    OBVIOUS
  <2>1. Kept(x[f], dest[f], h) /\ Len(dest[f]) <= Len(x[f])
    BY <1>1, <1>2, ConnsAssumption DEF OverlapOf, Disk
  <2>2. Len(dest[f]) = Len(x[f]) /\ Alike(dest[f], x[f], Len(x[f]))
    BY <1>1, <1>2, <2>1 DEF Kept, Alike
  <2> QED
    BY <1>2, <2>2, FileEqual DEF Alike
<1>4. next \in (f + 1)..(NFiles + 1)
  <2>1. h.off \in [Files -> Offset]
    BY SpokenAt DEF HandlerState
  <2>2. f + 1 \in 1..(NFiles + 1)
    BY <1>2, CountsAssumption DEF Files
  <2> QED
    BY <2>1, <2>2, NextFileType
<1> HIDE DEF next, sum
<1>5. rcv'[c] = r /\ r.pc = "file" /\ r.idx = next /\ r.off = h.off
  BY <1>1 DEF HandlerState, OverlapOf, TypeInv, TypeOK
<1> HIDE DEF r
<1>6. /\ toR'[c] = Tail(toR[c])
      /\ taken'[c][f] = sum /\ \A g \in Files : g # f => taken'[c][g] = taken[c][g]
  BY <1>1, <1>2 DEF OverlapOf, TypeInv, TypeOK
<1>7. At(r) = MovesOn(At(h), m)
  BY <1>1, <1>5 DEF At, MovesOn
<1>8. Flow(x, snd[c], r, toR'[c], link[c]) /\ Agreeable(x, toR'[c], toS[c])
  BY <1>1, <1>6, <1>7, FrameSpoken DEF AtFiles
<1>9. Bounded(x, r)
  BY <1>1, <1>5, SpokenAt DEF Bounded, AtFiles
<1>10. Accepts(x, r, taken'[c])
  <2>1. ASSUME NEW g \in Files, taken'[c][g] # None PROVE g < next /\ taken'[c][g] = x[g]
    <3>1. g \in Nat /\ next \in Nat /\ f < next
      <4> HIDE DEF f
      <4> QED
        BY <1>2, <1>4, CountsAssumption DEF Files
    <3>2. CASE g = f
      BY <1>2, <1>6, <3>1, <3>2
    <3>3. CASE g # f
      <4>1. g < f /\ taken[c][g] = x[g] /\ taken'[c][g] = taken[c][g]
        BY <1>6, <2>1, <3>3, SpokenAt DEF Accepts
      <4> HIDE DEF f
      <4> QED
        BY <1>2, <3>1, <4>1
    <3> QED
      BY <3>2, <3>3
  <2> QED
    BY <1>5, <2>1 DEF Accepts
<1>11. SpeaksAt(x, c)'
  BY <1>1, <1>5, <1>8, <1>9, <1>10, HandlerSpeaks
<1>12. \A g \in Files : (opener[g] = c /\ taken'[c][g] # taken[c][g]) => dest[g] = x[g]
  BY <1>3, <1>6
<1> QED
  BY <1>1, <1>5, <1>11, <1>12, FillingOverlap

\* handleConn returns.
LEMMA HandlerEnding ==
    ASSUME NEW x, OverlapOf(x), NEW c \in Conns, NEW how \in {"acked", "failed"},
           HandlerEnds(c, how), rcv[c].pc # "none", UNCHANGED <<snd, taken>>,
           Agreeable(x, <<>>, toS'[c]),
           how = "failed" \/ rcv[c].pc = "file"
    PROVE  SpeaksAt(x, c)' /\ rcv'[c].pc # "drain"
<1> DEFINE h == rcv[c]
           r == [h EXCEPT !.pc = how]
<1>1. /\ rcv'[c] = r /\ r.pc = how /\ r.idx = h.idx /\ r.off = h.off
      /\ toR'[c] = <<>> /\ link'[c] = "down"
  BY SpokenAt DEF HandlerEnds, HandlerState, OverlapOf, TypeInv, TypeOK
<1> HIDE DEF r
<1>2. Bounded(x, r) /\ Flow(x, snd[c], r, <<>>, "down")
  BY <1>1 DEF Bounded, Flow, AtFiles
<1>3. Accepts(x, r, taken[c])
  BY <1>1, SpokenAt DEF Accepts
<1> QED
  BY <1>1, <1>2, <1>3, HandlerSpeaks

\* The handler gives up.
LEMMA HandlerFails ==
    ASSUME NEW x, OverlapOf(x), NEW c \in Conns, HandlerEnds(c, "failed"),
           rcv[c].pc # "none", UNCHANGED <<snd, toS, taken>>
    PROVE  SpeaksAt(x, c)' /\ rcv'[c].pc # "drain"
<1>1. Agreeable(x, <<>>, toS'[c])
  BY SpokenAt DEF Agreeable
<1> QED
  BY <1>1, HandlerEnding

LEMMA RecvDoneOverlap ==
    ASSUME NEW x, OverlapOf(x), TypeInv', Lines', NEW c \in Conns, Elsewhere(c), RecvDone(c)
    PROVE  OverlapOf(x)'
<1>1. /\ rcv[c].pc = "file"
      /\ toS' = [toS EXCEPT ![c] = Put(c, toS, <<DoneAck>>)]
      /\ HandlerEnds(c, "acked")
      /\ UNCHANGED <<src, dest, snd, opener, taken>>
  BY DEF RecvDone, ghosts
<1>2. DoneAck \in ToSender /\ DoneAck.kind = "DoneAck"
  BY DEF DoneAck, ToSender
<1>3. toS[c] \in Seq(ToSender) /\ Agreeable(x, toR[c], toS[c])
  BY SpokenAt
<1>4. toS'[c] = IF link[c] = "up" THEN Append(toS[c], DoneAck) ELSE toS[c]
  BY <1>1, <1>2, ToSenderPut DEF OverlapOf
<1>5. /\ Append(toS[c], DoneAck) # <<>>
      /\ Head(Append(toS[c], DoneAck)) = IF toS[c] = <<>> THEN DoneAck ELSE Head(toS[c])
  BY <1>2, <1>3, HeadTailProperties, AppendProperties
<1>6. Agreeable(x, <<>>, toS'[c])
  BY <1>2, <1>3, <1>4, <1>5 DEF Agreeable
<1> QED
  BY <1>1, <1>6, HandlerEnding, QuietOverlap

LEMMA HandlerStepOverlap ==
    ASSUME NEW x, OverlapOf(x), TypeInv', Lines', NEW c \in Conns, Elsewhere(c), HandlerStep(c)
    PROVE  OverlapOf(x)'
<1>1. CASE PrefixGone(c) \/ ChecksumMismatch(c) \/ HandlerEOF(c)
  <2>1. /\ HandlerEnds(c, "failed") /\ rcv[c].pc # "none"
        /\ UNCHANGED <<src, dest, snd, toS, opener, taken>>
    BY <1>1 DEF PrefixGone, ChecksumMismatch, HandlerEOF, Handlers, ghosts
  <2> QED
    BY <2>1, HandlerFails, QuietOverlap
<1> QED
  BY <1>1, RecvHelloOverlap, RecvQueriesOverlap, RecvFileStartOverlap, HashPrefixOverlap,
     RecvDataOverlap, RecvFileDoneOverlap, RecvDoneOverlap DEF HandlerStep

-----------------------------------------------------------------------------
(* The environment.                                                        *)

LEMMA HandlerDiesOverlap ==
    ASSUME NEW x, OverlapOf(x), TypeInv', Lines', NEW c \in Conns, Elsewhere(c), HandlerDies(c)
    PROVE  OverlapOf(x)'
<1> DEFINE h == rcv[c]
           f == h.idx
           data == Head(toR[c]).payload
<1>1. /\ HandlerEnds(c, "failed") /\ h.pc # "none"
      /\ UNCHANGED <<src, snd, toS, opener, taken>>
  BY DEF HandlerDies, Handlers, ghosts
<1>2. SpeaksAt(x, c)' /\ rcv'[c].pc # "drain"
  BY <1>1, HandlerFails
<1>3. CASE dest' = dest
  BY <1>1, <1>2, <1>3, QuietOverlap
<1>4. CASE /\ h.pc = "drain" /\ Incoming(c, "Data")
           /\ \E n \in 1..Len(data) :
                 dest' = [dest EXCEPT ![f] = WriteAt(@, h.pos, Prefix(data, n))]
  <2>1. h.pc = "drain" /\ toR[c] # <<>> /\ Head(toR[c]).kind = "Data"
    BY <1>4 DEF Incoming
  <2>2. PICK n \in 1..Len(data) :
          dest' = [dest EXCEPT ![f] = WriteAt(dest[f], h.pos, Prefix(data, n))]
    BY <1>4
  <2>3. /\ f \in Files /\ x[f] \in File /\ Len(x[f]) \in Nat
        /\ h.pos \in Nat /\ dest[f] \in File
        /\ data \in File /\ Len(data) \in Nat /\ h.pos + Len(data) <= Len(x[f])
        /\ data = SubSeq(x[f], h.pos + 1, h.pos + Len(data))
    BY <2>1, Draining
  <2> HIDE DEF data
  <2> DEFINE torn == Prefix(data, n)
             new == WriteAt(dest[f], h.pos, torn)
  <2>4. h.pos \in 0..Len(x[f])
    BY <2>3
  <2>5. torn \in File /\ Len(torn) = n /\ torn = SubSeq(x[f], h.pos + 1, h.pos + Len(torn))
    <3>1. torn \in File /\ Len(torn) = n /\ torn = SubSeq(x[f], h.pos + 1, h.pos + n)
      BY <2>3, <2>4, TornContinues
    <3> HIDE DEF torn
    <3> QED
      BY <3>1
  <2>6. h.pos + Len(torn) <= Len(x[f])
    <3> HIDE DEF torn
    <3> QED
      BY <2>3, <2>5
  <2>7. Fills(x[f], dest[f], new)
    <3> HIDE DEF torn
    <3> QED
      BY <2>3, <2>5, <2>6, WritingFills
  <2>8. dest' = [dest EXCEPT ![f] = new]
    BY <2>2
  <2> HIDE DEF new
  <2>9. dest'[f] = new /\ \A g \in Files : g # f => dest'[g] = dest[g]
    BY <2>3, <2>8 DEF OverlapOf, TypeInv, TypeOK
  <2> QED
    BY <1>1, <1>2, <2>3, <2>7, <2>9, FillingOverlap
<1> QED
  BY <1>3, <1>4 DEF HandlerDies

LEMMA LinkFailsOverlap ==
    ASSUME NEW x, OverlapOf(x), TypeInv', Lines', NEW c \in Conns, Elsewhere(c), LinkFails(c)
    PROVE  OverlapOf(x)'
<1>1. PICK m \in 0..Len(toR[c]), n \in 0..Len(toS[c]) :
        /\ toR' = [toR EXCEPT ![c] = Prefix(@, m)]
        /\ toS' = [toS EXCEPT ![c] = Prefix(@, n)]
  BY DEF LinkFails
<1>2. link'[c] = "down" /\ UNCHANGED <<src, dest, snd, rcv, opener, taken>>
  BY DEF LinkFails, OverlapOf, TypeInv, TypeOK, ghosts
<1>3. /\ toR'[c] = Prefix(toR[c], m) /\ toS'[c] = Prefix(toS[c], n)
      /\ toR[c] \in Seq(ToReceiver) /\ toS[c] \in Seq(ToSender)
  BY <1>1 DEF OverlapOf, TypeInv, TypeOK
<1>4. /\ toR'[c] # <<>> => toR[c] # <<>> /\ Head(toR'[c]) = Head(toR[c])
      /\ toS'[c] # <<>> => toS[c] # <<>> /\ Head(toS'[c]) = Head(toS[c])
  BY <1>3, PrefixHead
<1>5. Agreeable(x, toR'[c], toS'[c])
  BY <1>4, SpokenAt DEF Agreeable
<1>6. Flow(x, snd[c], rcv[c], toR'[c], "down")
  <2> SUFFICES ASSUME rcv[c].pc \in AtFiles
               PROVE  \E end \in Nat : Runs(x, At(rcv[c]), toR'[c], end)
    BY DEF Flow
  <2>1. PICK end \in Nat : Runs(x, At(rcv[c]), toR[c], end)
    BY SpokenAt DEF Flow
  <2> QED
    BY <1>3, <2>1, RunsPrefix
<1>7. Honest(x, snd[c])
  BY SpokenAt
<1> QED
  BY <1>2, <1>5, <1>6, <1>7, SenderSpeaks

LEMMA CancelOverlap ==
    ASSUME NEW x, OverlapOf(x), TypeInv', Lines', NEW c \in Conns, Elsewhere(c), Cancel(c)
    PROVE  OverlapOf(x)'
<1> DEFINE s == snd[c]
           r == [s EXCEPT !.cancelled = TRUE]
<1>1. /\ snd' = [snd EXCEPT ![c] = r]
      /\ UNCHANGED <<src, dest, rcv, toR, toS, link, opener, taken>>
  BY DEF Cancel, wires, ghosts
<1>2. /\ snd'[c] = r /\ r.pc = s.pc /\ r.size = s.size /\ r.off = s.off /\ r.idx = s.idx
      /\ r.pos = s.pos /\ r.hash = s.hash
  BY <1>1, SpokenAt DEF SenderState, OverlapOf, TypeInv, TypeOK
<1> HIDE DEF r
<1>3. Honest(x, r)
  BY <1>2, SpokenAt DEF Honest
<1>4. Flow(x, r, rcv[c], toR[c], link[c]) /\ Agreeable(x, toR[c], toS[c])
  <2>1. At(r) = At(s)
    BY <1>2 DEF At
  <2> QED
    BY <2>1, SpokenAt DEF Flow
<1> QED
  BY <1>1, <1>2, <1>3, <1>4, SenderSpeaks

\* A call begins when every source is there: it is the file x.
LEMMA SendOverlap ==
    ASSUME NEW x, OverlapOf(x), TypeInv', Lines', NEW c \in Conns, Elsewhere(c), Send(c)
    PROVE  OverlapOf(x)'
<1> DEFINE size == [f \in Files |-> Len(src[f])]
           r == [snd[c] EXCEPT !.pc = "hello", !.size = size]
           g == [rcv[c] EXCEPT !.pc = "hello"]
<1>1. /\ snd[c].pc = "idle" /\ Present = Files
      /\ snd' = [snd EXCEPT ![c] = r] /\ rcv' = [rcv EXCEPT ![c] = g]
      /\ link' = [link EXCEPT ![c] = "up"] /\ toR' = [toR EXCEPT ![c] = <<Hello>>]
      /\ UNCHANGED <<src, dest, toS, opener, taken>>
  BY DEF Send
<1>2. /\ toS[c] = <<>> /\ snd[c].off = FromStart /\ rcv[c].pc = "none" /\ rcv[c].idx = 1
      /\ \A f \in Files : taken[c][f] = None
  <2>1. toS[c] = <<>> /\ snd[c].off = FromStart /\ rcv[c].pc = "none"
    BY <1>1, SpokenAt DEF InStep, SenderSide
  <2>2. rcv[c].idx = 1 /\ \A f \in Files : taken[c][f] # None => f < 1
    BY <2>1, SpokenAt DEF Accepts
  <2> QED
    BY <2>1, <2>2, CountsAssumption DEF Files
<1>3. \A f \in Files : src[f] # None /\ x[f] = src[f] /\ Len(x[f]) \in Nat /\ size[f] = Len(x[f])
  <2>1. \A f \in Files : src[f] # None /\ x[f] = src[f] /\ x[f] \in File \cup {None}
    BY <1>1 DEF Present, OverlapOf, Sources
  <2> QED
    BY <2>1, IsAFile
<1> HIDE DEF size
<1>4. /\ snd'[c] = r /\ r.pc = "hello" /\ r.size = size /\ r.off = FromStart
      /\ rcv'[c] = g /\ g.pc = "hello" /\ g.idx = 1
  BY <1>1, <1>2, SpokenAt DEF SenderState, HandlerState, OverlapOf, TypeInv, TypeOK
<1>5. link'[c] = "up" /\ toR'[c] = <<Hello>>
  BY <1>1 DEF OverlapOf, TypeInv, TypeOK
<1> HIDE DEF r, g
<1>6. Honest(x, r)
  BY <1>3, <1>4 DEF Honest, FromStart
<1>7. Agreeable(x, <<Hello>>, <<>>)
  <2>1. Head(<<Hello>>).kind = "Hello"
    BY DEF Hello
  <2> QED
    BY <2>1 DEF Agreeable
<1>8. Flow(x, r, g, <<Hello>>, "up") /\ Bounded(x, g) /\ Accepts(x, g, taken[c])
  BY <1>2, <1>4 DEF Flow, Bounded, Accepts, AtFiles
<1>9. SpeaksAt(x, c)'
  BY <1>1, <1>2, <1>4, <1>5, <1>6, <1>7, <1>8 DEF SpeaksAt, Speaks
<1> QED
  BY <1>1, <1>4, <1>9, QuietOverlap

\* A source that is edited is gone: no call that comes later finds it.
LEMMA EditSourceOverlap ==
    ASSUME Edits \subseteq {None}, NEW x, OverlapOf(x), TypeInv', Lines', NEW f \in Files,
           EditSource(f)
    PROVE  OverlapOf(x)'
<1>1. /\ src' = [src EXCEPT ![f] = None]
      /\ UNCHANGED <<dest, snd, rcv, toR, toS, link, opener, taken>>
  BY DEF EditSource, wires, ghosts
<1>2. Sources(x)'
  BY <1>1 DEF OverlapOf, Sources, TypeInv, TypeOK
<1>3. Disk(x)' /\ \A c \in Conns : SpeaksAt(x, c)'
  BY <1>1 DEF OverlapOf, Disk, SpeaksAt
<1> QED
  BY <1>2, <1>3 DEF OverlapOf

-----------------------------------------------------------------------------
(* Every step.                                                             *)

LEMMA NextOverlap ==
    ASSUME Edits \subseteq {None}, NEW x, OverlapOf(x), [Next]_vars
    PROVE  OverlapOf(x)'
<1>1. TypeInv /\ Lines /\ TypeInv' /\ Lines'
  BY NextTypeInv, NextLines DEF OverlapOf
<1>2. ASSUME NEW c \in Conns,
             \/ Send(c) \/ SenderStep(c) \/ HandlerStep(c)
             \/ LinkFails(c) \/ HandlerDies(c) \/ Cancel(c)
      PROVE  OverlapOf(x)'
  <2>1. Elsewhere(c)
    BY <1>1, <1>2, StepsElsewhere
  <2> QED
    BY <1>1, <1>2, <2>1, SendOverlap, SenderStepOverlap, HandlerStepOverlap,
       LinkFailsOverlap, HandlerDiesOverlap, CancelOverlap
<1>3. ASSUME NEW f \in Files, EditSource(f) PROVE OverlapOf(x)'
  BY <1>1, <1>3, EditSourceOverlap
<1>4. CASE UNCHANGED vars
  BY <1>1, <1>4 DEF OverlapOf, Sources, Disk, SpeaksAt, vars, wires, ghosts
<1> QED
  BY <1>2, <1>3, <1>4 DEF Next, AtRest

\* The two ends of every connection speak of the same files, and the destinations hold
\* what their last openers have behind them.
OverlapInv == \E x : OverlapOf(x)

LEMMA InitOverlap == Init => OverlapInv
<1> SUFFICES ASSUME Init PROVE OverlapOf(src)
  BY DEF OverlapInv
<1>1. TypeInv /\ Lines
  BY InitTypeInv, InitLines
<1>2. Sources(src)
  BY <1>1 DEF Sources, TypeInv, TypeOK
<1>3. ASSUME NEW c \in Conns
      PROVE  /\ snd[c].pc = "idle" /\ rcv[c].pc = "none" /\ rcv[c].idx = 1
             /\ toR[c] = <<>> /\ toS[c] = <<>> /\ \A f \in Files : taken[c][f] = None
  BY DEF Init
<1>4. Disk(src)
  <2>1. \A f \in Files : opener[f] = None
    BY DEF Init
  <2> QED
    BY <1>3, <2>1 DEF Disk
<1>5. ASSUME NEW c \in Conns PROVE SpeaksAt(src, c)
  BY <1>3 DEF SpeaksAt, Speaks, Honest, Flow, Bounded, Agreeable, Accepts, AtFiles
<1> QED
  BY <1>1, <1>2, <1>4, <1>5 DEF OverlapOf

LEMMA OverlapDelivers == OverlapInv => DeliveredIntact /\ SuccessMeansDelivered
<1> SUFFICES ASSUME NEW x, OverlapOf(x) PROVE DeliveredIntact /\ SuccessMeansDelivered
  BY DEF OverlapInv
<1>1. ASSUME NEW c \in Conns, NEW f \in Files, opener[f] = c, taken[c][f] # None
      PROVE  dest[f] = taken[c][f]
  <2>1. taken[c][f] = x[f]
    BY <1>1, SpokenAt DEF Accepts
  <2> QED
    BY <1>1, <2>1 DEF OverlapOf, Disk
<1>2. ASSUME NEW c \in Conns, NEW f \in Files, snd[c].pc = "ok", snd[c].off[f] # Skip
      PROVE  told[c][f] # None /\ taken[c][f] = told[c][f]
  BY <1>2, SuccessIsConfirmed DEF OverlapOf
<1> QED
  BY <1>1, <1>2 DEF DeliveredIntact, SuccessMeansDelivered

\* However many connections are at work at a time, and on whichever files: a file that
\* its last handler has accepted holds exactly the bytes whose digest was found equal,
\* as long as no source is rewritten (receiveFile and drainFile lock nothing; a handler
\* that another one disturbs either finds the digest wrong or leaves the same bytes).
THEOREM OverlapDeliversIntact ==
    ASSUME Edits \subseteq {None}
    PROVE  Spec => []DeliveredIntact
<1>1. OverlapInv /\ [Next]_vars => OverlapInv'
  BY NextOverlap DEF OverlapInv
<1>2. OverlapInv => DeliveredIntact
  BY OverlapDelivers
<1> QED
  BY <1>1, <1>2, InitOverlap, PTL DEF Spec

\* Nor does a nil error of Send mean less for it: every file that was not skipped was
\* checked by the receiver against the digest it was told, and is on disk unless another
\* connection has opened it since (RecvDone, RecvDoneAck).
THEOREM OverlapSuccessMeansDelivered ==
    ASSUME Edits \subseteq {None}
    PROVE  Spec => []SuccessMeansDelivered
<1>1. OverlapInv /\ [Next]_vars => OverlapInv'
  BY NextOverlap DEF OverlapInv
<1>2. OverlapInv => SuccessMeansDelivered
  BY OverlapDelivers
<1> QED
  BY <1>1, <1>2, InitOverlap, PTL DEF Spec

=============================================================================
