--------------------------- MODULE ObservedProofs ---------------------------
(***************************************************************************)
(* The observer of the bridge, whatever the files, the faults and the number *)
(* of runs: it shows no file of a run that is over as running, takes no bar   *)
(* back or past its end, and ends with the counters of Send and the total     *)
(* that the plan announced.                                                *)
(***************************************************************************)
EXTENDS ObservedTransfer, TransferProofs

-----------------------------------------------------------------------------
(* Its steps are steps of module Transfer, whose invariants it may use.      *)

LEMMA ObservedStepIsStep ==
    ASSUME [ObservedNext]_observedVars
    PROVE  [Next]_vars
<1>1. ASSUME NEW c \in Conns, ObservedStep(c) PROVE SenderStep(c)
  BY <1>1 DEF ObservedStep, SenderStep, CancelBetween
<1>2. CASE UNCHANGED observedVars
  BY <1>2 DEF observedVars
<1>3. CASE ObservedNext
  BY <1>1, <1>3 DEF ObservedNext, Next
<1> QED
  BY <1>2, <1>3

-----------------------------------------------------------------------------
(* The inductive invariant: how the counters o of a run, those shown last, sh, *)
(* and the digests it has told, w, go with the state s of Send and the bytes t  *)
(* it has counted.                                                         *)

Early == {"idle", "hello", "query"}
Late == {"file", "stream", "ack", "ok"}

\* A file of a run that has made its plan.
Stands(s, o, w, f) ==
    IF s.off[f] = Skip
    THEN o.state[f] = "skipped" /\ o.sent[f] = s.size[f] /\ w[f] = None
    ELSE IF f < s.idx
    THEN o.state[f] = "done" /\ o.sent[f] = s.size[f] /\ w[f] # None
    ELSE IF s.pc = "stream" /\ f = s.idx
    THEN o.state[f] = "running" /\ o.sent[f] = s.pos /\ w[f] = None
    ELSE o.state[f] = "queued" /\ o.sent[f] = s.off[f] /\ w[f] = None

\* A file of a run that has failed.
Left(s, o, w, f) ==
    /\ o.state[f] # "running"
    /\ o.state[f] = "failed" => f = s.idx
    /\ o.state[f] = "done" <=> w[f] # None
    /\ f = s.idx /\ ~s.cancelled => o.state[f] \in {"none", "failed"}

Row(s, t, o, sh, w) ==
    /\ t \in Nat /\ o \in Counters /\ sh \in Counters
    /\ o.sum = t
    /\ s.pc \in Early =>
          s.idx = 1 /\ t = 0 /\ \A f \in Files : w[f] = None /\ o.state[f] = "none"
    /\ s.pc \in Late => \A f \in Files : Stands(s, o, w, f)
    /\ s.pc \in {"ack", "ok"} => s.idx = NFiles + 1
    /\ s.pc \in {"ok", "failed"} => sh = o
    /\ s.pc = "failed" => \A f \in Files : Left(s, o, w, f)

Rows ==
    /\ transferred \in [Conns -> Nat]
    /\ obs \in [Conns -> Counters]
    /\ shown \in [Conns -> Counters]
    /\ \A c \in Conns : Row(snd[c], transferred[c], obs[c], shown[c], told[c])

\* A step of run c gives it another row, and leaves the others.
Others(c) ==
    /\ transferred' \in [Conns -> Nat]
    /\ obs' \in [Conns -> Counters]
    /\ shown' \in [Conns -> Counters]
    /\ \A d \in Conns \ {c} :
          /\ snd'[d] = snd[d] /\ told'[d] = told[d]
          /\ transferred'[d] = transferred[d] /\ obs'[d] = obs[d] /\ shown'[d] = shown[d]

OwnRow(c) == Row(snd[c], transferred[c], obs[c], shown[c], told[c])

LEMMA RowsStep ==
    ASSUME Rows, NEW c \in Conns, Others(c), OwnRow(c)'
    PROVE  Rows'
<1>1. ASSUME NEW d \in Conns PROVE OwnRow(d)'
  <2>1. CASE d = c
    BY <2>1
  <2>2. CASE d # c
    BY <2>2 DEF Rows, Others, OwnRow
  <2> QED
    BY <2>1, <2>2
<1> QED
  BY <1>1 DEF Rows, Others, OwnRow

\* What is known of a run and its row.
LEMMA KnownRow ==
    ASSUME TypeInv, Rows, NEW c \in Conns
    PROVE  /\ snd[c] \in SenderState /\ SenderSound(snd[c])
           /\ told[c] \in [Files -> File \cup {None}]
           /\ transferred[c] \in Nat /\ obs[c] \in Counters /\ shown[c] \in Counters
           /\ Row(snd[c], transferred[c], obs[c], shown[c], told[c])
           /\ \A x : snd' = [snd EXCEPT ![c] = x] =>
                  snd'[c] = x /\ \A d \in Conns \ {c} : snd'[d] = snd[d]
BY DEF TypeInv, TypeOK, Rows

\* Plan makes a row for every file.
LEMMA RowPlanned ==
    ASSUME NEW s \in SenderState, s.pc \in {"hello", "query"},
           NEW t, NEW o, NEW sh, NEW w, Row(s, t, o, sh, w),
           NEW r \in SenderState, r.pc = "file", r.size = s.size,
           \A k \in 1..(r.idx - 1) : r.off[k] = Skip
    PROVE  LET plan ==
                 [state |-> [f \in Files |-> IF r.off[f] = Skip THEN "skipped" ELSE "queued"],
                  sent |-> [f \in Files |-> IF r.off[f] = Skip THEN s.size[f] ELSE r.off[f]],
                  sum |-> 0]
           IN  Row(r, t, plan, plan, w)
<1> DEFINE state == [f \in Files |-> IF r.off[f] = Skip THEN "skipped" ELSE "queued"]
           sent == [f \in Files |-> IF r.off[f] = Skip THEN s.size[f] ELSE r.off[f]]
           plan == [state |-> state, sent |-> sent, sum |-> 0]
<1>1. t = 0 /\ \A f \in Files : w[f] = None
  BY DEF Row, Early
<1>2. plan \in Counters
  BY DEF Counters, SenderState, Offset
<1>3. ASSUME NEW f \in Files PROVE Stands(r, plan, w, f)
  <2>1. r.idx \in 1..(NFiles + 1) /\ f \in 1..NFiles
    BY DEF SenderState, Files
  <2>2. f < r.idx => r.off[f] = Skip
    BY <2>1, CountsAssumption
  <2>3. plan.state[f] = state[f] /\ plan.sent[f] = sent[f]
    OBVIOUS
  <2> QED
    BY <1>1, <2>2, <2>3 DEF Stands
<1> HIDE DEF plan
<1>4. Row(r, t, plan, plan, w)
  <2>1. plan.sum = 0
    BY DEF plan
  <2> QED
    BY <1>1, <1>2, <1>3, <2>1 DEF Row, Early, Late
<1> QED
  BY <1>4 DEF plan

\* A run that gets its offsets moves to the first file that it has to send.
LEMMA OffsetsKnown ==
    ASSUME TypeInv, TypeInv', Rows, NEW c \in Conns, StartFresh(c) \/ RecvAnswers(c)
    PROVE  LET s == snd[c]
               r == snd'[c]
           IN  /\ s \in SenderState /\ r \in SenderState
               /\ s.pc \in {"hello", "query"} /\ r.pc = "file" /\ r.size = s.size
               /\ snd' = [snd EXCEPT ![c] = r] /\ told' = told
               /\ \A k \in 1..(r.idx - 1) : r.off[k] = Skip
<1> DEFINE s == snd[c]
           r == snd'[c]
<1>1. /\ s \in SenderState /\ Row(s, transferred[c], obs[c], shown[c], told[c])
      /\ r \in SenderState
  BY KnownRow DEF TypeInv, TypeOK
<1>2. /\ s.pc \in {"hello", "query"} /\ r.pc = "file" /\ r.size = s.size
      /\ snd' = [snd EXCEPT ![c] = r] /\ told' = told
      /\ \A k \in 1..(r.idx - 1) : r.off[k] = Skip
  <2>1. CASE StartFresh(c)
    <3>1. snd' = [snd EXCEPT ![c] = [snd[c] EXCEPT !.pc = "file"]]
      BY <2>1 DEF StartFresh
    <3>2. r = [snd[c] EXCEPT !.pc = "file"]
      BY <3>1, KnownRow
    <3>3. s.pc = "hello" /\ told' = told
      BY <2>1 DEF StartFresh, ghosts
    <3>4. s.idx = 1
      BY <1>1, <3>3 DEF Row, Early
    <3>5. r.pc = "file" /\ r.size = s.size /\ r.idx = 1
      BY <1>1, <3>2, <3>4 DEF SenderState
    <3>6. \A k \in 1..(r.idx - 1) : r.off[k] = Skip
      BY <3>5
    <3> HIDE DEF r
    <3> QED
      BY <3>1, <3>2, <3>3, <3>5, <3>6
  <2>2. CASE RecvAnswers(c)
    <3> DEFINE answers == Head(toS[c]).answers
    <3>1. snd' = [snd EXCEPT ![c] = [snd[c] EXCEPT !.pc = "file", !.off = answers,
                                                   !.idx = NextFile(answers, 1)]]
      BY <2>2 DEF RecvAnswers
    <3>2. r = [snd[c] EXCEPT !.pc = "file", !.off = answers, !.idx = NextFile(answers, 1)]
      BY <3>1, KnownRow
    <3>3. s.pc = "query" /\ told' = told
      BY <2>2 DEF RecvAnswers, ghosts
    <3> HIDE DEF answers
    <3>4. r.pc = "file" /\ r.size = s.size /\ r.off = answers /\ r.idx = NextFile(answers, 1)
      BY <1>1, <3>2, Zenon DEF SenderState
    <3>5. answers \in [Files -> Offset]
      BY <1>1, <3>4 DEF SenderState
    <3>6. \A k \in 1..(NextFile(answers, 1) - 1) : answers[k] = Skip
      BY <3>5, NextFileType, CountsAssumption
    <3> QED
      BY <3>1, <3>2, <3>3, <3>4, <3>6
  <2> QED
    BY <2>1, <2>2
<1> QED
  BY <1>1, <1>2

LEMMA PlanStep ==
    ASSUME TypeInv, TypeInv', Rows, NEW c \in Conns,
           StartFresh(c) \/ RecvAnswers(c), Plan(c)
    PROVE  Rows'
<1> DEFINE s == snd[c]
           r == snd'[c]
           plan == [state |-> [f \in Files |-> IF r.off[f] = Skip THEN "skipped" ELSE "queued"],
                    sent |-> [f \in Files |-> IF r.off[f] = Skip THEN s.size[f] ELSE r.off[f]],
                    sum |-> 0]
<1>1. /\ s \in SenderState /\ Row(s, transferred[c], obs[c], shown[c], told[c])
      /\ r \in SenderState
  BY KnownRow DEF TypeInv, TypeOK
<1>2. /\ s.pc \in {"hello", "query"} /\ r.pc = "file" /\ r.size = s.size
      /\ snd' = [snd EXCEPT ![c] = r] /\ told' = told
      /\ \A k \in 1..(r.idx - 1) : r.off[k] = Skip
  BY OffsetsKnown
<1>3. /\ obs' = [obs EXCEPT ![c] = plan]
      /\ shown' = [shown EXCEPT ![c] = plan]
      /\ transferred' = transferred
  BY DEF Plan, Counted, Flush, Rows
<1>4. Row(r, transferred[c], plan, plan, told[c])
  BY <1>1, <1>2, RowPlanned
<1>5. plan \in Counters
  BY <1>4 DEF Row
<1> HIDE DEF plan
<1>6. Others(c)
  BY <1>2, <1>3, <1>5, KnownRow DEF Others, Rows
<1>7. obs'[c] = plan /\ shown'[c] = plan
  BY <1>3 DEF Rows
<1>8. OwnRow(c)'
  BY <1>2, <1>3, <1>4, <1>7 DEF OwnRow
<1> QED
  BY <1>6, <1>8, RowsStep

\* What marking a file does to the counters.
LEMMA Marking ==
    ASSUME NEW o \in Counters, NEW f \in Files, NEW mark \in {"running", "done", "failed"}
    PROVE  LET p == [o EXCEPT !.state[f] = mark]
           IN  /\ p \in Counters /\ p.sum = o.sum /\ p.sent = o.sent
               /\ p.state[f] = mark
               /\ \A g \in Files \ {f} : p.state[g] = o.state[g]
BY DEF Counters

\* A file begins.
LEMMA BeginStep ==
    ASSUME TypeInv, TypeInv', Rows, NEW c \in Conns,
           SendFileStart(c), FileBegin(c, snd[c].idx)
    PROVE  Rows'
<1> DEFINE s == snd[c]
           f == s.idx
           r == [s EXCEPT !.pc = "stream", !.pos = s.off[f], !.hash = PrefixDigest(f, s.off[f])]
           p == [obs[c] EXCEPT !.state[f] = "running"]
<1>1. /\ s \in SenderState /\ SenderSound(s) /\ obs[c] \in Counters
      /\ OwnRow(c)
  BY KnownRow DEF OwnRow
<1>2. /\ s.pc = "file" /\ f \in Files /\ told' = told
      /\ snd' = [snd EXCEPT ![c] = r]
  BY DEF SendFileStart, ghosts
<1>3. snd'[c] = r /\ \A d \in Conns \ {c} : snd'[d] = snd[d]
  BY <1>2, KnownRow
<1>4. /\ p \in Counters /\ p.sum = obs[c].sum /\ p.sent = obs[c].sent
      /\ p.state[f] = "running"
      /\ \A g \in Files \ {f} : p.state[g] = obs[c].state[g]
  BY <1>1, <1>2, Marking
<1>5. /\ r.pc = "stream" /\ r.idx = f /\ r.off = s.off /\ r.size = s.size
      /\ r.pos = s.off[f]
  BY <1>1, Zenon DEF SenderState
<1>6. /\ obs' = [obs EXCEPT ![c] = p] /\ shown' = [shown EXCEPT ![c] = obs'[c]]
      /\ transferred' = transferred
  BY DEF FileBegin, Counted, Flush
<1>7. obs'[c] = p /\ shown'[c] = p
  BY <1>6 DEF Rows
<1>8. Others(c)
  BY <1>2, <1>3, <1>4, <1>6, <1>7 DEF Others, Rows
<1> HIDE DEF p, r
<1>9. ASSUME NEW g \in Files PROVE Stands(r, p, told[c], g)
  <2>1. Stands(s, obs[c], told[c], g)
    BY <1>1, <1>2 DEF OwnRow, Row, Late
  <2>2. s.off[f] # Skip
    BY <1>1, <1>2 DEF SenderSound
  <2>3. f \in Nat
    BY <1>2 DEF Files
  <2>4. CASE g = f
    BY <1>2, <1>4, <1>5, <2>1, <2>2, <2>3, <2>4 DEF Stands
  <2>5. CASE g # f
    BY <1>2, <1>4, <1>5, <2>1, <2>5 DEF Stands
  <2> QED
    BY <2>4, <2>5
<1>10. OwnRow(c)'
  BY <1>1, <1>2, <1>3, <1>4, <1>5, <1>6, <1>7, <1>9 DEF OwnRow, Row, Early, Late, Rows
<1> QED
  BY <1>8, <1>10, RowsStep

\* The sum rises by what the file has moved.
LEMMA Rise ==
    ASSUME TypeInv, Rows, NEW c \in Conns, snd[c].pc = "stream", NEW n \in Nat \ {0}
    PROVE  LET f == snd[c].idx
               p == AtPos(c, f, snd[c].pos + n)
           IN  /\ f \in Files /\ snd[c].pos \in Nat
               /\ p \in Counters /\ p.sum = transferred[c] + n
               /\ p.state = obs[c].state
               /\ p.sent[f] = snd[c].pos + n
               /\ \A g \in Files \ {f} : p.sent[g] = obs[c].sent[g]
<1> DEFINE f == snd[c].idx
           pos == snd[c].pos
           o == obs[c]
<1>1. /\ snd[c] \in SenderState /\ f \in Files /\ o \in Counters
      /\ snd[c].off[f] # Skip
      /\ transferred[c] \in Nat
      /\ OwnRow(c)
  BY KnownRow DEF SenderSound, OwnRow
<1>2. pos \in Nat /\ f \in Nat
  BY <1>1 DEF SenderState, Files
<1>3. o.sum = transferred[c] /\ Stands(snd[c], o, told[c], f)
  BY <1>1 DEF OwnRow, Row, Late
<1>4. o.sent[f] = pos
  BY <1>1, <1>2, <1>3 DEF Stands
<1>5. Advance(c, f, pos + n) = n
  BY <1>2, <1>4 DEF Advance
<1>6. pos + n \in Nat /\ transferred[c] + n \in Nat
  BY <1>1, <1>2
<1>7. AtPos(c, f, pos + n) = [o EXCEPT !.sent[f] = pos + n, !.sum = transferred[c] + n]
  BY <1>3, <1>5 DEF AtPos, Counters
<1>8. /\ AtPos(c, f, pos + n) \in Counters
      /\ AtPos(c, f, pos + n).sum = transferred[c] + n
      /\ AtPos(c, f, pos + n).state = o.state
      /\ AtPos(c, f, pos + n).sent = [o.sent EXCEPT ![f] = pos + n]
  <2>1. ASSUME NEW q, q = [o EXCEPT !.sent[f] = pos + n, !.sum = transferred[c] + n]
        PROVE  /\ q \in Counters
               /\ q.sum = transferred[c] + n
               /\ q.state = o.state
               /\ q.sent = [o.sent EXCEPT ![f] = pos + n]
    <3>1. q.sum = transferred[c] + n
      BY <1>1, <2>1 DEF Counters
    <3>2. q.state = o.state
      BY <1>1, <2>1 DEF Counters
    <3>3. q.sent = [o.sent EXCEPT ![f] = pos + n]
      BY <1>1, <2>1 DEF Counters
    <3>4. q \in Counters
      BY <1>1, <1>6, <2>1 DEF Counters
    <3> QED
      BY <3>1, <3>2, <3>3, <3>4
  <2> QED
    BY <1>7, <2>1
<1> QED
  BY <1>1, <1>2, <1>8 DEF Counters

\* A whole chunk goes out.
LEMMA ChunkStep ==
    ASSUME TypeInv, TypeInv', Rows, NEW c \in Conns,
           StreamChunk(c), FileProgress(c, snd[c].idx, ChunkSize)
    PROVE  Rows'
<1> DEFINE s == snd[c]
           f == s.idx
           data == SubSeq(src[f], s.pos + 1, s.pos + ChunkSize)
           r == [s EXCEPT !.pos = s.pos + ChunkSize, !.hash = s.hash \o data]
           p == AtPos(c, f, s.pos + ChunkSize)
<1>1. /\ s \in SenderState /\ SenderSound(s) /\ obs[c] \in Counters
      /\ transferred[c] \in Nat
      /\ OwnRow(c)
  BY KnownRow DEF OwnRow
<1>2. /\ s.pc = "stream" /\ told' = told
      /\ snd' = [snd EXCEPT ![c] = r]
  BY DEF StreamChunk, ghosts
<1>3. snd'[c] = r /\ \A d \in Conns \ {c} : snd'[d] = snd[d]
  BY <1>2, KnownRow
<1>4. /\ f \in Files /\ s.pos \in Nat
      /\ p \in Counters /\ p.sum = transferred[c] + ChunkSize
      /\ p.state = obs[c].state
      /\ p.sent[f] = s.pos + ChunkSize
      /\ \A g \in Files \ {f} : p.sent[g] = obs[c].sent[g]
  BY <1>2, Rise, ChunkSizeAssumption
<1>5. /\ r.pc = "stream" /\ r.idx = f /\ r.off = s.off /\ r.size = s.size
      /\ r.pos = s.pos + ChunkSize
  BY <1>1, <1>2, Zenon DEF SenderState
<1> HIDE DEF p, r
<1>6. /\ obs' = [obs EXCEPT ![c] = p]
      /\ shown' = [shown EXCEPT ![c] = obs'[c]] \/ shown' = shown
      /\ transferred' = [transferred EXCEPT ![c] = transferred[c] + ChunkSize]
  BY DEF FileProgress, Counted, Flush, p
<1>7. /\ obs'[c] = p /\ shown'[c] \in Counters
      /\ transferred'[c] = transferred[c] + ChunkSize
  BY <1>4, <1>6 DEF Rows
<1>8. Others(c)
  <2>1. transferred[c] + ChunkSize \in Nat
    BY <1>1, ChunkSizeAssumption
  <2> QED
    BY <1>2, <1>3, <1>4, <1>6, <1>7, <2>1 DEF Others, Rows
<1>9. ASSUME NEW g \in Files PROVE Stands(r, p, told[c], g)
  <2>1. Stands(s, obs[c], told[c], g)
    BY <1>1, <1>2 DEF OwnRow, Row, Late
  <2>2. s.off[f] # Skip /\ f \in Nat
    BY <1>1, <1>2, <1>4 DEF SenderSound, Files
  <2>3. CASE g = f
    BY <1>2, <1>4, <1>5, <2>1, <2>2, <2>3 DEF Stands
  <2>4. CASE g # f
    BY <1>2, <1>4, <1>5, <2>1, <2>4 DEF Stands
  <2> QED
    BY <2>3, <2>4
<1>10. OwnRow(c)'
  <2>1. transferred'[c] \in Nat
    BY <1>8 DEF Others
  <2> QED
    BY <1>2, <1>3, <1>4, <1>5, <1>7, <1>9, <2>1 DEF OwnRow, Row, Early, Late
<1> QED
  BY <1>8, <1>10, RowsStep

\* The counters at the end of a file, but for its last mark.
LEMMA LastRise ==
    ASSUME TypeInv, Rows, NEW c \in Conns, snd[c].pc = "stream"
    PROVE  LET f == snd[c].idx
               t == IF Unread(c) > 0 THEN transferred[c] + Unread(c) ELSE transferred[c]
               o == IF Unread(c) > 0 THEN AtPos(c, f, snd[c].pos + Unread(c)) ELSE obs[c]
           IN  /\ f \in Files /\ t \in Nat
               /\ o \in Counters /\ o.sum = t
               /\ o.state = obs[c].state
               /\ \A g \in Files \ {f} : o.sent[g] = obs[c].sent[g]
<1>1. /\ snd[c] \in SenderState /\ snd[c].idx \in Files /\ src[snd[c].idx] # None
      /\ obs[c] \in Counters
      /\ transferred[c] \in Nat
      /\ OwnRow(c)
  BY KnownRow DEF SenderSound, OwnRow
<1>2. CASE Unread(c) > 0
  <2>1. Unread(c) \in Nat \ {0}
    <3>1. src[snd[c].idx] \in File
      BY <1>1 DEF TypeInv, TypeOK
    <3>2. Len(src[snd[c].idx]) \in Nat /\ snd[c].pos \in Nat
      BY <1>1, <3>1 DEF File, SenderState
    <3> QED
      BY <1>2, <3>2 DEF Unread
  <2> QED
    BY <1>1, <1>2, <2>1, Rise
<1>3. CASE ~(Unread(c) > 0)
  BY <1>1, <1>3 DEF OwnRow, Row
<1> QED
  BY <1>2, <1>3

\* The last frame of a file, its digest, and the next file.
LEMMA EndStep ==
    ASSUME TypeInv, TypeInv', Rows, NEW c \in Conns,
           StreamEnd(c), FileEnd(c, snd[c].idx)
    PROVE  Rows'
<1> DEFINE s == snd[c]
           f == s.idx
           rest == SubSeq(src[f], s.pos + 1, Len(src[f]))
           sum == s.hash \o rest
           next == NextFile(s.off, f + 1)
           r == [s EXCEPT !.pc = "file", !.idx = next]
           t == IF Unread(c) > 0 THEN transferred[c] + Unread(c) ELSE transferred[c]
           o == IF Unread(c) > 0 THEN AtPos(c, f, s.pos + Unread(c)) ELSE obs[c]
           p == [o EXCEPT !.state[f] = "done", !.sent[f] = s.size[f]]
<1>1. /\ s \in SenderState /\ SenderSound(s) /\ obs[c] \in Counters
      /\ told[c] \in [Files -> File \cup {None}]
      /\ OwnRow(c)
  BY KnownRow DEF OwnRow
<1>2. /\ s.pc = "stream"
      /\ snd' = [snd EXCEPT ![c] = r]
      /\ told' = [told EXCEPT ![c][f] = sum]
  BY DEF StreamEnd
<1>3. snd'[c] = r /\ \A d \in Conns \ {c} : snd'[d] = snd[d]
  BY <1>2, KnownRow
<1>4. /\ f \in Files /\ t \in Nat
      /\ o \in Counters /\ o.sum = t /\ o.state = obs[c].state
      /\ \A g \in Files \ {f} : o.sent[g] = obs[c].sent[g]
  BY <1>2, LastRise
<1>5. /\ obs' = [obs EXCEPT ![c] = p]
      /\ shown' = [shown EXCEPT ![c] = obs'[c]]
      /\ transferred' = [transferred EXCEPT ![c] = t]
  BY DEF FileEnd, Counted, Flush, Complete
<1>6. s.size[f] \in Nat /\ s.off \in [Files -> Offset] /\ f \in Nat /\ f + 1 \in 1..(NFiles + 1)
  BY <1>1, <1>4, CountsAssumption DEF SenderState, Files
<1>7. /\ r.pc = "file" /\ r.idx = next /\ r.off = s.off /\ r.size = s.size
  BY <1>1, Zenon DEF SenderState
<1> HIDE DEF o, t
<1>8. /\ p \in Counters /\ p.sum = t
      /\ p.state[f] = "done" /\ p.sent[f] = s.size[f]
      /\ \A g \in Files \ {f} :
            p.state[g] = obs[c].state[g] /\ p.sent[g] = obs[c].sent[g]
  <2> DEFINE n == s.size[f]
  <2>1. p = [o EXCEPT !.state[f] = "done", !.sent[f] = n] /\ n \in Nat
    BY <1>6
  <2> HIDE DEF p, n, f
  <2>2. /\ p \in Counters /\ p.sum = o.sum
        /\ p.state[f] = "done" /\ p.sent[f] = n
        /\ \A g \in Files \ {f} :
              p.state[g] = o.state[g] /\ p.sent[g] = o.sent[g]
    BY <1>4, <2>1 DEF Counters
  <2> QED
    BY <1>4, <2>2 DEF n
<1> HIDE DEF p, r, sum, next
<1>9. /\ obs'[c] = p /\ shown'[c] = p /\ transferred'[c] = t
      /\ told'[c] = [told[c] EXCEPT ![f] = sum]
      /\ \A d \in Conns \ {c} : told'[d] = told[d]
  BY <1>2, <1>5 DEF Rows, TypeInv, TypeOK
<1>10. Others(c)
  BY <1>3, <1>4, <1>5, <1>8, <1>9 DEF Others, Rows
<1>11. sum # None
  <2>1. src[f] \in File
    BY <1>1, <1>2, <1>4 DEF SenderSound, TypeInv, TypeOK
  <2>2. rest \in Seq(Byte)
    BY <1>1, <2>1 DEF File, SenderState
  <2>3. s.hash \in Seq(Byte)
    BY <1>1 DEF SenderState, File
  <2> QED
    BY <2>2, <2>3, NoneAssumption, ConcatProperties DEF sum
<1>12. /\ next \in (f + 1)..(NFiles + 1)
       /\ \A k \in (f + 1)..(next - 1) : s.off[k] = Skip
  BY <1>6, NextFileType DEF next
<1>13. ASSUME NEW g \in Files PROVE Stands(r, p, told'[c], g)
  <2>1. Stands(s, obs[c], told[c], g)
    BY <1>1, <1>2 DEF OwnRow, Row, Late
  <2>2. s.off[f] # Skip
    BY <1>1, <1>4 DEF SenderSound
  <2>3. g \in Nat
    BY DEF Files
  <2>4. CASE g = f
    <3>1. told'[c][g] = sum /\ g < next
      BY <1>1, <1>4, <1>6, <1>9, <1>12, <2>4
    <3> QED
      BY <1>7, <1>8, <1>11, <2>2, <2>4, <3>1 DEF Stands
  <2>5. CASE g # f
    <3>1. told'[c][g] = told[c][g]
      BY <1>1, <1>9, <2>5
    <3>2. p.state[g] = obs[c].state[g] /\ p.sent[g] = obs[c].sent[g]
      BY <1>8, <2>5
    <3>3. s.off[g] = Skip \/ (g < next <=> g < f)
      BY <1>6, <1>12, <2>3, <2>5
    <3> QED
      BY <1>2, <1>7, <2>1, <2>5, <3>1, <3>2, <3>3 DEF Stands
  <2> QED
    BY <2>4, <2>5
<1>14. OwnRow(c)'
  BY <1>3, <1>4, <1>7, <1>8, <1>9, <1>13 DEF OwnRow, Row, Early, Late
<1> QED
  BY <1>10, <1>14, RowsStep

-----------------------------------------------------------------------------
(* The end of a run.                                                       *)

\* A run that fails leaves each file as Left says, if the one that was under way
\* is marked, unless it was cancelled between two files.
LEMMA FailedRow ==
    ASSUME NEW s \in SenderState, SenderSound(s), s.pc \notin {"idle", "ok", "failed"},
           NEW t, NEW o, NEW sh, NEW w, Row(s, t, o, sh, w),
           NEW r, r.pc = "failed", r.idx = s.idx, r.cancelled = s.cancelled,
           NEW u \in Nat, NEW p \in Counters, p.sum = u,
           \A g \in Files \ {s.idx} : p.state[g] = o.state[g],
           s.idx \in Files =>
              IF s.pc \in {"file", "stream"} /\ ~(s.pc = "file" /\ s.cancelled)
              THEN p.state[s.idx] = "failed"
              ELSE p.state[s.idx] \in {o.state[s.idx], "failed"}
    PROVE  Row(r, u, p, p, w)
<1>1. ASSUME NEW f \in Files PROVE Left(r, p, w, f)
  <2>1. CASE s.pc \in Early
    <3>1. w[f] = None /\ o.state[f] = "none"
      BY <2>1 DEF Row
    <3>2. p.state[f] = "none" \/ (f = s.idx /\ p.state[f] = "failed")
      BY <2>1, <3>1 DEF Early
    <3> QED
      BY <3>1, <3>2 DEF Left
  <2>2. CASE s.pc \in {"file", "stream"} /\ f = s.idx
    <3>1. s.off[f] # Skip /\ ~(f < s.idx)
      BY <2>2 DEF SenderSound, Files
    <3>2. w[f] = None /\ o.state[f] \in {"queued", "running"}
      BY <2>2, <3>1 DEF Row, Late, Stands
    <3>3. p.state[f] = "failed" \/ (s.pc = "file" /\ s.cancelled /\ p.state[f] = o.state[f])
      BY <2>2
    <3>4. s.pc = "file" => o.state[f] = "queued"
      BY <2>2, <3>1 DEF Row, Late, Stands
    <3> QED
      BY <2>2, <3>2, <3>3, <3>4 DEF Left
  <2>3. CASE s.pc \in {"file", "stream"} /\ f # s.idx
    <3>1. Stands(s, o, w, f) /\ p.state[f] = o.state[f]
      BY <2>3 DEF Row, Late
    <3> QED
      BY <2>3, <3>1 DEF Stands, Left
  <2>4. CASE s.pc = "ack"
    <3>1. Stands(s, o, w, f) /\ s.idx = NFiles + 1
      BY <2>4 DEF Row, Late
    <3>2. f < s.idx /\ f # s.idx
      BY <3>1, CountsAssumption DEF Files
    <3> QED
      BY <2>4, <3>1, <3>2 DEF Stands, Left
  <2> QED
    BY <2>1, <2>2, <2>3, <2>4 DEF SenderState, Early
<1> QED
  BY <1>1 DEF Row, Early, Late

\* The bookkeeping of a step that ends run c with the counters p and t bytes.
LEMMA EndingRows ==
    ASSUME TypeInv, Rows, NEW c \in Conns, NEW how, NEW p \in Counters, NEW t \in Nat,
           SenderEnds(c, how), UNCHANGED told,
           transferred' = [transferred EXCEPT ![c] = t],
           obs' = [obs EXCEPT ![c] = p], shown' = [shown EXCEPT ![c] = p],
           Row([snd[c] EXCEPT !.pc = how], t, p, p, told[c])
    PROVE  Rows'
<1> DEFINE r == [snd[c] EXCEPT !.pc = how]
<1>1. snd' = [snd EXCEPT ![c] = r]
  BY DEF SenderEnds
<1>2. snd'[c] = r /\ \A d \in Conns \ {c} : snd'[d] = snd[d]
  BY <1>1, KnownRow
<1>3. Row(r, t, p, p, told[c])
  OBVIOUS
<1> HIDE DEF r
<1>4. Others(c)
  BY <1>2 DEF Others, Rows
<1>5. obs'[c] = p /\ shown'[c] = p /\ transferred'[c] = t
  BY DEF Rows
<1>6. OwnRow(c)'
  BY <1>2, <1>3, <1>5 DEF OwnRow
<1> QED
  BY <1>4, <1>6, RowsStep

\* A run fails: FileEnd with an error, and the last flush.
LEMMA FailStep ==
    ASSUME TypeInv, Rows, NEW c \in Conns,
           \/ SourceFails(c) /\ Failure(c)
           \/ SenderIOError(c) /\ Failure(c)
           \/ snd[c].pc = "stream" /\ CancelSeen(c) /\ Failure(c)
           \/ CancelBetween(c) /\ Returned(c)
    PROVE  Rows'
<1> DEFINE s == snd[c]
           f == s.idx
           r == [s EXCEPT !.pc = "failed"]
           p == IF Failure(c) /\ UnderWay(c) THEN [obs[c] EXCEPT !.state[f] = "failed"] ELSE obs[c]
<1>1. /\ s \in SenderState /\ SenderSound(s) /\ obs[c] \in Counters
      /\ Row(s, transferred[c], obs[c], shown[c], told[c])
  BY KnownRow
<1>2. /\ SenderEnds(c, "failed") /\ told' = told /\ transferred' = transferred
      /\ s.pc \notin {"idle", "ok", "failed"}
  BY DEF SourceFails, SenderIOError, CancelSeen, CancelBetween, Failure, Returned, ghosts,
         Senders
<1>3. obs' = [obs EXCEPT ![c] = p] /\ shown' = [shown EXCEPT ![c] = p]
  <2>1. CASE Failure(c)
    <3>1. obs' = [obs EXCEPT ![c] = p] /\ shown' = [shown EXCEPT ![c] = obs'[c]]
      BY <2>1 DEF Failure, Counted, Flush
    <3>2. obs'[c] = p
      BY <3>1 DEF Rows
    <3> QED
      BY <3>1, <3>2
  <2>2. CASE ~Failure(c)
    <3>1. obs' = obs /\ shown' = [shown EXCEPT ![c] = obs'[c]] /\ p = obs[c]
      BY <2>2 DEF Returned, Flush
    <3> HIDE DEF p
    <3>2. obs = [obs EXCEPT ![c] = obs[c]]
      BY DEF Rows
    <3> QED
      BY <3>1, <3>2
  <2> QED
    BY <2>1, <2>2
<1>4. /\ p \in Counters /\ p.sum = obs[c].sum
      /\ \A g \in Files \ {f} : p.state[g] = obs[c].state[g]
      /\ f \in Files /\ Failure(c) /\ UnderWay(c) => p.state[f] = "failed"
      /\ ~(Failure(c) /\ UnderWay(c)) => p = obs[c]
  <2>1. CASE Failure(c) /\ UnderWay(c)
    <3>1. f \in Files
      BY <1>1, <2>1 DEF UnderWay, SenderSound
    <3>2. p = [obs[c] EXCEPT !.state[f] = "failed"]
      BY <2>1
    <3> HIDE DEF p, f
    <3>3. /\ p \in Counters /\ p.sum = obs[c].sum
          /\ \A g \in Files \ {f} : p.state[g] = obs[c].state[g]
          /\ p.state[f] = "failed"
      BY <1>1, <3>1, <3>2 DEF Counters
    <3> QED
      BY <2>1, <3>3
  <2>2. CASE ~(Failure(c) /\ UnderWay(c))
    BY <1>1, <2>2
  <2> QED
    BY <2>1, <2>2
<1>5. r.pc = "failed" /\ r.idx = s.idx /\ r.cancelled = s.cancelled
  BY <1>1, Zenon DEF SenderState
<1> HIDE DEF p
<1>6. f \in Files =>
        IF s.pc \in {"file", "stream"} /\ ~(s.pc = "file" /\ s.cancelled)
        THEN p.state[f] = "failed"
        ELSE p.state[f] \in {obs[c].state[f], "failed"}
  <2>1. Failure(c) \/ (s.pc = "file" /\ s.cancelled)
    BY DEF CancelBetween, CancelSeen
  <2> QED
    BY <1>4, <2>1 DEF UnderWay
<1> HIDE DEF r
<1>7. Row(r, transferred[c], p, p, told[c])
  <2>1. transferred[c] \in Nat /\ p.sum = transferred[c]
    BY <1>1, <1>4 DEF Row
  <2> QED
    BY <1>1, <1>2, <1>4, <1>5, <1>6, <2>1, FailedRow
<1>8. transferred' = [transferred EXCEPT ![c] = transferred[c]] /\ transferred[c] \in Nat
  BY <1>2 DEF Rows
<1> QED
  BY <1>2, <1>3, <1>4, <1>7, <1>8, EndingRows DEF r

\* A run fails after the last frame of a file, which was counted.
LEMMA LastFails ==
    ASSUME TypeInv, Rows, NEW c \in Conns, SenderIOError(c), FailsAfterLast(c)
    PROVE  Rows'
<1> DEFINE s == snd[c]
           f == s.idx
           r == [s EXCEPT !.pc = "failed"]
           t == transferred[c] + Unread(c)
           o == AtPos(c, f, s.pos + Unread(c))
           p == [o EXCEPT !.state[f] = "failed"]
<1>1. /\ s \in SenderState /\ SenderSound(s)
      /\ Row(s, transferred[c], obs[c], shown[c], told[c])
  BY KnownRow
<1>2. /\ SenderEnds(c, "failed") /\ told' = told
      /\ s.pc = "stream" /\ Unread(c) > 0
      /\ transferred' = [transferred EXCEPT ![c] = t]
      /\ obs' = [obs EXCEPT ![c] = p] /\ shown' = [shown EXCEPT ![c] = obs'[c]]
  BY DEF SenderIOError, FailsAfterLast, Counted, Flush, ghosts
<1>3. /\ f \in Files /\ t \in Nat /\ o \in Counters /\ o.sum = t
      /\ o.state = obs[c].state
  BY <1>2, LastRise
<1>4. shown' = [shown EXCEPT ![c] = p]
  <2>1. obs'[c] = p
    BY <1>2 DEF Rows
  <2> QED
    BY <1>2, <2>1
<1>5. r.pc = "failed" /\ r.idx = s.idx /\ r.cancelled = s.cancelled
  BY <1>1, Zenon DEF SenderState
<1> HIDE DEF o, t
<1>6. /\ p \in Counters /\ p.sum = t /\ p.state[f] = "failed"
      /\ \A g \in Files \ {f} : p.state[g] = obs[c].state[g]
  <2>1. p = [o EXCEPT !.state[f] = "failed"]
    OBVIOUS
  <2> HIDE DEF p, f
  <2> QED
    BY <1>3, <2>1 DEF Counters
<1> HIDE DEF p, r
<1>7. Row(r, t, p, p, told[c])
  BY <1>1, <1>2, <1>3, <1>5, <1>6, FailedRow
<1> QED
  BY <1>2, <1>3, <1>4, <1>6, <1>7, EndingRows DEF r

\* The receiver confirms: Finish of the observer.
LEMMA AckedStep ==
    ASSUME TypeInv, Rows, NEW c \in Conns, RecvDoneAck(c), Returned(c)
    PROVE  Rows'
<1> DEFINE s == snd[c]
           o == obs[c]
           r == [s EXCEPT !.pc = "ok"]
<1>1. /\ s \in SenderState /\ o \in Counters
      /\ Row(s, transferred[c], o, shown[c], told[c])
  BY KnownRow
<1>2. /\ s.pc = "ack" /\ SenderEnds(c, "ok") /\ told' = told
      /\ transferred' = transferred
      /\ obs' = obs /\ shown' = [shown EXCEPT ![c] = obs'[c]]
  BY DEF RecvDoneAck, Returned, Flush, ghosts
<1>3. obs' = [obs EXCEPT ![c] = o] /\ shown' = [shown EXCEPT ![c] = o]
  BY <1>2 DEF Rows
<1>4. r.pc = "ok" /\ r.idx = s.idx /\ r.off = s.off /\ r.size = s.size
  BY <1>1, Zenon DEF SenderState
<1> HIDE DEF r
<1>5. \A f \in Files : Stands(r, o, told[c], f)
  BY <1>1, <1>2, <1>4 DEF Row, Late, Stands
<1>6. Row(r, transferred[c], o, o, told[c])
  BY <1>1, <1>2, <1>4, <1>5 DEF Row, Early, Late
<1>7. transferred' = [transferred EXCEPT ![c] = transferred[c]] /\ transferred[c] \in Nat
  BY <1>2 DEF Rows
<1> QED
  BY <1>1, <1>2, <1>3, <1>6, <1>7, EndingRows DEF r

-----------------------------------------------------------------------------
(* Steps that the observer does not see.                                   *)

LEMMA QuietRow ==
    ASSUME NEW s, NEW r, NEW t, NEW o, NEW sh, NEW w, Row(s, t, o, sh, w),
           r.off = s.off, r.idx = s.idx,
           \/ s.pc \in Early /\ r.pc \in Early
           \/ s.pc = "file" /\ r.pc = "ack" /\ s.idx = NFiles + 1 /\ r.size = s.size
           \/ r.pc = s.pc /\ r.size = s.size /\ r.pos = s.pos /\ (s.cancelled => r.cancelled)
    PROVE  Row(r, t, o, sh, w)
<1>1. CASE s.pc \in Early /\ r.pc \in Early
  BY <1>1 DEF Row, Early, Late
<1>2. CASE s.pc = "file" /\ r.pc = "ack" /\ s.idx = NFiles + 1 /\ r.size = s.size
  <2>1. \A f \in Files : Stands(r, o, w, f)
    BY <1>2 DEF Row, Late, Stands
  <2> QED
    BY <1>2, <2>1 DEF Row, Early, Late
<1>3. CASE r.pc = s.pc /\ r.size = s.size /\ r.pos = s.pos /\ (s.cancelled => r.cancelled)
  <2>1. \A f \in Files : Stands(s, o, w, f) => Stands(r, o, w, f)
    BY <1>3 DEF Stands
  <2>2. \A f \in Files : Left(s, o, w, f) => Left(r, o, w, f)
    BY <1>3 DEF Left
  <2> QED
    BY <1>3, <2>1, <2>2 DEF Row
<1> QED
  BY <1>1, <1>2, <1>3

\* A step of run c that changes neither its counters nor its digests.
LEMMA QuietRows ==
    ASSUME TypeInv, Rows, NEW c \in Conns, NEW r, snd' = [snd EXCEPT ![c] = r],
           UNCHANGED <<told, observer>>,
           Row(r, transferred[c], obs[c], shown[c], told[c])
    PROVE  Rows'
<1>1. snd'[c] = r /\ \A d \in Conns \ {c} : snd'[d] = snd[d]
  BY KnownRow
<1>2. Others(c)
  BY <1>1 DEF Others, Rows, observer
<1>3. OwnRow(c)'
  BY <1>1 DEF OwnRow, observer
<1> QED
  BY <1>2, <1>3, RowsStep

LEMMA QuietStep ==
    ASSUME TypeInv, Rows, NEW c \in Conns,
           SendQueries(c) \/ SendDone(c) \/ Send(c) \/ Cancel(c), UNCHANGED observer
    PROVE  Rows'
<1>1. /\ snd[c] \in SenderState
      /\ Row(snd[c], transferred[c], obs[c], shown[c], told[c])
  BY KnownRow
<1>2. told' = told
  BY DEF SendQueries, SendDone, Send, Cancel, ghosts
<1>3. CASE SendQueries(c)
  <2> DEFINE r == [snd[c] EXCEPT !.pc = "query"]
  <2>1. snd[c].pc = "hello" /\ snd' = [snd EXCEPT ![c] = r]
    BY <1>3 DEF SendQueries
  <2>2. r.pc = "query" /\ r.off = snd[c].off /\ r.idx = snd[c].idx
    BY <1>1, Zenon DEF SenderState
  <2> HIDE DEF r
  <2>3. Row(r, transferred[c], obs[c], shown[c], told[c])
    BY <1>1, <2>1, <2>2, QuietRow DEF Early
  <2> QED
    BY <1>2, <2>1, <2>3, QuietRows
<1>4. CASE SendDone(c)
  <2> DEFINE r == [snd[c] EXCEPT !.pc = "ack"]
  <2>1. snd[c].pc = "file" /\ snd[c].idx = NFiles + 1 /\ snd' = [snd EXCEPT ![c] = r]
    BY <1>4 DEF SendDone, AllSent
  <2>2. r.pc = "ack" /\ r.off = snd[c].off /\ r.idx = snd[c].idx /\ r.size = snd[c].size
    BY <1>1, Zenon DEF SenderState
  <2> HIDE DEF r
  <2>3. Row(r, transferred[c], obs[c], shown[c], told[c])
    BY <1>1, <2>1, <2>2, QuietRow
  <2> QED
    BY <1>2, <2>1, <2>3, QuietRows
<1>5. CASE Send(c)
  <2> DEFINE sizes == [f \in Files |-> Len(src[f])]
             r == [snd[c] EXCEPT !.pc = "hello", !.size = sizes]
  <2>1. snd[c].pc = "idle" /\ snd' = [snd EXCEPT ![c] = r]
    BY <1>5 DEF Send
  <2> HIDE DEF sizes
  <2>2. r.pc = "hello" /\ r.off = snd[c].off /\ r.idx = snd[c].idx
    BY <1>1, Zenon DEF SenderState
  <2> HIDE DEF r
  <2>3. Row(r, transferred[c], obs[c], shown[c], told[c])
    BY <1>1, <2>1, <2>2, QuietRow DEF Early
  <2> QED
    BY <1>2, <2>1, <2>3, QuietRows
<1>6. CASE Cancel(c)
  <2> DEFINE r == [snd[c] EXCEPT !.cancelled = TRUE]
  <2>1. snd' = [snd EXCEPT ![c] = r]
    BY <1>6 DEF Cancel
  <2>2. /\ r.pc = snd[c].pc /\ r.off = snd[c].off /\ r.idx = snd[c].idx
        /\ r.size = snd[c].size /\ r.pos = snd[c].pos /\ r.cancelled
    BY <1>1, Zenon DEF SenderState
  <2> HIDE DEF r
  <2>3. Row(r, transferred[c], obs[c], shown[c], told[c])
    BY <1>1, <2>2, QuietRow
  <2> QED
    BY <1>2, <2>1, <2>3, QuietRows
<1> QED
  BY <1>3, <1>4, <1>5, <1>6

\* A step of a handler or of the environment.
LEMMA ElsewhereStep ==
    ASSUME Rows, UNCHANGED <<snd, told, observer>>
    PROVE  Rows'
BY DEF Rows, observer

-----------------------------------------------------------------------------
LEMMA InitRows ==
    ASSUME ObservedInit
    PROVE  Rows
<1>1. NoCounters \in Counters /\ NoCounters.sum = 0 /\ \A f \in Files : NoCounters.state[f] = "none"
  BY DEF NoCounters, Counters
<1>2. \A c \in Conns : /\ snd[c].pc = "idle" /\ snd[c].idx = 1
                       /\ \A f \in Files : told[c][f] = None
  BY DEF ObservedInit, Init
<1> QED
  BY <1>1, <1>2 DEF ObservedInit, Rows, Row, Early, Late

LEMMA NextRows ==
    ASSUME TypeInv, TypeInv', Rows, [ObservedNext]_observedVars
    PROVE  Rows'
<1>1. ASSUME NEW c \in Conns, ObservedStep(c) PROVE Rows'
  <2>1. CASE (StartFresh(c) \/ RecvAnswers(c)) /\ Plan(c)
    BY <2>1, PlanStep
  <2>2. CASE SendFileStart(c) /\ FileBegin(c, snd[c].idx)
    BY <2>2, BeginStep
  <2>3. CASE StreamChunk(c) /\ FileProgress(c, snd[c].idx, ChunkSize)
    BY <2>3, ChunkStep
  <2>4. CASE StreamEnd(c) /\ FileEnd(c, snd[c].idx)
    BY <2>4, EndStep
  <2>5. CASE \/ (SourceFails(c) \/ SenderIOError(c)) /\ Failure(c)
             \/ snd[c].pc = "stream" /\ CancelSeen(c) /\ Failure(c)
             \/ CancelBetween(c) /\ Returned(c)
    BY <2>5, FailStep
  <2>6. CASE RecvDoneAck(c) /\ Returned(c)
    BY <2>6, AckedStep
  <2>7. CASE (SendQueries(c) \/ SendDone(c)) /\ UNCHANGED observer
    BY <2>7, QuietStep
  <2>8. CASE SenderIOError(c) /\ FailsAfterLast(c)
    BY <2>8, LastFails
  <2> QED
    BY <1>1, <2>1, <2>2, <2>3, <2>4, <2>5, <2>6, <2>7, <2>8 DEF ObservedStep
<1>2. ASSUME NEW c \in Conns, Send(c) \/ Cancel(c), UNCHANGED observer PROVE Rows'
  BY <1>2, QuietStep
<1>3. ASSUME NEW c \in Conns, HandlerStep(c) \/ LinkFails(c) \/ HandlerDies(c),
             UNCHANGED observer
      PROVE  Rows'
  <2>1. snd' = snd /\ told' = told
    BY <1>3 DEF HandlerStep, LinkFails, HandlerDies, RecvHello, RecvQueries, RecvFileStart,
         HashPrefix, PrefixGone, RecvData, RecvFileDone, ChecksumMismatch, RecvDone,
         HandlerEOF, ghosts
  <2> QED
    BY <1>3, <2>1, ElsewhereStep
<1>4. ASSUME NEW f \in Files, EditSource(f), UNCHANGED observer PROVE Rows'
  <2>1. snd' = snd /\ told' = told
    BY <1>4 DEF EditSource, ghosts
  <2> QED
    BY <1>4, <2>1, ElsewhereStep
<1>5. CASE AtRest /\ UNCHANGED observer
  BY <1>5, ElsewhereStep DEF AtRest, vars, ghosts
<1>6. CASE UNCHANGED observedVars
  BY <1>6, ElsewhereStep DEF observedVars, vars, ghosts
<1> QED
  BY <1>1, <1>2, <1>3, <1>4, <1>5, <1>6 DEF ObservedNext

\* The rows hold of every run of every program that is observed.
LEMMA RowsAlways == ObservedSpec => [](TypeInv /\ Rows)
<1>1. ObservedInit => TypeInv /\ Rows
  BY InitTypeInv, InitRows DEF ObservedInit
<1>2. TypeInv /\ Rows /\ [ObservedNext]_observedVars => (TypeInv /\ Rows)'
  BY ObservedStepIsStep, NextTypeInv, NextRows
<1> QED
  BY <1>1, <1>2, PTL DEF ObservedSpec

\* However a run ends, no file of it is shown as running, and each is shown as it
\* stands: done if its digest was announced, failed if it was under way.
THEOREM NothingLeftRunningAlways == ObservedSpec => []NothingLeftRunning
<1>1. TypeInv /\ Rows => NothingLeftRunning
  <2> SUFFICES ASSUME TypeInv, Rows, NEW c \in Conns, snd[c].pc \in {"ok", "failed"},
                      NEW f \in Files
               PROVE  /\ shown[c].state[f] # "running"
                      /\ shown[c].state[f] = "failed" => snd[c].pc = "failed" /\ f = snd[c].idx
                      /\ shown[c].state[f] = "done" <=> told[c][f] # None
                      /\ snd[c].pc = "failed" /\ f = snd[c].idx /\ ~snd[c].cancelled =>
                            shown[c].state[f] \in {"none", "failed"}
    BY DEF NothingLeftRunning
  <2>1. Row(snd[c], transferred[c], obs[c], shown[c], told[c]) /\ shown[c] = obs[c]
    BY DEF Rows, Row
  <2>2. CASE snd[c].pc = "failed"
    BY <2>1, <2>2 DEF Row, Left
  <2>3. CASE snd[c].pc = "ok"
    <3>1. Stands(snd[c], obs[c], told[c], f) /\ f < snd[c].idx
      BY <2>1, <2>3, CountsAssumption DEF Row, Late, Files
    <3> QED
      BY <2>1, <2>3, <3>1 DEF Stands
  <2> QED
    BY <2>2, <2>3
<1> QED
  BY <1>1, RowsAlways, PTL

\* When Send succeeds, the last counters that were shown are its own: every file
\* done or skipped at its end, and the bytes that were counted (Finish).
THEOREM DoneAgrees == ObservedSpec => [](\A c \in Conns : snd[c].pc = "ok" => CountersAgree(c))
<1>1. TypeInv /\ Rows => \A c \in Conns : snd[c].pc = "ok" => CountersAgree(c)
  <2> SUFFICES ASSUME TypeInv, Rows, NEW c \in Conns, snd[c].pc = "ok"
               PROVE  CountersAgree(c)
    OBVIOUS
  <2>1. /\ Row(snd[c], transferred[c], obs[c], shown[c], told[c])
        /\ shown[c] = obs[c] /\ obs[c].sum = transferred[c]
    BY DEF Rows, Row
  <2>2. ASSUME NEW f \in Files
        PROVE  Stands(snd[c], obs[c], told[c], f) /\ f < snd[c].idx
    BY <2>1, CountsAssumption DEF Row, Late, Files
  <2> QED
    BY <2>1, <2>2 DEF CountersAgree, Stands
<1> QED
  BY <1>1, RowsAlways, PTL

-----------------------------------------------------------------------------
(* The sum of what is to be streamed.                                       *)

\* The loop's sum: there is a function that solves its equation, file by file.
LEMMA ToStreamIs ==
    ASSUME NEW size, NEW off
    PROVE  LET upTo == ToStream(size, off)
           IN  /\ upTo[0] = 0
               /\ \A f \in Files :
                     upTo[f] = upTo[f - 1] + (IF off[f] = Skip THEN 0 ELSE size[f] - off[f])
<1> DEFINE due(f) == IF off[f] = Skip THEN 0 ELSE size[f] - off[f]
           Sums(n, g) == g = [f \in 0..n |-> IF f = 0 THEN 0 ELSE g[f - 1] + due(f)]
           T == {n \in Nat : ~\E g : Sums(n, g)}
<1> HIDE DEF due
<1>1. ASSUME T # {} PROVE FALSE
  <2>1. PICK n \in T : \A m \in T : n <= m
    <3>1. T \in SUBSET Nat
      OBVIOUS
    <3> HIDE DEF T
    <3> QED
      BY <1>1, <3>1, LeastNatural
  <2>2. n \in Nat /\ ~\E g : Sums(n, g)
    OBVIOUS
  <2>3. n # 0
    <3>1. Sums(0, [f \in 0..0 |-> 0])
      OBVIOUS
    <3> HIDE DEF Sums
    <3> QED
      BY <2>2, <3>1
  <2>4. PICK g : Sums(n - 1, g)
    <3>1. n - 1 \in Nat /\ ~(n <= n - 1)
      BY <2>2, <2>3
    <3> HIDE DEF Sums
    <3> QED
      BY <2>1, <3>1
  <2> DEFINE h == [f \in 0..n |-> IF f = n THEN g[n - 1] + due(n) ELSE g[f]]
  <2>5. \A f \in 0..(n - 1) : g[f] = IF f = 0 THEN 0 ELSE g[f - 1] + due(f)
    BY <2>4
  <2>6. \A f \in 0..n : h[f] = IF f = 0 THEN 0 ELSE h[f - 1] + due(f)
    BY <2>2, <2>3, <2>5
  <2>7. Sums(n, h)
    <3> DEFINE k == [f \in 0..n |-> IF f = 0 THEN 0 ELSE h[f - 1] + due(f)]
    <3>1. \A f \in 0..n : h[f] = k[f]
      BY <2>6
    <3>2. h = k
      BY <3>1
    <3> HIDE DEF h
    <3> QED
      BY <3>2
  <2> HIDE DEF Sums, h
  <2> QED
    BY <2>2, <2>7
<1>2. NFiles \in Nat
  BY CountsAssumption
<1>3. \E g : Sums(NFiles, g)
  <2> HIDE DEF Sums
  <2> QED
    BY <1>1, <1>2
<1> DEFINE upTo == ToStream(size, off)
<1>4. upTo = CHOOSE g : Sums(NFiles, g)
  BY DEF ToStream, due
<1>5. Sums(NFiles, upTo)
  <2> HIDE DEF Sums, upTo
  <2> QED
    BY <1>3, <1>4
<1>6. \A f \in 0..NFiles : upTo[f] = IF f = 0 THEN 0 ELSE upTo[f - 1] + due(f)
  <2> HIDE DEF upTo
  <2> QED
    BY <1>5
<1> HIDE DEF upTo
<1>7. /\ upTo[0] = 0
      /\ \A f \in Files : upTo[f] = upTo[f - 1] + due(f)
  BY <1>2, <1>6 DEF Files
<1> QED
  BY <1>7 DEF upTo, due

\* No file is resumed beyond its size.
InBounds(size, off) == \A f \in Files : off[f] # Skip => off[f] <= size[f]

\* The sum never falls from one file to the next, and stays where files are skipped.
LEMMA ToStreamRises ==
    ASSUME NEW size \in [Files -> Nat], NEW off \in [Files -> Offset], InBounds(size, off),
           NEW i \in 0..NFiles, NEW j \in i..NFiles
    PROVE  LET upTo == ToStream(size, off)
           IN  /\ upTo[i] \in Nat /\ upTo[j] \in Nat /\ upTo[i] <= upTo[j]
               /\ (\A k \in (i + 1)..j : off[k] = Skip) => upTo[i] = upTo[j]
<1> DEFINE upTo == ToStream(size, off)
           due(f) == IF off[f] = Skip THEN 0 ELSE size[f] - off[f]
<1>1. NFiles \in Nat
  BY CountsAssumption
<1>2. upTo[0] = 0 /\ \A f \in 1..NFiles : upTo[f] = upTo[f - 1] + due(f)
  BY ToStreamIs DEF Files
<1>3. \A f \in 1..NFiles : due(f) \in Nat /\ (off[f] = Skip => due(f) = 0)
  BY DEF InBounds, Files, Offset, Skip
<1> HIDE DEF upTo, due
<1> DEFINE Good(m) == upTo[m] \in Nat
           T == {m \in 0..NFiles : ~Good(m)}
<1>4. \A m \in 0..NFiles : Good(m)
  <2> SUFFICES ASSUME T # {} PROVE FALSE
    OBVIOUS
  <2>1. PICK m \in T : \A n \in T : m <= n
    <3>1. T \in SUBSET Nat
      BY <1>1
    <3> HIDE DEF T
    <3> QED
      BY <3>1, LeastNatural
  <2>2. m \in 1..NFiles /\ m - 1 \in 0..NFiles /\ ~(m <= m - 1)
    BY <1>1, <1>2, <2>1
  <2>3. upTo[m - 1] \in Nat
    BY <2>1, <2>2
  <2> QED
    BY <1>2, <1>3, <2>1, <2>2, <2>3
<1> DEFINE Same(m) == \A k \in (i + 1)..m : off[k] = Skip
           Above(m) == upTo[i] <= upTo[m] /\ (Same(m) => upTo[i] = upTo[m])
           U == {m \in i..NFiles : ~Above(m)}
<1>5. Above(j)
  <2> SUFFICES ASSUME U # {} PROVE FALSE
    BY <1>1
  <2>1. PICK m \in U : \A n \in U : m <= n
    <3>1. U \in SUBSET Nat
      BY <1>1
    <3> HIDE DEF U
    <3> QED
      BY <3>1, LeastNatural
  <2>2. m \in i..NFiles /\ ~Above(m)
    OBVIOUS
  <2>3. m # i
    BY <1>4
  <2>4. m \in 1..NFiles /\ m - 1 \in i..NFiles /\ ~(m <= m - 1)
    BY <1>1, <2>2, <2>3
  <2>5. Above(m - 1)
    <3> HIDE DEF Above
    <3> QED
      BY <2>1, <2>4
  <2>6. /\ upTo[i] \in Nat /\ upTo[m] \in Nat /\ upTo[m - 1] \in Nat
        /\ upTo[m] = upTo[m - 1] + due(m) /\ due(m) \in Nat
    BY <1>1, <1>2, <1>3, <1>4, <2>4
  <2>7. upTo[i] <= upTo[m]
    BY <2>5, <2>6
  <2>8. Same(m) => Same(m - 1) /\ due(m) = 0
    BY <1>1, <1>3, <2>4
  <2>9. Same(m) => upTo[i] = upTo[m]
    <3> HIDE DEF Same
    <3> QED
      BY <2>5, <2>6, <2>8
  <2> HIDE DEF Same
  <2> QED
    BY <2>2, <2>7, <2>9
<1>6. /\ upTo[i] \in Nat /\ upTo[j] \in Nat
      /\ upTo[i] <= upTo[j] /\ (Same(j) => upTo[i] = upTo[j])
  BY <1>1, <1>4, <1>5
<1> QED
  BY <1>6 DEF upTo

-----------------------------------------------------------------------------
(* What Send knows of its sources, as long as nobody edits one: the sizes are  *)
(* theirs, and no offset that an answer brings is beyond the end of a file.   *)

Asking ==
    {m \in ToReceiver : m.kind = "ResumeQueryBatch" =>
        \A f \in Files : m.queries[f] # None =>
            src[f] # None /\ m.queries[f] = ResumeQuery(Len(src[f]), src[f])}

Answering ==
    {m \in ToSender : m.kind = "ResumeAnswerBatch" =>
        \A f \in Files : m.answers[f] # Skip /\ src[f] # None => m.answers[f] <= Len(src[f])}

Sized(s) ==
    /\ s.pc # "idle" => \A f \in Files : src[f] # None /\ s.size[f] = Len(src[f])
    /\ s.pc \in {"idle", "hello", "query"} => \A f \in Files : s.off[f] = 0
    /\ InBounds(s.size, s.off)
    /\ s.pc = "stream" => s.off[s.idx] <= s.pos /\ s.pos <= s.size[s.idx]

Measured ==
    edits = 0 =>
        /\ toR \in [Conns -> Seq(Asking)]
        /\ toS \in [Conns -> Seq(Answering)]
        /\ \A c \in Conns : Sized(snd[c])

\* A step that gives one sender the state r, and no source another content.
LEMMA MeasuredStep ==
    ASSUME TypeInv, Measured, edits = 0, src' = src, NEW c \in Conns,
           NEW r, snd' = [snd EXCEPT ![c] = r], Sized(r),
           toR' \in [Conns -> Seq(Asking)], toS' \in [Conns -> Seq(Answering)]
    PROVE  Measured'
<1>1. ASSUME NEW d \in Conns PROVE Sized(snd'[d])
  <2>1. CASE d = c
    BY <2>1 DEF TypeInv, TypeOK
  <2>2. CASE d # c
    BY <2>2 DEF Measured, TypeInv, TypeOK
  <2> QED
    BY <2>1, <2>2
<1>2. Asking' = Asking /\ Answering' = Answering
  BY DEF Asking, Answering
<1>3. ASSUME NEW d \in Conns PROVE Sized(snd[d])'
  BY <1>1 DEF Sized
<1> QED
  BY <1>2, <1>3 DEF Measured

\* A step of a handler or of the network.
LEMMA MeasuredElsewhere ==
    ASSUME Measured, edits = 0, src' = src, snd' = snd,
           toR' \in [Conns -> Seq(Asking)], toS' \in [Conns -> Seq(Answering)]
    PROVE  Measured'
<1>1. Asking' = Asking /\ Answering' = Answering
  BY DEF Asking, Answering
<1>2. ASSUME NEW d \in Conns PROVE Sized(snd[d])'
  BY DEF Measured, Sized
<1> QED
  BY <1>1, <1>2 DEF Measured

\* Frames that are neither queries nor answers.
LEMMA OtherFrames ==
    /\ Hello \in Asking /\ Done \in Asking /\ DoneAck \in Answering
    /\ \A f \in Files, n \in Nat : FileStart(f, n) \in Asking
    /\ \A f \in Files, x \in File : Data(f, x) \in Asking /\ FileDone(f, x) \in Asking
    /\ \A have \in [Files -> Nat] : HelloAck(have) \in Answering
BY DEF Asking, Answering, ToReceiver, ToSender, Hello, Done, DoneAck, FileStart, Data, FileDone,
       HelloAck

\* What is known of a sender.
LEMMA KnownSender ==
    ASSUME TypeInv, Measured, edits = 0, NEW c \in Conns
    PROVE  /\ snd[c] \in SenderState /\ SenderSound(snd[c]) /\ Sized(snd[c])
           /\ toR \in [Conns -> Seq(Asking)] /\ toS \in [Conns -> Seq(Answering)]
           /\ \A p : [snd EXCEPT ![c].pc = p] = [snd EXCEPT ![c] = [snd[c] EXCEPT !.pc = p]]
BY DEF TypeInv, TypeOK, Measured

\* A sender that goes on, but not into a file.
LEMMA SizedMoves ==
    ASSUME NEW s \in SenderState, Sized(s), NEW p,
           \/ p \in {"file", "ack", "ok", "failed"} /\ s.pc # "idle"
           \/ p = "query" /\ s.pc = "hello"
    PROVE  Sized([s EXCEPT !.pc = p])
<1> DEFINE r == [s EXCEPT !.pc = p]
<1>1. r.pc = p /\ r.size = s.size /\ r.off = s.off
  BY DEF SenderState
<1> HIDE DEF r
<1>2. Sized(r)
  BY <1>1 DEF Sized
<1> QED
  BY <1>2 DEF r

LEMMA EndMeasured ==
    ASSUME TypeInv, Measured, edits = 0, NEW c \in Conns, snd[c].pc # "idle",
           NEW how \in {"ok", "failed"}, SenderEnds(c, how),
           UNCHANGED <<src, toR>>
    PROVE  Measured'
<1> DEFINE r == [snd[c] EXCEPT !.pc = how]
<1>1. snd' = [snd EXCEPT ![c] = r] /\ toS' = [toS EXCEPT ![c] = <<>>]
  BY KnownSender DEF SenderEnds
<1>2. Sized(r)
  BY KnownSender, SizedMoves
<1> HIDE DEF r
<1>3. toS' \in [Conns -> Seq(Answering)]
  BY <1>1, KnownSender
<1> QED
  BY <1>1, <1>2, <1>3, KnownSender, MeasuredStep

LEMMA HandshakeMeasured ==
    ASSUME TypeInv, Measured, edits = 0, NEW c \in Conns,
           StartFresh(c) \/ SendQueries(c) \/ RecvAnswers(c)
    PROVE  Measured'
<1> DEFINE s == snd[c]
<1>1. /\ s \in SenderState /\ Sized(s)
      /\ toR \in [Conns -> Seq(Asking)] /\ toS \in [Conns -> Seq(Answering)]
  BY KnownSender
<1>2. /\ src' = src /\ toS[c] # <<>>
      /\ toS' = [toS EXCEPT ![c] = Tail(toS[c])]
      /\ s.pc \in {"hello", "query"}
  BY DEF StartFresh, SendQueries, RecvAnswers
<1>3. toS' \in [Conns -> Seq(Answering)] /\ Head(toS[c]) \in Answering
  BY <1>1, <1>2, Reading
<1>4. CASE StartFresh(c)
  <2> DEFINE r == [s EXCEPT !.pc = "file"]
  <2>1. snd' = [snd EXCEPT ![c] = r] /\ toR' = toR
    BY <1>4, KnownSender DEF StartFresh
  <2>2. Sized(r)
    BY <1>1, <1>2, SizedMoves
  <2> HIDE DEF r
  <2> QED
    BY <1>1, <1>2, <1>3, <2>1, <2>2, MeasuredStep
<1>5. CASE SendQueries(c)
  <2> DEFINE r == [s EXCEPT !.pc = "query"]
             asked == Candidates(Head(toS[c]).have)
             batch == [f \in Files |->
                 IF f \in asked THEN ResumeQuery(s.size[f], src[f]) ELSE None]
  <2>1. /\ snd' = [snd EXCEPT ![c] = r] /\ s.pc = "hello"
        /\ toR' = [toR EXCEPT ![c] = Put(c, toR, <<QueryBatch(batch)>>)]
    BY <1>5, KnownSender DEF SendQueries
  <2>2. Sized(r)
    BY <1>1, <2>1, SizedMoves
  <2> HIDE DEF r, asked
  <2>3. ASSUME NEW f \in Files
        PROVE  /\ src[f] # None /\ src[f] \in File
               /\ ResumeQuery(s.size[f], src[f]) = ResumeQuery(Len(src[f]), src[f])
               /\ ResumeQuery(Len(src[f]), src[f]) \in Query
    <3>1. src[f] # None /\ s.size[f] = Len(src[f])
      BY <1>1, <2>1 DEF Sized
    <3>2. src[f] \in File /\ Len(src[f]) \in Nat
      BY <3>1, LenProperties DEF TypeInv, TypeOK, File
    <3> QED
      BY <3>1, <3>2, ResumeQueryType
  <2>4. batch \in [Files -> Query \cup {None}]
    BY <2>3
  <2>5. \A f \in Files : batch[f] # None =>
           src[f] # None /\ batch[f] = ResumeQuery(Len(src[f]), src[f])
    BY <2>3
  <2> HIDE DEF batch
  <2>6. QueryBatch(batch) \in Asking
    BY <2>4, <2>5 DEF QueryBatch, Asking, ToReceiver
  <2>7. toR' \in [Conns -> Seq(Asking)]
    <3>1. <<QueryBatch(batch)>> \in Seq(Asking)
      BY <2>6
    <3> QED
      BY <1>1, <2>1, <3>1, Writing
  <2> QED
    BY <1>2, <1>3, <2>1, <2>2, <2>7, MeasuredStep
<1>6. CASE RecvAnswers(c)
  <2> DEFINE answers == Head(toS[c]).answers
             r == [s EXCEPT !.pc = "file", !.off = answers, !.idx = NextFile(answers, 1)]
  <2>1. snd' = [snd EXCEPT ![c] = r] /\ toR' = toR /\ Head(toS[c]).kind = "ResumeAnswerBatch"
    BY <1>6 DEF RecvAnswers
  <2>2. \A f \in Files : answers[f] # Skip /\ src[f] # None => answers[f] <= Len(src[f])
    BY <1>3, <2>1 DEF Answering
  <2> HIDE DEF answers
  <2>3. r.pc = "file" /\ r.off = answers /\ r.size = s.size
    BY <1>1, Zenon DEF SenderState
  <2> HIDE DEF r
  <2>4. Sized(r)
    <3>1. \A f \in Files : src[f] # None /\ r.size[f] = Len(src[f])
      BY <1>1, <1>2, <2>3 DEF Sized
    <3> QED
      BY <2>2, <2>3, <3>1 DEF Sized, InBounds
  <2> QED
    BY <1>1, <1>2, <1>3, <2>1, <2>4, MeasuredStep
<1> QED
  BY <1>4, <1>5, <1>6

\* The place of a sender in the file it has open.
LEMMA KnownPlace ==
    ASSUME TypeInv, Measured, edits = 0, NEW c \in Conns, snd[c].pc \in {"file", "stream"},
           snd[c].idx \in Files
    PROVE  LET s == snd[c]
               f == s.idx
           IN  /\ f \in Nat /\ src[f] \in File /\ s.size[f] = Len(src[f]) /\ Len(src[f]) \in Nat
               /\ s.off[f] \in Nat /\ s.pos \in Nat /\ s.hash \in File
               /\ s.off[f] <= s.size[f]
               /\ s.pc = "stream" => s.off[f] <= s.pos /\ s.pos <= s.size[f]
<1> DEFINE s == snd[c]
           f == s.idx
<1>1. /\ s \in SenderState /\ s.off[f] # Skip /\ Sized(s) /\ f \in Files
  BY KnownSender DEF SenderSound
<1>2. src[f] # None /\ s.size[f] = Len(src[f]) /\ s.off[f] <= s.size[f]
  BY <1>1 DEF Sized, InBounds
<1>3. src[f] \in File
  BY <1>1, <1>2 DEF TypeInv, TypeOK
<1>4. Len(src[f]) \in Nat
  BY <1>3, LenProperties DEF File
<1>5. s.off[f] \in Nat /\ s.pos \in Nat /\ s.hash \in File /\ f \in Nat
  <2>1. s.off \in [Files -> Offset] /\ s.pos \in Nat /\ s.hash \in File
    BY <1>1, Zenon DEF SenderState
  <2>2. f \in Nat
    BY <1>1 DEF Files
  <2> HIDE DEF f
  <2>3. s.off[f] \in Nat
    BY <1>1, <2>1 DEF Offset
  <2> QED
    BY <2>1, <2>2, <2>3
<1> QED
  BY <1>1, <1>2, <1>3, <1>4, <1>5 DEF Sized

LEMMA FilesMeasured ==
    ASSUME TypeInv, TypeInv', Measured, edits = 0, NEW c \in Conns,
           SendFileStart(c) \/ StreamChunk(c) \/ StreamEnd(c) \/ SendDone(c)
    PROVE  Measured'
<1> DEFINE s == snd[c]
           f == s.idx
<1>1. /\ s \in SenderState /\ Sized(s) /\ SenderSound(s)
      /\ toR \in [Conns -> Seq(Asking)] /\ toS \in [Conns -> Seq(Answering)]
  BY KnownSender
<1>2. src' = src /\ toS' = toS /\ s.pc \in {"file", "stream"}
  BY DEF SendFileStart, StreamChunk, StreamEnd, SendDone
<1>3. CASE SendFileStart(c)
  <2> DEFINE r == [s EXCEPT !.pc = "stream", !.pos = s.off[f], !.hash = PrefixDigest(f, s.off[f])]
  <2>1. /\ snd' = [snd EXCEPT ![c] = r] /\ f \in Files
        /\ toR' = [toR EXCEPT ![c] = Put(c, toR, <<FileStart(f, s.off[f])>>)]
    BY <1>3 DEF SendFileStart
  <2>2. s.off[f] \in Nat /\ s.off[f] <= s.size[f]
    BY <1>2, <2>1, KnownPlace
  <2>3. toR' \in [Conns -> Seq(Asking)]
    <3>1. <<FileStart(f, s.off[f])>> \in Seq(Asking)
      BY <2>1, <2>2, OtherFrames
    <3> QED
      BY <1>1, <2>1, <3>1, Writing
  <2>4. r.pc = "stream" /\ r.off = s.off /\ r.size = s.size /\ r.idx = f /\ r.pos = s.off[f]
    BY <1>1, Zenon DEF SenderState
  <2> HIDE DEF r
  <2>5. Sized(r)
    BY <1>1, <1>2, <2>2, <2>4 DEF Sized
  <2> QED
    BY <1>1, <1>2, <2>1, <2>3, <2>5, MeasuredStep
<1>4. CASE StreamChunk(c)
  <2> DEFINE data == SubSeq(src[f], s.pos + 1, s.pos + ChunkSize)
             r == [s EXCEPT !.pos = s.pos + ChunkSize, !.hash = s.hash \o data]
  <2>1. /\ snd' = [snd EXCEPT ![c] = r] /\ s.pc = "stream" /\ f \in Files
        /\ toR' = [toR EXCEPT ![c] = Put(c, toR, <<Data(f, data)>>)]
        /\ Len(src[f]) - s.pos >= ChunkSize
    BY <1>1, <1>4 DEF StreamChunk, SenderSound, Unread
  <2>2. /\ src[f] \in File /\ s.size[f] = Len(src[f]) /\ Len(src[f]) \in Nat
        /\ s.off[f] \in Nat /\ s.pos \in Nat /\ s.off[f] <= s.pos
    BY <1>2, <2>1, KnownPlace
  <2>3. s.pos + ChunkSize <= s.size[f] /\ s.off[f] <= s.pos + ChunkSize
    BY <2>1, <2>2, ChunkSizeAssumption
  <2>4. data \in File
    <3>1. \A i \in (s.pos + 1)..(s.pos + ChunkSize) : src[f][i] \in Byte
      BY <2>2, <2>3, ElementOfSeq, ChunkSizeAssumption DEF File
    <3> QED
      BY <2>2, <3>1, SubSeqProperties, ChunkSizeAssumption DEF File
  <2> HIDE DEF data
  <2>5. toR' \in [Conns -> Seq(Asking)]
    <3>1. <<Data(f, data)>> \in Seq(Asking)
      BY <2>1, <2>4, OtherFrames
    <3> QED
      BY <1>1, <2>1, <3>1, Writing
  <2>6. /\ r.pc = "stream" /\ r.off = s.off /\ r.size = s.size /\ r.idx = f
        /\ r.pos = s.pos + ChunkSize
    BY <1>1, <2>1, Zenon DEF SenderState
  <2> HIDE DEF r
  <2>7. Sized(r)
    BY <1>1, <2>1, <2>3, <2>6 DEF Sized
  <2> QED
    BY <1>1, <1>2, <2>1, <2>5, <2>7, MeasuredStep
<1>5. CASE StreamEnd(c)
  <2> DEFINE rest == SubSeq(src[f], s.pos + 1, Len(src[f]))
             sum == s.hash \o rest
             frames == IF rest = <<>> THEN <<>> ELSE <<Data(f, rest)>>
             r == [s EXCEPT !.pc = "file", !.idx = NextFile(s.off, f + 1)]
  <2>1. /\ snd' = [snd EXCEPT ![c] = r] /\ s.pc = "stream" /\ f \in Files
        /\ toR' = [toR EXCEPT ![c] = Put(c, toR, Append(frames, FileDone(f, sum)))]
    BY <1>1, <1>5 DEF StreamEnd, SenderSound
  <2>2. /\ src[f] \in File /\ Len(src[f]) \in Nat /\ s.pos \in Nat /\ s.hash \in File
    BY <1>2, <2>1, KnownPlace
  <2>3. rest \in File /\ sum \in File
    <3>1. \A i \in (s.pos + 1)..Len(src[f]) : src[f][i] \in Byte
      BY <2>2, ElementOfSeq DEF File
    <3>2. rest \in File
      BY <2>2, <3>1, SubSeqProperties DEF File
    <3> QED
      BY <2>2, <3>2, ConcatProperties DEF File
  <2>4. r.pc = "file" /\ r.off = s.off /\ r.size = s.size
    BY <1>1, Zenon DEF SenderState
  <2> HIDE DEF rest, sum, r
  <2>5. toR' \in [Conns -> Seq(Asking)]
    <3>1. FileDone(f, sum) \in Asking /\ Data(f, rest) \in Asking
      BY <2>1, <2>3, OtherFrames
    <3>2. Append(frames, FileDone(f, sum)) \in Seq(Asking)
      BY <3>1
    <3> HIDE DEF frames
    <3> QED
      BY <1>1, <2>1, <3>2, Writing
  <2>6. Sized(r)
    BY <1>1, <2>1, <2>4 DEF Sized
  <2> QED
    BY <1>1, <1>2, <2>1, <2>5, <2>6, MeasuredStep
<1>6. CASE SendDone(c)
  <2> DEFINE r == [s EXCEPT !.pc = "ack"]
  <2>1. /\ snd' = [snd EXCEPT ![c] = r] /\ s.pc = "file"
        /\ toR' = [toR EXCEPT ![c] = Put(c, toR, <<Done>>)]
    BY <1>6, KnownSender DEF SendDone
  <2>2. Sized(r)
    BY <1>1, <2>1, SizedMoves
  <2> HIDE DEF r
  <2>3. toR' \in [Conns -> Seq(Asking)]
    <3>1. <<Done>> \in Seq(Asking)
      BY OtherFrames
    <3> QED
      BY <1>1, <2>1, <3>1, Writing
  <2> QED
    BY <1>1, <1>2, <2>1, <2>2, <2>3, MeasuredStep
<1> QED
  BY <1>3, <1>4, <1>5, <1>6

\* A step that ends a run.
LEMMA EndsMeasured ==
    ASSUME TypeInv, Measured, edits = 0, NEW c \in Conns,
           SourceFails(c) \/ CancelSeen(c) \/ RecvDoneAck(c) \/ SenderIOError(c)
    PROVE  Measured'
<1>1. /\ src' = src /\ toR' = toR /\ snd[c].pc # "idle"
      /\ SenderEnds(c, "ok") \/ SenderEnds(c, "failed")
  BY DEF SourceFails, CancelSeen, RecvDoneAck, SenderIOError, Senders
<1> QED
  BY <1>1, EndMeasured

\* Send measures every source.
LEMMA SendMeasured ==
    ASSUME TypeInv, Measured, edits = 0, NEW c \in Conns, Send(c)
    PROVE  Measured'
<1> DEFINE s == snd[c]
           sizes == [f \in Files |-> Len(src[f])]
           r == [s EXCEPT !.pc = "hello", !.size = sizes]
<1>1. /\ s \in SenderState /\ Sized(s)
      /\ toR \in [Conns -> Seq(Asking)] /\ toS \in [Conns -> Seq(Answering)]
  BY KnownSender
<1>2. /\ src' = src /\ toS' = toS /\ s.pc = "idle" /\ Present = Files
      /\ snd' = [snd EXCEPT ![c] = r]
      /\ toR' = [toR EXCEPT ![c] = <<Hello>>]
  BY DEF Send
<1>3. \A f \in Files : src[f] # None /\ Len(src[f]) \in Nat
  <2>1. \A f \in Files : src[f] # None /\ src[f] \in File
    BY <1>2 DEF Present, TypeInv, TypeOK
  <2> QED
    BY <2>1, LenProperties DEF File
<1>4. \A f \in Files : sizes[f] = Len(src[f])
  OBVIOUS
<1> HIDE DEF sizes
<1>5. r.pc = "hello" /\ r.size = sizes /\ r.off = s.off
  BY <1>1, Zenon DEF SenderState
<1> HIDE DEF r
<1>6. Sized(r)
  <2>1. \A f \in Files : r.off[f] = 0 /\ r.size[f] = Len(src[f])
    BY <1>1, <1>2, <1>4, <1>5 DEF Sized
  <2> QED
    BY <1>3, <1>5, <2>1 DEF Sized, InBounds
<1>7. toR' \in [Conns -> Seq(Asking)]
  <2>1. <<Hello>> \in Seq(Asking)
    BY OtherFrames
  <2> QED
    BY <1>1, <1>2, <2>1
<1> QED
  BY <1>1, <1>2, <1>6, <1>7, MeasuredStep

LEMMA CancelMeasured ==
    ASSUME TypeInv, Measured, edits = 0, NEW c \in Conns, Cancel(c)
    PROVE  Measured'
<1> DEFINE r == [snd[c] EXCEPT !.cancelled = TRUE]
<1>1. /\ src' = src /\ toR' = toR /\ toS' = toS /\ snd' = [snd EXCEPT ![c] = r]
  BY DEF Cancel, wires
<1>2. /\ r.pc = snd[c].pc /\ r.size = snd[c].size /\ r.off = snd[c].off
      /\ r.idx = snd[c].idx /\ r.pos = snd[c].pos
  BY KnownSender, Zenon DEF SenderState
<1> HIDE DEF r
<1>3. Sized(r)
  BY <1>2, KnownSender DEF Sized
<1> QED
  BY <1>1, <1>3, KnownSender, MeasuredStep

\* matchResume offers nothing beyond the end of the file that was asked about.
LEMMA AnswersWithin ==
    ASSUME NEW d \in File \cup {None}, NEW x \in File,
           NEW q, q = ResumeQuery(Len(x), x), Resolved(matchResume(d, q)) # Skip
    PROVE  Resolved(matchResume(d, q)) <= Len(x)
<1>1. q \in Query /\ q.Size = Len(x) /\ Len(x) \in Nat
  BY LenProperties, ResumeQueryType DEF File, ResumeQuery
<1>2. ~matchResume(d, q).complete /\ Resolved(matchResume(d, q)) = matchResume(d, q).offset
  BY DEF Resolved
<1>3. CASE d = None
  BY <1>1, <1>2, <1>3 DEF matchResume
<1>4. CASE d # None
  <2>1. MatchedBytes(d, q) <= Len(x)
    BY <1>1, <1>4, ResumePointIsShared
  <2>2. matchResume(d, q).offset = MatchedBytes(d, q)
    BY <1>2, <1>4 DEF matchResume
  <2> QED
    BY <1>2, <2>1, <2>2
<1> QED
  BY <1>3, <1>4

\* A handler reads frames, and answers what it was asked.
LEMMA HandlerMeasured ==
    ASSUME TypeInv, Measured, edits = 0, NEW c \in Conns, HandlerStep(c)
    PROVE  Measured'
<1>1. toR \in [Conns -> Seq(Asking)] /\ toS \in [Conns -> Seq(Answering)]
  BY KnownSender
<1>2. src' = src /\ snd' = snd
  BY DEF HandlerStep, RecvHello, RecvQueries, RecvFileStart, HashPrefix, PrefixGone, RecvData,
         RecvFileDone, ChecksumMismatch, RecvDone, HandlerEOF
<1>3. ASSUME toR[c] # <<>> PROVE [toR EXCEPT ![c] = Tail(toR[c])] \in [Conns -> Seq(Asking)]
  BY <1>1, <1>3, Reading
<1>4. [toR EXCEPT ![c] = <<>>] \in [Conns -> Seq(Asking)]
  BY <1>1
<1>5. CASE RecvHello(c)
  <2> DEFINE have == [f \in Files |-> IF dest[f] = None THEN 0 ELSE Len(dest[f])]
  <2>1. /\ toR[c] # <<>> /\ toR' = [toR EXCEPT ![c] = Tail(toR[c])]
        /\ toS' = [toS EXCEPT ![c] = Put(c, toS, <<HelloAck(have)>>)]
    BY <1>5 DEF RecvHello, Incoming
  <2>2. have \in [Files -> Nat]
    <3>1. \A f \in Files : dest[f] # None => Len(dest[f]) \in Nat
      BY LenProperties DEF TypeInv, TypeOK, File
    <3> QED
      BY <3>1
  <2> HIDE DEF have
  <2>3. <<HelloAck(have)>> \in Seq(Answering)
    BY <2>2, OtherFrames
  <2> QED
    BY <1>1, <1>2, <1>3, <2>1, <2>3, Writing, MeasuredElsewhere
<1>6. CASE RecvQueries(c)
  <2> DEFINE queries == Head(toR[c]).queries
             answers == [f \in Files |->
                IF queries[f] = None THEN 0
                ELSE Resolved(matchResume(dest[f], queries[f]))]
  <2>1. /\ toR[c] # <<>> /\ toR' = [toR EXCEPT ![c] = Tail(toR[c])]
        /\ Head(toR[c]).kind = "ResumeQueryBatch"
        /\ toS' = [toS EXCEPT ![c] = Put(c, toS, <<AnswerBatch(answers)>>)]
    BY <1>6 DEF RecvQueries, Incoming
  <2>2. Head(toR[c]) \in Asking
    BY <1>1, <2>1, Reading
  <2>3. /\ queries \in [Files -> Query \cup {None}]
        /\ \A f \in Files : queries[f] # None =>
              src[f] # None /\ queries[f] = ResumeQuery(Len(src[f]), src[f])
    BY <2>1, <2>2, FrameFields DEF Asking
  <2> HIDE DEF queries
  <2>4. ASSUME NEW f \in Files
        PROVE  /\ answers[f] \in Offset
               /\ answers[f] # Skip /\ src[f] # None => answers[f] <= Len(src[f])
    <3>1. dest[f] \in File \cup {None} /\ src[f] \in File \cup {None}
      BY DEF TypeInv, TypeOK
    <3>2. CASE queries[f] = None
      <4>1. src[f] # None => Len(src[f]) \in Nat
        BY <3>1, LenProperties DEF File
      <4> QED
        BY <3>2, <4>1 DEF Offset
    <3>3. CASE queries[f] # None
      <4>1. answers[f] = Resolved(matchResume(dest[f], queries[f]))
        BY <3>3
      <4>2. src[f] \in File /\ queries[f] = ResumeQuery(Len(src[f]), src[f]) /\ queries[f] \in Query
        BY <2>3, <3>1, <3>3
      <4>3. answers[f] # Skip => answers[f] <= Len(src[f])
        BY <3>1, <4>1, <4>2, AnswersWithin
      <4>4. answers[f] \in Offset
        BY <3>1, <4>1, <4>2, matchResumeType DEF Resolved, Offset
      <4> QED
        BY <4>3, <4>4
    <3> QED
      BY <3>2, <3>3
  <2>5. answers \in [Files -> Offset]
    BY <2>4
  <2> HIDE DEF answers
  <2>6. AnswerBatch(answers) \in Answering
    BY <2>4, <2>5 DEF AnswerBatch, Answering, ToSender
  <2>7. <<AnswerBatch(answers)>> \in Seq(Answering)
    BY <2>6
  <2> QED
    BY <1>1, <1>2, <1>3, <2>1, <2>7, Writing, MeasuredElsewhere
<1>7. CASE RecvFileStart(c) \/ RecvData(c) \/ RecvFileDone(c)
  <2>1. toR[c] # <<>> /\ toR' = [toR EXCEPT ![c] = Tail(toR[c])] /\ toS' = toS
    BY <1>7 DEF RecvFileStart, RecvData, RecvFileDone, Incoming
  <2> QED
    BY <1>1, <1>2, <1>3, <2>1, MeasuredElsewhere
<1>8. CASE HashPrefix(c)
  BY <1>1, <1>2, <1>8, MeasuredElsewhere DEF HashPrefix, wires
<1>9. CASE PrefixGone(c) \/ ChecksumMismatch(c) \/ HandlerEOF(c)
  <2>1. toR' = [toR EXCEPT ![c] = <<>>] /\ toS' = toS
    BY <1>9 DEF PrefixGone, ChecksumMismatch, HandlerEOF, HandlerEnds
  <2> QED
    BY <1>1, <1>2, <1>4, <2>1, MeasuredElsewhere
<1>10. CASE RecvDone(c)
  <2>1. toR' = [toR EXCEPT ![c] = <<>>] /\ toS' = [toS EXCEPT ![c] = Put(c, toS, <<DoneAck>>)]
    BY <1>10 DEF RecvDone, HandlerEnds
  <2>2. <<DoneAck>> \in Seq(Answering)
    BY OtherFrames
  <2> QED
    BY <1>1, <1>2, <1>4, <2>1, <2>2, Writing, MeasuredElsewhere
<1> QED
  BY <1>5, <1>6, <1>7, <1>8, <1>9, <1>10 DEF HandlerStep

LEMMA FaultMeasured ==
    ASSUME TypeInv, Measured, edits = 0, NEW c \in Conns, LinkFails(c) \/ HandlerDies(c)
    PROVE  Measured'
<1>1. toR \in [Conns -> Seq(Asking)] /\ toS \in [Conns -> Seq(Answering)]
  BY KnownSender
<1>2. src' = src /\ snd' = snd
  BY DEF LinkFails, HandlerDies
<1>3. ASSUME NEW S, NEW w \in Seq(S), NEW n \in 0..Len(w) PROVE Prefix(w, n) \in Seq(S)
  <2>1. \A i \in 1..n : w[i] \in S
    BY <1>3, ElementOfSeq
  <2> QED
    BY <1>3, <2>1, SubSeqProperties DEF Prefix
<1>4. CASE LinkFails(c)
  <2>1. PICK m \in 0..Len(toR[c]), n \in 0..Len(toS[c]) :
          toR' = [toR EXCEPT ![c] = Prefix(toR[c], m)] /\ toS' = [toS EXCEPT ![c] = Prefix(toS[c], n)]
    BY <1>4 DEF LinkFails
  <2>2. Prefix(toR[c], m) \in Seq(Asking) /\ Prefix(toS[c], n) \in Seq(Answering)
    BY <1>1, <1>3
  <2> QED
    BY <1>1, <1>2, <2>1, <2>2, MeasuredElsewhere
<1>5. CASE HandlerDies(c)
  <2>1. toR' = [toR EXCEPT ![c] = <<>>] /\ toS' = toS
    BY <1>5 DEF HandlerDies, HandlerEnds
  <2> QED
    BY <1>1, <1>2, <2>1, MeasuredElsewhere
<1> QED
  BY <1>4, <1>5

LEMMA InitMeasured == Init => Measured
<1> SUFFICES ASSUME Init PROVE Measured
  OBVIOUS
<1>1. ASSUME NEW c \in Conns PROVE Sized(snd[c])
  <2>1. /\ snd[c].pc = "idle" /\ \A f \in Files : snd[c].off[f] = 0 /\ snd[c].size[f] = 0
    BY DEF Init
  <2> QED
    BY <2>1 DEF Sized, InBounds
<1>2. toR \in [Conns -> Seq(Asking)] /\ toS \in [Conns -> Seq(Answering)]
  <2>1. <<>> \in Seq(Asking) /\ <<>> \in Seq(Answering)
    OBVIOUS
  <2> QED
    BY <2>1 DEF Init
<1> QED
  BY <1>1, <1>2 DEF Measured

\* An edit ends what is said of runs without one.
LEMMA EditsStay ==
    ASSUME TypeInv, [Next]_vars, edits' = 0
    PROVE  edits = 0 /\ src' = src /\ ~\E f \in Files : EditSource(f)
<1>1. edits \in Nat
  BY CountsAssumption DEF TypeInv, TypeOK
<1>2. ASSUME NEW f \in Files, EditSource(f) PROVE FALSE
  BY <1>1, <1>2 DEF EditSource
<1>3. ASSUME NEW c \in Conns, SenderStep(c) PROVE edits' = edits /\ src' = src
  BY <1>3 DEF SenderStep, StartFresh, SendQueries, RecvAnswers, SendFileStart, SourceFails,
       StreamChunk, StreamEnd, CancelSeen, SendDone, RecvDoneAck, SenderIOError
<1>4. ASSUME NEW c \in Conns, HandlerStep(c) PROVE edits' = edits /\ src' = src
  BY <1>4 DEF HandlerStep, RecvHello, RecvQueries, RecvFileStart, HashPrefix, PrefixGone,
       RecvData, RecvFileDone, ChecksumMismatch, RecvDone, HandlerEOF
<1>5. ASSUME NEW c \in Conns, Send(c) \/ LinkFails(c) \/ HandlerDies(c) \/ Cancel(c)
      PROVE  edits' = edits /\ src' = src
  BY <1>5 DEF Send, LinkFails, HandlerDies, Cancel
<1>6. CASE AtRest \/ UNCHANGED vars
  BY <1>2, <1>6 DEF AtRest, vars
<1> QED
  BY <1>2, <1>3, <1>4, <1>5, <1>6 DEF Next

LEMMA NextMeasured == TypeInv /\ TypeInv' /\ Measured /\ [Next]_vars => Measured'
<1> SUFFICES ASSUME TypeInv, TypeInv', Measured, [Next]_vars, edits' = 0 PROVE Measured'
  BY DEF Measured
<1>1. edits = 0 /\ ~\E f \in Files : EditSource(f)
  BY EditsStay
<1>2. ASSUME NEW c \in Conns, SenderStep(c) PROVE Measured'
  BY <1>1, <1>2, HandshakeMeasured, FilesMeasured, EndsMeasured DEF SenderStep
<1>3. ASSUME NEW c \in Conns, Send(c) \/ Cancel(c) PROVE Measured'
  BY <1>1, <1>3, SendMeasured, CancelMeasured
<1>4. ASSUME NEW c \in Conns, HandlerStep(c) \/ LinkFails(c) \/ HandlerDies(c) PROVE Measured'
  BY <1>1, <1>4, HandlerMeasured, FaultMeasured
<1>5. CASE AtRest \/ UNCHANGED vars
  <2>1. src' = src /\ snd' = snd /\ toR' = toR /\ toS' = toS
    BY <1>5 DEF AtRest, vars, wires
  <2> QED
    BY <1>1, <2>1, MeasuredElsewhere DEF Measured
<1> QED
  BY <1>1, <1>2, <1>3, <1>4, <1>5 DEF Next

-----------------------------------------------------------------------------
(* The bars: how far the counters o of a run, and those shown last, sh, are, as  *)
(* long as nobody edits a source.                                          *)

\* What a run in the state s has streamed.
Behind(s) ==
    ToStream(s.size, s.off)[s.idx - 1]
        + (IF s.pc = "stream" THEN s.pos - s.off[s.idx] ELSE 0)

Bar(s, o, sh) ==
    /\ sh.sum <= o.sum /\ o.sum <= ToStream(s.size, s.off)[NFiles]
    /\ \A f \in Files : sh.sent[f] <= o.sent[f] /\ o.sent[f] <= s.size[f]
    /\ s.pc \in Early => \A f \in Files : o.sent[f] = 0
    /\ s.pc \in Late => o.sum = Behind(s)

Bars == edits = 0 => \A c \in Conns : Bar(snd[c], obs[c], shown[c])

\* A step takes the counters of run c up, and shows them or nothing new.
Climbs(c) ==
    /\ obs'[c].sum >= obs[c].sum
    /\ \A f \in Files : obs'[c].sent[f] >= obs[c].sent[f]
    /\ shown'[c] \in {shown[c], obs'[c]}

\* What is known of a run.
LEMMA KnownBar ==
    ASSUME TypeInv, Rows, Measured, Bars, edits = 0, NEW c \in Conns
    PROVE  LET s == snd[c]
               o == obs[c]
           IN  /\ s \in SenderState /\ SenderSound(s) /\ Sized(s)
               /\ s.idx \in 1..(NFiles + 1) /\ NFiles \in Nat
               /\ s.size \in [Files -> Nat] /\ s.off \in [Files -> Offset]
               /\ InBounds(s.size, s.off)
               /\ o \in Counters /\ shown[c] \in Counters
               /\ o.sum \in Nat /\ shown[c].sum \in Nat
               /\ \A f \in Files : o.sent[f] \in Nat /\ shown[c].sent[f] \in Nat
               /\ o.sum = transferred[c]
               /\ Row(s, transferred[c], o, shown[c], told[c])
               /\ Bar(s, o, shown[c])
<1>1. /\ snd[c] \in SenderState /\ SenderSound(snd[c])
      /\ obs[c] \in Counters /\ shown[c] \in Counters
      /\ Row(snd[c], transferred[c], obs[c], shown[c], told[c])
  BY KnownRow
<1>2. Sized(snd[c])
  BY KnownSender
<1>3. /\ snd[c].idx \in 1..(NFiles + 1)
      /\ snd[c].size \in [Files -> Nat] /\ snd[c].off \in [Files -> Offset]
  BY <1>1, Zenon DEF SenderState
<1>4. /\ obs[c].sum \in Nat /\ shown[c].sum \in Nat
      /\ \A f \in Files : obs[c].sent[f] \in Nat /\ shown[c].sent[f] \in Nat
  BY <1>1 DEF Counters
<1>5. obs[c].sum = transferred[c]
  BY <1>1 DEF Row
<1>6. Bar(snd[c], obs[c], shown[c])
  BY DEF Bars
<1>7. InBounds(snd[c].size, snd[c].off)
  BY <1>2 DEF Sized
<1> QED
  BY <1>1, <1>2, <1>3, <1>4, <1>5, <1>6, <1>7, CountsAssumption

\* What has been streamed is part of what there is to stream.
LEMMA BehindBounded ==
    ASSUME NEW s \in SenderState, SenderSound(s), Sized(s)
    PROVE  /\ Behind(s) \in Nat
           /\ Behind(s) <= ToStream(s.size, s.off)[NFiles]
           /\ ToStream(s.size, s.off)[NFiles] \in Nat
<1> DEFINE upTo == ToStream(s.size, s.off)
           f == s.idx
<1>1. /\ f \in 1..(NFiles + 1) /\ NFiles \in Nat
      /\ s.size \in [Files -> Nat] /\ s.off \in [Files -> Offset] /\ s.pos \in Nat
  BY CountsAssumption, Zenon DEF SenderState
<1>2. InBounds(s.size, s.off)
  BY DEF Sized
<1>3. f - 1 \in 0..NFiles /\ NFiles \in (f - 1)..NFiles
  BY <1>1
<1>4. upTo[f - 1] \in Nat /\ upTo[NFiles] \in Nat /\ upTo[f - 1] <= upTo[NFiles]
  BY <1>1, <1>2, <1>3, ToStreamRises
<1>5. CASE s.pc # "stream"
  BY <1>4, <1>5 DEF Behind
<1>6. CASE s.pc = "stream"
  <2>1. f \in Files /\ s.off[f] # Skip /\ s.off[f] <= s.pos /\ s.pos <= s.size[f]
    BY <1>6 DEF Sized, SenderSound
  <2>2. s.off[f] \in Nat /\ s.size[f] \in Nat /\ f \in 1..NFiles
    BY <1>1, <2>1 DEF Offset, Files
  <2>3. upTo[f] = upTo[f - 1] + (s.size[f] - s.off[f])
    BY <2>1, ToStreamIs
  <2>4. upTo[f] <= upTo[NFiles] /\ upTo[f] \in Nat
    BY <1>1, <1>2, <2>2, ToStreamRises
  <2>5. Behind(s) = upTo[f - 1] + (s.pos - s.off[f])
    BY <1>6 DEF Behind
  <2> HIDE DEF upTo, f
  <2> QED
    BY <1>1, <1>4, <2>1, <2>2, <2>3, <2>4, <2>5 DEF upTo
<1> QED
  BY <1>5, <1>6

\* From one file to the next that is not skipped, nothing is added.
LEMMA BehindNext ==
    ASSUME NEW size \in [Files -> Nat], NEW off \in [Files -> Offset], InBounds(size, off),
           NEW i \in 1..(NFiles + 1), NEW j \in i..(NFiles + 1),
           \A k \in i..(j - 1) : off[k] = Skip
    PROVE  ToStream(size, off)[j - 1] = ToStream(size, off)[i - 1]
<1>1. i - 1 \in 0..NFiles /\ j - 1 \in (i - 1)..NFiles /\ NFiles \in Nat
  BY CountsAssumption
<1>2. \A k \in (i - 1 + 1)..(j - 1) : off[k] = Skip
  BY <1>1
<1> QED
  BY <1>1, <1>2, ToStreamRises

\* Run c gets the state r and the counters p, and shows them or nothing new.
LEMMA BarOf ==
    ASSUME TypeInv', Rows', Measured', edits' = 0, src' = src, NEW c \in Conns, NEW r, NEW p,
           snd'[c] = r, obs'[c] = p, Climbs(c),
           shown[c].sum <= obs[c].sum, \A f \in Files : shown[c].sent[f] <= obs[c].sent[f],
           TypeInv, Rows,
           \A f \in Files : p.sent[f] <= r.size[f],
           r.pc \in Early => \A f \in Files : p.sent[f] = 0,
           r.pc \in Late => p.sum = Behind(r),
           r.pc \notin Late => p.sum <= ToStream(r.size, r.off)[NFiles]
    PROVE  Bar(r, p, shown'[c])
<1>1. r \in SenderState /\ p \in Counters
  BY DEF TypeInv, TypeOK, Rows
<1>2. SenderSound(r) /\ Sized(r)
  <2>1. SenderSound(snd[c])' /\ Sized(snd[c])'
    BY DEF TypeInv, Measured
  <2> QED
    BY <2>1 DEF SenderSound, Sized
<1>3. p.sum <= ToStream(r.size, r.off)[NFiles]
  BY <1>1, <1>2, BehindBounded
<1>4. /\ p.sum \in Nat /\ obs[c].sum \in Nat /\ shown[c].sum \in Nat
      /\ \A f \in Files : p.sent[f] \in Nat /\ obs[c].sent[f] \in Nat /\ shown[c].sent[f] \in Nat
  <2>1. obs[c] \in Counters /\ shown[c] \in Counters
    BY DEF Rows
  <2> QED
    BY <1>1, <2>1 DEF Counters
<1>5. shown'[c].sum <= p.sum /\ \A f \in Files : shown'[c].sent[f] <= p.sent[f]
  BY <1>4 DEF Climbs
<1> QED
  BY <1>3, <1>5 DEF Bar

-----------------------------------------------------------------------------
(* One step of a run.                                                     *)

\* Run c gets the state r and the counters p, and shows them or nothing new.
BarMoves(c, r, p) ==
    /\ snd' = [snd EXCEPT ![c] = r] /\ obs' = [obs EXCEPT ![c] = p]
    /\ shown' = shown \/ shown' = [shown EXCEPT ![c] = p]
    /\ p.sum >= obs[c].sum
    /\ \A f \in Files : p.sent[f] >= obs[c].sent[f] /\ p.sent[f] <= r.size[f]
    /\ r.pc \in Early => \A f \in Files : p.sent[f] = 0
    /\ r.pc \in Late => p.sum = Behind(r)
    /\ r.pc \notin Late => p.sum <= ToStream(r.size, r.off)[NFiles]

LEMMA BarsStep ==
    ASSUME TypeInv, Rows, Measured, Bars, edits = 0,
           TypeInv', Rows', Measured', edits' = 0, src' = src,
           NEW c \in Conns, NEW r, NEW p, BarMoves(c, r, p)
    PROVE  Bars' /\ \A d \in Conns : Climbs(d)
<1>1. snd'[c] = r /\ obs'[c] = p /\ shown'[c] \in {shown[c], p}
  BY DEF TypeInv, TypeOK, Rows, BarMoves
<1>2. ASSUME NEW d \in Conns \ {c}
      PROVE  snd'[d] = snd[d] /\ obs'[d] = obs[d] /\ shown'[d] = shown[d]
  BY DEF TypeInv, TypeOK, Rows, BarMoves
<1>3. Climbs(c)
  BY <1>1 DEF Climbs, BarMoves
<1>4. Bar(r, p, shown'[c])
  <2>1. shown[c].sum <= obs[c].sum /\ \A f \in Files : shown[c].sent[f] <= obs[c].sent[f]
    BY KnownBar DEF Bar
  <2> QED
    BY <1>1, <1>3, <2>1, BarOf DEF BarMoves
<1>5. ASSUME NEW d \in Conns PROVE Bar(snd'[d], obs'[d], shown'[d]) /\ Climbs(d)
  <2>1. CASE d = c
    BY <1>1, <1>3, <1>4, <2>1
  <2>2. CASE d # c
    <3>1. Bar(snd[d], obs[d], shown[d])
      BY KnownBar
    <3>2. obs[d].sum \in Nat /\ \A f \in Files : obs[d].sent[f] \in Nat
      BY KnownBar
    <3> QED
      BY <1>2, <2>2, <3>1, <3>2 DEF Climbs
  <2> QED
    BY <2>1, <2>2
<1> QED
  BY <1>5 DEF Bars, Bar, Behind

\* Plan.
LEMMA PlanBars ==
    ASSUME TypeInv, Rows, Measured, Bars, edits = 0,
           TypeInv', Rows', Measured', edits' = 0, src' = src,
           NEW c \in Conns, StartFresh(c) \/ RecvAnswers(c), Plan(c)
    PROVE  Bars' /\ \A d \in Conns : Climbs(d)
<1> DEFINE s == snd[c]
           r == snd'[c]
           sent == [f \in Files |-> IF r.off[f] = Skip THEN s.size[f] ELSE r.off[f]]
           plan == [state |-> [f \in Files |-> IF r.off[f] = Skip THEN "skipped" ELSE "queued"],
                    sent |-> sent, sum |-> 0]
<1>1. /\ s.pc \in {"hello", "query"} /\ r.pc = "file" /\ r.size = s.size
      /\ snd' = [snd EXCEPT ![c] = r] /\ r \in SenderState
      /\ \A k \in 1..(r.idx - 1) : r.off[k] = Skip
  BY OffsetsKnown
<1>2. obs' = [obs EXCEPT ![c] = plan] /\ shown' = [shown EXCEPT ![c] = plan]
  BY DEF Plan, Counted, Flush, Rows
<1>3. /\ r.size \in [Files -> Nat] /\ r.off \in [Files -> Offset]
      /\ r.idx \in 1..(NFiles + 1) /\ NFiles \in Nat
  BY <1>1, CountsAssumption, Zenon DEF SenderState
<1>4. InBounds(r.size, r.off)
  <2>1. Sized(snd[c])'
    BY DEF Measured
  <2> QED
    BY <2>1 DEF Sized, InBounds
<1>5. obs[c].sum = 0 /\ \A f \in Files : obs[c].sent[f] = 0
  BY <1>1, KnownBar DEF Row, Bar, Early
<1>6. plan.sum = 0 /\ plan.sent = sent
  OBVIOUS
<1>7. ASSUME NEW f \in Files PROVE sent[f] >= 0 /\ sent[f] <= r.size[f]
  BY <1>1, <1>3, <1>4 DEF InBounds, Offset, Skip
<1>8. Behind(r) = 0
  <2>1. ToStream(r.size, r.off)[r.idx - 1] = ToStream(r.size, r.off)[1 - 1]
    BY <1>1, <1>3, <1>4, BehindNext
  <2>2. ToStream(r.size, r.off)[0] = 0
    BY ToStreamIs
  <2> QED
    BY <1>1, <2>1, <2>2 DEF Behind
<1> HIDE DEF plan, sent
<1>20. BarMoves(c, r, plan)
  BY <1>1, <1>2, <1>5, <1>6, <1>7, <1>8 DEF BarMoves, Early, Late
<1> QED
  BY <1>20, BarsStep

\* FileBegin.
LEMMA BeginBars ==
    ASSUME TypeInv, Rows, Measured, Bars, edits = 0,
           TypeInv', Rows', Measured', edits' = 0, src' = src,
           NEW c \in Conns, SendFileStart(c), FileBegin(c, snd[c].idx)
    PROVE  Bars' /\ \A d \in Conns : Climbs(d)
<1> DEFINE s == snd[c]
           f == s.idx
           r == [s EXCEPT !.pc = "stream", !.pos = s.off[f], !.hash = PrefixDigest(f, s.off[f])]
           p == [obs[c] EXCEPT !.state[f] = "running"]
<1>1. /\ s \in SenderState /\ s.pc = "file" /\ f \in Files
      /\ snd' = [snd EXCEPT ![c] = r] /\ obs' = [obs EXCEPT ![c] = p]
      /\ shown' = [shown EXCEPT ![c] = obs'[c]]
  BY KnownBar DEF SendFileStart, FileBegin, Counted, Flush
<1>2. obs'[c] = p
  BY <1>1 DEF Rows
<1>3. p.sum = obs[c].sum /\ p.sent = obs[c].sent
  BY <1>1, KnownBar, Marking
<1>4. r.pc = "stream" /\ r.idx = f /\ r.off = s.off /\ r.size = s.size /\ r.pos = s.off[f]
  BY <1>1, Zenon DEF SenderState
<1> HIDE DEF p, r
<1>5. s.off[f] \in Nat
  BY <1>1, KnownPlace
<1>6. ToStream(s.size, s.off)[f - 1] \in Nat
  <2>1. f - 1 \in 0..NFiles
    BY <1>1, KnownBar DEF Files
  <2>2. f - 1 \in (f - 1)..(f - 1)
    BY <2>1
  <2> QED
    BY <2>1, KnownBar, ToStreamRises
<1>7. Behind(r) = Behind(s)
  BY <1>1, <1>4, <1>5, <1>6 DEF Behind
<1>8. /\ obs[c].sum = Behind(s) /\ obs[c].sum \in Nat
      /\ \A g \in Files : obs[c].sent[g] \in Nat /\ obs[c].sent[g] <= s.size[g]
  BY <1>1, KnownBar DEF Bar, Late
<1>20. BarMoves(c, r, p)
  <2>1. p.sum = Behind(r) /\ p.sum >= obs[c].sum
    BY <1>3, <1>7, <1>8
  <2>2. \A g \in Files : p.sent[g] >= obs[c].sent[g] /\ p.sent[g] <= r.size[g]
    BY <1>3, <1>4, <1>8
  <2>3. r.pc \in Late /\ r.pc \notin Early
    BY <1>4 DEF Early, Late
  <2>4. shown' = [shown EXCEPT ![c] = p]
    BY <1>1, <1>2
  <2> QED
    BY <1>1, <2>1, <2>2, <2>3, <2>4 DEF BarMoves
<1> QED
  BY <1>20, BarsStep

\* Where the open file stands.
LEMMA OpenBar ==
    ASSUME TypeInv, Rows, Measured, Bars, edits = 0, NEW c \in Conns, snd[c].pc = "stream"
    PROVE  LET s == snd[c]
               f == s.idx
               upTo == ToStream(s.size, s.off)
           IN  /\ f \in Files /\ f \in Nat
               /\ s.pos \in Nat /\ s.off[f] \in Nat /\ s.size[f] \in Nat /\ s.off[f] # Skip
               /\ s.off[f] <= s.pos /\ s.pos <= s.size[f]
               /\ Unread(c) = s.size[f] - s.pos
               /\ upTo[f - 1] \in Nat
               /\ upTo[f] = upTo[f - 1] + (s.size[f] - s.off[f])
               /\ obs[c].sum = upTo[f - 1] + (s.pos - s.off[f])
               /\ obs[c].sent[f] = s.pos
<1> DEFINE s == snd[c]
           f == s.idx
           upTo == ToStream(s.size, s.off)
<1>1. f \in Files /\ s.off[f] # Skip
  BY KnownBar DEF SenderSound
<1>2. /\ f \in Nat /\ s.size[f] = Len(src[f]) /\ Len(src[f]) \in Nat
      /\ s.pos \in Nat /\ s.off[f] \in Nat /\ s.off[f] <= s.pos /\ s.pos <= s.size[f]
  BY <1>1, KnownPlace
<1>3. Unread(c) = s.size[f] - s.pos
  BY <1>2 DEF Unread
<1>4. upTo[f - 1] \in Nat
  <2>1. f - 1 \in 0..NFiles
    BY <1>1, KnownBar DEF Files
  <2>2. f - 1 \in (f - 1)..(f - 1)
    BY <2>1
  <2> QED
    BY <2>1, KnownBar, ToStreamRises
<1>5. upTo[f] = upTo[f - 1] + (s.size[f] - s.off[f])
  BY <1>1, ToStreamIs
<1>6. obs[c].sum = upTo[f - 1] + (s.pos - s.off[f])
  BY KnownBar DEF Bar, Late, Behind
<1>7. obs[c].sent[f] = s.pos
  <2>1. Stands(s, obs[c], told[c], f)
    BY <1>1, KnownBar DEF Row, Late
  <2> QED
    BY <1>1, <1>2, <2>1 DEF Stands
<1> HIDE DEF upTo
<1> QED
  BY <1>1, <1>2, <1>3, <1>4, <1>5, <1>6, <1>7 DEF upTo

\* FileProgress.
LEMMA ChunkBars ==
    ASSUME TypeInv, Rows, Measured, Bars, edits = 0,
           TypeInv', Rows', Measured', edits' = 0, src' = src,
           NEW c \in Conns, StreamChunk(c), FileProgress(c, snd[c].idx, ChunkSize)
    PROVE  Bars' /\ \A d \in Conns : Climbs(d)
<1> DEFINE s == snd[c]
           f == s.idx
           data == SubSeq(src[f], s.pos + 1, s.pos + ChunkSize)
           r == [s EXCEPT !.pos = s.pos + ChunkSize, !.hash = s.hash \o data]
           p == AtPos(c, f, s.pos + ChunkSize)
<1>1. /\ s \in SenderState /\ s.pc = "stream"
      /\ snd' = [snd EXCEPT ![c] = r] /\ obs' = [obs EXCEPT ![c] = p]
      /\ shown' = [shown EXCEPT ![c] = obs'[c]] \/ shown' = shown
      /\ Unread(c) >= ChunkSize
  BY KnownBar DEF StreamChunk, FileProgress, Counted, Flush
<1>2. obs'[c] = p
  BY <1>1 DEF Rows
<1>3. /\ f \in Files /\ p.sum = transferred[c] + ChunkSize
      /\ p.sent[f] = s.pos + ChunkSize
      /\ \A g \in Files \ {f} : p.sent[g] = obs[c].sent[g]
  BY <1>1, Rise, ChunkSizeAssumption
<1>4. /\ r.pc = "stream" /\ r.idx = f /\ r.off = s.off /\ r.size = s.size
      /\ r.pos = s.pos + ChunkSize
  BY <1>1, Zenon DEF SenderState
<1> HIDE DEF p, r
<1>5. /\ s.pos \in Nat /\ s.off[f] \in Nat /\ s.size[f] \in Nat
      /\ s.off[f] <= s.pos /\ s.pos <= s.size[f]
      /\ Unread(c) = s.size[f] - s.pos
      /\ ToStream(s.size, s.off)[f - 1] \in Nat
      /\ obs[c].sum = ToStream(s.size, s.off)[f - 1] + (s.pos - s.off[f])
      /\ obs[c].sent[f] = s.pos
  BY <1>1, OpenBar
<1>6. s.pos + ChunkSize <= s.size[f] /\ ChunkSize \in Nat
  BY <1>1, <1>5, ChunkSizeAssumption
<1>7. p.sum = Behind(r) /\ p.sum >= obs[c].sum
  <2>1. transferred[c] = obs[c].sum
    BY KnownBar
  <2>2. Behind(r) = ToStream(s.size, s.off)[f - 1] + ((s.pos + ChunkSize) - s.off[f])
    <3>1. Behind(r) = ToStream(r.size, r.off)[r.idx - 1] + (r.pos - r.off[r.idx])
      BY <1>4 DEF Behind
    <3> HIDE DEF s, f
    <3> QED
      BY <1>4, <3>1
  <2> HIDE DEF s, f
  <2> QED
    BY <1>3, <1>5, <1>6, <2>1, <2>2
<1>8. ASSUME NEW g \in Files PROVE p.sent[g] >= obs[c].sent[g] /\ p.sent[g] <= s.size[g]
  <2>1. obs[c].sent[g] \in Nat /\ obs[c].sent[g] <= s.size[g]
    BY KnownBar DEF Bar
  <2> QED
    BY <1>3, <1>5, <1>6, <2>1
<1>20. BarMoves(c, r, p)
  BY <1>1, <1>2, <1>4, <1>7, <1>8 DEF BarMoves, Early, Late
<1> QED
  BY <1>20, BarsStep

\* FileEnd without an error.
LEMMA EndBars ==
    ASSUME TypeInv, Rows, Measured, Bars, edits = 0,
           TypeInv', Rows', Measured', edits' = 0, src' = src,
           NEW c \in Conns, StreamEnd(c), FileEnd(c, snd[c].idx)
    PROVE  Bars' /\ \A d \in Conns : Climbs(d)
<1> DEFINE s == snd[c]
           f == s.idx
           next == NextFile(s.off, f + 1)
           r == [s EXCEPT !.pc = "file", !.idx = next]
           t == IF Unread(c) > 0 THEN transferred[c] + Unread(c) ELSE transferred[c]
           o == IF Unread(c) > 0 THEN AtPos(c, f, s.pos + Unread(c)) ELSE obs[c]
           p == [o EXCEPT !.state[f] = "done", !.sent[f] = s.size[f]]
           upTo == ToStream(s.size, s.off)
<1>1. /\ s \in SenderState /\ s.pc = "stream"
      /\ snd' = [snd EXCEPT ![c] = r] /\ obs' = [obs EXCEPT ![c] = p]
      /\ shown' = [shown EXCEPT ![c] = obs'[c]]
  BY KnownBar DEF StreamEnd, FileEnd, Counted, Flush, Complete
<1>2. obs'[c] = p
  BY <1>1 DEF Rows
<1>3. /\ f \in Files /\ t \in Nat /\ o \in Counters /\ o.sum = t
      /\ \A g \in Files \ {f} : o.sent[g] = obs[c].sent[g]
  BY <1>1, LastRise
<1>4. r.pc = "file" /\ r.idx = next /\ r.off = s.off /\ r.size = s.size
  BY <1>1, Zenon DEF SenderState
<1>5. /\ f \in Nat /\ s.pos \in Nat /\ s.off[f] \in Nat /\ s.size[f] \in Nat
      /\ s.off[f] <= s.pos /\ s.pos <= s.size[f]
      /\ Unread(c) = s.size[f] - s.pos
      /\ upTo[f - 1] \in Nat
      /\ upTo[f] = upTo[f - 1] + (s.size[f] - s.off[f])
      /\ obs[c].sum = upTo[f - 1] + (s.pos - s.off[f])
      /\ obs[c].sent[f] = s.pos
  BY <1>1, OpenBar
<1>6. t = upTo[f] /\ t >= obs[c].sum
  <2>1. transferred[c] = obs[c].sum
    BY KnownBar
  <2>2. t = transferred[c] + (s.size[f] - s.pos)
    <3> HIDE DEF s, f, upTo
    <3> QED
      BY <1>5, <2>1 DEF t
  <2> HIDE DEF s, f, upTo, t
  <2> QED
    BY <1>5, <2>1, <2>2
<1>7. /\ p.sum = t /\ p.sent[f] = s.size[f]
      /\ \A g \in Files \ {f} : p.sent[g] = obs[c].sent[g]
  <2> DEFINE n == s.size[f]
  <2>1. p = [o EXCEPT !.state[f] = "done", !.sent[f] = n]
    OBVIOUS
  <2> HIDE DEF p, n, f, o, t
  <2>2. p.sum = o.sum /\ p.sent[f] = n /\ \A g \in Files \ {f} : p.sent[g] = o.sent[g]
    BY <1>3, <2>1 DEF Counters
  <2> QED
    BY <1>3, <2>2 DEF n
<1> HIDE DEF p, r, o, t
<1>8. Behind(r) = upTo[f]
  <2>1. f + 1 \in 1..(NFiles + 1) /\ s.off \in [Files -> Offset] /\ s.size \in [Files -> Nat]
    BY <1>3, KnownBar DEF Files
  <2>2. next \in (f + 1)..(NFiles + 1) /\ \A k \in (f + 1)..(next - 1) : s.off[k] = Skip
    BY <2>1, NextFileType
  <2> HIDE DEF next
  <2>3. upTo[next - 1] = upTo[(f + 1) - 1]
    <3>1. InBounds(s.size, s.off)
      BY KnownBar
    <3> HIDE DEF s, f
    <3> QED
      BY <2>1, <2>2, <3>1, BehindNext
  <2>4. (f + 1) - 1 = f /\ upTo[f] \in Nat
    <3> HIDE DEF f, s, upTo
    <3> QED
      BY <1>5
  <2>5. Behind(r) = upTo[next - 1] + 0
    BY <1>4 DEF Behind, next
  <2> HIDE DEF upTo
  <2> QED
    BY <2>3, <2>4, <2>5
<1> HIDE DEF next
<1>9. ASSUME NEW g \in Files PROVE p.sent[g] >= obs[c].sent[g] /\ p.sent[g] <= s.size[g]
  <2>1. obs[c].sent[g] \in Nat /\ obs[c].sent[g] <= s.size[g]
    BY KnownBar DEF Bar
  <2> QED
    BY <1>5, <1>7, <2>1
<1> HIDE DEF upTo
<1>20. BarMoves(c, r, p)
  BY <1>1, <1>2, <1>4, <1>6, <1>7, <1>8, <1>9 DEF BarMoves, Early, Late
<1> QED
  BY <1>20, BarsStep

\* The end of a run, and the steps that the observer does not see.
LEMMA SameBars ==
    ASSUME TypeInv, Rows, Measured, Bars, edits = 0,
           TypeInv', Rows', Measured', edits' = 0, src' = src,
           NEW c \in Conns, NEW r, NEW p,
           snd' = [snd EXCEPT ![c] = r], obs' = [obs EXCEPT ![c] = p],
           shown' = shown \/ shown' = [shown EXCEPT ![c] = p],
           p.sum = obs[c].sum, p.sent = obs[c].sent,
           r.size = snd[c].size, r.off = snd[c].off,
           \/ snd[c].pc \in Early /\ r.pc \in Early
           \/ r.pc \notin Early \cup Late
           \/ /\ r.idx = snd[c].idx /\ r.pos = snd[c].pos
              /\ r.pc = snd[c].pc \/ ("stream" \notin {snd[c].pc, r.pc} /\ {snd[c].pc, r.pc} \subseteq Late)
    PROVE  Bars' /\ \A d \in Conns : Climbs(d)
<1>1. /\ obs[c].sum \in Nat /\ \A f \in Files : obs[c].sent[f] \in Nat
      /\ Bar(snd[c], obs[c], shown[c])
  BY KnownBar
<1>2. r.pc \in Early => \A f \in Files : p.sent[f] = 0
  BY <1>1 DEF Bar, Early, Late
<1>3. r.pc \in Late => p.sum = Behind(r)
  <2>1. CASE r.idx = snd[c].idx /\ r.pos = snd[c].pos /\ r.pc = snd[c].pc
    BY <1>1, <2>1 DEF Bar, Behind
  <2>2. CASE /\ r.idx = snd[c].idx
             /\ "stream" \notin {snd[c].pc, r.pc} /\ {snd[c].pc, r.pc} \subseteq Late
    BY <1>1, <2>2 DEF Bar, Behind
  <2> QED
    BY <2>1, <2>2 DEF Early, Late
<1>20. BarMoves(c, r, p)
  BY <1>1, <1>2, <1>3 DEF BarMoves, Bar
<1> QED
  BY <1>20, BarsStep

\* A run fails: no bar moves.
LEMMA FailBars ==
    ASSUME TypeInv, Rows, Measured, Bars, edits = 0,
           TypeInv', Rows', Measured', edits' = 0, src' = src,
           NEW c \in Conns,
           \/ SourceFails(c) /\ Failure(c)
           \/ SenderIOError(c) /\ Failure(c)
           \/ snd[c].pc = "stream" /\ CancelSeen(c) /\ Failure(c)
           \/ CancelBetween(c) /\ Returned(c)
    PROVE  Bars' /\ \A d \in Conns : Climbs(d)
<1> DEFINE s == snd[c]
           f == s.idx
           r == [s EXCEPT !.pc = "failed"]
           p == IF Failure(c) /\ UnderWay(c) THEN [obs[c] EXCEPT !.state[f] = "failed"] ELSE obs[c]
<1>1. s \in SenderState /\ SenderSound(s) /\ obs[c] \in Counters
  BY KnownBar
<1>2. snd' = [snd EXCEPT ![c] = r]
  BY KnownSender DEF SourceFails, SenderIOError, CancelSeen, CancelBetween, SenderEnds
<1>3. obs' = [obs EXCEPT ![c] = p] /\ shown' = [shown EXCEPT ![c] = p]
  <2>1. CASE Failure(c)
    <3>1. obs' = [obs EXCEPT ![c] = p] /\ shown' = [shown EXCEPT ![c] = obs'[c]]
      BY <2>1 DEF Failure, Counted, Flush
    <3>2. obs'[c] = p
      BY <3>1 DEF Rows
    <3> QED
      BY <3>1, <3>2
  <2>2. CASE ~Failure(c)
    <3>1. obs' = obs /\ shown' = [shown EXCEPT ![c] = obs'[c]] /\ p = obs[c]
      BY <2>2 DEF Returned, Flush
    <3> HIDE DEF p
    <3>2. obs = [obs EXCEPT ![c] = obs[c]]
      BY DEF Rows
    <3> QED
      BY <3>1, <3>2
  <2> QED
    BY <2>1, <2>2
<1>4. p.sum = obs[c].sum /\ p.sent = obs[c].sent
  <2>1. CASE Failure(c) /\ UnderWay(c)
    <3>1. f \in Files
      BY <1>1, <2>1 DEF UnderWay, SenderSound
    <3>2. p = [obs[c] EXCEPT !.state[f] = "failed"]
      BY <2>1
    <3> HIDE DEF p, f
    <3> QED
      BY <1>1, <3>1, <3>2 DEF Counters
  <2>2. CASE ~(Failure(c) /\ UnderWay(c))
    BY <2>2
  <2> QED
    BY <2>1, <2>2
<1>5. r.pc = "failed" /\ r.size = s.size /\ r.off = s.off
  BY <1>1, Zenon DEF SenderState
<1> HIDE DEF p, r
<1> QED
  BY <1>2, <1>3, <1>4, <1>5, SameBars DEF Early, Late

\* A run fails after the last frame of a file: its bar stands at its end.
LEMMA LastFailsBars ==
    ASSUME TypeInv, Rows, Measured, Bars, edits = 0,
           TypeInv', Rows', Measured', edits' = 0, src' = src,
           NEW c \in Conns, SenderIOError(c), FailsAfterLast(c)
    PROVE  Bars' /\ \A d \in Conns : Climbs(d)
<1> DEFINE s == snd[c]
           f == s.idx
           n == s.pos + Unread(c)
           r == [s EXCEPT !.pc = "failed"]
           o == AtPos(c, f, n)
           p == [o EXCEPT !.state[f] = "failed"]
           upTo == ToStream(s.size, s.off)
<1>1. /\ s \in SenderState /\ s.pc = "stream" /\ Unread(c) > 0
      /\ snd' = [snd EXCEPT ![c] = r] /\ obs' = [obs EXCEPT ![c] = p]
      /\ shown' = [shown EXCEPT ![c] = obs'[c]]
  BY KnownBar DEF SenderIOError, SenderEnds, FailsAfterLast, Counted, Flush
<1>2. obs'[c] = p
  BY <1>1 DEF Rows
<1>3. /\ f \in Files /\ f \in Nat
      /\ s.pos \in Nat /\ s.off[f] \in Nat /\ s.size[f] \in Nat
      /\ s.off[f] <= s.pos /\ s.pos <= s.size[f]
      /\ Unread(c) = s.size[f] - s.pos
      /\ upTo[f - 1] \in Nat
      /\ upTo[f] = upTo[f - 1] + (s.size[f] - s.off[f])
      /\ obs[c].sum = upTo[f - 1] + (s.pos - s.off[f])
      /\ obs[c].sent[f] = s.pos
  BY <1>1, OpenBar
<1>4. Unread(c) \in Nat \ {0}
  BY <1>1, <1>3
<1>5. /\ o \in Counters /\ o.sum = transferred[c] + Unread(c) /\ o.sent[f] = n
      /\ \A g \in Files \ {f} : o.sent[g] = obs[c].sent[g]
  BY <1>1, <1>4, Rise
<1>6. n = s.size[f]
  BY <1>3
<1>7. r.pc = "failed" /\ r.off = s.off /\ r.size = s.size
  BY <1>1, Zenon DEF SenderState
<1> HIDE DEF o
<1>8. p.sum = o.sum /\ p.sent = o.sent
  <2>1. p = [o EXCEPT !.state[f] = "failed"]
    OBVIOUS
  <2> HIDE DEF p, f
  <2> QED
    BY <1>5, <2>1 DEF Counters
<1> HIDE DEF p, r
<1>9. p.sum = upTo[f] /\ p.sum >= obs[c].sum
  <2>1. transferred[c] = obs[c].sum
    BY KnownBar
  <2>2. o.sum = transferred[c] + Unread(c)
    BY <1>5
  <2> HIDE DEF s, f, upTo
  <2> QED
    BY <1>3, <1>8, <2>1, <2>2
<1>10. upTo[f] <= upTo[NFiles]
  <2>1. f \in 0..NFiles /\ NFiles \in f..NFiles
    BY <1>3, KnownBar DEF Files
  <2> QED
    BY <2>1, KnownBar, ToStreamRises
<1>11. ASSUME NEW g \in Files PROVE p.sent[g] >= obs[c].sent[g] /\ p.sent[g] <= s.size[g]
  <2>1. obs[c].sent[g] \in Nat /\ obs[c].sent[g] <= s.size[g]
    BY KnownBar DEF Bar
  <2> QED
    BY <1>3, <1>5, <1>6, <1>8, <2>1
<1> HIDE DEF upTo
<1>12. p.sum <= ToStream(r.size, r.off)[NFiles]
  BY <1>7, <1>9, <1>10 DEF upTo
<1>13. BarMoves(c, r, p)
  BY <1>1, <1>2, <1>7, <1>9, <1>11, <1>12 DEF BarMoves, Early, Late
<1> QED
  BY <1>13, BarsStep

\* The receiver confirms: the last counters are shown.
LEMMA AckedBars ==
    ASSUME TypeInv, Rows, Measured, Bars, edits = 0,
           TypeInv', Rows', Measured', edits' = 0, src' = src,
           NEW c \in Conns, RecvDoneAck(c), Returned(c)
    PROVE  Bars' /\ \A d \in Conns : Climbs(d)
<1> DEFINE s == snd[c]
           r == [s EXCEPT !.pc = "ok"]
           p == obs[c]
<1>1. s \in SenderState
  BY KnownBar
<1>2. /\ s.pc = "ack" /\ snd' = [snd EXCEPT ![c] = r]
      /\ obs' = obs /\ shown' = [shown EXCEPT ![c] = obs'[c]]
  BY KnownSender DEF RecvDoneAck, SenderEnds, Returned, Flush
<1>3. obs' = [obs EXCEPT ![c] = p] /\ shown' = [shown EXCEPT ![c] = p]
  BY <1>2 DEF Rows
<1>4. r.pc = "ok" /\ r.size = s.size /\ r.off = s.off /\ r.idx = s.idx /\ r.pos = s.pos
  BY <1>1, Zenon DEF SenderState
<1>5. p.sum = obs[c].sum /\ p.sent = obs[c].sent
  OBVIOUS
<1>6. "stream" \notin {s.pc, r.pc} /\ {s.pc, r.pc} \subseteq Late
  BY <1>2, <1>4 DEF Late
<1> HIDE DEF r, p
<1> QED
  BY <1>2, <1>3, <1>4, <1>5, <1>6, SameBars

\* Steps of a run that the observer does not see.
LEMMA QuietBars ==
    ASSUME TypeInv, Rows, Measured, Bars, edits = 0,
           TypeInv', Rows', Measured', edits' = 0, src' = src,
           NEW c \in Conns, SendQueries(c) \/ SendDone(c) \/ Cancel(c), UNCHANGED observer
    PROVE  Bars' /\ \A d \in Conns : Climbs(d)
<1> DEFINE s == snd[c]
           p == obs[c]
<1>1. s \in SenderState
  BY KnownBar
<1>2. obs' = [obs EXCEPT ![c] = p] /\ shown' = shown
  BY DEF Rows, observer
<1>3. CASE SendQueries(c)
  <2> DEFINE r == [s EXCEPT !.pc = "query"]
  <2>1. s.pc = "hello" /\ snd' = [snd EXCEPT ![c] = r]
    BY <1>3, KnownSender DEF SendQueries
  <2>2. r.pc = "query" /\ r.size = s.size /\ r.off = s.off
    BY <1>1, Zenon DEF SenderState
  <2> HIDE DEF r
  <2> QED
    BY <1>2, <2>1, <2>2, SameBars DEF Early
<1>4. CASE SendDone(c)
  <2> DEFINE r == [s EXCEPT !.pc = "ack"]
  <2>1. s.pc = "file" /\ snd' = [snd EXCEPT ![c] = r]
    BY <1>4, KnownSender DEF SendDone
  <2>2. r.pc = "ack" /\ r.size = s.size /\ r.off = s.off /\ r.idx = s.idx /\ r.pos = s.pos
    BY <1>1, Zenon DEF SenderState
  <2> HIDE DEF r
  <2> QED
    BY <1>2, <2>1, <2>2, SameBars DEF Late
<1>5. CASE Cancel(c)
  <2> DEFINE r == [s EXCEPT !.cancelled = TRUE]
  <2>1. snd' = [snd EXCEPT ![c] = r]
    BY <1>5 DEF Cancel
  <2>2. r.pc = s.pc /\ r.size = s.size /\ r.off = s.off /\ r.idx = s.idx /\ r.pos = s.pos
    BY <1>1, Zenon DEF SenderState
  <2> HIDE DEF r
  <2> QED
    BY <1>2, <2>1, <2>2, SameBars
<1> QED
  BY <1>3, <1>4, <1>5

\* Send: the sizes become known, and nothing is sent yet.
LEMMA SendBars ==
    ASSUME TypeInv, Rows, Measured, Bars, edits = 0,
           TypeInv', Rows', Measured', edits' = 0, src' = src,
           NEW c \in Conns, Send(c), UNCHANGED observer
    PROVE  Bars' /\ \A d \in Conns : Climbs(d)
<1> DEFINE s == snd[c]
           r == snd'[c]
           p == obs[c]
<1>1. /\ s.pc = "idle" /\ r.pc = "hello" /\ snd' = [snd EXCEPT ![c] = r]
  <2> DEFINE sizes == [f \in Files |-> Len(src[f])]
             q == [s EXCEPT !.pc = "hello", !.size = sizes]
  <2>1. s.pc = "idle" /\ snd' = [snd EXCEPT ![c] = q]
    BY DEF Send
  <2> HIDE DEF sizes
  <2>2. q.pc = "hello"
    BY KnownBar, Zenon DEF SenderState
  <2> HIDE DEF q
  <2>3. r = q
    BY <2>1, KnownRow
  <2> HIDE DEF r
  <2> QED
    BY <2>1, <2>2, <2>3
<1>2. obs' = [obs EXCEPT ![c] = p] /\ shown' = shown
  BY DEF Rows, observer
<1>3. p.sum = 0 /\ \A f \in Files : p.sent[f] = 0
  BY <1>1, KnownBar DEF Bar, Row, Early
<1>4. /\ r \in SenderState /\ SenderSound(r) /\ Sized(r)
  <2>1. SenderSound(snd[c])' /\ Sized(snd[c])' /\ snd'[c] \in SenderState
    BY DEF TypeInv, TypeOK, Measured
  <2> QED
    BY <2>1 DEF SenderSound, Sized
<1>5. p.sum <= ToStream(r.size, r.off)[NFiles]
  <2>1. ToStream(r.size, r.off)[NFiles] \in Nat
    BY <1>4, BehindBounded
  <2> HIDE DEF r
  <2> QED
    BY <1>3, <2>1
<1>6. ASSUME NEW f \in Files PROVE p.sent[f] >= 0 /\ p.sent[f] <= r.size[f]
  <2>1. r.size[f] \in Nat
    BY <1>4, Zenon DEF SenderState
  <2> HIDE DEF r
  <2> QED
    BY <1>3, <2>1
<1> HIDE DEF p, r
<1>20. BarMoves(c, r, p)
  BY <1>1, <1>2, <1>3, <1>5, <1>6 DEF BarMoves, Early, Late, p
<1> QED
  BY <1>20, BarsStep

\* A step of a handler or of the environment.
LEMMA ElsewhereBars ==
    ASSUME TypeInv, Rows, Measured, Bars, edits = 0, UNCHANGED <<snd, observer>>
    PROVE  Bars' /\ \A d \in Conns : Climbs(d)
<1>1. ASSUME NEW d \in Conns PROVE Bar(snd'[d], obs'[d], shown'[d]) /\ Climbs(d)
  <2>1. /\ Bar(snd[d], obs[d], shown[d])
        /\ obs[d].sum \in Nat /\ \A f \in Files : obs[d].sent[f] \in Nat
    BY KnownBar
  <2> QED
    BY <2>1 DEF Climbs, observer
<1> QED
  BY <1>1 DEF Bars, Bar, Behind

-----------------------------------------------------------------------------
LEMMA InitBars == ObservedInit => Bars
<1> SUFFICES ASSUME ObservedInit, NEW c \in Conns PROVE Bar(snd[c], obs[c], shown[c])
  BY DEF Bars
<1>1. /\ snd[c].pc = "idle"
      /\ snd[c].size = [f \in Files |-> 0] /\ snd[c].off = [f \in Files |-> 0]
      /\ obs[c] = NoCounters /\ shown[c] = NoCounters
  BY DEF ObservedInit, Init
<1>2. NoCounters.sum = 0 /\ \A f \in Files : NoCounters.sent[f] = 0
  BY DEF NoCounters
<1> DEFINE size == snd[c].size
           off == snd[c].off
<1>3. size \in [Files -> Nat] /\ off \in [Files -> Offset] /\ InBounds(size, off)
  BY <1>1 DEF Offset, InBounds
<1> HIDE DEF size, off
<1>4. ToStream(size, off)[NFiles] \in Nat
  <2>1. NFiles \in 0..NFiles /\ NFiles \in NFiles..NFiles
    BY CountsAssumption
  <2> QED
    BY <1>3, <2>1, ToStreamRises
<1>5. \A f \in Files : size[f] \in Nat
  BY <1>3
<1> QED
  BY <1>1, <1>2, <1>4, <1>5 DEF Bar, Early, Late, size, off

LEMMA NextBars ==
    ASSUME TypeInv, Rows, Measured, Bars, TypeInv', Rows', Measured',
           [ObservedNext]_observedVars, edits' = 0
    PROVE  Bars' /\ \A c \in Conns : Climbs(c)
<1>1. edits = 0 /\ src' = src /\ ~\E f \in Files : EditSource(f)
  BY ObservedStepIsStep, EditsStay
<1>2. ASSUME NEW c \in Conns, ObservedStep(c) PROVE Bars' /\ \A d \in Conns : Climbs(d)
  <2>1. CASE (StartFresh(c) \/ RecvAnswers(c)) /\ Plan(c)
    BY <1>1, <2>1, PlanBars
  <2>2. CASE SendFileStart(c) /\ FileBegin(c, snd[c].idx)
    BY <1>1, <2>2, BeginBars
  <2>3. CASE StreamChunk(c) /\ FileProgress(c, snd[c].idx, ChunkSize)
    BY <1>1, <2>3, ChunkBars
  <2>4. CASE StreamEnd(c) /\ FileEnd(c, snd[c].idx)
    BY <1>1, <2>4, EndBars
  <2>5. CASE \/ (SourceFails(c) \/ SenderIOError(c)) /\ Failure(c)
             \/ snd[c].pc = "stream" /\ CancelSeen(c) /\ Failure(c)
             \/ CancelBetween(c) /\ Returned(c)
    BY <1>1, <2>5, FailBars
  <2>6. CASE RecvDoneAck(c) /\ Returned(c)
    BY <1>1, <2>6, AckedBars
  <2>7. CASE (SendQueries(c) \/ SendDone(c)) /\ UNCHANGED observer
    BY <1>1, <2>7, QuietBars
  <2>8. CASE SenderIOError(c) /\ FailsAfterLast(c)
    BY <1>1, <2>8, LastFailsBars
  <2> QED
    BY <1>2, <2>1, <2>2, <2>3, <2>4, <2>5, <2>6, <2>7, <2>8 DEF ObservedStep
<1>3. ASSUME NEW c \in Conns, Send(c) \/ Cancel(c), UNCHANGED observer
      PROVE  Bars' /\ \A d \in Conns : Climbs(d)
  BY <1>1, <1>3, SendBars, QuietBars
<1>4. ASSUME NEW c \in Conns, HandlerStep(c) \/ LinkFails(c) \/ HandlerDies(c), UNCHANGED observer
      PROVE  Bars' /\ \A d \in Conns : Climbs(d)
  <2>1. snd' = snd
    BY <1>4 DEF HandlerStep, LinkFails, HandlerDies, RecvHello, RecvQueries, RecvFileStart,
         HashPrefix, PrefixGone, RecvData, RecvFileDone, ChecksumMismatch, RecvDone, HandlerEOF
  <2> QED
    BY <1>1, <1>4, <2>1, ElsewhereBars
<1>5. CASE AtRest /\ UNCHANGED observer
  BY <1>1, <1>5, ElsewhereBars DEF AtRest, vars
<1>6. CASE UNCHANGED observedVars
  BY <1>1, <1>6, ElsewhereBars DEF observedVars, vars
<1> QED
  BY <1>1, <1>2, <1>3, <1>4, <1>5, <1>6 DEF ObservedNext

BarInv == TypeInv /\ Rows /\ Measured /\ Bars

LEMMA NextBarInv == BarInv /\ [ObservedNext]_observedVars => BarInv'
<1> SUFFICES ASSUME BarInv, [ObservedNext]_observedVars PROVE BarInv'
  OBVIOUS
<1>1. TypeInv' /\ Rows' /\ Measured'
  BY ObservedStepIsStep, NextTypeInv, NextRows, NextMeasured DEF BarInv
<1>2. Bars'
  <2>1. CASE edits' = 0
    BY <1>1, <2>1, NextBars DEF BarInv
  <2>2. CASE edits' # 0
    BY <2>2 DEF Bars
  <2> QED
    BY <2>1, <2>2
<1> QED
  BY <1>1, <1>2 DEF BarInv

\* The bars stay within their bounds in every program that is observed.
LEMMA BarInvAlways == ObservedSpec => []BarInv
<1>1. ObservedInit => BarInv
  BY InitTypeInv, InitRows, InitMeasured, InitBars DEF ObservedInit, BarInv
<1> QED
  BY <1>1, NextBarInv, PTL DEF ObservedSpec

\* On the phone no bar goes back, and none goes past its end, whatever was
\* resumed, lost or cancelled, as long as no source is edited (Plan, FileProgress,
\* FileEnd).
THEOREM BarsOnlyRiseAlways == ObservedSpec => BarsOnlyRise
<1> DEFINE Rising ==
             \A c \in Conns :
                edits' = 0 =>
                  /\ shown'[c].sum >= shown[c].sum
                  /\ shown'[c].sum <= Total(c)'
                  /\ \A f \in Files :
                        /\ shown'[c].sent[f] >= shown[c].sent[f]
                        /\ shown'[c].sent[f] <= snd'[c].size[f]
<1>1. BarInv /\ BarInv' /\ [ObservedNext]_observedVars => Rising
  <2> SUFFICES ASSUME BarInv, BarInv', [ObservedNext]_observedVars, NEW c \in Conns, edits' = 0
               PROVE  /\ shown'[c].sum >= shown[c].sum
                      /\ shown'[c].sum <= Total(c)'
                      /\ \A f \in Files :
                            /\ shown'[c].sent[f] >= shown[c].sent[f]
                            /\ shown'[c].sent[f] <= snd'[c].size[f]
    OBVIOUS
  <2>1. edits = 0 /\ src' = src
    BY ObservedStepIsStep, EditsStay DEF BarInv
  <2>2. Climbs(c)
    BY NextBars DEF BarInv
  <2>3. /\ Bar(snd[c], obs[c], shown[c])
        /\ Bar(snd'[c], obs'[c], shown'[c])
    BY <2>1 DEF BarInv, Bars, Bar, Behind
  <2>4. /\ obs[c].sum \in Nat /\ shown[c].sum \in Nat
        /\ obs'[c].sum \in Nat /\ shown'[c].sum \in Nat
        /\ \A f \in Files : /\ obs[c].sent[f] \in Nat /\ shown[c].sent[f] \in Nat
                            /\ obs'[c].sent[f] \in Nat /\ shown'[c].sent[f] \in Nat
    BY DEF BarInv, Rows, Counters
  <2>5. ASSUME NEW f \in Files PROVE snd'[c].size[f] \in Nat
    <3>1. snd'[c] \in SenderState
      BY DEF BarInv, TypeInv, TypeOK
    <3> QED
      BY <3>1 DEF SenderState
  <2>6. Total(c)' = ToStream(snd'[c].size, snd'[c].off)[NFiles]
    BY DEF Total, ToStream
  <2>7. Total(c)' \in Nat
    <3>1. SenderSound(snd[c])' /\ Sized(snd[c])' /\ snd'[c] \in SenderState
      BY DEF BarInv, TypeInv, TypeOK, Measured
    <3>2. SenderSound(snd'[c]) /\ Sized(snd'[c])
      BY <2>1, <3>1 DEF SenderSound, Sized, InBounds
    <3> QED
      BY <2>6, <3>1, <3>2, BehindBounded
  <2>8. shown'[c].sum >= shown[c].sum /\ shown'[c].sum <= Total(c)'
    BY <2>2, <2>3, <2>4, <2>6, <2>7 DEF Climbs, Bar
  <2>9. ASSUME NEW f \in Files
        PROVE  shown'[c].sent[f] >= shown[c].sent[f] /\ shown'[c].sent[f] <= snd'[c].size[f]
    BY <2>2, <2>3, <2>4, <2>5 DEF Climbs, Bar
  <2> QED
    BY <2>8, <2>9
<1>2. BarInv /\ BarInv' /\ [ObservedNext]_observedVars => [Rising]_observedVars
  BY <1>1
<1> QED
  BY <1>2, BarInvAlways, PTL DEF ObservedSpec, BarsOnlyRise

\* When Send succeeds, the last counters that were shown are its own: every file
\* done or skipped at its end, the bytes that were counted, and, if no source was
\* edited, exactly the bytes that the plan announced (Finish).
THEOREM DoneIsShownAlways == ObservedSpec => []DoneIsShown
<1>1. BarInv => \A c \in Conns : snd[c].pc = "ok" /\ edits = 0 => shown[c].sum = Total(c)
  <2> SUFFICES ASSUME BarInv, NEW c \in Conns, snd[c].pc = "ok", edits = 0
               PROVE  shown[c].sum = Total(c)
    OBVIOUS
  <2>1. /\ shown[c] = obs[c] /\ snd[c].idx = NFiles + 1 /\ obs[c].sum = Behind(snd[c])
    BY KnownBar DEF BarInv, Row, Bar, Late
  <2>2. ToStream(snd[c].size, snd[c].off)[NFiles] \in Nat
    BY KnownBar, BehindBounded DEF BarInv
  <2>3. snd[c].idx - 1 = NFiles
    BY <2>1, CountsAssumption
  <2> QED
    BY <2>1, <2>2, <2>3 DEF Total, Behind
<1>2. BarInv /\ (\A c \in Conns : snd[c].pc = "ok" => CountersAgree(c)) => DoneIsShown
  BY <1>1 DEF DoneIsShown
<1> QED
  BY <1>2, BarInvAlways, DoneAgrees, PTL

=============================================================================
