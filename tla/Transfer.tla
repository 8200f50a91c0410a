------------------------------ MODULE Transfer ------------------------------
(***************************************************************************)
(* The file transfer protocol: Send (internal/sender.go) at one end of a    *)
(* connection, handleConn (internal/receiver.go) at the other, and the      *)
(* destination files that every connection to the same receiver shares.     *)
(*                                                                         *)
(* Each connection is one call of Send, which sends the files 1..NFiles in  *)
(* the order of its Hello.  Receive starts a goroutine per connection and   *)
(* takes no lock on a destination, so the handler of an old connection may  *)
(* still be at work when a new one has begun.                               *)
(*                                                                         *)
(* A step is what one end does between two frames: it reads the frame it    *)
(* waits for, touches files, and writes its answer.                         *)
(***************************************************************************)
EXTENDS Resume, FiniteSets, SequencesExt

CONSTANTS
    Conns,       \* the connections, one per call of Send
    NFiles,      \* how many files a call sends
    InitSrc,     \* the files the sender's machine may hold at the start
    InitDest,    \* the files the receiver's machine may hold at the start
    Edits,       \* what a user may turn a source file into (None: removed)
    MaxEdits,    \* bound: how often a user edits a source
    MaxFaults,   \* bound: how many links break and handlers die
    MaxLive,     \* bound: how many connections are at work at a time
    MaxSenders   \* bound: how many calls of Send are at work at a time

ASSUME CountsAssumption ==
    NFiles \in Nat \ {0} /\ MaxEdits \in Nat /\ MaxFaults \in Nat
    /\ MaxLive \in Nat /\ MaxSenders \in Nat
ASSUME ConnsAssumption == IsFiniteSet(Conns) /\ None \notin Conns
ASSUME ContentsAssumption ==
    InitSrc \cup InitDest \cup Edits \subseteq File \cup {None}

VARIABLES
    src,      \* src[f]: the source file
    dest,     \* dest[f]: the file under the receiver's OutDir
    snd,      \* snd[c]: the local variables of Send
    rcv,      \* rcv[c]: the local variables of handleConn
    toR,      \* toR[c]: frames on their way to the receiver
    toS,      \* toS[c]: frames on their way to the sender
    link,     \* link[c]: "none" before the dial, "up", or "down"
    edits,    \* edits made so far
    hit,      \* the connections that suffered a fault, at most one each
    told,     \* history: told[c][f] is the digest sent in FileDone
    taken,    \* history: taken[c][f] is the digest handleConn found equal
    latest,   \* history: the last connection made
    opener    \* history: opener[f] is the last connection to truncate dest[f]

wires == <<toR, toS, link>>
ghosts == <<told, taken, latest, opener>>
vars == <<src, dest, snd, rcv, wires, edits, hit, ghosts>>

Files == 1..NFiles
Present == {f \in Files : src[f] # None}

Skip == -1        \* ResumeAnswer.Offset of a file that is already complete
Offset == Nat \cup {Skip}

\* The next file from i on that is not skipped; NFiles + 1 when there is none.
NextFile(off, i) ==
    CHOOSE j \in i..(NFiles + 1) :
        /\ j \in Files => off[j] # Skip
        /\ \A k \in i..(j - 1) : off[k] = Skip

-----------------------------------------------------------------------------
(* Frames.  Data frames carry no file name: the tag below is not read by    *)
(* the handler, it lets properties say which file the bytes belong to.  In  *)
(* the two batches a file that is not asked about has None and 0: both ends *)
(* start such a file from the beginning.                                    *)

Hello == [kind |-> "Hello"]
HelloAck(have) == [kind |-> "HelloAck", have |-> have]
QueryBatch(queries) == [kind |-> "ResumeQueryBatch", queries |-> queries]
AnswerBatch(answers) == [kind |-> "ResumeAnswerBatch", answers |-> answers]
FileStart(f, offset) == [kind |-> "FileStart", file |-> f, offset |-> offset]
Data(f, payload) == [kind |-> "Data", file |-> f, payload |-> payload]
FileDone(f, sum) == [kind |-> "FileDone", file |-> f, sum |-> sum]
Done == [kind |-> "Done"]
DoneAck == [kind |-> "DoneAck"]

ToReceiver ==
    {Hello, Done}
    \cup [kind : {"ResumeQueryBatch"},
          queries : [Files -> Query \cup {None}]]
    \cup [kind : {"FileStart"}, file : Files, offset : Nat]
    \cup [kind : {"Data"}, file : Files, payload : File]
    \cup [kind : {"FileDone"}, file : Files, sum : File]

ToSender ==
    {DoneAck}
    \cup [kind : {"HelloAck"}, have : [Files -> Nat]]
    \cup [kind : {"ResumeAnswerBatch"}, answers : [Files -> Offset]]

\* What a write leaves on a wire: nothing once the connection is gone, even
\* when the write itself still succeeds.
Put(c, wire, frames) == IF link[c] = "up" THEN wire[c] \o frames ELSE wire[c]

-----------------------------------------------------------------------------
Senders == {c \in Conns : snd[c].pc \notin {"idle", "ok", "failed"}}
Handlers == {c \in Conns : rcv[c].pc \notin {"none", "acked", "failed"}}
Live == Senders \cup Handlers

SenderState ==
    [pc : {"idle", "hello", "query", "file", "stream", "ack", "ok", "failed"},
     size : [Files -> Nat],            \* FileInfo.Size of the stat
     off : [Files -> Offset],          \* offsets of resolveResume
     idx : 1..(NFiles + 1),            \* the file being sent
     pos : Nat,                        \* where f is read next
     hash : File,                      \* hasher of sendFile
     cancelled : BOOLEAN]              \* ctx.Err() # nil

HandlerState ==
    [pc : {"none", "hello", "query", "file", "open", "drain", "acked", "failed"},
     off : [Files -> Offset],          \* offsets of handleConn
     idx : 1..(NFiles + 1),            \* the file being received
     pos : Nat,                        \* where f is written next
     hash : File]                      \* hasher of receiveFile

TypeOK ==
    /\ src \in [Files -> File \cup {None}]
    /\ dest \in [Files -> File \cup {None}]
    /\ snd \in [Conns -> SenderState]
    /\ rcv \in [Conns -> HandlerState]
    /\ toR \in [Conns -> Seq(ToReceiver)]
    /\ toS \in [Conns -> Seq(ToSender)]
    /\ link \in [Conns -> {"none", "up", "down"}]
    /\ edits \in 0..MaxEdits
    /\ hit \in SUBSET Conns
    /\ told \in [Conns -> [Files -> File \cup {None}]]
    /\ taken \in [Conns -> [Files -> File \cup {None}]]
    /\ latest \in Conns \cup {None}
    /\ opener \in [Files -> Conns \cup {None}]

Init ==
    /\ src \in [Files -> InitSrc]
    /\ dest \in [Files -> InitDest]
    /\ snd = [c \in Conns |->
                [pc |-> "idle", size |-> [f \in Files |-> 0],
                 off |-> [f \in Files |-> 0], idx |-> 1, pos |-> 0,
                 hash |-> <<>>, cancelled |-> FALSE]]
    /\ rcv = [c \in Conns |->
                [pc |-> "none", off |-> [f \in Files |-> 0], idx |-> 1,
                 pos |-> 0, hash |-> <<>>]]
    /\ toR = [c \in Conns |-> <<>>]
    /\ toS = [c \in Conns |-> <<>>]
    /\ link = [c \in Conns |-> "none"]
    /\ edits = 0
    /\ hit = {}
    /\ told = [c \in Conns |-> [f \in Files |-> None]]
    /\ taken = [c \in Conns |-> [f \in Files |-> None]]
    /\ latest = None
    /\ opener = [f \in Files |-> None]

-----------------------------------------------------------------------------
(* The sender.                                                             *)

\* Send returns: the deferred Close takes the connection down.
SenderEnds(c, how) ==
    /\ snd' = [snd EXCEPT ![c].pc = how]
    /\ link' = [link EXCEPT ![c] = "down"]
    /\ toS' = [toS EXCEPT ![c] = <<>>]

\* Send: every file is found and stat'ed, the dial succeeds, Hello goes out,
\* and the receiver's accept loop starts a handler.
Send(c) ==
    /\ snd[c].pc = "idle"
    /\ Cardinality(Live) < MaxLive
    /\ Cardinality(Senders) < MaxSenders
    /\ Present = Files
    /\ snd' = [snd EXCEPT ![c] = [@ EXCEPT
          !.pc = "hello", !.size = [f \in Files |-> Len(src[f])]]]
    /\ rcv' = [rcv EXCEPT ![c].pc = "hello"]
    /\ link' = [link EXCEPT ![c] = "up"]
    /\ toR' = [toR EXCEPT ![c] = <<Hello>>]
    /\ latest' = c
    /\ UNCHANGED <<src, dest, toS, edits, hit, told, taken, opener>>

\* Mutant: only files with a whole chunk are worth a query.
Candidates_WholeChunks(have) == {f \in Files : have[f] >= ChunkSize}

\* resolveResume: the files the receiver has bytes of.
Candidates(have) == {f \in Files : have[f] > 0}

\* resolveResume with no candidate: everything is sent from the start.
StartFresh(c) ==
    /\ snd[c].pc = "hello"
    /\ toS[c] # <<>> /\ Head(toS[c]).kind = "HelloAck"
    /\ Candidates(Head(toS[c]).have) = {}
    /\ snd' = [snd EXCEPT ![c].pc = "file"]
    /\ toS' = [toS EXCEPT ![c] = Tail(toS[c])]
    /\ UNCHANGED <<src, dest, rcv, toR, link, edits, hit, ghosts>>

\* resolveResume with candidates: hash them, send one batch of queries.
SendQueries(c) ==
    /\ snd[c].pc = "hello"
    /\ toS[c] # <<>> /\ Head(toS[c]).kind = "HelloAck"
    /\ LET asked == Candidates(Head(toS[c]).have)
       IN  /\ asked # {}
           /\ asked \subseteq Present
           /\ toR' = [toR EXCEPT ![c] = Put(c, toR,
                 <<QueryBatch([f \in Files |->
                     IF f \in asked THEN ResumeQuery(snd[c].size[f], src[f])
                     ELSE None])>>)]
    /\ snd' = [snd EXCEPT ![c].pc = "query"]
    /\ toS' = [toS EXCEPT ![c] = Tail(toS[c])]
    /\ UNCHANGED <<src, dest, rcv, link, edits, hit, ghosts>>

\* resolveResume, the answers.
RecvAnswers(c) ==
    /\ snd[c].pc = "query"
    /\ toS[c] # <<>> /\ Head(toS[c]).kind = "ResumeAnswerBatch"
    /\ LET answers == Head(toS[c]).answers
       IN  snd' = [snd EXCEPT ![c] = [@ EXCEPT
             !.pc = "file", !.off = answers, !.idx = NextFile(answers, 1)]]
    /\ toS' = [toS EXCEPT ![c] = Tail(toS[c])]
    /\ UNCHANGED <<src, dest, rcv, toR, link, edits, hit, ghosts>>

\* Mutant: the digest of a resumed file covers only what is streamed.
PrefixDigest_TailOnly(f, offset) == <<>>

\* sendFile: the digest starts with the prefix the receiver keeps.
PrefixDigest(f, offset) == Prefix(src[f], offset)

\* Whether the source still has the prefix the receiver keeps.
Resumable(c, f) == f \in Present /\ snd[c].off[f] <= Len(src[f])

\* sendFile up to FileStart: fold the kept prefix into the digest.
SendFileStart(c) ==
    LET f == snd[c].idx
        offset == snd[c].off[f]
    IN  /\ snd[c].pc = "file"
        /\ f \in Files
        /\ ~snd[c].cancelled
        /\ Resumable(c, f)
        /\ snd' = [snd EXCEPT ![c] = [@ EXCEPT
              !.pc = "stream", !.pos = offset,
              !.hash = PrefixDigest(f, offset)]]
        /\ toR' = [toR EXCEPT ![c] = Put(c, toR, <<FileStart(f, offset)>>)]
        /\ UNCHANGED <<src, dest, rcv, toS, link, edits, hit, ghosts>>

\* A source that is gone, or too short for its resume offset, ends the run:
\* in hashFileChunks, os.Open or hashPrefixInto.
SourceFails(c) ==
    /\ \/ /\ snd[c].pc = "hello"
          /\ toS[c] # <<>> /\ Head(toS[c]).kind = "HelloAck"
          /\ ~(Candidates(Head(toS[c]).have) \subseteq Present)
       \/ /\ snd[c].pc = "file"
          /\ snd[c].idx \in Files
          /\ ~snd[c].cancelled
          /\ ~Resumable(c, snd[c].idx)
    /\ SenderEnds(c, "failed")
    /\ UNCHANGED <<src, dest, rcv, toR, edits, hit, ghosts>>

Unread(c) == Len(src[snd[c].idx]) - snd[c].pos

\* streamFile: one whole chunk, read, hashed and written.
StreamChunk(c) ==
    LET f == snd[c].idx
        data == SubSeq(src[f], snd[c].pos + 1, snd[c].pos + ChunkSize)
    IN  /\ snd[c].pc = "stream"
        /\ Unread(c) >= ChunkSize
        /\ ~snd[c].cancelled
        /\ snd' = [snd EXCEPT ![c] = [@ EXCEPT
              !.pos = snd[c].pos + ChunkSize, !.hash = snd[c].hash \o data]]
        /\ toR' = [toR EXCEPT ![c] = Put(c, toR, <<Data(f, data)>>)]
        /\ UNCHANGED <<src, dest, rcv, toS, link, edits, hit, ghosts>>

\* The end of a file in streamFile and sendFile: the short read that finds the
\* end of the file, its bytes if it has any, FileDone, and the next file.
StreamEnd(c) ==
    LET f == snd[c].idx
        rest == SubSeq(src[f], snd[c].pos + 1, Len(src[f]))
        sum == snd[c].hash \o rest
        frames == IF rest = <<>> THEN <<>> ELSE <<Data(f, rest)>>
    IN  /\ snd[c].pc = "stream"
        /\ Unread(c) < ChunkSize
        /\ rest # <<>> => ~snd[c].cancelled
        /\ snd' = [snd EXCEPT ![c] = [@ EXCEPT
              !.pc = "file", !.idx = NextFile(snd[c].off, f + 1)]]
        /\ told' = [told EXCEPT ![c][f] = sum]
        /\ toR' = [toR EXCEPT ![c] = Put(c, toR, Append(frames, FileDone(f, sum)))]
        /\ UNCHANGED <<src, dest, rcv, toS, link, edits, hit, taken, latest, opener>>

\* The context is looked at before a file and before a frame, nowhere else: a
\* run cancelled after its last frame still delivers.
CancelSeen(c) ==
    /\ snd[c].cancelled
    /\ \/ snd[c].pc = "file" /\ snd[c].idx \in Files
       \/ snd[c].pc = "stream" /\ Unread(c) > 0
    /\ SenderEnds(c, "failed")
    /\ UNCHANGED <<src, dest, rcv, toR, edits, hit, ghosts>>

\* Mutant: a cancelled run leaves the loop over the files, not Send.
AllSent_OrCancelled(c) == snd[c].idx = NFiles + 1 \/ snd[c].cancelled

AllSent(c) == snd[c].idx = NFiles + 1

SendDone(c) ==
    /\ snd[c].pc = "file"
    /\ AllSent(c)
    /\ snd' = [snd EXCEPT ![c].pc = "ack"]
    /\ toR' = [toR EXCEPT ![c] = Put(c, toR, <<Done>>)]
    /\ UNCHANGED <<src, dest, rcv, toS, link, edits, hit, ghosts>>

RecvDoneAck(c) ==
    /\ snd[c].pc = "ack"
    /\ toS[c] # <<>> /\ Head(toS[c]).kind = "DoneAck"
    /\ SenderEnds(c, "ok")
    /\ UNCHANGED <<src, dest, rcv, toR, edits, hit, ghosts>>

\* A read finds the end of the connection, or a write fails on it.
SenderIOError(c) ==
    /\ c \in Senders
    /\ link[c] = "down"
    /\ snd[c].pc \in {"hello", "query", "ack"} => toS[c] = <<>>
    /\ SenderEnds(c, "failed")
    /\ UNCHANGED <<src, dest, rcv, toR, edits, hit, ghosts>>

-----------------------------------------------------------------------------
(* The receiver.                                                           *)

\* handleConn returns: the deferred Close takes the connection down.
HandlerEnds(c, how) ==
    /\ rcv' = [rcv EXCEPT ![c].pc = how]
    /\ link' = [link EXCEPT ![c] = "down"]
    /\ toR' = [toR EXCEPT ![c] = <<>>]

Incoming(c, kind) == toR[c] # <<>> /\ Head(toR[c]).kind = kind

\* handleConn, phase one: stat every destination.
RecvHello(c) ==
    LET have == [f \in Files |-> IF dest[f] = None THEN 0 ELSE Len(dest[f])]
        needQuery == \E f \in Files : have[f] > 0
    IN  /\ rcv[c].pc = "hello"
        /\ Incoming(c, "Hello")
        /\ rcv' = [rcv EXCEPT ![c].pc = IF needQuery THEN "query" ELSE "file"]
        /\ toR' = [toR EXCEPT ![c] = Tail(toR[c])]
        /\ toS' = [toS EXCEPT ![c] = Put(c, toS, <<HelloAck(have)>>)]
        /\ UNCHANGED <<src, dest, snd, link, edits, hit, ghosts>>

\* handleConn: the offset a file is answered with.
Resolved(answer) == IF answer.complete THEN Skip ELSE answer.offset

\* handleConn, phase two: match every file that may resume.
RecvQueries(c) ==
    LET queries == Head(toR[c]).queries
        answers == [f \in Files |->
            IF queries[f] = None THEN 0
            ELSE Resolved(matchResume(dest[f], queries[f]))]
    IN  /\ rcv[c].pc = "query"
        /\ Incoming(c, "ResumeQueryBatch")
        /\ rcv' = [rcv EXCEPT ![c] = [@ EXCEPT
              !.pc = "file", !.off = answers, !.idx = NextFile(answers, 1)]]
        /\ toR' = [toR EXCEPT ![c] = Tail(toR[c])]
        /\ toS' = [toS EXCEPT ![c] = Put(c, toS, <<AnswerBatch(answers)>>)]
        /\ UNCHANGED <<src, dest, snd, link, edits, hit, ghosts>>

\* Mutant: the destination is opened with O_TRUNC.
Reopened_Emptied(c, f) == <<>>

\* receiveFile: what is left of a destination once it is open.
Reopened(c, f) == Truncate(dest[f], rcv[c].off[f])

\* receiveFile: the frame only says that a file begins; which one, and where,
\* the handler knows itself.  The destination is opened and cut.
RecvFileStart(c) ==
    LET f == rcv[c].idx
    IN  /\ rcv[c].pc = "file"
        /\ f \in Files
        /\ Incoming(c, "FileStart")
        /\ dest' = [dest EXCEPT ![f] = Reopened(c, f)]
        /\ opener' = [opener EXCEPT ![f] = c]
        /\ rcv' = [rcv EXCEPT ![c].pc = "open"]
        /\ toR' = [toR EXCEPT ![c] = Tail(toR[c])]
        /\ UNCHANGED <<src, snd, toS, link, edits, hit, told, taken, latest>>

\* receiveFile: the kept prefix is read back into the digest.
HashPrefix(c) ==
    LET f == rcv[c].idx
        offset == rcv[c].off[f]
    IN  /\ rcv[c].pc = "open"
        /\ offset <= Len(dest[f])
        /\ rcv' = [rcv EXCEPT ![c] = [@ EXCEPT
              !.pc = "drain", !.pos = offset, !.hash = Prefix(dest[f], offset)]]
        /\ UNCHANGED <<src, dest, snd, wires, edits, hit, ghosts>>

\* receiveFile: another handler cut the file between the two steps above.
PrefixGone(c) ==
    /\ rcv[c].pc = "open"
    /\ rcv[c].off[rcv[c].idx] > Len(dest[rcv[c].idx])
    /\ HandlerEnds(c, "failed")
    /\ UNCHANGED <<src, dest, snd, toS, edits, hit, ghosts>>

\* drainFile, a data frame.
RecvData(c) ==
    LET f == rcv[c].idx
        payload == Head(toR[c]).payload
    IN  /\ rcv[c].pc = "drain"
        /\ Incoming(c, "Data")
        /\ dest' = [dest EXCEPT ![f] = WriteAt(dest[f], rcv[c].pos, payload)]
        /\ rcv' = [rcv EXCEPT ![c] = [@ EXCEPT
              !.pos = rcv[c].pos + Len(payload),
              !.hash = rcv[c].hash \o payload]]
        /\ toR' = [toR EXCEPT ![c] = Tail(toR[c])]
        /\ UNCHANGED <<src, snd, toS, link, edits, hit, ghosts>>

\* Mutant: the checksum is not compared.
ChecksumOK_Trusted(c) == TRUE

\* The digest of what landed is the digest the sender announces.
ChecksumOK(c) == rcv[c].hash = Head(toR[c]).sum

\* drainFile and receiveFile, FileDone with the right digest.
RecvFileDone(c) ==
    LET f == rcv[c].idx
    IN  /\ rcv[c].pc = "drain"
        /\ Incoming(c, "FileDone")
        /\ ChecksumOK(c)
        /\ rcv' = [rcv EXCEPT ![c] = [@ EXCEPT
              !.pc = "file", !.idx = NextFile(rcv[c].off, f + 1)]]
        /\ taken' = [taken EXCEPT ![c][f] = Head(toR[c]).sum]
        /\ toR' = [toR EXCEPT ![c] = Tail(toR[c])]
        /\ UNCHANGED <<src, dest, snd, toS, link, edits, hit, told, latest, opener>>

\* receiveFile: "checksum mismatch".
ChecksumMismatch(c) ==
    /\ rcv[c].pc = "drain"
    /\ Incoming(c, "FileDone")
    /\ ~ChecksumOK(c)
    /\ HandlerEnds(c, "failed")
    /\ UNCHANGED <<src, dest, snd, toS, edits, hit, ghosts>>

RecvDone(c) ==
    /\ rcv[c].pc = "file"
    /\ rcv[c].idx = NFiles + 1
    /\ Incoming(c, "Done")
    /\ toS' = [toS EXCEPT ![c] = Put(c, toS, <<DoneAck>>)]
    /\ HandlerEnds(c, "acked")
    /\ UNCHANGED <<src, dest, snd, edits, hit, ghosts>>

\* A read finds the end of the connection.
HandlerEOF(c) ==
    /\ c \in Handlers
    /\ rcv[c].pc # "open"
    /\ link[c] = "down"
    /\ toR[c] = <<>>
    /\ HandlerEnds(c, "failed")
    /\ UNCHANGED <<src, dest, snd, toS, edits, hit, ghosts>>

-----------------------------------------------------------------------------
(* The environment: faults, cancellation and users.                        *)

Strike(c) ==
    /\ c \notin hit
    /\ Cardinality(hit) < MaxFaults
    /\ hit' = hit \cup {c}

\* The connection breaks; each direction loses what its end has not read yet
\* from some point on.  Also the reset that a close causes while frames are
\* still unread, and the death of the sender's process.
LinkFails(c) ==
    /\ c \in Live
    /\ Strike(c)
    /\ \E m \in 0..Len(toR[c]), n \in 0..Len(toS[c]) :
        /\ toR' = [toR EXCEPT ![c] = Prefix(@, m)]
        /\ toS' = [toS EXCEPT ![c] = Prefix(@, n)]
    /\ link' = [link EXCEPT ![c] = "down"]
    /\ UNCHANGED <<src, dest, snd, rcv, edits, ghosts>>

\* The handler stops for good, in the middle of a write perhaps: the disk is
\* full, or the receiver's process dies (and may be started again).
HandlerDies(c) ==
    LET f == rcv[c].idx
    IN  /\ c \in Handlers
        /\ Strike(c)
        /\ \/ dest' = dest
           \/ /\ rcv[c].pc = "drain"
              /\ Incoming(c, "Data")
              /\ \E n \in 1..Len(Head(toR[c]).payload) :
                    dest' = [dest EXCEPT ![f] =
                        WriteAt(@, rcv[c].pos, Prefix(Head(toR[c]).payload, n))]
        /\ HandlerEnds(c, "failed")
        /\ UNCHANGED <<src, snd, toS, edits, ghosts>>

Cancel(c) ==
    /\ c \in Senders
    /\ ~snd[c].cancelled
    /\ snd' = [snd EXCEPT ![c].cancelled = TRUE]
    /\ UNCHANGED <<src, dest, rcv, wires, edits, hit, ghosts>>

\* A user rewrites a source in place, or removes one that no run has open.
EditSource(f) ==
    /\ edits < MaxEdits
    /\ \E new \in Edits \ {src[f]} :
        /\ new = None => \A c \in Conns : ~(snd[c].pc = "stream" /\ snd[c].idx = f)
        /\ src' = [src EXCEPT ![f] = new]
    /\ edits' = edits + 1
    /\ UNCHANGED <<dest, snd, rcv, wires, hit, ghosts>>

-----------------------------------------------------------------------------
SenderStep(c) ==
    \/ StartFresh(c) \/ SendQueries(c) \/ RecvAnswers(c)
    \/ SendFileStart(c) \/ SourceFails(c)
    \/ StreamChunk(c) \/ StreamEnd(c) \/ CancelSeen(c)
    \/ SendDone(c) \/ RecvDoneAck(c) \/ SenderIOError(c)

HandlerStep(c) ==
    \/ RecvHello(c) \/ RecvQueries(c)
    \/ RecvFileStart(c) \/ HashPrefix(c) \/ PrefixGone(c)
    \/ RecvData(c) \/ RecvFileDone(c) \/ ChecksumMismatch(c)
    \/ RecvDone(c) \/ HandlerEOF(c)

\* Nothing is left to do: no stutter hides a run that hangs.
AtRest ==
    /\ Live = {}
    /\ UNCHANGED vars

Next ==
    \/ \E c \in Conns :
        \/ Send(c) \/ SenderStep(c) \/ HandlerStep(c)
        \/ LinkFails(c) \/ HandlerDies(c) \/ Cancel(c)
    \/ \E f \in Files : EditSource(f)
    \/ AtRest

Spec == Init /\ [][Next]_vars

\* The Go scheduler runs every goroutine that can run.  Nothing is assumed of
\* users, faults or cancellation.
Fairness == \A c \in Conns : WF_vars(SenderStep(c)) /\ WF_vars(HandlerStep(c))

FairSpec == Spec /\ Fairness

-----------------------------------------------------------------------------
(* Properties.                                                             *)

\* What the file at the head of a direction may be, given what its reader is
\* about to do.  Data frames and FileStart are taken for the file the handler
\* has reached by itself (drainFile and receiveFile look at no name and no
\* offset in them), so the two loops must never get out of step.
HandlerExpects(c) ==
    LET m == Head(toR[c])
        f == rcv[c].idx
    IN  CASE rcv[c].pc = "hello" -> m.kind = "Hello"
          [] rcv[c].pc = "query" -> m.kind = "ResumeQueryBatch"
          [] rcv[c].pc = "file" /\ f \in Files ->
                m.kind = "FileStart" /\ m.file = f /\ m.offset = rcv[c].off[f]
          [] rcv[c].pc \in {"open", "drain"} ->
                m.kind \in {"Data", "FileDone"} /\ m.file = f
          [] OTHER -> m.kind = "Done"

SenderExpects(c) ==
    LET m == Head(toS[c])
    IN  CASE snd[c].pc = "hello" -> m.kind = "HelloAck"
          [] snd[c].pc = "query" -> m.kind = "ResumeAnswerBatch"
          [] snd[c].pc = "ack" -> m.kind = "DoneAck"
          [] OTHER -> FALSE

\* Neither end ever reads a frame of another kind, file or offset than the one
\* its place in the protocol calls for, whatever was lost, cancelled or edited.
ExpectedFrames ==
    \A c \in Conns :
        /\ (c \in Handlers /\ toR[c] # <<>>) => HandlerExpects(c)
        /\ (c \in Senders /\ toS[c] # <<>>) => SenderExpects(c)

\* protocol.go says of FileDone: the digest is computed while streaming "so
\* neither side needs a separate verification pass".  For that the file on
\* disk must be the very bytes the handler hashed: once the handler that last
\* opened a file has found its digest equal, the file has that digest.
DeliveredIntact ==
    \A c \in Conns, f \in Files :
        (opener[f] = c /\ taken[c][f] # None) => dest[f] = taken[c][f]

\* What Send may conclude from its nil error: every file it did not skip was
\* checked by the receiver against the digest Send told it, and it is on disk
\* as long as no later run opened it.
SuccessMeansDelivered ==
    \A c \in Conns, f \in Files :
        (snd[c].pc = "ok" /\ snd[c].off[f] # Skip) =>
            /\ told[c][f] # None
            /\ taken[c][f] = told[c][f]
            /\ opener[f] = c => dest[f] = told[c][f]

\* Without edits, a successful run leaves at the receiver what the sender has,
\* skipped files included as far as they go.
SuccessMeansSame ==
    \A c \in Conns, f \in Files :
        (snd[c].pc = "ok" /\ edits = 0 /\ Live = {}) =>
            IF snd[c].off[f] = Skip
            THEN IsPrefix(src[f], dest[f])
            ELSE dest[f] = src[f]

\* protocol.go calls DoneAck "the receiver's confirmation that everything
\* checks out": until Send is called again, what the last call was told is
\* there is there.
AckedIsOnDisk ==
    \A c \in Conns, f \in Files :
        (latest = c /\ snd[c].pc = "ok" /\ snd[c].off[f] # Skip)
            => dest[f] = told[c][f]

\* Nothing but a fault, a cancellation or an edit makes a run fail, whatever
\* the receiver had on disk before: no garbage there ends in a checksum
\* mismatch, no offset is beyond the end of a source.
OnlyFaultsFail ==
    \A c \in Conns :
        (edits = 0 /\ (snd[c].pc = "failed" \/ rcv[c].pc = "failed")) =>
            c \in hit \/ snd[c].cancelled

\* How many chunks the destination shares with the source from the start.
Ground(f) ==
    IF src[f] = None \/ dest[f] = None THEN 0
    ELSE FirstBreak(dest[f], ResumeQuery(Len(src[f]), src[f])) - 1

\* A failed, cancelled or repeated run never loses a chunk that had arrived:
\* reopening a destination keeps all that matches, so retries make progress.
KeepsGround ==
    [][edits' = 0 => \A f \in Files : Ground(f)' >= Ground(f)]_vars

\* How the last call of Send stands, and whether anything came in its way.
LastCall ==
    IF latest = None THEN "none"
    ELSE IF snd[latest].pc = "ok" THEN "ok"
    ELSE IF snd[latest].pc # "failed" THEN "running"
    ELSE IF latest \in Handlers THEN "lingering" ELSE "failed"

LastDisturbed == latest # None /\ (latest \in hit \/ snd[latest].cancelled)

Promise == INSTANCE Delivery WITH
    call <- LastCall, disturbed <- LastDisturbed, edited <- edits > 0

\* What a caller of Send may rely on: module Delivery.  It takes the two loops, the
\* resume decision and the checksum together, over any number of broken, cancelled
\* and repeated calls.
KeepsDelivery == Promise!Spec

\* Send and handleConn have no timeouts, yet both return once the connection is
\* made: neither waits for a frame the other will not send.
Settles == \A c \in Conns : (c \in Live) ~> (c \notin Live)

=============================================================================
