--------------------------- MODULE StreamPipeline ---------------------------
(***************************************************************************)
(* streamFile (internal/sender.go): a reader goroutine fills buffers and    *)
(* hashes them, the caller writes them to the connection, and Depth buffers *)
(* go round between the two through the channels free and filled.           *)
(*                                                                         *)
(* A chunk is modelled by its number in the file, a buffer by its name.     *)
(***************************************************************************)
EXTENDS Naturals, Sequences

CONSTANTS Depth,     \* pipelineDepth, 3 in the program
          NChunks    \* how many chunks are left in the file

ASSUME DepthAssumption == Depth \in Nat \ {0}
ASSUME NChunksAssumption == NChunks \in Nat

VARIABLES
    free,        \* chan []byte: buffers the reader may fill
    filled,      \* chan []byte: buffers to write to the connection
    closed,      \* close(filled)
    readErr,     \* chan error of capacity 1
    done,        \* close(done), when streamFile returns
    holds,       \* holds[b]: the chunk in buffer b
    reader,      \* the local variables of the reader goroutine
    writer,      \* the local variables of streamFile's own goroutine
    hashed,      \* the chunks written to the hasher
    wire,        \* the chunks written to the connection
    cancelled,   \* ctx.Err() # nil
    broken       \* writes on the connection fail

channels == <<free, filled, closed, readErr, done>>
vars == <<channels, holds, reader, writer, hashed, wire, cancelled, broken>>

Buffers == 1..Depth
Chunks == 1..NChunks
NoBuf == 0

ReaderState ==
    [pc : {"take", "read", "pass", "report", "exit", "gone"},
     buf : Buffers \cup {NoBuf},
     err : {"none", "eof", "bad"}]     \* rerr of the last read

WriterState ==
    [pc : {"next", "send", "give", "await", "ok", "failed"},
     buf : Buffers \cup {NoBuf}]

Running == writer.pc \notin {"ok", "failed"}

TypeOK ==
    /\ free \in Seq(Buffers) /\ Len(free) <= Depth
    /\ filled \in Seq(Buffers) /\ Len(filled) <= Depth
    /\ closed \in BOOLEAN /\ done \in BOOLEAN
    /\ readErr \in Seq({"nil", "bad"}) /\ Len(readErr) <= 1
    /\ holds \in [Buffers -> Chunks \cup {0}]
    /\ reader \in ReaderState
    /\ writer \in WriterState
    /\ hashed \in Seq(Chunks)
    /\ wire \in Seq(Chunks)
    /\ cancelled \in BOOLEAN /\ broken \in BOOLEAN

\* Mutant: the new buffers are put in the wrong one of the two channels.
Init_Swapped ==
    /\ free = <<>>
    /\ filled = [b \in Buffers |-> b] /\ closed = FALSE
    /\ readErr = <<>>
    /\ done = FALSE
    /\ holds = [b \in Buffers |-> 0]
    /\ reader = [pc |-> "take", buf |-> NoBuf, err |-> "none"]
    /\ writer = [pc |-> "next", buf |-> NoBuf]
    /\ hashed = <<>> /\ wire = <<>>
    /\ cancelled = FALSE /\ broken = FALSE

Init ==
    /\ free = [b \in Buffers |-> b]
    /\ filled = <<>> /\ closed = FALSE
    /\ readErr = <<>>
    /\ done = FALSE
    /\ holds = [b \in Buffers |-> 0]
    /\ reader = [pc |-> "take", buf |-> NoBuf, err |-> "none"]
    /\ writer = [pc |-> "next", buf |-> NoBuf]
    /\ hashed = <<>> /\ wire = <<>>
    /\ cancelled = FALSE /\ broken = FALSE

-----------------------------------------------------------------------------
(* The reader goroutine.                                                   *)

\* The deferred close(filled).
ReaderReturns ==
    /\ reader' = [reader EXCEPT !.pc = "gone"]
    /\ closed' = TRUE

\* Mutant: the reader does not look at done.
Abandoned_Never == FALSE

\* A select's second case: the caller has returned.
Abandoned == done

\* Mutant: one buffer made before the loop serves every read.
Take_OneBuffer ==
    /\ reader.pc = "take"
    /\ free # <<>>
    /\ reader' = [reader EXCEPT !.pc = "read", !.buf = 1]
    /\ free' = Tail(free)
    /\ UNCHANGED <<filled, closed, readErr, done, holds, writer, hashed, wire,
                   cancelled, broken>>

Take ==
    /\ reader.pc = "take"
    /\ free # <<>>
    /\ reader' = [reader EXCEPT !.pc = "read", !.buf = Head(free)]
    /\ free' = Tail(free)
    /\ UNCHANGED <<filled, closed, readErr, done, holds, writer, hashed, wire,
                   cancelled, broken>>

\* io.ReadFull with n > 0: the bytes go to the buffer and to the hasher.  The
\* last chunk may be short; a read may fail after some bytes.
ReadSome ==
    LET chunk == Len(hashed) + 1
    IN  /\ reader.pc = "read"
        /\ chunk \in Chunks
        /\ holds' = [holds EXCEPT ![reader.buf] = chunk]
        /\ hashed' = Append(hashed, chunk)
        /\ \E err \in {"none", "eof", "bad"} :
              /\ err = "eof" => chunk = NChunks
              /\ reader' = [reader EXCEPT !.pc = "pass", !.err = err]
        /\ UNCHANGED <<channels, writer, wire, cancelled, broken>>

\* io.ReadFull with n = 0: the end of the file, or an error.
ReadNone ==
    /\ reader.pc = "read"
    /\ \E err \in {"eof", "bad"} :
          /\ err = "eof" => Len(hashed) = NChunks
          /\ reader' = [reader EXCEPT !.pc = "report", !.err = err]
    /\ UNCHANGED <<channels, holds, writer, hashed, wire, cancelled, broken>>

Pass ==
    /\ reader.pc = "pass"
    /\ Len(filled) < Depth
    /\ filled' = Append(filled, reader.buf)
    /\ reader' = [reader EXCEPT !.buf = NoBuf,
                     !.pc = IF reader.err = "none" THEN "take" ELSE "report"]
    /\ UNCHANGED <<free, closed, readErr, done, holds, writer, hashed, wire,
                   cancelled, broken>>

Abandon ==
    /\ reader.pc \in {"take", "pass"}
    /\ Abandoned
    /\ ReaderReturns
    /\ UNCHANGED <<free, filled, readErr, done, holds, writer, hashed, wire,
                   cancelled, broken>>

\* Mutant: readErr has no buffer, and nobody receives from it yet.
Reportable_Unbuffered == writer.pc = "await"

\* readErr has room for the one error that is ever sent.
Reportable == Len(readErr) < 1

Report ==
    /\ reader.pc = "report"
    /\ Reportable
    /\ readErr' = Append(readErr, IF reader.err = "eof" THEN "nil" ELSE "bad")
    /\ reader' = [reader EXCEPT !.pc = "exit"]
    /\ UNCHANGED <<free, filled, closed, done, holds, writer, hashed, wire,
                   cancelled, broken>>

Exit ==
    /\ reader.pc = "exit"
    /\ ReaderReturns
    /\ UNCHANGED <<free, filled, readErr, done, holds, writer, hashed, wire,
                   cancelled, broken>>

-----------------------------------------------------------------------------
(* The caller's goroutine.                                                 *)

\* The deferred close(done).
WriterReturns(how) ==
    /\ writer' = [writer EXCEPT !.pc = how]
    /\ done' = TRUE

\* for frame := range filled
NextFrame ==
    /\ writer.pc = "next"
    /\ filled # <<>>
    /\ writer' = [writer EXCEPT !.pc = "send", !.buf = Head(filled)]
    /\ filled' = Tail(filled)
    /\ UNCHANGED <<free, closed, readErr, done, holds, reader, hashed, wire,
                   cancelled, broken>>

NoMoreFrames ==
    /\ writer.pc = "next"
    /\ filled = <<>> /\ closed
    /\ writer' = [writer EXCEPT !.pc = "await"]
    /\ UNCHANGED <<channels, holds, reader, hashed, wire, cancelled, broken>>

\* sendFramedChunk.
SendFrame ==
    /\ writer.pc = "send"
    /\ ~cancelled /\ ~broken
    /\ wire' = Append(wire, holds[writer.buf])
    /\ writer' = [writer EXCEPT !.pc = "give"]
    /\ UNCHANGED <<channels, holds, reader, hashed, cancelled, broken>>

SendFails ==
    /\ writer.pc = "send"
    /\ cancelled \/ broken
    /\ WriterReturns("failed")
    /\ UNCHANGED <<free, filled, closed, readErr, holds, reader, hashed, wire,
                   cancelled, broken>>

GiveBack ==
    /\ writer.pc = "give"
    /\ Len(free) < Depth
    /\ free' = Append(free, writer.buf)
    /\ writer' = [writer EXCEPT !.pc = "next", !.buf = NoBuf]
    /\ UNCHANGED <<filled, closed, readErr, done, holds, reader, hashed, wire,
                   cancelled, broken>>

\* <-readErr
AwaitResult ==
    /\ writer.pc = "await"
    /\ readErr # <<>>
    /\ readErr' = Tail(readErr)
    /\ WriterReturns(IF Head(readErr) = "nil" THEN "ok" ELSE "failed")
    /\ UNCHANGED <<free, filled, closed, holds, reader, hashed, wire,
                   cancelled, broken>>

-----------------------------------------------------------------------------
(* The environment.                                                        *)

Cancel ==
    /\ ~cancelled
    /\ cancelled' = TRUE
    /\ UNCHANGED <<channels, holds, reader, writer, hashed, wire, broken>>

Break ==
    /\ ~broken
    /\ broken' = TRUE
    /\ UNCHANGED <<channels, holds, reader, writer, hashed, wire, cancelled>>

AtRest ==
    /\ ~Running /\ reader.pc = "gone"
    /\ UNCHANGED vars

ReaderStep ==
    Take \/ ReadSome \/ ReadNone \/ Pass \/ Abandon \/ Report \/ Exit

WriterStep ==
    NextFrame \/ NoMoreFrames \/ SendFrame \/ SendFails \/ GiveBack \/ AwaitResult

Next == ReaderStep \/ WriterStep \/ Cancel \/ Break \/ AtRest

Spec == Init /\ [][Next]_vars

\* Both goroutines run when they can.  A write either goes through or fails;
\* the connection is never just silent (the receiver reads until it ends).
Fairness == WF_vars(ReaderStep) /\ WF_vars(WriterStep)

FairSpec == Spec /\ Fairness

-----------------------------------------------------------------------------
(* Properties.                                                             *)

\* The buffers on their way from the hasher to the connection, in order.
InFlight ==
    (IF writer.pc = "send" THEN <<writer.buf>> ELSE <<>>)
    \o filled
    \o (IF reader.pc = "pass" THEN <<reader.buf>> ELSE <<>>)

\* While streamFile runs, every chunk that was hashed is on the connection or
\* still in a buffer of its own, in the order it was read: no buffer is filled
\* again before its bytes are written (the loop and the goroutine of streamFile
\* share the buffers without a lock).
NothingLost ==
    Running => hashed = wire \o [i \in 1..Len(InFlight) |-> holds[InFlight[i]]]

\* streamFile as its caller sees it: when it returns nil every chunk is on the
\* connection, the digest that goes into FileDone covers exactly those, and the
\* hasher is not written to any more.
Promise == INSTANCE Stream WITH
    digest <- IF writer.pc = "ok" THEN hashed ELSE <<>>,
    result <- IF Running THEN "running" ELSE writer.pc
KeepsPromise == Promise!Spec

\* streamFile returns: neither goroutine waits for the other for ever.
Returns == <>(~Running)

\* streamFile says of done: it unblocks the reader "so a failed transfer never
\* leaks the reader on a channel send".
ReaderEnds == (~Running) ~> (reader.pc = "gone")

=============================================================================
