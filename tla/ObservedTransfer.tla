-------------------------- MODULE ObservedTransfer --------------------------
(***************************************************************************)
(* Transfer with the observer of the bridge (wsObserver in                  *)
(* internal/bridge.go), which Send calls back on its own goroutine, between  *)
(* two steps of the protocol: what the phone is shown of a run.             *)
(*                                                                         *)
(* The total and the resume point of an item are the size and the offset     *)
(* that Send has for the file; rates are left out.                          *)
(***************************************************************************)
EXTENDS Transfer

VARIABLES
    transferred,  \* transferred[c]: bytes that Send has counted
    obs,          \* obs[c]: the counters of the observer
    shown         \* shown[c]: the counters in the last event

observer == <<transferred, obs, shown>>
observedVars == <<vars, observer>>

Counters ==
    [state : [Files -> {"none", "queued", "skipped", "running", "done", "failed"}],
     sent : [Files -> Nat],     \* itemState.Sent
     sum : Nat]                 \* wsObserver.sent

ObserverTypeOK ==
    /\ transferred \in [Conns -> Nat]
    /\ obs \in [Conns -> Counters]
    /\ shown \in [Conns -> Counters]

\* newWSObserver: no item is known before the plan.
NoCounters ==
    [state |-> [f \in Files |-> "none"], sent |-> [f \in Files |-> 0], sum |-> 0]

ObservedInit ==
    /\ Init
    /\ transferred = [c \in Conns |-> 0]
    /\ obs = [c \in Conns |-> NoCounters]
    /\ shown = [c \in Conns |-> NoCounters]

-----------------------------------------------------------------------------
(* The callbacks.  Each flushes, a FileProgress only when one is due.       *)

Counted(c, counters) == obs' = [obs EXCEPT ![c] = counters]

Flush(c) == shown' = [shown EXCEPT ![c] = obs'[c]]

\* Plan, once the offsets are known.
Plan(c) ==
    LET off == snd'[c].off
    IN  /\ Counted(c,
              [state |-> [f \in Files |-> IF off[f] = Skip THEN "skipped" ELSE "queued"],
               sent |-> [f \in Files |-> IF off[f] = Skip THEN snd[c].size[f] ELSE off[f]],
               sum |-> 0])
        /\ Flush(c)
        /\ UNCHANGED transferred

FileBegin(c, f) ==
    /\ Counted(c, [obs[c] EXCEPT !.state[f] = "running"])
    /\ Flush(c)
    /\ UNCHANGED transferred

\* Mutant: the whole of the file counts, the resumed part included.
Advance_Whole(c, f, pos) == pos

\* FileProgress: by how much the sum rises when the file stands at pos.
Advance(c, f, pos) == IF pos > obs[c].sent[f] THEN pos - obs[c].sent[f] ELSE 0

\* FileProgress: the file stands at pos.
AtPos(c, f, pos) ==
    [obs[c] EXCEPT !.sent[f] = pos, !.sum = @ + Advance(c, f, pos)]

\* onChunk of sendFile, after a frame of n bytes.
FileProgress(c, f, n) ==
    /\ transferred' = [transferred EXCEPT ![c] = @ + n]
    /\ Counted(c, AtPos(c, f, snd[c].pos + n))
    /\ Flush(c) \/ UNCHANGED shown

\* Mutant: the item is only marked.
Complete_Marked(c, f, counters) == [counters EXCEPT !.state[f] = "done"]

\* FileEnd without an error.
Complete(c, f, counters) ==
    [counters EXCEPT !.state[f] = "done", !.sent[f] = snd[c].size[f]]

\* The last frame, if the file does not end with a whole chunk, and FileEnd.
FileEnd(c, f) ==
    /\ transferred' = [transferred EXCEPT ![c] = IF Unread(c) > 0 THEN @ + Unread(c) ELSE @]
    /\ Counted(c, Complete(c, f,
          IF Unread(c) > 0 THEN AtPos(c, f, snd[c].pos + Unread(c)) ELSE obs[c]))
    /\ Flush(c)

\* Mutant: a file that fails before it begins is not reported.
UnderWay_Begun(c) == snd[c].pc = "stream"

\* The run is in sendFile.
UnderWay(c) == snd[c].pc = "stream" \/ (snd[c].pc = "file" /\ snd[c].idx \in Files)

\* FileEnd with an error, when the run is in sendFile; and the flush of
\* startSend, when Send has failed.
Failure(c) ==
    /\ Counted(c, IF UnderWay(c) THEN [obs[c] EXCEPT !.state[snd[c].idx] = "failed"]
                  ELSE obs[c])
    /\ Flush(c)
    /\ UNCHANGED transferred

\* FileProgress of the last frame, if the file does not end with a whole chunk,
\* and FileEnd with the error of FileDone, which does not go out.
FailsAfterLast(c) ==
    LET f == snd[c].idx
    IN  /\ snd[c].pc = "stream" /\ ~snd[c].cancelled
        /\ Unread(c) > 0 /\ Unread(c) < ChunkSize
        /\ transferred' = [transferred EXCEPT ![c] = @ + Unread(c)]
        /\ Counted(c, [AtPos(c, f, snd[c].pos + Unread(c)) EXCEPT !.state[f] = "failed"])
        /\ Flush(c)

\* The loop over the files sees a cancellation between two files.
CancelBetween(c) == snd[c].pc = "file" /\ CancelSeen(c)

\* startSend flushes what there is; Finish does when Send succeeds.
Returned(c) == UNCHANGED <<transferred, obs>> /\ Flush(c)

-----------------------------------------------------------------------------
ObservedStep(c) ==
    \/ (StartFresh(c) \/ RecvAnswers(c)) /\ Plan(c)
    \/ SendFileStart(c) /\ FileBegin(c, snd[c].idx)
    \/ StreamChunk(c) /\ FileProgress(c, snd[c].idx, ChunkSize)
    \/ StreamEnd(c) /\ FileEnd(c, snd[c].idx)
    \/ (SourceFails(c) \/ SenderIOError(c)) /\ Failure(c)
    \/ SenderIOError(c) /\ FailsAfterLast(c)
    \/ snd[c].pc = "stream" /\ CancelSeen(c) /\ Failure(c)
    \/ (CancelBetween(c) \/ RecvDoneAck(c)) /\ Returned(c)
    \/ (SendQueries(c) \/ SendDone(c)) /\ UNCHANGED observer

ObservedNext ==
    \/ \E c \in Conns :
        \/ ObservedStep(c)
        \/ (Send(c) \/ HandlerStep(c) \/ LinkFails(c) \/ HandlerDies(c) \/ Cancel(c))
              /\ UNCHANGED observer
    \/ (\E f \in Files : EditSource(f)) /\ UNCHANGED observer
    \/ AtRest /\ UNCHANGED observer

ObservedSpec == ObservedInit /\ [][ObservedNext]_observedVars

ObservedFairSpec ==
    ObservedSpec /\
    \A c \in Conns :
        WF_observedVars(ObservedStep(c)) /\ WF_observedVars(HandlerStep(c) /\ UNCHANGED observer)

-----------------------------------------------------------------------------
(* Properties.                                                             *)

\* What a run has to stream of the files up to each one: the loops of Send and Plan.
ToStream(size, off) ==
    LET upTo[f \in 0..NFiles] ==
          IF f = 0 THEN 0
          ELSE upTo[f - 1] + (IF off[f] = Skip THEN 0 ELSE size[f] - off[f])
    IN  upTo

\* o.total of the observer.
Total(c) == ToStream(snd[c].size, snd[c].off)[NFiles]

\* Every file is done or was skipped and stands at its end, and what is shown as
\* sent is what Send has counted.
CountersAgree(c) ==
    /\ \A f \in Files :
          /\ shown[c].state[f] = IF snd[c].off[f] = Skip THEN "skipped" ELSE "done"
          /\ shown[c].sent[f] = snd[c].size[f]
    /\ shown[c].sum = transferred[c]

\* The last counters before the done event agree with it (Finish), and the sum is
\* all there was to send when nobody edited a file.
DoneIsShown ==
    \A c \in Conns :
        snd[c].pc = "ok" =>
            /\ CountersAgree(c)
            /\ edits = 0 => shown[c].sum = Total(c)

\* On the phone no bar goes back, and none goes past its end, also not by the
\* part that was resumed (Plan, FileProgress, FileEnd), unless a file is edited.
BarsOnlyRise ==
    [][\A c \in Conns :
          edits' = 0 =>
            /\ shown'[c].sum >= shown[c].sum
            /\ shown'[c].sum <= Total(c)'
            /\ \A f \in Files :
                  /\ shown'[c].sent[f] >= shown[c].sent[f]
                  /\ shown'[c].sent[f] <= snd'[c].size[f]]_observedVars

\* A run that is over shows no file as running, and each as it is: done once its
\* digest was announced, failed if it was under way when the run failed, whatever
\* the reason (FileEnd in Send, flush in startSend).
NothingLeftRunning ==
    \A c \in Conns :
        snd[c].pc \in {"ok", "failed"} =>
            /\ \A f \in Files :
                  /\ shown[c].state[f] # "running"
                  /\ shown[c].state[f] = "failed" => snd[c].pc = "failed" /\ f = snd[c].idx
                  /\ shown[c].state[f] = "done" <=> told[c][f] # None
            /\ LET f == snd[c].idx
               IN  snd[c].pc = "failed" /\ f \in Files /\ ~snd[c].cancelled =>
                      shown[c].state[f] \in {"none", "failed"}

=============================================================================
