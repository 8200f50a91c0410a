--------------------------- MODULE BridgeSession ----------------------------
(***************************************************************************)
(* One session of the bridge (internal/bridge.go): the read loop, the       *)
(* goroutines of the transfers it started, and the pings, which all write   *)
(* to the same WebSocket.  The transfer itself is module Transfer; here it  *)
(* is Frames steps, each a frame or a report, and it may fail.              *)
(*                                                                         *)
(* A step of a goroutine ends where it may wait: out holds the events it    *)
(* has yet to write before it goes on.                                      *)
(***************************************************************************)
EXTENDS ControlChannel

CONSTANTS
    Frames        \* bound: how many frames and reports a transfer takes

ASSUME FramesAssumption == Frames \in Nat

VARIABLES
    authed,
    busy,
    cancel,      \* the transfer sess.cancel cancels, 0 for nil
    nextID,
    activeID,
    loop,        \* the read loop of run
    task,        \* task[k]: the goroutine of transfer k
    cancelled,   \* the transfers whose context is cancelled
    lastWord     \* history: what the phone was told of the end of k

session == <<authed, busy, cancel, nextID, activeID>>
vars == <<channel, session, loop, task, cancelled, lastWord>>

LoopState == [pc : {"read", "close", "closed"}, out : Seq(Event)]

TaskState ==
    [pc : {"none", "send", "clear", "last"},   \* "clear": Send has returned
     left : 0..Frames,                         \* steps left of Send
     err : BOOLEAN,                            \* err # nil
     out : Seq(Event)]

\* The transfers whose goroutine has not yet given the session back.
Working == {k \in Transfers : task[k].pc \in {"send", "clear"}}

Over(k) == task[k].pc = "last" /\ task[k].out = <<>>

TypeOK ==
    /\ ChannelTypeOK
    /\ authed \in BOOLEAN /\ busy \in BOOLEAN
    /\ cancel \in 0..MaxSends
    /\ nextID \in 0..MaxSends
    /\ activeID \in 0..MaxSends
    /\ loop \in LoopState
    /\ task \in [Transfers -> TaskState]
    /\ cancelled \subseteq Transfers
    /\ lastWord \in [Transfers -> {"none", "done", "error"}]

Init ==
    /\ ChannelInit
    /\ authed \in BOOLEAN    \* TRUE when the bridge was started without a secret
    /\ busy = FALSE
    /\ cancel = 0 /\ nextID = 0 /\ activeID = 0
    /\ loop = [pc |-> "read", out |-> <<Hello>>]
    /\ task = [k \in Transfers |->
                 [pc |-> "none", left |-> Frames, err |-> FALSE, out |-> <<>>]]
    /\ cancelled = {}
    /\ lastWord = [k \in Transfers |-> "none"]

-----------------------------------------------------------------------------
(* The read loop.                                                          *)

LoopWrites ==
    /\ loop.out # <<>>
    /\ Write(Head(loop.out))
    /\ loop' = [loop EXCEPT !.out = Tail(@)]
    /\ UNCHANGED <<inbox, link, commands, sends, silences, session, task, cancelled, lastWord>>

\* ReadText returns a command.
Reads(type) ==
    /\ loop.pc = "read" /\ loop.out = <<>>
    /\ inbox # <<>> /\ Head(inbox).type = type
    /\ inbox' = Tail(inbox)
    /\ UNCHANGED <<outbox, link, commands, sends, silences>>

Answers(event) == loop' = [loop EXCEPT !.out = <<event>>]

\* authenticate with the right secret.  listRoot never fails: what it cannot read
\* it leaves out.
Authenticate ==
    /\ Reads("auth")
    /\ authed' = TRUE
    /\ Answers(Catalog)
    /\ UNCHANGED <<busy, cancel, nextID, activeID, task, cancelled, lastWord>>

SendCatalog ==
    /\ Reads("list")
    /\ Answers(IF authed THEN Catalog ELSE Error(0))
    /\ UNCHANGED <<session, task, cancelled, lastWord>>

\* Mutant: a transfer that runs does not keep another from starting.
Free_Always == authed

\* dispatch and startSend accept a send.
Free == authed /\ ~busy

StartSend ==
    /\ Reads("send")
    /\ Free
    /\ nextID < MaxSends    \* bound, kept by the phone
    /\ LET id == nextID + 1
       IN  /\ nextID' = id
           /\ activeID' = id
           /\ cancel' = id
           /\ task' = [task EXCEPT ![id].pc = "send"]
    /\ busy' = TRUE
    /\ UNCHANGED <<authed, loop, cancelled, lastWord>>

Refuse ==
    /\ \/ Reads("refused")
       \/ Reads("send") /\ ~Free
       \/ Reads("cancel") /\ ~authed
    /\ Answers(Error(0))
    /\ UNCHANGED <<session, task, cancelled, lastWord>>

\* Mutant: a cancel reaches whatever runs.
Aborted_Any(id) == {cancel} \ {0}

\* abort: the transfers a cancel of id reaches.
Aborted(id) == IF id \in {0, activeID} THEN {cancel} \ {0} ELSE {}

Abort ==
    /\ Reads("cancel")
    /\ authed
    /\ cancelled' = cancelled \cup Aborted(Head(inbox).id)
    /\ UNCHANGED <<session, loop, task, lastWord>>

\* Mutant: run returns without a look at what it left running.
Abandoned_Nothing == {}

\* What the loop cancels when the client is gone: abort(0).
Abandoned == Aborted(0)

\* ReadText fails: a close frame, or the end of the connection.
ReadFails ==
    /\ \/ Reads("close")
       \/ /\ loop.pc = "read" /\ loop.out = <<>>
          /\ inbox = <<>> /\ Down
          /\ UNCHANGED channel
    /\ cancelled' = cancelled \cup Abandoned
    /\ loop' = [loop EXCEPT !.pc = "close"]
    /\ UNCHANGED <<session, task, lastWord>>

\* Close: a close frame, which waits for room like any other, and the end.
Close ==
    /\ loop.pc = "close"
    /\ Write(CloseFrame)
    /\ link' = IF link = "gone" THEN "gone" ELSE "closed"
    /\ loop' = [loop EXCEPT !.pc = "closed"]
    /\ UNCHANGED <<inbox, commands, sends, silences, session, task, cancelled, lastWord>>

LoopStep ==
    \/ LoopWrites \/ Authenticate \/ SendCatalog \/ StartSend \/ Refuse
    \/ Abort \/ ReadFails \/ Close

\* Mutant: no ticker.
Ticks_Never == FALSE

\* The ticker runs from the first event to the end of run.
Ticks == ~(loop.out = <<Hello>>) /\ loop.pc = "read"

WritePing ==
    /\ Ticks
    /\ ~Down /\ Write(Ping)
    /\ UNCHANGED <<inbox, link, commands, sends, silences, session, loop, task, cancelled,
                   lastWord>>

-----------------------------------------------------------------------------
(* The goroutine of a transfer.                                            *)

InSend(k) == task[k].pc = "send" /\ task[k].out = <<>>

\* flush and emit, on the goroutine that sends the file.
TaskWrites(k) ==
    LET event == Head(task[k].out)
    IN  /\ task[k].out # <<>>
        /\ Write(event)
        /\ task' = [task EXCEPT ![k].out = Tail(@)]
        /\ lastWord' = IF event.type \in {"done", "error"} /\ ~Down
                       THEN [lastWord EXCEPT ![k] = event.type]
                       ELSE lastWord
        /\ UNCHANGED <<inbox, link, commands, sends, silences, session, loop, cancelled>>

\* Plan, FileBegin and FileEnd report, without a look at the context.
Reports(k) ==
    /\ InSend(k)
    /\ task[k].left > 0
    /\ task' = [task EXCEPT ![k].left = @ - 1, ![k].out = <<Progress(k)>>]
    /\ UNCHANGED <<channel, session, loop, cancelled, lastWord>>

\* A frame goes out, unless ctx.Err() # nil, and FileProgress reports if it is due.
SendsFrame(k) ==
    /\ InSend(k)
    /\ task[k].left > 0
    /\ k \notin cancelled
    /\ \E out \in {<<>>, <<Progress(k)>>} :
          task' = [task EXCEPT ![k].left = @ - 1, ![k].out = out]
    /\ UNCHANGED <<channel, session, loop, cancelled, lastWord>>

\* Send returns an error; a file that had begun is reported as failed.
ReturnsError(k) ==
    /\ \E out \in {<<>>, <<Progress(k)>>} :
          task' = [task EXCEPT ![k].pc = "clear", ![k].err = TRUE, ![k].out = out]
    /\ UNCHANGED <<channel, session, loop, cancelled, lastWord>>

\* ctx.Err() # nil, looked at before a frame.
SeesCancel(k) == InSend(k) /\ task[k].left > 0 /\ k \in cancelled /\ ReturnsError(k)

\* The receiver, a file or the network fails it.
TransferFails(k) == InSend(k) /\ ReturnsError(k)

\* Finish, and Send returns nil.
Finish(k) ==
    /\ InSend(k)
    /\ task[k].left = 0
    /\ task' = [task EXCEPT ![k].pc = "clear", ![k].out = <<Progress(k), DoneEvent(k)>>]
    /\ UNCHANGED <<channel, session, loop, cancelled, lastWord>>

\* Mutant: the counters are reported in any case.
Epilogue_Always(k) ==
    IF task[k].err THEN <<Progress(k), Error(k)>> ELSE <<Progress(k)>>

\* What is left to say after Send: of an error, the counters and the error.
Epilogue(k) == IF task[k].err THEN <<Progress(k), Error(k)>> ELSE <<>>

\* The session is free for another transfer before the error is reported.
GiveBack(k) ==
    /\ task[k].pc = "clear" /\ task[k].out = <<>>
    /\ busy' = FALSE
    /\ cancel' = 0
    /\ activeID' = 0
    /\ task' = [task EXCEPT ![k].pc = "last", ![k].out = Epilogue(k)]
    /\ UNCHANGED <<channel, authed, nextID, loop, cancelled, lastWord>>

TaskStep(k) ==
    \/ TaskWrites(k) \/ Reports(k) \/ SendsFrame(k) \/ SeesCancel(k) \/ Finish(k)
    \/ GiveBack(k)

-----------------------------------------------------------------------------
Phone ==
    /\ (\E command \in Command : PhoneSays(command)) \/ PhoneReads \/ PhoneDrops
    /\ UNCHANGED <<session, loop, task, cancelled, lastWord>>

Network ==
    /\ FallsSilent \/ ComesBack \/ KernelGivesUp
    /\ UNCHANGED <<session, loop, task, cancelled, lastWord>>

Next ==
    \/ LoopStep
    \/ WritePing
    \/ \E k \in Transfers : TaskStep(k) \/ TransferFails(k)
    \/ Phone
    \/ Network

Spec == Init /\ [][Next]_vars

\* Goroutines run, and one that waits for the WebSocket gets its turn (a
\* sync.Mutex lets nobody starve): pings cannot take all the room there is.  The
\* ticker ticks, and TCP gives up in the end.  The receiver of the files is
\* healthy: a frame can always be sent to it.  Nothing is assumed of the phone.
Fairness ==
    /\ SF_vars(LoopStep) /\ WF_vars(WritePing)
    /\ \A k \in Transfers : SF_vars(TaskStep(k))
    /\ WF_vars(KernelGivesUp /\ UNCHANGED <<session, loop, task, cancelled, lastWord>>)

FairSpec == Spec /\ Fairness

\* A phone that also reads what it is sent, while the connection is up.
ReadingSpec ==
    FairSpec /\ WF_vars(PhoneReads /\ UNCHANGED <<session, loop, task, cancelled, lastWord>>)

-----------------------------------------------------------------------------
(* The session as its phone sees it.                                       *)

\* An event, without the id that errors do not carry.
Shown(event) == IF event.type = "error" THEN [type |-> "error"] ELSE event

Seen(events) == [i \in DOMAIN events |-> Shown(events[i])]

\* The transfer at work was told to stop.
Stopped == activeID \in cancelled

\* How far the transfer at work is.
Outcome ==
    IF Working = {} \/ task[activeID].pc = "send" THEN "open"
    ELSE IF task[activeID].err THEN "failed" ELSE "sent"

Promised ==
    [loop |-> loop.pc,
     answer |-> Seen(loop.out),
     authed |-> authed,
     last |-> nextID,
     active |-> activeID,
     stopped |-> Stopped,
     outcome |-> Outcome,
     voice |-> [k \in Transfers |-> Seen(task[k].out)]]

Promise ==
    INSTANCE Session WITH
        Sockets <- {1},
        link <- [s \in {1} |-> IF link = "silent" THEN "up" ELSE link],
        inbox <- [s \in {1} |-> inbox],
        outbox <- [s \in {1} |-> Seen(outbox)],
        sess <- [s \in {1} |-> Promised]

-----------------------------------------------------------------------------
(* Properties.                                                             *)

\* The locks, the flags and the goroutines of a session together do what module
\* Session promises: commands are answered in turn, one transfer runs at a time,
\* a cancel is for that one or for nothing, each event reaches the phone in the order
\* it was written, and the outcome is the last that is said of a transfer.
KeepsSession == Promise!SessionSpec

\* At most one transfer of a session is at work, busy says whether one is, and
\* a cancel would reach that one and no other (startSend, abort, and the end of
\* the goroutine, each under sess.mu).
OneTransfer ==
    /\ \A j, k \in Working : j = k
    /\ busy <=> Working # {}
    /\ \A k \in Working : cancel = k /\ activeID = k
    /\ ~busy => cancel = 0 /\ activeID = 0

\* run says of a client that is gone: "cancel whatever it left running".  Once
\* the loop has ended no transfer is at work that was not told to stop, and
\* none can start.
NoOrphan == loop.pc # "read" => Working \subseteq cancelled

\* The phone is told how each transfer ended, truthfully, and nothing about it
\* after that (Finish; the end of the goroutine in startSend).
ToldTheOutcome ==
    \A k \in Transfers :
        /\ lastWord[k] = "done" => task[k].left = 0 /\ ~task[k].err
        /\ lastWord[k] = "error" => task[k].err
        /\ lastWord[k] # "none" => task[k].out = <<>>
        /\ Over(k) /\ ~Down =>
              lastWord[k] = IF task[k].err THEN "error" ELSE "done"

\* run says of the pings: "so a phone that left WiFi without a close handshake
\* is noticed and its transfer context cancelled, rather than lingering forever".
Noticed ==
    (link = "silent") ~> (link = "up" \/ (loop.pc = "closed" /\ Working = {}))

\* With a phone that reads, a transfer that started ends: the goroutines that
\* share the WebSocket do not block each other for good.
TransfersEnd == \A k \in Transfers : (task[k].pc = "send") ~> Over(k)

\* README.md says of the phone: file bytes never touch it, "so a phone on flaky
\* WiFi cannot slow the transfer down".  A transfer to a healthy receiver ends
\* whatever the phone does.
PhoneCannotStall == \A k \in Transfers : (k \in Working) ~> (k \notin Working)

=============================================================================
